--------------------------- MODULE ServersProofs ----------------------------
(***************************************************************************)
(* The two servers, for any number of calls, threads, ids, owners and      *)
(* passwords: their inductive invariant ServersInv, and what follows from  *)
(* it.  That every call is answered is left to TLC.                        *)
(***************************************************************************)
EXTENDS Servers, RedbStoreProofs, FiniteSetTheorems, SequenceTheorems

(* What is left to do, taken one at a time.                                *)
LEMMA TodoFacts ==
    /\ \A op : <<op>> # <<>> /\ Head(<<op>>) = op /\ Tail(<<op>>) = <<>>
    /\ \A o, p : /\ <<o, p>> # <<>> /\ Head(<<o, p>>) = o
                 /\ Tail(<<o, p>>) = <<p>>
  OBVIOUS

LEMMA IdleFacts ==
    /\ Idle \in Handler
    /\ Idle.stage = "idle"
  BY DEF Idle, Handler

LEMMA WorkType ==
    ASSUME NEW v \in Server, NEW c \in Call
    PROVE  /\ c.op \in Op
           /\ Work(v, c.op) \in {<<"delete", "persist">>}
                                   \cup {<<op>> : op \in Op}
  BY DEF Work, Op, Call

LEMMA WorkFacts ==
    ASSUME NEW v, NEW op
    PROVE  /\ Work(v, op) # <<>>
           /\ v = "rest" /\ op = "delete" =>
                  /\ Head(Work(v, op)) = "delete"
                  /\ Tail(Work(v, op)) = <<"persist">>
           /\ ~(v = "rest" /\ op = "delete") =>
                  /\ Head(Work(v, op)) = op
                  /\ Tail(Work(v, op)) = <<>>
  BY TodoFacts DEF Work

LEMMA ServersInitInv == ServersInit => ServersInv
<1> SUFFICES ASSUME ServersInit
             PROVE  ServersInv
  OBVIOUS
<1>1. IInv
  BY InitIInv DEF ServersInit
<1>2. \A s \in Sessions :
          handler[s] = Idle /\ InStage(s, "idle") /\ pc[s] = "closed"
  BY IdleFacts DEF ServersInit, Init, InStage
<1>3. OnAThread = {} /\ IsFiniteSet(OnAThread) /\ Cardinality(OnAThread) = 0
  <2>1. OnAThread = {}
    BY <1>2, IdleFacts DEF OnAThread, InStage
  <2>2. QED
    BY <2>1, FS_EmptySet
<1>4. HandlersOK
  <2>1. TypeOK
    BY <1>1 DEF IInv
  <2>2. /\ threads \in 1..MaxThreads /\ server \in [Sessions -> Server]
        /\ handler \in [Sessions -> Handler] /\ queue \in Seq(Sessions)
        /\ holder \in [Server -> Sessions \cup {Absent}]
        /\ calls \in 0..MaxCalls
    BY IdleFacts, ServersAssumption DEF ServersInit
  <2>3. \A s \in Sessions :
            /\ pc[s] # "closed" => InStage(s, "running")
            /\ handler[s].stage \in {"granted", "running"}
                   <=> holder[server[s]] = s
    BY <1>2, <2>2, IdleFacts, ServersAssumption DEF ServersInit
  <2>4. Cardinality(OnAThread) <= threads
    BY <1>3, <2>2, ServersAssumption
  <2>5. QED
    BY <2>1, <2>2, <2>3, <2>4 DEF HandlersOK
<1>5. WaitersAreQueued
  BY <1>2, IdleFacts DEF WaitersAreQueued, InStage
<1>6. \A s \in Sessions : HandlerInv(s) /\ FreshSession(s)
  <2>1. \A s \in Sessions : FreshSession(s)
    BY DEF FreshSession, ServersInit, Init
  <2>2. \A s \in Sessions : HandlerInv(s)
    BY <1>2, IdleFacts DEF HandlerInv, InStage
  <2>3. QED
    BY <2>1, <2>2
<1>7. replies = {}
  BY DEF ServersInit, Init
<1>8. SerialInv
  BY <1>2, <1>7 DEF SerialInv, AloneInv, TakenIdIsRefused,
                    ReadsSeeAcknowledgedWrite, OneEntryPerReply
<1>9. QED
  BY <1>1, <1>3, <1>4, <1>5, <1>6, <1>7, <1>8 DEF ServersInv

-----------------------------------------------------------------------------
(* Frames.                                                                 *)

(* The runtime never runs more calls than it has threads.                  *)
LEMMA ThreadsSuffice ==
    ASSUME HandlersOK, IsFiniteSet(OnAThread), threads' = threads,
           NEW s \in Sessions,
           OnAThread' \subseteq OnAThread \cup {s},
           s \in OnAThread' => HasThread(s)
    PROVE  IsFiniteSet(OnAThread)' /\ (Cardinality(OnAThread) <= threads)'
<1>1. threads \in Nat /\ Cardinality(OnAThread) <= threads
      /\ Cardinality(OnAThread) \in Nat
  BY FS_CardinalityType, ServersAssumption DEF HandlersOK
<1>2. CASE OnAThread' \subseteq OnAThread
  <2>1. IsFiniteSet(OnAThread')
        /\ Cardinality(OnAThread') <= Cardinality(OnAThread)
    BY <1>2, FS_Subset
  <2>2. Cardinality(OnAThread') \in Nat
    BY <2>1, FS_CardinalityType
  <2>3. QED
    BY <1>1, <2>1, <2>2
<1>3. CASE s \in OnAThread' /\ s \notin OnAThread
  <2>1. Cardinality(OnAThread) < threads
    BY <1>3 DEF HasThread
  <2>2. /\ IsFiniteSet(OnAThread \cup {s})
        /\ Cardinality(OnAThread \cup {s}) = Cardinality(OnAThread) + 1
    BY <1>3, FS_AddElement
  <2>3. /\ IsFiniteSet(OnAThread')
        /\ Cardinality(OnAThread') <= Cardinality(OnAThread \cup {s})
    BY <2>2, FS_Subset
  <2>4. Cardinality(OnAThread') \in Nat
    BY <2>3, FS_CardinalityType
  <2>5. QED
    BY <1>1, <2>1, <2>2, <2>3, <2>4
<1>4. QED
  BY <1>2, <1>3

(* While all calls come through one server, a session is alone.            *)
LEMMA Alone ==
    ASSUME HandlersOK, OneServer, NEW s \in Sessions, pc[s] # "closed",
           NEW q \in Sessions \ {s}
    PROVE  pc[q] = "closed"
<1>1. server[q] = server[s]
  BY DEF OneServer
<1>2. handler[s].stage = "running"
  BY DEF HandlersOK, InStage
<1>3. holder[server[s]] = s
  BY <1>2 DEF HandlersOK
<1>4. handler[q].stage # "running"
  BY <1>1, <1>3 DEF HandlersOK
<1>5. QED
  BY <1>4 DEF HandlersOK, InStage

(* What a step of the call in slot s leaves alone.                         *)
OthersKept(s) ==
    \A q \in Sessions \ {s} :
        /\ handler'[q] = handler[q] /\ pc'[q] = pc[q]
        /\ request'[q] = request[q]
        /\ records'[q] = records[q] /\ audit_log'[q] = audit_log[q]

LEMMA OtherHandlers ==
    ASSUME NEW s \in Sessions, NEW q \in Sessions \ {s}, OthersKept(s),
           server' = server, HandlerInv(q), FreshSession(q)
    PROVE  HandlerInv(q)' /\ FreshSession(q)'
<1>1. /\ handler'[q] = handler[q] /\ pc'[q] = pc[q]
      /\ request'[q] = request[q] /\ server'[q] = server[q]
      /\ records'[q] = records[q] /\ audit_log'[q] = audit_log[q]
  BY DEF OthersKept
<1>2. RunningInv(q) => RunningInv(q)'
  BY <1>1 DEF RunningInv
<1>3. QED
  BY <1>1, <1>2 DEF HandlerInv, FreshSession, InStage

(* A step that changes neither the tables nor the answers.                 *)
LEMMA SerialFrame ==
    ASSUME NEW s \in Sessions, SerialInv, OthersKept(s), AloneInv(s)',
           UNCHANGED <<disk_records, disk_audit, replies>>
    PROVE  SerialInv'
<1>1. ASSUME NEW q \in Sessions \ {s}
      PROVE  AloneInv(q)'
  <2>1. /\ handler'[q] = handler[q] /\ pc'[q] = pc[q]
        /\ request'[q] = request[q]
        /\ records'[q] = records[q] /\ audit_log'[q] = audit_log[q]
    BY DEF OthersKept
  <2>2. AloneInv(q)
    BY DEF SerialInv
  <2>3. QED
    BY <2>1, <2>2 DEF AloneInv, Current
<1>2. (TakenIdIsRefused /\ ReadsSeeAcknowledgedWrite /\ OneEntryPerReply)'
  BY DEF SerialInv, TakenIdIsRefused, ReadsSeeAcknowledgedWrite,
         OneEntryPerReply, Undisturbed
<1>3. QED
  BY <1>1, <1>2 DEF SerialInv

-----------------------------------------------------------------------------
(* Steps before a session is opened.                                       *)

LocksFit ==
    \A s \in Sessions :
        handler[s].stage \in {"granted", "running"} <=> holder[server[s]] = s

(* A step of a call that has no session.                                   *)
LEMMA QuietStep ==
    ASSUME ServersInv, NEW s \in Sessions,
           UNCHANGED <<vars, threads, server>>,
           handler' \in [Sessions -> Handler],
           \A q \in Sessions \ {s} : handler'[q] = handler[q],
           ~InStage(s, "running"), ~InStage(s, "running")',
           ~InStage(s, "idle")' => /\ handler'[s].call \in Call
                                   /\ NothingAsked(handler'[s], server[s]),
           (server[s] = "rest" /\ handler'[s].stage \in {"waiting", "granted"})
               => HasThread(s),
           queue' \in Seq(Sessions),
           holder' \in [Server -> Sessions \cup {Absent}],
           calls' \in 0..MaxCalls,
           LocksFit', WaitersAreQueued'
    PROVE  ServersInv'
<1>1. /\ HandlersOK /\ IsFiniteSet(OnAThread)
      /\ TypeOK /\ handler \in [Sessions -> Handler]
      /\ threads \in 1..MaxThreads /\ server \in [Sessions -> Server]
  BY DEF ServersInv, HandlersOK
<1>2. UNCHANGED <<disk, disk_records, disk_audit, checkpoint, pc, memory,
                  records, audit_log, request, replies>>
  BY DEF vars, disk, memory
<1>3. pc[s] = "closed" /\ OthersKept(s)
  BY <1>1, <1>2 DEF HandlersOK, OthersKept
<1>4. IInv' /\ TypeOK'
  BY StepIInv DEF ServersInv, IInv
<1>5. IsFiniteSet(OnAThread)' /\ (Cardinality(OnAThread) <= threads)'
  <2>1. OnAThread' \subseteq OnAThread \cup {s}
    BY <1>3 DEF OnAThread, InStage, OthersKept
  <2>2. s \in OnAThread' => HasThread(s)
    BY <1>3 DEF OnAThread, InStage
  <2>3. QED
    BY <1>1, <2>1, <2>2, ThreadsSuffice
<1>6. HandlersOK'
  <2>1. \A q \in Sessions : (pc[q] # "closed" => InStage(q, "running"))'
    BY <1>1, <1>2, <1>3 DEF HandlersOK, InStage, OthersKept
  <2>2. QED
    BY <1>1, <1>3, <1>4, <1>5, <2>1 DEF HandlersOK, LocksFit
<1>7. \A q \in Sessions : (HandlerInv(q) /\ FreshSession(q))'
  <2>1. (HandlerInv(s) /\ FreshSession(s))'
    BY <1>2, <1>3 DEF HandlerInv, FreshSession, ServersInv, InStage
  <2>2. QED
    BY <1>3, <2>1, OtherHandlers DEF ServersInv
<1>8. (\A r \in replies : r.saved)'
  BY <1>2 DEF ServersInv
<1>9. (OneServer => SerialInv)'
  <2>1. AloneInv(s)'
    BY <1>2, <1>3 DEF AloneInv
  <2>2. OneServer' => OneServer
    BY DEF OneServer
  <2>3. QED
    BY <1>2, <1>3, <2>1, <2>2, SerialFrame DEF ServersInv
<1>10. QED
  BY <1>4, <1>5, <1>6, <1>7, <1>8, <1>9 DEF ServersInv

LEMMA ArriveStep ==
    ASSUME ServersInv, NEW s \in Sessions, NEW c \in Call, Arrive(s, c)
    PROVE  ServersInv'
<1> DEFINE h == [Idle EXCEPT !.stage = "arrived", !.call = c,
                             !.todo = Work(server[s], c.op)]
<1>1. /\ handler \in [Sessions -> Handler] /\ server[s] \in Server
      /\ calls \in 0..MaxCalls /\ LocksFit /\ InStage(s, "idle")
      /\ queue \in Seq(Sessions)
      /\ holder \in [Server -> Sessions \cup {Absent}]
  BY DEF ServersInv, HandlersOK, LocksFit, Arrive
<1>2. /\ h \in Handler /\ h.stage = "arrived" /\ h.call = c
      /\ NothingAsked(h, server[s])
  BY <1>1, WorkType DEF Handler, Idle, NothingAsked
<1>3. /\ handler' = [handler EXCEPT ![s] = h]
      /\ UNCHANGED <<vars, threads, server, queue, holder>>
      /\ calls' \in 0..MaxCalls
  BY <1>1, ServersAssumption DEF Arrive
<1> HIDE DEF h
<1>4. /\ handler' \in [Sessions -> Handler] /\ handler'[s] = h
      /\ \A q \in Sessions \ {s} : handler'[q] = handler[q]
      /\ ~InStage(s, "running")'
      /\ handler'[s].call \in Call /\ NothingAsked(handler'[s], server[s])
      /\ handler'[s].stage \notin {"waiting", "granted"}
  BY <1>1, <1>2, <1>3 DEF InStage
<1>5. LocksFit' /\ WaitersAreQueued'
  BY <1>1, <1>2, <1>3 DEF LocksFit, WaitersAreQueued, ServersInv, InStage
<1>6. /\ UNCHANGED <<vars, threads, server>> /\ ~InStage(s, "running")
      /\ queue' \in Seq(Sessions)
      /\ holder' \in [Server -> Sessions \cup {Absent}]
  BY <1>1, <1>3 DEF InStage
<1>7. QED
  BY <1>3, <1>4, <1>5, <1>6, QuietStep

(* A call that has not run yet moves on with nothing asked.                *)
LEMMA AdvanceFacts ==
    ASSUME ServersInv, NEW s \in Sessions, NEW from, NEW to,
           from \in {"arrived", "waiting", "granted"},
           to \in {"waiting", "granted", "running"},
           InStage(s, from), Advance(s, to)
    PROVE  /\ handler' \in [Sessions -> Handler]
           /\ \A q \in Sessions \ {s} : handler'[q] = handler[q]
           /\ handler'[s].stage = to
           /\ handler'[s].call = handler[s].call
           /\ handler'[s].call \in Call
           /\ NothingAsked(handler'[s], server[s])
           /\ pc[s] = "closed"
<1>1. /\ handler \in [Sessions -> Handler] /\ handler[s] \in Handler
      /\ pc[s] # "closed" => InStage(s, "running")
  BY DEF ServersInv, HandlersOK
<1>2. handler[s].call \in Call /\ NothingAsked(handler[s], server[s])
  BY DEF ServersInv, HandlerInv, InStage
<1> DEFINE h == [handler[s] EXCEPT !.stage = to]
<1>3. /\ h \in Handler /\ h.stage = to /\ h.call = handler[s].call
      /\ NothingAsked(h, server[s])
  BY <1>1, <1>2 DEF Handler, NothingAsked
<1>4. handler' = [handler EXCEPT ![s] = h]
  BY <1>1 DEF Advance
<1> HIDE DEF h
<1>5. QED
  BY <1>1, <1>2, <1>3, <1>4 DEF InStage

LEMMA StartStep ==
    ASSUME ServersInv, NEW s \in Sessions, Start(s)
    PROVE  ServersInv'
<1>1. /\ handler \in [Sessions -> Handler] /\ server \in [Sessions -> Server]
      /\ LocksFit /\ queue \in Seq(Sessions)
      /\ holder \in [Server -> Sessions \cup {Absent}]
      /\ calls \in 0..MaxCalls /\ InStage(s, "arrived")
  BY DEF ServersInv, HandlersOK, LocksFit, Start
<1>2. /\ handler' \in [Sessions -> Handler]
      /\ \A q \in Sessions \ {s} : handler'[q] = handler[q]
      /\ handler'[s].stage = "waiting" /\ handler'[s].call \in Call
      /\ NothingAsked(handler'[s], server[s])
  BY <1>1, AdvanceFacts DEF Start
<1>3. /\ UNCHANGED <<vars, threads, server, holder, calls>> /\ HasThread(s)
      /\ queue' = IF server[s] = "grpc" THEN Append(queue, s) ELSE queue
  BY DEF Start
<1>4. LocksFit'
  BY <1>1, <1>2, <1>3 DEF LocksFit, InStage
<1>5. queue' \in Seq(Sessions) /\ WaitersAreQueued'
  <2>1. CASE server[s] = "grpc"
    <3>1. /\ queue' \in Seq(Sessions) /\ Len(queue') = Len(queue) + 1
          /\ \A i \in 1..Len(queue) : queue'[i] = queue[i]
          /\ queue'[Len(queue) + 1] = s /\ Len(queue) \in Nat
      BY <1>1, <1>3, <2>1, AppendProperties
    <3>2. ASSUME NEW q \in Sessions, server'[q] = "grpc",
                 handler'[q].stage = "waiting"
          PROVE  \E i \in 1..Len(queue') : queue'[i] = q
      <4>1. CASE q = s
        BY <3>1, <4>1
      <4>2. CASE q # s
        <5>1. PICK i \in 1..Len(queue) : queue[i] = q
          BY <1>1, <1>2, <1>3, <3>2, <4>2
             DEF ServersInv, WaitersAreQueued, InStage
        <5>2. QED
          BY <3>1, <5>1
      <4>3. QED
        BY <4>1, <4>2
    <3>3. QED
      BY <3>1, <3>2 DEF WaitersAreQueued, InStage
  <2>2. CASE server[s] # "grpc"
    BY <1>1, <1>2, <1>3, <2>2 DEF ServersInv, WaitersAreQueued, InStage
  <2>3. QED
    BY <2>1, <2>2
<1>6. /\ UNCHANGED <<vars, threads, server>>
      /\ ~InStage(s, "running") /\ ~InStage(s, "running")'
      /\ holder' \in [Server -> Sessions \cup {Absent}]
      /\ calls' \in 0..MaxCalls
  BY <1>1, <1>2, <1>3 DEF InStage
<1>7. QED
  BY <1>2, <1>3, <1>4, <1>5, <1>6, QuietStep

LEMMA GrantStep ==
    ASSUME ServersInv, NEW s \in Sessions, Grant(s)
    PROVE  ServersInv'
<1>1. /\ handler \in [Sessions -> Handler] /\ server \in [Sessions -> Server]
      /\ LocksFit /\ queue \in Seq(Sessions)
      /\ holder \in [Server -> Sessions \cup {Absent}]
      /\ calls \in 0..MaxCalls /\ InStage(s, "waiting") /\ server[s] \in Server
  BY DEF ServersInv, HandlersOK, LocksFit, Grant
<1>2. /\ handler' \in [Sessions -> Handler]
      /\ \A q \in Sessions \ {s} : handler'[q] = handler[q]
      /\ handler'[s].stage = "granted" /\ handler'[s].call \in Call
      /\ NothingAsked(handler'[s], server[s])
  BY <1>1, AdvanceFacts DEF Grant
<1>3. /\ UNCHANGED <<vars, threads, server, calls>>
      /\ holder[server[s]] = Absent
      /\ holder' = [holder EXCEPT ![server[s]] = s]
      /\ server[s] = "grpc" => s = Head(queue)
      /\ queue' = IF server[s] = "grpc" THEN Tail(queue) ELSE queue
  BY DEF Grant, LockFree
<1>4. LocksFit' /\ holder' \in [Server -> Sessions \cup {Absent}]
  <2>1. holder' \in [Server -> Sessions \cup {Absent}]
    BY <1>1, <1>3
  <2>2. \A q \in Sessions :
            holder'[server[q]] =
                IF server[q] = server[s] THEN s ELSE holder[server[q]]
    BY <1>1, <1>3
  <2>3. QED
    BY <1>1, <1>2, <1>3, <2>1, <2>2, ServersAssumption DEF LocksFit, InStage
<1>5. queue' \in Seq(Sessions) /\ WaitersAreQueued'
  <2>1. CASE server[s] = "grpc"
    <3>1. PICK n \in 1..Len(queue) : queue[n] = s
      BY <1>1, <2>1 DEF ServersInv, WaitersAreQueued
    <3>2. queue # <<>>
      BY <1>1, <3>1
    <3>3. /\ queue' \in Seq(Sessions) /\ Len(queue') = Len(queue) - 1
          /\ \A i \in 1..Len(queue') : queue'[i] = queue[i + 1]
          /\ queue[1] = s /\ Len(queue) \in Nat
      BY <1>1, <1>3, <2>1, <3>2, HeadTailProperties
    <3>4. ASSUME NEW q \in Sessions, server'[q] = "grpc",
                 InStage(q, "waiting")'
          PROVE  \E i \in 1..Len(queue') : queue'[i] = q
      <4>1. q # s /\ InStage(q, "waiting") /\ server[q] = "grpc"
        BY <1>2, <1>3, <3>4 DEF InStage
      <4>2. PICK i \in 1..Len(queue) : queue[i] = q
        BY <4>1 DEF ServersInv, WaitersAreQueued
      <4>3. i # 1 /\ i - 1 \in 1..Len(queue') /\ (i - 1) + 1 = i
        BY <3>3, <4>1, <4>2
      <4>4. queue'[i - 1] = q
        BY <3>3, <4>2, <4>3
      <4>5. QED
        BY <4>3, <4>4
    <3>5. QED
      BY <3>3, <3>4 DEF WaitersAreQueued
  <2>2. CASE server[s] # "grpc"
    BY <1>1, <1>2, <1>3, <2>2 DEF ServersInv, WaitersAreQueued, InStage
  <2>3. QED
    BY <2>1, <2>2
<1>6. /\ UNCHANGED <<vars, threads, server>>
      /\ ~InStage(s, "running") /\ ~InStage(s, "running")'
      /\ server[s] = "rest" => HasThread(s)
      /\ calls' \in 0..MaxCalls
  BY <1>1, <1>2, <1>3 DEF InStage, HasThread, OnAThread
<1>7. QED
  BY <1>2, <1>4, <1>5, <1>6, QuietStep

LEMMA RemoveAtFacts ==
    ASSUME NEW S, NEW q \in Seq(S), NEW n \in 1..Len(q)
    PROVE  /\ RemoveAt(q, n) \in Seq(S)
           /\ Len(RemoveAt(q, n)) = Len(q) - 1
           /\ \A i \in 1..(n - 1) : RemoveAt(q, n)[i] = q[i]
           /\ \A i \in n..(Len(q) - 1) : RemoveAt(q, n)[i] = q[i + 1]
<1> DEFINE a == SubSeq(q, 1, n - 1)
           b == SubSeq(q, n + 1, Len(q))
<1>1. Len(q) \in Nat /\ n \in Nat
  OBVIOUS
<1>2. /\ a \in Seq(S) /\ Len(a) = n - 1
      /\ \A i \in 1..(n - 1) : a[i] = q[i]
  BY <1>1, SubSeqProperties
<1>3. /\ b \in Seq(S) /\ Len(b) = Len(q) - n
      /\ \A i \in 1..(Len(q) - n) : b[i] = q[n + i]
  BY <1>1, SubSeqProperties
<1>4. RemoveAt(q, n) = a \o b
  BY DEF RemoveAt
<1> HIDE DEF a, b
<1>5. /\ a \o b \in Seq(S) /\ Len(a \o b) = Len(q) - 1
      /\ \A i \in 1..(Len(q) - 1) :
            (a \o b)[i] = IF i <= n - 1 THEN a[i] ELSE b[i - (n - 1)]
  BY <1>1, <1>2, <1>3, ConcatProperties
<1>6. ASSUME NEW i \in n..(Len(q) - 1)
      PROVE  (a \o b)[i] = q[i + 1]
  <2>1. /\ i \in 1..(Len(q) - 1) /\ ~(i <= n - 1)
        /\ i - (n - 1) \in 1..(Len(q) - n) /\ n + (i - (n - 1)) = i + 1
    BY <1>1
  <2>2. QED
    BY <1>3, <1>5, <2>1
<1>7. QED
  BY <1>1, <1>2, <1>4, <1>5, <1>6

LEMMA CancelStep ==
    ASSUME ServersInv, NEW s \in Sessions, Cancel(s)
    PROVE  ServersInv'
<1>1. /\ handler \in [Sessions -> Handler] /\ server \in [Sessions -> Server]
      /\ LocksFit /\ queue \in Seq(Sessions)
      /\ holder \in [Server -> Sessions \cup {Absent}]
      /\ calls \in 0..MaxCalls /\ server[s] = "grpc" /\ "grpc" \in Server
  BY DEF ServersInv, HandlersOK, LocksFit, Cancel, Server
<1>2. /\ handler[s].stage \in {"arrived", "waiting", "granted"}
      /\ handler' = [handler EXCEPT ![s] = Idle]
      /\ UNCHANGED <<vars, threads, server, calls>>
      /\ holder' = IF holder["grpc"] = s
                   THEN [holder EXCEPT !["grpc"] = Absent] ELSE holder
  BY <1>1 DEF Cancel, Release
<1>3. /\ handler' \in [Sessions -> Handler] /\ handler'[s].stage = "idle"
      /\ \A q \in Sessions \ {s} : handler'[q] = handler[q]
  BY <1>1, <1>2, IdleFacts
<1>4. LocksFit' /\ holder' \in [Server -> Sessions \cup {Absent}]
  <2>1. holder' \in [Server -> Sessions \cup {Absent}]
    BY <1>1, <1>2
  <2>2. holder'["grpc"] # s
    BY <1>1, <1>2, ServersAssumption
  <2>3. ASSUME NEW q \in Sessions \ {s}
        PROVE  holder'[server[q]] = q <=> holder[server[q]] = q
    BY <1>1, <1>2, ServersAssumption
  <2>4. QED
    BY <1>1, <1>2, <1>3, <2>1, <2>2, <2>3 DEF LocksFit
<1>5. queue' \in Seq(Sessions) /\ WaitersAreQueued'
  <2>1. CASE InStage(s, "waiting")
    <3>1. PICK n \in 1..Len(queue) :
                  queue[n] = s /\ queue' = RemoveAt(queue, n)
      BY <2>1 DEF Cancel
    <3>4. /\ queue' \in Seq(Sessions) /\ Len(queue') = Len(queue) - 1
          /\ \A i \in 1..(n - 1) : queue'[i] = queue[i]
          /\ \A i \in n..(Len(queue) - 1) : queue'[i] = queue[i + 1]
      BY <1>1, <3>1, RemoveAtFacts
    <3>5. ASSUME NEW q \in Sessions, server'[q] = "grpc",
                 InStage(q, "waiting")'
          PROVE  \E i \in 1..Len(queue') : queue'[i] = q
      <4>1. q # s /\ InStage(q, "waiting") /\ server[q] = "grpc"
        BY <1>2, <1>3, <3>5 DEF InStage
      <4>2. PICK i \in 1..Len(queue) : queue[i] = q
        BY <4>1 DEF ServersInv, WaitersAreQueued
      <4>3. Len(queue) \in Nat /\ i # n
        BY <1>1, <3>1, <4>1, <4>2
      <4>4. CASE i < n
        BY <3>1, <3>4, <4>2, <4>3, <4>4
      <4>5. CASE i > n
        <5>1. i - 1 \in n..(Len(queue) - 1) /\ i - 1 \in 1..Len(queue')
              /\ (i - 1) + 1 = i
          BY <3>1, <3>4, <4>2, <4>3, <4>5
        <5>2. queue'[i - 1] = q
          BY <3>4, <4>2, <5>1
        <5>3. QED
          BY <5>1, <5>2
      <4>6. QED
        BY <3>1, <4>2, <4>3, <4>4, <4>5
    <3>6. QED
      BY <3>4, <3>5 DEF WaitersAreQueued
  <2>2. CASE ~InStage(s, "waiting")
    BY <1>1, <1>2, <1>3, <2>2
       DEF Cancel, ServersInv, WaitersAreQueued, InStage
  <2>3. QED
    BY <2>1, <2>2
<1>6. /\ UNCHANGED <<vars, threads, server>>
      /\ ~InStage(s, "running") /\ ~InStage(s, "running")'
      /\ InStage(s, "idle")'
      /\ server[s] # "rest" /\ calls' \in 0..MaxCalls
  BY <1>1, <1>2, <1>3 DEF InStage
<1>7. QED
  BY <1>3, <1>4, <1>5, <1>6, QuietStep

-----------------------------------------------------------------------------
(* Steps of a call that has, opens or ends a session.                      *)

LEMMA SessionStep ==
    ASSUME ServersInv, NEW s \in Sessions,
           UNCHANGED <<threads, server, queue, holder, calls>>,
           handler[s].stage \in {"granted", "running"}, HasThread(s),
           OthersKept(s),
           handler' \in [Sessions -> Handler],
           InStage(s, "running")', handler'[s].call = handler[s].call,
           IInv', RunningInv(s)', FreshSession(s)',
           \A r \in replies' : r.saved,
           OneServer => SerialInv'
    PROVE  ServersInv'
<1>1. /\ HandlersOK /\ IsFiniteSet(OnAThread) /\ WaitersAreQueued
      /\ handler \in [Sessions -> Handler]
  BY DEF ServersInv, HandlersOK
<1>2. IsFiniteSet(OnAThread)' /\ (Cardinality(OnAThread) <= threads)'
  <2>1. OnAThread' \subseteq OnAThread \cup {s}
    BY DEF OnAThread, InStage, OthersKept
  <2>2. QED
    BY <1>1, <2>1, ThreadsSuffice
<1>3. HandlersOK'
  <2>1. LocksFit'
    BY <1>1 DEF HandlersOK, LocksFit, OthersKept, InStage
  <2>2. \A q \in Sessions : (pc[q] # "closed" => InStage(q, "running"))'
    BY <1>1 DEF HandlersOK, InStage, OthersKept
  <2>3. TypeOK'
    BY DEF IInv
  <2>4. QED
    BY <1>1, <1>2, <2>1, <2>2, <2>3 DEF HandlersOK, LocksFit
<1>4. WaitersAreQueued'
  BY <1>1 DEF WaitersAreQueued, InStage, OthersKept
<1>5. \A q \in Sessions : (HandlerInv(q) /\ FreshSession(q))'
  <2>1. handler[s].call \in Call
    BY DEF ServersInv, HandlerInv, InStage
  <2>2. HandlerInv(s)'
    BY <2>1 DEF HandlerInv, InStage
  <2>3. QED
    BY <2>2, OtherHandlers DEF ServersInv
<1>6. OneServer' => OneServer
  BY DEF OneServer
<1>7. QED
  BY <1>2, <1>3, <1>4, <1>5, <1>6 DEF ServersInv

LEMMA ConnectStep ==
    ASSUME ServersInv, NEW s \in Sessions, Connect(s)
    PROVE  ServersInv'
<1>1. /\ TypeOK /\ handler \in [Sessions -> Handler] /\ InStage(s, "granted")
      /\ HasThread(s) /\ Advance(s, "running")
      /\ UNCHANGED <<threads, server, queue, holder, calls>>
  BY DEF ServersInv, HandlersOK, Connect
<1>2. /\ handler' \in [Sessions -> Handler]
      /\ \A q \in Sessions \ {s} : handler'[q] = handler[q]
      /\ handler'[s].stage = "running" /\ handler'[s].call \in Call
      /\ handler'[s].call = handler[s].call
      /\ NothingAsked(handler'[s], server[s])
      /\ pc[s] = "closed"
  BY <1>1, AdvanceFacts
<1>3. /\ Open(s, handler[s].call.owner, StoreSecret)
      /\ handler[s].call.owner \in Owners /\ StoreSecret \in Modes
  BY <1>2, ServersAssumption DEF Connect, Call, Modes
<1>4. IInv'
  BY <1>3, OpenStep DEF ServersInv
<1>5. /\ pc'[s] \in {"loading", "creating"}
      /\ \A q \in Sessions \ {s} : pc'[q] = pc[q]
      /\ UNCHANGED <<disk_records, disk_audit, records, audit_log, request,
                     replies>>
  BY <1>1, <1>3 DEF Open, Goto, TypeOK, disk
<1>6. OthersKept(s)
  BY <1>2, <1>5 DEF OthersKept
<1>7. RunningInv(s)'
  <2>1. handler'[s].todo # <<>>
    BY <1>2, WorkFacts DEF NothingAsked
  <2>2. handler'[s].outcome = "ok" /\ ~handler'[s].durable
        /\ server'[s] = server[s]
    BY <1>1, <1>2 DEF NothingAsked
  <2>3. QED
    BY <1>2, <1>5, <2>1, <2>2 DEF RunningInv
<1>8. FreshSession(s)'
  BY <1>2, <1>5 DEF FreshSession, ServersInv
<1>9. OneServer => SerialInv'
  <2>1. AloneInv(s)'
    BY <1>5 DEF AloneInv
  <2>2. QED
    BY <1>5, <1>6, <2>1, SerialFrame DEF ServersInv
<1>10. (\A r \in replies' : r.saved) /\ InStage(s, "running")'
       /\ handler[s].stage \in {"granted", "running"}
  BY <1>1, <1>2, <1>5 DEF ServersInv, InStage
<1>11. QED
  BY <1>1, <1>2, <1>4, <1>6, <1>7, <1>8, <1>9, <1>10, SessionStep

LEMMA ReturnStep ==
    ASSUME ServersInv, NEW s \in Sessions, Return(s)
    PROVE  ServersInv'
<1>1. /\ HandlersOK /\ TypeOK /\ handler \in [Sessions -> Handler]
      /\ IsFiniteSet(OnAThread) /\ server \in [Sessions -> Server]
      /\ LocksFit /\ holder \in [Server -> Sessions \cup {Absent}]
      /\ InStage(s, "running") /\ s \in OnAThread
  BY DEF ServersInv, HandlersOK, LocksFit, Return, Returning, OnAThread
<1>2. /\ pc' = [pc EXCEPT ![s] = "closed"] /\ Forget(s)
      /\ holder' = [holder EXCEPT ![server[s]] = Absent]
      /\ handler' = [handler EXCEPT ![s] = Idle]
      /\ UNCHANGED <<disk, replies, threads, server, queue, calls>>
  BY DEF Return, Release
<1>3. UNCHANGED <<file_exists, disk_records, disk_audit, checkpoint>>
  BY <1>2 DEF disk
<1>4. IInv' /\ TypeOK'
  <2>1. file_exists' \in BOOLEAN
    BY <1>1, <1>3 DEF TypeOK
  <2>2. IInv'
    BY <1>2, <1>3, <2>1, ForgetStep DEF ServersInv
  <2>3. QED
    BY <2>2 DEF IInv
<1>5. /\ handler' \in [Sessions -> Handler] /\ handler'[s].stage = "idle"
      /\ pc'[s] = "closed"
      /\ records'[s] = NoRecords /\ audit_log'[s] = <<>>
      /\ OthersKept(s)
  BY <1>1, <1>2, IdleFacts DEF OthersKept, Forget, TypeOK
<1>6. IsFiniteSet(OnAThread)' /\ (Cardinality(OnAThread) <= threads)'
  <2>1. OnAThread' \subseteq OnAThread
    BY <1>2, <1>5 DEF OnAThread, InStage, OthersKept
  <2>2. HasThread(s)
    BY <1>1 DEF HasThread
  <2>3. QED
    BY <1>1, <1>2, <2>1, <2>2, ThreadsSuffice
<1>7. LocksFit' /\ holder' \in [Server -> Sessions \cup {Absent}]
  <2>1. holder' \in [Server -> Sessions \cup {Absent}]
        /\ holder'[server[s]] = Absent
    BY <1>1, <1>2
  <2>2. ASSUME NEW q \in Sessions \ {s}
        PROVE  holder'[server[q]] = q <=> holder[server[q]] = q
    <3>1. holder[server[s]] = s
      BY <1>1 DEF LocksFit, InStage
    <3>2. QED
      BY <1>1, <1>2, <3>1, ServersAssumption
  <2>3. QED
    BY <1>1, <1>2, <1>5, <2>1, <2>2, ServersAssumption DEF LocksFit, OthersKept
<1>8. HandlersOK'
  <2>1. \A q \in Sessions : (pc[q] # "closed" => InStage(q, "running"))'
    BY <1>1, <1>5 DEF HandlersOK, InStage, OthersKept
  <2>2. QED
    BY <1>1, <1>2, <1>4, <1>5, <1>6, <1>7, <2>1 DEF HandlersOK, LocksFit
<1>9. WaitersAreQueued'
  BY <1>2, <1>5 DEF ServersInv, WaitersAreQueued, InStage, OthersKept
<1>10. \A q \in Sessions : (HandlerInv(q) /\ FreshSession(q))'
  <2>1. (HandlerInv(s) /\ FreshSession(s))'
    BY <1>5 DEF HandlerInv, FreshSession, InStage
  <2>2. QED
    BY <1>2, <1>5, <2>1, OtherHandlers DEF ServersInv
<1>11. (OneServer => SerialInv)'
  <2>1. AloneInv(s)'
    BY <1>5 DEF AloneInv
  <2>2. OneServer' => OneServer
    BY <1>2 DEF OneServer
  <2>3. QED
    BY <1>2, <1>3, <1>5, <2>1, <2>2, SerialFrame DEF ServersInv
<1>12. QED
  BY <1>2, <1>4, <1>6, <1>8, <1>9, <1>10, <1>11 DEF ServersInv

LEMMA CrashStep ==
    ASSUME ServersInv, Crash
    PROVE  ServersInv'
<1>1. /\ HandlersOK /\ TypeOK /\ threads \in 1..MaxThreads
      /\ server \in [Sessions -> Server] /\ calls \in 0..MaxCalls
  BY DEF ServersInv, HandlersOK
<1>2. /\ \A s \in Sessions :
             /\ pc'[s] = "closed" /\ handler'[s] = Idle
             /\ records'[s] = NoRecords /\ audit_log'[s] = <<>>
      /\ UNCHANGED <<disk_records, disk_audit, checkpoint, replies, threads,
                     server, calls>>
  BY DEF Crash
<1>3. TypeOK'
  <2>1. NoRecords \in RecordMap /\ <<>> \in Seq(AuditEntry) /\ Legacy \in Modes
    BY DEF NoRecords, RecordMap, Modes, Legacy
  <2>2. file_exists' \in BOOLEAN
    BY <1>1 DEF Crash, TypeOK
  <2>3. QED
    BY <1>1, <2>1, <2>2 DEF TypeOK, Crash, PC
<1>4. IInv'
  <2>1. (Consistent(disk_records, disk_audit) /\ CheckpointIsCurrent)'
    BY <1>2 DEF ServersInv, IInv, CheckpointIsCurrent
  <2>2. \A s \in Sessions : SessionInv(s)'
    BY <1>2, ConsistentEmpty DEF SessionInv
  <2>3. RepliesAreDurable'
    BY <1>2 DEF ServersInv, IInv, RepliesAreDurable
  <2>4. QED
    BY <1>3, <2>1, <2>2, <2>3 DEF IInv
<1>5. OnAThread' = {}
  BY <1>2, IdleFacts DEF OnAThread, InStage
<1>6. IsFiniteSet(OnAThread)' /\ (Cardinality(OnAThread) <= threads)'
  BY <1>1, <1>2, <1>5, FS_EmptySet, ServersAssumption
<1>7. HandlersOK'
  <2>1. /\ handler' \in [Sessions -> Handler] /\ queue' \in Seq(Sessions)
        /\ holder' \in [Server -> Sessions \cup {Absent}]
    BY IdleFacts DEF Crash
  <2>2. LocksFit'
    BY <1>1, <1>2, IdleFacts, ServersAssumption DEF LocksFit, Crash
  <2>3. QED
    BY <1>1, <1>2, <1>3, <1>6, <2>1, <2>2 DEF HandlersOK, LocksFit
<1>8. WaitersAreQueued'
  BY <1>2, IdleFacts DEF WaitersAreQueued, InStage
<1>9. \A s \in Sessions : (HandlerInv(s) /\ FreshSession(s))'
  BY <1>2, IdleFacts DEF HandlerInv, FreshSession, InStage
<1>10. (OneServer => SerialInv)'
  <2>1. OneServer' => OneServer
    BY <1>2 DEF OneServer
  <2>2. \A s \in Sessions : AloneInv(s)'
    BY <1>2 DEF AloneInv
  <2>3. SerialInv => (TakenIdIsRefused /\ ReadsSeeAcknowledgedWrite
                      /\ OneEntryPerReply)'
    BY <1>2 DEF SerialInv, TakenIdIsRefused, ReadsSeeAcknowledgedWrite,
                OneEntryPerReply, Undisturbed
  <2>4. QED
    BY <2>1, <2>2, <2>3 DEF ServersInv, SerialInv
<1>11. QED
  BY <1>2, <1>4, <1>6, <1>7, <1>8, <1>9, <1>10 DEF ServersInv

-----------------------------------------------------------------------------
(* Steps of a session.                                                     *)

(* What SessionStep needs of a step of a running call.                     *)
Carried(s) ==
    /\ [Next]_vars
    /\ OthersKept(s)
    /\ handler' \in [Sessions -> Handler]
    /\ handler'[s].stage = "running"
    /\ handler'[s].call = handler[s].call
    /\ RunningInv(s)'
    /\ FreshSession(s)'
    /\ \A r \in replies' : r.saved
    /\ OneServer => SerialInv'

LEMMA RunningFacts ==
    ASSUME ServersInv, NEW s \in Sessions, InStage(s, "running")
    PROVE  /\ IInv /\ TypeOK /\ HandlersOK /\ HasThread(s)
           /\ handler \in [Sessions -> Handler] /\ handler[s] \in Handler
           /\ handler[s].stage = "running" /\ handler[s].call \in Call
           /\ server \in [Sessions -> Server] /\ server[s] \in Server
           /\ RunningInv(s) /\ FreshSession(s)
           /\ \A r \in replies : r.saved
           /\ OneServer => SerialInv
BY DEF ServersInv, HandlersOK, HandlerInv, HasThread, OnAThread, InStage

LEMMA FailFacts ==
    ASSUME ServersInv, NEW s \in Sessions, InStage(s, "running"), Fail(s)
    PROVE  /\ handler' \in [Sessions -> Handler]
           /\ \A q \in Sessions \ {s} : handler'[q] = handler[q]
           /\ handler'[s].stage = "running"
           /\ handler'[s].call = handler[s].call
           /\ handler'[s].todo = <<>> /\ handler'[s].outcome = "error"
           /\ handler'[s].durable = handler[s].durable
<1> DEFINE h == [handler[s] EXCEPT !.todo = <<>>, !.outcome = "error"]
<1>1. handler \in [Sessions -> Handler] /\ handler[s] \in Handler
      /\ handler[s].stage = "running"
  BY RunningFacts
<1>2. handler' = [handler EXCEPT ![s] = h]
  BY <1>1 DEF Fail
<1>3. /\ h \in Handler /\ h.stage = "running" /\ h.call = handler[s].call
      /\ h.todo = <<>> /\ h.outcome = "error"
      /\ h.durable = handler[s].durable
  BY <1>1 DEF Handler
<1> HIDE DEF h
<1>4. QED
  BY <1>1, <1>2, <1>3

(* What a session that is asked for something is asked for.                *)
LEMMA AskFacts ==
    ASSUME ServersInv, NEW s \in Sessions, InStage(s, "running"),
           NEW what, Ask(s, what)
    PROVE  /\ pc[s] = "ready" /\ handler[s].todo # <<>>
           /\ handler[s].outcome = "ok"
           /\ \/ /\ ~handler[s].durable /\ what = handler[s].call.op
                 /\ Tail(handler[s].todo) =
                        IF server[s] = "rest" /\ what = "delete"
                        THEN <<"persist">> ELSE <<>>
              \/ /\ handler[s].durable /\ what = "persist"
                 /\ handler[s].call.op = "delete" /\ server[s] = "rest"
                 /\ Tail(handler[s].todo) = <<>>
<1>1. /\ pc[s] = "ready" /\ handler[s].todo # <<>>
      /\ Head(handler[s].todo) = what /\ RunningInv(s)
  BY RunningFacts DEF Ask
<1>2. CASE NothingAsked(handler[s], server[s])
  <2> DEFINE v == server[s]
             op == handler[s].call.op
  <2>1. /\ handler[s].todo = Work(v, op) /\ handler[s].outcome = "ok"
        /\ ~handler[s].durable
    BY <1>2 DEF NothingAsked
  <2>2. CASE v = "rest" /\ op = "delete"
    BY <1>1, <2>1, <2>2, WorkFacts
  <2>3. CASE ~(v = "rest" /\ op = "delete")
    <3>1. Head(Work(v, op)) = op /\ Tail(Work(v, op)) = <<>>
      BY <2>3, WorkFacts
    <3>2. QED
      BY <1>1, <2>1, <2>3, <3>1
  <2>4. QED
    BY <2>2, <2>3
<1>3. CASE /\ handler[s].todo = <<"persist">> /\ handler[s].outcome = "ok"
           /\ handler[s].call.op = "delete" /\ server[s] = "rest"
           /\ handler[s].durable
  BY <1>1, <1>3, TodoFacts
<1>4. QED
  BY <1>1, <1>2, <1>3 DEF RunningInv

LEMMA AskedFacts ==
    ASSUME ServersInv, NEW s \in Sessions, InStage(s, "running"),
           NEW what, Ask(s, what),
           NEW o \in {"ok", "missing", "error"}, Asked(s, o)
    PROVE  /\ handler' \in [Sessions -> Handler]
           /\ \A q \in Sessions \ {s} : handler'[q] = handler[q]
           /\ handler'[s].stage = "running"
           /\ handler'[s].call = handler[s].call
           /\ handler'[s].todo = Tail(handler[s].todo)
           /\ handler'[s].outcome = o
           /\ handler'[s].durable = handler[s].durable
<1> DEFINE h == [handler[s] EXCEPT !.todo = Tail(handler[s].todo),
                                   !.outcome = o]
<1>1. handler \in [Sessions -> Handler] /\ handler[s] \in Handler
      /\ handler[s].stage = "running"
  BY RunningFacts
<1>2. handler' = [handler EXCEPT ![s] = h]
  BY <1>1 DEF Asked
<1>3. Tail(handler[s].todo) \in {<<>>, <<"persist">>}
  BY AskFacts
<1>4. /\ h \in Handler /\ h.stage = "running" /\ h.call = handler[s].call
      /\ h.todo = Tail(handler[s].todo) /\ h.outcome = o
      /\ h.durable = handler[s].durable
  BY <1>1, <1>3 DEF Handler
<1> HIDE DEF h
<1>5. QED
  BY <1>1, <1>2, <1>4

(* A new session finds the tables as they are, and answers nothing.        *)
LEMMA OpenedStep ==
    ASSUME ServersInv, NEW s \in Sessions, InStage(s, "running"),
           server' = server, Opened(s)
    PROVE  Carried(s)
<1>1. /\ TypeOK /\ RunningInv(s) /\ FreshSession(s)
      /\ handler' = handler /\ handler \in [Sessions -> Handler]
      /\ handler[s].stage = "running"
      /\ \A r \in replies : r.saved
      /\ OneServer => SerialInv
  BY RunningFacts DEF Opened
<1>2. Load(s) \/ Create(s)
  BY DEF Opened
<1>3. /\ pc[s] \in {"loading", "creating"} /\ pc' = [pc EXCEPT ![s] = "ready"]
      /\ UNCHANGED <<request, replies>>
      /\ records'[s] = disk_records' /\ audit_log'[s] = disk_audit'
      /\ \A q \in Sessions \ {s} : records'[q] = records[q]
                                   /\ audit_log'[q] = audit_log[q]
  BY <1>1, <1>2 DEF Load, Create, Commit, Goto, TypeOK, memory
<1>4. disk_records' = disk_records /\ disk_audit' = disk_audit
  <2>1. CASE Load(s)
    BY <2>1 DEF Load
  <2>2. CASE Create(s)
    <3>1. records[s] = NoRecords /\ audit_log[s] = <<>>
      BY <1>1, <1>3 DEF FreshSession
    <3>2. /\ SaveAccepts(store_secret[s], checkpoint, disk_records,
                         disk_audit, <<>>)
          /\ disk_records' = NoRecords /\ disk_audit' = <<>>
      BY <2>2, <3>1 DEF Create, Commit
    <3>3. disk_audit = <<>>
      BY <1>1, <3>2 DEF SaveAccepts, audit_history_is_prefix, TypeOK
    <3>4. disk_records = NoRecords
      BY <3>2, <3>3 DEF SaveAccepts, classify_checkpoint_state
    <3>5. QED
      BY <3>2, <3>3, <3>4
  <2>3. QED
    BY <1>2, <2>1, <2>2
<1>5. pc'[s] = "ready" /\ OthersKept(s)
  BY <1>1, <1>3 DEF OthersKept, TypeOK
<1>6. [Next]_vars
  BY <1>2 DEF Next
<1>7. RunningInv(s)'
  BY <1>1, <1>3, <1>5 DEF RunningInv, NothingAsked, SavesOnce
<1>8. FreshSession(s)'
  BY <1>5 DEF FreshSession
<1>9. OneServer => SerialInv'
  <2>1. AloneInv(s)'
    BY <1>3, <1>5 DEF AloneInv, Current
  <2>2. QED
    BY <1>1, <1>3, <1>4, <1>5, <2>1, SerialFrame
<1>10. QED
  BY <1>1, <1>3, <1>5, <1>6, <1>7, <1>8, <1>9 DEF Carried

(* A session that cannot be opened is gone, and the call has failed.       *)
LEMMA RefusedStep ==
    ASSUME ServersInv, NEW s \in Sessions, InStage(s, "running"),
           server' = server, OpenRefused(s) \/ OpenFails(s)
    PROVE  Carried(s)
<1>1. /\ TypeOK /\ RunningInv(s) /\ handler[s].stage = "running"
      /\ \A r \in replies : r.saved
      /\ OneServer => SerialInv
  BY RunningFacts
<1>2. LoadRejected(s) \/ CreateRejected(s) \/ CloseOrCrash(s)
  BY DEF OpenRefused, OpenFails
<1>3. /\ pc[s] \in {"loading", "creating"} /\ Fail(s)
      /\ pc' = [pc EXCEPT ![s] = "closed"] /\ Forget(s)
      /\ UNCHANGED <<disk_records, disk_audit, replies>>
  BY DEF OpenRefused, OpenFails, LoadRejected, CreateRejected, CloseOrCrash,
         Abort, Goto, disk
<1>4. /\ handler' \in [Sessions -> Handler]
      /\ \A q \in Sessions \ {s} : handler'[q] = handler[q]
      /\ handler'[s].stage = "running"
      /\ handler'[s].call = handler[s].call
      /\ handler'[s].todo = <<>> /\ handler'[s].outcome = "error"
      /\ handler'[s].durable = handler[s].durable
  BY <1>3, FailFacts
<1>5. /\ pc'[s] = "closed" /\ OthersKept(s)
      /\ records'[s] = NoRecords /\ audit_log'[s] = <<>>
  BY <1>1, <1>3, <1>4 DEF OthersKept, Forget, TypeOK
<1>6. [Next]_vars
  BY <1>2 DEF Next
<1>7. RunningInv(s)'
  <2>1. ~handler[s].durable
    BY <1>1, <1>3 DEF RunningInv, NothingAsked
  <2>2. QED
    BY <1>4, <1>5, <2>1 DEF RunningInv, SavesOnce
<1>8. FreshSession(s)'
  BY <1>5 DEF FreshSession
<1>9. OneServer => SerialInv'
  <2>1. AloneInv(s)'
    BY <1>5 DEF AloneInv
  <2>2. QED
    BY <1>1, <1>3, <1>5, <2>1, SerialFrame
<1>10. QED
  BY <1>1, <1>3, <1>4, <1>5, <1>6, <1>7, <1>8, <1>9 DEF Carried

(* A refused statement, or one that only looks.                            *)
LEMMA NoEffectStep ==
    ASSUME ServersInv, NEW s \in Sessions, InStage(s, "running"),
           server' = server,
           \/ WriteTaken(s, handler[s].call)
           \/ DeleteRefused(s, handler[s].call)
           \/ Look(s)
    PROVE  Carried(s)
<1>1. /\ TypeOK /\ RunningInv(s) /\ handler[s].stage = "running"
      /\ \A r \in replies : r.saved
      /\ OneServer => SerialInv
  BY RunningFacts
<1>2. UNCHANGED vars
  BY DEF WriteTaken, DeleteRefused, Look
<1>3. UNCHANGED <<disk_records, disk_audit, pc, records, audit_log, request,
                  replies>>
  BY <1>2 DEF vars, disk, memory
<1>4. /\ pc[s] = "ready" /\ handler' \in [Sessions -> Handler]
      /\ \A q \in Sessions \ {s} : handler'[q] = handler[q]
      /\ handler'[s].stage = "running"
      /\ handler'[s].call = handler[s].call
      /\ handler'[s].todo = <<>> /\ ~handler'[s].durable
      /\ handler'[s].outcome = "ok" => handler[s].call.op = "look"
  <2>1. CASE WriteTaken(s, handler[s].call)
    <3>1. Ask(s, "write") /\ Fail(s)
      BY <2>1 DEF WriteTaken
    <3>2. QED
      BY <3>1, AskFacts, FailFacts
  <2>2. CASE DeleteRefused(s, handler[s].call)
    <3>1. Ask(s, "delete") /\ Fail(s)
      BY <2>2 DEF DeleteRefused
    <3>2. QED
      BY <3>1, AskFacts, FailFacts
  <2>3. CASE Look(s)
    <3>1. Ask(s, "look") /\ Asked(s, "ok")
      BY <2>3 DEF Look
    <3>2. QED
      BY <3>1, AskFacts, AskedFacts
  <2>4. QED
    BY <2>1, <2>2, <2>3
<1>5. pc'[s] = "ready" /\ OthersKept(s)
  BY <1>3, <1>4 DEF OthersKept
<1>6. RunningInv(s)'
  BY <1>4, <1>5 DEF RunningInv, SavesOnce
<1>7. FreshSession(s)'
  BY <1>5 DEF FreshSession
<1>8. OneServer => SerialInv'
  <2>1. AloneInv(s)'
    BY <1>4, <1>5 DEF AloneInv
  <2>2. QED
    BY <1>1, <1>3, <1>5, <2>1, SerialFrame
<1>9. QED
  BY <1>1, <1>2, <1>3, <1>4, <1>5, <1>6, <1>7, <1>8 DEF Carried

(* A save with nothing to answer: what the REST delete does at its end, or *)
(* a read of an id that is not there.                                      *)
LEMMA SaveOnlyStep ==
    ASSUME ServersInv, NEW s \in Sessions, InStage(s, "running"),
           server' = server,
           ReadMissing(s, handler[s].call) \/ Persist(s)
    PROVE  Carried(s)
<1>1. /\ TypeOK /\ RunningInv(s) /\ handler[s].stage = "running"
      /\ \A r \in replies : r.saved
      /\ OneServer => SerialInv
  BY RunningFacts
<1>2. SaveOnly(s)
  BY DEF ReadMissing, Persist
<1>3. /\ pc[s] = "ready" /\ pc' = [pc EXCEPT ![s] = "saving"]
      /\ request' = [request EXCEPT ![s] = [index |-> 0, record |-> Absent]]
      /\ UNCHANGED <<disk_records, disk_audit, records, audit_log, replies>>
  BY <1>2 DEF SaveOnly, Goto, Await, disk, memory
<1>4. /\ handler[s].todo # <<>> /\ handler' \in [Sessions -> Handler]
      /\ \A q \in Sessions \ {s} : handler'[q] = handler[q]
      /\ handler'[s].stage = "running"
      /\ handler'[s].call = handler[s].call
      /\ handler'[s].todo = <<>>
      /\ ~SavesOnce(handler'[s], server[s])
      /\ \/ handler'[s].outcome = "missing"
         \/ handler'[s].outcome = "ok" /\ handler'[s].durable
  <2>1. CASE ReadMissing(s, handler[s].call)
    <3>1. Ask(s, "read") /\ Asked(s, "missing")
      BY <2>1 DEF ReadMissing
    <3>2. QED
      BY <3>1, AskFacts, AskedFacts DEF SavesOnce
  <2>2. CASE Persist(s)
    <3>1. Ask(s, "persist") /\ Asked(s, "ok")
      BY <2>2 DEF Persist
    <3>2. handler[s].call.op # "persist"
      BY RunningFacts DEF Call
    <3>3. /\ handler[s].todo # <<>> /\ Tail(handler[s].todo) = <<>>
          /\ handler[s].durable
          /\ handler[s].call.op = "delete" /\ server[s] = "rest"
      BY <3>1, <3>2, AskFacts
    <3>4. /\ handler' \in [Sessions -> Handler]
          /\ \A q \in Sessions \ {s} : handler'[q] = handler[q]
          /\ handler'[s].stage = "running"
          /\ handler'[s].call = handler[s].call
          /\ handler'[s].todo = Tail(handler[s].todo)
          /\ handler'[s].outcome = "ok"
          /\ handler'[s].durable = handler[s].durable
      BY <3>1, AskedFacts
    <3>5. QED
      BY <3>3, <3>4 DEF SavesOnce
  <2>3. QED
    BY <2>1, <2>2
<1>5. /\ pc'[s] = "saving" /\ OthersKept(s) /\ request'[s].index = 0
  BY <1>1, <1>3, <1>4 DEF OthersKept, TypeOK
<1>6. [Next]_vars
  BY <1>2 DEF Next
<1>7. RunningInv(s)'
  BY <1>4, <1>5 DEF RunningInv
<1>8. FreshSession(s)'
  BY <1>5 DEF FreshSession
<1>9. OneServer => SerialInv'
  <2>1. SerialInv => AloneInv(s)'
    BY <1>3, <1>4, <1>5 DEF AloneInv, SerialInv, Current
  <2>2. QED
    BY <1>1, <1>3, <1>5, <2>1, SerialFrame
<1>10. QED
  BY <1>1, <1>3, <1>4, <1>5, <1>6, <1>7, <1>8, <1>9 DEF Carried

(* A statement puts the session one entry ahead of the file it loaded.     *)
LEMMA ServedStep ==
    ASSUME ServersInv, NEW s \in Sessions, InStage(s, "running"),
           server' = server, [Next]_vars,
           NEW what \in {"write", "read", "delete"}, Ask(s, what),
           NEW o \in {"ok", "error"}, o = "error" => what = "read",
           Asked(s, o),
           NEW id \in Ids, NEW action \in AuditAction, NEW t \in Times,
           NEW rec,
           LogEntry(s, id, action, t),
           pc' = [pc EXCEPT ![s] = "saving"],
           request' = [request EXCEPT ![s] =
                          [index |-> Len(audit_log[s]) + 1, record |-> rec]],
           UNCHANGED <<disk_records, disk_audit, replies>>,
           \A q \in Sessions \ {s} : records'[q] = records[q],
           \A i \in Ids \ {id} : records'[s][i] = records[s][i],
           action \in {"ReadGranted", "ReadDenied"} => records' = records,
           action \in {"Write", "ReadGranted"} => records'[s][id] = rec
    PROVE  Carried(s)
<1>1. /\ TypeOK /\ RunningInv(s) /\ handler[s].stage = "running"
      /\ audit_log[s] \in Seq(AuditEntry) /\ owner_id[s] \in Owners
      /\ \A r \in replies : r.saved
      /\ OneServer => SerialInv
  <2>1. pc[s] = "ready"
    BY DEF Ask
  <2>2. QED
    BY <2>1, RunningFacts DEF IInv, SessionInv, TypeOK
<1>2. /\ pc[s] = "ready" /\ handler[s].todo # <<>> /\ ~handler[s].durable
      /\ handler[s].call.op = what
  BY AskFacts
<1>3. /\ handler' \in [Sessions -> Handler]
      /\ \A q \in Sessions \ {s} : handler'[q] = handler[q]
      /\ handler'[s].stage = "running"
      /\ handler'[s].call = handler[s].call
      /\ handler'[s].todo = IF server[s] = "rest" /\ what = "delete"
                            THEN <<"persist">> ELSE <<>>
      /\ handler'[s].outcome = o /\ ~handler'[s].durable
  <2>1. Tail(handler[s].todo) = IF server[s] = "rest" /\ what = "delete"
                                THEN <<"persist">> ELSE <<>>
    BY AskFacts
  <2>2. QED
    BY <1>2, <2>1, AskedFacts
<1> DEFINE g == append_audit(audit_log[s], id, owner_id[s], action, t)
<1>4. /\ g \in Seq(AuditEntry) /\ Len(g) = Len(audit_log[s]) + 1
      /\ \A i \in 1..Len(audit_log[s]) : g[i] = audit_log[s][i]
      /\ g[Len(g)].record_id = id /\ g[Len(g)].action = action
  BY <1>1, AppendAuditType DEF append_audit, NewAuditEntry
<1>5. /\ audit_log'[s] = g
      /\ \A q \in Sessions \ {s} : audit_log'[q] = audit_log[q]
  BY <1>1 DEF LogEntry, TypeOK
<1> HIDE DEF g
<1>6. /\ pc'[s] = "saving" /\ OthersKept(s)
      /\ request'[s].index = Len(g) /\ request'[s].record = rec
      /\ Len(g) # 0
  BY <1>1, <1>3, <1>4, <1>5 DEF OthersKept, TypeOK
<1>7. RunningInv(s)'
  <2>1. <<"persist">> # <<>>
    BY TodoFacts
  <2>2. o = "error" => ~SavesOnce(handler'[s], server[s])
    BY <1>2, <1>3 DEF SavesOnce
  <2>3. QED
    BY <1>2, <1>3, <1>6, <2>1, <2>2 DEF RunningInv
<1>8. FreshSession(s)'
  BY <1>6 DEF FreshSession
<1>9. OneServer => SerialInv'
  <2> SUFFICES ASSUME OneServer
               PROVE  SerialInv'
    OBVIOUS
  <2>1. SerialInv /\ Current(s)
    BY <1>1, <1>2 DEF SerialInv, AloneInv
  <2>2. Extends(g, disk_audit)
    BY <1>1, <1>4, <2>1 DEF Extends, Current
  <2>3. Effect(g[Len(g)], rec, disk_records, records'[s])
    BY <1>1, <1>4, <2>1 DEF Effect, Current, TypeOK, RecordMap
  <2>4. AloneInv(s)'
    BY <1>4, <1>5, <1>6, <2>1, <2>2, <2>3 DEF AloneInv, Current
  <2>5. QED
    BY <1>6, <2>1, <2>4, SerialFrame
<1>10. QED
  BY <1>1, <1>3, <1>6, <1>7, <1>8, <1>9 DEF Carried

LEMMA StatementServed ==
    ASSUME ServersInv, NEW s \in Sessions, InStage(s, "running"),
           server' = server,
           \/ Write(s, handler[s].call) \/ Read(s, handler[s].call)
           \/ Delete(s, handler[s].call)
    PROVE  Carried(s)
<1> DEFINE c == handler[s].call
<1>1. /\ TypeOK /\ c \in Call /\ c.id \in Ids
  BY RunningFacts DEF Call
<1>2. CASE Write(s, c)
  <2>1. PICK tier \in Tiers, created_at \in Times, t \in Times :
                ExecWrite(s, c.id, tier, c.password, created_at, t)
    BY <1>2 DEF Write
  <2>2. Ask(s, "write") /\ Asked(s, "ok")
    BY <1>2 DEF Write
  <2>3. c.op = "write" /\ c.password \in Payloads
    <3>1. c.op = "write"
      BY <2>2, AskFacts
    <3>2. QED
      BY <1>1, <3>1 DEF Call
  <2>4. [Next]_vars
    BY <1>1, <2>1, <2>3 DEF Next
  <2> DEFINE rec == [tier |-> tier, owner_id |-> owner_id[s],
                     payload |-> c.password, created_at |-> created_at]
  <2>5. /\ LogEntry(s, c.id, "Write", t)
        /\ records' = [records EXCEPT ![s][c.id] = rec]
        /\ request' = [request EXCEPT ![s] =
                          [index |-> Len(audit_log[s]) + 1, record |-> rec]]
        /\ pc' = [pc EXCEPT ![s] = "saving"]
        /\ UNCHANGED <<disk_records, disk_audit, replies>>
    BY <2>1 DEF ExecWrite, StoreWrite, Await, Goto, disk
  <2> HIDE DEF c, rec
  <2>6. /\ \A q \in Sessions \ {s} : records'[q] = records[q]
        /\ \A i \in Ids \ {c.id} : records'[s][i] = records[s][i]
        /\ records'[s][c.id] = rec
    BY <1>1, <2>5 DEF TypeOK, RecordMap
  <2>7. QED
    BY <1>1, <2>2, <2>4, <2>5, <2>6, ServedStep DEF AuditAction
<1>3. CASE Read(s, c)
  <2>1. PICK t \in Times : ExecRead(s, c.id, t)
    BY <1>3 DEF Read
  <2>2. PICK o \in {"ok", "error"} : Asked(s, o)
    BY <1>3 DEF Read
  <2>3. Ask(s, "read")
    BY <1>3 DEF Read
  <2>4. [Next]_vars
    BY <1>1, <2>1 DEF Next
  <2>5. /\ LogEntry(s, c.id, ReadAction(s, c.id), t) /\ records' = records
        /\ request' = [request EXCEPT ![s] =
                          [index  |-> Len(audit_log[s]) + 1,
                           record |-> ReadResult(s, c.id)]]
        /\ pc' = [pc EXCEPT ![s] = "saving"]
        /\ UNCHANGED <<disk_records, disk_audit, replies>>
    BY <2>1 DEF ExecRead, StoreRead, Await, Goto, disk
  <2>6. /\ ReadAction(s, c.id) \in {"ReadGranted", "ReadDenied"}
        /\ ReadAction(s, c.id) = "ReadGranted" =>
               records[s][c.id] = ReadResult(s, c.id)
    BY DEF ReadAction, ReadResult
  <2> HIDE DEF c
  <2>7. QED
    BY <1>1, <2>2, <2>3, <2>4, <2>5, <2>6, ServedStep DEF AuditAction
<1>4. CASE Delete(s, c)
  <2>1. PICK t \in Times : ExecDelete(s, c.id, t)
    BY <1>4 DEF Delete
  <2>2. Ask(s, "delete") /\ Asked(s, "ok")
    BY <1>4 DEF Delete
  <2>3. [Next]_vars
    BY <1>1, <2>1 DEF Next
  <2>4. /\ LogEntry(s, c.id, "Delete", t)
        /\ records' = [records EXCEPT ![s][c.id] = Absent]
        /\ request' = [request EXCEPT ![s] =
                          [index |-> Len(audit_log[s]) + 1, record |-> Absent]]
        /\ pc' = [pc EXCEPT ![s] = "saving"]
        /\ UNCHANGED <<disk_records, disk_audit, replies>>
    BY <2>1 DEF ExecDelete, StoreDelete, Await, Goto, disk
  <2> HIDE DEF c
  <2>5. /\ \A q \in Sessions \ {s} : records'[q] = records[q]
        /\ \A i \in Ids \ {c.id} : records'[s][i] = records[s][i]
    BY <1>1, <2>4 DEF TypeOK, RecordMap
  <2>6. QED
    BY <1>1, <2>2, <2>3, <2>4, <2>5, ServedStep DEF AuditAction
<1>5. QED
  BY <1>2, <1>3, <1>4

(* A save that fails ends the call.                                        *)
LEMMA SaveRefusedStep ==
    ASSUME ServersInv, NEW s \in Sessions, InStage(s, "running"),
           server' = server, SaveRefused(s)
    PROVE  Carried(s)
<1>1. /\ TypeOK /\ RunningInv(s) /\ handler[s].stage = "running"
      /\ \A r \in replies : r.saved
      /\ OneServer => SerialInv
  BY RunningFacts
<1>2. SaveRejected(s) \/ SaveFails(s)
  BY DEF SaveRefused
<1>3. /\ pc[s] = "saving" /\ pc' = [pc EXCEPT ![s] = "ready"]
      /\ request' = [request EXCEPT ![s] = Absent]
      /\ UNCHANGED <<disk_records, disk_audit, records, audit_log, replies>>
  BY <1>2 DEF SaveRejected, SaveFails, Abort, Goto, disk, memory
<1>4. /\ handler' \in [Sessions -> Handler]
      /\ \A q \in Sessions \ {s} : handler'[q] = handler[q]
      /\ handler'[s].stage = "running"
      /\ handler'[s].call = handler[s].call
      /\ handler'[s].todo = <<>> /\ handler'[s].outcome = "error"
      /\ handler'[s].durable = handler[s].durable
  BY FailFacts DEF SaveRefused
<1>5. pc'[s] = "ready" /\ OthersKept(s)
  BY <1>1, <1>3, <1>4 DEF OthersKept, TypeOK
<1>6. [Next]_vars
  BY <1>2 DEF Next
<1>7. RunningInv(s)'
  <2>1. SavesOnce(handler[s], server[s]) => ~handler[s].durable
    BY <1>1, <1>3 DEF RunningInv
  <2>2. QED
    BY <1>4, <1>5, <2>1 DEF RunningInv, SavesOnce
<1>8. FreshSession(s)'
  BY <1>5 DEF FreshSession
<1>9. OneServer => SerialInv'
  <2>1. AloneInv(s)'
    BY <1>4, <1>5 DEF AloneInv
  <2>2. QED
    BY <1>1, <1>3, <1>5, <2>1, SerialFrame
<1>10. QED
  BY <1>1, <1>3, <1>4, <1>5, <1>6, <1>7, <1>8, <1>9 DEF Carried

-----------------------------------------------------------------------------
(* One server: commits and answers follow each other.                      *)

(* Old answers keep their places while the log grows.                      *)
LEMMA SavedReplies ==
    ASSUME ServersInv
    PROVE  \A r \in replies : /\ r.saved /\ r.index \in 1..Len(disk_audit)
                              /\ disk_audit[r.index] = r.entry
                              /\ r.entry.record_id \in Ids
BY DEF ServersInv, IInv, RepliesAreDurable, TypeOK, Reply, AuditEntry

LEMMA SerialCommit ==
    ASSUME ServersInv, OneServer, NEW s \in Sessions,
           \/ SaveCommit(s)
           \/ SaveInDoubt(s) /\ handler'[s].todo = <<>>,
           request[s].index # 0, OthersKept(s)
    PROVE  SerialInv'
<1> DEFINE log == audit_log[s]
           e == log[Len(log)]
<1>1. /\ TypeOK /\ HandlersOK /\ SerialInv /\ pc[s] = "saving"
      /\ disk_audit \in Seq(AuditEntry) /\ log \in Seq(AuditEntry)
  BY DEF ServersInv, IInv, TypeOK, SaveCommit, SaveInDoubt, Goto
<1>2. /\ request[s].index = Len(disk_audit) + 1
      /\ Len(log) = Len(disk_audit) + 1
      /\ Extends(log, disk_audit)
      /\ Effect(e, request[s].record, disk_records, records[s])
  BY <1>1 DEF SerialInv, AloneInv
<1>3. /\ disk_records' = records[s] /\ disk_audit' = log
      /\ \/ pc'[s] = "replying" /\ request' = request
         \/ pc'[s] = "ready" /\ handler'[s].todo = <<>>
      /\ UNCHANGED <<records, audit_log, replies>>
  BY <1>1 DEF SaveCommit, SaveInDoubt, Commit, Goto, memory, TypeOK
<1>4. e \in AuditEntry /\ Len(disk_audit) \in Nat
  BY <1>1, <1>2
<1> HIDE DEF e, log
<1>5. \A i \in 1..Len(disk_audit) : disk_audit'[i] = disk_audit[i]
  BY <1>2, <1>3 DEF Extends
<1>6. TakenIdIsRefused'
  <2> SUFFICES ASSUME NEW r \in replies, r.entry.action = "Write",
                      Undisturbed(disk_audit', r.index, Len(log))
               PROVE  records[s][r.entry.record_id] = r.record
    BY <1>3 DEF TakenIdIsRefused
  <2>1. /\ r.index \in 1..Len(disk_audit) /\ disk_audit[r.index] = r.entry
        /\ r.entry.record_id \in Ids
    BY SavedReplies
  <2>2. disk_audit'[r.index].record_id = r.entry.record_id
    BY <1>5, <2>1
  <2>3. Undisturbed(disk_audit, r.index, Len(disk_audit))
    BY <1>2, <1>4, <1>5, <2>1 DEF Undisturbed
  <2>4. disk_records[r.entry.record_id] = r.record
    BY <1>1, <2>3 DEF SerialInv, TakenIdIsRefused
  <2>5. /\ Len(log) \in (r.index + 1)..Len(log)
        /\ disk_audit'[Len(log)] = e
    BY <1>2, <1>3, <1>4, <2>1 DEF e
  <2>6. e.record_id = r.entry.record_id => e.action \notin {"Write", "Delete"}
    BY <2>2, <2>5 DEF Undisturbed
  <2>7. QED
    BY <1>2, <1>4, <2>1, <2>4, <2>6 DEF Effect, AuditEntry, AuditAction
<1>7. ReadsSeeAcknowledgedWrite'
  <2> SUFFICES ASSUME NEW r \in replies, NEW w \in replies,
                      r.saved, r.entry.action = "ReadGranted",
                      w.entry.action = "Write",
                      w.entry.record_id = r.entry.record_id,
                      w.index < r.index,
                      Undisturbed(disk_audit', w.index, r.index)
               PROVE  r.record = w.record
    BY <1>3 DEF ReadsSeeAcknowledgedWrite
  <2>1. r.index \in 1..Len(disk_audit) /\ w.index \in 1..Len(disk_audit)
    BY SavedReplies
  <2>2. Undisturbed(disk_audit, w.index, r.index)
    BY <1>4, <1>5, <2>1 DEF Undisturbed
  <2>3. QED
    BY <1>1, <2>2 DEF SerialInv, ReadsSeeAcknowledgedWrite
<1>8. OneEntryPerReply'
  BY <1>1, <1>3 DEF SerialInv, OneEntryPerReply
<1>9. AloneInv(s)'
  <2>1. Current(s)'
    BY <1>3 DEF Current, log
  <2>2. e.action \in {"Write", "ReadGranted"} =>
            disk_records'[e.record_id] = request[s].record
    BY <1>2, <1>3 DEF Effect
  <2>3. \A r \in replies : r.index # Len(log)
    BY <1>2, <1>4, SavedReplies
  <2>4. QED
    BY <1>2, <1>3, <2>1, <2>2, <2>3 DEF AloneInv, e, log
<1>10. ASSUME NEW q \in Sessions \ {s}
       PROVE  AloneInv(q)'
  <2>1. pc'[q] = "closed"
    BY <1>1, Alone DEF OthersKept
  <2>2. QED
    BY <2>1 DEF AloneInv
<1>11. QED
  BY <1>6, <1>7, <1>8, <1>9, <1>10 DEF SerialInv

LEMMA SerialAnswer ==
    ASSUME ServersInv, OneServer, NEW s \in Sessions, SendReply(s),
           request[s].index # 0, OthersKept(s)
    PROVE  SerialInv'
<1> DEFINE log == audit_log[s]
           e == log[Len(log)]
           a == Answer(s, TRUE, Len(log), log, request[s].record)
<1>1. /\ TypeOK /\ HandlersOK /\ SerialInv /\ pc[s] = "replying"
      /\ disk_audit \in Seq(AuditEntry)
  BY DEF ServersInv, IInv, TypeOK, SendReply, Goto
<1>2. /\ Current(s) /\ request[s].index = Len(log)
      /\ e.action \in {"Write", "ReadGranted"} =>
             disk_records[e.record_id] = request[s].record
      /\ \A r \in replies : r.index # Len(log)
  BY <1>1 DEF SerialInv, AloneInv
<1>3. /\ pc'[s] = "ready" /\ replies' = replies \cup {a}
      /\ UNCHANGED <<disk_records, disk_audit, records, audit_log>>
  BY <1>1, <1>2 DEF SendReply, Goto, disk, memory, TypeOK
<1>4. /\ a.index = Len(log) /\ a.entry = e /\ a.record = request[s].record
      /\ Len(log) = Len(disk_audit)
  BY <1>2 DEF Answer, Current
<1> HIDE DEF a, e, log
<1>5. TakenIdIsRefused'
  BY <1>1, <1>2, <1>3, <1>4 DEF SerialInv, TakenIdIsRefused, Undisturbed
<1>6. ReadsSeeAcknowledgedWrite'
  <2> SUFFICES ASSUME NEW r \in replies \cup {a}, NEW w \in replies \cup {a},
                      r.saved, r.entry.action = "ReadGranted",
                      w.entry.action = "Write",
                      w.entry.record_id = r.entry.record_id,
                      w.index < r.index,
                      Undisturbed(disk_audit, w.index, r.index)
               PROVE  r.record = w.record
    BY <1>3 DEF ReadsSeeAcknowledgedWrite
  <2>1. CASE r \in replies /\ w \in replies
    BY <1>1, <2>1 DEF SerialInv, ReadsSeeAcknowledgedWrite
  <2>2. CASE w = a
    <3>1. r \in replies
      BY <1>4, <2>2, <1>1
    <3>2. r.index \in 1..Len(disk_audit)
      BY <3>1, SavedReplies
    <3>3. QED
      BY <1>1, <1>4, <2>2, <3>2
  <2>3. CASE r = a /\ w \in replies
    <3>1. disk_records[w.entry.record_id] = w.record
      BY <1>1, <1>4, <2>3 DEF SerialInv, TakenIdIsRefused
    <3>2. QED
      BY <1>2, <1>4, <2>3, <3>1
  <2>4. QED
    BY <2>1, <2>2, <2>3
<1>7. OneEntryPerReply'
  BY <1>1, <1>2, <1>3, <1>4 DEF SerialInv, OneEntryPerReply
<1>8. AloneInv(s)'
  BY <1>2, <1>3 DEF AloneInv, Current
<1>9. ASSUME NEW q \in Sessions \ {s}
      PROVE  AloneInv(q)'
  <2>1. pc'[q] = "closed"
    BY <1>1, Alone DEF OthersKept
  <2>2. QED
    BY <2>1 DEF AloneInv
<1>10. QED
  BY <1>5, <1>6, <1>7, <1>8, <1>9 DEF SerialInv

-----------------------------------------------------------------------------
(* Saving and answering.                                                   *)

LEMMA SavedStep ==
    ASSUME ServersInv, NEW s \in Sessions, InStage(s, "running"),
           server' = server, Saved(s)
    PROVE  Carried(s)
<1>1. /\ TypeOK /\ RunningInv(s) /\ handler \in [Sessions -> Handler]
      /\ handler[s] \in Handler /\ handler[s].stage = "running"
      /\ \A r \in replies : r.saved
      /\ OneServer => SerialInv
  BY RunningFacts
<1>2. /\ SaveCommit(s) /\ pc[s] = "saving"
      /\ pc' = [pc EXCEPT ![s] = "replying"]
      /\ UNCHANGED <<records, audit_log, request, replies>>
      /\ disk_records' = records[s] /\ disk_audit' = audit_log[s]
  BY DEF Saved, SaveCommit, Commit, Goto, memory
<1> DEFINE d == handler[s].durable \/ request[s].index # 0
           h == [handler[s] EXCEPT !.durable = d]
<1>3. /\ h \in Handler /\ h.stage = "running" /\ h.call = handler[s].call
      /\ h.todo = handler[s].todo /\ h.outcome = handler[s].outcome
      /\ h.durable = d
  BY <1>1 DEF Handler
<1>4. handler' = [handler EXCEPT ![s] = h]
  BY <1>1 DEF Saved
<1> HIDE DEF h
<1>5. /\ handler' \in [Sessions -> Handler] /\ handler'[s] = h
      /\ \A q \in Sessions \ {s} : handler'[q] = handler[q]
  BY <1>1, <1>3, <1>4
<1>6. pc'[s] = "replying" /\ OthersKept(s)
  BY <1>1, <1>2, <1>5 DEF OthersKept, TypeOK
<1>7. [Next]_vars
  BY <1>2 DEF Next
<1>8. RunningInv(s)'
  BY <1>1, <1>2, <1>3, <1>5, <1>6 DEF RunningInv, SavesOnce
<1>9. FreshSession(s)'
  BY <1>6 DEF FreshSession
<1>10. OneServer => SerialInv'
  <2>1. CASE request[s].index # 0
    BY <1>2, <1>6, <2>1, SerialCommit
  <2>2. CASE request[s].index = 0
    <3> SUFFICES ASSUME OneServer
                 PROVE  SerialInv'
      OBVIOUS
    <3>1. Len(disk_audit) + 1 # 0
      BY <1>1 DEF TypeOK
    <3>2. SerialInv /\ Current(s)
      BY <1>1, <1>2, <2>2, <3>1 DEF SerialInv, AloneInv
    <3>3. disk_records' = disk_records /\ disk_audit' = disk_audit
      BY <1>2, <3>2 DEF Current
    <3>4. AloneInv(s)'
      BY <1>2, <1>6, <2>2, <3>2, <3>3 DEF AloneInv, Current
    <3>5. QED
      BY <1>2, <1>6, <3>2, <3>3, <3>4, SerialFrame
  <2>3. QED
    BY <2>1, <2>2
<1>11. QED
  BY <1>1, <1>2, <1>3, <1>5, <1>6, <1>7, <1>8, <1>9, <1>10 DEF Carried

(* A commit that was done although it reported an error.                   *)
LEMMA SavedInDoubtStep ==
    ASSUME ServersInv, NEW s \in Sessions, InStage(s, "running"),
           server' = server, SavedInDoubt(s)
    PROVE  Carried(s)
<1>1. /\ TypeOK /\ RunningInv(s) /\ handler \in [Sessions -> Handler]
      /\ handler[s] \in Handler /\ handler[s].stage = "running"
      /\ \A r \in replies : r.saved
      /\ OneServer => SerialInv
  BY RunningFacts
<1>2. /\ SaveInDoubt(s) /\ pc[s] = "saving"
      /\ pc' = [pc EXCEPT ![s] = "ready"]
      /\ request' = [request EXCEPT ![s] = Absent]
      /\ UNCHANGED <<records, audit_log, replies>>
      /\ disk_records' = records[s] /\ disk_audit' = audit_log[s]
  BY DEF SavedInDoubt, SaveInDoubt, Commit, Goto, memory
<1> DEFINE d == handler[s].durable \/ request[s].index # 0
           h == [handler[s] EXCEPT !.todo = <<>>, !.outcome = "in_doubt",
                                   !.durable = d]
<1>3. /\ h \in Handler /\ h.stage = "running" /\ h.call = handler[s].call
      /\ h.todo = <<>> /\ h.outcome = "in_doubt"
  BY <1>1 DEF Handler
<1>4. handler' = [handler EXCEPT ![s] = h]
  BY <1>1 DEF SavedInDoubt
<1> HIDE DEF h
<1>5. /\ handler' \in [Sessions -> Handler] /\ handler'[s] = h
      /\ \A q \in Sessions \ {s} : handler'[q] = handler[q]
  BY <1>1, <1>3, <1>4
<1>6. pc'[s] = "ready" /\ OthersKept(s)
  BY <1>1, <1>2, <1>5 DEF OthersKept, TypeOK
<1>7. [Next]_vars
  BY <1>2 DEF Next
<1>8. RunningInv(s)'
  BY <1>3, <1>5, <1>6 DEF RunningInv, SavesOnce
<1>9. FreshSession(s)'
  BY <1>6 DEF FreshSession
<1>10. OneServer => SerialInv'
  <2>1. CASE request[s].index # 0
    BY <1>2, <1>3, <1>5, <1>6, <2>1, SerialCommit
  <2>2. CASE request[s].index = 0
    <3> SUFFICES ASSUME OneServer
                 PROVE  SerialInv'
      OBVIOUS
    <3>1. Len(disk_audit) + 1 # 0
      BY <1>1 DEF TypeOK
    <3>2. SerialInv /\ Current(s)
      BY <1>1, <1>2, <2>2, <3>1 DEF SerialInv, AloneInv
    <3>3. disk_records' = disk_records /\ disk_audit' = disk_audit
      BY <1>2, <3>2 DEF Current
    <3>4. AloneInv(s)'
      BY <1>3, <1>5, <1>6 DEF AloneInv
    <3>5. QED
      BY <1>2, <1>6, <3>2, <3>3, <3>4, SerialFrame
  <2>3. QED
    BY <2>1, <2>2
<1>11. QED
  BY <1>1, <1>2, <1>3, <1>5, <1>6, <1>7, <1>8, <1>9, <1>10 DEF Carried

LEMMA AnsweredStep ==
    ASSUME ServersInv, NEW s \in Sessions, InStage(s, "running"),
           server' = server, Answered(s)
    PROVE  Carried(s)
<1>1. /\ TypeOK /\ RunningInv(s) /\ handler \in [Sessions -> Handler]
      /\ handler[s].stage = "running" /\ handler' = handler
      /\ \A r \in replies : r.saved
      /\ OneServer => SerialInv
  BY RunningFacts DEF Answered
<1>2. /\ SendReply(s) /\ pc[s] = "replying"
      /\ pc' = [pc EXCEPT ![s] = "ready"]
      /\ request' = [request EXCEPT ![s] = Absent]
      /\ UNCHANGED <<disk_records, disk_audit, records, audit_log>>
  BY DEF Answered, SendReply, Goto, disk, memory
<1>3. pc'[s] = "ready" /\ OthersKept(s)
  BY <1>1, <1>2 DEF OthersKept, TypeOK
<1>4. [Next]_vars
  BY <1>2 DEF Next
<1>5. RunningInv(s)'
  BY <1>1, <1>2, <1>3 DEF RunningInv, SavesOnce
<1>6. FreshSession(s)'
  BY <1>3 DEF FreshSession
<1>7. \A r \in replies' : r.saved
  BY <1>1, <1>2 DEF SendReply, Answer
<1>8. OneServer => SerialInv'
  <2>1. CASE request[s].index # 0
    BY <1>2, <1>3, <2>1, SerialAnswer
  <2>2. CASE request[s].index = 0
    <3>1. replies' = replies
      BY <1>2, <2>2 DEF SendReply
    <3>2. SerialInv => AloneInv(s)'
      BY <1>2, <1>3 DEF SerialInv, AloneInv, Current
    <3>3. QED
      BY <1>1, <1>2, <1>3, <3>1, <3>2, SerialFrame
  <2>3. QED
    BY <2>1, <2>2
<1>9. QED
  BY <1>1, <1>3, <1>4, <1>5, <1>6, <1>7, <1>8 DEF Carried

LEMMA ExecuteCarried ==
    ASSUME ServersInv, NEW s \in Sessions, Execute(s)
    PROVE  Carried(s)
<1>1. InStage(s, "running") /\ server' = server
  BY DEF Execute
<1>2. \/ Opened(s) \/ OpenRefused(s) \/ OpenFails(s)
      \/ Write(s, handler[s].call) \/ WriteTaken(s, handler[s].call)
      \/ Read(s, handler[s].call) \/ ReadMissing(s, handler[s].call)
      \/ Delete(s, handler[s].call) \/ DeleteRefused(s, handler[s].call)
      \/ Persist(s) \/ Look(s)
      \/ Saved(s) \/ SaveRefused(s) \/ SavedInDoubt(s) \/ Answered(s)
  BY DEF Execute
<1>3. QED
  BY <1>1, <1>2, OpenedStep, RefusedStep, NoEffectStep, SaveOnlyStep,
     StatementServed, SaveRefusedStep, SavedStep, SavedInDoubtStep,
     AnsweredStep

LEMMA ExecuteStep ==
    ASSUME ServersInv, NEW s \in Sessions, Execute(s)
    PROVE  ServersInv'
<1>1. /\ InStage(s, "running")
      /\ UNCHANGED <<threads, server, queue, holder, calls>>
  BY DEF Execute
<1>2. Carried(s)
  BY ExecuteCarried
<1>3. IInv'
  BY <1>2, StepIInv DEF Carried, ServersInv
<1>4. HasThread(s) /\ handler[s].stage \in {"granted", "running"}
  BY <1>1, RunningFacts
<1>5. InStage(s, "running")'
  BY <1>2 DEF Carried, InStage
<1>6. QED
  BY <1>1, <1>2, <1>3, <1>4, <1>5, SessionStep DEF Carried

-----------------------------------------------------------------------------
(* The invariant.                                                          *)

LEMMA ServersStepInv ==
    ASSUME ServersInv, [ServersNext]_allVars
    PROVE  ServersInv'
<1>1. CASE UNCHANGED allVars
  <2>1. UNCHANGED vars /\ UNCHANGED serverVars
    BY <1>1 DEF allVars
  <2>2. IInv' /\ TypeOK'
    BY <2>1, StepIInv DEF ServersInv, IInv
  <2>3. UNCHANGED <<disk_records, disk_audit, pc, records, audit_log,
                    request, replies, threads, server, handler, queue,
                    holder, calls>>
    BY <2>1 DEF vars, disk, memory, serverVars
  <2>4. OnAThread' = OnAThread
    BY <2>3 DEF OnAThread, InStage
  <2>5. HandlersOK' /\ IsFiniteSet(OnAThread)' /\ WaitersAreQueued'
    BY <2>2, <2>3, <2>4 DEF ServersInv, HandlersOK, WaitersAreQueued, InStage
  <2>6. \A s \in Sessions : (HandlerInv(s) /\ FreshSession(s))'
    BY <2>3 DEF ServersInv, HandlerInv, FreshSession, RunningInv, InStage
  <2>7. (OneServer => SerialInv)'
    BY <2>3 DEF ServersInv, OneServer, SerialInv, AloneInv, Current,
                TakenIdIsRefused, ReadsSeeAcknowledgedWrite,
                OneEntryPerReply, Undisturbed
  <2>8. QED
    BY <2>2, <2>3, <2>5, <2>6, <2>7 DEF ServersInv
<1>2. CASE Crash
  BY <1>2, CrashStep
<1>3. ASSUME NEW s \in Sessions, Step(s) \/ Cancel(s)
      PROVE  ServersInv'
  BY <1>3, StartStep, GrantStep, ConnectStep, ExecuteStep, ReturnStep,
     CancelStep DEF Step
<1>4. ASSUME NEW s \in Sessions, NEW c \in Call, Arrive(s, c)
      PROVE  ServersInv'
  BY <1>4, ArriveStep
<1>5. QED
  BY <1>1, <1>2, <1>3, <1>4 DEF ServersNext

(* The safety part of the specification: its fairness is not needed here.  *)
LEMMA ServersSafety == ServersSpec => ServersInit /\ [][ServersNext]_allVars
BY PTL DEF ServersSpec

(* The inductive invariant of the two servers and their sessions.          *)
THEOREM ServersInvariance == ServersSpec => []ServersInv
<1>1. ServersInit => ServersInv
  BY ServersInitInv
<1>2. ServersInv /\ [ServersNext]_allVars => ServersInv'
  BY ServersStepInv
<1>3. QED
  BY <1>1, <1>2, ServersSafety, PTL

(* A call has a session only while it holds the lock of its server, and    *)
(* the runtime never runs more calls than it has threads.                  *)
THEOREM ServersHandlers == ServersSpec => []HandlersOK
<1>1. ServersInv => HandlersOK
  BY DEF ServersInv
<1>2. QED
  BY <1>1, ServersInvariance, PTL

(* What a caller of either server is told is what happened.                *)
THEOREM ServersTellTheTruth == ServersSpec => []AnswersTellTheTruth
<1>1. ASSUME ServersInv
      PROVE  AnswersTellTheTruth
  <2> SUFFICES ASSUME NEW s \in Sessions, Returning(s)
               PROVE  LET h == handler[s] IN
                      /\ h.outcome = "ok" /\ h.call.op # "look" => h.durable
                      /\ h.outcome = "error" /\ h.call.op = "write"
                             => ~h.durable
                      /\ h.outcome = "error" /\ h.call.op = "delete"
                         /\ server[s] = "grpc" => ~h.durable
    BY DEF AnswersTellTheTruth
  <2>1. /\ RunningInv(s) /\ handler[s].todo = <<>>
        /\ pc[s] \in {"ready", "closed"}
    BY <1>1, RunningFacts DEF Returning
  <2>2. QED
    BY <2>1 DEF RunningInv, SavesOnce
<1>2. QED
  BY <1>1, ServersInvariance, PTL

(* While all calls come through one server, of concurrent writes of an id  *)
(* one is acknowledged, and it is the one that is stored.                  *)
THEOREM ServersSerialWrites == ServersSpec => []WritesAreSerial
<1>1. ServersInv => WritesAreSerial
  BY DEF ServersInv, SerialInv, WritesAreSerial
<1>2. QED
  BY <1>1, ServersInvariance, PTL

(* While all calls come through one server, a read returns the write       *)
(* acknowledged before it.                                                 *)
THEOREM ServersSerialReads == ServersSpec => []ReadsAreSerial
<1>1. ServersInv => ReadsAreSerial
  BY DEF ServersInv, SerialInv, ReadsAreSerial
<1>2. QED
  BY <1>1, ServersInvariance, PTL

-----------------------------------------------------------------------------
(* The store beneath.                                                      *)

LEMMA ServersAppends ==
    ASSUME ServersInv, [ServersNext]_allVars
    PROVE  Extends(disk_audit', disk_audit)
<1>1. IInv /\ disk_audit \in Seq(AuditEntry)
  BY DEF ServersInv, IInv, TypeOK
<1>2. CASE UNCHANGED disk_audit
  BY <1>1, <1>2, ExtendsReflexive
<1>3. ASSUME NEW s \in Sessions, Connect(s) \/ Execute(s)
      PROVE  Extends(disk_audit', disk_audit)
  <2>1. CASE Connect(s)
    BY <1>1, <1>2, <2>1 DEF Connect, Open, disk
  <2>2. CASE Execute(s)
    BY <1>1, <2>2, ExecuteCarried, StepAppends DEF Carried
  <2>3. QED
    BY <1>3, <2>1, <2>2
<1>4. ASSUME NEW s \in Sessions,
             \/ Start(s) \/ Grant(s) \/ Return(s) \/ Cancel(s)
             \/ \E c \in Call : Arrive(s, c)
      PROVE  UNCHANGED disk_audit
  BY <1>4 DEF Start, Grant, Return, Cancel, Arrive, vars, disk
<1>5. CASE Crash
  BY <1>2, <1>5 DEF Crash
<1>6. CASE UNCHANGED allVars
  BY <1>2, <1>6 DEF allVars, vars, disk
<1>7. QED
  BY <1>2, <1>3, <1>4, <1>5, <1>6 DEF ServersNext, Step

(* The file implements the abstract audited store under both servers too,  *)
(* although they share no lock: a save that does not continue the file is  *)
(* refused.                                                                *)
THEOREM ServersRefinement == ServersSpec => AbstractSpec
<1>1. ServersInit => Abstract!Init
  BY AbstractInit DEF ServersInit
<1>2. ServersInv /\ ServersInv' /\ [ServersNext]_allVars
          => [Abstract!Next]_(Abstract!storeVars)
  BY ServersAppends, AbstractStep DEF ServersInv
<1>3. QED
  BY <1>1, <1>2, ServersInvariance, ServersSafety, PTL
     DEF AbstractSpec, Abstract!Spec
=============================================================================
