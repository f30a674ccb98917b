------------------------------ MODULE Servers -------------------------------
(***************************************************************************)
(* The REST server of server.rs and the gRPC server of grpc.rs: two        *)
(* services in one process, on one runtime and one database file.          *)
(*                                                                         *)
(* Every call that passes authentication takes the lock of its own server, *)
(* opens a session of RedbStore, executes, drops the session and releases  *)
(* the lock.  The REST lock is a std::sync::Mutex, so a REST call that     *)
(* waits for it blocks a worker thread of the runtime; the gRPC lock is a  *)
(* tokio::sync::Mutex, which queues its waiters without a thread and hands *)
(* the lock to the first of them, who then needs a thread to go on.        *)
(* Between taking the lock and returning no handler awaits anything, and a *)
(* gRPC call can be cancelled only before that.                            *)
(*                                                                         *)
(* Calls without credentials or with malformed arguments are answered      *)
(* before any lock is taken and change nothing: they are left out.         *)
(*                                                                         *)
(* A payload stands for the password it is sealed under; its text is left  *)
(* out.  The password of a call is checked only by decrypting.             *)
(***************************************************************************)
EXTENDS RedbStore, SequencesExt

CONSTANTS
    MaxThreads,   \* bound: worker threads of the runtime
    StoreSecret,  \* EDISONDB_STORE_SECRET, the same for both servers
    MaxCalls      \* bound: calls that arrive

ASSUME ServersAssumption ==
    /\ MaxThreads \in Nat \ {0}
    /\ StoreSecret \in Secrets
    /\ MaxCalls \in Nat
    /\ MaxCalls <= MaxLog       \* a call logs at most one entry
    /\ MaxCalls <= MaxReplies
    /\ Absent \notin Sessions

VARIABLES
    threads,  \* worker threads of the runtime, one per core; never changes
    server,   \* which server each slot for a call belongs to; never changes
    handler,  \* the call in each slot and how far it is
    queue,    \* calls that wait for the gRPC lock, in order
    holder,   \* who holds each server's lock
    calls     \* how many calls have arrived

serverVars == <<threads, server, handler, queue, holder, calls>>
allVars == <<vars, serverVars>>

Server == {"rest", "grpc"}
Op == {"write", "read", "delete", "look"}

(* Only writes and reads use the password.                                 *)
Call == [op : {"write", "read"}, id : Ids, owner : Owners,
         password : Payloads]
            \cup [op : {"delete", "look"}, id : Ids, owner : Owners]

(* todo is what the handler still has to ask of the session; durable is a  *)
(* history variable: a save of this call committed its audit entry.  The   *)
(* caller sees the same error for the outcomes "error" and "in_doubt".     *)
Handler == [stage   : {"idle", "arrived", "waiting", "granted", "running"},
            call    : Call \cup {Absent},
            todo    : {<<>>, <<"persist">>, <<"delete", "persist">>}
                          \cup {<<op>> : op \in Op},
            outcome : {"ok", "missing", "error", "in_doubt"},
            durable : BOOLEAN]

Idle == [stage |-> "idle", call |-> Absent, todo |-> <<>>, outcome |-> "ok",
         durable |-> FALSE]

ServersInit ==
    /\ Init
    /\ threads \in 1..MaxThreads
    /\ server \in [Sessions -> Server]
    /\ handler = [s \in Sessions |-> Idle]
    /\ queue = <<>>
    /\ holder = [v \in Server |-> Absent]
    /\ calls = 0

InStage(s, stage) == handler[s].stage = stage
Advance(s, stage) == handler' = [handler EXCEPT ![s].stage = stage]

-----------------------------------------------------------------------------
(* Threads and locks.                                                      *)

(* A REST call keeps its thread while it waits; a gRPC call does not.      *)
OnAThread ==
    {s \in Sessions : \/ InStage(s, "running")
                      \/ /\ server[s] = "rest"
                         /\ handler[s].stage \in {"waiting", "granted"}}

HasThread(s) == s \in OnAThread \/ Cardinality(OnAThread) < threads

(* What the handler asks of its session.  The look calls (list, audit,     *)
(* status, verify, search) only read; embed of the gRPC server is a write; *)
(* only the REST delete persists once more.                                *)
Work(v, op) == IF v = "rest" /\ op = "delete" THEN <<"delete", "persist">>
                                              ELSE <<op>>

Arrive(s, c) ==
    /\ InStage(s, "idle")
    /\ calls < MaxCalls
    /\ calls' = calls + 1
    /\ handler' = [handler EXCEPT ![s] =
          [Idle EXCEPT !.stage = "arrived", !.call = c,
                       !.todo = Work(server[s], c.op)]]
    /\ UNCHANGED <<vars, threads, server, queue, holder>>

(* The runtime polls the call; it reaches the lock.                        *)
Start(s) ==
    /\ InStage(s, "arrived")
    /\ HasThread(s)
    /\ Advance(s, "waiting")
    /\ queue' = IF server[s] = "grpc" THEN Append(queue, s) ELSE queue
    /\ UNCHANGED <<vars, threads, server, holder, calls>>

\* Mutants: the handlers share no lock; its guard is never dropped.
LockNeverTaken(v) == TRUE
KeepLock(s) == holder' = holder

LockFree(v) == holder[v] = Absent
Release(s) == holder' = [holder EXCEPT ![server[s]] = Absent]

(* state.lock() takes any waiter; operation_lock.lock() the first.         *)
Grant(s) ==
    /\ InStage(s, "waiting")
    /\ LockFree(server[s])
    /\ server[s] = "grpc" => s = Head(queue)
    /\ queue' = IF server[s] = "grpc" THEN Tail(queue) ELSE queue
    /\ holder' = [holder EXCEPT ![server[s]] = s]
    /\ Advance(s, "granted")
    /\ UNCHANGED <<vars, threads, server, calls>>

Connect(s) ==
    /\ InStage(s, "granted")
    /\ HasThread(s)
    /\ Open(s, handler[s].call.owner, StoreSecret)
    /\ Advance(s, "running")
    /\ UNCHANGED <<threads, server, queue, holder, calls>>

-----------------------------------------------------------------------------
(* The session of a running call.                                          *)

\* Mutant: the error is reported as success.
fail_silently(s) ==
    handler' = [handler EXCEPT ![s].todo = <<>>]

(* map_err(...)?: the call will answer with the error and do nothing more. *)
Fail(s) ==
    handler' = [handler EXCEPT ![s].todo = <<>>, ![s].outcome = "error"]

Opened(s) == (Load(s) \/ Create(s)) /\ UNCHANGED handler

(* open_db and connect fail: 401 or Unauthenticated.                       *)
OpenRefused(s) == (LoadRejected(s) \/ CreateRejected(s)) /\ Fail(s)
OpenFails(s) == /\ pc[s] \in {"loading", "creating"}
                /\ CloseOrCrash(s)
                /\ Fail(s)

(* The session is asked for the next thing.                                *)
Ask(s, what) ==
    /\ pc[s] = "ready"
    /\ handler[s].todo # <<>>
    /\ Head(handler[s].todo) = what

Asked(s, outcome) ==
    handler' = [handler EXCEPT ![s].todo = Tail(@), ![s].outcome = outcome]

Write(s, c) ==
    /\ Ask(s, "write")
    /\ \E tier \in Tiers, created_at, t \in Times :
           ExecWrite(s, c.id, tier, c.password, created_at, t)
    /\ Asked(s, "ok")

WriteTaken(s, c) ==
    /\ Ask(s, "write")
    /\ ~ensure_new_record_id(s, c.id)
    /\ Fail(s)
    /\ UNCHANGED vars

(* The record is returned only to a caller who may read it and whose       *)
(* password opens it; the attempt is logged before either is known.        *)
Opens(s, c) ==
    /\ ReadResult(s, c.id) # Absent
    /\ ReadResult(s, c.id).payload = c.password

Read(s, c) ==
    /\ Ask(s, "read")
    /\ \E t \in Times : ExecRead(s, c.id, t)
    /\ Asked(s, IF Opens(s, c) THEN "ok" ELSE "error")

ReadMissing(s, c) ==
    /\ Ask(s, "read")
    /\ records[s][c.id] = Absent
    /\ SaveOnly(s)
    /\ Asked(s, "missing")

Delete(s, c) ==
    /\ Ask(s, "delete")
    /\ \E t \in Times : ExecDelete(s, c.id, t)
    /\ Asked(s, "ok")

DeleteRefused(s, c) ==
    /\ Ask(s, "delete")
    /\ ~MayDelete(s, c.id)
    /\ Fail(s)
    /\ UNCHANGED vars

(* db.persist() of the REST delete.                                        *)
Persist(s) == Ask(s, "persist") /\ SaveOnly(s) /\ Asked(s, "ok")

Look(s) == Ask(s, "look") /\ Asked(s, "ok") /\ UNCHANGED vars

Saved(s) ==
    /\ SaveCommit(s)
    /\ handler' = [handler EXCEPT
           ![s].durable = @ \/ request[s].index # 0]

SaveRefused(s) == (SaveRejected(s) \/ SaveFails(s)) /\ Fail(s)

(* The commit took effect although it reported an error.                   *)
SavedInDoubt(s) ==
    /\ SaveInDoubt(s)
    /\ handler' = [handler EXCEPT
           ![s].todo = <<>>, ![s].outcome = "in_doubt",
           ![s].durable = @ \/ request[s].index # 0]

Answered(s) == SendReply(s) /\ UNCHANGED handler

Execute(s) ==
    /\ InStage(s, "running")
    /\ \/ Opened(s) \/ OpenRefused(s) \/ OpenFails(s)
       \/ LET c == handler[s].call IN
             \/ Write(s, c) \/ WriteTaken(s, c)
             \/ Read(s, c) \/ ReadMissing(s, c)
             \/ Delete(s, c) \/ DeleteRefused(s, c)
       \/ Persist(s) \/ Look(s)
       \/ Saved(s) \/ SaveRefused(s) \/ SavedInDoubt(s) \/ Answered(s)
    /\ UNCHANGED <<threads, server, queue, holder, calls>>

(* The handler returns: the session is dropped, then the lock.             *)
Returning(s) ==
    /\ InStage(s, "running")
    /\ handler[s].todo = <<>>
    /\ pc[s] \in {"ready", "closed"}

Return(s) ==
    /\ Returning(s)
    /\ pc' = [pc EXCEPT ![s] = "closed"]
    /\ Forget(s)
    /\ Release(s)
    /\ handler' = [handler EXCEPT ![s] = Idle]
    /\ UNCHANGED <<disk, replies, threads, server, queue, calls>>

(* The caller of a gRPC method goes away: its future is dropped where it   *)
(* awaits the lock, in the queue or with the lock just handed to it.       *)
Cancel(s) ==
    /\ server[s] = "grpc"
    /\ handler[s].stage \in {"arrived", "waiting", "granted"}
    /\ IF InStage(s, "waiting")
       THEN \E i \in 1..Len(queue) :
                queue[i] = s /\ queue' = RemoveAt(queue, i)
       ELSE UNCHANGED queue
    /\ IF holder["grpc"] = s THEN Release(s) ELSE UNCHANGED holder
    /\ handler' = [handler EXCEPT ![s] = Idle]
    /\ UNCHANGED <<vars, threads, server, calls>>

(* The process dies with everything it had in memory.                      *)
Crash ==
    /\ pc' = [s \in Sessions |-> "closed"]
    /\ owner_id' = [s \in Sessions |-> Absent]
    /\ store_secret' = [s \in Sessions |-> Legacy]
    /\ records' = [s \in Sessions |-> NoRecords]
    /\ audit_log' = [s \in Sessions |-> <<>>]
    /\ request' = [s \in Sessions |-> Absent]
    /\ file_exists' \in {file_exists,
                         file_exists \/ \E s \in Sessions : pc[s] = "creating"}
    /\ handler' = [s \in Sessions |-> Idle]
    /\ queue' = <<>>
    /\ holder' = [v \in Server |-> Absent]
    /\ UNCHANGED <<disk_records, disk_audit, checkpoint, replies, threads,
                   server, calls>>

Step(s) == Start(s) \/ Grant(s) \/ Connect(s) \/ Execute(s) \/ Return(s)

ServersNext ==
    \/ \E s \in Sessions : Step(s) \/ Cancel(s) \/ \E c \in Call : Arrive(s, c)
    \/ Crash

(* A runtime thread that has something to run runs it, and a waiter gets a *)
(* lock that stays free.                                                   *)
ServersSpec ==
    /\ ServersInit
    /\ [][ServersNext]_allVars
    /\ \A s \in Sessions : WF_allVars(Step(s))

-----------------------------------------------------------------------------

(* Types, and what the locks are for: a call has a session, or is about to *)
(* have one, only while it holds the lock of its server.                   *)
HandlersOK ==
    /\ TypeOK
    /\ threads \in 1..MaxThreads
    /\ server \in [Sessions -> Server]
    /\ handler \in [Sessions -> Handler]
    /\ queue \in Seq(Sessions)
    /\ holder \in [Server -> Sessions \cup {Absent}]
    /\ calls \in 0..MaxCalls
    /\ Cardinality(OnAThread) <= threads
    /\ \A s \in Sessions :
           /\ pc[s] # "closed" => InStage(s, "running")
           /\ handler[s].stage \in {"granted", "running"}
                  <=> holder[server[s]] = s

OneServer == \E v \in Server : \A s \in Sessions : server[s] = v

(* While all calls come through one server, concurrent writes of an id     *)
(* cannot both succeed: the stored record is the acknowledged one.         *)
WritesAreSerial == OneServer => TakenIdIsRefused

(* While all calls come through one server, an answered read returns the   *)
(* acknowledged write before it, and every answer has its own audit entry. *)
ReadsAreSerial == OneServer => ReadsSeeAcknowledgedWrite /\ OneEntryPerReply

(* What a caller is told is what happened, whichever servers are used and  *)
(* whatever failed: success means the operation's audit entry is durable,  *)
(* an error of a write or of a gRPC delete means nothing of it ever will   *)
(* be, since its session is dropped, unless the error is that of a commit, *)
(* which may have been done.  A REST delete may be done although its       *)
(* persist fails, and a refused read is durably logged.                    *)
AnswersTellTheTruth ==
    \A s \in Sessions : Returning(s) =>
        LET h == handler[s] IN
        /\ h.outcome = "ok" /\ h.call.op # "look" => h.durable
        /\ h.outcome = "error" /\ h.call.op = "write" => ~h.durable
        /\ h.outcome = "error" /\ h.call.op = "delete" /\ server[s] = "grpc"
               => ~h.durable

(* No call waits for ever on a lock or a thread: each is answered, unless  *)
(* it is cancelled or the process dies first.                              *)
EveryCallIsAnswered ==
    \A s \in Sessions : ~InStage(s, "idle") ~> InStage(s, "idle")
-----------------------------------------------------------------------------
(* The inductive invariant behind the safety properties above.             *)

(* A call that waits for the gRPC lock has its place in the queue.         *)
WaitersAreQueued ==
    \A s \in Sessions :
        server[s] = "grpc" /\ InStage(s, "waiting")
            => \E i \in 1..Len(queue) : queue[i] = s

(* A handler that has asked nothing of its session yet.                    *)
NothingAsked(h, v) ==
    h.todo = Work(v, h.call.op) /\ h.outcome = "ok" /\ ~h.durable

(* Calls that save once: an error of theirs means that nothing was saved.  *)
SavesOnce(h, v) == h.call.op = "write" \/ (h.call.op = "delete" /\ v = "grpc")

(* What a running handler knows at each place of its session.              *)
RunningInv(s) ==
    LET h == handler[s]
        v == server[s]
        unsaved == /\ ~h.durable
                   /\ pc[s] = "saving"
                   /\ request[s].index # 0
    IN
    /\ pc[s] \in {"loading", "creating"} => NothingAsked(h, v)
    /\ pc[s] = "closed" => h.todo = <<>> /\ h.outcome = "error"
    /\ h.todo # <<>> =>
           \/ NothingAsked(h, v) /\ pc[s] \in {"loading", "creating", "ready"}
           \/ /\ h.todo = <<"persist">> /\ h.outcome = "ok"
              /\ h.call.op = "delete" /\ v = "rest"
              /\ h.durable \/ unsaved
    /\ h.todo = <<>> /\ h.outcome = "ok" /\ h.call.op # "look" =>
           h.durable \/ unsaved
    /\ SavesOnce(h, v) =>
           /\ pc[s] = "saving" => ~h.durable
           /\ h.outcome = "error" =>
                  ~h.durable /\ pc[s] \in {"ready", "closed"}

HandlerInv(s) ==
    /\ ~InStage(s, "idle") => handler[s].call \in Call
    /\ handler[s].stage \in {"arrived", "waiting", "granted"} =>
           NothingAsked(handler[s], server[s])
    /\ InStage(s, "running") => RunningInv(s)

(* A session that has loaded nothing has nothing in memory.                *)
FreshSession(s) ==
    pc[s] \in {"closed", "loading", "creating"} =>
        records[s] = NoRecords /\ audit_log[s] = <<>>

Current(s) == records[s] = disk_records /\ audit_log[s] = disk_audit

(* What the statement that logged entry e did to the records, and rec, the *)
(* record it wrote or returns.                                             *)
Effect(e, rec, before, after) ==
    /\ \A id \in Ids : id # e.record_id => after[id] = before[id]
    /\ e.action \in {"ReadGranted", "ReadDenied"} => after = before
    /\ e.action \in {"Write", "ReadGranted"} => after[e.record_id] = rec

(* With no other session about, a session is one statement ahead of the    *)
(* file at most, and that statement is the one it will answer.             *)
AloneInv(s) ==
    LET log == audit_log[s] IN
    /\ pc[s] = "ready" /\ handler[s].todo # <<>> => Current(s)
    /\ pc[s] = "saving" =>
           \/ request[s].index = 0 /\ Current(s)
           \/ /\ request[s].index = Len(disk_audit) + 1
              /\ Len(log) = request[s].index
              /\ Extends(log, disk_audit)
              /\ Effect(log[Len(log)], request[s].record, disk_records,
                        records[s])
    /\ pc[s] = "replying" =>
           /\ Current(s)
           /\ request[s].index # 0 =>
                  /\ request[s].index = Len(log)
                  /\ log[Len(log)].action \in {"Write", "ReadGranted"} =>
                         disk_records[log[Len(log)].record_id]
                             = request[s].record
                  /\ \A r \in replies : r.index # Len(log)

SerialInv ==
    /\ \A s \in Sessions : AloneInv(s)
    /\ TakenIdIsRefused
    /\ ReadsSeeAcknowledgedWrite
    /\ OneEntryPerReply

ServersInv ==
    /\ IInv
    /\ HandlersOK
    /\ IsFiniteSet(OnAThread)
    /\ WaitersAreQueued
    /\ \A s \in Sessions : HandlerInv(s) /\ FreshSession(s)
    /\ \A r \in replies : r.saved
    /\ OneServer => SerialInv
=============================================================================
