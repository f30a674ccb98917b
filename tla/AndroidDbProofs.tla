--------------------------- MODULE AndroidDbProofs ---------------------------
(***************************************************************************)
(* The threads of the Android API use the mobile store as its module says, *)
(* for any number of threads and addresses; so what is proved of the store *)
(* holds behind the native entry points too.  Undefined behaviour needs a  *)
(* close() that ran together with another call.                            *)
(*                                                                         *)
(* The inductive invariant is Coordination: one lemma per action shows     *)
(* that it is kept, each from what the action does to call (facts <1>3).   *)
(***************************************************************************)
EXTENDS AndroidDb, TLAPS

-----------------------------------------------------------------------------
(* The store by itself.  The counters of acknowledged inserts increase,    *)
(* for any keys, values and largest counter, as long as the application    *)
(* leaves the reserved key alone (MobileDb::insert and delete do not keep  *)
(* it from that key).                                                      *)

LEMMA InitCounterInv == Init => CounterInv
<1> SUFFICES ASSUME Init
             PROVE  CounterInv
  OBVIOUS
<1>1. TypeOK
  BY CounterAssumption DEF Init, TypeOK
<1>2. partition[CounterKey] = Absent /\ Len(acked) = 0 /\ pc = "closed"
  BY DEF Init, Keys
<1>3. QED
  BY <1>1, <1>2 DEF CounterInv, AckedCountersIncrease, CounterCoversAcked

(* An acknowledged counter is in range.                                    *)
LEMMA AckedInRange ==
    ASSUME TypeOK, NEW i \in 1..Len(acked)
    PROVE  acked[i] \in 1..MaxCounter
<1> DEFINE S == 1..MaxCounter
<1>1. acked \in Seq(S)
  BY DEF TypeOK
<1> HIDE DEF S
<1>2. acked[i] \in S
  BY <1>1
<1>3. QED
  BY <1>2 DEF S

(* A stored item changes nothing but its own key.                          *)
LEMMA StoredFacts ==
    ASSUME TypeOK, NEW k \in Keys,
           NEW item \in Record \cup Counter \cup {Absent}
    PROVE  /\ Stored(k, item) \in [Keys -> Record \cup Counter \cup {Absent}]
           /\ Stored(k, item)[k] = item
           /\ \A l \in Keys \ {k} : Stored(k, item)[l] = partition[l]
BY DEF TypeOK, Stored

(* What the stored counter is, by what the reserved key holds.             *)
LEMMA PersistedCounterType ==
    ASSUME CounterInv
    PROVE  PersistedCounter \in 0..MaxCounter
<1>1. CASE partition[CounterKey] = Absent
  BY <1>1, CounterAssumption DEF PersistedCounter
<1>2. CASE partition[CounterKey] # Absent
  <2>1. partition[CounterKey] \in Record \cup Counter
        /\ partition[CounterKey].kind = "counter"
    BY <1>2 DEF CounterInv, TypeOK, Keys
  <2>2. \A rec \in Record : rec.kind = "record"
    BY DEF Record
  <2>3. partition[CounterKey] \in Counter
    BY <2>1, <2>2
  <2>4. QED
    BY <1>2, <2>3 DEF PersistedCounter, Counter
<1>3. QED
  BY <1>1, <1>2

(* An action that leaves the reserved key and the acknowledgements alone.  *)
LEMMA CounterKept ==
    ASSUME CounterInv, TypeOK', UNCHANGED acked,
           partition'[CounterKey] = partition[CounterKey],
           pc' # "closed" => PersistedCounter <= write_counter',
           pc' = "persisting" =>
               /\ write_counter' > 0
               /\ \A i \in 1..Len(acked) : acked[i] < write_counter'
    PROVE  CounterInv'
<1>1. PersistedCounter' = PersistedCounter
  BY DEF PersistedCounter
<1>2. QED
  BY <1>1 DEF CounterInv, AckedCountersIncrease, CounterCoversAcked

LEMMA OpenStep ==
    ASSUME CounterInv, Open
    PROVE  CounterInv'
<1>1. PersistedCounter \in 0..MaxCounter
  BY PersistedCounterType
<1>2. TypeOK'
  BY <1>1 DEF CounterInv, TypeOK, Open
<1>3. PersistedCounter <= write_counter' /\ pc' = "ready"
  BY <1>1 DEF Open
<1>4. QED
  BY <1>2, <1>3, CounterKept DEF Open

LEMMA InsertRecordStep ==
    ASSUME CounterKey \notin UserKeys, CounterInv,
           NEW k \in UserKeys, NEW v \in Values, InsertRecord(k, v)
    PROVE  CounterInv'
<1> DEFINE counter == write_counter + 1
           rec == [kind |-> "record", write_counter |-> counter, value |-> v]
<1>1. TypeOK /\ k \in Keys /\ k # CounterKey /\ CounterKey \in Keys
  BY DEF CounterInv, Keys
<1>2. counter \in 1..MaxCounter /\ write_counter' = counter
  BY <1>1, CounterAssumption
     DEF InsertRecord, StoreRecord, CanAdvance, next_write_counter, TypeOK
<1>3. rec \in Record
  BY <1>2 DEF Record
<1>4. /\ partition' \in {partition, Stored(k, rec)}
      /\ pc' \in {"ready", "persisting"}
      /\ UNCHANGED acked
  BY <1>1 DEF InsertRecord, StoreRecord, next_write_counter
<1> HIDE DEF rec
<1>5. /\ partition' \in [Keys -> Record \cup Counter \cup {Absent}]
      /\ partition'[CounterKey] = partition[CounterKey]
  BY <1>1, <1>3, <1>4, StoredFacts DEF TypeOK
<1>6. TypeOK'
  BY <1>1, <1>2, <1>4, <1>5 DEF TypeOK
<1>7. PersistedCounter <= write_counter
  BY DEF CounterInv, InsertRecord
<1>8. PersistedCounter \in Nat /\ write_counter \in Nat
  BY <1>1, PersistedCounterType DEF TypeOK
<1>9. ASSUME NEW i \in 1..Len(acked)
      PROVE  acked[i] < write_counter'
  <2>1. acked[i] \in 1..MaxCounter
    BY <1>1, AckedInRange
  <2>2. acked[i] <= PersistedCounter
    BY DEF CounterInv, CounterCoversAcked
  <2>3. QED
    BY <1>2, <1>7, <1>8, <2>1, <2>2
<1>10. PersistedCounter <= write_counter'
  BY <1>2, <1>7, <1>8
<1>11. write_counter' > 0
  BY <1>2, CounterAssumption
<1>12. QED
  BY <1>4, <1>5, <1>6, <1>9, <1>10, <1>11, CounterKept

LEMMA PersistCounterStep ==
    ASSUME CounterInv, PersistCounter
    PROVE  CounterInv'
<1>1. TypeOK /\ CounterKey \in Keys /\ pc = "persisting" /\ pc' = "ready"
  BY DEF CounterInv, Keys, PersistCounter, StoreCounter
<1>2. write_counter \in 0..MaxCounter /\ write_counter' = write_counter
  BY <1>1 DEF TypeOK, PersistCounter, StoreCounter
<1>3. CounterItem \in Counter /\ CounterItem.kind = "counter"
      /\ CounterItem.write_counter = write_counter
  BY <1>2 DEF CounterItem, Counter
<1>4. CounterItem # Absent
  BY <1>3, AbsentItemAssumption
<1>5. /\ Stored(CounterKey, CounterItem) \in
             [Keys -> Record \cup Counter \cup {Absent}]
      /\ Stored(CounterKey, CounterItem)[CounterKey] = CounterItem
  BY <1>1, <1>3, StoredFacts
<1>6. PersistedCounter \in 0..MaxCounter /\ PersistedCounter <= write_counter
  BY <1>1, PersistedCounterType DEF CounterInv
<1>7. \A i \in 1..Len(acked) : /\ acked[i] \in 1..MaxCounter
                               /\ acked[i] < write_counter
                               /\ acked[i] <= PersistedCounter
  <2>1. \A i \in 1..Len(acked) : acked[i] \in 1..MaxCounter
    BY <1>1, AckedInRange
  <2>2. QED
    BY <1>1, <2>1 DEF CounterInv, CounterCoversAcked
<1>8. CASE partition' = Stored(CounterKey, CounterItem)
  <2>1. PersistedCounter' = write_counter
    BY <1>3, <1>4, <1>5, <1>8 DEF PersistedCounter
  <2>2. partition'[CounterKey].kind = "counter"
    BY <1>3, <1>5, <1>8
  <2>3. CASE acked' = Append(acked, write_counter)
    <3>1. /\ Len(acked') = Len(acked) + 1
          /\ \A i \in 1..Len(acked) : acked'[i] = acked[i]
          /\ acked'[Len(acked) + 1] = write_counter
      BY <1>1, <2>3 DEF TypeOK
    <3>2. Len(acked) \in Nat
      BY <1>1 DEF TypeOK
    <3>3. write_counter \in 1..MaxCounter
      BY <1>1, <1>2, CounterAssumption DEF CounterInv
    <3>4. acked' \in Seq(1..MaxCounter)
      BY <1>1, <2>3, <3>3 DEF TypeOK
    <3>5. TypeOK'
      BY <1>1, <1>2, <1>5, <1>8, <3>4 DEF TypeOK
    <3>6. \A i \in 1..Len(acked') : acked'[i] <= write_counter
      BY <1>2, <1>7, <3>1, <3>2
    <3>7. AckedCountersIncrease'
      BY <1>1, <1>7, <3>1, <3>2 DEF CounterInv, AckedCountersIncrease
    <3>8. QED
      BY <1>1, <1>2, <2>1, <2>2, <3>5, <3>6, <3>7
         DEF CounterInv, CounterCoversAcked
  <2>4. CASE UNCHANGED acked
    <3>1. TypeOK'
      BY <1>1, <1>2, <1>5, <1>8, <2>4 DEF TypeOK
    <3>2. \A i \in 1..Len(acked') : acked'[i] <= write_counter
      BY <1>2, <1>7, <2>4
    <3>3. QED
      BY <1>1, <1>2, <2>1, <2>2, <2>4, <3>1, <3>2
         DEF CounterInv, CounterCoversAcked, AckedCountersIncrease
  <2>5. QED
    BY <2>3, <2>4 DEF PersistCounter, StoreCounter
<1>9. CASE partition' = partition /\ UNCHANGED acked
  <2>1. TypeOK'
    BY <1>1, <1>2, <1>9 DEF TypeOK
  <2>2. QED
    BY <1>1, <1>2, <1>6, <1>9, <2>1, CounterKept
<1>10. QED
  BY <1>8, <1>9 DEF PersistCounter, StoreCounter

LEMMA DeleteStep ==
    ASSUME CounterKey \notin UserKeys, CounterInv,
           NEW k \in UserKeys, Delete(k)
    PROVE  CounterInv'
<1>1. TypeOK /\ k \in Keys /\ k # CounterKey /\ CounterKey \in Keys
  BY DEF CounterInv, Keys
<1>2. /\ partition' \in [Keys -> Record \cup Counter \cup {Absent}]
      /\ partition'[CounterKey] = partition[CounterKey]
  BY <1>1, StoredFacts DEF Delete, Remove
<1>3. TypeOK'
  BY <1>1, <1>2 DEF TypeOK, Delete, Remove
<1>4. pc' = "ready" /\ PersistedCounter <= write_counter'
  BY DEF CounterInv, Delete, Remove
<1>5. QED
  BY <1>2, <1>3, <1>4, CounterKept DEF Delete, Remove

LEMMA CloseStep ==
    ASSUME CounterInv, CloseOrCrash
    PROVE  CounterInv'
<1>1. TypeOK'
  BY CounterAssumption DEF CounterInv, TypeOK, CloseOrCrash
<1>2. QED
  BY <1>1, CounterKept DEF CloseOrCrash

LEMMA StepCounterInv ==
    ASSUME CounterKey \notin UserKeys, CounterInv, [Next]_vars
    PROVE  CounterInv'
<1>1. CASE UNCHANGED vars
  BY <1>1 DEF vars, CounterInv, TypeOK, AckedCountersIncrease,
              CounterCoversAcked, PersistedCounter
<1>2. CASE Open
  BY <1>2, OpenStep
<1>3. CASE \E k \in UserKeys, v \in Values : InsertRecord(k, v)
  BY <1>3, InsertRecordStep
<1>4. CASE PersistCounter
  BY <1>4, PersistCounterStep
<1>5. CASE \E k \in UserKeys : Delete(k)
  BY <1>5, DeleteStep
<1>6. CASE CloseOrCrash
  BY <1>6, CloseStep
<1>7. QED
  BY <1>1, <1>2, <1>3, <1>4, <1>5, <1>6 DEF Next

(* The inductive invariant of MobileDb, when the application's keys do not *)
(* include the reserved one.                                               *)
THEOREM CounterInvariance ==
    ASSUME CounterKey \notin UserKeys
    PROVE  Spec => []CounterInv
<1>1. Init => CounterInv
  BY InitCounterInv
<1>2. CounterInv /\ [Next]_vars => CounterInv'
  BY StepCounterInv
<1>3. QED
  BY <1>1, <1>2, PTL DEF Spec

(* The counter handed out by next_write_counter is in range and each       *)
(* variable keeps its type.                                                *)
THEOREM MobileTypeCorrect ==
    ASSUME CounterKey \notin UserKeys
    PROVE  Spec => []TypeOK
<1>1. CounterInv => TypeOK
  BY DEF CounterInv
<1>2. QED
  BY <1>1, CounterInvariance, PTL

(* Acknowledged inserts carry strictly increasing counters, across failed  *)
(* inserts, crashes, reopens and exhaustion of the counter.                *)
THEOREM AckedAlwaysIncrease ==
    ASSUME CounterKey \notin UserKeys
    PROVE  Spec => []AckedCountersIncrease
<1>1. CounterInv => AckedCountersIncrease
  BY DEF CounterInv
<1>2. QED
  BY <1>1, CounterInvariance, PTL

(* The stored counter covers every acknowledged insert, so that the next   *)
(* MobileDb::open continues after it.                                      *)
THEOREM CounterAlwaysCovers ==
    ASSUME CounterKey \notin UserKeys
    PROVE  Spec => []CounterCoversAcked
<1>1. CounterInv => CounterCoversAcked
  BY DEF CounterInv
<1>2. QED
  BY <1>1, CounterInvariance, PTL

-----------------------------------------------------------------------------
(* The threads around it.                                                  *)

USE DEF Lifecycle, DataCalls, Synchronized, Locking, Using

(* What the two ways to move a thread do to call.                          *)
LEMMA ReturnFacts ==
    ASSUME AndroidTypeOK, NEW t \in Threads, Return(t)
    PROVE  /\ call' \in [Threads -> Call]
           /\ call'[t].stage = "idle" /\ call'[t].op = Absent
           /\ \A u \in Threads \ {t} : call'[u] = call[u]
<1>1. Idle \in Call
  BY DEF Idle, Call, Stages
<1>2. QED
  BY <1>1 DEF Return, AndroidTypeOK, Idle

LEMMA AdvanceFacts ==
    ASSUME AndroidTypeOK, NEW t \in Threads, NEW from, NEW to \in Stages,
           Advance(t, from, to)
    PROVE  /\ call' \in [Threads -> Call]
           /\ call[t].stage = from
           /\ call'[t].stage = to /\ call'[t].op = call[t].op
           /\ call'[t].handle = call[t].handle
           /\ \A u \in Threads \ {t} : call'[u] = call[u]
BY DEF Advance, AndroidTypeOK, Call

-----------------------------------------------------------------------------
(* One lemma per action.                                                   *)
LEMMA BeginStep ==
    ASSUME Coordination, ~undefined, NEW t \in Threads,
           NEW op \in Lifecycle \cup DataCalls, Begin(t, op)
    PROVE  Coordination'
<1> USE DEF Begin, Active, vars
<1>1. AndroidTypeOK
  BY DEF Coordination
<1>3. /\ call' \in [Threads -> Call]
      /\ call[t].stage = "idle"
      /\ call'[t].stage = "entered" /\ call'[t].op = op
      /\ \A u \in Threads \ {t} : call'[u] = call[u]
  <2>1. [Idle EXCEPT !.stage = "entered", !.op = op] \in Call
    BY DEF Idle, Call, Stages
  <2>2. QED
    BY <1>1, <2>1 DEF Idle, AndroidTypeOK
<1>4. AndroidTypeOK'
  BY <1>1, <1>3 DEF AndroidTypeOK, Call
<1>5. LocksHeld'
  BY <1>3, AbsentCallAssumption DEF Coordination, LocksHeld
<1>6. StagesFit'
  BY <1>3 DEF Coordination, StagesFit
<1>7. HandlesAgree'
  BY <1>1, <1>3, AbsentCallAssumption
     DEF Coordination, AndroidTypeOK, LocksHeld, StagesFit, HandlesAgree
<1>8. Undisturbed'
  BY <1>3, AbsentCallAssumption
     DEF Coordination, LocksHeld, StagesFit, HandlesAgree, Undisturbed
<1>9. QED
  BY <1>4, <1>5, <1>6, <1>7, <1>8 DEF Coordination

LEMMA EnterMonitorStep ==
    ASSUME Coordination, ~undefined, NEW t \in Threads, EnterMonitor(t)
    PROVE  Coordination'
<1> USE DEF EnterMonitor, vars
<1>1. AndroidTypeOK
  BY DEF Coordination
<1>2. Advance(t, "entered", "inside") /\ "inside" \in Stages
  BY DEF Stages
<1>3. /\ call' \in [Threads -> Call]
      /\ call[t].stage = "entered"
      /\ call'[t].stage = "inside" /\ call'[t].op = call[t].op
      /\ call'[t].handle = call[t].handle
      /\ \A u \in Threads \ {t} : call'[u] = call[u]
  BY <1>1, <1>2, AdvanceFacts
<1>4. AndroidTypeOK'
  BY <1>1, <1>3 DEF AndroidTypeOK, Call
<1>5. LocksHeld'
  BY <1>3, AbsentCallAssumption DEF Coordination, LocksHeld
<1>6. StagesFit'
  BY <1>3 DEF Coordination, StagesFit
<1>7. HandlesAgree'
  BY <1>1, <1>3, AbsentCallAssumption
     DEF Coordination, AndroidTypeOK, LocksHeld, StagesFit, HandlesAgree
<1>8. Undisturbed'
  BY <1>3, AbsentCallAssumption
     DEF Coordination, LocksHeld, StagesFit, HandlesAgree, Undisturbed
<1>9. QED
  BY <1>4, <1>5, <1>6, <1>7, <1>8 DEF Coordination

LEMMA LeaveUnchangedStep ==
    ASSUME Coordination, ~undefined, NEW t \in Threads, LeaveUnchanged(t)
    PROVE  Coordination'
<1> USE DEF LeaveUnchanged, LeaveMonitor, vars
<1>1. AndroidTypeOK
  BY DEF Coordination
<1>2. Return(t)
  OBVIOUS
<1>3. /\ call' \in [Threads -> Call]
      /\ call'[t].stage = "idle" /\ call'[t].op = Absent
      /\ \A u \in Threads \ {t} : call'[u] = call[u]
  BY <1>1, <1>2, ReturnFacts
<1>4. AndroidTypeOK'
  BY <1>1, <1>3 DEF AndroidTypeOK, Call
<1>5. LocksHeld'
  BY <1>3, AbsentCallAssumption DEF Coordination, LocksHeld
<1>6. StagesFit'
  BY <1>3 DEF Coordination, StagesFit
<1>7. HandlesAgree'
  BY <1>1, <1>3, AbsentCallAssumption
     DEF Coordination, AndroidTypeOK, LocksHeld, StagesFit, HandlesAgree
<1>8. Undisturbed'
  BY <1>3, AbsentCallAssumption
     DEF Coordination, LocksHeld, StagesFit, HandlesAgree, Undisturbed
<1>9. QED
  BY <1>4, <1>5, <1>6, <1>7, <1>8 DEF Coordination

LEMMA NativeOpenStep ==
    ASSUME Coordination, ~undefined, NEW t \in Threads, NativeOpen(t)
    PROVE  Coordination'
<1> USE DEF NativeOpen, Open, vars
<1>1. AndroidTypeOK
  BY DEF Coordination
<1>2. PICK h \in Handles :
        /\ live' = h
        /\ call' = [call EXCEPT ![t].stage = "opened", ![t].handle = h]
  OBVIOUS
<1>3. /\ call' \in [Threads -> Call]
      /\ call[t].stage = "inside" /\ call'[t].stage = "opened"
      /\ call'[t].op = call[t].op /\ call'[t].handle = live'
      /\ \A u \in Threads \ {t} : call'[u] = call[u]
      /\ live' \in Handles
  <2>1. /\ live' = h
        /\ call' = [call EXCEPT
                      ![t] = [call[t] EXCEPT !.stage = "opened",
                                             !.handle = h]]
    BY <1>1, <1>2 DEF AndroidTypeOK, Call
  <2> DEFINE opened == [call[t] EXCEPT !.stage = "opened", !.handle = live']
  <2>2. /\ opened \in Call /\ opened.stage = "opened"
        /\ opened.op = call[t].op /\ opened.handle = live'
    BY <1>1, <2>1 DEF AndroidTypeOK, Call, Stages
  <2>3. call' = [call EXCEPT ![t] = opened] /\ live' \in Handles
    BY <2>1
  <2> HIDE DEF opened
  <2>4. QED
    BY <1>1, <2>2, <2>3 DEF AndroidTypeOK
<1>4. AndroidTypeOK'
  BY <1>1, <1>3 DEF AndroidTypeOK, Call
<1>5. LocksHeld'
  BY <1>3, AbsentCallAssumption DEF Coordination, LocksHeld
<1>6. StagesFit'
  BY <1>3 DEF Coordination, StagesFit
<1>7. HandlesAgree'
  BY <1>1, <1>3, AbsentCallAssumption
     DEF Coordination, AndroidTypeOK, LocksHeld, StagesFit, HandlesAgree
<1>8. Undisturbed'
  BY <1>3, AbsentCallAssumption
     DEF Coordination, LocksHeld, StagesFit, HandlesAgree, Undisturbed
<1>9. QED
  BY <1>4, <1>5, <1>6, <1>7, <1>8 DEF Coordination

LEMMA PublishHandleStep ==
    ASSUME Coordination, ~undefined, NEW t \in Threads, PublishHandle(t)
    PROVE  Coordination'
<1> USE DEF PublishHandle, LeaveMonitor, vars
<1>1. AndroidTypeOK
  BY DEF Coordination
<1>2. Return(t)
  OBVIOUS
<1>3. /\ call' \in [Threads -> Call]
      /\ call'[t].stage = "idle" /\ call'[t].op = Absent
      /\ \A u \in Threads \ {t} : call'[u] = call[u]
  BY <1>1, <1>2, ReturnFacts
<1>4. AndroidTypeOK'
  BY <1>1, <1>3 DEF AndroidTypeOK, Call
<1>5. LocksHeld'
  BY <1>3, AbsentCallAssumption DEF Coordination, LocksHeld
<1>6. StagesFit'
  BY <1>3 DEF Coordination, StagesFit
<1>7. HandlesAgree'
  BY <1>1, <1>3, AbsentCallAssumption
     DEF Coordination, AndroidTypeOK, LocksHeld, StagesFit, HandlesAgree
<1>8. Undisturbed'
  BY <1>3, AbsentCallAssumption
     DEF Coordination, LocksHeld, StagesFit, HandlesAgree, Undisturbed
<1>9. QED
  BY <1>4, <1>5, <1>6, <1>7, <1>8 DEF Coordination

LEMMA ClearHandleStep ==
    ASSUME Coordination, ~undefined, NEW t \in Threads, ClearHandle(t)
    PROVE  Coordination'
<1> USE DEF ClearHandle, LeaveMonitor, vars
<1>1. AndroidTypeOK
  BY DEF Coordination
<1>2. Return(t)
  OBVIOUS
<1>3. /\ call' \in [Threads -> Call]
      /\ call'[t].stage = "idle" /\ call'[t].op = Absent
      /\ \A u \in Threads \ {t} : call'[u] = call[u]
  BY <1>1, <1>2, ReturnFacts
<1>4. AndroidTypeOK'
  BY <1>1, <1>3 DEF AndroidTypeOK, Call
<1>5. LocksHeld'
  BY <1>3, AbsentCallAssumption DEF Coordination, LocksHeld
<1>6. StagesFit'
  BY <1>3 DEF Coordination, StagesFit
<1>7. HandlesAgree'
  BY <1>1, <1>3, AbsentCallAssumption
     DEF Coordination, AndroidTypeOK, LocksHeld, StagesFit, HandlesAgree
<1>8. Undisturbed'
  BY <1>3, AbsentCallAssumption
     DEF Coordination, LocksHeld, StagesFit, HandlesAgree, Undisturbed
<1>9. QED
  BY <1>4, <1>5, <1>6, <1>7, <1>8 DEF Coordination

LEMMA ReadHandleStep ==
    ASSUME Coordination, ~undefined, NEW t \in Threads, ReadHandle(t)
    PROVE  Coordination'
<1> USE DEF ReadHandle, vars
<1>1. AndroidTypeOK
  BY DEF Coordination
<1>3. /\ call' \in [Threads -> Call]
      /\ call'[t].stage = "calling" /\ call'[t].op = call[t].op
      /\ call'[t].handle = dbHandle
      /\ \A u \in Threads \ {t} : call'[u] = call[u]
  BY <1>1 DEF AndroidTypeOK, Call, Stages
<1>4. AndroidTypeOK'
  BY <1>1, <1>3 DEF AndroidTypeOK, Call
<1>5. LocksHeld'
  BY <1>3, AbsentCallAssumption DEF Coordination, LocksHeld
<1>6. StagesFit'
  BY <1>3 DEF Coordination, StagesFit
<1>7. HandlesAgree'
  BY <1>1, <1>3, AbsentCallAssumption
     DEF Coordination, AndroidTypeOK, LocksHeld, StagesFit, HandlesAgree
<1>8. Undisturbed'
  BY <1>3, AbsentCallAssumption
     DEF Coordination, LocksHeld, StagesFit, HandlesAgree, Undisturbed
<1>9. QED
  BY <1>4, <1>5, <1>6, <1>7, <1>8 DEF Coordination

LEMMA RefuseArgumentsStep ==
    ASSUME Coordination, ~undefined, NEW t \in Threads, RefuseArguments(t)
    PROVE  Coordination'
<1> USE DEF RefuseArguments, vars
<1>1. AndroidTypeOK
  BY DEF Coordination
<1>2. Return(t)
  OBVIOUS
<1>3. /\ call' \in [Threads -> Call]
      /\ call'[t].stage = "idle" /\ call'[t].op = Absent
      /\ \A u \in Threads \ {t} : call'[u] = call[u]
  BY <1>1, <1>2, ReturnFacts
<1>4. AndroidTypeOK'
  BY <1>1, <1>3 DEF AndroidTypeOK, Call
<1>5. LocksHeld'
  BY <1>3, AbsentCallAssumption DEF Coordination, LocksHeld
<1>6. StagesFit'
  BY <1>3 DEF Coordination, StagesFit
<1>7. HandlesAgree'
  BY <1>1, <1>3, AbsentCallAssumption
     DEF Coordination, AndroidTypeOK, LocksHeld, StagesFit, HandlesAgree
<1>8. Undisturbed'
  BY <1>3, AbsentCallAssumption
     DEF Coordination, LocksHeld, StagesFit, HandlesAgree, Undisturbed
<1>9. QED
  BY <1>4, <1>5, <1>6, <1>7, <1>8 DEF Coordination

LEMMA LockStep ==
    ASSUME Coordination, ~undefined, NEW t \in Threads, Lock(t)
    PROVE  Coordination'
<1> USE DEF Lock, MutexFree, vars
<1>1. AndroidTypeOK
  BY DEF Coordination
<1>2. Advance(t, "native", "locked") /\ "locked" \in Stages
  BY DEF Stages
<1>3. /\ call' \in [Threads -> Call]
      /\ call[t].stage = "native"
      /\ call'[t].stage = "locked" /\ call'[t].op = call[t].op
      /\ call'[t].handle = call[t].handle
      /\ \A u \in Threads \ {t} : call'[u] = call[u]
  BY <1>1, <1>2 DEF Advance, AndroidTypeOK, Call
<1>4. AndroidTypeOK'
  BY <1>1, <1>3 DEF AndroidTypeOK, Call
<1>5. LocksHeld'
  BY <1>3, AbsentCallAssumption DEF Coordination, LocksHeld
<1>6. StagesFit'
  BY <1>3 DEF Coordination, StagesFit
<1>7. HandlesAgree'
  BY <1>1, <1>3, AbsentCallAssumption
     DEF Coordination, AndroidTypeOK, LocksHeld, StagesFit, HandlesAgree
<1>8. Undisturbed'
  BY <1>3, AbsentCallAssumption
     DEF Coordination, LocksHeld, StagesFit, HandlesAgree, Undisturbed
<1>9. QED
  BY <1>4, <1>5, <1>6, <1>7, <1>8 DEF Coordination

LEMMA ReadOrRefuseStep ==
    ASSUME Coordination, ~undefined, NEW t \in Threads, ReadOrRefuse(t)
    PROVE  Coordination'
<1> USE DEF ReadOrRefuse, Unlock, vars
<1>1. AndroidTypeOK
  BY DEF Coordination
<1>2. Return(t)
  OBVIOUS
<1>3. /\ call' \in [Threads -> Call]
      /\ call'[t].stage = "idle" /\ call'[t].op = Absent
      /\ \A u \in Threads \ {t} : call'[u] = call[u]
  BY <1>1, <1>2, ReturnFacts
<1>4. AndroidTypeOK'
  BY <1>1, <1>3 DEF AndroidTypeOK, Call
<1>5. LocksHeld'
  BY <1>3, AbsentCallAssumption DEF Coordination, LocksHeld
<1>6. StagesFit'
  BY <1>3 DEF Coordination, StagesFit
<1>7. HandlesAgree'
  BY <1>1, <1>3, AbsentCallAssumption
     DEF Coordination, AndroidTypeOK, LocksHeld, StagesFit, HandlesAgree
<1>8. Undisturbed'
  BY <1>3, AbsentCallAssumption
     DEF Coordination, LocksHeld, StagesFit, HandlesAgree, Undisturbed
<1>9. QED
  BY <1>4, <1>5, <1>6, <1>7, <1>8 DEF Coordination

LEMMA PersistHalfStep ==
    ASSUME Coordination, ~undefined, NEW t \in Threads, PersistHalf(t)
    PROVE  Coordination'
<1> USE DEF PersistHalf, Unlock, StoreCounter, vars
<1>1. AndroidTypeOK
  BY DEF Coordination
<1>2. Return(t)
  OBVIOUS
<1>3. /\ call' \in [Threads -> Call]
      /\ call'[t].stage = "idle" /\ call'[t].op = Absent
      /\ \A u \in Threads \ {t} : call'[u] = call[u]
  BY <1>1, <1>2, ReturnFacts
<1>4. AndroidTypeOK'
  BY <1>1, <1>3 DEF AndroidTypeOK, Call
<1>5. LocksHeld'
  BY <1>3, AbsentCallAssumption DEF Coordination, LocksHeld
<1>6. StagesFit'
  BY <1>3 DEF Coordination, StagesFit
<1>7. HandlesAgree'
  BY <1>1, <1>3, AbsentCallAssumption
     DEF Coordination, AndroidTypeOK, LocksHeld, StagesFit, HandlesAgree
<1>8. Undisturbed'
  BY <1>3, AbsentCallAssumption
     DEF Coordination, LocksHeld, StagesFit, HandlesAgree, Undisturbed
<1>9. QED
  BY <1>4, <1>5, <1>6, <1>7, <1>8 DEF Coordination

LEMMA RemoveKeyStep ==
    ASSUME Coordination, ~undefined, NEW t \in Threads, RemoveKey(t)
    PROVE  Coordination'
<1> USE DEF RemoveKey, Unlock, Remove, vars
<1>1. AndroidTypeOK
  BY DEF Coordination
<1>2. Return(t)
  OBVIOUS
<1>3. /\ call' \in [Threads -> Call]
      /\ call'[t].stage = "idle" /\ call'[t].op = Absent
      /\ \A u \in Threads \ {t} : call'[u] = call[u]
  BY <1>1, <1>2, ReturnFacts
<1>4. AndroidTypeOK'
  BY <1>1, <1>3 DEF AndroidTypeOK, Call
<1>5. LocksHeld'
  BY <1>3, AbsentCallAssumption DEF Coordination, LocksHeld
<1>6. StagesFit'
  BY <1>3 DEF Coordination, StagesFit
<1>7. HandlesAgree'
  BY <1>1, <1>3, AbsentCallAssumption
     DEF Coordination, AndroidTypeOK, LocksHeld, StagesFit, HandlesAgree
<1>8. Undisturbed'
  BY <1>3, AbsentCallAssumption
     DEF Coordination, LocksHeld, StagesFit, HandlesAgree, Undisturbed
<1>9. QED
  BY <1>4, <1>5, <1>6, <1>7, <1>8 DEF Coordination

(* Undefined behaviour after an overlap leaves everything else as it was.  *)
LEMMA UndefinedStep ==
    ASSUME Coordination, GoUndefined, overlap
    PROVE  Coordination'
BY DEF GoUndefined, Coordination, AndroidTypeOK, LocksHeld, StagesFit,
       HandlesAgree, Undisturbed, vars

LEMMA NativeCloseStep ==
    ASSUME Coordination, ~undefined, NEW t \in Threads, NativeClose(t)
    PROVE  Coordination'
<1> USE DEF NativeClose, CloseOrCrash, vars
<1>1. CASE MayFree
  <2>1. AndroidTypeOK
    BY DEF Coordination
  <2>2. Advance(t, "inside", "freed") /\ "freed" \in Stages
    BY <1>1 DEF Stages
  <2>3. /\ call' \in [Threads -> Call]
        /\ call[t].stage = "inside"
        /\ call'[t].stage = "freed" /\ call'[t].op = call[t].op
        /\ call'[t].handle = call[t].handle
        /\ \A u \in Threads \ {t} : call'[u] = call[u]
    BY <1>1, <2>1, <2>2 DEF Advance, AndroidTypeOK, Call
  <2>4. AndroidTypeOK'
    BY <1>1, <2>1, <2>3 DEF AndroidTypeOK, Call
  <2>5. LocksHeld'
    BY <1>1, <2>3, AbsentCallAssumption DEF Coordination, LocksHeld
  <2>6. StagesFit'
    BY <1>1, <2>3 DEF Coordination, StagesFit
  <2>7. HandlesAgree'
    BY <1>1, <2>1, <2>3, AbsentCallAssumption
       DEF MayFree, Coordination, AndroidTypeOK, LocksHeld, StagesFit,
           HandlesAgree
  <2>8. Undisturbed'
    BY <1>1, <2>3, AbsentCallAssumption
       DEF Coordination, LocksHeld, StagesFit, HandlesAgree, Undisturbed
  <2>9. QED
    BY <1>1, <2>4, <2>5, <2>6, <2>7, <2>8 DEF Coordination
<1>2. CASE ~MayFree
  <2>1. overlap
    BY <1>2, AbsentCallAssumption
       DEF MayFree, Coordination, LocksHeld, StagesFit, HandlesAgree,
           Undisturbed
  <2>2. QED
    BY <1>2, <2>1, UndefinedStep
<1>3. QED
  BY <1>1, <1>2

LEMMA CheckOpenStep ==
    ASSUME Coordination, ~undefined, NEW t \in Threads, CheckOpen(t)
    PROVE  Coordination'
<1> USE DEF CheckOpen, vars
<1>1. CASE dbHandle # Absent
  <2>1. AndroidTypeOK
    BY DEF Coordination
  <2>2. Advance(t, "entered", "checked") /\ "checked" \in Stages
    BY <1>1 DEF Stages
  <2>3. /\ call' \in [Threads -> Call]
        /\ call[t].stage = "entered"
        /\ call'[t].stage = "checked" /\ call'[t].op = call[t].op
        /\ call'[t].handle = call[t].handle
        /\ \A u \in Threads \ {t} : call'[u] = call[u]
    BY <1>1, <2>1, <2>2 DEF Advance, AndroidTypeOK, Call
  <2>4. AndroidTypeOK'
    BY <1>1, <2>1, <2>3 DEF AndroidTypeOK, Call
  <2>5. LocksHeld'
    BY <1>1, <2>3, AbsentCallAssumption DEF Coordination, LocksHeld
  <2>6. StagesFit'
    BY <1>1, <2>3 DEF Coordination, StagesFit
  <2>7. HandlesAgree'
    BY <1>1, <2>1, <2>3, AbsentCallAssumption
       DEF Coordination, AndroidTypeOK, LocksHeld, StagesFit, HandlesAgree
  <2>8. Undisturbed'
    BY <1>1, <2>3, AbsentCallAssumption
       DEF Coordination, LocksHeld, StagesFit, HandlesAgree, Undisturbed
  <2>9. QED
    BY <1>1, <2>4, <2>5, <2>6, <2>7, <2>8 DEF Coordination
<1>2. CASE dbHandle = Absent
  <2>1. AndroidTypeOK
    BY DEF Coordination
  <2>2. Return(t)
    BY <1>2
  <2>3. /\ call' \in [Threads -> Call]
        /\ call'[t].stage = "idle" /\ call'[t].op = Absent
        /\ \A u \in Threads \ {t} : call'[u] = call[u]
    BY <1>2, <2>1, <2>2, ReturnFacts
  <2>4. AndroidTypeOK'
    BY <1>2, <2>1, <2>3 DEF AndroidTypeOK, Call
  <2>5. LocksHeld'
    BY <1>2, <2>3, AbsentCallAssumption DEF Coordination, LocksHeld
  <2>6. StagesFit'
    BY <1>2, <2>3 DEF Coordination, StagesFit
  <2>7. HandlesAgree'
    BY <1>2, <2>1, <2>3, AbsentCallAssumption
       DEF Coordination, AndroidTypeOK, LocksHeld, StagesFit, HandlesAgree
  <2>8. Undisturbed'
    BY <1>2, <2>3, AbsentCallAssumption
       DEF Coordination, LocksHeld, StagesFit, HandlesAgree, Undisturbed
  <2>9. QED
    BY <1>2, <2>4, <2>5, <2>6, <2>7, <2>8 DEF Coordination
<1>3. QED
  BY <1>1, <1>2

LEMMA FollowHandleStep ==
    ASSUME Coordination, ~undefined, NEW t \in Threads, FollowHandle(t)
    PROVE  Coordination'
<1> USE DEF FollowHandle, vars
<1>1. CASE call[t].handle = live
  <2>1. AndroidTypeOK
    BY DEF Coordination
  <2>2. Advance(t, "calling", "native") /\ "native" \in Stages
    BY <1>1 DEF Stages
  <2>3. /\ call' \in [Threads -> Call]
        /\ call[t].stage = "calling"
        /\ call'[t].stage = "native" /\ call'[t].op = call[t].op
        /\ call'[t].handle = call[t].handle
        /\ \A u \in Threads \ {t} : call'[u] = call[u]
    BY <1>1, <2>1, <2>2 DEF Advance, AndroidTypeOK, Call
  <2>4. AndroidTypeOK'
    BY <1>1, <2>1, <2>3 DEF AndroidTypeOK, Call
  <2>5. LocksHeld'
    BY <1>1, <2>3, AbsentCallAssumption DEF Coordination, LocksHeld
  <2>6. StagesFit'
    BY <1>1, <2>3 DEF Coordination, StagesFit
  <2>7. HandlesAgree'
    BY <1>1, <2>1, <2>3, AbsentCallAssumption
       DEF Coordination, AndroidTypeOK, LocksHeld, StagesFit, HandlesAgree
  <2>8. Undisturbed'
    BY <1>1, <2>3, AbsentCallAssumption
       DEF Coordination, LocksHeld, StagesFit, HandlesAgree, Undisturbed
  <2>9. QED
    BY <1>1, <2>4, <2>5, <2>6, <2>7, <2>8 DEF Coordination
<1>2. CASE call[t].handle # live
  <2>1. overlap
    BY <1>2 DEF Coordination, Undisturbed
  <2>2. QED
    BY <1>2, <2>1, UndefinedStep
<1>3. QED
  BY <1>1, <1>2

LEMMA InsertHalfStep ==
    ASSUME Coordination, ~undefined, NEW t \in Threads, InsertHalf(t)
    PROVE  Coordination'
<1> USE DEF InsertHalf, StoreRecord, Unlock, vars
<1>1. CASE pc' = "persisting"
  <2>1. AndroidTypeOK
    BY DEF Coordination
  <2>2. Advance(t, "locked", "stored") /\ "stored" \in Stages
    BY <1>1 DEF Stages
  <2>3. /\ call' \in [Threads -> Call]
        /\ call[t].stage = "locked"
        /\ call'[t].stage = "stored" /\ call'[t].op = call[t].op
        /\ call'[t].handle = call[t].handle
        /\ \A u \in Threads \ {t} : call'[u] = call[u]
    BY <1>1, <2>1, <2>2 DEF Advance, AndroidTypeOK, Call
  <2>4. AndroidTypeOK'
    BY <1>1, <2>1, <2>3 DEF AndroidTypeOK, Call
  <2>5. LocksHeld'
    BY <1>1, <2>3, AbsentCallAssumption DEF Coordination, LocksHeld
  <2>6. StagesFit'
    BY <1>1, <2>3 DEF Coordination, StagesFit
  <2>7. HandlesAgree'
    BY <1>1, <2>1, <2>3, AbsentCallAssumption
       DEF Coordination, AndroidTypeOK, LocksHeld, StagesFit, HandlesAgree
  <2>8. Undisturbed'
    BY <1>1, <2>3, AbsentCallAssumption
       DEF Coordination, LocksHeld, StagesFit, HandlesAgree, Undisturbed
  <2>9. QED
    BY <1>1, <2>4, <2>5, <2>6, <2>7, <2>8 DEF Coordination
<1>2. CASE pc' # "persisting"
  <2>1. AndroidTypeOK
    BY DEF Coordination
  <2>2. Return(t)
    BY <1>2
  <2>3. /\ call' \in [Threads -> Call]
        /\ call'[t].stage = "idle" /\ call'[t].op = Absent
        /\ \A u \in Threads \ {t} : call'[u] = call[u]
    BY <1>2, <2>1, <2>2, ReturnFacts
  <2>4. AndroidTypeOK'
    BY <1>2, <2>1, <2>3 DEF AndroidTypeOK, Call
  <2>5. LocksHeld'
    BY <1>2, <2>3, AbsentCallAssumption DEF Coordination, LocksHeld
  <2>6. StagesFit'
    BY <1>2, <2>3 DEF Coordination, StagesFit
  <2>7. HandlesAgree'
    BY <1>2, <2>1, <2>3, AbsentCallAssumption
       DEF Coordination, AndroidTypeOK, LocksHeld, StagesFit, HandlesAgree
  <2>8. Undisturbed'
    BY <1>2, <2>3, AbsentCallAssumption
       DEF Coordination, LocksHeld, StagesFit, HandlesAgree, Undisturbed
  <2>9. QED
    BY <1>2, <2>4, <2>5, <2>6, <2>7, <2>8 DEF Coordination
<1>3. QED
  BY <1>1, <1>2

LEMMA KillStep ==
    ASSUME Coordination, ~undefined, Kill
    PROVE  Coordination'
<1>1. Idle \in Call /\ \A t \in Threads : call'[t] = Idle
  BY DEF Kill, Idle, Call, Stages
<1>2. live = Absent => pc' = pc
  BY DEF Kill, vars
<1>3. live # Absent => pc' = "closed"
  BY DEF Kill, CloseOrCrash
<1>4. AndroidTypeOK'
  BY <1>1, <1>2, <1>3 DEF Kill, Coordination, AndroidTypeOK
<1>5. LocksHeld' /\ StagesFit'
  BY <1>1, AbsentCallAssumption DEF Kill, LocksHeld, StagesFit, Idle
<1>6. HandlesAgree'
  BY <1>1, <1>2, <1>3 DEF Kill, Coordination, HandlesAgree, Idle
<1>7. Undisturbed'
  BY <1>1, AbsentCallAssumption DEF Kill, Coordination, Undisturbed, Idle
<1>8. QED
  BY <1>4, <1>5, <1>6, <1>7 DEF Coordination

-----------------------------------------------------------------------------
LEMMA InitCoordination == AndroidInit => Coordination
<1> SUFFICES ASSUME AndroidInit
             PROVE  Coordination
  OBVIOUS
<1>1. Idle \in Call /\ \A t \in Threads : call[t] = Idle
  BY DEF AndroidInit, Idle, Call, Stages
<1>2. pc = "closed"
  BY DEF AndroidInit, Init
<1>3. QED
  BY <1>1, <1>2, AbsentCallAssumption
     DEF AndroidInit, Coordination, AndroidTypeOK, LocksHeld, StagesFit,
         HandlesAgree, Undisturbed, Idle

LEMMA CoordinationStep ==
    Coordination /\ [AndroidNext]_androidVars => Coordination'
<1> SUFFICES ASSUME Coordination, [AndroidNext]_androidVars
             PROVE  Coordination'
  OBVIOUS
<1>1. CASE UNCHANGED androidVars
  BY <1>1 DEF androidVars, android, vars, Coordination, AndroidTypeOK,
     LocksHeld, StagesFit, HandlesAgree, Undisturbed
<1>2. ASSUME ~undefined, Kill
      PROVE  Coordination'
  BY <1>2, KillStep
<1>3. ASSUME ~undefined, NEW t \in Threads, Step(t)
      PROVE  Coordination'
  BY <1>3, BeginStep, EnterMonitorStep, LeaveUnchangedStep, NativeOpenStep,
     PublishHandleStep, NativeCloseStep, ClearHandleStep, CheckOpenStep,
     ReadHandleStep, RefuseArgumentsStep, FollowHandleStep, LockStep,
     ReadOrRefuseStep, InsertHalfStep, PersistHalfStep, RemoveKeyStep
     DEF Step
<1>4. QED
  BY <1>1, <1>2, <1>3 DEF AndroidNext

(* The threads hold the locks where they must, and the handle is good       *)
(* where no close() met another call.                                      *)
THEOREM AlwaysCoordinated == AndroidSpec => []Coordination
<1>1. QED
  BY InitCoordination, CoordinationStep, PTL DEF AndroidSpec

(* A step of a thread is a step of the mobile store, or leaves it alone.   *)
LEMMA AndroidStepIsMobileStep ==
    ASSUME Coordination, ~undefined, NEW t \in Threads, Step(t)
    PROVE  [Next]_vars
<1>1. CASE NativeOpen(t)
  BY <1>1 DEF NativeOpen, Next
<1>2. CASE NativeClose(t)
  BY <1>2 DEF NativeClose, GoUndefined, Next
<1>3. call[t].stage = "locked" => pc = "ready"
  BY DEF Coordination, AndroidTypeOK, LocksHeld, HandlesAgree
<1>4. CASE InsertHalf(t)
  BY <1>3, <1>4 DEF InsertHalf, InsertRecord, Next
<1>5. CASE PersistHalf(t)
  BY <1>5 DEF PersistHalf, PersistCounter, Coordination, HandlesAgree, Next
<1>6. CASE RemoveKey(t)
  BY <1>3, <1>6 DEF RemoveKey, Delete, Next
<1>7. QED
  BY <1>1, <1>2, <1>4, <1>5, <1>6
     DEF Step, Begin, EnterMonitor, LeaveUnchanged, PublishHandle, ClearHandle,
         CheckOpen, ReadHandle, RefuseArguments, FollowHandle, GoUndefined,
         Lock, ReadOrRefuse

(* Whatever the threads do, the mobile store is used as MobileStore says.  *)
THEOREM AndroidRefinement == AndroidSpec => MobileSpec
<1>1. AndroidInit => Init
  BY DEF AndroidInit
<1>2. Coordination /\ [AndroidNext]_androidVars => [Next]_vars
  <2> SUFFICES ASSUME Coordination, [AndroidNext]_androidVars
               PROVE  [Next]_vars
    OBVIOUS
  <2>1. CASE UNCHANGED androidVars
    BY <2>1 DEF androidVars
  <2>2. ASSUME ~undefined, Kill
        PROVE  [Next]_vars
    BY <2>2 DEF Kill, Next
  <2>3. ASSUME ~undefined, NEW t \in Threads, Step(t)
        PROVE  [Next]_vars
    BY <2>3, AndroidStepIsMobileStep
  <2>4. QED
    BY <2>1, <2>2, <2>3 DEF AndroidNext
<1>3. QED
  BY <1>1, <1>2, AlwaysCoordinated, PTL DEF AndroidSpec, MobileSpec, Spec

(* Undefined behaviour needs a close() that met another call.              *)
THEOREM DefinedUnlessDisturbed == AndroidSpec => []UndisturbedCallsAreDefined
<1>1. Coordination => UndisturbedCallsAreDefined
  BY DEF Coordination, Undisturbed, UndisturbedCallsAreDefined
<1>2. QED
  BY <1>1, AlwaysCoordinated, PTL

(* Types and coordination, if the application leaves the reserved key      *)
(* alone.                                                                  *)
THEOREM AndroidInvariant ==
    ASSUME CounterKey \notin UserKeys
    PROVE  AndroidSpec => []AndroidInv
<1>1. Spec => []TypeOK
  BY MobileTypeCorrect
<1>2. AndroidSpec => Spec
  BY AndroidRefinement DEF MobileSpec
<1>3. TypeOK /\ Coordination => AndroidInv
  BY DEF AndroidInv
<1>4. QED
  BY <1>1, <1>2, <1>3, AlwaysCoordinated, PTL

(* Acknowledged inserts carry increasing counters, on whatever threads     *)
(* they run.                                                               *)
THEOREM AckedIncreaseAcrossThreads ==
    ASSUME CounterKey \notin UserKeys
    PROVE  AndroidSpec => []AckedCountersIncrease
<1>1. Spec => []AckedCountersIncrease
  BY AckedAlwaysIncrease
<1>2. AndroidSpec => Spec
  BY AndroidRefinement DEF MobileSpec
<1>3. QED
  BY <1>1, <1>2, PTL
=============================================================================
