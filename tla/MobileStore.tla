----------------------------- MODULE MobileStore -----------------------------
(***************************************************************************)
(* MobileDb (src/mobile/mod.rs), the embedded store behind the C and JNI   *)
(* entry points, which call it under a mutex: module AndroidDb has its     *)
(* threads and shows that they use it as specified here.  It keeps one     *)
(* Fjall partition; every record is stored under a header with a write     *)
(* counter, and the counter itself lives in the same partition, under a    *)
(* reserved key, in an insert of its own AFTER the record's.               *)
(*                                                                         *)
(* The header's other fields (magic, tier, content hash) are checked first *)
(* and a bad header changes nothing, so it has no action.  Fjall is        *)
(* external: an insert that fails may or may not have taken effect; a      *)
(* crash of the process loses nothing that was inserted.                   *)
(***************************************************************************)
EXTENDS Integers, Sequences

CONSTANTS
    UserKeys,    \* the keys the application uses
    CounterKey,  \* WRITE_COUNTER_KEY
    Values,
    MaxCounter,  \* u64::MAX
    Absent

ASSUME CounterAssumption == MaxCounter \in Nat \ {0}

VARIABLES
    partition,      \* the "main" keyspace
    pc,             \* "closed", "ready", or "persisting" inside an insert
    write_counter,  \* MobileDb.write_counter
    acked           \* history: the counters of the inserts that returned Ok

vars == <<partition, pc, write_counter, acked>>

Keys == UserKeys \cup {CounterKey}

Record  == [kind : {"record"}, write_counter : 1..MaxCounter, value : Values]
Counter == [kind : {"counter"}, write_counter : 0..MaxCounter]

ASSUME AbsentItemAssumption == Absent \notin Record \cup Counter

TypeOK ==
    /\ partition \in [Keys -> Record \cup Counter \cup {Absent}]
    /\ pc \in {"closed", "ready", "persisting"}
    /\ write_counter \in 0..MaxCounter
    /\ acked \in Seq(1..MaxCounter)

Init ==
    /\ partition = [k \in Keys |-> Absent]
    /\ pc = "closed"
    /\ write_counter = 0
    /\ acked = <<>>

PersistedCounter ==
    IF partition[CounterKey] = Absent THEN 0
    ELSE partition[CounterKey].write_counter

(* MobileDb::open.  It refuses (InvalidCounterState) when the reserved key *)
(* holds anything but a counter.                                           *)
Open ==
    /\ pc = "closed"
    /\ partition[CounterKey] # Absent => partition[CounterKey].kind = "counter"
    /\ pc' = "ready"
    /\ write_counter' = PersistedCounter
    /\ UNCHANGED <<partition, acked>>

\* Mutant: wrapping_add instead of checked_add.
wrapping_next(current) == (current + 1) % (MaxCounter + 1)

(* next_write_counter; callers refuse when there is none.                  *)
next_write_counter(current) == current + 1
CanAdvance(current) == next_write_counter(current) <= MaxCounter

Stored(k, item) == [partition EXCEPT ![k] = item]

(* MobileDb::insert up to the insert of the record.  The counter in memory *)
(* is advanced first, and stays advanced when the insert fails.            *)
StoreRecord(k, v) ==
    LET counter == next_write_counter(write_counter)
        rec == [kind |-> "record", write_counter |-> counter, value |-> v]
    IN  /\ CanAdvance(write_counter)
        /\ write_counter' = counter
        /\ \/ partition' = Stored(k, rec) /\ pc' = "persisting"
           \/ partition' \in {partition, Stored(k, rec)} /\ pc' = "ready"
        /\ UNCHANGED acked

InsertRecord(k, v) == pc = "ready" /\ StoreRecord(k, v)

\* Mutant: the counter before the increment is persisted.
CounterItemBefore == [kind |-> "counter", write_counter |-> write_counter - 1]

CounterItem == [kind |-> "counter", write_counter |-> write_counter]

(* persist_counter, the second half of insert.                             *)
StoreCounter ==
    /\ pc' = "ready"
    /\ \/ /\ partition' = Stored(CounterKey, CounterItem)
          /\ acked' = Append(acked, write_counter)
       \/ /\ partition' \in {partition, Stored(CounterKey, CounterItem)}
          /\ UNCHANGED acked
    /\ UNCHANGED write_counter

PersistCounter == pc = "persisting" /\ StoreCounter

Remove(k) ==
    /\ partition' = Stored(k, Absent)
    /\ UNCHANGED <<pc, write_counter, acked>>

Delete(k) == pc = "ready" /\ Remove(k)

CloseOrCrash ==
    /\ pc # "closed"
    /\ pc' = "closed"
    /\ write_counter' = 0
    /\ UNCHANGED <<partition, acked>>

Next ==
    \/ Open
    \/ \E k \in UserKeys, v \in Values : InsertRecord(k, v)
    \/ PersistCounter
    \/ \E k \in UserKeys : Delete(k)
    \/ CloseOrCrash

Spec == Init /\ [][Next]_vars

-----------------------------------------------------------------------------
(* No two acknowledged inserts carry the same counter, and a later one has *)
(* a larger one, across crashes, reopens and failed inserts; at u64::MAX   *)
(* inserts are refused and the counter does not start again.               *)
AckedCountersIncrease ==
    \A i, j \in 1..Len(acked) : i < j => acked[i] < acked[j]

(* The counter of an acknowledged insert is never ahead of the stored one: *)
(* that is what makes the next session continue after it.                  *)
CounterCoversAcked ==
    \A i \in 1..Len(acked) : acked[i] <= PersistedCounter

(* The inductive invariant behind the two: the counter in memory is never  *)
(* behind the stored one, and inside an insert it is ahead of every        *)
(* acknowledged one.                                                       *)
CounterInv ==
    /\ TypeOK
    /\ AckedCountersIncrease
    /\ CounterCoversAcked
    /\ partition[CounterKey] # Absent => partition[CounterKey].kind = "counter"
    /\ pc # "closed" => PersistedCounter <= write_counter
    /\ pc = "persisting" =>
           /\ write_counter > 0
           /\ \A i \in 1..Len(acked) : acked[i] < write_counter

=============================================================================
