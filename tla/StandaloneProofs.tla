-------------------------- MODULE StandaloneProofs --------------------------
(***************************************************************************)
(* The two components that stand alone, beside the audited store: neither  *)
(* uses the other.                                                         *)
(*                                                                         *)
(* The Android store of exposure events, for any finite set of events and  *)
(* any number of overlapping methods: its inductive invariant ExposureInv  *)
(* is preserved by every native call, by a failed one and by methods cut   *)
(* short.                                                                  *)
(*                                                                         *)
(* PolicyEngine::evaluate: its four properties, for any identities,       *)
(* resources, patterns and times, and any number of delegations and rules. *)
(***************************************************************************)
EXTENDS ExposureStore, Policy, FiniteSetTheorems, TLAPS

-----------------------------------------------------------------------------
(* The exposure store.                                                     *)

(* A set of events is finite, and so is its size.                          *)
LEMMA EventSets ==
    ASSUME NEW S, S \subseteq Events
    PROVE  /\ IsFiniteSet(S) /\ Cardinality(S) \in Nat
           /\ Cardinality(Events) \in Nat
           /\ Cardinality(S) <= Cardinality(Events)
           /\ Cardinality(S) = 0 <=> S = {}
<1>1. IsFiniteSet(Events) /\ Cardinality(Events) \in Nat
  BY EventsAssumption, FS_CardinalityType
<1>2. IsFiniteSet(S) /\ Cardinality(S) <= Cardinality(Events)
  BY <1>1, FS_Subset
<1>3. Cardinality(S) \in Nat
  BY <1>2, FS_CardinalityType
<1>4. Cardinality(S) = 0 <=> S = {}
  BY <1>2, FS_EmptySet
<1>5. QED
  BY <1>1, <1>2, <1>3, <1>4

LEMMA AddEvent ==
    ASSUME NEW S, S \subseteq Events, NEW e \in Events \ S
    PROVE  Cardinality(S \cup {e}) = Cardinality(S) + 1
BY EventSets, FS_AddElement

LEMMA DropEvent ==
    ASSUME NEW S, S \subseteq Events, NEW e \in S
    PROVE  Cardinality(S \ {e}) = Cardinality(S) - 1
BY EventSets, FS_RemoveElement

LEMMA MoreEvents ==
    ASSUME NEW S, NEW T, S \subseteq T, T \subseteq Events
    PROVE  Cardinality(S) <= Cardinality(T)
BY EventSets, FS_Subset

LEMMA ExposureInitInv == Init => ExposureInv
<1> SUFFICES ASSUME Init
             PROVE  ExposureInv
  OBVIOUS
<1>1. \A t \in Tasks : /\ pc[t] = "idle" /\ event[t] = {} /\ current[t] = -1
                       /\ ids[t] = {} /\ due[t] = {}
  BY DEF Init
<1>2. Cardinality({}) = 0 /\ Cardinality(Events) \in Nat
  BY EventSets
<1>3. TypeOK
  <2>1. -1 \in -1..Cardinality(Events)
    BY <1>2
  <2>2. QED
    BY <2>1 DEF Init, TypeOK, PC
<1>4. UsedInv /\ GoneInv /\ IndexInv
  BY <1>1 DEF Init, UsedInv, GoneInv, IndexInv, Uncounted, Inserting,
     Deleting, Undiscounted
<1>5. CountInv
  <2>1. Counted = {}
    BY DEF Counted, Init
  <2>2. QED
    BY <1>1, <1>2, <2>1 DEF CountInv, Init
<1>6. DueInv /\ UndisturbedInv
  BY <1>1, <1>2 DEF DueInv, UndisturbedInv, KeysAgree, CountIs, Keeps, Erasing,
     OrElse, Init
<1>7. QED
  BY <1>3, <1>4, <1>5, <1>6 DEF ExposureInv

-----------------------------------------------------------------------------
(* One native call of a task.                                              *)

Call(t, ok) == InsertEvent(t, ok) \/ DeleteEvent(t, ok) \/ DeleteAll(t, ok)

LEMMA Calls ==
    ASSUME NEW t \in Tasks, NEW ok \in BOOLEAN, Call(t, ok)
    PROVE  \/ \E e \in Events : PutRecord(t, e, ok)
           \/ \E e \in Events : DelRecord(t, e, ok)
           \/ PutPkg(t, ok) \/ PutTime(t, ok)
           \/ ReadCount(t, "count_up", "put_count_up", ok)
           \/ ReadCount(t, "count_down", "put_count_down", ok)
           \/ WriteCount(t, "put_count_up", "manifest_add", CountUp(t), ok)
           \/ WriteCount(t, "put_count_down", "manifest_remove", CountDown(t),
                         ok)
           \/ ReadManifest(t, "manifest_add", "put_manifest_add", ok)
           \/ ReadManifest(t, "manifest_remove", "put_manifest_remove", ok)
           \/ ReadManifest(t, "all_ids", "all_visit", ok)
           \/ WriteManifest(t, "put_manifest_add", "idle",
                            ids[t] \cup event[t], ok)
           \/ WriteManifest(t, "put_manifest_remove", "idle",
                            ids[t] \ event[t], ok)
           \/ DelPkg(t, ok)
           \/ StartDeleteAll(t) \/ Visit(t, ok)
           \/ EraseRecord(t, ok) \/ ErasePkg(t, ok)
           \/ EraseManifest(t, ok) \/ ResetCount(t, ok)
BY DEF Call, InsertEvent, DeleteEvent, DeleteAll

(* The calls are expanded in the lemmas up to StillUndisturbed.            *)
USE DEF PutRecord, DelRecord, PutPkg, PutTime, ReadCount, WriteCount,
        ReadManifest, WriteManifest, DelPkg, StartDeleteAll, Visit,
        EraseRecord, ErasePkg, EraseManifest, ResetCount, Start, Goto, Step,
        Release, Unindexed, keys

(* What every call leaves alone.                                           *)
LEMMA OtherTasks ==
    ASSUME TypeOK, NEW t \in Tasks, NEW ok \in BOOLEAN, Call(t, ok),
           NEW u \in Tasks \ {t}
    PROVE  /\ pc'[u] = pc[u] /\ event'[u] = event[u]
           /\ current'[u] = current[u] /\ ids'[u] = ids[u]
           /\ due'[u] \subseteq due[u]
BY Calls DEF TypeOK

(* An erased event does not come back, since it is inserted only once.     *)
LEMMA StepGone ==
    ASSUME TypeOK, UsedInv, GoneInv,
           NEW t \in Tasks, NEW ok \in BOOLEAN, Call(t, ok)
    PROVE  GoneInv'
<1>1. ASSUME NEW u \in Tasks \ {t}, pc[u] \in Deleting \cup {"all_pkg"}
      PROVE  event[u] \cap records' \subseteq unindexed'
  BY <1>1, Calls DEF GoneInv, UsedInv
<1>2. pc'[t] \in Deleting \cup {"all_pkg"} =>
          event'[t] \cap records' \subseteq unindexed'
  BY Calls DEF GoneInv, UsedInv, TypeOK, StillToVisit, Deleting, Undiscounted
<1>3. QED
  BY <1>1, <1>2, OtherTasks DEF GoneInv

(* Only inserted events are known, each to the one task that inserts it.   *)
LEMMA StepUsed ==
    ASSUME TypeOK, UsedInv,
           NEW t \in Tasks, NEW ok \in BOOLEAN, Call(t, ok)
    PROVE  UsedInv'
<1>1. records' \cup manifest' \cup erased' \subseteq used'
  BY Calls DEF UsedInv, TypeOK
<1>2. used \subseteq used'
  BY Calls
<1>3. ids'[t] \cup due'[t] \cup event'[t] \subseteq used'
  BY Calls DEF UsedInv, TypeOK, StillToVisit
<1>4. pc'[t] \in Uncounted => \E e \in Events : event'[t] = {e}
  BY Calls DEF UsedInv, TypeOK, Uncounted
<1>5. ASSUME pc'[t] \in Uncounted, NEW u \in Tasks \ {t}, pc[u] \in Uncounted
      PROVE  event'[t] \cap event[u] = {}
  BY <1>5, Calls DEF UsedInv, TypeOK, Uncounted
<1>6. QED
  BY <1>1, <1>2, <1>3, <1>4, <1>5, OtherTasks DEF UsedInv

(* The manifest learns of an event after its index entries, and they go    *)
(* after its record.                                                       *)
LEMMA StepIndex ==
    ASSUME TypeOK, UsedInv, GoneInv, IndexInv,
           NEW t \in Tasks, NEW ok \in BOOLEAN, Call(t, ok)
    PROVE  IndexInv'
<1> DEFINE fit == records \ unindexed
<1>1. ASSUME NEW u \in Tasks \ {t}
      PROVE  /\ ids[u] \cap fit' \subseteq pkg_index' \cap time_index'
             /\ pc[u] = "put_time" =>
                    event[u] \cap fit' \subseteq pkg_index'
             /\ pc[u] \in Inserting \ {"put_pkg", "put_time"} =>
                    event[u] \cap fit' \subseteq pkg_index' \cap time_index'
  BY Calls DEF IndexInv, UsedInv, GoneInv, TypeOK, Deleting, Undiscounted
<1>2. manifest' \cap fit' \subseteq pkg_index' \cap time_index'
  BY Calls DEF IndexInv, UsedInv, GoneInv, TypeOK, Deleting, Undiscounted,
     Inserting, Uncounted
<1>3. ids'[t] \cap fit' \subseteq pkg_index' \cap time_index'
  BY Calls DEF IndexInv, UsedInv, GoneInv, TypeOK, Deleting, Undiscounted,
     StillToVisit
<1>4. pc'[t] = "put_time" => event'[t] \cap fit' \subseteq pkg_index'
  BY Calls DEF IndexInv, UsedInv, GoneInv, TypeOK
<1>5. pc'[t] \in Inserting \ {"put_pkg", "put_time"} =>
          event'[t] \cap fit' \subseteq pkg_index' \cap time_index'
  BY Calls DEF IndexInv, UsedInv, GoneInv, TypeOK, Inserting, Uncounted
<1>6. QED
  BY <1>1, <1>2, <1>3, <1>4, <1>5, OtherTasks DEF IndexInv

(* The count is raised once per insert, from a copy that counts no more    *)
(* than the inserts before.                                                *)
LEMMA StepCount ==
    ASSUME TypeOK, UsedInv, CountInv,
           NEW t \in Tasks, NEW ok \in BOOLEAN, Call(t, ok)
    PROVE  CountInv'
<1>1. /\ Counted \subseteq Events /\ Cardinality(Counted) \in Nat
      /\ meta_count \in Int /\ \A u \in Tasks : current[u] \in Int
  BY EventSets DEF Counted, TypeOK
<1>2. Counted' \subseteq Events /\ Cardinality(Counted') \in Nat
  <2>1. used' \subseteq Events
    BY Calls DEF TypeOK
  <2>2. QED
    BY <2>1, EventSets DEF Counted
<1>3. Counted \subseteq Counted'
  BY OtherTasks, Calls DEF Counted, UsedInv, TypeOK, Uncounted
<1>4. Cardinality(Counted) <= Cardinality(Counted')
  BY <1>2, <1>3, MoreEvents
<1>5. CASE WriteCount(t, "put_count_up", "manifest_add", CountUp(t), ok)
  <2>1. PICK e \in Events : event[t] = {e}
    BY <1>5 DEF UsedInv, Uncounted, WriteCount, Goto
  <2>2. e \notin Counted
    BY <1>5, <2>1 DEF Counted, Uncounted, WriteCount, Goto
  <2>3. e \in Counted'
    BY <1>5, <2>1, OtherTasks DEF Counted, UsedInv, Uncounted, TypeOK,
       WriteCount, Goto
  <2>4. Cardinality(Counted) + 1 <= Cardinality(Counted')
    <3>1. Cardinality(Counted \cup {e}) = Cardinality(Counted) + 1
      BY <1>1, <2>2, AddEvent
    <3>2. QED
      BY <1>2, <1>3, <2>3, <3>1, MoreEvents
  <2>5. /\ meta_count' \in {CountUp(t), meta_count}
        /\ \A u \in Tasks : current'[u] \in {current[u], -1}
        /\ CountUp(t) <= Cardinality(Counted) + 1
    BY <1>1, <1>5 DEF WriteCount, CountUp, OrElse, CountInv, TypeOK
  <2>6. QED
    BY <1>1, <1>2, <2>4, <2>5, <1>4 DEF CountInv, CountUp, OrElse
<1>6. CASE WriteCount(t, "put_count_down", "manifest_remove", CountDown(t), ok)
  <2>1. /\ meta_count' \in {CountDown(t), meta_count}
        /\ \A u \in Tasks : current'[u] \in {current[u], -1}
    BY <1>6 DEF TypeOK
  <2>2. QED
    BY <1>1, <1>2, <1>4, <2>1 DEF CountInv, CountDown, OrElse
<1>7. CASE /\ meta_count' \in {meta_count, 0}
           /\ \A u \in Tasks : current'[u] \in {current[u], meta_count, -1}
  BY <1>1, <1>2, <1>4, <1>7 DEF CountInv
<1>8. QED
  BY <1>5, <1>6, <1>7, Calls DEF TypeOK

(* Types: the count stays below the number of events by CountInv.          *)
LEMMA StepType ==
    ASSUME TypeOK, CountInv, CountInv', UsedInv,
           NEW t \in Tasks, NEW ok \in BOOLEAN, Call(t, ok)
    PROVE  TypeOK'
<1>1. used' \subseteq Events
  BY Calls DEF TypeOK
<1>2. /\ Cardinality(Counted') <= Cardinality(Events)
      /\ Cardinality(Counted') \in Nat /\ Cardinality(Events) \in Nat
  BY <1>1, EventSets DEF Counted
<1>3. meta_count' \in Int /\ -1 <= meta_count'
  BY <1>2, Calls DEF TypeOK, CountUp, CountDown, OrElse
<1>4. current' \in [Tasks -> -1..Cardinality(Events)]
  BY <1>2, Calls DEF TypeOK
<1>5. meta_count' \in -1..Cardinality(Events)
  BY <1>2, <1>3 DEF CountInv
<1>6. /\ records' \subseteq Events /\ pkg_index' \subseteq Events
      /\ time_index' \subseteq Events /\ manifest' \subseteq Events
      /\ erased' \subseteq Events /\ unindexed' \subseteq Events
      /\ undisturbed' \in BOOLEAN /\ overdeleted' \in BOOLEAN
  <2>1. /\ event[t] \subseteq Events /\ ids[t] \subseteq Events
        /\ due[t] \subseteq Events
        /\ records \subseteq Events /\ pkg_index \subseteq Events
        /\ time_index \subseteq Events /\ manifest \subseteq Events
        /\ erased \subseteq Events /\ unindexed \subseteq Events
        /\ undisturbed \in BOOLEAN /\ overdeleted \in BOOLEAN
    BY DEF TypeOK
  <2>2. records' \subseteq Events /\ pkg_index' \subseteq Events
    BY <2>1, Calls
  <2>3. time_index' \subseteq Events /\ manifest' \subseteq Events
    BY <2>1, Calls
  <2>4. erased' \subseteq Events /\ unindexed' \subseteq Events
    BY <2>1, Calls
  <2>5. undisturbed' \in BOOLEAN /\ overdeleted' \in BOOLEAN
    BY <2>1, Calls
  <2>6. QED
    BY <2>2, <2>3, <2>4, <2>5
<1>7. /\ pc' \in [Tasks -> PC] /\ event' \in [Tasks -> SUBSET Events]
      /\ ids' \in [Tasks -> SUBSET Events]
      /\ due' \in [Tasks -> SUBSET Events]
  BY Calls DEF TypeOK, PC, StillToVisit
<1>8. QED
  BY <1>1, <1>4, <1>5, <1>6, <1>7 DEF TypeOK

(* No method beside a deleteAll hides from it what it still owes.          *)
LEMMA StepDue ==
    ASSUME TypeOK, UsedInv, DueInv,
           NEW t \in Tasks, NEW ok \in BOOLEAN, Call(t, ok)
    PROVE  DueInv'
<1>1. records' \cap erased' = {}
  BY Calls DEF DueInv, UsedInv, Keeps, Erasing, TypeOK
<1>2. ASSUME NEW v \in Tasks, pc'[v] \in Erasing
      PROVE  /\ due'[v] \cap records' \subseteq manifest'
             /\ \A u \in Tasks : Keeps(u, due[v] \cap records)'
  <2>1. CASE v = t /\ StartDeleteAll(t)
    <3>1. CASE AllIdle
      <4>1. /\ due'[t] = manifest \cap records /\ records' = records
            /\ manifest' = manifest /\ pc'[t] = "all_ids"
        BY <2>1, <3>1 DEF TypeOK
      <4>2. \A u \in Tasks \ {t} : pc'[u] = "idle"
        BY <3>1, OtherTasks DEF AllIdle
      <4>3. QED
        BY <2>1, <4>1, <4>2 DEF Keeps, Deleting, Undiscounted
    <3>2. CASE ~AllIdle
      <4>1. due'[t] = {}
        BY <2>1, <3>2 DEF TypeOK
      <4>2. QED
        BY <2>1, <4>1 DEF Keeps
    <3>3. QED
      BY <3>1, <3>2
  <2>2. CASE ~(v = t /\ StartDeleteAll(t))
    <3> DEFINE owed == due[v] \cap records
               left == due'[v] \cap records'
    <3>1. pc[v] \in Erasing /\ due'[v] \subseteq due[v]
      BY <1>2, <2>2, OtherTasks, Calls DEF Erasing, TypeOK
    <3>2. owed \subseteq manifest /\ \A u \in Tasks : Keeps(u, owed)
      BY <3>1 DEF DueInv
    <3>3. left \subseteq owed /\ left \subseteq due'[v] \cap records'
      BY <3>1, Calls DEF UsedInv
    <3>4. left \subseteq Events
      BY Calls DEF TypeOK
    <3>5. left \subseteq manifest'
      <4> HIDE DEF owed
      <4>1. QED
        BY <3>2, <3>3, Calls DEF Keeps, Deleting
    <3>6. \A u \in Tasks \ {t} : Keeps(u, due[v] \cap records)'
      <4> HIDE DEF owed
      <4>1. QED
        BY <3>2, <3>3, OtherTasks DEF Keeps
    <3>7. Keeps(t, due[v] \cap records)'
      <4> HIDE DEF owed
      <4>1. QED
        BY <3>2, <3>3, <3>4, Calls DEF Keeps, TypeOK, StillToVisit, Deleting,
           Undiscounted
    <3>8. QED
      BY <3>5, <3>6, <3>7
  <2>3. QED
    BY <2>1, <2>2
<1>3. QED
  BY <1>1, <1>2 DEF DueInv

LEMMA StillUndisturbed ==
    ASSUME NEW t \in Tasks, NEW ok \in BOOLEAN, Call(t, ok), undisturbed'
    PROVE  undisturbed /\ (pc[t] = "idle" => AllIdle)
BY Calls

HIDE DEF PutRecord, DelRecord, PutPkg, PutTime, ReadCount, WriteCount,
         ReadManifest, WriteManifest, DelPkg, StartDeleteAll, Visit,
         EraseRecord, ErasePkg, EraseManifest, ResetCount, Start, Goto, Step,
         Release, Unindexed, keys

(* A method that runs alone takes the keys from one agreement to the next. *)
LEMMA StepUndisturbed ==
    ASSUME TypeOK, UsedInv, GoneInv, UndisturbedInv,
           NEW t \in Tasks, NEW ok \in BOOLEAN, Call(t, ok)
    PROVE  UndisturbedInv'
<1> SUFFICES ASSUME undisturbed'
             PROVE  /\ \A u \in Tasks \ {t} : pc'[u] = "idle"
                    /\ pc'[t] # "idle" => RunsAlone(t)'
                    /\ pc'[t] = "idle" => KeysAgree'
  BY DEF UndisturbedInv, KeysAgree, AllIdle
<1>1. /\ undisturbed /\ KeysAgree
      /\ pc[t] = "idle" => AllIdle
      /\ pc[t] # "idle" => RunsAlone(t)
  BY StillUndisturbed DEF UndisturbedInv
<1>2. \A u \in Tasks \ {t} : pc'[u] = "idle" /\ pc[u] = "idle"
  BY <1>1, OtherTasks DEF AllIdle, UndisturbedInv
<1>3. /\ Cardinality(records) \in Nat /\ meta_count \in Int
      /\ meta_count >= -1
      /\ Cardinality(records) = 0 <=> records = {}
      /\ overdeleted \in BOOLEAN
  BY EventSets DEF TypeOK
<1>4. ASSUME NEW e \in Events, PutRecord(t, e, ok)
      PROVE  RunsAlone(t)' /\ pc'[t] # "idle"
  <2>1. /\ pc'[t] = "put_pkg" /\ event'[t] = {e} /\ pc[t] = "idle"
        /\ records' = records \cup {e} /\ e \notin records
        /\ overdeleted' = overdeleted
        /\ UNCHANGED <<pkg_index, time_index, meta_count, manifest>>
    BY <1>1, <1>3, <1>4 DEF PutRecord, Start, Goto, Step, UsedInv, TypeOK
  <2>2. Cardinality(records') = Cardinality(records) + 1
    BY <2>1, AddEvent DEF TypeOK
  <2>3. /\ CountIs(Cardinality(records))
        /\ manifest = records /\ pkg_index = records
        /\ records \subseteq time_index
    BY <1>1, <2>1 DEF KeysAgree
  <2>4. QED
    BY <1>3, <2>1, <2>2, <2>3 DEF RunsAlone, Inserting, Deleting, Uncounted,
       Undiscounted, CountIs
<1>5. ASSUME NEW e \in Events, DelRecord(t, e, ok)
      PROVE  RunsAlone(t)' /\ pc'[t] # "idle"
  <2>1. /\ pc'[t] = "del_pkg" /\ event'[t] = {e} /\ pc[t] = "idle"
        /\ records' = records \ {e}
        /\ overdeleted' = (overdeleted \/ e \notin records)
        /\ UNCHANGED <<pkg_index, time_index, meta_count, manifest>>
    BY <1>1, <1>5 DEF DelRecord, Step, TypeOK
  <2>2. /\ CountIs(Cardinality(records))
        /\ manifest = records /\ pkg_index = records
        /\ records \subseteq time_index
    BY <1>1, <2>1 DEF KeysAgree
  <2>3. CountIs(Cardinality(records) + 1)'
    <3>1. CASE e \in records
      <4>1. Cardinality(records') = Cardinality(records) - 1
        BY <2>1, <3>1, DropEvent DEF TypeOK
      <4>2. QED
        BY <1>3, <2>1, <2>2, <3>1, <4>1 DEF CountIs
    <3>2. CASE e \notin records
      <4>1. records' = records /\ overdeleted'
        BY <2>1, <3>2
      <4>2. OrElse(meta_count, 0) <= Cardinality(records) + 1
        BY <1>3, <2>2 DEF CountIs, OrElse
      <4>3. /\ OrElse(meta_count', 0) = OrElse(meta_count, 0)
            /\ Cardinality(records') = Cardinality(records)
        BY <2>1, <4>1
      <4>4. QED
        BY <4>1, <4>2, <4>3 DEF CountIs
    <3>3. QED
      BY <3>1, <3>2
  <2>4. QED
    BY <2>1, <2>2, <2>3 DEF RunsAlone, Inserting, Deleting, Uncounted,
       Undiscounted
<1>6. CASE PutPkg(t, ok) \/ PutTime(t, ok) \/ DelPkg(t, ok)
  <2>1. /\ \/ /\ pc[t] = "put_pkg" /\ pc'[t] = "put_time"
              /\ pkg_index' = pkg_index \cup event[t]
              /\ UNCHANGED time_index
           \/ /\ pc[t] = "put_time" /\ pc'[t] = "count_up"
              /\ time_index' = time_index \cup event[t]
              /\ UNCHANGED pkg_index
           \/ /\ pc[t] = "del_pkg" /\ pc'[t] = "count_down"
              /\ pkg_index' = pkg_index \ event[t]
              /\ UNCHANGED time_index
        /\ UNCHANGED <<records, meta_count, manifest, event, overdeleted>>
    BY <1>1, <1>3, <1>6 DEF PutPkg, PutTime, DelPkg, Goto, Step, TypeOK
  <2>2. CountIs(Cardinality(records) - 1) => CountIs(Cardinality(records) - 1)'
    BY <2>1 DEF CountIs
  <2>3. CountIs(Cardinality(records) + 1) => CountIs(Cardinality(records) + 1)'
    BY <2>1 DEF CountIs
  <2>4. QED
    BY <1>1, <1>2, <2>1, <2>2, <2>3 DEF RunsAlone, Inserting, Deleting,
       Uncounted, Undiscounted
<1>7. CASE \/ ReadCount(t, "count_up", "put_count_up", ok)
           \/ ReadCount(t, "count_down", "put_count_down", ok)
  <2>1. /\ \/ pc[t] = "count_up" /\ pc'[t] = "put_count_up"
           \/ pc[t] = "count_down" /\ pc'[t] = "put_count_down"
        /\ current'[t] = meta_count
        /\ UNCHANGED <<keys, event, overdeleted>>
    BY <1>1, <1>3, <1>7 DEF ReadCount, Goto, Step, TypeOK
  <2>2. CountIs(Cardinality(records) - 1) => CountIs(Cardinality(records) - 1)'
    BY <2>1 DEF CountIs, keys
  <2>3. CountIs(Cardinality(records) + 1) => CountIs(Cardinality(records) + 1)'
    BY <2>1 DEF CountIs, keys
  <2>4. QED
    BY <1>1, <1>2, <2>1, <2>2, <2>3 DEF keys, RunsAlone, Inserting, Deleting,
       Uncounted, Undiscounted
<1>8. CASE \/ WriteCount(t, "put_count_up", "manifest_add", CountUp(t), ok)
           \/ WriteCount(t, "put_count_down", "manifest_remove", CountDown(t),
                         ok)
  <2>1. /\ pc[t] = "put_count_up" => pc'[t] = "manifest_add"
        /\ pc[t] = "put_count_down" => pc'[t] = "manifest_remove"
        /\ pc[t] \in {"put_count_up", "put_count_down"}
        /\ UNCHANGED <<records, pkg_index, time_index, manifest, event, ids,
                       overdeleted>>
    BY <1>1, <1>3, <1>8 DEF WriteCount, Goto, Step, TypeOK
  <2>2. CountIs(Cardinality(records))'
    <3>1. /\ current[t] = meta_count
          /\ pc[t] = "put_count_up" => CountIs(Cardinality(records) - 1)
          /\ pc[t] = "put_count_down" => CountIs(Cardinality(records) + 1)
      BY <1>1, <2>1 DEF RunsAlone, Uncounted, Undiscounted
    <3>2. /\ pc[t] = "put_count_up" => meta_count' = CountUp(t)
          /\ pc[t] = "put_count_down" => meta_count' = CountDown(t)
      BY <1>1, <1>8 DEF WriteCount, Goto, Step
    <3>3. QED
      BY <1>3, <2>1, <3>1, <3>2 DEF OrElse, CountUp, CountDown, CountIs
  <2>3. QED
    BY <1>1, <1>2, <2>1, <2>2 DEF RunsAlone, Inserting, Deleting, Uncounted,
       Undiscounted
<1>9. CASE \/ ReadManifest(t, "manifest_add", "put_manifest_add", ok)
           \/ ReadManifest(t, "manifest_remove", "put_manifest_remove", ok)
           \/ ReadManifest(t, "all_ids", "all_visit", ok)
  <2>1. /\ \/ pc[t] = "manifest_add" /\ pc'[t] = "put_manifest_add"
           \/ pc[t] = "manifest_remove" /\ pc'[t] = "put_manifest_remove"
           \/ pc[t] = "all_ids" /\ pc'[t] = "all_visit"
        /\ ids'[t] = manifest /\ UNCHANGED <<keys, event, overdeleted>>
    BY <1>1, <1>3, <1>9 DEF ReadManifest, Goto, Step, TypeOK
  <2>2. CountIs(Cardinality(records)) => CountIs(Cardinality(records))'
    BY <2>1 DEF CountIs, keys
  <2>3. QED
    BY <1>1, <1>2, <2>1, <2>2 DEF keys, RunsAlone, Inserting, Deleting,
       Uncounted, Undiscounted
<1>10. CASE \/ WriteManifest(t, "put_manifest_add", "idle",
                             ids[t] \cup event[t], ok)
            \/ WriteManifest(t, "put_manifest_remove", "idle",
                             ids[t] \ event[t], ok)
  <2>1. /\ pc[t] \in {"put_manifest_add", "put_manifest_remove"}
        /\ pc[t] = "put_manifest_add" => manifest' = ids[t] \cup event[t]
        /\ pc[t] = "put_manifest_remove" => manifest' = ids[t] \ event[t]
        /\ pc'[t] = "idle"
        /\ UNCHANGED <<records, pkg_index, time_index, meta_count, overdeleted>>
    BY <1>1, <1>3, <1>10 DEF WriteManifest, Goto, Step, TypeOK
  <2>2. /\ CountIs(Cardinality(records))
        /\ pkg_index = records /\ records \subseteq time_index
        /\ ids[t] = manifest
        /\ pc[t] = "put_manifest_add" =>
               event[t] \subseteq records /\ manifest = records \ event[t]
        /\ pc[t] = "put_manifest_remove" => manifest \ event[t] = records
    BY <1>1, <2>1 DEF RunsAlone, Inserting, Deleting, Uncounted, Undiscounted
  <2>3. manifest' = records
    BY <2>1, <2>2
  <2>4. CountIs(Cardinality(records))'
    BY <2>1, <2>2 DEF CountIs
  <2>5. QED
    BY <1>2, <2>1, <2>2, <2>3, <2>4 DEF KeysAgree
<1>11. CASE StartDeleteAll(t)
  <2>1. /\ pc[t] = "idle" /\ pc'[t] = "all_ids" /\ UNCHANGED keys
    BY <1>11 DEF StartDeleteAll, Start, Goto, Step, TypeOK
  <2>2. QED
    BY <1>1, <1>2, <2>1 DEF keys, KeysAgree, RunsAlone, Inserting, Deleting,
       Uncounted, Undiscounted
<1>12. CASE Visit(t, ok)
  <2>1. PICK e \in ids[t] :
           /\ pc[t] = "all_visit" /\ UNCHANGED keys
           /\ ids'[t] = ids[t] \ {e}
           /\ e \in records => pc'[t] = "all_record" /\ event'[t] = {e}
           /\ e \notin records => pc'[t] = "all_visit"
    BY <1>1, <1>12 DEF Visit, Goto, Step, StillToVisit, TypeOK
  <2>2. QED
    BY <1>1, <1>2, <2>1 DEF keys, RunsAlone, Inserting, Deleting, Uncounted,
       Undiscounted
<1>13. CASE EraseRecord(t, ok)
  <2>1. /\ pc[t] = "all_record" /\ pc'[t] = "all_pkg"
        /\ records' = records \ event[t]
        /\ UNCHANGED <<pkg_index, time_index, event, ids>>
    BY <1>1, <1>13 DEF EraseRecord, Goto, Step, TypeOK
  <2>2. QED
    BY <1>1, <1>2, <2>1 DEF RunsAlone, Inserting, Deleting, Uncounted,
       Undiscounted
<1>14. CASE ErasePkg(t, ok)
  <2>1. /\ pc[t] = "all_pkg" /\ pc'[t] = "all_visit"
        /\ pkg_index' = pkg_index \ event[t]
        /\ UNCHANGED <<records, time_index, ids>>
    BY <1>1, <1>14 DEF ErasePkg, Goto, Step, TypeOK
  <2>2. QED
    BY <1>1, <1>2, <2>1 DEF RunsAlone, Inserting, Deleting, Uncounted,
       Undiscounted
<1>15. CASE EraseManifest(t, ok)
  <2>1. /\ pc[t] = "all_visit" /\ pc'[t] = "all_count"
        /\ ids[t] = {} /\ manifest' = {}
        /\ UNCHANGED <<records, pkg_index, time_index>>
    BY <1>1, <1>15 DEF EraseManifest, WriteManifest, Goto, Step, TypeOK
  <2>2. QED
    BY <1>1, <1>2, <2>1 DEF RunsAlone, Inserting, Deleting, Uncounted,
       Undiscounted
<1>16. CASE ResetCount(t, ok)
  <2>1. /\ pc[t] = "all_count" /\ pc'[t] = "idle" /\ meta_count' = 0
        /\ UNCHANGED <<records, pkg_index, time_index, manifest>>
    BY <1>1, <1>16 DEF ResetCount, Step, TypeOK
  <2>2. records = {} /\ manifest = {} /\ pkg_index = {}
    BY <1>1, <2>1 DEF RunsAlone
  <2>3. Cardinality(records') = 0 /\ OrElse(meta_count', 0) = 0
    BY <1>3, <2>1, <2>2 DEF OrElse
  <2>4. CountIs(Cardinality(records))'
    BY <2>3 DEF CountIs
  <2>5. QED
    BY <1>2, <2>1, <2>2, <2>4 DEF KeysAgree
<1>17. QED
  BY <1>2, <1>4, <1>5, <1>6, <1>7, <1>8, <1>9, <1>10, <1>11, <1>12, <1>13,
     <1>14, <1>15, <1>16, Calls

(* Methods are cut short between two calls.                                *)
LEMMA CutInv ==
    ASSUME ExposureInv, NEW ts \in SUBSET Tasks, Cut(ts)
    PROVE  ExposureInv'
<1>1. /\ \A t \in ts : /\ pc'[t] = "idle" /\ event'[t] = {}
                       /\ current'[t] = -1 /\ ids'[t] = {} /\ due'[t] = {}
      /\ \A t \in Tasks \ ts :
             /\ pc'[t] = pc[t] /\ event'[t] = event[t]
             /\ current'[t] = current[t] /\ ids'[t] = ids[t]
             /\ due'[t] = due[t]
      /\ ~undisturbed' /\ ~overdeleted'
      /\ UNCHANGED <<keys, used, erased, unindexed>>
  BY DEF Cut
<1>2. TypeOK'
  <2>1. -1 \in -1..Cardinality(Events)
    BY EventSets
  <2>2. /\ pc' \in [Tasks -> PC] /\ event' \in [Tasks -> SUBSET Events]
        /\ ids' \in [Tasks -> SUBSET Events]
        /\ due' \in [Tasks -> SUBSET Events]
    BY DEF Cut, ExposureInv, TypeOK, PC
  <2>3. /\ current' \in [Tasks -> -1..Cardinality(Events)]
        /\ undisturbed' \in BOOLEAN /\ overdeleted' \in BOOLEAN
    BY <2>1 DEF Cut, ExposureInv, TypeOK
  <2>4. QED
    BY <1>1, <2>2, <2>3 DEF ExposureInv, TypeOK, keys
<1>3. UsedInv' /\ GoneInv' /\ UndisturbedInv'
  BY <1>1 DEF ExposureInv, UsedInv, GoneInv, UndisturbedInv, Uncounted,
     Deleting, Undiscounted, keys
<1>4. IndexInv'
  BY <1>1 DEF ExposureInv, IndexInv, Uncounted, Inserting, keys
<1>5. DueInv'
  BY <1>1 DEF ExposureInv, DueInv, Keeps, Erasing, Deleting, Undiscounted, keys
<1>6. CountInv'
  <2>1. Counted \subseteq Counted' /\ Counted' \subseteq Events
    BY <1>1 DEF Counted, Uncounted, ExposureInv, TypeOK
  <2>2. Cardinality(Counted) <= Cardinality(Counted')
        /\ Cardinality(Counted') \in Nat /\ Cardinality(Counted) \in Nat
    BY <2>1, EventSets, MoreEvents
  <2>3. /\ meta_count' = meta_count /\ meta_count \in Int
        /\ \A t \in Tasks : /\ current'[t] \in {current[t], -1}
                             /\ current[t] \in Int
    BY <1>1, EventSets DEF ExposureInv, TypeOK, keys
  <2>4. QED
    BY <2>2, <2>3 DEF CountInv, ExposureInv
<1>7. QED
  BY <1>2, <1>3, <1>4, <1>5, <1>6 DEF ExposureInv

LEMMA ExposureStepInv ==
    ASSUME ExposureInv, [Next]_vars
    PROVE  ExposureInv'
<1>1. CASE UNCHANGED vars
  BY <1>1 DEF vars, keys, locals, ExposureInv, TypeOK, UsedInv, CountInv,
     Counted, GoneInv, IndexInv, DueInv, Keeps, UndisturbedInv, RunsAlone,
     KeysAgree, CountIs, AllIdle
<1>2. ASSUME NEW t \in Tasks, NEW ok \in BOOLEAN, Call(t, ok)
      PROVE  ExposureInv'
  <2>1. UsedInv' /\ CountInv' /\ GoneInv' /\ IndexInv'
    BY <1>2, StepUsed, StepCount, StepGone, StepIndex DEF ExposureInv
  <2>2. DueInv' /\ UndisturbedInv'
    BY <1>2, StepDue, StepUndisturbed DEF ExposureInv
  <2>3. TypeOK'
    BY <1>2, <2>1, StepType DEF ExposureInv
  <2>4. QED
    BY <2>1, <2>2, <2>3 DEF ExposureInv
<1>3. ASSUME NEW ts \in SUBSET Tasks, Cut(ts)
      PROVE  ExposureInv'
  BY <1>3, CutInv
<1>4. QED
  BY <1>1, <1>2, <1>3 DEF Next, Call

-----------------------------------------------------------------------------
(* The theorems.                                                           *)

(* The inductive invariant of the exposure store.                          *)
THEOREM ExposureInvariance == Spec => []ExposureInv
<1>1. Init => ExposureInv
  BY ExposureInitInv
<1>2. ExposureInv /\ [Next]_vars => ExposureInv'
  BY ExposureStepInv
<1>3. QED
  BY <1>1, <1>2, PTL DEF Spec

(* Every key and every variable of a method keeps its type; the count,     *)
(* which overlapping methods may get wrong, never exceeds the number of    *)
(* events there are.                                                       *)
THEOREM ExposureTypeCorrect == Spec => []TypeOK
<1>1. ExposureInv => TypeOK
  BY DEF ExposureInv
<1>2. QED
  BY <1>1, ExposureInvariance, PTL

(* While no methods overlap, no call fails and none is cut short, count,   *)
(* manifest and package index describe the stored records between methods; *)
(* deleting an event again can only make the count too low.                *)
THEOREM ExposureKeysAgree == Spec => []KeysAgree
<1>1. ExposureInv => KeysAgree
  BY DEF ExposureInv, UndisturbedInv, KeysAgree
<1>2. QED
  BY <1>1, ExposureInvariance, PTL

(* A deleteAll that starts while no other method runs erases every event   *)
(* shown then, except those a failed call releases, whatever insert,       *)
(* delete or deleteAll runs beside it.                                     *)
THEOREM ExposureErases == Spec => []ErasedAreGone
<1>1. ExposureInv => ErasedAreGone
  BY DEF ExposureInv, DueInv, ErasedAreGone
<1>2. QED
  BY <1>1, ExposureInvariance, PTL

(* A stored event that the manifest lists has both its index entries,      *)
(* whatever overlaps, fails or is cut short, unless its own index insert   *)
(* or the delete of its record failed.                                     *)
THEOREM ExposureShownIsIndexed == Spec => []ShownIsIndexed
<1>1. ExposureInv => ShownIsIndexed
  BY DEF ExposureInv, IndexInv, ShownIsIndexed
<1>2. QED
  BY <1>1, ExposureInvariance, PTL

-----------------------------------------------------------------------------
(* The policy engine.                                                      *)

(* The engine only accumulates.                                            *)
LEMMA Accumulates ==
    ASSUME PolicyOK, [PolicyNext]_engine
    PROVE  /\ PolicyOK'
           /\ delegations \subseteq delegations'
           /\ rules \subseteq rules'
<1>1. CASE UNCHANGED engine
  BY <1>1 DEF engine, PolicyOK
<1>2. ASSUME NEW owner_id \in Identities, NEW del \in Delegation,
             delegate(owner_id, del)
      PROVE  /\ PolicyOK'
             /\ delegations \subseteq delegations'
             /\ rules \subseteq rules'
  BY <1>2 DEF delegate, PolicyOK
<1>3. ASSUME NEW rule \in PolicyRule, add_rule(rule)
      PROVE  /\ PolicyOK'
             /\ delegations \subseteq delegations'
             /\ rules \subseteq rules'
  BY <1>3 DEF add_rule, PolicyOK
<1>4. ASSUME NEW time \in 0..MaxTime, Clock(time)
      PROVE  PolicyOK' /\ UNCHANGED <<delegations, rules>>
  BY <1>4 DEF Clock, PolicyOK
<1>5. QED
  BY <1>1, <1>2, <1>3, <1>4 DEF PolicyNext, engine

(* Every variable keeps its type.                                          *)
THEOREM PolicyTypeCorrect == PolicySpec => []PolicyOK
<1>1. PolicyInit => PolicyOK
  BY PolicyAssumption DEF PolicyInit, PolicyOK
<1>2. PolicyOK /\ [PolicyNext]_engine => PolicyOK'
  BY Accumulates
<1>3. QED
  BY <1>1, <1>2, PTL DEF PolicySpec

(* What policy_precheck and the rest of evaluate come to.                  *)
LEMMA EvaluateMeaning ==
    ASSUME NEW ds, NEW rs, NEW req, NEW time
    PROVE  evaluate(ds, rs, req, time) <=>
               \/ req.subject = req.owner_id
               \/ /\ req.tier # "Critical"
                  /\ PermittedByGrant(rs, ds, req, time)
<1>1. CASE req.subject = req.owner_id
  BY <1>1 DEF evaluate, policy_precheck
<1>2. CASE req.subject # req.owner_id /\ req.tier = "Critical"
  BY <1>2 DEF evaluate, policy_precheck
<1>3. CASE req.subject # req.owner_id /\ req.tier # "Critical"
  BY <1>3 DEF evaluate, policy_precheck
<1>4. QED
  BY <1>1, <1>2, <1>3

(* The Critical ceiling: no accumulation of roles and rules passes it.     *)
THEOREM CeilingHolds == PolicySpec => []CriticalNeedsOwner
<1>1. CriticalNeedsOwner
  BY EvaluateMeaning DEF CriticalNeedsOwner, Permitted
<1>2. QED
  BY <1>1, PTL

(* A deny rule is never overridden by anything that comes later.           *)
THEOREM DenyAlwaysFinal == PolicySpec => DenyIsFinal
<1> DEFINE Denied ==
        \A req \in Request :
            (Ruled(rules, req, "Deny") /\ req.subject # req.owner_id)
                => ~evaluate(delegations', rules', req, now')
<1>1. ASSUME PolicyOK, [PolicyNext]_engine
      PROVE  Denied
  <2>1. SUFFICES ASSUME NEW req \in Request,
                        Ruled(rules, req, "Deny"),
                        req.subject # req.owner_id
                 PROVE  ~evaluate(delegations', rules', req, now')
    OBVIOUS
  <2>2. Ruled(rules', req, "Deny")
    BY <1>1, <2>1, Accumulates DEF Ruled
  <2>3. QED
    BY <2>1, <2>2, EvaluateMeaning DEF PermittedByGrant
<1>2. PolicyOK /\ [PolicyNext]_engine => [Denied]_engine
  BY <1>1
<1>3. QED
  BY <1>2, PolicyTypeCorrect, PTL DEF PolicySpec, DenyIsFinal

(* What a change of the clock makes of a delegation.                       *)
LEMMA ExpiresOnce ==
    ASSUME NEW del \in Delegation, NEW from \in Nat, NEW to \in Nat,
           is_expired(del, from), ~is_expired(del, to)
    PROVE  del.expires_at # 0 /\ to <= del.expires_at /\ del.expires_at < from
<1>1. del.expires_at \in Nat
  BY DEF Delegation
<1>2. QED
  BY <1>1 DEF is_expired

(* Only a new delegation to the subject by the owner of the resource, a    *)
(* new allow rule that matches, or a clock set back before the expiry of   *)
(* such a delegation makes a denied request permitted.                     *)
THEOREM OnlyGrantsEverPermit == PolicySpec => OnlyGrantsPermit
<1> DEFINE Granted(req) ==
              \/ \E d \in delegations' \ delegations : Concerns(d, req)
              \/ \E rule \in rules' \ rules :
                    rule.effect = "Allow" /\ matches(rule, req)
              \/ \E d \in delegations :
                    /\ Concerns(d, req)
                    /\ now' <= d[2].expires_at /\ d[2].expires_at < now
           OnlyByGrant ==
              \A req \in Request :
                  (~Permitted(req) /\ evaluate(delegations', rules', req, now'))
                      => Granted(req)
<1>1. ASSUME PolicyOK, [PolicyNext]_engine
      PROVE  OnlyByGrant
  <2>1. SUFFICES ASSUME NEW req \in Request,
                        ~evaluate(delegations, rules, req, now),
                        evaluate(delegations', rules', req, now')
                 PROVE  Granted(req)
    BY DEF Permitted
  <2>2. /\ req.subject # req.owner_id
        /\ req.tier # "Critical"
        /\ PermittedByGrant(rules', delegations', req, now')
        /\ ~PermittedByGrant(rules, delegations, req, now)
    BY <2>1, EvaluateMeaning
  <2>3. /\ PolicyOK' /\ rules \subseteq rules'
    BY <1>1, Accumulates
  <2>4. ~Ruled(rules, req, "Deny")
    BY <2>2, <2>3 DEF PermittedByGrant, Ruled
  <2>5. ~Delegated(delegations, req, now) /\ ~Ruled(rules, req, "Allow")
    BY <2>2, <2>4 DEF PermittedByGrant
  <2>6. CASE Ruled(rules', req, "Allow")
    BY <2>5, <2>6 DEF Ruled
  <2>7. CASE Delegated(delegations', req, now')
    <3>1. PICK d \in delegations' :
              Concerns(d, req) /\ ~is_expired(d[2], now')
      BY <2>7 DEF Delegated
    <3>2. CASE d \notin delegations
      BY <3>1, <3>2
    <3>3. CASE d \in delegations
      <4>1. d[2] \in Delegation /\ now \in Nat /\ now' \in Nat
        BY <1>1, <2>3, <3>3 DEF PolicyOK
      <4>2. is_expired(d[2], now)
        BY <2>5, <3>1, <3>3 DEF Delegated
      <4>3. now' <= d[2].expires_at /\ d[2].expires_at < now
        BY <3>1, <4>1, <4>2, ExpiresOnce
      <4>4. QED
        BY <3>1, <3>3, <4>3
    <3>4. QED
      BY <3>2, <3>3
  <2>8. QED
    BY <2>2, <2>6, <2>7 DEF PermittedByGrant
<1>2. PolicyOK /\ [PolicyNext]_engine => [OnlyByGrant]_engine
  BY <1>1
<1>3. QED
  BY <1>2, PolicyTypeCorrect, PTL DEF PolicySpec, OnlyGrantsPermit

(* A permitted request is denied again only by a new deny rule that        *)
(* matches, or after the last second of a delegation that concerns it.     *)
THEOREM PermitsAlwaysLast == PolicySpec => PermitsLast
<1> DEFINE Withdrawn(req) ==
              \/ \E rule \in rules' \ rules :
                    rule.effect = "Deny" /\ matches(rule, req)
              \/ \E d \in delegations :
                    /\ Concerns(d, req)
                    /\ d[2].expires_at # 0
                    /\ now <= d[2].expires_at /\ d[2].expires_at < now'
           OnlyWithdrawn ==
              \A req \in Request :
                  (Permitted(req) /\ ~evaluate(delegations', rules', req, now'))
                      => Withdrawn(req)
<1>1. ASSUME PolicyOK, [PolicyNext]_engine
      PROVE  OnlyWithdrawn
  <2>1. SUFFICES ASSUME NEW req \in Request,
                        evaluate(delegations, rules, req, now),
                        ~evaluate(delegations', rules', req, now')
                 PROVE  Withdrawn(req)
    BY DEF Permitted
  <2>2. /\ PermittedByGrant(rules, delegations, req, now)
        /\ ~PermittedByGrant(rules', delegations', req, now')
    BY <2>1, EvaluateMeaning
  <2>3. /\ PolicyOK' /\ rules \subseteq rules'
        /\ delegations \subseteq delegations'
    BY <1>1, Accumulates
  <2>4. ~Ruled(rules, req, "Deny")
    BY <2>2 DEF PermittedByGrant
  <2>5. CASE Ruled(rules', req, "Deny")
    BY <2>4, <2>5 DEF Ruled
  <2>6. CASE ~Ruled(rules', req, "Deny")
    <3>1. ~Delegated(delegations', req, now') /\ ~Ruled(rules', req, "Allow")
      BY <2>2, <2>6 DEF PermittedByGrant
    <3>2. ~Ruled(rules, req, "Allow")
      BY <2>3, <3>1 DEF Ruled
    <3>3. PICK d \in delegations : Concerns(d, req) /\ ~is_expired(d[2], now)
      BY <2>2, <3>2 DEF PermittedByGrant, Delegated
    <3>4. is_expired(d[2], now')
      BY <2>3, <3>1, <3>3 DEF Delegated
    <3>5. d[2] \in Delegation /\ now \in Nat /\ now' \in Nat
      BY <1>1, <2>3 DEF PolicyOK
    <3>6. /\ d[2].expires_at # 0
          /\ now <= d[2].expires_at /\ d[2].expires_at < now'
      BY <3>3, <3>4, <3>5, ExpiresOnce
    <3>7. QED
      BY <3>3, <3>6
  <2>7. QED
    BY <2>5, <2>6
<1>2. PolicyOK /\ [PolicyNext]_engine => [OnlyWithdrawn]_engine
  BY <1>1
<1>3. QED
  BY <1>2, PolicyTypeCorrect, PTL DEF PolicySpec, PermitsLast
=============================================================================
