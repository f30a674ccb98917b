---------------------------- MODULE ExposureStore ----------------------------
(***************************************************************************)
(* EdisonDbExposureStore (mobile/android-sdk), the Android store of        *)
(* exposure events.  An event is spread over several keys of one MobileDb: *)
(* its record, a package index, a time index, and two shared keys that are *)
(* read, changed and written back: the count and the manifest of ids.      *)
(*                                                                         *)
(* Every native call is atomic (MobileDb is behind a mutex) and a step of  *)
(* its own here; the methods run on a pool of threads, one task each.  A   *)
(* call may fail: EdisonDbAndroid returns false or null and the methods go *)
(* on as if it had not.  ok says whether the call takes effect (for the    *)
(* caller an insert that fails after storing is one that succeeds).        *)
(*                                                                         *)
(* The caller runs recordInserted after insert, as its comment asks,       *)
(* inserts an event once, and deletes only events it has inserted, stored  *)
(* or not, as often as it likes.                                           *)
(***************************************************************************)
EXTENDS Integers, FiniteSets

CONSTANTS
    Events,  \* ExposureEvent, named by its id
    Tasks    \* coroutines on Dispatchers.IO

ASSUME EventsAssumption == IsFiniteSet(Events)

VARIABLES
    records,     \* ids with a key "exposure:<id>"
    pkg_index,   \* ids with a key "idx:pkg:...:<id>"
    time_index,  \* ids with a key "idx:time:...:<id>"
    meta_count,  \* the key "meta:count", -1 when it is missing
    manifest,    \* the ids in "meta:manifest"; a missing key is no ids
    pc,          \* the next native call of each task
    event,       \* the event it is about, as a set
    current,     \* the count it has read
    ids,         \* the manifest it has read
    due,         \* history: what its deleteAll, begun while no other method
                 \* ran, has to erase; a failed call may release it
    used,        \* history: the events inserted so far
    erased,      \* history: what the deleteAlls that ended had to erase
    unindexed,   \* history: the events for which an index insert failed, or
                 \* the delete of the record
    undisturbed, \* history: no methods have overlapped, no call has failed,
                 \* no method was cut short
    overdeleted  \* history: while undisturbed, an event that was gone was
                 \* deleted again since the count was last reset

keys == <<records, pkg_index, time_index, meta_count, manifest>>
locals == <<pc, event, current, ids, due>>
vars == <<keys, locals, used, erased, unindexed, undisturbed, overdeleted>>

PC == {"idle", "put_pkg", "put_time", "count_up", "put_count_up",
       "manifest_add", "put_manifest_add", "del_pkg", "count_down",
       "put_count_down", "manifest_remove", "put_manifest_remove",
       "all_ids", "all_visit", "all_record", "all_pkg", "all_count"}

TypeOK ==
    /\ records \subseteq Events
    /\ pkg_index \subseteq Events
    /\ time_index \subseteq Events
    /\ meta_count \in -1..Cardinality(Events)
    /\ manifest \subseteq Events
    /\ pc \in [Tasks -> PC]
    /\ event \in [Tasks -> SUBSET Events]
    /\ current \in [Tasks -> -1..Cardinality(Events)]
    /\ ids \in [Tasks -> SUBSET Events]
    /\ due \in [Tasks -> SUBSET Events]
    /\ used \subseteq Events
    /\ erased \subseteq Events
    /\ unindexed \subseteq Events
    /\ overdeleted \in BOOLEAN
    /\ undisturbed \in BOOLEAN

Init ==
    /\ records = {} /\ pkg_index = {} /\ time_index = {} /\ manifest = {}
    /\ meta_count = -1
    /\ pc = [t \in Tasks |-> "idle"] /\ event = [t \in Tasks |-> {}]
    /\ current = [t \in Tasks |-> -1] /\ ids = [t \in Tasks |-> {}]
    /\ due = [t \in Tasks |-> {}]
    /\ used = {} /\ erased = {} /\ unindexed = {}
    /\ overdeleted = FALSE
    /\ undisturbed = TRUE

AllIdle == \A t \in Tasks : pc[t] = "idle"

Step(t, from, to, ok, lowered) ==
    /\ pc[t] = from
    /\ pc' = [pc EXCEPT ![t] = to]
    /\ undisturbed' = (undisturbed /\ ok /\ (from = "idle" => AllIdle))
    /\ overdeleted' = (undisturbed' /\ lowered)

Goto(t, from, to, ok) == Step(t, from, to, ok, overdeleted)

Start(t, to, es, ok) ==
    /\ Goto(t, "idle", to, ok)
    /\ event' = [event EXCEPT ![t] = es]

(* The deleteAlls no longer have to erase es, because of a failed call.    *)
Release(es) == due' = [t \in Tasks |-> due[t] \ es]

(* A failed call leaves the events es without an index entry, or stored    *)
(* without one.                                                            *)
Unindexed(es, ok) == unindexed' = IF ok THEN unindexed ELSE unindexed \cup es

-----------------------------------------------------------------------------
(* The native calls shared by the methods.  A query that fails reads as a  *)
(* missing key, an insert that fails changes nothing.  A local is cleared  *)
(* when its method has no more use for it.                                 *)

ReadCount(t, from, to, ok) ==
    /\ Goto(t, from, to, ok)
    /\ current' = [current EXCEPT ![t] = IF ok THEN meta_count ELSE -1]
    /\ UNCHANGED <<keys, event, ids, due, used, erased, unindexed>>

WriteCount(t, from, to, n, ok) ==
    /\ Goto(t, from, to, ok)
    /\ meta_count' = IF ok THEN n ELSE meta_count
    /\ current' = [current EXCEPT ![t] = -1]
    /\ UNCHANGED <<records, pkg_index, time_index, manifest, event, ids, due,
                   used, erased, unindexed>>

ReadManifest(t, from, to, ok) ==
    /\ Goto(t, from, to, ok)
    /\ ids' = [ids EXCEPT ![t] = IF ok THEN manifest ELSE {}]
    /\ Release(IF ok THEN {} ELSE Events)
    /\ UNCHANGED <<keys, event, current, used, erased, unindexed>>

WriteManifest(t, from, to, es, ok) ==
    /\ Goto(t, from, to, ok)
    /\ manifest' = IF ok THEN es ELSE manifest
    /\ ids' = [ids EXCEPT ![t] = {}]
    /\ event' = [event EXCEPT ![t] = {}]
    /\ UNCHANGED <<records, pkg_index, time_index, meta_count, current, due,
                   used, erased, unindexed>>

-----------------------------------------------------------------------------
(* insert, then recordInserted.                                            *)

PutRecord(t, e, ok) ==
    /\ e \notin used
    /\ Start(t, "put_pkg", {e}, ok)
    /\ records' = IF ok THEN records \cup {e} ELSE records
    /\ used' = used \cup {e}
    /\ UNCHANGED <<pkg_index, time_index, meta_count, manifest, current, ids,
                   due, erased, unindexed>>

PutPkg(t, ok) ==
    /\ Goto(t, "put_pkg", "put_time", ok)
    /\ pkg_index' = IF ok THEN pkg_index \cup event[t] ELSE pkg_index
    /\ Unindexed(event[t], ok)
    /\ UNCHANGED <<records, time_index, meta_count, manifest, event, current,
                   ids, due, used, erased>>

PutTime(t, ok) ==
    /\ Goto(t, "put_time", "count_up", ok)
    /\ time_index' = IF ok THEN time_index \cup event[t] ELSE time_index
    /\ Unindexed(event[t], ok)
    /\ UNCHANGED <<records, pkg_index, meta_count, manifest, event, current,
                   ids, due, used, erased>>

OrElse(n, default) == IF n = -1 THEN default ELSE n

\* Mutant: the count is raised by two.
CountUpTwice(t) == OrElse(current[t], 0) + 2

CountUp(t) == OrElse(current[t], 0) + 1

InsertEvent(t, ok) ==
    \/ \E e \in Events : PutRecord(t, e, ok)
    \/ PutPkg(t, ok)
    \/ PutTime(t, ok)
    \/ ReadCount(t, "count_up", "put_count_up", ok)
    \/ WriteCount(t, "put_count_up", "manifest_add", CountUp(t), ok)
    \/ ReadManifest(t, "manifest_add", "put_manifest_add", ok)
    \/ WriteManifest(t, "put_manifest_add", "idle", ids[t] \cup event[t], ok)

-----------------------------------------------------------------------------
(* delete.  The time index keeps its entry.                                *)

\* Mutant: the package entry goes before the record.
DelPkgFirst(t, e, ok) ==
    /\ e \in used
    /\ Start(t, "del_pkg", {e}, ok)
    /\ pkg_index' = IF ok THEN pkg_index \ {e} ELSE pkg_index
    /\ UNCHANGED <<records, time_index, meta_count, manifest, current, ids,
                   due, used, erased, unindexed>>

DelRecord(t, e, ok) ==
    /\ e \in used
    /\ Step(t, "idle", "del_pkg", ok, overdeleted \/ e \notin records)
    /\ event' = [event EXCEPT ![t] = {e}]
    /\ records' = IF ok THEN records \ {e} ELSE records
    /\ Unindexed({e}, ok)
    /\ Release(IF ok THEN {} ELSE {e})
    /\ UNCHANGED <<pkg_index, time_index, meta_count, manifest, current, ids,
                   used, erased>>

DelPkg(t, ok) ==
    /\ Goto(t, "del_pkg", "count_down", ok)
    /\ pkg_index' = IF ok THEN pkg_index \ event[t] ELSE pkg_index
    /\ UNCHANGED <<records, time_index, meta_count, manifest, event, current,
                   ids, due, used, erased, unindexed>>

\* Mutant: a missing count is taken for 0, and the count is not decremented
\* from 1.
CountDownFloor(t) ==
    LET n == OrElse(current[t], 0) IN IF n > 1 THEN n - 1 ELSE n

CountDown(t) ==
    LET n == OrElse(current[t], 1) - 1 IN IF n < 0 THEN 0 ELSE n

DeleteEvent(t, ok) ==
    \/ \E e \in Events : DelRecord(t, e, ok)
    \/ DelPkg(t, ok)
    \/ ReadCount(t, "count_down", "put_count_down", ok)
    \/ WriteCount(t, "put_count_down", "manifest_remove", CountDown(t), ok)
    \/ ReadManifest(t, "manifest_remove", "put_manifest_remove", ok)
    \/ WriteManifest(t, "put_manifest_remove", "idle", ids[t] \ event[t], ok)

-----------------------------------------------------------------------------
(* deleteAll: read the manifest, delete the records it names and their     *)
(* package entries, drop the manifest, reset the count.                    *)

StartDeleteAll(t) ==
    /\ Start(t, "all_ids", {}, TRUE)
    /\ due' = [due EXCEPT ![t] = IF AllIdle THEN manifest \cap records ELSE {}]
    /\ UNCHANGED <<keys, current, ids, used, erased, unindexed>>

\* Mutant: the last id of the manifest is left out (until length() - 1).
VisitAllButLast(t, e) ==
    IF Cardinality(ids[t]) <= 2 THEN {} ELSE ids[t] \ {e}

StillToVisit(t, e) == ids[t] \ {e}

(* One turn of the loop begins; an id without a record is skipped, and so  *)
(* is one whose query fails.                                               *)
Visit(t, ok) ==
    \E e \in ids[t] :
        LET found == ok /\ e \in records IN
        /\ Goto(t, "all_visit",
                IF found THEN "all_record" ELSE "all_visit", ok)
        /\ ids' = [ids EXCEPT ![t] = StillToVisit(t, e)]
        /\ event' = [event EXCEPT ![t] = IF found THEN {e} ELSE {}]
        /\ Release(IF ok THEN {} ELSE {e})
        /\ UNCHANGED <<keys, current, used, erased, unindexed>>

EraseRecord(t, ok) ==
    /\ Goto(t, "all_record", "all_pkg", ok)
    /\ records' = IF ok THEN records \ event[t] ELSE records
    /\ Unindexed(event[t], ok)
    /\ Release(IF ok THEN {} ELSE event[t])
    /\ UNCHANGED <<pkg_index, time_index, meta_count, manifest, event, current,
                   ids, used, erased>>

ErasePkg(t, ok) ==
    /\ Goto(t, "all_pkg", "all_visit", ok)
    /\ pkg_index' = IF ok THEN pkg_index \ event[t] ELSE pkg_index
    /\ event' = [event EXCEPT ![t] = {}]
    /\ UNCHANGED <<records, time_index, meta_count, manifest, current, ids,
                   due, used, erased, unindexed>>

EraseManifest(t, ok) ==
    /\ ids[t] = {}
    /\ WriteManifest(t, "all_visit", "all_count", {}, ok)

ResetCount(t, ok) ==
    /\ Step(t, "all_count", "idle", ok, FALSE)
    /\ meta_count' = IF ok THEN 0 ELSE meta_count
    /\ erased' = erased \cup due[t]
    /\ due' = [due EXCEPT ![t] = {}]
    /\ UNCHANGED <<records, pkg_index, time_index, manifest, event, current,
                   ids, used, unindexed>>

DeleteAll(t, ok) ==
    \/ StartDeleteAll(t)
    \/ ReadManifest(t, "all_ids", "all_visit", ok)
    \/ Visit(t, ok)
    \/ EraseRecord(t, ok)
    \/ ErasePkg(t, ok)
    \/ EraseManifest(t, ok)
    \/ ResetCount(t, ok)

(* The methods of the tasks ts are cut short: the application is killed    *)
(* (all of them), or a call throws, since the database was closed.  The    *)
(* keys stay as they are.                                                  *)
Cut(ts) ==
    LET Reset(f, idle) == [t \in Tasks |-> IF t \in ts THEN idle ELSE f[t]] IN
    /\ \E t \in ts : pc[t] # "idle"
    /\ undisturbed' = FALSE /\ overdeleted' = FALSE
    /\ pc' = Reset(pc, "idle") /\ event' = Reset(event, {})
    /\ current' = Reset(current, -1) /\ ids' = Reset(ids, {})
    /\ due' = Reset(due, {})
    /\ UNCHANGED <<keys, used, erased, unindexed>>

Next ==
    \/ \E t \in Tasks, ok \in BOOLEAN :
          InsertEvent(t, ok) \/ DeleteEvent(t, ok) \/ DeleteAll(t, ok)
    \/ \E ts \in SUBSET Tasks : Cut(ts)

Spec == Init /\ [][Next]_vars

-----------------------------------------------------------------------------
CountIs(n) ==
    /\ OrElse(meta_count, 0) <= n
    /\ ~overdeleted => OrElse(meta_count, 0) = n

(* Between methods, as long as nothing overlapped, failed or was cut       *)
(* short, the shared keys agree with the records: the manifest lists them, *)
(* each has its package entry and its time entry, and the count counts     *)
(* them.  delete lowers it for an event that is gone as well; then it is   *)
(* too low, never too high, until deleteAll resets it.                     *)
KeysAgree ==
    undisturbed /\ AllIdle =>
        /\ manifest = records
        /\ pkg_index = records
        /\ records \subseteq time_index
        /\ CountIs(Cardinality(records))

(* A deleteAll that starts while no other method runs erases every event   *)
(* then shown ("Wipe all events (GDPR Art.17 - right to erasure)"),        *)
(* whatever overlaps it and whatever happened before.  Only a failed call  *)
(* spares one: the query or the delete of its record, or a query of the    *)
(* manifest, after which a method may write back a manifest without it.    *)
ErasedAreGone == records \cap erased = {}

(* An event that is shown, i.e. listed and still stored, has its index     *)
(* entries, whatever overlaps, fails or is cut short: insert lists it      *)
(* last, delete and deleteAll remove the record first.  Only its own       *)
(* failed index insert, or a failed delete of its record, can tell.        *)
ShownIsIndexed ==
    (manifest \cap records) \ unindexed \subseteq pkg_index \cap time_index

(* After an undisturbed deleteAll no key of an erased event is left.       *)
NothingOfErasedIsLeft ==
    undisturbed /\ AllIdle => (pkg_index \cup time_index) \cap erased = {}
-----------------------------------------------------------------------------
(* The inductive invariant behind the properties above.                    *)

Uncounted == {"put_pkg", "put_time", "count_up", "put_count_up"}
Inserting == Uncounted \cup {"manifest_add", "put_manifest_add"}
Undiscounted == {"del_pkg", "count_down", "put_count_down"}
Deleting == Undiscounted \cup {"manifest_remove", "put_manifest_remove"}
Erasing == {"all_ids", "all_visit", "all_record", "all_pkg", "all_count"}

(* Keys and tasks know only events that were inserted, and an event is     *)
(* inserted by one task.                                                   *)
UsedInv ==
    /\ records \cup manifest \cup erased \subseteq used
    /\ \A t \in Tasks :
          /\ ids[t] \cup due[t] \cup event[t] \subseteq used
          /\ pc[t] \in Uncounted =>
                /\ \E e \in Events : event[t] = {e}
                /\ \A u \in Tasks \ {t} :
                      pc[u] \in Uncounted => event[t] \cap event[u] = {}

(* The inserts that have raised the count, or were killed before: the      *)
(* count, and every copy of it, is at most their number.                   *)
Counted ==
    {e \in used : \A t \in Tasks : pc[t] \in Uncounted => e \notin event[t]}

CountInv ==
    /\ meta_count <= Cardinality(Counted)
    /\ \A t \in Tasks : current[t] <= Cardinality(Counted)

(* A task removes index and manifest entries of an event only once its     *)
(* record is gone, unless the delete failed; and it never comes back.      *)
GoneInv ==
    \A t \in Tasks :
        pc[t] \in Deleting \cup {"all_pkg"} =>
            event[t] \cap records \subseteq unindexed

(* A stored event is put into the manifest, or into a copy of it, only     *)
(* after its index entries.                                                *)
IndexInv ==
    LET fit == records \ unindexed
        indexed == pkg_index \cap time_index
    IN
    /\ manifest \cap fit \subseteq indexed
    /\ \A t \in Tasks :
          /\ ids[t] \cap fit \subseteq indexed
          /\ pc[t] = "put_time" => event[t] \cap fit \subseteq pkg_index
          /\ pc[t] \in Inserting \ {"put_pkg", "put_time"} =>
                event[t] \cap fit \subseteq indexed

(* What is still owed to a deleteAll is in the manifest, in every copy of  *)
(* it that will be written back, and before every task that erases.        *)
Keeps(u, es) ==
    /\ pc[u] \in {"put_manifest_add", "put_manifest_remove", "all_visit",
                  "all_pkg"} => es \subseteq ids[u]
    /\ pc[u] = "all_record" => es \subseteq ids[u] \cup event[u]
    /\ pc[u] = "all_count" => es = {}
    /\ pc[u] \in Deleting \cup {"all_pkg"} => es \cap event[u] = {}

DueInv ==
    /\ records \cap erased = {}
    /\ \A t \in Tasks : pc[t] \in Erasing =>
          LET owed == due[t] \cap records IN
          /\ owed \subseteq manifest
          /\ \A u \in Tasks : Keeps(u, owed)

(* What the keys say while task t runs alone.                              *)
RunsAlone(t) ==
    LET e == event[t]
        at == pc[t]
    IN
    /\ at \in Inserting => e \subseteq records /\ manifest = records \ e
    /\ at \in Deleting => manifest \ e = records
    /\ at \in Uncounted => CountIs(Cardinality(records) - 1)
    /\ at \in Undiscounted => CountIs(Cardinality(records) + 1)
    /\ at \in {"put_count_up", "put_count_down"} => current[t] = meta_count
    /\ at \in (Inserting \ Uncounted) \cup (Deleting \ Undiscounted) =>
          CountIs(Cardinality(records))
    /\ at \in {"put_manifest_add", "put_manifest_remove"} => ids[t] = manifest
    /\ at = "all_ids" => manifest = records
    /\ at \in {"all_visit", "all_pkg"} => records \subseteq ids[t]
    /\ at = "all_record" =>
          e \subseteq records /\ records \subseteq ids[t] \cup e
    /\ at = "all_count" => records = {} /\ manifest = {}
    /\ pkg_index \ (IF at \in {"del_pkg", "all_pkg"} THEN e ELSE {}) =
                   records \ (IF at = "put_pkg" THEN e ELSE {})
    /\ at = "all_pkg" => e \cap records = {}
    /\ records \subseteq time_index \cup
                            (IF at \in {"put_pkg", "put_time"} THEN e ELSE {})

UndisturbedInv ==
    undisturbed =>
        /\ \A t, u \in Tasks : pc[t] # "idle" /\ pc[u] # "idle" => t = u
        /\ \A t \in Tasks : pc[t] # "idle" => RunsAlone(t)
        /\ KeysAgree

ExposureInv == /\ TypeOK /\ UsedInv /\ CountInv /\ GoneInv /\ IndexInv
               /\ DueInv /\ UndisturbedInv
=============================================================================
