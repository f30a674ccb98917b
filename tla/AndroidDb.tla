------------------------------ MODULE AndroidDb ------------------------------
(***************************************************************************)
(* The threads of an Android application in EdisonDbAndroid.kt: open() and *)
(* close() hold the object's monitor, insert(), query() and delete() do    *)
(* not; they test dbHandle, read it again and pass it through jni_bridge.rs *)
(* to ffi.rs, which follows the pointer and locks the Mutex<MobileDb>      *)
(* behind it.  close() frees that memory, and the allocator may give its   *)
(* address to the next open().                                             *)
(*                                                                         *)
(* Following a pointer that is no longer live, or freeing one that another *)
(* thread is using, is undefined behaviour: the model stops there, with    *)
(* undefined set.  Values, keys and headers are inputs, chosen where they  *)
(* are first looked at; a query changes nothing and returns what is there. *)
(***************************************************************************)
EXTENDS MobileStore

CONSTANTS
    Threads,
    Handles     \* addresses the allocator may give to a DbHandle

VARIABLES
    dbHandle,   \* EdisonDbAndroid.dbHandle, Absent for 0
    monitor,    \* the thread inside a @Synchronized method, or Absent
    live,       \* the address of the DbHandle that is allocated, or Absent
    mutex,      \* the thread that holds DbHandle.inner, or Absent
    call,       \* what each thread is doing
    overlap,    \* history: some close() ran together with another call
                \* that uses the handle
    undefined   \* the process has done something undefined

android == <<dbHandle, monitor, live, mutex, call, overlap, undefined>>
androidVars == <<vars, android>>

Lifecycle == {"open", "close"}
DataCalls == {"insert", "query", "delete"}

ASSUME AbsentCallAssumption ==
    Absent \notin Threads \cup Handles \cup Lifecycle \cup DataCalls

(* Where a thread holds the monitor, follows the pointer, holds the mutex. *)
Synchronized == {"inside", "opened", "freed"}
Locking == {"locked", "stored"}
Using == {"native"} \cup Locking

Stages ==
    {"idle", "entered", "checked", "calling"} \cup Synchronized \cup Using

Call ==
    [stage : Stages,
     op : Lifecycle \cup DataCalls \cup {Absent},
     handle : Handles \cup {Absent}]

Idle == [stage |-> "idle", op |-> Absent, handle |-> Absent]

AndroidInit ==
    /\ Init
    /\ dbHandle = Absent
    /\ monitor = Absent
    /\ live = Absent
    /\ mutex = Absent
    /\ call = [t \in Threads |-> Idle]
    /\ overlap = FALSE
    /\ undefined = FALSE

Advance(t, from, to) ==
    /\ call[t].stage = from
    /\ call' = [call EXCEPT ![t].stage = to]

Return(t) == call' = [call EXCEPT ![t] = Idle]

Active(ops) == \E u \in Threads : call[u].op \in ops

(* The application calls a method, on any thread, at any time.             *)
Begin(t, op) ==
    /\ call[t] = Idle
    /\ call' = [call EXCEPT
                    ![t] = [Idle EXCEPT !.stage = "entered", !.op = op]]
    /\ overlap' = \/ overlap
                  \/ op = "close" /\ Active(DataCalls)
                  \/ op \in DataCalls /\ Active({"close"})
    /\ UNCHANGED <<vars, dbHandle, monitor, live, mutex, undefined>>

GoUndefined ==
    /\ undefined' = TRUE
    /\ UNCHANGED <<vars, dbHandle, monitor, live, mutex, call, overlap>>

-----------------------------------------------------------------------------
(* open() and close().                                                     *)

EnterMonitor(t) ==
    /\ Advance(t, "entered", "inside")
    /\ call[t].op \in Lifecycle
    /\ monitor = Absent
    /\ monitor' = t
    /\ UNCHANGED <<vars, dbHandle, live, mutex, overlap, undefined>>

LeaveMonitor(t) == Return(t) /\ monitor' = Absent

(* Nothing to open or to close, or MobileDb::open failed and open() throws. *)
LeaveUnchanged(t) ==
    /\ call[t].stage = "inside"
    /\ call[t].op = "close" => dbHandle = Absent
    /\ LeaveMonitor(t)
    /\ UNCHANGED <<vars, dbHandle, live, mutex, overlap, undefined>>

(* nativeOpen and edisondb_open: MobileDb::open, Box::into_raw.            *)
NativeOpen(t) ==
    /\ call[t].stage = "inside" /\ call[t].op = "open"
    /\ dbHandle = Absent
    /\ Open
    /\ \E h \in Handles :
          /\ live' = h
          /\ call' = [call EXCEPT ![t].stage = "opened", ![t].handle = h]
    /\ UNCHANGED <<dbHandle, monitor, mutex, overlap, undefined>>

PublishHandle(t) ==
    /\ call[t].stage = "opened"
    /\ dbHandle' = call[t].handle
    /\ LeaveMonitor(t)
    /\ UNCHANGED <<vars, live, mutex, overlap, undefined>>

MayFree == dbHandle = live /\ \A u \in Threads : call[u].stage \notin Using

(* nativeClose and edisondb_close: Box::from_raw, drop.                    *)
NativeClose(t) ==
    /\ call[t].stage = "inside" /\ call[t].op = "close"
    /\ dbHandle # Absent
    /\ IF MayFree
       THEN /\ Advance(t, "inside", "freed")
            /\ live' = Absent
            /\ CloseOrCrash
            /\ UNCHANGED <<dbHandle, monitor, mutex, overlap, undefined>>
       ELSE GoUndefined

\* Mutant: close() leaves the old handle in place.
HandleKept(t) ==
    /\ call[t].stage = "freed"
    /\ LeaveMonitor(t)
    /\ UNCHANGED <<vars, dbHandle, live, mutex, overlap, undefined>>

ClearHandle(t) ==
    /\ call[t].stage = "freed"
    /\ dbHandle' = Absent
    /\ LeaveMonitor(t)
    /\ UNCHANGED <<vars, live, mutex, overlap, undefined>>

-----------------------------------------------------------------------------
(* insert(), query() and delete().                                         *)

(* checkOpen(): it throws when the database is not open.                   *)
CheckOpen(t) ==
    /\ call[t].stage = "entered" /\ call[t].op \in DataCalls
    /\ IF dbHandle # Absent THEN Advance(t, "entered", "checked")
                            ELSE Return(t)
    /\ UNCHANGED <<vars, dbHandle, monitor, live, mutex, overlap, undefined>>

(* dbHandle is read a second time, as the argument of the native method.   *)
ReadHandle(t) ==
    /\ call[t].stage = "checked"
    /\ call' = [call EXCEPT ![t].stage = "calling", ![t].handle = dbHandle]
    /\ UNCHANGED <<vars, dbHandle, monitor, live, mutex, overlap, undefined>>

(* An argument that cannot be converted, a header that is not 78 bytes, or *)
(* a null handle: the pointer is not followed.                             *)
RefuseArguments(t) ==
    /\ call[t].stage = "calling"
    /\ Return(t)
    /\ UNCHANGED <<vars, dbHandle, monitor, live, mutex, overlap, undefined>>

(* let handle = &*db                                                       *)
FollowHandle(t) ==
    /\ call[t].stage = "calling"
    /\ call[t].handle # Absent
    /\ IF call[t].handle = live
       THEN /\ Advance(t, "calling", "native")
            /\ UNCHANGED <<vars, dbHandle, monitor, live, mutex, overlap,
                           undefined>>
       ELSE GoUndefined

\* Mutant: MobileDb is not behind a lock.
MutexIgnored == TRUE

MutexFree == mutex = Absent

Lock(t) ==
    /\ Advance(t, "native", "locked")
    /\ MutexFree
    /\ mutex' = t
    /\ UNCHANGED <<vars, dbHandle, monitor, live, overlap, undefined>>

Unlock(t) == Return(t) /\ mutex' = Absent

(* A query; an insert whose header is invalid or does not carry the hash   *)
(* of the value (InvalidArpi), or whose counter is exhausted; any call     *)
(* that fails before it changes the store.                                 *)
ReadOrRefuse(t) ==
    /\ call[t].stage = "locked"
    /\ Unlock(t)
    /\ UNCHANGED <<vars, dbHandle, monitor, live, overlap, undefined>>

InsertHalf(t) ==
    /\ call[t].stage = "locked" /\ call[t].op = "insert"
    /\ \E k \in UserKeys, v \in Values : StoreRecord(k, v)
    /\ IF pc' = "persisting"
       THEN Advance(t, "locked", "stored") /\ UNCHANGED mutex
       ELSE Unlock(t)
    /\ UNCHANGED <<dbHandle, monitor, live, overlap, undefined>>

PersistHalf(t) ==
    /\ call[t].stage = "stored"
    /\ StoreCounter
    /\ Unlock(t)
    /\ UNCHANGED <<dbHandle, monitor, live, overlap, undefined>>

RemoveKey(t) ==
    /\ call[t].stage = "locked" /\ call[t].op = "delete"
    /\ \E k \in UserKeys : Remove(k)
    /\ Unlock(t)
    /\ UNCHANGED <<dbHandle, monitor, live, overlap, undefined>>

(* Android kills the process, which starts again with nothing in memory.   *)
Kill ==
    /\ call' = [t \in Threads |-> Idle]
    /\ dbHandle' = Absent
    /\ monitor' = Absent
    /\ live' = Absent
    /\ mutex' = Absent
    /\ IF live = Absent THEN UNCHANGED vars ELSE CloseOrCrash
    /\ UNCHANGED <<overlap, undefined>>

Step(t) ==
    \/ \E op \in Lifecycle \cup DataCalls : Begin(t, op)
    \/ EnterMonitor(t) \/ LeaveUnchanged(t)
    \/ NativeOpen(t) \/ PublishHandle(t)
    \/ NativeClose(t) \/ ClearHandle(t)
    \/ CheckOpen(t) \/ ReadHandle(t) \/ RefuseArguments(t)
    \/ FollowHandle(t) \/ Lock(t) \/ ReadOrRefuse(t)
    \/ InsertHalf(t) \/ PersistHalf(t) \/ RemoveKey(t)

AndroidNext == ~undefined /\ (Kill \/ \E t \in Threads : Step(t))

AndroidSpec == AndroidInit /\ [][AndroidNext]_androidVars

-----------------------------------------------------------------------------
AndroidTypeOK ==
    /\ pc \in {"closed", "ready", "persisting"}
    /\ dbHandle \in Handles \cup {Absent}
    /\ monitor \in Threads \cup {Absent}
    /\ live \in Handles \cup {Absent}
    /\ mutex \in Threads \cup {Absent}
    /\ call \in [Threads -> Call]
    /\ overlap \in BOOLEAN
    /\ undefined \in BOOLEAN

(* The lock of ffi.rs does what MobileDb needs: whatever threads and       *)
(* closes and opens do, the store moves only as MobileStore says, in       *)
(* particular no call comes between the two halves of an insert.           *)
MobileSpec == Spec

(* What "Thread-safe" leaves open: behaviour is undefined only if a        *)
(* close() ran together with a call that uses the handle.  Calls that      *)
(* overlap each other, opens and closes that overlap, and calls after a    *)
(* close are all defined.                                                  *)
UndisturbedCallsAreDefined == undefined => overlap

(* Who is where in the two locks.                                          *)
LocksHeld ==
    \A t \in Threads :
        /\ call[t].stage \in Synchronized <=> monitor = t
        /\ call[t].stage \in Locking <=> mutex = t

(* Which calls reach which stages.                                         *)
StagesFit ==
    \A t \in Threads :
        /\ call[t].stage \in Synchronized => call[t].op \in Lifecycle
        /\ call[t].stage \in {"checked", "calling"} \cup Using =>
               call[t].op \in DataCalls
        /\ call[t].stage = "opened" => call[t].op = "open"
        /\ call[t].stage = "freed" => call[t].op = "close"

(* The two copies of the handle, and the store behind it.                  *)
HandlesAgree ==
    /\ live = Absent <=> pc = "closed"
    /\ pc = "persisting" <=> \E t \in Threads : call[t].stage = "stored"
    /\ \A t \in Threads :
          /\ call[t].stage = "opened" =>
                 dbHandle = Absent /\ live # Absent /\ call[t].handle = live
          /\ call[t].stage = "freed" => live = Absent
          /\ call[t].stage \in Using => live # Absent
    /\ \/ dbHandle = live
       \/ \E t \in Threads : call[t].stage \in {"opened", "freed"}

(* As long as no close() met a call that uses the handle, such a call has  *)
(* the handle of the open database in its hand.                            *)
Undisturbed ==
    ~overlap =>
        /\ ~undefined
        /\ \A t, u \in Threads :
              call[t].op \in DataCalls => call[u].op # "close"
        /\ \A t \in Threads :
              /\ call[t].stage = "checked" => dbHandle # Absent
              /\ call[t].stage = "calling" \/ call[t].stage \in Using =>
                     call[t].handle = live /\ dbHandle = live /\ live # Absent

Coordination ==
    AndroidTypeOK /\ LocksHeld /\ StagesFit /\ HandlesAgree /\ Undisturbed

AndroidInv == TypeOK /\ Coordination
=============================================================================
