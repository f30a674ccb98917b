----------------------------- MODULE RedbStore ------------------------------
(***************************************************************************)
(* One redb database file shared by several sessions.                      *)
(*                                                                         *)
(* A session is an EqlExecutor over a RedbBackend: it loads the WHOLE file *)
(* into memory (Store::load_impl), works on that copy, and writes the whole *)
(* copy back (Store::save_impl) inside one redb write transaction after    *)
(* each operation.  The redb file lock is held only while a load or a save *)
(* runs, so a load and a save are atomic, but between them the copy of one *)
(* session goes stale while another saves.  The REST and the gRPC server   *)
(* of server.rs run such sessions side by side: each request connects,     *)
(* executes and drops, under one lock per server.                          *)
(*                                                                         *)
(* A refused operation (AlreadyExists, NotFound on delete, a delete by a   *)
(* non-owner, LIST, AUDIT, status, verify) changes nothing and saves       *)
(* nothing: it is a stuttering step and has no action below.               *)
(***************************************************************************)
EXTENDS AuditChain, FiniteSets

CONSTANTS
    Sessions,   \* concurrently open sessions on the same path
    MaxLog,     \* bound: no session logs beyond this many audit entries
    MaxReplies  \* bound: no statement starts after this many answers

ASSUME BoundsAssumption == MaxLog \in Nat /\ MaxReplies \in Nat

VARIABLES
    file_exists,   \* Path::new(path).exists()
    disk_records,  \* RECORDS_TABLE
    disk_audit,    \* AUDIT_TABLE, contiguous from index 0 by construction
    checkpoint,    \* AUDIT_CHECKPOINT_TABLE, or Absent
    pc,            \* where each session is
    owner_id,      \* EqlExecutor.owner_id
    store_secret,  \* RedbBackend.store_secret (Legacy for None)
    records,       \* Store.records
    audit_log,     \* Store.audit_log
    request,       \* the reply that is waiting for the save, or Absent
    replies        \* history variable: the answers sent so far

disk == <<file_exists, disk_records, disk_audit, checkpoint>>
memory == <<owner_id, store_secret, records, audit_log>>
vars == <<disk, pc, memory, request, replies>>

PC == {"closed", "loading", "creating", "ready", "saving", "replying"}

(* index is the place of the operation's audit entry in the session's log, *)
(* 0 when it logged none; record is what was written or returned.          *)
Request == [index : Nat, record : Record \cup {Absent}]

(* An answer (success, or AccessDenied for a read) to a statement that     *)
(* logged an entry; saved tells whether the statement saved before it.     *)
Reply == [session : Sessions, saved : BOOLEAN, index : Nat,
          entry : AuditEntry, record : Record \cup {Absent}]

TypeOK ==
    /\ file_exists \in BOOLEAN
    /\ disk_records \in RecordMap
    /\ disk_audit \in Seq(AuditEntry)
    /\ checkpoint \in Checkpoint \cup {Absent}
    /\ pc \in [Sessions -> PC]
    /\ owner_id \in [Sessions -> Owners \cup {Absent}]
    /\ store_secret \in [Sessions -> Modes]
    /\ records \in [Sessions -> RecordMap]
    /\ audit_log \in [Sessions -> Seq(AuditEntry)]
    /\ request \in [Sessions -> Request \cup {Absent}]
    /\ replies \subseteq Reply

Init ==
    /\ file_exists = FALSE
    /\ disk_records = NoRecords
    /\ disk_audit = <<>>
    /\ checkpoint = Absent
    /\ pc = [s \in Sessions |-> "closed"]
    /\ owner_id = [s \in Sessions |-> Absent]
    /\ store_secret = [s \in Sessions |-> Legacy]
    /\ records = [s \in Sessions |-> NoRecords]
    /\ audit_log = [s \in Sessions |-> <<>>]
    /\ request = [s \in Sessions |-> Absent]
    /\ replies = {}

Goto(s, from, to) == pc[s] = from /\ pc' = [pc EXCEPT ![s] = to]

-----------------------------------------------------------------------------
(* Opening: RedbBackend::open and open_authenticated.  The path is tested  *)
(* first; the load or the creating save is a later step, and another       *)
(* session may create or change the file in between.                       *)

Open(s, o, mode) ==
    /\ Goto(s, "closed", IF file_exists THEN "loading" ELSE "creating")
    /\ owner_id' = [owner_id EXCEPT ![s] = o]
    /\ store_secret' = [store_secret EXCEPT ![s] = mode]
    /\ UNCHANGED <<disk, records, audit_log, request, replies>>

(* The session's memory is gone: dropped, or lost with the process.        *)
Forget(s) ==
    /\ owner_id' = [owner_id EXCEPT ![s] = Absent]
    /\ store_secret' = [store_secret EXCEPT ![s] = Legacy]
    /\ records' = [records EXCEPT ![s] = NoRecords]
    /\ audit_log' = [audit_log EXCEPT ![s] = <<>>]
    /\ request' = [request EXCEPT ![s] = Absent]

(* Store::load_impl.  A file that was created but never committed has no   *)
(* checkpoint: it is Genesis, and the load writes the first checkpoint.    *)
Load(s) ==
    /\ Goto(s, "loading", "ready")
    /\ LoadAccepts(store_secret[s], checkpoint, disk_records, disk_audit)
    /\ checkpoint' =
           IF checkpoint = Absent
           THEN NewCheckpoint(store_secret[s], disk_records, disk_audit)
           ELSE checkpoint
    /\ records' = [records EXCEPT ![s] = disk_records]
    /\ audit_log' = [audit_log EXCEPT ![s] = disk_audit]
    /\ UNCHANGED <<file_exists, disk_records, disk_audit, owner_id,
                   store_secret, request, replies>>

LoadRejected(s) ==
    /\ Goto(s, "loading", "closed")
    /\ ~LoadAccepts(store_secret[s], checkpoint, disk_records, disk_audit)
    /\ Forget(s)
    /\ UNCHANGED <<disk, replies>>

\* Mutants: records are inserted without draining the table, and the
\* checkpoint is written only when there is none.
CommitUndrained(s) ==
    /\ SaveAccepts(store_secret[s], checkpoint, disk_records, disk_audit,
                   audit_log[s])
    /\ file_exists' = TRUE
    /\ disk_records' = [id \in Ids |-> IF disk_records[id] = Absent
                                      THEN records[s][id]
                                      ELSE disk_records[id]]
    /\ disk_audit' = audit_log[s]
    /\ checkpoint' = NewCheckpoint(store_secret[s], disk_records',
                                   audit_log[s])
CommitOldCheckpoint(s) ==
    /\ SaveAccepts(store_secret[s], checkpoint, disk_records, disk_audit,
                   audit_log[s])
    /\ file_exists' = TRUE
    /\ disk_records' = records[s]
    /\ disk_audit' = audit_log[s]
    /\ checkpoint' =
           IF checkpoint = Absent
           THEN NewCheckpoint(store_secret[s], records[s], audit_log[s])
           ELSE checkpoint

(* The transaction of Store::save_impl: the three tables are replaced.     *)
Commit(s) ==
    /\ SaveAccepts(store_secret[s], checkpoint, disk_records, disk_audit,
                   audit_log[s])
    /\ file_exists' = TRUE
    /\ disk_records' = records[s]
    /\ disk_audit' = audit_log[s]
    /\ checkpoint' = NewCheckpoint(store_secret[s], records[s], audit_log[s])

(* Database::create has made the file, the transaction was dropped.        *)
Abort(s) ==
    /\ ~SaveAccepts(store_secret[s], checkpoint, disk_records, disk_audit,
                    audit_log[s])
    /\ file_exists' = TRUE
    /\ UNCHANGED <<disk_records, disk_audit, checkpoint>>

Create(s) ==
    /\ Goto(s, "creating", "ready")
    /\ Commit(s)
    /\ UNCHANGED <<memory, request, replies>>

CreateRejected(s) ==
    /\ Goto(s, "creating", "closed")
    /\ Abort(s)
    /\ Forget(s)
    /\ UNCHANGED replies

-----------------------------------------------------------------------------
(* Statements.  Each works on the session's copy and then, except for      *)
(* AUTO EMBED, calls save; the reply is sent only after the save.          *)

CanLog(s) ==
    Len(audit_log[s]) < MaxLog /\ Cardinality(replies) < MaxReplies

Await(s, index, rec) ==
    request' = [request EXCEPT ![s] = [index |-> index, record |-> rec]]

Answer(s, saved, index, log, rec) ==
    [session |-> s, saved |-> saved, index |-> index, entry |-> log[index],
     record |-> rec]

LogEntry(s, id, action, t) ==
    audit_log' = [audit_log EXCEPT
        ![s] = append_audit(@, id, owner_id[s], action, t)]

ensure_new_record_id(s, id) == records[s][id] = Absent

StoreWrite(s, id, rec, t) ==
    /\ ensure_new_record_id(s, id)
    /\ LogEntry(s, id, "Write", t)
    /\ records' = [records EXCEPT ![s][id] = rec]

(* EqlExecutor::exec_write.  Record::new reads the clock for created_at,   *)
(* append_audit reads it again for the entry.                              *)
ExecWrite(s, id, tier, payload, created_at, t) ==
    LET rec == [tier |-> tier, owner_id |-> owner_id[s], payload |-> payload,
                created_at |-> created_at]
    IN  /\ Goto(s, "ready", "saving")
        /\ CanLog(s)
        /\ StoreWrite(s, id, rec, t)
        /\ Await(s, Len(audit_log[s]) + 1, rec)
        /\ UNCHANGED <<disk, owner_id, store_secret, replies>>

\* Mutant: the refusal is logged under the name of the error.
ReadActionMisnamed(s, id) ==
    IF is_readable_by(records[s][id], owner_id[s])
    THEN "ReadGranted" ELSE "AccessDenied"

ReadAction(s, id) ==
    IF is_readable_by(records[s][id], owner_id[s])
    THEN "ReadGranted" ELSE "ReadDenied"

(* Store::read of a record that exists logs the attempt, granted or not.   *)
StoreRead(s, id, t) ==
    /\ records[s][id] # Absent
    /\ LogEntry(s, id, ReadAction(s, id), t)
    /\ UNCHANGED records

(* What the caller of a read gets: the record, or AccessDenied.            *)
ReadResult(s, id) ==
    IF ReadAction(s, id) = "ReadGranted" THEN records[s][id] ELSE Absent

(* EqlExecutor::exec_read saves before the caller learns the result.       *)
ExecRead(s, id, t) ==
    /\ Goto(s, "ready", "saving")
    /\ CanLog(s)
    /\ StoreRead(s, id, t)
    /\ Await(s, Len(audit_log[s]) + 1, ReadResult(s, id))
    /\ UNCHANGED <<disk, owner_id, store_secret, replies>>

(* exec_read of an id that is not there logs nothing, but saves; so does   *)
(* EdisonDB::persist.                                                      *)
SaveOnly(s) ==
    /\ Goto(s, "ready", "saving")
    /\ Await(s, 0, Absent)
    /\ UNCHANGED <<disk, memory, replies>>

\* Mutant: anyone may delete.
MayDeleteAny(s, id) == records[s][id] # Absent

MayDelete(s, id) ==
    /\ records[s][id] # Absent
    /\ records[s][id].owner_id = owner_id[s]

StoreDelete(s, id, t) ==
    /\ MayDelete(s, id)
    /\ LogEntry(s, id, "Delete", t)
    /\ records' = [records EXCEPT ![s][id] = Absent]

ExecDelete(s, id, t) ==
    /\ Goto(s, "ready", "saving")
    /\ CanLog(s)
    /\ StoreDelete(s, id, t)
    /\ Await(s, Len(audit_log[s]) + 1, Absent)
    /\ UNCHANGED <<disk, owner_id, store_secret, replies>>

(* EqlExecutor::exec_auto_embed reads the record, which logs the attempt,  *)
(* and does not save: the entry stays in memory until a later save.  The   *)
(* embedding itself goes to the vector index (module Executor).            *)
ExecAutoEmbed(s, id, t) ==
    /\ pc[s] = "ready"
    /\ CanLog(s)
    /\ StoreRead(s, id, t)
    /\ replies' = replies \cup {Answer(s, FALSE, Len(audit_log[s]) + 1,
                                       audit_log'[s], ReadResult(s, id))}
    /\ UNCHANGED <<disk, pc, owner_id, store_secret, request>>

-----------------------------------------------------------------------------
(* Saving and replying.                                                    *)

SaveCommit(s) ==
    /\ Goto(s, "saving", "replying")
    /\ Commit(s)
    /\ UNCHANGED <<memory, request, replies>>

(* The statement returns the error; what it did in memory stays there, and *)
(* a later save of this session may still commit it.                       *)
SaveRejected(s) ==
    /\ Goto(s, "saving", "ready")
    /\ Abort(s)
    /\ request' = [request EXCEPT ![s] = Absent]
    /\ UNCHANGED <<memory, replies>>

(* SaveFailed: the file is locked, or the transaction hit an I/O error and *)
(* none of it reached the file.                                            *)
SaveFails(s) ==
    /\ Goto(s, "saving", "ready")
    /\ request' = [request EXCEPT ![s] = Absent]
    /\ UNCHANGED <<disk, memory, replies>>

(* SaveFailed, too, but it was commit() that met the error, after what it  *)
(* wrote had reached the file: the next load finds the transaction.  (For  *)
(* the commit of an open the same is Load or Create, then CloseOrCrash.)   *)
SaveInDoubt(s) ==
    /\ Goto(s, "saving", "ready")
    /\ Commit(s)
    /\ request' = [request EXCEPT ![s] = Absent]
    /\ UNCHANGED <<memory, replies>>

SendReply(s) ==
    /\ Goto(s, "replying", "ready")
    /\ LET q == request[s] IN
       replies' = IF q.index = 0 THEN replies
                  ELSE replies \cup
                       {Answer(s, TRUE, q.index, audit_log[s], q.record)}
    /\ request' = [request EXCEPT ![s] = Absent]
    /\ UNCHANGED <<disk, memory>>

(* The session is dropped, or its process dies, at any point; or the open  *)
(* fails because another load or save has the file locked, or on an I/O    *)
(* error.  If that interrupts the creating save it may leave a file without *)
(* a checkpoint; after the commit of a save it loses only the reply.       *)
CloseOrCrash(s) ==
    /\ pc[s] # "closed"
    /\ pc' = [pc EXCEPT ![s] = "closed"]
    /\ Forget(s)
    /\ file_exists' \in {file_exists, pc[s] = "creating" \/ file_exists}
    /\ UNCHANGED <<disk_records, disk_audit, checkpoint, replies>>

Next ==
    \E s \in Sessions :
        \/ \E o \in Owners, mode \in Modes : Open(s, o, mode)
        \/ Load(s) \/ LoadRejected(s)
        \/ Create(s) \/ CreateRejected(s)
        \/ \E id \in Ids, tier \in Tiers, payload \in Payloads,
              created_at \in Times, t \in Times :
                 ExecWrite(s, id, tier, payload, created_at, t)
        \/ \E id \in Ids, t \in Times :
                 \/ ExecRead(s, id, t)
                 \/ ExecDelete(s, id, t)
                 \/ ExecAutoEmbed(s, id, t)
        \/ SaveOnly(s)
        \/ SaveCommit(s) \/ SaveRejected(s)
        \/ SaveFails(s) \/ SaveInDoubt(s)
        \/ SendReply(s)
        \/ CloseOrCrash(s)

Spec == Init /\ [][Next]_vars

-----------------------------------------------------------------------------
(* Properties of the shared file.                                          *)

(* The durable audit log is a history a sequential store could have made:  *)
(* no session, however stale its copy was when it saved, committed a write *)
(* of a taken id, a read of a deleted record or a delete by a non-owner.   *)
HistoryIsLegal == LegalHistory(disk_audit)

(* RECORDS_TABLE holds exactly the records that AUDIT_TABLE says are live, *)
(* each under the owner that wrote it, although save_impl replaces the two *)
(* tables wholesale from the memory of whichever session saves.            *)
RecordsMatchHistory == OwnersMatch(OwnerMap(disk_records), disk_audit)

(* Whatever interleaving, failure or crash left the file as it is, the     *)
(* next open in the file's own mode succeeds (load_impl finds nothing to   *)
(* refuse), and a file without a checkpoint opens in any mode.             *)
FileReopens ==
    \A mode \in Modes :
        (checkpoint = Absent \/ CheckpointMode(checkpoint) = mode)
            => LoadAccepts(mode, checkpoint, disk_records, disk_audit)

(* An answer that waited for its save is backed by its own audit entry, at *)
(* its place in the durable log, from then on: neither a stale session's   *)
(* save nor a crash takes it away.                                         *)
RepliesAreDurable ==
    \A r \in replies : r.saved =>
        /\ r.index \in 1..Len(disk_audit)
        /\ disk_audit[r.index] = r.entry

(* No step shortens or rewrites the durable audit log.                     *)
AuditAppendOnly == [][Extends(disk_audit', disk_audit)]_vars

(* A legacy database never becomes authenticated or the reverse, and an    *)
(* authenticated one never passes to another secret, whoever opens it.     *)
ModeIsFixed ==
    [][checkpoint # Absent =>
         /\ checkpoint' # Absent
         /\ CheckpointMode(checkpoint') = CheckpointMode(checkpoint)]_vars

(* The file implements the abstract audited store.                         *)
Abstract == INSTANCE AuditedStore
                WITH history <- HistoryOf(disk_audit),
                     owners  <- OwnerMap(disk_records)

AbstractSpec == Abstract!Spec

-----------------------------------------------------------------------------
(* The inductive invariant behind the properties above.                    *)

(* The checkpoint is the one a save of the stored tables writes.           *)
CheckpointIsCurrent ==
    IF checkpoint = Absent
    THEN disk_audit = <<>> /\ disk_records = NoRecords
    ELSE checkpoint = NewCheckpoint(CheckpointMode(checkpoint),
                                    disk_records, disk_audit)

(* What a session's memory is good for at each place.                      *)
SessionInv(s) ==
    /\ Consistent(records[s], audit_log[s])
    /\ pc[s] # "closed" => owner_id[s] \in Owners
    /\ pc[s] \in {"saving", "replying"} =>
           request[s] \in Request /\ request[s].index <= Len(audit_log[s])
    /\ pc[s] = "replying" => Extends(disk_audit, audit_log[s])

IInv ==
    /\ TypeOK
    /\ Consistent(disk_records, disk_audit)
    /\ CheckpointIsCurrent
    /\ \A s \in Sessions : SessionInv(s)
    /\ RepliesAreDurable

-----------------------------------------------------------------------------
(* Properties of one session at a time (a server's lock around connect,    *)
(* execute and drop); two servers on one file break them.                  *)

(* No Write or Delete of the id of entry i lies between i and n.           *)
Undisturbed(log, i, n) ==
    \A j \in (i+1)..n : log[j].record_id = log[i].record_id
                            => log[j].action \notin {"Write", "Delete"}

(* Of the writes of an id, one is acknowledged per lifetime of the record: *)
(* while it is not deleted, the stored record is the acknowledged one.     *)
TakenIdIsRefused ==
    \A r \in replies :
        (r.entry.action = "Write" /\ Undisturbed(disk_audit, r.index,
                                                  Len(disk_audit)))
            => disk_records[r.entry.record_id] = r.record

(* A granted read returns what the acknowledged write before it wrote.     *)
ReadsSeeAcknowledgedWrite ==
    \A r, w \in replies :
        (/\ r.saved
         /\ r.entry.action = "ReadGranted"
         /\ w.entry.action = "Write"
         /\ w.entry.record_id = r.entry.record_id
         /\ w.index < r.index
         /\ Undisturbed(disk_audit, w.index, r.index))
            => r.record = w.record

(* Every saved answer has an audit entry of its own.                       *)
OneEntryPerReply ==
    \A r, q \in replies :
        (r.saved /\ q.saved /\ r.index = q.index) => r = q

(* Every answered read, AUTO EMBED's included, is in the durable log once  *)
(* the session that answered it is gone.                                   *)
ReadsAreRecorded ==
    \A r \in replies :
        (pc[r.session] = "closed" /\ r.entry.action # "Write")
            => r.index <= Len(disk_audit) /\ disk_audit[r.index] = r.entry
=============================================================================
