------------------------------ MODULE FjallStore -----------------------------
(***************************************************************************)
(* FjallBackend (src/backends/fjall.rs): the other storage engine.  Where  *)
(* the redb backend rewrites the whole file at each save, this one changes *)
(* the database by one atomic batch per operation and keeps, next to it,   *)
(* cached copies of the length and the tail of the audit chain and of the  *)
(* commitment to the records' timestamps.  save() does nothing.            *)
(*                                                                         *)
(* Fjall itself is external.  It locks its directory, so one session is    *)
(* open at a time; it appends every batch to a journal and replays the     *)
(* journal when it opens.  A database is therefore represented by the      *)
(* tables after each batch: a process crash loses none of them, a power    *)
(* loss may lose those that Fjall has not synced yet.  A commit that       *)
(* fails may or may not have reached the journal; Fjall then refuses       *)
(* further commits (it is poisoned) until it is opened again.              *)
(***************************************************************************)
EXTENDS AuditChain, FiniteSets

CONSTANTS
    MaxLog,     \* bound: no operation starts after this many audit entries
    MaxReplies  \* bound: no operation starts after this many answers

ASSUME BoundsAssumption == MaxLog \in Nat /\ MaxReplies \in Nat

VARIABLES
    journal,      \* the tables after each batch, the newest last
    synced,       \* how many of them are safe from a power loss
    in_doubt,     \* what a failed commit would have made of the tables
    owner_id,     \* EqlExecutor.owner_id, Absent when no session is open
    checkpoint_auth, \* FjallBackend.checkpoint_auth (Legacy for None)
    audit_len, audit_tail, commitment, \* the cached fields of FjallBackend
    replies       \* history variable: the answers sent so far, without those
                  \* whose batch a power loss has taken

handle == <<owner_id, checkpoint_auth, audit_len, audit_tail, commitment>>
vars == <<journal, synced, in_doubt, handle, replies>>

(* The three record keyspaces, the audit one and the checkpoint one.       *)
Tables == [keyspaces  : [Tiers -> RecordMap],
           audit      : Seq(AuditEntry),
           checkpoint : Checkpoint \cup {Absent}]

NoTables == [keyspaces  |-> [tier \in Tiers |-> NoRecords],
             audit      |-> <<>>,
             checkpoint |-> Absent]

db == journal[Len(journal)]

Reply == [batch : Nat, index : Nat, entry : AuditEntry,
          record : Record \cup {Absent}]

IsOpen == owner_id # Absent

(* No entry may be appended any more: a commit of this handle has failed.  *)
Poisoned == in_doubt # Absent

TypeOK ==
    /\ journal \in Seq(Tables) /\ journal # <<>>
    /\ synced \in 1..Len(journal)
    /\ in_doubt \in Tables \cup {Absent}
    /\ owner_id \in Owners \cup {Absent}
    /\ checkpoint_auth \in Modes
    /\ audit_len \in Nat
    /\ audit_tail \in Hash
    /\ commitment \in Commitment
    /\ replies \subseteq Reply

Init ==
    /\ journal = <<NoTables>>
    /\ synced = 1
    /\ in_doubt = Absent
    /\ owner_id = Absent
    /\ checkpoint_auth = Legacy
    /\ audit_len = 0
    /\ audit_tail = ZeroHash
    /\ commitment = record_created_at_commitment(NoRecords)
    /\ replies = {}

-----------------------------------------------------------------------------
(* Reading the tables.                                                     *)

(* The keyspaces id is found in; validate_persisted_record_metadata wants  *)
(* at most one.                                                            *)
TiersOf(tables, id) == {tier \in Tiers : tables.keyspaces[tier][id] # Absent}

(* get(id) tries the keyspaces in the order Critical, Personal, Noise.     *)
Before(tier) == CASE tier = "Critical" -> {}
                  [] tier = "Personal" -> {"Critical"}
                  [] tier = "Noise"    -> {"Critical", "Personal"}

FirstTier(tables, id) ==
    CHOOSE tier \in TiersOf(tables, id) :
        Before(tier) \cap TiersOf(tables, id) = {}

Lookup(tables, id) ==
    IF TiersOf(tables, id) = {} THEN Absent
    ELSE tables.keyspaces[FirstTier(tables, id)][id]

StoredRecords(tables) == [id \in Ids |-> Lookup(tables, id)]

(* validated_record_created_at_entries returns without an error.           *)
RecordEntriesValid(tables) ==
    /\ \A id \in Ids : Cardinality(TiersOf(tables, id)) <= 1
    /\ \A tier \in Tiers, id \in Ids :
          LET rec == tables.keyspaces[tier][id] IN
          into_validated_record(rec) /\ (rec # Absent => rec.tier = tier)

(* open_impl accepts these tables in this mode.                            *)
OpenAccepts(mode, tables) ==
    /\ RecordEntriesValid(tables)
    /\ LoadAccepts(mode, tables.checkpoint, StoredRecords(tables),
                   tables.audit)

(* ensure_authenticated_record_commitment_current                          *)
CommitmentCurrent ==
    checkpoint_auth # Legacy =>
        /\ RecordEntriesValid(db)
        /\ record_created_at_commitment(StoredRecords(db)) = commitment

-----------------------------------------------------------------------------
(* Opening, closing, crashing.                                             *)

(* The batch of a Genesis open is the checkpoint alone.                    *)
Genesis(mode, tables) ==
    [tables EXCEPT !.checkpoint =
        NewCheckpoint(mode, StoredRecords(tables), tables.audit)]

(* Replaying the journal finds the batch in doubt, or does not.            *)
Recovered == {journal} \cup
             (IF Poisoned THEN {Append(journal, in_doubt)} ELSE {})

(* open_impl once the tables are accepted: the caches are filled from them. *)
Attach(o, mode, tables) ==
    /\ owner_id' = o
    /\ checkpoint_auth' = mode
    /\ audit_len' = Len(tables.audit)
    /\ audit_tail' = last_chain_hash(tables.audit)
    /\ commitment' = record_created_at_commitment(StoredRecords(tables))

Open(o, mode) ==
    /\ ~IsOpen
    /\ \E found \in Recovered :
         LET tables == found[Len(found)] IN
         \/ /\ OpenAccepts(mode, tables)
            /\ Attach(o, mode, tables)
            /\ journal' = IF tables.checkpoint = Absent
                          THEN Append(found, Genesis(mode, tables))
                          ELSE found
            /\ in_doubt' = Absent
         \/ /\ OpenAccepts(mode, tables)     \* the commit of Genesis fails
            /\ tables.checkpoint = Absent
            /\ journal' = found
            /\ in_doubt' = Genesis(mode, tables)
            /\ UNCHANGED handle
         \/ /\ ~OpenAccepts(mode, tables)
            /\ journal' = found
            /\ in_doubt' = Absent
            /\ UNCHANGED handle
    /\ UNCHANGED <<synced, replies>>

(* The handle is dropped, or its process dies.                             *)
Forget ==
    /\ owner_id' = Absent
    /\ checkpoint_auth' = Legacy
    /\ audit_len' = 0
    /\ audit_tail' = ZeroHash
    /\ commitment' = record_created_at_commitment(NoRecords)

CloseOrCrash ==
    /\ IsOpen
    /\ Forget
    /\ UNCHANGED <<journal, synced, in_doubt, replies>>

(* Fjall syncs the journal now and then, and when the database is dropped. *)
Sync ==
    /\ synced < Len(journal)
    /\ synced' = Len(journal)
    /\ UNCHANGED <<journal, in_doubt, handle, replies>>

LosePower ==
    /\ \E n \in synced..(Len(journal) - 1) :
           /\ journal' = SubSeq(journal, 1, n)
           /\ replies' = {r \in replies : r.batch <= n}
    /\ in_doubt' = Absent
    /\ Forget
    /\ UNCHANGED synced

-----------------------------------------------------------------------------
(* Operations.                                                             *)

Ready ==
    /\ IsOpen
    /\ ~Poisoned
    /\ Len(db.audit) < MaxLog
    /\ Cardinality(replies) < MaxReplies

(* What the caller learns: the record written or returned, or Absent.      *)
Answer(tables, rec) ==
    [batch |-> Len(journal) + 1,
     index |-> audit_len + 1, entry |-> tables.audit[audit_len + 1],
     record |-> rec]

\* Mutant: the error of the commit is dropped, its caller is answered.
CommitUnchecked(tables, com, rec) ==
    /\ audit_len' = audit_len + 1
    /\ audit_tail' = last_chain_hash(tables.audit)
    /\ commitment' = com
    /\ replies' = replies \cup {Answer(tables, rec)}
    /\ \/ journal' = Append(journal, tables) /\ UNCHANGED in_doubt
       \/ in_doubt' = tables /\ UNCHANGED journal
    /\ UNCHANGED <<synced, owner_id, checkpoint_auth>>

(* batch.commit()?, then the cached fields, then the answer.  When the     *)
(* commit fails nothing is visible in this session and the fields stay; a  *)
(* crash after the commit and before the answer leaves the same state.     *)
CommitBatch(tables, com, rec) ==
    \/ /\ journal' = Append(journal, tables)
       /\ audit_len' = audit_len + 1
       /\ audit_tail' = last_chain_hash(tables.audit)
       /\ commitment' = com
       /\ replies' = replies \cup {Answer(tables, rec)}
       /\ UNCHANGED <<synced, in_doubt, owner_id, checkpoint_auth>>
    \/ /\ in_doubt' = tables
       /\ UNCHANGED <<journal, synced, handle, replies>>

(* The audit entry goes to the key of index audit_len, whatever is there,  *)
(* and links to the cached tail.                                           *)
Appended(id, action, t) ==
    [i \in 1..(audit_len + 1) |->
        IF i <= audit_len THEN db.audit[i]
        ELSE NewAuditEntry(id, owner_id, action, t, audit_tail)]

checkpoint_bytes(log, com) ==
    LET head == last_chain_hash(log) IN
    [expected_count |-> audit_len + 1,
     expected_head  |-> head,
     record_created_at_commitment |->
         IF checkpoint_auth = Legacy THEN Absent ELSE com,
     mac |-> IF checkpoint_auth = Legacy THEN Absent
             ELSE checkpoint_mac(checkpoint_auth, audit_len + 1, head, com)]

\* Mutant: the batch of a write carries the checkpoint of the old records.
OldRecordsBatch(log, tier, id, rec) ==
    [keyspaces  |-> [db.keyspaces EXCEPT ![tier][id] = rec],
     audit      |-> log,
     checkpoint |-> checkpoint_bytes(log, commitment)]

(* What a write or a delete makes of the tables: entry, record, checkpoint. *)
RecordBatch(log, tier, id, rec) ==
    LET keyspaces == [db.keyspaces EXCEPT ![tier][id] = rec]
        com == record_created_at_commitment(
                   StoredRecords([db EXCEPT !.keyspaces = keyspaces]))
    IN  [keyspaces  |-> keyspaces,
         audit      |-> log,
         checkpoint |-> checkpoint_bytes(log, com)]

\* Mutant: only the keyspace of the record's own tier is asked.
FreeInItsTier(id, tier) == db.keyspaces[tier][id] = Absent

FreeId(id, tier) == TiersOf(db, id) = {}

(* FjallBackend::write                                                     *)
Write(id, tier, payload, created_at, t) ==
    LET rec == [tier |-> tier, owner_id |-> owner_id, payload |-> payload,
                created_at |-> created_at]
        tables == RecordBatch(Appended(id, "Write", t), tier, id, rec)
    IN  /\ Ready
        /\ CommitmentCurrent
        /\ FreeId(id, tier)
        /\ RecordEntriesValid(db)
        /\ CommitBatch(tables,
                       record_created_at_commitment(StoredRecords(tables)),
                       rec)

\* Mutant: both outcomes are logged as one action.
ReadActionMerged(rec) == "Read"
ReadAction(rec) ==
    IF is_readable_by(rec, owner_id) THEN "ReadGranted" ELSE "ReadDenied"

(* FjallBackend::read, with its append_audit; AUTO EMBED reads the same    *)
(* way.  The checkpoint takes the cached commitment, not a fresh one.      *)
Read(id, t) ==
    LET rec == Lookup(db, id)
        log == Appended(id, ReadAction(rec), t)
    IN  /\ Ready
        /\ CommitmentCurrent
        /\ rec # Absent
        /\ into_validated_record(rec)
        /\ CommitBatch([keyspaces  |-> db.keyspaces,
                        audit      |-> log,
                        checkpoint |-> checkpoint_bytes(log, commitment)],
                       commitment,
                       IF is_readable_by(rec, owner_id) THEN rec ELSE Absent)

\* Mutant: the deleted record stays in the commitment.
CommitmentAfterDeleteStale(tables) == commitment
CommitmentAfterDelete(tables) ==
    record_created_at_commitment(StoredRecords(tables))

\* Mutant: any record may be deleted by anyone.
OwnedByAnyone(rec) == rec # Absent
OwnedByRequester(rec) == rec.owner_id = owner_id

(* FjallBackend::delete                                                    *)
Delete(id, t) ==
    LET rec == Lookup(db, id)
        tables == RecordBatch(Appended(id, "Delete", t), FirstTier(db, id),
                              id, Absent)
    IN  /\ Ready
        /\ CommitmentCurrent
        /\ rec # Absent
        /\ into_validated_record(rec)
        /\ OwnedByRequester(rec)
        /\ RecordEntriesValid(db)
        /\ CommitBatch(tables, CommitmentAfterDelete(tables), Absent)

Next ==
    \/ \E o \in Owners, mode \in Modes : Open(o, mode)
    \/ CloseOrCrash
    \/ Sync
    \/ LosePower
    \/ \E id \in Ids, tier \in Tiers, payload \in Payloads,
          created_at \in Times, t \in Times :
             Write(id, tier, payload, created_at, t)
    \/ \E id \in Ids, t \in Times : Read(id, t) \/ Delete(id, t)

Spec == Init /\ [][Next]_vars

-----------------------------------------------------------------------------
(* Properties.                                                             *)

(* The tables the next open may find if the process dies now, and if the   *)
(* machine does.                                                           *)
AfterCrash == {found[Len(found)] : found \in Recovered}
Survivors == AfterCrash \cup {journal[n] : n \in synced..Len(journal)}

(* Whatever a crash, a failed commit or a power loss leaves, the database  *)
(* opens again in its own mode (any mode before its first checkpoint):     *)
(* entry, record and checkpoint of an operation are never seen apart, and  *)
(* no id is found in two keyspaces.                                        *)
SurvivorsReopen ==
    \A tables \in Survivors, mode \in Modes :
        (\/ tables.checkpoint = Absent
         \/ CheckpointMode(tables.checkpoint) = mode)
            => OpenAccepts(mode, tables)

(* And its record keyspaces are the ones its audit log accounts for, which *)
(* is a history that one careful store could have made.                    *)
SurvivorsMatchHistory ==
    \A tables \in Survivors :
        /\ LegalHistory(tables.audit)
        /\ OwnersMatch(OwnerMap(StoredRecords(tables)), tables.audit)

(* The cached fields of an open backend are what a scan of the keyspaces   *)
(* would compute, also after failed commits; in authenticated mode a stale *)
(* commitment would make every later operation fail.                       *)
CachesCurrent ==
    IsOpen => /\ audit_len = Len(db.audit)
              /\ audit_tail = last_chain_hash(db.audit)
              /\ commitment = record_created_at_commitment(StoredRecords(db))

(* Every answer (AUTO EMBED's too, unlike with redb) is backed by its own  *)
(* audit entry from then on, whatever commit fails and wherever a process  *)
(* dies; a power loss takes it only together with its batch.               *)
RepliesAreDurable ==
    \A r \in replies, tables \in AfterCrash :
        /\ r.index \in 1..Len(tables.audit)
        /\ tables.audit[r.index] = r.entry

(* The database implements the abstract store, power losses apart.         *)
Abstract == INSTANCE AuditedStore
                WITH history <- HistoryOf(db.audit),
                     owners  <- OwnerMap(StoredRecords(db))

AbstractSpec ==
    Abstract!Init /\ [][Abstract!Next \/ LosePower]_Abstract!storeVars

-----------------------------------------------------------------------------
(* The inductive invariant.                                                *)

(* Tables as one batch leaves them: an id in one keyspace, that of its     *)
(* tier; records, log and checkpoint of one piece.                         *)
OneTier(tables) ==
    \A id \in Ids, tier, other \in Tiers :
        /\ tables.keyspaces[tier][id] # Absent
        /\ tables.keyspaces[other][id] # Absent
        => tier = other

OwnTier(tables) ==
    \A id \in Ids, tier \in Tiers :
        LET rec == tables.keyspaces[tier][id] IN
        rec # Absent => rec.tier = tier

CheckpointFits(tables) ==
    IF tables.checkpoint = Absent
    THEN tables.audit = <<>>
    ELSE tables.checkpoint = NewCheckpoint(CheckpointMode(tables.checkpoint),
                                           StoredRecords(tables), tables.audit)

WellKept(tables) ==
    /\ OneTier(tables)
    /\ OwnTier(tables)
    /\ Consistent(StoredRecords(tables), tables.audit)
    /\ CheckpointFits(tables)

(* A journal of such tables, in which the log only grows.                  *)
JournalOK(found) ==
    /\ found # <<>>
    /\ \A n \in 1..Len(found) : WellKept(found[n])
    /\ \A m, n \in 1..Len(found) :
          m <= n => Extends(found[n].audit, found[m].audit)

RepliesIn(found) ==
    \A r \in replies :
        /\ r.batch \in 1..Len(found)
        /\ r.index \in 1..Len(found[r.batch].audit)
        /\ found[r.batch].audit[r.index] = r.entry

IInv ==
    /\ TypeOK
    /\ \A found \in Recovered : JournalOK(found)
    /\ RepliesIn(journal)
    /\ CachesCurrent
=============================================================================
