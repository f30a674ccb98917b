----------------------------- MODULE AuditChain -----------------------------
(***************************************************************************)
(* The pure core of src/lib.rs: records, the audit hash chain, the audit   *)
(* checkpoint in its legacy and authenticated forms, and the classification *)
(* that decides whether a stored database may be opened.                   *)
(*                                                                         *)
(* Cryptography is modelled by the terms it is applied to: a digest or a   *)
(* MAC is equal to another exactly when all its inputs are.  SHA-256 of an *)
(* entry is the sequence of entry bodies it transitively commits to, so    *)
(* the all-zero genesis hash is the empty sequence.                        *)
(***************************************************************************)
EXTENDS AuditHistory

CONSTANTS
    Tiers,     \* the tiers in use, a subset of DataTier
    Payloads,  \* plaintexts; encryption under the owner's key is not modelled
    Secrets    \* store secrets of authenticated databases

DataTier == {"Critical", "Personal", "Noise"}

ASSUME TiersAssumption == Tiers \subseteq DataTier

Record == [tier : Tiers, owner_id : Owners, payload : Payloads,
           created_at : Times]

(* A HashMap<String, Record>: every id has a record or is Absent.          *)
RecordMap == [Ids -> Record \cup {Absent}]

ASSUME AbsentRecordAssumption == Absent \notin Record

NoRecords == [id \in Ids |-> Absent]

OwnerMap(recs) ==
    [id \in Ids |-> IF recs[id] = Absent THEN Absent ELSE recs[id].owner_id]

(* Record::is_readable_by *)
is_readable_by(rec, requester) ==
    rec.tier = "Noise" \/ rec.owner_id = requester

-----------------------------------------------------------------------------
(* The hash chain.                                                         *)

Hash == Seq(AuditBody)
ZeroHash == <<>>

AuditEntry == [record_id    : Ids,
               requester_id : Owners,
               action       : AuditAction,
               timestamp    : Times,
               prev_hash    : Hash,
               entry_hash   : Hash]

audit_hash_input(e) ==
    [record_id |-> e.record_id, requester_id |-> e.requester_id,
     action |-> e.action, timestamp |-> e.timestamp]

audit_digest(prev, body) == Append(prev, body)

calculate_hash(e) == audit_digest(e.prev_hash, audit_hash_input(e))

NewAuditEntry(id, requester, action, t, prev) ==
    LET body == [record_id |-> id, requester_id |-> requester,
                 action |-> action, timestamp |-> t]
    IN  [record_id |-> id, requester_id |-> requester, action |-> action,
         timestamp |-> t, prev_hash |-> prev,
         entry_hash |-> audit_digest(prev, body)]

last_chain_hash(log) ==
    IF log = <<>> THEN ZeroHash ELSE log[Len(log)].entry_hash

append_audit(log, id, requester, action, t) ==
    Append(log, NewAuditEntry(id, requester, action, t, last_chain_hash(log)))

verify_audit_entries(log) ==
    \A i \in 1..Len(log) :
        /\ log[i].prev_hash = IF i = 1 THEN ZeroHash ELSE log[i-1].entry_hash
        /\ log[i].entry_hash = calculate_hash(log[i])

\* Mutants: the length test alone, and the entry comparison alone (zip).
prefix_by_length(persisted, candidate) == Len(persisted) <= Len(candidate)
prefix_by_zip(persisted, candidate) ==
    \A i \in 1..Len(persisted) :
        i <= Len(candidate) => persisted[i] = candidate[i]

audit_history_is_prefix(persisted, candidate) ==
    /\ Len(persisted) <= Len(candidate)
    /\ \A i \in 1..Len(persisted) : persisted[i] = candidate[i]

(* A set of records and a log that belong together.                        *)
Consistent(recs, log) ==
    /\ verify_audit_entries(log)
    /\ LegalHistory(log)
    /\ OwnersMatch(OwnerMap(recs), log)

(* The history a chain carries, without its hashes.                        *)
HistoryOf(log) == [i \in 1..Len(log) |-> audit_hash_input(log[i])]

-----------------------------------------------------------------------------
(* The audit checkpoint.  A database is in Legacy mode or belongs to one   *)
(* store secret; a checkpoint without a MAC is a legacy two-field one.     *)

Legacy == Absent
Modes == Secrets \cup {Legacy}

Commitment == [Ids -> Times \cup {Absent}]

record_created_at_commitment(recs) ==
    [id \in Ids |-> IF recs[id] = Absent THEN Absent ELSE recs[id].created_at]

Mac == [key : Secrets, count : Nat, head : Hash, commitment : Commitment]

checkpoint_mac(secret, count, head, commitment) ==
    [key |-> secret, count |-> count, head |-> head, commitment |-> commitment]

Checkpoint == [expected_count : Nat, expected_head : Hash,
               record_created_at_commitment : Commitment \cup {Absent},
               mac : Mac \cup {Absent}]

ASSUME AbsentTermAssumption == /\ Absent \notin Secrets
                               /\ Absent \notin Mac
                               /\ Absent \notin Checkpoint

(* What save_impl, and load_impl on a Genesis database, write.             *)
NewCheckpoint(mode, recs, log) ==
    LET head == last_chain_hash(log)
        com  == record_created_at_commitment(recs)
    IN  [expected_count |-> Len(log),
         expected_head  |-> head,
         record_created_at_commitment |->
             IF mode = Legacy THEN Absent ELSE com,
         mac |-> IF mode = Legacy THEN Absent
                 ELSE checkpoint_mac(mode, Len(log), head, com)]

validate_audit_checkpoint(cp, log) ==
    /\ cp.expected_count = Len(log)
    /\ cp.expected_head = last_chain_hash(log)

\* Mutant: unknown and missing checkpoint fields are ignored.
parses_leniently(mode, cp) == TRUE

(* The mode a database with this checkpoint is in.                         *)
CheckpointMode(cp) == IF cp.mac = Absent THEN Legacy ELSE cp.mac.key

(* deny_unknown_fields: the legacy parser refuses an authenticated         *)
(* checkpoint, and the authenticated parser misses fields in a legacy one. *)
CheckpointParses(mode, cp) == (mode = Legacy) <=> (cp.mac = Absent)

verify_authenticated_audit_checkpoint(cp, secret) ==
    cp.mac = checkpoint_mac(secret, cp.expected_count, cp.expected_head,
                            cp.record_created_at_commitment)

(* classify_checkpoint_state and classify_authenticated_checkpoint_state;  *)
(* every failure reason reaches the caller as AuditChainBroken.            *)
classify_checkpoint_state(mode, cp, recs, log) ==
    IF cp = Absent
    THEN IF log = <<>> /\ recs = NoRecords THEN "Genesis" ELSE "Broken"
    ELSE IF /\ CheckpointParses(mode, cp)
            /\ mode # Legacy =>
                  /\ verify_authenticated_audit_checkpoint(cp, mode)
                  /\ cp.record_created_at_commitment =
                         record_created_at_commitment(recs)
            /\ validate_audit_checkpoint(cp, log)
            /\ log = <<>> => recs = NoRecords
         THEN "Existing"
         ELSE "Broken"

-----------------------------------------------------------------------------
(* PersistedRecord::into_validated_record, for the field a record built by *)
(* the program can fail on: it refuses created_at = 0.                     *)
into_validated_record(rec) == rec # Absent => rec.created_at # 0

RecordsValid(recs) == \A id \in Ids : into_validated_record(recs[id])

(* load_impl accepts the tables in this mode.                              *)
LoadAccepts(mode, cp, recs, log) ==
    /\ RecordsValid(recs)
    /\ verify_audit_entries(log)
    /\ classify_checkpoint_state(mode, cp, recs, log) # "Broken"

(* save_impl accepts candidate over the tables it finds.                   *)
SaveAccepts(mode, cp, recs, log, candidate) ==
    /\ verify_audit_entries(candidate)
    /\ verify_audit_entries(log)
    /\ mode # Legacy => RecordsValid(recs)
    /\ classify_checkpoint_state(mode, cp, recs, log) # "Broken"
    /\ audit_history_is_prefix(log, candidate)
=============================================================================
