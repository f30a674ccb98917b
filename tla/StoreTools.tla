----------------------------- MODULE StoreTools ------------------------------
(***************************************************************************)
(* The tools at work: a store is written, read and deleted from while its  *)
(* compliance reports are drawn, then its records are exported, the file   *)
(* may lose its last lines, is transformed, and is imported elsewhere.     *)
(***************************************************************************)
EXTENDS Migration, SequencesExt

CONSTANTS
    Exports,        \* ExportOptions in use
    Transforms,     \* TransformOptions in use
    Policies,       \* RetentionPolicies in use
    Thresholds,     \* audit gap thresholds in use
    Moments,        \* what the clock may read when a report is drawn
    MaxLog,         \* bound: audit entries of the store
    MaxExportLog,   \* bound: audit entries of a store that is exported
    MaxTransforms   \* bound: transformations of one file

(* What a record of a store looks like in a list.                          *)
Listed == [id : Ids, tier : Tiers, owner_id : Owners, created_at : Times,
           payload : [text : Payloads, id : Ids, tier : Tiers]]

ASSUME ToolsAssumption ==
    /\ Policies \subseteq RetentionPolicy
    /\ Thresholds \cup Moments \subseteq Nat
    /\ {MaxLog, MaxExportLog, MaxTransforms} \subseteq Nat
    /\ Absent \notin Seq(Listed)

VARIABLES
    records,    \* Store.records
    audit_log,  \* Store.audit_log
    births,     \* history: the first reading of the clock in the statement
                \* that logged an entry; a write gives it to its record
    source,     \* what was exported, or Absent before the export
    lines,      \* the records of the .edm file
    touched,    \* transformations so far
    outcome     \* the import that was made, or Absent

store == <<records, audit_log, births>>
file == <<source, lines, touched>>
vars == <<store, file, outcome>>

(* The records of the store, and one of the orders in which its HashMap    *)
(* may list them: the reports are the same for all orders.                 *)
Live == {from_record(records, id) : id \in {i \in Ids : records[i] # Absent}}
Listing == SetToSeq(Live)

ToolsOK ==
    /\ records \in RecordMap
    /\ audit_log \in Seq(AuditEntry)
    /\ births \in Seq(Times) /\ Len(births) = Len(audit_log)
    /\ Consistent(records, audit_log)
    /\ touched \in 0..MaxTransforms
    /\ source = Absent => lines = <<>> /\ outcome = Absent

Init ==
    /\ records = NoRecords
    /\ audit_log = <<>>
    /\ births = <<>>
    /\ source = Absent
    /\ lines = <<>>
    /\ touched = 0
    /\ outcome = Absent

-----------------------------------------------------------------------------
(* The store, until its export.  now_secs() is the wall clock, so each     *)
(* reading may be any time, later or earlier than the one before; a write  *)
(* reads it twice, for the record and for the audit entry.                 *)

InUse == source = Absent /\ Len(audit_log) < MaxLog

Log(id, o, action, first, t) ==
    /\ audit_log' = append_audit(audit_log, id, o, action, t)
    /\ births' = Append(births, first)

Write(id, o, tier, payload, created_at, t) ==
    /\ InUse
    /\ records[id] = Absent
    /\ Log(id, o, "Write", created_at, t)
    /\ records' = [records EXCEPT ![id] =
           [tier |-> tier, owner_id |-> o, payload |-> payload,
            created_at |-> created_at]]
    /\ UNCHANGED <<file, outcome>>

Read(id, o, t) ==
    /\ InUse
    /\ records[id] # Absent
    /\ Log(id, o, IF is_readable_by(records[id], o)
                  THEN "ReadGranted" ELSE "ReadDenied", t, t)
    /\ UNCHANGED <<records, file, outcome>>

\* Mutant: the record goes, its audit entry is never written.
DeleteUnlogged(id, o, t) ==
    /\ InUse
    /\ records[id] # Absent
    /\ records[id].owner_id = o
    /\ records' = [records EXCEPT ![id] = Absent]
    /\ UNCHANGED <<audit_log, births, file, outcome>>

Delete(id, o, t) ==
    /\ InUse
    /\ records[id] # Absent
    /\ records[id].owner_id = o
    /\ Log(id, o, "Delete", t, t)
    /\ records' = [records EXCEPT ![id] = Absent]
    /\ UNCHANGED <<file, outcome>>

-----------------------------------------------------------------------------
(* The migration.                                                          *)

Export(listing, opts) ==
    /\ source = Absent
    /\ Len(audit_log) <= MaxExportLog
    /\ source' = export(listing, opts)
    /\ lines' = source'
    /\ UNCHANGED <<store, touched, outcome>>

(* The copy of the file that is imported ends early, between two lines.    *)
LoseLastLine ==
    /\ outcome = Absent
    /\ lines # <<>>
    /\ lines' = Front(lines)
    /\ UNCHANGED <<store, source, touched, outcome>>

Transform(opts) ==
    /\ source # Absent
    /\ outcome = Absent
    /\ touched < MaxTransforms
    /\ lines' = transform(lines, opts)
    /\ touched' = touched + 1
    /\ UNCHANGED <<store, source, outcome>>

Import(existing, strategy) ==
    /\ source # Absent
    /\ outcome = Absent
    /\ outcome' = [result |-> import(lines, existing, strategy),
                   existing |-> existing, strategy |-> strategy]
    /\ UNCHANGED <<store, file>>

Next ==
    \/ \E id \in Ids, o \in Owners, t \in Times :
           \/ \E tier \in Tiers, payload \in Payloads, created_at \in Times :
                  Write(id, o, tier, payload, created_at, t)
           \/ Read(id, o, t)
           \/ Delete(id, o, t)
    \/ \E listing \in SetToSeqs(Live), opts \in Exports :
           Export(listing, opts)
    \/ LoseLastLine
    \/ \E opts \in Transforms : Transform(opts)
    \/ \E existing \in SUBSET Ids, strategy \in Strategies :
           Import(existing, strategy)

Spec == Init /\ [][Next]_vars

-----------------------------------------------------------------------------
(* Properties.  The reports are looked at until the export: the store      *)
(* does not change after it.                                               *)

(* The reports tell, from two independent sources, the same story: the     *)
(* records counted by tier and by owner are the writes less the deletes of *)
(* the audit summary, the erasure report of an owner names exactly the ids *)
(* the log leaves alive under that owner, and the summary's first and last *)
(* time are the least and the greatest of its entries, in whatever order   *)
(* the clock gave them.                                                    *)
ReportsAgree == source = Absent =>
    \A policy \in Policies, threshold \in Thresholds, now \in Moments :
        LET r == generate_report(Listing, audit_log, policy, now, threshold)
            s == r.audit_summary
            times == {audit_log[i].timestamp : i \in DOMAIN audit_log}
        IN  /\ s.count["Write"] - s.count["Delete"] = Len(Listing)
            /\ r.tier_summary["Critical"] + r.tier_summary["Personal"]
                   + r.tier_summary["Noise"] = Len(Listing)
            /\ \A o \in Owners :
                  LET erasable == erasure_report(Listing, audit_log, o)
                                      .erasable_ids
                  IN  /\ erasable = {id \in Ids :
                                LiveBy(audit_log, Len(audit_log), id, o)}
                      /\ r.owner_record_counts[o] = Cardinality(erasable)
            /\ audit_log # <<>> =>
                  /\ {s.earliest_timestamp, s.latest_timestamp} \subseteq times
                  /\ \A t \in times : /\ s.earliest_timestamp <= t
                                       /\ t <= s.latest_timestamp

(* Entry i is a Write that no later Delete undoes.                         *)
Standing(log, i) ==
    /\ log[i].action = "Write"
    /\ \A j \in DOMAIN log :
          j > i /\ log[j].record_id = log[i].record_id
              => log[j].action # "Delete"

(* A store is reported non-compliant exactly when a record whose write     *)
(* stands in the audit log has been held longer than the policy of its     *)
(* tier allows, going by the clock when it was made, or the log was silent *)
(* for too long.                                                           *)
ReportsAreJust == source = Absent =>
    \A policy \in Policies, threshold \in Thresholds, now \in Moments :
        generate_report(Listing, audit_log, policy, now, threshold)
            .is_compliant
        <=> /\ \A i \in DOMAIN audit_log :
                  Standing(audit_log, i) =>
                     LET limit == policy[records[audit_log[i].record_id].tier]
                     IN  limit = 0 \/ now <= births[i] + limit
            /\ threshold = 0 \/ \A i \in 2..Len(audit_log) :
                  audit_log[i].timestamp
                      <= audit_log[i-1].timestamp + threshold

(* Every line of the file is accounted for, and under Skip and Error no    *)
(* id that the target has is imported over.                                *)
ImportAccountsForAll ==
    outcome # Absent =>
        LET r == outcome.result IN
        /\ r.imported + r.skipped + r.errors = Len(lines)
        /\ r.imported = Len(r.records)
        /\ outcome.strategy # "Overwrite" =>
              \A i \in DOMAIN r.records :
                  r.records[i].id \notin outcome.existing

Verified == /\ outcome # Absent
            /\ verify_manifests(build_manifest(source),
                                build_manifest(outcome.result.records))

(* When the manifests agree, the import has every exported id exactly once *)
(* and no compliance report finds a duplicate, whatever lines were lost,   *)
(* ids made equal by a transformation, or conflicts skipped; and if no     *)
(* transformation was made the records are the exported ones.              *)
VerifiedLosesNothing ==
    Verified =>
        LET out == outcome.result.records IN
        /\ {out[i].id : i \in DOMAIN out} = {source[i].id : i \in DOMAIN source}
        /\ \A i \in DOMAIN out : ~Duplicate(out, i)
        /\ touched = 0 => out = source

(* What lib.rs says of a record's id and tier: they "cannot be changed     *)
(* independently of the encrypted payload".  So the records of a verified  *)
(* migration can all be decrypted.                                         *)
VerifiedOpens ==
    Verified => \A i \in DOMAIN outcome.result.records :
                    decrypts(outcome.result.records[i])

-----------------------------------------------------------------------------
(* The inductive invariant behind these properties.                        *)

(* The record of a standing write is there, as old as the write.           *)
StampedByLog ==
    \A i \in DOMAIN audit_log :
        LET r == records[audit_log[i].record_id]
        IN  Standing(audit_log, i) => r # Absent /\ r.created_at = births[i]

(* As many records as writes without deletes.                              *)
Logged(log, action) == {i \in DOMAIN log : log[i].action = action}

Tallied ==
    /\ IsFiniteSet(Live)
    /\ Cardinality(Logged(audit_log, "Write"))
           = Cardinality(Live) + Cardinality(Logged(audit_log, "Delete"))

(* The export names no id twice, and until a transformation the file is    *)
(* the beginning of it.                                                    *)
Exported ==
    source # Absent =>
        /\ source \in Seq(Listed)
        /\ \A i, j \in DOMAIN source : source[i].id = source[j].id => i = j
        /\ touched = 0 => /\ Len(lines) <= Len(source)
                          /\ lines = SubSeq(source, 1, Len(lines))

(* The outcome is that of importing the lines, which stay what they were.  *)
Imported ==
    /\ lines \in Seq({lines[i] : i \in DOMAIN lines})
    /\ outcome # Absent => outcome.result =
           import(lines, outcome.existing, outcome.strategy)

ToolsIInv == /\ ToolsOK /\ StampedByLog /\ Tallied
             /\ Exported /\ Imported
=============================================================================
