----------------------------- MODULE Compliance -----------------------------
(***************************************************************************)
(* The reports of compliance.rs, as operators over a list of records, a    *)
(* list of audit entries and a clock.  A listed record carries its id;     *)
(* nothing keeps a list from naming one id twice.  Wording is left out.    *)
(***************************************************************************)
EXTENDS AuditChain, FiniteSets

(* u64::saturating_sub *)
Monus(a, b) == IF a > b THEN a - b ELSE 0

Count(seq, Test(_)) == Cardinality({i \in DOMAIN seq : Test(seq[i])})

(* RetentionPolicy: a maximum age for each tier, 0 for none.               *)
RetentionPolicy == [DataTier -> Nat]

\* Mutant: a record is kept one second longer than the policy says.
is_expired_late(policy, r, now) ==
    policy[r.tier] # 0 /\ Monus(now, r.created_at) > policy[r.tier] + 1

is_expired(policy, r, now) ==
    policy[r.tier] # 0 /\ Monus(now, r.created_at) > policy[r.tier]

(* TierSummary::from_records; its total is the number of records.          *)
tier_summary(rs) == [tier \in DataTier |-> Count(rs, LAMBDA r : r.tier = tier)]

(* The first timestamp, as from_entries folds it: 0 means none seen yet.   *)
earliest_timestamp(es) ==
    LET earliest[n \in 0..Len(es)] ==
            IF n = 0 THEN 0
            ELSE IF earliest[n-1] = 0 \/ es[n].timestamp < earliest[n-1]
                 THEN es[n].timestamp ELSE earliest[n-1]
    IN  earliest[Len(es)]

latest_timestamp(es) ==
    LET times == {es[i].timestamp : i \in DOMAIN es} \cup {0}
    IN  CHOOSE t \in times : \A u \in times : u <= t

(* AuditSummary::from_entries *)
audit_summary(es) ==
    [total_entries |-> Len(es),
     count |-> [action \in AuditAction |->
                   Count(es, LAMBDA e : e.action = action)],
     unique_requesters |->
         Cardinality({es[i].requester_id : i \in DOMAIN es}),
     earliest_timestamp |-> earliest_timestamp(es),
     latest_timestamp   |-> latest_timestamp(es)]

\* Mutant: records that anyone may read are erased with the owner's.
erasure_by_readability(rs, es, owner) ==
    [erasable_ids |-> {rs[i].id : i \in {j \in DOMAIN rs :
                                         rs[j].tier = "Noise"
                                         \/ rs[j].owner_id = owner}},
     audit_entries_found |-> Count(es, LAMBDA e : e.requester_id = owner)]

(* erasure_report: what erasing the owner would affect.                    *)
erasure_report(rs, es, owner) ==
    [erasable_ids |-> {rs[i].id : i \in {j \in DOMAIN rs :
                                         rs[j].owner_id = owner}},
     audit_entries_found |-> Count(es, LAMBDA e : e.requester_id = owner)]

(* The violations generate_report collects, each with where it found it.   *)
(* A gap is between neighbours in the log; a threshold of 0 turns it off.  *)
(* The check for a missing owner fires for no record that was built by     *)
(* Record::new or a reconstruction, which refuse an empty owner.           *)
Duplicate(rs, i) == \E j \in 1..(i-1) : rs[j].id = rs[i].id

Gap(es, i, threshold) ==
    threshold > 0 /\ Monus(es[i+1].timestamp, es[i].timestamp) > threshold

violations(rs, es, policy, now, threshold) ==
    {<<"RetentionExpired", i>> :
        i \in {j \in DOMAIN rs : is_expired(policy, rs[j], now)}}
    \cup {<<"DuplicateRecordId", i>> :
        i \in {j \in DOMAIN rs : Duplicate(rs, j)}}
    \cup {<<"AuditGap", i>> :
        i \in {j \in 1..(Len(es) - 1) : Gap(es, j, threshold)}}

(* generate_report *)
generate_report(rs, es, policy, now, threshold) ==
    LET found == violations(rs, es, policy, now, threshold)
    IN  [tier_summary  |-> tier_summary(rs),
         audit_summary |-> audit_summary(es),
         owner_record_counts |->
             [o \in Owners |-> Count(rs, LAMBDA r : r.owner_id = o)],
         violations    |-> found,
         is_compliant  |-> found = {}]
=============================================================================
