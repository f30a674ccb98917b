-------------------------- MODULE AuditChainProofs --------------------------
(***************************************************************************)
(* Lemmas about the operators of AuditHistory and AuditChain: what logging *)
(* one more entry preserves.  They are used by the proofs about every      *)
(* backend.  After them, lemmas about what a filter keeps of a sequence,   *)
(* for the proofs about the EQL parser and the tools.                      *)
(***************************************************************************)
EXTENDS AuditChain, Subsequence, FiniteSetTheorems, SequenceTheorems, TLAPS

(* Entries logged later do not change who owned an id earlier.             *)
LEMMA LiveByAppendEarlier ==
    ASSUME NEW S, NEW h \in Seq(S), NEW e \in S,
           NEW n \in 0..Len(h), NEW id, NEW o
    PROVE  LiveBy(Append(h, e), n, id, o) <=> LiveBy(h, n, id, o)
<1>1. \A i \in 1..n : Append(h, e)[i] = h[i]
  OBVIOUS
<1>2. QED
  BY <1>1 DEF LiveBy

(* A Write or Delete of id settles who owns it; any other entry leaves     *)
(* that as it was.                                                         *)
LEMMA LiveByAppendLast ==
    ASSUME NEW S, NEW h \in Seq(S), NEW e \in S, NEW id, NEW o
    PROVE  LiveBy(Append(h, e), Len(h) + 1, id, o) <=>
             IF e.record_id = id /\ e.action \in {"Write", "Delete"}
             THEN e.action = "Write" /\ e.requester_id = o
             ELSE LiveBy(h, Len(h), id, o)
<1> DEFINE g == Append(h, e)
           n == Len(h)
<1>1. n \in Nat /\ g[n + 1] = e /\ \A i \in 1..n : g[i] = h[i]
  OBVIOUS
<1> HIDE DEF g, n
<1>2. CASE e.record_id = id /\ e.action \in {"Write", "Delete"}
  <2>1. ASSUME LiveBy(g, n + 1, id, o)
        PROVE  e.action = "Write" /\ e.requester_id = o
    <3>1. PICK i \in 1..(n + 1) :
             /\ g[i].record_id = id
             /\ g[i].action = "Write"
             /\ g[i].requester_id = o
             /\ \A j \in (i+1)..(n + 1) :
                  g[j].record_id = id => g[j].action \notin {"Write", "Delete"}
      BY <2>1 DEF LiveBy
    <3>2. i = n + 1
      BY <1>1, <1>2, <3>1
    <3>3. QED
      BY <1>1, <3>1, <3>2
  <2>2. ASSUME e.action = "Write", e.requester_id = o
        PROVE  LiveBy(g, n + 1, id, o)
    BY <1>1, <1>2, <2>2 DEF LiveBy
  <2>3. QED
    BY <1>2, <2>1, <2>2 DEF g, n
<1>3. CASE ~(e.record_id = id /\ e.action \in {"Write", "Delete"})
  <2>1. ASSUME LiveBy(g, n + 1, id, o)
        PROVE  LiveBy(h, n, id, o)
    <3>1. PICK i \in 1..(n + 1) :
             /\ g[i].record_id = id
             /\ g[i].action = "Write"
             /\ g[i].requester_id = o
             /\ \A j \in (i+1)..(n + 1) :
                  g[j].record_id = id => g[j].action \notin {"Write", "Delete"}
      BY <2>1 DEF LiveBy
    <3>2. i \in 1..n
      BY <1>1, <1>3, <3>1
    <3>3. QED
      BY <1>1, <3>1, <3>2 DEF LiveBy
  <2>2. ASSUME LiveBy(h, n, id, o)
        PROVE  LiveBy(g, n + 1, id, o)
    <3>1. PICK i \in 1..n :
             /\ h[i].record_id = id
             /\ h[i].action = "Write"
             /\ h[i].requester_id = o
             /\ \A j \in (i+1)..n :
                  h[j].record_id = id => h[j].action \notin {"Write", "Delete"}
      BY <2>2 DEF LiveBy
    <3>2. \A j \in (i+1)..(n + 1) :
             g[j].record_id = id => g[j].action \notin {"Write", "Delete"}
      BY <1>1, <1>3, <3>1
    <3>3. QED
      BY <1>1, <3>1, <3>2 DEF LiveBy
  <2>3. QED
    BY <1>3, <2>1, <2>2 DEF g, n
<1>4. QED
  BY <1>2, <1>3

(* Logging an entry that the owner map allows keeps the history legal.     *)
LEMMA LegalHistoryAppend ==
    ASSUME NEW S, NEW h \in Seq(S), NEW e \in S,
           NEW owners \in [Ids -> Owners \cup {Absent}],
           LegalHistory(h), OwnersMatch(owners, h),
           e.record_id \in Ids,
           e.action = "Write" => owners[e.record_id] = Absent,
           e.action # "Write" => owners[e.record_id] # Absent,
           e.action = "Delete" => owners[e.record_id] = e.requester_id,
           e.action = "ReadDenied" => owners[e.record_id] # e.requester_id
    PROVE  LegalHistory(Append(h, e))
<1> DEFINE g == Append(h, e)
<1>1. /\ Len(h) \in Nat /\ Len(g) = Len(h) + 1
      /\ g[Len(h) + 1] = e /\ \A i \in 1..Len(h) : g[i] = h[i]
  OBVIOUS
<1>2. ASSUME NEW n \in 0..Len(h), NEW id, NEW o
      PROVE  LiveBy(g, n, id, o) <=> LiveBy(h, n, id, o)
  BY LiveByAppendEarlier
<1> HIDE DEF g
<1>3. ASSUME NEW i \in 1..Len(h)
      PROVE  LegalEntry(g, i)
  <2>1. LegalEntry(h, i)
    BY DEF LegalHistory
  <2>2. i - 1 \in 0..Len(h) /\ g[i] = h[i]
    BY <1>1
  <2>3. \A id, o : LiveBy(g, i - 1, id, o) <=> LiveBy(h, i - 1, id, o)
    BY <1>2, <2>2
  <2>4. QED
    BY <2>1, <2>2, <2>3 DEF LegalEntry
<1>4. LegalEntry(g, Len(h) + 1)
  <2>1. \A o \in Owners :
           LiveBy(g, Len(h), e.record_id, o) <=> owners[e.record_id] = o
    BY <1>1, <1>2 DEF OwnersMatch
  <2>2. Len(h) + 1 - 1 = Len(h)
    BY <1>1
  <2>3. CASE e.action = "Write"
    BY <1>1, <2>1, <2>2, <2>3, AbsentAssumption DEF LegalEntry
  <2>4. CASE e.action # "Write"
    <3>1. owners[e.record_id] \in Owners
      BY <2>4
    <3>2. QED
      BY <1>1, <2>1, <2>2, <2>4, <3>1 DEF LegalEntry
  <2>5. QED
    BY <2>3, <2>4
<1>5. QED
  BY <1>1, <1>3, <1>4 DEF LegalHistory, g

(* The owner map that goes with the longer history.                        *)
LEMMA OwnersMatchAppend ==
    ASSUME NEW S, NEW h \in Seq(S), NEW e \in S,
           NEW owners \in [Ids -> Owners \cup {Absent}],
           NEW owners2 \in [Ids -> Owners \cup {Absent}],
           OwnersMatch(owners, h),
           e.record_id \in Ids, e.requester_id \in Owners,
           \A id \in Ids \ {e.record_id} : owners2[id] = owners[id],
           owners2[e.record_id] =
               CASE e.action = "Write" -> e.requester_id
                 [] e.action = "Delete" -> Absent
                 [] OTHER -> owners[e.record_id]
    PROVE  OwnersMatch(owners2, Append(h, e))
<1>1. Len(Append(h, e)) = Len(h) + 1
  OBVIOUS
<1> SUFFICES ASSUME NEW id \in Ids, NEW o \in Owners
             PROVE  owners2[id] = o <=> LiveBy(Append(h, e), Len(h) + 1, id, o)
  BY <1>1 DEF OwnersMatch
<1>2. LiveBy(Append(h, e), Len(h) + 1, id, o) <=>
         IF e.record_id = id /\ e.action \in {"Write", "Delete"}
         THEN e.action = "Write" /\ e.requester_id = o
         ELSE LiveBy(h, Len(h), id, o)
  BY LiveByAppendLast
<1>3. owners[id] = o <=> LiveBy(h, Len(h), id, o)
  BY DEF OwnersMatch
<1>4. QED
  BY <1>2, <1>3, AbsentAssumption

-----------------------------------------------------------------------------
(* What append_audit makes of a log.                                       *)
LEMMA AppendAuditType ==
    ASSUME NEW log \in Seq(AuditEntry), NEW id \in Ids, NEW o \in Owners,
           NEW action \in AuditAction, NEW t \in Times
    PROVE  /\ last_chain_hash(log) \in Hash
           /\ NewAuditEntry(id, o, action, t, last_chain_hash(log))
                 \in AuditEntry
           /\ append_audit(log, id, o, action, t) \in Seq(AuditEntry)
           /\ Len(append_audit(log, id, o, action, t)) = Len(log) + 1
<1>1. last_chain_hash(log) \in Hash
  <2>1. ZeroHash \in Hash
    BY DEF ZeroHash, Hash
  <2>2. CASE log # <<>>
    <3>1. log[Len(log)] \in AuditEntry
      BY <2>2
    <3>2. QED
      BY <2>2, <3>1 DEF last_chain_hash, AuditEntry
  <2>3. QED
    BY <2>1, <2>2 DEF last_chain_hash
<1>2. NewAuditEntry(id, o, action, t, last_chain_hash(log)) \in AuditEntry
  <2> DEFINE body == [record_id |-> id, requester_id |-> o,
                      action |-> action, timestamp |-> t]
  <2>1. body \in AuditBody
    BY DEF AuditBody
  <2>2. Append(last_chain_hash(log), body) \in Hash
    BY <1>1, <2>1 DEF Hash
  <2>3. QED
    BY <1>1, <2>2 DEF NewAuditEntry, AuditEntry, audit_digest
<1>3. QED
  BY <1>1, <1>2 DEF append_audit

(* append_audit links the new entry to the chain.                          *)
LEMMA AppendAuditVerifies ==
    ASSUME NEW log \in Seq(AuditEntry), NEW id \in Ids, NEW o \in Owners,
           NEW action \in AuditAction, NEW t \in Times,
           verify_audit_entries(log)
    PROVE  verify_audit_entries(append_audit(log, id, o, action, t))
<1> DEFINE e == NewAuditEntry(id, o, action, t, last_chain_hash(log))
           g == append_audit(log, id, o, action, t)
<1>1. /\ Len(log) \in Nat /\ Len(g) = Len(log) + 1
      /\ g[Len(log) + 1] = e /\ \A i \in 1..Len(log) : g[i] = log[i]
  BY AppendAuditType DEF append_audit
<1>2. /\ e.prev_hash = last_chain_hash(log)
      /\ e.entry_hash = calculate_hash(e)
  BY DEF NewAuditEntry, calculate_hash, audit_hash_input
<1>3. last_chain_hash(log) = IF Len(log) + 1 = 1 THEN ZeroHash
                             ELSE g[Len(log) + 1 - 1].entry_hash
  BY <1>1 DEF last_chain_hash
<1> HIDE DEF e, g
<1>4. ASSUME NEW i \in 1..Len(log)
      PROVE  /\ g[i].prev_hash = IF i = 1 THEN ZeroHash
                                 ELSE g[i-1].entry_hash
             /\ g[i].entry_hash = calculate_hash(g[i])
  BY <1>1 DEF verify_audit_entries
<1>5. QED
  BY <1>1, <1>2, <1>3, <1>4 DEF verify_audit_entries, g

-----------------------------------------------------------------------------
(* A new database is consistent.                                           *)
LEMMA ConsistentEmpty == Consistent(NoRecords, <<>>)
<1>1. Len(<<>>) = 0
  OBVIOUS
<1>2. OwnersMatch(OwnerMap(NoRecords), <<>>)
  BY <1>1, AbsentAssumption DEF OwnersMatch, OwnerMap, NoRecords, LiveBy
<1>3. QED
  BY <1>1, <1>2 DEF Consistent, verify_audit_entries, LegalHistory

(* Owners of records are principals.                                       *)
LEMMA OwnerMapType ==
    ASSUME NEW recs \in RecordMap
    PROVE  /\ OwnerMap(recs) \in [Ids -> Owners \cup {Absent}]
           /\ \A id \in Ids : OwnerMap(recs)[id] = Absent <=> recs[id] = Absent
<1>1. ASSUME NEW id \in Ids, recs[id] # Absent
      PROVE  recs[id].owner_id \in Owners
  BY <1>1 DEF RecordMap, Record
<1>2. QED
  BY <1>1, AbsentAssumption DEF OwnerMap

(* Logging an operation together with its effect on the records keeps the  *)
(* two consistent.                                                         *)
LEMMA ConsistentAppend ==
    ASSUME NEW recs \in RecordMap, NEW recs2 \in RecordMap,
           NEW log \in Seq(AuditEntry), Consistent(recs, log),
           NEW id \in Ids, NEW o \in Owners, NEW action \in AuditAction,
           NEW t \in Times,
           \A i \in Ids \ {id} : recs2[i] = recs[i],
           action = "Write" =>
               /\ recs[id] = Absent
               /\ recs2[id] # Absent /\ recs2[id].owner_id = o,
           action # "Write" => recs[id] # Absent,
           action = "Delete" => recs[id].owner_id = o /\ recs2[id] = Absent,
           action \in {"ReadGranted", "ReadDenied"} => recs2[id] = recs[id],
           action = "ReadDenied" => recs[id].owner_id # o
    PROVE  Consistent(recs2, append_audit(log, id, o, action, t))
<1> DEFINE e == NewAuditEntry(id, o, action, t, last_chain_hash(log))
<1>1. e \in AuditEntry
  BY AppendAuditType
<1>2. e.record_id = id /\ e.requester_id = o /\ e.action = action
  BY DEF NewAuditEntry
<1>3. append_audit(log, id, o, action, t) = Append(log, e)
  BY DEF append_audit
<1> HIDE DEF e
<1>4. /\ OwnerMap(recs) \in [Ids -> Owners \cup {Absent}]
      /\ OwnerMap(recs2) \in [Ids -> Owners \cup {Absent}]
  BY OwnerMapType
<1>5. \A i \in Ids :
        /\ OwnerMap(recs)[i] =
              IF recs[i] = Absent THEN Absent ELSE recs[i].owner_id
        /\ OwnerMap(recs2)[i] =
              IF recs2[i] = Absent THEN Absent ELSE recs2[i].owner_id
  BY DEF OwnerMap
<1>6. LegalHistory(log) /\ OwnersMatch(OwnerMap(recs), log)
  BY DEF Consistent
<1>7. LegalHistory(Append(log, e))
  <2>1. /\ action = "Write" => OwnerMap(recs)[id] = Absent
        /\ action = "Delete" => OwnerMap(recs)[id] = o
        /\ action = "ReadDenied" => OwnerMap(recs)[id] # o
    BY <1>5
  <2>2. action # "Write" => OwnerMap(recs)[id] # Absent
    BY OwnerMapType
  <2>3. QED
    BY <1>1, <1>2, <1>4, <1>6, <2>1, <2>2, LegalHistoryAppend
<1>8. OwnersMatch(OwnerMap(recs2), Append(log, e))
  <2>1. OwnerMap(recs2)[id] =
           CASE action = "Write" -> o
             [] action = "Delete" -> Absent
             [] OTHER -> OwnerMap(recs)[id]
    <3>1. CASE action = "Write"
      BY <1>5, <3>1
    <3>2. CASE action = "Delete"
      BY <1>5, <3>2
    <3>3. CASE action \in {"ReadGranted", "ReadDenied"}
      BY <1>5, <3>3
    <3>4. QED
      BY <3>1, <3>2, <3>3 DEF AuditAction
  <2>2. ASSUME NEW i \in Ids \ {id}
        PROVE  OwnerMap(recs2)[i] = OwnerMap(recs)[i]
    <3>1. recs2[i] = recs[i]
      OBVIOUS
    <3>2. QED
      BY <1>5, <3>1
  <2>3. QED
    BY <1>1, <1>2, <1>4, <1>6, <2>1, <2>2, OwnersMatchAppend
<1>9. verify_audit_entries(Append(log, e))
  BY <1>3, AppendAuditVerifies DEF Consistent
<1>10. QED
  BY <1>3, <1>7, <1>8, <1>9 DEF Consistent

(* The checkpoint of stored tables.                                        *)
LEMMA NewCheckpointType ==
    ASSUME NEW mode \in Modes, NEW recs \in RecordMap,
           NEW log \in Seq(AuditEntry)
    PROVE  /\ NewCheckpoint(mode, recs, log) \in Checkpoint
           /\ NewCheckpoint(mode, recs, log) # Absent
<1>1. record_created_at_commitment(recs) \in Commitment
  BY DEF record_created_at_commitment, Commitment, RecordMap, Record
<1>2. last_chain_hash(log) \in Hash
  <2>1. ZeroHash \in Hash
    BY DEF ZeroHash, Hash
  <2>2. log # <<>> => log[Len(log)] \in AuditEntry
    OBVIOUS
  <2>3. QED
    BY <2>1, <2>2 DEF last_chain_hash, AuditEntry
<1>3. Len(log) \in Nat
  OBVIOUS
<1>4. NewCheckpoint(mode, recs, log) \in Checkpoint
  BY <1>1, <1>2, <1>3
     DEF NewCheckpoint, Checkpoint, Mac, checkpoint_mac, Modes, Legacy
<1>5. QED
  BY <1>4, AbsentTermAssumption

(* The mode of a checkpoint is the mode that wrote it.                     *)
LEMMA NewCheckpointMode ==
    ASSUME NEW mode \in Modes, NEW recs \in RecordMap,
           NEW log \in Seq(AuditEntry)
    PROVE  CheckpointMode(NewCheckpoint(mode, recs, log)) = mode
<1>1. CASE mode = Legacy
  BY <1>1 DEF NewCheckpoint, CheckpointMode
<1>2. CASE mode # Legacy
  <2>1. NewCheckpoint(mode, recs, log).mac =
           checkpoint_mac(mode, Len(log), last_chain_hash(log),
                          record_created_at_commitment(recs))
    BY <1>2 DEF NewCheckpoint
  <2>2. NewCheckpoint(mode, recs, log).mac # Absent
    <3>1. record_created_at_commitment(recs) \in Commitment
      BY DEF record_created_at_commitment, Commitment, RecordMap, Record
    <3>2. last_chain_hash(log) \in Hash /\ Len(log) \in Nat
      BY NewCheckpointType DEF NewCheckpoint, Checkpoint
    <3>3. checkpoint_mac(mode, Len(log), last_chain_hash(log),
                         record_created_at_commitment(recs)) \in Mac
      BY <1>2, <3>1, <3>2 DEF checkpoint_mac, Mac, Modes
    <3>4. QED
      BY <2>1, <3>3, AbsentTermAssumption
  <2>3. QED
    BY <2>1, <2>2 DEF CheckpointMode, checkpoint_mac
<1>3. QED
  BY <1>1, <1>2

(* What is stored under a clock that never reads 0 loads in the mode of    *)
(* its checkpoint, and in any mode before the first one.                   *)
LEMMA CurrentCheckpointLoads ==
    ASSUME 0 \notin Times, NEW mode \in Modes, NEW cp,
           NEW recs \in RecordMap, NEW log \in Seq(AuditEntry),
           Consistent(recs, log),
           cp = Absent => log = <<>>,
           cp # Absent => cp = NewCheckpoint(mode, recs, log)
    PROVE  LoadAccepts(mode, cp, recs, log)
<1>1. RecordsValid(recs)
  BY DEF RecordsValid, into_validated_record, RecordMap, Record
<1>2. log = <<>> => recs = NoRecords
  <2>1. SUFFICES ASSUME log = <<>>, NEW id \in Ids
                 PROVE  recs[id] = Absent
    BY DEF RecordMap, NoRecords
  <2>2. \A o \in Owners : OwnerMap(recs)[id] # o
    BY <2>1 DEF Consistent, OwnersMatch, LiveBy
  <2>3. QED
    BY <2>2, OwnerMapType
<1>3. classify_checkpoint_state(mode, cp, recs, log) # "Broken"
  <2>1. CASE cp = Absent
    BY <1>2, <2>1 DEF classify_checkpoint_state
  <2>2. CASE cp # Absent
    <3>1. /\ cp = NewCheckpoint(mode, recs, log)
          /\ CheckpointMode(cp) = mode
      BY <2>2, NewCheckpointMode
    <3>2. CheckpointParses(mode, cp)
      BY <3>1 DEF CheckpointParses, CheckpointMode, NewCheckpoint
    <3>3. validate_audit_checkpoint(cp, log)
      BY <3>1 DEF validate_audit_checkpoint, NewCheckpoint
    <3>4. mode # Legacy =>
             /\ verify_authenticated_audit_checkpoint(cp, mode)
             /\ cp.record_created_at_commitment =
                    record_created_at_commitment(recs)
      BY <3>1 DEF verify_authenticated_audit_checkpoint, NewCheckpoint
    <3>5. QED
      BY <1>2, <2>2, <3>2, <3>3, <3>4 DEF classify_checkpoint_state
  <2>3. QED
    BY <2>1, <2>2
<1>4. QED
  BY <1>1, <1>3 DEF LoadAccepts, Consistent

-----------------------------------------------------------------------------
(* Prefixes, and histories without hashes.                                 *)

LEMMA ExtendsReflexive ==
    ASSUME NEW S, NEW h \in Seq(S)
    PROVE  Extends(h, h)
BY DEF Extends

LEMMA ExtendsTransitive ==
    ASSUME NEW S, NEW g \in Seq(S), NEW h \in Seq(S), NEW k \in Seq(S),
           Extends(h, g), Extends(k, h)
    PROVE  Extends(k, g)
BY DEF Extends

LEMMA HistoryOfFacts ==
    ASSUME NEW log \in Seq(AuditEntry)
    PROVE  /\ HistoryOf(log) \in Seq(AuditBody)
           /\ Len(HistoryOf(log)) = Len(log)
           /\ \A i \in 1..Len(log) :
                 HistoryOf(log)[i] = audit_hash_input(log[i])
<1>1. \A i \in 1..Len(log) : audit_hash_input(log[i]) \in AuditBody
  <2>1. SUFFICES ASSUME NEW e \in AuditEntry
                 PROVE  audit_hash_input(e) \in AuditBody
    OBVIOUS
  <2>2. /\ e.record_id \in Ids  /\ e.requester_id \in Owners
        /\ e.action \in AuditAction  /\ e.timestamp \in Times
    BY DEF AuditEntry
  <2>3. QED
    BY <2>2 DEF audit_hash_input, AuditBody
<1>2. QED
  BY <1>1 DEF HistoryOf

(* LiveBy looks at three fields of the first n entries only.               *)
LEMMA LiveBySame ==
    ASSUME NEW g, NEW h, NEW n \in Nat, NEW id, NEW o,
           \A i \in 1..n : /\ h[i].record_id = g[i].record_id
                          /\ h[i].requester_id = g[i].requester_id
                          /\ h[i].action = g[i].action,
           LiveBy(g, n, id, o)
    PROVE  LiveBy(h, n, id, o)
<1>1. PICK i \in 1..n :
          /\ g[i].record_id = id
          /\ g[i].action = "Write"
          /\ g[i].requester_id = o
          /\ \A j \in (i+1)..n :
                g[j].record_id = id => g[j].action \notin {"Write", "Delete"}
  BY DEF LiveBy
<1>2. \A j \in (i+1)..n : j \in 1..n
  OBVIOUS
<1>3. \A j \in (i+1)..n :
          h[j].record_id = id => h[j].action \notin {"Write", "Delete"}
  BY <1>1, <1>2
<1>4. h[i].record_id = id /\ h[i].action = "Write" /\ h[i].requester_id = o
  BY <1>1
<1>5. QED
  BY <1>3, <1>4 DEF LiveBy

(* Leaving out the hashes changes nothing of what a history means.         *)
LEMMA HistoryOfMeaning ==
    ASSUME NEW log \in Seq(AuditEntry)
    PROVE  /\ LegalHistory(log) => LegalHistory(HistoryOf(log))
           /\ \A owners : OwnersMatch(owners, log) =>
                           OwnersMatch(owners, HistoryOf(log))
<1> DEFINE h == HistoryOf(log)
<1>1. /\ Len(h) = Len(log) /\ Len(log) \in Nat
      /\ \A i \in 1..Len(log) :
            /\ h[i].record_id = log[i].record_id
            /\ h[i].requester_id = log[i].requester_id
            /\ h[i].action = log[i].action
  <2>1. /\ Len(h) = Len(log) /\ Len(log) \in Nat
        /\ \A i \in 1..Len(log) : h[i] = audit_hash_input(log[i])
    BY HistoryOfFacts
  <2>2. \A e : /\ audit_hash_input(e).record_id = e.record_id
              /\ audit_hash_input(e).requester_id = e.requester_id
              /\ audit_hash_input(e).action = e.action
    BY DEF audit_hash_input
  <2> HIDE DEF h
  <2>3. QED
    BY <2>1, <2>2
<1> HIDE DEF h
<1>2. \A n \in 0..Len(log) : \A id, o :
         LiveBy(h, n, id, o) <=> LiveBy(log, n, id, o)
  <2>1. SUFFICES ASSUME NEW n \in 0..Len(log), NEW id, NEW o
                 PROVE  LiveBy(h, n, id, o) <=> LiveBy(log, n, id, o)
    OBVIOUS
  <2>2. /\ n \in Nat
        /\ \A i \in 1..n : /\ h[i].record_id = log[i].record_id
                           /\ h[i].requester_id = log[i].requester_id
                           /\ h[i].action = log[i].action
    BY <1>1
  <2>3. LiveBy(log, n, id, o) => LiveBy(h, n, id, o)
    BY <2>2, LiveBySame
  <2>4. LiveBy(h, n, id, o) => LiveBy(log, n, id, o)
    BY <2>2, LiveBySame
  <2>5. QED
    BY <2>3, <2>4
<1>3. ASSUME LegalHistory(log), NEW i \in 1..Len(log)
      PROVE  LegalEntry(h, i)
  <2>1. LegalEntry(log, i) /\ i - 1 \in 0..Len(log)
    BY <1>3 DEF LegalHistory
  <2>2. QED
    BY <1>1, <1>2, <2>1 DEF LegalEntry
<1>4. QED
  BY <1>1, <1>2, <1>3 DEF LegalHistory, OwnersMatch, h

-----------------------------------------------------------------------------
(* What a filter keeps.                                                    *)


(* A set of places up to n is finite, and its size is no more than n.      *)
LEMMA PlacesFinite ==
    ASSUME NEW n \in Nat, NEW K \in SUBSET (1..n)
    PROVE  /\ IsFiniteSet(K)
           /\ Cardinality(K) \in Nat /\ Cardinality(K) <= n
           /\ Cardinality(K) = n => K = 1..n
<1>1. IsFiniteSet(1..n) /\ Cardinality(1..n) = n
  BY FS_Interval
<1>2. /\ IsFiniteSet(K) /\ Cardinality(K) <= n
      /\ Cardinality(1..n) = Cardinality(K) => 1..n = K
  BY <1>1, FS_Subset
<1>3. QED
  BY <1>1, <1>2, FS_CardinalityType

(* The rank of a member is positive and grows with the member.             *)
LEMMA RankGrows ==
    ASSUME NEW K \in SUBSET Nat, IsFiniteSet(K),
           NEW a \in K
    PROVE  /\ Rank(K, a) \in 1..Cardinality(K)
           /\ \A b \in K : b < a => Rank(K, b) < Rank(K, a)
<1> DEFINE Up(x) == {m \in K : m <= x}
<1>0. \A x \in K : x \in Nat
  OBVIOUS
<1>1. IsFiniteSet(K) /\ Cardinality(K) \in Nat
  BY FS_CardinalityType
<1>2. ASSUME NEW x \in K
      PROVE  /\ IsFiniteSet(Up(x)) /\ Cardinality(Up(x)) \in Nat
             /\ Cardinality(Up(x)) <= Cardinality(K)
  BY <1>1, FS_Subset, FS_CardinalityType
<1>3. Cardinality(Up(a)) # 0
  BY <1>2, FS_EmptySet
<1>4. ASSUME NEW b \in K, b < a
      PROVE  Cardinality(Up(b)) < Cardinality(Up(a))
  <2>0. \A m \in K : m <= b => m <= a
    BY <1>4
  <2>1. Up(b) \in SUBSET Up(a)
    BY <2>0
  <2>2. a \in Up(a) /\ a \notin Up(b)
    BY <1>0, <1>4
  <2>3. /\ Cardinality(Up(b)) <= Cardinality(Up(a))
        /\ Cardinality(Up(a)) # Cardinality(Up(b))
    BY <1>2, <2>1, <2>2, FS_Subset
  <2>4. QED
    BY <1>2, <2>3
<1>5. \A x : Rank(K, x) = Cardinality(Up(x))
  BY DEF Rank
<1> HIDE DEF Up
<1>6. QED
  BY <1>1, <1>2, <1>3, <1>4, <1>5

(* Every number up to the size of K is the rank of a member.               *)
LEMMA RankOnto ==
    ASSUME NEW K \in SUBSET Nat, IsFiniteSet(K), NEW k \in 1..Cardinality(K)
    PROVE  \E a \in K : Rank(K, a) = k
<1> DEFINE r == [a \in K |-> Rank(K, a)]
           R == 1..Cardinality(K)
<1>1. IsFiniteSet(K) /\ Cardinality(K) \in Nat
  BY FS_CardinalityType
<1>2. IsFiniteSet(R) /\ Cardinality(R) = Cardinality(K)
  BY <1>1, FS_Interval
<1>3. r \in [K -> R]
  BY RankGrows
<1>4. ASSUME NEW a \in K, NEW b \in K, r[a] = r[b]
      PROVE  a = b
  <2>1. /\ b < a => Rank(K, b) < Rank(K, a)
        /\ a < b => Rank(K, a) < Rank(K, b)
    BY RankGrows
  <2>2. Rank(K, a) \in R /\ Rank(K, b) \in R
    BY RankGrows
  <2>3. QED
    BY <1>4, <2>1, <2>2
<1>5. r \in Injection(K, R)
  BY <1>3, <1>4 DEF Injection, IsInjective
<1>6. r \in Surjection(K, R)
  BY <1>2, <1>5, FS_Injection
<1>7. QED
  BY <1>6 DEF Surjection

(* InOrder lists the members of K, all of them, in their order.            *)
LEMMA InOrderLists ==
    ASSUME NEW K \in SUBSET Nat, IsFiniteSet(K)
    PROVE  /\ InOrder(K) \in [1..Cardinality(K) -> K]
           /\ Cardinality(K) \in Nat
           /\ \A i, j \in 1..Cardinality(K) :
                 i < j => InOrder(K)[i] < InOrder(K)[j]
           /\ \A a \in K : \E i \in 1..Cardinality(K) : InOrder(K)[i] = a
<1> DEFINE p == InOrder(K)
<1>1. Cardinality(K) \in Nat
  BY FS_CardinalityType
<1>2. ASSUME NEW i \in 1..Cardinality(K)
      PROVE  p[i] \in K /\ Rank(K, p[i]) = i
  BY RankOnto DEF InOrder
<1>3. p \in [1..Cardinality(K) -> K]
  BY <1>2 DEF InOrder
<1>4. ASSUME NEW i \in 1..Cardinality(K), NEW j \in 1..Cardinality(K), i < j
      PROVE  p[i] < p[j]
  <2>1. p[i] \in K /\ p[j] \in K /\ Rank(K, p[i]) = i /\ Rank(K, p[j]) = j
    BY <1>2
  <2>2. p[j] < p[i] => Rank(K, p[j]) < Rank(K, p[i])
    BY <2>1, RankGrows
  <2> HIDE DEF p
  <2>3. i # j
    BY <1>4
  <2>4. p[i] \in Nat /\ p[j] \in Nat
    BY <2>1
  <2>5. p[i] # p[j]
    BY <2>1, <2>3
  <2>6. QED
    BY <1>4, <2>1, <2>2, <2>4, <2>5
<1>5. ASSUME NEW a \in K
      PROVE  \E i \in 1..Cardinality(K) : p[i] = a
  <2>1. Rank(K, a) \in 1..Cardinality(K)
    BY RankGrows
  <2>2. p[Rank(K, a)] \in K /\ Rank(K, p[Rank(K, a)]) = Rank(K, a)
    BY <1>2, <2>1
  <2>3. /\ a < p[Rank(K, a)] => Rank(K, a) < Rank(K, p[Rank(K, a)])
        /\ p[Rank(K, a)] < a => Rank(K, p[Rank(K, a)]) < Rank(K, a)
    BY <2>2, RankGrows
  <2> DEFINE q == p[Rank(K, a)]
  <2>4. q = a
    <3>1. /\ q \in K /\ Rank(K, q) = Rank(K, a)
          /\ a < q => Rank(K, a) < Rank(K, q)
          /\ q < a => Rank(K, q) < Rank(K, a)
      BY <2>2, <2>3
    <3> HIDE DEF p, q
    <3>2. a \in Nat /\ q \in Nat
      BY <3>1
    <3>3. Rank(K, a) \in Nat
      BY <2>1
    <3>4. ~(a < q) /\ ~(q < a)
      BY <3>1, <3>3
    <3>5. QED
      BY <3>2, <3>4
  <2>5. QED
    BY <2>1, <2>4
<1> HIDE DEF p
<1>6. QED
  BY <1>1, <1>3, <1>4, <1>5 DEF p

(* The first member is the least; the next one is the least above.         *)
LEMMA InOrderFirst ==
    ASSUME NEW K \in SUBSET Nat, IsFiniteSet(K), NEW a \in K,
           \A b \in K : a <= b
    PROVE  Cardinality(K) >= 1 /\ InOrder(K)[1] = a
<1> DEFINE p == InOrder(K)
<1>1. PICK i \in 1..Cardinality(K) : p[i] = a
  BY InOrderLists
<1>2. Cardinality(K) \in Nat /\ p \in [1..Cardinality(K) -> K]
      /\ (1 < i => p[1] < p[i])
  BY InOrderLists
<1> HIDE DEF p
<1>3. i = 1
  <2>1. p[1] \in K
    BY <1>1, <1>2
  <2>2. a <= p[1] /\ a \in Nat /\ p[1] \in Nat
    BY <2>1
  <2>3. QED
    BY <1>1, <1>2, <2>2
<1>4. QED
  BY <1>1, <1>2, <1>3 DEF p

LEMMA InOrderNext ==
    ASSUME NEW K \in SUBSET Nat, IsFiniteSet(K),
           NEW k \in Nat \ {0}, k <= Cardinality(K),
           NEW a \in K, a > InOrder(K)[k],
           \A b \in K : b > InOrder(K)[k] => a <= b
    PROVE  Cardinality(K) >= k + 1 /\ InOrder(K)[k + 1] = a
<1> DEFINE p == InOrder(K)
           c == Cardinality(K)
<1>1. PICK i \in 1..c : p[i] = a
  BY InOrderLists
<1>2. /\ c \in Nat /\ p \in [1..c -> K]
      /\ \A x, y \in 1..c : x < y => p[x] < p[y]
  BY InOrderLists
<1> HIDE DEF p, c
<1>3. k \in 1..c /\ p[k] \in K /\ p[k] \in Nat /\ a \in Nat /\ a > p[k]
  <2>1. k \in 1..c
    BY <1>2 DEF c
  <2>2. p[k] \in K
    BY <1>2, <2>1
  <2>3. QED
    BY <2>1, <2>2 DEF p
<1>4. i > k
  <2>1. i \in Nat /\ k \in Nat /\ (i < k => p[i] < p[k])
    BY <1>1, <1>2, <1>3
  <2>2. QED
    BY <1>1, <1>3, <2>1
<1>5. k + 1 \in 1..c
  BY <1>2, <1>3, <1>4
<1>6. p[k] < p[k + 1] /\ p[k + 1] \in K
  BY <1>2, <1>3, <1>5
<1>7. a <= p[k + 1] /\ p[k + 1] \in Nat
  BY <1>3, <1>6 DEF p
<1>8. k + 1 < i => p[k + 1] < p[i]
  BY <1>2, <1>5
<1>9. i = k + 1
  BY <1>1, <1>3, <1>4, <1>7, <1>8
<1>10. QED
  BY <1>1, <1>2, <1>5, <1>9 DEF p, c

(* Nothing above the last: the list is over.                               *)
LEMMA InOrderLast ==
    ASSUME NEW K \in SUBSET Nat, IsFiniteSet(K),
           NEW k \in 1..Cardinality(K),
           \A b \in K : b <= InOrder(K)[k]
    PROVE  Cardinality(K) = k
<1> DEFINE p == InOrder(K)
           c == Cardinality(K)
<1>1. /\ c \in Nat /\ p \in [1..c -> K]
      /\ \A x, y \in 1..c : x < y => p[x] < p[y]
  BY InOrderLists
<1> HIDE DEF p, c
<1>2. ASSUME k < c
      PROVE  FALSE
  <2>1. k \in 1..c /\ k + 1 \in 1..c
    BY <1>1, <1>2 DEF c
  <2>2. p[k] < p[k + 1] /\ p[k + 1] \in K /\ p[k] \in K
    BY <1>1, <2>1
  <2>3. p[k + 1] <= p[k] /\ p[k] \in Nat /\ p[k + 1] \in Nat
    BY <2>2 DEF p
  <2>4. QED
    BY <2>2, <2>3
<1>3. QED
  BY <1>1, <1>2 DEF c
=============================================================================
