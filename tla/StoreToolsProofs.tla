-------------------------- MODULE StoreToolsProofs --------------------------
(***************************************************************************)
(* The compliance reports and the migration, for any sets of ids, owners,  *)
(* payloads, times and options: ToolsIInv is preserved by every step, what *)
(* the reports count from the records agrees with what they count from the *)
(* audit log, and manifests that agree mean that nothing was lost.         *)
(***************************************************************************)
EXTENDS StoreTools, AuditChainProofs

-----------------------------------------------------------------------------
(* Counting and filtering.                                                 *)

(* A set of numbers that is not empty has a least.                         *)
LEMMA LeastNumber ==
    ASSUME NEW K \in SUBSET Nat, NEW n \in K
    PROVE  \E m \in K : \A k \in K : m <= k
<1> DEFINE L == {k \in K : k <= n}
           p == InOrder(L)
           c == Cardinality(L)
<1>1. L \in SUBSET Nat /\ n \in L /\ n \in Nat
  <2>1. n \in Nat /\ n <= n
    OBVIOUS
  <2>2. QED
    BY <2>1
<1>2. \A k \in L : k <= n
  OBVIOUS
<1>3. \A k \in K : k \in L \/ n < k
  OBVIOUS
<1>4. L \subseteq K
  OBVIOUS
<1> HIDE DEF L
<1>5. IsFiniteSet(L)
  BY <1>1, <1>2, FS_BoundedSetOfNaturals
<1>6. /\ p \in [1..c -> L] /\ c \in Nat
      /\ \A i, j \in 1..c : i < j => p[i] < p[j]
      /\ \A a \in L : \E i \in 1..c : p[i] = a
  BY <1>1, <1>5, InOrderLists
<1> HIDE DEF p, c
<1>7. 1 \in 1..c
  BY <1>1, <1>6
<1>8. p[1] \in L
  BY <1>6, <1>7
<1>9. ASSUME NEW a \in L
      PROVE  p[1] <= a
  <2>1. PICK i \in 1..c : p[i] = a
    BY <1>6
  <2>2. i = 1 \/ p[1] < p[i]
    BY <1>6, <1>7
  <2>3. p[1] \in Nat /\ a \in Nat
    BY <1>1, <1>8
  <2>4. QED
    BY <2>1, <2>2, <2>3
<1>10. \A k \in K : p[1] <= k
  <2>1. SUFFICES ASSUME NEW k \in K, n < k
                 PROVE  p[1] <= k
    BY <1>3, <1>9
  <2>2. p[1] <= n /\ p[1] \in Nat /\ k \in Nat
    BY <1>1, <1>8, <1>9
  <2>3. QED
    BY <1>1, <2>1, <2>2
<1>11. QED
  BY <1>4, <1>8, <1>10

(* Filtering keeps the entries at the places given, in their order; all of *)
(* them when all places are given.                                         *)
LEMMA KeptIs ==
    ASSUME NEW S, NEW s \in Seq(S), NEW K \in SUBSET DOMAIN s
    PROVE  /\ Kept(s, K) \in Seq(S)
           /\ Len(Kept(s, K)) = Cardinality(K)
           /\ Cardinality(K) \in Nat /\ Cardinality(K) <= Len(s)
           /\ \A j \in 1..Cardinality(K) :
                 /\ InOrder(K)[j] \in K
                 /\ Kept(s, K)[j] = s[InOrder(K)[j]]
           /\ \A i, j \in 1..Cardinality(K) :
                 i # j => InOrder(K)[i] # InOrder(K)[j]
           /\ \A a \in K : \E i \in 1..Cardinality(K) : InOrder(K)[i] = a
<1> DEFINE p == InOrder(K)
           c == Cardinality(K)
<1>1. DOMAIN s = 1..Len(s) /\ Len(s) \in Nat /\ \A i \in 1..Len(s) : s[i] \in S
  BY LenProperties, ElementOfSeq
<1>2. IsFiniteSet(K) /\ c \in Nat /\ c <= Len(s)
  BY <1>1, PlacesFinite
<1>3. K \in SUBSET Nat
  BY <1>1
<1>4. /\ p \in [1..c -> K] /\ c \in Nat
      /\ \A i, j \in 1..c : i < j => p[i] < p[j]
      /\ \A a \in K : \E i \in 1..c : p[i] = a
  BY <1>2, <1>3, InOrderLists
<1>5. Kept(s, K) = [k \in DOMAIN p |-> s[p[k]]]
  BY DEF Kept
<1> HIDE DEF p, c
<1>6. Kept(s, K) = [k \in 1..c |-> s[p[k]]]
  BY <1>4, <1>5
<1>7. \A k \in 1..c : p[k] \in K /\ s[p[k]] \in S
  BY <1>1, <1>4
<1>8. [k \in 1..c |-> s[p[k]]] \in [1..c -> S]
  BY <1>7
<1>9. Kept(s, K) \in Seq(S) /\ Len(Kept(s, K)) = c
  BY <1>4, <1>6, <1>8
<1>10. \A i, j \in 1..c : i # j => p[i] # p[j]
  <2>1. SUFFICES ASSUME NEW i \in 1..c, NEW j \in 1..c, i < j
                 PROVE  p[i] # p[j]
    BY <1>4
  <2>2. p[i] \in Nat /\ p[j] \in Nat /\ p[i] < p[j]
    BY <1>3, <1>4, <2>1
  <2>3. QED
    BY <2>2
<1>11. QED
  BY <1>2, <1>4, <1>6, <1>7, <1>9, <1>10 DEF p, c

LEMMA KeptAll ==
    ASSUME NEW S, NEW s \in Seq(S), NEW K \in SUBSET DOMAIN s,
           Cardinality(K) = Len(s)
    PROVE  Kept(s, K) = s
<1> DEFINE n == Len(s)
<1>1. DOMAIN s = 1..n /\ n \in Nat
  BY LenProperties
<1>2. K = 1..n /\ IsFiniteSet(K)
  BY <1>1, PlacesFinite
<1> HIDE DEF n
<1>3. K \in SUBSET Nat /\ Cardinality(K) = n
  BY <1>2 DEF n
<1>4. ASSUME NEW k \in 1..n
      PROVE  InOrder(K)[k] = k
  <2>1. \A a \in K : Rank(K, a) = a
    <3>1. SUFFICES ASSUME NEW a \in K
                   PROVE  Cardinality({m \in K : m <= a}) = a
      BY DEF Rank
    <3>2. a \in Nat /\ a >= 1 /\ a <= n
      BY <1>1, <1>2
    <3> DEFINE L == {m \in K : m <= a}
    <3>3. L = 1..a
      BY <1>1, <1>2, <3>2
    <3>4. Cardinality(1..a) = IF 1 > a THEN 0 ELSE a - 1 + 1
      BY <3>2, FS_Interval
    <3> HIDE DEF L
    <3>5. Cardinality(L) = a
      BY <3>2, <3>3, <3>4
    <3>6. QED
      BY <3>5 DEF L
  <2>2. InOrder(K)[k] = CHOOSE m \in K : Rank(K, m) = k
    BY <1>3 DEF InOrder
  <2>3. \E m \in K : Rank(K, m) = k
    BY <1>2, <2>1
  <2>4. QED
    BY <2>1, <2>2, <2>3
<1>5. \A j \in 1..n : Kept(s, K)[j] = s[j]
  BY <1>3, <1>4, KeptIs
<1>6. Kept(s, K) \in Seq(S) /\ Len(Kept(s, K)) = Len(s)
  BY <1>3, KeptIs DEF n
<1>7. QED
  BY <1>5, <1>6, SeqEqual DEF n

(* The first n entries of a sequence.                                      *)
LEMMA PrefixIs ==
    ASSUME NEW S, NEW s \in Seq(S), NEW n \in 0..Len(s)
    PROVE  /\ SubSeq(s, 1, n) \in Seq(S) /\ Len(SubSeq(s, 1, n)) = n
           /\ \A i \in 1..n : SubSeq(s, 1, n)[i] = s[i]
<1>1. Len(s) \in Nat /\ n \in Nat /\ n <= Len(s)
  BY LenProperties
<1>2. \A i \in 1..n : s[i] \in S
  BY <1>1, ElementOfSeq
<1>3. /\ SubSeq(s, 1, n) \in Seq(S)
      /\ Len(SubSeq(s, 1, n)) = IF 1 <= n THEN n - 1 + 1 ELSE 0
      /\ \A i \in 1..(n - 1 + 1) : SubSeq(s, 1, n)[i] = s[1 + i - 1]
  BY <1>1, <1>2, SubSeqProperties
<1>4. (1 <= n \/ n = 0) /\ n - 1 + 1 = n /\ \A i \in 1..n : 1 + i - 1 = i
  BY <1>1
<1>5. QED
  BY <1>3, <1>4

(* A sequence is one of its own entries.                                   *)
LEMMA OfItsEntries ==
    ASSUME NEW S, NEW s \in Seq(S)
    PROVE  s \in Seq({s[i] : i \in DOMAIN s})
<1> DEFINE T == {s[i] : i \in DOMAIN s}
<1>1. Len(s) \in Nat /\ s \in [1..Len(s) -> S]
  BY LenProperties
<1>2. s \in [1..Len(s) -> T]
  BY <1>1
<1> HIDE DEF T
<1>3. s \in Seq(T)
  BY <1>1, <1>2
<1>4. QED
  BY <1>3 DEF T

-----------------------------------------------------------------------------
(* The store.                                                              *)

(* The records of the store are listed once for each id that has one.      *)
LEMMA LiveFacts ==
    ASSUME NEW recs \in RecordMap
    PROVE  /\ \A id \in Ids : recs[id] # Absent =>
                 /\ from_record(recs, id) \in Listed
                 /\ from_record(recs, id).owner_id = recs[id].owner_id
                 /\ from_record(recs, id).tier = recs[id].tier
                 /\ from_record(recs, id).created_at = recs[id].created_at
           /\ \A id \in Ids : from_record(recs, id).id = id
<1>1. ASSUME NEW id \in Ids, recs[id] # Absent
      PROVE  recs[id] \in Record
  BY <1>1 DEF RecordMap
<1>2. ASSUME NEW id \in Ids, recs[id] # Absent
      PROVE  from_record(recs, id) \in Listed
  BY <1>1, <1>2 DEF from_record, encrypt_payload, Record, Listed
<1>3. QED
  BY <1>2 DEF from_record

(* One more entry counts for its action and for no other.                  *)
LEMMA LoggedAppend ==
    ASSUME NEW log \in Seq(AuditEntry), NEW e \in AuditEntry, NEW action
    PROVE  /\ Cardinality(Logged(log, action)) \in Nat
           /\ Cardinality(Logged(Append(log, e), action)) =
                 Cardinality(Logged(log, action))
                     + (IF e.action = action THEN 1 ELSE 0)
<1> DEFINE n == Len(log)
           K == Logged(log, action)
           g == Append(log, e)
<1>1. n \in Nat /\ DOMAIN log = 1..n
  BY LenProperties
<1>2. /\ DOMAIN g = 1..(n + 1) /\ g[n + 1] = e
      /\ \A i \in 1..n : g[i] = log[i]
  BY <1>1, AppendProperties, LenProperties
<1>3. K \in SUBSET (1..n)
  BY <1>1 DEF Logged
<1>4. IsFiniteSet(K) /\ Cardinality(K) \in Nat
  BY <1>1, <1>3, PlacesFinite
<1>5. n + 1 \notin K
  BY <1>1, <1>3
<1>6. CASE e.action = action
  <2>1. Logged(g, action) = K \cup {n + 1}
    BY <1>1, <1>2, <1>6 DEF Logged
  <2> HIDE DEF K, g, n
  <2>2. Cardinality(Logged(g, action)) = Cardinality(K) + 1
    BY <1>4, <1>5, <2>1, FS_AddElement
  <2>3. QED
    BY <1>4, <1>6, <2>2 DEF K, g
<1>7. CASE e.action # action
  <2>1. Logged(g, action) = K
    BY <1>1, <1>2, <1>7 DEF Logged
  <2> HIDE DEF g, n
  <2>2. QED
    BY <1>4, <1>7, <2>1 DEF g
<1>8. QED
  BY <1>6, <1>7

(* Nothing is logged and nothing is stored.                                *)
LEMMA ToolsIInvInit == Init => ToolsIInv
<1> SUFFICES ASSUME Init
             PROVE  ToolsIInv
  OBVIOUS
<1>1. births \in Seq(Times) /\ Len(births) = Len(audit_log)
  BY EmptySeq DEF Init
<1>2. /\ records = NoRecords /\ audit_log = <<>> /\ lines = <<>>
      /\ source = Absent /\ outcome = Absent /\ touched = 0
  BY DEF Init
<1>3. records \in RecordMap /\ \A id \in Ids : records[id] = Absent
  BY <1>2 DEF NoRecords, RecordMap
<1>4. /\ <<>> \in Seq(AuditEntry) /\ DOMAIN <<>> = {}
      /\ <<>> \in Seq({lines[i] : i \in DOMAIN lines})
  BY EmptySeq
<1>5. ToolsOK
  BY <1>1, <1>2, <1>3, <1>4, ConsistentEmpty, ToolsAssumption DEF ToolsOK
<1>6. Tallied
  <2>1. Live = {} /\ \A a : Logged(audit_log, a) = {}
    BY <1>2, <1>3, <1>4 DEF Live, Logged
  <2>2. QED
    BY <2>1, FS_EmptySet DEF Tallied
<1>7. StampedByLog /\ Exported /\ Imported
  BY <1>2, <1>4 DEF StampedByLog, Exported, Imported
<1>8. QED
  BY <1>5, <1>6, <1>7 DEF ToolsIInv

(* A statement of the store, with the record map it leaves behind.         *)
Statement(id, o, action, first, t, recs) ==
    /\ source = Absent
    /\ audit_log' = append_audit(audit_log, id, o, action, t)
    /\ births' = Append(births, first)
    /\ records' = recs
    /\ UNCHANGED <<file, outcome>>
    /\ \A i \in Ids \ {id} : recs[i] = records[i]
    /\ action = "Write" =>
          /\ records[id] = Absent
          /\ recs[id] # Absent /\ recs[id].owner_id = o
          /\ recs[id].created_at = first
    /\ action # "Write" => records[id] # Absent
    /\ action = "Delete" => records[id].owner_id = o /\ recs[id] = Absent
    /\ action \in {"ReadGranted", "ReadDenied"} => recs[id] = records[id]
    /\ action = "ReadDenied" => records[id].owner_id # o

(* The log after a statement is the log before it and one entry.           *)
LEMMA StatementLogs ==
    ASSUME ToolsOK, NEW id \in Ids, NEW o \in Owners,
           NEW action \in AuditAction, NEW first \in Times, NEW t \in Times,
           NEW recs \in RecordMap, Statement(id, o, action, first, t, recs)
    PROVE  \E e \in AuditEntry :
              /\ e.record_id = id /\ e.action = action
              /\ audit_log' = Append(audit_log, e)
              /\ audit_log' \in Seq(AuditEntry)
              /\ DOMAIN audit_log = 1..Len(audit_log)
              /\ Len(audit_log) \in Nat
              /\ DOMAIN audit_log' = 1..(Len(audit_log) + 1)
              /\ audit_log'[Len(audit_log) + 1] = e
              /\ \A i \in DOMAIN audit_log : audit_log'[i] = audit_log[i]
<1> DEFINE e == NewAuditEntry(id, o, action, t, last_chain_hash(audit_log))
<1>1. audit_log \in Seq(AuditEntry)
  BY DEF ToolsOK
<1>2. e \in AuditEntry
  BY <1>1, AppendAuditType
<1>3. e.record_id = id /\ e.action = action
  BY DEF NewAuditEntry
<1>4. audit_log' = Append(audit_log, e)
  BY DEF Statement, append_audit
<1> HIDE DEF e
<1>5. /\ audit_log' \in Seq(AuditEntry)
      /\ Len(audit_log') = Len(audit_log) + 1
      /\ audit_log'[Len(audit_log) + 1] = e
      /\ \A i \in 1..Len(audit_log) : audit_log'[i] = audit_log[i]
  BY <1>1, <1>2, <1>4, AppendProperties
<1>6. /\ DOMAIN audit_log = 1..Len(audit_log) /\ Len(audit_log) \in Nat
      /\ DOMAIN audit_log' = 1..Len(audit_log')
  BY <1>1, <1>5, LenProperties
<1>7. QED
  BY <1>2, <1>3, <1>4, <1>5, <1>6

(* The history variable keeps step with it.                                *)
LEMMA StatementBirths ==
    ASSUME ToolsOK, NEW id \in Ids, NEW o \in Owners,
           NEW action \in AuditAction, NEW first \in Times, NEW t \in Times,
           NEW recs \in RecordMap, Statement(id, o, action, first, t, recs)
    PROVE  /\ births' \in Seq(Times)
           /\ Len(births') = Len(audit_log) + 1
           /\ births'[Len(audit_log) + 1] = first
           /\ \A i \in 1..Len(audit_log) : births'[i] = births[i]
<1>1. births \in Seq(Times) /\ Len(births) = Len(audit_log)
  BY DEF ToolsOK
<1>2. births' = Append(births, first)
  BY DEF Statement
<1>3. QED
  BY <1>1, <1>2, AppendProperties

LEMMA StatementTypes ==
    ASSUME ToolsIInv, NEW id \in Ids, NEW o \in Owners,
           NEW action \in AuditAction, NEW first \in Times, NEW t \in Times,
           NEW recs \in RecordMap, Statement(id, o, action, first, t, recs)
    PROVE  ToolsOK' /\ Exported' /\ Imported'
<1>1. records \in RecordMap /\ audit_log \in Seq(AuditEntry) /\ ToolsOK
  BY DEF ToolsIInv, ToolsOK
<1>2. Consistent(records, audit_log)
  BY DEF ToolsIInv, ToolsOK
<1>3. Consistent(recs, append_audit(audit_log, id, o, action, t))
  BY <1>1, <1>2, ConsistentAppend DEF Statement
<1>4. append_audit(audit_log, id, o, action, t) \in Seq(AuditEntry)
  BY <1>1, AppendAuditType
<1>5. births' \in Seq(Times) /\ Len(births') = Len(audit_log')
  <2>1. births' \in Seq(Times) /\ Len(births') = Len(audit_log) + 1
    BY <1>1, StatementBirths
  <2>2. DOMAIN audit_log' = 1..(Len(audit_log) + 1)
        /\ Len(audit_log) \in Nat /\ audit_log' \in Seq(AuditEntry)
    BY <1>1, StatementLogs
  <2>3. Len(audit_log') = Len(audit_log) + 1
    BY <2>2, LenProperties
  <2>4. QED
    BY <2>1, <2>3
<1>6. ToolsOK'
  BY <1>1, <1>3, <1>4, <1>5 DEF Statement, ToolsIInv, ToolsOK, file
<1>7. Exported' /\ Imported'
  BY DEF Statement, ToolsIInv, Exported, Imported, file
<1>8. QED
  BY <1>6, <1>7

(* A write that stands has its record, and it is the record of that write. *)
LEMMA StatementStamps ==
    ASSUME ToolsIInv, NEW id \in Ids, NEW o \in Owners,
           NEW action \in AuditAction, NEW first \in Times, NEW t \in Times,
           NEW recs \in RecordMap, Statement(id, o, action, first, t, recs)
    PROVE  StampedByLog'
<1>1. PICK e \in AuditEntry :
          /\ e.record_id = id /\ e.action = action
          /\ audit_log' = Append(audit_log, e)
          /\ audit_log' \in Seq(AuditEntry)
          /\ DOMAIN audit_log = 1..Len(audit_log)
          /\ Len(audit_log) \in Nat
          /\ DOMAIN audit_log' = 1..(Len(audit_log) + 1)
          /\ audit_log'[Len(audit_log) + 1] = e
          /\ \A i \in DOMAIN audit_log : audit_log'[i] = audit_log[i]
  BY StatementLogs DEF ToolsIInv
<1> DEFINE n == Len(audit_log)
<1>2. StampedByLog /\ audit_log \in Seq(AuditEntry)
  BY DEF ToolsIInv, ToolsOK
<1>9. /\ births'[n + 1] = first
      /\ \A i \in 1..n : births'[i] = births[i]
  BY StatementBirths DEF ToolsIInv
<1>3. \A i \in 1..n : audit_log[i].record_id \in Ids
  <2>1. \A a \in AuditEntry : a.record_id \in Ids
    BY DEF AuditEntry
  <2>2. \A i \in 1..n : audit_log[i] \in AuditEntry
    BY <1>2, ElementOfSeq
  <2>3. QED
    BY <2>1, <2>2
<1>4. SUFFICES ASSUME NEW i \in 1..(n + 1), Standing(audit_log', i)
               PROVE  /\ recs[audit_log'[i].record_id] # Absent
                      /\ recs[audit_log'[i].record_id].created_at = births'[i]
  BY <1>1 DEF StampedByLog, Statement
<1>5. CASE i = n + 1
  <2>1. action = "Write"
    BY <1>1, <1>4, <1>5 DEF Standing
  <2>2. QED
    BY <1>1, <1>9, <1>5, <2>1 DEF Statement
<1>6. CASE i \in 1..n
  <2>1. audit_log'[i] = audit_log[i] /\ births'[i] = births[i]
    BY <1>1, <1>9, <1>6
  <2> DEFINE rid == audit_log[i].record_id
  <2>2. Standing(audit_log, i)
    <3>1. audit_log[i].action = "Write"
      BY <1>4, <2>1 DEF Standing
    <3>2. ASSUME NEW j \in DOMAIN audit_log, j > i,
                 audit_log[j].record_id = rid
          PROVE  audit_log[j].action # "Delete"
      <4>1. j \in DOMAIN audit_log' /\ audit_log'[j] = audit_log[j]
        BY <1>1
      <4>2. QED
        BY <1>4, <2>1, <3>2, <4>1 DEF Standing
    <3>3. QED
      BY <3>1, <3>2 DEF Standing
  <2>3. records[rid] # Absent /\ records[rid].created_at = births[i]
    BY <1>1, <1>2, <1>6, <2>2 DEF StampedByLog
  <2>4. rid = id => action # "Delete"
    <3>1. n + 1 \in DOMAIN audit_log' /\ n + 1 > i
      BY <1>1, <1>6
    <3>2. audit_log'[n + 1].record_id = id /\ audit_log'[n + 1].action = action
      BY <1>1
    <3>3. QED
      BY <1>4, <2>1, <3>1, <3>2 DEF Standing
  <2>5. rid \in Ids
    BY <1>3, <1>6
  <2>6. CASE rid # id
    BY <2>1, <2>3, <2>5, <2>6 DEF Statement
  <2>7. CASE rid = id
    <3>1. action # "Write"
      BY <2>3, <2>7 DEF Statement
    <3>2. action \in {"ReadGranted", "ReadDenied"}
      BY <2>4, <2>7, <3>1 DEF AuditAction
    <3>3. recs[rid] = records[rid]
      BY <2>7, <3>2 DEF Statement
    <3>4. QED
      BY <2>1, <2>3, <3>3
  <2>8. QED
    BY <2>6, <2>7
<1>7. QED
  BY <1>1, <1>5, <1>6

(* A write adds a record and a delete takes one away.                      *)
LEMMA StatementTallies ==
    ASSUME ToolsIInv, NEW id \in Ids, NEW o \in Owners,
           NEW action \in AuditAction, NEW first \in Times, NEW t \in Times,
           NEW recs \in RecordMap, Statement(id, o, action, first, t, recs)
    PROVE  Tallied'
<1>1. PICK e \in AuditEntry :
          /\ e.record_id = id /\ e.action = action
          /\ audit_log' = Append(audit_log, e)
  BY StatementLogs DEF ToolsIInv
<1>2. records \in RecordMap /\ audit_log \in Seq(AuditEntry)
  BY DEF ToolsIInv, ToolsOK
<1> DEFINE W == Cardinality(Logged(audit_log, "Write"))
           D == Cardinality(Logged(audit_log, "Delete"))
<1>3. /\ W \in Nat /\ D \in Nat
      /\ Cardinality(Logged(audit_log', "Write")) =
             W + (IF action = "Write" THEN 1 ELSE 0)
      /\ Cardinality(Logged(audit_log', "Delete")) =
             D + (IF action = "Delete" THEN 1 ELSE 0)
  BY <1>1, <1>2, LoggedAppend
<1>4. IsFiniteSet(Live) /\ W = Cardinality(Live) + D
  BY DEF ToolsIInv, Tallied
<1>5. Cardinality(Live) \in Nat
  BY <1>4, FS_CardinalityType
<1>6. Live' = {from_record(recs, i) : i \in {k \in Ids : recs[k] # Absent}}
  BY DEF Live, Statement
<1>7. \A i \in Ids \ {id} : from_record(recs, i) = from_record(records, i)
  BY DEF Statement, from_record
<1>8. /\ \A i \in Ids : from_record(recs, i).id = i
      /\ \A i \in Ids : from_record(records, i).id = i
  BY <1>2, LiveFacts
<1>9. CASE action = "Write"
  <2> DEFINE r == from_record(recs, id)
  <2>1. records[id] = Absent /\ recs[id] # Absent
    BY <1>9 DEF Statement
  <2>2. \A i \in Ids \ {id} : recs[i] = records[i]
    BY DEF Statement
  <2>3. r \notin Live
    BY <1>8, <2>1 DEF Live
  <2>4. Live' = Live \cup {r}
    BY <1>6, <1>7, <2>1, <2>2 DEF Live
  <2> HIDE DEF r, W, D
  <2>5. /\ IsFiniteSet(Live \cup {r})
        /\ Cardinality(Live \cup {r}) = Cardinality(Live) + 1
    BY <1>4, <2>3, FS_AddElement
  <2>6. /\ Cardinality(Logged(audit_log', "Write")) = W + 1
        /\ Cardinality(Logged(audit_log', "Delete")) = D
    BY <1>3, <1>9
  <2>7. W + 1 = Cardinality(Live) + 1 + D
    BY <1>3, <1>4, <1>5
  <2>8. IsFiniteSet(Live)' /\ Cardinality(Live') = Cardinality(Live) + 1
    BY <2>4, <2>5
  <2>9. QED
    BY <2>6, <2>7, <2>8 DEF Tallied
<1>10. CASE action = "Delete"
  <2> DEFINE r == from_record(records, id)
  <2>1. records[id] # Absent /\ recs[id] = Absent
    BY <1>10 DEF Statement
  <2>2. \A i \in Ids \ {id} : recs[i] = records[i]
    BY DEF Statement
  <2>3. r \in Live
    BY <2>1 DEF Live
  <2>4. Live' = Live \ {r}
    <3>1. ASSUME NEW q \in Live'
          PROVE  q \in Live \ {r}
      <4>1. PICK i \in Ids : recs[i] # Absent /\ q = from_record(recs, i)
        BY <1>6
      <4>2. i # id /\ records[i] # Absent /\ q = from_record(records, i)
        BY <1>7, <2>1, <2>2, <4>1
      <4>3. q.id # r.id
        BY <1>8, <4>2
      <4>4. QED
        BY <4>2, <4>3 DEF Live
    <3>2. ASSUME NEW q \in Live \ {r}
          PROVE  q \in Live'
      <4>1. PICK i \in Ids : records[i] # Absent /\ q = from_record(records, i)
        BY DEF Live
      <4>2. i # id /\ recs[i] # Absent /\ q = from_record(recs, i)
        BY <1>7, <2>2, <4>1
      <4>3. QED
        BY <1>6, <4>2
    <3>3. QED
      BY <3>1, <3>2
  <2> HIDE DEF r, W, D
  <2>5. /\ IsFiniteSet(Live \ {r})
        /\ Cardinality(Live \ {r}) = Cardinality(Live) - 1
    BY <1>4, <2>3, FS_RemoveElement
  <2>6. /\ Cardinality(Logged(audit_log', "Write")) = W
        /\ Cardinality(Logged(audit_log', "Delete")) = D + 1
    BY <1>3, <1>10
  <2>7. W = Cardinality(Live) - 1 + (D + 1)
    BY <1>3, <1>4, <1>5
  <2>8. IsFiniteSet(Live)' /\ Cardinality(Live') = Cardinality(Live) - 1
    BY <2>4, <2>5
  <2>9. QED
    BY <2>6, <2>7, <2>8 DEF Tallied
<1>11. CASE action \in {"ReadGranted", "ReadDenied"}
  <2>1. \A i \in Ids : recs[i] = records[i]
    BY <1>11 DEF Statement
  <2>2. Live' = Live
    BY <1>6, <2>1 DEF Live, from_record
  <2> HIDE DEF W, D
  <2>3. /\ Cardinality(Logged(audit_log', "Write")) = W
        /\ Cardinality(Logged(audit_log', "Delete")) = D
    BY <1>3, <1>11
  <2>4. QED
    BY <1>4, <2>2, <2>3 DEF Tallied
<1>12. QED
  BY <1>9, <1>10, <1>11 DEF AuditAction

LEMMA StatementStep ==
    ASSUME ToolsIInv, NEW id \in Ids, NEW o \in Owners,
           NEW action \in AuditAction, NEW first \in Times, NEW t \in Times,
           NEW recs \in RecordMap, Statement(id, o, action, first, t, recs)
    PROVE  ToolsIInv'
BY StatementTypes, StatementStamps, StatementTallies DEF ToolsIInv

(* Write, Read and Delete are such statements.                             *)
LEMMA WriteStep ==
    ASSUME ToolsIInv, NEW id \in Ids, NEW o \in Owners, NEW tier \in Tiers,
           NEW payload \in Payloads, NEW created_at \in Times, NEW t \in Times,
           Write(id, o, tier, payload, created_at, t)
    PROVE  ToolsIInv'
<1> DEFINE r == [tier |-> tier, owner_id |-> o, payload |-> payload,
                 created_at |-> created_at]
           recs == [records EXCEPT ![id] = r]
<1>1. records \in RecordMap
  BY DEF ToolsIInv, ToolsOK
<1>2. r \in Record /\ r # Absent
  BY <1>1, AbsentRecordAssumption DEF Record
<1>3. r.owner_id = o /\ r.created_at = created_at
  OBVIOUS
<1>4. records' = recs
  BY DEF Write
<1> HIDE DEF r
<1>5. recs \in RecordMap /\ recs[id] = r
      /\ \A i \in Ids \ {id} : recs[i] = records[i]
  BY <1>1, <1>2 DEF RecordMap
<1> HIDE DEF recs
<1>6. Statement(id, o, "Write", created_at, t, recs)
  BY <1>2, <1>3, <1>4, <1>5 DEF Statement, Write, InUse, Log
<1>7. "Write" \in AuditAction
  BY DEF AuditAction
<1>8. QED
  BY <1>5, <1>6, <1>7, StatementStep

LEMMA ReadStep ==
    ASSUME ToolsIInv, NEW id \in Ids, NEW o \in Owners, NEW t \in Times,
           Read(id, o, t)
    PROVE  ToolsIInv'
<1> DEFINE action == IF is_readable_by(records[id], o)
                     THEN "ReadGranted" ELSE "ReadDenied"
<1>1. records \in RecordMap
  BY DEF ToolsIInv, ToolsOK
<1>2. action \in AuditAction /\ action \in {"ReadGranted", "ReadDenied"}
  BY DEF AuditAction
<1>3. action = "ReadDenied" => records[id].owner_id # o
  BY DEF is_readable_by
<1>4. /\ source = Absent /\ records[id] # Absent
      /\ audit_log' = append_audit(audit_log, id, o, action, t)
      /\ births' = Append(births, t)
      /\ UNCHANGED <<records, file, outcome>>
  BY DEF Read, InUse, Log
<1> HIDE DEF action
<1>5. Statement(id, o, action, t, t, records)
  BY <1>2, <1>3, <1>4 DEF Statement
<1>6. QED
  BY <1>1, <1>2, <1>5, StatementStep

LEMMA DeleteStep ==
    ASSUME ToolsIInv, NEW id \in Ids, NEW o \in Owners, NEW t \in Times,
           Delete(id, o, t)
    PROVE  ToolsIInv'
<1> DEFINE recs == [records EXCEPT ![id] = Absent]
<1>1. records \in RecordMap
  BY DEF ToolsIInv, ToolsOK
<1>2. records' = recs
  BY DEF Delete
<1>3. recs \in RecordMap /\ recs[id] = Absent
      /\ \A i \in Ids \ {id} : recs[i] = records[i]
  BY <1>1 DEF RecordMap
<1> HIDE DEF recs
<1>4. Statement(id, o, "Delete", t, t, recs)
  BY <1>2, <1>3 DEF Statement, Delete, InUse, Log
<1>5. "Delete" \in AuditAction
  BY DEF AuditAction
<1>6. QED
  BY <1>3, <1>4, <1>5, StatementStep

-----------------------------------------------------------------------------
(* The file.                                                               *)

(* The store does not change while the file does.                          *)
LEMMA StoreUntouched ==
    ASSUME ToolsIInv, UNCHANGED store
    PROVE  /\ StampedByLog' /\ Tallied'
           /\ records' \in RecordMap /\ audit_log' \in Seq(AuditEntry)
           /\ births' \in Seq(Times) /\ Len(births') = Len(audit_log')
           /\ Consistent(records', audit_log')
<1>1. records' = records /\ audit_log' = audit_log /\ births' = births
  BY DEF store
<1>2. Tallied'
  BY <1>1 DEF ToolsIInv, Tallied, Live
<1>3. StampedByLog'
  BY <1>1 DEF ToolsIInv, StampedByLog
<1>4. QED
  BY <1>1, <1>2, <1>3 DEF ToolsIInv, ToolsOK

(* An export names no id twice, whatever the order of the list.            *)
LEMMA ExportFacts ==
    ASSUME ToolsIInv, NEW listing \in SetToSeqs(Live), NEW opts
    PROVE  LET out == export(listing, opts)
           IN  /\ out \in Seq(Listed)
               /\ \A i, j \in DOMAIN out : out[i].id = out[j].id => i = j
<1> DEFINE K == {i \in DOMAIN listing : exported(listing[i], opts)}
           c == Cardinality(Live)
<1>1. records \in RecordMap /\ IsFiniteSet(Live)
  BY DEF ToolsIInv, ToolsOK, Tallied
<1>2. c \in Nat
  BY <1>1, FS_CardinalityType
<1>3. /\ listing \in [1..c -> Live]
      /\ \A i, j \in 1..c : i # j => listing[i] # listing[j]
  BY DEF SetToSeqs
<1> HIDE DEF c
<1>4. listing \in Seq(Live)
  BY <1>2, <1>3
<1>5. Live \subseteq Listed
  BY <1>1, LiveFacts DEF Live
<1>6. \A q, r \in Live : q.id = r.id => q = r
  BY <1>1, LiveFacts DEF Live
<1>7. K \in SUBSET DOMAIN listing
  OBVIOUS
<1>8. export(listing, opts) = Kept(listing, K)
  BY DEF export
<1> HIDE DEF K
<1> DEFINE out == Kept(listing, K)
           p == InOrder(K)
           m == Cardinality(K)
<1> HIDE DEF out, p, m
<1>9. /\ out \in Seq(Live) /\ Len(out) = m /\ m \in Nat
      /\ \A j \in 1..m : p[j] \in K /\ out[j] = listing[p[j]]
      /\ \A i, j \in 1..m : i # j => p[i] # p[j]
  <2>1. /\ Kept(listing, K) \in Seq(Live)
        /\ Len(Kept(listing, K)) = Cardinality(K) /\ Cardinality(K) \in Nat
    BY <1>4, <1>7, KeptIs
  <2>2. \A j \in 1..Cardinality(K) :
           /\ InOrder(K)[j] \in K
           /\ Kept(listing, K)[j] = listing[InOrder(K)[j]]
    BY <1>4, <1>7, KeptIs
  <2>3. \A i, j \in 1..Cardinality(K) :
           i # j => InOrder(K)[i] # InOrder(K)[j]
    BY <1>4, <1>7, KeptIs
  <2>4. QED
    BY <2>1, <2>2, <2>3, Zenon DEF out, p, m
<1>10. out \in Seq(Listed)
  BY <1>5, <1>9, SeqMonotonic
<1>11. DOMAIN out = 1..m
  BY <1>9, LenProperties
<1>12. ASSUME NEW i \in 1..m, NEW j \in 1..m, out[i].id = out[j].id
       PROVE  i = j
  <2>1. p[i] \in 1..c /\ p[j] \in 1..c
    BY <1>3, <1>7, <1>9
  <2>2. listing[p[i]].id = listing[p[j]].id
    BY <1>9, <1>12
  <2>3. listing[p[i]] = listing[p[j]]
    BY <1>3, <1>6, <2>1, <2>2
  <2>4. QED
    BY <1>3, <1>9, <2>1, <2>3
<1>13. QED
  BY <1>8, <1>10, <1>11, <1>12 DEF out

LEMMA ExportStep ==
    ASSUME ToolsIInv, NEW listing \in SetToSeqs(Live), NEW opts,
           Export(listing, opts)
    PROVE  ToolsIInv'
<1>1. /\ source' \in Seq(Listed)
      /\ \A i, j \in DOMAIN source' : source'[i].id = source'[j].id => i = j
  BY ExportFacts DEF Export
<1>2. /\ lines' = source' /\ outcome' = Absent /\ touched' = touched
      /\ UNCHANGED store
  BY DEF Export, ToolsIInv, ToolsOK
<1>3. source' # Absent
  BY <1>1, ToolsAssumption
<1>4. Len(source') \in Nat /\ SubSeq(source', 1, Len(source')) = source'
  BY <1>1, LenProperties, SubSeqFull
<1>5. Exported'
  BY <1>1, <1>2, <1>4 DEF Exported
<1>6. Imported'
  <2>1. source' \in Seq({source'[i] : i \in DOMAIN source'})
    BY <1>1, OfItsEntries
  <2>2. QED
    BY <1>2, <2>1 DEF Imported
<1>7. ToolsOK'
  BY <1>2, <1>3, StoreUntouched DEF ToolsIInv, ToolsOK
<1>8. QED
  BY <1>2, <1>5, <1>6, <1>7, StoreUntouched DEF ToolsIInv

LEMMA LoseLastLineStep ==
    ASSUME ToolsIInv, LoseLastLine
    PROVE  ToolsIInv'
<1> DEFINE S == {lines[i] : i \in DOMAIN lines}
           n == Len(lines)
<1>1. /\ outcome = Absent /\ outcome' = Absent /\ lines # <<>>
      /\ lines' = SubSeq(lines, 1, n - 1)
      /\ source' = source /\ touched' = touched /\ UNCHANGED store
  BY DEF LoseLastLine, Front
<1>2. lines \in Seq(S)
  BY DEF ToolsIInv, Imported
<1> HIDE DEF S
<1>3. n \in Nat \ {0}
  BY <1>1, <1>2, EmptySeq
<1>4. /\ lines' \in Seq(S) /\ Len(lines') = n - 1
      /\ \A i \in 1..(n - 1) : lines'[i] = lines[i]
  <2>1. n - 1 \in 0..Len(lines)
    BY <1>3
  <2>2. QED
    BY <1>1, <1>2, <2>1, PrefixIs
<1>5. Imported'
  <2>1. lines' \in Seq({lines'[i] : i \in DOMAIN lines'})
    BY <1>4, OfItsEntries
  <2>2. QED
    BY <1>1, <2>1 DEF Imported
<1>6. source # Absent
  BY <1>1 DEF ToolsIInv, ToolsOK
<1>7. Exported'
  <2>1. /\ source \in Seq(Listed)
        /\ \A i, j \in DOMAIN source : source[i].id = source[j].id => i = j
        /\ touched = 0 => n <= Len(source) /\ lines = SubSeq(source, 1, n)
    BY <1>6 DEF ToolsIInv, Exported
  <2>2. ASSUME touched = 0
        PROVE  /\ Len(lines') <= Len(source)
               /\ lines' = SubSeq(source, 1, Len(lines'))
    <3>1. n <= Len(source) /\ lines = SubSeq(source, 1, n)
      BY <2>1, <2>2
    <3>2. Len(source) \in Nat
      BY <2>1, LenProperties
    <3>3. n \in 0..Len(source) /\ n - 1 \in 0..Len(source)
      BY <1>3, <3>1, <3>2
    <3>4. \A i \in 1..n : lines[i] = source[i]
      BY <2>1, <3>1, <3>3, PrefixIs
    <3> DEFINE first == SubSeq(source, 1, n - 1)
    <3>5. /\ first \in Seq(Listed) /\ Len(first) = n - 1
          /\ \A i \in 1..(n - 1) : first[i] = source[i]
      BY <2>1, <3>3, PrefixIs
    <3> DEFINE T == S \cup Listed
    <3> HIDE DEF first
    <3>6. lines' \in Seq(T) /\ first \in Seq(T)
      BY <1>4, <3>5, SeqMonotonic
    <3> HIDE DEF T
    <3>7. \A i \in 1..(n - 1) : lines'[i] = first[i]
      BY <1>3, <1>4, <3>4, <3>5
    <3>8. lines' = first
      BY <1>4, <3>5, <3>6, <3>7, SeqEqual
    <3>9. QED
      BY <1>4, <3>3, <3>8 DEF first
  <2>3. QED
    BY <1>1, <2>1, <2>2 DEF Exported
<1>8. ToolsOK'
  BY <1>1, <1>6, StoreUntouched DEF ToolsIInv, ToolsOK
<1>9. QED
  BY <1>1, <1>5, <1>7, <1>8, StoreUntouched DEF ToolsIInv

LEMMA TransformStep ==
    ASSUME ToolsIInv, NEW opts, Transform(opts)
    PROVE  ToolsIInv'
<1>1. /\ source # Absent /\ outcome = Absent /\ touched < MaxTransforms
      /\ lines' = transform(lines, opts) /\ touched' = touched + 1
      /\ source' = source /\ outcome' = Absent /\ UNCHANGED store
  BY DEF Transform
<1>2. touched \in Nat /\ MaxTransforms \in Nat
  BY ToolsAssumption DEF ToolsIInv, ToolsOK
<1>3. touched' \in 0..MaxTransforms /\ touched' # 0
  BY <1>1, <1>2
<1>4. lines' \in Seq({lines'[i] : i \in DOMAIN lines'})
  <2> DEFINE S == {lines[i] : i \in DOMAIN lines}
             T == {lines'[i] : i \in DOMAIN lines'}
             n == Len(lines)
  <2>1. lines \in Seq(S)
    BY DEF ToolsIInv, Imported
  <2> HIDE DEF S
  <2>2. DOMAIN lines = 1..n /\ n \in Nat
    BY <2>1, LenProperties
  <2> HIDE DEF n
  <2>3. DOMAIN lines' = 1..n /\ lines' = [i \in 1..n |-> lines'[i]]
    BY <1>1, <2>2 DEF transform
  <2>4. lines' \in [1..n -> T]
    BY <2>3
  <2> HIDE DEF T
  <2>5. lines' \in Seq(T)
    BY <2>2, <2>4
  <2>6. QED
    BY <2>5 DEF T
<1>5. Exported' /\ Imported'
  BY <1>1, <1>3, <1>4 DEF ToolsIInv, Exported, Imported
<1>6. ToolsOK'
  BY <1>1, <1>3, StoreUntouched DEF ToolsIInv, ToolsOK
<1>7. QED
  BY <1>1, <1>5, <1>6, StoreUntouched DEF ToolsIInv

LEMMA ImportStep ==
    ASSUME ToolsIInv, NEW existing, NEW strategy, Import(existing, strategy)
    PROVE  ToolsIInv'
<1>1. /\ source # Absent /\ UNCHANGED store
      /\ source' = source /\ lines' = lines /\ touched' = touched
      /\ outcome' = [result |-> import(lines, existing, strategy),
                     existing |-> existing, strategy |-> strategy]
  BY DEF Import, file
<1>2. outcome'.result = import(lines', outcome'.existing, outcome'.strategy)
  BY <1>1
<1>3. Exported'
  BY <1>1 DEF ToolsIInv, Exported
<1>4. Imported'
  BY <1>1, <1>2 DEF ToolsIInv, Imported
<1>5. ToolsOK'
  BY <1>1, StoreUntouched DEF ToolsIInv, ToolsOK
<1>6. QED
  BY <1>1, <1>3, <1>4, <1>5, StoreUntouched DEF ToolsIInv

(* The invariant holds in every state.                                     *)
THEOREM ToolsInvariance == Spec => []ToolsIInv
<1>1. Init => ToolsIInv
  BY ToolsIInvInit
<1>2. ToolsIInv /\ [Next]_vars => ToolsIInv'
  <2>1. SUFFICES ASSUME ToolsIInv, [Next]_vars
                 PROVE  ToolsIInv'
    OBVIOUS
  <2>2. CASE UNCHANGED vars
    <3>1. UNCHANGED <<store, file, outcome>>
      BY <2>2 DEF vars
    <3>2. UNCHANGED <<records, audit_log, births, source, lines, touched,
                      outcome>>
      BY <3>1 DEF store, file
    <3>3. ToolsOK'
      BY <2>1, <3>2 DEF ToolsIInv, ToolsOK
    <3>4. Exported' /\ Imported'
      BY <2>1, <3>2 DEF ToolsIInv, Exported, Imported
    <3>5. QED
      BY <2>1, <3>1, <3>3, <3>4, StoreUntouched DEF ToolsIInv
  <2>3. CASE LoseLastLine
    BY <2>1, <2>3, LoseLastLineStep
  <2>4. ASSUME NEW id \in Ids, NEW o \in Owners, NEW t \in Times,
               NEW tier \in Tiers, NEW payload \in Payloads,
               NEW created_at \in Times,
               Write(id, o, tier, payload, created_at, t)
        PROVE  ToolsIInv'
    BY <2>1, <2>4, WriteStep
  <2>5. ASSUME NEW id \in Ids, NEW o \in Owners, NEW t \in Times, Read(id, o, t)
        PROVE  ToolsIInv'
    BY <2>1, <2>5, ReadStep
  <2>6. ASSUME NEW id \in Ids, NEW o \in Owners, NEW t \in Times,
               Delete(id, o, t)
        PROVE  ToolsIInv'
    BY <2>1, <2>6, DeleteStep
  <2>7. ASSUME NEW listing \in SetToSeqs(Live), NEW opts \in Exports,
               Export(listing, opts)
        PROVE  ToolsIInv'
    BY <2>1, <2>7, ExportStep
  <2>8. ASSUME NEW opts \in Transforms, Transform(opts)
        PROVE  ToolsIInv'
    BY <2>1, <2>8, TransformStep
  <2>9. ASSUME NEW existing \in SUBSET Ids, NEW strategy \in Strategies,
               Import(existing, strategy)
        PROVE  ToolsIInv'
    BY <2>1, <2>9, ImportStep
  <2>10. QED
    BY <2>1, <2>2, <2>3, <2>4, <2>5, <2>6, <2>7, <2>8, <2>9 DEF Next
<1>3. QED
  BY <1>1, <1>2, PTL DEF Spec

(* The type invariant, and that records and log stay consistent.           *)
THEOREM ToolsTypeCorrect == Spec => []ToolsOK
<1>1. ToolsIInv => ToolsOK
  BY DEF ToolsIInv
<1>2. QED
  BY <1>1, ToolsInvariance, PTL

-----------------------------------------------------------------------------
(* The import.                                                             *)

(* Three sets that divide the numbers up to n have n members together.     *)
LEMMA ThreeParts ==
    ASSUME NEW n \in Nat,
           NEW A \in SUBSET (1..n), NEW B \in SUBSET (1..n),
           NEW C \in SUBSET (1..n),
           A \cup B \cup C = 1..n,
           A \cap B = {}, A \cap C = {}, B \cap C = {}
    PROVE  /\ Cardinality(A) \in Nat /\ Cardinality(B) \in Nat
           /\ Cardinality(C) \in Nat
           /\ Cardinality(A) + Cardinality(B) + Cardinality(C) = n
<1>1. IsFiniteSet(1..n) /\ Cardinality(1..n) = n
  <2>1. /\ IsFiniteSet(1..n)
        /\ Cardinality(1..n) = IF 1 > n THEN 0 ELSE n - 1 + 1
    BY FS_Interval
  <2>2. QED
    BY <2>1
<1>2. /\ IsFiniteSet(A) /\ Cardinality(A) \in Nat
      /\ IsFiniteSet(B) /\ Cardinality(B) \in Nat
      /\ IsFiniteSet(C) /\ Cardinality(C) \in Nat
  BY PlacesFinite
<1>3. Cardinality({}) = 0
  BY FS_EmptySet
<1>4. /\ IsFiniteSet(A \cup B)
      /\ Cardinality(A \cup B) = Cardinality(A) + Cardinality(B)
  <2>1. /\ IsFiniteSet(A \cup B)
        /\ Cardinality(A \cup B) =
              Cardinality(A) + Cardinality(B) - Cardinality(A \cap B)
    BY <1>2, FS_Union
  <2>2. Cardinality(A \cap B) = 0
    BY <1>3
  <2>3. QED
    BY <1>2, <2>1, <2>2
<1>5. Cardinality((A \cup B) \cup C) = Cardinality(A \cup B) + Cardinality(C)
  <2>1. Cardinality((A \cup B) \cup C) =
            Cardinality(A \cup B) + Cardinality(C)
                - Cardinality((A \cup B) \cap C)
    BY <1>2, <1>4, FS_Union
  <2>2. (A \cup B) \cap C = {}
    OBVIOUS
  <2>3. Cardinality((A \cup B) \cap C) = 0
    BY <1>3, <2>2
  <2>4. QED
    BY <1>2, <1>4, <2>1, <2>3
<1>6. QED
  BY <1>1, <1>2, <1>4, <1>5

(* What an import returns: each line has one fate, and the records are the *)
(* lines imported, in the order of the lines.                              *)
LEMMA ImportFacts ==
    ASSUME NEW S, NEW edms \in Seq(S), NEW existing, NEW strategy
    PROVE  LET r == import(edms, existing, strategy)
               K == {i \in DOMAIN edms :
                        fate(edms[i], existing, strategy) = "imported"}
           IN  /\ r.records = Kept(edms, K)
               /\ r.imported = Cardinality(K)
               /\ r.imported + r.skipped + r.errors = Len(edms)
<1> DEFINE Places(f) == {i \in DOMAIN edms :
                            fate(edms[i], existing, strategy) = f}
           r == import(edms, existing, strategy)
<1>1. /\ r.records = Kept(edms, Places("imported"))
      /\ r.imported = Cardinality(Places("imported"))
      /\ r.skipped = Cardinality(Places("skipped"))
      /\ r.errors = Cardinality(Places("error"))
  BY DEF import, Count
<1>2. DOMAIN edms = 1..Len(edms) /\ Len(edms) \in Nat
  BY LenProperties
<1>3. \A edm : fate(edm, existing, strategy)
                   \in {"imported", "skipped", "error"}
  BY DEF fate
<1>4. Places("imported") \cup Places("skipped") \cup Places("error")
          = 1..Len(edms)
  BY <1>2, <1>3
<1>5. /\ Places("imported") \cap Places("skipped") = {}
      /\ Places("imported") \cap Places("error") = {}
      /\ Places("skipped") \cap Places("error") = {}
  OBVIOUS
<1>6. /\ Places("imported") \in SUBSET (1..Len(edms))
      /\ Places("skipped") \in SUBSET (1..Len(edms))
      /\ Places("error") \in SUBSET (1..Len(edms))
  BY <1>2
<1> HIDE DEF Places, r
<1>7. Cardinality(Places("imported")) + Cardinality(Places("skipped"))
          + Cardinality(Places("error")) = Len(edms)
  BY <1>2, <1>4, <1>5, <1>6, ThreeParts
<1>8. QED
  BY <1>1, <1>7 DEF Places, r

(* Every line of a file is accounted for by its import, and no record the  *)
(* target has is imported over unless Overwrite was asked for.             *)
THEOREM ImportsAccountForAll == Spec => []ImportAccountsForAll
<1>1. ASSUME ToolsIInv
      PROVE  ImportAccountsForAll
  <2>1. SUFFICES ASSUME outcome # Absent
                 PROVE  /\ outcome.result.imported + outcome.result.skipped
                               + outcome.result.errors = Len(lines)
                        /\ outcome.result.imported
                               = Len(outcome.result.records)
                        /\ outcome.strategy # "Overwrite" =>
                              \A i \in DOMAIN outcome.result.records :
                                 outcome.result.records[i].id
                                     \notin outcome.existing
    BY DEF ImportAccountsForAll
  <2> DEFINE S == {lines[i] : i \in DOMAIN lines}
             K == {i \in DOMAIN lines :
                      fate(lines[i], outcome.existing, outcome.strategy)
                          = "imported"}
             r == import(lines, outcome.existing, outcome.strategy)
  <2>2. lines \in Seq(S) /\ outcome.result = r
    BY <1>1, <2>1 DEF ToolsIInv, Imported
  <2>3. K \in SUBSET DOMAIN lines
    OBVIOUS
  <2>4. \A i \in K : outcome.strategy # "Overwrite" =>
                        lines[i].id \notin outcome.existing
    BY DEF fate
  <2> HIDE DEF S
  <2>5. /\ r.records = Kept(lines, K) /\ r.imported = Cardinality(K)
        /\ r.imported + r.skipped + r.errors = Len(lines)
    BY <2>2, ImportFacts
  <2> HIDE DEF K, r
  <2>6. /\ Kept(lines, K) \in Seq(S)
        /\ Len(Kept(lines, K)) = Cardinality(K)
        /\ \A j \in 1..Cardinality(K) :
              InOrder(K)[j] \in K /\ Kept(lines, K)[j] = lines[InOrder(K)[j]]
    BY <2>2, <2>3, KeptIs
  <2>7. DOMAIN Kept(lines, K) = 1..Cardinality(K)
    BY <2>6, LenProperties
  <2>8. ASSUME NEW i \in DOMAIN r.records, outcome.strategy # "Overwrite"
        PROVE  r.records[i].id \notin outcome.existing
    BY <2>4, <2>5, <2>6, <2>7, <2>8
  <2>9. QED
    BY <2>2, <2>5, <2>6, <2>8
<1>2. QED
  BY <1>1, ToolsInvariance, PTL

-----------------------------------------------------------------------------
(* The manifests.                                                          *)

(* How often each id occurs, by the places where it does.                  *)
LEMMA IdHashIs ==
    ASSUME NEW rs, NEW id \in {rs[j].id : j \in DOMAIN rs}
    PROVE  IdHash(rs)[id] = Cardinality({j \in DOMAIN rs : rs[j].id = id})
BY DEF IdHash, Count

(* Ids that occur equally often in two lists, and once each in the first,  *)
(* are the same ids and occur once each in the second.                     *)
LEMMA SameHashSameIds ==
    ASSUME NEW S, NEW a \in Seq(S), NEW T, NEW b \in Seq(T),
           IdHash(a) = IdHash(b),
           \A i, j \in DOMAIN a : a[i].id = a[j].id => i = j
    PROVE  /\ {b[i].id : i \in DOMAIN b} = {a[i].id : i \in DOMAIN a}
           /\ \A i, j \in DOMAIN b : b[i].id = b[j].id => i = j
<1> DEFINE At(rs, id) == {j \in DOMAIN rs : rs[j].id = id}
<1>1. DOMAIN IdHash(a) = {a[i].id : i \in DOMAIN a}
  BY DEF IdHash
<1>2. DOMAIN IdHash(b) = {b[i].id : i \in DOMAIN b}
  BY DEF IdHash
<1>3. {b[i].id : i \in DOMAIN b} = {a[i].id : i \in DOMAIN a}
  BY <1>1, <1>2
<1>4. ASSUME NEW i \in DOMAIN b, NEW j \in DOMAIN b,
             b[i].id = b[j].id, i # j
      PROVE  FALSE
  <2> DEFINE id == b[i].id
  <2>1. PICK k \in DOMAIN a : a[k].id = id
    BY <1>3
  <2>2. At(a, id) = {k}
    BY <2>1
  <2>3. /\ id \in {a[n].id : n \in DOMAIN a}
        /\ id \in {b[n].id : n \in DOMAIN b}
    BY <1>3
  <2>4. /\ IdHash(a)[id] = Cardinality(At(a, id))
        /\ IdHash(b)[id] = Cardinality(At(b, id))
    BY <2>3, IdHashIs
  <2>5. Cardinality(At(a, id)) = 1
    BY <2>2, FS_Singleton
  <2>6. i \in At(b, id) /\ j \in At(b, id)
    BY <1>4
  <2>7. IsFiniteSet(At(b, id))
    <3>1. DOMAIN b = 1..Len(b) /\ Len(b) \in Nat
      BY LenProperties
    <3>2. At(b, id) \in SUBSET (1..Len(b))
      BY <3>1
    <3> HIDE DEF At
    <3>3. QED
      BY <3>1, <3>2, PlacesFinite
  <2> HIDE DEF At, id
  <2>8. Cardinality(At(b, id)) = 1
    BY <2>4, <2>5
  <2>9. PICK x : At(b, id) = {x}
    BY <2>7, <2>8, FS_Singleton
  <2>10. QED
    BY <1>4, <2>6, <2>9
<1>5. QED
  BY <1>3, <1>4

(* When the manifests agree, nothing was lost and nothing doubled; and     *)
(* what was not transformed is what was exported.                          *)
THEOREM VerifiedAlwaysComplete == Spec => []VerifiedLosesNothing
<1>1. ASSUME ToolsIInv, Verified
      PROVE  LET out == outcome.result.records
             IN  /\ {out[i].id : i \in DOMAIN out}
                        = {source[i].id : i \in DOMAIN source}
                 /\ \A i \in DOMAIN out : ~Duplicate(out, i)
                 /\ touched = 0 => out = source
  <2> DEFINE S == {lines[i] : i \in DOMAIN lines}
             K == {i \in DOMAIN lines :
                      fate(lines[i], outcome.existing, outcome.strategy)
                          = "imported"}
             r == import(lines, outcome.existing, outcome.strategy)
             out == Kept(lines, K)
  <2>1. outcome # Absent /\ source # Absent
    BY <1>1 DEF Verified, ToolsIInv, ToolsOK
  <2>2. /\ source \in Seq(Listed)
        /\ \A i, j \in DOMAIN source : source[i].id = source[j].id => i = j
        /\ touched = 0 => /\ Len(lines) <= Len(source)
                          /\ lines = SubSeq(source, 1, Len(lines))
    BY <1>1, <2>1 DEF ToolsIInv, Exported
  <2>3. lines \in Seq(S) /\ outcome.result = r
    BY <1>1, <2>1 DEF ToolsIInv, Imported
  <2>4. K \in SUBSET DOMAIN lines
    OBVIOUS
  <2> HIDE DEF S
  <2>5. /\ r.records = Kept(lines, K) /\ r.imported = Cardinality(K)
        /\ r.imported + r.skipped + r.errors = Len(lines)
    BY <2>3, ImportFacts
  <2> HIDE DEF K, r
  <2>6. /\ out \in Seq(S) /\ Len(out) = Cardinality(K)
        /\ Cardinality(K) \in Nat /\ Cardinality(K) <= Len(lines)
    BY <2>3, <2>4, KeptIs
  <2>7. Cardinality(K) = Len(lines) => out = lines
    BY <2>3, <2>4, KeptAll
  <2> HIDE DEF out
  <2>8. outcome.result.records = out
    BY <2>3, <2>5 DEF out
  <2>9. Len(source) = Len(out) /\ IdHash(source) = IdHash(out)
    BY <1>1, <2>8 DEF Verified, verify_manifests, build_manifest
  <2>10. /\ {out[i].id : i \in DOMAIN out}
                = {source[i].id : i \in DOMAIN source}
         /\ \A i, j \in DOMAIN out : out[i].id = out[j].id => i = j
    BY <2>2, <2>6, <2>9, SameHashSameIds
  <2>11. ASSUME NEW i \in DOMAIN out
         PROVE  ~Duplicate(out, i)
    <3>1. DOMAIN out = 1..Len(out) /\ Len(out) \in Nat
      BY <2>6, LenProperties
    <3>2. \A j \in 1..(i - 1) : j \in DOMAIN out /\ j # i
      BY <3>1
    <3>3. QED
      BY <2>10, <3>2 DEF Duplicate
  <2>12. ASSUME touched = 0
         PROVE  out = source
    <3>1. Len(lines) \in Nat /\ Len(source) \in Nat
      BY <2>2, <2>3, LenProperties
    <3>2. Len(lines) = Len(source) /\ Cardinality(K) = Len(lines)
      BY <2>2, <2>6, <2>9, <2>12, <3>1
    <3>3. out = SubSeq(source, 1, Len(source))
      BY <2>2, <2>7, <2>12, <3>2
    <3>4. source \in Seq(Listed)
      BY <2>2
    <3>5. SubSeq(source, 1, Len(source)) = source
      BY <3>4, SubSeqFull
    <3>6. QED
      BY <3>3, <3>5
  <2>13. /\ {out[i].id : i \in DOMAIN out}
                 = {source[i].id : i \in DOMAIN source}
         /\ \A i \in DOMAIN out : ~Duplicate(out, i)
         /\ touched = 0 => out = source
    BY <2>10, <2>11, <2>12
  <2>14. QED
    BY <2>8, <2>13
<1>2. ToolsIInv => VerifiedLosesNothing
  BY <1>1 DEF VerifiedLosesNothing
<1>3. QED
  BY <1>2, ToolsInvariance, PTL

-----------------------------------------------------------------------------
(* The reports.                                                            *)

(* The listing has every record once.                                      *)
LEMMA ListingFacts ==
    ASSUME IsFiniteSet(Live)
    PROVE  /\ Cardinality(Live) \in Nat
           /\ Listing \in Seq(Live) /\ Len(Listing) = Cardinality(Live)
           /\ DOMAIN Listing = 1..Cardinality(Live)
           /\ \A i, j \in DOMAIN Listing : Listing[i] = Listing[j] => i = j
           /\ \A r \in Live : \E i \in DOMAIN Listing : Listing[i] = r
<1> DEFINE n == Cardinality(Live)
<1>1. n \in Nat /\ ExistsBijection(1..n, Live)
  BY FS_CardinalityType
<1>2. \E f \in [1..n -> Live] : IsInjective(f)
  BY <1>1 DEF ExistsBijection, Bijection, Injection
<1>3. Listing = CHOOSE f \in [1..n -> Live] : IsInjective(f)
  BY DEF Listing, SetToSeq
<1>4. Listing \in [1..n -> Live] /\ IsInjective(Listing)
  BY <1>2, <1>3
<1>5. \A i, j \in DOMAIN Listing : Listing[i] = Listing[j] => i = j
  BY <1>4 DEF IsInjective
<1>6. Listing \in Surjection(1..n, Live)
  <2>1. Listing \in Injection(1..n, Live)
    BY <1>4 DEF Injection
  <2>2. Cardinality(1..n) = n
    <3>1. Cardinality(1..n) = IF 1 > n THEN 0 ELSE n - 1 + 1
      BY <1>1, FS_Interval
    <3>2. QED
      BY <1>1, <3>1
  <2>3. QED
    BY <2>1, <2>2, FS_Injection
<1>7. \A r \in Live : \E i \in 1..n : Listing[i] = r
  BY <1>6 DEF Surjection
<1> HIDE DEF n
<1>8. Listing \in Seq(Live) /\ DOMAIN Listing = 1..n
  BY <1>1, <1>4
<1>9. Len(Listing) = n
  BY <1>1, <1>8, LenProperties
<1>10. QED
  BY <1>1, <1>5, <1>7, <1>8, <1>9 DEF n

(* Each listed record is that of its id, and each id with a record is      *)
(* listed.                                                                 *)
LEMMA ListingIds ==
    ASSUME ToolsIInv
    PROVE  /\ \A i \in DOMAIN Listing :
                 /\ Listing[i].id \in Ids
                 /\ records[Listing[i].id] # Absent
                 /\ Listing[i] = from_record(records, Listing[i].id)
                 /\ Listing[i].owner_id = records[Listing[i].id].owner_id
                 /\ Listing[i].tier = records[Listing[i].id].tier
                 /\ Listing[i].created_at = records[Listing[i].id].created_at
           /\ \A id \in Ids : records[id] # Absent =>
                 \E i \in DOMAIN Listing : Listing[i].id = id
           /\ \A i, j \in DOMAIN Listing :
                 Listing[i].id = Listing[j].id => i = j
<1>1. IsFiniteSet(Live) /\ records \in RecordMap
  BY DEF ToolsIInv, Tallied, ToolsOK
<1>2. \A id \in Ids : from_record(records, id).id = id
  BY <1>1, LiveFacts
<1>3. ASSUME NEW i \in DOMAIN Listing
      PROVE  /\ Listing[i].id \in Ids
             /\ records[Listing[i].id] # Absent
             /\ Listing[i] = from_record(records, Listing[i].id)
  <2>1. Listing[i] \in Live
    BY <1>1, ListingFacts, ElementOfSeq
  <2>2. PICK id \in Ids : /\ records[id] # Absent
                          /\ Listing[i] = from_record(records, id)
    BY <2>1 DEF Live
  <2>3. Listing[i].id = id
    BY <1>2, <2>2
  <2>4. QED
    BY <2>2, <2>3
<1>4. ASSUME NEW id \in Ids, records[id] # Absent
      PROVE  \E i \in DOMAIN Listing : Listing[i].id = id
  <2>1. from_record(records, id) \in Live
    BY <1>4 DEF Live
  <2>2. PICK i \in DOMAIN Listing : Listing[i] = from_record(records, id)
    BY <1>1, <2>1, ListingFacts
  <2>3. QED
    BY <1>2, <2>2
<1>5. ASSUME NEW i \in DOMAIN Listing, NEW j \in DOMAIN Listing,
             Listing[i].id = Listing[j].id
      PROVE  i = j
  <2>1. Listing[i] = Listing[j]
    BY <1>3, <1>5
  <2>2. QED
    BY <1>1, <2>1, ListingFacts
<1>6. ASSUME NEW i \in DOMAIN Listing
      PROVE  /\ Listing[i].owner_id = records[Listing[i].id].owner_id
             /\ Listing[i].tier = records[Listing[i].id].tier
             /\ Listing[i].created_at = records[Listing[i].id].created_at
  BY <1>1, <1>3, LiveFacts
<1>7. QED
  BY <1>3, <1>4, <1>5, <1>6

(* The erasure report of an owner names the ids that the log leaves alive  *)
(* under that owner, each counted once.                                    *)
LEMMA ErasureFacts ==
    ASSUME ToolsIInv, NEW o \in Owners
    PROVE  LET erasable == erasure_report(Listing, audit_log, o).erasable_ids
           IN  /\ erasable = {id \in Ids :
                                LiveBy(audit_log, Len(audit_log), id, o)}
               /\ Cardinality({i \in DOMAIN Listing :
                                  Listing[i].owner_id = o})
                      = Cardinality(erasable)
<1> DEFINE P == {i \in DOMAIN Listing : Listing[i].owner_id = o}
           E == {Listing[i].id : i \in P}
           f == [i \in P |-> Listing[i].id]
<1>1. erasure_report(Listing, audit_log, o).erasable_ids = E
  BY DEF erasure_report
<1>2. \A id \in Ids : LiveBy(audit_log, Len(audit_log), id, o) <=>
                          records[id] # Absent /\ records[id].owner_id = o
  <2>1. OwnersMatch(OwnerMap(records), audit_log)
    BY DEF ToolsIInv, ToolsOK, Consistent
  <2>2. \A id \in Ids : OwnerMap(records)[id] = o <=>
                            LiveBy(audit_log, Len(audit_log), id, o)
    BY <2>1 DEF OwnersMatch
  <2>3. o # Absent
    BY AbsentAssumption
  <2>4. QED
    BY <2>2, <2>3 DEF OwnerMap
<1>3. E = {id \in Ids : records[id] # Absent /\ records[id].owner_id = o}
  <2>1. ASSUME NEW id \in E
        PROVE  id \in Ids /\ records[id] # Absent /\ records[id].owner_id = o
    BY ListingIds
  <2>2. ASSUME NEW id \in Ids, records[id] # Absent, records[id].owner_id = o
        PROVE  id \in E
    BY <2>2, ListingIds
  <2>3. QED
    BY <2>1, <2>2
<1>4. f \in Bijection(P, E)
  <2>1. f \in [P -> E]
    OBVIOUS
  <2>2. \A i, j \in P : f[i] = f[j] => i = j
    BY ListingIds
  <2>3. \A id \in E : \E i \in P : f[i] = id
    OBVIOUS
  <2> HIDE DEF P, E, f
  <2>4. QED
    BY <2>1, <2>2, <2>3 DEF Bijection, Injection, Surjection, IsInjective
<1>5. IsFiniteSet(P)
  <2>1. IsFiniteSet(Live)
    BY DEF ToolsIInv, Tallied
  <2>2. DOMAIN Listing = 1..Cardinality(Live) /\ Cardinality(Live) \in Nat
    BY <2>1, ListingFacts
  <2>3. P \in SUBSET (1..Cardinality(Live))
    BY <2>2
  <2> HIDE DEF P
  <2>4. QED
    BY <2>2, <2>3, PlacesFinite
<1>6. Cardinality(E) = Cardinality(P)
  <2> HIDE DEF P, E, f
  <2>1. ExistsBijection(P, E)
    BY <1>4 DEF ExistsBijection
  <2>2. QED
    BY <1>5, <2>1, FS_Bijection
<1>7. QED
  BY <1>1, <1>2, <1>3, <1>6

(* In a log in the order of its times, none of them 0, the first time that *)
(* from_entries folds is that of the first entry.                          *)
(* x is the least of the first k times.                                    *)
LeastOf(es, k, x) ==
    /\ \E i \in 1..k : x = es[i].timestamp
    /\ \A i \in 1..k : x <= es[i].timestamp

LEMMA LeastOfTimes ==
    ASSUME NEW es, NEW n \in Nat \ {0},
           \A k \in 1..n : es[k].timestamp \in Nat \ {0}
    PROVE  /\ LeastOf(es, 1, es[1].timestamp)
           /\ \A k \in 1..n : \E x : LeastOf(es, k, x)
           /\ \A k \in 1..n : \A x, y :
                 LeastOf(es, k, x) /\ LeastOf(es, k, y) => x = y
           /\ \A k \in 2..n : \A x : LeastOf(es, k - 1, x) =>
                 LeastOf(es, k, IF x = 0 \/ es[k].timestamp < x
                                THEN es[k].timestamp ELSE x)
<1>1. ASSUME NEW k \in 1..n
      PROVE  \E x : LeastOf(es, k, x)
  <2> DEFINE K == {es[i].timestamp : i \in 1..k}
  <2>1. K \in SUBSET Nat /\ es[k].timestamp \in K
    OBVIOUS
  <2> HIDE DEF K
  <2>2. PICK x \in K : \A y \in K : x <= y
    BY <2>1, LeastNumber
  <2>3. QED
    BY <2>2 DEF K, LeastOf
<1>2. ASSUME NEW k \in 1..n, NEW x, NEW y,
             LeastOf(es, k, x), LeastOf(es, k, y)
      PROVE  x = y
  <2>1. x \in Nat /\ y \in Nat /\ x <= y /\ y <= x
    BY <1>2 DEF LeastOf
  <2>2. QED
    BY <2>1
<1>3. LeastOf(es, 1, es[1].timestamp)
  BY DEF LeastOf
<1>4. ASSUME NEW k \in 2..n, NEW x, LeastOf(es, k - 1, x)
      PROVE  LeastOf(es, k, IF x = 0 \/ es[k].timestamp < x
                            THEN es[k].timestamp ELSE x)
  <2>1. k \in 1..n /\ k - 1 \in 1..n
    OBVIOUS
  <2>2. \A i \in 1..k : i \in 1..(k - 1) \/ i = k
    BY <2>1
  <2>3. x \in Nat \ {0} /\ es[k].timestamp \in Nat
    BY <1>4, <2>1 DEF LeastOf
  <2>4. CASE es[k].timestamp < x
    <3>1. \A i \in 1..k : es[k].timestamp <= es[i].timestamp
      BY <1>4, <2>1, <2>2, <2>3, <2>4 DEF LeastOf
    <3>2. QED
      BY <2>1, <2>4, <3>1 DEF LeastOf
  <2>5. CASE ~(es[k].timestamp < x)
    <3>1. \A i \in 1..k : x <= es[i].timestamp
      BY <1>4, <2>2, <2>3, <2>5 DEF LeastOf
    <3>2. \E i \in 1..k : x = es[i].timestamp
      BY <1>4 DEF LeastOf
    <3>3. QED
      BY <2>3, <2>5, <3>1, <3>2 DEF LeastOf
  <2>6. QED
    BY <2>4, <2>5
<1>5. QED
  BY <1>1, <1>2, <1>3, <1>4

(* The fold of from_entries finds the least time, in whatever order the    *)
(* clock gave them.                                                        *)
LEMMA EarliestIsLeast ==
    ASSUME NEW es \in Seq(AuditEntry), es # <<>>, 0 \notin Times
    PROVE  LeastOf(es, Len(es), earliest_timestamp(es))
<1> DEFINE n == Len(es)
           Fold(f) == [k \in 0..n |->
                         IF k = 0 THEN 0
                         ELSE IF f[k-1] = 0 \/ es[k].timestamp < f[k-1]
                              THEN es[k].timestamp ELSE f[k-1]]
           g == [k \in 0..n |-> IF k = 0 THEN 0
                                ELSE CHOOSE x : LeastOf(es, k, x)]
           e == CHOOSE f : f = Fold(f)
<1>1. earliest_timestamp(es) = e[n]
  BY DEF earliest_timestamp
<1>2. n \in Nat \ {0}
  BY EmptySeq
<1>3. \A k \in 1..n : es[k].timestamp \in Nat \ {0}
  <2>1. \A a \in AuditEntry : a.timestamp \in Nat \ {0}
    BY TimesAssumption DEF AuditEntry
  <2>2. \A k \in 1..n : es[k] \in AuditEntry
    BY ElementOfSeq
  <2>3. QED
    BY <2>1, <2>2
<1> HIDE DEF n
<1>4. /\ LeastOf(es, 1, es[1].timestamp)
      /\ \A k \in 1..n : \E x : LeastOf(es, k, x)
      /\ \A k \in 1..n : \A x, y :
            LeastOf(es, k, x) /\ LeastOf(es, k, y) => x = y
      /\ \A k \in 2..n : \A x : LeastOf(es, k - 1, x) =>
            LeastOf(es, k, IF x = 0 \/ es[k].timestamp < x
                           THEN es[k].timestamp ELSE x)
  BY <1>2, <1>3, LeastOfTimes
<1>5. g = Fold(g)
  <2>1. \A k \in 1..n : LeastOf(es, k, g[k])
    BY <1>4
  <2>2. ASSUME NEW k \in 0..n
        PROVE  g[k] = Fold(g)[k]
    <3>1. CASE k = 0
      BY <3>1
    <3>2. CASE k = 1
      <4>1. g[0] = 0 /\ 1 \in 1..n
        BY <1>2
      <4> HIDE DEF g
      <4>2. LeastOf(es, 1, g[1])
        BY <2>1, <4>1
      <4>3. g[1] = es[1].timestamp
        <5>1. LeastOf(es, 1, es[1].timestamp)
          BY <1>4
        <5>2. \A x, y : LeastOf(es, 1, x) /\ LeastOf(es, 1, y) => x = y
          BY <1>4, <4>1
        <5>3. QED
          BY <4>2, <5>1, <5>2
      <4>4. QED
        BY <1>2, <3>2, <4>1, <4>3
    <3>3. CASE k > 1
      <4>1. k - 1 \in 1..n /\ k \in 1..n /\ k \in 2..n /\ k # 0
        BY <1>2, <2>2, <3>3
      <4>2. LeastOf(es, k - 1, g[k-1]) /\ LeastOf(es, k, g[k])
        BY <2>1, <4>1
      <4> HIDE DEF g
      <4>3. LeastOf(es, k, IF g[k-1] = 0 \/ es[k].timestamp < g[k-1]
                           THEN es[k].timestamp ELSE g[k-1])
        BY <1>4, <4>1, <4>2
      <4>4. g[k] = IF g[k-1] = 0 \/ es[k].timestamp < g[k-1]
                   THEN es[k].timestamp ELSE g[k-1]
        BY <1>4, <4>1, <4>2, <4>3
      <4>5. QED
        BY <4>1, <4>4
    <3>4. QED
      BY <1>2, <3>1, <3>2, <3>3
  <2>3. g = [k \in 0..n |-> g[k]] /\ Fold(g) = [k \in 0..n |-> Fold(g)[k]]
    OBVIOUS
  <2> HIDE DEF g, Fold
  <2>4. QED
    BY <2>2, <2>3
<1>6. e = Fold(e)
  BY <1>5
<1> HIDE DEF e
<1>7. /\ e[0] = 0
      /\ \A k \in 1..n :
            e[k] = IF e[k-1] = 0 \/ es[k].timestamp < e[k-1]
                   THEN es[k].timestamp ELSE e[k-1]
  <2>1. \A k \in 0..n : e[k] = Fold(e)[k]
    BY <1>6
  <2>2. e[0] = 0
    BY <1>2, <2>1
  <2>3. \A k \in 1..n : k \in 0..n /\ k # 0
    BY <1>2
  <2>4. QED
    BY <2>1, <2>2, <2>3
<1>8. \A k \in 1..n : LeastOf(es, k, e[k])
  <2> DEFINE K == {k \in 1..n : ~LeastOf(es, k, e[k])}
  <2>1. SUFFICES ASSUME NEW x \in K
                 PROVE  FALSE
    OBVIOUS
  <2>2. K \in SUBSET Nat
    OBVIOUS
  <2> HIDE DEF K
  <2>3. PICK m \in K : \A k \in K : m <= k
    BY <2>1, <2>2, LeastNumber
  <2>4. m \in 1..n /\ ~LeastOf(es, m, e[m])
    BY <2>3 DEF K
  <2>5. CASE m = 1
    <3>1. e[m-1] = 0
      BY <1>7, <2>5
    <3>2. e[1] = es[1].timestamp
      BY <1>7, <2>4, <2>5, <3>1
    <3>3. QED
      BY <1>4, <2>4, <2>5, <3>2
  <2>6. CASE m # 1
    <3>1. m - 1 \in 1..n /\ m - 1 < m /\ m \in 2..n
      BY <1>2, <2>4, <2>6
    <3>2. m - 1 \notin K
      BY <2>2, <2>3, <3>1
    <3>3. LeastOf(es, m - 1, e[m-1])
      BY <3>1, <3>2 DEF K
    <3>4. LeastOf(es, m, IF e[m-1] = 0 \/ es[m].timestamp < e[m-1]
                         THEN es[m].timestamp ELSE e[m-1])
      BY <1>4, <3>1, <3>3
    <3>5. e[m] = IF e[m-1] = 0 \/ es[m].timestamp < e[m-1]
                 THEN es[m].timestamp ELSE e[m-1]
      BY <1>7, <2>4
    <3>6. QED
      BY <2>4, <3>4, <3>5
  <2>7. QED
    BY <2>5, <2>6
<1>9. n \in 1..n
  BY <1>2
<1>10. QED
  BY <1>1, <1>8, <1>9 DEF n

(* The greatest time is one of the times, and no less than any.            *)
LEMMA LatestIsGreatest ==
    ASSUME NEW es \in Seq(AuditEntry), es # <<>>
    PROVE  /\ \E i \in 1..Len(es) : latest_timestamp(es) = es[i].timestamp
           /\ \A i \in 1..Len(es) : es[i].timestamp <= latest_timestamp(es)
<1> DEFINE times == {es[i].timestamp : i \in DOMAIN es} \cup {0}
           n == Len(es)
           Top(k, i) == \A j \in 1..k : es[j].timestamp <= es[i].timestamp
           K == {k \in 1..n : ~ \E i \in 1..k : Top(k, i)}
<1>1. n \in Nat \ {0} /\ DOMAIN es = 1..n
  BY EmptySeq, LenProperties
<1>2. \A k \in 1..n : es[k].timestamp \in Nat
  <2>1. \A a \in AuditEntry : a.timestamp \in Nat
    BY TimesAssumption DEF AuditEntry
  <2>2. \A k \in 1..n : es[k] \in AuditEntry
    BY ElementOfSeq
  <2>3. QED
    BY <2>1, <2>2
<1> HIDE DEF n
<1>3. \A k \in 1..n : \E i \in 1..k : Top(k, i)
  <2>1. SUFFICES ASSUME NEW x \in K
                 PROVE  FALSE
    OBVIOUS
  <2>2. K \in SUBSET Nat
    OBVIOUS
  <2> HIDE DEF K
  <2>3. PICK m \in K : \A k \in K : m <= k
    BY <2>1, <2>2, LeastNumber
  <2>4. m \in 1..n /\ ~ \E i \in 1..m : Top(m, i)
    BY <2>3 DEF K
  <2>5. CASE m = 1
    BY <1>1, <1>2, <2>4, <2>5
  <2>6. CASE m # 1
    <3>1. /\ m - 1 \in 1..n /\ m - 1 < m /\ m \in 1..m
          /\ \A j \in 1..m : j \in 1..(m - 1) \/ j = m
          /\ \A j \in 1..(m - 1) : j \in 1..m /\ j \in 1..n
      BY <1>1, <2>4, <2>6
    <3>2. m - 1 \notin K
      BY <2>2, <2>3, <3>1
    <3>3. PICK i \in 1..(m - 1) : Top(m - 1, i)
      BY <3>1, <3>2 DEF K
    <3>4. i \in 1..m /\ es[i].timestamp \in Nat /\ es[m].timestamp \in Nat
      BY <1>2, <2>4, <3>1
    <3>5. CASE es[m].timestamp <= es[i].timestamp
      <4>1. Top(m, i)
        BY <3>1, <3>3, <3>5
      <4>2. QED
        BY <2>4, <3>4, <4>1
    <3>6. CASE ~(es[m].timestamp <= es[i].timestamp)
      <4>1. ASSUME NEW j \in 1..m
            PROVE  es[j].timestamp <= es[m].timestamp
        <5>1. CASE j = m
          BY <3>4, <5>1
        <5>2. CASE j \in 1..(m - 1)
          <6>1. es[j].timestamp <= es[i].timestamp
            BY <3>3, <5>2
          <6>2. es[j].timestamp \in Nat
            BY <1>2, <3>1, <5>2
          <6>3. QED
            BY <3>4, <3>6, <6>1, <6>2
        <5>3. QED
          BY <3>1, <5>1, <5>2
      <4>2. QED
        BY <2>4, <3>1, <4>1
    <3>7. QED
      BY <3>5, <3>6
  <2>7. QED
    BY <2>5, <2>6
<1>4. n \in 1..n
  BY <1>1
<1>5. PICK i \in 1..n : Top(n, i)
  BY <1>3, <1>4
<1> DEFINE t == es[i].timestamp
<1>6. times \subseteq Nat /\ t \in times /\ t \in Nat
  BY <1>1, <1>2
<1>7. \A u \in times : u <= t
  BY <1>1, <1>5, <1>6
<1>8. latest_timestamp(es) = CHOOSE x \in times : \A u \in times : u <= x
  BY DEF latest_timestamp
<1> HIDE DEF times, t
<1>9. ASSUME NEW x \in times, \A u \in times : u <= x
      PROVE  x = t
  <2>1. x <= t /\ t <= x /\ x \in Nat /\ t \in Nat
    BY <1>6, <1>7, <1>9
  <2>2. QED
    BY <2>1
<1>10. latest_timestamp(es) = t
  BY <1>6, <1>7, <1>8, <1>9
<1>11. QED
  BY <1>5, <1>10 DEF t, n

(* What the records say and what the audit log says is the same.           *)
THEOREM ReportsAlwaysAgree ==
    ASSUME 0 \notin Times
    PROVE  Spec => []ReportsAgree
<1>1. ASSUME ToolsIInv
      PROVE  ReportsAgree
  <2>1. SUFFICES ASSUME NEW policy \in Policies, NEW threshold \in Thresholds,
                        NEW now \in Moments
                 PROVE
            LET r == generate_report(Listing, audit_log, policy, now, threshold)
                s == r.audit_summary
                times == {audit_log[i].timestamp : i \in DOMAIN audit_log}
            IN  /\ s.count["Write"] - s.count["Delete"] = Len(Listing)
                /\ r.tier_summary["Critical"] + r.tier_summary["Personal"]
                       + r.tier_summary["Noise"] = Len(Listing)
                /\ \A o \in Owners :
                      LET erasable == erasure_report(Listing, audit_log, o)
                                          .erasable_ids
                      IN  /\ erasable = {id \in Ids :
                                LiveBy(audit_log, Len(audit_log), id, o)}
                          /\ r.owner_record_counts[o] = Cardinality(erasable)
                /\ audit_log # <<>> =>
                      /\ {s.earliest_timestamp, s.latest_timestamp}
                             \subseteq times
                      /\ \A t \in times : /\ s.earliest_timestamp <= t
                                           /\ t <= s.latest_timestamp
    BY DEF ReportsAgree
  <2> DEFINE r == generate_report(Listing, audit_log, policy, now, threshold)
             s == r.audit_summary
             InTier(tier) == {i \in DOMAIN Listing : Listing[i].tier = tier}
             Of(o) == {i \in DOMAIN Listing : Listing[i].owner_id = o}
  <2>2. /\ r.audit_summary = audit_summary(audit_log)
        /\ r.tier_summary = tier_summary(Listing)
        /\ \A o \in Owners : r.owner_record_counts[o] = Cardinality(Of(o))
    BY DEF generate_report, Count
  <2>3. /\ s.earliest_timestamp = earliest_timestamp(audit_log)
        /\ s.latest_timestamp = latest_timestamp(audit_log)
        /\ \A action \in AuditAction :
              s.count[action] = Cardinality(Logged(audit_log, action))
    BY <2>2 DEF audit_summary, Count, Logged
  <2>4. \A tier \in DataTier : r.tier_summary[tier] = Cardinality(InTier(tier))
    BY <2>2 DEF tier_summary, Count
  <2> HIDE DEF r, InTier, Of
  <2>5. IsFiniteSet(Live) /\ audit_log \in Seq(AuditEntry)
    BY <1>1 DEF ToolsIInv, Tallied, ToolsOK
  <2>6. /\ Cardinality(Live) \in Nat /\ Len(Listing) = Cardinality(Live)
        /\ DOMAIN Listing = 1..Cardinality(Live)
    BY <2>5, ListingFacts
  <2>7. s.count["Write"] - s.count["Delete"] = Len(Listing)
    <3> DEFINE W == Cardinality(Logged(audit_log, "Write"))
               D == Cardinality(Logged(audit_log, "Delete"))
    <3>1. W = Cardinality(Live) + D
      BY <1>1 DEF ToolsIInv, Tallied
    <3>2. s.count["Write"] = W /\ s.count["Delete"] = D
      BY <2>3 DEF AuditAction
    <3>3. D \in Nat
      <4>1. DOMAIN audit_log = 1..Len(audit_log) /\ Len(audit_log) \in Nat
        BY <2>5, LenProperties
      <4>2. Logged(audit_log, "Delete") \in SUBSET (1..Len(audit_log))
        BY <4>1 DEF Logged
      <4>3. QED
        BY <4>1, <4>2, PlacesFinite
    <3> HIDE DEF W, D, s
    <3>4. QED
      BY <2>6, <3>1, <3>2, <3>3
  <2>8. r.tier_summary["Critical"] + r.tier_summary["Personal"]
            + r.tier_summary["Noise"] = Len(Listing)
    <3>1. \A i \in DOMAIN Listing : Listing[i].tier \in DataTier
      <4>1. \A id \in Ids : records[id] # Absent => records[id].tier \in Tiers
        BY <1>1 DEF ToolsIInv, ToolsOK, RecordMap, Record
      <4>2. QED
        BY <1>1, <4>1, ListingIds, TiersAssumption
    <3>2. InTier("Critical") \cup InTier("Personal") \cup InTier("Noise")
              = 1..Cardinality(Live)
      BY <2>6, <3>1 DEF InTier, DataTier
    <3>3. /\ InTier("Critical") \cap InTier("Personal") = {}
          /\ InTier("Critical") \cap InTier("Noise") = {}
          /\ InTier("Personal") \cap InTier("Noise") = {}
      BY DEF InTier
    <3> DEFINE A == InTier("Critical")
               B == InTier("Personal")
               C == InTier("Noise")
               n == Cardinality(Live)
    <3>4. Cardinality(A) + Cardinality(B) + Cardinality(C) = n
      <4>1. /\ A \cup B \cup C = 1..n
            /\ A \cap B = {} /\ A \cap C = {} /\ B \cap C = {}
            /\ A \in SUBSET (1..n) /\ B \in SUBSET (1..n) /\ C \in SUBSET (1..n)
        BY <3>2, <3>3
      <4>2. n \in Nat
        BY <2>6
      <4> HIDE DEF A, B, C, n
      <4>3. QED
        BY <4>1, <4>2, ThreeParts
    <3>5. /\ r.tier_summary["Critical"] = Cardinality(InTier("Critical"))
          /\ r.tier_summary["Personal"] = Cardinality(InTier("Personal"))
          /\ r.tier_summary["Noise"] = Cardinality(InTier("Noise"))
      BY <2>4 DEF DataTier
    <3>6. QED
      BY <2>6, <3>4, <3>5
  <2>9. ASSUME NEW o \in Owners
        PROVE  LET erasable == erasure_report(Listing, audit_log, o)
                                   .erasable_ids
               IN  /\ erasable = {id \in Ids :
                                LiveBy(audit_log, Len(audit_log), id, o)}
                   /\ r.owner_record_counts[o] = Cardinality(erasable)
    BY <1>1, <2>2, ErasureFacts DEF Of
  <2> DEFINE times == {audit_log[i].timestamp : i \in DOMAIN audit_log}
  <2>10. ASSUME audit_log # <<>>
         PROVE  /\ {s.earliest_timestamp, s.latest_timestamp} \subseteq times
                /\ \A t \in times : /\ s.earliest_timestamp <= t
                                    /\ t <= s.latest_timestamp
    <3> HIDE DEF s
    <3>1. DOMAIN audit_log = 1..Len(audit_log)
      BY <2>5, LenProperties
    <3>2. /\ \E i \in 1..Len(audit_log) :
                s.earliest_timestamp = audit_log[i].timestamp
          /\ \A i \in 1..Len(audit_log) :
                s.earliest_timestamp <= audit_log[i].timestamp
      BY <2>3, <2>5, <2>10, EarliestIsLeast DEF LeastOf
    <3>3. /\ \E i \in 1..Len(audit_log) :
                s.latest_timestamp = audit_log[i].timestamp
          /\ \A i \in 1..Len(audit_log) :
                audit_log[i].timestamp <= s.latest_timestamp
      BY <2>3, <2>5, <2>10, LatestIsGreatest
    <3>4. QED
      BY <3>1, <3>2, <3>3
  <2>11. QED
    BY <2>7, <2>8, <2>9, <2>10 DEF r
<1>2. QED
  BY <1>1, ToolsInvariance, PTL

(* The writes that stand and the records of the store are the same.        *)
LEMMA StandingIsLive ==
    ASSUME ToolsIInv
    PROVE  /\ \A i \in DOMAIN audit_log : Standing(audit_log, i) =>
                 \E k \in DOMAIN Listing :
                     /\ Listing[k].id = audit_log[i].record_id
                     /\ Listing[k].created_at = births[i]
                     /\ Listing[k].tier =
                            records[audit_log[i].record_id].tier
           /\ \A k \in DOMAIN Listing : \E i \in DOMAIN audit_log :
                 /\ Standing(audit_log, i)
                 /\ Listing[k].id = audit_log[i].record_id
                 /\ Listing[k].created_at = births[i]
                 /\ Listing[k].tier = records[audit_log[i].record_id].tier
<1>1. audit_log \in Seq(AuditEntry) /\ records \in RecordMap
  BY DEF ToolsIInv, ToolsOK
<1>2. DOMAIN audit_log = 1..Len(audit_log) /\ Len(audit_log) \in Nat
  BY <1>1, LenProperties
<1>3. ASSUME NEW i \in DOMAIN audit_log, Standing(audit_log, i)
      PROVE  \E k \in DOMAIN Listing :
                 /\ Listing[k].id = audit_log[i].record_id
                 /\ Listing[k].created_at = births[i]
                 /\ Listing[k].tier = records[audit_log[i].record_id].tier
  <2> DEFINE id == audit_log[i].record_id
  <2>1. id \in Ids
    <3>1. audit_log[i] \in AuditEntry
      BY <1>1, <1>2, ElementOfSeq
    <3>2. QED
      BY <3>1 DEF AuditEntry
  <2>2. records[id] # Absent /\ records[id].created_at = births[i]
    BY <1>3 DEF ToolsIInv, StampedByLog
  <2> HIDE DEF id
  <2>3. PICK k \in DOMAIN Listing : Listing[k].id = id
    BY <2>1, <2>2, ListingIds
  <2>4. /\ Listing[k].created_at = records[id].created_at
        /\ Listing[k].tier = records[id].tier
    BY <2>3, ListingIds
  <2>5. QED
    BY <2>2, <2>3, <2>4 DEF id
<1>4. ASSUME NEW k \in DOMAIN Listing
      PROVE  \E i \in DOMAIN audit_log :
                 /\ Standing(audit_log, i)
                 /\ Listing[k].id = audit_log[i].record_id
                 /\ Listing[k].created_at = births[i]
                 /\ Listing[k].tier = records[audit_log[i].record_id].tier
  <2> DEFINE id == Listing[k].id
             o == records[id].owner_id
  <2>1. /\ id \in Ids /\ records[id] # Absent
        /\ Listing[k].created_at = records[id].created_at
        /\ Listing[k].tier = records[id].tier
    BY ListingIds
  <2>2. o \in Owners
    BY <1>1, <2>1 DEF RecordMap, Record
  <2>3. LiveBy(audit_log, Len(audit_log), id, o)
    <3>1. OwnersMatch(OwnerMap(records), audit_log)
      BY DEF ToolsIInv, ToolsOK, Consistent
    <3>2. OwnerMap(records)[id] = o
      BY <2>1 DEF OwnerMap
    <3> HIDE DEF id, o
    <3>3. QED
      BY <2>1, <2>2, <3>1, <3>2 DEF OwnersMatch
  <2> HIDE DEF id, o
  <2>4. PICK i \in 1..Len(audit_log) :
            /\ audit_log[i].record_id = id
            /\ audit_log[i].action = "Write"
            /\ \A j \in (i+1)..Len(audit_log) :
                  audit_log[j].record_id = id
                      => audit_log[j].action \notin {"Write", "Delete"}
    BY <2>3 DEF LiveBy
  <2>5. Standing(audit_log, i)
    <3>1. \A j \in DOMAIN audit_log : j > i => j \in (i+1)..Len(audit_log)
      BY <1>2
    <3>2. QED
      BY <2>4, <3>1 DEF Standing
  <2>6. records[id].created_at = births[i]
    BY <1>2, <2>4, <2>5 DEF ToolsIInv, StampedByLog
  <2>7. QED
    BY <1>2, <2>1, <2>4, <2>5, <2>6 DEF id
<1>5. QED
  BY <1>3, <1>4

(* A store is reported non-compliant exactly when a standing write is      *)
(* older than its tier allows or the log was silent for too long.          *)
THEOREM ReportsAlwaysJust == Spec => []ReportsAreJust
<1>1. ASSUME ToolsIInv
      PROVE  ReportsAreJust
  <2> DEFINE TooOld(policy, moment, i) ==
                LET limit == policy[records[audit_log[i].record_id].tier]
                IN  ~(limit = 0 \/ moment <= births[i] + limit)
             Silent(threshold, i) ==
                ~(audit_log[i].timestamp
                      <= audit_log[i-1].timestamp + threshold)
  <2>1. SUFFICES ASSUME NEW policy \in Policies, NEW threshold \in Thresholds,
                        NEW now \in Moments
                 PROVE  generate_report(Listing, audit_log, policy, now,
                                        threshold).is_compliant
                        <=> /\ \A i \in DOMAIN audit_log :
                                  Standing(audit_log, i) =>
                                     ~TooOld(policy, now, i)
                            /\ \/ threshold = 0
                               \/ \A i \in 2..Len(audit_log) :
                                     ~Silent(threshold, i)
    BY DEF ReportsAreJust
  <2>2. /\ policy \in [DataTier -> Nat] /\ threshold \in Nat /\ now \in Nat
        /\ audit_log \in Seq(AuditEntry) /\ records \in RecordMap
        /\ births \in Seq(Times) /\ Len(births) = Len(audit_log)
    BY <1>1, ToolsAssumption DEF RetentionPolicy, ToolsIInv, ToolsOK
  <2>3. /\ DOMAIN audit_log = 1..Len(audit_log) /\ Len(audit_log) \in Nat
        /\ \A i \in DOMAIN audit_log : audit_log[i] \in AuditEntry
    BY <2>2, LenProperties, ElementOfSeq
  <2>4. \A i \in DOMAIN audit_log :
            audit_log[i].timestamp \in Nat /\ births[i] \in Nat
    <3>1. \A i \in DOMAIN audit_log : births[i] \in Times
      BY <2>2, <2>3, ElementOfSeq
    <3>2. QED
      BY <2>3, <3>1, TimesAssumption DEF AuditEntry
  <2> DEFINE Expired == {k \in DOMAIN Listing :
                            is_expired(policy, Listing[k], now)}
             Doubled == {k \in DOMAIN Listing : Duplicate(Listing, k)}
             Gaps == {i \in 1..(Len(audit_log) - 1) :
                         Gap(audit_log, i, threshold)}
  <2>5. generate_report(Listing, audit_log, policy, now, threshold)
            .is_compliant <=> Expired = {} /\ Doubled = {} /\ Gaps = {}
    <3>1. generate_report(Listing, audit_log, policy, now, threshold)
              .is_compliant <=>
                violations(Listing, audit_log, policy, now, threshold) = {}
      BY DEF generate_report
    <3>2. violations(Listing, audit_log, policy, now, threshold) =
              {<<"RetentionExpired", i>> : i \in Expired}
              \cup {<<"DuplicateRecordId", i>> : i \in Doubled}
              \cup {<<"AuditGap", i>> : i \in Gaps}
      BY DEF violations
    <3> HIDE DEF Expired, Doubled, Gaps
    <3>3. QED
      BY <3>1, <3>2
  <2>6. Doubled = {}
    <3>1. IsFiniteSet(Live)
      BY <1>1 DEF ToolsIInv, Tallied
    <3>2. /\ DOMAIN Listing = 1..Cardinality(Live)
          /\ Cardinality(Live) \in Nat
      BY <3>1, ListingFacts
    <3>3. ASSUME NEW k \in DOMAIN Listing, NEW j \in 1..(k - 1)
          PROVE  Listing[j].id # Listing[k].id
      <4>1. j \in DOMAIN Listing /\ j # k
        BY <3>2
      <4>2. QED
        BY <1>1, <4>1, ListingIds
    <3>4. QED
      BY <3>3 DEF Duplicate
  <2>7. ASSUME NEW i \in DOMAIN audit_log, NEW k \in DOMAIN Listing,
               Listing[k].id = audit_log[i].record_id,
               Listing[k].created_at = births[i],
               Listing[k].tier = records[audit_log[i].record_id].tier
        PROVE  k \in Expired <=> TooOld(policy, now, i)
    <3> DEFINE limit == policy[Listing[k].tier]
               t == births[i]
    <3>1. Listing[k].tier \in DataTier
      <4>1. Listing[k].id \in Ids /\ records[Listing[k].id] # Absent
            /\ Listing[k].tier = records[Listing[k].id].tier
        BY <1>1, ListingIds
      <4>2. records[Listing[k].id] \in Record
        BY <2>2, <4>1 DEF RecordMap
      <4>3. QED
        BY <4>1, <4>2, TiersAssumption DEF Record
    <3>2. limit \in Nat /\ t \in Nat /\ now \in Nat
      BY <2>2, <2>4, <3>1
    <3>3. k \in Expired <=> limit # 0 /\ Monus(now, t) > limit
      BY <2>7 DEF is_expired
    <3>4. TooOld(policy, now, i) <=> ~(limit = 0 \/ now <= t + limit)
      BY <2>7
    <3> HIDE DEF limit, t, TooOld, Expired
    <3>5. limit # 0 => (Monus(now, t) > limit <=> ~(now <= t + limit))
      BY <3>2 DEF Monus
    <3>6. QED
      BY <3>3, <3>4, <3>5
  <2>8. Expired = {} <=> \A i \in DOMAIN audit_log :
                            Standing(audit_log, i) => ~TooOld(policy, now, i)
    <3>1. ASSUME Expired = {}, NEW i \in DOMAIN audit_log,
                 Standing(audit_log, i)
          PROVE  ~TooOld(policy, now, i)
      <4>1. PICK k \in DOMAIN Listing :
                /\ Listing[k].id = audit_log[i].record_id
                /\ Listing[k].created_at = births[i]
                /\ Listing[k].tier = records[audit_log[i].record_id].tier
        BY <1>1, <3>1, StandingIsLive
      <4> HIDE DEF TooOld, Expired
      <4>2. QED
        BY <2>7, <3>1, <4>1
    <3>2. ASSUME NEW k \in Expired
          PROVE  \E i \in DOMAIN audit_log :
                     Standing(audit_log, i) /\ TooOld(policy, now, i)
      <4>1. k \in DOMAIN Listing
        OBVIOUS
      <4>2. PICK i \in DOMAIN audit_log :
                /\ Standing(audit_log, i)
                /\ Listing[k].id = audit_log[i].record_id
                /\ Listing[k].created_at = births[i]
                /\ Listing[k].tier = records[audit_log[i].record_id].tier
        BY <1>1, <4>1, StandingIsLive
      <4> HIDE DEF TooOld, Expired
      <4>3. QED
        BY <2>7, <4>1, <4>2
    <3> HIDE DEF TooOld, Expired
    <3>3. QED
      BY <3>1, <3>2
  <2>9. Gaps = {} <=> \/ threshold = 0
                      \/ \A i \in 2..Len(audit_log) : ~Silent(threshold, i)
    <3>1. ASSUME NEW i \in 1..(Len(audit_log) - 1)
          PROVE  i \in Gaps <=> threshold # 0 /\ Silent(threshold, i + 1)
      <4> DEFINE t == audit_log[i].timestamp
                 u == audit_log[i + 1].timestamp
      <4>1. t \in Nat /\ u \in Nat /\ i + 1 - 1 = i
        BY <2>3, <2>4
      <4>2. i \in Gaps <=> threshold > 0 /\ Monus(u, t) > threshold
        BY DEF Gap
      <4>3. Silent(threshold, i + 1) <=> ~(u <= t + threshold)
        BY <4>1
      <4> HIDE DEF t, u, Silent, Gaps
      <4>4. threshold > 0 <=> threshold # 0
        BY <2>2
      <4>5. Monus(u, t) > threshold <=> ~(u <= t + threshold)
        BY <2>2, <4>1 DEF Monus
      <4>6. QED
        BY <4>2, <4>3, <4>4, <4>5
    <3>2. /\ \A i \in Gaps : i \in 1..(Len(audit_log) - 1)
          /\ \A i \in 2..Len(audit_log) :
                i - 1 \in 1..(Len(audit_log) - 1) /\ (i - 1) + 1 = i
          /\ \A i \in 1..(Len(audit_log) - 1) : i + 1 \in 2..Len(audit_log)
      BY <2>3
    <3> HIDE DEF Silent, Gaps
    <3>3. ASSUME Gaps = {}, threshold # 0, NEW i \in 2..Len(audit_log)
          PROVE  ~Silent(threshold, i)
      <4>1. ~Silent(threshold, (i - 1) + 1)
        BY <3>1, <3>2, <3>3
      <4>2. QED
        BY <3>2, <4>1
    <3>4. ASSUME NEW i \in Gaps
          PROVE  /\ threshold # 0
                 /\ \E j \in 2..Len(audit_log) : Silent(threshold, j)
      BY <3>1, <3>2
    <3>5. QED
      BY <3>3, <3>4
  <2> HIDE DEF Expired, Doubled, Gaps, TooOld, Silent
  <2>10. QED
    BY <2>5, <2>6, <2>8, <2>9
<1>2. QED
  BY <1>1, ToolsInvariance, PTL
=============================================================================
