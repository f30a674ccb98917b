-------------------------- MODULE FjallStoreProofs --------------------------
(***************************************************************************)
(* The fjall database of FjallStore, for any number of ids, owners, tiers  *)
(* and secrets, any clock and any bounds: its inductive invariant IInv,    *)
(* and what follows from it.                                               *)
(***************************************************************************)
EXTENDS FjallStore, AuditChainProofs, FiniteSetTheorems, SequenceTheorems

-----------------------------------------------------------------------------
(* Reading tables in which an id is in one keyspace at most.               *)

LEMMA OneTierFound ==
    ASSUME NEW tables \in Tables, OneTier(tables), NEW id \in Ids,
           NEW tier \in Tiers, tables.keyspaces[tier][id] # Absent
    PROVE  /\ TiersOf(tables, id) = {tier}
           /\ FirstTier(tables, id) = tier
           /\ Lookup(tables, id) = tables.keyspaces[tier][id]
<1>1. TiersOf(tables, id) = {tier}
  BY DEF TiersOf, OneTier
<1>2. tier \notin Before(tier)
  BY TiersAssumption DEF Before, DataTier
<1>3. Before(tier) \cap TiersOf(tables, id) = {}
  BY <1>1, <1>2
<1>4. FirstTier(tables, id) = tier
  BY <1>1, <1>3 DEF FirstTier
<1>5. QED
  BY <1>1, <1>4 DEF Lookup

LEMMA NoTierFound ==
    ASSUME NEW tables, NEW id,
           \A tier \in Tiers : tables.keyspaces[tier][id] = Absent
    PROVE  TiersOf(tables, id) = {} /\ Lookup(tables, id) = Absent
BY DEF TiersOf, Lookup

LEMMA LookupFacts ==
    ASSUME NEW tables \in Tables, OneTier(tables), NEW id \in Ids
    PROVE  /\ Lookup(tables, id) \in Record \cup {Absent}
           /\ Lookup(tables, id) = Absent <=>
                 \A tier \in Tiers : tables.keyspaces[tier][id] = Absent
           /\ Lookup(tables, id) # Absent =>
                 /\ FirstTier(tables, id) \in Tiers
                 /\ tables.keyspaces[FirstTier(tables, id)][id] =
                       Lookup(tables, id)
<1>1. CASE \A tier \in Tiers : tables.keyspaces[tier][id] = Absent
  BY <1>1, NoTierFound
<1>2. CASE \E tier \in Tiers : tables.keyspaces[tier][id] # Absent
  <2>1. PICK tier \in Tiers : tables.keyspaces[tier][id] # Absent
    BY <1>2
  <2>2. tables.keyspaces[tier][id] \in Record \cup {Absent}
    BY <2>1 DEF Tables, RecordMap
  <2>3. QED
    BY <2>1, <2>2, OneTierFound
<1>3. QED
  BY <1>1, <1>2

LEMMA StoredRecordsType ==
    ASSUME NEW tables \in Tables, OneTier(tables)
    PROVE  /\ StoredRecords(tables) \in RecordMap
           /\ \A id \in Ids : StoredRecords(tables)[id] = Lookup(tables, id)
BY LookupFacts DEF StoredRecords, RecordMap

(* The records are those of the keyspaces alone.                           *)
LEMMA SameKeyspaces ==
    ASSUME NEW tables \in Tables, OneTier(tables), OwnTier(tables),
           NEW other \in Tables, other.keyspaces = tables.keyspaces
    PROVE  /\ OneTier(other) /\ OwnTier(other)
           /\ StoredRecords(other) = StoredRecords(tables)
<1>1. OneTier(other) /\ OwnTier(other)
  BY DEF OneTier, OwnTier
<1>2. ASSUME NEW id \in Ids
      PROVE  Lookup(other, id) = Lookup(tables, id)
  <2>1. CASE \A tier \in Tiers : tables.keyspaces[tier][id] = Absent
    BY <2>1, NoTierFound
  <2>2. ASSUME NEW tier \in Tiers, tables.keyspaces[tier][id] # Absent
        PROVE  Lookup(other, id) = Lookup(tables, id)
    BY <1>1, <2>2, OneTierFound
  <2>3. QED
    BY <2>1, <2>2
<1>3. QED
  BY <1>1, <1>2 DEF StoredRecords

(* What the edit of one keyspace makes of every entry.                     *)
LEMMA EditedEntries ==
    ASSUME NEW keyspaces \in [Tiers -> RecordMap],
           NEW id \in Ids, NEW tier \in Tiers,
           NEW rec \in Record \cup {Absent}
    PROVE  /\ [keyspaces EXCEPT ![tier][id] = rec] \in [Tiers -> RecordMap]
           /\ \A t \in Tiers, i \in Ids :
                 [keyspaces EXCEPT ![tier][id] = rec][t][i] =
                     IF t = tier /\ i = id THEN rec ELSE keyspaces[t][i]
<1> DEFINE row == [keyspaces[tier] EXCEPT ![id] = rec]
<1>1. keyspaces[tier] \in [Ids -> Record \cup {Absent}]
  BY DEF RecordMap
<1>2. /\ row \in RecordMap
      /\ \A i \in Ids : row[i] = IF i = id THEN rec ELSE keyspaces[tier][i]
  BY <1>1 DEF RecordMap
<1> DEFINE edited == [keyspaces EXCEPT ![tier][id] = rec]
<1>3. edited = [keyspaces EXCEPT ![tier] = row]
  OBVIOUS
<1> HIDE DEF row, edited
<1>4. /\ edited \in [Tiers -> RecordMap]
      /\ \A t \in Tiers :
            edited[t] = IF t = tier THEN row ELSE keyspaces[t]
  BY <1>2, <1>3
<1>5. \A t \in Tiers, i \in Ids :
         edited[t][i] = IF t = tier /\ i = id THEN rec ELSE keyspaces[t][i]
  BY <1>2, <1>4
<1>6. QED
  BY <1>4, <1>5 DEF edited

(* Putting a record into the keyspace of its tier, or removing it from the *)
(* one it is in.                                                           *)
LEMMA EditedKeyspaces ==
    ASSUME NEW tables \in Tables, OneTier(tables), OwnTier(tables),
           NEW id \in Ids, NEW tier \in Tiers,
           NEW rec \in Record \cup {Absent},
           rec # Absent => rec.tier = tier,
           \A t \in Tiers \ {tier} : tables.keyspaces[t][id] = Absent,
           NEW other \in Tables,
           \A t \in Tiers, i \in Ids :
              other.keyspaces[t][i] =
                  IF t = tier /\ i = id THEN rec ELSE tables.keyspaces[t][i]
    PROVE  /\ OneTier(other) /\ OwnTier(other)
           /\ StoredRecords(other)[id] = rec
           /\ \A i \in Ids \ {id} :
                 StoredRecords(other)[i] = StoredRecords(tables)[i]
<1>1. OneTier(other)
  BY DEF OneTier
<1>2. OwnTier(other)
  BY DEF OwnTier
<1>3. Lookup(other, id) = rec
  <2>1. CASE rec = Absent
    <3>1. \A t \in Tiers : other.keyspaces[t][id] = Absent
      BY <2>1
    <3>2. QED
      BY <2>1, <3>1, NoTierFound
  <2>2. CASE rec # Absent
    <3>1. other.keyspaces[tier][id] = rec
      OBVIOUS
    <3>2. QED
      BY <1>1, <2>2, <3>1, OneTierFound
  <2>3. QED
    BY <2>1, <2>2
<1>4. ASSUME NEW i \in Ids, i # id
      PROVE  Lookup(other, i) = Lookup(tables, i)
  <2>1. \A t \in Tiers : other.keyspaces[t][i] = tables.keyspaces[t][i]
    BY <1>4
  <2>2. CASE \A t \in Tiers : tables.keyspaces[t][i] = Absent
    BY <2>1, <2>2, NoTierFound
  <2>3. ASSUME NEW t \in Tiers, tables.keyspaces[t][i] # Absent
        PROVE  Lookup(other, i) = Lookup(tables, i)
    BY <1>1, <2>1, <2>3, OneTierFound
  <2>4. QED
    BY <2>2, <2>3
<1>5. QED
  BY <1>1, <1>2, <1>3, <1>4, StoredRecordsType

(* Well kept tables pass the checks of open_impl.                          *)
LEMMA WellKeptOpens ==
    ASSUME 0 \notin Times, NEW tables \in Tables, WellKept(tables),
           NEW mode \in Modes,
           \/ tables.checkpoint = Absent
           \/ CheckpointMode(tables.checkpoint) = mode
    PROVE  OpenAccepts(mode, tables)
<1>1. ASSUME NEW id \in Ids
      PROVE  Cardinality(TiersOf(tables, id)) <= 1
  <2>1. CASE \A tier \in Tiers : tables.keyspaces[tier][id] = Absent
    BY <2>1, NoTierFound, FS_EmptySet
  <2>2. ASSUME NEW tier \in Tiers, tables.keyspaces[tier][id] # Absent
        PROVE  Cardinality(TiersOf(tables, id)) <= 1
    <3>1. TiersOf(tables, id) = {tier}
      BY <2>2, OneTierFound DEF WellKept
    <3>2. Cardinality({tier}) = 1
      BY FS_Singleton
    <3>3. QED
      BY <3>1, <3>2
  <2>3. QED
    BY <2>1, <2>2
<1>2. ASSUME NEW tier \in Tiers, NEW id \in Ids
      PROVE  into_validated_record(tables.keyspaces[tier][id])
  <2>1. tables.keyspaces[tier][id] \in Record \cup {Absent}
    BY DEF Tables, RecordMap
  <2>2. QED
    BY <2>1 DEF into_validated_record, Record
<1>3. RecordEntriesValid(tables)
  BY <1>1, <1>2 DEF RecordEntriesValid, WellKept, OwnTier
<1>4. LoadAccepts(mode, tables.checkpoint, StoredRecords(tables),
                  tables.audit)
  <2>1. /\ StoredRecords(tables) \in RecordMap
        /\ tables.audit \in Seq(AuditEntry)
    BY StoredRecordsType DEF WellKept, Tables
  <2>2. QED
    BY <2>1, CurrentCheckpointLoads DEF WellKept, CheckpointFits
<1>5. QED
  BY <1>3, <1>4 DEF OpenAccepts

-----------------------------------------------------------------------------
(* Journals.                                                               *)

(* The newest tables of a journal, and one batch more.                     *)
LEMMA JournalAppend ==
    ASSUME NEW found \in Seq(Tables), JournalOK(found),
           NEW tables \in Tables, WellKept(tables),
           Extends(tables.audit, found[Len(found)].audit)
    PROVE  /\ Append(found, tables) \in Seq(Tables)
           /\ JournalOK(Append(found, tables))
<1> DEFINE longer == Append(found, tables)
<1>1. /\ longer \in Seq(Tables)  /\ Len(found) \in Nat \ {0}
      /\ Len(longer) = Len(found) + 1
      /\ longer[Len(found) + 1] = tables
      /\ \A n \in 1..Len(found) : longer[n] = found[n]
  BY DEF JournalOK
<1>2. \A tab \in Tables : tab.audit \in Seq(AuditEntry)
  BY DEF Tables
<1>3. \A n \in 1..Len(found) : found[n] \in Tables
  OBVIOUS
<1> HIDE DEF longer
<1>4. ASSUME NEW n \in 1..Len(longer)
      PROVE  WellKept(longer[n])
  BY <1>1 DEF JournalOK
<1>5. ASSUME NEW m \in 1..Len(longer), NEW n \in 1..Len(longer), m <= n
      PROVE  Extends(longer[n].audit, longer[m].audit)
  <2>1. CASE n <= Len(found)
    BY <1>1, <1>5, <2>1 DEF JournalOK
  <2>2. CASE n = Len(found) + 1 /\ m <= Len(found)
    <3>1. Extends(found[Len(found)].audit, found[m].audit)
      BY <1>1, <2>2 DEF JournalOK
    <3>2. /\ found[m].audit \in Seq(AuditEntry)
          /\ found[Len(found)].audit \in Seq(AuditEntry)
          /\ tables.audit \in Seq(AuditEntry)
      BY <1>1, <1>2, <1>3, <2>2
    <3>3. Extends(tables.audit, found[m].audit)
      BY <3>1, <3>2, ExtendsTransitive
    <3>4. QED
      BY <1>1, <2>2, <3>3
  <2>3. CASE n = Len(found) + 1 /\ m = Len(found) + 1
    BY <1>1, <1>2, <2>3, ExtendsReflexive
  <2>4. QED
    BY <1>1, <1>5, <2>1, <2>2, <2>3
<1>6. longer # <<>>
  BY <1>1
<1>7. QED
  BY <1>1, <1>4, <1>5, <1>6 DEF JournalOK, longer

(* A power loss cuts a journal short.                                      *)
LEMMA JournalPrefix ==
    ASSUME NEW found \in Seq(Tables), JournalOK(found),
           NEW n \in 1..Len(found)
    PROVE  /\ SubSeq(found, 1, n) \in Seq(Tables)
           /\ Len(SubSeq(found, 1, n)) = n
           /\ \A i \in 1..n : SubSeq(found, 1, n)[i] = found[i]
           /\ JournalOK(SubSeq(found, 1, n))
<1>1. /\ SubSeq(found, 1, n) \in Seq(Tables)
      /\ Len(SubSeq(found, 1, n)) = n
      /\ \A i \in 1..n : SubSeq(found, 1, n)[i] = found[i]
  OBVIOUS
<1>2. SubSeq(found, 1, n) # <<>>
  BY <1>1
<1>3. QED
  BY <1>1, <1>2 DEF JournalOK

(* What the invariant says of any journal the next open may find.          *)
LEMMA RecoveredFacts ==
    ASSUME IInv, NEW found \in Recovered
    PROVE  /\ found \in Seq(Tables)
           /\ Len(found) \in Nat /\ Len(found) >= Len(journal)
           /\ found[Len(found)] \in Tables
           /\ JournalOK(found)
           /\ RepliesIn(found)
<1>1. JournalOK(found) /\ RepliesIn(journal) /\ journal \in Seq(Tables)
  BY DEF IInv, TypeOK
<1>2. CASE found = journal
  BY <1>1, <1>2 DEF JournalOK
<1>3. CASE Poisoned /\ found = Append(journal, in_doubt)
  <2>1. in_doubt \in Tables
    BY <1>3 DEF IInv, TypeOK, Poisoned
  <2>2. /\ found \in Seq(Tables)
        /\ Len(journal) \in Nat /\ Len(found) = Len(journal) + 1
        /\ \A n \in 1..Len(journal) : found[n] = journal[n]
    BY <1>1, <1>3, <2>1
  <2>3. RepliesIn(found)
    BY <1>1, <2>2 DEF RepliesIn
  <2>4. QED
    BY <1>1, <2>2, <2>3
<1>4. QED
  BY <1>2, <1>3 DEF Recovered

(* Any state whose journals are fine is.                                   *)
LEMMA RecoveredNext ==
    ASSUME IInv, NEW found \in Seq(Tables), JournalOK(found),
           journal' = found,
           in_doubt' = Absent \/ JournalOK(Append(found, in_doubt'))
    PROVE  \A next \in Recovered' : JournalOK(next)
BY DEF Recovered, Poisoned

-----------------------------------------------------------------------------
(* What an operation makes of the tables.                                  *)

LEMMA AppendAsFunction ==
    ASSUME NEW S, NEW log \in Seq(S), NEW e \in S
    PROVE  [i \in 1..(Len(log) + 1) |->
               IF i <= Len(log) THEN log[i] ELSE e] = Append(log, e)
<1> DEFINE f == [i \in 1..(Len(log) + 1) |->
                   IF i <= Len(log) THEN log[i] ELSE e]
<1>1. Len(log) \in Nat
  OBVIOUS
<1>2. f \in Seq(S) /\ Len(f) = Len(log) + 1
  BY <1>1
<1>3. Append(log, e) \in Seq(S) /\ Len(Append(log, e)) = Len(log) + 1
  OBVIOUS
<1>4. \A i \in 1..(Len(log) + 1) : f[i] = Append(log, e)[i]
  BY <1>1
<1> HIDE DEF f
<1>5. f = Append(log, e)
  BY <1>2, <1>3, <1>4, SeqEqual
<1>6. QED
  BY <1>5 DEF f

(* The cached length and tail make the entry the one append_audit makes.   *)
LEMMA AppendedIs ==
    ASSUME db.audit \in Seq(AuditEntry), owner_id \in Owners,
           audit_len = Len(db.audit),
           audit_tail = last_chain_hash(db.audit),
           NEW id \in Ids, NEW action \in AuditAction, NEW t \in Times
    PROVE  Appended(id, action, t) =
               append_audit(db.audit, id, owner_id, action, t)
<1>1. NewAuditEntry(id, owner_id, action, t, audit_tail) \in AuditEntry
  BY AppendAuditType
<1>2. QED
  BY <1>1, AppendAsFunction DEF Appended, append_audit

LEMMA CheckpointBytesIs ==
    ASSUME NEW recs, NEW log, Len(log) = audit_len + 1
    PROVE  checkpoint_bytes(log, record_created_at_commitment(recs)) =
               NewCheckpoint(checkpoint_auth, recs, log)
BY DEF checkpoint_bytes, NewCheckpoint

LEMMA DbFacts ==
    ASSUME IInv
    PROVE  /\ journal \in Seq(Tables) /\ JournalOK(journal)
           /\ Len(journal) \in Nat \ {0}
           /\ db \in Tables /\ WellKept(db)
           /\ db.audit \in Seq(AuditEntry)
           /\ StoredRecords(db) \in RecordMap
<1>1. /\ journal \in Seq(Tables) /\ JournalOK(journal)
      /\ Len(journal) \in Nat \ {0}
  BY DEF IInv, TypeOK, Recovered
<1>2. db \in Tables /\ WellKept(db)
  BY <1>1 DEF db, JournalOK
<1>3. QED
  BY <1>1, <1>2, StoredRecordsType DEF WellKept, Tables

(* The same of the next state.                                             *)
LEMMA DbFactsNext ==
    ASSUME IInv'
    PROVE  /\ db' \in Tables /\ WellKept(db')
           /\ db'.audit \in Seq(AuditEntry)
           /\ StoredRecords(db') \in RecordMap
<1>1. /\ journal' \in Seq(Tables) /\ JournalOK(journal')
      /\ Len(journal') \in Nat \ {0}
  BY DEF IInv, TypeOK, Recovered, JournalOK
<1>2. db' \in Tables /\ WellKept(db')
  BY <1>1 DEF db, JournalOK
<1>3. QED
  BY <1>2, StoredRecordsType DEF WellKept, Tables

(* The new log of an operation.                                            *)
LEMMA AppendedFacts ==
    ASSUME IInv, IsOpen,
           NEW id \in Ids, NEW action \in AuditAction, NEW t \in Times
    PROVE  LET log == Appended(id, action, t) IN
           /\ log = append_audit(db.audit, id, owner_id, action, t)
           /\ log \in Seq(AuditEntry)
           /\ audit_len = Len(db.audit)
           /\ Len(log) = audit_len + 1
           /\ Extends(log, db.audit)
<1>1. /\ audit_len = Len(db.audit)
      /\ audit_tail = last_chain_hash(db.audit)
      /\ owner_id \in Owners
  BY DEF IInv, CachesCurrent, IsOpen, TypeOK
<1>2. db.audit \in Seq(AuditEntry)
  BY DbFacts
<1>3. Appended(id, action, t) =
         append_audit(db.audit, id, owner_id, action, t)
  BY <1>1, <1>2, AppendedIs
<1>4. /\ NewAuditEntry(id, owner_id, action, t, last_chain_hash(db.audit))
            \in AuditEntry
      /\ append_audit(db.audit, id, owner_id, action, t) \in Seq(AuditEntry)
      /\ Len(append_audit(db.audit, id, owner_id, action, t)) =
            Len(db.audit) + 1
  BY <1>1, <1>2, AppendAuditType
<1>5. Extends(append_audit(db.audit, id, owner_id, action, t), db.audit)
  BY <1>2, <1>4 DEF append_audit, Extends
<1>6. QED
  BY <1>1, <1>3, <1>4, <1>5

(* Records and log that fit, under a checkpoint made of both.              *)
LEMMA FittingTables ==
    ASSUME NEW tables \in Tables, OneTier(tables), OwnTier(tables),
           NEW log \in Seq(AuditEntry), NEW mode \in Modes,
           Consistent(StoredRecords(tables), log),
           NEW new, new = [keyspaces  |-> tables.keyspaces,
                           audit      |-> log,
                           checkpoint |->
                               NewCheckpoint(mode, StoredRecords(tables), log)]
    PROVE  /\ new \in Tables
           /\ WellKept(new)
           /\ StoredRecords(new) = StoredRecords(tables)
<1> DEFINE recs == StoredRecords(tables)
           cp   == NewCheckpoint(mode, recs, log)
<1>1. recs \in RecordMap
  BY StoredRecordsType
<1>2. cp \in Checkpoint /\ cp # Absent /\ CheckpointMode(cp) = mode
  BY <1>1, NewCheckpointType, NewCheckpointMode
<1>3. tables.keyspaces \in [Tiers -> RecordMap]
  BY DEF Tables
<1> HIDE DEF cp
<1>4. /\ new = [keyspaces |-> tables.keyspaces, audit |-> log,
                checkpoint |-> cp]
      /\ new \in Tables
  BY <1>2, <1>3 DEF cp, Tables
<1>5. /\ new.keyspaces = tables.keyspaces
      /\ new.audit = log
      /\ new.checkpoint = cp
  BY <1>4
<1>6. /\ OneTier(new) /\ OwnTier(new)
      /\ StoredRecords(new) = recs
  BY <1>4, <1>5, SameKeyspaces
<1>7. CheckpointFits(new)
  BY <1>2, <1>5, <1>6 DEF CheckpointFits, cp
<1>8. QED
  BY <1>4, <1>5, <1>6, <1>7 DEF WellKept

(* The batch of a write or a delete.                                       *)
LEMMA RecordBatchKept ==
    ASSUME IInv, IsOpen,
           NEW id \in Ids, NEW action \in {"Write", "Delete"},
           NEW t \in Times,
           NEW tier \in Tiers, NEW rec \in Record \cup {Absent},
           rec # Absent => rec.tier = tier,
           \A other \in Tiers \ {tier} : db.keyspaces[other][id] = Absent,
           action = "Write" =>
               /\ Lookup(db, id) = Absent
               /\ rec # Absent /\ rec.owner_id = owner_id,
           action = "Delete" =>
               /\ Lookup(db, id) # Absent /\ rec = Absent
               /\ Lookup(db, id).owner_id = owner_id
    PROVE  LET tables == RecordBatch(Appended(id, action, t), tier, id, rec)
           IN  /\ tables \in Tables
               /\ WellKept(tables)
               /\ Extends(tables.audit, db.audit)
               /\ Len(tables.audit) = audit_len + 1
<1> DEFINE log       == Appended(id, action, t)
           keyspaces == [db.keyspaces EXCEPT ![tier][id] = rec]
           mid       == [db EXCEPT !.keyspaces = keyspaces]
           recs      == StoredRecords(mid)
           tables    == RecordBatch(log, tier, id, rec)
<1>1. /\ db \in Tables /\ OneTier(db) /\ OwnTier(db)
      /\ Consistent(StoredRecords(db), db.audit)
      /\ StoredRecords(db) \in RecordMap
      /\ db.audit \in Seq(AuditEntry)
      /\ StoredRecords(db)[id] = Lookup(db, id)
  BY DbFacts, StoredRecordsType DEF WellKept
<1>2. /\ log = append_audit(db.audit, id, owner_id, action, t)
      /\ log \in Seq(AuditEntry)
      /\ Len(log) = audit_len + 1
      /\ Extends(log, db.audit)
  BY AppendedFacts DEF AuditAction
<1>3. /\ db.keyspaces \in [Tiers -> RecordMap]
      /\ db.checkpoint \in Checkpoint \cup {Absent}
      /\ db = [keyspaces |-> db.keyspaces, audit |-> db.audit,
               checkpoint |-> db.checkpoint]
  BY <1>1 DEF Tables
<1>4. /\ keyspaces \in [Tiers -> RecordMap]
      /\ \A k \in Tiers, i \in Ids :
            keyspaces[k][i] = IF k = tier /\ i = id THEN rec
                              ELSE db.keyspaces[k][i]
  BY <1>3, EditedEntries
<1>5. tables = [keyspaces |-> keyspaces, audit |-> log,
                checkpoint |->
                    checkpoint_bytes(log, record_created_at_commitment(recs))]
  BY DEF RecordBatch
<1>6. owner_id \in Owners /\ checkpoint_auth \in Modes
  BY DEF IInv, TypeOK, IsOpen
<1> HIDE DEF log, keyspaces, tables
<1>7. mid \in Tables /\ mid.keyspaces = keyspaces
  BY <1>1, <1>3, <1>4 DEF Tables
<1> HIDE DEF mid
<1>8. /\ OneTier(mid) /\ OwnTier(mid)
      /\ recs[id] = rec
      /\ \A i \in Ids \ {id} : recs[i] = StoredRecords(db)[i]
  <2>1. \A k \in Tiers, i \in Ids :
           mid.keyspaces[k][i] =
               IF k = tier /\ i = id THEN rec ELSE db.keyspaces[k][i]
    BY <1>4, <1>7
  <2>2. QED
    BY <1>1, <1>7, <2>1, EditedKeyspaces
<1>9. recs \in RecordMap
  BY <1>7, <1>8, StoredRecordsType
<1>10. Consistent(recs, log)
  <2> HIDE DEF recs
  <2>1. CASE action = "Write"
    BY <1>1, <1>2, <1>6, <1>8, <1>9, <2>1, ConsistentAppend DEF AuditAction
  <2>2. CASE action = "Delete"
    BY <1>1, <1>2, <1>6, <1>8, <1>9, <2>2, ConsistentAppend DEF AuditAction
  <2>3. QED
    BY <2>1, <2>2
<1>11. tables = [keyspaces |-> mid.keyspaces, audit |-> log,
                 checkpoint |-> NewCheckpoint(checkpoint_auth, recs, log)]
  BY <1>2, <1>5, <1>7, CheckpointBytesIs
<1>12. tables \in Tables /\ WellKept(tables)
  BY <1>2, <1>6, <1>7, <1>8, <1>10, <1>11, FittingTables
<1>13. tables.audit = log
  BY <1>11
<1>14. QED
  BY <1>2, <1>12, <1>13 DEF tables, log

(* The batch of a read, with the cached commitment.                        *)
LEMMA ReadBatchKept ==
    ASSUME IInv, IsOpen, NEW id \in Ids, NEW t \in Times,
           Lookup(db, id) # Absent
    PROVE  LET log == Appended(id, ReadAction(Lookup(db, id)), t)
               tables == [keyspaces  |-> db.keyspaces,
                          audit      |-> log,
                          checkpoint |-> checkpoint_bytes(log, commitment)]
           IN  /\ tables \in Tables
               /\ WellKept(tables)
               /\ StoredRecords(tables) = StoredRecords(db)
               /\ Extends(tables.audit, db.audit)
               /\ Len(tables.audit) = audit_len + 1
<1> DEFINE rec    == Lookup(db, id)
           action == ReadAction(rec)
           log    == Appended(id, action, t)
           recs   == StoredRecords(db)
           tables == [keyspaces  |-> db.keyspaces,
                      audit      |-> log,
                      checkpoint |-> checkpoint_bytes(log, commitment)]
<1>1. /\ db \in Tables /\ OneTier(db) /\ OwnTier(db)
      /\ Consistent(recs, db.audit)
      /\ recs \in RecordMap
      /\ db.audit \in Seq(AuditEntry)
      /\ recs[id] = rec
  BY DbFacts, StoredRecordsType DEF WellKept
<1>2. /\ action \in {"ReadGranted", "ReadDenied"}
      /\ action \in AuditAction
      /\ action = "ReadDenied" => rec.owner_id # owner_id
  BY DEF ReadAction, is_readable_by, AuditAction
<1> HIDE DEF action, rec
<1>3. /\ log = append_audit(db.audit, id, owner_id, action, t)
      /\ log \in Seq(AuditEntry)
      /\ Len(log) = audit_len + 1
      /\ Extends(log, db.audit)
  BY <1>2, AppendedFacts
<1>4. /\ owner_id \in Owners /\ checkpoint_auth \in Modes
      /\ commitment = record_created_at_commitment(recs)
  BY DEF IInv, TypeOK, IsOpen, CachesCurrent
<1>5. rec # Absent
  BY DEF rec
<1> HIDE DEF log, recs
<1>6. Consistent(recs, log)
  BY <1>1, <1>2, <1>3, <1>4, <1>5, ConsistentAppend
<1>7. checkpoint_bytes(log, commitment) =
          NewCheckpoint(checkpoint_auth, recs, log)
  BY <1>3, <1>4, CheckpointBytesIs
<1>8. tables = [keyspaces |-> db.keyspaces, audit |-> log,
                checkpoint |-> NewCheckpoint(checkpoint_auth, recs, log)]
  BY <1>7
<1> HIDE DEF tables
<1>9. /\ tables \in Tables /\ WellKept(tables)
      /\ StoredRecords(tables) = recs
  BY <1>1, <1>3, <1>4, <1>6, <1>8, FittingTables DEF recs
<1>10. tables.audit = log
  BY <1>8
<1>11. QED
  BY <1>3, <1>9, <1>10 DEF tables, log, action, rec, recs

-----------------------------------------------------------------------------
(* Every action keeps the invariant.                                       *)

LEMMA InitIInv == Init => IInv
<1> SUFFICES ASSUME Init
             PROVE  IInv
  OBVIOUS
<1>1. /\ NoRecords \in RecordMap
      /\ NoTables.keyspaces = [tier \in Tiers |-> NoRecords]
      /\ NoTables.audit = <<>> /\ NoTables.checkpoint = Absent
      /\ NoTables \in Tables
  BY DEF NoRecords, RecordMap, NoTables, Tables
<1>2. \A tier \in Tiers, id \in Ids : NoTables.keyspaces[tier][id] = Absent
  <2>1. \A tier \in Tiers : NoTables.keyspaces[tier] = NoRecords
    BY <1>1
  <2>2. \A id \in Ids : NoRecords[id] = Absent
    BY DEF NoRecords
  <2>3. QED
    BY <2>1, <2>2
<1>3. /\ OneTier(NoTables) /\ OwnTier(NoTables)
      /\ StoredRecords(NoTables) = NoRecords
  <2>1. \A id \in Ids : Lookup(NoTables, id) = Absent
    BY <1>2, NoTierFound
  <2>2. QED
    BY <1>2, <2>1 DEF OneTier, OwnTier, StoredRecords, NoRecords
<1>4. WellKept(NoTables)
  BY <1>1, <1>3, ConsistentEmpty DEF WellKept, CheckpointFits
<1>5. /\ journal = <<NoTables>> /\ Len(journal) = 1
      /\ journal[1] = NoTables /\ journal \in Seq(Tables) /\ journal # <<>>
  BY <1>1 DEF Init
<1>6. JournalOK(journal)
  <2>1. Extends(NoTables.audit, NoTables.audit)
    BY <1>1 DEF Extends
  <2>2. QED
    BY <1>4, <1>5, <2>1 DEF JournalOK
<1>7. TypeOK
  <2>1. /\ ZeroHash \in Hash
        /\ record_created_at_commitment(NoRecords) \in Commitment
    BY DEF ZeroHash, Hash, record_created_at_commitment, NoRecords, Commitment
  <2>2. QED
    BY <1>5, <2>1 DEF Init, TypeOK, Modes
<1>8. Recovered = {journal}
  BY DEF Recovered, Poisoned, Init
<1>9. RepliesIn(journal) /\ CachesCurrent
  BY DEF Init, RepliesIn, CachesCurrent, IsOpen
<1>10. QED
  BY <1>6, <1>7, <1>8, <1>9 DEF IInv

(* What is stored has a commitment and a tail.                             *)
LEMMA CacheTypes ==
    ASSUME NEW tables \in Tables, OneTier(tables)
    PROVE  /\ Len(tables.audit) \in Nat
           /\ last_chain_hash(tables.audit) \in Hash
           /\ record_created_at_commitment(StoredRecords(tables))
                 \in Commitment
<1>1. /\ tables.audit \in Seq(AuditEntry)
      /\ StoredRecords(tables) \in RecordMap
  BY StoredRecordsType DEF Tables
<1>2. last_chain_hash(tables.audit) \in Hash
  <2>1. ZeroHash \in Hash
    BY DEF ZeroHash, Hash
  <2>2. tables.audit # <<>> =>
           tables.audit[Len(tables.audit)] \in AuditEntry
    BY <1>1
  <2>3. QED
    BY <2>1, <2>2 DEF last_chain_hash, AuditEntry
<1>3. QED
  BY <1>1, <1>2
     DEF record_created_at_commitment, Commitment, RecordMap, Record

(* A batch of well kept tables that adds one entry.                        *)
LEMMA CommitStep ==
    ASSUME IInv, Ready, NEW tables \in Tables, WellKept(tables),
           Extends(tables.audit, db.audit),
           Len(tables.audit) = audit_len + 1,
           NEW rec \in Record \cup {Absent}, NEW com,
           com = record_created_at_commitment(StoredRecords(tables)),
           CommitBatch(tables, com, rec)
    PROVE  IInv'
<1> DEFINE longer == Append(journal, tables)
<1>1. /\ journal \in Seq(Tables) /\ JournalOK(journal)
      /\ Len(journal) \in Nat \ {0}
  BY DbFacts
<1>2. longer \in Seq(Tables) /\ JournalOK(longer)
  BY <1>1, JournalAppend DEF db
<1>3. /\ Len(longer) = Len(journal) + 1
      /\ longer[Len(longer)] = tables
      /\ \A n \in 1..Len(journal) : longer[n] = journal[n]
  BY <1>1
<1>4. /\ owner_id \in Owners /\ checkpoint_auth \in Modes
      /\ audit_len \in Nat /\ in_doubt = Absent
      /\ synced \in 1..Len(journal)
      /\ replies \subseteq Reply
      /\ RepliesIn(journal)
  BY DEF IInv, TypeOK, Ready, IsOpen, Poisoned
<1>5. CASE /\ journal' = longer
           /\ audit_len' = audit_len + 1
           /\ audit_tail' = last_chain_hash(tables.audit)
           /\ commitment' = com
           /\ replies' = replies \cup {Answer(tables, rec)}
           /\ UNCHANGED <<synced, in_doubt, owner_id, checkpoint_auth>>
  <2>1. db' = tables
    BY <1>3, <1>5 DEF db
  <2> HIDE DEF longer
  <2>2. Answer(tables, rec) \in Reply
    <3>1. tables.audit[audit_len + 1] \in AuditEntry
      BY <1>4 DEF Tables
    <3>2. QED
      BY <1>1, <1>4, <3>1 DEF Answer, Reply
  <2>3. RepliesIn(longer)
    BY <1>1, <1>3, <1>4 DEF RepliesIn
  <2>4. RepliesIn(journal)'
    <3>1. ASSUME NEW r \in replies'
          PROVE  /\ r.batch \in 1..Len(longer)
                 /\ r.index \in 1..Len(longer[r.batch].audit)
                 /\ longer[r.batch].audit[r.index] = r.entry
      <4>1. CASE r \in replies
        BY <2>3, <4>1 DEF RepliesIn
      <4>2. CASE r = Answer(tables, rec)
        <5>1. /\ r.batch = Len(journal) + 1
              /\ r.index = audit_len + 1
              /\ r.entry = tables.audit[audit_len + 1]
          BY <4>2 DEF Answer
        <5>2. QED
          BY <1>1, <1>3, <1>4, <5>1
      <4>3. QED
        BY <1>5, <3>1, <4>1, <4>2
    <3>2. QED
      BY <1>5, <3>1 DEF RepliesIn
  <2>5. TypeOK'
    <3>1. /\ audit_len' \in Nat /\ audit_tail' \in Hash
          /\ commitment' \in Commitment
      BY <1>4, <1>5, CacheTypes DEF WellKept
    <3>2. /\ journal' \in Seq(Tables) /\ journal' # <<>>
          /\ synced' \in 1..Len(journal')
      BY <1>1, <1>2, <1>3, <1>4, <1>5
    <3>3. replies' \subseteq Reply
      BY <1>4, <1>5, <2>2
    <3>4. QED
      BY <1>4, <1>5, <3>1, <3>2, <3>3 DEF TypeOK
  <2>6. \A found \in Recovered' : JournalOK(found)
    BY <1>2, <1>4, <1>5 DEF Recovered, Poisoned
  <2>7. CachesCurrent'
    BY <1>5, <2>1 DEF CachesCurrent
  <2>8. QED
    BY <2>4, <2>5, <2>6, <2>7 DEF IInv
<1>6. CASE /\ in_doubt' = tables
           /\ UNCHANGED <<journal, synced, handle, replies>>
  <2>1. \A found \in Recovered' : JournalOK(found)
    BY <1>1, <1>2, <1>6 DEF Recovered, Poisoned
  <2>2. TypeOK'
    BY <1>6 DEF IInv, TypeOK, handle
  <2>3. RepliesIn(journal)' /\ CachesCurrent'
    BY <1>6 DEF IInv, RepliesIn, CachesCurrent, IsOpen, db, handle
  <2>4. QED
    BY <2>1, <2>2, <2>3 DEF IInv
<1>7. QED
  BY <1>5, <1>6 DEF CommitBatch

(* Committed or not, no entry is lost.                                     *)
LEMMA CommitExtends ==
    ASSUME IInv, NEW tables \in Tables, Extends(tables.audit, db.audit),
           NEW rec, NEW com, CommitBatch(tables, com, rec)
    PROVE  Extends(db'.audit, db.audit)
<1>1. journal \in Seq(Tables) /\ db.audit \in Seq(AuditEntry)
  BY DbFacts
<1>2. CASE journal' = Append(journal, tables)
  <2>1. db' = tables
    BY <1>1, <1>2 DEF db
  <2>2. QED
    BY <2>1
<1>3. CASE UNCHANGED journal
  <2>1. db' = db
    BY <1>3 DEF db
  <2>2. QED
    BY <1>1, <2>1, ExtendsReflexive
<1>4. QED
  BY <1>2, <1>3 DEF CommitBatch

(* The first checkpoint of an empty database.                              *)
LEMMA GenesisKept ==
    ASSUME NEW tables \in Tables, WellKept(tables), NEW mode \in Modes
    PROVE  /\ Genesis(mode, tables) \in Tables
           /\ WellKept(Genesis(mode, tables))
           /\ StoredRecords(Genesis(mode, tables)) = StoredRecords(tables)
           /\ Genesis(mode, tables).audit = tables.audit
<1> DEFINE new == Genesis(mode, tables)
<1>1. /\ tables.audit \in Seq(AuditEntry)
      /\ new = [keyspaces  |-> tables.keyspaces,
                audit      |-> tables.audit,
                checkpoint |-> NewCheckpoint(mode, StoredRecords(tables),
                                             tables.audit)]
  BY DEF Genesis, Tables
<1> HIDE DEF new
<1>2. new \in Tables /\ WellKept(new)
      /\ StoredRecords(new) = StoredRecords(tables)
  BY <1>1, FittingTables DEF WellKept
<1>3. QED
  BY <1>1, <1>2 DEF new

LEMMA OpenStep ==
    ASSUME IInv, NEW o \in Owners, NEW mode \in Modes, Open(o, mode)
    PROVE  IInv'
<1>1. PICK found \in Recovered :
         LET tables == found[Len(found)] IN
         \/ /\ Attach(o, mode, tables)
            /\ journal' = IF tables.checkpoint = Absent
                          THEN Append(found, Genesis(mode, tables))
                          ELSE found
            /\ in_doubt' = Absent
         \/ /\ journal' = found
            /\ in_doubt' = Genesis(mode, tables)
            /\ UNCHANGED handle
         \/ /\ journal' = found
            /\ in_doubt' = Absent
            /\ UNCHANGED handle
  BY DEF Open
<1> DEFINE tables  == found[Len(found)]
           genesis == Genesis(mode, tables)
           longer  == Append(found, genesis)
<1>2. /\ found \in Seq(Tables) /\ Len(found) \in Nat \ {0}
      /\ Len(found) >= Len(journal)
      /\ tables \in Tables /\ WellKept(tables)
      /\ JournalOK(found) /\ RepliesIn(found)
  BY RecoveredFacts DEF JournalOK
<1>3. /\ genesis \in Tables /\ WellKept(genesis)
      /\ StoredRecords(genesis) = StoredRecords(tables)
      /\ genesis.audit = tables.audit
  BY <1>2, GenesisKept
<1>4. /\ longer \in Seq(Tables) /\ JournalOK(longer)
      /\ Len(longer) = Len(found) + 1
      /\ longer[Len(longer)] = genesis
      /\ \A n \in 1..Len(found) : longer[n] = found[n]
  <2>1. Extends(genesis.audit, tables.audit)
    BY <1>2, <1>3, ExtendsReflexive DEF Tables
  <2>2. QED
    BY <1>2, <1>3, <2>1, JournalAppend
<1>5. /\ ~IsOpen /\ UNCHANGED <<synced, replies>>
      /\ TypeOK
  BY DEF Open, IInv
<1> HIDE DEF tables, genesis, longer
<1>6. CASE Attach(o, mode, tables) /\ in_doubt' = Absent
           /\ journal' = IF tables.checkpoint = Absent THEN longer ELSE found
  <2>1. /\ journal' \in Seq(Tables) /\ JournalOK(journal')
        /\ Len(journal') \in Nat /\ Len(journal') >= Len(found)
        /\ \A n \in 1..Len(found) : journal'[n] = found[n]
    BY <1>2, <1>4, <1>6
  <2>2. db'.audit = tables.audit /\ StoredRecords(db') = StoredRecords(tables)
    BY <1>3, <1>4, <1>6 DEF db, tables
  <2>3. \A next \in Recovered' : JournalOK(next)
    BY <1>6, <2>1 DEF Recovered, Poisoned
  <2>4. RepliesIn(journal)'
    BY <1>2, <1>5, <2>1 DEF RepliesIn
  <2>5. TypeOK'
    <3>1. synced' \in 1..Len(journal') /\ journal' # <<>>
      BY <1>2, <1>5, <2>1 DEF TypeOK
    <3>2. /\ owner_id' \in Owners /\ checkpoint_auth' \in Modes
          /\ audit_len' \in Nat /\ audit_tail' \in Hash
          /\ commitment' \in Commitment
      BY <1>2, <1>6, CacheTypes DEF Attach, WellKept
    <3>3. QED
      BY <1>5, <1>6, <2>1, <3>1, <3>2 DEF TypeOK
  <2>6. CachesCurrent'
    BY <1>6, <2>2 DEF CachesCurrent, Attach
  <2>7. QED
    BY <2>3, <2>4, <2>5, <2>6 DEF IInv
<1>7. CASE /\ journal' = found /\ UNCHANGED handle
           /\ in_doubt' = Absent \/ in_doubt' = genesis
  <2>1. \A next \in Recovered' : JournalOK(next)
    BY <1>2, <1>4, <1>7 DEF Recovered, Poisoned, longer
  <2>2. RepliesIn(journal)'
    BY <1>2, <1>5, <1>7 DEF RepliesIn
  <2>3. TypeOK'
    <3>1. synced' \in 1..Len(journal') /\ journal' # <<>>
      BY <1>2, <1>5, <1>7 DEF TypeOK
    <3>2. QED
      BY <1>2, <1>3, <1>5, <1>7, <3>1 DEF TypeOK, handle
  <2>4. CachesCurrent'
    BY <1>5, <1>7 DEF CachesCurrent, IsOpen, handle
  <2>5. QED
    BY <2>1, <2>2, <2>3, <2>4 DEF IInv
<1>8. QED
  BY <1>1, <1>6, <1>7 DEF tables, genesis, longer

(* A session that is gone has nothing cached.                              *)
LEMMA ForgetFacts ==
    ASSUME Forget
    PROVE  /\ owner_id' \in Owners \cup {Absent}
           /\ checkpoint_auth' \in Modes
           /\ audit_len' \in Nat
           /\ audit_tail' \in Hash
           /\ commitment' \in Commitment
           /\ CachesCurrent'
BY DEF Forget, Modes, ZeroHash, Hash, record_created_at_commitment,
       NoRecords, Commitment, CachesCurrent, IsOpen

LEMMA CloseOrCrashStep ==
    ASSUME IInv, CloseOrCrash
    PROVE  IInv'
<1>1. Forget /\ UNCHANGED <<journal, synced, in_doubt, replies>>
  BY DEF CloseOrCrash
<1>2. TypeOK'
  BY <1>1, ForgetFacts DEF IInv, TypeOK
<1>3. /\ \A found \in Recovered' : JournalOK(found)
      /\ RepliesIn(journal)'
  BY <1>1 DEF IInv, Recovered, Poisoned, RepliesIn
<1>4. QED
  BY <1>1, <1>2, <1>3, ForgetFacts DEF IInv

LEMMA SyncStep ==
    ASSUME IInv, Sync
    PROVE  IInv'
<1>1. /\ UNCHANGED <<journal, in_doubt, handle, replies>>
      /\ synced' = Len(journal)
  BY DEF Sync
<1>2. TypeOK'
  BY <1>1, DbFacts DEF IInv, TypeOK, handle
<1>3. /\ \A found \in Recovered' : JournalOK(found)
      /\ RepliesIn(journal)' /\ CachesCurrent'
  BY <1>1 DEF IInv, Recovered, Poisoned, RepliesIn, CachesCurrent, IsOpen,
              db, handle
<1>4. QED
  BY <1>2, <1>3 DEF IInv

LEMMA LosePowerStep ==
    ASSUME IInv, LosePower
    PROVE  IInv'
<1>1. PICK n \in synced..(Len(journal) - 1) :
         /\ journal' = SubSeq(journal, 1, n)
         /\ replies' = {r \in replies : r.batch <= n}
  BY DEF LosePower
<1>2. Forget /\ in_doubt' = Absent /\ UNCHANGED synced
  BY DEF LosePower
<1>3. /\ synced \in 1..Len(journal) /\ RepliesIn(journal)
      /\ replies \subseteq Reply
  BY DEF IInv, TypeOK
<1>4. /\ journal \in Seq(Tables) /\ JournalOK(journal)
      /\ Len(journal) \in Nat \ {0}
  BY DbFacts
<1>5. n \in 1..Len(journal) /\ synced \in 1..n
  BY <1>3, <1>4
<1>6. /\ journal' \in Seq(Tables) /\ Len(journal') = n
      /\ \A i \in 1..n : journal'[i] = journal[i]
      /\ JournalOK(journal')
  BY <1>1, <1>4, <1>5, JournalPrefix
<1>7. TypeOK'
  BY <1>1, <1>2, <1>3, <1>5, <1>6, ForgetFacts DEF TypeOK, JournalOK
<1>8. RepliesIn(journal)'
  BY <1>1, <1>3, <1>5, <1>6 DEF RepliesIn
<1>9. \A found \in Recovered' : JournalOK(found)
  BY <1>2, <1>6 DEF Recovered, Poisoned
<1>10. QED
  BY <1>2, <1>7, <1>8, <1>9, ForgetFacts DEF IInv

LEMMA WriteStep ==
    ASSUME IInv, NEW id \in Ids, NEW tier \in Tiers,
           NEW payload \in Payloads, NEW created_at \in Times,
           NEW t \in Times, Write(id, tier, payload, created_at, t)
    PROVE  IInv' /\ Extends(db'.audit, db.audit)
<1> DEFINE rec    == [tier |-> tier, owner_id |-> owner_id,
                      payload |-> payload, created_at |-> created_at]
           tables == RecordBatch(Appended(id, "Write", t), tier, id, rec)
           com    == record_created_at_commitment(StoredRecords(tables))
<1>1. /\ Ready /\ IsOpen /\ FreeId(id, tier)
      /\ CommitBatch(tables, com, rec)
  BY DEF Write, Ready
<1>2. rec \in Record /\ rec # Absent
  <2>1. owner_id \in Owners
    BY <1>1 DEF IInv, TypeOK, IsOpen
  <2>2. QED
    BY <2>1, AbsentRecordAssumption DEF Record
<1>3. /\ Lookup(db, id) = Absent
      /\ \A other \in Tiers : db.keyspaces[other][id] = Absent
  BY <1>1 DEF FreeId, Lookup, TiersOf
<1>4. rec.tier = tier /\ rec.owner_id = owner_id
  OBVIOUS
<1> HIDE DEF rec
<1>5. /\ tables \in Tables /\ WellKept(tables)
      /\ Extends(tables.audit, db.audit)
      /\ Len(tables.audit) = audit_len + 1
  BY <1>1, <1>2, <1>3, <1>4, RecordBatchKept
<1> HIDE DEF tables
<1>6. IInv'
  BY <1>1, <1>2, <1>5, CommitStep
<1>7. QED
  BY <1>1, <1>5, <1>6, CommitExtends

LEMMA ReadStep ==
    ASSUME IInv, NEW id \in Ids, NEW t \in Times, Read(id, t)
    PROVE  IInv' /\ Extends(db'.audit, db.audit)
<1> DEFINE rec    == Lookup(db, id)
           log    == Appended(id, ReadAction(rec), t)
           tables == [keyspaces  |-> db.keyspaces,
                      audit      |-> log,
                      checkpoint |-> checkpoint_bytes(log, commitment)]
           answer == IF is_readable_by(rec, owner_id) THEN rec ELSE Absent
<1>1. /\ Ready /\ IsOpen /\ rec # Absent
      /\ CommitBatch(tables, commitment, answer)
  BY DEF Read, Ready
<1>2. answer \in Record \cup {Absent}
  BY DbFacts, LookupFacts DEF WellKept
<1>3. /\ tables \in Tables /\ WellKept(tables)
      /\ StoredRecords(tables) = StoredRecords(db)
      /\ Extends(tables.audit, db.audit)
      /\ Len(tables.audit) = audit_len + 1
  BY <1>1, ReadBatchKept
<1>4. commitment = record_created_at_commitment(StoredRecords(tables))
  BY <1>1, <1>3 DEF IInv, CachesCurrent
<1> HIDE DEF tables, answer
<1>5. IInv'
  BY <1>1, <1>2, <1>3, <1>4, CommitStep
<1>6. QED
  BY <1>1, <1>3, <1>5, CommitExtends

LEMMA DeleteStep ==
    ASSUME IInv, NEW id \in Ids, NEW t \in Times, Delete(id, t)
    PROVE  IInv' /\ Extends(db'.audit, db.audit)
<1> DEFINE rec    == Lookup(db, id)
           tier   == FirstTier(db, id)
           tables == RecordBatch(Appended(id, "Delete", t), tier, id, Absent)
           com    == record_created_at_commitment(StoredRecords(tables))
<1>1. /\ Ready /\ IsOpen /\ rec # Absent /\ rec.owner_id = owner_id
      /\ CommitBatch(tables, com, Absent)
  BY DEF Delete, Ready, OwnedByRequester, CommitmentAfterDelete
<1>2. /\ tier \in Tiers
      /\ \A other \in Tiers \ {tier} : db.keyspaces[other][id] = Absent
  BY <1>1, DbFacts, LookupFacts DEF WellKept, OneTier
<1> HIDE DEF tier
<1>3. /\ tables \in Tables /\ WellKept(tables)
      /\ Extends(tables.audit, db.audit)
      /\ Len(tables.audit) = audit_len + 1
  BY <1>1, <1>2, RecordBatchKept
<1> HIDE DEF tables
<1>4. IInv'
  BY <1>1, <1>3, CommitStep
<1>5. QED
  BY <1>1, <1>3, <1>4, CommitExtends

(* An open finds the batch in doubt or not, and may add a checkpoint.      *)
LEMMA OpenExtends ==
    ASSUME IInv, NEW o \in Owners, NEW mode \in Modes, Open(o, mode)
    PROVE  Extends(db'.audit, db.audit)
<1>1. PICK found \in Recovered :
         \/ journal' = found
         \/ journal' = Append(found, Genesis(mode, found[Len(found)]))
  BY DEF Open
<1> DEFINE genesis == Genesis(mode, found[Len(found)])
<1>2. /\ found \in Seq(Tables) /\ Len(found) \in Nat \ {0}
      /\ Len(found) >= Len(journal)
      /\ found[Len(found)] \in Tables /\ JournalOK(found)
  BY RecoveredFacts DEF JournalOK
<1>3. Len(journal) \in Nat \ {0} /\ found[Len(journal)] = db
  <2>1. journal \in Seq(Tables) /\ Len(journal) \in Nat \ {0}
    BY DbFacts
  <2>2. found = journal \/ found = Append(journal, in_doubt)
    BY DEF Recovered
  <2>3. QED
    BY <2>1, <2>2 DEF db
<1>4. Extends(found[Len(found)].audit, db.audit)
  BY <1>2, <1>3 DEF JournalOK
<1>5. genesis.audit = found[Len(found)].audit
  BY <1>2, GenesisKept DEF JournalOK
<1> HIDE DEF genesis
<1>6. db' = found[Len(found)] \/ db' = genesis
  BY <1>1, <1>2 DEF db, genesis
<1>7. QED
  BY <1>4, <1>5, <1>6

LEMMA StepIInv ==
    ASSUME IInv, [Next]_vars
    PROVE  /\ IInv'
           /\ LosePower \/ Extends(db'.audit, db.audit)
<1>1. ASSUME NEW o \in Owners, NEW mode \in Modes, Open(o, mode)
      PROVE  IInv' /\ Extends(db'.audit, db.audit)
  BY <1>1, OpenStep, OpenExtends
<1>2. ASSUME UNCHANGED journal
      PROVE  Extends(db'.audit, db.audit)
  <2>1. db' = db
    BY <1>2 DEF db
  <2>2. QED
    BY <2>1, DbFacts, ExtendsReflexive
<1>3. CASE CloseOrCrash
  BY <1>2, <1>3, CloseOrCrashStep DEF CloseOrCrash
<1>4. CASE Sync
  BY <1>2, <1>4, SyncStep DEF Sync
<1>5. CASE LosePower
  BY <1>5, LosePowerStep
<1>6. ASSUME NEW id \in Ids, NEW tier \in Tiers, NEW payload \in Payloads,
             NEW created_at \in Times, NEW t \in Times,
             Write(id, tier, payload, created_at, t)
      PROVE  IInv' /\ Extends(db'.audit, db.audit)
  BY <1>6, WriteStep
<1>7. ASSUME NEW id \in Ids, NEW t \in Times, Read(id, t) \/ Delete(id, t)
      PROVE  IInv' /\ Extends(db'.audit, db.audit)
  BY <1>7, ReadStep, DeleteStep
<1>8. CASE UNCHANGED vars
  <2>1. UNCHANGED journal
    BY <1>8 DEF vars
  <2>2. IInv'
    BY <1>8 DEF vars, handle, IInv, TypeOK, Recovered, Poisoned, RepliesIn,
                CachesCurrent, IsOpen, db
  <2>3. QED
    BY <1>2, <2>1, <2>2
<1>9. QED
  BY <1>1, <1>3, <1>4, <1>5, <1>6, <1>7, <1>8 DEF Next

-----------------------------------------------------------------------------
(* The theorems.                                                           *)

(* Every reachable database, with what a failed commit may have left of    *)
(* it, is a journal of well kept tables whose log only grows.              *)
THEOREM FjallInvariance == Spec => []IInv
<1>1. Init => IInv
  BY InitIInv
<1>2. IInv /\ [Next]_vars => IInv'
  BY StepIInv
<1>3. QED
  BY <1>1, <1>2, PTL DEF Spec

(* The tables, the cached fields and the answers keep their types.         *)
THEOREM FjallTypeCorrect == Spec => []TypeOK
<1>1. IInv => TypeOK
  BY DEF IInv
<1>2. QED
  BY <1>1, FjallInvariance, PTL

(* What a crash or a power loss may leave is one batch of a good journal.  *)
LEMMA SurvivorFacts ==
    ASSUME IInv, NEW tables \in Survivors
    PROVE  tables \in Tables /\ WellKept(tables)
<1>1. ASSUME NEW found \in Recovered, tables = found[Len(found)]
      PROVE  tables \in Tables /\ WellKept(tables)
  BY <1>1, RecoveredFacts DEF JournalOK
<1>2. ASSUME NEW n \in synced..Len(journal), tables = journal[n]
      PROVE  tables \in Tables /\ WellKept(tables)
  <2>1. n \in 1..Len(journal)
    BY DbFacts DEF IInv, TypeOK
  <2>2. QED
    BY <1>2, <2>1, DbFacts DEF JournalOK
<1>3. QED
  BY <1>1, <1>2 DEF Survivors, AfterCrash

(* Whatever a crash, a failed commit or a power loss leaves opens again,   *)
(* provided the clock never read 0 (created_at = 0 is refused when read).  *)
THEOREM FjallAlwaysReopens ==
    ASSUME 0 \notin Times
    PROVE  Spec => []SurvivorsReopen
<1>1. IInv => SurvivorsReopen
  BY SurvivorFacts, WellKeptOpens DEF SurvivorsReopen
<1>2. QED
  BY <1>1, FjallInvariance, PTL

(* And holds exactly the records of a legal history.                       *)
THEOREM FjallSurvivorsMatch == Spec => []SurvivorsMatchHistory
<1>1. IInv => SurvivorsMatchHistory
  BY SurvivorFacts DEF SurvivorsMatchHistory, WellKept, Consistent
<1>2. QED
  BY <1>1, FjallInvariance, PTL

(* The cached length, tail and commitment are never stale.                 *)
THEOREM FjallCachesCurrent == Spec => []CachesCurrent
<1>1. IInv => CachesCurrent
  BY DEF IInv
<1>2. QED
  BY <1>1, FjallInvariance, PTL

(* An answer stays backed by its entry, however later commits end.         *)
THEOREM FjallRepliesDurable == Spec => []RepliesAreDurable
<1>1. ASSUME IInv, NEW r \in replies, NEW tables \in AfterCrash
      PROVE  /\ r.index \in 1..Len(tables.audit)
             /\ tables.audit[r.index] = r.entry
  <2>1. PICK found \in Recovered : tables = found[Len(found)]
    BY DEF AfterCrash
  <2>2. /\ found \in Seq(Tables) /\ Len(found) \in Nat \ {0}
        /\ JournalOK(found) /\ RepliesIn(found)
    BY <1>1, RecoveredFacts DEF JournalOK
  <2>3. /\ r.batch \in 1..Len(found)
        /\ r.index \in 1..Len(found[r.batch].audit)
        /\ found[r.batch].audit[r.index] = r.entry
    BY <2>2 DEF RepliesIn
  <2>4. Extends(tables.audit, found[r.batch].audit)
    BY <2>1, <2>2, <2>3 DEF JournalOK
  <2>5. /\ found[r.batch].audit \in Seq(AuditEntry)
        /\ tables.audit \in Seq(AuditEntry)
    <3>1. found[r.batch] \in Tables /\ tables \in Tables
      BY <2>1, <2>2, <2>3
    <3>2. \A tab \in Tables : tab.audit \in Seq(AuditEntry)
      BY DEF Tables
    <3>3. QED
      BY <3>1, <3>2
  <2>6. QED
    BY <2>3, <2>4, <2>5 DEF Extends
<1>2. IInv => RepliesAreDurable
  BY <1>1 DEF RepliesAreDurable
<1>3. QED
  BY <1>2, FjallInvariance, PTL

(* A longer log carries a longer history.                                  *)
LEMMA HistoryExtends ==
    ASSUME NEW log \in Seq(AuditEntry), NEW longer \in Seq(AuditEntry),
           Extends(longer, log)
    PROVE  Extends(HistoryOf(longer), HistoryOf(log))
BY HistoryOfFacts DEF Extends

LEMMA FjallAbstractOperators ==
    ASSUME NEW h, NEW g, NEW own
    PROVE  /\ LegalHistory(h) => Abstract!LegalHistory(h)
           /\ OwnersMatch(own, h) => Abstract!OwnersMatch(own, h)
           /\ Extends(h, g) => Abstract!Extends(h, g)
BY DEF LegalHistory, LegalEntry, LiveBy, OwnersMatch, Extends,
       Abstract!LegalHistory, Abstract!LegalEntry, Abstract!LiveBy,
       Abstract!OwnersMatch, Abstract!Extends

(* Power losses apart, the database implements the abstract audited store. *)
THEOREM FjallRefinement == Spec => AbstractSpec
<1>1. Init => Abstract!Init
  <2> SUFFICES ASSUME Init
               PROVE  Abstract!Init
    OBVIOUS
  <2>1. db = NoTables
    BY DEF Init, db
  <2>2. HistoryOf(db.audit) = <<>>
    BY <2>1 DEF NoTables, HistoryOf
  <2>3. \A id \in Ids : StoredRecords(db)[id] = Absent
    <3>1. \A tier \in Tiers : db.keyspaces[tier] = NoRecords
      BY <2>1 DEF NoTables
    <3>2. \A tier \in Tiers, id \in Ids : db.keyspaces[tier][id] = Absent
      BY <3>1 DEF NoRecords
    <3>3. QED
      BY <3>2, NoTierFound DEF StoredRecords
  <2>4. OwnerMap(StoredRecords(db)) = [id \in Ids |-> Absent]
    BY <2>3 DEF OwnerMap
  <2>5. QED
    BY <2>2, <2>4 DEF Abstract!Init
<1>2. IInv /\ IInv' /\ [Next]_vars =>
         [Abstract!Next \/ LosePower]_(Abstract!storeVars)
  <2> SUFFICES ASSUME IInv, IInv', [Next]_vars
               PROVE  Abstract!Next \/ LosePower
    OBVIOUS
  <2>1. CASE LosePower
    BY <2>1
  <2>2. CASE Extends(db'.audit, db.audit)
    <3>1. /\ db.audit \in Seq(AuditEntry) /\ db'.audit \in Seq(AuditEntry)
          /\ StoredRecords(db)' \in RecordMap
          /\ LegalHistory(db'.audit)
          /\ OwnersMatch(OwnerMap(StoredRecords(db)'), db'.audit)
      BY DbFacts, DbFactsNext DEF WellKept, Consistent
    <3>2. OwnerMap(StoredRecords(db)') \in [Ids -> Owners \cup {Absent}]
      BY <3>1, OwnerMapType
    <3>3. Extends(HistoryOf(db'.audit), HistoryOf(db.audit))
      BY <2>2, <3>1, HistoryExtends
    <3>4. /\ LegalHistory(HistoryOf(db'.audit))
          /\ OwnersMatch(OwnerMap(StoredRecords(db)'), HistoryOf(db'.audit))
      BY <3>1, HistoryOfMeaning
    <3>5. /\ Abstract!Extends(HistoryOf(db'.audit), HistoryOf(db.audit))
          /\ Abstract!LegalHistory(HistoryOf(db'.audit))
          /\ Abstract!OwnersMatch(OwnerMap(StoredRecords(db)'),
                                  HistoryOf(db'.audit))
      BY <3>3, <3>4, FjallAbstractOperators
    <3>6. QED
      BY <3>2, <3>5 DEF Abstract!Next, Abstract!Commit
  <2>3. QED
    BY <2>1, <2>2, StepIInv
<1>3. QED
  BY <1>1, <1>2, FjallInvariance, PTL DEF Spec, AbstractSpec
=============================================================================
