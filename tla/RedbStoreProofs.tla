-------------------------- MODULE RedbStoreProofs ---------------------------
(***************************************************************************)
(* The shared file of RedbStore, for any number of sessions, ids, owners   *)
(* and secrets, any clock and any bounds: its inductive invariant IInv,    *)
(* and what follows from it.                                               *)
(***************************************************************************)
EXTENDS RedbStore, AuditChainProofs

LEMMA InitIInv == Init => IInv
<1> SUFFICES ASSUME Init
             PROVE  IInv
  OBVIOUS
<1>1. /\ NoRecords \in RecordMap
      /\ <<>> \in Seq(AuditEntry)
      /\ Legacy \in Modes
  BY DEF NoRecords, RecordMap, Modes, Legacy
<1>2. TypeOK
  BY <1>1 DEF Init, TypeOK, PC
<1>3. Consistent(disk_records, disk_audit)
  BY ConsistentEmpty DEF Init
<1>4. CheckpointIsCurrent
  BY DEF Init, CheckpointIsCurrent
<1>5. \A s \in Sessions : SessionInv(s)
  BY ConsistentEmpty DEF Init, SessionInv
<1>6. RepliesAreDurable
  BY DEF Init, RepliesAreDurable
<1>7. QED
  BY <1>2, <1>3, <1>4, <1>5, <1>6 DEF IInv

-----------------------------------------------------------------------------
(* Frames: what a step does not disturb.                                   *)

(* A step that touches only session s, and lets the durable log grow,      *)
(* keeps the invariant of every other session.                             *)
LEMMA OtherSessions ==
    ASSUME TypeOK, TypeOK', NEW s \in Sessions, NEW q \in Sessions \ {s},
           SessionInv(q),
           pc'[q] = pc[q], owner_id'[q] = owner_id[q],
           records'[q] = records[q], audit_log'[q] = audit_log[q],
           request'[q] = request[q],
           Extends(disk_audit', disk_audit)
    PROVE  SessionInv(q)'
<1>1. pc[q] = "replying" => Extends(disk_audit', audit_log[q])
  <2>1. /\ audit_log[q] \in Seq(AuditEntry)
        /\ disk_audit \in Seq(AuditEntry)
        /\ disk_audit' \in Seq(AuditEntry)
    BY DEF TypeOK
  <2>2. QED
    BY <2>1, ExtendsTransitive DEF SessionInv
<1>2. QED
  BY <1>1 DEF SessionInv

(* Answers stay durable while the log grows.                               *)
LEMMA RepliesStayDurable ==
    ASSUME TypeOK, TypeOK', RepliesAreDurable, replies' = replies,
           Extends(disk_audit', disk_audit)
    PROVE  RepliesAreDurable'
<1>1. disk_audit \in Seq(AuditEntry) /\ disk_audit' \in Seq(AuditEntry)
  BY DEF TypeOK
<1> SUFFICES ASSUME NEW r \in replies, r.saved
             PROVE  /\ r.index \in 1..Len(disk_audit')
                    /\ disk_audit'[r.index] = r.entry
  BY DEF RepliesAreDurable
<1>2. r.index \in 1..Len(disk_audit) /\ disk_audit[r.index] = r.entry
  BY DEF RepliesAreDurable
<1>3. QED
  BY <1>1, <1>2 DEF Extends

(* A session that forgets everything satisfies its invariant.              *)
LEMMA ForgetStep ==
    ASSUME IInv, NEW s \in Sessions, Forget(s),
           pc' = [pc EXCEPT ![s] = "closed"],
           file_exists' \in BOOLEAN,
           UNCHANGED <<disk_records, disk_audit, checkpoint, replies>>
    PROVE  IInv'
<1>1. TypeOK /\ disk_audit \in Seq(AuditEntry)
  BY DEF IInv, TypeOK
<1>2. TypeOK'
  <2>1. NoRecords \in RecordMap /\ <<>> \in Seq(AuditEntry) /\ Legacy \in Modes
    BY DEF NoRecords, RecordMap, Modes, Legacy
  <2>2. QED
    BY <1>1, <2>1 DEF TypeOK, Forget, PC
<1>3. Extends(disk_audit', disk_audit)
  BY <1>1, ExtendsReflexive
<1>4. (Consistent(disk_records, disk_audit) /\ CheckpointIsCurrent)'
  BY DEF IInv, CheckpointIsCurrent
<1>5. SessionInv(s)'
  BY <1>1, ConsistentEmpty DEF SessionInv, Forget, TypeOK
<1>6. ASSUME NEW q \in Sessions \ {s}
      PROVE  SessionInv(q)'
  BY <1>1, <1>2, <1>3, OtherSessions DEF IInv, Forget, TypeOK
<1>7. RepliesAreDurable'
  BY <1>1, <1>2, <1>3, RepliesStayDurable DEF IInv
<1>8. QED
  BY <1>2, <1>4, <1>5, <1>6, <1>7 DEF IInv

-----------------------------------------------------------------------------
(* Opening.                                                                *)

LEMMA OpenStep ==
    ASSUME IInv, NEW s \in Sessions, NEW o \in Owners, NEW mode \in Modes,
           Open(s, o, mode)
    PROVE  IInv'
<1>1. TypeOK /\ disk_audit \in Seq(AuditEntry)
  BY DEF IInv, TypeOK
<1>2. TypeOK'
  BY <1>1 DEF TypeOK, Open, Goto, PC, disk
<1>3. Extends(disk_audit', disk_audit)
  BY <1>1, ExtendsReflexive DEF Open, disk
<1>4. (Consistent(disk_records, disk_audit) /\ CheckpointIsCurrent)'
  BY DEF IInv, CheckpointIsCurrent, Open, disk
<1>5. SessionInv(s)'
  <2>1. /\ pc'[s] \in {"loading", "creating"}
        /\ owner_id'[s] = o
        /\ records'[s] = records[s] /\ audit_log'[s] = audit_log[s]
    BY <1>1 DEF Open, Goto, TypeOK
  <2>2. QED
    BY <2>1 DEF IInv, SessionInv
<1>6. ASSUME NEW q \in Sessions \ {s}
      PROVE  SessionInv(q)'
  BY <1>1, <1>2, <1>3, OtherSessions DEF IInv, Open, Goto, TypeOK
<1>7. RepliesAreDurable'
  BY <1>1, <1>2, <1>3, RepliesStayDurable DEF IInv, Open
<1>8. QED
  BY <1>2, <1>4, <1>5, <1>6, <1>7 DEF IInv

LEMMA LoadStep ==
    ASSUME IInv, NEW s \in Sessions, Load(s)
    PROVE  IInv'
<1>1. /\ TypeOK
      /\ disk_audit \in Seq(AuditEntry) /\ disk_records \in RecordMap
      /\ store_secret[s] \in Modes
  BY DEF IInv, TypeOK
<1>2. UNCHANGED <<disk_records, disk_audit>>
  BY DEF Load
<1>3. checkpoint' \in Checkpoint \cup {Absent} /\ CheckpointIsCurrent'
  <2>1. CASE checkpoint # Absent
    BY <1>1, <1>2, <2>1 DEF IInv, TypeOK, CheckpointIsCurrent, Load
  <2>2. CASE checkpoint = Absent
    <3>1. checkpoint' = NewCheckpoint(store_secret[s], disk_records, disk_audit)
      BY <2>2 DEF Load
    <3>2. /\ checkpoint' \in Checkpoint /\ checkpoint' # Absent
          /\ CheckpointMode(checkpoint') = store_secret[s]
      BY <1>1, <3>1, NewCheckpointType, NewCheckpointMode
    <3>3. QED
      BY <1>2, <3>1, <3>2 DEF CheckpointIsCurrent
  <2>3. QED
    BY <2>1, <2>2
<1>4. TypeOK'
  BY <1>1, <1>3 DEF TypeOK, Load, Goto, PC
<1>5. Extends(disk_audit', disk_audit)
  BY <1>1, <1>2, ExtendsReflexive
<1>6. SessionInv(s)'
  <2>1. /\ pc[s] = "loading" /\ pc'[s] = "ready"
        /\ owner_id'[s] = owner_id[s]
        /\ records'[s] = disk_records /\ audit_log'[s] = disk_audit
    BY <1>1 DEF Load, Goto, TypeOK
  <2>2. QED
    BY <2>1 DEF IInv, SessionInv
<1>7. ASSUME NEW q \in Sessions \ {s}
      PROVE  SessionInv(q)'
  BY <1>1, <1>4, <1>5, OtherSessions DEF IInv, Load, Goto, TypeOK
<1>8. RepliesAreDurable'
  BY <1>1, <1>4, <1>5, RepliesStayDurable DEF IInv, Load
<1>9. QED
  BY <1>2, <1>3, <1>4, <1>6, <1>7, <1>8 DEF IInv

-----------------------------------------------------------------------------
(* The save transaction.  A session's log extends the durable log it       *)
(* replaces, and the tables it leaves are the session's, which belong      *)
(* together.                                                               *)

LEMMA CommitStep ==
    ASSUME IInv, NEW s \in Sessions, NEW to \in {"ready", "replying"},
           Commit(s),
           pc[s] \in {"saving", "creating"}, pc' = [pc EXCEPT ![s] = to],
           to = "replying" => pc[s] = "saving" /\ request' = request,
           request' \in [Sessions -> Request \cup {Absent}],
           \A q \in Sessions \ {s} : request'[q] = request[q],
           UNCHANGED <<memory, replies>>
    PROVE  IInv' /\ Extends(disk_audit', disk_audit)
<1>1. /\ TypeOK
      /\ disk_audit \in Seq(AuditEntry)
      /\ records[s] \in RecordMap /\ audit_log[s] \in Seq(AuditEntry)
      /\ store_secret[s] \in Modes
  BY DEF IInv, TypeOK
<1>2. disk_records' = records[s] /\ disk_audit' = audit_log[s]
  BY DEF Commit
<1>3. /\ checkpoint' = NewCheckpoint(store_secret[s], records[s], audit_log[s])
      /\ checkpoint' \in Checkpoint /\ checkpoint' # Absent
      /\ CheckpointMode(checkpoint') = store_secret[s]
  BY <1>1, NewCheckpointType, NewCheckpointMode DEF Commit
<1>4. TypeOK'
  BY <1>1, <1>2, <1>3 DEF TypeOK, PC, memory, Commit
<1>5. Extends(disk_audit', disk_audit)
  BY <1>2 DEF Commit, SaveAccepts, audit_history_is_prefix, Extends
<1>6. Consistent(disk_records, disk_audit)'
  BY <1>2 DEF IInv, SessionInv
<1>7. CheckpointIsCurrent'
  BY <1>2, <1>3 DEF CheckpointIsCurrent
<1>8. SessionInv(s)'
  <2>1. SessionInv(s)
    BY DEF IInv
  <2>2. Extends(disk_audit', audit_log'[s])
    BY <1>1, <1>2, ExtendsReflexive DEF memory
  <2>3. pc[s] # "closed" /\ (pc'[s] = "replying" => pc[s] = "saving")
        /\ (pc'[s] = "replying" => request'[s] = request[s])
        /\ pc'[s] \in {"replying", "ready"}
    BY <1>1 DEF TypeOK
  <2>4. QED
    BY <2>1, <2>2, <2>3 DEF SessionInv, memory
<1>9. ASSUME NEW q \in Sessions \ {s}
      PROVE  SessionInv(q)'
  BY <1>1, <1>4, <1>5, OtherSessions DEF IInv, memory, TypeOK
<1>10. RepliesAreDurable'
  BY <1>1, <1>4, <1>5, RepliesStayDurable DEF IInv
<1>11. QED
  BY <1>4, <1>5, <1>6, <1>7, <1>8, <1>9, <1>10 DEF IInv

(* A save that is refused or fails, or a statement that only saves: the    *)
(* tables and the session's copy stay, and the session is not replying.    *)
LEMMA MemoryKept ==
    ASSUME IInv, NEW s \in Sessions, NEW to \in {"ready", "saving"},
           pc[s] # "closed", pc' = [pc EXCEPT ![s] = to],
           file_exists' \in BOOLEAN,
           request' \in [Sessions -> Request \cup {Absent}],
           \A q \in Sessions \ {s} : request'[q] = request[q],
           to = "saving" => /\ request'[s] \in Request
                            /\ request'[s].index <= Len(audit_log[s]),
           UNCHANGED <<disk_records, disk_audit, checkpoint, memory, replies>>
    PROVE  IInv'
<1>1. TypeOK /\ disk_audit \in Seq(AuditEntry)
  BY DEF IInv, TypeOK
<1>2. TypeOK'
  BY <1>1 DEF TypeOK, PC, memory
<1>3. Extends(disk_audit', disk_audit)
  BY <1>1, ExtendsReflexive
<1>4. (Consistent(disk_records, disk_audit) /\ CheckpointIsCurrent)'
  BY DEF IInv, CheckpointIsCurrent
<1>5. SessionInv(s)'
  <2>1. SessionInv(s) /\ pc'[s] = to
    BY <1>1 DEF IInv, TypeOK
  <2>2. QED
    BY <2>1 DEF SessionInv, memory
<1>6. ASSUME NEW q \in Sessions \ {s}
      PROVE  SessionInv(q)'
  BY <1>1, <1>2, <1>3, OtherSessions DEF IInv, memory, TypeOK
<1>7. RepliesAreDurable'
  BY <1>1, <1>2, <1>3, RepliesStayDurable DEF IInv
<1>8. QED
  BY <1>2, <1>4, <1>5, <1>6, <1>7 DEF IInv

(* The answer is sent: its entry is in the durable log already.            *)
LEMMA SendReplyStep ==
    ASSUME IInv, NEW s \in Sessions, SendReply(s)
    PROVE  IInv'
<1>1. /\ TypeOK
      /\ disk_audit \in Seq(AuditEntry) /\ audit_log[s] \in Seq(AuditEntry)
      /\ SessionInv(s) /\ pc[s] = "replying"
  BY DEF IInv, TypeOK, SendReply, Goto
<1> DEFINE a == Answer(s, TRUE, request[s].index, audit_log[s],
                       request[s].record)
<1>2. /\ request[s] \in Request
      /\ request[s].index \in Nat
      /\ request[s].index <= Len(audit_log[s])
      /\ Extends(disk_audit, audit_log[s])
  BY <1>1 DEF SessionInv, Request
<1>3. ASSUME request[s].index # 0
      PROVE  /\ a \in Reply
             /\ a.index \in 1..Len(disk_audit)
             /\ disk_audit[a.index] = a.entry
  <2>1. request[s].index \in 1..Len(audit_log[s])
    BY <1>1, <1>2, <1>3
  <2>2. audit_log[s][request[s].index] \in AuditEntry
    BY <1>1, <2>1
  <2>3. request[s].record \in Record \cup {Absent}
    BY <1>2 DEF Request
  <2>4. a \in Reply
    BY <1>2, <2>2, <2>3 DEF Reply, Answer
  <2>5. /\ a.index = request[s].index
        /\ a.entry = audit_log[s][request[s].index]
    BY DEF Answer
  <2>6. /\ request[s].index \in 1..Len(disk_audit)
        /\ disk_audit[request[s].index] = audit_log[s][request[s].index]
    BY <1>1, <1>2, <2>1 DEF Extends
  <2> HIDE DEF a
  <2>7. QED
    BY <2>4, <2>5, <2>6
<1>4. replies' = IF request[s].index = 0 THEN replies ELSE replies \cup {a}
  BY DEF SendReply
<1> HIDE DEF a
<1>5. UNCHANGED <<disk_records, disk_audit, checkpoint, file_exists>>
  BY DEF SendReply, disk
<1>6. replies' \subseteq Reply
  BY <1>1, <1>3, <1>4 DEF TypeOK
<1>7. TypeOK'
  BY <1>1, <1>5, <1>6 DEF TypeOK, PC, memory, SendReply, Goto
<1>8. Extends(disk_audit', disk_audit)
  BY <1>1, <1>5, ExtendsReflexive
<1>9. (Consistent(disk_records, disk_audit) /\ CheckpointIsCurrent)'
  BY <1>5 DEF IInv, CheckpointIsCurrent
<1>10. SessionInv(s)'
  BY <1>1 DEF SessionInv, SendReply, Goto, memory, TypeOK
<1>11. ASSUME NEW q \in Sessions \ {s}
       PROVE  SessionInv(q)'
  BY <1>1, <1>7, <1>8, OtherSessions DEF IInv, SendReply, Goto, memory, TypeOK
<1>12. RepliesAreDurable'
  BY <1>3, <1>4, <1>5 DEF IInv, RepliesAreDurable
<1>13. QED
  BY <1>7, <1>9, <1>10, <1>11, <1>12 DEF IInv

-----------------------------------------------------------------------------
(* Statements.                                                             *)

(* A statement on a ready session that logs one entry and keeps records    *)
(* and log together, with or without answering at once.                    *)
LEMMA StatementStep ==
    ASSUME IInv, NEW s \in Sessions, NEW to \in {"ready", "saving"},
           NEW id \in Ids, NEW action \in AuditAction, NEW t \in Times,
           pc[s] = "ready", pc' = [pc EXCEPT ![s] = to],
           LogEntry(s, id, action, t),
           records' \in [Sessions -> RecordMap],
           \A q \in Sessions \ {s} : records'[q] = records[q],
           Consistent(records'[s],
                      append_audit(audit_log[s], id, owner_id[s], action, t)),
           request' \in [Sessions -> Request \cup {Absent}],
           \A q \in Sessions \ {s} : request'[q] = request[q],
           to = "saving" => /\ request'[s] \in Request
                            /\ request'[s].index = Len(audit_log[s]) + 1,
           replies' \subseteq Reply,
           RepliesAreDurable',
           UNCHANGED <<disk, owner_id, store_secret>>
    PROVE  IInv'
<1>1. /\ TypeOK
      /\ disk_audit \in Seq(AuditEntry) /\ audit_log[s] \in Seq(AuditEntry)
      /\ SessionInv(s) /\ owner_id[s] \in Owners
  BY DEF IInv, TypeOK, SessionInv
<1> DEFINE g == append_audit(audit_log[s], id, owner_id[s], action, t)
<1>2. /\ g \in Seq(AuditEntry)
      /\ Len(g) = Len(audit_log[s]) + 1
  BY <1>1, AppendAuditType
<1>3. audit_log' = [audit_log EXCEPT ![s] = g]
  BY DEF LogEntry
<1> HIDE DEF g
<1>4. TypeOK'
  BY <1>1, <1>2, <1>3 DEF TypeOK, PC, disk
<1>5. Extends(disk_audit', disk_audit)
  BY <1>1, ExtendsReflexive DEF disk
<1>6. (Consistent(disk_records, disk_audit) /\ CheckpointIsCurrent)'
  BY DEF IInv, CheckpointIsCurrent, disk
<1>7. SessionInv(s)'
  <2>1. audit_log'[s] = g /\ pc'[s] = to /\ owner_id'[s] = owner_id[s]
    BY <1>1, <1>3 DEF TypeOK
  <2>2. Consistent(records'[s], audit_log'[s])
    BY <2>1 DEF g
  <2>3. QED
    BY <1>1, <1>2, <2>1, <2>2 DEF SessionInv, Request
<1>8. ASSUME NEW q \in Sessions \ {s}
      PROVE  SessionInv(q)'
  BY <1>1, <1>3, <1>4, <1>5, OtherSessions DEF IInv, TypeOK
<1>9. QED
  BY <1>4, <1>6, <1>7, <1>8 DEF IInv

LEMMA ExecWriteStep ==
    ASSUME IInv, NEW s \in Sessions, NEW id \in Ids, NEW tier \in Tiers,
           NEW payload \in Payloads, NEW created_at \in Times,
           NEW t \in Times,
           ExecWrite(s, id, tier, payload, created_at, t)
    PROVE  IInv'
<1> DEFINE rec == [tier |-> tier, owner_id |-> owner_id[s],
                   payload |-> payload, created_at |-> created_at]
<1>1. /\ TypeOK
      /\ records[s] \in RecordMap /\ audit_log[s] \in Seq(AuditEntry)
      /\ pc[s] = "ready" /\ SessionInv(s) /\ owner_id[s] \in Owners
  BY DEF IInv, TypeOK, SessionInv, ExecWrite, Goto
<1>2. rec \in Record /\ rec # Absent /\ rec.owner_id = owner_id[s]
  BY <1>1, AbsentRecordAssumption DEF Record
<1>3. /\ records[s][id] = Absent
      /\ LogEntry(s, id, "Write", t)
      /\ records' = [records EXCEPT ![s][id] = rec]
      /\ request' = [request EXCEPT ![s] =
                        [index |-> Len(audit_log[s]) + 1, record |-> rec]]
      /\ pc' = [pc EXCEPT ![s] = "saving"]
      /\ UNCHANGED <<disk, owner_id, store_secret, replies>>
  BY DEF ExecWrite, StoreWrite, ensure_new_record_id, Await, Goto
<1> HIDE DEF rec
<1>4. /\ records'[s] \in RecordMap
      /\ records' \in [Sessions -> RecordMap]
      /\ \A q \in Sessions \ {s} : records'[q] = records[q]
      /\ records'[s][id] = rec
      /\ \A i \in Ids \ {id} : records'[s][i] = records[s][i]
  <2> DEFINE written == [records[s] EXCEPT ![id] = rec]
  <2>1. /\ written \in RecordMap /\ written[id] = rec
        /\ \A i \in Ids \ {id} : written[i] = records[s][i]
    BY <1>1, <1>2 DEF RecordMap
  <2>2. records' = [records EXCEPT ![s] = written]
    BY <1>3
  <2> HIDE DEF written
  <2>3. QED
    BY <1>1, <2>1, <2>2 DEF TypeOK
<1>5. [index |-> Len(audit_log[s]) + 1, record |-> rec] \in Request
  BY <1>1, <1>2 DEF Request
<1>6. Consistent(records'[s],
                 append_audit(audit_log[s], id, owner_id[s], "Write", t))
  <2>1. Consistent(records[s], audit_log[s]) /\ "Write" \in AuditAction
    BY <1>1 DEF SessionInv, AuditAction
  <2> DEFINE after == records'[s]
  <2>2. /\ after \in RecordMap /\ after[id] # Absent
        /\ after[id].owner_id = owner_id[s]
        /\ \A i \in Ids \ {id} : after[i] = records[s][i]
    BY <1>2, <1>4
  <2> HIDE DEF after
  <2>3. Consistent(after,
                   append_audit(audit_log[s], id, owner_id[s], "Write", t))
    BY <1>1, <1>3, <2>1, <2>2, ConsistentAppend
  <2>4. QED
    BY <2>3 DEF after
<1>7. RepliesAreDurable'
  BY <1>3 DEF IInv, RepliesAreDurable, disk
<1>8. QED
  BY <1>1, <1>3, <1>4, <1>5, <1>6, <1>7, StatementStep
     DEF TypeOK, AuditAction

LEMMA ExecDeleteStep ==
    ASSUME IInv, NEW s \in Sessions, NEW id \in Ids, NEW t \in Times,
           ExecDelete(s, id, t)
    PROVE  IInv'
<1>1. /\ TypeOK
      /\ records[s] \in RecordMap /\ audit_log[s] \in Seq(AuditEntry)
      /\ pc[s] = "ready" /\ SessionInv(s) /\ owner_id[s] \in Owners
  BY DEF IInv, TypeOK, SessionInv, ExecDelete, Goto
<1>2. /\ records[s][id] # Absent /\ records[s][id].owner_id = owner_id[s]
      /\ LogEntry(s, id, "Delete", t)
      /\ records' = [records EXCEPT ![s][id] = Absent]
      /\ request' = [request EXCEPT ![s] =
                        [index |-> Len(audit_log[s]) + 1, record |-> Absent]]
      /\ pc' = [pc EXCEPT ![s] = "saving"]
      /\ UNCHANGED <<disk, owner_id, store_secret, replies>>
  BY DEF ExecDelete, StoreDelete, MayDelete, Await, Goto
<1>3. /\ records'[s] \in RecordMap
      /\ records' \in [Sessions -> RecordMap]
      /\ \A q \in Sessions \ {s} : records'[q] = records[q]
      /\ records'[s][id] = Absent
      /\ \A i \in Ids \ {id} : records'[s][i] = records[s][i]
  BY <1>1, <1>2 DEF TypeOK, RecordMap
<1>4. [index |-> Len(audit_log[s]) + 1, record |-> Absent] \in Request
  BY <1>1 DEF Request
<1>5. Consistent(records'[s],
                 append_audit(audit_log[s], id, owner_id[s], "Delete", t))
  BY <1>1, <1>2, <1>3, ConsistentAppend DEF SessionInv, AuditAction
<1>6. RepliesAreDurable'
  BY <1>2 DEF IInv, RepliesAreDurable, disk
<1>7. QED
  BY <1>1, <1>2, <1>3, <1>4, <1>5, <1>6, StatementStep
     DEF TypeOK, AuditAction

(* A read leaves records and log together, whichever way it is decided.    *)
LEMMA StoreReadFacts ==
    ASSUME IInv, NEW s \in Sessions, NEW id \in Ids, NEW t \in Times,
           pc[s] = "ready", StoreRead(s, id, t)
    PROVE  /\ ReadAction(s, id) \in AuditAction
           /\ ReadResult(s, id) \in Record \cup {Absent}
           /\ LogEntry(s, id, ReadAction(s, id), t)
           /\ records' = records
           /\ Consistent(records'[s],
                 append_audit(audit_log[s], id, owner_id[s],
                              ReadAction(s, id), t))
<1>1. /\ TypeOK
      /\ records[s] \in RecordMap /\ audit_log[s] \in Seq(AuditEntry)
      /\ SessionInv(s) /\ owner_id[s] \in Owners
  BY DEF IInv, TypeOK, SessionInv
<1>2. /\ records[s][id] # Absent /\ records' = records
      /\ LogEntry(s, id, ReadAction(s, id), t)
  BY DEF StoreRead
<1>3. /\ ReadAction(s, id) \in {"ReadGranted", "ReadDenied"}
      /\ ReadAction(s, id) = "ReadDenied" =>
             records[s][id].owner_id # owner_id[s]
  BY DEF ReadAction, is_readable_by
<1>4. ReadResult(s, id) \in Record \cup {Absent}
  BY <1>1 DEF ReadResult, RecordMap
<1>5. Consistent(records[s],
                 append_audit(audit_log[s], id, owner_id[s],
                              ReadAction(s, id), t))
  BY <1>1, <1>2, <1>3, ConsistentAppend DEF SessionInv, AuditAction
<1>6. QED
  BY <1>2, <1>3, <1>4, <1>5 DEF AuditAction

LEMMA ExecReadStep ==
    ASSUME IInv, NEW s \in Sessions, NEW id \in Ids, NEW t \in Times,
           ExecRead(s, id, t)
    PROVE  IInv'
<1>1. TypeOK /\ pc[s] = "ready" /\ audit_log[s] \in Seq(AuditEntry)
  BY DEF IInv, TypeOK, ExecRead, Goto
<1>2. /\ StoreRead(s, id, t)
      /\ request' = [request EXCEPT ![s] =
                        [index  |-> Len(audit_log[s]) + 1,
                         record |-> ReadResult(s, id)]]
      /\ pc' = [pc EXCEPT ![s] = "saving"]
      /\ UNCHANGED <<disk, owner_id, store_secret, replies>>
  BY DEF ExecRead, Await, Goto
<1>3. /\ ReadAction(s, id) \in AuditAction
      /\ ReadResult(s, id) \in Record \cup {Absent}
      /\ LogEntry(s, id, ReadAction(s, id), t)
      /\ records' = records
      /\ Consistent(records'[s],
            append_audit(audit_log[s], id, owner_id[s], ReadAction(s, id), t))
  BY <1>1, <1>2, StoreReadFacts
<1>4. [index |-> Len(audit_log[s]) + 1, record |-> ReadResult(s, id)]
         \in Request
  BY <1>1, <1>3 DEF Request
<1>5. RepliesAreDurable'
  BY <1>2 DEF IInv, RepliesAreDurable, disk
<1>6. QED
  BY <1>1, <1>2, <1>3, <1>4, <1>5, StatementStep DEF TypeOK

LEMMA ExecAutoEmbedStep ==
    ASSUME IInv, NEW s \in Sessions, NEW id \in Ids, NEW t \in Times,
           ExecAutoEmbed(s, id, t)
    PROVE  IInv'
<1>1. /\ TypeOK /\ pc[s] = "ready" /\ audit_log[s] \in Seq(AuditEntry)
      /\ owner_id[s] \in Owners
  BY DEF IInv, TypeOK, SessionInv, ExecAutoEmbed
<1> DEFINE a == Answer(s, FALSE, Len(audit_log[s]) + 1, audit_log'[s],
                       ReadResult(s, id))
<1>2. /\ StoreRead(s, id, t)
      /\ replies' = replies \cup {a}
      /\ UNCHANGED <<disk, pc, owner_id, store_secret, request>>
  BY DEF ExecAutoEmbed
<1>3. /\ ReadAction(s, id) \in AuditAction
      /\ ReadResult(s, id) \in Record \cup {Absent}
      /\ LogEntry(s, id, ReadAction(s, id), t)
      /\ records' = records
      /\ Consistent(records'[s],
            append_audit(audit_log[s], id, owner_id[s], ReadAction(s, id), t))
  BY <1>1, <1>2, StoreReadFacts
<1>4. /\ audit_log'[s] \in Seq(AuditEntry)
      /\ Len(audit_log'[s]) = Len(audit_log[s]) + 1
  BY <1>1, <1>3, AppendAuditType DEF LogEntry, TypeOK
<1>5. audit_log'[s][Len(audit_log[s]) + 1] \in AuditEntry
  BY <1>1, <1>4
<1>6. a \in Reply /\ ~a.saved
  BY <1>1, <1>3, <1>5 DEF Reply, Answer
<1> HIDE DEF a
<1>7. replies' \subseteq Reply
  BY <1>1, <1>2, <1>6 DEF TypeOK
<1>8. RepliesAreDurable'
  BY <1>2, <1>6 DEF IInv, RepliesAreDurable, disk
<1>9. pc' = [pc EXCEPT ![s] = "ready"] /\ request' = request
      /\ UNCHANGED <<disk, owner_id, store_secret>>
  BY <1>1, <1>2 DEF TypeOK
<1>10. QED
  BY <1>1, <1>3, <1>7, <1>8, <1>9, StatementStep DEF TypeOK

-----------------------------------------------------------------------------
(* The whole step, and what every step does to the durable log.            *)

LEMMA StepIInv ==
    ASSUME IInv, [Next]_vars
    PROVE  IInv'
<1>1. CASE UNCHANGED vars
  BY <1>1 DEF IInv, TypeOK, CheckpointIsCurrent, SessionInv,
              RepliesAreDurable, vars, disk, memory
<1>2. CASE Next
  <2> PICK s \in Sessions :
        \/ \E o \in Owners, mode \in Modes : Open(s, o, mode)
        \/ Load(s) \/ LoadRejected(s)
        \/ Create(s) \/ CreateRejected(s)
        \/ \E id \in Ids, tier \in Tiers, payload \in Payloads,
              created_at \in Times, t \in Times :
                 ExecWrite(s, id, tier, payload, created_at, t)
        \/ \E id \in Ids, t \in Times :
                 \/ ExecRead(s, id, t)
                 \/ ExecDelete(s, id, t)
                 \/ ExecAutoEmbed(s, id, t)
        \/ SaveOnly(s)
        \/ SaveCommit(s) \/ SaveRejected(s)
        \/ SaveFails(s) \/ SaveInDoubt(s)
        \/ SendReply(s)
        \/ CloseOrCrash(s)
    BY <1>2 DEF Next
  <2> USE DEF Goto
  <2>0. TypeOK
    BY DEF IInv
  <2>1. CASE \E o \in Owners, mode \in Modes : Open(s, o, mode)
    BY <2>1, OpenStep
  <2>2. CASE Load(s)
    BY <2>2, LoadStep
  <2>3. CASE LoadRejected(s)
    BY <2>0, <2>3, ForgetStep DEF LoadRejected, disk, TypeOK
  <2>4. CASE Create(s)
    BY <2>0, <2>4, CommitStep DEF Create, TypeOK
  <2>5. CASE CreateRejected(s)
    BY <2>5, ForgetStep DEF CreateRejected, Abort
  <2>6. CASE \E id \in Ids, tier \in Tiers, payload \in Payloads,
                created_at \in Times, t \in Times :
                   ExecWrite(s, id, tier, payload, created_at, t)
    BY <2>6, ExecWriteStep
  <2>7. CASE \E id \in Ids, t \in Times :
                 \/ ExecRead(s, id, t)
                 \/ ExecDelete(s, id, t)
                 \/ ExecAutoEmbed(s, id, t)
    BY <2>7, ExecReadStep, ExecDeleteStep, ExecAutoEmbedStep
  <2>8. CASE SaveOnly(s)
    <3>1. [index |-> 0, record |-> Absent] \in Request
      BY DEF Request
    <3>2. Len(audit_log[s]) \in Nat
      BY <2>0 DEF TypeOK
    <3>3. /\ request' \in [Sessions -> Request \cup {Absent}]
          /\ request'[s] \in Request
          /\ request'[s].index <= Len(audit_log[s])
          /\ \A q \in Sessions \ {s} : request'[q] = request[q]
      BY <2>0, <2>8, <3>1, <3>2 DEF SaveOnly, Await, TypeOK
    <3>4. /\ pc[s] # "closed" /\ pc' = [pc EXCEPT ![s] = "saving"]
          /\ file_exists' \in BOOLEAN
          /\ UNCHANGED <<disk_records, disk_audit, checkpoint, memory, replies>>
      BY <2>0, <2>8 DEF SaveOnly, disk, TypeOK
    <3>5. QED
      BY <3>3, <3>4, MemoryKept
  <2>9. CASE SaveCommit(s)
    BY <2>0, <2>9, CommitStep DEF SaveCommit, TypeOK
  <2>10. CASE SaveRejected(s)
    BY <2>0, <2>10, MemoryKept DEF SaveRejected, Abort, TypeOK
  <2>11. CASE SaveFails(s)
    BY <2>0, <2>11, MemoryKept DEF SaveFails, disk, TypeOK
  <2>12. CASE SaveInDoubt(s)
    BY <2>0, <2>12, CommitStep DEF SaveInDoubt, TypeOK
  <2>13. CASE SendReply(s)
    BY <2>13, SendReplyStep
  <2>14. CASE CloseOrCrash(s)
    BY <2>0, <2>14, ForgetStep DEF CloseOrCrash, TypeOK
  <2>15. QED
    BY <2>1, <2>2, <2>3, <2>4, <2>5, <2>6, <2>7, <2>8, <2>9, <2>10, <2>11,
       <2>12, <2>13, <2>14
<1>3. QED
  BY <1>1, <1>2

(* Only the save transaction changes the durable tables, and it extends    *)
(* the log; only it and a Genesis load write a checkpoint.                 *)
LEMMA StepDisk ==
    ASSUME IInv, [Next]_vars
    PROVE  \/ UNCHANGED <<disk_records, disk_audit, checkpoint>>
           \/ \E s \in Sessions : Load(s)
           \/ \E s \in Sessions : Commit(s)
<1>1. CASE UNCHANGED vars
  BY <1>1 DEF vars, disk
<1>2. ASSUME NEW s \in Sessions,
             \/ \E o \in Owners, mode \in Modes : Open(s, o, mode)
             \/ \E id \in Ids, tier \in Tiers, payload \in Payloads,
                   created_at \in Times, t \in Times :
                      ExecWrite(s, id, tier, payload, created_at, t)
             \/ \E id \in Ids, t \in Times :
                      \/ ExecRead(s, id, t)
                      \/ ExecDelete(s, id, t)
                      \/ ExecAutoEmbed(s, id, t)
      PROVE  UNCHANGED disk
  BY <1>2 DEF Open, ExecWrite, ExecRead, ExecDelete, ExecAutoEmbed
<1>3. ASSUME NEW s \in Sessions,
             \/ LoadRejected(s) \/ CreateRejected(s) \/ SaveOnly(s)
             \/ SaveRejected(s) \/ SaveFails(s) \/ SendReply(s)
             \/ CloseOrCrash(s)
      PROVE  UNCHANGED <<disk_records, disk_audit, checkpoint>>
  BY <1>3 DEF LoadRejected, CreateRejected, SaveOnly, SaveRejected,
              SaveFails, SendReply, CloseOrCrash, Abort, disk
<1>4. ASSUME NEW s \in Sessions,
             Create(s) \/ SaveCommit(s) \/ SaveInDoubt(s)
      PROVE  Commit(s)
  BY <1>4 DEF Create, SaveCommit, SaveInDoubt
<1>5. QED
  BY <1>1, <1>2, <1>3, <1>4 DEF Next, disk

LEMMA StepAppends ==
    ASSUME IInv, [Next]_vars
    PROVE  Extends(disk_audit', disk_audit)
<1>1. disk_audit \in Seq(AuditEntry)
  BY DEF IInv, TypeOK
<1>2. CASE UNCHANGED disk_audit
  BY <1>1, <1>2, ExtendsReflexive
<1>3. CASE \E s \in Sessions : Commit(s)
  BY <1>3 DEF Commit, SaveAccepts, audit_history_is_prefix, Extends
<1>4. QED
  BY <1>2, <1>3, StepDisk DEF Load

(* A save is accepted only in the mode of the checkpoint it finds.         *)
LEMMA AcceptedMode ==
    ASSUME NEW mode \in Modes, NEW cp, NEW recs, NEW log,
           cp # Absent,
           classify_checkpoint_state(mode, cp, recs, log) # "Broken"
    PROVE  CheckpointMode(cp) = mode
<1>1. CheckpointParses(mode, cp)
      /\ (mode # Legacy => verify_authenticated_audit_checkpoint(cp, mode))
  BY DEF classify_checkpoint_state
<1>2. CASE mode = Legacy
  BY <1>1, <1>2 DEF CheckpointParses, CheckpointMode
<1>3. CASE mode # Legacy
  BY <1>1, <1>3 DEF CheckpointParses, CheckpointMode,
                    verify_authenticated_audit_checkpoint, checkpoint_mac
<1>4. QED
  BY <1>2, <1>3

LEMMA StepKeepsMode ==
    ASSUME IInv, [Next]_vars, checkpoint # Absent
    PROVE  /\ checkpoint' # Absent
           /\ CheckpointMode(checkpoint') = CheckpointMode(checkpoint)
<1>1. CASE UNCHANGED checkpoint
  BY <1>1
<1>2. ASSUME NEW s \in Sessions, Commit(s)
      PROVE  /\ checkpoint' # Absent
             /\ CheckpointMode(checkpoint') = CheckpointMode(checkpoint)
  <2>1. /\ store_secret[s] \in Modes /\ records[s] \in RecordMap
        /\ audit_log[s] \in Seq(AuditEntry)
    BY DEF IInv, TypeOK
  <2>2. checkpoint' # Absent /\ CheckpointMode(checkpoint') = store_secret[s]
    BY <1>2, <2>1, NewCheckpointType, NewCheckpointMode DEF Commit
  <2>3. CheckpointMode(checkpoint) = store_secret[s]
    BY <1>2, <2>1, AcceptedMode DEF Commit, SaveAccepts
  <2>4. QED
    BY <2>2, <2>3
<1>3. QED
  BY <1>1, <1>2, StepDisk DEF Load

-----------------------------------------------------------------------------
(* The theorems.                                                           *)

(* The inductive invariant of the shared file and its sessions.            *)
THEOREM Invariance == Spec => []IInv
<1>1. Init => IInv
  BY InitIInv
<1>2. IInv /\ [Next]_vars => IInv'
  BY StepIInv
<1>3. QED
  BY <1>1, <1>2, PTL DEF Spec

(* Every variable keeps its type.                                          *)
THEOREM TypeCorrect == Spec => []TypeOK
<1>1. IInv => TypeOK
  BY DEF IInv
<1>2. QED
  BY <1>1, Invariance, PTL

(* The durable log of Store::save_impl is always a legal history.          *)
THEOREM HistoryAlwaysLegal == Spec => []HistoryIsLegal
<1>1. IInv => HistoryIsLegal
  BY DEF IInv, Consistent, HistoryIsLegal
<1>2. QED
  BY <1>1, Invariance, PTL

(* The stored records are always the ones the durable log says are live.   *)
THEOREM RecordsAlwaysMatch == Spec => []RecordsMatchHistory
<1>1. IInv => RecordsMatchHistory
  BY DEF IInv, Consistent, RecordsMatchHistory
<1>2. QED
  BY <1>1, Invariance, PTL

(* An answer that waited for its save keeps its entry in the durable log.  *)
THEOREM RepliesAlwaysDurable == Spec => []RepliesAreDurable
<1>1. IInv => RepliesAreDurable
  BY DEF IInv
<1>2. QED
  BY <1>1, Invariance, PTL

(* No step shortens or rewrites the durable log.                           *)
THEOREM LogOnlyGrows == Spec => AuditAppendOnly
<1>1. IInv /\ [Next]_vars => [Extends(disk_audit', disk_audit)]_vars
  BY StepAppends
<1>2. QED
  BY <1>1, Invariance, PTL DEF Spec, AuditAppendOnly

(* A database stays in the mode and under the secret it was created with.  *)
THEOREM ModeNeverChanges == Spec => ModeIsFixed
<1>1. IInv /\ [Next]_vars =>
        [checkpoint # Absent =>
           /\ checkpoint' # Absent
           /\ CheckpointMode(checkpoint') = CheckpointMode(checkpoint)]_vars
  BY StepKeepsMode
<1>2. QED
  BY <1>1, Invariance, PTL DEF Spec, ModeIsFixed

(* A file that the program wrote under a clock that never reads 0 (see     *)
(* now_secs) is accepted by load_impl in its own mode: no failed save, no  *)
(* crash and no other session can make it unreadable.                      *)
THEOREM AlwaysReopens ==
    ASSUME 0 \notin Times
    PROVE  Spec => []FileReopens
<1>1. ASSUME IInv
      PROVE  FileReopens
  <2>1. /\ disk_records \in RecordMap /\ disk_audit \in Seq(AuditEntry)
        /\ Consistent(disk_records, disk_audit)
        /\ CheckpointIsCurrent
    BY <1>1 DEF IInv, TypeOK
  <2>2. ASSUME NEW mode \in Modes,
               checkpoint = Absent \/ CheckpointMode(checkpoint) = mode
        PROVE  LoadAccepts(mode, checkpoint, disk_records, disk_audit)
    BY <2>1, <2>2, CurrentCheckpointLoads DEF CheckpointIsCurrent
  <2>3. QED
    BY <2>2 DEF FileReopens
<1>2. QED
  BY <1>1, Invariance, PTL

-----------------------------------------------------------------------------
(* Refinement of AuditedStore.                                             *)

LEMMA AbstractOperators ==
    ASSUME NEW h, NEW g, NEW own
    PROVE  /\ LegalHistory(h) => Abstract!LegalHistory(h)
           /\ OwnersMatch(own, h) => Abstract!OwnersMatch(own, h)
           /\ Extends(h, g) => Abstract!Extends(h, g)
BY DEF LegalHistory, LegalEntry, LiveBy, OwnersMatch, Extends,
       Abstract!LegalHistory, Abstract!LegalEntry, Abstract!LiveBy,
       Abstract!OwnersMatch, Abstract!Extends

LEMMA AbstractInit ==
    ASSUME Init
    PROVE  Abstract!Init
<1>1. HistoryOf(disk_audit) = <<>>
  BY DEF Init, HistoryOf
<1>2. OwnerMap(disk_records) = [id \in Ids |-> Absent]
  BY DEF Init, OwnerMap, NoRecords
<1>3. QED
  BY <1>1, <1>2 DEF Abstract!Init

LEMMA AbstractStep ==
    ASSUME IInv, IInv', Extends(disk_audit', disk_audit)
    PROVE  Abstract!Next
<1>1. /\ disk_audit \in Seq(AuditEntry) /\ disk_audit' \in Seq(AuditEntry)
      /\ disk_records' \in RecordMap
      /\ LegalHistory(disk_audit')
      /\ OwnersMatch(OwnerMap(disk_records'), disk_audit')
  BY DEF IInv, TypeOK, Consistent
<1>2. OwnerMap(disk_records') \in [Ids -> Owners \cup {Absent}]
  BY <1>1, OwnerMapType
<1>3. Extends(HistoryOf(disk_audit'), HistoryOf(disk_audit))
  BY <1>1, HistoryOfFacts DEF Extends
<1>4. /\ LegalHistory(HistoryOf(disk_audit'))
      /\ OwnersMatch(OwnerMap(disk_records'), HistoryOf(disk_audit'))
  BY <1>1, HistoryOfMeaning
<1>5. /\ Abstract!Extends(HistoryOf(disk_audit'), HistoryOf(disk_audit))
      /\ Abstract!LegalHistory(HistoryOf(disk_audit'))
      /\ Abstract!OwnersMatch(OwnerMap(disk_records'), HistoryOf(disk_audit'))
  BY <1>3, <1>4, AbstractOperators
<1>6. QED
  BY <1>2, <1>5 DEF Abstract!Next, Abstract!Commit

(* The file implements the abstract audited store, whatever sessions do.   *)
THEOREM Refinement == Spec => AbstractSpec
<1>1. Init => Abstract!Init
  BY AbstractInit
<1>2. IInv /\ IInv' /\ [Next]_vars => [Abstract!Next]_(Abstract!storeVars)
  BY StepAppends, AbstractStep
<1>3. QED
  BY <1>1, <1>2, Invariance, PTL DEF Spec, AbstractSpec, Abstract!Spec
=============================================================================
