---------------------------- MODULE AuditHistory ----------------------------
(***************************************************************************)
(* The vocabulary of EdisonDB's audit history, shared by every module:     *)
(* what an audit entry says (src/lib.rs, AuditAction and AuditEntry), and  *)
(* what a whole history MEANS: which records are live after it, who owns   *)
(* them, and which histories an audited store may ever produce.            *)
(*                                                                         *)
(* The hash fields of an entry are not mentioned here, so the operators    *)
(* below apply alike to the entries of AuditChain and to the plain events  *)
(* of AuditedStore.                                                        *)
(***************************************************************************)
EXTENDS Integers, Sequences

CONSTANTS
    Ids,      \* record identifiers
    Owners,   \* principals: owner_id of a record, requester_id of an entry
    Times,    \* values now_secs() may return
    Absent    \* stands for Rust's None: no record, no checkpoint, no request

ASSUME TimesAssumption == Times \subseteq Nat
ASSUME AbsentAssumption == Absent \notin Owners \cup Times

AuditAction == {"Write", "ReadGranted", "ReadDenied", "Delete"}

(* What AuditEntry::audit_hash_input commits to, apart from prev_hash.     *)
(* Neither the tier nor the payload of the record is part of it.           *)
AuditBody == [record_id    : Ids,
              requester_id : Owners,
              action       : AuditAction,
              timestamp    : Times]

-----------------------------------------------------------------------------
(* LiveBy(h, n, id, o): after the first n entries of h, record id exists   *)
(* and o is its owner, i.e. the last Write or Delete of id is o's Write.   *)
LiveBy(h, n, id, o) ==
    \E i \in 1..n :
        /\ h[i].record_id = id
        /\ h[i].action = "Write"
        /\ h[i].requester_id = o
        /\ \A j \in (i+1)..n :
              h[j].record_id = id => h[j].action \notin {"Write", "Delete"}

(* Entry i of h is one that the store may log in the state the entries     *)
(* before it describe: only a free id is written, only a live record is    *)
(* read or deleted, only its owner deletes it and is never refused it.     *)
LegalEntry(h, i) ==
    LET e == h[i] IN
    IF e.action = "Write"
    THEN \A o \in Owners : ~LiveBy(h, i - 1, e.record_id, o)
    ELSE \E o \in Owners :
            /\ LiveBy(h, i - 1, e.record_id, o)
            /\ e.action = "Delete"     => o = e.requester_id
            /\ e.action = "ReadDenied" => o # e.requester_id

LegalHistory(h) == \A i \in 1..Len(h) : LegalEntry(h, i)

(* owners maps every id to the principal that owns it, or to Absent.       *)
OwnersMatch(owners, h) ==
    \A id \in Ids, o \in Owners : owners[id] = o <=> LiveBy(h, Len(h), id, o)

(* Every entry of p is in h, at the same place.                            *)
Extends(h, p) ==
    /\ Len(p) <= Len(h)
    /\ \A i \in 1..Len(p) : h[i] = p[i]
=============================================================================
