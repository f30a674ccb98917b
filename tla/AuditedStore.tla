---------------------------- MODULE AuditedStore ----------------------------
(***************************************************************************)
(* What a durable EdisonDB store promises, whatever the backend: there is  *)
(* ONE audit history, which only grows; every history it passes through is *)
(* legal; and the records that are stored are exactly the ones the history *)
(* says are live, each under the owner that wrote it.                      *)
(*                                                                         *)
(* A step may add several entries at once, because a redb save commits     *)
(* everything the session did since its last successful save.  This is an  *)
(* abstract specification: RedbStore is shown to implement it.             *)
(***************************************************************************)
EXTENDS AuditHistory

VARIABLES
    history,   \* the durable audit history
    owners     \* id -> owner of the stored record, or Absent

storeVars == <<history, owners>>

Init ==
    /\ history = <<>>
    /\ owners = [id \in Ids |-> Absent]

(* Commit one or more operations.  The audit entries do not cover payload, *)
(* tier and created_at, so the abstract store does not speak of them.      *)
Commit ==
    /\ owners' \in [Ids -> Owners \cup {Absent}]
    /\ Extends(history', history)
    /\ LegalHistory(history')
    /\ OwnersMatch(owners', history')

Next == Commit

Spec == Init /\ [][Next]_storeVars
=============================================================================
