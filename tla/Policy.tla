------------------------------- MODULE Policy --------------------------------
(***************************************************************************)
(* PolicyEngine (src/policy.rs): who may do what to a record of which tier.*)
(* The engine only accumulates (delegate, add_rule); a delegation ends     *)
(* when the clock passes its expires_at, and holds again if the clock is   *)
(* set back.  evaluate is a search through the rules and the delegations   *)
(* that returns at the first match; since every return of a loop is of the *)
(* same kind, its outcome does not depend on the order, so rules and       *)
(* delegations are sets here.  The reason strings of a decision are left   *)
(* out.                                                                    *)
(***************************************************************************)
EXTENDS Integers, FiniteSets

CONSTANTS
    Identities,  \* owners and subjects
    Resources,
    Patterns,    \* resource patterns of rules, the wildcard "*" among them
    Covers,      \* <<pattern, resource>>: the pattern is "*" or a prefix
    AnySubject,  \* the subject "*"
    MaxTime,     \* bound: the latest time, and the latest expires_at
    MaxGrants    \* bound: delegations and rules in the engine

ASSUME PolicyAssumption ==
    /\ AnySubject \notin Identities
    /\ Covers \subseteq Patterns \X Resources
    /\ MaxTime \in Nat /\ MaxGrants \in Nat

DataTier == {"Critical", "Personal", "Noise"}
Action == {"Read", "Write", "Delete", "Audit", "Grant", "Admin"}
Role == {"Owner", "Reader", "Auditor", "Writer", "Admin"}

(* expires_at = 0 stands for never.  granted_by is stored and never looked *)
(* at by a decision, so it is left out.                                    *)
Delegation == [subject : Identities, role : Role, expires_at : 0..MaxTime]

PolicyRule == [subject : Identities \cup {AnySubject}, resource : Patterns,
               action : Action, effect : {"Allow", "Deny"}]

Request == [subject : Identities, owner_id : Identities,
            resource : Resources, action : Action, tier : DataTier]

VARIABLES
    delegations,  \* <<owner_id, delegation>> for the map of vectors
    rules,
    now           \* the time that callers pass to evaluate

engine == <<delegations, rules, now>>

PolicyOK ==
    /\ delegations \subseteq Identities \X Delegation
    /\ rules \subseteq PolicyRule
    /\ now \in 0..MaxTime

PolicyInit ==
    /\ delegations = {}
    /\ rules = {}
    /\ now = 0

-----------------------------------------------------------------------------
(* Role::permitted_actions *)
permitted_actions(role, tier) ==
    CASE role = "Owner"   -> Action
      [] role = "Auditor" -> {"Audit"}
      [] role = "Admin"   -> {"Read", "Write", "Delete", "Audit"}
      [] role = "Reader"  -> IF tier = "Critical" THEN {} ELSE {"Read"}
      [] role = "Writer"  -> IF tier = "Critical" THEN {}
                             ELSE {"Read", "Write"}

\* Mutant: the second expires_at itself is too late.
expired_at_expiry(del, time) == del.expires_at # 0 /\ time >= del.expires_at

is_expired(del, time) == del.expires_at # 0 /\ time > del.expires_at

matches(rule, req) ==
    /\ rule.subject \in {AnySubject, req.subject}
    /\ <<rule.resource, req.resource>> \in Covers
    /\ rule.action = req.action

\* Mutant: there is no ceiling for the Critical tier.
precheck_without_ceiling(req) ==
    IF req.subject = req.owner_id THEN "PermitOwner" ELSE "Continue"

policy_precheck(req) ==
    CASE req.subject = req.owner_id -> "PermitOwner"
      [] req.subject # req.owner_id /\ req.tier = "Critical" -> "DenyCritical"
      [] OTHER -> "Continue"

Ruled(rs, req, effect) ==
    \E rule \in rs : matches(rule, req) /\ rule.effect = effect

\* Mutant: the owner under which a delegation is filed is not compared.
delegated_by_anyone(ds, req, time) ==
    \E d \in ds :
        /\ d[2].subject = req.subject
        /\ ~is_expired(d[2], time)
        /\ req.action \in permitted_actions(d[2].role, req.tier)

(* The owner filed it for the subject, and its role permits the action.    *)
Concerns(d, req) ==
    /\ d[1] = req.owner_id
    /\ d[2].subject = req.subject
    /\ req.action \in permitted_actions(d[2].role, req.tier)

Delegated(ds, req, time) ==
    \E d \in ds : Concerns(d, req) /\ ~is_expired(d[2], time)

\* Mutant: an allow rule is found before the deny rules are looked at.
allow_overrides(rs, ds, req, time) ==
    \/ Ruled(rs, req, "Allow")
    \/ ~Ruled(rs, req, "Deny") /\ Delegated(ds, req, time)

(* Steps 2 to 5 of evaluate.                                               *)
PermittedByGrant(rs, ds, req, time) ==
    /\ ~Ruled(rs, req, "Deny")
    /\ Delegated(ds, req, time) \/ Ruled(rs, req, "Allow")

(* PolicyEngine::evaluate, TRUE for Permit and FALSE for Deny.             *)
evaluate(ds, rs, req, time) ==
    LET check == policy_precheck(req) IN
    \/ check = "PermitOwner"
    \/ check = "Continue" /\ PermittedByGrant(rs, ds, req, time)

Permitted(req) == evaluate(delegations, rules, req, now)

-----------------------------------------------------------------------------
Room == Cardinality(delegations) + Cardinality(rules) < MaxGrants

delegate(owner_id, del) ==
    /\ Room
    /\ delegations' = delegations \cup {<<owner_id, del>>}
    /\ UNCHANGED <<rules, now>>

add_rule(rule) ==
    /\ Room
    /\ rules' = rules \cup {rule}
    /\ UNCHANGED <<delegations, now>>

(* Callers take the time from a wall clock, which may be set back.         *)
Clock(time) ==
    /\ now' = time
    /\ UNCHANGED <<delegations, rules>>

PolicyNext ==
    \/ \E owner_id \in Identities, del \in Delegation :
          delegate(owner_id, del)
    \/ \E rule \in PolicyRule : add_rule(rule)
    \/ \E time \in 0..MaxTime : Clock(time)

PolicySpec == PolicyInit /\ [][PolicyNext]_engine

-----------------------------------------------------------------------------
(* Critical data: permitted exactly when the subject is the owner, whatever *)
(* roles and allow rules have accumulated (CLAIM-FV2-001).                 *)
CriticalNeedsOwner ==
    \A req \in Request :
        req.tier = "Critical" => (Permitted(req) <=> req.subject = req.owner_id)

(* Once a deny rule matches a request of someone else than the owner, no   *)
(* later delegation, rule or passage of time permits it again.             *)
DenyIsFinal ==
    [][\A req \in Request :
          (Ruled(rules, req, "Deny") /\ req.subject # req.owner_id)
              => ~evaluate(delegations', rules', req, now')]_engine

(* A request that becomes permitted became so by a delegation to its own   *)
(* subject filed under the owner of the resource, by an allow rule for     *)
(* that subject, or by a clock set back to a time when such a delegation   *)
(* still held: never by time that passes, by a deny rule, or by what       *)
(* another owner delegates.                                                *)
OnlyGrantsPermit ==
    [][\A req \in Request :
          (~Permitted(req) /\ evaluate(delegations', rules', req, now'))
              => \/ \E d \in delegations' \ delegations : Concerns(d, req)
                 \/ \E rule \in rules' \ rules :
                       rule.effect = "Allow" /\ matches(rule, req)
                 \/ \E d \in delegations :
                       /\ Concerns(d, req)
                       /\ now' <= d[2].expires_at /\ d[2].expires_at < now
      ]_engine

(* A permit lasts: a request loses it to a deny rule that is added and     *)
(* matches it, or when the clock passes the last second of a delegation    *)
(* that concerns it.  A delegation holds in the second expires_at itself,  *)
(* and one with expires_at 0 for ever.                                     *)
PermitsLast ==
    [][\A req \in Request :
          (Permitted(req) /\ ~evaluate(delegations', rules', req, now'))
              => \/ \E rule \in rules' \ rules :
                       rule.effect = "Deny" /\ matches(rule, req)
                 \/ \E d \in delegations :
                       /\ Concerns(d, req)
                       /\ d[2].expires_at # 0
                       /\ now <= d[2].expires_at /\ d[2].expires_at < now'
      ]_engine
=============================================================================
