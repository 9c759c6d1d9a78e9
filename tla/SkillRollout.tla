---------------------------- MODULE SkillRollout ----------------------------
(***************************************************************************)
(* The revisions of a marketing skill, which of them is active where, and  *)
(* which one the next Pi run of a tenant is frozen with (marketing_skills/ *)
(* service.py, repository.py, snapshot.py).  An activation is global or a  *)
(* tenant's own; it takes effect for a percentage of the tenants, told by  *)
(* a bucket each tenant has for the skill, and the others stay with the    *)
(* revision before.  All writers take the lock of one administrator's row  *)
(* first, so each of their operations is one step.                         *)
(***************************************************************************)
EXTENDS Integers, Sequences

CONSTANTS
  SkillTenants,
  Everyone,      \* the scope of global revisions and activations: tenant_id is NULL
  BucketOf,      \* stable_rollout_bucket
  Percents,      \* percentages of an activation
  MaxSkillRevisions,  \* bound: revisions
  MaxActivations \* bound: activations and rollbacks

Scopes == SkillTenants \cup {Everyone}

ASSUME SkillAssumption ==
  /\ Everyone \notin SkillTenants
  /\ BucketOf \in [SkillTenants -> 0..99]
  /\ Percents \subseteq 0..100
  /\ MaxSkillRevisions \in Nat /\ MaxActivations \in Nat

VARIABLES
  skRevisions,   \* scope of each revision; number 0 is no revision
  skActivations, \* per scope: active revision and percentage, and those before
  skPast         \* what has been active, the latest last

skVars == <<skRevisions, skActivations, skPast>>

None == [active |-> 0, percent |-> 0, previous |-> 0, before |-> 0]
Revisions == 1..Len(skRevisions)

SkInit ==
  /\ skRevisions = <<>>
  /\ skActivations = [s \in Scopes |-> None]
  /\ skPast = <<>>

-----------------------------------------------------------------------------
CreateRevision(s) ==
  /\ Len(skRevisions) < MaxSkillRevisions
  /\ skRevisions' = Append(skRevisions, s)
  /\ UNCHANGED <<skActivations, skPast>>

\* _is_selected and _pick_activation: a tenant's own activation first, and of each
\* the revision before for whom the new one is not meant yet.
IsSelected(a, t) == BucketOf[t] < a.percent
PickedOf(a, t) == IF a.active # 0 /\ IsSelected(a, t) THEN a.active ELSE a.previous
Picked(as, t) ==
  IF PickedOf(as[t], t) # 0 THEN PickedOf(as[t], t) ELSE PickedOf(as[Everyone], t)

\* The revisions a scope may name: its own and the global ones.
VisibleMut(r, s) == TRUE
Visible(r, s) == skRevisions[r] \in {s, Everyone}

Becomes(s, a) ==
  /\ Len(skPast) < MaxActivations
  /\ skActivations' = [skActivations EXCEPT ![s] = a]
  /\ skPast' = Append(skPast, [scope |-> s, active |-> a.active, percent |-> a.percent])
  /\ UNCHANGED skRevisions

ActivatedMut(a, r, percent) ==      \* the percentage before forgotten
  [a EXCEPT !.active = r, !.percent = percent,
            !.previous = IF r = a.active THEN @ ELSE a.active]
Activated(a, r, percent) ==
  IF r = a.active
    THEN [a EXCEPT !.percent = percent]
    ELSE [active |-> r, percent |-> percent, previous |-> a.active, before |-> a.percent]

ActivateSkill(s) ==
  \E r \in Revisions, percent \in Percents :
    /\ Visible(r, s)
    /\ Becomes(s, Activated(skActivations[s], r, percent))

Rollback(s) ==
  LET a == skActivations[s] IN
  /\ a.previous # 0
  /\ Becomes(s, [active |-> a.previous, percent |-> a.before,
                 previous |-> a.active, before |-> a.percent])

SkNext == \E s \in Scopes : CreateRevision(s) \/ ActivateSkill(s) \/ Rollback(s)

SkSpec == SkInit /\ [][SkNext]_skVars

-----------------------------------------------------------------------------
SkTypeOK ==
  /\ skRevisions \in Seq(Scopes)
  /\ skActivations \in [Scopes -> [active : 0..Len(skRevisions), percent : 0..100,
                                   previous : 0..Len(skRevisions), before : 0..100]]

\* What a rollback returns to is the last other revision that was active in the
\* scope, with the percentage it had last.
RollbackReturns ==
  \A s \in Scopes :
    LET a == skActivations[s]
        others == {i \in 1..Len(skPast) : skPast[i].scope = s /\ skPast[i].active # a.active}
    IN IF others = {} THEN a.previous = 0
       ELSE LET last == CHOOSE i \in others : \A j \in others : j <= i
            IN /\ skPast[last].active = a.previous
               /\ skPast[last].percent = a.before

\* No new run of a tenant is frozen with a revision of another tenant
\* (resolve_for_new_run), whatever was activated, rolled back or rolled out in part.
RunsKeepTheirTenant ==
  \A t \in SkillTenants :
    LET r == Picked(skActivations, t) IN r # 0 => skRevisions[r] \in {t, Everyone}

SkillsAreSound == RollbackReturns /\ RunsKeepTheirTenant
=============================================================================
