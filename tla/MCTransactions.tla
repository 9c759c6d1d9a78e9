--------------------------- MODULE MCTransactions ---------------------------
(***************************************************************************)
(* For TLC: the components whose operations are database transactions that *)
(* meet each other, but not those of another component: points, drafts, a  *)
(* session's runs, tools, a tenant's administration, skills, loop guards.  *)
(* They share no state, so a behaviour is one of one component, chosen at  *)
(* the beginning, and the others stay as they are.                         *)
(***************************************************************************)
EXTENDS TenantLedger, Publication, Conversations, ToolCatalog, TenantControl,
        SkillRollout, LoopGuard, TLC

CONSTANTS u1, u2, x1, x2, key1, main, detail, k1, s1, s2, t1, t2,
          e1, pi1, low, high, f1, f2

VARIABLE component

MCOwner == (x1 :> u1) @@ (x2 :> u1)
MCDeltas == {-10, 5}
MCReviewed == [t \in Tools |-> IF t = t1 THEN s1 ELSE NoSig]
MCBucketOf == [t \in SkillTenants |-> IF t = low THEN 10 ELSE 90]

\* x1 and x2 are two of whatever a component has that is interchangeable: calls of one
\* user, artifacts, callers, administrators, workers of tools.
TransactionsSymmetry == Permutations({x1, x2})

vars == <<ledgerVars, pubVars, cvVars, tcVars, taVars, skVars, lgVars, component>>

TransactionsInit ==
  /\ component \in {"points", "drafts", "session", "catalog", "tenant", "skills", "guard"}
  /\ LedgerInit /\ PubInit /\ CvInit /\ TcInit /\ TaInit /\ SkInit /\ LgInit
  /\ component # "points" => limit = [u \in Users |-> 10]
  /\ component # "catalog" => tcOffer = [t \in Tools |-> s1]
  /\ component # "tenant" => ~ taKill /\ taConfigs = <<>>
  /\ Len(taConfigs) # 1   \* a bound: none, or an active one and a draft
  /\ component # "guard" => lgPath = "pi"

\* Bounds of the drafts: of MaxCalls calls of tools, the last one is one that publishes;
\* a run leaves, or is left by its worker, while the other has not.
LastCallPublishes ==
  \/ calls' # MaxCalls \/ calls = MaxCalls
  \/ \E r \in PubRuns : tx'[r] # tx[r] /\ tx'[r].op = "publish"

Left(status) == {r \in PubRuns : status[r] \in {"paused", "queued", "gone"}}
OneLeaves == Cardinality(Left(pubRun')) <= 1

\* No bounds: only a request looks whether the session is open; a worker that has done
\* its work is as good as a new one.
ClosesOnRequests == cvOpen' # cvOpen => \A c \in Callers : cvCalls[c] # NoCvCall
PicksInOrder == \A w \in CvWorkers : cvPicks' # cvPicks /\ cvWork'[w] # cvWork[w] => w = cvPicks'

Points == /\ component = "points" /\ LedgerNext
          /\ UNCHANGED <<pubVars, cvVars, tcVars, taVars, skVars, lgVars>>
Drafts == /\ component = "drafts" /\ PubNext /\ LastCallPublishes /\ OneLeaves
          /\ UNCHANGED <<ledgerVars, cvVars, tcVars, taVars, skVars, lgVars>>
Session == /\ component = "session" /\ CvNext /\ PicksInOrder /\ ClosesOnRequests
           /\ UNCHANGED <<ledgerVars, pubVars, tcVars, taVars, skVars, lgVars>>
Catalog == /\ component = "catalog" /\ TcNext
           /\ UNCHANGED <<ledgerVars, pubVars, cvVars, taVars, skVars, lgVars>>
Tenant == /\ component = "tenant" /\ TaNext
          /\ UNCHANGED <<ledgerVars, pubVars, cvVars, tcVars, skVars, lgVars>>
Skills == /\ component = "skills" /\ SkNext
          /\ UNCHANGED <<ledgerVars, pubVars, cvVars, tcVars, taVars, lgVars>>
Guard == /\ component = "guard" /\ LgNext
         /\ UNCHANGED <<ledgerVars, pubVars, cvVars, tcVars, taVars, skVars>>

TransactionsNext ==
  /\ Points \/ Drafts \/ Session \/ Catalog \/ Tenant \/ Skills \/ Guard
  /\ UNCHANGED component

TransactionsSpec == TransactionsInit /\ [][TransactionsNext]_vars

(***************************************************************************)
(* Types, and the bookkeeping of each component.                           *)
(***************************************************************************)
TransactionsTypeOK ==
  LedgerTypeOK /\ PubTypeOK /\ CvTypeOK /\ TcTypeOK /\ TaTypeOK /\ SkTypeOK
  /\ LgTypeOK

(***************************************************************************)
(* What administration decides about new runs is sound: configurations,    *)
(* licenses and repeated writes; which skills a tenant's runs get.         *)
(***************************************************************************)
AdministrationIsSound == TenantIsSound /\ SkillsAreSound

(***************************************************************************)
(* What a session takes in while its runs go on: messages, answers and the *)
(* results of its tools.                                                   *)
(***************************************************************************)
ConductIsSound == SessionIsSound /\ StreakIsTrue

(***************************************************************************)
(* Over all months, a user's counters are what the rows of the user's      *)
(* permits say: the price of each open permit held, of each settled one    *)
(* spent.  (The months one by one do not agree with the rows: a permit     *)
(* reserved in one month may be settled in the next.)                      *)
(***************************************************************************)
OfUser(rows, u) == Cardinality({p \in rows : PermitOwner(p) = u})
\* the points of a counter, one by one
PointsOf(counter, u) == UNION {{m} \X (1..counter[<<u, m>>]) : m \in Months}
AllMonths(counter, u) == Cardinality(PointsOf(counter, u))

UserCountersMatchRows ==
  \A u \in Users :
    /\ AllMonths(spent, u) = MCP_POINTS_COST * OfUser(settles, u)
    /\ AllMonths(held, u) = MCP_POINTS_COST
         * (OfUser(reserves, u) - OfUser(settles, u) - OfUser(releases, u))
=============================================================================
