---------------------------- MODULE TenantLedger ----------------------------
(***************************************************************************)
(* The points ledger of one tenant: the shared wallet, the monthly quota   *)
(* counters of its users and the append-only transaction rows, as changed  *)
(* by TenantAccountingService (backend/app/pi_gateway/accounting.py).      *)
(*                                                                         *)
(* Every operation is one database transaction that locks the wallet row,  *)
(* so each is one action.  An operation that raises changes nothing (the   *)
(* transaction is rolled back) and is here a disabled action.              *)
(*                                                                         *)
(* A permit is the reserve row of one dispatch of one tool call; its       *)
(* idempotency key is a function of the two (reserve_idempotency_key), so  *)
(* <<call, dispatch>> identifies it.  A set of keys stands for the rows    *)
(* that carry them: keys are unique in the table and rows never deleted.   *)
(***************************************************************************)
EXTENDS Integers, FiniteSets

CONSTANTS
  Users,            \* members of the tenant
  Calls,            \* tool calls (agent_tool_calls.id)
  Owner,            \* the user whose run made the call
  LastMonth,        \* bound: the calendar months 1..LastMonth are explored
  MCP_POINTS_COST,  \* price of one call
  WelcomeGrant,     \* points of the welcome grant
  AdjustKeys,       \* idempotency keys of admin adjustments
  Deltas,           \* amounts an admin may adjust by
  Limits            \* monthly limits an admin may set

ASSUME LedgerAssumptions ==
  /\ IsFiniteSet(Calls)
  /\ Owner \in [Calls -> Users]
  /\ LastMonth \in Nat \ {0}
  /\ MCP_POINTS_COST \in Nat \ {0}
  /\ WelcomeGrant \in Nat \ {0}
  /\ Deltas \subseteq Int \ {0}
  /\ Limits \subseteq Nat

VARIABLES
  balance,    \* TenantWallet.balance: points that can be spent
  reserved,   \* TenantWallet.reserved: points held by permits
  credited,   \* sum of balance_delta over the grant and adjustment rows
  spent,      \* TenantUserQuotaUsage.spent, per user and month
  held,       \* TenantUserQuotaUsage.reserved, per user and month
  limit,      \* TenantUserQuotaPolicy.points_limit, per user
  month,      \* the month _month_window(now) falls in
  reserves,   \* permits that have their reserve row
  settles,    \* permits that have a settle row
  releases,   \* permits that have a release row
  unknowns,   \* calls that have an unknown row (one per call)
  grants,     \* users that have their welcome-grant row
  adjusts     \* keys that have an admin_adjust row

walletVars == <<balance, reserved, credited>>
usageVars  == <<spent, held>>
permitVars == <<reserves, settles, releases, unknowns>>
creditVars == <<grants, adjusts>>
ledgerVars == <<walletVars, usageVars, limit, month, permitVars, creditVars>>

Months  == 1..LastMonth
Permits == Calls \X (1..2)   \* dispatch_count is capped at 2 by the callers

PermitOwner(p) == Owner[p[1]]
ThisMonth(u) == <<u, month>>   \* the usage row _usage_rows locks

(***************************************************************************)
(* Init: the tenant has been provisioned with an empty wallet; usage rows  *)
(* are created on first use with zero counters, so a missing row and a     *)
(* zero row are the same.                                                  *)
(***************************************************************************)
LedgerInit ==
  /\ balance = 0 /\ reserved = 0 /\ credited = 0
  /\ spent = [um \in Users \X Months |-> 0]
  /\ held  = [um \in Users \X Months |-> 0]
  /\ limit \in [Users -> Limits]
  /\ month = 1
  /\ reserves = {} /\ settles = {} /\ releases = {} /\ unknowns = {}
  /\ grants = {} /\ adjusts = {}

-----------------------------------------------------------------------------
(***************************************************************************)
(* reserve_mcp_call.  A repeated key returns the same permit.  Otherwise   *)
(* both the wallet and the month's quota must cover the price.  Refusals   *)
(* for membership or license change nothing and are left to the callers.   *)
(***************************************************************************)
AffordableMutQuota(u) ==   \* forgets the points already held this month
  /\ balance >= MCP_POINTS_COST
  /\ spent[ThisMonth(u)] + MCP_POINTS_COST <= limit[u]

Affordable(u) ==
  /\ balance >= MCP_POINTS_COST
  /\ spent[ThisMonth(u)] + held[ThisMonth(u)] + MCP_POINTS_COST <= limit[u]

ReservePermit(p) ==
  LET um == ThisMonth(PermitOwner(p)) IN
  /\ p \notin reserves
  /\ Affordable(PermitOwner(p))
  /\ balance' = balance - MCP_POINTS_COST
  /\ reserved' = reserved + MCP_POINTS_COST
  /\ held' = [held EXCEPT ![um] = @ + MCP_POINTS_COST]
  /\ reserves' = reserves \cup {p}
  /\ UNCHANGED <<credited, spent, limit, month, settles, releases, unknowns,
                 creditVars>>

(***************************************************************************)
(* Both terminal operations take the points from the wallet and from the   *)
(* counter of the CURRENT month, whatever month the permit was reserved    *)
(* in, and raise tenant_reserved_amount_invalid if either is too small.    *)
(***************************************************************************)
CanTerminate(p) ==
  /\ reserved >= MCP_POINTS_COST
  /\ held[ThisMonth(PermitOwner(p))] >= MCP_POINTS_COST

TakeHeldMutWallet(p) ==   \* forgets the wallet
  /\ reserved' = reserved
  /\ held' = [held EXCEPT ![ThisMonth(PermitOwner(p))] = @ - MCP_POINTS_COST]

TakeHeldMutCounter(p) ==   \* forgets the user's counter
  /\ reserved' = reserved - MCP_POINTS_COST
  /\ held' = held

TakeHeld(p) ==
  /\ reserved' = reserved - MCP_POINTS_COST
  /\ held' = [held EXCEPT ![ThisMonth(PermitOwner(p))] = @ - MCP_POINTS_COST]

(***************************************************************************)
(* settle_mcp_call (and settle_mcp_call_metadata).  Only the permit's own  *)
(* settle key is looked up: a release row does not stop it.                *)
(***************************************************************************)
SettlePermit(p) ==
  /\ p \in reserves \ settles
  /\ CanTerminate(p)
  /\ TakeHeld(p)
  /\ spent' = [spent EXCEPT ![ThisMonth(PermitOwner(p))] = @ + MCP_POINTS_COST]
  /\ settles' = settles \cup {p}
  /\ UNCHANGED <<balance, credited, limit, month, reserves, releases, unknowns,
                 creditVars>>

(***************************************************************************)
(* fail_mcp_call: a permit that was settled or released is left alone.     *)
(* result_unknown appends one row per call and moves no points; the other  *)
(* classifications give the points back.                                   *)
(***************************************************************************)
TerminalMutSettled(p) == p \in releases   \* forgets settled permits

Terminal(p) == p \in settles \cup releases

ReleasePermit(p) ==
  /\ p \in reserves
  /\ ~Terminal(p)
  /\ CanTerminate(p)
  /\ TakeHeld(p)
  /\ balance' = balance + MCP_POINTS_COST
  /\ releases' = releases \cup {p}
  /\ UNCHANGED <<credited, spent, limit, month, reserves, settles, unknowns,
                 creditVars>>

MarkUnknown(p) ==
  /\ p \in reserves
  /\ ~Terminal(p)
  /\ unknowns' = unknowns \cup {p[1]}
  /\ UNCHANGED <<walletVars, usageVars, limit, month, reserves, settles,
                 releases, creditVars>>

-----------------------------------------------------------------------------
(***************************************************************************)
(* Credits: grant_welcome once per user, admin_adjust once per key and     *)
(* never below zero; the admin's quota update; the passing of time.        *)
(***************************************************************************)
GrantWelcome(u) ==
  /\ u \notin grants
  /\ balance' = balance + WelcomeGrant
  /\ credited' = credited + WelcomeGrant
  /\ grants' = grants \cup {u}
  /\ UNCHANGED <<reserved, usageVars, limit, month, permitVars, adjusts>>

AdminAdjust(key, delta) ==
  /\ key \notin adjusts
  /\ balance + delta >= 0
  /\ balance' = balance + delta
  /\ credited' = credited + delta
  /\ adjusts' = adjusts \cup {key}
  /\ UNCHANGED <<reserved, usageVars, limit, month, permitVars, grants>>

SetQuota(u, points) ==
  /\ limit' = [limit EXCEPT ![u] = points]
  /\ UNCHANGED <<walletVars, usageVars, month, permitVars, creditVars>>

AdvanceMonth ==
  /\ month < LastMonth
  /\ month' = month + 1
  /\ UNCHANGED <<walletVars, usageVars, limit, permitVars, creditVars>>

CreditStep ==
  \/ \E u \in Users : GrantWelcome(u)
  \/ \E key \in AdjustKeys, delta \in Deltas : AdminAdjust(key, delta)
  \/ \E u \in Users, points \in Limits : SetQuota(u, points)
  \/ AdvanceMonth

(***************************************************************************)
(* The ledger on its own, under callers that may do anything in any order. *)
(***************************************************************************)
LedgerNext ==
  \/ \E p \in Permits : ReservePermit(p)
  \/ \E p \in Permits : SettlePermit(p)
  \/ \E p \in Permits : ReleasePermit(p)
  \/ \E p \in Permits : MarkUnknown(p)
  \/ CreditStep

LedgerSpec == LedgerInit /\ [][LedgerNext]_ledgerVars

-----------------------------------------------------------------------------
(***************************************************************************)
(* Type invariant.  The lower bounds are the CHECK constraints of the      *)
(* tables (balance, reserved, spent >= 0).                                 *)
(***************************************************************************)
LedgerTypeOK ==
  /\ balance \in Nat /\ reserved \in Nat /\ credited \in Int
  /\ spent \in [Users \X Months -> Nat]
  /\ held \in [Users \X Months -> Nat]
  /\ limit \in [Users -> Nat]
  /\ month \in Months
  /\ reserves \subseteq Permits
  /\ settles \subseteq reserves
  /\ releases \subseteq reserves
  /\ unknowns \subseteq Calls
  /\ grants \subseteq Users
  /\ adjusts \subseteq AdjustKeys

(***************************************************************************)
(* No points are created or lost: what can be spent, what is held and what *)
(* was charged always add up to the credits.                               *)
(***************************************************************************)
WalletConserved ==
  balance + reserved + MCP_POINTS_COST * Cardinality(settles) = credited

(***************************************************************************)
(* The wallet's reserved column is what the rows say it is: one price for  *)
(* each reserve row less one for each terminal row.                        *)
(***************************************************************************)
ReservedMatchesRows ==
  reserved = MCP_POINTS_COST
               * (Cardinality(reserves) - Cardinality(settles) - Cardinality(releases))

(***************************************************************************)
(* Counters of a user's months only grow by a reservation that the limit   *)
(* of that moment covers, and only in the current month: no settlement,    *)
(* release or change of month pushes a user past the quota.                *)
(***************************************************************************)
QuotaKept ==
  \A um \in Users \X Months :
    spent'[um] + held'[um] > spent[um] + held[um]
      => um[2] = month /\ spent'[um] + held'[um] <= limit[um[1]]
QuotaNeverOverrun == [][QuotaKept]_ledgerVars

(***************************************************************************)
(* A permit that was settled or released never gives points back again:    *)
(* the wallet's balance grows only by a credit or by the first terminal    *)
(* row of an open permit.                                                  *)
(***************************************************************************)
PaidBack ==
  balance' > balance
    => \/ credited' - credited = balance' - balance
       \/ \E p \in reserves \ (settles \cup releases) : releases' = releases \cup {p}
RefundedOnce == [][PaidBack]_ledgerVars

(***************************************************************************)
(* The wallet adds up, and what it holds back is what the rows say.        *)
(***************************************************************************)
PointsAreAccounted == WalletConserved /\ ReservedMatchesRows

(***************************************************************************)
(* Nobody spends past the quota of the month, and nothing is paid twice.   *)
(***************************************************************************)
SpendingIsBounded == QuotaNeverOverrun /\ RefundedOnce
=============================================================================
