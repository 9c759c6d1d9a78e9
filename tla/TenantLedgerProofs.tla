------------------------- MODULE TenantLedgerProofs -------------------------
(***************************************************************************)
(* Proofs about TenantLedger, for every set of users, calls and amounts.   *)
(***************************************************************************)
EXTENDS TenantLedger, FiniteSetTheorems, TLAPS

(***************************************************************************)
(* Type correctness of one step, action by action.                         *)
(***************************************************************************)
LEMMA LedgerTypeInit == LedgerInit => LedgerTypeOK
<1> SUFFICES ASSUME LedgerInit PROVE LedgerTypeOK OBVIOUS
<1>1. spent \in [Users \X Months -> Nat] /\ held \in [Users \X Months -> Nat]
  BY DEF LedgerInit
<1>2. limit \in [Users -> Nat]
  BY LedgerAssumptions DEF LedgerInit
<1>3. month \in Months
  BY LedgerAssumptions DEF LedgerInit, Months
<1> QED BY <1>1, <1>2, <1>3 DEF LedgerInit, LedgerTypeOK

LEMMA OwnerOfPermit == ASSUME NEW p \in Permits PROVE PermitOwner(p) \in Users
  BY LedgerAssumptions DEF Permits, PermitOwner

LEMMA CounterUpdate ==
  ASSUME NEW f \in [Users \X Months -> Nat], NEW um \in Users \X Months, NEW n \in Nat
  PROVE  [f EXCEPT ![um] = n] \in [Users \X Months -> Nat]
  OBVIOUS

LEMMA ReserveType ==
  ASSUME LedgerTypeOK, NEW p \in Permits, ReservePermit(p)
  PROVE  LedgerTypeOK'
<1> DEFINE um == ThisMonth(PermitOwner(p))
<1>1. um \in Users \X Months /\ MCP_POINTS_COST \in Nat
  BY OwnerOfPermit, LedgerAssumptions DEF LedgerTypeOK, ThisMonth
<1>2. held' \in [Users \X Months -> Nat]
  <2>1. held[um] + MCP_POINTS_COST \in Nat BY <1>1 DEF LedgerTypeOK
  <2>2. held' = [held EXCEPT ![um] = held[um] + MCP_POINTS_COST] BY DEF ReservePermit
  <2> QED BY <1>1, <2>1, <2>2, CounterUpdate DEF LedgerTypeOK
<1>3. balance' \in Nat /\ reserved' \in Nat
  BY <1>1 DEF LedgerTypeOK, ReservePermit, Affordable
<1> QED BY <1>2, <1>3 DEF LedgerTypeOK, ReservePermit, creditVars

LEMMA SettleType ==
  ASSUME LedgerTypeOK, NEW p \in Permits, SettlePermit(p)
  PROVE  LedgerTypeOK'
<1> DEFINE um == ThisMonth(PermitOwner(p))
<1>1. um \in Users \X Months /\ MCP_POINTS_COST \in Nat
  BY OwnerOfPermit, LedgerAssumptions DEF LedgerTypeOK, ThisMonth
<1>2. held' \in [Users \X Months -> Nat] /\ spent' \in [Users \X Months -> Nat]
  <2>1. held[um] - MCP_POINTS_COST \in Nat /\ spent[um] + MCP_POINTS_COST \in Nat
    BY <1>1 DEF LedgerTypeOK, SettlePermit, CanTerminate, TakeHeld
  <2>2. /\ held' = [held EXCEPT ![um] = held[um] - MCP_POINTS_COST]
        /\ spent' = [spent EXCEPT ![um] = spent[um] + MCP_POINTS_COST]
    BY DEF SettlePermit, TakeHeld
  <2> QED BY <1>1, <2>1, <2>2, CounterUpdate DEF LedgerTypeOK
<1>3. reserved' \in Nat
  BY <1>1 DEF LedgerTypeOK, SettlePermit, CanTerminate, TakeHeld
<1> QED BY <1>2, <1>3 DEF LedgerTypeOK, SettlePermit, creditVars

LEMMA ReleaseType ==
  ASSUME LedgerTypeOK, NEW p \in Permits, ReleasePermit(p)
  PROVE  LedgerTypeOK'
<1> DEFINE um == ThisMonth(PermitOwner(p))
<1>1. um \in Users \X Months /\ MCP_POINTS_COST \in Nat
  BY OwnerOfPermit, LedgerAssumptions DEF LedgerTypeOK, ThisMonth
<1>2. held' \in [Users \X Months -> Nat]
  <2>1. held[um] - MCP_POINTS_COST \in Nat
    BY <1>1 DEF LedgerTypeOK, ReleasePermit, CanTerminate, TakeHeld
  <2>2. held' = [held EXCEPT ![um] = held[um] - MCP_POINTS_COST]
    BY DEF ReleasePermit, TakeHeld
  <2> QED BY <1>1, <2>1, <2>2, CounterUpdate DEF LedgerTypeOK
<1>3. balance' \in Nat /\ reserved' \in Nat
  BY <1>1 DEF LedgerTypeOK, ReleasePermit, CanTerminate, TakeHeld
<1> QED BY <1>2, <1>3 DEF LedgerTypeOK, ReleasePermit, creditVars

LEMMA UnknownType ==
  ASSUME LedgerTypeOK, NEW p \in Permits, MarkUnknown(p)
  PROVE  LedgerTypeOK'
  BY DEF LedgerTypeOK, MarkUnknown, Permits, walletVars, usageVars, creditVars

LEMMA CreditType ==
  ASSUME LedgerTypeOK, CreditStep
  PROVE  LedgerTypeOK'
<1>1. ASSUME NEW u \in Users, GrantWelcome(u) PROVE LedgerTypeOK'
  BY <1>1, LedgerAssumptions DEF LedgerTypeOK, GrantWelcome, usageVars, permitVars
<1>2. ASSUME NEW key \in AdjustKeys, NEW delta \in Deltas, AdminAdjust(key, delta)
      PROVE  LedgerTypeOK'
  BY <1>2, LedgerAssumptions DEF LedgerTypeOK, AdminAdjust, usageVars, permitVars
<1>3. ASSUME NEW u \in Users, NEW points \in Limits, SetQuota(u, points)
      PROVE  LedgerTypeOK'
  BY <1>3, LedgerAssumptions
     DEF LedgerTypeOK, SetQuota, walletVars, usageVars, permitVars, creditVars
<1>4. ASSUME AdvanceMonth PROVE LedgerTypeOK'
  BY <1>4, LedgerAssumptions
     DEF LedgerTypeOK, AdvanceMonth, Months, walletVars, usageVars, permitVars, creditVars
<1> QED BY <1>1, <1>2, <1>3, <1>4 DEF CreditStep

LEMMA LedgerTypeStep ==
  ASSUME LedgerTypeOK, [LedgerNext]_ledgerVars
  PROVE  LedgerTypeOK'
<1>1. CASE LedgerNext
  BY <1>1, ReserveType, SettleType, ReleaseType, UnknownType, CreditType DEF LedgerNext
<1>2. CASE UNCHANGED ledgerVars
  BY <1>2 DEF LedgerTypeOK, ledgerVars, walletVars, usageVars, permitVars, creditVars
<1> QED BY <1>1, <1>2

(***************************************************************************)
(* Every behaviour keeps the types, and so the CHECK constraints of the    *)
(* wallet and quota tables.                                                *)
(***************************************************************************)
THEOREM LedgerTypeCorrect == LedgerSpec => []LedgerTypeOK
<1>1. LedgerInit => LedgerTypeOK BY LedgerTypeInit
<1>2. LedgerTypeOK /\ [LedgerNext]_ledgerVars => LedgerTypeOK' BY LedgerTypeStep
<1> QED BY <1>1, <1>2, PTL DEF LedgerSpec
-----------------------------------------------------------------------------
(***************************************************************************)
(* The rows are finite, so adding a row counts one more.                   *)
(***************************************************************************)
LEMMA RowsFinite ==
  ASSUME NEW rows, rows \subseteq Permits
  PROVE  /\ IsFiniteSet(rows)
         /\ Cardinality(rows) \in Nat
         /\ \A p \in Permits \ rows : Cardinality(rows \cup {p}) = Cardinality(rows) + 1
<1>1. IsFiniteSet(1..2)
  <2>1. 1 \in Int /\ 2 \in Int OBVIOUS
  <2> QED BY <2>1, FS_Interval
<1>2. IsFiniteSet(Permits) BY <1>1, FS_Product, LedgerAssumptions DEF Permits
<1>3. IsFiniteSet(rows) BY <1>2, FS_Subset
<1> QED BY <1>3, FS_CardinalityType, FS_AddElement

(***************************************************************************)
(* Distributivity at the places where a count changes by one.              *)
(***************************************************************************)
LEMMA OneMore ==
  ASSUME NEW n \in Int
  PROVE  /\ MCP_POINTS_COST * (n + 1) = MCP_POINTS_COST * n + MCP_POINTS_COST
         /\ MCP_POINTS_COST * (n - 1) = MCP_POINTS_COST * n - MCP_POINTS_COST
         /\ MCP_POINTS_COST * n \in Int
  BY LedgerAssumptions

Accounts == LedgerTypeOK /\ WalletConserved /\ ReservedMatchesRows

LEMMA AccountsInit == LedgerInit => Accounts
<1> SUFFICES ASSUME LedgerInit PROVE Accounts OBVIOUS
<1>1. Cardinality({}) = 0 BY FS_EmptySet
<1> QED
  BY <1>1, LedgerTypeInit, LedgerAssumptions
     DEF LedgerInit, Accounts, WalletConserved, ReservedMatchesRows

LEMMA AccountsStep ==
  ASSUME Accounts, [LedgerNext]_ledgerVars
  PROVE  Accounts'
<1> DEFINE R == Cardinality(reserves)
           S == Cardinality(settles)
           L == Cardinality(releases)
<1>t. LedgerTypeOK /\ LedgerTypeOK' BY LedgerTypeStep DEF Accounts
<1>n. R \in Nat /\ S \in Nat /\ L \in Nat
  BY <1>t, RowsFinite DEF LedgerTypeOK
<1>c. MCP_POINTS_COST \in Nat BY LedgerAssumptions
<1>1. ASSUME NEW p \in Permits, ReservePermit(p)
      PROVE  WalletConserved' /\ ReservedMatchesRows'
  <2>1. Cardinality(reserves') = R + 1
    BY <1>1, <1>t, RowsFinite DEF ReservePermit, LedgerTypeOK
  <2>2. MCP_POINTS_COST * (R + 1 - S - L) = MCP_POINTS_COST * (R - S - L) + MCP_POINTS_COST
    BY <1>n, OneMore
  <2> QED
    BY <1>1, <2>1, <2>2, <1>n, <1>t, <1>c, OneMore
       DEF ReservePermit, Accounts, WalletConserved, ReservedMatchesRows, LedgerTypeOK
<1>2. ASSUME NEW p \in Permits, SettlePermit(p)
      PROVE  WalletConserved' /\ ReservedMatchesRows'
  <2>1. Cardinality(settles') = S + 1
    BY <1>2, <1>t, RowsFinite DEF SettlePermit, LedgerTypeOK
  <2>2. /\ MCP_POINTS_COST * (R - (S + 1) - L) = MCP_POINTS_COST * (R - S - L) - MCP_POINTS_COST
        /\ MCP_POINTS_COST * (S + 1) = MCP_POINTS_COST * S + MCP_POINTS_COST
    BY <1>n, OneMore
  <2> QED
    BY <1>2, <2>1, <2>2, <1>n, <1>t, <1>c, OneMore
       DEF SettlePermit, TakeHeld, Accounts, WalletConserved, ReservedMatchesRows, LedgerTypeOK
<1>3. ASSUME NEW p \in Permits, ReleasePermit(p)
      PROVE  WalletConserved' /\ ReservedMatchesRows'
  <2>1. Cardinality(releases') = L + 1
    BY <1>3, <1>t, RowsFinite DEF ReleasePermit, Terminal, LedgerTypeOK
  <2>2. MCP_POINTS_COST * (R - S - (L + 1)) = MCP_POINTS_COST * (R - S - L) - MCP_POINTS_COST
    BY <1>n, OneMore
  <2> QED
    BY <1>3, <2>1, <2>2, <1>n, <1>t, <1>c, OneMore
       DEF ReleasePermit, TakeHeld, Accounts, WalletConserved, ReservedMatchesRows, LedgerTypeOK
<1>4. ASSUME NEW p \in Permits, MarkUnknown(p)
      PROVE  WalletConserved' /\ ReservedMatchesRows'
  BY <1>4 DEF MarkUnknown, Accounts, WalletConserved, ReservedMatchesRows, walletVars
<1>5. ASSUME CreditStep PROVE WalletConserved' /\ ReservedMatchesRows'
  <2>1. /\ settles' = settles /\ reserves' = reserves /\ releases' = releases
        /\ reserved' = reserved
    BY <1>5 DEF CreditStep, GrantWelcome, AdminAdjust, SetQuota, AdvanceMonth,
                walletVars, permitVars
  <2>2. credited' - credited = balance' - balance
    <3>1. ASSUME NEW u \in Users, GrantWelcome(u) PROVE credited' - credited = balance' - balance
      BY <3>1, <1>t, LedgerAssumptions DEF GrantWelcome, LedgerTypeOK
    <3>2. ASSUME NEW key \in AdjustKeys, NEW delta \in Deltas, AdminAdjust(key, delta)
          PROVE  credited' - credited = balance' - balance
      BY <3>2, <1>t, LedgerAssumptions DEF AdminAdjust, LedgerTypeOK
    <3>3. ASSUME UNCHANGED walletVars PROVE credited' - credited = balance' - balance
      BY <3>3, <1>t DEF walletVars, LedgerTypeOK
    <3> QED BY <1>5, <3>1, <3>2, <3>3 DEF CreditStep, SetQuota, AdvanceMonth
  <2> QED
    BY <2>1, <2>2, <1>n, <1>t, <1>c, OneMore
       DEF Accounts, WalletConserved, ReservedMatchesRows, LedgerTypeOK
<1>6. ASSUME UNCHANGED ledgerVars PROVE WalletConserved' /\ ReservedMatchesRows'
  BY <1>6 DEF Accounts, WalletConserved, ReservedMatchesRows, ledgerVars, walletVars, permitVars
<1> QED
  BY <1>t, <1>1, <1>2, <1>3, <1>4, <1>5, <1>6 DEF LedgerNext, Accounts

(***************************************************************************)
(* No points are created or lost by any sequence of ledger operations.     *)
(***************************************************************************)
THEOREM LedgerConserves == LedgerSpec => []WalletConserved
<1>1. Accounts => WalletConserved BY DEF Accounts
<1>2. Accounts /\ [LedgerNext]_ledgerVars => Accounts' BY AccountsStep
<1> QED BY AccountsInit, <1>1, <1>2, PTL DEF LedgerSpec

(***************************************************************************)
(* The wallet's reserved column equals the reserve rows less the terminal  *)
(* rows, at the price of a call each.                                      *)
(***************************************************************************)
THEOREM LedgerEscrow == LedgerSpec => []ReservedMatchesRows
<1>1. Accounts => ReservedMatchesRows BY DEF Accounts
<1>2. Accounts /\ [LedgerNext]_ledgerVars => Accounts' BY AccountsStep
<1> QED BY AccountsInit, <1>1, <1>2, PTL DEF LedgerSpec

(***************************************************************************)
(* The wallet adds up and holds back what the rows say: both at once, as   *)
(* reconcile_run compares them.                                            *)
(***************************************************************************)
THEOREM LedgerAccounts == LedgerSpec => []PointsAreAccounted
<1>1. Accounts => PointsAreAccounted BY DEF Accounts, PointsAreAccounted
<1>2. Accounts /\ [LedgerNext]_ledgerVars => Accounts' BY AccountsStep
<1> QED BY AccountsInit, <1>1, <1>2, PTL DEF LedgerSpec
-----------------------------------------------------------------------------
(***************************************************************************)
(* One step, as the quota sees it: only a reservation adds to the counters *)
(* of a user, and it does so in the current month and within the limit.    *)
(***************************************************************************)
LEMMA QuotaStep ==
  ASSUME LedgerTypeOK, [LedgerNext]_ledgerVars
  PROVE  QuotaKept
<1> SUFFICES ASSUME NEW um \in Users \X Months
             PROVE  spent'[um] + held'[um] > spent[um] + held[um]
                      => um[2] = month /\ spent'[um] + held'[um] <= limit[um[1]]
  BY DEF QuotaKept
<1>t. spent[um] \in Nat /\ held[um] \in Nat /\ MCP_POINTS_COST \in Nat
  BY LedgerAssumptions DEF LedgerTypeOK
<1>1. ASSUME NEW p \in Permits, ReservePermit(p),
             spent'[um] + held'[um] > spent[um] + held[um]
      PROVE  um[2] = month /\ spent'[um] + held'[um] <= limit[um[1]]
  <2> DEFINE here == ThisMonth(PermitOwner(p))
  <2>1. here \in Users \X Months BY OwnerOfPermit DEF LedgerTypeOK, ThisMonth
  <2>2. spent' = spent /\ held' = [held EXCEPT ![here] = @ + MCP_POINTS_COST]
    BY <1>1 DEF ReservePermit
  <2>3. um = here BY <1>1, <1>t, <2>1, <2>2 DEF LedgerTypeOK
  <2>4. held'[um] = held[um] + MCP_POINTS_COST BY <2>1, <2>2, <2>3 DEF LedgerTypeOK
  <2>5. spent[here] + held[here] + MCP_POINTS_COST <= limit[PermitOwner(p)]
    BY <1>1 DEF ReservePermit, Affordable
  <2>6. um[1] = PermitOwner(p) /\ um[2] = month BY <2>3 DEF ThisMonth
  <2> QED BY <2>2, <2>3, <2>4, <2>5, <2>6, <1>t
<1>2. ASSUME NEW p \in Permits, SettlePermit(p)
      PROVE  spent'[um] + held'[um] = spent[um] + held[um]
  <2> DEFINE here == ThisMonth(PermitOwner(p))
  <2>1. here \in Users \X Months BY OwnerOfPermit DEF LedgerTypeOK, ThisMonth
  <2>2. /\ held' = [held EXCEPT ![here] = @ - MCP_POINTS_COST]
        /\ spent' = [spent EXCEPT ![here] = @ + MCP_POINTS_COST]
    BY <1>2 DEF SettlePermit, TakeHeld
  <2>3. CASE um = here BY <2>1, <2>2, <2>3, <1>t DEF LedgerTypeOK
  <2>4. CASE um # here BY <2>1, <2>2, <2>4, <1>t DEF LedgerTypeOK
  <2> QED BY <2>3, <2>4
<1>3. ASSUME NEW p \in Permits, ReleasePermit(p)
      PROVE  spent'[um] + held'[um] <= spent[um] + held[um]
  <2> DEFINE here == ThisMonth(PermitOwner(p))
  <2>1. here \in Users \X Months BY OwnerOfPermit DEF LedgerTypeOK, ThisMonth
  <2>2. spent' = spent /\ held' = [held EXCEPT ![here] = @ - MCP_POINTS_COST]
    BY <1>3 DEF ReleasePermit, TakeHeld
  <2>3. CASE um = here BY <2>1, <2>2, <2>3, <1>t DEF LedgerTypeOK
  <2>4. CASE um # here BY <2>1, <2>2, <2>4, <1>t DEF LedgerTypeOK
  <2> QED BY <2>3, <2>4
<1>4. ASSUME UNCHANGED usageVars PROVE spent'[um] + held'[um] = spent[um] + held[um]
  BY <1>4 DEF usageVars
<1>5. CreditStep => UNCHANGED usageVars
  BY DEF CreditStep, GrantWelcome, AdminAdjust, SetQuota, AdvanceMonth, usageVars
<1>6. \A p \in Permits : MarkUnknown(p) => UNCHANGED usageVars
  BY DEF MarkUnknown, usageVars
<1>7. UNCHANGED ledgerVars => UNCHANGED usageVars BY DEF ledgerVars
<1> QED
  <2>1. ASSUME NEW p \in Permits, SettlePermit(p) \/ ReleasePermit(p) \/ UNCHANGED usageVars
        PROVE  ~ (spent'[um] + held'[um] > spent[um] + held[um])
    <3>1. spent'[um] \in Int /\ held'[um] \in Int
      BY LedgerTypeStep DEF LedgerTypeOK
    <3> QED BY <2>1, <3>1, <1>2, <1>3, <1>4, <1>t
  <2>2. ASSUME UNCHANGED usageVars PROVE ~ (spent'[um] + held'[um] > spent[um] + held[um])
    BY <2>2, <1>4, <1>t
  <2> QED BY <1>1, <2>1, <2>2, <1>5, <1>6, <1>7 DEF LedgerNext

(***************************************************************************)
(* One step, as the wallet sees it: points come back for an open permit,   *)
(* or they are new ones.                                                   *)
(***************************************************************************)
LEMMA RefundStep ==
  ASSUME LedgerTypeOK, [LedgerNext]_ledgerVars
  PROVE  PaidBack
<1>t. balance \in Nat /\ credited \in Int /\ MCP_POINTS_COST \in Nat \ {0}
  BY LedgerAssumptions DEF LedgerTypeOK
<1>1. ASSUME NEW p \in Permits, ReservePermit(p) PROVE PaidBack
  BY <1>1, <1>t DEF ReservePermit, Affordable, PaidBack
<1>2. ASSUME NEW p \in Permits, ReleasePermit(p) PROVE PaidBack
  BY <1>2 DEF ReleasePermit, Terminal, PaidBack
<1>3. ASSUME NEW u \in Users, GrantWelcome(u) PROVE PaidBack
  BY <1>3, <1>t, LedgerAssumptions DEF GrantWelcome, PaidBack
<1>4. ASSUME NEW key \in AdjustKeys, NEW delta \in Deltas, AdminAdjust(key, delta)
      PROVE  PaidBack
  BY <1>4, <1>t, LedgerAssumptions DEF AdminAdjust, PaidBack
<1>5. ASSUME balance' = balance PROVE PaidBack
  BY <1>5, <1>t DEF PaidBack
<1>6. ASSUME NEW p \in Permits, SettlePermit(p) \/ MarkUnknown(p) PROVE PaidBack
  BY <1>5, <1>6 DEF SettlePermit, MarkUnknown, walletVars
<1>7. ASSUME AdvanceMonth \/ (\E u \in Users, points \in Limits : SetQuota(u, points))
      PROVE  PaidBack
  BY <1>5, <1>7 DEF AdvanceMonth, SetQuota, walletVars
<1>8. ASSUME UNCHANGED ledgerVars PROVE PaidBack
  BY <1>5, <1>8 DEF ledgerVars, walletVars
<1> QED
  BY <1>1, <1>2, <1>3, <1>4, <1>6, <1>7, <1>8 DEF LedgerNext, CreditStep

(***************************************************************************)
(* No user is charged or held past the quota of the month, and no permit   *)
(* gives its points back twice, in any order of operations.                *)
(***************************************************************************)
THEOREM LedgerSpendingIsBounded == LedgerSpec => SpendingIsBounded
<1>1. LedgerTypeOK /\ [LedgerNext]_ledgerVars => [QuotaKept]_ledgerVars
  BY QuotaStep
<1>2. LedgerTypeOK /\ [LedgerNext]_ledgerVars => [PaidBack]_ledgerVars
  BY RefundStep
<1>3. LedgerSpec => [][QuotaKept]_ledgerVars /\ [][PaidBack]_ledgerVars
  BY <1>1, <1>2, LedgerTypeCorrect, PTL DEF LedgerSpec
<1> QED
  BY <1>3, PTL DEF SpendingIsBounded, QuotaNeverOverrun, RefundedOnce
=============================================================================
