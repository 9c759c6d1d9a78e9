------------------------ MODULE DurableToolCallProofs ------------------------
(***************************************************************************)
(* Proofs about DurableToolCall, for every set of users, calls, amounts    *)
(* and months.  The calls' rows, the ledger and the wire are tied together *)
(* by one inductive invariant, DurableInv.                                 *)
(***************************************************************************)
EXTENDS DurableToolCall, TenantLedgerProofs

(***************************************************************************)
(* What the wire knows of a call belongs to its current dispatch, and a    *)
(* request is refused only if it was neither received nor left in flight.  *)
(***************************************************************************)
WireMatchesRow ==
  /\ \A p \in Permits : exec[p] \notin {"none", "over"} => p = Permit(p[1])
  /\ \A p \in inFlight \cup received : p = Permit(p[1])
  /\ inFlight \cap received = {}
  /\ \A p \in Permits : exec[p] = "refused" => p \notin inFlight \cup received

(***************************************************************************)
(* A call that may be retried has failed, its worker is gone, and its      *)
(* request is nowhere.                                                     *)
(***************************************************************************)
NotSentIsOver ==
  \A c \in Calls : error_type[c] = "definitely_not_sent" =>
    /\ status[c] = "failed"
    /\ exec[Permit(c)] = "over"
    /\ Permit(c) \notin inFlight \cup received

DurableInv == DurableTypeOK /\ RowMatchesLedger /\ WireMatchesRow /\ NotSentIsOver

-----------------------------------------------------------------------------
LEMMA PermitShape ==
  /\ \A p \in Permits : p[1] \in Calls /\ p[2] \in {1, 2} /\ p = <<p[1], p[2]>>
  /\ \A c \in Calls : <<c, 1>> \in Permits /\ <<c, 2>> \in Permits
  BY DEF Permits

(***************************************************************************)
(* The row of a call that exists has a permit of its own.                  *)
(***************************************************************************)
LEMMA CurrentPermit ==
  ASSUME DurableTypeOK, RowMatchesLedger, NEW c \in Calls, status[c] # "absent"
  PROVE  /\ dispatch_count[c] \in {1, 2}
         /\ Permit(c) \in Permits /\ Permit(c) \in reserves
<1>1. dispatch_count[c] \in {1, 2} BY DEF DurableTypeOK, RowMatchesLedger
<1>2. Permit(c) \in Permits BY <1>1, PermitShape DEF Permit
<1>3. Permit(c)[1] = c /\ Permit(c)[2] = dispatch_count[c] BY DEF Permit
<1>4. dispatch_count[c] <= dispatch_count[c] BY <1>1
<1> QED BY <1>1, <1>2, <1>3, <1>4 DEF RowMatchesLedger

-----------------------------------------------------------------------------
(***************************************************************************)
(* Every step of the calls is a step of the ledger, or leaves it alone.    *)
(***************************************************************************)
LEMMA WorkerLedgerStep ==
  ASSUME NEW p \in Permits, WorkerStep(p), DurableTypeOK, RowMatchesLedger
  PROVE  [LedgerNext]_ledgerVars
<1> DEFINE c == p[1]
<1>c. c \in Calls BY PermitShape
<1>1. CASE UNCHANGED ledgerVars BY <1>1
<1>2. CASE ~RowTerminal(c) /\ SettlePermit(Permit(c))
  <2>1. Permit(c) \in reserves BY <1>2 DEF SettlePermit
  <2>2. Permit(c) \in Permits BY <2>1 DEF DurableTypeOK, LedgerTypeOK
  <2> QED BY <1>2, <2>2 DEF LedgerNext
<1>3. CASE ~RowTerminal(c) /\ ReleasePermit(Permit(c))
  <2>1. Permit(c) \in reserves BY <1>3 DEF ReleasePermit
  <2>2. Permit(c) \in Permits BY <2>1 DEF DurableTypeOK, LedgerTypeOK
  <2> QED BY <1>3, <2>2 DEF LedgerNext
<1>4. CASE ~RowTerminal(c) /\ MarkUnknown(Permit(c))
  <2>1. Permit(c) \in reserves BY <1>4 DEF MarkUnknown
  <2>2. Permit(c) \in Permits BY <2>1 DEF DurableTypeOK, LedgerTypeOK
  <2> QED BY <1>4, <2>2 DEF LedgerNext
<1> QED
  BY <1>1, <1>2, <1>3, <1>4
     DEF WorkerStep, Refuse, Receive, GiveUp, Crash, Answer, FinalizeSuccess,
         FinalizeWithoutPayload, FinalizeRelease, FinalizeUnknown, FinalizeTooLate,
         FinalizeRaises, SettleRow, ReleaseRow

LEMMA CallLedgerStep ==
  ASSUME NEW c \in Calls, CallStep(c), DurableTypeOK
  PROVE  [LedgerNext]_ledgerVars
<1>1. CASE UNCHANGED ledgerVars BY <1>1
<1>2. CASE PrepareNew(c) \/ PrepareRetry(c)
  BY <1>2, PermitShape DEF PrepareNew, PrepareRetry, Start, LedgerNext
<1>3. CASE AdminConfirmSuccess(c) \/ AdminConfirmFailure(c)
  <2>1. SettlePermit(Permit(c)) \/ ReleasePermit(Permit(c))
    BY <1>3 DEF AdminConfirmSuccess, AdminConfirmFailure, SettleRow, ReleaseRow
  <2>2. Permit(c) \in reserves BY <2>1 DEF SettlePermit, ReleasePermit
  <2>3. Permit(c) \in Permits BY <2>2 DEF DurableTypeOK, LedgerTypeOK
  <2> QED BY <2>1, <2>3 DEF LedgerNext
<1> QED
  BY <1>1, <1>2, <1>3 DEF CallStep, MigrateStuck, KeepUnknown, AdminKeepUnknown

LEMMA DurableLedgerStep ==
  ASSUME DurableTypeOK, RowMatchesLedger, [DurableNext]_durableVars
  PROVE  [LedgerNext]_ledgerVars
<1>1. ASSUME CreditStep PROVE LedgerNext BY <1>1 DEF LedgerNext
<1> QED BY <1>1, WorkerLedgerStep, CallLedgerStep DEF DurableNext, durableVars
-----------------------------------------------------------------------------
(***************************************************************************)
(* Type correctness of the rows and of the wire.                           *)
(***************************************************************************)
LEMMA DurableTypeStep ==
  ASSUME DurableTypeOK, RowMatchesLedger, [DurableNext]_durableVars
  PROVE  DurableTypeOK'
<1>l. LedgerTypeOK' BY DurableLedgerStep, LedgerTypeStep DEF DurableTypeOK
<1>1. ASSUME NEW p \in Permits, WorkerStep(p) PROVE DurableTypeOK'
  <2> DEFINE c == p[1]
  <2>c. c \in Calls BY PermitShape
  <2>1. CASE Refuse(p) \/ Receive(p)
    BY <2>1, <1>l DEF DurableTypeOK, Refuse, Receive, rowVars
  <2>8. CASE GiveUp(p) \/ Crash(p)
    BY <2>8, <1>l DEF DurableTypeOK, GiveUp, Crash, rowVars, wireVars
  <2>2. ASSUME NEW outcome \in Outcomes, Answer(p, outcome) PROVE DurableTypeOK'
    BY <2>2, <1>l DEF DurableTypeOK, Answer, rowVars, wireVars
  <2>3. CASE FinalizeSuccess(p)
    BY <2>3, <2>c, <1>l
       DEF DurableTypeOK, FinalizeSuccess, SettleRow, Leave, wireVars, Statuses, ErrorTypes
  <2>4. CASE FinalizeWithoutPayload(p)
    BY <2>4, <2>c, <1>l
       DEF DurableTypeOK, FinalizeWithoutPayload, SettleRow, Leave, wireVars, Statuses, ErrorTypes
  <2>5. CASE FinalizeRelease(p)
    BY <2>5, <2>c, <1>l
       DEF DurableTypeOK, FinalizeRelease, ReleaseRow, Leave, wireVars, Statuses, ErrorTypes
  <2>6. CASE FinalizeUnknown(p)
    BY <2>6, <2>c, <1>l
       DEF DurableTypeOK, FinalizeUnknown, Leave, wireVars, Statuses, ErrorTypes
  <2>7. CASE FinalizeTooLate(p) \/ FinalizeRaises(p)
    BY <2>7, <1>l DEF DurableTypeOK, FinalizeTooLate, FinalizeRaises, Leave, rowVars, wireVars
  <2> QED BY <1>1, <2>1, <2>2, <2>3, <2>4, <2>5, <2>6, <2>7, <2>8 DEF WorkerStep
<1>2. ASSUME NEW c \in Calls, CallStep(c) PROVE DurableTypeOK'
  <2>1. ASSUME NEW k \in {1, 2}, Start(<<c, k>>) PROVE DurableTypeOK'
    <3>1. Starts \in Nat
      <4>1. {p \in Permits : exec[p] # "none"} \subseteq Permits OBVIOUS
      <4> QED BY <4>1, RowsFinite DEF Starts
    <3>2. <<c, k>> \in Permits BY PermitShape
    <3> QED BY <2>1, <3>1, <3>2, <1>l DEF DurableTypeOK, Start, Statuses, ErrorTypes
  <2>2. CASE PrepareNew(c) \/ PrepareRetry(c)
    BY <2>1, <2>2 DEF PrepareNew, PrepareRetry
  <2>3. CASE MigrateStuck(c)
    BY <2>3, <1>l DEF DurableTypeOK, MigrateStuck, wireVars, Statuses, ErrorTypes
  <2>4. CASE KeepUnknown(c) \/ AdminKeepUnknown(c)
    BY <2>4, <1>l DEF DurableTypeOK, KeepUnknown, AdminKeepUnknown, wireVars
  <2>5. CASE AdminConfirmSuccess(c)
    BY <2>5, <1>l
       DEF DurableTypeOK, AdminConfirmSuccess, SettleRow, wireVars, Statuses, ErrorTypes
  <2>6. CASE AdminConfirmFailure(c)
    BY <2>6, <1>l
       DEF DurableTypeOK, AdminConfirmFailure, ReleaseRow, wireVars, Statuses, ErrorTypes
  <2> QED BY <1>2, <2>2, <2>3, <2>4, <2>5, <2>6 DEF CallStep
<1>3. ASSUME UNCHANGED callVars PROVE DurableTypeOK'
  BY <1>3, <1>l DEF DurableTypeOK, callVars, rowVars, wireVars
<1> QED BY <1>1, <1>2, <1>3 DEF DurableNext, durableVars
-----------------------------------------------------------------------------
(***************************************************************************)
(* The four ways a transaction moves a row and the ledger together.        *)
(***************************************************************************)
LEMMA StartMatches ==
  ASSUME DurableTypeOK, RowMatchesLedger, NEW c \in Calls, NEW k \in {1, 2},
         k = dispatch_count[c] + 1, status[c] \in {"absent", "failed"}, Start(<<c, k>>)
  PROVE  RowMatchesLedger'
<1>1. /\ status' = [status EXCEPT ![c] = "running"]
      /\ dispatch_count' = [dispatch_count EXCEPT ![c] = k]
      /\ reserves' = reserves \cup {<<c, k>>} /\ settles' = settles /\ releases' = releases
  BY DEF Start, ReservePermit
<1>2. \A b \in Calls : /\ dispatch_count'[b] = IF b = c THEN k ELSE dispatch_count[b]
                       /\ status'[b] = IF b = c THEN "running" ELSE status[b]
                       /\ dispatch_count[b] \in 0..2
  BY <1>1 DEF DurableTypeOK
<1>3. (\A b \in Calls : (status[b] = "absent") <=> (dispatch_count[b] = 0))'
  BY <1>2 DEF RowMatchesLedger
<1>4. reserves' = {p \in Permits : p[2] <= dispatch_count[p[1]]}'
  <2>1. ASSUME NEW p \in Permits, p[1] # c
        PROVE  p \in reserves \cup {<<c, k>>} <=> p[2] <= dispatch_count'[p[1]]
    BY <2>1, <1>2, PermitShape DEF RowMatchesLedger
  <2>2. ASSUME NEW p \in Permits, p[1] = c
        PROVE  p \in reserves \cup {<<c, k>>} <=> p[2] <= dispatch_count'[p[1]]
    <3>1. p = <<c, p[2]>> /\ p[2] \in {1, 2} BY <2>2, PermitShape
    <3>2. p \in reserves <=> p[2] <= k - 1 BY <2>2, <1>2 DEF RowMatchesLedger
    <3>3. p = <<c, k>> <=> p[2] = k BY <3>1
    <3> QED BY <2>2, <3>1, <3>2, <3>3, <1>2
  <2>3. reserves \subseteq Permits /\ <<c, k>> \in Permits
    BY PermitShape DEF RowMatchesLedger
  <2> QED BY <1>1, <2>1, <2>2, <2>3
<1>5. settles' = {p \in Permits : p = Permit(p[1]) /\ status[p[1]] = "settled"}'
  BY <1>1, <1>2, PermitShape DEF RowMatchesLedger, Permit
<1>6. releases' = {p \in Permits : \/ p[2] < dispatch_count[p[1]]
                                   \/ p = Permit(p[1]) /\ status[p[1]] = "failed"}'
  <2>1. \A p \in Permits : p \in releases <=>
          (p[2] < dispatch_count'[p[1]] \/ (p = Permit(p[1])' /\ status'[p[1]] = "failed"))
    <3>1. ASSUME NEW p \in Permits, p[1] # c
          PROVE  p \in releases <=>
            (p[2] < dispatch_count'[p[1]] \/ (p = Permit(p[1])' /\ status'[p[1]] = "failed"))
      BY <3>1, <1>2, PermitShape DEF RowMatchesLedger, Permit
    <3>2. ASSUME NEW p \in Permits, p[1] = c
          PROVE  p \in releases <=>
            (p[2] < dispatch_count'[p[1]] \/ (p = Permit(p[1])' /\ status'[p[1]] = "failed"))
      <4>1. p = <<c, p[2]>> /\ p[2] \in {1, 2} BY <3>2, PermitShape
      <4>2. dispatch_count[c] = k - 1 BY <1>2
      <4>3. dispatch_count'[c] = k /\ status'[c] = "running" BY <1>2
      <4>4. p \in releases <=> \/ p[2] < k - 1
                               \/ p = <<c, k - 1>> /\ status[c] = "failed"
        BY <3>2, <4>2 DEF RowMatchesLedger, Permit
      <4>5. k = 2 => status[c] = "failed" BY <4>2 DEF RowMatchesLedger
      <4> QED BY <3>2, <4>1, <4>3, <4>4, <4>5
    <3> QED BY <3>1, <3>2
  <2>2. releases \subseteq Permits BY DEF DurableTypeOK, LedgerTypeOK
  <2> QED BY <1>1, <2>1, <2>2
<1> QED BY <1>3, <1>4, <1>5, <1>6 DEF RowMatchesLedger

LEMMA SettleMatches ==
  ASSUME DurableTypeOK, RowMatchesLedger, NEW c \in Calls, NEW error,
         status[c] \in {"running", "unknown"}, SettleRow(c, error)
  PROVE  RowMatchesLedger'
<1>1. /\ status' = [status EXCEPT ![c] = "settled"] /\ dispatch_count' = dispatch_count
      /\ reserves' = reserves /\ settles' = settles \cup {Permit(c)} /\ releases' = releases
  BY DEF SettleRow, SettlePermit
<1>2. \A b \in Calls : /\ Permit(b)' = Permit(b) /\ Permit(b)[1] = b
                       /\ status'[b] = IF b = c THEN "settled" ELSE status[b]
  BY <1>1 DEF DurableTypeOK, Permit
<1>3. Permit(c) \in Permits BY CurrentPermit
<1>4. (\A b \in Calls : (status[b] = "absent") <=> (dispatch_count[b] = 0))'
  BY <1>1, <1>2 DEF RowMatchesLedger
<1>5. settles' = {p \in Permits : p = Permit(p[1]) /\ status[p[1]] = "settled"}'
  BY <1>1, <1>2, <1>3, PermitShape DEF RowMatchesLedger
<1>6. releases' = {p \in Permits : \/ p[2] < dispatch_count[p[1]]
                                   \/ p = Permit(p[1]) /\ status[p[1]] = "failed"}'
  BY <1>1, <1>2, PermitShape DEF RowMatchesLedger
<1> QED BY <1>1, <1>4, <1>5, <1>6 DEF RowMatchesLedger

LEMMA ReleaseMatches ==
  ASSUME DurableTypeOK, RowMatchesLedger, NEW c \in Calls, NEW error,
         status[c] \in {"running", "unknown"}, ReleaseRow(c, error)
  PROVE  RowMatchesLedger'
<1>1. /\ status' = [status EXCEPT ![c] = "failed"] /\ dispatch_count' = dispatch_count
      /\ reserves' = reserves /\ settles' = settles /\ releases' = releases \cup {Permit(c)}
  BY DEF ReleaseRow, ReleasePermit
<1>2. \A b \in Calls : /\ Permit(b)' = Permit(b) /\ Permit(b)[1] = b
                       /\ status'[b] = IF b = c THEN "failed" ELSE status[b]
  BY <1>1 DEF DurableTypeOK, Permit
<1>3. Permit(c) \in Permits BY CurrentPermit
<1>4. (\A b \in Calls : (status[b] = "absent") <=> (dispatch_count[b] = 0))'
  BY <1>1, <1>2 DEF RowMatchesLedger
<1>5. settles' = {p \in Permits : p = Permit(p[1]) /\ status[p[1]] = "settled"}'
  BY <1>1, <1>2, PermitShape DEF RowMatchesLedger
<1>6. releases' = {p \in Permits : \/ p[2] < dispatch_count[p[1]]
                                   \/ p = Permit(p[1]) /\ status[p[1]] = "failed"}'
  BY <1>1, <1>2, <1>3, PermitShape DEF RowMatchesLedger
<1> QED BY <1>1, <1>4, <1>5, <1>6 DEF RowMatchesLedger

LEMMA OpenMatches ==   \* running, unknown: the same to the ledger
  ASSUME DurableTypeOK, RowMatchesLedger, NEW c \in Calls,
         status[c] \in {"running", "unknown"}, status' = [status EXCEPT ![c] = "unknown"],
         UNCHANGED <<dispatch_count, reserves, settles, releases>>
  PROVE  RowMatchesLedger'
<1>1. \A b \in Calls : /\ Permit(b)' = Permit(b)
                       /\ status'[b] = IF b = c THEN "unknown" ELSE status[b]
  BY DEF DurableTypeOK, Permit
<1>2. (\A b \in Calls : (status[b] = "absent") <=> (dispatch_count[b] = 0))'
  BY <1>1 DEF RowMatchesLedger
<1>3. settles' = {p \in Permits : p = Permit(p[1]) /\ status[p[1]] = "settled"}'
  BY <1>1, PermitShape DEF RowMatchesLedger
<1>4. releases' = {p \in Permits : \/ p[2] < dispatch_count[p[1]]
                                   \/ p = Permit(p[1]) /\ status[p[1]] = "failed"}'
  BY <1>1, PermitShape DEF RowMatchesLedger
<1> QED BY <1>2, <1>3, <1>4 DEF RowMatchesLedger

LEMMA SameMatches ==
  ASSUME RowMatchesLedger, UNCHANGED <<status, dispatch_count, reserves, settles, releases>>
  PROVE  RowMatchesLedger'
  BY DEF RowMatchesLedger, Permit

LEMMA OpenRow ==
  ASSUME DurableTypeOK, RowMatchesLedger, NEW c \in Calls, ~RowTerminal(c),
         Permit(c) \in reserves
  PROVE  status[c] \in {"running", "unknown"}
<1>1. Permit(c) \in Permits BY DEF RowMatchesLedger
<1>2. dispatch_count[c] # 0 BY <1>1, PermitShape DEF Permit
<1>3. status[c] # "absent" BY <1>2 DEF RowMatchesLedger
<1> QED BY <1>3 DEF DurableTypeOK, RowTerminal, Statuses

LEMMA RowMatchesStep ==
  ASSUME DurableTypeOK, RowMatchesLedger, [DurableNext]_durableVars
  PROVE  RowMatchesLedger'
<1>1. ASSUME NEW p \in Permits, WorkerStep(p) PROVE RowMatchesLedger'
  <2> DEFINE c == p[1]
  <2>c. c \in Calls BY PermitShape
  <2>1. ASSUME NEW error, ~RowTerminal(c), SettleRow(c, error) PROVE RowMatchesLedger'
    <3>1. Permit(c) \in reserves BY <2>1 DEF SettleRow, SettlePermit
    <3> QED BY <2>1, <2>c, <3>1, OpenRow, SettleMatches
  <2>2. ASSUME NEW error, ~RowTerminal(c), ReleaseRow(c, error) PROVE RowMatchesLedger'
    <3>1. Permit(c) \in reserves BY <2>2 DEF ReleaseRow, ReleasePermit
    <3> QED BY <2>2, <2>c, <3>1, OpenRow, ReleaseMatches
  <2>3. CASE FinalizeUnknown(p)
    <3>1. Permit(c) \in reserves BY <2>3 DEF FinalizeUnknown, MarkUnknown
    <3>2. UNCHANGED <<dispatch_count, reserves, settles, releases>>
      BY <2>3 DEF FinalizeUnknown, MarkUnknown
    <3> QED BY <2>3, <2>c, <3>1, <3>2, OpenRow, OpenMatches DEF FinalizeUnknown
  <2>4. CASE UNCHANGED <<rowVars, ledgerVars>>
    BY <2>4, SameMatches DEF rowVars, ledgerVars, permitVars
  <2> QED
    BY <1>1, <2>1, <2>2, <2>3, <2>4
       DEF WorkerStep, Refuse, Receive, GiveUp, Crash, Answer, FinalizeSuccess,
           FinalizeWithoutPayload, FinalizeRelease, FinalizeTooLate, FinalizeRaises
<1>2. ASSUME NEW c \in Calls, CallStep(c) PROVE RowMatchesLedger'
  <2>1. CASE PrepareNew(c)
    <3>1. dispatch_count[c] = 0 BY <2>1 DEF PrepareNew, RowMatchesLedger
    <3>2. /\ 1 \in {1, 2} /\ 1 = dispatch_count[c] + 1
          /\ status[c] \in {"absent", "failed"} /\ Start(<<c, 1>>)
      BY <2>1, <3>1 DEF PrepareNew
    <3> QED BY <3>2, StartMatches
  <2>2. CASE PrepareRetry(c)
    <3>1. status[c] = "failed" /\ dispatch_count[c] < 2
      BY <2>2 DEF PrepareRetry, RetryAllowed
    <3>2. dispatch_count[c] = 1 BY <3>1, CurrentPermit
    <3>3. /\ 2 \in {1, 2} /\ 2 = dispatch_count[c] + 1
          /\ status[c] \in {"absent", "failed"} /\ Start(<<c, 2>>)
      BY <2>2, <3>1, <3>2 DEF PrepareRetry
    <3> QED BY <3>3, StartMatches
  <2>3. CASE MigrateStuck(c)
    <3>1. UNCHANGED <<dispatch_count, reserves, settles, releases>>
      BY <2>3 DEF MigrateStuck, ledgerVars, permitVars
    <3> QED BY <2>3, <3>1, OpenMatches DEF MigrateStuck, Stuck
  <2>4. CASE KeepUnknown(c) \/ AdminKeepUnknown(c)
    BY <2>4, SameMatches DEF KeepUnknown, AdminKeepUnknown, ledgerVars, permitVars
  <2>5. CASE AdminConfirmSuccess(c)
    BY <2>5, SettleMatches DEF AdminConfirmSuccess, AdminMay
  <2>6. CASE AdminConfirmFailure(c)
    BY <2>6, ReleaseMatches DEF AdminConfirmFailure, AdminMay
  <2> QED BY <1>2, <2>1, <2>2, <2>3, <2>4, <2>5, <2>6 DEF CallStep
<1>3. ASSUME CreditStep, UNCHANGED callVars PROVE RowMatchesLedger'
  BY <1>3, SameMatches
     DEF CreditStep, GrantWelcome, AdminAdjust, SetQuota, AdvanceMonth, permitVars,
         callVars, rowVars
<1>4. ASSUME UNCHANGED durableVars PROVE RowMatchesLedger'
  BY <1>4, SameMatches DEF durableVars, callVars, rowVars, ledgerVars, permitVars
<1> QED BY <1>1, <1>2, <1>3, <1>4 DEF DurableNext
-----------------------------------------------------------------------------
(***************************************************************************)
(* Starting a call: the permit is new, so nothing of it is on the wire,    *)
(* and no worker or request of an earlier dispatch of the call is left.    *)
(***************************************************************************)
LEMMA StartWire ==
  ASSUME DurableInv, NEW c \in Calls, NEW k \in {1, 2}, dispatch_count[c] = k - 1,
         \A p \in inFlight \cup received : p[1] # c,
         \A p \in Permits : p[1] = c => exec[p] \in {"none", "over"},
         Start(<<c, k>>)
  PROVE  WireMatchesRow' /\ NotSentIsOver'
<1> DEFINE q == <<c, k>>
<1>q. q \in Permits /\ q[1] = c BY PermitShape
<1>1. /\ exec' = [exec EXCEPT ![q] = "calling"]
      /\ inFlight' = inFlight \cup {q} /\ received' = received
      /\ dispatch_count' = [dispatch_count EXCEPT ![c] = k]
      /\ status' = [status EXCEPT ![c] = "running"]
      /\ error_type' = [error_type EXCEPT ![c] = "none"]
  BY DEF Start
<1>2. \A b \in Calls : b # c => /\ Permit(b)' = Permit(b) /\ status'[b] = status[b]
                                /\ error_type'[b] = error_type[b]
  BY <1>1 DEF DurableInv, DurableTypeOK, Permit
<1>3. Permit(c)' = q /\ error_type'[c] = "none"
  BY <1>1 DEF DurableInv, DurableTypeOK, Permit
<1>4. \A p \in Permits : p # q => exec'[p] = exec[p]
  BY <1>1 DEF DurableInv, DurableTypeOK
<1>5. exec'[q] = "calling" BY <1>1, <1>q DEF DurableInv, DurableTypeOK
<1>t. inFlight \subseteq Permits /\ received \subseteq Permits
  BY DEF DurableInv, DurableTypeOK
<1>6. (\A p \in Permits : exec[p] \notin {"none", "over"} => p = Permit(p[1]))'
  BY <1>2, <1>3, <1>4, PermitShape DEF DurableInv, WireMatchesRow
<1>7. (\A p \in inFlight \cup received : p = Permit(p[1]))'
  BY <1>1, <1>2, <1>3, <1>t, PermitShape DEF DurableInv, WireMatchesRow
<1>8. (inFlight \cap received = {})'
  BY <1>1, <1>q DEF DurableInv, WireMatchesRow
<1>9. (\A p \in Permits : exec[p] = "refused" => p \notin inFlight \cup received)'
  BY <1>1, <1>4, <1>5 DEF DurableInv, WireMatchesRow
<1>10. NotSentIsOver'
  <2> SUFFICES ASSUME NEW b \in Calls, error_type'[b] = "definitely_not_sent"
               PROVE  /\ status'[b] = "failed" /\ exec'[Permit(b)'] = "over"
                      /\ Permit(b)' \notin inFlight' \cup received'
    BY DEF NotSentIsOver
  <2>1. b # c BY <1>3
  <2>2. /\ status[b] = "failed" /\ exec[Permit(b)] = "over"
        /\ Permit(b) \notin inFlight \cup received
    BY <2>1, <1>2 DEF DurableInv, NotSentIsOver
  <2>3. Permit(b) \in Permits BY <2>2, CurrentPermit DEF DurableInv
  <2>4. Permit(b) # q BY <2>1 DEF Permit
  <2> QED BY <2>1, <2>2, <2>3, <2>4, <1>1, <1>2, <1>4
<1> QED BY <1>6, <1>7, <1>8, <1>9, <1>10 DEF WireMatchesRow

(***************************************************************************)
(* Every other step of the calls: dispatches stay as they are; no worker   *)
(* becomes active and no request appears; a request that is in flight may  *)
(* be received or refused.                                                 *)
(***************************************************************************)
Settling ==
  /\ dispatch_count' = dispatch_count
  /\ inFlight' \cup received' \subseteq inFlight \cup received
  /\ inFlight' \cap received' = {}
  /\ \A p \in Permits : /\ exec'[p] \notin {"none", "over"} => exec[p] \notin {"none", "over"}
                        /\ exec'[p] = "refused" => p \notin inFlight' \cup received'
                        /\ exec[p] = "over" => exec'[p] = "over"

LEMMA SettlingWire ==
  ASSUME WireMatchesRow, Settling
  PROVE  WireMatchesRow'
<1>1. \A c : Permit(c)' = Permit(c) BY DEF Settling, Permit
<1> QED BY <1>1 DEF WireMatchesRow, Settling

LEMMA WorkerSettles ==
  ASSUME DurableInv, NEW p \in Permits, WorkerStep(p)
  PROVE  Settling
<1>w. /\ inFlight \cap received = {}
      /\ \A q \in Permits : exec[q] = "refused" => q \notin inFlight \cup received
  BY DEF DurableInv, WireMatchesRow
<1>x. ASSUME NEW place, exec' = [exec EXCEPT ![p] = place]
      PROVE  \A q \in Permits : exec'[q] = IF q = p THEN place ELSE exec[q]
  BY <1>x DEF DurableInv, DurableTypeOK
<1>1. CASE Refuse(p)
  <2>1. /\ \A q \in Permits : exec'[q] = IF q = p THEN "refused" ELSE exec[q]
        /\ exec[p] = "calling" /\ p \in inFlight
        /\ inFlight' = inFlight \ {p} /\ received' = received
        /\ dispatch_count' = dispatch_count
    BY <1>1, <1>x DEF Refuse, rowVars
  <2> QED BY <2>1, <1>w DEF Settling
<1>2. CASE Receive(p)
  <2>1. /\ exec' = exec /\ p \in inFlight
        /\ inFlight' = inFlight \ {p} /\ received' = received \cup {p}
        /\ dispatch_count' = dispatch_count
    BY <1>2 DEF Receive, rowVars
  <2> QED BY <2>1, <1>w DEF Settling
<1>3. ASSUME NEW place, exec[p] # "none", exec[p] # "over" \/ place = "over",
             place # "refused", exec' = [exec EXCEPT ![p] = place],
             UNCHANGED <<dispatch_count, inFlight, received>>
      PROVE  Settling
  <2>1. \A q \in Permits : exec'[q] = IF q = p THEN place ELSE exec[q] BY <1>3, <1>x
  <2> QED BY <2>1, <1>3, <1>w DEF Settling
<1>4. CASE \E outcome \in Outcomes : Answer(p, outcome)
  BY <1>4, <1>3 DEF Answer, Outcomes, rowVars, wireVars
<1>5. CASE GiveUp(p) BY <1>5, <1>3 DEF GiveUp, rowVars, wireVars
<1>6. CASE Crash(p) BY <1>6, <1>3 DEF Crash, rowVars, wireVars
<1>7. CASE FinalizeSuccess(p)
  BY <1>7, <1>3 DEF FinalizeSuccess, SettleRow, Leave, wireVars
<1>8. CASE FinalizeWithoutPayload(p)
  BY <1>8, <1>3 DEF FinalizeWithoutPayload, SettleRow, Leave, wireVars
<1>9. CASE FinalizeRelease(p)
  BY <1>9, <1>3 DEF FinalizeRelease, ReleaseRow, Leave, wireVars
<1>10. CASE FinalizeUnknown(p)
  BY <1>10, <1>3 DEF FinalizeUnknown, Leave, wireVars
<1>11. CASE FinalizeTooLate(p)
  BY <1>11, <1>3 DEF FinalizeTooLate, Leave, Outcomes, rowVars, wireVars
<1>12. CASE FinalizeRaises(p)
  BY <1>12, <1>3 DEF FinalizeRaises, Leave, Outcomes, rowVars, wireVars
<1> QED
  BY <1>1, <1>2, <1>4, <1>5, <1>6, <1>7, <1>8, <1>9, <1>10, <1>11, <1>12 DEF WorkerStep

LEMMA OtherSettles ==
  ASSUME DurableInv, UNCHANGED <<dispatch_count, exec, inFlight, received>>
  PROVE  Settling
  BY DEF Settling, DurableInv, WireMatchesRow

(***************************************************************************)
(* A row that was not retryable becomes so only when its worker saw the    *)
(* refusal, and then nothing of the call is left.                          *)
(***************************************************************************)
LEMMA SettlingNotSent ==
  ASSUME DurableInv, Settling,
         \A c \in Calls : error_type'[c] = "definitely_not_sent" =>
           \/ error_type[c] = "definitely_not_sent" /\ status'[c] = status[c]
           \/ /\ status'[c] = "failed" /\ exec'[Permit(c)] = "over"
              /\ Permit(c) \in Permits /\ exec[Permit(c)] = "refused"
  PROVE  NotSentIsOver'
<1> SUFFICES ASSUME NEW c \in Calls, error_type'[c] = "definitely_not_sent"
             PROVE  /\ status'[c] = "failed" /\ exec'[Permit(c)'] = "over"
                    /\ Permit(c)' \notin inFlight' \cup received'
  BY DEF NotSentIsOver
<1>1. Permit(c)' = Permit(c) BY DEF Settling, Permit
<1>2. CASE error_type[c] = "definitely_not_sent" /\ status'[c] = status[c]
  <2>1. /\ status[c] = "failed" /\ exec[Permit(c)] = "over"
        /\ Permit(c) \notin inFlight \cup received
    BY <1>2 DEF DurableInv, NotSentIsOver
  <2>2. Permit(c) \in Permits BY <2>1, CurrentPermit DEF DurableInv
  <2> QED BY <1>1, <1>2, <2>1, <2>2 DEF Settling
<1>3. CASE /\ status'[c] = "failed" /\ exec'[Permit(c)] = "over"
           /\ Permit(c) \in Permits /\ exec[Permit(c)] = "refused"
  BY <1>1, <1>3 DEF DurableInv, WireMatchesRow, Settling
<1> QED BY <1>2, <1>3

LEMMA WorkerNotSent ==
  ASSUME DurableInv, NEW p \in Permits, WorkerStep(p)
  PROVE  NotSentIsOver'
<1> DEFINE c == p[1]
           Kept(b) == \/ error_type'[b] # "definitely_not_sent"
                      \/ error_type'[b] = error_type[b] /\ status'[b] = status[b]
<1>c. c \in Calls BY PermitShape
<1>t. DurableTypeOK /\ RowMatchesLedger BY DEF DurableInv
<1>s. Settling BY WorkerSettles
<1>1. ASSUME \A b \in Calls : Kept(b) PROVE NotSentIsOver'
  BY <1>1, <1>s, SettlingNotSent
<1>2. CASE UNCHANGED rowVars BY <1>2, <1>1 DEF rowVars
<1>3. ASSUME NEW error, error # "definitely_not_sent",
             error_type' = [error_type EXCEPT ![c] = error],
             \A b \in Calls : b # c => status'[b] = status[b]
      PROVE  NotSentIsOver'
  <2>1. \A b \in Calls : Kept(b) BY <1>3, <1>t DEF DurableTypeOK
  <2> QED BY <2>1, <1>1
<1>4. ASSUME NEW error, error # "definitely_not_sent", SettleRow(c, error)
      PROVE  NotSentIsOver'
  <2>1. \A b \in Calls : b # c => status'[b] = status[b]
    BY <1>4, <1>t DEF SettleRow, DurableTypeOK
  <2> QED BY <2>1, <1>3, <1>4 DEF SettleRow
<1>5. CASE FinalizeSuccess(p)
  <2>1. error_type[c] # "definitely_not_sent"
    BY <1>5, <1>c DEF FinalizeSuccess, RowTerminal, DurableInv, NotSentIsOver
  <2> QED BY <2>1, <1>4, <1>5 DEF FinalizeSuccess
<1>6. CASE FinalizeWithoutPayload(p) BY <1>6, <1>4 DEF FinalizeWithoutPayload
<1>7. CASE FinalizeRelease(p)
  <2>1. exec[p] \in {"refused", "failed"} /\ Leave(p) BY <1>7 DEF FinalizeRelease
  <2>2. p = Permit(c) BY <2>1 DEF DurableInv, WireMatchesRow
  <2>3. exec'[p] = "over" BY <2>1, <1>t DEF Leave, DurableTypeOK
  <2>4. /\ status' = [status EXCEPT ![c] = "failed"]
        /\ error_type' = [error_type EXCEPT ![c] =
             IF exec[p] = "refused" THEN "definitely_not_sent" ELSE "failed_confirmed"]
    BY <1>7 DEF FinalizeRelease, ReleaseRow
  <2>5. \A b \in Calls : b # c => Kept(b) BY <2>4, <1>t DEF DurableTypeOK
  <2>6. error_type'[c] = "definitely_not_sent" => status'[c] = "failed" /\ exec[p] = "refused"
    BY <2>4, <1>c, <1>t DEF DurableTypeOK
  <2> QED BY <2>2, <2>3, <2>5, <2>6, <1>s, SettlingNotSent
<1>8. CASE FinalizeUnknown(p)
  <2>1. \A b \in Calls : b # c => status'[b] = status[b]
    BY <1>8, <1>t DEF FinalizeUnknown, DurableTypeOK
  <2> QED BY <2>1, <1>3, <1>8 DEF FinalizeUnknown
<1> QED
  BY <1>2, <1>5, <1>6, <1>7, <1>8
     DEF WorkerStep, Refuse, Receive, GiveUp, Crash, Answer, FinalizeTooLate, FinalizeRaises

LEMMA CallWire ==
  ASSUME DurableInv, NEW c \in Calls, CallStep(c)
  PROVE  WireMatchesRow' /\ NotSentIsOver'
<1>t. DurableTypeOK /\ RowMatchesLedger /\ WireMatchesRow BY DEF DurableInv
<1>1. CASE PrepareNew(c)
  <2>1. dispatch_count[c] = 0 BY <1>1, <1>t DEF PrepareNew, RowMatchesLedger
  <2>2. \A p \in Permits : p[1] = c => p # Permit(c) BY <2>1, PermitShape DEF Permit
  <2>3. \A p \in inFlight \cup received : p[1] # c
    BY <2>2, <1>t DEF WireMatchesRow, DurableTypeOK
  <2>4. \A p \in Permits : p[1] = c => exec[p] \in {"none", "over"}
    BY <2>2, <1>t DEF WireMatchesRow
  <2>5. 1 \in {1, 2} /\ dispatch_count[c] = 1 - 1 /\ Start(<<c, 1>>)
    BY <1>1, <2>1 DEF PrepareNew
  <2> QED BY <2>3, <2>4, <2>5, StartWire
<1>2. CASE PrepareRetry(c)
  <2>1. /\ status[c] = "failed" /\ error_type[c] = "definitely_not_sent"
        /\ dispatch_count[c] < 2
    BY <1>2 DEF PrepareRetry, RetryAllowed
  <2>2. dispatch_count[c] = 1 BY <2>1, <1>t, CurrentPermit
  <2>3. exec[Permit(c)] = "over" /\ Permit(c) \notin inFlight \cup received
    BY <2>1 DEF DurableInv, NotSentIsOver
  <2>4. \A p \in inFlight \cup received : p[1] # c
    BY <2>3, <1>t DEF WireMatchesRow
  <2>5. \A p \in Permits : p[1] = c => exec[p] \in {"none", "over"}
    BY <2>3, <1>t DEF WireMatchesRow
  <2>6. 2 \in {1, 2} /\ dispatch_count[c] = 2 - 1 /\ Start(<<c, 2>>)
    BY <1>2, <2>2 DEF PrepareRetry
  <2> QED BY <2>4, <2>5, <2>6, StartWire
<1>3. ASSUME UNCHANGED <<dispatch_count, exec, inFlight, received>>,
             \A b \in Calls : \/ error_type'[b] # "definitely_not_sent"
                              \/ error_type'[b] = error_type[b] /\ status'[b] = status[b]
      PROVE  WireMatchesRow' /\ NotSentIsOver'
  <2>1. Settling BY <1>3, OtherSettles
  <2> QED BY <1>3, <1>t, <2>1, SettlingWire, SettlingNotSent
<1>4. CASE MigrateStuck(c)
  BY <1>4, <1>3, <1>t DEF MigrateStuck, DurableTypeOK, wireVars
<1>5. CASE KeepUnknown(c) \/ AdminKeepUnknown(c)
  BY <1>5, <1>3 DEF KeepUnknown, AdminKeepUnknown, wireVars
<1>6. CASE AdminConfirmSuccess(c)
  BY <1>6, <1>3, <1>t DEF AdminConfirmSuccess, SettleRow, DurableTypeOK, wireVars
<1>7. CASE AdminConfirmFailure(c)
  BY <1>7, <1>3, <1>t DEF AdminConfirmFailure, ReleaseRow, DurableTypeOK, wireVars
<1> QED BY <1>1, <1>2, <1>4, <1>5, <1>6, <1>7 DEF CallStep
-----------------------------------------------------------------------------
LEMMA DurableInvInit == DurableInit => DurableInv
<1> SUFFICES ASSUME DurableInit PROVE DurableInv OBVIOUS
<1>1. DurableTypeOK
  BY LedgerTypeInit DEF DurableInit, DurableTypeOK, Statuses, ErrorTypes
<1>2. RowMatchesLedger
  BY PermitShape DEF DurableInit, LedgerInit, RowMatchesLedger
<1>3. WireMatchesRow /\ NotSentIsOver
  BY DEF DurableInit, WireMatchesRow, NotSentIsOver
<1> QED BY <1>1, <1>2, <1>3 DEF DurableInv

LEMMA DurableInvStep == DurableInv /\ [DurableNext]_durableVars => DurableInv'
<1> SUFFICES ASSUME DurableInv, [DurableNext]_durableVars PROVE DurableInv' OBVIOUS
<1>1. DurableTypeOK' BY DurableTypeStep DEF DurableInv
<1>2. RowMatchesLedger' BY RowMatchesStep DEF DurableInv
<1>3. WireMatchesRow' /\ NotSentIsOver'
  <2>1. ASSUME NEW p \in Permits, WorkerStep(p) PROVE WireMatchesRow' /\ NotSentIsOver'
    BY <2>1, WorkerSettles, SettlingWire, WorkerNotSent DEF DurableInv
  <2>2. ASSUME NEW c \in Calls, CallStep(c) PROVE WireMatchesRow' /\ NotSentIsOver'
    BY <2>2, CallWire
  <2>3. ASSUME UNCHANGED callVars PROVE WireMatchesRow' /\ NotSentIsOver'
    BY <2>3, OtherSettles, SettlingWire, SettlingNotSent
       DEF callVars, rowVars, wireVars, DurableInv
  <2> QED BY <2>1, <2>2, <2>3 DEF DurableNext, durableVars
<1> QED BY <1>1, <1>2, <1>3 DEF DurableInv

(***************************************************************************)
(* In every behaviour of the calls, whatever crashes, comes late or is     *)
(* reconciled, DurableInv holds; the theorems below read it off.           *)
(***************************************************************************)
THEOREM DurableInvariant == DurableSpec => []DurableInv
  BY DurableInvInit, DurableInvStep, PTL DEF DurableSpec

(***************************************************************************)
(* The types of the call rows, workers and wire.                           *)
(***************************************************************************)
THEOREM DurableTypeCorrect == DurableSpec => []DurableTypeOK
<1>1. DurableInv => DurableTypeOK BY DEF DurableInv
<1> QED BY <1>1, DurableInvariant, PTL

(***************************************************************************)
(* The call row and the ledger rows agree after every transaction of the   *)
(* worker, the recovery loop and the admin.                                *)
(***************************************************************************)
THEOREM RowsMatchLedger == DurableSpec => []RowMatchesLedger
<1>1. DurableInv => RowMatchesLedger BY DEF DurableInv
<1> QED BY <1>1, DurableInvariant, PTL

(***************************************************************************)
(* At most one dispatch of a call ever reaches the upstream.               *)
(***************************************************************************)
THEOREM CallsAtMostOnce == DurableSpec => []AtMostOnce
<1>1. DurableInv => AtMostOnce
  <2> SUFFICES ASSUME DurableInv, NEW c \in Calls, <<c, 1>> \in received, <<c, 2>> \in received
               PROVE  FALSE
    BY DEF AtMostOnce
  <2>1. <<c, 1>> = Permit(c) /\ <<c, 2>> = Permit(c)
    BY DEF DurableInv, WireMatchesRow
  <2> QED BY <2>1 DEF Permit
<1> QED BY <1>1, DurableInvariant, PTL

(***************************************************************************)
(* Points returned as definitely_not_sent belong to a call of which no     *)
(* request has reached the upstream or can still reach it.                 *)
(***************************************************************************)
THEOREM NotSentIsNotSent == DurableSpec => []NotSentMeansNotSent
<1>1. DurableInv => NotSentMeansNotSent
  <2> SUFFICES ASSUME DurableInv, NEW c \in Calls, error_type[c] = "definitely_not_sent",
                      NEW p \in received \cup inFlight, p[1] = c
               PROVE  FALSE
    BY DEF NotSentMeansNotSent
  <2>1. Permit(c) \notin inFlight \cup received BY DEF DurableInv, NotSentIsOver
  <2>2. p = Permit(c) BY DEF DurableInv, WireMatchesRow
  <2> QED BY <2>1, <2>2
<1> QED BY <1>1, DurableInvariant, PTL

(***************************************************************************)
(* The calls use the ledger only as the ledger allows: every behaviour of  *)
(* the calls is a behaviour of the ledger, so the points are conserved     *)
(* under all their interleavings too.                                      *)
(***************************************************************************)
THEOREM DurableImplementsLedger == DurableSpec => LedgerSpec
<1>1. DurableInit => LedgerInit BY DEF DurableInit
<1>2. DurableInv /\ [DurableNext]_durableVars => [LedgerNext]_ledgerVars
  BY DurableLedgerStep DEF DurableInv
<1> QED BY <1>1, <1>2, DurableInvariant, PTL DEF DurableSpec, LedgerSpec

(***************************************************************************)
(* The points of the tenant add up, and the reserved column matches its    *)
(* rows, whatever workers, recovery loop and admin do to the calls.        *)
(***************************************************************************)
THEOREM DurableConserves == DurableSpec => [](WalletConserved /\ ReservedMatchesRows)
  BY DurableImplementsLedger, LedgerConserves, LedgerEscrow, PTL

(***************************************************************************)
(* The rows are well formed and agree with the ledger.                     *)
(***************************************************************************)
THEOREM DurableRowsAreTrue == DurableSpec => []RowsAreTrue
  BY DurableTypeCorrect, RowsMatchLedger, PTL DEF RowsAreTrue

(***************************************************************************)
(* What was refunded was not sent, and what was sent was sent once.        *)
(***************************************************************************)
THEOREM DurableCallIsSafe == DurableSpec => []CallIsSafe
  BY CallsAtMostOnce, NotSentIsNotSent, PTL DEF CallIsSafe
-----------------------------------------------------------------------------
(***************************************************************************)
(* A step moves the row of a call in one of six ways.                      *)
(***************************************************************************)
RowSame(c) == /\ status'[c] = status[c] /\ error_type'[c] = error_type[c]
              /\ dispatch_count'[c] = dispatch_count[c]
              /\ (c \in evidence' <=> c \in evidence)
RowOpens(c) == /\ status'[c] = "running" /\ (c \in evidence' <=> c \in evidence)
               /\ \/ status[c] = "absent" /\ dispatch_count'[c] = 1
                  \/ /\ status[c] = "failed" /\ error_type[c] = "definitely_not_sent"
                     /\ dispatch_count[c] = 1 /\ dispatch_count'[c] = 2
RowEnds(c) == /\ ~RowTerminal(c) /\ dispatch_count'[c] = dispatch_count[c]
              /\ \/ /\ status'[c] = "settled" /\ (c \in evidence' <=> c \in evidence)
                    /\ error_type'[c] \in {"succeeded_empty", "result_unavailable"}
                 \/ /\ status'[c] = "settled" /\ c \in evidence'
                    /\ exec[Permit(c)] = "payload" /\ Permit(c) \in Permits
                 \/ /\ status'[c] \in {"failed", "unknown"}
                    /\ (c \in evidence' <=> c \in evidence)

LEMMA WorkerMovesRow ==
  ASSUME DurableInv, NEW p \in Permits, WorkerStep(p), NEW b \in Calls
  PROVE  RowSame(b) \/ RowEnds(b)
<1> DEFINE c == p[1]
<1>c. c \in Calls BY PermitShape
<1>t. DurableTypeOK BY DEF DurableInv
<1>1. CASE UNCHANGED rowVars BY <1>1 DEF rowVars, RowSame
<1>2. ASSUME NEW s, NEW error, ~RowTerminal(c), UNCHANGED dispatch_count,
             status' = [status EXCEPT ![c] = s],
             error_type' = [error_type EXCEPT ![c] = error],
             evidence' = evidence \/ evidence' = evidence \cup {c},
             \/ s = "settled" /\ evidence' = evidence
                /\ error \in {"succeeded_empty", "result_unavailable"}
             \/ s = "settled" /\ evidence' = evidence \cup {c}
                /\ exec[Permit(c)] = "payload" /\ Permit(c) \in Permits
             \/ s \in {"failed", "unknown"} /\ evidence' = evidence
      PROVE  RowSame(b) \/ RowEnds(b)
  <2>1. CASE b = c
    <3>1. status'[c] = s /\ error_type'[c] = error BY <1>2, <1>c, <1>t DEF DurableTypeOK
    <3> QED BY <1>2, <2>1, <3>1 DEF RowEnds
  <2>2. CASE b # c
    <3>1. status'[b] = status[b] /\ error_type'[b] = error_type[b]
      BY <1>2, <2>2, <1>t DEF DurableTypeOK
    <3> QED BY <1>2, <2>2, <3>1 DEF RowSame
  <2> QED BY <2>1, <2>2
<1>3. CASE FinalizeSuccess(p)
  <2>1. exec[p] = "payload" /\ p = Permit(c)
    BY <1>3 DEF FinalizeSuccess, DurableInv, WireMatchesRow
  <2>2. CASE SettleRow(c, error_type[c]) /\ evidence' = evidence \cup {c}
    BY <1>3, <2>1, <2>2, <1>2 DEF FinalizeSuccess, SettleRow
  <2>3. CASE SettleRow(c, "result_unavailable") /\ UNCHANGED evidence
    BY <1>3, <2>3, <1>2 DEF FinalizeSuccess, SettleRow
  <2> QED BY <1>3, <2>2, <2>3 DEF FinalizeSuccess
<1>4. CASE FinalizeWithoutPayload(p)
  BY <1>4, <1>2 DEF FinalizeWithoutPayload, SettleRow
<1>5. CASE FinalizeRelease(p) BY <1>5, <1>2 DEF FinalizeRelease, ReleaseRow
<1>6. CASE FinalizeUnknown(p) BY <1>6, <1>2 DEF FinalizeUnknown
<1> QED
  BY <1>1, <1>3, <1>4, <1>5, <1>6
     DEF WorkerStep, Refuse, Receive, GiveUp, Crash, Answer, FinalizeTooLate, FinalizeRaises

LEMMA CallMovesRow ==
  ASSUME DurableInv, NEW c \in Calls, CallStep(c), NEW b \in Calls
  PROVE  RowSame(b) \/ RowOpens(b) \/ RowEnds(b)
<1>t. DurableTypeOK /\ RowMatchesLedger BY DEF DurableInv
<1>1. ASSUME NEW k \in {1, 2}, Start(<<c, k>>),
             \/ status[c] = "absent" /\ k = 1
             \/ /\ status[c] = "failed" /\ error_type[c] = "definitely_not_sent"
                /\ dispatch_count[c] = 1 /\ k = 2
      PROVE  RowSame(b) \/ RowOpens(b)
  <2>1. /\ status' = [status EXCEPT ![c] = "running"]
        /\ dispatch_count' = [dispatch_count EXCEPT ![c] = k]
        /\ error_type' = [error_type EXCEPT ![c] = "none"] /\ evidence' = evidence
    BY <1>1 DEF Start
  <2> QED BY <1>1, <2>1, <1>t DEF DurableTypeOK, RowSame, RowOpens
<1>2. CASE PrepareNew(c) BY <1>2, <1>1 DEF PrepareNew
<1>3. CASE PrepareRetry(c)
  <2>1. /\ status[c] = "failed" /\ error_type[c] = "definitely_not_sent"
        /\ dispatch_count[c] < 2 /\ Start(<<c, 2>>)
    BY <1>3 DEF PrepareRetry, RetryAllowed
  <2>2. dispatch_count[c] = 1 BY <2>1, <1>t, CurrentPermit
  <2> QED BY <2>1, <2>2, <1>1
<1>4. CASE MigrateStuck(c)
  BY <1>4, <1>t DEF MigrateStuck, Stuck, DurableTypeOK, RowTerminal, RowSame, RowEnds
<1>5. CASE KeepUnknown(c) \/ AdminKeepUnknown(c)
  BY <1>5 DEF KeepUnknown, AdminKeepUnknown, RowSame
<1>6. CASE AdminConfirmSuccess(c)
  BY <1>6, <1>t
     DEF AdminConfirmSuccess, AdminMay, SettleRow, DurableTypeOK, RowTerminal, RowSame, RowEnds
<1>7. CASE AdminConfirmFailure(c)
  BY <1>7, <1>t
     DEF AdminConfirmFailure, AdminMay, ReleaseRow, DurableTypeOK, RowTerminal, RowSame, RowEnds
<1> QED BY <1>2, <1>3, <1>4, <1>5, <1>6, <1>7 DEF CallStep

LEMMA StepMovesRow ==
  ASSUME DurableInv, [DurableNext]_durableVars, NEW b \in Calls
  PROVE  RowSame(b) \/ RowOpens(b) \/ RowEnds(b)
<1>1. ASSUME UNCHANGED callVars PROVE RowSame(b)
  BY <1>1 DEF callVars, rowVars, RowSame
<1> QED BY <1>1, WorkerMovesRow, CallMovesRow DEF DurableNext, durableVars

(***************************************************************************)
(* A settled or failed row is never changed again by a late worker, the    *)
(* recovery loop or the admin, but for the one retry of a call that was    *)
(* definitely not sent.                                                    *)
(***************************************************************************)
THEOREM DurableTerminalIsFinal == DurableSpec => TerminalIsFinal
<1>1. DurableInv /\ [DurableNext]_durableVars => RowsStayFinal
  <2> SUFFICES ASSUME DurableInv, [DurableNext]_durableVars,
                      NEW c \in Calls, RowTerminal(c)
               PROVE  \/ status'[c] = status[c] /\ error_type'[c] = error_type[c]
                      \/ /\ error_type[c] = "definitely_not_sent" /\ dispatch_count[c] = 1
                         /\ status'[c] = "running" /\ dispatch_count'[c] = 2
    BY DEF RowsStayFinal, RowTerminal
  <2> QED BY StepMovesRow DEF RowSame, RowOpens, RowEnds, RowTerminal
<1> QED BY <1>1, DurableInvariant, PTL DEF DurableSpec, TerminalIsFinal
-----------------------------------------------------------------------------
(***************************************************************************)
(* An outcome was read from an answer, so its request had arrived.         *)
(***************************************************************************)
AnswerWasReceived == \A p \in Permits : exec[p] \in Outcomes => p \in received

ReplayInv == DurableInv /\ AnswerWasReceived /\ SettledReplayable

LEMMA StepMovesWire ==
  ASSUME DurableTypeOK, [DurableNext]_durableVars, NEW p \in Permits
  PROVE  /\ received \subseteq received'
         /\ exec'[p] \in Outcomes => exec'[p] = exec[p] \/ p \in received
<1>1. ASSUME NEW q \in Permits, WorkerStep(q)
      PROVE  /\ received \subseteq received'
             /\ exec'[p] \in Outcomes => exec'[p] = exec[p] \/ p \in received
  <2>1. CASE Refuse(q) \/ Receive(q) \/ GiveUp(q) \/ Crash(q)
    BY <2>1 DEF Refuse, Receive, GiveUp, Crash, wireVars, Outcomes, DurableTypeOK
  <2>2. ASSUME NEW outcome \in Outcomes, Answer(q, outcome)
        PROVE  /\ received \subseteq received'
               /\ exec'[p] \in Outcomes => exec'[p] = exec[p] \/ p \in received
    BY <2>2 DEF Answer, wireVars, DurableTypeOK
  <2>3. CASE Leave(q) BY <2>3 DEF Leave, wireVars, Outcomes, DurableTypeOK
  <2> QED
    BY <1>1, <2>1, <2>2, <2>3
       DEF WorkerStep, FinalizeSuccess, FinalizeWithoutPayload, FinalizeRelease,
           FinalizeUnknown, FinalizeTooLate, FinalizeRaises
<1>2. ASSUME NEW c \in Calls, CallStep(c)
      PROVE  /\ received \subseteq received'
             /\ exec'[p] \in Outcomes => exec'[p] = exec[p] \/ p \in received
  <2>1. CASE PrepareNew(c) \/ PrepareRetry(c)
    BY <2>1 DEF PrepareNew, PrepareRetry, Start, Outcomes, DurableTypeOK
  <2> QED
    BY <1>2, <2>1
       DEF CallStep, MigrateStuck, KeepUnknown, AdminConfirmSuccess, AdminConfirmFailure,
           AdminKeepUnknown, wireVars
<1>3. ASSUME UNCHANGED callVars
      PROVE  received \subseteq received' /\ exec'[p] = exec[p]
  BY <1>3 DEF callVars, wireVars
<1> QED BY <1>1, <1>2, <1>3 DEF DurableNext, durableVars

LEMMA ReplayStep == ReplayInv /\ [DurableNext]_durableVars => ReplayInv'
<1> SUFFICES ASSUME ReplayInv, [DurableNext]_durableVars PROVE ReplayInv' OBVIOUS
<1>t. DurableInv /\ DurableTypeOK BY DEF ReplayInv, DurableInv
<1>1. DurableInv' BY <1>t, DurableInvStep
<1>2. AnswerWasReceived'
  BY <1>t, StepMovesWire DEF ReplayInv, AnswerWasReceived
<1>3. SettledReplayable'
  <2> SUFFICES ASSUME NEW c \in Calls
               PROVE  /\ status'[c] = "settled" /\ c \notin evidence'
                           => error_type'[c] \in {"succeeded_empty", "result_unavailable"}
                      /\ c \in evidence' => status'[c] = "settled" /\ Permit(c)' \in received'
    BY DEF SettledReplayable
  <2>0. /\ status[c] = "settled" /\ c \notin evidence
             => error_type[c] \in {"succeeded_empty", "result_unavailable"}
        /\ c \in evidence => status[c] = "settled" /\ Permit(c) \in received
    BY DEF ReplayInv, SettledReplayable
  <2>1. CASE RowSame(c)
    <3>1. <<c, 1>> \in Permits BY PermitShape
    <3>2. received \subseteq received' BY <1>t, <3>1, StepMovesWire
    <3>3. Permit(c)' = Permit(c) BY <2>1 DEF RowSame, Permit
    <3> QED BY <2>0, <2>1, <3>2, <3>3 DEF RowSame
  <2>2. CASE RowOpens(c) BY <2>0, <2>2 DEF RowOpens
  <2>3. CASE RowEnds(c)
    <3>1. c \notin evidence BY <2>0, <2>3 DEF RowEnds, RowTerminal
    <3>2. Permit(c)' = Permit(c) BY <2>3 DEF RowEnds, Permit
    <3>3. ASSUME exec[Permit(c)] = "payload", Permit(c) \in Permits
          PROVE  Permit(c) \in received'
      <4>1. Permit(c) \in received
        BY <3>3 DEF ReplayInv, AnswerWasReceived, Outcomes
      <4> QED BY <1>t, <3>3, <4>1, StepMovesWire
    <3> QED BY <2>3, <3>1, <3>2, <3>3 DEF RowEnds
  <2> QED BY <1>t, <2>1, <2>2, <2>3, StepMovesRow
<1> QED BY <1>1, <1>2, <1>3 DEF ReplayInv

(***************************************************************************)
(* A settled call can be replayed, and evidence belongs to a call that was *)
(* charged and received, whoever finalised the row.                        *)
(***************************************************************************)
THEOREM DurableReplayable == DurableSpec => []SettledReplayable
<1>1. DurableInit => ReplayInv
  <2> SUFFICES ASSUME DurableInit PROVE AnswerWasReceived /\ SettledReplayable
    BY DurableInvInit DEF ReplayInv
  <2> QED BY DEF DurableInit, AnswerWasReceived, SettledReplayable, Outcomes
<1>2. ReplayInv => SettledReplayable BY DEF ReplayInv
<1> QED BY <1>1, <1>2, ReplayStep, PTL DEF DurableSpec
-----------------------------------------------------------------------------
(***************************************************************************)
(* The durable tool call keeps the contract of a tool call: the refinement *)
(* is proved step by step, on the states of DurableInv.                    *)
(***************************************************************************)

(***************************************************************************)
(* The contract's variables, told by the call rows and the wire.           *)
(***************************************************************************)
StatusBill(s) ==
  IF s = "settled" THEN "charged"
  ELSE IF s \in {"running", "unknown"} THEN "held"
  ELSE IF s = "failed" THEN "refunded" ELSE "none"

RowBill      == [c \in Calls |-> StatusBill(status[c])]
RowRetried   == {c \in Calls : dispatch_count[c] = 2}
RowDelivered == [c \in Calls |-> IF Permit(c) \in received THEN 1 ELSE 0]

ContractIsRow ==
  /\ [c \in Calls |-> BillOf(c)] = RowBill
  /\ {c \in Calls : <<c, 2>> \in reserves} = RowRetried
  /\ [c \in Calls |-> Cardinality({p \in received : p[1] = c})] = RowDelivered

LEMMA BillOfRow ==
  ASSUME DurableTypeOK, RowMatchesLedger, NEW c \in Calls
  PROVE  BillOf(c) = StatusBill(status[c])
<1>0. Permit(c)[1] = c /\ Permit(c)[2] = dispatch_count[c] BY DEF Permit
<1>d. dispatch_count[c] \in 0..2 BY DEF DurableTypeOK
<1>1. (\E p \in settles : p[1] = c) <=> status[c] = "settled"
  <2>1. ASSUME NEW p \in settles, p[1] = c PROVE status[c] = "settled"
    BY <2>1 DEF RowMatchesLedger
  <2>2. ASSUME status[c] = "settled" PROVE Permit(c) \in settles
    BY <2>2, <1>0, CurrentPermit DEF RowMatchesLedger
  <2> QED BY <2>1, <2>2, <1>0
<1>2. status[c] = "absent" => ~\E p \in reserves : p[1] = c
  <2> SUFFICES ASSUME status[c] = "absent", NEW p \in reserves, p[1] = c PROVE FALSE
    OBVIOUS
  <2>1. p \in Permits /\ p[2] <= dispatch_count[c] /\ dispatch_count[c] = 0
    BY DEF RowMatchesLedger
  <2> QED BY <2>1, PermitShape
<1>3. status[c] \in {"running", "unknown"} => Permit(c) \in reserves \ releases
  BY <1>0, <1>d, CurrentPermit DEF RowMatchesLedger
<1>4. status[c] = "failed" =>
        /\ Permit(c) \in reserves
        /\ ~\E p \in reserves \ releases : p[1] = c
  <2> SUFFICES ASSUME status[c] = "failed", NEW p \in reserves, p[1] = c
               PROVE  p \in releases
    BY CurrentPermit
  <2>1. p \in Permits /\ p[2] <= dispatch_count[c] BY DEF RowMatchesLedger
  <2>2. p = <<c, p[2]>> /\ p[2] \in {1, 2} BY <2>1, PermitShape
  <2>3. p[2] < dispatch_count[c] \/ p = Permit(c) BY <2>1, <2>2, <1>d DEF Permit
  <2> QED BY <2>1, <2>3 DEF RowMatchesLedger
<1>5. status[c] \in Statuses BY DEF DurableTypeOK
<1> QED BY <1>0, <1>1, <1>2, <1>3, <1>4, <1>5 DEF BillOf, StatusBill, Statuses

LEMMA ContractShape == DurableInv => ContractIsRow
<1> SUFFICES ASSUME DurableInv PROVE ContractIsRow OBVIOUS
<1>t. DurableTypeOK /\ RowMatchesLedger /\ WireMatchesRow BY DEF DurableInv
<1>1. [c \in Calls |-> BillOf(c)] = RowBill BY <1>t, BillOfRow DEF RowBill
<1>2. {c \in Calls : <<c, 2>> \in reserves} = RowRetried
  <2> SUFFICES ASSUME NEW c \in Calls
               PROVE  <<c, 2>> \in reserves <=> dispatch_count[c] = 2
    BY DEF RowRetried
  <2>1. <<c, 2>> \in Permits /\ dispatch_count[c] \in 0..2
    BY <1>t, PermitShape DEF DurableTypeOK
  <2> QED BY <1>t, <2>1 DEF RowMatchesLedger
<1>3. ASSUME NEW c \in Calls
      PROVE  Cardinality({p \in received : p[1] = c})
               = IF Permit(c) \in received THEN 1 ELSE 0
  <2>1. Permit(c)[1] = c BY DEF Permit
  <2>2. \A p \in received : p[1] = c => p = Permit(c) BY <1>t DEF WireMatchesRow
  <2>3. CASE Permit(c) \in received
    <3>1. {p \in received : p[1] = c} = {Permit(c)} BY <2>1, <2>2, <2>3
    <3> QED BY <2>3, <3>1, FS_Singleton
  <2>4. CASE Permit(c) \notin received
    <3>1. {p \in received : p[1] = c} = {} BY <2>2, <2>4
    <3> QED BY <2>4, <3>1, FS_EmptySet
  <2> QED BY <2>3, <2>4
<1>4. [c \in Calls |-> Cardinality({p \in received : p[1] = c})] = RowDelivered
  BY <1>3 DEF RowDelivered
<1> QED BY <1>1, <1>2, <1>4 DEF ContractIsRow

-----------------------------------------------------------------------------
(***************************************************************************)
(* Each transaction and each arrival is one step of the contract.          *)
(***************************************************************************)
RowStays == UNCHANGED <<RowBill, RowRetried, RowDelivered>>

RowCloses(c, s) ==
  /\ RowBill[c] = "held" /\ RowBill' = [RowBill EXCEPT ![c] = s]
  /\ UNCHANGED <<RowRetried, RowDelivered>>

RowArrives(c) ==
  /\ RowBill[c] # "none" /\ RowDelivered[c] = 0
  /\ RowDelivered' = [RowDelivered EXCEPT ![c] = 1]
  /\ UNCHANGED <<RowBill, RowRetried>>

RowIsHeld(c) ==
  /\ RowBill[c] = "none" /\ RowBill' = [RowBill EXCEPT ![c] = "held"]
  /\ UNCHANGED <<RowRetried, RowDelivered>>

RowIsHeldAgain(c) ==
  /\ RowBill[c] = "refunded" /\ RowDelivered[c] = 0 /\ c \notin RowRetried
  /\ RowBill' = [RowBill EXCEPT ![c] = "held"]
  /\ RowRetried' = RowRetried \cup {c} /\ RowDelivered' = RowDelivered

RowMoves(c) ==
  \/ RowStays \/ RowArrives(c) \/ RowIsHeld(c) \/ RowIsHeldAgain(c)
  \/ \E s \in {"charged", "refunded"} : RowCloses(c, s)

LEMMA SameRow ==
  ASSUME UNCHANGED <<status, dispatch_count, received>> PROVE RowStays
  BY DEF RowStays, RowBill, RowRetried, RowDelivered, Permit

LEMMA OpenRowStays ==
  ASSUME DurableTypeOK, NEW c \in Calls, status[c] \in {"running", "unknown"},
         status' = [status EXCEPT ![c] = "unknown"], UNCHANGED <<dispatch_count, received>>
  PROVE  RowStays
<1>1. RowBill' = RowBill
  <2>1. \A b \in Calls : StatusBill(status'[b]) = StatusBill(status[b])
    BY DEF DurableTypeOK, StatusBill
  <2> QED BY <2>1 DEF RowBill
<1> QED BY <1>1 DEF RowStays, RowRetried, RowDelivered, Permit

LEMMA RowIsClosed ==
  ASSUME DurableTypeOK, NEW c \in Calls, status[c] \in {"running", "unknown"},
         NEW s \in {"settled", "failed"}, status' = [status EXCEPT ![c] = s],
         UNCHANGED <<dispatch_count, received>>
  PROVE  \E b \in {"charged", "refunded"} : RowCloses(c, b)
<1>1. StatusBill(status[c]) = "held" /\ StatusBill(s) \in {"charged", "refunded"}
  BY DEF StatusBill
<1>2. RowBill' = [RowBill EXCEPT ![c] = StatusBill(s)]
  BY DEF DurableTypeOK, RowBill
<1>3. UNCHANGED <<RowRetried, RowDelivered>> BY DEF RowRetried, RowDelivered, Permit
<1> QED BY <1>1, <1>2, <1>3 DEF RowCloses, RowBill

LEMMA RowIsStarted ==
  ASSUME DurableInv, NEW c \in Calls, NEW k \in {1, 2}, dispatch_count[c] = k - 1,
         Permit(c) \notin received, Start(<<c, k>>)
  PROVE  /\ RowBill' = [RowBill EXCEPT ![c] = "held"]
         /\ RowRetried' = IF k = 2 THEN RowRetried \cup {c} ELSE RowRetried
         /\ RowDelivered' = RowDelivered /\ RowDelivered[c] = 0
<1>t. DurableTypeOK /\ WireMatchesRow BY DEF DurableInv
<1>1. /\ status' = [status EXCEPT ![c] = "running"] /\ received' = received
      /\ dispatch_count' = [dispatch_count EXCEPT ![c] = k]
  BY DEF Start
<1>2. \A b \in Calls : dispatch_count'[b] = IF b = c THEN k ELSE dispatch_count[b]
  BY <1>1, <1>t DEF DurableTypeOK
<1>3. <<c, k>> \notin received
  <2> SUFFICES ASSUME <<c, k>> \in received PROVE FALSE OBVIOUS
  <2>1. <<c, k>> = Permit(c) BY <1>t DEF WireMatchesRow
  <2> QED BY <2>1 DEF Permit
<1>4. RowBill' = [RowBill EXCEPT ![c] = "held"]
  BY <1>1, <1>t DEF DurableTypeOK, RowBill, StatusBill
<1>5. RowRetried' = IF k = 2 THEN RowRetried \cup {c} ELSE RowRetried
  BY <1>2 DEF RowRetried
<1>6. RowDelivered' = RowDelivered /\ RowDelivered[c] = 0
  <2>1. \A b \in Calls : (Permit(b) \in received)' <=> Permit(b) \in received
    BY <1>1, <1>2, <1>3 DEF Permit
  <2> QED BY <2>1 DEF RowDelivered
<1> QED BY <1>4, <1>5, <1>6

LEMMA WorkerMoves ==
  ASSUME DurableInv, NEW p \in Permits, WorkerStep(p)
  PROVE  RowMoves(p[1])
<1> DEFINE c == p[1]
<1>c. c \in Calls BY PermitShape
<1>t. DurableTypeOK /\ RowMatchesLedger /\ WireMatchesRow BY DEF DurableInv
<1>1. CASE UNCHANGED <<rowVars, received>>
  BY <1>1, SameRow DEF rowVars, RowMoves
<1>2. CASE Receive(p)
  <2>1. p = Permit(c) /\ p \notin received BY <1>2, <1>t DEF Receive, WireMatchesRow
  <2>2. status[c] # "absent"
    BY <2>1, <1>c, <1>t, PermitShape DEF Permit, RowMatchesLedger
  <2>3. UNCHANGED <<status, dispatch_count>> /\ received' = received \cup {p}
    BY <1>2 DEF Receive, rowVars
  <2>4. \A b \in Calls : Permit(b)' = Permit(b) /\ (Permit(b) = p <=> b = c)
    BY <2>1, <2>3 DEF Permit
  <2>5. RowDelivered[c] = 0 /\ RowDelivered' = [RowDelivered EXCEPT ![c] = 1]
    BY <2>1, <2>3, <2>4, <1>c DEF RowDelivered
  <2>6. RowBill[c] # "none" BY <2>2, <1>c, <1>t DEF RowBill, StatusBill, DurableTypeOK, Statuses
  <2>7. UNCHANGED <<RowBill, RowRetried>> BY <2>3 DEF RowBill, RowRetried
  <2> QED BY <2>5, <2>6, <2>7 DEF RowArrives, RowMoves
<1>3. ASSUME NEW error, ~RowTerminal(c), SettleRow(c, error), UNCHANGED received
      PROVE  RowMoves(c)
  <2>1. Permit(c) \in reserves BY <1>3 DEF SettleRow, SettlePermit
  <2>2. status[c] \in {"running", "unknown"} BY <2>1, <1>3, <1>c, <1>t, OpenRow
  <2>3. status' = [status EXCEPT ![c] = "settled"] /\ UNCHANGED <<dispatch_count, received>>
    BY <1>3 DEF SettleRow
  <2> QED BY <2>2, <2>3, <1>c, <1>t, RowIsClosed DEF RowMoves
<1>4. ASSUME NEW error, ~RowTerminal(c), ReleaseRow(c, error), UNCHANGED received
      PROVE  RowMoves(c)
  <2>1. Permit(c) \in reserves BY <1>4 DEF ReleaseRow, ReleasePermit
  <2>2. status[c] \in {"running", "unknown"} BY <2>1, <1>4, <1>c, <1>t, OpenRow
  <2>3. status' = [status EXCEPT ![c] = "failed"] /\ UNCHANGED <<dispatch_count, received>>
    BY <1>4 DEF ReleaseRow
  <2> QED BY <2>2, <2>3, <1>c, <1>t, RowIsClosed DEF RowMoves
<1>5. CASE FinalizeUnknown(p)
  <2>1. ~RowTerminal(c) /\ Permit(c) \in reserves BY <1>5 DEF FinalizeUnknown, MarkUnknown
  <2>2. status[c] \in {"running", "unknown"} BY <2>1, <1>c, <1>t, OpenRow
  <2>3. status' = [status EXCEPT ![c] = "unknown"] /\ UNCHANGED <<dispatch_count, received>>
    BY <1>5 DEF FinalizeUnknown, Leave, wireVars
  <2> QED BY <2>2, <2>3, <1>c, <1>t, OpenRowStays DEF RowMoves
<1>6. CASE FinalizeSuccess(p)
  BY <1>6, <1>3 DEF FinalizeSuccess, Leave, wireVars
<1>7. CASE FinalizeWithoutPayload(p)
  BY <1>7, <1>3 DEF FinalizeWithoutPayload, Leave, wireVars
<1>8. CASE FinalizeRelease(p)
  BY <1>8, <1>4 DEF FinalizeRelease, Leave, wireVars
<1> QED
  BY <1>1, <1>2, <1>5, <1>6, <1>7, <1>8
     DEF WorkerStep, Refuse, GiveUp, Crash, Answer, FinalizeTooLate, FinalizeRaises, Leave,
         wireVars

LEMMA CallMoves ==
  ASSUME DurableInv, NEW c \in Calls, CallStep(c)
  PROVE  RowMoves(c)
<1>t. DurableTypeOK /\ RowMatchesLedger /\ WireMatchesRow BY DEF DurableInv
<1>1. CASE PrepareNew(c)
  <2>1. status[c] = "absent" /\ Start(<<c, 1>>) BY <1>1 DEF PrepareNew
  <2>2. dispatch_count[c] = 1 - 1 BY <2>1, <1>t DEF RowMatchesLedger
  <2>3. Permit(c) \notin received
    BY SMTT(15), <2>2, <1>t, PermitShape DEF Permit, DurableTypeOK
  <2>4. 1 \in {1, 2} OBVIOUS
  <2>5. /\ RowBill' = [RowBill EXCEPT ![c] = "held"]
        /\ RowRetried' = IF 1 = 2 THEN RowRetried \cup {c} ELSE RowRetried
        /\ RowDelivered' = RowDelivered
    BY <2>1, <2>2, <2>3, <2>4, RowIsStarted, Zenon
  <2>6. RowBill[c] = "none" BY <2>1 DEF RowBill, StatusBill
  <2> QED BY <2>5, <2>6 DEF RowIsHeld, RowMoves
<1>2. CASE PrepareRetry(c)
  <2>1. /\ status[c] = "failed" /\ error_type[c] = "definitely_not_sent"
        /\ dispatch_count[c] < 2 /\ Start(<<c, 2>>)
    BY <1>2 DEF PrepareRetry, RetryAllowed
  <2>2. dispatch_count[c] = 2 - 1 BY <2>1, <1>t, CurrentPermit
  <2>3. Permit(c) \notin received BY <2>1 DEF DurableInv, NotSentIsOver
  <2>4. 2 \in {1, 2} OBVIOUS
  <2>5. /\ RowBill' = [RowBill EXCEPT ![c] = "held"]
        /\ RowRetried' = RowRetried \cup {c}
        /\ RowDelivered' = RowDelivered /\ RowDelivered[c] = 0
    BY <2>1, <2>2, <2>3, <2>4, RowIsStarted
  <2>6. RowBill[c] = "refunded" /\ c \notin RowRetried
    BY <2>1, <2>2 DEF RowBill, StatusBill, RowRetried
  <2> QED BY <2>5, <2>6 DEF RowIsHeldAgain, RowMoves
<1>3. CASE MigrateStuck(c)
  <2>1. status[c] \in {"running", "unknown"} /\ UNCHANGED <<dispatch_count, received>>
        /\ status' = [status EXCEPT ![c] = "unknown"]
    BY <1>3 DEF MigrateStuck, Stuck, wireVars
  <2> QED BY <2>1, <1>t, OpenRowStays DEF RowMoves
<1>4. CASE KeepUnknown(c) \/ AdminKeepUnknown(c)
  <2>1. UNCHANGED <<status, dispatch_count, received>>
    BY <1>4 DEF KeepUnknown, AdminKeepUnknown, wireVars
  <2> QED BY <2>1, SameRow DEF RowMoves
<1>5. CASE AdminConfirmSuccess(c) \/ AdminConfirmFailure(c)
  <2>1. status[c] \in {"running", "unknown"} /\ UNCHANGED <<dispatch_count, received>>
        /\ \E s \in {"settled", "failed"} : status' = [status EXCEPT ![c] = s]
    BY <1>5
       DEF AdminConfirmSuccess, AdminConfirmFailure, AdminMay, SettleRow, ReleaseRow, wireVars
  <2> QED BY <2>1, <1>t, RowIsClosed DEF RowMoves
<1> QED BY <1>1, <1>2, <1>3, <1>4, <1>5 DEF CallStep

LEMMA ContractStep ==
  ASSUME DurableInv, ContractIsRow, ContractIsRow', [DurableNext]_durableVars
  PROVE  [Contract!ContractNext]_(Contract!contractVars)
<1>1. ASSUME NEW c \in Calls, RowMoves(c)
      PROVE  [Contract!ContractNext]_(Contract!contractVars)
  <2> DEFINE bill == [b \in Calls |-> BillOf(b)]
             retried == {b \in Calls : <<b, 2>> \in reserves}
             delivered == [b \in Calls |-> Cardinality({p \in received : p[1] = b})]
  <2>0. /\ bill = RowBill /\ retried = RowRetried /\ delivered = RowDelivered
        /\ bill' = RowBill' /\ retried' = RowRetried' /\ delivered' = RowDelivered'
    BY DEF ContractIsRow
  <2>1. CASE RowStays
    BY <2>0, <2>1 DEF RowStays, Contract!contractVars
  <2>2. CASE RowArrives(c)
    <3>1. Contract!Deliver(c) BY <2>0, <2>2 DEF RowArrives, Contract!Deliver
    <3> QED BY <3>1 DEF Contract!ContractNext
  <2>3. CASE RowIsHeld(c)
    <3>1. Contract!Hold(c) BY <2>0, <2>3 DEF RowIsHeld, Contract!Hold
    <3> QED BY <3>1 DEF Contract!ContractNext
  <2>4. CASE RowIsHeldAgain(c)
    <3>1. Contract!HoldAgain(c) BY <2>0, <2>4 DEF RowIsHeldAgain, Contract!HoldAgain
    <3> QED BY <3>1 DEF Contract!ContractNext
  <2>5. CASE \E s \in {"charged", "refunded"} : RowCloses(c, s)
    <3>1. Contract!Charge(c) \/ Contract!Refund(c)
      BY <2>0, <2>5 DEF RowCloses, Contract!Charge, Contract!Refund
    <3> QED BY <3>1 DEF Contract!ContractNext
  <2> QED BY <1>1, <2>1, <2>2, <2>3, <2>4, <2>5 DEF RowMoves
<1>2. ASSUME RowStays PROVE UNCHANGED Contract!contractVars
  BY <1>2 DEF RowStays, ContractIsRow, Contract!contractVars
<1>3. ASSUME UNCHANGED callVars PROVE RowStays
  BY <1>3, SameRow DEF callVars, rowVars, wireVars
<1>4. ASSUME NEW p \in Permits, WorkerStep(p)
      PROVE  [Contract!ContractNext]_(Contract!contractVars)
  <2>1. p[1] \in Calls BY PermitShape
  <2> QED BY <1>1, <1>4, <2>1, WorkerMoves
<1> QED BY <1>1, <1>2, <1>3, <1>4, CallMoves DEF DurableNext, durableVars

(***************************************************************************)
(* The contract is kept: whatever is retried, crashed, given up,           *)
(* reconciled or refused, every call's points are held before a request    *)
(* goes out, the upstream gets at most one request, and the hold ends in   *)
(* one charge, which is final, or in a refund.                             *)
(***************************************************************************)
THEOREM DurableKeepsContract == DurableSpec => KeepsContract
<1>1. DurableInit => Contract!ContractInit
  <2> SUFFICES ASSUME DurableInit PROVE Contract!ContractInit OBVIOUS
  <2>1. ContractIsRow BY DurableInvInit, ContractShape
  <2>2. /\ \A c \in Calls : status[c] = "absent" /\ dispatch_count[c] = 0
        /\ received = {}
    BY DEF DurableInit
  <2> QED
    BY <2>1, <2>2
       DEF ContractIsRow, RowBill, RowRetried, RowDelivered, StatusBill, Contract!ContractInit
<1>2. DurableInv /\ DurableInv' /\ [DurableNext]_durableVars
        => [Contract!ContractNext]_(Contract!contractVars)
  <2>1. DurableInv' => ContractIsRow' BY ContractShape, PTL
  <2> QED BY <2>1, ContractShape, ContractStep
<1> QED
  BY <1>1, <1>2, DurableInvariant, PTL
     DEF DurableSpec, KeepsContract, Contract!ContractSpec
=============================================================================
