--------------------------- MODULE DurableToolCall ---------------------------
(***************************************************************************)
(* One MCP tool call of the "current" runtime, from the model asking for   *)
(* it to its points being charged or returned:                             *)
(*   - the executions of the call by workers (AgentMcpTool.execute): the   *)
(*     row and the reservation are committed, then the request goes out,   *)
(*     then one of the finalize transactions commits the outcome           *)
(*     (agent_runtime/tools/mcp.py, DurableToolCallCoordinator);           *)
(*   - the recovery loop (agent_runtime/recovery.py);                      *)
(*   - the admin's reconciliation (admin/service.py).                      *)
(* All of them write the call row and the tenant's ledger, each in one     *)
(* transaction that locks the call row; between two transactions anything  *)
(* may happen, including the death of the worker.                          *)
(*                                                                         *)
(* Refused preparations (points, quota, license: rolled back) and replays  *)
(* of an existing row change nothing and are stuttering steps.             *)
(***************************************************************************)
EXTENDS TenantLedger

CONSTANT ScanLimit   \* _SCAN_LIMIT of the recovery loop

ASSUME ScanAssumption == ScanLimit \in Nat \ {0}

VARIABLES
  status,          \* AgentToolCall.status as other connections see it
  dispatch_count,  \* AgentToolCall.dispatch_count
  error_type,      \* AgentToolCall.error_type
  startedAt,       \* AgentToolCall.started_at, as the count of starts so far
  evidence,        \* calls that have an EvidenceItem
  kept,            \* calls that have a keep_unknown reconciliation row
  exec,            \* where the worker that dispatched a permit stands
  inFlight,        \* requests that may still reach the upstream
  received         \* requests the upstream has received

rowVars  == <<status, dispatch_count, error_type, startedAt, evidence, kept>>
wireVars == <<inFlight, received>>
callVars == <<rowVars, exec, wireVars>>
durableVars == <<ledgerVars, callVars>>

Outcomes == {"failed", "empty", "unavailable", "payload"}   \* of a confirmed answer

Statuses == {"absent", "running", "settled", "failed", "unknown"}

ErrorTypes == {"none", "definitely_not_sent", "failed_confirmed", "result_unknown",
               "succeeded_empty", "result_unavailable", "admin_confirmed_failure"}

Permit(c) == <<c, dispatch_count[c]>>   \* AgentMcpAccounting._tenant_permit_id

Starts == Cardinality({p \in Permits : exec[p] # "none"})

DurableInit ==
  /\ LedgerInit
  /\ status = [c \in Calls |-> "absent"]
  /\ dispatch_count = [c \in Calls |-> 0]
  /\ error_type = [c \in Calls |-> "none"]
  /\ startedAt = [c \in Calls |-> 0]
  /\ evidence = {} /\ kept = {}
  /\ exec = [p \in Permits |-> "none"]
  /\ inFlight = {} /\ received = {}

-----------------------------------------------------------------------------
(***************************************************************************)
(* prepare: insert or reopen the row, reserve, mark it running; committed  *)
(* before the transport is called.  A row that exists is only reopened     *)
(* after a failure that is known not to have been sent, and only once.     *)
(***************************************************************************)
Start(p) ==
  LET c == p[1] IN
  /\ ReservePermit(p)
  /\ status' = [status EXCEPT ![c] = "running"]
  /\ dispatch_count' = [dispatch_count EXCEPT ![c] = p[2]]
  /\ error_type' = [error_type EXCEPT ![c] = "none"]
  /\ startedAt' = [startedAt EXCEPT ![c] = Starts + 1]
  /\ exec' = [exec EXCEPT ![p] = "calling"]
  /\ inFlight' = inFlight \cup {p}
  /\ UNCHANGED <<evidence, kept, received>>

PrepareNew(c) ==
  /\ status[c] = "absent"
  /\ Start(<<c, 1>>)

RetryAllowedMut(c) ==   \* retries any failure once
  /\ status[c] = "failed"
  /\ dispatch_count[c] < 2

RetryAllowed(c) ==
  /\ status[c] = "failed"
  /\ error_type[c] = "definitely_not_sent"
  /\ dispatch_count[c] < 2

PrepareRetry(c) ==
  /\ RetryAllowed(c)
  /\ Start(<<c, 2>>)

(***************************************************************************)
(* The transport.  A refusal (queue timeout, open circuit, failed connect  *)
(* or initialize) is only raised while nothing was sent; any other error,  *)
(* timeout or cancellation leaves the outcome unconfirmed, and the request *)
(* may arrive even after the worker stopped waiting or died.               *)
(***************************************************************************)
RefuseMut(p) ==   \* takes an error after sending for a refusal
  /\ exec[p] = "calling"
  /\ exec' = [exec EXCEPT ![p] = "refused"]
  /\ UNCHANGED <<inFlight, received, rowVars, ledgerVars>>

Refuse(p) ==
  /\ exec[p] = "calling"
  /\ p \in inFlight
  /\ exec' = [exec EXCEPT ![p] = "refused"]
  /\ inFlight' = inFlight \ {p}
  /\ UNCHANGED <<received, rowVars, ledgerVars>>

Receive(p) ==
  /\ p \in inFlight
  /\ inFlight' = inFlight \ {p}
  /\ received' = received \cup {p}
  /\ UNCHANGED <<exec, rowVars, ledgerVars>>

Answer(p, outcome) ==
  /\ exec[p] = "calling"
  /\ p \in received
  /\ exec' = [exec EXCEPT ![p] = outcome]
  /\ UNCHANGED <<wireVars, rowVars, ledgerVars>>

GiveUp(p) ==
  /\ exec[p] = "calling"
  /\ exec' = [exec EXCEPT ![p] = "lost"]
  /\ UNCHANGED <<wireVars, rowVars, ledgerVars>>

Crash(p) ==
  /\ exec[p] \notin {"none", "over"}
  /\ exec' = [exec EXCEPT ![p] = "over"]
  /\ UNCHANGED <<wireVars, rowVars, ledgerVars>>

-----------------------------------------------------------------------------
(***************************************************************************)
(* AgentMcpAccounting.settle and release: the ledger and the row together. *)
(* settle leaves error_type alone; its callers set what is said here.      *)
(***************************************************************************)
SettleRow(c, error) ==
  /\ SettlePermit(Permit(c))
  /\ status' = [status EXCEPT ![c] = "settled"]
  /\ error_type' = [error_type EXCEPT ![c] = error]
  /\ UNCHANGED <<dispatch_count, startedAt>>

ReleaseRow(c, error) ==
  /\ ReleasePermit(Permit(c))
  /\ status' = [status EXCEPT ![c] = "failed"]
  /\ error_type' = [error_type EXCEPT ![c] = error]
  /\ UNCHANGED <<dispatch_count, startedAt, evidence>>

RowTerminalMut(c) == status[c] = "settled"   \* forgets failed rows

RowTerminal(c) == status[c] \in {"settled", "failed"}

Leave(p) == exec' = [exec EXCEPT ![p] = "over"] /\ UNCHANGED wireVars

(***************************************************************************)
(* The finalize transactions, each on the row as it is now (which another  *)
(* actor may have moved since the dispatch).                               *)
(***************************************************************************)
FinalizeSuccess(p) ==
  LET c == p[1] IN
  /\ exec[p] = "payload"
  /\ ~RowTerminal(c)
  /\ \/ SettleRow(c, error_type[c]) /\ evidence' = evidence \cup {c}
     \/ SettleRow(c, "result_unavailable") /\ UNCHANGED evidence   \* Evidence not writable
  /\ Leave(p)
  /\ UNCHANGED kept

FinalizeWithoutPayload(p) ==
  LET c == p[1] IN
  /\ exec[p] \in {"empty", "unavailable"}
  /\ ~RowTerminal(c)
  /\ SettleRow(c, IF exec[p] = "empty" THEN "succeeded_empty" ELSE "result_unavailable")
  /\ Leave(p)
  /\ UNCHANGED <<evidence, kept>>

FinalizeRelease(p) ==
  LET c == p[1] IN
  /\ exec[p] \in {"refused", "failed"}
  /\ ~RowTerminal(c)
  /\ ReleaseRow(c, IF exec[p] = "refused" THEN "definitely_not_sent" ELSE "failed_confirmed")
  /\ Leave(p)
  /\ UNCHANGED kept

FinalizeUnknown(p) ==
  LET c == p[1] IN
  /\ exec[p] = "lost"
  /\ ~RowTerminal(c)
  /\ MarkUnknown(Permit(c))
  /\ status' = [status EXCEPT ![c] = "unknown"]
  /\ error_type' = [error_type EXCEPT ![c] = "result_unknown"]
  /\ Leave(p)
  /\ UNCHANGED <<dispatch_count, startedAt, evidence, kept>>

FinalizeTooLate(p) ==   \* returns, replays the evidence, or raises already_failed
  /\ exec[p] \in Outcomes \cup {"refused", "lost"}
  /\ RowTerminal(p[1])
  /\ Leave(p)
  /\ UNCHANGED <<rowVars, ledgerVars>>

FinalizeRaises(p) ==    \* tenant_reserved_amount_invalid: rolled back
  /\ exec[p] \in Outcomes \cup {"refused"}
  /\ ~RowTerminal(p[1])
  /\ ~CanTerminate(Permit(p[1]))
  /\ Leave(p)
  /\ UNCHANGED <<rowVars, ledgerVars>>

-----------------------------------------------------------------------------
(***************************************************************************)
(* RecoveryLoop.  The age of 900 s is abstracted: a running row may be     *)
(* migrated at any time, as it also is by close_open_runtime_rows when its *)
(* run fails or is cancelled.  No row of this runtime has an upstream      *)
(* request id before it is terminal, so a probe can only keep the call     *)
(* unknown; it looks at the ScanLimit unknown rows started first.          *)
(***************************************************************************)
StuckMut(c) == status[c] \in {"running", "settled"}   \* no second look under the lock

StuckMutReserved(c) == status[c] = "reserved"   \* scans for reserved rows only

Stuck(c) == status[c] = "running"

MigrateStuck(c) ==
  /\ Stuck(c)
  /\ status' = [status EXCEPT ![c] = "unknown"]
  /\ error_type' = [error_type EXCEPT ![c] = "result_unknown"]
  /\ UNCHANGED <<dispatch_count, startedAt, evidence, kept, exec, wireVars, ledgerVars>>

ScannedMut(c) ==   \* a limit that is one too small
  /\ status[c] = "unknown"
  /\ Cardinality({b \in Calls : status[b] = "unknown" /\ startedAt[b] < startedAt[c]})
       < ScanLimit - 1

Scanned(c) ==
  /\ status[c] = "unknown"
  /\ Cardinality({b \in Calls : status[b] = "unknown" /\ startedAt[b] < startedAt[c]})
       < ScanLimit

KeepUnknown(c) ==
  /\ Scanned(c)
  /\ c \notin kept
  /\ kept' = kept \cup {c}
  /\ UNCHANGED <<status, dispatch_count, error_type, startedAt, evidence, exec, wireVars,
                 ledgerVars>>

(***************************************************************************)
(* AdminService.reconcile_tool_call: any row that is not terminal.         *)
(***************************************************************************)
AdminMay(c) == status[c] \in {"running", "unknown"}

AdminConfirmSuccess(c) ==   \* nothing to retrieve: result_unavailable
  /\ AdminMay(c)
  /\ SettleRow(c, "result_unavailable")
  /\ UNCHANGED <<evidence, kept, exec, wireVars>>

AdminConfirmFailure(c) ==
  /\ AdminMay(c)
  /\ ReleaseRow(c, "admin_confirmed_failure")
  /\ UNCHANGED <<kept, exec, wireVars>>

AdminKeepUnknown(c) ==
  /\ AdminMay(c)
  /\ kept' = kept \cup {c}
  /\ UNCHANGED <<status, dispatch_count, error_type, startedAt, evidence, exec, wireVars,
                 ledgerVars>>

-----------------------------------------------------------------------------
WorkerStep(p) ==
  \/ Refuse(p) \/ Receive(p) \/ GiveUp(p) \/ Crash(p)
  \/ \E outcome \in Outcomes : Answer(p, outcome)
  \/ FinalizeSuccess(p) \/ FinalizeWithoutPayload(p) \/ FinalizeRelease(p)
  \/ FinalizeUnknown(p) \/ FinalizeTooLate(p) \/ FinalizeRaises(p)

CallStep(c) ==
  \/ PrepareNew(c) \/ PrepareRetry(c)
  \/ MigrateStuck(c) \/ KeepUnknown(c)
  \/ AdminConfirmSuccess(c) \/ AdminConfirmFailure(c) \/ AdminKeepUnknown(c)

DurableNext ==
  \/ \E p \in Permits : WorkerStep(p)
  \/ \E c \in Calls : CallStep(c)
  \/ CreditStep /\ UNCHANGED callVars

DurableSpec == DurableInit /\ [][DurableNext]_durableVars

(***************************************************************************)
(* Fairness: the recovery loop runs every interval_seconds for as long as  *)
(* the backend is up.  It takes over expired runs first, within its own    *)
(* iteration and with their errors caught, so it gets to the calls if      *)
(* process_run returns; a row that stays in a scan is taken by it.         *)
(***************************************************************************)
RecoveryFairness ==
  /\ \A c \in Calls : WF_durableVars(MigrateStuck(c))
  /\ \A c \in Calls : WF_durableVars(KeepUnknown(c))

LiveDurableSpec == DurableSpec /\ RecoveryFairness

-----------------------------------------------------------------------------
DurableTypeOK ==
  /\ LedgerTypeOK
  /\ status \in [Calls -> Statuses]
  /\ dispatch_count \in [Calls -> 0..2]
  /\ error_type \in [Calls -> ErrorTypes]
  /\ startedAt \in [Calls -> Nat]
  /\ evidence \subseteq Calls /\ kept \subseteq Calls
  /\ exec \in [Permits -> Outcomes \cup {"none", "calling", "refused", "lost", "over"}]
  /\ inFlight \subseteq Permits /\ received \subseteq Permits

(***************************************************************************)
(* The row and the ledger tell the same story after every transaction of   *)
(* every actor: the permits reserved are the dispatches made; the current  *)
(* one is charged exactly if the row is settled, returned exactly if it    *)
(* failed, and open while it is running or unknown; the earlier one was    *)
(* returned.                                                               *)
(***************************************************************************)
RowMatchesLedger ==
  /\ \A c \in Calls : (status[c] = "absent") <=> (dispatch_count[c] = 0)
  /\ reserves = {p \in Permits : p[2] <= dispatch_count[p[1]]}
  /\ settles = {p \in Permits : p = Permit(p[1]) /\ status[p[1]] = "settled"}
  /\ releases = {p \in Permits : \/ p[2] < dispatch_count[p[1]]
                                 \/ p = Permit(p[1]) /\ status[p[1]] = "failed"}

(***************************************************************************)
(* The rows are well formed, and as the ledger has them.                   *)
(***************************************************************************)
RowsAreTrue == DurableTypeOK /\ RowMatchesLedger

(***************************************************************************)
(* At most once: whatever is retried, timed out, crashed or reconciled, no *)
(* two dispatches of one call ever reach the upstream.                     *)
(***************************************************************************)
AtMostOnce == \A c \in Calls : ~(<<c, 1>> \in received /\ <<c, 2>> \in received)

(***************************************************************************)
(* Points returned as definitely_not_sent were never used: no request of   *)
(* the call has reached the upstream or still can.                         *)
(***************************************************************************)
NotSentMeansNotSent ==
  \A c \in Calls : error_type[c] = "definitely_not_sent"
    => \A p \in received \cup inFlight : p[1] # c

(***************************************************************************)
(* What is refunded was not sent, and what was sent was sent once.         *)
(***************************************************************************)
CallIsSafe == AtMostOnce /\ NotSentMeansNotSent

(***************************************************************************)
(* A settled call can be replayed to the model: its evidence is there, or  *)
(* its error type says that there is none; and evidence only ever exists   *)
(* for a call that was charged and that the upstream received.             *)
(* (_replay raises evidence_missing_for_settled_call otherwise.)           *)
(***************************************************************************)
SettledReplayable ==
  \A c \in Calls :
    /\ status[c] = "settled" /\ c \notin evidence
         => error_type[c] \in {"succeeded_empty", "result_unavailable"}
    /\ c \in evidence => status[c] = "settled" /\ Permit(c) \in received

(***************************************************************************)
(* A terminal row stays as it is, whoever comes late (a worker, the        *)
(* recovery loop, the admin), except that a call that was definitely not   *)
(* sent may be dispatched a second time.                                   *)
(***************************************************************************)
RowsStayFinal ==
  \A c \in Calls : status[c] \in {"settled", "failed"}
    => \/ status'[c] = status[c] /\ error_type'[c] = error_type[c]
       \/ /\ error_type[c] = "definitely_not_sent" /\ dispatch_count[c] = 1
          /\ status'[c] = "running" /\ dispatch_count'[c] = 2
TerminalIsFinal == [][RowsStayFinal]_durableVars

(***************************************************************************)
(* A call does not stay running: a crash between the dispatch and its      *)
(* finalize transaction ends in unknown.                                   *)
(***************************************************************************)
NeverStuckRunning == \A c \in Calls : status[c] = "running" ~> status[c] # "running"

(***************************************************************************)
(* Every unknown call is resolved or reported to operations by the loop.   *)
(***************************************************************************)
UnknownReported ==
  \A c \in Calls : status[c] = "unknown" ~> (c \in kept \/ status[c] # "unknown")

(***************************************************************************)
(* With its loop, no call is left alone: neither running nor unknown.      *)
(***************************************************************************)
NobodyIsLeft == NeverStuckRunning /\ UnknownReported

(***************************************************************************)
(* Refinement of the promise, read off the ledger rows and the wire.       *)
(***************************************************************************)
BillOf(c) ==
  IF \E p \in settles : p[1] = c THEN "charged"
  ELSE IF \E p \in reserves \ releases : p[1] = c THEN "held"
  ELSE IF \E p \in reserves : p[1] = c THEN "refunded"
  ELSE "none"

Contract == INSTANCE ToolCallContract WITH
  bill      <- [c \in Calls |-> BillOf(c)],
  retried   <- {c \in Calls : <<c, 2>> \in reserves},
  delivered <- [c \in Calls |-> Cardinality({p \in received : p[1] = c})]

KeepsContract == Contract!ContractSpec

(***************************************************************************)
(* _ledger_totals, by which reconcile_run judges a tenant: one reserve row *)
(* and the latest terminal row for each call, not for each permit.  (The   *)
(* unknown row of a call is younger than the release of its first          *)
(* dispatch, which is what made the second one possible.)                  *)
(***************************************************************************)
LatestTerminal(c) ==
  IF Permit(c) \in settles THEN "settle"
  ELSE IF Permit(c) \in releases THEN "release"
  ELSE IF c \in unknowns THEN "unknown"
  ELSE IF <<c, 1>> \in releases THEN "release" ELSE "none"

Outstanding ==
  MCP_POINTS_COST * Cardinality({c \in Calls : /\ \E p \in reserves : p[1] = c
                                               /\ LatestTerminal(c) \in {"none", "unknown"}})

(***************************************************************************)
(* What the comment of _ledger_totals says (accounting.py:448): the state  *)
(* is computed per permit, so that the outstanding points of the rows are  *)
(* the wallet's reserved points; otherwise the tenant is reported with     *)
(* tenant_reserved_mismatch.                                               *)
(***************************************************************************)
TotalsPerPermit == reserved = Outstanding
=============================================================================
