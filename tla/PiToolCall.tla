----------------------------- MODULE PiToolCall -----------------------------
(***************************************************************************)
(* MCP tool calls of the "pi" runtime.  The tool runs in the Gateway's     *)
(* worker process, the accounting in the backend, and the two talk by      *)
(* requests that can be lost, delayed, or carried out without the answer   *)
(* coming back:                                                            *)
(*   - the hooks around a tool (pi-gateway mcp-accounting-extension.ts);   *)
(*   - preflight, finalize and fail (pi_gateway/service.py), accepted only *)
(*     under the lease of the attempt the worker belongs to;               *)
(*   - the loss of a lease, its recovery, cancellation and terminal, as    *)
(*     far as they touch the calls; stuck migration; the admin.            *)
(* One run, whose model may ask for the same call more than once: each     *)
(* time is a member of Hooks.                                              *)
(***************************************************************************)
EXTENDS TenantLedger

CONSTANTS
  Hooks,    \* tool invocations of the workers of the run
  CallOf    \* the call (logical_call_id) each invocation is about

ASSUME HookAssumptions == IsFiniteSet(Hooks) /\ CallOf \in [Hooks -> Calls]

VARIABLES
  status,     \* AgentToolCall.status
  error_type, \* AgentToolCall.error_type
  run,        \* the run: leased, expired (lease ran out), queued again, ended
  attempt,    \* its current attempt, 1 or 2 (one infrastructure retry)
  hook,       \* where each invocation stands
  att,        \* the attempt whose worker runs it (0: not started)
  net,        \* requests to the backend that are still on their way
  inFlight,   \* invocations whose MCP request may still reach the upstream
  received    \* invocations whose MCP request the upstream received

piRowVars  == <<status, error_type>>
runVars    == <<run, attempt>>
gatewayVars == <<hook, att>>
piWireVars == <<net, inFlight, received>>
piVars == <<ledgerVars, piRowVars, runVars, gatewayVars, piWireVars>>

Classes == {"definitely_not_sent", "failed_confirmed", "result_unknown"}
Kinds == {"preflight", "finalize", "last"} \cup Classes

Phases == {"idle", "preflight", "calling", "success", "definitely_not_sent",
           "failed_confirmed", "result_unknown", "finalizing", "failing", "last", "over"}

PiPermit(c) == <<c, 1>>   \* preflight never raises dispatch_count

PiInit ==
  /\ LedgerInit
  /\ status = [c \in Calls |-> "absent"]
  /\ error_type = [c \in Calls |-> "none"]
  /\ run = "leased" /\ attempt = 1
  /\ hook = [h \in Hooks |-> "idle"]
  /\ att = [h \in Hooks |-> 0]
  /\ net = {} /\ inFlight = {} /\ received = {}

-----------------------------------------------------------------------------
(***************************************************************************)
(* The Gateway.  tool_call sends preflight and only lets the tool run on   *)
(* an answered permit; tool_result classifies what came back and reports   *)
(* it.  A report that fails for any reason (lost answer included) is       *)
(* followed by one report of result_unknown, whose failure is the end.     *)
(***************************************************************************)
Go(h, phase) == hook' = [hook EXCEPT ![h] = phase]

ToolCall(h) ==   \* also by the worker of an attempt that was lost
  /\ hook[h] = "idle"
  /\ Go(h, "preflight")
  /\ \E a \in 1..attempt : att' = [att EXCEPT ![h] = a]
  /\ net' = net \cup {<<h, "preflight">>}
  /\ UNCHANGED <<inFlight, received, piRowVars, runVars, ledgerVars>>

NotDispatchedMut(h) ==   \* takes an error after sending for not sent
  /\ hook[h] = "calling"
  /\ Go(h, "definitely_not_sent")
  /\ UNCHANGED <<att, piWireVars, piRowVars, runVars, ledgerVars>>

NotDispatched(h) ==
  /\ hook[h] = "calling" /\ h \in inFlight
  /\ Go(h, "definitely_not_sent")
  /\ inFlight' = inFlight \ {h}
  /\ UNCHANGED <<att, net, received, piRowVars, runVars, ledgerVars>>

Receive(h) ==
  /\ h \in inFlight
  /\ inFlight' = inFlight \ {h}
  /\ received' = received \cup {h}
  /\ UNCHANGED <<net, gatewayVars, piRowVars, runVars, ledgerVars>>

Answered(h, outcome) ==
  /\ hook[h] = "calling" /\ h \in received
  /\ Go(h, outcome)
  /\ UNCHANGED <<att, piWireVars, piRowVars, runVars, ledgerVars>>

Unconfirmed(h) ==
  /\ hook[h] = "calling"
  /\ Go(h, "result_unknown")
  /\ UNCHANGED <<att, piWireVars, piRowVars, runVars, ledgerVars>>

ToolResult(h) ==
  /\ hook[h] \in Classes \cup {"success"}
  /\ IF hook[h] = "success"
       THEN Go(h, "finalizing") /\ net' = net \cup {<<h, "finalize">>}
       ELSE Go(h, "failing") /\ net' = net \cup {<<h, hook[h]>>}
  /\ UNCHANGED <<att, inFlight, received, piRowVars, runVars, ledgerVars>>

Waiting(h) == hook[h] \in {"preflight", "finalizing", "failing", "last"}

(***************************************************************************)
(* The request of h failed for the Gateway: refused, or not answered.      *)
(***************************************************************************)
Failed(h, requests) ==
  IF hook[h] \in {"finalizing", "failing"}
    THEN Go(h, "last") /\ net' = requests \cup {<<h, "last">>}
    ELSE Go(h, "over") /\ net' = requests

NoAnswer(h) ==
  /\ Waiting(h)
  /\ Failed(h, net)
  /\ UNCHANGED <<att, inFlight, received, piRowVars, runVars, ledgerVars>>

WorkerDies(h) ==
  /\ hook[h] \notin {"idle", "over"}
  /\ Go(h, "over")
  /\ UNCHANGED <<att, piWireVars, piRowVars, runVars, ledgerVars>>

-----------------------------------------------------------------------------
(***************************************************************************)
(* The backend.  leased_run: the run is running, the lease has not run out *)
(* and belongs to the attempt of the caller.                               *)
(***************************************************************************)
LeasedMut(h) == att[h] = attempt   \* forgets that the lease may be over

Leased(h) == run = "leased" /\ att[h] = attempt

PreflightAllowedMut(c) == TRUE   \* a repeated hook is handed the same permit again

PreflightAllowed(c) == status[c] = "absent"   \* else mcp_call_already_started

Preflight(c) ==
  /\ PreflightAllowed(c)
  /\ IF PiPermit(c) \in reserves THEN UNCHANGED ledgerVars ELSE ReservePermit(PiPermit(c))
  /\ status' = [status EXCEPT ![c] = "running"]
  /\ UNCHANGED error_type


Replayed(c) == status[c] \in {"settled", "failed", "unknown"}

FinalizeMcp(c) ==
  \/ Replayed(c) /\ UNCHANGED <<piRowVars, ledgerVars>>
  \/ /\ ~Replayed(c)
     /\ SettlePermit(PiPermit(c))
     /\ status' = [status EXCEPT ![c] = "settled"]
     /\ UNCHANGED error_type

(***************************************************************************)
(* fail_mcp: the ledger ignores a terminal permit; the row is overwritten  *)
(* whatever its status.                                                    *)
(***************************************************************************)
FailLedger(p, class) ==
  IF Terminal(p) THEN UNCHANGED ledgerVars
  ELSE IF class = "result_unknown" THEN MarkUnknown(p) ELSE ReleasePermit(p)

FailMcp(c, class) ==
  /\ FailLedger(PiPermit(c), class)
  /\ status' = [status EXCEPT ![c] = IF class = "result_unknown" THEN "unknown" ELSE "failed"]
  /\ error_type' = [error_type EXCEPT ![c] = class]

Handler(c, kind) ==
  IF kind = "preflight" THEN Preflight(c)
  ELSE IF kind = "finalize" THEN FinalizeMcp(c)
  ELSE FailMcp(c, IF kind = "last" THEN "result_unknown" ELSE kind)

(***************************************************************************)
(* A request arrives.  It is carried out or refused; the answer gets back, *)
(* unless the Gateway has stopped waiting for it or never hears of it.     *)
(***************************************************************************)
Awaited(h, kind) ==
  hook[h] = CASE kind = "preflight" -> "preflight"
              [] kind = "finalize" -> "finalizing"
              [] kind = "last" -> "last"
              [] OTHER -> "failing"

Granted(h, kind) ==
  IF kind = "preflight"
    THEN Go(h, "calling") /\ inFlight' = inFlight \cup {h}
    ELSE Go(h, "over") /\ UNCHANGED inFlight

CarryOut(h, kind) ==
  /\ <<h, kind>> \in net
  /\ Leased(h)
  /\ Handler(CallOf[h], kind)
  /\ net' = net \ {<<h, kind>>}
  /\ \/ Awaited(h, kind) /\ Granted(h, kind)
     \/ UNCHANGED <<hook, inFlight>>
  /\ UNCHANGED <<att, received, runVars>>

Refused(c, kind) ==   \* the handler raises and is rolled back
  LET p == PiPermit(c) IN
  CASE kind = "preflight" -> ~PreflightAllowed(c) \/ ~Affordable(PermitOwner(p))
    [] kind = "finalize"  -> ~Replayed(c) /\ ~CanTerminate(p)
    [] kind \in {"result_unknown", "last"} -> FALSE
    [] OTHER -> ~Terminal(p) /\ ~CanTerminate(p)

Refuse(h, kind) ==
  /\ <<h, kind>> \in net
  /\ ~Leased(h) \/ Refused(CallOf[h], kind)
  /\ IF Awaited(h, kind) THEN Failed(h, net \ {<<h, kind>>})
                         ELSE net' = net \ {<<h, kind>>} /\ UNCHANGED hook
  /\ UNCHANGED <<att, inFlight, received, piRowVars, runVars, ledgerVars>>

-----------------------------------------------------------------------------
(***************************************************************************)
(* What ends an attempt or the run, and what becomes of the rows it left   *)
(* open: _mark_attempt_tool_calls_unknown, close_open_runtime_rows.        *)
(***************************************************************************)
FenceMut ==   \* takes an open call of a lost worker for not sent
  /\ status' = [c \in Calls |-> IF status[c] = "running" THEN "absent" ELSE status[c]]
  /\ UNCHANGED error_type

Fence ==
  /\ status' = [c \in Calls |-> IF status[c] = "running" THEN "unknown" ELSE status[c]]
  /\ error_type' = [c \in Calls |-> IF status[c] = "running" THEN "result_unknown"
                                                             ELSE error_type[c]]

LeaseRunsOut ==
  /\ run = "leased" /\ run' = "expired"
  /\ UNCHANGED <<attempt, piRowVars, gatewayVars, piWireVars, ledgerVars>>

RecoverExpiredRun ==
  /\ run = "expired"
  /\ run' = IF attempt = 1 THEN "queued" ELSE "ended"
  /\ Fence
  /\ UNCHANGED <<attempt, gatewayVars, piWireVars, ledgerVars>>

ClaimAgain ==
  /\ run = "queued"
  /\ run' = "leased" /\ attempt' = 2
  /\ UNCHANGED <<piRowVars, gatewayVars, piWireVars, ledgerVars>>

(***************************************************************************)
(* The run fails or is cancelled, by its worker, by recovery or by the     *)
(* user; every such end closes the open rows in the same transaction.      *)
(***************************************************************************)
RunEnds ==
  /\ run # "ended"
  /\ run' = "ended"
  /\ Fence
  /\ UNCHANGED <<attempt, gatewayVars, piWireVars, ledgerVars>>

(***************************************************************************)
(* The run completes (its terminal request, or recovery when only the      *)
(* answer was lost), which CompletionValidator refuses while a row or a    *)
(* permit is open, except as unknown.                                      *)
(***************************************************************************)
RunCompletes ==
  /\ run \in {"leased", "expired"}
  /\ \A c \in Calls : status[c] # "running"
  /\ \A p \in reserves : ~Terminal(p) => status[p[1]] = "unknown"
  /\ run' = "ended"
  /\ UNCHANGED <<attempt, piRowVars, gatewayVars, piWireVars, ledgerVars>>

StuckMut(c) == status[c] = "running" /\ run = "leased"   \* rows of leased runs only

Stuck(c) == status[c] = "running"   \* the age of 900 s is abstracted

MigrateStuck(c) ==
  /\ Stuck(c)
  /\ status' = [status EXCEPT ![c] = "unknown"]
  /\ error_type' = [error_type EXCEPT ![c] = "result_unknown"]
  /\ UNCHANGED <<runVars, gatewayVars, piWireVars, ledgerVars>>

(***************************************************************************)
(* The admin can only confirm a failure.  confirm_success needs an         *)
(* upstream id, which finalize writes in the transaction that settles.     *)
(***************************************************************************)
AdminConfirmFailure(c) ==
  /\ status[c] \in {"running", "unknown"}
  /\ FailLedger(PiPermit(c), "failed_confirmed")
  /\ status' = [status EXCEPT ![c] = "failed"]
  /\ error_type' = [error_type EXCEPT ![c] = "admin_confirmed_failure"]
  /\ UNCHANGED <<runVars, gatewayVars, piWireVars>>

HookStep(h) ==
  \/ ToolCall(h) \/ NotDispatched(h) \/ Receive(h) \/ Unconfirmed(h)
  \/ Answered(h, "success") \/ Answered(h, "failed_confirmed")
  \/ ToolResult(h) \/ NoAnswer(h) \/ WorkerDies(h)

RequestStep(h, kind) == CarryOut(h, kind) \/ Refuse(h, kind)

RunStep ==
  \/ LeaseRunsOut \/ RecoverExpiredRun \/ ClaimAgain \/ RunEnds \/ RunCompletes

PiNext ==
  \/ \E h \in Hooks : HookStep(h)
  \/ \E h \in Hooks, kind \in Kinds : RequestStep(h, kind)
  \/ RunStep
  \/ \E c \in Calls : MigrateStuck(c) \/ AdminConfirmFailure(c)
  \/ CreditStep /\ UNCHANGED <<piRowVars, runVars, gatewayVars, piWireVars>>

PiSpec == PiInit /\ [][PiNext]_piVars

(***************************************************************************)
(* Fairness: the pi RecoveryLoop runs every interval_seconds, with the     *)
(* errors of recovering single runs caught, and takes every row that stays *)
(* running.                                                                *)
(***************************************************************************)
PiFairness == \A c \in Calls : WF_piVars(MigrateStuck(c))
LivePiSpec == PiSpec /\ PiFairness

-----------------------------------------------------------------------------
PiTypeOK ==
  /\ LedgerTypeOK
  /\ status \in [Calls -> {"absent", "running", "settled", "failed", "unknown"}]
  /\ error_type \in [Calls -> Classes \cup {"none", "admin_confirmed_failure"}]
  /\ run \in {"leased", "expired", "queued", "ended"} /\ attempt \in 1..2
  /\ hook \in [Hooks -> Phases] /\ att \in [Hooks -> 0..2]
  /\ net \subseteq Hooks \X Kinds
  /\ inFlight \subseteq Hooks /\ received \subseteq Hooks

(***************************************************************************)
(* A repeated hook, a lost answer or a second attempt never makes a second *)
(* external dispatch of a call.                                            *)
(***************************************************************************)
PiAtMostOnce ==
  \A h1, h2 \in received : CallOf[h1] = CallOf[h2] => h1 = h2

(***************************************************************************)
(* Every open reservation has a row that recovery or the admin will see,   *)
(* and a row that is running has its reservation.                          *)
(***************************************************************************)
OpenPermitHasRow ==
  \A c \in Calls :
    LET open == PiPermit(c) \in reserves /\ ~Terminal(PiPermit(c)) IN
    /\ open => status[c] \in {"running", "unknown"}
    /\ status[c] = "running" => open

(***************************************************************************)
(* A run that waits for its second attempt or has ended has no open call:  *)
(* none is running, whatever request of a lost worker comes late, and      *)
(* points are only held for calls that are unknown.                        *)
(***************************************************************************)
LeftRunsAreClosed ==
  run \in {"queued", "ended"} =>
    /\ \A c \in Calls : status[c] # "running"
    /\ \A p \in reserves : ~Terminal(p) => status[p[1]] = "unknown"

(***************************************************************************)
(* Points are only charged for a call that the upstream received, and      *)
(* returned as definitely_not_sent only for one that it never will; no     *)
(* permit is both charged and returned.                                    *)
(***************************************************************************)
ChargesAreDeserved ==
  /\ settles \cap releases = {}
  /\ \A p \in settles : \E h \in received : CallOf[h] = p[1]
  /\ \A c \in Calls : error_type[c] = "definitely_not_sent"
       => \A h \in received \cup inFlight : CallOf[h] # c

(***************************************************************************)
(* All of it: what a call of a lost, repeated or ended worker may not do.  *)
(***************************************************************************)
PiCallIsSafe == PiAtMostOnce /\ OpenPermitHasRow /\ LeftRunsAreClosed

(***************************************************************************)
(* A call does not stay running whatever the Gateway does.                 *)
(***************************************************************************)
PiNeverStuckRunning == \A c \in Calls : status[c] = "running" ~> status[c] # "running"

(***************************************************************************)
(* The ledger keeps the contract of a tool call, even where the rows are   *)
(* overwritten.                                                            *)
(***************************************************************************)
PiBillOf(c) ==
  IF PiPermit(c) \in settles THEN "charged"
  ELSE IF PiPermit(c) \in releases THEN "refunded"
  ELSE IF PiPermit(c) \in reserves THEN "held" ELSE "none"

PiContract == INSTANCE ToolCallContract WITH
  bill      <- [c \in Calls |-> PiBillOf(c)],
  retried   <- {},
  delivered <- [c \in Calls |-> Cardinality({h \in received : CallOf[h] = c})]

PiKeepsContract == PiContract!ContractSpec
=============================================================================
