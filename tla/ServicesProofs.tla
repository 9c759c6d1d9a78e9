--------------------------- MODULE ServicesProofs ---------------------------
(***************************************************************************)
(* Proofs about the components of MCServices, for every set of requests,   *)
(* calls, workers and keys: each has an inductive invariant of its own,    *)
(* and their composition keeps all of them.                                *)
(*                                                                         *)
(*   PiInv   Pi's tool calls: the rows, the ledger, the requests under way *)
(*           and the wire fit together                                     *)
(*   KdInv   the run behind a creator's detail                             *)
(*   ExInv   the cache of exported files                                   *)
(*   ChInv   breaker, queue and places of a service                        *)
(***************************************************************************)
EXTENDS MCServices, TenantLedgerProofs, SequenceTheorems

LEMMA PiPermitShape ==
  /\ \A c \in Calls : PiPermit(c) \in Permits /\ PiPermit(c)[1] = c
  /\ \A c, d \in Calls : PiPermit(c) = PiPermit(d) => c = d
  BY DEF Permits, PiPermit

(***************************************************************************)
(* The rows and the ledger.  A row that was overwritten as failed or       *)
(* unknown may have been charged, but a running one is open.               *)
(***************************************************************************)
RowsFollowLedger ==
  /\ \A p \in reserves : p = PiPermit(p[1])
  /\ \A c \in Calls :
       /\ status[c] = "absent" <=> PiPermit(c) \notin reserves
       /\ status[c] \in {"settled", "failed"} => Terminal(PiPermit(c))
       /\ status[c] = "running" => ~Terminal(PiPermit(c))
       /\ status[c] = "absent" => error_type[c] = "none"
  /\ settles \cap releases = {}

(***************************************************************************)
(* The ways a transaction moves the rows and the ledger together.          *)
(***************************************************************************)
PiSame == UNCHANGED <<reserves, settles, releases, status, error_type>>

PiStarts(c) ==
  /\ status[c] = "absent"
  /\ reserves' = reserves \cup {PiPermit(c)}
  /\ status' = [status EXCEPT ![c] = "running"]
  /\ UNCHANGED <<settles, releases, error_type>>

PiCharges(c) ==
  /\ PiPermit(c) \in reserves /\ ~Terminal(PiPermit(c))
  /\ settles' = settles \cup {PiPermit(c)}
  /\ status' = [status EXCEPT ![c] = "settled"]
  /\ UNCHANGED <<reserves, releases, error_type>>

PiCloses(c, s, e) ==
  /\ status[c] # "absent" /\ s \in {"unknown", "failed"}
  /\ \/ releases' = releases
     \/ releases' = releases \cup {PiPermit(c)} /\ ~Terminal(PiPermit(c)) /\ s = "failed"
        /\ PiPermit(c) \in reserves
  /\ s = "failed" => PiPermit(c) \in settles \cup releases'
  /\ status' = [status EXCEPT ![c] = s]
  /\ error_type' = [error_type EXCEPT ![c] = e]
  /\ UNCHANGED <<reserves, settles>>

PiFences == Fence /\ UNCHANGED <<reserves, settles, releases>>

PiMoves ==
  \/ PiSame \/ PiFences
  \/ \E c \in Calls : \/ PiStarts(c) \/ PiCharges(c)
                      \/ \E s, e : PiCloses(c, s, e)

LEMMA MovesKeepRows ==
  ASSUME PiTypeOK, RowsFollowLedger, PiMoves
  PROVE  RowsFollowLedger'
<1>t. /\ settles \subseteq reserves /\ releases \subseteq reserves /\ reserves \subseteq Permits
      /\ \A p \in Permits : p[1] \in Calls
      /\ status = [c \in Calls |-> status[c]] /\ error_type = [c \in Calls |-> error_type[c]]
  BY DEF PiTypeOK, LedgerTypeOK, Permits
<1>1. CASE PiSame BY <1>1 DEF PiSame, RowsFollowLedger, Terminal
<1>2. CASE PiFences
  BY <1>2, <1>t DEF PiFences, Fence, RowsFollowLedger, Terminal
<1>3. ASSUME NEW c \in Calls, PiStarts(c) PROVE RowsFollowLedger'
  BY <1>3, <1>t, PiPermitShape DEF PiStarts, RowsFollowLedger, Terminal
<1>4. ASSUME NEW c \in Calls, PiCharges(c) PROVE RowsFollowLedger'
  BY <1>4, <1>t, PiPermitShape DEF PiCharges, RowsFollowLedger, Terminal
<1>5. ASSUME NEW c \in Calls, NEW s, NEW e, PiCloses(c, s, e) PROVE RowsFollowLedger'
  <2>1. \A d \in Calls : /\ status'[d] = IF d = c THEN s ELSE status[d]
                         /\ error_type'[d] = IF d = c THEN e ELSE error_type[d]
    BY <1>5, <1>t DEF PiCloses
  <2> QED BY <1>5, <2>1, <1>t, PiPermitShape DEF PiCloses, RowsFollowLedger, Terminal
<1> QED BY <1>1, <1>2, <1>3, <1>4, <1>5 DEF PiMoves

-----------------------------------------------------------------------------
(***************************************************************************)
(* What a request does to them.                                            *)
(***************************************************************************)
LEMMA FailLedgerMoves ==
  ASSUME PiTypeOK, RowsFollowLedger, NEW c \in Calls, NEW class, NEW s \in {"unknown", "failed"},
         NEW e, FailLedger(PiPermit(c), class), s = "failed" => class # "result_unknown",
         class # "result_unknown" => s = "failed", status[c] # "absent",
         status' = [status EXCEPT ![c] = s], error_type' = [error_type EXCEPT ![c] = e]
  PROVE  PiCloses(c, s, e)
<1>1. CASE Terminal(PiPermit(c))
  BY <1>1 DEF FailLedger, PiCloses, ledgerVars, permitVars, Terminal
<1>2. CASE ~Terminal(PiPermit(c)) /\ class = "result_unknown"
  BY <1>2 DEF FailLedger, PiCloses, MarkUnknown
<1>3. CASE ~Terminal(PiPermit(c)) /\ class # "result_unknown"
  BY <1>3 DEF FailLedger, PiCloses, ReleasePermit
<1> QED BY <1>1, <1>2, <1>3

LEMMA FailLedgerReserved ==
  ASSUME PiTypeOK, NEW p, NEW class, FailLedger(p, class)
  PROVE  p \in reserves
  BY DEF FailLedger, Terminal, MarkUnknown, ReleasePermit, PiTypeOK, LedgerTypeOK

LEMMA HandlerMoves ==
  ASSUME PiTypeOK, RowsFollowLedger, NEW c \in Calls, NEW kind \in Kinds, Handler(c, kind)
  PROVE  \/ kind = "preflight" /\ PiStarts(c)
         \/ kind = "finalize" /\ (PiSame \/ PiCharges(c))
         \/ /\ kind \notin {"preflight", "finalize"}
            /\ \E s : PiCloses(c, s, IF kind = "last" THEN "result_unknown" ELSE kind)
<1>1. CASE kind = "preflight"
  <2>1. Preflight(c) BY <1>1 DEF Handler
  <2>2. PiPermit(c) \notin reserves
    BY <2>1 DEF Preflight, PreflightAllowed, RowsFollowLedger
  <2>3. ReservePermit(PiPermit(c)) BY <2>1, <2>2 DEF Preflight
  <2> QED BY <1>1, <2>1, <2>3 DEF Preflight, PreflightAllowed, ReservePermit, PiStarts
<1>2. CASE kind = "finalize"
  <2>1. FinalizeMcp(c) BY <1>2 DEF Handler
  <2>2. CASE UNCHANGED <<piRowVars, ledgerVars>>
    BY <1>2, <2>2 DEF piRowVars, ledgerVars, permitVars, PiSame
  <2>3. CASE /\ ~Replayed(c) /\ SettlePermit(PiPermit(c))
             /\ status' = [status EXCEPT ![c] = "settled"] /\ UNCHANGED error_type
    <3>1. status[c] = "running"
      BY <2>3 DEF Replayed, SettlePermit, PiTypeOK, RowsFollowLedger
    <3>2. ~Terminal(PiPermit(c)) BY <3>1 DEF RowsFollowLedger
    <3> QED BY <1>2, <2>3, <3>2 DEF SettlePermit, PiCharges
  <2> QED BY <2>1, <2>2, <2>3 DEF FinalizeMcp
<1>3. CASE kind \notin {"preflight", "finalize"}
  <2> DEFINE class == IF kind = "last" THEN "result_unknown" ELSE kind
             s == IF class = "result_unknown" THEN "unknown" ELSE "failed"
  <2>1. FailMcp(c, class) BY <1>3 DEF Handler
  <2>2. status[c] # "absent"
    BY <2>1, FailLedgerReserved DEF FailMcp, RowsFollowLedger
  <2>3. PiCloses(c, s, class)
    BY <2>1, <2>2, FailLedgerMoves DEF FailMcp
  <2> QED BY <1>3, <2>3
<1> QED BY <1>1, <1>2, <1>3

LEMMA AdminMoves ==
  ASSUME PiTypeOK, RowsFollowLedger, NEW c \in Calls, AdminConfirmFailure(c)
  PROVE  PiCloses(c, "failed", "admin_confirmed_failure")
<1>1. /\ FailLedger(PiPermit(c), "failed_confirmed") /\ status[c] # "absent"
      /\ status' = [status EXCEPT ![c] = "failed"]
      /\ error_type' = [error_type EXCEPT ![c] = "admin_confirmed_failure"]
  BY DEF AdminConfirmFailure
<1> QED BY <1>1, FailLedgerMoves

LEMMA StuckMoves ==
  ASSUME NEW c \in Calls, MigrateStuck(c)
  PROVE  PiCloses(c, "unknown", "result_unknown")
  BY DEF MigrateStuck, Stuck, PiCloses, ledgerVars, permitVars

LEMMA RunMoves ==
  ASSUME RunStep
  PROVE  (PiSame \/ PiFences) /\ UNCHANGED <<gatewayVars, piWireVars, ledgerVars>>
<1>1. CASE LeaseRunsOut \/ ClaimAgain \/ RunCompletes
  BY <1>1 DEF LeaseRunsOut, ClaimAgain, RunCompletes, piRowVars, ledgerVars, permitVars, PiSame
<1>2. CASE RecoverExpiredRun \/ RunEnds
  BY <1>2 DEF RecoverExpiredRun, RunEnds, ledgerVars, permitVars, PiFences
<1> QED BY <1>1, <1>2 DEF RunStep

(***************************************************************************)
(* What leaves the rows alone: the Gateway, and a request that is refused. *)
(***************************************************************************)
GatewayStep(h) == HookStep(h) \/ \E kind \in Kinds : Refuse(h, kind)

LEMMA GatewayLeavesRows ==
  ASSUME NEW h \in Hooks, GatewayStep(h)
  PROVE  UNCHANGED <<ledgerVars, piRowVars, runVars>> /\ PiSame
<1>1. UNCHANGED <<ledgerVars, piRowVars, runVars>>
  BY DEF GatewayStep, HookStep, ToolCall, NotDispatched, Receive, Unconfirmed, Answered,
         ToolResult, NoAnswer, WorkerDies, Refuse
<1> QED BY <1>1 DEF ledgerVars, permitVars, piRowVars, PiSame

LEMMA StepMoves ==
  ASSUME PiTypeOK, RowsFollowLedger, [PiNext]_piVars
  PROVE  PiMoves
<1>1. ASSUME NEW h \in Hooks, GatewayStep(h) PROVE PiMoves
  BY <1>1, GatewayLeavesRows DEF PiMoves
<1>2. ASSUME NEW h \in Hooks, NEW kind \in Kinds, CarryOut(h, kind) PROVE PiMoves
  <2>1. CallOf[h] \in Calls /\ Handler(CallOf[h], kind) BY <1>2, HookAssumptions DEF CarryOut
  <2> QED BY <2>1, HandlerMoves DEF PiMoves
<1>3. ASSUME RunStep PROVE PiMoves BY <1>3, RunMoves DEF PiMoves
<1>4. ASSUME NEW c \in Calls, MigrateStuck(c) \/ AdminConfirmFailure(c) PROVE PiMoves
  BY <1>4, StuckMoves, AdminMoves DEF PiMoves
<1>5. ASSUME CreditStep, UNCHANGED piRowVars PROVE PiMoves
  BY <1>5 DEF CreditStep, GrantWelcome, AdminAdjust, SetQuota, AdvanceMonth, permitVars,
              piRowVars, PiSame, PiMoves
<1>6. CASE UNCHANGED piVars
  BY <1>6 DEF piVars, ledgerVars, permitVars, piRowVars, PiSame, PiMoves
<1> QED BY <1>1, <1>2, <1>3, <1>4, <1>5, <1>6 DEF PiNext, RequestStep, GatewayStep

-----------------------------------------------------------------------------
(***************************************************************************)
(* Types, and every step of the calls is a step of the ledger.             *)
(***************************************************************************)
LEMMA FailLedgerStep ==
  ASSUME NEW p \in Permits, NEW class, FailLedger(p, class)
  PROVE  [LedgerNext]_ledgerVars
  BY DEF FailLedger, LedgerNext

LEMMA HandlerLedgerStep ==
  ASSUME NEW c \in Calls, NEW kind \in Kinds, Handler(c, kind)
  PROVE  [LedgerNext]_ledgerVars
<1>1. PiPermit(c) \in Permits BY PiPermitShape
<1>2. CASE Preflight(c) BY <1>1, <1>2 DEF Preflight, LedgerNext
<1>3. CASE FinalizeMcp(c) BY <1>1, <1>3 DEF FinalizeMcp, LedgerNext
<1>4. ASSUME NEW class, FailMcp(c, class) PROVE [LedgerNext]_ledgerVars
  BY <1>1, <1>4, FailLedgerStep DEF FailMcp
<1> QED BY <1>2, <1>3, <1>4 DEF Handler

LEMMA PiLedgerStep ==
  ASSUME [PiNext]_piVars
  PROVE  [LedgerNext]_ledgerVars
<1>1. ASSUME NEW h \in Hooks, GatewayStep(h) PROVE UNCHANGED ledgerVars
  BY <1>1, GatewayLeavesRows
<1>2. ASSUME NEW h \in Hooks, NEW kind \in Kinds, CarryOut(h, kind)
      PROVE  [LedgerNext]_ledgerVars
  BY <1>2, HookAssumptions, HandlerLedgerStep DEF CarryOut
<1>3. ASSUME RunStep PROVE UNCHANGED ledgerVars BY <1>3, RunMoves
<1>4. ASSUME NEW c \in Calls, MigrateStuck(c) \/ AdminConfirmFailure(c)
      PROVE  [LedgerNext]_ledgerVars
  BY <1>4, PiPermitShape, FailLedgerStep DEF MigrateStuck, AdminConfirmFailure
<1>5. ASSUME CreditStep PROVE LedgerNext BY <1>5 DEF LedgerNext
<1>6. CASE UNCHANGED piVars BY <1>6 DEF piVars
<1> QED BY <1>1, <1>2, <1>3, <1>4, <1>5, <1>6 DEF PiNext, RequestStep, GatewayStep

RowTypes ==
  /\ status \in [Calls -> {"absent", "running", "settled", "failed", "unknown"}]
  /\ error_type \in [Calls -> Classes \cup {"none", "admin_confirmed_failure"}]
RunTypes == run \in {"leased", "expired", "queued", "ended"} /\ attempt \in 1..2
WireTypes ==
  /\ hook \in [Hooks -> Phases] /\ att \in [Hooks -> 0..2]
  /\ net \subseteq Hooks \X Kinds
  /\ inFlight \subseteq Hooks /\ received \subseteq Hooks

LEMMA PiTypeParts == PiTypeOK <=> LedgerTypeOK /\ RowTypes /\ RunTypes /\ WireTypes
  BY DEF PiTypeOK, RowTypes, RunTypes, WireTypes

LEMMA GatewayTypes ==
  ASSUME PiTypeOK, NEW h \in Hooks, GatewayStep(h)
  PROVE  WireTypes'
<1>0. /\ \A phase \in Phases : Go(h, phase) => hook' \in [Hooks -> Phases]
      /\ {"preflight", "calling", "success", "definitely_not_sent", "failed_confirmed",
          "result_unknown", "finalizing", "failing", "last", "over"} \subseteq Phases
      /\ {"preflight", "finalize", "last"} \cup Classes \subseteq Kinds
  BY DEF PiTypeOK, Go, Phases, Kinds
<1>1. CASE ToolCall(h)
  <2>1. \A a \in 1..attempt : [att EXCEPT ![h] = a] \in [Hooks -> 0..2] BY DEF PiTypeOK
  <2> QED BY <1>0, <1>1, <2>1 DEF PiTypeOK, ToolCall, WireTypes
<1>2. CASE NotDispatched(h) BY <1>0, <1>2 DEF PiTypeOK, NotDispatched, WireTypes
<1>3. CASE Receive(h) BY <1>3 DEF PiTypeOK, Receive, gatewayVars, WireTypes
<1>4. CASE Unconfirmed(h) \/ WorkerDies(h)
  BY <1>0, <1>4 DEF PiTypeOK, Unconfirmed, WorkerDies, piWireVars, WireTypes
<1>5. CASE Answered(h, "success") \/ Answered(h, "failed_confirmed")
  BY <1>0, <1>5 DEF PiTypeOK, Answered, piWireVars, WireTypes
<1>6. CASE ToolResult(h)
  BY <1>0, <1>6 DEF PiTypeOK, ToolResult, Classes, WireTypes
<1>7. CASE NoAnswer(h) BY <1>0, <1>7 DEF PiTypeOK, NoAnswer, Failed, WireTypes
<1>8. ASSUME NEW kind \in Kinds, Refuse(h, kind) PROVE WireTypes'
  BY <1>0, <1>8 DEF PiTypeOK, Refuse, Failed, WireTypes
<1> QED
  BY <1>1, <1>2, <1>3, <1>4, <1>5, <1>6, <1>7, <1>8 DEF GatewayStep, HookStep

LEMMA PiTypeStep ==
  ASSUME PiTypeOK, RowsFollowLedger, [PiNext]_piVars
  PROVE  PiTypeOK'
<1>1. LedgerTypeOK' BY PiLedgerStep, LedgerTypeStep DEF PiTypeOK
<1>2. ASSUME NEW h \in Hooks, NEW kind \in Kinds, CarryOut(h, kind)
      PROVE  RowTypes' /\ RunTypes' /\ WireTypes'
  <2>1. RowTypes'
    <3>1. CallOf[h] \in Calls /\ Handler(CallOf[h], kind) BY <1>2, HookAssumptions DEF CarryOut
    <3>2. CASE PiSame BY <3>2 DEF PiSame, PiTypeOK, RowTypes
    <3>3. CASE PiStarts(CallOf[h]) \/ PiCharges(CallOf[h])
      BY <3>1, <3>3 DEF PiStarts, PiCharges, PiTypeOK, RowTypes
    <3>4. ASSUME NEW s, kind \notin {"preflight", "finalize"},
                 PiCloses(CallOf[h], s, IF kind = "last" THEN "result_unknown" ELSE kind)
          PROVE  RowTypes'
      BY <3>1, <3>4 DEF PiCloses, PiTypeOK, RowTypes, Kinds, Classes
    <3> QED BY <3>1, <3>2, <3>3, <3>4, HandlerMoves
  <2>2. RunTypes' /\ WireTypes'
    BY <1>2 DEF CarryOut, Granted, Go, PiTypeOK, RunTypes, WireTypes, runVars, Phases
  <2> QED BY <2>1, <2>2
<1>3. ASSUME NEW h \in Hooks, GatewayStep(h) PROVE RowTypes' /\ RunTypes' /\ WireTypes'
  BY <1>3, GatewayLeavesRows, GatewayTypes DEF PiTypeOK, piRowVars, runVars, RowTypes, RunTypes
<1>4. ASSUME RunStep PROVE RowTypes' /\ RunTypes' /\ WireTypes'
  <2>1. RowTypes'
    BY <1>4, RunMoves DEF PiSame, PiFences, Fence, PiTypeOK, RowTypes, Classes
  <2>2. RunTypes'
    BY <1>4 DEF RunStep, LeaseRunsOut, RecoverExpiredRun, ClaimAgain, RunEnds, RunCompletes,
      PiTypeOK, RunTypes
  <2>3. WireTypes' BY <1>4, RunMoves DEF gatewayVars, piWireVars, PiTypeOK, WireTypes
  <2> QED BY <2>1, <2>2, <2>3
<1>5. ASSUME NEW c \in Calls, MigrateStuck(c) \/ AdminConfirmFailure(c)
      PROVE  RowTypes' /\ RunTypes' /\ WireTypes'
  BY <1>5 DEF MigrateStuck, AdminConfirmFailure, runVars, gatewayVars, piWireVars, PiTypeOK,
    RowTypes, RunTypes, WireTypes, Classes
<1>6. ASSUME UNCHANGED <<piRowVars, runVars, gatewayVars, piWireVars>>
      PROVE  RowTypes' /\ RunTypes' /\ WireTypes'
  BY <1>6 DEF piRowVars, runVars, gatewayVars, piWireVars, PiTypeOK, RowTypes, RunTypes, WireTypes
<1>7. RowTypes' /\ RunTypes' /\ WireTypes'
  BY <1>2, <1>3, <1>4, <1>5, <1>6 DEF PiNext, RequestStep, GatewayStep, piVars
<1> QED BY <1>1, <1>7 DEF PiTypeOK, RowTypes, RunTypes, WireTypes

-----------------------------------------------------------------------------
(***************************************************************************)
(* An invocation that was given a permit shows it: by where it stands, by  *)
(* a report under way, or by its request to the upstream.                  *)
(***************************************************************************)
Reports == Kinds \ {"preflight"}

Dispatched(h) ==
  \/ hook[h] \notin {"idle", "preflight", "over"}
  \/ \E kind \in Reports : <<h, kind>> \in net
  \/ h \in inFlight \cup received

OneDispatch ==
  /\ \A h \in Hooks : Dispatched(h) => status[CallOf[h]] # "absent"
  /\ \A g, h \in Hooks : Dispatched(g) /\ Dispatched(h) /\ CallOf[g] = CallOf[h] => g = h

(***************************************************************************)
(* What is reported is so: a success was received, and what is said not to *)
(* be sent is nowhere on the wire.                                         *)
(***************************************************************************)
Nowhere(h) == h \notin inFlight \cup received

ReportsAreTrue ==
  /\ inFlight \cap received = {}
  /\ \A h \in Hooks : hook[h] = "success" \/ <<h, "finalize">> \in net => h \in received
  /\ \A h \in Hooks : hook[h] = "definitely_not_sent" \/ <<h, "definitely_not_sent">> \in net
                        => Nowhere(h)

RowsAreDeserved ==
  /\ \A p \in settles : \E h \in received : CallOf[h] = p[1]
  /\ \A c \in Calls : error_type[c] = "definitely_not_sent"
       => \A h \in Hooks : CallOf[h] = c => Nowhere(h)

NoneRunsLeft == run \in {"queued", "ended"} => \A c \in Calls : status[c] # "running"

PiInv ==
  PiTypeOK /\ RowsFollowLedger /\ OneDispatch /\ ReportsAreTrue /\ RowsAreDeserved /\ NoneRunsLeft

LEMMA CallOfHook == \A h \in Hooks : CallOf[h] \in Calls BY HookAssumptions

(***************************************************************************)
(* The Gateway dispatches nothing that is not dispatched already, and puts *)
(* nothing on the wire.                                                    *)
(***************************************************************************)
LEMMA GatewayKeeps ==
  ASSUME PiTypeOK, ReportsAreTrue, NEW h \in Hooks, GatewayStep(h)
  PROVE  /\ \A g \in Hooks : Dispatched(g)' => Dispatched(g)
         /\ \A g \in Hooks : Nowhere(g) => Nowhere(g)'
         /\ received \subseteq received' /\ ReportsAreTrue'
<1> USE DEF PiTypeOK, ReportsAreTrue, Dispatched, Nowhere, Reports
<1>k. {"finalize", "last", "definitely_not_sent", "failed_confirmed", "result_unknown"}
        \subseteq Reports
  BY DEF Kinds, Classes
<1>1. CASE ToolCall(h) BY <1>1 DEF ToolCall, Go
<1>2. CASE NotDispatched(h) BY <1>2 DEF NotDispatched, Go
<1>3. CASE Receive(h) BY <1>3 DEF Receive, gatewayVars
<1>4. CASE Unconfirmed(h) \/ WorkerDies(h)
  BY <1>4 DEF Unconfirmed, WorkerDies, Go, piWireVars
<1>5. CASE Answered(h, "success") \/ Answered(h, "failed_confirmed")
  BY <1>5 DEF Answered, Go, piWireVars
<1>6. CASE ToolResult(h)
  <2>1. PICK phase \in {"finalizing", "failing"} : hook' = [hook EXCEPT ![h] = phase]
    BY <1>6 DEF ToolResult, Go
  <2>2. PICK kind \in Classes \cup {"finalize"} :
          /\ net' = net \cup {<<h, kind>>} /\ UNCHANGED <<inFlight, received>>
          /\ kind = "finalize" => hook[h] = "success"
          /\ kind = "definitely_not_sent" => hook[h] = "definitely_not_sent"
    BY <1>6 DEF ToolResult, Classes
  <2>3. Dispatched(h) BY <1>6 DEF ToolResult, Classes
  <2>4. \A g \in Hooks : Dispatched(g)' => Dispatched(g) BY <2>1, <2>2, <2>3
  <2>5. ReportsAreTrue' BY <2>1, <2>2
  <2> QED BY <2>2, <2>4, <2>5
<1>7. CASE NoAnswer(h) BY <1>7, <1>k DEF NoAnswer, Failed, Waiting, Go
<1>8. ASSUME NEW kind \in Kinds, Refuse(h, kind)
      PROVE  /\ \A g \in Hooks : Dispatched(g)' => Dispatched(g)
             /\ \A g \in Hooks : Nowhere(g) => Nowhere(g)'
             /\ received \subseteq received' /\ ReportsAreTrue'
  <2>1. CASE Awaited(h, kind)
    <3>1. hook[h] \in {"preflight", "finalizing", "failing", "last"}
      BY <2>1 DEF Awaited
    <3>2. Failed(h, net \ {<<h, kind>>}) /\ UNCHANGED <<inFlight, received>>
      BY <1>8, <2>1 DEF Refuse
    <3>3. CASE hook[h] \in {"finalizing", "failing"}
      <4>1. /\ hook' = [hook EXCEPT ![h] = "last"]
            /\ net' = (net \ {<<h, kind>>}) \cup {<<h, "last">>}
        BY <3>2, <3>3 DEF Failed, Go
      <4> QED BY <3>2, <3>3, <4>1, <1>k
    <3>4. CASE hook[h] \notin {"finalizing", "failing"}
      <4>1. hook' = [hook EXCEPT ![h] = "over"] /\ net' = net \ {<<h, kind>>}
        BY <3>2, <3>4 DEF Failed, Go
      <4> QED BY <3>1, <3>2, <3>4, <4>1, <1>k
    <3> QED BY <3>3, <3>4
  <2>2. CASE ~Awaited(h, kind) BY <1>8, <2>2 DEF Refuse
  <2> QED BY <2>1, <2>2
<1> QED BY <1>1, <1>2, <1>3, <1>4, <1>5, <1>6, <1>7, <1>8 DEF GatewayStep, HookStep

(***************************************************************************)
(* A request that is carried out dispatches only what a preflight allows,  *)
(* and reports what is true of the call.                                   *)
(***************************************************************************)
LEMMA PreflightKeeps ==
  ASSUME PiInv, NEW h \in Hooks, CarryOut(h, "preflight")
  PROVE  OneDispatch' /\ ReportsAreTrue' /\ RowsAreDeserved'
<1> DEFINE c == CallOf[h]
<1>c. c \in Calls /\ "preflight" \in Kinds BY CallOfHook DEF Kinds
<1>t. PiTypeOK /\ RowsFollowLedger BY DEF PiInv
<1>1. PiStarts(c)
  <2>1. Handler(c, "preflight") BY DEF CarryOut
  <2> QED BY <2>1, <1>c, <1>t, HandlerMoves
<1>2. \A g \in Hooks : CallOf[g] = c => ~Dispatched(g)
  BY <1>1 DEF PiStarts, PiInv, OneDispatch
<1>3. /\ net' \subseteq net /\ received' = received
      /\ \/ hook' = [hook EXCEPT ![h] = "calling"] /\ inFlight' = inFlight \cup {h}
         \/ hook' = hook /\ inFlight' = inFlight
  BY DEF CarryOut, Granted, Go
<1>4. \A g \in Hooks : g # h => (Dispatched(g)' => Dispatched(g)) /\ (Nowhere(g) => Nowhere(g)')
  BY <1>3, <1>t DEF Dispatched, Nowhere, PiTypeOK
<1>5. \A d \in Calls : status'[d] = IF d = c THEN "running" ELSE status[d]
  BY <1>1, <1>t DEF PiStarts, PiTypeOK
<1>6. OneDispatch'
  BY <1>2, <1>4, <1>5, CallOfHook DEF PiInv, OneDispatch
<1>7. ~Dispatched(h) BY <1>2
<1>8. ReportsAreTrue'
  BY <1>3, <1>4, <1>7, <1>t
     DEF PiInv, ReportsAreTrue, Dispatched, Nowhere, Reports, Kinds, Classes, PiTypeOK
<1>9. RowsAreDeserved'
  <2>1. UNCHANGED <<settles, error_type>> /\ error_type[c] = "none"
    BY <1>1, <1>c, <1>t DEF PiStarts, RowsFollowLedger
  <2> QED BY <2>1, <1>3, <1>4 DEF PiInv, RowsAreDeserved
<1> QED BY <1>6, <1>8, <1>9

LEMMA ReportKeeps ==
  ASSUME PiInv, NEW h \in Hooks, NEW kind \in Reports, CarryOut(h, kind)
  PROVE  OneDispatch' /\ ReportsAreTrue' /\ RowsAreDeserved'
<1> DEFINE c == CallOf[h]
<1>c. c \in Calls /\ kind \in Kinds /\ kind # "preflight" BY CallOfHook DEF Reports
<1>t. PiTypeOK /\ RowsFollowLedger BY DEF PiInv
<1>0. Dispatched(h) BY DEF Dispatched, CarryOut
<1>1. /\ net' \subseteq net /\ UNCHANGED <<inFlight, received>>
      /\ \/ hook' = [hook EXCEPT ![h] = "over"] \/ hook' = hook
  BY <1>c DEF CarryOut, Granted, Go
<1>2. \A g \in Hooks : (Dispatched(g)' => Dispatched(g)) /\ (Nowhere(g)' <=> Nowhere(g))
  BY <1>1, <1>t DEF Dispatched, Nowhere, PiTypeOK
<1>3. \/ PiSame
      \/ kind = "finalize" /\ PiCharges(c)
      \/ \E s : PiCloses(c, s, IF kind = "last" THEN "result_unknown" ELSE kind)
  <2>1. Handler(c, kind) BY DEF CarryOut
  <2> QED BY <2>1, <1>c, <1>t, HandlerMoves
<1>4. \A d \in Calls : status[d] # "absent" => status'[d] # "absent"
  BY <1>3, <1>c, <1>t DEF PiSame, PiCharges, PiCloses, PiTypeOK
<1>5. OneDispatch' BY <1>2, <1>4, CallOfHook DEF PiInv, OneDispatch
<1>6. ReportsAreTrue' BY <1>1, <1>2, <1>t DEF PiInv, ReportsAreTrue, PiTypeOK
<1>7. RowsAreDeserved'
  <2>1. CASE PiSame BY <2>1, <1>1, <1>2 DEF PiSame, PiInv, RowsAreDeserved
  <2>2. CASE kind = "finalize" /\ PiCharges(c)
    <3>1. h \in received BY <2>2 DEF CarryOut, PiInv, ReportsAreTrue
    <3>2. settles' = settles \cup {PiPermit(c)} /\ error_type' = error_type
      BY <2>2 DEF PiCharges
    <3> QED BY <3>1, <3>2, <1>1, <1>2, <1>c, PiPermitShape DEF PiInv, RowsAreDeserved
  <2>3. ASSUME NEW s, PiCloses(c, s, IF kind = "last" THEN "result_unknown" ELSE kind)
        PROVE  RowsAreDeserved'
    <3>1. kind = "definitely_not_sent" => \A g \in Hooks : CallOf[g] = c => Nowhere(g)
      <4> SUFFICES ASSUME kind = "definitely_not_sent", NEW g \in Hooks, CallOf[g] = c, ~Nowhere(g)
                   PROVE  FALSE
        OBVIOUS
      <4>1. Nowhere(h) BY DEF CarryOut, PiInv, ReportsAreTrue
      <4>2. Dispatched(g) BY DEF Dispatched, Nowhere
      <4> QED BY <4>1, <4>2, <1>0 DEF PiInv, OneDispatch
    <3>2. /\ settles' = settles
          /\ \A d \in Calls : d # c => error_type'[d] = error_type[d]
          /\ error_type'[c] = "definitely_not_sent" => kind = "definitely_not_sent"
      BY <2>3, <1>c, <1>t DEF PiCloses, PiTypeOK
    <3> QED BY <3>1, <3>2, <1>1, <1>2 DEF PiInv, RowsAreDeserved
  <2> QED BY <1>3, <2>1, <2>2, <2>3
<1> QED BY <1>5, <1>6, <1>7

(***************************************************************************)
(* The rows of the calls are closed without a word from the Gateway.       *)
(***************************************************************************)
LEMMA ClosingKeeps ==
  ASSUME PiInv, UNCHANGED <<gatewayVars, piWireVars>>,
         \/ PiSame \/ PiFences
         \/ \E c \in Calls : \E s : \E e \in {"result_unknown", "admin_confirmed_failure"} :
              PiCloses(c, s, e)
  PROVE  OneDispatch' /\ ReportsAreTrue' /\ RowsAreDeserved'
<1>t. PiTypeOK BY DEF PiInv
<1>1. /\ settles' = settles
      /\ \A d \in Calls : /\ status[d] # "absent" => status'[d] # "absent"
                          /\ error_type'[d] = "definitely_not_sent"
                               => error_type[d] = "definitely_not_sent"
  BY <1>t DEF PiSame, PiFences, Fence, PiCloses, PiTypeOK
<1>2. UNCHANGED <<hook, net, inFlight, received>> BY DEF gatewayVars, piWireVars
<1>3. \A g \in Hooks : (Dispatched(g)' <=> Dispatched(g)) /\ (Nowhere(g)' <=> Nowhere(g))
  BY <1>2 DEF Dispatched, Nowhere
<1>4. OneDispatch' BY <1>1, <1>3, CallOfHook DEF PiInv, OneDispatch
<1>5. ReportsAreTrue' BY <1>2, <1>3 DEF PiInv, ReportsAreTrue
<1>6. RowsAreDeserved' BY <1>1, <1>2, <1>3 DEF PiInv, RowsAreDeserved
<1> QED BY <1>4, <1>5, <1>6

LEMMA WireStep ==
  ASSUME PiInv, [PiNext]_piVars
  PROVE  OneDispatch' /\ ReportsAreTrue' /\ RowsAreDeserved'
<1>t. PiTypeOK /\ RowsFollowLedger /\ ReportsAreTrue BY DEF PiInv
<1>1. ASSUME NEW h \in Hooks, GatewayStep(h)
      PROVE  OneDispatch' /\ ReportsAreTrue' /\ RowsAreDeserved'
  <2>1. UNCHANGED <<settles, status, error_type>> BY <1>1, GatewayLeavesRows DEF PiSame
  <2>2. /\ \A g \in Hooks : Dispatched(g)' => Dispatched(g)
        /\ \A g \in Hooks : Nowhere(g) => Nowhere(g)'
        /\ received \subseteq received' /\ ReportsAreTrue'
    BY <1>1, <1>t, GatewayKeeps
  <2> QED BY <2>1, <2>2 DEF PiInv, OneDispatch, RowsAreDeserved
<1>2. ASSUME NEW h \in Hooks, NEW kind \in Kinds, CarryOut(h, kind)
      PROVE  OneDispatch' /\ ReportsAreTrue' /\ RowsAreDeserved'
  <2>1. kind = "preflight" \/ kind \in Reports BY DEF Reports
  <2> QED BY <1>2, <2>1, PreflightKeeps, ReportKeeps
<1>3. ASSUME RunStep PROVE OneDispatch' /\ ReportsAreTrue' /\ RowsAreDeserved'
  BY <1>3, RunMoves, ClosingKeeps
<1>4. ASSUME NEW c \in Calls, MigrateStuck(c) \/ AdminConfirmFailure(c)
      PROVE  OneDispatch' /\ ReportsAreTrue' /\ RowsAreDeserved'
  <2>1. UNCHANGED <<gatewayVars, piWireVars>> BY <1>4 DEF MigrateStuck, AdminConfirmFailure
  <2>2. \E s : \E e \in {"result_unknown", "admin_confirmed_failure"} : PiCloses(c, s, e)
    BY <1>4, <1>t, StuckMoves, AdminMoves
  <2> QED BY <2>1, <2>2, ClosingKeeps
<1>5. ASSUME PiSame, UNCHANGED <<gatewayVars, piWireVars>>
      PROVE  OneDispatch' /\ ReportsAreTrue' /\ RowsAreDeserved'
  BY <1>5, ClosingKeeps
<1>6. ASSUME CreditStep, UNCHANGED piRowVars PROVE PiSame
  BY <1>6 DEF CreditStep, GrantWelcome, AdminAdjust, SetQuota, AdvanceMonth, permitVars,
              piRowVars, PiSame
<1>7. ASSUME UNCHANGED piVars PROVE PiSame /\ UNCHANGED <<gatewayVars, piWireVars>>
  BY <1>7 DEF piVars, ledgerVars, permitVars, piRowVars, PiSame
<1> QED BY <1>1, <1>2, <1>3, <1>4, <1>5, <1>6, <1>7 DEF PiNext, RequestStep, GatewayStep

(***************************************************************************)
(* Nothing starts a call of a run that was left: a preflight needs the     *)
(* lease, and what takes the lease away closes the rows.                   *)
(***************************************************************************)
LEMMA LeftStep ==
  ASSUME PiInv, [PiNext]_piVars
  PROVE  NoneRunsLeft'
<1>t. PiTypeOK /\ RowsFollowLedger /\ NoneRunsLeft BY DEF PiInv
<1>m. PiMoves BY <1>t, StepMoves
<1>1. CASE \E h \in Hooks, kind \in Kinds : CarryOut(h, kind)
  BY <1>1 DEF CarryOut, Leased, runVars, NoneRunsLeft
<1>2. CASE RecoverExpiredRun \/ RunEnds
  BY <1>2, <1>t DEF RecoverExpiredRun, RunEnds, Fence, PiTypeOK, NoneRunsLeft
<1>3. CASE LeaseRunsOut \/ ClaimAgain \/ RunCompletes
  BY <1>3 DEF LeaseRunsOut, ClaimAgain, RunCompletes, piRowVars, NoneRunsLeft
<1>4. CASE \E c \in Calls : MigrateStuck(c) \/ AdminConfirmFailure(c)
  BY <1>4, <1>t DEF MigrateStuck, AdminConfirmFailure, runVars, PiTypeOK, NoneRunsLeft
<1>5. ASSUME UNCHANGED <<status, run>> PROVE NoneRunsLeft' BY <1>5, <1>t DEF NoneRunsLeft
<1>6. CASE \E h \in Hooks : GatewayStep(h)
  BY <1>5, <1>6, GatewayLeavesRows DEF piRowVars, runVars
<1> QED
  BY <1>1, <1>2, <1>3, <1>4, <1>5, <1>6
     DEF PiNext, RunStep, RequestStep, GatewayStep, piVars, piRowVars, runVars

LEMMA PiInvInit == PiInit => PiInv
<1> SUFFICES ASSUME PiInit PROVE PiInv OBVIOUS
<1>1. PiTypeOK BY LedgerTypeInit DEF PiInit, PiTypeOK, Phases
<1>2. RowsFollowLedger BY DEF PiInit, LedgerInit, RowsFollowLedger
<1>3. OneDispatch /\ ReportsAreTrue /\ RowsAreDeserved /\ NoneRunsLeft
  BY CallOfHook
     DEF PiInit, LedgerInit, OneDispatch, ReportsAreTrue, RowsAreDeserved, NoneRunsLeft,
         Dispatched, Nowhere
<1> QED BY <1>1, <1>2, <1>3 DEF PiInv

LEMMA PiInvStep == PiInv /\ [PiNext]_piVars => PiInv'
<1> SUFFICES ASSUME PiInv, [PiNext]_piVars PROVE PiInv' OBVIOUS
<1>1. PiTypeOK' /\ RowsFollowLedger'
  BY PiTypeStep, StepMoves, MovesKeepRows DEF PiInv
<1> QED BY <1>1, WireStep, LeftStep DEF PiInv

(***************************************************************************)
(* PiInv holds whatever is lost, late, repeated, recovered or reconciled.  *)
(***************************************************************************)
THEOREM PiInvariant == PiSpec => []PiInv
  BY PiInvInit, PiInvStep, PTL DEF PiSpec

(***************************************************************************)
(* The types of rows, runs, invocations and requests.                      *)
(***************************************************************************)
THEOREM PiTypeCorrect == PiSpec => []PiTypeOK
<1>1. PiInv => PiTypeOK BY DEF PiInv
<1> QED BY <1>1, PiInvariant, PTL

(***************************************************************************)
(* No repeated hook, lost answer or second attempt dispatches a call       *)
(* twice; an open reservation has a row to be found by; and a run that was *)
(* left holds points for unknown calls only.                               *)
(***************************************************************************)
THEOREM PiCallsAreSafe == PiSpec => []PiCallIsSafe
<1>1. PiInv => PiAtMostOnce
  BY DEF PiInv, PiTypeOK, OneDispatch, Dispatched, PiAtMostOnce
<1>2. PiInv => OpenPermitHasRow
  <2> SUFFICES ASSUME PiInv, NEW c \in Calls
               PROVE  /\ PiPermit(c) \in reserves /\ ~Terminal(PiPermit(c))
                           => status[c] \in {"running", "unknown"}
                      /\ status[c] = "running"
                           => PiPermit(c) \in reserves /\ ~Terminal(PiPermit(c))
    BY DEF OpenPermitHasRow
  <2> QED BY DEF PiInv, PiTypeOK, RowsFollowLedger
<1>3. PiInv => LeftRunsAreClosed
  <2> SUFFICES ASSUME PiInv, run \in {"queued", "ended"}
               PROVE  /\ \A c \in Calls : status[c] # "running"
                      /\ \A p \in reserves : ~Terminal(p) => status[p[1]] = "unknown"
    BY DEF LeftRunsAreClosed
  <2>1. \A c \in Calls : status[c] # "running" BY DEF PiInv, NoneRunsLeft
  <2>2. \A p \in reserves : p[1] \in Calls /\ p = PiPermit(p[1])
    BY DEF PiInv, PiTypeOK, LedgerTypeOK, Permits, RowsFollowLedger
  <2> QED BY <2>1, <2>2 DEF PiInv, PiTypeOK, RowsFollowLedger
<1>4. PiInv => PiCallIsSafe BY <1>1, <1>2, <1>3 DEF PiCallIsSafe
<1> QED BY <1>4, PiInvariant, PTL

(***************************************************************************)
(* Only what the upstream received is charged, only what it never receives *)
(* is given back as not sent, and nothing is both.                         *)
(***************************************************************************)
THEOREM PiChargesAreDeserved == PiSpec => []ChargesAreDeserved
<1>1. PiInv => ChargesAreDeserved
  BY DEF PiInv, PiTypeOK, RowsFollowLedger, RowsAreDeserved, Nowhere, ChargesAreDeserved
<1> QED BY <1>1, PiInvariant, PTL

(***************************************************************************)
(* The calls of Pi use the ledger as it allows, so its points add up and   *)
(* its quotas hold under all their interleavings too.                      *)
(***************************************************************************)
THEOREM PiImplementsLedger == PiSpec => LedgerSpec
<1>1. PiInit => LedgerInit BY DEF PiInit
<1>2. [PiNext]_piVars => [LedgerNext]_ledgerVars BY PiLedgerStep
<1> QED BY <1>1, <1>2, PTL DEF PiSpec, LedgerSpec

-----------------------------------------------------------------------------
(***************************************************************************)
(* The contract of a tool call.  Its variables, as the ledger and the wire *)
(* have them: a call has at most one request.                              *)
(***************************************************************************)
PiBill == [c \in Calls |-> PiBillOf(c)]
PiDelivered == [c \in Calls |-> IF \E h \in received : CallOf[h] = c THEN 1 ELSE 0]

PiContractIsLedger ==
  [c \in Calls |-> Cardinality({h \in received : CallOf[h] = c})] = PiDelivered

LEMMA PiContractShape == PiInv => PiContractIsLedger
<1> SUFFICES ASSUME PiInv, NEW c \in Calls
             PROVE  Cardinality({h \in received : CallOf[h] = c})
                      = IF \E h \in received : CallOf[h] = c THEN 1 ELSE 0
  BY DEF PiContractIsLedger, PiDelivered
<1>1. CASE \E h \in received : CallOf[h] = c
  <2>1. PICK h \in received : CallOf[h] = c BY <1>1
  <2>2. \A g \in received : CallOf[g] = c => g = h
    BY <2>1 DEF PiInv, PiTypeOK, OneDispatch, Dispatched
  <2>3. {g \in received : CallOf[g] = c} = {h} BY <2>1, <2>2
  <2> QED BY <1>1, <2>3, FS_Singleton
<1>2. CASE ~\E h \in received : CallOf[h] = c
  <2>1. {h \in received : CallOf[h] = c} = {} BY <1>2
  <2> QED BY <1>2, <2>1, FS_EmptySet
<1> QED BY <1>1, <1>2

ContractNow == PiContract!ContractNext \/ UNCHANGED PiContract!contractVars

LEMMA RowsKeepContract ==
  ASSUME PiInv, PiContractIsLedger, PiContractIsLedger', UNCHANGED received, PiMoves
  PROVE  ContractNow
<1>t. PiTypeOK /\ RowsFollowLedger BY DEF PiInv
<1>r. settles \subseteq reserves /\ releases \subseteq reserves
  BY <1>t DEF PiTypeOK, LedgerTypeOK
<1>d. PiDelivered' = PiDelivered BY DEF PiDelivered
<1>b. \A c \in Calls : PiBill[c] = PiBillOf(c) BY DEF PiBill
<1>1. ASSUME UNCHANGED <<reserves, settles, releases>> PROVE ContractNow
  BY <1>1, <1>d DEF ContractNow, PiContract!contractVars, PiContractIsLedger, PiBillOf
<1>2. ASSUME NEW c \in Calls, NEW now, PiBill' = [PiBill EXCEPT ![c] = now],
             \/ PiBill[c] = "none" /\ now = "held"
             \/ PiBill[c] = "held" /\ now \in {"charged", "refunded"}
      PROVE  ContractNow
  <2>1. PiContract!Hold(c) \/ PiContract!Charge(c) \/ PiContract!Refund(c)
    BY <1>2, <1>d
       DEF PiContract!Hold, PiContract!Charge, PiContract!Refund, PiBill, PiContractIsLedger
  <2> QED BY <2>1 DEF ContractNow, PiContract!ContractNext
<1>3. ASSUME NEW c \in Calls, PiStarts(c) PROVE ContractNow
  <2>1. PiPermit(c) \notin reserves BY <1>3, <1>t DEF PiStarts, RowsFollowLedger
  <2>2. PiBill[c] = "none" BY <2>1, <1>r, <1>b DEF PiBillOf
  <2>3. PiBill' = [PiBill EXCEPT ![c] = "held"]
    BY <1>3, <2>1, <1>r, PiPermitShape DEF PiStarts, PiBill, PiBillOf
  <2> QED BY <1>2, <2>2, <2>3
<1>4. ASSUME NEW c \in Calls, PiCharges(c) PROVE ContractNow
  <2>1. PiBill[c] = "held" BY <1>4, <1>b DEF PiCharges, PiBillOf, Terminal
  <2>2. PiBill' = [PiBill EXCEPT ![c] = "charged"]
    BY <1>4, PiPermitShape DEF PiCharges, PiBill, PiBillOf
  <2> QED BY <1>2, <2>1, <2>2
<1>5. ASSUME NEW c \in Calls, NEW s, NEW e, PiCloses(c, s, e) PROVE ContractNow
  <2>1. CASE releases' = releases BY <1>1, <1>5, <2>1 DEF PiCloses
  <2>2. CASE releases' = releases \cup {PiPermit(c)} /\ ~Terminal(PiPermit(c))
             /\ PiPermit(c) \in reserves
    <3>1. PiBill[c] = "held" BY <2>2, <1>b DEF PiBillOf, Terminal
    <3>2. PiBill' = [PiBill EXCEPT ![c] = "refunded"]
      BY <1>5, <2>2, PiPermitShape DEF PiCloses, PiBill, PiBillOf, Terminal
    <3> QED BY <1>2, <3>1, <3>2
  <2> QED BY <1>5, <2>1, <2>2 DEF PiCloses
<1> QED BY <1>1, <1>3, <1>4, <1>5 DEF PiMoves, PiSame, PiFences

LEMMA ArrivalKeepsContract ==
  ASSUME PiInv, PiContractIsLedger, PiContractIsLedger', NEW h \in Hooks, Receive(h)
  PROVE  ContractNow
<1> DEFINE c == CallOf[h]
<1>t. PiTypeOK /\ RowsFollowLedger BY DEF PiInv
<1>c. c \in Calls BY CallOfHook
<1>1. /\ received' = received \cup {h} /\ h \in inFlight
      /\ UNCHANGED <<reserves, settles, releases>>
  BY DEF Receive, ledgerVars, permitVars
<1>2. ~\E g \in received : CallOf[g] = c
  BY <1>1, <1>t DEF PiInv, PiTypeOK, OneDispatch, Dispatched, ReportsAreTrue
<1>3. PiPermit(c) \in reserves
  <2>1. status[c] # "absent" BY <1>1 DEF PiInv, OneDispatch, Dispatched
  <2> QED BY <2>1, <1>c, <1>t DEF RowsFollowLedger
<1>4. PiBill[c] # "none" /\ PiBill' = PiBill BY <1>1, <1>3, <1>c DEF PiBill, PiBillOf
<1>5. PiDelivered[c] = 0 /\ PiDelivered' = [PiDelivered EXCEPT ![c] = 1]
  BY <1>1, <1>2, <1>c DEF PiDelivered
<1>6. PiContract!Deliver(c)
  BY <1>4, <1>5 DEF PiContract!Deliver, PiBill, PiContractIsLedger
<1> QED BY <1>6, <1>c DEF ContractNow, PiContract!ContractNext

LEMMA PiContractStep ==
  ASSUME PiInv, PiContractIsLedger, PiContractIsLedger', [PiNext]_piVars
  PROVE  ContractNow
<1>m. PiMoves BY StepMoves DEF PiInv
<1>1. CASE UNCHANGED received BY <1>1, <1>m, RowsKeepContract
<1>2. CASE \E h \in Hooks : Receive(h) BY <1>2, ArrivalKeepsContract
<1>3. ASSUME NEW h \in Hooks, GatewayStep(h) PROVE UNCHANGED received \/ Receive(h)
  BY <1>3
     DEF GatewayStep, HookStep, ToolCall, NotDispatched, Unconfirmed, Answered, ToolResult,
         NoAnswer, WorkerDies, Refuse, piWireVars
<1>4. ASSUME RunStep PROVE UNCHANGED received BY <1>4, RunMoves DEF piWireVars
<1>5. ASSUME NEW h \in Hooks, NEW kind \in Kinds, CarryOut(h, kind) PROVE UNCHANGED received
  BY <1>5 DEF CarryOut
<1>6. ASSUME NEW c \in Calls, MigrateStuck(c) \/ AdminConfirmFailure(c)
      PROVE  UNCHANGED received
  BY <1>6 DEF MigrateStuck, AdminConfirmFailure, piWireVars
<1> QED
  BY <1>1, <1>2, <1>3, <1>4, <1>5, <1>6 DEF PiNext, RequestStep, GatewayStep, piVars, piWireVars

(***************************************************************************)
(* The ledger of Pi keeps the contract of a tool call, although late       *)
(* reports write over rows that were settled: at most one request, one     *)
(* hold, and one charge or refund of it.                                   *)
(***************************************************************************)
THEOREM PiIsBilledByContract == PiSpec => PiKeepsContract
<1>1. PiInit => PiContract!ContractInit
  <2> SUFFICES ASSUME PiInit PROVE PiContract!ContractInit OBVIOUS
  <2>1. PiContractIsLedger BY PiInvInit, PiContractShape
  <2>2. reserves = {} /\ settles = {} /\ releases = {} /\ received = {}
    BY DEF PiInit, LedgerInit
  <2> QED
    BY <2>1, <2>2 DEF PiContractIsLedger, PiDelivered, PiBillOf, PiContract!ContractInit
<1>2. PiInv /\ PiInv' /\ [PiNext]_piVars
        => [PiContract!ContractNext]_(PiContract!contractVars)
  <2>1. PiInv' => PiContractIsLedger' BY PiContractShape, PTL
  <2> QED BY <2>1, PiContractShape, PiContractStep DEF ContractNow
<1> QED
  BY <1>1, <1>2, PiInvariant, PTL DEF PiSpec, PiKeepsContract, PiContract!ContractSpec

-----------------------------------------------------------------------------
\* The detail of a creator.

KdPlaces == {"away", "authenticated", "resolved", "again", "driving", "answered", "failed"}
KdRunStates == {"none", "running", "published", "ended"}
KdRowTypes == [art : BOOLEAN, run : [Reqs -> KdRunStates], ver : Ages, cache : Ages]

KdTypes ==
  /\ kdPc \in [Reqs -> KdPlaces]
  /\ kdRun \in [Reqs -> KdRunStates]
  /\ kdSnap \in [Reqs -> KdRowTypes]
  /\ kdTenant \in Reqs \cup {NoReq} /\ kdOwner \in Reqs \cup {NoReq}
  /\ kdArt \in BOOLEAN
  /\ kdVer \in Ages /\ kdCache \in Ages

TenantIsHeld == kdTenant # NoReq => kdPc[kdTenant] = "resolved"

(***************************************************************************)
(* A request that has not come to the engine has no run; one that waits    *)
(* for the engine has a run that goes on, or a version that is fresh.      *)
(***************************************************************************)
RunsFitRequests ==
  \A q \in Reqs :
    /\ kdPc[q] \in {"away", "authenticated", "resolved", "again"} => kdRun[q] = "none"
    /\ kdPc[q] = "driving" => \/ kdRun[q] = "running"
                              \/ kdRun[q] = "published" /\ kdVer = "fresh"

\* What a snapshot says of a run, that run has been.
SnapshotsArePast ==
  \A q, p \in Reqs :
    /\ kdSnap[q].run[p] # "none" => kdRun[p] # "none"
    /\ kdSnap[q].run[p] \in {"published", "ended"} => kdRun[p] = kdSnap[q].run[p]

\* An artifact row was made by a request that started a run.
RowsHaveRuns ==
  /\ kdArt <=> \E p \in Reqs : kdRun[p] # "none"
  /\ \A q \in Reqs : kdSnap[q].art => \E p \in Reqs : kdSnap[q].run[p] # "none"

\* As long as no run has ended, there is one at most, and the head is its own.
FirstHasHead ==
  (\A q \in Started : kdRun[q] = "running")
    => Started = {} \/ \E p \in Reqs : Started = {p} /\ kdOwner = p

KdInv ==
  /\ KdTypes /\ TenantIsHeld /\ HeadAndCacheAreTrue
  /\ RunsFitRequests /\ SnapshotsArePast /\ RowsHaveRuns /\ FirstHasHead

LEMMA KdInvInit == KdInit => KdInv
<1> SUFFICES ASSUME KdInit PROVE KdInv OBVIOUS
<1> USE DEF KdInit, KdRows
<1>1. KdTypes BY DEF KdTypes, KdPlaces, KdRunStates, KdRowTypes, Ages
<1>2. TenantIsHeld /\ HeadAndCacheAreTrue BY DEF TenantIsHeld, HeadAndCacheAreTrue
<1>3. RunsFitRequests /\ SnapshotsArePast /\ RowsHaveRuns
  BY DEF RunsFitRequests, SnapshotsArePast, RowsHaveRuns
<1>4. FirstHasHead BY DEF FirstHasHead, Started
<1> QED BY <1>1, <1>2, <1>3, <1>4 DEF KdInv

\* Nothing that FirstHasHead speaks of is touched.
LEMMA HeadIsLeft ==
  ASSUME FirstHasHead, UNCHANGED <<kdRun, kdOwner>>
  PROVE  FirstHasHead'
BY DEF FirstHasHead, Started

LEMMA RunEndsHead ==
  ASSUME KdInv, NEW q \in Reqs, NEW s \in {"published", "ended"}, kdRun[q] = "running",
         kdRun' = [kdRun EXCEPT ![q] = s]
  PROVE  FirstHasHead'
<1>1. q \in Started' /\ kdRun'[q] = s BY DEF KdInv, KdTypes, Started
<1> QED BY <1>1 DEF FirstHasHead

\* A request starts the first run, or there is one that has ended.
LEMMA StartHasHead ==
  ASSUME KdInv, NEW q \in Reqs, kdPc[q] \in {"resolved", "again"},
         ~ RowIsTaken(q), ~ (kdSnap[q].art /\ OwnerActive(q)),
         kdRun' = [kdRun EXCEPT ![q] = "running"], kdOwner' = q
  PROVE  FirstHasHead'
<1>q. kdRun[q] = "none" BY DEF KdInv, RunsFitRequests
<1>s. Started' = Started \cup {q} BY <1>q DEF KdInv, KdTypes, Started
<1> SUFFICES ASSUME \A p \in Started' : kdRun'[p] = "running" PROVE Started = {}
  BY <1>s DEF FirstHasHead
<1>1. \A p \in Started : kdRun[p] = "running"
  BY <1>s, <1>q DEF KdInv, KdTypes, Started
<1> SUFFICES ASSUME Started # {} PROVE FALSE OBVIOUS
<1>2. PICK p \in Reqs : Started = {p} /\ kdOwner = p BY <1>1 DEF KdInv, FirstHasHead
<1>3. kdArt BY <1>2 DEF KdInv, RowsHaveRuns, Started
<1>4. kdSnap[q].art BY <1>3 DEF RowIsTaken
<1>5. PICK r \in Reqs : kdSnap[q].run[r] # "none" BY <1>4 DEF KdInv, RowsHaveRuns
<1>6. r = p BY <1>5, <1>2 DEF KdInv, SnapshotsArePast, Started
<1>7. kdSnap[q].run[p] \in KdRunStates BY DEF KdInv, KdTypes, KdRowTypes
<1>8. kdRun[p] = "running" BY <1>1, <1>2
<1>9. kdSnap[q].run[p] = "running"
  BY <1>5, <1>6, <1>7, <1>8 DEF KdInv, SnapshotsArePast, KdRunStates
<1>10. p # NoReq BY ReqsAssumption
<1> QED BY <1>2, <1>4, <1>9, <1>10 DEF OwnerActive

\* A request looks: its snapshot is what there is.
LEMMA LookKeeps ==
  ASSUME KdInv, NEW q \in Reqs, kdSnap' = [kdSnap EXCEPT ![q] = KdRows],
         UNCHANGED <<kdRun, kdArt, kdVer, kdCache>>
  PROVE  kdSnap' \in [Reqs -> KdRowTypes] /\ SnapshotsArePast' /\ RowsHaveRuns'
<1>1. KdRows \in KdRowTypes BY DEF KdInv, KdTypes, KdRowTypes, KdRows
<1>2. kdSnap' \in [Reqs -> KdRowTypes] BY <1>1 DEF KdInv, KdTypes
<1>3. \A p \in Reqs : kdSnap'[p] = IF p = q THEN KdRows ELSE kdSnap[p] BY DEF KdInv, KdTypes
<1>4. SnapshotsArePast' BY <1>3 DEF KdInv, SnapshotsArePast, KdRows
<1>5. RowsHaveRuns' BY <1>3 DEF KdInv, RowsHaveRuns, KdRows
<1> QED BY <1>2, <1>4, <1>5

LEMMA KdInvStep == KdInv /\ [KdNext]_kdVars => KdInv'
<1> SUFFICES ASSUME KdInv, [KdNext]_kdVars PROVE KdInv' OBVIOUS
<1> USE DEF KdInv
<1>1. ASSUME NEW q \in Reqs, Arrive(q) PROVE KdInv'
  <2>1. kdSnap' \in [Reqs -> KdRowTypes] /\ SnapshotsArePast' /\ RowsHaveRuns'
    BY <1>1, LookKeeps DEF Arrive
  <2>2. KdTypes' BY <1>1, <2>1 DEF Arrive, Goes, KdTypes, KdPlaces
  <2>3. TenantIsHeld' /\ HeadAndCacheAreTrue'
    BY <1>1 DEF Arrive, Goes, TenantIsHeld, HeadAndCacheAreTrue, KdTypes
  <2>4. RunsFitRequests' BY <1>1 DEF Arrive, Goes, RunsFitRequests, KdTypes
  <2>5. FirstHasHead' BY <1>1, HeadIsLeft DEF Arrive
  <2> QED BY <2>1, <2>2, <2>3, <2>4, <2>5
<1>2. ASSUME NEW q \in Reqs, ResolveTenant(q) PROVE KdInv'
  <2>1. KdTypes' BY <1>2 DEF ResolveTenant, Goes, KdTypes, KdPlaces
  <2>2. TenantIsHeld' /\ HeadAndCacheAreTrue'
    BY <1>2 DEF ResolveTenant, Goes, TenantIsHeld, HeadAndCacheAreTrue, KdTypes
  <2>3. RunsFitRequests' BY <1>2 DEF ResolveTenant, Goes, RunsFitRequests, KdTypes
  <2>4. SnapshotsArePast' /\ RowsHaveRuns'
    BY <1>2 DEF ResolveTenant, SnapshotsArePast, RowsHaveRuns
  <2>5. FirstHasHead' BY <1>2, HeadIsLeft DEF ResolveTenant
  <2> QED BY <2>1, <2>2, <2>3, <2>4, <2>5
<1>3. ASSUME NEW q \in Reqs, AnswerFromStore(q) PROVE KdInv'
  <2>1. KdTypes' BY <1>3 DEF AnswerFromStore, LetsGo, Goes, KdTypes, KdPlaces
  <2>2. TenantIsHeld'
    BY <1>3 DEF AnswerFromStore, LetsGo, Goes, TenantIsHeld, KdTypes
  <2>3. HeadAndCacheAreTrue' BY <1>3 DEF AnswerFromStore, HeadAndCacheAreTrue
  <2>4. RunsFitRequests' BY <1>3 DEF AnswerFromStore, Goes, RunsFitRequests, KdTypes
  <2>5. SnapshotsArePast' /\ RowsHaveRuns'
    BY <1>3 DEF AnswerFromStore, SnapshotsArePast, RowsHaveRuns
  <2>6. FirstHasHead' BY <1>3, HeadIsLeft DEF AnswerFromStore
  <2> QED BY <2>1, <2>2, <2>3, <2>4, <2>5, <2>6
<1>4. ASSUME NEW q \in Reqs, Coordinate(q) PROVE KdInv'
  <2>t. kdTenant' \in Reqs \cup {NoReq} BY <1>4 DEF Coordinate, LetsGo, KdTypes
  <2>1. CASE Goes(q, "answered") /\ UNCHANGED <<kdSnap, kdArt, kdOwner, kdRun>>
    <3>1. KdTypes' BY <1>4, <2>1, <2>t DEF Coordinate, Goes, KdTypes, KdPlaces
    <3>2. TenantIsHeld' BY <1>4, <2>1 DEF Coordinate, LetsGo, Goes, TenantIsHeld, KdTypes
    <3>3. HeadAndCacheAreTrue' BY <1>4, <2>1 DEF Coordinate, HeadAndCacheAreTrue
    <3>4. RunsFitRequests' BY <1>4, <2>1 DEF Coordinate, Goes, RunsFitRequests, KdTypes
    <3>5. SnapshotsArePast' /\ RowsHaveRuns'
      BY <1>4, <2>1 DEF Coordinate, SnapshotsArePast, RowsHaveRuns
    <3>6. FirstHasHead' BY <2>1, HeadIsLeft
    <3> QED BY <3>1, <3>2, <3>3, <3>4, <3>5, <3>6
  <2>2. CASE /\ Goes(q, IF kdPc[q] = "again" THEN "failed" ELSE "again")
             /\ kdSnap' = [kdSnap EXCEPT ![q] = KdRows]
             /\ UNCHANGED <<kdArt, kdOwner, kdRun>>
    <3>0. kdSnap' \in [Reqs -> KdRowTypes] /\ SnapshotsArePast' /\ RowsHaveRuns'
      BY <1>4, <2>2, LookKeeps DEF Coordinate
    <3>1. KdTypes' BY <1>4, <2>2, <2>t, <3>0 DEF Coordinate, Goes, KdTypes, KdPlaces
    <3>2. TenantIsHeld' BY <1>4, <2>2 DEF Coordinate, LetsGo, Goes, TenantIsHeld, KdTypes
    <3>3. HeadAndCacheAreTrue' BY <1>4, <2>2 DEF Coordinate, HeadAndCacheAreTrue
    <3>4. RunsFitRequests' BY <1>4, <2>2 DEF Coordinate, Goes, RunsFitRequests, KdTypes
    <3>6. FirstHasHead' BY <2>2, HeadIsLeft
    <3> QED BY <3>0, <3>1, <3>2, <3>3, <3>4, <3>6
  <2>3. CASE /\ ~ RowIsTaken(q) /\ ~ (kdSnap[q].art /\ OwnerActive(q))
             /\ kdArt' = TRUE /\ kdOwner' = q
             /\ kdRun' = [kdRun EXCEPT ![q] = "running"]
             /\ Goes(q, "driving") /\ UNCHANGED kdSnap
    <3>0. kdRun[q] = "none" BY <1>4 DEF Coordinate, RunsFitRequests
    <3>1. KdTypes'
      BY <1>4, <2>3, <2>t DEF Coordinate, Goes, KdTypes, KdPlaces, KdRunStates
    <3>2. TenantIsHeld' BY <1>4, <2>3 DEF Coordinate, LetsGo, Goes, TenantIsHeld, KdTypes
    <3>3. HeadAndCacheAreTrue' BY <1>4, <2>3 DEF Coordinate, HeadAndCacheAreTrue, KdTypes
    <3>4. RunsFitRequests' BY <1>4, <2>3 DEF Coordinate, Goes, RunsFitRequests, KdTypes
    <3>5. SnapshotsArePast' /\ RowsHaveRuns'
      BY <2>3, <3>0 DEF SnapshotsArePast, RowsHaveRuns, KdTypes
    <3>6. FirstHasHead' BY <1>4, <2>3, StartHasHead DEF Coordinate
    <3> QED BY <3>1, <3>2, <3>3, <3>4, <3>5, <3>6
  <2> QED BY <1>4, <2>1, <2>2, <2>3 DEF Coordinate
<1>5. ASSUME NEW q \in Reqs, PublishDetail(q) PROVE KdInv'
  <2>1. KdTypes' BY <1>5 DEF PublishDetail, KdTypes, KdRunStates, Ages
  <2>2. TenantIsHeld' /\ HeadAndCacheAreTrue'
    BY <1>5 DEF PublishDetail, TenantIsHeld, HeadAndCacheAreTrue
  <2>3. RunsFitRequests' BY <1>5 DEF PublishDetail, RunsFitRequests, KdTypes
  <2>4. SnapshotsArePast' /\ RowsHaveRuns'
    BY <1>5 DEF PublishDetail, SnapshotsArePast, RowsHaveRuns, KdTypes
  <2>5. FirstHasHead' BY <1>5, RunEndsHead DEF PublishDetail
  <2> QED BY <2>1, <2>2, <2>3, <2>4, <2>5
<1>6. ASSUME NEW q \in Reqs, FillCache(q) PROVE KdInv'
  <2>1. KdTypes' BY <1>6 DEF FillCache, Goes, KdTypes, KdPlaces, Ages
  <2>2. TenantIsHeld' BY <1>6 DEF FillCache, Goes, TenantIsHeld, KdTypes
  <2>3. HeadAndCacheAreTrue' BY <1>6 DEF FillCache, HeadAndCacheAreTrue, RunsFitRequests
  <2>4. RunsFitRequests' BY <1>6 DEF FillCache, Goes, RunsFitRequests, KdTypes
  <2>5. SnapshotsArePast' /\ RowsHaveRuns'
    BY <1>6 DEF FillCache, SnapshotsArePast, RowsHaveRuns
  <2>6. FirstHasHead' BY <1>6, HeadIsLeft DEF FillCache
  <2> QED BY <2>1, <2>2, <2>3, <2>4, <2>5, <2>6
<1>7. ASSUME NEW q \in Reqs, RunFails(q) PROVE KdInv'
  <2>1. KdTypes' BY <1>7 DEF RunFails, ReleasedOwner, Goes, KdTypes, KdPlaces, KdRunStates
  <2>2. TenantIsHeld' BY <1>7 DEF RunFails, Goes, TenantIsHeld, KdTypes
  <2>3. HeadAndCacheAreTrue'
    BY <1>7 DEF RunFails, ReleasedOwner, HeadAndCacheAreTrue, KdTypes
  <2>4. RunsFitRequests' BY <1>7 DEF RunFails, Goes, RunsFitRequests, KdTypes
  <2>5. SnapshotsArePast' /\ RowsHaveRuns'
    BY <1>7 DEF RunFails, SnapshotsArePast, RowsHaveRuns, KdTypes
  <2>6. FirstHasHead' BY <1>7, RunEndsHead DEF RunFails
  <2> QED BY <2>1, <2>2, <2>3, <2>4, <2>5, <2>6
<1>8. ASSUME NEW q \in Reqs, ProcessEnds(q) PROVE KdInv'
  <2>1. KdTypes' BY <1>8 DEF ProcessEnds, LetsGo, Goes, KdTypes, KdPlaces
  <2>2. TenantIsHeld' BY <1>8 DEF ProcessEnds, LetsGo, Goes, TenantIsHeld, KdTypes
  <2>3. HeadAndCacheAreTrue' BY <1>8 DEF ProcessEnds, HeadAndCacheAreTrue
  <2>4. RunsFitRequests' BY <1>8 DEF ProcessEnds, Goes, RunsFitRequests, KdTypes
  <2>5. SnapshotsArePast' /\ RowsHaveRuns'
    BY <1>8 DEF ProcessEnds, SnapshotsArePast, RowsHaveRuns
  <2>6. FirstHasHead' BY <1>8, HeadIsLeft DEF ProcessEnds
  <2> QED BY <2>1, <2>2, <2>3, <2>4, <2>5, <2>6
<1>9. ASSUME Expire PROVE KdInv'
  <2>1. KdTypes' BY <1>9 DEF Expire, Aged, KdTypes, Ages
  <2>2. TenantIsHeld' /\ HeadAndCacheAreTrue'
    BY <1>9 DEF Expire, Aged, TenantIsHeld, HeadAndCacheAreTrue
  <2>3. RunsFitRequests' BY <1>9 DEF Expire, RunsFitRequests
  <2>4. SnapshotsArePast' /\ RowsHaveRuns'
    BY <1>9 DEF Expire, SnapshotsArePast, RowsHaveRuns
  <2>5. FirstHasHead' BY <1>9, HeadIsLeft DEF Expire
  <2> QED BY <2>1, <2>2, <2>3, <2>4, <2>5
<1>10. ASSUME UNCHANGED kdVars PROVE KdInv'
  BY <1>10, HeadIsLeft
     DEF kdVars, KdTypes, TenantIsHeld, HeadAndCacheAreTrue, RunsFitRequests,
         SnapshotsArePast, RowsHaveRuns
<1> QED
  BY <1>1, <1>2, <1>3, <1>4, <1>5, <1>6, <1>7, <1>8, <1>9, <1>10
     DEF KdNext, DetailStep, EngineStep

LEMMA KdInvImplies == KdInv => KdTypeOK /\ HeadAndCacheAreTrue /\ FirstRunIsAlone
<1> SUFFICES ASSUME KdInv PROVE KdTypeOK /\ FirstRunIsAlone BY DEF KdInv
<1>1. KdTypeOK BY DEF KdInv, KdTypes, TenantIsHeld, KdTypeOK, KdPlaces, KdRunStates
<1>2. FirstRunIsAlone
  <2> SUFFICES ASSUME \A q \in Started : kdRun[q] = "running"
               PROVE  Cardinality(Started) <= 1
    BY DEF FirstRunIsAlone
  <2>1. Started = {} \/ \E p \in Reqs : Started = {p} BY DEF KdInv, FirstHasHead
  <2>2. Cardinality(Started) = 0 \/ Cardinality(Started) = 1
    BY <2>1, FS_EmptySet, FS_Singleton
  <2> QED BY <2>2
<1> QED BY <1>1, <1>2

(***************************************************************************)
(* Requests for a creator with stale snapshots, runs that outlive them:    *)
(* the head is held by a run that goes on, what is cached as fresh is, and *)
(* the first run of a creator is alone.                                    *)
(***************************************************************************)
THEOREM DetailStaysSound == KdSpec => [](HeadAndCacheAreTrue /\ FirstRunIsAlone)
BY KdInvInit, KdInvStep, KdInvImplies, PTL DEF KdSpec

-----------------------------------------------------------------------------
\* The cache of exported files.

ExPlaces == {"away", "looking", "rendering", "writing", "marking", "undoing",
             "answered", "failed"}
ExRowTypes == [status : {"none", "building", "ready", "failed"},
               token : Nat, file : Nat, stale : BOOLEAN]

ExTypes ==
  /\ exPc \in [Exporters -> ExPlaces]
  /\ exTok \in [Exporters -> Nat]
  /\ exRow \in ExRowTypes
  /\ exNext \in Nat \ {0} /\ exSlow \in Nat /\ exDamage \in Nat

\* Tokens are given out once: a builder at work has one of its own.
TokensAreOwn ==
  /\ exRow.token < exNext
  /\ exRow.status = "ready" => exRow.file = exRow.token
  /\ \A q \in Exporters : exTok[q] < exNext
  /\ \A q \in Exporters : Working(q) => exTok[q] # NoToken
  /\ \A q, p \in Exporters : Working(q) /\ Working(p) /\ exTok[q] = exTok[p] => q = p

FilesAreWritten ==
  /\ exFiles \subseteq 0..(exNext - 1) /\ exBad \subseteq exFiles
  /\ \A q \in Exporters :
       /\ exPc[q] \in {"rendering", "writing", "undoing"} => exTok[q] \notin exFiles
       /\ At(q, "marking") => exTok[q] \in exFiles \/ exDamage > 0

\* The row of a builder at work is building, or was marked while the answer was lost.
RowsAreBuilt ==
  \A q \in Exporters :
    Working(q) /\ Holds(q) =>
      exRow.status = "building" \/ (exRow.status = "ready" /\ At(q, "undoing"))

ExInv ==
  /\ ExTypes /\ TokensAreOwn /\ FilesAreWritten /\ RowsAreBuilt
  /\ ReadyHasFile /\ NoOrphanFiles

LEMMA ExInvInit == ExInit => ExInv
<1> SUFFICES ASSUME ExInit PROVE ExInv OBVIOUS
<1> USE DEF ExInit, NoRow, NoToken
<1>1. ExTypes BY DEF ExTypes, ExPlaces, ExRowTypes
<1>2. TokensAreOwn BY DEF TokensAreOwn, Working
<1>3. FilesAreWritten /\ RowsAreBuilt BY DEF FilesAreWritten, RowsAreBuilt, Working, At
<1>4. ReadyHasFile /\ NoOrphanFiles BY DEF ReadyHasFile, NoOrphanFiles
<1> QED BY <1>1, <1>2, <1>3, <1>4 DEF ExInv

\* A request moves on and nothing else changes.
LEMMA RequestMoves ==
  ASSUME ExInv, NEW q \in Exporters, NEW pc \in ExPlaces, To(q, pc),
         UNCHANGED <<exTok, exRow, exFiles, exBad, exNext, exSlow, exDamage>>,
         exDead' = exDead \/ exDead' = exDead \cup {exTok[q]},
         \/ ~ Working(q) /\ pc \in {"looking", "answered", "failed"}
         \/ At(q, "rendering") /\ pc = "writing"
         \/ Working(q) /\ pc = "failed" /\ exDead' = exDead \cup {exTok[q]}
  PROVE  ExInv'
<1> USE DEF ExInv
<1>1. ExTypes' BY DEF ExTypes, To
<1>w. \A p \in Exporters : p # q => exPc'[p] = exPc[p] BY DEF To, ExTypes
<1>p. exPc'[q] = pc BY DEF To, ExTypes
<1>v. \A p \in Exporters : Working(p)' => Working(p)
  BY <1>w, <1>p DEF Working, At
<1>2. TokensAreOwn' BY <1>v DEF TokensAreOwn
<1>3. FilesAreWritten' BY <1>w, <1>p DEF FilesAreWritten, At
<1>4. RowsAreBuilt'
  <2> SUFFICES ASSUME NEW p \in Exporters, Working(p)', Holds(p)'
               PROVE  (exRow.status = "building" \/ (exRow.status = "ready" /\ At(p, "undoing")))'
    BY DEF RowsAreBuilt
  <2>1. Working(p) /\ Holds(p) BY <1>v DEF Holds
  <2>2. exRow.status = "building" \/ (exRow.status = "ready" /\ At(p, "undoing"))
    BY <2>1 DEF RowsAreBuilt
  <2>3. p # q \/ exRow.status = "building" BY <2>2, <1>p DEF At, Working
  <2> QED BY <2>2, <2>3, <1>w DEF At
<1>5. ReadyHasFile'
  <2> SUFFICES ASSUME exRow.status = "ready", exRow.file \notin exFiles, exDamage = 0,
                      exRow.file \notin exDead'
               PROVE  \E p \in Exporters : At(p, "undoing")' /\ Holds(p)'
    BY DEF ReadyHasFile, ExTypes
  <2>1. PICK p \in Exporters : At(p, "undoing") /\ Holds(p) BY DEF ReadyHasFile
  <2>2. p # q BY <2>1 DEF At, Holds, Working, TokensAreOwn
  <2> QED BY <2>1, <2>2, <1>w DEF At, Holds
<1>6. NoOrphanFiles'
  <2> SUFFICES ASSUME NEW f \in exFiles, ~ (exRow.status = "ready" /\ exRow.file = f), f \notin exDead'
               PROVE  \E p \in Exporters : Working(p)' /\ exTok[p] = f
    BY DEF NoOrphanFiles
  <2>1. PICK p \in Exporters : Working(p) /\ exTok[p] = f BY DEF NoOrphanFiles
  <2>2. p # q \/ (At(q, "rendering") /\ pc = "writing") BY <2>1
  <2> QED BY <2>1, <2>2, <1>w, <1>p DEF Working, At
<1> QED BY <1>1, <1>2, <1>3, <1>4, <1>5, <1>6

\* A builder ends without a result: its file goes, and the row if it is its own.
LEMMA BuilderLeaves ==
  ASSUME ExInv, NEW q \in Exporters, Working(q), NEW pc \in {"looking", "failed"}, To(q, pc),
         exFiles' = exFiles \ {exTok[q]}, exBad' = exBad \ {exTok[q]}, MarkFailed(q),
         UNCHANGED <<exTok, exDead, exNext, exSlow, exDamage>>
  PROVE  ExInv'
<1> USE DEF ExInv
<1>r. exRow' = exRow \/ (Holds(q) /\ exRow' = [exRow EXCEPT !.status = "failed"]) BY DEF MarkFailed
<1>f. /\ exRow'.token = exRow.token /\ exRow'.file = exRow.file
      /\ exRow'.status = "failed" \/ exRow' = exRow
      /\ Holds(q) => exRow'.status = "failed"
  BY DEF MarkFailed, ExTypes, ExRowTypes
<1>1. ExTypes'
  <2>1. exPc' \in [Exporters -> ExPlaces] BY DEF ExTypes, To, ExPlaces
  <2>2. exRow' \in ExRowTypes BY <1>r DEF ExTypes, ExRowTypes
  <2> QED BY <2>1, <2>2 DEF ExTypes
<1>w. \A p \in Exporters : p # q => exPc'[p] = exPc[p] BY DEF To, ExTypes
<1>p. exPc'[q] = pc BY DEF To, ExTypes
<1>v. \A p \in Exporters : Working(p)' => Working(p) /\ p # q
  BY <1>w, <1>p DEF Working, At
<1>2. TokensAreOwn' BY <1>v, <1>f DEF TokensAreOwn
<1>o. \A p \in Exporters : Working(p)' => exTok[p] # exTok[q] BY <1>v DEF TokensAreOwn
<1>3. FilesAreWritten'
  <2>1. exFiles' \subseteq 0..(exNext' - 1) /\ exBad' \subseteq exFiles' BY DEF FilesAreWritten
  <2>2. ASSUME NEW p \in Exporters
        PROVE  /\ exPc'[p] \in {"rendering", "writing", "undoing"} => exTok[p] \notin exFiles'
               /\ At(p, "marking")' => exTok[p] \in exFiles' \/ exDamage > 0
    BY <1>w, <1>p, <1>o DEF FilesAreWritten, At, Working
  <2> QED BY <2>1, <2>2 DEF FilesAreWritten
<1>4. RowsAreBuilt'
  <2> SUFFICES ASSUME NEW p \in Exporters, Working(p)', Holds(p)'
               PROVE  (exRow.status = "building" \/ (exRow.status = "ready" /\ At(p, "undoing")))'
    BY DEF RowsAreBuilt
  <2>1. Working(p) /\ Holds(p) /\ p # q BY <1>v, <1>f DEF Holds
  <2>2. ~ Holds(q) BY <2>1 DEF Holds, TokensAreOwn
  <2>3. exRow' = exRow BY <2>2, <1>r
  <2> QED BY <2>1, <2>3, <1>w DEF RowsAreBuilt, At
<1>5. ReadyHasFile'
  <2> SUFFICES ASSUME exRow'.status = "ready", exRow'.file \notin exFiles', exDamage = 0,
                      exRow'.file \notin exDead
               PROVE  \E p \in Exporters : At(p, "undoing")' /\ Holds(p)'
    BY DEF ReadyHasFile, ExTypes
  <2>1. exRow' = exRow /\ ~ Holds(q) BY <1>f
  <2>2. exRow.file # exTok[q] BY <2>1 DEF Holds, TokensAreOwn
  <2>3. PICK p \in Exporters : At(p, "undoing") /\ Holds(p) BY <2>1, <2>2 DEF ReadyHasFile
  <2>4. p # q BY <2>1, <2>3
  <2> QED BY <2>1, <2>3, <2>4, <1>w DEF At, Holds
<1>6. NoOrphanFiles'
  <2> SUFFICES ASSUME NEW f \in exFiles', ~ (exRow'.status = "ready" /\ exRow'.file = f), f \notin exDead
               PROVE  \E p \in Exporters : Working(p)' /\ exTok[p] = f
    BY DEF NoOrphanFiles
  <2>1. f \in exFiles /\ f # exTok[q] OBVIOUS
  <2>2. CASE exRow' = exRow
    <3>1. PICK p \in Exporters : Working(p) /\ exTok[p] = f BY <2>1, <2>2 DEF NoOrphanFiles
    <3> QED BY <3>1, <2>1, <1>w DEF Working
  <2>3. CASE exRow' # exRow
    <3>1. exRow.token = exTok[q] BY <2>3, <1>r DEF Holds
    <3>2. ~ (exRow.status = "ready" /\ exRow.file = f) BY <3>1, <2>1 DEF TokensAreOwn
    <3>3. PICK p \in Exporters : Working(p) /\ exTok[p] = f BY <2>1, <3>2 DEF NoOrphanFiles
    <3> QED BY <3>3, <2>1, <1>w DEF Working
  <2> QED BY <2>2, <2>3
<1> QED BY <1>1, <1>2, <1>3, <1>4, <1>5, <1>6

\* The row becomes ready, by the builder that holds it.
Readied(q) == exRow' = [exRow EXCEPT !.status = "ready", !.file = exTok[q]]

LEMMA ReadyRow ==
  ASSUME ExInv, NEW q \in Exporters, Holds(q), Readied(q)
  PROVE  /\ exRow' \in ExRowTypes /\ exRow'.status = "ready" /\ exRow'.file = exTok[q]
         /\ exRow'.token = exRow.token /\ exRow.token = exTok[q]
<1> DEFINE r == [exRow EXCEPT !.status = "ready"]
<1>1. exRow \in ExRowTypes /\ exTok[q] \in Nat BY DEF ExInv, ExTypes
<1>2. r \in ExRowTypes /\ r.status = "ready" /\ r.token = exRow.token BY <1>1 DEF ExRowTypes
<1>3. exRow' = [r EXCEPT !.file = exTok[q]] BY DEF Readied
<1>h. exRow.token = exTok[q] BY DEF Holds
<1> HIDE DEF r
<1> QED BY <1>1, <1>2, <1>3, <1>h DEF ExRowTypes

LEMMA MarkKeeps ==
  ASSUME ExInv, NEW q \in Exporters, At(q, "marking"), Holds(q), Readied(q),
         NEW pc \in {"answered", "failed"}, To(q, pc),
         UNCHANGED <<exTok, exFiles, exBad, exDead, exNext, exSlow, exDamage>>
  PROVE  ExInv'
<1> USE DEF ExInv
<1>r. /\ exRow' \in ExRowTypes /\ exRow'.status = "ready" /\ exRow'.file = exTok[q]
      /\ exRow'.token = exRow.token /\ exRow.token = exTok[q]
  BY ReadyRow
<1>1. ExTypes' BY <1>r DEF ExTypes, To, ExPlaces
<1>w. \A p \in Exporters : p # q => exPc'[p] = exPc[p] BY DEF To, ExTypes
<1>p. exPc'[q] = pc BY DEF To, ExTypes
<1>v. \A p \in Exporters : Working(p)' => Working(p) /\ p # q
  BY <1>w, <1>p DEF Working, At
<1>b. exRow.status = "building" BY DEF RowsAreBuilt, Working, At
<1>o. \A p \in Exporters : Working(p)' => exTok[p] # exTok[q]
  BY <1>v DEF TokensAreOwn, Working, At
<1>2. TokensAreOwn' BY <1>v, <1>r DEF TokensAreOwn
<1>3. FilesAreWritten' BY <1>w, <1>p DEF FilesAreWritten, At
<1>4. RowsAreBuilt' BY <1>o, <1>r DEF RowsAreBuilt, Holds
<1>5. ReadyHasFile' BY <1>r DEF ReadyHasFile, FilesAreWritten
<1>6. NoOrphanFiles'
  <2> SUFFICES ASSUME NEW f \in exFiles, f # exTok[q], f \notin exDead
               PROVE  \E p \in Exporters : Working(p)' /\ exTok[p] = f
    BY <1>r DEF NoOrphanFiles
  <2>1. PICK p \in Exporters : Working(p) /\ exTok[p] = f BY <1>b DEF NoOrphanFiles
  <2> QED BY <2>1, <1>w DEF Working
<1> QED BY <1>1, <1>2, <1>3, <1>4, <1>5, <1>6

LEMMA ClaimKeeps ==
  ASSUME ExInv, NEW q \in Exporters, Claims(q)
  PROVE  ExInv'
<1> USE DEF ExInv
<1>1. /\ At(q, "looking") /\ To(q, "rendering")
      /\ exRow' = [status |-> "building", token |-> exNext, file |-> NoToken, stale |-> FALSE]
      /\ exTok' = [exTok EXCEPT ![q] = exNext] /\ exNext' = exNext + 1
      /\ exFiles' = exFiles \ DamagedFile /\ exBad' = exBad \ DamagedFile
      /\ UNCHANGED <<exDead, exSlow, exDamage>>
  BY DEF Claims, NewToken
<1>t. /\ exPc \in [Exporters -> ExPlaces] /\ exTok \in [Exporters -> Nat]
      /\ exNext \in Nat /\ exSlow \in Nat /\ exDamage \in Nat /\ exNext # 0
  BY DEF ExTypes
<1>2. ExTypes'
  <2>1. exPc' \in [Exporters -> ExPlaces] /\ exTok' \in [Exporters -> Nat]
    BY <1>1, <1>t DEF To, ExPlaces
  <2>2. exRow' \in ExRowTypes BY <1>1, <1>t DEF ExRowTypes, NoToken
  <2>3. exNext' \in Nat \ {0} BY <1>1, <1>t
  <2> QED BY <2>1, <2>2, <2>3, <1>1, <1>t DEF ExTypes
<1>w. \A p \in Exporters : p # q => exPc'[p] = exPc[p] /\ exTok'[p] = exTok[p]
  BY <1>1, <1>t DEF To
<1>p. exPc'[q] = "rendering" /\ exTok'[q] = exNext BY <1>1, <1>t DEF To
<1>v. \A p \in Exporters : Working(p)' => p = q \/ Working(p) BY <1>w DEF Working
<1>s. \A p \in Exporters : exTok[p] \in Nat /\ exTok[p] < exNext BY <1>t DEF TokensAreOwn
<1>3. TokensAreOwn'
  <2>1. exRow'.token < exNext' /\ exRow'.status # "ready" BY <1>1, <1>t
  <2>2. \A p \in Exporters : exTok'[p] < exNext' BY <1>w, <1>p, <1>s, <1>1, <1>t
  <2>3. \A p \in Exporters : Working(p)' => exTok'[p] # NoToken
    BY <1>w, <1>p, <1>v, <1>t DEF TokensAreOwn, NoToken
  <2>4. \A p \in Exporters : p # q => exTok'[p] # exTok'[q] BY <1>w, <1>p, <1>s, <1>t
  <2>5. \A p, r \in Exporters : Working(p)' /\ Working(r)' /\ exTok'[p] = exTok'[r] => p = r
    BY <2>4, <1>w, <1>v DEF TokensAreOwn
  <2> QED BY <2>1, <2>2, <2>3, <2>5 DEF TokensAreOwn
<1>d. \A p \in Exporters : At(p, "marking") => exTok[p] \notin DamagedFile
  <2> SUFFICES ASSUME NEW p \in Exporters, At(p, "marking"), exRow.status = "ready",
                      exTok[p] = exRow.file
               PROVE  FALSE
    BY DEF DamagedFile
  <2>1. Holds(p) /\ Working(p) BY DEF Holds, TokensAreOwn, Working, At
  <2> QED BY <2>1 DEF RowsAreBuilt, At
<1>4. FilesAreWritten'
  <2>1. exFiles' \subseteq 0..(exNext' - 1) /\ exBad' \subseteq exFiles'
    <3>1. \A f \in 0..(exNext - 1) : f \in 0..(exNext + 1 - 1) BY <1>t
    <3>2. \A f \in exFiles : f \in 0..(exNext - 1) BY DEF FilesAreWritten
    <3>3. exBad' \subseteq exFiles' BY <1>1 DEF FilesAreWritten
    <3>4. \A f \in exFiles : f \in 0..(exNext + 1 - 1) BY <3>1, <3>2
    <3>5. exNext' - 1 = exNext + 1 - 1 BY <1>1, <1>t
    <3>6. exFiles' \subseteq exFiles BY <1>1
    <3> QED BY <3>3, <3>4, <3>5, <3>6
  <2>n. exNext \notin exFiles
    <3>1. exNext \notin 0..(exNext - 1) BY <1>t
    <3> QED BY <3>1 DEF FilesAreWritten
  <2>2. ASSUME NEW p \in Exporters
        PROVE  /\ exPc'[p] \in {"rendering", "writing", "undoing"} => exTok'[p] \notin exFiles'
               /\ At(p, "marking")' => exTok'[p] \in exFiles' \/ exDamage' > 0
    BY <1>w, <1>p, <1>1, <2>n, <1>d DEF FilesAreWritten, At
  <2> QED BY <2>1, <2>2 DEF FilesAreWritten
<1>5. RowsAreBuilt' BY <1>1 DEF RowsAreBuilt
<1>6. ReadyHasFile' BY <1>1 DEF ReadyHasFile
<1>7. NoOrphanFiles'
  <2> SUFFICES ASSUME NEW f \in exFiles, f \notin DamagedFile, f \notin exDead
               PROVE  \E p \in Exporters : Working(p)' /\ exTok'[p] = f
    BY <1>1 DEF NoOrphanFiles
  <2>1. ~ (exRow.status = "ready" /\ exRow.file = f) BY DEF DamagedFile
  <2>2. PICK p \in Exporters : Working(p) /\ exTok[p] = f BY <2>1 DEF NoOrphanFiles
  <2>3. p # q BY <2>2, <1>1 DEF Working, At
  <2> QED BY <2>2, <2>3, <1>w DEF Working
<1> QED BY <1>2, <1>3, <1>4, <1>5, <1>6, <1>7

LEMMA WriteKeeps ==
  ASSUME ExInv, NEW q \in Exporters, Writes(q)
  PROVE  ExInv'
<1> USE DEF ExInv
<1>1. /\ At(q, "writing") /\ To(q, "marking") /\ exFiles' = exFiles \cup {exTok[q]}
      /\ UNCHANGED <<exTok, exRow, exBad, exDead, exNext, exSlow, exDamage>>
  BY DEF Writes, Counts
<1>w. \A p \in Exporters : p # q => exPc'[p] = exPc[p] BY <1>1 DEF To, ExTypes
<1>p. exPc'[q] = "marking" BY <1>1 DEF To, ExTypes
<1>q. Working(q) BY <1>1 DEF Working, At
<1>v. \A p \in Exporters : Working(p)' <=> Working(p) BY <1>w, <1>p, <1>q DEF Working
<1>2. ExTypes' BY <1>1 DEF ExTypes, To, ExPlaces
<1>3. TokensAreOwn' BY <1>1, <1>v DEF TokensAreOwn
<1>4. FilesAreWritten'
  <2>1. exTok[q] \in 0..(exNext - 1) BY DEF TokensAreOwn, ExTypes
  <2>2. exFiles' \subseteq 0..(exNext' - 1) /\ exBad' \subseteq exFiles'
    BY <1>1, <2>1 DEF FilesAreWritten
  <2>3. ASSUME NEW p \in Exporters, p # q
        PROVE  /\ exPc'[p] \in {"rendering", "writing", "undoing"} => exTok'[p] \notin exFiles'
               /\ At(p, "marking")' => exTok'[p] \in exFiles' \/ exDamage' > 0
    <3>1. Working(p) => exTok[p] # exTok[q] BY <2>3, <1>q DEF TokensAreOwn
    <3> QED BY <3>1, <2>3, <1>w, <1>1 DEF FilesAreWritten, At, Working
  <2>4. /\ exPc'[q] = "marking" /\ exTok'[q] \in exFiles' BY <1>1, <1>p
  <2> QED BY <2>2, <2>3, <2>4 DEF FilesAreWritten
<1>5. RowsAreBuilt'
  <2> SUFFICES ASSUME NEW p \in Exporters, Working(p)', Holds(p)'
               PROVE  (exRow.status = "building" \/ (exRow.status = "ready" /\ At(p, "undoing")))'
    BY DEF RowsAreBuilt
  <2>1. Working(p) /\ Holds(p) BY <1>1, <1>v DEF Holds
  <2>2. exRow.status = "building" \/ (p # q /\ exRow.status = "ready" /\ At(p, "undoing"))
    BY <2>1, <1>1 DEF RowsAreBuilt, At
  <2> QED BY <2>2, <1>w, <1>1 DEF At
<1>6. ReadyHasFile'
  <2> SUFFICES ASSUME exRow.status = "ready", exRow.file \notin exFiles, exDamage = 0,
                      exRow.file \notin exDead
               PROVE  \E p \in Exporters : At(p, "undoing")' /\ Holds(p)'
    BY <1>1 DEF ReadyHasFile, ExTypes
  <2>1. PICK p \in Exporters : At(p, "undoing") /\ Holds(p) BY DEF ReadyHasFile
  <2>2. p # q BY <2>1, <1>1 DEF At
  <2> QED BY <2>1, <2>2, <1>1, <1>w DEF At, Holds
<1>7. NoOrphanFiles'
  <2> SUFFICES ASSUME NEW f \in exFiles', ~ (exRow.status = "ready" /\ exRow.file = f), f \notin exDead
               PROVE  \E p \in Exporters : Working(p)' /\ exTok[p] = f
    BY <1>1 DEF NoOrphanFiles
  <2>1. CASE f = exTok[q] BY <2>1, <1>q, <1>v
  <2>2. CASE f \in exFiles
    <3>1. PICK p \in Exporters : Working(p) /\ exTok[p] = f BY <2>2 DEF NoOrphanFiles
    <3> QED BY <3>1, <1>v
  <2> QED BY <2>1, <2>2, <1>1
<1> QED BY <1>2, <1>3, <1>4, <1>5, <1>6, <1>7

LEMMA RaiseKeeps ==
  ASSUME ExInv, NEW q \in Exporters, MarkRaises(q)
  PROVE  ExInv'
<1> USE DEF ExInv
<1>1. /\ At(q, "marking") /\ To(q, "undoing")
      /\ exFiles' = exFiles \ {exTok[q]} /\ exBad' = exBad \ {exTok[q]}
      /\ exRow' = exRow \/ (Holds(q) /\ Readied(q))
      /\ UNCHANGED <<exTok, exDead, exNext, exSlow, exDamage>>
  BY DEF MarkRaises, Deletes, OwnFile, Counts, Readied
<1>r. \/ exRow' = exRow
      \/ /\ exRow' \in ExRowTypes /\ exRow'.status = "ready" /\ exRow'.file = exTok[q]
         /\ exRow'.token = exRow.token /\ exRow.token = exTok[q]
  BY <1>1, ReadyRow
<1>w. \A p \in Exporters : p # q => exPc'[p] = exPc[p] BY <1>1 DEF To, ExTypes
<1>p. exPc'[q] = "undoing" BY <1>1 DEF To, ExTypes
<1>q. Working(q) BY <1>1 DEF Working, At
<1>v. \A p \in Exporters : Working(p)' <=> Working(p) BY <1>w, <1>p, <1>q DEF Working
<1>o. \A p \in Exporters : Working(p) /\ p # q => exTok[p] # exTok[q] BY <1>q DEF TokensAreOwn
<1>2. ExTypes' BY <1>1, <1>r DEF ExTypes, To, ExPlaces
<1>3. TokensAreOwn' BY <1>1, <1>v, <1>r DEF TokensAreOwn
<1>4. FilesAreWritten'
  <2>2. exFiles' \subseteq 0..(exNext' - 1) /\ exBad' \subseteq exFiles'
    BY <1>1 DEF FilesAreWritten
  <2>3. ASSUME NEW p \in Exporters, p # q
        PROVE  /\ exPc'[p] \in {"rendering", "writing", "undoing"} => exTok'[p] \notin exFiles'
               /\ At(p, "marking")' => exTok'[p] \in exFiles' \/ exDamage' > 0
    BY <2>3, <1>o, <1>w, <1>1 DEF FilesAreWritten, At, Working
  <2>4. exPc'[q] = "undoing" /\ exTok'[q] \notin exFiles' BY <1>1, <1>p
  <2> QED BY <2>2, <2>3, <2>4 DEF FilesAreWritten, At
<1>5. RowsAreBuilt'
  <2> SUFFICES ASSUME NEW p \in Exporters, Working(p)', Holds(p)'
               PROVE  (exRow.status = "building" \/ (exRow.status = "ready" /\ At(p, "undoing")))'
    BY DEF RowsAreBuilt
  <2>1. Working(p) /\ Holds(p) BY <1>1, <1>v, <1>r DEF Holds
  <2>2. CASE p = q
    <3>1. exRow.status = "building" BY <2>1, <2>2, <1>1 DEF RowsAreBuilt, At
    <3> QED BY <3>1, <2>2, <1>r, <1>p DEF At
  <2>3. CASE p # q
    <3>1. ~ Holds(q) BY <2>1, <2>3, <1>o DEF Holds
    <3>2. exRow' = exRow BY <3>1, <1>1
    <3> QED BY <3>2, <2>1, <2>3, <1>w DEF RowsAreBuilt, At
  <2> QED BY <2>2, <2>3
<1>6. ReadyHasFile'
  <2> SUFFICES ASSUME exRow'.status = "ready", exRow'.file \notin exFiles', exDamage = 0,
                      exRow'.file \notin exDead
               PROVE  \E p \in Exporters : At(p, "undoing")' /\ Holds(p)'
    BY <1>1 DEF ReadyHasFile, ExTypes
  <2>1. CASE exRow' = exRow
    <3>1. ~ Holds(q) BY <2>1, <1>q, <1>1 DEF RowsAreBuilt, At
    <3>2. exRow.file # exTok[q] BY <2>1, <3>1 DEF Holds, TokensAreOwn
    <3>3. PICK p \in Exporters : At(p, "undoing") /\ Holds(p)
      BY <2>1, <3>2, <1>1 DEF ReadyHasFile
    <3>4. p # q BY <3>1, <3>3
    <3> QED BY <2>1, <3>3, <3>4, <1>1, <1>w DEF At, Holds
  <2>2. CASE exRow'.token = exTok[q] BY <2>2, <1>1, <1>p DEF At, Holds
  <2> QED BY <2>1, <2>2, <1>r
<1>7. NoOrphanFiles'
  <2> SUFFICES ASSUME NEW f \in exFiles', ~ (exRow'.status = "ready" /\ exRow'.file = f), f \notin exDead
               PROVE  \E p \in Exporters : Working(p)' /\ exTok[p] = f
    BY <1>1 DEF NoOrphanFiles
  <2>1. f \in exFiles /\ f # exTok[q] BY <1>1
  <2>2. ~ (exRow.status = "ready" /\ exRow.file = f)
    BY <2>1, <1>r DEF TokensAreOwn
  <2>3. PICK p \in Exporters : Working(p) /\ exTok[p] = f BY <2>1, <2>2 DEF NoOrphanFiles
  <2> QED BY <2>3, <1>v
<1> QED BY <1>2, <1>3, <1>4, <1>5, <1>6, <1>7

LEMMA LeaseEndKeeps ==
  ASSUME ExInv, LeaseEnds
  PROVE  ExInv'
<1> USE DEF ExInv
<1>1. /\ exRow.status = "building" /\ exRow' = [exRow EXCEPT !.stale = TRUE]
      /\ exSlow' \in Nat
      /\ UNCHANGED <<exPc, exTok, exFiles, exBad, exDead, exNext, exDamage>>
  BY DEF LeaseEnds, Disk, ExTypes
<1>2. /\ exRow' \in ExRowTypes /\ exRow'.status = "building" /\ exRow'.token = exRow.token
      /\ exRow'.file = exRow.file
  BY <1>1 DEF ExTypes, ExRowTypes
<1>3. ExTypes' BY <1>1, <1>2 DEF ExTypes
<1>v. \A p \in Exporters : Working(p)' <=> Working(p) BY <1>1 DEF Working
<1>4. TokensAreOwn' BY <1>1, <1>2, <1>v DEF TokensAreOwn
<1>5. FilesAreWritten' BY <1>1 DEF FilesAreWritten, At
<1>6. RowsAreBuilt' /\ ReadyHasFile' BY <1>2 DEF RowsAreBuilt, ReadyHasFile
<1>7. NoOrphanFiles' BY <1>1, <1>v DEF NoOrphanFiles
<1> QED BY <1>3, <1>4, <1>5, <1>6, <1>7

LEMMA DamageKeeps ==
  ASSUME ExInv, Damage
  PROVE  ExInv'
<1> USE DEF ExInv
<1>1. /\ exFiles' \subseteq exFiles /\ exBad' \subseteq exFiles'
      /\ exDamage' = exDamage + 1
      /\ UNCHANGED <<exPc, exTok, exRow, exDead, exNext, exSlow>>
  BY DEF Damage, FilesAreWritten
<1>2. exDamage' \in Nat /\ exDamage' > 0 BY <1>1 DEF ExTypes
<1>3. ExTypes' BY <1>1, <1>2 DEF ExTypes
<1>v. \A p \in Exporters : Working(p)' <=> Working(p) BY <1>1 DEF Working
<1>4. TokensAreOwn' BY <1>1, <1>v DEF TokensAreOwn
<1>5. FilesAreWritten' BY <1>1, <1>2 DEF FilesAreWritten, At
<1>6. RowsAreBuilt' BY <1>1, <1>v DEF RowsAreBuilt, Holds, At
<1>7. ReadyHasFile' BY <1>2 DEF ReadyHasFile
<1>8. NoOrphanFiles' BY <1>1, <1>v DEF NoOrphanFiles
<1> QED BY <1>3, <1>4, <1>5, <1>6, <1>7, <1>8

LEMMA ExInvStep == ExInv /\ [ExNext]_exVars => ExInv'
<1> SUFFICES ASSUME ExInv, [ExNext]_exVars PROVE ExInv' OBVIOUS
<1>1. ASSUME NEW q \in Exporters, Asks(q) \/ TakesFile(q) \/ LookFails(q) PROVE ExInv'
  <2>1. PICK pc \in {"looking", "answered", "failed"} : To(q, pc) BY <1>1 DEF Asks, TakesFile, LookFails
  <2>2. pc \in ExPlaces /\ ~ Working(q)
    BY <1>1, <2>1 DEF ExPlaces, Asks, TakesFile, LookFails, At, Working
  <2> QED BY <1>1, <2>1, <2>2, RequestMoves DEF Asks, TakesFile, LookFails, Disk, Counts
<1>2. ASSUME NEW q \in Exporters, Renders(q) PROVE ExInv'
  <2>1. "writing" \in ExPlaces BY DEF ExPlaces
  <2> QED BY <1>2, <2>1, RequestMoves DEF Renders, Disk, Counts
<1>3. ASSUME NEW q \in Exporters, Dies(q) PROVE ExInv'
  <2>1. "failed" \in ExPlaces BY DEF ExPlaces
  <2> QED BY <1>3, <2>1, RequestMoves DEF Dies, Disk
<1>4. ASSUME NEW q \in Exporters, BuildFails(q) \/ Undoes(q) PROVE ExInv'
  <2>1. Working(q) /\ exPc[q] \in {"rendering", "writing", "undoing"}
    BY <1>4 DEF BuildFails, Undoes, Working, At
  <2>2. exTok[q] \notin exFiles /\ exTok[q] \notin exBad BY <2>1 DEF ExInv, FilesAreWritten
  <2>3. exFiles' = exFiles \ {exTok[q]} /\ exBad' = exBad \ {exTok[q]}
    BY <1>4, <2>2 DEF BuildFails, Undoes, Disk
  <2> QED BY <1>4, <2>1, <2>3, BuilderLeaves DEF BuildFails, Undoes, Counts
<1>5. ASSUME NEW q \in Exporters, IsFenced(q) PROVE ExInv'
  <2>1. Working(q) BY <1>5 DEF IsFenced, Working, At
  <2> QED BY <1>5, <2>1, BuilderLeaves DEF IsFenced, Deletes, OwnFile, MarkFailed, Counts
<1>6. ASSUME NEW q \in Exporters, IsCancelled(q) PROVE ExInv'
  <2>1. Working(q) BY <1>6 DEF IsCancelled, Working, At
  <2>2. CASE Deletes(q) /\ MarkFailed(q)
    BY <1>6, <2>1, <2>2, BuilderLeaves DEF IsCancelled, Deletes, OwnFile, Counts
  <2>3. CASE At(q, "marking") /\ Holds(q) /\ Readied(q) /\ UNCHANGED Disk
    BY <1>6, <2>3, MarkKeeps DEF IsCancelled, Disk, Counts
  <2> QED BY <1>6, <2>2, <2>3 DEF IsCancelled, Readied
<1>7. ASSUME NEW q \in Exporters, MarksReady(q) PROVE ExInv'
  BY <1>7, MarkKeeps DEF MarksReady, Readied, Disk, Counts
<1>8. ASSUME NEW q \in Exporters, Claims(q) \/ Writes(q) \/ MarkRaises(q) PROVE ExInv'
  BY <1>8, ClaimKeeps, WriteKeeps, RaiseKeeps
<1>9. ASSUME LeaseEnds \/ Damage PROVE ExInv' BY <1>9, LeaseEndKeeps, DamageKeeps
<1>10. ASSUME UNCHANGED exVars PROVE ExInv'
  BY <1>10 DEF exVars, ExInv, ExTypes, TokensAreOwn, FilesAreWritten, RowsAreBuilt,
               ReadyHasFile, NoOrphanFiles, Working, Holds, At
<1> QED
  BY <1>1, <1>2, <1>3, <1>4, <1>5, <1>6, <1>7, <1>8, <1>9, <1>10 DEF ExNext, ExStep

LEMMA ExInvImplies == ExInv => ExTypeOK /\ ExportIsSound
<1> SUFFICES ASSUME ExInv PROVE ExTypeOK /\ OneBuilder BY DEF ExInv, ExportIsSound
<1>1. ExTypeOK
  BY DEF ExInv, ExTypes, ExPlaces, ExRowTypes, TokensAreOwn, FilesAreWritten, ExTypeOK
<1> DEFINE B == {q \in Exporters : Working(q) /\ Holds(q)}
<1>2. B = {} \/ \E q \in B : B = {q} BY DEF ExInv, TokensAreOwn, Holds
<1>3. Cardinality(B) = 0 \/ Cardinality(B) = 1 BY <1>2, FS_EmptySet, FS_Singleton
<1>4. OneBuilder BY <1>3 DEF OneBuilder
<1> QED BY <1>1, <1>4

(***************************************************************************)
(* However builders overlap, are fenced, cancelled or die: a ready row has *)
(* its file, no build leaves an orphan, one builder may write the row.     *)
(***************************************************************************)
THEOREM ExportStaysSound == ExSpec => []ExportIsSound
BY ExInvInit, ExInvStep, ExInvImplies, PTL DEF ExSpec

-----------------------------------------------------------------------------
\* The channel to a service.

BreakerTypes == [failures : 0..Threshold, opened : {"no", "open", "due"}, probe : BOOLEAN]

InQueue == {w \in Workers : chPc[w] = "queueing"}

QueueOf(s, S) ==
  /\ s \in Seq(Workers) /\ IsInjective(s)
  /\ \A w \in Workers : w \in S <=> \E i \in 1..Len(s) : s[i] = w

ChTypes ==
  /\ chPc \in [Workers -> {"idle", "preparing", "queueing", "dispatching", "cancelling"}]
  /\ chKey \in [Workers -> Keys \cup {NoKey}]
  /\ \A w \in Workers : (chKey[w] = NoKey) <=> (chPc[w] = "idle")
  /\ breaker \in [Keys -> BreakerTypes]
  /\ permits \in Int

ChInv ==
  /\ ChTypes /\ QueueOf(queue, InQueue)
  /\ IsFiniteSet(Holders) /\ PlacesAreGivenBack /\ BreakerIsTrue

LEMMA ShorterSeq ==
  ASSUME NEW s \in Seq(Workers), NEW at \in 1..Len(s)
  PROVE  LET t == RemoveAt(s, at) IN
         /\ t \in Seq(Workers) /\ Len(t) = Len(s) - 1
         /\ \A i \in 1..(at - 1) : t[i] = s[i]
         /\ \A i \in at..(Len(s) - 1) : t[i] = s[i + 1]
<1> DEFINE a == SubSeq(s, 1, at - 1)  b == SubSeq(s, at + 1, Len(s))
<1>0. Len(s) \in Nat /\ at \in Nat /\ at >= 1 /\ at <= Len(s) OBVIOUS
<1>1. a \in Seq(Workers) /\ Len(a) = at - 1 /\ \A i \in 1..(at - 1) : a[i] = s[i]
  <2>1. 1 \in 1..(Len(s) + 1) /\ at - 1 \in (1 - 1)..Len(s) BY <1>0
  <2>2. /\ Len(a) = IF 1 <= at - 1 THEN at - 1 - 1 + 1 ELSE 0
        /\ \A i \in 1..(at - 1) : a[i] = s[i]
    BY <1>0
  <2> QED BY <2>2, <1>0
<1>2. b \in Seq(Workers) /\ Len(b) = Len(s) - at /\ \A i \in 1..(Len(s) - at) : b[i] = s[i + at]
  BY <1>0
<1> HIDE DEF a, b
<1>3. RemoveAt(s, at) = a \o b BY DEF RemoveAt, a, b
<1>4. Len(a \o b) = Len(s) - 1 /\ a \o b \in Seq(Workers)
  <2>1. a \o b \in Seq(Workers) /\ Len(a \o b) = Len(a) + Len(b)
    BY <1>1, <1>2, ConcatProperties
  <2>2. Len(a) + Len(b) = Len(s) - 1 BY <1>0, <1>1, <1>2
  <2> QED BY <2>1, <2>2
<1>5. \A i \in 1..(at - 1) : (a \o b)[i] = s[i]
  <2> SUFFICES ASSUME NEW i \in 1..(at - 1) PROVE (a \o b)[i] = s[i] OBVIOUS
  <2>1. i \in 1..(Len(a) + Len(b)) /\ i <= Len(a) BY <1>0, <1>1, <1>2
  <2> QED BY <2>1, <1>1, <1>2
<1>6. \A i \in at..(Len(s) - 1) : (a \o b)[i] = s[i + 1]
  <2> SUFFICES ASSUME NEW i \in at..(Len(s) - 1) PROVE (a \o b)[i] = s[i + 1] OBVIOUS
  <2>1. i \in 1..(Len(a) + Len(b)) /\ i > Len(a) BY <1>0, <1>1, <1>2
  <2>2. (a \o b)[i] = b[i - Len(a)] BY <2>1, <1>1, <1>2
  <2>3. i - Len(a) \in 1..(Len(s) - at) /\ i - Len(a) + at = i + 1 BY <1>0, <1>1
  <2> QED BY <2>2, <2>3, <1>2
<1> QED BY <1>3, <1>4, <1>5, <1>6

LEMMA QueueShrinks ==
  ASSUME NEW s \in Seq(Workers), NEW S, QueueOf(s, S), NEW at \in 1..Len(s)
  PROVE  QueueOf(RemoveAt(s, at), S \ {s[at]})
<1> DEFINE t == RemoveAt(s, at)
           old(i) == IF i < at THEN i ELSE i + 1
<1>1. /\ t \in Seq(Workers) /\ Len(t) = Len(s) - 1
      /\ \A i \in 1..(at - 1) : t[i] = s[i]
      /\ \A i \in at..(Len(s) - 1) : t[i] = s[i + 1]
  BY ShorterSeq
<1>0. Len(s) \in Nat /\ at \in Nat /\ at >= 1 /\ at <= Len(s) OBVIOUS
<1> HIDE DEF t
<1>2. \A i \in 1..Len(t) : old(i) \in 1..Len(s) /\ old(i) # at /\ t[i] = s[old(i)]
  <2> SUFFICES ASSUME NEW i \in 1..Len(t)
               PROVE  old(i) \in 1..Len(s) /\ old(i) # at /\ t[i] = s[old(i)]
    OBVIOUS
  <2>1. CASE i < at
    <3>1. i \in 1..(at - 1) BY <2>1, <1>0, <1>1
    <3> QED BY <3>1, <2>1, <1>0, <1>1
  <2>2. CASE ~ (i < at)
    <3>1. i \in at..(Len(s) - 1) BY <2>2, <1>0, <1>1
    <3> QED BY <3>1, <2>2, <1>0, <1>1
  <2> QED BY <2>1, <2>2
<1>3. \A i, j \in 1..Len(t) : old(i) = old(j) => i = j BY <1>0, <1>1
<1>4. \A j \in 1..Len(s) : j # at => \E i \in 1..Len(t) : old(i) = j
  <2> SUFFICES ASSUME NEW j \in 1..Len(s), j # at PROVE \E i \in 1..Len(t) : old(i) = j OBVIOUS
  <2>1. CASE j < at
    <3>1. j \in 1..Len(t) BY <2>1, <1>0, <1>1
    <3> QED BY <3>1, <2>1
  <2>2. CASE j > at
    <3>1. j - 1 \in 1..Len(t) /\ ~ (j - 1 < at) /\ j - 1 + 1 = j BY <2>2, <1>0, <1>1
    <3> QED BY <3>1
  <2> QED BY <2>1, <2>2, <1>0
<1>d. DOMAIN s = 1..Len(s) /\ DOMAIN t = 1..Len(t) BY <1>1
<1>i. \A i, j \in 1..Len(s) : s[i] = s[j] => i = j BY <1>d DEF QueueOf, IsInjective
<1> HIDE DEF old
<1>5. IsInjective(t)
  <2> SUFFICES ASSUME NEW i \in 1..Len(t), NEW j \in 1..Len(t), t[i] = t[j] PROVE i = j
    BY <1>d DEF IsInjective
  <2>1. s[old(i)] = s[old(j)] BY <1>2
  <2>2. old(i) = old(j) BY <2>1, <1>2, <1>i
  <2> QED BY <2>2, <1>3
<1>6. ASSUME NEW w \in Workers
      PROVE  w \in S \ {s[at]} <=> \E i \in 1..Len(t) : t[i] = w
  <2>1. ASSUME w \in S \ {s[at]} PROVE \E i \in 1..Len(t) : t[i] = w
    <3>1. PICK j \in 1..Len(s) : s[j] = w BY <2>1 DEF QueueOf
    <3>2. PICK i \in 1..Len(t) : old(i) = j BY <3>1, <2>1, <1>4
    <3> QED BY <3>1, <3>2, <1>2
  <2>2. ASSUME NEW i \in 1..Len(t), t[i] = w PROVE w \in S \ {s[at]}
    <3>1. s[old(i)] = w /\ old(i) \in 1..Len(s) /\ old(i) # at BY <2>2, <1>2
    <3>2. w \in S BY <3>1 DEF QueueOf
    <3>3. w # s[at] BY <3>1, <1>i
    <3> QED BY <3>2, <3>3
  <2> QED BY <2>1, <2>2
<1> QED BY <1>1, <1>5, <1>6 DEF QueueOf, t

LEMMA QueueGrows ==
  ASSUME NEW s \in Seq(Workers), NEW S, QueueOf(s, S), NEW w \in Workers, w \notin S
  PROVE  QueueOf(Append(s, w), S \cup {w})
<1> DEFINE t == Append(s, w)
<1>0. Len(s) \in Nat OBVIOUS
<1>1. /\ t \in Seq(Workers) /\ Len(t) = Len(s) + 1 /\ t[Len(s) + 1] = w
      /\ \A i \in 1..Len(s) : t[i] = s[i]
  BY <1>0
<1> HIDE DEF t
<1>d. DOMAIN s = 1..Len(s) /\ DOMAIN t = 1..Len(t) BY <1>1
<1>i. \A i, j \in 1..Len(s) : s[i] = s[j] => i = j BY <1>d DEF QueueOf, IsInjective
<1>n. \A i \in 1..Len(s) : s[i] # w BY DEF QueueOf
<1>2. \A i \in 1..Len(t) : i \in 1..Len(s) \/ i = Len(s) + 1 BY <1>0, <1>1
<1>3. \A i \in 1..Len(s) : i \in 1..Len(t) BY <1>0, <1>1
<1>4. Len(s) + 1 \in 1..Len(t) BY <1>0, <1>1
<1>5. IsInjective(t)
  <2> SUFFICES ASSUME NEW i \in 1..Len(t), NEW j \in 1..Len(t), t[i] = t[j] PROVE i = j
    BY <1>d DEF IsInjective
  <2> QED BY <1>1, <1>2, <1>i, <1>n
<1>6. ASSUME NEW v \in Workers
      PROVE  v \in S \cup {w} <=> \E i \in 1..Len(t) : t[i] = v
  BY <1>1, <1>2, <1>3, <1>4 DEF QueueOf
<1> QED BY <1>1, <1>5, <1>6 DEF QueueOf, t

LEMMA TailIsRemoval ==
  ASSUME NEW s \in Seq(Workers), s # <<>>
  PROVE  Tail(s) = RemoveAt(s, 1) /\ 1 \in 1..Len(s)
<1>0. Len(s) \in Nat /\ Len(s) # 0 OBVIOUS
<1>1. 1 \in 1..Len(s) BY <1>0
<1>2. /\ RemoveAt(s, 1) \in Seq(Workers) /\ Len(RemoveAt(s, 1)) = Len(s) - 1
      /\ \A i \in 1..(Len(s) - 1) : RemoveAt(s, 1)[i] = s[i + 1]
  BY <1>1, ShorterSeq
<1>3. /\ Tail(s) \in Seq(Workers) /\ Len(Tail(s)) = Len(s) - 1
      /\ \A i \in 1..(Len(s) - 1) : Tail(s)[i] = s[i + 1]
  BY <1>0
<1>4. Tail(s) = RemoveAt(s, 1) BY <1>2, <1>3, SeqEqual
<1> QED BY <1>1, <1>4

\* The call of w ends, and its key is judged: b is what the breaker says then.
Judged(w, b) ==
  /\ chPc' = [chPc EXCEPT ![w] = "idle"] /\ chKey' = [chKey EXCEPT ![w] = NoKey]
  /\ breaker' = [breaker EXCEPT ![chKey[w]] = b]

\* A breaker that agrees with itself, and waits for no probe.
Calm(b) == /\ b \in BreakerTypes /\ b.probe = FALSE
           /\ b.opened # "no" => b.failures = Threshold

LEMMA CalmIs ==
  ASSUME ChInv, NEW k \in Keys
  PROVE  Calm(Closed) /\ Calm(AfterFailure(breaker[k]))
<1> DEFINE b == breaker[k]
           n == IF b.failures < Threshold THEN b.failures + 1 ELSE Threshold
<1>1. /\ b \in BreakerTypes
      /\ b.probe => b.opened = "due"
      /\ b.opened # "no" => b.failures = Threshold
  BY DEF ChInv, ChTypes, BreakerIsTrue
<1>2. Threshold \in Nat /\ Threshold # 0 BY ChannelAssumption
<1>3. Calm(Closed)
  <2>1. 0 \in 0..Threshold BY <1>2
  <2> QED BY <2>1 DEF Calm, Closed, BreakerTypes
<1>4. n \in 0..Threshold /\ (n < Threshold => b.failures # Threshold)
  BY <1>1, <1>2 DEF BreakerTypes
<1>5. AfterFailure(b) = IF b.probe \/ n >= Threshold
                          THEN [failures |-> n, opened |-> "open", probe |-> FALSE]
                          ELSE [b EXCEPT !.failures = n]
  BY DEF AfterFailure
<1>p. b.probe => n = Threshold BY <1>1, <1>2
<1>6. n >= Threshold <=> n = Threshold BY <1>4, <1>2
<1>8. n # Threshold => n < Threshold BY <1>4, <1>2
<1> HIDE DEF n
<1>7. CASE b.probe \/ n = Threshold
  <2>1. AfterFailure(b) = [failures |-> n, opened |-> "open", probe |-> FALSE] BY <1>5, <1>6, <1>7
  <2>2. n = Threshold BY <1>7, <1>p
  <2> QED BY <2>1, <2>2, <1>3, <1>4 DEF Calm, BreakerTypes
<1>9. CASE ~ b.probe /\ n # Threshold
  <2>1. AfterFailure(b) = [b EXCEPT !.failures = n] BY <1>5, <1>6, <1>9
  <2>2. b.opened = "no" BY <1>1, <1>4, <1>8, <1>9
  <2> QED BY <2>1, <2>2, <1>1, <1>3, <1>4, <1>9 DEF Calm, BreakerTypes
<1> QED BY <1>7, <1>9

\* A call that ends is no longer where its worker was, and leaves no probe out.
LEMMA JudgedKeeps ==
  ASSUME ChInv, NEW w \in Workers, chPc[w] # "idle", NEW b, Judged(w, b), Calm(b),
         wasted' = wasted \/ wasted' = wasted \ {chKey[w]}
  PROVE  /\ chPc' \in [Workers -> {"idle", "preparing", "queueing", "dispatching", "cancelling"}]
         /\ chKey' \in [Workers -> Keys \cup {NoKey}]
         /\ \A v \in Workers : (chKey'[v] = NoKey) <=> (chPc'[v] = "idle")
         /\ breaker' \in [Keys -> BreakerTypes]
         /\ BreakerIsTrue'
         /\ InQueue' = InQueue \ {w} /\ Holders' = Holders \ {w}
<1>k. chKey[w] \in Keys BY DEF ChInv, ChTypes
<1>1. chPc' \in [Workers -> {"idle", "preparing", "queueing", "dispatching", "cancelling"}]
  BY DEF ChInv, ChTypes, Judged
<1>2. chKey' \in [Workers -> Keys \cup {NoKey}] BY DEF ChInv, ChTypes, Judged
<1>3. \A v \in Workers : IF v = w THEN chPc'[v] = "idle" /\ chKey'[v] = NoKey
                         ELSE chPc'[v] = chPc[v] /\ chKey'[v] = chKey[v]
  BY DEF ChInv, ChTypes, Judged
<1>4. \A v \in Workers : (chKey'[v] = NoKey) <=> (chPc'[v] = "idle")
  BY <1>3 DEF ChInv, ChTypes
<1>5. breaker' \in [Keys -> BreakerTypes] BY <1>k DEF ChInv, ChTypes, Judged, Calm
<1>6. \A k \in Keys : breaker'[k] = IF k = chKey[w] THEN b ELSE breaker[k]
  BY <1>k DEF ChInv, ChTypes, Judged
<1>7. BreakerIsTrue'
  <2> SUFFICES ASSUME NEW k \in Keys
               PROVE  /\ breaker'[k].opened # "no" => breaker'[k].failures = Threshold
                      /\ breaker'[k].probe => breaker'[k].opened = "due"
                      /\ breaker'[k].probe /\ k \notin wasted' => \E v \in Workers : chKey'[v] = k
    BY DEF BreakerIsTrue
  <2>1. CASE k = chKey[w] BY <2>1, <1>6 DEF Calm
  <2>2. CASE k # chKey[w]
    <3>1. breaker'[k] = breaker[k] /\ (k \in wasted' <=> k \in wasted) BY <2>2, <1>6
    <3>2. \A v \in Workers : chKey[v] = k => chKey'[v] = k BY <2>2, <1>3
    <3> QED BY <3>1, <3>2 DEF ChInv, BreakerIsTrue
  <2> QED BY <2>1, <2>2
<1>8. InQueue' = InQueue \ {w} /\ Holders' = Holders \ {w} BY <1>3 DEF InQueue, Holders
<1> QED BY <1>1, <1>2, <1>4, <1>5, <1>7, <1>8

\* A holder ends: its place is there again.
LEMMA PlaceComesBack ==
  ASSUME ChInv, NEW w \in Holders, Holders' = Holders \ {w}, Release
  PROVE  permits' \in Int /\ IsFiniteSet(Holders') /\ PlacesAreGivenBack'
<1>1. IsFiniteSet(Holders) /\ permits \in Int /\ permits + Cardinality(Holders) = MaxConcurrency
  BY DEF ChInv, ChTypes, PlacesAreGivenBack
<1>2. IsFiniteSet(Holders') /\ Cardinality(Holders') = Cardinality(Holders) - 1
  BY <1>1, FS_RemoveElement
<1>3. Cardinality(Holders) \in Nat BY <1>1, FS_CardinalityType
<1>4. permits' = permits + 1 BY DEF Release
<1>5. permits' + Cardinality(Holders') = MaxConcurrency BY <1>1, <1>2, <1>3, <1>4
<1> QED BY <1>1, <1>2, <1>4, <1>5 DEF PlacesAreGivenBack

LEMMA ChInvInit == ChInit => ChInv
<1> SUFFICES ASSUME ChInit PROVE ChInv OBVIOUS
<1>0. Threshold \in Nat /\ MaxConcurrency \in Nat /\ NoKey \notin Keys BY ChannelAssumption
<1>1. 0 \in 0..Threshold BY <1>0
<1>2. Closed \in BreakerTypes /\ Closed.opened = "no" /\ Closed.probe = FALSE
  BY <1>1 DEF Closed, BreakerTypes
<1>3. ChTypes BY <1>0, <1>2 DEF ChInit, ChTypes
<1>4. QueueOf(queue, InQueue)
  <2>1. InQueue = {} BY DEF ChInit, InQueue
  <2>2. queue = <<>> /\ Len(queue) = 0 BY DEF ChInit
  <2>3. 1..Len(queue) = {} BY <2>2
  <2> QED BY <2>1, <2>2, <2>3 DEF QueueOf, IsInjective
<1>5. Holders = {} BY DEF ChInit, Holders
<1>6. IsFiniteSet(Holders) /\ PlacesAreGivenBack
  BY <1>0, <1>5, FS_EmptySet DEF ChInit, PlacesAreGivenBack
<1>7. BreakerIsTrue BY <1>2 DEF ChInit, BreakerIsTrue
<1> QED BY <1>3, <1>4, <1>6, <1>7 DEF ChInv

LEMMA ChInvStep == ChInv /\ [ChNext]_chVars => ChInv'
<1> SUFFICES ASSUME ChInv, [ChNext]_chVars PROVE ChInv' OBVIOUS
<1>t. ChTypes /\ QueueOf(queue, InQueue) /\ IsFiniteSet(Holders) /\ PlacesAreGivenBack /\ BreakerIsTrue
  BY DEF ChInv
<1>k. \A w \in Workers : chPc[w] # "idle" => chKey[w] \in Keys BY <1>t DEF ChTypes
<1>nk. NoKey \notin Keys BY ChannelAssumption
\* a dispatch ends, with any verdict
<1>e. ASSUME NEW w \in Workers, w \in Holders, NEW b, Judged(w, b), Calm(b),
             wasted' = wasted \/ wasted' = wasted \ {chKey[w]}, Release, UNCHANGED queue
      PROVE  ChInv'
  <2>1. chPc[w] # "idle" /\ chPc[w] # "queueing" BY <1>e DEF Holders
  <2>2. InQueue' = InQueue \ {w} /\ Holders' = Holders \ {w} BY <1>e, <2>1, JudgedKeeps
  <2>3. InQueue' = InQueue BY <2>1, <2>2 DEF InQueue
  <2>4. permits' \in Int /\ IsFiniteSet(Holders') /\ PlacesAreGivenBack'
    BY <1>e, <2>2, PlaceComesBack
  <2>5. QueueOf(queue', InQueue') BY <1>e, <2>3, <1>t
  <2>6. ChTypes' /\ BreakerIsTrue' BY <1>e, <2>1, <2>4, JudgedKeeps DEF ChTypes
  <2> QED BY <2>4, <2>5, <2>6 DEF ChInv
<1>1. ASSUME NEW w \in Workers, Call(w) PROVE ChInv'
  <2>1. PICK k \in Keys : /\ Allows(k) /\ chKey' = [chKey EXCEPT ![w] = k]
                          /\ breaker' = [breaker EXCEPT ![k].probe = breaker[k].opened = "due"]
    BY <1>1 DEF Call
  <2>2. /\ chPc[w] = "idle" /\ chPc' = [chPc EXCEPT ![w] = "preparing"]
        /\ UNCHANGED <<queue, permits, wasted>>
    BY <1>1 DEF Call, Moves
  <2>3. \A v \in Workers : IF v = w THEN chPc'[v] = "preparing" /\ chKey'[v] = k
                           ELSE chPc'[v] = chPc[v] /\ chKey'[v] = chKey[v]
    BY <2>1, <2>2, <1>t DEF ChTypes
  <2> DEFINE d == breaker[k].opened = "due"
             c == [breaker[k] EXCEPT !.probe = d]
  <2>4. breaker[k] \in BreakerTypes BY <1>t DEF ChTypes
  <2>5. breaker' = [breaker EXCEPT ![k] = c] BY <2>1
  <2>6. d \in BOOLEAN OBVIOUS
  <2> HIDE DEF d
  <2>7. c \in BreakerTypes /\ c.opened = breaker[k].opened /\ c.failures = breaker[k].failures
        /\ c.probe = d
    BY <2>4, <2>6 DEF BreakerTypes
  <2>8. c.probe => c.opened = "due" BY <2>7 DEF d
  <2> HIDE DEF c
  <2>9. breaker' \in [Keys -> BreakerTypes]
        /\ \A j \in Keys : breaker'[j] = IF j = k THEN c ELSE breaker[j]
    BY <2>5, <2>7, <1>t DEF ChTypes
  <2>10. ChTypes' BY <2>1, <2>2, <2>3, <2>9, <1>t, <1>nk DEF ChTypes
  <2>11. BreakerIsTrue'
    <3> SUFFICES ASSUME NEW j \in Keys
                 PROVE  /\ breaker'[j].opened # "no" => breaker'[j].failures = Threshold
                        /\ breaker'[j].probe => breaker'[j].opened = "due"
                        /\ breaker'[j].probe /\ j \notin wasted' => \E v \in Workers : chKey'[v] = j
      BY DEF BreakerIsTrue
    <3>1. CASE j = k BY <3>1, <2>3, <2>7, <2>8, <2>9, <1>t DEF BreakerIsTrue
    <3>2. CASE j # k
      <4>1. \A v \in Workers : chKey[v] = j => chKey'[v] = j
        BY <2>2, <2>3, <1>t, <1>nk DEF ChTypes
      <4> QED BY <3>2, <4>1, <2>2, <2>9, <1>t DEF BreakerIsTrue
    <3> QED BY <3>1, <3>2
  <2>12. InQueue' = InQueue /\ Holders' = Holders BY <2>2, <2>3 DEF InQueue, Holders
  <2>13. QueueOf(queue', InQueue') BY <2>2, <2>12, <1>t
  <2>14. IsFiniteSet(Holders') /\ PlacesAreGivenBack'
    BY <2>2, <2>12, <1>t DEF PlacesAreGivenBack
  <2> QED BY <2>10, <2>11, <2>13, <2>14 DEF ChInv
<1>2. ASSUME NEW w \in Workers, Prepared(w) PROVE ChInv'
  <2>1. /\ chPc[w] = "preparing" /\ chPc' = [chPc EXCEPT ![w] = "queueing"]
        /\ queue' = Append(queue, w) /\ UNCHANGED <<chKey, breaker, permits, wasted>>
    BY <1>2 DEF Prepared, Moves
  <2>2. \A v \in Workers : chPc'[v] = IF v = w THEN "queueing" ELSE chPc[v]
    BY <2>1, <1>t DEF ChTypes
  <2>3. ChTypes' BY <2>1, <2>2, <1>t DEF ChTypes
  <2>4. InQueue' = InQueue \cup {w} /\ w \notin InQueue /\ Holders' = Holders
    BY <2>1, <2>2 DEF InQueue, Holders
  <2>5. QueueOf(queue', InQueue')
    <3>1. queue \in Seq(Workers) BY <1>t DEF QueueOf
    <3>2. QueueOf(Append(queue, w), InQueue \cup {w}) BY <3>1, <2>4, <1>t, QueueGrows
    <3> QED BY <3>2, <2>1, <2>4
  <2>6. IsFiniteSet(Holders') /\ PlacesAreGivenBack' BY <2>1, <2>4, <1>t DEF PlacesAreGivenBack
  <2>7. BreakerIsTrue' BY <2>1, <1>t DEF BreakerIsTrue
  <2> QED BY <2>3, <2>5, <2>6, <2>7 DEF ChInv
<1>3. ASSUME NEW w \in Workers, NotSent(w) PROVE ChInv'
  <2>1. /\ chPc[w] = "preparing" /\ chPc' = [chPc EXCEPT ![w] = "idle"]
        /\ chKey' = [chKey EXCEPT ![w] = NoKey] /\ UNCHANGED <<breaker, queue, permits>>
        /\ wasted' = IF breaker[chKey[w]].probe /\ AloneWithKey(w)
                       THEN wasted \cup {chKey[w]} ELSE wasted
    BY <1>3 DEF NotSent, Returns, Moves
  <2>2. \A v \in Workers : IF v = w THEN chPc'[v] = "idle" /\ chKey'[v] = NoKey
                           ELSE chPc'[v] = chPc[v] /\ chKey'[v] = chKey[v]
    BY <2>1, <1>t DEF ChTypes
  <2>3. ChTypes' BY <2>1, <2>2, <1>t DEF ChTypes
  <2>4. InQueue' = InQueue /\ Holders' = Holders BY <2>1, <2>2 DEF InQueue, Holders
  <2>5. BreakerIsTrue'
    <3> SUFFICES ASSUME NEW k \in Keys, breaker[k].probe, k \notin wasted'
                 PROVE  \E v \in Workers : chKey'[v] = k
      BY <2>1, <1>t DEF BreakerIsTrue
    <3>1. k \notin wasted BY <2>1
    <3>2. PICK v \in Workers : chKey[v] = k BY <3>1, <1>t DEF BreakerIsTrue
    <3>3. CASE v # w BY <3>2, <3>3, <2>2
    <3>4. CASE v = w
      <4>1. ~ AloneWithKey(w) BY <3>2, <3>4, <2>1
      <4> QED BY <4>1, <3>2, <3>4, <2>2 DEF AloneWithKey
    <3> QED BY <3>3, <3>4
  <2>6. QueueOf(queue', InQueue') BY <2>1, <2>4, <1>t
  <2>7. IsFiniteSet(Holders') /\ PlacesAreGivenBack' BY <2>1, <2>4, <1>t DEF PlacesAreGivenBack
  <2> QED BY <2>3, <2>5, <2>6, <2>7 DEF ChInv
<1>4. ASSUME NEW w \in Workers, Acquire(w) PROVE ChInv'
  <2>1. /\ chPc[w] = "queueing" /\ Head(queue) = w /\ permits' = permits - 1
        /\ queue' = Tail(queue) /\ chPc' = [chPc EXCEPT ![w] = "dispatching"]
        /\ UNCHANGED <<chKey, breaker, wasted>>
    BY <1>4 DEF Acquire, Moves
  <2>2. \A v \in Workers : chPc'[v] = IF v = w THEN "dispatching" ELSE chPc[v]
    BY <2>1, <1>t DEF ChTypes
  <2>3. ChTypes' BY <2>1, <2>2, <1>t DEF ChTypes
  <2>4. InQueue' = InQueue \ {w} /\ Holders' = Holders \cup {w} /\ w \notin Holders
    BY <2>1, <2>2 DEF InQueue, Holders
  <2>5. QueueOf(queue', InQueue')
    <3>1. queue \in Seq(Workers) BY <1>t DEF QueueOf
    <3>2. w \in InQueue BY <2>1 DEF InQueue
    <3>3. PICK i \in 1..Len(queue) : queue[i] = w BY <3>2, <1>t DEF QueueOf
    <3>4. queue # <<>> BY <3>3, <3>1
    <3>5. queue[1] = w BY <3>4, <3>1, <2>1
    <3>6. Tail(queue) = RemoveAt(queue, 1) /\ 1 \in 1..Len(queue) BY <3>1, <3>4, TailIsRemoval
    <3>7. QueueOf(RemoveAt(queue, 1), InQueue \ {queue[1]}) BY <3>1, <3>6, <1>t, QueueShrinks
    <3> QED BY <3>5, <3>6, <3>7, <2>1, <2>4
  <2>6. IsFiniteSet(Holders') /\ PlacesAreGivenBack'
    <3>1. permits \in Int /\ permits + Cardinality(Holders) = MaxConcurrency
      BY <1>t DEF ChTypes, PlacesAreGivenBack
    <3>2. IsFiniteSet(Holders') /\ Cardinality(Holders') = Cardinality(Holders) + 1
      BY <2>4, <1>t, FS_AddElement
    <3>3. Cardinality(Holders) \in Nat BY <1>t, FS_CardinalityType
    <3>4. permits' + Cardinality(Holders') = MaxConcurrency BY <2>1, <3>1, <3>2, <3>3
    <3> QED BY <3>2, <3>4 DEF PlacesAreGivenBack
  <2>7. BreakerIsTrue' BY <2>1, <1>t DEF BreakerIsTrue
  <2> QED BY <2>3, <2>5, <2>6, <2>7 DEF ChInv
<1>5. ASSUME NEW w \in Workers, LeavesQueue(w) PROVE ChInv'
  <2> DEFINE b == AfterFailure(breaker[chKey[w]])
  <2>1. /\ chPc[w] = "queueing" /\ Judged(w, b) /\ UNCHANGED <<permits, wasted>>
    BY <1>5, <1>t DEF LeavesQueue, RecordFailure, Returns, Moves, Judged, ChTypes
  <2>2. Calm(b) BY <2>1, <1>k, CalmIs
  <2> HIDE DEF b
  <2>3. InQueue' = InQueue \ {w} /\ Holders' = Holders \ {w} BY <2>1, <2>2, JudgedKeeps
  <2>4. Holders' = Holders BY <2>1, <2>3 DEF Holders
  <2>5. QueueOf(queue', InQueue')
    <3>1. queue \in Seq(Workers) BY <1>t DEF QueueOf
    <3>2. PICK i \in 1..Len(queue) : queue[i] = w /\ queue' = RemoveAt(queue, i)
      BY <1>5 DEF LeavesQueue
    <3>3. QueueOf(RemoveAt(queue, i), InQueue \ {queue[i]}) BY <3>1, <1>t, QueueShrinks
    <3> QED BY <3>2, <3>3, <2>3
  <2>6. ChTypes' /\ BreakerIsTrue' BY <2>1, <2>2, <1>t, JudgedKeeps DEF ChTypes
  <2>7. IsFiniteSet(Holders') /\ PlacesAreGivenBack' BY <2>1, <2>4, <1>t DEF PlacesAreGivenBack
  <2> QED BY <2>5, <2>6, <2>7 DEF ChInv
<1>6. ASSUME NEW w \in Workers, ServiceAnswers(w) PROVE ChInv'
  <2>1. /\ w \in Holders /\ Judged(w, Closed) /\ wasted' = wasted \ {chKey[w]} /\ Release
        /\ UNCHANGED queue /\ chPc[w] # "idle"
    BY <1>6 DEF ServiceAnswers, Holders, RecordSuccess, Returns, Moves, Judged
  <2>2. Calm(Closed) BY <2>1, <1>k, CalmIs
  <2> QED BY <2>1, <2>2, <1>e
<1>7. ASSUME NEW w \in Workers, Fails(w) \/ TaskEnds(w) \/ GraceEnds(w) \/ IsCut(w) PROVE ChInv'
  <2> DEFINE b == AfterFailure(breaker[chKey[w]])
  <2>1. /\ w \in Holders /\ Judged(w, b) /\ wasted' = wasted /\ Release
        /\ UNCHANGED queue /\ chPc[w] # "idle"
    BY <1>7, <1>t
       DEF Fails, TaskEnds, GraceEnds, Abandons, IsCut, Holders, RecordFailure, Returns, Moves,
           Judged, ChTypes
  <2>2. Calm(b) BY <2>1, <1>k, CalmIs
  <2> HIDE DEF b
  <2> QED BY <2>1, <2>2, <1>e
<1>8. ASSUME NEW w \in Workers, TimesOut(w) PROVE ChInv'
  <2>1. /\ chPc[w] = "dispatching" /\ chPc' = [chPc EXCEPT ![w] = "cancelling"]
        /\ UNCHANGED <<chKey, breaker, queue, permits, wasted>>
    BY <1>8 DEF TimesOut, Moves
  <2>2. \A v \in Workers : chPc'[v] = IF v = w THEN "cancelling" ELSE chPc[v]
    BY <2>1, <1>t DEF ChTypes
  <2>3. ChTypes' BY <2>1, <2>2, <1>t DEF ChTypes
  <2>4. InQueue' = InQueue /\ Holders' = Holders BY <2>1, <2>2 DEF InQueue, Holders
  <2>5. QueueOf(queue', InQueue') BY <2>1, <2>4, <1>t
  <2>6. IsFiniteSet(Holders') /\ PlacesAreGivenBack' BY <2>1, <2>4, <1>t DEF PlacesAreGivenBack
  <2>7. BreakerIsTrue' BY <2>1, <1>t DEF BreakerIsTrue
  <2> QED BY <2>3, <2>5, <2>6, <2>7 DEF ChInv
<1>s. ASSUME UNCHANGED <<chPc, chKey, queue, permits, wasted>>, ChTypes', BreakerIsTrue'
      PROVE  ChInv'
  <2>1. InQueue' = InQueue /\ Holders' = Holders BY <1>s DEF InQueue, Holders
  <2>2. QueueOf(queue', InQueue') BY <1>s, <2>1, <1>t
  <2>3. IsFiniteSet(Holders') /\ PlacesAreGivenBack' BY <1>s, <2>1, <1>t DEF PlacesAreGivenBack
  <2> QED BY <1>s, <2>2, <2>3 DEF ChInv
<1>9. ASSUME NEW k \in Keys, WindowPasses(k) PROVE ChInv'
  <2> DEFINE c == [breaker[k] EXCEPT !.opened = "due"]
  <2>1. /\ breaker[k].opened = "open" /\ breaker' = [breaker EXCEPT ![k] = c]
        /\ UNCHANGED <<chPc, chKey, queue, permits, wasted>>
    BY <1>9 DEF WindowPasses
  <2>2. breaker[k] \in BreakerTypes BY <1>t DEF ChTypes
  <2>3. /\ c \in BreakerTypes /\ c.opened = "due" /\ c.failures = breaker[k].failures
        /\ c.probe = breaker[k].probe
    BY <2>2 DEF BreakerTypes
  <2> HIDE DEF c
  <2>4. \A j \in Keys : breaker'[j] = IF j = k THEN c ELSE breaker[j]
    BY <2>1, <1>t DEF ChTypes
  <2>5. ChTypes' BY <2>1, <2>3, <1>t DEF ChTypes
  <2>6. BreakerIsTrue' BY <2>1, <2>3, <2>4, <1>t DEF BreakerIsTrue
  <2> QED BY <2>1, <2>5, <2>6, <1>s
<1>10. ASSUME LooseEnds \/ UNCHANGED chVars PROVE ChInv'
  <2>1. UNCHANGED <<chPc, chKey, breaker, queue, permits, wasted>>
    BY <1>10 DEF LooseEnds, chVars
  <2>2. ChTypes' /\ BreakerIsTrue' BY <2>1, <1>t DEF ChTypes, BreakerIsTrue
  <2> QED BY <2>1, <2>2, <1>s
<1> QED
  BY <1>1, <1>2, <1>3, <1>4, <1>5, <1>6, <1>7, <1>8, <1>9, <1>10 DEF ChNext, ChStep

LEMMA ChInvImplies == ChInv => ChTypeOK /\ ChannelIsSound
<1> SUFFICES ASSUME ChInv PROVE ChTypeOK BY DEF ChInv, ChannelIsSound
<1>1. /\ ChTypes /\ queue \in Seq(Workers) /\ IsInjective(queue)
      /\ \A w \in Workers : w \in InQueue <=> \E i \in 1..Len(queue) : queue[i] = w
  BY DEF ChInv, QueueOf
<1>2. DOMAIN queue = 1..Len(queue) /\ \A i \in 1..Len(queue) : queue[i] \in Workers BY <1>1
<1>3. ToSet(queue) = InQueue BY <1>1, <1>2 DEF ToSet, InQueue
<1>4. \A k \in Keys : breaker[k].failures \in 0..Threshold BY <1>1 DEF ChTypes, BreakerTypes
<1> QED BY <1>1, <1>3, <1>4 DEF ChTypes, ChTypeOK, InQueue

(***************************************************************************)
(* However its calls end: a service's places come back, once, a key that   *)
(* is open has failed often enough, and a probe that was sent has a call.  *)
(***************************************************************************)
THEOREM ChannelStaysSound == ChSpec => []ChannelIsSound
BY ChInvInit, ChInvStep, ChInvImplies, PTL DEF ChSpec

-----------------------------------------------------------------------------
\* The composition: a step of it is one step of a component, and the others rest.

LEMMA ServicesSteps ==
  ServicesNext => \/ PiNext /\ UNCHANGED <<kdVars, exVars, chVars>>
                  \/ KdNext /\ UNCHANGED <<piVars, exVars, chVars>>
                  \/ ExNext /\ UNCHANGED <<piVars, kdVars, chVars>>
                  \/ ChNext /\ UNCHANGED <<piVars, kdVars, exVars>>
BY DEF ServicesNext, PiCall, Detail, Export, Channel

LEMMA ServicesParts ==
  [ServicesNext]_vars =>
    [PiNext]_piVars /\ [KdNext]_kdVars /\ [ExNext]_exVars /\ [ChNext]_chVars
<1>1. CASE ServicesNext BY <1>1, ServicesSteps
<1>2. CASE UNCHANGED vars BY <1>2 DEF vars
<1> QED BY <1>1, <1>2

LEMMA ServicesAreTheirParts == ServicesSpec => PiSpec /\ KdSpec /\ ExSpec /\ ChSpec
BY ServicesParts, PTL DEF ServicesSpec, ServicesInit, PiSpec, KdSpec, ExSpec, ChSpec

LEMMA PartsKeep ==
  /\ PiSpec => []PiTypeOK
  /\ KdSpec => [](KdTypeOK /\ HeadAndCacheAreTrue /\ FirstRunIsAlone)
  /\ ExSpec => [](ExTypeOK /\ ExportIsSound)
  /\ ChSpec => [](ChTypeOK /\ ChannelIsSound)
<1>1. KdSpec => [](KdTypeOK /\ HeadAndCacheAreTrue /\ FirstRunIsAlone)
  BY KdInvInit, KdInvStep, KdInvImplies, PTL DEF KdSpec
<1>2. ExSpec => [](ExTypeOK /\ ExportIsSound)
  BY ExInvInit, ExInvStep, ExInvImplies, PTL DEF ExSpec
<1>3. ChSpec => [](ChTypeOK /\ ChannelIsSound)
  BY ChInvInit, ChInvStep, ChInvImplies, PTL DEF ChSpec
<1> QED BY <1>1, <1>2, <1>3, PiTypeCorrect, PTL

(***************************************************************************)
(* Types, and the bookkeeping of each component, in the composition.       *)
(***************************************************************************)
THEOREM ServicesKeepTypes == ServicesSpec => []ServicesTypeOK
<1>1. PiTypeOK /\ KdTypeOK /\ ExTypeOK /\ ChTypeOK => ServicesTypeOK BY DEF ServicesTypeOK
<1> QED BY <1>1, ServicesAreTheirParts, PartsKeep, PTL

(***************************************************************************)
(* In the composition: heads, caches, files, places and breakers are what  *)
(* they say they are.                                                      *)
(***************************************************************************)
THEOREM ServicesStaySound == ServicesSpec => []ServicesAreSound
<1>1. HeadAndCacheAreTrue /\ FirstRunIsAlone /\ ExportIsSound /\ ChannelIsSound
        => ServicesAreSound
  BY DEF ServicesAreSound
<1> QED BY <1>1, ServicesAreTheirParts, PartsKeep, PTL

(***************************************************************************)
(* In the composition: one dispatch, deserved charges, and the contract of *)
(* a billed tool call.                                                     *)
(***************************************************************************)
THEOREM ServicesKeepCalls ==
  ServicesSpec => [](PiCallIsSafe /\ ChargesAreDeserved) /\ PiKeepsContract
BY ServicesAreTheirParts, PiCallsAreSafe, PiChargesAreDeserved, PiIsBilledByContract, PTL
=============================================================================
