------------------------- MODULE RunLifecycleProofs -------------------------
(***************************************************************************)
(* Proofs about RunLifecycle, for every number of workers, requests,       *)
(* decisions and faults.  Types first; then one lemma about what a step    *)
(* may do to the row, the session and the events, from which the           *)
(* invariants of the run follow.                                           *)
(***************************************************************************)
EXTENDS RunLifecycle, TLAPS

-----------------------------------------------------------------------------
(***************************************************************************)
(* Types.                                                                  *)
(***************************************************************************)
LEMMA RowFields ==
  /\ \A row : row \in Row <=>
       /\ row = [status |-> row.status, cancel_requested |-> row.cancel_requested,
                 lease_owner |-> row.lease_owner, lease_expires |-> row.lease_expires]
       /\ row.status \in Statuses /\ row.cancel_requested \in BOOLEAN
       /\ row.lease_owner \in Workers \cup {NoWorker}
       /\ row.lease_expires \in {"null", "live", "lapsed"}
  /\ NewRow \in Row
  BY DEF Row, NewRow, Statuses

LEMMA LeftRow ==
  ASSUME NEW row \in Row, NEW st \in Statuses
  PROVE  Left(row, st) \in Row /\ Left(row, st).status = st
  BY DEF Row, Left

LEMMA LeasedRow ==
  ASSUME NEW row \in Row, NEW w \in Workers
  PROVE  Leased(row, w) \in Row /\ Leased(row, w).status = row.status
  BY DEF Row, Leased

LEMMA RunningRow ==
  ASSUME NEW row \in Row
  PROVE  /\ [row EXCEPT !.status = "running"] \in Row
         /\ [row EXCEPT !.status = "running"].status = "running"
  BY DEF Row, Statuses

LEMMA RenewedRow ==
  ASSUME NEW row \in Row
  PROVE  /\ [row EXCEPT !.lease_expires = "live"] \in Row
         /\ [row EXCEPT !.lease_expires = "live"].status = row.status
         /\ Lapse(row) \in Row /\ Lapse(row).status = row.status
  BY DEF Row, Lapse

LEMMA CancelledRow ==
  ASSUME NEW row \in Row
  PROVE  /\ [row EXCEPT !.cancel_requested = TRUE] \in Row
         /\ [row EXCEPT !.cancel_requested = TRUE].status = row.status
  BY DEF Row

LEMMA SavedRow ==
  ASSUME run \in Row, NEW old \in Row, NEW new \in Row, Save(old, new)
  PROVE  run' \in Row /\ (new.status # old.status => run'.status = new.status)
  BY DEF Row, Save, Column

LEMMA AttemptEnds ==
  ASSUME open \in Nat, EndOpenAttempt
  PROVE  open' \in Nat /\ (open <= 1 => open' = 0)
  BY DEF EndOpenAttempt

RowsOK == run \in Row /\ open \in Nat /\ slot \in BOOLEAN /\ events \in Nat

CopiesOK == pc \in [Sessions -> Steps] /\ seen \in [Sessions -> Row]

CountsOK == decisions \in [Workers -> 0..MaxDecisions] /\ faults \in 0..MaxFaults

LEMMA TypeParts == LifecycleTypeOK <=> RowsOK /\ CopiesOK /\ CountsOK
  BY DEF LifecycleTypeOK, RowsOK, CopiesOK, CountsOK

LEMMA MovesType ==
  ASSUME CopiesOK, NEW s \in Sessions, NEW step \in Steps
  PROVE  /\ Leave(s, step) => CopiesOK'
         /\ \A copy \in Row : Go(s, step, copy) => CopiesOK'
  BY RowFields DEF CopiesOK, Leave, Go

-----------------------------------------------------------------------------
(***************************************************************************)
(* What a step may do to the row, the attempts, the session and the        *)
(* events.  FailRun is the one that may write a run that has ended.        *)
(***************************************************************************)
Kept == run'.status = run.status /\ UNCHANGED <<open, slot, events>>

Ends ==
  /\ run'.status \in TerminalStatuses /\ EndOpenAttempt /\ slot' = FALSE
  /\ events = 0 /\ events' = events + 1

EndsAgain ==
  /\ run'.status = "failed" /\ EndOpenAttempt /\ slot' = FALSE
  /\ events # 0 /\ UNCHANGED events

Waits ==
  /\ run'.status \in {"paused", "clarification_requested"} /\ EndOpenAttempt /\ slot' = FALSE
  /\ UNCHANGED events

Starts ==
  /\ run'.status = "running" /\ slot' = TRUE
  /\ open' = open + 1 \/ Reopened
  /\ UNCHANGED events

NoStart == Kept \/ Ends \/ EndsAgain \/ Waits

Effect == NoStart \/ Starts

LEMMA SettleEffect ==
  ASSUME RowsOK, NEW st \in TerminalStatuses, NEW may \in BOOLEAN, Settle(st, may)
  PROVE  RowsOK' /\ (Kept \/ Ends)
<1>1. CASE Unsettled /\ may
  <2>1. run' = Left(run, st) /\ EndOpenAttempt /\ slot' = FALSE /\ events' = events + 1 /\ events = 0
    BY <1>1 DEF Settle, ClearSessionSlot, TerminalEvent, Unsettled
  <2>2. run' \in Row /\ run'.status = st
    BY <2>1, LeftRow DEF RowsOK, Statuses
  <2>3. open' \in Nat BY <2>1, AttemptEnds DEF RowsOK
  <2>s. slot' \in BOOLEAN BY <2>1
  <2>e. events' \in Nat BY <2>1 DEF RowsOK
  <2>4. RowsOK' BY <2>2, <2>3, <2>s, <2>e DEF RowsOK
  <2>5. Ends BY <2>1, <2>2 DEF Ends
  <2> QED BY <2>4, <2>5
<1>2. CASE ~(Unsettled /\ may)
  BY <1>2 DEF Settle, RowsOK, Kept, rowVars
<1> QED BY <1>1, <1>2

LEMMA FailRunEffect ==
  ASSUME RowsOK, CopiesOK, NEW w \in Workers, FailRun(w)
  PROVE  RowsOK' /\ NoStart
<1> seen[w] \in Row BY DEF CopiesOK, Sessions
<1>1. CASE MayEnd(seen[w], w)
  <2>1. /\ Save(seen[w], Left(seen[w], "failed")) /\ EndOpenAttempt /\ slot' = FALSE
        /\ IF events = 0 THEN events' = events + 1 ELSE UNCHANGED events
    BY <1>1 DEF FailRun, ClearSessionSlot, TerminalEvent, Unsettled
  <2>2. seen[w].status = "running" BY <1>1 DEF MayEnd
  <2>3. "failed" \in Statuses /\ "failed" # "running" BY DEF Statuses, TerminalStatuses
  <2>4. Left(seen[w], "failed") \in Row /\ Left(seen[w], "failed").status = "failed"
    BY <2>3, LeftRow
  <2>5. run' \in Row /\ run'.status = "failed"
    BY <2>1, <2>2, <2>3, <2>4, SavedRow DEF RowsOK
  <2>6. open' \in Nat BY <2>1, AttemptEnds DEF RowsOK
  <2>s. slot' \in BOOLEAN BY <2>1
  <2>e. events' \in Nat BY <2>1 DEF RowsOK
  <2>7. RowsOK' BY <2>5, <2>6, <2>s, <2>e DEF RowsOK
  <2>8. Ends \/ EndsAgain BY <2>1, <2>5 DEF Ends, EndsAgain, TerminalStatuses
  <2> QED BY <2>7, <2>8 DEF NoStart
<1>2. CASE ~MayEnd(seen[w], w)
  BY <1>2 DEF FailRun, RowsOK, NoStart, Kept, rowVars
<1> QED BY <1>1, <1>2

LEMMA WaitEffect ==
  ASSUME RowsOK, CopiesOK, NEW w \in Workers, NEW st \in {"paused", "clarification_requested"},
         seen[w].status = "running", Save(seen[w], Left(seen[w], st)),
         EndOpenAttempt, ClearSessionSlot, UNCHANGED events
  PROVE  RowsOK' /\ Waits
<1>1. seen[w] \in Row BY DEF CopiesOK, Sessions
<1>2. st \in Statuses /\ st # "running" BY DEF Statuses
<1>3. Left(seen[w], st) \in Row /\ Left(seen[w], st).status = st
  BY <1>1, <1>2, LeftRow
<1>4. run' \in Row /\ run'.status = st
  BY <1>1, <1>2, <1>3, SavedRow DEF RowsOK
<1> QED BY <1>4, AttemptEnds DEF RowsOK, Waits, ClearSessionSlot

LEMMA ClaimEffect ==
  ASSUME RowsOK, CopiesOK, NEW w \in Workers, Claim(w) \/ Orphan(w)
  PROVE  RowsOK' /\ Effect
<1>1. CASE Look(w) \/ LookForOrphan(w)
  BY <1>1 DEF Look, LookForOrphan, RowsOK, Effect, NoStart, Kept, rowVars
<1>2. CASE ClaimQueued(w)
  <2>1. /\ run' = [Leased(run, w) EXCEPT !.status = "running"]
        /\ open' = open + 1 /\ slot' = TRUE /\ UNCHANGED events
    BY <1>2 DEF ClaimQueued, StartsWork
  <2>2. run' \in Row /\ run'.status = "running" BY <2>1, LeasedRow, RunningRow DEF RowsOK
  <2> QED BY <2>1, <2>2 DEF RowsOK, Effect, Starts
<1>3. CASE ClaimResumed(w)
  BY <1>3, LeasedRow DEF ClaimResumed, StartsWork, RowsOK, Effect, NoStart, Kept
<1>4. CASE TakeOver(w)
  <2>1. run' = [Leased(run, w) EXCEPT !.status = "running"] /\ Reopened /\ slot' = TRUE /\ UNCHANGED events
    BY <1>4 DEF TakeOver, StartsWork
  <2>2. run' \in Row /\ run'.status = "running"
    BY <2>1, LeasedRow, RunningRow DEF RowsOK
  <2>3. open' \in Nat BY <2>1 DEF Reopened, RowsOK
  <2> QED BY <2>1, <2>2, <2>3 DEF RowsOK, Effect, Starts
<1>5. CASE SettleOrphan(w)
  <2>1. Settle("cancelled", run.status \notin TerminalStatuses) BY <1>5 DEF SettleOrphan
  <2> QED BY <2>1, SettleEffect DEF Effect, NoStart, TerminalStatuses
<1> QED BY <1>1, <1>2, <1>3, <1>4, <1>5 DEF Claim, Orphan

LEMMA LoopEffect ==
  ASSUME RowsOK, CopiesOK, NEW w \in Workers, Loop(w)
  PROVE  RowsOK' /\ NoStart
<1>1. CASE \/ LoopEnds(w) \/ GateShut(w) \/ NothingDone(w) \/ Act(w) \/ Complete(w)
           \/ ActionReturns(w) \/ PublishFails(w) \/ LosesPublication(w)
  <2>1. UNCHANGED rowVars
    BY <1>1 DEF LoopEnds, GateShut, NothingDone, Act, Complete, ActionReturns, PublishFails,
                LosesPublication
  <2> QED BY <2>1 DEF rowVars, RowsOK, NoStart, Kept
<1>2. CASE LeaseLost(w) \/ DecisionFails(w)
  BY <1>2, FailRunEffect DEF LeaseLost, DecisionFails
<1>3. CASE PauseAtLimit(w)
  <2>1. /\ seen[w].status = "running" /\ Save(seen[w], Left(seen[w], "paused"))
        /\ EndOpenAttempt /\ ClearSessionSlot /\ UNCHANGED events
    BY <1>3 DEF PauseAtLimit, Renews
  <2> QED BY <2>1, WaitEffect DEF NoStart
<1>4. CASE AskUser(w)
  <2>1. /\ seen[w].status = "running"
        /\ Save(seen[w], Left(seen[w], "clarification_requested"))
        /\ EndOpenAttempt /\ ClearSessionSlot /\ UNCHANGED events
    BY <1>4 DEF AskUser, GateOpen
  <2> QED BY <2>1, WaitEffect DEF NoStart
<1>5. CASE Decide(w)
  BY <1>5, RenewedRow DEF Decide, RowsOK, NoStart, Kept
<1>6. CASE CancelSeen(w)
  <2>1. Settle("cancelled", run.status \notin TerminalStatuses) BY <1>6 DEF CancelSeen
  <2> QED BY <2>1, SettleEffect DEF NoStart, TerminalStatuses
<1>7. CASE SettleCompleted(w)
  <2>1. Settle("completed", MayEnd(run, w)) BY <1>7 DEF SettleCompleted
  <2>2. MayEnd(run, w) \in BOOLEAN BY DEF MayEnd
  <2> QED BY <2>1, <2>2, SettleEffect DEF NoStart, TerminalStatuses
<1>8. CASE ExecutorFails(w)
  <2>1. Settle("failed", MayEnd(run, w)) BY <1>8 DEF ExecutorFails
  <2>2. MayEnd(run, w) \in BOOLEAN BY DEF MayEnd
  <2> QED BY <2>1, <2>2, SettleEffect DEF NoStart, TerminalStatuses
<1> QED BY <1>1, <1>2, <1>3, <1>4, <1>5, <1>6, <1>7, <1>8 DEF Loop

LEMMA UserEffect ==
  ASSUME RowsOK, NEW r \in Requests, User(r)
  PROVE  RowsOK' /\ Effect
<1>1. CASE \E what \in {"cancel", "resume"} : Ask(r, what)
  BY <1>1 DEF Ask, rowVars, RowsOK, Effect, NoStart, Kept
<1>2. CASE CancelNow(r)
  <2>1. Settle("cancelled", run.status \notin TerminalStatuses) BY <1>2 DEF CancelNow
  <2> QED BY <2>1, SettleEffect DEF Effect, NoStart, TerminalStatuses
<1>3. CASE RequestCancel(r)
  BY <1>3, CancelledRow DEF RequestCancel, RowsOK, Effect, NoStart, Kept
<1>4. CASE Resume(r)
  <2>1. CASE ToResume(r).status = "paused" /\ ~ToResume(r).cancel_requested
    <3>1. /\ run' = [run EXCEPT !.status = "running"]
          /\ open' = open + 1 /\ slot' = TRUE /\ UNCHANGED events
      BY <1>4, <2>1 DEF Resume
    <3> QED BY <3>1, RunningRow DEF RowsOK, Effect, Starts
  <2>2. CASE ~(ToResume(r).status = "paused" /\ ~ToResume(r).cancel_requested)
    <3>1. UNCHANGED rowVars BY <1>4, <2>2 DEF Resume, rowVars
    <3> QED BY <3>1 DEF rowVars, RowsOK, Effect, NoStart, Kept
  <2> QED BY <2>1, <2>2
<1> QED BY <1>1, <1>2, <1>3, <1>4 DEF User

LEMMA TimeEffect ==
  ASSUME RowsOK, LeftLeaseLapses \/ HeartbeatFails
         \/ (\E w \in Workers : IterationOverruns(w) \/ Crash(w))
  PROVE  RowsOK' /\ NoStart
<1>1. CASE LeftLeaseLapses \/ HeartbeatFails
  <2>1. run' = Lapse(run) /\ UNCHANGED <<open, slot, events>>
    BY <1>1 DEF LeftLeaseLapses, HeartbeatFails, LeaseLapses
  <2> QED BY <2>1, RenewedRow DEF RowsOK, NoStart, Kept
<1>2. CASE \E w \in Workers : IterationOverruns(w) \/ Crash(w)
  <2>1. UNCHANGED rowVars BY <1>2 DEF IterationOverruns, Crash
  <2> QED BY <2>1 DEF rowVars, RowsOK, NoStart, Kept
<1> QED BY <1>1, <1>2

(***************************************************************************)
(* No step does anything else to the run.                                  *)
(***************************************************************************)
LEMMA StepEffect ==
  ASSUME RowsOK, CopiesOK, [Next]_vars
  PROVE  RowsOK' /\ Effect
<1>1. CASE UNCHANGED vars BY <1>1 DEF vars, RowsOK, Effect, NoStart, Kept
<1>2. CASE Next BY <1>2, ClaimEffect, LoopEffect, UserEffect, TimeEffect DEF Next, Effect
<1> QED BY <1>1, <1>2

-----------------------------------------------------------------------------
(***************************************************************************)
(* Sessions stay sessions: a step moves one of them, or time passes.       *)
(***************************************************************************)
LEMMA WorkerCopies ==
  ASSUME RowsOK, CopiesOK, NEW w \in Workers, Claim(w) \/ Orphan(w) \/ Loop(w) \/ Crash(w)
  PROVE  \E step \in Steps : Leave(w, step) \/ \E copy \in Row : Go(w, step, copy)
<1> seen[w] \in Row /\ w \in Sessions BY DEF CopiesOK, Sessions
<1>s. {"idle", "looked", "orphan", "top", "deciding", "acting", "completing"} \subseteq Steps
  BY DEF Steps, Working
<1>1. CASE Look(w) \/ LookForOrphan(w)
  BY <1>1, <1>s DEF Look, LookForOrphan, RowsOK
<1>2. CASE ClaimQueued(w)
  <2>1. Go(w, "top", [Leased(seen[w], w) EXCEPT !.status = "running"])
    BY <1>2 DEF ClaimQueued, StartsWork
  <2> QED BY <2>1, <1>s, LeasedRow, RunningRow
<1>3. CASE ClaimResumed(w) \/ TakeOver(w)
  <2>1. Go(w, "top", Leased(seen[w], w)) BY <1>3 DEF ClaimResumed, TakeOver, StartsWork
  <2> QED BY <2>1, <1>s, LeasedRow
<1>4. CASE \/ SettleOrphan(w) \/ LoopEnds(w) \/ GateShut(w) \/ PauseAtLimit(w) \/ AskUser(w)
           \/ CancelSeen(w) \/ LosesPublication(w) \/ SettleCompleted(w)
           \/ ExecutorFails(w) \/ Crash(w) \/ LeaseLost(w) \/ DecisionFails(w)
  <2>1. Leave(w, "idle")
    BY <1>4 DEF SettleOrphan, LoopEnds, GateShut, PauseAtLimit, AskUser, CancelSeen,
      LosesPublication, SettleCompleted, ExecutorFails, Crash, LeaseLost, DecisionFails, FailRun
  <2> QED BY <2>1, <1>s
<1>5. CASE NothingDone(w) \/ Act(w) \/ Complete(w) \/ ActionReturns(w) \/ Decide(w)
  <2>1. \E step \in {"top", "acting", "completing", "deciding"} : Go(w, step, seen[w])
    BY <1>5 DEF NothingDone, Act, Complete, ActionReturns, Decide
  <2> QED BY <2>1, <1>s
<1>6. CASE PublishFails(w)
  <2>1. Go(w, "top", run) BY <1>6 DEF PublishFails
  <2> QED BY <2>1, <1>s DEF RowsOK
<1> QED BY <1>1, <1>2, <1>3, <1>4, <1>5, <1>6 DEF Claim, Orphan, Loop

LEMMA UserCopies ==
  ASSUME RowsOK, CopiesOK, NEW r \in Requests, User(r)
  PROVE  \E step \in Steps : Leave(r, step) \/ \E copy \in Row : Go(r, step, copy)
<1>s. {"cancel", "resume", "done"} \subseteq Steps BY DEF Steps
<1>1. CASE \E what \in {"cancel", "resume"} : Ask(r, what)
  BY <1>1, <1>s DEF Ask, RowsOK
<1>2. CASE CancelNow(r) \/ RequestCancel(r) \/ Resume(r)
  <2>1. Leave(r, "done") BY <1>2 DEF CancelNow, RequestCancel, Resume
  <2> QED BY <2>1, <1>s
<1> QED BY <1>1, <1>2 DEF User

LEMMA TimeCopies ==
  ASSUME CopiesOK, \/ LeftLeaseLapses \/ HeartbeatFails
                   \/ \E w \in Workers : IterationOverruns(w)
  PROVE  /\ pc' = pc /\ seen' \in [Sessions -> Row]
         /\ \A s \in Sessions : seen'[s].status = seen[s].status
<1>1. CASE LeftLeaseLapses \/ HeartbeatFails
  <2>1. pc' = pc /\ seen' = [s \in Sessions |-> Lapse(seen[s])]
    BY <1>1 DEF LeftLeaseLapses, HeartbeatFails, LeaseLapses
  <2>2. \A s \in Sessions : Lapse(seen[s]) \in Row /\ Lapse(seen[s]).status = seen[s].status
    BY RenewedRow DEF CopiesOK
  <2> QED BY <2>1, <2>2
<1>2. ASSUME NEW w \in Workers, IterationOverruns(w)
      PROVE  /\ pc' = pc /\ seen' \in [Sessions -> Row]
             /\ \A s \in Sessions : seen'[s].status = seen[s].status
  <2>1. pc' = pc /\ seen' = [seen EXCEPT ![w] = Lapse(seen[w])]
    BY <1>2 DEF IterationOverruns
  <2>2. w \in Sessions /\ Lapse(seen[w]) \in Row /\ Lapse(seen[w]).status = seen[w].status
    BY RenewedRow DEF CopiesOK, Sessions
  <2> QED BY <2>1, <2>2 DEF CopiesOK
<1> QED BY <1>1, <1>2

LEMMA StepCopies ==
  ASSUME RowsOK, CopiesOK, [Next]_vars
  PROVE  CopiesOK'
<1>1. CASE UNCHANGED vars BY <1>1 DEF vars, CopiesOK
<1>2. ASSUME NEW w \in Workers, Claim(w) \/ Orphan(w) \/ Loop(w) \/ Crash(w) PROVE CopiesOK'
  BY <1>2, WorkerCopies, MovesType DEF Sessions
<1>3. ASSUME NEW r \in Requests, User(r) PROVE CopiesOK'
  BY <1>3, UserCopies, MovesType DEF Sessions
<1>4. CASE LeftLeaseLapses \/ HeartbeatFails \/ \E w \in Workers : IterationOverruns(w)
  BY <1>4, TimeCopies DEF CopiesOK
<1> QED BY <1>1, <1>2, <1>3, <1>4 DEF Next

LEMMA StepCounts ==
  ASSUME CountsOK, [Next]_vars
  PROVE  CountsOK'
<1> USE LifecycleAssumptions
<1>1. CASE UNCHANGED <<decisions, faults>> BY <1>1 DEF CountsOK
<1>2. ASSUME NEW w \in Workers, UNCHANGED faults,
             Counted(w) \/ decisions' = [decisions EXCEPT ![w] = 0]
      PROVE  CountsOK'
  BY <1>2 DEF Counted, CountsOK
<1>3. CASE UNCHANGED decisions /\ Fault
  BY <1>3 DEF CountsOK, Fault
<1>4. ASSUME NEW w \in Workers, Claim(w) \/ Orphan(w) \/ Loop(w) PROVE CountsOK'
  <2>1. CASE Look(w) \/ Orphan(w)
    BY <1>1, <2>1 DEF Look, Orphan, LookForOrphan, SettleOrphan
  <2>2. CASE ClaimQueued(w) \/ ClaimResumed(w) \/ TakeOver(w)
    BY <1>2, <2>2 DEF ClaimQueued, ClaimResumed, TakeOver, StartsWork
  <2>3. CASE GateShut(w) \/ NothingDone(w) \/ AskUser(w) \/ Act(w) \/ Complete(w)
    BY <1>2, <2>3 DEF GateShut, NothingDone, AskUser, Act, Complete
  <2>4. CASE \/ LoopEnds(w) \/ LeaseLost(w) \/ PauseAtLimit(w) \/ Decide(w) \/ CancelSeen(w)
             \/ DecisionFails(w) \/ ActionReturns(w) \/ PublishFails(w) \/ LosesPublication(w)
             \/ SettleCompleted(w) \/ ExecutorFails(w)
    BY <1>1, <2>4 DEF LoopEnds, LeaseLost, PauseAtLimit, Decide, CancelSeen, DecisionFails,
      ActionReturns, PublishFails, LosesPublication, SettleCompleted, ExecutorFails, FailRun
  <2> QED BY <1>4, <2>1, <2>2, <2>3, <2>4 DEF Claim, Loop
<1>5. CASE \E r \in Requests : User(r)
  BY <1>1, <1>5 DEF User, Ask, CancelNow, RequestCancel, Resume
<1>6. CASE LeftLeaseLapses
  BY <1>1, <1>6 DEF LeftLeaseLapses, LeaseLapses
<1>7. CASE HeartbeatFails \/ \E w \in Workers : IterationOverruns(w) \/ Crash(w)
  BY <1>3, <1>7 DEF HeartbeatFails, LeaseLapses, IterationOverruns, Crash
<1> QED BY <1>1, <1>4, <1>5, <1>6, <1>7 DEF Next, vars

LEMMA InitTypes == Init => LifecycleTypeOK
  BY LifecycleAssumptions, RowFields DEF Init, LifecycleTypeOK, Steps

(***************************************************************************)
(* Rows, copies and counters keep their types, whatever is written over    *)
(* what.                                                                   *)
(***************************************************************************)
THEOREM LifecycleTypeCorrect == Spec => []LifecycleTypeOK
<1>1. LifecycleTypeOK /\ [Next]_vars => LifecycleTypeOK'
  BY TypeParts, StepEffect, StepCopies, StepCounts DEF LifecycleTypeOK, RowsOK, CopiesOK, CountsOK
<1> QED BY <1>1, InitTypes, PTL DEF Spec

-----------------------------------------------------------------------------
(***************************************************************************)
(* settle_terminal's promise, kept by all who write the row: an ended run  *)
(* has its event, and never two.                                           *)
(***************************************************************************)
THEOREM EndedRunsHaveEvent == Spec => []EndedHasEvent
<1>1. Init => EndedHasEvent BY DEF Init, NewRow, EndedHasEvent, TerminalStatuses
<1>2. ASSUME LifecycleTypeOK, EndedHasEvent, [Next]_vars PROVE EndedHasEvent'
  <2>1. events \in Nat /\ Effect BY <1>2, TypeParts, StepEffect DEF RowsOK
  <2>2. CASE Kept BY <1>2, <2>2 DEF Kept, EndedHasEvent
  <2>3. CASE Ends \/ EndsAgain BY <2>1, <2>3 DEF Ends, EndsAgain, EndedHasEvent
  <2>4. CASE Waits \/ Starts BY <2>4 DEF Waits, Starts, EndedHasEvent, TerminalStatuses
  <2> QED BY <2>1, <2>2, <2>3, <2>4 DEF Effect, NoStart
<1> QED BY <1>1, <1>2, LifecycleTypeCorrect, PTL DEF Spec

THEOREM EndsOnce == Spec => []OneTerminalEvent
<1>1. Init => OneTerminalEvent BY DEF Init, OneTerminalEvent
<1>2. ASSUME LifecycleTypeOK, OneTerminalEvent, [Next]_vars PROVE OneTerminalEvent'
  <2>1. events \in Nat /\ Effect BY <1>2, TypeParts, StepEffect DEF RowsOK
  <2> QED
    BY <1>2, <2>1 DEF Effect, NoStart, Kept, Ends, EndsAgain, Waits, Starts, OneTerminalEvent
<1> QED BY <1>1, <1>2, LifecycleTypeCorrect, PTL DEF Spec

(***************************************************************************)
(* _clear_session_slot and _set_session_slot go with every change of the   *)
(* status, so the session is free exactly when the run has left it.        *)
(***************************************************************************)
THEOREM SlotFollowsRun == Spec => []SlotMatchesRun
<1>1. Init => SlotMatchesRun BY DEF Init, NewRow, SlotMatchesRun
<1>2. ASSUME LifecycleTypeOK, SlotMatchesRun, [Next]_vars PROVE SlotMatchesRun'
  <2>1. Effect BY <1>2, TypeParts, StepEffect
  <2>2. CASE Kept BY <1>2, <2>2 DEF Kept, SlotMatchesRun
  <2>3. CASE Ends \/ EndsAgain \/ Waits
    BY <2>3 DEF Ends, EndsAgain, Waits, SlotMatchesRun, TerminalStatuses
  <2>4. CASE Starts BY <2>4 DEF Starts, SlotMatchesRun
  <2> QED BY <2>1, <2>2, <2>3, <2>4 DEF Effect, NoStart
<1> QED BY <1>1, <1>2, LifecycleTypeCorrect, PTL DEF Spec

-----------------------------------------------------------------------------
(***************************************************************************)
(* Who completes a run holds its lease, or nobody does.                    *)
(***************************************************************************)
LEMMA OnlyTheLoopCompletes ==
  ASSUME RowsOK, CopiesOK, Next, run.status # "completed", run'.status = "completed"
  PROVE  \E w \in Workers : SettleCompleted(w)
<1> DEFINE Other == run'.status = run.status \/ run'.status # "completed"
<1>1. ASSUME NEW st \in TerminalStatuses, st # "completed", NEW may \in BOOLEAN, Settle(st, may)
      PROVE  Other
  BY <1>1, LeftRow DEF Settle, rowVars, RowsOK, Statuses
<1>2. ASSUME NEW w \in Workers, FailRun(w) \/ PauseAtLimit(w) \/ AskUser(w) PROVE Other
  <2>1. seen[w] \in Row BY DEF CopiesOK, Sessions
  <2>2. PICK st \in {"failed", "paused", "clarification_requested"} :
          \/ UNCHANGED run
          \/ Save(seen[w], Left(seen[w], st)) /\ seen[w].status = "running"
    BY <1>2 DEF FailRun, MayEnd, PauseAtLimit, AskUser, Renews, GateOpen, rowVars
  <2>3. st \in Statuses /\ st # "running" BY DEF Statuses, TerminalStatuses
  <2> QED BY <2>1, <2>2, <2>3, LeftRow, SavedRow DEF RowsOK
<1>3. ASSUME NEW w \in Workers, Claim(w) \/ Orphan(w) PROVE Other
  <2>1. CASE Orphan(w)
    BY <1>1, <2>1 DEF Orphan, LookForOrphan, SettleOrphan, TerminalStatuses, rowVars
  <2>2. CASE Claim(w)
    BY <2>2, LeasedRow, RunningRow
       DEF Claim, Look, ClaimQueued, ClaimResumed, TakeOver, rowVars, RowsOK
  <2> QED BY <1>3, <2>1, <2>2
<1>4. ASSUME NEW w \in Workers, Loop(w), ~SettleCompleted(w) PROVE Other
  <2>1. CASE LeaseLost(w) \/ DecisionFails(w) \/ PauseAtLimit(w) \/ AskUser(w)
    BY <1>2, <2>1 DEF LeaseLost, DecisionFails
  <2>2. CASE CancelSeen(w) BY <1>1, <2>2 DEF CancelSeen, TerminalStatuses
  <2>3. CASE ExecutorFails(w)
    <3>1. MayEnd(run, w) \in BOOLEAN BY DEF MayEnd
    <3> QED BY <1>1, <2>3, <3>1 DEF ExecutorFails, TerminalStatuses
  <2>4. CASE Decide(w) BY <2>4, RenewedRow DEF Decide, RowsOK
  <2>5. CASE \/ LoopEnds(w) \/ GateShut(w) \/ NothingDone(w) \/ Act(w) \/ Complete(w)
             \/ ActionReturns(w) \/ PublishFails(w) \/ LosesPublication(w)
    BY <2>5 DEF LoopEnds, GateShut, NothingDone, Act, Complete, ActionReturns, PublishFails,
                LosesPublication, rowVars
  <2> QED BY <1>4, <2>1, <2>2, <2>3, <2>4, <2>5 DEF Loop
<1>5. ASSUME NEW r \in Requests, User(r) PROVE Other
  BY <1>1, <1>5, CancelledRow, RunningRow
     DEF User, Ask, CancelNow, RequestCancel, Resume, rowVars, RowsOK, TerminalStatuses
<1>6. CASE LeftLeaseLapses \/ HeartbeatFails
  BY <1>6, RenewedRow DEF LeftLeaseLapses, HeartbeatFails, LeaseLapses, RowsOK
<1>7. CASE \E w \in Workers : IterationOverruns(w) \/ Crash(w)
  BY <1>7 DEF IterationOverruns, Crash, rowVars
<1> QED BY <1>3, <1>4, <1>5, <1>6, <1>7 DEF Next

(***************************************************************************)
(* _migrate_terminal_locked decides on the row as it is: a worker that was *)
(* taken over completes nothing under the lease of another.                *)
(***************************************************************************)
THEOREM CompletionIsByHolder == Spec => CompletedByHolder
<1>1. ASSUME LifecycleTypeOK, [Next]_vars
      PROVE  [\A w \in Workers :
                pc[w] = "completing" /\ run.status # "completed" /\ run'.status = "completed"
                  => (~HeldByOther(w) \/ pc'[w] = "completing")]_vars
  <2>0. CASE UNCHANGED vars BY <2>0
  <2>1. SUFFICES ASSUME Next, NEW w \in Workers, pc[w] = "completing",
                        run.status # "completed", run'.status = "completed", HeldByOther(w)
                 PROVE  pc'[w] = "completing"
    BY <1>1, <2>0
  <2>2. PICK v \in Workers : SettleCompleted(v)
    BY <1>1, <2>1, TypeParts, OnlyTheLoopCompletes
  <2>3. MayEnd(run, v)
    BY <2>1, <2>2 DEF SettleCompleted, Settle, rowVars
  <2>4. v # w BY <2>1, <2>3 DEF MayEnd, Owns, Unheld, HeldByOther
  <2> QED BY <1>1, <2>1, <2>2, <2>4 DEF SettleCompleted, Leave, LifecycleTypeOK, Sessions
<1> QED BY <1>1, LifecycleTypeCorrect, PTL DEF Spec, CompletedByHolder

-----------------------------------------------------------------------------
(***************************************************************************)
(* Open attempts.  A claim of a queued run opens an attempt on the word of *)
(* a copy, so the proof needs that nobody else has got beyond looking: one *)
(* executor, and a run that is still as it was created, unless it has been *)
(* cancelled meanwhile.                                                    *)
(***************************************************************************)
OneExecutor == \A v, w \in Executors : v = w

LooksAtQueued(w) == pc[w] = "looked" /\ seen[w].status = "queued"

OnlyExecutorsLook == \A w \in Workers : LooksAtQueued(w) => w \in Executors

Untouched(s) == seen[s].status = "queued" /\ pc[s] \in {"idle", "looked", "cancel", "done"}

QueuedIsUntouched ==
  run.status = "queued" \/ (\E w \in Workers : LooksAtQueued(w))
    => /\ run.status \in {"queued", "cancelled"}
       /\ \A s \in Sessions : Untouched(s)

AttemptInv ==
  LifecycleTypeOK /\ SlotMatchesRun /\ OnlyExecutorsLook /\ QueuedIsUntouched /\ AttemptMatchesStatus

Fresh == run.status = "queued" \/ \E w \in Workers : LooksAtQueued(w)

LookInv == OnlyExecutorsLook /\ QueuedIsUntouched

\* A session that moves, and does not look, adds nobody who looks.
LEMMA MoveKeepsLooks ==
  ASSUME CopiesOK, LookInv, NEW s \in Sessions, NEW step \in Steps, step # "looked",
         Leave(s, step) \/ \E copy \in Row : Go(s, step, copy)
  PROVE  /\ OnlyExecutorsLook'
         /\ \A w \in Workers : LooksAtQueued(w)' => LooksAtQueued(w) /\ w # s
         /\ \A v \in Sessions : v # s => (Untouched(v)' <=> Untouched(v))
  BY DEF CopiesOK, LookInv, OnlyExecutorsLook, LooksAtQueued, Untouched, Leave, Go, Sessions

LEMMA FreshIsUntouched ==
  ASSUME LookInv, Fresh
  PROVE  run.status \in {"queued", "cancelled"} /\ \A s \in Sessions : Untouched(s)
  BY DEF LookInv, QueuedIsUntouched, Fresh

LEMMA LookStep ==
  ASSUME RowsOK, CopiesOK, LookInv, NEW w \in Workers, Look(w)
  PROVE  LookInv'
<1>1. /\ run' = run /\ w \in Sessions
      /\ pc' = [pc EXCEPT ![w] = "looked"] /\ seen' = [seen EXCEPT ![w] = run]
      /\ (run.status = "queued" /\ w \in Executors) \/ run.status = "running"
  BY DEF Look, Claimable, Go, rowVars, Sessions
<1>2. OnlyExecutorsLook'
  BY <1>1 DEF CopiesOK, LookInv, OnlyExecutorsLook, LooksAtQueued, Sessions
<1>3. CASE run.status = "queued"
  <2>1. \A s \in Sessions : Untouched(s) BY <1>3, FreshIsUntouched DEF Fresh
  <2>2. \A s \in Sessions : Untouched(s)'
    BY <1>1, <1>3, <2>1 DEF CopiesOK, Untouched
  <2> QED BY <1>1, <1>2, <1>3, <2>2 DEF LookInv, QueuedIsUntouched
<1>4. CASE run.status = "running"
  <2>1. ~Fresh BY <1>4, FreshIsUntouched
  <2>2. \A v \in Workers : ~LooksAtQueued(v)'
    BY <1>1, <1>4, <2>1 DEF Fresh, CopiesOK, LooksAtQueued, Sessions
  <2> QED BY <1>1, <1>2, <1>4, <2>2 DEF LookInv, QueuedIsUntouched
<1> QED BY <1>1, <1>3, <1>4

LEMMA ClaimQueuedStep ==
  ASSUME OneExecutor, RowsOK, CopiesOK, LookInv, NEW w \in Workers, ClaimQueued(w)
  PROVE  LookInv' /\ run.status # "running"
<1>1. LooksAtQueued(w) BY DEF ClaimQueued, LooksAtQueued
<1>2. run.status # "running" BY <1>1, FreshIsUntouched DEF Fresh
<1>3. Go(w, "top", [Leased(seen[w], w) EXCEPT !.status = "running"])
  BY DEF ClaimQueued, StartsWork
<1>4. [Leased(seen[w], w) EXCEPT !.status = "running"] \in Row
  BY LeasedRow, RunningRow DEF CopiesOK, Sessions
<1>5. /\ OnlyExecutorsLook'
      /\ \A v \in Workers : LooksAtQueued(v)' => LooksAtQueued(v) /\ v # w
  BY <1>3, <1>4, MoveKeepsLooks DEF Sessions, Steps, Working
<1>6. \A v \in Workers : ~LooksAtQueued(v)'
  BY <1>1, <1>5 DEF LookInv, OnlyExecutorsLook, OneExecutor
<1>7. run'.status = "running"
  BY LeasedRow, RunningRow DEF ClaimQueued, RowsOK
<1> QED BY <1>2, <1>5, <1>6, <1>7 DEF LookInv, QueuedIsUntouched

\* Any other move, when it does nothing to a run that is still untouched.
LEMMA OtherMove ==
  ASSUME RowsOK, CopiesOK, LookInv, NEW s \in Sessions, NEW step \in Steps, step # "looked",
         Leave(s, step) \/ \E copy \in Row : Go(s, step, copy),
         Effect,
         Fresh => run'.status \in {"queued", "cancelled"} /\ Untouched(s)'
  PROVE  LookInv'
<1>1. /\ OnlyExecutorsLook'
      /\ \A w \in Workers : LooksAtQueued(w)' => LooksAtQueued(w)
      /\ \A v \in Sessions : v # s => (Untouched(v)' <=> Untouched(v))
  BY MoveKeepsLooks
<1>2. run'.status = "queued" => run.status = "queued"
  BY DEF Effect, NoStart, Kept, Ends, EndsAgain, Waits, Starts, TerminalStatuses
<1>3. Fresh' => Fresh BY <1>1, <1>2 DEF Fresh
<1>4. Fresh' => /\ run'.status \in {"queued", "cancelled"}
                /\ \A v \in Sessions : Untouched(v)'
  BY <1>1, <1>3, FreshIsUntouched
<1> QED BY <1>1, <1>4 DEF LookInv, QueuedIsUntouched, Fresh

LEMMA WorkerLookStep ==
  ASSUME RowsOK, CopiesOK, LookInv, NEW w \in Workers,
         \/ ClaimResumed(w) \/ TakeOver(w) \/ Orphan(w) \/ Loop(w) \/ Crash(w)
  PROVE  LookInv'
<1> w \in Sessions BY DEF Sessions
<1>1. Effect BY ClaimEffect, LoopEffect, TimeEffect DEF Claim, Effect
<1>2. CASE Crash(w)
  <2>1. Leave(w, "idle") /\ UNCHANGED run BY <1>2 DEF Crash, rowVars
  <2>2. Untouched(w)' BY <2>1 DEF Leave, Untouched, CopiesOK, NewRow
  <2>3. Fresh => run'.status \in {"queued", "cancelled"} BY <2>1, FreshIsUntouched
  <2>4. "idle" \in Steps /\ "idle" # "looked" BY DEF Steps
  <2> QED BY <1>1, <2>1, <2>2, <2>3, <2>4, OtherMove
<1>3. CASE ClaimResumed(w) \/ TakeOver(w) \/ Orphan(w) \/ Loop(w)
  <2>1. PICK step \in Steps : Leave(w, step) \/ \E copy \in Row : Go(w, step, copy)
    BY <1>3, WorkerCopies DEF Claim
  <2>2. pc'[w] = step BY <2>1 DEF Leave, Go, CopiesOK
  <2>3. CASE LookForOrphan(w)
    <3>1. run.status = "running" /\ Go(w, "orphan", run) BY <2>3 DEF LookForOrphan
    <3>2. ~Fresh BY <3>1, FreshIsUntouched
    <3>3. "orphan" \in Steps /\ "orphan" # "looked" BY DEF Steps
    <3> QED BY <1>1, <3>1, <3>2, <3>3, OtherMove DEF RowsOK
  <2>4. CASE ClaimResumed(w) \/ TakeOver(w) \/ SettleOrphan(w) \/ Loop(w)
    <3>1. ~Untouched(w)
      <4>1. CASE ClaimResumed(w) \/ TakeOver(w)
        BY <4>1 DEF ClaimResumed, TakeOver, Untouched
      <4>2. CASE SettleOrphan(w) BY <4>2 DEF SettleOrphan, Untouched
      <4>3. CASE Loop(w)
        <5>1. pc[w] \in Working
          BY <4>3 DEF Loop, LoopEnds, LeaseLost, PauseAtLimit, Decide, CancelSeen, GateShut,
            DecisionFails, NothingDone, AskUser, Act, Complete, ActionReturns, PublishFails,
            LosesPublication, SettleCompleted, ExecutorFails, Renews, GateOpen, Working
        <5> QED BY <5>1 DEF Working, Untouched
      <4> QED BY <2>4, <4>1, <4>2, <4>3
    <3>2. ~Fresh BY <3>1, FreshIsUntouched
    <3>3. step # "looked"
      BY <2>2, <2>4 DEF ClaimResumed, TakeOver, StartsWork, SettleOrphan, Loop, LoopEnds, LeaseLost,
        PauseAtLimit, Decide, CancelSeen, GateShut, DecisionFails, NothingDone, AskUser, Act,
        Complete, ActionReturns, PublishFails, LosesPublication, SettleCompleted, ExecutorFails,
        FailRun, Leave, Go, CopiesOK
    <3> QED BY <1>1, <2>1, <3>2, <3>3, OtherMove
  <2> QED BY <1>3, <2>3, <2>4 DEF Orphan
<1> QED BY <1>2, <1>3

LEMMA UserLookStep ==
  ASSUME RowsOK, CopiesOK, LookInv, NEW r \in Requests, User(r)
  PROVE  LookInv'
<1> r \in Sessions /\ {"cancel", "resume", "done"} \subseteq Steps BY DEF Sessions, Steps
<1>0. Effect BY UserEffect
<1>1. ASSUME NEW what \in {"cancel", "resume"}, Ask(r, what) PROVE LookInv'
  <2>1. Go(r, what, run) /\ UNCHANGED run BY <1>1 DEF Ask, rowVars
  <2>2. Fresh => Untouched(r)'
    <3>1. ASSUME Fresh PROVE what = "cancel" /\ run.status = "queued"
      BY <1>1, <3>1, FreshIsUntouched DEF Ask, TerminalStatuses
    <3> QED BY <2>1, <3>1 DEF Go, Untouched, CopiesOK
  <2> QED BY <1>0, <2>1, <2>2, FreshIsUntouched, OtherMove DEF RowsOK
<1>2. CASE CancelNow(r) \/ RequestCancel(r) \/ Resume(r)
  <2>1. Leave(r, "done") BY <1>2 DEF CancelNow, RequestCancel, Resume
  <2>2. Untouched(r)' BY <2>1 DEF Leave, Untouched, CopiesOK, NewRow
  <2>3. ASSUME Fresh PROVE run'.status \in {"queued", "cancelled"}
    <3>1. Untouched(r) /\ run.status \in {"queued", "cancelled"} BY <2>3, FreshIsUntouched
    <3>2. Settle("cancelled", run.status \notin TerminalStatuses)
      BY <1>2, <3>1 DEF CancelNow, RequestCancel, Resume, Untouched
    <3> QED BY <3>1, <3>2, LeftRow DEF Settle, rowVars, RowsOK, Statuses, TerminalStatuses
  <2> QED BY <1>0, <2>1, <2>2, <2>3, OtherMove
<1> QED BY <1>1, <1>2 DEF User

LEMMA TimeLookStep ==
  ASSUME RowsOK, CopiesOK, LookInv,
         \/ LeftLeaseLapses \/ HeartbeatFails \/ \E w \in Workers : IterationOverruns(w)
  PROVE  LookInv'
<1>1. pc' = pc /\ \A s \in Sessions : seen'[s].status = seen[s].status
  BY TimeCopies
<1>2. run'.status = run.status
  BY RenewedRow DEF LeftLeaseLapses, HeartbeatFails, LeaseLapses, IterationOverruns, rowVars, RowsOK
<1> QED BY <1>1, <1>2
        DEF LookInv, OnlyExecutorsLook, QueuedIsUntouched, LooksAtQueued, Untouched, Sessions

(***************************************************************************)
(* The attempts: what opens one finds none open.                           *)
(***************************************************************************)
LEMMA OpensOne ==
  ASSUME OneExecutor, AttemptInv, [Next]_vars
  PROVE  AttemptMatchesStatus'
<1>0. RowsOK /\ CopiesOK /\ LookInv /\ AttemptMatchesStatus /\ SlotMatchesRun
  BY TypeParts DEF AttemptInv, LookInv
<1>1. open \in {0, 1} BY <1>0 DEF AttemptMatchesStatus
<1>2. CASE NoStart
  <2>1. CASE Kept BY <1>0, <2>1 DEF Kept, AttemptMatchesStatus
  <2>2. CASE Ends \/ EndsAgain \/ Waits
    <3>1. open' = 0
      BY <1>0, <1>1, <2>2, AttemptEnds DEF RowsOK, Ends, EndsAgain, Waits
    <3>2. run'.status # "running"
      BY <2>2 DEF Ends, EndsAgain, Waits, TerminalStatuses
    <3> QED BY <3>1, <3>2 DEF AttemptMatchesStatus
  <2> QED BY <1>2, <2>1, <2>2 DEF NoStart
<1>3. ASSUME run.status # "running", open' = open + 1, run'.status = "running"
      PROVE  AttemptMatchesStatus'
  BY <1>0, <1>3 DEF AttemptMatchesStatus
<1>4. ASSUME NEW w \in Workers, Claim(w) \/ Orphan(w) PROVE AttemptMatchesStatus'
  <2>1. CASE ClaimQueued(w)
    <3>1. run'.status = "running" BY <1>0, <2>1, LeasedRow, RunningRow DEF ClaimQueued, RowsOK
    <3> QED BY <1>0, <1>3, <2>1, <3>1, ClaimQueuedStep DEF ClaimQueued
  <2>2. CASE TakeOver(w)
    <3>1. run'.status = "running" BY <1>0, <2>2, LeasedRow, RunningRow DEF TakeOver, RowsOK
    <3> QED BY <1>1, <2>2, <3>1 DEF TakeOver, Reopened, AttemptMatchesStatus
  <2>3. CASE ClaimResumed(w)
    BY <1>0, <2>3, LeasedRow DEF ClaimResumed, RowsOK, AttemptMatchesStatus
  <2>4. CASE Look(w) \/ LookForOrphan(w)
    BY <1>0, <2>4 DEF Look, LookForOrphan, rowVars, AttemptMatchesStatus
  <2>5. CASE SettleOrphan(w)
    <3>1. Settle("cancelled", run.status \notin TerminalStatuses) BY <2>5 DEF SettleOrphan
    <3> QED BY <1>0, <1>2, <3>1, SettleEffect DEF NoStart, TerminalStatuses
  <2> QED BY <1>4, <2>1, <2>2, <2>3, <2>4, <2>5 DEF Claim, Orphan
<1>5. ASSUME NEW r \in Requests, User(r) PROVE AttemptMatchesStatus'
  <2>1. CASE Resume(r)
    <3>1. CASE ToResume(r).status = "paused" /\ ~ToResume(r).cancel_requested
      <4>1. /\ run' = [run EXCEPT !.status = "running"] /\ open' = open + 1
        BY <2>1, <3>1 DEF Resume
      <4>2. run.status # "running"
        BY <1>0, <3>1 DEF ToResume, SlotMatchesRun
      <4> QED BY <1>0, <1>3, <4>1, <4>2, RunningRow DEF RowsOK
    <3>2. CASE ~(ToResume(r).status = "paused" /\ ~ToResume(r).cancel_requested)
      BY <1>0, <2>1, <3>2 DEF Resume, AttemptMatchesStatus
    <3> QED BY <3>1, <3>2
  <2>2. CASE CancelNow(r)
    <3>1. Settle("cancelled", run.status \notin TerminalStatuses) BY <2>2 DEF CancelNow
    <3> QED BY <1>0, <1>2, <3>1, SettleEffect DEF NoStart, TerminalStatuses
  <2>3. CASE RequestCancel(r) \/ \E what \in {"cancel", "resume"} : Ask(r, what)
    BY <1>0, <2>3, CancelledRow DEF RequestCancel, Ask, rowVars, RowsOK, AttemptMatchesStatus
  <2> QED BY <1>5, <2>1, <2>2, <2>3 DEF User
<1>6. CASE \/ LeftLeaseLapses \/ HeartbeatFails
           \/ \E w \in Workers : Loop(w) \/ IterationOverruns(w) \/ Crash(w)
  BY <1>0, <1>2, <1>6, LoopEffect, TimeEffect
<1>7. CASE UNCHANGED vars BY <1>0, <1>7 DEF vars, AttemptMatchesStatus
<1> QED BY <1>4, <1>5, <1>6, <1>7 DEF Next

(***************************************************************************)
(* A running run has one open attempt, any other none, with one executor   *)
(* and any number of recovery loops and requests.                          *)
(***************************************************************************)
THEOREM OneOpenAttempt ==
  ASSUME OneExecutor
  PROVE  Spec => []AttemptMatchesStatus
<1>1. Init => OnlyExecutorsLook /\ QueuedIsUntouched /\ AttemptMatchesStatus
  BY DEF Init, NewRow, OnlyExecutorsLook, QueuedIsUntouched, LooksAtQueued, Untouched,
         AttemptMatchesStatus, Sessions
<1> DEFINE J == OnlyExecutorsLook /\ QueuedIsUntouched /\ AttemptMatchesStatus
<1>2. ASSUME LifecycleTypeOK, SlotMatchesRun, J, [Next]_vars PROVE J'
  <2>1. RowsOK /\ CopiesOK /\ LookInv BY <1>2, TypeParts DEF LookInv
  <2>2. AttemptMatchesStatus' BY <1>2, OpensOne DEF AttemptInv
  <2>3. LookInv'
    <3>1. CASE UNCHANGED vars
      BY <2>1, <3>1
         DEF vars, LookInv, OnlyExecutorsLook, QueuedIsUntouched, LooksAtQueued, Untouched
    <3>2. CASE Next
      BY <2>1, <3>2, LookStep, ClaimQueuedStep, WorkerLookStep, UserLookStep, TimeLookStep
         DEF Next, Claim
    <3> QED BY <1>2, <3>1, <3>2
  <2> QED BY <2>2, <2>3 DEF LookInv
<1>3. J => AttemptMatchesStatus OBVIOUS
<1> QED BY <1>1, <1>2, <1>3, LifecycleTypeCorrect, SlotFollowsRun, PTL DEF Spec

(***************************************************************************)
(* However cancellation, failure, completion and take-over race, a run     *)
(* that has ended has its terminal event, and never a second one.          *)
(***************************************************************************)
THEOREM EventWithTheEnd == Spec => []EndsWithOneEvent
  BY EndedRunsHaveEvent, EndsOnce, PTL DEF EndsWithOneEvent

(***************************************************************************)
(* With one executor, the attempt rows and the slot of the session say the *)
(* same of the run as its status.                                          *)
(***************************************************************************)
THEOREM RowsSayTheSame ==
  ASSUME OneExecutor
  PROVE  Spec => []RowsMatchStatus
  BY OneOpenAttempt, SlotFollowsRun, PTL DEF RowsMatchStatus
=============================================================================
