---------------------------- MODULE RunLifecycle ----------------------------
(***************************************************************************)
(* The life of one run of the "current" runtime, from its creation to its  *)
(* terminal event: the executor and the recovery loop that claim it under  *)
(* a lease, the engine's decision loop, the heartbeat, the user's          *)
(* cancellations and resumptions, crashes and lapsed leases.               *)
(*                                                                         *)
(* Every actor works in a database session of its own, and a session does  *)
(* not see the row as it is: after the first read the ORM hands out the    *)
(* copy it already has (SessionFactory: expire_on_commit=False).  SELECT   *)
(* ... FOR UPDATE in lock_run locks the row but leaves the copy as it was; *)
(* only settle_terminal, a rollback and the query of the single column     *)
(* cancel_requested look at the row itself.  The model keeps both: run is  *)
(* the row, seen[s] is the copy of session s.  An assignment changes the   *)
(* copy and writes the columns that it changed.                            *)
(*                                                                         *)
(* One action is what lies between two commits under the lock of the row.  *)
(***************************************************************************)
EXTENDS Integers, FiniteSets

CONSTANTS
  Workers,       \* worker ids: executors and recovery loops
  Executors,     \* those that also claim queued runs
  Requests,      \* requests of the user (cancel or resume), each in its own session
  NoWorker,      \* a NULL lease_owner
  MaxDecisions,  \* ATTEMPT_MAX_DECISIONS, which also stands for ATTEMPT_MAX_SECONDS
  MaxFaults      \* bound on crashes, failing heartbeats and overlong iterations

ASSUME LifecycleAssumptions ==
  /\ Executors \subseteq Workers /\ Workers \cap Requests = {}
  /\ NoWorker \notin Workers
  /\ MaxDecisions \in Nat \ {0} /\ MaxFaults \in Nat

VARIABLES
  run,        \* the row in agent_runs
  open,       \* number of attempts without ended_at
  slot,       \* AgentSession.active_run_id is this run
  events,     \* number of terminal events of the run
  pc,         \* what each session is doing
  seen,       \* the copy of the row in each session
  decisions,  \* decision_count of the attempt each worker works on
  faults

rowVars  == <<run, open, slot, events>>
vars == <<run, open, slot, events, pc, seen, decisions, faults>>

Sessions == Workers \cup Requests

TerminalStatuses == {"completed", "failed", "cancelled"}
Statuses == TerminalStatuses \cup {"queued", "running", "clarification_requested", "paused"}

Row == [status : Statuses, cancel_requested : BOOLEAN,
        lease_owner : Workers \cup {NoWorker}, lease_expires : {"null", "live", "lapsed"}]

NewRow == [status |-> "queued", cancel_requested |-> FALSE,
           lease_owner |-> NoWorker, lease_expires |-> "null"]

Working == {"top", "deciding", "acting", "completing"}
Steps == Working \cup {"idle", "looked", "orphan", "cancel", "resume", "done"}

Init ==
  /\ run = NewRow
  /\ open = 0 /\ slot = TRUE /\ events = 0
  /\ pc = [s \in Sessions |-> "idle"]
  /\ seen = [s \in Sessions |-> NewRow]
  /\ decisions = [w \in Workers |-> 0]
  /\ faults = 0

-----------------------------------------------------------------------------
(***************************************************************************)
(* The repository.                                                         *)
(***************************************************************************)
Owns(row, w) == row.lease_owner = w /\ row.lease_expires = "live"   \* owns_active_lease

\* The lease check of claim_lease, force_fail and force_complete.
Unheld(row) == row.lease_owner = NoWorker \/ row.lease_expires = "lapsed"

Leased(row, w) == [row EXCEPT !.lease_owner = w, !.lease_expires = "live"]

Left(row, status) ==
  [row EXCEPT !.status = status, !.lease_owner = NoWorker, !.lease_expires = "null"]

\* The flush: a column is written if the session has changed its copy.
Column(now, old, new) == IF new = old THEN now ELSE new

Save(old, new) ==
  run' = [status |-> Column(run.status, old.status, new.status),
          cancel_requested |-> run.cancel_requested,
          lease_owner |-> Column(run.lease_owner, old.lease_owner, new.lease_owner),
          lease_expires |-> Column(run.lease_expires, old.lease_expires, new.lease_expires)]

EndOpenAttemptMut == open' = open - 1   \* takes it that there is one

EndOpenAttempt == open' = IF open > 0 THEN open - 1 ELSE 0   \* the latest one

ClearSessionSlotMut == slot' = slot   \* forgotten

ClearSessionSlot == slot' = FALSE

(***************************************************************************)
(* settle_terminal: lock the row, refresh the copy, do nothing if there is *)
(* a terminal event, else migrate if the caller may, and write the event   *)
(* in the same transaction.  The branch for a terminal run without event   *)
(* is left out: EndedHasEvent says that there is none.                     *)
(***************************************************************************)
UnsettledMut == TRUE   \* looks for the event before it has the lock

Unsettled == events = 0

TerminalEventMut == UNCHANGED events   \* leaves the event to a later transaction

TerminalEvent == events' = events + 1

Settle(status, may) ==
  IF Unsettled /\ may
    THEN run' = Left(run, status) /\ EndOpenAttempt /\ ClearSessionSlot /\ TerminalEvent
    ELSE UNCHANGED rowVars

\* The end of a unit of work: the session is closed and its copy is gone.
Leave(s, step) ==
  /\ pc' = [pc EXCEPT ![s] = step]
  /\ seen' = [seen EXCEPT ![s] = NewRow]

Go(s, step, copy) ==
  /\ pc' = [pc EXCEPT ![s] = step]
  /\ seen' = [seen EXCEPT ![s] = copy]

-----------------------------------------------------------------------------
(***************************************************************************)
(* Claiming.  Look is the scan and the first read of the row; the claim    *)
(* takes the lock and decides on what was read then.                       *)
(***************************************************************************)
Claimable(w) ==
  /\ ~run.cancel_requested
  /\ \/ run.status = "queued" /\ w \in Executors
     \/ run.status = "running" /\ run.lease_expires # "live"

Look(w) ==
  /\ pc[w] = "idle" /\ Claimable(w)
  /\ Go(w, "looked", run)
  /\ UNCHANGED <<rowVars, decisions, faults>>

StartsWork(w, row) ==
  /\ Go(w, "top", row)
  /\ decisions' = [decisions EXCEPT ![w] = 0]
  /\ UNCHANGED <<events, faults>>

\* begin_attempt, claim_lease, run.started
ClaimQueued(w) ==
  /\ pc[w] = "looked" /\ seen[w].status = "queued"
  /\ run' = [Leased(run, w) EXCEPT !.status = "running"]
  /\ open' = open + 1 /\ slot' = TRUE
  /\ StartsWork(w, [Leased(seen[w], w) EXCEPT !.status = "running"])

HadLease(w) == seen[w].lease_expires # "null"

\* After a resumption: claim_lease, and the open attempt is used.  It is read in
\* the snapshot of Look, where a running run has one: the branch that begins
\* one for want of it is never taken.
ClaimResumed(w) ==
  /\ pc[w] = "looked" /\ seen[w].status = "running" /\ Unheld(seen[w])
  /\ ~HadLease(w)
  /\ run' = Leased(run, w)
  /\ UNCHANGED <<open, slot>>
  /\ StartsWork(w, Leased(seen[w], w))

ReopenedMut == open' = open + 1   \* without the pause before it

Reopened == open' = IF open > 0 THEN open ELSE 1   \* one ended, one begun

\* claim_lease, pause, begin_attempt(resumed), claim_lease
TakeOver(w) ==
  /\ pc[w] = "looked" /\ seen[w].status = "running" /\ Unheld(seen[w])
  /\ HadLease(w)
  /\ run' = [Leased(run, w) EXCEPT !.status = "running"]
  /\ Reopened /\ slot' = TRUE
  /\ StartsWork(w, Leased(seen[w], w))

\* A run whose cancellation nobody is left to see.
LookForOrphan(w) ==
  /\ pc[w] = "idle"
  /\ run.cancel_requested /\ run.status = "running" /\ run.lease_expires # "live"
  /\ Go(w, "orphan", run)
  /\ UNCHANGED <<rowVars, decisions, faults>>

SettleOrphan(w) ==
  /\ pc[w] = "orphan"
  /\ Settle("cancelled", run.status \notin TerminalStatuses)
  /\ Leave(w, "idle")
  /\ UNCHANGED <<decisions, faults>>

-----------------------------------------------------------------------------
(***************************************************************************)
(* The engine.  _fail_run migrates by the copy and then lets               *)
(* settle_terminal add the event to what is now a terminal row.            *)
(***************************************************************************)
MayEndMut(row, w) == row.status = "running"   \* whoever holds the lease

MayEnd(row, w) == row.status = "running" /\ (Owns(row, w) \/ Unheld(row))

FailRun(w) ==
  /\ IF MayEnd(seen[w], w)
       THEN /\ Save(seen[w], Left(seen[w], "failed"))
            /\ EndOpenAttempt /\ ClearSessionSlot
            /\ IF Unsettled THEN TerminalEvent ELSE UNCHANGED events
       ELSE UNCHANGED rowVars
  /\ Leave(w, "idle")
  /\ UNCHANGED <<decisions, faults>>

\* The loop's condition, then _renew_lease.
Renews(w) == pc[w] = "top" /\ seen[w].status = "running" /\ Owns(seen[w], w)

LoopEnds(w) ==
  /\ pc[w] = "top" /\ seen[w].status # "running"
  /\ Leave(w, "idle")
  /\ UNCHANGED <<rowVars, decisions, faults>>

LeaseLost(w) ==   \* run_lease_lost
  /\ pc[w] = "top" /\ seen[w].status = "running" /\ ~Owns(seen[w], w)
  /\ FailRun(w)

AtLimitMut(w) == FALSE   \* no limit

AtLimit(w) == decisions[w] >= MaxDecisions

PauseAtLimit(w) ==
  /\ Renews(w) /\ AtLimit(w)
  /\ Save(seen[w], Left(seen[w], "paused"))
  /\ EndOpenAttempt /\ ClearSessionSlot
  /\ Leave(w, "idle")
  /\ UNCHANGED <<events, decisions, faults>>

Decide(w) ==   \* up to the commit before the model is called
  /\ Renews(w) /\ ~AtLimit(w) /\ ~run.cancel_requested
  /\ run' = [run EXCEPT !.lease_expires = "live"]
  /\ Go(w, "deciding", seen[w])
  /\ UNCHANGED <<open, slot, events, decisions, faults>>

Counted(w) ==   \* _count_decision
  decisions' = [decisions EXCEPT ![w] = IF @ < MaxDecisions THEN @ + 1 ELSE @]

(***************************************************************************)
(* _post_decision_gate reads the copy.  Its test of cancel_requested is    *)
(* left out: no copy with that flag gets past the top of the loop.         *)
(***************************************************************************)
GateOpen(w) == pc[w] = "deciding" /\ seen[w].status = "running" /\ Owns(seen[w], w)

GateShut(w) ==   \* lease_lost: stops quietly
  /\ pc[w] = "deciding" /\ ~GateOpen(w)
  /\ Leave(w, "idle") /\ Counted(w)
  /\ UNCHANGED <<rowVars, faults>>

\* Model error, too many invalid actions, a refused completion.
DecisionFails(w) ==
  /\ pc[w] = "deciding"
  /\ FailRun(w)

\* An invalid action, an invisible tool, drafts left at completion.
NothingDone(w) ==
  /\ pc[w] = "deciding"
  /\ Go(w, "top", seen[w]) /\ Counted(w)
  /\ UNCHANGED <<rowVars, faults>>

AskUser(w) ==
  /\ GateOpen(w)
  /\ Save(seen[w], Left(seen[w], "clarification_requested"))
  /\ EndOpenAttempt /\ ClearSessionSlot
  /\ Leave(w, "idle") /\ Counted(w)
  /\ UNCHANGED <<events, faults>>

Act(w) ==   \* call_tool past its look at cancel_requested, or publish_artifacts
  /\ GateOpen(w)
  /\ Go(w, "acting", seen[w]) /\ Counted(w)
  /\ UNCHANGED <<rowVars, faults>>

\* The row's column says so, at the top of the loop or before a tool is called.
CancelSeen(w) ==
  /\ run.cancel_requested
  /\ (Renews(w) /\ ~AtLimit(w)) \/ GateOpen(w)
  /\ Settle("cancelled", run.status \notin TerminalStatuses)
  /\ Leave(w, "idle")
  /\ UNCHANGED <<decisions, faults>>

ActionReturns(w) ==
  /\ pc[w] = "acting"
  /\ Go(w, "top", seen[w])
  /\ UNCHANGED <<rowVars, decisions, faults>>

PublishFails(w) ==   \* an unexpected error: rollback and refresh
  /\ pc[w] = "acting"
  /\ Go(w, "top", run)
  /\ UNCHANGED <<rowVars, decisions, faults>>

LosesPublication(w) ==   \* publish finds by the copy that the lease is gone
  /\ pc[w] = "acting" /\ ~Owns(seen[w], w)
  /\ Leave(w, "idle")
  /\ UNCHANGED <<rowVars, decisions, faults>>

Complete(w) ==   \* up to message.completed
  /\ GateOpen(w)
  /\ Go(w, "completing", seen[w]) /\ Counted(w)
  /\ UNCHANGED <<rowVars, faults>>

SettleCompleted(w) ==
  /\ pc[w] = "completing"
  /\ Settle("completed", MayEnd(run, w))
  /\ Leave(w, "idle")
  /\ UNCHANGED <<decisions, faults>>

\* An exception: the executor rolls back and settles FAILED.
ExecutorFails(w) ==
  /\ pc[w] \in Working
  /\ Settle("failed", MayEnd(run, w))
  /\ Leave(w, "idle")
  /\ UNCHANGED <<decisions, faults>>

-----------------------------------------------------------------------------
(***************************************************************************)
(* Time and faults.  The heartbeat renews the row through a session of its *)
(* own, not the copy of the engine.  Every renewal of a copy renews the    *)
(* row too, so no copy outlives the row.                                   *)
(***************************************************************************)
HeartbeatOn == run.lease_owner \in Workers /\ pc[run.lease_owner] \in Working

Lapse(row) == IF row.lease_expires = "live" THEN [row EXCEPT !.lease_expires = "lapsed"] ELSE row

LeaseLapses ==
  /\ run.lease_expires = "live"
  /\ run' = Lapse(run)
  /\ seen' = [s \in Sessions |-> Lapse(seen[s])]
  /\ UNCHANGED <<open, slot, events, pc, decisions>>

LeftLeaseLapses == ~HeartbeatOn /\ LeaseLapses /\ UNCHANGED faults

Fault == faults < MaxFaults /\ faults' = faults + 1

HeartbeatFails == HeartbeatOn /\ Fault /\ LeaseLapses

\* An iteration takes longer than lease_seconds.
IterationOverruns(w) ==
  /\ pc[w] \in {"deciding", "acting"} /\ seen[w].lease_expires = "live"
  /\ Fault
  /\ seen' = [seen EXCEPT ![w] = Lapse(@)]
  /\ UNCHANGED <<rowVars, pc, decisions>>

Crash(w) ==
  /\ pc[w] # "idle" /\ Fault
  /\ Leave(w, "idle")
  /\ UNCHANGED <<rowVars, decisions>>

-----------------------------------------------------------------------------
(***************************************************************************)
(* The user.  A request reads the row before it takes the lock.            *)
(***************************************************************************)
Ask(r, what) ==
  /\ pc[r] = "idle"
  /\ IF what = "resume" THEN run.status = "paused" ELSE run.status \notin TerminalStatuses
  /\ Go(r, what, run)
  /\ UNCHANGED <<rowVars, decisions, faults>>

CancelNow(r) ==
  /\ pc[r] = "cancel" /\ seen[r].status # "running"
  /\ Settle("cancelled", run.status \notin TerminalStatuses)
  /\ Leave(r, "done")
  /\ UNCHANGED <<decisions, faults>>

RequestCancel(r) ==
  /\ pc[r] = "cancel" /\ seen[r].status = "running"
  /\ run' = [run EXCEPT !.cancel_requested = TRUE]
  /\ Leave(r, "done")
  /\ UNCHANGED <<open, slot, events, decisions, faults>>

\* The check of the session slot refreshes the copy if the run holds the slot.
ToResume(r) == IF slot THEN run ELSE seen[r]

Resume(r) ==
  /\ pc[r] = "resume"
  /\ IF ToResume(r).status = "paused" /\ ~ToResume(r).cancel_requested
       THEN /\ run' = [run EXCEPT !.status = "running"]
            /\ open' = open + 1 /\ slot' = TRUE
       ELSE UNCHANGED <<run, open, slot>>
  /\ Leave(r, "done")
  /\ UNCHANGED <<events, decisions, faults>>

-----------------------------------------------------------------------------
Claim(w) == Look(w) \/ ClaimQueued(w) \/ ClaimResumed(w) \/ TakeOver(w)

Orphan(w) == LookForOrphan(w) \/ SettleOrphan(w)

Loop(w) ==
  \/ LoopEnds(w) \/ LeaseLost(w) \/ PauseAtLimit(w) \/ Decide(w) \/ CancelSeen(w)
  \/ GateShut(w) \/ DecisionFails(w) \/ NothingDone(w) \/ AskUser(w) \/ Act(w) \/ Complete(w)
  \/ ActionReturns(w) \/ PublishFails(w) \/ LosesPublication(w)
  \/ SettleCompleted(w) \/ ExecutorFails(w)

User(r) ==
  \/ \E what \in {"cancel", "resume"} : Ask(r, what)
  \/ CancelNow(r) \/ RequestCancel(r) \/ Resume(r)

Next ==
  \/ \E w \in Workers : Claim(w) \/ Orphan(w) \/ Loop(w) \/ IterationOverruns(w) \/ Crash(w)
  \/ \E r \in Requests : User(r)
  \/ LeftLeaseLapses \/ HeartbeatFails

Spec == Init /\ [][Next]_vars

LiveSpec ==
  /\ Spec
  /\ \A w \in Workers : WF_vars(Claim(w) \/ Orphan(w)) /\ WF_vars(Loop(w))
  /\ WF_vars(LeftLeaseLapses)

-----------------------------------------------------------------------------
LifecycleTypeOK ==
  /\ run \in Row
  /\ open \in Nat /\ slot \in BOOLEAN /\ events \in Nat
  /\ pc \in [Sessions -> Steps]
  /\ seen \in [Sessions -> Row]
  /\ decisions \in [Workers -> 0..MaxDecisions]
  /\ faults \in 0..MaxFaults

(***************************************************************************)
(* settle_terminal: "there is no window in which a run is terminal without *)
(* its terminal event", although _fail_run migrates by a copy that may be  *)
(* out of date, and the event is added by a second look at the row.        *)
(***************************************************************************)
EndedHasEvent == run.status \in TerminalStatuses => events > 0

(***************************************************************************)
(* However many workers, requests and recovery scans end the run, its      *)
(* stream carries one terminal event.                                      *)
(***************************************************************************)
OneTerminalEvent == events <= 1

(***************************************************************************)
(* A run that has ended has its terminal event, and no other has two.      *)
(***************************************************************************)
EndsWithOneEvent == EndedHasEvent /\ OneTerminalEvent

(***************************************************************************)
(* A running run has one open attempt, any other has none, although claims *)
(* and ends are decided on copies and several workers may follow one       *)
(* another, or overlap.                                                    *)
(***************************************************************************)
AttemptMatchesStatus == open = IF run.status = "running" THEN 1 ELSE 0

(***************************************************************************)
(* The session is taken by the run exactly while the run is queued or      *)
(* running: it is neither blocked by a run that was left nor free for a    *)
(* second one.                                                             *)
(***************************************************************************)
SlotMatchesRun == slot <=> run.status \in {"queued", "running"}

(***************************************************************************)
(* The attempts and the session agree with the status of the run.          *)
(***************************************************************************)
RowsMatchStatus == AttemptMatchesStatus /\ SlotMatchesRun

(***************************************************************************)
(* A worker that was taken over does not complete the run under the lease  *)
(* of another.                                                             *)
(***************************************************************************)
HeldByOther(w) == run.lease_owner \notin {NoWorker, w} /\ run.lease_expires = "live"

CompletedByHolder ==
  [][\A w \in Workers :
       pc[w] = "completing" /\ run.status # "completed" /\ run'.status = "completed"
         => (~HeldByOther(w) \/ pc'[w] = "completing")]_vars

(***************************************************************************)
(* The executor and the recovery loop leave no run behind: one that is     *)
(* queued or running comes to its end, or to where it waits for the user.  *)
(***************************************************************************)
RunIsLeft ==
  run.status \in {"queued", "running"} /\ events = 0
    ~> run.status \notin {"queued", "running"} \/ events > 0

(***************************************************************************)
(* heartbeat.py: an iteration longer than the lease does not make the run  *)
(* fail as run_lease_lost; a worker that finds its lease gone has lost it. *)
(***************************************************************************)
LeaseLostIsLost ==
  \A w \in Workers :
    pc[w] = "top" /\ seen[w].status = "running" /\ ~Owns(seen[w], w) => ~Owns(run, w)

(***************************************************************************)
(* A run with its terminal event is over: nobody starts another attempt of *)
(* it, and it does not go on running with nobody able to end it.           *)
(***************************************************************************)
EndedIsOver == events > 0 => run.status \in TerminalStatuses
=============================================================================
