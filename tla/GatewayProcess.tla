--------------------------- MODULE GatewayProcess ---------------------------
(***************************************************************************)
(* The Gateway's own process (pi-gateway/src/gateway.ts, worker-pool.ts,   *)
(* main.ts, and the child processes of worker-entry.ts): it claims runs,   *)
(* gives each a place and a child, renews the lease by heartbeats, hands   *)
(* on the child's events, and reports the outcome.  The lease is an        *)
(* absolute time both sides read, so the model has a clock that counts     *)
(* down every deadline; the rows of the backend are as far here as the     *)
(* Gateway's requests reach them (PiRuns has the rest).                    *)
(***************************************************************************)
EXTENDS Integers, FiniteSets

CONSTANTS
  Runs,
  Capacity,
  MaxClaims,          \* bound: claims in all
  Lease,              \* lease_seconds
  AbortGrace,         \* abortGraceMs, a part of the lease
  HeartbeatInterval,
  ControlTimeout,     \* of one request
  InitTime            \* what it takes to open the secrets and to fork

\* A claim that arrives at the last moment still leaves its worker the grace.
ASSUME GatewayAssumption ==
  /\ Capacity \in Nat \ {0} /\ MaxClaims \in Nat
  /\ {Lease, AbortGrace, HeartbeatInterval, ControlTimeout, InitTime} \subseteq Nat \ {0}
  /\ ControlTimeout + InitTime + AbortGrace <= Lease

Least(m, n) == IF m <= n THEN m ELSE n
Greatest(m, n) == IF m <= n THEN n ELSE m

\* scheduleNextBeat, with k left of the lease.
NextBeat(k) == Least(HeartbeatInterval, Greatest(1, k \div 3))

(***************************************************************************)
(* main.ts, line 308: a heartbeat, its timeout, the next one and the grace *)
(* fit in the lease.  Unless they do, a heartbeat that fails shortly       *)
(* before the grace begins is followed by one that finds less than the     *)
(* grace left.  The defaults (a lease of 60 seconds, 20 to the next        *)
(* heartbeat, 15 for a request, a grace of 5) fit; config.ts takes other   *)
(* values without asking.                                                  *)
(***************************************************************************)
InTime(k) == k - NextBeat(k) >= AbortGrace

BeatsFit ==
  \A k \in (Lease - ControlTimeout)..Lease :
    /\ InTime(k)
    /\ \A late \in 0..ControlTimeout :
         LET rest == k - NextBeat(k) - late IN rest > AbortGrace => InTime(rest)

ASSUME FenceAssumption == BeatsFit

VARIABLES
  gwRun,      \* the backend's rows
  claim,    \* the claim request: dispatchNext awaits one at a time
  claims,   \* how many were made: their numbers are the attempts
  task,     \* what the pool runs for each attempt
  child,    \* its child process
  active,   \* the pool's count
  stopped

gwVars == <<gwRun, claim, claims, task, child, active, stopped>>

Attempts == 1..MaxClaims
NoClaim == [state |-> "none", of |-> 0, wait |-> 0]
NoChild == [state |-> "none", exit |-> "none", kill |-> 0, unsent |-> FALSE, dropped |-> FALSE]

Task(r, pc, k, due) ==
  [run |-> r, pc |-> pc, wait |-> InitTime, deadline |-> k,
   heart |-> "live", fails |-> 0, beat |-> "timer", due |-> due, grant |-> 0,
   pump |-> "open", plan |-> "none", word |-> "none", again |-> FALSE]

NoTask(r, pc) == [Task(r, pc, 0, 0) EXCEPT !.beat = "off", !.wait = 0]

GwInit ==
  /\ gwRun = [r \in Runs |-> [status |-> "queued", holder |-> 0, left |-> 0,
                            cancel |-> FALSE, retried |-> FALSE]]
  /\ claim = NoClaim /\ claims = 0
  /\ \E r \in Runs : task = [a \in Attempts |-> NoTask(r, "absent")]
  /\ child = [a \in Attempts |-> NoChild]
  /\ active = 0 /\ stopped = FALSE

RunOf(a) == gwRun[task[a].run]
Placed(a) == task[a].pc \in {"init", "work", "drain", "report"}
Gone(a) == child[a].state = "gone"

\* What heartbeat, events and terminal ask of the row.
HoldsLease(a) == RunOf(a).status = "running" /\ RunOf(a).holder = a /\ RunOf(a).left > 0

-----------------------------------------------------------------------------
(***************************************************************************)
(* Time.  A timer that is due goes off before the clock moves on.          *)
(***************************************************************************)
TimersDue ==
  \/ claim.state # "none" /\ claim.wait = 0
  \/ \E a \in Attempts :
       \/ task[a].beat # "off" /\ task[a].due = 0
       \/ task[a].pc \in {"init", "report"} /\ task[a].wait = 0
       \/ child[a].state = "term" /\ child[a].kill = 0

Less(n) == IF n = 0 THEN 0 ELSE n - 1

Tick ==
  /\ ~ TimersDue
  /\ gwRun' = [r \in Runs |-> [gwRun[r] EXCEPT !.left = Less(@)]]
  /\ claim' = [claim EXCEPT !.wait = Less(@)]
  /\ task' = [a \in Attempts |-> IF ~ Placed(a) THEN task[a] ELSE
                [task[a] EXCEPT !.wait = Less(@), !.deadline = Less(@), !.due = Less(@),
                                !.grant = Less(@)]]
  /\ child' = [a \in Attempts |-> [child[a] EXCEPT !.kill = Less(@)]]
  /\ UNCHANGED <<claims, active, stopped>>

-----------------------------------------------------------------------------
(***************************************************************************)
(* Claims.                                                                 *)
(***************************************************************************)
AsksForRun ==   \* dispatchNext; a request that would find nothing is left out
  /\ ~ stopped /\ active < Capacity
  /\ \E r \in Runs : gwRun[r].status = "queued"
  /\ claim.state = "none" /\ claims < MaxClaims
  /\ claim' = [state |-> "sent", of |-> 0, wait |-> ControlTimeout]
  /\ UNCHANGED <<gwRun, claims, task, child, active, stopped>>

RunIsClaimed(r) ==
  /\ claim.state = "sent" /\ gwRun[r].status = "queued"
  /\ claims' = claims + 1
  /\ claim' = [claim EXCEPT !.state = "answer", !.of = claims + 1]
  /\ gwRun' = [gwRun EXCEPT ![r].status = "running", ![r].holder = claims + 1, ![r].left = Lease]
  /\ UNCHANGED <<task, child, active, stopped>>

NothingClaimed ==   \* a network error, or the answer is lost
  /\ claim.state # "none"
  /\ claim' = NoClaim
  /\ UNCHANGED <<gwRun, claims, task, child, active, stopped>>

\* A pool that drains takes no more, and leaves the run to recovery.
ClaimArrives ==
  /\ claim.state = "answer"
  /\ claim' = NoClaim
  /\ IF stopped THEN UNCHANGED <<task, active>> ELSE
       /\ \E r \in Runs :
            /\ gwRun[r].holder = claim.of
            /\ task' = [task EXCEPT ![claim.of] = Task(r, "init", gwRun[r].left, NextBeat(gwRun[r].left))]
       /\ active' = active + 1
  /\ UNCHANGED <<gwRun, claims, child, stopped>>

-----------------------------------------------------------------------------
(***************************************************************************)
(* The child.  abort sends SIGTERM once, SIGKILL after the grace, and ends *)
(* when the process is gone.  Before the worker is there it does nothing.  *)
(***************************************************************************)
Aborted(c) ==
  IF c.state = "alive" THEN [c EXCEPT !.state = "term", !.kill = AbortGrace] ELSE c

Running == [NoChild EXCEPT !.state = "alive"]

\* The worker is there, perhaps too late, or cannot be built from the claim.
WorkerStarts(a) ==
  /\ task[a].pc = "init"
  /\ \E c \in {Running, [NoChild EXCEPT !.state = "gone", !.exit = "failed"]} :
       child' = [child EXCEPT ![a] =
                   IF stopped \/ task[a].heart # "live" THEN Aborted(c) ELSE c]
  /\ task' = [task EXCEPT ![a].pc = "work", ![a].wait = 0]
  /\ UNCHANGED <<gwRun, claim, claims, active, stopped>>

\* Its code and its last frame say whether it was done, has failed, or crashed;
\* a child that is asked to go may still find the time to be done.
ChildExits(a) ==
  /\ child[a].state \in {"alive", "term"}
  /\ \E e \in {"done", "failed", "crash"} :
       child' = [child EXCEPT ![a].state = "gone", ![a].exit = e, ![a].kill = 0]
  /\ UNCHANGED <<gwRun, claim, claims, task, active, stopped>>

ChildIsKilled(a) ==
  /\ child[a].state = "term" /\ child[a].kill = 0
  /\ child' = [child EXCEPT ![a].state = "gone", ![a].exit = "crash"]
  /\ UNCHANGED <<gwRun, claim, claims, task, active, stopped>>

\* An event goes to the pump, which drops it once it is stopped or broken.
ChildSends(a) ==
  /\ child[a].state \in {"alive", "term"}
  /\ child' = [child EXCEPT ![a] =
                 IF task[a].pump = "open" THEN [@ EXCEPT !.unsent = TRUE]
                 ELSE [@ EXCEPT !.dropped = TRUE]]
  /\ UNCHANGED <<gwRun, claim, claims, task, active, stopped>>

PumpDelivers(a) ==   \* a batch under way is delivered even if the pump is stopped
  /\ Placed(a) /\ child[a].unsent /\ task[a].pump # "broken" /\ HoldsLease(a)
  /\ child' = [child EXCEPT ![a].unsent = FALSE]
  /\ UNCHANGED <<gwRun, claim, claims, task, active, stopped>>

PumpBreaks(a) ==   \* refused, out of retries, or its buffer is full
  /\ Placed(a) /\ child[a].unsent /\ task[a].pump = "open"
  /\ task' = [task EXCEPT ![a].pump = "broken"]
  /\ child' = [child EXCEPT ![a] = Aborted(@)]
  /\ UNCHANGED <<gwRun, claim, claims, active, stopped>>

-----------------------------------------------------------------------------
(***************************************************************************)
(* Heartbeats: one at a time, each scheduled when the last has ended.      *)
(***************************************************************************)
NoBeat(t) == [t EXCEPT !.beat = "off", !.due = 0, !.grant = 0]
Stopped(t) == [t EXCEPT !.pump = IF @ = "open" THEN "stopped" ELSE @]

MarkLost(a, t) ==
  /\ task' = [task EXCEPT ![a] = [NoBeat(Stopped(t)) EXCEPT !.heart = "lost"]]
  /\ child' = [child EXCEPT ![a] = Aborted(@)]

Scheduled(t) == [t EXCEPT !.beat = "timer", !.due = NextBeat(t.deadline), !.grant = 0]

BeatDue(a) ==
  /\ task[a].beat = "timer" /\ task[a].due = 0
  /\ LET t == task[a] IN
     IF t.deadline <= AbortGrace THEN MarkLost(a, t) ELSE
       /\ task' = [task EXCEPT ![a].beat = "sent",
                     ![a].due = Least(ControlTimeout, t.deadline - AbortGrace)]
       /\ UNCHANGED child
  /\ UNCHANGED <<gwRun, claim, claims, active, stopped>>

LeaseIsRenewed(a) ==   \* scheduler.heartbeat
  /\ task[a].beat = "sent"
  /\ IF ~ HoldsLease(a)
       THEN task' = [task EXCEPT ![a].beat = "refused"] /\ UNCHANGED gwRun
       ELSE /\ task' = [task EXCEPT ![a].beat = IF RunOf(a).cancel THEN "cancel" ELSE "ok",
                                    ![a].grant = Lease]
            /\ gwRun' = [gwRun EXCEPT ![task[a].run].left = Lease]
  /\ UNCHANGED <<claim, claims, child, active, stopped>>

BeatAnswered(a) ==
  LET t == [task[a] EXCEPT !.fails = 0, !.deadline = task[a].grant] IN
  /\ \/ /\ task[a].beat = "ok"
        /\ task' = [task EXCEPT ![a] = Scheduled(t)]
        /\ UNCHANGED child
     \/ /\ task[a].beat = "cancel"
        /\ task' = [task EXCEPT ![a] = [NoBeat(t) EXCEPT !.heart = "cancelled"]]
        /\ child' = [child EXCEPT ![a] = Aborted(@)]
  /\ UNCHANGED <<gwRun, claim, claims, active, stopped>>

GivesUpMut(t) == t.fails >= 2
GivesUp(t) == t.fails >= 2 \/ t.deadline <= AbortGrace

\* Refused, cut off by its timeout, or lost on the way out or back.
BeatFails(a) ==
  /\ task[a].beat \in {"sent", "ok", "cancel", "refused"}
  /\ LET t == [task[a] EXCEPT !.fails = @ + 1] IN
     IF GivesUp(t) THEN MarkLost(a, t)
     ELSE task' = [task EXCEPT ![a] = Scheduled(t)] /\ UNCHANGED child
  /\ UNCHANGED <<gwRun, claim, claims, active, stopped>>

-----------------------------------------------------------------------------
(***************************************************************************)
(* What the task does once its child is gone.                              *)
(***************************************************************************)
TakesLeave(a) ==   \* the finally block, and the pool's; what it knew is gone with it
  /\ task' = [task EXCEPT ![a] = NoTask(@.run, "over")]
  /\ child' = [child EXCEPT ![a] = [NoChild EXCEPT !.state = "gone"]]
  /\ active' = active - 1

Plan(a) ==
  CASE task[a].heart = "cancelled" -> "cancelled"
    [] task[a].heart # "cancelled" /\ child[a].exit = "done" -> "completed"
    [] OTHER -> "failed"

HandsOver(a) ==   \* a failure of the infrastructure, which recovery deals with
  \/ stopped \/ task[a].pump = "broken" \/ task[a].heart = "lost"
  \/ task[a].heart = "live" /\ child[a].exit = "crash"

ChildIsDone(a) ==
  /\ task[a].pc = "work" /\ Gone(a)
  /\ IF HandsOver(a) THEN TakesLeave(a) ELSE
       /\ task' = [task EXCEPT ![a].pc = "drain", ![a].plan = Plan(a)]
       /\ UNCHANGED <<child, active>>
  /\ UNCHANGED <<gwRun, claim, claims, stopped>>

Reports(a, outcome) ==   \* terminalize: from here on no heartbeat counts
  /\ task' = [task EXCEPT ![a] = [NoBeat(@) EXCEPT !.pc = "report", !.plan = outcome,
                                             !.word = "sent", !.wait = ControlTimeout]]
  /\ UNCHANGED <<child, active>>

DrainFailsMut(a) == task[a].pump = "broken"
DrainFails(a) == task[a].pump = "broken" \/ (task[a].pump = "stopped" /\ child[a].unsent)

Drained(a) ==
  /\ task[a].pc = "drain"
  /\ \/ DrainFails(a) /\ TakesLeave(a)
     \/ /\ ~ DrainFails(a) /\ ~ child[a].unsent
        /\ LET t == task[a] IN
           IF t.plan # "completed" THEN Reports(a, t.plan)
           ELSE CASE t.heart = "lost" -> TakesLeave(a)
                  [] t.heart = "cancelled" -> Reports(a, "cancelled")
                  [] OTHER -> Reports(a, "completed")
  /\ UNCHANGED <<gwRun, claim, claims, stopped>>

\* POST /terminal: a cancellation overrides, the validator may refuse completion.
OutcomeIsTaken(a) ==
  LET r == task[a].run  outcome == IF gwRun[r].cancel THEN "cancelled" ELSE task[a].plan IN
  /\ task[a].pc = "report" /\ task[a].word = "sent"
  /\ \/ /\ ~ HoldsLease(a)
        /\ task' = [task EXCEPT ![a].word = "refused"] /\ UNCHANGED gwRun
     \/ /\ HoldsLease(a) /\ outcome = "completed"
        /\ task' = [task EXCEPT ![a].word = "refused"] /\ UNCHANGED gwRun
     \/ /\ HoldsLease(a)
        /\ task' = [task EXCEPT ![a].word = "taken"]
        /\ gwRun' = [gwRun EXCEPT ![r].status = outcome, ![r].left = 0]
  /\ UNCHANGED <<claim, claims, child, active, stopped>>

\* A refused completion is reported once more, as a failure.  A cancellation that
\* was refused, or met no answer, is repeated once if the child had ended well, or
\* was there too late (its exit is not asked then, and any will do here).
TriesAgain(a) ==
  /\ ~ stopped
  /\ \/ task[a].plan = "completed" /\ task[a].word = "refused"
     \/ task[a].plan = "cancelled" /\ child[a].exit = "done" /\ ~ task[a].again

ReportEnds(a, repeat) ==
  /\ IF ~ repeat THEN TakesLeave(a) ELSE
       /\ task' = [task EXCEPT ![a].pc = "drain", ![a].again = TRUE,
                     ![a].plan = IF @ = "completed" THEN "failed" ELSE @]
       /\ UNCHANGED <<child, active>>
  /\ UNCHANGED <<gwRun, claim, claims, stopped>>

Reported(a) ==
  /\ task[a].pc = "report" /\ task[a].word \in {"refused", "taken"}
  /\ ReportEnds(a, task[a].word = "refused" /\ TriesAgain(a))

ReportIsLost(a) ==   \* a network error or the timeout; the word may have been taken
  /\ task[a].pc = "report"
  /\ ReportEnds(a, task[a].plan = "cancelled" /\ TriesAgain(a))

-----------------------------------------------------------------------------
(***************************************************************************)
(* SIGTERM: nothing more is claimed, what runs is aborted.                 *)
(***************************************************************************)
Stop ==
  /\ ~ stopped
  /\ stopped' = TRUE
  /\ task' = [a \in Attempts |-> IF Placed(a) THEN Stopped(task[a]) ELSE task[a]]
  /\ child' = [a \in Attempts |-> IF task[a].pc = "work" THEN Aborted(child[a]) ELSE child[a]]
  /\ UNCHANGED <<gwRun, claim, claims, active>>

-----------------------------------------------------------------------------
(***************************************************************************)
(* The backend by itself.                                                  *)
(***************************************************************************)
UserCancels(r) ==
  /\ gwRun[r].status = "running"
  /\ gwRun' = [gwRun EXCEPT ![r].cancel = TRUE]
  /\ UNCHANGED <<claim, claims, task, child, active, stopped>>

ChildAsks(a) ==   \* request_clarification; its lease counts no more
  /\ child[a].state = "alive" /\ HoldsLease(a) /\ ~ RunOf(a).cancel
  /\ gwRun' = [gwRun EXCEPT ![task[a].run].status = "clarification", ![task[a].run].left = 0]
  /\ UNCHANGED <<claim, claims, task, child, active, stopped>>

\* The recovery loop polls; what is due at the deadline itself has happened by then.
Recovers(r) ==
  /\ gwRun[r].status = "running" /\ gwRun[r].left = 0 /\ ~ TimersDue
  /\ \E s \in {"cancelled", "completed", "failed", "queued"} :
       /\ (s = "cancelled") = gwRun[r].cancel
       /\ s = "queued" => ~ gwRun[r].retried
       /\ gwRun' = [gwRun EXCEPT ![r].status = s, ![r].retried = @ \/ s = "queued"]
  /\ UNCHANGED <<claim, claims, task, child, active, stopped>>

-----------------------------------------------------------------------------
Timers(a) == BeatDue(a) \/ BeatAnswered(a) \/ BeatFails(a) \/ ChildIsKilled(a)
Continues(a) == WorkerStarts(a) \/ ChildIsDone(a) \/ Drained(a) \/ Reported(a) \/ ReportIsLost(a)
Pump(a) == PumpDelivers(a) \/ PumpBreaks(a)

GwNext ==
  \/ Tick \/ AsksForRun \/ NothingClaimed \/ ClaimArrives \/ Stop
  \/ \E r \in Runs : RunIsClaimed(r) \/ UserCancels(r) \/ Recovers(r)
  \/ \E a \in Attempts :
       \/ Timers(a) \/ Continues(a) \/ Pump(a)
       \/ ChildExits(a) \/ ChildSends(a) \/ ChildAsks(a)
       \/ LeaseIsRenewed(a) \/ OutcomeIsTaken(a)

GwSpec == GwInit /\ [][GwNext]_gwVars

\* Node serves its timers and callbacks; the clock goes on.  Neither the child's
\* end nor any answer of the backend is taken for granted.
GwFairness ==
  /\ WF_gwVars(Tick) /\ WF_gwVars(NothingClaimed \/ ClaimArrives)
  /\ \A a \in Attempts : WF_gwVars(Timers(a)) /\ WF_gwVars(Continues(a)) /\ WF_gwVars(Pump(a))

-----------------------------------------------------------------------------
GwTypeOK ==
  /\ \A r \in Runs :
       /\ gwRun[r].status \in {"queued", "running", "clarification", "completed", "failed", "cancelled"}
       /\ gwRun[r].holder \in 0..MaxClaims /\ gwRun[r].left \in 0..Lease
  /\ claims \in 0..MaxClaims /\ active \in 0..MaxClaims
  /\ \A a \in Attempts :
       /\ task[a].deadline \in 0..Lease /\ task[a].fails \in 0..2
       /\ child[a].state \in {"none", "alive", "term", "gone"} /\ child[a].kill \in 0..AbortGrace

(***************************************************************************)
(* The pool has a place for every task, gives it back once, and never has  *)
(* more tasks than places, though its count is read before the claim.      *)
(***************************************************************************)
PlacesAreCounted ==
  active = Cardinality({a \in Attempts : Placed(a)}) /\ active <= Capacity

(***************************************************************************)
(* Whatever becomes of heartbeats and answers, and whenever the worker is  *)
(* ready: no child of an attempt is there any more when its run has ended, *)
(* is queued again, or was given to another attempt.  (What ends the run   *)
(* while the child is there is its own question to the user.)              *)
(***************************************************************************)
WorkersAreFenced ==
  \A a \in Attempts : child[a].state \in {"alive", "term"} =>
    RunOf(a).holder = a /\ RunOf(a).status \in {"running", "clarification"}

(***************************************************************************)
(* An outcome is reported when the child is gone: a completion only if it  *)
(* ended well under a lease that was not lost and every event it sent was  *)
(* received, a cancellation only if the user asked for it.                 *)
(***************************************************************************)
ReportsAreEarned ==
  \A a \in Attempts : task[a].pc = "report" =>
    /\ Gone(a)
    /\ task[a].plan = "completed" =>
         /\ child[a].exit = "done" /\ task[a].heart = "live"
         /\ ~ child[a].unsent /\ ~ child[a].dropped
    /\ task[a].plan = "cancelled" => RunOf(a).cancel

GatewayIsSound == GwTypeOK /\ PlacesAreCounted /\ WorkersAreFenced /\ ReportsAreEarned

(***************************************************************************)
(* A task whose lease was lost, whose run was cancelled, whose child is    *)
(* gone, or whose Gateway stops, ends, and its place comes back.           *)
(***************************************************************************)
PlacesComeBack ==
  \A a \in Attempts :
    Placed(a) /\ (stopped \/ task[a].heart # "live" \/ Gone(a)) ~> ~ Placed(a)
=============================================================================
