------------------------------- MODULE PiRuns -------------------------------
(***************************************************************************)
(* The queue of "pi" runs: sessions hand in runs, the Gateways claim them  *)
(* fairly by tenant and within the limits of the License, workers report   *)
(* clarification or the terminal outcome, recovery takes the runs whose    *)
(* lease ran out, and the user cancels at any moment.                      *)
(*                                                                         *)
(* The rows are locked, but a claim reads its candidates and its counts by *)
(* plain SELECTs, in the REPEATABLE READ snapshot of its transaction       *)
(* (core/db_retry.py): Look takes the snapshot, Try locks one candidate.   *)
(***************************************************************************)
EXTENDS Integers, FiniteSets, SequencesExt

CONSTANTS
  Runs,        \* run ids, numbers: ids break ties of the queue
  Sessions, Users, Tenants,
  SessionUser, \* the user of a session
  UserTenant,  \* the tenant of a user
  Layouts,     \* session and profile of the runs, and (a bound of the model)
               \* which of them are cancelled or ask the user something
  Gateways,
  Capacity,    \* runs a Gateway takes at once (the smaller of asked and desired)
  TenantLimit, UserLimit,   \* max_concurrent_runs, max_user_concurrent_runs
  Suspendable, \* tenants whose license an admin may suspend
  Drainable,   \* Gateways whose mode an admin may change
  LastSecond   \* bound: queued_at is a DATETIME, of whole seconds

NoRun == 0
NoGateway == "no gateway"
RunKinds == [session : Sessions, kind : {"main", "detail", "none"}, calm : BOOLEAN]

ASSUME RunsAssumption ==
  /\ Runs \subseteq Nat \ {0} /\ IsFiniteSet(Runs)
  /\ Tenants \subseteq Nat /\ IsFiniteSet(Tenants) /\ NoGateway \notin Gateways
  /\ SessionUser \in [Sessions -> Users] /\ UserTenant \in [Users -> Tenants]
  /\ Layouts \subseteq [Runs -> RunKinds]
  /\ Capacity \in Nat /\ TenantLimit \in Nat /\ UserLimit \in Nat /\ LastSecond \in Nat \ {0}

VARIABLES
  layout,     \* the member of Layouts this behaviour is about
  run,        \* AgentRun rows (and the newest AgentRunAttempt)
  slot,       \* AgentSession.active_run_id
  activeRuns, \* PiTenantQueueState.active_runs
  served,     \* tenants by last_claimed_at, the latest last
  suspended,  \* tenants without an active license
  mode,       \* PiGatewayInstance.mode
  look,       \* the open claim transaction of each Gateway
  cancelling, \* an API cancellation between reading the run and locking it
  second      \* the clock, in seconds

queueVars == <<slot, activeRuns, served>>
settingVars == <<layout, suspended, mode, second>>
vars == <<layout, run, slot, activeRuns, served, suspended, mode, look, cancelling, second>>

Ended == {"completed", "failed", "cancelled"}
Active == {"queued", "running"}
Waiting == {"clarification", "paused"}   \* for the user
Statuses == Ended \cup Active \cup Waiting \cup {"absent"}

SessionOf(r) == layout[r].session
UserOf(r) == SessionUser[SessionOf(r)]
TenantOf(r) == UserTenant[UserOf(r)]
RunsOf(t) == {r \in Runs : TenantOf(r) = t}

NoClaim == [queue |-> <<>>, running |-> {}, open |-> FALSE]

NewRow == [status |-> "absent", queuedAt |-> 0, attempts |-> 0, open |-> 0,
           retries |-> 0, gateway |-> NoGateway, hash |-> 0, lease |-> "null",
           cancel |-> FALSE]

Init ==
  /\ layout \in Layouts
  /\ run = [r \in Runs |-> NewRow]
  /\ slot = [s \in Sessions |-> NoRun]
  /\ activeRuns = [t \in Tenants |-> 0]
  /\ served = <<>>
  /\ suspended = {}
  /\ mode = [g \in Gateways |-> "active"]
  /\ look = [g \in Gateways |-> NoClaim]
  /\ cancelling = [run |-> NoRun, seen |-> "absent"]
  /\ second = 1

FreeSlot(r) ==   \* _clear_session_slot: only while the slot is the run's own
  IF slot[SessionOf(r)] = r THEN [slot EXCEPT ![SessionOf(r)] = NoRun] ELSE slot

-----------------------------------------------------------------------------
(***************************************************************************)
(* The API.  A message (or a retry) queues a main run in a session whose   *)
(* slot is free and that has no other active main run.  A KOL detail is    *)
(* worked on in the API process at once, under a lease of its own; its     *)
(* begin_attempt takes the slot whoever has it.  The License's count of    *)
(* active runs is read in a snapshot older than the tenant lock, so that   *)
(* requests at the same moment all pass: it refuses nothing here.          *)
(***************************************************************************)
SessionIsFreeMut(r) == slot[SessionOf(r)] = NoRun   \* trusts the slot alone

SessionIsFree(r) ==
  /\ slot[SessionOf(r)] = NoRun
  /\ \A q \in Runs : SessionOf(q) = SessionOf(r) /\ layout[q].kind = "main"
       => run[q].status \notin Active

AppendMessage(r) ==
  /\ layout[r].kind = "main" /\ run[r].status = "absent"
  /\ TenantOf(r) \notin suspended
  /\ SessionIsFree(r)
  /\ run' = [run EXCEPT ![r].status = "queued", ![r].queuedAt = second]
  /\ slot' = [slot EXCEPT ![SessionOf(r)] = r]
  /\ UNCHANGED <<activeRuns, served, look, cancelling, settingVars>>

OpenDetail(r) ==
  /\ layout[r].kind = "detail" /\ run[r].status = "absent"
  /\ TenantOf(r) \notin suspended
  /\ run' = [run EXCEPT ![r].status = "running", ![r].queuedAt = second,
                        ![r].attempts = 1, ![r].open = 1, ![r].lease = "live"]
  /\ slot' = [slot EXCEPT ![SessionOf(r)] = r]
  /\ UNCHANGED <<activeRuns, served, look, cancelling, settingVars>>

(***************************************************************************)
(* A cancellation reads the run, then waits for the tenant's lock, and     *)
(* decides on what it read: a run that was waiting is cancelled at once,   *)
(* without release_run; a running one is only asked to stop.               *)
(***************************************************************************)
CancelRead(r) ==
  /\ ~layout[r].calm /\ cancelling.run = NoRun
  /\ run[r].status \in Active \cup Waiting
  /\ cancelling' = [run |-> r, seen |-> run[r].status]
  /\ UNCHANGED <<run, look, queueVars, settingVars>>

CancelNow(r) ==
  /\ run' = [run EXCEPT ![r].status = "cancelled", ![r].open = 0]
  /\ slot' = FreeSlot(r)

CancelAsk(r) ==
  /\ run' = [run EXCEPT ![r].cancel = TRUE]
  /\ UNCHANGED slot

CancelRun ==
  /\ cancelling.run # NoRun
  /\ cancelling' = [run |-> NoRun, seen |-> "absent"]
  /\ LET r == cancelling.run IN
       IF run[r].status \in Ended THEN UNCHANGED <<run, slot>>
       ELSE IF cancelling.seen = "running" THEN CancelAsk(r) ELSE CancelNow(r)
  /\ UNCHANGED <<activeRuns, served, look, settingVars>>

-----------------------------------------------------------------------------
(***************************************************************************)
(* PiRunScheduler.claim_next.                                              *)
(***************************************************************************)
OlderMut(q, r) == q < r   \* by id alone

Older(q, r) ==
  \/ run[q].queuedAt < run[r].queuedAt
  \/ run[q].queuedAt = run[r].queuedAt /\ q < r

Oldest(S) == CHOOSE q \in S : \A r \in S \ {q} : Older(q, r)

RunningOf(t) == {r \in RunsOf(t) : run[r].status = "running"}
OfUser(u, S) == {r \in S : UserOf(r) = u}

WithinLimits(r, busy) ==   \* busy: the running runs of the tenant of r
  /\ Cardinality(busy) < TenantLimit
  /\ Cardinality(OfUser(UserOf(r), busy)) < UserLimit

Queued(t) == {r \in RunsOf(t) : run[r].status = "queued"}

Available(t) ==   \* _candidate_tenants
  {r \in Queued(t) : /\ TenantOf(r) \notin suspended
                     /\ slot[SessionOf(r)] \in {NoRun, r}
                     /\ WithinLimits(r, RunningOf(t))}

Rank(t) == SelectInSeq(served, LAMBDA x : x = t)   \* 0: never served

ServedBefore(t1, t2) ==   \* choose_fair_tenant
  \/ Rank(t1) < Rank(t2)
  \/ Rank(t1) = Rank(t2) /\ Older(Oldest(Available(t1)), Oldest(Available(t2)))

Candidates == {t \in Tenants : Available(t) # {}}

Look(g) ==
  /\ ~look[g].open /\ mode[g] = "active"
  /\ Cardinality({r \in Runs : run[r].gateway = g /\ run[r].status = "running"}) < Capacity
  /\ Candidates # {}
  /\ \E order \in [1..Cardinality(Candidates) -> Candidates] :
       /\ \A i, j \in DOMAIN order : i < j => ServedBefore(order[i], order[j])
       /\ look' = [look EXCEPT ![g] =
            [queue   |-> [i \in DOMAIN order |-> Oldest(Queued(order[i]))],
             running |-> {r \in Runs : run[r].status = "running"},
             open    |-> TRUE]]
  /\ UNCHANGED <<run, cancelling, queueVars, settingVars>>

Claimable(r) ==
  /\ TenantOf(r) \notin suspended
  /\ run[r].status = "queued"
  /\ slot[SessionOf(r)] \in {NoRun, r}

OtherActive(r) ==
  \E q \in Runs \ {r} : SessionOf(q) = SessionOf(r) /\ run[q].status \in Active

StillAllowed(g, r) == WithinLimits(r, look[g].running \cap RunsOf(TenantOf(r)))

ClaimRow(g, r) ==
  run' = [run EXCEPT ![r].status = "running", ![r].attempts = @ + 1,
                     ![r].open = run[r].attempts + 1, ![r].gateway = g,
                     ![r].hash = run[r].attempts + 1, ![r].lease = "live"]

Claim(g, r) ==
  /\ ClaimRow(g, r)
  /\ slot' = [slot EXCEPT ![SessionOf(r)] = r]
  /\ activeRuns' = [activeRuns EXCEPT ![TenantOf(r)] = @ + 1]
  /\ served' = Append(RemoveAt(served, Rank(TenantOf(r))), TenantOf(r))
  /\ look' = [look EXCEPT ![g] = NoClaim]

NextCandidate(g) ==
  LET rest == Tail(look[g].queue) IN
  /\ look' = [look EXCEPT ![g] = IF rest = <<>> THEN NoClaim ELSE [@ EXCEPT !.queue = rest]]
  /\ UNCHANGED <<run, queueVars>>

GiveUpClaim(g) == look' = [look EXCEPT ![g] = NoClaim] /\ UNCHANGED <<run, queueVars>>

Try(g) ==
  /\ look[g].open
  /\ \E r \in Runs :
       /\ r = Head(look[g].queue)
       /\ \/ Claimable(r) /\ ~OtherActive(r) /\ StillAllowed(g, r) /\ Claim(g, r)
          \/ Claimable(r) /\ ~OtherActive(r) /\ ~StillAllowed(g, r) /\ NextCandidate(g)
          \/ Claimable(r) /\ OtherActive(r) /\ GiveUpClaim(g)   \* raises session_mutex_conflict
          \/ ~Claimable(r) /\ NextCandidate(g)
  /\ UNCHANGED <<cancelling, settingVars>>

ClaimFails(g) ==   \* secrets, snapshot or response: everything is rolled back
  /\ look[g].open
  /\ GiveUpClaim(g)
  /\ UNCHANGED <<cancelling, settingVars>>

-----------------------------------------------------------------------------
(***************************************************************************)
(* release_run: once per claim, by the lease hash.                         *)
(***************************************************************************)
ReleasedMut(r) == activeRuns' = [activeRuns EXCEPT ![TenantOf(r)] = IF @ = 0 THEN 0 ELSE @ - 1]

Released(r) ==
  activeRuns' = IF run[r].hash = 0 THEN activeRuns
                ELSE [activeRuns EXCEPT ![TenantOf(r)] = IF @ = 0 THEN 0 ELSE @ - 1]

NoLeaseMut(r, status) ==   \* the token is kept
  [run[r] EXCEPT !.status = status, !.open = 0, !.gateway = NoGateway, !.lease = "free"]

NoLease(r, status) ==
  IF run[r].hash = 0 THEN [run[r] EXCEPT !.status = status, !.open = 0]
  ELSE [run[r] EXCEPT !.status = status, !.open = 0, !.gateway = NoGateway,
                      !.hash = 0, !.lease = "null"]

Settle(r, outcome) ==   \* settle_terminal with a before_commit that releases the run
  /\ run' = [run EXCEPT ![r] = NoLease(r, outcome)]
  /\ slot' = FreeSlot(r)
  /\ Released(r)
  /\ UNCHANGED <<served, look, cancelling, settingVars>>

LeasedMut(r, a) == run[r].status = "running" /\ run[r].hash # 0   \* any attempt's token

Leased(r, a) ==
  /\ run[r].status = "running" /\ run[r].lease = "live"
  /\ run[r].hash = a /\ run[r].open = a

(***************************************************************************)
(* A worker of attempt a, which may have been lost long ago, reports.  A   *)
(* cancellation overrides its outcome; CompletionValidator may refuse a    *)
(* completion, which changes nothing.                                      *)
(***************************************************************************)
EffectiveMut(r, outcome) == outcome   \* the worker's word counts

Effective(r, outcome) == IF run[r].cancel THEN "cancelled" ELSE outcome

Terminal(r, a, outcome) ==
  /\ Leased(r, a)
  /\ Settle(r, Effective(r, outcome))

Clarify(r, a) ==   \* request_clarification, which does not release the run
  /\ ~layout[r].calm /\ Leased(r, a)
  /\ run' = [run EXCEPT ![r].status = "clarification", ![r].open = 0]
  /\ slot' = FreeSlot(r)
  /\ UNCHANGED <<activeRuns, served, look, cancelling, settingVars>>

\* The engine in the API process.  That a paused detail may be resumed is left out: the
\* resumed run has no worker, and no lease, and would be lost here (RunLifecycle resumes).
DetailEnds(r, outcome) ==
  /\ run[r].status = "running" /\ run[r].hash = 0
  /\ outcome = "cancelled" => run[r].cancel
  /\ run[r].lease = "live" \/ outcome = "failed"
  /\ run' = [run EXCEPT ![r].status = outcome, ![r].open = 0, ![r].lease = "null"]
  /\ slot' = FreeSlot(r)
  /\ UNCHANGED <<activeRuns, served, look, cancelling, settingVars>>

LeaseRunsOut(r) ==
  /\ run[r].status = "running" /\ run[r].lease = "live"
  /\ run' = [run EXCEPT ![r].lease = "lapsed"]
  /\ UNCHANGED <<look, cancelling, queueVars, settingVars>>

-----------------------------------------------------------------------------
(***************************************************************************)
(* RecoveryLoop for "pi", in every backend process.  The verdict of the    *)
(* CompletionValidator: the run is complete, is not and cannot be, or has  *)
(* no answer yet, when it gets its one retry.                              *)
(***************************************************************************)
Verdicts == {"ok", "rejected", "missing"}

Lapsed(r) == run[r].status = "running" /\ run[r].lease = "lapsed"

RetryAllowedMut(r) == TRUE

RetryAllowed(r) == run[r].retries < 1

Requeue(r) ==
  /\ run' = [run EXCEPT ![r] = [NoLease(r, "queued") EXCEPT !.retries = @ + 1]]
  /\ Released(r)
  /\ UNCHANGED <<slot, served, look, cancelling, settingVars>>

RecoverExpiredRun(r, verdict) ==
  /\ Lapsed(r) /\ ~run[r].cancel
  /\ CASE verdict = "ok"       -> Settle(r, "completed")
       [] verdict = "rejected" -> Settle(r, "failed")
       [] OTHER -> IF RetryAllowed(r) THEN Requeue(r) ELSE Settle(r, "failed")

CancelExpiredRunMut(r) ==   \* takes only runs that no Gateway had
  /\ Lapsed(r) /\ run[r].cancel /\ run[r].hash = 0
  /\ Settle(r, "cancelled")

CancelExpiredRun(r) ==
  /\ Lapsed(r) /\ run[r].cancel
  /\ Settle(r, "cancelled")

-----------------------------------------------------------------------------
SetGatewayMode(g) ==
  /\ ~look[g].open   \* the claim holds the Gateway's row
  /\ mode' = [mode EXCEPT ![g] = IF @ = "active" THEN "draining" ELSE "active"]
  /\ UNCHANGED <<layout, run, suspended, second, look, cancelling, queueVars>>

SetLicense(t) ==
  /\ suspended' = IF t \in suspended THEN suspended \ {t} ELSE suspended \cup {t}
  /\ UNCHANGED <<layout, run, mode, second, look, cancelling, queueVars>>

NextSecond ==
  /\ second < LastSecond
  /\ second' = second + 1
  /\ UNCHANGED <<layout, run, suspended, mode, look, cancelling, queueVars>>

ApiStep(r) == AppendMessage(r) \/ OpenDetail(r) \/ CancelRead(r)

WorkerStep(r) ==
  \/ \E a \in 1..2, outcome \in Ended : Terminal(r, a, outcome)
  \/ \E a \in 1..2 : Clarify(r, a)
  \/ \E outcome \in Ended \cup {"paused"} : DetailEnds(r, outcome)

Recovery(r) == (\E v \in Verdicts : RecoverExpiredRun(r, v)) \/ CancelExpiredRun(r)

ClaimStep(g) == Look(g) \/ Try(g)

Next ==
  \/ \E r \in Runs : ApiStep(r) \/ WorkerStep(r) \/ LeaseRunsOut(r) \/ Recovery(r)
  \/ CancelRun
  \/ \E g \in Gateways : ClaimStep(g) \/ ClaimFails(g)
  \/ \E g \in Drainable : SetGatewayMode(g)
  \/ \E t \in Suspendable : SetLicense(t)
  \/ NextSecond

Spec == Init /\ [][Next]_vars

(***************************************************************************)
(* Fairness: the RecoveryLoop scans every interval_seconds and catches the *)
(* errors of single runs.                                                  *)
(***************************************************************************)
LiveSpec == Spec /\ \A r \in Runs : WF_vars(Recovery(r))

-----------------------------------------------------------------------------
TypeOK ==
  /\ layout \in Layouts
  /\ run \in [Runs -> [status : Statuses, queuedAt : 0..LastSecond, attempts : 0..2,
                       open : 0..2, retries : 0..1, gateway : Gateways \cup {NoGateway},
                       hash : 0..2, lease : {"null", "live", "lapsed"}, cancel : BOOLEAN]]
  /\ slot \in [Sessions -> Runs \cup {NoRun}]
  /\ activeRuns \in [Tenants -> 0..Cardinality(Runs)]
  /\ served \in BoundedSeq(Tenants, Cardinality(Tenants))
  /\ suspended \subseteq Suspendable
  /\ mode \in [Gateways -> {"active", "draining"}]
  /\ \A g \in Gateways : look[g].running \subseteq Runs /\ ToSet(look[g].queue) \subseteq Runs
  /\ second \in 1..LastSecond

(***************************************************************************)
(* The displayed counter of a tenant is the number of claims that were not *)
(* released, however terminal, recovery and cancellation race.             *)
(***************************************************************************)
CounterMatchesClaims ==
  \A t \in Tenants : activeRuns[t] = Cardinality({r \in RunsOf(t) : run[r].hash # 0})

(***************************************************************************)
(* A lost run is retried once: never two open attempts, never a third      *)
(* attempt, and a run that a Gateway works on belongs to one claim.        *)
(***************************************************************************)
OneRetry ==
  \A r \in Runs :
    /\ run[r].retries <= 1 /\ run[r].attempts <= run[r].retries + 1
    /\ (run[r].open # 0) = (run[r].status = "running")
    /\ run[r].open # 0 => run[r].open = run[r].attempts /\ run[r].hash \in {0, run[r].open}

(***************************************************************************)
(* Two main runs of a session are never active together, and one that runs *)
(* for a Gateway holds the slot unless a KOL detail took it over.          *)
(***************************************************************************)
SessionMutex ==
  /\ \A q, r \in Runs :
       (/\ q # r /\ SessionOf(q) = SessionOf(r) /\ layout[q].kind = "main" /\ layout[r].kind = "main"
        /\ run[q].status \in Active) => run[r].status \notin Active
  /\ \A r \in Runs : run[r].status = "running" /\ run[r].hash # 0 =>
       \/ slot[SessionOf(r)] = r
       \/ \E q \in Runs : SessionOf(q) = SessionOf(r) /\ layout[q].kind = "detail" /\ run[q].attempts > 0

(***************************************************************************)
(* However claims, recovery and cancellation meet, a run is not done twice *)
(* at a time, and not a third time; nor is its session taken twice.        *)
(***************************************************************************)
RunsAreExclusive == OneRetry /\ SessionMutex

(***************************************************************************)
(* The limits hold as long as no KOL detail runs and the runs of a tenant  *)
(* arrive in different seconds: what protects them is not the count (it is *)
(* a snapshot's) but that all claims go for the same oldest run.           *)
(***************************************************************************)
Busy == \A t \in Tenants :
  /\ Cardinality(RunningOf(t)) <= TenantLimit
  /\ \A u \in Users : Cardinality(OfUser(u, RunningOf(t))) <= UserLimit

Orderly ==
  /\ \A r \in Runs : layout[r].kind # "detail"
  /\ \A q, r \in Runs : q # r /\ TenantOf(q) = TenantOf(r) /\ run[q].queuedAt # 0
       => run[q].queuedAt # run[r].queuedAt

OrderlyQueueKeepsLimits == Orderly => Busy

(***************************************************************************)
(* No main run that the user asked to cancel completes or fails, and a run *)
(* that has ended stays as it ended.                                       *)
(***************************************************************************)
CancellationWins ==
  [][\A r \in Runs :
       /\ run[r].status \in Ended => run'[r].status = run[r].status
       /\ run[r].cancel /\ run[r].hash # 0 =>
            run'[r].status \notin {"completed", "failed"}]_vars

(***************************************************************************)
(* A run whose lease ran out does not stay running.                        *)
(***************************************************************************)
LostRunsAreTaken ==
  \A r \in Runs : Lapsed(r) ~> ~Lapsed(r)
=============================================================================
