----------------------------- MODULE ToolChannel -----------------------------
(***************************************************************************)
(* The way of a tool call to its MCP service: the circuit breaker of its   *)
(* service, tool and arguments (agent_runtime/circuit_breaker.py, shared   *)
(* by every run of the process), the queue of the service, which takes a   *)
(* few calls at a time, and the dispatch under a wall clock                *)
(* (mcp_gateway/datatap.py) as AgentMcpTool.execute uses them.             *)
(***************************************************************************)
EXTENDS Integers, Sequences, FiniteSets, SequencesExt

CONSTANTS
  Workers,        \* who calls the service, one call at a time
  Keys,           \* service, tool and arguments of a call
  Threshold,      \* failure_threshold
  MaxConcurrency, \* max_concurrency_per_service
  MaxSends,       \* bound: calls of all the workers
  NoKey

ASSUME ChannelAssumption ==
  Threshold \in Nat \ {0} /\ MaxConcurrency \in Nat \ {0} /\ NoKey \notin Keys

VARIABLES
  chPc,      \* where the call of each worker is
  chKey,     \* its key
  breaker,   \* the state of each key
  queue,     \* the calls that wait for the semaphore, first come first served
  permits,   \* what the semaphore has left
  loose,     \* dispatches that survived their cancellation, and run on
  wasted,    \* keys whose probe ended before it was sent
  sends

chVars == <<chPc, chKey, breaker, queue, permits, loose, wasted, sends>>

Closed == [failures |-> 0, opened |-> "no", probe |-> FALSE]

ChInit ==
  /\ chPc = [w \in Workers |-> "idle"]
  /\ chKey = [w \in Workers |-> NoKey]
  /\ breaker = [k \in Keys |-> Closed]
  /\ queue = <<>>
  /\ permits = MaxConcurrency
  /\ loose = 0 /\ wasted = {} /\ sends = 0

-----------------------------------------------------------------------------
\* The breaker.  An open key is due when its reset window has passed.

Allows(k) ==
  \/ breaker[k].opened = "no"
  \/ breaker[k].opened = "due" /\ ~ breaker[k].probe

AfterFailure(b) ==
  LET n == IF b.failures < Threshold THEN b.failures + 1 ELSE Threshold
  IN IF b.probe \/ n >= Threshold
       THEN [failures |-> n, opened |-> "open", probe |-> FALSE]
       ELSE [b EXCEPT !.failures = n]

RecordFailure(w) == breaker' = [breaker EXCEPT ![chKey[w]] = AfterFailure(@)]
RecordSuccess(w) == breaker' = [breaker EXCEPT ![chKey[w]] = Closed]

WindowPasses(k) ==
  /\ breaker[k].opened = "open"
  /\ breaker' = [breaker EXCEPT ![k].opened = "due"]
  /\ UNCHANGED <<chPc, chKey, queue, permits, loose, wasted, sends>>

-----------------------------------------------------------------------------
Moves(w, to) == chPc' = [chPc EXCEPT ![w] = to]
Returns(w) == Moves(w, "idle") /\ chKey' = [chKey EXCEPT ![w] = NoKey]
AloneWithKey(w) == \A v \in Workers \ {w} : chKey[v] # chKey[w]

\* allow: the first call after the window is the probe.
Call(w) ==
  /\ chPc[w] = "idle"
  /\ sends < MaxSends
  /\ sends' = sends + 1
  /\ \E k \in Keys :
       /\ Allows(k)
       /\ chKey' = [chKey EXCEPT ![w] = k]
       /\ breaker' = [breaker EXCEPT ![k].probe = breaker[k].opened = "due"]
  /\ Moves(w, "preparing")
  /\ UNCHANGED <<queue, permits, loose, wasted>>

\* prepare commits the row and the reservation before the call is sent.
Prepared(w) ==
  /\ chPc[w] = "preparing"
  /\ Moves(w, "queueing")
  /\ queue' = Append(queue, w)
  /\ UNCHANGED <<chKey, breaker, permits, loose, wasted, sends>>

\* The row is replayed, the points do not suffice, or the run is cancelled in
\* prepare: the breaker hears nothing of it.
NotSent(w) ==
  /\ chPc[w] = "preparing"
  /\ wasted' = IF breaker[chKey[w]].probe /\ AloneWithKey(w)
                  THEN wasted \cup {chKey[w]} ELSE wasted
  /\ Returns(w)
  /\ UNCHANGED <<breaker, queue, permits, loose, sends>>

Acquire(w) ==
  /\ chPc[w] = "queueing"
  /\ Head(queue) = w
  /\ permits > 0
  /\ permits' = permits - 1
  /\ queue' = Tail(queue)
  /\ Moves(w, "dispatching")
  /\ UNCHANGED <<chKey, breaker, loose, wasted, sends>>

\* The queue is too long, or the run is cancelled in it.
LeavesQueue(w) ==
  /\ chPc[w] = "queueing"
  /\ \E i \in 1..Len(queue) : queue[i] = w /\ queue' = RemoveAt(queue, i)
  /\ RecordFailure(w)
  /\ Returns(w)
  /\ UNCHANGED <<permits, loose, wasted, sends>>

ReleaseMut == permits' = permits
Release == permits' = permits + 1

\* The service answers: data, nothing, or a business error.
ServiceAnswers(w) ==
  /\ chPc[w] = "dispatching"
  /\ RecordSuccess(w)
  /\ wasted' = wasted \ {chKey[w]}
  /\ Release
  /\ Returns(w)
  /\ UNCHANGED <<queue, loose, sends>>

\* No connection, a gateway error, a broken protocol.
Fails(w) ==
  /\ chPc[w] = "dispatching"
  /\ RecordFailure(w)
  /\ Release
  /\ Returns(w)
  /\ UNCHANGED <<queue, loose, wasted, sends>>

\* call_timeout_seconds: the task is cancelled, and has a grace to end.
TimesOut(w) ==
  /\ chPc[w] = "dispatching"
  /\ Moves(w, "cancelling")
  /\ UNCHANGED <<chKey, breaker, queue, permits, loose, wasted, sends>>

TaskEnds(w) ==
  /\ chPc[w] = "cancelling"
  /\ RecordFailure(w)
  /\ Release
  /\ Returns(w)
  /\ UNCHANGED <<queue, loose, wasted, sends>>

\* A task that swallows its cancellation is abandoned, and the call ends.
AbandonsMut(w) == FALSE
Abandons(w) == chPc[w] = "cancelling"
GraceEnds(w) ==
  /\ Abandons(w)
  /\ loose' = loose + 1
  /\ RecordFailure(w)
  /\ Release
  /\ Returns(w)
  /\ UNCHANGED <<queue, wasted, sends>>

\* The run is cancelled: so is the task, and nobody waits for its end.
IsCut(w) ==
  /\ chPc[w] \in {"dispatching", "cancelling"}
  /\ loose' = loose + 1
  /\ RecordFailure(w)
  /\ Release
  /\ Returns(w)
  /\ UNCHANGED <<queue, wasted, sends>>

LooseEnds ==
  /\ loose > 0
  /\ loose' = loose - 1
  /\ UNCHANGED <<chPc, chKey, breaker, queue, permits, wasted, sends>>

-----------------------------------------------------------------------------
\* What the process does by itself; the answer of the service and the exit of
\* a cancelled task are up to others.
ChStep(w) == Prepared(w) \/ NotSent(w) \/ Acquire(w) \/ TimesOut(w) \/ GraceEnds(w)

ChNext ==
  \/ \E w \in Workers :
       \/ Call(w) \/ ChStep(w) \/ LeavesQueue(w) \/ ServiceAnswers(w) \/ Fails(w)
       \/ TaskEnds(w) \/ IsCut(w)
  \/ \E k \in Keys : WindowPasses(k)
  \/ LooseEnds

ChSpec == ChInit /\ [][ChNext]_chVars

\* The timers of the process run.
ChFairness ==
  /\ \A w \in Workers : WF_chVars(ChStep(w))
  /\ \A k \in Keys : WF_chVars(WindowPasses(k))
ChLiveSpec == ChSpec /\ ChFairness

-----------------------------------------------------------------------------
Holders == {w \in Workers : chPc[w] \in {"dispatching", "cancelling"}}

ChTypeOK ==
  /\ chPc \in [Workers -> {"idle", "preparing", "queueing", "dispatching", "cancelling"}]
  /\ \A w \in Workers : (chKey[w] = NoKey) <=> (chPc[w] = "idle")
  /\ ToSet(queue) = {w \in Workers : chPc[w] = "queueing"} /\ IsInjective(queue)
  /\ \A k \in Keys : breaker[k].failures \in 0..Threshold

\* However a call ends, the service's place is given back, once.
PlacesAreGivenBack == permits + Cardinality(Holders) = MaxConcurrency

\* A key is open after Threshold failures and no success since; and a probe that
\* was sent gives its verdict: a key whose probe is out has a call under way,
\* unless the probe was spent on a call that was never sent.
BreakerIsTrue ==
  \A k \in Keys :
    /\ breaker[k].opened # "no" => breaker[k].failures = Threshold
    /\ breaker[k].probe => breaker[k].opened = "due"
    /\ breaker[k].probe /\ k \notin wasted => \E w \in Workers : chKey[w] = k

ChannelIsSound == PlacesAreGivenBack /\ BreakerIsTrue

\* Every call ends, even if its dispatch can be neither finished nor cancelled.
CallsEnd == \A w \in Workers : chPc[w] # "idle" ~> chPc[w] = "idle"
=============================================================================
