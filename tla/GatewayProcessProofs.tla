------------------------ MODULE GatewayProcessProofs ------------------------
(***************************************************************************)
(* The Gateway's process is sound, for every set of runs, every capacity,  *)
(* every number of claims and all times that fit (GatewayAssumption,       *)
(* FenceAssumption): places are counted, no child outlives the lease of    *)
(* its attempt, and only what was earned is reported.                      *)
(***************************************************************************)
EXTENDS GatewayProcess, FiniteSetTheorems, TLAPS

(***************************************************************************)
(* The inductive invariant.  What the variables hold:                      *)
(***************************************************************************)
Rows ==
  [status : {"queued", "running", "clarification", "completed", "failed", "cancelled"},
   holder : 0..MaxClaims, left : 0..Lease, cancel : BOOLEAN, retried : BOOLEAN]

Tasks ==
  [run : Runs, pc : {"absent", "init", "work", "drain", "report", "over"},
   wait : Nat, deadline : 0..Lease, heart : {"live", "lost", "cancelled"},
   fails : 0..2, beat : {"off", "timer", "sent", "ok", "cancel", "refused"},
   due : Nat, grant : 0..Lease, pump : {"open", "stopped", "broken"},
   plan : {"none", "completed", "failed", "cancelled"},
   word : {"none", "sent", "taken", "refused"}, again : BOOLEAN]

Children ==
  [state : {"none", "alive", "term", "gone"}, exit : {"none", "done", "failed", "crash"},
   kill : 0..AbortGrace, unsent : BOOLEAN, dropped : BOOLEAN]

Types ==
  /\ gwRun \in [Runs -> Rows]
  /\ claim \in [state : {"none", "sent", "answer"}, of : 0..MaxClaims, wait : 0..ControlTimeout]
  /\ claims \in 0..MaxClaims
  /\ task \in [Attempts -> Tasks] /\ child \in [Attempts -> Children]
  /\ active \in Int /\ stopped \in BOOLEAN

(***************************************************************************)
(* A task and its child are at the same place; a child that was not asked  *)
(* to go belongs to a task whose heart beats; what was dropped, was        *)
(* dropped by a pump that no completion passes.                            *)
(***************************************************************************)
InStep(t, c, stop) ==
  /\ t.pc \in {"absent", "init"} => c.state = "none" /\ ~ c.dropped
  /\ t.pc = "work" => c.state # "none"
  /\ t.pc \in {"drain", "report", "over"} => c.state = "gone"
  /\ t.pc \in {"absent", "report", "over"} => t.beat = "off"
  /\ t.pc \in {"init", "work"} /\ t.heart = "live" => t.beat # "off"
  /\ t.beat # "off" => t.heart = "live" /\ t.fails <= 1
  /\ c.state = "alive" => t.heart = "live" /\ ~ stop
  /\ t.pump = "stopped" => stop \/ t.heart = "lost"
  /\ c.dropped => t.pump # "open"
  /\ t.pc \in {"absent", "init", "work", "over"} => t.plan = "none"
  /\ t.pc \in {"drain", "report"} => t.plan # "none"
  /\ t.plan = "completed" /\ t.pc = "drain" =>
       c.exit = "done" /\ (t.heart = "live" => ~ c.dropped)
  /\ t.plan = "completed" /\ t.pc = "report" =>
       c.exit = "done" /\ t.heart = "live" /\ ~ c.unsent /\ ~ c.dropped

(***************************************************************************)
(* A heartbeat that is on its way, or will be, is over while the grace is  *)
(* left.  A first one left at a moment that BeatsFit speaks of.            *)
(***************************************************************************)
OnItsWay == {"sent", "ok", "cancel", "refused"}

FirstTry(t) == \E k \in (Lease - ControlTimeout)..Lease :
  IF t.beat = "timer" THEN t.deadline - t.due = k - NextBeat(k)
  ELSE /\ k - NextBeat(k) - ControlTimeout + t.due <= t.deadline
       /\ t.deadline <= k - NextBeat(k)

OnTime(t) ==
  /\ t.pc = "init" => t.wait <= InitTime
  /\ t.beat # "off" => t.due + AbortGrace <= t.deadline
  /\ t.beat # "off" /\ t.fails = 0 => FirstTry(t)
  /\ t.beat \in OnItsWay => t.due <= ControlTimeout
  /\ t.beat \in {"ok", "cancel"} => Lease - ControlTimeout + t.due <= t.grant

(***************************************************************************)
(* What the Gateway believes of its lease, the row grants: a child there   *)
(* is under the attempt's own lease, and will be killed within it.         *)
(***************************************************************************)
Held(a, row) == row.status = "running" /\ row.holder = a

UnderLease(a, t, c, row) ==
  /\ t.pc = "init" => Held(a, row) /\ t.wait + AbortGrace <= row.left
  /\ c.state \in {"alive", "term"} =>
       \/ Held(a, row) /\ c.kill <= row.left
       \/ row.status = "clarification" /\ row.holder = a
  /\ t.beat # "off" /\ Held(a, row) => t.deadline <= row.left
  /\ t.beat \in {"ok", "cancel"} /\ Held(a, row) => t.grant <= row.left
  /\ "cancel" = t.beat \/ t.heart = "cancelled" \/ t.plan = "cancelled" => row.cancel

Attempted(a) ==
  /\ InStep(task[a], child[a], stopped)
  /\ OnTime(task[a])
  /\ UnderLease(a, task[a], child[a], RunOf(a))

(***************************************************************************)
(* A claim has a place and a number of its own, and its lease is young.    *)
(***************************************************************************)
Numbered ==
  /\ \A r \in Runs : gwRun[r].holder <= claims
  /\ \A r, s \in Runs : gwRun[r].holder = gwRun[s].holder /\ gwRun[r].holder # 0 => r = s
  /\ \A a \in Attempts : task[a].pc # "absent" => a <= claims

Answered ==
  /\ claim.of = claims /\ claims \in Attempts /\ task[claims].pc = "absent"
  /\ \E r \in Runs : Held(claims, gwRun[r]) /\ Lease - ControlTimeout + claim.wait <= gwRun[r].left

Claimed ==
  /\ claim.state # "none" => active < Capacity
  /\ claim.state = "sent" => claims < MaxClaims
  /\ claim.state = "answer" => Answered

GatewayInv ==
  /\ Types /\ Numbered /\ Claimed /\ PlacesAreCounted
  /\ \A a \in Attempts : Attempted(a)

-----------------------------------------------------------------------------
(***************************************************************************)
(* About times, aborts and the values of an attempt.                       *)
(***************************************************************************)
LEMMA Times ==
  /\ Lease \in Nat \ {0} /\ AbortGrace \in Nat \ {0} /\ HeartbeatInterval \in Nat \ {0}
  /\ ControlTimeout \in Nat \ {0} /\ InitTime \in Nat \ {0}
  /\ ControlTimeout + InitTime + AbortGrace <= Lease
  /\ Capacity \in Nat \ {0} /\ MaxClaims \in Nat
BY GatewayAssumption

LEMMA NextBeatType == ASSUME NEW k \in Nat PROVE NextBeat(k) \in Nat \ {0}
BY Times DEF NextBeat, Least, Greatest

(* A heartbeat scheduled when so much is left ends within the grace. *)
LEMMA FreshBeat ==
  ASSUME NEW k \in (Lease - ControlTimeout)..Lease
  PROVE  k \in Nat /\ k - NextBeat(k) >= AbortGrace
BY FenceAssumption, Times DEF BeatsFit, InTime

LEMMA SecondBeat ==
  ASSUME NEW k \in (Lease - ControlTimeout)..Lease, NEW rest \in Nat,
         rest > AbortGrace, rest <= k - NextBeat(k),
         k - NextBeat(k) - ControlTimeout <= rest
  PROVE  rest - NextBeat(rest) >= AbortGrace
<1>0. k \in Nat /\ NextBeat(k) \in Nat  BY FreshBeat, NextBeatType
<1> DEFINE late == k - NextBeat(k) - rest
<1>1. late \in 0..ControlTimeout /\ k - NextBeat(k) - late = rest  BY <1>0, Times
<1> HIDE DEF late
<1>2. k - NextBeat(k) - late > AbortGrace => InTime(k - NextBeat(k) - late)
  BY <1>1, FenceAssumption DEF BeatsFit
<1> QED  BY <1>1, <1>2 DEF InTime

LEMMA AbortedIs ==
  ASSUME NEW c \in Children
  PROVE  /\ Aborted(c) \in Children
         /\ Aborted(c).state = (IF c.state = "alive" THEN "term" ELSE c.state)
         /\ Aborted(c).kill = (IF c.state = "alive" THEN AbortGrace ELSE c.kill)
         /\ Aborted(c).exit = c.exit
         /\ Aborted(c).unsent = c.unsent /\ Aborted(c).dropped = c.dropped
<1>1. CASE c.state = "alive"
  <2> DEFINE d == [c EXCEPT !.state = "term"]
  <2>1. d \in Children /\ d.state = "term" /\ d.exit = c.exit /\ d.unsent = c.unsent
        /\ d.dropped = c.dropped
    BY DEF Children
  <2>2. Aborted(c) = [d EXCEPT !.kill = AbortGrace]  BY <1>1 DEF Aborted
  <2> HIDE DEF d
  <2> QED  BY <1>1, <2>1, <2>2, Times DEF Children
<1> QED  BY <1>1 DEF Aborted

LEMMA Now ==
  ASSUME GatewayInv, NEW a \in Attempts
  PROVE  /\ task[a] \in Tasks /\ child[a] \in Children /\ RunOf(a) \in Rows
         /\ task[a].run \in Runs /\ stopped \in BOOLEAN
         /\ InStep(task[a], child[a], stopped) /\ OnTime(task[a])
         /\ UnderLease(a, task[a], child[a], RunOf(a))
BY DEF GatewayInv, Types, Attempted, RunOf, Tasks

(***************************************************************************)
(* A child that lives has the grace before it.                             *)
(***************************************************************************)
LEMMA Alive ==
  ASSUME GatewayInv, NEW a \in Attempts, child[a].state = "alive"
  PROVE  /\ task[a].pc = "work" /\ task[a].heart = "live" /\ ~ stopped
         /\ task[a].beat # "off" /\ RunOf(a).holder = a
         /\ RunOf(a).status = "clarification" \/ Held(a, RunOf(a))
         /\ Held(a, RunOf(a)) => AbortGrace <= RunOf(a).left
<1>1. task[a].pc = "work" /\ task[a].heart = "live" /\ ~ stopped /\ task[a].beat # "off"
  BY Now DEF InStep, Tasks
<1>2. task[a].due + AbortGrace <= task[a].deadline  BY <1>1, Now DEF OnTime
<1> QED  BY <1>1, <1>2, Now, Times DEF UnderLease, Held, Tasks, Rows

-----------------------------------------------------------------------------
(***************************************************************************)
(* Steps of one task and its child, while the backend, the claim and the   *)
(* place stay: the new task and child have to be right by themselves.      *)
(***************************************************************************)
Fits(a, t, c) ==
  /\ t \in Tasks /\ c \in Children /\ t.run = task[a].run
  /\ InStep(t, c, stopped) /\ OnTime(t) /\ UnderLease(a, t, c, RunOf(a))

Turns(a, t, c) ==
  /\ task' = [task EXCEPT ![a] = t] /\ child' = [child EXCEPT ![a] = c]
  /\ UNCHANGED <<gwRun, claim, claims, stopped>>

AtWork == {"init", "work", "drain", "report"}

LEMMA TurnKeepsOthers ==
  ASSUME GatewayInv, NEW a \in Attempts, NEW t, NEW c, Fits(a, t, c), Turns(a, t, c),
         task[a].pc # "absent"
  PROVE  /\ Numbered' /\ \A b \in Attempts : Attempted(b)'
         /\ task' \in [Attempts -> Tasks] /\ child' \in [Attempts -> Children]
         /\ claim.state = "answer" => Answered'
<1> USE DEF GatewayInv, Types, Fits, Turns
<1>1. task'[a] = t /\ child'[a] = c  OBVIOUS
<1>2. \A b \in Attempts \ {a} : task'[b] = task[b] /\ child'[b] = child[b]  OBVIOUS
<1>3. ASSUME NEW b \in Attempts PROVE Attempted(b)'
  <2>1. CASE b = a  BY <2>1, <1>1 DEF Attempted, RunOf
  <2>2. CASE b # a  BY <2>2, <1>2 DEF Attempted, RunOf
  <2> QED  BY <2>1, <2>2
<1>4. Numbered'  BY <1>1, <1>2 DEF Numbered
<1>5. claim.state = "answer" => Answered'
  BY <1>1, <1>2 DEF Claimed, Answered, Held, Attempts
<1> QED  BY <1>3, <1>4, <1>5

LEMMA Turn ==
  ASSUME GatewayInv, NEW a \in Attempts, NEW t, NEW c, Fits(a, t, c), Turns(a, t, c),
         task[a].pc \in AtWork, t.pc \in AtWork, active' = active
  PROVE  GatewayInv'
<1>1. {b \in Attempts : Placed(b)}' = {b \in Attempts : Placed(b)}
  BY DEF GatewayInv, Types, Turns, Placed, AtWork
<1>2. PlacesAreCounted'  BY <1>1 DEF PlacesAreCounted, GatewayInv
<1>3. Claimed'  BY TurnKeepsOthers DEF Claimed, GatewayInv, Turns, AtWork
<1> QED  BY <1>2, <1>3, TurnKeepsOthers DEF GatewayInv, Types, Turns, AtWork

LEMMA PlacesAreFew ==
  /\ IsFiniteSet({a \in Attempts : Placed(a)})
  /\ Cardinality({a \in Attempts : Placed(a)}) \in 0..MaxClaims
<1>1. IsFiniteSet(Attempts) /\ Cardinality(Attempts) = MaxClaims
  BY Times, FS_Interval DEF Attempts
<1> QED  BY <1>1, FS_Subset, FS_CardinalityType, Times

-----------------------------------------------------------------------------
(***************************************************************************)
(* The child.                                                              *)
(***************************************************************************)
LEMMA WorkerStartsGood ==
  ASSUME GatewayInv, NEW a \in Attempts, WorkerStarts(a)
  PROVE  GatewayInv'
<1> USE Now DEF WorkerStarts
<1> DEFINE t == [task[a] EXCEPT !.pc = "work", !.wait = 0]
<1>1. PICK d \in {Running, [NoChild EXCEPT !.state = "gone", !.exit = "failed"]} :
        child' = [child EXCEPT ![a] = IF stopped \/ task[a].heart # "live" THEN Aborted(d) ELSE d]
  OBVIOUS
<1> DEFINE c == IF stopped \/ task[a].heart # "live" THEN Aborted(d) ELSE d
<1>2. d \in Children /\ d.state \in {"alive", "gone"} /\ d.kill = 0 /\ ~ d.dropped
  <2> DEFINE n == [NoChild EXCEPT !.state = "gone"]
  <2>1. NoChild \in Children /\ ~ NoChild.dropped /\ NoChild.kill = 0
    BY Times DEF NoChild, Children
  <2>2. n \in Children /\ n.state = "gone" /\ ~ n.dropped /\ n.kill = 0
    BY <2>1 DEF Children
  <2>3. d = Running \/ d = [n EXCEPT !.exit = "failed"]  BY <1>1
  <2>4. Running \in Children /\ Running.state = "alive" /\ ~ Running.dropped /\ Running.kill = 0
    BY <2>1 DEF Running, Children
  <2> HIDE DEF n
  <2> QED  BY <2>2, <2>3, <2>4 DEF Children
<1>3. /\ c \in Children /\ c.state # "none" /\ ~ c.dropped
      /\ c.state = "alive" => ~ stopped /\ task[a].heart = "live"
      /\ c.kill <= AbortGrace
  BY <1>2, AbortedIs, Times DEF Children
<1>4. t \in Tasks /\ t.run = task[a].run /\ t.pc = "work" /\ t.wait = 0
      /\ t.heart = task[a].heart /\ t.beat = task[a].beat /\ t.plan = task[a].plan
      /\ t.deadline = task[a].deadline /\ t.due = task[a].due /\ t.fails = task[a].fails
      /\ t.grant = task[a].grant /\ t.pump = task[a].pump
  BY ZenonT(30) DEF Tasks
<1>5. Turns(a, t, c) /\ active' = active
  BY <1>1 DEF Turns, GatewayInv, Types
<1> HIDE DEF t, c
<1>6. InStep(t, c, stopped)  BY <1>3, <1>4 DEF InStep
<1>7. OnTime(t)  BY <1>4 DEF OnTime, FirstTry
<1>8. UnderLease(a, t, c, RunOf(a))
  <2>1. Held(a, RunOf(a)) /\ AbortGrace <= RunOf(a).left
    BY Times DEF UnderLease, Tasks, Rows
  <2> QED  BY <2>1, <1>3, <1>4, Times DEF UnderLease, Children, Rows
<1> QED  BY <1>3, <1>4, <1>5, <1>6, <1>7, <1>8, Turn DEF Fits, AtWork

(***************************************************************************)
(* The child changes and its task stays.                                   *)
(***************************************************************************)
LEMMA ChildTurn ==
  ASSUME GatewayInv, NEW a \in Attempts, NEW c \in Children, task[a].pc \in AtWork,
         child' = [child EXCEPT ![a] = c],
         UNCHANGED <<gwRun, claim, claims, task, active, stopped>>,
         InStep(task[a], c, stopped),
         c.state \in {"alive", "term"} => child[a].state \in {"alive", "term"}
                                          /\ c.kill = child[a].kill
  PROVE  GatewayInv'
<1>1. task' = [task EXCEPT ![a] = task[a]]  BY DEF GatewayInv, Types
<1>2. UnderLease(a, task[a], c, RunOf(a))  BY Now DEF UnderLease
<1> QED  BY <1>1, <1>2, Now, Turn DEF Fits, Turns

LEMMA ChildExitsGood ==
  ASSUME GatewayInv, NEW a \in Attempts, ChildExits(a)
  PROVE  GatewayInv'
<1> USE Now DEF ChildExits
<1>1. PICK e \in {"done", "failed", "crash"} :
        child' = [child EXCEPT ![a].state = "gone", ![a].exit = e, ![a].kill = 0]
  OBVIOUS
<1> DEFINE c == [child[a] EXCEPT !.state = "gone", !.exit = e, !.kill = 0]
<1>2. c \in Children /\ c.state = "gone" /\ c.exit = e /\ c.kill = 0
      /\ c.unsent = child[a].unsent /\ c.dropped = child[a].dropped
  <2> DEFINE d == [child[a] EXCEPT !.state = "gone", !.exit = e]
  <2>1. d \in Children /\ d.state = "gone" /\ d.exit = e
        /\ d.unsent = child[a].unsent /\ d.dropped = child[a].dropped
    BY DEF Children
  <2>2. c = [d EXCEPT !.kill = 0]  OBVIOUS
  <2> HIDE DEF c, d
  <2> QED  BY <2>1, <2>2, Times DEF Children
<1>3. child' = [child EXCEPT ![a] = c]  BY <1>1 DEF GatewayInv, Types
<1>4. task[a].pc = "work"  BY DEF InStep, Tasks
<1> HIDE DEF c
<1>5. InStep(task[a], c, stopped)  BY <1>2, <1>4 DEF InStep
<1> QED  BY <1>2, <1>3, <1>4, <1>5, ChildTurn DEF AtWork

LEMMA ChildIsKilledGood ==
  ASSUME GatewayInv, NEW a \in Attempts, ChildIsKilled(a)
  PROVE  GatewayInv'
<1> USE Now DEF ChildIsKilled
<1> DEFINE c == [child[a] EXCEPT !.state = "gone", !.exit = "crash"]
<1>2. c \in Children /\ c.state = "gone" /\ c.exit = "crash" /\ c.kill = child[a].kill
      /\ c.unsent = child[a].unsent /\ c.dropped = child[a].dropped
  BY DEF Children
<1>3. child' = [child EXCEPT ![a] = c]  BY DEF GatewayInv, Types
<1>4. task[a].pc = "work"  BY DEF InStep, Tasks
<1> HIDE DEF c
<1>5. InStep(task[a], c, stopped)  BY <1>2, <1>4 DEF InStep
<1> QED  BY <1>2, <1>3, <1>4, <1>5, ChildTurn DEF AtWork

LEMMA ChildSendsGood ==
  ASSUME GatewayInv, NEW a \in Attempts, ChildSends(a)
  PROVE  GatewayInv'
<1> USE Now DEF ChildSends
<1> DEFINE c == IF task[a].pump = "open" THEN [child[a] EXCEPT !.unsent = TRUE]
                ELSE [child[a] EXCEPT !.dropped = TRUE]
<1>2. c \in Children /\ c.state = child[a].state /\ c.exit = child[a].exit
      /\ c.kill = child[a].kill /\ (c.dropped => child[a].dropped \/ task[a].pump # "open")
  BY DEF Children
<1>3. child' = [child EXCEPT ![a] = c]  BY DEF GatewayInv, Types
<1>4. task[a].pc = "work"  BY DEF InStep, Tasks
<1> HIDE DEF c
<1>5. InStep(task[a], c, stopped)  BY <1>2, <1>4 DEF InStep
<1> QED  BY <1>2, <1>3, <1>4, <1>5, ChildTurn DEF AtWork

LEMMA PumpDeliversGood ==
  ASSUME GatewayInv, NEW a \in Attempts, PumpDelivers(a)
  PROVE  GatewayInv'
<1> USE Now DEF PumpDelivers
<1> DEFINE c == [child[a] EXCEPT !.unsent = FALSE]
<1>2. c \in Children /\ c.state = child[a].state /\ c.exit = child[a].exit
      /\ c.kill = child[a].kill /\ c.dropped = child[a].dropped /\ c.unsent = FALSE
  BY DEF Children
<1>3. child' = [child EXCEPT ![a] = c]  BY DEF GatewayInv, Types
<1> HIDE DEF c
<1>5. InStep(task[a], c, stopped)  BY <1>2 DEF InStep
<1> QED  BY <1>2, <1>3, <1>5, ChildTurn DEF AtWork, Placed

-----------------------------------------------------------------------------
(***************************************************************************)
(* Heartbeats.  SameTask: all but heart, fails, beat, times and pump.      *)
(***************************************************************************)
SameTask(s, t) ==
  /\ t \in Tasks /\ t.run = s.run /\ t.pc = s.pc /\ t.wait = s.wait
  /\ t.plan = s.plan /\ t.word = s.word /\ t.again = s.again

LEMMA NoBeatIs ==
  ASSUME NEW t \in Tasks
  PROVE  /\ SameTask(t, NoBeat(t)) /\ NoBeat(t).beat = "off"
         /\ NoBeat(t).heart = t.heart /\ NoBeat(t).pump = t.pump
         /\ NoBeat(t).deadline = t.deadline /\ NoBeat(t).fails = t.fails
<1> DEFINE d == [t EXCEPT !.beat = "off", !.due = 0]
<1>1. SameTask(t, d) /\ d.beat = "off" /\ d.heart = t.heart /\ d.pump = t.pump
      /\ d.deadline = t.deadline /\ d.fails = t.fails
  BY DEF SameTask, Tasks
<1>2. NoBeat(t) = [d EXCEPT !.grant = 0]  BY DEF NoBeat
<1> HIDE DEF d
<1> QED  BY <1>1, <1>2, Times DEF SameTask, Tasks

LEMMA StoppedIs ==
  ASSUME NEW t \in Tasks
  PROVE  /\ SameTask(t, Stopped(t)) /\ Stopped(t).beat = t.beat
         /\ Stopped(t).heart = t.heart /\ Stopped(t).deadline = t.deadline
         /\ Stopped(t).fails = t.fails /\ Stopped(t).due = t.due /\ Stopped(t).grant = t.grant
         /\ Stopped(t).pump = (IF t.pump = "open" THEN "stopped" ELSE t.pump)
BY DEF Stopped, SameTask, Tasks

LEMMA ScheduledIs ==
  ASSUME NEW t \in Tasks
  PROVE  /\ SameTask(t, Scheduled(t)) /\ Scheduled(t).beat = "timer"
         /\ Scheduled(t).heart = t.heart /\ Scheduled(t).deadline = t.deadline
         /\ Scheduled(t).fails = t.fails /\ Scheduled(t).pump = t.pump
         /\ Scheduled(t).due = NextBeat(t.deadline)
<1> DEFINE d == [t EXCEPT !.beat = "timer"]
           e == [d EXCEPT !.due = NextBeat(t.deadline)]
<1>0. t.deadline \in Nat /\ NextBeat(t.deadline) \in Nat  BY NextBeatType DEF Tasks
<1>1. SameTask(t, d) /\ d.beat = "timer" /\ d.heart = t.heart /\ d.pump = t.pump
      /\ d.deadline = t.deadline /\ d.fails = t.fails
  BY DEF SameTask, Tasks
<1>2. SameTask(t, e) /\ e.beat = "timer" /\ e.heart = t.heart /\ e.pump = t.pump
      /\ e.deadline = t.deadline /\ e.fails = t.fails /\ e.due = NextBeat(t.deadline)
  <2> HIDE DEF d
  <2> QED  BY <1>0, <1>1 DEF SameTask, Tasks
<1>3. Scheduled(t) = [e EXCEPT !.grant = 0]  BY DEF Scheduled
<1> HIDE DEF e
<1> QED  BY <1>2, <1>3, Times DEF SameTask, Tasks

(* An abort that the lease leaves time for. *)
LEMMA AbortFits ==
  ASSUME GatewayInv, NEW a \in Attempts, NEW t, SameTask(task[a], t), t.beat = "off",
         t.heart # "cancelled" \/ RunOf(a).cancel
  PROVE  UnderLease(a, t, Aborted(child[a]), RunOf(a))
BY Now, Alive, AbortedIs DEF UnderLease, SameTask, Held, Rows

LEMMA LostGood ==
  ASSUME GatewayInv, NEW a \in Attempts, task[a].beat # "off", NEW s, SameTask(task[a], s),
         s.pump = task[a].pump, MarkLost(a, s),
         UNCHANGED <<gwRun, claim, claims, active, stopped>>
  PROVE  GatewayInv'
<1> DEFINE t == [NoBeat(Stopped(s)) EXCEPT !.heart = "lost"]
           c == Aborted(child[a])
<1>1. SameTask(task[a], t) /\ t.heart = "lost" /\ t.beat = "off" /\ t.pump # "open"
  <2> DEFINE d == NoBeat(Stopped(s))
  <2>1. SameTask(task[a], d) /\ d.beat = "off" /\ d.pump # "open"
    BY NoBeatIs, StoppedIs DEF SameTask
  <2>2. t = [d EXCEPT !.heart = "lost"]  OBVIOUS
  <2> HIDE DEF d, t
  <2> QED  BY <2>1, <2>2 DEF SameTask, Tasks
<1>2. Turns(a, t, c)  BY DEF Turns, MarkLost
<1> HIDE DEF t
<1>3. InStep(t, c, stopped)  BY <1>1, Now, AbortedIs, Alive DEF InStep, SameTask
<1>4. OnTime(t)  BY <1>1, Now DEF OnTime, SameTask, OnItsWay
<1>5. UnderLease(a, t, c, RunOf(a))  BY <1>1, AbortFits
<1>6. task[a].pc \in AtWork  BY Now DEF InStep, AtWork, Tasks
<1> QED  BY <1>1, <1>2, <1>3, <1>4, <1>5, <1>6, AbortedIs, Now, Turn DEF Fits, SameTask

LEMMA ScheduledGood ==
  ASSUME GatewayInv, NEW a \in Attempts, NEW s, SameTask(task[a], s),
         task[a].beat # "off", s.heart = "live", s.fails <= 1, s.pump = task[a].pump,
         s.deadline - NextBeat(s.deadline) >= AbortGrace,
         s.fails = 0 => s.deadline \in (Lease - ControlTimeout)..Lease,
         Held(a, RunOf(a)) => s.deadline <= RunOf(a).left,
         task' = [task EXCEPT ![a] = Scheduled(s)],
         UNCHANGED <<child, gwRun, claim, claims, active, stopped>>
  PROVE  GatewayInv'
<1> DEFINE t == Scheduled(s)
<1>0. s.deadline \in Nat /\ NextBeat(s.deadline) \in Nat
  BY NextBeatType DEF SameTask, Tasks
<1>1. SameTask(task[a], t) /\ t.heart = "live" /\ t.beat = "timer" /\ t.pump = task[a].pump
      /\ t.deadline = s.deadline /\ t.fails = s.fails /\ t.due = NextBeat(s.deadline)
  BY ScheduledIs DEF SameTask
<1>2. Turns(a, t, child[a])  BY DEF Turns, GatewayInv, Types
<1> HIDE DEF t
<1>3. InStep(t, child[a], stopped)  BY <1>1, Now DEF InStep, SameTask
<1>4. OnTime(t)  BY <1>0, <1>1, Now, Times DEF OnTime, SameTask, OnItsWay, FirstTry
<1>5. UnderLease(a, t, child[a], RunOf(a))  BY <1>1, Now DEF UnderLease, SameTask
<1>6. task[a].pc \in AtWork  BY Now DEF InStep, AtWork, Tasks
<1> QED  BY <1>1, <1>2, <1>3, <1>4, <1>5, <1>6, Now, Turn DEF Fits, SameTask

LEMMA BeatDueGood ==
  ASSUME GatewayInv, NEW a \in Attempts, BeatDue(a)
  PROVE  GatewayInv'
<1> USE Now DEF BeatDue
<1>1. CASE task[a].deadline <= AbortGrace
  <2>1. SameTask(task[a], task[a])  BY DEF SameTask
  <2> QED  BY <1>1, <2>1, LostGood
<1>2. CASE ~ (task[a].deadline <= AbortGrace)
  <2> DEFINE n == Least(ControlTimeout, task[a].deadline - AbortGrace)
             t == [task[a] EXCEPT !.beat = "sent", !.due = n]
  <2>0. n \in Nat /\ n <= ControlTimeout /\ n + AbortGrace <= task[a].deadline
    BY <1>2, Times DEF Least, Tasks
  <2>1. SameTask(task[a], t) /\ t.heart = task[a].heart /\ t.beat = "sent" /\ t.due = n
        /\ t.pump = task[a].pump /\ t.deadline = task[a].deadline /\ t.fails = task[a].fails
    <3> DEFINE d == [task[a] EXCEPT !.beat = "sent"]
    <3>1. SameTask(task[a], d) /\ d.heart = task[a].heart /\ d.beat = "sent"
          /\ d.pump = task[a].pump /\ d.deadline = task[a].deadline /\ d.fails = task[a].fails
      BY DEF SameTask, Tasks
    <3>2. t = [d EXCEPT !.due = n]  OBVIOUS
    <3> HIDE DEF n, d, t
    <3> QED  BY <2>0, <3>1, <3>2 DEF SameTask, Tasks
  <2>2. Turns(a, t, child[a]) /\ active' = active
    BY <1>2 DEF Turns, GatewayInv, Types
  <2> HIDE DEF t, n
  <2>3. InStep(t, child[a], stopped)  BY <2>1 DEF InStep, SameTask
  <2>4. OnTime(t)
    <3>1. t.fails = 0 => FirstTry(t)
      <4> SUFFICES ASSUME t.fails = 0 PROVE FirstTry(t)  OBVIOUS
      <4>1. PICK k \in (Lease - ControlTimeout)..Lease : task[a].deadline - 0 = k - NextBeat(k)
        BY <2>1 DEF OnTime, FirstTry
      <4>2. k - NextBeat(k) - ControlTimeout + n <= task[a].deadline
        BY <4>1, <2>0, FreshBeat, NextBeatType, Times DEF Tasks
      <4>3. task[a].deadline <= k - NextBeat(k)
        BY <4>1, FreshBeat, NextBeatType, Times DEF Tasks
      <4> QED  BY <4>2, <4>3, <2>1 DEF FirstTry
    <3> QED  BY <3>1, <2>0, <2>1 DEF OnTime, SameTask, OnItsWay
  <2>5. UnderLease(a, t, child[a], RunOf(a))  BY <2>1 DEF UnderLease, SameTask
  <2>6. task[a].pc \in AtWork  BY DEF InStep, AtWork, Tasks
  <2> QED  BY <2>1, <2>2, <2>3, <2>4, <2>5, <2>6, Turn DEF Fits, SameTask
<1> QED  BY <1>1, <1>2

LEMMA BeatAnsweredGood ==
  ASSUME GatewayInv, NEW a \in Attempts, BeatAnswered(a)
  PROVE  GatewayInv'
<1> USE Now
<1> DEFINE s == [task[a] EXCEPT !.fails = 0, !.deadline = task[a].grant]
<1>1. SameTask(task[a], s) /\ s.fails = 0 /\ s.deadline = task[a].grant
      /\ s.heart = task[a].heart /\ s.pump = task[a].pump
  <2> DEFINE d == [task[a] EXCEPT !.fails = 0]
  <2>1. SameTask(task[a], d) /\ d.fails = 0 /\ d.heart = task[a].heart /\ d.pump = task[a].pump
    BY DEF SameTask, Tasks
  <2>2. s = [d EXCEPT !.deadline = task[a].grant]  OBVIOUS
  <2>3. task[a].grant \in 0..Lease  BY DEF Tasks
  <2> HIDE DEF d, s
  <2> QED  BY <2>1, <2>2, <2>3 DEF SameTask, Tasks
<1>2. task[a].beat \in {"ok", "cancel"} /\ task[a].heart = "live"
  BY DEF BeatAnswered, InStep
<1>3. task[a].grant \in (Lease - ControlTimeout)..Lease
  BY <1>2, Times DEF OnTime, Tasks
<1>4. UNCHANGED <<gwRun, claim, claims, active, stopped>>  BY DEF BeatAnswered
<1>5. \/ task[a].beat = "ok" /\ task' = [task EXCEPT ![a] = Scheduled(s)] /\ UNCHANGED child
      \/ /\ task[a].beat = "cancel"
         /\ task' = [task EXCEPT ![a] = [NoBeat(s) EXCEPT !.heart = "cancelled"]]
         /\ child' = [child EXCEPT ![a] = Aborted(@)]
  BY DEF BeatAnswered
<1> HIDE DEF s
<1>6. CASE task[a].beat = "ok" /\ task' = [task EXCEPT ![a] = Scheduled(s)] /\ UNCHANGED child
  <2>1. Held(a, RunOf(a)) => s.deadline <= RunOf(a).left  BY <1>1, <1>6 DEF UnderLease
  <2>2. s.deadline - NextBeat(s.deadline) >= AbortGrace  BY <1>1, <1>3, FreshBeat
  <2>3. s.heart = "live" /\ s.fails <= 1 /\ s.deadline \in (Lease - ControlTimeout)..Lease
        /\ task[a].beat # "off"
    BY <1>1, <1>2, <1>3
  <2>4. UNCHANGED <<child, gwRun, claim, claims, active, stopped>>  BY <1>4, <1>6
  <2> QED  BY <1>1, <1>6, <2>1, <2>2, <2>3, <2>4, ScheduledGood
<1>7. CASE /\ task[a].beat = "cancel"
           /\ task' = [task EXCEPT ![a] = [NoBeat(s) EXCEPT !.heart = "cancelled"]]
           /\ child' = [child EXCEPT ![a] = Aborted(@)]
  <2> DEFINE t == [NoBeat(s) EXCEPT !.heart = "cancelled"]
             c == Aborted(child[a])
  <2>1. SameTask(task[a], t) /\ t.heart = "cancelled" /\ t.beat = "off" /\ t.pump = task[a].pump
    <3> DEFINE d == NoBeat(s)
    <3>1. SameTask(task[a], d) /\ d.beat = "off" /\ d.pump = task[a].pump
      BY <1>1, NoBeatIs DEF SameTask
    <3>2. t = [d EXCEPT !.heart = "cancelled"]  OBVIOUS
    <3> HIDE DEF d, t
    <3> QED  BY <3>1, <3>2 DEF SameTask, Tasks
  <2>2. Turns(a, t, c)  BY <1>4, <1>7 DEF Turns
  <2> HIDE DEF t
  <2>3. InStep(t, c, stopped)  BY <2>1, <1>2, AbortedIs, Alive DEF InStep, SameTask
  <2>4. OnTime(t)  BY <2>1 DEF OnTime, SameTask, OnItsWay
  <2>5. UnderLease(a, t, c, RunOf(a))  BY <2>1, <1>7, AbortFits DEF UnderLease
  <2>6. task[a].pc \in AtWork  BY <1>2 DEF InStep, AtWork, Tasks
  <2> QED  BY <1>4, <2>1, <2>2, <2>3, <2>4, <2>5, <2>6, AbortedIs, Turn DEF Fits, SameTask
<1> QED  BY <1>5, <1>6, <1>7

LEMMA BeatFailsGood ==
  ASSUME GatewayInv, NEW a \in Attempts, BeatFails(a)
  PROVE  GatewayInv'
<1> USE Now DEF BeatFails
<1> DEFINE s == [task[a] EXCEPT !.fails = @ + 1]
<1>0. task[a].beat \in OnItsWay /\ task[a].beat # "off" /\ task[a].heart = "live" /\ task[a].fails \in 0..1
  BY DEF InStep, OnItsWay, Tasks
<1>1. SameTask(task[a], s) /\ s.fails = task[a].fails + 1 /\ s.deadline = task[a].deadline
      /\ s.heart = task[a].heart /\ s.pump = task[a].pump
  BY <1>0 DEF SameTask, Tasks
<1>2. UNCHANGED <<gwRun, claim, claims, active, stopped>>  OBVIOUS
<1>3. IF GivesUp(s) THEN MarkLost(a, s)
      ELSE task' = [task EXCEPT ![a] = Scheduled(s)] /\ UNCHANGED child
  OBVIOUS
<1> HIDE DEF s
<1>4. CASE GivesUp(s)  BY <1>0, <1>1, <1>2, <1>3, <1>4, LostGood
<1>5. CASE ~ GivesUp(s)
  <2>1. task[a].fails = 0 /\ s.fails = 1 /\ s.deadline > AbortGrace
    BY <1>0, <1>1, <1>5, Times DEF GivesUp, Tasks
  <2>2. PICK k \in (Lease - ControlTimeout)..Lease :
           /\ k - NextBeat(k) - ControlTimeout + task[a].due <= task[a].deadline
           /\ task[a].deadline <= k - NextBeat(k)
    BY <2>1, <1>0 DEF OnTime, FirstTry, OnItsWay
  <2>3. k - NextBeat(k) - ControlTimeout <= s.deadline /\ s.deadline \in Nat
        /\ s.deadline <= k - NextBeat(k)
    BY <1>1, <2>2, FreshBeat, NextBeatType, Times DEF Tasks
  <2>4. s.deadline - NextBeat(s.deadline) >= AbortGrace  BY <2>1, <2>3, SecondBeat
  <2>5. Held(a, RunOf(a)) => s.deadline <= RunOf(a).left  BY <1>0, <1>1 DEF UnderLease
  <2> QED  BY <1>0, <1>1, <1>2, <1>3, <1>5, <2>1, <2>4, <2>5, ScheduledGood
<1> QED  BY <1>4, <1>5

LEMMA PumpBreaksGood ==
  ASSUME GatewayInv, NEW a \in Attempts, PumpBreaks(a)
  PROVE  GatewayInv'
<1> USE Now DEF PumpBreaks
<1> DEFINE t == [task[a] EXCEPT !.pump = "broken"]
           c == Aborted(child[a])
<1>1. SameTask(task[a], t) /\ t.heart = task[a].heart /\ t.beat = task[a].beat
      /\ t.pump = "broken" /\ t.fails = task[a].fails /\ t.due = task[a].due
      /\ t.deadline = task[a].deadline /\ t.grant = task[a].grant
  BY DEF SameTask, Tasks
<1>2. Turns(a, t, c)  BY DEF Turns, GatewayInv, Types
<1> HIDE DEF t
<1>3. InStep(t, c, stopped)  BY <1>1, AbortedIs, Alive DEF InStep, SameTask
<1>4. OnTime(t)  BY <1>1 DEF OnTime, SameTask, FirstTry
<1>5. UnderLease(a, t, c, RunOf(a))
  BY <1>1, AbortedIs, Alive DEF UnderLease, SameTask, Held, Rows
<1> QED  BY <1>1, <1>2, <1>3, <1>4, <1>5, AbortedIs, Turn DEF Fits, SameTask, AtWork, Placed

-----------------------------------------------------------------------------
(***************************************************************************)
(* Steps of the rows.  An attempt that neither holds nor is given the      *)
(* lease of a run has nothing to lose when the row changes.                *)
(***************************************************************************)
LEMMA Bystander ==
  ASSUME GatewayInv, NEW b \in Attempts, NEW row \in Rows,
         RunOf(b).holder # b, row.holder # b, RunOf(b).cancel => row.cancel
  PROVE  UnderLease(b, task[b], child[b], row)
BY Now DEF UnderLease, Held

LEMMA HolderTurn ==
  ASSUME GatewayInv, NEW a \in Attempts, NEW t, NEW row \in Rows, HoldsLease(a),
         row.holder = a, RunOf(a).cancel => row.cancel,
         SameTask(task[a], t) \/ (t \in Tasks /\ t.run = task[a].run /\ t.pc \in AtWork),
         task[a].pc \in AtWork, task' = [task EXCEPT ![a] = t],
         gwRun' = [gwRun EXCEPT ![task[a].run] = row],
         UNCHANGED <<child, claim, claims, active, stopped>>,
         InStep(t, child[a], stopped), OnTime(t), UnderLease(a, t, child[a], row)
  PROVE  GatewayInv'
<1> USE Now DEF HoldsLease
<1> DEFINE r == task[a].run
<1>0. r \in Runs /\ RunOf(a) = gwRun[r] /\ gwRun[r].holder = a /\ t \in Tasks /\ t.run = r
      /\ t.pc \in AtWork
  BY DEF RunOf, SameTask
<1>1. gwRun' \in [Runs -> Rows] /\ task' \in [Attempts -> Tasks]
      /\ gwRun'[r] = row /\ \A q \in Runs \ {r} : gwRun'[q] = gwRun[q]
  BY <1>0 DEF GatewayInv, Types
<1>2. task'[a] = t /\ \A b \in Attempts \ {a} : task'[b] = task[b]
  BY DEF GatewayInv, Types
<1> HIDE DEF r
<1>3. ASSUME NEW b \in Attempts PROVE Attempted(b)'
  <2>1. CASE b = a  BY <2>1, <1>0, <1>1, <1>2 DEF Attempted, RunOf
  <2>2. CASE b # a /\ task[b].run = r
    <3>1. UnderLease(b, task[b], child[b], row)  BY <1>0, <2>2, Bystander DEF RunOf
    <3> QED  BY <3>1, <2>2, <1>1, <1>2 DEF Attempted, RunOf
  <2>3. CASE b # a /\ task[b].run # r
    BY <2>3, <1>1, <1>2 DEF Attempted, RunOf
  <2> QED  BY <2>1, <2>2, <2>3
<1>4. Numbered'
  BY <1>0, <1>1, <1>2 DEF Numbered, GatewayInv, AtWork
<1>5. PlacesAreCounted'
  <2>1. {b \in Attempts : Placed(b)}' = {b \in Attempts : Placed(b)}
    BY <1>0, <1>2 DEF Placed, AtWork
  <2> QED  BY <2>1 DEF PlacesAreCounted, GatewayInv
<1>6. claim.state = "answer" => Answered'
  <2> SUFFICES ASSUME claim.state = "answer" PROVE Answered'  OBVIOUS
  <2>1. Answered  BY DEF GatewayInv, Claimed
  <2>2. claims # a  BY <2>1 DEF Answered, AtWork
  <2>3. PICK q \in Runs : Held(claims, gwRun[q])
                          /\ Lease - ControlTimeout + claim.wait <= gwRun[q].left
    BY <2>1 DEF Answered
  <2>4. q # r  BY <2>2, <2>3, <1>0 DEF Held
  <2>5. gwRun'[q] = gwRun[q] /\ claims' = claims /\ claim' = claim  BY <2>4, <1>1
  <2>6. task'[claims] = task[claims]  BY <2>1, <2>2, <1>2 DEF Answered
  <2> QED  BY <2>1, <2>3, <2>5, <2>6 DEF Answered
<1>7. Claimed'  BY <1>6 DEF Claimed, GatewayInv
<1> QED  BY <1>1, <1>3, <1>4, <1>5, <1>7 DEF GatewayInv, Types

LEMMA LeaseIsRenewedGood ==
  ASSUME GatewayInv, NEW a \in Attempts, LeaseIsRenewed(a)
  PROVE  GatewayInv'
<1> USE Now DEF LeaseIsRenewed
<1>0. task[a].pc \in AtWork /\ task[a].heart = "live" /\ task[a].beat = "sent"
  BY DEF InStep, AtWork, Tasks
<1>1. CASE ~ HoldsLease(a)
  <2> DEFINE t == [task[a] EXCEPT !.beat = "refused"]
  <2>1. SameTask(task[a], t) /\ t.heart = task[a].heart /\ t.beat = "refused"
        /\ t.pump = task[a].pump /\ t.fails = task[a].fails /\ t.due = task[a].due
        /\ t.deadline = task[a].deadline /\ t.grant = task[a].grant
    BY DEF SameTask, Tasks
  <2>2. Turns(a, t, child[a]) /\ active' = active
    BY <1>1 DEF Turns, GatewayInv, Types
  <2> HIDE DEF t
  <2>3. InStep(t, child[a], stopped)  BY <2>1, <1>0 DEF InStep, SameTask
  <2>4. OnTime(t)  BY <2>1, <1>0 DEF OnTime, SameTask, FirstTry, OnItsWay
  <2>5. UnderLease(a, t, child[a], RunOf(a))  BY <2>1, <1>0 DEF UnderLease, SameTask
  <2> QED  BY <2>1, <2>2, <2>3, <2>4, <2>5, <1>0, Turn DEF Fits, SameTask
<1>2. CASE HoldsLease(a)
  <2> DEFINE b == IF RunOf(a).cancel THEN "cancel" ELSE "ok"
             s == [task[a] EXCEPT !.beat = b]
             t == [s EXCEPT !.grant = Lease]
             row == [RunOf(a) EXCEPT !.left = Lease]
  <2>1. SameTask(task[a], s) /\ s.heart = task[a].heart /\ s.beat = b
        /\ s.pump = task[a].pump /\ s.fails = task[a].fails /\ s.due = task[a].due
        /\ s.deadline = task[a].deadline
    BY DEF SameTask, Tasks
  <2>2. /\ SameTask(task[a], t) /\ t.heart = task[a].heart /\ t.beat = b
        /\ t.pump = task[a].pump /\ t.fails = task[a].fails /\ t.due = task[a].due
        /\ t.deadline = task[a].deadline /\ t.grant = Lease
    <3> HIDE DEF s, b
    <3> QED  BY <2>1, Times DEF SameTask, Tasks
  <2>3. row \in Rows /\ row.holder = a /\ row.cancel = RunOf(a).cancel /\ row.status = "running"
        /\ row.left = Lease
    BY <1>2, Times DEF Rows, HoldsLease
  <2>4. task' = [task EXCEPT ![a] = t] /\ gwRun' = [gwRun EXCEPT ![task[a].run] = row]
    BY <1>2 DEF GatewayInv, Types, RunOf
  <2>5. b \in {"ok", "cancel"} /\ (b = "cancel" => RunOf(a).cancel)  OBVIOUS
  <2> HIDE DEF t, s, row, b
  <2>6. InStep(t, child[a], stopped)  BY <2>2, <2>5, <1>0 DEF InStep, SameTask
  <2>7. OnTime(t)  BY <2>2, <2>5, <1>0, Times DEF OnTime, SameTask, FirstTry, OnItsWay, Tasks
  <2>8. UnderLease(a, t, child[a], row)
    <3>1. t.deadline <= Lease /\ t.grant <= Lease /\ child[a].kill <= Lease
          /\ (t.pc = "init" => t.wait + AbortGrace <= Lease)
      BY <2>2, Times DEF SameTask, Tasks, Children, OnTime
    <3>2. child[a].state \in {"alive", "term"} => RunOf(a).holder = a
      BY DEF UnderLease, Held
    <3> QED  BY <3>1, <3>2, <2>2, <2>3, <2>5, <1>2 DEF UnderLease, Held, SameTask
  <2> QED  BY <2>2, <2>3, <2>4, <2>6, <2>7, <2>8, <1>0, <1>2, HolderTurn
<1> QED  BY <1>1, <1>2

LEMMA OutcomeIsTakenGood ==
  ASSUME GatewayInv, NEW a \in Attempts, OutcomeIsTaken(a)
  PROVE  GatewayInv'
<1> USE Now
<1> DEFINE outcome == IF RunOf(a).cancel THEN "cancelled" ELSE task[a].plan
<1>0. task[a].pc = "report" /\ task[a].beat = "off" /\ child[a].state = "gone"
      /\ UNCHANGED <<claim, claims, child, active, stopped>>
  BY DEF OutcomeIsTaken, InStep
<1>1. \/ task' = [task EXCEPT ![a].word = "refused"] /\ UNCHANGED gwRun
      \/ /\ HoldsLease(a)
         /\ task' = [task EXCEPT ![a].word = "taken"]
         /\ gwRun' = [gwRun EXCEPT ![task[a].run].status = outcome, ![task[a].run].left = 0]
  BY DEF OutcomeIsTaken, RunOf
<1>2. ASSUME NEW w \in {"refused", "taken"}, NEW row \in Rows,
             row.cancel = RunOf(a).cancel, NEW t, t = [task[a] EXCEPT !.word = w]
      PROVE  /\ t \in Tasks /\ t.run = task[a].run /\ t.pc = "report"
             /\ InStep(t, child[a], stopped) /\ OnTime(t) /\ UnderLease(a, t, child[a], row)
  <2>1. t \in Tasks /\ t.run = task[a].run /\ t.pc = "report" /\ t.beat = "off"
        /\ t.heart = task[a].heart /\ t.plan = task[a].plan /\ t.pump = task[a].pump
        /\ t.fails = task[a].fails
    BY <1>0, <1>2 DEF Tasks
  <2>2. InStep(t, child[a], stopped)  BY <2>1, <1>0 DEF InStep
  <2>3. OnTime(t)  BY <2>1 DEF OnTime, OnItsWay
  <2>4. UnderLease(a, t, child[a], row)  BY <2>1, <1>0, <1>2 DEF UnderLease
  <2> QED  BY <2>1, <2>2, <2>3, <2>4
<1>3. CASE task' = [task EXCEPT ![a].word = "refused"] /\ UNCHANGED gwRun
  <2> DEFINE t == [task[a] EXCEPT !.word = "refused"]
  <2>1. Turns(a, t, child[a])  BY <1>0, <1>3 DEF Turns, GatewayInv, Types
  <2>2. t \in Tasks /\ t.run = task[a].run /\ t.pc = "report"
        /\ InStep(t, child[a], stopped) /\ OnTime(t) /\ UnderLease(a, t, child[a], RunOf(a))
    BY <1>2
  <2> HIDE DEF t
  <2> QED  BY <2>1, <2>2, <1>0, Turn DEF Fits, AtWork
<1>4. CASE /\ HoldsLease(a)
           /\ task' = [task EXCEPT ![a].word = "taken"]
           /\ gwRun' = [gwRun EXCEPT ![task[a].run].status = outcome, ![task[a].run].left = 0]
  <2> DEFINE t == [task[a] EXCEPT !.word = "taken"]
             d == [RunOf(a) EXCEPT !.status = outcome]
             row == [d EXCEPT !.left = 0]
  <2>0. outcome \in {"cancelled", "failed", "completed"}
    BY <1>0 DEF InStep, Tasks
  <2>1. row \in Rows /\ row.cancel = RunOf(a).cancel /\ row.holder = RunOf(a).holder
    <3>1. d \in Rows /\ d.cancel = RunOf(a).cancel /\ d.holder = RunOf(a).holder
      <4> HIDE DEF outcome
      <4> QED  BY <2>0 DEF Rows
    <3> HIDE DEF d
    <3> QED  BY <3>1, Times DEF Rows
  <2>2. task' = [task EXCEPT ![a] = t] /\ gwRun' = [gwRun EXCEPT ![task[a].run] = row]
    <3> HIDE DEF outcome
    <3> QED  BY <1>4 DEF GatewayInv, Types, RunOf
  <2> HIDE DEF row
  <2>3. t \in Tasks /\ t.run = task[a].run /\ t.pc = "report"
        /\ InStep(t, child[a], stopped) /\ OnTime(t) /\ UnderLease(a, t, child[a], row)
    BY <1>2, <2>1
  <2> HIDE DEF t
  <2>4. row.holder = a  BY <2>1, <1>4 DEF HoldsLease
  <2> QED  BY <1>0, <1>4, <2>1, <2>2, <2>3, <2>4, HolderTurn DEF AtWork
<1> QED  BY <1>1, <1>3, <1>4

LEMMA ChildAsksGood ==
  ASSUME GatewayInv, NEW a \in Attempts, ChildAsks(a)
  PROVE  GatewayInv'
<1> USE Now DEF ChildAsks
<1> DEFINE row == [RunOf(a) EXCEPT !.status = "clarification", !.left = 0]
<1>1. row \in Rows /\ row.cancel = RunOf(a).cancel /\ row.holder = RunOf(a).holder
      /\ row.status = "clarification"
  <2> DEFINE d == [RunOf(a) EXCEPT !.status = "clarification"]
  <2>1. d \in Rows /\ d.cancel = RunOf(a).cancel /\ d.holder = RunOf(a).holder
        /\ d.status = "clarification"
    BY DEF Rows
  <2>2. row = [d EXCEPT !.left = 0]  OBVIOUS
  <2> HIDE DEF d, row
  <2> QED  BY <2>1, <2>2, Times DEF Rows
<1>2. gwRun' = [gwRun EXCEPT ![task[a].run] = row]  BY DEF GatewayInv, Types, RunOf
<1>3. task' = [task EXCEPT ![a] = task[a]]  BY DEF GatewayInv, Types
<1> HIDE DEF row
<1>4. task[a].pc \in AtWork /\ SameTask(task[a], task[a])
  BY Alive DEF AtWork, SameTask
<1>5. row.holder = a  BY <1>1 DEF HoldsLease
<1>6. UnderLease(a, task[a], child[a], row)
  BY <1>1, <1>5, Alive DEF UnderLease, Held
<1> QED  BY <1>1, <1>2, <1>3, <1>4, <1>5, <1>6, HolderTurn

-----------------------------------------------------------------------------
(***************************************************************************)
(* The backend by itself: the row of a run changes, and no task.           *)
(***************************************************************************)
LEMMA BackendTurn ==
  ASSUME GatewayInv, NEW r \in Runs, NEW row \in Rows,
         gwRun' = [gwRun EXCEPT ![r] = row],
         UNCHANGED <<claim, claims, task, child, active, stopped>>,
         row.holder = gwRun[r].holder,
         \A b \in Attempts : task[b].run = r => UnderLease(b, task[b], child[b], row),
         claim.state = "answer" /\ Held(claims, gwRun[r]) =>
           Held(claims, row) /\ row.left = gwRun[r].left
  PROVE  GatewayInv'
<1>1. gwRun' \in [Runs -> Rows] /\ gwRun'[r] = row
      /\ \A q \in Runs \ {r} : gwRun'[q] = gwRun[q]
  BY DEF GatewayInv, Types
<1>2. ASSUME NEW b \in Attempts PROVE Attempted(b)'
  <2>1. task[b].run \in Runs  BY Now
  <2> QED  BY <2>1, <1>1, Now DEF Attempted, RunOf
<1>3. Numbered'  BY <1>1 DEF Numbered, GatewayInv
<1>4. claim.state = "answer" => Answered'
  <2> SUFFICES ASSUME claim.state = "answer" PROVE Answered'  OBVIOUS
  <2>1. Answered  BY DEF GatewayInv, Claimed
  <2>2. PICK q \in Runs : Held(claims, gwRun[q])
                          /\ Lease - ControlTimeout + claim.wait <= gwRun[q].left
    BY <2>1 DEF Answered
  <2>3. Held(claims, gwRun'[q]) /\ gwRun'[q].left = gwRun[q].left
    BY <2>2, <1>1
  <2> QED  BY <2>1, <2>2, <2>3 DEF Answered
<1>5. PlacesAreCounted'  BY DEF GatewayInv, PlacesAreCounted, Placed
<1> QED  BY <1>1, <1>2, <1>3, <1>4, <1>5 DEF GatewayInv, Types, Claimed

LEMMA UserCancelsGood ==
  ASSUME GatewayInv, NEW r \in Runs, UserCancels(r)
  PROVE  GatewayInv'
<1> USE DEF UserCancels
<1> DEFINE row == [gwRun[r] EXCEPT !.cancel = TRUE]
<1>1. gwRun[r] \in Rows  BY DEF GatewayInv, Types
<1>2. row \in Rows /\ row.holder = gwRun[r].holder /\ row.status = gwRun[r].status
      /\ row.left = gwRun[r].left /\ row.cancel
  BY <1>1 DEF Rows
<1>3. gwRun' = [gwRun EXCEPT ![r] = row]  BY DEF GatewayInv, Types
<1> HIDE DEF row
<1>4. \A b \in Attempts : task[b].run = r => UnderLease(b, task[b], child[b], row)
  BY <1>2, Now DEF UnderLease, Held, RunOf
<1> QED  BY <1>2, <1>3, <1>4, BackendTurn DEF Held

(* A run whose lease is over has no child, once every timer has gone off. *)
LEMMA NoneLeft ==
  ASSUME GatewayInv, ~ TimersDue, NEW b \in Attempts,
         RunOf(b).status = "running", RunOf(b).left = 0
  PROVE  /\ child[b].state \notin {"alive", "term"} /\ task[b].pc # "init"
<1> USE Now
<1>1. task[b].pc # "init"  BY Times DEF UnderLease, Held, Tasks
<1>2. child[b].state # "alive"  BY Alive, Times
<1>3. child[b].state # "term"
  BY Times DEF UnderLease, Held, TimersDue, Children
<1> QED  BY <1>1, <1>2, <1>3

LEMMA RecoversGood ==
  ASSUME GatewayInv, NEW r \in Runs, Recovers(r)
  PROVE  GatewayInv'
<1> USE DEF Recovers
<1>1. PICK s \in {"cancelled", "completed", "failed", "queued"} :
        gwRun' = [gwRun EXCEPT ![r].status = s, ![r].retried = @ \/ s = "queued"]
  OBVIOUS
<1> DEFINE d == [gwRun[r] EXCEPT !.status = s]
           row == [d EXCEPT !.retried = gwRun[r].retried \/ s = "queued"]
<1>2. gwRun[r] \in Rows  BY DEF GatewayInv, Types
<1>3. row \in Rows /\ row.holder = gwRun[r].holder /\ row.status = s
      /\ row.left = gwRun[r].left /\ row.cancel = gwRun[r].cancel
  <2>1. d \in Rows /\ d.holder = gwRun[r].holder /\ d.status = s
      /\ d.left = gwRun[r].left /\ d.cancel = gwRun[r].cancel /\ d.retried = gwRun[r].retried
    BY <1>2 DEF Rows
  <2> HIDE DEF d
  <2>2. (gwRun[r].retried \/ s = "queued") \in BOOLEAN  BY <1>2 DEF Rows
  <2> QED  BY <2>1, <2>2 DEF Rows
<1>4. gwRun' = [gwRun EXCEPT ![r] = row]  BY <1>1 DEF GatewayInv, Types
<1> HIDE DEF row, d
<1>5. \A b \in Attempts : task[b].run = r => UnderLease(b, task[b], child[b], row)
  BY <1>3, Now, NoneLeft DEF UnderLease, Held, RunOf
<1>6. ~ (claim.state = "answer" /\ Held(claims, gwRun[r]))
  <2> SUFFICES ASSUME claim.state = "answer", Held(claims, gwRun[r]) PROVE FALSE  OBVIOUS
  <2>1. PICK q \in Runs : Held(claims, gwRun[q]) /\ claims \in Attempts
                          /\ Lease - ControlTimeout + claim.wait <= gwRun[q].left
    BY DEF GatewayInv, Claimed, Answered
  <2>2. q = r  BY <2>1, Times DEF Held, GatewayInv, Numbered, Attempts
  <2>3. claim.wait \in Nat  BY Times DEF GatewayInv, Types
  <2> QED  BY <2>1, <2>2, <2>3, Times
<1> QED  BY <1>3, <1>4, <1>5, <1>6, BackendTurn

-----------------------------------------------------------------------------
(***************************************************************************)
(* Claims, and the places they take.                                       *)
(***************************************************************************)
LEMMA RunIsClaimedGood ==
  ASSUME GatewayInv, NEW r \in Runs, RunIsClaimed(r)
  PROVE  GatewayInv'
<1> USE DEF RunIsClaimed
<1> DEFINE n == claims + 1
           d == [gwRun[r] EXCEPT !.status = "running", !.holder = n]
           row == [d EXCEPT !.left = Lease]
<1>1. n \in Attempts /\ claims \in Nat /\ n = claims + 1
  BY Times DEF GatewayInv, Types, Claimed, Attempts
<1>2. gwRun[r] \in Rows  BY DEF GatewayInv, Types
<1> HIDE DEF n
<1>3. d \in Rows /\ d.holder = n /\ d.status = "running" /\ d.cancel = gwRun[r].cancel
  <2> DEFINE e == [gwRun[r] EXCEPT !.status = "running"]
  <2>1. e \in Rows /\ e.status = "running" /\ e.cancel = gwRun[r].cancel  BY <1>2 DEF Rows
  <2>2. d = [e EXCEPT !.holder = n]  OBVIOUS
  <2>3. n \in 0..MaxClaims  BY <1>1, Times DEF Attempts
  <2> HIDE DEF e, d
  <2> QED  BY <2>1, <2>2, <2>3 DEF Rows
<1> HIDE DEF d
<1>4. row \in Rows /\ row.holder = n /\ row.status = "running" /\ row.left = Lease
      /\ row.cancel = gwRun[r].cancel
  BY <1>3, Times DEF Rows
<1>5. gwRun' = [gwRun EXCEPT ![r] = row]  BY DEF GatewayInv, Types, n, d
<1> HIDE DEF row
<1>6. gwRun' \in [Runs -> Rows] /\ gwRun'[r] = row
      /\ \A q \in Runs \ {r} : gwRun'[q] = gwRun[q]
  BY ZenonT(30), <1>4, <1>5 DEF GatewayInv, Types
<1>7. claims' = n /\ claim' = [claim EXCEPT !.state = "answer", !.of = n]  BY DEF n
<1>8. claim'.state = "answer" /\ claim'.of = n /\ claim'.wait = claim.wait
      /\ claim' \in [state : {"none", "sent", "answer"}, of : 0..MaxClaims, wait : 0..ControlTimeout]
  <2> DEFINE e == [claim EXCEPT !.state = "answer"]
             Claims == [state : {"none", "sent", "answer"}, of : 0..MaxClaims, wait : 0..ControlTimeout]
  <2>1. e \in Claims /\ e.state = "answer" /\ e.wait = claim.wait  BY DEF GatewayInv, Types
  <2>2. claim' = [e EXCEPT !.of = n]  BY <1>7
  <2>3. n \in 0..MaxClaims  BY <1>1, Times DEF Attempts
  <2> HIDE DEF e
  <2> QED  BY <2>1, <2>2, <2>3
<1>9. task[n].pc = "absent"  BY <1>1 DEF GatewayInv, Numbered
<1>10. ASSUME NEW b \in Attempts PROVE Attempted(b)'
  <2>1. CASE task[b].run = r
    <3>1. UnderLease(b, task[b], child[b], row)
      BY <2>1, <1>4, <1>9, Now DEF UnderLease, InStep, Held, RunOf
    <3> QED  BY <3>1, <2>1, <1>6, Now DEF Attempted, RunOf
  <2>2. CASE task[b].run # r  BY <2>2, <1>6, Now DEF Attempted, RunOf
  <2> QED  BY <2>1, <2>2
<1>11. Numbered'
  <2>1. \A q \in Runs : gwRun[q].holder \in Nat /\ gwRun[q].holder <= claims
    BY DEF GatewayInv, Types, Rows, Numbered
  <2>2. gwRun'[r].holder = n /\ \A q \in Runs \ {r} : gwRun'[q].holder = gwRun[q].holder
    BY <1>4, <1>6
  <2>3. \A q \in Runs : gwRun'[q].holder <= claims'
    <3> SUFFICES ASSUME NEW q \in Runs PROVE gwRun'[q].holder <= n  BY <1>7
    <3>1. CASE q = r  BY <3>1, <1>1, <2>2
    <3>2. CASE q # r
      <4>1. gwRun'[q].holder \in Nat /\ gwRun'[q].holder <= claims  BY <3>2, <2>1, <2>2
      <4> QED  BY <4>1, <1>1
    <3> QED  BY <3>1, <3>2
  <2>4. ASSUME NEW q \in Runs, NEW s \in Runs, gwRun'[q].holder = gwRun'[s].holder,
               gwRun'[q].holder # 0
        PROVE q = s
    <3>1. \A p \in Runs \ {r} : gwRun'[p].holder \in Nat /\ gwRun'[p].holder <= claims
      BY <2>1, <2>2
    <3>2. \A p \in Runs \ {r} : gwRun'[p].holder # n
      <4> SUFFICES ASSUME NEW p \in Runs \ {r} PROVE gwRun'[p].holder # n  OBVIOUS
      <4> DEFINE h == gwRun'[p].holder
      <4>1. h \in Nat /\ h <= claims  BY <3>1
      <4> HIDE DEF h
      <4>2. h # n  BY <4>1, <1>1
      <4> QED  BY <4>2 DEF h
    <3>3. CASE q = r  BY <3>2, <3>3, <2>2, <2>4
    <3>4. CASE s = r  BY <3>2, <3>4, <2>2, <2>4
    <3>5. CASE q # r /\ s # r  BY <3>5, <2>2, <2>4 DEF GatewayInv, Numbered
    <3> QED  BY <3>3, <3>4, <3>5
  <2>5. \A a \in Attempts : task'[a].pc # "absent" => a <= claims'
    BY <1>1, <1>7 DEF GatewayInv, Numbered, Attempts
  <2> QED  BY <2>3, <2>4, <2>5 DEF Numbered
<1>12. Claimed'
  <2>0. claim'.wait \in 0..ControlTimeout  BY <1>8
  <2>1. Held(n, gwRun'[r]) /\ Lease - ControlTimeout + claim'.wait <= gwRun'[r].left
    <3>1. Lease - ControlTimeout + claim'.wait <= Lease  BY <2>0, Times
    <3> QED  BY <3>1, <1>4, <1>6 DEF Held
  <2>2. Answered'  BY <2>1, <1>1, <1>7, <1>8, <1>9 DEF Answered, Attempts
  <2> QED  BY <2>2, <1>8 DEF Claimed, GatewayInv
<1>13. PlacesAreCounted'  BY DEF GatewayInv, PlacesAreCounted, Placed
<1>14. n \in 0..MaxClaims  BY <1>1, Times DEF Attempts
<1> QED  BY <1>6, <1>7, <1>8, <1>10, <1>11, <1>12, <1>13, <1>14 DEF GatewayInv, Types

LEMMA NoTaskIs ==
  ASSUME NEW r \in Runs, NEW pc \in {"absent", "over"}
  PROVE  /\ NoTask(r, pc) \in Tasks /\ NoTask(r, pc).run = r /\ NoTask(r, pc).pc = pc
         /\ NoTask(r, pc).beat = "off" /\ NoTask(r, pc).heart = "live"
         /\ NoTask(r, pc).pump = "open" /\ NoTask(r, pc).plan = "none"
         /\ NoTask(r, pc).fails = 0
<1> DEFINE t == Task(r, pc, 0, 0)
           d == [t EXCEPT !.beat = "off"]
<1>1. t \in Tasks /\ t.run = r /\ t.pc = pc /\ t.heart = "live" /\ t.pump = "open"
      /\ t.plan = "none" /\ t.fails = 0
  BY Times DEF Task, Tasks
<1> HIDE DEF t
<1>2. d \in Tasks /\ d.run = r /\ d.pc = pc /\ d.heart = "live" /\ d.pump = "open"
      /\ d.plan = "none" /\ d.fails = 0 /\ d.beat = "off"
  BY <1>1 DEF Tasks
<1>3. NoTask(r, pc) = [d EXCEPT !.wait = 0]  BY DEF NoTask, t
<1> HIDE DEF d
<1> QED  BY <1>2, <1>3 DEF Tasks

LEMMA NoChildIs ==
  /\ NoChild \in Children /\ NoChild.state = "none" /\ ~ NoChild.dropped /\ ~ NoChild.unsent
  /\ [NoChild EXCEPT !.state = "gone"] \in Children
  /\ [NoChild EXCEPT !.state = "gone"].state = "gone"
  /\ ~ [NoChild EXCEPT !.state = "gone"].dropped
<1>1. NoChild \in Children /\ NoChild.state = "none" /\ ~ NoChild.dropped /\ ~ NoChild.unsent
  BY Times DEF NoChild, Children
<1> QED  BY <1>1 DEF Children

LEMMA LeaveGood ==
  ASSUME GatewayInv, NEW a \in Attempts, Placed(a), TakesLeave(a),
         UNCHANGED <<gwRun, claim, claims, stopped>>
  PROVE  GatewayInv'
<1> DEFINE t == NoTask(task[a].run, "over")
           c == [NoChild EXCEPT !.state = "gone"]
<1>1. /\ t \in Tasks /\ t.run = task[a].run /\ t.pc = "over" /\ t.beat = "off"
      /\ t.heart = "live" /\ t.pump = "open" /\ t.plan = "none" /\ t.fails = 0
  BY NoTaskIs, Now
<1>2. c \in Children /\ c.state = "gone" /\ ~ c.dropped  BY NoChildIs
<1>3. Turns(a, t, c) /\ active' = active - 1  BY DEF Turns, TakesLeave
<1> HIDE DEF t, c
<1>4. InStep(t, c, stopped)  BY <1>1, <1>2 DEF InStep
<1>5. OnTime(t)  BY <1>1 DEF OnTime, OnItsWay
<1>6. UnderLease(a, t, c, RunOf(a))  BY <1>1, <1>2 DEF UnderLease
<1>7. task[a].pc # "absent"  BY DEF Placed
<1>8. /\ Numbered' /\ \A b \in Attempts : Attempted(b)'
      /\ task' \in [Attempts -> Tasks] /\ child' \in [Attempts -> Children]
      /\ claim.state = "answer" => Answered'
  BY <1>1, <1>2, <1>3, <1>4, <1>5, <1>6, <1>7, TurnKeepsOthers DEF Fits
<1>9. {b \in Attempts : Placed(b)}' = {b \in Attempts : Placed(b)} \ {a}
  BY <1>1, <1>3 DEF GatewayInv, Types, Turns, Placed
<1>10. Cardinality({b \in Attempts : Placed(b)}') = active - 1
  BY <1>9, PlacesAreFew, FS_RemoveElement DEF GatewayInv, PlacesAreCounted
<1>11. active \in Int /\ active <= Capacity  BY DEF GatewayInv, Types, PlacesAreCounted
<1>12. PlacesAreCounted'  BY <1>3, <1>10, <1>11, Times DEF PlacesAreCounted
<1>13. Claimed'  BY <1>3, <1>8, <1>11, Times DEF Claimed, GatewayInv
<1> QED  BY <1>3, <1>8, <1>11, <1>12, <1>13 DEF GatewayInv, Types

LEMMA ClaimArrivesGood ==
  ASSUME GatewayInv, ClaimArrives
  PROVE  GatewayInv'
<1> USE DEF ClaimArrives
<1>0. NoClaim \in [state : {"none", "sent", "answer"}, of : 0..MaxClaims, wait : 0..ControlTimeout]
      /\ NoClaim.state = "none"
  BY Times DEF NoClaim
<1>1. CASE stopped
  <2>1. \A b \in Attempts : Attempted(b)'  BY <1>1 DEF GatewayInv, Attempted, RunOf
  <2>2. Numbered'  BY <1>1 DEF GatewayInv, Numbered
  <2>3. PlacesAreCounted'  BY <1>1 DEF GatewayInv, PlacesAreCounted, Placed
  <2> QED  BY <1>0, <1>1, <2>1, <2>2, <2>3 DEF GatewayInv, Types, Claimed
<1>2. CASE ~ stopped
  <2>1. claim.of = claims /\ claims \in Attempts /\ task[claims].pc = "absent"
        /\ active < Capacity
    BY DEF GatewayInv, Claimed, Answered
  <2>2. PICK r \in Runs :
          /\ gwRun[r].holder = claims
          /\ task' = [task EXCEPT ![claims] = Task(r, "init", gwRun[r].left, NextBeat(gwRun[r].left))]
    BY <1>2, <2>1
  <2> DEFINE a == claims
             k == gwRun[r].left
             t == Task(r, "init", k, NextBeat(k))
  <2>3. Held(a, gwRun[r]) /\ k \in (Lease - ControlTimeout)..Lease
    <3>1. PICK q \in Runs : Held(claims, gwRun[q])
                            /\ Lease - ControlTimeout + claim.wait <= gwRun[q].left
      BY DEF GatewayInv, Claimed, Answered
    <3>2. q = r  BY <3>1, <2>1, <2>2, Times DEF Held, GatewayInv, Numbered, Attempts
    <3>3. claim.wait \in Nat /\ gwRun[r].left \in 0..Lease
      BY Times DEF GatewayInv, Types, Rows
    <3> QED  BY <3>1, <3>2, <3>3, Times
  <2>4. k \in 0..Lease /\ NextBeat(k) \in Nat /\ k - NextBeat(k) >= AbortGrace
    <3>1. k \in 0..Lease  BY DEF GatewayInv, Types, Rows
    <3> QED  BY <3>1, <2>3, FreshBeat, NextBeatType, Times
  <2> HIDE DEF k
  <2>5. /\ t \in Tasks /\ t.run = r /\ t.pc = "init" /\ t.wait = InitTime /\ t.deadline = k
        /\ t.due = NextBeat(k) /\ t.beat = "timer" /\ t.heart = "live" /\ t.fails = 0
        /\ t.pump = "open" /\ t.plan = "none"
    BY <2>4, Times DEF Task, Tasks
  <2>6. task' = [task EXCEPT ![a] = t]  BY <2>2 DEF k
  <2> HIDE DEF t
  <2>7. task' \in [Attempts -> Tasks] /\ task'[a] = t
        /\ \A b \in Attempts \ {a} : task'[b] = task[b]
    BY <2>1, <2>5, <2>6 DEF GatewayInv, Types
  <2>8. ASSUME NEW b \in Attempts PROVE Attempted(b)'
    <3>1. CASE b = a
      <4>1. child[a].state = "none" /\ ~ child[a].dropped  BY <2>1, Now DEF InStep
      <4>2. InStep(t, child[a], stopped)  BY <2>5, <4>1 DEF InStep
      <4>3. FirstTry(t)  BY <2>3, <2>5 DEF FirstTry
      <4>4. OnTime(t)  BY <2>4, <2>5, <4>3, Times DEF OnTime, OnItsWay
      <4>5. InitTime + AbortGrace <= k  BY <2>3, <2>4, Times
      <4>6. UnderLease(a, t, child[a], gwRun[r])
        BY <2>3, <2>4, <2>5, <4>1, <4>5 DEF UnderLease, k
      <4> QED  BY <3>1, <4>2, <4>4, <4>6, <2>5, <2>7 DEF Attempted, RunOf
    <3>2. CASE b # a  BY <3>2, <2>7, Now DEF Attempted, RunOf
    <3> QED  BY <3>1, <3>2
  <2>9. Numbered'
    BY <2>1, <2>7, Times DEF GatewayInv, Numbered, Attempts
  <2>10. {b \in Attempts : Placed(b)}' = {b \in Attempts : Placed(b)} \cup {a}
    BY <2>1, <2>5, <2>7 DEF Placed
  <2>11. a \notin {b \in Attempts : Placed(b)}  BY <2>1 DEF Placed
  <2>12. Cardinality({b \in Attempts : Placed(b)}') = active + 1
    BY <2>10, <2>11, PlacesAreFew, FS_AddElement DEF GatewayInv, PlacesAreCounted
  <2>13. active \in Int /\ active' = active + 1  BY <1>2 DEF GatewayInv, Types
  <2>14. PlacesAreCounted'  BY <2>1, <2>12, <2>13, Times DEF PlacesAreCounted
  <2> QED  BY <1>0, <2>7, <2>8, <2>9, <2>13, <2>14 DEF GatewayInv, Types, Claimed
<1> QED  BY <1>1, <1>2

LEMMA RequestGood ==
  ASSUME GatewayInv, AsksForRun \/ NothingClaimed
  PROVE  GatewayInv'
<1> USE DEF AsksForRun, NothingClaimed, NoClaim
<1>1. claim' \in [state : {"none", "sent", "answer"}, of : 0..MaxClaims, wait : 0..ControlTimeout]
      /\ claim'.state # "answer"
  BY Times
<1>2. Claimed'  BY <1>1, Times DEF Claimed, GatewayInv, Types
<1>3. \A b \in Attempts : Attempted(b)'  BY DEF GatewayInv, Attempted, RunOf
<1>4. Numbered' /\ PlacesAreCounted'  BY DEF GatewayInv, Numbered, PlacesAreCounted, Placed
<1> QED  BY <1>1, <1>2, <1>3, <1>4 DEF GatewayInv, Types

-----------------------------------------------------------------------------
(***************************************************************************)
(* Time: every deadline comes nearer by one, and none was due.             *)
(***************************************************************************)
LEMMA LessIs ==
  /\ \A n \in Nat : Less(n) \in Nat /\ Less(n) <= n /\ (n # 0 => Less(n) = n - 1)
  /\ \A m, n \in Nat : m <= n => Less(m) <= Less(n)
  /\ \A m \in Nat : \A n \in 0..m : Less(n) \in 0..m
BY DEF Less

LEMMA YoungLater ==
  ASSUME NEW row \in Rows, NEW w \in 0..ControlTimeout, w # 0,
         Lease - ControlTimeout + w <= row.left
  PROVE  Lease - ControlTimeout + Less(w) <= Less(row.left)
<1> DEFINE l == row.left
<1>1. l \in 0..Lease  BY DEF Rows
<1> HIDE DEF l
<1>2. Lease - ControlTimeout + w <= l => Lease - ControlTimeout + Less(w) <= Less(l)
  BY <1>1, LessIs, Times
<1> QED  BY <1>2 DEF l

Later(t) ==
  [t EXCEPT !.wait = Less(@), !.deadline = Less(@), !.due = Less(@), !.grant = Less(@)]

LEMMA LaterIs ==
  ASSUME NEW t \in Tasks
  PROVE  /\ Later(t) \in Tasks /\ Later(t).run = t.run /\ Later(t).pc = t.pc
         /\ Later(t).heart = t.heart /\ Later(t).fails = t.fails /\ Later(t).beat = t.beat
         /\ Later(t).pump = t.pump /\ Later(t).plan = t.plan
         /\ Later(t).wait = Less(t.wait) /\ Later(t).deadline = Less(t.deadline)
         /\ Later(t).due = Less(t.due) /\ Later(t).grant = Less(t.grant)
<1> DEFINE w == Less(t.wait)  l == Less(t.deadline)  d == Less(t.due)  g == Less(t.grant)
           s1 == [t EXCEPT !.wait = w]
           s2 == [s1 EXCEPT !.deadline = l]
           s3 == [s2 EXCEPT !.due = d]
<1>1. w \in Nat /\ d \in Nat /\ l \in 0..Lease /\ g \in 0..Lease
  BY LessIs, Times DEF Tasks
<1>2. Later(t) = [s3 EXCEPT !.grant = g]  BY DEF Later
<1> HIDE DEF w, l, d, g
<1>3. /\ s1 \in Tasks /\ s1.run = t.run /\ s1.pc = t.pc /\ s1.heart = t.heart
      /\ s1.fails = t.fails /\ s1.beat = t.beat /\ s1.pump = t.pump /\ s1.plan = t.plan
      /\ s1.wait = w
  BY <1>1 DEF Tasks
<1> HIDE DEF s1
<1>4. /\ s2 \in Tasks /\ s2.run = t.run /\ s2.pc = t.pc /\ s2.heart = t.heart
      /\ s2.fails = t.fails /\ s2.beat = t.beat /\ s2.pump = t.pump /\ s2.plan = t.plan
      /\ s2.wait = w /\ s2.deadline = l
  BY <1>1, <1>3 DEF Tasks
<1> HIDE DEF s2
<1>5. /\ s3 \in Tasks /\ s3.run = t.run /\ s3.pc = t.pc /\ s3.heart = t.heart
      /\ s3.fails = t.fails /\ s3.beat = t.beat /\ s3.pump = t.pump /\ s3.plan = t.plan
      /\ s3.wait = w /\ s3.deadline = l /\ s3.due = d
  BY <1>1, <1>4 DEF Tasks
<1> HIDE DEF s3
<1> QED  BY <1>1, <1>2, <1>5 DEF Tasks, w, l, d, g

LEMMA LaterOnTime ==
  ASSUME GatewayInv, NEW a \in Attempts, ~ TimersDue, Placed(a)
  PROVE  OnTime(Later(task[a]))
<1> USE Now, LaterIs
<1> DEFINE s == task[a]
           t == Later(task[a])
<1>0. s.wait \in Nat /\ s.due \in Nat /\ s.deadline \in Nat /\ s.grant \in Nat
      /\ (s.beat # "off" => s.due # 0)
  BY Times DEF Tasks, TimersDue
<1>1. t.pc = "init" => t.wait <= InitTime  BY <1>0, LessIs, Times DEF OnTime
<1>2. s.beat # "off" => t.due = s.due - 1 /\ s.due + AbortGrace <= s.deadline
                        /\ t.deadline = s.deadline - 1
  BY <1>0, LessIs, Times DEF OnTime
<1>3. t.beat # "off" => t.due + AbortGrace <= t.deadline  BY <1>0, <1>2, Times
<1>4. t.beat # "off" /\ t.fails = 0 => FirstTry(t)
  <2> SUFFICES ASSUME s.beat # "off", s.fails = 0 PROVE FirstTry(t)  OBVIOUS
  <2>1. PICK k \in (Lease - ControlTimeout)..Lease :
          IF s.beat = "timer" THEN s.deadline - s.due = k - NextBeat(k)
          ELSE /\ k - NextBeat(k) - ControlTimeout + s.due <= s.deadline
               /\ s.deadline <= k - NextBeat(k)
    BY DEF OnTime, FirstTry
  <2>2. k \in Nat /\ NextBeat(k) \in Nat  BY FreshBeat, NextBeatType
  <2>3. IF t.beat = "timer" THEN t.deadline - t.due = k - NextBeat(k)
        ELSE /\ k - NextBeat(k) - ControlTimeout + t.due <= t.deadline
             /\ t.deadline <= k - NextBeat(k)
    <3>1. CASE s.beat = "timer"  BY <3>1, <1>0, <1>2, <2>1, <2>2, Times
    <3>2. CASE s.beat # "timer"  BY <3>2, <1>0, <1>2, <2>1, <2>2, Times
    <3> QED  BY <3>1, <3>2
  <2> QED  BY <2>3 DEF FirstTry
<1>5. t.beat \in OnItsWay => t.due <= ControlTimeout
  BY <1>0, <1>2, Times DEF OnTime, OnItsWay
<1>6. t.beat \in {"ok", "cancel"} => Lease - ControlTimeout + t.due <= t.grant
  BY <1>0, <1>2, LessIs, Times DEF OnTime
<1> QED  BY <1>1, <1>3, <1>4, <1>5, <1>6 DEF OnTime

LEMMA LaterUnderLease ==
  ASSUME GatewayInv, NEW a \in Attempts, ~ TimersDue, Placed(a), NEW c, NEW row,
         c.state = child[a].state, c.kill = Less(child[a].kill),
         row.status = RunOf(a).status, row.holder = RunOf(a).holder,
         row.cancel = RunOf(a).cancel, row.left = Less(RunOf(a).left)
  PROVE  UnderLease(a, Later(task[a]), c, row)
<1> USE Now
<1> DEFINE s == task[a]
           t == Later(task[a])
<1>00. /\ t.pc = s.pc /\ t.heart = s.heart /\ t.beat = s.beat /\ t.plan = s.plan
       /\ t.wait = Less(s.wait) /\ t.deadline = Less(s.deadline) /\ t.grant = Less(s.grant)
  BY LaterIs
<1>0. s.wait \in Nat /\ s.deadline \in Nat /\ s.grant \in Nat /\ RunOf(a).left \in Nat
      /\ child[a].kill \in Nat /\ (s.pc = "init" => s.wait # 0)
  BY Times DEF Tasks, Rows, Children, TimersDue
<1>1. t.pc = "init" => Held(a, row) /\ t.wait + AbortGrace <= row.left
  <2> SUFFICES ASSUME s.pc = "init" PROVE Held(a, row) /\ t.wait + AbortGrace <= row.left
    BY <1>00
  <2>1. Held(a, RunOf(a)) /\ s.wait + AbortGrace <= RunOf(a).left  BY DEF UnderLease
  <2>2. t.wait = s.wait - 1 /\ row.left = RunOf(a).left - 1
    BY <1>00, <1>0, <2>1, LessIs, Times
  <2> QED  BY <1>0, <2>1, <2>2, Times DEF Held
<1>2. c.state \in {"alive", "term"} =>
        \/ Held(a, row) /\ c.kill <= row.left
        \/ row.status = "clarification" /\ row.holder = a
  BY <1>0, LessIs DEF UnderLease, Held
<1>3. t.beat # "off" /\ Held(a, row) => t.deadline <= row.left
  <2>1. s.beat # "off" /\ Held(a, row) => s.deadline <= RunOf(a).left
    BY DEF UnderLease, Held
  <2> QED  BY <2>1, <1>00, <1>0, LessIs
<1>4. t.beat \in {"ok", "cancel"} /\ Held(a, row) => t.grant <= row.left
  <2>1. s.beat \in {"ok", "cancel"} /\ Held(a, row) => s.grant <= RunOf(a).left
    BY DEF UnderLease, Held
  <2> QED  BY <2>1, <1>00, <1>0, LessIs
<1>5. "cancel" = t.beat \/ t.heart = "cancelled" \/ t.plan = "cancelled" => row.cancel
  BY <1>00 DEF UnderLease
<1> QED  BY <1>1, <1>2, <1>3, <1>4, <1>5 DEF UnderLease

LEMMA TickGood ==
  ASSUME GatewayInv, Tick
  PROVE  GatewayInv'
<1> USE Now DEF Tick
<1>1. ASSUME NEW r \in Runs
      PROVE  /\ gwRun'[r] \in Rows /\ gwRun'[r].status = gwRun[r].status
             /\ gwRun'[r].holder = gwRun[r].holder /\ gwRun'[r].cancel = gwRun[r].cancel
             /\ gwRun'[r].left = Less(gwRun[r].left)
  <2>1. gwRun[r] \in Rows /\ gwRun'[r] = [gwRun[r] EXCEPT !.left = Less(gwRun[r].left)]
    BY DEF GatewayInv, Types
  <2> DEFINE l == Less(gwRun[r].left)
  <2>0. gwRun[r].left \in 0..Lease  BY <2>1 DEF Rows
  <2>2. l \in 0..Lease  BY <2>0, LessIs, Times
  <2> HIDE DEF l
  <2>3. gwRun'[r] = [gwRun[r] EXCEPT !.left = l]  BY <2>1 DEF l
  <2>4. gwRun'[r].left = l /\ gwRun'[r] \in Rows /\ gwRun'[r].status = gwRun[r].status
        /\ gwRun'[r].holder = gwRun[r].holder /\ gwRun'[r].cancel = gwRun[r].cancel
    BY <2>1, <2>2, <2>3 DEF Rows
  <2> QED  BY <2>4 DEF l
<1>2. gwRun' \in [Runs -> Rows]  BY <1>1
<1>3. ASSUME NEW b \in Attempts
      PROVE  /\ child'[b] \in Children /\ child'[b].state = child[b].state
             /\ child'[b].exit = child[b].exit /\ child'[b].unsent = child[b].unsent
             /\ child'[b].dropped = child[b].dropped /\ child'[b].kill = Less(child[b].kill)
  <2> DEFINE l == Less(child[b].kill)
  <2>0. child[b].kill \in 0..AbortGrace  BY DEF Children
  <2>2. l \in 0..AbortGrace  BY <2>0, LessIs, Times
  <2>3. child'[b] = [child[b] EXCEPT !.kill = l]  OBVIOUS
  <2> HIDE DEF l
  <2>4. child'[b].kill = l /\ child'[b] \in Children /\ child'[b].state = child[b].state
        /\ child'[b].exit = child[b].exit /\ child'[b].unsent = child[b].unsent
        /\ child'[b].dropped = child[b].dropped
    BY <2>2, <2>3 DEF Children
  <2> QED  BY <2>4 DEF l
<1>4. child' \in [Attempts -> Children]  BY <1>3
<1>5. \A b \in Attempts : task'[b] = IF Placed(b) THEN Later(task[b]) ELSE task[b]
  BY DEF Later
<1>6. ASSUME NEW b \in Attempts
      PROVE  task'[b] \in Tasks /\ task'[b].run = task[b].run /\ task'[b].pc = task[b].pc
  <2>1. task[b] \in Tasks  OBVIOUS
  <2>2. CASE Placed(b)  BY <1>5, <2>1, <2>2, LaterIs
  <2>3. CASE ~ Placed(b)  BY <1>5, <2>1, <2>3
  <2> QED  BY <2>2, <2>3
<1>7. task' \in [Attempts -> Tasks]
  <2>1. task' = [b \in Attempts |-> task'[b]]  OBVIOUS
  <2> QED  BY <1>6, <2>1
<1>8. ASSUME NEW b \in Attempts
      PROVE  RunOf(b)' = gwRun'[task[b].run] /\ RunOf(b) = gwRun[task[b].run]
             /\ task[b].run \in Runs
  BY <1>6 DEF RunOf
<1>9. ASSUME NEW b \in Attempts PROVE Attempted(b)'
  <2>0. RunOf(b)'.status = RunOf(b).status /\ RunOf(b)'.holder = RunOf(b).holder
        /\ RunOf(b)'.cancel = RunOf(b).cancel /\ RunOf(b)'.left = Less(RunOf(b).left)
    BY ZenonT(30), <1>1, <1>8
  <2>1. CASE Placed(b)
    <3>1. task'[b] = Later(task[b])  BY <1>5, <2>1
    <3>2. InStep(Later(task[b]), child'[b], stopped)
      <4>1. InStep(task[b], child[b], stopped) /\ task[b] \in Tasks  OBVIOUS
      <4>2. InStep(Later(task[b]), child[b], stopped)  BY <4>1, LaterIs DEF InStep
      <4> QED  BY <4>2, <1>3 DEF InStep
    <3>3. OnTime(Later(task[b]))  BY <2>1, LaterOnTime
    <3>4. UnderLease(b, Later(task[b]), child'[b], RunOf(b)')
      BY <1>3, <2>0, <2>1, LaterUnderLease
    <3> QED  BY <3>1, <3>2, <3>3, <3>4 DEF Attempted
  <2>2. CASE ~ Placed(b)
    <3>1. task'[b] = task[b] /\ task[b].pc \in {"absent", "over"}
      BY <1>5, <2>2 DEF Placed, Tasks
    <3>2. InStep(task[b], child'[b], stopped)  BY ZenonT(30), <1>3 DEF InStep
    <3>3. task[b].beat = "off" /\ child[b].state \in {"none", "gone"}
      BY <3>1 DEF InStep
    <3>4. UnderLease(b, task[b], child'[b], RunOf(b)')
      BY <1>3, <2>0, <3>1, <3>3 DEF UnderLease
    <3> QED  BY <3>1, <3>2, <3>4 DEF Attempted
  <2> QED  BY <2>1, <2>2
<1>10. Numbered'
  <2>1. Numbered /\ claims' = claims  BY DEF GatewayInv, Now
  <2>2. \A r \in Runs : gwRun'[r].holder = gwRun[r].holder  BY <1>1
  <2>3. \A b \in Attempts : task'[b].pc = task[b].pc  BY <1>6
  <2> QED  BY <2>1, <2>2, <2>3 DEF Numbered
<1>11. PlacesAreCounted'
  <2>1. {b \in Attempts : Placed(b)}' = {b \in Attempts : Placed(b)}  BY <1>6 DEF Placed
  <2> QED  BY <2>1 DEF GatewayInv, PlacesAreCounted
<1>12. /\ claim' \in [state : {"none", "sent", "answer"}, of : 0..MaxClaims, wait : 0..ControlTimeout]
       /\ claim'.state = claim.state /\ claim'.of = claim.of /\ claim'.wait = Less(claim.wait)
  <2> DEFINE l == Less(claim.wait)
  <2>1. claim.wait \in 0..ControlTimeout  BY DEF GatewayInv, Types
  <2>2. l \in 0..ControlTimeout  BY <2>1, LessIs, Times
  <2>3. claim' = [claim EXCEPT !.wait = l]  OBVIOUS
  <2> HIDE DEF l
  <2>4. /\ claim' \in [state : {"none", "sent", "answer"}, of : 0..MaxClaims, wait : 0..ControlTimeout]
        /\ claim'.state = claim.state /\ claim'.of = claim.of /\ claim'.wait = l
    BY <2>2, <2>3 DEF GatewayInv, Types
  <2> QED  BY <2>4 DEF l
<1>13. claim.state = "answer" => Answered'
  <2> SUFFICES ASSUME claim.state = "answer" PROVE Answered'  OBVIOUS
  <2>1. PICK r \in Runs : Held(claims, gwRun[r])
                          /\ Lease - ControlTimeout + claim.wait <= gwRun[r].left
    BY DEF GatewayInv, Claimed, Answered
  <2>2. gwRun[r] \in Rows /\ claim.wait \in 0..ControlTimeout /\ claim.wait # 0
    BY DEF GatewayInv, Types, TimersDue
  <2>3. Held(claims, gwRun'[r]) /\ Lease - ControlTimeout + claim'.wait <= gwRun'[r].left
    <3> HIDE Now DEF Tick
    <3>1. Lease - ControlTimeout + Less(claim.wait) <= Less(gwRun[r].left)
      BY <2>1, <2>2, YoungLater
    <3> QED  BY <1>1, <1>12, <2>1, <3>1 DEF Held
  <2>4. claims \in Attempts /\ claim.of = claims /\ task[claims].pc = "absent"
    BY DEF GatewayInv, Claimed, Answered
  <2> QED  BY <1>6, <1>12, <2>3, <2>4 DEF Answered
<1>14. Claimed'  BY <1>12, <1>13 DEF GatewayInv, Claimed
<1> QED  BY <1>2, <1>4, <1>7, <1>9, <1>10, <1>11, <1>12, <1>14 DEF GatewayInv, Types

-----------------------------------------------------------------------------
(***************************************************************************)
(* The end of a task: the child is gone, the heart may still beat.         *)
(***************************************************************************)
LEMMA ChildIsDoneGood ==
  ASSUME GatewayInv, NEW a \in Attempts, ChildIsDone(a)
  PROVE  GatewayInv'
<1> USE Now DEF ChildIsDone
<1>1. CASE HandsOver(a)
  <2>1. Placed(a) /\ TakesLeave(a)  BY <1>1 DEF Placed
  <2> QED  BY <2>1, LeaveGood
<1>2. CASE ~ HandsOver(a)
  <2> DEFINE p == Plan(a)
             t == [task[a] EXCEPT !.pc = "drain", !.plan = p]
  <2>0. p \in {"completed", "failed", "cancelled"}
        /\ (p = "completed" => child[a].exit = "done" /\ task[a].heart # "cancelled")
        /\ (p = "cancelled" => task[a].heart = "cancelled")
    BY DEF Plan
  <2> HIDE DEF p
  <2>1. /\ t \in Tasks /\ t.run = task[a].run /\ t.pc = "drain" /\ t.plan = p
        /\ t.heart = task[a].heart /\ t.beat = task[a].beat /\ t.pump = task[a].pump
        /\ t.fails = task[a].fails /\ t.due = task[a].due /\ t.deadline = task[a].deadline
        /\ t.grant = task[a].grant
    <3> DEFINE d == [task[a] EXCEPT !.pc = "drain"]
    <3>1. /\ d \in Tasks /\ d.run = task[a].run /\ d.pc = "drain"
          /\ d.heart = task[a].heart /\ d.beat = task[a].beat /\ d.pump = task[a].pump
          /\ d.fails = task[a].fails /\ d.due = task[a].due /\ d.deadline = task[a].deadline
          /\ d.grant = task[a].grant
      BY DEF Tasks
    <3>2. t = [d EXCEPT !.plan = p]  OBVIOUS
    <3> HIDE DEF d, t
    <3> QED  BY <2>0, <3>1, <3>2 DEF Tasks
  <2>2. Turns(a, t, child[a]) /\ active' = active
    BY <1>2 DEF Turns, GatewayInv, Types, p
  <2> HIDE DEF t
  <2>3. child[a].dropped => ~ HandsOver(a) /\ task[a].pump # "open"
    BY <1>2 DEF InStep
  <2>4. ~ child[a].dropped
    BY <2>3 DEF HandsOver, InStep, Tasks
  <2>5. InStep(t, child[a], stopped)
    BY <2>0, <2>1, <2>4 DEF InStep, Gone
  <2>6. OnTime(t)  BY <2>1 DEF OnTime, FirstTry
  <2>7. UnderLease(a, t, child[a], RunOf(a))  BY <2>0, <2>1 DEF UnderLease
  <2> QED  BY <2>1, <2>2, <2>5, <2>6, <2>7, Turn DEF Fits, AtWork
<1> QED  BY <1>1, <1>2

LEMMA ReportsGood ==
  ASSUME GatewayInv, NEW a \in Attempts, task[a].pc = "drain",
         NEW outcome \in {"completed", "failed", "cancelled"}, Reports(a, outcome),
         outcome = "completed" => /\ task[a].plan = "completed" /\ task[a].heart = "live"
                                  /\ ~ child[a].unsent,
         outcome = "cancelled" => task[a].plan = "cancelled" \/ task[a].heart = "cancelled",
         UNCHANGED <<gwRun, claim, claims, stopped>>
  PROVE  GatewayInv'
<1> USE Now DEF Reports
<1> DEFINE s == NoBeat(task[a])
           s1 == [s EXCEPT !.pc = "report"]
           s2 == [s1 EXCEPT !.plan = outcome]
           s3 == [s2 EXCEPT !.word = "sent"]
           t == [s3 EXCEPT !.wait = ControlTimeout]
<1>1. /\ s \in Tasks /\ s.run = task[a].run /\ s.beat = "off" /\ s.heart = task[a].heart
      /\ s.pump = task[a].pump /\ s.fails = task[a].fails
  BY NoBeatIs DEF SameTask
<1>0. task' = [task EXCEPT ![a] = [s EXCEPT !.pc = "report", !.plan = outcome,
                                     !.word = "sent", !.wait = ControlTimeout]]
  OBVIOUS
<1> HIDE DEF s
<1>2. task' = [task EXCEPT ![a] = t]  BY <1>0
<1>3. /\ s1 \in Tasks /\ s1.run = task[a].run /\ s1.beat = "off" /\ s1.heart = task[a].heart
      /\ s1.pump = task[a].pump /\ s1.fails = task[a].fails /\ s1.pc = "report"
  BY <1>1 DEF Tasks
<1> HIDE DEF s1
<1>4. /\ s2 \in Tasks /\ s2.run = task[a].run /\ s2.beat = "off" /\ s2.heart = task[a].heart
      /\ s2.pump = task[a].pump /\ s2.fails = task[a].fails /\ s2.pc = "report"
      /\ s2.plan = outcome
  BY <1>3 DEF Tasks
<1> HIDE DEF s2
<1>5. /\ s3 \in Tasks /\ s3.run = task[a].run /\ s3.beat = "off" /\ s3.heart = task[a].heart
      /\ s3.pump = task[a].pump /\ s3.fails = task[a].fails /\ s3.pc = "report"
      /\ s3.plan = outcome
  BY <1>4 DEF Tasks
<1> HIDE DEF s3
<1>6. /\ t \in Tasks /\ t.run = task[a].run /\ t.beat = "off" /\ t.heart = task[a].heart
      /\ t.pump = task[a].pump /\ t.fails = task[a].fails /\ t.pc = "report"
      /\ t.plan = outcome
  BY <1>5, Times DEF Tasks
<1>7. Turns(a, t, child[a])  BY <1>2 DEF Turns, GatewayInv, Types
<1> HIDE DEF t
<1>8. InStep(t, child[a], stopped)  BY <1>6 DEF InStep
<1>9. OnTime(t)  BY <1>6 DEF OnTime, OnItsWay
<1>10. UnderLease(a, t, child[a], RunOf(a))  BY <1>6 DEF UnderLease, InStep
<1> QED  BY <1>6, <1>7, <1>8, <1>9, <1>10, Turn DEF Fits, AtWork

LEMMA DrainedGood ==
  ASSUME GatewayInv, NEW a \in Attempts, Drained(a)
  PROVE  GatewayInv'
<1> USE Now DEF Drained
<1>0. Placed(a) /\ task[a].plan \in {"completed", "failed", "cancelled"}
  BY DEF Placed, InStep, Tasks
<1>1. CASE TakesLeave(a)  BY <1>0, <1>1, LeaveGood
<1>2. CASE ~ child[a].unsent /\ task[a].plan # "completed" /\ Reports(a, task[a].plan)
  BY <1>0, <1>2, ReportsGood
<1>3. CASE /\ ~ child[a].unsent /\ task[a].plan = "completed" /\ task[a].heart = "cancelled"
           /\ Reports(a, "cancelled")
  BY <1>0, <1>3, ReportsGood
<1>4. CASE /\ ~ child[a].unsent /\ task[a].plan = "completed"
           /\ task[a].heart \notin {"cancelled", "lost"} /\ Reports(a, "completed")
  BY <1>0, <1>4, ReportsGood DEF Tasks
<1> QED  BY <1>1, <1>2, <1>3, <1>4

LEMMA ReportEndsGood ==
  ASSUME GatewayInv, NEW a \in Attempts, task[a].pc = "report", NEW repeat \in BOOLEAN,
         ReportEnds(a, repeat)
  PROVE  GatewayInv'
<1> USE Now DEF ReportEnds
<1>1. CASE ~ repeat
  <2>1. Placed(a)  BY DEF Placed
  <2> QED  BY <1>1, <2>1, LeaveGood
<1>2. CASE repeat
  <2> DEFINE p == IF task[a].plan = "completed" THEN "failed" ELSE task[a].plan
             s1 == [task[a] EXCEPT !.pc = "drain"]
             s2 == [s1 EXCEPT !.again = TRUE]
             t == [s2 EXCEPT !.plan = p]
  <2>0. p \in {"failed", "cancelled"} /\ (p = "cancelled" => task[a].plan = "cancelled")
    BY DEF InStep, Tasks
  <2>1. task' = [task EXCEPT ![a] = t] /\ UNCHANGED <<gwRun, claim, claims, stopped, child, active>>
    BY <1>2 DEF GatewayInv, Types
  <2> HIDE DEF p
  <2>2. /\ s1 \in Tasks /\ s1.run = task[a].run /\ s1.beat = "off" /\ s1.heart = task[a].heart
        /\ s1.pump = task[a].pump /\ s1.fails = task[a].fails /\ s1.pc = "drain"
    BY DEF InStep, Tasks
  <2> HIDE DEF s1
  <2>3. /\ s2 \in Tasks /\ s2.run = task[a].run /\ s2.beat = "off" /\ s2.heart = task[a].heart
        /\ s2.pump = task[a].pump /\ s2.fails = task[a].fails /\ s2.pc = "drain"
    BY <2>2 DEF Tasks
  <2> HIDE DEF s2
  <2>4. /\ t \in Tasks /\ t.run = task[a].run /\ t.beat = "off" /\ t.heart = task[a].heart
        /\ t.pump = task[a].pump /\ t.fails = task[a].fails /\ t.pc = "drain" /\ t.plan = p
    BY <2>0, <2>3 DEF Tasks
  <2>5. Turns(a, t, child[a])  BY <2>1 DEF Turns, GatewayInv, Types
  <2> HIDE DEF t
  <2>6. InStep(t, child[a], stopped)  BY <2>0, <2>4 DEF InStep
  <2>7. OnTime(t)  BY <2>4 DEF OnTime, OnItsWay
  <2>8. UnderLease(a, t, child[a], RunOf(a))  BY <2>0, <2>4 DEF UnderLease, InStep
  <2> QED  BY <2>1, <2>4, <2>5, <2>6, <2>7, <2>8, Turn DEF Fits, AtWork
<1> QED  BY <1>1, <1>2

LEMMA StopGood ==
  ASSUME GatewayInv, Stop
  PROVE  GatewayInv'
<1> USE Now DEF Stop
<1>1. ASSUME NEW b \in Attempts
      PROVE  /\ task'[b] \in Tasks /\ child'[b] \in Children /\ task'[b].run = task[b].run
             /\ task'[b].pc = task[b].pc /\ Attempted(b)'
  <2> DEFINE t == IF Placed(b) THEN Stopped(task[b]) ELSE task[b]
             c == IF task[b].pc = "work" THEN Aborted(child[b]) ELSE child[b]
  <2>0. task'[b] = t /\ child'[b] = c  OBVIOUS
  <2>1. SameTask(task[b], t) /\ t.beat = task[b].beat /\ t.heart = task[b].heart
        /\ t.fails = task[b].fails /\ t.due = task[b].due /\ t.grant = task[b].grant
        /\ t.deadline = task[b].deadline /\ (t.pump = task[b].pump \/ t.pump = "stopped")
    BY StoppedIs DEF SameTask
  <2>2. /\ c \in Children /\ c.exit = child[b].exit /\ c.unsent = child[b].unsent
        /\ c.dropped = child[b].dropped /\ c.state # "alive"
        /\ c.state = child[b].state \/ (c.state = "term" /\ child[b].state = "alive")
        /\ c.kill = child[b].kill \/ (c.kill = AbortGrace /\ child[b].state = "alive")
    BY AbortedIs, Alive
  <2> HIDE DEF t, c
  <2>3. InStep(t, c, TRUE)  BY <2>1, <2>2, Alive DEF InStep, SameTask
  <2>4. OnTime(t)  BY <2>1 DEF OnTime, SameTask, FirstTry
  <2>5. UnderLease(b, t, c, RunOf(b))  BY <2>1, <2>2, Alive DEF UnderLease, SameTask
  <2> QED  BY <2>0, <2>1, <2>2, <2>3, <2>4, <2>5 DEF Attempted, SameTask, RunOf
<1>2. task' \in [Attempts -> Tasks] /\ child' \in [Attempts -> Children]
  <2>1. task' = [b \in Attempts |-> task'[b]] /\ child' = [b \in Attempts |-> child'[b]]
    OBVIOUS
  <2> QED  BY <1>1, <2>1
<1>3. Numbered'  BY <1>1 DEF GatewayInv, Numbered
<1>4. PlacesAreCounted'
  <2>1. {b \in Attempts : Placed(b)}' = {b \in Attempts : Placed(b)}  BY <1>1 DEF Placed
  <2> QED  BY <2>1 DEF GatewayInv, PlacesAreCounted
<1>5. Claimed'  BY <1>1 DEF GatewayInv, Claimed, Answered
<1> QED  BY <1>1, <1>2, <1>3, <1>4, <1>5 DEF GatewayInv, Types

-----------------------------------------------------------------------------
(***************************************************************************)
(* The invariant is inductive, and says what has to be sound.              *)
(***************************************************************************)
LEMMA StartIsGood == GwInit => GatewayInv
<1> SUFFICES ASSUME GwInit PROVE GatewayInv  OBVIOUS
<1> USE DEF GwInit
<1>1. PICK r \in Runs : task = [a \in Attempts |-> NoTask(r, "absent")]  OBVIOUS
<1>2. ASSUME NEW a \in Attempts
      PROVE  /\ task[a] = NoTask(r, "absent") /\ task[a] \in Tasks /\ task[a].pc = "absent"
             /\ task[a].run \in Runs /\ child[a] = NoChild
             /\ task[a].beat = "off" /\ task[a].heart = "live" /\ task[a].pump = "open"
             /\ task[a].plan = "none" /\ task[a].fails = 0
  BY <1>1, NoTaskIs
<1>3. Types
  <2>1. gwRun \in [Runs -> Rows]  BY Times DEF Rows
  <2>2. claim \in [state : {"none", "sent", "answer"}, of : 0..MaxClaims, wait : 0..ControlTimeout]
    BY Times DEF NoClaim
  <2>3. task \in [Attempts -> Tasks] /\ child \in [Attempts -> Children]
    BY <1>1, <1>2, NoChildIs
  <2>4. claims = 0 /\ active = 0 /\ stopped = FALSE  OBVIOUS
  <2> HIDE DEF GwInit
  <2>5. claims \in 0..MaxClaims /\ active \in Int  BY <2>4, Times
  <2> QED  BY <2>1, <2>2, <2>3, <2>4, <2>5 DEF Types
<1>4. Numbered  BY <1>2 DEF Numbered
<1>5. Claimed  BY DEF Claimed, NoClaim
<1>6. PlacesAreCounted
  <2>1. {a \in Attempts : Placed(a)} = {}  BY <1>2 DEF Placed
  <2> QED  BY SMTT(15), <2>1, FS_EmptySet, Times DEF PlacesAreCounted
<1>7. ASSUME NEW a \in Attempts PROVE Attempted(a)
  <2>1. InStep(task[a], child[a], stopped)  BY <1>2, NoChildIs DEF InStep
  <2>2. OnTime(task[a])  BY <1>2 DEF OnTime, OnItsWay
  <2>3. UnderLease(a, task[a], child[a], RunOf(a))  BY <1>2, NoChildIs DEF UnderLease
  <2> QED  BY <2>1, <2>2, <2>3 DEF Attempted
<1> QED  BY <1>3, <1>4, <1>5, <1>6, <1>7 DEF GatewayInv

LEMMA StepIsGood == GatewayInv /\ [GwNext]_gwVars => GatewayInv'
<1> SUFFICES ASSUME GatewayInv, [GwNext]_gwVars PROVE GatewayInv'  OBVIOUS
<1>1. CASE Tick  BY <1>1, TickGood
<1>2. CASE AsksForRun \/ NothingClaimed  BY <1>2, RequestGood
<1>3. CASE ClaimArrives  BY <1>3, ClaimArrivesGood
<1>4. CASE Stop  BY <1>4, StopGood
<1>5. ASSUME NEW r \in Runs, RunIsClaimed(r) \/ UserCancels(r) \/ Recovers(r)
      PROVE  GatewayInv'
  BY <1>5, RunIsClaimedGood, UserCancelsGood, RecoversGood
<1>6. ASSUME NEW a \in Attempts, Timers(a)
      PROVE  GatewayInv'
  BY <1>6, BeatDueGood, BeatAnsweredGood, BeatFailsGood, ChildIsKilledGood DEF Timers
<1>7. ASSUME NEW a \in Attempts, Continues(a)
      PROVE  GatewayInv'
  <2>1. CASE WorkerStarts(a)  BY <2>1, WorkerStartsGood
  <2>2. CASE ChildIsDone(a)  BY <2>2, ChildIsDoneGood
  <2>3. CASE Drained(a)  BY <2>3, DrainedGood
  <2>4. CASE Reported(a)
    <3>1. (task[a].word = "refused" /\ TriesAgain(a)) \in BOOLEAN  BY DEF TriesAgain
    <3> QED  BY <2>4, <3>1, ReportEndsGood DEF Reported
  <2>5. CASE ReportIsLost(a)
    <3>1. (task[a].plan = "cancelled" /\ TriesAgain(a)) \in BOOLEAN  BY DEF TriesAgain
    <3> QED  BY <2>5, <3>1, ReportEndsGood DEF ReportIsLost
  <2> QED  BY <1>7, <2>1, <2>2, <2>3, <2>4, <2>5 DEF Continues
<1>8. ASSUME NEW a \in Attempts, Pump(a) \/ ChildExits(a) \/ ChildSends(a) \/ ChildAsks(a)
      PROVE  GatewayInv'
  BY <1>8, PumpDeliversGood, PumpBreaksGood, ChildExitsGood, ChildSendsGood, ChildAsksGood
     DEF Pump
<1>9. ASSUME NEW a \in Attempts, LeaseIsRenewed(a) \/ OutcomeIsTaken(a)
      PROVE  GatewayInv'
  BY <1>9, LeaseIsRenewedGood, OutcomeIsTakenGood
<1>10. CASE UNCHANGED gwVars
  BY <1>10 DEF gwVars, GatewayInv, Types, Numbered, Claimed, Answered, PlacesAreCounted,
               Placed, Attempted, RunOf
<1> QED
  BY <1>1, <1>2, <1>3, <1>4, <1>5, <1>6, <1>7, <1>8, <1>9, <1>10 DEF GwNext

LEMMA InvariantIsSound == GatewayInv => GatewayIsSound
<1> SUFFICES ASSUME GatewayInv PROVE GatewayIsSound  OBVIOUS
<1> USE Now
<1>1. GwTypeOK
  <2>1. active \in 0..MaxClaims  BY PlacesAreFew DEF GatewayInv, PlacesAreCounted
  <2> QED  BY <2>1 DEF GwTypeOK, GatewayInv, Types, Rows, Tasks, Children
<1>2. WorkersAreFenced
  BY DEF WorkersAreFenced, UnderLease, Held
<1>3. ReportsAreEarned
  BY DEF ReportsAreEarned, InStep, UnderLease, Gone
<1> QED  BY <1>1, <1>2, <1>3 DEF GatewayIsSound, GatewayInv

(***************************************************************************)
(* The invariant holds throughout, for every set of runs, every capacity   *)
(* and all times that fit.                                                 *)
(***************************************************************************)
THEOREM GatewayInvHolds == GwSpec => []GatewayInv
BY StartIsGood, StepIsGood, PTL DEF GwSpec

(***************************************************************************)
(* Places are counted and given back once; no child outlives its attempt's *)
(* lease (main.ts:308, gateway.ts:388); a completion is reported only of a *)
(* child that ended well with all its events delivered.                    *)
(***************************************************************************)
THEOREM GatewayStaysSound == GwSpec => []GatewayIsSound
BY GatewayInvHolds, InvariantIsSound, PTL
=============================================================================
