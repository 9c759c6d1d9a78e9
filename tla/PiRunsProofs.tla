---------------------------- MODULE PiRunsProofs ----------------------------
(***************************************************************************)
(* Proofs about PiRuns, for every set of runs, sessions, users, tenants    *)
(* and Gateways and every limit: the rows of the runs, the slots of the    *)
(* sessions and the counters of the tenants stay in step.                  *)
(***************************************************************************)
EXTENDS PiRuns, SequenceTheorems, FiniteSetTheorems, WellFoundedInduction, TLAPS

RunRows == [status : Statuses, queuedAt : Int, attempts : Nat, open : Nat, retries : Nat,
            gateway : Gateways \cup {NoGateway}, hash : Nat,
            lease : {"null", "live", "lapsed"}, cancel : BOOLEAN]

QueueTypes ==
  /\ layout \in [Runs -> RunKinds]
  /\ run \in [Runs -> RunRows]
  /\ slot \in [Sessions -> Runs \cup {NoRun}]
  /\ activeRuns \in [Tenants -> Nat]
  /\ second \in Int
  /\ cancelling.run = NoRun \/ (cancelling.run \in Runs /\ run[cancelling.run].status # "absent")

(***************************************************************************)
(* What one row says.  Only a run that a Gateway has, or that left it      *)
(* without release_run, keeps the token of a claim; a waiting run has used *)
(* up at most its retries.                                                 *)
(***************************************************************************)
RowSound(row) ==
  /\ row.hash # 0 => row.status \in {"running", "clarification", "cancelled"}
  /\ row.retries <= 1 /\ row.attempts <= row.retries + 1 /\ row.hash <= row.attempts
  /\ row.status \in {"absent", "queued"} => row.attempts <= row.retries
  /\ row.status = "absent" => row.attempts = 0
  /\ row.open # 0 <=> row.status = "running"
  /\ row.open # 0 => row.open = row.attempts /\ row.hash \in {0, row.open}

RowsSound == \A r \in Runs : RowSound(run[r])

Claimed(t) == {r \in RunsOf(t) : run[r].hash # 0}

Counted == \A t \in Tenants : activeRuns[t] = Cardinality(Claimed(t))

OneActive ==
  \A q, r \in Runs :
    (/\ q # r /\ SessionOf(q) = SessionOf(r) /\ layout[q].kind = "main" /\ layout[r].kind = "main"
     /\ run[q].status \in Active) => run[r].status \notin Active

TakenOver(s) ==
  \E q \in Runs : SessionOf(q) = s /\ layout[q].kind = "detail" /\ run[q].attempts > 0

SlotHeld ==
  \A r \in Runs : run[r].status = "running" /\ run[r].hash # 0 =>
    slot[SessionOf(r)] = r \/ TakenOver(SessionOf(r))

QueueInv == QueueTypes /\ RowsSound /\ Counted /\ OneActive /\ SlotHeld

-----------------------------------------------------------------------------
LEMMA WhoIsWho ==
  ASSUME QueueTypes, NEW r \in Runs
  PROVE  /\ SessionOf(r) \in Sessions
         /\ UserOf(r) \in Users
         /\ TenantOf(r) \in Tenants
         /\ r \in RunsOf(TenantOf(r))
         /\ layout[r].kind \in {"main", "detail", "none"}
<1>1. layout[r] \in RunKinds  BY DEF QueueTypes
<1>2. SessionOf(r) \in Sessions  BY <1>1 DEF SessionOf, RunKinds
<1>3. UserOf(r) \in Users  BY <1>2, RunsAssumption DEF UserOf
<1>4. TenantOf(r) \in Tenants  BY <1>3, RunsAssumption DEF TenantOf
<1> QED  BY <1>1, <1>2, <1>3, <1>4 DEF RunsOf, RunKinds

(***************************************************************************)
(* Every step touches at most one row, as one of these.                    *)
(***************************************************************************)
OneRow(r, row) == run' = [run EXCEPT ![r] = row]

SameQueue == UNCHANGED <<layout, run, queueVars>>

\* how the counters follow the token of the row
CountFollows(r, row) ==
  \/ (run[r].hash = 0) = (row.hash = 0) /\ activeRuns' = activeRuns
  \/ /\ run[r].hash = 0 /\ row.hash # 0
     /\ activeRuns' = [activeRuns EXCEPT ![TenantOf(r)] = @ + 1]
  \/ /\ run[r].hash # 0 /\ row.hash = 0
     /\ activeRuns' = [activeRuns EXCEPT ![TenantOf(r)] = IF @ = 0 THEN 0 ELSE @ - 1]

\* how the slot of the session follows it
SlotFollows(r, row) ==
  \/ slot' = slot /\ (row.status = "running" /\ row.hash # 0 => run[r].status = "running" /\ run[r].hash # 0)
  \/ slot' = FreeSlot(r) /\ row.status # "running"
  \/ /\ slot' = [slot EXCEPT ![SessionOf(r)] = r]
     /\ slot[SessionOf(r)] \in {NoRun, r} \/ (layout[r].kind = "detail" /\ row.attempts > 0)

BecomesActive(r, row) ==
  row.status \in Active /\ layout[r].kind = "main" =>
    run[r].status \in Active \/ SessionIsFree(r)

\* r is claimed by the Gateway whose next candidate it is
Taken(r) ==
  \E g \in Gateways : look[g].open /\ r = Head(look[g].queue) /\ StillAllowed(g, r)

\* a run that came keeps its place in the queue, and runs only if a Gateway takes it
Keeps(r, row) ==
  /\ row.status # "absent"
  /\ row.queuedAt = IF run[r].status = "absent" THEN second ELSE run[r].queuedAt
  /\ row.status \in Active => run[r].status \in Active \cup {"absent"}
  /\ row.status = "running" /\ layout[r].kind # "detail" => run[r].status = "running" \/ Taken(r)

Moves(r, row) ==
  /\ layout' = layout /\ Keeps(r, row)
  /\ row \in RunRows /\ RowSound(row) /\ row.attempts >= run[r].attempts
  /\ OneRow(r, row) /\ CountFollows(r, row) /\ SlotFollows(r, row) /\ BecomesActive(r, row)

LEMMA SameKinds ==
  ASSUME layout' = layout
  PROVE  /\ \A r : SessionOf(r)' = SessionOf(r) /\ TenantOf(r)' = TenantOf(r)
         /\ \A t : RunsOf(t)' = RunsOf(t)
  BY DEF SessionOf, UserOf, TenantOf, RunsOf

LEMMA RowsAfter ==
  ASSUME QueueInv, NEW r \in Runs, NEW row, Moves(r, row)
  PROVE  /\ run'[r] = row
         /\ \A q \in Runs \ {r} : run'[q] = run[q]
         /\ run' \in [Runs -> RunRows]
         /\ RowsSound'
         /\ \A q \in Runs : run'[q].attempts >= run[q].attempts
<1>1. run \in [Runs -> RunRows] /\ row \in RunRows /\ OneRow(r, row)
  BY DEF QueueInv, QueueTypes, Moves
<1>2. run'[r] = row /\ (\A q \in Runs \ {r} : run'[q] = run[q]) /\ run' \in [Runs -> RunRows]
  BY <1>1 DEF OneRow
<1>3. RowsSound'
  <2> SUFFICES ASSUME NEW q \in Runs PROVE RowSound(run'[q])
    BY DEF RowsSound, RowSound
  <2>1. CASE q = r  BY <2>1, <1>2 DEF Moves
  <2>2. CASE q # r  BY <2>2, <1>2 DEF QueueInv, RowsSound
  <2> QED  BY <2>1, <2>2
<1>4. \A q \in Runs : run'[q].attempts >= run[q].attempts
  <2> SUFFICES ASSUME NEW q \in Runs PROVE run'[q].attempts >= run[q].attempts
    OBVIOUS
  <2>1. run[q].attempts \in Nat  BY <1>1 DEF RunRows
  <2>2. CASE q = r  BY <2>2, <1>2 DEF Moves
  <2>3. CASE q # r  BY <2>1, <2>3, <1>2
  <2> QED  BY <2>2, <2>3
<1> QED  BY <1>2, <1>3, <1>4

LEMMA CountersAfter ==
  ASSUME QueueInv, NEW r \in Runs, NEW row, Moves(r, row)
  PROVE  Counted' /\ activeRuns' \in [Tenants -> Nat]
<1>0. /\ run'[r] = row /\ (\A q \in Runs \ {r} : run'[q] = run[q]) /\ run' \in [Runs -> RunRows]
      /\ \A q \in Runs : run'[q].attempts >= run[q].attempts
  BY RowsAfter
<1> USE <1>0
<1>1. layout' = layout /\ CountFollows(r, row)  BY DEF Moves
<1>2. \A t \in Tenants : IsFiniteSet(Claimed(t)) /\ Claimed(t) \subseteq Runs
  <2>1. \A t \in Tenants : Claimed(t) \subseteq Runs  BY DEF Claimed, RunsOf
  <2> QED  BY <2>1, RunsAssumption, FS_Subset
<1>3. \A t \in Tenants : activeRuns[t] = Cardinality(Claimed(t)) /\ activeRuns[t] \in Nat
  BY DEF QueueInv, Counted, QueueTypes
<1>4. activeRuns \in [Tenants -> Nat] /\ TenantOf(r) \in Tenants /\ r \in RunsOf(TenantOf(r))
  BY WhoIsWho DEF QueueInv, QueueTypes
<1> DEFINE T == TenantOf(r)
           Before(t) == {q \in RunsOf(t) : run[q].hash # 0}
           After(t) == {q \in RunsOf(t) : run'[q].hash # 0}
<1>5. \A t : Claimed(t) = Before(t) /\ Claimed(t)' = After(t)
  BY <1>1, SameKinds DEF Claimed
<1> HIDE DEF T
<1>6. T \in Tenants /\ r \in RunsOf(T) /\ (\A t : RunsOf(t) \subseteq Runs)
  BY <1>4 DEF T, RunsOf
<1>6a. \A t \in Tenants : t # T => After(t) = Before(t)
  BY <1>0 DEF T, RunsOf
<1>6b. \A t \in Tenants : IsFiniteSet(Before(t)) /\ activeRuns[t] = Cardinality(Before(t)) /\ activeRuns[t] \in Nat
  BY <1>2, <1>3, <1>5
<1>6c. ASSUME \A t \in Tenants : activeRuns'[t] = Cardinality(After(t))
       PROVE  Counted'
  BY <1>5, <1>6c DEF Counted
<1> HIDE DEF Before, After
<1>7. CASE (run[r].hash = 0) = (row.hash = 0) /\ activeRuns' = activeRuns
  <2>1. \A q \in Runs : (run'[q].hash = 0) = (run[q].hash = 0)  BY <1>0, <1>7
  <2>2. \A t \in Tenants : After(t) = Before(t)  BY <2>1, <1>6 DEF After, Before
  <2>3. \A t \in Tenants : activeRuns'[t] = Cardinality(After(t))  BY <2>2, <1>6b, <1>7
  <2> QED  BY <2>3, <1>6c, <1>4, <1>7
<1>8. CASE /\ run[r].hash = 0 /\ row.hash # 0
           /\ activeRuns' = [activeRuns EXCEPT ![T] = @ + 1]
  <2>1. After(T) = Before(T) \cup {r} /\ r \notin Before(T)
    BY <1>0, <1>6, <1>8 DEF After, Before
  <2>2. Cardinality(After(T)) = Cardinality(Before(T)) + 1
    BY <2>1, <1>6, <1>6b, FS_AddElement
  <2>3. ASSUME NEW t \in Tenants PROVE activeRuns'[t] = Cardinality(After(t))
    <3>1. CASE t = T  BY <3>1, <2>2, <1>6b, <1>4, <1>8
    <3>2. CASE t # T  BY <3>2, <1>6a, <1>6b, <1>4, <1>8
    <3> QED  BY <3>1, <3>2
  <2>4. activeRuns' \in [Tenants -> Nat]  BY <1>4, <1>6, <1>8
  <2> QED  BY <2>3, <2>4, <1>6c
<1>9. CASE /\ run[r].hash # 0 /\ row.hash = 0
           /\ activeRuns' = [activeRuns EXCEPT ![T] = IF @ = 0 THEN 0 ELSE @ - 1]
  <2>1. After(T) = Before(T) \ {r} /\ r \in Before(T)
    BY <1>0, <1>6, <1>9 DEF After, Before
  <2>2. Cardinality(After(T)) = Cardinality(Before(T)) - 1
    BY <2>1, <1>6, <1>6b, FS_RemoveElement
  <2>3. Cardinality(Before(T)) # 0  BY <2>1, <1>6, <1>6b, FS_EmptySet
  <2>4. ASSUME NEW t \in Tenants PROVE activeRuns'[t] = Cardinality(After(t))
    <3>1. CASE t = T  BY <3>1, <2>2, <2>3, <1>6b, <1>4, <1>9
    <3>2. CASE t # T  BY <3>2, <1>6a, <1>6b, <1>4, <1>9
    <3> QED  BY <3>1, <3>2
  <2>5. activeRuns' \in [Tenants -> Nat]  BY <1>4, <1>6, <1>9
  <2> QED  BY <2>4, <2>5, <1>6c
<1> QED  BY <1>1, <1>7, <1>8, <1>9 DEF CountFollows, T

LEMMA SessionsAfter ==
  ASSUME QueueInv, NEW r \in Runs, NEW row, Moves(r, row)
  PROVE  OneActive' /\ SlotHeld' /\ slot' \in [Sessions -> Runs \cup {NoRun}]
<1>0. /\ run'[r] = row /\ (\A q \in Runs \ {r} : run'[q] = run[q]) /\ run' \in [Runs -> RunRows]
      /\ \A q \in Runs : run'[q].attempts >= run[q].attempts
  BY RowsAfter
<1> USE <1>0
<1>1. /\ layout' = layout /\ SlotFollows(r, row) /\ BecomesActive(r, row)
      /\ slot \in [Sessions -> Runs \cup {NoRun}] /\ SessionOf(r) \in Sessions
  BY WhoIsWho DEF Moves, QueueInv, QueueTypes
<1>2. \A q : SessionOf(q)' = SessionOf(q)  BY <1>1, SameKinds
<1>3. \A q \in Runs : SessionOf(q) \in Sessions  BY WhoIsWho DEF QueueInv
<1>4. slot' \in [Sessions -> Runs \cup {NoRun}]  BY <1>1 DEF SlotFollows, FreeSlot
<1>5. OneActive'
  <2> SUFFICES ASSUME NEW p \in Runs, NEW q \in Runs, p # q, SessionOf(p) = SessionOf(q),
                      layout[p].kind = "main", layout[q].kind = "main",
                      run'[p].status \in Active, run'[q].status \in Active
               PROVE  FALSE
    BY <1>1, <1>2 DEF OneActive, Active
  <2>1. CASE p # r /\ q # r  BY <2>1 DEF QueueInv, OneActive
  <2>2. CASE p = r
    <3>1. run[q].status \in Active  BY <2>2
    <3>2. ~SessionIsFree(r)  BY <3>1, <2>2 DEF SessionIsFree
    <3>3. run[r].status \in Active  BY <3>2, <2>2, <1>1 DEF BecomesActive
    <3> QED  BY <3>1, <3>3, <2>2 DEF QueueInv, OneActive
  <2>3. CASE q = r
    <3>1. run[p].status \in Active  BY <2>3
    <3>2. ~SessionIsFree(r)  BY <3>1, <2>3 DEF SessionIsFree
    <3>3. run[r].status \in Active  BY <3>2, <2>3, <1>1 DEF BecomesActive
    <3> QED  BY <3>1, <3>3, <2>3 DEF QueueInv, OneActive
  <2> QED  BY <2>1, <2>2, <2>3
<1> DEFINE StillTaken(s) ==
      \E q \in Runs : SessionOf(q) = s /\ layout[q].kind = "detail" /\ run'[q].attempts > 0
<1>6. \A s : TakenOver(s) => StillTaken(s)
  <2> SUFFICES ASSUME NEW s, NEW q \in Runs, SessionOf(q) = s, layout[q].kind = "detail", run[q].attempts > 0
               PROVE  StillTaken(s)
    BY DEF TakenOver
  <2>1. run[q].attempts \in Nat /\ run'[q].attempts \in Nat /\ run'[q].attempts >= run[q].attempts
    BY DEF QueueInv, QueueTypes, RunRows
  <2> QED  BY <2>1
<1>7. ASSUME NEW q \in Runs, run'[q].status = "running", run'[q].hash # 0
      PROVE  slot'[SessionOf(q)] = q \/ StillTaken(SessionOf(q))
  <2> DEFINE s == SessionOf(q)
  <2>1. CASE q # r
    <3>1. slot[s] = q \/ TakenOver(s)
      BY <2>1, <1>7 DEF QueueInv, SlotHeld
    <3>2. CASE slot[s] = q
      <4>1. CASE slot' = slot  BY <4>1, <3>2
      <4>2. CASE slot' = FreeSlot(r)  BY <4>2, <3>2, <2>1, <1>1, <1>3 DEF FreeSlot
      <4>3. CASE slot' = [slot EXCEPT ![SessionOf(r)] = r] /\ slot[SessionOf(r)] \in {NoRun, r}
        BY <4>3, <3>2, <2>1, <1>1, <1>3, RunsAssumption DEF NoRun
      <4>4. CASE slot' = [slot EXCEPT ![SessionOf(r)] = r] /\ layout[r].kind = "detail" /\ row.attempts > 0
        <5>1. CASE SessionOf(r) = s  BY <5>1, <4>4, <1>1
        <5>2. CASE SessionOf(r) # s  BY <5>2, <4>4, <3>2, <1>1, <1>3
        <5> QED  BY <5>1, <5>2
      <4> QED  BY <4>1, <4>2, <4>3, <4>4, <1>1 DEF SlotFollows
    <3> QED  BY <3>1, <3>2, <1>6
  <2>2. CASE q = r
    <3>1. CASE slot' = slot /\ run[r].status = "running" /\ run[r].hash # 0
      <4>1. slot[s] = q \/ TakenOver(s)  BY <3>1, <2>2 DEF QueueInv, SlotHeld
      <4> QED  BY <4>1, <3>1, <1>6
    <3>2. CASE slot' = [slot EXCEPT ![SessionOf(r)] = r]  BY <3>2, <2>2, <1>1
    <3> QED  BY <3>1, <3>2, <2>2, <1>1, <1>7 DEF SlotFollows
  <2> QED  BY <2>1, <2>2
<1>8. SlotHeld'  BY <1>7, <1>2, <1>1 DEF SlotHeld, TakenOver
<1> QED  BY <1>4, <1>5, <1>8

\* CancellationWins, of one step
WinsStep ==
  \A r \in Runs :
    /\ run[r].status \in Ended => run'[r].status = run[r].status
    /\ run[r].cancel /\ run[r].hash # 0 => run'[r].status \notin {"completed", "failed"}

Wins(r, row) ==
  /\ run[r].status \in Ended => row.status = run[r].status
  /\ run[r].cancel /\ run[r].hash # 0 => row.status \notin {"completed", "failed"}

PlacesStep == layout' = layout /\ \A r \in Runs : run'[r] = run[r] \/ Keeps(r, run'[r])

GoodStep == QueueInv' /\ WinsStep /\ PlacesStep

LEMMA MovesKeep ==
  ASSUME QueueInv, NEW r \in Runs, NEW row, Moves(r, row), Wins(r, row),
         second' \in Int,
         cancelling'.run = NoRun \/ (cancelling'.run \in Runs /\ run[cancelling'.run].status # "absent")
  PROVE  GoodStep
<1>1. layout' \in [Runs -> RunKinds]  BY DEF Moves, QueueInv, QueueTypes
<1>2. PlacesStep
  BY RowsAfter DEF PlacesStep, Moves
<1>2a. cancelling'.run = NoRun \/ (cancelling'.run \in Runs /\ run'[cancelling'.run].status # "absent")
  BY <1>2 DEF PlacesStep, Keeps
<1>2b. QueueInv'
  BY <1>1, <1>2a, RowsAfter, CountersAfter, SessionsAfter DEF QueueInv, QueueTypes
<1>3. WinsStep
  <2> SUFFICES ASSUME NEW q \in Runs
      PROVE  /\ run[q].status \in Ended => run'[q].status = run[q].status
             /\ run[q].cancel /\ run[q].hash # 0 => run'[q].status \notin {"completed", "failed"}
    BY DEF WinsStep
  <2>1. CASE q = r  BY <2>1, RowsAfter DEF Wins
  <2>2. CASE q # r
    <3>1. run'[q] = run[q]  BY <2>2, RowsAfter
    <3>2. RowSound(run[q])  BY DEF QueueInv, RowsSound
    <3> QED  BY <3>1, <3>2 DEF RowSound
  <2> QED  BY <2>1, <2>2
<1> QED  BY <1>2, <1>2b, <1>3 DEF GoodStep

LEMMA SameKeeps ==
  ASSUME QueueInv, SameQueue, second' \in Int,
         cancelling'.run = NoRun \/ (cancelling'.run \in Runs /\ run[cancelling'.run].status # "absent")
  PROVE  GoodStep
<1>1. /\ layout' = layout /\ run' = run /\ slot' = slot /\ activeRuns' = activeRuns
  BY DEF SameQueue, queueVars
<1>2. QueueTypes' /\ RowsSound'  BY <1>1 DEF QueueInv, QueueTypes, RowsSound, RowSound
<1>3. Counted'  BY <1>1, SameKinds DEF QueueInv, Counted, Claimed
<1>4. OneActive' /\ SlotHeld'
  BY <1>1, SameKinds DEF QueueInv, OneActive, SlotHeld, TakenOver
<1>5. WinsStep  BY <1>1 DEF QueueInv, RowsSound, RowSound, WinsStep
<1> QED  BY <1>1, <1>2, <1>3, <1>4, <1>5 DEF QueueInv, GoodStep, PlacesStep

LEMMA RowNow ==
  ASSUME QueueInv, NEW r \in Runs
  PROVE  /\ run \in [Runs -> RunRows] /\ run[r] \in RunRows /\ RowSound(run[r])
         /\ second \in Int
         /\ cancelling.run = NoRun \/ (cancelling.run \in Runs /\ run[cancelling.run].status # "absent")
         /\ SessionOf(r) \in Sessions /\ slot \in [Sessions -> Runs \cup {NoRun}]
  BY WhoIsWho DEF QueueInv, QueueTypes, RowsSound

-----------------------------------------------------------------------------
LEMMA InitGood == Init => QueueInv
<1> SUFFICES ASSUME Init PROVE QueueInv  OBVIOUS
<1> USE DEF Init
<1>0. NewRow \in RunRows
  BY DEF NewRow, RunRows, Statuses
<1>0a. RowSound(NewRow)
  BY DEF NewRow, RowSound
<1>1. NewRow \in RunRows /\ RowSound(NewRow)  BY <1>0, <1>0a
<1>2. QueueTypes
  BY <1>1, RunsAssumption DEF QueueTypes, NoRun
<1>3. RowsSound  BY <1>1 DEF RowsSound
<1>4. Counted
  <2>1. \A t : Claimed(t) = {}  BY DEF Claimed, RunsOf, NewRow
  <2> QED  BY <2>1, FS_EmptySet DEF Counted
<1>5. OneActive /\ SlotHeld  BY DEF OneActive, SlotHeld, NewRow, Active
<1> QED  BY <1>2, <1>3, <1>4, <1>5 DEF QueueInv

LEMMA AppendMessageGood ==
  ASSUME QueueInv, NEW r \in Runs, AppendMessage(r)
  PROVE  GoodStep
<1> DEFINE row == [run[r] EXCEPT !.status = "queued", !.queuedAt = second]
<1> USE RowNow DEF AppendMessage, settingVars
<1>1. row \in RunRows /\ OneRow(r, row)
  BY DEF RunRows, OneRow, Statuses, Active
<1>2. RowSound(row) /\ row.attempts >= run[r].attempts /\ row.hash = run[r].hash
  BY DEF RowSound, RunRows
<1>3. SlotFollows(r, row)  BY DEF SlotFollows, SessionIsFree, RunRows
<1>4. BecomesActive(r, row)  BY DEF BecomesActive
<1>4a. Keeps(r, row)  BY DEF Keeps, RunRows, Active
<1>5. Moves(r, row)  BY <1>1, <1>2, <1>3, <1>4, <1>4a DEF Moves, CountFollows
<1>6. Wins(r, row)  BY DEF Wins, Ended, RunRows
<1> QED  BY <1>5, <1>6, MovesKeep

LEMMA OpenDetailGood ==
  ASSUME QueueInv, NEW r \in Runs, OpenDetail(r)
  PROVE  GoodStep
<1> DEFINE row == [run[r] EXCEPT !.status = "running", !.queuedAt = second,
                                 !.attempts = 1, !.open = 1, !.lease = "live"]
<1> USE RowNow DEF OpenDetail, settingVars
<1>1a. row \in RunRows  BY ZenonT(30) DEF RunRows, Statuses, Active
<1>1b. OneRow(r, row)  BY DEF OneRow
<1>1. row \in RunRows /\ OneRow(r, row)  BY <1>1a, <1>1b
<1>2. RowSound(row) /\ row.attempts >= run[r].attempts /\ row.hash = run[r].hash
  BY DEF RowSound, RunRows
<1>3. SlotFollows(r, row)  BY DEF SlotFollows, RunRows
<1>4. BecomesActive(r, row)  BY DEF BecomesActive
<1>4a. Keeps(r, row)  BY DEF Keeps, RunRows, Active
<1>5. Moves(r, row)  BY <1>1, <1>2, <1>3, <1>4, <1>4a DEF Moves, CountFollows
<1>6. Wins(r, row)  BY DEF Wins, Ended, RunRows
<1> QED  BY <1>5, <1>6, MovesKeep

LEMMA CancelReadGood ==
  ASSUME QueueInv, NEW r \in Runs, CancelRead(r)
  PROVE  GoodStep
<1>1. SameQueue /\ second' = second  BY DEF CancelRead, SameQueue, settingVars
<1>2. cancelling'.run = r /\ run[r].status # "absent"  BY DEF CancelRead, Active, Waiting
<1> QED  BY <1>1, <1>2, RowNow, SameKeeps

LEMMA CancelRunGood ==
  ASSUME QueueInv, CancelRun
  PROVE  GoodStep
<1> DEFINE r == cancelling.run
<1> USE DEF CancelRun, settingVars
<1>1. r \in Runs /\ second' \in Int /\ cancelling'.run = NoRun /\ layout' = layout
      /\ activeRuns' = activeRuns
  BY DEF QueueInv, QueueTypes
<1>2. /\ run \in [Runs -> RunRows] /\ run[r] \in RunRows /\ RowSound(run[r])
      /\ run[r].status # "absent"
  BY <1>1, RowNow
<1> HIDE DEF r
<1>3. CASE run[r].status \in Ended
  BY <1>3, <1>1, SameKeeps DEF SameQueue, queueVars, r
<1>4. CASE run[r].status \notin Ended /\ cancelling.seen = "running"
  <2> DEFINE row == [run[r] EXCEPT !.cancel = TRUE]
  <2>0. CancelAsk(r)  BY <1>4 DEF r
  <2>1. row \in RunRows /\ OneRow(r, row) /\ slot' = slot
    BY <1>1, <1>2, <2>0 DEF RunRows, OneRow, CancelAsk
  <2>2. RowSound(row) /\ row.attempts >= run[r].attempts /\ row.hash = run[r].hash /\ row.status = run[r].status
    BY <1>2 DEF RowSound, RunRows
  <2>2a. Keeps(r, row)  BY <1>2 DEF Keeps, RunRows, Active
  <2>3. Moves(r, row)
    BY <1>1, <2>1, <2>2, <2>2a DEF Moves, CountFollows, SlotFollows, BecomesActive
  <2>4. Wins(r, row)  BY <1>4, <2>2 DEF Wins, Ended
  <2> QED  BY <2>3, <2>4, <1>1, MovesKeep
<1>5. CASE run[r].status \notin Ended /\ cancelling.seen # "running"
  <2> DEFINE row == [run[r] EXCEPT !.status = "cancelled", !.open = 0]
  <2>0. CancelNow(r)  BY <1>5 DEF r
  <2>1. row \in RunRows /\ OneRow(r, row) /\ slot' = FreeSlot(r)
    BY <1>1, <1>2, <2>0 DEF RunRows, OneRow, CancelNow, Statuses, Ended
  <2>2. RowSound(row) /\ row.attempts >= run[r].attempts /\ row.hash = run[r].hash /\ row.status = "cancelled"
    BY <1>2 DEF RowSound, RunRows
  <2>2a. Keeps(r, row)  BY <1>2 DEF Keeps, RunRows, Active
  <2>3. Moves(r, row)
    BY <1>1, <2>1, <2>2, <2>2a DEF Moves, CountFollows, SlotFollows, BecomesActive, Active
  <2>4. Wins(r, row)  BY <1>5, <2>2 DEF Wins
  <2> QED  BY <2>3, <2>4, <1>1, MovesKeep
<1> QED  BY <1>3, <1>4, <1>5

-----------------------------------------------------------------------------
LEMMA ClaimGood ==
  ASSUME QueueInv, NEW g, NEW r \in Runs, Claimable(r), Claim(g, r), Taken(r),
         g \in Gateways, UNCHANGED <<cancelling, settingVars>>
  PROVE  GoodStep
<1> DEFINE row == [run[r] EXCEPT !.status = "running", !.attempts = @ + 1,
                     !.open = run[r].attempts + 1, !.gateway = g,
                     !.hash = run[r].attempts + 1, !.lease = "live"]
<1>0. ClaimRow(g, r)  BY DEF Claim
<1>0a. run[r] \in RunRows  BY RowNow
<1>0b. run[r].attempts \in Nat /\ "running" \in Statuses  BY <1>0a DEF RunRows, Statuses, Active
<1>1a. row \in RunRows
  <2> DEFINE old == run[r]
             n == old.attempts + 1
             begun == [old EXCEPT !.status = "running", !.attempts = n, !.open = n]
  <2>1. old \in RunRows /\ n \in Nat  BY <1>0a, <1>0b
  <2>2. row = [begun EXCEPT !.gateway = g, !.hash = n, !.lease = "live"]
    BY <2>1 DEF RunRows
  <2> HIDE DEF old, n, row
  <2>3. begun \in RunRows  BY <2>1, <1>0b DEF RunRows
  <2> HIDE DEF begun
  <2> QED  BY <2>1, <2>2, <2>3 DEF RunRows
<1>1b. OneRow(r, row)  BY <1>0, RowNow DEF RunRows, OneRow, ClaimRow
<1>1. row \in RunRows /\ OneRow(r, row)  BY <1>1a, <1>1b
<1> USE RowNow DEF Claim, Claimable, settingVars
<1>2a. /\ run[r].status = "queued" /\ run[r].attempts \in Nat /\ run[r].retries \in Nat
       /\ run[r].hash = 0 /\ run[r].attempts <= run[r].retries /\ run[r].retries <= 1
  BY DEF RowSound, RunRows
<1>2b. /\ row.status = "running" /\ row.retries = run[r].retries
       /\ row.attempts = run[r].attempts + 1 /\ row.open = run[r].attempts + 1
       /\ row.hash = run[r].attempts + 1
  BY DEF RunRows
<1> HIDE DEF row
<1>2. RowSound(row) /\ row.attempts >= run[r].attempts /\ run[r].hash = 0 /\ row.hash # 0
  BY <1>2a, <1>2b DEF RowSound
<1>3. SlotFollows(r, row)  BY DEF SlotFollows
<1>4. BecomesActive(r, row)  BY DEF BecomesActive, Active
<1>4a. Keeps(r, row)  BY <1>2a DEF row, Keeps, RunRows, Active
<1>5. Moves(r, row)  BY <1>1, <1>2, <1>3, <1>4, <1>4a DEF Moves, CountFollows
<1>6. Wins(r, row)  BY <1>2a DEF Wins, Ended
<1> QED  BY <1>5, <1>6, MovesKeep

LEMMA ClaimStepGood ==
  ASSUME QueueInv, NEW g \in Gateways, ClaimStep(g) \/ ClaimFails(g)
  PROVE  GoodStep
<1> USE DEF settingVars, queueVars
<1>1. second \in Int /\ (cancelling.run = NoRun \/ (cancelling.run \in Runs /\ run[cancelling.run].status # "absent"))
  BY DEF QueueInv, QueueTypes
<1>2. CASE Look(g)  BY <1>1, <1>2, SameKeeps DEF Look, SameQueue
<1>3. CASE ClaimFails(g)  BY <1>1, <1>3, SameKeeps DEF ClaimFails, GiveUpClaim, SameQueue
<1>4. CASE Try(g)
  <2>1. PICK r \in Runs :
          \/ Claimable(r) /\ Claim(g, r) /\ Taken(r)
          \/ NextCandidate(g) \/ GiveUpClaim(g)
    BY <1>4 DEF Try, Taken
  <2>2. UNCHANGED <<cancelling, settingVars>>  BY <1>4 DEF Try
  <2>3. CASE Claimable(r) /\ Claim(g, r) /\ Taken(r)  BY <2>2, <2>3, ClaimGood
  <2>4. CASE NextCandidate(g) \/ GiveUpClaim(g)
    BY <1>1, <2>2, <2>4, SameKeeps DEF NextCandidate, GiveUpClaim, SameQueue
  <2> QED  BY <2>1, <2>3, <2>4
<1> QED  BY <1>2, <1>3, <1>4 DEF ClaimStep

LEMMA NoLeaseRow ==
  ASSUME QueueInv, NEW r \in Runs, run[r].status = "running",
         NEW status \in {"queued", "clarification"} \cup Ended
  PROVE  LET row == NoLease(r, status) IN
           /\ row \in RunRows /\ row.status = status /\ row.open = 0 /\ row.hash = 0
           /\ row.attempts = run[r].attempts /\ row.retries = run[r].retries
           /\ row.queuedAt = run[r].queuedAt
  BY ZenonT(30), RowNow DEF NoLease, RunRows, Statuses, Ended, Active, Waiting

(***************************************************************************)
(* A running run is ended; if it was cancelled, as cancelled.              *)
(***************************************************************************)
LEMMA SettleGood ==
  ASSUME QueueInv, NEW r \in Runs, run[r].status = "running",
         NEW outcome \in Ended, run[r].cancel => outcome = "cancelled",
         Settle(r, outcome)
  PROVE  GoodStep
<1> DEFINE row == NoLease(r, outcome)
<1> USE RowNow DEF Settle, settingVars
<1>1. /\ row \in RunRows /\ row.status = outcome /\ row.open = 0 /\ row.hash = 0
      /\ row.attempts = run[r].attempts /\ row.retries = run[r].retries
      /\ row.queuedAt = run[r].queuedAt
  BY NoLeaseRow
<1> HIDE DEF row
<1>2. OneRow(r, row)  BY DEF OneRow, row
<1>3. RowSound(row) /\ row.attempts >= run[r].attempts
  BY <1>1 DEF RowSound, RunRows, Ended
<1>4. CountFollows(r, row)  BY <1>1 DEF CountFollows, Released
<1>5. SlotFollows(r, row) /\ BecomesActive(r, row)
  BY <1>1 DEF SlotFollows, BecomesActive, Active, Ended
<1>5a. Keeps(r, row)  BY <1>1 DEF Keeps, Active, Ended
<1>6. Moves(r, row)  BY <1>1, <1>2, <1>3, <1>4, <1>5, <1>5a DEF Moves
<1>7. Wins(r, row)  BY <1>1 DEF Wins, Ended
<1> QED  BY <1>6, <1>7, MovesKeep

LEMMA WorkerStepGood ==
  ASSUME QueueInv, NEW r \in Runs, WorkerStep(r)
  PROVE  GoodStep
<1>1. CASE \E a \in 1..2, outcome \in Ended : Terminal(r, a, outcome)
  <2>1. PICK outcome \in Ended : run[r].status = "running" /\ Settle(r, Effective(r, outcome))
    BY <1>1 DEF Terminal, Leased
  <2>2. Effective(r, outcome) \in Ended /\ (run[r].cancel => Effective(r, outcome) = "cancelled")
    BY DEF Effective, Ended
  <2> QED  BY <2>1, <2>2, SettleGood
<1>2. CASE \E a \in 1..2 : Clarify(r, a)
  <2> DEFINE row == [run[r] EXCEPT !.status = "clarification", !.open = 0]
  <2> USE <1>2, RowNow DEF Clarify, Leased, settingVars
  <2>1. row \in RunRows /\ OneRow(r, row)
    BY DEF RunRows, OneRow, Statuses, Waiting
  <2>2. RowSound(row) /\ row.attempts >= run[r].attempts /\ row.hash = run[r].hash
    BY DEF RowSound, RunRows
  <2>3. SlotFollows(r, row) /\ BecomesActive(r, row)
    BY DEF SlotFollows, BecomesActive, Active, RunRows
  <2>3a. Keeps(r, row)  BY DEF Keeps, RunRows, Active, Ended
  <2>4. Moves(r, row)  BY <2>1, <2>2, <2>3, <2>3a DEF Moves, CountFollows
  <2>5. Wins(r, row)  BY DEF Wins, Ended, RunRows
  <2> QED  BY <2>4, <2>5, MovesKeep
<1>3. ASSUME NEW outcome \in Ended \cup {"paused"}, DetailEnds(r, outcome)
      PROVE  GoodStep
  <2> DEFINE row == [run[r] EXCEPT !.status = outcome, !.open = 0, !.lease = "null"]
  <2> USE <1>3, RowNow DEF DetailEnds, settingVars
  <2>1a. row \in RunRows  BY ZenonT(30) DEF RunRows, Statuses, Waiting
  <2>1b. OneRow(r, row)  BY DEF OneRow
  <2>1. row \in RunRows /\ OneRow(r, row)  BY <2>1a, <2>1b
  <2>2. RowSound(row) /\ row.attempts >= run[r].attempts /\ row.hash = run[r].hash
    BY DEF RowSound, RunRows, Ended
  <2>3. SlotFollows(r, row) /\ BecomesActive(r, row)
    BY DEF SlotFollows, BecomesActive, Active, RunRows, Ended
  <2>3a. Keeps(r, row)  BY DEF Keeps, RunRows, Active, Ended
  <2>4. Moves(r, row)  BY <2>1, <2>2, <2>3, <2>3a DEF Moves, CountFollows
  <2>5. Wins(r, row)  BY DEF Wins, Ended, RunRows
  <2> QED  BY <2>4, <2>5, MovesKeep
<1> QED  BY <1>1, <1>2, <1>3 DEF WorkerStep

LEMMA LeaseRunsOutGood ==
  ASSUME QueueInv, NEW r \in Runs, LeaseRunsOut(r)
  PROVE  GoodStep
<1> DEFINE row == [run[r] EXCEPT !.lease = "lapsed"]
<1> USE RowNow DEF LeaseRunsOut, settingVars, queueVars
<1>1. row \in RunRows /\ OneRow(r, row)  BY DEF RunRows, OneRow
<1>2. RowSound(row) /\ row.attempts >= run[r].attempts /\ row.hash = run[r].hash
  BY DEF RowSound, RunRows
<1>3. SlotFollows(r, row) /\ BecomesActive(r, row)
  BY DEF SlotFollows, BecomesActive, Active, RunRows
<1>3a. Keeps(r, row)  BY DEF Keeps, RunRows, Active
<1>4. Moves(r, row)  BY <1>1, <1>2, <1>3, <1>3a DEF Moves, CountFollows
<1>5. Wins(r, row)  BY DEF Wins, Ended, RunRows
<1> QED  BY <1>4, <1>5, MovesKeep

LEMMA RequeueGood ==
  ASSUME QueueInv, NEW r \in Runs, run[r].status = "running", ~run[r].cancel,
         RetryAllowed(r), Requeue(r)
  PROVE  GoodStep
<1> DEFINE plain == NoLease(r, "queued")
           row == [plain EXCEPT !.retries = @ + 1]
<1> USE RowNow DEF Requeue, settingVars
<1>1. /\ plain \in RunRows /\ plain.status = "queued" /\ plain.open = 0 /\ plain.hash = 0
      /\ plain.attempts = run[r].attempts /\ plain.retries = run[r].retries
      /\ plain.queuedAt = run[r].queuedAt
  BY NoLeaseRow
<1>2. OneRow(r, row)  BY DEF OneRow
<1> HIDE DEF plain
<1>3a. row \in RunRows  BY <1>1 DEF RunRows
<1>3. /\ row.status = "queued" /\ row.open = 0 /\ row.hash = 0 /\ row \in RunRows
      /\ row.attempts = run[r].attempts /\ row.retries = run[r].retries + 1
      /\ row.queuedAt = run[r].queuedAt
  BY <1>1, <1>3a DEF RunRows
<1> HIDE DEF row
<1>4. RowSound(row) /\ row.attempts >= run[r].attempts
  BY <1>3 DEF RowSound, RunRows, RetryAllowed
<1>5. CountFollows(r, row)  BY <1>3 DEF CountFollows, Released
<1>6. SlotFollows(r, row) /\ BecomesActive(r, row)
  BY <1>3 DEF SlotFollows, BecomesActive, Active
<1>6a. Keeps(r, row)  BY <1>3 DEF Keeps, Active
<1>7. Moves(r, row)  BY <1>2, <1>3, <1>4, <1>5, <1>6, <1>6a DEF Moves
<1>8. Wins(r, row)  BY <1>3 DEF Wins, Ended
<1> QED  BY <1>7, <1>8, MovesKeep

LEMMA RecoveryGood ==
  ASSUME QueueInv, NEW r \in Runs, Recovery(r)
  PROVE  GoodStep
<1>1. CASE CancelExpiredRun(r)
  BY <1>1, SettleGood DEF CancelExpiredRun, Lapsed, Ended
<1>2. ASSUME NEW v \in Verdicts, RecoverExpiredRun(r, v)
      PROVE  GoodStep
  <2>1. run[r].status = "running" /\ ~run[r].cancel  BY <1>2 DEF RecoverExpiredRun, Lapsed
  <2>2. \/ Settle(r, "completed") \/ Settle(r, "failed")
        \/ RetryAllowed(r) /\ Requeue(r)
    BY <1>2 DEF RecoverExpiredRun
  <2> QED  BY <2>1, <2>2, SettleGood, RequeueGood DEF Ended
<1> QED  BY <1>1, <1>2 DEF Recovery

LEMMA SettingsGood ==
  ASSUME QueueInv,
         \/ \E g \in Drainable : SetGatewayMode(g)
         \/ \E t \in Suspendable : SetLicense(t)
         \/ NextSecond
         \/ UNCHANGED vars
  PROVE  GoodStep
<1>1. SameQueue /\ cancelling' = cancelling /\ second' \in Int /\ run' = run
  BY DEF SetGatewayMode, SetLicense, NextSecond, vars, SameQueue, queueVars, QueueInv, QueueTypes
<1> QED  BY <1>1, SameKeeps DEF QueueInv, QueueTypes

LEMMA StepsAreGood == QueueInv /\ [Next]_vars => GoodStep
<1> SUFFICES ASSUME QueueInv, [Next]_vars PROVE GoodStep  OBVIOUS
<1>1. ASSUME NEW r \in Runs, ApiStep(r) PROVE GoodStep
  BY <1>1, AppendMessageGood, OpenDetailGood, CancelReadGood DEF ApiStep
<1>2. ASSUME NEW r \in Runs, WorkerStep(r) \/ LeaseRunsOut(r) \/ Recovery(r) PROVE GoodStep
  BY <1>2, WorkerStepGood, LeaseRunsOutGood, RecoveryGood
<1>3. CASE CancelRun  BY <1>3, CancelRunGood
<1>4. ASSUME NEW g \in Gateways, ClaimStep(g) \/ ClaimFails(g) PROVE GoodStep
  BY <1>4, ClaimStepGood
<1>5. CASE \/ \E g \in Drainable : SetGatewayMode(g)
           \/ \E t \in Suspendable : SetLicense(t)
           \/ NextSecond
           \/ UNCHANGED vars
  BY <1>5, SettingsGood
<1> QED  BY <1>1, <1>2, <1>3, <1>4, <1>5 DEF Next

-----------------------------------------------------------------------------
(***************************************************************************)
(* In every reachable state the rows, slots and counters are in step.      *)
(***************************************************************************)
THEOREM QueueInvariant == Spec => []QueueInv
<1>1. QueueInv /\ [Next]_vars => QueueInv'  BY StepsAreGood DEF GoodStep
<1> QED  BY InitGood, <1>1, PTL DEF Spec

(***************************************************************************)
(* PiTenantQueueState.active_runs is the number of the tenant's claims     *)
(* that were not released, whichever of terminal, recovery and             *)
(* cancellation comes first: release_run counts down once per token.       *)
(***************************************************************************)
THEOREM QueueCounts == Spec => []CounterMatchesClaims
<1>1. QueueInv => CounterMatchesClaims
  BY DEF QueueInv, Counted, Claimed, CounterMatchesClaims
<1> QED  BY <1>1, QueueInvariant, PTL

(***************************************************************************)
(* A lost run is done again once and never twice at a time, and two main   *)
(* runs of a session are never active together.                            *)
(***************************************************************************)
THEOREM QueueIsExclusive == Spec => []RunsAreExclusive
<1>1. QueueInv => RunsAreExclusive
  <2> SUFFICES ASSUME QueueInv PROVE RunsAreExclusive  OBVIOUS
  <2>1. OneRetry
    <3> SUFFICES ASSUME NEW r \in Runs
        PROVE  /\ run[r].retries <= 1 /\ run[r].attempts <= run[r].retries + 1
               /\ (run[r].open # 0) = (run[r].status = "running")
               /\ run[r].open # 0 => run[r].open = run[r].attempts /\ run[r].hash \in {0, run[r].open}
      BY DEF OneRetry
    <3> QED  BY RowNow DEF RowSound
  <2>2. SessionMutex
    BY DEF QueueInv, OneActive, SlotHeld, TakenOver, SessionMutex
  <2> QED  BY <2>1, <2>2 DEF RunsAreExclusive
<1> QED  BY <1>1, QueueInvariant, PTL

(***************************************************************************)
(* No main run that the user asked to cancel completes or fails, however   *)
(* late or lost its worker is, and an ended run stays as it ended.         *)
(***************************************************************************)
THEOREM QueueCancellationWins == Spec => CancellationWins
<1>1. QueueInv /\ [Next]_vars => WinsStep  BY StepsAreGood DEF GoodStep
<1>2. WinsStep =>
        \A r \in Runs :
          /\ run[r].status \in Ended => run'[r].status = run[r].status
          /\ run[r].cancel /\ run[r].hash # 0 => run'[r].status \notin {"completed", "failed"}
  BY DEF WinsStep
<1> QED  BY <1>1, <1>2, QueueInvariant, PTL DEF Spec, CancellationWins
-----------------------------------------------------------------------------
(***************************************************************************)
(* The limits.  A run keeps its place in the queue (its queued_at) when it *)
(* is claimed, lost and done again, so that those ahead of it only become  *)
(* fewer, and a Gateway that goes for the oldest run of a tenant has all   *)
(* those ahead of it among the running runs of its snapshot.  What the     *)
(* snapshot counts is then never less than what runs ahead of it now.      *)
(***************************************************************************)
Placed ==
  /\ second \in 1..LastSecond
  /\ \A r \in Runs : /\ run[r].queuedAt \in 0..second
                     /\ run[r].queuedAt = 0 <=> run[r].status = "absent"

Claims == [queue : Seq(Runs), running : SUBSET Runs, open : BOOLEAN]

Looks ==
  /\ look \in [Gateways -> Claims]
  /\ \A g \in Gateways :
       /\ look[g].open => look[g].queue # <<>>
       /\ \A i \in DOMAIN look[g].queue : run[look[g].queue[i]].status # "absent"

\* the active runs of the tenant that came before m
Ahead(m) == {q \in RunsOf(TenantOf(m)) : run[q].status \in Active /\ Older(q, m)}

RunnersFit == \A m \in Runs : run[m].status = "running" => WithinLimits(m, Ahead(m))

SnapshotsKnow ==
  \A g \in Gateways : \A i \in DOMAIN look[g].queue :
    Ahead(look[g].queue[i]) \subseteq look[g].running

LimitInv == QueueInv /\ Placed /\ Looks /\ (Orderly => RunnersFit /\ SnapshotsKnow)

-----------------------------------------------------------------------------
\* A set of numbers that is not empty has a least member.
LEMMA LeastNatural ==
  ASSUME NEW S, S \subseteq Nat, S # {}
  PROVE  \E x \in S : \A y \in S : x <= y
<1>1. PICK x \in S : \A y \in S : ~ (<<y, x>> \in OpToRel(<, Nat))
  BY WFMin, NatLessThanWellFounded
<1>2. ASSUME NEW y \in S PROVE x <= y
  <2>1. x \in Nat /\ y \in Nat  OBVIOUS
  <2>2. <<y, x>> \in OpToRel(<, Nat) <=> y < x
    <3>1. <<y, x>> \in Nat \X Nat /\ <<y, x>>[1] = y /\ <<y, x>>[2] = x  BY <2>1
    <3> QED  BY <3>1 DEF OpToRel
  <2>3. ~ (y < x)  BY <1>1, <2>2
  <2> QED  BY <2>1, <2>3
<1> QED  BY <1>2

\* A bounded one has a greatest.
LEMMA LastNatural ==
  ASSUME NEW n \in Nat, NEW S, S \subseteq 0..n, S # {}
  PROVE  \E x \in S : \A y \in S : y <= x
<1> DEFINE B == {m \in Nat : \A y \in S : y <= m}
<1>1. n \in B  OBVIOUS
<1>2. PICK b \in B : \A m \in B : b <= m  BY <1>1, LeastNatural
<1>3. b \in S
  <2> SUFFICES ASSUME b \notin S PROVE FALSE  OBVIOUS
  <2>1. b \in Nat /\ \A y \in S : y <= b /\ y # b /\ y \in Nat  OBVIOUS
  <2>2. PICK y \in S : TRUE  OBVIOUS
  <2>3. b - 1 \in Nat  BY <2>1, <2>2
  <2>4. b - 1 \in B  BY <2>1, <2>3
  <2> QED  BY <1>2, <2>1, <2>4
<1> QED  BY <1>3

(***************************************************************************)
(* The oldest of some runs is one of them, and older than the others.      *)
(***************************************************************************)
LEMMA OldestIsFirst ==
  ASSUME Placed, NEW S, S \subseteq Runs, S # {}
  PROVE  Oldest(S) \in S /\ \A r \in S \ {Oldest(S)} : Older(Oldest(S), r)
<1>0. \A r \in S : r \in Nat /\ run[r].queuedAt \in Nat
  BY RunsAssumption DEF Placed
<1> DEFINE Times == {run[r].queuedAt : r \in S}
<1>1. Times \subseteq Nat /\ Times # {}  BY <1>0
<1>2. PICK a \in Times : \A b \in Times : a <= b  BY <1>1, LeastNatural
<1> DEFINE First == {r \in S : run[r].queuedAt = a}
<1>3. First \subseteq Nat /\ First # {}  BY <1>0, <1>2
<1>4. PICK q \in First : \A r \in First : q <= r  BY <1>3, LeastNatural
<1>5. q \in S /\ \A r \in S \ {q} : Older(q, r)
  <2>1. q \in S /\ run[q].queuedAt = a  BY <1>4
  <2>2. ASSUME NEW r \in S \ {q} PROVE Older(q, r)
    <3>1. a <= run[r].queuedAt /\ a \in Nat /\ run[r].queuedAt \in Nat /\ q \in Nat /\ r \in Nat /\ q # r
      BY <1>0, <1>2, <2>1, <2>2
    <3>2. CASE run[r].queuedAt = a  BY <3>1, <3>2, <1>4, <2>1 DEF Older
    <3>3. CASE run[r].queuedAt # a  BY <3>1, <3>3, <2>1 DEF Older
    <3> QED  BY <3>2, <3>3
  <2> QED  BY <2>1, <2>2
<1> QED  BY <1>5 DEF Oldest

LEMMA OlderOrders ==
  ASSUME Placed, NEW q \in Runs, NEW r \in Runs
  PROVE  ~ (Older(q, r) /\ Older(r, q))
<1>1. q \in Nat /\ r \in Nat /\ run[q].queuedAt \in Nat /\ run[r].queuedAt \in Nat
  BY RunsAssumption DEF Placed
<1> QED  BY <1>1 DEF Older

(***************************************************************************)
(* Fewer busy runs are within the limits if more are.                      *)
(***************************************************************************)
LEMMA FewerFit ==
  ASSUME NEW r, NEW A, NEW B, A \subseteq B, B \subseteq Runs, WithinLimits(r, B)
  PROVE  WithinLimits(r, A)
<1>1. IsFiniteSet(B) /\ IsFiniteSet(A)  BY RunsAssumption, FS_Subset
<1> DEFINE mine(S) == OfUser(UserOf(r), S)
<1>2. mine(A) \subseteq mine(B) /\ mine(B) \subseteq B  BY DEF OfUser
<1>3. IsFiniteSet(mine(B)) /\ IsFiniteSet(mine(A))  BY <1>1, <1>2, FS_Subset
<1>4. /\ Cardinality(A) <= Cardinality(B) /\ Cardinality(mine(A)) <= Cardinality(mine(B))
      /\ Cardinality(A) \in Nat /\ Cardinality(B) \in Nat
      /\ Cardinality(mine(A)) \in Nat /\ Cardinality(mine(B)) \in Nat
  BY <1>1, <1>2, <1>3, FS_Subset, FS_CardinalityType
<1>5. Cardinality(B) < TenantLimit /\ Cardinality(mine(B)) < UserLimit  BY DEF WithinLimits
<1>6. TenantLimit \in Nat /\ UserLimit \in Nat  BY RunsAssumption
<1> HIDE DEF mine
<1>7. Cardinality(A) < TenantLimit /\ Cardinality(mine(A)) < UserLimit  BY <1>4, <1>5, <1>6
<1> QED  BY <1>7 DEF WithinLimits, mine
-----------------------------------------------------------------------------
(***************************************************************************)
(* What a step does to the open claims.                                    *)
(***************************************************************************)
FreshClaim(c) ==
  /\ c \in Claims /\ c.queue # <<>>
  /\ c.running = {r \in Runs : run[r].status = "running"}
  /\ \A i \in DOMAIN c.queue : \E t : Queued(t) # {} /\ c.queue[i] = Oldest(Queued(t))

LookStep(g) ==
  \/ look'[g] = look[g] \/ look'[g] = NoClaim
  \/ /\ look[g].queue # <<>> /\ Tail(look[g].queue) # <<>>
     /\ look'[g] = [look[g] EXCEPT !.queue = Tail(look[g].queue)]
  \/ UNCHANGED <<layout, run>> /\ FreshClaim(look'[g])

LooksStep == look' \in [Gateways -> Claims] /\ \A g \in Gateways : LookStep(g)

LEMMA OtherStepsDoNotLook ==
  ASSUME Looks,
         \/ \E r \in Runs : ApiStep(r) \/ WorkerStep(r) \/ LeaseRunsOut(r) \/ Recovery(r)
         \/ CancelRun
         \/ \E g \in Drainable : SetGatewayMode(g)
         \/ \E t \in Suspendable : SetLicense(t)
         \/ NextSecond
         \/ UNCHANGED vars
  PROVE  look' = look
<1>1. ASSUME NEW r \in Runs, ApiStep(r) PROVE look' = look
  BY <1>1 DEF ApiStep, AppendMessage, OpenDetail, CancelRead
<1>2. ASSUME NEW r \in Runs, WorkerStep(r) PROVE look' = look
  BY <1>2 DEF WorkerStep, Terminal, Clarify, DetailEnds, Settle
<1>3. ASSUME NEW r \in Runs, LeaseRunsOut(r) PROVE look' = look
  BY <1>3 DEF LeaseRunsOut
<1>4. ASSUME NEW r \in Runs, Recovery(r) PROVE look' = look
  <2>1. CASE CancelExpiredRun(r)  BY <2>1 DEF CancelExpiredRun, Settle
  <2>2. ASSUME NEW v \in Verdicts, RecoverExpiredRun(r, v) PROVE look' = look
    <3>1. Settle(r, "completed") \/ Settle(r, "failed") \/ Requeue(r)
      BY <2>2 DEF RecoverExpiredRun
    <3> QED  BY <3>1 DEF Settle, Requeue
  <2> QED  BY <1>4, <2>1, <2>2 DEF Recovery
<1>5. CASE CancelRun  BY <1>5 DEF CancelRun
<1>6. CASE \/ \E g \in Drainable : SetGatewayMode(g)
           \/ \E t \in Suspendable : SetLicense(t)
           \/ NextSecond
           \/ UNCHANGED vars
  BY <1>6 DEF SetGatewayMode, SetLicense, NextSecond, vars
<1> QED  BY <1>1, <1>2, <1>3, <1>4, <1>5, <1>6

LEMMA CandidatesAreFinite == IsFiniteSet(Candidates) /\ Cardinality(Candidates) \in Nat
<1>1. Candidates \subseteq Tenants  BY DEF Candidates
<1>2. IsFiniteSet(Candidates)  BY <1>1, RunsAssumption, FS_Subset
<1> QED  BY <1>2, FS_CardinalityType

LEMMA LookIsFresh ==
  ASSUME Placed, NEW g \in Gateways, Looks, Look(g)
  PROVE  UNCHANGED <<layout, run>> /\ \E c : FreshClaim(c) /\ look' = [look EXCEPT ![g] = c]
<1> DEFINE n == Cardinality(Candidates)
<1>1. PICK order \in [1..n -> Candidates] :
        look' = [look EXCEPT ![g] =
          [queue   |-> [i \in DOMAIN order |-> Oldest(Queued(order[i]))],
           running |-> {r \in Runs : run[r].status = "running"},
           open    |-> TRUE]]
  BY DEF Look
<1>2. n \in Nat /\ n # 0
  <2>1. Candidates # {}  BY DEF Look
  <2> QED  BY <2>1, CandidatesAreFinite, FS_EmptySet
<1>3. \A t \in Candidates : Queued(t) # {} /\ Queued(t) \subseteq Runs
  BY DEF Candidates, Available, Queued, RunsOf
<1>4. \A t \in Candidates : Oldest(Queued(t)) \in Runs
  BY <1>3, OldestIsFirst
<1> HIDE DEF n
<1> DEFINE q == [i \in 1..n |-> Oldest(Queued(order[i]))]
           c == [queue |-> q, running |-> {r \in Runs : run[r].status = "running"}, open |-> TRUE]
<1>5. look' = [look EXCEPT ![g] = c]
  <2>1. DOMAIN order = 1..n  OBVIOUS
  <2> QED  BY <1>1, <2>1
<1>6. \A i \in 1..n : order[i] \in Candidates  OBVIOUS
<1>7. q \in Seq(Runs) /\ DOMAIN q = 1..n /\ Len(q) = n
  <2>1. \A i \in 1..n : Oldest(Queued(order[i])) \in Runs  BY <1>4, <1>6
  <2> QED  BY <2>1, <1>2
<1>8. \A i \in 1..n : Queued(order[i]) # {} /\ q[i] = Oldest(Queued(order[i]))
  BY <1>3, <1>6
<1>9. q # <<>>  BY <1>2, <1>7
<1> HIDE DEF q
<1>10. FreshClaim(c)
  <2>1. c \in Claims  BY <1>7 DEF Claims
  <2>2. \A i \in DOMAIN c.queue : \E t : Queued(t) # {} /\ c.queue[i] = Oldest(Queued(t))
    BY <1>7, <1>8
  <2> QED  BY <2>1, <2>2, <1>9 DEF FreshClaim
<1> HIDE DEF c
<1>11. UNCHANGED <<layout, run>>  BY DEF Look, settingVars
<1> QED  BY <1>5, <1>10, <1>11

LEMMA StepsLook ==
  ASSUME Placed, Looks, [Next]_vars
  PROVE  LooksStep
<1>0. look \in [Gateways -> Claims]  BY DEF Looks
<1>0a. NoClaim \in Claims  BY DEF NoClaim, Claims
<1>1. CASE look' = look  BY <1>0, <1>1 DEF LooksStep, LookStep
<1>2. ASSUME NEW g \in Gateways, NEW c \in Claims, look' = [look EXCEPT ![g] = c],
             \/ c = NoClaim \/ (UNCHANGED <<layout, run>> /\ FreshClaim(c))
             \/ /\ look[g].queue # <<>> /\ Tail(look[g].queue) # <<>>
                /\ c = [look[g] EXCEPT !.queue = Tail(look[g].queue)]
      PROVE  LooksStep
  <2>1. look' \in [Gateways -> Claims] /\ look'[g] = c /\ \A h \in Gateways \ {g} : look'[h] = look[h]
    BY <1>0, <1>2
  <2>2. LookStep(g)  BY <2>1, <1>2 DEF LookStep
  <2>3. \A h \in Gateways \ {g} : LookStep(h)  BY <2>1 DEF LookStep
  <2> QED  BY <2>1, <2>2, <2>3 DEF LooksStep
<1>3. ASSUME NEW g \in Gateways, Look(g) PROVE LooksStep
  BY <1>2, <1>3, LookIsFresh DEF FreshClaim
<1>4. ASSUME NEW g \in Gateways, ClaimFails(g) PROVE LooksStep
  BY <1>2, <1>4, <1>0a DEF ClaimFails, GiveUpClaim
<1>5. ASSUME NEW g \in Gateways, Try(g) PROVE LooksStep
  <2>1. PICK r \in Runs : Claim(g, r) \/ NextCandidate(g) \/ GiveUpClaim(g)
    BY <1>5 DEF Try
  <2>2. CASE Claim(g, r) \/ GiveUpClaim(g)
    BY <1>2, <2>2, <1>0a DEF Claim, GiveUpClaim
  <2>3. CASE NextCandidate(g)
    <3>1. look[g].open  BY <1>5 DEF Try
    <3>2. look[g] \in Claims /\ look[g].queue # <<>>  BY <1>0, <3>1 DEF Looks
    <3>3. look[g].queue \in Seq(Runs)  BY <3>2 DEF Claims
    <3>4. Tail(look[g].queue) \in Seq(Runs)  BY <3>2, <3>3, HeadTailProperties
    <3>5. CASE Tail(look[g].queue) = <<>>
      <4>1. look' = [look EXCEPT ![g] = NoClaim]  BY <2>3, <3>5 DEF NextCandidate
      <4> QED  BY <4>1, <1>2, <1>0a
    <3>6. CASE Tail(look[g].queue) # <<>>
      <4> DEFINE c == [look[g] EXCEPT !.queue = Tail(look[g].queue)]
      <4>1. look' = [look EXCEPT ![g] = c]  BY <2>3, <3>6, <1>0 DEF NextCandidate
      <4>2. c \in Claims  BY <3>2, <3>4 DEF Claims
      <4> QED  BY <4>1, <4>2, <3>2, <3>6, <1>2
    <3> QED  BY <3>5, <3>6
  <2> QED  BY <2>1, <2>2, <2>3
<1> QED  BY <1>1, <1>3, <1>4, <1>5, OtherStepsDoNotLook DEF Next, ClaimStep
-----------------------------------------------------------------------------
LEMMA TimePasses ==
  ASSUME Placed, [Next]_vars
  PROVE  second' \in 1..LastSecond /\ second' >= second
<1>0. second \in 1..LastSecond /\ LastSecond \in Nat  BY RunsAssumption DEF Placed
<1>1. CASE NextSecond  BY <1>0, <1>1 DEF NextSecond
<1>2. CASE second' = second  BY <1>0, <1>2
<1>3. ASSUME NEW r \in Runs, ApiStep(r) \/ WorkerStep(r) \/ LeaseRunsOut(r) PROVE second' = second
  BY <1>3 DEF ApiStep, AppendMessage, OpenDetail, CancelRead, WorkerStep, Terminal, Clarify,
              DetailEnds, Settle, LeaseRunsOut, settingVars
<1>4. ASSUME NEW r \in Runs, Recovery(r) PROVE second' = second
  <2>1. CASE CancelExpiredRun(r)  BY <2>1 DEF CancelExpiredRun, Settle, settingVars
  <2>2. ASSUME NEW v \in Verdicts, RecoverExpiredRun(r, v) PROVE second' = second
    <3>1. Settle(r, "completed") \/ Settle(r, "failed") \/ Requeue(r)
      BY <2>2 DEF RecoverExpiredRun
    <3> QED  BY <3>1 DEF Settle, Requeue, settingVars
  <2> QED  BY <1>4, <2>1, <2>2 DEF Recovery
<1>5. CASE UNCHANGED vars  BY <1>2, <1>5 DEF vars
<1>5a. ASSUME CancelRun PROVE second' = second
  <2>1. UNCHANGED settingVars  BY <1>5a DEF CancelRun
  <2> QED  BY <2>1 DEF settingVars
<1>6. ASSUME NEW g, ClaimStep(g) \/ ClaimFails(g) \/ SetGatewayMode(g) PROVE second' = second
  BY <1>6 DEF ClaimStep, Look, Try, ClaimFails, SetGatewayMode, settingVars
<1>7. ASSUME NEW t, SetLicense(t) PROVE second' = second
  BY <1>7 DEF SetLicense
<1> QED  BY <1>1, <1>2, <1>3, <1>4, <1>5, <1>5a, <1>6, <1>7 DEF Next

LEMMA PlacesStay ==
  ASSUME Placed, PlacesStep, second' \in 1..LastSecond, second' >= second
  PROVE  Placed'
<1>1. second \in 1..LastSecond /\ LastSecond \in Nat  BY RunsAssumption DEF Placed
<1>2. ASSUME NEW r \in Runs
      PROVE  /\ run'[r].queuedAt \in 0..second'
             /\ run'[r].queuedAt = 0 <=> run'[r].status = "absent"
  <2>1. run[r].queuedAt \in 0..second /\ (run[r].queuedAt = 0 <=> run[r].status = "absent")
    BY DEF Placed
  <2>2. CASE run'[r] = run[r]  BY <2>1, <2>2, <1>1
  <2>3. CASE Keeps(r, run'[r])
    <3>1. CASE run[r].status = "absent"  BY <3>1, <2>3, <1>1 DEF Keeps
    <3>2. CASE run[r].status # "absent"  BY <3>2, <2>1, <2>3, <1>1 DEF Keeps
    <3> QED  BY <3>1, <3>2
  <2> QED  BY <2>2, <2>3 DEF PlacesStep
<1> QED  BY <1>2 DEF Placed

LEMMA LooksStay ==
  ASSUME Placed, Looks, PlacesStep, LooksStep
  PROVE  Looks'
<1>0. \A r \in Runs : run[r].status # "absent" => run'[r].status # "absent"
  BY DEF PlacesStep, Keeps
<1>1. look' \in [Gateways -> Claims]  BY DEF LooksStep
<1>2. ASSUME NEW g \in Gateways
      PROVE  /\ look'[g].open => look'[g].queue # <<>>
             /\ \A i \in DOMAIN look'[g].queue : run'[look'[g].queue[i]].status # "absent"
  <2>0. look[g] \in Claims /\ look'[g] \in Claims  BY <1>1 DEF Looks
  <2>1. /\ look[g].open => look[g].queue # <<>>
        /\ \A i \in DOMAIN look[g].queue : run[look[g].queue[i]].status # "absent"
    BY DEF Looks
  <2>2. look[g].queue \in Seq(Runs) /\ look'[g].queue \in Seq(Runs)  BY <2>0 DEF Claims
  <2>3. CASE look'[g] = look[g]
    <3>1. \A i \in DOMAIN look[g].queue : look[g].queue[i] \in Runs  BY <2>2
    <3> QED  BY <2>3, <2>1, <3>1, <1>0
  <2>4. CASE look'[g] = NoClaim
    <3>1. look'[g].queue = <<>> /\ ~look'[g].open  BY <2>4 DEF NoClaim
    <3> QED  BY <3>1
  <2>5. CASE /\ look[g].queue # <<>> /\ Tail(look[g].queue) # <<>>
             /\ look'[g] = [look[g] EXCEPT !.queue = Tail(look[g].queue)]
    <3>1. look'[g].queue = Tail(look[g].queue)  BY <2>0, <2>5 DEF Claims
    <3>2. ASSUME NEW i \in DOMAIN look'[g].queue PROVE run'[look'[g].queue[i]].status # "absent"
      <4>1. /\ Len(Tail(look[g].queue)) = Len(look[g].queue) - 1
            /\ Tail(look[g].queue) \in Seq(Runs)
            /\ \A k \in 1..Len(Tail(look[g].queue)) : Tail(look[g].queue)[k] = look[g].queue[k + 1]
        BY <2>2, <2>5, HeadTailProperties
      <4>2. i \in 1..Len(Tail(look[g].queue))  BY <3>1, <4>1
      <4>3. i + 1 \in DOMAIN look[g].queue /\ look'[g].queue[i] = look[g].queue[i + 1]
        BY <4>1, <4>2, <3>1, <2>2
      <4>4. look[g].queue[i + 1] \in Runs  BY <4>3, <2>2
      <4> QED  BY <4>3, <4>4, <2>1, <1>0
    <3> QED  BY <3>1, <3>2, <2>5
  <2>6. CASE UNCHANGED <<layout, run>> /\ FreshClaim(look'[g])
    <3>1. ASSUME NEW i \in DOMAIN look'[g].queue PROVE run'[look'[g].queue[i]].status # "absent"
      <4>1. PICK t : Queued(t) # {} /\ look'[g].queue[i] = Oldest(Queued(t))
        BY <2>6 DEF FreshClaim
      <4>2. Queued(t) \subseteq Runs  BY DEF Queued, RunsOf
      <4>3. look'[g].queue[i] \in Queued(t)  BY <4>1, <4>2, OldestIsFirst
      <4> QED  BY <4>3, <2>6 DEF Queued
    <3> QED  BY <3>1, <2>6 DEF FreshClaim
  <2> QED  BY <2>3, <2>4, <2>5, <2>6 DEF LooksStep, LookStep
<1> QED  BY <1>1, <1>2 DEF Looks

-----------------------------------------------------------------------------
(***************************************************************************)
(* Seconds that differ go on differing, back to the first state, and who   *)
(* comes now comes after everybody.                                        *)
(***************************************************************************)
LEMMA WasOrderly ==
  ASSUME Placed, PlacesStep, Orderly'
  PROVE  Orderly
<1>0. layout' = layout  BY DEF PlacesStep
<1>1. \A r : TenantOf(r)' = TenantOf(r)  BY <1>0, SameKinds
<1>2. \A r \in Runs : layout[r].kind # "detail"  BY <1>0 DEF Orderly
<1>3. ASSUME NEW q \in Runs, NEW r \in Runs, q # r, TenantOf(q) = TenantOf(r), run[q].queuedAt # 0
      PROVE  run[q].queuedAt # run[r].queuedAt
  <2>1. run'[q].queuedAt = run[q].queuedAt  BY <1>3 DEF Placed, PlacesStep, Keeps
  <2>2. run'[q].queuedAt # run'[r].queuedAt  BY <1>1, <1>3, <2>1 DEF Orderly
  <2>3. CASE run[r].queuedAt = 0  BY <2>3, <1>3
  <2>4. CASE run[r].queuedAt # 0
    <3>1. run'[r].queuedAt = run[r].queuedAt  BY <2>4 DEF Placed, PlacesStep, Keeps
    <3> QED  BY <3>1, <2>1, <2>2
  <2> QED  BY <2>3, <2>4
<1> QED  BY <1>2, <1>3 DEF Orderly

LEMMA AheadShrinks ==
  ASSUME Placed, PlacesStep, Placed', Orderly', NEW m \in Runs, run[m].status # "absent"
  PROVE  Ahead(m)' \subseteq Ahead(m)
<1>0. layout' = layout  BY DEF PlacesStep
<1>1. (\A r : TenantOf(r)' = TenantOf(r)) /\ (\A t : RunsOf(t)' = RunsOf(t))  BY <1>0, SameKinds
<1>2. run'[m].queuedAt = run[m].queuedAt /\ m \in Nat /\ run[m].queuedAt \in 0..second /\ second \in Nat
  BY RunsAssumption DEF Placed, PlacesStep, Keeps
<1>3. ASSUME NEW q \in RunsOf(TenantOf(m)), run'[q].status \in Active, Older(q, m)'
      PROVE  run[q].status \in Active /\ Older(q, m)
  <2>1. q \in Runs /\ TenantOf(q) = TenantOf(m) /\ q \in Nat  BY <1>3, RunsAssumption DEF RunsOf
  <2>2. run'[q].queuedAt < run[m].queuedAt \/ (run'[q].queuedAt = run[m].queuedAt /\ q < m)
    BY <1>2, <1>3 DEF Older
  <2>3. run[q].queuedAt \in 0..second /\ run'[q].queuedAt \in 0..second'
    BY <2>1 DEF Placed
  <2>4. run'[q] = run[q] \/ Keeps(q, run'[q])  BY <2>1 DEF PlacesStep
  <2>5. run[q].status # "absent"
    <3> SUFFICES ASSUME run[q].status = "absent" PROVE FALSE  OBVIOUS
    <3>1. run'[q].status # "absent" /\ run'[q].queuedAt = second
      BY <1>3, <2>4 DEF Keeps, Active
    <3>2. run'[q].queuedAt = run'[m].queuedAt /\ q # m  BY <3>1, <2>1, <2>2, <1>2
    <3>3. run'[q].queuedAt # 0  BY <3>1, <2>1 DEF Placed
    <3> QED  BY <3>2, <3>3, <2>1, <1>1 DEF Orderly
  <2>6. run'[q].queuedAt = run[q].queuedAt  BY <2>4, <2>5 DEF Keeps
  <2>7. run[q].status \in Active  BY <2>4, <2>5, <1>3 DEF Keeps
  <2> QED  BY <2>2, <2>6, <2>7 DEF Older
<1> QED  BY <1>1, <1>3 DEF Ahead
(***************************************************************************)
(* A run that a Gateway takes now has no more active runs ahead of it than *)
(* the Gateway counted, and one that runs has no more than it had.         *)
(***************************************************************************)
LEMMA RunnersStay ==
  ASSUME Placed, Looks, PlacesStep, Placed', Orderly', RunnersFit, SnapshotsKnow
  PROVE  RunnersFit'
<1>0. layout' = layout  BY DEF PlacesStep
<1>1. \A m \in Runs : run[m].status # "absent" => Ahead(m)' \subseteq Ahead(m)
  BY AheadShrinks
<1>2. \A m, S : WithinLimits(m, S)' <=> WithinLimits(m, S')
  BY <1>0 DEF WithinLimits, OfUser, UserOf, SessionOf
<1>3. ASSUME NEW m \in Runs, run'[m].status = "running"
      PROVE  WithinLimits(m, Ahead(m))'
  <2> DEFINE before == Ahead(m)
  <2>1. CASE run[m].status = "running"
    <3>1. WithinLimits(m, Ahead(m))  BY <2>1 DEF RunnersFit
    <3>2. Ahead(m)' \subseteq Ahead(m)  BY <2>1, <1>1
    <3>3. Ahead(m) \subseteq Runs  BY DEF Ahead, RunsOf
    <3>4. WithinLimits(m, Ahead(m)')  BY <3>1, <3>2, <3>3, FewerFit
    <3> QED  BY <3>4, <1>0 DEF WithinLimits, OfUser, UserOf, SessionOf
  <2>2. CASE run[m].status # "running"
    <3>1. Taken(m)
      BY <2>2, <1>3, <1>0 DEF PlacesStep, Keeps, Orderly
    <3>2. PICK g \in Gateways : look[g].open /\ m = Head(look[g].queue) /\ StillAllowed(g, m)
      BY <3>1 DEF Taken
    <3>3. look[g].queue \in Seq(Runs) /\ look[g].queue # <<>>
      BY <3>2 DEF Looks, Claims
    <3>4. 1 \in DOMAIN look[g].queue /\ m = look[g].queue[1]  BY <3>2, <3>3
    <3>5. run[m].status # "absent" /\ Ahead(m) \subseteq look[g].running
      BY <3>4 DEF Looks, SnapshotsKnow
    <3>6. Ahead(m) \subseteq RunsOf(TenantOf(m))  BY DEF Ahead
    <3>7. Ahead(m)' \subseteq look[g].running \cap RunsOf(TenantOf(m))
      BY <1>1, <3>5, <3>6
    <3>8. look[g].running \cap RunsOf(TenantOf(m)) \subseteq Runs  BY DEF RunsOf
    <3>9. WithinLimits(m, Ahead(m)')
      BY <3>2, <3>7, <3>8, FewerFit DEF StillAllowed
    <3> QED  BY <3>9, <1>0 DEF WithinLimits, OfUser, UserOf, SessionOf
  <2> QED  BY <2>1, <2>2
<1> QED  BY <1>3 DEF RunnersFit

LEMMA FreshClaimKnows ==
  ASSUME Placed, NEW c, FreshClaim(c), NEW i \in DOMAIN c.queue
  PROVE  c.queue[i] \in Runs /\ Ahead(c.queue[i]) \subseteq c.running
<1>1. PICK t : Queued(t) # {} /\ c.queue[i] = Oldest(Queued(t))  BY DEF FreshClaim
<1>2. PICK m : m = c.queue[i]  OBVIOUS
<1>3. Queued(t) \subseteq Runs  BY DEF Queued, RunsOf
<1>4. m \in Queued(t) /\ \A r \in Queued(t) \ {m} : Older(m, r)
  BY <1>1, <1>2, <1>3, OldestIsFirst
<1>5. m \in Runs /\ TenantOf(m) = t  BY <1>4 DEF Queued, RunsOf
<1>6. ASSUME NEW q \in Ahead(m) PROVE q \in c.running
  <2>1. q \in Runs /\ q \in RunsOf(t) /\ run[q].status \in Active /\ Older(q, m)
    BY <1>5, <1>6 DEF Ahead, RunsOf
  <2>2. ~Older(m, q)  BY <2>1, <1>5, OlderOrders
  <2>3. q # m  BY <2>1, <2>2
  <2>4. run[q].status # "queued"  BY <2>1, <2>2, <2>3, <1>4 DEF Queued
  <2> QED  BY <2>1, <2>4 DEF Active, FreshClaim
<1> QED  BY <1>2, <1>5, <1>6

LEMMA SnapshotsStay ==
  ASSUME Placed, Looks, PlacesStep, LooksStep, Placed', Looks', Orderly', SnapshotsKnow
  PROVE  SnapshotsKnow'
<1>0. layout' = layout  BY DEF PlacesStep
<1>1. \A m \in Runs : run[m].status # "absent" => Ahead(m)' \subseteq Ahead(m)
  BY AheadShrinks
<1>2. ASSUME NEW g \in Gateways, NEW i \in DOMAIN look'[g].queue, NEW m, m = look'[g].queue[i]
      PROVE  Ahead(m)' \subseteq look'[g].running
  <2>0. look[g] \in Claims /\ look'[g] \in Claims  BY DEF Looks
  <2>1. look[g].queue \in Seq(Runs) /\ look'[g].queue \in Seq(Runs)  BY <2>0 DEF Claims
  <2>2. ASSUME NEW k \in DOMAIN look[g].queue, m = look[g].queue[k],
               look'[g].running = look[g].running
        PROVE  Ahead(m)' \subseteq look'[g].running
    <3>1. m \in Runs  BY <2>1, <2>2
    <3>2. run[m].status # "absent" /\ Ahead(m) \subseteq look[g].running
      BY <2>2 DEF Looks, SnapshotsKnow
    <3> QED  BY <3>1, <3>2, <2>2, <1>1
  <2>3. CASE look'[g] = look[g]  BY <2>2, <2>3, <1>2
  <2>4. CASE look'[g] = NoClaim
    <3>1. look'[g].queue = <<>>  BY <2>4 DEF NoClaim
    <3> QED  BY <3>1, <1>2
  <2>5. CASE /\ look[g].queue # <<>> /\ Tail(look[g].queue) # <<>>
             /\ look'[g] = [look[g] EXCEPT !.queue = Tail(look[g].queue)]
    <3>1. look'[g].queue = Tail(look[g].queue) /\ look'[g].running = look[g].running
      BY <2>0, <2>5 DEF Claims
    <3>2. /\ Len(Tail(look[g].queue)) = Len(look[g].queue) - 1
          /\ Tail(look[g].queue) \in Seq(Runs)
          /\ \A k \in 1..Len(Tail(look[g].queue)) : Tail(look[g].queue)[k] = look[g].queue[k + 1]
      BY <2>1, <2>5, HeadTailProperties
    <3>3. i \in 1..Len(Tail(look[g].queue))  BY <3>1, <3>2, <1>2
    <3>4. i + 1 \in DOMAIN look[g].queue /\ m = look[g].queue[i + 1]
      BY <3>1, <3>2, <3>3, <2>1, <1>2
    <3> QED  BY <3>1, <3>4, <2>2
  <2>6. CASE UNCHANGED <<layout, run>> /\ FreshClaim(look'[g])
    <3>1. Ahead(m)' = Ahead(m)
      BY <2>6 DEF Ahead, RunsOf, TenantOf, UserOf, SessionOf, Older
    <3>2. PICK c : c = look'[g]  OBVIOUS
    <3>3. FreshClaim(c) /\ i \in DOMAIN c.queue /\ m = c.queue[i]  BY <3>2, <2>6, <1>2
    <3>4. Ahead(m) \subseteq c.running  BY <3>3, FreshClaimKnows
    <3> QED  BY <3>1, <3>2, <3>4
  <2> QED  BY <2>3, <2>4, <2>5, <2>6 DEF LooksStep, LookStep
<1>3. ASSUME NEW g \in Gateways, NEW i \in DOMAIN look'[g].queue
      PROVE  (Ahead(look[g].queue[i]) \subseteq look[g].running)'
  <2>1. PICK m : m = look'[g].queue[i]  OBVIOUS
  <2>2. Ahead(m)' \subseteq look'[g].running  BY <2>1, <1>2
  <2> QED  BY <2>1, <2>2 DEF Ahead, RunsOf, TenantOf, UserOf, SessionOf, Older
<1> QED  BY <1>3 DEF SnapshotsKnow
-----------------------------------------------------------------------------
LEMMA LimitInit == Init => LimitInv
<1> SUFFICES ASSUME Init PROVE LimitInv  OBVIOUS
<1>1. Placed  BY RunsAssumption DEF Init, Placed, NewRow
<1>2. Looks
  <2>1. NoClaim \in Claims /\ NoClaim.queue = <<>> /\ ~NoClaim.open  BY DEF NoClaim, Claims
  <2>2. \A g \in Gateways : look[g] = NoClaim  BY DEF Init
  <2>3. look \in [Gateways -> Claims]  BY <2>1 DEF Init
  <2> QED  BY <2>1, <2>2, <2>3 DEF Looks
<1>3. RunnersFit  BY DEF Init, RunnersFit, NewRow
<1>4. SnapshotsKnow
  <2>1. \A g \in Gateways : look[g].queue = <<>>  BY DEF Init, NoClaim
  <2> QED  BY <2>1 DEF SnapshotsKnow
<1> QED  BY <1>1, <1>2, <1>3, <1>4, InitGood DEF LimitInv

LEMMA LimitStep == LimitInv /\ [Next]_vars => LimitInv'
<1> SUFFICES ASSUME LimitInv, [Next]_vars PROVE LimitInv'  OBVIOUS
<1>1. QueueInv /\ Placed /\ Looks  BY DEF LimitInv
<1>2. QueueInv' /\ PlacesStep  BY <1>1, StepsAreGood DEF GoodStep
<1>3. LooksStep  BY <1>1, StepsLook
<1>4. Placed'  BY <1>1, <1>2, TimePasses, PlacesStay
<1>5. Looks'  BY <1>1, <1>2, <1>3, LooksStay
<1>6. ASSUME Orderly' PROVE RunnersFit' /\ SnapshotsKnow'
  <2>1. RunnersFit /\ SnapshotsKnow  BY <1>1, <1>2, <1>6, WasOrderly DEF LimitInv
  <2> QED  BY <2>1, <1>1, <1>2, <1>3, <1>4, <1>5, <1>6, RunnersStay, SnapshotsStay
<1> QED  BY <1>2, <1>4, <1>5, <1>6 DEF LimitInv

(***************************************************************************)
(* Rows, slots and counters are in step, runs keep their places, and in an *)
(* orderly queue every running run has fewer active ones ahead of it than  *)
(* the limits allow.                                                       *)
(***************************************************************************)
THEOREM LimitInvariant == Spec => []LimitInv
  BY LimitInit, LimitStep, PTL DEF Spec

(***************************************************************************)
(* All but the youngest of some running runs of a tenant are ahead of it.  *)
(***************************************************************************)
LEMMA YoungestRunner ==
  ASSUME Placed, Orderly, NEW t, NEW B, B \subseteq RunningOf(t), B # {}
  PROVE  \E m \in B : m \in Runs /\ B \ {m} \subseteq Ahead(m)
<1>0. second \in Nat /\ \A r \in Runs : run[r].queuedAt \in 0..second  BY DEF Placed
<1>1. \A r \in B : r \in Runs /\ TenantOf(r) = t /\ r \in RunsOf(t) /\ run[r].status = "running"
  BY DEF RunningOf, RunsOf
<1> DEFINE Times == {run[r].queuedAt : r \in B}
<1>2. Times \subseteq 0..second /\ Times # {}  BY <1>0, <1>1
<1>3. PICK a \in Times : \A b \in Times : b <= a  BY <1>0, <1>2, LastNatural
<1>4. PICK m \in B : run[m].queuedAt = a  BY <1>3
<1>5. ASSUME NEW q \in B \ {m} PROVE q \in Ahead(m)
  <2>1. q \in Runs /\ m \in Runs /\ q # m /\ TenantOf(q) = TenantOf(m) /\ q \in RunsOf(TenantOf(m))
    BY <1>1, <1>4, <1>5
  <2>2. run[q].queuedAt <= a /\ run[q].queuedAt \in Nat /\ a \in Nat  BY <1>0, <1>3, <1>4, <1>5, <2>1
  <2>3. run[q].queuedAt # 0  BY <2>1, <1>1, <1>5 DEF Placed
  <2>4. run[q].queuedAt # run[m].queuedAt  BY <2>1, <2>3 DEF Orderly
  <2>5. Older(q, m)  BY <2>2, <2>4, <1>4 DEF Older
  <2> QED  BY <2>1, <2>5, <1>1, <1>5 DEF Ahead, Active
<1> QED  BY <1>1, <1>4, <1>5

(***************************************************************************)
(* PiRunScheduler.claim_next counts the running runs in a snapshot that is *)
(* older than its locks.  As long as no KOL detail runs and the runs of a  *)
(* tenant arrive in different seconds the limits of the License hold all   *)
(* the same: all claims go for the tenant's oldest run.                    *)
(***************************************************************************)
THEOREM QueueKeepsLimits == Spec => []OrderlyQueueKeepsLimits
<1>1. LimitInv => OrderlyQueueKeepsLimits
  <2> SUFFICES ASSUME LimitInv, Orderly PROVE Busy  BY DEF OrderlyQueueKeepsLimits
  <2>1. Placed /\ RunnersFit  BY DEF LimitInv
  <2>2. TenantLimit \in Nat /\ UserLimit \in Nat  BY RunsAssumption
  <2>3. ASSUME NEW t \in Tenants, NEW B, B \subseteq RunningOf(t), B # {}
        PROVE  \E m \in B :
                 /\ IsFiniteSet(B) /\ IsFiniteSet(Ahead(m)) /\ B \ {m} \subseteq Ahead(m)
                 /\ WithinLimits(m, Ahead(m))
    <3>1. PICK m \in B : m \in Runs /\ B \ {m} \subseteq Ahead(m)  BY <2>1, <2>3, YoungestRunner
    <3>2. run[m].status = "running"  BY <2>3, <3>1 DEF RunningOf
    <3>3. B \subseteq Runs /\ Ahead(m) \subseteq Runs  BY <2>3 DEF RunningOf, RunsOf, Ahead
    <3>4. IsFiniteSet(B) /\ IsFiniteSet(Ahead(m))  BY <3>3, RunsAssumption, FS_Subset
    <3> QED  BY <2>1, <3>1, <3>2, <3>4 DEF RunnersFit
  <2>4. ASSUME NEW m, NEW B, NEW A, NEW n \in Nat, m \in B, IsFiniteSet(B), IsFiniteSet(A),
               B \ {m} \subseteq A, Cardinality(A) < n
        PROVE  Cardinality(B) <= n
    <3>1. Cardinality(B \ {m}) = Cardinality(B) - 1  BY <2>4, FS_RemoveElement
    <3>2. Cardinality(B \ {m}) <= Cardinality(A)  BY <2>4, FS_Subset
    <3>3. Cardinality(A) \in Nat /\ Cardinality(B) \in Nat  BY <2>4, FS_CardinalityType
    <3> QED  BY <3>1, <3>2, <3>3, <2>4
  <2>5. ASSUME NEW t \in Tenants PROVE Cardinality(RunningOf(t)) <= TenantLimit
    <3>1. CASE RunningOf(t) = {}  BY <3>1, <2>2, FS_EmptySet
    <3>2. CASE RunningOf(t) # {}
      <4>1. PICK m \in RunningOf(t) :
              /\ IsFiniteSet(RunningOf(t)) /\ IsFiniteSet(Ahead(m))
              /\ RunningOf(t) \ {m} \subseteq Ahead(m) /\ WithinLimits(m, Ahead(m))
        BY <2>3, <3>2
      <4>2. Cardinality(Ahead(m)) < TenantLimit  BY <4>1 DEF WithinLimits
      <4> QED  BY <4>1, <4>2, <2>2, <2>4
    <3> QED  BY <3>1, <3>2
  <2>6. ASSUME NEW t \in Tenants, NEW u \in Users
        PROVE  Cardinality(OfUser(u, RunningOf(t))) <= UserLimit
    <3> DEFINE B == OfUser(u, RunningOf(t))
    <3>1. CASE B = {}  BY <3>1, <2>2, FS_EmptySet
    <3>2. CASE B # {}
      <4>0. B \subseteq RunningOf(t) /\ \A r \in B : UserOf(r) = u  BY DEF OfUser
      <4>1. PICK m \in B :
              /\ IsFiniteSet(B) /\ IsFiniteSet(Ahead(m))
              /\ B \ {m} \subseteq Ahead(m) /\ WithinLimits(m, Ahead(m))
        BY <2>3, <3>2, <4>0
      <4>2. Cardinality(OfUser(u, Ahead(m))) < UserLimit  BY <4>0, <4>1 DEF WithinLimits
      <4>3. B \ {m} \subseteq OfUser(u, Ahead(m)) /\ OfUser(u, Ahead(m)) \subseteq Ahead(m)
        BY <4>0, <4>1 DEF OfUser
      <4>4. IsFiniteSet(OfUser(u, Ahead(m)))  BY <4>1, <4>3, FS_Subset
      <4> QED  BY <4>1, <4>2, <4>3, <4>4, <2>2, <2>4
    <3> QED  BY <3>1, <3>2
  <2> QED  BY <2>5, <2>6 DEF Busy
<1> QED  BY <1>1, LimitInvariant, PTL
-----------------------------------------------------------------------------
(***************************************************************************)
(* The tenants by their last claim: each is listed once.                   *)
(***************************************************************************)
ServedOnce ==
  /\ served \in Seq(Tenants)
  /\ \A i, j \in 1..Len(served) : served[i] = served[j] => i = j

LEMMA RankFinds ==
  ASSUME served \in Seq(Tenants), NEW t
  PROVE  \/ Rank(t) = 0 /\ \A i \in 1..Len(served) : served[i] # t
         \/ Rank(t) \in 1..Len(served) /\ served[Rank(t)] = t
<1> DEFINE I == {i \in 1..Len(served) : served[i] = t}
<1>1. Rank(t) = IF I # {} THEN Min(I) ELSE 0  BY DEF Rank, SelectInSeq
<1>2. CASE I = {}  BY <1>1, <1>2
<1>3. CASE I # {}
  <2>0. I \subseteq Nat  OBVIOUS
  <2>1. PICK x \in I : \A y \in I : x <= y  BY <1>3, <2>0, LeastNatural
  <2>2. Min(I) \in I  BY <2>1 DEF Min
  <2> QED  BY <1>1, <1>3, <2>2
<1> QED  BY <1>2, <1>3

LEMMA ServedNext ==
  ASSUME ServedOnce, NEW t \in Tenants, served' = Append(RemoveAt(served, Rank(t)), t)
  PROVE  ServedOnce'
<1>1. PICK n : n = Len(served)  OBVIOUS
<1>2. PICK k : k = Rank(t)  OBVIOUS
<1>3. PICK s : s = served  OBVIOUS
<1>4. s \in Seq(Tenants) /\ n \in Nat /\ n = Len(s) /\ \A i, j \in 1..n : s[i] = s[j] => i = j
  BY <1>1, <1>3 DEF ServedOnce
<1>5. (k = 0 /\ \A i \in 1..n : s[i] # t) \/ (k \in 1..n /\ s[k] = t)
  BY <1>1, <1>2, <1>3, RankFinds DEF ServedOnce
<1>6. k \in 0..n  BY <1>4, <1>5
<1>6a. \A i \in 1..n : i # k => s[i] # t
  <2>1. CASE k = 0 /\ \A i \in 1..n : s[i] # t  BY <2>1
  <2>2. CASE k \in 1..n /\ s[k] = t  BY <2>2, <1>4
  <2> QED  BY <1>5, <2>1, <2>2
<1> DEFINE front == SubSeq(s, 1, k - 1)
           back == SubSeq(s, k + 1, n)
           rest == front \o back
           l == IF k = 0 THEN n ELSE n - 1
           from(i) == IF k # 0 /\ i < k THEN i ELSE IF k = 0 THEN i ELSE i + 1
<1>7. front \in Seq(Tenants) /\ Len(front) = (IF 1 <= k - 1 THEN k - 1 ELSE 0)
      /\ \A i \in 1..Len(front) : front[i] = s[i]
  <2>1. \A i \in 1..(k - 1) : s[i] \in Tenants  BY <1>4, <1>6
  <2>2. k - 1 \in Int /\ 1 \in Int  BY <1>6
  <2>3. /\ front \in Seq(Tenants)
        /\ Len(front) = IF 1 <= k - 1 THEN (k - 1) - 1 + 1 ELSE 0
        /\ \A i \in 1..((k - 1) - 1 + 1) : front[i] = s[1 + i - 1]
    BY <2>1, <2>2, SubSeqProperties
  <2>4. Len(front) = IF 1 <= k - 1 THEN k - 1 ELSE 0  BY <2>2, <2>3
  <2> HIDE DEF front
  <2>5. ASSUME NEW i \in 1..Len(front) PROVE front[i] = s[i]
    <3>1. i \in 1..((k - 1) - 1 + 1) /\ 1 + i - 1 = i  BY <2>2, <2>4
    <3> QED  BY <2>3, <3>1
  <2> QED  BY <2>3, <2>4, <2>5
<1>8. back \in Seq(Tenants) /\ Len(back) = n - k
      /\ \A i \in 1..Len(back) : back[i] = s[k + i]
  <2>1. \A i \in (k + 1)..n : s[i] \in Tenants  BY <1>4, <1>6
  <2>2. k + 1 \in Int /\ n \in Int /\ k \in Int  BY <1>4, <1>6
  <2>3. /\ back \in Seq(Tenants)
        /\ Len(back) = IF k + 1 <= n THEN n - (k + 1) + 1 ELSE 0
        /\ \A i \in 1..(n - (k + 1) + 1) : back[i] = s[k + 1 + i - 1]
    BY <2>1, <2>2, SubSeqProperties
  <2>4. Len(back) = n - k  BY <2>2, <2>3, <1>6
  <2> HIDE DEF back
  <2>5. ASSUME NEW i \in 1..Len(back) PROVE back[i] = s[k + i]
    <3>1. i \in 1..(n - (k + 1) + 1) /\ k + 1 + i - 1 = k + i  BY <2>2, <2>4
    <3> QED  BY <2>3, <3>1
  <2> QED  BY <2>3, <2>4, <2>5
<1>9. served' = Append(rest, t)
  BY <1>1, <1>2, <1>3 DEF RemoveAt
<1> HIDE DEF front, back
<1>10. rest \in Seq(Tenants) /\ Len(rest) = Len(front) + Len(back)
       /\ \A i \in 1..(Len(front) + Len(back)) :
            rest[i] = IF i <= Len(front) THEN front[i] ELSE back[i - Len(front)]
  BY <1>7, <1>8, ConcatProperties
<1> HIDE DEF rest
<1>11. Len(rest) = l /\ l \in Nat  BY <1>4, <1>6, <1>7, <1>8, <1>10
<1>12. ASSUME NEW i \in 1..l
       PROVE  from(i) \in 1..n /\ from(i) # k /\ rest[i] = s[from(i)]
  <2>1. rest[i] = IF i <= Len(front) THEN front[i] ELSE back[i - Len(front)]
    BY <1>10, <1>11
  <2>2. CASE k # 0 /\ i < k
    <3>1. i \in 1..Len(front) /\ i <= Len(front)  BY <2>2, <1>6, <1>7, <1>4
    <3>2. rest[i] = s[i]  BY <2>1, <3>1, <1>7
    <3> QED  BY <3>2, <2>2, <1>6, <1>4
  <2>3. CASE k # 0 /\ ~(i < k)
    <3>1. Len(front) = k - 1  BY <2>3, <1>6, <1>7
    <3>2. i - Len(front) \in 1..Len(back) /\ k + (i - Len(front)) = i + 1 /\ ~(i <= Len(front))
      BY <3>1, <2>3, <1>4, <1>6, <1>8
    <3>3. rest[i] = s[i + 1]  BY <2>1, <3>2, <1>8
    <3> QED  BY <3>3, <2>3, <1>4, <1>6
  <2>4. CASE k = 0
    <3>1. Len(front) = 0 /\ i \in 1..Len(back) /\ ~(i <= Len(front)) /\ i - Len(front) = i /\ k + i = i
      BY <2>4, <1>4, <1>7, <1>8
    <3>2. rest[i] = s[i]  BY <2>1, <3>1, <1>8
    <3> QED  BY <3>2, <2>4, <1>4
  <2> QED  BY <2>2, <2>3, <2>4
<1>13. ASSUME NEW i \in 1..l, NEW j \in 1..l, rest[i] = rest[j] PROVE i = j
  <2>1. from(i) = from(j)
    <3>1. /\ from(i) \in 1..n /\ from(i) # k /\ rest[i] = s[from(i)]
          /\ from(j) \in 1..n /\ from(j) # k /\ rest[j] = s[from(j)]
      BY <1>12
    <3> HIDE DEF from
    <3> QED  BY <3>1, <1>13, <1>4
  <2> QED  BY <2>1, <1>6, <1>11
<1>14. \A i \in 1..l : rest[i] # t  BY <1>12, <1>6a
<1> HIDE DEF l
<1>15. /\ Append(rest, t) \in Seq(Tenants) /\ Len(Append(rest, t)) = l + 1
       /\ \A i \in 1..l : Append(rest, t)[i] = rest[i]
       /\ Append(rest, t)[l + 1] = t
  BY <1>10, <1>11, AppendProperties
<1>16. ASSUME NEW i \in 1..(l + 1), NEW j \in 1..(l + 1), Append(rest, t)[i] = Append(rest, t)[j]
       PROVE  i = j
  <2>1. (i \in 1..l \/ i = l + 1) /\ (j \in 1..l \/ j = l + 1)  BY <1>11
  <2> QED  BY <2>1, <1>13, <1>14, <1>15, <1>16
<1> QED  BY <1>9, <1>15, <1>16 DEF ServedOnce
\* What no action on a row or a claim touches has its type.
SettingTypes ==
  /\ layout \in Layouts /\ suspended \subseteq Suspendable
  /\ mode \in [Gateways -> {"active", "draining"}]

SettingsStep ==
  /\ layout' = layout
  /\ \/ suspended' = suspended \/ \E t \in Suspendable : suspended' \subseteq suspended \cup {t}
  /\ \/ mode' = mode
     \/ \E g : mode' = [mode EXCEPT ![g] = IF @ = "active" THEN "draining" ELSE "active"]
  /\ \/ served' = served
     \/ \E t \in Tenants : served' = Append(RemoveAt(served, Rank(t)), t)

LEMMA StepsKeepSettings ==
  ASSUME QueueInv, [Next]_vars
  PROVE  SettingsStep
<1> USE DEF settingVars, queueVars
<1>1. ASSUME NEW r \in Runs, ApiStep(r) \/ WorkerStep(r) \/ LeaseRunsOut(r) PROVE SettingsStep
  BY <1>1 DEF ApiStep, AppendMessage, OpenDetail, CancelRead, WorkerStep, Terminal, Clarify,
              DetailEnds, Settle, LeaseRunsOut, SettingsStep
<1>2. ASSUME NEW r \in Runs, Recovery(r) PROVE SettingsStep
  <2>1. CASE CancelExpiredRun(r)  BY <2>1 DEF CancelExpiredRun, Settle, SettingsStep
  <2>2. ASSUME NEW v \in Verdicts, RecoverExpiredRun(r, v) PROVE SettingsStep
    <3>1. Settle(r, "completed") \/ Settle(r, "failed") \/ Requeue(r)
      BY <2>2 DEF RecoverExpiredRun
    <3> QED  BY <3>1 DEF Settle, Requeue, SettingsStep
  <2> QED  BY <1>2, <2>1, <2>2 DEF Recovery
<1>3. ASSUME CancelRun PROVE SettingsStep
  <2>1. UNCHANGED settingVars /\ served' = served  BY <1>3 DEF CancelRun
  <2> QED  BY <2>1 DEF SettingsStep
<1>4. ASSUME NEW g \in Gateways, Look(g) \/ ClaimFails(g) PROVE SettingsStep
  BY <1>4 DEF Look, ClaimFails, GiveUpClaim, SettingsStep
<1>5. ASSUME NEW g \in Gateways, Try(g) PROVE SettingsStep
  <2>1. PICK r \in Runs : Claim(g, r) \/ NextCandidate(g) \/ GiveUpClaim(g)
    BY <1>5 DEF Try
  <2>2. UNCHANGED settingVars  BY <1>5 DEF Try
  <2>3. TenantOf(r) \in Tenants  BY WhoIsWho DEF QueueInv
  <2>4. CASE Claim(g, r)
    <3>1. served' = Append(RemoveAt(served, Rank(TenantOf(r))), TenantOf(r))  BY <2>4 DEF Claim
    <3> QED  BY <3>1, <2>2, <2>3 DEF SettingsStep
  <2>5. CASE NextCandidate(g) \/ GiveUpClaim(g)
    BY <2>2, <2>5 DEF NextCandidate, GiveUpClaim, SettingsStep
  <2> QED  BY <2>1, <2>4, <2>5
<1>6. ASSUME NEW g, SetGatewayMode(g) PROVE SettingsStep
  BY <1>6 DEF SetGatewayMode, SettingsStep
<1>7. ASSUME NEW t \in Suspendable, SetLicense(t) PROVE SettingsStep
  BY <1>7 DEF SetLicense, SettingsStep
<1>8. ASSUME NextSecond \/ UNCHANGED vars PROVE SettingsStep
  BY <1>8 DEF NextSecond, vars, SettingsStep
<1> QED  BY <1>1, <1>2, <1>3, <1>4, <1>5, <1>6, <1>7, <1>8 DEF Next, ClaimStep

TypeInv == LimitInv /\ SettingTypes /\ ServedOnce

LEMMA TypeInvInit == Init => TypeInv
<1> SUFFICES ASSUME Init PROVE TypeInv  OBVIOUS
<1>1. SettingTypes  BY DEF Init, SettingTypes
<1>2. ServedOnce
  <2>1. served = <<>>  BY DEF Init
  <2> QED  BY <2>1 DEF ServedOnce
<1> QED  BY <1>1, <1>2, LimitInit DEF TypeInv

LEMMA TypeInvStep == TypeInv /\ [Next]_vars => TypeInv'
<1> SUFFICES ASSUME TypeInv, [Next]_vars PROVE TypeInv'  OBVIOUS
<1>1. LimitInv'  BY LimitStep DEF TypeInv
<1>2. SettingsStep  BY StepsKeepSettings DEF TypeInv, LimitInv
<1>3. SettingTypes /\ ServedOnce  BY DEF TypeInv
<1>4. SettingTypes'
  <2>1. layout' \in Layouts /\ suspended' \subseteq Suspendable
    BY <1>2, <1>3 DEF SettingsStep, SettingTypes
  <2>2. mode \in [Gateways -> {"active", "draining"}]  BY <1>3 DEF SettingTypes
  <2>3. ASSUME mode' = mode PROVE mode' \in [Gateways -> {"active", "draining"}]  BY <2>2, <2>3
  <2>4. ASSUME NEW g, mode' = [mode EXCEPT ![g] = IF @ = "active" THEN "draining" ELSE "active"]
        PROVE  mode' \in [Gateways -> {"active", "draining"}]
    BY <2>2, <2>4
  <2>5. mode' \in [Gateways -> {"active", "draining"}]
    BY <1>2, <2>2, <2>3, <2>4 DEF SettingsStep
  <2> QED  BY <2>1, <2>5 DEF SettingTypes
<1>5. ServedOnce'
  <2>1. CASE served' = served  BY <2>1, <1>3 DEF ServedOnce
  <2>2. ASSUME NEW t \in Tenants, served' = Append(RemoveAt(served, Rank(t)), t) PROVE ServedOnce'
    BY <2>2, <1>3, ServedNext
  <2> QED  BY <1>2, <2>1, <2>2 DEF SettingsStep
<1> QED  BY <1>1, <1>4, <1>5 DEF TypeInv

(***************************************************************************)
(* Every variable has its type: rows within their two attempts, counters   *)
(* of at most all runs, and a list of tenants that names each once.        *)
(***************************************************************************)
THEOREM QueueKeepsTypes == Spec => []TypeOK
<1>1. TypeInv => TypeOK
  <2> SUFFICES ASSUME TypeInv PROVE TypeOK  OBVIOUS
  <2>1. QueueInv /\ Placed /\ Looks /\ SettingTypes /\ ServedOnce  BY DEF TypeInv, LimitInv
  <2>2. layout \in Layouts /\ suspended \subseteq Suspendable
        /\ mode \in [Gateways -> {"active", "draining"}]
        /\ second \in 1..LastSecond
    BY <2>1 DEF SettingTypes, Placed
  <2> DEFINE Rows == [status : Statuses, queuedAt : 0..LastSecond, attempts : 0..2,
                      open : 0..2, retries : 0..1, gateway : Gateways \cup {NoGateway},
                      hash : 0..2, lease : {"null", "live", "lapsed"}, cancel : BOOLEAN]
  <2>3. run \in [Runs -> Rows]
    <3>1. ASSUME NEW r \in Runs PROVE run[r] \in Rows
      <4>1. run[r] \in RunRows /\ RowSound(run[r])  BY <2>1, RowNow
      <4>2. run[r].queuedAt \in 0..LastSecond
        <5>1. run[r].queuedAt \in 0..second /\ second \in 1..LastSecond /\ LastSecond \in Nat
          BY <2>1, RunsAssumption DEF Placed
        <5> QED  BY <5>1
      <4>3. /\ run[r].attempts \in Nat /\ run[r].open \in Nat /\ run[r].retries \in Nat
            /\ run[r].hash \in Nat
        BY <4>1 DEF RunRows
      <4>4. /\ run[r].retries <= 1 /\ run[r].attempts <= run[r].retries + 1
            /\ run[r].hash <= run[r].attempts
            /\ run[r].open = 0 \/ run[r].open = run[r].attempts
        BY <4>1 DEF RowSound
      <4>5. /\ run[r].attempts \in 0..2 /\ run[r].open \in 0..2 /\ run[r].retries \in 0..1
            /\ run[r].hash \in 0..2
        BY <4>3, <4>4
      <4> QED  BY <4>1, <4>2, <4>5 DEF RunRows
    <3>2. run \in [Runs -> RunRows]  BY <2>1 DEF QueueInv, QueueTypes
    <3> HIDE DEF Rows
    <3> QED  BY <3>1, <3>2
  <2>4. slot \in [Sessions -> Runs \cup {NoRun}]  BY <2>1 DEF QueueInv, QueueTypes
  <2>5. activeRuns \in [Tenants -> 0..Cardinality(Runs)]
    <3>1. ASSUME NEW t \in Tenants PROVE activeRuns[t] \in 0..Cardinality(Runs)
      <4>1. activeRuns[t] = Cardinality(Claimed(t))  BY <2>1 DEF QueueInv, Counted
      <4>2. Claimed(t) \subseteq Runs  BY DEF Claimed, RunsOf
      <4>3. IsFiniteSet(Claimed(t)) /\ Cardinality(Claimed(t)) <= Cardinality(Runs)
        BY <4>2, RunsAssumption, FS_Subset
      <4>4. Cardinality(Claimed(t)) \in Nat /\ Cardinality(Runs) \in Nat
        BY <4>3, RunsAssumption, FS_CardinalityType
      <4> QED  BY <4>1, <4>3, <4>4
    <3>2. activeRuns \in [Tenants -> Nat]  BY <2>1 DEF QueueInv, QueueTypes
    <3> QED  BY <3>1, <3>2
  <2>6. served \in BoundedSeq(Tenants, Cardinality(Tenants))
    <3> DEFINE n == Len(served)
    <3>1. n \in Nat /\ served \in [1..n -> Tenants]  BY <2>1 DEF ServedOnce
    <3>2. \A i, j \in 1..n : served[i] = served[j] => i = j  BY <2>1 DEF ServedOnce
    <3> HIDE DEF n
    <3>3. served \in Injection(1..n, Tenants)  BY <3>1, <3>2 DEF Injection, IsInjective
    <3>4. IsFiniteSet(Tenants) /\ Cardinality(Tenants) \in Nat  BY RunsAssumption, FS_CardinalityType
    <3>5. Cardinality(1..n) <= Cardinality(Tenants)  BY <3>3, <3>4, FS_Injection
    <3>6. Cardinality(1..n) = n
      <4>1. Cardinality(1..n) = IF 1 > n THEN 0 ELSE n - 1 + 1  BY <3>1, FS_Interval
      <4> QED  BY <4>1, <3>1
    <3>7. n \in 0..Cardinality(Tenants)  BY <3>1, <3>4, <3>5, <3>6
    <3> QED  BY <3>1, <3>7 DEF BoundedSeq, SeqOf
  <2>7. ASSUME NEW g \in Gateways
        PROVE  look[g].running \subseteq Runs /\ ToSet(look[g].queue) \subseteq Runs
    <3>1. look[g] \in Claims  BY <2>1 DEF Looks
    <3>2. look[g].running \subseteq Runs /\ look[g].queue \in Seq(Runs)  BY <3>1 DEF Claims
    <3> QED  BY <3>2 DEF ToSet
  <2> HIDE DEF Rows
  <2> QED  BY <2>2, <2>3, <2>4, <2>5, <2>6, <2>7 DEF TypeOK, Rows
<1> QED  BY <1>1, TypeInvInit, TypeInvStep, PTL DEF Spec
=============================================================================
