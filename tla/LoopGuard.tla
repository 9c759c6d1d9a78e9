------------------------------ MODULE LoopGuard ------------------------------
(***************************************************************************)
(* The guard of a run (pi_gateway/loop_guard.py): how often in a row a     *)
(* draft builder has failed in the same way, and a search for evidence     *)
(* has given the same, while the evidence of the session did not change.   *)
(* It is kept in the run's row, under the locks of the session and the     *)
(* run.                                                                    *)
(*                                                                         *)
(* The current runtime has one worker per run, whose tool writes in the    *)
(* worker's transaction and whose guard commits in one of its own.  The    *)
(* internal tools of Pi come as requests that hold the session's lock,     *)
(* and the guard is a part of their transaction.  InnoDB locks the         *)
(* session's row, shared, for every artifact event that names it, until    *)
(* the transaction ends.                                                   *)
(***************************************************************************)
EXTENDS Integers, Sequences, FiniteSets

CONSTANTS
  ToolWorkers, \* requests of Pi; the current runtime uses one of them at a time
  Errors,      \* fingerprints of what builders fail with, and of what searches give
  MaxEvidence, \* bound: changes of the evidence
  MaxToolCalls \* bound: calls

\* A fingerprint is a hash, and none of the words for what is no failure.
ASSUME LoopGuardAssumption ==
  /\ Errors \cap {"neither", "success", "other"} = {}
  /\ MaxEvidence \in Nat /\ MaxToolCalls \in Nat

VARIABLES
  lgPath,     \* the runtime of the run
  lgGuard,    \* loop_guard_json: per part the fingerprint, the evidence, the streak
  lgEvidence, \* evidence_set_version of the session
  lgCalls,    \* the call of each worker
  lgLog,      \* results that a guard has recorded and committed, in order
  lgBudget

lgVars == <<lgPath, lgGuard, lgEvidence, lgCalls, lgLog, lgBudget>>

Parts == {"builder", "search"}
NoToolCall == [part |-> "none"]
\* What a builder says that is no error the guard counts: success, and other errors.
Neither == "neither"
Done == {"success", "other"}
Empty == [fp |-> Neither, evidence |-> 0, streak |-> 0]

LgInit ==
  /\ lgPath \in {"current", "pi"}
  /\ lgGuard = [p \in Parts |-> Empty]
  /\ lgEvidence = 0
  /\ lgCalls = [w \in ToolWorkers |-> NoToolCall]
  /\ lgLog = <<>>
  /\ lgBudget = MaxToolCalls

-----------------------------------------------------------------------------
\* Who keeps others from locking the session: a request of Pi from its beginning,
\* a worker since its builder has written an event of its artifact.
HoldsSession(w) ==
  /\ lgCalls[w] # NoToolCall
  /\ lgPath = "pi" \/ lgCalls[w].result = "success"

SessionIsFree == \A w \in ToolWorkers : ~ HoldsSession(w)

\* The tool has run.  The evidence is that of the view of the transaction, which
\* may be older than what is there.
ToolRuns(w) ==
  /\ lgCalls[w] = NoToolCall
  /\ IF lgPath = "pi" THEN SessionIsFree ELSE \A v \in ToolWorkers : lgCalls[v] = NoToolCall
  /\ lgBudget > 0 /\ lgBudget' = lgBudget - 1
  /\ \E p \in Parts, e \in lgEvidence - 1 .. lgEvidence :
       \E result \in Errors \cup (IF p = "builder" THEN Done ELSE {}) :
         /\ e >= 0
         /\ lgCalls' = [lgCalls EXCEPT ![w] =
              [part |-> p, result |-> result, evidence |-> e]]
  /\ UNCHANGED <<lgPath, lgGuard, lgEvidence, lgLog>>

EvidenceGrows ==
  /\ lgEvidence < MaxEvidence
  /\ lgEvidence' = lgEvidence + 1
  /\ UNCHANGED <<lgPath, lgGuard, lgCalls, lgLog, lgBudget>>

\* The streak goes on if nothing has changed, and a success ends it.
SameMut(old, call) == old.fp = call.result   \* the evidence forgotten
Same(old, call) == old.fp = call.result /\ old.evidence = call.evidence

Updated(old, call) ==
  IF call.result \in Done
    THEN [fp |-> Neither, evidence |-> call.evidence, streak |-> 0]
    ELSE [fp |-> call.result, evidence |-> call.evidence,
          streak |-> IF Same(old, call) THEN old.streak + 1 ELSE 1]

\* What is left to do when the guard is written and, with Pi, committed: the worker
\* goes on to its next statement, which commits its own transaction.
Ended(w) == lgCalls' = [lgCalls EXCEPT ![w] = NoToolCall]

Record(w) ==
  LET call == lgCalls[w] IN
  /\ call # NoToolCall
  /\ lgPath = "current" => SessionIsFree
  /\ lgGuard' = [lgGuard EXCEPT ![call.part] = Updated(@, call)]
  /\ lgLog' = Append(lgLog, [part |-> call.part, result |-> call.result,
                             evidence |-> call.evidence])
  /\ Ended(w)
  /\ UNCHANGED <<lgPath, lgEvidence, lgBudget>>

\* The guard's transaction waits for the session until it is given up; the engine
\* reports an internal error, and its next event commits what the tool has written.
LockWaitTimeout(w) ==
  /\ lgPath = "current"
  /\ lgCalls[w] # NoToolCall /\ ~ SessionIsFree
  /\ Ended(w)
  /\ UNCHANGED <<lgPath, lgGuard, lgEvidence, lgLog, lgBudget>>

\* The process ends, or the request fails and is rolled back.
CallLost(w) ==
  /\ lgCalls[w] # NoToolCall
  /\ Ended(w)
  /\ UNCHANGED <<lgPath, lgGuard, lgEvidence, lgLog, lgBudget>>

LgNext ==
  \/ \E w \in ToolWorkers : ToolRuns(w) \/ Record(w) \/ LockWaitTimeout(w) \/ CallLost(w)
  \/ EvidenceGrows

LgSpec == LgInit /\ [][LgNext]_lgVars

-----------------------------------------------------------------------------
LgTypeOK ==
  /\ lgGuard \in [Parts -> [fp : Errors \cup {Neither}, evidence : 0..MaxEvidence, streak : Nat]]
  /\ lgEvidence \in 0..MaxEvidence
  /\ lgBudget \in 0..MaxToolCalls

\* The streak that is stored is the number of equal results at the end of what was
\* recorded of its part, whoever recorded them and however many workers came and went.
RecordedOf(p) == {i \in 1..Len(lgLog) : lgLog[i].part = p}
LastOf(p) == CHOOSE i \in RecordedOf(p) : \A j \in RecordedOf(p) : j <= i
EqualToLast(p) ==
  {i \in RecordedOf(p) : \A j \in RecordedOf(p) : i <= j => lgLog[j] = lgLog[LastOf(p)]}

StreakIsTrue ==
  \A p \in Parts :
    lgGuard[p].streak =
      IF RecordedOf(p) = {} \/ lgLog[LastOf(p)].result \in Done THEN 0
      ELSE Cardinality(EqualToLast(p))
=============================================================================
