---------------------------- MODULE Conversations ----------------------------
(***************************************************************************)
(* One session of a user: its messages, the runs they start, the questions *)
(* that runs ask back, and the requests that arrive at the same time       *)
(* (agent_runtime/router.py).                                              *)
(*                                                                         *)
(* A request authenticates its user first, and MySQL (REPEATABLE READ)     *)
(* shows every plain SELECT of its transaction the database as it was      *)
(* then.  Only SELECT ... FOR UPDATE, which every request that starts a    *)
(* run uses for the tenant, the session and the active runs, reads what is *)
(* there.  So a request has two steps: it arrives with a view, and it      *)
(* acts under the lock of the session, on the view and on what it locked.  *)
(*                                                                         *)
(* A worker (agent_runtime/executor.py, engine.py) picks a run up, and     *)
(* from then on decides on the copy of the row that it has read then.  It  *)
(* looks at the row itself only to complete the run.                       *)
(***************************************************************************)
EXTENDS Integers, Sequences, FiniteSets, FiniteSetsExt

CONSTANTS
  Callers,     \* requests of the user, one at a time each
  IdemKeys,    \* Idempotency-Key of a message
  NoIdemKey,
  MaxRuns,     \* bound: runs of the session
  MaxArrivals, \* bound: requests
  CvWorkers,   \* executors and recovery loops
  MaxPicks     \* bound: runs picked up

ASSUME ConversationAssumption == NoIdemKey \notin IdemKeys /\ MaxRuns \in Nat

VARIABLES
  cvRuns,     \* the runs, in the order of their creation
  cvSlot,     \* active_run_id of the session, 0 for NULL
  cvMessages, \* the sequence number of the last message
  cvPending,  \* questions (their message numbers) that are not superseded
  cvOpen,     \* the session is not archived, the tenant not disabled
  cvCalls,    \* what each caller is about to do
  cvArrivals,
  cvWork,     \* what each worker is doing, and with which run
  cvStale,    \* runs begun by a worker when they were under way no longer
  cvPicks

workVars == <<cvWork, cvStale, cvPicks>>
cvVars == <<cvRuns, cvSlot, cvMessages, cvPending, cvOpen, cvCalls, cvArrivals, workVars>>

ActiveStatuses == {"queued", "running"}       \* and reviewing
EndStatuses == {"completed", "failed", "cancelled"}
RunIds == 1..Len(cvRuns)

View == [runs |-> cvRuns, messages |-> cvMessages, pending |-> cvPending]
NoCvCall == [kind |-> "none"]
NoWork == [at |-> "idle", run |-> 0]

CvInit ==
  /\ cvRuns = <<>> /\ cvSlot = 0
  /\ cvMessages = 0 /\ cvPending = {}
  /\ cvOpen = TRUE
  /\ cvCalls = [c \in Callers |-> NoCvCall]
  /\ cvArrivals = 0
  /\ cvWork = [w \in CvWorkers |-> NoWork] /\ cvStale = {} /\ cvPicks = 0

-----------------------------------------------------------------------------
Arrives(c, call) ==
  /\ cvCalls[c] = NoCvCall
  /\ cvArrivals < MaxArrivals
  /\ cvArrivals' = cvArrivals + 1
  /\ cvCalls' = [cvCalls EXCEPT ![c] = call]
  /\ UNCHANGED <<cvRuns, cvSlot, cvMessages, cvPending, cvOpen, workVars>>

UserMessageArrives(c) ==
  \E key \in IdemKeys \cup {NoIdemKey} :
    Arrives(c, [kind |-> "message", key |-> key, view |-> View])

\* The request has read the run, and found that it may be retried or resumed.
RetryArrives(c) ==
  \E r \in RunIds : /\ cvRuns[r].status \in {"failed", "paused"}
                    /\ Arrives(c, [kind |-> "retry", run |-> r])

ResumeArrives(c) ==
  \E r \in RunIds : /\ cvRuns[r].status = "paused"
                    /\ Arrives(c, [kind |-> "resume", run |-> r])

Leaves(c) == cvCalls' = [cvCalls EXCEPT ![c] = NoCvCall] /\ UNCHANGED cvArrivals

NewRun(key, answers) ==
  [status |-> "queued", key |-> key, answers |-> answers, over |-> FALSE]

Starts(run) ==
  /\ Len(cvRuns) < MaxRuns
  /\ cvRuns' = Append(cvRuns, run)
  /\ cvSlot' = Len(cvRuns) + 1

\* _assert_session_slot_integrity, and the locking read of the active runs.
IsFreeMut(c) ==   \* decided on the view
  cvCalls[c].kind = "message" =>
    \A r \in 1..Len(cvCalls[c].view.runs) : cvCalls[c].view.runs[r].status \notin ActiveStatuses
IsFree(c) == cvSlot = 0 /\ \A r \in RunIds : cvRuns[r].status \notin ActiveStatuses

\* A plain SELECT: an earlier run with the key that the view does not show is missed.
Replays(call) ==
  /\ call.key # NoIdemKey
  /\ \E r \in 1..Len(call.view.runs) : call.view.runs[r].key = call.key

NumberMut(call) == cvMessages + 1   \* read under the lock
Number(call) == call.view.messages + 1

\* The newest question of the view is the one the message answers (its run is the
\* new run's parent); the message supersedes all that the view shows.
Answered(call) == IF call.view.pending = {} THEN 0 ELSE Max(call.view.pending)

AppendMessage(c) ==
  LET call == cvCalls[c] IN
  /\ call.kind = "message"
  /\ cvOpen /\ ~ Replays(call) /\ IsFree(c)
  /\ Number(call) > cvMessages       \* else uq_agent_messages_session_sequence
  /\ Starts(NewRun(call.key, Answered(call)))
  /\ cvMessages' = Number(call)
  /\ cvPending' = cvPending \ call.view.pending
  /\ Leaves(c)
  /\ UNCHANGED <<cvOpen, workVars>>

RetryRun(c) ==
  /\ cvCalls[c].kind = "retry"
  /\ cvOpen /\ IsFree(c)
  /\ Starts(NewRun(NoIdemKey, 0))
  /\ Leaves(c)
  /\ UNCHANGED <<cvMessages, cvPending, cvOpen, workVars>>

\* begin_attempt decides on the copy that the request has read.
ResumeRun(c) ==
  /\ cvCalls[c].kind = "resume"
  /\ cvOpen /\ IsFree(c)
  /\ cvRuns' = [cvRuns EXCEPT ![cvCalls[c].run].status = "running"]
  /\ cvSlot' = cvCalls[c].run
  /\ Leaves(c)
  /\ UNCHANGED <<cvMessages, cvPending, cvOpen, workVars>>

\* 404, 409, a replay, or the rollback after a duplicate sequence number.
CvRefused(c) ==
  /\ cvCalls[c] # NoCvCall
  /\ Leaves(c)
  /\ UNCHANGED <<cvRuns, cvSlot, cvMessages, cvPending, cvOpen, workVars>>

CallStep(c) == AppendMessage(c) \/ RetryRun(c) \/ ResumeRun(c) \/ CvRefused(c)

-----------------------------------------------------------------------------
\* A worker.  at = "queued" or "running": the status of the copy, before the claim.
PicksUp(w) ==
  /\ cvWork[w] = NoWork /\ cvPicks < MaxPicks
  /\ \E r \in RunIds :   \* a running one when its lease has lapsed
       /\ cvRuns[r].status \in ActiveStatuses
       /\ cvWork' = [cvWork EXCEPT ![w] = [at |-> cvRuns[r].status, run |-> r]]
  /\ cvPicks' = cvPicks + 1
  /\ UNCHANGED <<cvRuns, cvSlot, cvMessages, cvPending, cvOpen, cvCalls, cvArrivals, cvStale>>

Goes(w, step) ==
  /\ cvWork' = [cvWork EXCEPT ![w].at = step]
  /\ UNCHANGED <<cvOpen, cvCalls, cvArrivals, cvPicks>>

Stops(w) ==
  /\ cvWork' = [cvWork EXCEPT ![w] = NoWork]
  /\ UNCHANGED <<cvOpen, cvCalls, cvArrivals, cvPicks>>

\* A refused claim, a crash, a lost lease, an end that another has brought about.
LeavesWork(w) ==
  /\ cvWork[w] # NoWork
  /\ Stops(w)
  /\ UNCHANGED <<cvRuns, cvSlot, cvMessages, cvPending, cvStale>>

\* begin_attempt and the claim, of a new run or (after a pause) of one taken over:
\* by the copy it may, whatever has become of the run, and of the session, since.
BeginAttempt(w) ==
  LET r == cvWork[w].run IN
  /\ cvWork[w].at \in ActiveStatuses
  /\ cvRuns' = [cvRuns EXCEPT ![r].status = "running"]
  /\ cvSlot' = r
  /\ cvStale' = IF cvRuns[r].status \in ActiveStatuses THEN cvStale ELSE cvStale \cup {r}
  /\ Goes(w, "working")
  /\ UNCHANGED <<cvMessages, cvPending>>

\* The claim of a run that a user has resumed: its attempt is there.
JoinsAttempt(w) ==
  /\ cvWork[w].at = "running"
  /\ Goes(w, "working")
  /\ UNCHANGED <<cvRuns, cvSlot, cvMessages, cvPending, cvStale>>

\* A run gets another status, and leaves the slot if the slot is its own.
ClearsSlotMut(r) == UNCHANGED cvSlot
ClearsSlot(r) == cvSlot' = IF cvSlot = r THEN 0 ELSE cvSlot

Led(row, status) ==
  [row EXCEPT !.status = status, !.over = row.over \/ status \in EndStatuses]

TurnsInto(r, status) ==
  /\ cvRuns' = [cvRuns EXCEPT ![r] = Led(cvRuns[r], status)]
  /\ ClearsSlot(r)

\* What a worker makes of its run by the copy; it may fail with the answer written.
Leads(w, status) ==
  /\ cvWork[w].at \in {"working", "answered"} /\ (cvWork[w].at = "answered" => status = "failed")
  /\ TurnsInto(cvWork[w].run, status)
  /\ Stops(w)
  /\ UNCHANGED cvStale

Pause(w) == Leads(w, "paused") /\ UNCHANGED <<cvMessages, cvPending>>

Fails(w) == Leads(w, "failed") /\ UNCHANGED <<cvMessages, cvPending>>

\* ask_user: the question is a message of the session, and stays pending.
AskUser(w) ==
  /\ Leads(w, "clarification_requested")
  /\ cvMessages' = cvMessages + 1
  /\ cvPending' = cvPending \cup {cvMessages'}

\* The answer is a message of the session, and committed before the run ends.
Answers(w) ==
  /\ cvWork[w].at = "working"
  /\ cvMessages' = cvMessages + 1
  /\ Goes(w, "answered")
  /\ UNCHANGED <<cvRuns, cvSlot, cvPending, cvStale>>

\* settle_terminal looks at the row: a run with a terminal event is left as it is.
Completes(w) ==
  LET r == cvWork[w].run IN
  /\ cvWork[w].at = "answered"
  /\ cvRuns[r].status = "running" /\ ~ cvRuns[r].over
  /\ TurnsInto(r, "completed")
  /\ Stops(w)
  /\ UNCHANGED <<cvMessages, cvPending, cvStale>>

WorkerStep(w) ==
  \/ PicksUp(w) \/ LeavesWork(w) \/ BeginAttempt(w) \/ JoinsAttempt(w) \/ Pause(w)
  \/ Fails(w) \/ AskUser(w) \/ Answers(w) \/ Completes(w)

-----------------------------------------------------------------------------
\* At once, or by the engine when it sees cancel_requested.
Cancels(r) ==
  /\ cvRuns[r].status \notin EndStatuses /\ ~ cvRuns[r].over
  /\ TurnsInto(r, "cancelled")
  /\ UNCHANGED <<cvMessages, cvPending, cvOpen, cvCalls, cvArrivals, workVars>>

\* The user deletes the session, or an administrator disables the tenant.
Closes ==
  /\ cvOpen' = FALSE
  /\ UNCHANGED <<cvRuns, cvSlot, cvMessages, cvPending, cvCalls, cvArrivals, workVars>>

CvNext ==
  \/ \E c \in Callers : UserMessageArrives(c) \/ RetryArrives(c) \/ ResumeArrives(c) \/ CallStep(c)
  \/ \E w \in CvWorkers : WorkerStep(w)
  \/ \E r \in RunIds : Cancels(r)
  \/ Closes

CvSpec == CvInit /\ [][CvNext]_cvVars

-----------------------------------------------------------------------------
CvActive == {r \in RunIds : cvRuns[r].status \in ActiveStatuses}

CvTypeOK ==
  /\ cvRuns \in Seq([status : ActiveStatuses \cup EndStatuses \cup {"paused", "clarification_requested"},
                     key : IdemKeys \cup {NoIdemKey}, answers : 0..cvMessages, over : BOOLEAN])
  /\ cvPending \subseteq 1..cvMessages /\ cvStale \subseteq RunIds
  /\ \A w \in CvWorkers : cvWork[w] # NoWork => cvWork[w].run \in RunIds
  /\ \A c \in Callers : cvCalls[c].kind = "message" => cvCalls[c].view.messages <= cvMessages

\* A session has one run under way, and its slot names it: a paused run, a retry and a
\* new message never go on side by side.  Runs in cvStale are excepted: a worker begins
\* the run that it picked up, although it has been cancelled, or has left, since; beside
\* a newer one if there is one, and the slot then names the older one.
OneAtATime ==
  /\ \A r, s \in CvActive \ cvStale : r = s
  /\ cvStale = {} => CvActive = IF cvSlot = 0 THEN {} ELSE {cvSlot}

\* A message sent twice under a key starts one run, even if the second request
\* has a view from before the first: what stops it then is the number of its
\* message, which comes from the same view.
KeysStartOneRun ==
  \A r, s \in RunIds : cvRuns[r].key # NoIdemKey /\ cvRuns[r].key = cvRuns[s].key => r = s

\* A question is answered by one message.
AnsweredOnce ==
  \A r, s \in RunIds : cvRuns[r].answers # 0 /\ cvRuns[r].answers = cvRuns[s].answers => r = s

SessionIsSound == OneAtATime /\ KeysStartOneRun /\ AnsweredOnce
=============================================================================
