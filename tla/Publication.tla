----------------------------- MODULE Publication -----------------------------
(***************************************************************************)
(* Artifact drafts, their revisions and their publication                  *)
(* (agent_artifacts/service.py, agent_artifacts/publishing.py), as the     *)
(* tools of the runs of one session use them.                              *)
(*                                                                         *)
(* A tool call is a database transaction under REPEATABLE READ.  Its plain *)
(* SELECTs answer from the snapshot taken when it begins; its SELECT ...   *)
(* FOR UPDATE of the draft answers with what is committed, and holds the   *)
(* row to the commit, so the rest of the call is one step.  The number of  *)
(* an artifact event comes from the snapshot and is unique in the session: *)
(* a call that lost the race for it is rolled back.                        *)
(*                                                                         *)
(* The worker of a run of the current runtime makes one call after another *)
(* and then ends the run; the calls and the end of a Pi run are requests   *)
(* of its gateway, and may meet.  The two ends ask for different things:   *)
(* only the engine counts failed attempts (agent_runtime/engine.py), only  *)
(* the gateway's terminal request counts versions (pi_gateway/router.py,   *)
(* completion.py).                                                         *)
(***************************************************************************)
EXTENDS Integers, Sequences, SequencesExt, FiniteSets

CONSTANTS
  PubRuns,       \* the runs of the session
  MainRuns,      \* those of the session analyst, one of them active at a time
  PiPubRuns,     \* those of the Pi runtime, the others are of the current one
  Arts,          \* the artifact keys
  MaxCalls,      \* bound: tool calls of all the runs
  MaxRevisions,  \* bound: revisions of all the drafts
  NoPubRun

ASSUME PubRunsAssumption ==
  MainRuns \subseteq PubRuns /\ PiPubRuns \subseteq PubRuns /\ NoPubRun \notin PubRuns

VARIABLES
  pubRun,     \* the status of each run
  head,       \* the working head: artifact_drafts, one row for an artifact
  revs,       \* the run that wrote each revision of an artifact
  vers,       \* the published versions: their revision and source run
  attempts,   \* artifact_publish_attempts, by idempotency key
  artEvents,  \* artifact_events of the session, by sequence
  activity,   \* activity_sequence of each artifact
  tx,         \* the tool call of each run
  calls,      \* how many calls began
  ending,     \* what the end that is under way for a run will make of it
  strayed     \* runs of the current runtime that lost their worker while it was inside a call

endVars == <<ending, strayed>>
pubVars == <<pubRun, head, revs, vers, attempts, artEvents, activity, tx, calls, endVars>>

PubActive == {"queued", "running"}
NoCall == [op |-> "none", todo |-> <<>>, snap |-> 0]
NoHead == [cur |-> 0, owner |-> NoPubRun, status |-> "none"]

PubInit ==
  /\ pubRun = [r \in PubRuns |-> "new"]
  /\ head = [a \in Arts |-> NoHead]
  /\ revs = [a \in Arts |-> <<>>]
  /\ vers = [a \in Arts |-> <<>>]
  /\ attempts = {}
  /\ artEvents = <<>>
  /\ activity = [a \in Arts |-> 0]
  /\ tx = [r \in PubRuns |-> NoCall]
  /\ calls = 0
  /\ ending = [r \in PubRuns |-> "none"] /\ strayed = {}

-----------------------------------------------------------------------------
\* What a call reads

Snapshot == [run |-> pubRun, attempts |-> attempts, seq |-> Len(artEvents)]

PublishKey(a, n) == <<"publish", a, n>>
AbandonKey(a, n) == <<"abandon", a, n>>
RejectKey(r, a) == <<"reject", a, r>>
Of(set, key) == {t \in set : t.key = key}

\* A run holds the head against the others while it is queued or running.
OwnerIsActive(snap, r) == snap.run[r] \in PubActive

\* INSERT with a unique key.
Fresh(key) == Of(attempts, key) = {}

Attempt(key, r, status) == [key |-> key, run |-> r, status |-> status]

\* emit_event: max(sequence) + 1, refused when another call has taken it.
Emits(r, a, type) ==
  /\ tx[r].snap.seq = Len(artEvents)
  /\ artEvents' = Append(artEvents, [art |-> a, type |-> type])
  /\ activity' = [activity EXCEPT ![a] = Len(artEvents) + 1]

CallEnds(r) == tx' = [tx EXCEPT ![r] = NoCall]

-----------------------------------------------------------------------------
\* Runs

SlotIsFree(r) ==
  r \in MainRuns => \A q \in MainRuns \ {r} : pubRun[q] \notin PubActive

PubRunStarts(r) ==
  /\ pubRun[r] = "new"
  /\ SlotIsFree(r)
  /\ pubRun' = [pubRun EXCEPT ![r] = "running"]
  /\ UNCHANGED <<head, revs, vers, attempts, artEvents, activity, tx, calls, endVars>>

NoEnding(r) == ending' = [ending EXCEPT ![r] = "none"]

\* The worker of a run has left its last call, unless there are two of them.
WorkerIsFree(r) == tx[r] = NoCall \/ r \in PiPubRuns \cup strayed

\* The lease is lost, and the run is paused, put back into the queue or ended by
\* others, while its worker may still be inside a call.
LosesRun(r) ==
  /\ pubRun[r] \in PubActive
  /\ \E s \in {"gone", IF r \in PiPubRuns THEN "queued" ELSE "paused"} :
       pubRun' = [pubRun EXCEPT ![r] = s]
  /\ strayed' = IF WorkerIsFree(r) THEN strayed ELSE strayed \cup {r}
  /\ NoEnding(r)
  /\ UNCHANGED <<head, revs, vers, attempts, artEvents, activity, tx, calls>>

\* Resumed by the user, or claimed again.
Resume(r) ==
  /\ pubRun[r] \in {"paused", "queued"}
  /\ SlotIsFree(r)
  /\ pubRun' = [pubRun EXCEPT ![r] = "running"]
  /\ UNCHANGED <<head, revs, vers, attempts, artEvents, activity, tx, calls, endVars>>

\* release_draft
ReleasedHeadMut(h, outcome) == [h EXCEPT !.status = outcome]
ReleasedHead(h, outcome) == [h EXCEPT !.owner = NoPubRun, !.status = outcome]

\* release_run_drafts, with the exits that are no publication.
LeavesRun(r) ==
  /\ pubRun[r] \in PubActive \cup {"paused"}
  /\ WorkerIsFree(r)
  /\ \E s \in {"paused", "gone"}, outcome \in {"idle", "failed"} :
       /\ outcome = "failed" => s = "gone" /\ r \notin PiPubRuns
       /\ r \in PiPubRuns => s = "gone"   \* request_clarification
       /\ pubRun' = [pubRun EXCEPT ![r] = s]
       /\ head' = [a \in Arts |-> IF head[a].owner = r
                                    THEN ReleasedHead(head[a], outcome) ELSE head[a]]
  /\ NoEnding(r)
  /\ UNCHANGED <<revs, vers, attempts, artEvents, activity, tx, calls, strayed>>

\* _publish_outcome_artifact_ids: what failed, and was not published after.
\* A rejection is in a domain of its own, so that it is never made good.
AttemptsOf(r) == {t \in attempts : t.run = r}
DomainMut(t) == <<"artifact", t.key[2]>>
Domain(t) == IF t.key[1] = "reject" THEN <<"rejected_draft", t.key[2]>>
                                    ELSE <<"artifact", t.key[2]>>
Published(r) == {Domain(t) : t \in {u \in AttemptsOf(r) : u.status = "published"}}
Failed(r) == {Domain(t) : t \in {u \in AttemptsOf(r) : u.status # "published"}}
Warnings(r) == Failed(r) \ Published(r)

AbandonedDraft(r) ==
  \E a \in Arts : head[a].status = "failed" /\ \E n \in DOMAIN revs[a] : revs[a][n] = r

\* The versions that CompletionValidator counts for the run.
Current(r) == {a \in Arts : vers[a] # <<>> /\ Last(vers[a]).run = r}

HoldsDraft(r) == \E a \in Arts : head[a].owner = r /\ head[a].status \in {"drafting", "reviewing"}

EndIsRead(r, outcomes) ==
  /\ pubRun[r] = "running" /\ ending[r] = "none"
  /\ ~ HoldsDraft(r)
  /\ \E o \in outcomes : ending' = [ending EXCEPT ![r] = o]
  /\ UNCHANGED <<pubRun, head, revs, vers, attempts, artEvents, activity, tx, calls, strayed>>

\* _handle_complete, up to the commit of message.completed.
EngineEnds(r) ==
  /\ r \notin PiPubRuns /\ WorkerIsFree(r)
  /\ EndIsRead(r, IF Warnings(r) # {} \/ AbandonedDraft(r) THEN {"completed_with_warnings"}
                                                     ELSE {"completed"})

\* _requires_main_report, and no published attempt without its version
ReportedMut(r) == Current(r) = {} => Published(r) = {}   \* no report asked for
Reported(r) == Current(r) = {} => Published(r) = {} /\ r \notin MainRuns

\* The snapshot of the terminal request, from before its locks.  The gateway may ask
\* for the warning; attempts that failed are not looked at.
GatewayEnds(r) ==
  /\ r \in PiPubRuns /\ Reported(r)
  /\ EndIsRead(r, IF AbandonedDraft(r) THEN {"completed_with_warnings"}
                                  ELSE {"completed", "completed_with_warnings"})

\* settle_terminal under the lock of the run.  The engine's transaction is a new one,
\* and CompletionValidator looks at the drafts again; the gateway's is still the same.
Settles(r) ==
  /\ pubRun[r] = "running" /\ ending[r] # "none"
  /\ r \in PiPubRuns \/ ~ HoldsDraft(r)
  /\ pubRun' = [pubRun EXCEPT ![r] = ending[r]]
  /\ NoEnding(r)
  /\ UNCHANGED <<head, revs, vers, attempts, artEvents, activity, tx, calls, strayed>>

\* 409, or the process ends.
EndRolledBack(r) ==
  /\ ending[r] # "none"
  /\ NoEnding(r)
  /\ UNCHANGED <<pubRun, head, revs, vers, attempts, artEvents, activity, tx, calls, strayed>>

-----------------------------------------------------------------------------
\* Tool calls

Begin(r) ==
  /\ calls < MaxCalls
  /\ calls' = calls + 1
  /\ pubRun[r] = "running"
  /\ tx[r] = NoCall /\ (ending[r] = "none" \/ r \in PiPubRuns)
  /\ \/ \E op \in {"create", "update", "abandon"}, a \in Arts :
          /\ op = "abandon" => r \notin PiPubRuns   \* no tool of theirs
          /\ tx' = [tx EXCEPT ![r] = [op |-> op, todo |-> <<a>>, snap |-> Snapshot]]
     \/ \E list \in {s \in SeqOf(Arts, 2) : s # <<>> /\ IsInjective(s)} :
          tx' = [tx EXCEPT ![r] = [op |-> "publish", todo |-> list, snap |-> Snapshot]]
  /\ UNCHANGED <<pubRun, head, revs, vers, attempts, artEvents, activity, endVars>>

\* leased_run, which also keeps the run locked to the first commit of a Pi call; what a
\* list of drafts has left after that is published with no look at the run.
Admitted(r) == r \in PiPubRuns => pubRun[r] = "running" \/ tx[r].op = "publishing"

\* The process ends, the payload is invalid, or the commit meets the event or
\* the attempt of another call: the transaction is rolled back.
CallRolledBack(r) ==
  /\ tx[r] # NoCall
  /\ CallEnds(r)
  /\ UNCHANGED <<pubRun, head, revs, vers, attempts, artEvents, activity, calls, endVars>>

Written == Cardinality({w \in Arts \X (1..MaxRevisions) : w[2] <= Len(revs[w[1]])})

\* One more immutable revision, written by r, who holds the head.
AddRevision(r, a, event) ==
  /\ Written < MaxRevisions
  /\ head' = [head EXCEPT ![a] = [cur |-> @.cur + 1, owner |-> r, status |->
                                    IF event = "claim" THEN "drafting" ELSE @.status]]
  /\ revs' = [revs EXCEPT ![a] = Append(@, r)]
  /\ Emits(r, a, IF head[a] = NoHead THEN "draft_created" ELSE "draft_updated")
  /\ UNCHANGED <<pubRun, vers, attempts, calls, endVars>>

\* ArtifactBusy, and the other refusals: nothing is written.
PubRefused(r) ==
  /\ CallEnds(r)
  /\ UNCHANGED <<pubRun, head, revs, vers, attempts, artEvents, activity, calls, endVars>>

HeldByOther(r, a) ==
  /\ head[a].owner \notin {NoPubRun, r}
  /\ OwnerIsActive(tx[r].snap, head[a].owner)

CreateOrGetDraft(r) ==
  /\ tx[r].op = "create" /\ Admitted(r)
  /\ LET a == Head(tx[r].todo) IN
       IF HeldByOther(r, a) THEN PubRefused(r) ELSE AddRevision(r, a, "claim") /\ CallEnds(r)

UpdateDraft(r) ==
  /\ tx[r].op = "update" /\ Admitted(r)
  /\ LET a == Head(tx[r].todo) IN
       IF head[a].owner # r THEN PubRefused(r) ELSE AddRevision(r, a, "update") /\ CallEnds(r)

\* _publish_one ends with a commit, and the list goes on with a new snapshot.
Continues(r) ==
  tx' = [tx EXCEPT ![r] =
    IF Len(tx[r].todo) = 1 THEN NoCall
    ELSE [op |-> "publishing", todo |-> Tail(tx[r].todo), snap |-> Snapshot']]

\* _record_rejection: says nothing of the artifact but the draft that was named.
Rejects(r, a) ==
  /\ IF Of(tx[r].snap.attempts, RejectKey(r, a)) # {} THEN UNCHANGED attempts
     ELSE Fresh(RejectKey(r, a)) /\ attempts' = attempts \cup {Attempt(RejectKey(r, a), r, "failed")}
  /\ UNCHANGED <<pubRun, head, revs, vers, artEvents, activity, calls, endVars>>

\* finalize_published_version: the version, the head set free, the event.
Finalize(r, a) ==
  /\ vers' = [vers EXCEPT ![a] = Append(@, [rev |-> head[a].cur, run |-> r])]
  /\ head' = [head EXCEPT ![a] = ReleasedHead(@, "idle")]
  /\ Emits(r, a, "published")

\* An answer already stored for this revision is given again.
Stored(r, a) ==
  {t \in Of(tx[r].snap.attempts, PublishKey(a, head[a].cur)) : t.run = r}

PublishOne(r) ==
  /\ tx[r].op \in {"publish", "publishing"} /\ Admitted(r)
  /\ LET a == Head(tx[r].todo)
         key == PublishKey(a, head[a].cur)
     IN IF head[a].cur # 0 /\ Stored(r, a) # {}
          THEN UNCHANGED <<pubRun, head, revs, vers, attempts, artEvents, activity, calls, endVars>>
        ELSE IF head[a].cur = 0 \/ head[a].owner # r \/ Of(tx[r].snap.attempts, key) # {}
          THEN Rejects(r, a)
        ELSE /\ Fresh(key)
             /\ \/ /\ attempts' = attempts \cup {Attempt(key, r, "validation_failed")}
                   /\ UNCHANGED <<head, vers, artEvents, activity>>
                \/ /\ attempts' = attempts \cup {Attempt(key, r, "published")}
                   /\ Finalize(r, a)
             /\ UNCHANGED <<pubRun, revs, calls, endVars>>
  /\ Continues(r)

AbandonDraft(r) ==
  /\ tx[r].op = "abandon"
  /\ LET a == Head(tx[r].todo)
         done == {t \in Of(tx[r].snap.attempts, PublishKey(a, head[a].cur)) :
                    t.status = "published"}
     IN IF head[a].cur = 0 \/ done # {} \/ head[a].owner # r THEN PubRefused(r)
        ELSE /\ Fresh(AbandonKey(a, head[a].cur))
             /\ attempts' = attempts \cup {Attempt(AbandonKey(a, head[a].cur), r, "failed")}
             /\ head' = [head EXCEPT ![a] = ReleasedHead(@, "failed")]
             /\ Emits(r, a, "failed")
             /\ CallEnds(r)
             /\ UNCHANGED <<pubRun, revs, vers, calls, endVars>>

-----------------------------------------------------------------------------
PubNext ==
  \E r \in PubRuns :
    \/ PubRunStarts(r) \/ LosesRun(r) \/ Resume(r) \/ LeavesRun(r)
    \/ EngineEnds(r) \/ GatewayEnds(r) \/ Settles(r) \/ EndRolledBack(r)
    \/ Begin(r) \/ CallRolledBack(r)
    \/ CreateOrGetDraft(r) \/ UpdateDraft(r) \/ PublishOne(r) \/ AbandonDraft(r)

PubSpec == PubInit /\ [][PubNext]_pubVars

-----------------------------------------------------------------------------
PubTypeOK ==
  /\ pubRun \in [PubRuns -> {"new", "queued", "running", "paused", "gone", "completed",
                             "completed_with_warnings"}]
  /\ ending \in [PubRuns -> {"none", "completed", "completed_with_warnings"}]
  /\ \A a \in Arts :
       /\ head[a].cur = Len(revs[a])
       /\ head[a].status \in {"none", "idle", "drafting", "failed"}
       /\ (head[a].owner # NoPubRun) <=> (head[a].status = "drafting")
       /\ \A i \in DOMAIN vers[a] : vers[a][i].rev \in DOMAIN revs[a]

\* Whoever holds a head wrote its last revision, and has not published it: a
\* takeover from a paused run cannot publish, or lose, the work of another.
HeadIsOwnersWork ==
  \A a \in Arts : head[a].owner # NoPubRun =>
    /\ Last(revs[a]) = head[a].owner
    /\ \A t \in Of(attempts, PublishKey(a, head[a].cur)) : t.status # "published"

\* Versions and published attempts tell the same: each version is one revision,
\* newer than the one before, published once, by the run that wrote it.
VersionsAreRevisions ==
  /\ \A a \in Arts : \A i \in DOMAIN vers[a] :
       /\ revs[a][vers[a][i].rev] = vers[a][i].run
       /\ Attempt(PublishKey(a, vers[a][i].rev), vers[a][i].run, "published") \in attempts
       /\ i > 1 => vers[a][i - 1].rev < vers[a][i].rev
  /\ \A t \in attempts : t.status = "published" =>
       \E i \in DOMAIN vers[t.key[2]] : vers[t.key[2]][i].rev = t.key[3]

\* The events of the session number the changes of each artifact without a
\* gap, one for each version, and the last one is the artifact's activity.
EventsTellAll ==
  \A a \in Arts :
    LET mine == {i \in DOMAIN artEvents : artEvents[i].art = a} IN
    /\ Cardinality({i \in mine : artEvents[i].type = "published"}) = Len(vers[a])
    /\ activity[a] = IF mine = {} THEN 0 ELSE CHOOSE i \in mine : \A j \in mine : j <= i

\* A run of the current runtime that completed without a warning has published whatever
\* it tried to publish, and holds no draft, though others write between the last look
\* at its attempts and its end.  Excepted are runs whose former worker may still be
\* inside a call.  A Pi run completes without a warning whatever it failed to publish.
CompletedIsClean ==
  \A r \in PubRuns \ (PiPubRuns \cup strayed) : pubRun[r] = "completed" =>
    /\ \A a \in Arts : head[a].owner # r
    /\ \A t \in AttemptsOf(r) : t.status # "published" =>
         /\ t.key[1] # "reject"
         /\ \E u \in AttemptsOf(r) : u.status = "published" /\ u.key[2] = t.key[2]

\* A formal analysis by Pi ends well only with a published version of its own.
AnalysisIsPublished ==
  \A r \in PiPubRuns \cap MainRuns : pubRun[r] \in {"completed", "completed_with_warnings"} =>
    \E a \in Arts : \E i \in DOMAIN vers[a] : vers[a][i].run = r

\* All that is said of publication.
PublicationIsSound ==
  /\ HeadIsOwnersWork /\ VersionsAreRevisions /\ EventsTellAll
  /\ CompletedIsClean /\ AnalysisIsPublished
=============================================================================
