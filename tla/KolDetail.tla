------------------------------ MODULE KolDetail ------------------------------
(***************************************************************************)
(* The detail of one creator (agent_runtime/kol_detail.py): a request that *)
(* finds neither a cached detail nor a published one claims the working    *)
(* head of the artifact and drives a run, in the same request.             *)
(*                                                                         *)
(* A request's transaction begins when its user is authenticated, and its  *)
(* plain SELECTs answer from that moment (REPEATABLE READ).  Only then it  *)
(* waits for the rows of its tenant (resolve_user FOR UPDATE), which it    *)
(* holds to its commit.  SELECT ... FOR UPDATE answers with what is stored.*)
(***************************************************************************)
EXTENDS Integers, FiniteSets

CONSTANTS
  Reqs,        \* the requests for this creator; a request names the run it starts
  MaxExpiries, \* bound: how often the time to live passes
  NoReq

ASSUME ReqsAssumption == NoReq \notin Reqs

VARIABLES
  kdPc,       \* where each request is
  kdSnap,     \* what it reads
  kdTenant,   \* the request that holds the tenant's rows
  kdArt,      \* is there an artifact row
  kdOwner,    \* the owner of its working head
  kdRun,      \* the run of each request
  kdVer,      \* the last published version
  kdCache,    \* the cached detail
  kdExpiries

kdVars == <<kdPc, kdSnap, kdTenant, kdArt, kdOwner, kdRun, kdVer, kdCache, kdExpiries>>

Ages == {"none", "fresh", "old"}
KdRows == [art |-> kdArt, run |-> kdRun, ver |-> kdVer, cache |-> kdCache]

KdInit ==
  /\ kdPc = [q \in Reqs |-> "away"]
  /\ kdTenant = NoReq
  /\ kdArt = FALSE
  /\ kdOwner = NoReq
  /\ kdRun = [q \in Reqs |-> "none"]
  /\ kdVer = "none"
  /\ kdCache = "none"
  /\ kdExpiries = 0
  /\ kdSnap = [q \in Reqs |-> KdRows]

-----------------------------------------------------------------------------
Goes(q, to) == kdPc' = [kdPc EXCEPT ![q] = to]
LetsGoMut(q) == kdTenant' = kdTenant
LetsGo(q) == kdTenant' = IF kdTenant = q THEN NoReq ELSE kdTenant

Arrive(q) ==
  /\ kdPc[q] = "away"
  /\ Goes(q, "authenticated")
  /\ kdSnap' = [kdSnap EXCEPT ![q] = KdRows]
  /\ UNCHANGED <<kdTenant, kdArt, kdOwner, kdRun, kdVer, kdCache, kdExpiries>>

ResolveTenant(q) ==
  /\ kdPc[q] = "authenticated"
  /\ kdTenant = NoReq
  /\ kdTenant' = q
  /\ Goes(q, "resolved")
  /\ UNCHANGED <<kdSnap, kdArt, kdOwner, kdRun, kdVer, kdCache, kdExpiries>>

CacheHit(q) == kdSnap[q].cache = "fresh"
VersionHit(q) == ~ CacheHit(q) /\ kdSnap[q].ver = "fresh"

\* set_cached_detail inserts what it does not see.  The row of another request
\* refuses it, and the row is not seen afterwards either: the request fails.
InsertRefused(q) == kdSnap[q].cache = "none" /\ kdCache # "none"

AnswerFromStore(q) ==
  /\ kdPc[q] \in {"resolved", "again"}
  /\ \/ CacheHit(q) /\ Goes(q, "answered") /\ UNCHANGED kdCache
     \/ VersionHit(q) /\ InsertRefused(q) /\ Goes(q, "failed") /\ UNCHANGED kdCache
     \/ /\ VersionHit(q) /\ ~ InsertRefused(q)
        /\ Goes(q, "answered")
        /\ kdCache' = kdVer
  /\ LetsGo(q)
  /\ UNCHANGED <<kdSnap, kdArt, kdOwner, kdRun, kdVer, kdExpiries>>

\* _owner_is_active reads the owner's run with a plain SELECT: a run that is
\* not in the snapshot counts as gone.
OwnerActive(q) == kdOwner # NoReq /\ kdSnap[q].run[kdOwner] = "running"

\* The request that made the artifact row first is the one that runs.
RowIsTakenMut(q) == FALSE
RowIsTaken(q) == ~ kdSnap[q].art /\ kdArt

\* _active_kol_detail_run and _claim_working_head: one step, the draft is locked.
Coordinate(q) ==
  /\ kdPc[q] \in {"resolved", "again"}
  /\ ~ CacheHit(q) /\ ~ VersionHit(q)
  /\ LetsGo(q)
  /\ \/ /\ kdSnap[q].art /\ OwnerActive(q)      \* the run of another request
        /\ Goes(q, "answered")
        /\ UNCHANGED <<kdSnap, kdArt, kdOwner, kdRun>>
     \/ /\ RowIsTaken(q)                        \* lost_race, once
        /\ Goes(q, IF kdPc[q] = "again" THEN "failed" ELSE "again")
        /\ kdSnap' = [kdSnap EXCEPT ![q] = KdRows]
        /\ UNCHANGED <<kdArt, kdOwner, kdRun>>
     \/ /\ ~ RowIsTaken(q)
        /\ ~ (kdSnap[q].art /\ OwnerActive(q))
        /\ kdArt' = TRUE
        /\ kdOwner' = q
        /\ kdRun' = [kdRun EXCEPT ![q] = "running"]
        /\ Goes(q, "driving")
        /\ UNCHANGED kdSnap
  /\ UNCHANGED <<kdVer, kdCache, kdExpiries>>

-----------------------------------------------------------------------------
\* The engine

\* Publication needs the head; it sets it free with the version.
PublishDetail(q) ==
  /\ kdRun[q] = "running"
  /\ kdOwner = q
  /\ kdRun' = [kdRun EXCEPT ![q] = "published"]
  /\ kdOwner' = NoReq
  /\ kdVer' = "fresh"
  /\ UNCHANGED <<kdPc, kdSnap, kdTenant, kdArt, kdCache, kdExpiries>>

\* The cache is filled after the engine has returned.
FillCache(q) ==
  /\ kdPc[q] = "driving"
  /\ kdRun[q] = "published"
  /\ kdCache' = "fresh"
  /\ Goes(q, "answered")
  /\ UNCHANGED <<kdSnap, kdTenant, kdArt, kdOwner, kdRun, kdVer, kdExpiries>>

ReleasedOwnerMut(q) == kdOwner
ReleasedOwner(q) == IF kdOwner = q THEN NoReq ELSE kdOwner

\* The run fails: what it holds is set free (_settle_failed_run).
RunFails(q) ==
  /\ kdRun[q] = "running"
  /\ kdRun' = [kdRun EXCEPT ![q] = "ended"]
  /\ kdOwner' = ReleasedOwner(q)
  /\ IF kdPc[q] = "driving" THEN Goes(q, "failed") ELSE UNCHANGED kdPc
  /\ UNCHANGED <<kdSnap, kdTenant, kdArt, kdVer, kdCache, kdExpiries>>

\* The process ends: the run stays, and the recovery goes on with it; the cache
\* is not filled.  A transaction that was open is rolled back.
ProcessEnds(q) ==
  /\ kdPc[q] \notin {"away", "answered", "failed"}
  /\ Goes(q, "failed")
  /\ LetsGo(q)
  /\ UNCHANGED <<kdSnap, kdArt, kdOwner, kdRun, kdVer, kdCache, kdExpiries>>

Aged(x) == IF x = "fresh" THEN "old" ELSE x

\* Hours pass: no run of the engine, thirty minutes at most, fills the cache then.
Expire ==
  /\ kdExpiries < MaxExpiries
  /\ \A q \in Reqs : kdPc[q] # "driving"
  /\ kdVer = "fresh"
  /\ kdExpiries' = kdExpiries + 1
  /\ kdVer' = Aged(kdVer)
  /\ kdCache' = Aged(kdCache)
  /\ UNCHANGED <<kdPc, kdSnap, kdTenant, kdArt, kdOwner, kdRun>>

DetailStep(q) == ResolveTenant(q) \/ AnswerFromStore(q) \/ Coordinate(q) \/ FillCache(q)
EngineStep(q) == PublishDetail(q) \/ RunFails(q)

KdNext ==
  \/ \E q \in Reqs : Arrive(q) \/ DetailStep(q) \/ EngineStep(q) \/ ProcessEnds(q)
  \/ Expire

KdSpec == KdInit /\ [][KdNext]_kdVars

\* A request that can go on does, a run ends (its attempts are limited), and no
\* request is passed over for ever for the tenant's rows.
KdFairness ==
  /\ \A q \in Reqs : WF_kdVars(EngineStep(q))
  /\ \A q \in Reqs : SF_kdVars(DetailStep(q))

KdLiveSpec == KdSpec /\ KdFairness

-----------------------------------------------------------------------------
KdTypeOK ==
  /\ kdPc \in [Reqs -> {"away", "authenticated", "resolved", "again", "driving",
                        "answered", "failed"}]
  /\ kdTenant # NoReq => kdPc[kdTenant] = "resolved"
  /\ kdRun \in [Reqs -> {"none", "running", "published", "ended"}]
  /\ kdVer \in Ages /\ kdCache \in Ages

\* The head is never left with a run that is over, so the artifact cannot stay
\* busy; and what is cached as fresh is a version that is.
HeadAndCacheAreTrue ==
  /\ kdOwner # NoReq => kdArt /\ kdRun[kdOwner] = "running"
  /\ kdCache = "fresh" => kdVer = "fresh"

\* For a creator that nobody has asked for before, the unique key of the artifact
\* row lets one request into the engine, however many arrive together.
Started == {q \in Reqs : kdRun[q] # "none"}
FirstRunIsAlone ==
  (\A q \in Started : kdRun[q] = "running") => Cardinality(Started) <= 1

\* What kol_detail.py says of every concurrent create: at most one is in the
\* engine.
OneInTheEngine == Cardinality({q \in Reqs : kdRun[q] = "running"}) <= 1

\* Every request is answered or fails.
RequestsEnd == \A q \in Reqs : kdPc[q] = "authenticated" ~> kdPc[q] \in {"answered", "failed"}
=============================================================================
