----------------------------- MODULE ExportCache -----------------------------
(***************************************************************************)
(* The cache of the Excel file of one artifact version                     *)
(* (agent_artifacts/export_cache.py).  A request looks at the row under a  *)
(* lock; it takes the file, waits for the builder, or becomes the builder  *)
(* under a new claim token.  Rendering and writing run outside the lock,   *)
(* so a builder may be late, cancelled or dead, and another takes over     *)
(* when the lease of the row is over.  Each builder writes a file of its   *)
(* own, named here by its token.                                           *)
(***************************************************************************)
EXTENDS Integers, FiniteSets

CONSTANTS
  Exporters,  \* the requests
  MaxSlow,    \* bound: builds that outlive their lease
  MaxDamage   \* bound: files lost or damaged from outside

VARIABLES
  exPc,      \* where each request is
  exTok,     \* the token of its claim
  exRow,     \* the artifact_exports row
  exFiles,   \* the files on disk
  exBad,     \* those whose hash is no longer that of the row
  exDead,    \* tokens whose process ended: what it wrote stays
  exNext, exSlow, exDamage

exVars == <<exPc, exTok, exRow, exFiles, exBad, exDead, exNext, exSlow, exDamage>>

NoToken == 0
NoRow == [status |-> "none", token |-> NoToken, file |-> NoToken, stale |-> FALSE]

ExInit ==
  /\ exPc = [q \in Exporters |-> "away"]
  /\ exTok = [q \in Exporters |-> NoToken]
  /\ exRow = NoRow
  /\ exFiles = {} /\ exBad = {} /\ exDead = {}
  /\ exNext = 1 /\ exSlow = 0 /\ exDamage = 0

At(q, pc) == exPc[q] = pc
To(q, pc) == exPc' = [exPc EXCEPT ![q] = pc]
Disk == <<exFiles, exBad>>
Counts == <<exDead, exNext, exSlow, exDamage>>

-----------------------------------------------------------------------------
\* get_or_build, under the row lock

Asks(q) == At(q, "away") /\ To(q, "looking") /\ UNCHANGED <<exTok, exRow, Disk, Counts>>

\* exists, sha256 and size
FileIsGood == exRow.file \in exFiles \ exBad

TakesFile(q) ==
  /\ At(q, "looking")
  /\ exRow.status = "ready" /\ FileIsGood
  /\ To(q, "answered")
  /\ UNCHANGED <<exTok, exRow, Disk, Counts>>

\* A damaged file of a ready row is deleted before it is built again.
DamagedFile == IF exRow.status = "ready" THEN exFiles \cap {exRow.file} ELSE {}

MayClaimMut == exRow.status # "building" /\ ~ (exRow.status = "ready" /\ FileIsGood)
MayClaim ==
  CASE exRow.status = "ready" -> ~ FileIsGood
    [] exRow.status = "building" -> exRow.stale
    [] OTHER -> TRUE

\* A claim writes a new token: the builder before is fenced.
NewToken == exNext
Claims(q) ==
  /\ At(q, "looking")
  /\ MayClaim
  /\ exRow' = [status |-> "building", token |-> NewToken, file |-> NoToken, stale |-> FALSE]
  /\ exTok' = [exTok EXCEPT ![q] = NewToken]
  /\ exNext' = exNext + 1
  /\ exFiles' = exFiles \ DamagedFile
  /\ exBad' = exBad \ DamagedFile
  /\ To(q, "rendering")
  /\ UNCHANGED <<exDead, exSlow, exDamage>>

\* The database refuses more often than the budget of retries.
LookFails(q) == At(q, "looking") /\ To(q, "failed") /\ UNCHANGED <<exTok, exRow, Disk, Counts>>

-----------------------------------------------------------------------------
\* Outside the lock

Renders(q) == At(q, "rendering") /\ To(q, "writing") /\ UNCHANGED <<exTok, exRow, Disk, Counts>>

\* _write_atomic
Writes(q) ==
  /\ At(q, "writing")
  /\ exFiles' = exFiles \cup {exTok[q]}
  /\ To(q, "marking")
  /\ UNCHANGED <<exTok, exRow, exBad, Counts>>

\* UPDATE ... WHERE claim_token = the builder's
HoldsMut(q) == exRow.status = "building"
Holds(q) == exRow.token = exTok[q]
MarkFailed(q) ==
  exRow' = IF Holds(q) THEN [exRow EXCEPT !.status = "failed"] ELSE exRow

\* Rendering or writing fails.
BuildFails(q) ==
  /\ At(q, "rendering") \/ At(q, "writing")
  /\ MarkFailed(q)
  /\ To(q, "failed")
  /\ UNCHANGED <<exTok, Disk, Counts>>

MarksReady(q) ==
  /\ At(q, "marking")
  /\ Holds(q)
  /\ exRow' = [exRow EXCEPT !.status = "ready", !.file = exTok[q]]
  /\ To(q, "answered")
  /\ UNCHANGED <<exTok, Disk, Counts>>

\* What a builder deletes is its own.
OwnFileMut(q) == {}
OwnFile(q) == {exTok[q]}
Deletes(q) == exFiles' = exFiles \ OwnFile(q) /\ exBad' = exBad \ OwnFile(q)

\* The row has gone to another builder: delete the file and look again.
IsFenced(q) ==
  /\ At(q, "marking")
  /\ ~ Holds(q)
  /\ Deletes(q)
  /\ To(q, "looking")
  /\ UNCHANGED <<exTok, exRow, Counts>>

\* A cancellation while the file is written or the row is marked.  The write is
\* shielded: it ends, then the file goes.  A mark that was committed stays.
IsCancelled(q) ==
  /\ At(q, "writing") \/ At(q, "marking")
  /\ \/ Deletes(q) /\ MarkFailed(q)
     \/ /\ At(q, "marking") /\ Holds(q)
        /\ exRow' = [exRow EXCEPT !.status = "ready", !.file = exTok[q]]
        /\ UNCHANGED Disk
  /\ To(q, "failed")
  /\ UNCHANGED <<exTok, Counts>>

\* The mark raises, and may have been committed: the file goes first, and the
\* row follows in another transaction.
MarkRaises(q) ==
  /\ At(q, "marking")
  /\ Deletes(q)
  /\ \/ UNCHANGED exRow
     \/ Holds(q) /\ exRow' = [exRow EXCEPT !.status = "ready", !.file = exTok[q]]
  /\ To(q, "undoing")
  /\ UNCHANGED <<exTok, Counts>>

Undoes(q) ==
  /\ At(q, "undoing")
  /\ MarkFailed(q)
  /\ To(q, "failed")
  /\ UNCHANGED <<exTok, Disk, Counts>>

Working(q) == exPc[q] \in {"rendering", "writing", "marking", "undoing"}

Dies(q) ==
  /\ Working(q)
  /\ exDead' = exDead \cup {exTok[q]}
  /\ To(q, "failed")
  /\ UNCHANGED <<exTok, exRow, Disk, exNext, exSlow, exDamage>>

-----------------------------------------------------------------------------
\* The lease of a building row is over: its builder is gone, or slow.
BuilderLives == \E q \in Exporters : Working(q) /\ Holds(q)

LeaseEnds ==
  /\ exRow.status = "building" /\ ~ exRow.stale
  /\ \/ ~ BuilderLives /\ UNCHANGED exSlow
     \/ BuilderLives /\ exSlow < MaxSlow /\ exSlow' = exSlow + 1
  /\ exRow' = [exRow EXCEPT !.stale = TRUE]
  /\ UNCHANGED <<exPc, exTok, Disk, exDead, exNext, exDamage>>

Damage ==
  /\ exDamage < MaxDamage
  /\ exDamage' = exDamage + 1
  /\ \E f \in exFiles : \/ exFiles' = exFiles \ {f} /\ exBad' = exBad \ {f}
                        \/ exBad' = exBad \cup {f} /\ UNCHANGED exFiles
  /\ UNCHANGED <<exPc, exTok, exRow, exDead, exNext, exSlow>>

ExStep(q) ==
  \/ TakesFile(q) \/ Claims(q) \/ Renders(q) \/ Writes(q)
  \/ MarksReady(q) \/ IsFenced(q) \/ Undoes(q)

ExNext ==
  \/ \E q \in Exporters :
       \/ Asks(q) \/ ExStep(q) \/ LookFails(q) \/ BuildFails(q) \/ IsCancelled(q)
       \/ MarkRaises(q) \/ Dies(q)
  \/ LeaseEnds \/ Damage

ExSpec == ExInit /\ [][ExNext]_exVars
ExFairness == WF_exVars(LeaseEnds) /\ \A q \in Exporters : WF_exVars(ExStep(q))
ExLiveSpec == ExSpec /\ ExFairness

-----------------------------------------------------------------------------
ExTypeOK ==
  /\ exPc \in [Exporters -> {"away", "looking", "rendering", "writing", "marking",
                             "undoing", "answered", "failed"}]
  /\ exRow.status \in {"none", "building", "ready", "failed"}
  /\ exRow.token < exNext /\ (exRow.status = "ready" => exRow.file = exRow.token)
  /\ exBad \subseteq exFiles

\* A row that is ready has its file, unless it was lost from outside or its own
\* builder is taking it back: no builder that was fenced touches it.
ReadyHasFile ==
  exRow.status = "ready" /\ exRow.file \notin exFiles =>
    \/ exDamage > 0 \/ exRow.file \in exDead
    \/ \E q \in Exporters : At(q, "undoing") /\ Holds(q)

\* Every file on disk is that of the ready row, of a builder at work, or left by
\* a process that died: a cancelled or fenced build leaves no orphan.
NoOrphanFiles ==
  \A f \in exFiles :
    \/ exRow.status = "ready" /\ exRow.file = f
    \/ \E q \in Exporters : Working(q) /\ exTok[q] = f
    \/ f \in exDead

\* One builder at a time may write the row, however many were taken over.
OneBuilder == Cardinality({q \in Exporters : Working(q) /\ Holds(q)}) <= 1

\* All that is said of the rows and the files.
ExportIsSound == ReadyHasFile /\ NoOrphanFiles /\ OneBuilder

\* Every request gets the file or an error.
ExportsEnd == \A q \in Exporters : exPc[q] = "looking" ~> exPc[q] \in {"answered", "failed"}
=============================================================================
