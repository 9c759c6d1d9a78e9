----------------------------- MODULE ToolCatalog -----------------------------
(***************************************************************************)
(* Which remote tools a run may call.  Every start of a backend process    *)
(* lists the tools of the provider and compares their signatures with the  *)
(* catalog (mcp_gateway/registry.py): a tool of the manifest has a         *)
(* reviewed signature, any other allowed tool keeps the one it was first   *)
(* seen with.  A tool that has changed is put in quarantine, and so is a   *)
(* tool of the manifest that is missing.  Any other tool that is missing   *)
(* stays usable: the code looks its row up under the old name in the       *)
(* allowlist's value, and rows are stored under the allowlist's key.       *)
(* A run of the current runtime works with the catalog as it was when its  *)
(* registry was assembled (agent_runtime/tools/registry.py), a Pi run with *)
(* the signatures frozen when it was created (runtime_config/service.py);  *)
(* both ask the catalog again before a call.                               *)
(***************************************************************************)
EXTENDS Integers, FiniteSets

CONSTANTS
  Tools,      \* the tools of one service that the allowlist names
  Sigs,       \* signatures: name, input and output schema
  Reviewed,   \* the signature of each tool in the manifest, or NoSig
  NoSig,
  Processes,  \* backend processes
  Engines,    \* runs of the current runtime
  PiRunIds,   \* Pi runs
  MaxStarts   \* bound: refreshes of the catalog

ASSUME CatalogAssumption ==
  NoSig \notin Sigs /\ Reviewed \in [Tools -> Sigs \cup {NoSig}] /\ MaxStarts \in Nat

VARIABLES
  tcOffer,   \* what the provider offers now, NoSig for a tool it does not have
  tcRow,     \* mcp_tool_catalog: signature, approved and enabled; NoSig for no row
  tcListed,  \* what each process has been told by list_tools, and found in the catalog
  tcShown,   \* the signatures a run of the current runtime was assembled with
  tcFrozen,  \* the adapter catalog of a Pi run
  tcFound,   \* tools with a row that a refresh has found changed, or missing if reviewed
  tcWrong,   \* a call went to one of them
  tcStarts

tcVars == <<tcOffer, tcRow, tcListed, tcShown, tcFrozen, tcFound, tcWrong, tcStarts>>

Nothing == [t \in Tools |-> NoSig]
NoRow == [sig |-> NoSig, ok |-> FALSE]
NotListing == [busy |-> FALSE, offer |-> Nothing, rows |-> [t \in Tools |-> NoRow]]

TcInit ==
  /\ tcOffer \in [Tools -> Sigs]
  /\ tcRow = [t \in Tools |-> NoRow]
  /\ tcListed = [p \in Processes |-> NotListing]
  /\ tcShown = [e \in Engines |-> Nothing]
  /\ tcFrozen = [r \in PiRunIds |-> Nothing]
  /\ tcFound = {} /\ tcWrong = FALSE /\ tcStarts = 0

-----------------------------------------------------------------------------
ProviderChanges(t) ==
  /\ \E s \in Sigs \cup {NoSig} : s # tcOffer[t] /\ tcOffer' = [tcOffer EXCEPT ![t] = s]
  /\ UNCHANGED <<tcRow, tcListed, tcShown, tcFrozen, tcFound, tcWrong, tcStarts>>

\* list_tools, and the view of the one transaction of refresh_approved_datatap_tools.
Lists(p) ==
  /\ ~ tcListed[p].busy
  /\ tcStarts < MaxStarts
  /\ tcStarts' = tcStarts + 1
  /\ tcListed' = [tcListed EXCEPT ![p] = [busy |-> TRUE, offer |-> tcOffer, rows |-> tcRow]]
  /\ UNCHANGED <<tcOffer, tcRow, tcShown, tcFrozen, tcFound, tcWrong>>

\* What the refresh finds wrong with a tool that has a row.
Faulty(row, offer, t) ==
  row.sig # NoSig /\ offer # row.sig /\ (offer = NoSig => Reviewed[t] # NoSig)

\* What it makes of the row of one tool.
MissingIsKeptMut(row, offer, t) ==    \* the loop over missing tools of the manifest forgotten
  IF row.sig = NoSig /\ offer # NoSig /\ Reviewed[t] \in {NoSig, offer}
    THEN [sig |-> offer, ok |-> TRUE]
    ELSE IF offer \in {NoSig, row.sig} THEN row ELSE [row EXCEPT !.ok = FALSE]

Refreshed(row, offer, t) ==
  CASE row.sig = NoSig /\ offer # NoSig /\ Reviewed[t] \in {NoSig, offer} ->
         [sig |-> offer, ok |-> TRUE]
    [] Faulty(row, offer, t) -> [row EXCEPT !.ok = FALSE]
    [] OTHER -> row

\* A row that the view shows is written if its values change; a row that it does not
\* show is inserted, and if another process was faster, everything is rolled back.
Writes(p) ==
  \E rows \in {tcListed[p].rows, tcRow} :  \* the transaction may be younger than the list
    LET offer == tcListed[p].offer
        made(t) == Refreshed(rows[t], offer[t], t)
        fine == \A t \in Tools : rows[t] = NoRow /\ made(t) # NoRow => tcRow[t] = NoRow
    IN /\ tcListed[p].busy
       /\ tcRow' = IF fine
                     THEN [t \in Tools |-> IF made(t) # rows[t] THEN made(t) ELSE tcRow[t]]
                     ELSE tcRow
       /\ tcFound' = IF fine
                       THEN tcFound \cup {t \in Tools : Faulty(rows[t], offer[t], t)}
                       ELSE tcFound
       /\ tcListed' = [tcListed EXCEPT ![p] = NotListing]
       /\ UNCHANGED <<tcOffer, tcShown, tcFrozen, tcWrong, tcStarts>>

\* The service does not answer: its part of the refresh is skipped.
ListingFails(p) ==
  /\ tcListed[p].busy
  /\ tcListed' = [tcListed EXCEPT ![p] = NotListing]
  /\ UNCHANGED <<tcOffer, tcRow, tcShown, tcFrozen, tcFound, tcWrong, tcStarts>>

-----------------------------------------------------------------------------
Usable(t) == tcRow[t].ok
Signatures == [t \in Tools |-> IF Usable(t) THEN tcRow[t].sig ELSE NoSig]

\* _ensure_catalog
Assembles(e) ==
  /\ tcShown[e] = Nothing
  /\ tcShown' = [tcShown EXCEPT ![e] = Signatures]
  /\ UNCHANGED <<tcOffer, tcRow, tcListed, tcFrozen, tcFound, tcWrong, tcStarts>>

\* _reviewed_adapter_catalog
Freezes(r) ==
  /\ tcFrozen[r] = Nothing
  /\ tcFrozen' = [tcFrozen EXCEPT ![r] = Signatures]
  /\ UNCHANGED <<tcOffer, tcRow, tcListed, tcShown, tcFound, tcWrong, tcStarts>>

\* _recheck_mcp_catalog_row, and the first half of preflight_mcp: at the moment of the
\* snapshot they read from (for Pi the authentication of the request).
StillMut(sig, t) == sig # NoSig       \* as it was shown
Still(sig, t) == sig # NoSig /\ Usable(t) /\ tcRow[t].sig = sig

Sent(t) ==
  /\ tcWrong' = (tcWrong \/ t \in tcFound)
  /\ UNCHANGED <<tcOffer, tcRow, tcListed, tcShown, tcFrozen, tcFound, tcStarts>>

Executes(e, t) == Still(tcShown[e][t], t) /\ Sent(t)
Preflights(r, t) == Still(tcFrozen[r][t], t) /\ Sent(t)

TcNext ==
  \/ \E t \in Tools : \/ ProviderChanges(t)
                      \/ \E e \in Engines : Executes(e, t)
                      \/ \E r \in PiRunIds : Preflights(r, t)
  \/ \E p \in Processes : Lists(p) \/ Writes(p) \/ ListingFails(p)
  \/ \E e \in Engines : Assembles(e)
  \/ \E r \in PiRunIds : Freezes(r)

TcSpec == TcInit /\ [][TcNext]_tcVars

-----------------------------------------------------------------------------
TcTypeOK ==
  /\ tcRow \in [Tools -> [sig : Sigs \cup {NoSig}, ok : BOOLEAN]]
  /\ tcShown \in [Engines -> [Tools -> Sigs \cup {NoSig}]]
  /\ tcFrozen \in [PiRunIds -> [Tools -> Sigs \cup {NoSig}]]
  /\ \A t \in Tools : tcRow[t].ok => tcRow[t].sig # NoSig

\* A tool that a refresh has found changed, or missing although it is reviewed, is
\* usable by nobody again: a later refresh may see its first signature once more, one
\* that listed before may write after, and runs keep the signatures they were shown.
\* A tool of the manifest is usable under its reviewed signature only.
CatalogIsSound ==
  /\ \A t \in tcFound : ~ Usable(t)
  /\ ~ tcWrong
  /\ \A t \in Tools : Usable(t) /\ Reviewed[t] # NoSig => tcRow[t].sig = Reviewed[t]
=============================================================================
