----------------------------- MODULE MCKolDetail -----------------------------
(***************************************************************************)
(* KolDetail for TLC: three requests for the detail of one creator.        *)
(***************************************************************************)
EXTENDS KolDetail

CONSTANTS q1, q2, q3
=============================================================================
