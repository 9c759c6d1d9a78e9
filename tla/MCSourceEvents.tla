--------------------------- MODULE MCSourceEvents ---------------------------
(***************************************************************************)
(* SourceEvents for TLC: two backend processes, one reader, two attempts   *)
(* with a text, an answer and a usage report each way round.               *)
(***************************************************************************)
EXTENDS SourceEvents

CONSTANTS p1, p2, c1

Says(first, second, n) == [says |-> <<first, second>>, tools |-> n]

MCScripts == {Says(<<"text">>, <<"answer">>, 0), Says(<<"text", "answer">>, <<>>, 0),
              Says(<<"usage", "answer">>, <<>>, 0), Says(<<"text">>, <<>>, 1)}
MCShortScripts == {Says(<<"text">>, <<>>, 1)}
=============================================================================
