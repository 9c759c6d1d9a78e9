------------------------------ MODULE MCPiRuns ------------------------------
(***************************************************************************)
(* PiRuns for TLC: two Gateways and two runs, which are main runs of two   *)
(* users of a tenant, or of two tenants, or a main run and a KOL detail of *)
(* one session; or that and another main run after it.                     *)
(***************************************************************************)
EXTENDS PiRuns

CONSTANTS s1, s2, s3, s4, u1, u2, u3, g1, g2

Main(s) == [session |-> s, kind |-> "main", calm |-> FALSE]
Calm(s) == [session |-> s, kind |-> "main", calm |-> TRUE]
Detail(s) == [session |-> s, kind |-> "detail", calm |-> TRUE]

MCSessionUser == (s1 :> u1) @@ (s2 :> u2) @@ (s3 :> u2) @@ (s4 :> u3)
MCUserTenant == (u1 :> 1) @@ (u2 :> 1) @@ (u3 :> 2)
None == [session |-> s3, kind |-> "none", calm |-> TRUE]

MCLayouts == {<<Calm(s1), Calm(s2), None>>, <<Calm(s2), Calm(s4), None>>,
              <<Main(s1), Detail(s1), None>>, <<Calm(s1), Detail(s1), Calm(s1)>>}
=============================================================================
