-------------------------- MODULE ToolCallContract --------------------------
(***************************************************************************)
(* What the MCP billing path promises of every tool call, without saying   *)
(* how: points are held before anything is sent; the request reaches the   *)
(* upstream at most once over all dispatches; held points are charged or   *)
(* given back exactly once; a charge is final; and a refund is only        *)
(* followed by a second hold, once, if nothing has reached the upstream.   *)
(***************************************************************************)
EXTENDS Naturals

CONSTANT Calls

VARIABLES
  bill,       \* what the user's points are doing for the call
  retried,    \* calls that were held a second time
  delivered   \* how many requests of the call the upstream received

contractVars == <<bill, retried, delivered>>

ContractInit ==
  /\ bill = [c \in Calls |-> "none"]
  /\ retried = {}
  /\ delivered = [c \in Calls |-> 0]

Hold(c) ==
  /\ bill[c] = "none"
  /\ bill' = [bill EXCEPT ![c] = "held"]
  /\ UNCHANGED <<retried, delivered>>

HoldAgain(c) ==
  /\ bill[c] = "refunded"
  /\ delivered[c] = 0
  /\ c \notin retried
  /\ bill' = [bill EXCEPT ![c] = "held"]
  /\ retried' = retried \cup {c}
  /\ UNCHANGED delivered

Deliver(c) ==
  /\ bill[c] # "none"
  /\ delivered[c] = 0
  /\ delivered' = [delivered EXCEPT ![c] = 1]
  /\ UNCHANGED <<bill, retried>>

Charge(c) ==
  /\ bill[c] = "held"
  /\ bill' = [bill EXCEPT ![c] = "charged"]
  /\ UNCHANGED <<retried, delivered>>

Refund(c) ==
  /\ bill[c] = "held"
  /\ bill' = [bill EXCEPT ![c] = "refunded"]
  /\ UNCHANGED <<retried, delivered>>

ContractNext ==
  \E c \in Calls : Hold(c) \/ HoldAgain(c) \/ Deliver(c) \/ Charge(c) \/ Refund(c)

ContractSpec == ContractInit /\ [][ContractNext]_contractVars
=============================================================================
