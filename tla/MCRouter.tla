------------------------------ MODULE MCRouter ------------------------------
(***************************************************************************)
(* Router of each kind of component, two of them remote, and two calls in  *)
(* flight.                                                                 *)
(***************************************************************************)
EXTENDS Router

MCComponents ==
  {[name |-> "own domain", kind |-> "aggregate", remote |-> FALSE],
   [name |-> "remote domain", kind |-> "aggregate", remote |-> TRUE],
   [name |-> "policy", kind |-> "policy", remote |-> FALSE],
   [name |-> "remote projector", kind |-> "projector", remote |-> TRUE]}

=============================================================================
