------------------------------ MODULE MCPolicy ------------------------------
(***************************************************************************)
(* Policy over every kind of trigger, reactions of up to two outputs, and  *)
(* every kind of failure, a refusal object under a status that is none's   *)
(* and a business status with no object among them.                        *)
(***************************************************************************)
EXTENDS Policy

MCTriggers ==
  {[id |-> "declared", pages |-> <<[event |-> "placed"], [event |-> "other"]>>],
   [id |-> "undeclared", pages |-> <<[event |-> "other"], [event |-> "placed"]>>],
   [id |-> "meta", pages |-> <<[event |-> None], [event |-> "placed"]>>],
   [id |-> "empty", pages |-> <<>>],
   [id |-> "absent"]}

MCOutputs == {<<>>, <<"command", "fact">>, <<"command", "command">>}

MCFailures ==
  {[kind |-> "coded", error |-> Refused("NOT_FOUND", "refusal")],
   [kind |-> "coded",
    error |-> [Immediate("STALE") EXCEPT !.refusal = "refusal"]],
   [kind |-> "coded", error |-> RetryableBug("UNAVAILABLE", "DOWN")],
   [kind |-> "coded", error |-> Coded("HAND_BUILT", <<>>, "OUT_OF_RANGE")],
   [kind |-> "panic", error |-> None]}

=============================================================================
