------------------------------ MODULE MCStream ------------------------------
(***************************************************************************)
(* A stream with one seat to take: business code never takes a seat that   *)
(* is not free, and no applier would stop it if it did.                    *)
(***************************************************************************)
EXTENDS Stream, FiniteSets

MCFresh == <<>>

MCApply(s, view) == Append(s, view)

(* Seats open once: the appliers reject what replay would.                 *)
MCRejects(s, view) ==
  view.event = "open" /\ \E i \in 1 .. Len(s) : s[i].event = "open"

MCApplied == {"open", "take"}

MCEvents == {"open", "take", "note"}

MCEmissions == {<<>>, <<"open">>, <<"note", "take">>}

Seats == 1

Taken(s) == Cardinality({i \in 1 .. Len(s) : s[i].event = "take"})

(* Seats are taken of what is free; only a fresh stream is left alone.     *)
MCMayEmit(s, events) ==
  /\ events = <<"note", "take">> => Taken(s) < Seats
  /\ events = <<>> => s = MCFresh

(* A decision fails by its folds alone: a failing call ends as it does.     *)
MCFailures == {}

MCInputs ==
  {[arm |-> "command", type |-> "do", id |-> "i1"],
   [arm |-> "fact", type |-> "happened", id |-> "i2"]}

=============================================================================
