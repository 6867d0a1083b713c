---------------------------- MODULE MCProjector -----------------------------
(***************************************************************************)
(* Projector over runs of two domains, of which it consumes one, onto the  *)
(* free fold (the sequence of the views folded).                           *)
(***************************************************************************)
EXTENDS Projector

MCFresh == <<>>

MCApply(s, view) == Append(s, view)

(* A second "close" does not fold.                                         *)
MCRejects(s, view) ==
  view.event = "close" /\ \E i \in 1 .. Len(s) : s[i].event = "close"

MCApplied == {"open", "close"}

MCFailures ==
  {[kind |-> "coded", error |-> Bug("BAD", <<>>)],
   [kind |-> "other", error |-> None],
   [kind |-> "panic", error |-> None]}

Meta == [arm |-> "command", id |-> "earlier", rules |-> "v0"]

Pages(events, first) ==
  [i \in 1 .. Len(events) |-> Page(events[i], first + i - 1, Meta)]

Covers ==
  {None, [domain |-> "orders", root |-> "r"], [domain |-> "wallets", root |-> "r"]}

MCRuns ==
  {[cover |-> cover, pages |-> Pages(events, 3)] :
     cover \in Covers,
     events \in {<<>>, <<"open", None, "close">>, <<"note", "open">>,
                 <<"close", "note", "close", "open">>}}

=============================================================================
