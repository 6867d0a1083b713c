------------------------------ MODULE MCHandle ------------------------------
(***************************************************************************)
(* Handle on a small aggregate: a stream of three kinds of event, one of   *)
(* them with no applier, whose state is the free fold: the sequence of     *)
(* the views folded, which no two different replays share.                 *)
(***************************************************************************)
EXTENDS Handle

MCFresh == <<>>

MCApply(s, view) == Append(s, view)

(* A stream closes once.                                                   *)
MCRejects(s, view) ==
  view.event = "close" /\ \E i \in 1 .. Len(s) : s[i].event = "close"

MCApplied == {"open", "close"}

MCEvents == {"open", "note", "close"}

MCEmissions == {<<>>, <<"open">>, <<"note", "close">>}

MCMayEmit(s, events) == TRUE

MCFailures ==
  {[kind |-> "coded", error |-> Refused("NOT_FOUND", "refusal")],
   [kind |-> "coded", error |-> Immediate("STALE")],
   [kind |-> "coded", error |-> RetryableBug("UNAVAILABLE", "DOWN")],
   [kind |-> "coded", error |-> Coded("HAND_BUILT", <<>>, "OUT_OF_RANGE")],
   [kind |-> "other", error |-> None],
   [kind |-> "panic", error |-> None]}

Meta == [arm |-> "command", id |-> "earlier", rules |-> "v0"]

Book(snapshot, pages, next) ==
  [cover |-> "stream", snapshot |-> snapshot, pages |-> pages, next |-> next]

Earlier == View(Page("open", 0, Meta), "stream")

(* Histories: none, empty, pages (a meta-event and an unapplied one among  *)
(* them), a snapshot and the pages after it, and each kind of broken one.  *)
Histories ==
  {None,
   Book(None, <<>>, 0),
   Book(None, <<Page("open", 0, Meta), Page(None, 1, Meta), Page("note", 2, Meta)>>, 3),
   Book([seq |-> 0, state |-> Encoded(<<Earlier>>)], <<Page("close", 1, Meta)>>, 2),
   Book([seq |-> 1, state |-> None], <<Page("open", 2, Meta)>>, 3),
   Book([seq |-> 0, state |-> [kind |-> "garbage"]], <<>>, 1),
   Book([seq |-> 0, state |-> [kind |-> "explosive"]], <<>>, 1),
   Book(None, <<Page("close", 0, Meta), Page("close", 1, Meta)>>, 2)}

Inputs ==
  {<<"command", "do">>, <<"command", "happened">>, <<"fact", "happened">>,
   <<"fact", "do">>, <<"none", None>>}

MCRequests ==
  {[arm |-> input[1], type |-> input[2], id |-> "now", cover |-> "stream",
    history |-> history] : input \in Inputs, history \in Histories}

=============================================================================
