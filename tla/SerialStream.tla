---------------------------- MODULE SerialStream ----------------------------
(***************************************************************************)
(* What a stream promises whoever writes business code for it: its log is  *)
(* as if inputs were decided one at a time, each at most once, each whole, *)
(* every step of the decision on the replay of all that was decided before *)
(* it.  No snapshot, no race, no crash and no codec shows.                 *)
(***************************************************************************)
EXTENDS Rebuild, SequencesExt

CONSTANTS
  Inputs,           \* the inputs the stream may be sent: [arm, type, id]
  Cover,            \* the stream's cover
  Emissions,        \* the event sequences one step may emit
  MayEmit(_, _),    \* whether business code emits these events on a state
  MaxSteps,         \* BOUND: the steps one decision may run
  RulesVersion      \* the build's rules version

VARIABLE log        \* the stream's pages

(* The state of a log: all of it replayed, from fresh state.               *)
Replay(pages) == ApplyPages(Ok(Fresh), pages, Cover, "persisted")

(* An input is decided once its id is on a page.                           *)
Decided(pages, input) == \E k \in 1 .. Len(pages) : pages[k].meta.id = input.id

Meta(input) == [arm |-> input.arm, id |-> input.id, rules |-> RulesVersion]

Extend(pages, events, input) ==
  pages \o [k \in 1 .. Len(events) |->
              Page(events[k], Len(pages) + k - 1, Meta(input))]

(* The log once the first n steps of a decision are on it.                 *)
After(steps, n, input) ==
  Extend(log, FlattenSeq(SubSeq(steps, 1, n)), input)

Decisions == UNION {[1 .. n -> Emissions] : n \in 1 .. MaxSteps}

(* One decision, all of it: business code emits each step's events on the  *)
(* replay of what is before them, and they replay.                         *)
Decide(input, steps) ==
  /\ ~ Decided(log, input)
  /\ \A n \in 1 .. Len(steps) :
       /\ MayEmit(Replay(After(steps, n - 1, input)).state, steps[n])
       /\ Replay(After(steps, n, input)).error = None
  /\ log' = After(steps, Len(steps), input)

Init == log = <<>>

Next == \E input \in Inputs, steps \in Decisions : Decide(input, steps)

Spec == Init /\ [][Next]_log

=============================================================================
