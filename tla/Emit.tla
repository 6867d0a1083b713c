-------------------------------- MODULE Emit --------------------------------
(***************************************************************************)
(* Emit as the code builds it (crates/router/src/domain.rs): events and at *)
(* most one continuation, which may be a closure around two others.        *)
(*                                                                         *)
(* A dispatch as Handle has it, with its business code made concrete: Does *)
(* says what a step does, and where Handle keeps the list of the steps to  *)
(* run, a dispatch here keeps the closure its last Emit came with.  A step *)
(* carries the place Handle names it by, which the code does not.          *)
(***************************************************************************)
EXTENDS Rebuild

CONSTANTS
  Dispatches,       \* the dispatches in flight
  CommandTypes,     \* the command types with a handler (on_command)
  FactTypes,        \* the fact types with a handler (on_fact)
  Events,           \* the domain events business code emits
  Emissions,        \* the event sequences one Emit may carry
  Failures,         \* the ways a handler or step may fail
  MaxSteps,         \* BOUND: the steps one decision may run
  RulesVersion,     \* the build's rules version
  Does(_, _, _)     \* what a step comes to on a request and a state

ASSUME EmitAssumption ==
  /\ MaxSteps \in Nat \ {0}
  /\ Emissions \subseteq Seq(Events)
  /\ Failures \subseteq FailureKinds
  /\ None \notin Failures

VARIABLES
  pc,               \* where each dispatch is
  req,              \* the request it handles
  state,            \* its state of the stream
  emit,             \* the events of the Emit being folded
  next,             \* the continuation of that Emit
  answered,         \* the events of the steps folded so far
  ran,              \* history: the steps run, in order
  answer,           \* what it answered
  behaviour         \* how the component's business code is built

emitVars == <<pc, req, state, emit, next, answered, ran, answer, behaviour>>

-----------------------------------------------------------------------------
(* Closures and Emits.                                                     *)

StepOf(at, does) == [kind |-> "step", at |-> at, does |-> does]

(* `first`, and then `second` after all that `first` continues with.       *)
Composed(first, second) ==
  [kind |-> "composed", first |-> first, second |-> second]

Of(events) == [events |-> events, next |-> None]

(* A bug: what is added replaces what is there.                            *)
Mutant_PushOver(e, step) == [events |-> e.events, next |-> step]

Push(e, step) ==
  [events |-> e.events,
   next |-> IF e.next = None THEN step ELSE Composed(e.next, step)]

(* A closure, what it calls first, what that calls first, and so on: a     *)
(* step in the end.                                                        *)
Nested(closure) ==
  LET nested[k \in Nat] ==
        IF k = 0 THEN closure
        ELSE LET outer == nested[k - 1]
             IN  IF outer.kind = "step" THEN outer ELSE outer.first
  IN  nested

(* How many closures there are around its first step.                      *)
Depth(closure) ==
  CHOOSE k \in 0 .. MaxSteps :
    /\ Nested(closure)[k].kind = "step"
    /\ \A j \in 0 .. k - 1 : Nested(closure)[j].kind = "composed"

(* The steps of a closure, in the order they will run: the one inside all  *)
(* the others, and what each adds to it (Emit::push adds one step).        *)
Leaves(closure) ==
  IF closure = None THEN <<>>
  ELSE LET nested == Nested(closure)
           depth == Depth(closure)
       IN  [k \in 1 .. depth + 1 |->
              IF k = 1 THEN nested[depth] ELSE nested[depth + 1 - k].second]

PlacesOf(closure) ==
  LET leaves == Leaves(closure)
  IN  [k \in 1 .. Len(leaves) |-> leaves[k].at]

(* `step` after the continuations the Emit has; `at` is the place of the   *)
(* step that returns it.                                                   *)
Then(e, at, does) ==
  Push(e, StepOf(Append(at, Len(Leaves(e.next)) + 1), does))

Continues(e) == e.next # None

(* What a call comes to: an Emit, with the number of continuations its own *)
(* code added, or a failure.                                               *)
Emits(e) ==
  [emit |-> e, added |-> Len(Leaves(e.next)), failure |-> None]

Fails(failure) == [emit |-> Of(<<>>), added |-> 0, failure |-> failure]

(* A bug: the closure is added, and not what is left of it.                *)
Mutant_CallAgain(closure, r, s) ==
  LET nested == Nested(closure)
      depth == Depth(closure)
      called[k \in 0 .. depth] ==
        IF k = 0 THEN Does(nested[depth], r, s)
        ELSE LET outcome == called[k - 1]
             IN  IF outcome.failure # None THEN outcome
                 ELSE [emit |-> Push(outcome.emit, nested[depth - k]),
                       added |-> outcome.added, failure |-> None]
  IN  called[depth]

(* Calling a closure calls the first step in it, and each closure around   *)
(* that adds the rest of itself to what the step continues with.           *)
CallClosure(closure, r, s) ==
  LET nested == Nested(closure)
      depth == Depth(closure)
      called[k \in 0 .. depth] ==
        IF k = 0 THEN Does(nested[depth], r, s)
        ELSE LET outcome == called[k - 1]
             IN  IF outcome.failure # None THEN outcome
                 ELSE [emit |-> Push(outcome.emit, nested[depth - k].second),
                       added |-> outcome.added, failure |-> None]
  IN  called[depth]

-----------------------------------------------------------------------------
(* The dispatch.                                                           *)

AnyEvents(s, events) == TRUE

(* Handle, whose steps to run are those of the closure.                    *)
H == INSTANCE Handle WITH
       pending <- [d \in Dispatches |-> PlacesOf(next[d])],
       MayEmit <- AnyEvents,
       Requests <- {}

EmitInit == next = [d \in Dispatches |-> None] /\ H!Init

Deliver(d, r) == UNCHANGED next /\ H!Deliver(d, r)

(* The component's handlers, as they captured its behaviour.               *)
Handler == StepOf(<<>>, <<"handle", behaviour>>)

Begin(d) ==
  /\ pc[d] = "rebuild"
  /\ next' = [next EXCEPT ![d] =
       IF Rebuilt(req[d].history).error = None THEN Handler ELSE @]
  /\ H!RebuildState(d)

(* The handler, or the continuation of the Emit before: one business call, *)
(* and what it returned takes the place of both.                           *)
CallNext(d) ==
  /\ pc[d] = "call"
  /\ LET outcome == CallClosure(next[d], req[d], state[d])
         step == Head(Leaves(next[d])).at
     IN  /\ ran' = [ran EXCEPT ![d] = Append(@, H!Ran(step, outcome.added))]
         /\ IF outcome.failure # None
            THEN /\ H!AnswerError(d, H!DecideError(req[d], CallHandler(outcome.failure)))
                 /\ UNCHANGED <<emit, next>>
            ELSE /\ Len(ran[d]) + Len(Leaves(next[d])) + outcome.added <= MaxSteps
                 /\ emit' = [emit EXCEPT ![d] = outcome.emit.events]
                 /\ next' = [next EXCEPT ![d] = outcome.emit.next]
                 /\ H!Goto(d, "fold")
                 /\ UNCHANGED answer
  /\ UNCHANGED <<req, state, answered>>

(* The loop of `decide`: fold what was emitted, and go on if it continues. *)
FoldEmit(d) ==
  /\ pc[d] = "fold"
  /\ LET folded == H!ApplyEmitted(state[d], emit[d], H!DecideCover(req[d]),
                                  H!NextEmitted(d), H!EventMeta(req[d]))
     IN  IF folded.error # None
         THEN /\ H!AnswerError(d, H!DecideError(req[d], folded.error))
              /\ UNCHANGED <<state, answered>>
         ELSE /\ state' = [state EXCEPT ![d] = folded.state]
              /\ answered' = [answered EXCEPT ![d] = @ \o emit[d]]
              /\ H!Goto(d, IF next[d] = None THEN "encode" ELSE "call")
              /\ UNCHANGED answer
  /\ UNCHANGED <<req, emit, next, ran>>

EmitStep(d) ==
  \/ UNCHANGED next /\ (H!Route(d) \/ H!Answer(d))
  \/ Begin(d)
  \/ CallNext(d)
  \/ FoldEmit(d)

Forget(d) == next' = [next EXCEPT ![d] = None] /\ H!Forget(d)

-----------------------------------------------------------------------------
(* The step-idempotence test helper, and the decision it speaks of.        *)

(* A bug: the second run is on the state of the first.                     *)
Mutant_SameState(step, r, s) ==
  LET first == Does(step, r, s)
      again == Does(step, r, s)
  IN  IF first.failure # None
        THEN [kind |-> "failed", error |-> CallHandler(first.failure), events |-> <<>>]
      ELSE IF again.emit.events # <<>>
        THEN [kind |-> "emitted_again", error |-> None, events |-> again.emit.events]
      ELSE [kind |-> "idempotent", error |-> None, events |-> <<>>]

(* check_step_idempotent: the step, and the step again once its own events *)
(* are folded in under the input's cover.                                  *)
CheckStepIdempotent(step, r, s) ==
  LET Found(kind, error, events) == [kind |-> kind, error |-> error, events |-> events]
      first == Does(step, r, s)
      after == H!ApplyEmitted(s, first.emit.events, r.cover,
                            H!NextSequence(r.history), H!EventMeta(r))
      again == Does(step, r, after.state)
  IN  IF first.failure # None
        THEN Found("failed", CallHandler(first.failure), <<>>)
      ELSE IF after.error # None THEN Found("failed", after.error, <<>>)
      ELSE IF again.failure # None
        THEN Found("failed", CallHandler(again.failure), <<>>)
      ELSE IF again.emit.events # <<>>
        THEN Found("emitted_again", None, again.emit.events)
      ELSE IF Continues(again.emit) THEN Found("continued_again", None, <<>>)
      ELSE Found("idempotent", None, <<>>)

(* A decision from its handler on, all at once: after each call, what is   *)
(* left to run, the state and the events, or the error.                    *)
Decide(closure, r, s) ==
  LET Failed(error) == [next |-> None, state |-> s, events |-> <<>>, error |-> error]
      decided[n \in 0 .. MaxSteps] ==
        IF n = 0 THEN [next |-> closure, state |-> s, events |-> <<>>, error |-> None]
        ELSE LET so == decided[n - 1]
                 outcome == CallClosure(so.next, r, so.state)
                 folded == H!ApplyEmitted(
                             so.state, outcome.emit.events, H!DecideCover(r),
                             H!NextSequence(r.history) + Len(so.events),
                             H!EventMeta(r))
             IN  IF so.next = None THEN so
                 ELSE IF outcome.failure # None THEN Failed(CallHandler(outcome.failure))
                 ELSE IF folded.error # None THEN Failed(folded.error)
                 ELSE [next |-> outcome.emit.next, state |-> folded.state,
                       events |-> so.events \o outcome.emit.events, error |-> None]
  IN  decided[MaxSteps]

Once(step, r, s) == Decide(step, r, s)

(* A handler with no events of its own that continues with the step twice. *)
Twice(step, r, s) == Decide(Composed(step, step), r, s)

-----------------------------------------------------------------------------
(* Properties.                                                             *)

(* However continuations nest, calling closures around closures is running *)
(* the steps of a flat list, next first: none lost, none run twice, none   *)
(* overtaken; so that a dispatch is one of Handle's (domain.rs, Emit::then *)
(* and Emit::push).                                                        *)
ImplementsHandle ==
  /\ H!Init
  /\ [][\E d \in Dispatches :
          \/ H!Deliver(d, req'[d]) /\ H!WellFormed(req'[d])
          \/ H!Step(d)
          \/ H!Return(d)]_<<H!vars>>

(* Every request is answered: business code that continues finitely often  *)
(* leaves nothing to run (domain.rs, decide: "There is no step cap").      *)
EveryRequestEnds == H!EveryRequestEnds

=============================================================================
