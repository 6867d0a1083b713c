------------------------------- MODULE Handle -------------------------------
(***************************************************************************)
(* CommandHandlerService.Handle (crates/router/src/domain.rs): a command   *)
(* or a fact routed to its handler, the state rebuilt from the history it  *)
(* came with, the handler's Emit run to its end as one decision, and the   *)
(* answer.                                                                 *)
(*                                                                         *)
(* Several dispatches may be in flight; each owns its state, and a         *)
(* dispatch is the sequence of the business calls it makes.  Business code *)
(* (handlers, steps, codec, factory) is nondeterministic within its types. *)
(*                                                                         *)
(* A step is named by its place: <<>> is the handler, Append(p, k) the     *)
(* k-th continuation of the Emit that step p returned.                     *)
(***************************************************************************)
EXTENDS Rebuild

CONSTANTS
  Dispatches,       \* the dispatches in flight
  CommandTypes,     \* the command types with a handler (on_command)
  FactTypes,        \* the fact types with a handler (on_fact)
  Events,           \* the domain events business code emits
  Emissions,        \* the event sequences one Emit may carry
  MayEmit(_, _),    \* whether business code emits these events on a state
  Failures,         \* the ways a handler or step may fail
  MaxSteps,         \* BOUND: the steps one decision may run
  RulesVersion,     \* the build's rules version
  Requests          \* the requests a host may hand the router

(* A delivery is well formed (its coordinator's duty, docs/architecture.md *)
(* "builds every delivery well formed"): the history is of the stream the  *)
(* input's cover names.                                                    *)
WellFormedHistory(book, cover) ==
  /\ book.cover = cover
  /\ book.next \in Nat
  /\ book.pages \in Seq(Elements(book.pages))
  /\ book.snapshot # None =>
       (book.snapshot.state # None => book.snapshot.state.kind \in EncodingKinds)

WellFormed(r) ==
  /\ r.arm \in {"command", "fact", "none"}
  /\ r.history # None => WellFormedHistory(r.history, r.cover)

ASSUME HandleAssumption ==
  /\ MaxSteps \in Nat \ {0}
  /\ Failures \subseteq FailureKinds
  /\ Emissions \subseteq Seq(Events)
  /\ \A r \in Requests : WellFormed(r)

VARIABLES
  pc,               \* where each dispatch is
  req,              \* the request it handles
  state,            \* its state of the stream
  emit,             \* the events of the Emit being folded
  pending,          \* the steps still to run, next first
  answered,         \* the events of the steps folded so far
  ran,              \* history: the steps run, in order
  answer            \* what it answered

vars == <<pc, req, state, emit, pending, answered, ran, answer>>

-----------------------------------------------------------------------------
(* The request.                                                            *)

(* The next sequence of the stream, as the history states it.              *)
NextSequence(book) == IF book = None THEN 0 ELSE book.next

(* A bug: of a stream loaded from its snapshot alone, nothing is known.    *)
Mutant_PagesAlone(book) == book # None /\ book.pages # <<>>

(* What a handler's context says of it: whether anything came before.      *)
HadPriorEvents(book) ==
  book # None /\ (book.pages # <<>> \/ book.snapshot # None)

(* A page with no body is a command of no type.                            *)
IsFact(r) == r.arm = "fact"

(* The metadata of every event of the decision: its causation (the input's *)
(* arm and id) and the rules version.  The id stands for what travels with *)
(* the input unchanged: command id, origin, correlation, recorded_at.      *)
EventMeta(r) ==
  [arm |-> IF IsFact(r) THEN "fact" ELSE "command", id |-> r.id,
   rules |-> RulesVersion]

(* Whether the arm's own table has a handler of the payload's type.        *)
Routed(r) == r.type \in (IF IsFact(r) THEN FactTypes ELSE CommandTypes)

RouteReason(r) ==
  IF IsFact(r) THEN "NO_FACT_HANDLER" ELSE "UNKNOWN_COMMAND_TYPE"

(* A bug: the input's cover is forgotten of a stream with no history.      *)
Mutant_HistoryCover(r) == IF r.history = None THEN None ELSE r.history.cover

(* The cover the decision's own events are folded under.                   *)
DecideCover(r) ==
  IF r.history = None THEN r.cover
  ELSE IF r.history.cover = None THEN r.cover ELSE r.history.cover

(* A bug: events are numbered from 0, whatever is on the stream.           *)
Mutant_NumberedFromZero(events, next, meta) ==
  [i \in 1 .. Len(events) |-> Page(events[i], i - 1, meta)]

(* Events as they will be persisted: wrapped, numbered from `next` on,     *)
(* stamped with `meta`.                                                    *)
Numbered(events, next, meta) ==
  [i \in 1 .. Len(events) |-> Page(events[i], next + i - 1, meta)]

(* A bug: the decision's own events are not folded.                        *)
Mutant_NotFolded(s, events, cover, next, meta) == Ok(s)

ApplyEmitted(s, events, cover, next, meta) ==
  ApplyPages(Ok(s), Numbered(events, next, meta), cover, "emitted")

(* How an error of the decision leaves the router, by the input's arm.     *)
DecideError(r, e) == IF IsFact(r) THEN AsFactFailure(e) ELSE e

(* A bug: a nested continuation runs after those already waiting.          *)
Mutant_ContinueLast(waiting, added) == Tail(waiting) \o added

(* The steps left once the step at the head has run: the continuations its *)
(* Emit added, in the order it added them, before those already waiting    *)
(* (Emit::push composes the running step with what follows it).            *)
Continue(waiting, added) == added \o Tail(waiting)

Continuations(step, n) == [k \in 1 .. n |-> Append(step, k)]

(* An entry of the history of steps run: the step, and how many            *)
(* continuations its Emit added.                                           *)
Ran(step, n) == [step |-> step, added |-> n]

-----------------------------------------------------------------------------
(* The actions.                                                            *)

Init ==
  /\ pc = [d \in Dispatches |-> "idle"]
  /\ req = [d \in Dispatches |-> None]
  /\ state = [d \in Dispatches |-> Fresh]
  /\ emit = [d \in Dispatches |-> <<>>]
  /\ pending = [d \in Dispatches |-> <<>>]
  /\ answered = [d \in Dispatches |-> <<>>]
  /\ ran = [d \in Dispatches |-> <<>>]
  /\ answer = [d \in Dispatches |-> None]

Goto(d, place) == pc' = [pc EXCEPT ![d] = place]

(* The host hands the router a request.                                    *)
Deliver(d, r) ==
  /\ pc[d] = "idle"
  /\ req' = [req EXCEPT ![d] = r]
  /\ Goto(d, "route")
  /\ UNCHANGED <<state, emit, pending, answered, ran, answer>>

(* A bug: the error is dropped.                                            *)
Mutant_AnswerErrorLost(d, e) ==
  /\ answer' = [answer EXCEPT ![d] = None]
  /\ Goto(d, "idle")

AnswerError(d, e) ==
  /\ answer' = [answer EXCEPT ![d] = [error |-> e, events |-> <<>>, state |-> None]]
  /\ Goto(d, "answered")

(* A bug: the type is looked up once the state is rebuilt.                 *)
Mutant_RouteLate(d) ==
  /\ pc[d] = "route"
  /\ Goto(d, "rebuild")
  /\ UNCHANGED <<req, state, emit, pending, answered, ran, answer>>

(* Routing comes first: a type nothing handles folds nothing.              *)
Route(d) ==
  /\ pc[d] = "route"
  /\ IF Routed(req[d])
     THEN Goto(d, "rebuild") /\ UNCHANGED answer
     ELSE AnswerError(d, UnknownType(RouteReason(req[d])))
  /\ UNCHANGED <<req, state, emit, pending, answered, ran>>

RebuildState(d) ==
  /\ pc[d] = "rebuild"
  /\ LET rebuilt == Rebuilt(req[d].history)
     IN  IF rebuilt.error # None
         THEN /\ AnswerError(d, rebuilt.error)
              /\ UNCHANGED <<state, pending>>
         ELSE /\ state' = [state EXCEPT ![d] = rebuilt.state]
              /\ pending' = [pending EXCEPT ![d] = << <<>> >>]
              /\ Goto(d, "call")
              /\ UNCHANGED answer
  /\ UNCHANGED <<req, emit, answered, ran>>

(* The handler, or the next step, runs on the state and returns an Emit.   *)
CallEmits(d, events, n) ==
  /\ pc[d] = "call"
  /\ MayEmit(state[d], events)
  /\ Len(ran[d]) + Len(pending[d]) + n <= MaxSteps
  /\ ran' = [ran EXCEPT ![d] = Append(@, Ran(Head(pending[d]), n))]
  /\ emit' = [emit EXCEPT ![d] = events]
  /\ pending' = [pending EXCEPT
       ![d] = Continue(@, Continuations(Head(@), n))]
  /\ Goto(d, "fold")
  /\ UNCHANGED <<req, state, answered, answer>>

(* It fails: the whole decision does.                                      *)
CallFails(d, failure) ==
  /\ pc[d] = "call"
  /\ ran' = [ran EXCEPT ![d] = Append(@, Ran(Head(pending[d]), 0))]
  /\ AnswerError(d, DecideError(req[d], CallHandler(failure)))
  /\ UNCHANGED <<req, state, emit, pending, answered>>

(* Bugs: every step's events are numbered from the head, and the loop does *)
(* not stop at the last step.                                              *)
Mutant_SameHead(d) == NextSequence(req[d].history)

Mutant_NoLastStep(waiting) == "call"

(* The sequence the next event of the decision will be given.              *)
NextEmitted(d) == NextSequence(req[d].history) + Len(answered[d])

(* The next step, if one is waiting, or the answer.                        *)
AfterFold(waiting) == IF waiting = <<>> THEN "encode" ELSE "call"

(* The Emit's events are folded in, at the sequences they will be given.   *)
FoldEmitted(d) ==
  /\ pc[d] = "fold"
  /\ LET folded == ApplyEmitted(state[d], emit[d], DecideCover(req[d]),
                                NextEmitted(d), EventMeta(req[d]))
     IN  IF folded.error # None
         THEN /\ AnswerError(d, DecideError(req[d], folded.error))
              /\ UNCHANGED <<state, answered>>
         ELSE /\ state' = [state EXCEPT ![d] = folded.state]
              /\ answered' = [answered EXCEPT ![d] = @ \o emit[d]]
              /\ Goto(d, AfterFold(pending[d]))
              /\ UNCHANGED answer
  /\ UNCHANGED <<req, emit, pending, ran>>

(* Success: every step's events, and the state with all of them folded in. *)
Answer(d) ==
  /\ pc[d] = "encode"
  /\ answer' = [answer EXCEPT ![d] =
       [error |-> None, events |-> answered[d], state |-> EncodeState(state[d])]]
  /\ Goto(d, "answered")
  /\ UNCHANGED <<req, state, emit, pending, answered, ran>>

(* A panic nothing catches unwinds into the host: the state factory's, and *)
(* the codec's encode.                                                     *)
Unwind(d) ==
  /\ \/ pc[d] = "rebuild"
     \/ pc[d] = "encode" /\ HasCodec
  /\ Goto(d, "unwound")
  /\ UNCHANGED <<req, state, emit, pending, answered, ran, answer>>

(* Nothing is kept of a dispatch that is over.                             *)
Forget(d) ==
  /\ Goto(d, "idle")
  /\ req' = [req EXCEPT ![d] = None]
  /\ state' = [state EXCEPT ![d] = Fresh]
  /\ emit' = [emit EXCEPT ![d] = <<>>]
  /\ pending' = [pending EXCEPT ![d] = <<>>]
  /\ answered' = [answered EXCEPT ![d] = <<>>]
  /\ ran' = [ran EXCEPT ![d] = <<>>]
  /\ answer' = [answer EXCEPT ![d] = None]

(* The host has the answer (or the panic); the dispatch is over.           *)
Return(d) == pc[d] \in {"answered", "unwound"} /\ Forget(d)

Call(d) ==
  \/ \E events \in Emissions, n \in 0 .. MaxSteps : CallEmits(d, events, n)
  \/ \E failure \in Failures : CallFails(d, failure)

(* What the router does of its own once it has a request.                  *)
Step(d) ==
  Route(d) \/ RebuildState(d) \/ Call(d) \/ FoldEmitted(d) \/ Answer(d)

Next ==
  \E d \in Dispatches :
    \/ \E r \in Requests : Deliver(d, r)
    \/ Step(d)
    \/ Unwind(d)
    \/ Return(d)

(* A dispatch is a synchronous call: it runs to its end, if nothing        *)
(* unwinds.  The host may never send another request.                      *)
Fairness == \A d \in Dispatches : WF_vars(Step(d))

Spec == Init /\ [][Next]_vars /\ Fairness

-----------------------------------------------------------------------------
(* What the coordinator does with an answer, as far as a later rebuild     *)
(* sees it (external): it stamps the events with the ONE builder's meta,   *)
(* appends them at the head the history stated, and its next load carries  *)
(* the stream's cover.                                                     *)
Stamped(r, events) ==
  [i \in 1 .. Len(events) |->
     Page(events[i], NextSequence(r.history) + i - 1, EventMeta(r))]

NextBook(r, events) ==
  IF r.history = None
  THEN [cover |-> r.cover, snapshot |-> None,
        pages |-> Stamped(r, events), next |-> Len(events)]
  ELSE [cover |-> r.cover, snapshot |-> r.history.snapshot,
        pages |-> r.history.pages \o Stamped(r, events),
        next |-> r.history.next + Len(events)]

-----------------------------------------------------------------------------
(* Properties.                                                             *)

Places == {"idle", "route", "rebuild", "call", "fold", "encode", "answered", "unwound"}

Steps == Seq(Nat \ {0})

(* The shape of the state; steps are pending while business code is to run.*)
TypeOK ==
  /\ pc \in [Dispatches -> Places]
  /\ req = [d \in Dispatches |-> req[d]]
  /\ state = [d \in Dispatches |-> state[d]]
  /\ emit \in [Dispatches -> Seq(Events)]
  /\ pending \in [Dispatches -> Seq(Steps)]
  /\ answered \in [Dispatches -> Seq(Events)]
  /\ ran \in [Dispatches -> Seq([step : Steps, added : 0 .. MaxSteps])]
  /\ answer = [d \in Dispatches |-> answer[d]]
  /\ \A d \in Dispatches :
       /\ pc[d] # "idle" => WellFormed(req[d])
       /\ pc[d] = "call" => pending[d] # <<>>
       /\ pc[d] = "answered" => answer[d].error \in CodedErrors \cup {None}

(* Read your own writes: whatever step business code is about to run, and  *)
(* whatever state is about to be answered, it is the state a rebuild of    *)
(* the history with the events decided so far appended, as the coordinator *)
(* will stamp them, comes to (domain.rs, decide: each step's events folded *)
(* in before the next step runs).                                          *)
StepsSeeReplay ==
  \A d \in Dispatches :
    pc[d] \in {"call", "fold", "encode"} =>
      FoldBook(NextBook(req[d], answered[d])) = Ok(state[d])

(* A decision that is answered replays: once its events are appended, the  *)
(* next rebuild does not fail, and what it comes to is the state the       *)
(* answer carried (the coordinator's snapshot).  An applier that would     *)
(* reject an event on replay has rejected it in the decision.              *)
AnswerReplays ==
  \A d \in Dispatches :
    pc[d] = "answered" /\ answer[d].error = None =>
      LET replay == FoldBook(NextBook(req[d], answer[d].events))
      IN  /\ replay.error = None
          /\ answer[d].state = EncodeState(replay.state)

(* Only the business code of a command asks for more than an alert: a      *)
(* refusal, a business status or ABORTED never leaves the router for a     *)
(* fact, nor for a decision in which no business call was made.            *)
OnlyCommandsRefuse ==
  \A d \in Dispatches :
    /\ pc[d] = "answered"
    /\ answer[d].error # None
    /\ \/ answer[d].error.refusal # None
       \/ answer[d].error.grpc \in BusinessStatuses \cup {"ABORTED"}
    => req[d].arm # "fact" /\ ran[d] # <<>>

(* A type nothing handles is told as such however broken the history it    *)
(* came with, and by the router only then (domain.rs, dispatch: route      *)
(* before rebuild).  Business code may answer the same error of its own.   *)
UnknownTypeIsToldFirst ==
  \A d \in Dispatches :
    pc[d] \in {"answered", "unwound"} =>
      (~ Routed(req[d]) <=>
         /\ pc[d] = "answered"
         /\ answer[d].error = UnknownType(RouteReason(req[d]))
         /\ ran[d] = <<>>)

(* Step p runs before step q: depth first, in the order added.             *)
Precedes(p, q) ==
  \/ Len(p) < Len(q) /\ p = SubSeq(q, 1, Len(p))
  \/ \E k \in 1 .. Len(p) :
       /\ k <= Len(q)
       /\ SubSeq(p, 1, k - 1) = SubSeq(q, 1, k - 1)
       /\ p[k] < q[k]

(* Continuations run depth first, each once, and none is lost: the steps   *)
(* run and those still pending are in order, and every continuation an     *)
(* Emit added is among them (domain.rs, Emit::then and Emit::push).        *)
ContinuationsInOrder ==
  \A d \in Dispatches :
    LET all == [i \in 1 .. Len(ran[d]) |-> ran[d][i].step] \o
                 (IF pc[d] = "answered" THEN <<>> ELSE pending[d])
    IN  /\ \A i, j \in 1 .. Len(all) : i < j => Precedes(all[i], all[j])
        /\ pc[d] # "answered" =>
             \A i \in 1 .. Len(ran[d]) : \A k \in 1 .. ran[d][i].added :
               \E j \in 1 .. Len(all) : all[j] = Append(ran[d][i].step, k)

(* Every request is answered, however it fails, or its panic unwinds.      *)
EveryRequestEnds ==
  \A d \in Dispatches :
    pc[d] = "route" ~> pc[d] \in {"answered", "unwound"}

=============================================================================
