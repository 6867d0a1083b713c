------------------------------- MODULE Policy -------------------------------
(***************************************************************************)
(* A policy (crates/router/src/policy.rs) and the inputs it causes: React  *)
(* on a source's events, its outputs handled by their targets, a refused   *)
(* command's Translate, and the refusal fact handled by the source.        *)
(*                                                                         *)
(* The policy holds no state.  What carries its outputs is the coordinator *)
(* (external), of which only what the router's answers decide is modelled: *)
(* what becomes of each input by the error it was answered with.  A target *)
(* is Handle as its caller sees it: an answer, or an error by the arm.     *)
(***************************************************************************)
EXTENDS Errors, Naturals

CONSTANTS
  Triggers,         \* the trigger books, [id, pages], or no book: [id]
  Reactions,        \* the event types with a reaction (on_event)
  Outputs,          \* the output sequences a reaction may return, arms only
  Failures,         \* the ways business code may fail
  MaxRuns           \* BOUND: the runs of one call the runtime re-runs

(* A trigger is known by its id, of which its outputs' are made.           *)
ASSUME PolicyAssumption ==
  /\ MaxRuns \in Nat \ {0}
  /\ Failures \subseteq FailureKinds
  /\ Outputs \subseteq Seq({"command", "fact"})
  /\ \A s, t \in Triggers : s.id = t.id => s = t

VARIABLES
  refusalHandler,   \* whether the one refusal callback is registered
  reaction,         \* [Triggers -> [stage, runs]]
  inputs            \* by its id, each input sent: [arm, stage, runs, refusal]

vars == <<refusalHandler, reaction, inputs>>

-----------------------------------------------------------------------------
(* The policy.                                                             *)

(* The one event a policy reacts to: its trigger's first page's, if that   *)
(* is a domain event.                                                      *)
TriggerEvent(trigger) ==
  IF "pages" \in DOMAIN trigger /\ trigger.pages # <<>>
  THEN trigger.pages[1].event
  ELSE None

(* An undeclared type, a meta-event or no page answers no output.          *)
Reacts(trigger) == TriggerEvent(trigger) \in Reactions

(* What a callback came to, once called: [kind, ...].                      *)
Called(outcome) == IF outcome.kind = "answered" THEN None ELSE CallHandler(outcome)

TranslateError(outcome) ==
  IF refusalHandler THEN Called(outcome) ELSE Keyed("NO_REFUSAL_HANDLER", <<>>)

Answered == [kind |-> "answered"]

-----------------------------------------------------------------------------
(* The coordinator.                                                        *)

(* Re-run: the handler asked for it, or its bug is retryable.              *)
Reruns(e, runs) ==
  e.grpc \in {"ABORTED"} \cup RetryableStatuses /\ runs + 1 < MaxRuns

Sent(arm) == [arm |-> arm, stage |-> "sent", runs |-> 0, refusal |-> None]

(* A bug: a re-run is not counted.                                         *)
Mutant_RerunForEver(x, e) ==
  IF Reruns(e, 0) THEN [x EXCEPT !.runs = 1 - @] ELSE [x EXCEPT !.stage = "alerted"]

(* Where a failed call leaves what it was made for.                        *)
Failed(x, e) ==
  IF Reruns(e, x.runs) THEN [x EXCEPT !.runs = @ + 1]
  ELSE [x EXCEPT !.stage = "alerted"]

Init ==
  /\ refusalHandler \in BOOLEAN
  /\ reaction = [t \in Triggers |-> [stage |-> "waiting", runs |-> 0]]
  /\ inputs = <<>>

Add(new) == inputs' = [id \in DOMAIN inputs \cup DOMAIN new |->
                         IF id \in DOMAIN new THEN new[id] ELSE inputs[id]]

(* React: the outputs, in one index space, each sent to its target.        *)
React(t, outputs) ==
  /\ reaction[t].stage = "waiting" /\ Reacts(t)
  /\ reaction' = [reaction EXCEPT ![t].stage = "reacted"]
  /\ Add([id \in {<<t.id, k>> : k \in 1 .. Len(outputs)} |-> Sent(outputs[id[2]])])

ReactNothing(t) ==
  /\ reaction[t].stage = "waiting" /\ ~ Reacts(t)
  /\ reaction' = [reaction EXCEPT ![t].stage = "reacted"]
  /\ UNCHANGED inputs

ReactFails(t, failure) ==
  /\ reaction[t].stage = "waiting" /\ Reacts(t)
  /\ reaction' = [reaction EXCEPT ![t] = Failed(@, CallHandler(failure))]
  /\ UNCHANGED inputs

(* The target handles an input: it records what it decided, or fails.      *)
Handled(id) ==
  /\ inputs[id].stage = "sent"
  /\ inputs' = [inputs EXCEPT ![id].stage = "recorded"]
  /\ UNCHANGED reaction

HandleError(x, failure) ==
  IF x.arm = "fact" THEN AsFactFailure(CallHandler(failure))
  ELSE CallHandler(failure)

(* A typed refusal goes to Translate; any other error is re-run or alerted.*)
HandleFails(id, failure) ==
  /\ inputs[id].stage = "sent"
  /\ LET x == inputs[id]
         e == HandleError(x, failure)
     IN  inputs' = [inputs EXCEPT ![id] =
           IF AsRefusal(e) # None
           THEN [arm |-> x.arm, stage |-> "refused", runs |-> 0,
                 refusal |-> AsRefusal(e)]
           ELSE Failed(x, e)]
  /\ UNCHANGED reaction

(* Translate: the fact goes to the trigger's stream.                       *)
Translate(id, outcome) ==
  /\ inputs[id].stage = "refused"
  /\ LET e == TranslateError(outcome)
     IN  IF e = None
         THEN Add([x \in {id, Append(id, "fact")} |->
                     IF x = id THEN [inputs[id] EXCEPT !.stage = "told"]
                     ELSE Sent("fact")])
         ELSE inputs' = [inputs EXCEPT ![id] = Failed(@, e)]
  /\ UNCHANGED reaction

StepReaction(t) ==
  /\ \/ \E outputs \in Outputs : React(t, outputs)
     \/ ReactNothing(t)
     \/ \E failure \in Failures : ReactFails(t, failure)
  /\ UNCHANGED refusalHandler

StepInput(id) ==
  /\ id \in DOMAIN inputs
  /\ \/ Handled(id)
     \/ \E failure \in Failures : HandleFails(id, failure)
     \/ \E outcome \in Failures \cup {Answered} : Translate(id, outcome)
  /\ UNCHANGED refusalHandler

(* The ids inputs may have: a trigger's outputs, and their refusal facts.  *)
OutputIds ==
  {<<t.id, k>> : t \in {x \in Triggers : Reacts(x)}, k \in UNION {DOMAIN outputs : outputs \in Outputs}}

Ids == OutputIds \cup {Append(id, "fact") : id \in OutputIds}

Next ==
  \/ \E t \in Triggers : StepReaction(t)
  \/ \E id \in Ids : StepInput(id)

(* The runtime delivers every trigger and every input until it ends.       *)
Fairness ==
  /\ \A t \in Triggers : WF_vars(StepReaction(t))
  /\ \A id \in Ids : WF_vars(StepInput(id))

Spec == Init /\ [][Next]_vars /\ Fairness

-----------------------------------------------------------------------------
(* Properties.                                                             *)

(* Only a command that was refused, with a typed refusal under a business  *)
(* status, is ever translated: no fact, no re-run and no bug, however its  *)
(* error was made (error.rs, as_refusal and as_fact_failure).  So a        *)
(* refusal fact cannot be refused in its turn: the cascade ends.           *)
OnlyRefusedCommandsAreTranslated ==
  \A id \in DOMAIN inputs :
    inputs[id].stage \in {"refused", "told"} =>
      /\ inputs[id].arm = "command"
      /\ inputs[id].refusal \in [status : BusinessStatuses, typed : Refusals]

(* Nothing a trigger sets off is lost: every reaction is made or alerted,  *)
(* and every input is recorded, told as a refusal, or alerted.             *)
EverythingIsSettled ==
  /\ \A t \in Triggers : <>(reaction[t].stage # "waiting")
  /\ \A id \in Ids :
       id \in DOMAIN inputs ~>
         (id \in DOMAIN inputs
            /\ inputs[id].stage \in {"recorded", "told", "alerted"})

=============================================================================
