------------------------------- MODULE Router -------------------------------
(***************************************************************************)
(* RouterBuilder and Router (crates/router/src/router.rs): the one         *)
(* component a process hosts, and the calls a host makes of it.            *)
(*                                                                         *)
(* A call is a future: nothing of it runs until it is polled, and its host *)
(* may drop it before it answers.  The router's own components answer at   *)
(* the first poll; a remote one (a component written by hand, in another   *)
(* process) is awaited until it replies, if it ever does.  The three       *)
(* component traits, their object-safe twins and their boxes only forward  *)
(* a call, so that one component stands for all of them.                   *)
(***************************************************************************)
EXTENDS Errors, Naturals

CONSTANTS
  Components,       \* the components a host may register: [name, kind, remote]
  Calls,            \* the calls a host may make at once
  MaxRegistered     \* BOUND: the components one builder is given

Services == {"Handle", "React", "Translate", "Project"}

(* The three kinds of component, each a trait with an object-safe twin and *)
(* its boxes; a call goes through any of them to the component itself.     *)
Aggregates == {c \in Components : c.kind = "aggregate"}

Policies == {c \in Components : c.kind = "policy"}

Projectors == {c \in Components : c.kind = "projector"}

(* A router hosts a policy as this crate's own table: only an aggregate or *)
(* a projector of it may be remote.                                        *)
ASSUME RouterAssumption ==
  /\ MaxRegistered \in Nat
  /\ Components = Aggregates \cup Policies \cup Projectors
  /\ \A c \in Components : c.remote \in BOOLEAN
  /\ \A c \in Policies : ~ c.remote

(* The components that have the service.                                   *)
Serving(service) ==
  CASE service = "Handle"                  -> Aggregates
    [] service \in {"React", "Translate"}  -> Policies
    [] service = "Project"                 -> Projectors

VARIABLES
  registered,       \* the components given to the builder, in order
  outcome,          \* what the builder, or the last registration, came to
  hosted,           \* the router's component, None before it is built
  calls,            \* [Calls -> [stage, service, answer]]
  asked,            \* history: who was asked, by call: [Calls -> Seq(name)]
  replied           \* the calls whose remote component has replied

vars == <<registered, outcome, hosted, calls, asked, replied>>

-----------------------------------------------------------------------------
(* Building.                                                               *)

NoCall == [stage |-> "idle", service |-> None, answer |-> None]

Init ==
  /\ registered = <<>> /\ outcome = None /\ hosted = None
  /\ calls = [k \in Calls |-> NoCall]
  /\ asked = [k \in Calls |-> <<>>]
  /\ replied = {}

Register(c) ==
  /\ hosted = None /\ Len(registered) < MaxRegistered
  /\ registered' = Append(registered, c)
  /\ UNCHANGED <<outcome, hosted, calls, asked, replied>>

(* A second component is refused: both are named.                          *)
RefuseAnother(kept, refused) ==
  [error |-> Keyed("DUPLICATE_COMPONENT", <<>>),
   registered |-> kept.name, refused |-> refused.name]

(* A bug: the component registered last is hosted.                         *)
Mutant_LastWins ==
  /\ hosted = None /\ registered # <<>>
  /\ hosted' = registered[Len(registered)]
  /\ outcome' = None
  /\ UNCHANGED <<registered, calls, asked, replied>>

(* Built, the builder is spent: of no component or of two there is no      *)
(* router, and a host may start again.                                     *)
Build ==
  /\ hosted = None
  /\ IF Len(registered) = 1
     THEN hosted' = registered[1] /\ outcome' = None /\ UNCHANGED registered
     ELSE /\ outcome' = IF registered = <<>>
                        THEN [error |-> Keyed("NO_HANDLERS_REGISTERED", <<>>)]
                        ELSE RefuseAnother(registered[1], registered[2])
          /\ registered' = <<>>
          /\ UNCHANGED hosted
  /\ UNCHANGED <<calls, asked, replied>>

(* A host that registers components one at a time is refused another.      *)
RegisterAnother(c) ==
  /\ hosted # None
  /\ outcome' = RefuseAnother(hosted, c)
  /\ UNCHANGED <<registered, hosted, calls, asked, replied>>

-----------------------------------------------------------------------------
(* Calls.                                                                  *)

Goto(k, stage) == calls' = [calls EXCEPT ![k].stage = stage]

AnswerWith(k, answer) ==
  calls' = [calls EXCEPT
    ![k] = [stage |-> "answered", service |-> @.service, answer |-> answer]]

WrongKind == [error |-> Keyed("NO_COMPONENT_OF_KIND", <<>>)]

Replied == [error |-> None, by |-> hosted.name]

Ask(k) == asked' = [asked EXCEPT ![k] = Append(@, hosted.name)]

Call(k, service) ==
  /\ hosted # None /\ calls[k].stage = "idle"
  /\ calls' = [calls EXCEPT
       ![k] = [stage |-> "made", service |-> service, answer |-> None]]
  /\ UNCHANGED <<registered, outcome, hosted, asked, replied>>

Hosts(k) == hosted \in Serving(calls[k].service)

(* A service the component has not is refused, its own code answers within *)
(* the poll, and a remote one is asked.                                    *)
Begin(k) ==
  IF ~ Hosts(k) THEN AnswerWith(k, WrongKind) /\ UNCHANGED asked
  ELSE /\ Ask(k)
       /\ IF hosted.remote THEN Goto(k, "waiting") ELSE AnswerWith(k, Replied)

(* A bug: the calls take turns, whoever is awaited holding the lock.       *)
Mutant_OneAtATime(k) ==
  /\ calls[k].stage = "made"
  /\ \A other \in Calls : calls[other].stage # "waiting"
  /\ Begin(k)
  /\ UNCHANGED <<registered, outcome, hosted, replied>>

(* Nothing of a call runs before its first poll.                           *)
FirstPoll(k) ==
  /\ calls[k].stage = "made"
  /\ Begin(k)
  /\ UNCHANGED <<registered, outcome, hosted, replied>>

(* The remote component replies (external).                                *)
Reply(k) ==
  /\ calls[k].stage = "waiting" /\ k \notin replied
  /\ replied' = replied \cup {k}
  /\ UNCHANGED <<registered, outcome, hosted, calls, asked>>

(* A later poll: pending until the component has replied.                  *)
PollAgain(k) ==
  /\ calls[k].stage = "waiting" /\ k \in replied
  /\ AnswerWith(k, Replied)
  /\ replied' = replied \ {k}
  /\ UNCHANGED <<registered, outcome, hosted, asked>>

(* The host takes the answer, or drops the future before there is one.     *)
End(k) ==
  /\ calls' = [calls EXCEPT ![k] = NoCall]
  /\ asked' = [asked EXCEPT ![k] = <<>>]
  /\ replied' = replied \ {k}
  /\ UNCHANGED <<registered, outcome, hosted>>

Take(k) == calls[k].stage = "answered" /\ End(k)

Drop(k) == calls[k].stage \in {"made", "waiting"} /\ End(k)

Poll(k) == FirstPoll(k) \/ PollAgain(k)

Next ==
  \/ \E c \in Components : Register(c) \/ RegisterAnother(c)
  \/ Build
  \/ \E k \in Calls :
       \/ \E service \in Services : Call(k, service)
       \/ Poll(k) \/ Reply(k) \/ Take(k) \/ Drop(k)

(* A host polls the futures it has made, and those that are woken.  A      *)
(* remote component may never reply.                                       *)
Fairness == \A k \in Calls : WF_vars(Poll(k))

Spec == Init /\ [][Next]_vars /\ Fairness

-----------------------------------------------------------------------------
(* Properties.                                                             *)

(* One process, one component: whoever is asked anything was the only      *)
(* component registered when the router was built, and is asked nothing    *)
(* but its own kind's services; a second one is never asked, whichever way *)
(* it was registered (router.rs, build and refuse_another_component).      *)
OnlyTheOneIsAsked ==
  \A k \in Calls : asked[k] # <<>> =>
    /\ registered = <<hosted>>
    /\ asked[k] = <<hosted.name>>
    /\ hosted \in Serving(calls[k].service)

(* A call that waits for a remote component, for ever perhaps, holds up no *)
(* other: every call made is begun (or dropped), and every reply is taken  *)
(* up by its call.                                                         *)
NoCallHoldsUpAnother ==
  \A k \in Calls :
    /\ calls[k].stage = "made" ~> calls[k].stage # "made"
    /\ k \in replied ~> k \notin replied

=============================================================================
