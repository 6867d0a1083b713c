------------------------------ MODULE Upcaster ------------------------------
(***************************************************************************)
(* UpcasterService.Upcast (crates/router/src/upcaster.rs): each payload of *)
(* a request brought through every rule its type reaches, each rule at     *)
(* most once, and answered under its page's key.                           *)
(*                                                                         *)
(* A payload is its type and, as history, the rules it came through.  A    *)
(* rule is business code: it answers a payload of any type, the one it was *)
(* given included, or fails.                                               *)
(***************************************************************************)
EXTENDS Errors, Naturals

CONSTANTS
  Types,            \* the payload types
  Rules,            \* the types with a rule
  Failures,         \* the ways a rule may fail
  NoSequence,       \* the key of a lone payload
  Requests          \* the requests a host may send

Payloads == [type : Types \cup {None}, via : Seq(Rules)]

(* A request as its wire type has it.                                      *)
WellFormed(r) ==
  /\ r.input = "lone" => r.type \in Types
  /\ r.input = "pages" =>
       r.events \in Seq([seq : Nat, type : Types \cup {None}])

ASSUME UpcasterAssumption ==
  /\ Rules \subseteq Types
  /\ None \notin Types \cup Payloads
  /\ Failures \subseteq FailureKinds
  /\ \A r \in Requests : WellFormed(r)

VARIABLES
  pc,               \* "idle", "upcast" or "answered"
  items,            \* the requested payloads, by key
  current,          \* the payload being upcast, None before its first rule
  applied,          \* the rules it has been through
  pages,            \* the entries answered so far
  answer            \* [error, pages]

vars == <<pc, items, current, applied, pages, answer>>

-----------------------------------------------------------------------------

Payload(type) == [type |-> type, via |-> <<>>]

(* The requested entries: no input, a lone payload, or pages, of which a   *)
(* framework meta-event (type None) has no payload.                        *)
Items(r) ==
  IF r.input = "lone" THEN <<[key |-> NoSequence, type |-> r.type]>>
  ELSE IF r.input = "pages"
    THEN [k \in 1 .. Len(r.events) |->
            [key |-> r.events[k].seq, type |-> r.events[k].type]]
    ELSE <<>>

Item == items[Len(pages) + 1]

Done == Len(pages) = Len(items)

(* A bug: an entry is keyed by its place.                                  *)
Mutant_KeyedByPlace(key, payload) == [key |-> Len(pages), payload |-> payload]

Upcasted(key, payload) == [key |-> key, payload |-> payload]

Init ==
  /\ pc = "idle" /\ items = <<>> /\ current = Payload(None) /\ applied = {}
  /\ pages = <<>> /\ answer = None

(* The payload whose turn it is starts as it was sent.                     *)
StartNext(all, n) ==
  /\ current' = Payload(IF n < Len(all) THEN all[n + 1].type ELSE None)
  /\ applied' = {}

Upcast(r) ==
  /\ pc = "idle"
  /\ pc' = "upcast"
  /\ items' = Items(r)
  /\ StartNext(Items(r), 0)
  /\ UNCHANGED <<pages, answer>>

(* A bug: only the first rule a payload reaches is applied.                *)
Mutant_FirstRuleOnly == current.type \in Rules /\ applied = {}

(* A type with a rule not yet applied to this payload.                     *)
Reaches == current.type \in Rules \ applied

ApplyRule(type) ==
  /\ pc = "upcast" /\ ~ Done /\ Reaches
  /\ applied' = applied \cup {current.type}
  /\ current' = [type |-> type, via |-> Append(current.via, current.type)]
  /\ UNCHANGED <<pc, items, pages, answer>>

(* The first failing rule fails the request.                               *)
RuleFails(failure) ==
  /\ pc = "upcast" /\ ~ Done /\ Reaches
  /\ answer' = [error |-> CallHandler(failure), pages |-> <<>>]
  /\ pc' = "answered"
  /\ UNCHANGED <<items, current, applied, pages>>

(* A bug: the same payload is begun again.                                 *)
Mutant_SamePayloadAgain ==
  /\ pc = "upcast" /\ ~ Done /\ ~ Reaches
  /\ StartNext(items, Len(pages))
  /\ UNCHANGED <<pc, items, pages, answer>>

(* The entry is complete: no rule applies, or only one that already has.   *)
EndPayload ==
  /\ pc = "upcast" /\ ~ Done /\ ~ Reaches
  /\ pages' = Append(pages,
       Upcasted(Item.key, IF Item.type = None THEN None ELSE current))
  /\ StartNext(items, Len(pages) + 1)
  /\ UNCHANGED <<pc, items, answer>>

Answer ==
  /\ pc = "upcast" /\ Done
  /\ answer' = [error |-> None, pages |-> pages]
  /\ pc' = "answered"
  /\ UNCHANGED <<items, current, applied, pages>>

Return ==
  /\ pc = "answered"
  /\ pc' = "idle" /\ items' = <<>> /\ current' = Payload(None) /\ applied' = {}
  /\ pages' = <<>> /\ answer' = None

Step ==
  \/ \E type \in Types : ApplyRule(type)
  \/ \E failure \in Failures : RuleFails(failure)
  \/ EndPayload
  \/ Answer

Next == (\E r \in Requests : Upcast(r)) \/ Step \/ Return

(* A call runs to its end; the host may never make another.                *)
Spec == Init /\ [][Next]_vars /\ WF_vars(Step)

-----------------------------------------------------------------------------
(* Properties.                                                             *)

(* What is answered has been through each rule at most once, in the order  *)
(* its type reached them, and is as far as the rules take it: its type has *)
(* no rule, or one it has already been through.                            *)
UpcastToTheEnd ==
  \A k \in 1 .. Len(pages) :
    LET payload == pages[k].payload
    IN  payload # None =>
          /\ \A i, j \in 1 .. Len(payload.via) :
               i # j => payload.via[i] # payload.via[j]
          /\ payload.type \in Rules =>
               \E i \in 1 .. Len(payload.via) : payload.via[i] = payload.type
          /\ payload.via # <<>> => payload.via[1] = items[k].type

(* An answer has exactly the requested entries, in order and by key: a     *)
(* meta-event's has no payload, every other has one.                       *)
EveryEntryIsAnswered ==
  pc = "answered" /\ answer.error = None =>
    /\ [k \in 1 .. Len(answer.pages) |-> answer.pages[k].key] =
         [k \in 1 .. Len(items) |-> items[k].key]
    /\ \A k \in 1 .. Len(items) :
         answer.pages[k].payload = None <=> items[k].type = None

(* Rules that lead round in circles do not keep a request from its answer. *)
EveryUpcastEnds == pc = "upcast" ~> pc = "answered"

=============================================================================
