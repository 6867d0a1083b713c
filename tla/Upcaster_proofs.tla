--------------------------- MODULE Upcaster_proofs --------------------------
(***************************************************************************)
(* What an upcaster answers, for any types, any rules among them (circles  *)
(* included) and any request.                                              *)
(* Of Rebuild_proofs only the lemmas on errors are used.                   *)
(***************************************************************************)
EXTENDS Upcaster, Rebuild_proofs

Entries == [key : Nat \cup {NoSequence}, type : Types \cup {None}]

(* A payload came through rules: each of them once, the first of them its  *)
(* own type's, and they are those applied to it.                           *)
CameThrough(payload, rules, type) ==
  /\ payload \in Payloads
  /\ \A i, j \in 1 .. Len(payload.via) : i # j => payload.via[i] # payload.via[j]
  /\ rules = {payload.via[i] : i \in 1 .. Len(payload.via)}
  /\ payload.type = type \/ payload.via # <<>>
  /\ payload.via # <<>> => payload.via[1] = type

(* An entry answers what was requested: under its key, with no payload if  *)
(* it had none, and else with its payload brought as far as the rules go.  *)
EntryOK(page, item) ==
  /\ page.key = item.key
  /\ item.type = None => page.payload = None
  /\ item.type # None =>
       \E rules : /\ CameThrough(page.payload, rules, item.type)
                  /\ page.payload.type \notin Rules \ rules

(* The inductive invariant.                                                *)
UpcasterInv ==
  /\ pc \in {"idle", "upcast", "answered"}
  /\ items \in Seq(Entries)
  /\ pages \in Seq([key : Nat \cup {NoSequence}, payload : Payloads \cup {None}])
  /\ Len(pages) <= Len(items)
  /\ pc = "idle" => items = <<>> /\ pages = <<>>
  /\ pc = "upcast" /\ ~ Done => CameThrough(current, applied, Item.type)
  /\ \A k \in 1 .. Len(pages) : EntryOK(pages[k], items[k])
  /\ pc = "answered" /\ answer.error = None => answer.pages = pages /\ Done

LEMMA InitUpcasterInv == Init => UpcasterInv
BY DEF Init, UpcasterInv, Done

LEMMA ItemsAreEntries ==
  ASSUME NEW r, WellFormed(r)
  PROVE  Items(r) \in Seq(Entries)
<1>1. CASE r.input = "lone"
  BY <1>1 DEF Items, WellFormed, Entries
<1>2. CASE r.input = "pages"
  <2>1. r.events \in Seq([seq : Nat, type : Types \cup {None}])
    BY <1>2 DEF WellFormed
  <2>2. /\ Len(r.events) \in Nat
        /\ \A k \in 1 .. Len(r.events) :
             r.events[k] \in [seq : Nat, type : Types \cup {None}]
    <3> DEFINE S == [seq : Nat, type : Types \cup {None}]
    <3>1. r.events \in Seq(S)
      BY <2>1
    <3> HIDE DEF S
    <3>2. Len(r.events) \in Nat /\ \A k \in 1 .. Len(r.events) : r.events[k] \in S
      BY <3>1
    <3>3. QED
      BY <3>2 DEF S
  <2>3. \A k \in 1 .. Len(r.events) :
          [key |-> r.events[k].seq, type |-> r.events[k].type] \in Entries
    BY <2>2 DEF Entries
  <2>4. QED
    BY <1>2, <2>2, <2>3 DEF Items
<1>3. CASE r.input \notin {"lone", "pages"}
  BY <1>3 DEF Items
<1>4. QED
  BY <1>1, <1>2, <1>3

(* A payload starts as it was sent, through no rule.                       *)
LEMMA StartsAsSent ==
  ASSUME NEW all \in Seq(Entries), NEW n \in Nat, StartNext(all, n), n < Len(all)
  PROVE  CameThrough(current', applied', all[n + 1].type)
<1> DEFINE type == all[n + 1].type
<1>1. type \in Types \cup {None}
  <2>1. n + 1 \in 1 .. Len(all)
    OBVIOUS
  <2>2. all[n + 1] \in Entries
    BY <2>1
  <2>3. QED
    BY <2>2 DEF Entries
<1>2. current' = [type |-> type, via |-> <<>>] /\ applied' = {}
  BY DEF StartNext, Payload
<1> HIDE DEF type
<1>3. [type |-> type, via |-> <<>>] \in Payloads
  BY <1>1 DEF Payloads
<1>4. QED
  BY <1>2, <1>3 DEF CameThrough, type

(* One rule more, of a type none of those before was.                      *)
LEMMA OneRuleMore ==
  ASSUME NEW payload, NEW rules, NEW first, CameThrough(payload, rules, first),
         payload.type \in Rules \ rules, NEW type \in Types
  PROVE  CameThrough([type |-> type, via |-> Append(payload.via, payload.type)],
                     rules \cup {payload.type}, first)
<1> DEFINE via == payload.via
           rule == payload.type
           more == Append(via, rule)
           n == Len(via)
<1>1. /\ via \in Seq(Rules) /\ n \in Nat /\ rule \in Rules
      /\ rules = {via[i] : i \in 1 .. n}
      /\ \A i, j \in 1 .. n : i # j => via[i] # via[j]
      /\ rule = first \/ via # <<>>
      /\ via # <<>> => via[1] = first
      /\ rule \notin rules
  BY DEF CameThrough, Payloads
<1> HIDE DEF via, rule
<1>2. /\ more \in Seq(Rules) /\ Len(more) = n + 1 /\ more # <<>>
      /\ \A i \in 1 .. n : more[i] = via[i]
      /\ more[n + 1] = rule
  <2>1. more = Append(via, rule) /\ via \in Seq(Rules) /\ rule \in Rules
    BY <1>1
  <2>2. more \in Seq(Rules) /\ Len(more) = Len(via) + 1
    BY <2>1
  <2>3. /\ \A i \in 1 .. Len(via) : more[i] = via[i]
        /\ more[Len(via) + 1] = rule
    BY <2>1
  <2> HIDE DEF more
  <2>4. more # <<>>
    BY <1>1, <2>2
  <2>5. QED
    BY <2>2, <2>3, <2>4
<1> HIDE DEF more
<1>3. \A i, j \in 1 .. n + 1 : i # j => more[i] # more[j]
  <2>1. \A i \in 1 .. n : via[i] # rule
    BY <1>1
  <2>2. \A i \in 1 .. n + 1 : i \in 1 .. n \/ i = n + 1
    BY <1>1
  <2>3. QED
    BY <1>1, <1>2, <2>1, <2>2
<1>4. rules \cup {rule} = {more[i] : i \in 1 .. n + 1}
  <2>1. \A i \in 1 .. n + 1 : i \in 1 .. n \/ i = n + 1
    BY <1>1
  <2>2. 1 .. n \subseteq 1 .. n + 1 /\ n + 1 \in 1 .. n + 1
    BY <1>1
  <2>3. QED
    BY <1>1, <1>2, <2>1, <2>2
<1>5. more[1] = first
  <2>1. CASE n = 0
    BY <1>1, <1>2, <2>1
  <2>2. CASE n # 0
    BY <1>1, <1>2, <2>2
  <2>3. QED
    BY <2>1, <2>2
<1> DEFINE new == [type |-> type, via |-> more]
<1>6. new \in Payloads
  BY <1>2, UpcasterAssumption DEF Payloads
<1>7. new.type = type /\ new.via = more
  OBVIOUS
<1> HIDE DEF new
<1>8. CameThrough(new, rules \cup {rule}, first)
  <2> DEFINE all == rules \cup {rule}
  <2>1. all = {more[i] : i \in 1 .. n + 1}
    BY <1>4
  <2> HIDE DEF all
  <2>2. CameThrough(new, all, first)
    BY <1>2, <1>3, <1>5, <1>6, <1>7, <2>1 DEF CameThrough
  <2>3. QED
    BY <2>2 DEF all
<1>9. QED
  BY <1>8 DEF new, more, via, rule

LEMMA NextUpcasterInv == UpcasterInv /\ [Next]_vars => UpcasterInv'
<1> SUFFICES ASSUME UpcasterInv, [Next]_vars PROVE UpcasterInv'
  OBVIOUS
<1> DEFINE Answers == [key : Nat \cup {NoSequence}, payload : Payloads \cup {None}]
<1>1. /\ items \in Seq(Entries) /\ pages \in Seq(Answers)
      /\ Len(pages) \in Nat /\ Len(items) \in Nat /\ Len(pages) <= Len(items)
  BY DEF UpcasterInv
<1>2. \A k \in 1 .. Len(pages) : EntryOK(pages[k], items[k])
  BY DEF UpcasterInv
<1>3. ASSUME NEW r \in Requests, Upcast(r)
      PROVE  UpcasterInv'
  <2> DEFINE all == Items(r)
  <2>1. all \in Seq(Entries)
    BY UpcasterAssumption, ItemsAreEntries
  <2>2. pc' = "upcast" /\ items' = all /\ StartNext(all, 0) /\ pages' = <<>>
    BY <1>3 DEF Upcast, UpcasterInv
  <2> HIDE DEF all
  <2>3. 0 < Len(all) => CameThrough(current', applied', all[0 + 1].type)
    BY <2>1, <2>2, StartsAsSent
  <2>4. QED
    BY <2>1, <2>2, <2>3 DEF UpcasterInv, Done, Item
<1>4. ASSUME NEW type \in Types, ApplyRule(type)
      PROVE  UpcasterInv'
  <2> DEFINE first == Item.type
  <2>1. /\ CameThrough(current, applied, first)
        /\ current.type \in Rules \ applied
    BY <1>4 DEF ApplyRule, Reaches, UpcasterInv
  <2>2. /\ applied' = applied \cup {current.type}
        /\ current' = [type |-> type, via |-> Append(current.via, current.type)]
        /\ UNCHANGED <<pc, items, pages, answer>> /\ pc = "upcast"
    BY <1>4 DEF ApplyRule
  <2>3. first' = first
    BY <2>2 DEF Item
  <2> HIDE DEF first
  <2>4. CameThrough(current', applied', first)
    BY <2>1, <2>2, OneRuleMore
  <2>5. CameThrough(current', applied', Item'.type)
    BY <2>3, <2>4 DEF first
  <2>6. QED
    BY <2>2, <2>5 DEF UpcasterInv, Done
<1>5. ASSUME NEW failure \in Failures, RuleFails(failure)
      PROVE  UpcasterInv'
  <2> DEFINE e == CallHandler(failure)
  <2>1. e # None
    BY UpcasterAssumption, CallHandlerIsError, ErrorsAssumption
  <2>2. /\ answer' = [error |-> e, pages |-> <<>>] /\ pc' = "answered"
        /\ UNCHANGED <<items, current, applied, pages>>
    BY <1>5 DEF RuleFails
  <2> HIDE DEF e
  <2>3. QED
    BY <2>1, <2>2 DEF UpcasterInv
<1>6. CASE EndPayload
  <2> DEFINE n == Len(pages)
             item == items[n + 1]
             new == [key |-> item.key,
                     payload |-> IF item.type = None THEN None ELSE current]
  <2>1. /\ pc = "upcast" /\ n \in Nat /\ n < Len(items)
        /\ pages' = Append(pages, new) /\ StartNext(items, n + 1)
        /\ UNCHANGED <<pc, items, answer>>
    BY <1>1, <1>6 DEF EndPayload, Done, Item, Upcasted
  <2>2. /\ CameThrough(current, applied, item.type)
        /\ current.type \notin Rules \ applied
    BY <1>6 DEF EndPayload, Reaches, UpcasterInv, Item
  <2>3. item \in Entries
    BY <1>1, <2>1
  <2>4. new \in Answers /\ EntryOK(new, item)
    <3>1. /\ new.key = item.key
          /\ new.payload = IF item.type = None THEN None ELSE current
      OBVIOUS
    <3>2. current \in Payloads
      BY <2>2 DEF CameThrough
    <3>3. new \in Answers
      BY <2>3, <3>2 DEF Entries
    <3> HIDE DEF new, item
    <3>4. EntryOK(new, item)
      BY <2>2, <3>1 DEF EntryOK
    <3>5. QED
      BY <3>3, <3>4
  <2> HIDE DEF new, Answers
  <2>5. /\ pages' \in Seq(Answers) /\ Len(pages') = n + 1
        /\ \A k \in 1 .. n : pages'[k] = pages[k]
        /\ pages'[n + 1] = new
    BY <1>1, <2>1, <2>4
  <2>6. \A k \in 1 .. Len(pages') : EntryOK(pages'[k], items'[k])
    <3>1. \A k \in 1 .. n + 1 : k \in 1 .. n \/ k = n + 1
      BY <2>1
    <3>2. EntryOK(pages'[n + 1], items'[n + 1])
      BY <2>1, <2>4, <2>5
    <3>3. \A k \in 1 .. n : EntryOK(pages'[k], items'[k])
      BY <1>2, <2>1, <2>5
    <3>4. QED
      BY <2>5, <3>1, <3>2, <3>3
  <2>7. n + 1 < Len(items) =>
          CameThrough(current', applied', items[(n + 1) + 1].type)
    BY <1>1, <2>1, StartsAsSent
  <2>8. n + 1 <= Len(items)
    BY <1>1, <2>1
  <2>9. Done' <=> n + 1 = Len(items)
    BY <2>1, <2>5 DEF Done
  <2>10. Item' = items[(n + 1) + 1]
    BY <2>1, <2>5 DEF Item
  <2>11. pc' = "upcast" /\ ~ Done' => CameThrough(current', applied', Item'.type)
    BY <1>1, <2>1, <2>7, <2>8, <2>9, <2>10
  <2>12. QED
    BY <1>1, <2>1, <2>5, <2>6, <2>8, <2>11 DEF UpcasterInv, Answers
<1>7. CASE Answer
  <2>1. /\ answer' = [error |-> None, pages |-> pages] /\ pc' = "answered" /\ Done
        /\ UNCHANGED <<items, current, applied, pages>>
    BY <1>7 DEF Answer
  <2>2. answer'.pages = pages' /\ Done'
    BY <2>1 DEF Done
  <2>3. QED
    BY <2>1, <2>2 DEF UpcasterInv
<1>8. CASE Return
  BY <1>8 DEF Return, UpcasterInv, Done
<1>9. CASE UNCHANGED vars
  <2>1. Done' = Done /\ Item' = Item
    BY <1>9 DEF vars, Done, Item
  <2>2. QED
    BY <1>9, <2>1 DEF vars, UpcasterInv
<1>10. QED
  BY <1>3, <1>4, <1>5, <1>6, <1>7, <1>8, <1>9 DEF Next, Step

LEMMA Invariant == Spec => []UpcasterInv
BY InitUpcasterInv, NextUpcasterInv, PTL DEF Spec

(* Whatever graph the rules form, what is answered has been through each   *)
(* rule at most once, from its own type on, and no rule is left for it.    *)
THEOREM UpcastsToTheEnd == Spec => []UpcastToTheEnd
<1>1. UpcasterInv => UpcastToTheEnd
  <2> SUFFICES ASSUME UpcasterInv, NEW k \in 1 .. Len(pages),
                      pages[k].payload # None
               PROVE  LET payload == pages[k].payload
                      IN  /\ \A i, j \in 1 .. Len(payload.via) :
                               i # j => payload.via[i] # payload.via[j]
                          /\ payload.type \in Rules =>
                               \E i \in 1 .. Len(payload.via) :
                                 payload.via[i] = payload.type
                          /\ payload.via # <<>> => payload.via[1] = items[k].type
    BY DEF UpcastToTheEnd
  <2> DEFINE payload == pages[k].payload
  <2>1. PICK rules : /\ CameThrough(payload, rules, items[k].type)
                     /\ payload.type \notin Rules \ rules
    BY DEF UpcasterInv, EntryOK
  <2> HIDE DEF payload
  <2>2. payload.type \in Rules =>
          \E i \in 1 .. Len(payload.via) : payload.via[i] = payload.type
    BY <2>1 DEF CameThrough
  <2>3. QED
    BY <2>1, <2>2 DEF CameThrough, payload
<1>2. QED
  BY <1>1, Invariant, PTL

(* An answer has the entries requested, in order and each under its key.   *)
THEOREM EntriesAreAnswered == Spec => []EveryEntryIsAnswered
<1>1. UpcasterInv => EveryEntryIsAnswered
  <2> SUFFICES ASSUME UpcasterInv, pc = "answered", answer.error = None
               PROVE  /\ [k \in 1 .. Len(answer.pages) |-> answer.pages[k].key] =
                           [k \in 1 .. Len(items) |-> items[k].key]
                      /\ \A k \in 1 .. Len(items) :
                           answer.pages[k].payload = None <=> items[k].type = None
    BY DEF EveryEntryIsAnswered
  <2>1. /\ answer.pages = pages /\ Len(pages) = Len(items)
        /\ \A k \in 1 .. Len(pages) : EntryOK(pages[k], items[k])
    BY DEF UpcasterInv, Done
  <2>2. \A k \in 1 .. Len(items) : pages[k].key = items[k].key
    BY <2>1 DEF EntryOK
  <2>3. \A k \in 1 .. Len(items) : pages[k].payload = None <=> items[k].type = None
    BY <2>1, UpcasterAssumption DEF EntryOK, CameThrough
  <2>4. QED
    BY <2>1, <2>2, <2>3
<1>2. QED
  BY <1>1, Invariant, PTL

=============================================================================
