------------------------------- MODULE Orders -------------------------------
(***************************************************************************)
(* The order aggregate of the handler-contract tier (order_aggregate and   *)
(* its parts, crates/conformance/src/lib.rs): real business code under     *)
(* Emit, on one stream, one input after another.                           *)
(*                                                                         *)
(* An event is <<type, value>>, a note the words it is made of.  The       *)
(* component behaves as `behaviour` says, for the whole of a scenario.     *)
(* What keeps the stream (the harness, for a coordinator) is external.     *)
(***************************************************************************)
EXTENDS Emit, Bags, SequencesExt

CONSTANTS
  Inputs,           \* what the stream is sent: [arm, type, item]
  Behaviours,       \* the ways the component is built
  CheckedSteps,     \* the steps the test helper is run on
  MaxInputs         \* BOUND: the inputs a scenario sends

ASSUME OrdersAssumption == \A i \in Inputs : i.arm \in {"command", "fact"}

VARIABLES
  log,              \* the stream's pages
  image,            \* the state last answered, and the pages it covers
  sent,             \* the inputs sent
  seen,             \* what business code saw (its sink)
  checked           \* what the test helper was last run on, and found

world == <<log, image, sent, seen, checked>>

ordersVars == <<emitVars, world>>

-----------------------------------------------------------------------------
(* The order state and its folds (order_rebuilder).                        *)

ItemAdded(item) == <<"ItemAdded", item>>
ItemDelivered(item) == <<"ItemDelivered", item>>
Note(words) == <<"OrderNoteAdded", words>>

OrderFresh == [items |-> EmptyBag, delivered |-> <<>>, notes |-> <<>>]

(* ItemAdded of the rotten item does not fold.                             *)
OrderRejects(s, view) == view.event = ItemAdded("rotten")

(* A bug: an item is there or it is not.                                   *)
Mutant_NoQuantity(s, view) ==
  CASE view.event[1] = "ItemAdded" ->
         [s EXCEPT !.items = SetToBag(BagToSet(@) \cup {view.event[2]})]
    [] view.event[1] = "ItemDelivered" ->
         [s EXCEPT !.delivered = Append(@, view.event[2])]
    [] view.event[1] = "OrderNoteAdded" -> [s EXCEPT !.notes = view.event[2]]

OrderApply(s, view) ==
  CASE view.event[1] = "ItemAdded" ->
         [s EXCEPT !.items = @ (+) SetToBag({view.event[2]})]
    [] view.event[1] = "ItemDelivered" ->
         [s EXCEPT !.delivered = Append(@, view.event[2])]
    [] view.event[1] = "OrderNoteAdded" -> [s EXCEPT !.notes = view.event[2]]

-----------------------------------------------------------------------------
(* The business code: what each step does.                                 *)

(* AddItemFails::fail.                                                     *)
Fail(how) ==
  CASE how = "refuses" -> [kind |-> "coded",
         error |-> Refused("FAILED_PRECONDITION", "ItemOutOfStock")]
    [] how = "errs" -> [kind |-> "other", error |-> None]
    [] how = "panics" -> [kind |-> "panic", error |-> None]
    [] how = "bug" -> [kind |-> "coded", error |-> Bug("OWN", <<>>)]
    [] how = "immediate" -> [kind |-> "coded", error |-> Immediate("OWN")]
    [] how = "retryable" -> [kind |-> "coded",
         error |-> RetryableBug("UNAVAILABLE", "OWN")]

Undecodable == [kind |-> "coded", error |-> Keyed("ANY_DECODE_FAILED", <<>>)]

(* restock_step: a note while there is one of the item, and no such note.  *)
Restock(item, s) ==
  IF /\ item \in BagToSet(s.items) /\ s.items[item] = 1
     /\ s.notes # <<"restock", item>>
  THEN Of(<<Note(<<"restock", item>>)>>)
  ELSE Of(<<>>)

(* chain: n steps, each of which adds its note.                            *)
Chain(at, n) ==
  LET chain[k \in 0 .. n] ==
        IF k = 0 THEN Of(<<>>)
        ELSE Then(chain[k - 1], at, <<"note", <<"note", k>>>>)
  IN  chain[n]

(* add_item_emit: the item added, and then as `returns` says.  Of the two  *)
(* continuations of "two" (as the router's own tests chain them) the first *)
(* may continue itself.                                                    *)
AddItemEmit(at, item, returns) ==
  LET added == Of(<<ItemAdded(item)>>)
  IN  CASE returns[1] = "added" -> added
        [] returns[1] = "restock" -> Then(added, at, <<"restock", item>>)
        [] returns[1] = "two" -> Then(Then(added, at, returns[2]), at, returns[3])
        [] returns[1] \in {"observe", "fail", "chain"} -> Then(added, at, returns)

(* The handlers of order_aggregate.                                        *)
RunHandler(step, built, r) ==
  CASE r.type = "Acknowledge" -> Emits(Of(<<>>))
    [] r.type # "Acknowledge" /\ r.item = "garbled" -> Fails(Undecodable)
    [] r.type = "AddItem" /\ r.item # "garbled" ->
         IF built.fails # None THEN Fails(Fail(built.fails))
         ELSE Emits(AddItemEmit(step.at, r.item, built.returns))
    [] r.type = "ItemDelivered" /\ r.item # "garbled" ->
         LET recorded == Of(<<ItemDelivered(r.item)>>)
         IN  CASE built.fact[1] = "recorded" -> Emits(recorded)
               [] built.fact[1] = "note" ->
                    Emits(Then(recorded, step.at, <<"note", <<"delivered", r.item>>>>))
               [] built.fact[1] = "fail" -> Fails(Fail(built.fact[2]))

OrderDoes(step, r, s) ==
  LET does == step.does
  IN  CASE does[1] = "handle" -> RunHandler(step, does[2], r)
        [] does[1] = "restock" -> Emits(Restock(does[2], s))
        [] does[1] = "observe" -> Emits(Of(<<>>))
        [] does[1] = "fail" -> Fails(Fail(does[2]))
        [] does[1] = "chain" -> Emits(Chain(step.at, does[2]))
        [] does[1] = "note" -> Emits(Of(<<Note(does[2])>>))
        [] does[1] = "add" -> Emits(Of(<<ItemAdded(does[2])>>))

(* What a step puts into the sink: the handlers of an item, and the        *)
(* observing step, the items of the state they run on.                     *)
Observes(step, r, s) ==
  IF \/ step.does[1] = "observe"
     \/ /\ step.does[1] = "handle"
        /\ r.type # "Acknowledge"
        /\ r.item # "garbled"
  THEN << [handled |-> step.does[1], items |-> BagToSet(s.items)] >>
  ELSE <<>>

-----------------------------------------------------------------------------
(* What a component may be built of.                                       *)

(* AddItemFails.                                                           *)
Hows == {"refuses", "errs", "panics", "bug", "immediate", "retryable"}

Items == {i.item : i \in Inputs} \ {"garbled"}

Words ==
  {<<"note", k>> : k \in 1 .. MaxSteps} \cup
  {<<word, item>> : word \in {"restock", "delivered"}, item \in Items}

(* What a step may do.                                                     *)
Deeds ==
  {<<"handle", b>> : b \in Behaviours} \cup {<<"observe">>} \cup
  {<<"restock", item>> : item \in Items} \cup {<<"fail", how>> : how \in Hows} \cup
  {<<"chain", n>> : n \in 0 .. MaxSteps} \cup {<<"note", words>> : words \in Words} \cup
  {<<"add", item>> : item \in Items}

(* AddItemReturns, and two continuations.                                  *)
IsReturns(returns) ==
  \/ returns[1] \in {"added", "restock"}
  \/ returns[1] \in {"observe", "fail", "chain"} /\ returns \in Deeds
  \/ returns[1] = "two" /\ returns[2] \in Deeds /\ returns[3] \in Deeds

(* FactReturns.                                                            *)
IsFactReturns(returns) ==
  \/ returns[1] \in {"recorded", "note"}
  \/ returns[1] = "fail" /\ returns[2] \in Hows

(* The tier's inputs, what its components emit and how they fail, and how  *)
(* they are built (OrderBehaviour).                                        *)
TierConstants ==
  /\ 2 <= MaxSteps
  /\ \A i \in Inputs : i.type \in {"AddItem", "Acknowledge", "ItemDelivered"}
  /\ <<>> \in Emissions
  /\ \A item \in Items :
       <<ItemAdded(item)>> \in Emissions /\ <<ItemDelivered(item)>> \in Emissions
  /\ \A words \in Words : <<Note(words)>> \in Emissions
  /\ Undecodable \in Failures /\ \A how \in Hows : Fail(how) \in Failures
  /\ \A b \in Behaviours :
       b.fails \in Hows \cup {None} /\ IsReturns(b.returns) /\ IsFactReturns(b.fact)

(* The tier's rebuilder: it has a codec, and folds whatever is emitted.    *)
TierFolds ==
  /\ HasCodec
  /\ Events \subseteq Applied
  /\ \A e \in Events : e \in {ItemAdded(e[2]), ItemDelivered(e[2]), Note(e[2])}

(* Its harness: no input is sent before the one before is answered.        *)
OneAtATime == \A c, d \in Dispatches : c = d

(* The test helper is run on steps, and not on handlers.                   *)
StepsChecked ==
  \A does \in CheckedSteps : does \in Deeds /\ does[1] # "handle"

-----------------------------------------------------------------------------
(* A scenario.                                                             *)

OrdersInit ==
  /\ EmitInit
  /\ behaviour \in Behaviours
  /\ log = <<>> /\ image = None
  /\ sent = 0 /\ seen = <<>> /\ checked = None

(* Pages keep the sequences they have on the stream, where order_history   *)
(* numbers those it is handed from 0, behind a snapshot too: no applier,   *)
(* handler or step of the order component reads one.                       *)
Book(snapshot, pages) ==
  [cover |-> "order-1", snapshot |-> snapshot, pages |-> pages, next |-> Len(log)]

(* All the stream's pages, or the last image and the pages it does not     *)
(* cover (order_history).                                                  *)
OrderHistories ==
  {Book(None, log)} \cup
    (IF image = None THEN {}
     ELSE {Book([state |-> image.state], SubSeq(log, image.upto + 1, Len(log)))})

Send(d, input) ==
  /\ sent < MaxInputs
  /\ sent' = sent + 1
  /\ \E history \in OrderHistories :
       Deliver(d, [arm |-> input.arm, type |-> input.type, item |-> input.item,
                   id |-> sent, cover |-> "order-1", history |-> history])
  /\ checked' = None
  /\ UNCHANGED <<behaviour, log, image, seen>>

Dispatch(d) ==
  /\ EmitStep(d)
  /\ seen' = IF pc[d] = "call"
             THEN seen \o Observes(Head(Leaves(next[d])), req[d], state[d])
             ELSE seen
  /\ UNCHANGED <<behaviour, log, image, sent, checked>>

Collect(d) ==
  /\ pc[d] = "answered"
  /\ IF answer[d].error = None
     THEN /\ log' = log \o H!Stamped(req[d], answer[d].events)
          /\ image' \in {image, [state |-> answer[d].state, upto |-> Len(log')]}
     ELSE UNCHANGED <<log, image>>
  /\ Forget(d)
  /\ UNCHANGED <<behaviour, sent, seen, checked>>

(* The test helper, on the state of the stream; `on` is what its context   *)
(* is of.                                                                  *)
Check(step) ==
  /\ \A d \in Dispatches : pc[d] = "idle"
  /\ LET on == [arm |-> "command", type |-> "AddItem", item |-> "a", id |-> sent,
                cover |-> "order-1", history |-> Book(None, log)]
         s == Rebuilt(on.history).state
     IN  checked' = [step |-> step, on |-> on, state |-> s,
                     found |-> CheckStepIdempotent(step, on, s)]
  /\ UNCHANGED <<emitVars, log, image, sent, seen>>

OrdersNext ==
  \/ \E d \in Dispatches :
       \/ \E input \in Inputs : Send(d, input)
       \/ Dispatch(d)
       \/ Collect(d)
  \/ \E does \in CheckedSteps : Check(StepOf(<<>>, does))

OrdersSpec ==
  /\ OrdersInit /\ [][OrdersNext]_ordersVars
  /\ \A d \in Dispatches : WF_ordersVars(Dispatch(d))

-----------------------------------------------------------------------------
(* Properties.                                                             *)

Added(pages, item) ==
  {k \in 1 .. Len(pages) : pages[k].event = ItemAdded(item)}

(* The restock step's note is on the stream right after the first item of  *)
(* its kind, and nowhere else: whatever was added, delivered or refused in *)
(* between, from whichever history the state was rebuilt (lib.rs,          *)
(* restock_step: "while the item's quantity is 1").                        *)
RestockedOnce ==
  behaviour.returns[1] = "restock" =>
    \A k \in 1 .. Len(log) : \A item \in {"a", "b"} :
      log[k].event = Note(<<"restock", item>>) <=>
        k > 1 /\ Added(SubSeq(log, 1, k - 1), item) = {k - 1}

(* Business code, be it a handler or a step, sees the items on the stream  *)
(* and those of its own decision, whole, and none of a decision that       *)
(* failed.                                                                 *)
ItemsOf(events) ==
  {events[k][2] : k \in {j \in 1 .. Len(events) : events[j][1] = "ItemAdded"}}

SeesWhatIsRecorded ==
  [][\A d \in Dispatches :
       seen' # seen /\ pc[d] = "call" =>
         Last(seen').items =
           ItemsOf([k \in 1 .. Len(log) |-> log[k].event]) \cup ItemsOf(answered[d])
    ]_ordersVars

(* The test helper foretells the decision: of a step whose first run       *)
(* continues nowhere, "idempotent" says that a decision with the step      *)
(* twice is the one with it once; "emitted again" what the second adds;    *)
(* and "failed" the error the decision has (domain.rs,                     *)
(* check_step_idempotent).                                                 *)
CheckForetells ==
  checked # None =>
    LET once == Once(checked.step, checked.on, checked.state)
        twice == Twice(checked.step, checked.on, checked.state)
        found == checked.found
        continues == Continues(OrderDoes(checked.step, checked.on, checked.state).emit)
    IN  ~ continues =>
          /\ found.kind = "idempotent" => twice = once /\ once.error = None
          /\ found.kind = "failed" => twice.error = found.error
          /\ found.kind = "emitted_again" =>
               \/ twice.error # None
               \/ IsPrefix(once.events \o found.events, twice.events)

=============================================================================
