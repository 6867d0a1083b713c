------------------------------ MODULE MCOrders ------------------------------
(***************************************************************************)
(* Orders of two items, of the rotten one and of a payload that does not   *)
(* decode, to components of each behaviour.                                *)
(***************************************************************************)
EXTENDS Orders

Input(arm, type, item) == [arm |-> arm, type |-> type, item |-> item]

MCInputs ==
  {Input("command", "AddItem", item) : item \in {"a", "b", "rotten", "garbled"}} \cup
  {Input("command", "Acknowledge", "a"), Input("fact", "ItemDelivered", "a"),
   Input("fact", "ItemDelivered", "garbled"), Input("fact", "AddItem", "a")}

Built(fails, returns, fact) == [fails |-> fails, returns |-> returns, fact |-> fact]

(* The tier's behaviours: what AddItem returns, how it fails, and what the *)
(* fact's handler does.                                                    *)
MCBehaviours ==
  {Built(None, <<"added">>, <<"recorded">>), Built(None, <<"restock">>, <<"note">>),
   Built(None, <<"observe">>, <<"fail", "refuses">>),
   Built(None, <<"fail", "immediate">>, <<"fail", "errs">>),
   Built(None, <<"chain", 0>>, <<"note">>), Built(None, <<"chain", 3>>, <<"note">>),
   Built(None, <<"two", <<"chain", 2>>, <<"observe">>>>, <<"note">>),
   Built(None, <<"two", <<"chain", 2>>, <<"chain", 2>>>>, <<"note">>)}
  \cup {Built(how, <<"added">>, <<"recorded">>) : how \in Hows}

(* Steps that hold back, that do not, that continue, and that fail: at     *)
(* once, or in the fold of what they emit.                                 *)
MCCheckedSteps ==
  {<<"restock", "a">>, <<"observe">>, <<"note", <<"restock", "a">>>>,
   <<"chain", 0>>, <<"chain", 2>>, <<"fail", "errs">>, <<"add", "a">>,
   <<"add", "rotten">>}

MCItems == {"a", "b", "rotten"}

MCEvents ==
  {ItemAdded(i) : i \in MCItems} \cup {ItemDelivered(i) : i \in MCItems} \cup
  {Note(<<word, i>>) : word \in {"restock", "delivered"}, i \in MCItems} \cup
  {Note(<<"note", k>>) : k \in 1 .. MaxSteps}

MCEmissions == {<<>>} \cup {<<event>> : event \in MCEvents}

MCFailures == {Undecodable} \cup {Fail(how) : how \in Hows}

ASSUME MCTier == TierConstants /\ TierFolds /\ OneAtATime /\ StepsChecked

=============================================================================
