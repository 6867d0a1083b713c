---------------------------- MODULE Policy_proofs ---------------------------
(***************************************************************************)
(* What becomes of a policy's outputs, for any triggers, any business code *)
(* of their targets, and any errors it builds.                             *)
(* Of Rebuild_proofs only the lemmas on errors are used.                   *)
(***************************************************************************)
EXTENDS Policy, Rebuild_proofs

-----------------------------------------------------------------------------
(* The inductive invariant.                                                *)

Told == [status : BusinessStatuses, typed : Refusals]

InputRecords ==
  [arm : {"command", "fact"},
   stage : {"sent", "recorded", "refused", "told", "alerted"},
   runs : Nat, refusal : Told \cup {None}]

(* What an input has come to: translated is a refused command.             *)
StageOK(x) ==
  /\ x \in InputRecords
  /\ x.stage \in {"refused", "told"} => x.arm = "command" /\ x.refusal \in Told

PolicyInv ==
  /\ inputs = [id \in DOMAIN inputs |-> inputs[id]]
  /\ \A id \in DOMAIN inputs : StageOK(inputs[id])

LEMMA InitPolicyInv == Init => PolicyInv
BY DEF Init, PolicyInv

(* The fields of a record changed in one.                                  *)
LEMMA StageChanged ==
  ASSUME NEW x \in InputRecords,
         NEW stage \in {"sent", "recorded", "refused", "told", "alerted"}
  PROVE  LET y == [x EXCEPT !.stage = stage]
         IN  /\ y \in InputRecords /\ y.arm = x.arm /\ y.refusal = x.refusal
             /\ y.stage = stage
BY DEF InputRecords

LEMMA RunCounted ==
  ASSUME NEW x \in InputRecords, NEW n \in Nat
  PROVE  LET y == [x EXCEPT !.runs = n]
         IN  /\ y \in InputRecords /\ y.arm = x.arm /\ y.refusal = x.refusal
             /\ y.stage = x.stage
BY DEF InputRecords

LEMMA FailedKeeps ==
  ASSUME NEW x, StageOK(x), NEW e
  PROVE  /\ StageOK(Failed(x, e)) /\ Failed(x, e).arm = x.arm
         /\ Failed(x, e).stage \in {x.stage, "alerted"}
<1>1. x \in InputRecords
  BY DEF StageOK
<1>2. CASE Reruns(e, x.runs)
  <2> DEFINE n == x.runs + 1
             y == [x EXCEPT !.runs = n]
  <2>1. n \in Nat
    BY <1>1 DEF InputRecords
  <2>2. Failed(x, e) = y
    BY <1>2 DEF Failed
  <2> HIDE DEF n
  <2>3. /\ y \in InputRecords /\ y.arm = x.arm /\ y.refusal = x.refusal
        /\ y.stage = x.stage
    BY <1>1, <2>1, RunCounted
  <2> HIDE DEF y
  <2>4. QED
    BY <2>2, <2>3 DEF StageOK
<1>3. CASE ~ Reruns(e, x.runs)
  <2> DEFINE y == [x EXCEPT !.stage = "alerted"]
  <2>1. Failed(x, e) = y
    BY <1>3 DEF Failed
  <2>2. /\ y \in InputRecords /\ y.arm = x.arm /\ y.refusal = x.refusal
        /\ y.stage = "alerted"
    BY <1>1, StageChanged
  <2> HIDE DEF y
  <2>3. QED
    BY <2>1, <2>2 DEF StageOK
<1>4. QED
  BY <1>2, <1>3

LEMMA SentIsOK ==
  ASSUME NEW arm \in {"command", "fact"}
  PROVE  StageOK(Sent(arm))
BY DEF Sent, StageOK, InputRecords

LEMMA ChangeKeeps ==
  ASSUME PolicyInv, NEW id \in DOMAIN inputs, NEW x, StageOK(x),
         inputs' = [inputs EXCEPT ![id] = x]
  PROVE  PolicyInv'
BY DEF PolicyInv, StageOK

LEMMA AddKeeps ==
  ASSUME PolicyInv, NEW new, \A id \in DOMAIN new : StageOK(new[id]), Add(new)
  PROVE  PolicyInv'
<1>1. inputs' = [id \in DOMAIN inputs \cup DOMAIN new |->
                   IF id \in DOMAIN new THEN new[id] ELSE inputs[id]]
  BY DEF Add
<1>2. QED
  BY <1>1 DEF PolicyInv, StageOK

-----------------------------------------------------------------------------
(* The steps.                                                              *)

LEMMA ReactKeeps ==
  ASSUME PolicyInv, NEW t \in Triggers, NEW outputs \in Outputs, React(t, outputs)
  PROVE  PolicyInv'
<1> DEFINE new == [id \in {<<t.id, k>> : k \in 1 .. Len(outputs)} |->
                     Sent(outputs[id[2]])]
<1>1. outputs \in Seq({"command", "fact"})
  BY PolicyAssumption
<1>2. ASSUME NEW k \in 1 .. Len(outputs)
      PROVE  StageOK(new[<<t.id, k>>])
  <2> DEFINE arm == outputs[k]
  <2>1. arm \in {"command", "fact"} /\ new[<<t.id, k>>] = Sent(arm)
    BY <1>1
  <2> HIDE DEF arm, new
  <2>2. QED
    BY <2>1, SentIsOK
<1>3. \A id \in DOMAIN new : StageOK(new[id])
  BY <1>2
<1>4. Add(new)
  BY DEF React
<1> HIDE DEF new
<1>5. QED
  BY <1>3, <1>4, AddKeeps

(* A refusal's fact is an input of its own.                                *)
LEMMA TellKeeps ==
  ASSUME PolicyInv, NEW id \in DOMAIN inputs, inputs[id].stage = "refused",
         Add([x \in {id, Append(id, "fact")} |->
                IF x = id THEN [inputs[id] EXCEPT !.stage = "told"]
                ELSE Sent("fact")])
  PROVE  PolicyInv'
<1> DEFINE told == [inputs[id] EXCEPT !.stage = "told"]
           new == [x \in {id, Append(id, "fact")} |->
                     IF x = id THEN told ELSE Sent("fact")]
<1>1. StageOK(inputs[id]) /\ inputs[id] \in InputRecords
  BY DEF PolicyInv, StageOK
<1>2. /\ told \in InputRecords /\ told.arm = inputs[id].arm
      /\ told.refusal = inputs[id].refusal
  BY <1>1, StageChanged
<1>3. Add(new)
  OBVIOUS
<1> HIDE DEF told
<1>4. StageOK(told)
  BY <1>1, <1>2 DEF StageOK
<1>5. StageOK(Sent("fact"))
  BY SentIsOK
<1>6. \A x \in DOMAIN new : StageOK(new[x])
  BY <1>4, <1>5
<1> HIDE DEF new
<1>7. QED
  BY <1>3, <1>6, AddKeeps

LEMMA NextPolicyInv == PolicyInv /\ [Next]_vars => PolicyInv'
<1> SUFFICES ASSUME PolicyInv, [Next]_vars PROVE PolicyInv'
  OBVIOUS
<1>1. ASSUME NEW id \in DOMAIN inputs
      PROVE  StageOK(inputs[id]) /\ inputs[id] \in InputRecords
  BY DEF PolicyInv, StageOK
<1>2. CASE UNCHANGED inputs
  BY <1>2 DEF PolicyInv, StageOK
<1>3. ASSUME NEW t \in Triggers, StepReaction(t)
      PROVE  PolicyInv'
  BY <1>2, <1>3, ReactKeeps DEF StepReaction, ReactNothing, ReactFails
<1>4. ASSUME NEW id \in DOMAIN inputs, Handled(id)
      PROVE  PolicyInv'
  <2> DEFINE x == [inputs[id] EXCEPT !.stage = "recorded"]
  <2>1. inputs' = [inputs EXCEPT ![id] = x]
    BY <1>4 DEF Handled
  <2>2. x \in InputRecords /\ x.stage = "recorded"
    BY <1>1, StageChanged
  <2> HIDE DEF x
  <2>3. StageOK(x)
    BY <2>2 DEF StageOK
  <2>4. QED
    BY <2>1, <2>3, ChangeKeeps
<1>5. ASSUME NEW id \in DOMAIN inputs, NEW failure \in Failures,
             HandleFails(id, failure)
      PROVE  PolicyInv'
  <2> DEFINE old == inputs[id]
             e == HandleError(old, failure)
             refused == [arm |-> old.arm, stage |-> "refused", runs |-> 0,
                         refusal |-> AsRefusal(e)]
  <2>1. old.stage = "sent"
    BY <1>5 DEF HandleFails
  <2>2. CallHandler(failure) \in CodedErrors
    BY PolicyAssumption, CallHandlerIsError
  <2>3. /\ e \in CodedErrors
        /\ old.arm = "fact" => e \in Defects
    BY <2>2, FactFailureIsDefect, DefectsAreErrors DEF HandleError
  <2>4. CASE AsRefusal(e) # None
    <3>1. inputs' = [inputs EXCEPT ![id] = refused]
      BY <1>5, <2>4 DEF HandleFails
    <3> HIDE DEF e
    <3>2. /\ AsRefusal(e) = [status |-> e.grpc, typed |-> e.refusal]
          /\ e.grpc \in BusinessStatuses /\ e.refusal # None
      BY <2>4 DEF AsRefusal
    <3>3. AsRefusal(e) \in Told
      BY <2>3, <3>2 DEF Told, CodedErrors
    <3>4. e \notin Defects
      BY <3>2 DEF Defects
    <3>5. old.arm = "command"
      BY <1>1, <2>3, <3>4 DEF InputRecords
    <3>6. /\ refused.arm = old.arm /\ refused.stage = "refused"
          /\ refused.refusal = AsRefusal(e)
      OBVIOUS
    <3>7. refused \in InputRecords
      BY <3>3, <3>5 DEF InputRecords
    <3> HIDE DEF refused
    <3>8. StageOK(refused)
      BY <3>3, <3>5, <3>6, <3>7 DEF StageOK
    <3>9. QED
      BY <3>1, <3>8, ChangeKeeps
  <2>5. CASE AsRefusal(e) = None
    <3> DEFINE x == Failed(old, e)
    <3>1. inputs' = [inputs EXCEPT ![id] = x]
      BY <1>5, <2>5 DEF HandleFails
    <3> HIDE DEF e
    <3>2. StageOK(x)
      BY <1>1, FailedKeeps
    <3> HIDE DEF x
    <3>3. QED
      BY <3>1, <3>2, ChangeKeeps
  <2>6. QED
    BY <2>4, <2>5
<1>6. ASSUME NEW id \in DOMAIN inputs, NEW outcome, Translate(id, outcome)
      PROVE  PolicyInv'
  <2> DEFINE e == TranslateError(outcome)
  <2>1. inputs[id].stage = "refused"
    BY <1>6 DEF Translate
  <2>2. CASE e = None
    <3>1. Add([x \in {id, Append(id, "fact")} |->
                 IF x = id THEN [inputs[id] EXCEPT !.stage = "told"]
                 ELSE Sent("fact")])
      BY <1>6, <2>2 DEF Translate
    <3>2. QED
      BY <2>1, <3>1, TellKeeps
  <2>3. CASE e # None
    <3> DEFINE x == Failed(inputs[id], e)
    <3>1. inputs' = [inputs EXCEPT ![id] = x]
      BY <1>6, <2>3 DEF Translate
    <3> HIDE DEF e
    <3>2. StageOK(x)
      BY <1>1, FailedKeeps
    <3> HIDE DEF x
    <3>3. QED
      BY <3>1, <3>2, ChangeKeeps
  <2>4. QED
    BY <2>2, <2>3
<1>7. CASE UNCHANGED vars
  BY <1>2, <1>7 DEF vars
<1>8. QED
  BY <1>3, <1>4, <1>5, <1>6, <1>7 DEF Next, StepInput

LEMMA Invariant == Spec => []PolicyInv
BY InitPolicyInv, NextPolicyInv, PTL DEF Spec

(* However a target's errors are built, only a command's typed refusal is  *)
(* translated.                                                             *)
THEOREM OnlyRefusalsAreTranslated == Spec => []OnlyRefusedCommandsAreTranslated
<1>1. PolicyInv => OnlyRefusedCommandsAreTranslated
  BY DEF PolicyInv, StageOK, Told, OnlyRefusedCommandsAreTranslated
<1>2. QED
  BY <1>1, Invariant, PTL

=============================================================================
