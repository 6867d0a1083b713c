---------------------------- MODULE Orders_proofs ---------------------------
(***************************************************************************)
(* That a dispatch calling closures around closures is one of Handle's,    *)
(* running the steps of a flat list: for any business code that builds its *)
(* Emits with Emit::of and Emit::then, on a stream sent any inputs.        *)
(*                                                                         *)
(* And, of the tier's order aggregate, that business code sees what is     *)
(* recorded, that an item is restocked once, and that the idempotence      *)
(* helper foretells a decision.                                            *)
(***************************************************************************)
EXTENDS Orders, Rebuild_proofs, SequenceTheorems

(* The absent closure is none.                                             *)
NoneIsNoClosure ==
  /\ \A at, does : StepOf(at, does) # None
  /\ \A first, second : Composed(first, second) # None

(* The steps that do one of `deeds`.                                       *)
StepsOf(deeds) == {StepOf(at, does) : at \in H!Steps, does \in deeds}

-----------------------------------------------------------------------------
(* Closures.                                                               *)

(* chain[k] is the closure of the first k steps, as Emit::push makes it of *)
(* the one before and the k-th.                                            *)
IsChain(chain, steps) ==
  /\ steps # <<>> => chain[1] = steps[1]
  /\ \A k \in 2 .. Len(steps) : chain[k] = Composed(chain[k - 1], steps[k])

(* What `closure` is a closure of.                                         *)
Calls(closure, steps) ==
  IF steps = <<>> THEN closure = None
  ELSE \E chain : IsChain(chain, steps) /\ closure = chain[Len(steps)]

LEMMA StepsAreSteps ==
  ASSUME NEW deeds, NEW step \in StepsOf(deeds)
  PROVE  /\ step.kind = "step" /\ step.at \in H!Steps /\ step.does \in deeds
         /\ step = StepOf(step.at, step.does)
BY DEF StepsOf, StepOf

LEMMA StepsAreThere ==
  ASSUME NEW deeds, NEW at \in H!Steps, NEW does \in deeds
  PROVE  StepOf(at, does) \in StepsOf(deeds) /\ StepOf(at, does).at = at
<1>1. StepOf(at, does) \in StepsOf(deeds)
  BY DEF StepsOf
<1>2. StepOf(at, does).at = at
  BY DEF StepOf
<1>3. QED
  BY <1>1, <1>2

LEMMA ClosuresAreThere ==
  ASSUME NoneIsNoClosure, NEW deeds, NEW steps \in Seq(StepsOf(deeds)), NEW closure,
         Calls(closure, steps)
  PROVE  closure = None <=> steps = <<>>
<1>1. CASE steps = <<>>
  BY <1>1 DEF Calls
<1>2. CASE steps # <<>>
  <2>1. PICK chain : IsChain(chain, steps) /\ closure = chain[Len(steps)]
    BY <1>2 DEF Calls
  <2>2. Len(steps) \in Nat \ {0} /\ steps[1] \in StepsOf(deeds)
    BY <1>2
  <2>3. CASE Len(steps) = 1
    <3>1. closure = StepOf(steps[1].at, steps[1].does)
      BY <1>2, <2>1, <2>2, <2>3, StepsAreSteps DEF IsChain
    <3>2. QED
      BY <1>2, <3>1 DEF NoneIsNoClosure
  <2>4. CASE Len(steps) # 1
    <3>1. Len(steps) \in 2 .. Len(steps)
      <4> DEFINE n == Len(steps)
      <4>1. n \in Nat \ {0} /\ n # 1
        BY <2>2, <2>4
      <4> HIDE DEF n
      <4>2. n \in 2 .. n
        BY <4>1
      <4>3. QED
        BY <4>2 DEF n
    <3>2. closure = Composed(chain[Len(steps) - 1], steps[Len(steps)])
      BY <2>1, <3>1 DEF IsChain
    <3>3. QED
      BY <1>2, <3>2 DEF NoneIsNoClosure
  <2>5. QED
    BY <2>3, <2>4
<1>3. QED
  BY <1>1, <1>2

(* What is pushed runs last.                                               *)
LEMMA PushCalls ==
  ASSUME NoneIsNoClosure, NEW deeds, NEW steps \in Seq(StepsOf(deeds)),
         NEW step \in StepsOf(deeds), NEW e, Calls(e.next, steps)
  PROVE  /\ Calls(Push(e, step).next, Append(steps, step))
         /\ Push(e, step).events = e.events
<1> DEFINE n == Len(steps)
           more == Append(steps, step)
           pushed == Push(e, step).next
<1>1. /\ n \in Nat /\ Len(more) = n + 1
      /\ \A k \in 1 .. n : more[k] = steps[k]
      /\ more[n + 1] = step
  OBVIOUS
<1>2. more # <<>>
  BY <1>1
<1>3. /\ pushed = IF e.next = None THEN step ELSE Composed(e.next, step)
      /\ Push(e, step).events = e.events
  BY DEF Push
<1>4. e.next = None <=> steps = <<>>
  BY ClosuresAreThere
<1> HIDE DEF more, pushed
<1>5. \E chain : IsChain(chain, more) /\ pushed = chain[Len(more)]
  <2>1. CASE steps = <<>>
    <3> DEFINE chain == [k \in 1 .. 1 |-> step]
    <3>1. n = 0 /\ Len(more) = 1 /\ more[1] = step
      BY <1>1, <2>1
    <3>2. IsChain(chain, more) /\ pushed = chain[Len(more)]
      BY <1>3, <1>4, <2>1, <3>1 DEF IsChain
    <3> HIDE DEF chain
    <3>3. QED
      BY <3>2
  <2>2. CASE steps # <<>>
    <3>1. PICK old : IsChain(old, steps) /\ e.next = old[n]
      BY <2>2 DEF Calls
    <3> DEFINE chain == [k \in 1 .. n + 1 |-> IF k <= n THEN old[k] ELSE pushed]
    <3>2. n \in Nat \ {0}
      BY <2>2
    <3>3. /\ \A k \in 1 .. n : chain[k] = old[k]
          /\ chain[n + 1] = pushed
      BY <3>2
    <3>4. pushed = Composed(old[n], step)
      BY <1>3, <1>4, <2>2, <3>1
    <3> HIDE DEF chain
    <3>5. chain[1] = more[1]
      BY <1>1, <2>2, <3>1, <3>2, <3>3 DEF IsChain
    <3>6. ASSUME NEW k \in 2 .. Len(more)
          PROVE  chain[k] = Composed(chain[k - 1], more[k])
      <4>1. k - 1 \in 1 .. n
        BY <1>1
      <4>2. CASE k = n + 1
        BY <1>1, <3>2, <3>3, <3>4, <4>1, <4>2
      <4>3. CASE k \in 2 .. n
        <5>1. k \in 1 .. n /\ old[k] = Composed(old[k - 1], steps[k])
          BY <3>1, <4>3 DEF IsChain
        <5>2. QED
          BY <1>1, <3>3, <4>1, <5>1
      <4>4. QED
        BY <1>1, <4>2, <4>3
    <3>7. IsChain(chain, more) /\ pushed = chain[Len(more)]
      BY <1>1, <3>3, <3>5, <3>6 DEF IsChain
    <3>8. QED
      BY <3>7
  <2>3. QED
    BY <2>1, <2>2
<1>6. QED
  BY <1>2, <1>3, <1>5 DEF Calls, more, pushed

(* What is k closures deep in a closure of n steps is the closure of the   *)
(* first n - k.                                                            *)
IsNested(nested, closure) ==
  nested = [k \in Nat |->
              IF k = 0 THEN closure
              ELSE LET outer == nested[k - 1]
                   IN  IF outer.kind = "step" THEN outer ELSE outer.first]

LEMMA ChainKinds ==
  ASSUME NEW deeds, NEW steps \in Seq(StepsOf(deeds)), steps # <<>>,
         NEW chain, IsChain(chain, steps)
  PROVE  /\ chain[1] = steps[1] /\ chain[1].kind = "step"
         /\ \A k \in 2 .. Len(steps) :
              /\ chain[k].kind = "composed"
              /\ chain[k].first = chain[k - 1]
              /\ chain[k].second = steps[k]
<1>1. steps[1] \in StepsOf(deeds)
  OBVIOUS
<1>2. chain[1] = steps[1] /\ chain[1].kind = "step"
  BY <1>1, StepsAreSteps DEF IsChain
<1>3. \A k \in 2 .. Len(steps) : chain[k] = Composed(chain[k - 1], steps[k])
  BY DEF IsChain
<1>4. ASSUME NEW first, NEW second
      PROVE  /\ Composed(first, second).kind = "composed"
             /\ Composed(first, second).first = first
             /\ Composed(first, second).second = second
  BY DEF Composed
<1>5. ASSUME NEW k \in 2 .. Len(steps)
      PROVE  /\ chain[k].kind = "composed"
             /\ chain[k].first = chain[k - 1]
             /\ chain[k].second = steps[k]
  BY <1>3, <1>4
<1>6. QED
  BY <1>2, <1>5

LEMMA NestedOfChain ==
  ASSUME NEW deeds, NEW steps \in Seq(StepsOf(deeds)), steps # <<>>,
         NEW chain, IsChain(chain, steps)
  PROVE  \A k \in 0 .. Len(steps) - 1 :
           Nested(chain[Len(steps)])[k] = chain[Len(steps) - k]
<1> DEFINE n == Len(steps)
           closure == chain[n]
           witness == [k \in Nat |-> IF k < n THEN chain[n - k] ELSE chain[1]]
<1>1. n \in Nat \ {0}
  OBVIOUS
<1>2. /\ chain[1].kind = "step"
      /\ \A k \in 2 .. n : chain[k].kind = "composed" /\ chain[k].first = chain[k - 1]
  BY ChainKinds
<1> HIDE DEF n
<1>3. IsNested(witness, closure)
  <2> DEFINE g == witness
  <2>1. /\ \A k \in Nat : k < n => g[k] = chain[n - k]
        /\ \A k \in Nat : ~ (k < n) => g[k] = chain[1]
        /\ g[n - 1] = chain[1]
    <3>1. n - 1 \in Nat /\ n - 1 < n /\ n - (n - 1) = 1
      BY <1>1
    <3>2. QED
      BY <3>1
  <2>2. g = [k \in Nat |-> g[k]]
    OBVIOUS
  <2> HIDE DEF witness
  <2>3. ASSUME NEW k \in Nat
        PROVE  g[k] = IF k = 0 THEN closure
                      ELSE LET outer == g[k - 1]
                           IN  IF outer.kind = "step" THEN outer ELSE outer.first
    <3>1. CASE k = 0
      <4>1. g[0] = chain[n - 0] /\ n - 0 = n
        BY <1>1, <2>1
      <4>2. QED
        BY <3>1, <4>1
    <3>2. CASE k # 0 /\ k < n
      <4>1. g[k] = chain[n - k]
        BY <2>1, <3>2
      <4>2. k - 1 \in Nat /\ k - 1 < n
        BY <1>1, <3>2
      <4>3. g[k - 1] = chain[n - (k - 1)]
        BY <2>1, <4>2
      <4>4. n - (k - 1) \in 2 .. n /\ n - (k - 1) - 1 = n - k
        BY <1>1, <3>2
      <4>5. g[k - 1].kind = "composed" /\ g[k - 1].first = chain[n - k]
        BY <1>2, <4>3, <4>4
      <4>6. QED
        BY <3>2, <4>1, <4>5
    <3>3. CASE k # 0 /\ ~ (k < n)
      <4>1. g[k] = chain[1] /\ k - 1 \in Nat
        BY <2>1, <3>3
      <4>2. g[k - 1] = chain[1]
        <5>1. CASE k - 1 < n
          <6>1. k - 1 = n - 1
            BY <1>1, <3>3, <5>1
          <6>2. QED
            BY <2>1, <6>1
        <5>2. CASE ~ (k - 1 < n)
          BY <2>1, <4>1, <5>2
        <5>3. QED
          BY <5>1, <5>2
      <4>3. QED
        BY <1>2, <3>3, <4>1, <4>2
    <3>4. QED
      BY <3>1, <3>2, <3>3
  <2>4. QED
    BY <2>2, <2>3 DEF IsNested
<1> HIDE DEF witness, closure
<1> DEFINE nested == Nested(closure)
<1>4. IsNested(nested, closure)
  BY <1>3 DEF Nested, IsNested
<1> HIDE DEF nested
<1>5. /\ nested[0] = closure
      /\ \A k \in Nat : nested[k + 1] =
           IF nested[k].kind = "step" THEN nested[k] ELSE nested[k].first
  <2>1. \A k \in Nat : nested[k] =
          IF k = 0 THEN closure
          ELSE LET outer == nested[k - 1]
               IN  IF outer.kind = "step" THEN outer ELSE outer.first
    BY <1>4 DEF IsNested
  <2>2. ASSUME NEW k \in Nat
        PROVE  nested[k + 1] =
                 IF nested[k].kind = "step" THEN nested[k] ELSE nested[k].first
    <3>1. k + 1 \in Nat /\ k + 1 # 0 /\ k + 1 - 1 = k
      OBVIOUS
    <3>2. QED
      BY <2>1, <3>1
  <2>3. QED
    BY <2>1, <2>2
<1> DEFINE I == {k \in Nat : k <= n - 1 => nested[k] = chain[n - k]}
<1>6. 0 \in I
  BY <1>1, <1>5 DEF closure
<1>7. ASSUME NEW k \in Nat, k \in I
      PROVE  k + 1 \in I
  <2>1. SUFFICES ASSUME k + 1 <= n - 1
                 PROVE  nested[k + 1] = chain[n - (k + 1)]
    OBVIOUS
  <2>2. nested[k] = chain[n - k]
    BY <1>1, <1>7, <2>1
  <2>3. n - k \in 2 .. n /\ n - k - 1 = n - (k + 1)
    BY <1>1, <2>1
  <2>4. nested[k].kind = "composed" /\ nested[k].first = chain[n - (k + 1)]
    BY <1>2, <2>2, <2>3
  <2>5. QED
    BY <1>5, <2>4
<1>8. \A k \in Nat : k \in I
  <2> HIDE DEF I
  <2>1. QED
    BY <1>6, <1>7, SetInduction
<1>9. \A k \in 0 .. n - 1 : nested[k] = chain[n - k]
  BY <1>1, <1>8
<1>10. QED
  BY <1>9 DEF nested, closure, n

LEMMA DepthOfChain ==
  ASSUME NEW deeds, NEW steps \in Seq(StepsOf(deeds)), steps # <<>>,
         Len(steps) <= MaxSteps, NEW chain, IsChain(chain, steps)
  PROVE  Depth(chain[Len(steps)]) = Len(steps) - 1
<1> DEFINE n == Len(steps)
           nested == Nested(chain[n])
<1>1. n \in Nat \ {0} /\ MaxSteps \in Nat /\ n <= MaxSteps
  BY EmitAssumption
<1>2. \A k \in 0 .. n - 1 : nested[k] = chain[n - k]
  BY NestedOfChain
<1>3. /\ chain[1].kind = "step"
      /\ \A k \in 2 .. n : chain[k].kind = "composed"
  BY ChainKinds
<1> HIDE DEF n, nested
<1>4. nested[n - 1].kind = "step"
  <2>1. n - 1 \in 0 .. n - 1 /\ n - (n - 1) = 1
    BY <1>1
  <2>2. QED
    BY <1>2, <1>3, <2>1
<1>5. \A j \in 0 .. n - 2 : nested[j].kind = "composed"
  <2> TAKE j \in 0 .. n - 2
  <2>1. j \in 0 .. n - 1 /\ n - j \in 2 .. n
    BY <1>1
  <2>2. QED
    BY <1>2, <1>3, <2>1
<1> DEFINE IsDepth(k) == /\ nested[k].kind = "step"
                         /\ \A j \in 0 .. k - 1 : nested[j].kind = "composed"
<1>6. n - 1 \in 0 .. MaxSteps /\ IsDepth(n - 1)
  BY <1>1, <1>4, <1>5
<1>7. ASSUME NEW k \in 0 .. MaxSteps, IsDepth(k)
      PROVE  k = n - 1
  <2>1. CASE k < n - 1
    BY <1>1, <1>5, <1>7, <2>1
  <2>2. CASE k > n - 1
    <3>1. n - 1 \in 0 .. k - 1
      BY <1>1, <2>2
    <3>2. QED
      BY <1>4, <1>7, <3>1
  <2>3. QED
    BY <1>1, <2>1, <2>2
<1>8. Depth(chain[n]) = CHOOSE k \in 0 .. MaxSteps : IsDepth(k)
  BY DEF Depth, nested
<1> HIDE DEF IsDepth
<1>9. QED
  BY <1>6, <1>7, <1>8 DEF n

(* A closure's leaves are the steps it is a closure of.                    *)
LEMMA LeavesOfClosure ==
  ASSUME NoneIsNoClosure, NEW deeds, NEW steps \in Seq(StepsOf(deeds)),
         Len(steps) <= MaxSteps, NEW closure, Calls(closure, steps)
  PROVE  Leaves(closure) = steps
<1>1. closure = None <=> steps = <<>>
  BY ClosuresAreThere
<1>2. CASE steps = <<>>
  BY <1>1, <1>2 DEF Leaves
<1>3. CASE steps # <<>>
  <2> DEFINE n == Len(steps)
             nested == Nested(closure)
             leaves == [k \in 1 .. Depth(closure) + 1 |->
                          IF k = 1 THEN nested[Depth(closure)]
                          ELSE nested[Depth(closure) + 1 - k].second]
  <2>1. PICK chain : IsChain(chain, steps) /\ closure = chain[n]
    BY <1>3 DEF Calls
  <2>2. Leaves(closure) = leaves
    BY <1>1, <1>3 DEF Leaves
  <2>3. Depth(closure) = n - 1 /\ n \in Nat \ {0}
    BY <1>3, <2>1, DepthOfChain
  <2>4. \A k \in 0 .. n - 1 : nested[k] = chain[n - k]
    BY <1>3, <2>1, NestedOfChain
  <2>5. /\ chain[1] = steps[1]
        /\ \A k \in 2 .. n : chain[k].second = steps[k]
    BY <1>3, <2>1, ChainKinds
  <2>6. leaves = [k \in 1 .. n |-> IF k = 1 THEN nested[n - 1] ELSE nested[n - k].second]
    BY <2>3
  <2>7. steps = [k \in 1 .. n |-> steps[k]]
    OBVIOUS
  <2> HIDE DEF n, nested, leaves
  <2>8. ASSUME NEW k \in 1 .. n
        PROVE  (IF k = 1 THEN nested[n - 1] ELSE nested[n - k].second) = steps[k]
    <3>1. CASE k = 1
      <4>1. n - 1 \in 0 .. n - 1 /\ n - (n - 1) = 1
        BY <2>3
      <4>2. QED
        BY <2>4, <2>5, <3>1, <4>1
    <3>2. CASE k # 1
      <4>1. n - k \in 0 .. n - 1 /\ n - (n - k) = k /\ k \in 2 .. n
        BY <2>3, <3>2
      <4>2. QED
        BY <2>4, <2>5, <3>2, <4>1
    <3>3. QED
      BY <3>1, <3>2
  <2>9. QED
    BY <2>2, <2>6, <2>7, <2>8
<1>4. QED
  BY <1>2, <1>3

-----------------------------------------------------------------------------
(* Calling a closure.                                                      *)

(* What a closure around the one that came to `outcome` comes to.          *)
CalledAround(outcome, second) ==
  IF outcome.failure # None THEN outcome
  ELSE [emit |-> Push(outcome.emit, second), added |-> outcome.added,
        failure |-> None]

IsCalled(called, n, closure, depth, r, s) ==
  called = [k \in 0 .. n |->
              IF k = 0 THEN Does(Nested(closure)[depth], r, s)
              ELSE CalledAround(called[k - 1], Nested(closure)[depth - k].second)]

(* The recursive definition of CallClosure defines what it says.           *)
LEMMA CallClosureIs ==
  ASSUME NEW closure, NEW r, NEW s, Depth(closure) \in Nat
  PROVE  \E called :
           /\ IsCalled(called, Depth(closure), closure, Depth(closure), r, s)
           /\ CallClosure(closure, r, s) = called[Depth(closure)]
<1> DEFINE depth == Depth(closure)
           second(k) == Nested(closure)[depth - k].second
           Is(h, n) == IsCalled(h, n, closure, depth, r, s)
           S == {n \in Nat : \E h : Is(h, n)}
<1>1. 0 \in S
  <2>1. Is([k \in 0 .. 0 |-> Does(Nested(closure)[depth], r, s)], 0)
    BY DEF IsCalled
  <2> HIDE DEF Is
  <2>2. QED
    BY <2>1
<1>2. ASSUME NEW n \in Nat, n \in S
      PROVE  n + 1 \in S
  <2>1. PICK h : Is(h, n)
    BY <1>2
  <2> DEFINE g == [k \in 0 .. n + 1 |->
                     IF k = n + 1 THEN CalledAround(h[n], second(n + 1)) ELSE h[k]]
  <2>2. \A k \in 0 .. n : g[k] = h[k]
    OBVIOUS
  <2>3. \A k \in 0 .. n : h[k] =
          IF k = 0 THEN Does(Nested(closure)[depth], r, s)
          ELSE CalledAround(h[k - 1], second(k))
    BY <2>1 DEF IsCalled
  <2> HIDE DEF second
  <2>4. \A k \in 0 .. n + 1 : g[k] =
          IF k = 0 THEN Does(Nested(closure)[depth], r, s)
          ELSE CalledAround(g[k - 1], second(k))
    <3> SUFFICES ASSUME NEW k \in 0 .. n + 1
                 PROVE  g[k] = IF k = 0 THEN Does(Nested(closure)[depth], r, s)
                               ELSE CalledAround(g[k - 1], second(k))
      OBVIOUS
    <3>1. CASE k = n + 1
      <4>1. g[k - 1] = h[n] /\ k # 0
        BY <2>2, <3>1
      <4>2. g[k] = CalledAround(h[n], second(n + 1))
        BY <3>1
      <4> HIDE DEF g
      <4>3. QED
        BY <3>1, <4>1, <4>2
    <3>2. CASE k \in 0 .. n
      <4>1. g[k] = h[k] /\ (k # 0 => g[k - 1] = h[k - 1])
        BY <2>2, <3>2
      <4> HIDE DEF g
      <4>2. QED
        BY <2>3, <3>2, <4>1
    <3>3. QED
      BY <3>1, <3>2
  <2>5. g = [k \in 0 .. n + 1 |-> g[k]]
    OBVIOUS
  <2> HIDE DEF g
  <2>6. g = [k \in 0 .. n + 1 |->
               IF k = 0 THEN Does(Nested(closure)[depth], r, s)
               ELSE CalledAround(g[k - 1], second(k))]
    BY <2>4, <2>5
  <2>7. Is(g, n + 1)
    BY <2>6 DEF IsCalled, second
  <2>8. QED
    <3> HIDE DEF Is
    <3>1. QED
      BY <2>7
<1>3. depth \in S
  <2> HIDE DEF S
  <2>1. QED
    BY <1>1, <1>2, SetInduction
<1>4. \E h : Is(h, depth)
  BY <1>3
<1>5. QED
  BY <1>4 DEF CallClosure, IsCalled, CalledAround

(* Calling a closure calls its first step: what that fails with, or what   *)
(* it emits, and its own continuations before the steps that were left.    *)
LEMMA CallOfClosure ==
  ASSUME NoneIsNoClosure, NEW deeds, NEW steps \in Seq(StepsOf(deeds)), steps # <<>>,
         Len(steps) <= MaxSteps, NEW closure, Calls(closure, steps), NEW r, NEW s,
         NEW outcome, outcome = Does(steps[1], r, s)
  PROVE  LET called == CallClosure(closure, r, s)
         IN  /\ outcome.failure # None => called = outcome
             /\ \A added \in Seq(StepsOf(deeds)) :
                  outcome.failure = None /\ Calls(outcome.emit.next, added) =>
                    /\ called.failure = None
                    /\ called.added = outcome.added
                    /\ called.emit.events = outcome.emit.events
                    /\ Calls(called.emit.next, added \o Tail(steps))
<1> DEFINE n == Len(steps)
           nested == Nested(closure)
<1>1. PICK chain : IsChain(chain, steps) /\ closure = chain[n]
  BY DEF Calls
<1>2. Depth(closure) = n - 1 /\ n \in Nat \ {0} /\ n - 1 \in Nat
  BY <1>1, DepthOfChain
<1>3. \A k \in 0 .. n - 1 : nested[k] = chain[n - k]
  BY <1>1, NestedOfChain
<1>4. /\ chain[1] = steps[1]
      /\ \A k \in 2 .. n : chain[k].second = steps[k]
  BY <1>1, ChainKinds
<1>5. PICK called : /\ IsCalled(called, n - 1, closure, n - 1, r, s)
                    /\ CallClosure(closure, r, s) = called[n - 1]
  BY <1>2, CallClosureIs
<1> HIDE DEF n, nested
<1>6. called[0] = outcome
  <2>1. called[0] = Does(nested[n - 1], r, s)
    BY <1>2, <1>5 DEF IsCalled, nested
  <2>2. n - 1 \in 0 .. n - 1 /\ n - (n - 1) = 1
    BY <1>2
  <2>3. nested[n - 1] = steps[1]
    BY <1>3, <1>4, <2>2
  <2>4. QED
    BY <2>1, <2>3
<1>7. ASSUME NEW k \in Nat, k + 1 <= n - 1
      PROVE  called[k + 1] = CalledAround(called[k], steps[k + 2])
  <2>1. k + 1 \in 0 .. n - 1 /\ k + 1 # 0 /\ k + 1 - 1 = k
    BY <1>2, <1>7
  <2>2. called[k + 1] = CalledAround(called[k], nested[n - 1 - (k + 1)].second)
    <3>1. \A j \in 0 .. n - 1 : called[j] =
            IF j = 0 THEN Does(nested[n - 1], r, s)
            ELSE CalledAround(called[j - 1], nested[n - 1 - j].second)
      BY <1>5 DEF IsCalled, nested
    <3> DEFINE j == k + 1
    <3>2. j \in 0 .. n - 1 /\ j # 0 /\ j - 1 = k
      BY <2>1
    <3> HIDE DEF j
    <3>3. called[j] = CalledAround(called[k], nested[n - 1 - j].second)
      BY <3>1, <3>2
    <3>4. QED
      BY <3>3 DEF j
  <2>3. n - 1 - (k + 1) \in 0 .. n - 1 /\ n - (n - 1 - (k + 1)) = k + 2 /\ k + 2 \in 2 .. n
    BY <1>2, <1>7
  <2>4. nested[n - 1 - (k + 1)] = chain[k + 2]
    BY <1>3, <2>3
  <2>5. QED
    BY <1>4, <2>1, <2>2, <2>3, <2>4
<1>8. ASSUME outcome.failure # None
      PROVE  called[n - 1] = outcome
  <2> DEFINE I == {k \in Nat : k <= n - 1 => called[k] = outcome}
  <2>1. 0 \in I
    BY <1>6
  <2>2. ASSUME NEW k \in Nat, k \in I
        PROVE  k + 1 \in I
    <3>1. SUFFICES ASSUME k + 1 <= n - 1
                   PROVE  called[k + 1] = outcome
      OBVIOUS
    <3>2. called[k] = outcome
      BY <1>2, <2>2, <3>1
    <3>3. QED
      BY <1>7, <1>8, <3>1, <3>2 DEF CalledAround
  <2>3. \A k \in Nat : k \in I
    <3> HIDE DEF I
    <3>1. QED
      BY <2>1, <2>2, SetInduction
  <2>4. QED
    BY <1>2, <2>3
<1>9. ASSUME NEW added \in Seq(StepsOf(deeds)), outcome.failure = None,
             Calls(outcome.emit.next, added)
      PROVE  /\ called[n - 1].failure = None
             /\ called[n - 1].added = outcome.added
             /\ called[n - 1].emit.events = outcome.emit.events
             /\ Calls(called[n - 1].emit.next, added \o Tail(steps))
  <2> DEFINE left(k) == added \o SubSeq(steps, 2, k + 1)
             At(k) == /\ called[k].failure = None
                      /\ called[k].added = outcome.added
                      /\ called[k].emit.events = outcome.emit.events
                      /\ Calls(called[k].emit.next, left(k))
             I == {k \in Nat : k <= n - 1 => At(k)}
  <2>1. 0 \in I
    <3>1. SubSeq(steps, 2, 0 + 1) = <<>> /\ added \o <<>> = added
      BY ConcatEmptySeq
    <3>2. QED
      BY <1>6, <1>9, <3>1
  <2>2. ASSUME NEW k \in Nat, k \in I
        PROVE  k + 1 \in I
    <3>1. SUFFICES ASSUME k + 1 <= n - 1
                   PROVE  At(k + 1)
      OBVIOUS
    <3>2. At(k)
      BY <1>2, <2>2, <3>1
    <3> DEFINE step == steps[k + 2]
               e == called[k].emit
    <3>3. /\ step \in StepsOf(deeds)
          /\ SubSeq(steps, 2, k + 1) \in Seq(StepsOf(deeds))
          /\ SubSeq(steps, 2, k + 2) = Append(SubSeq(steps, 2, k + 1), step)
      <4>1. k + 2 \in 2 .. n
        BY <1>2, <3>1
      <4>2. k + 2 \in 1 .. Len(steps) /\ 2 \in 1 .. Len(steps)
        BY <4>1 DEF n
      <4>3. step \in StepsOf(deeds)
        BY <4>2
      <4>4. QED
        BY <4>1, <4>2, <4>3 DEF n
    <3>4. left(k) \in Seq(StepsOf(deeds))
      BY <3>3, ConcatProperties
    <3>5. left(k + 1) = Append(left(k), step)
      <4>1. k + 1 + 1 = k + 2
        OBVIOUS
      <4> DEFINE some == SubSeq(steps, 2, k + 1)
      <4>2. some \in Seq(StepsOf(deeds)) /\ SubSeq(steps, 2, k + 1 + 1) = Append(some, step)
        BY <3>3, <4>1
      <4> HIDE DEF some, step
      <4>3. added \o Append(some, step) = Append(added \o some, step)
        BY <3>3, <4>2
      <4>4. QED
        BY <4>2, <4>3 DEF some
    <3>6. called[k + 1] = [emit |-> Push(e, step), added |-> called[k].added,
                           failure |-> None]
      BY <1>7, <3>1, <3>2 DEF CalledAround
    <3>7. /\ called[k + 1].failure = None
          /\ called[k + 1].added = outcome.added
          /\ called[k + 1].emit = Push(e, step)
      BY <3>2, <3>6
    <3> HIDE DEF left, step
    <3>8. /\ Calls(Push(e, step).next, Append(left(k), step))
          /\ Push(e, step).events = e.events
      BY <3>2, <3>3, <3>4, PushCalls
    <3>9. QED
      BY <3>2, <3>5, <3>7, <3>8
  <2>3. \A k \in Nat : k \in I
    <3> HIDE DEF I
    <3>1. QED
      BY <2>1, <2>2, SetInduction
  <2>4. At(n - 1)
    <3> HIDE DEF At
    <3>1. QED
      BY <1>2, <2>3
  <2>5. left(n - 1) = added \o Tail(steps)
    <3>1. n - 1 + 1 = n /\ Tail(steps) = SubSeq(steps, 2, Len(steps))
      BY <1>2
    <3>2. QED
      BY <3>1 DEF n
  <2>6. QED
    BY <2>4, <2>5
<1>10. QED
  BY <1>5, <1>8, <1>9

-----------------------------------------------------------------------------
(* Business code.                                                          *)

(* What a step at `at` comes to: a failure, or what Emit::of makes of some *)
(* events and Emit::then, n times, continues.                              *)
Built(deeds, at, outcome) ==
  \/ \E failure \in Failures : outcome = Fails(failure)
  \/ \E events \in Emissions, n \in 0 .. MaxSteps :
       \E does \in [1 .. n -> deeds] : \E e :
         /\ e[0] = Of(events)
         /\ \A k \in 1 .. n : e[k] = Then(e[k - 1], at, does[k])
         /\ outcome = Emits(e[n])

(* A request made of an input the stream is sent.                          *)
IsRequest(r) ==
  \E i \in Inputs : r.arm = i.arm /\ r.type = i.type /\ r.item = i.item

(* The business code does `deeds` and no others, and has no other way than *)
(* Emit::of and Emit::then to make an Emit.                                *)
BuildsByThen(deeds) ==
  /\ \A b \in Behaviours : <<"handle", b>> \in deeds
  /\ \A at \in H!Steps, does \in deeds : \A r, s :
       IsRequest(r) => Built(deeds, at, Does(StepOf(at, does), r, s))

(* The places of `steps`.                                                  *)
PlacesIn(steps) == [k \in 1 .. Len(steps) |-> steps[k].at]

(* An outcome that continues with `added`, at the places Handle names.     *)
Adds(deeds, at, outcome, added) ==
  /\ outcome.failure = None
  /\ outcome.emit.events \in Emissions
  /\ added \in Seq(StepsOf(deeds))
  /\ Calls(outcome.emit.next, added)
  /\ outcome.added = Len(added) /\ Len(added) <= MaxSteps
  /\ \A k \in 1 .. Len(added) : added[k].at = Append(at, k)

(* Business code fails, or continues with the steps it was given.          *)
LEMMA BuiltCalls ==
  ASSUME NoneIsNoClosure, NEW deeds, NEW at \in H!Steps, NEW outcome,
         Built(deeds, at, outcome)
  PROVE  \/ outcome.failure \in Failures /\ outcome.failure # None /\ outcome.added = 0
         \/ \E added : Adds(deeds, at, outcome, added)
<1>1. CASE \E failure \in Failures : outcome = Fails(failure)
  <2>1. PICK failure \in Failures : outcome = Fails(failure)
    BY <1>1
  <2>2. outcome.failure = failure /\ outcome.added = 0
    BY <2>1 DEF Fails
  <2>3. QED
    BY <2>2, EmitAssumption
<1>2. ASSUME NEW events \in Emissions, NEW n \in 0 .. MaxSteps,
             NEW does \in [1 .. n -> deeds], NEW e, e[0] = Of(events),
             \A k \in 1 .. n : e[k] = Then(e[k - 1], at, does[k]),
             outcome = Emits(e[n])
      PROVE  \E added : Adds(deeds, at, outcome, added)
  <2> DEFINE Has(k, t) == /\ t \in Seq(StepsOf(deeds)) /\ Len(t) = k
                          /\ Calls(e[k].next, t)
                          /\ \A j \in 1 .. k : t[j].at = Append(at, j)
             I == {k \in Nat : k <= n => e[k].events = events /\ \E t : Has(k, t)}
  <2>1. n \in Nat /\ MaxSteps \in Nat /\ n <= MaxSteps
    BY EmitAssumption
  <2>2. 0 \in I
    <3>1. e[0].events = events /\ e[0].next = None
      BY <1>2 DEF Of
    <3>2. <<>> \in Seq(StepsOf(deeds)) /\ Len(<<>>) = 0
      OBVIOUS
    <3>3. Calls(e[0].next, <<>>)
      BY <3>1 DEF Calls
    <3>4. Has(0, <<>>)
      BY <3>2, <3>3
    <3> HIDE DEF Has
    <3>5. QED
      BY <3>1, <3>4
  <2>3. ASSUME NEW k \in Nat, k \in I
        PROVE  k + 1 \in I
    <3>1. SUFFICES ASSUME k + 1 <= n
                   PROVE  e[k + 1].events = events /\ \E t : Has(k + 1, t)
      OBVIOUS
    <3>2. e[k].events = events /\ \E t : Has(k, t)
      <4> HIDE DEF Has
      <4>1. QED
        BY <2>1, <2>3, <3>1
    <3>3. PICK t : Has(k, t)
      BY <3>2
    <3> DEFINE more == k + 1
               step == StepOf(Append(at, more), does[more])
    <3>4. more \in 1 .. n /\ more - 1 = k /\ more \in Nat \ {0} /\ k <= MaxSteps
      BY <2>1, <3>1
    <3>5. e[more] = Then(e[k], at, does[more])
      <4> HIDE DEF more
      <4>1. QED
        BY <1>2, <3>4
    <3>6. Leaves(e[k].next) = t
      BY <3>3, <3>4, LeavesOfClosure
    <3>7. e[more] = Push(e[k], step)
      BY <3>3, <3>5, <3>6 DEF Then
    <3>8. step \in StepsOf(deeds) /\ step.at = Append(at, more)
      <4>1. Append(at, more) \in H!Steps
        BY <3>4 DEF H!Steps
      <4>2. does[more] \in deeds
        BY <3>4
      <4> HIDE DEF more
      <4>3. QED
        BY <4>1, <4>2, StepsAreThere
    <3> HIDE DEF step
    <3>9. Calls(e[more].next, Append(t, step)) /\ e[more].events = e[k].events
      BY <3>3, <3>7, <3>8, PushCalls
    <3>10. /\ Append(t, step) \in Seq(StepsOf(deeds)) /\ Len(Append(t, step)) = more
           /\ \A j \in 1 .. more : Append(t, step)[j].at = Append(at, j)
      BY <3>3, <3>8
    <3>11. Has(more, Append(t, step))
      BY <3>9, <3>10
    <3> HIDE DEF Has
    <3>12. QED
      BY <3>2, <3>9, <3>11
  <2>4. \A k \in Nat : k \in I
    <3> HIDE DEF I
    <3>1. QED
      BY <2>2, <2>3, SetInduction
  <2>5. e[n].events = events /\ \E t : Has(n, t)
    <3> HIDE DEF Has
    <3>1. QED
      BY <2>1, <2>4
  <2>6. PICK t : Has(n, t)
    BY <2>5
  <2>7. /\ outcome.failure = None /\ outcome.emit = e[n]
        /\ outcome.added = Len(Leaves(e[n].next))
    BY <1>2 DEF Emits
  <2>8. Leaves(e[n].next) = t
    BY <2>1, <2>6, LeavesOfClosure
  <2>9. Adds(deeds, at, outcome, t)
    BY <2>1, <2>5, <2>6, <2>7, <2>8 DEF Adds
  <2>10. QED
    BY <2>9
<1>3. QED
  BY <1>1, <1>2 DEF Built

-----------------------------------------------------------------------------
(* The closure a dispatch keeps and the steps Handle has pending.          *)

(* A dispatch keeps a closure of a few steps, and has one to call.         *)
Waits(deeds, closure, place) ==
  \E steps \in Seq(StepsOf(deeds)) :
    /\ Len(steps) <= MaxSteps
    /\ Calls(closure, steps)
    /\ place = "call" => steps # <<>>

(* What Handle has pending.                                                *)
Pending == [d \in Dispatches |-> PlacesOf(next[d])]

LEMMA PlacesOfClosure ==
  ASSUME NoneIsNoClosure, NEW deeds, NEW steps \in Seq(StepsOf(deeds)),
         Len(steps) <= MaxSteps, NEW closure, Calls(closure, steps)
  PROVE  PlacesOf(closure) = PlacesIn(steps)
BY LeavesOfClosure DEF PlacesOf, PlacesIn

(* Taking the places of the steps left is Handle's Continue.               *)
LEMMA PlacesContinue ==
  ASSUME NEW deeds, NEW steps \in Seq(StepsOf(deeds)), steps # <<>>,
         NEW added \in Seq(StepsOf(deeds)), NEW at, steps[1].at = at,
         \A k \in 1 .. Len(added) : added[k].at = Append(at, k)
  PROVE  /\ Head(PlacesIn(steps)) = at
         /\ PlacesIn(added \o Tail(steps)) =
              H!Continue(PlacesIn(steps), H!Continuations(at, Len(added)))
         /\ added \o Tail(steps) \in Seq(StepsOf(deeds))
         /\ Len(added \o Tail(steps)) = Len(added) + Len(steps) - 1
<1> DEFINE n == Len(steps)
           m == Len(added)
           left == Tail(steps)
           both == added \o left
           held == PlacesIn(steps)
           more == H!Continuations(at, m)
<1>1. n \in Nat \ {0} /\ m \in Nat
  OBVIOUS
<1>2. /\ left \in Seq(StepsOf(deeds)) /\ Len(left) = n - 1
      /\ \A k \in 1 .. n - 1 : left[k] = steps[k + 1]
  OBVIOUS
<1>3. /\ both \in Seq(StepsOf(deeds)) /\ Len(both) = m + Len(left)
      /\ \A k \in 1 .. m + Len(left) :
           both[k] = IF k <= m THEN added[k] ELSE left[k - m]
  <2> HIDE DEF left
  <2>1. QED
    BY <1>2, ConcatProperties
<1>4. /\ \A k \in 1 .. n : steps[k].at \in H!Steps
      /\ \A k \in 1 .. m : added[k].at \in H!Steps
  BY StepsAreSteps
<1>5. /\ held \in Seq(H!Steps) /\ Len(held) = n
      /\ \A k \in 1 .. n : held[k] = steps[k].at
  BY <1>4 DEF PlacesIn
<1>6. /\ more \in Seq(H!Steps) /\ Len(more) = m
      /\ \A k \in 1 .. m : more[k] = added[k].at
  <2>1. more = [k \in 1 .. m |-> Append(at, k)]
    BY DEF H!Continuations
  <2>2. more = [k \in 1 .. m |-> added[k].at]
    BY <2>1
  <2> HIDE DEF more
  <2>3. QED
    BY <1>4, <2>2
<1> DEFINE rest == Tail(held)
<1>7. /\ rest \in Seq(H!Steps) /\ Len(rest) = n - 1
      /\ \A k \in 1 .. n - 1 : rest[k] = held[k + 1]
  <2> HIDE DEF held
  <2>1. QED
    BY <1>1, <1>5
<1> DEFINE all == more \o rest
<1>8. /\ all \in Seq(H!Steps) /\ Len(all) = m + Len(rest)
      /\ \A k \in 1 .. m + Len(rest) :
           all[k] = IF k <= m THEN more[k] ELSE rest[k - m]
  <2> DEFINE S == H!Steps
  <2>1. more \in Seq(S)
    BY <1>6
  <2>2. rest \in Seq(S)
    BY <1>7
  <2> HIDE DEF more, rest, S, all, m, n, held, both, left
  <2>3. /\ more \o rest \in Seq(S) /\ Len(more \o rest) = Len(more) + Len(rest)
        /\ \A k \in 1 .. Len(more) + Len(rest) :
             (more \o rest)[k] = IF k <= Len(more) THEN more[k] ELSE rest[k - Len(more)]
    BY ONLY <2>1, <2>2, ConcatProperties
  <2>4. QED
    BY <1>6, <2>3 DEF S, all
<1>9. all = [k \in 1 .. m + n - 1 |-> all[k]]
  <2> HIDE DEF all
  <2>1. Len(all) = m + n - 1
    <3> HIDE DEF n, m, rest
    <3>1. QED
      BY <1>1, <1>7, <1>8
  <2>2. QED
    BY <1>8, <2>1
<1>10. PlacesIn(both) = [k \in 1 .. m + n - 1 |-> both[k].at]
  <2>1. Len(both) = m + n - 1
    <3> HIDE DEF n, m, left, both
    <3>1. QED
      BY <1>1, <1>2, <1>3
  <2>2. QED
    BY <2>1 DEF PlacesIn
<1>11. ASSUME NEW k \in 1 .. m + n - 1
       PROVE  both[k].at = all[k]
  <2> HIDE DEF n, m, left, both, held, more, rest, all
  <2>1. CASE k <= m
    <3>1. k \in 1 .. m /\ k \in 1 .. m + Len(left) /\ k \in 1 .. m + Len(rest)
      BY <1>1, <1>2, <1>7, <2>1
    <3>2. QED
      BY <1>3, <1>6, <1>8, <2>1, <3>1
  <2>2. CASE ~ (k <= m)
    <3>1. /\ k - m \in 1 .. n - 1 /\ k - m + 1 \in 1 .. n
          /\ k \in 1 .. m + Len(left) /\ k \in 1 .. m + Len(rest)
      BY <1>1, <1>2, <1>7, <2>2
    <3>2. both[k] = steps[k - m + 1]
      BY <1>2, <1>3, <2>2, <3>1
    <3>3. all[k] = held[k - m + 1]
      BY <1>7, <1>8, <2>2, <3>1
    <3>4. QED
      BY <1>5, <3>1, <3>2, <3>3
  <2>3. QED
    BY <2>1, <2>2
<1>12. PlacesIn(both) = all
  <2> HIDE DEF n, m, both, all
  <2>1. QED
    BY <1>9, <1>10, <1>11
<1>13. Head(held) = at
  <2>1. held[1] = at
    BY <1>1, <1>5
  <2> HIDE DEF held
  <2>2. QED
    BY <1>1, <1>5, <2>1
<1>14. all = H!Continue(held, more)
  BY DEF H!Continue
<1>15. Len(both) = m + n - 1
  <2> HIDE DEF n, m, left, both
  <2>1. QED
    BY <1>1, <1>2, <1>3
<1>16. QED
  <2> HIDE DEF all
  <2>1. QED
    BY <1>3, <1>12, <1>13, <1>14, <1>15

(* Pending' where only d's closure changes.                                *)
LEMMA PendingOfOne ==
  ASSUME NEW d \in Dispatches, NEW closure, next = [c \in Dispatches |-> next[c]],
         next' = [next EXCEPT ![d] = closure]
  PROVE  /\ next' = [c \in Dispatches |-> next'[c]]
         /\ next'[d] = closure
         /\ \A c \in Dispatches \ {d} : next'[c] = next[c]
         /\ Pending[d] = PlacesOf(next[d])
         /\ Pending' = [Pending EXCEPT ![d] = PlacesOf(closure)]
<1>1. /\ next' = [c \in Dispatches |-> next'[c]]
      /\ next'[d] = closure
      /\ \A c \in Dispatches \ {d} : next'[c] = next[c]
  OBVIOUS
<1>2. Pending = [c \in Dispatches |-> PlacesOf(next[c])]
  BY DEF Pending
<1>3. Pending' = [c \in Dispatches |-> PlacesOf(next'[c])]
  BY DEF Pending
<1>4. QED
  BY <1>1, <1>2, <1>3

(* Handle's errors are those of Emit.                                      *)
LEMMA SameErrors ==
  ASSUME NEW failure
  PROVE  CallHandler(failure) = H!CallHandler(failure)
<1>1. Unhandled = H!Unhandled /\ Panicked = H!Panicked
  BY DEF Unhandled, H!Unhandled, Panicked, H!Panicked, Bug, H!Bug, Keyed, H!Keyed,
         Coded, H!Coded, Surface, H!Surface
<1>2. QED
  BY <1>1, Zenon DEF CallHandler, H!CallHandler

(* A call of the closure is one of Handle's, and leaves a closure.         *)
LEMMA CallNextIsCall ==
  ASSUME NoneIsNoClosure, NEW deeds, BuildsByThen(deeds), NEW d \in Dispatches,
         next = [c \in Dispatches |-> next[c]], Waits(deeds, next[d], pc[d]),
         IsRequest(req[d]), Len(ran[d]) \in Nat, CallNext(d)
  PROVE  /\ H!Call(d)
         /\ \E closure : /\ next' = [next EXCEPT ![d] = closure]
                         /\ Waits(deeds, closure, "fold")
         /\ \/ UNCHANGED emit /\ \E e : H!AnswerError(d, e)
            \/ /\ \E events \in Emissions : emit' = [emit EXCEPT ![d] = events]
               /\ H!Goto(d, "fold") /\ UNCHANGED answer
<1> DEFINE outcome == CallClosure(next[d], req[d], state[d])
           failed == H!DecideError(req[d], CallHandler(outcome.failure))
           entry == H!Ran(Head(Leaves(next[d])).at, outcome.added)
<1>1. /\ pc[d] = "call"
      /\ ran' = [ran EXCEPT ![d] = Append(@, entry)]
      /\ UNCHANGED <<req, state, answered>>
      /\ IF outcome.failure # None
         THEN H!AnswerError(d, failed) /\ UNCHANGED <<emit, next>>
         ELSE /\ Len(ran[d]) + Len(Leaves(next[d])) + outcome.added <= MaxSteps
              /\ emit' = [emit EXCEPT ![d] = outcome.emit.events]
              /\ next' = [next EXCEPT ![d] = outcome.emit.next]
              /\ H!Goto(d, "fold")
              /\ UNCHANGED answer
  BY DEF CallNext
<1>2. PICK steps \in Seq(StepsOf(deeds)) :
        Len(steps) <= MaxSteps /\ Calls(next[d], steps) /\ steps # <<>>
  BY <1>1 DEF Waits
<1> DEFINE at == steps[1].at
           inner == Does(steps[1], req[d], state[d])
<1>3. steps[1] \in StepsOf(deeds)
  BY <1>2
<1>4. /\ at \in H!Steps /\ steps[1].does \in deeds
      /\ steps[1] = StepOf(at, steps[1].does)
  BY <1>3, StepsAreSteps
<1>5. Built(deeds, at, inner)
  BY <1>4 DEF BuildsByThen
<1>6. Leaves(next[d]) = steps /\ PlacesOf(next[d]) = PlacesIn(steps)
  BY <1>2, LeavesOfClosure, PlacesOfClosure
<1>7. Head(Leaves(next[d])).at = at
  BY <1>2, <1>6
<1>8. steps[1].at = at
  OBVIOUS
<1> HIDE DEF outcome, inner, at, failed, entry
<1>9. /\ inner.failure # None => outcome = inner
      /\ \A added \in Seq(StepsOf(deeds)) :
           inner.failure = None /\ Calls(inner.emit.next, added) =>
             /\ outcome.failure = None
             /\ outcome.added = inner.added
             /\ outcome.emit.events = inner.emit.events
             /\ Calls(outcome.emit.next, added \o Tail(steps))
  BY <1>2, CallOfClosure DEF outcome, inner
<1>10. CASE inner.failure \in Failures /\ inner.failure # None /\ inner.added = 0
  <2>1. outcome.failure \in Failures /\ outcome.failure # None /\ outcome.added = 0
    BY <1>9, <1>10
  <2>2. H!AnswerError(d, failed) /\ UNCHANGED <<emit, next>>
    BY <1>1, <2>1
  <2>3. Pending' = Pending /\ Pending[d] = PlacesIn(steps) /\ Head(Pending[d]) = at
    <3>1. Pending' = Pending
      BY <2>2 DEF Pending
    <3>2. Pending[d] = PlacesIn(steps)
      BY <1>6 DEF Pending
    <3>3. Head(PlacesIn(steps)) = at
      <4>1. PlacesIn(steps) # <<>> /\ PlacesIn(steps)[1] = at
        BY <1>2 DEF PlacesIn, at
      <4>2. PlacesIn(steps) \in Seq(H!Steps)
        BY StepsAreSteps DEF PlacesIn
      <4>3. QED
        BY <4>1, <4>2
    <3>4. QED
      BY <3>1, <3>2, <3>3
  <2>4. entry = H!Ran(Head(Pending[d]), 0)
    BY <1>7, <2>1, <2>3 DEF entry
  <2>5. H!CallFails(d, outcome.failure)
    <3>1. ran' = [ran EXCEPT ![d] = Append(@, H!Ran(Head(Pending[d]), 0))]
      BY <1>1, <2>4
    <3>2. H!AnswerError(d, H!DecideError(req[d], CallHandler(outcome.failure)))
      BY <2>2 DEF failed
    <3>3. UNCHANGED <<req, state, emit, answered>> /\ Pending' = Pending
      BY <1>1, <2>2, <2>3
    <3>4. CallHandler(outcome.failure) = H!CallHandler(outcome.failure)
      BY SameErrors
    <3>5. QED
      BY <1>1, <3>1, <3>2, <3>3, <3>4 DEF H!CallFails, Pending
  <2>6. H!Call(d)
    BY <2>1, <2>5 DEF H!Call
  <2>7. next' = [next EXCEPT ![d] = next[d]] /\ Waits(deeds, next[d], "fold")
    BY <1>2, <2>2 DEF Waits
  <2>8. QED
    BY <2>2, <2>6, <2>7
<1>11. ASSUME NEW added, Adds(deeds, at, inner, added)
       PROVE  /\ H!Call(d)
              /\ \E closure : /\ next' = [next EXCEPT ![d] = closure]
                              /\ Waits(deeds, closure, "fold")
              /\ \E events \in Emissions : emit' = [emit EXCEPT ![d] = events]
              /\ H!Goto(d, "fold") /\ UNCHANGED answer
  <2> DEFINE left == added \o Tail(steps)
             n == Len(added)
             events == outcome.emit.events
             closure == outcome.emit.next
  <2>1. /\ inner.failure = None /\ inner.emit.events \in Emissions
        /\ added \in Seq(StepsOf(deeds)) /\ Calls(inner.emit.next, added)
        /\ inner.added = n /\ n <= MaxSteps
        /\ \A k \in 1 .. n : added[k].at = Append(at, k)
    BY <1>11 DEF Adds
  <2>2. /\ outcome.failure = None /\ outcome.added = n
        /\ events \in Emissions /\ Calls(closure, left)
    BY <1>9, <2>1
  <2>3. /\ Len(ran[d]) + Len(steps) + n <= MaxSteps
        /\ emit' = [emit EXCEPT ![d] = events]
        /\ next' = [next EXCEPT ![d] = closure]
        /\ H!Goto(d, "fold")
        /\ UNCHANGED answer
    BY <1>1, <1>6, <2>2
  <2>4. /\ Head(PlacesIn(steps)) = at
        /\ PlacesIn(left) = H!Continue(PlacesIn(steps), H!Continuations(at, n))
        /\ left \in Seq(StepsOf(deeds))
        /\ Len(left) = n + Len(steps) - 1
    BY <1>2, <1>8, <2>1, PlacesContinue
  <2> HIDE DEF events, closure, left
  <2>5. n \in 0 .. MaxSteps /\ Len(left) <= MaxSteps /\ Len(steps) \in Nat
    <3>1. n \in Nat /\ Len(steps) \in Nat /\ MaxSteps \in Nat
      BY <2>1, EmitAssumption
    <3> DEFINE l == Len(ran[d])
               m == Len(steps)
    <3>2. l \in Nat
      OBVIOUS
    <3> HIDE DEF n, l, m
    <3>3. l + m + n <= MaxSteps
      BY <2>3 DEF l, m
    <3>4. m \in Nat /\ n \in Nat /\ MaxSteps \in Nat
      BY <3>1 DEF m
    <3>5. n \in 0 .. MaxSteps /\ n + m - 1 <= MaxSteps
      BY <3>2, <3>3, <3>4
    <3>6. QED
      BY <2>4, <3>1, <3>5 DEF m
  <2>6. PlacesOf(closure) = PlacesIn(left)
    BY <2>2, <2>4, <2>5, PlacesOfClosure
  <2>7. /\ Pending[d] = PlacesIn(steps)
        /\ Pending' = [Pending EXCEPT ![d] = PlacesIn(left)]
    BY <1>6, <2>3, <2>6, PendingOfOne
  <2> HIDE DEF n
  <2>8. Pending' = [Pending EXCEPT
          ![d] = H!Continue(Pending[d], H!Continuations(Head(Pending[d]), n))]
    BY <2>4, <2>7
  <2>9. entry = H!Ran(Head(Pending[d]), n)
    BY <1>7, <2>2, <2>4, <2>7 DEF entry
  <2>10. Len(Pending[d]) = Len(steps)
    BY <2>5, <2>7 DEF PlacesIn
  <2>11. H!CallEmits(d, events, n)
    <3>1. pc[d] = "call" /\ AnyEvents(state[d], events)
      BY <1>1 DEF AnyEvents
    <3>2. Len(ran[d]) + Len(Pending[d]) + n <= MaxSteps
      BY <2>3, <2>10
    <3>3. ran' = [ran EXCEPT ![d] = Append(@, H!Ran(Head(Pending[d]), n))]
      BY <1>1, <2>9
    <3>4. UNCHANGED <<req, state, answered, answer>>
      BY <1>1, <2>3
    <3>5. QED
      BY <2>3, <2>8, <3>1, <3>2, <3>3, <3>4 DEF H!CallEmits, Pending
  <2>12. H!Call(d)
    BY <2>2, <2>5, <2>11 DEF H!Call
  <2>13. Waits(deeds, closure, "fold")
    BY <2>2, <2>4, <2>5 DEF Waits
  <2>14. QED
    BY <2>2, <2>3, <2>12, <2>13
<1>12. QED
  <2>1. \/ inner.failure \in Failures /\ inner.failure # None /\ inner.added = 0
        \/ \E added : Adds(deeds, at, inner, added)
    BY <1>4, <1>5, BuiltCalls
  <2>2. QED
    BY <1>10, <1>11, <2>1

(* The loop of `decide` is Handle's fold.                                  *)
LEMMA FoldEmitIsFold ==
  ASSUME NoneIsNoClosure, NEW deeds, NEW d \in Dispatches,
         Waits(deeds, next[d], pc[d]), FoldEmit(d)
  PROVE  /\ H!FoldEmitted(d)
         /\ UNCHANGED <<req, emit, next, ran>>
         /\ \/ UNCHANGED answered /\ \E e : H!AnswerError(d, e)
            \/ /\ answered' = [answered EXCEPT ![d] = @ \o emit[d]]
               /\ \E place \in {"encode", "call"} :
                    H!Goto(d, place) /\ Waits(deeds, next[d], place)
               /\ UNCHANGED answer
<1> DEFINE folded == H!ApplyEmitted(state[d], emit[d], H!DecideCover(req[d]),
                                    H!NextEmitted(d), H!EventMeta(req[d]))
           place == IF next[d] = None THEN "encode" ELSE "call"
<1>1. /\ pc[d] = "fold"
      /\ IF folded.error # None
         THEN /\ H!AnswerError(d, H!DecideError(req[d], folded.error))
              /\ UNCHANGED <<state, answered>>
         ELSE /\ state' = [state EXCEPT ![d] = folded.state]
              /\ answered' = [answered EXCEPT ![d] = @ \o emit[d]]
              /\ H!Goto(d, place)
              /\ UNCHANGED answer
      /\ UNCHANGED <<req, emit, next, ran>>
  BY DEF FoldEmit
<1>2. PICK steps \in Seq(StepsOf(deeds)) : Len(steps) <= MaxSteps /\ Calls(next[d], steps)
  BY DEF Waits
<1>3. next[d] = None <=> steps = <<>>
  BY <1>2, ClosuresAreThere
<1>4. Pending[d] = PlacesIn(steps)
  BY <1>2, PlacesOfClosure DEF Pending
<1>5. place = H!AfterFold(Pending[d])
  <2>1. Pending[d] = <<>> <=> steps = <<>>
    BY <1>4 DEF PlacesIn
  <2>2. QED
    BY <1>3, <2>1 DEF H!AfterFold
<1>6. place \in {"encode", "call"} /\ Waits(deeds, next[d], place)
  BY <1>2, <1>3 DEF Waits
<1> HIDE DEF folded, place
<1>7. Pending' = Pending
  BY <1>1 DEF Pending
<1>8. H!FoldEmitted(d)
  <2>1. CASE folded.error # None
    BY <1>1, <1>7, <2>1 DEF H!FoldEmitted, Pending, folded
  <2>2. CASE folded.error = None
    <3>1. /\ state' = [state EXCEPT ![d] = folded.state]
          /\ answered' = [answered EXCEPT ![d] = @ \o emit[d]]
          /\ H!Goto(d, H!AfterFold(Pending[d]))
          /\ UNCHANGED answer
      BY <1>1, <1>5, <2>2
    <3>2. QED
      BY <1>1, <1>7, <2>2, <3>1 DEF H!FoldEmitted, Pending, folded
  <2>3. QED
    BY <2>1, <2>2
<1>9. QED
  BY <1>1, <1>6, <1>8

-----------------------------------------------------------------------------
(* The invariant.                                                          *)

(* The variables of a dispatch, over all of them.                          *)
Maps ==
  /\ pc = [d \in Dispatches |-> pc[d]]
  /\ req = [d \in Dispatches |-> req[d]]
  /\ emit = [d \in Dispatches |-> emit[d]]
  /\ next = [d \in Dispatches |-> next[d]]
  /\ answered = [d \in Dispatches |-> answered[d]]
  /\ ran = [d \in Dispatches |-> ran[d]]
  /\ answer = [d \in Dispatches |-> answer[d]]

(* A state as the stream may keep it.                                      *)
Kept(any) == any # None => any.kind \in EncodingKinds

(* One dispatch: it is of an input, it keeps a closure of a few steps, and *)
(* what it folded and answers are events.                                  *)
OneOK(deeds, place, r, events, closure, told, run, a) ==
  /\ place # "idle" => IsRequest(r)
  /\ events \in Seq(Events)
  /\ Waits(deeds, closure, place)
  /\ told \in Seq(Events)
  /\ run \in Seq(Elements(run))
  /\ place = "answered" => a.events \in Seq(Events) /\ Kept(a.state)

(* The stream: pages in a sequence, and an image a book may carry.         *)
StreamOK ==
  /\ behaviour \in Behaviours
  /\ log \in Seq(Elements(log))
  /\ image # None => image.upto \in Nat /\ Kept(image.state)

OrdersInv(deeds) ==
  /\ Maps
  /\ StreamOK
  /\ \A d \in Dispatches :
       OneOK(deeds, pc[d], req[d], emit[d], next[d], answered[d], ran[d], answer[d])

(* Where one dispatch moves and the stream is as it was.                   *)
LEMMA OneMoves ==
  ASSUME NEW deeds, OrdersInv(deeds), NEW d \in Dispatches,
         NEW place, pc' = [pc EXCEPT ![d] = place],
         NEW r, req' = [req EXCEPT ![d] = r],
         NEW events, emit' = [emit EXCEPT ![d] = events],
         NEW closure, next' = [next EXCEPT ![d] = closure],
         NEW told, answered' = [answered EXCEPT ![d] = told],
         NEW run, ran' = [ran EXCEPT ![d] = run],
         NEW a, answer' = [answer EXCEPT ![d] = a],
         OneOK(deeds, place, r, events, closure, told, run, a), StreamOK'
  PROVE  OrdersInv(deeds)'
<1>1. Maps /\ \A c \in Dispatches :
        OneOK(deeds, pc[c], req[c], emit[c], next[c], answered[c], ran[c], answer[c])
  BY DEF OrdersInv
<1>2. Maps'
  BY <1>1 DEF Maps
<1>3. ASSUME NEW c \in Dispatches
      PROVE  OneOK(deeds, pc'[c], req'[c], emit'[c], next'[c], answered'[c], ran'[c],
                   answer'[c])
  <2>1. CASE c = d
    <3>1. /\ pc'[c] = place /\ req'[c] = r /\ emit'[c] = events /\ next'[c] = closure
          /\ answered'[c] = told /\ ran'[c] = run /\ answer'[c] = a
      BY <1>1, <2>1 DEF Maps
    <3>2. QED
      BY <3>1
  <2>2. CASE c # d
    <3>1. /\ pc'[c] = pc[c] /\ req'[c] = req[c] /\ emit'[c] = emit[c]
          /\ next'[c] = next[c] /\ answered'[c] = answered[c] /\ ran'[c] = ran[c]
          /\ answer'[c] = answer[c]
      BY <1>1, <2>2 DEF Maps
    <3>2. QED
      BY <1>1, <3>1
  <2>3. QED
    BY <2>1, <2>2
<1>4. QED
  BY <1>2, <1>3 DEF OrdersInv

(* Where a variable is as it was, it is so for this dispatch.              *)
LEMMA AsItWas ==
  ASSUME Maps, NEW d \in Dispatches
  PROVE  /\ pc = [pc EXCEPT ![d] = pc[d]]
         /\ req = [req EXCEPT ![d] = req[d]]
         /\ emit = [emit EXCEPT ![d] = emit[d]]
         /\ next = [next EXCEPT ![d] = next[d]]
         /\ answered = [answered EXCEPT ![d] = answered[d]]
         /\ ran = [ran EXCEPT ![d] = ran[d]]
         /\ answer = [answer EXCEPT ![d] = answer[d]]
BY DEF Maps

(* A sequence is one of its own elements.                                  *)
LEMMA SeqOfElements ==
  ASSUME NEW S, NEW seq \in Seq(S)
  PROVE  seq \in Seq(Elements(seq))
<1>1. \A i \in 1 .. Len(seq) : seq[i] \in Elements(seq)
  BY DEF Elements
<1>2. seq = [i \in 1 .. Len(seq) |-> seq[i]] /\ Len(seq) \in Nat
  OBVIOUS
<1> DEFINE n == Len(seq)
<1>3. \A E : (\A i \in 1 .. n : seq[i] \in E) => [i \in 1 .. n |-> seq[i]] \in Seq(E)
  <2>1. n \in Nat
    BY <1>2
  <2> HIDE DEF n
  <2>2. QED
    BY <2>1
<1> HIDE DEF n
<1>4. [i \in 1 .. n |-> seq[i]] \in Seq(Elements(seq))
  BY <1>1, <1>3 DEF n
<1>5. QED
  BY <1>2, <1>4 DEF n

LEMMA OrdersInitInv ==
  ASSUME NoneIsNoClosure, NEW deeds, OrdersInit
  PROVE  OrdersInv(deeds)
<1>1. Maps
  BY DEF OrdersInit, EmitInit, H!Init, Maps
<1>2. StreamOK
  <2>1. log = <<>> /\ Elements(<<>>) = {} /\ <<>> \in Seq({})
    BY DEF OrdersInit, Elements
  <2>2. QED
    BY <2>1 DEF OrdersInit, StreamOK
<1>3. ASSUME NEW d \in Dispatches
      PROVE  OneOK(deeds, pc[d], req[d], emit[d], next[d], answered[d], ran[d], answer[d])
  <2>1. /\ pc[d] = "idle" /\ emit[d] = <<>> /\ next[d] = None /\ answered[d] = <<>>
        /\ ran[d] = <<>>
    BY DEF OrdersInit, EmitInit, H!Init
  <2>2. Waits(deeds, next[d], pc[d])
    <3>1. /\ <<>> \in Seq(StepsOf(deeds)) /\ Len(<<>>) = 0 /\ 0 <= MaxSteps
          /\ Calls(next[d], <<>>)
      BY <2>1, EmitAssumption DEF Calls
    <3>2. QED
      BY <2>1, <3>1 DEF Waits
  <2>3. <<>> \in Seq(Events) /\ <<>> \in Seq(Elements(<<>>))
    OBVIOUS
  <2>4. QED
    BY <2>1, <2>2, <2>3 DEF OneOK
<1>4. QED
  BY <1>1, <1>2, <1>3 DEF OrdersInv

-----------------------------------------------------------------------------
(* Every step keeps it, and is a step of Handle's.                         *)

LEMMA WaitsStill ==
  ASSUME NEW deeds, NEW closure, NEW place, Waits(deeds, closure, place),
         NEW later, later # "call"
  PROVE  Waits(deeds, closure, later)
BY DEF Waits

(* A failing decision leaves the dispatch as it was, but for its answer.   *)
LEMMA ErrorKeepsInv ==
  ASSUME NEW deeds, OrdersInv(deeds), NEW d \in Dispatches, pc[d] # "idle",
         NEW e, H!AnswerError(d, e), UNCHANGED <<req, emit, answered>>,
         NEW closure, next' = [next EXCEPT ![d] = closure], Waits(deeds, closure, "fold"),
         NEW run, ran' = [ran EXCEPT ![d] = run], run \in Seq(Elements(run)), StreamOK'
  PROVE  OrdersInv(deeds)'
<1> DEFINE a == [error |-> e, events |-> <<>>, state |-> None]
<1>1. pc' = [pc EXCEPT ![d] = "answered"] /\ answer' = [answer EXCEPT ![d] = a]
  BY DEF H!AnswerError, H!Goto
<1>2. Maps /\ OneOK(deeds, pc[d], req[d], emit[d], next[d], answered[d], ran[d], answer[d])
  BY DEF OrdersInv
<1>3. /\ req' = [req EXCEPT ![d] = req[d]]
      /\ emit' = [emit EXCEPT ![d] = emit[d]]
      /\ answered' = [answered EXCEPT ![d] = answered[d]]
  BY <1>2, AsItWas
<1>4. a.events = <<>> /\ a.state = None
  OBVIOUS
<1> HIDE DEF a
<1>5. OneOK(deeds, "answered", req[d], emit[d], closure, answered[d], run, a)
  <2>1. Waits(deeds, closure, "answered")
    BY WaitsStill
  <2>2. <<>> \in Seq(Events) /\ Kept(None)
    BY DEF Kept
  <2>3. QED
    BY <1>2, <1>4, <2>1, <2>2 DEF OneOK
<1>6. QED
  BY <1>1, <1>3, <1>5, OneMoves

LEMMA StreamStays ==
  ASSUME NEW deeds, OrdersInv(deeds), UNCHANGED <<behaviour, log, image>>
  PROVE  StreamOK'
BY DEF OrdersInv, StreamOK

LEMMA RouteKeepsInv ==
  ASSUME NEW deeds, OrdersInv(deeds), NEW d \in Dispatches, UNCHANGED next, H!Route(d),
         UNCHANGED <<behaviour, log, image>>
  PROVE  OrdersInv(deeds)'
<1>1. Maps /\ OneOK(deeds, pc[d], req[d], emit[d], next[d], answered[d], ran[d], answer[d])
  BY DEF OrdersInv
<1>2. StreamOK'
  BY StreamStays
<1>3. /\ pc[d] = "route"
      /\ UNCHANGED <<req, emit, answered, ran>>
      /\ \/ H!Goto(d, "rebuild") /\ UNCHANGED answer
         \/ \E e : H!AnswerError(d, e)
  BY DEF H!Route
<1>4. /\ req' = [req EXCEPT ![d] = req[d]] /\ emit' = [emit EXCEPT ![d] = emit[d]]
      /\ next' = [next EXCEPT ![d] = next[d]]
      /\ answered' = [answered EXCEPT ![d] = answered[d]]
      /\ ran' = [ran EXCEPT ![d] = ran[d]]
  BY <1>1, <1>3, AsItWas
<1>5. CASE H!Goto(d, "rebuild") /\ UNCHANGED answer
  <2>1. pc' = [pc EXCEPT ![d] = "rebuild"] /\ answer' = [answer EXCEPT ![d] = answer[d]]
    BY <1>1, <1>5, AsItWas DEF H!Goto
  <2>2. OneOK(deeds, "rebuild", req[d], emit[d], next[d], answered[d], ran[d], answer[d])
    BY <1>1, <1>3, WaitsStill DEF OneOK
  <2>3. QED
    BY <1>2, <1>4, <2>1, <2>2, OneMoves
<1>6. CASE \E e : H!AnswerError(d, e)
  <2>1. Waits(deeds, next[d], "fold") /\ ran[d] \in Seq(Elements(ran[d])) /\ pc[d] # "idle"
    BY <1>1, <1>3, WaitsStill DEF OneOK
  <2>2. QED
    BY <1>2, <1>3, <1>4, <1>6, <2>1, ErrorKeepsInv
<1>7. QED
  BY <1>3, <1>5, <1>6

LEMMA AnswerKeepsInv ==
  ASSUME NEW deeds, OrdersInv(deeds), NEW d \in Dispatches, UNCHANGED next, H!Answer(d),
         UNCHANGED <<behaviour, log, image>>
  PROVE  OrdersInv(deeds)'
<1> DEFINE a == [error |-> None, events |-> answered[d], state |-> H!EncodeState(state[d])]
<1>1. Maps /\ OneOK(deeds, pc[d], req[d], emit[d], next[d], answered[d], ran[d], answer[d])
  BY DEF OrdersInv
<1>2. StreamOK'
  BY StreamStays
<1>3. /\ pc[d] = "encode" /\ pc' = [pc EXCEPT ![d] = "answered"]
      /\ answer' = [answer EXCEPT ![d] = a]
      /\ UNCHANGED <<req, emit, answered, ran>>
  BY DEF H!Answer, H!Goto
<1>4. /\ req' = [req EXCEPT ![d] = req[d]] /\ emit' = [emit EXCEPT ![d] = emit[d]]
      /\ next' = [next EXCEPT ![d] = next[d]]
      /\ answered' = [answered EXCEPT ![d] = answered[d]]
      /\ ran' = [ran EXCEPT ![d] = ran[d]]
  BY <1>1, <1>3, AsItWas
<1>5. a.events = answered[d] /\ Kept(a.state)
  BY DEF Kept, H!EncodeState, H!Encoded, EncodingKinds
<1> HIDE DEF a
<1>6. OneOK(deeds, "answered", req[d], emit[d], next[d], answered[d], ran[d], a)
  BY <1>1, <1>3, <1>5, WaitsStill DEF OneOK
<1>7. QED
  BY <1>2, <1>3, <1>4, <1>6, OneMoves

(* What Handle rebuilds is what Emit does.                                 *)
LEMMA SameRebuilt ==
  ASSUME NEW book
  PROVE  Rebuilt(book) = H!Rebuilt(book)
<1>1. ASSUME NEW start, NEW pages, NEW cover, NEW origin
      PROVE  FoldRun(start, pages, cover, origin) = H!FoldRun(start, pages, cover, origin)
  BY DEF FoldRun, H!FoldRun, FoldPage, H!FoldPage, Folds, H!Folds, View, H!View,
         Ok, H!Ok, Failing, H!Failing, FoldFailed, H!FoldFailed, OriginReason,
         H!OriginReason, Keyed, H!Keyed, Coded, H!Coded, Surface, H!Surface
<1>2. ASSUME NEW any
      PROVE  Decode(any) = H!Decode(any)
  BY DEF Decode, H!Decode, Ok, H!Ok, Failing, H!Failing, PersistedCorrupt,
         H!PersistedCorrupt, FoldFailed, H!FoldFailed, Keyed, H!Keyed,
         Coded, H!Coded, Surface, H!Surface
<1>3. QED
  BY <1>1, <1>2 DEF Rebuilt, H!Rebuilt, FoldBook, H!FoldBook, ApplyPages, H!ApplyPages,
                    StartOf, H!StartOf, Ok, H!Ok

LEMMA BeginKeepsInv ==
  ASSUME NEW deeds, BuildsByThen(deeds), OrdersInv(deeds), NEW d \in Dispatches,
         Begin(d), UNCHANGED <<behaviour, log, image>>
  PROVE  OrdersInv(deeds)'
<1> DEFINE rebuilt == Rebuilt(req[d].history)
           theirs == H!Rebuilt(req[d].history)
<1>1. Maps /\ OneOK(deeds, pc[d], req[d], emit[d], next[d], answered[d], ran[d], answer[d])
  BY DEF OrdersInv
<1>2. StreamOK' /\ behaviour \in Behaviours
  BY StreamStays DEF OrdersInv, StreamOK
<1>3. /\ pc[d] = "rebuild"
      /\ next' = [next EXCEPT ![d] = IF rebuilt.error = None THEN Handler ELSE next[d]]
      /\ UNCHANGED <<req, emit, answered, ran>>
      /\ \/ \E e : H!AnswerError(d, e)
         \/ H!Goto(d, "call") /\ UNCHANGED answer /\ theirs.error = None
  BY DEF Begin, H!RebuildState
<1>4. /\ req' = [req EXCEPT ![d] = req[d]] /\ emit' = [emit EXCEPT ![d] = emit[d]]
      /\ answered' = [answered EXCEPT ![d] = answered[d]]
      /\ ran' = [ran EXCEPT ![d] = ran[d]]
  BY <1>1, <1>3, AsItWas
<1>5. Waits(deeds, Handler, "call")
  <2>1. Handler \in StepsOf(deeds)
    <3>1. <<>> \in H!Steps /\ <<"handle", behaviour>> \in deeds
      BY <1>2 DEF H!Steps, BuildsByThen
    <3>2. QED
      BY <3>1, StepsAreThere DEF Handler
  <2> DEFINE steps == <<Handler>>
             chain == [k \in 1 .. 1 |-> Handler]
  <2>2. /\ steps \in Seq(StepsOf(deeds)) /\ steps # <<>> /\ Len(steps) = 1
        /\ steps[1] = Handler /\ chain[1] = Handler
    BY <2>1
  <2> HIDE DEF steps, chain
  <2>3. IsChain(chain, steps) /\ Handler = chain[Len(steps)]
    BY <2>2 DEF IsChain
  <2>4. Calls(Handler, steps) /\ Len(steps) <= MaxSteps
    BY <2>2, <2>3, EmitAssumption DEF Calls
  <2>5. QED
    BY <2>2, <2>4 DEF Waits
<1>6. PICK closure : next' = [next EXCEPT ![d] = closure]
                     /\ closure = IF rebuilt.error = None THEN Handler ELSE next[d]
  BY <1>3
<1>7. Waits(deeds, closure, "fold")
  BY <1>1, <1>5, <1>6, WaitsStill DEF OneOK
<1>8. CASE \E e : H!AnswerError(d, e)
  <2>1. ran[d] \in Seq(Elements(ran[d])) /\ pc[d] # "idle"
    BY <1>1, <1>3 DEF OneOK
  <2>2. QED
    BY <1>2, <1>3, <1>4, <1>6, <1>7, <1>8, <2>1, ErrorKeepsInv
<1>9. CASE H!Goto(d, "call") /\ UNCHANGED answer /\ theirs.error = None
  <2>1. pc' = [pc EXCEPT ![d] = "call"] /\ answer' = [answer EXCEPT ![d] = answer[d]]
    BY <1>1, <1>9, AsItWas DEF H!Goto
  <2>2. rebuilt = theirs
    BY SameRebuilt
  <2>3. closure = Handler
    BY <1>6, <1>9, <2>2
  <2>4. OneOK(deeds, "call", req[d], emit[d], closure, answered[d], ran[d], answer[d])
    BY <1>1, <1>3, <1>5, <2>3 DEF OneOK
  <2>5. QED
    BY <1>2, <1>4, <1>6, <2>1, <2>4, OneMoves
<1>10. QED
  BY <1>3, <1>8, <1>9

LEMMA CallNextKeepsInv ==
  ASSUME NoneIsNoClosure, NEW deeds, BuildsByThen(deeds), OrdersInv(deeds),
         NEW d \in Dispatches, CallNext(d), UNCHANGED <<behaviour, log, image>>
  PROVE  H!Call(d) /\ OrdersInv(deeds)'
<1>1. Maps /\ OneOK(deeds, pc[d], req[d], emit[d], next[d], answered[d], ran[d], answer[d])
  BY DEF OrdersInv
<1>2. StreamOK'
  BY StreamStays
<1>3. /\ pc[d] = "call" /\ UNCHANGED <<req, answered>>
      /\ \E entry : ran' = [ran EXCEPT ![d] = Append(ran[d], entry)]
  BY DEF CallNext
<1>4. PICK entry : ran' = [ran EXCEPT ![d] = Append(ran[d], entry)]
  BY <1>3
<1> DEFINE run == Append(ran[d], entry)
<1>5. run \in Seq(Elements(run)) /\ Len(ran[d]) \in Nat
  <2> DEFINE S == Elements(ran[d]) \cup {entry}
  <2>1. ran[d] \in Seq(Elements(ran[d]))
    BY <1>1 DEF OneOK
  <2>2. ran[d] \in Seq(S)
    BY <2>1
  <2>3. entry \in S
    OBVIOUS
  <2> HIDE DEF S
  <2>4. run \in Seq(S)
    BY <2>2, <2>3
  <2> HIDE DEF run
  <2>5. QED
    BY <2>1, <2>4, SeqOfElements
<1> HIDE DEF run
<1>6. ran' = [ran EXCEPT ![d] = run]
  BY <1>4 DEF run
<1>7. /\ req' = [req EXCEPT ![d] = req[d]]
      /\ answered' = [answered EXCEPT ![d] = answered[d]]
  BY <1>1, <1>3, AsItWas
<1>8. /\ next = [c \in Dispatches |-> next[c]] /\ Waits(deeds, next[d], pc[d])
      /\ IsRequest(req[d])
  BY <1>1, <1>3 DEF Maps, OneOK
<1>9. /\ H!Call(d)
      /\ \E closure : /\ next' = [next EXCEPT ![d] = closure]
                      /\ Waits(deeds, closure, "fold")
      /\ \/ UNCHANGED emit /\ \E e : H!AnswerError(d, e)
         \/ /\ \E events \in Emissions : emit' = [emit EXCEPT ![d] = events]
            /\ H!Goto(d, "fold") /\ UNCHANGED answer
  BY <1>5, <1>8, CallNextIsCall
<1>10. PICK closure : next' = [next EXCEPT ![d] = closure] /\ Waits(deeds, closure, "fold")
  BY <1>9
<1>11. CASE UNCHANGED emit /\ \E e : H!AnswerError(d, e)
  BY <1>2, <1>3, <1>5, <1>6, <1>9, <1>10, <1>11, ErrorKeepsInv
<1>12. ASSUME NEW events \in Emissions, emit' = [emit EXCEPT ![d] = events],
              H!Goto(d, "fold"), UNCHANGED answer
       PROVE  OrdersInv(deeds)'
  <2>1. events \in Seq(Events)
    BY EmitAssumption
  <2>2. pc' = [pc EXCEPT ![d] = "fold"] /\ answer' = [answer EXCEPT ![d] = answer[d]]
    BY <1>1, <1>12, AsItWas DEF H!Goto
  <2>3. OneOK(deeds, "fold", req[d], events, closure, answered[d], run, answer[d])
    BY <1>1, <1>5, <1>8, <1>10, <2>1 DEF OneOK
  <2>4. QED
    BY <1>2, <1>6, <1>7, <1>10, <1>12, <2>2, <2>3, OneMoves
<1>13. QED
  BY <1>9, <1>11, <1>12

LEMMA FoldEmitKeepsInv ==
  ASSUME NoneIsNoClosure, NEW deeds, OrdersInv(deeds), NEW d \in Dispatches,
         FoldEmit(d), UNCHANGED <<behaviour, log, image>>
  PROVE  H!FoldEmitted(d) /\ OrdersInv(deeds)'
<1>1. Maps /\ OneOK(deeds, pc[d], req[d], emit[d], next[d], answered[d], ran[d], answer[d])
  BY DEF OrdersInv
<1>2. StreamOK'
  BY StreamStays
<1>3. Waits(deeds, next[d], pc[d]) /\ pc[d] = "fold"
  BY <1>1 DEF OneOK, FoldEmit
<1>4. /\ H!FoldEmitted(d)
      /\ UNCHANGED <<req, emit, next, ran>>
      /\ \/ UNCHANGED answered /\ \E e : H!AnswerError(d, e)
         \/ /\ answered' = [answered EXCEPT ![d] = @ \o emit[d]]
            /\ \E place \in {"encode", "call"} :
                 H!Goto(d, place) /\ Waits(deeds, next[d], place)
            /\ UNCHANGED answer
  BY <1>3, FoldEmitIsFold
<1>5. /\ req' = [req EXCEPT ![d] = req[d]] /\ emit' = [emit EXCEPT ![d] = emit[d]]
      /\ next' = [next EXCEPT ![d] = next[d]] /\ ran' = [ran EXCEPT ![d] = ran[d]]
  BY <1>1, <1>4, AsItWas
<1>6. CASE UNCHANGED answered /\ \E e : H!AnswerError(d, e)
  <2>1. ran[d] \in Seq(Elements(ran[d])) /\ pc[d] # "idle" /\ Waits(deeds, next[d], "fold")
    BY <1>1, <1>3 DEF OneOK
  <2>2. QED
    BY <1>2, <1>4, <1>5, <1>6, <2>1, ErrorKeepsInv
<1>7. ASSUME answered' = [answered EXCEPT ![d] = @ \o emit[d]],
             NEW place \in {"encode", "call"}, H!Goto(d, place),
             Waits(deeds, next[d], place), UNCHANGED answer
      PROVE  OrdersInv(deeds)'
  <2> DEFINE told == answered[d] \o emit[d]
  <2>1. told \in Seq(Events)
    BY <1>1, ConcatProperties DEF OneOK
  <2>2. answered' = [answered EXCEPT ![d] = told]
    BY <1>7
  <2> HIDE DEF told
  <2>3. pc' = [pc EXCEPT ![d] = place] /\ answer' = [answer EXCEPT ![d] = answer[d]]
    BY <1>1, <1>7, AsItWas DEF H!Goto
  <2>4. OneOK(deeds, place, req[d], emit[d], next[d], told, ran[d], answer[d])
    BY <1>1, <1>3, <1>7, <2>1 DEF OneOK
  <2>5. QED
    BY <1>2, <1>5, <2>2, <2>3, <2>4, OneMoves
<1>8. QED
  BY <1>4, <1>6, <1>7

(* What the router does of its own is what Handle does.                    *)
LEMMA DispatchKeepsInv ==
  ASSUME NoneIsNoClosure, NEW deeds, BuildsByThen(deeds), OrdersInv(deeds),
         NEW d \in Dispatches, Dispatch(d)
  PROVE  H!Step(d) /\ OrdersInv(deeds)'
<1>1. EmitStep(d) /\ UNCHANGED <<behaviour, log, image>>
  BY DEF Dispatch
<1>2. CASE UNCHANGED next /\ H!Route(d)
  BY <1>1, <1>2, RouteKeepsInv DEF H!Step
<1>3. CASE UNCHANGED next /\ H!Answer(d)
  BY <1>1, <1>3, AnswerKeepsInv DEF H!Step
<1>4. CASE Begin(d)
  <2>1. H!RebuildState(d)
    BY <1>4 DEF Begin
  <2>2. QED
    BY <1>1, <1>4, <2>1, BeginKeepsInv DEF H!Step
<1>5. CASE CallNext(d)
  BY <1>1, <1>5, CallNextKeepsInv DEF H!Step
<1>6. CASE FoldEmit(d)
  BY <1>1, <1>6, FoldEmitKeepsInv DEF H!Step
<1>7. QED
  BY <1>1, <1>2, <1>3, <1>4, <1>5, <1>6 DEF EmitStep

(* What the stream hands the router is well formed.                        *)
LEMMA SendKeepsInv ==
  ASSUME NEW deeds, OrdersInv(deeds), NEW d \in Dispatches, NEW input \in Inputs,
         Send(d, input)
  PROVE  /\ H!Deliver(d, req'[d]) /\ H!WellFormed(req'[d])
         /\ OrdersInv(deeds)'
<1>1. Maps /\ StreamOK
      /\ OneOK(deeds, pc[d], req[d], emit[d], next[d], answered[d], ran[d], answer[d])
  BY DEF OrdersInv
<1>2. PICK history \in OrderHistories :
        Deliver(d, [arm |-> input.arm, type |-> input.type, item |-> input.item,
                    id |-> sent, cover |-> "order-1", history |-> history])
  BY DEF Send
<1> DEFINE r == [arm |-> input.arm, type |-> input.type, item |-> input.item,
                 id |-> sent, cover |-> "order-1", history |-> history]
<1>3. /\ H!Deliver(d, r) /\ UNCHANGED next
      /\ pc[d] = "idle" /\ req' = [req EXCEPT ![d] = r]
      /\ pc' = [pc EXCEPT ![d] = "route"]
      /\ UNCHANGED <<emit, answered, ran, answer>>
  BY <1>2 DEF Deliver, H!Deliver, H!Goto
<1>4. /\ r.arm = input.arm /\ r.type = input.type /\ r.item = input.item
      /\ r.cover = "order-1" /\ r.history = history
  OBVIOUS
<1> HIDE DEF r
<1>5. req'[d] = r
  BY <1>1, <1>3 DEF Maps
<1>6. /\ history.cover = "order-1" /\ history.next = Len(log)
      /\ history.pages \in Seq(Elements(history.pages))
      /\ history.snapshot # None => Kept(history.snapshot.state)
  <2>1. log \in Seq(Elements(log)) /\ Len(log) \in Nat
    BY <1>1 DEF StreamOK
  <2>2. CASE history = Book(None, log)
    BY <2>1, <2>2 DEF Book
  <2>3. ASSUME image # None,
               history = Book([state |-> image.state], SubSeq(log, image.upto + 1, Len(log)))
        PROVE  /\ history.cover = "order-1" /\ history.next = Len(log)
               /\ history.pages \in Seq(Elements(history.pages))
               /\ Kept(history.snapshot.state)
    <3> DEFINE pages == SubSeq(log, image.upto + 1, Len(log))
    <3>1. image.upto \in Nat /\ Kept(image.state)
      BY <1>1, <2>3 DEF StreamOK
    <3>2. pages \in Seq(Elements(log))
      <4> DEFINE S == Elements(log)
                 from == image.upto + 1
      <4>1. log \in Seq(S) /\ from \in Nat \ {0}
        BY <2>1, <3>1
      <4> HIDE DEF S, from
      <4>2. \A i \in from .. Len(log) : i \in 1 .. Len(log)
        BY <2>1, <4>1
      <4>3. SubSeq(log, from, Len(log)) \in Seq(S)
        BY <2>1, <4>1, <4>2, SubSeqProperties
      <4>4. QED
        BY <4>3 DEF S, from
    <3> HIDE DEF pages
    <3>3. pages \in Seq(Elements(pages))
      BY <3>2, SeqOfElements
    <3>4. history.cover = "order-1" /\ history.next = Len(log) /\ history.pages = pages
          /\ history.snapshot.state = image.state
      BY <2>3 DEF Book, pages
    <3>5. QED
      BY <3>1, <3>3, <3>4
  <2>4. QED
    BY <2>2, <2>3 DEF OrderHistories
<1>7. H!WellFormed(r)
  <2>1. r.arm \in {"command", "fact", "none"}
    BY <1>4, OrdersAssumption
  <2>2. H!WellFormedHistory(history, "order-1")
    <3>1. Len(log) \in Nat
      BY <1>1 DEF StreamOK
    <3>2. H!Elements(history.pages) = Elements(history.pages)
      BY DEF H!Elements, Elements
    <3>3. H!EncodingKinds = EncodingKinds
      BY DEF H!EncodingKinds, EncodingKinds
    <3>4. QED
      BY <1>6, <3>1, <3>2, <3>3 DEF H!WellFormedHistory, Kept
  <2>3. QED
    BY <1>4, <2>1, <2>2 DEF H!WellFormed
<1>8. OrdersInv(deeds)'
  <2>1. /\ emit' = [emit EXCEPT ![d] = emit[d]]
        /\ next' = [next EXCEPT ![d] = next[d]]
        /\ answered' = [answered EXCEPT ![d] = answered[d]]
        /\ ran' = [ran EXCEPT ![d] = ran[d]]
        /\ answer' = [answer EXCEPT ![d] = answer[d]]
    BY <1>1, <1>3, AsItWas
  <2>2. StreamOK'
    BY StreamStays DEF Send
  <2>3. IsRequest(r)
    BY <1>4 DEF IsRequest
  <2>4. OneOK(deeds, "route", r, emit[d], next[d], answered[d], ran[d], answer[d])
    BY <1>1, <2>3, WaitsStill DEF OneOK
  <2>5. QED
    BY <1>3, <2>1, <2>2, <2>4, OneMoves
<1>9. QED
  BY <1>3, <1>5, <1>7, <1>8

LEMMA CollectKeepsInv ==
  ASSUME NoneIsNoClosure, NEW deeds, OrdersInv(deeds), NEW d \in Dispatches, Collect(d)
  PROVE  H!Return(d) /\ OrdersInv(deeds)'
<1>1. Maps /\ StreamOK
      /\ OneOK(deeds, pc[d], req[d], emit[d], next[d], answered[d], ran[d], answer[d])
  BY DEF OrdersInv
<1>2. /\ pc[d] = "answered" /\ H!Forget(d) /\ UNCHANGED behaviour
      /\ next' = [next EXCEPT ![d] = None]
      /\ \/ UNCHANGED <<log, image>>
         \/ /\ log' = log \o H!Stamped(req[d], answer[d].events)
            /\ image' \in {image, [state |-> answer[d].state, upto |-> Len(log')]}
  BY DEF Collect, Forget
<1>3. H!Return(d)
  BY <1>2 DEF H!Return
<1>4. answer[d].events \in Seq(Events) /\ Kept(answer[d].state)
  BY <1>1, <1>2 DEF OneOK
<1>5. StreamOK'
  <2>1. CASE UNCHANGED <<log, image>>
    BY <1>2, <2>1, StreamStays
  <2>2. CASE /\ log' = log \o H!Stamped(req[d], answer[d].events)
             /\ image' \in {image, [state |-> answer[d].state, upto |-> Len(log')]}
    <3> DEFINE stamped == H!Stamped(req[d], answer[d].events)
               S == Elements(log) \cup Elements(stamped)
    <3>1. stamped \in Seq(Elements(stamped))
      <4> DEFINE n == Len(answer[d].events)
                 page(i) == stamped[i]
      <4>1. n \in Nat
        BY <1>4
      <4>2. /\ stamped = [i \in 1 .. n |-> stamped[i]]
        BY DEF H!Stamped
      <4> HIDE DEF stamped, n
      <4>3. Len(stamped) = n
        BY <4>1, <4>2
      <4>4. \A i \in 1 .. n : stamped[i] \in Elements(stamped)
        BY <4>3 DEF Elements
      <4>5. QED
        BY <4>1, <4>2, <4>4
    <3>2. log \in Seq(S) /\ stamped \in Seq(S)
      <4>1. log \in Seq(Elements(log))
        BY <1>1 DEF StreamOK
      <4> HIDE DEF stamped
      <4>2. QED
        BY <3>1, <4>1
    <3> HIDE DEF stamped, S
    <3>3. log' \in Seq(S)
      BY <2>2, <3>2, ConcatProperties DEF stamped
    <3>4. log' \in Seq(Elements(log')) /\ Len(log') \in Nat
      BY <3>3, SeqOfElements
    <3>5. image' # None => image'.upto \in Nat /\ Kept(image'.state)
      <4>1. CASE image' = image
        BY <1>1, <4>1 DEF StreamOK
      <4>2. CASE image' = [state |-> answer[d].state, upto |-> Len(log')]
        <5>1. image'.upto = Len(log') /\ image'.state = answer[d].state
          BY <4>2
        <5>2. QED
          BY <1>4, <3>4, <5>1
      <4>3. QED
        BY <2>2, <4>1, <4>2
    <3>6. (image # None => image.upto \in Nat /\ Kept(image.state))'
      BY <3>5 DEF Kept
    <3>7. QED
      BY <1>1, <1>2, <3>4, <3>6 DEF StreamOK, Elements
  <2>3. QED
    BY <1>2, <2>1, <2>2
<1>6. /\ pc' = [pc EXCEPT ![d] = "idle"] /\ req' = [req EXCEPT ![d] = None]
      /\ emit' = [emit EXCEPT ![d] = <<>>] /\ answered' = [answered EXCEPT ![d] = <<>>]
      /\ ran' = [ran EXCEPT ![d] = <<>>] /\ answer' = [answer EXCEPT ![d] = None]
  BY <1>2 DEF H!Forget, H!Goto
<1>7. OneOK(deeds, "idle", None, <<>>, None, <<>>, <<>>, None)
  <2>1. Waits(deeds, None, "idle")
    <3>1. /\ <<>> \in Seq(StepsOf(deeds)) /\ Len(<<>>) = 0 /\ 0 <= MaxSteps
          /\ Calls(None, <<>>)
      BY EmitAssumption DEF Calls
    <3>2. QED
      BY <3>1 DEF Waits
  <2>2. <<>> \in Seq(Events) /\ <<>> \in Seq(Elements(<<>>))
    OBVIOUS
  <2>3. QED
    BY <2>1, <2>2 DEF OneOK
<1>8. OrdersInv(deeds)'
  BY <1>2, <1>5, <1>6, <1>7, OneMoves
<1>9. QED
  BY <1>3, <1>8

LEMMA StutterKeepsInv ==
  ASSUME NEW deeds, OrdersInv(deeds), UNCHANGED <<emitVars, log, image>>
  PROVE  OrdersInv(deeds)'
<1>1. /\ UNCHANGED <<pc, req, emit, next, answered, ran, answer>>
      /\ UNCHANGED <<behaviour, log, image>>
  BY DEF emitVars
<1>2. StreamOK'
  BY <1>1, StreamStays
<1>3. Maps' /\ \A d \in Dispatches :
        OneOK(deeds, pc'[d], req'[d], emit'[d], next'[d], answered'[d], ran'[d], answer'[d])
  BY <1>1 DEF OrdersInv, Maps
<1>4. QED
  BY <1>2, <1>3 DEF OrdersInv

(* The steps of Handle's that a stream of orders takes.                    *)
HandleStep ==
  \E d \in Dispatches :
    \/ H!Deliver(d, req'[d]) /\ H!WellFormed(req'[d])
    \/ H!Step(d)
    \/ H!Return(d)

LEMMA OrdersNextInv ==
  ASSUME NoneIsNoClosure, NEW deeds, BuildsByThen(deeds), OrdersInv(deeds),
         [OrdersNext]_ordersVars
  PROVE  [HandleStep]_(H!vars) /\ OrdersInv(deeds)'
<1>1. ASSUME NEW d \in Dispatches, NEW input \in Inputs, Send(d, input)
      PROVE  HandleStep /\ OrdersInv(deeds)'
  BY <1>1, SendKeepsInv DEF HandleStep
<1>2. ASSUME NEW d \in Dispatches, Dispatch(d)
      PROVE  HandleStep /\ OrdersInv(deeds)'
  BY <1>2, DispatchKeepsInv DEF HandleStep
<1>3. ASSUME NEW d \in Dispatches, Collect(d)
      PROVE  HandleStep /\ OrdersInv(deeds)'
  BY <1>3, CollectKeepsInv DEF HandleStep
<1>4. ASSUME UNCHANGED <<emitVars, log, image>>
      PROVE  UNCHANGED H!vars /\ OrdersInv(deeds)'
  <2>1. UNCHANGED H!vars
    BY <1>4 DEF emitVars, H!vars
  <2>2. QED
    BY <1>4, <2>1, StutterKeepsInv
<1>5. ASSUME NEW step, Check(step)
      PROVE  UNCHANGED <<emitVars, log, image>>
  BY <1>5 DEF Check
<1>6. UNCHANGED ordersVars => UNCHANGED <<emitVars, log, image>>
  BY DEF ordersVars, world
<1>7. QED
  BY <1>1, <1>2, <1>3, <1>4, <1>5, <1>6 DEF OrdersNext

(* However continuations nest, calling closures around closures is running *)
(* the steps of a flat list, next first: none lost, none run twice, none   *)
(* overtaken (domain.rs, Emit::then and Emit::push).  So it is for any     *)
(* business code that makes its Emits with Emit::of and Emit::then.        *)
THEOREM ClosuresRunInOrder ==
  ASSUME NoneIsNoClosure, NEW CONSTANT deeds, BuildsByThen(deeds)
  PROVE  OrdersSpec => ImplementsHandle
<1>1. OrdersInit => OrdersInv(deeds) /\ H!Init
  BY OrdersInitInv DEF OrdersInit, EmitInit
<1>2. OrdersInv(deeds) /\ [OrdersNext]_ordersVars
        => [HandleStep]_(H!vars) /\ OrdersInv(deeds)'
  BY OrdersNextInv
<1>3. [HandleStep]_(H!vars) =>
        [\E d \in Dispatches :
           \/ H!Deliver(d, req'[d]) /\ H!WellFormed(req'[d])
           \/ H!Step(d)
           \/ H!Return(d)]_<<H!vars>>
  BY DEF HandleStep
<1>4. QED
  BY <1>1, <1>2, <1>3, PTL DEF OrdersSpec, ImplementsHandle

-----------------------------------------------------------------------------
(* The order aggregate is such business code.                              *)

(* Orders as the conformance tier runs them.                               *)
OrderComponent ==
  /\ TierConstants
  /\ \A step, r, s : Does(step, r, s) = OrderDoes(step, r, s)

LEMMA BuiltFails ==
  ASSUME NEW deeds, NEW at, NEW failure \in Failures
  PROVE  Built(deeds, at, Fails(failure))
BY DEF Built

LEMMA BuiltEmits ==
  ASSUME NEW deeds, NEW at, NEW events \in Emissions, NEW n \in 0 .. MaxSteps,
         NEW does \in [1 .. n -> deeds], NEW e, e[0] = Of(events),
         \A k \in 1 .. n : e[k] = Then(e[k - 1], at, does[k])
  PROVE  Built(deeds, at, Emits(e[n]))
BY DEF Built

(* An Emit of events alone, with one continuation, and with two.           *)
LEMMA BuiltOf ==
  ASSUME NEW deeds, NEW at, NEW events \in Emissions
  PROVE  Built(deeds, at, Emits(Of(events)))
<1> DEFINE e == [k \in 0 .. 0 |-> Of(events)]
           does == [k \in 1 .. 0 |-> k]
<1>1. e[0] = Of(events) /\ does \in [1 .. 0 -> deeds] /\ 0 \in 0 .. MaxSteps
  BY EmitAssumption
<1> HIDE DEF e, does
<1>2. \A k \in 1 .. 0 : e[k] = Then(e[k - 1], at, does[k])
  OBVIOUS
<1>3. Built(deeds, at, Emits(e[0]))
  BY <1>1, <1>2, BuiltEmits
<1>4. QED
  BY <1>1, <1>3

LEMMA BuiltThen ==
  ASSUME NEW deeds, NEW at, NEW events \in Emissions, NEW one \in deeds
  PROVE  Built(deeds, at, Emits(Then(Of(events), at, one)))
<1> DEFINE e == [k \in 0 .. 1 |-> IF k = 0 THEN Of(events) ELSE Then(Of(events), at, one)]
           does == [k \in 1 .. 1 |-> one]
<1>1. /\ e[0] = Of(events) /\ e[1] = Then(Of(events), at, one) /\ does[1] = one
      /\ does \in [1 .. 1 -> deeds] /\ 1 \in 0 .. MaxSteps
  BY EmitAssumption
<1> HIDE DEF e, does
<1>2. \A k \in 1 .. 1 : e[k] = Then(e[k - 1], at, does[k])
  <2>1. e[1] = Then(e[1 - 1], at, does[1])
    BY <1>1
  <2>2. QED
    BY <2>1
<1>3. Built(deeds, at, Emits(e[1]))
  BY <1>1, <1>2, BuiltEmits
<1>4. QED
  BY <1>1, <1>3

LEMMA BuiltThenThen ==
  ASSUME NEW deeds, NEW at, NEW events \in Emissions, NEW one \in deeds, NEW two \in deeds,
         2 <= MaxSteps
  PROVE  Built(deeds, at, Emits(Then(Then(Of(events), at, one), at, two)))
<1> DEFINE first == Then(Of(events), at, one)
           second == Then(first, at, two)
           e == [k \in 0 .. 2 |-> IF k = 0 THEN Of(events)
                                  ELSE IF k = 1 THEN first ELSE second]
           does == [k \in 1 .. 2 |-> IF k = 1 THEN one ELSE two]
<1> HIDE DEF first, second
<1>1. /\ e[0] = Of(events) /\ e[1] = first /\ e[2] = second
      /\ does[1] = one /\ does[2] = two
      /\ does \in [1 .. 2 -> deeds] /\ 2 \in 0 .. MaxSteps
  BY EmitAssumption
<1> HIDE DEF e, does
<1>2. \A k \in 1 .. 2 : e[k] = Then(e[k - 1], at, does[k])
  <2>1. e[1] = Then(e[1 - 1], at, does[1])
    BY <1>1 DEF first
  <2>2. e[2] = Then(e[2 - 1], at, does[2])
    BY <1>1 DEF second
  <2>3. QED
    BY <2>1, <2>2
<1>3. Built(deeds, at, Emits(e[2]))
  BY <1>1, <1>2, BuiltEmits
<1>4. QED
  BY <1>1, <1>3 DEF first, second

(* A chain of n continuations.                                             *)
IsChainOf(chain, at, n) ==
  chain = [k \in 0 .. n |->
             IF k = 0 THEN Of(<<>>)
             ELSE Then(chain[k - 1], at, <<"note", <<"note", k>>>>)]

LEMMA ChainIs ==
  ASSUME NEW at, NEW n \in Nat
  PROVE  \E chain : IsChainOf(chain, at, n) /\ Chain(at, n) = chain[n]
<1> DEFINE S == {m \in Nat : \E h : IsChainOf(h, at, m)}
           links(k) == <<"note", <<"note", k>>>>
<1>1. 0 \in S
  <2>1. IsChainOf([k \in 0 .. 0 |-> Of(<<>>)], at, 0)
    BY DEF IsChainOf
  <2>2. QED
    BY <2>1
<1>2. ASSUME NEW m \in Nat, m \in S
      PROVE  m + 1 \in S
  <2>1. PICK h : IsChainOf(h, at, m)
    BY <1>2
  <2> HIDE DEF links
  <2> DEFINE g == [k \in 0 .. m + 1 |->
                     IF k = m + 1 THEN Then(h[m], at, links(m + 1)) ELSE h[k]]
  <2>2. \A k \in 0 .. m : g[k] = h[k]
    OBVIOUS
  <2>3. \A k \in 0 .. m : h[k] =
          IF k = 0 THEN Of(<<>>) ELSE Then(h[k - 1], at, links(k))
    BY <2>1 DEF IsChainOf, links
  <2>4. ASSUME NEW k \in 0 .. m + 1
        PROVE  g[k] = IF k = 0 THEN Of(<<>>) ELSE Then(g[k - 1], at, links(k))
    <3>1. CASE k = m + 1
      <4>1. g[k - 1] = h[m] /\ k # 0
        BY <2>2, <3>1
      <4>2. g[k] = Then(h[m], at, links(m + 1))
        BY <3>1
      <4> HIDE DEF g
      <4>3. QED
        BY <3>1, <4>1, <4>2
    <3>2. CASE k \in 0 .. m
      <4>1. g[k] = h[k] /\ (k # 0 => g[k - 1] = h[k - 1])
        BY <2>2, <3>2
      <4> HIDE DEF g
      <4>2. QED
        BY <2>3, <3>2, <4>1
    <3>3. QED
      BY <3>1, <3>2
  <2>5. g = [k \in 0 .. m + 1 |-> g[k]]
    OBVIOUS
  <2> HIDE DEF g
  <2>6. g = [k \in 0 .. m + 1 |->
               IF k = 0 THEN Of(<<>>) ELSE Then(g[k - 1], at, links(k))]
    BY <2>4, <2>5
  <2>7. IsChainOf(g, at, m + 1)
    BY <2>6 DEF IsChainOf, links
  <2>8. QED
    BY <2>7
<1>3. n \in S
  <2> HIDE DEF S
  <2>1. QED
    BY <1>1, <1>2, SetInduction
<1>4. \E h : IsChainOf(h, at, n)
  BY <1>3
<1>5. QED
  BY <1>4 DEF Chain, IsChainOf

LEMMA BuiltChain ==
  ASSUME OrderComponent, NEW at, NEW n \in 0 .. MaxSteps
  PROVE  Built(Deeds, at, Emits(Chain(at, n)))
<1> DEFINE links(k) == <<"note", <<"note", k>>>>
           does == [k \in 1 .. n |-> links(k)]
<1>1. n \in Nat /\ <<>> \in Emissions
  BY DEF OrderComponent, TierConstants
<1>2. PICK chain : IsChainOf(chain, at, n) /\ Chain(at, n) = chain[n]
  BY <1>1, ChainIs
<1>3. \A k \in 1 .. n : links(k) \in Deeds
  <2> TAKE k \in 1 .. n
  <2>1. <<"note", k>> \in Words
    BY EmitAssumption DEF Words
  <2>2. QED
    BY <2>1 DEF Deeds
<1> HIDE DEF links
<1>4. does \in [1 .. n -> Deeds] /\ \A k \in 1 .. n : does[k] = links(k)
  BY <1>3
<1> HIDE DEF does
<1>5. chain = [k \in 0 .. n |-> IF k = 0 THEN Of(<<>>) ELSE Then(chain[k - 1], at, links(k))]
  BY <1>2 DEF IsChainOf, links
<1>6. chain[0] = Of(<<>>) /\ \A k \in 1 .. n : chain[k] = Then(chain[k - 1], at, links(k))
  <2>1. \A k \in 0 .. n : chain[k] =
          IF k = 0 THEN Of(<<>>) ELSE Then(chain[k - 1], at, links(k))
    BY <1>5
  <2>2. 0 \in 0 .. n /\ \A k \in 1 .. n : k \in 0 .. n /\ k # 0
    BY <1>1
  <2>3. QED
    BY <2>1, <2>2
<1>7. \A k \in 1 .. n : chain[k] = Then(chain[k - 1], at, does[k])
  BY <1>4, <1>6
<1>8. Built(Deeds, at, Emits(chain[n]))
  BY <1>1, <1>4, <1>6, <1>7, BuiltEmits
<1>9. QED
  BY <1>2, <1>8

(* What a step does, deed by deed.                                         *)
LEMMA OrderDoesIs ==
  ASSUME NEW step, NEW r, NEW s
  PROVE  LET does == step.does
         IN  /\ does[1] = "handle" => OrderDoes(step, r, s) = RunHandler(step, does[2], r)
             /\ does[1] = "restock" => OrderDoes(step, r, s) = Emits(Restock(does[2], s))
             /\ does[1] = "observe" => OrderDoes(step, r, s) = Emits(Of(<<>>))
             /\ does[1] = "fail" => OrderDoes(step, r, s) = Fails(Fail(does[2]))
             /\ does[1] = "chain" => OrderDoes(step, r, s) = Emits(Chain(step.at, does[2]))
             /\ does[1] = "note" => OrderDoes(step, r, s) = Emits(Of(<<Note(does[2])>>))
             /\ does[1] = "add" => OrderDoes(step, r, s) = Emits(Of(<<ItemAdded(does[2])>>))
BY Zenon DEF OrderDoes

LEMMA AddItemEmitIs ==
  ASSUME NEW at, NEW item, NEW returns
  PROVE  LET added == Of(<<ItemAdded(item)>>)
             emitted == AddItemEmit(at, item, returns)
         IN  /\ returns[1] = "added" => emitted = added
             /\ returns[1] = "restock" => emitted = Then(added, at, <<"restock", item>>)
             /\ returns[1] = "two" => emitted = Then(Then(added, at, returns[2]), at, returns[3])
             /\ returns[1] \in {"observe", "fail", "chain"} => emitted = Then(added, at, returns)
BY Zenon DEF AddItemEmit

LEMMA RunHandlerIs ==
  ASSUME NEW step, NEW b, NEW r
  PROVE  LET handled == RunHandler(step, b, r)
             recorded == Of(<<ItemDelivered(r.item)>>)
         IN  /\ r.type = "Acknowledge" => handled = Emits(Of(<<>>))
             /\ r.type # "Acknowledge" /\ r.item = "garbled" => handled = Fails(Undecodable)
             /\ r.type = "AddItem" /\ r.item # "garbled" /\ b.fails # None =>
                  handled = Fails(Fail(b.fails))
             /\ r.type = "AddItem" /\ r.item # "garbled" /\ b.fails = None =>
                  handled = Emits(AddItemEmit(step.at, r.item, b.returns))
             /\ r.type = "ItemDelivered" /\ r.item # "garbled" =>
                  /\ b.fact[1] = "recorded" => handled = Emits(recorded)
                  /\ b.fact[1] = "note" =>
                       handled = Emits(Then(recorded, step.at,
                                            <<"note", <<"delivered", r.item>>>>))
                  /\ b.fact[1] = "fail" => handled = Fails(Fail(b.fact[2]))
<1> DEFINE recorded == Of(<<ItemDelivered(r.item)>>)
           noted == Emits(Then(recorded, step.at, <<"note", <<"delivered", r.item>>>>))
           delivered == CASE b.fact[1] = "recorded" -> Emits(recorded)
                          [] b.fact[1] = "note" -> noted
                          [] b.fact[1] = "fail" -> Fails(Fail(b.fact[2]))
           added == IF b.fails # None THEN Fails(Fail(b.fails))
                    ELSE Emits(AddItemEmit(step.at, r.item, b.returns))
           handled == RunHandler(step, b, r)
<1>1. /\ b.fact[1] = "recorded" => delivered = Emits(recorded)
      /\ b.fact[1] = "note" => delivered = noted
      /\ b.fact[1] = "fail" => delivered = Fails(Fail(b.fact[2]))
  <2> HIDE DEF recorded, noted
  <2>1. QED
    BY Zenon
<1>2. handled = CASE r.type = "Acknowledge" -> Emits(Of(<<>>))
                  [] r.type # "Acknowledge" /\ r.item = "garbled" -> Fails(Undecodable)
                  [] r.type = "AddItem" /\ r.item # "garbled" -> added
                  [] r.type = "ItemDelivered" /\ r.item # "garbled" -> delivered
  BY Zenon DEF RunHandler
<1> HIDE DEF delivered, added, handled, noted, recorded
<1>3. /\ r.type = "Acknowledge" => handled = Emits(Of(<<>>))
      /\ r.type # "Acknowledge" /\ r.item = "garbled" => handled = Fails(Undecodable)
  BY <1>2, Zenon
<1>4. r.type = "AddItem" /\ r.item # "garbled" => handled = added
  BY <1>2, Zenon
<1>5. r.type = "ItemDelivered" /\ r.item # "garbled" => handled = delivered
  BY <1>2, Zenon
<1>6. /\ b.fails # None => added = Fails(Fail(b.fails))
      /\ b.fails = None => added = Emits(AddItemEmit(step.at, r.item, b.returns))
  BY DEF added
<1>7. QED
  BY <1>1, <1>3, <1>4, <1>5, <1>6 DEF handled, noted, recorded

LEMMA AddItemBuilds ==
  ASSUME OrderComponent, NEW b \in Behaviours, NEW at \in H!Steps, NEW item \in Items
  PROVE  Built(Deeds, at, Emits(AddItemEmit(at, item, b.returns)))
<1> DEFINE events == <<ItemAdded(item)>>
           returns == b.returns
           emitted == AddItemEmit(at, item, returns)
<1>1. events \in Emissions /\ IsReturns(returns) /\ 2 <= MaxSteps
  BY DEF OrderComponent, TierConstants
<1>2. /\ returns[1] = "added" => emitted = Of(events)
      /\ returns[1] = "restock" => emitted = Then(Of(events), at, <<"restock", item>>)
      /\ returns[1] = "two" =>
           emitted = Then(Then(Of(events), at, returns[2]), at, returns[3])
      /\ returns[1] \in {"observe", "fail", "chain"} =>
           emitted = Then(Of(events), at, returns)
  BY AddItemEmitIs
<1> HIDE DEF emitted, events, returns
<1>3. CASE returns[1] = "added"
  BY <1>1, <1>2, <1>3, BuiltOf DEF emitted, returns
<1>4. CASE returns[1] = "restock"
  <2>1. <<"restock", item>> \in Deeds
    BY DEF Deeds
  <2>2. Built(Deeds, at, Emits(Then(Of(events), at, <<"restock", item>>)))
    BY <1>1, <2>1, BuiltThen
  <2>3. QED
    BY <1>2, <1>4, <2>2 DEF emitted, returns
<1>5. CASE returns[1] \in {"observe", "fail", "chain"} /\ returns \in Deeds
  <2>1. Built(Deeds, at, Emits(Then(Of(events), at, returns)))
    BY <1>1, <1>5, BuiltThen
  <2>2. QED
    BY <1>2, <1>5, <2>1 DEF emitted, returns
<1>6. CASE returns[1] = "two" /\ returns[2] \in Deeds /\ returns[3] \in Deeds
  <2>1. Built(Deeds, at, Emits(Then(Then(Of(events), at, returns[2]), at, returns[3])))
    BY <1>1, <1>6, BuiltThenThen
  <2>2. QED
    BY <1>2, <1>6, <2>1 DEF emitted, returns
<1>7. QED
  BY <1>1, <1>3, <1>4, <1>5, <1>6 DEF IsReturns

LEMMA HandlersBuild ==
  ASSUME OrderComponent, NEW b \in Behaviours, NEW at \in H!Steps, NEW r, IsRequest(r),
         NEW step, step.at = at
  PROVE  Built(Deeds, at, RunHandler(step, b, r))
<1> DEFINE handled == RunHandler(step, b, r)
           recorded == Of(<<ItemDelivered(r.item)>>)
           words == <<"delivered", r.item>>
<1>1. /\ r.type \in {"AddItem", "Acknowledge", "ItemDelivered"}
      /\ r.item # "garbled" => r.item \in Items
  BY DEF IsRequest, OrderComponent, TierConstants, Items
<1>2. /\ <<>> \in Emissions
      /\ r.item # "garbled" => <<ItemDelivered(r.item)>> \in Emissions
      /\ Undecodable \in Failures /\ \A how \in Hows : Fail(how) \in Failures
      /\ b.fails \in Hows \cup {None}
      /\ \/ b.fact[1] \in {"recorded", "note"}
         \/ b.fact[1] = "fail" /\ b.fact[2] \in Hows
  BY <1>1 DEF OrderComponent, TierConstants, IsFactReturns
<1>3. /\ r.type = "Acknowledge" => handled = Emits(Of(<<>>))
      /\ r.type # "Acknowledge" /\ r.item = "garbled" => handled = Fails(Undecodable)
      /\ r.type = "AddItem" /\ r.item # "garbled" /\ b.fails # None =>
           handled = Fails(Fail(b.fails))
      /\ r.type = "AddItem" /\ r.item # "garbled" /\ b.fails = None =>
           handled = Emits(AddItemEmit(step.at, r.item, b.returns))
      /\ r.type = "ItemDelivered" /\ r.item # "garbled" =>
           /\ b.fact[1] = "recorded" => handled = Emits(recorded)
           /\ b.fact[1] = "note" =>
                handled = Emits(Then(recorded, step.at, <<"note", words>>))
           /\ b.fact[1] = "fail" => handled = Fails(Fail(b.fact[2]))
  BY RunHandlerIs
<1> HIDE DEF handled, words
<1>4. CASE r.type = "Acknowledge"
  BY <1>2, <1>3, <1>4, BuiltOf DEF handled
<1>5. CASE r.type # "Acknowledge" /\ r.item = "garbled"
  BY <1>2, <1>3, <1>5, BuiltFails DEF handled
<1>6. CASE r.type = "AddItem" /\ r.item # "garbled"
  <2>1. CASE b.fails # None
    <3>1. Fail(b.fails) \in Failures
      BY <1>2, <2>1
    <3>2. Built(Deeds, at, Fails(Fail(b.fails)))
      BY <3>1, BuiltFails
    <3>3. QED
      BY <1>3, <1>6, <2>1, <3>2 DEF handled
  <2>2. CASE b.fails = None
    <3>1. Built(Deeds, at, Emits(AddItemEmit(at, r.item, b.returns)))
      BY <1>1, <1>6, AddItemBuilds
    <3>2. QED
      BY <1>3, <1>6, <2>2, <3>1 DEF handled
  <2>3. QED
    BY <2>1, <2>2
<1>7. CASE r.type = "ItemDelivered" /\ r.item # "garbled"
  <2>1. CASE b.fact[1] = "recorded"
    <3>1. Built(Deeds, at, Emits(recorded))
      BY <1>2, <1>7, BuiltOf
    <3>2. QED
      BY <1>3, <1>7, <2>1, <3>1 DEF handled
  <2>2. CASE b.fact[1] = "note"
    <3>1. <<"note", words>> \in Deeds
      <4>1. words \in Words
        BY <1>1, <1>7 DEF Words, words
      <4>2. QED
        BY <4>1 DEF Deeds
    <3>2. Built(Deeds, at, Emits(Then(recorded, at, <<"note", words>>)))
      BY <1>2, <1>7, <3>1, BuiltThen
    <3>3. QED
      BY <1>3, <1>7, <2>2, <3>2 DEF handled
  <2>3. CASE b.fact[1] = "fail"
    <3>1. Fail(b.fact[2]) \in Failures
      BY <1>2, <2>3
    <3>2. Built(Deeds, at, Fails(Fail(b.fact[2])))
      BY <3>1, BuiltFails
    <3>3. QED
      BY <1>3, <1>7, <2>3, <3>2 DEF handled
  <2>4. QED
    BY <1>2, <2>1, <2>2, <2>3
<1>8. QED
  BY <1>1, <1>4, <1>5, <1>6, <1>7

(* One deed of these, whose business code is asked of no input unless it   *)
(* is a handler.                                                           *)
LEMMA DeedBuilds ==
  ASSUME OrderComponent, NEW at \in H!Steps, NEW does \in Deeds, NEW r, NEW s,
         IsRequest(r) \/ does[1] # "handle"
  PROVE  Built(Deeds, at, Does(StepOf(at, does), r, s))
<1> DEFINE step == StepOf(at, does)
<1>1. step.does = does /\ step.at = at
  BY DEF StepOf
<1> HIDE DEF step
<1>2. Does(step, r, s) = OrderDoes(step, r, s)
  BY DEF OrderComponent, TierConstants
<1>3. /\ does[1] = "handle" => OrderDoes(step, r, s) = RunHandler(step, does[2], r)
      /\ does[1] = "restock" => OrderDoes(step, r, s) = Emits(Restock(does[2], s))
      /\ does[1] = "observe" => OrderDoes(step, r, s) = Emits(Of(<<>>))
      /\ does[1] = "fail" => OrderDoes(step, r, s) = Fails(Fail(does[2]))
      /\ does[1] = "chain" => OrderDoes(step, r, s) = Emits(Chain(at, does[2]))
      /\ does[1] = "note" => OrderDoes(step, r, s) = Emits(Of(<<Note(does[2])>>))
      /\ does[1] = "add" => OrderDoes(step, r, s) = Emits(Of(<<ItemAdded(does[2])>>))
  BY <1>1, OrderDoesIs
<1> SUFFICES Built(Deeds, at, OrderDoes(step, r, s))
  BY <1>2 DEF step
<1>4. CASE \E b \in Behaviours : does = <<"handle", b>>
  <2>1. PICK b \in Behaviours : does = <<"handle", b>>
    BY <1>4
  <2>2. Built(Deeds, at, RunHandler(step, b, r))
    <3>1. IsRequest(r)
      BY <2>1
    <3>2. QED
      BY <1>1, <3>1, HandlersBuild
  <2>3. QED
    BY <1>3, <2>1, <2>2
<1>5. CASE does = <<"observe">>
  <2>1. Built(Deeds, at, Emits(Of(<<>>)))
    BY BuiltOf DEF OrderComponent, TierConstants
  <2>2. QED
    BY <1>3, <1>5, <2>1
<1>6. CASE \E item \in Items : does = <<"restock", item>>
  <2>1. PICK item \in Items : does = <<"restock", item>>
    BY <1>6
  <2> DEFINE words == <<"restock", item>>
  <2>2. words \in Words
    BY DEF Words
  <2> HIDE DEF words
  <2>3. <<Note(words)>> \in Emissions /\ <<>> \in Emissions
    BY <2>2 DEF OrderComponent, TierConstants
  <2>4. Restock(item, s) \in {Of(<<Note(words)>>), Of(<<>>)}
    BY DEF Restock, words
  <2>5. Built(Deeds, at, Emits(Of(<<Note(words)>>))) /\ Built(Deeds, at, Emits(Of(<<>>)))
    BY <2>3, BuiltOf
  <2>6. Built(Deeds, at, Emits(Restock(item, s)))
    BY <2>4, <2>5
  <2>7. QED
    BY <1>3, <2>1, <2>6
<1>7. CASE \E how \in Hows : does = <<"fail", how>>
  <2>1. PICK how \in Hows : does = <<"fail", how>>
    BY <1>7
  <2>2. Built(Deeds, at, Fails(Fail(how)))
    BY BuiltFails DEF OrderComponent, TierConstants
  <2>3. QED
    BY <1>3, <2>1, <2>2
<1>8. CASE \E n \in 0 .. MaxSteps : does = <<"chain", n>>
  <2>1. PICK n \in 0 .. MaxSteps : does = <<"chain", n>>
    BY <1>8
  <2>2. Built(Deeds, at, Emits(Chain(at, n)))
    BY BuiltChain
  <2>3. QED
    BY <1>3, <2>1, <2>2
<1>9. CASE \E words \in Words : does = <<"note", words>>
  <2>1. PICK words \in Words : does = <<"note", words>>
    BY <1>9
  <2>2. <<Note(words)>> \in Emissions
    BY DEF OrderComponent, TierConstants
  <2>3. Built(Deeds, at, Emits(Of(<<Note(words)>>)))
    BY <2>2, BuiltOf
  <2>4. QED
    BY <1>3, <2>1, <2>3
<1>10. CASE \E item \in Items : does = <<"add", item>>
  <2>1. PICK item \in Items : does = <<"add", item>>
    BY <1>10
  <2>2. <<ItemAdded(item)>> \in Emissions
    BY DEF OrderComponent, TierConstants
  <2>3. Built(Deeds, at, Emits(Of(<<ItemAdded(item)>>)))
    BY <2>2, BuiltOf
  <2>4. QED
    BY <1>3, <2>1, <2>3
<1>11. QED
  BY <1>4, <1>5, <1>6, <1>7, <1>8, <1>9, <1>10 DEF Deeds

LEMMA OrdersBuildByThen ==
  ASSUME OrderComponent
  PROVE  BuildsByThen(Deeds)
<1>1. \A b \in Behaviours : <<"handle", b>> \in Deeds
  BY DEF Deeds
<1>2. QED
  BY <1>1, DeedBuilds DEF BuildsByThen

(* The stream of orders runs as Handle does, whatever its components do of *)
(* what the conformance tier has them do (lib.rs, order_aggregate).        *)
THEOREM OrdersRunInOrder ==
  ASSUME NoneIsNoClosure, OrderComponent
  PROVE  OrdersSpec => ImplementsHandle
BY OrdersBuildByThen, ClosuresRunInOrder

-----------------------------------------------------------------------------
(* The state of an order.                                                  *)

(* The component's state and folds are order_rebuilder's.                  *)
OrderFolds ==
  /\ TierFolds
  /\ Fresh = OrderFresh
  /\ \A s, view : Apply(s, view) = OrderApply(s, view)

(* Where `item` is added.                                                  *)
AddedIn(events, item) == {k \in 1 .. Len(events) : events[k] = ItemAdded(item)}

(* `s` is what the fold of `events` comes to: the items are those added,   *)
(* one of a kind is one added once, and the note is one of those made.     *)
IsOrderOf(s, events) ==
  /\ s = [items |-> s.items, delivered |-> s.delivered, notes |-> s.notes]
  /\ \A item : item \in DOMAIN s.items <=> AddedIn(events, item) # {}
  /\ \A item \in DOMAIN s.items :
       /\ s.items[item] \in Nat \ {0}
       /\ s.items[item] = 1 <=> \E k : AddedIn(events, item) = {k}
  /\ s.notes # <<>> => \E k \in 1 .. Len(events) : events[k] = Note(s.notes)

LEMMA EventKinds ==
  ASSUME NEW v
  PROVE  /\ ItemAdded(v)[1] = "ItemAdded" /\ ItemAdded(v)[2] = v
         /\ ItemDelivered(v)[1] = "ItemDelivered" /\ ItemDelivered(v)[2] = v
         /\ Note(v)[1] = "OrderNoteAdded" /\ Note(v)[2] = v
BY DEF ItemAdded, ItemDelivered, Note

LEMMA EventsDiffer ==
  ASSUME NEW v, NEW w
  PROVE  /\ ItemAdded(v) # ItemDelivered(w) /\ ItemAdded(v) # Note(w)
         /\ ItemDelivered(v) # Note(w)
         /\ ItemAdded(v) = ItemAdded(w) => v = w
         /\ Note(v) = Note(w) => v = w
BY DEF ItemAdded, ItemDelivered, Note

(* An order no event was folded into.                                      *)
LEMMA OrderOfNone == IsOrderOf(OrderFresh, <<>>)
<1>1. OrderFresh.items = SetToBag({}) /\ OrderFresh.notes = <<>>
      /\ OrderFresh = [items |-> OrderFresh.items, delivered |-> OrderFresh.delivered,
                       notes |-> OrderFresh.notes]
  BY DEF OrderFresh, EmptyBag
<1>2. DOMAIN OrderFresh.items = {}
  BY <1>1 DEF SetToBag
<1>3. \A item : AddedIn(<<>>, item) = {}
  BY DEF AddedIn
<1>4. QED
  BY <1>1, <1>2, <1>3 DEF IsOrderOf

(* Where an item is added, with one event more.                            *)
LEMMA AddedByOne ==
  ASSUME NEW events \in Seq(Events), NEW e, NEW item
  PROVE  AddedIn(Append(events, e), item) =
           AddedIn(events, item) \cup
             (IF e = ItemAdded(item) THEN {Len(events) + 1} ELSE {})
<1>1. /\ Len(events) \in Nat /\ Len(Append(events, e)) = Len(events) + 1
      /\ \A k \in 1 .. Len(events) : Append(events, e)[k] = events[k]
      /\ Append(events, e)[Len(events) + 1] = e
  OBVIOUS
<1>2. QED
  BY <1>1 DEF AddedIn

(* The fold of one event.                                                  *)
LEMMA OrderOfOne ==
  ASSUME OrderFolds, NEW events \in Seq(Events), NEW e \in Events,
         NEW s, IsOrderOf(s, events), NEW view, view.event = e
  PROVE  IsOrderOf(Apply(s, view), Append(events, e))
<1> DEFINE all == Append(events, e)
           t == Apply(s, view)
           n == Len(events)
<1>1. t = OrderApply(s, view) /\ \E v : e \in {ItemAdded(v), ItemDelivered(v), Note(v)}
  BY DEF OrderFolds, TierFolds
<1>2. /\ n \in Nat /\ Len(all) = n + 1 /\ all[n + 1] = e
      /\ \A k \in 1 .. n : all[k] = events[k]
  OBVIOUS
<1>3. \A item : AddedIn(all, item) =
        AddedIn(events, item) \cup (IF e = ItemAdded(item) THEN {n + 1} ELSE {})
  BY AddedByOne
<1>4. \A item : AddedIn(events, item) \subseteq 1 .. n
  BY DEF AddedIn
<1>5. /\ s = [items |-> s.items, delivered |-> s.delivered, notes |-> s.notes]
      /\ \A item : item \in DOMAIN s.items <=> AddedIn(events, item) # {}
      /\ \A item \in DOMAIN s.items :
           /\ s.items[item] \in Nat \ {0}
           /\ s.items[item] = 1 <=> \E k : AddedIn(events, item) = {k}
      /\ s.notes # <<>> => \E k \in 1 .. n : events[k] = Note(s.notes)
  BY DEF IsOrderOf
<1> HIDE DEF all, t, n
<1>6. s.notes # <<>> => \E k \in 1 .. Len(all) : all[k] = Note(s.notes)
  BY <1>2, <1>5
<1>7. ASSUME NEW v, e = ItemAdded(v)
      PROVE  IsOrderOf(t, all)
  <2> DEFINE one == SetToBag({v})
             bag == s.items (+) one
  <2>1. /\ DOMAIN one = {v} /\ one[v] = 1
        /\ DOMAIN bag = DOMAIN s.items \cup {v}
        /\ \A x \in DOMAIN s.items \ {v} : bag[x] = s.items[x] + 0
        /\ bag[v] = (IF v \in DOMAIN s.items THEN s.items[v] ELSE 0) + 1
    BY DEF SetToBag, (+)
  <2>2. t = [s EXCEPT !.items = bag]
    <3>1. e[1] = "ItemAdded" /\ e[2] = v
      BY <1>7, EventKinds
    <3>2. QED
      BY <1>1, <3>1 DEF OrderApply
  <2> HIDE DEF one, bag
  <2>3. t = [items |-> bag, delivered |-> s.delivered, notes |-> s.notes]
    BY <1>5, <2>2
  <2>4. t.items = bag /\ t.delivered = s.delivered /\ t.notes = s.notes
    BY <2>3
  <2>5. \A item : AddedIn(all, item) =
          IF item = v THEN AddedIn(events, v) \cup {n + 1} ELSE AddedIn(events, item)
    <3>1. \A item : e = ItemAdded(item) <=> item = v
      BY <1>7, EventsDiffer
    <3>2. QED
      BY <1>3, <3>1
  <2>6. ASSUME NEW item
        PROVE  item \in DOMAIN t.items <=> AddedIn(all, item) # {}
    BY <1>5, <2>1, <2>4, <2>5
  <2>7. ASSUME NEW item \in DOMAIN t.items
        PROVE  /\ t.items[item] \in Nat \ {0}
               /\ t.items[item] = 1 <=> \E k : AddedIn(all, item) = {k}
    <3>1. CASE item # v
      <4>1. t.items[item] = s.items[item] /\ item \in DOMAIN s.items
        BY <1>5, <2>1, <2>4, <3>1
      <4>2. QED
        BY <1>5, <2>5, <3>1, <4>1
    <3>2. CASE item = v /\ v \in DOMAIN s.items
      <4>1. s.items[v] \in Nat \ {0} /\ t.items[v] = s.items[v] + 1
        BY <1>5, <2>1, <2>4, <3>2
      <4>2. PICK j : j \in AddedIn(events, v)
        BY <1>5, <3>2
      <4>3. j # n + 1 /\ j \in AddedIn(all, v) /\ n + 1 \in AddedIn(all, v)
        BY <1>2, <1>4, <2>5, <4>2
      <4>4. ~ \E k : AddedIn(all, v) = {k}
        BY <4>3
      <4>5. t.items[v] \in Nat \ {0} /\ t.items[v] # 1
        BY <4>1
      <4>6. QED
        BY <3>2, <4>4, <4>5
    <3>3. CASE item = v /\ v \notin DOMAIN s.items
      <4>1. t.items[v] = 1
        BY <2>1, <2>4, <3>3
      <4>2. AddedIn(all, v) = {n + 1}
        BY <1>5, <2>5, <3>3
      <4>3. QED
        BY <3>3, <4>1, <4>2
    <3>4. QED
      BY <3>1, <3>2, <3>3
  <2>8. t = [items |-> t.items, delivered |-> t.delivered, notes |-> t.notes]
    BY <2>3, <2>4
  <2>9. QED
    BY <1>6, <2>4, <2>6, <2>7, <2>8 DEF IsOrderOf
<1>8. ASSUME NEW v, e \in {ItemDelivered(v), Note(v)}
      PROVE  IsOrderOf(t, all)
  <2>1. \A item : AddedIn(all, item) = AddedIn(events, item)
    <3>1. \A item : e # ItemAdded(item)
      BY <1>8, EventsDiffer
    <3>2. QED
      BY <1>3, <3>1
  <2>2. /\ t.items = s.items
        /\ t = [items |-> t.items, delivered |-> t.delivered, notes |-> t.notes]
        /\ t.notes = IF e = Note(v) THEN v ELSE s.notes
    <3>1. CASE e = ItemDelivered(v)
      <4>1. e # Note(v) /\ t = [s EXCEPT !.delivered = Append(@, v)]
        <5>1. e # Note(v) /\ e[1] = "ItemDelivered" /\ e[2] = v
          BY <3>1, EventKinds, EventsDiffer
        <5>2. QED
          BY <1>1, <5>1 DEF OrderApply
      <4>2. t = [items |-> s.items, delivered |-> Append(s.delivered, v), notes |-> s.notes]
        BY <1>5, <4>1
      <4>3. QED
        BY <4>1, <4>2
    <3>2. CASE e = Note(v)
      <4>1. t = [s EXCEPT !.notes = v]
        <5>1. e[1] = "OrderNoteAdded" /\ e[2] = v
          BY <3>2, EventKinds
        <5>2. QED
          BY <1>1, <5>1 DEF OrderApply
      <4>2. t = [items |-> s.items, delivered |-> s.delivered, notes |-> v]
        BY <1>5, <4>1
      <4>3. QED
        BY <3>2, <4>2
    <3>3. QED
      BY <1>8, <3>1, <3>2
  <2>3. t.notes # <<>> => \E k \in 1 .. Len(all) : all[k] = Note(t.notes)
    <3>1. CASE e = Note(v)
      <4>1. n + 1 \in 1 .. Len(all) /\ all[n + 1] = Note(t.notes)
        BY <1>2, <2>2, <3>1
      <4>2. QED
        BY <4>1
    <3>2. CASE e # Note(v)
      BY <1>6, <2>2, <3>2
    <3>3. QED
      BY <3>1, <3>2
  <2>4. QED
    BY <1>5, <2>1, <2>2, <2>3 DEF IsOrderOf
<1>9. QED
  BY <1>1, <1>7, <1>8 DEF t, all

(* The events of pages.                                                    *)
EventsOf(pages) == [k \in 1 .. Len(pages) |-> pages[k].event]

LEMMA EventsOfPages ==
  ASSUME NEW pages, Len(pages) \in Nat,
         \A k \in 1 .. Len(pages) : pages[k].event \in Events
  PROVE  /\ EventsOf(pages) \in Seq(Events)
         /\ Len(EventsOf(pages)) = Len(pages)
         /\ \A k \in 1 .. Len(pages) : EventsOf(pages)[k] = pages[k].event
<1> DEFINE n == Len(pages)
           event(k) == pages[k].event
<1>1. n \in Nat /\ \A k \in 1 .. n : event(k) \in Events
  OBVIOUS
<1>2. EventsOf(pages) = [k \in 1 .. n |-> event(k)]
  BY DEF EventsOf
<1> HIDE DEF n, event
<1>3. /\ [k \in 1 .. n |-> event(k)] \in Seq(Events)
      /\ Len([k \in 1 .. n |-> event(k)]) = n
  BY <1>1
<1>4. \A k \in 1 .. n : EventsOf(pages)[k] = event(k)
  BY <1>2
<1>5. QED
  BY <1>2, <1>3, <1>4 DEF n, event

(* One element more of a sequence.                                         *)
LEMMA PrefixAndNext ==
  ASSUME NEW S, NEW seq \in Seq(S), NEW n \in 0 .. Len(seq) - 1
  PROVE  /\ SubSeq(seq, 1, n) \in Seq(S)
         /\ Append(SubSeq(seq, 1, n), seq[n + 1]) = SubSeq(seq, 1, n + 1)
<1>1. n \in Nat /\ Len(seq) \in Nat /\ n + 1 \in 1 .. Len(seq)
  OBVIOUS
<1>2. SubSeq(seq, 1, n + 1) = SubSeq(seq, 1, n) \o <<seq[n + 1]>>
  <2>1. (n + 1) - 1 = n /\ 1 \in 1 .. Len(seq) /\ n + 1 \in 1 .. Len(seq)
    BY <1>1
  <2>2. SubSeq(seq, 1, n + 1) = SubSeq(seq, 1, (n + 1) - 1) \o <<seq[n + 1]>>
    BY <2>1, SubSeqRecursiveSecond
  <2>3. QED
    BY <2>1, <2>2
<1>3. SubSeq(seq, 1, n) \in Seq(S) /\ seq[n + 1] \in S
  <2>1. \A i \in 1 .. n : seq[i] \in S
    BY <1>1
  <2>2. SubSeq(seq, 1, n) \in Seq(S)
    BY <1>1, <2>1, SubSeqProperties
  <2>3. QED
    BY <1>1, <2>2
<1>4. QED
  BY <1>2, <1>3, AppendIsConcat

(* The parts of a concatenation.                                           *)
LEMMA PrefixAndMore ==
  ASSUME NEW S, NEW seq \in Seq(S), NEW more \in Seq(S)
  PROVE  /\ seq \o more \in Seq(S)
         /\ Len(seq \o more) = Len(seq) + Len(more)
         /\ \A i \in 1 .. Len(seq) : (seq \o more)[i] = seq[i]
         /\ \A i \in 1 .. Len(more) :
              (seq \o more)[Len(seq) + i] = more[i] /\ more[i] \in S
         /\ SubSeq(seq \o more, 1, Len(seq)) = seq
         /\ SubSeq(seq \o more, 1, Len(seq) + Len(more)) = seq \o more
<1>1. /\ seq \o more \in Seq(S)
      /\ Len(seq \o more) = Len(seq) + Len(more)
      /\ \A i \in 1 .. Len(seq) + Len(more) :
           (seq \o more)[i] = IF i <= Len(seq) THEN seq[i] ELSE more[i - Len(seq)]
  BY ConcatProperties
<1>2. Len(seq) \in Nat /\ Len(more) \in Nat
  OBVIOUS
<1>3. \A i \in 1 .. Len(more) : (seq \o more)[Len(seq) + i] = more[i] /\ more[i] \in S
  BY <1>1, <1>2
<1>4. SubSeq(seq \o more, 1, Len(seq)) = seq
  <2>1. CASE Len(seq) = 0
    <3>1. seq = <<>> /\ SubSeq(seq \o more, 1, Len(seq)) = <<>>
      BY <2>1, SubSeqEmpty
    <3>2. QED
      BY <3>1
  <2>2. CASE Len(seq) # 0
    <3>1. SubSeq(seq \o more, 1, Len(seq)) = SubSeq(seq, 1, Len(seq))
      BY <1>2, <2>2, SubSeqOfConcat1
    <3>2. QED
      BY <3>1, SubSeqFull
  <2>3. QED
    BY <2>1, <2>2
<1>5. QED
  BY <1>1, <1>2, <1>3, <1>4, SubSeqFull

(* The fold of pages onto an order's state is the state of all the events. *)
LEMMA OrderOfPages ==
  ASSUME OrderFolds, NEW events \in Seq(Events), NEW start, start.error = None,
         IsOrderOf(start.state, events), NEW pages, Len(pages) \in Nat,
         \A k \in 1 .. Len(pages) : pages[k].event \in Events,
         NEW cover, NEW origin, ApplyPages(start, pages, cover, origin).error = None
  PROVE  IsOrderOf(ApplyPages(start, pages, cover, origin).state,
                   events \o EventsOf(pages))
<1> DEFINE f == FoldRun(start, pages, cover, origin)
           m == Len(events)
           n == Len(pages)
           all == events \o EventsOf(pages)
           I == {i \in Nat : i <= n /\ f[i].error = None =>
                               IsOrderOf(f[i].state, SubSeq(all, 1, m + i))}
<1>1. /\ f[0] = start
      /\ \A i \in 0 .. n - 1 : f[i + 1] = FoldPage(f[i], pages[i + 1], cover, origin)
  BY FoldRunSteps
<1>2. f[n] = ApplyPages(start, pages, cover, origin)
  BY DEF ApplyPages
<1>3. /\ m \in Nat /\ n \in Nat /\ all \in Seq(Events) /\ Len(all) = m + n
      /\ \A i \in 1 .. n : all[m + i] = pages[i].event /\ pages[i].event \in Events
      /\ SubSeq(all, 1, m) = events /\ SubSeq(all, 1, m + n) = all
  <2> DEFINE more == EventsOf(pages)
  <2>1. /\ more \in Seq(Events) /\ Len(more) = n
        /\ \A k \in 1 .. n : more[k] = pages[k].event
    BY EventsOfPages
  <2>2. m \in Nat /\ n \in Nat /\ m = Len(events)
    OBVIOUS
  <2> HIDE DEF more, m, n, f, I
  <2>3. /\ all \in Seq(Events) /\ Len(all) = Len(events) + Len(more)
        /\ \A i \in 1 .. Len(more) : all[Len(events) + i] = more[i] /\ more[i] \in Events
        /\ SubSeq(all, 1, Len(events)) = events
        /\ SubSeq(all, 1, Len(events) + Len(more)) = all
    BY <2>1, PrefixAndMore DEF more
  <2> HIDE DEF all
  <2>4. QED
    BY <2>1, <2>2, <2>3
<1> HIDE DEF f, all, m, n
<1>4. 0 \in I
  <2>1. f[0] = start /\ SubSeq(all, 1, m + 0) = events
    BY <1>1, <1>3
  <2>2. QED
    BY <2>1
<1>5. ASSUME NEW i \in Nat, i \in I
      PROVE  i + 1 \in I
  <2>1. SUFFICES ASSUME i + 1 <= n, f[i + 1].error = None
                 PROVE  IsOrderOf(f[i + 1].state, SubSeq(all, 1, m + (i + 1)))
    OBVIOUS
  <2> DEFINE page == pages[i + 1]
             sofar == SubSeq(all, 1, m + i)
  <2>2. f[i + 1] = FoldPage(f[i], page, cover, origin) /\ page.event \in Events
    BY <1>1, <1>3, <2>1
  <2>3. f[i].error = None
    BY <2>1, <2>2 DEF FoldPage
  <2>4. Folds(page)
    BY <2>2 DEF Folds, OrderFolds, TierFolds
  <2>5. f[i + 1].state = Apply(f[i].state, View(page, cover))
    <3>1. \A e : FoldFailed(OriginReason(origin), <<>>) # None
      BY FoldFailedIsDefect
    <3>2. ~ Rejects(f[i].state, View(page, cover))
      BY <2>1, <2>2, <2>3, <2>4, <3>1 DEF FoldPage, Failing
    <3>3. QED
      BY <2>2, <2>3, <2>4, <3>2 DEF FoldPage, Ok
  <2>6. IsOrderOf(f[i].state, sofar)
    <3>1. i <= n
      BY <1>3, <2>1
    <3>2. QED
      BY <1>5, <2>3, <3>1
  <2>7. sofar \in Seq(Events) /\ Append(sofar, page.event) = SubSeq(all, 1, m + (i + 1))
    <3>1. m + i \in 0 .. Len(all) - 1 /\ all[(m + i) + 1] = page.event
          /\ (m + i) + 1 = m + (i + 1)
      <4>1. m + i \in Int /\ 0 <= m + i /\ m + i <= (m + n) - 1
            /\ (m + i) + 1 = m + (i + 1) /\ i + 1 \in 1 .. n
        BY <1>3, <2>1
      <4>2. QED
        BY <1>3, <4>1
    <3>2. QED
      BY <1>3, <3>1, PrefixAndNext
  <2>8. View(page, cover).event = page.event
    BY DEF View
  <2> HIDE DEF sofar, page
  <2>9. IsOrderOf(Apply(f[i].state, View(page, cover)), Append(sofar, page.event))
    BY <2>2, <2>6, <2>7, <2>8, OrderOfOne
  <2>10. QED
    BY <2>5, <2>7, <2>9
<1>6. \A i \in Nat : i \in I
  <2> HIDE DEF I
  <2>1. QED
    BY <1>4, <1>5, SetInduction
<1>7. IsOrderOf(f[n].state, SubSeq(all, 1, m + n))
  BY <1>2, <1>3, <1>6
<1>8. QED
  BY <1>2, <1>3, <1>7 DEF all

(* So with the folds of the router's own pages.                            *)
LEMMA SameApplyPages ==
  ASSUME NEW start, NEW pages, NEW cover, NEW origin
  PROVE  ApplyPages(start, pages, cover, origin) = H!ApplyPages(start, pages, cover, origin)
<1>1. FoldRun(start, pages, cover, origin) = H!FoldRun(start, pages, cover, origin)
  BY DEF FoldRun, H!FoldRun, FoldPage, H!FoldPage, Folds, H!Folds, View, H!View,
         Ok, H!Ok, Failing, H!Failing, FoldFailed, H!FoldFailed, OriginReason,
         H!OriginReason, Keyed, H!Keyed, Coded, H!Coded, Surface, H!Surface
<1>2. QED
  BY <1>1 DEF ApplyPages, H!ApplyPages

(* A decision's own events, as it folds them.                              *)
LEMMA OrderOfEmitted ==
  ASSUME OrderFolds, NEW events \in Seq(Events), NEW s, IsOrderOf(s, events),
         NEW more \in Seq(Events), NEW cover, NEW from, NEW meta,
         H!ApplyEmitted(s, more, cover, from, meta).error = None
  PROVE  IsOrderOf(H!ApplyEmitted(s, more, cover, from, meta).state, events \o more)
<1> DEFINE pages == H!Numbered(more, from, meta)
           folded == ApplyPages(Ok(s), pages, cover, "emitted")
           n == Len(more)
<1>1. n \in Nat /\ \A k \in 1 .. n : more[k] \in Events
  OBVIOUS
<1>2. /\ pages = [k \in 1 .. n |-> H!Page(more[k], from + k - 1, meta)]
      /\ \A k \in 1 .. n : pages[k].event = more[k]
  BY DEF H!Numbered, H!Page
<1>3. more = [k \in 1 .. n |-> more[k]]
  OBVIOUS
<1>4. H!ApplyEmitted(s, more, cover, from, meta) = folded
  BY SameApplyPages DEF H!ApplyEmitted, Ok, H!Ok
<1> HIDE DEF pages, folded, n
<1>5. Len(pages) = n /\ EventsOf(pages) = more
  <2>1. Len(pages) = n
    BY <1>1, <1>2
  <2>2. EventsOf(pages) = [k \in 1 .. n |-> more[k]]
    BY <1>2, <2>1 DEF EventsOf
  <2>3. QED
    BY <1>3, <2>1, <2>2
<1>6. Ok(s).state = s /\ Ok(s).error = None
  BY DEF Ok
<1>7. folded.error = None
  BY <1>4
<1>8. IsOrderOf(folded.state, events \o EventsOf(pages))
  BY <1>1, <1>2, <1>5, <1>6, <1>7, OrderOfPages DEF folded
<1>9. QED
  BY <1>4, <1>5, <1>8

-----------------------------------------------------------------------------
(* What a dispatch does at each of its steps.                              *)

(* Handle's constructors are Errors'.                                      *)
LEMMA SameFactFailure ==
  ASSUME NEW r, NEW e
  PROVE  H!DecideError(r, e) = IF r.arm = "fact" THEN AsFactFailure(e) ELSE e
BY DEF H!DecideError, H!IsFact, H!AsFactFailure, AsFactFailure, H!Bug, Bug, H!Keyed, Keyed,
       H!Coded, Coded, H!Surface, Surface, H!BusinessStatuses, BusinessStatuses

(* An error is answered as one, whatever the input.                        *)
LEMMA ErrorsAreTold ==
  ASSUME NEW r, NEW e \in CodedErrors
  PROVE  H!DecideError(r, e) # None
<1>1. AsFactFailure(e) # None /\ e # None
  BY FactFailureIsDefect, DefectsAreErrors, ErrorsAssumption
<1>2. QED
  BY <1>1, SameFactFailure

LEMMA UnknownTypesAreTold ==
  ASSUME NEW r
  PROVE  H!UnknownType(H!RouteReason(r)) # None
<1>1. H!RouteReason(r) \in Reasons
  BY DEF H!RouteReason, Reasons
<1>2. <<>> \in Seq(Reasons \cup Keys)
  OBVIOUS
<1>3. H!UnknownType(H!RouteReason(r)) = Keyed(H!RouteReason(r), <<>>)
  BY DEF H!UnknownType, H!Keyed, Keyed, H!Coded, Coded, H!Surface, Surface
<1>4. QED
  BY <1>1, <1>2, <1>3, KeyedIsDefect, DefectsAreErrors

(* A call fails as its first step does, and leaves the rest.               *)
LEMMA CallComesTo ==
  ASSUME NoneIsNoClosure, NEW deeds, BuildsByThen(deeds), NEW d \in Dispatches,
         IsRequest(req[d]), NEW steps \in Seq(StepsOf(deeds)), steps # <<>>,
         Len(steps) <= MaxSteps, Calls(next[d], steps),
         NEW outcome, outcome = CallClosure(next[d], req[d], state[d]),
         NEW inner, inner = Does(steps[1], req[d], state[d])
  PROVE  \/ /\ outcome.failure # None /\ outcome.failure \in Failures
            /\ inner.failure = outcome.failure
         \/ /\ outcome.failure = None /\ inner.failure = None
            /\ \E added \in Seq(StepsOf(deeds)) :
                 /\ Adds(deeds, steps[1].at, inner, added)
                 /\ outcome.emit.events = inner.emit.events
                 /\ Calls(outcome.emit.next, added \o Tail(steps))
<1>1. steps[1] \in StepsOf(deeds)
  OBVIOUS
<1> DEFINE at == steps[1].at
<1>2. /\ at \in H!Steps /\ steps[1].does \in deeds
      /\ steps[1] = StepOf(at, steps[1].does)
  BY <1>1, StepsAreSteps
<1>3. Built(deeds, at, inner)
  BY <1>2 DEF BuildsByThen
<1> HIDE DEF at
<1>4. /\ inner.failure # None => outcome = inner
      /\ \A added \in Seq(StepsOf(deeds)) :
           inner.failure = None /\ Calls(inner.emit.next, added) =>
             /\ outcome.failure = None
             /\ outcome.emit.events = inner.emit.events
             /\ Calls(outcome.emit.next, added \o Tail(steps))
  BY CallOfClosure
<1>5. \/ inner.failure \in Failures /\ inner.failure # None
      \/ \E added : Adds(deeds, at, inner, added)
  BY <1>2, <1>3, BuiltCalls
<1>6. CASE inner.failure \in Failures /\ inner.failure # None
  BY <1>4, <1>6
<1>7. ASSUME NEW added, Adds(deeds, at, inner, added)
      PROVE  /\ outcome.failure = None /\ inner.failure = None
             /\ added \in Seq(StepsOf(deeds))
             /\ outcome.emit.events = inner.emit.events
             /\ Calls(outcome.emit.next, added \o Tail(steps))
  <2>1. /\ inner.failure = None /\ added \in Seq(StepsOf(deeds))
        /\ Calls(inner.emit.next, added)
    BY <1>7 DEF Adds
  <2>2. QED
    BY <1>4, <2>1
<1>8. QED
  BY <1>5, <1>6, <1>7 DEF at

-----------------------------------------------------------------------------
(* What is recorded, and what a dispatch makes of it.                      *)

(* What is absent is no record.                                            *)
NoneIsNoState ==
  /\ \A any : [state |-> any] # None
  /\ \A s : Encoded(s) # None
  /\ \A cover, snapshot, pages, n :
       [cover |-> cover, snapshot |-> snapshot, pages |-> pages, next |-> n] # None

Recorded == EventsOf(log)

(* A state that was kept: of the first n events recorded.                  *)
KeepsFirst(any, n) ==
  \E s : any = Encoded(s) /\ IsOrderOf(s, SubSeq(Recorded, 1, n))

(* A history is of all that is recorded; while steps run, the state is of  *)
(* that and of the events decided so far; and an answer's state is of that *)
(* and of its events.                                                      *)
SeenOK(d) ==
  /\ pc[d] \in {"idle", "route", "rebuild"} => answered[d] = <<>>
  /\ pc[d] \in {"route", "rebuild"} => req[d].history \in OrderHistories
  /\ pc[d] \in {"call", "fold", "encode"} => IsOrderOf(state[d], Recorded \o answered[d])
  /\ pc[d] = "answered" /\ answer[d].error = None =>
       \E s : answer[d].state = Encoded(s) /\ IsOrderOf(s, Recorded \o answer[d].events)

SeenInv ==
  /\ state = [d \in Dispatches |-> state[d]]
  /\ seen \in Seq(Elements(seen))
  /\ \A k \in 1 .. Len(log) : log[k].event \in Events
  /\ image # None => image.upto <= Len(log) /\ KeepsFirst(image.state, image.upto)
  /\ \A d \in Dispatches : SeenOK(d)

(* A dispatch's steps, by what each makes of it.                           *)
Told(d) == pc'[d] = "answered" /\ answer'[d].error # None

Begins(d) ==
  /\ pc[d] = "rebuild" /\ Rebuilt(req[d].history).error = None
  /\ pc'[d] = "call" /\ state'[d] = Rebuilt(req[d].history).state
  /\ next'[d] = Handler /\ answered'[d] = answered[d]

CalledNext(d) ==
  LET outcome == CallClosure(next[d], req[d], state[d])
  IN  /\ pc[d] = "call" /\ outcome.failure = None
      /\ pc'[d] = "fold" /\ state'[d] = state[d] /\ answered'[d] = answered[d]
      /\ emit'[d] = outcome.emit.events /\ next'[d] = outcome.emit.next

FoldedIn(d) ==
  LET folded == H!ApplyEmitted(state[d], emit[d], H!DecideCover(req[d]),
                               H!NextEmitted(d), H!EventMeta(req[d]))
  IN  /\ pc[d] = "fold" /\ folded.error = None
      /\ pc'[d] = (IF next[d] = None THEN "encode" ELSE "call")
      /\ state'[d] = folded.state /\ answered'[d] = answered[d] \o emit[d]
      /\ next'[d] = next[d]

AnsweredWith(d) ==
  /\ pc[d] = "encode" /\ pc'[d] = "answered"
  /\ answer'[d] = [error |-> None, events |-> answered[d],
                   state |-> EncodeState(state[d])]

LEMMA DispatchMoves ==
  ASSUME NoneIsNoClosure, NEW deeds, BuildsByThen(deeds), OrdersInv(deeds), SeenInv,
         NEW d \in Dispatches, EmitStep(d)
  PROVE  /\ UNCHANGED req /\ state' = [c \in Dispatches |-> state'[c]]
         /\ \/ /\ pc[d] = "route" /\ pc'[d] = "rebuild" /\ answered'[d] = answered[d]
            \/ Told(d) \/ Begins(d) \/ CalledNext(d) \/ FoldedIn(d) \/ AnsweredWith(d)
<1> USE DEF Told
<1>1. /\ Maps /\ state = [c \in Dispatches |-> state[c]]
      /\ OneOK(deeds, pc[d], req[d], emit[d], next[d], answered[d], ran[d], answer[d])
  BY DEF OrdersInv, SeenInv
<1>2. ASSUME NEW e, e # None, H!AnswerError(d, e)
      PROVE  Told(d)
  <2>1. answer' = [answer EXCEPT ![d] = [error |-> e, events |-> <<>>, state |-> None]]
        /\ pc' = [pc EXCEPT ![d] = "answered"]
    BY <1>2 DEF H!AnswerError, H!Goto
  <2>2. answer'[d] = [error |-> e, events |-> <<>>, state |-> None] /\ pc'[d] = "answered"
    BY <1>1, <2>1 DEF Maps
  <2>3. QED
    BY <1>2, <2>2
<1>3. CASE UNCHANGED next /\ H!Route(d)
  <2>1. /\ pc[d] = "route" /\ UNCHANGED <<req, state, answered>>
        /\ \/ H!Goto(d, "rebuild")
           \/ H!AnswerError(d, H!UnknownType(H!RouteReason(req[d])))
    BY <1>3 DEF H!Route
  <2>2. H!Goto(d, "rebuild") => pc'[d] = "rebuild"
    BY <1>1 DEF Maps, H!Goto
  <2>3. QED
    BY <1>1, <1>2, <2>1, <2>2, UnknownTypesAreTold
<1>4. CASE UNCHANGED next /\ H!Answer(d)
  <2>1. /\ pc[d] = "encode" /\ UNCHANGED <<req, state>>
        /\ answer' = [answer EXCEPT ![d] =
             [error |-> None, events |-> answered[d], state |-> H!EncodeState(state[d])]]
        /\ pc' = [pc EXCEPT ![d] = "answered"]
    BY <1>4 DEF H!Answer, H!Goto
  <2>2. H!EncodeState(state[d]) = EncodeState(state[d])
    BY DEF H!EncodeState, EncodeState, H!Encoded, Encoded
  <2>3. AnsweredWith(d)
    BY <1>1, <2>1, <2>2 DEF Maps, AnsweredWith
  <2>4. QED
    BY <1>1, <2>1, <2>3
<1>5. CASE Begin(d)
  <2> DEFINE rebuilt == Rebuilt(req[d].history)
             theirs == H!Rebuilt(req[d].history)
  <2>1. /\ pc[d] = "rebuild"
        /\ next' = [next EXCEPT ![d] = IF rebuilt.error = None THEN Handler ELSE next[d]]
        /\ UNCHANGED <<req, answered>>
        /\ IF theirs.error # None
           THEN H!AnswerError(d, theirs.error) /\ UNCHANGED state
           ELSE /\ state' = [state EXCEPT ![d] = theirs.state]
                /\ H!Goto(d, "call")
    BY <1>5 DEF Begin, H!RebuildState
  <2>2. rebuilt = theirs
    BY SameRebuilt
  <2> HIDE DEF rebuilt, theirs
  <2>3. CASE theirs.error # None
    BY <1>1, <1>2, <2>1, <2>3
  <2>4. CASE theirs.error = None
    <3>1. /\ state' = [state EXCEPT ![d] = rebuilt.state] /\ pc' = [pc EXCEPT ![d] = "call"]
          /\ next' = [next EXCEPT ![d] = Handler] /\ rebuilt.error = None
      BY <2>1, <2>2, <2>4 DEF H!Goto
    <3>2. /\ pc'[d] = "call" /\ state'[d] = rebuilt.state /\ next'[d] = Handler
          /\ answered'[d] = answered[d]
      BY <1>1, <2>1, <3>1 DEF Maps
    <3>3. Begins(d)
      BY <2>1, <3>1, <3>2 DEF Begins, rebuilt
    <3>4. state' = [c \in Dispatches |-> state'[c]]
      BY <1>1, <3>1
    <3>5. QED
      BY <2>1, <3>3, <3>4
  <2>5. QED
    BY <2>3, <2>4
<1>6. CASE CallNext(d)
  <2> DEFINE outcome == CallClosure(next[d], req[d], state[d])
             inner(steps) == Does(steps[1], req[d], state[d])
  <2>1. /\ pc[d] = "call" /\ UNCHANGED <<req, state, answered>>
        /\ \/ /\ outcome.failure # None
              /\ H!AnswerError(d, H!DecideError(req[d], CallHandler(outcome.failure)))
           \/ /\ outcome.failure = None
              /\ emit' = [emit EXCEPT ![d] = outcome.emit.events]
              /\ next' = [next EXCEPT ![d] = outcome.emit.next]
              /\ pc' = [pc EXCEPT ![d] = "fold"]
    BY <1>6 DEF CallNext, H!Goto
  <2>2. PICK steps \in Seq(StepsOf(deeds)) :
          Len(steps) <= MaxSteps /\ Calls(next[d], steps) /\ steps # <<>>
    BY <1>1, <2>1 DEF OneOK, Waits
  <2>3. IsRequest(req[d])
    BY <1>1, <2>1 DEF OneOK
  <2>4. outcome.failure # None => outcome.failure \in Failures
    BY <2>2, <2>3, CallComesTo
  <2> HIDE DEF outcome
  <2>5. CASE outcome.failure # None
    <3>1. CallHandler(outcome.failure) \in CodedErrors
      BY <2>4, <2>5, CallHandlerIsError, EmitAssumption
    <3>2. QED
      BY <1>1, <1>2, <2>1, <2>5, <3>1, ErrorsAreTold
  <2>6. CASE outcome.failure = None
    <3>1. /\ emit' = [emit EXCEPT ![d] = outcome.emit.events]
          /\ next' = [next EXCEPT ![d] = outcome.emit.next]
          /\ pc' = [pc EXCEPT ![d] = "fold"]
      BY <2>1, <2>6
    <3>2. /\ pc'[d] = "fold" /\ emit'[d] = outcome.emit.events
          /\ next'[d] = outcome.emit.next
      BY <1>1, <3>1 DEF Maps
    <3>3. CalledNext(d)
      BY <2>1, <2>6, <3>2 DEF CalledNext, outcome
    <3>4. QED
      BY <1>1, <2>1, <3>3
  <2>7. QED
    BY <2>5, <2>6
<1>7. CASE FoldEmit(d)
  <2> DEFINE folded == H!ApplyEmitted(state[d], emit[d], H!DecideCover(req[d]),
                                      H!NextEmitted(d), H!EventMeta(req[d]))
  <2>1. /\ pc[d] = "fold" /\ UNCHANGED <<req, next>>
        /\ \/ /\ folded.error # None /\ UNCHANGED state
              /\ H!AnswerError(d, H!DecideError(req[d], folded.error))
           \/ /\ folded.error = None
              /\ state' = [state EXCEPT ![d] = folded.state]
              /\ answered' = [answered EXCEPT ![d] = @ \o emit[d]]
              /\ pc' = [pc EXCEPT ![d] = IF next[d] = None THEN "encode" ELSE "call"]
    BY <1>7 DEF FoldEmit, H!Goto
  <2>2. folded.error # None => folded.error \in CodedErrors
    <3> DEFINE pages == H!Numbered(emit[d], H!NextEmitted(d), H!EventMeta(req[d]))
    <3>1. emit[d] \in Seq(Events)
      BY <1>1 DEF OneOK
    <3>2. Len(pages) \in Nat
      <4> DEFINE n == Len(emit[d])
      <4>1. n \in Nat
        BY <3>1
      <4>2. \E h : pages = [k \in 1 .. n |-> h[k]]
        <5>1. pages = [k \in 1 .. n |-> pages[k]]
          BY DEF H!Numbered
        <5> HIDE DEF pages
        <5>2. QED
          BY <5>1
      <4> HIDE DEF n, pages
      <4>3. QED
        BY <4>1, <4>2
    <3>3. IsRun(Ok(state[d]))
      BY DEF IsRun, Ok
    <3>4. folded = ApplyPages(Ok(state[d]), pages, H!DecideCover(req[d]), "emitted")
      BY SameApplyPages DEF H!ApplyEmitted, Ok, H!Ok
    <3> HIDE DEF folded, pages
    <3>5. IsRun(folded)
      BY <3>2, <3>3, <3>4, ApplyPagesIsRun
    <3>6. QED
      BY <3>5, RunErrors, DefectsAreErrors
  <2> HIDE DEF folded
  <2>3. CASE folded.error # None
    BY <1>1, <1>2, <2>1, <2>2, <2>3, ErrorsAreTold
  <2>4. CASE folded.error = None
    <3>1. /\ state' = [state EXCEPT ![d] = folded.state]
          /\ answered' = [answered EXCEPT ![d] = @ \o emit[d]]
          /\ pc' = [pc EXCEPT ![d] = IF next[d] = None THEN "encode" ELSE "call"]
      BY <2>1, <2>4
    <3>2. /\ state'[d] = folded.state /\ answered'[d] = answered[d] \o emit[d]
          /\ pc'[d] = IF next[d] = None THEN "encode" ELSE "call"
      BY <1>1, <3>1 DEF Maps
    <3>3. FoldedIn(d)
      BY <2>1, <2>4, <3>2 DEF FoldedIn, folded
    <3>4. QED
      BY <1>1, <2>1, <3>1, <3>3
  <2>5. QED
    BY <2>3, <2>4
<1>8. QED
  BY <1>3, <1>4, <1>5, <1>6, <1>7 DEF EmitStep

LEMMA RecordedIs ==
  ASSUME NEW deeds, OrdersInv(deeds), SeenInv
  PROVE  /\ Recorded \in Seq(Events) /\ Len(Recorded) = Len(log) /\ Len(log) \in Nat
         /\ \A k \in 1 .. Len(log) : Recorded[k] = log[k].event
<1>1. Len(log) \in Nat
  BY DEF OrdersInv, StreamOK
<1>2. QED
  BY <1>1, EventsOfPages DEF SeenInv, Recorded

(* Whatever history the stream is read from, a rebuild is of all recorded. *)
LEMMA RebuiltIsOrder ==
  ASSUME OrderFolds, NoneIsNoState, NEW deeds, OrdersInv(deeds), SeenInv,
         NEW history \in OrderHistories, Rebuilt(history).error = None
  PROVE  IsOrderOf(Rebuilt(history).state, Recorded)
<1>1. /\ Recorded \in Seq(Events) /\ Len(Recorded) = Len(log) /\ Len(log) \in Nat
      /\ \A k \in 1 .. Len(log) : Recorded[k] = log[k].event /\ log[k].event \in Events
  BY RecordedIs DEF SeenInv
<1>2. CASE history = Book(None, log)
  <2>1. /\ history # None /\ history.snapshot = None /\ history.pages = log
    BY <1>2 DEF Book, NoneIsNoState
  <2>2. StartOf(history) = Ok(OrderFresh)
    BY <2>1 DEF StartOf, OrderFolds
  <2>3. Rebuilt(history) = ApplyPages(Ok(OrderFresh), log, history.cover, "persisted")
    BY <2>1, <2>2 DEF Rebuilt, FoldBook
  <2>4. Ok(OrderFresh).error = None /\ Ok(OrderFresh).state = OrderFresh
        /\ <<>> \in Seq(Events)
    BY DEF Ok
  <2>5. IsOrderOf(Rebuilt(history).state, <<>> \o EventsOf(log))
    BY <1>1, <2>3, <2>4, OrderOfNone, OrderOfPages
  <2>6. <<>> \o EventsOf(log) = Recorded
    BY <1>1, ConcatEmptySeq DEF Recorded
  <2>7. QED
    BY <2>5, <2>6
<1>3. CASE image # None /\ history = Book([state |-> image.state],
                                          SubSeq(log, image.upto + 1, Len(log)))
  <2> DEFINE n == image.upto
             pages == SubSeq(log, n + 1, Len(log))
             len == Len(log)
  <2>1. n \in Nat /\ n <= len /\ KeepsFirst(image.state, n)
    BY <1>3 DEF OrdersInv, StreamOK, SeenInv
  <2>2. PICK s : image.state = Encoded(s) /\ IsOrderOf(s, SubSeq(Recorded, 1, n))
    BY <2>1 DEF KeepsFirst
  <2> HIDE DEF n
  <2>3. /\ history # None /\ history.pages = pages
        /\ history.snapshot = [state |-> Encoded(s)]
    BY <1>3, <2>2 DEF Book, NoneIsNoState, n
  <2>4. StartOf(history) = Ok(s)
    <3>1. /\ history.snapshot # None /\ history.snapshot.state = Encoded(s)
          /\ Encoded(s) # None /\ HasCodec
      BY <2>3 DEF NoneIsNoState, OrderFolds, TierFolds
    <3>2. Encoded(s).kind = "encoded" /\ Encoded(s).value = s
      BY DEF Encoded
    <3>3. Decode(Encoded(s)) = Ok(s)
      BY <3>2 DEF Decode
    <3>4. QED
      BY <3>1, <3>3 DEF StartOf
  <2>5. Rebuilt(history) = ApplyPages(Ok(s), pages, history.cover, "persisted")
    BY <2>3, <2>4 DEF Rebuilt, FoldBook
  <2>6. Ok(s).error = None /\ Ok(s).state = s
    BY DEF Ok
  <2>7. /\ Len(pages) = len - n /\ len - n \in Nat
        /\ \A i \in 1 .. len - n : pages[i] = log[n + i]
    <3>1. log \in Seq(Elements(log))
      BY DEF OrdersInv, StreamOK
    <3>2. \A i \in n + 1 .. len : log[i] \in Elements(log)
      BY <1>1, <2>1, <3>1
    <3>3. len - n \in Nat /\ n + 1 \in Int /\ len \in Int
      BY <1>1, <2>1
    <3>4. /\ Len(pages) = IF n + 1 <= len THEN len - (n + 1) + 1 ELSE 0
          /\ \A i \in 1 .. len - (n + 1) + 1 : pages[i] = log[n + 1 + i - 1]
      BY <3>2, <3>3, SubSeqProperties
    <3>5. \A i \in 1 .. len - n : n + 1 + i - 1 = n + i
      BY <1>1, <2>1
    <3> HIDE DEF pages
    <3>6. QED
      BY <1>1, <2>1, <3>3, <3>4, <3>5
  <2>8. \A i \in 1 .. Len(pages) : pages[i].event = Recorded[n + i] /\ pages[i].event \in Events
    <3>1. \A i \in 1 .. len - n : n + i \in 1 .. len
      BY <1>1, <2>1
    <3> HIDE DEF pages
    <3>2. QED
      BY <1>1, <2>7, <3>1
  <2>9. EventsOf(pages) = SubSeq(Recorded, n + 1, len)
    <3>1. EventsOf(pages) = [i \in 1 .. len - n |-> Recorded[n + i]]
      <4> HIDE DEF pages, len
      <4>1. QED
        BY <2>7, <2>8 DEF EventsOf
    <3>2. SubSeq(Recorded, n + 1, len) = [i \in 1 .. len - n |-> Recorded[n + i]]
      <4>1. /\ SubSeq(Recorded, n + 1, len) \in Seq(Events)
            /\ Len(SubSeq(Recorded, n + 1, len)) = len - n
            /\ \A i \in 1 .. len - n : SubSeq(Recorded, n + 1, len)[i] = Recorded[n + i]
        <5> DEFINE all == Recorded
        <5>1. all \in Seq(Events) /\ Len(all) = len /\ len \in Nat
          BY <1>1
        <5> HIDE DEF all, len
        <5>2. n + 1 \in Int /\ len \in Int /\ \A i \in n + 1 .. len : all[i] \in Events
          BY <2>1, <5>1
        <5>3. /\ SubSeq(all, n + 1, len) \in Seq(Events)
              /\ Len(SubSeq(all, n + 1, len)) =
                   IF n + 1 <= len THEN len - (n + 1) + 1 ELSE 0
              /\ \A i \in 1 .. len - (n + 1) + 1 :
                   SubSeq(all, n + 1, len)[i] = all[n + 1 + i - 1]
          BY <5>2, SubSeqProperties
        <5>4. /\ len - (n + 1) + 1 = len - n
              /\ (IF n + 1 <= len THEN len - (n + 1) + 1 ELSE 0) = len - n
              /\ \A i \in 1 .. len - n : n + 1 + i - 1 = n + i
          BY <2>1, <5>1
        <5>5. QED
          BY <5>3, <5>4 DEF all
      <4> HIDE DEF len
      <4>2. SubSeq(Recorded, n + 1, len) =
              [i \in 1 .. Len(SubSeq(Recorded, n + 1, len)) |->
                 SubSeq(Recorded, n + 1, len)[i]]
        BY <4>1
      <4>3. QED
        BY <4>1, <4>2
    <3>3. QED
      BY <3>1, <3>2
  <2>10. SubSeq(Recorded, 1, n) \o SubSeq(Recorded, n + 1, len) = Recorded
         /\ SubSeq(Recorded, 1, n) \in Seq(Events)
    <3> DEFINE all == Recorded
    <3>1. all \in Seq(Events) /\ Len(all) = len /\ len \in Nat
      BY <1>1
    <3> HIDE DEF all, len
    <3>2. SubSeq(all, 1, n) \o SubSeq(all, n + 1, len) = SubSeq(all, 1, len)
      <4>1. 1 \in 1 .. Len(all) + 1 /\ n \in 1 - 1 .. Len(all) /\ len \in n .. Len(all)
        BY <2>1, <3>1
      <4>2. QED
        BY <3>1, <4>1, ConcatAdjacentSubSeq
    <3>3. SubSeq(all, 1, len) = all
      BY <3>1, SubSeqFull
    <3>4. SubSeq(all, 1, n) \in Seq(Events)
      <4>1. \A i \in 1 .. n : all[i] \in Events
        BY <2>1, <3>1
      <4>2. QED
        BY <2>1, <4>1, SubSeqProperties
    <3>5. QED
      BY <3>2, <3>3, <3>4 DEF all
  <2> HIDE DEF pages, len
  <2>11. IsOrderOf(Rebuilt(history).state, SubSeq(Recorded, 1, n) \o EventsOf(pages))
    BY <2>2, <2>5, <2>6, <2>7, <2>8, <2>10, OrderOfPages
  <2>12. QED
    BY <2>9, <2>10, <2>11
<1>4. QED
  BY <1>2, <1>3 DEF OrderHistories

LEMMA SeenInit ==
  ASSUME OrdersInit
  PROVE  SeenInv
<1>1. /\ log = <<>> /\ image = None /\ seen = <<>>
      /\ state = [d \in Dispatches |-> Fresh]
      /\ \A d \in Dispatches : pc[d] = "idle" /\ answered[d] = <<>>
  BY DEF OrdersInit, EmitInit, H!Init
<1>2. state = [d \in Dispatches |-> state[d]]
  BY <1>1
<1>3. seen \in Seq(Elements(seen))
  BY <1>1 DEF Elements
<1>4. QED
  BY <1>1, <1>2, <1>3 DEF SeenInv, SeenOK

(* What business code saw stays a sequence.                                *)
LEMMA SeenGrows ==
  ASSUME SeenInv, NEW step, NEW r, NEW s, seen' = seen \o Observes(step, r, s)
  PROVE  /\ seen' \in Seq(Elements(seen'))
         /\ seen' # seen => Last(seen') = [handled |-> step.does[1],
                                           items |-> BagToSet(s.items)]
<1> DEFINE one == [handled |-> step.does[1], items |-> BagToSet(s.items)]
<1>1. seen \in Seq(Elements(seen))
  BY DEF SeenInv
<1>2. CASE Observes(step, r, s) = <<>>
  BY <1>1, <1>2, ConcatEmptySeq
<1>3. CASE Observes(step, r, s) = <<one>>
  <2> DEFINE S == Elements(seen) \cup {one}
  <2>1. seen \in Seq(S) /\ <<one>> \in Seq(S) /\ Len(<<one>>) = 1 /\ <<one>>[1] = one
    <3> HIDE DEF one
    <3>1. QED
      BY <1>1
  <2> HIDE DEF S, one
  <2>2. /\ seen' \in Seq(S) /\ Len(seen') = Len(seen) + 1 /\ seen'[Len(seen) + 1] = one
    BY <1>3, <2>1, PrefixAndMore
  <2>3. Last(seen') = one
    BY <2>2 DEF Last
  <2>4. seen' \in Seq(Elements(seen'))
    BY <2>2, SeqOfElements
  <2>5. QED
    BY <2>3, <2>4 DEF one
<1>4. QED
  BY <1>2, <1>3 DEF Observes

LEMMA DispatchKeepsSeen ==
  ASSUME OrderFolds, OneAtATime, NoneIsNoState, NoneIsNoClosure,
         NEW deeds, BuildsByThen(deeds), OrdersInv(deeds), SeenInv,
         NEW d \in Dispatches, Dispatch(d)
  PROVE  SeenInv'
<1>1. /\ EmitStep(d) /\ UNCHANGED <<log, image>>
      /\ \/ UNCHANGED seen
         \/ \E step : seen' = seen \o Observes(step, req[d], state[d])
  BY DEF Dispatch
<1>2. /\ UNCHANGED req /\ state' = [c \in Dispatches |-> state'[c]]
      /\ \/ /\ pc[d] = "route" /\ pc'[d] = "rebuild" /\ answered'[d] = answered[d]
         \/ Told(d) \/ Begins(d) \/ CalledNext(d) \/ FoldedIn(d) \/ AnsweredWith(d)
  BY <1>1, DispatchMoves
<1>3. seen' \in Seq(Elements(seen'))
  <2>1. CASE UNCHANGED seen
    BY <2>1 DEF SeenInv, Elements
  <2>2. QED
    BY <1>1, <2>1, SeenGrows
<1>4. /\ Recorded' = Recorded /\ OrderHistories' = OrderHistories
      /\ \A k \in 1 .. Len(log') : log'[k].event \in Events
      /\ (image # None => image.upto <= Len(log) /\ KeepsFirst(image.state, image.upto))'
  BY <1>1 DEF SeenInv, Recorded, OrderHistories, Book, KeepsFirst
<1>5. SeenOK(d) /\ Recorded \in Seq(Events)
      /\ OneOK(deeds, pc[d], req[d], emit[d], next[d], answered[d], ran[d], answer[d])
  BY RecordedIs DEF SeenInv, OrdersInv
<1>6. SeenOK(d)'
  <2>1. CASE pc[d] = "route" /\ pc'[d] = "rebuild" /\ answered'[d] = answered[d]
    BY <1>2, <1>4, <1>5, <2>1 DEF SeenOK
  <2>2. CASE Told(d)
    BY <2>2 DEF Told, SeenOK
  <2>3. CASE Begins(d)
    <3>1. IsOrderOf(Rebuilt(req[d].history).state, Recorded)
      BY <1>5, <2>3, RebuiltIsOrder DEF Begins, SeenOK
    <3>2. answered[d] = <<>> /\ Recorded \o <<>> = Recorded
      BY <1>5, <2>3, ConcatEmptySeq DEF Begins, SeenOK
    <3>3. IsOrderOf(state'[d], Recorded' \o answered'[d])
      BY <1>4, <2>3, <3>1, <3>2 DEF Begins
    <3>4. pc'[d] = "call"
      BY <2>3 DEF Begins
    <3>5. QED
      BY <3>3, <3>4 DEF SeenOK
  <2>4. CASE CalledNext(d)
    <3>1. pc[d] = "call" /\ pc'[d] = "fold" /\ state'[d] = state[d] /\ answered'[d] = answered[d]
      BY <2>4 DEF CalledNext
    <3>2. QED
      BY <1>4, <1>5, <3>1 DEF SeenOK
  <2>5. CASE FoldedIn(d)
    <3> DEFINE folded == H!ApplyEmitted(state[d], emit[d], H!DecideCover(req[d]),
                                        H!NextEmitted(d), H!EventMeta(req[d]))
    <3>1. /\ pc[d] = "fold" /\ folded.error = None /\ pc'[d] \in {"encode", "call"}
          /\ state'[d] = folded.state /\ answered'[d] = answered[d] \o emit[d]
      BY <2>5 DEF FoldedIn
    <3>2. /\ IsOrderOf(state[d], Recorded \o answered[d]) /\ answered[d] \in Seq(Events)
          /\ emit[d] \in Seq(Events)
      BY <1>5, <3>1 DEF SeenOK, OneOK
    <3>3. Recorded \o answered[d] \in Seq(Events)
      BY <1>5, <3>2, ConcatProperties
    <3>4. IsOrderOf(folded.state, (Recorded \o answered[d]) \o emit[d])
      BY <3>1, <3>2, <3>3, OrderOfEmitted
    <3>5. (Recorded \o answered[d]) \o emit[d] = Recorded \o (answered[d] \o emit[d])
      <4> DEFINE a == Recorded
                 b == answered[d]
                 c == emit[d]
      <4>1. a \in Seq(Events) /\ b \in Seq(Events) /\ c \in Seq(Events)
        BY <1>5, <3>2
      <4> HIDE DEF a, b, c
      <4>2. (a \o b) \o c = a \o (b \o c)
        BY <4>1, ConcatAssociative
      <4>3. QED
        BY <4>2 DEF a, b, c
    <3> HIDE DEF folded
    <3>6. IsOrderOf(state'[d], Recorded' \o answered'[d])
      BY <1>4, <3>1, <3>4, <3>5
    <3>7. QED
      BY <3>1, <3>6 DEF SeenOK
  <2>6. CASE AnsweredWith(d)
    <3> DEFINE a == [error |-> None, events |-> answered[d],
                     state |-> EncodeState(state[d])]
    <3>1. pc[d] = "encode" /\ pc'[d] = "answered" /\ answer'[d] = a
      BY <2>6 DEF AnsweredWith
    <3>2. a.state = Encoded(state[d]) /\ a.events = answered[d]
      BY DEF EncodeState, OrderFolds, TierFolds
    <3> HIDE DEF a
    <3>3. IsOrderOf(state[d], Recorded' \o answer'[d].events)
          /\ answer'[d].state = Encoded(state[d])
      BY <1>4, <1>5, <3>1, <3>2 DEF SeenOK
    <3>4. QED
      BY <3>1, <3>3 DEF SeenOK
  <2>7. QED
    BY <1>2, <2>1, <2>2, <2>3, <2>4, <2>5, <2>6
<1>7. \A c \in Dispatches : SeenOK(c)'
  <2>1. \A c \in Dispatches : c = d
    BY DEF OneAtATime
  <2>2. QED
    BY <1>6, <2>1
<1>8. QED
  BY <1>2, <1>3, <1>4, <1>7 DEF SeenInv

LEMMA SendKeepsSeen ==
  ASSUME OneAtATime, NEW deeds, OrdersInv(deeds), SeenInv,
         NEW d \in Dispatches, NEW input \in Inputs, Send(d, input)
  PROVE  SeenInv'
<1>1. PICK history \in OrderHistories :
        Deliver(d, [arm |-> input.arm, type |-> input.type, item |-> input.item,
                    id |-> sent, cover |-> "order-1", history |-> history])
  BY DEF Send
<1> DEFINE r == [arm |-> input.arm, type |-> input.type, item |-> input.item,
                 id |-> sent, cover |-> "order-1", history |-> history]
<1>2. /\ pc[d] = "idle" /\ req' = [req EXCEPT ![d] = r] /\ pc' = [pc EXCEPT ![d] = "route"]
      /\ UNCHANGED <<state, answered, answer>> /\ UNCHANGED <<log, image, seen>>
  BY <1>1 DEF Send, Deliver, H!Deliver, H!Goto
<1>3. r.history = history
  OBVIOUS
<1> HIDE DEF r
<1>4. req'[d] = r /\ pc'[d] = "route"
  BY <1>2 DEF OrdersInv, Maps
<1>5. /\ Recorded' = Recorded /\ OrderHistories' = OrderHistories
      /\ seen' \in Seq(Elements(seen'))
      /\ \A k \in 1 .. Len(log') : log'[k].event \in Events
      /\ (image # None => image.upto <= Len(log) /\ KeepsFirst(image.state, image.upto))'
  BY <1>2 DEF SeenInv, Recorded, OrderHistories, Book, KeepsFirst, Elements
<1>6. SeenOK(d)'
  <2>1. answered'[d] = <<>>
    BY <1>2 DEF SeenInv, SeenOK
  <2>2. QED
    BY <1>3, <1>4, <1>5, <2>1 DEF SeenOK
<1>7. \A c \in Dispatches : SeenOK(c)'
  <2>1. \A c \in Dispatches : c = d
    BY DEF OneAtATime
  <2>2. QED
    BY <1>6, <2>1
<1>8. QED
  BY <1>2, <1>5, <1>7 DEF SeenInv

(* What is recorded once an answer is.                                     *)
LEMMA RecordedGrows ==
  ASSUME NEW deeds, OrdersInv(deeds), SeenInv, NEW d \in Dispatches,
         NEW events \in Seq(Events), log' = log \o H!Stamped(req[d], events)
  PROVE  /\ Recorded' = Recorded \o events
         /\ Len(log') = Len(Recorded) + Len(events)
         /\ \A k \in 1 .. Len(log') : log'[k].event \in Events
<1> DEFINE pages == H!Stamped(req[d], events)
           n == Len(events)
           S == Elements(log) \cup Elements(pages)
<1>1. /\ Recorded \in Seq(Events) /\ Len(Recorded) = Len(log) /\ Len(log) \in Nat
      /\ \A k \in 1 .. Len(log) : Recorded[k] = log[k].event
  BY RecordedIs
<1>2. n \in Nat /\ \A k \in 1 .. n : events[k] \in Events
  OBVIOUS
<1>3. /\ pages = [k \in 1 .. n |-> pages[k]]
      /\ \A k \in 1 .. n : pages[k].event = events[k]
  BY DEF H!Stamped, H!Page
<1> HIDE DEF pages, n
<1>4. Len(pages) = n
  BY <1>2, <1>3
<1>5. log \in Seq(S) /\ pages \in Seq(S)
  <2>1. log \in Seq(Elements(log))
    BY DEF OrdersInv, StreamOK
  <2>2. \A k \in 1 .. n : pages[k] \in Elements(pages)
    BY <1>4 DEF Elements
  <2>3. pages \in Seq(Elements(pages))
    BY <1>2, <1>3, <2>2
  <2>4. QED
    BY <2>1, <2>3
<1> HIDE DEF S
<1>6. /\ log' = log \o pages /\ Len(log') = Len(log) + n
      /\ \A k \in 1 .. Len(log) : log'[k] = log[k]
      /\ \A k \in 1 .. n : log'[Len(log) + k] = pages[k]
  <2>1. log' = log \o pages
    BY DEF pages
  <2>2. /\ Len(log \o pages) = Len(log) + Len(pages)
        /\ \A k \in 1 .. Len(log) : (log \o pages)[k] = log[k]
        /\ \A k \in 1 .. Len(pages) :
             (log \o pages)[Len(log) + k] = pages[k] /\ pages[k] \in S
    BY <1>5, PrefixAndMore, Zenon
  <2>3. QED
    BY <1>4, <2>1, <2>2
<1>7. \A k \in 1 .. Len(log') :
        log'[k].event = (IF k <= Len(log) THEN Recorded[k] ELSE events[k - Len(log)])
  <2>1. TAKE k \in 1 .. Len(log')
  <2>2. CASE k <= Len(log)
    BY <1>1, <1>6, <2>2
  <2>3. CASE ~ k <= Len(log)
    <3>1. k - Len(log) \in 1 .. n /\ Len(log) + (k - Len(log)) = k
      BY <1>1, <1>2, <1>6, <2>3
    <3>2. QED
      BY <1>3, <1>6, <2>3, <3>1
  <2>4. QED
    BY <2>2, <2>3
<1>8. /\ Recorded \o events \in Seq(Events)
      /\ Len(Recorded \o events) = Len(log) + n
      /\ \A k \in 1 .. Len(log) + n :
           (Recorded \o events)[k] =
             IF k <= Len(log) THEN Recorded[k] ELSE events[k - Len(log)]
  <2>1. /\ Recorded \o events \in Seq(Events)
        /\ Len(Recorded \o events) = Len(Recorded) + Len(events)
        /\ \A k \in 1 .. Len(Recorded) + Len(events) :
             (Recorded \o events)[k] =
               IF k <= Len(Recorded) THEN Recorded[k] ELSE events[k - Len(Recorded)]
    BY <1>1, ConcatProperties, Zenon
  <2>2. QED
    BY <1>1, <2>1 DEF n
<1>9. Recorded' = [k \in 1 .. Len(log) + n |-> (Recorded \o events)[k]]
  <2>1. Recorded' = [k \in 1 .. Len(log') |-> log'[k].event]
    BY DEF Recorded, EventsOf
  <2>2. QED
    BY <1>6, <1>7, <1>8, <2>1
<1>10. Recorded' = Recorded \o events
  <2> DEFINE all == Recorded \o events
  <2>1. all \in Seq(Events) /\ Len(all) = Len(log) + n
    BY <1>8
  <2> HIDE DEF all
  <2>2. all = [k \in 1 .. Len(all) |-> all[k]]
    BY <2>1
  <2>3. QED
    BY <1>9, <2>1, <2>2 DEF all
<1>11. \A k \in 1 .. Len(log') : log'[k].event \in Events
  <2>1. TAKE k \in 1 .. Len(log')
  <2>2. k <= Len(log) => k \in 1 .. Len(Recorded) /\ Recorded[k] \in Events
    BY <1>1, <1>6
  <2>3. ~ k <= Len(log) => k - Len(log) \in 1 .. n
    BY <1>1, <1>2, <1>6
  <2>4. QED
    BY <1>2, <1>7, <2>2, <2>3
<1>12. QED
  BY <1>1, <1>6, <1>10, <1>11 DEF n

LEMMA CollectKeepsSeen ==
  ASSUME OneAtATime, NEW deeds, OrdersInv(deeds), SeenInv, NEW d \in Dispatches, Collect(d)
  PROVE  SeenInv'
<1>1. /\ pc[d] = "answered" /\ H!Forget(d) /\ UNCHANGED seen
      /\ \/ UNCHANGED <<log, image>>
         \/ /\ answer[d].error = None
            /\ log' = log \o H!Stamped(req[d], answer[d].events)
            /\ image' \in {image, [state |-> answer[d].state, upto |-> Len(log')]}
  BY DEF Collect, Forget
<1>2. SeenOK(d) /\ answer[d].events \in Seq(Events)
  BY <1>1 DEF SeenInv, OrdersInv, OneOK
<1>3. /\ Recorded \in Seq(Events) /\ Len(Recorded) = Len(log) /\ Len(log) \in Nat
  BY RecordedIs
<1>4. /\ \A k \in 1 .. Len(log') : log'[k].event \in Events
      /\ (image # None => image.upto <= Len(log) /\ KeepsFirst(image.state, image.upto))'
  <2>1. CASE UNCHANGED <<log, image>>
    BY <2>1 DEF SeenInv, Recorded, KeepsFirst
  <2>2. CASE /\ answer[d].error = None
             /\ log' = log \o H!Stamped(req[d], answer[d].events)
             /\ image' \in {image, [state |-> answer[d].state, upto |-> Len(log')]}
    <3> DEFINE events == answer[d].events
               all == Recorded \o events
    <3>1. /\ Recorded' = all /\ Len(log') = Len(Recorded) + Len(events)
          /\ \A k \in 1 .. Len(log') : log'[k].event \in Events
      BY <1>2, <2>2, RecordedGrows
    <3>2. /\ Len(events) \in Nat
          /\ SubSeq(all, 1, Len(Recorded) + Len(events)) = all
      <4>1. events \in Seq(Events)
        BY <1>2
      <4> HIDE DEF events
      <4>2. Len(events) \in Nat
        BY <4>1
      <4>3. SubSeq(Recorded \o events, 1, Len(Recorded) + Len(events)) = Recorded \o events
        BY <1>3, <4>1, PrefixAndMore, Zenon
      <4>4. QED
        BY <4>2, <4>3
    <3>3. CASE image' = image
      <4>1. SUFFICES ASSUME image # None
                     PROVE  (image.upto <= Len(log) /\ KeepsFirst(image.state, image.upto))'
        BY <3>1, <3>3
      <4>2. /\ image.upto \in Nat /\ image.upto <= Len(log)
            /\ KeepsFirst(image.state, image.upto)
        BY <4>1 DEF OrdersInv, StreamOK, SeenInv
      <4> DEFINE n == image.upto
      <4>3. SubSeq(all, 1, n) = SubSeq(Recorded, 1, n)
        <5> HIDE DEF events
        <5>1. n \in 0 .. Len(Recorded)
          BY <1>3, <4>2
        <5>2. CASE n = 0
          <6>1. SubSeq(all, 1, 0) = <<>> /\ SubSeq(Recorded, 1, 0) = <<>>
            BY SubSeqEmpty
          <6>2. QED
            BY <5>2, <6>1
        <5>3. CASE n # 0
          <6>1. 1 \in 1 .. Len(Recorded) /\ n \in 1 .. Len(Recorded)
            BY <1>3, <5>1, <5>3
          <6>2. QED
            BY <1>2, <1>3, <6>1, SubSeqOfConcat1 DEF events
        <5>4. QED
          BY <5>2, <5>3
      <4>4. SubSeq(Recorded', 1, n) = SubSeq(Recorded, 1, n)
        BY <3>1, <4>3
      <4>5. KeepsFirst(image.state, image.upto)'
        BY <3>3, <4>2, <4>4 DEF KeepsFirst
      <4>6. (image.upto <= Len(log))'
        BY <1>3, <3>1, <3>2, <3>3, <4>2
      <4>7. QED
        BY <4>5, <4>6
    <3>4. CASE image' = [state |-> answer[d].state, upto |-> Len(log')]
      <4>1. image'.upto = Len(log') /\ image'.state = answer[d].state
        BY <3>4
      <4>2. PICK s : answer[d].state = Encoded(s) /\ IsOrderOf(s, all)
        BY <1>1, <1>2, <2>2 DEF SeenOK
      <4>3. SubSeq(Recorded', 1, image'.upto) = all
        BY <3>1, <3>2, <4>1
      <4>4. KeepsFirst(image.state, image.upto)'
        BY <4>1, <4>2, <4>3 DEF KeepsFirst
      <4>5. (image.upto <= Len(log))'
        <5>1. Len(log') \in Nat
          BY <1>3, <3>1, <3>2
        <5>2. QED
          BY <4>1, <5>1
      <4>6. QED
        BY <3>1, <4>4, <4>5
    <3>5. QED
      BY <2>2, <3>1, <3>3, <3>4
  <2>3. QED
    BY <1>1, <2>1, <2>2
<1>5. /\ state' = [state EXCEPT ![d] = Fresh] /\ pc' = [pc EXCEPT ![d] = "idle"]
      /\ answered' = [answered EXCEPT ![d] = <<>>]
  BY <1>1 DEF H!Forget, H!Goto
<1>6. pc'[d] = "idle" /\ answered'[d] = <<>>
      /\ state' = [c \in Dispatches |-> state'[c]]
  BY <1>5 DEF OrdersInv, Maps, SeenInv
<1>7. \A c \in Dispatches : SeenOK(c)'
  <2>1. \A c \in Dispatches : c = d
    BY DEF OneAtATime
  <2>2. SeenOK(d)'
    BY <1>6 DEF SeenOK
  <2>3. QED
    BY <2>1, <2>2
<1>8. seen' \in Seq(Elements(seen'))
  BY <1>1 DEF SeenInv, Elements
<1>9. QED
  BY <1>4, <1>6, <1>7, <1>8 DEF SeenInv

LEMMA StutterKeepsSeen ==
  ASSUME SeenInv, UNCHANGED <<emitVars, log, image, seen>>
  PROVE  SeenInv'
<1>1. UNCHANGED <<pc, req, state, answered, answer, log, image, seen>>
  BY DEF emitVars
<1>2. Recorded' = Recorded /\ OrderHistories' = OrderHistories
  BY <1>1 DEF Recorded, OrderHistories, Book
<1>3. \A d \in Dispatches : SeenOK(d)'
  BY <1>1, <1>2 DEF SeenInv, SeenOK
<1>4. QED
  BY <1>1, <1>2, <1>3 DEF SeenInv, KeepsFirst, Elements

LEMMA OrdersNextSeen ==
  ASSUME OrderFolds, OneAtATime, NoneIsNoState, NoneIsNoClosure,
         NEW deeds, BuildsByThen(deeds), OrdersInv(deeds), SeenInv,
         [OrdersNext]_ordersVars
  PROVE  SeenInv'
<1>1. ASSUME NEW step, Check(step)
      PROVE  UNCHANGED <<emitVars, log, image, seen>>
  BY <1>1 DEF Check
<1>2. UNCHANGED ordersVars => UNCHANGED <<emitVars, log, image, seen>>
  BY DEF ordersVars, world
<1>3. QED
  BY <1>1, <1>2, SendKeepsSeen, DispatchKeepsSeen, CollectKeepsSeen, StutterKeepsSeen
     DEF OrdersNext

-----------------------------------------------------------------------------
(* What business code sees.                                                *)

LEMMA ItemsAreAdded ==
  ASSUME OrderFolds, NEW events \in Seq(Events), NEW s, IsOrderOf(s, events)
  PROVE  BagToSet(s.items) = ItemsOf(events)
<1>1. ASSUME NEW k \in 1 .. Len(events), NEW item
      PROVE  events[k] = ItemAdded(item) <=>
               events[k][1] = "ItemAdded" /\ events[k][2] = item
  <2>1. events[k] \in Events
    OBVIOUS
  <2>2. PICK v : events[k] \in {ItemAdded(v), ItemDelivered(v), Note(v)}
    BY <2>1 DEF OrderFolds, TierFolds
  <2>3. QED
    BY <2>2, EventKinds, EventsDiffer
<1>2. ASSUME NEW item
      PROVE  item \in DOMAIN s.items <=> item \in ItemsOf(events)
  <2>1. item \in DOMAIN s.items <=> \E k \in 1 .. Len(events) : events[k] = ItemAdded(item)
    BY DEF IsOrderOf, AddedIn
  <2>2. item \in ItemsOf(events) <=>
          \E k \in 1 .. Len(events) : events[k][1] = "ItemAdded" /\ events[k][2] = item
    BY DEF ItemsOf
  <2>3. QED
    BY <1>1, <2>1, <2>2
<1>3. QED
  BY <1>2 DEF BagToSet

LEMMA ItemsOfBoth ==
  ASSUME NEW S, NEW seq \in Seq(S), NEW more \in Seq(S)
  PROVE  ItemsOf(seq \o more) = ItemsOf(seq) \cup ItemsOf(more)
<1> DEFINE all == seq \o more
           m == Len(seq)
           n == Len(more)
<1>1. /\ Len(all) = m + n /\ m \in Nat /\ n \in Nat
      /\ \A i \in 1 .. m : all[i] = seq[i]
      /\ \A i \in 1 .. n : all[m + i] = more[i]
  BY PrefixAndMore
<1> HIDE DEF all, m, n
<1>2. ASSUME NEW item
      PROVE  (\E k \in 1 .. m + n : all[k][1] = "ItemAdded" /\ all[k][2] = item)
             <=> \/ \E k \in 1 .. m : seq[k][1] = "ItemAdded" /\ seq[k][2] = item
                 \/ \E k \in 1 .. n : more[k][1] = "ItemAdded" /\ more[k][2] = item
  <2>1. ASSUME NEW k \in 1 .. m + n
        PROVE  \/ k \in 1 .. m /\ all[k] = seq[k]
               \/ k - m \in 1 .. n /\ all[k] = more[k - m]
    <3>1. CASE k <= m
      BY <1>1, <3>1
    <3>2. CASE ~ k <= m
      <4>1. k - m \in 1 .. n /\ m + (k - m) = k
        BY <1>1, <3>2
      <4>2. QED
        BY <1>1, <4>1
    <3>3. QED
      BY <3>1, <3>2
  <2>2. \A k \in 1 .. m : k \in 1 .. m + n
    BY <1>1
  <2>3. \A k \in 1 .. n : m + k \in 1 .. m + n
    BY <1>1
  <2> DEFINE adds(e) == e[1] = "ItemAdded" /\ e[2] = item
  <2> HIDE DEF adds
  <2>4. \A k \in 1 .. m : adds(seq[k]) => adds(all[k])
    BY <1>1
  <2>5. \A k \in 1 .. n : adds(more[k]) => adds(all[m + k])
    BY <1>1
  <2>6. (\E k \in 1 .. m + n : adds(all[k]))
        <=> (\E k \in 1 .. m : adds(seq[k])) \/ (\E k \in 1 .. n : adds(more[k]))
    BY <2>1, <2>2, <2>3, <2>4, <2>5
  <2>7. QED
    BY <2>6 DEF adds
<1>3. ItemsOf(all) = ItemsOf(seq) \cup ItemsOf(more)
  <2>1. ASSUME NEW item
        PROVE  /\ item \in ItemsOf(all) <=>
                    \E k \in 1 .. m + n : all[k][1] = "ItemAdded" /\ all[k][2] = item
               /\ item \in ItemsOf(seq) <=>
                    \E k \in 1 .. m : seq[k][1] = "ItemAdded" /\ seq[k][2] = item
               /\ item \in ItemsOf(more) <=>
                    \E k \in 1 .. n : more[k][1] = "ItemAdded" /\ more[k][2] = item
    BY <1>1 DEF ItemsOf, m, n
  <2>2. QED
    BY <1>2, <2>1
<1>4. QED
  BY <1>3 DEF all

SeesItAll(d) ==
  seen' # seen /\ pc[d] = "call" =>
    Last(seen').items =
      ItemsOf([k \in 1 .. Len(log) |-> log[k].event]) \cup ItemsOf(answered[d])

LEMMA StepSeesItAll ==
  ASSUME OrderFolds, OneAtATime, NEW deeds, OrdersInv(deeds), SeenInv,
         [OrdersNext]_ordersVars, NEW d \in Dispatches
  PROVE  SeesItAll(d)
<1>1. SUFFICES ASSUME seen' # seen, pc[d] = "call"
               PROVE  Last(seen').items = ItemsOf(Recorded) \cup ItemsOf(answered[d])
  BY DEF SeesItAll, Recorded, EventsOf
<1>2. \E step : seen' = seen \o Observes(step, req[d], state[d])
  <2>1. PICK c \in Dispatches : Dispatch(c)
    BY <1>1 DEF OrdersNext, Send, Collect, Check, ordersVars, world
  <2>2. c = d
    BY DEF OneAtATime
  <2>3. QED
    BY <1>1, <2>1, <2>2 DEF Dispatch
<1>3. Last(seen').items = BagToSet(state[d].items)
  <2>1. PICK step : seen' = seen \o Observes(step, req[d], state[d])
    BY <1>2
  <2>2. Last(seen') = [handled |-> step.does[1], items |-> BagToSet(state[d].items)]
    BY <1>1, <2>1, SeenGrows
  <2>3. QED
    BY <2>2
<1>4. /\ Recorded \in Seq(Events) /\ answered[d] \in Seq(Events)
      /\ IsOrderOf(state[d], Recorded \o answered[d])
  BY <1>1, RecordedIs DEF SeenInv, SeenOK, OrdersInv, OneOK
<1> DEFINE recorded == Recorded
           told == answered[d]
           s == state[d]
<1>5. recorded \in Seq(Events) /\ told \in Seq(Events) /\ IsOrderOf(s, recorded \o told)
  BY <1>4
<1> HIDE DEF recorded, told, s
<1>6. BagToSet(s.items) = ItemsOf(recorded \o told)
  <2>1. recorded \o told \in Seq(Events)
    BY <1>5
  <2>2. QED
    BY <1>5, <2>1, ItemsAreAdded
<1>7. ItemsOf(recorded \o told) = ItemsOf(recorded) \cup ItemsOf(told)
  BY <1>5, ItemsOfBoth
<1>8. QED
  BY <1>3, <1>6, <1>7 DEF recorded, told, s

(* Business code, be it a handler or a step, sees the items on the stream  *)
(* and those of its own decision, whole, and none of a decision that       *)
(* failed, whichever history its state was rebuilt from (lib.rs,           *)
(* order_aggregate; domain.rs, decide).                                    *)
THEOREM BusinessCodeSeesWhatIsRecorded ==
  ASSUME NoneIsNoClosure, NoneIsNoState, OrderComponent, OrderFolds, OneAtATime
  PROVE  OrdersSpec => SeesWhatIsRecorded
<1>1. BuildsByThen(Deeds)
  BY OrdersBuildByThen
<1>2. OrdersInit => OrdersInv(Deeds) /\ SeenInv
  BY OrdersInitInv, SeenInit
<1>3. OrdersInv(Deeds) /\ SeenInv /\ [OrdersNext]_ordersVars
        => OrdersInv(Deeds)' /\ SeenInv'
  BY <1>1, OrdersNextInv, OrdersNextSeen
<1>4. OrdersInv(Deeds) /\ SeenInv /\ [OrdersNext]_ordersVars
        => [\A d \in Dispatches :
              seen' # seen /\ pc[d] = "call" =>
                Last(seen').items =
                  ItemsOf([k \in 1 .. Len(log) |-> log[k].event]) \cup ItemsOf(answered[d])
             ]_ordersVars
  BY StepSeesItAll DEF SeesItAll
<1>5. QED
  BY <1>2, <1>3, <1>4, PTL DEF OrdersSpec, SeesWhatIsRecorded

-----------------------------------------------------------------------------
(* What is restocked.                                                      *)

RestockNote(item) == Note(<<"restock", item>>)

AddedBefore(events, k, item) == {j \in 1 .. k - 1 : events[j] = ItemAdded(item)}

(* The note is right after the first item of its kind, and nowhere else.   *)
RestockedIn(events) ==
  \A k \in 1 .. Len(events) : \A item :
    events[k] = RestockNote(item) <=> AddedBefore(events, k, item) = {k - 1}

(* No note is owed.                                                        *)
Settled(events) == \A item : AddedIn(events, item) # {Len(events)}

LEMMA RestockNotes ==
  ASSUME NEW item, NEW other
  PROVE  /\ RestockNote(item) # Note(<<"delivered", other>>)
         /\ RestockNote(item) # ItemAdded(other) /\ RestockNote(item) # ItemDelivered(other)
         /\ RestockNote(item) = RestockNote(other) => item = other
BY DEF RestockNote, Note, ItemAdded, ItemDelivered

LEMMA AddedBeforeIs ==
  ASSUME NEW events \in Seq(Events), NEW e, NEW item
  PROVE  /\ AddedBefore(events, Len(events) + 1, item) = AddedIn(events, item)
         /\ \A k \in 1 .. Len(events) + 1 :
              AddedBefore(Append(events, e), k, item) = AddedBefore(events, k, item)
<1>1. /\ Len(events) \in Nat
      /\ \A k \in 1 .. Len(events) : Append(events, e)[k] = events[k]
  OBVIOUS
<1>2. AddedBefore(events, Len(events) + 1, item) = AddedIn(events, item)
  BY <1>1 DEF AddedBefore, AddedIn
<1>3. ASSUME NEW k \in 1 .. Len(events) + 1
      PROVE  AddedBefore(Append(events, e), k, item) = AddedBefore(events, k, item)
  <2>1. \A j \in 1 .. k - 1 : j \in 1 .. Len(events)
    BY <1>1
  <2>2. QED
    BY <1>1, <2>1 DEF AddedBefore
<1>4. QED
  BY <1>2, <1>3

(* An event more of a stream on which no note is owed, if it is no such    *)
(* note: none is owed then unless it adds an item.                         *)
LEMMA RestockedStill ==
  ASSUME NEW events \in Seq(Events), RestockedIn(events), Settled(events),
         NEW e, \A item : e # RestockNote(item)
  PROVE  /\ RestockedIn(Append(events, e))
         /\ (\A item : e # ItemAdded(item)) => Settled(Append(events, e))
<1> DEFINE all == Append(events, e)
           n == Len(events)
<1>1. /\ n \in Nat /\ Len(all) = n + 1 /\ all[n + 1] = e
      /\ \A k \in 1 .. n : all[k] = events[k]
  OBVIOUS
<1>2. \A item : \A k \in 1 .. n + 1 : AddedBefore(all, k, item) = AddedBefore(events, k, item)
  BY AddedBeforeIs
<1>3. \A item : AddedBefore(events, n + 1, item) = AddedIn(events, item)
  BY AddedBeforeIs
<1>4. \A item : AddedIn(all, item) =
        AddedIn(events, item) \cup (IF e = ItemAdded(item) THEN {n + 1} ELSE {})
  BY AddedByOne
<1>5. \A item : AddedIn(events, item) \subseteq 1 .. n
  BY DEF AddedIn
<1>6. \A item : AddedIn(events, item) # {n}
  BY DEF Settled
<1>7. \A k \in 1 .. n : \A item :
        events[k] = RestockNote(item) <=> AddedBefore(events, k, item) = {k - 1}
  BY DEF RestockedIn
<1> HIDE DEF all, n
<1>8. ASSUME NEW k \in 1 .. n + 1, NEW item
      PROVE  all[k] = RestockNote(item) <=> AddedBefore(all, k, item) = {k - 1}
  <2>1. CASE k \in 1 .. n
    BY <1>1, <1>2, <1>7, <2>1
  <2>2. CASE k = n + 1
    <3>1. all[k] # RestockNote(item) /\ k - 1 = n
      BY <1>1, <2>2
    <3>2. AddedBefore(all, k, item) = AddedIn(events, item)
      BY <1>1, <1>2, <1>3, <2>2
    <3>3. QED
      BY <1>6, <3>1, <3>2
  <2>3. QED
    BY <1>1, <2>1, <2>2
<1>9. ASSUME \A item : e # ItemAdded(item)
      PROVE  \A item : AddedIn(all, item) # {n + 1}
  <2>1. \A item : AddedIn(all, item) = AddedIn(events, item)
    BY <1>4, <1>9
  <2>2. n + 1 \notin 1 .. n
    BY <1>1
  <2>3. QED
    BY <1>5, <2>1, <2>2
<1>10. RestockedIn(all)
  BY <1>1, <1>8 DEF RestockedIn
<1>11. (\A item : e # ItemAdded(item)) => Settled(all)
  BY <1>1, <1>9 DEF Settled
<1>12. QED
  BY <1>10, <1>11 DEF all

(* The note that is owed.                                                  *)
LEMMA RestockedThen ==
  ASSUME NEW events \in Seq(Events), RestockedIn(events), NEW item,
         AddedIn(events, item) = {Len(events)}
  PROVE  LET all == Append(events, RestockNote(item))
         IN  RestockedIn(all) /\ Settled(all)
<1> DEFINE e == RestockNote(item)
           all == Append(events, e)
           n == Len(events)
<1>1. /\ n \in Nat /\ Len(all) = n + 1 /\ all[n + 1] = e
      /\ \A k \in 1 .. n : all[k] = events[k]
  OBVIOUS
<1>2. \A other : \A k \in 1 .. n + 1 :
        AddedBefore(all, k, other) = AddedBefore(events, k, other)
  BY AddedBeforeIs
<1>3. \A other : AddedBefore(events, n + 1, other) = AddedIn(events, other)
  BY AddedBeforeIs
<1>4. \A other : AddedIn(all, other) = AddedIn(events, other)
  <2>1. \A other : e # ItemAdded(other)
    BY RestockNotes
  <2>2. \A other : AddedIn(all, other) =
          AddedIn(events, other) \cup (IF e = ItemAdded(other) THEN {n + 1} ELSE {})
    <3> HIDE DEF e
    <3>1. QED
      BY AddedByOne
  <2> HIDE DEF all, e, n
  <2>3. QED
    BY <2>1, <2>2
<1>5. \A other : AddedIn(events, other) = {n} <=> other = item
  <2>1. events[n] = ItemAdded(item)
    BY DEF AddedIn
  <2>2. ASSUME NEW other, AddedIn(events, other) = {n}
        PROVE  other = item
    <3>1. events[n] = ItemAdded(other)
      BY <2>2 DEF AddedIn
    <3>2. QED
      BY <2>1, <3>1, EventsDiffer
  <2>3. QED
    BY <2>2
<1>6. \A other : AddedIn(events, other) \subseteq 1 .. n
  BY DEF AddedIn
<1>7. \A k \in 1 .. n : \A other :
        events[k] = RestockNote(other) <=> AddedBefore(events, k, other) = {k - 1}
  BY DEF RestockedIn
<1>8. \A other : e = RestockNote(other) <=> other = item
  BY RestockNotes
<1> HIDE DEF all, n, e
<1>9. ASSUME NEW k \in 1 .. n + 1, NEW other
      PROVE  all[k] = RestockNote(other) <=> AddedBefore(all, k, other) = {k - 1}
  <2>1. CASE k \in 1 .. n
    BY <1>1, <1>2, <1>7, <2>1
  <2>2. CASE k = n + 1
    <3>1. all[k] = e /\ k - 1 = n
      BY <1>1, <2>2
    <3>2. AddedBefore(all, k, other) = AddedIn(events, other)
      BY <1>1, <1>2, <1>3, <2>2
    <3>3. QED
      BY <1>5, <1>8, <3>1, <3>2
  <2>3. QED
    BY <1>1, <2>1, <2>2
<1>10. \A other : AddedIn(all, other) # {n + 1}
  <2>1. n + 1 \notin 1 .. n
    BY <1>1
  <2>2. QED
    BY <1>4, <1>6, <2>1
<1>11. RestockedIn(all) /\ Settled(all)
  BY <1>1, <1>9, <1>10 DEF RestockedIn, Settled
<1>12. QED
  BY <1>11 DEF all, e

(* An item added again owes none.                                          *)
LEMMA RestockedBefore ==
  ASSUME NEW events \in Seq(Events), NEW item, events # <<>>,
         events[Len(events)] = ItemAdded(item), AddedIn(events, item) # {Len(events)}
  PROVE  Settled(events)
<1>1. SUFFICES ASSUME NEW other, AddedIn(events, other) = {Len(events)}
               PROVE  FALSE
  BY DEF Settled
<1>2. events[Len(events)] = ItemAdded(other)
  BY <1>1 DEF AddedIn
<1>3. QED
  BY <1>1, <1>2, EventsDiffer

(* The step tells the one from the other by the state of all the events.   *)
LEMMA RestockTells ==
  ASSUME NEW events \in Seq(Events), RestockedIn(events), NEW item, events # <<>>,
         events[Len(events)] = ItemAdded(item), NEW s, IsOrderOf(s, events)
  PROVE  Restock(item, s) = IF AddedIn(events, item) = {Len(events)}
                            THEN Of(<<RestockNote(item)>>) ELSE Of(<<>>)
<1> DEFINE n == Len(events)
           owed == /\ item \in BagToSet(s.items) /\ s.items[item] = 1
                   /\ s.notes # <<"restock", item>>
<1>1. n \in Nat \ {0} /\ n \in AddedIn(events, item)
  BY DEF AddedIn
<1>2. /\ item \in DOMAIN s.items
      /\ s.items[item] = 1 <=> \E k : AddedIn(events, item) = {k}
      /\ s.notes # <<>> => \E k \in 1 .. n : events[k] = Note(s.notes)
  BY <1>1 DEF IsOrderOf
<1>3. item \in BagToSet(s.items)
  BY <1>2 DEF BagToSet
<1>4. ASSUME AddedIn(events, item) = {n}
      PROVE  s.notes # <<"restock", item>>
  <2>1. SUFFICES ASSUME s.notes = <<"restock", item>>
                 PROVE  FALSE
    OBVIOUS
  <2>2. <<"restock", item>> # <<>>
    OBVIOUS
  <2>3. PICK k \in 1 .. n : events[k] = RestockNote(item)
    BY <1>2, <2>1, <2>2 DEF RestockNote
  <2>4. AddedBefore(events, k, item) = {k - 1}
    BY <2>3 DEF RestockedIn
  <2>5. k - 1 \in AddedIn(events, item) /\ k - 1 # n
    <3>1. k - 1 \in 1 .. k - 1 /\ events[k - 1] = ItemAdded(item)
      BY <2>4 DEF AddedBefore
    <3>2. k - 1 \in 1 .. n /\ k - 1 # n
      BY <1>1, <2>3, <3>1
    <3>3. QED
      BY <3>1, <3>2 DEF AddedIn
  <2>6. QED
    BY <1>4, <2>5
<1>5. owed <=> AddedIn(events, item) = {n}
  <2>1. ASSUME NEW k, AddedIn(events, item) = {k}
        PROVE  AddedIn(events, item) = {n}
    BY <1>1, <2>1
  <2>2. QED
    BY <1>2, <1>3, <1>4, <2>1
<1>6. QED
  BY <1>5 DEF Restock, RestockNote

(* A closure of one step does what the step does.                          *)
LEMMA CallOfStep ==
  ASSUME NoneIsNoClosure, NEW deeds, NEW steps \in Seq(StepsOf(deeds)), steps # <<>>,
         Len(steps) <= MaxSteps, NEW closure, Calls(closure, steps),
         closure.kind = "step", NEW r, NEW s
  PROVE  closure = steps[1] /\ CallClosure(closure, r, s) = Does(closure, r, s)
<1> DEFINE n == Len(steps)
<1>1. PICK chain : IsChain(chain, steps) /\ closure = chain[n]
  BY DEF Calls
<1>2. /\ Depth(closure) = n - 1 /\ n \in Nat \ {0}
      /\ \A k \in 0 .. n - 1 : Nested(closure)[k] = chain[n - k]
      /\ chain[1] = steps[1] /\ \A k \in 2 .. n : chain[k].kind = "composed"
  BY <1>1, DepthOfChain, NestedOfChain, ChainKinds
<1> HIDE DEF n
<1>3. n = 1
  <2>1. ~ n \in 2 .. n
    BY <1>1, <1>2
  <2>2. QED
    BY <1>2, <2>1
<1>4. Depth(closure) = 0 /\ Nested(closure)[0] = closure
  BY <1>1, <1>2, <1>3
<1>5. PICK called : /\ IsCalled(called, 0, closure, 0, r, s)
                    /\ CallClosure(closure, r, s) = called[0]
  BY <1>4, CallClosureIs
<1>6. called[0] = Does(Nested(closure)[0], r, s)
  BY <1>5 DEF IsCalled
<1>7. QED
  BY <1>1, <1>2, <1>3, <1>4, <1>5, <1>6

LEMMA OneContinuation ==
  ASSUME NoneIsNoClosure, NEW events, NEW at, NEW does
  PROVE  /\ Then(Of(events), at, does).events = events
         /\ \E place : Then(Of(events), at, does).next = StepOf(place, does)
BY DEF Then, Of, Push

(* What the handlers emit when AddItem restocks.                           *)
HandlerEmits(e) ==
  \/ e = Of(<<>>)
  \/ \E item : /\ e.events = <<ItemAdded(item)>>
               /\ \E at : e.next = StepOf(at, <<"restock", item>>)
  \/ \E item : /\ e.events = <<ItemDelivered(item)>>
               /\ \/ e.next = None
                  \/ \E at : e.next = StepOf(at, <<"note", <<"delivered", item>>>>)

LEMMA HandlerRestocks ==
  ASSUME NoneIsNoClosure, OrderComponent, NEW b \in Behaviours, b.returns[1] = "restock",
         NEW r, IsRequest(r), NEW step, NEW outcome, outcome = RunHandler(step, b, r),
         outcome.failure = None
  PROVE  HandlerEmits(outcome.emit)
<1> DEFINE item == r.item
           recorded == Of(<<ItemDelivered(item)>>)
           added == Of(<<ItemAdded(item)>>)
           words == <<"delivered", item>>
<1>1. /\ r.type \in {"AddItem", "Acknowledge", "ItemDelivered"}
      /\ Undecodable \in Failures /\ \A how \in Hows : Fail(how) \in Failures
      /\ b.fails \in Hows \cup {None}
      /\ \/ b.fact[1] \in {"recorded", "note"}
         \/ b.fact[1] = "fail" /\ b.fact[2] \in Hows
  BY DEF IsRequest, OrderComponent, TierConstants, IsFactReturns
<1>2. \A failure \in Failures : outcome # Fails(failure)
  BY EmitAssumption DEF Fails
<1>3. /\ r.type = "Acknowledge" => outcome = Emits(Of(<<>>))
      /\ r.type # "Acknowledge" /\ item = "garbled" => outcome = Fails(Undecodable)
      /\ r.type = "AddItem" /\ item # "garbled" /\ b.fails # None =>
           outcome = Fails(Fail(b.fails))
      /\ r.type = "AddItem" /\ item # "garbled" /\ b.fails = None =>
           outcome = Emits(AddItemEmit(step.at, item, b.returns))
      /\ r.type = "ItemDelivered" /\ item # "garbled" =>
           /\ b.fact[1] = "recorded" => outcome = Emits(recorded)
           /\ b.fact[1] = "note" => outcome = Emits(Then(recorded, step.at, <<"note", words>>))
           /\ b.fact[1] = "fail" => outcome = Fails(Fail(b.fact[2]))
  BY RunHandlerIs
<1>4. AddItemEmit(step.at, item, b.returns) = Then(added, step.at, <<"restock", item>>)
  BY AddItemEmitIs
<1>5. \A e : Emits(e).emit = e
  BY DEF Emits
<1> HIDE DEF item
<1>6. \/ outcome = Emits(Of(<<>>))
      \/ outcome = Emits(Then(added, step.at, <<"restock", item>>))
      \/ outcome = Emits(recorded)
      \/ outcome = Emits(Then(recorded, step.at, <<"note", words>>))
  <2> HIDE DEF recorded, added, words
  <2>1. CASE r.type = "Acknowledge"
    BY <1>3, <2>1
  <2>2. CASE r.type # "Acknowledge" /\ item = "garbled"
    BY <1>1, <1>2, <1>3, <2>2
  <2>3. CASE r.type = "AddItem" /\ item # "garbled"
    BY <1>1, <1>2, <1>3, <1>4, <2>3
  <2>4. CASE r.type = "ItemDelivered" /\ item # "garbled"
    BY <1>1, <1>2, <1>3, <2>4
  <2>5. QED
    BY <1>1, <2>1, <2>2, <2>3, <2>4
<1>7. CASE outcome = Emits(Of(<<>>))
  BY <1>5, <1>7 DEF HandlerEmits
<1>8. CASE outcome = Emits(Then(added, step.at, <<"restock", item>>))
  <2>1. outcome.emit = Then(added, step.at, <<"restock", item>>)
    BY <1>5, <1>8
  <2>2. /\ outcome.emit.events = <<ItemAdded(item)>>
        /\ \E at : outcome.emit.next = StepOf(at, <<"restock", item>>)
    BY <2>1, OneContinuation
  <2>3. QED
    BY <2>2 DEF HandlerEmits
<1>9. CASE outcome = Emits(recorded)
  <2>1. outcome.emit.events = <<ItemDelivered(item)>> /\ outcome.emit.next = None
    BY <1>5, <1>9 DEF Of
  <2>2. QED
    BY <2>1 DEF HandlerEmits
<1>10. CASE outcome = Emits(Then(recorded, step.at, <<"note", words>>))
  <2>1. outcome.emit = Then(recorded, step.at, <<"note", words>>)
    BY <1>5, <1>10
  <2>2. /\ outcome.emit.events = <<ItemDelivered(item)>>
        /\ \E at : outcome.emit.next = StepOf(at, <<"note", words>>)
    BY <2>1, OneContinuation
  <2>3. QED
    BY <2>2 DEF words, HandlerEmits
<1>11. QED
  BY <1>6, <1>7, <1>8, <1>9, <1>10

(* A decision's continuation, and what it may owe a note on.               *)
ContinuesWith(handler, closure, events) ==
  /\ RestockedIn(events)
  /\ \/ /\ Settled(events)
        /\ \/ closure \in {None, handler}
           \/ \E at, item : closure = StepOf(at, <<"note", <<"delivered", item>>>>)
     \/ /\ events # <<>>
        /\ \E at, item : /\ closure = StepOf(at, <<"restock", item>>)
                         /\ events[Len(events)] = ItemAdded(item)

(* A call comes to the next of these.                                      *)
LEMMA CallRestocks ==
  ASSUME NoneIsNoClosure, OrderComponent, behaviour \in Behaviours,
         behaviour.returns[1] = "restock",
         NEW events \in Seq(Events), NEW closure, closure # None,
         ContinuesWith(Handler, closure, events),
         NEW s, IsOrderOf(s, events), NEW r, IsRequest(r),
         NEW outcome, outcome = Does(closure, r, s), outcome.failure = None
  PROVE  ContinuesWith(Handler, outcome.emit.next, events \o outcome.emit.events)
<1>1. outcome = OrderDoes(closure, r, s)
  BY DEF OrderComponent
<1> DEFINE does == closure.does
<1>2. /\ does[1] = "handle" => outcome = RunHandler(closure, does[2], r)
      /\ does[1] = "restock" => outcome = Emits(Restock(does[2], s))
      /\ does[1] = "note" => outcome = Emits(Of(<<Note(does[2])>>))
  BY <1>1, OrderDoesIs
<1>3. /\ Of(<<>>).events = <<>> /\ Of(<<>>).next = None
      /\ \A e : Of(<<e>>).events = <<e>> /\ Of(<<e>>).next = None
      /\ \A e : Emits(e).emit = e
      /\ \A at, deed : StepOf(at, deed).does = deed
  BY DEF Of, Emits, StepOf
<1>4. events \o <<>> = events /\ \A e : events \o <<e>> = Append(events, e)
  OBVIOUS
<1>5. RestockedIn(events)
  BY DEF ContinuesWith
<1>6. CASE Settled(events) /\ closure = Handler
  <2>1. outcome = RunHandler(closure, behaviour, r)
    <3>1. does = <<"handle", behaviour>>
      BY <1>3, <1>6 DEF Handler
    <3> HIDE DEF does
    <3>2. does[1] = "handle" /\ does[2] = behaviour
      BY <3>1
    <3>3. QED
      BY <1>2, <3>2
  <2>2. CASE outcome.emit = Of(<<>>)
    BY <1>3, <1>4, <1>5, <1>6, <2>2 DEF ContinuesWith
  <2>3. ASSUME NEW item, outcome.emit.events = <<ItemAdded(item)>>,
               NEW at, outcome.emit.next = StepOf(at, <<"restock", item>>)
        PROVE  ContinuesWith(Handler, outcome.emit.next, events \o outcome.emit.events)
    <3>1. RestockedIn(Append(events, ItemAdded(item)))
      BY <1>5, <1>6, RestockedStill, RestockNotes
    <3>2. LET now == Append(events, ItemAdded(item))
          IN  now # <<>> /\ now[Len(now)] = ItemAdded(item)
      OBVIOUS
    <3>3. events \o outcome.emit.events = Append(events, ItemAdded(item))
      BY <1>4, <2>3
    <3>4. QED
      BY <2>3, <3>1, <3>2, <3>3 DEF ContinuesWith
  <2>4. ASSUME NEW item, outcome.emit.events = <<ItemDelivered(item)>>,
               \/ outcome.emit.next = None
               \/ \E at : outcome.emit.next = StepOf(at, <<"note", <<"delivered", item>>>>)
        PROVE  ContinuesWith(Handler, outcome.emit.next, events \o outcome.emit.events)
    <3>1. \A other : ItemDelivered(item) # ItemAdded(other)
      BY EventsDiffer
    <3>2. /\ RestockedIn(Append(events, ItemDelivered(item)))
          /\ Settled(Append(events, ItemDelivered(item)))
      BY <1>5, <1>6, <3>1, RestockedStill, RestockNotes
    <3>3. events \o outcome.emit.events = Append(events, ItemDelivered(item))
      BY <1>4, <2>4
    <3>4. QED
      BY <2>4, <3>2, <3>3 DEF ContinuesWith
  <2>5. HandlerEmits(outcome.emit)
    <3> DEFINE b == behaviour
    <3>1. b \in Behaviours /\ b.returns[1] = "restock" /\ outcome = RunHandler(closure, b, r)
      BY <2>1
    <3> HIDE DEF b
    <3>2. QED
      BY <3>1, HandlerRestocks
  <2>6. QED
    BY <2>2, <2>3, <2>4, <2>5 DEF HandlerEmits
<1>7. ASSUME Settled(events), NEW at, NEW item,
             closure = StepOf(at, <<"note", <<"delivered", item>>>>)
      PROVE  ContinuesWith(Handler, outcome.emit.next, events \o outcome.emit.events)
  <2> DEFINE e == Note(<<"delivered", item>>)
  <2>1. outcome.emit = Of(<<e>>)
    <3>1. does = <<"note", <<"delivered", item>>>>
      BY <1>3, <1>7
    <3> HIDE DEF does
    <3>2. does[1] = "note" /\ does[2] = <<"delivered", item>>
      BY <3>1
    <3>3. QED
      BY <1>2, <1>3, <3>2
  <2>2. \A other : e # ItemAdded(other) /\ e # RestockNote(other)
    BY EventsDiffer, RestockNotes
  <2> HIDE DEF e
  <2>3. RestockedIn(Append(events, e)) /\ Settled(Append(events, e))
    BY <1>5, <1>7, <2>2, RestockedStill
  <2>4. ContinuesWith(Handler, None, Append(events, e))
    BY <2>3 DEF ContinuesWith
  <2>5. outcome.emit.next = None /\ outcome.emit.events = <<e>>
    BY <1>3, <2>1
  <2>6. QED
    BY <1>4, <2>4, <2>5
<1>8. ASSUME events # <<>>, NEW at, NEW item, closure = StepOf(at, <<"restock", item>>),
             events[Len(events)] = ItemAdded(item)
      PROVE  ContinuesWith(Handler, outcome.emit.next, events \o outcome.emit.events)
  <2>1. outcome.emit = Restock(item, s)
    <3>1. does = <<"restock", item>>
      BY <1>3, <1>8
    <3> HIDE DEF does
    <3>2. does[1] = "restock" /\ does[2] = item
      BY <3>1
    <3>3. QED
      BY <1>2, <1>3, <3>2
  <2>2. CASE AddedIn(events, item) = {Len(events)}
    <3>1. outcome.emit = Of(<<RestockNote(item)>>)
      BY <1>5, <1>8, <2>1, <2>2, RestockTells
    <3>2. /\ RestockedIn(Append(events, RestockNote(item)))
          /\ Settled(Append(events, RestockNote(item)))
      BY <1>5, <2>2, RestockedThen
    <3>3. ContinuesWith(Handler, None, Append(events, RestockNote(item)))
      BY <3>2 DEF ContinuesWith
    <3>4. outcome.emit.next = None /\ outcome.emit.events = <<RestockNote(item)>>
      BY <1>3, <3>1
    <3>5. QED
      BY <1>4, <3>3, <3>4
  <2>3. CASE AddedIn(events, item) # {Len(events)}
    <3>1. outcome.emit = Of(<<>>)
      BY <1>5, <1>8, <2>1, <2>3, RestockTells
    <3>2. Settled(events)
      BY <1>8, <2>3, RestockedBefore
    <3>3. ContinuesWith(Handler, None, events)
      BY <1>5, <3>2 DEF ContinuesWith
    <3>4. outcome.emit.next = None /\ outcome.emit.events = <<>>
      BY <1>3, <3>1
    <3>5. QED
      BY <1>4, <3>3, <3>4
  <2>4. QED
    BY <2>2, <2>3
<1>9. QED
  BY <1>6, <1>7, <1>8 DEF ContinuesWith

(* What each dispatch has made of the stream, at each of its steps.        *)
RestockOK(d) ==
  /\ pc[d] = "call" => next[d] # None /\ ContinuesWith(Handler, next[d], Recorded \o answered[d])
  /\ pc[d] = "fold" => ContinuesWith(Handler, next[d], Recorded \o (answered[d] \o emit[d]))
  /\ pc[d] = "encode" => ContinuesWith(Handler, None, Recorded \o answered[d])
  /\ pc[d] = "answered" /\ answer[d].error = None =>
       ContinuesWith(Handler, None, Recorded \o answer[d].events)

RestockInv ==
  behaviour.returns[1] = "restock" =>
    /\ ContinuesWith(Handler, None, Recorded)
    /\ \A d \in Dispatches : RestockOK(d)

LEMMA ThreeParts ==
  ASSUME NEW S, NEW a \in Seq(S), NEW b \in Seq(S), NEW c \in Seq(S)
  PROVE  (a \o b) \o c = a \o (b \o c) /\ a \o b \in Seq(S) /\ a \o <<>> = a
<1>1. (a \o b) \o c = a \o (b \o c)
  BY ConcatAssociative
<1>2. QED
  BY <1>1

LEMMA RestockInit ==
  ASSUME OrdersInit
  PROVE  RestockInv
<1>1. /\ log = <<>> /\ \A d \in Dispatches : pc[d] = "idle"
  BY DEF OrdersInit, EmitInit, H!Init
<1>2. Recorded = <<>>
  BY <1>1 DEF Recorded, EventsOf
<1>3. ContinuesWith(Handler, None, <<>>)
  <2>1. RestockedIn(<<>>)
    BY DEF RestockedIn
  <2>2. Settled(<<>>)
    BY DEF Settled, AddedIn
  <2>3. QED
    BY <2>1, <2>2 DEF ContinuesWith
<1>4. QED
  BY <1>1, <1>2, <1>3 DEF RestockInv, RestockOK

LEMMA DispatchKeepsRestock ==
  ASSUME OrderComponent, OneAtATime, NoneIsNoClosure,
         NEW deeds, BuildsByThen(deeds), OrdersInv(deeds), SeenInv, RestockInv,
         NEW d \in Dispatches, Dispatch(d)
  PROVE  RestockInv'
<1>1. EmitStep(d) /\ UNCHANGED <<log, behaviour>>
  BY DEF Dispatch
<1>2. /\ UNCHANGED req
      /\ \/ pc[d] = "route" /\ pc'[d] = "rebuild"
         \/ Told(d) \/ Begins(d) \/ CalledNext(d) \/ FoldedIn(d) \/ AnsweredWith(d)
  BY <1>1, DispatchMoves
<1>3. SUFFICES ASSUME behaviour.returns[1] = "restock"
               PROVE  RestockInv'
  BY <1>1 DEF RestockInv
<1>4. /\ ContinuesWith(Handler, None, Recorded) /\ RestockOK(d) /\ SeenOK(d)
      /\ behaviour \in Behaviours
      /\ OneOK(deeds, pc[d], req[d], emit[d], next[d], answered[d], ran[d], answer[d])
  BY <1>3 DEF RestockInv, SeenInv, OrdersInv, StreamOK
<1>5. Recorded \in Seq(Events) /\ answered[d] \in Seq(Events) /\ emit[d] \in Seq(Events)
  BY <1>4, RecordedIs DEF OneOK
<1>6. Recorded' = Recorded /\ Handler' = Handler
  BY <1>1 DEF Recorded, Handler
<1>7. RestockOK(d)'
  <2>1. CASE pc[d] = "route" /\ pc'[d] = "rebuild"
    BY <2>1 DEF RestockOK
  <2>2. CASE Told(d)
    BY <2>2 DEF Told, RestockOK
  <2>3. CASE Begins(d)
    <3>1. pc[d] = "rebuild" /\ pc'[d] = "call" /\ next'[d] = Handler /\ answered'[d] = <<>>
      BY <1>4, <2>3 DEF Begins, SeenOK
    <3>2. Recorded \o answered'[d] = Recorded
      BY <1>5, <3>1, ConcatEmptySeq
    <3>3. Handler # None
      BY DEF Handler, NoneIsNoClosure
    <3>4. ContinuesWith(Handler, Handler, Recorded)
      BY <1>4, <3>3 DEF ContinuesWith, NoneIsNoClosure
    <3>5. ContinuesWith(Handler, next'[d], Recorded' \o answered'[d])
      BY <1>6, <3>1, <3>2, <3>4
    <3>6. QED
      BY <1>6, <3>1, <3>3, <3>5 DEF RestockOK
  <2>4. CASE CalledNext(d)
    <3> DEFINE outcome == CallClosure(next[d], req[d], state[d])
               closure == next[d]
               inner == Does(closure, req[d], state[d])
               recorded == Recorded \o answered[d]
    <3>1. /\ pc[d] = "call" /\ outcome.failure = None /\ pc'[d] = "fold"
          /\ answered'[d] = answered[d] /\ emit'[d] = outcome.emit.events
          /\ next'[d] = outcome.emit.next
      BY <2>4 DEF CalledNext
    <3>2. closure # None /\ ContinuesWith(Handler, closure, recorded) /\ IsOrderOf(state[d], recorded)
          /\ recorded \in Seq(Events) /\ IsRequest(req[d])
      BY <1>4, <1>5, <3>1, ConcatProperties DEF RestockOK, SeenOK, OneOK
    <3>3. closure.kind = "step"
      <4>1. \A at, does : StepOf(at, does).kind = "step"
        BY DEF StepOf
      <4> HIDE DEF closure, recorded
      <4>2. \E at, does : closure = StepOf(at, does)
        BY <3>2 DEF ContinuesWith, Handler
      <4>3. QED
        BY <4>1, <4>2
    <3>4. PICK steps \in Seq(StepsOf(deeds)) :
            Len(steps) <= MaxSteps /\ Calls(closure, steps) /\ steps # <<>>
      BY <1>4, <3>1 DEF OneOK, Waits
    <3>5. outcome = inner /\ steps[1] = closure
      <4> HIDE DEF closure
      <4>1. /\ CallClosure(closure, req[d], state[d]) = Does(closure, req[d], state[d])
            /\ steps[1] = closure
        BY <3>3, <3>4, CallOfStep
      <4>2. QED
        BY <4>1 DEF closure
    <3> HIDE DEF outcome
    <3>6. ContinuesWith(Handler, outcome.emit.next, recorded \o outcome.emit.events)
      <4> DEFINE r == req[d]
                 s == state[d]
      <4>1. outcome = Does(closure, r, s) /\ outcome.failure = None /\ IsRequest(r)
            /\ IsOrderOf(s, recorded)
        BY <3>1, <3>2, <3>5
      <4> HIDE DEF closure, r, s, recorded, inner
      <4>2. QED
        BY <1>3, <1>4, <3>2, <4>1, CallRestocks
    <3>7. recorded \o outcome.emit.events = Recorded \o (answered'[d] \o emit'[d])
      <4> DEFINE a == Recorded
                 b == answered[d]
                 c == outcome.emit.events
      <4>1. c \in Seq(Events)
        <5>1. steps[1] = closure /\ IsRequest(req[d])
          BY <3>2, <3>5
        <5>2. PICK added : Adds(deeds, steps[1].at, inner, added)
          <6>1. inner.failure = None
            BY <3>1, <3>5
          <6>2. steps[1] \in StepsOf(deeds)
            BY <3>4
          <6>3. steps[1].at \in H!Steps /\ Built(deeds, steps[1].at, inner)
            BY <5>1, <6>2, StepsAreSteps DEF BuildsByThen
          <6>4. \/ inner.failure \in Failures /\ inner.failure # None
                \/ \E added : Adds(deeds, steps[1].at, inner, added)
            BY <6>3, BuiltCalls
          <6>5. QED
            BY <6>1, <6>4
        <5>3. QED
          BY <3>5, <5>2, EmitAssumption DEF Adds
      <4>2. a \in Seq(Events) /\ b \in Seq(Events)
        BY <1>5
      <4>3. (a \o b) \o c = a \o (b \o c)
        <5> HIDE DEF a, b, c
        <5>1. QED
          BY <4>1, <4>2, ThreeParts
      <4>4. QED
        BY <3>1, <4>3
    <3>8. ContinuesWith(Handler, next'[d], Recorded' \o (answered'[d] \o emit'[d]))
      BY <1>6, <3>1, <3>6, <3>7
    <3>9. QED
      BY <1>6, <3>1, <3>8 DEF RestockOK
  <2>5. CASE FoldedIn(d)
    <3>1. /\ pc[d] = "fold" /\ next'[d] = next[d] /\ answered'[d] = answered[d] \o emit[d]
          /\ pc'[d] = (IF next[d] = None THEN "encode" ELSE "call")
      BY <2>5 DEF FoldedIn
    <3>2. ContinuesWith(Handler, next[d], Recorded' \o answered'[d])
      BY <1>4, <1>6, <3>1 DEF RestockOK
    <3>3. ContinuesWith(Handler, next'[d], Recorded' \o answered'[d])
      BY <3>1, <3>2
    <3>4. QED
      BY <1>6, <3>1, <3>3 DEF RestockOK
  <2>6. CASE AnsweredWith(d)
    <3>1. pc[d] = "encode" /\ pc'[d] = "answered" /\ answer'[d].events = answered[d]
      BY <2>6 DEF AnsweredWith
    <3>2. ContinuesWith(Handler, None, Recorded' \o answer'[d].events)
      BY <1>4, <1>6, <3>1 DEF RestockOK
    <3>3. QED
      BY <1>6, <3>1, <3>2 DEF RestockOK
  <2>7. QED
    BY <1>2, <2>1, <2>2, <2>3, <2>4, <2>5, <2>6
<1>8. \A c \in Dispatches : RestockOK(c)'
  <2>1. \A c \in Dispatches : c = d
    BY DEF OneAtATime
  <2>2. QED
    BY <1>7, <2>1
<1>9. ContinuesWith(Handler, None, Recorded)'
  BY <1>4, <1>6
<1>10. QED
  BY <1>8, <1>9 DEF RestockInv

LEMMA SendKeepsRestock ==
  ASSUME OneAtATime, NEW deeds, OrdersInv(deeds), RestockInv,
         NEW d \in Dispatches, NEW input \in Inputs, Send(d, input)
  PROVE  RestockInv'
<1>1. /\ pc' = [pc EXCEPT ![d] = "route"] /\ UNCHANGED <<log, behaviour>>
  BY DEF Send, Deliver, H!Deliver, H!Goto
<1>2. pc'[d] = "route"
  BY <1>1 DEF OrdersInv, Maps
<1>3. Recorded' = Recorded /\ Handler' = Handler
  BY <1>1 DEF Recorded, Handler
<1>4. \A c \in Dispatches : RestockOK(c)'
  <2>1. \A c \in Dispatches : c = d
    BY DEF OneAtATime
  <2>2. RestockOK(d)'
    BY <1>2 DEF RestockOK
  <2>3. QED
    BY <2>1, <2>2
<1>5. QED
  BY <1>1, <1>3, <1>4 DEF RestockInv, ContinuesWith

LEMMA CollectKeepsRestock ==
  ASSUME OneAtATime, NEW deeds, OrdersInv(deeds), SeenInv, RestockInv,
         NEW d \in Dispatches, Collect(d)
  PROVE  RestockInv'
<1>1. /\ pc[d] = "answered" /\ pc' = [pc EXCEPT ![d] = "idle"] /\ UNCHANGED behaviour
      /\ \/ UNCHANGED log
         \/ answer[d].error = None /\ log' = log \o H!Stamped(req[d], answer[d].events)
  BY DEF Collect, Forget, H!Forget, H!Goto
<1>2. SUFFICES ASSUME behaviour.returns[1] = "restock"
               PROVE  RestockInv'
  BY <1>1 DEF RestockInv
<1>3. pc'[d] = "idle"
  BY <1>1 DEF OrdersInv, Maps
<1>4. answer[d].events \in Seq(Events)
  BY <1>1 DEF OrdersInv, OneOK
<1>5. ContinuesWith(Handler, None, Recorded')
  <2>1. CASE UNCHANGED log
    BY <1>2, <2>1 DEF RestockInv, Recorded
  <2>2. CASE answer[d].error = None /\ log' = log \o H!Stamped(req[d], answer[d].events)
    <3>1. Recorded' = Recorded \o answer[d].events
      BY <1>4, <2>2, RecordedGrows
    <3>2. QED
      BY <1>1, <1>2, <2>2, <3>1 DEF RestockInv, RestockOK
  <2>3. QED
    BY <1>1, <2>1, <2>2
<1>6. ContinuesWith(Handler, None, Recorded)'
  <2>1. Handler' = Handler
    BY <1>1 DEF Handler
  <2>2. QED
    BY <1>5, <2>1 DEF ContinuesWith
<1>7. \A c \in Dispatches : RestockOK(c)'
  <2>1. \A c \in Dispatches : c = d
    BY DEF OneAtATime
  <2>2. RestockOK(d)'
    BY <1>3 DEF RestockOK
  <2>3. QED
    BY <2>1, <2>2
<1>8. QED
  BY <1>6, <1>7 DEF RestockInv

LEMMA StutterKeepsRestock ==
  ASSUME RestockInv, UNCHANGED <<emitVars, log, image, seen>>
  PROVE  RestockInv'
<1>1. UNCHANGED <<pc, emit, next, answered, answer, behaviour, log>>
  BY DEF emitVars
<1>2. Recorded' = Recorded /\ Handler' = Handler
  BY <1>1 DEF Recorded, Handler
<1>3. \A d \in Dispatches : RestockOK(d) => RestockOK(d)'
  BY <1>1, <1>2 DEF RestockOK
<1>4. ContinuesWith(Handler, None, Recorded) => ContinuesWith(Handler, None, Recorded)'
  BY <1>2 DEF ContinuesWith
<1>5. QED
  BY <1>1, <1>3, <1>4 DEF RestockInv

LEMMA OrdersNextRestock ==
  ASSUME OrderComponent, OneAtATime, NoneIsNoClosure,
         NEW deeds, BuildsByThen(deeds), OrdersInv(deeds), SeenInv, RestockInv,
         [OrdersNext]_ordersVars
  PROVE  RestockInv'
<1>1. ASSUME NEW step, Check(step)
      PROVE  UNCHANGED <<emitVars, log, image, seen>>
  BY <1>1 DEF Check
<1>2. UNCHANGED ordersVars => UNCHANGED <<emitVars, log, image, seen>>
  BY DEF ordersVars, world
<1>3. QED
  BY <1>1, <1>2, SendKeepsRestock, DispatchKeepsRestock, CollectKeepsRestock,
     StutterKeepsRestock DEF OrdersNext

(* The property, of the pages.                                             *)
LEMMA RestockOfPages ==
  ASSUME NEW deeds, OrdersInv(deeds), SeenInv, RestockInv
  PROVE  RestockedOnce
<1>1. SUFFICES ASSUME behaviour.returns[1] = "restock",
                      NEW k \in 1 .. Len(log), NEW item
               PROVE  log[k].event = Note(<<"restock", item>>) <=>
                        k > 1 /\ Added(SubSeq(log, 1, k - 1), item) = {k - 1}
  BY DEF RestockedOnce
<1>2. /\ Len(log) \in Nat /\ Len(Recorded) = Len(log)
      /\ \A j \in 1 .. Len(log) : Recorded[j] = log[j].event
  BY RecordedIs
<1>3. log[k].event = Note(<<"restock", item>>) <=> AddedBefore(Recorded, k, item) = {k - 1}
  BY <1>1, <1>2 DEF RestockInv, ContinuesWith, RestockedIn, RestockNote
<1>4. Len(SubSeq(log, 1, k - 1)) = k - 1
      /\ \A j \in 1 .. k - 1 : SubSeq(log, 1, k - 1)[j] = log[j]
  <2>1. log \in Seq(Elements(log))
    BY DEF OrdersInv, StreamOK
  <2>2. k - 1 \in Nat /\ \A j \in 1 .. k - 1 : log[j] \in Elements(log)
    BY <1>2, <2>1
  <2>3. QED
    BY <2>2, SubSeqProperties
<1>5. Added(SubSeq(log, 1, k - 1), item) = AddedBefore(Recorded, k, item)
  <2>1. \A j \in 1 .. k - 1 : Recorded[j] = SubSeq(log, 1, k - 1)[j].event
    BY <1>2, <1>4
  <2>2. QED
    BY <1>4, <2>1 DEF Added, AddedBefore
<1>6. AddedBefore(Recorded, k, item) = {k - 1} => k > 1
  <2>1. AddedBefore(Recorded, k, item) \subseteq 1 .. k - 1
    BY DEF AddedBefore
  <2>2. QED
    BY <2>1
<1>7. QED
  BY <1>3, <1>5, <1>6

(* The restock step's note is on the stream right after the first item of  *)
(* its kind, and nowhere else: whatever was added, delivered or refused in *)
(* between, from whichever history the state was rebuilt (lib.rs,          *)
(* restock_step).                                                          *)
THEOREM ItemsAreRestockedOnce ==
  ASSUME NoneIsNoClosure, NoneIsNoState, OrderComponent, OrderFolds, OneAtATime
  PROVE  OrdersSpec => []RestockedOnce
<1>1. BuildsByThen(Deeds)
  BY OrdersBuildByThen
<1> DEFINE Inv == OrdersInv(Deeds) /\ SeenInv /\ RestockInv
<1>2. OrdersInit => Inv
  BY OrdersInitInv, SeenInit, RestockInit
<1>3. Inv /\ [OrdersNext]_ordersVars => Inv'
  BY <1>1, OrdersNextInv, OrdersNextSeen, OrdersNextRestock
<1>4. Inv => RestockedOnce
  BY RestockOfPages
<1>5. QED
  BY <1>2, <1>3, <1>4, PTL DEF OrdersSpec

-----------------------------------------------------------------------------
(* What the test helper foretells.                                         *)

(* A decision at its start, and after one more call.                       *)
DecideStart(closure, s) == [next |-> closure, state |-> s, events |-> <<>>, error |-> None]

DecideFold(so, events, r) ==
  H!ApplyEmitted(so.state, events, H!DecideCover(r),
                 H!NextSequence(r.history) + Len(so.events), H!EventMeta(r))

DecideCall(so, r, s) ==
  LET Failed(error) == [next |-> None, state |-> s, events |-> <<>>, error |-> error]
      outcome == CallClosure(so.next, r, so.state)
      folded == DecideFold(so, outcome.emit.events, r)
  IN  IF so.next = None THEN so
      ELSE IF outcome.failure # None THEN Failed(CallHandler(outcome.failure))
      ELSE IF folded.error # None THEN Failed(folded.error)
      ELSE [next |-> outcome.emit.next, state |-> folded.state,
            events |-> so.events \o outcome.emit.events, error |-> None]

IsDecided(h, n, closure, r, s) ==
  h = [k \in 0 .. n |-> IF k = 0 THEN DecideStart(closure, s) ELSE DecideCall(h[k - 1], r, s)]

(* The recursive definition of Decide defines what it says.                *)
LEMMA DecideIs ==
  ASSUME NEW closure, NEW r, NEW s
  PROVE  \E decided : /\ IsDecided(decided, MaxSteps, closure, r, s)
                      /\ Decide(closure, r, s) = decided[MaxSteps]
<1> DEFINE Is(h, n) == IsDecided(h, n, closure, r, s)
           S == {n \in Nat : \E h : Is(h, n)}
<1>1. 0 \in S
  <2>1. Is([k \in 0 .. 0 |-> DecideStart(closure, s)], 0)
    BY DEF IsDecided
  <2> HIDE DEF Is
  <2>2. QED
    BY <2>1
<1>2. ASSUME NEW n \in Nat, n \in S
      PROVE  n + 1 \in S
  <2>1. PICK h : Is(h, n)
    BY <1>2
  <2> DEFINE g == [k \in 0 .. n + 1 |->
                     IF k = n + 1 THEN DecideCall(h[n], r, s) ELSE h[k]]
  <2>2. \A k \in 0 .. n : g[k] = h[k]
    OBVIOUS
  <2>3. /\ h = [k \in 0 .. n |-> h[k]]
        /\ \A k \in 0 .. n :
             h[k] = IF k = 0 THEN DecideStart(closure, s) ELSE DecideCall(h[k - 1], r, s)
    BY <2>1 DEF IsDecided
  <2>4. \A k \in 0 .. n + 1 :
          g[k] = IF k = 0 THEN DecideStart(closure, s) ELSE DecideCall(g[k - 1], r, s)
    <3>1. TAKE k \in 0 .. n + 1
    <3>2. CASE k = n + 1
      <4>1. g[k] = DecideCall(h[n], r, s) /\ g[n] = h[n] /\ k # 0 /\ k - 1 = n
        BY <2>2, <3>2
      <4> HIDE DEF g
      <4>2. QED
        BY <4>1
    <3>3. CASE k \in 0 .. n
      <4>1. g[k] = h[k] /\ (k # 0 => g[k - 1] = h[k - 1])
        BY <2>2, <3>3
      <4> HIDE DEF g
      <4>2. QED
        BY <2>3, <3>3, <4>1
    <3>4. QED
      BY <3>2, <3>3
  <2>5. g = [k \in 0 .. n + 1 |-> g[k]]
    OBVIOUS
  <2> HIDE DEF g
  <2>6. Is(g, n + 1)
    BY <2>4, <2>5 DEF IsDecided
  <2> HIDE DEF Is
  <2>7. QED
    BY <2>6
<1>3. MaxSteps \in S
  <2> HIDE DEF S
  <2>1. \A n \in Nat : n \in S
    BY <1>1, <1>2, SetInduction
  <2>2. QED
    BY <2>1, EmitAssumption
<1>4. \E h : Is(h, MaxSteps)
  BY <1>3
<1>5. QED
  BY <1>4 DEF Decide, IsDecided, DecideStart, DecideCall, DecideFold

(* A decision that is at its end after two calls is that.                  *)
LEMMA DecideInTwo ==
  ASSUME 2 <= MaxSteps, NEW closure, NEW r, NEW s,
         NEW one, one = DecideCall(DecideStart(closure, s), r, s),
         NEW two, two = DecideCall(one, r, s), two.next = None
  PROVE  Decide(closure, r, s) = two
<1>1. PICK decided : /\ IsDecided(decided, MaxSteps, closure, r, s)
                     /\ Decide(closure, r, s) = decided[MaxSteps]
  BY DecideIs
<1>2. MaxSteps \in Nat
  BY EmitAssumption
<1>3. /\ decided[0] = DecideStart(closure, s)
      /\ \A k \in 1 .. MaxSteps : decided[k] = DecideCall(decided[k - 1], r, s)
  <2>1. \A k \in 0 .. MaxSteps : decided[k] =
          IF k = 0 THEN DecideStart(closure, s) ELSE DecideCall(decided[k - 1], r, s)
    BY <1>1 DEF IsDecided
  <2>2. QED
    BY <1>2, <2>1
<1>4. decided[2] = two
  <2>1. decided[1] = DecideCall(decided[1 - 1], r, s) /\ 1 - 1 = 0
    BY <1>2, <1>3
  <2>2. decided[2] = DecideCall(decided[2 - 1], r, s) /\ 2 - 1 = 1
    BY <1>2, <1>3
  <2>3. QED
    BY <1>3, <2>1, <2>2
<1>5. DecideCall(two, r, s) = two
  BY DEF DecideCall
<1> DEFINE I == {n \in Nat : n + 2 <= MaxSteps => decided[n + 2] = two}
<1>6. \A n \in Nat : n \in I
  <2>1. 0 \in I
    BY <1>4
  <2>2. ASSUME NEW n \in Nat, n \in I
        PROVE  n + 1 \in I
    <3>1. SUFFICES ASSUME (n + 1) + 2 <= MaxSteps
                   PROVE  decided[(n + 1) + 2] = two
      OBVIOUS
    <3> DEFINE k == (n + 1) + 2
    <3>2. k \in 1 .. MaxSteps /\ k - 1 = n + 2 /\ n + 2 <= MaxSteps
      BY <1>2, <3>1
    <3> HIDE DEF k
    <3>3. decided[k] = DecideCall(decided[n + 2], r, s)
      BY <1>3, <3>2
    <3>4. QED
      BY <1>5, <2>2, <3>2, <3>3 DEF k
  <2> HIDE DEF I
  <2>3. QED
    BY <2>1, <2>2, SetInduction
<1>7. decided[MaxSteps] = two
  <2>1. MaxSteps - 2 \in Nat /\ (MaxSteps - 2) + 2 = MaxSteps
    BY <1>2
  <2>2. decided[(MaxSteps - 2) + 2] = two
    BY <1>2, <1>6, <2>1
  <2>3. QED
    BY <2>1, <2>2
<1>8. QED
  BY <1>1, <1>7

(* The step, and the step twice.                                           *)
LEMMA CallOfOne ==
  ASSUME NoneIsNoClosure, NEW does, NEW r, NEW s
  PROVE  CallClosure(StepOf(<<>>, does), r, s) = Does(StepOf(<<>>, does), r, s)
<1> DEFINE step == StepOf(<<>>, does)
           deeds == {does}
           steps == <<step>>
<1>1. step \in StepsOf(deeds) /\ step.kind = "step"
  <2>1. step.kind = "step"
    BY DEF StepOf
  <2>2. <<>> \in H!Steps /\ does \in deeds
    BY DEF H!Steps
  <2>3. QED
    BY <2>1, <2>2 DEF StepsOf
<1> HIDE DEF step
<1>2. steps \in Seq(StepsOf(deeds)) /\ steps # <<>> /\ Len(steps) <= MaxSteps
  BY <1>1, EmitAssumption
<1>3. Calls(step, steps)
  <2>1. IsChain(<<step>>, steps) /\ step = <<step>>[Len(steps)]
    BY DEF IsChain
  <2>2. QED
    BY <1>2, <2>1 DEF Calls
<1> HIDE DEF steps, deeds
<1>4. CallClosure(step, r, s) = Does(step, r, s)
  BY <1>1, <1>2, <1>3, CallOfStep
<1>5. QED
  BY <1>4 DEF step

LEMMA CallOfTwo ==
  ASSUME NoneIsNoClosure, 2 <= MaxSteps, NEW does, NEW r, NEW s,
         NEW step, step = StepOf(<<>>, does), NEW inner, inner = Does(step, r, s),
         inner.emit.next = None, NEW outcome,
         outcome = CallClosure(Composed(step, step), r, s)
  PROVE  /\ inner.failure # None => outcome = inner
         /\ inner.failure = None => /\ outcome.failure = None
                                    /\ outcome.emit.events = inner.emit.events
                                    /\ outcome.emit.next = step
<1> DEFINE deeds == {does}
           steps == <<step, step>>
           closure == Composed(step, step)
<1>1. step \in StepsOf(deeds)
  <2>1. <<>> \in H!Steps /\ does \in deeds
    BY DEF H!Steps
  <2>2. QED
    BY <2>1 DEF StepsOf
<1>2. /\ steps \in Seq(StepsOf(deeds)) /\ steps # <<>> /\ Len(steps) = 2
      /\ steps[1] = step /\ Tail(steps) = <<step>>
  BY <1>1
<1>3. Calls(closure, steps)
  <2> DEFINE chain == <<step, closure>>
  <2>1. chain[1] = step /\ chain[2] = closure /\ steps[2] = step
    BY <1>2
  <2> HIDE DEF chain
  <2>2. IsChain(chain, steps)
    BY <1>2, <2>1 DEF IsChain
  <2>3. QED
    BY <1>2, <2>1, <2>2 DEF Calls
<1> HIDE DEF steps, deeds, closure
<1>4. /\ inner.failure # None => CallClosure(closure, r, s) = inner
      /\ \A added \in Seq(StepsOf(deeds)) :
           inner.failure = None /\ Calls(inner.emit.next, added) =>
             /\ CallClosure(closure, r, s).failure = None
             /\ CallClosure(closure, r, s).emit.events = inner.emit.events
             /\ Calls(CallClosure(closure, r, s).emit.next, added \o Tail(steps))
  <2>1. inner = Does(steps[1], r, s) /\ Len(steps) <= MaxSteps
    BY <1>2
  <2>2. /\ inner.failure # None => CallClosure(closure, r, s) = inner
        /\ \A added \in Seq(StepsOf(deeds)) :
             inner.failure = None /\ Calls(inner.emit.next, added) =>
               /\ CallClosure(closure, r, s).failure = None
               /\ CallClosure(closure, r, s).added = inner.added
               /\ CallClosure(closure, r, s).emit.events = inner.emit.events
               /\ Calls(CallClosure(closure, r, s).emit.next, added \o Tail(steps))
    BY <1>2, <1>3, <2>1, CallOfClosure
  <2>3. QED
    BY <2>2
<1>5. <<>> \in Seq(StepsOf(deeds)) /\ Calls(None, <<>>) /\ <<>> \o <<step>> = <<step>>
  BY DEF Calls
<1>6. ASSUME NEW rest, Calls(rest, <<step>>)
      PROVE  rest = step
  BY <1>6 DEF Calls, IsChain
<1>7. outcome = CallClosure(closure, r, s)
  BY DEF closure
<1>8. inner.failure = None => Calls(outcome.emit.next, <<step>>)
  BY <1>2, <1>4, <1>5, <1>7
<1>9. QED
  BY <1>2, <1>4, <1>5, <1>6, <1>7, <1>8

(* Where a step continues does not hang on the state.                      *)
LEMMA ContinuesAlike ==
  ASSUME OrderComponent, NEW does \in Deeds, does[1] # "handle",
         NEW step, step = StepOf(<<>>, does), NEW r, NEW s, NEW t
  PROVE  Does(step, r, s).emit.next = Does(step, r, t).emit.next
<1>1. /\ Does(step, r, s) = OrderDoes(step, r, s) /\ Does(step, r, t) = OrderDoes(step, r, t)
      /\ step.does = does
  BY DEF OrderComponent, StepOf
<1>2. does[1] \in {"observe", "restock", "fail", "chain", "note", "add"}
  BY DEF Deeds
<1>3. ASSUME does[1] = "restock", NEW u
      PROVE  OrderDoes(step, r, u).emit.next = None
  <2>1. OrderDoes(step, r, u) = Emits(Restock(does[2], u))
    BY <1>1, <1>3, OrderDoesIs
  <2>2. Emits(Restock(does[2], u)).emit.next = None
    BY DEF Emits, Restock, Of
  <2>3. QED
    BY <2>1, <2>2
<1> DEFINE same == OrderDoes(step, r, s) = OrderDoes(step, r, t)
<1>4. does[1] = "restock" =>
        OrderDoes(step, r, s).emit.next = None /\ OrderDoes(step, r, t).emit.next = None
  BY <1>3
<1>5. does[1] = "observe" => same
  BY <1>1, OrderDoesIs
<1>6. does[1] = "fail" => same
  BY <1>1, OrderDoesIs
<1>7. does[1] = "chain" => same
  BY <1>1, OrderDoesIs
<1>8. does[1] \in {"note", "add"} => same
  BY <1>1, OrderDoesIs
<1>9. QED
  BY <1>1, <1>2, <1>4, <1>5, <1>6, <1>7, <1>8

(* Folding no events changes nothing.                                      *)
LEMMA FoldNone ==
  ASSUME NEW s, NEW cover, NEW from, NEW meta
  PROVE  /\ H!ApplyEmitted(s, <<>>, cover, from, meta).error = None
         /\ H!ApplyEmitted(s, <<>>, cover, from, meta).state = s
<1> DEFINE pages == H!Numbered(<<>>, from, meta)
<1>1. Len(pages) = 0
  BY DEF H!Numbered
<1> HIDE DEF pages
<1>2. FoldRun(Ok(s), pages, cover, "emitted")[0] = Ok(s)
  BY <1>1, FoldRunSteps
<1>3. ApplyPages(Ok(s), pages, cover, "emitted") = Ok(s)
  BY <1>1, <1>2 DEF ApplyPages
<1>4. H!ApplyEmitted(s, <<>>, cover, from, meta) = Ok(s)
  BY <1>3, SameApplyPages DEF H!ApplyEmitted, pages, Ok, H!Ok
<1>5. QED
  BY <1>4 DEF Ok

(* What the helper finds, of a step that continues nowhere, and what the   *)
(* decision with the step, and with the step twice, then comes to.         *)
Foretells(found, once, twice) ==
  /\ found.kind = "idempotent" => twice = once /\ once.error = None
  /\ found.kind = "failed" => twice.error = found.error
  /\ found.kind = "emitted_again" =>
       \/ twice.error # None
       \/ IsPrefix(once.events \o found.events, twice.events)

LEMMA HelperForetells ==
  ASSUME OrderComponent, NoneIsNoClosure, NEW does \in Deeds, does[1] # "handle",
         NEW step, step = StepOf(<<>>, does), NEW r, H!DecideCover(r) = r.cover,
         H!NextSequence(r.history) \in Nat, NEW s, Does(step, r, s).emit.next = None
  PROVE  Foretells(CheckStepIdempotent(step, r, s), Once(step, r, s), Twice(step, r, s))
<1> DEFINE found == CheckStepIdempotent(step, r, s)
           once == Once(step, r, s)
           twice == Twice(step, r, s)
           first == Does(step, r, s)
           two == Composed(step, step)
           from == H!NextSequence(r.history)
           meta == H!EventMeta(r)
           after == H!ApplyEmitted(s, first.emit.events, r.cover, from, meta)
           again == Does(step, r, after.state)
           later == H!ApplyEmitted(after.state, again.emit.events, r.cover,
                                   from + Len(first.emit.events), meta)
           Failed(error) == [next |-> None, state |-> s, events |-> <<>>, error |-> error]
           Found(kind, error, events) == [kind |-> kind, error |-> error, events |-> events]
           folded == [next |-> None, state |-> after.state,
                      events |-> first.emit.events, error |-> None]
           waiting == [next |-> step, state |-> after.state,
                       events |-> first.emit.events, error |-> None]
<1>1. /\ 2 <= MaxSteps /\ step # None /\ two # None
  BY DEF OrderComponent, TierConstants, NoneIsNoClosure
<1>2. found = IF first.failure # None
                THEN Found("failed", CallHandler(first.failure), <<>>)
              ELSE IF after.error # None THEN Found("failed", after.error, <<>>)
              ELSE IF again.failure # None
                THEN Found("failed", CallHandler(again.failure), <<>>)
              ELSE IF again.emit.events # <<>>
                THEN Found("emitted_again", None, again.emit.events)
              ELSE IF Continues(again.emit) THEN Found("continued_again", None, <<>>)
              ELSE Found("idempotent", None, <<>>)
  BY DEF CheckStepIdempotent
<1>3. first.emit.next = None /\ again.emit.next = None
  <2>1. again.emit.next = first.emit.next
    BY ContinuesAlike
  <2>2. QED
    BY <2>1
<1>4. /\ first.failure = None => first.emit.events \in Seq(Events)
      /\ again.failure = None => again.emit.events \in Seq(Events)
  <2>1. <<>> \in H!Steps
    BY DEF H!Steps
  <2>2. \A t : Built(Deeds, <<>>, Does(step, r, t))
    BY <2>1, DeedBuilds
  <2>3. \A t : \/ Does(step, r, t).failure # None
               \/ Does(step, r, t).emit.events \in Emissions
    <3>1. TAKE t
    <3> DEFINE outcome == Does(step, r, t)
    <3>2. Built(Deeds, <<>>, outcome)
      BY <2>2
    <3> HIDE DEF outcome
    <3>3. \/ outcome.failure \in Failures /\ outcome.failure # None
          \/ \E added : Adds(Deeds, <<>>, outcome, added)
      BY <2>1, <3>2, BuiltCalls
    <3>4. QED
      BY <3>3 DEF Adds, outcome
  <2>4. QED
    BY <2>3, EmitAssumption
<1>5. /\ CallClosure(step, r, s) = first
      /\ CallClosure(step, r, after.state) = again
  BY CallOfOne
<1>6. /\ first.failure # None => CallClosure(two, r, s) = first
      /\ first.failure = None => /\ CallClosure(two, r, s).failure = None
                                 /\ CallClosure(two, r, s).emit.events = first.emit.events
                                 /\ CallClosure(two, r, s).emit.next = step
  BY <1>1, <1>3, CallOfTwo
<1>7. \A closure : LET start == DecideStart(closure, s)
                   IN  /\ start.next = closure /\ start.state = s /\ start.events = <<>>
                       /\ \A events : DecideFold(start, events, r) =
                            H!ApplyEmitted(s, events, r.cover, from, meta)
  <2>1. from + Len(<<>>) = from
    OBVIOUS
  <2>2. QED
    BY <2>1 DEF DecideStart, DecideFold
<1>8. DecideFold(waiting, again.emit.events, r) = later
  BY DEF DecideFold
<1>9. /\ once = Decide(step, r, s) /\ twice = Decide(two, r, s)
  BY DEF Once, Twice
<1>10. again.emit.events = <<>> => later.error = None /\ later.state = after.state
  BY FoldNone
<1> SUFFICES Foretells(found, once, twice)
  OBVIOUS
<1> HIDE DEF found, once, twice, first, two, from, meta, after, again, later
<1>11. CASE first.failure # None
  <2> DEFINE failed == Failed(CallHandler(first.failure))
  <2>1. failed.next = None /\ failed.error = CallHandler(first.failure)
    OBVIOUS
  <2>2. DecideCall(DecideStart(two, s), r, s) = failed
    BY <1>1, <1>6, <1>7, <1>11 DEF DecideCall
  <2> HIDE DEF failed
  <2>3. DecideCall(failed, r, s) = failed
    BY <2>1 DEF DecideCall
  <2>4. twice = failed
    BY <1>1, <1>9, <2>1, <2>2, <2>3, DecideInTwo
  <2>5. found.kind = "failed" /\ found.error = CallHandler(first.failure)
    BY <1>2, <1>11
  <2>6. QED
    BY <2>1, <2>4, <2>5 DEF Foretells
<1>12. CASE first.failure = None /\ after.error # None
  <2> DEFINE failed == Failed(after.error)
  <2>1. failed.next = None /\ failed.error = after.error
    OBVIOUS
  <2>2. DecideCall(DecideStart(two, s), r, s) = failed
    <3>1. DecideFold(DecideStart(two, s), first.emit.events, r) = after
      BY <1>7 DEF after
    <3>2. QED
      BY <1>1, <1>6, <1>7, <1>12, <3>1 DEF DecideCall
  <2> HIDE DEF failed
  <2>3. DecideCall(failed, r, s) = failed
    BY <2>1 DEF DecideCall
  <2>4. twice = failed
    BY <1>1, <1>9, <2>1, <2>2, <2>3, DecideInTwo
  <2>5. found.kind = "failed" /\ found.error = after.error
    BY <1>2, <1>12
  <2>6. QED
    BY <2>1, <2>4, <2>5 DEF Foretells
<1>13. CASE first.failure = None /\ after.error = None
  <2> DEFINE events == first.emit.events
  <2>1. events \in Seq(Events) /\ <<>> \o events = events
    BY <1>4, <1>13
  <2>2. once = folded /\ folded.events = events
    <3>1. DecideFold(DecideStart(step, s), first.emit.events, r) = after
      BY <1>7 DEF after
    <3>2. DecideCall(DecideStart(step, s), r, s) =
            [next |-> first.emit.next, state |-> after.state,
             events |-> <<>> \o first.emit.events, error |-> None]
      BY <1>1, <1>5, <1>7, <1>13, <3>1 DEF DecideCall
    <3>3. DecideCall(DecideStart(step, s), r, s) = folded
      BY <1>3, <2>1, <3>2
    <3>4. folded.next = None /\ folded.events = events
      OBVIOUS
    <3> HIDE DEF folded
    <3>5. DecideCall(folded, r, s) = folded
      BY <3>4 DEF DecideCall
    <3>6. QED
      BY <1>1, <1>9, <3>3, <3>4, <3>5, DecideInTwo
  <2>3. DecideCall(DecideStart(two, s), r, s) = waiting
    <3>1. DecideFold(DecideStart(two, s), first.emit.events, r) = after
      BY <1>7 DEF after
    <3>2. DecideCall(DecideStart(two, s), r, s) =
            [next |-> step, state |-> after.state,
             events |-> <<>> \o first.emit.events, error |-> None]
      BY <1>1, <1>6, <1>7, <1>13, <3>1 DEF DecideCall
    <3>3. QED
      BY <2>1, <3>2
  <2>4. waiting.next = step /\ waiting.state = after.state /\ waiting.events = events
    OBVIOUS
  <2>5. CASE again.failure # None
    <3> DEFINE failed == Failed(CallHandler(again.failure))
    <3>1. failed.next = None /\ failed.error = CallHandler(again.failure)
      OBVIOUS
    <3> HIDE DEF waiting
    <3>2. DecideCall(waiting, r, s) = failed
      BY <1>1, <1>5, <2>4, <2>5 DEF DecideCall
    <3> HIDE DEF failed
    <3>3. twice = failed
      BY <1>1, <1>9, <2>3, <3>1, <3>2, DecideInTwo
    <3>4. found.kind = "failed" /\ found.error = CallHandler(again.failure)
      BY <1>2, <1>13, <2>5
    <3>5. QED
      BY <3>1, <3>3, <3>4 DEF Foretells
  <2>6. CASE again.failure = None
    <3> DEFINE both == [next |-> None, state |-> later.state,
                        events |-> events \o again.emit.events, error |-> None]
               failed == Failed(later.error)
    <3>1. /\ failed.next = None /\ failed.error = later.error
          /\ both.next = None /\ both.events = events \o again.emit.events
      OBVIOUS
    <3> HIDE DEF waiting
    <3>2. DecideCall(waiting, r, s) = IF later.error # None THEN failed ELSE both
      BY <1>1, <1>3, <1>5, <1>8, <2>4, <2>6 DEF DecideCall
    <3>3. twice = IF later.error # None THEN failed ELSE both
      <4> DEFINE end == IF later.error # None THEN failed ELSE both
      <4>1. end.next = None
        BY <3>1
      <4> HIDE DEF end, both, failed
      <4>2. DecideCall(waiting, r, s) = end
        BY <3>2 DEF end
      <4>3. twice = end
        BY <1>1, <1>9, <2>3, <4>1, <4>2, DecideInTwo
      <4>4. QED
        BY <4>3 DEF end
    <3>4. CASE again.emit.events # <<>>
      <4>1. found.kind = "emitted_again" /\ found.events = again.emit.events
        BY <1>2, <1>13, <2>6, <3>4
      <4>2. \/ twice.error # None
            \/ twice.events = events \o again.emit.events
        BY <3>1, <3>3
      <4>3. IsPrefix(events \o again.emit.events, events \o again.emit.events)
        <5> DEFINE all == events \o again.emit.events
        <5>1. all \in Seq(Events)
          BY <1>4, <2>1, <2>6
        <5> HIDE DEF all
        <5>2. Len(all) <= Len(all)
          BY <5>1
        <5>3. QED
          BY <5>2 DEF IsPrefix, all
      <4>4. once.events = events
        BY <2>2
      <4>5. QED
        BY <4>1, <4>2, <4>3, <4>4 DEF Foretells
    <3>5. CASE again.emit.events = <<>>
      <4>1. found.kind = "idempotent"
        BY <1>2, <1>3, <1>13, <2>6, <3>5 DEF Continues
      <4>2. both = folded
        BY <1>10, <2>1, <3>5
      <4>3. twice = once
        BY <1>10, <2>2, <3>3, <3>5, <4>2
      <4>4. folded.error = None
        OBVIOUS
      <4>5. QED
        BY <2>2, <4>1, <4>3, <4>4 DEF Foretells
    <3>6. QED
      BY <3>4, <3>5
  <2>7. QED
    BY <2>5, <2>6
<1>14. QED
  BY <1>11, <1>12, <1>13

(* What the helper was last run on.                                        *)
CheckedOK ==
  checked # None =>
    LET r == checked.on
    IN  /\ \E does \in CheckedSteps : checked.step = StepOf(<<>>, does)
        /\ H!DecideCover(r) = r.cover /\ H!NextSequence(r.history) \in Nat
        /\ checked.found = CheckStepIdempotent(checked.step, r, checked.state)

LEMMA NextKeepsChecked ==
  ASSUME NEW deeds, OrdersInv(deeds), CheckedOK, [OrdersNext]_ordersVars
  PROVE  CheckedOK'
<1>1. ASSUME NEW does \in CheckedSteps, Check(StepOf(<<>>, does))
      PROVE  CheckedOK'
  <2> DEFINE book == Book(None, log)
             on == [arm |-> "command", type |-> "AddItem", item |-> "a", id |-> sent,
                    cover |-> "order-1", history |-> book]
             s == Rebuilt(on.history).state
             step == StepOf(<<>>, does)
  <2>1. checked' = [step |-> step, on |-> on, state |-> s,
                    found |-> CheckStepIdempotent(step, on, s)]
    BY <1>1 DEF Check
  <2>2. /\ checked'.step = step /\ checked'.on = on /\ checked'.state = s
        /\ checked'.found = CheckStepIdempotent(step, on, s)
    BY <2>1
  <2>3. on.cover = "order-1" /\ on.history = book
    OBVIOUS
  <2>4. book.cover = "order-1" /\ book.next = Len(log)
    BY DEF Book
  <2> HIDE DEF on, book
  <2>5. H!DecideCover(on) = on.cover
    BY <2>3, <2>4 DEF H!DecideCover
  <2>6. H!NextSequence(on.history) \in Nat
    <3>1. Len(log) \in Nat
      BY DEF OrdersInv, StreamOK
    <3>2. QED
      BY <2>3, <2>4, <3>1 DEF H!NextSequence
  <2> HIDE DEF step, s
  <2>7. checked'.step = StepOf(<<>>, does)
    BY <2>2 DEF step
  <2>8. QED
    BY <2>2, <2>5, <2>6, <2>7 DEF CheckedOK
<1>2. ASSUME checked' \in {checked, None}
      PROVE  CheckedOK'
  BY <1>2 DEF CheckedOK
<1>3. ASSUME NEW d \in Dispatches, Dispatch(d) \/ Collect(d) \/ \E i \in Inputs : Send(d, i)
      PROVE  checked' \in {checked, None}
  BY <1>3 DEF Dispatch, Collect, Send
<1>4. UNCHANGED ordersVars => checked' = checked
  BY DEF ordersVars, world
<1>5. QED
  BY <1>1, <1>2, <1>3, <1>4 DEF OrdersNext

LEMMA CheckedForetells ==
  ASSUME OrderComponent, NoneIsNoClosure, StepsChecked, CheckedOK
  PROVE  CheckForetells
<1>1. SUFFICES ASSUME checked # None,
                      ~ Continues(OrderDoes(checked.step, checked.on, checked.state).emit)
               PROVE  Foretells(checked.found,
                                Once(checked.step, checked.on, checked.state),
                                Twice(checked.step, checked.on, checked.state))
  BY DEF CheckForetells, Foretells
<1> DEFINE step == checked.step
           r == checked.on
           s == checked.state
<1>2. PICK does \in CheckedSteps : step = StepOf(<<>>, does)
  BY <1>1 DEF CheckedOK
<1>3. /\ does \in Deeds /\ does[1] # "handle"
      /\ H!DecideCover(r) = r.cover /\ H!NextSequence(r.history) \in Nat
      /\ checked.found = CheckStepIdempotent(step, r, s)
  BY <1>1 DEF CheckedOK, StepsChecked
<1>4. Does(step, r, s).emit.next = None
  BY <1>1 DEF Continues, OrderComponent
<1> HIDE DEF step, r, s
<1>5. Foretells(CheckStepIdempotent(step, r, s), Once(step, r, s), Twice(step, r, s))
  BY <1>2, <1>3, <1>4, HelperForetells
<1>6. QED
  BY <1>3, <1>5 DEF step, r, s

(* The test helper foretells the decision: of a step whose first run       *)
(* continues nowhere, "idempotent" says that a decision with the step      *)
(* twice is the one with it once; "emitted again" what the second adds;    *)
(* and "failed" the error the decision has (domain.rs,                     *)
(* check_step_idempotent).                                                 *)
THEOREM HelperForetellsTheDecision ==
  ASSUME NoneIsNoClosure, OrderComponent, StepsChecked
  PROVE  OrdersSpec => []CheckForetells
<1>1. BuildsByThen(Deeds)
  BY OrdersBuildByThen
<1>2. OrdersInit => OrdersInv(Deeds) /\ CheckedOK
  BY OrdersInitInv DEF OrdersInit, CheckedOK
<1>3. OrdersInv(Deeds) /\ CheckedOK /\ [OrdersNext]_ordersVars
        => OrdersInv(Deeds)' /\ CheckedOK'
  BY <1>1, OrdersNextInv, NextKeepsChecked
<1>4. CheckedOK => CheckForetells
  BY CheckedForetells
<1>5. QED
  BY <1>2, <1>3, <1>4, PTL DEF OrdersSpec

=============================================================================
