---------------------------- MODULE Stream_proofs ---------------------------
(***************************************************************************)
(* What a dispatch keeps, for every business code, every well-formed       *)
(* request and any number of dispatches and steps; and what a stream keeps,*)
(* whatever dispatches race for it, and through any number of crashes and  *)
(* lost answers.                                                           *)
(***************************************************************************)
EXTENDS Stream, Rebuild_proofs, SequenceTheorems

-----------------------------------------------------------------------------
(* What leaves the router as an error.                                     *)

LEMMA DecideErrorIsError ==
  ASSUME NEW r, NEW e \in CodedErrors
  PROVE  /\ DecideError(r, e) \in CodedErrors
         /\ e \in Defects \/ IsFact(r) => DecideError(r, e) \in Defects
BY FactFailureIsDefect DEF DecideError, Defects

LEMMA UnknownTypeIsDefect ==
  ASSUME NEW r
  PROVE  UnknownType(RouteReason(r)) \in Defects
<1>1. RouteReason(r) \in Reasons
  BY DEF RouteReason, Reasons
<1>2. <<>> \in Seq(Reasons \cup Keys)
  OBVIOUS
<1>3. QED
  BY <1>1, <1>2, KeyedIsDefect DEF UnknownType

(* A well-formed history rebuilds to a state or an error.                  *)
LEMMA RebuiltIsRun ==
  ASSUME NEW r, WellFormed(r)
  PROVE  IsRun(Rebuilt(r.history))
<1>1. CASE r.history = None
  BY <1>1 DEF Rebuilt, Ok, IsRun
<1>2. CASE r.history # None
  <2> DEFINE book == r.history
  <2>1. WellFormedHistory(book, r.cover)
    BY <1>2 DEF WellFormed
  <2> HIDE DEF book
  <2>2. IsRun(StartOf(book))
    <3>1. IsRun(Ok(Fresh))
      BY DEF Ok, IsRun
    <3>2. ASSUME NEW any, any.kind \in EncodingKinds
          PROVE  IsRun(Decode(any))
      <4>1. /\ FoldFailed("FOLD_FAILED", <<"HANDLER_PANICKED">>) \in FoldErrors
            /\ PersistedCorrupt \in FoldErrors
        <5>1. /\ "FOLD_FAILED" \in Reasons
              /\ "PERSISTED_EVENT_CORRUPT" \in Reasons
              /\ "HANDLER_PANICKED" \in Reasons \cup Keys
          BY DEF Reasons
        <5>2. /\ <<"HANDLER_PANICKED">> \in Seq(Reasons \cup Keys)
              /\ <<>> \in Seq(Reasons \cup Keys)
          BY <5>1
        <5>3. /\ FoldFailed("FOLD_FAILED", <<"HANDLER_PANICKED">>) \in Defects
              /\ PersistedCorrupt \in Defects
          BY <5>1, <5>2, KeyedIsDefect DEF FoldFailed, PersistedCorrupt
        <5>4. /\ FoldFailed("FOLD_FAILED", <<"HANDLER_PANICKED">>).code = "FOLD_FAILED"
              /\ PersistedCorrupt.code = "PERSISTED_EVENT_CORRUPT"
          BY DEF FoldFailed, PersistedCorrupt, Keyed, Coded
        <5>5. QED
          BY <5>3, <5>4 DEF FoldErrors
      <4>3. CASE any.kind = "encoded"
        BY <4>3 DEF Decode, Ok, IsRun
      <4>4. CASE any.kind = "garbage"
        BY <4>1, <4>4 DEF Decode, Failing, IsRun
      <4>5. CASE any.kind = "explosive"
        BY <4>1, <4>5 DEF Decode, Failing, IsRun
      <4>6. QED
        BY <3>2, <4>3, <4>4, <4>5 DEF EncodingKinds
    <3>3. QED
      BY <2>1, <3>1, <3>2 DEF StartOf, WellFormedHistory
  <2>3. Len(book.pages) \in Nat
    BY <2>1 DEF WellFormedHistory
  <2>4. IsRun(FoldBook(book))
    BY <2>2, <2>3, ApplyPagesIsRun DEF FoldBook
  <2>5. QED
    BY <1>2, <2>4 DEF Rebuilt, book
<1>3. QED
  BY <1>1, <1>2

LEMMA EmittedIsRun ==
  ASSUME NEW s, NEW events \in Seq(Events), NEW cover, NEW next, NEW meta
  PROVE  IsRun(ApplyEmitted(s, events, cover, next, meta))
<1> DEFINE pages == Numbered(events, next, meta)
<1>1. Len(pages) \in Nat
  BY DEF Numbered
<1>2. IsRun(Ok(s))
  BY DEF Ok, IsRun
<1> HIDE DEF pages
<1>3. QED
  BY <1>1, <1>2, ApplyPagesIsRun DEF ApplyEmitted, pages

-----------------------------------------------------------------------------
(* The shape of the state.                                                 *)

LEMMA InitTypeOK == Init => TypeOK
<1> SUFFICES ASSUME Init PROVE TypeOK
  OBVIOUS
<1>1. pc \in [Dispatches -> Places]
  BY DEF Init, Places
<1>2. /\ emit \in [Dispatches -> Seq(Events)]
      /\ pending \in [Dispatches -> Seq(Steps)]
      /\ answered \in [Dispatches -> Seq(Events)]
      /\ ran \in [Dispatches -> Seq([step : Steps, added : 0 .. MaxSteps])]
  BY DEF Init
<1>3. QED
  BY <1>1, <1>2 DEF Init, TypeOK

(* Answering an error keeps what TypeOK says of pc and answer.             *)
LEMMA AnswerErrorShape ==
  ASSUME TypeOK, NEW d \in Dispatches, NEW e \in CodedErrors, AnswerError(d, e)
  PROVE  /\ pc' = [pc EXCEPT ![d] = "answered"]
         /\ pc' \in [Dispatches -> Places]
         /\ answer' = [c \in Dispatches |-> answer'[c]]
         /\ \A c \in Dispatches :
              pc'[c] = "answered" => answer'[c].error \in CodedErrors \cup {None}
<1> DEFINE wrong == [error |-> e, events |-> <<>>, state |-> None]
<1>1. pc' = [pc EXCEPT ![d] = "answered"] /\ answer' = [answer EXCEPT ![d] = wrong]
  BY DEF AnswerError, Goto
<1>2. wrong.error = e
  OBVIOUS
<1> HIDE DEF wrong
<1>3. answer' = [c \in Dispatches |-> IF c = d THEN wrong ELSE answer[c]]
  BY <1>1 DEF TypeOK
<1>4. ASSUME NEW c \in Dispatches, pc'[c] = "answered"
      PROVE  answer'[c].error \in CodedErrors \cup {None}
  BY <1>1, <1>2, <1>3, <1>4 DEF TypeOK
<1>5. QED
  BY <1>1, <1>3, <1>4 DEF TypeOK, Places

(* Whoever delivers it, the request must be well formed.                   *)
LEMMA DeliverTypeOK ==
  ASSUME TypeOK, NEW d \in Dispatches, NEW r, WellFormed(r), Deliver(d, r)
  PROVE  TypeOK'
BY DEF Deliver, Goto, TypeOK, Places

LEMMA NextTypeOK == TypeOK /\ [Next]_vars => TypeOK'
<1> SUFFICES ASSUME TypeOK, [Next]_vars PROVE TypeOK'
  OBVIOUS
<1>1. ASSUME NEW d \in Dispatches, NEW r \in Requests, Deliver(d, r)
      PROVE  TypeOK'
  <2>1. WellFormed(r)
    BY HandleAssumption
  <2>2. QED
    BY <1>1, <2>1, DeliverTypeOK
<1>2. ASSUME NEW d \in Dispatches, Route(d)
      PROVE  TypeOK'
  <2>1. UnknownType(RouteReason(req[d])) \in CodedErrors
    BY UnknownTypeIsDefect, DefectsAreErrors
  <2>2. CASE Routed(req[d])
    BY <1>2, <2>2 DEF Route, Goto, TypeOK, Places
  <2>3. CASE ~ Routed(req[d])
    <3>1. AnswerError(d, UnknownType(RouteReason(req[d])))
      BY <1>2, <2>3 DEF Route
    <3>2. QED
      BY <1>2, <2>1, <3>1, AnswerErrorShape DEF Route, TypeOK
  <2>4. QED
    BY <2>2, <2>3
<1>3. ASSUME NEW d \in Dispatches, RebuildState(d)
      PROVE  TypeOK'
  <2> DEFINE rebuilt == Rebuilt(req[d].history)
  <2>1. rebuilt.error \in CodedErrors \cup {None}
    BY <1>3, RebuiltIsRun, RunErrors, DefectsAreErrors DEF RebuildState, TypeOK
  <2> HIDE DEF rebuilt
  <2>2. CASE rebuilt.error # None
    <3>1. AnswerError(d, rebuilt.error) /\ UNCHANGED <<state, pending>>
      BY <1>3, <2>2 DEF RebuildState, rebuilt
    <3>2. QED
      BY <1>3, <2>1, <2>2, <3>1, AnswerErrorShape DEF RebuildState, TypeOK
  <2>3. CASE rebuilt.error = None
    <3>1. << <<>> >> \in Seq(Steps) /\ << <<>> >> # <<>>
      BY DEF Steps
    <3>2. QED
      BY <1>3, <2>3, <3>1 DEF RebuildState, Goto, TypeOK, Places, rebuilt
  <2>4. QED
    BY <2>2, <2>3
<1>4. ASSUME NEW d \in Dispatches, NEW events \in Emissions,
             NEW n \in 0 .. MaxSteps, CallEmits(d, events, n)
      PROVE  TypeOK'
  <2>1. pending[d] \in Seq(Steps) /\ pending[d] # <<>>
    BY <1>4 DEF CallEmits, TypeOK
  <2>2. Head(pending[d]) \in Steps /\ Tail(pending[d]) \in Seq(Steps)
    BY <2>1
  <2>3. Continuations(Head(pending[d]), n) \in Seq(Steps)
    <3>1. \A k \in 1 .. n : Append(Head(pending[d]), k) \in Steps
      BY <2>2 DEF Steps
    <3>2. n \in Nat
      BY HandleAssumption
    <3>3. QED
      BY <3>1, <3>2 DEF Continuations
  <2>4. Continue(pending[d], Continuations(Head(pending[d]), n)) \in Seq(Steps)
    BY <2>2, <2>3 DEF Continue
  <2>5. Append(ran[d], Ran(Head(pending[d]), n))
          \in Seq([step : Steps, added : 0 .. MaxSteps])
    <3>1. Ran(Head(pending[d]), n) \in [step : Steps, added : 0 .. MaxSteps]
      BY <2>2 DEF Ran
    <3>2. ran[d] \in Seq([step : Steps, added : 0 .. MaxSteps])
      BY DEF TypeOK
    <3>3. QED
      BY <3>1, <3>2
  <2>6. events \in Seq(Events)
    BY HandleAssumption
  <2>7. QED
    BY <1>4, <2>4, <2>5, <2>6 DEF CallEmits, Goto, TypeOK, Places
<1>5. ASSUME NEW d \in Dispatches, NEW failure \in Failures,
             CallFails(d, failure)
      PROVE  TypeOK'
  <2>1. DecideError(req[d], CallHandler(failure)) \in CodedErrors
    BY HandleAssumption, CallHandlerIsError, DecideErrorIsError
  <2>2. pending[d] \in Seq(Steps) /\ pending[d] # <<>>
    BY <1>5 DEF CallFails, TypeOK
  <2>3. Append(ran[d], Ran(Head(pending[d]), 0))
          \in Seq([step : Steps, added : 0 .. MaxSteps])
    <3>1. Head(pending[d]) \in Steps /\ 0 \in 0 .. MaxSteps
      BY <2>2, HandleAssumption
    <3>2. Ran(Head(pending[d]), 0) \in [step : Steps, added : 0 .. MaxSteps]
      BY <3>1 DEF Ran
    <3>3. ran[d] \in Seq([step : Steps, added : 0 .. MaxSteps])
      BY DEF TypeOK
    <3>4. QED
      BY <3>2, <3>3
  <2>4. QED
    BY <1>5, <2>1, <2>3, AnswerErrorShape DEF CallFails, TypeOK
<1>6. ASSUME NEW d \in Dispatches, FoldEmitted(d)
      PROVE  TypeOK'
  <2> DEFINE at == NextEmitted(d)
             folded == ApplyEmitted(state[d], emit[d], DecideCover(req[d]), at,
                                    EventMeta(req[d]))
  <2>1. folded.error \in CodedErrors \cup {None}
    BY EmittedIsRun, RunErrors, DefectsAreErrors DEF TypeOK
  <2> HIDE DEF folded, at
  <2>2. CASE folded.error # None
    <3>1. DecideError(req[d], folded.error) \in CodedErrors
      BY <2>1, <2>2, DecideErrorIsError
    <3>2. AnswerError(d, DecideError(req[d], folded.error))
            /\ UNCHANGED <<state, answered>>
      BY <1>6, <2>2 DEF FoldEmitted, folded, at
    <3>3. QED
      BY <1>6, <3>1, <3>2, AnswerErrorShape DEF FoldEmitted, TypeOK
  <2>3. CASE folded.error = None
    <3>1. answered[d] \o emit[d] \in Seq(Events)
      BY DEF TypeOK
    <3>2. QED
      BY <1>6, <2>3, <3>1 DEF FoldEmitted, AfterFold, Goto, TypeOK, Places, folded, at
  <2>4. QED
    BY <2>2, <2>3
<1>7. ASSUME NEW d \in Dispatches, Answer(d)
      PROVE  TypeOK'
  BY <1>7 DEF Answer, Goto, TypeOK, Places
<1>8. ASSUME NEW d \in Dispatches, Unwind(d)
      PROVE  TypeOK'
  BY <1>8 DEF Unwind, Goto, TypeOK, Places
<1>9. ASSUME NEW d \in Dispatches, Return(d)
      PROVE  TypeOK'
  <2>1. /\ pc' = [pc EXCEPT ![d] = "idle"]
        /\ req' = [req EXCEPT ![d] = None]
        /\ state' = [state EXCEPT ![d] = Fresh]
        /\ emit' = [emit EXCEPT ![d] = <<>>]
        /\ pending' = [pending EXCEPT ![d] = <<>>]
        /\ answered' = [answered EXCEPT ![d] = <<>>]
        /\ ran' = [ran EXCEPT ![d] = <<>>]
        /\ answer' = [answer EXCEPT ![d] = None]
    BY <1>9 DEF Return, Forget, Goto
  <2>2. /\ emit' \in [Dispatches -> Seq(Events)]
        /\ pending' \in [Dispatches -> Seq(Steps)]
        /\ answered' \in [Dispatches -> Seq(Events)]
        /\ ran' \in [Dispatches -> Seq([step : Steps, added : 0 .. MaxSteps])]
    <3> DEFINE Runs == [step : Steps, added : 0 .. MaxSteps]
    <3>1. /\ <<>> \in Seq(Events) /\ <<>> \in Seq(Steps) /\ <<>> \in Seq(Runs)
      OBVIOUS
    <3>2. /\ emit \in [Dispatches -> Seq(Events)]
          /\ pending \in [Dispatches -> Seq(Steps)]
          /\ answered \in [Dispatches -> Seq(Events)]
          /\ ran \in [Dispatches -> Seq(Runs)]
      BY DEF TypeOK
    <3> HIDE DEF Runs
    <3>3. /\ emit' \in [Dispatches -> Seq(Events)]
          /\ pending' \in [Dispatches -> Seq(Steps)]
          /\ answered' \in [Dispatches -> Seq(Events)]
          /\ ran' \in [Dispatches -> Seq(Runs)]
      BY <2>1, <3>1, <3>2
    <3>4. QED
      BY <3>3 DEF Runs
  <2>3. QED
    BY <2>1, <2>2 DEF TypeOK, Places
<1>10. CASE UNCHANGED vars
  BY <1>10 DEF vars, TypeOK
<1>11. QED
  BY <1>1, <1>2, <1>3, <1>4, <1>5, <1>6, <1>7, <1>8, <1>9, <1>10
     DEF Next, Step, Call

(* Every reachable state has the shape the code gives it.                  *)
THEOREM TypeCorrect == Spec => []TypeOK
<1>1. QED
  BY InitTypeOK, NextTypeOK, PTL DEF Spec

-----------------------------------------------------------------------------
(* The state a decision runs on is the replay of what it has decided.      *)

LEMMA FunctionIsSequence ==
  ASSUME NEW S, NEW n \in Nat, NEW p \in [1 .. n -> S]
  PROVE  p \in Seq(S)
OBVIOUS

LEMMA ConcatIndices ==
  ASSUME NEW S, NEW p \in Seq(S), NEW q \in Seq(S)
  PROVE  p \o q = [i \in 1 .. Len(p) + Len(q) |->
                     IF i <= Len(p) THEN p[i] ELSE q[i - Len(p)]]
<1>1. p \o q \in Seq(S) /\ Len(p \o q) = Len(p) + Len(q)
  OBVIOUS
<1>2. /\ \A i \in 1 .. Len(p) : (p \o q)[i] = p[i]
      /\ \A i \in 1 .. Len(q) : (p \o q)[Len(p) + i] = q[i]
  OBVIOUS
<1>3. Len(p) \in Nat /\ Len(q) \in Nat
  OBVIOUS
<1> DEFINE pq == p \o q
<1>4. pq = [i \in 1 .. Len(pq) |-> pq[i]]
  <2>1. pq \in Seq(S)
    BY <1>1
  <2> HIDE DEF pq
  <2>2. QED
    BY <2>1
<1>5. ASSUME NEW i \in 1 .. Len(p) + Len(q)
      PROVE  pq[i] = IF i <= Len(p) THEN p[i] ELSE q[i - Len(p)]
  <2>1. CASE i <= Len(p)
    BY <1>2, <1>3, <2>1
  <2>2. CASE ~ (i <= Len(p))
    <3>1. i - Len(p) \in 1 .. Len(q) /\ Len(p) + (i - Len(p)) = i
      BY <1>3, <2>2
    <3>2. QED
      BY <1>2, <2>2, <3>1
  <2>3. QED
    BY <2>1, <2>2
<1>6. Len(pq) = Len(p) + Len(q)
  BY <1>1
<1> HIDE DEF pq
<1>7. pq = [i \in 1 .. Len(p) + Len(q) |->
              IF i <= Len(p) THEN p[i] ELSE q[i - Len(p)]]
  BY <1>4, <1>5, <1>6
<1>8. QED
  BY <1>7 DEF pq

LEMMA NumberedIsSequence ==
  ASSUME NEW events \in Seq(Events), NEW next, NEW meta
  PROVE  \E S : Numbered(events, next, meta) \in Seq(S)
<1> DEFINE p == Numbered(events, next, meta)
           S == {p[i] : i \in 1 .. Len(events)}
<1>1. p \in [1 .. Len(events) -> S] /\ Len(events) \in Nat
  BY DEF Numbered
<1> HIDE DEF p, S
<1>2. p \in Seq(S)
  BY <1>1, FunctionIsSequence
<1>3. QED
  BY <1>2 DEF p

LEMMA StampedIsSequence ==
  ASSUME NEW r, NEW events \in Seq(Events)
  PROVE  \E S : Stamped(r, events) \in Seq(S)
BY NumberedIsSequence DEF Stamped, Numbered

LEMMA StampedGrows ==
  ASSUME NEW r, NEW a \in Seq(Events), NEW b \in Seq(Events),
         NextSequence(r.history) \in Nat
  PROVE  Stamped(r, a \o b) =
         Stamped(r, a) \o
           Numbered(b, NextSequence(r.history) + Len(a), EventMeta(r))
<1> DEFINE from == NextSequence(r.history)
           meta == EventMeta(r)
           left == Stamped(r, a \o b)
           right == Stamped(r, a) \o Numbered(b, from + Len(a), meta)
<1>1. /\ Len(a) \in Nat /\ Len(b) \in Nat
      /\ Len(a \o b) = Len(a) + Len(b)
      /\ \A i \in 1 .. Len(a) : (a \o b)[i] = a[i]
      /\ \A i \in 1 .. Len(b) : (a \o b)[Len(a) + i] = b[i]
  OBVIOUS
<1> HIDE DEF from, meta
<1>2. left = [i \in 1 .. Len(a) + Len(b) |-> Page((a \o b)[i], from + i - 1, meta)]
  BY <1>1 DEF Stamped, from, meta
<1>3. /\ Stamped(r, a) = [i \in 1 .. Len(a) |-> Page(a[i], from + i - 1, meta)]
      /\ Len(Stamped(r, a)) = Len(a)
  BY <1>1 DEF Stamped, from, meta
<1>4. /\ Numbered(b, from + Len(a), meta) =
           [i \in 1 .. Len(b) |-> Page(b[i], (from + Len(a)) + i - 1, meta)]
      /\ Len(Numbered(b, from + Len(a), meta)) = Len(b)
  BY <1>1 DEF Numbered
<1>5. /\ DOMAIN right = 1 .. Len(a) + Len(b)
      /\ right = [i \in 1 .. Len(a) + Len(b) |-> right[i]]
      /\ \A i \in 1 .. Len(a) : right[i] = Stamped(r, a)[i]
      /\ \A i \in Len(a) + 1 .. Len(a) + Len(b) :
           right[i] = Numbered(b, from + Len(a), meta)[i - Len(a)]
  <2> DEFINE p == Stamped(r, a)
             q == Numbered(b, from + Len(a), meta)
             S == {p[i] : i \in 1 .. Len(a)} \cup {q[i] : i \in 1 .. Len(b)}
  <2>1. p \in [1 .. Len(a) -> S] /\ q \in [1 .. Len(b) -> S]
    BY <1>3, <1>4
  <2>2. Len(p) = Len(a) /\ Len(q) = Len(b)
    BY <1>3, <1>4
  <2> HIDE DEF p, q, S
  <2>3. p \in Seq(S) /\ q \in Seq(S)
    BY <1>1, <2>1, FunctionIsSequence
  <2>4. p \o q = [i \in 1 .. Len(p) + Len(q) |->
                   IF i <= Len(p) THEN p[i] ELSE q[i - Len(p)]]
    BY <2>3, ConcatIndices
  <2>5. right = p \o q
    BY DEF p, q
  <2> HIDE DEF right
  <2>6. /\ DOMAIN right = 1 .. Len(a) + Len(b)
        /\ right = [i \in 1 .. Len(a) + Len(b) |-> right[i]]
        /\ \A i \in 1 .. Len(a) : right[i] = p[i]
        /\ \A i \in Len(a) + 1 .. Len(a) + Len(b) : right[i] = q[i - Len(a)]
    BY <1>1, <2>2, <2>4, <2>5
  <2>7. QED
    BY <2>6 DEF p, q
<1>6. ASSUME NEW i \in 1 .. Len(a) + Len(b)
      PROVE  right[i] = Page((a \o b)[i], from + i - 1, meta)
  <2>1. CASE i \in 1 .. Len(a)
    BY <1>1, <1>3, <1>5, <2>1
  <2>2. CASE i \in Len(a) + 1 .. Len(a) + Len(b)
    <3>1. /\ i - Len(a) \in 1 .. Len(b)
          /\ Len(a) + (i - Len(a)) = i
          /\ (from + Len(a)) + (i - Len(a)) - 1 = from + i - 1
      BY <1>1, <2>2 DEF from
    <3>2. right[i] = Page(b[i - Len(a)], (from + Len(a)) + (i - Len(a)) - 1, meta)
      BY <1>4, <1>5, <2>2, <3>1
    <3>3. (a \o b)[i] = b[i - Len(a)]
      BY <1>1, <3>1
    <3>4. QED
      BY <3>1, <3>2, <3>3
  <2>3. i \in 1 .. Len(a) \/ i \in Len(a) + 1 .. Len(a) + Len(b)
    BY <1>1
  <2>4. QED
    BY <2>1, <2>2, <2>3
<1>7. left = right
  BY <1>2, <1>5, <1>6
<1>8. QED
  BY <1>7 DEF from, meta

(* A book is the events of its history, then the decision's; all of them   *)
(* are folded from one start, under the input's cover.                     *)
LEMMA NextBookFold ==
  ASSUME NEW r, WellFormed(r)
  PROVE  \E start, base :
           /\ Len(base) \in Nat
           /\ \E S : base \in Seq(S)
           /\ Rebuilt(r.history) = ApplyPages(start, base, r.cover, "persisted")
           /\ \A a \in Seq(Events) :
                FoldBook(NextBook(r, a)) =
                  ApplyPages(start, base \o Stamped(r, a), r.cover, "persisted")
<1>1. CASE r.history = None
  <2>1. <<>> \in Seq({})
    OBVIOUS
  <2>2. Rebuilt(r.history) = ApplyPages(Ok(Fresh), <<>>, r.cover, "persisted")
    BY <1>1, ApplyPagesNone DEF Rebuilt
  <2>3. ASSUME NEW a \in Seq(Events)
        PROVE  FoldBook(NextBook(r, a)) =
                 ApplyPages(Ok(Fresh), <<>> \o Stamped(r, a), r.cover, "persisted")
    <3>1. <<>> \o Stamped(r, a) = Stamped(r, a)
      <4>1. PICK S : Stamped(r, a) \in Seq(S)
        BY StampedIsSequence
      <4>2. QED
        BY <4>1, ConcatEmptySeq
    <3>2. /\ NextBook(r, a).snapshot = None
          /\ NextBook(r, a).pages = Stamped(r, a)
          /\ NextBook(r, a).cover = r.cover
      BY <1>1 DEF NextBook
    <3>3. QED
      BY <3>1, <3>2 DEF FoldBook, StartOf
  <2>4. QED
    BY <2>1, <2>2, <2>3
<1>2. CASE r.history # None
  <2> DEFINE book == r.history
             start == StartOf(book)
  <2>1. WellFormedHistory(book, r.cover)
    BY <1>2 DEF WellFormed
  <2>2. /\ Rebuilt(r.history) = FoldBook(book)
        /\ book.cover = r.cover
        /\ book.pages \in Seq(Elements(book.pages))
    BY <1>2, <2>1 DEF Rebuilt, WellFormedHistory
  <2>3. Rebuilt(r.history) = ApplyPages(start, book.pages, r.cover, "persisted")
    BY <2>2 DEF FoldBook
  <2>4. ASSUME NEW a \in Seq(Events)
        PROVE  FoldBook(NextBook(r, a)) =
                 ApplyPages(start, book.pages \o Stamped(r, a), r.cover, "persisted")
    <3>1. /\ NextBook(r, a).snapshot = book.snapshot
          /\ NextBook(r, a).pages = book.pages \o Stamped(r, a)
          /\ NextBook(r, a).cover = r.cover
      BY <1>2 DEF NextBook
    <3>2. StartOf(NextBook(r, a)) = start
      BY <3>1 DEF StartOf
    <3>3. QED
      BY <3>1, <3>2 DEF FoldBook
  <2>5. Len(book.pages) \in Nat
    BY <2>2
  <2> HIDE DEF start
  <2>6. QED
    BY <2>2, <2>3, <2>4, <2>5
<1>3. QED
  BY <1>1, <1>2

(* The decision's events are folded onto the rebuild of the history.       *)
LEMMA NextBookReplay ==
  ASSUME NEW r, WellFormed(r), NEW a \in Seq(Events)
  PROVE  FoldBook(NextBook(r, a)) =
         ApplyPages(Rebuilt(r.history), Stamped(r, a), r.cover, "persisted")
<1> DEFINE new == Stamped(r, a)
<1>1. PICK start, base :
        /\ \E S : base \in Seq(S)
        /\ Rebuilt(r.history) = ApplyPages(start, base, r.cover, "persisted")
        /\ FoldBook(NextBook(r, a)) =
             ApplyPages(start, base \o new, r.cover, "persisted")
  BY NextBookFold
<1>2. PICK S1 : base \in Seq(S1)
  BY <1>1
<1>3. PICK S2 : new \in Seq(S2)
  BY StampedIsSequence
<1> HIDE DEF new
<1>4. base \in Seq(S1 \cup S2) /\ new \in Seq(S1 \cup S2)
  BY <1>2, <1>3, SeqMonotonic
<1>5. ApplyPages(start, base \o new, r.cover, "persisted") =
      ApplyPages(ApplyPages(start, base, r.cover, "persisted"),
                 new, r.cover, "persisted")
  BY <1>4, ApplyPagesConcat
<1>6. QED
  BY <1>1, <1>5 DEF new

(* Nothing decided yet: the replay is the rebuild of the history.          *)
LEMMA NextBookStarts ==
  ASSUME NEW r, WellFormed(r)
  PROVE  FoldBook(NextBook(r, <<>>)) = Rebuilt(r.history)
<1>1. PICK start, base :
        /\ \E S : base \in Seq(S)
        /\ Rebuilt(r.history) = ApplyPages(start, base, r.cover, "persisted")
        /\ \A a \in Seq(Events) :
             FoldBook(NextBook(r, a)) =
               ApplyPages(start, base \o Stamped(r, a), r.cover, "persisted")
  BY NextBookFold
<1>2. <<>> \in Seq(Events) /\ Stamped(r, <<>>) = <<>>
  BY DEF Stamped
<1>3. base \o <<>> = base
  BY <1>1, ConcatEmptySeq
<1>4. QED
  BY <1>1, <1>2, <1>3

(* A step's events folded into the replay of what was decided before it is *)
(* the replay of what is decided with them.                                *)
LEMMA NextBookGrows ==
  ASSUME NEW r, WellFormed(r), NEW a \in Seq(Events), NEW b \in Seq(Events),
         NEW s, FoldBook(NextBook(r, a)) = Ok(s),
         ApplyEmitted(s, b, DecideCover(r), NextSequence(r.history) + Len(a),
                      EventMeta(r)).error = None
  PROVE  FoldBook(NextBook(r, a \o b)) =
         ApplyEmitted(s, b, DecideCover(r), NextSequence(r.history) + Len(a),
                      EventMeta(r))
<1> DEFINE new == Numbered(b, NextSequence(r.history) + Len(a), EventMeta(r))
           old == Stamped(r, a)
           start == Rebuilt(r.history)
<1>1. NextSequence(r.history) \in Nat /\ DecideCover(r) = r.cover
  BY DEF WellFormed, WellFormedHistory, NextSequence, DecideCover
<1>2. Stamped(r, a \o b) = old \o new /\ a \o b \in Seq(Events)
  BY <1>1, StampedGrows
<1>3. PICK S : old \in Seq(S) /\ new \in Seq(S)
  <2>1. PICK S1 : old \in Seq(S1)
    BY StampedIsSequence
  <2>2. PICK S2 : new \in Seq(S2)
    BY NumberedIsSequence
  <2> HIDE DEF old, new
  <2>3. old \in Seq(S1 \cup S2) /\ new \in Seq(S1 \cup S2)
    BY <2>1, <2>2, SeqMonotonic
  <2>4. QED
    BY <2>3
<1>4. Len(new) \in Nat
  BY DEF Numbered
<1>5. ApplyPages(start, old, r.cover, "persisted") = Ok(s)
  BY NextBookReplay
<1>6. FoldBook(NextBook(r, a \o b)) =
      ApplyPages(start, Stamped(r, a \o b), r.cover, "persisted")
  BY <1>2, NextBookReplay
<1>7. /\ ApplyEmitted(s, b, DecideCover(r), NextSequence(r.history) + Len(a),
                      EventMeta(r)) =
           ApplyPages(Ok(s), new, r.cover, "emitted")
      /\ ApplyPages(Ok(s), new, r.cover, "emitted").error = None
  BY <1>1 DEF ApplyEmitted
<1> HIDE DEF new, old, start
<1>8. ApplyPages(start, old \o new, r.cover, "persisted") =
      ApplyPages(ApplyPages(start, old, r.cover, "persisted"),
                 new, r.cover, "persisted")
  BY <1>3, ApplyPagesConcat
<1>9. ApplyPages(Ok(s), new, r.cover, "persisted") =
      ApplyPages(Ok(s), new, r.cover, "emitted")
  BY <1>4, <1>7, ApplyPagesOrigin
<1>10. QED
  BY <1>2, <1>5, <1>6, <1>7, <1>8, <1>9

-----------------------------------------------------------------------------
(* The inductive invariant.                                                *)

(* A dispatch's part of it: nothing is decided before the rebuild, the     *)
(* decision's state is its replay, what is answered is what was decided    *)
(* and replays, and an answer that is no defect is a command's, by a       *)
(* business call.                                                          *)
DecisionOK(d) ==
  /\ pc[d] \in {"idle", "route", "rebuild"} => answered[d] = <<>>
  /\ pc[d] \in {"call", "fold", "encode"} =>
       FoldBook(NextBook(req[d], answered[d])) = Ok(state[d])
  /\ pc[d] = "answered" /\ answer[d].error = None =>
       LET replay == FoldBook(NextBook(req[d], answer[d].events))
       IN  /\ replay.error = None
           /\ answer[d].state = EncodeState(replay.state)
           /\ answer[d].events = answered[d]
  /\ pc[d] = "answered" =>
       \/ answer[d].error \in Defects \cup {None}
       \/ ~ IsFact(req[d]) /\ ran[d] # <<>>

HandleInv == TypeOK /\ \A d \in Dispatches : DecisionOK(d)

Same(d) ==
  /\ pc'[d] = pc[d] /\ req'[d] = req[d] /\ state'[d] = state[d]
  /\ answered'[d] = answered[d] /\ answer'[d] = answer[d] /\ ran'[d] = ran[d]

LEMMA SameKeeps ==
  ASSUME NEW d \in Dispatches, DecisionOK(d), Same(d)
  PROVE  DecisionOK(d)'
BY DEF DecisionOK, Same

(* Answering an error.                                                     *)
LEMMA AnswerErrorKeeps ==
  ASSUME TypeOK, NEW d \in Dispatches, NEW e \in CodedErrors, AnswerError(d, e),
         e \in Defects \/ (~ IsFact(req'[d]) /\ ran'[d] # <<>>)
  PROVE  /\ DecisionOK(d)'
         /\ \A c \in Dispatches \ {d} : pc'[c] = pc[c] /\ answer'[c] = answer[c]
<1> DEFINE wrong == [error |-> e, events |-> <<>>, state |-> None]
<1>1. pc' = [pc EXCEPT ![d] = "answered"] /\ answer' = [answer EXCEPT ![d] = wrong]
  BY DEF AnswerError, Goto
<1>2. wrong.error = e
  OBVIOUS
<1> HIDE DEF wrong
<1>3. pc'[d] = "answered" /\ answer'[d] = wrong
  BY <1>1 DEF TypeOK
<1>4. wrong.error # None
  BY <1>2, ErrorsAssumption
<1>5. DecisionOK(d)'
  BY <1>2, <1>3, <1>4 DEF DecisionOK
<1>6. QED
  BY <1>1, <1>5 DEF TypeOK

LEMMA InitHandleInv == Init => HandleInv
<1> SUFFICES ASSUME Init PROVE HandleInv
  OBVIOUS
<1>1. ASSUME NEW d \in Dispatches
      PROVE  DecisionOK(d)
  <2>1. pc[d] = "idle" /\ answered[d] = <<>>
    BY DEF Init
  <2>2. QED
    BY <2>1 DEF DecisionOK
<1>2. QED
  BY <1>1, InitTypeOK DEF HandleInv

LEMMA DeliverKeeps ==
  ASSUME HandleInv, NEW d \in Dispatches, NEW r, WellFormed(r), Deliver(d, r)
  PROVE  HandleInv'
<1>1. TypeOK /\ TypeOK' /\ \A c \in Dispatches : DecisionOK(c)
  BY DeliverTypeOK DEF HandleInv
<1>2. \A c \in Dispatches \ {d} : Same(c)
  BY <1>1 DEF Deliver, Goto, Same, TypeOK
<1>3. pc'[d] = "route" /\ answered'[d] = <<>>
  BY <1>1 DEF Deliver, Goto, TypeOK, DecisionOK
<1>4. DecisionOK(d)'
  BY <1>3 DEF DecisionOK
<1>5. QED
  BY <1>1, <1>2, <1>4, SameKeeps DEF HandleInv

LEMMA NextHandleInv == HandleInv /\ [Next]_vars => HandleInv'
<1> SUFFICES ASSUME HandleInv, [Next]_vars PROVE HandleInv'
  OBVIOUS
<1>1. TypeOK /\ TypeOK' /\ \A c \in Dispatches : DecisionOK(c)
  BY NextTypeOK DEF HandleInv
<1>2. SUFFICES \A c \in Dispatches : DecisionOK(c)'
  BY <1>1 DEF HandleInv
<1>3. ASSUME NEW d \in Dispatches, NEW r \in Requests, Deliver(d, r)
      PROVE  \A c \in Dispatches : DecisionOK(c)'
  BY <1>3, HandleAssumption, DeliverKeeps DEF HandleInv
<1>4. ASSUME NEW d \in Dispatches, Route(d)
      PROVE  \A c \in Dispatches : DecisionOK(c)'
  <2>1. CASE Routed(req[d])
    <3>1. \A c \in Dispatches \ {d} : Same(c)
      BY <1>1, <1>4, <2>1 DEF Route, Goto, Same, TypeOK
    <3>2. pc'[d] = "rebuild" /\ answered'[d] = <<>>
      BY <1>1, <1>4, <2>1 DEF Route, Goto, TypeOK, DecisionOK
    <3>3. DecisionOK(d)'
      BY <3>2 DEF DecisionOK
    <3>4. QED
      BY <1>1, <3>1, <3>3, SameKeeps
  <2>2. CASE ~ Routed(req[d])
    <3>1. AnswerError(d, UnknownType(RouteReason(req[d])))
      BY <1>4, <2>2 DEF Route
    <3>2. /\ DecisionOK(d)'
          /\ \A c \in Dispatches \ {d} : pc'[c] = pc[c] /\ answer'[c] = answer[c]
      BY <1>1, <3>1, UnknownTypeIsDefect, DefectsAreErrors, AnswerErrorKeeps
    <3>3. \A c \in Dispatches \ {d} : Same(c)
      BY <1>4, <3>2 DEF Route, Same
    <3>4. QED
      BY <1>1, <3>2, <3>3, SameKeeps
  <2>3. QED
    BY <2>1, <2>2
<1>5. ASSUME NEW d \in Dispatches, RebuildState(d)
      PROVE  \A c \in Dispatches : DecisionOK(c)'
  <2> DEFINE rebuilt == Rebuilt(req[d].history)
  <2>1. WellFormed(req[d]) /\ answered[d] = <<>>
    BY <1>1, <1>5 DEF RebuildState, TypeOK, DecisionOK
  <2>2. IsRun(rebuilt)
    BY <2>1, RebuiltIsRun
  <2>3. FoldBook(NextBook(req[d], <<>>)) = rebuilt
    BY <2>1, NextBookStarts
  <2> HIDE DEF rebuilt
  <2>4. CASE rebuilt.error # None
    <3>1. AnswerError(d, rebuilt.error) /\ UNCHANGED <<state, req, answered, ran>>
      BY <1>5, <2>4 DEF RebuildState, rebuilt
    <3>2. rebuilt.error \in Defects
      BY <2>2, <2>4, RunErrors
    <3>3. /\ DecisionOK(d)'
          /\ \A c \in Dispatches \ {d} : pc'[c] = pc[c] /\ answer'[c] = answer[c]
      BY <1>1, <3>1, <3>2, DefectsAreErrors, AnswerErrorKeeps
    <3>4. \A c \in Dispatches \ {d} : Same(c)
      BY <3>1, <3>3 DEF Same
    <3>5. QED
      BY <1>1, <3>3, <3>4, SameKeeps
  <2>5. CASE rebuilt.error = None
    <3>1. /\ state' = [state EXCEPT ![d] = rebuilt.state]
          /\ pc' = [pc EXCEPT ![d] = "call"]
          /\ UNCHANGED <<req, answered, answer, ran>>
      BY <1>5, <2>5 DEF RebuildState, Goto, rebuilt
    <3>2. \A c \in Dispatches \ {d} : Same(c)
      BY <1>1, <3>1 DEF Same, TypeOK
    <3>3. /\ pc'[d] = "call" /\ state'[d] = rebuilt.state
          /\ req'[d] = req[d] /\ answered'[d] = <<>>
      BY <1>1, <2>1, <3>1 DEF TypeOK
    <3>4. rebuilt = Ok(rebuilt.state)
      BY <2>2, <2>5 DEF IsRun, Ok
    <3>5. FoldBook(NextBook(req'[d], answered'[d])) = Ok(state'[d])
      BY <2>3, <3>3, <3>4
    <3>6. DecisionOK(d)'
      BY <3>3, <3>5 DEF DecisionOK
    <3>7. QED
      BY <1>1, <3>2, <3>6, SameKeeps
  <2>6. QED
    BY <2>4, <2>5
<1>6. ASSUME NEW d \in Dispatches, NEW events \in Emissions,
             NEW n \in 0 .. MaxSteps, CallEmits(d, events, n)
      PROVE  \A c \in Dispatches : DecisionOK(c)'
  <2>1. \A c \in Dispatches \ {d} : Same(c)
    BY <1>1, <1>6 DEF CallEmits, Goto, Same, TypeOK
  <2>2. /\ pc[d] = "call" /\ pc'[d] = "fold" /\ state'[d] = state[d]
        /\ req'[d] = req[d] /\ answered'[d] = answered[d]
    BY <1>1, <1>6 DEF CallEmits, Goto, TypeOK
  <2>3. DecisionOK(d)'
    BY <1>1, <2>2 DEF DecisionOK
  <2>4. QED
    BY <1>1, <2>1, <2>3, SameKeeps
<1>7. ASSUME NEW d \in Dispatches, NEW failure \in Failures,
             CallFails(d, failure)
      PROVE  \A c \in Dispatches : DecisionOK(c)'
  <2> DEFINE e == DecideError(req[d], CallHandler(failure))
  <2>1. e \in CodedErrors /\ (e \in Defects \/ ~ IsFact(req[d]))
    BY HandleAssumption, CallHandlerIsError, DecideErrorIsError
  <2> HIDE DEF e
  <2>2. /\ AnswerError(d, e) /\ UNCHANGED <<req, state, answered>>
        /\ ran' = [ran EXCEPT ![d] = Append(@, Ran(Head(pending[d]), 0))]
    BY <1>7 DEF CallFails, e
  <2>3. ran'[d] # <<>> /\ \A c \in Dispatches \ {d} : ran'[c] = ran[c]
    <3>1. ran'[d] = Append(ran[d], Ran(Head(pending[d]), 0))
      BY <1>1, <2>2 DEF TypeOK
    <3>2. ran[d] \in Seq([step : Steps, added : 0 .. MaxSteps])
      BY <1>1 DEF TypeOK
    <3>3. Append(ran[d], Ran(Head(pending[d]), 0)) # <<>>
      BY <3>2
    <3>4. QED
      BY <1>1, <2>2, <3>1, <3>3 DEF TypeOK
  <2>4. /\ DecisionOK(d)'
        /\ \A c \in Dispatches \ {d} : pc'[c] = pc[c] /\ answer'[c] = answer[c]
    BY <1>1, <2>1, <2>2, <2>3, AnswerErrorKeeps
  <2>5. \A c \in Dispatches \ {d} : Same(c)
    BY <2>2, <2>3, <2>4 DEF Same
  <2>6. QED
    BY <1>1, <2>4, <2>5, SameKeeps
<1>8. ASSUME NEW d \in Dispatches, FoldEmitted(d)
      PROVE  \A c \in Dispatches : DecisionOK(c)'
  <2> DEFINE at == NextEmitted(d)
             folded == ApplyEmitted(state[d], emit[d], DecideCover(req[d]), at,
                                    EventMeta(req[d]))
  <2>1. /\ pc[d] = "fold" /\ WellFormed(req[d])
        /\ answered[d] \in Seq(Events) /\ emit[d] \in Seq(Events)
        /\ FoldBook(NextBook(req[d], answered[d])) = Ok(state[d])
    BY <1>1, <1>8 DEF FoldEmitted, TypeOK, DecisionOK
  <2>2. IsRun(folded)
    BY <2>1, EmittedIsRun
  <2>3. folded.error = None =>
          FoldBook(NextBook(req[d], answered[d] \o emit[d])) = folded
    BY <2>1, NextBookGrows DEF NextEmitted
  <2> HIDE DEF folded, at
  <2>4. CASE folded.error # None
    <3>1. AnswerError(d, DecideError(req[d], folded.error))
            /\ UNCHANGED <<req, state, answered, ran>>
      BY <1>8, <2>4 DEF FoldEmitted, folded, at
    <3>2. folded.error \in Defects
      BY <2>2, <2>4, RunErrors
    <3>3. DecideError(req[d], folded.error) \in Defects
      BY <3>2, DefectsAreErrors, DecideErrorIsError
    <3>4. /\ DecisionOK(d)'
          /\ \A c \in Dispatches \ {d} : pc'[c] = pc[c] /\ answer'[c] = answer[c]
      BY <1>1, <3>1, <3>3, DefectsAreErrors, AnswerErrorKeeps
    <3>5. \A c \in Dispatches \ {d} : Same(c)
      BY <3>1, <3>4 DEF Same
    <3>6. QED
      BY <1>1, <3>4, <3>5, SameKeeps
  <2>5. CASE folded.error = None
    <3>1. /\ state' = [state EXCEPT ![d] = folded.state]
          /\ answered' = [answered EXCEPT ![d] = answered[d] \o emit[d]]
          /\ pc' = [pc EXCEPT ![d] = AfterFold(pending[d])]
          /\ UNCHANGED <<req, answer, ran>>
      BY <1>1, <1>8, <2>5 DEF FoldEmitted, Goto, folded, at, TypeOK
    <3>2. \A c \in Dispatches \ {d} : Same(c)
      BY <1>1, <3>1 DEF Same, TypeOK
    <3>3. /\ pc'[d] \in {"call", "encode"} /\ state'[d] = folded.state
          /\ req'[d] = req[d] /\ answered'[d] = answered[d] \o emit[d]
      BY <1>1, <3>1 DEF TypeOK, AfterFold
    <3>4. folded = Ok(folded.state)
      BY <2>2, <2>5 DEF IsRun, Ok
    <3>5. FoldBook(NextBook(req'[d], answered'[d])) = Ok(state'[d])
      BY <2>3, <2>5, <3>3, <3>4
    <3>6. DecisionOK(d)'
      BY <3>3, <3>5 DEF DecisionOK
    <3>7. QED
      BY <1>1, <3>2, <3>6, SameKeeps
  <2>6. QED
    BY <2>4, <2>5
<1>9. ASSUME NEW d \in Dispatches, Answer(d)
      PROVE  \A c \in Dispatches : DecisionOK(c)'
  <2> DEFINE right == [error |-> None, events |-> answered[d],
                       state |-> EncodeState(state[d])]
  <2>1. /\ pc[d] = "encode" /\ pc' = [pc EXCEPT ![d] = "answered"]
        /\ answer' = [answer EXCEPT ![d] = right]
        /\ UNCHANGED <<req, state, answered, ran>>
    BY <1>9 DEF Answer, Goto
  <2>2. /\ right.error = None /\ right.events = answered[d]
        /\ right.state = EncodeState(state[d])
    OBVIOUS
  <2> HIDE DEF right
  <2>3. \A c \in Dispatches \ {d} : Same(c)
    BY <1>1, <2>1 DEF Same, TypeOK
  <2>4. /\ pc'[d] = "answered" /\ answer'[d] = right /\ req'[d] = req[d]
    BY <1>1, <2>1 DEF TypeOK
  <2>5. FoldBook(NextBook(req[d], answered[d])) = Ok(state[d])
    BY <1>1, <2>1 DEF DecisionOK
  <2>6. /\ FoldBook(NextBook(req'[d], answer'[d].events)).error = None
        /\ FoldBook(NextBook(req'[d], answer'[d].events)).state = state[d]
        /\ answer'[d].events = answered'[d]
    BY <2>1, <2>2, <2>4, <2>5 DEF Ok
  <2>7. DecisionOK(d)'
    BY <2>2, <2>4, <2>6 DEF DecisionOK
  <2>8. QED
    BY <1>1, <2>3, <2>7, SameKeeps
<1>10. ASSUME NEW d \in Dispatches, Unwind(d)
      PROVE  \A c \in Dispatches : DecisionOK(c)'
  <2>1. \A c \in Dispatches \ {d} : Same(c)
    BY <1>1, <1>10 DEF Unwind, Goto, Same, TypeOK
  <2>2. pc'[d] = "unwound"
    BY <1>1, <1>10 DEF Unwind, Goto, TypeOK
  <2>3. DecisionOK(d)'
    BY <2>2 DEF DecisionOK
  <2>4. QED
    BY <1>1, <2>1, <2>3, SameKeeps
<1>11. ASSUME NEW d \in Dispatches, Return(d)
      PROVE  \A c \in Dispatches : DecisionOK(c)'
  <2>1. \A c \in Dispatches \ {d} : Same(c)
    BY <1>1, <1>11 DEF Return, Forget, Goto, Same, TypeOK
  <2>2. pc'[d] = "idle" /\ answered'[d] = <<>>
    BY <1>1, <1>11 DEF Return, Forget, Goto, TypeOK
  <2>3. DecisionOK(d)'
    BY <2>2 DEF DecisionOK
  <2>4. QED
    BY <1>1, <2>1, <2>3, SameKeeps
<1>12. CASE UNCHANGED vars
  <2>1. \A c \in Dispatches : Same(c)
    BY <1>12 DEF vars, Same
  <2>2. QED
    BY <1>1, <2>1, SameKeeps
<1>13. QED
  BY <1>3, <1>4, <1>5, <1>6, <1>7, <1>8, <1>9, <1>10, <1>11, <1>12
     DEF Next, Step, Call

LEMMA Invariant == Spec => []HandleInv
BY InitHandleInv, NextHandleInv, PTL DEF Spec

(* Read your own writes, for every business code: each step runs on what a *)
(* rebuild of the history with the decision so far appended comes to.      *)
THEOREM StepsSeeTheirReplay == Spec => []StepsSeeReplay
<1>1. HandleInv => StepsSeeReplay
  BY DEF HandleInv, DecisionOK, StepsSeeReplay
<1>2. QED
  BY <1>1, Invariant, PTL

(* A decision that is answered replays, to the state the answer carried.   *)
THEOREM AnswersReplay == Spec => []AnswerReplays
<1>1. HandleInv => AnswerReplays
  BY DEF HandleInv, DecisionOK, AnswerReplays
<1>2. QED
  BY <1>1, Invariant, PTL

(* Nothing but the business code of a command refuses or asks for a re-run.*)
THEOREM OnlyCommandsRefuseOrRerun == Spec => []OnlyCommandsRefuse
<1>1. HandleInv => OnlyCommandsRefuse
  BY DEF HandleInv, DecisionOK, OnlyCommandsRefuse, Defects, IsFact
<1>2. QED
  BY <1>1, Invariant, PTL

-----------------------------------------------------------------------------
(* The order of steps.                                                     *)

(* Two steps part at a place where the one goes before the other: neither  *)
(* is a continuation of the other.                                         *)
Parts(p, q) ==
  \E k \in 1 .. Len(p) :
    /\ k <= Len(q)
    /\ SubSeq(p, 1, k - 1) = SubSeq(q, 1, k - 1)
    /\ p[k] < q[k]

LEMMA AppendKeeps ==
  ASSUME NEW p \in Steps, NEW k \in Nat \ {0}
  PROVE  /\ Append(p, k) \in Steps
         /\ Len(Append(p, k)) = Len(p) + 1
         /\ Append(p, k)[Len(p) + 1] = k
         /\ \A i \in 1 .. Len(p) : Append(p, k)[i] = p[i]
         /\ \A n \in 0 .. Len(p) : SubSeq(Append(p, k), 1, n) = SubSeq(p, 1, n)
<1>1. p \in Seq(Nat \ {0}) /\ Len(p) \in Nat
  BY DEF Steps
<1>2. /\ Append(p, k) \in Seq(Nat \ {0})
      /\ Len(Append(p, k)) = Len(p) + 1
      /\ Append(p, k)[Len(p) + 1] = k
      /\ \A i \in 1 .. Len(p) : Append(p, k)[i] = p[i]
  BY <1>1
<1>3. ASSUME NEW n \in 0 .. Len(p)
      PROVE  SubSeq(Append(p, k), 1, n) = SubSeq(p, 1, n)
  <2> DEFINE a == SubSeq(Append(p, k), 1, n)
             b == SubSeq(p, 1, n)
  <2>1. /\ a = [i \in 1 .. n |-> Append(p, k)[i]]
        /\ b = [i \in 1 .. n |-> p[i]]
    BY <1>1, <1>2
  <2>2. \A i \in 1 .. n : Append(p, k)[i] = p[i]
    BY <1>1, <1>2
  <2> HIDE DEF a, b
  <2>3. a = b
    BY <2>1, <2>2
  <2>4. QED
    BY <2>3 DEF a, b
<1>4. QED
  BY <1>2, <1>3 DEF Steps

LEMMA PartsPrecede ==
  ASSUME NEW p, NEW q, Parts(p, q)
  PROVE  Precedes(p, q)
BY DEF Parts, Precedes

(* What precedes a step precedes its continuations.                        *)
LEMMA PrecedesChild ==
  ASSUME NEW p \in Steps, NEW q \in Steps, NEW k \in Nat \ {0}, Precedes(p, q)
  PROVE  Precedes(p, Append(q, k))
<1> DEFINE c == Append(q, k)
<1>1. /\ Len(c) = Len(q) + 1
      /\ \A i \in 1 .. Len(q) : c[i] = q[i]
      /\ \A n \in 0 .. Len(q) : SubSeq(c, 1, n) = SubSeq(q, 1, n)
  BY AppendKeeps
<1>2. Len(p) \in Nat /\ Len(q) \in Nat
  BY DEF Steps
<1> HIDE DEF c
<1>3. CASE Len(p) < Len(q) /\ p = SubSeq(q, 1, Len(p))
  <2>1. Len(p) < Len(c) /\ p = SubSeq(c, 1, Len(p))
    BY <1>1, <1>2, <1>3
  <2>2. QED
    BY <2>1 DEF Precedes, c
<1>4. CASE Parts(p, q)
  <2>1. PICK i \in 1 .. Len(p) :
          /\ i <= Len(q)
          /\ SubSeq(p, 1, i - 1) = SubSeq(q, 1, i - 1)
          /\ p[i] < q[i]
    BY <1>4 DEF Parts
  <2>2. i - 1 \in 0 .. Len(q) /\ i \in 1 .. Len(q)
    BY <1>2, <2>1
  <2>3. /\ i <= Len(c)
        /\ SubSeq(p, 1, i - 1) = SubSeq(c, 1, i - 1)
        /\ p[i] < c[i]
    BY <1>1, <1>2, <2>1, <2>2
  <2>4. QED
    BY <2>3 DEF Precedes, c
<1>5. QED
  BY <1>3, <1>4 DEF Precedes, Parts

(* What parts from a step parts from its continuations.                    *)
LEMMA PartsChild ==
  ASSUME NEW p \in Steps, NEW q \in Steps, NEW k \in Nat \ {0}, Parts(p, q)
  PROVE  Parts(Append(p, k), q)
<1> DEFINE c == Append(p, k)
<1>1. /\ Len(c) = Len(p) + 1
      /\ \A i \in 1 .. Len(p) : c[i] = p[i]
      /\ \A n \in 0 .. Len(p) : SubSeq(c, 1, n) = SubSeq(p, 1, n)
  BY AppendKeeps
<1>2. Len(p) \in Nat
  BY DEF Steps
<1>3. PICK i \in 1 .. Len(p) :
        /\ i <= Len(q)
        /\ SubSeq(p, 1, i - 1) = SubSeq(q, 1, i - 1)
        /\ p[i] < q[i]
  BY DEF Parts
<1>4. i - 1 \in 0 .. Len(p) /\ i \in 1 .. Len(c)
  BY <1>1, <1>2
<1> HIDE DEF c
<1>5. /\ SubSeq(c, 1, i - 1) = SubSeq(q, 1, i - 1)
      /\ c[i] < q[i]
  BY <1>1, <1>3, <1>4
<1>6. QED
  BY <1>3, <1>4, <1>5 DEF Parts, c

(* Continuations of one step part in the order they were added, and follow *)
(* the step.                                                               *)
LEMMA SiblingsPart ==
  ASSUME NEW p \in Steps, NEW i \in Nat \ {0}, NEW j \in Nat \ {0}, i < j
  PROVE  Parts(Append(p, i), Append(p, j))
<1> DEFINE a == Append(p, i)
           b == Append(p, j)
           n == Len(p)
<1>1. /\ Len(a) = n + 1 /\ Len(b) = n + 1
      /\ a[n + 1] = i /\ b[n + 1] = j
      /\ \A m \in 0 .. n : SubSeq(a, 1, m) = SubSeq(p, 1, m)
      /\ \A m \in 0 .. n : SubSeq(b, 1, m) = SubSeq(p, 1, m)
  BY AppendKeeps
<1>2. n \in Nat /\ n \in 0 .. n /\ n + 1 - 1 = n
  BY DEF Steps
<1> HIDE DEF a, b, n
<1>3. /\ n + 1 \in 1 .. Len(a) /\ n + 1 <= Len(b)
      /\ SubSeq(a, 1, n + 1 - 1) = SubSeq(b, 1, n + 1 - 1)
      /\ a[n + 1] < b[n + 1]
  BY <1>1, <1>2
<1>4. QED
  BY <1>3 DEF Parts, a, b

LEMMA ParentPrecedes ==
  ASSUME NEW p \in Steps, NEW k \in Nat \ {0}
  PROVE  Precedes(p, Append(p, k))
<1>1. Len(p) \in Nat /\ p = SubSeq(p, 1, Len(p))
  BY DEF Steps
<1>2. Len(p) < Len(Append(p, k)) /\ SubSeq(Append(p, k), 1, Len(p)) = SubSeq(p, 1, Len(p))
  BY <1>1, AppendKeeps
<1>3. QED
  BY <1>1, <1>2 DEF Precedes

(* What was run is in order; what is waiting follows it, no step of it a   *)
(* continuation of another; and every continuation added was run or waits. *)
InOrder(runs) ==
  \A i, j \in 1 .. Len(runs) : i < j => Precedes(runs[i].step, runs[j].step)

Awaits(runs, waiting) ==
  /\ \A i \in 1 .. Len(runs), j \in 1 .. Len(waiting) :
       Precedes(runs[i].step, waiting[j])
  /\ \A i, j \in 1 .. Len(waiting) : i < j => Parts(waiting[i], waiting[j])
  /\ \A i \in 1 .. Len(runs) : \A k \in 1 .. runs[i].added :
       \/ \E j \in 1 .. Len(runs) : runs[j].step = Append(runs[i].step, k)
       \/ \E j \in 1 .. Len(waiting) : waiting[j] = Append(runs[i].step, k)

StepRuns == [step : Steps, added : 0 .. MaxSteps]

LEMMA HeadRuns ==
  ASSUME NEW runs \in Seq(StepRuns), NEW waiting \in Seq(Steps), waiting # <<>>,
         InOrder(runs), Awaits(runs, waiting), NEW n
  PROVE  InOrder(Append(runs, Ran(Head(waiting), n)))
<1> DEFINE all == Append(runs, Ran(Head(waiting), n))
<1>1. /\ Len(runs) \in Nat /\ Len(all) = Len(runs) + 1
      /\ \A i \in 1 .. Len(runs) : all[i] = runs[i]
      /\ all[Len(runs) + 1] = Ran(Head(waiting), n)
  OBVIOUS
<1>2. Ran(Head(waiting), n).step = waiting[1] /\ 1 \in 1 .. Len(waiting)
  BY DEF Ran
<1> HIDE DEF all
<1>3. ASSUME NEW i \in 1 .. Len(all), NEW j \in 1 .. Len(all), i < j
      PROVE  Precedes(all[i].step, all[j].step)
  <2>1. i \in 1 .. Len(runs) /\ all[i] = runs[i]
    BY <1>1, <1>3
  <2>2. CASE j \in 1 .. Len(runs)
    BY <1>1, <1>3, <2>1, <2>2 DEF InOrder
  <2>3. CASE j = Len(runs) + 1
    <3>1. Precedes(runs[i].step, waiting[1])
      BY <1>2, <2>1 DEF Awaits
    <3>2. QED
      BY <1>1, <1>2, <2>1, <2>3, <3>1
  <2>4. QED
    BY <1>1, <2>2, <2>3
<1>4. QED
  BY <1>3 DEF InOrder, all

LEMMA ContinuationsAre ==
  ASSUME NEW step \in Steps, NEW n \in Nat
  PROVE  /\ Continuations(step, n) \in Seq(Steps)
         /\ Len(Continuations(step, n)) = n
         /\ \A k \in 1 .. n : Continuations(step, n)[k] = Append(step, k)
<1>1. \A k \in 1 .. n : Append(step, k) \in Steps
  BY DEF Steps
<1>2. QED
  BY <1>1 DEF Continuations

(* Running the step at the head keeps the rest waiting as it should.       *)
LEMMA Continues ==
  ASSUME NEW runs \in Seq(StepRuns), NEW waiting \in Seq(Steps), waiting # <<>>,
         InOrder(runs), Awaits(runs, waiting), NEW n \in 0 .. MaxSteps
  PROVE  Awaits(Append(runs, Ran(Head(waiting), n)),
                Continue(waiting, Continuations(Head(waiting), n)))
<1> DEFINE head == Head(waiting)
           added == Continuations(head, n)
           all == Append(runs, Ran(head, n))
           left == Continue(waiting, added)
           m == Len(waiting)
           l == Len(runs)
<1>1. /\ m \in Nat \ {0} /\ l \in Nat /\ n \in Nat /\ MaxSteps \in Nat
      /\ head \in Steps /\ head = waiting[1]
  BY HandleAssumption
<1>2. /\ added \in Seq(Steps) /\ Len(added) = n
      /\ \A k \in 1 .. n : added[k] = Append(head, k)
  BY <1>1, ContinuationsAre
<1>3. /\ Len(all) = l + 1
      /\ \A i \in 1 .. l : all[i] = runs[i]
      /\ all[l + 1].step = head /\ all[l + 1].added = n
  BY DEF Ran
<1>4. /\ Tail(waiting) \in Seq(Steps) /\ Len(Tail(waiting)) = m - 1
      /\ \A k \in 1 .. m - 1 : Tail(waiting)[k] = waiting[k + 1]
  OBVIOUS
<1> DEFINE rest == Tail(waiting)
<1> HIDE DEF added, head, rest, m
<1>5. /\ Len(left) = n + (m - 1)
      /\ \A k \in 1 .. n : left[k] = Append(head, k)
      /\ \A k \in 1 .. m - 1 : left[n + k] = waiting[k + 1]
  <2>1. /\ rest \in Seq(Steps) /\ Len(rest) = m - 1
        /\ \A k \in 1 .. m - 1 : rest[k] = waiting[k + 1]
    BY <1>4 DEF rest
  <2>2. left = added \o rest
    BY DEF Continue, rest
  <2>3. /\ Len(added \o rest) = Len(added) + Len(rest)
        /\ \A k \in 1 .. Len(added) : (added \o rest)[k] = added[k]
        /\ \A k \in 1 .. Len(rest) : (added \o rest)[Len(added) + k] = rest[k]
    <3>1. added \in Seq(Steps) /\ rest \in Seq(Steps)
      BY <1>2, <2>1
    <3>2. QED
      BY <3>1, ConcatProperties
  <2>4. QED
    BY <1>2, <2>1, <2>2, <2>3
<1>6. ASSUME NEW j \in 1 .. Len(left), j > n
      PROVE  j - n + 1 \in 2 .. m /\ left[j] = waiting[j - n + 1]
  <2>1. j - n \in 1 .. m - 1 /\ n + (j - n) = j
    BY <1>1, <1>5, <1>6
  <2>2. left[n + (j - n)] = waiting[(j - n) + 1]
    BY <1>5, <2>1
  <2>3. QED
    BY <1>1, <2>1, <2>2
<1> HIDE DEF all, left, m, l
<1>7. \A i \in 1 .. l : runs[i].step \in Steps
  <2>1. \A i \in 1 .. l : runs[i] \in StepRuns
    BY DEF l
  <2>2. QED
    BY <2>1 DEF StepRuns
<1>8. \A k \in 1 .. m : waiting[k] \in Steps
  BY DEF m
<1>9. ASSUME NEW i \in 1 .. Len(all), NEW j \in 1 .. Len(left)
      PROVE  Precedes(all[i].step, left[j])
  <2>1. CASE j <= n
    <3>1. left[j] = Append(head, j) /\ j \in Nat \ {0}
      BY <1>1, <1>5, <2>1
    <3>2. CASE i \in 1 .. l
      <4>1. Precedes(runs[i].step, head) /\ runs[i].step \in Steps
        BY <1>1, <1>7, <3>2 DEF Awaits, m, l
      <4>2. QED
        BY <1>1, <1>3, <3>1, <3>2, <4>1, PrecedesChild
    <3>3. CASE i = l + 1
      BY <1>1, <1>3, <3>1, <3>3, ParentPrecedes
    <3>4. QED
      BY <1>1, <1>3, <3>2, <3>3
  <2>2. CASE j > n
    <3>1. j - n + 1 \in 2 .. m /\ left[j] = waiting[j - n + 1]
      BY <1>6, <2>2
    <3>2. CASE i \in 1 .. l
      <4>1. j - n + 1 \in 1 .. m
        BY <1>1, <3>1
      <4>2. Precedes(runs[i].step, waiting[j - n + 1])
        BY <3>2, <4>1 DEF Awaits, m, l
      <4>3. QED
        BY <1>3, <3>1, <3>2, <4>2
    <3>3. CASE i = l + 1
      <4>1. Parts(waiting[1], waiting[j - n + 1])
        BY <1>1, <3>1 DEF Awaits, m
      <4>2. QED
        BY <1>1, <1>3, <3>1, <3>3, <4>1, PartsPrecede
    <3>4. QED
      BY <1>1, <1>3, <3>2, <3>3
  <2>3. QED
    BY <1>1, <1>5, <2>1, <2>2
<1>10. ASSUME NEW i \in 1 .. Len(left), NEW j \in 1 .. Len(left), i < j
       PROVE  Parts(left[i], left[j])
  <2>1. CASE j <= n
    <3>1. /\ left[i] = Append(head, i) /\ i \in Nat \ {0}
          /\ left[j] = Append(head, j) /\ j \in Nat \ {0}
      BY <1>1, <1>5, <1>10, <2>1
    <3>2. QED
      BY <1>1, <1>10, <3>1, SiblingsPart
  <2>2. CASE i <= n /\ j > n
    <3>1. left[i] = Append(head, i) /\ i \in Nat \ {0}
      BY <1>1, <1>5, <2>2
    <3>2. j - n + 1 \in 2 .. m /\ left[j] = waiting[j - n + 1]
      BY <1>6, <2>2
    <3>3. Parts(head, waiting[j - n + 1])
      BY <1>1, <3>2 DEF Awaits, m
    <3>4. waiting[j - n + 1] \in Steps
      BY <1>1, <1>8, <3>2
    <3>5. QED
      BY <1>1, <3>1, <3>2, <3>3, <3>4, PartsChild
  <2>3. CASE i > n
    <3>1. j > n
      BY <1>1, <1>5, <1>10, <2>3
    <3>2. /\ i - n + 1 \in 2 .. m /\ left[i] = waiting[i - n + 1]
          /\ j - n + 1 \in 2 .. m /\ left[j] = waiting[j - n + 1]
      BY <1>6, <2>3, <3>1
    <3>3. i - n + 1 < j - n + 1
      BY <1>1, <1>5, <1>10
    <3>4. QED
      BY <1>1, <3>2, <3>3 DEF Awaits, m
  <2>4. QED
    BY <1>1, <1>5, <2>1, <2>2, <2>3
<1>11. ASSUME NEW i \in 1 .. Len(all), NEW k \in 1 .. all[i].added
       PROVE  \/ \E j \in 1 .. Len(all) : all[j].step = Append(all[i].step, k)
              \/ \E j \in 1 .. Len(left) : left[j] = Append(all[i].step, k)
  <2>1. CASE i = l + 1
    <3>1. k \in 1 .. n /\ k \in 1 .. Len(left)
      BY <1>1, <1>3, <1>5, <1>11, <2>1
    <3>2. left[k] = Append(all[i].step, k)
      BY <1>3, <1>5, <2>1, <3>1
    <3>3. QED
      BY <3>1, <3>2
  <2>2. CASE i \in 1 .. l
    <3> DEFINE next == Append(runs[i].step, k)
    <3>1. all[i] = runs[i] /\ k \in 1 .. runs[i].added
      BY <1>3, <2>2
    <3>2. \/ \E j \in 1 .. l : runs[j].step = next
          \/ \E j \in 1 .. m : waiting[j] = next
      BY <2>2, <3>1 DEF Awaits, l, m
    <3> HIDE DEF next
    <3>3. CASE \E j \in 1 .. l : runs[j].step = next
      <4>1. PICK j \in 1 .. l : runs[j].step = next
        BY <3>3
      <4>2. j \in 1 .. Len(all) /\ all[j].step = next
        BY <1>1, <1>3, <4>1
      <4>3. QED
        BY <3>1, <4>2 DEF next
    <3>4. CASE \E j \in 1 .. m : waiting[j] = next
      <4>1. PICK j \in 1 .. m : waiting[j] = next
        BY <3>4
      <4>2. CASE j = 1
        <5>1. l + 1 \in 1 .. Len(all) /\ all[l + 1].step = next
          BY <1>1, <1>3, <4>1, <4>2
        <5>2. all[l + 1].step = Append(all[i].step, k)
          BY <3>1, <5>1 DEF next
        <5>3. QED
          BY <5>1, <5>2
      <4>3. CASE j # 1
        <5>1. j - 1 \in 1 .. m - 1 /\ (j - 1) + 1 = j
          BY <1>1, <4>3
        <5>2. left[n + (j - 1)] = next
          BY <1>5, <4>1, <5>1
        <5>3. n + (j - 1) \in 1 .. Len(left)
          BY <1>1, <1>5, <5>1
        <5>4. QED
          BY <3>1, <5>2, <5>3 DEF next
      <4>4. QED
        BY <4>2, <4>3
    <3>5. QED
      BY <3>2, <3>3, <3>4
  <2>3. i = l + 1 \/ i \in 1 .. l
    BY <1>1, <1>3
  <2>4. QED
    BY <2>1, <2>2, <2>3
<1>12. Awaits(all, left)
  BY <1>9, <1>10, <1>11 DEF Awaits
<1>13. QED
  BY <1>12 DEF all, left, added, head

(* A dispatch's part of the invariant: only what is routed is rebuilt and  *)
(* run, an unknown type is answered before anything runs, and the steps    *)
(* run and waiting are in order.                                           *)
RoutingOK(d) ==
  /\ pc[d] \in {"rebuild", "call", "fold", "encode", "unwound"} => Routed(req[d])
  /\ pc[d] \in {"idle", "route", "rebuild"} => ran[d] = <<>> /\ pending[d] = <<>>
  /\ pc[d] \in {"fold", "encode"} => ran[d] # <<>>
  /\ pc[d] = "answered" =>
       (~ Routed(req[d]) <=>
          /\ answer[d].error = UnknownType(RouteReason(req[d]))
          /\ ran[d] = <<>>)

OrderOK(d) ==
  /\ InOrder(ran[d])
  /\ pc[d] # "answered" => Awaits(ran[d], pending[d])

StepsInv ==
  \A d \in Dispatches : RoutingOK(d) /\ OrderOK(d)

Unmoved(d) ==
  /\ pc'[d] = pc[d] /\ req'[d] = req[d] /\ pending'[d] = pending[d]
  /\ ran'[d] = ran[d] /\ answer'[d] = answer[d]

LEMMA UnmovedKeeps ==
  ASSUME NEW d \in Dispatches, RoutingOK(d), OrderOK(d), Unmoved(d)
  PROVE  RoutingOK(d)' /\ OrderOK(d)'
<1>1. Routed(req'[d]) = Routed(req[d])
  BY DEF Unmoved
<1>2. QED
  BY <1>1 DEF RoutingOK, OrderOK, Unmoved

(* Before the first call nothing was run.                                  *)
LEMMA NothingRan ==
  /\ InOrder(<<>>)
  /\ Awaits(<<>>, <<>>)
  /\ Awaits(<<>>, << <<>> >>)
<1>1. /\ InOrder(<<>>) /\ Awaits(<<>>, <<>>)
  BY DEF InOrder, Awaits
<1>2. Len(<< <<>> >>) = 1
  OBVIOUS
<1>3. QED
  BY <1>1, <1>2 DEF Awaits

LEMMA AnswerErrorOf ==
  ASSUME TypeOK, NEW d \in Dispatches, NEW e, AnswerError(d, e)
  PROVE  /\ pc'[d] = "answered" /\ answer'[d].error = e
         /\ \A c \in Dispatches \ {d} : pc'[c] = pc[c] /\ answer'[c] = answer[c]
<1> DEFINE wrong == [error |-> e, events |-> <<>>, state |-> None]
<1>1. pc' = [pc EXCEPT ![d] = "answered"] /\ answer' = [answer EXCEPT ![d] = wrong]
  BY DEF AnswerError, Goto
<1>2. wrong.error = e
  OBVIOUS
<1> HIDE DEF wrong
<1>3. QED
  BY <1>1, <1>2 DEF TypeOK

(* An error of the rebuild names no unknown type.                          *)
LEMMA FoldErrorsAreNotOfRouting ==
  ASSUME NEW r
  PROVE  UnknownType(RouteReason(r)) \notin FoldErrors \cup {None}
<1>1. UnknownType(RouteReason(r)).code \in {"NO_FACT_HANDLER", "UNKNOWN_COMMAND_TYPE"}
  BY DEF UnknownType, Keyed, Coded, RouteReason
<1>2. UnknownType(RouteReason(r)) # None
  BY UnknownTypeIsDefect, DefectsAreErrors
<1>3. QED
  BY <1>1, <1>2 DEF FoldErrors

LEMMA InitStepsInv == Init => StepsInv
<1> SUFFICES ASSUME Init, NEW d \in Dispatches
             PROVE  RoutingOK(d) /\ OrderOK(d)
  BY DEF StepsInv
<1>1. pc[d] = "idle" /\ ran[d] = <<>> /\ pending[d] = <<>>
  BY DEF Init
<1>2. QED
  BY <1>1, NothingRan DEF RoutingOK, OrderOK

LEMMA NextStepsInv == TypeOK /\ StepsInv /\ [Next]_vars => StepsInv'
<1> SUFFICES ASSUME TypeOK, StepsInv, [Next]_vars
             PROVE  \A c \in Dispatches : RoutingOK(c)' /\ OrderOK(c)'
  BY DEF StepsInv
<1>1. \A c \in Dispatches : RoutingOK(c) /\ OrderOK(c)
  BY DEF StepsInv
<1>2. ASSUME NEW d \in Dispatches,
             \A c \in Dispatches \ {d} : Unmoved(c),
             RoutingOK(d)' /\ OrderOK(d)'
      PROVE  \A c \in Dispatches : RoutingOK(c)' /\ OrderOK(c)'
  BY <1>1, <1>2, UnmovedKeeps
<1>3. ASSUME NEW d \in Dispatches, NEW r \in Requests, Deliver(d, r)
      PROVE  \A c \in Dispatches : RoutingOK(c)' /\ OrderOK(c)'
  <2>1. \A c \in Dispatches \ {d} : Unmoved(c)
    BY <1>3 DEF Deliver, Goto, Unmoved, TypeOK
  <2>2. pc'[d] = "route" /\ ran'[d] = <<>> /\ pending'[d] = <<>>
    BY <1>1, <1>3 DEF Deliver, Goto, TypeOK, RoutingOK
  <2>3. RoutingOK(d)' /\ OrderOK(d)'
    BY <2>2, NothingRan DEF RoutingOK, OrderOK
  <2>4. QED
    BY <1>2, <2>1, <2>3
<1>4. ASSUME NEW d \in Dispatches, Route(d)
      PROVE  \A c \in Dispatches : RoutingOK(c)' /\ OrderOK(c)'
  <2>1. ran[d] = <<>> /\ pending[d] = <<>> /\ UNCHANGED <<req, pending, ran>>
    BY <1>1, <1>4 DEF Route, RoutingOK
  <2>2. Routed(req'[d]) = Routed(req[d]) /\ RouteReason(req'[d]) = RouteReason(req[d])
    BY <2>1
  <2>3. CASE Routed(req[d])
    <3>1. \A c \in Dispatches \ {d} : Unmoved(c)
      BY <1>4, <2>3 DEF Route, Goto, Unmoved, TypeOK
    <3>2. pc'[d] = "rebuild"
      BY <1>4, <2>3 DEF Route, Goto, TypeOK
    <3>3. RoutingOK(d)' /\ OrderOK(d)'
      BY <2>1, <2>2, <2>3, <3>2, NothingRan DEF RoutingOK, OrderOK
    <3>4. QED
      BY <1>2, <3>1, <3>3
  <2>4. CASE ~ Routed(req[d])
    <3>1. AnswerError(d, UnknownType(RouteReason(req[d])))
      BY <1>4, <2>4 DEF Route
    <3>2. /\ pc'[d] = "answered"
          /\ answer'[d].error = UnknownType(RouteReason(req[d]))
          /\ \A c \in Dispatches \ {d} : pc'[c] = pc[c] /\ answer'[c] = answer[c]
      BY <3>1, AnswerErrorOf
    <3>3. \A c \in Dispatches \ {d} : Unmoved(c)
      BY <2>1, <3>2 DEF Unmoved
    <3>4. RoutingOK(d)' /\ OrderOK(d)'
      BY <2>1, <2>2, <2>4, <3>2, NothingRan DEF RoutingOK, OrderOK
    <3>5. QED
      BY <1>2, <3>3, <3>4
  <2>5. QED
    BY <2>3, <2>4
<1>5. ASSUME NEW d \in Dispatches, RebuildState(d)
      PROVE  \A c \in Dispatches : RoutingOK(c)' /\ OrderOK(c)'
  <2> DEFINE rebuilt == Rebuilt(req[d].history)
  <2>1. /\ WellFormed(req[d]) /\ Routed(req[d]) /\ ran[d] = <<>>
        /\ UNCHANGED <<req, ran>>
    BY <1>1, <1>5 DEF RebuildState, TypeOK, RoutingOK
  <2>2. rebuilt.error \in FoldErrors \cup {None}
    BY <2>1, RebuiltIsRun DEF IsRun
  <2>3. rebuilt.error # UnknownType(RouteReason(req[d]))
    BY <2>2, FoldErrorsAreNotOfRouting
  <2>4. Routed(req'[d]) /\ RouteReason(req'[d]) = RouteReason(req[d])
    BY <2>1
  <2> HIDE DEF rebuilt
  <2>5. CASE rebuilt.error # None
    <3>1. AnswerError(d, rebuilt.error) /\ UNCHANGED pending
      BY <1>5, <2>5 DEF RebuildState, rebuilt
    <3>2. /\ pc'[d] = "answered" /\ answer'[d].error = rebuilt.error
          /\ \A c \in Dispatches \ {d} : pc'[c] = pc[c] /\ answer'[c] = answer[c]
      BY <3>1, AnswerErrorOf
    <3>3. \A c \in Dispatches \ {d} : Unmoved(c)
      BY <2>1, <3>1, <3>2 DEF Unmoved
    <3>4. RoutingOK(d)' /\ OrderOK(d)'
      BY <2>1, <2>3, <2>4, <3>2, NothingRan DEF RoutingOK, OrderOK
    <3>5. QED
      BY <1>2, <3>3, <3>4
  <2>6. CASE rebuilt.error = None
    <3>1. /\ pending' = [pending EXCEPT ![d] = << <<>> >>]
          /\ pc' = [pc EXCEPT ![d] = "call"]
          /\ UNCHANGED answer
      BY <1>5, <2>6 DEF RebuildState, Goto, rebuilt
    <3>2. \A c \in Dispatches \ {d} : Unmoved(c)
      BY <2>1, <3>1 DEF Unmoved, TypeOK
    <3>3. pc'[d] = "call" /\ pending'[d] = << <<>> >>
      BY <3>1 DEF TypeOK
    <3>4. RoutingOK(d)' /\ OrderOK(d)'
      BY <2>1, <2>4, <3>3, NothingRan DEF RoutingOK, OrderOK
    <3>5. QED
      BY <1>2, <3>2, <3>4
  <2>7. QED
    BY <2>5, <2>6
<1>6. ASSUME NEW d \in Dispatches, pc[d] = "call"
      PROVE  /\ ran[d] \in Seq(StepRuns)
             /\ pending[d] \in Seq(Steps) /\ pending[d] # <<>>
             /\ InOrder(ran[d]) /\ Awaits(ran[d], pending[d])
             /\ \A n \in 0 .. MaxSteps :
                  /\ Append(ran[d], Ran(Head(pending[d]), n)) # <<>>
                  /\ InOrder(Append(ran[d], Ran(Head(pending[d]), n)))
  <2>1. ran[d] \in Seq(StepRuns) /\ pending[d] \in Seq(Steps) /\ pending[d] # <<>>
    BY <1>6 DEF TypeOK, StepRuns
  <2>2. InOrder(ran[d]) /\ Awaits(ran[d], pending[d])
    BY <1>1, <1>6 DEF OrderOK
  <2>3. \A n \in 0 .. MaxSteps : InOrder(Append(ran[d], Ran(Head(pending[d]), n)))
    BY <2>1, <2>2, HeadRuns
  <2>4. \A n \in 0 .. MaxSteps : Append(ran[d], Ran(Head(pending[d]), n)) # <<>>
    BY <2>1
  <2>5. QED
    BY <2>1, <2>2, <2>3, <2>4
<1>7. ASSUME NEW d \in Dispatches, NEW events \in Emissions,
             NEW n \in 0 .. MaxSteps, CallEmits(d, events, n)
      PROVE  \A c \in Dispatches : RoutingOK(c)' /\ OrderOK(c)'
  <2> DEFINE runs == Append(ran[d], Ran(Head(pending[d]), n))
             left == Continue(pending[d], Continuations(Head(pending[d]), n))
  <2>1. pc[d] = "call"
    BY <1>7 DEF CallEmits
  <2>2. runs # <<>> /\ InOrder(runs)
    BY <1>6, <2>1
  <2>3. Awaits(runs, left)
    BY <1>6, <2>1, Continues
  <2>4. \A c \in Dispatches \ {d} : Unmoved(c)
    BY <1>7 DEF CallEmits, Goto, Unmoved, TypeOK
  <2>5. /\ pc'[d] = "fold" /\ ran'[d] = runs /\ pending'[d] = left
        /\ req'[d] = req[d]
    BY <1>7 DEF CallEmits, Goto, TypeOK
  <2> HIDE DEF runs, left
  <2>6. Routed(req'[d])
    BY <1>1, <2>1, <2>5 DEF RoutingOK
  <2>7. RoutingOK(d)' /\ OrderOK(d)'
    BY <2>2, <2>3, <2>5, <2>6 DEF RoutingOK, OrderOK
  <2>8. QED
    BY <1>2, <2>4, <2>7
<1>8. ASSUME NEW d \in Dispatches, NEW failure \in Failures,
             CallFails(d, failure)
      PROVE  \A c \in Dispatches : RoutingOK(c)' /\ OrderOK(c)'
  <2> DEFINE runs == Append(ran[d], Ran(Head(pending[d]), 0))
             e == DecideError(req[d], CallHandler(failure))
  <2>1. /\ pc[d] = "call" /\ AnswerError(d, e)
        /\ ran' = [ran EXCEPT ![d] = runs]
        /\ UNCHANGED <<req, pending>>
    BY <1>8 DEF CallFails, TypeOK
  <2>2. runs # <<>> /\ InOrder(runs)
    BY <1>6, <2>1, HandleAssumption
  <2> HIDE DEF runs, e
  <2>3. /\ pc'[d] = "answered"
        /\ \A c \in Dispatches \ {d} : pc'[c] = pc[c] /\ answer'[c] = answer[c]
    BY <2>1, AnswerErrorOf
  <2>4. \A c \in Dispatches \ {d} : Unmoved(c)
    BY <2>1, <2>3 DEF Unmoved, TypeOK
  <2>5. ran'[d] = runs
    BY <2>1 DEF TypeOK
  <2>6. Routed(req'[d])
    BY <1>1, <2>1 DEF RoutingOK
  <2>7. RoutingOK(d)' /\ OrderOK(d)'
    BY <2>2, <2>3, <2>5, <2>6 DEF RoutingOK, OrderOK
  <2>8. QED
    BY <1>2, <2>4, <2>7
<1>9. ASSUME NEW d \in Dispatches, FoldEmitted(d)
      PROVE  \A c \in Dispatches : RoutingOK(c)' /\ OrderOK(c)'
  <2> DEFINE folded == ApplyEmitted(state[d], emit[d], DecideCover(req[d]),
                                    NextEmitted(d), EventMeta(req[d]))
  <2>1. /\ pc[d] = "fold" /\ UNCHANGED <<req, pending, ran>>
        /\ Routed(req[d]) /\ ran[d] # <<>>
        /\ InOrder(ran[d]) /\ Awaits(ran[d], pending[d])
    BY <1>1, <1>9 DEF FoldEmitted, RoutingOK, OrderOK
  <2>2. Routed(req'[d])
    BY <2>1
  <2> HIDE DEF folded
  <2>3. CASE folded.error # None
    <3>1. AnswerError(d, DecideError(req[d], folded.error))
      BY <1>9, <2>3 DEF FoldEmitted, folded
    <3>2. /\ pc'[d] = "answered"
          /\ \A c \in Dispatches \ {d} : pc'[c] = pc[c] /\ answer'[c] = answer[c]
      BY <3>1, AnswerErrorOf
    <3>3. \A c \in Dispatches \ {d} : Unmoved(c)
      BY <2>1, <3>2 DEF Unmoved
    <3>4. RoutingOK(d)' /\ OrderOK(d)'
      BY <2>1, <2>2, <3>2 DEF RoutingOK, OrderOK
    <3>5. QED
      BY <1>2, <3>3, <3>4
  <2>4. CASE folded.error = None
    <3>1. pc' = [pc EXCEPT ![d] = AfterFold(pending[d])] /\ UNCHANGED answer
      BY <1>9, <2>4 DEF FoldEmitted, Goto, folded
    <3>2. \A c \in Dispatches \ {d} : Unmoved(c)
      BY <2>1, <3>1 DEF Unmoved, TypeOK
    <3>3. pc'[d] \in {"call", "encode"}
      BY <3>1 DEF TypeOK, AfterFold
    <3>4. RoutingOK(d)' /\ OrderOK(d)'
      BY <2>1, <2>2, <3>3 DEF RoutingOK, OrderOK
    <3>5. QED
      BY <1>2, <3>2, <3>4
  <2>5. QED
    BY <2>3, <2>4
<1>10. ASSUME NEW d \in Dispatches, Answer(d)
       PROVE  \A c \in Dispatches : RoutingOK(c)' /\ OrderOK(c)'
  <2>1. /\ pc[d] = "encode" /\ pc' = [pc EXCEPT ![d] = "answered"]
        /\ UNCHANGED <<req, pending, ran>>
        /\ Routed(req[d]) /\ ran[d] # <<>> /\ InOrder(ran[d])
    BY <1>1, <1>10 DEF Answer, Goto, RoutingOK, OrderOK
  <2>2. \A c \in Dispatches \ {d} : Unmoved(c)
    BY <1>10, <2>1 DEF Answer, Unmoved, TypeOK
  <2>3. pc'[d] = "answered" /\ Routed(req'[d]) /\ ran'[d] = ran[d]
    BY <2>1 DEF TypeOK
  <2>4. RoutingOK(d)' /\ OrderOK(d)'
    BY <2>1, <2>3 DEF RoutingOK, OrderOK
  <2>5. QED
    BY <1>2, <2>2, <2>4
<1>11. ASSUME NEW d \in Dispatches, Unwind(d)
       PROVE  \A c \in Dispatches : RoutingOK(c)' /\ OrderOK(c)'
  <2>1. /\ pc' = [pc EXCEPT ![d] = "unwound"]
        /\ UNCHANGED <<req, pending, ran, answer>>
        /\ Routed(req[d]) /\ InOrder(ran[d]) /\ Awaits(ran[d], pending[d])
    BY <1>1, <1>11 DEF Unwind, Goto, RoutingOK, OrderOK
  <2>2. \A c \in Dispatches \ {d} : Unmoved(c)
    BY <2>1 DEF Unmoved, TypeOK
  <2>3. /\ pc'[d] = "unwound" /\ Routed(req'[d])
        /\ ran'[d] = ran[d] /\ pending'[d] = pending[d]
    BY <2>1 DEF TypeOK
  <2>4. RoutingOK(d)' /\ OrderOK(d)'
    BY <2>1, <2>3 DEF RoutingOK, OrderOK
  <2>5. QED
    BY <1>2, <2>2, <2>4
<1>12. ASSUME NEW d \in Dispatches, Return(d)
       PROVE  \A c \in Dispatches : RoutingOK(c)' /\ OrderOK(c)'
  <2>1. \A c \in Dispatches \ {d} : Unmoved(c)
    BY <1>12 DEF Return, Forget, Goto, Unmoved, TypeOK
  <2>2. pc'[d] = "idle" /\ ran'[d] = <<>> /\ pending'[d] = <<>>
    BY <1>12 DEF Return, Forget, Goto, TypeOK
  <2>3. RoutingOK(d)' /\ OrderOK(d)'
    BY <2>2, NothingRan DEF RoutingOK, OrderOK
  <2>4. QED
    BY <1>2, <2>1, <2>3
<1>13. CASE UNCHANGED vars
  <2>1. \A c \in Dispatches : Unmoved(c)
    BY <1>13 DEF vars, Unmoved
  <2>2. QED
    BY <1>1, <2>1, UnmovedKeeps
<1>14. QED
  BY <1>3, <1>4, <1>5, <1>7, <1>8, <1>9, <1>10, <1>11, <1>12, <1>13
     DEF Next, Step, Call

LEMMA StepsInvariant == Spec => []StepsInv
BY InitTypeOK, NextTypeOK, InitStepsInv, NextStepsInv, PTL DEF Spec

(* A type nothing handles is told as such before anything is rebuilt, and  *)
(* by the router only then, however broken the history (domain.rs,         *)
(* dispatch).                                                              *)
THEOREM UnknownTypesAreToldFirst == Spec => []UnknownTypeIsToldFirst
<1>1. StepsInv => UnknownTypeIsToldFirst
  BY DEF StepsInv, RoutingOK, UnknownTypeIsToldFirst
<1>2. QED
  BY <1>1, StepsInvariant, PTL

(* What the invariant says apart of the steps run and the steps waiting    *)
(* holds of the one list of them.                                          *)
LEMMA RunThenWaiting ==
  ASSUME NEW runs \in Seq(StepRuns), NEW waiting \in Seq(Steps),
         InOrder(runs), Awaits(runs, waiting)
  PROVE  LET all == [i \in 1 .. Len(runs) |-> runs[i].step] \o waiting
         IN  /\ \A i, j \in 1 .. Len(all) : i < j => Precedes(all[i], all[j])
             /\ \A i \in 1 .. Len(runs) : \A k \in 1 .. runs[i].added :
                  \E j \in 1 .. Len(all) : all[j] = Append(runs[i].step, k)
<1> DEFINE l == Len(runs)
           m == Len(waiting)
           done == [i \in 1 .. l |-> runs[i].step]
           all == done \o waiting
<1>1. l \in Nat /\ m \in Nat
  OBVIOUS
<1>2. done \in Seq(Steps) /\ Len(done) = l
  <2>1. \A i \in 1 .. l : runs[i] \in StepRuns
    OBVIOUS
  <2>2. done \in [1 .. l -> Steps]
    BY <2>1 DEF StepRuns
  <2> HIDE DEF done, l
  <2>3. done \in Seq(Steps)
    BY <1>1, <2>2, FunctionIsSequence
  <2>4. QED
    BY <1>1, <2>2, <2>3
<1>3. \A i \in 1 .. l : done[i] = runs[i].step
  OBVIOUS
<1> HIDE DEF done, l, m
<1>4. /\ Len(all) = l + m
      /\ \A i \in 1 .. l + m :
           all[i] = IF i <= l THEN done[i] ELSE waiting[i - l]
  BY <1>1, <1>2, ConcatProperties DEF m
<1> HIDE DEF all
<1>5. /\ \A i \in 1 .. l : all[i] = runs[i].step
      /\ \A i \in 1 .. m : l + i \in 1 .. Len(all) /\ all[l + i] = waiting[i]
  BY <1>1, <1>3, <1>4
<1>6. ASSUME NEW i \in 1 .. Len(all), i > l
      PROVE  i - l \in 1 .. m /\ all[i] = waiting[i - l]
  BY <1>1, <1>4, <1>6
<1>7. ASSUME NEW i \in 1 .. Len(all), NEW j \in 1 .. Len(all), i < j
      PROVE  Precedes(all[i], all[j])
  <2>1. CASE j <= l
    <3>1. /\ i \in 1 .. l /\ all[i] = runs[i].step
          /\ j \in 1 .. l /\ all[j] = runs[j].step
      BY <1>1, <1>4, <1>5, <1>7, <2>1
    <3>2. QED
      BY <1>7, <3>1 DEF InOrder, l
  <2>2. CASE i <= l /\ j > l
    <3>1. i \in 1 .. l /\ all[i] = runs[i].step
      BY <1>1, <1>4, <1>5, <2>2
    <3>2. j - l \in 1 .. m /\ all[j] = waiting[j - l]
      BY <1>6, <2>2
    <3>3. Precedes(runs[i].step, waiting[j - l])
      BY <3>1, <3>2 DEF Awaits, l, m
    <3>4. QED
      BY <3>1, <3>2, <3>3
  <2>3. CASE i > l
    <3>1. j > l
      BY <1>1, <1>4, <1>7, <2>3
    <3>2. /\ i - l \in 1 .. m /\ all[i] = waiting[i - l]
          /\ j - l \in 1 .. m /\ all[j] = waiting[j - l]
      BY <1>6, <2>3, <3>1
    <3>3. i - l < j - l
      BY <1>1, <1>4, <1>7
    <3>4. Parts(waiting[i - l], waiting[j - l])
      BY <3>2, <3>3 DEF Awaits, m
    <3>5. QED
      BY <3>2, <3>4, PartsPrecede
  <2>4. QED
    BY <1>1, <1>4, <2>1, <2>2, <2>3
<1>8. ASSUME NEW i \in 1 .. l, NEW k \in 1 .. runs[i].added
      PROVE  \E j \in 1 .. Len(all) : all[j] = Append(runs[i].step, k)
  <2> DEFINE next == Append(runs[i].step, k)
  <2>1. \/ \E j \in 1 .. l : runs[j].step = next
        \/ \E j \in 1 .. m : waiting[j] = next
    BY <1>8 DEF Awaits, l, m
  <2> HIDE DEF next
  <2>2. CASE \E j \in 1 .. l : runs[j].step = next
    <3>1. PICK j \in 1 .. l : runs[j].step = next
      BY <2>2
    <3>2. j \in 1 .. Len(all) /\ all[j] = next
      BY <1>1, <1>4, <1>5, <3>1
    <3>3. QED
      BY <3>2 DEF next
  <2>3. CASE \E j \in 1 .. m : waiting[j] = next
    <3>1. PICK j \in 1 .. m : waiting[j] = next
      BY <2>3
    <3>2. l + j \in 1 .. Len(all) /\ all[l + j] = next
      BY <1>5, <3>1
    <3>3. QED
      BY <3>2 DEF next
  <2>4. QED
    BY <2>1, <2>2, <2>3
<1>9. QED
  BY <1>7, <1>8 DEF all, done, l

(* Depth first, each once and none lost, however many steps a decision     *)
(* runs and however many continuations each adds (domain.rs, Emit).        *)
THEOREM StepsRunInOrder == Spec => []ContinuationsInOrder
<1>1. TypeOK /\ StepsInv => ContinuationsInOrder
  <2> SUFFICES ASSUME TypeOK, StepsInv, NEW d \in Dispatches
               PROVE
      LET all == [i \in 1 .. Len(ran[d]) |-> ran[d][i].step] \o
                   (IF pc[d] = "answered" THEN <<>> ELSE pending[d])
      IN  /\ \A i, j \in 1 .. Len(all) : i < j => Precedes(all[i], all[j])
          /\ pc[d] # "answered" =>
               \A i \in 1 .. Len(ran[d]) : \A k \in 1 .. ran[d][i].added :
                 \E j \in 1 .. Len(all) : all[j] = Append(ran[d][i].step, k)
    BY DEF ContinuationsInOrder
  <2>1. /\ ran[d] \in Seq(StepRuns) /\ pending[d] \in Seq(Steps)
        /\ InOrder(ran[d])
        /\ pc[d] # "answered" => Awaits(ran[d], pending[d])
    BY DEF TypeOK, StepRuns, StepsInv, OrderOK
  <2>2. CASE pc[d] # "answered"
    BY <2>1, <2>2, RunThenWaiting
  <2>3. CASE pc[d] = "answered"
    <3> DEFINE done == [i \in 1 .. Len(ran[d]) |-> ran[d][i].step]
    <3>1. Len(ran[d]) \in Nat /\ \A i \in 1 .. Len(ran[d]) : ran[d][i].step \in Steps
      <4>1. \A i \in 1 .. Len(ran[d]) : ran[d][i] \in StepRuns
        BY <2>1
      <4>2. QED
        BY <2>1, <4>1 DEF StepRuns
    <3>2. done \in Seq(Steps) /\ Len(done) = Len(ran[d])
      <4>1. done \in [1 .. Len(ran[d]) -> Steps]
        BY <3>1
      <4>2. DOMAIN done = 1 .. Len(ran[d])
        OBVIOUS
      <4> HIDE DEF done
      <4>3. done \in Seq(Steps)
        BY <3>1, <4>1, FunctionIsSequence
      <4>4. QED
        BY <3>1, <4>2, <4>3
    <3>3. done \o <<>> = done
      <4> HIDE DEF done
      <4>1. QED
        BY <3>2, ConcatEmptySeq
    <3>4. \A i, j \in 1 .. Len(done) : i < j => Precedes(done[i], done[j])
      BY <2>1, <3>2 DEF InOrder
    <3>5. QED
      BY <2>3, <3>3, <3>4
  <2>4. QED
    BY <2>2, <2>3
<1>2. QED
  BY <1>1, TypeCorrect, StepsInvariant, PTL

-----------------------------------------------------------------------------
(* Streams.                                                                *)

(* The absent snapshot is no record.  (The absent book may be: a book that *)
(* is one would be read as an empty one, at sequence 0.)                   *)
NoneIsNoSnapshot == \A any : [state |-> any] # None

-----------------------------------------------------------------------------
(* Prefixes of a log.                                                      *)

Prefix(pages, n) == SubSeq(pages, 1, n)

IsLog(pages) == pages \in Seq(Elements(pages))

LEMMA SequencesAreLogs ==
  ASSUME NEW S, NEW pages \in Seq(S)
  PROVE  IsLog(pages)
<1>1. pages \in [1 .. Len(pages) -> S] /\ Len(pages) \in Nat
  BY LenProperties
<1>2. pages \in [1 .. Len(pages) -> Elements(pages)]
  BY <1>1 DEF Elements
<1>3. QED
  BY <1>1, <1>2, FunctionIsSequence DEF IsLog

LEMMA LogsGrow ==
  ASSUME NEW a, IsLog(a), NEW b, IsLog(b)
  PROVE  /\ IsLog(a \o b)
         /\ Len(a \o b) = Len(a) + Len(b) /\ Len(a) \in Nat /\ Len(b) \in Nat
         /\ \A n \in 0 .. Len(a) : Prefix(a \o b, n) = Prefix(a, n)
         /\ \A k \in 1 .. Len(a) : (a \o b)[k] = a[k]
<1>1. PICK S : a \in Seq(S) /\ b \in Seq(S)
  <2>1. /\ a \in Seq(Elements(a) \cup Elements(b))
        /\ b \in Seq(Elements(a) \cup Elements(b))
    BY SeqMonotonic DEF IsLog
  <2>2. QED
    BY <2>1
<1>2. /\ a \o b \in Seq(S)
      /\ Len(a \o b) = Len(a) + Len(b) /\ Len(a) \in Nat /\ Len(b) \in Nat
      /\ \A k \in 1 .. Len(a) : (a \o b)[k] = a[k]
  BY <1>1, ConcatProperties, LenProperties
<1>3. ASSUME NEW n \in 0 .. Len(a)
      PROVE  Prefix(a \o b, n) = Prefix(a, n)
  <2>1. CASE n = 0
    <3>1. SubSeq(a \o b, 1, 0) = <<>> /\ SubSeq(a, 1, 0) = <<>>
      BY SubSeqEmpty
    <3>2. QED
      BY <2>1, <3>1 DEF Prefix
  <2>2. CASE n # 0
    <3>1. 1 \in 1 .. Len(a) /\ n \in 1 .. Len(a)
      BY <1>2, <2>2
    <3>2. QED
      BY <1>1, <3>1, SubSeqOfConcat1 DEF Prefix
  <2>3. QED
    BY <2>1, <2>2
<1>4. IsLog(a \o b)
  <2> DEFINE ab == a \o b
  <2>1. ab \in Seq(S)
    BY <1>2
  <2> HIDE DEF ab
  <2>2. IsLog(ab)
    BY <2>1, SequencesAreLogs
  <2>3. QED
    BY <2>2 DEF ab
<1>5. QED
  BY <1>2, <1>3, <1>4

LEMMA LogsAreCut ==
  ASSUME NEW a, IsLog(a), NEW n \in 0 .. Len(a)
  PROVE  /\ Prefix(a, Len(a)) = a /\ Prefix(a, 0) = <<>>
         /\ IsLog(Prefix(a, n)) /\ IsLog(SubSeq(a, n + 1, Len(a)))
         /\ Prefix(a, n) \o SubSeq(a, n + 1, Len(a)) = a
<1> DEFINE S == Elements(a)
           p == Prefix(a, n)
           q == SubSeq(a, n + 1, Len(a))
<1>1. a \in Seq(S) /\ Len(a) \in Nat /\ \A i \in 1 .. Len(a) : a[i] \in S
  BY DEF IsLog, Elements
<1> HIDE DEF S
<1>2. Prefix(a, Len(a)) = a /\ Prefix(a, 0) = <<>>
  BY <1>1, SubSeqFull, SubSeqEmpty DEF Prefix
<1>3. p \in Seq(S) /\ q \in Seq(S)
  BY <1>1, SubSeqProperties DEF Prefix
<1>4. p \o q = a
  <2>1. /\ 1 \in 1 .. Len(a) + 1 /\ n \in 1 - 1 .. Len(a)
        /\ Len(a) \in n .. Len(a)
    BY <1>1
  <2>2. SubSeq(a, 1, n) \o SubSeq(a, n + 1, Len(a)) = SubSeq(a, 1, Len(a))
    BY <1>1, <2>1, ConcatAdjacentSubSeq
  <2>3. QED
    BY <1>2, <2>2 DEF Prefix
<1> HIDE DEF p, q
<1>5. IsLog(p) /\ IsLog(q)
  BY <1>3, SequencesAreLogs
<1>6. QED
  BY <1>2, <1>4, <1>5 DEF p, q

-----------------------------------------------------------------------------
(* What is loaded.                                                         *)

ReplayOf(pages) == ApplyPages(Ok(Fresh), pages, Cover, "persisted")

LEMMA BookReplay ==
  ASSUME NEW pages
  PROVE  FoldBook(Book(None, pages)) = ReplayOf(pages)
BY DEF FoldBook, Book, StartOf, ReplayOf

LEMMA ReplayGrows ==
  ASSUME NEW a, IsLog(a), NEW b, IsLog(b)
  PROVE  ReplayOf(a \o b) = ApplyPages(ReplayOf(a), b, Cover, "persisted")
<1>1. /\ a \in Seq(Elements(a) \cup Elements(b))
      /\ b \in Seq(Elements(a) \cup Elements(b))
  BY SeqMonotonic DEF IsLog
<1>2. ApplyPages(Ok(Fresh), a \o b, Cover, "persisted") =
      ApplyPages(ApplyPages(Ok(Fresh), a, Cover, "persisted"), b, Cover, "persisted")
  BY <1>1, ApplyPagesConcat
<1>3. QED
  BY <1>2 DEF ReplayOf

(* A snapshot stands for the pages it covers, of which there are some.     *)
SnapshotOK(s) ==
  /\ HasCodec
  /\ s.upto \in 1 .. Len(log)
  /\ s.state # None
  /\ s.state.kind = "encoded"
  /\ Decode(s.state) = ReplayOf(Prefix(log, s.upto))

SnapshotsOK == \A s \in writing \cup ({snapshot} \ {None}) : SnapshotOK(s)

(* A history stands for the pages up to the sequence it states.            *)
HistoryOK(history) ==
  /\ NextSequence(history) \in 0 .. Len(log)
  /\ Rebuilt(history) = ReplayOf(Prefix(log, NextSequence(history)))
  /\ HadPriorEvents(history) <=> NextSequence(history) > 0

LEMMA LoadsStand ==
  ASSUME NoneIsNoSnapshot, IsLog(log), SnapshotsOK, NEW history \in Loads
  PROVE  /\ HistoryOK(history)
         /\ history # None => WellFormedHistory(history, Cover)
<1>1. /\ Prefix(log, Len(log)) = log /\ Prefix(log, 0) = <<>>
      /\ Len(log) \in Nat /\ (log # <<>> => Len(log) > 0)
      /\ 0 \in 0 .. Len(log) /\ Len(log) \in 0 .. Len(log)
  <2>1. Len(log) \in Nat /\ (log # <<>> => Len(log) > 0)
    BY LenProperties, EmptySeq DEF IsLog
  <2>2. 0 \in 0 .. Len(log)
    BY <2>1
  <2>3. QED
    BY <2>1, <2>2, LogsAreCut
<1>2. CASE history = None
  <2>1. /\ NextSequence(history) = 0 /\ ~ HadPriorEvents(history)
        /\ Rebuilt(history) = Ok(Fresh)
    BY <1>2 DEF NextSequence, HadPriorEvents, Rebuilt
  <2>2. ReplayOf(<<>>) = Ok(Fresh)
    BY ApplyPagesNone DEF ReplayOf
  <2>3. QED
    BY <1>1, <1>2, <2>1, <2>2 DEF HistoryOK
<1>3. CASE history # None /\ history = Book(None, log)
  <2>1. /\ history.cover = Cover /\ history.pages = log
        /\ history.next = Len(log) /\ history.snapshot = None
    BY <1>3 DEF Book
  <2>2. /\ NextSequence(history) = Len(log)
        /\ Rebuilt(history) = ReplayOf(log)
        /\ HadPriorEvents(history) <=> log # <<>>
    BY <1>3, <2>1, BookReplay DEF NextSequence, HadPriorEvents, Rebuilt
  <2>3. log # <<>> <=> Len(log) > 0
    BY <1>1, EmptySeq
  <2>4. HistoryOK(history)
    BY <1>1, <2>2, <2>3 DEF HistoryOK
  <2>5. QED
    BY <1>1, <2>1, <2>4 DEF WellFormedHistory, IsLog
<1>4. CASE history # None /\ snapshot # None
             /\ history = Book([state |-> snapshot.state],
                               SubSeq(log, snapshot.upto + 1, Len(log)))
  <2> DEFINE start == [state |-> snapshot.state]
             from == snapshot.upto
             rest == SubSeq(log, from + 1, Len(log))
  <2>1. /\ HasCodec /\ from \in 1 .. Len(log)
        /\ start # None /\ start.state # None /\ start.state.kind = "encoded"
        /\ Decode(start.state) = ReplayOf(Prefix(log, from))
    BY <1>4 DEF SnapshotsOK, SnapshotOK, NoneIsNoSnapshot
  <2>2. /\ history.cover = Cover /\ history.pages = rest
        /\ history.next = Len(log) /\ history.snapshot = start
    BY <1>4 DEF Book
  <2>3. from \in 0 .. Len(log)
    BY <1>1, <2>1
  <2> HIDE DEF start, from
  <2>4. /\ IsLog(Prefix(log, from)) /\ IsLog(rest)
        /\ Prefix(log, from) \o rest = log
    BY <2>3, LogsAreCut
  <2> HIDE DEF rest
  <2>5. ReplayOf(log) = ApplyPages(ReplayOf(Prefix(log, from)), rest, Cover, "persisted")
    <3> DEFINE p == Prefix(log, from)
    <3> HIDE DEF p
    <3>1. ReplayOf(p \o rest) = ApplyPages(ReplayOf(p), rest, Cover, "persisted")
      BY <2>4, ReplayGrows DEF p
    <3>2. QED
      BY <2>4, <3>1 DEF p
  <2>6. Rebuilt(history) = ReplayOf(log)
    <3>1. StartOf(history) = ReplayOf(Prefix(log, from))
      BY <2>1, <2>2 DEF StartOf
    <3>2. QED
      BY <1>4, <2>2, <2>5, <3>1 DEF Rebuilt, FoldBook
  <2>7. NextSequence(history) = Len(log) /\ HadPriorEvents(history) /\ Len(log) > 0
    BY <1>1, <1>4, <2>1, <2>2 DEF NextSequence, HadPriorEvents
  <2>8. HistoryOK(history)
    BY <1>1, <2>6, <2>7 DEF HistoryOK
  <2>9. WellFormedHistory(history, Cover)
    BY <1>1, <2>1, <2>2, <2>4 DEF WellFormedHistory, IsLog, EncodingKinds
  <2>10. QED
    BY <2>8, <2>9
<1>5. QED
  BY <1>2, <1>3, <1>4 DEF Loads

-----------------------------------------------------------------------------
(* The inductive invariant.                                                *)

(* A dispatch's part of it: its request is of one of the inputs, which is  *)
(* not on the part of the log it was loaded from.                          *)
RequestOK(d) ==
  pc[d] # "idle" =>
    /\ req[d].cover = Cover
    /\ \E input \in Inputs : req[d].arm = input.arm /\ req[d].id = input.id
    /\ HistoryOK(req[d].history)
    /\ \A k \in 1 .. NextSequence(req[d].history) : log[k].meta.id # req[d].id

StreamInv ==
  /\ NoneIsNoSnapshot
  /\ HandleInv
  /\ IsLog(log)
  /\ SnapshotsOK
  /\ \A d \in Dispatches : RequestOK(d)

(* The log only grows.                                                     *)
LogGrows ==
  /\ IsLog(log')
  /\ Len(log) <= Len(log')
  /\ \A n \in 0 .. Len(log) : Prefix(log', n) = Prefix(log, n)
  /\ \A k \in 1 .. Len(log) : log'[k] = log[k]

LEMMA LogStays ==
  ASSUME IsLog(log), UNCHANGED log
  PROVE  LogGrows
BY LenProperties DEF LogGrows, IsLog

LEMMA SnapshotKept ==
  ASSUME IsLog(log), LogGrows, NEW s, SnapshotOK(s)
  PROVE  SnapshotOK(s)'
<1>1. s.upto \in 1 .. Len(log') /\ s.upto \in 0 .. Len(log)
  BY LenProperties DEF SnapshotOK, LogGrows, IsLog
<1>2. Prefix(log', s.upto) = Prefix(log, s.upto)
  BY <1>1 DEF LogGrows
<1>3. QED
  BY <1>1, <1>2 DEF SnapshotOK, ReplayOf

LEMMA RequestKept ==
  ASSUME IsLog(log), LogGrows, NEW d \in Dispatches, RequestOK(d),
         pc'[d] # "idle" => pc[d] # "idle" /\ req'[d] = req[d]
  PROVE  RequestOK(d)'
<1> SUFFICES ASSUME pc'[d] # "idle" PROVE RequestOK(d)'
  BY DEF RequestOK
<1> DEFINE n == NextSequence(req[d].history)
<1>1. /\ req'[d] = req[d] /\ req[d].cover = Cover
      /\ \E input \in Inputs : req[d].arm = input.arm /\ req[d].id = input.id
      /\ HistoryOK(req[d].history)
      /\ \A k \in 1 .. n : log[k].meta.id # req[d].id
  BY DEF RequestOK
<1>2. n \in 0 .. Len(log) /\ n \in 0 .. Len(log')
  BY <1>1, LenProperties DEF HistoryOK, LogGrows, IsLog
<1>3. Prefix(log', n) = Prefix(log, n) /\ \A k \in 1 .. n : log'[k] = log[k]
  BY <1>2, LenProperties DEF LogGrows, IsLog
<1>4. HistoryOK(req[d].history)'
  BY <1>1, <1>2, <1>3 DEF HistoryOK, ReplayOf
<1>5. \A k \in 1 .. NextSequence(req'[d].history) : log'[k].meta.id # req'[d].id
  BY <1>1, <1>3
<1>6. QED
  BY <1>1, <1>4, <1>5 DEF RequestOK, HistoryOK

LEMMA StreamInitInv ==
  ASSUME NoneIsNoSnapshot, StreamInit
  PROVE  StreamInv
<1>1. HandleInv
  BY InitHandleInv DEF StreamInit
<1>2. IsLog(log) /\ SnapshotsOK
  <2>1. log \in Seq({}) /\ writing = {} /\ snapshot = None
    BY DEF StreamInit
  <2>2. QED
    BY <2>1, SequencesAreLogs DEF SnapshotsOK
<1>3. \A d \in Dispatches : RequestOK(d)
  BY DEF StreamInit, Init, RequestOK
<1>4. QED
  BY <1>1, <1>2, <1>3 DEF StreamInv

-----------------------------------------------------------------------------
(* Steps of the router, and what they leave to the store.                  *)

(* What keeps the store and begins no dispatch keeps the invariant.        *)
LEMMA StoreKept ==
  ASSUME StreamInv, HandleInv', UNCHANGED <<log, snapshot, writing>>,
         \A d \in Dispatches :
           pc'[d] # "idle" => pc[d] # "idle" /\ req'[d] = req[d]
  PROVE  StreamInv'
<1>1. IsLog(log) /\ LogGrows /\ IsLog(log)'
  BY LogStays DEF StreamInv
<1>2. SnapshotsOK'
  <2>1. ASSUME NEW s \in writing' \cup ({snapshot'} \ {None})
        PROVE  SnapshotOK(s)'
    <3>1. SnapshotOK(s)
      BY DEF StreamInv, SnapshotsOK
    <3>2. QED
      BY <1>1, <3>1, SnapshotKept
  <2>2. QED
    BY <2>1 DEF SnapshotsOK
<1>3. \A d \in Dispatches : RequestOK(d)'
  BY <1>1, RequestKept DEF StreamInv
<1>4. QED
  BY <1>1, <1>2, <1>3 DEF StreamInv

(* A step of one dispatch that has a request leaves every request alone.   *)
LEMMA StepsKeepRequests ==
  ASSUME TypeOK, NEW d \in Dispatches, Step(d) \/ Unwind(d)
  PROVE  \A c \in Dispatches :
           pc'[c] # "idle" => pc[c] # "idle" /\ req'[c] = req[c]
<1>1. /\ pc[d] # "idle"
      /\ UNCHANGED req
      /\ \E place : pc' = [pc EXCEPT ![d] = place]
  BY DEF Step, Route, RebuildState, Call, CallEmits, CallFails, FoldEmitted,
         Answer, Unwind, Goto, AnswerError
<1>2. QED
  BY <1>1 DEF TypeOK

LEMMA RunKeeps ==
  ASSUME StreamInv, NEW d \in Dispatches, Run(d) \/ Panic(d)
  PROVE  StreamInv'
<1>1. /\ Step(d) \/ Unwind(d)
      /\ UNCHANGED store
  BY DEF Run, Panic
<1>2. HandleInv'
  BY <1>1, NextHandleInv DEF Next, StreamInv
<1>3. \A c \in Dispatches :
        pc'[c] # "idle" => pc[c] # "idle" /\ req'[c] = req[c]
  BY <1>1, StepsKeepRequests DEF StreamInv, HandleInv
<1>4. QED
  BY <1>1, <1>2, <1>3, StoreKept DEF store

(* What is over is forgotten.                                              *)
LEMMA ForgetKeeps ==
  ASSUME HandleInv, NEW d \in Dispatches, Ended(d), Forget(d)
  PROVE  /\ HandleInv'
         /\ \A c \in Dispatches :
              pc'[c] # "idle" => pc[c] # "idle" /\ req'[c] = req[c]
<1>1. Return(d)
  BY DEF Ended, Return
<1>2. HandleInv'
  BY <1>1, NextHandleInv DEF Next
<1>3. /\ pc' = [pc EXCEPT ![d] = "idle"]
      /\ req' = [req EXCEPT ![d] = None]
  BY DEF Forget, Goto
<1>4. \A c \in Dispatches : pc'[c] # "idle" => pc'[c] = pc[c] /\ req'[c] = req[c]
  BY <1>3 DEF HandleInv, TypeOK
<1>5. QED
  BY <1>2, <1>4

LEMMA CrashKeeps ==
  ASSUME StreamInv, Crash
  PROVE  StreamInv'
<1>1. TypeOK'
  BY DEF Crash, TypeOK, Places
<1>2. \A d \in Dispatches : pc'[d] = "idle" /\ answered'[d] = <<>>
  BY DEF Crash
<1>3. \A d \in Dispatches : DecisionOK(d)' /\ RequestOK(d)'
  BY <1>2 DEF DecisionOK, RequestOK
<1>4. SnapshotsOK' /\ IsLog(log)'
  <2>1. LogGrows /\ IsLog(log)
    BY LogStays DEF StreamInv, Crash
  <2>2. ASSUME NEW s \in writing' \cup ({snapshot'} \ {None})
        PROVE  SnapshotOK(s)'
    <3>1. SnapshotOK(s)
      BY DEF StreamInv, SnapshotsOK, Crash
    <3>2. QED
      BY <2>1, <3>1, SnapshotKept
  <2>3. QED
    BY <2>1, <2>2 DEF SnapshotsOK, LogGrows
<1>5. QED
  BY <1>1, <1>3, <1>4 DEF StreamInv, HandleInv

LEMMA LoadKeeps ==
  ASSUME StreamInv, NEW d \in Dispatches, NEW input \in Inputs, Load(d, input)
  PROVE  StreamInv'
<1>1. PICK history \in Loads :
        Deliver(d, [arm |-> input.arm, type |-> input.type, id |-> input.id,
                    cover |-> Cover, history |-> history])
  BY DEF Load
<1> DEFINE r == [arm |-> input.arm, type |-> input.type, id |-> input.id,
                 cover |-> Cover, history |-> history]
<1>2. /\ HistoryOK(history)
      /\ history # None => WellFormedHistory(history, Cover)
  BY LoadsStand DEF StreamInv
<1>3. /\ r.arm = input.arm /\ r.id = input.id /\ r.cover = Cover
      /\ r.history = history
  OBVIOUS
<1>4. Deliver(d, r) /\ UNCHANGED store
  BY <1>1 DEF Load
<1> HIDE DEF r
<1>5. WellFormed(r)
  BY <1>2, <1>3, StreamAssumption DEF WellFormed
<1>6. HandleInv'
  BY <1>4, <1>5, DeliverKeeps DEF StreamInv
<1>7. /\ pc' = [pc EXCEPT ![d] = "route"] /\ req' = [req EXCEPT ![d] = r]
      /\ TypeOK /\ pc[d] = "idle"
  BY <1>4 DEF Deliver, Goto, StreamInv, HandleInv
<1>8. IsLog(log) /\ LogGrows /\ IsLog(log)'
  BY <1>4, LogStays DEF StreamInv, store
<1>9. ASSUME NEW c \in Dispatches
      PROVE  RequestOK(c)'
  <2>1. CASE c # d
    <3>1. pc'[c] = pc[c] /\ req'[c] = req[c]
      BY <1>7, <2>1 DEF TypeOK
    <3>2. QED
      BY <1>8, <3>1, RequestKept DEF StreamInv
  <2>2. CASE c = d
    <3>1. req'[d] = r
      BY <1>7 DEF TypeOK
    <3>2. HistoryOK(history)'
      BY <1>2, <1>4 DEF HistoryOK, store
    <3>3. \A k \in 1 .. NextSequence(history) : log'[k].meta.id # input.id
      <4>1. \A k \in 1 .. Len(log) : log[k].meta.id # input.id
        BY DEF Load, Admitted
      <4>2. NextSequence(history) \in 0 .. Len(log) /\ Len(log) \in Nat
        BY <1>2, <1>8, LenProperties DEF HistoryOK, IsLog
      <4>3. QED
        BY <1>4, <4>1, <4>2 DEF store
    <3>4. QED
      BY <1>3, <2>2, <3>1, <3>2, <3>3 DEF RequestOK, HistoryOK
  <2>3. QED
    BY <2>1, <2>2
<1>10. SnapshotsOK'
  BY <1>4 DEF StreamInv, SnapshotsOK, SnapshotOK, ReplayOf, store
<1>11. QED
  BY <1>6, <1>8, <1>9, <1>10 DEF StreamInv

-----------------------------------------------------------------------------
(* What is recorded.                                                       *)

(* A decision made at the head, appended, is the replay of the stream with *)
(* it: the events of what is decided, from the head on.                    *)
LEMMA AppendedIsReplay ==
  ASSUME StreamInv, NEW d \in Dispatches, pc[d] # "idle", AtHead(d),
         NEW events \in Seq(Events)
  PROVE  /\ IsLog(Stamped(req[d], events))
         /\ Len(Stamped(req[d], events)) = Len(events)
         /\ ReplayOf(log \o Stamped(req[d], events)) =
              FoldBook(NextBook(req[d], events))
<1> DEFINE new == Stamped(req[d], events)
<1>1. IsLog(new) /\ Len(new) = Len(events)
  <2>1. Len(new) = Len(events)
    BY DEF Stamped
  <2>2. PICK S : new \in Seq(S)
    BY StampedIsSequence
  <2> HIDE DEF new
  <2>3. QED
    BY <2>1, <2>2, SequencesAreLogs
<1>2. /\ WellFormed(req[d]) /\ req[d].cover = Cover /\ IsLog(log)
      /\ Rebuilt(req[d].history) = ReplayOf(log)
  <2>1. HistoryOK(req[d].history) /\ NextSequence(req[d].history) = Len(log)
    BY DEF StreamInv, RequestOK, AtHead
  <2>2. IsLog(log) /\ Len(log) \in Nat /\ Len(log) \in 0 .. Len(log)
    BY LenProperties DEF StreamInv, IsLog
  <2>3. Prefix(log, Len(log)) = log
    BY <2>2, LogsAreCut
  <2>4. QED
    BY <2>1, <2>2, <2>3 DEF StreamInv, RequestOK, HandleInv, TypeOK, HistoryOK
<1>3. FoldBook(NextBook(req[d], events)) =
      ApplyPages(ReplayOf(log), new, Cover, "persisted")
  BY <1>2, NextBookReplay
<1> HIDE DEF new
<1>4. ReplayOf(log \o new) = ApplyPages(ReplayOf(log), new, Cover, "persisted")
  BY <1>1, <1>2, ReplayGrows
<1>5. QED
  BY <1>1, <1>3, <1>4 DEF new

LEMMA RecordKeeps ==
  ASSUME StreamInv, NEW d \in Dispatches, Record(d)
  PROVE  StreamInv'
<1> DEFINE events == answer[d].events
           new == Stamped(req[d], events)
<1>1. /\ pc[d] = "answered" /\ answer[d].error = None /\ AtHead(d)
      /\ log' = log \o new /\ Forget(d) /\ UNCHANGED snapshot
      /\ writing' \in {writing, writing \cup Snapshots(d)}
  BY DEF Record, Decided
<1>2. /\ events \in Seq(Events)
      /\ answer[d].state = EncodeState(FoldBook(NextBook(req[d], events)).state)
      /\ FoldBook(NextBook(req[d], events)).error = None
  <2>1. answered[d] \in Seq(Events) /\ DecisionOK(d)
    BY DEF StreamInv, HandleInv, TypeOK
  <2>2. QED
    BY <1>1, <2>1 DEF DecisionOK
<1>3. /\ IsLog(new) /\ Len(new) = Len(events) /\ IsLog(log)
      /\ ReplayOf(log \o new) = FoldBook(NextBook(req[d], events))
  BY <1>1, <1>2, AppendedIsReplay DEF StreamInv
<1> HIDE DEF new
<1>4. /\ LogGrows /\ IsLog(log)' /\ Len(log') = Len(log) + Len(events)
      /\ Len(log) \in Nat /\ Len(events) \in Nat
  <2> DEFINE grown == log \o new
  <2>1. /\ IsLog(grown)
        /\ Len(grown) = Len(log) + Len(new) /\ Len(log) \in Nat /\ Len(new) \in Nat
        /\ \A n \in 0 .. Len(log) : Prefix(grown, n) = Prefix(log, n)
        /\ \A k \in 1 .. Len(log) : grown[k] = log[k]
    BY <1>3, LogsGrow
  <2>2. log' = grown
    BY <1>1
  <2> HIDE DEF grown
  <2>3. QED
    BY <1>3, <2>1, <2>2 DEF LogGrows
<1>5. /\ HandleInv'
      /\ \A c \in Dispatches :
           pc'[c] # "idle" => pc[c] # "idle" /\ req'[c] = req[c]
  BY <1>1, ForgetKeeps DEF Ended, StreamInv
<1>6. \A c \in Dispatches : RequestOK(c)'
  BY <1>3, <1>4, <1>5, RequestKept DEF StreamInv
<1>7. ASSUME NEW s \in Snapshots(d)
      PROVE  SnapshotOK(s)'
  <2> DEFINE replay == FoldBook(NextBook(req[d], events))
  <2>1. /\ s.upto = NextSequence(req[d].history) + Len(events)
        /\ s.state = answer[d].state /\ s.state # None /\ s.upto > 0
    BY DEF Snapshots, SnapshotOf
  <2>2. s.upto = Len(log') /\ s.upto \in 1 .. Len(log')
    BY <1>1, <1>4, <2>1 DEF AtHead
  <2>3. IsRun(replay) /\ replay.error = None
    <3>1. WellFormed(req[d]) /\ IsRun(Rebuilt(req[d].history))
      BY <1>1, RebuiltIsRun DEF StreamInv, HandleInv, TypeOK
    <3>2. replay = ApplyPages(Rebuilt(req[d].history), new, req[d].cover, "persisted")
      BY <1>2, <3>1, NextBookReplay DEF new
    <3>3. QED
      BY <1>2, <1>3, <1>4, <3>1, <3>2, ApplyPagesIsRun
  <2> HIDE DEF replay
  <2>4. /\ HasCodec /\ s.state = Encoded(replay.state)
    BY <1>2, <2>1 DEF EncodeState, replay
  <2>5. s.state.kind = "encoded" /\ s.state.value = replay.state
    BY <2>4 DEF Encoded
  <2>6. Decode(s.state) = replay
    <3>1. Decode(s.state) = Ok(s.state.value)
      BY <2>5 DEF Decode
    <3>2. QED
      BY <2>3, <2>5, <3>1 DEF Ok, IsRun
  <2>7. Prefix(log', s.upto) = log'
    BY <1>4, <2>2, LogsAreCut
  <2>8. QED
    BY <1>1, <1>3, <2>1, <2>2, <2>4, <2>5, <2>6, <2>7 DEF SnapshotOK, ReplayOf, replay
<1>8. SnapshotsOK'
  <2>1. ASSUME NEW s \in writing \cup ({snapshot} \ {None})
        PROVE  SnapshotOK(s)'
    BY <1>3, <1>4, SnapshotKept DEF StreamInv, SnapshotsOK
  <2>2. QED
    BY <1>1, <1>7, <2>1 DEF SnapshotsOK
<1>9. QED
  BY <1>4, <1>5, <1>6, <1>8 DEF StreamInv

LEMMA StreamNextInv == StreamInv /\ [StreamNext]_streamVars => StreamInv'
<1> SUFFICES ASSUME StreamInv, [StreamNext]_streamVars PROVE StreamInv'
  OBVIOUS
<1>1. ASSUME UNCHANGED <<vars, log, snapshot, writing>>
      PROVE  StreamInv'
  <2>1. HandleInv'
    BY <1>1, NextHandleInv DEF StreamInv
  <2>2. QED
    BY <1>1, <2>1, StoreKept DEF vars
<1>2. ASSUME NEW input \in Inputs, Send(input)
      PROVE  StreamInv'
  BY <1>1, <1>2, LoadKeeps DEF Send, Duplicate
<1>3. ASSUME NEW d \in Dispatches, Run(d) \/ Panic(d)
      PROVE  StreamInv'
  BY <1>3, RunKeeps
<1>4. ASSUME NEW d \in Dispatches, LoseRace(d) \/ Fail(d)
      PROVE  StreamInv'
  <2>1. Ended(d) /\ Forget(d) /\ UNCHANGED <<log, snapshot, writing>>
    BY <1>4 DEF LoseRace, Fail, Decided, Ended, store
  <2>2. QED
    BY <2>1, ForgetKeeps, StoreKept DEF StreamInv
<1>5. CASE WriteSnapshot
  <2>1. /\ UNCHANGED <<vars, log>>
        /\ writing' \cup ({snapshot'} \ {None}) \subseteq writing
    BY <1>5 DEF WriteSnapshot
  <2>2. HandleInv'
    BY <2>1, NextHandleInv DEF StreamInv
  <2>3. LogGrows /\ IsLog(log) /\ IsLog(log)'
    BY <2>1, LogStays DEF StreamInv
  <2>4. SnapshotsOK'
    BY <2>1, <2>3, SnapshotKept DEF StreamInv, SnapshotsOK
  <2>5. \A d \in Dispatches : RequestOK(d)'
    BY <2>1, <2>3, RequestKept DEF StreamInv, vars
  <2>6. QED
    BY <2>2, <2>3, <2>4, <2>5 DEF StreamInv
<1>6. CASE UNCHANGED streamVars
  BY <1>1, <1>6 DEF streamVars, store
<1>7. QED
  BY <1>2, <1>3, <1>4, <1>5, <1>6, RecordKeeps, CrashKeeps DEF StreamNext, End

LEMMA StreamInvariant == NoneIsNoSnapshot /\ StreamSpec => []StreamInv
<1>1. NoneIsNoSnapshot /\ StreamInit => StreamInv
  BY StreamInitInv
<1>2. QED
  BY <1>1, StreamNextInv, PTL DEF StreamSpec

(* Whatever answers' states the coordinator keeps, however late it writes  *)
(* them and whatever is lost, a snapshot decodes to the replay of the log  *)
(* it stands for.                                                          *)
THEOREM SnapshotsReplay == NoneIsNoSnapshot /\ StreamSpec => []SnapshotIsReplay
<1>1. StreamInv => SnapshotIsReplay
  <2> SUFFICES ASSUME StreamInv, NEW s \in writing \cup ({snapshot} \ {None})
               PROVE  /\ s.upto <= Len(log)
                      /\ Decode(s.state) = FoldBook(Book(None, SubSeq(log, 1, s.upto)))
    BY DEF SnapshotIsReplay
  <2>1. SnapshotOK(s) /\ Len(log) \in Nat
    BY LenProperties DEF StreamInv, SnapshotsOK, IsLog
  <2>2. QED
    BY <2>1, BookReplay DEF SnapshotOK, Prefix
<1>2. QED
  BY <1>1, StreamInvariant, PTL

(* Whatever a dispatch was loaded from, its business code is told rightly  *)
(* whether events came before it.                                          *)
THEOREM PriorEventsAreTold == NoneIsNoSnapshot /\ StreamSpec => []PriorEventsAreKnown
<1>1. StreamInv => PriorEventsAreKnown
  BY DEF StreamInv, RequestOK, HistoryOK, PriorEventsAreKnown
<1>2. QED
  BY <1>1, StreamInvariant, PTL

-----------------------------------------------------------------------------
(* A stream implements SerialStream: each step of it records nothing, or   *)
(* one decision of one input, all its steps on the replay of what is       *)
(* before them.                                                            *)

(* The abstract specification's operators are the concrete ones.           *)

LEMMA SerialReplay ==
  ASSUME NEW pages
  PROVE  Serial!Replay(pages) = ReplayOf(pages)
BY DEF Serial!Replay, Serial!ApplyPages, Serial!FoldRun, Serial!FoldPage,
       Serial!Folds, Serial!View, Serial!Failing, Serial!FoldFailed,
       Serial!Keyed, Serial!Surface, Serial!Coded, Serial!OriginReason, Serial!Ok,
       ReplayOf, ApplyPages, FoldRun, FoldPage, Folds, View, Failing, FoldFailed,
       Keyed, Surface, Coded, OriginReason, Ok

(* Flattening a sequence of sequences, one more at a time.                 *)
Flat(steps) == Serial!FlattenSeq(steps)

FlatIs(f, steps, n) ==
  f = [i \in 1 .. n |-> IF i = 1 THEN steps[i] ELSE f[i - 1] \o steps[i]]

LEMMA FlatAt ==
  ASSUME NEW f, NEW steps, NEW n \in Nat, FlatIs(f, steps, n), NEW i \in 1 .. n
  PROVE  f[i] = IF i = 1 THEN steps[i] ELSE f[i - 1] \o steps[i]
BY DEF FlatIs

LEMMA FlatRun ==
  ASSUME NEW steps, Len(steps) \in Nat \ {0}
  PROVE  \E f : /\ FlatIs(f, steps, Len(steps))
                /\ Flat(steps) = f[Len(steps)]
<1> DEFINE S == {n \in Nat : \E f : FlatIs(f, steps, n)}
<1>1. 0 \in S
  <2>1. FlatIs([i \in 1 .. 0 |-> <<>>], steps, 0)
    BY DEF FlatIs
  <2>2. QED
    BY <2>1
<1>2. ASSUME NEW n \in Nat, n \in S
      PROVE  n + 1 \in S
  <2>1. PICK f : FlatIs(f, steps, n)
    BY <1>2
  <2> DEFINE g == [i \in 1 .. n + 1 |->
                     IF i = n + 1
                     THEN IF n = 0 THEN steps[1] ELSE f[n] \o steps[n + 1]
                     ELSE f[i]]
  <2>2. ASSUME NEW i \in 1 .. n + 1
        PROVE  g[i] = IF i = 1 THEN steps[i] ELSE g[i - 1] \o steps[i]
    <3>1. CASE i = n + 1
      BY <3>1
    <3>2. CASE i \in 1 .. n
      <4>1. f[i] = IF i = 1 THEN steps[i] ELSE f[i - 1] \o steps[i]
        BY <2>1, <3>2 DEF FlatIs
      <4>2. g[i] = f[i] /\ (i # 1 => g[i - 1] = f[i - 1])
        BY <3>2
      <4>3. QED
        BY <4>1, <4>2
    <3>3. QED
      BY <3>1, <3>2
  <2>3. FlatIs(g, steps, n + 1)
    BY <2>2 DEF FlatIs
  <2> HIDE DEF g
  <2>4. QED
    BY <2>3
<1>3. Len(steps) \in S
  <2> HIDE DEF S
  <2>1. QED
    BY <1>1, <1>2, SetInduction
<1> DEFINE f == CHOOSE f : FlatIs(f, steps, Len(steps))
<1>4. FlatIs(f, steps, Len(steps))
  BY <1>3
<1>5. Flat(steps) = f[Len(steps)]
  BY DEF Flat, Serial!FlattenSeq, FlatIs
<1> HIDE DEF f
<1>6. QED
  BY <1>4, <1>5

LEMMA FlatNone == Flat(<<>>) = <<>>
BY DEF Flat, Serial!FlattenSeq

LEMMA FlatGrows ==
  ASSUME NEW steps \in Seq(Seq(Events)), NEW x \in Seq(Events)
  PROVE  /\ Flat(steps) \in Seq(Events)
         /\ Flat(Append(steps, x)) = Flat(steps) \o x
<1> DEFINE more == Append(steps, x)
           n == Len(steps)
<1>1. /\ n \in Nat /\ Len(more) = n + 1 /\ more[n + 1] = x
      /\ \A i \in 1 .. n : more[i] = steps[i] /\ steps[i] \in Seq(Events)
  BY AppendProperties, LenProperties, ElementOfSeq
<1> HIDE DEF more
<1>2. PICK g : FlatIs(g, more, n + 1) /\ Flat(more) = g[n + 1]
  BY <1>1, FlatRun
<1>3. g[n + 1] = IF n = 0 THEN x ELSE g[n] \o x
  <2>1. n + 1 \in Nat /\ n + 1 \in 1 .. n + 1 /\ (n + 1) - 1 = n
        /\ (n + 1 = 1 <=> n = 0)
    BY <1>1
  <2>2. g[n + 1] = IF n + 1 = 1 THEN more[n + 1] ELSE g[(n + 1) - 1] \o more[n + 1]
    BY <1>2, <2>1, FlatAt
  <2>3. QED
    BY <1>1, <2>1, <2>2
<1>4. CASE n = 0
  <2>1. steps = <<>> /\ <<>> \in Seq(Events)
    BY <1>4, EmptySeq
  <2>2. Flat(steps) = <<>> /\ <<>> \o x = x
    BY <2>1, FlatNone, ConcatEmptySeq
  <2>3. QED
    BY <1>2, <1>3, <1>4, <2>1, <2>2 DEF more
<1>5. CASE n # 0
  <2>1. PICK f : FlatIs(f, steps, n) /\ Flat(steps) = f[n]
    BY <1>1, <1>5, FlatRun
  <2> DEFINE S == {i \in Nat : i \in 1 .. n => f[i] \in Seq(Events) /\ g[i] = f[i]}
  <2>2. 0 \in S
    OBVIOUS
  <2>3. ASSUME NEW i \in Nat, i \in S
        PROVE  i + 1 \in S
    <3>1. SUFFICES ASSUME i + 1 \in 1 .. n
                   PROVE  f[i + 1] \in Seq(Events) /\ g[i + 1] = f[i + 1]
      OBVIOUS
    <3>2. /\ f[i + 1] = IF i = 0 THEN steps[1] ELSE f[i] \o steps[i + 1]
          /\ g[i + 1] = IF i = 0 THEN steps[1] ELSE g[i] \o steps[i + 1]
      <4>1. /\ i + 1 \in 1 .. n + 1 /\ n + 1 \in Nat /\ (i + 1) - 1 = i
            /\ (i + 1 = 1 <=> i = 0)
        BY <1>1, <3>1
      <4>2. f[i + 1] = IF i + 1 = 1 THEN steps[i + 1]
                       ELSE f[(i + 1) - 1] \o steps[i + 1]
        BY <1>1, <2>1, <3>1, FlatAt
      <4>3. g[i + 1] = IF i + 1 = 1 THEN more[i + 1]
                       ELSE g[(i + 1) - 1] \o more[i + 1]
        BY <1>2, <4>1, FlatAt
      <4>4. more[i + 1] = steps[i + 1]
        BY <1>1, <3>1
      <4>5. QED
        BY <4>1, <4>2, <4>3, <4>4
    <3>3. steps[i + 1] \in Seq(Events)
      BY <1>1, <3>1
    <3>4. i # 0 => f[i] \in Seq(Events) /\ g[i] = f[i]
      BY <2>3, <3>1
    <3>5. QED
      BY <3>2, <3>3, <3>4, ConcatProperties
  <2>4. n \in S
    <3> HIDE DEF S
    <3>1. QED
      BY <1>1, <2>2, <2>3, SetInduction
  <2>5. f[n] \in Seq(Events) /\ g[n] = f[n]
    BY <1>1, <1>5, <2>4
  <2>6. QED
    BY <1>2, <1>3, <1>5, <2>1, <2>5 DEF more
<1>6. QED
  BY <1>4, <1>5

-----------------------------------------------------------------------------
(* What a decision was made of.                                            *)

(* These steps make a decision of r: each was emitted on the replay of     *)
(* what is before it, and replays.                                         *)
DecidedBy(r, steps) ==
  /\ steps \in Seq(Emissions)
  /\ \A n \in 1 .. Len(steps) :
       /\ MayEmit(FoldBook(NextBook(r, Flat(Prefix(steps, n - 1)))).state, steps[n])
       /\ FoldBook(NextBook(r, Flat(Prefix(steps, n)))).error = None

LEMMA NothingDecided ==
  ASSUME NEW r
  PROVE  DecidedBy(r, <<>>) /\ Flat(<<>>) = <<>>
BY FlatNone DEF DecidedBy

LEMMA StepsAreEvents ==
  ASSUME NEW steps \in Seq(Emissions)
  PROVE  /\ steps \in Seq(Seq(Events)) /\ Len(steps) \in Nat
         /\ \A n \in 0 .. Len(steps) : Flat(Prefix(steps, n)) \in Seq(Events)
<1>1. steps \in Seq(Seq(Events)) /\ Len(steps) \in Nat
  BY HandleAssumption, SeqMonotonic, LenProperties
<1>2. ASSUME NEW n \in 0 .. Len(steps)
      PROVE  Flat(Prefix(steps, n)) \in Seq(Events)
  <2>1. Prefix(steps, n) \in Seq(Seq(Events))
    <3>1. 1 \in Int /\ n \in Int /\ \A i \in 1 .. n : steps[i] \in Seq(Events)
      BY <1>1, ElementOfSeq
    <3>2. QED
      BY <3>1, SubSeqProperties DEF Prefix
  <2>2. <<>> \in Seq(Events)
    BY EmptySeq
  <2>3. QED
    BY <2>1, <2>2, FlatGrows
<1>3. QED
  BY <1>1, <1>2

(* One more step, emitted on the replay of those before it.                *)
LEMMA DecisionGrows ==
  ASSUME NEW r, NEW steps, DecidedBy(r, steps), NEW events \in Emissions, NEW s,
         FoldBook(NextBook(r, Flat(steps))) = Ok(s), MayEmit(s, events),
         FoldBook(NextBook(r, Flat(steps) \o events)).error = None
  PROVE  /\ DecidedBy(r, Append(steps, events))
         /\ Flat(Append(steps, events)) = Flat(steps) \o events
         /\ Len(Append(steps, events)) = Len(steps) + 1
<1> DEFINE more == Append(steps, events)
           n == Len(steps)
<1>1. /\ steps \in Seq(Emissions) /\ n \in Nat
      /\ more \in Seq(Emissions) /\ Len(more) = n + 1
      /\ more[n + 1] = events /\ \A k \in 1 .. n : more[k] = steps[k]
  BY AppendProperties, LenProperties DEF DecidedBy
<1>2. Flat(more) = Flat(steps) \o events
  BY <1>1, StepsAreEvents, HandleAssumption, FlatGrows
<1>3. \A k \in 0 .. n : Prefix(more, k) = Prefix(steps, k)
  <2>1. IsLog(steps) /\ IsLog(<<events>>)
    <3>1. <<events>> \in Seq(Emissions)
      OBVIOUS
    <3>2. QED
      BY <1>1, <3>1, SequencesAreLogs
  <2>2. more = steps \o <<events>>
    BY <1>1, AppendIsConcat
  <2>3. QED
    BY <2>1, <2>2, LogsGrow
<1>4. Prefix(more, n + 1) = more /\ Prefix(steps, n) = steps
  BY <1>1, SubSeqFull DEF Prefix
<1> HIDE DEF more
<1>5. ASSUME NEW k \in 1 .. n + 1
      PROVE  /\ MayEmit(FoldBook(NextBook(r, Flat(Prefix(more, k - 1)))).state, more[k])
             /\ FoldBook(NextBook(r, Flat(Prefix(more, k)))).error = None
  <2>1. CASE k \in 1 .. n
    <3>1. /\ Prefix(more, k - 1) = Prefix(steps, k - 1)
          /\ Prefix(more, k) = Prefix(steps, k) /\ more[k] = steps[k]
      BY <1>1, <1>3, <2>1
    <3>2. QED
      BY <2>1, <3>1 DEF DecidedBy
  <2>2. CASE k = n + 1
    <3>1. /\ Prefix(more, k - 1) = steps /\ Prefix(more, k) = more
          /\ more[k] = events
      BY <1>1, <1>3, <1>4, <2>2
    <3>2. Ok(s).state = s
      BY DEF Ok
    <3>3. QED
      BY <1>2, <3>1, <3>2
  <2>3. QED
    BY <1>1, <2>1, <2>2
<1>6. DecidedBy(r, more)
  BY <1>1, <1>5 DEF DecidedBy
<1>7. QED
  BY <1>1, <1>2, <1>6 DEF more

-----------------------------------------------------------------------------
(* The inductive invariant.                                                *)

(* The steps of d whose events it has folded: all it ran, but the one      *)
(* whose events are being folded.                                          *)
Folded(d) == Len(ran[d]) - (IF pc[d] = "fold" THEN 1 ELSE 0)

(* What a dispatch has decided, some steps made of its request.            *)
DecidedSteps(d) ==
  \E steps : /\ DecidedBy(req[d], steps)
             /\ answered[d] = Flat(steps)
             /\ Len(steps) = Folded(d)

StepsOK(d) ==
  /\ pc[d] \in {"idle", "route", "rebuild"} => ran[d] = <<>>
  /\ pc[d] = "fold" => emit[d] \in Emissions /\ MayEmit(state[d], emit[d])
  /\ pc[d] \in {"call", "fold", "encode"} \/ Decided(d) =>
       DecidedSteps(d) /\ Len(ran[d]) <= MaxSteps

SerialInv == StreamInv /\ \A d \in Dispatches : StepsOK(d)

SameSteps(d) ==
  /\ pc'[d] = pc[d] /\ req'[d] = req[d] /\ state'[d] = state[d]
  /\ emit'[d] = emit[d] /\ answered'[d] = answered[d] /\ ran'[d] = ran[d]
  /\ answer'[d] = answer[d]

LEMMA SameStepsKeep ==
  ASSUME NEW d \in Dispatches, StepsOK(d), SameSteps(d)
  PROVE  StepsOK(d)'
BY DEF StepsOK, SameSteps, Decided, DecidedSteps, Folded

(* Nothing is said of a dispatch that is idle, or failed.                  *)
LEMMA OverKeeps ==
  ASSUME NEW d \in Dispatches,
         \/ pc'[d] = "idle" /\ ran'[d] = <<>>
         \/ pc'[d] = "unwound"
         \/ pc'[d] = "answered" /\ answer'[d].error # None
  PROVE  StepsOK(d)'
BY DEF StepsOK, Decided

LEMMA FailKeeps ==
  ASSUME TypeOK, NEW d \in Dispatches, NEW e, e # None, AnswerError(d, e)
  PROVE  StepsOK(d)'
<1>1. pc'[d] = "answered" /\ answer'[d].error = e
  BY DEF AnswerError, Goto, TypeOK
<1>2. QED
  BY <1>1, OverKeeps

(* A step of one dispatch leaves the others alone.                         *)
LEMMA OthersSame ==
  ASSUME TypeOK, NEW d \in Dispatches, Step(d) \/ Unwind(d)
  PROVE  \A c \in Dispatches \ {d} : SameSteps(c)
<1>1. /\ UNCHANGED req
      /\ \E place : pc' = [pc EXCEPT ![d] = place]
      /\ state' = state \/ \E s : state' = [state EXCEPT ![d] = s]
      /\ emit' = emit \/ \E e : emit' = [emit EXCEPT ![d] = e]
      /\ answered' = answered \/ \E a : answered' = [answered EXCEPT ![d] = a]
      /\ ran' = ran \/ \E r : ran' = [ran EXCEPT ![d] = r]
      /\ answer' = answer \/ \E a : answer' = [answer EXCEPT ![d] = a]
  BY DEF Step, Route, RebuildState, Call, CallEmits, CallFails, FoldEmitted,
         Answer, Unwind, Goto, AnswerError
<1>2. QED
  BY <1>1 DEF SameSteps, TypeOK

(* The rebuild leaves nothing decided.                                     *)
LEMMA RebuildSteps ==
  ASSUME SerialInv, NEW d \in Dispatches, RebuildState(d)
  PROVE  StepsOK(d)'
<1> DEFINE rebuilt == Rebuilt(req[d].history)
<1>1. TypeOK /\ StepsOK(d) /\ DecisionOK(d) /\ pc[d] = "rebuild"
  BY DEF SerialInv, StreamInv, HandleInv, RebuildState
<1>2. CASE rebuilt.error # None
  <2>1. AnswerError(d, rebuilt.error)
    BY <1>2 DEF RebuildState
  <2>2. QED
    BY <1>1, <1>2, <2>1, FailKeeps
<1>3. CASE rebuilt.error = None
  <2>1. /\ pc'[d] = "call" /\ req' = req /\ ran' = ran /\ answered' = answered
    BY <1>1, <1>3 DEF RebuildState, Goto, TypeOK
  <2>2. ran[d] = <<>> /\ answered[d] = <<>>
    BY <1>1 DEF StepsOK, DecisionOK
  <2>3. Len(<<>>) = 0 /\ 0 <= MaxSteps
    BY HandleAssumption
  <2>4. DecidedBy(req'[d], <<>>) /\ answered'[d] = Flat(<<>>)
    BY <2>1, <2>2, NothingDecided
  <2>5. DecidedSteps(d)'
    BY <2>1, <2>2, <2>3, <2>4 DEF DecidedSteps, Folded
  <2>6. QED
    BY <2>1, <2>2, <2>3, <2>5 DEF StepsOK
<1>4. QED
  BY <1>2, <1>3

(* A call runs one more step; its events are not yet decided.              *)
LEMMA CallSteps ==
  ASSUME SerialInv, NEW d \in Dispatches, Call(d)
  PROVE  StepsOK(d)'
<1>1. TypeOK /\ StepsOK(d)
  BY DEF SerialInv, StreamInv, HandleInv
<1>2. ASSUME NEW events \in Emissions, NEW n \in 0 .. MaxSteps,
             CallEmits(d, events, n)
      PROVE  StepsOK(d)'
  <2>1. /\ pc[d] = "call" /\ MayEmit(state[d], events)
        /\ Len(ran[d]) + Len(pending[d]) + n <= MaxSteps
        /\ pc'[d] = "fold" /\ emit'[d] = events
        /\ req' = req /\ state' = state /\ answered' = answered
        /\ ran'[d] = Append(ran[d], Ran(Head(pending[d]), n))
    BY <1>1, <1>2 DEF CallEmits, Goto, TypeOK
  <2>2. /\ Len(ran[d]) \in Nat /\ Len(pending[d]) \in Nat \ {0}
        /\ Len(ran'[d]) = Len(ran[d]) + 1
    <3>1. /\ ran[d] \in Seq([step : Steps, added : 0 .. MaxSteps])
          /\ pending[d] \in Seq(Steps) /\ pending[d] # <<>>
      BY <1>1, <2>1 DEF TypeOK
    <3>2. Len(ran[d]) \in Nat /\ Len(pending[d]) \in Nat \ {0}
      BY <3>1, EmptySeq, LenProperties
    <3>3. QED
      BY <2>1, <3>1, <3>2
  <2>3. Len(ran'[d]) <= MaxSteps
    <3>1. MaxSteps \in Nat /\ n \in Nat
      BY HandleAssumption
    <3>2. Len(ran[d]) + Len(pending[d]) + n <= MaxSteps
      BY <2>1
    <3>3. ASSUME NEW a \in Nat, NEW b \in Nat \ {0}, NEW k \in Nat, NEW m \in Nat,
                 a + b + k <= m
          PROVE  a + 1 <= m
      BY <3>3
    <3>4. Len(ran[d]) + 1 <= MaxSteps
      BY <2>2, <3>1, <3>2, <3>3
    <3>5. QED
      BY <2>2, <3>4
  <2>4. Folded(d)' = Folded(d)
    BY <2>1, <2>2 DEF Folded
  <2>5. DecidedSteps(d)
    BY <1>1, <2>1 DEF StepsOK
  <2>6. DecidedSteps(d)'
    <3>1. PICK steps : /\ DecidedBy(req[d], steps) /\ answered[d] = Flat(steps)
                       /\ Len(steps) = Folded(d)
      BY <2>5 DEF DecidedSteps
    <3>2. /\ DecidedBy(req'[d], steps) /\ answered'[d] = Flat(steps)
          /\ Len(steps) = Folded(d)'
      BY <2>1, <2>4, <3>1
    <3>3. QED
      BY <3>2 DEF DecidedSteps
  <2>7. QED
    BY <2>1, <2>3, <2>6 DEF StepsOK
<1>3. ASSUME NEW failure \in Failures, CallFails(d, failure)
      PROVE  StepsOK(d)'
  <2>1. DecideError(req[d], CallHandler(failure)) \in CodedErrors
    BY HandleAssumption, CallHandlerIsError, DecideErrorIsError
  <2>2. QED
    BY <1>1, <1>3, <2>1, FailKeeps, ErrorsAssumption DEF CallFails
<1>4. QED
  BY <1>2, <1>3 DEF Call

(* A fold decides the step whose events it folds.                          *)
LEMMA FoldSteps ==
  ASSUME SerialInv, HandleInv', NEW d \in Dispatches, FoldEmitted(d)
  PROVE  StepsOK(d)'
<1> DEFINE folded == ApplyEmitted(state[d], emit[d], DecideCover(req[d]),
                                  NextEmitted(d), EventMeta(req[d]))
<1>1. TypeOK /\ StepsOK(d) /\ DecisionOK(d) /\ DecisionOK(d)' /\ pc[d] = "fold"
  BY DEF SerialInv, StreamInv, HandleInv, FoldEmitted
<1>2. CASE folded.error # None
  <2>1. AnswerError(d, DecideError(req[d], folded.error))
    BY <1>2 DEF FoldEmitted
  <2>2. folded.error \in CodedErrors \cup {None}
    BY EmittedIsRun, <1>1, RunErrors, DefectsAreErrors DEF TypeOK
  <2> HIDE DEF folded
  <2>3. DecideError(req[d], folded.error) \in CodedErrors
    BY <1>2, <2>2, DecideErrorIsError
  <2>4. QED
    BY <1>1, <2>1, <2>3, FailKeeps, ErrorsAssumption
<1>3. CASE folded.error = None
  <2>1. /\ pc'[d] = AfterFold(pending[d])
        /\ answered'[d] = answered[d] \o emit[d]
        /\ req' = req /\ ran' = ran
    BY <1>1, <1>3 DEF FoldEmitted, Goto, TypeOK
  <2>2. pc'[d] \in {"call", "encode"}
    BY <2>1 DEF AfterFold
  <2>3. /\ emit[d] \in Emissions /\ MayEmit(state[d], emit[d])
        /\ Len(ran[d]) <= MaxSteps
        /\ FoldBook(NextBook(req[d], answered[d])) = Ok(state[d])
    BY <1>1 DEF StepsOK, DecisionOK
  <2>4. PICK steps : /\ DecidedBy(req[d], steps) /\ answered[d] = Flat(steps)
                     /\ Len(steps) = Len(ran[d]) - 1
    BY <1>1 DEF StepsOK, DecidedSteps, Folded
  <2> DEFINE more == Append(steps, emit[d])
  <2>5. FoldBook(NextBook(req[d], Flat(steps) \o emit[d])).error = None
    <3>1. FoldBook(NextBook(req'[d], answered'[d])) = Ok(state'[d])
      BY <1>1, <2>2 DEF DecisionOK
    <3>2. answered'[d] = Flat(steps) \o emit[d]
      BY <2>1, <2>4
    <3>3. QED
      BY <2>1, <3>1, <3>2 DEF Ok
  <2>6. /\ DecidedBy(req[d], more) /\ Flat(more) = Flat(steps) \o emit[d]
        /\ Len(more) = Len(steps) + 1
    BY SMTT(30), <2>3, <2>4, <2>5, DecisionGrows
  <2>7. Len(ran[d]) \in Nat
    BY <1>1, LenProperties DEF TypeOK
  <2> HIDE DEF more
  <2>8. /\ DecidedBy(req'[d], more) /\ answered'[d] = Flat(more)
        /\ Len(more) = Folded(d)'
    <3>1. Len(more) = Len(ran[d])
      BY <2>4, <2>6, <2>7
    <3>2. Folded(d)' = Len(ran[d])
      <4>1. pc'[d] # "fold" /\ ran'[d] = ran[d]
        BY <2>1, <2>2
      <4>2. Folded(d)' = Len(ran'[d]) - 0
        BY <4>1 DEF Folded
      <4>3. QED
        BY <2>7, <4>1, <4>2
    <3>3. QED
      BY <2>1, <2>4, <2>6, <3>1, <3>2
  <2>9. DecidedSteps(d)'
    BY <2>8 DEF DecidedSteps
  <2>10. QED
    BY <2>1, <2>2, <2>3, <2>9 DEF StepsOK
<1>4. QED
  BY <1>2, <1>3

LEMMA AnswerSteps ==
  ASSUME SerialInv, NEW d \in Dispatches, Answer(d)
  PROVE  StepsOK(d)'
<1>1. TypeOK /\ StepsOK(d) /\ pc[d] = "encode"
  BY DEF SerialInv, StreamInv, HandleInv, Answer
<1>2. /\ pc'[d] = "answered" /\ req' = req /\ ran' = ran /\ answered' = answered
  BY <1>1 DEF Answer, Goto, TypeOK
<1>3. DecidedSteps(d) /\ Len(ran[d]) <= MaxSteps
  BY <1>1 DEF StepsOK
<1>4. Folded(d)' = Folded(d)
  BY <1>1, <1>2 DEF Folded
<1>5. DecidedSteps(d)'
  <2>1. PICK steps : /\ DecidedBy(req[d], steps) /\ answered[d] = Flat(steps)
                     /\ Len(steps) = Folded(d)
    BY <1>3 DEF DecidedSteps
  <2>2. /\ DecidedBy(req'[d], steps) /\ answered'[d] = Flat(steps)
        /\ Len(steps) = Folded(d)'
    BY <1>2, <1>4, <2>1
  <2>3. QED
    BY <2>2 DEF DecidedSteps
<1>6. QED
  BY <1>2, <1>3, <1>5 DEF StepsOK

LEMMA RunSteps ==
  ASSUME SerialInv, HandleInv', NEW d \in Dispatches, Step(d) \/ Unwind(d)
  PROVE  \A c \in Dispatches : StepsOK(c)'
<1>1. TypeOK /\ \A c \in Dispatches : StepsOK(c)
  BY DEF SerialInv, StreamInv, HandleInv
<1>2. \A c \in Dispatches \ {d} : StepsOK(c)'
  BY <1>1, OthersSame, SameStepsKeep
<1>3. ASSUME Route(d)
      PROVE  StepsOK(d)'
  <2>1. CASE Routed(req[d])
    <3>1. pc[d] = "route" /\ pc'[d] = "rebuild" /\ ran' = ran
      BY <1>1, <1>3, <2>1 DEF Route, Goto, TypeOK
    <3>2. ran[d] = <<>>
      BY <1>1, <3>1 DEF StepsOK
    <3>3. QED
      BY <3>1, <3>2 DEF StepsOK, Decided
  <2>2. CASE ~ Routed(req[d])
    <3>1. AnswerError(d, UnknownType(RouteReason(req[d])))
      BY <1>3, <2>2 DEF Route
    <3>2. UnknownType(RouteReason(req[d])) # None
      BY UnknownTypeIsDefect, DefectsAreErrors, ErrorsAssumption
    <3>3. QED
      BY <1>1, <3>1, <3>2, FailKeeps
  <2>3. QED
    BY <2>1, <2>2
<1>4. ASSUME Unwind(d)
      PROVE  StepsOK(d)'
  <2>1. pc'[d] = "unwound"
    BY <1>1, <1>4 DEF Unwind, Goto, TypeOK
  <2>2. QED
    BY <2>1, OverKeeps
<1>5. StepsOK(d)'
  BY <1>3, <1>4, RebuildSteps, CallSteps, FoldSteps, AnswerSteps DEF Step
<1>6. QED
  BY <1>2, <1>5

LEMMA SerialInitInv ==
  ASSUME NoneIsNoSnapshot, StreamInit
  PROVE  SerialInv
<1>1. \A d \in Dispatches : pc[d] = "idle" /\ ran[d] = <<>>
  BY DEF StreamInit, Init
<1>2. QED
  BY <1>1, StreamInitInv DEF SerialInv, StepsOK, Decided

LEMMA SerialNextInv == SerialInv /\ [StreamNext]_streamVars => SerialInv'
<1> SUFFICES ASSUME SerialInv, [StreamNext]_streamVars PROVE SerialInv'
  OBVIOUS
<1>1. /\ StreamInv' /\ HandleInv' /\ TypeOK
      /\ \A d \in Dispatches : StepsOK(d)
  BY StreamNextInv DEF SerialInv, StreamInv, HandleInv
<1> SUFFICES \A c \in Dispatches : StepsOK(c)'
  BY <1>1 DEF SerialInv
<1>2. ASSUME UNCHANGED vars
      PROVE  \A c \in Dispatches : StepsOK(c)'
  BY <1>1, <1>2, SameStepsKeep DEF SameSteps, vars
<1>3. ASSUME NEW input \in Inputs, NEW d \in Dispatches, Load(d, input)
      PROVE  \A c \in Dispatches : StepsOK(c)'
  <2>1. /\ pc[d] = "idle" /\ pc' = [pc EXCEPT ![d] = "route"]
        /\ \E r : req' = [req EXCEPT ![d] = r]
        /\ UNCHANGED <<state, emit, pending, answered, ran, answer>>
    BY <1>3 DEF Load, Deliver, Goto
  <2>2. \A c \in Dispatches \ {d} : SameSteps(c)
    BY <1>1, <2>1 DEF SameSteps, TypeOK
  <2>3. pc'[d] = "route" /\ ran'[d] = <<>>
    BY <1>1, <2>1 DEF StepsOK, TypeOK
  <2>4. StepsOK(d)'
    BY <2>3 DEF StepsOK, Decided
  <2>5. QED
    BY <1>1, <2>2, <2>4, SameStepsKeep
<1>4. ASSUME NEW d \in Dispatches, Run(d) \/ Panic(d)
      PROVE  \A c \in Dispatches : StepsOK(c)'
  BY <1>1, <1>4, RunSteps DEF Run, Panic
<1>5. ASSUME NEW d \in Dispatches, Forget(d)
      PROVE  \A c \in Dispatches : StepsOK(c)'
  <2>1. \A c \in Dispatches \ {d} : SameSteps(c)
    BY <1>1, <1>5 DEF Forget, Goto, SameSteps, TypeOK
  <2>2. pc'[d] = "idle" /\ ran'[d] = <<>>
    BY <1>1, <1>5 DEF Forget, Goto, TypeOK
  <2>3. QED
    BY <1>1, <2>1, <2>2, SameStepsKeep, OverKeeps
<1>6. ASSUME Crash
      PROVE  \A c \in Dispatches : StepsOK(c)'
  BY <1>6, OverKeeps DEF Crash
<1>7. QED
  BY <1>2, <1>3, <1>4, <1>5, <1>6
     DEF StreamNext, Send, Duplicate, End, Record, LoseRace, Fail, WriteSnapshot,
         streamVars

-----------------------------------------------------------------------------
(* The refinement.                                                         *)

(* What is recorded is one decision of one input, or nothing.              *)
LEMMA RecordDecides ==
  ASSUME SerialInv, NEW d \in Dispatches, Record(d)
  PROVE  [Serial!Next]_log
<1>1. /\ pc[d] = "answered" /\ answer[d].error = None /\ AtHead(d)
      /\ log' = log \o Stamped(req[d], answer[d].events)
  BY DEF Record, Decided
<1>2. PICK steps : /\ DecidedBy(req[d], steps) /\ answer[d].events = Flat(steps)
                   /\ Len(steps) <= MaxSteps
  <2>1. StepsOK(d) /\ Decided(d) /\ DecisionOK(d)
    BY DEF SerialInv, StreamInv, HandleInv, Record
  <2>2. DecidedSteps(d) /\ Len(ran[d]) <= MaxSteps /\ answer[d].events = answered[d]
    BY <1>1, <2>1 DEF StepsOK, DecisionOK
  <2>3. Folded(d) = Len(ran[d]) - 0
    BY <1>1 DEF Folded
  <2>4. Len(ran[d]) \in Nat
    BY LenProperties DEF SerialInv, StreamInv, HandleInv, TypeOK
  <2>5. QED
    BY <2>2, <2>3, <2>4 DEF DecidedSteps
<1>3. /\ steps \in Seq(Emissions) /\ Len(steps) \in Nat
      /\ \A k \in 0 .. Len(steps) : Flat(Prefix(steps, k)) \in Seq(Events)
      /\ Prefix(steps, Len(steps)) = steps
  BY <1>2, StepsAreEvents, SubSeqFull DEF DecidedBy, Prefix
<1>4. CASE steps = <<>>
  <2>1. Stamped(req[d], answer[d].events) = <<>>
    BY <1>2, <1>4, FlatNone DEF Stamped
  <2>2. log' = log
    BY <1>1, <2>1, ConcatEmptySeq DEF SerialInv, StreamInv, IsLog
  <2>3. QED
    BY <2>2
<1>5. CASE steps # <<>>
  <2>1. PICK input \in Inputs : req[d].arm = input.arm /\ req[d].id = input.id
    BY <1>1 DEF SerialInv, StreamInv, RequestOK
  <2>2. EventMeta(req[d]) = Serial!Meta(input)
    BY <2>1, StreamAssumption DEF EventMeta, IsFact, Serial!Meta
  <2>3. ASSUME NEW k \in 0 .. Len(steps)
        PROVE  Serial!After(steps, k, input) =
               log \o Stamped(req[d], Flat(Prefix(steps, k)))
    BY <1>1, <2>2 DEF Serial!After, Serial!Extend, Serial!Page, Page, Stamped, AtHead,
                      Flat, Prefix
  <2>4. ASSUME NEW k \in 0 .. Len(steps)
        PROVE  Serial!Replay(Serial!After(steps, k, input)) =
               FoldBook(NextBook(req[d], Flat(Prefix(steps, k))))
    <3> DEFINE events == Flat(Prefix(steps, k))
               grown == log \o Stamped(req[d], events)
    <3>1. events \in Seq(Events)
      BY <1>3
    <3> HIDE DEF events
    <3>2. ReplayOf(grown) = FoldBook(NextBook(req[d], events))
      BY <1>1, <3>1, AppendedIsReplay DEF SerialInv
    <3>3. Serial!After(steps, k, input) = grown
      BY <2>3 DEF events
    <3> HIDE DEF grown
    <3>4. Serial!Replay(grown) = ReplayOf(grown)
      BY SerialReplay
    <3>5. QED
      BY <3>2, <3>3, <3>4 DEF events
  <2>5. ~ Serial!Decided(log, input)
    <3>1. \A k \in 1 .. Len(log) : log[k].meta.id # req[d].id
      BY <1>1 DEF SerialInv, StreamInv, RequestOK, AtHead
    <3>2. QED
      BY <2>1, <3>1 DEF Serial!Decided
  <2>6. ASSUME NEW n \in 1 .. Len(steps)
        PROVE  /\ MayEmit(Serial!Replay(Serial!After(steps, n - 1, input)).state, steps[n])
               /\ Serial!Replay(Serial!After(steps, n, input)).error = None
    <3>1. n - 1 \in 0 .. Len(steps) /\ n \in 0 .. Len(steps)
      BY <1>3
    <3>2. /\ MayEmit(FoldBook(NextBook(req[d], Flat(Prefix(steps, n - 1)))).state, steps[n])
          /\ FoldBook(NextBook(req[d], Flat(Prefix(steps, n)))).error = None
      BY <1>2 DEF DecidedBy
    <3>3. QED
      BY <2>4, <3>1, <3>2
  <2>7. log' = Serial!After(steps, Len(steps), input)
    <3>1. Len(steps) \in 0 .. Len(steps)
      BY <1>3
    <3>2. Serial!After(steps, Len(steps), input) =
          log \o Stamped(req[d], Flat(Prefix(steps, Len(steps))))
      BY <2>3, <3>1
    <3>3. QED
      BY <1>1, <1>2, <1>3, <3>2
  <2>8. steps \in Serial!Decisions
    <3>1. Len(steps) \in 1 .. MaxSteps
      <4>1. Len(steps) \in Nat \ {0}
        BY <1>3, <1>5, EmptySeq
      <4>2. MaxSteps \in Nat
        BY HandleAssumption
      <4>3. QED
        BY <1>2, <4>1, <4>2
    <3>2. steps \in [1 .. Len(steps) -> Emissions]
      BY <1>3, LenProperties
    <3>3. QED
      BY <3>1, <3>2 DEF Serial!Decisions
  <2>9. Serial!Decide(input, steps)
    BY <2>5, <2>6, <2>7 DEF Serial!Decide
  <2>10. QED
    BY <2>1, <2>8, <2>9 DEF Serial!Next
<1>6. QED
  BY <1>4, <1>5

(* Nothing else touches the log.                                           *)
LEMMA SerialStep ==
  ASSUME SerialInv, [StreamNext]_streamVars
  PROVE  [Serial!Next]_log
<1>1. (\E d \in Dispatches : Record(d)) \/ UNCHANGED log
  BY DEF StreamNext, Send, Duplicate, Load, Run, Panic, End, LoseRace, Fail,
         WriteSnapshot, Crash, streamVars, store
<1>2. QED
  BY <1>1, RecordDecides

(* Races, retries, crashes, lost answers, snapshots and the codec do not   *)
(* show: what a stream records is a sequence of decisions, each of one     *)
(* input, made at most once and whole, every step of it on the replay of   *)
(* all that is before.                                                     *)
THEOREM StreamIsSerial == NoneIsNoSnapshot /\ StreamSpec => ImplementsSerial
<1>1. NoneIsNoSnapshot /\ StreamInit => SerialInv
  BY SerialInitInv
<1>2. StreamInit => Serial!Init
  BY DEF StreamInit, Serial!Init
<1>3. SerialInv /\ [StreamNext]_streamVars => [Serial!Next]_log
  BY SerialStep
<1>4. QED
  BY <1>1, <1>2, <1>3, SerialNextInv, PTL DEF StreamSpec, ImplementsSerial, Serial!Spec

=============================================================================
