-------------------------- MODULE Projector_proofs --------------------------
(***************************************************************************)
(* What a projector answers, for every business code and every run: of the *)
(* whole run, from a fresh projection, or the error its fold came to.      *)
(***************************************************************************)
EXTENDS Projector, Rebuild_proofs, SequenceTheorems

-----------------------------------------------------------------------------
(* A run folded in parts.                                                  *)

(* What the first n pages of a run come to.                                *)
FoldedTo(r, n) ==
  ApplyPages(Ok(Fresh), SubSeq(r.pages, 1, n), CoverOf(r), "persisted")

(* Folding the pages after the first n onto what those came to is folding  *)
(* one part of the run.                                                    *)
LEMMA FoldsInParts ==
  ASSUME NEW r, r.pages \in Seq(Elements(r.pages)),
         NEW n \in 0 .. Len(r.pages), NEW m \in n .. Len(r.pages)
  PROVE  ApplyPages(FoldedTo(r, n), SubSeq(r.pages, n + 1, m),
                    CoverOf(r), "persisted") = FoldedTo(r, m)
<1> DEFINE S == Elements(r.pages)
           a == SubSeq(r.pages, 1, n)
           b == SubSeq(r.pages, n + 1, m)
<1>1. r.pages \in Seq(S) /\ Len(r.pages) \in Nat
  OBVIOUS
<1>2. \A i \in 1 .. Len(r.pages) : r.pages[i] \in S
  BY DEF Elements
<1> HIDE DEF S
<1>3. a \in Seq(S) /\ b \in Seq(S)
  BY <1>1, <1>2, SubSeqProperties
<1>4. a \o b = SubSeq(r.pages, 1, m)
  <2>1. /\ 1 \in 1 .. Len(r.pages) + 1 /\ n \in 1 - 1 .. Len(r.pages)
        /\ m \in n .. Len(r.pages)
    BY <1>1
  <2>2. QED
    BY <1>1, <2>1, ConcatAdjacentSubSeq
<1> HIDE DEF a, b
<1>5. ApplyPages(Ok(Fresh), a \o b, CoverOf(r), "persisted") =
      ApplyPages(ApplyPages(Ok(Fresh), a, CoverOf(r), "persisted"),
                 b, CoverOf(r), "persisted")
  BY <1>3, ApplyPagesConcat
<1>6. QED
  BY <1>4, <1>5 DEF FoldedTo, a, b

(* All of a run folded is what it comes to; a part that fails has failed   *)
(* all of it.                                                              *)
LEMMA FailsAsAWhole ==
  ASSUME NEW r, r.pages \in Seq(Elements(r.pages)), Consumes(r)
  PROVE  /\ FoldedTo(r, 0) = Ok(Fresh)
         /\ FoldedTo(r, Len(r.pages)) = Projected(r)
         /\ \A m \in 0 .. Len(r.pages) :
              FoldedTo(r, m).error # None => Projected(r) = FoldedTo(r, m)
<1>1. FoldedTo(r, 0) = Ok(Fresh)
  <2>1. SubSeq(r.pages, 1, 0) = <<>>
    BY SubSeqEmpty
  <2>2. QED
    BY <2>1, ApplyPagesNone DEF FoldedTo
<1>2. FoldedTo(r, Len(r.pages)) = Projected(r)
  BY SubSeqFull DEF FoldedTo, Projected
<1>3. ASSUME NEW m \in 0 .. Len(r.pages), FoldedTo(r, m).error # None
      PROVE  Projected(r) = FoldedTo(r, m)
  <2> DEFINE rest == SubSeq(r.pages, m + 1, Len(r.pages))
             start == FoldedTo(r, m)
  <2>1. Len(r.pages) \in Nat /\ Len(r.pages) \in m .. Len(r.pages)
    OBVIOUS
  <2>2. ApplyPages(start, rest, CoverOf(r), "persisted") = Projected(r)
    BY <1>2, <2>1, FoldsInParts
  <2>3. Len(rest) \in Nat
    <3>1. \A i \in m + 1 .. Len(r.pages) : r.pages[i] \in Elements(r.pages)
      BY DEF Elements
    <3>2. rest \in Seq(Elements(r.pages))
      BY <2>1, <3>1, SubSeqProperties
    <3>3. QED
      BY <3>2
  <2>4. start.error # None
    BY <1>3
  <2> HIDE DEF rest, start
  <2>5. ApplyPages(start, rest, CoverOf(r), "persisted") = start
    BY <2>3, <2>4, FailedFoldStays
  <2>6. QED
    BY <2>2, <2>5 DEF start
<1>4. QED
  BY <1>1, <1>2, <1>3

(* A batch is the pages after those folded, up to some later one.          *)
LEMMA BatchIsNext ==
  ASSUME NEW d, run[d].pages \in Seq(Elements(run[d].pages)),
         folded[d] \in 0 .. Len(run[d].pages), folded[d] < Len(run[d].pages)
  PROVE  \E m \in folded[d] + 1 .. Len(run[d].pages) :
           /\ Batch(d) = SubSeq(run[d].pages, folded[d] + 1, m)
           /\ folded[d] + Len(Batch(d)) = m
<1> DEFINE pages == run[d].pages
           n == folded[d]
           S == Elements(pages)
<1>1. /\ pages \in Seq(S) /\ Len(pages) \in Nat
      /\ n \in Nat /\ n < Len(pages)
  OBVIOUS
<1>2. \A i \in 1 .. Len(pages) : pages[i] \in S
  BY DEF Elements
<1>3. Batch(d) = IF Batched THEN SubSeq(pages, n + 1, Len(pages))
                 ELSE <<pages[n + 1]>>
  BY DEF Batch
<1> HIDE DEF pages, n, S
<1>4. ASSUME NEW m \in n + 1 .. Len(pages)
      PROVE  n + Len(SubSeq(pages, n + 1, m)) = m
  <2>1. \A i \in n + 1 .. m : pages[i] \in S
    BY <1>1, <1>2
  <2>2. Len(SubSeq(pages, n + 1, m)) = m - (n + 1) + 1
    BY <1>1, <2>1, SubSeqProperties
  <2>3. QED
    BY <1>1, <2>2
<1>5. CASE Batched
  <2>1. Len(pages) \in n + 1 .. Len(pages)
    BY <1>1
  <2>2. QED
    BY <1>3, <1>4, <1>5, <2>1 DEF pages, n
<1>6. CASE ~ Batched
  <2>1. n + 1 \in n + 1 .. Len(pages) /\ n + 1 \in 1 .. Len(pages)
    BY <1>1
  <2>2. SubSeq(pages, n + 1, n + 1) = <<pages[n + 1]>>
    <3>1. SubSeq(pages, n + 1, n + 1) =
            <<pages[n + 1]>> \o SubSeq(pages, (n + 1) + 1, n + 1)
      BY <1>1, <2>1, SubSeqRecursiveFirst
    <3>2. SubSeq(pages, (n + 1) + 1, n + 1) = <<>>
      BY <1>1, SubSeqEmpty
    <3>3. <<pages[n + 1]>> \in Seq(S)
      BY <1>2, <2>1
    <3>4. QED
      BY <3>1, <3>2, <3>3, ConcatEmptySeq
  <2>3. QED
    BY <1>3, <1>4, <1>6, <2>1, <2>2 DEF pages, n
<1>7. QED
  BY <1>5, <1>6

-----------------------------------------------------------------------------
(* The inductive invariant.                                                *)

Places == {"idle", "start", "fold", "finish", "answered", "unwound"}

(* While a run folds, the projection is what the pages folded so far come  *)
(* to, and none of them failed; once they all are, it is the run's; and an *)
(* answer is of the run.                                                   *)
ProjectionOK(d) ==
  /\ pc[d] # "idle" => run[d].pages \in Seq(Elements(run[d].pages))
  /\ pc[d] = "fold" =>
       /\ Consumes(run[d])
       /\ folded[d] \in 0 .. Len(run[d].pages)
       /\ projection[d] = FoldedTo(run[d], folded[d])
  /\ pc[d] \in {"fold", "finish"} => projection[d].error = None
  /\ pc[d] = "finish" => projection[d] = Projected(run[d])
  /\ pc[d] = "answered" =>
       /\ Projected(run[d]).error # None =>
            answer[d].error = Projected(run[d]).error
       /\ answer[d].error = None =>
            answer[d].projection =
              IF Finishes THEN Encoded(Projected(run[d]).state) ELSE None

Shape ==
  /\ pc \in [Dispatches -> Places]
  /\ run = [d \in Dispatches |-> run[d]]
  /\ projection = [d \in Dispatches |-> projection[d]]
  /\ folded = [d \in Dispatches |-> folded[d]]
  /\ answer = [d \in Dispatches |-> answer[d]]

ProjectorInv == Shape /\ \A d \in Dispatches : ProjectionOK(d)

(* What one dispatch does leaves every other as it is.                     *)
Same(d) ==
  /\ pc'[d] = pc[d] /\ run'[d] = run[d] /\ projection'[d] = projection[d]
  /\ folded'[d] = folded[d] /\ answer'[d] = answer[d]

LEMMA SameKeeps ==
  ASSUME NEW d \in Dispatches, ProjectionOK(d), Same(d)
  PROVE  ProjectionOK(d)'
BY DEF ProjectionOK, Same, FoldedTo, Projected

LEMMA InitProjectorInv == Init => ProjectorInv
BY DEF Init, ProjectorInv, Shape, Places, ProjectionOK

LEMMA NextProjectorInv == ProjectorInv /\ [Next]_vars => ProjectorInv'
<1> SUFFICES ASSUME ProjectorInv, [Next]_vars PROVE ProjectorInv'
  OBVIOUS
<1>1. Shape /\ \A d \in Dispatches : ProjectionOK(d)
  BY DEF ProjectorInv
<1>2. ASSUME NEW d \in Dispatches, Shape', ProjectionOK(d)',
             \A c \in Dispatches \ {d} : Same(c)
      PROVE  ProjectorInv'
  BY <1>1, <1>2, SameKeeps DEF ProjectorInv
<1>3. ASSUME NEW d \in Dispatches, NEW r \in Runs, Project(d, r)
      PROVE  ProjectorInv'
  <2>1. r.pages \in Seq(Elements(r.pages))
    BY ProjectorAssumption
  <2>2. Shape' /\ \A c \in Dispatches \ {d} : Same(c)
    BY <1>1, <1>3 DEF Project, Goto, Shape, Places, Same
  <2>3. pc'[d] = "start" /\ run'[d] = r
    BY <1>1, <1>3 DEF Project, Goto, Shape
  <2>4. ProjectionOK(d)'
    BY <2>1, <2>3 DEF ProjectionOK
  <2>5. QED
    BY <1>2, <2>2, <2>4
<1>4. ASSUME NEW d \in Dispatches, Start(d)
      PROVE  ProjectorInv'
  <2> DEFINE r == run[d]
  <2>1. r.pages \in Seq(Elements(r.pages))
    BY <1>1, <1>4 DEF Start, ProjectionOK
  <2>2. Shape' /\ \A c \in Dispatches \ {d} : Same(c)
    BY <1>1, <1>4 DEF Start, Goto, Shape, Places, Same
  <2>3. /\ pc'[d] = IF Consumes(r) THEN "fold" ELSE "finish"
        /\ run'[d] = r /\ projection'[d] = Ok(Fresh) /\ folded'[d] = 0
    BY <1>1, <1>4 DEF Start, Goto, Shape
  <2>4. Ok(Fresh).error = None
    BY DEF Ok
  <2>5. CASE Consumes(r)
    <3>1. 0 \in 0 .. Len(r.pages)
      BY <2>1
    <3>2. FoldedTo(r, 0) = Ok(Fresh)
      BY <2>1, <2>5, FailsAsAWhole
    <3> HIDE DEF r
    <3>3. ProjectionOK(d)'
      BY <2>1, <2>3, <2>4, <2>5, <3>1, <3>2 DEF ProjectionOK, FoldedTo
    <3>4. QED
      BY <1>2, <2>2, <3>3
  <2>6. CASE ~ Consumes(r)
    <3>1. Projected(r) = Ok(Fresh)
      BY <2>6 DEF Projected
    <3> HIDE DEF r
    <3>2. ProjectionOK(d)'
      BY <2>1, <2>3, <2>4, <2>6, <3>1 DEF ProjectionOK, Projected
    <3>3. QED
      BY <1>2, <2>2, <3>2
  <2>7. QED
    BY <2>5, <2>6
<1>5. ASSUME NEW d \in Dispatches, Fold(d)
      PROVE  ProjectorInv'
  <2> DEFINE r == run[d]
             now == ApplyPages(projection[d], Batch(d), CoverOf(run[d]), "persisted")
  <2>1. /\ r.pages \in Seq(Elements(r.pages)) /\ Consumes(r)
        /\ folded[d] \in 0 .. Len(r.pages) /\ folded[d] < Len(r.pages)
        /\ projection[d] = FoldedTo(r, folded[d])
    BY <1>1, <1>5 DEF Fold, ProjectionOK
  <2>2. PICK m \in folded[d] + 1 .. Len(r.pages) :
          /\ Batch(d) = SubSeq(r.pages, folded[d] + 1, m)
          /\ folded[d] + Len(Batch(d)) = m
    BY <2>1, BatchIsNext
  <2>3. m \in folded[d] .. Len(r.pages) /\ m \in 0 .. Len(r.pages)
    BY <2>1, <2>2
  <2>4. now = FoldedTo(r, m)
    <3> DEFINE n == folded[d]
    <3>1. n \in 0 .. Len(r.pages) /\ m \in n .. Len(r.pages)
      BY <2>1, <2>3
    <3> HIDE DEF n
    <3>2. ApplyPages(FoldedTo(r, n), SubSeq(r.pages, n + 1, m), CoverOf(r),
                     "persisted") = FoldedTo(r, m)
      <4> HIDE DEF r
      <4>1. QED
        BY <2>1, <3>1, FoldsInParts
    <3>3. QED
      BY <2>1, <2>2, <3>2 DEF n
  <2>5. now.error # None => Projected(r) = now
    BY <2>1, <2>3, <2>4, FailsAsAWhole
  <2>6. CASE now.error # None
    <3> DEFINE wrong == [error |-> now.error, projection |-> None]
    <3>1. /\ pc' = [pc EXCEPT ![d] = "answered"]
          /\ answer' = [answer EXCEPT ![d] = wrong]
          /\ UNCHANGED <<run, projection, folded>>
      BY <1>5, <2>6 DEF Fold, AnswerError, Goto
    <3>2. wrong.error = now.error
      OBVIOUS
    <3> HIDE DEF wrong, now
    <3>3. Shape' /\ \A c \in Dispatches \ {d} : Same(c)
      BY <1>1, <3>1 DEF Shape, Places, Same
    <3>4. pc'[d] = "answered" /\ run'[d] = r /\ answer'[d] = wrong
      BY <1>1, <3>1 DEF Shape
    <3> HIDE DEF r
    <3>5. ProjectionOK(d)'
      BY <2>1, <2>5, <2>6, <3>2, <3>4 DEF ProjectionOK, Projected
    <3>6. QED
      BY <1>2, <3>3, <3>5
  <2>7. CASE now.error = None
    <3>1. /\ projection' = [projection EXCEPT ![d] = now]
          /\ folded' = [folded EXCEPT ![d] = folded[d] + Len(Batch(d))]
          /\ UNCHANGED <<pc, run, answer>>
      BY <1>5, <2>7 DEF Fold
    <3> HIDE DEF now
    <3>2. Shape' /\ \A c \in Dispatches \ {d} : Same(c)
      BY <1>1, <3>1 DEF Shape, Same
    <3>3. /\ pc'[d] = "fold" /\ run'[d] = r
          /\ projection'[d] = now /\ folded'[d] = m
      BY <1>1, <1>5, <2>2, <3>1 DEF Shape, Fold
    <3> HIDE DEF r
    <3>4. ProjectionOK(d)'
      BY <2>1, <2>3, <2>4, <2>7, <3>3 DEF ProjectionOK, FoldedTo
    <3>5. QED
      BY <1>2, <3>2, <3>4
  <2>8. QED
    BY <2>6, <2>7
<1>6. ASSUME NEW d \in Dispatches, FoldedAll(d)
      PROVE  ProjectorInv'
  <2> DEFINE r == run[d]
  <2>1. Shape' /\ \A c \in Dispatches \ {d} : Same(c)
    BY <1>1, <1>6 DEF FoldedAll, Goto, Shape, Places, Same
  <2>2. /\ pc'[d] = "finish" /\ run'[d] = r /\ projection'[d] = projection[d]
        /\ r.pages \in Seq(Elements(r.pages)) /\ Consumes(r)
        /\ projection[d].error = None
        /\ projection[d] = FoldedTo(r, Len(r.pages))
    BY <1>1, <1>6 DEF FoldedAll, Goto, Shape, ProjectionOK
  <2> HIDE DEF r
  <2>3. projection[d] = Projected(r)
    BY <2>2, FailsAsAWhole
  <2>4. ProjectionOK(d)'
    BY <2>2, <2>3 DEF ProjectionOK, Projected
  <2>5. QED
    BY <1>2, <2>1, <2>4
<1>7. ASSUME NEW d \in Dispatches, Finish(d)
      PROVE  ProjectorInv'
  <2> DEFINE r == run[d]
             right == [error |-> None,
                       projection |-> IF Finishes THEN Encoded(projection[d].state)
                                      ELSE None]
  <2>1. right.projection = IF Finishes THEN Encoded(projection[d].state) ELSE None
    OBVIOUS
  <2>2. answer' = [answer EXCEPT ![d] = right]
    BY <1>7 DEF Finish
  <2> HIDE DEF right
  <2>3. Shape' /\ \A c \in Dispatches \ {d} : Same(c)
    BY <1>1, <1>7, <2>2 DEF Finish, Goto, Shape, Places, Same
  <2>4. /\ pc'[d] = "answered" /\ run'[d] = r /\ answer'[d] = right
        /\ r.pages \in Seq(Elements(r.pages))
        /\ projection[d] = Projected(r) /\ projection[d].error = None
    BY <1>1, <1>7, <2>2 DEF Finish, Goto, Shape, ProjectionOK
  <2> HIDE DEF r
  <2>5. ProjectionOK(d)'
    BY <2>1, <2>4 DEF ProjectionOK, Projected
  <2>6. QED
    BY <1>2, <2>3, <2>5
<1>8. ASSUME NEW d \in Dispatches, NEW failure \in Failures,
             FinishFails(d, failure)
      PROVE  ProjectorInv'
  <2> DEFINE r == run[d]
             e == CallHandler(failure)
             wrong == [error |-> e, projection |-> None]
  <2>1. e # None
    BY ProjectorAssumption, CallHandlerIsError, ErrorsAssumption
  <2>2. wrong.error = e
    OBVIOUS
  <2>3. answer' = [answer EXCEPT ![d] = wrong]
    BY <1>8 DEF FinishFails, AnswerError
  <2> HIDE DEF wrong, e
  <2>4. Shape' /\ \A c \in Dispatches \ {d} : Same(c)
    BY <1>1, <1>8, <2>3 DEF FinishFails, AnswerError, Goto, Shape, Places, Same
  <2>5. /\ pc'[d] = "answered" /\ run'[d] = r /\ answer'[d] = wrong
        /\ r.pages \in Seq(Elements(r.pages))
        /\ projection[d] = Projected(r) /\ projection[d].error = None
    BY <1>1, <1>8, <2>3 DEF FinishFails, AnswerError, Goto, Shape, ProjectionOK
  <2> HIDE DEF r
  <2>6. ProjectionOK(d)'
    BY <2>1, <2>2, <2>5 DEF ProjectionOK, Projected
  <2>7. QED
    BY <1>2, <2>4, <2>6
<1>9. ASSUME NEW d \in Dispatches, Unwind(d)
      PROVE  ProjectorInv'
  <2>1. Shape' /\ \A c \in Dispatches \ {d} : Same(c)
    BY <1>1, <1>9 DEF Unwind, Goto, Shape, Places, Same
  <2>2. /\ pc[d] # "idle" /\ pc'[d] = "unwound" /\ run'[d] = run[d]
    BY <1>1, <1>9 DEF Unwind, Goto, Shape
  <2>3. ProjectionOK(d)'
    BY <1>1, <2>2 DEF ProjectionOK
  <2>4. QED
    BY <1>2, <2>1, <2>3
<1>10. ASSUME NEW d \in Dispatches, Return(d)
       PROVE  ProjectorInv'
  <2>1. Shape' /\ \A c \in Dispatches \ {d} : Same(c)
    BY <1>1, <1>10 DEF Return, Goto, Shape, Places, Same
  <2>2. pc'[d] = "idle"
    BY <1>1, <1>10 DEF Return, Goto, Shape
  <2>3. ProjectionOK(d)'
    BY <2>2 DEF ProjectionOK
  <2>4. QED
    BY <1>2, <2>1, <2>3
<1>11. CASE UNCHANGED vars
  <2>1. Shape' /\ \A c \in Dispatches : Same(c)
    BY <1>1, <1>11 DEF vars, Shape, Same
  <2>2. QED
    BY <1>1, <2>1, SameKeeps DEF ProjectorInv
<1>12. QED
  BY <1>3, <1>4, <1>5, <1>6, <1>7, <1>8, <1>9, <1>10, <1>11 DEF Next, Step

(* An answer is of the whole run and of nothing else, for every business   *)
(* fold, per type or batched: a page that fails to fold, wherever it is in *)
(* the run, fails the run, and a finished projection is the run's.         *)
THEOREM AnswersAreOfTheWholeRun == Spec => []AnswersTheWholeRun
<1>1. ProjectorInv => AnswersTheWholeRun
  BY DEF ProjectorInv, ProjectionOK, AnswersTheWholeRun
<1>2. QED
  BY <1>1, InitProjectorInv, NextProjectorInv, PTL DEF Spec

=============================================================================
