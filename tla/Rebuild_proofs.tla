--------------------------- MODULE Rebuild_proofs ---------------------------
(***************************************************************************)
(* What a fold of pages is, for every business code: the facts about       *)
(* Rebuild's recursive function that Handle and the streams built on it    *)
(* rest on, each proved by induction on the number of pages folded; and    *)
(* first what an error is, which every component's proofs rest on.         *)
(***************************************************************************)
EXTENDS Rebuild, TLAPS, WellFoundedInduction

-----------------------------------------------------------------------------
(* What leaves the router as an error, whatever error business code made.  *)

(* An error that is no answer: nothing is refused, and no re-run is asked  *)
(* for.                                                                    *)
Defects ==
  {e \in CodedErrors : /\ e.refusal = None
                       /\ e.grpc \notin BusinessStatuses \cup {"ABORTED"}}

(* An error under one of the router's own keys is a defect.                *)
LEMMA KeyedIsDefect ==
  ASSUME NEW reason \in Reasons, NEW cause \in Seq(Reasons \cup Keys)
  PROVE  Keyed(reason, cause) \in Defects
<1> DEFINE grpc == Surface(reason)
<1>1. /\ grpc \in GrpcCodes
      /\ grpc \notin BusinessStatuses \cup {"ABORTED"}
  BY DEF Surface, GrpcCodes, BusinessStatuses
<1> HIDE DEF grpc
<1>2. Keyed(reason, cause) =
        [code |-> reason, cause |-> cause, grpc |-> grpc, refusal |-> None]
  BY DEF Keyed, Coded, grpc
<1>3. QED
  BY <1>1, <1>2 DEF Defects, CodedErrors

(* A defect is an error, and no absent one.                                *)
LEMMA DefectsAreErrors == Defects \subseteq CodedErrors /\ None \notin Defects
BY ErrorsAssumption DEF Defects

(* So is a bug, whatever its cause.                                        *)
LEMMA BugIsDefect ==
  ASSUME NEW code \in Reasons \cup Keys, NEW cause \in Seq(Reasons \cup Keys)
  PROVE  Bug(code, cause) \in Defects
<1>1. "UNHANDLED_HANDLER_ERROR" \in Reasons
  BY DEF Reasons
<1>2. <<code>> \o cause \in Seq(Reasons \cup Keys)
  OBVIOUS
<1>3. QED
  BY <1>1, <1>2, KeyedIsDefect DEF Bug

(* Whatever way business code fails, what comes of it is an error.         *)
LEMMA CallHandlerIsError ==
  ASSUME NEW failure \in FailureKinds
  PROVE  CallHandler(failure) \in CodedErrors
<1>1. CASE failure.kind = "coded"
  BY <1>1 DEF CallHandler, FailureKinds
<1>2. /\ "UNHANDLED_HANDLER_ERROR" \in Reasons
      /\ "HANDLER_PANICKED" \in Reasons \cup Keys
      /\ <<>> \in Seq(Reasons \cup Keys)
  BY DEF Reasons
<1>3. CASE failure.kind = "other"
  <2>1. Unhandled \in CodedErrors
    BY <1>2, KeyedIsDefect, DefectsAreErrors DEF Unhandled
  <2>2. QED
    BY <1>3, <2>1 DEF CallHandler
<1>4. CASE failure.kind = "panic"
  <2>1. Panicked \in CodedErrors
    BY <1>2, BugIsDefect, DefectsAreErrors DEF Panicked
  <2>2. QED
    BY <1>4, <2>1 DEF CallHandler
<1>5. QED
  BY <1>1, <1>3, <1>4 DEF FailureKinds

(* Whatever a fact's decision fails with, what is answered does not refuse *)
(* and does not ask for a re-run.                                          *)
LEMMA FactFailureIsDefect ==
  ASSUME NEW e \in CodedErrors
  PROVE  AsFactFailure(e) \in Defects
<1>1. Bug(e.code, e.cause) \in Defects
  BY BugIsDefect DEF CodedErrors
<1>2. QED
  BY <1>1 DEF AsFactFailure, Defects

-----------------------------------------------------------------------------
(* Induction, as a fact about sets (so that no operator is instantiated).  *)

LEMMA NatOrder ==
  \E R : /\ IsWellFoundedOn(R, Nat)
         /\ \A x, y \in Nat : x < y => <<x, y>> \in R
<1> DEFINE R == OpToRel(<, Nat)
<1>1. IsWellFoundedOn(R, Nat)
  BY NatLessThanWellFounded
<1>2. \A x, y \in Nat : x < y => <<x, y>> \in R
  BY DEF OpToRel
<1> HIDE DEF R
<1>3. QED
  BY <1>1, <1>2

(* A set of naturals that holds 0 and each successor is all of them.       *)
LEMMA SetInduction ==
  ASSUME NEW S, 0 \in S, \A n \in Nat : n \in S => n + 1 \in S
  PROVE  \A n \in Nat : n \in S
<1> DEFINE T == Nat \ S
<1>1. PICK R : /\ IsWellFoundedOn(R, Nat)
               /\ \A x, y \in Nat : x < y => <<x, y>> \in R
  BY NatOrder
<1>2. SUFFICES ASSUME T # {} PROVE FALSE
  OBVIOUS
<1>3. PICK x \in T : \A y \in T : ~ (<<y, x>> \in R)
  <2>1. T \subseteq Nat /\ T # {}
    BY <1>2
  <2>2. IsWellFoundedOn(R, Nat)
    BY <1>1
  <2> HIDE DEF T
  <2>3. QED
    BY <2>1, <2>2, WFMin
<1>4. x - 1 \in Nat
  OBVIOUS
<1>5. x - 1 \in T
  BY <1>4
<1>6. <<x - 1, x>> \in R
  BY <1>1, <1>4
<1>7. QED
  BY <1>3, <1>5, <1>6

-----------------------------------------------------------------------------
(* The run of a fold.                                                      *)

(* The recursive definition of FoldRun defines what it says.               *)
LEMMA FoldRunDef ==
  ASSUME NEW start, NEW pages, NEW cover, NEW origin, Len(pages) \in Nat
  PROVE  LET run == FoldRun(start, pages, cover, origin)
         IN  run = [i \in 0 .. Len(pages) |->
                      IF i = 0 THEN start
                      ELSE FoldPage(run[i - 1], pages[i], cover, origin)]
<1> DEFINE Is(h, n) == h = [i \in 0 .. n |->
                              IF i = 0 THEN start
                              ELSE FoldPage(h[i - 1], pages[i], cover, origin)]
           S == {n \in Nat : \E h : Is(h, n)}
<1>1. 0 \in S
  <2>1. Is([i \in 0 .. 0 |-> start], 0)
    OBVIOUS
  <2>2. \E f : Is(f, 0)
    <3> HIDE DEF Is
    <3>1. QED
      BY <2>1
  <2>3. QED
    <3> HIDE DEF Is
    <3>1. QED
      BY <2>2
<1>2. ASSUME NEW n \in Nat, n \in S
      PROVE  n + 1 \in S
  <2>1. PICK h : Is(h, n)
    BY <1>2
  <2> DEFINE g == [i \in 0 .. n + 1 |->
                     IF i = n + 1 THEN FoldPage(h[n], pages[n + 1], cover, origin)
                     ELSE h[i]]
  <2>2. \A i \in 0 .. n : g[i] = h[i]
    OBVIOUS
  <2>3. \A i \in 0 .. n + 1 :
          g[i] = IF i = 0 THEN start
                 ELSE FoldPage(g[i - 1], pages[i], cover, origin)
    <3> SUFFICES ASSUME NEW i \in 0 .. n + 1
                 PROVE  g[i] = IF i = 0 THEN start
                               ELSE FoldPage(g[i - 1], pages[i], cover, origin)
      OBVIOUS
    <3>1. CASE i = n + 1
      <4>1. g[i - 1] = h[n] /\ i # 0
        BY <3>1, <2>2
      <4>2. QED
        BY <3>1, <4>1
    <3>2. CASE i \in 0 .. n
      <4>1. g[i] = h[i] /\ (i # 0 => g[i - 1] = h[i - 1])
        BY <3>2, <2>2
      <4>2. h[i] = IF i = 0 THEN start
                   ELSE FoldPage(h[i - 1], pages[i], cover, origin)
        BY <3>2, <2>1
      <4>3. QED
        BY <4>1, <4>2
    <3>3. QED
      BY <3>1, <3>2
  <2>4. Is(g, n + 1)
    BY <2>3
  <2>5. \E f : Is(f, n + 1)
    <3> HIDE DEF Is, g
    <3>1. QED
      BY <2>4
  <2>6. QED
    <3> HIDE DEF Is
    <3>1. QED
      BY <2>5
<1>3. Len(pages) \in S
  <2> HIDE DEF S
  <2>1. QED
    BY <1>1, <1>2, SetInduction
<1>4. QED
  BY <1>3 DEF FoldRun

LEMMA FoldRunSteps ==
  ASSUME NEW start, NEW pages, NEW cover, NEW origin, Len(pages) \in Nat
  PROVE  /\ FoldRun(start, pages, cover, origin)[0] = start
         /\ \A i \in 0 .. Len(pages) - 1 :
              FoldRun(start, pages, cover, origin)[i + 1] =
                FoldPage(FoldRun(start, pages, cover, origin)[i],
                         pages[i + 1], cover, origin)
<1> DEFINE run == FoldRun(start, pages, cover, origin)
<1>1. run = [i \in 0 .. Len(pages) |->
               IF i = 0 THEN start
               ELSE FoldPage(run[i - 1], pages[i], cover, origin)]
  BY FoldRunDef
<1> HIDE DEF run
<1>2. run[0] = start
  BY <1>1
<1>3. ASSUME NEW i \in 0 .. Len(pages) - 1
      PROVE  run[i + 1] = FoldPage(run[i], pages[i + 1], cover, origin)
  <2>1. i + 1 \in 0 .. Len(pages) /\ i + 1 # 0 /\ (i + 1) - 1 = i
    OBVIOUS
  <2>2. QED
    BY <1>1, <2>1
<1>4. QED
  BY <1>2, <1>3 DEF run

-----------------------------------------------------------------------------
(* Folding a book in two parts is folding it in one.                       *)

LEMMA FoldRunPrefix ==
  ASSUME NEW start, NEW cover, NEW origin, NEW S,
         NEW a \in Seq(S), NEW b \in Seq(S)
  PROVE  \A i \in Nat : i <= Len(a) =>
           FoldRun(start, a \o b, cover, origin)[i] =
           FoldRun(start, a, cover, origin)[i]
<1> DEFINE f == FoldRun(start, a \o b, cover, origin)
           g == FoldRun(start, a, cover, origin)
           I == {i \in Nat : i <= Len(a) => f[i] = g[i]}
<1>1. /\ Len(a \o b) = Len(a) + Len(b) /\ Len(a) \in Nat /\ Len(b) \in Nat
      /\ \A i \in 1 .. Len(a) : (a \o b)[i] = a[i]
  OBVIOUS
<1>2. /\ f[0] = start
      /\ \A i \in 0 .. Len(a) + Len(b) - 1 :
           f[i + 1] = FoldPage(f[i], (a \o b)[i + 1], cover, origin)
  <2> DEFINE ab == a \o b
  <2>1. Len(ab) = Len(a) + Len(b) /\ Len(ab) \in Nat
    BY <1>1
  <2> HIDE DEF ab
  <2>2. /\ FoldRun(start, ab, cover, origin)[0] = start
        /\ \A i \in 0 .. Len(ab) - 1 :
             FoldRun(start, ab, cover, origin)[i + 1] =
               FoldPage(FoldRun(start, ab, cover, origin)[i], ab[i + 1], cover, origin)
    BY <2>1, FoldRunSteps
  <2>3. QED
    BY <2>1, <2>2 DEF ab
<1>3. /\ g[0] = start
      /\ \A i \in 0 .. Len(a) - 1 :
           g[i + 1] = FoldPage(g[i], a[i + 1], cover, origin)
  BY <1>1, FoldRunSteps
<1> HIDE DEF f, g
<1>4. 0 \in I
  BY <1>2, <1>3
<1>5. ASSUME NEW i \in Nat, i \in I
      PROVE  i + 1 \in I
  <2>1. SUFFICES ASSUME i + 1 <= Len(a)
                 PROVE  f[i + 1] = g[i + 1]
    OBVIOUS
  <2>2. f[i] = g[i] /\ (a \o b)[i + 1] = a[i + 1]
    BY <1>1, <1>5, <2>1
  <2>3. f[i + 1] = FoldPage(f[i], (a \o b)[i + 1], cover, origin)
    BY <1>1, <1>2, <2>1
  <2>4. g[i + 1] = FoldPage(g[i], a[i + 1], cover, origin)
    BY <1>1, <1>3, <2>1
  <2>5. QED
    BY <2>2, <2>3, <2>4
<1>6. \A i \in Nat : i \in I
  <2> HIDE DEF I
  <2>1. QED
    BY <1>4, <1>5, SetInduction
<1>7. QED
  BY <1>6 DEF f, g

(* Folding a concatenation of pages is folding the first and then the      *)
(* second onto what it came to: a fact of every left fold, by which what   *)
(* `decide` folds step by step is compared with what a replay folds.       *)
LEMMA ApplyPagesConcat ==
  ASSUME NEW start, NEW cover, NEW origin, NEW S,
         NEW a \in Seq(S), NEW b \in Seq(S)
  PROVE  ApplyPages(start, a \o b, cover, origin) =
         ApplyPages(ApplyPages(start, a, cover, origin), b, cover, origin)
<1> DEFINE f == FoldRun(start, a \o b, cover, origin)
           m == FoldRun(start, a, cover, origin)[Len(a)]
           g == FoldRun(m, b, cover, origin)
           I == {k \in Nat : k <= Len(b) => f[Len(a) + k] = g[k]}
<1>1. /\ Len(a \o b) = Len(a) + Len(b) /\ Len(a) \in Nat /\ Len(b) \in Nat
      /\ \A k \in 1 .. Len(b) : (a \o b)[Len(a) + k] = b[k]
  OBVIOUS
<1>2. \A i \in 0 .. Len(a) + Len(b) - 1 :
        f[i + 1] = FoldPage(f[i], (a \o b)[i + 1], cover, origin)
  <2> DEFINE ab == a \o b
  <2>1. Len(ab) = Len(a) + Len(b) /\ Len(ab) \in Nat
    BY <1>1
  <2> HIDE DEF ab
  <2>2. \A i \in 0 .. Len(ab) - 1 :
          FoldRun(start, ab, cover, origin)[i + 1] =
            FoldPage(FoldRun(start, ab, cover, origin)[i], ab[i + 1], cover, origin)
    BY <2>1, FoldRunSteps
  <2>3. QED
    BY <2>1, <2>2 DEF ab
<1>3. /\ g[0] = m
      /\ \A k \in 0 .. Len(b) - 1 :
           g[k + 1] = FoldPage(g[k], b[k + 1], cover, origin)
  BY <1>1, FoldRunSteps
<1>4. f[Len(a)] = m
  BY <1>1, FoldRunPrefix
<1> HIDE DEF f, g, m
<1>5. 0 \in I
  BY <1>1, <1>3, <1>4
<1>6. ASSUME NEW k \in Nat, k \in I
      PROVE  k + 1 \in I
  <2>1. SUFFICES ASSUME k + 1 <= Len(b)
                 PROVE  f[Len(a) + (k + 1)] = g[k + 1]
    OBVIOUS
  <2>2. f[Len(a) + k] = g[k] /\ (a \o b)[Len(a) + (k + 1)] = b[k + 1]
    BY <1>1, <1>6, <2>1
  <2>3. f[(Len(a) + k) + 1] =
          FoldPage(f[Len(a) + k], (a \o b)[(Len(a) + k) + 1], cover, origin)
    BY <1>1, <1>2, <2>1
  <2>4. g[k + 1] = FoldPage(g[k], b[k + 1], cover, origin)
    BY <1>1, <1>3, <2>1
  <2>5. Len(a) + (k + 1) = (Len(a) + k) + 1
    BY <1>1
  <2>6. QED
    BY <2>2, <2>3, <2>4, <2>5
<1>7. \A k \in Nat : k \in I
  <2> HIDE DEF I
  <2>1. QED
    BY <1>5, <1>6, SetInduction
<1>8. f[Len(a) + Len(b)] = g[Len(b)]
  BY <1>1, <1>7
<1>9. QED
  BY <1>1, <1>8 DEF ApplyPages, f, g, m

(* No pages fold to what the fold started from.                            *)
LEMMA ApplyPagesNone ==
  ASSUME NEW start, NEW cover, NEW origin
  PROVE  ApplyPages(start, <<>>, cover, origin) = start
<1> DEFINE none == <<>>
<1>1. Len(none) = 0
  OBVIOUS
<1> HIDE DEF none
<1>2. FoldRun(start, none, cover, origin)[0] = start
  BY <1>1, FoldRunSteps
<1>3. QED
  BY <1>1, <1>2 DEF ApplyPages, none

(* A fold that has failed stays as it failed, whatever pages are left.      *)
LEMMA FailedFoldStays ==
  ASSUME NEW start, start.error # None, NEW pages, Len(pages) \in Nat,
         NEW cover, NEW origin
  PROVE  ApplyPages(start, pages, cover, origin) = start
<1> DEFINE f == FoldRun(start, pages, cover, origin)
           I == {i \in Nat : i <= Len(pages) => f[i] = start}
<1>1. /\ f[0] = start
      /\ \A i \in 0 .. Len(pages) - 1 :
           f[i + 1] = FoldPage(f[i], pages[i + 1], cover, origin)
  BY FoldRunSteps
<1> HIDE DEF f
<1>2. 0 \in I
  BY <1>1
<1>3. ASSUME NEW i \in Nat, i \in I
      PROVE  i + 1 \in I
  <2>1. SUFFICES ASSUME i + 1 <= Len(pages)
                 PROVE  f[i + 1] = start
    OBVIOUS
  <2>2. f[i] = start /\ f[i + 1] = FoldPage(f[i], pages[i + 1], cover, origin)
    BY <1>1, <1>3, <2>1
  <2>3. QED
    BY <2>2 DEF FoldPage
<1>4. \A i \in Nat : i \in I
  <2> HIDE DEF I
  <2>1. QED
    BY <1>2, <1>3, SetInduction
<1>5. f[Len(pages)] = start
  BY <1>4
<1>6. QED
  BY <1>5 DEF ApplyPages, f

-----------------------------------------------------------------------------
(* What a fold comes to: a state or an error of the fold, and a fold that  *)
(* does not fail comes to the same whoever asked for it.                   *)

FoldErrors ==
  {e \in Defects :
     e.code \in {"FOLD_FAILED", "FOLD_FAILED_EMITTED", "PERSISTED_EVENT_CORRUPT"}}

IsRun(run) ==
  /\ run = [state |-> run.state, error |-> run.error]
  /\ run.error \in FoldErrors \cup {None}

LEMMA RunErrors ==
  ASSUME NEW run, IsRun(run)
  PROVE  run.error \in Defects \cup {None}
BY DEF IsRun, FoldErrors

LEMMA FoldFailedIsDefect ==
  ASSUME NEW origin
  PROVE  FoldFailed(OriginReason(origin), <<>>) \in FoldErrors \ {None}
<1>1. OriginReason(origin) \in Reasons
  BY DEF OriginReason, Reasons
<1>2. <<>> \in Seq(Reasons \cup Keys)
  OBVIOUS
<1>3. FoldFailed(OriginReason(origin), <<>>) \in Defects \ {None}
  BY <1>1, <1>2, KeyedIsDefect, DefectsAreErrors DEF FoldFailed
<1>4. FoldFailed(OriginReason(origin), <<>>).code \in {"FOLD_FAILED", "FOLD_FAILED_EMITTED"}
  BY DEF FoldFailed, Keyed, Coded, OriginReason
<1>5. QED
  BY <1>3, <1>4 DEF FoldErrors

LEMMA FoldPageIsRun ==
  ASSUME NEW run, IsRun(run), NEW page, NEW cover, NEW origin
  PROVE  IsRun(FoldPage(run, page, cover, origin))
BY FoldFailedIsDefect DEF IsRun, FoldPage, Ok, Failing

LEMMA ApplyPagesIsRun ==
  ASSUME NEW start, IsRun(start), NEW pages, Len(pages) \in Nat,
         NEW cover, NEW origin
  PROVE  IsRun(ApplyPages(start, pages, cover, origin))
<1> DEFINE f == FoldRun(start, pages, cover, origin)
           I == {i \in Nat : i <= Len(pages) => IsRun(f[i])}
<1>1. /\ f[0] = start
      /\ \A i \in 0 .. Len(pages) - 1 :
           f[i + 1] = FoldPage(f[i], pages[i + 1], cover, origin)
  BY FoldRunSteps
<1> HIDE DEF f
<1>2. 0 \in I
  BY <1>1
<1>3. ASSUME NEW i \in Nat, i \in I
      PROVE  i + 1 \in I
  <2>1. SUFFICES ASSUME i + 1 <= Len(pages)
                 PROVE  IsRun(f[i + 1])
    OBVIOUS
  <2>2. IsRun(f[i]) /\ f[i + 1] = FoldPage(f[i], pages[i + 1], cover, origin)
    BY <1>1, <1>3, <2>1
  <2>3. QED
    BY <2>2, FoldPageIsRun
<1>4. \A i \in Nat : i \in I
  <2> HIDE DEF I
  <2>1. QED
    BY <1>2, <1>3, SetInduction
<1>5. IsRun(f[Len(pages)])
  BY <1>4
<1>6. QED
  BY <1>5 DEF ApplyPages, f

(* A page folded without failing: nothing failed before it, and its origin *)
(* does not matter.                                                        *)
LEMMA FoldPageOrigin ==
  ASSUME NEW run, NEW page, NEW cover, NEW o1, NEW o2,
         FoldPage(run, page, cover, o1).error = None
  PROVE  /\ run.error = None
         /\ FoldPage(run, page, cover, o2) = FoldPage(run, page, cover, o1)
BY FoldFailedIsDefect DEF FoldPage, Ok, Failing

LEMMA ApplyPagesOrigin ==
  ASSUME NEW start, NEW pages, Len(pages) \in Nat,
         NEW cover, NEW o1, NEW o2,
         ApplyPages(start, pages, cover, o1).error = None
  PROVE  ApplyPages(start, pages, cover, o2) = ApplyPages(start, pages, cover, o1)
<1> DEFINE f == FoldRun(start, pages, cover, o1)
           g == FoldRun(start, pages, cover, o2)
           I == {i \in Nat : i <= Len(pages) => (f[i].error = None => g[i] = f[i])}
<1>1. /\ f[0] = start
      /\ \A i \in 0 .. Len(pages) - 1 :
           f[i + 1] = FoldPage(f[i], pages[i + 1], cover, o1)
  BY FoldRunSteps
<1>2. /\ g[0] = start
      /\ \A i \in 0 .. Len(pages) - 1 :
           g[i + 1] = FoldPage(g[i], pages[i + 1], cover, o2)
  BY FoldRunSteps
<1> HIDE DEF f, g
<1>3. 0 \in I
  BY <1>1, <1>2
<1>4. ASSUME NEW i \in Nat, i \in I
      PROVE  i + 1 \in I
  <2>1. SUFFICES ASSUME i + 1 <= Len(pages), f[i + 1].error = None
                 PROVE  g[i + 1] = f[i + 1]
    OBVIOUS
  <2>2. /\ f[i + 1] = FoldPage(f[i], pages[i + 1], cover, o1)
        /\ g[i + 1] = FoldPage(g[i], pages[i + 1], cover, o2)
    BY <1>1, <1>2, <2>1
  <2>3. /\ f[i].error = None
        /\ FoldPage(f[i], pages[i + 1], cover, o2) =
             FoldPage(f[i], pages[i + 1], cover, o1)
    BY <2>1, <2>2, FoldPageOrigin
  <2>4. g[i] = f[i]
    BY <1>4, <2>1, <2>3
  <2>5. QED
    BY <2>2, <2>3, <2>4
<1>5. \A i \in Nat : i \in I
  <2> HIDE DEF I
  <2>1. QED
    BY <1>3, <1>4, SetInduction
<1>6. f[Len(pages)].error = None
  BY DEF ApplyPages, f
<1>7. g[Len(pages)] = f[Len(pages)]
  BY <1>5, <1>6
<1>8. QED
  BY <1>7 DEF ApplyPages, f, g

=============================================================================
