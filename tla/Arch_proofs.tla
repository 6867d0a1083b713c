----------------------------- MODULE Arch_proofs ----------------------------
(***************************************************************************)
(* What archlint keeps: the matcher takes a pattern's language, a graph    *)
(* the rules accept keeps the layers the rules file draws, and a lint's    *)
(* graph and its answer are the source's and the rules', for every source, *)
(* every rules file and any names.                                         *)
(*                                                                         *)
(* The gate and the lint are two models: what one assumes of its constants *)
(* says nothing of the other's, but that the gate's names are spelled in   *)
(* Letters too.                                                            *)
(***************************************************************************)
EXTENDS ArchRules, ArchLint, TLAPS, WellFoundedInduction, SequenceTheorems, FiniteSetTheorems

-----------------------------------------------------------------------------
(* The matcher.                                                            *)

LEMMA NatOrder ==
  \E R : /\ IsWellFoundedOn(R, Nat)
         /\ \A x, y \in Nat : x < y => <<x, y>> \in R
<1> DEFINE R == OpToRel(<, Nat)
<1>1. IsWellFoundedOn(R, Nat)
  BY NatLessThanWellFounded
<1>2. \A x, y \in Nat : x < y => <<x, y>> \in R
  BY DEF OpToRel
<1> HIDE DEF R
<1>3. QED
  BY <1>1, <1>2

(* A set of naturals that holds 0 and each successor is all of them.       *)
LEMMA SetInduction ==
  ASSUME NEW S, 0 \in S, \A n \in Nat : n \in S => n + 1 \in S
  PROVE  \A n \in Nat : n \in S
<1> DEFINE T == Nat \ S
<1>1. PICK R : /\ IsWellFoundedOn(R, Nat)
               /\ \A x, y \in Nat : x < y => <<x, y>> \in R
  BY NatOrder
<1>2. SUFFICES ASSUME T # {} PROVE FALSE
  OBVIOUS
<1>3. PICK x \in T : \A y \in T : ~ (<<y, x>> \in R)
  <2>1. T \subseteq Nat /\ T # {}
    BY <1>2
  <2>2. IsWellFoundedOn(R, Nat)
    BY <1>1
  <2> HIDE DEF T
  <2>3. QED
    BY <2>1, <2>2, WFMin
<1>4. x - 1 \in Nat
  OBVIOUS
<1>5. x - 1 \in T
  BY <1>4
<1>6. <<x - 1, x>> \in R
  BY <1>1, <1>4
<1>7. QED
  BY <1>3, <1>5, <1>6

-----------------------------------------------------------------------------
(* A pattern of n elements and a path of m: those in `wild` take any run,  *)
(* another k the i-th if <<k, i>> is in `takes`.                           *)
Rest(at, k, n, m, wild, takes) ==
  IF k > n THEN {m + 1}
  ELSE {i \in 1 .. m + 1 : IF k \in wild THEN \E j \in at[k + 1] : i <= j
                           ELSE i <= m /\ <<k, i>> \in takes /\ i + 1 \in at[k + 1]}

IsTable(at, n, m, wild, takes) ==
  at = [k \in 1 .. n + 1 |-> Rest(at, k, n, m, wild, takes)]

(* A step of a cut: what element k has of the path.                        *)
CutStep(cut, k, wild, takes) ==
  IF k \in wild THEN cut[k] <= cut[k + 1]
  ELSE cut[k + 1] = cut[k] + 1 /\ <<k, cut[k + 1]>> \in takes

(* The path from its i-th on is cut for the pattern from its k-th on.      *)
IsCutFrom(cut, k, i, n, m, wild, takes) ==
  /\ cut \in [k .. n + 1 -> 0 .. m]
  /\ cut[k] = i - 1 /\ cut[n + 1] = m
  /\ \A h \in k .. n : CutStep(cut, h, wild, takes)

HasCut(k, i, n, m, wild, takes) ==
  \E cut : IsCutFrom(cut, k, i, n, m, wild, takes)

(* What follows an element is cut for the elements that follow it.         *)
LEMMA CutOfRest ==
  ASSUME NEW n \in Nat, NEW m \in Nat, NEW wild, NEW takes,
         NEW k \in 1 .. n, NEW i \in 1 .. m + 1,
         NEW cut, IsCutFrom(cut, k, i, n, m, wild, takes)
  PROVE  /\ cut[k + 1] + 1 \in 1 .. m + 1
         /\ HasCut(k + 1, cut[k + 1] + 1, n, m, wild, takes)
         /\ CutStep(cut, k, wild, takes) /\ cut[k] = i - 1
<1> DEFINE rest == [h \in k + 1 .. n + 1 |-> cut[h]]
<1>1. /\ cut \in [k .. n + 1 -> 0 .. m] /\ cut[k] = i - 1 /\ cut[n + 1] = m
      /\ \A h \in k .. n : CutStep(cut, h, wild, takes)
  BY DEF IsCutFrom
<1>2. cut[k + 1] \in 0 .. m /\ k + 1 \in k + 1 .. n + 1 /\ n + 1 \in k + 1 .. n + 1
  BY <1>1
<1>3. rest \in [k + 1 .. n + 1 -> 0 .. m]
  BY <1>1
<1>4. rest[k + 1] = (cut[k + 1] + 1) - 1 /\ rest[n + 1] = m
  BY <1>1, <1>2
<1>5. ASSUME NEW h \in k + 1 .. n
      PROVE  CutStep(rest, h, wild, takes)
  <2>1. rest[h] = cut[h] /\ rest[h + 1] = cut[h + 1]
    OBVIOUS
  <2>2. CutStep(cut, h, wild, takes)
    BY <1>1
  <2> HIDE DEF rest
  <2>3. QED
    BY <2>1, <2>2 DEF CutStep
<1> HIDE DEF rest
<1>6. IsCutFrom(rest, k + 1, cut[k + 1] + 1, n, m, wild, takes)
  BY <1>3, <1>4, <1>5 DEF IsCutFrom
<1>7. CutStep(cut, k, wild, takes)
  BY <1>1
<1>8. QED
  BY <1>1, <1>2, <1>6, <1>7 DEF HasCut

(* And the other way round.                                                *)
LEMMA CutWithFirst ==
  ASSUME NEW n \in Nat, NEW m \in Nat, NEW wild, NEW takes,
         NEW k \in 1 .. n, NEW i \in 1 .. m + 1, NEW j \in 1 .. m + 1,
         HasCut(k + 1, j, n, m, wild, takes),
         IF k \in wild THEN i <= j ELSE j = i + 1 /\ <<k, i>> \in takes
  PROVE  HasCut(k, i, n, m, wild, takes)
<1>1. PICK rest : IsCutFrom(rest, k + 1, j, n, m, wild, takes)
  BY DEF HasCut
<1>2. /\ rest \in [k + 1 .. n + 1 -> 0 .. m] /\ rest[k + 1] = j - 1 /\ rest[n + 1] = m
      /\ \A h \in k + 1 .. n : CutStep(rest, h, wild, takes)
  BY <1>1 DEF IsCutFrom
<1> DEFINE cut == [h \in k .. n + 1 |-> IF h = k THEN i - 1 ELSE rest[h]]
<1>3. cut \in [k .. n + 1 -> 0 .. m]
  BY <1>2
<1>4. cut[k] = i - 1 /\ cut[k + 1] = j - 1 /\ cut[n + 1] = m
  BY <1>2
<1>5. ASSUME NEW h \in k .. n
      PROVE  CutStep(cut, h, wild, takes)
  <2>1. CASE h = k
    <3> HIDE DEF cut
    <3>1. QED
      BY <1>4, <2>1 DEF CutStep
  <2>2. CASE h # k
    <3>1. h \in k + 1 .. n /\ cut[h] = rest[h] /\ cut[h + 1] = rest[h + 1]
      BY <2>2
    <3>2. CutStep(rest, h, wild, takes)
      BY <1>2, <3>1
    <3> HIDE DEF cut
    <3>3. QED
      BY <3>1, <3>2 DEF CutStep
  <2>3. QED
    BY <2>1, <2>2
<1> HIDE DEF cut
<1>6. QED
  BY <1>3, <1>4, <1>5 DEF IsCutFrom, HasCut

(* At the end of the pattern, the path is at its end.                      *)
LEMMA CutOfNone ==
  ASSUME NEW n \in Nat, NEW m \in Nat, NEW wild, NEW takes, NEW i \in 1 .. m + 1
  PROVE  HasCut(n + 1, i, n, m, wild, takes) <=> i > m
<1>1. ASSUME NEW cut, IsCutFrom(cut, n + 1, i, n, m, wild, takes)
      PROVE  i > m
  BY <1>1 DEF IsCutFrom
<1>2. ASSUME i > m
      PROVE  HasCut(n + 1, i, n, m, wild, takes)
  <2> DEFINE cut == [h \in n + 1 .. n + 1 |-> m]
  <2>1. cut \in [n + 1 .. n + 1 -> 0 .. m] /\ cut[n + 1] = i - 1 /\ cut[n + 1] = m
    BY <1>2
  <2> HIDE DEF cut
  <2>2. IsCutFrom(cut, n + 1, i, n, m, wild, takes)
    BY <2>1 DEF IsCutFrom
  <2>3. QED
    BY <2>2 DEF HasCut
<1>3. QED
  BY <1>1, <1>2 DEF HasCut

(* So the cuts are as the matcher's recursion has it.                      *)
LEMMA CutsOfWild ==
  ASSUME NEW n \in Nat, NEW m \in Nat, NEW wild, NEW takes,
         NEW k \in 1 .. n, NEW i \in 1 .. m + 1, k \in wild
  PROVE  HasCut(k, i, n, m, wild, takes)
           <=> \E j \in 1 .. m + 1 : i <= j /\ HasCut(k + 1, j, n, m, wild, takes)
<1>1. ASSUME NEW cut, IsCutFrom(cut, k, i, n, m, wild, takes)
      PROVE  \E j \in 1 .. m + 1 : i <= j /\ HasCut(k + 1, j, n, m, wild, takes)
  <2> DEFINE j == cut[k + 1] + 1
  <2>1. /\ j \in 1 .. m + 1 /\ HasCut(k + 1, j, n, m, wild, takes)
        /\ CutStep(cut, k, wild, takes) /\ cut[k] = i - 1
    BY <1>1, CutOfRest
  <2>2. cut \in [k .. n + 1 -> 0 .. m] /\ cut[k + 1] \in 0 .. m
    BY <1>1 DEF IsCutFrom
  <2>3. i <= j
    BY <2>1, <2>2 DEF CutStep
  <2> HIDE DEF j
  <2>4. QED
    BY <2>1, <2>3
<1>2. ASSUME NEW j \in 1 .. m + 1, i <= j, HasCut(k + 1, j, n, m, wild, takes)
      PROVE  HasCut(k, i, n, m, wild, takes)
  BY <1>2, CutWithFirst
<1>3. QED
  BY <1>1, <1>2 DEF HasCut

LEMMA CutsOfOne ==
  ASSUME NEW n \in Nat, NEW m \in Nat, NEW wild, NEW takes,
         NEW k \in 1 .. n, NEW i \in 1 .. m + 1, k \notin wild
  PROVE  HasCut(k, i, n, m, wild, takes)
           <=> /\ i <= m /\ <<k, i>> \in takes
               /\ HasCut(k + 1, i + 1, n, m, wild, takes)
<1>1. ASSUME NEW cut, IsCutFrom(cut, k, i, n, m, wild, takes)
      PROVE  /\ i <= m /\ <<k, i>> \in takes
             /\ HasCut(k + 1, i + 1, n, m, wild, takes)
  <2>1. /\ cut[k + 1] + 1 \in 1 .. m + 1
        /\ HasCut(k + 1, cut[k + 1] + 1, n, m, wild, takes)
        /\ CutStep(cut, k, wild, takes) /\ cut[k] = i - 1
    BY <1>1, CutOfRest
  <2>2. cut \in [k .. n + 1 -> 0 .. m] /\ cut[k + 1] \in 0 .. m
    BY <1>1 DEF IsCutFrom
  <2>3. cut[k + 1] = i /\ <<k, cut[k + 1]>> \in takes
    BY <2>1, <2>2 DEF CutStep
  <2>4. QED
    BY <2>1, <2>2, <2>3
<1>2. ASSUME i <= m, <<k, i>> \in takes, HasCut(k + 1, i + 1, n, m, wild, takes)
      PROVE  HasCut(k, i, n, m, wild, takes)
  BY <1>2, CutWithFirst
<1>3. QED
  BY <1>1, <1>2 DEF HasCut

CutPlaces(k, n, m, wild, takes) ==
  {i \in 1 .. m + 1 : HasCut(k, i, n, m, wild, takes)}

LEMMA CutsAreATable ==
  ASSUME NEW n \in Nat, NEW m \in Nat, NEW wild, NEW takes
  PROVE  IsTable([k \in 1 .. n + 1 |-> CutPlaces(k, n, m, wild, takes)], n, m, wild, takes)
<1> DEFINE cuts == [k \in 1 .. n + 1 |-> CutPlaces(k, n, m, wild, takes)]
<1>1. CutPlaces(n + 1, n, m, wild, takes) = {m + 1}
  BY CutOfNone DEF CutPlaces
<1>2. ASSUME NEW k \in 1 .. n
      PROVE  CutPlaces(k, n, m, wild, takes) =
               {i \in 1 .. m + 1 :
                  IF k \in wild THEN \E j \in CutPlaces(k + 1, n, m, wild, takes) : i <= j
                  ELSE /\ i <= m /\ <<k, i>> \in takes
                       /\ i + 1 \in CutPlaces(k + 1, n, m, wild, takes)}
  <2>1. CASE k \in wild
    BY <2>1, CutsOfWild DEF CutPlaces
  <2>2. CASE k \notin wild
    BY <2>2, CutsOfOne DEF CutPlaces
  <2>3. QED
    BY <2>1, <2>2
<1>3. \A k \in 1 .. n + 1 : cuts[k] = CutPlaces(k, n, m, wild, takes)
  OBVIOUS
<1>4. ASSUME NEW k \in 1 .. n + 1
      PROVE  CutPlaces(k, n, m, wild, takes) = Rest(cuts, k, n, m, wild, takes)
  <2>1. CASE k = n + 1
    <3> HIDE DEF cuts
    <3>1. Rest(cuts, n + 1, n, m, wild, takes) = {m + 1}
      BY DEF Rest
    <3>2. QED
      BY <1>1, <2>1, <3>1
  <2>2. CASE k \in 1 .. n
    <3>1. cuts[k + 1] = CutPlaces(k + 1, n, m, wild, takes)
      BY <1>3, <2>2
    <3> HIDE DEF cuts
    <3>2. QED
      BY <1>2, <2>2, <3>1 DEF Rest
  <2>3. QED
    BY <2>1, <2>2
<1>5. QED
  BY <1>4 DEF IsTable

(* There is one table.                                                     *)
LEMMA TableIsCuts ==
  ASSUME NEW n \in Nat, NEW m \in Nat, NEW wild, NEW takes,
         NEW at, IsTable(at, n, m, wild, takes)
  PROVE  1 \in at[1] <=> HasCut(1, 1, n, m, wild, takes)
<1> DEFINE cuts == [k \in 1 .. n + 1 |-> CutPlaces(k, n, m, wild, takes)]
           S == {r \in Nat : r <= n => at[n + 1 - r] = cuts[n + 1 - r]}
<1>1. IsTable(cuts, n, m, wild, takes)
  BY CutsAreATable
<1>2. 1 \in cuts[1] <=> HasCut(1, 1, n, m, wild, takes)
  BY DEF CutPlaces
<1> HIDE DEF cuts
<1>3. \A k \in 1 .. n + 1 : /\ at[k] = Rest(at, k, n, m, wild, takes)
                            /\ cuts[k] = Rest(cuts, k, n, m, wild, takes)
  BY <1>1 DEF IsTable
<1>4. at[n + 1] = cuts[n + 1]
  <2>1. ASSUME NEW t
        PROVE  Rest(t, n + 1, n, m, wild, takes) = {m + 1}
    BY DEF Rest
  <2>2. QED
    BY <1>3, <2>1
<1>5. ASSUME NEW k \in 1 .. n, at[k + 1] = cuts[k + 1]
      PROVE  at[k] = cuts[k]
  <2>1. Rest(at, k, n, m, wild, takes) = Rest(cuts, k, n, m, wild, takes)
    BY <1>5 DEF Rest
  <2>2. QED
    BY <1>3, <2>1
<1>6. 0 \in S
  BY <1>4
<1>7. ASSUME NEW r \in Nat, r \in S
      PROVE  r + 1 \in S
  <2>1. SUFFICES ASSUME r + 1 <= n
                 PROVE  at[n + 1 - (r + 1)] = cuts[n + 1 - (r + 1)]
    OBVIOUS
  <2> DEFINE k == n + 1 - (r + 1)
  <2>2. k \in 1 .. n /\ k + 1 = n + 1 - r /\ r <= n
    BY <2>1
  <2>3. at[k + 1] = cuts[k + 1]
    BY <1>7, <2>2
  <2> HIDE DEF k
  <2>4. at[k] = cuts[k]
    BY <1>5, <2>2, <2>3
  <2>5. QED
    BY <2>4 DEF k
<1>8. n \in S
  <2> HIDE DEF S
  <2>1. QED
    BY <1>6, <1>7, SetInduction
<1>9. at[1] = cuts[1]
  BY <1>8
<1>10. QED
  BY <1>2, <1>9

-----------------------------------------------------------------------------
SegmentWild(p) == {k \in 1 .. Len(p) : p[k] = Star}
SegmentTakes(p, seg) == {w \in (1 .. Len(p)) \X (1 .. Len(seg)) : p[w[1]] = seg[w[2]]}

LEMMA SegmentMatchIsCuts ==
  ASSUME NEW p, Len(p) \in Nat, NEW seg, Len(seg) \in Nat
  PROVE  SegmentMatch(p, seg)
           <=> HasCut(1, 1, Len(p), Len(seg), SegmentWild(p), SegmentTakes(p, seg))
<1> DEFINE n == Len(p)
           m == Len(seg)
           wild == SegmentWild(p)
           takes == SegmentTakes(p, seg)
           Row(at, k) ==
             IF k > n THEN {m + 1}
             ELSE LET rest == at[k + 1]
                  IN {i \in 1 .. m + 1 : IF p[k] = Star THEN \E j \in rest : i <= j
                                         ELSE i <= m /\ p[k] = seg[i] /\ i + 1 \in rest}
           Is(at) == at = [k \in 1 .. n + 1 |-> Row(at, k)]
<1>1. ASSUME NEW at
      PROVE  Is(at) <=> IsTable(at, n, m, wild, takes)
  <2>1. ASSUME NEW k \in 1 .. n + 1
        PROVE  Row(at, k) = Rest(at, k, n, m, wild, takes)
    <3>1. k <= n => (k \in wild <=> p[k] = Star)
      BY DEF SegmentWild
    <3>2. \A i \in 1 .. m : k <= n => (<<k, i>> \in takes <=> p[k] = seg[i])
      BY DEF SegmentTakes
    <3>3. n \in Nat /\ m \in Nat
      OBVIOUS
    <3> HIDE DEF n, m, wild, takes
    <3>4. CASE k > n
      BY <3>4 DEF Rest
    <3>5. CASE k <= n /\ k \in wild
      BY <3>1, <3>3, <3>5 DEF Rest
    <3>6. CASE k <= n /\ k \notin wild
      <4> DEFINE rest == at[k + 1]
      <4>1. Row(at, k) = {i \in 1 .. m + 1 : i <= m /\ p[k] = seg[i] /\ i + 1 \in rest}
        BY <3>1, <3>3, <3>6
      <4>2. Rest(at, k, n, m, wild, takes)
              = {i \in 1 .. m + 1 : i <= m /\ <<k, i>> \in takes /\ i + 1 \in rest}
        BY <3>3, <3>6 DEF Rest
      <4> HIDE DEF rest, Row
      <4>3. \A i \in 1 .. m + 1 : i <= m => (<<k, i>> \in takes <=> p[k] = seg[i])
        BY <3>2, <3>3, <3>6
      <4>4. QED
        BY <4>1, <4>2, <4>3
    <3>7. QED
      BY <3>3, <3>4, <3>5, <3>6
  <2> HIDE DEF Row
  <2>2. QED
    BY <2>1 DEF IsTable
<1>2. \E at : IsTable(at, n, m, wild, takes)
  BY CutsAreATable
<1>3. PICK at : Is(at) /\ (SegmentMatch(p, seg) <=> 1 \in at[1])
  BY ZenonT(40), <1>1, <1>2 DEF SegmentMatch
<1> HIDE DEF Is, wild, takes
<1>4. IsTable(at, n, m, wild, takes) /\ n \in Nat /\ m \in Nat
  BY <1>1, <1>3
<1>5. QED
  BY <1>3, <1>4, TableIsCuts DEF wild, takes

PathWild(p) == {k \in 1 .. Len(p) : p[k] = DoubleStar}
PathTakes(p, q) ==
  {w \in (1 .. Len(p)) \X (1 .. Len(q)) : SegmentMatch(p[w[1]], q[w[2]])}

LEMMA SegmentsMatchIsCuts ==
  ASSUME NEW p, Len(p) \in Nat, NEW q, Len(q) \in Nat
  PROVE  SegmentsMatch(p, q)
           <=> HasCut(1, 1, Len(p), Len(q), PathWild(p), PathTakes(p, q))
<1> DEFINE n == Len(p)
           m == Len(q)
           wild == PathWild(p)
           takes == PathTakes(p, q)
           Row(at, k) ==
             IF k > n THEN {m + 1}
             ELSE LET rest == at[k + 1]
                  IN {i \in 1 .. m + 1 :
                        IF p[k] = DoubleStar THEN \E j \in rest : i <= j
                        ELSE i <= m /\ SegmentMatch(p[k], q[i]) /\ i + 1 \in rest}
           Is(at) == at = [k \in 1 .. n + 1 |-> Row(at, k)]
<1>1. ASSUME NEW at
      PROVE  Is(at) <=> IsTable(at, n, m, wild, takes)
  <2>1. ASSUME NEW k \in 1 .. n + 1
        PROVE  Row(at, k) = Rest(at, k, n, m, wild, takes)
    <3>1. k <= n => (k \in wild <=> p[k] = DoubleStar)
      BY DEF PathWild
    <3>2. \A i \in 1 .. m : k <= n => (<<k, i>> \in takes <=> SegmentMatch(p[k], q[i]))
      BY DEF PathTakes
    <3>3. n \in Nat /\ m \in Nat
      OBVIOUS
    <3> HIDE DEF n, m, wild, takes
    <3>4. CASE k > n
      BY <3>4 DEF Rest
    <3>5. CASE k <= n /\ k \in wild
      BY <3>1, <3>3, <3>5 DEF Rest
    <3>6. CASE k <= n /\ k \notin wild
      <4> DEFINE rest == at[k + 1]
      <4>1. Row(at, k)
              = {i \in 1 .. m + 1 : i <= m /\ SegmentMatch(p[k], q[i]) /\ i + 1 \in rest}
        BY <3>1, <3>3, <3>6
      <4>2. Rest(at, k, n, m, wild, takes)
              = {i \in 1 .. m + 1 : i <= m /\ <<k, i>> \in takes /\ i + 1 \in rest}
        BY <3>3, <3>6 DEF Rest
      <4> HIDE DEF rest, Row
      <4>3. \A i \in 1 .. m + 1 : i <= m => (<<k, i>> \in takes <=> SegmentMatch(p[k], q[i]))
        BY <3>2, <3>3, <3>6
      <4>4. QED
        BY <4>1, <4>2, <4>3
    <3>7. QED
      BY <3>3, <3>4, <3>5, <3>6
  <2> HIDE DEF Row
  <2>2. QED
    BY <2>1 DEF IsTable
<1>2. \E at : IsTable(at, n, m, wild, takes)
  BY CutsAreATable
<1>3. PICK at : Is(at) /\ (SegmentsMatch(p, q) <=> 1 \in at[1])
  BY <1>1, <1>2 DEF SegmentsMatch
<1> HIDE DEF Is, wild, takes
<1>4. IsTable(at, n, m, wild, takes) /\ n \in Nat /\ m \in Nat
  BY <1>1, <1>3
<1>5. QED
  BY <1>3, <1>4, TableIsCuts DEF wild, takes

-----------------------------------------------------------------------------
(* The language.                                                           *)

LEMMA SegmentDenotesIsCuts ==
  ASSUME NEW L, NEW p \in Seq(L), NEW M, NEW seg \in Seq(M)
  PROVE  SegmentDenotes(p, seg)
           <=> HasCut(1, 1, Len(p), Len(seg), SegmentWild(p), SegmentTakes(p, seg))
<1> DEFINE n == Len(p)
           m == Len(seg)
           wild == SegmentWild(p)
           takes == SegmentTakes(p, seg)
<1>1. n \in Nat /\ m \in Nat /\ DOMAIN p = 1 .. n
  OBVIOUS
<1>2. ASSUME NEW cut, cut \in [1 .. n + 1 -> 0 .. m], NEW k \in 1 .. n
      PROVE  CutStep(cut, k, wild, takes)
               <=> IF p[k] = Star THEN cut[k] <= cut[k + 1]
                   ELSE cut[k + 1] = cut[k] + 1 /\ p[k] = seg[cut[k + 1]]
  <2>1. k \in wild <=> p[k] = Star
    BY DEF SegmentWild
  <2>2. cut[k + 1] \in 0 .. m /\ cut[k] \in 0 .. m
    BY <1>2
  <2>3. \A i \in 1 .. m : <<k, i>> \in takes <=> p[k] = seg[i]
    BY DEF SegmentTakes
  <2>4. cut[k + 1] = cut[k] + 1 => cut[k + 1] \in 1 .. m
    BY <2>2
  <2> HIDE DEF wild, takes
  <2>5. QED
    BY <2>1, <2>3, <2>4 DEF CutStep
<1>3. SegmentDenotes(p, seg) <=>
        \E cut \in [1 .. n + 1 -> 0 .. m] :
          /\ cut[1] = 0
          /\ cut[n + 1] = m
          /\ \A k \in 1 .. n :
                IF p[k] = Star THEN cut[k] <= cut[k + 1]
                ELSE cut[k + 1] = cut[k] + 1 /\ p[k] = seg[cut[k + 1]]
  BY <1>1 DEF SegmentDenotes, Denotes
<1> HIDE DEF n, m, wild, takes
<1>4. QED
  BY <1>1, <1>2, <1>3 DEF HasCut, IsCutFrom, n, m, wild, takes

LEMMA SegmentMatchIsItsLanguage ==
  ASSUME NEW L, NEW p \in Seq(L), NEW M, NEW seg \in Seq(M)
  PROVE  SegmentMatch(p, seg) <=> SegmentDenotes(p, seg)
BY SegmentMatchIsCuts, SegmentDenotesIsCuts

LEMMA PathDenotesIsCuts ==
  ASSUME NEW L, NEW pattern, NEW p, p = pattern.segs, p \in Seq(Seq(L)),
         NEW M, NEW path, NEW q, q = path.segs, q \in Seq(Seq(M))
  PROVE  PathDenotes(pattern, path)
           <=> /\ pattern.onDisk = path.onDisk
               /\ HasCut(1, 1, Len(p), Len(q), PathWild(p), PathTakes(p, q))
<1> DEFINE n == Len(p)
           m == Len(q)
           wild == PathWild(p)
           takes == PathTakes(p, q)
<1>1. n \in Nat /\ m \in Nat /\ DOMAIN p = 1 .. n
  OBVIOUS
<1>2. ASSUME NEW cut, cut \in [1 .. n + 1 -> 0 .. m], NEW k \in 1 .. n
      PROVE  CutStep(cut, k, wild, takes)
               <=> IF p[k] = DoubleStar THEN cut[k] <= cut[k + 1]
                   ELSE cut[k + 1] = cut[k] + 1 /\ SegmentDenotes(p[k], q[cut[k + 1]])
  <2>1. k \in wild <=> p[k] = DoubleStar
    BY DEF PathWild
  <2>2. cut[k + 1] \in 0 .. m /\ cut[k] \in 0 .. m
    <3>1. k \in 1 .. n + 1 /\ k + 1 \in 1 .. n + 1
      BY <1>1
    <3> HIDE DEF n, m
    <3>2. QED
      BY <1>2, <3>1
  <2>3. \A i \in 1 .. m : <<k, i>> \in takes <=> SegmentMatch(p[k], q[i])
    BY DEF PathTakes
  <2>4. ASSUME NEW i \in 1 .. m
        PROVE  SegmentMatch(p[k], q[i]) <=> SegmentDenotes(p[k], q[i])
    <3>1. p[k] \in Seq(L) /\ q[i] \in Seq(M)
      OBVIOUS
    <3>2. QED
      BY <3>1, SegmentMatchIsItsLanguage
  <2>5. cut[k + 1] = cut[k] + 1 => cut[k + 1] \in 1 .. m
    BY <2>2
  <2> HIDE DEF wild, takes
  <2>6. QED
    BY <2>1, <2>3, <2>4, <2>5 DEF CutStep
<1>3. PathDenotes(pattern, path) <=>
        /\ pattern.onDisk = path.onDisk
        /\ \E cut \in [1 .. n + 1 -> 0 .. m] :
             /\ cut[1] = 0
             /\ cut[n + 1] = m
             /\ \A k \in 1 .. n :
                   IF p[k] = DoubleStar THEN cut[k] <= cut[k + 1]
                   ELSE cut[k + 1] = cut[k] + 1 /\ SegmentDenotes(p[k], q[cut[k + 1]])
  BY <1>1 DEF PathDenotes, Denotes
<1> HIDE DEF n, m, wild, takes
<1>4. QED
  BY SMTT(30), <1>1, <1>2, <1>3 DEF HasCut, IsCutFrom, n, m, wild, takes

LEMMA MatchesIsDenotes ==
  ASSUME NEW L, NEW p, p.segs \in Seq(Seq(L)), NEW M, NEW q, q.segs \in Seq(Seq(M))
  PROVE  Matches(p, q) <=> PathDenotes(p, q)
<1>1. Len(p.segs) \in Nat /\ Len(q.segs) \in Nat
  OBVIOUS
<1>2. QED
  BY <1>1, SegmentsMatchIsCuts, PathDenotesIsCuts DEF Matches

-----------------------------------------------------------------------------
(* Patterns that spell a path out.                                         *)

(* Where only elements from the l-th on are wild, those before it have one *)
(* element of the path each.                                               *)
LEMMA CutsOfLiterals ==
  ASSUME NEW n \in Nat, NEW m \in Nat, NEW wild, NEW takes, NEW l \in 0 .. n,
         \A k \in 1 .. l : k \notin wild,
         NEW cut, IsCutFrom(cut, 1, 1, n, m, wild, takes)
  PROVE  /\ \A k \in 1 .. l + 1 : cut[k] = k - 1
         /\ \A k \in 1 .. l : <<k, k>> \in takes
<1>1. /\ cut \in [1 .. n + 1 -> 0 .. m] /\ cut[1] = 0
      /\ \A h \in 1 .. n : CutStep(cut, h, wild, takes)
  BY DEF IsCutFrom
<1>2. ASSUME NEW k \in 1 .. l, cut[k] = k - 1
      PROVE  cut[k + 1] = k /\ <<k, k>> \in takes
  <2>1. CutStep(cut, k, wild, takes) /\ k \notin wild
    BY <1>1
  <2>2. QED
    BY <1>2, <2>1 DEF CutStep
<1> DEFINE S == {r \in Nat : r <= l => cut[r + 1] = r}
<1>3. 0 \in S
  BY <1>1
<1>4. ASSUME NEW r \in Nat, r \in S
      PROVE  r + 1 \in S
  <2>1. SUFFICES ASSUME r + 1 <= l
                 PROVE  cut[r + 1 + 1] = r + 1
    OBVIOUS
  <2>2. r + 1 \in 1 .. l /\ cut[r + 1] = (r + 1) - 1
    BY <1>4, <2>1
  <2>3. QED
    BY <1>2, <2>2
<1> HIDE DEF S
<1>5. \A r \in Nat : r \in S
  BY <1>3, <1>4, SetInduction
<1>6. ASSUME NEW k \in 1 .. l + 1
      PROVE  cut[k] = k - 1
  <2>1. k - 1 \in Nat /\ (k - 1) + 1 = k /\ k - 1 <= l
    OBVIOUS
  <2>2. k - 1 \in S
    BY <1>5, <2>1
  <2>3. QED
    BY <2>1, <2>2 DEF S
<1>7. ASSUME NEW k \in 1 .. l
      PROVE  <<k, k>> \in takes
  <2>1. k \in 1 .. l + 1
    OBVIOUS
  <2>2. QED
    BY <1>2, <1>6, <2>1
<1>8. QED
  BY <1>6, <1>7

LEMMA CutExactly ==
  ASSUME NEW n \in Nat, NEW m \in Nat, NEW wild, NEW takes,
         \A k \in 1 .. n : k \notin wild
  PROVE  HasCut(1, 1, n, m, wild, takes)
           <=> n = m /\ \A k \in 1 .. n : <<k, k>> \in takes
<1>1. ASSUME NEW cut, IsCutFrom(cut, 1, 1, n, m, wild, takes)
      PROVE  n = m /\ \A k \in 1 .. n : <<k, k>> \in takes
  <2>1. n \in 0 .. n /\ n + 1 \in 1 .. n + 1
    OBVIOUS
  <2>2. /\ \A k \in 1 .. n + 1 : cut[k] = k - 1
        /\ \A k \in 1 .. n : <<k, k>> \in takes
    BY <1>1, <2>1, CutsOfLiterals
  <2>3. cut[n + 1] = m
    BY <1>1 DEF IsCutFrom
  <2>4. cut[n + 1] = n
    BY <2>1, <2>2
  <2>5. QED
    BY <2>2, <2>3, <2>4
<1>2. ASSUME n = m, \A k \in 1 .. n : <<k, k>> \in takes
      PROVE  HasCut(1, 1, n, m, wild, takes)
  <2> DEFINE cut == [k \in 1 .. n + 1 |-> k - 1]
  <2>1. /\ cut \in [1 .. n + 1 -> 0 .. m] /\ cut[1] = 0 /\ cut[n + 1] = m
        /\ \A k \in 1 .. n : cut[k] = k - 1 /\ cut[k + 1] = k
    BY <1>2
  <2> HIDE DEF cut
  <2>2. \A k \in 1 .. n : CutStep(cut, k, wild, takes)
    BY <1>2, <2>1 DEF CutStep
  <2>3. IsCutFrom(cut, 1, 1, n, m, wild, takes)
    BY <2>1, <2>2 DEF IsCutFrom
  <2>4. QED
    BY <2>3 DEF HasCut
<1>3. QED
  BY <1>1, <1>2 DEF HasCut

LEMMA CutUnder ==
  ASSUME NEW n \in Nat, NEW m \in Nat, NEW wild, NEW takes,
         \A k \in 1 .. n : k \notin wild, n + 1 \in wild
  PROVE  HasCut(1, 1, n + 1, m, wild, takes)
           <=> n <= m /\ \A k \in 1 .. n : <<k, k>> \in takes
<1>1. ASSUME NEW cut, IsCutFrom(cut, 1, 1, n + 1, m, wild, takes)
      PROVE  n <= m /\ \A k \in 1 .. n : <<k, k>> \in takes
  <2>1. /\ n \in 0 .. n + 1 /\ n + 1 \in Nat
        /\ n + 1 \in 1 .. n + 1 /\ n + 1 \in 1 .. (n + 1) + 1
    OBVIOUS
  <2>2. /\ \A k \in 1 .. n + 1 : cut[k] = k - 1
        /\ \A k \in 1 .. n : <<k, k>> \in takes
    BY <1>1, <2>1, CutsOfLiterals
  <2>3. cut \in [1 .. (n + 1) + 1 -> 0 .. m]
    BY <1>1 DEF IsCutFrom
  <2>4. cut[n + 1] \in 0 .. m /\ cut[n + 1] = n
    BY <2>1, <2>2, <2>3
  <2>5. QED
    BY <2>2, <2>4
<1>2. ASSUME n <= m, \A k \in 1 .. n : <<k, k>> \in takes
      PROVE  HasCut(1, 1, n + 1, m, wild, takes)
  <2> DEFINE cut == [k \in 1 .. (n + 1) + 1 |-> IF k = n + 2 THEN m ELSE k - 1]
  <2>1. /\ cut \in [1 .. (n + 1) + 1 -> 0 .. m] /\ cut[1] = 0 /\ cut[(n + 1) + 1] = m
        /\ cut[n + 1] = n
        /\ \A k \in 1 .. n : cut[k] = k - 1 /\ cut[k + 1] = k
    BY <1>2
  <2> HIDE DEF cut
  <2>2. ASSUME NEW k \in 1 .. n + 1
        PROVE  CutStep(cut, k, wild, takes)
    <3>1. CASE k \in 1 .. n
      BY <1>2, <2>1, <3>1 DEF CutStep
    <3>2. CASE k = n + 1
      BY <1>2, <2>1, <3>2 DEF CutStep
    <3>3. QED
      BY <3>1, <3>2
  <2>3. IsCutFrom(cut, 1, 1, n + 1, m, wild, takes)
    BY <2>1, <2>2 DEF IsCutFrom
  <2>4. QED
    BY <2>3 DEF HasCut
<1>3. QED
  BY <1>1, <1>2 DEF HasCut

(* A segment without a wildcard takes itself alone.                        *)
LEMMA LiteralTakesItself ==
  ASSUME NEW p \in Seq(Letters), NEW seg \in Seq(Letters)
  PROVE  SegmentMatch(p, seg) <=> p = seg
<1> DEFINE n == Len(p)
           m == Len(seg)
           wild == SegmentWild(p)
           takes == SegmentTakes(p, seg)
<1>1. n \in Nat /\ m \in Nat
  OBVIOUS
<1>2. \A k \in 1 .. n : k \notin wild
  <2>1. \A k \in 1 .. n : p[k] \in Letters
    OBVIOUS
  <2>2. QED
    BY <2>1, LettersAssumption DEF SegmentWild
<1>3. n = m => \A k \in 1 .. n : <<k, k>> \in takes <=> p[k] = seg[k]
  BY DEF SegmentTakes
<1> HIDE DEF wild, takes
<1>4. SegmentMatch(p, seg) <=> HasCut(1, 1, n, m, wild, takes)
  BY <1>1, SegmentMatchIsCuts DEF wild, takes
<1>5. HasCut(1, 1, n, m, wild, takes) <=> n = m /\ \A k \in 1 .. n : p[k] = seg[k]
  <2> HIDE DEF n, m
  <2>1. QED
    BY <1>1, <1>2, <1>3, CutExactly
<1>6. p = seg <=> n = m /\ \A k \in 1 .. n : p[k] = seg[k]
  OBVIOUS
<1>7. QED
  BY <1>4, <1>5, <1>6

LEMMA NamesAreNotWild ==
  ASSUME NEW seg \in Seq(Letters)
  PROVE  seg # DoubleStar
<1>1. Len(DoubleStar) = 2 /\ DoubleStar[1] = Star
  BY DEF DoubleStar
<1>2. Len(seg) = 2 => seg[1] \in Letters
  OBVIOUS
<1>3. QED
  BY <1>1, <1>2, LettersAssumption

(* A path that is spelled out is matched by itself, and by what lies under *)
(* it if ** is added.                                                      *)
LEMMA SameSequence ==
  ASSUME NEW S, NEW s \in Seq(S), NEW t \in Seq(S)
  PROVE  s = t <=> Len(s) = Len(t) /\ \A k \in 1 .. Len(s) : s[k] = t[k]
OBVIOUS

LEMMA PrefixIs ==
  ASSUME NEW S, NEW s \in Seq(S), NEW T, NEW t \in Seq(T)
  PROVE  IsPrefix(s, t) <=> Len(s) <= Len(t) /\ \A k \in 1 .. Len(s) : s[k] = t[k]
<1>1. ASSUME Len(s) <= Len(t)
      PROVE  SubSeq(s, 1, Len(s)) = SubSeq(t, 1, Len(s))
               <=> \A k \in 1 .. Len(s) : s[k] = t[k]
  <2> DEFINE a == SubSeq(s, 1, Len(s))
             b == SubSeq(t, 1, Len(s))
  <2>1. /\ a \in Seq(S) /\ Len(a) = Len(s) /\ \A k \in 1 .. Len(s) : a[k] = s[k]
        /\ b \in Seq(T) /\ Len(b) = Len(s) /\ \A k \in 1 .. Len(s) : b[k] = t[k]
    BY <1>1
  <2> HIDE DEF a, b
  <2>2. a = b <=> \A k \in 1 .. Len(s) : a[k] = b[k]
    BY <2>1
  <2>3. QED
    BY <2>1, <2>2 DEF a, b
<1>2. QED
  BY <1>1 DEF IsPrefix

LEMMA UnderIsText ==
  ASSUME NEW s \in Seq(Seq(Letters))
  PROVE  Append(s, DoubleStar) \in Seq(Seq(Letters \cup {Star}))
<1> DEFINE L == Letters \cup {Star}
<1>1. Star \in L /\ Letters \subseteq L
  OBVIOUS
<1> HIDE DEF L
<1>2. DoubleStar \in Seq(L)
  <2>1. \A c \in L : <<c, c>> \in Seq(L)
    OBVIOUS
  <2>2. QED
    BY <1>1, <2>1 DEF DoubleStar
<1>3. \A seg \in Seq(Letters) : seg \in Seq(L)
  <2>1. SUFFICES ASSUME NEW T, T \subseteq L, NEW seg \in Seq(T)
                 PROVE  seg \in Seq(L)
    BY <1>1
  <2>2. QED
    BY <2>1
<1>4. s \in Seq(Seq(L))
  <2>1. SUFFICES ASSUME NEW T, NEW U, \A seg \in T : seg \in U, NEW w \in Seq(T)
                 PROVE  w \in Seq(U)
    BY <1>3
  <2>2. QED
    BY <2>1
<1>5. \A d \in Seq(L) : Append(s, d) \in Seq(Seq(L))
  BY <1>4
<1>6. QED
  BY <1>2, <1>5 DEF L

LEMMA LiteralMatches ==
  ASSUME NEW p, IsPath(p), NEW q, IsPath(q)
  PROVE  Matches(p, q) <=> p.onDisk = q.onDisk /\ p.segs = q.segs
<1> DEFINE s == p.segs
           t == q.segs
           n == Len(s)
           m == Len(t)
           wild == PathWild(s)
           takes == PathTakes(s, t)
<1>1. s \in Seq(Seq(Letters)) /\ t \in Seq(Seq(Letters)) /\ n \in Nat /\ m \in Nat
  BY DEF IsPath
<1>2. \A k \in 1 .. n : s[k] \in Seq(Letters)
  <2> HIDE DEF t
  <2>1. QED
    BY <1>1
<1>3. \A k \in 1 .. n : k \notin wild
  BY <1>2, NamesAreNotWild DEF PathWild
<1>4. n = m => \A k \in 1 .. n : <<k, k>> \in takes <=> s[k] = t[k]
  <2>1. \A k \in 1 .. n : n = m => (<<k, k>> \in takes <=> SegmentMatch(s[k], t[k]))
    BY DEF PathTakes
  <2>2. \A k \in 1 .. n : n = m => t[k] \in Seq(Letters)
    BY <1>1
  <2> HIDE DEF s, t, n, m, takes
  <2>3. QED
    BY <1>2, <2>1, <2>2, LiteralTakesItself
<1>5. SegmentsMatch(s, t) <=> HasCut(1, 1, n, m, wild, takes)
  BY <1>1, SegmentsMatchIsCuts
<1>6. s = t <=> n = m /\ \A k \in 1 .. n : s[k] = t[k]
  <2>1. s \in Seq(Seq(Letters)) /\ t \in Seq(Seq(Letters))
    BY <1>1
  <2> HIDE DEF s, t
  <2>2. QED
    BY <2>1, SameSequence
<1> HIDE DEF s, t, n, m, wild, takes
<1>7. HasCut(1, 1, n, m, wild, takes) <=> n = m /\ \A k \in 1 .. n : <<k, k>> \in takes
  BY <1>1, <1>3, CutExactly
<1>8. QED
  BY <1>4, <1>5, <1>6, <1>7 DEF Matches, s, t

LEMMA UnderMatches ==
  ASSUME NEW p, IsPath(p), NEW q, IsPath(q)
  PROVE  Matches(Under(p), q) <=> p.onDisk = q.onDisk /\ IsPrefix(p.segs, q.segs)
<1> DEFINE s == p.segs
           u == Append(s, DoubleStar)
           t == q.segs
           n == Len(s)
           m == Len(t)
           wild == PathWild(u)
           takes == PathTakes(u, t)
<1>1. s \in Seq(Seq(Letters)) /\ t \in Seq(Seq(Letters)) /\ n \in Nat /\ m \in Nat
  BY DEF IsPath
<1>2. /\ u \in Seq(Seq(Letters \cup {Star})) /\ Len(u) = n + 1
      /\ u[n + 1] = DoubleStar /\ \A k \in 1 .. n : u[k] = s[k]
  <2>1. s \in Seq(Seq(Letters)) /\ n \in Nat
    BY <1>1
  <2>2. u \in Seq(Seq(Letters \cup {Star}))
    BY <1>1, UnderIsText
  <2> HIDE DEF s
  <2>3. QED
    BY <2>1, <2>2
<1>3. \A k \in 1 .. n : s[k] \in Seq(Letters)
  <2> HIDE DEF t
  <2>1. QED
    BY <1>1
<1>4. (\A k \in 1 .. n : k \notin wild) /\ n + 1 \in wild
  <2>1. wild = PathWild(u) /\ n \in Nat /\ n + 1 \in 1 .. n + 1
    BY <1>1
  <2> HIDE DEF u, s, t, n, m, wild
  <2>2. QED
    BY <1>2, <1>3, <2>1, NamesAreNotWild DEF PathWild
<1>5. n <= m => \A k \in 1 .. n : <<k, k>> \in takes <=> s[k] = t[k]
  <2>1. \A k \in 1 .. n : n <= m => (<<k, k>> \in takes <=> SegmentMatch(s[k], t[k]))
    <3>1. Len(u) = n + 1 /\ \A k \in 1 .. n : u[k] = s[k]
      BY <1>2
    <3>2. takes = PathTakes(u, t) /\ n \in Nat /\ m \in Nat /\ m = Len(t)
      BY <1>1
    <3> HIDE DEF takes, u, n, m, s, t
    <3>3. QED
      BY <3>1, <3>2 DEF PathTakes
  <2>2. \A k \in 1 .. n : n <= m => t[k] \in Seq(Letters)
    BY <1>1
  <2> HIDE DEF s, t, n, m, takes
  <2>3. QED
    BY <1>1, <1>3, <2>1, <2>2, LiteralTakesItself
<1> HIDE DEF wild, takes, u
<1>6. SegmentsMatch(u, t) <=> HasCut(1, 1, n + 1, m, wild, takes)
  BY <1>1, <1>2, SegmentsMatchIsCuts DEF wild, takes
<1>7. IsPrefix(s, t) <=> n <= m /\ \A k \in 1 .. n : s[k] = t[k]
  BY <1>1, PrefixIs
<1>8. HasCut(1, 1, n + 1, m, wild, takes) <=> n <= m /\ \A k \in 1 .. n : <<k, k>> \in takes
  <2> HIDE DEF n, m
  <2>1. QED
    BY <1>1, <1>4, CutUnder
<1>9. Under(p).segs = u /\ Under(p).onDisk = p.onDisk
  BY DEF Under, u
<1>10. QED
  BY <1>5, <1>6, <1>7, <1>8, <1>9 DEF Matches

-----------------------------------------------------------------------------
(* The gate: what the rules file names and draws.                          *)

LEMMA NameIsText ==
  ASSUME NEW a \in RuleNames
  PROVE  N(a) \in Seq(Letters)
<1>1. a \in Letters
  BY GateAssumption
<1>2. QED
  BY <1>1 DEF N

LEMMA NamesDiffer ==
  /\ \A a, b : N(a) = N(b) <=> a = b
  /\ \A a \in RuleNames : N(a) # Self
<1>1. \A a, b : <<a>> = <<b>> <=> a = b
  <2>1. \A a : <<a>>[1] = a
    OBVIOUS
  <2>2. QED
    BY <2>1
<1>2. \A a \in RuleNames : a # "self"
  BY DEF RuleNames
<1>3. QED
  BY <1>1, <1>2 DEF N, Self

LEMMA PathsAreSpelled ==
  ASSUME NEW a \in RuleNames, NEW b \in RuleNames, NEW c \in RuleNames
  PROVE  /\ IsPath(Path1(a)) /\ IsPath(Path2(a, b))
         /\ IsPath(InCode(<<N(a), N(b), N(c)>>))
<1>1. N(a) \in Seq(Letters) /\ N(b) \in Seq(Letters) /\ N(c) \in Seq(Letters)
  BY NameIsText
<1>2. \A segs : InCode(segs).segs = segs /\ InCode(segs).onDisk = FALSE
  BY DEF InCode
<1>3. \A x, y, z \in Seq(Letters) : /\ <<x>> \in Seq(Seq(Letters))
                                    /\ <<x, y>> \in Seq(Seq(Letters))
                                    /\ <<x, y, z>> \in Seq(Seq(Letters))
  OBVIOUS
<1>4. QED
  BY <1>1, <1>2, <1>3 DEF IsPath, InCode, Path1, Path2

(* What it is to lie within a path of one, two or three names.             *)
LEMMA WithinIs ==
  ASSUME NEW a \in RuleNames, NEW b \in RuleNames, NEW c \in RuleNames, NEW q, IsPath(q)
  PROVE  /\ Within(Path1(a), q) <=> Len(q.segs) >= 1 /\ q.segs[1] = N(a)
         /\ Within(Path2(a, b), q)
              <=> Len(q.segs) >= 2 /\ q.segs[1] = N(a) /\ q.segs[2] = N(b)
         /\ Within(InCode(<<N(a), N(b), N(c)>>), q) => Len(q.segs) >= 1 /\ q.segs[1] = N(a)
<1>1. N(a) \in Seq(Letters) /\ N(b) \in Seq(Letters) /\ N(c) \in Seq(Letters)
  BY NameIsText
<1>2. q.segs \in Seq(Seq(Letters))
  BY DEF IsPath
<1>3. ASSUME NEW T, NEW t \in Seq(T), NEW x \in T, NEW y \in T, NEW z \in T
      PROVE  /\ IsPrefix(<<x>>, t) <=> Len(t) >= 1 /\ t[1] = x
             /\ IsPrefix(<<x, y>>, t) <=> Len(t) >= 2 /\ t[1] = x /\ t[2] = y
             /\ IsPrefix(<<x, y, z>>, t) => Len(t) >= 1 /\ t[1] = x
  <2>1. /\ <<x>> \in Seq(T) /\ Len(<<x>>) = 1 /\ <<x>>[1] = x
        /\ <<x, y>> \in Seq(T) /\ Len(<<x, y>>) = 2
        /\ <<x, y>>[1] = x /\ <<x, y>>[2] = y
        /\ <<x, y, z>> \in Seq(T) /\ Len(<<x, y, z>>) = 3
        /\ <<x, y, z>>[1] = x /\ <<x, y, z>>[2] = y /\ <<x, y, z>>[3] = z
        /\ Len(t) \in Nat
    OBVIOUS
  <2>2. /\ \A k \in 1 .. 1 : k = 1
        /\ \A k \in 1 .. 2 : k = 1 \/ k = 2
        /\ 1 \in 1 .. 1 /\ 1 \in 1 .. 2 /\ 2 \in 1 .. 2 /\ 1 \in 1 .. 3
    OBVIOUS
  <2>3. \A s \in Seq(T) : IsPrefix(s, t)
          <=> Len(s) <= Len(t) /\ \A k \in 1 .. Len(s) : s[k] = t[k]
    BY PrefixIs
  <2>4. IsPrefix(<<x>>, t) <=> 1 <= Len(t) /\ \A k \in 1 .. 1 : <<x>>[k] = t[k]
    BY <2>1, <2>3
  <2>5. IsPrefix(<<x, y>>, t) <=> 2 <= Len(t) /\ \A k \in 1 .. 2 : <<x, y>>[k] = t[k]
    BY <2>1, <2>3
  <2>6. IsPrefix(<<x, y, z>>, t) <=> 3 <= Len(t) /\ \A k \in 1 .. 3 : <<x, y, z>>[k] = t[k]
    BY <2>1, <2>3
  <2>7. QED
    BY <2>1, <2>2, <2>4, <2>5, <2>6
<1>4. /\ Path1(a).segs = <<N(a)>> /\ Path2(a, b).segs = <<N(a), N(b)>>
      /\ InCode(<<N(a), N(b), N(c)>>).segs = <<N(a), N(b), N(c)>>
  BY DEF Path1, Path2, InCode
<1>5. \A x, y, z \in Seq(Letters) :
        /\ IsPrefix(<<x>>, q.segs) <=> Len(q.segs) >= 1 /\ q.segs[1] = x
        /\ IsPrefix(<<x, y>>, q.segs) <=> Len(q.segs) >= 2 /\ q.segs[1] = x /\ q.segs[2] = y
        /\ IsPrefix(<<x, y, z>>, q.segs) => Len(q.segs) >= 1 /\ q.segs[1] = x
  BY <1>2, <1>3
<1>6. /\ Within(Path1(a), q) <=> IsPrefix(<<N(a)>>, q.segs)
      /\ Within(Path2(a, b), q) <=> IsPrefix(<<N(a), N(b)>>, q.segs)
      /\ Within(InCode(<<N(a), N(b), N(c)>>), q) <=> IsPrefix(<<N(a), N(b), N(c)>>, q.segs)
  BY <1>4 DEF Within
<1>7. QED
  BY <1>1, <1>5, <1>6

(* Seen from any module, a pattern of names means what it says.            *)
LEMMA NamedPatterns ==
  ASSUME NEW p, IsPath(p), p.onDisk = FALSE, p.segs # <<>>, p.segs[1] # Self,
         NEW from, NEW q, IsPath(q)
  PROVE  /\ Matches(ExpandSelf(Under(p), from), q) <=> ~ q.onDisk /\ Within(p, q)
         /\ Matches(Under(p), q) <=> ~ q.onDisk /\ Within(p, q)
         /\ Matches(ExpandSelf(p, from), q) <=> ~ q.onDisk /\ p.segs = q.segs
         /\ Matches(p, q) <=> ~ q.onDisk /\ p.segs = q.segs
<1>1. p.segs \in Seq(Seq(Letters)) /\ Len(p.segs) \in Nat /\ Len(p.segs) # 0 /\ q.onDisk \in BOOLEAN
  BY DEF IsPath
<1>2. Under(p).segs = Append(p.segs, DoubleStar) /\ Under(p).onDisk = FALSE
  BY DEF Under
<1>3. Head(p.segs) = p.segs[1] /\ Head(Append(p.segs, DoubleStar)) = p.segs[1]
  BY <1>1
<1>4. ExpandSelf(p, from) = p /\ ExpandSelf(Under(p), from) = Under(p)
  BY <1>2, <1>3 DEF ExpandSelf
<1>5. /\ Matches(p, q) <=> p.onDisk = q.onDisk /\ p.segs = q.segs
      /\ Matches(Under(p), q) <=> p.onDisk = q.onDisk /\ IsPrefix(p.segs, q.segs)
  BY LiteralMatches, UnderMatches
<1>6. p.onDisk = q.onDisk <=> ~ q.onDisk
  BY <1>1
<1>7. QED
  BY <1>4, <1>5, <1>6 DEF Within

LEMMA OwnPattern ==
  ASSUME NEW from, IsPath(from), ~ from.onDisk, NEW q, IsPath(q)
  PROVE  Matches(ExpandSelf(Own, from), q) <=> ~ q.onDisk /\ Within(from, q)
<1>1. from.segs \in Seq(Seq(Letters)) /\ from.onDisk = FALSE /\ q.onDisk \in BOOLEAN
  BY DEF IsPath
<1>2. Own.segs = <<Self, DoubleStar>> /\ Own.onDisk = FALSE
  <2>1. /\ Under(InCode(<<Self>>)).segs = Append(<<Self>>, DoubleStar)
        /\ Under(InCode(<<Self>>)).onDisk = FALSE
    BY DEF Under, InCode
  <2>2. Append(<<Self>>, DoubleStar) = <<Self, DoubleStar>>
    <3> DEFINE T == {Self, DoubleStar}
               c == Append(<<Self>>, DoubleStar)
    <3>1. Self \in T /\ DoubleStar \in T
      OBVIOUS
    <3> HIDE DEF T
    <3>2. c \in Seq(T) /\ Len(c) = 2 /\ c[1] = Self /\ c[2] = DoubleStar
      BY <3>1
    <3>3. \A d \in Seq(T) : Len(d) = 2 => d = <<d[1], d[2]>>
      OBVIOUS
    <3> HIDE DEF c
    <3>4. c = <<Self, DoubleStar>>
      BY <3>2, <3>3
    <3>5. QED
      BY <3>4 DEF c
  <2>3. QED
    BY <2>1, <2>2 DEF Own
<1>3. Own.segs # <<>> /\ Head(Own.segs) = Self /\ Tail(Own.segs) = <<DoubleStar>>
  BY <1>2
<1>4. /\ ExpandSelf(Own, from).segs = from.segs \o <<DoubleStar>>
      /\ ExpandSelf(Own, from).onDisk = FALSE
  <2>1. DOMAIN Own = {"onDisk", "segs"}
    BY DEF Own, Under, InCode
  <2>2. QED
    BY <1>2, <1>3, <2>1 DEF ExpandSelf
<1>5. \A s : s \o <<DoubleStar>> = Append(s, DoubleStar)
  OBVIOUS
<1>6. Under(from).segs = Append(from.segs, DoubleStar) /\ Under(from).onDisk = FALSE
  BY <1>1 DEF Under
<1>7. Matches(ExpandSelf(Own, from), q) <=> Matches(Under(from), q)
  BY <1>4, <1>5, <1>6 DEF Matches
<1>8. QED
  BY <1>1, <1>7, UnderMatches DEF Within

(* A path lies within one module of the engine at most, and in the engine  *)
(* if it does in one.                                                      *)
LEMMA EngineModules ==
  ASSUME NEW q, IsPath(q)
  PROVE  /\ \A a \in RuleNames : Within(EngineModule(a), q) => InEngine(q)
         /\ \A a, b \in RuleNames :
              Within(EngineModule(a), q) /\ Within(EngineModule(b), q) => a = b
         /\ \A a \in RuleNames : Within(EngineModule(a), q) => q.segs # Engine.segs
         /\ \A a, b \in RuleNames :
              Within(Path1(a), q) /\ Within(Path1(b), q) => a = b
         /\ \A a \in RuleNames : Within(Path1(a), q) => Head(q.segs) = N(a)
         /\ \A c \in CTypes : Within(c, q) => Head(q.segs) \in {N("std"), N("core"), N("libc")}
<1>1. "engine" \in RuleNames /\ {"std", "core", "libc", "ffi", "os", "raw"} \subseteq RuleNames
  BY DEF RuleNames
<1>2. \A a \in RuleNames :
        /\ Within(Path1(a), q) <=> Len(q.segs) >= 1 /\ q.segs[1] = N(a)
        /\ Within(EngineModule(a), q)
             <=> Len(q.segs) >= 2 /\ q.segs[1] = N("engine") /\ q.segs[2] = N(a)
  <2>1. \A a, b \in RuleNames :
          /\ Within(Path1(a), q) <=> Len(q.segs) >= 1 /\ q.segs[1] = N(a)
          /\ Within(Path2(a, b), q)
               <=> Len(q.segs) >= 2 /\ q.segs[1] = N(a) /\ q.segs[2] = N(b)
    BY WithinIs
  <2>2. QED
    BY <1>1, <2>1 DEF EngineModule
<1>3. Len(q.segs) \in Nat /\ (Len(q.segs) >= 1 => Head(q.segs) = q.segs[1])
  BY DEF IsPath
<1>4. InEngine(q) <=> Len(q.segs) >= 1 /\ q.segs[1] = N("engine")
  BY <1>1, <1>2 DEF InEngine, Engine
<1>5. Engine.segs = <<N("engine")>> /\ Len(<<N("engine")>>) = 1
  BY DEF Engine, Path1, InCode
<1>6. \A a, b : N(a) = N(b) <=> a = b
  BY NamesDiffer
<1>7. ASSUME NEW c \in CTypes, Within(c, q)
      PROVE  Head(q.segs) \in {N("std"), N("core"), N("libc")}
  <2>1. \A a, b, d \in RuleNames :
          /\ Within(Path1(a), q) => Head(q.segs) = N(a)
          /\ Within(Path2(a, b), q) => Head(q.segs) = N(a)
          /\ Within(InCode(<<N(a), N(b), N(d)>>), q) => Head(q.segs) = N(a)
    <3>1. \A a, b, d \in RuleNames :
            /\ Within(Path1(a), q) => Len(q.segs) >= 1 /\ q.segs[1] = N(a)
            /\ Within(Path2(a, b), q) => Len(q.segs) >= 2 /\ q.segs[1] = N(a)
            /\ Within(InCode(<<N(a), N(b), N(d)>>), q) => Len(q.segs) >= 1 /\ q.segs[1] = N(a)
      BY WithinIs
    <3>2. Len(q.segs) >= 2 => Len(q.segs) >= 1
      BY <1>3
    <3>3. QED
      BY <1>3, <3>1, <3>2
  <2>2. CASE c = Path2("std", "ffi")
    BY <1>1, <1>7, <2>1, <2>2
  <2>3. CASE c = Path2("core", "ffi")
    BY <1>1, <1>7, <2>1, <2>3
  <2>4. CASE c = InCode(<<N("std"), N("os"), N("raw")>>)
    BY <1>1, <1>7, <2>1, <2>4
  <2>5. CASE c = Path1("libc")
    BY <1>1, <1>7, <2>1, <2>5
  <2>6. QED
    BY <2>2, <2>3, <2>4, <2>5 DEF CTypes
<1>8. QED
  BY <1>2, <1>3, <1>4, <1>5, <1>6, <1>7

(* The paths the rules about the engine are written with.                  *)
RulePaths == {Engine} \cup {EngineModule(a) : a \in RuleNames} \cup CTypes

LEMMA RulePathsMean ==
  ASSUME NEW p \in RulePaths, NEW from, NEW q, IsPath(q)
  PROVE  /\ Matches(ExpandSelf(Under(p), from), q) <=> ~ q.onDisk /\ Within(p, q)
         /\ Matches(Under(p), q) <=> ~ q.onDisk /\ Within(p, q)
         /\ Matches(ExpandSelf(p, from), q) <=> ~ q.onDisk /\ p.segs = q.segs
         /\ Matches(p, q) <=> ~ q.onDisk /\ p.segs = q.segs
<1>1. /\ "engine" \in RuleNames
      /\ {"std", "core", "libc", "ffi", "os", "raw"} \subseteq RuleNames
  BY DEF RuleNames
<1>2. ASSUME NEW a \in RuleNames, NEW b \in RuleNames, NEW c \in RuleNames,
             p \in {Path1(a), Path2(a, b), InCode(<<N(a), N(b), N(c)>>)}
      PROVE  IsPath(p) /\ p.onDisk = FALSE /\ p.segs # <<>> /\ p.segs[1] # Self
  <2>1. IsPath(p)
    BY <1>2, PathsAreSpelled
  <2>2. \A x, y, z : /\ <<x>> # <<>> /\ <<x>>[1] = x
                     /\ <<x, y>> # <<>> /\ <<x, y>>[1] = x
                     /\ <<x, y, z>> # <<>> /\ <<x, y, z>>[1] = x
    OBVIOUS
  <2>3. p.onDisk = FALSE /\ p.segs \in {<<N(a)>>, <<N(a), N(b)>>, <<N(a), N(b), N(c)>>}
    BY <1>2 DEF Path1, Path2, InCode
  <2>4. N(a) # Self
    BY NamesDiffer
  <2>5. QED
    BY <2>1, <2>2, <2>3, <2>4
<1>3. IsPath(p) /\ p.onDisk = FALSE /\ p.segs # <<>> /\ p.segs[1] # Self
  BY <1>1, <1>2 DEF RulePaths, Engine, EngineModule, CTypes
<1>4. QED
  BY <1>3, NamedPatterns

-----------------------------------------------------------------------------
(* What an edge that breaks no rule may be.                                *)

LEMMA RuleSays ==
  ASSUME NEW from, NEW scope, NEW allow, NEW deny, NEW e, NEW crates,
         ~ Breaks(Rule(from, scope, allow, deny), e, crates),
         scope \in {"all", e.scope},
         \E p \in from : Matches(p, e.from)
  PROVE  /\ \A p \in deny : ~ Matches(ExpandSelf(p, e.from), e.to)
         /\ IsInternal(e.to, crates) => \E p \in allow : Matches(ExpandSelf(p, e.from), e.to)
BY DEF Breaks, Rule, Covers, Hit

LEMMA EdgePaths ==
  ASSUME NEW e \in Candidates
  PROVE  /\ IsPath(e.from) /\ IsPath(e.to) /\ ~ e.from.onDisk
         /\ \A a \in {"engine", "conformance"} : Within(Path1(a), e.to) => IsInternal(e.to, GateCrates)
         /\ e.to \in Registered => IsInternal(e.to, GateCrates)
<1>1. /\ e.from \in Registered /\ IsPath(e.from) /\ ~ e.from.onDisk
      /\ IsPath(e.to)
  BY GateAssumption
<1>2. {"engine", "conformance"} \subseteq RuleNames
  BY DEF RuleNames
<1>3. \A a \in {"engine", "conformance"} :
        Within(Path1(a), e.to) => Head(e.to.segs) = N(a) /\ N(a) \in GateCrates
  BY <1>1, <1>2, EngineModules, GateAssumption DEF GateCrates
<1>4. e.to \in Registered => Head(e.to.segs) \in GateCrates
  BY GateAssumption DEF GateCrates
<1>5. QED
  BY <1>1, <1>3, <1>4 DEF IsInternal

LEMMA EngineEdges ==
  ASSUME NEW e \in Candidates, ~ Breaks(EngineIsTheBottom, e, GateCrates), InEngine(e.from)
  PROVE  /\ e.to \in Registered => InEngine(e.to)
         /\ ~ Within(Path1("conformance"), e.to)
         /\ ~ e.to.onDisk
         /\ \A c \in CTypes : ~ Within(c, e.to)
<1>1. /\ IsPath(e.from) /\ IsPath(e.to) /\ ~ e.from.onDisk
      /\ Within(Path1("conformance"), e.to) => IsInternal(e.to, GateCrates)
      /\ e.to \in Registered => IsInternal(e.to, GateCrates)
  BY EdgePaths
<1>2. Engine \in RulePaths /\ CTypes \subseteq RulePaths
  BY DEF RulePaths
<1>3. \E p \in {Under(Engine)} : Matches(p, e.from)
  BY <1>1, <1>2, RulePathsMean DEF InEngine
<1>4. /\ \A p \in {Under(c) : c \in CTypes} : ~ Matches(ExpandSelf(p, e.from), e.to)
      /\ IsInternal(e.to, GateCrates) =>
           \E p \in {Under(Engine)} : Matches(ExpandSelf(p, e.from), e.to)
  BY <1>3, RuleSays DEF EngineIsTheBottom
<1>5. IsInternal(e.to, GateCrates) => ~ e.to.onDisk /\ InEngine(e.to)
  BY <1>1, <1>2, <1>4, RulePathsMean DEF InEngine
<1>6. \A c \in CTypes : e.to.onDisk \/ ~ Within(c, e.to)
  BY <1>1, <1>2, <1>4, RulePathsMean
<1>7. e.to.onDisk => IsInternal(e.to, GateCrates)
  BY DEF IsInternal
<1>8. ~ (InEngine(e.to) /\ Within(Path1("conformance"), e.to))
  <2>1. {"engine", "conformance"} \subseteq RuleNames /\ "engine" # "conformance"
    BY DEF RuleNames
  <2>2. QED
    BY <1>1, <2>1, EngineModules DEF InEngine, Engine
<1>9. QED
  BY <1>1, <1>5, <1>6, <1>7, <1>8

Unbroken(e) == e.from = e.to \/ \A rule \in Rules : ~ Breaks(rule, e, GateCrates)

LEMMA WithinWithin ==
  ASSUME NEW a \in RuleNames, NEW p, IsPath(p), NEW q, IsPath(q),
         Within(EngineModule(a), p), Within(p, q)
  PROVE  Within(EngineModule(a), q)
<1>1. "engine" \in RuleNames
  BY DEF RuleNames
<1>2. ASSUME NEW r, IsPath(r)
      PROVE  Within(EngineModule(a), r)
               <=> Len(r.segs) >= 2 /\ r.segs[1] = N("engine") /\ r.segs[2] = N(a)
  BY <1>1, <1>2, WithinIs DEF EngineModule
<1>3. p.segs \in Seq(Seq(Letters)) /\ q.segs \in Seq(Seq(Letters))
  BY DEF IsPath
<1>4. /\ Len(p.segs) <= Len(q.segs)
      /\ \A k \in 1 .. Len(p.segs) : p.segs[k] = q.segs[k]
  BY <1>3, PrefixIs DEF Within
<1>5. /\ Len(p.segs) >= 2 /\ p.segs[1] = N("engine") /\ p.segs[2] = N(a)
      /\ Len(p.segs) \in Nat /\ Len(q.segs) \in Nat
  BY <1>2, <1>3
<1>6. Len(q.segs) >= 2 /\ q.segs[1] = p.segs[1] /\ q.segs[2] = p.segs[2]
  BY <1>4, <1>5
<1>7. QED
  BY <1>2, <1>5, <1>6

LEMMA LeafEdges ==
  ASSUME NEW e \in Candidates, NEW leaf \in {"send", "error"}, e.scope = "lib",
         Unbroken(e), Within(EngineModule(leaf), e.from), InEngine(e.to)
  PROVE  Within(EngineModule(leaf), e.to)
<1>1. CASE e.from = e.to
  BY <1>1
<1>2. CASE \A rule \in Rules : ~ Breaks(rule, e, GateCrates)
  <2>1. /\ IsPath(e.from) /\ IsPath(e.to) /\ ~ e.from.onDisk
        /\ IsInternal(e.to, GateCrates)
    BY EdgePaths DEF InEngine, Engine
  <2>2. EngineModule(leaf) \in RulePaths
    BY DEF RulePaths, RuleNames
  <2>3. \E p \in {Under(EngineModule(leaf))} : Matches(p, e.from)
    BY <2>1, <2>2, RulePathsMean
  <2>4. ~ Breaks(Rule({Under(EngineModule(leaf))}, "lib", {Under(EngineModule(leaf))}, {}),
                 e, GateCrates)
    BY <1>2 DEF Rules, SendIsALeaf, ErrorIsALeaf
  <2>5. \E p \in {Under(EngineModule(leaf))} : Matches(ExpandSelf(p, e.from), e.to)
    BY <2>1, <2>3, <2>4, RuleSays
  <2>6. QED
    BY <2>1, <2>2, <2>5, RulePathsMean
<1>3. QED
  BY <1>1, <1>2 DEF Unbroken

(* Whatever the kernel may use is neither the router's nor a component's.  *)
LEMMA KernelIsBelow ==
  ASSUME NEW q, IsPath(q), NEW from, NEW p \in Kernel, Matches(ExpandSelf(p, from), q)
  PROVE  ~ IsRouter(q) /\ ComponentOf(q) = {}
<1>1. /\ Engine \in RulePaths /\ \A a \in RuleNames : EngineModule(a) \in RulePaths
      /\ {"error", "rebuild", "context", "router"} \cup Components \subseteq RuleNames
      /\ \A a \in {"error", "rebuild", "context"} : a # "router" /\ a \notin Components
  BY DEF RulePaths, RuleNames, Components
<1>2. CASE p = Engine
  <2>1. q.segs = Engine.segs
    BY <1>1, <1>2, RulePathsMean
  <2>2. QED
    BY <1>1, <2>1, EngineModules DEF IsRouter, ComponentOf
<1>3. ASSUME NEW a \in {"error", "rebuild", "context"}, p = Under(EngineModule(a))
      PROVE  ~ IsRouter(q) /\ ComponentOf(q) = {}
  <2>1. Within(EngineModule(a), q)
    BY <1>1, <1>3, RulePathsMean
  <2>2. QED
    BY <1>1, <2>1, EngineModules DEF IsRouter, ComponentOf
<1>4. QED
  BY <1>2, <1>3 DEF Kernel

LEMMA LibEdges ==
  ASSUME NEW e \in Candidates, e.scope = "lib", Unbroken(e),
         InEngine(e.from), ~ IsRouter(e.from)
  PROVE  ~ IsRouter(e.to) /\ ComponentOf(e.to) \subseteq ComponentOf(e.from)
<1>1. /\ IsPath(e.from) /\ IsPath(e.to) /\ ~ e.from.onDisk
      /\ InEngine(e.to) => IsInternal(e.to, GateCrates)
  BY EdgePaths DEF InEngine, Engine
<1>2. /\ Engine \in RulePaths /\ \A a \in RuleNames : EngineModule(a) \in RulePaths
      /\ {"send", "error", "rebuild", "context", "router"} \cup Components \subseteq RuleNames
      /\ \A a \in {"send", "error"} : a # "router" /\ a \notin Components
  BY DEF RulePaths, RuleNames, Components
<1>3. CASE ~ InEngine(e.to)
  BY <1>1, <1>2, <1>3, EngineModules DEF IsRouter, ComponentOf
<1>4. CASE e.from = e.to
  BY <1>4
<1>5. ASSUME InEngine(e.to), \A rule \in Rules : ~ Breaks(rule, e, GateCrates)
      PROVE  ~ IsRouter(e.to) /\ ComponentOf(e.to) \subseteq ComponentOf(e.from)
  <2>1. ASSUME NEW leaf \in {"send", "error"}, Within(EngineModule(leaf), e.from)
        PROVE  ~ IsRouter(e.to) /\ ComponentOf(e.to) \subseteq ComponentOf(e.from)
    <3>1. Within(EngineModule(leaf), e.to)
      BY <1>5, <2>1, LeafEdges
    <3>2. QED
      BY <1>1, <1>2, <3>1, EngineModules DEF IsRouter, ComponentOf
  <2>2. ASSUME \E p \in {Engine, Under(EngineModule("rebuild")), Under(EngineModule("context"))} :
                 Matches(p, e.from)
        PROVE  ~ IsRouter(e.to) /\ ComponentOf(e.to) \subseteq ComponentOf(e.from)
    <3>1. ~ Breaks(KernelBelowComponents, e, GateCrates)
      BY <1>5 DEF Rules
    <3>2. \E p \in Kernel : Matches(ExpandSelf(p, e.from), e.to)
      BY <1>1, <1>5, <2>2, <3>1, RuleSays DEF KernelBelowComponents
    <3>3. QED
      BY <1>1, <3>2, KernelIsBelow
  <2>3. ASSUME NEW c \in Components, Within(EngineModule(c), e.from)
        PROVE  ~ IsRouter(e.to) /\ ComponentOf(e.to) \subseteq ComponentOf(e.from)
    <3>1. Matches(Under(EngineModule(c)), e.from)
      BY <1>1, <1>2, <2>3, RulePathsMean
    <3>2. ~ Breaks(ComponentsAreIndependent, e, GateCrates)
      BY <1>5 DEF Rules
    <3>3. \E p \in {Own} \cup Kernel : Matches(ExpandSelf(p, e.from), e.to)
      BY <1>1, <1>5, <3>1, <3>2, RuleSays DEF ComponentsAreIndependent
    <3>4. CASE \E p \in Kernel : Matches(ExpandSelf(p, e.from), e.to)
      BY <1>1, <3>4, KernelIsBelow
    <3>5. CASE Matches(ExpandSelf(Own, e.from), e.to)
      <4>1. Within(e.from, e.to)
        BY <1>1, <3>5, OwnPattern
      <4>2. Within(EngineModule(c), e.to)
        BY <1>1, <1>2, <2>3, <4>1, WithinWithin
      <4>3. QED
        BY <1>1, <1>2, <2>3, <4>2, EngineModules DEF IsRouter, ComponentOf
    <3>6. QED
      BY <3>3, <3>4, <3>5
  <2>4. e.from = Engine => Matches(Engine, e.from)
    BY <1>1, <1>2, RulePathsMean
  <2>5. \A a \in {"rebuild", "context"} :
          Within(EngineModule(a), e.from) => Matches(Under(EngineModule(a)), e.from)
    BY <1>1, <1>2, RulePathsMean
  <2>6. \/ e.from = Engine
        \/ \E name \in {"send", "error", "rebuild", "context", "router"} \cup Components :
              Within(EngineModule(name), e.from)
    BY LayerAssumption
  <2>7. QED
    BY <2>1, <2>2, <2>3, <2>4, <2>5, <2>6 DEF IsRouter
<1>6. QED
  BY <1>3, <1>4, <1>5 DEF Unbroken

-----------------------------------------------------------------------------
(* What is reached lies in every set no used reference leaves.             *)

IsReach(h, n, from, used) ==
  h = [k \in 0 .. n |->
         IF k = 0 THEN {from}
         ELSE h[k - 1] \cup {e.to : e \in {f \in used : f.from \in h[k - 1]}}]

LEMMA ReachIs ==
  ASSUME NEW from, NEW used, NEW n \in Nat
  PROVE  \E h : IsReach(h, n, from, used)
<1> DEFINE Is(h, m) == IsReach(h, m, from, used)
           S == {m \in Nat : \E h : Is(h, m)}
           Next1(near) == near \cup {e.to : e \in {f \in used : f.from \in near}}
<1>1. 0 \in S
  <2>1. Is([k \in 0 .. 0 |-> {from}], 0)
    BY DEF IsReach
  <2> HIDE DEF Is
  <2>2. QED
    BY <2>1
<1>2. ASSUME NEW m \in Nat, m \in S
      PROVE  m + 1 \in S
  <2>1. PICK h : Is(h, m)
    BY <1>2
  <2> DEFINE g == [k \in 0 .. m + 1 |-> IF k = m + 1 THEN Next1(h[m]) ELSE h[k]]
  <2>2. /\ h = [k \in 0 .. m |-> h[k]]
        /\ \A k \in 0 .. m : h[k] = IF k = 0 THEN {from} ELSE Next1(h[k - 1])
    BY <2>1 DEF IsReach
  <2> HIDE DEF Next1
  <2>3. \A k \in 0 .. m : g[k] = h[k]
    OBVIOUS
  <2>4. \A k \in 0 .. m + 1 : g[k] = IF k = 0 THEN {from} ELSE Next1(g[k - 1])
    <3>1. TAKE k \in 0 .. m + 1
    <3>2. CASE k = m + 1
      <4>1. g[k] = Next1(h[m]) /\ g[m] = h[m] /\ k # 0 /\ k - 1 = m
        BY <2>3, <3>2
      <4> HIDE DEF g
      <4>2. QED
        BY <4>1
    <3>3. CASE k \in 0 .. m
      <4>1. g[k] = h[k] /\ (k # 0 => g[k - 1] = h[k - 1])
        BY <2>3, <3>3
      <4> HIDE DEF g
      <4>2. QED
        BY <2>2, <3>3, <4>1
    <3>4. QED
      BY <3>2, <3>3
  <2>5. g = [k \in 0 .. m + 1 |-> g[k]]
    OBVIOUS
  <2> HIDE DEF g
  <2>6. Is(g, m + 1)
    BY <2>4, <2>5 DEF IsReach, Next1
  <2> HIDE DEF Is
  <2>7. QED
    BY <2>6
<1> HIDE DEF S
<1>3. n \in S
  BY <1>1, <1>2, SetInduction
<1>4. QED
  BY <1>3 DEF S

LEMMA DependsInClosed ==
  ASSUME IsFiniteSet(merged), NEW from, NEW scopes, NEW S, from \in S,
         \A e \in merged : e.scope \in scopes /\ e.from \in S => e.to \in S
  PROVE  Depends(from, scopes) \subseteq S
<1> DEFINE used == {e \in merged : e.scope \in scopes}
           n == Cardinality(used)
<1>1. n \in Nat
  <2>1. used \subseteq merged
    OBVIOUS
  <2> HIDE DEF used
  <2>2. IsFiniteSet(used)
    BY <2>1, FS_Subset
  <2>3. QED
    BY <2>2, FS_CardinalityType
<1> HIDE DEF n
<1>2. \E h : IsReach(h, n, from, used)
  BY <1>1, ReachIs
<1>3. PICK h : IsReach(h, n, from, used) /\ Depends(from, scopes) = h[n] \ {from}
  BY <1>2 DEF Depends, n, IsReach
<1>4. /\ h[0] = {from}
      /\ \A k \in 1 .. n : h[k] = h[k - 1] \cup {e.to : e \in {f \in used : f.from \in h[k - 1]}}
  <2>1. \A k \in 0 .. n : h[k] =
          IF k = 0 THEN {from}
          ELSE h[k - 1] \cup {e.to : e \in {f \in used : f.from \in h[k - 1]}}
    BY <1>3 DEF IsReach
  <2> DEFINE Near(k) == h[k] \cup {e.to : e \in {f \in used : f.from \in h[k]}}
  <2>2. \A k \in 0 .. n : h[k] = IF k = 0 THEN {from} ELSE Near(k - 1)
    BY <2>1
  <2> HIDE DEF used, Near
  <2>3. h[0] = {from} /\ \A k \in 1 .. n : h[k] = Near(k - 1)
    BY <1>1, <2>2
  <2>4. QED
    BY <2>3 DEF Near
<1> DEFINE I == {m \in Nat : m <= n => h[m] \subseteq S}
<1>5. 0 \in I
  BY <1>4
<1>6. ASSUME NEW m \in Nat, m \in I
      PROVE  m + 1 \in I
  <2>1. SUFFICES ASSUME m + 1 <= n
                 PROVE  h[m + 1] \subseteq S
    OBVIOUS
  <2>2. m + 1 \in 1 .. n /\ (m + 1) - 1 = m /\ m <= n
    BY <1>1, <2>1
  <2>3. h[m] \subseteq S
    BY <1>6, <2>2
  <2>4. h[m + 1] = h[m] \cup {e.to : e \in {f \in used : f.from \in h[m]}}
    BY <1>4, <2>2
  <2>5. {e.to : e \in {f \in used : f.from \in h[m]}} \subseteq S
    BY <2>3
  <2>6. QED
    BY <2>3, <2>4, <2>5
<1> HIDE DEF I
<1>7. n \in I
  BY <1>1, <1>5, <1>6, SetInduction
<1>8. h[n] \subseteq S
  BY <1>1, <1>7 DEF I
<1>9. QED
  BY <1>3, <1>8

-----------------------------------------------------------------------------
(* The gate.                                                               *)

(* Each reference merged breaks no rule, alone: all the gate looks at.     *)
GateInv == merged \subseteq Candidates /\ \A e \in merged : Unbroken(e)

LEMMA AcceptedIsUnbroken ==
  ASSUME NEW e \in Candidates, NEW graph, e \in graph, Accepts(graph)
  PROVE  Unbroken(e)
<1>1. ASSUME e.from # e.to, NEW rule \in Rules, Breaks(rule, e, GateCrates)
      PROVE  FALSE
  <2>1. <<rule, e>> \in Breakings
    BY <1>1 DEF Breakings, Violations
  <2>2. <<rule, e>>[2] = e
    OBVIOUS
  <2>3. QED
    BY <2>1, <2>2 DEF Accepts
<1>2. QED
  BY <1>1 DEF Unbroken

LEMMA GateInvInductive ==
  /\ GateInit => GateInv
  /\ GateInv /\ [GateNext]_merged => GateInv'
<1>1. GateInit => GateInv
  BY DEF GateInit, GateInv
<1>2. ASSUME GateInv, [GateNext]_merged
      PROVE  GateInv'
  <2>1. ASSUME NEW edge \in Candidates, AddReference(edge)
        PROVE  GateInv'
    <3>1. Unbroken(edge)
      BY <2>1, AcceptedIsUnbroken DEF AddReference
    <3>2. QED
      BY <1>2, <2>1, <3>1 DEF GateInv, AddReference
  <2>2. ASSUME NEW edge \in Candidates, DropReference(edge)
        PROVE  GateInv'
    BY <1>2, <2>2 DEF GateInv, DropReference
  <2>3. CASE UNCHANGED merged
    BY <1>2, <2>3 DEF GateInv
  <2>4. QED
    BY <1>2, <2>1, <2>2, <2>3 DEF GateNext
<1>3. QED
  BY <1>1, <1>2

LEMMA MergedIsFinite ==
  ASSUME GateInv
  PROVE  IsFiniteSet(merged)
BY GateAssumption, FS_Subset DEF GateInv

(* Edge by edge the rules keep library code of a component to itself and   *)
(* the kernel, so what it reaches stays there.                             *)
LEMMA LayersFromInv ==
  ASSUME GateInv
  PROVE  LayersHoldAllTheWay
<1>1. SUFFICES ASSUME NEW edge \in merged, InEngine(edge.from), ~ IsRouter(edge.from)
               PROVE  \A t \in Depends(edge.from, {"lib"}) :
                        ~ IsRouter(t) /\ ComponentOf(t) \subseteq ComponentOf(edge.from)
  BY DEF LayersHoldAllTheWay
<1> DEFINE m == edge.from
           S == {t \in {m} \cup {e.to : e \in merged} :
                   /\ ~ IsRouter(t) /\ ComponentOf(t) \subseteq ComponentOf(m)
                   /\ t \in Registered => InEngine(t)}
<1>2. m \in S
  BY <1>1
<1>3. ASSUME NEW e \in merged, e.scope = "lib", e.from \in S
      PROVE  e.to \in S
  <2>1. e \in Candidates /\ e.from \in Registered /\ Unbroken(e)
    BY GateAssumption DEF GateInv
  <2>2. InEngine(e.from) /\ ~ IsRouter(e.from) /\ ComponentOf(e.from) \subseteq ComponentOf(m)
    BY <1>3, <2>1
  <2>3. ~ IsRouter(e.to) /\ ComponentOf(e.to) \subseteq ComponentOf(e.from)
    BY <1>3, <2>1, <2>2, LibEdges
  <2>4. e.to \in Registered => InEngine(e.to)
    <3>1. CASE e.from = e.to
      BY <2>2, <3>1
    <3>2. CASE ~ Breaks(EngineIsTheBottom, e, GateCrates)
      BY <2>1, <2>2, <3>2, EngineEdges
    <3>3. QED
      BY <2>1, <3>1, <3>2 DEF Unbroken, Rules
  <2>5. QED
    BY <2>2, <2>3, <2>4
<1> HIDE DEF S
<1>4. Depends(m, {"lib"}) \subseteq S
  BY <1>2, <1>3, MergedIsFinite, DependsInClosed
<1>5. QED
  BY <1>4 DEF S

LEMMA StandsAloneFromInv ==
  ASSUME GateInv
  PROVE  EngineStandsAlone
<1>1. SUFFICES ASSUME NEW edge \in merged, InEngine(edge.from)
               PROVE  /\ \A t \in Depends(edge.from, {"lib", "test"}) :
                           /\ ~ Within(Path1("conformance"), t)
                           /\ \A c \in CTypes : ~ Within(c, t)
                      /\ \A leaf \in {"send", "error"} :
                           Within(EngineModule(leaf), edge.from) =>
                             \A t \in Depends(edge.from, {"lib"}) :
                               InEngine(t) => Within(EngineModule(leaf), t)
  BY DEF EngineStandsAlone
<1> DEFINE m == edge.from
           All == {m} \cup {e.to : e \in merged}
<1>2. ASSUME NEW e \in merged, e.from \in Registered => InEngine(e.from)
      PROVE  /\ e \in Candidates /\ IsPath(e.from) /\ Unbroken(e)
             /\ InEngine(e.from)
             /\ e.to \in Registered => InEngine(e.to)
             /\ e.to # e.from => /\ ~ Within(Path1("conformance"), e.to)
                                /\ \A c \in CTypes : ~ Within(c, e.to)
  <2>1. e \in Candidates /\ e.from \in Registered /\ IsPath(e.from) /\ Unbroken(e)
    BY GateAssumption DEF GateInv
  <2>2. QED
    BY <1>2, <2>1, EngineEdges DEF Unbroken, Rules
<1>3. /\ ~ Within(Path1("conformance"), m)
      /\ \A c \in CTypes : ~ Within(c, m)
  <2>1. IsPath(m)
    BY GateAssumption DEF GateInv
  <2>2. {"engine", "conformance"} \subseteq RuleNames
    BY DEF RuleNames
  <2>3. "engine" # "conformance" /\ "engine" \notin {"std", "core", "libc"}
    OBVIOUS
  <2>4. Head(m.segs) = N("engine") /\ N("engine") \notin {N("std"), N("core"), N("libc")}
    BY <1>1, <2>1, <2>2, <2>3, EngineModules, NamesDiffer DEF InEngine, Engine
  <2>5. QED
    BY <1>1, <2>1, <2>2, <2>3, <2>4, EngineModules DEF InEngine, Engine
<1>4. \A t \in Depends(m, {"lib", "test"}) :
        /\ ~ Within(Path1("conformance"), t)
        /\ \A c \in CTypes : ~ Within(c, t)
  <2> DEFINE S == {t \in All : /\ ~ Within(Path1("conformance"), t)
                               /\ \A c \in CTypes : ~ Within(c, t)
                               /\ t \in Registered => InEngine(t)}
  <2>1. m \in S
    BY <1>1, <1>3
  <2>2. \A e \in merged : e.from \in S => e.to \in S
    BY <1>2
  <2> HIDE DEF S
  <2>3. Depends(m, {"lib", "test"}) \subseteq S
    BY <2>1, <2>2, MergedIsFinite, DependsInClosed
  <2>4. QED
    BY <2>3 DEF S
<1>5. ASSUME NEW leaf \in {"send", "error"}, Within(EngineModule(leaf), m)
      PROVE  \A t \in Depends(m, {"lib"}) : InEngine(t) => Within(EngineModule(leaf), t)
  <2> DEFINE S == {t \in All : /\ InEngine(t) => Within(EngineModule(leaf), t)
                               /\ t \in Registered => InEngine(t)}
  <2>1. m \in S
    BY <1>1, <1>5
  <2>2. ASSUME NEW e \in merged, e.scope = "lib", e.from \in S
        PROVE  e.to \in S
    <3>1. /\ e \in Candidates /\ Unbroken(e) /\ InEngine(e.from)
          /\ e.to \in Registered => InEngine(e.to)
      BY <1>2, <2>2
    <3>2. Within(EngineModule(leaf), e.from)
      BY <2>2, <3>1
    <3>3. InEngine(e.to) => Within(EngineModule(leaf), e.to)
      BY <2>2, <3>1, <3>2, LeafEdges
    <3>4. QED
      BY <3>1, <3>3
  <2> HIDE DEF S
  <2>3. Depends(m, {"lib"}) \subseteq S
    BY <2>1, <2>2, MergedIsFinite, DependsInClosed
  <2>4. QED
    BY <2>3 DEF S
<1>6. QED
  BY <1>4, <1>5

(* However references are merged and dropped, behind the gate no chain of  *)
(* library references leads from the kernel to a component or the router,  *)
(* or from a component to another or the router.                           *)
THEOREM LayersHold == GateSpec => []LayersHoldAllTheWay
<1>1. GateSpec => []GateInv
  BY GateInvInductive, PTL DEF GateSpec
<1>2. GateInv => LayersHoldAllTheWay
  BY LayersFromInv
<1>3. QED
  BY <1>1, <1>2, PTL

(* However references are merged and dropped, the engine reaches neither   *)
(* the conformance crate nor a C type, and its leaves reach nothing else   *)
(* of it.                                                                  *)
THEOREM EngineAlone == GateSpec => []EngineStandsAlone
<1>1. GateSpec => []GateInv
  BY GateInvInductive, PTL DEF GateSpec
<1>2. GateInv => EngineStandsAlone
  BY StandsAloneFromInv
<1>3. QED
  BY <1>1, <1>2, PTL

-----------------------------------------------------------------------------
(* Sequences by their last element.                                        *)

LEMMA FrontAndLast ==
  ASSUME NEW S, NEW s \in Seq(S), s # <<>>
  PROVE  /\ Front(s) \in Seq(S) /\ Len(Front(s)) = Len(s) - 1
         /\ Last(s) \in S
         /\ Append(Front(s), Last(s)) = s
         /\ \A k \in 1 .. Len(s) - 1 : Front(s)[k] = s[k]
<1>1. Len(s) \in Nat /\ Len(s) # 0
  OBVIOUS
<1> DEFINE f == SubSeq(s, 1, Len(s) - 1)
<1>2. f \in Seq(S) /\ Len(f) = Len(s) - 1 /\ \A k \in 1 .. Len(s) - 1 : f[k] = s[k]
  <2>1. \A n \in 0 .. Len(s) : /\ SubSeq(s, 1, n) \in Seq(S) /\ Len(SubSeq(s, 1, n)) = n
                               /\ \A k \in 1 .. n : SubSeq(s, 1, n)[k] = s[k]
    BY <1>1
  <2>2. Len(s) - 1 \in 0 .. Len(s)
    BY <1>1
  <2>3. QED
    BY <2>1, <2>2
<1>3. Front(s) = f /\ Last(s) = s[Len(s)] /\ s[Len(s)] \in S
  BY <1>1 DEF Front, Last
<1> HIDE DEF f
<1> DEFINE a == Append(f, s[Len(s)])
<1>4. /\ a \in Seq(S) /\ Len(a) = Len(s)
      /\ \A k \in 1 .. Len(s) : a[k] = s[k]
  BY <1>1, <1>2, <1>3
<1> HIDE DEF a
<1>5. a = s
  BY <1>4, SameSequence
<1>6. QED
  BY <1>2, <1>3, <1>5 DEF a

LEMMA AppendFrontAndLast ==
  ASSUME NEW S, NEW s \in Seq(S), NEW c \in S
  PROVE  /\ Append(s, c) \in Seq(S) /\ Append(s, c) # <<>>
         /\ Front(Append(s, c)) = s
         /\ Last(Append(s, c)) = c
<1> DEFINE a == Append(s, c)
<1>1. /\ a \in Seq(S) /\ Len(a) = Len(s) + 1 /\ a[Len(a)] = c /\ a # <<>>
      /\ Len(s) \in Nat /\ \A k \in 1 .. Len(s) : a[k] = s[k]
  OBVIOUS
<1> HIDE DEF a
<1>2. /\ Front(a) \in Seq(S) /\ Len(Front(a)) = Len(s)
      /\ \A k \in 1 .. Len(s) : Front(a)[k] = s[k]
  BY <1>1, FrontAndLast
<1>3. Front(a) = s
  BY <1>2, SameSequence
<1>4. Last(a) = c
  BY <1>1 DEF Last
<1>5. QED
  BY <1>1, <1>3, <1>4 DEF a

-----------------------------------------------------------------------------
(* The tables of the scan.                                                 *)

(* What is registered is a tree below the roots: every module but a root   *)
(* is a child of its parent and of the parent's root, every child is       *)
(* registered, and every alias is imported by an item that was read.       *)
IsInfo(info) == DOMAIN info = {"root", "children", "aliases"}

Imported(items, m, n, path) ==
  \E i \in items : /\ i.kind = "use" /\ i.module = m
                  /\ \E k \in DOMAIN Imports(i) :
                       Imports(i)[k].name = n /\ Imports(i)[k].path = path

ModulesInv ==
  /\ modules = [m \in DOMAIN modules |-> modules[m]]
  /\ DOMAIN modules \subseteq Roots \cup Modules
  /\ \A m \in DOMAIN modules :
       /\ IsInfo(modules[m])
       /\ modules[m].root \in Roots
       /\ modules[m].root \in DOMAIN modules
       /\ m \in Roots => modules[m].root = m
       /\ m \notin Roots => /\ Front(m) \in DOMAIN modules
                            /\ modules[Front(m)].root = modules[m].root
                            /\ Last(m) \in modules[Front(m)].children
       /\ \A c \in modules[m].children : c \in Names /\ Append(m, c) \in DOMAIN modules
       /\ \A n \in DOMAIN modules[m].aliases : Imported(read, m, n, modules[m].aliases[n])

LEMMA ModulesArePaths ==
  ASSUME ModulesInv, NEW m \in DOMAIN modules
  PROVE  /\ m \in Seq(Names) /\ m # <<>> /\ Len(m) \in Nat \ {0}
         /\ m \in Seq(Names \ Keywords)
<1>1. m \in Seq(Names \ Keywords) /\ m # <<>>
  BY ScanAssumption DEF ModulesInv
<1>2. QED
  BY <1>1

(* A module registered again keeps what it holds.                          *)
LEMMA RegisterAgain ==
  ASSUME ModulesInv, NEW module \in DOMAIN modules, module \notin Roots,
         modules' = Register(module, modules[Front(module)].root)
  PROVE  /\ DOMAIN modules' = DOMAIN modules
         /\ modules' = [m \in DOMAIN modules' |-> modules'[m]]
         /\ \A m \in DOMAIN modules : /\ IsInfo(modules'[m])
                                     /\ modules'[m].root = modules[m].root
                                     /\ modules'[m].children = modules[m].children
                                     /\ modules'[m].aliases = modules[m].aliases
<1> DEFINE parent == Front(module)
<1>1. /\ parent \in DOMAIN modules /\ modules[parent].root = modules[module].root
      /\ Last(module) \in modules[parent].children
  BY DEF ModulesInv
<1>2. /\ DOMAIN modules' = DOMAIN modules \cup {module}
      /\ modules' = [m \in DOMAIN modules' |-> modules'[m]]
      /\ modules'[module] = [root |-> modules[parent].root,
                             children |-> modules[module].children,
                             aliases |-> modules[module].aliases]
      /\ \A m \in DOMAIN modules : m # module =>
           modules'[m] = IF m = parent
                         THEN [modules[m] EXCEPT !.children = @ \cup {Last(module)}]
                         ELSE modules[m]
  BY DEF Register
<1>3. /\ IsInfo(modules'[module]) /\ modules'[module].root = modules[parent].root
      /\ modules'[module].children = modules[module].children
      /\ modules'[module].aliases = modules[module].aliases
  BY <1>2 DEF IsInfo
<1>4. ASSUME NEW m \in DOMAIN modules, m # module
      PROVE  /\ IsInfo(modules'[m])
             /\ modules'[m].root = modules[m].root
             /\ modules'[m].children = modules[m].children
             /\ modules'[m].aliases = modules[m].aliases
  <2>1. DOMAIN modules[m] = {"root", "children", "aliases"}
    BY DEF ModulesInv, IsInfo
  <2>2. CASE m = parent
    <3>1. modules'[m] = [modules[m] EXCEPT !.children = modules[m].children \cup {Last(module)}]
      BY <1>2, <1>4, <2>2
    <3>2. modules[m].children \cup {Last(module)} = modules[m].children
      BY <1>1, <2>2
    <3>3. QED
      BY <2>1, <3>1, <3>2 DEF IsInfo
  <2>3. CASE m # parent
    BY <1>2, <1>4, <2>1, <2>3 DEF IsInfo
  <2>4. QED
    BY <2>2, <2>3
<1>5. QED
  BY <1>1, <1>2, <1>3, <1>4

LEMMA RegisterAgainKeeps ==
  ASSUME ModulesInv, NEW module \in DOMAIN modules, module \notin Roots,
         modules' = Register(module, modules[Front(module)].root), read' = read
  PROVE  /\ ModulesInv'
         /\ DOMAIN modules' = DOMAIN modules
         /\ \A m \in DOMAIN modules : modules'[m].root = modules[m].root
<1>1. /\ DOMAIN modules' = DOMAIN modules
      /\ modules' = [m \in DOMAIN modules' |-> modules'[m]]
      /\ \A m \in DOMAIN modules : /\ IsInfo(modules'[m])
                                  /\ modules'[m].root = modules[m].root
                                  /\ modules'[m].children = modules[m].children
                                  /\ modules'[m].aliases = modules[m].aliases
  BY RegisterAgain
<1>2. ASSUME NEW m \in DOMAIN modules
      PROVE  /\ modules[m].root \in Roots
             /\ modules[m].root \in DOMAIN modules
             /\ m \in Roots => modules[m].root = m
             /\ m \notin Roots => /\ Front(m) \in DOMAIN modules
                                  /\ modules[Front(m)].root = modules[m].root
                                  /\ Last(m) \in modules[Front(m)].children
             /\ \A c \in modules[m].children : c \in Names /\ Append(m, c) \in DOMAIN modules
             /\ \A n \in DOMAIN modules[m].aliases : Imported(read, m, n, modules[m].aliases[n])
  BY DEF ModulesInv
<1>3. DOMAIN modules' \subseteq Roots \cup Modules
  BY <1>1 DEF ModulesInv
<1>4. ASSUME NEW m \in DOMAIN modules'
      PROVE  /\ IsInfo(modules'[m])
             /\ modules'[m].root \in Roots
             /\ modules'[m].root \in DOMAIN modules'
             /\ m \in Roots => modules'[m].root = m
             /\ m \notin Roots => /\ Front(m) \in DOMAIN modules'
                                  /\ modules'[Front(m)].root = modules'[m].root
                                  /\ Last(m) \in modules'[Front(m)].children
             /\ \A c \in modules'[m].children : c \in Names /\ Append(m, c) \in DOMAIN modules'
             /\ \A n \in DOMAIN modules'[m].aliases : Imported(read', m, n, modules'[m].aliases[n])
  <2>1. m \in DOMAIN modules
    BY <1>1, <1>4
  <2>2. m \notin Roots => /\ Front(m) \in DOMAIN modules'
                         /\ modules'[Front(m)].root = modules'[m].root
                         /\ Last(m) \in modules'[Front(m)].children
    BY <1>1, <1>2, <2>1
  <2>3. \A n \in DOMAIN modules'[m].aliases : Imported(read', m, n, modules'[m].aliases[n])
    BY <1>1, <1>2, <2>1
  <2>4. QED
    BY <1>1, <1>2, <2>1, <2>2, <2>3
<1>5. ModulesInv'
  BY <1>1, <1>3, <1>4 DEF ModulesInv
<1>6. QED
  BY <1>1, <1>5

(* register adds a module, a root of its own or below one registered.      *)
LEMMA RegisterKeeps ==
  ASSUME ModulesInv, NEW module \in Roots \cup Modules, module \notin DOMAIN modules, NEW root,
         \/ module \in Roots /\ root = module
         \/ /\ module \notin Roots /\ Front(module) \in DOMAIN modules
            /\ root = modules[Front(module)].root,
         modules' = Register(module, root), read' = read
  PROVE  /\ ModulesInv'
         /\ DOMAIN modules' = DOMAIN modules \cup {module}
         /\ \A m \in DOMAIN modules : modules'[m].root = modules[m].root
         /\ modules'[module].root = root
<1> DEFINE parent == Front(module)
<1>1. /\ module \in Seq(Names) /\ module # <<>> /\ parent \in Seq(Names)
      /\ Last(module) \in Names /\ Append(parent, Last(module)) = module
      /\ Len(parent) = Len(module) - 1 /\ Len(module) \in Nat
  <2>1. module \in Seq(Names \ Keywords) /\ module # <<>>
    BY ScanAssumption
  <2>2. module \in Seq(Names)
    BY <2>1
  <2>3. QED
    BY <2>1, <2>2, FrontAndLast
<1>2. parent # module
  BY <1>1
<1>3. /\ DOMAIN modules' = DOMAIN modules \cup {module}
      /\ modules' = [m \in DOMAIN modules' |-> modules'[m]]
      /\ modules'[module] = [root |-> root, children |-> {}, aliases |-> <<>>]
      /\ \A m \in DOMAIN modules :
           modules'[m] = IF m = parent
                         THEN [modules[m] EXCEPT !.children = @ \cup {Last(module)}]
                         ELSE modules[m]
  BY DEF Register
<1>4. /\ IsInfo(modules'[module]) /\ modules'[module].root = root
      /\ modules'[module].children = {}
      /\ DOMAIN modules'[module].aliases = {}
  BY <1>3 DEF IsInfo
<1>5. \A m \in DOMAIN modules :
        /\ IsInfo(modules'[m])
        /\ modules'[m].root = modules[m].root
        /\ modules'[m].aliases = modules[m].aliases
        /\ modules'[m].children = modules[m].children \cup
                                    (IF m = parent THEN {Last(module)} ELSE {})
  <2>1. TAKE m \in DOMAIN modules
  <2>2. DOMAIN modules[m] = {"root", "children", "aliases"}
    BY DEF ModulesInv, IsInfo
  <2>3. QED
    BY <1>3, <2>2 DEF IsInfo
<1>6. /\ root \in Roots /\ root \in DOMAIN modules'
      /\ module \in Roots => root = module
      /\ module \notin Roots => /\ parent \in DOMAIN modules
                                /\ modules[parent].root = root
  BY <1>3 DEF ModulesInv
<1>7. ASSUME NEW m \in DOMAIN modules'
      PROVE  /\ IsInfo(modules'[m])
             /\ modules'[m].root \in Roots
             /\ modules'[m].root \in DOMAIN modules'
             /\ m \in Roots => modules'[m].root = m
             /\ m \notin Roots => /\ Front(m) \in DOMAIN modules'
                                  /\ modules'[Front(m)].root = modules'[m].root
                                  /\ Last(m) \in modules'[Front(m)].children
             /\ \A c \in modules'[m].children : c \in Names /\ Append(m, c) \in DOMAIN modules'
             /\ \A n \in DOMAIN modules'[m].aliases : Imported(read', m, n, modules'[m].aliases[n])
  <2>1. CASE m = module
    <3>1. m \notin Roots => /\ Front(m) \in DOMAIN modules'
                            /\ modules'[Front(m)].root = modules'[m].root
                            /\ Last(m) \in modules'[Front(m)].children
      BY <1>3, <1>4, <1>5, <1>6, <2>1
    <3>2. QED
      BY <1>4, <1>6, <2>1, <3>1
  <2>2. CASE m \in DOMAIN modules
    <3>1. /\ m \notin Roots => /\ Front(m) \in DOMAIN modules
                               /\ modules[Front(m)].root = modules[m].root
                               /\ Last(m) \in modules[Front(m)].children
          /\ modules[m].root \in Roots /\ modules[m].root \in DOMAIN modules
          /\ m \in Roots => modules[m].root = m
          /\ \A c \in modules[m].children : c \in Names /\ Append(m, c) \in DOMAIN modules
          /\ \A n \in DOMAIN modules[m].aliases : Imported(read, m, n, modules[m].aliases[n])
      BY <2>2 DEF ModulesInv
    <3>2. \A c \in modules'[m].children : c \in Names /\ Append(m, c) \in DOMAIN modules'
      BY <1>1, <1>3, <1>5, <2>2, <3>1
    <3>3. \A n \in DOMAIN modules'[m].aliases : Imported(read', m, n, modules'[m].aliases[n])
      BY <1>5, <2>2, <3>1
    <3>4. m \notin Roots => /\ Front(m) \in DOMAIN modules'
                            /\ modules'[Front(m)].root = modules'[m].root
                            /\ Last(m) \in modules'[Front(m)].children
      BY <1>3, <1>5, <2>2, <3>1
    <3>5. QED
      BY <1>3, <1>5, <2>2, <3>1, <3>2, <3>3, <3>4
  <2>3. QED
    BY <1>3, <2>1, <2>2
<1>8. DOMAIN modules' \subseteq Roots \cup Modules
  BY <1>3 DEF ModulesInv
<1>9. ModulesInv'
  BY <1>3, <1>7, <1>8 DEF ModulesInv
<1>10. QED
  BY <1>3, <1>4, <1>5, <1>9

LEMMA Largest ==
  ASSUME NEW n \in Nat, NEW T, T \subseteq 1 .. n, T # {}
  PROVE  \E i \in T : \A k \in T : k <= i
<1> DEFINE S == {m \in Nat : \A U : U \subseteq 1 .. m /\ U # {} =>
                                \E i \in U : \A k \in U : k <= i}
<1>1. 0 \in S
  <2>1. \A U : U \subseteq 1 .. 0 => U = {}
    OBVIOUS
  <2>2. QED
    BY <2>1
<1>2. ASSUME NEW m \in Nat, m \in S
      PROVE  m + 1 \in S
  <2>1. SUFFICES ASSUME NEW U, U \subseteq 1 .. m + 1, U # {}
                 PROVE  \E i \in U : \A k \in U : k <= i
    OBVIOUS
  <2>2. CASE m + 1 \in U
    <3>1. \A k \in U : k <= m + 1
      BY <2>1
    <3>2. QED
      BY <2>2, <3>1
  <2>3. CASE m + 1 \notin U
    <3>1. U \subseteq 1 .. m
      BY <2>1, <2>3
    <3>2. QED
      BY <1>2, <2>1, <3>1
  <2>4. QED
    BY <2>2, <2>3
<1> HIDE DEF S
<1>3. n \in S
  BY <1>1, <1>2, SetInduction
<1>4. QED
  BY <1>3 DEF S

(* record_use: the aliases of the module read, and nothing else.           *)
LEMMA RecordUseKeeps ==
  ASSUME ModulesInv, NEW item \in Items, item.module \in DOMAIN modules, RecordUse(item)
  PROVE  /\ ModulesInv'
         /\ DOMAIN modules' = DOMAIN modules
         /\ \A m \in DOMAIN modules : modules'[m].root = modules[m].root
<1> DEFINE leaves == Imports(item)
           named == {i \in DOMAIN leaves : leaves[i].name # ""}
           names == {leaves[i].name : i \in named}
           Is(i, name) == i \in named /\ leaves[i].name = name
           LastOf(name) == leaves[CHOOSE i \in named :
                                    /\ leaves[i].name = name
                                    /\ \A k \in named : leaves[k].name = name => k <= i].path
           table == [n \in DOMAIN modules[item.module].aliases \cup names |->
                       IF n \in names THEN LastOf(n) ELSE modules[item.module].aliases[n]]
<1>1. /\ item.kind = "use" /\ read' = read \cup {item}
      /\ modules' = [modules EXCEPT ![item.module] = [modules[item.module] EXCEPT !.aliases = table]]
  BY DEF RecordUse, Reads
<1>2. leaves = [i \in DOMAIN item.use |-> Import(item.use[i])] /\ item.use \in Seq([above : Seq(Names), name : Names \cup {"*"}, as : Names \cup {""}])
  BY <1>1, ScanAssumption DEF IsItem, Imports
<1>3. DOMAIN leaves = 1 .. Len(item.use) /\ Len(item.use) \in Nat
  <2>1. DOMAIN leaves = DOMAIN item.use
    BY <1>2
  <2> HIDE DEF leaves
  <2>2. \A L : item.use \in Seq(L) => DOMAIN item.use = 1 .. Len(item.use) /\ Len(item.use) \in Nat
    OBVIOUS
  <2>3. QED
    BY <1>2, <2>1, <2>2
<1>4. ASSUME NEW n \in names
      PROVE  \E k \in DOMAIN leaves : leaves[k].name = n /\ leaves[k].path = LastOf(n)
  <2> DEFINE T == {i \in named : leaves[i].name = n}
  <2> HIDE DEF leaves
  <2>1. T \subseteq 1 .. Len(item.use) /\ T # {}
    BY <1>3
  <2>2. \E i \in T : \A k \in T : k <= i
    BY <1>3, <2>1, Largest
  <2>3. \E i \in named : /\ leaves[i].name = n
                         /\ \A k \in named : leaves[k].name = n => k <= i
    BY <2>2
  <2> HIDE DEF named, T
  <2> DEFINE c == CHOOSE i \in named : /\ leaves[i].name = n
                                       /\ \A k \in named : leaves[k].name = n => k <= i
  <2>4. c \in named /\ leaves[c].name = n
    BY <2>3
  <2>5. LastOf(n) = leaves[c].path
    OBVIOUS
  <2> HIDE DEF c, LastOf
  <2>6. QED
    BY <2>4, <2>5 DEF named
<1> HIDE DEF leaves, named, names, LastOf, table
<1>5. /\ DOMAIN modules' = DOMAIN modules
      /\ modules' = [m \in DOMAIN modules' |-> modules'[m]]
      /\ \A m \in DOMAIN modules :
           modules'[m] = IF m = item.module THEN [modules[m] EXCEPT !.aliases = table] ELSE modules[m]
  BY <1>1 DEF ModulesInv
<1>6. \A m \in DOMAIN modules :
        /\ IsInfo(modules'[m])
        /\ modules'[m].root = modules[m].root
        /\ modules'[m].children = modules[m].children
        /\ modules'[m].aliases = IF m = item.module THEN table ELSE modules[m].aliases
  <2>1. TAKE m \in DOMAIN modules
  <2>2. DOMAIN modules[m] = {"root", "children", "aliases"}
    BY DEF ModulesInv, IsInfo
  <2>3. QED
    BY <1>5, <2>2 DEF IsInfo
<1>7. ASSUME NEW m \in DOMAIN modules, NEW n \in DOMAIN modules'[m].aliases
      PROVE  Imported(read', m, n, modules'[m].aliases[n])
  <2>1. \A p : Imported(read, m, n, p) => Imported(read', m, n, p)
    BY <1>1 DEF Imported
  <2>2. CASE m = item.module /\ n \in names
    <3>1. modules'[m].aliases[n] = LastOf(n)
      BY <1>6, <2>2 DEF table
    <3>2. \E k \in DOMAIN Imports(item) :
             Imports(item)[k].name = n /\ Imports(item)[k].path = LastOf(n)
      BY <1>4, <2>2 DEF leaves
    <3>3. item \in read' /\ item.kind = "use" /\ item.module = m
      BY <1>1, <2>2
    <3>4. QED
      BY <3>1, <3>2, <3>3 DEF Imported
  <2>3. CASE ~ (m = item.module /\ n \in names)
    <3>1. n \in DOMAIN modules[m].aliases /\ modules'[m].aliases[n] = modules[m].aliases[n]
      <4>1. m \in DOMAIN modules
        BY <1>5
      <4>2. CASE m # item.module
        BY <1>6, <1>7, <4>1, <4>2
      <4>3. CASE m = item.module
        <5>1. modules'[m].aliases = table /\ n \notin names
          BY <1>6, <2>3, <4>1, <4>3
        <5>2. n \in DOMAIN table
          BY <1>7, <5>1
        <5>3. n \in DOMAIN modules[m].aliases
          BY <4>3, <5>1, <5>2 DEF table
        <5>4. table[n] = modules[m].aliases[n]
          BY <4>3, <5>1, <5>3 DEF table
        <5>5. QED
          BY <5>1, <5>3, <5>4
      <4>4. QED
        BY <4>2, <4>3
    <3>2. Imported(read, m, n, modules[m].aliases[n])
      BY <3>1 DEF ModulesInv
    <3>3. QED
      BY <2>1, <3>1, <3>2
  <2>4. QED
    BY <2>2, <2>3
<1>8. ASSUME NEW m \in DOMAIN modules
      PROVE  /\ IsInfo(modules'[m])
             /\ modules'[m].root \in Roots
             /\ modules'[m].root \in DOMAIN modules'
             /\ m \in Roots => modules'[m].root = m
             /\ m \notin Roots => /\ Front(m) \in DOMAIN modules'
                                  /\ modules'[Front(m)].root = modules'[m].root
                                  /\ Last(m) \in modules'[Front(m)].children
             /\ \A c \in modules'[m].children : c \in Names /\ Append(m, c) \in DOMAIN modules'
  BY <1>5, <1>6 DEF ModulesInv
<1>9. DOMAIN modules' \subseteq Roots \cup Modules
  BY <1>5 DEF ModulesInv
<1>10. ModulesInv'
  BY <1>5, <1>7, <1>8, <1>9 DEF ModulesInv
<1>11. QED
  BY <1>5, <1>6, <1>10

-----------------------------------------------------------------------------
(* The rest of the scan's state.                                           *)

(* What the scan marks an include by: the gates of the whole item.         *)
IncludeScope(i) == IF InTests(i) \/ i.gate = "item" THEN "test" ELSE "lib"

IncludeEdges ==
  {[from |-> i.module, to |-> i.file, onDisk |-> TRUE, scope |-> IncludeScope(i), via |-> "include"] :
     i \in {j \in read : j.kind = "include"}}

PathEdges ==
  {[from |-> r.module, to |-> Target(r), onDisk |-> FALSE, scope |-> r.scope, via |-> "path"] :
     r \in {ref \in refs : Target(ref) \notin {Nowhere, ref.module}}}

Frames == [module : Roots \cup Modules, gated : BOOLEAN, scope : {"lib", "test"}]

(* The scope of a body: of the target's, and of every gate down to it.     *)
BodyScope(k) ==
  IF modules[open[k].module].root \in TestRoots \/ \E j \in 1 .. k : open[j].gated
  THEN "test" ELSE "lib"

OpenInv ==
  /\ open \in Seq(Frames)
  /\ \A k \in 1 .. Len(open) : /\ open[k].module \in DOMAIN modules
                               /\ open[k].scope = BodyScope(k)

ReadInv == read \subseteq Items /\ \A i \in read : i.module \in DOMAIN modules

RefsInv ==
  /\ refs = WrittenRefs
  /\ \A r \in refs :
       /\ IsWritten(r.path)
       /\ \E i \in read : /\ i.kind # "include"
                          /\ r = [module |-> i.module, path |-> r.path, colon |-> i.colon,
                                  scope |-> TrueScope(i)]

EdgesInv ==
  /\ finished => open = <<>>
  /\ edges = IncludeEdges \cup (IF finished THEN ManifestEdges \cup PathEdges ELSE {})

ScanInv == ModulesInv /\ OpenInv /\ ReadInv /\ RefsInv /\ EdgesInv

LEMMA ScanInvAtFirst == Init => ScanInv
<1> SUFFICES ASSUME Init
             PROVE  ScanInv
  OBVIOUS
<1>1. DOMAIN modules = {} /\ modules = [m \in DOMAIN modules |-> modules[m]]
  BY DEF Init
<1>2. ModulesInv
  BY <1>1 DEF ModulesInv
<1>3. OpenInv /\ ReadInv /\ RefsInv
  BY DEF Init, OpenInv, ReadInv, RefsInv, WrittenRefs
<1>4. EdgesInv
  BY DEF Init, EdgesInv, IncludeEdges
<1>5. QED
  BY <1>2, <1>3, <1>4 DEF ScanInv

(* The same tables resolve a path to the same module.                      *)
LEMMA TargetsStay ==
  ASSUME modules' = modules, refs' = refs
  PROVE  PathEdges' = PathEdges
<1>1. ASSUME NEW r
      PROVE  Target(r)' = Target(r)
  BY SMT DEF Target, HomeOf, Answers, Answer, Resolve, ContinueFrom, EnterCrate, Walk, Descend,
             ByAlias, AtHome, ParentOf, IsCrate
<1>2. QED
  BY <1>1 DEF PathEdges

(* What is test code stays so, and so does what is not.                    *)
Grown ==
  /\ DOMAIN modules \subseteq DOMAIN modules'
  /\ \A m \in DOMAIN modules : modules'[m].root = modules[m].root

LEMMA CodeStays ==
  ASSUME Grown, NEW i, i.module \in DOMAIN modules
  PROVE  /\ TrueScope(i)' = TrueScope(i)
         /\ IncludeScope(i)' = IncludeScope(i)
         /\ References(i)' = References(i)
<1>1. modules'[i.module].root = modules[i.module].root
  BY DEF Grown
<1>2. InTests(i)' <=> InTests(i)
  BY <1>1 DEF InTests
<1>3. TrueScope(i)' = TrueScope(i)
  BY <1>2 DEF TrueScope, IsTestCode
<1>4. QED
  BY <1>2, <1>3 DEF IncludeScope, References

(* What was read is kept, as long as nothing is finished.                  *)
LEMMA RestStays ==
  ASSUME ReadInv, RefsInv, Grown, read' = read, refs' = refs
  PROVE  ReadInv' /\ RefsInv' /\ IncludeEdges' = IncludeEdges
<1>1. ReadInv'
  BY DEF ReadInv, Grown
<1>2. ASSUME NEW i \in read
      PROVE  /\ TrueScope(i)' = TrueScope(i)
             /\ IncludeScope(i)' = IncludeScope(i)
             /\ References(i)' = References(i)
  BY CodeStays DEF ReadInv
<1>3. WrittenRefs' = WrittenRefs
  BY <1>2 DEF WrittenRefs
<1>4. RefsInv'
  BY <1>2, <1>3 DEF RefsInv
<1>5. IncludeEdges' = IncludeEdges
  BY <1>2 DEF IncludeEdges
<1>6. QED
  BY <1>1, <1>4, <1>5

(* And the open bodies are, when neither they nor the modules change.      *)
LEMMA OpenStays ==
  ASSUME OpenInv, modules' = modules, open' = open
  PROVE  OpenInv'
<1>1. ASSUME NEW k \in 1 .. Len(open)
      PROVE  /\ open[k].module \in DOMAIN modules'
             /\ open[k].scope = BodyScope(k)'
  <2>1. open[k].module \in DOMAIN modules /\ open[k].scope = BodyScope(k)
    BY DEF OpenInv
  <2>2. BodyScope(k)' = BodyScope(k)
    BY DEF BodyScope
  <2>3. QED
    BY <2>1, <2>2
<1>2. QED
  BY <1>1 DEF OpenInv

LEMMA HereIs ==
  ASSUME ModulesInv, OpenInv, open # <<>>
  PROVE  /\ Here.module \in DOMAIN modules /\ Here.scope = BodyScope(Len(open))
         /\ Len(open) \in Nat \ {0} /\ Here = open[Len(open)]
<1>1. Len(open) \in Nat /\ Len(open) # 0 /\ Here = open[Len(open)]
  BY DEF OpenInv, Here, Last
<1>2. Len(open) \in 1 .. Len(open)
  BY <1>1
<1>3. QED
  BY <1>1, <1>2 DEF OpenInv

LEMMA AddTargetKeeps ==
  ASSUME ScanInv, NEW root \in Roots, AddTarget(root)
  PROVE  ScanInv'
<1>1. /\ root \notin DOMAIN modules /\ modules' = Register(root, root) /\ ~ finished
      /\ open' = << [module |-> root, gated |-> FALSE,
                     scope |-> IF root \in TestRoots THEN "test" ELSE "lib"] >>
      /\ refs' = refs /\ read' = read /\ finished' = finished /\ edges' = edges
  BY DEF AddTarget
<1>2. ModulesInv' /\ Grown /\ DOMAIN modules' = DOMAIN modules \cup {root}
      /\ modules'[root].root = root
  BY <1>1, RegisterKeeps DEF ScanInv, Grown
<1>3. ReadInv' /\ RefsInv' /\ IncludeEdges' = IncludeEdges
  BY <1>1, <1>2, RestStays DEF ScanInv
<1>5. OpenInv'
  <2>1. [module |-> root, gated |-> FALSE,
         scope |-> IF root \in TestRoots THEN "test" ELSE "lib"] \in Frames
    BY DEF Frames
  <2>2. open' \in Seq(Frames) /\ Len(open') = 1 /\ ~ open'[1].gated
        /\ open'[1].module = root /\ open'[1].scope = IF root \in TestRoots THEN "test" ELSE "lib"
    BY <1>1, <2>1
  <2>3. QED
    BY <1>2, <2>2 DEF OpenInv, BodyScope
<1>6. EdgesInv'
  BY <1>1, <1>3 DEF ScanInv, EdgesInv
<1>7. QED
  BY <1>2, <1>3, <1>5, <1>6 DEF ScanInv

(* A module declared for the first time, or again.                         *)
LEMMA DeclaredIsRegistered ==
  ASSUME ScanInv, NEW child \in Modules, open # <<>>, Front(child) = Here.module,
         modules' = Register(child, modules[Here.module].root), read' = read
  PROVE  /\ ModulesInv' /\ Grown /\ DOMAIN modules' = DOMAIN modules \cup {child}
         /\ modules'[child].root = modules[Here.module].root
<1>1. Here.module \in DOMAIN modules /\ child \notin Roots
  BY HereIs, ScanAssumption DEF ScanInv
<1>2. CASE child \in DOMAIN modules
  <2>1. modules[child].root = modules[Here.module].root
    BY <1>1, <1>2 DEF ScanInv, ModulesInv
  <2>2. QED
    BY <1>1, <1>2, <2>1, RegisterAgainKeeps DEF ScanInv, Grown
<1>3. CASE child \notin DOMAIN modules
  BY <1>1, <1>3, RegisterKeeps DEF ScanInv, Grown
<1>4. QED
  BY <1>2, <1>3

LEMMA WalkModKeeps ==
  ASSUME ScanInv, NEW declared \in Declarations, WalkMod(declared)
  PROVE  ScanInv'
<1> DEFINE child == declared.module
           top == [module |-> child, gated |-> declared.gated, scope |-> ScopeOf(declared)]
<1>1. /\ open # <<>> /\ Front(child) = Here.module /\ child \in Modules
      /\ declared.gated \in BOOLEAN
      /\ modules' = Register(child, modules[Here.module].root)
      /\ open' = Append(open, top)
      /\ refs' = refs /\ read' = read /\ finished' = finished /\ edges' = edges
  BY ScanAssumption DEF WalkMod, Modules
<1>n. PICK n \in Nat \ {0} : n = Len(open)
  BY <1>1, HereIs DEF ScanInv
<1>2. /\ Here.module \in DOMAIN modules /\ Here.scope = BodyScope(n)
      /\ n \in Nat \ {0} /\ Here = open[n] /\ ~ finished
  BY <1>n, <1>1, HereIs DEF ScanInv, EdgesInv
<1> HIDE DEF child
<1>3. /\ ModulesInv' /\ Grown /\ DOMAIN modules' = DOMAIN modules \cup {child}
      /\ modules'[child].root = modules[Here.module].root
  BY <1>1, DeclaredIsRegistered
<1>4. ReadInv' /\ RefsInv' /\ IncludeEdges' = IncludeEdges
  BY <1>1, <1>3, RestStays DEF ScanInv
<1>5. OpenInv'
  <2>1. /\ open \in Seq(Frames)
        /\ \A k \in 1 .. n : /\ open[k].module \in DOMAIN modules
                             /\ open[k].scope = BodyScope(k)
    BY <1>n DEF ScanInv, OpenInv
  <2>2. /\ top \in Frames /\ top.module = child /\ top.gated = declared.gated
        /\ top.scope = ScopeOf(declared)
    BY <1>1, <1>2 DEF Frames, ScopeOf, BodyScope
  <2> HIDE DEF top
  <2>3. /\ open' \in Seq(Frames)
        /\ Len(open') = n + 1 /\ open'[n + 1] = top
        /\ \A k \in 1 .. n : open'[k] = open[k]
    BY <1>n, <1>1, <1>2, <2>1, <2>2
  <2>4. ASSUME NEW k \in 1 .. n
        PROVE  open'[k].module \in DOMAIN modules' /\ open'[k].scope = BodyScope(k)'
    <3>1. open'[k] = open[k] /\ \A j \in 1 .. k : open'[j] = open[j]
      BY <1>2, <2>3
    <3>2. modules'[open[k].module].root = modules[open[k].module].root
      BY <1>3, <2>1 DEF Grown
    <3>3. BodyScope(k)' = BodyScope(k)
      BY <3>1, <3>2 DEF BodyScope
    <3>4. open[k].module \in DOMAIN modules /\ open[k].scope = BodyScope(k)
      BY <2>1
    <3>5. open[k].module \in DOMAIN modules'
      BY <1>3, <3>4
    <3>6. QED
      BY <3>1, <3>3, <3>4, <3>5
  <2>5. /\ open'[n + 1].module \in DOMAIN modules'
        /\ open'[n + 1].scope = BodyScope(n + 1)'
    <3>1. (\E j \in 1 .. n + 1 : open'[j].gated) <=>
            declared.gated \/ \E j \in 1 .. n : open[j].gated
      BY <1>2, <2>2, <2>3
    <3>2. modules'[open'[n + 1].module].root = modules[open[n].module].root
      BY <1>2, <1>3, <2>2, <2>3
    <3>3. BodyScope(n + 1)' = IF declared.gated THEN "test" ELSE BodyScope(n)
      <4>1. CASE declared.gated
        BY <3>1, <4>1 DEF BodyScope
      <4>2. CASE ~ declared.gated
        BY <3>1, <3>2, <4>2 DEF BodyScope
      <4>3. QED
        BY <4>1, <4>2
    <3>4. QED
      BY <1>2, <1>3, <2>2, <2>3, <3>3 DEF ScopeOf
  <2>6. ASSUME NEW k \in 1 .. Len(open')
        PROVE  open'[k].module \in DOMAIN modules' /\ open'[k].scope = BodyScope(k)'
    <3>1. k = n + 1 \/ k \in 1 .. n
      BY <1>2, <2>3
    <3>2. QED
      BY <2>4, <2>5, <3>1 DEF BodyScope
  <2>7. QED
    BY <2>3, <2>6 DEF OpenInv
<1>6. EdgesInv'
  BY <1>1, <1>2, <1>4 DEF ScanInv, EdgesInv
<1>7. QED
  BY <1>3, <1>4, <1>5, <1>6 DEF ScanInv

(* An item read in its body: what was read before stands.                  *)
LEMMA ReadsKeeps ==
  ASSUME ScanInv, NEW item \in Items, NEW kind, Reads(item, kind), Grown,
         DOMAIN modules' = DOMAIN modules
  PROVE  /\ OpenInv' /\ ReadInv' /\ ~ finished /\ ~ finished'
         /\ item.kind = kind /\ read' = read \cup {item} /\ item.module \in DOMAIN modules
         /\ Here.scope = IF InTests(item) THEN "test" ELSE "lib"
         /\ \A i \in read \cup {item} : /\ TrueScope(i)' = TrueScope(i)
                                       /\ IncludeScope(i)' = IncludeScope(i)
                                       /\ References(i)' = References(i)
<1>1. /\ open # <<>> /\ item.module = Here.module /\ item.kind = kind
      /\ item.under = \E k \in DOMAIN open : open[k].gated
      /\ read' = read \cup {item} /\ open' = open /\ finished' = finished
  BY DEF Reads
<1>2. /\ item.module \in DOMAIN modules /\ Here.scope = BodyScope(Len(open))
      /\ Here = open[Len(open)] /\ ~ finished
  BY <1>1, HereIs DEF ScanInv, EdgesInv
<1>3. open \in Seq(Frames) /\ DOMAIN open = 1 .. Len(open)
  BY DEF ScanInv, OpenInv
<1>4. Here.scope = IF InTests(item) THEN "test" ELSE "lib"
  BY <1>1, <1>2, <1>3 DEF BodyScope, InTests
<1>5. OpenInv'
  <2>1. ASSUME NEW k \in 1 .. Len(open)
        PROVE  open[k].module \in DOMAIN modules' /\ open[k].scope = BodyScope(k)'
    <3>1. open[k].module \in DOMAIN modules /\ open[k].scope = BodyScope(k)
      BY DEF ScanInv, OpenInv
    <3>2. modules'[open[k].module].root = modules[open[k].module].root
      BY <3>1 DEF Grown
    <3>3. QED
      BY <1>1, <3>1, <3>2 DEF BodyScope
  <2>2. QED
    BY <1>1, <1>3, <2>1 DEF OpenInv
<1>6. ReadInv'
  BY <1>1, <1>2 DEF ScanInv, ReadInv
<1>7. ASSUME NEW i \in read \cup {item}
      PROVE  /\ TrueScope(i)' = TrueScope(i)
             /\ IncludeScope(i)' = IncludeScope(i)
             /\ References(i)' = References(i)
  <2>1. i.module \in DOMAIN modules
    BY <1>2 DEF ScanInv, ReadInv
  <2>2. QED
    BY <2>1, CodeStays
<1>8. QED
  BY <1>1, <1>2, <1>4, <1>5, <1>6, <1>7

(* The paths of an item, each in the item's own scope.                     *)
LEMMA RefsKept ==
  ASSUME RefsInv, NEW item, read' = read \cup {item},
         \A i \in read \cup {item} : /\ TrueScope(i)' = TrueScope(i)
                                   /\ References(i)' = References(i),
         refs' = refs \cup References(item),
         \A r \in References(item) :
           /\ item.kind # "include" /\ IsWritten(r.path)
           /\ r = [module |-> item.module, path |-> r.path, colon |-> item.colon,
                   scope |-> TrueScope(item)]
  PROVE  RefsInv'
<1>1. WrittenRefs' = WrittenRefs \cup References(item)
  <2>1. WrittenRefs' = UNION {References(i)' : i \in read \cup {item}}
    BY DEF WrittenRefs
  <2>2. WrittenRefs' = UNION {References(i) : i \in read \cup {item}}
    BY <2>1
  <2>3. QED
    BY <2>2 DEF WrittenRefs
<1>2. ASSUME NEW r \in refs'
      PROVE  /\ IsWritten(r.path)
             /\ \E i \in read' : /\ i.kind # "include"
                                 /\ r = [module |-> i.module, path |-> r.path, colon |-> i.colon,
                                         scope |-> TrueScope(i)']
  <2>1. CASE r \in refs
    <3>1. IsWritten(r.path)
      BY <2>1 DEF RefsInv
    <3>2. PICK i \in read : /\ i.kind # "include"
                            /\ r = [module |-> i.module, path |-> r.path, colon |-> i.colon,
                                    scope |-> TrueScope(i)]
      BY <2>1 DEF RefsInv
    <3>3. TrueScope(i)' = TrueScope(i)
      OBVIOUS
    <3>4. QED
      BY <3>1, <3>2, <3>3
  <2>2. CASE r \in References(item)
    <3>1. TrueScope(item)' = TrueScope(item)
      OBVIOUS
    <3>2. QED
      BY <2>2, <3>1
  <2>3. QED
    BY <2>1, <2>2
<1>3. QED
  BY <1>1, <1>2 DEF RefsInv

LEMMA IncludesKept ==
  ASSUME EdgesInv, NEW item, read' = read \cup {item}, item.kind # "include",
         ~ finished, ~ finished', edges' = edges,
         \A i \in read : IncludeScope(i)' = IncludeScope(i)
  PROVE  EdgesInv'
<1>1. {j \in read' : j.kind = "include"} = {j \in read : j.kind = "include"}
  OBVIOUS
<1>2. IncludeEdges' = IncludeEdges
  BY <1>1 DEF IncludeEdges
<1>3. QED
  BY <1>2 DEF EdgesInv

LEMMA RecordUseStep ==
  ASSUME ScanInv, NEW item \in Items, RecordUse(item)
  PROVE  ScanInv'
<1>1. Reads(item, "use") /\ edges' = edges
  BY DEF RecordUse
<1>2. item.module \in DOMAIN modules
  BY <1>1, HereIs DEF ScanInv, Reads
<1>3. ModulesInv' /\ DOMAIN modules' = DOMAIN modules /\ Grown
  BY <1>2, RecordUseKeeps DEF ScanInv, Grown
<1>4. /\ OpenInv' /\ ReadInv' /\ ~ finished /\ ~ finished'
      /\ item.kind = "use" /\ read' = read \cup {item}
      /\ Here.scope = IF InTests(item) THEN "test" ELSE "lib"
      /\ \A i \in read \cup {item} : /\ TrueScope(i)' = TrueScope(i)
                                    /\ IncludeScope(i)' = IncludeScope(i)
                                    /\ References(i)' = References(i)
  BY <1>1, <1>3, ReadsKeeps
<1>5. /\ item.gate \in {"none", "item"}
      /\ \A k \in DOMAIN Imports(item) : IsWritten(Imports(item)[k].path)
  <2>1. IsItem(item)
    BY ScanAssumption
  <2>2. /\ item.gate \in {"none", "item"}
        /\ \A i \in DOMAIN item.use : IsWritten(Import(item.use[i]).path)
    BY <1>4, <2>1 DEF IsItem
  <2>3. QED
    BY <2>2 DEF Imports
<1>6. ItemScope(item, {"item"}) = TrueScope(item)
  BY <1>4, <1>5 DEF ItemScope, TrueScope, IsTestCode
<1>7. References(item) =
        {RawRef(item, Imports(item)[k].path, TrueScope(item)) : k \in DOMAIN Imports(item)}
  BY <1>4 DEF References, Range
<1>8. refs' = refs \cup References(item)
  BY <1>6, <1>7 DEF RecordUse
<1>9. RefsInv'
  <2>1. \A r \in References(item) :
          /\ IsWritten(r.path)
          /\ r = [module |-> item.module, path |-> r.path, colon |-> item.colon,
                  scope |-> TrueScope(item)]
    BY <1>5, <1>7 DEF RawRef
  <2>2. QED
    BY <1>4, <1>8, <2>1, RefsKept DEF ScanInv
<1>10. EdgesInv'
  BY <1>1, <1>4, IncludesKept DEF ScanInv
<1>11. QED
  BY <1>3, <1>4, <1>9, <1>10 DEF ScanInv

LEMMA CollectPathStep ==
  ASSUME ScanInv, NEW item \in Items, CollectPath(item)
  PROVE  ScanInv'
<1>1. Reads(item, "path") /\ edges' = edges /\ modules' = modules
  BY DEF CollectPath
<1>2. Grown
  BY <1>1 DEF Grown
<1>3. /\ OpenInv' /\ ReadInv' /\ ~ finished /\ ~ finished'
      /\ item.kind = "path" /\ read' = read \cup {item}
      /\ Here.scope = IF InTests(item) THEN "test" ELSE "lib"
      /\ \A i \in read \cup {item} : /\ TrueScope(i)' = TrueScope(i)
                                    /\ IncludeScope(i)' = IncludeScope(i)
                                    /\ References(i)' = References(i)
  BY <1>1, <1>2, ReadsKeeps
<1>4. ModulesInv'
  <2>1. \A m, n, p : Imported(read, m, n, p) => Imported(read', m, n, p)
    BY <1>3 DEF Imported
  <2>2. ASSUME NEW m \in DOMAIN modules', NEW n \in DOMAIN modules'[m].aliases
        PROVE  Imported(read', m, n, modules'[m].aliases[n])
    <3>1. Imported(read, m, n, modules[m].aliases[n])
      BY <1>1, <2>2 DEF ScanInv, ModulesInv
    <3>2. QED
      BY <1>1, <2>1, <3>1
  <2>3. ModulesInv
    BY DEF ScanInv
  <2>4. QED
    BY <1>1, <2>2, <2>3 DEF ModulesInv
<1>5. IsWritten(item.path)
  <2>1. IsItem(item)
    BY ScanAssumption
  <2>2. QED
    BY <1>3, <2>1 DEF IsItem
<1>6. ItemScope(item, {"item", "inside"}) = TrueScope(item)
  <2>1. IsItem(item)
    BY ScanAssumption
  <2>2. item.gate \in {"none", "item", "inside"}
    BY <2>1 DEF IsItem
  <2>3. QED
    BY <1>3, <2>2 DEF ItemScope, TrueScope, IsTestCode
<1>7. References(item) = {RawRef(item, item.path, TrueScope(item))}
  BY <1>3 DEF References
<1>8. refs' = refs \cup References(item)
  BY <1>6, <1>7 DEF CollectPath
<1>9. RefsInv'
  <2>1. \A r \in References(item) :
          /\ IsWritten(r.path)
          /\ r = [module |-> item.module, path |-> r.path, colon |-> item.colon,
                  scope |-> TrueScope(item)]
    BY <1>5, <1>7 DEF RawRef
  <2>2. QED
    BY <1>3, <1>8, <2>1, RefsKept DEF ScanInv
<1>10. EdgesInv'
  BY <1>1, <1>3, IncludesKept DEF ScanInv
<1>11. QED
  BY <1>3, <1>4, <1>9, <1>10 DEF ScanInv

LEMMA RecordIncludeStep ==
  ASSUME ScanInv, NEW item \in Items, RecordInclude(item)
  PROVE  ScanInv'
<1>1. Reads(item, "include") /\ modules' = modules /\ refs' = refs
  BY DEF RecordInclude
<1>2. Grown
  BY <1>1 DEF Grown
<1>3. /\ OpenInv' /\ ReadInv' /\ ~ finished /\ ~ finished'
      /\ item.kind = "include" /\ read' = read \cup {item}
      /\ Here.scope = IF InTests(item) THEN "test" ELSE "lib"
      /\ \A i \in read \cup {item} : /\ TrueScope(i)' = TrueScope(i)
                                    /\ IncludeScope(i)' = IncludeScope(i)
                                    /\ References(i)' = References(i)
  BY <1>1, <1>2, ReadsKeeps
<1>4. ModulesInv'
  <2>1. \A m, n, p : Imported(read, m, n, p) => Imported(read', m, n, p)
    BY <1>3 DEF Imported
  <2>2. ASSUME NEW m \in DOMAIN modules', NEW n \in DOMAIN modules'[m].aliases
        PROVE  Imported(read', m, n, modules'[m].aliases[n])
    <3>1. Imported(read, m, n, modules[m].aliases[n])
      BY <1>1, <2>2 DEF ScanInv, ModulesInv
    <3>2. QED
      BY <1>1, <2>1, <3>1
  <2>3. ModulesInv
    BY DEF ScanInv
  <2>4. QED
    BY <1>1, <2>2, <2>3 DEF ModulesInv
<1>5. RefsInv'
  <2>1. References(item) = {}
    BY <1>3 DEF References
  <2>2. QED
    BY <1>1, <1>3, <2>1, RefsKept DEF ScanInv
<1>6. ItemScope(item, {"item"}) = IncludeScope(item)
  BY <1>3 DEF ItemScope, IncludeScope
<1>7. IncludeEdges' = IncludeEdges \cup
        {[from |-> item.module, to |-> item.file, onDisk |-> TRUE,
          scope |-> IncludeScope(item), via |-> "include"]}
  <2>1. {j \in read' : j.kind = "include"} = {j \in read : j.kind = "include"} \cup {item}
    BY <1>3
  <2>2. QED
    BY <1>3, <2>1 DEF IncludeEdges
<1>8. EdgesInv'
  <2>1. edges = IncludeEdges
    BY <1>3 DEF ScanInv, EdgesInv
  <2>2. edges' = IncludeEdges'
    BY <1>6, <1>7, <2>1 DEF RecordInclude
  <2>3. QED
    BY <1>3, <2>2 DEF EdgesInv
<1>9. QED
  BY <1>3, <1>4, <1>5, <1>8 DEF ScanInv

LEMMA EndOfModuleStep ==
  ASSUME ScanInv, EndOfModule
  PROVE  ScanInv'
<1>1. /\ open # <<>> /\ open' = Front(open)
      /\ modules' = modules /\ refs' = refs /\ read' = read
      /\ finished' = finished /\ edges' = edges
  BY DEF EndOfModule
<1>2. ~ finished
  BY <1>1 DEF ScanInv, EdgesInv
<1>3. OpenInv'
  <2>1. open \in Seq(Frames)
    BY DEF ScanInv, OpenInv
  <2>2. /\ open' \in Seq(Frames) /\ Len(open') = Len(open) - 1 /\ Len(open) \in Nat
        /\ \A k \in 1 .. Len(open) - 1 : open'[k] = open[k]
    BY <1>1, <2>1, FrontAndLast
  <2>3. ASSUME NEW k \in 1 .. Len(open')
        PROVE  open'[k].module \in DOMAIN modules' /\ open'[k].scope = BodyScope(k)'
    <3>1. k \in 1 .. Len(open) /\ \A j \in 1 .. k : open'[j] = open[j]
      BY <2>2
    <3>2. open[k].module \in DOMAIN modules /\ open[k].scope = BodyScope(k) /\ open'[k] = open[k]
      BY <3>1 DEF ScanInv, OpenInv
    <3>3. QED
      BY <1>1, <3>1, <3>2 DEF BodyScope
  <2>4. QED
    BY <2>2, <2>3 DEF OpenInv
<1>4. ModulesInv'
  <2>1. ModulesInv
    BY DEF ScanInv
  <2>2. QED
    BY <1>1, <2>1 DEF ModulesInv
<1>5. ReadInv' /\ RefsInv' /\ IncludeEdges' = IncludeEdges
  BY <1>1, RestStays DEF ScanInv, Grown
<1>6. EdgesInv'
  BY <1>1, <1>2, <1>5 DEF ScanInv, EdgesInv
<1>7. QED
  BY <1>3, <1>4, <1>5, <1>6 DEF ScanInv

LEMMA FinishStep ==
  ASSUME ScanInv, Finish
  PROVE  ScanInv'
<1>1. /\ ~ finished /\ finished' /\ open = <<>>
      /\ edges' = edges \cup ManifestEdges \cup PathEdges
      /\ modules' = modules /\ open' = open /\ refs' = refs /\ read' = read
  BY DEF Finish, PathEdges
<1>2. /\ PathEdges' = PathEdges /\ ManifestEdges' = ManifestEdges
      /\ ReadInv' /\ RefsInv' /\ IncludeEdges' = IncludeEdges
  BY <1>1, TargetsStay, RestStays DEF ScanInv, Grown
<1>3. edges = IncludeEdges
  BY <1>1 DEF ScanInv, EdgesInv
<1>4. EdgesInv'
  BY <1>1, <1>2, <1>3 DEF EdgesInv
<1>5. ModulesInv'
  <2>1. ModulesInv
    BY DEF ScanInv
  <2>2. QED
    BY <1>1, <2>1 DEF ModulesInv
<1>6. OpenInv'
  BY <1>1, OpenStays DEF ScanInv
<1>7. QED
  BY <1>2, <1>4, <1>5, <1>6 DEF ScanInv

LEMMA ScanInvIsKept ==
  ASSUME ScanInv, [Next]_vars
  PROVE  ScanInv'
<1>1. CASE \E root \in Roots : AddTarget(root)
  BY <1>1, AddTargetKeeps
<1>2. CASE \E declared \in Declarations : WalkMod(declared)
  BY <1>2, WalkModKeeps
<1>3. ASSUME NEW item \in Items, RecordUse(item) \/ CollectPath(item) \/ RecordInclude(item)
      PROVE  ScanInv'
  BY <1>3, RecordUseStep, CollectPathStep, RecordIncludeStep
<1>4. CASE EndOfModule
  BY <1>4, EndOfModuleStep
<1>5. CASE Finish
  BY <1>5, FinishStep
<1>6. CASE UNCHANGED vars
  <2>1. /\ modules' = modules /\ open' = open /\ refs' = refs /\ read' = read
        /\ finished' = finished /\ edges' = edges
    BY <1>6 DEF vars
  <2>2. /\ PathEdges' = PathEdges /\ ManifestEdges' = ManifestEdges
        /\ ReadInv' /\ RefsInv' /\ IncludeEdges' = IncludeEdges
    BY <2>1, TargetsStay, RestStays DEF ScanInv, Grown
  <2>3. ModulesInv'
    <3>1. ModulesInv
      BY DEF ScanInv
    <3>2. QED
      BY <2>1, <3>1 DEF ModulesInv
  <2>4. OpenInv'
    BY <2>1, OpenStays DEF ScanInv
  <2>5. EdgesInv'
    BY <2>1, <2>2 DEF ScanInv, EdgesInv
  <2>6. QED
    BY <2>2, <2>3, <2>4, <2>5 DEF ScanInv
<1>7. QED
  BY <1>1, <1>2, <1>3, <1>4, <1>5, <1>6 DEF Next

-----------------------------------------------------------------------------
(* The run: its answer is the check of the rules against the whole graph.  *)

Graph == {SpelledEdge(e) : e \in edges}

ReportInv ==
  IF status = "none" THEN report = {}
  ELSE IF finished /\ Usable(rules)
  THEN /\ rules \in RuleFiles
       /\ report = Violations(rules, Graph, Crates)
       /\ status = IF report = {} THEN "clean" ELSE "violations"
  ELSE status = "error" /\ report = {} /\ (finished => rules \in RuleFiles)

LintInv == ScanInv /\ ReportInv

LEMMA LintInvAtFirst == LintInit => LintInv
BY ScanInvAtFirst DEF LintInit, LintInv, ReportInv

(* Once finished, the scan is over.                                        *)
LEMMA NothingFollowsFinish ==
  ASSUME ScanInv, finished
  PROVE  ~ Next
<1>1. open = <<>>
  BY DEF ScanInv, EdgesInv
<1>2. QED
  BY <1>1 DEF Next, AddTarget, WalkMod, RecordUse, CollectPath, RecordInclude, Reads,
              EndOfModule, Finish

LEMMA LintInvIsKept ==
  ASSUME LintInv, [LintNext]_lintVars
  PROVE  LintInv'
<1>1. [Next]_vars
  BY DEF LintNext, Scan, ScanFails, Lint, lintVars
<1>2. ScanInv'
  BY <1>1, ScanInvIsKept DEF LintInv
<1>3. ASSUME UNCHANGED lintVars
      PROVE  ReportInv'
  <2>1. /\ status' = status /\ rules' = rules /\ report' = report
        /\ modules' = modules /\ edges' = edges /\ finished' = finished
    BY <1>3 DEF lintVars, vars
  <2>2. ModulePaths' = ModulePaths /\ Graph' = Graph
    BY <2>1 DEF ModulePaths, Graph
  <2>3. Usable(rules)' <=> Usable(rules)
    BY <2>1, <2>2 DEF Usable
  <2>4. QED
    BY <2>1, <2>2, <2>3 DEF LintInv, ReportInv
<1>4. ASSUME Scan
      PROVE  ReportInv'
  <2>1. ~ finished
    BY <1>4, NothingFollowsFinish DEF Scan, LintInv
  <2>2. QED
    BY <1>4, <2>1 DEF Scan, LintInv, ReportInv
<1>5. ASSUME NEW file \in RuleFiles, Lint(file)
      PROVE  ReportInv'
  <2>1. /\ finished /\ status = "none" /\ rules' = file
        /\ modules' = modules /\ edges' = edges /\ finished' = finished
        /\ IF Usable(file)
           THEN /\ status' = IF Violations(file, Graph, Crates) = {} THEN "clean" ELSE "violations"
                /\ report' = Violations(file, Graph, Crates)
           ELSE status' = "error" /\ report' = {}
    BY <1>5 DEF Lint, Graph, vars
  <2>2. ModulePaths' = ModulePaths /\ Graph' = Graph
    BY <2>1 DEF ModulePaths, Graph
  <2>3. Usable(rules)' <=> Usable(file)
    BY <2>1, <2>2 DEF Usable
  <2>4. status' # "none" /\ finished' /\ rules' \in RuleFiles
    BY <1>5, <2>1
  <2>5. QED
    BY <2>1, <2>2, <2>3, <2>4 DEF ReportInv
<1>6. ASSUME ScanFails
      PROVE  ReportInv'
  BY <1>6 DEF ScanFails, LintInv, ReportInv, vars
<1>7. ReportInv'
  BY <1>3, <1>4, <1>5, <1>6 DEF LintNext
<1>8. QED
  BY <1>2, <1>7 DEF LintInv

LEMMA LintInvHolds == LintSpec => []LintInv
<1>1. LintInit => LintInv
  BY LintInvAtFirst
<1>2. LintInv /\ [LintNext]_lintVars => LintInv'
  BY LintInvIsKept
<1>3. QED
  BY <1>1, <1>2, PTL DEF LintSpec

-----------------------------------------------------------------------------
(* Test code.                                                              *)

(* The scope carried down the walk is what the gates above an item say.    *)
LEMMA MarkedIfScanned == ScanInv => TestCodeIsMarked
<1> SUFFICES ASSUME ScanInv, finished
             PROVE  TestCodeIsMarked
  BY DEF TestCodeIsMarked
<1>1. edges = IncludeEdges \cup ManifestEdges \cup PathEdges
  BY DEF ScanInv, EdgesInv
<1>2. \A e \in PathEdges : e.via = "path"
  BY DEF PathEdges
<1>3. \A e \in IncludeEdges \cup ManifestEdges : e.via # "path"
  BY DEF IncludeEdges, ManifestEdges
<1>4. {e \in edges : e.via = "path"} = PathEdges
  BY <1>1, <1>2, <1>3
<1>5. refs = WrittenRefs
  BY DEF ScanInv, RefsInv
<1>6. QED
  BY <1>4, <1>5 DEF TestCodeIsMarked, PathEdges

(* However modules are nested, declared and gated, the references of code  *)
(* are those its items write, each marked as test code exactly if its      *)
(* target or a gate on, around or above the item says so.                  *)
THEOREM TestsAreMarked == LintSpec => []TestCodeIsMarked
<1>1. LintInv => TestCodeIsMarked
  BY MarkedIfScanned DEF LintInv
<1>2. QED
  BY <1>1, LintInvHolds, PTL

(* Whatever the pattern and the path, the backtracking of segments_match   *)
(* and segment_match takes exactly the pattern's language.                 *)
THEOREM MatcherIsItsLanguage == LintSpec => []MatchesIsItsLanguage
<1>1. MatchesIsItsLanguage
  <2>1. \A p \in Patterns, q \in Paths : IsPattern(p) /\ IsPath(q)
    BY PatternAssumption
  <2>2. ASSUME NEW p \in Patterns, NEW q \in Paths
        PROVE  Matches(p, q) <=> PathDenotes(p, q)
    BY <2>1, MatchesIsDenotes DEF IsPattern, IsPath
  <2>3. QED
    BY <2>2 DEF MatchesIsItsLanguage
<1>2. QED
  BY <1>1, PTL

-----------------------------------------------------------------------------
(* What the resolver's recursive functions are.                            *)

IsWay(h, n, cur, segs, home, left, deeper) ==
  h = [i \in 0 .. n |->
         IF i = 0 THEN [at |-> cur, ended |-> FALSE]
         ELSE Descend(h[i - 1], segs[i], SubSeq(segs, i + 1, Len(segs)), home, left, deeper)]

LEMMA WayIs ==
  ASSUME NEW n \in Nat, NEW cur, NEW segs, NEW home, NEW left, NEW deeper
  PROVE  \E h : IsWay(h, n, cur, segs, home, left, deeper)
<1> DEFINE Is(h, m) == IsWay(h, m, cur, segs, home, left, deeper)
           S == {m \in Nat : \E h : Is(h, m)}
           start == [at |-> cur, ended |-> FALSE]
           After(way, i) == Descend(way, segs[i], SubSeq(segs, i + 1, Len(segs)), home, left, deeper)
<1>1. 0 \in S
  <2>1. Is([i \in 0 .. 0 |-> start], 0)
    BY DEF IsWay
  <2> HIDE DEF Is
  <2>2. QED
    BY <2>1
<1>2. ASSUME NEW m \in Nat, m \in S
      PROVE  m + 1 \in S
  <2>1. PICK h : Is(h, m)
    BY <1>2
  <2> DEFINE g == [i \in 0 .. m + 1 |-> IF i = m + 1 THEN After(h[m], i) ELSE h[i]]
  <2>2. /\ h = [i \in 0 .. m |-> h[i]]
        /\ \A i \in 0 .. m : h[i] = IF i = 0 THEN start ELSE After(h[i - 1], i)
    BY <2>1 DEF IsWay
  <2> HIDE DEF After, start
  <2>3. \A i \in 0 .. m : g[i] = h[i]
    OBVIOUS
  <2>4. \A i \in 0 .. m + 1 : g[i] = IF i = 0 THEN start ELSE After(g[i - 1], i)
    <3>1. TAKE i \in 0 .. m + 1
    <3>2. CASE i = m + 1
      <4>1. g[i] = After(h[m], i) /\ g[m] = h[m] /\ i # 0 /\ i - 1 = m
        BY <2>3, <3>2
      <4> HIDE DEF g
      <4>2. QED
        BY <4>1
    <3>3. CASE i \in 0 .. m
      <4>1. g[i] = h[i] /\ (i # 0 => g[i - 1] = h[i - 1])
        BY <2>3, <3>3
      <4> HIDE DEF g
      <4>2. QED
        BY <2>2, <3>3, <4>1
    <3>4. QED
      BY <3>2, <3>3
  <2>5. g = [i \in 0 .. m + 1 |-> g[i]]
    OBVIOUS
  <2> HIDE DEF g
  <2>6. Is(g, m + 1)
    BY <2>4, <2>5 DEF IsWay, After, start
  <2> HIDE DEF Is
  <2>7. QED
    BY <2>6
<1> HIDE DEF S
<1>3. n \in S
  BY <1>1, <1>2, SetInduction
<1>4. QED
  BY <1>3 DEF S

WalksDown(h, cur, segs, home, left, deeper) ==
  /\ h[0] = [at |-> cur, ended |-> FALSE]
  /\ \A i \in 1 .. Len(segs) :
       h[i] = Descend(h[i - 1], segs[i], SubSeq(segs, i + 1, Len(segs)), home, left, deeper)

LEMMA WalkIs ==
  ASSUME NEW cur, NEW segs \in Seq(Names), NEW home, NEW left, NEW deeper
  PROVE  \E h : /\ WalksDown(h, cur, segs, home, left, deeper)
                /\ Walk(cur, segs, home, left, deeper) = h[Len(segs)].at
<1>1. Len(segs) \in Nat
  OBVIOUS
<1>2. \E h : IsWay(h, Len(segs), cur, segs, home, left, deeper)
  BY <1>1, WayIs
<1>3. PICK h : /\ IsWay(h, Len(segs), cur, segs, home, left, deeper)
               /\ Walk(cur, segs, home, left, deeper) = h[Len(segs)].at
  BY <1>2 DEF Walk, IsWay
<1>4. \A i \in 0 .. Len(segs) :
        h[i] = IF i = 0 THEN [at |-> cur, ended |-> FALSE]
               ELSE Descend(h[i - 1], segs[i], SubSeq(segs, i + 1, Len(segs)), home, left, deeper)
  BY <1>3 DEF IsWay
<1> DEFINE After(i) == Descend(h[i - 1], segs[i], SubSeq(segs, i + 1, Len(segs)),
                               home, left, deeper)
           start == [at |-> cur, ended |-> FALSE]
<1>5. \A i \in 0 .. Len(segs) : h[i] = IF i = 0 THEN start ELSE After(i)
  BY <1>4
<1> HIDE DEF After, start
<1>6. h[0] = start /\ \A i \in 1 .. Len(segs) : h[i] = After(i)
  BY <1>1, <1>5
<1>7. WalksDown(h, cur, segs, home, left, deeper)
  BY <1>6 DEF After, start, WalksDown
<1>8. QED
  BY <1>3, <1>7

IsAnswers(a, n, home) ==
  a = [left \in 0 .. n |->
         [question \in Questions |->
            Answer(question, home, left, IF left = 0 THEN <<>> ELSE a[left - 1])]]

LEMMA AnswersAre ==
  ASSUME NEW n \in Nat, NEW home
  PROVE  \E a : IsAnswers(a, n, home)
<1> DEFINE Is(a, m) == IsAnswers(a, m, home)
           S == {m \in Nat : \E a : Is(a, m)}
           At(left, deeper) == [question \in Questions |-> Answer(question, home, left, deeper)]
<1>1. 0 \in S
  <2>1. Is([left \in 0 .. 0 |-> At(0, <<>>)], 0)
    BY DEF IsAnswers
  <2> HIDE DEF Is
  <2>2. QED
    BY <2>1
<1>2. ASSUME NEW m \in Nat, m \in S
      PROVE  m + 1 \in S
  <2>1. PICK a : Is(a, m)
    BY <1>2
  <2> DEFINE g == [left \in 0 .. m + 1 |-> IF left = m + 1 THEN At(left, a[m]) ELSE a[left]]
  <2>2. /\ a = [left \in 0 .. m |-> a[left]]
        /\ \A left \in 0 .. m : a[left] = At(left, IF left = 0 THEN <<>> ELSE a[left - 1])
    BY <2>1 DEF IsAnswers
  <2> HIDE DEF At
  <2>3. \A left \in 0 .. m : g[left] = a[left]
    OBVIOUS
  <2>4. \A left \in 0 .. m + 1 : g[left] = At(left, IF left = 0 THEN <<>> ELSE g[left - 1])
    <3>1. TAKE left \in 0 .. m + 1
    <3>2. CASE left = m + 1
      <4>1. g[left] = At(left, a[m]) /\ g[m] = a[m] /\ left # 0 /\ left - 1 = m
        BY <2>3, <3>2
      <4> HIDE DEF g
      <4>2. QED
        BY <4>1
    <3>3. CASE left \in 0 .. m
      <4>1. g[left] = a[left] /\ (left # 0 => g[left - 1] = a[left - 1])
        BY <2>3, <3>3
      <4> HIDE DEF g
      <4>2. QED
        BY <2>2, <3>3, <4>1
    <3>4. QED
      BY <3>2, <3>3
  <2>5. g = [left \in 0 .. m + 1 |-> g[left]]
    OBVIOUS
  <2> HIDE DEF g
  <2>6. Is(g, m + 1)
    BY <2>4, <2>5 DEF IsAnswers, At
  <2> HIDE DEF Is
  <2>7. QED
    BY <2>6
<1> HIDE DEF S
<1>3. n \in S
  BY <1>1, <1>2, SetInduction
<1>4. QED
  BY <1>3 DEF S

LEMMA AnswersIs ==
  ASSUME NEW home
  PROVE  \E a : /\ \A left \in 0 .. AliasDepth, q \in Questions :
                     a[left][q] = Answer(q, home, left, IF left = 0 THEN <<>> ELSE a[left - 1])
                /\ Answers(home) = a[AliasDepth]
<1>1. AliasDepth \in Nat
  BY ScanAssumption
<1>2. \E a : IsAnswers(a, AliasDepth, home)
  BY <1>1, AnswersAre
<1>3. PICK a : IsAnswers(a, AliasDepth, home) /\ Answers(home) = a[AliasDepth]
  BY <1>2 DEF Answers, IsAnswers
<1> DEFINE After(left) == IF left = 0 THEN <<>> ELSE a[left - 1]
<1>4. ASSUME NEW left \in 0 .. AliasDepth, NEW q \in Questions
      PROVE  a[left][q] = Answer(q, home, left, After(left))
  <2>1. a = [n \in 0 .. AliasDepth |->
               [question \in Questions |-> Answer(question, home, n, After(n))]]
    BY <1>3 DEF IsAnswers
  <2> HIDE DEF After
  <2>2. a[left] = [question \in Questions |-> Answer(question, home, left, After(left))]
    BY <2>1
  <2>3. QED
    BY <2>2
<1>5. QED
  BY <1>3, <1>4

-----------------------------------------------------------------------------
(* Where a path may lead: nowhere, out of the crates that were scanned, or *)
(* to a module of theirs.                                                  *)

Landed(t) ==
  /\ t \in Seq(Names)
  /\ t # <<>> /\ Head(t) \in WorkspaceCrates /\ <<Head(t)>> \in DOMAIN modules
       => t \in DOMAIN modules

(* What further segments lead to from somewhere landed, or any path.       *)
AllLanded(answers) ==
  \A q \in Questions :
    q.kind = "resolve" \/ (q.at # <<>> /\ Landed(q.at)) => Landed(answers[q])

LEMMA ModulesAreLanded ==
  ASSUME ModulesInv, NEW m \in DOMAIN modules
  PROVE  Landed(m) /\ m # <<>>
BY ModulesArePaths DEF Landed

(* An alias stands for the path of an import that was read.                *)
LEMMA AliasesAreWritten ==
  ASSUME ScanInv, NEW m \in DOMAIN modules, NEW n \in DOMAIN modules[m].aliases
  PROVE  modules[m].aliases[n] \in Seq(Names) /\ IsWritten(modules[m].aliases[n])
<1>1. PICK i \in read : /\ i.kind = "use" /\ i.module = m
                        /\ \E k \in DOMAIN Imports(i) :
                             Imports(i)[k].name = n /\ Imports(i)[k].path = modules[m].aliases[n]
  BY DEF ScanInv, ModulesInv, Imported
<1>2. IsItem(i)
  BY ScanAssumption DEF ScanInv, ReadInv
<1>3. \A k \in DOMAIN Imports(i) : IsWritten(Imports(i)[k].path)
  BY <1>1, <1>2 DEF IsItem, Imports
<1>4. QED
  BY <1>1, <1>3 DEF IsWritten

LEMMA QuestionsOf ==
  ASSUME NEW at \in Seq(Names), NEW segs \in Seq(Names)
  PROVE  /\ Resolving(at, segs, FALSE) \in Questions /\ Continuing(at, segs) \in Questions
         /\ Resolving(at, segs, FALSE).kind = "resolve" /\ Continuing(at, segs).at = at
BY DEF Resolving, Continuing, Questions

LEMMA ParentIsModule ==
  ASSUME ModulesInv, NEW m \in DOMAIN modules
  PROVE  ParentOf(m, modules[m].root) \in DOMAIN modules
BY DEF ModulesInv, ParentOf

LEMMA DescendLands ==
  ASSUME ScanInv, NEW way, NEW seg \in Names, NEW rest \in Seq(Names), NEW home,
         NEW left \in Nat, NEW deeper, left > 0 => AllLanded(deeper),
         DOMAIN way = {"at", "ended"}, way.ended \in BOOLEAN, Landed(way.at),
         way.ended \/ way.at \in DOMAIN modules
  PROVE  LET next == Descend(way, seg, rest, home, left, deeper)
         IN  /\ DOMAIN next = {"at", "ended"} /\ next.ended \in BOOLEAN /\ Landed(next.at)
             /\ next.ended \/ next.at \in DOMAIN modules
<1> DEFINE cur == way.at
           info == modules[cur]
           next == Descend(way, seg, rest, home, left, deeper)
<1>1. CASE way.ended
  BY <1>1 DEF Descend
<1>2. CASE ~ way.ended
  <2>1. cur \in DOMAIN modules /\ ModulesInv
    BY <1>2 DEF ScanInv
  <2>2. /\ ParentOf(cur, info.root) \in DOMAIN modules
        /\ seg \in info.children => Append(cur, seg) \in DOMAIN modules
    BY <2>1, ParentIsModule DEF ModulesInv
  <2>3. ASSUME seg \in DOMAIN info.aliases, left > 0
        PROVE  Landed(ByAlias(cur, seg, rest, deeper))
    <3> DEFINE alias == info.aliases[seg]
               target == deeper[Resolving(cur, alias, FALSE)]
    <3>1. cur \in Seq(Names) /\ alias \in Seq(Names)
      BY <2>1, <2>3, AliasesAreWritten, ModulesArePaths
    <3>2. Resolving(cur, alias, FALSE) \in Questions /\ Resolving(cur, alias, FALSE).kind = "resolve"
      BY <3>1, QuestionsOf
    <3>3. Landed(target)
      BY <2>3, <3>2 DEF AllLanded
    <3> HIDE DEF target
    <3>4. target \in Seq(Names)
      BY <3>3 DEF Landed
    <3>5. Continuing(target, rest) \in Questions /\ Continuing(target, rest).at = target
      BY <3>4, QuestionsOf
    <3>6. target # <<>> => Landed(deeper[Continuing(target, rest)])
      BY <2>3, <3>3, <3>5 DEF AllLanded
    <3>7. QED
      BY <2>1, <3>6, ModulesAreLanded DEF ByAlias, Nowhere, target
  <2>4. \A m \in DOMAIN modules : Landed(m)
    BY <2>1, ModulesAreLanded
  <2> HIDE DEF ScanInv, ModulesInv
  <2>5. next = IF seg = "super" THEN [way EXCEPT !.at = ParentOf(cur, info.root)]
               ELSE IF seg = "self" THEN way
               ELSE IF seg \in info.children THEN [way EXCEPT !.at = Append(cur, seg)]
               ELSE IF seg \in DOMAIN info.aliases /\ left > 0 /\ AtHome(cur, home)
                 THEN [at |-> ByAlias(cur, seg, rest, deeper), ended |-> TRUE]
               ELSE [way EXCEPT !.ended = TRUE]
    BY <1>2, <2>1 DEF Descend
  <2> DEFINE Is(w, at, ended) == DOMAIN w = {"at", "ended"} /\ w.at = at /\ w.ended = ended
  <2>6. /\ \A at : Is([way EXCEPT !.at = at], at, FALSE)
        /\ Is([way EXCEPT !.ended = TRUE], cur, TRUE) /\ Is(way, cur, FALSE)
        /\ \A at : Is([at |-> at, ended |-> TRUE], at, TRUE)
    BY <1>2
  <2>7. \/ \E at \in DOMAIN modules : Is(next, at, FALSE)
        \/ \E at : Landed(at) /\ Is(next, at, TRUE)
    <3> HIDE DEF Is, next, info, cur
    <3>1. Landed(cur)
      BY <2>1, <2>4
    <3>2. CASE seg = "super"
      BY <2>2, <2>5, <2>6, <3>2
    <3>3. CASE seg = "self"
      BY <2>1, <2>5, <2>6, <3>3
    <3>4. CASE seg \notin {"super", "self"} /\ seg \in info.children
      BY <2>2, <2>5, <2>6, <3>4
    <3>5. CASE seg \notin {"super", "self"} /\ seg \notin info.children
      BY <2>3, <2>5, <2>6, <3>1, <3>5
    <3>6. QED
      BY <3>2, <3>3, <3>4, <3>5
  <2> HIDE DEF next
  <2>8. /\ DOMAIN next = {"at", "ended"} /\ next.ended \in BOOLEAN /\ Landed(next.at)
        /\ next.ended \/ next.at \in DOMAIN modules
    BY <2>4, <2>7
  <2>9. QED
    BY <2>8 DEF next
<1>3. QED
  BY <1>1, <1>2

LEMMA WalkLands ==
  ASSUME ScanInv, NEW cur \in DOMAIN modules, NEW segs \in Seq(Names), NEW home,
         NEW left \in Nat, NEW deeper, left > 0 => AllLanded(deeper)
  PROVE  Landed(Walk(cur, segs, home, left, deeper))
<1>1. Len(segs) \in Nat
  OBVIOUS
<1>0. PICK h : /\ WalksDown(h, cur, segs, home, left, deeper)
               /\ Walk(cur, segs, home, left, deeper) = h[Len(segs)].at
  BY WalkIs
<1>2. /\ h[0] = [at |-> cur, ended |-> FALSE]
      /\ \A i \in 1 .. Len(segs) :
           h[i] = Descend(h[i - 1], segs[i], SubSeq(segs, i + 1, Len(segs)), home, left, deeper)
      /\ Walk(cur, segs, home, left, deeper) = h[Len(segs)].at
  BY <1>0 DEF WalksDown
<1> DEFINE Lands(w) == /\ DOMAIN w = {"at", "ended"} /\ w.ended \in BOOLEAN /\ Landed(w.at)
                       /\ w.ended \/ w.at \in DOMAIN modules
           S == {i \in Nat : i <= Len(segs) => Lands(h[i])}
<1>3. Lands(h[0])
  BY <1>2, ModulesAreLanded DEF ScanInv
<1>4. ASSUME NEW i \in Nat, i \in S
      PROVE  i + 1 \in S
  <2>1. SUFFICES ASSUME i + 1 <= Len(segs)
                 PROVE  Lands(h[i + 1])
    OBVIOUS
  <2>2. i + 1 \in 1 .. Len(segs) /\ (i + 1) - 1 = i /\ i <= Len(segs)
    BY <1>1, <2>1
  <2>3. Lands(h[i])
    BY <1>4, <2>2
  <2> HIDE DEF S
  <2>4. segs[i + 1] \in Names /\ SubSeq(segs, i + 2, Len(segs)) \in Seq(Names)
    BY <1>1, <2>2
  <2> DEFINE rest == SubSeq(segs, i + 2, Len(segs))
  <2>5. h[i + 1] = Descend(h[i], segs[i + 1], rest, home, left, deeper)
    <3>1. (i + 1) + 1 = i + 2
      BY <1>4
    <3>2. QED
      BY <1>2, <2>2, <3>1
  <2> HIDE DEF rest
  <2>6. rest \in Seq(Names)
    BY <2>4 DEF rest
  <2>7. Lands(Descend(h[i], segs[i + 1], rest, home, left, deeper))
    BY <2>3, <2>4, <2>6, DescendLands
  <2>8. QED
    BY <2>5, <2>7
<1> HIDE DEF Lands
<1>5. Len(segs) \in S
  <2>1. 0 \in S
    BY <1>3
  <2> HIDE DEF S
  <2>2. QED
    BY <1>1, <1>4, <2>1, SetInduction
<1>6. Lands(h[Len(segs)])
  BY <1>1, <1>5
<1>7. QED
  BY <1>2, <1>6 DEF Lands

(* What starts with an external name stays external.                       *)
LEMMA ExternalLands ==
  ASSUME NEW t, t # <<>>, Landed(t), t \notin DOMAIN modules, NEW rest \in Seq(Names)
  PROVE  Landed(t \o rest)
<1>1. /\ t \in Seq(Names) /\ Len(t) \in Nat /\ Len(t) # 0
      /\ Head(t) \notin WorkspaceCrates \/ <<Head(t)>> \notin DOMAIN modules
  BY DEF Landed
<1>2. t \o rest \in Seq(Names) /\ (t \o rest)[1] = t[1] /\ Head(t) = t[1]
      /\ t \o rest # <<>> /\ Head(t \o rest) = (t \o rest)[1]
  BY <1>1
<1>3. QED
  BY <1>1, <1>2 DEF Landed

LEMMA ContinueLands ==
  ASSUME ScanInv, NEW t, t # <<>>, Landed(t), NEW rest \in Seq(Names), NEW home,
         NEW left \in Nat, NEW deeper, left > 0 => AllLanded(deeper)
  PROVE  Landed(ContinueFrom(t, rest, home, left, deeper))
<1>1. CASE t \in DOMAIN modules
  <2>1. Landed(Walk(t, rest, home, left, deeper))
    BY <1>1, WalkLands
  <2>2. QED
    BY <1>1, <2>1 DEF ContinueFrom
<1>2. CASE t \notin DOMAIN modules
  <2>1. Landed(t \o rest)
    BY <1>2, ExternalLands
  <2>2. QED
    BY <1>2, <2>1 DEF ContinueFrom
<1>3. QED
  BY <1>1, <1>2

LEMMA EnterLands ==
  ASSUME ScanInv, NEW name \in Names, NEW rest \in Seq(Names), NEW home,
         NEW left \in Nat, NEW deeper, left > 0 => AllLanded(deeper)
  PROVE  Landed(EnterCrate(name, rest, home, left, deeper))
<1>1. <<name>> \in Seq(Names) /\ Head(<<name>>) = name /\ <<name>> # <<>>
  OBVIOUS
<1>2. CASE name \in WorkspaceCrates /\ <<name>> \in DOMAIN modules
  <2>1. Landed(Walk(<<name>>, rest, home, left, deeper))
    BY <1>2, WalkLands
  <2>2. QED
    BY <1>2, <2>1 DEF EnterCrate
<1>3. CASE ~ (name \in WorkspaceCrates /\ <<name>> \in DOMAIN modules)
  <2>1. <<name>> \o rest \in Seq(Names) /\ Head(<<name>> \o rest) = name
    BY <1>1
  <2>2. Landed(<<name>> \o rest)
    BY <1>3, <2>1 DEF Landed
  <2>3. QED
    BY <1>3, <2>2 DEF EnterCrate
<1>4. QED
  BY <1>2, <1>3

LEMMA ResolveLands ==
  ASSUME ScanInv, NEW module, NEW segs \in Seq(Names), NEW colon, NEW home,
         NEW left \in Nat, NEW deeper, left > 0 => AllLanded(deeper)
  PROVE  Landed(Resolve(module, segs, colon, home, left, deeper))
<1> DEFINE first == Head(segs)
           rest == Tail(segs)
           info == modules[module]
           alias == info.aliases[first]
           target == deeper[Resolving(module, alias, FALSE)]
           Result == Resolve(module, segs, colon, home, left, deeper)
<1>1. Landed(Nowhere)
  BY DEF Landed, Nowhere
<1>2. CASE module \notin DOMAIN modules \/ segs = <<>>
  BY <1>1, <1>2 DEF Resolve
<1>3. CASE module \in DOMAIN modules /\ segs # <<>>
  <2>1. first \in Names /\ rest \in Seq(Names)
    BY <1>3
  <2>2. ModulesInv
    BY DEF ScanInv
  <2>3. /\ info.root \in DOMAIN modules
        /\ ParentOf(module, info.root) \in DOMAIN modules
        /\ first \in info.children => Append(module, first) \in DOMAIN modules
    BY <1>3, <2>2, ParentIsModule DEF ModulesInv
  <2>4. \A m \in DOMAIN modules : Landed(Walk(m, rest, home, left, deeper))
    BY <2>1, WalkLands
  <2>5. Landed(EnterCrate(first, rest, home, left, deeper))
    BY <2>1, EnterLands
  <2>6. ASSUME first \in DOMAIN info.aliases, left > 0, target # Nowhere
        PROVE  Landed(ContinueFrom(target, rest, home, left, deeper))
    <3>1. module \in Seq(Names) /\ alias \in Seq(Names)
      BY <1>3, <2>2, <2>6, AliasesAreWritten, ModulesArePaths
    <3>2. Resolving(module, alias, FALSE) \in Questions
          /\ Resolving(module, alias, FALSE).kind = "resolve"
      BY <3>1, QuestionsOf
    <3>3. Landed(target)
      BY <2>6, <3>2 DEF AllLanded
    <3> HIDE DEF target
    <3>4. QED
      BY <2>1, <2>6, <3>3, ContinueLands DEF Nowhere
  <2>7. Result = IF colon THEN EnterCrate(first, rest, home, left, deeper)
                 ELSE IF first = "crate" THEN Walk(info.root, rest, home, left, deeper)
                 ELSE IF first = "self" THEN Walk(module, rest, home, left, deeper)
                 ELSE IF first = "super"
                   THEN Walk(ParentOf(module, info.root), rest, home, left, deeper)
                 ELSE IF first \in info.children
                   THEN Walk(Append(module, first), rest, home, left, deeper)
                 ELSE IF first \in DOMAIN info.aliases /\ left > 0
                   THEN IF target = Nowhere THEN Nowhere
                        ELSE ContinueFrom(target, rest, home, left, deeper)
                 ELSE IF IsCrate(module, first) THEN EnterCrate(first, rest, home, left, deeper)
                 ELSE Nowhere
    BY <1>3 DEF Resolve
  <2> HIDE DEF first, rest, info, alias, target, Result
  <2>8. QED
    BY <1>1, <1>3, <2>3, <2>4, <2>5, <2>6, <2>7 DEF Result
<1>4. QED
  BY <1>2, <1>3

LEMMA AnswersLand ==
  ASSUME ScanInv, NEW home
  PROVE  AllLanded(Answers(home))
<1>1. AliasDepth \in Nat
  BY ScanAssumption
<1>2. PICK a : /\ \A left \in 0 .. AliasDepth, q \in Questions :
                    a[left][q] = Answer(q, home, left, IF left = 0 THEN <<>> ELSE a[left - 1])
               /\ Answers(home) = a[AliasDepth]
  BY AnswersIs
<1>3. ASSUME NEW left \in 0 .. AliasDepth, left > 0 => AllLanded(a[left - 1])
      PROVE  AllLanded(a[left])
  <2> DEFINE deeper == IF left = 0 THEN <<>> ELSE a[left - 1]
  <2>1. left \in Nat /\ (left > 0 => AllLanded(deeper))
    BY <1>1, <1>3
  <2> HIDE DEF deeper
  <2>2. SUFFICES ASSUME NEW q \in Questions,
                        q.kind = "resolve" \/ (q.at # <<>> /\ Landed(q.at))
                 PROVE  Landed(Answer(q, home, left, deeper))
    BY <1>2 DEF AllLanded, deeper
  <2>3. q.kind \in {"resolve", "continue"} /\ q.segs \in Seq(Names)
    BY DEF Questions
  <2>4. Landed(Resolve(q.at, q.segs, q.colon, home, left, deeper))
    BY <2>1, <2>3, ResolveLands
  <2>5. q.kind # "resolve" => Landed(ContinueFrom(q.at, q.segs, home, left, deeper))
    BY <2>1, <2>2, <2>3, ContinueLands
  <2>6. QED
    BY <2>4, <2>5 DEF Answer
<1> DEFINE S == {n \in Nat : n <= AliasDepth => AllLanded(a[n])}
<1>4. 0 \in S
  BY <1>1, <1>3
<1>5. ASSUME NEW n \in Nat, n \in S
      PROVE  n + 1 \in S
  <2>1. SUFFICES ASSUME n + 1 <= AliasDepth
                 PROVE  AllLanded(a[n + 1])
    OBVIOUS
  <2>2. n + 1 \in 0 .. AliasDepth /\ (n + 1) - 1 = n /\ AllLanded(a[n])
    BY <1>1, <1>5, <2>1
  <2> HIDE DEF S
  <2>3. AllLanded(a[(n + 1) - 1])
    BY <2>2
  <2>4. QED
    BY <1>3, <2>2, <2>3
<1> HIDE DEF S
<1>6. AliasDepth \in S
  BY <1>1, <1>4, <1>5, SetInduction
<1>7. QED
  BY <1>1, <1>2, <1>6 DEF S

LEMMA TargetsLand ==
  ASSUME ScanInv, NEW ref \in refs
  PROVE  Landed(Target(ref))
<1>1. /\ ref.module \in DOMAIN modules /\ ref.path \in Seq(Names) /\ ref.colon \in BOOLEAN
  <2>1. PICK i \in read : /\ i.kind # "include"
                          /\ ref = [module |-> i.module, path |-> ref.path, colon |-> i.colon,
                                    scope |-> TrueScope(i)]
    BY DEF ScanInv, RefsInv
  <2>2. IsItem(i) /\ i.module \in DOMAIN modules
    BY ScanAssumption DEF ScanInv, ReadInv
  <2>3. i.colon \in BOOLEAN
    BY <2>1, <2>2 DEF IsItem
  <2>4. IsWritten(ref.path)
    BY DEF ScanInv, RefsInv
  <2>5. ref.module = i.module /\ ref.colon = i.colon
    BY <2>1
  <2>6. QED
    BY <2>2, <2>3, <2>4, <2>5 DEF IsWritten
<1>2. ref.module \in Seq(Names)
  BY <1>1, ModulesArePaths DEF ScanInv
<1>3. /\ Resolving(ref.module, ref.path, ref.colon) \in Questions
      /\ Resolving(ref.module, ref.path, ref.colon).kind = "resolve"
  BY <1>1, <1>2 DEF Resolving, Questions
<1>4. QED
  BY <1>3, AnswersLand DEF Target, AllLanded

(* No rule is asked of a target that is not there.                         *)
LEMMA EndAtModulesIfScanned == ScanInv => EdgesEndAtModules
<1> SUFFICES ASSUME ScanInv, finished, NEW e \in edges, ~ e.onDisk,
                    <<Head(e.to)>> \in DOMAIN modules, Head(e.to) \in WorkspaceCrates
             PROVE  e.to \in DOMAIN modules
  BY DEF EdgesEndAtModules
<1>1. e \in IncludeEdges \/ e \in ManifestEdges \/ e \in PathEdges
  BY DEF ScanInv, EdgesInv
<1>2. CASE e \in IncludeEdges
  BY <1>2 DEF IncludeEdges
<1>3. CASE e \in ManifestEdges
  <2>1. PICK d \in Manifest : e.to = <<d.crate>>
    BY <1>3 DEF ManifestEdges
  <2>2. Head(e.to) = d.crate
    BY <2>1
  <2>3. QED
    BY <2>1, <2>2
<1>4. CASE e \in PathEdges
  <2>1. PICK r \in refs : e.to = Target(r) /\ e.to # Nowhere
    BY <1>4 DEF PathEdges
  <2>2. Landed(e.to)
    BY <2>1, TargetsLand
  <2>3. QED
    BY <2>1, <2>2 DEF Landed, Nowhere
<1>5. QED
  BY <1>1, <1>2, <1>3, <1>4

(* However imports chain, circle or cross crates, no edge into a scanned   *)
(* crate ends at a module that is not registered.                          *)
THEOREM EdgesLand == LintSpec => []EdgesEndAtModules
<1>1. LintInv => EdgesEndAtModules
  BY EndAtModulesIfScanned DEF LintInv
<1>2. QED
  BY <1>1, LintInvHolds, PTL

-----------------------------------------------------------------------------
(* What the rules are asked, and what they say.                            *)

LEMMA SpellIs ==
  ASSUME NEW path \in Seq(Names)
  PROVE  /\ Spell(path) \in Seq(Seq(Letters)) /\ Len(Spell(path)) = Len(path)
         /\ IsPath(InCode(Spell(path))) /\ IsPath(OnDisk(Spell(path)))
<1>1. Len(path) \in Nat /\ path \in [1 .. Len(path) -> Names]
  OBVIOUS
<1>2. Spell(path) = [i \in 1 .. Len(path) |-> Spelling[path[i]]]
  BY <1>1 DEF Spell
<1>3. \A i \in 1 .. Len(path) : Spelling[path[i]] \in Seq(Letters)
  BY <1>1, SpellingAssumption
<1>4. Spell(path) \in Seq(Seq(Letters)) /\ Len(Spell(path)) = Len(path)
  <2> DEFINE T == Seq(Letters)
  <2>1. \A i \in 1 .. Len(path) : Spelling[path[i]] \in T
    BY <1>3
  <2> HIDE DEF T
  <2>2. Spell(path) \in Seq(T) /\ Len(Spell(path)) = Len(path)
    BY <1>1, <1>2, <2>1
  <2>3. QED
    BY <2>2 DEF T
<1>5. QED
  BY <1>4 DEF IsPath, InCode, OnDisk

(* A target of a crate of the workspace, by its first name.                *)
LEMMA InsideIs ==
  ASSUME NEW segs \in Seq(Seq(Letters)), segs # <<>>
  PROVE  (\E c \in Crates : IsPrefix(<<c>>, segs)) <=> Head(segs) \in Crates
<1> DEFINE T == Seq(Letters)
<1>1. Crates \subseteq T
  <2>1. WorkspaceCrates \subseteq Names
    BY ScanAssumption DEF WorkspaceCrates
  <2>2. \A n \in Names : Spelling[n] \in T
    BY SpellingAssumption
  <2>3. QED
    BY <2>1, <2>2 DEF Crates
<1>2. segs \in Seq(T)
  OBVIOUS
<1> HIDE DEF T
<1>3. Len(segs) \in Nat /\ Len(segs) >= 1 /\ Head(segs) = segs[1]
  BY <1>2
<1>4. ASSUME NEW c \in T
      PROVE  IsPrefix(<<c>>, segs) <=> c = segs[1]
  <2> DEFINE one == <<c>>
  <2>1. one \in Seq(T) /\ Len(one) = 1 /\ one[1] = c
    OBVIOUS
  <2> HIDE DEF one
  <2>2. IsPrefix(one, segs) <=> Len(one) <= Len(segs) /\ \A k \in 1 .. Len(one) : one[k] = segs[k]
    BY <1>2, <2>1, PrefixIs
  <2>3. IsPrefix(one, segs) <=> c = segs[1]
    BY <1>3, <2>1, <2>2
  <2>4. QED
    BY <2>3 DEF one
<1>5. QED
  BY <1>1, <1>3, <1>4

(* A pattern's `self` is the module the reference leaves.                  *)
LEMMA MeantIs ==
  ASSUME NEW p, IsPattern(p), NEW from, IsPath(from), NEW to, IsPath(to)
  PROVE  Matches(ExpandSelf(p, from), to) <=> PathDenotes(Meant(p, from), to)
<1> DEFINE L == Letters \cup {Star}
<1>1. /\ p.segs \in Seq(Seq(L)) /\ p.onDisk \in BOOLEAN
      /\ p = [onDisk |-> p.onDisk, segs |-> p.segs]
  BY DEF IsPattern
<1>2. from.segs \in Seq(Seq(Letters)) /\ to.segs \in Seq(Seq(Letters))
  BY DEF IsPath
<1>3. ExpandSelf(p, from) = Meant(p, from)
  <2>1. \A x : [p EXCEPT !.segs = x] = [onDisk |-> p.onDisk, segs |-> x]
    BY <1>1
  <2>2. CASE ~ p.onDisk /\ p.segs # <<>> /\ Head(p.segs) = Self
    <3>1. ExpandSelf(p, from) = [p EXCEPT !.segs = from.segs \o Tail(p.segs)]
      BY <2>2 DEF ExpandSelf
    <3>2. p.onDisk = FALSE
      BY <1>1, <2>2
    <3>3. QED
      BY <2>1, <2>2, <3>1, <3>2 DEF Meant, InCode
  <2>3. CASE ~ (~ p.onDisk /\ p.segs # <<>> /\ Head(p.segs) = Self)
    BY <2>3 DEF ExpandSelf, Meant
  <2>4. QED
    BY <2>2, <2>3
<1>4. Meant(p, from).segs \in Seq(Seq(L))
  <2> DEFINE T == Seq(L)
  <2>1. from.segs \in Seq(T)
    <3>1. Seq(Letters) \subseteq T
      OBVIOUS
    <3> HIDE DEF T
    <3>2. QED
      BY <1>2, <3>1
  <2>2. p.segs \in Seq(T)
    BY <1>1
  <2> HIDE DEF T
  <2>3. p.segs # <<>> => Tail(p.segs) \in Seq(T)
    BY <2>2
  <2>4. p.segs # <<>> => from.segs \o Tail(p.segs) \in Seq(T)
    BY <2>1, <2>3
  <2>5. Meant(p, from).segs \in Seq(T)
    BY <2>2, <2>4 DEF Meant, InCode
  <2>6. QED
    BY <2>5 DEF T
<1> HIDE DEF L
<1>5. QED
  BY <1>2, <1>3, <1>4, MatchesIsDenotes

LEMMA RulesArePatterns ==
  ASSUME NEW file \in RuleFiles, NEW rule \in file
  PROVE  /\ \A p \in rule.from \cup rule.deny : IsPattern(p)
         /\ \A list \in rule.allow : \A p \in list : IsPattern(p)
BY PatternAssumption

LEMMA FromIs ==
  ASSUME NEW p, IsPattern(p), NEW m, IsPath(m)
  PROVE  Matches(p, m) <=> PathDenotes(p, m)
<1>1. p.segs \in Seq(Seq(Letters \cup {Star})) /\ m.segs \in Seq(Seq(Letters))
  BY DEF IsPattern, IsPath
<1>2. QED
  BY <1>1, MatchesIsDenotes

(* A rule is broken exactly by what it forbids.                            *)
LEMMA BrokenIsForbidden ==
  ASSUME NEW file \in RuleFiles, NEW rule \in file,
         NEW e, IsPath(e.from), IsPath(e.to), e.to.segs # <<>>
  PROVE  Forbids(rule, e) <=> e.from # e.to /\ Breaks(rule, e, Crates)
<1>1. /\ \A p \in rule.from \cup rule.deny : IsPattern(p)
      /\ \A list \in rule.allow : \A p \in list : IsPattern(p)
  BY RulesArePatterns
<1> DEFINE In(list) == \E p \in list : PathDenotes(Meant(p, e.from), e.to)
           inside == e.to.onDisk \/ \E c \in Crates : IsPrefix(<<c>>, e.to.segs)
<1>2. \A p \in rule.from : Matches(p, e.from) <=> PathDenotes(p, e.from)
  BY <1>1, FromIs
<1>3. ASSUME NEW list, \A p \in list : IsPattern(p)
      PROVE  Hit(list, e) <=> In(list)
  <2>1. \A p \in list : Matches(ExpandSelf(p, e.from), e.to) <=> PathDenotes(Meant(p, e.from), e.to)
    BY <1>3, MeantIs
  <2>2. QED
    BY <2>1 DEF Hit
<1>4. IsInternal(e.to, Crates) <=> inside
  <2>1. e.to.segs \in Seq(Seq(Letters))
    BY DEF IsPath
  <2>2. QED
    BY <2>1, InsideIs DEF IsInternal
<1>5. /\ Hit(rule.deny, e) <=> In(rule.deny)
      /\ \A list \in rule.allow : Hit(list, e) <=> In(list)
  BY <1>1, <1>3
<1> HIDE DEF In, inside
<1>6. Breaks(rule, e, Crates) <=>
        /\ rule.scope \in {"all", e.scope}
        /\ \E p \in rule.from : PathDenotes(p, e.from)
        /\ \/ In(rule.deny)
           \/ \E list \in rule.allow : inside /\ ~ In(list)
  BY <1>2, <1>4, <1>5 DEF Breaks, Covers
<1>7. QED
  BY <1>6 DEF Forbids, In, inside

(* A rules file is used exactly if each of its rules constrains a module.  *)
LEMMA UsableIsBinding ==
  ASSUME ScanInv, NEW file \in RuleFiles
  PROVE  Usable(file) <=> \A rule \in file : Binds(rule)
<1>1. \A m \in ModulePaths : IsPath(m)
  <2>1. ASSUME NEW m \in DOMAIN modules
        PROVE  IsPath(InCode(Spell(m)))
    BY ModulesArePaths, SpellIs DEF ScanInv
  <2>2. QED
    BY <2>1 DEF ModulePaths
<1>2. ASSUME NEW rule \in file, NEW p \in rule.from
      PROVE  (\E m \in ModulePaths : PathDenotes(p, m)) <=> ~ \A m \in ModulePaths : ~ Matches(p, m)
  <2>1. IsPattern(p)
    BY RulesArePatterns
  <2>2. \A m \in ModulePaths : Matches(p, m) <=> PathDenotes(p, m)
    BY <1>1, <2>1, FromIs
  <2>3. QED
    BY <2>2
<1>3. UnmatchedFrom(file, ModulePaths) = {} <=>
        \A rule \in file : \A p \in rule.from : \E m \in ModulePaths : PathDenotes(p, m)
  <2> DEFINE Unmatched(p) == \A m \in ModulePaths : ~ Matches(p, m)
  <2>1. \A rule \in file : \A p \in rule.from :
          (\E m \in ModulePaths : PathDenotes(p, m)) <=> ~ Unmatched(p)
    BY <1>2
  <2>2. UnmatchedFrom(file, ModulePaths) = {p \in UNION {rule.from : rule \in file} : Unmatched(p)}
    BY DEF UnmatchedFrom
  <2> HIDE DEF Unmatched
  <2>3. UnmatchedFrom(file, ModulePaths) = {} <=>
          \A rule \in file : \A p \in rule.from : ~ Unmatched(p)
    BY <2>2
  <2>4. QED
    BY <2>1, <2>3
<1>4. QED
  BY <1>3 DEF Usable, WellFormed, Binds

(* Every edge of the model is between paths.                               *)
LEMMA EdgesArePaths ==
  ASSUME ScanInv, NEW e \in edges
  PROVE  /\ e.from \in Seq(Names) /\ e.to \in Seq(Names) /\ e.to # <<>> /\ e.onDisk \in BOOLEAN
<1>1. e \in IncludeEdges \/ e \in ManifestEdges \/ e \in PathEdges
  BY DEF ScanInv, EdgesInv
<1>2. CASE e \in IncludeEdges
  <2>1. PICK i \in read : i.kind = "include" /\ e.from = i.module /\ e.to = i.file
                          /\ e.onDisk = TRUE
    BY <1>2 DEF IncludeEdges
  <2>2. IsItem(i)
    BY ScanAssumption DEF ScanInv, ReadInv
  <2>3. QED
    BY <2>1, <2>2 DEF IsItem
<1>3. CASE e \in ManifestEdges
  <2>1. PICK d \in Manifest : /\ e.from = <<Packages[d.package]>>
                              /\ \/ e.to = <<d.crate>> /\ e.onDisk = FALSE
                                 \/ e.to = d.path /\ d.path # <<>> /\ e.onDisk = TRUE
    BY <1>3 DEF ManifestEdges
  <2>2. Packages[d.package] \in Names /\ d.crate \in Names /\ d.path \in Seq(Names)
    BY ScanAssumption
  <2>3. \A n \in Names : <<n>> \in Seq(Names) /\ <<n>> # <<>>
    OBVIOUS
  <2>4. e.from \in Seq(Names) /\ e.onDisk \in BOOLEAN
    BY <2>1, <2>2, <2>3
  <2>5. e.to \in Seq(Names) /\ e.to # <<>>
    BY <2>1, <2>2, <2>3
  <2>6. QED
    BY <2>4, <2>5
<1>4. CASE e \in PathEdges
  <2>1. PICK r \in refs : e.from = r.module /\ e.to = Target(r) /\ e.to # Nowhere
                          /\ e.onDisk = FALSE
    BY <1>4 DEF PathEdges
  <2>2. Landed(e.to)
    BY <2>1, TargetsLand
  <2>3. r.module \in DOMAIN modules
    BY DEF ScanInv, RefsInv, ReadInv
  <2>4. QED
    BY <2>1, <2>2, <2>3, ModulesArePaths DEF Landed, Nowhere, ScanInv
<1>5. QED
  BY <1>1, <1>2, <1>3, <1>4

LEMMA SpelledEdgesArePaths ==
  ASSUME ScanInv, NEW e \in edges
  PROVE  /\ IsPath(SpelledEdge(e).from) /\ IsPath(SpelledEdge(e).to)
         /\ SpelledEdge(e).to.segs # <<>>
<1>1. /\ e.from \in Seq(Names) /\ e.to \in Seq(Names) /\ e.to # <<>> /\ e.onDisk \in BOOLEAN
  BY EdgesArePaths
<1>2. /\ IsPath(InCode(Spell(e.from))) /\ IsPath(InCode(Spell(e.to))) /\ IsPath(OnDisk(Spell(e.to)))
      /\ Spell(e.to) # <<>>
  <2>1. /\ Spell(e.to) \in Seq(Seq(Letters)) /\ Len(Spell(e.to)) = Len(e.to)
        /\ IsPath(InCode(Spell(e.to))) /\ IsPath(OnDisk(Spell(e.to)))
    BY <1>1, SpellIs
  <2>2. Len(e.to) # 0
    BY <1>1
  <2>3. IsPath(InCode(Spell(e.from)))
    BY <1>1, SpellIs
  <2>4. QED
    BY <2>1, <2>2, <2>3
<1>3. QED
  BY <1>1, <1>2 DEF SpelledEdge, InCode, OnDisk

LEMMA ReportIsJust == LintInv => OnlyTheForbiddenIsReported
<1> SUFFICES ASSUME LintInv
             PROVE  OnlyTheForbiddenIsReported
  OBVIOUS
<1>1. ASSUME NEW v \in report
      PROVE  Forbids(v[1], v[2]) /\ \E e \in edges : v[2] = SpelledEdge(e)
  <2>1. report = Violations(rules, Graph, Crates) /\ rules \in RuleFiles
    BY <1>1 DEF LintInv, ReportInv
  <2>2. PICK rule \in rules, s \in Graph : v = <<rule, s>> /\ s.from # s.to /\ Breaks(rule, s, Crates)
    BY <1>1, <2>1 DEF Violations
  <2>3. PICK e \in edges : s = SpelledEdge(e)
    BY DEF Graph
  <2>4. IsPath(s.from) /\ IsPath(s.to) /\ s.to.segs # <<>>
    BY <2>3, SpelledEdgesArePaths DEF LintInv
  <2>5. Forbids(rule, s)
    BY <2>1, <2>2, <2>4, BrokenIsForbidden
  <2>6. v[1] = rule /\ v[2] = s
    BY <2>2
  <2>7. QED
    BY <2>3, <2>5, <2>6
<1>2. status = "violations" => report # {}
  BY DEF LintInv, ReportInv
<1>3. status = "error" => report = {} /\ (finished => \E rule \in rules : ~ Binds(rule))
  <2>1. status = "error" => /\ report = {}
                            /\ finished => rules \in RuleFiles /\ ~ Usable(rules)
    BY DEF LintInv, ReportInv
  <2>2. QED
    BY <2>1, UsableIsBinding DEF LintInv
<1>4. QED
  BY <1>1, <1>2, <1>3 DEF OnlyTheForbiddenIsReported

(* Whatever the rules file, each violation reported is of an edge of the   *)
(* model that the rule, read by what its patterns mean, forbids.           *)
THEOREM ReportsAreJust == LintSpec => []OnlyTheForbiddenIsReported
BY ReportIsJust, LintInvHolds, PTL

-----------------------------------------------------------------------------
(* Paths into another crate.                                               *)

(* The modules a path spells out: each is the child of the one before.     *)
LEMMA SpelledOut ==
  ASSUME ScanInv, NEW path, IsWritten(path), NEW n \in Nat, n >= 1, n + 1 <= Len(path)
  PROVE  /\ SubSeq(path, 1, n + 1) = Append(SubSeq(path, 1, n), path[n + 1])
         /\ SubSeq(path, 1, n + 1) \in DOMAIN modules =>
              /\ SubSeq(path, 1, n) \in DOMAIN modules
              /\ path[n + 1] \in modules[SubSeq(path, 1, n)].children
              /\ modules[SubSeq(path, 1, n + 1)].root = modules[SubSeq(path, 1, n)].root
         /\ /\ SubSeq(path, 1, n) \in DOMAIN modules
            /\ path[n + 1] \in modules[SubSeq(path, 1, n)].children
            => SubSeq(path, 1, n + 1) \in DOMAIN modules
<1> DEFINE above == SubSeq(path, 1, n)
           here == SubSeq(path, 1, n + 1)
           name == path[n + 1]
<1>1. path \in Seq(Names) /\ Len(path) \in Nat /\ name \in Names
  <2>1. path \in Seq(Names)
    BY DEF IsWritten
  <2>2. n + 1 \in 1 .. Len(path)
    BY <2>1
  <2>3. QED
    BY <2>1, <2>2
<1>2. \A m \in 0 .. Len(path) : /\ SubSeq(path, 1, m) \in Seq(Names) /\ Len(SubSeq(path, 1, m)) = m
                                /\ \A k \in 1 .. m : SubSeq(path, 1, m)[k] = path[k]
  BY <1>1
<1>3. /\ above \in Seq(Names) /\ Len(above) = n
      /\ here \in Seq(Names) /\ Len(here) = n + 1
      /\ \A k \in 1 .. n : above[k] = path[k]
      /\ \A k \in 1 .. n + 1 : here[k] = path[k]
  <2>1. n \in 0 .. Len(path) /\ n + 1 \in 0 .. Len(path)
    BY <1>1
  <2>2. QED
    BY <1>2, <2>1
<1> HIDE DEF above, here, name
<1>4. here = Append(above, name)
  <2> DEFINE a == Append(above, name)
  <2>1. /\ a \in Seq(Names) /\ Len(a) = n + 1
        /\ \A k \in 1 .. n + 1 : a[k] = path[k]
    BY <1>1, <1>3 DEF name
  <2> HIDE DEF a
  <2>2. here = a
    BY <1>3, <2>1, SameSequence
  <2>3. QED
    BY <2>2 DEF a
<1>5. Front(here) = above /\ Last(here) = name
  BY <1>1, <1>3, <1>4, AppendFrontAndLast
<1>6. here \notin Roots
  <2>1. n + 1 \in DOMAIN path
    BY <1>1
  <2>2. \A root \in Roots : Len(root) > 1 => name # Last(root)
    BY <2>1 DEF IsWritten, name
  <2>3. Len(here) > 1
    BY <1>3
  <2>4. QED
    BY <1>5, <2>2, <2>3
<1>7. here \in DOMAIN modules =>
        /\ above \in DOMAIN modules /\ name \in modules[above].children
        /\ modules[here].root = modules[above].root
  BY <1>5, <1>6 DEF ScanInv, ModulesInv
<1>8. above \in DOMAIN modules /\ name \in modules[above].children => here \in DOMAIN modules
  BY <1>4 DEF ScanInv, ModulesInv
<1>9. QED
  BY <1>4, <1>7, <1>8 DEF above, here, name

(* So what lies above a spelled module is one too.                         *)
LEMMA SpelledAbove ==
  ASSUME ScanInv, NEW path, IsWritten(path), NEW k \in 1 .. Len(path),
         SubSeq(path, 1, k) \in DOMAIN modules, NEW j \in 1 .. k
  PROVE  SubSeq(path, 1, j) \in DOMAIN modules
<1> DEFINE S == {d \in Nat : d < k => SubSeq(path, 1, k - d) \in DOMAIN modules}
<1>1. 0 \in S
  OBVIOUS
<1>2. ASSUME NEW d \in Nat, d \in S
      PROVE  d + 1 \in S
  <2>1. SUFFICES ASSUME d + 1 < k
                 PROVE  SubSeq(path, 1, k - (d + 1)) \in DOMAIN modules
    OBVIOUS
  <2> DEFINE n == k - (d + 1)
  <2>2. n \in Nat /\ n >= 1 /\ n + 1 = k - d /\ n + 1 <= Len(path)
    BY <2>1
  <2>3. SubSeq(path, 1, k - d) \in DOMAIN modules
    BY <1>2, <2>1
  <2> HIDE DEF n
  <2>4. SubSeq(path, 1, n) \in DOMAIN modules
    BY <2>2, <2>3, SpelledOut
  <2>5. QED
    BY <2>4 DEF n
<1> HIDE DEF S
<1>3. k - j \in S
  <2>1. k - j \in Nat
    OBVIOUS
  <2>2. QED
    BY <1>1, <1>2, <2>1, SetInduction
<1>4. k - j < k /\ k - (k - j) = j
  OBVIOUS
<1>5. QED
  BY <1>3, <1>4 DEF S

(* Away from home, a segment that is no keyword leads to a child or ends   *)
(* the way.                                                                *)
OnWay(cur) == [at |-> cur, ended |-> FALSE]

StepAway(cur, seg) ==
  IF seg \in modules[cur].children THEN OnWay(Append(cur, seg)) ELSE [at |-> cur, ended |-> TRUE]

LEMMA DescendAway ==
  ASSUME NEW cur \in DOMAIN modules, NEW home, modules[cur].root # home,
         NEW seg, seg \notin Keywords, NEW rest, NEW left, NEW deeper
  PROVE  Descend(OnWay(cur), seg, rest, home, left, deeper) = StepAway(cur, seg)
<1>1. seg # "super" /\ seg # "self"
  BY DEF Keywords
<1> DEFINE way == OnWay(cur)
<1>2. way.at = cur /\ way.ended = FALSE /\ way = [at |-> way.at, ended |-> way.ended]
  BY DEF OnWay
<1> HIDE DEF way
<1>3. /\ \A m : [way EXCEPT !.at = m] = [at |-> m, ended |-> way.ended]
      /\ [way EXCEPT !.ended = TRUE] = [at |-> way.at, ended |-> TRUE]
  <2>1. ASSUME NEW w, w = [at |-> w.at, ended |-> w.ended]
        PROVE  \A m : [w EXCEPT !.at = m] = [at |-> m, ended |-> w.ended]
    BY <2>1
  <2>2. ASSUME NEW w, w = [at |-> w.at, ended |-> w.ended]
        PROVE  \A b : [w EXCEPT !.ended = b] = [at |-> w.at, ended |-> b]
    BY <2>2
  <2>3. QED
    BY <1>2, <2>1, <2>2
<1>4. ~ AtHome(cur, home)
  BY DEF AtHome
<1>5. Descend(way, seg, rest, home, left, deeper) =
        IF seg \in modules[cur].children THEN [way EXCEPT !.at = Append(cur, seg)]
                                         ELSE [way EXCEPT !.ended = TRUE]
  BY <1>1, <1>2, <1>4 DEF Descend
<1>6. Descend(way, seg, rest, home, left, deeper) = StepAway(cur, seg)
  BY <1>2, <1>3, <1>5 DEF StepAway, OnWay
<1>7. QED
  BY <1>6 DEF way

LEMMA WalkAway ==
  ASSUME ScanInv, NEW path, IsWritten(path), path[1] \notin Keywords,
         <<path[1]>> \in DOMAIN modules, NEW home, modules[<<path[1]>>].root # home,
         NEW left, NEW deeper
  PROVE  \E n \in 1 .. Len(path) :
           /\ SubSeq(path, 1, n) \in DOMAIN modules
           /\ n < Len(path) => SubSeq(path, 1, n + 1) \notin DOMAIN modules
           /\ Walk(<<path[1]>>, Tail(path), home, left, deeper) = SubSeq(path, 1, n)
<1> DEFINE rest == Tail(path)
           start == <<path[1]>>
           pre(n) == SubSeq(path, 1, n)
<1>1. /\ path \in Seq(Names) /\ Len(path) \in Nat \ {0}
      /\ \A k \in 1 .. Len(path) : path[k] \notin Keywords
  <2>1. path \in Seq(Names) \ {<<>>}
    BY DEF IsWritten
  <2>2. Len(path) \in Nat \ {0} /\ DOMAIN path = 1 .. Len(path)
    BY <2>1
  <2>3. \A k \in DOMAIN path : path[k] \notin Keywords
    BY DEF IsWritten
  <2>4. QED
    BY <2>1, <2>2, <2>3
<1>2. rest \in Seq(Names) /\ Len(rest) = Len(path) - 1
      /\ \A i \in 1 .. Len(path) - 1 : rest[i] = path[i + 1]
  BY <1>1
<1>3. pre(1) = start
  <2>1. start \in Seq(Names) /\ Len(start) = 1 /\ start[1] = path[1]
    BY <1>1
  <2>2. pre(1) \in Seq(Names) /\ Len(pre(1)) = 1 /\ pre(1)[1] = path[1]
    BY <1>1
  <2> HIDE DEF pre, start
  <2>3. QED
    BY <2>1, <2>2, SameSequence
<1>a. start \in DOMAIN modules
  OBVIOUS
<1>b. modules[start].root # home
  OBVIOUS
<1> HIDE DEF start, rest, pre
<1>4. PICK h : /\ WalksDown(h, start, rest, home, left, deeper)
               /\ Walk(start, rest, home, left, deeper) = h[Len(rest)].at
  BY <1>2, WalkIs
<1>5. /\ h[0] = [at |-> start, ended |-> FALSE]
      /\ \A i \in 1 .. Len(rest) :
           h[i] = Descend(h[i - 1], rest[i], SubSeq(rest, i + 1, Len(rest)), home, left, deeper)
  BY <1>4 DEF WalksDown
<1> DEFINE Down(w, i) ==
             /\ w = [at |-> pre(i + 1), ended |-> FALSE]
             /\ pre(i + 1) \in DOMAIN modules
             /\ modules[pre(i + 1)].root # home
           Ended(w, i) ==
             \E j \in 1 .. i : /\ w = [at |-> pre(j), ended |-> TRUE]
                               /\ pre(j) \in DOMAIN modules /\ pre(j + 1) \notin DOMAIN modules
           S == {i \in Nat : i < Len(path) => Down(h[i], i) \/ Ended(h[i], i)}
<1>6. 0 \in S
  <2>1. Down(h[0], 0)
    <3>1. 0 + 1 = 1
      OBVIOUS
    <3>2. QED
      BY <1>3, <1>5, <1>a, <1>b, <3>1
  <2> HIDE DEF Down, Ended
  <2>2. QED
    BY <2>1
<1>7. ASSUME NEW i \in Nat, i \in S
      PROVE  i + 1 \in S
  <2> HIDE DEF Down, Ended
  <2>1. SUFFICES ASSUME i + 1 < Len(path)
                 PROVE  Down(h[i + 1], i + 1) \/ Ended(h[i + 1], i + 1)
    OBVIOUS
  <2> DEFINE after == SubSeq(rest, (i + 1) + 1, Len(rest))
             seg == path[i + 2]
  <2>2. /\ i + 1 \in 1 .. Len(rest) /\ (i + 1) - 1 = i /\ (i + 1) + 1 = i + 2
        /\ i < Len(path) /\ i + 2 \in 1 .. Len(path) /\ i + 1 \in 1 .. Len(path) - 1
    BY <1>1, <1>2, <2>1
  <2>3. h[i + 1] = Descend(h[i], rest[i + 1], after, home, left, deeper)
    BY <1>5, <2>2
  <2>4. rest[i + 1] = seg /\ seg \notin Keywords
    BY <1>1, <1>2, <2>2
  <2>5. h[i + 1] = Descend(h[i], seg, after, home, left, deeper)
    BY <2>3, <2>4
  <2>6. Down(h[i], i) \/ Ended(h[i], i)
    BY <1>7, <2>2
  <2> HIDE DEF after, seg, S
  <2> USE DEF Down, Ended
  <2>7. CASE Down(h[i], i)
    <3> DEFINE cur == pre(i + 1)
    <3>1. /\ cur \in DOMAIN modules /\ modules[cur].root # home
          /\ h[i] = [at |-> cur, ended |-> FALSE]
      BY <2>7
    <3>2. /\ pre(i + 2) = Append(cur, seg)
          /\ pre(i + 2) \in DOMAIN modules => modules[pre(i + 2)].root = modules[cur].root
          /\ seg \in modules[cur].children <=> pre(i + 2) \in DOMAIN modules
      <4>1. i + 1 \in Nat /\ i + 1 >= 1 /\ (i + 1) + 1 <= Len(path)
        BY <2>2
      <4>2. /\ SubSeq(path, 1, (i + 1) + 1) = Append(SubSeq(path, 1, i + 1), path[(i + 1) + 1])
            /\ SubSeq(path, 1, (i + 1) + 1) \in DOMAIN modules =>
                 /\ SubSeq(path, 1, i + 1) \in DOMAIN modules
                 /\ path[(i + 1) + 1] \in modules[SubSeq(path, 1, i + 1)].children
                 /\ modules[SubSeq(path, 1, (i + 1) + 1)].root = modules[SubSeq(path, 1, i + 1)].root
            /\ /\ SubSeq(path, 1, i + 1) \in DOMAIN modules
               /\ path[(i + 1) + 1] \in modules[SubSeq(path, 1, i + 1)].children
               => SubSeq(path, 1, (i + 1) + 1) \in DOMAIN modules
        BY <4>1, SpelledOut
      <4>3. (i + 1) + 1 = i + 2
        BY <2>2
      <4>4. QED
        BY <3>1, <4>2, <4>3 DEF seg, pre
    <3>3. Descend(OnWay(cur), seg, after, home, left, deeper) = StepAway(cur, seg)
      <4> HIDE DEF cur, Down, Ended
      <4>1. QED
        BY <2>4, <3>1, DescendAway
    <3>4. h[i + 1] = IF pre(i + 2) \in DOMAIN modules THEN [at |-> pre(i + 2), ended |-> FALSE]
                                                      ELSE [at |-> cur, ended |-> TRUE]
      BY <2>5, <3>1, <3>2, <3>3 DEF OnWay, StepAway
    <3>5. CASE pre(i + 2) \in DOMAIN modules
      <4> DEFINE next == pre(i + 2)
      <4>1. h[i + 1] = [at |-> next, ended |-> FALSE] /\ next \in DOMAIN modules
            /\ modules[next].root # home
        BY <3>1, <3>2, <3>4, <3>5
      <4>2. next = pre((i + 1) + 1)
        BY <2>2
      <4>3. QED
        BY <4>1, <4>2
    <3>6. CASE pre(i + 2) \notin DOMAIN modules
      <4>1. h[i + 1] = [at |-> pre(i + 1), ended |-> TRUE]
        BY <3>4, <3>6
      <4>2. i + 1 \in 1 .. i + 1 /\ pre((i + 1) + 1) \notin DOMAIN modules
        BY <2>2, <3>6
      <4>3. QED
        BY <3>1, <4>1, <4>2
    <3>7. QED
      BY <3>5, <3>6
  <2>8. CASE Ended(h[i], i)
    <3>1. h[i].ended
      BY <2>8
    <3>2. h[i + 1] = h[i]
      BY <2>5, <3>1 DEF Descend
    <3>3. PICK j \in 1 .. i : /\ h[i] = [at |-> pre(j), ended |-> TRUE]
                              /\ pre(j) \in DOMAIN modules /\ pre(j + 1) \notin DOMAIN modules
      BY <2>8
    <3>4. j \in 1 .. i + 1
      OBVIOUS
    <3>5. QED
      BY <3>2, <3>3, <3>4
  <2>9. QED
    BY <2>6, <2>7, <2>8
<1> HIDE DEF S
<1>8. Len(rest) \in S
  <2>1. Len(rest) \in Nat
    BY <1>1, <1>2
  <2>2. QED
    BY <1>6, <1>7, <2>1, SetInduction
<1>9. Down(h[Len(rest)], Len(rest)) \/ Ended(h[Len(rest)], Len(rest))
  <2> HIDE DEF Down, Ended
  <2>1. Len(rest) < Len(path)
    BY <1>1, <1>2
  <2>2. QED
    BY <1>8, <2>1 DEF S
<1>10. CASE Down(h[Len(rest)], Len(rest))
  <2>1. Len(rest) + 1 = Len(path) /\ Len(path) \in 1 .. Len(path)
    BY <1>1, <1>2
  <2>2. h[Len(rest)].at = pre(Len(path)) /\ pre(Len(path)) \in DOMAIN modules
    BY <1>10, <2>1
  <2>3. Walk(start, rest, home, left, deeper) = pre(Len(path))
    BY <1>4, <2>2
  <2>4. QED
    BY SMTT(30), <2>1, <2>2, <2>3 DEF start, rest, pre
<1>11. CASE Ended(h[Len(rest)], Len(rest))
  <2>1. PICK j \in 1 .. Len(rest) :
          /\ h[Len(rest)] = [at |-> pre(j), ended |-> TRUE]
          /\ pre(j) \in DOMAIN modules /\ pre(j + 1) \notin DOMAIN modules
    BY <1>11
  <2>2. j \in 1 .. Len(path)
    BY <1>1, <1>2
  <2>3. Walk(start, rest, home, left, deeper) = pre(j)
    BY <1>4, <2>1
  <2>4. QED
    BY <2>1, <2>2, <2>3 DEF start, rest, pre
<1>12. QED
  BY <1>9, <1>10, <1>11

(* A registered module of one name is the root of a library.               *)
LEMMA CratesAreRoots ==
  ASSUME ScanInv, NEW c \in Names, <<c>> \in DOMAIN modules
  PROVE  c \in WorkspaceCrates /\ c \notin Keywords /\ modules[<<c>>].root = <<c>>
<1> DEFINE m == <<c>>
<1>1. m \in Seq(Names) /\ Len(m) = 1 /\ m # <<>> /\ Head(m) = c /\ m[1] = c
  OBVIOUS
<1> HIDE DEF m
<1>2. m \in DOMAIN modules
  BY DEF m
<1>3. m \in Roots
  <2>1. SUFFICES ASSUME m \notin Roots
                 PROVE  FALSE
    OBVIOUS
  <2>2. Front(m) \in DOMAIN modules
    BY <1>2, <2>1 DEF ScanInv, ModulesInv
  <2>3. Len(Front(m)) = 0
    BY <1>1, FrontAndLast
  <2>4. QED
    BY <2>2, <2>3, ModulesArePaths DEF ScanInv
<1>4. modules[m].root = m
  BY <1>2, <1>3 DEF ScanInv, ModulesInv
<1>5. c \in WorkspaceCrates
  BY <1>1, <1>3, ScanAssumption DEF WorkspaceCrates
<1>6. c \notin Keywords
  <2>1. m \in Seq(Names \ Keywords)
    BY <1>2, ModulesArePaths DEF ScanInv
  <2>2. QED
    BY <1>1, <2>1
<1>7. QED
  BY <1>4, <1>5, <1>6 DEF m

LEMMA TargetIs ==
  ASSUME ScanInv, NEW ref \in refs
  PROVE  \E left, deeper :
           Target(ref) = Resolve(ref.module, ref.path, ref.colon, HomeOf(ref), left, deeper)
<1> DEFINE q == Resolving(ref.module, ref.path, ref.colon)
           home == HomeOf(ref)
<1>1. AliasDepth \in Nat
  BY ScanAssumption
<1>2. q \in Questions
  <2>1. PICK i \in read : /\ i.kind # "include"
                          /\ ref = [module |-> i.module, path |-> ref.path, colon |-> i.colon,
                                    scope |-> TrueScope(i)]
    BY DEF ScanInv, RefsInv
  <2>2. IsItem(i) /\ i.module \in DOMAIN modules
    BY ScanAssumption DEF ScanInv, ReadInv
  <2>3. i.colon \in BOOLEAN
    BY <2>1, <2>2 DEF IsItem
  <2>4. ref.module = i.module /\ ref.colon = i.colon
    BY <2>1
  <2>5. ref.path \in Seq(Names)
    BY DEF ScanInv, RefsInv, IsWritten
  <2>6. ref.module \in Seq(Names)
    BY <2>2, <2>4, ModulesArePaths DEF ScanInv
  <2>7. QED
    BY <2>3, <2>4, <2>5, <2>6 DEF Resolving, Questions
<1>3. PICK a : /\ \A left \in 0 .. AliasDepth, x \in Questions :
                    a[left][x] = Answer(x, home, left, IF left = 0 THEN <<>> ELSE a[left - 1])
               /\ Answers(home) = a[AliasDepth]
  BY AnswersIs
<1> DEFINE deeper == IF AliasDepth = 0 THEN <<>> ELSE a[AliasDepth - 1]
<1>4. Target(ref) = Answer(q, home, AliasDepth, deeper)
  BY <1>1, <1>2, <1>3 DEF Target
<1> HIDE DEF deeper, home
<1>5. Answer(q, home, AliasDepth, deeper) =
        Resolve(ref.module, ref.path, ref.colon, home, AliasDepth, deeper)
  BY DEF Answer, Resolving
<1>6. QED
  BY <1>4, <1>5 DEF home

LEMMA EndsAtTheSurfaceIfScanned == ScanInv => EndsAtThePublicSurface
<1> SUFFICES ASSUME ScanInv, finished, NEW ref \in refs,
                    <<Head(ref.path)>> \in DOMAIN modules, <<Head(ref.path)>> # HomeOf(ref),
                    \/ ref.colon
                    \/ /\ Head(ref.path) \notin modules[ref.module].children
                       /\ Declared(ref.module, Head(ref.path)) = {}
             PROVE  LET spelled == {n \in 1 .. Len(ref.path) :
                                      SubSeq(ref.path, 1, n) \in DOMAIN modules}
                    IN  \E n \in spelled : /\ \A k \in spelled : k <= n
                                           /\ Target(ref) = SubSeq(ref.path, 1, n)
  BY DEF EndsAtThePublicSurface
<1> DEFINE path == ref.path
           first == Head(path)
           home == HomeOf(ref)
<1>1. /\ IsWritten(path) /\ path \in Seq(Names) /\ path # <<>> /\ first \in Names
      /\ first = path[1] /\ Len(path) \in Nat
  <2>1. IsWritten(path)
    BY DEF ScanInv, RefsInv
  <2>2. path \in Seq(Names) /\ path # <<>>
    BY <2>1 DEF IsWritten
  <2>3. QED
    BY <2>1, <2>2
<1>2. first \in WorkspaceCrates /\ first \notin Keywords /\ modules[<<first>>].root = <<first>>
  BY <1>1, CratesAreRoots
<1>3. ref.module \in DOMAIN modules
  BY DEF ScanInv, RefsInv, ReadInv
<1>4. ~ ref.colon => first \notin DOMAIN modules[ref.module].aliases
  <2>1. SUFFICES ASSUME ~ ref.colon, first \in DOMAIN modules[ref.module].aliases
                 PROVE  FALSE
    OBVIOUS
  <2>2. Imported(read, ref.module, first, modules[ref.module].aliases[first])
    BY <1>3, <2>1 DEF ScanInv, ModulesInv
  <2>3. PICK i \in read : /\ i.kind = "use" /\ i.module = ref.module
                          /\ \E k \in DOMAIN Imports(i) : Imports(i)[k].name = first
    BY <2>2 DEF Imported
  <2>4. PICK k \in DOMAIN Imports(i) : Imports(i)[k].name = first
    BY <2>3
  <2> DEFINE use == [path |-> Imports(i)[k].path, colon |-> i.colon]
  <2>5. use \in {[path |-> leaf.path, colon |-> i.colon] :
                   leaf \in {l \in {Imports(i)[n] : n \in DOMAIN Imports(i)} : l.name = first}}
    BY <2>4
  <2> HIDE DEF use
  <2>6. i \in {j \in read : j.kind = "use" /\ j.module = ref.module}
    BY <2>3
  <2>7. use \in Declared(ref.module, first)
    BY <2>5, <2>6 DEF Declared
  <2>8. QED
    BY <2>1, <2>7
<1>5. PICK left, deeper : Target(ref) = Resolve(ref.module, path, ref.colon, home, left, deeper)
  BY TargetIs
<1>6. IsCrate(ref.module, first)
  BY <1>2 DEF IsCrate
<1>7. first \notin {"crate", "self", "super"}
  BY <1>2 DEF Keywords
<1>8. Target(ref) = Walk(<<first>>, Tail(path), home, left, deeper)
  <2> HIDE DEF home
  <2>1. Resolve(ref.module, path, ref.colon, home, left, deeper) =
          EnterCrate(first, Tail(path), home, left, deeper)
    <3> HIDE DEF path, first
    <3>1. first = Head(path) /\ ref.module \in DOMAIN modules /\ path # <<>>
      BY <1>1, <1>3 DEF first, path
    <3>2. ~ ref.colon => /\ first \notin modules[ref.module].children
                         /\ first \notin DOMAIN modules[ref.module].aliases
      BY <1>4 DEF first, path
    <3>3. QED
      BY <1>6, <1>7, <3>1, <3>2 DEF Resolve
  <2>2. EnterCrate(first, Tail(path), home, left, deeper) =
          Walk(<<first>>, Tail(path), home, left, deeper)
    BY <1>2 DEF EnterCrate
  <2>3. QED
    BY <1>5, <2>1, <2>2
<1>9. path[1] \notin Keywords /\ <<path[1]>> \in DOMAIN modules
      /\ modules[<<path[1]>>].root # home /\ <<first>> = <<path[1]>>
  BY <1>1, <1>2
<1> HIDE DEF home, first
<1>10. PICK n \in 1 .. Len(path) :
          /\ SubSeq(path, 1, n) \in DOMAIN modules
          /\ n < Len(path) => SubSeq(path, 1, n + 1) \notin DOMAIN modules
          /\ Walk(<<path[1]>>, Tail(path), home, left, deeper) = SubSeq(path, 1, n)
  BY SMTT(30), <1>1, <1>9, WalkAway
<1>11. ASSUME NEW k \in 1 .. Len(path), SubSeq(path, 1, k) \in DOMAIN modules, k > n
       PROVE  FALSE
  <2>1. n + 1 \in 1 .. k /\ n < Len(path)
    BY <1>1, <1>11
  <2>2. SubSeq(path, 1, n + 1) \in DOMAIN modules
    BY <1>1, <1>11, <2>1, SpelledAbove
  <2>3. QED
    BY <1>10, <2>1, <2>2
<1>12. \A k \in {m \in 1 .. Len(path) : SubSeq(path, 1, m) \in DOMAIN modules} : k <= n
  BY <1>1, <1>11
<1>13. Target(ref) = SubSeq(path, 1, n)
  BY <1>8, <1>9, <1>10
<1>14. QED
  BY <1>10, <1>12, <1>13

(* Whatever else the scan read, a path into another crate ends at the      *)
(* longest prefix of it that is a module, and follows no import there.     *)
THEOREM EndsAtTheSurface == LintSpec => []EndsAtThePublicSurface
<1>1. LintInv => EndsAtThePublicSurface
  BY EndsAtTheSurfaceIfScanned DEF LintInv
<1>2. QED
  BY <1>1, LintInvHolds, PTL

-----------------------------------------------------------------------------
(* The reading of a path.                                                  *)

LEMMA ImageIsFinite ==
  ASSUME NEW D, IsFiniteSet(D), NEW f, DOMAIN f = D
  PROVE  IsFiniteSet({f[x] : x \in D})
<1> DEFINE T == {f[x] : x \in D}
           g == [x \in D |-> f[x]]
<1>1. g \in Surjection(D, T)
  BY DEF Surjection
<1> HIDE DEF g, T
<1>2. IsFiniteSet(T)
  BY <1>1, FS_Surjection
<1>3. QED
  BY <1>2 DEF T

(* A set of naturals that is finite has a bound.                           *)
LEMMA FiniteIsBounded ==
  ASSUME NEW T, T \subseteq Nat, IsFiniteSet(T)
  PROVE  \E b \in Nat : \A k \in T : k <= b
<1> DEFINE S == {n \in Nat : \A U : /\ U \subseteq Nat /\ IsFiniteSet(U) /\ Cardinality(U) = n
                                    => \E b \in Nat : \A k \in U : k <= b}
<1>1. 0 \in S
  <2>1. SUFFICES ASSUME NEW U, IsFiniteSet(U), Cardinality(U) = 0
                 PROVE  \E b \in Nat : \A k \in U : k <= b
    OBVIOUS
  <2>2. U = {}
    BY <2>1, FS_EmptySet
  <2>3. QED
    BY <2>2
<1>2. ASSUME NEW n \in Nat, n \in S
      PROVE  n + 1 \in S
  <2>1. SUFFICES ASSUME NEW U, U \subseteq Nat, IsFiniteSet(U), Cardinality(U) = n + 1
                 PROVE  \E b \in Nat : \A k \in U : k <= b
    OBVIOUS
  <2>2. PICK x \in U : TRUE
    <3>1. U # {}
      BY <2>1, FS_EmptySet
    <3>2. QED
      BY <3>1
  <2>3. IsFiniteSet(U \ {x}) /\ Cardinality(U \ {x}) = n
    <3>1. Cardinality(U \ {x}) = Cardinality(U) - 1
      BY <2>1, <2>2, FS_RemoveElement
    <3>2. (n + 1) - 1 = n
      BY <1>2
    <3>3. QED
      BY <2>1, <3>1, <3>2, FS_RemoveElement
  <2>4. PICK b \in Nat : \A k \in U \ {x} : k <= b
    BY <1>2, <2>1, <2>3
  <2>5. x \in Nat
    BY <2>1
  <2>6. CASE x <= b
    BY <2>4, <2>6
  <2>7. CASE ~ (x <= b)
    <3>1. \A k \in U : k <= x
      BY <2>1, <2>4, <2>5, <2>7
    <3>2. QED
      BY <2>5, <3>1
  <2>8. QED
    BY <2>6, <2>7
<1> HIDE DEF S
<1>3. Cardinality(T) \in S
  <2>1. Cardinality(T) \in Nat
    BY FS_CardinalityType
  <2>2. QED
    BY <1>1, <1>2, <2>1, SetInduction
<1>4. QED
  BY <1>3 DEF S

LEMMA LongestIsNat == Longest \in Nat
<1> DEFINE uses == {j \in Items : j.kind = "use"}
           lengths(i) == {Len(Imports(i)[k].path) : k \in DOMAIN Imports(i)}
           T == {0} \cup UNION {lengths(i) : i \in uses}
<1>1. IsFiniteSet(uses)
  BY ScanAssumption, FS_Subset
<1>2. ASSUME NEW i \in uses
      PROVE  IsFiniteSet(lengths(i)) /\ lengths(i) \subseteq Nat
  <2>1. IsItem(i) /\ i.kind = "use"
    BY ScanAssumption
  <2>2. /\ i.use \in Seq([above : Seq(Names), name : Names \cup {"*"}, as : Names \cup {""}])
        /\ \A k \in DOMAIN i.use : IsWritten(Import(i.use[k]).path)
    BY <2>1 DEF IsItem
  <2>3. \A L : i.use \in Seq(L) => DOMAIN i.use = 1 .. Len(i.use) /\ Len(i.use) \in Nat
    OBVIOUS
  <2>4. DOMAIN i.use = 1 .. Len(i.use) /\ Len(i.use) \in Nat
    BY <2>2, <2>3
  <2>5. DOMAIN Imports(i) = DOMAIN i.use /\ \A k \in DOMAIN i.use : Imports(i)[k] = Import(i.use[k])
    BY DEF Imports
  <2>6. IsFiniteSet(DOMAIN Imports(i))
    BY <2>4, <2>5, FS_Interval
  <2>7. \A k \in DOMAIN Imports(i) : Len(Imports(i)[k].path) \in Nat
    <3>1. TAKE k \in DOMAIN Imports(i)
    <3>2. IsWritten(Imports(i)[k].path)
      BY <2>2, <2>5
    <3>3. Imports(i)[k].path \in Seq(Names)
      BY <3>2 DEF IsWritten
    <3>4. QED
      BY <3>3
  <2>8. IsFiniteSet(lengths(i))
    <3> DEFINE D == DOMAIN Imports(i)
               f == [k \in D |-> Len(Imports(i)[k].path)]
    <3>1. DOMAIN f = D /\ lengths(i) = {f[k] : k \in D}
      OBVIOUS
    <3> HIDE DEF f
    <3>2. QED
      BY <2>6, <3>1, ImageIsFinite
  <2>9. QED
    BY <2>7, <2>8
<1>3. IsFiniteSet({lengths(i) : i \in uses})
  <2> HIDE DEF lengths, uses
  <2> DEFINE f == [i \in uses |-> lengths(i)]
  <2>1. DOMAIN f = uses /\ {lengths(i) : i \in uses} = {f[i] : i \in uses}
    OBVIOUS
  <2> HIDE DEF f
  <2>2. QED
    BY <1>1, <2>1, ImageIsFinite
<1> HIDE DEF lengths, uses
<1>4. IsFiniteSet(UNION {lengths(i) : i \in uses})
  BY <1>2, <1>3, FS_UNION
<1>5. IsFiniteSet(T) /\ T \subseteq Nat /\ 0 \in T
  <2>1. IsFiniteSet(T)
    BY <1>4, FS_Singleton, FS_Union
  <2>2. QED
    BY <1>2, <2>1
<1>6. Longest = Max(T)
  BY DEF Longest, T, lengths, uses
<1> HIDE DEF T
<1>7. PICK b \in Nat : \A k \in T : k <= b
  BY <1>5, FiniteIsBounded
<1>8. \E x \in T : \A y \in T : x >= y
  <2> DEFINE U == {k + 1 : k \in T}
  <2>1. U \subseteq 1 .. b + 1 /\ U # {}
    BY <1>5, <1>7
  <2> HIDE DEF U
  <2>0. b + 1 \in Nat
    BY <1>7
  <2>2. PICK m \in U : \A k \in U : k <= m
    BY <2>0, <2>1, Largest
  <2> USE DEF U
  <2>3. PICK x \in T : m = x + 1
    OBVIOUS
  <2>4. \A y \in T : x >= y
    <3>1. TAKE y \in T
    <3>2. y + 1 \in U
      OBVIOUS
    <3>3. y + 1 <= x + 1 /\ x \in Nat /\ y \in Nat
      BY <1>5, <2>2, <2>3, <3>2
    <3>4. QED
      BY <3>3
  <2>5. QED
    BY <2>4
<1>9. QED
  BY <1>5, <1>6, <1>8 DEF Max

(* Where a reading stands at first.                                        *)
Start(ref) ==
  [at |-> ref.module, left |-> ref.path, first |-> TRUE, colon |-> ref.colon,
   back |-> Nowhere, hops |-> 0, marks |-> {},
   ended |-> FALSE, to |-> Nowhere, whole |-> FALSE]

NextReading(r, home) == IF r.ended THEN r ELSE ReadOn(r, home)

IsReading(t, n, ref) ==
  t = [k \in 0 .. n |-> IF k = 0 THEN Start(ref) ELSE NextReading(t[k - 1], HomeOf(ref))]

LEMMA ReadingIs ==
  ASSUME NEW n \in Nat, NEW ref
  PROVE  \E t : IsReading(t, n, ref)
<1> DEFINE Is(t, m) == IsReading(t, m, ref)
           S == {m \in Nat : \E t : Is(t, m)}
           start == Start(ref)
           After(r) == NextReading(r, HomeOf(ref))
<1>1. 0 \in S
  <2>1. Is([k \in 0 .. 0 |-> start], 0)
    BY DEF IsReading
  <2> HIDE DEF Is
  <2>2. QED
    BY <2>1
<1>2. ASSUME NEW m \in Nat, m \in S
      PROVE  m + 1 \in S
  <2>1. PICK h : Is(h, m)
    BY <1>2
  <2> DEFINE g == [k \in 0 .. m + 1 |-> IF k = m + 1 THEN After(h[m]) ELSE h[k]]
  <2>2. /\ h = [k \in 0 .. m |-> h[k]]
        /\ \A k \in 0 .. m : h[k] = IF k = 0 THEN start ELSE After(h[k - 1])
    BY <2>1 DEF IsReading
  <2> HIDE DEF After, start
  <2>3. \A k \in 0 .. m : g[k] = h[k]
    OBVIOUS
  <2>4. \A k \in 0 .. m + 1 : g[k] = IF k = 0 THEN start ELSE After(g[k - 1])
    <3>1. TAKE k \in 0 .. m + 1
    <3>2. CASE k = m + 1
      <4>1. g[k] = After(h[m]) /\ g[m] = h[m] /\ k # 0 /\ k - 1 = m
        BY <2>3, <3>2
      <4> HIDE DEF g
      <4>2. QED
        BY <4>1
    <3>3. CASE k \in 0 .. m
      <4>1. g[k] = h[k] /\ (k # 0 => g[k - 1] = h[k - 1])
        BY <2>3, <3>3
      <4> HIDE DEF g
      <4>2. QED
        BY <2>2, <3>3, <4>1
    <3>4. QED
      BY <3>2, <3>3
  <2>5. g = [k \in 0 .. m + 1 |-> g[k]]
    OBVIOUS
  <2> HIDE DEF g
  <2>6. Is(g, m + 1)
    BY <2>4, <2>5 DEF IsReading, After, start
  <2> HIDE DEF Is
  <2>7. QED
    BY <2>6
<1> HIDE DEF S
<1>3. n \in S
  BY <1>1, <1>2, SetInduction
<1>4. QED
  BY <1>3 DEF S

LEMMA NamedIs ==
  ASSUME NEW ref, ref.path \in Seq(Names)
  PROVE  \E n \in Nat : \E t : /\ t[0] = Start(ref)
                               /\ \A k \in 1 .. n : t[k] = NextReading(t[k - 1], HomeOf(ref))
                               /\ Named(ref) = t[n]
<1> DEFINE n == Len(ref.path) + AliasDepth * (Longest + 1) + 1
<1>1. n \in Nat
  <2>1. Longest \in Nat /\ AliasDepth \in Nat /\ Len(ref.path) \in Nat
    <3>1. AliasDepth \in Nat
      BY ScanAssumption
    <3>2. Len(ref.path) \in Nat
      OBVIOUS
    <3>3. QED
      BY <3>1, <3>2, LongestIsNat
  <2>2. \A a, b, c \in Nat : a + b * (c + 1) + 1 \in Nat
    <3>1. \A b, c \in Nat : b * c \in Nat
      OBVIOUS
    <3>2. \A c \in Nat : c + 1 \in Nat
      OBVIOUS
    <3>3. QED
      BY <3>1, <3>2
  <2>3. QED
    BY <2>1, <2>2
<1> HIDE DEF n
<1>2. \E t : IsReading(t, n, ref)
  BY <1>1, ReadingIs
<1>3. PICK t : IsReading(t, n, ref) /\ Named(ref) = t[n]
  BY <1>2 DEF Named, IsReading, Start, NextReading, n
<1> DEFINE start == Start(ref)
           After(r) == NextReading(r, HomeOf(ref))
<1>4. \A k \in 0 .. n : t[k] = IF k = 0 THEN start ELSE After(t[k - 1])
  BY <1>3 DEF IsReading
<1> HIDE DEF start, After
<1>5. t[0] = start /\ \A k \in 1 .. n : t[k] = After(t[k - 1])
  BY <1>1, <1>4
<1>6. QED
  BY <1>1, <1>3, <1>5 DEF start, After

-----------------------------------------------------------------------------
(* Walking, one segment at a time.                                         *)

LEMMA TailIs ==
  ASSUME NEW S, NEW s \in Seq(S), s # <<>>
  PROVE  /\ Tail(s) \in Seq(S) /\ Len(Tail(s)) \in Nat /\ Len(s) = Len(Tail(s)) + 1
         /\ Head(s) = s[1] /\ Head(s) \in S
         /\ SubSeq(s, 2, Len(s)) = Tail(s)
         /\ \A i \in 1 .. Len(Tail(s)) :
              /\ s[i + 1] = Tail(s)[i]
              /\ SubSeq(s, i + 2, Len(s)) = SubSeq(Tail(s), i + 1, Len(Tail(s)))
<1> DEFINE t == Tail(s)
<1>1. /\ t \in Seq(S) /\ Len(t) \in Nat /\ Len(s) = Len(t) + 1
      /\ Head(s) = s[1] /\ Head(s) \in S
      /\ \A i \in 1 .. Len(t) : s[i + 1] = t[i]
  OBVIOUS
<1>2. SubSeq(s, 2, Len(s)) = t
  BY TailIsSubSeq
<1> HIDE DEF t
<1>3. ASSUME NEW i \in 1 .. Len(t)
      PROVE  SubSeq(s, i + 2, Len(s)) = SubSeq(t, i + 1, Len(t))
  <2> DEFINE a == SubSeq(s, i + 2, Len(s))
             b == SubSeq(t, i + 1, Len(t))
  <2>1. /\ a \in Seq(S) /\ Len(a) = Len(t) - i
        /\ \A k \in 1 .. Len(t) - i : a[k] = s[i + 1 + k]
    BY <1>1
  <2>2. /\ b \in Seq(S) /\ Len(b) = Len(t) - i
        /\ \A k \in 1 .. Len(t) - i : b[k] = t[i + k]
    BY <1>1
  <2> HIDE DEF a, b
  <2>3. \A k \in 1 .. Len(t) - i : a[k] = b[k]
    <3>1. TAKE k \in 1 .. Len(t) - i
    <3>2. i + k \in 1 .. Len(t) /\ i + 1 + k = (i + k) + 1
      BY <1>1
    <3>3. s[(i + k) + 1] = t[i + k]
      BY <1>1, <3>2
    <3>4. QED
      BY <2>1, <2>2, <3>2, <3>3
  <2>4. a = b
    BY <2>1, <2>2, <2>3, SameSequence
  <2>5. QED
    BY <2>4 DEF a, b
<1>4. QED
  BY <1>1, <1>2, <1>3 DEF t

LEMMA WalkNowhere ==
  ASSUME NEW cur, NEW home, NEW left, NEW deeper
  PROVE  Walk(cur, <<>>, home, left, deeper) = cur
<1> DEFINE none == <<>>
<1>1. none \in Seq(Names) /\ Len(none) = 0
  OBVIOUS
<1> HIDE DEF none
<1>2. PICK h : /\ WalksDown(h, cur, none, home, left, deeper)
               /\ Walk(cur, none, home, left, deeper) = h[Len(none)].at
  BY <1>1, WalkIs
<1>3. QED
  BY <1>1, <1>2 DEF WalksDown, none

LEMMA WalkOn ==
  ASSUME NEW cur, NEW segs \in Seq(Names), segs # <<>>, NEW home, NEW left, NEW deeper, NEW next,
         Descend(OnWay(cur), Head(segs), Tail(segs), home, left, deeper) = OnWay(next)
  PROVE  Walk(cur, segs, home, left, deeper) = Walk(next, Tail(segs), home, left, deeper)
<1> DEFINE rest == Tail(segs)
           n == Len(rest)
<1>1. /\ rest \in Seq(Names) /\ n \in Nat /\ Len(segs) = n + 1 /\ Head(segs) = segs[1]
      /\ SubSeq(segs, 2, Len(segs)) = rest
      /\ \A i \in 1 .. n : /\ segs[i + 1] = rest[i]
                           /\ SubSeq(segs, i + 2, Len(segs)) = SubSeq(rest, i + 1, n)
  BY TailIs
<1> HIDE DEF rest
<1>2. PICK h : /\ WalksDown(h, cur, segs, home, left, deeper)
               /\ Walk(cur, segs, home, left, deeper) = h[Len(segs)].at
  BY WalkIs
<1>3. PICK g : /\ WalksDown(g, next, rest, home, left, deeper)
               /\ Walk(next, rest, home, left, deeper) = g[n].at
  BY <1>1, WalkIs
<1>4. h[1] = g[0]
  <2>1. 1 \in 1 .. Len(segs) /\ 1 - 1 = 0 /\ 1 + 1 = 2
    BY <1>1
  <2>2. h[1] = Descend(h[0], segs[1], SubSeq(segs, 2, Len(segs)), home, left, deeper)
    BY <1>2, <2>1 DEF WalksDown
  <2>3. h[0] = OnWay(cur) /\ g[0] = OnWay(next)
    BY <1>2, <1>3 DEF WalksDown, OnWay
  <2>4. QED
    BY <1>1, <2>2, <2>3 DEF rest
<1> DEFINE S == {i \in Nat : i <= n => h[i + 1] = g[i]}
<1>5. ASSUME NEW i \in Nat, i \in S
      PROVE  i + 1 \in S
  <2>1. SUFFICES ASSUME i + 1 <= n
                 PROVE  h[(i + 1) + 1] = g[i + 1]
    OBVIOUS
  <2>2. h[i + 1] = g[i]
    BY <1>1, <1>5, <2>1
  <2> HIDE DEF S, n
  <2>3. /\ i + 1 \in 1 .. n /\ (i + 1) - 1 = i
        /\ (i + 1) + 1 \in 1 .. Len(segs) /\ ((i + 1) + 1) - 1 = i + 1
        /\ ((i + 1) + 1) + 1 = (i + 1) + 2
    BY <1>1, <2>1
  <2>4. h[(i + 1) + 1] = Descend(h[i + 1], segs[(i + 1) + 1],
                                 SubSeq(segs, (i + 1) + 2, Len(segs)), home, left, deeper)
    BY <1>2, <2>3 DEF WalksDown
  <2>5. g[i + 1] = Descend(g[i], rest[i + 1], SubSeq(rest, (i + 1) + 1, n), home, left, deeper)
    BY <1>3, <2>3 DEF WalksDown, n
  <2>6. segs[(i + 1) + 1] = rest[i + 1]
        /\ SubSeq(segs, (i + 1) + 2, Len(segs)) = SubSeq(rest, (i + 1) + 1, n)
    BY <1>1, <2>3
  <2>7. QED
    BY <2>2, <2>4, <2>5, <2>6
<1>6. 0 \in S
  BY <1>4
<1> HIDE DEF S
<1>7. n \in S
  BY <1>1, <1>5, <1>6, SetInduction
<1>8. h[n + 1] = g[n]
  BY <1>1, <1>7 DEF S
<1>9. QED
  BY <1>1, <1>2, <1>3, <1>8 DEF rest

LEMMA WalkEnds ==
  ASSUME NEW cur, NEW segs \in Seq(Names), segs # <<>>, NEW home, NEW left, NEW deeper, NEW end,
         Descend(OnWay(cur), Head(segs), Tail(segs), home, left, deeper) =
           [at |-> end, ended |-> TRUE]
  PROVE  Walk(cur, segs, home, left, deeper) = end
<1> DEFINE n == Len(segs)
           stop == [at |-> end, ended |-> TRUE]
<1>1. /\ n \in Nat /\ n >= 1 /\ Head(segs) = segs[1] /\ SubSeq(segs, 2, n) = Tail(segs)
  BY TailIs
<1>2. PICK h : /\ WalksDown(h, cur, segs, home, left, deeper)
               /\ Walk(cur, segs, home, left, deeper) = h[n].at
  BY WalkIs
<1> HIDE DEF n
<1>3. h[1] = stop
  <2>1. 1 \in 1 .. n /\ 1 - 1 = 0 /\ 1 + 1 = 2
    BY <1>1
  <2>2. h[1] = Descend(h[0], segs[1], SubSeq(segs, 2, n), home, left, deeper)
    BY <1>2, <2>1 DEF WalksDown, n
  <2>3. h[0] = OnWay(cur)
    BY <1>2 DEF WalksDown, OnWay
  <2>4. QED
    BY <1>1, <2>2, <2>3
<1> DEFINE S == {i \in Nat : i + 1 <= n => h[i + 1] = stop}
<1>4. 0 \in S
  BY <1>3
<1>5. ASSUME NEW i \in Nat, i \in S
      PROVE  i + 1 \in S
  <2>1. SUFFICES ASSUME (i + 1) + 1 <= n
                 PROVE  h[(i + 1) + 1] = stop
    OBVIOUS
  <2>2. h[i + 1] = stop
    BY <1>1, <1>5, <2>1
  <2> HIDE DEF S
  <2>3. (i + 1) + 1 \in 1 .. n /\ ((i + 1) + 1) - 1 = i + 1
    BY <1>1, <2>1
  <2>4. \E seg, rest : h[(i + 1) + 1] = Descend(h[i + 1], seg, rest, home, left, deeper)
    BY <1>2, <2>3 DEF WalksDown, n
  <2>5. h[i + 1].ended = TRUE
    BY <2>2
  <2>6. QED
    BY <2>2, <2>4, <2>5 DEF Descend
<1> HIDE DEF S
<1>6. n - 1 \in S
  <2>1. n - 1 \in Nat
    BY <1>1
  <2>2. QED
    BY <1>4, <1>5, <2>1, SetInduction
<1>7. h[n] = stop
  <2>1. (n - 1) + 1 = n
    BY <1>1
  <2>2. QED
    BY <1>1, <1>6, <2>1 DEF S
<1>8. QED
  BY <1>2, <1>7

(* What a segment does on the way.                                         *)
LEMMA DescendIs ==
  ASSUME NEW cur \in DOMAIN modules, NEW seg, NEW rest, NEW home, NEW left, NEW deeper
  PROVE  Descend(OnWay(cur), seg, rest, home, left, deeper) =
           IF seg = "super" THEN OnWay(ParentOf(cur, modules[cur].root))
           ELSE IF seg = "self" THEN OnWay(cur)
           ELSE IF seg \in modules[cur].children THEN OnWay(Append(cur, seg))
           ELSE IF /\ seg \in DOMAIN modules[cur].aliases /\ left > 0
                   /\ modules[cur].root = home
             THEN [at |-> ByAlias(cur, seg, rest, deeper), ended |-> TRUE]
           ELSE [at |-> cur, ended |-> TRUE]
<1> DEFINE way == OnWay(cur)
<1>1. way.at = cur /\ way.ended = FALSE /\ way = [at |-> way.at, ended |-> way.ended]
  BY DEF OnWay
<1> HIDE DEF way
<1>2. /\ \A m : [way EXCEPT !.at = m] = OnWay(m)
      /\ [way EXCEPT !.ended = TRUE] = [at |-> cur, ended |-> TRUE]
  <2>1. ASSUME NEW w, w = [at |-> w.at, ended |-> w.ended]
        PROVE  \A m : [w EXCEPT !.at = m] = [at |-> m, ended |-> w.ended]
    BY <2>1
  <2>2. ASSUME NEW w, w = [at |-> w.at, ended |-> w.ended]
        PROVE  \A b : [w EXCEPT !.ended = b] = [at |-> w.at, ended |-> b]
    BY <2>2
  <2>3. QED
    BY <1>1, <2>1, <2>2 DEF OnWay
<1>3. Descend(way, seg, rest, home, left, deeper) =
        IF seg = "super" THEN [way EXCEPT !.at = ParentOf(cur, modules[cur].root)]
        ELSE IF seg = "self" THEN way
        ELSE IF seg \in modules[cur].children THEN [way EXCEPT !.at = Append(cur, seg)]
        ELSE IF /\ seg \in DOMAIN modules[cur].aliases /\ left > 0
                /\ modules[cur].root = home
          THEN [at |-> ByAlias(cur, seg, rest, deeper), ended |-> TRUE]
        ELSE [way EXCEPT !.ended = TRUE]
  BY <1>1 DEF Descend, AtHome
<1>4. QED
  BY <1>1, <1>2, <1>3 DEF way

-----------------------------------------------------------------------------
(* What the source declares and what the tables hold.                      *)

(* Every name an import gave is an alias.                                  *)
AliasesInv ==
  \A i \in read :
    i.kind = "use" =>
      \A k \in DOMAIN Imports(i) :
        Imports(i)[k].name # "" => Imports(i)[k].name \in DOMAIN modules[i.module].aliases

LEMMA DeclaredIs ==
  ASSUME NEW m, NEW n, NEW use
  PROVE  use \in Declared(m, n) <=>
           \E i \in read : /\ i.kind = "use" /\ i.module = m
                           /\ \E k \in DOMAIN Imports(i) :
                                /\ Imports(i)[k].name = n
                                /\ use = [path |-> Imports(i)[k].path, colon |-> i.colon]
BY DEF Declared

LEMMA AliasIs ==
  ASSUME ScanInv, AliasesInv, NEW m \in DOMAIN modules, NEW n \in Names
  PROVE  /\ Declared(m, n) # {} <=> n \in DOMAIN modules[m].aliases
         /\ Declared(m, n) # {} /\ Plain(Declared(m, n)) =>
              modules[m].aliases[n] = (CHOOSE use \in Declared(m, n) : TRUE).path
<1>1. n # ""
  BY ScanAssumption
<1>2. ASSUME n \in DOMAIN modules[m].aliases
      PROVE  \E use \in Declared(m, n) : use.path = modules[m].aliases[n]
  <2>1. Imported(read, m, n, modules[m].aliases[n])
    BY <1>2 DEF ScanInv, ModulesInv
  <2>2. PICK i \in read : /\ i.kind = "use" /\ i.module = m
                          /\ \E k \in DOMAIN Imports(i) :
                               Imports(i)[k].name = n /\ Imports(i)[k].path = modules[m].aliases[n]
    BY <2>1 DEF Imported
  <2>3. PICK k \in DOMAIN Imports(i) :
               Imports(i)[k].name = n /\ Imports(i)[k].path = modules[m].aliases[n]
    BY <2>2
  <2> DEFINE use == [path |-> Imports(i)[k].path, colon |-> i.colon]
  <2>4. use.path = modules[m].aliases[n]
    BY <2>3
  <2>5. use = [path |-> Imports(i)[k].path, colon |-> i.colon]
    OBVIOUS
  <2> HIDE DEF use
  <2>6. use \in Declared(m, n)
    BY <2>2, <2>3, <2>5, DeclaredIs
  <2>7. QED
    BY <2>4, <2>6
<1>3. ASSUME NEW use \in Declared(m, n)
      PROVE  n \in DOMAIN modules[m].aliases
  <2>1. PICK i \in read : /\ i.kind = "use" /\ i.module = m
                          /\ \E k \in DOMAIN Imports(i) : Imports(i)[k].name = n
    BY <1>3, DeclaredIs
  <2>2. QED
    BY <1>1, <2>1 DEF AliasesInv
<1>4. ASSUME Declared(m, n) # {}, Plain(Declared(m, n))
      PROVE  modules[m].aliases[n] = (CHOOSE use \in Declared(m, n) : TRUE).path
  <2>1. PICK use \in Declared(m, n) : use.path = modules[m].aliases[n]
    BY <1>2, <1>3, <1>4
  <2> DEFINE c == CHOOSE u \in Declared(m, n) : TRUE
  <2>2. c \in Declared(m, n)
    BY <1>4
  <2> HIDE DEF c
  <2>3. c = use
    BY <1>4, <2>1, <2>2 DEF Plain
  <2>4. QED
    BY <2>1, <2>3 DEF c
<1>5. QED
  BY <1>2, <1>3, <1>4

LEMMA AliasesStay ==
  ASSUME AliasesInv, ScanInv, read' = read, NEW module, NEW root,
         modules' = Register(module, root)
  PROVE  AliasesInv'
<1>1. \A m \in DOMAIN modules : modules'[m].aliases = modules[m].aliases
  <2>1. TAKE m \in DOMAIN modules
  <2>2. DOMAIN modules[m] = {"root", "children", "aliases"}
    BY DEF ScanInv, ModulesInv, IsInfo
  <2>3. CASE m = module
    BY <2>3 DEF Register
  <2>4. CASE m # module
    <3>1. modules'[m] = IF m = Front(module)
                        THEN [modules[m] EXCEPT !.children = @ \cup {Last(module)}]
                        ELSE modules[m]
      BY <2>4 DEF Register
    <3>2. QED
      BY <2>2, <3>1
  <2>5. QED
    BY <2>3, <2>4
<1>2. \A i \in read : modules'[i.module].aliases = modules[i.module].aliases
  BY <1>1 DEF ScanInv, ReadInv
<1>3. QED
  BY <1>2 DEF AliasesInv

LEMMA RecordUseAliases ==
  ASSUME AliasesInv, ScanInv, NEW item \in Items, RecordUse(item)
  PROVE  AliasesInv'
<1> DEFINE leaves == Imports(item)
           names == {leaves[i].name : i \in {k \in DOMAIN leaves : leaves[k].name # ""}}
<1>1. /\ item.kind = "use" /\ read' = read \cup {item} /\ open # <<>> /\ item.module = Here.module
      /\ \E table : /\ DOMAIN table = DOMAIN modules[item.module].aliases \cup names
                    /\ modules' = [modules EXCEPT ![item.module] =
                                     [modules[item.module] EXCEPT !.aliases = table]]
  BY DEF RecordUse, Reads
<1>2. PICK table : /\ DOMAIN table = DOMAIN modules[item.module].aliases \cup names
                   /\ modules' = [modules EXCEPT ![item.module] =
                                    [modules[item.module] EXCEPT !.aliases = table]]
  BY <1>1
<1>3. item.module \in DOMAIN modules
  BY <1>1, HereIs DEF ScanInv
<1>4. modules'[item.module].aliases = table
  <2>1. DOMAIN modules[item.module] = {"root", "children", "aliases"}
    BY <1>3 DEF ScanInv, ModulesInv, IsInfo
  <2>2. QED
    BY <1>2, <1>3, <2>1
<1>5. \A m \in DOMAIN modules : m # item.module => modules'[m] = modules[m]
  BY <1>2
<1>6. \A m \in DOMAIN modules :
        DOMAIN modules[m].aliases \subseteq DOMAIN modules'[m].aliases
  BY <1>2, <1>4, <1>5
<1>7. \A k \in DOMAIN Imports(item) :
        Imports(item)[k].name # "" => Imports(item)[k].name \in DOMAIN modules'[item.module].aliases
  BY <1>2, <1>4
<1> HIDE DEF leaves, names
<1>8. \A i \in read : i.module \in DOMAIN modules
  BY DEF ScanInv, ReadInv
<1>9. QED
  BY <1>1, <1>6, <1>7, <1>8 DEF AliasesInv

LEMMA AliasesKept ==
  ASSUME AliasesInv, ScanInv, [Next]_vars
  PROVE  AliasesInv'
<1>1. ASSUME NEW root \in Roots, AddTarget(root)
      PROVE  AliasesInv'
  BY <1>1, AliasesStay DEF AddTarget
<1>2. ASSUME NEW declared \in Declarations, WalkMod(declared)
      PROVE  AliasesInv'
  BY <1>2, AliasesStay DEF WalkMod
<1>3. ASSUME NEW item \in Items, CollectPath(item) \/ RecordInclude(item)
      PROVE  AliasesInv'
  <2>1. read' = read \cup {item} /\ item.kind # "use" /\ modules' = modules
    BY <1>3 DEF CollectPath, RecordInclude, Reads
  <2>2. QED
    BY <2>1 DEF AliasesInv
<1>4. CASE EndOfModule \/ Finish \/ UNCHANGED vars
  <2>1. read' = read /\ modules' = modules
    BY <1>4 DEF EndOfModule, Finish, vars
  <2>2. QED
    BY <2>1 DEF AliasesInv
<1>5. QED
  BY <1>1, <1>2, <1>3, <1>4, RecordUseAliases DEF Next

(* What a segment names below a module.                                    *)
LEMMA ChildIs ==
  ASSUME ScanInv, NEW m \in DOMAIN modules, NEW seg \in Names,
         \A root \in Roots : Len(root) > 1 => seg # Last(root)
  PROVE  /\ seg \in modules[m].children <=> Append(m, seg) \in DOMAIN modules
<1> DEFINE a == Append(m, seg)
<1>1. m \in Seq(Names) /\ Len(m) \in Nat \ {0}
  BY ModulesArePaths DEF ScanInv
<1>2. Front(a) = m /\ Last(a) = seg /\ Len(a) = Len(m) + 1
  BY <1>1, AppendFrontAndLast
<1> HIDE DEF a
<1>3. a \notin Roots
  <2>1. Len(a) > 1
    BY <1>1, <1>2
  <2>2. QED
    BY <1>2, <2>1
<1>4. a \in DOMAIN modules => seg \in modules[m].children
  BY <1>2, <1>3 DEF ScanInv, ModulesInv
<1>5. seg \in modules[m].children => a \in DOMAIN modules
  BY DEF ScanInv, ModulesInv, a
<1>6. QED
  BY <1>4, <1>5 DEF a

-----------------------------------------------------------------------------
(* One step of a reading.                                                  *)

(* Segments none of which is the name of a test target.                    *)
IsPlainPath(s) ==
  /\ s \in Seq(Names)
  /\ \A k \in DOMAIN s : \A root \in Roots : Len(root) > 1 => s[k] # Last(root)

HasFields(r) ==
  DOMAIN r = {"at", "left", "first", "colon", "back", "hops", "marks", "ended", "to", "whole"}

(* A reading that has not ended.                                           *)
IsAt(r, home) ==
  /\ HasFields(r) /\ r.ended = FALSE /\ r.whole = FALSE
  /\ r.at \in DOMAIN modules
  /\ IsPlainPath(r.left)
  /\ r.first \in BOOLEAN /\ r.colon \in BOOLEAN
  /\ r.first => r.left # <<>> /\ modules[r.at].root = home
  /\ r.colon => r.first
  /\ r.hops \in Nat /\ r.hops <= AliasDepth
  /\ r.marks \subseteq Nat
  /\ r.back = Nowhere \/ r.back \in DOMAIN modules

(* It goes on from a module, or with the path of an alias, or ends.        *)
Goes(r, s, at) ==
  /\ HasFields(s) /\ s.ended = FALSE /\ s.whole = FALSE
  /\ s.at = at /\ s.left = Tail(r.left) /\ s.first = FALSE /\ s.colon = FALSE
  /\ s.back = r.back /\ s.hops = r.hops /\ s.marks = r.marks

Hops(r, s, path) ==
  /\ HasFields(s) /\ s.ended = FALSE /\ s.whole = FALSE
  /\ s.at = r.at /\ s.left = path \o Tail(r.left) /\ s.first = TRUE /\ s.colon = r.colon
  /\ s.back = (IF r.first THEN r.back ELSE r.at)
  /\ s.hops = r.hops + 1 /\ s.marks = r.marks \cup {Len(Tail(r.left))}

EndsAt(s, to) == s.ended = TRUE /\ s.to = to

(* Nothing stays unread of the aliases it went through.                    *)
AllRead(r) == \A n \in r.marks : n = 0 \/ n >= Len(r.left)

LEMMA GoesIs ==
  ASSUME NEW r, HasFields(r), r.ended = FALSE, r.whole = FALSE, NEW at, NEW rest, rest = Tail(r.left)
  PROVE  Goes(r, [r EXCEPT !.at = at, !.left = rest, !.first = FALSE, !.colon = FALSE], at)
BY DEF Goes, HasFields

LEMMA HopsIs ==
  ASSUME NEW r, HasFields(r), r.ended = FALSE, r.whole = FALSE, NEW path, NEW rest, rest = Tail(r.left),
         NEW both, both = path \o rest
  PROVE  Hops(r, [r EXCEPT !.left = both, !.first = TRUE,
                           !.back = IF r.first THEN @ ELSE r.at,
                           !.hops = @ + 1, !.marks = @ \cup {Len(rest)}], path)
BY DEF Hops, HasFields

LEMMA EndsIs ==
  ASSUME NEW r, HasFields(r), NEW at, NEW whole
  PROVE  /\ EndsAt([r EXCEPT !.ended = TRUE, !.to = at, !.whole = whole], at)
         /\ [r EXCEPT !.ended = TRUE, !.to = at, !.whole = whole].whole = whole
BY DEF EndsAt, HasFields

(* What the segments lead the resolver to from there.                      *)
Led(r, segs, home, left, deeper) ==
  IF r.first THEN Resolve(r.at, segs, r.colon, home, left, deeper)
             ELSE Walk(r.at, segs, home, left, deeper)

(* What an alias leads it to, of a first segment or of a later one.        *)
LedFirst(at, path, rest, home, left, deeper) ==
  LET target == deeper[Resolving(at, path, FALSE)]
  IN  IF target = Nowhere THEN Nowhere ELSE ContinueFrom(target, rest, home, left, deeper)

LedLater(at, path, rest, deeper) ==
  LET target == deeper[Resolving(at, path, FALSE)]
  IN  IF target = Nowhere THEN at ELSE deeper[Continuing(target, rest)]

LEMMA NothingLeft ==
  ASSUME NEW home, NEW r, IsAt(r, home), r.left = <<>>
  PROVE  EndsAt(ReadOn(r, home), r.at)
<1> DEFINE whole == \A n \in r.marks : n = 0 \/ n >= Len(r.left)
           end == [r EXCEPT !.ended = TRUE, !.to = r.at, !.whole = whole]
<1>1. ReadOn(r, home) = end
  BY DEF ReadOn
<1>2. HasFields(r)
  BY DEF IsAt
<1> HIDE DEF whole
<1>3. EndsAt(end, r.at)
  BY <1>2, EndsIs
<1>4. QED
  BY <1>1, <1>3

(* The steps, by the segment read.                                         *)
ReadsOn(r, s, home, seg, uses, deep, crate) ==
  LET Crate == IF crate \in DOMAIN modules THEN Goes(r, s, crate) ELSE EndsAt(s, r.left)
      Stop(at) == EndsAt(s, at) /\ (s.whole => AllRead(r))
      usable == uses # {} /\ modules[r.at].root = home
      Through == IF r.hops = AliasDepth \/ ~ Plain(uses) THEN s.ended = TRUE /\ s.whole = FALSE
                 ELSE Hops(r, s, (CHOOSE use \in uses : TRUE).path)
  IN  /\ r.colon => Crate
      /\ ~ r.colon =>
           /\ seg = "crate" /\ r.first => Goes(r, s, modules[r.at].root)
           /\ ~ (seg = "crate" /\ r.first) =>
                /\ seg = "self" => Goes(r, s, r.at)
                /\ seg = "super" => Goes(r, s, ParentOf(r.at, modules[r.at].root))
                /\ seg \notin {"self", "super"} =>
                     /\ deep \in DOMAIN modules => Goes(r, s, deep)
                     /\ deep \notin DOMAIN modules =>
                          /\ usable => Through
                          /\ ~ usable =>
                               /\ ~ r.first => Stop(r.at)
                               /\ r.first /\ IsCrate(r.at, seg) => Crate
                               /\ r.first /\ ~ IsCrate(r.at, seg) => Stop(r.back)

LEMMA ReadOnIs ==
  ASSUME NEW home, NEW r, IsAt(r, home), r.left # <<>>, NEW s, s = ReadOn(r, home)
  PROVE  LET seg == Head(r.left)
         IN  ReadsOn(r, s, home, seg, Declared(r.at, seg), Append(r.at, seg), <<seg>>)
<1> DEFINE seg == Head(r.left)
           uses == Declared(r.at, seg)
           deep == Append(r.at, seg)
           crate == <<seg>>
           rest == Tail(r.left)
           path == (CHOOSE use \in uses : TRUE).path
           usable == uses # {} /\ modules[r.at].root = home
           To(at) == [r EXCEPT !.at = at, !.left = rest, !.first = FALSE, !.colon = FALSE]
           End(at, whole) == [r EXCEPT !.ended = TRUE, !.to = at, !.whole = whole]
           StopAt(at) == End(at, AllRead(r))
           CrateOf == IF crate \in DOMAIN modules THEN To(crate) ELSE End(r.left, TRUE)
           Hop == [r EXCEPT !.left = path \o rest, !.first = TRUE,
                            !.back = IF r.first THEN @ ELSE r.at,
                            !.hops = @ + 1, !.marks = @ \cup {Len(rest)}]
           ThroughIt == IF r.hops = AliasDepth \/ ~ Plain(uses) THEN End(Nowhere, FALSE) ELSE Hop
<1>1. HasFields(r) /\ r.ended = FALSE /\ r.whole = FALSE
  BY DEF IsAt
<1>2. \A at : Goes(r, To(at), at)
  BY <1>1, GoesIs
<1>3. \A at, whole : EndsAt(End(at, whole), at) /\ End(at, whole).whole = whole
  BY <1>1, EndsIs
<1>4. Hops(r, Hop, path)
  <2> HIDE DEF path
  <2> DEFINE both == path \o rest
  <2>1. both = path \o rest /\ rest = Tail(r.left)
    OBVIOUS
  <2> HIDE DEF both, rest
  <2>2. QED
    BY <1>1, <2>1, HopsIs
<1>5. s = IF r.colon THEN CrateOf
          ELSE IF seg = "crate" /\ r.first THEN To(modules[r.at].root)
          ELSE IF seg = "self" THEN To(r.at)
          ELSE IF seg = "super" THEN To(ParentOf(r.at, modules[r.at].root))
          ELSE IF deep \in DOMAIN modules THEN To(deep)
          ELSE IF usable THEN ThroughIt
          ELSE IF ~ r.first THEN StopAt(r.at)
          ELSE IF IsCrate(r.at, seg) THEN CrateOf
          ELSE StopAt(r.back)
  BY DEF ReadOn, AllRead
<1>6. \A at : EndsAt(StopAt(at), at) /\ (StopAt(at).whole => AllRead(r))
  BY <1>3
<1>7. \A at : EndsAt(End(at, FALSE), at) /\ End(at, FALSE).whole = FALSE
  BY <1>3
<1>8. \A at : EndsAt(End(at, TRUE), at)
  BY <1>3
<1> HIDE DEF To, End, StopAt, Hop, path, seg, uses, deep, crate
<1>9. EndsAt(End(Nowhere, FALSE), Nowhere) /\ End(Nowhere, FALSE).whole = FALSE
      /\ End(Nowhere, FALSE).ended = TRUE
  BY <1>7 DEF EndsAt
<1>10. r.colon \in BOOLEAN /\ r.first \in BOOLEAN
  BY DEF IsAt
<1>11. QED
  <2>1. ReadsOn(r, s, home, seg, uses, deep, crate)
    BY <1>2, <1>4, <1>5, <1>6, <1>8, <1>9, <1>10 DEF path, ReadsOn
  <2>2. QED
    BY <2>1 DEF seg, uses, deep, crate

(* The resolver and the reading, side by side for one segment.             *)
BothGo(r, s, segs, home, left, deeper) ==
  \E at \in DOMAIN modules :
    /\ Goes(r, s, at)
    /\ Led(r, segs, home, left, deeper) = Walk(at, Tail(segs), home, left, deeper)

BothHop(r, s, segs, home, left, deeper) ==
  \E path :
    /\ IsPlainPath(path) /\ path # <<>>
    /\ modules[r.at].root = home /\ r.colon = FALSE
    /\ r.hops < AliasDepth /\ left > 0
    /\ Hops(r, s, path)
    /\ Led(r, segs, home, left, deeper) =
         IF r.first THEN LedFirst(r.at, path, Tail(segs), home, left, deeper)
                    ELSE LedLater(r.at, path, Tail(segs), deeper)

BothLeave(r, s, segs, home, left, deeper) ==
  /\ EndsAt(s, r.left)
  /\ Led(r, segs, home, left, deeper) = <<Head(segs)>> \o Tail(segs)
  /\ <<Head(segs)>> \notin DOMAIN modules

BothStop(r, s, segs, home, left, deeper) ==
  /\ s.whole => AllRead(r)
  /\ EndsAt(s, IF r.first THEN r.back ELSE r.at)
  /\ Led(r, segs, home, left, deeper) = IF r.first THEN Nowhere ELSE r.at

Together(r, s, segs, home, left, deeper) ==
  \/ BothGo(r, s, segs, home, left, deeper)
  \/ BothHop(r, s, segs, home, left, deeper)
  \/ BothLeave(r, s, segs, home, left, deeper)
  \/ BothStop(r, s, segs, home, left, deeper)
  \/ s.ended = TRUE /\ s.whole = FALSE

LEMMA AliasPathIs ==
  ASSUME ScanInv, AliasesInv, NEW m \in DOMAIN modules, NEW n \in Names,
         Declared(m, n) # {}, Plain(Declared(m, n))
  PROVE  /\ n \in DOMAIN modules[m].aliases
         /\ modules[m].aliases[n] = (CHOOSE use \in Declared(m, n) : TRUE).path
         /\ IsPlainPath(modules[m].aliases[n]) /\ modules[m].aliases[n] # <<>>
<1>1. n \in DOMAIN modules[m].aliases
      /\ modules[m].aliases[n] = (CHOOSE use \in Declared(m, n) : TRUE).path
  BY AliasIs
<1>2. IsWritten(modules[m].aliases[n])
  BY <1>1, AliasesAreWritten
<1>3. QED
  BY <1>1, <1>2 DEF IsWritten, IsPlainPath

LEMMA TogetherFirst ==
  ASSUME ScanInv, AliasesInv, NEW home, NEW r, IsAt(r, home), r.first = TRUE,
         NEW s, s = ReadOn(r, home), NEW segs \in Seq(Names), segs # <<>>,
         Head(segs) = Head(r.left),
         NEW left \in Nat, r.hops + left >= AliasDepth, NEW deeper
  PROVE  Together(r, s, segs, home, left, deeper)
<1> DEFINE seg == Head(segs)
           rest == Tail(segs)
           at == r.at
           info == modules[at]
           uses == Declared(at, seg)
           deep == Append(at, seg)
           crate == <<seg>>
           usable == uses # {} /\ modules[at].root = home
           path == (CHOOSE use \in uses : TRUE).path
           led == Led(r, segs, home, left, deeper)
           Down(m) == Walk(m, rest, home, left, deeper)
           Alias(p) == LedFirst(at, p, rest, home, left, deeper)
           enter == EnterCrate(seg, rest, home, left, deeper)
<1>1. /\ at \in DOMAIN modules /\ r.left # <<>> /\ IsPlainPath(r.left)
      /\ info.root = home /\ r.hops \in Nat /\ r.hops <= AliasDepth /\ r.colon \in BOOLEAN
  BY DEF IsAt
<1>2. /\ seg \in Names
      /\ \A root \in Roots : Len(root) > 1 => seg # Last(root)
  <2>1. r.left \in Seq(Names) /\ Head(r.left) = r.left[1] /\ 1 \in DOMAIN r.left
    BY <1>1 DEF IsPlainPath
  <2>2. QED
    BY <1>1, <2>1 DEF IsPlainPath
<1>3. seg \in info.children <=> deep \in DOMAIN modules
  BY <1>1, <1>2, ChildIs
<1>4. uses # {} <=> seg \in DOMAIN info.aliases
  BY <1>1, <1>2, AliasIs
<1>5. uses # {} /\ Plain(uses) =>
        info.aliases[seg] = path /\ IsPlainPath(path) /\ path # <<>>
  BY <1>1, <1>2, AliasPathIs
<1>6. crate \in DOMAIN modules => enter = Down(crate)
  BY <1>2, CratesAreRoots DEF EnterCrate
<1>7. crate \notin DOMAIN modules => enter = crate \o rest
  BY DEF EnterCrate
<1>8. info.root \in DOMAIN modules /\ ParentOf(at, info.root) \in DOMAIN modules
  BY <1>1, ParentIsModule DEF ScanInv, ModulesInv
<1>9. led = IF r.colon THEN enter
            ELSE IF seg = "crate" THEN Down(info.root)
            ELSE IF seg = "self" THEN Down(at)
            ELSE IF seg = "super" THEN Down(ParentOf(at, info.root))
            ELSE IF seg \in info.children THEN Down(deep)
            ELSE IF seg \in DOMAIN info.aliases /\ left > 0 THEN Alias(info.aliases[seg])
            ELSE IF IsCrate(at, seg) THEN enter
            ELSE Nowhere
  BY <1>1 DEF Led, Resolve, LedFirst
<1> DEFINE Crate == IF crate \in DOMAIN modules THEN Goes(r, s, crate) ELSE EndsAt(s, r.left)
           Stop(m) == EndsAt(s, m) /\ (s.whole => AllRead(r))
           Through == IF r.hops = AliasDepth \/ ~ Plain(uses) THEN s.ended = TRUE /\ s.whole = FALSE
                      ELSE Hops(r, s, path)
<1>10. /\ r.colon => Crate
       /\ ~ r.colon =>
            /\ seg = "crate" => Goes(r, s, info.root)
            /\ seg # "crate" =>
                 /\ seg = "self" => Goes(r, s, at)
                 /\ seg = "super" => Goes(r, s, ParentOf(at, info.root))
                 /\ seg \notin {"self", "super"} =>
                      /\ deep \in DOMAIN modules => Goes(r, s, deep)
                      /\ deep \notin DOMAIN modules =>
                           /\ usable => Through
                           /\ ~ usable =>
                                /\ IsCrate(at, seg) => Crate
                                /\ ~ IsCrate(at, seg) => Stop(r.back)
  <2>1. ReadsOn(r, s, home, seg, uses, deep, crate)
    BY <1>1, ReadOnIs
  <2> HIDE DEF uses, deep, crate, led, enter, seg, info
  <2>2. QED
    BY <2>1 DEF ReadsOn, info
<1> DEFINE go == BothGo(r, s, segs, home, left, deeper)
           hop == BothHop(r, s, segs, home, left, deeper)
           leave == BothLeave(r, s, segs, home, left, deeper)
           stop == BothStop(r, s, segs, home, left, deeper)
           lost == s.ended = TRUE /\ s.whole = FALSE
<1>11. \A m \in DOMAIN modules : Goes(r, s, m) /\ led = Down(m) => go
  BY DEF BothGo
<1>12. EndsAt(s, r.left) /\ led = crate \o rest /\ crate \notin DOMAIN modules => leave
  BY DEF BothLeave
<1>13. Stop(r.back) /\ led = Nowhere => stop
  BY DEF BothStop
<1>14. /\ IsPlainPath(path) /\ path # <<>> /\ info.root = home /\ r.colon = FALSE
       /\ r.hops < AliasDepth /\ left > 0 /\ Hops(r, s, path) /\ led = Alias(path)
       => hop
  <2> HIDE DEF path, led
  <2>1. QED
    BY DEF BothHop, led
<1>15. AliasDepth \in Nat
  BY ScanAssumption
<1>16. go \/ hop \/ leave \/ stop \/ lost
  <2>1. r.hops # AliasDepth => r.hops < AliasDepth /\ left > 0
    BY <1>1, <1>15
  <2>2. r.colon = TRUE \/ r.colon = FALSE
    BY <1>1
  <2> HIDE DEF rest, at, info, uses, deep, crate, path, led, Down, Alias, enter, Stop, go, hop, leave, stop, lost
  <2>3. Crate /\ led = enter => go \/ leave
    <3>1. crate \in DOMAIN modules /\ Crate /\ led = enter => go
      BY <1>6, <1>11
    <3>2. crate \notin DOMAIN modules /\ Crate /\ led = enter => leave
      BY <1>7, <1>12
    <3>3. QED
      BY <3>1, <3>2
  <2> HIDE DEF Crate
  <2>4. Through /\ usable /\ led = Alias(path) /\ r.colon = FALSE => hop \/ lost
    BY <1>1, <1>5, <1>14, <2>1 DEF lost, usable
  <2>5. Through /\ r.hops = AliasDepth => lost
    BY DEF lost
  <2>6. Through /\ ~ Plain(uses) => lost
    BY DEF lost
  <2>7. CASE r.colon = TRUE
    BY <1>9, <1>10, <2>3, <2>7
  <2>8. CASE r.colon = FALSE /\ seg \in {"crate", "self", "super"}
    <3>1. Down(info.root) = led /\ Goes(r, s, info.root) => go
      BY <1>8, <1>11
    <3>2. Down(at) = led /\ Goes(r, s, at) => go
      BY <1>1, <1>11
    <3>3. Down(ParentOf(at, info.root)) = led /\ Goes(r, s, ParentOf(at, info.root)) => go
      BY <1>8, <1>11
    <3>4. QED
      BY <1>9, <1>10, <2>8, <3>1, <3>2, <3>3
  <2>9. CASE r.colon = FALSE /\ seg \notin {"crate", "self", "super"} /\ deep \in DOMAIN modules
    BY <1>3, <1>9, <1>10, <1>11, <2>9
  <2>10. CASE /\ r.colon = FALSE /\ seg \notin {"crate", "self", "super"} /\ deep \notin DOMAIN modules
              /\ usable
    <3>1. Through /\ uses # {} /\ seg \in DOMAIN info.aliases
      BY <1>4, <1>10, <2>10 DEF usable
    <3>2. CASE r.hops = AliasDepth \/ ~ Plain(uses)
      BY <2>5, <2>6, <3>1, <3>2
    <3>3. CASE r.hops # AliasDepth /\ Plain(uses)
      <4>1. left > 0 /\ info.aliases[seg] = path
        BY <1>5, <2>1, <3>1, <3>3
      <4>2. led = Alias(path)
        BY <1>3, <1>9, <2>10, <3>1, <4>1
      <4>3. QED
        BY <2>4, <2>10, <3>1, <4>2
    <3>4. QED
      BY <3>2, <3>3
  <2>11. CASE /\ r.colon = FALSE /\ seg \notin {"crate", "self", "super"} /\ deep \notin DOMAIN modules
              /\ ~ usable
    <3>1. seg \notin DOMAIN info.aliases
      BY <1>1, <1>4, <2>11 DEF usable, info
    <3>2. QED
      BY <1>3, <1>9, <1>10, <1>13, <2>3, <2>11, <3>1
  <2>12. QED
    BY <2>2, <2>7, <2>8, <2>9, <2>10, <2>11
<1>17. QED
  BY <1>16 DEF Together

LEMMA TogetherLater ==
  ASSUME ScanInv, AliasesInv, NEW home, NEW r, IsAt(r, home), r.first = FALSE, r.left # <<>>,
         NEW s, s = ReadOn(r, home), NEW segs \in Seq(Names), segs # <<>>,
         Head(segs) = Head(r.left),
         NEW left \in Nat, r.hops + left >= AliasDepth, NEW deeper
  PROVE  Together(r, s, segs, home, left, deeper)
<1> DEFINE seg == Head(segs)
           rest == Tail(segs)
           at == r.at
           info == modules[at]
           uses == Declared(at, seg)
           deep == Append(at, seg)
           crate == <<seg>>
           usable == uses # {} /\ modules[at].root = home
           path == (CHOOSE use \in uses : TRUE).path
           led == Led(r, segs, home, left, deeper)
           Down(m) == Walk(m, rest, home, left, deeper)
           Alias(p) == LedLater(at, p, rest, deeper)
           after == Descend(OnWay(at), seg, rest, home, left, deeper)
           Stops(m) == [at |-> m, ended |-> TRUE]
<1>1. /\ at \in DOMAIN modules /\ IsPlainPath(r.left)
      /\ r.hops \in Nat /\ r.hops <= AliasDepth /\ r.colon = FALSE
  BY DEF IsAt
<1>2. /\ seg \in Names
      /\ \A root \in Roots : Len(root) > 1 => seg # Last(root)
  <2>1. r.left \in Seq(Names) /\ Head(r.left) = r.left[1] /\ 1 \in DOMAIN r.left
    BY <1>1 DEF IsPlainPath
  <2>2. QED
    BY <1>1, <2>1 DEF IsPlainPath
<1>3. seg \in info.children <=> deep \in DOMAIN modules
  BY <1>1, <1>2, ChildIs
<1>4. uses # {} <=> seg \in DOMAIN info.aliases
  BY <1>1, <1>2, AliasIs
<1>5. uses # {} /\ Plain(uses) =>
        info.aliases[seg] = path /\ IsPlainPath(path) /\ path # <<>>
  BY <1>1, <1>2, AliasPathIs
<1>6. led = Walk(at, segs, home, left, deeper)
  BY DEF Led
<1>7. \A m : after = OnWay(m) => led = Down(m)
  <2> HIDE DEF after
  <2>1. SUFFICES ASSUME NEW m, after = OnWay(m)
                 PROVE  led = Down(m)
    OBVIOUS
  <2>2. Descend(OnWay(at), Head(segs), Tail(segs), home, left, deeper) = OnWay(m)
    BY <2>1 DEF after
  <2> HIDE DEF at, led
  <2>3. Walk(at, segs, home, left, deeper) = Walk(m, Tail(segs), home, left, deeper)
    BY <2>2, WalkOn
  <2>4. QED
    BY <1>6, <2>3
<1>8. \A m : after = Stops(m) => led = m
  <2>1. SUFFICES ASSUME NEW m, after = Stops(m)
                 PROVE  led = m
    OBVIOUS
  <2>2. Walk(at, segs, home, left, deeper) = m
    BY <2>1, WalkEnds
  <2>3. QED
    BY <1>6, <2>2
<1>9. after = IF seg = "super" THEN OnWay(ParentOf(at, info.root))
              ELSE IF seg = "self" THEN OnWay(at)
              ELSE IF seg \in info.children THEN OnWay(deep)
              ELSE IF seg \in DOMAIN info.aliases /\ left > 0 /\ info.root = home
                THEN Stops(ByAlias(at, seg, rest, deeper))
              ELSE Stops(at)
  <2> HIDE DEF seg, rest, at
  <2>1. QED
    BY <1>1, DescendIs
<1>10. ByAlias(at, seg, rest, deeper) = Alias(info.aliases[seg])
  BY DEF ByAlias, LedLater
<1>11. ParentOf(at, info.root) \in DOMAIN modules
  BY <1>1, ParentIsModule DEF ScanInv
<1> DEFINE Stop(m) == EndsAt(s, m) /\ (s.whole => AllRead(r))
           Through == IF r.hops = AliasDepth \/ ~ Plain(uses) THEN s.ended = TRUE /\ s.whole = FALSE
                      ELSE Hops(r, s, path)
<1>12. /\ seg = "self" => Goes(r, s, at)
       /\ seg = "super" => Goes(r, s, ParentOf(at, info.root))
       /\ seg \notin {"self", "super"} =>
            /\ deep \in DOMAIN modules => Goes(r, s, deep)
            /\ deep \notin DOMAIN modules =>
                 /\ usable => Through
                 /\ ~ usable => Stop(at)
  <2>1. ReadsOn(r, s, home, seg, uses, deep, crate)
    BY <1>1, ReadOnIs
  <2> HIDE DEF uses, deep, crate, led, seg, info
  <2>2. QED
    BY <1>1, <2>1 DEF ReadsOn, info
<1> DEFINE go == BothGo(r, s, segs, home, left, deeper)
           hop == BothHop(r, s, segs, home, left, deeper)
           stop == BothStop(r, s, segs, home, left, deeper)
           lost == s.ended = TRUE /\ s.whole = FALSE
<1>13. \A m \in DOMAIN modules : Goes(r, s, m) /\ led = Down(m) => go
  BY DEF BothGo
<1>14. Stop(at) /\ led = at => stop
  BY DEF BothStop
<1>15. /\ IsPlainPath(path) /\ path # <<>> /\ info.root = home /\ r.colon = FALSE
       /\ r.hops < AliasDepth /\ left > 0 /\ Hops(r, s, path) /\ led = Alias(path)
       => hop
  <2> HIDE DEF path, led
  <2>1. QED
    BY DEF BothHop, led
<1>16. AliasDepth \in Nat
  BY ScanAssumption
<1>17. go \/ hop \/ stop \/ lost
  <2>1. r.hops # AliasDepth => r.hops < AliasDepth /\ left > 0
    BY <1>1, <1>16
  <2> DEFINE aliased == seg \in DOMAIN info.aliases /\ left > 0 /\ info.root = home
  <2>2. /\ seg = "super" => led = Down(ParentOf(at, info.root))
        /\ seg = "self" => led = Down(at)
        /\ seg \notin {"self", "super"} =>
             /\ deep \in DOMAIN modules => led = Down(deep)
             /\ deep \notin DOMAIN modules =>
                  /\ aliased => led = Alias(info.aliases[seg])
                  /\ ~ aliased => led = at
    <3> HIDE DEF rest, at, info, deep, led, Down, Alias, after, Stops
    <3>1. /\ seg = "super" => after = OnWay(ParentOf(at, info.root))
          /\ seg = "self" => after = OnWay(at)
          /\ seg \notin {"self", "super"} =>
               /\ deep \in DOMAIN modules => after = OnWay(deep)
               /\ deep \notin DOMAIN modules =>
                    /\ aliased => after = Stops(ByAlias(at, seg, rest, deeper))
                    /\ ~ aliased => after = Stops(at)
      BY <1>3, <1>9
    <3>2. QED
      BY <1>7, <1>8, <1>10, <3>1
  <2>3. info.root = modules[at].root
    OBVIOUS
  <2> HIDE DEF rest, at, info, uses, deep, crate, path, led, Down, Alias, Stop, go, hop, stop, lost
  <2>4. CASE seg \in {"self", "super"}
    <3>1. Down(at) = led /\ Goes(r, s, at) => go
      BY <1>1, <1>13
    <3>2. Down(ParentOf(at, info.root)) = led /\ Goes(r, s, ParentOf(at, info.root)) => go
      BY <1>11, <1>13
    <3>3. QED
      BY <1>12, <2>2, <2>4, <3>1, <3>2
  <2>5. CASE seg \notin {"self", "super"} /\ deep \in DOMAIN modules
    BY <1>12, <1>13, <2>2, <2>5
  <2>6. CASE seg \notin {"self", "super"} /\ deep \notin DOMAIN modules /\ usable
    <3>1. Through /\ uses # {} /\ seg \in DOMAIN info.aliases /\ info.root = home
      BY <1>4, <1>12, <2>3, <2>6
    <3>2. CASE r.hops = AliasDepth \/ ~ Plain(uses)
      BY <3>1, <3>2 DEF lost
    <3>3. CASE r.hops # AliasDepth /\ Plain(uses)
      <4>1. left > 0 /\ info.aliases[seg] = path /\ Hops(r, s, path)
        BY <1>5, <2>1, <3>1, <3>3
      <4>2. led = Alias(path)
        BY <2>2, <2>6, <3>1, <4>1
      <4>3. QED
        BY <1>1, <1>5, <1>15, <2>1, <3>1, <3>3, <4>1, <4>2
    <3>4. QED
      BY <3>2, <3>3
  <2>7. CASE seg \notin {"self", "super"} /\ deep \notin DOMAIN modules /\ ~ usable
    <3>1. ~ aliased
      BY <1>4, <2>3, <2>7
    <3>2. QED
      BY <1>12, <1>14, <2>2, <2>7, <3>1
  <2>8. QED
    BY <2>4, <2>5, <2>6, <2>7
<1>18. QED
  BY <1>17 DEF Together

LEMMA TailIsPlain ==
  ASSUME NEW s, IsPlainPath(s), s # <<>>
  PROVE  IsPlainPath(Tail(s)) /\ Len(Tail(s)) \in Nat
<1> DEFINE t == Tail(s)
<1>1. /\ s \in Seq(Names) /\ t \in Seq(Names) /\ Len(t) \in Nat /\ Len(s) = Len(t) + 1
      /\ \A i \in 1 .. Len(t) : s[i + 1] = t[i]
  BY TailIs DEF IsPlainPath
<1> HIDE DEF t
<1>2. \A i \in DOMAIN t : i + 1 \in DOMAIN s /\ s[i + 1] = t[i]
  BY <1>1
<1>3. IsPlainPath(t)
  BY <1>1, <1>2 DEF IsPlainPath
<1>4. QED
  BY <1>1, <1>3 DEF t

LEMMA BothArePlain ==
  ASSUME NEW s, IsPlainPath(s), NEW t, IsPlainPath(t)
  PROVE  /\ IsPlainPath(s \o t)
         /\ s # <<>> => s \o t # <<>>
         /\ Len(s \o t) = Len(s) + Len(t) /\ Len(s) \in Nat /\ Len(t) \in Nat
<1> DEFINE c == s \o t
<1>1. /\ s \in Seq(Names) /\ t \in Seq(Names) /\ Len(s) \in Nat /\ Len(t) \in Nat
      /\ c \in Seq(Names) /\ Len(c) = Len(s) + Len(t)
      /\ \A i \in 1 .. Len(c) : c[i] = IF i <= Len(s) THEN s[i] ELSE t[i - Len(s)]
  BY DEF IsPlainPath
<1> HIDE DEF c
<1>2. \A i \in DOMAIN c : \/ i \in DOMAIN s /\ c[i] = s[i]
                          \/ i - Len(s) \in DOMAIN t /\ c[i] = t[i - Len(s)]
  BY <1>1
<1>3. IsPlainPath(c)
  BY <1>1, <1>2 DEF IsPlainPath
<1>4. s # <<>> => c # <<>>
  BY <1>1
<1>5. QED
  BY <1>1, <1>3, <1>4 DEF c

(* A reading that goes on is one.                                          *)
LEMMA GoesOn ==
  ASSUME NEW home, NEW r, IsAt(r, home), r.left # <<>>, NEW at \in DOMAIN modules, NEW s,
         Goes(r, s, at)
  PROVE  IsAt(s, home)
<1>1. IsPlainPath(s.left)
  BY TailIsPlain DEF IsAt, Goes
<1>2. QED
  BY <1>1 DEF IsAt, Goes

LEMMA HopsOn ==
  ASSUME NEW home, NEW r, IsAt(r, home), r.left # <<>>, NEW path, IsPlainPath(path), path # <<>>,
         modules[r.at].root = home, r.colon = FALSE, r.hops < AliasDepth,
         NEW s, Hops(r, s, path)
  PROVE  IsAt(s, home)
<1>1. IsPlainPath(Tail(r.left)) /\ Len(Tail(r.left)) \in Nat
  BY TailIsPlain DEF IsAt
<1>2. IsPlainPath(s.left) /\ s.left # <<>>
  BY <1>1, BothArePlain DEF Hops
<1>3. AliasDepth \in Nat
  BY ScanAssumption
<1>4. r.hops + 1 \in Nat /\ r.hops + 1 <= AliasDepth
  BY <1>3 DEF IsAt
<1>5. r.marks \cup {Len(Tail(r.left))} \subseteq Nat
  BY <1>1 DEF IsAt
<1>6. s.back = Nowhere \/ s.back \in DOMAIN modules
  BY DEF IsAt, Hops
<1>7. QED
  BY <1>2, <1>4, <1>5, <1>6 DEF IsAt, Hops

(* A path that starts with no registered crate names no module.            *)
LEMMA ExternalIsNoModule ==
  ASSUME ScanInv, NEW m \in DOMAIN modules, IsPlainPath(m)
  PROVE  <<Head(m)>> \in DOMAIN modules
<1> DEFINE T(p) == IsPlainPath(p) /\ p \in DOMAIN modules
           S == {n \in Nat : \A p : T(p) /\ Len(p) = n + 1 => <<Head(p)>> \in DOMAIN modules}
<1>1. 0 \in S
  <2>1. SUFFICES ASSUME NEW p, T(p), Len(p) = 1
                 PROVE  <<Head(p)>> \in DOMAIN modules
    OBVIOUS
  <2>2. p \in Seq(Names)
    BY <2>1 DEF IsPlainPath
  <2>3. p = <<Head(p)>>
    <3> DEFINE one == <<Head(p)>>
    <3>a. p # <<>>
      BY <2>1
    <3>1. Head(p) = p[1] /\ p[1] \in Names
      BY <2>2, <3>a, TailIs
    <3>0. one \in Seq(Names) /\ Len(one) = 1 /\ one[1] = p[1]
      BY <3>1
    <3> HIDE DEF one
    <3>2. p = one
      BY <2>1, <2>2, <3>0, SameSequence
    <3>3. QED
      BY <3>2 DEF one
  <2>4. QED
    BY <2>1, <2>3
<1>2. ASSUME NEW n \in Nat, n \in S
      PROVE  n + 1 \in S
  <2>1. SUFFICES ASSUME NEW p, T(p), Len(p) = (n + 1) + 1
                 PROVE  <<Head(p)>> \in DOMAIN modules
    OBVIOUS
  <2> DEFINE f == Front(p)
  <2>2. p \in Seq(Names) /\ p # <<>>
    BY <2>1 DEF IsPlainPath
  <2>3. /\ f \in Seq(Names) /\ Len(f) = n + 1
        /\ \A k \in 1 .. n + 1 : f[k] = p[k]
    <3>1. /\ f \in Seq(Names) /\ Len(f) = Len(p) - 1
          /\ \A k \in 1 .. Len(p) - 1 : f[k] = p[k]
      BY <2>2, FrontAndLast
    <3>2. Len(p) - 1 = n + 1
      BY <1>2, <2>1
    <3>3. QED
      BY <3>1, <3>2
  <2> HIDE DEF f
  <2>4. Last(p) = p[Len(p)] /\ Len(p) \in DOMAIN p /\ Len(p) > 1
    BY <1>2, <2>1, <2>2 DEF Last
  <2>5. p \notin Roots
    BY <2>1, <2>4 DEF IsPlainPath
  <2>6. f \in DOMAIN modules
    BY <2>1, <2>5 DEF f, ScanInv, ModulesInv
  <2>7. IsPlainPath(f)
    <3>1. \A k \in DOMAIN f : k \in DOMAIN p /\ f[k] = p[k]
      BY <2>1, <2>2, <2>3
    <3>2. QED
      BY <2>1, <2>3, <3>1 DEF IsPlainPath
  <2>8. <<Head(f)>> \in DOMAIN modules
    BY <1>2, <2>3, <2>6, <2>7
  <2>9. Head(f) = Head(p)
    <3>1. f[1] = p[1] /\ f # <<>>
      BY <1>2, <2>3
    <3>2. QED
      BY <2>2, <2>3, <3>1
  <2>10. QED
    BY <2>8, <2>9
<1> HIDE DEF S, T
<1>3. Len(m) - 1 \in S
  <2>1. Len(m) - 1 \in Nat
    BY ModulesArePaths DEF ScanInv
  <2>2. QED
    BY <1>1, <1>2, <2>1, SetInduction
<1>4. Len(m) = (Len(m) - 1) + 1
  BY ModulesArePaths DEF ScanInv
<1>5. QED
  BY <1>3, <1>4 DEF S, T

(* A reading from its first step to its end, the segments it still has to  *)
(* read being those asked about and others.                                *)
Deeper(a, left) == IF left = 0 THEN <<>> ELSE a[left - 1]

IsAnswering(a, home) ==
  \A left \in 0 .. AliasDepth, q \in Questions : a[left][q] = Answer(q, home, left, Deeper(a, left))

IsRun(t, K, home) ==
  /\ \A k \in 1 .. K : t[k] = ReadOn(t[k - 1], home)
  /\ \A k \in 0 .. K - 1 : IsAt(t[k], home)
  /\ t[K].ended = TRUE /\ t[K].whole = TRUE

Arrives(t, K, i, rest, w) ==
  \E j \in i .. K - 1 :
    /\ t[j].first = FALSE /\ t[j].left = rest /\ w = t[j].at
    /\ t[j].hops >= t[i].hops /\ t[i].marks \subseteq t[j].marks

Leaves(t, K, rest, w) ==
  /\ IsPlainPath(w) /\ w # <<>> /\ <<Head(w)>> \notin DOMAIN modules
  /\ t[K].to = w \o rest

Falls(t, K, i, rest, w) ==
  /\ \E x \in Nat : x > Len(rest) /\ \A n \in t[i].marks : n = 0 \/ n >= x
  /\ rest = <<>> => \/ w = t[K].to /\ w \in DOMAIN modules
                    \/ t[i].first = TRUE /\ w = Nowhere /\ t[K].to = t[i].back

Accounts(t, K, i, rest, w) ==
  Arrives(t, K, i, rest, w) \/ Leaves(t, K, rest, w) \/ Falls(t, K, i, rest, w)

Claim(t, K, i, home, a) ==
  \A segs, rest : \A left \in 0 .. AliasDepth :
    /\ IsPlainPath(segs) /\ IsPlainPath(rest) /\ t[i].left = segs \o rest
    /\ t[i].first = TRUE => segs # <<>>
    /\ t[i].hops + left >= AliasDepth
    => Accounts(t, K, i, rest, Led(t[i], segs, home, left, Deeper(a, left)))

LEMMA AccountsEarlier ==
  ASSUME NEW t, NEW K \in Nat, NEW i \in Nat, NEW j \in Nat, j >= i, NEW rest, NEW w,
         Accounts(t, K, j, rest, w), t[j].first = FALSE,
         t[i].hops \in Nat, \A k \in j .. K - 1 : t[k].hops \in Nat, j <= K - 1,
         t[j].hops >= t[i].hops, t[i].marks \subseteq t[j].marks
  PROVE  Accounts(t, K, i, rest, w)
<1>1. CASE Arrives(t, K, j, rest, w)
  <2>1. PICK k \in j .. K - 1 :
               /\ t[k].first = FALSE /\ t[k].left = rest /\ w = t[k].at
               /\ t[k].hops >= t[j].hops /\ t[j].marks \subseteq t[k].marks
    BY <1>1 DEF Arrives
  <2>2. k \in i .. K - 1 /\ k \in Int
    OBVIOUS
  <2>3. t[k].hops >= t[i].hops
    <3>1. t[j].hops \in Nat /\ t[k].hops \in Nat
      <4>1. j \in j .. K - 1
        OBVIOUS
      <4>2. QED
        BY <4>1
    <3>2. QED
      BY <2>1, <3>1
  <2>4. t[i].marks \subseteq t[k].marks
    BY <2>1
  <2>5. QED
    BY <2>1, <2>2, <2>3, <2>4 DEF Arrives, Accounts
<1>2. CASE Leaves(t, K, rest, w)
  BY <1>2 DEF Accounts
<1>3. CASE Falls(t, K, j, rest, w)
  <2>1. Falls(t, K, i, rest, w)
    BY <1>3 DEF Falls
  <2>2. QED
    BY <2>1 DEF Accounts
<1>4. QED
  BY <1>1, <1>2, <1>3 DEF Accounts

(* A first segment and what follows it.                                    *)
LEMMA TailOfBoth ==
  ASSUME NEW segs, IsPlainPath(segs), segs # <<>>, NEW rest, IsPlainPath(rest)
  PROVE  /\ segs \o rest # <<>> /\ Head(segs \o rest) = Head(segs)
         /\ Tail(segs \o rest) = Tail(segs) \o rest
<1> DEFINE c == segs \o rest
           a == Tail(c)
           u == Tail(segs)
           b == u \o rest
<1>1. /\ segs \in Seq(Names) /\ rest \in Seq(Names) /\ Len(segs) \in Nat /\ Len(rest) \in Nat
      /\ c \in Seq(Names) /\ Len(c) = Len(segs) + Len(rest)
      /\ \A i \in 1 .. Len(c) : c[i] = IF i <= Len(segs) THEN segs[i] ELSE rest[i - Len(segs)]
  BY DEF IsPlainPath
<1>2. /\ u \in Seq(Names) /\ Len(u) \in Nat /\ Len(segs) = Len(u) + 1 /\ Head(segs) = segs[1]
      /\ \A i \in 1 .. Len(u) : segs[i + 1] = u[i]
  BY <1>1, TailIs
<1> HIDE DEF u
<1>3. /\ b \in Seq(Names) /\ Len(b) = Len(u) + Len(rest)
      /\ \A i \in 1 .. Len(b) : b[i] = IF i <= Len(u) THEN u[i] ELSE rest[i - Len(u)]
  BY <1>1, <1>2
<1> HIDE DEF c, b
<1>4. c # <<>>
  BY <1>1, <1>2
<1>5. /\ a \in Seq(Names) /\ Len(a) \in Nat /\ Len(c) = Len(a) + 1 /\ Head(c) = c[1]
      /\ \A i \in 1 .. Len(a) : c[i + 1] = a[i]
  BY <1>1, <1>4, TailIs
<1> HIDE DEF a
<1>6. Len(a) = Len(b)
  BY <1>1, <1>2, <1>3, <1>5
<1>7. \A i \in 1 .. Len(a) : a[i] = b[i]
  <2>1. TAKE i \in 1 .. Len(a)
  <2>2. i + 1 \in 1 .. Len(c) /\ (i + 1) - Len(segs) = i - Len(u) /\ i \in 1 .. Len(b)
        /\ (i <= Len(u) <=> i + 1 <= Len(segs))
    BY <1>1, <1>2, <1>5, <1>6
  <2>3. c[i + 1] = IF i <= Len(u) THEN segs[i + 1] ELSE rest[i - Len(u)]
    BY <1>1, <2>2
  <2>4. i <= Len(u) => segs[i + 1] = u[i]
    BY <1>2
  <2>5. QED
    BY <1>3, <1>5, <2>2, <2>3, <2>4
<1>8. a = b
  BY <1>3, <1>5, <1>6, <1>7, SameSequence
<1>9. Head(c) = Head(segs)
  <2>1. 1 \in 1 .. Len(c) /\ 1 <= Len(segs)
    BY <1>1, <1>2
  <2>2. QED
    BY <1>1, <1>2, <1>5, <2>1
<1>10. QED
  BY <1>4, <1>8, <1>9 DEF a, b, c, u

LEMMA AnswersDeeper ==
  ASSUME NEW home, NEW a, IsAnswering(a, home), NEW left \in 1 .. AliasDepth,
         NEW at \in Seq(Names), NEW segs \in Seq(Names)
  PROVE  /\ Deeper(a, left)[Resolving(at, segs, FALSE)] =
              Resolve(at, segs, FALSE, home, left - 1, Deeper(a, left - 1))
         /\ Deeper(a, left)[Continuing(at, segs)] =
              ContinueFrom(at, segs, home, left - 1, Deeper(a, left - 1))
<1>1. left - 1 \in 0 .. AliasDepth /\ left # 0
  <2>1. AliasDepth \in Nat
    BY ScanAssumption
  <2>2. QED
    BY <2>1
<1>2. Deeper(a, left) = a[left - 1]
  BY <1>1 DEF Deeper
<1>3. \A q \in Questions :
        a[left - 1][q] = Answer(q, home, left - 1, Deeper(a, left - 1))
  BY <1>1 DEF IsAnswering
<1> DEFINE q1 == Resolving(at, segs, FALSE)
           q2 == Continuing(at, segs)
           d == Deeper(a, left - 1)
<1>4. q1 \in Questions /\ q2 \in Questions
  BY QuestionsOf
<1>5. a[left - 1][q1] = Answer(q1, home, left - 1, d) /\ a[left - 1][q2] = Answer(q2, home, left - 1, d)
  BY <1>3, <1>4
<1> HIDE DEF d
<1>6. Answer(q1, home, left - 1, d) = Resolve(at, segs, FALSE, home, left - 1, d)
  BY DEF Answer, Resolving
<1>7. Answer(q2, home, left - 1, d) = ContinueFrom(at, segs, home, left - 1, d)
  BY DEF Answer, Continuing
<1>8. QED
  BY <1>2, <1>5, <1>6, <1>7 DEF d

LEMMA JoinIsAssociative ==
  ASSUME NEW p \in Seq(Names), NEW q \in Seq(Names), NEW u \in Seq(Names)
  PROVE  p \o (q \o u) = (p \o q) \o u
OBVIOUS

(* Later in a reading as many aliases are left, or more.                   *)
LEMMA StillLeft ==
  ASSUME NEW h \in Nat, NEW later \in Nat, later >= h + 1,
         NEW level \in Nat, NEW bound \in Nat, (h + 1) + level >= bound
  PROVE  later + level >= bound
OBVIOUS

LEMMA HopRuns ==
  ASSUME ScanInv, NEW home, NEW a, IsAnswering(a, home),
         NEW t, NEW K \in Nat, IsRun(t, K, home), NEW i \in Nat, i + 1 <= K - 1,
         \A j \in i + 1 .. K - 1 : Claim(t, K, j, home, a),
         NEW path, IsPlainPath(path), path # <<>>,
         NEW segs, IsPlainPath(segs), segs # <<>>, NEW rest, IsPlainPath(rest),
         t[i].left = segs \o rest,
         NEW left \in 1 .. AliasDepth, t[i].hops + left >= AliasDepth,
         Hops(t[i], t[i + 1], path), t[i].colon = FALSE, NEW deeper, deeper = Deeper(a, left),
         NEW w, w = IF t[i].first THEN LedFirst(t[i].at, path, Tail(segs), home, left, deeper)
                    ELSE LedLater(t[i].at, path, Tail(segs), deeper)
  PROVE  Accounts(t, K, i, rest, w)
<1> DEFINE r == t[i]
           s == t[i + 1]
           at == r.at
           more == Tail(segs)
           both == more \o rest
           target == deeper[Resolving(at, path, FALSE)]
           lower == left - 1
           last == t[K].to
           level == IF r.first THEN left ELSE lower
           from == ContinueFrom(target, more, home, level, Deeper(a, level))
<1>0. AliasDepth \in Nat /\ K \in Nat /\ lower \in 0 .. AliasDepth /\ lower \in Nat /\ left # 0
      /\ i \in 0 .. K - 1 /\ i + 1 \in 0 .. K - 1 /\ i + 1 \in i + 1 .. K - 1
  <2>1. AliasDepth \in Nat
    BY ScanAssumption
  <2>2. QED
    BY <2>1
<1>1. IsAt(r, home) /\ IsAt(s, home)
  BY <1>0 DEF IsRun
<1>2. /\ r.first \in BOOLEAN /\ r.hops \in Nat /\ r.marks \subseteq Nat
      /\ at \in DOMAIN modules /\ at \in Seq(Names) /\ at # <<>>
      /\ r.left # <<>>
  <2>1. at \in DOMAIN modules
    BY <1>1 DEF IsAt
  <2>2. at \in Seq(Names) /\ at # <<>>
    BY <2>1, ModulesArePaths DEF ScanInv
  <2>3. r.left # <<>>
    BY TailOfBoth
  <2>4. QED
    BY <1>1, <2>1, <2>2, <2>3 DEF IsAt
<1>3. /\ IsPlainPath(more) /\ more \in Seq(Names) /\ path \in Seq(Names) /\ IsPlainPath(both)
      /\ Tail(r.left) = both /\ Len(both) = Len(more) + Len(rest)
      /\ Len(more) \in Nat /\ Len(rest) \in Nat
  <2>1. IsPlainPath(more)
    BY TailIsPlain
  <2>2. IsPlainPath(both) /\ Len(both) = Len(more) + Len(rest) /\ Len(more) \in Nat /\ Len(rest) \in Nat
    BY <2>1, BothArePlain
  <2>3. Tail(r.left) = both
    BY TailOfBoth
  <2>4. QED
    BY <2>1, <2>2, <2>3 DEF IsPlainPath
<1>4. /\ s.at = at /\ s.left = path \o both /\ s.first = TRUE /\ s.colon = FALSE
      /\ s.back = (IF r.first THEN r.back ELSE at)
      /\ s.hops = r.hops + 1 /\ s.marks = r.marks \cup {Len(both)}
  BY <1>3 DEF Hops
<1>5. target = Led(s, path, home, lower, Deeper(a, lower))
  <2>1. target = Resolve(at, path, FALSE, home, lower, Deeper(a, lower))
    <3> HIDE DEF at
    <3>1. at \in Seq(Names) /\ path \in Seq(Names)
      BY <1>2, <1>3
    <3>2. Deeper(a, left)[Resolving(at, path, FALSE)] =
            Resolve(at, path, FALSE, home, left - 1, Deeper(a, left - 1))
      BY <3>1, AnswersDeeper
    <3>3. QED
      BY <3>2
  <2>2. QED
    BY <1>4, <2>1 DEF Led
<1>6. Accounts(t, K, i + 1, both, target)
  <2>1. Claim(t, K, i + 1, home, a)
    BY <1>0
  <2>2. s.hops + lower >= AliasDepth
    BY <1>0, <1>2, <1>4
  <2> HIDE DEF target, both, lower
  <2>3. QED
    BY <1>0, <1>3, <1>4, <1>5, <2>1, <2>2 DEF Claim
<1>7. /\ target = Nowhere => w = IF r.first THEN Nowhere ELSE at
      /\ target # Nowhere /\ target \in Seq(Names) => w = from
  <2>1. w = IF r.first THEN IF target = Nowhere THEN Nowhere
                            ELSE ContinueFrom(target, more, home, left, deeper)
            ELSE IF target = Nowhere THEN at ELSE deeper[Continuing(target, more)]
    BY DEF LedFirst, LedLater
  <2> HIDE DEF target, more, lower
  <2>2. target \in Seq(Names) =>
          deeper[Continuing(target, more)] = ContinueFrom(target, more, home, left - 1, Deeper(a, left - 1))
    <3>1. SUFFICES ASSUME target \in Seq(Names)
                   PROVE  Deeper(a, left)[Continuing(target, more)]
                            = ContinueFrom(target, more, home, left - 1, Deeper(a, left - 1))
      OBVIOUS
    <3>2. more \in Seq(Names)
      BY <1>3
    <3>3. QED
      BY <3>1, <3>2, AnswersDeeper
  <2>3. QED
    BY <1>2, <2>1, <2>2 DEF lower
<1>8. level \in 0 .. AliasDepth /\ level \in Nat /\ (r.hops + 1) + level >= AliasDepth
  <2> DEFINE n == r.hops
  <2>1. n \in Nat /\ n + left >= AliasDepth
    BY <1>2
  <2> HIDE DEF n
  <2>2. (n + 1) + left >= AliasDepth /\ (n + 1) + lower >= AliasDepth /\ left \in 0 .. AliasDepth
    BY <1>0, <2>1
  <2>3. level = left \/ level = lower
    OBVIOUS
  <2> HIDE DEF level, lower
  <2>4. level \in 0 .. AliasDepth /\ (n + 1) + level >= AliasDepth
    BY <1>0, <2>2, <2>3
  <2>5. QED
    BY <2>4 DEF n
<1> HIDE DEF target, from, level, lower, both, more
<1>9. CASE Arrives(t, K, i + 1, both, target)
  <2>1. PICK j \in i + 1 .. K - 1 :
               /\ t[j].first = FALSE /\ t[j].left = both /\ target = t[j].at
               /\ t[j].hops >= s.hops /\ s.marks \subseteq t[j].marks
    BY <1>9 DEF Arrives
  <2>2. j \in 0 .. K - 1 /\ j \in Nat /\ j >= i /\ j <= K - 1
    BY <1>0
  <2>3. IsAt(t[j], home)
    BY <2>2 DEF IsRun
  <2>4. target \in DOMAIN modules /\ t[j].hops \in Nat
    BY <2>1, <2>3 DEF IsAt
  <2>5. target \in Seq(Names) /\ target # Nowhere
    BY <2>4, ModulesArePaths DEF ScanInv, Nowhere
  <2>6. w = Led(t[j], more, home, level, Deeper(a, level))
    BY <1>7, <2>1, <2>4, <2>5 DEF from, ContinueFrom, Led
  <2>7. Accounts(t, K, j, rest, w)
    <3>1. Claim(t, K, j, home, a)
      BY <2>1
    <3>2. t[j].hops + level >= AliasDepth
      <4>1. t[j].hops \in Nat /\ t[j].hops >= r.hops + 1
        BY <1>4, <2>1, <2>4
      <4>2. QED
        BY <1>0, <1>2, <1>8, <4>1, StillLeft
    <3>3. t[j].left = more \o rest
      BY <2>1 DEF both
    <3>4. QED
      BY <1>3, <1>8, <2>1, <2>6, <3>1, <3>2, <3>3 DEF Claim
  <2>8. t[j].hops >= r.hops /\ r.marks \subseteq t[j].marks
    BY <1>2, <1>4, <2>1, <2>4
  <2>9. \A k \in j .. K - 1 : t[k].hops \in Nat
    <3>1. TAKE k \in j .. K - 1
    <3>2. k \in 0 .. K - 1
      BY <2>2
    <3>3. QED
      BY <3>2 DEF IsRun, IsAt
  <2>10. QED
    BY <1>2, <2>1, <2>2, <2>7, <2>8, <2>9, AccountsEarlier
<1>10. CASE Leaves(t, K, both, target)
  <2>1. /\ IsPlainPath(target) /\ target # <<>> /\ <<Head(target)>> \notin DOMAIN modules
        /\ last = target \o both
    BY <1>10 DEF Leaves
  <2>2. target \in Seq(Names) /\ target # Nowhere
    BY <2>1 DEF IsPlainPath, Nowhere
  <2>3. target \notin DOMAIN modules
    BY <2>1, ExternalIsNoModule
  <2>4. w = target \o more
    BY <1>7, <2>2, <2>3 DEF from, ContinueFrom
  <2>5. IsPlainPath(target \o more) /\ target \o more # <<>>
    BY <1>3, <2>1, BothArePlain
  <2>6. Head(target \o more) = Head(target)
    BY <1>3, <2>1, TailOfBoth
  <2>7. last = (target \o more) \o rest
    <3>1. rest \in Seq(Names)
      BY DEF IsPlainPath
    <3>2. target \o (more \o rest) = (target \o more) \o rest
      <4>1. more \in Seq(Names) /\ target \in Seq(Names)
        BY <1>3, <2>2
      <4>2. QED
        BY <3>1, <4>1, JoinIsAssociative
    <3>3. QED
      BY <2>1, <3>2 DEF both
  <2>8. Leaves(t, K, rest, w)
    BY <2>1, <2>4, <2>5, <2>6, <2>7 DEF Leaves
  <2>9. QED
    BY <2>8 DEF Accounts
<1>11. CASE Falls(t, K, i + 1, both, target)
  <2>1. PICK x \in Nat : x > Len(both) /\ \A n \in s.marks : n = 0 \/ n >= x
    BY <1>11 DEF Falls
  <2>2. Len(both) = 0
    <3> DEFINE n == Len(both)
    <3>1. n \in s.marks /\ n \in Nat /\ x > n
      BY <1>3, <1>4, <2>1
    <3> HIDE DEF n
    <3>2. n = 0 \/ n >= x
      BY <2>1, <3>1
    <3>3. n = 0
      BY <3>1, <3>2
    <3>4. QED
      BY <3>3 DEF n
  <2>3. Len(more) = 0 /\ Len(rest) = 0
    BY <1>3, <2>2
  <2>4. more = <<>> /\ rest = <<>> /\ both = <<>>
    BY <1>3, <2>2, <2>3 DEF IsPlainPath
  <2>5. \E y \in Nat : y > Len(rest) /\ \A n \in r.marks : n = 0 \/ n >= y
    <3>1. x > Len(rest) /\ \A n \in r.marks : n = 0 \/ n >= x
      BY <1>4, <2>1, <2>2, <2>3
    <3>2. QED
      BY <3>1
  <2>6. \/ target = last /\ target \in DOMAIN modules
        \/ target = Nowhere /\ last = s.back
    BY <1>11, <2>4 DEF Falls
  <2>7. \/ w = last /\ w \in DOMAIN modules
        \/ r.first = TRUE /\ w = Nowhere /\ last = r.back
    <3>1. CASE target = last /\ target \in DOMAIN modules
      <4>1. target \in Seq(Names) /\ target # Nowhere
        BY <3>1, ModulesArePaths DEF ScanInv, Nowhere
      <4>2. from = target
        BY <2>4, <3>1, WalkNowhere DEF from, ContinueFrom
      <4>3. QED
        BY <1>7, <3>1, <4>1, <4>2
    <3>2. CASE target = Nowhere /\ last = s.back
      BY <1>2, <1>4, <1>7, <3>2
    <3>3. QED
      BY <2>6, <3>1, <3>2
  <2>8. Falls(t, K, i, rest, w)
    BY <2>5, <2>7 DEF Falls
  <2>9. QED
    BY <2>8 DEF Accounts
<1>12. QED
  BY <1>6, <1>9, <1>10, <1>11 DEF Accounts

LEMMA StepsOfRun ==
  ASSUME NEW K \in Nat, NEW i \in 0 .. K - 1
  PROVE  /\ i \in Nat /\ i + 1 \in 1 .. K /\ (i + 1) - 1 = i /\ i \in i .. K - 1
         /\ i + 1 # K => i + 1 \in 0 .. K - 1 /\ i + 1 \in i + 1 .. K - 1 /\ i + 1 <= K - 1
OBVIOUS

LEMMA ClaimStep ==
  ASSUME ScanInv, AliasesInv, NEW home, NEW a, IsAnswering(a, home),
         NEW t, NEW K \in Nat, IsRun(t, K, home), NEW i \in 0 .. K - 1,
         \A j \in i + 1 .. K - 1 : Claim(t, K, j, home, a)
  PROVE  Claim(t, K, i, home, a)
<1> SUFFICES ASSUME NEW segs, NEW rest, NEW left \in 0 .. AliasDepth,
                    IsPlainPath(segs), IsPlainPath(rest), t[i].left = segs \o rest,
                    t[i].first = TRUE => segs # <<>>,
                    t[i].hops + left >= AliasDepth
             PROVE  Accounts(t, K, i, rest, Led(t[i], segs, home, left, Deeper(a, left)))
  BY DEF Claim
<1> DEFINE r == t[i]
           s == t[i + 1]
           deeper == Deeper(a, left)
           led == Led(r, segs, home, left, deeper)
           last == t[K].to
           more == Tail(segs)
<1>1. /\ AliasDepth \in Nat /\ left \in Nat /\ i \in Nat
      /\ i + 1 \in 1 .. K /\ (i + 1) - 1 = i /\ i \in i .. K - 1
      /\ i + 1 # K => i + 1 \in 0 .. K - 1 /\ i + 1 \in i + 1 .. K - 1 /\ i + 1 <= K - 1
  <2>1. AliasDepth \in Nat
    BY ScanAssumption
  <2>2. left \in Nat
    BY <2>1
  <2>3. QED
    BY <2>1, <2>2, StepsOfRun
<1>2. IsAt(r, home)
  BY DEF IsRun
<1>3. s = ReadOn(r, home)
  BY <1>1 DEF IsRun
<1>4. /\ r.first \in BOOLEAN /\ r.hops \in Nat /\ r.marks \subseteq Nat
      /\ r.at \in DOMAIN modules /\ r.at # Nowhere
      /\ rest \in Seq(Names) /\ segs \in Seq(Names) /\ Len(rest) \in Nat
  <2>1. r.at \in DOMAIN modules
    BY <1>2 DEF IsAt
  <2>2. r.at # Nowhere
    BY <2>1, ModulesArePaths DEF ScanInv, Nowhere
  <2>3. rest \in Seq(Names) /\ segs \in Seq(Names)
    BY DEF IsPlainPath
  <2>4. Len(rest) \in Nat
    BY <2>3
  <2>5. QED
    BY <1>2, <2>1, <2>2, <2>3, <2>4 DEF IsAt
<1>5. CASE segs = <<>>
  <2>1. r.first = FALSE
    BY <1>4, <1>5
  <2>2. r.left = rest
    BY <1>4, <1>5
  <2>3. led = r.at
    BY <1>5, <2>1, WalkNowhere DEF Led
  <2>4. Arrives(t, K, i, rest, led)
    BY <1>1, <1>4, <2>1, <2>2, <2>3 DEF Arrives
  <2>5. QED
    BY <2>4 DEF Accounts
<1>6. CASE segs # <<>>
  <2>1. /\ r.left # <<>> /\ Head(r.left) = Head(segs) /\ Tail(r.left) = more \o rest
    BY <1>6, TailOfBoth
  <2>2. IsPlainPath(more) /\ Len(more) \in Nat
    BY <1>6, TailIsPlain
  <2>3. Len(r.left) > Len(rest)
    <3>1. Len(segs) \in Nat /\ Len(segs) # 0 /\ Len(r.left) = Len(segs) + Len(rest)
      BY <1>4, <1>6, BothArePlain
    <3>2. QED
      BY <1>4, <3>1
  <2>4. Together(r, s, segs, home, left, deeper)
    <3> HIDE DEF r, s, deeper
    <3>1. r.hops + left >= AliasDepth
      BY DEF r
    <3>2. CASE r.first = TRUE
      BY <1>1, <1>2, <1>3, <1>4, <1>6, <2>1, <3>1, <3>2, TogetherFirst
    <3>3. CASE r.first = FALSE
      BY <1>1, <1>2, <1>3, <1>4, <1>6, <2>1, <3>1, <3>3, TogetherLater
    <3>4. QED
      BY <1>4, <3>2, <3>3
  <2>5. s.ended = TRUE => i + 1 = K
    <3>1. \A k \in 0 .. K - 1 : t[k].ended = FALSE
      BY DEF IsRun, IsAt
    <3>2. QED
      BY <1>1, <3>1
  <2>6. s.ended = FALSE => i + 1 # K
    BY DEF IsRun
  <2>7. ASSUME BothGo(r, s, segs, home, left, deeper)
        PROVE  Accounts(t, K, i, rest, led)
    <3>1. PICK at \in DOMAIN modules :
                 /\ Goes(r, s, at)
                 /\ led = Walk(at, more, home, left, deeper)
      BY <2>7 DEF BothGo
    <3>2. /\ s.ended = FALSE /\ s.at = at /\ s.left = more \o rest /\ s.first = FALSE
          /\ s.hops = r.hops /\ s.marks = r.marks
      BY <2>1, <3>1 DEF Goes
    <3>3. i + 1 # K
      BY <2>6, <3>2
    <3>4. Led(s, more, home, left, deeper) = led
      BY <3>1, <3>2 DEF Led
    <3>5. Claim(t, K, i + 1, home, a)
      BY <1>1, <3>3
    <3> HIDE DEF led, more
    <3>6. Accounts(t, K, i + 1, rest, led)
      BY <2>2, <3>2, <3>4, <3>5 DEF Claim
    <3>7. \A k \in i + 1 .. K - 1 : t[k].hops \in Nat
      <4>1. TAKE k \in i + 1 .. K - 1
      <4>2. k \in 0 .. K - 1
        BY <1>1
      <4>3. QED
        BY <4>2 DEF IsRun, IsAt
    <3>8. s.hops >= r.hops /\ r.marks \subseteq s.marks
      BY <1>4, <3>2
    <3>9. i + 1 >= i /\ i + 1 <= K - 1 /\ i + 1 \in Nat
      BY <1>1, <3>3
    <3>10. QED
      BY <1>1, <1>4, <3>2, <3>6, <3>7, <3>8, <3>9, AccountsEarlier
  <2>8. ASSUME BothHop(r, s, segs, home, left, deeper)
        PROVE  Accounts(t, K, i, rest, led)
    <3>1. PICK path :
            /\ IsPlainPath(path) /\ path # <<>>
            /\ modules[r.at].root = home /\ r.colon = FALSE
            /\ r.hops < AliasDepth /\ left > 0
            /\ Hops(r, s, path)
            /\ led = IF r.first THEN LedFirst(r.at, path, more, home, left, deeper)
                                ELSE LedLater(r.at, path, more, deeper)
      BY <2>8 DEF BothHop
    <3>2. i + 1 <= K - 1 /\ left \in 1 .. AliasDepth
      BY <1>1, <2>6, <3>1 DEF Hops
    <3> HIDE DEF led
    <3>3. QED
      BY <1>1, <1>6, <3>1, <3>2, HopRuns
  <2>9. ASSUME BothLeave(r, s, segs, home, left, deeper)
        PROVE  Accounts(t, K, i, rest, led)
    <3>1. /\ EndsAt(s, r.left)
          /\ led = <<Head(segs)>> \o Tail(segs)
          /\ <<Head(segs)>> \notin DOMAIN modules
      BY <2>9 DEF BothLeave
    <3>2. <<Head(segs)>> \o Tail(segs) = segs
      BY <1>4, <1>6
    <3>3. i + 1 = K /\ last = segs \o rest
      BY <2>5, <3>1 DEF EndsAt
    <3>4. Leaves(t, K, rest, led)
      BY <1>6, <3>1, <3>2, <3>3 DEF Leaves
    <3>5. QED
      BY <3>4 DEF Accounts
  <2>10. ASSUME BothStop(r, s, segs, home, left, deeper)
         PROVE  Accounts(t, K, i, rest, led)
    <3>1. /\ s.whole => AllRead(r)
          /\ EndsAt(s, IF r.first THEN r.back ELSE r.at)
          /\ led = IF r.first THEN Nowhere ELSE r.at
      BY <2>10 DEF BothStop
    <3>2. i + 1 = K /\ last = IF r.first THEN r.back ELSE r.at
      BY <2>5, <3>1 DEF EndsAt
    <3>3. AllRead(r)
      BY <3>1, <3>2 DEF IsRun
    <3>4. \E x \in Nat : x > Len(rest) /\ \A n \in r.marks : n = 0 \/ n >= x
      <4>1. Len(r.left) \in Nat /\ Len(r.left) > Len(rest)
        BY <2>3, <1>2 DEF IsAt, IsPlainPath
      <4>2. QED
        BY <3>3, <4>1 DEF AllRead
    <3>5. \/ led = last /\ led \in DOMAIN modules
          \/ r.first = TRUE /\ led = Nowhere /\ last = r.back
      BY <1>4, <3>1, <3>2
    <3>6. Falls(t, K, i, rest, led)
      BY <3>4, <3>5 DEF Falls
    <3>7. QED
      BY <3>6 DEF Accounts
  <2>11. ASSUME s.ended = TRUE, s.whole = FALSE
         PROVE  FALSE
    BY <2>5, <2>11 DEF IsRun
  <2>12. QED
    BY <2>4, <2>7, <2>8, <2>9, <2>10, <2>11 DEF Together
<1>7. QED
  BY <1>5, <1>6

LEMMA ClaimHolds ==
  ASSUME ScanInv, AliasesInv, NEW home, NEW a, IsAnswering(a, home),
         NEW t, NEW K \in Nat, K > 0, IsRun(t, K, home)
  PROVE  Claim(t, K, 0, home, a)
<1> DEFINE S == {d \in Nat : \A i \in 0 .. K - 1 : i >= K - 1 - d => Claim(t, K, i, home, a)}
<1>1. 0 \in S
  <2>1. SUFFICES ASSUME NEW i \in 0 .. K - 1, i >= K - 1
                 PROVE  Claim(t, K, i, home, a)
    OBVIOUS
  <2>2. \A j \in i + 1 .. K - 1 : Claim(t, K, j, home, a)
    BY <2>1
  <2>3. QED
    BY <2>2, ClaimStep
<1>2. ASSUME NEW d \in Nat, d \in S
      PROVE  d + 1 \in S
  <2>1. SUFFICES ASSUME NEW i \in 0 .. K - 1, i >= K - 1 - (d + 1)
                 PROVE  Claim(t, K, i, home, a)
    OBVIOUS
  <2>2. \A j \in i + 1 .. K - 1 : Claim(t, K, j, home, a)
    <3>1. TAKE j \in i + 1 .. K - 1
    <3>2. j \in 0 .. K - 1 /\ j >= K - 1 - d
      BY <2>1
    <3>3. QED
      BY <1>2, <3>2
  <2> HIDE DEF S
  <2>3. QED
    BY <2>2, ClaimStep
<1> HIDE DEF S
<1>3. K \in S
  BY <1>1, <1>2, SetInduction
<1>4. QED
  BY <1>3 DEF S

LEMMA RefIs ==
  ASSUME ScanInv, NEW ref \in refs
  PROVE  /\ ref.module \in DOMAIN modules /\ ref.module \in Seq(Names)
         /\ IsPlainPath(ref.path) /\ ref.path # <<>> /\ ref.colon \in BOOLEAN
<1>1. PICK i \in read : /\ i.kind # "include"
                        /\ ref = [module |-> i.module, path |-> ref.path, colon |-> i.colon,
                                  scope |-> TrueScope(i)]
  BY DEF ScanInv, RefsInv
<1>2. IsItem(i) /\ i.module \in DOMAIN modules
  BY ScanAssumption DEF ScanInv, ReadInv
<1>3. i.colon \in BOOLEAN
  BY <1>1, <1>2 DEF IsItem
<1>4. ref.module = i.module /\ ref.colon = i.colon
  BY <1>1
<1>5. IsWritten(ref.path)
  BY DEF ScanInv, RefsInv
<1>6. IsPlainPath(ref.path) /\ ref.path # <<>>
  BY <1>5 DEF IsWritten, IsPlainPath
<1>7. QED
  BY <1>2, <1>3, <1>4, <1>6, ModulesArePaths DEF ScanInv

(* A reading has ended, and is as the step that ended it left it, or it    *)
(* goes on.                                                                *)
HasEnded(t, k, home) ==
  \E K \in 0 .. k : /\ t[K].ended = TRUE /\ t[k] = t[K]
                    /\ \A j \in 0 .. K - 1 : IsAt(t[j], home)

SoFar(t, k, home) == HasEnded(t, k, home) \/ \A j \in 0 .. k : IsAt(t[j], home)

(* The steps of a reading up to the one that ended it.                     *)
LEMMA RunIs ==
  ASSUME ScanInv, AliasesInv, NEW ref \in refs, Named(ref).whole = TRUE
  PROVE  \E K \in Nat : \E t : /\ K > 0 /\ IsRun(t, K, HomeOf(ref))
                               /\ t[0] = Start(ref) /\ Named(ref).to = t[K].to
<1> DEFINE home == HomeOf(ref)
<1>1. /\ ref.module \in DOMAIN modules /\ ref.module \in Seq(Names)
      /\ IsPlainPath(ref.path) /\ ref.path # <<>> /\ ref.colon \in BOOLEAN
      /\ ref.path \in Seq(Names)
  BY RefIs DEF IsPlainPath
<1>2. PICK n, t : /\ n \in Nat
                  /\ t[0] = Start(ref)
                  /\ \A k \in 1 .. n : t[k] = NextReading(t[k - 1], home)
                  /\ Named(ref) = t[n]
  BY <1>1, NamedIs
<1>3. IsAt(t[0], home) /\ t[0].whole = FALSE
  <2> DEFINE r == Start(ref)
  <2>1. /\ HasFields(r) /\ r.at = ref.module /\ r.left = ref.path /\ r.first = TRUE
        /\ r.colon = ref.colon /\ r.back = Nowhere /\ r.hops = 0 /\ r.marks = {}
        /\ r.ended = FALSE /\ r.whole = FALSE
    BY DEF Start, HasFields
  <2> HIDE DEF r
  <2>2. AliasDepth \in Nat
    BY ScanAssumption
  <2>3. modules[r.at].root = home
    BY <2>1 DEF HomeOf
  <2> HIDE DEF home
  <2>4. IsAt(r, home)
    <3>1. r.hops \in Nat /\ r.hops <= AliasDepth /\ r.marks \subseteq Nat
      BY <2>1, <2>2
    <3>2. r.first \in BOOLEAN /\ r.colon \in BOOLEAN
      BY <1>1, <2>1
    <3>3. QED
      BY <1>1, <2>1, <2>3, <3>1, <3>2 DEF IsAt
  <2>5. QED
    BY <1>2, <2>1, <2>4 DEF r
<1>4. ASSUME NEW r, IsAt(r, home), NEW s, s = ReadOn(r, home)
      PROVE  IsAt(s, home) \/ s.ended = TRUE
  <2>1. CASE r.left = <<>>
    BY <1>4, <2>1, NothingLeft DEF EndsAt
  <2>2. CASE r.left # <<>>
    <3> DEFINE segs == r.left
               left == AliasDepth
               deeper == AliasDepth
    <3>1. segs \in Seq(Names) /\ r.first \in BOOLEAN /\ r.hops \in Nat
      BY <1>4 DEF IsAt, IsPlainPath
    <3>2. left \in Nat /\ r.hops + left >= AliasDepth
      <4>1. AliasDepth \in Nat
        BY ScanAssumption
      <4>2. QED
        BY <3>1, <4>1
    <3> HIDE DEF left, deeper, home
    <3>3. Together(r, s, segs, home, left, deeper)
      <4>1. CASE r.first = TRUE
        BY <1>4, <2>2, <3>1, <3>2, <4>1, TogetherFirst
      <4>2. CASE r.first = FALSE
        BY <1>4, <2>2, <3>1, <3>2, <4>2, TogetherLater
      <4>3. QED
        BY <3>1, <4>1, <4>2
    <3>4. BothGo(r, s, segs, home, left, deeper) => IsAt(s, home)
      BY <1>4, <2>2, GoesOn DEF BothGo
    <3>5. BothHop(r, s, segs, home, left, deeper) => IsAt(s, home)
      BY <1>4, <2>2, HopsOn DEF BothHop
    <3>6. BothLeave(r, s, segs, home, left, deeper) => s.ended = TRUE
      BY DEF BothLeave, EndsAt
    <3>7. BothStop(r, s, segs, home, left, deeper) => s.ended = TRUE
      BY DEF BothStop, EndsAt
    <3>8. QED
      BY <3>3, <3>4, <3>5, <3>6, <3>7 DEF Together
  <2>3. QED
    BY <2>1, <2>2
<1> HIDE DEF home
<1>5. \A k \in 1 .. n : /\ t[k - 1].ended = TRUE => t[k] = t[k - 1]
                        /\ t[k - 1].ended = FALSE => t[k] = ReadOn(t[k - 1], home)
  BY <1>2 DEF NextReading
<1> DEFINE S == {k \in Nat : k <= n => SoFar(t, k, home)}
<1>6. 0 \in S
  <2>1. \A j \in 0 .. 0 : IsAt(t[j], home)
    BY <1>3
  <2>2. SoFar(t, 0, home)
    BY <2>1 DEF SoFar
  <2>3. QED
    BY <2>2
<1>7. ASSUME NEW k \in Nat, k \in S
      PROVE  k + 1 \in S
  <2>1. SUFFICES ASSUME k + 1 <= n
                 PROVE  SoFar(t, k + 1, home)
    OBVIOUS
  <2>2. SoFar(t, k, home)
    BY <1>2, <1>7, <2>1
  <2> HIDE DEF S
  <2>3. k + 1 \in 1 .. n /\ (k + 1) - 1 = k
    BY <2>1
  <2>4. CASE HasEnded(t, k, home)
    <3>1. PICK K \in 0 .. k : /\ t[K].ended = TRUE /\ t[k] = t[K]
                              /\ \A j \in 0 .. K - 1 : IsAt(t[j], home)
      BY <2>4 DEF HasEnded
    <3>2. t[k + 1] = t[k]
      BY <1>5, <2>3, <3>1
    <3>3. K \in 0 .. k + 1
      OBVIOUS
    <3>4. QED
      BY <3>1, <3>2, <3>3 DEF HasEnded, SoFar
  <2>5. CASE \A j \in 0 .. k : IsAt(t[j], home)
    <3>1. k \in 0 .. k /\ k + 1 \in 0 .. k + 1 /\ \A j \in 0 .. k + 1 : j \in 0 .. k \/ j = k + 1
      OBVIOUS
    <3>2. IsAt(t[k], home)
      BY <2>5, <3>1
    <3>3. t[k].ended = FALSE
      BY <3>2 DEF IsAt
    <3>4. t[k + 1] = ReadOn(t[k], home)
      BY <1>5, <2>3, <3>3
    <3>5. IsAt(t[k + 1], home) \/ t[k + 1].ended = TRUE
      BY <1>4, <3>2, <3>4
    <3>6. CASE IsAt(t[k + 1], home)
      BY <2>5, <3>1, <3>6 DEF SoFar
    <3>7. CASE t[k + 1].ended = TRUE
      BY <2>3, <2>5, <3>1, <3>7 DEF SoFar, HasEnded
    <3>8. QED
      BY <3>5, <3>6, <3>7
  <2>6. QED
    BY <2>2, <2>4, <2>5 DEF SoFar
<1> HIDE DEF S
<1>8. SoFar(t, n, home)
  <2>1. n \in S
    BY <1>2, <1>6, <1>7, SetInduction
  <2>2. QED
    BY <2>1 DEF S
<1>9. HasEnded(t, n, home)
  <2>1. t[n].whole = TRUE
    BY <1>2
  <2>2. ~ IsAt(t[n], home)
    BY <2>1 DEF IsAt
  <2>3. n \in 0 .. n
    BY <1>2
  <2>4. QED
    BY <1>8, <2>2, <2>3 DEF SoFar
<1>10. PICK K \in 0 .. n : /\ t[K].ended = TRUE /\ t[n] = t[K]
                           /\ \A j \in 0 .. K - 1 : IsAt(t[j], home)
  BY <1>9 DEF HasEnded
<1>11. K > 0 /\ K \in Nat
  <2>1. t[0].ended = FALSE
    BY <1>3 DEF IsAt
  <2>2. QED
    BY <1>10, <2>1
<1>12. \A k \in 1 .. K : t[k] = ReadOn(t[k - 1], home)
  <2>1. TAKE k \in 1 .. K
  <2>2. k \in 1 .. n /\ k - 1 \in 0 .. K - 1
    BY <1>2, <1>11
  <2>3. t[k - 1].ended = FALSE
    BY <1>10, <2>2 DEF IsAt
  <2>4. QED
    BY <1>5, <2>2, <2>3
<1>13. IsRun(t, K, home)
  BY <1>2, <1>10, <1>12 DEF IsRun
<1>14. QED
  BY <1>2, <1>10, <1>11, <1>13 DEF home

LEMMA ResolvesIfScanned ==
  ASSUME ScanInv, AliasesInv
  PROVE  ResolvesToTheNamed
<1> SUFFICES ASSUME NEW ref \in refs, Named(ref).whole
             PROVE  Target(ref) = Named(ref).to
  BY DEF ResolvesToTheNamed
<1> DEFINE home == HomeOf(ref)
           path == ref.path
           none == <<>>
           q == Resolving(ref.module, path, ref.colon)
<1>1. /\ ref.module \in DOMAIN modules /\ ref.module \in Seq(Names)
      /\ IsPlainPath(path) /\ path # <<>> /\ ref.colon \in BOOLEAN
      /\ path \in Seq(Names)
  BY RefIs DEF IsPlainPath
<1>2. Named(ref).whole = TRUE
  OBVIOUS
<1>3. PICK K, t : /\ K \in Nat
                  /\ K > 0 /\ IsRun(t, K, home)
                  /\ t[0] = Start(ref) /\ Named(ref).to = t[K].to
  BY <1>2, RunIs
<1>4. PICK a : /\ \A left \in 0 .. AliasDepth, x \in Questions :
                    a[left][x] = Answer(x, home, left, IF left = 0 THEN <<>> ELSE a[left - 1])
               /\ Answers(home) = a[AliasDepth]
  BY AnswersIs
<1>5. IsAnswering(a, home)
  BY <1>4 DEF IsAnswering, Deeper
<1>6. AliasDepth \in Nat /\ AliasDepth \in 0 .. AliasDepth
  <2>1. AliasDepth \in Nat
    BY ScanAssumption
  <2>2. QED
    BY <2>1
<1>7. /\ t[0].at = ref.module /\ t[0].left = path /\ t[0].first = TRUE
      /\ t[0].colon = ref.colon /\ t[0].back = Nowhere /\ t[0].hops = 0
  BY <1>3 DEF Start
<1> DEFINE deeper == Deeper(a, AliasDepth)
           led == Led(t[0], path, home, AliasDepth, deeper)
           last == t[K].to
<1>8. Target(ref) = led
  <2>1. q \in Questions
    BY <1>1 DEF Resolving, Questions
  <2>2. Target(ref) = Answer(q, home, AliasDepth, deeper)
    BY <1>4, <1>5, <1>6, <2>1 DEF Target, IsAnswering
  <2> HIDE DEF deeper, home
  <2>3. Answer(q, home, AliasDepth, deeper)
          = Resolve(ref.module, path, ref.colon, home, AliasDepth, deeper)
    BY DEF Answer, Resolving
  <2>4. QED
    BY <1>7, <2>2, <2>3 DEF Led
<1>9. IsPlainPath(none) /\ none \in Seq(Names) /\ Len(none) = 0 /\ path \o none = path
  <2>1. none \in Seq(Names) /\ DOMAIN none = {} /\ Len(none) = 0
    OBVIOUS
  <2>2. path \o none = path
    BY <1>1
  <2>3. QED
    BY <2>1, <2>2 DEF IsPlainPath
<1> HIDE DEF none, home, deeper
<1>10. Accounts(t, K, 0, none, led)
  <2>1. Claim(t, K, 0, home, a)
    BY <1>3, <1>5, ClaimHolds
  <2>2. t[0].left = path \o none /\ t[0].hops + AliasDepth >= AliasDepth
    BY <1>6, <1>7, <1>9
  <2> HIDE DEF led
  <2>3. Accounts(t, K, 0, none, Led(t[0], path, home, AliasDepth, Deeper(a, AliasDepth)))
    BY <1>1, <1>6, <1>9, <2>1, <2>2 DEF Claim
  <2>4. QED
    BY <2>3 DEF led, deeper
<1> HIDE DEF led
<1>11. led = last
  <2>1. CASE Arrives(t, K, 0, none, led)
    <3>1. PICK j \in 0 .. K - 1 : t[j].left = none /\ led = t[j].at
      BY <2>1 DEF Arrives
    <3>2. IsAt(t[j], home)
      BY <1>3 DEF IsRun
    <3>3. j + 1 \in 1 .. K /\ (j + 1) - 1 = j
      BY <1>3
    <3>4. t[j + 1] = ReadOn(t[j], home)
      BY <1>3, <3>3 DEF IsRun
    <3>5. EndsAt(t[j + 1], t[j].at)
      BY <3>1, <3>2, <3>4, NothingLeft DEF none
    <3>6. j + 1 = K
      <4>1. \A k \in 0 .. K - 1 : t[k].ended = FALSE
        BY <1>3 DEF IsRun, IsAt
      <4>2. j + 1 \notin 0 .. K - 1
        BY <3>5, <4>1 DEF EndsAt
      <4>3. QED
        BY <1>3, <3>3, <4>2
    <3>7. QED
      BY <3>1, <3>5, <3>6 DEF EndsAt
  <2>2. CASE Leaves(t, K, none, led)
    <3>1. IsPlainPath(led) /\ last = led \o none
      BY <2>2 DEF Leaves
    <3>2. led \o none = led
      BY <3>1 DEF none, IsPlainPath
    <3>3. QED
      BY <3>1, <3>2
  <2>3. CASE Falls(t, K, 0, none, led)
    <3>1. \/ led = last
          \/ led = Nowhere /\ last = t[0].back
      BY <2>3 DEF Falls, none
    <3>2. QED
      BY <1>7, <3>1
  <2>4. QED
    BY <1>10, <2>1, <2>2, <2>3 DEF Accounts
<1>12. QED
  BY <1>3, <1>8, <1>11

(* What the scan has read, and every import of it in its module's table.   *)
LEMMA AliasesAtFirst == LintInit => AliasesInv
BY DEF LintInit, Init, AliasesInv

LEMMA AliasesInvHolds == LintSpec => []AliasesInv
<1>1. AliasesInv /\ LintInv /\ [LintNext]_lintVars => AliasesInv'
  <2>1. SUFFICES ASSUME AliasesInv, LintInv, [LintNext]_lintVars
                 PROVE  AliasesInv'
    OBVIOUS
  <2>2. [Next]_vars
    BY <2>1 DEF LintNext, lintVars, Lint, Scan, ScanFails
  <2>3. QED
    BY <2>1, <2>2, AliasesKept DEF LintInv
<1>2. QED
  BY <1>1, AliasesAtFirst, LintInvHolds, PTL DEF LintSpec

(* Whatever order modules, imports and paths are read in, every path       *)
(* resolves to the module or external path it names.                       *)
THEOREM PathsResolve == LintSpec => []ResolvesToTheNamed
<1>1. LintInv /\ AliasesInv => ResolvesToTheNamed
  BY ResolvesIfScanned DEF LintInv
<1>2. QED
  BY <1>1, LintInvHolds, AliasesInvHolds, PTL

-----------------------------------------------------------------------------
(* What a clean run is worth.                                              *)

(* An edge of the model that a rule of a clean file forbids: there is none.*)
LEMMA CleanForbidsNoEdge ==
  ASSUME LintInv, status = "clean", NEW rule \in rules, NEW e \in edges
  PROVE  ~ Forbids(rule, SpelledEdge(e))
<1> DEFINE s == SpelledEdge(e)
<1>1. rules \in RuleFiles /\ Violations(rules, Graph, Crates) = {}
  BY DEF LintInv, ReportInv
<1>2. IsPath(s.from) /\ IsPath(s.to) /\ s.to.segs # <<>> /\ s \in Graph
  BY SpelledEdgesArePaths DEF LintInv, Graph
<1> HIDE DEF s
<1>3. ~ (s.from # s.to /\ Breaks(rule, s, Crates))
  <2>1. SUFFICES ASSUME s.from # s.to, Breaks(rule, s, Crates)
                 PROVE  FALSE
    OBVIOUS
  <2>2. <<rule, s>> \in Violations(rules, Graph, Crates)
    BY <1>2, <2>1 DEF Violations
  <2>3. QED
    BY <1>1, <2>2
<1>4. ~ Forbids(rule, s)
  BY <1>1, <1>2, <1>3, BrokenIsForbidden
<1>5. QED
  BY <1>4 DEF s

LEMMA CleanIsKept ==
  ASSUME LintInv, ResolvesToTheNamed
  PROVE  CleanMeansKept
<1> SUFFICES ASSUME status = "clean", NEW rule \in rules
             PROVE  /\ Binds(rule)
                    /\ \A e \in Written : ~ Forbids(rule, e)
                    /\ \A d \in Manifest :
                         ~ Forbids(rule, [from |-> InCode(Spell(<<Packages[d.package]>>)),
                                          to |-> InCode(Spell(<<d.crate>>)),
                                          scope |-> IF d.dev THEN "test" ELSE "lib"])
  BY DEF CleanMeansKept
<1>1. finished /\ rules \in RuleFiles /\ Usable(rules)
  BY DEF LintInv, ReportInv
<1>2. Binds(rule)
  BY <1>1, UsableIsBinding DEF LintInv
<1>3. edges = IncludeEdges \cup ManifestEdges \cup PathEdges
  BY <1>1 DEF LintInv, ScanInv, EdgesInv
<1>4. ASSUME NEW d \in Manifest
      PROVE  ~ Forbids(rule, [from |-> InCode(Spell(<<Packages[d.package]>>)),
                              to |-> InCode(Spell(<<d.crate>>)),
                              scope |-> IF d.dev THEN "test" ELSE "lib"])
  <2> DEFINE e == [from |-> <<Packages[d.package]>>, to |-> <<d.crate>>, onDisk |-> FALSE,
                   scope |-> IF d.dev THEN "test" ELSE "lib", via |-> "manifest"]
  <2>1. e \in edges
    BY <1>3 DEF ManifestEdges
  <2>2. SpelledEdge(e) = [from |-> InCode(Spell(<<Packages[d.package]>>)),
                          to |-> InCode(Spell(<<d.crate>>)),
                          scope |-> IF d.dev THEN "test" ELSE "lib"]
    BY DEF SpelledEdge
  <2> HIDE DEF e
  <2>3. QED
    BY <2>1, <2>2, CleanForbidsNoEdge
<1>5. ASSUME NEW w \in Written
      PROVE  ~ Forbids(rule, w)
  <2>1. CASE \E r \in refs : /\ Named(r).whole /\ Named(r).to # Nowhere
                             /\ w = [from |-> InCode(Spell(r.module)),
                                     to |-> InCode(Spell(Named(r).to)), scope |-> r.scope]
    <3>1. PICK r \in refs : /\ Named(r).whole /\ Named(r).to # Nowhere
                            /\ w = [from |-> InCode(Spell(r.module)),
                                    to |-> InCode(Spell(Named(r).to)), scope |-> r.scope]
      BY <2>1
    <3>2. Target(r) = Named(r).to
      BY <1>1, <3>1 DEF ResolvesToTheNamed
    <3>3. CASE Target(r) = r.module
      <4>1. w.from = w.to
        BY <3>1, <3>2, <3>3
      <4>2. QED
        BY <4>1 DEF Forbids
    <3>4. CASE Target(r) # r.module
      <4> DEFINE e == [from |-> r.module, to |-> Target(r), onDisk |-> FALSE, scope |-> r.scope,
                       via |-> "path"]
      <4>1. e \in edges
        BY <1>3, <3>1, <3>2, <3>4 DEF PathEdges
      <4>2. SpelledEdge(e) = w
        BY <3>1, <3>2 DEF SpelledEdge
      <4> HIDE DEF e
      <4>3. QED
        BY <4>1, <4>2, CleanForbidsNoEdge
    <3>5. QED
      BY <3>3, <3>4
  <2>2. CASE \E i \in read : /\ i.kind = "include"
                             /\ i.gate = "inside" => InTests(i)
                             /\ w = [from |-> InCode(Spell(i.module)), to |-> OnDisk(Spell(i.file)),
                                     scope |-> TrueScope(i)]
    <3>1. PICK i \in read : /\ i.kind = "include"
                            /\ i.gate = "inside" => InTests(i)
                            /\ w = [from |-> InCode(Spell(i.module)), to |-> OnDisk(Spell(i.file)),
                                    scope |-> TrueScope(i)]
      BY <2>2
    <3> DEFINE e == [from |-> i.module, to |-> i.file, onDisk |-> TRUE,
                     scope |-> IncludeScope(i), via |-> "include"]
    <3>2. e \in edges
      BY <1>3, <3>1 DEF IncludeEdges
    <3>3. IncludeScope(i) = TrueScope(i)
      <4>1. IsItem(i)
        BY ScanAssumption DEF LintInv, ScanInv, ReadInv
      <4>2. i.gate \in {"none", "item", "inside"}
        BY <4>1 DEF IsItem
      <4>3. QED
        BY <3>1, <4>2 DEF IncludeScope, TrueScope, IsTestCode
    <3>4. SpelledEdge(e) = w
      BY <3>1, <3>3 DEF SpelledEdge
    <3> HIDE DEF e
    <3>5. QED
      BY <3>2, <3>4, CleanForbidsNoEdge
  <2>3. refs = WrittenRefs
    BY DEF LintInv, ScanInv, RefsInv
  <2>4. QED
    BY <2>1, <2>2, <2>3 DEF Written
<1>6. QED
  BY <1>2, <1>4, <1>5

(* Exit status 0 leaves no reference a rule forbids, of those whose reading *)
(* is sure, and no rule that constrains nothing.                           *)
THEOREM CleanIsWorthIt == LintSpec => []CleanMeansKept
<1>1. LintInv /\ ResolvesToTheNamed => CleanMeansKept
  BY CleanIsKept
<1>2. QED
  BY <1>1, LintInvHolds, PathsResolve, PTL

=============================================================================
