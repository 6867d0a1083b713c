----------------------------- MODULE ArchMatch ------------------------------
(***************************************************************************)
(* The pattern language of archlint's rules file                           *)
(* (src/tools/archlint/src/rules.rs): a pattern is a path whose segments   *)
(* may hold the wildcard * (any run of characters of one segment), and     *)
(* whose segment ** stands for any run of segments.                        *)
(*                                                                         *)
(* A segment is a sequence of letters and a path a sequence of segments;   *)
(* `onDisk` says whether a path or a pattern carries the prefix `path:`.   *)
(* The scanner behind this operator splits on a separator and drops empty  *)
(* segments, so no segment is empty.                                       *)
(*                                                                         *)
(* The recursive answer is compared with the language the pattern denotes, *)
(* defined below without recursion.                                        *)
(***************************************************************************)
EXTENDS Naturals, Sequences, SequencesExt

CONSTANT Letters    \* what segments are made of, the wildcard aside

Star == "*"

ASSUME LettersAssumption == Star \notin Letters

DoubleStar == <<Star, Star>>

InCode(segs) == [onDisk |-> FALSE, segs |-> segs]
OnDisk(segs) == [onDisk |-> TRUE, segs |-> segs]

(* What the scanner makes of names, and what a rules file may hold.        *)
IsPath(p) == p \in [onDisk : BOOLEAN, segs : Seq(Seq(Letters))]
IsPattern(p) == p \in [onDisk : BOOLEAN, segs : Seq(Seq(Letters \cup {Star}))]

(* What lies at or under a path.                                           *)
Under(p) == [p EXCEPT !.segs = Append(@, DoubleStar)]

-----------------------------------------------------------------------------
(* segment_match: a literal letter takes itself, * any run of letters.     *)
(* at[k] are the places from which on the segment matches the pattern from *)
(* its k-th letter on.                                                     *)
SegmentMatch(p, seg) ==
    LET at[k \in 1 .. Len(p) + 1] ==
          IF k > Len(p)
          THEN {Len(seg) + 1}
          ELSE LET rest == at[k + 1]
               IN {i \in 1 .. Len(seg) + 1 :
                     IF p[k] = Star
                     THEN \E j \in rest : i <= j
                     ELSE i <= Len(seg) /\ p[k] = seg[i] /\ i + 1 \in rest}
    IN 1 \in at[1]

(* A bug: ** takes at least one segment.                                   *)
Mutant_OneOrMore(p, q) ==
    LET at[k \in 1 .. Len(p) + 1] ==
          IF k > Len(p)
          THEN {Len(q) + 1}
          ELSE LET rest == at[k + 1]
               IN {i \in 1 .. Len(q) + 1 :
                     IF p[k] = DoubleStar
                     THEN \E j \in rest : i < j
                     ELSE i <= Len(q) /\ SegmentMatch(p[k], q[i]) /\ i + 1 \in rest}
    IN 1 \in at[1]

(* segments_match: ** takes any run of segments, any other exactly one.    *)
SegmentsMatch(p, q) ==
    LET at[k \in 1 .. Len(p) + 1] ==
          IF k > Len(p)
          THEN {Len(q) + 1}
          ELSE LET rest == at[k + 1]
               IN {i \in 1 .. Len(q) + 1 :
                     IF p[k] = DoubleStar
                     THEN \E j \in rest : i <= j
                     ELSE i <= Len(q) /\ SegmentMatch(p[k], q[i]) /\ i + 1 \in rest}
    IN 1 \in at[1]

Matches(p, q) ==
    /\ p.onDisk = q.onDisk
    /\ SegmentsMatch(p.segs, q.segs)

----------------------------------------------------------------------------

(* The language of a pattern, said without recursion: cut the path into    *)
(* consecutive runs, one for each element of the pattern; a wildcard       *)
(* element may have any run, another has the one-element run it accepts.   *)

Denotes(p, q, IsWild(_), Accepts(_, _)) ==
    \E cut \in [1 .. Len(p) + 1 -> 0 .. Len(q)] :
        /\ cut[1] = 0
        /\ cut[Len(p) + 1] = Len(q)
        /\ \A i \in DOMAIN p :
              IF IsWild(p[i])
              THEN cut[i] <= cut[i + 1]
              ELSE /\ cut[i + 1] = cut[i] + 1
                   /\ Accepts(p[i], q[cut[i + 1]])

SegmentDenotes(p, seg) ==
    Denotes(p, seg, LAMBDA c : c = Star, LAMBDA c, d : c = d)

PathDenotes(p, q) ==
    /\ p.onDisk = q.onDisk
    /\ Denotes(p.segs, q.segs, LAMBDA s : s = DoubleStar, SegmentDenotes)

=============================================================================
