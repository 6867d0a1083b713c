----------------------------- MODULE Projector ------------------------------
(***************************************************************************)
(* ProjectorService.Project (crates/router/src/projector.rs): a fresh      *)
(* projection, every page of one stream's run folded into it when the      *)
(* projector consumes the run's domain, and the finish step's answer.      *)
(*                                                                         *)
(* The projection is Rebuild's state, folded by its rules: Applied is the  *)
(* events with a fold, Batched whether one batched fold replaces them.     *)
(***************************************************************************)
EXTENDS Rebuild

CONSTANTS
  Dispatches,       \* the dispatches in flight
  Domains,          \* the domains consumed, or None for every one
  Finishes,         \* whether a finish step is registered
  Failures,         \* the ways the finish step may fail
  Runs              \* the runs a host may send

ASSUME ProjectorAssumption ==
  /\ Finishes \in BOOLEAN
  /\ Failures \subseteq FailureKinds
  /\ \A r \in Runs : r.pages \in Seq(Elements(r.pages))

VARIABLES
  pc,               \* where each dispatch is
  run,              \* the run it projects
  projection,       \* what its projection has come to, and how it failed
  folded,           \* the pages folded or skipped so far
  answer            \* [error, projection]

vars == <<pc, run, projection, folded, answer>>

-----------------------------------------------------------------------------

(* A run with no cover is read as one with an empty cover.                 *)
CoverOf(r) == IF r.cover = None THEN [domain |-> "", root |-> None] ELSE r.cover

Consumes(r) == Domains = None \/ CoverOf(r).domain \in Domains

Goto(d, place) == pc' = [pc EXCEPT ![d] = place]

Init ==
  /\ pc = [d \in Dispatches |-> "idle"]
  /\ run = [d \in Dispatches |-> None]
  /\ projection = [d \in Dispatches |-> Ok(Fresh)]
  /\ folded = [d \in Dispatches |-> 0]
  /\ answer = [d \in Dispatches |-> None]

Project(d, r) ==
  /\ pc[d] = "idle"
  /\ run' = [run EXCEPT ![d] = r]
  /\ Goto(d, "start")
  /\ UNCHANGED <<projection, folded, answer>>

(* A projection of its own; a domain not consumed folds nothing.           *)
Start(d) ==
  /\ pc[d] = "start"
  /\ projection' = [projection EXCEPT ![d] = Ok(Fresh)]
  /\ folded' = [folded EXCEPT ![d] = 0]
  /\ Goto(d, IF Consumes(run[d]) THEN "fold" ELSE "finish")
  /\ UNCHANGED <<run, answer>>

(* What is still to fold: the batched fold is handed the rest at once.     *)
Batch(d) ==
  LET pages == run[d].pages
  IN  IF Batched THEN SubSeq(pages, folded[d] + 1, Len(pages))
      ELSE <<pages[folded[d] + 1]>>

(* A bug: the error is dropped.                                            *)
Mutant_AnswerErrorLost(d, e) ==
  /\ answer' = [answer EXCEPT ![d] = None]
  /\ Goto(d, "idle")

AnswerError(d, e) ==
  /\ answer' = [answer EXCEPT ![d] = [error |-> e, projection |-> None]]
  /\ Goto(d, "answered")

(* A bug: a page that fails to fold is skipped.                            *)
Mutant_FoldSkips(d) ==
  /\ pc[d] = "fold" /\ folded[d] < Len(run[d].pages)
  /\ LET now == ApplyPages(projection[d], Batch(d), CoverOf(run[d]), "persisted")
     IN  projection' = [projection EXCEPT
           ![d] = IF now.error = None THEN now ELSE @]
  /\ folded' = [folded EXCEPT ![d] = @ + Len(Batch(d))]
  /\ UNCHANGED <<pc, run, answer>>

Fold(d) ==
  /\ pc[d] = "fold" /\ folded[d] < Len(run[d].pages)
  /\ LET now == ApplyPages(projection[d], Batch(d), CoverOf(run[d]), "persisted")
     IN  IF now.error # None
         THEN AnswerError(d, now.error) /\ UNCHANGED <<projection, folded>>
         ELSE /\ projection' = [projection EXCEPT ![d] = now]
              /\ folded' = [folded EXCEPT ![d] = @ + Len(Batch(d))]
              /\ UNCHANGED <<pc, answer>>
  /\ UNCHANGED run

FoldedAll(d) ==
  /\ pc[d] = "fold" /\ folded[d] = Len(run[d].pages)
  /\ Goto(d, "finish")
  /\ UNCHANGED <<run, projection, folded, answer>>

(* The finish step packs the projection; without one none is answered.     *)
Finish(d) ==
  /\ pc[d] = "finish"
  /\ answer' = [answer EXCEPT ![d] =
       [error |-> None,
        projection |-> IF Finishes THEN Encoded(projection[d].state) ELSE None]]
  /\ Goto(d, "answered")
  /\ UNCHANGED <<run, projection, folded>>

FinishFails(d, failure) ==
  /\ pc[d] = "finish" /\ Finishes
  /\ AnswerError(d, CallHandler(failure))
  /\ UNCHANGED <<run, projection, folded>>

(* A panic nothing catches: the projection factory's, and the batched      *)
(* fold's.                                                                 *)
Unwind(d) ==
  /\ \/ pc[d] = "start"
     \/ pc[d] = "fold" /\ Batched /\ folded[d] < Len(run[d].pages)
  /\ Goto(d, "unwound")
  /\ UNCHANGED <<run, projection, folded, answer>>

Return(d) ==
  /\ pc[d] \in {"answered", "unwound"}
  /\ Goto(d, "idle")
  /\ run' = [run EXCEPT ![d] = None]
  /\ projection' = [projection EXCEPT ![d] = Ok(Fresh)]
  /\ folded' = [folded EXCEPT ![d] = 0]
  /\ answer' = [answer EXCEPT ![d] = None]

Step(d) ==
  \/ Start(d) \/ Fold(d) \/ FoldedAll(d) \/ Finish(d)
  \/ \E failure \in Failures : FinishFails(d, failure)

Next ==
  \E d \in Dispatches :
    (\E r \in Runs : Project(d, r)) \/ Step(d) \/ Unwind(d) \/ Return(d)

Fairness == \A d \in Dispatches : WF_vars(Step(d))

Spec == Init /\ [][Next]_vars /\ Fairness

-----------------------------------------------------------------------------
(* Properties.                                                             *)

(* What a run comes to: all of it, in order, from a fresh projection, or   *)
(* nothing of it.                                                          *)
Projected(r) ==
  IF Consumes(r) THEN ApplyPages(Ok(Fresh), r.pages, CoverOf(r), "persisted")
  ELSE Ok(Fresh)

(* An answer is of the whole run and nothing but the run, whatever was     *)
(* dispatched before or beside it (a run sent again answers the same): a   *)
(* page that fails to fold fails it, before the finish step runs, and a    *)
(* finished projection is the run's.                                       *)
AnswersTheWholeRun ==
  \A d \in Dispatches :
    /\ pc[d] = "finish" => projection[d] = Projected(run[d])
    /\ pc[d] = "answered" /\ Projected(run[d]).error # None =>
         answer[d].error = Projected(run[d]).error
    /\ pc[d] = "answered" /\ answer[d].error = None =>
         answer[d].projection =
           IF Finishes THEN Encoded(Projected(run[d]).state) ELSE None

(* Every run is answered, or its panic unwinds.                            *)
EveryRunEnds ==
  \A d \in Dispatches :
    pc[d] = "start" ~> pc[d] \in {"answered", "unwound"}

(* A fold that panics is answered as a failing fold, in the projector as   *)
(* in the rebuild (docs/architecture.md, Projector and Errors).            *)
FoldPanicIsAnswered ==
  [][\A d \in Dispatches : pc[d] = "fold" => pc'[d] # "unwound"]_vars

=============================================================================
