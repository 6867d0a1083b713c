------------------------------- MODULE Errors -------------------------------
(***************************************************************************)
(* The errors of the router (crates/router/src/error.rs): a reason key, a  *)
(* chain of causes, the gRPC status the error travels with and, for a      *)
(* typed refusal, the refusal object.                                      *)
(*                                                                         *)
(* Of an error's arguments only the flattened causes (cause, cause.cause,  *)
(* ...) are kept, as the sequence of their keys: every other argument is   *)
(* wording.  A refusal object is opaque.                                   *)
(***************************************************************************)
EXTENDS Sequences

CONSTANTS
  None,             \* the absent value (Rust's Option::None)
  Keys,             \* the keys business code makes its own errors under
  Refusals          \* the typed refusal objects

(* The router's own keys (AngzarrReason), and the one it answers a panic's *)
(* cause with.                                                             *)
Reasons ==
  {"ANY_DECODE_FAILED", "COMMAND_REFUSED", "DUPLICATE_COMPONENT",
   "FOLD_FAILED", "FOLD_FAILED_EMITTED", "HANDLER_PANICKED",
   "NO_COMPONENT_OF_KIND", "NO_FACT_HANDLER", "NO_HANDLERS_REGISTERED",
   "NO_REFUSAL_HANDLER", "PERSISTED_EVENT_CORRUPT",
   "UNHANDLED_HANDLER_ERROR", "UNKNOWN_COMMAND_TYPE"}

(* The statuses a typed refusal may travel under, and only those.          *)
BusinessStatuses ==
  {"FAILED_PRECONDITION", "INVALID_ARGUMENT", "NOT_FOUND",
   "ALREADY_EXISTS", "OUT_OF_RANGE", "PERMISSION_DENIED"}

(* The statuses of a bug its handler marks retryable.                      *)
RetryableStatuses == {"UNAVAILABLE", "DEADLINE_EXCEEDED", "RESOURCE_EXHAUSTED"}

GrpcCodes ==
  BusinessStatuses \cup RetryableStatuses
    \cup {"UNKNOWN", "ABORTED", "UNIMPLEMENTED", "INTERNAL", "DATA_LOSS"}

CodedErrors ==
  [code : Reasons \cup Keys, cause : Seq(Reasons \cup Keys), grpc : GrpcCodes,
   refusal : Refusals \cup {None}]

ASSUME ErrorsAssumption == None \notin CodedErrors \cup Refusals

(* The status the option of a router's own key declares (INTERNAL when it  *)
(* declares none).                                                         *)
Surface(reason) ==
  IF reason = "PERSISTED_EVENT_CORRUPT" THEN "DATA_LOSS"
  ELSE IF reason = "NO_COMPONENT_OF_KIND" THEN "UNIMPLEMENTED"
  ELSE "INTERNAL"

Coded(code, cause, grpc) ==
  [code |-> code, cause |-> cause, grpc |-> grpc, refusal |-> None]

(* The router's own key, under the status it declares.                     *)
Keyed(reason, cause) == Coded(reason, cause, Surface(reason))

(* A defect: never a business answer, the domain's own key its cause.      *)
Bug(code, cause) == Keyed("UNHANDLED_HANDLER_ERROR", <<code>> \o cause)

(* A defect its handler marks retryable, under the status it picks.        *)
RetryableBug(status, code) ==
  Coded("UNHANDLED_HANDLER_ERROR", <<code>>, status)

(* "Re-read and re-decide": a command's only.                              *)
Immediate(code) == Coded(code, <<>>, "ABORTED")

(* A typed refusal, under the business status its message declares.        *)
Refused(status, refusal) ==
  [code |-> "COMMAND_REFUSED", cause |-> <<>>, grpc |-> status,
   refusal |-> refusal]

Unhandled == Keyed("UNHANDLED_HANDLER_ERROR", <<>>)

Panicked == Bug("HANDLER_PANICKED", <<>>)

UnknownType(reason) == Keyed(reason, <<>>)

PersistedCorrupt == Keyed("PERSISTED_EVENT_CORRUPT", <<>>)

(* A fold that failed, under the key of where its pages came from.         *)
FoldFailed(reason, cause) == Keyed(reason, cause)

(* A bug: a fact may ask for a re-run.                                     *)
Mutant_FactMayRerun(e) ==
  IF e.grpc \in BusinessStatuses \/ e.refusal # None THEN Bug(e.code, e.cause)
  ELSE e

(* How a fact's handling answers an error: it never refuses and never asks *)
(* for a re-run, so such an error becomes the bug it is.                   *)
AsFactFailure(e) ==
  IF \/ e.grpc = "ABORTED"
     \/ e.grpc \in BusinessStatuses
     \/ e.refusal # None
  THEN Bug(e.code, e.cause)
  ELSE e

(* A bug: a refusal object makes any error a refusal.                      *)
Mutant_RefusalOfAnyStatus(e) ==
  IF e.refusal # None THEN [status |-> e.grpc, typed |-> e.refusal] ELSE None

(* A typed refusal as Translate receives it, under the business status it  *)
(* travelled as; None of any other error.                                  *)
AsRefusal(e) ==
  IF e.refusal # None /\ e.grpc \in BusinessStatuses
  THEN [status |-> e.grpc, typed |-> e.refusal]
  ELSE None

(* What a failing business call came to: an error it returned, an          *)
(* unclassified one, or a panic.                                           *)
FailureKinds ==
  [kind : {"coded"}, error : CodedErrors] \cup
  [kind : {"other", "panic"}, error : {None}]

(* The one mapping of what a business call came to: a coded error passes   *)
(* through, an unclassified one is a bug with no cause, and a panic is     *)
(* caught and answered as a bug.  [kind, error]: error is the coded error. *)
CallHandler(outcome) ==
  CASE outcome.kind = "coded"   -> outcome.error
    [] outcome.kind = "other"   -> Unhandled
    [] outcome.kind = "panic"   -> Panicked

=============================================================================
