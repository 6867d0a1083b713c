------------------------------- MODULE Stream -------------------------------
(***************************************************************************)
(* One stream: router dispatches (Handle) racing for it, and the           *)
(* coordinator's store they are loaded from and appended to.               *)
(*                                                                         *)
(* The coordinator is another repository's.  It is modelled from what the  *)
(* router's code relies on: it hands each dispatch the stream's history, a *)
(* snapshot of an earlier answer's state in place of the pages it covers;  *)
(* appends an answer's events at the head that history stated, or else     *)
(* drops the answer and runs the input again; and admits no input whose id *)
(* (its events' causation, EventMeta) is on the log.  Inputs are delivered *)
(* at least once, answers and snapshot writes may be lost, snapshots may   *)
(* be written out of order, and everything in memory is lost in a crash.   *)
(***************************************************************************)
EXTENDS Handle

CONSTANTS
  Inputs,           \* the inputs the stream is sent: [arm, type, id]
  Cover,            \* the stream's cover
  MaxFaults         \* BOUND: the crashes and the answers lost

ASSUME StreamAssumption ==
  /\ MaxFaults \in Nat
  /\ \A input \in Inputs : input.arm \in {"command", "fact"}

VARIABLES
  log,              \* the stream's pages
  snapshot,         \* the snapshot the next load may start from
  writing,          \* the snapshots being written
  settled,          \* the inputs whose sender has been answered
  faults            \* the crashes and lost answers so far

store == <<log, snapshot, writing, settled, faults>>

streamVars == <<vars, store>>

-----------------------------------------------------------------------------
(* Loading.                                                                *)

Admitted(input) == ~ \E k \in 1 .. Len(log) : log[k].meta.id = input.id

Book(start, pages) ==
  [cover |-> Cover, snapshot |-> start, pages |-> pages, next |-> Len(log)]

(* All of the log (no book at all, of an empty one), or a snapshot and the *)
(* pages it does not cover.                                                *)
Loads ==
  {IF log = <<>> THEN None ELSE Book(None, log)}
    \cup {Book([state |-> s.state], SubSeq(log, s.upto + 1, Len(log))) :
             s \in {snapshot} \ {None}}

Load(d, input) ==
  /\ input \notin settled /\ Admitted(input)
  /\ \E history \in Loads :
       Deliver(d, [arm |-> input.arm, type |-> input.type, id |-> input.id,
                   cover |-> Cover, history |-> history])
  /\ UNCHANGED store

(* An input already decided, sent again: its sender is answered.           *)
Duplicate(input) ==
  /\ input \notin settled /\ ~ Admitted(input)
  /\ settled' = settled \cup {input}
  /\ UNCHANGED <<vars, log, snapshot, writing, faults>>

Run(d) == Step(d) /\ UNCHANGED store

Panic(d) == Unwind(d) /\ UNCHANGED store

-----------------------------------------------------------------------------
(* What becomes of an answer.                                              *)

Fault == faults < MaxFaults /\ faults' = faults + 1

InputOf(r) == [arm |-> r.arm, type |-> r.type, id |-> r.id]

Ended(d) == pc[d] \in {"answered", "unwound"}

Decided(d) == pc[d] = "answered" /\ answer[d].error = None

(* A bug: an answer is appended whatever the head is by now.               *)
Mutant_AnyHead(d) == TRUE

(* The head is still the one the decision was made at.                     *)
AtHead(d) == NextSequence(req[d].history) = Len(log)

(* A bug: no sender is ever answered.                                      *)
Mutant_NeverSettle(d) == UNCHANGED <<settled, faults>>

(* The sender is answered, or its answer is lost and it sends again.       *)
Settle(d) ==
  \/ settled' = settled \cup {InputOf(req[d])} /\ UNCHANGED faults
  \/ Fault /\ UNCHANGED settled

(* The state answered covers every event before it and its own.            *)
SnapshotOf(d) ==
  [upto |-> NextSequence(req[d].history) + Len(answer[d].events),
   state |-> answer[d].state]

(* The snapshots an answer may leave: none without a state, and none of an *)
(* empty stream.                                                           *)
Snapshots(d) == {s \in {SnapshotOf(d)} : s.state # None /\ s.upto > 0}

(* The coordinator decides whether a snapshot is worth writing.            *)
Record(d) ==
  /\ Decided(d) /\ AtHead(d)
  /\ log' = log \o Stamped(req[d], answer[d].events)
  /\ writing' \in {writing, writing \cup Snapshots(d)}
  /\ Settle(d)
  /\ Forget(d)
  /\ UNCHANGED snapshot

(* A lost race: the input is run again, on the new head.                   *)
LoseRace(d) ==
  /\ Decided(d) /\ ~ AtHead(d)
  /\ Forget(d)
  /\ UNCHANGED store

(* An error, or a panic that unwound, is told to the sender.               *)
Fail(d) ==
  /\ Ended(d) /\ ~ Decided(d)
  /\ Settle(d)
  /\ Forget(d)
  /\ UNCHANGED <<log, snapshot, writing>>

WriteSnapshot ==
  /\ \E s \in writing : snapshot' = s /\ writing' = writing \ {s}
  /\ UNCHANGED <<vars, log, settled, faults>>

Crash ==
  /\ Fault
  /\ pc' = [d \in Dispatches |-> "idle"]
  /\ req' = [d \in Dispatches |-> None]
  /\ state' = [d \in Dispatches |-> Fresh]
  /\ emit' = [d \in Dispatches |-> <<>>]
  /\ pending' = [d \in Dispatches |-> <<>>]
  /\ answered' = [d \in Dispatches |-> <<>>]
  /\ ran' = [d \in Dispatches |-> <<>>]
  /\ answer' = [d \in Dispatches |-> None]
  /\ writing' = {}
  /\ UNCHANGED <<log, snapshot, settled>>

-----------------------------------------------------------------------------

StreamInit ==
  /\ Init
  /\ log = <<>> /\ snapshot = None /\ writing = {}
  /\ settled = {} /\ faults = 0

End(d) == Record(d) \/ LoseRace(d) \/ Fail(d)

Send(input) == Duplicate(input) \/ \E d \in Dispatches : Load(d, input)

StreamNext ==
  \/ \E input \in Inputs : Send(input)
  \/ \E d \in Dispatches : Run(d) \/ Panic(d) \/ End(d)
  \/ WriteSnapshot
  \/ Crash

(* The host runs what it has begun, the coordinator settles every answer,  *)
(* and a sender sends its input until it is answered.  Snapshots are       *)
(* written when the coordinator sees fit, if at all.                       *)
StreamFairness ==
  /\ \A d \in Dispatches : WF_streamVars(Run(d)) /\ WF_streamVars(End(d))
  /\ \A input \in Inputs : WF_streamVars(Send(input))

StreamSpec == StreamInit /\ [][StreamNext]_streamVars /\ StreamFairness

-----------------------------------------------------------------------------
(* Properties.                                                             *)

(* A snapshot is the replay of the log it stands for: whichever answers'   *)
(* states the coordinator keeps, and however late it writes them, a load   *)
(* from one rebuilds what a load of the whole log does.                    *)
SnapshotIsReplay ==
  \A s \in writing \cup ({snapshot} \ {None}) :
    /\ s.upto <= Len(log)
    /\ Decode(s.state) = FoldBook(Book(None, SubSeq(log, 1, s.upto)))

(* Business code is told that events came before it exactly when some had, *)
(* from whatever the stream was loaded: nothing but a snapshot, pages      *)
(* behind one, or all of its pages (context.rs, had_prior_events: "whether *)
(* the stream has history (pages or a starting state)").                   *)
PriorEventsAreKnown ==
  \A d \in Dispatches :
    pc[d] # "idle" =>
      (HadPriorEvents(req[d].history) <=> NextSequence(req[d].history) > 0)

(* The stream keeps its promise: races, retries, crashes, snapshots and    *)
(* the codec do not show in what is recorded.                              *)
Serial == INSTANCE SerialStream WITH log <- log

ImplementsSerial == Serial!Spec

(* Every input is settled: a lost race is run again, and wins or fails.    *)
EveryInputSettles == \A input \in Inputs : <>(input \in settled)

=============================================================================
