# Verification of angzarr-router

TLA+ models, TLC model checking and TLAPS proofs of `angzarr-router`
(`src/crates/router`): the library between a business process's code and the
coordinator that stores its events. A coordinator hands it a request that
carries everything it may read; it folds state, calls business code, and
answers events or one coded error. It stores nothing and shares nothing
between requests, so what can go wrong is not inside one function but
between what it folded and what will be replayed, between one error and
how three layers read it, and between requests that race for one stream.

## 1. The system and its components

| Component | State it keeps | Operations | What makes it hard | What must hold |
|---|---|---|---|---|
| **Domain dispatch** (`domain.rs`, `context.rs`) | none between requests; within one: the state, the steps still to run, the events decided | `dispatch`: `route`, `rebuild`, `decide` (handler, then continuations), answer | continuations as closures within closures; events folded before they are stored; every step may fail, and a fact's failure is not a command's | each step decides on the state a replay will give; an answer replays to the state it carries; steps run in order, none lost; a fact never refuses; routing errors come first |
| **Rebuilder** (`rebuild.rs`) | appliers or one batched fold, a codec | `rebuild`, `apply_pages`, `apply_emitted`, `encode_state` | two implementations of folding (persisted and emitted), codec absent or failing, panics | folding in parts is folding at once; a failure stops the fold under the key of the pages' origin |
| **Coded errors** (`error.rs`) | — | `refused`, `immediate`, `bug`, `retryable_bug`, `as_fact_failure`, `as_refusal`, `call_handler` | business code may build any error by hand | which status an error leaves with decides what the coordinator does with it |
| **Stream and coordinator** (another repository; `src/docs/architecture.md` says what the router relies on) | the log, a snapshot | load, append at the loaded head, re-run a lost race, deduplicate, snapshot | races, crashes, lost answers, late snapshot writes | the log is as if decisions were made one at a time |
| **Policy** (`policy.rs`) | none | `react`, `translate` | a reaction's inputs fail in other components, refusals come back as facts | only a refused command is translated, and nothing is lost |
| **Projector** (`projector.rs`) | one projection for each run | `dispatch` | a page fails in the middle of a run | an answer is of the whole run, and of that run alone |
| **Upcaster** (`upcaster.rs`) | none | `upcast`, `dispatch` | rules form any graph, cycles included | every rule reached is applied once, every key answered, and the call ends |
| **Router, builder** (`router.rs`) | the one component | `build`, `dispatch_*`, `refuse_another_component` | futures of remote components stay pending, or are dropped | only the one component is asked, with the services of its kind; calls do not wait for each other |
| **archlint** (`src/tools/archlint`, `src/archlint.toml`), the linter CI runs before each change | the modules, imports and written paths of a scan | walk, use trees, `resolve`, manifest and `include!` edges, `load`, `check`, the exit status | imports that chain and circle, paths read before what they name is declared, dependencies renamed, globs, rules that see one edge at a time or constrain nothing | a path resolves to what it names; a pattern matches its language; a clean exit means the rules are kept, a violation that one is broken; accepted changes keep the layers apart |
| **Order aggregate** of the handler-contract tier (`src/crates/conformance`) | items, deliveries and notes of an order; what business code saw | `order_aggregate`: its handlers, `restock_step`, `chain`, the ways to fail | steps that hold back by what the step before recorded; business code built many ways | a note of restocking is recorded once; business code sees what is recorded and no more |
| **Step-idempotence helper** (`domain.rs`) | none | `check_step_idempotent` | it runs a step twice outside any decision, and is to foretell one | what it finds is what a decision with the step twice does |
| Wire decoding and display (`context.rs`, `error.rs`) | — | `decode_message`, `Display` | — | partly modelled: a payload that does not decode |

They interact by calls within one process (router to component, component to
rebuilder and to business code, business code back through `Emit`'s closures)
and, across processes, by the coordinator's requests and what it does with
each answer. Nothing is shared but the immutable tables of the one component.

## 2. Modules

```
Errors ── Rebuild ──┬── Handle ── Stream ── (INSTANCE) SerialStream
   │                ├── Emit (INSTANCE Handle) ── Orders
   │                └── Projector
   ├── Policy
   ├── Upcaster
   └── Router

ArchMatch ── ArchCheck ──┬── ArchRules
             ArchScan ───┴── ArchLint

Rebuild_proofs ──┬── Stream_proofs
                 ├── Projector_proofs
                 └── Orders_proofs
Policy_proofs, Router_proofs, Upcaster_proofs
Arch_proofs
```

An `X_proofs` extends the module `X` it is about. `Stream` extends `Handle`, so
that `Stream_proofs` holds what is proved of a dispatch too; `Arch_proofs` is
about both `ArchRules` and `ArchLint`.

| Module | Models | Correspondence |
|---|---|---|
| `Errors` | `error.rs` | An error is `[code, cause, grpc, refusal]`; `cause` is the flattened chain of keys. Constructors and conversions have the source's names (`AsFactFailure`, `AsRefusal`, `CallHandler`, ...). |
| `Rebuild` | `rebuild.rs` | Business state is opaque; `Apply` and `Rejects` are the business code's fold of one page, functions of all a fold is shown (`View`: event, sequence, meta, cover). `FoldBook` is `rebuild`, `ApplyPages` is `apply_pages`. |
| `Handle` | `domain.rs`, `context.rs` | One action for each stretch between two business calls: `Deliver`, `Route`, `RebuildState`, `CallEmits` / `CallFails` (the handler or the next step), `FoldEmitted`, `Answer`, `Unwind`, `Return`. `pending` is what `Emit::push` builds as nested closures, flattened: a step is named by its path of continuation indices. `ran` is a history variable. |
| `Stream` | the coordinator around `Handle` | Extends `Handle`; `Load`, `Run`, `Record`, `LoseRace`, `Fail`, `Duplicate`, `WriteSnapshot`, `Crash`. Every action that is not the router's is external. |
| `SerialStream` | what a stream promises | The abstract specification: one variable, one action, `Decide`. |
| `Emit` | `Emit::then`, `Emit::push`, `decide` and `check_step_idempotent` of `domain.rs` | The same dispatch with its continuations as the code keeps them: an Emit carries at most one closure, which may be `Composed` of two. `CallNext` calls the first step in it and pushes the rest of the closure onto what that returns; `Leaves` lists the steps in a closure. Business code is one function, `Does`. It refines `Handle` under `pending <- PlacesOf(next)`. |
| `Orders` | the order aggregate of `src/crates/conformance/src/lib.rs`, and the stream its harness keeps | `OrderDoes` is its business code, built one of `Behaviours`' ways; `TierConstants` says what a component is built of. `Send`, `Collect` and `Check` are the harness. |
| `Policy` | `policy.rs` and the errors its outputs come back with | `React`, `Translate`; a target is what its caller sees of `Handle`. |
| `Projector` | `projector.rs` | `Project`, `Start`, `Fold` (a page, or the batch), `Finish`. |
| `Upcaster` | `upcaster.rs` | One action for each pass of the loop in `upcast`, and `EndPayload` for the entry it makes. |
| `Router` | `router.rs` | `Register`, `Build`, `RegisterAnother`; a call is a future: `Call`, `FirstPoll`, `PollAgain`, `Drop`, `Take`. |
| `ArchScan` | `scan.rs`, `workspace.rs` of archlint | `AddTarget`, `WalkMod` (of a module declared again, too), `EndOfModule` are the recursion of `walk_items` (`open` is its stack); `RecordUse` (use trees), `CollectPath` and `RecordInclude` read an item; `Finish` resolves, and adds the manifests' edges. `Named` says what a path names by rewriting it segment by segment, without `resolve`'s recursion into each import. |
| `ArchMatch` | `matches` in `rules.rs` | `Matches`, and the language it should accept (`PathDenotes`), defined by cutting the path. |
| `ArchCheck` | `load`, `check` and `unmatched_from` of `rules.rs` | A rule is `[from, scope, deny, allow]`; `Breaks` is what `check` asks of a rule and an edge. |
| `ArchRules` | `src/archlint.toml`, `model.rs` and the gate of `main.rs` | The repository's rules and `check`, as the gate (`Accepts`) before `AddReference` and `DropReference`, a change's edit of the module graph. |
| `ArchLint` | `main.rs` | A scan, which may end in an error (`ScanFails`), and then `Lint`: a rules file is loaded or refused, every edge checked, and the exit status given. |

A module `MCx` gives `x`'s operator constants their values for TLC, and a
`.cfg` file the rest.

Business code is nondeterministic within its types: a handler may emit any of
`Emissions` with any number of continuations, or fail in any of `Failures`
(among them errors built by hand with contradictory fields, unclassified
errors, and panics). The fold in the MC modules is the *free fold*, which
keeps the sequence of all it was shown: two runs of it agree only if they were
shown the same events, sequences, metas and covers in the same order, so any
difference a real applier could observe is one the properties see. `Emit` and
`Orders` take the opposite side: one real component, its fold included.

Two refinements tie the models together. `Emit` implements `Handle`
(`ImplementsHandle`, run `orders`, and theorems `ClosuresRunInOrder` and
`OrdersRunInOrder`): closures that call closures come to the flat list of
steps, so what is proved of `Handle` is not proved of a simplification. `Stream` implements `SerialStream` (`ImplementsSerial`, run
`stream`, and theorem `StreamIsSerial`).

## 3. Runs

| Run | Question | Bounds, and why they are enough |
|---|---|---|
| `handle_appliers` | Does a decision see and answer what replay will see? Are errors those of the input's kind, is routing first, are continuations in order, does every request end? | One dispatch (dispatches share nothing; races are `stream`'s), 4 steps of a decision: enough for two continuations of which the first nests another. 8 histories: none, empty, pages with a meta-event and an unapplied type, snapshot and pages, snapshot without a state, undecodable, exploding, and one that does not fold. 5 inputs: each arm with each type, and no arm. |
| `stream` | Is the log serial, is every snapshot the replay of the log it covers, is business code told rightly whether events came before, and is every input settled? | A batched fold with a codec. 2 dispatches (no symmetry: the run checks liveness), 2 inputs (a command and a fact), 2 steps, one fault (crash or lost answer), and any encode may panic (`Panic`). A race needs two dispatches; a redelivery one fault. The business rule (one seat) lives only in `MayEmit`, so that a decision on a stale state breaks the refinement; a fresh stream may also be left as it is, by a decision of no events. Decisions fail by their folds alone, for a failing call ends as a failing fold does, and `handle_appliers` has every failure. No snapshot is written of an empty stream. |
| `orders` | Is a dispatch of closures one of `Handle`'s? Is a restock noted once, does business code see what is recorded, and does the idempotence helper foretell the decision? | 3 inputs out of 8 (commands and facts, a payload that does not decode, an event that does not fold, a type without a handler), 14 ways to build the component, among them two continuations of which both continue; the helper on 8 steps, of every outcome it has. A second item of a kind needs two inputs, and a snapshot in front of pages three. |
| `upcaster` | Do circles of rules end, with every rule reached applied once? | 3 types, 2 with rules, every function of types the rules may compute, requests of up to 3 pages with a meta-event among them. |
| `projector` | Is an answer of its whole run and of nothing else? | Per-type folds (a batched fold is one call). 2 dispatches; runs of two domains and of none, empty, failing in the middle, and with skipped pages. |
| `projector_fold_panic` (violation) | Is a projector fold's panic answered? | One dispatch, a batched fold. |
| `policy` | Are refusals, and only they, translated, and is nothing lost? | 5 triggers (declared, undeclared, meta-event, empty, absent), with a refusal callback and without one, up to 2 outputs, 5 failures (a refusal object under a status that is none's among them), 2 runs of a call. |
| `router` | Is only the one component asked, each call once, and does no call wait for another? | 4 components (own and remote), 2 registered, 2 calls: two of each are what an order needs. |
| `arch_rules` | Do the rules, each of one edge, keep the layers apart transitively? | Every graph of references among the crate root, the error vocabulary, two components, a submodule of one and the router, with a few of test code, to the conformance crate and to external types: a module of each layer, and two of the layer whose modules are to be independent. |
| `arch_lint` | From the source text to the exit status: does a path resolve to what it names, is test code marked, does a pattern match its language, and is the verdict what the rules file says of what the source names? | Two crates and a test target with 4 modules, one of them declared twice, with a `cfg(test)` and without; any 4 of 20 imports (one with a leading `::`), use trees, paths and included files, in every order, until all is read or reading fails (1.2 million states); 5 manifest dependencies (renamed, of tests, beside the workspace); 6 rules files, of which one matches no module and one says nothing. Alias depth 3 (the code's is 16): three imports on one path reach the bound, a circle of two exceeds it. Patterns of up to 3 segments (literal, `*`, `**`, prefix and suffix wildcards) against paths of up to 3; one-segment patterns of up to 4 letters against segments of up to 3. |
| `arch_include_gate` (violation) | Is a file that test code alone includes marked as a test's? | One include, in a gated method. |
| `arch_scan_same_name` (violation) | What is a path through an import of an item of its crate's own name? | One import and one path. |

No run dispatches with no codec, and none folds every kind of broken history
in one batch: the theorems of section 6 hold for every `Batched` and
`HasCodec`.

Every property of a passing run has a mutant in `PROJECT.json`: a bug of the
code's kind that TLC finds by that property. Operators named `Mutant_...`
stand next to the definition they replace.

Deadlock is checked in every run but `stream`, `policy` and `orders`, which
end when every input is settled or sent, and the three runs of `ArchLint`,
which end with the linter's exit.

## 4. Fairness

* A dispatch is a synchronous call, so its own steps are weakly fair
  (`Handle!Step`, `Projector!Step`, `Upcaster!Step`). Delivering a request,
  panicking and returning are not: a host may never send another.
* `Stream`: the coordinator settles an answer it has (`End`), and a sender
  sends again until it is answered (`Send`); neither the snapshot nor a fault
  is fair. No strong fairness is needed: a lost race means another input was
  recorded, and there are finitely many.
* `Orders`: a dispatch is weakly fair (`Dispatch`), as in `Handle`; the harness
  need never send, collect or check.
* `Policy`: the coordinator delivers each trigger and each input until it
  ends.
* `Router`: a host polls what it made and what is woken. A remote component
  need never reply.

That business code returns, and continues finitely often, is assumed
(`MaxSteps`): `src/crates/router/src/domain.rs:68` gives that duty to the
handler ("There is no step cap").

## 5. Findings

* `projector_fold_panic`: a batched projector fold is called outside any
  `catch_unwind` (`projector.rs:155`), so a panic in it unwinds into the host.
  Every other fold's panic is answered, and `src/docs/architecture.md:91` says
  a projector's failing fold is named as a state fold's is.

The models keep that (`Unwind`), together with what nothing else guards: the
state factory, and the codec's `encode` (`rebuild.rs:271`), of which no document
says otherwise (`src/docs/architecture.md:86` is about a delivered snapshot, and
`decode` is guarded). What an unwound decision leaves behind is `stream`'s
question: nothing of it is recorded, and its input is settled all the same.

* `arch_include_gate`: archlint marks an included file with the scope of the
  whole item around it (`scan.rs:221`), so that one a gated method of an ungated
  `impl` includes is an edge of library code, while a path in the same method is
  a test's (`src/tools/archlint/src/scan.test.rs:237`) and
  `src/tools/archlint/src/model.rs:7` counts "`#[cfg(test)]` items" as test-only
  code. A rule of scope `lib` refuses such a file, one of scope `test` does not
  see it; `CleanMeansKept` leaves it out.
* `arch_scan_same_name`: after `use ext::ext;` (a macro or function of its
  crate's name) archlint resolves a path `ext::other` to `ext::ext::...::other`,
  the name once for each level of the alias bound, which an exact deny pattern
  misses; `src/tools/archlint/src/scan.rs:315` says "or to the external path
  as written".

`ResolvesToTheNamed` speaks of paths that go through at most `AliasDepth`
imports, each of a whole module or external path, and each *plain*: the only
import of its module by that name, and written without a leading `::`. Beyond
that archlint approximates: behind an imported item (`use crate::Item;`, then
`Item::t`) it walks on from the item's module; of two imports of one name (a
`cfg` on each, or one of a type and one of a macro) it keeps the one read last;
and an import's leading `::` is not kept (`scan.rs:288`), so that `use ::b::x;`
beside a module or an alias `b` is read as if it were written `use b::x;`. A workspace
package that a manifest renames is an external crate to the scan, in the
manifest's edge and in every path written with the new name (`known` and
`add_manifest_edge` take `code_name`), so that no rule about the package sees
it; `CleanMeansKept` and `Named` take such a name as the code does.

## 6. Proofs

`tlapm` checks, for every value of the constants (any business fold, any
histories, any number of dispatches, any step bound):

| Theorem | Says |
|---|---|
| `Stream_proofs!TypeCorrect` | `Spec => []TypeOK` |
| `Stream_proofs!StepsSeeTheirReplay` | `Spec => []StepsSeeReplay` |
| `Stream_proofs!AnswersReplay` | `Spec => []AnswerReplays` |
| `Stream_proofs!OnlyCommandsRefuseOrRerun` | `Spec => []OnlyCommandsRefuse` |
| `Stream_proofs!UnknownTypesAreToldFirst` | `Spec => []UnknownTypeIsToldFirst` |
| `Stream_proofs!StepsRunInOrder` | `Spec => []ContinuationsInOrder` |
| `Stream_proofs!SnapshotsReplay` | `NoneIsNoSnapshot /\ StreamSpec => []SnapshotIsReplay` |
| `Stream_proofs!PriorEventsAreTold` | `NoneIsNoSnapshot /\ StreamSpec => []PriorEventsAreKnown` |
| `Stream_proofs!StreamIsSerial` | `NoneIsNoSnapshot /\ StreamSpec => ImplementsSerial`: the refinement |
| `Orders_proofs!ClosuresRunInOrder` | `NoneIsNoClosure /\ BuildsByThen(deeds) /\ OrdersSpec => ImplementsHandle`: the refinement of closures |
| `Orders_proofs!OrdersRunInOrder` | the same of the order aggregate (`OrderComponent`) |
| `Orders_proofs!BusinessCodeSeesWhatIsRecorded` | `OrdersSpec => SeesWhatIsRecorded`, of the order aggregate, its state and folds (`OrderFolds`), sent one input at a time (`OneAtATime`) |
| `Orders_proofs!ItemsAreRestockedOnce` | `OrdersSpec => []RestockedOnce`, of the same |
| `Orders_proofs!HelperForetellsTheDecision` | `OrdersSpec => []CheckForetells`, of the order aggregate, the helper run on its steps (`StepsChecked`) |
| `Projector_proofs!AnswersAreOfTheWholeRun` | `Spec => []AnswersTheWholeRun` |
| `Policy_proofs!OnlyRefusalsAreTranslated` | `Spec => []OnlyRefusedCommandsAreTranslated` |
| `Upcaster_proofs!UpcastsToTheEnd` | `Spec => []UpcastToTheEnd` |
| `Upcaster_proofs!EntriesAreAnswered` | `Spec => []EveryEntryIsAnswered` |
| `Router_proofs!OnlyTheHostedIsAsked` | `Spec => []OnlyTheOneIsAsked` |
| `Arch_proofs!LayersHold` | `GateSpec => []LayersHoldAllTheWay` |
| `Arch_proofs!EngineAlone` | `GateSpec => []EngineStandsAlone` |
| `Arch_proofs!PathsResolve` | `LintSpec => []ResolvesToTheNamed` |
| `Arch_proofs!EndsAtTheSurface` | `LintSpec => []EndsAtThePublicSurface` |
| `Arch_proofs!EdgesLand` | `LintSpec => []EdgesEndAtModules` |
| `Arch_proofs!TestsAreMarked` | `LintSpec => []TestCodeIsMarked` |
| `Arch_proofs!MatcherIsItsLanguage` | `LintSpec => []MatchesIsItsLanguage` |
| `Arch_proofs!ReportsAreJust` | `LintSpec => []OnlyTheForbiddenIsReported` |
| `Arch_proofs!CleanIsWorthIt` | `LintSpec => []CleanMeansKept` |

*Assumptions.* `HandleAssumption`, `RebuildAssumption`, `ErrorsAssumption` and
`StreamAssumption`: the constants' types, `None` outside the errors, that a
delivery is well formed, the coordinator's duty (a history is of the stream its
input's cover names), and that an input of a stream is a command or a fact. Of
the other modules `EmitAssumption`, `OrdersAssumption`, `ProjectorAssumption`,
`PolicyAssumption` (two triggers differ in their ids), `UpcasterAssumption` (a
request is well formed) and `RouterAssumption` (a policy is not remote:
a router hosts it as its own table). TLC evaluates them in every run of
their modules.

Of archlint, likewise: `LettersAssumption` (a `*` is no letter of a name),
`ScanAssumption` (how crates, modules and paths are written: no name is empty,
a root has the name of a package of the workspace, a source is finite),
`SpellingAssumption` (two names are not spelled alike), `PatternAssumption`
(what a rules file holds are patterns), `GateAssumption` (a scan's modules are
of the workspace's libraries) and `LayerAssumption`: library code of the engine
lies in the modules `archlint.toml` names. The last is about this repository,
not about archlint: the file names the engine's modules one by one, and a module
added without a line in it is constrained by the crate's rule alone. The gate
and the lint are two models; all that `Arch_proofs` asks of both at once is
that `archlint.toml`'s names are spelled in `Letters`.

Some hypotheses quantify over every value, so that TLC cannot evaluate them:

* `NoneIsNoSnapshot`, `NoneIsNoClosure`, `NoneIsNoState`: the value that stands
  for an absent snapshot, closure, state or history is no record; `None` is a
  model value in every run.
* `BuildsByThen(deeds)`: business code makes an Emit with `Emit::of` and
  `Emit::then` alone, which is what `domain.rs` lets it do, for its fields are
  private. That some business code does is a lemma, `OrdersBuildByThen`.
* `OrderComponent`: `Does` is `OrderDoes`, and the constants are the tier's
  (`TierConstants`: inputs, behaviours, and that what steps emit is among
  `Emissions`). `OrderFolds`: `Fresh` and `Apply` are the order aggregate's,
  with a codec and an applier for each of its events (`TierFolds`). Of
  `Rejects` nothing is assumed: the theorems hold whichever events do not fold.

The parts of these that speak of constants are evaluated by TLC in the run
`orders` (`MCTier`), with `OneAtATime` (the tier's harness answers an input
before it sends the next, so that there is one dispatch; `Stream` is where
dispatches race) and `StepsChecked` (the helper's closure is a step, not a
handler).

*Argument.* `AnswerReplays` is not inductive: it speaks of answers only, and
what an answer carries was built step by step. `StepsSeeReplay` is the
strengthening for the steps in between, and is not inductive alone either,
for `FoldEmitted` needs the types of what it folds. The inductive invariant is
`HandleInv`: `TypeOK` and, for each dispatch, `DecisionOK`:
while business code is to run, the rebuild of the history with the events
decided so far appended comes to the dispatch's state (`StepsSeeReplay`); once
answered, an answer's events replay to the state it carries, and an error is
one its input may be answered with. Its step `FoldEmitted` is the heart:
folding an Emit's events as `decide` does, as emitted pages numbered from the
head on, comes to what folding the extended history does.

* `ApplyPagesConcat`, a fact of every left fold, splits that of the extended
  history. It is proved by
  the least prefix at which it could fail (the set of the indices where it
  does has a least element), for induction theorems that take an operator are
  out of the provers' reach.
* `NextBookFold`, `NextBookGrows`, `StampedGrows`: appending the decided
  events and then the Emit's is appending all of them, at the same sequences.
* `EmittedIsRun`, `RebuiltIsRun`, `DefectsAreErrors`: a fold succeeds, or
  fails with an error of the router's own; a fold that succeeds under one
  origin does so under the other, so the origin's key shows in errors only.
* `DecideErrorIsError`, `FactFailureIsDefect`, `CallHandlerIsError`: whatever
  business code fails with, a fact answers a defect.

*Argument, of a stream.* `SnapshotIsReplay` speaks of snapshots, but a
snapshot is an answer's state, and the answer came from a load that may have
started from an earlier snapshot. `StreamInv` closes the circle: `HandleInv`;
each snapshot decodes to the replay of the non-empty prefix of the log it
stands for; and each dispatch's history rebuilds to the replay of the prefix up
to the sequence it states, with no page of the dispatch's input on it
(`RequestOK`). The log only grows (`LogGrows`), so that what is said of a
prefix stays true of it, whatever is recorded, lost or written late.

* `LoadsStand`: whatever a stream is loaded from, the history is well formed
  and stands for the whole log.
* `AppendedIsReplay`: a decision appended at the head it was made at is the
  replay of the log with it; `RecordKeeps` rests on it.

The refinement needs one thing more, what a decision was made of. `SerialInv`
adds it to `StreamInv` (`StepsOK`): while a dispatch runs, there is a sequence
of emissions, one for each step folded, whose events are those decided, and
each of which business code could emit on the replay of the log with the
emissions before it (`DecidedBy`). `FoldSteps` extends it by one step;
`RecordDecides` turns it into one `Decide` of `SerialStream` (a stutter where
nothing was emitted); every other action leaves the log as it is.

*Argument, of the steps.* `ContinuationsInOrder` says of the steps run that
they are in depth-first order. `StepsInv` adds what is still to come
(`Awaits`): every step that ran precedes every step that waits, of two that
wait neither continues the other and the first precedes, and every
continuation a step added ran or waits. `CallEmits` puts a step's
continuations in front of what waits, which keeps it so however deep they nest.
For `UnknownTypeIsToldFirst` it adds that nothing ran and no error was made
before `Route` (`RoutingOK`): business code may build by hand the very error
that an unknown type is answered with, so that the property speaks of an answer
before which nothing ran.

*Argument, of closures.* The refinement mapping `PlacesOf(next)` reads the
places off a closure that `Emit::push` nested to the left. `Calls(closure,
steps)` relates a closure to the steps it was pushed from, in order, and two
lemmas say what the code does to it: `LeavesOfClosure` (the mapping lists those
steps) and `CallOfClosure` (calling it calls the first and, of what that
returns, leaves its own continuations followed by the rest). `OrdersInv` keeps
each dispatch's closure so related (`Waits`), and what it folded of types that
`Handle` requires. With it, `CallNextIsCall` and `FoldEmitIsFold` map the two
steps in which the models differ; every other is the same step, and the
harness's are a delivery, a return or a stutter of `Handle`.

*Arguments, of the other components.*

* `Projector`: `ProjectorInv` keeps, for each dispatch, that its projection is
  the fold of the run's pages up to the one folded last, a page passed over
  changing nothing (`ProjectionOK`). The answer's claim is its last instance.
* `Policy`: `PolicyInv` says that an input refused or told was a command with a
  typed refusal under a business status (`StageOK`): whatever its target's error
  was built as, nothing else gets there.
* `Upcaster`: `UpcasterInv` keeps that the current payload came from the entry
  through a chain of the rules applied, each once (`CameThrough`), and that the
  entries made so far are those of the first items, in order (`EntryOK`).
* `Router`: `RouterInv`: a router hosts what its builder was given, and a call
  has asked nobody or the one component hosted, by a service of its kind
  (`AskedOK`).

*Arguments, of the order aggregate.* The refinement makes a dispatch of
closures one of `Handle`'s, but says nothing of what a particular state holds.
`IsOrderOf(state, events)` does: an item is there exactly if it was added, its
quantity is 1 exactly if it was added once, and a note the state holds is one of
those made. It is what any fold of those events comes to, however it is cut
(`FoldEmitted`, a rebuild of all pages, or of the pages after an image).

* `SeenInv`: while steps run, the state is the order of what is recorded and of
  what the decision emitted so far; a successful answer's state is that of what
  is recorded and of the answer's events; an image is the order of a prefix of
  the log. A decision that fails leaves the log as it is, and the state it
  worked on with it.
* `RestockInv` (of a component that restocks) adds what a decision may still
  owe (`ContinuesWith`). Either the events are settled, each note right after
  the first item of its kind; or the last event is an item just added, and the
  closure that waits is the restock step of that item. That step tells a first
  item from a second by its quantity alone, hence `SeenInv`; that the note is
  not in the state yet follows from the note's being made by that step only.
* `HelperForetells` unrolls a decision of one step and of two (`DecideInTwo`):
  the helper's second run is the decision's second call, on the state that the
  first call's events fold to. `ContinuesAlike`, whether an order's step
  continues does not depend on the state, takes the second call of a step
  that continues nowhere to the decision's end. It holds of any state, so that
  `CheckedOK` only keeps what the helper was last run on.

*Arguments, of archlint.*

* The gate: `check` looks at one edge at a time, and the properties at chains of
  them. `GateInv` is all that the gate keeps, that each reference merged breaks
  no rule alone. `LibEdges`, `EngineEdges` and `LeafEdges` say what such a
  reference may lead to, by the rules as they are written; so each layer is a
  set of modules that no reference leaves, and what a chain reaches from within
  such a set is in it, however long the chain (`DependsInClosed`).
* The matcher: the recursion of `segments_match` and `segment_match` is a table
  over what is left of pattern and path. A pattern's language is defined by
  cutting the path, without it; a cut satisfies the table's equations, and there
  is one table that does.
* The scan: `ScanInv` says of the modules, of the stack of those open, of the
  items read, of the references and of the edges what each was made from: the
  references are those the items read write (`WrittenRefs`), each in the item's
  own scope, which rests on the scope of an open body being its target's and that
  of every gate on the stack below it (`BodyScope`). While the walk goes on, a
  module's table is not yet what it will be, and a module declared again is read
  into what there is; what was read stays, so that `TestCodeIsMarked` and
  `OnlyTheForbiddenIsReported` are read off the tables once finished. `LintInv` adds what was reported.
* The resolver follows aliases to a bounded depth, each level asking the one
  below. `AnswersIs` unfolds it by one level; by induction on the level, every
  answer is a registered module, nowhere, or a path outside the scanned crates
  (`AllLanded`): that is `EdgesEndAtModules`.
* A path into another crate is walked with aliases not followed there
  (`WalkAway`), and the modules a path spells out are each other's children
  (`SpelledOut`, `SpelledAbove`), so that the longest prefix is where the walk
  ends: `EndsAtThePublicSurface`.
* The reading: `Named` reads a path without recursion, an alias's path put in
  front of what is left to read; the resolver asks for the alias's path first,
  and goes on from what that names. That the two arrive at one place rests on
  `AliasesInv` (every import read gave its module an alias, whatever was read
  after it), and on one statement about a reading (`Claim`), proved from its end
  backwards: wherever the reading stands, and however what it has left is split
  in two, the resolver's answer for the first part accounts for it. Either the
  reading comes to the second part where the answer is (`Arrives`); or the answer
  leaves the scanned crates, and the reading with it (`Leaves`); or the reading
  ends within the first part (`Falls`), and then it is not of whole modules
  unless the second part is empty. `Together` is the resolver and the reading
  side by side over one segment, and `HopRuns` the case of an alias, where the
  resolver asks twice and the reading goes on once. The reading's marks, where
  each alias's path ends, tell a reading that stopped within an alias from one
  that went through it.
* `CleanMeansKept` puts them together: a path whose reading is sure was resolved
  to what it names, so that an edge says so; the check asked every edge; and what
  it asked is what the patterns mean.

*Model-checked only.* Liveness (`EveryRequestEnds`, `EveryInputSettles`, ...) is
out of the provers' reach. So are the induction theorems that take an operator:
where a proof needs an induction over numbers it speaks of the set of those for
which the claim holds (`SetInduction`, from the order of the naturals being
well-founded), or of the least for which it fails.

## 7. Not modelled, and why

* The coordinator beyond what the router relies on, upcasting on its read
  paths and descriptors (answered unchanged): another repository's.
* The args of an error, their text and `Display`; type URLs' text; protobuf
  encoding and decoding, but for a handler's payload that does not decode
  (`Orders`): parsing and formatting.
* A batched fold as something other than the page-by-page fold of its pages:
  the repository states no law for it, and a fold that treats two batches
  unlike one would break replay by itself.
* `Send` bounds (`send.rs`): the compiler checks them.
* The conformance crate's other fixtures (counter, ledger, tracking,
  fulfillment): business code of a line or two over the dispatches that
  `Handle`, `Policy`, `Projector` and `Upcaster` leave free; its builders of
  protobuf requests are data, and its scenarios' steps run on the coordinator's
  side.
* archlint's parsing of Rust sources, of the rules file and of `cargo
  metadata`: the syntax tree, the rules and the package list are its inputs,
  and which file a `mod` item's source is, it reads from disk. Also `--edges`,
  which lists the edges and checks nothing, arguments that do not parse, and the
  report's wording.
* Gates that archlint does not read are not gates of the model's items: a
  file's own `#![cfg(test)]`, and those on a trait's items, on fields, variants
  and statements (`with_attrs` is asked of items and of an impl's). A gate is
  what `is_cfg_test` takes for one.
* The harness's histories (`order_history`) number their pages from 0 behind a
  snapshot too, where `Orders` keeps the stream's own sequences: nothing of the
  order aggregate reads a sequence.

## 8. Plan

Built, in the order of their weight: `Errors`, `Rebuild`, `Handle` with its
proofs, `Stream` over `SerialStream` with theirs, `Emit` and `Orders`,
`Upcaster`, `Projector`, `Policy`, `Router`, `ArchMatch`, `ArchCheck`,
`ArchRules`, `ArchScan`, `ArchLint`.

Proved: every safety property that the passing runs check, and both
refinements.

Next, where the code goes on: paths through items that are imported, of which
archlint approximates what the compiler does (section 5); and a rebuilder without
a codec that is delivered a state, for which the repository states no promise yet
(`rebuild.rs:349`).
