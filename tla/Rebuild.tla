------------------------------ MODULE Rebuild -------------------------------
(***************************************************************************)
(* Rebuilding state from an event book (crates/router/src/rebuild.rs): the *)
(* starting state its snapshot carries, else fresh state, then every page  *)
(* in order.                                                               *)
(*                                                                         *)
(* Business state is opaque: Apply is the business code's fold of one      *)
(* page and Rejects says when that fold fails (an error or a panic, both   *)
(* caught and answered alike but for the cause).  Both are functions of    *)
(* the state and of all the page shows the fold.                           *)
(***************************************************************************)
EXTENDS Errors, Naturals

CONSTANTS
  Fresh,            \* the state the factory makes
  Apply(_, _),      \* the state after folding a view into a state
  Rejects(_, _),    \* whether folding a view into a state fails
  Applied,          \* the events whose type has an applier
  Batched,          \* whether one batched fold replaces the appliers
  HasCodec          \* whether the state has a codec

ASSUME RebuildAssumption == Batched \in BOOLEAN /\ HasCodec \in BOOLEAN

(* A page: its domain event (None: a framework meta-event), its sequence   *)
(* and the meta stamped on it.                                             *)
Page(event, seq, meta) == [event |-> event, seq |-> seq, meta |-> meta]

(* What a fold of the page sees: the event, and its context (PageContext). *)
View(page, cover) ==
  [event |-> page.event, seq |-> page.seq, meta |-> page.meta,
   cover |-> cover]

(* The elements of a sequence: of a log, its pages.                        *)
Elements(seq) == {seq[i] : i \in 1 .. Len(seq)}

(* Whether business code folds the page: the batched fold is handed every  *)
(* page, an applier only the pages of its type; the rest are skipped.      *)
Folds(page) == Batched \/ page.event \in Applied

Ok(state) == [state |-> state, error |-> None]

Failing(error) == [state |-> Fresh, error |-> error]

(* The key of a failing fold, by where its pages came from (PageOrigin).   *)
OriginReason(origin) ==
  IF origin = "persisted" THEN "FOLD_FAILED" ELSE "FOLD_FAILED_EMITTED"

(* One page into a run of the fold; a run that failed folds no more.       *)
FoldPage(run, page, cover, origin) ==
  IF run.error # None \/ ~ Folds(page) THEN run
  ELSE IF Rejects(run.state, View(page, cover))
    THEN Failing(FoldFailed(OriginReason(origin), <<>>))
    ELSE Ok(Apply(run.state, View(page, cover)))

(* Every page in order, onto what `start` came to: run[i] is the fold of   *)
(* the first i pages.  A batched fold is one call; it is taken to fold its *)
(* pages as this does, so that folding a book in two batches is folding it *)
(* in one.                                                                 *)
FoldRun(start, pages, cover, origin) ==
  LET run[i \in 0 .. Len(pages)] ==
        IF i = 0 THEN start ELSE FoldPage(run[i - 1], pages[i], cover, origin)
  IN  run

ApplyPages(start, pages, cover, origin) ==
  FoldRun(start, pages, cover, origin)[Len(pages)]

(* A state as its codec encodes it.  Bytes the codec did not write may not *)
(* decode ("garbage"), or its decode may panic on them ("explosive").      *)
Encoded(state) == [kind |-> "encoded", value |-> state]

EncodingKinds == {"encoded", "garbage", "explosive"}

Decode(any) ==
  CASE any.kind = "encoded" -> Ok(any.value)
    [] any.kind = "garbage" -> Failing(PersistedCorrupt)
    [] any.kind = "explosive" ->
         Failing(FoldFailed("FOLD_FAILED", <<"HANDLER_PANICKED">>))

(* The state every answer carries: none without a codec.                   *)
EncodeState(state) == IF HasCodec THEN Encoded(state) ELSE None

(* The starting state of a book: a snapshot counts only with a codec and   *)
(* a state in it.                                                          *)
StartOf(book) ==
  IF book.snapshot # None /\ HasCodec
    THEN IF book.snapshot.state # None THEN Decode(book.snapshot.state)
                                       ELSE Ok(Fresh)
    ELSE Ok(Fresh)

FoldBook(book) ==
  ApplyPages(StartOf(book), book.pages, book.cover, "persisted")

(* An absent book is an empty one.                                         *)
Rebuilt(book) == IF book = None THEN Ok(Fresh) ELSE FoldBook(book)

=============================================================================
