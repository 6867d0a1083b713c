------------------------------ MODULE ArchScan ------------------------------
(***************************************************************************)
(* archlint's reading of the workspace (src/tools/archlint/src/scan.rs and *)
(* workspace.rs): it walks each target's modules depth first, registering  *)
(* modules, the aliases their `use` items declare, the paths their code    *)
(* writes and the files it includes, and, once every target is read,       *)
(* resolves each path to the module it names.  What the manifests declare  *)
(* are references too.                                                     *)
(*                                                                         *)
(* A module is its path, a sequence of names that starts with its crate's; *)
(* a path as written is a sequence of segments.  The source text is any    *)
(* the constants allow: which of the modules are declared, how often (each *)
(* time under another cfg), and which of the items each body holds, in any *)
(* order.                                                                  *)
(***************************************************************************)
EXTENDS Naturals, Sequences, SequencesExt, FiniteSets

CONSTANTS
  Names,            \* the names there are, keywords among them
  Packages,         \* the library name of each package of the workspace
  Manifest,         \* the dependencies the packages declare
  Roots,            \* the targets' root modules
  TestRoots,        \* those of test, bench and example targets
  Declarations,     \* the `mod` items: [module, gated], under #[cfg(test)] or not
  Items,            \* the items the modules may hold
  MaxItems,         \* bound: how many of them a scan reads
  AliasDepth        \* how many aliases a path is followed through

VARIABLES
  modules,          \* the registered modules: [root, children, aliases]
  open,             \* the modules being read, innermost last: [module, gated, scope]
  refs,             \* the paths written, with where
  read,             \* the items read
  finished,         \* whether every path is resolved
  edges             \* the references: [from, to, onDisk, scope, via]

vars == <<modules, open, refs, read, finished, edges>>

(* No module: what an unresolvable path resolves to.                       *)
Nowhere == <<>>

(* A use tree, by its leaves: a leaf is a name or a glob, what it is       *)
(* imported as ("" for nothing) and the names above it.                    *)
Leaf(n, as) == << [above |-> <<>>, name |-> n, as |-> as] >>

(* A name, a renamed name, a glob, a tree below a name, a group of trees.  *)
Name(n) == Leaf(n, n)
Rename(n, as) == Leaf(n, IF as = "_" THEN "" ELSE as)
Glob == Leaf("*", "")
Below(n, tree) == [i \in DOMAIN tree |-> [tree[i] EXCEPT !.above = <<n>> \o @]]
Group(trees) == FlattenSeq(trees)

(* An item: a `use`, a path written in code (or imported in a body, which  *)
(* imports no name of the module), or an included file.                    *)
UseItem(module, tree) ==
  [module |-> module, kind |-> "use", use |-> tree, colon |-> FALSE,
   gate |-> "none", under |-> FALSE]

PathItem(module, path) ==
  [module |-> module, kind |-> "path", path |-> path, colon |-> FALSE,
   gate |-> "none", under |-> FALSE]

IncludeItem(module, file) ==
  [module |-> module, kind |-> "include", file |-> file,
   gate |-> "none", under |-> FALSE]

(* The same, written with a leading `::`.                                  *)
Absolute(item) == [item EXCEPT !.colon = TRUE]

(* The same, under #[cfg(test)]: the whole item, or a part of it (a method *)
(* of an impl, an item in a body).                                         *)
Gated(item) == [item EXCEPT !.gate = "item"]
GatedInside(item) == [item EXCEPT !.gate = "inside"]

(* The same, written in a body that a gated `mod` item, however far above, *)
(* declares.                                                               *)
UnderGate(item) == [item EXCEPT !.under = TRUE]

(* A dependency of a package: the package it is on, its name in code (the  *)
(* rename, if there is one), whether it is one of tests, and its directory *)
(* (<<>> if it comes from elsewhere).                                      *)
Dependency(package, on, crate, dev, path) ==
  [package |-> package, on |-> on, crate |-> crate, dev |-> dev, path |-> path]

Modules == {d.module : d \in Declarations}

WorkspaceCrates == {Packages[p] : p \in DOMAIN Packages}

(* The crates a target may name: its package's dependencies, the library   *)
(* itself and the standard ones.                                           *)
Known(root) ==
  {d.crate : d \in {e \in Manifest : Packages[e.package] = Head(root)}}
  \cup {Head(root), "std", "core", "alloc"}

(* flatten_use: the paths a tree imports, with the name each is imported   *)
(* by; `self` is the tree's own prefix, by its last name.                  *)
Import(leaf) ==
  [path |-> IF leaf.name \in {"self", "*"} THEN leaf.above ELSE Append(leaf.above, leaf.name),
   name |-> IF leaf.as = "self" THEN Last(leaf.above) ELSE leaf.as]

Imports(item) == [i \in DOMAIN item.use |-> Import(item.use[i])]

(* What the source may be.  A path is written with a keyword at its start  *)
(* alone (or after another), and never with the name of a test target; an  *)
(* import is such a path, and an item as a whole, being a `use`, is gated  *)
(* or is not.                                                              *)
Keywords == {"crate", "self", "super"}

IsWritten(path) ==
  /\ path \in Seq(Names) \ {<<>>}
  /\ \A k \in DOMAIN path :
       /\ path[k] \in Keywords => path[1] \in Keywords
       /\ \A root \in Roots : Len(root) > 1 => path[k] # Last(root)

IsItem(item) ==
  /\ item.module \in Seq(Names)
  /\ item.gate \in {"none", "item", "inside"} /\ item.under \in BOOLEAN
  /\ \/ /\ item.kind = "use"
        /\ item.gate # "inside"
        /\ item.use \in Seq([above : Seq(Names), name : Names \cup {"*"},
                             as : Names \cup {""}])
        /\ \A i \in DOMAIN item.use : IsWritten(Import(item.use[i]).path)
     \/ item.kind = "path" /\ IsWritten(item.path)
     \/ item.kind = "include" /\ item.file \in Seq(Names) \ {<<>>}
  /\ item.kind # "include" => item.colon \in BOOLEAN

ASSUME ScanAssumption ==
  /\ "" \notin Names
  /\ MaxItems \in Nat
  /\ AliasDepth \in Nat
  /\ \A p \in DOMAIN Packages : Packages[p] \in Names
  /\ \A d \in Manifest : /\ d.package \in DOMAIN Packages
                         /\ d.crate \in Names
                         /\ d.path \in Seq(Names)
  /\ TestRoots \subseteq Roots
  /\ Roots \cup Modules \subseteq Seq(Names \ Keywords) \ {<<>>}
  /\ \A root \in Roots : \E p \in DOMAIN Packages : Head(root) = Packages[p]
  /\ Roots \cap Modules = {}
  /\ \A d \in Declarations : d.gated \in BOOLEAN
  /\ IsFiniteSet(Items)
  /\ \A item \in Items : IsItem(item)

-----------------------------------------------------------------------------
(* Resolution.                                                             *)

ParentOf(module, root) == IF module = root THEN root ELSE Front(module)

(* What the resolver asks itself: what a path written in a module names,   *)
(* or what further segments lead to from what an import named.  `left` is  *)
(* how many more aliases it may follow, and `deeper` answers what it asks  *)
(* after one more.                                                         *)
Questions ==
  [kind : {"resolve", "continue"}, at : Seq(Names), segs : Seq(Names), colon : BOOLEAN]

Resolving(module, segs, colon) ==
  [kind |-> "resolve", at |-> module, segs |-> segs, colon |-> colon]

Continuing(target, rest) ==
  [kind |-> "continue", at |-> target, segs |-> rest, colon |-> FALSE]

(* A bug: the aliases of any crate are followed.                           *)
Mutant_AnyHome(cur, home) == TRUE

(* Aliases are followed only inside the referencing crate.                 *)
AtHome(cur, home) == modules[cur].root = home

(* What an alias of `cur` and the segments after it lead to.               *)
ByAlias(cur, name, rest, deeper) ==
  LET target == deeper[Resolving(cur, modules[cur].aliases[name], FALSE)]
  IN  IF target = Nowhere THEN cur ELSE deeper[Continuing(target, rest)]

(* One segment further down, unless the way has ended.                     *)
Descend(way, seg, rest, home, left, deeper) ==
  LET cur == way.at
      info == modules[cur]
  IN  IF way.ended \/ cur \notin DOMAIN modules THEN way
      ELSE IF seg = "super" THEN [way EXCEPT !.at = ParentOf(cur, info.root)]
      ELSE IF seg = "self" THEN way
      ELSE IF seg \in info.children THEN [way EXCEPT !.at = Append(cur, seg)]
      ELSE IF seg \in DOMAIN info.aliases /\ left > 0 /\ AtHome(cur, home)
        THEN [at |-> ByAlias(cur, seg, rest, deeper), ended |-> TRUE]
      ELSE [way EXCEPT !.ended = TRUE]

(* Down from `cur` while each segment names a child module, or at home an  *)
(* alias; the first that names neither is an item of the module reached.   *)
Walk(cur, segs, home, left, deeper) ==
  LET way[i \in 0 .. Len(segs)] ==
        IF i = 0 THEN [at |-> cur, ended |-> FALSE]
        ELSE Descend(way[i - 1], segs[i], SubSeq(segs, i + 1, Len(segs)), home, left, deeper)
  IN  way[Len(segs)].at

(* A bug: the path into a scanned crate is kept as written.                *)
Mutant_NeverEntered(name, rest, home, left, deeper) == <<name>> \o rest

EnterCrate(name, rest, home, left, deeper) ==
  IF name \in WorkspaceCrates /\ <<name>> \in DOMAIN modules
  THEN Walk(<<name>>, rest, home, left, deeper)
  ELSE <<name>> \o rest

(* A bug: a path ends at the module its first segments import.             *)
Mutant_EndAtImport(target, rest, home, left, deeper) ==
  IF target \in DOMAIN modules THEN target ELSE target \o rest

ContinueFrom(target, rest, home, left, deeper) ==
  IF target \in DOMAIN modules THEN Walk(target, rest, home, left, deeper)
                               ELSE target \o rest

(* Whether a module's target may name a crate so.                          *)
IsCrate(module, name) ==
  name \in Known(modules[module].root) \cup WorkspaceCrates

(* A path written in `module`.  Its first segment is a keyword, a child    *)
(* module, an alias or a crate, in that order; at the depth bound an alias *)
(* counts no more.                                                         *)
Resolve(module, segs, colon, home, left, deeper) ==
  LET first == Head(segs)
      rest == Tail(segs)
      info == modules[module]
      From(start) == Walk(start, rest, home, left, deeper)
  IN  IF module \notin DOMAIN modules \/ segs = <<>> THEN Nowhere
      ELSE IF colon THEN EnterCrate(first, rest, home, left, deeper)
      ELSE IF first = "crate" THEN From(info.root)
      ELSE IF first = "self" THEN From(module)
      ELSE IF first = "super" THEN From(ParentOf(module, info.root))
      ELSE IF first \in info.children THEN From(Append(module, first))
      ELSE IF first \in DOMAIN info.aliases /\ left > 0
        THEN LET target == deeper[Resolving(module, info.aliases[first], FALSE)]
             IN  IF target = Nowhere THEN Nowhere
                 ELSE ContinueFrom(target, rest, home, left, deeper)
      ELSE IF IsCrate(module, first) THEN EnterCrate(first, rest, home, left, deeper)
      ELSE Nowhere

Answer(question, home, left, deeper) ==
  IF question.kind = "resolve"
  THEN Resolve(question.at, question.segs, question.colon, home, left, deeper)
  ELSE ContinueFrom(question.at, question.segs, home, left, deeper)

(* What a crate's code is answered, aliases followed to their bound.       *)
Answers(home) ==
  LET answers[left \in 0 .. AliasDepth] ==
        LET deeper == IF left = 0 THEN <<>> ELSE answers[left - 1]
        IN  [question \in Questions |-> Answer(question, home, left, deeper)]
  IN  answers[AliasDepth]

HomeOf(ref) == modules[ref.module].root

Target(ref) == Answers(HomeOf(ref))[Resolving(ref.module, ref.path, ref.colon)]

-----------------------------------------------------------------------------
(* The scan.                                                               *)

Register(module, root) ==
  LET known == module \in DOMAIN modules
      info == [root |-> root,
               children |-> IF known THEN modules[module].children ELSE {},
               aliases |-> IF known THEN modules[module].aliases ELSE <<>>]
      parent == Front(module)
  IN  [m \in DOMAIN modules \cup {module} |->
         IF m = module THEN info
         ELSE IF m = parent
           THEN [modules[m] EXCEPT !.children = @ \cup {Last(module)}]
           ELSE modules[m]]

Init ==
  /\ modules = <<>>
  /\ open = <<>>
  /\ refs = {}
  /\ read = {}
  /\ finished = FALSE
  /\ edges = {}

Here == Last(open)

(* add_target: the targets are read one after another.                     *)
AddTarget(root) ==
  /\ ~ finished
  /\ open = <<>>
  /\ root \notin DOMAIN modules
  /\ modules' = Register(root, root)
  /\ open' = << [module |-> root, gated |-> FALSE,
                 scope |-> IF root \in TestRoots THEN "test" ELSE "lib"] >>
  /\ UNCHANGED <<refs, read, finished, edges>>

(* A bug: a module that is not gated itself is library code.               *)
Mutant_OwnGateOnly(declared) == IF declared.gated THEN "test" ELSE "lib"

(* Code under a cfg(test) gate, however far above it, is test code.        *)
ScopeOf(declared) == IF declared.gated THEN "test" ELSE Here.scope

(* walk_mod: the module's items are read before the rest of its parent's.  *)
(* A module declared again, under another cfg, has its second body read    *)
(* into what the first one left.                                           *)
WalkMod(declared) ==
  /\ open # <<>>
  /\ Front(declared.module) = Here.module
  /\ modules' = Register(declared.module, modules[Here.module].root)
  /\ open' = Append(open, [module |-> declared.module, gated |-> declared.gated,
                           scope |-> ScopeOf(declared)])
  /\ UNCHANGED <<refs, read, finished, edges>>

(* An item of the body being read.                                         *)
Reads(item, kind) ==
  /\ open # <<>>
  /\ item.module = Here.module
  /\ item.under = \E k \in DOMAIN open : open[k].gated
  /\ item.kind = kind
  /\ item \notin read
  /\ Cardinality(read) < MaxItems
  /\ read' = read \cup {item}
  /\ UNCHANGED <<open, finished>>

(* The scope of what an item makes: that of the body, unless one of        *)
(* `gates` is the item's.                                                  *)
ItemScope(item, gates) == IF item.gate \in gates THEN "test" ELSE Here.scope

RawRef(item, path, scope) ==
  [module |-> item.module, path |-> path, colon |-> item.colon, scope |-> scope]

(* record_use: each leaf is a reference, and each imported name an alias;  *)
(* a later `use` of a name takes it over.                                  *)
RecordUse(item) ==
  LET leaves == Imports(item)
      named == {i \in DOMAIN leaves : leaves[i].name # ""}
      names == {leaves[i].name : i \in named}
      LastOf(name) == leaves[CHOOSE i \in named :
                               /\ leaves[i].name = name
                               /\ \A k \in named : leaves[k].name = name => k <= i].path
  IN  /\ Reads(item, "use")
      /\ modules' = [modules EXCEPT ![item.module].aliases =
                       [n \in DOMAIN @ \cup names |-> IF n \in names THEN LastOf(n) ELSE @[n]]]
      /\ refs' = refs \cup {RawRef(item, leaves[i].path, ItemScope(item, {"item"})) :
                              i \in DOMAIN leaves}
      /\ UNCHANGED edges

(* The Collector's paths: any gate around one counts.                      *)
CollectPath(item) ==
  /\ Reads(item, "path")
  /\ refs' = refs \cup {RawRef(item, item.path, ItemScope(item, {"item", "inside"}))}
  /\ UNCHANGED <<modules, edges>>

(* record_include: an edge to the file, of the whole item's scope.         *)
RecordInclude(item) ==
  /\ Reads(item, "include")
  /\ edges' = edges \cup {[from |-> item.module, to |-> item.file, onDisk |-> TRUE,
                           scope |-> ItemScope(item, {"item"}), via |-> "include"]}
  /\ UNCHANGED <<modules, refs>>

EndOfModule ==
  /\ open # <<>>
  /\ open' = Front(open)
  /\ UNCHANGED <<modules, refs, read, finished, edges>>

(* What a package's manifest declares: the crate by its name in code, and  *)
(* the directory it lies in when that is none of the workspace's.          *)
ManifestEdges ==
  LET Edge(d, to, onDisk) ==
        [from |-> <<Packages[d.package]>>, to |-> to, onDisk |-> onDisk,
         scope |-> IF d.dev THEN "test" ELSE "lib", via |-> "manifest"]
  IN  {Edge(d, <<d.crate>>, FALSE) : d \in Manifest}
      \cup {Edge(d, d.path, TRUE) :
              d \in {e \in Manifest : e.path # <<>> /\ e.on \notin DOMAIN Packages}}

(* finish: every path is resolved in the tables of the whole scan, and     *)
(* what leads nowhere, or back to its module, is no edge.                  *)
Finish ==
  /\ ~ finished
  /\ open = <<>>
  /\ modules # <<>>
  /\ finished' = TRUE
  /\ edges' = edges \cup ManifestEdges \cup
       {[from |-> r.module, to |-> Target(r), onDisk |-> FALSE, scope |-> r.scope,
         via |-> "path"] :
          r \in {ref \in refs : Target(ref) \notin {Nowhere, ref.module}}}
  /\ UNCHANGED <<modules, open, refs, read>>

Next ==
  \/ \E root \in Roots : AddTarget(root)
  \/ \E declared \in Declarations : WalkMod(declared)
  \/ \E item \in Items : RecordUse(item) \/ CollectPath(item) \/ RecordInclude(item)
  \/ EndOfModule
  \/ Finish

Spec == Init /\ [][Next]_vars

-----------------------------------------------------------------------------
(* What a path names, read one segment at a time: an alias is replaced by  *)
(* the path it was imported by, and reading goes on.  A reading is where   *)
(* it stands (`at`), the segments left, whether the next is a first one,   *)
(* where reading falls back to if an alias leads nowhere, how many aliases *)
(* it went through and, for each, how many segments follow it; and, once   *)
(* it has ended, what was named and whether every alias was a plain import *)
(* of a whole module or external path.                                     *)

(* The imports of a module by a name.                                      *)
Declared(module, name) ==
  UNION {{[path |-> leaf.path, colon |-> i.colon] :
            leaf \in {l \in {Imports(i)[k] : k \in DOMAIN Imports(i)} : l.name = name}} :
           i \in {j \in read : j.kind = "use" /\ j.module = module}}

(* An import the scan takes as it is written: the only one by its name,    *)
(* and without a leading `::`, which it does not keep (scan.rs:288).       *)
Plain(uses) == \A use, other \in uses : use = other /\ ~ use.colon

ReadOn(r, home) ==
  LET seg == Head(r.left)
      rest == Tail(r.left)
      To(at) == [r EXCEPT !.at = at, !.left = rest, !.first = FALSE, !.colon = FALSE]
      End(at, whole) == [r EXCEPT !.ended = TRUE, !.to = at, !.whole = whole]
      Stop(at) == End(at, \A n \in r.marks : n = 0 \/ n >= Len(r.left))
      Crate == IF <<seg>> \in DOMAIN modules THEN To(<<seg>>) ELSE End(r.left, TRUE)
      Through(uses) ==
        IF r.hops = AliasDepth \/ ~ Plain(uses) THEN End(Nowhere, FALSE)
        ELSE [r EXCEPT !.left = (CHOOSE use \in uses : TRUE).path \o rest,
                       !.first = TRUE,
                       !.back = IF r.first THEN @ ELSE r.at,
                       !.hops = @ + 1, !.marks = @ \cup {Len(rest)}]
  IN  IF r.left = <<>> THEN Stop(r.at)
      ELSE IF r.colon THEN Crate
      ELSE IF seg = "crate" /\ r.first THEN To(modules[r.at].root)
      ELSE IF seg = "self" THEN To(r.at)
      ELSE IF seg = "super" THEN To(ParentOf(r.at, modules[r.at].root))
      ELSE IF Append(r.at, seg) \in DOMAIN modules THEN To(Append(r.at, seg))
      ELSE IF Declared(r.at, seg) # {} /\ modules[r.at].root = home
        THEN Through(Declared(r.at, seg))
      ELSE IF ~ r.first THEN Stop(r.at)
      ELSE IF IsCrate(r.at, seg) THEN Crate
      ELSE Stop(r.back)

(* A step reads a segment or follows an alias, which adds its path.        *)
Longest ==
  Max({0} \cup UNION {{Len(Imports(i)[k].path) : k \in DOMAIN Imports(i)} :
                        i \in {j \in Items : j.kind = "use"}})

Named(ref) ==
  LET steps == Len(ref.path) + AliasDepth * (Longest + 1) + 1
      reading[k \in 0 .. steps] ==
        IF k = 0
        THEN [at |-> ref.module, left |-> ref.path, first |-> TRUE, colon |-> ref.colon,
              back |-> Nowhere, hops |-> 0, marks |-> {},
              ended |-> FALSE, to |-> Nowhere, whole |-> FALSE]
        ELSE LET r == reading[k - 1]
             IN  IF r.ended THEN r ELSE ReadOn(r, HomeOf(ref))
  IN  reading[steps]

-----------------------------------------------------------------------------
(* Properties of a finished scan.                                          *)

(* A path resolves to the module it names, whatever order modules, imports *)
(* and paths were read in, for every path that goes through at most        *)
(* AliasDepth imports, each of them plain, and of a whole module or        *)
(* external path: "the deepest workspace module it names, or to the        *)
(* external path as written" (scan.rs:314).                                *)
ResolvesToTheNamed ==
  finished =>
    \A ref \in refs :
      LET named == Named(ref)
      IN  named.whole => Target(ref) = named.to

(* A path that starts with an external crate's name, in a module where     *)
(* that name stands for nothing but the crate or something imported from   *)
(* it, stays "the external path as written" (scan.rs:315).                 *)
ExternalAsWritten ==
  finished =>
    \A ref \in refs :
      LET first == Head(ref.path)
      IN  /\ first \in Known(HomeOf(ref)) \ WorkspaceCrates
          /\ first \notin modules[ref.module].children
          /\ \A use \in Declared(ref.module, first) : Head(use.path) = first
          => Target(ref) = ref.path

(* A path into another crate ends at the module on that crate's public     *)
(* surface the path spells out, and follows no import of that crate.       *)
EndsAtThePublicSurface ==
  finished =>
    \A ref \in refs :
      LET first == Head(ref.path)
          spelled == {n \in 1 .. Len(ref.path) : SubSeq(ref.path, 1, n) \in DOMAIN modules}
      IN  /\ <<first>> \in DOMAIN modules
          /\ <<first>> # HomeOf(ref)
          /\ \/ ref.colon
             \/ /\ first \notin modules[ref.module].children
                /\ Declared(ref.module, first) = {}
          => \E n \in spelled : /\ \A k \in spelled : k <= n
                                /\ Target(ref) = SubSeq(ref.path, 1, n)

(* Every edge into a crate that was scanned ends at a registered module:   *)
(* no rule is asked of a target that is not there.                         *)
EdgesEndAtModules ==
  finished =>
    \A e \in edges :
      /\ ~ e.onDisk
      /\ <<Head(e.to)>> \in DOMAIN modules
      /\ Head(e.to) \in WorkspaceCrates
      => e.to \in DOMAIN modules

(* Test code: in a body of a test target, or under a gated `mod` however   *)
(* far above; or gated itself, as a whole or around the part in question.  *)
InTests(item) == modules[item.module].root \in TestRoots \/ item.under

IsTestCode(item) == InTests(item) \/ item.gate # "none"

TrueScope(item) == IF IsTestCode(item) THEN "test" ELSE "lib"

(* The paths an item writes, each a reference of the item's own scope.     *)
References(item) ==
  LET paths == CASE item.kind = "use"  -> {leaf.path : leaf \in Range(Imports(item))}
                 [] item.kind = "path" -> {item.path}
                 [] OTHER              -> {}
  IN  {RawRef(item, path, TrueScope(item)) : path \in paths}

WrittenRefs == UNION {References(item) : item \in read}

(* The references of code are those its items write, none lost, none made  *)
(* up, and each is test code's exactly if the item is: if its target is a  *)
(* test, a cfg(test) gate lies on it or around it, or above its module     *)
(* anywhere up to the target's root.  (Two items of a module, one of them  *)
(* gated, may write the same path: then there are two edges.)              *)
TestCodeIsMarked ==
  finished =>
    {e \in edges : e.via = "path"} =
      {[from |-> r.module, to |-> Target(r), onDisk |-> FALSE, scope |-> r.scope,
        via |-> "path"] :
         r \in {ref \in WrittenRefs : Target(ref) \notin {Nowhere, ref.module}}}

(* An included file is test-only code's, if every item of the module that  *)
(* includes it is: "`#[cfg(test)]` items and modules" (model.rs:7), and    *)
(* scan.test.rs:237 has a gated method among the items.                    *)
IncludesAreMarked ==
  finished =>
    \A e \in edges :
      e.via = "include" /\ e.scope = "lib" =>
        \E item \in read :
          /\ item.kind = "include" /\ item.module = e.from /\ item.file = e.to
          /\ ~ IsTestCode(item)

=============================================================================
