------------------------------ MODULE ArchLint ------------------------------
(***************************************************************************)
(* A run of archlint (src/tools/archlint/src/main.rs) from the source text *)
(* to its exit status: the scan of ArchScan builds the model, the rules    *)
(* file is loaded, and the check of ArchCheck is asked of every edge.      *)
(*                                                                         *)
(* The scan works on names and the patterns on letters: `Spelling` gives   *)
(* the letters of each name.  (The flag --edges, which lists the edges and *)
(* checks nothing, is left out, and so are arguments that do not parse.)   *)
(***************************************************************************)
EXTENDS ArchScan, ArchCheck

CONSTANTS
  RuleFiles,        \* the rules files there may be, each a set of rules
  Spelling,         \* the letters of each name
  Patterns, Paths   \* what the matcher alone is asked about

ASSUME SpellingAssumption ==
  /\ Spelling \in [Names -> Seq(Letters)]
  /\ \A a, b \in Names : Spelling[a] = Spelling[b] => a = b

ASSUME PatternAssumption ==
  /\ \A file \in RuleFiles : \A rule \in file :
       /\ \A p \in rule.from \cup rule.deny : IsPattern(p)
       /\ \A list \in rule.allow : \A p \in list : IsPattern(p)
  /\ \A p \in Patterns : IsPattern(p)
  /\ \A q \in Paths : IsPath(q)

VARIABLES
  status,           \* none yet, or the exit: "clean", "violations", "error"
  rules,            \* the rules loaded
  report            \* the violations printed: <<rule, edge>>

lintVars == <<vars, status, rules, report>>

Spell(path) == [i \in DOMAIN path |-> Spelling[path[i]]]

SpelledEdge(e) ==
  [from |-> InCode(Spell(e.from)),
   to |-> IF e.onDisk THEN OnDisk(Spell(e.to)) ELSE InCode(Spell(e.to)),
   scope |-> e.scope]

Crates == {Spelling[c] : c \in WorkspaceCrates}

ModulePaths == {InCode(Spell(m)) : m \in DOMAIN modules}

LintInit ==
  /\ Init
  /\ status = "none"
  /\ rules = {}
  /\ report = {}

Scan == status = "none" /\ Next /\ UNCHANGED <<status, rules, report>>

(* metadata, walk_file: cargo has no metadata to give, or the source of    *)
(* the target or the module to be walked next cannot be read or parsed.    *)
(* The run ends before the model is built, and before the rules are read.  *)
ScanFails ==
  /\ status = "none" /\ ~ finished
  /\ \/ modules = <<>>
     \/ open = <<>> /\ \E root \in Roots : root \notin DOMAIN modules
     \/ open # <<>> /\ \E d \in Declarations : Front(d.module) = Here.module
  /\ status' = "error"
  /\ UNCHANGED <<vars, rules, report>>

(* load and unmatched_from: what ends the run before anything is checked.  *)
Usable(file) == WellFormed(file) /\ UnmatchedFrom(file, ModulePaths) = {}

(* run, once the model is built.                                           *)
Lint(file) ==
  LET found == Violations(file, {SpelledEdge(e) : e \in edges}, Crates)
  IN  /\ finished
      /\ status = "none"
      /\ rules' = file
      /\ IF Usable(file)
         THEN /\ status' = IF found = {} THEN "clean" ELSE "violations"
              /\ report' = found
         ELSE status' = "error" /\ report' = {}
      /\ UNCHANGED vars

LintNext == Scan \/ ScanFails \/ \E file \in RuleFiles : Lint(file)

LintSpec == LintInit /\ [][LintNext]_lintVars

-----------------------------------------------------------------------------
(* What the rules file says, by the language of its patterns and by what   *)
(* the source names: neither the matcher nor the resolver is asked.        *)

(* What a pattern of a list stands for, seen from a module.                *)
Meant(p, from) ==
  IF ~ p.onDisk /\ p.segs # <<>> /\ Head(p.segs) = Self
  THEN InCode(from.segs \o Tail(p.segs))
  ELSE p

Forbids(rule, e) ==
  LET In(list) == \E p \in list : PathDenotes(Meant(p, e.from), e.to)
      inside == e.to.onDisk \/ \E c \in Crates : IsPrefix(<<c>>, e.to.segs)
  IN  /\ e.from # e.to
      /\ rule.scope \in {"all", e.scope}
      /\ \E p \in rule.from : PathDenotes(p, e.from)
      /\ \/ In(rule.deny)
         \/ \E list \in rule.allow : inside /\ ~ In(list)

Binds(rule) ==
  /\ rule.deny # {} \/ rule.allow # {}
  /\ rule.from # {}
  /\ \A p \in rule.from : \E m \in ModulePaths : PathDenotes(p, m)

(* The references the source writes whose reading is sure (see             *)
(* ResolvesToTheNamed), with what they name, and the files it includes but *)
(* for those of a gated part of library code (see IncludesAreMarked).      *)
Written ==
  {[from |-> InCode(Spell(r.module)), to |-> InCode(Spell(Named(r).to)), scope |-> r.scope] :
     r \in {ref \in WrittenRefs : /\ Named(ref).whole
                                  /\ Named(ref).to # Nowhere}}
  \cup {[from |-> InCode(Spell(i.module)), to |-> OnDisk(Spell(i.file)), scope |-> TrueScope(i)] :
          i \in {j \in read : /\ j.kind = "include"
                              /\ j.gate = "inside" => InTests(j)}}

-----------------------------------------------------------------------------
(* Properties.                                                             *)

(* Exit status 0 is worth something: every rule of the file constrains a   *)
(* module there is, no reference it forbids, of those whose reading is     *)
(* sure, is written anywhere under any name an import gave it, and none is *)
(* declared in a manifest by the crate's own name.                         *)
CleanMeansKept ==
  status = "clean" =>
    \A rule \in rules :
      /\ Binds(rule)
      /\ \A e \in Written : ~ Forbids(rule, e)
      /\ \A d \in Manifest :
           ~ Forbids(rule, [from |-> InCode(Spell(<<Packages[d.package]>>)),
                            to |-> InCode(Spell(<<d.crate>>)),
                            scope |-> IF d.dev THEN "test" ELSE "lib"])

(* A change is never refused for what the rules permit: each violation is  *)
(* of an edge of the model (with the scope the scan marked it with), and   *)
(* of a rule that forbids it.  Exit status 2 reports no violation: the     *)
(* model was not built, or a rule constrains nothing.                      *)
OnlyTheForbiddenIsReported ==
  /\ \A v \in report :
       /\ Forbids(v[1], v[2])
       /\ \E e \in edges : v[2] = SpelledEdge(e)
  /\ status = "violations" => report # {}
  /\ status = "error" =>
       report = {} /\ (finished => \E rule \in rules : ~ Binds(rule))

(* A path matches a pattern exactly when it is in the pattern's language:  *)
(* * stays within one segment, ** spans zero or more, and the backtracking *)
(* of segments_match and segment_match misses no way to cut the path.  It  *)
(* is no matter of the scan, and asked once, before anything is read.      *)
MatchesIsItsLanguage ==
  modules = <<>> =>
    \A p \in Patterns, q \in Paths : Matches(p, q) <=> PathDenotes(p, q)

=============================================================================
