----------------------------- MODULE ArchCheck ------------------------------
(***************************************************************************)
(* archlint's check of references against rules                            *)
(* (src/tools/archlint/src/rules.rs), whatever the rules and the           *)
(* references are.                                                         *)
(*                                                                         *)
(* A reference is an edge [from, to, scope] between paths of ArchMatch;    *)
(* `crates` are the names of the workspace's libraries.                    *)
(***************************************************************************)
EXTENDS ArchMatch

Self == <<"self">>

(* A rule's `allow` is optional: the set of the one list given.            *)
Rule(from, scope, allow, deny) ==
  [from |-> from, scope |-> scope, allow |-> {allow}, deny |-> deny]

(* A rule that only denies.                                                *)
Denial(from, scope, deny) == [Rule(from, scope, {}, deny) EXCEPT !.allow = {}]

(* parse: a rule that forbids nothing, or constrains no module, is refused.*)
WellFormed(rules) ==
  \A rule \in rules : rule.from # {} /\ (rule.allow # {} \/ rule.deny # {})

(* A bug: every rule is asked of every edge.                               *)
Mutant_AnyScope(rule, scope) == TRUE

Covers(rule, scope) == rule.scope \in {"all", scope}

(* A bug: `self` is left to mean the crate root.                           *)
Mutant_SelfIsTheCrate(p, from) ==
  IF ~ p.onDisk /\ p.segs # <<>> /\ Head(p.segs) = Self
  THEN [p EXCEPT !.segs = <<Head(from.segs)>> \o Tail(@)]
  ELSE p

(* A leading `self` is the module the edge leaves.                         *)
ExpandSelf(p, from) ==
  IF ~ p.onDisk /\ p.segs # <<>> /\ Head(p.segs) = Self
  THEN [p EXCEPT !.segs = from.segs \o Tail(@)]
  ELSE p

IsInternal(target, crates) == target.onDisk \/ Head(target.segs) \in crates

Hit(patterns, edge) ==
  \E p \in patterns : Matches(ExpandSelf(p, edge.from), edge.to)

(* A bug: the deny list is not read where there is an allow list.          *)
Mutant_AllowAlone(rule, edge, crates) ==
  /\ Covers(rule, edge.scope)
  /\ \E p \in rule.from : Matches(p, edge.from)
  /\ \/ rule.allow = {} /\ Hit(rule.deny, edge)
     \/ \E list \in rule.allow : IsInternal(edge.to, crates) /\ ~ Hit(list, edge)

Breaks(rule, edge, crates) ==
  /\ Covers(rule, edge.scope)
  /\ \E p \in rule.from : Matches(p, edge.from)
  /\ \/ Hit(rule.deny, edge)
     \/ \E list \in rule.allow : IsInternal(edge.to, crates) /\ ~ Hit(list, edge)

(* check: each edge alone, a module's reference to itself never.           *)
Violations(rules, graph, crates) ==
  UNION {{<<rule, edge>> : edge \in
           {e \in graph : e.from # e.to /\ Breaks(rule, e, crates)}} : rule \in rules}

(* The `from` patterns no module matches.                                  *)
UnmatchedFrom(rules, paths) ==
  {p \in UNION {rule.from : rule \in rules} : \A m \in paths : ~ Matches(p, m)}

=============================================================================
