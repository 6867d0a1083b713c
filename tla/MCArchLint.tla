----------------------------- MODULE MCArchLint -----------------------------
(***************************************************************************)
(* A workspace of two crates and a test target, with imports that chain,   *)
(* circle, cross crates and leave the workspace, a package that lies       *)
(* outside it, a module declared twice, and rules files that permit,       *)
(* forbid and constrain nothing; and two small ones, for an import that is *)
(* read otherwise than it is written, and for a file that test code alone  *)
(* includes.                                                               *)
(***************************************************************************)
EXTENDS ArchLint

App == <<"app">>
M == <<"app", "m">>
N == <<"app", "m", "n">>
T == <<"app", "t">>
Base == <<"base">>
Test == <<"app", "test#it">>

MCPackages == [p \in {"the-app", "base"} |-> IF p = "base" THEN "base" ELSE "app"]

(* The app depends on base, by two names, on an external crate, in its     *)
(* tests on another, and on one that lies beside the workspace.            *)
MCManifest ==
  {Dependency("the-app", "base", "base", FALSE, <<"base">>),
   Dependency("the-app", "base", "b2", TRUE, <<"base">>),
   Dependency("the-app", "ext", "ext", FALSE, <<>>),
   Dependency("the-app", "n", "n", TRUE, <<>>),
   Dependency("the-app", "side", "side", FALSE, <<"up", "side">>)}

MCRoots == {App, Base, Test}

MCTestRoots == {Test}

Mod(module) == [module |-> module, gated |-> FALSE]
GatedMod(module) == [module |-> module, gated |-> TRUE]

(* The module m is gated, and so is what it holds; t is declared twice,    *)
(* for the tests and for all else.                                         *)
MCDeclarations ==
  {GatedMod(M), Mod(N), Mod(T), GatedMod(T), Mod(<<"base", "c">>)}

MCItems ==
  {UseItem(App, Below("self", Below("m", Rename("n", "a")))),
   UseItem(App, Below("ext", Rename("x", "b"))),
   UnderGate(UseItem(M, Below("super", Name("a")))),
   UnderGate(UseItem(M, Below("self", Rename("b", "c")))),
   UnderGate(UseItem(M, Below("self", Rename("c", "b")))),
   UnderGate(UseItem(N, Below("crate", Rename("t", "b")))),
   Absolute(UnderGate(UseItem(N, Below("base", Rename("c", "b"))))),
   UnderGate(PathItem(N, <<"b", "f">>)),
   UseItem(T, Below("base", Below("c", Group(<<Rename("self", "d"), Name("item")>>)))),
   UnderGate(UseItem(T, Below("crate", Below("m", Group(<<Name("self"), Glob>>))))),
   UseItem(Base, Below("self", Rename("c", "d"))),
   UnderGate(PathItem(M, <<"a", "b", "f">>)),
   PathItem(T, <<"crate", "m", "b", "f">>),
   Gated(PathItem(T, <<"super", "b", "f">>)),
   GatedInside(PathItem(Base, <<"super", "c", "f">>)),
   PathItem(Test, <<"app", "a", "f">>),
   PathItem(Test, <<"super", "m", "f">>),
   PathItem(Test, <<"base", "d", "f">>),
   GatedInside(IncludeItem(T, <<"data", "f">>)),
   Gated(IncludeItem(Base, <<"data", "f">>))}

-----------------------------------------------------------------------------
(* Names in letters; two share their first.                                *)

LettersOf(name) ==
  CASE name = "ext" -> <<"e", "x">>
    [] name = "test#it" -> <<"t", "i">>
    [] OTHER -> <<name>>

MCNames ==
  {"app", "m", "n", "t", "test#it", "base", "c", "d", "f", "x", "b", "a", "ext", "item",
   "side", "up", "data", "b2", "other", "crate", "self", "super"}

MCLetters == (MCNames \cup {"e", "x", "t", "i"}) \ {"ext", "test#it"}

MCSpelling == [name \in MCNames |-> LettersOf(name)]

One == <<"*">>
All == DoubleStar
L(name) == LettersOf(name)

(* The app keeps to itself and to base's surface; base keeps to itself;    *)
(* no t, whichever, names the external crate; base's c is nobody's; what   *)
(* is on disk, the app may read alone; the wildcards, and `self`.          *)
Layers ==
  {Rule({InCode(<<L("app"), All>>)}, "all", {InCode(<<L("app"), All>>), InCode(<<L("base")>>),
                                        OnDisk(<<All, L("side")>>)}, {}),
   Rule({InCode(<<L("base")>>), InCode(<<L("base"), One, All>>)}, "lib", {InCode(<<L("base"), All>>)}, {})}

NoExternals ==
  {Denial({InCode(<<All, <<"t", "*">> >>)}, "lib", {InCode(<<L("ext"), All>>)}),
   Denial({InCode(<<L("app"), All>>)}, "test", {InCode(<<All, L("x"), All, L("f")>>)})}

BaseIsShut ==
  {Denial({InCode(<<L("app"), <<"*", "t">>, All>>), InCode(<<One>>)}, "all",
          {InCode(<<L("base"), L("c"), All>>), OnDisk(<<L("data"), All>>)})}

OwnCodeOnly ==
  {Rule({InCode(<<L("app"), One>>)}, "lib", {InCode(<<Self, All>>), InCode(<<L("app"), All, L("n")>>)},
        {InCode(<<Self, One>>)})}

(* No module is named so; and a rule that says nothing.                    *)
NoSuchModule == {Denial({InCode(<<L("app"), All, L("x")>>)}, "all", {InCode(<<One>>)})}
SaysNothing == {Denial({InCode(<<All>>)}, "all", {})}

MCRuleFiles ==
  {Layers, NoExternals, BaseIsShut, OwnCodeOnly, NoSuchModule, SaysNothing}

(* Patterns of up to three segments against paths of up to three, and      *)
(* one-segment patterns of up to four letters against segments of up to    *)
(* three.                                                                  *)
PatternSegments == {<<"a">>, <<"*">>, <<"*", "*">>, <<"a", "*">>, <<"*", "b">>}

PathSegments == {<<"a">>, <<"b">>, <<"a", "b">>}

MCPatterns ==
  {InCode(p) : p \in SeqOf(PatternSegments, 3)}
  \cup {InCode(<<seg>>) : seg \in SeqOf({"a", "b", "*"}, 4) \ {<<>>}}
  \cup {OnDisk(<< <<"a">>, DoubleStar>>)}

MCPaths ==
  {InCode(q) : q \in SeqOf(PathSegments, 3)}
  \cup {InCode(<<seg>>) : seg \in SeqOf({"a", "b"}, 3) \ {<<>>}}
  \cup {OnDisk(<< <<"a">> >>), OnDisk(<< <<"a">>, <<"b">> >>)}

-----------------------------------------------------------------------------
(* A macro imported from the crate of its name, and another item of it.    *)
MCSameName ==
  {UseItem(T, Below("ext", Name("ext"))), PathItem(T, <<"ext", "other">>)}

(* A file included by a gated method alone.                                *)
MCTestData == {GatedInside(IncludeItem(T, <<"data", "f">>))}

=============================================================================
