---------------------------- MODULE MCArchRules -----------------------------
(***************************************************************************)
(* The modules of the engine and of the conformance crate, and every       *)
(* reference, of library code, between six of the engine's: the crate root *)
(* (of the kernel), the error vocabulary, two components, a submodule of   *)
(* one, and the router.  Test code, the other crate and external types     *)
(* have a reference or two each.                                           *)
(***************************************************************************)
EXTENDS ArchRules

MCLetters == RuleNames \cup {"archlint", "fold", "c_void", "fmt", "self"}

MCModules ==
  {Engine, Path1("conformance")}
  \cup {EngineModule(m) : m \in
          {"send", "error", "rebuild", "context", "router"} \cup Components}
  \cup {InCode(<<N("engine"), N("domain"), N("fold")>>)}

Connected ==
  {Engine, EngineModule("error"), EngineModule("domain"),
   InCode(<<N("engine"), N("domain"), N("fold")>>), EngineModule("policy"),
   EngineModule("router")}

Edge(from, to, scope) == [from |-> from, to |-> to, scope |-> scope]

AllCandidates ==
  {Edge(from, to, "lib") : from, to \in Connected}
  \cup {Edge(EngineModule("domain"), EngineModule("policy"), "test"),
        Edge(EngineModule("error"), Path1("conformance"), "test"),
        Edge(EngineModule("router"), Path1("conformance"), "lib"),
        Edge(Path1("conformance"), EngineModule("router"), "lib"),
        Edge(EngineModule("router"), InCode(<<N("std"), N("ffi"), N("c_void")>>), "lib"),
        Edge(EngineModule("error"), InCode(<<N("std"), N("fmt")>>), "lib")}

(* A scan drops the reference of a module to itself.                      *)
MCCandidates == {e \in AllCandidates : e.from # e.to}

=============================================================================
