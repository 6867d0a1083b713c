----------------------------- MODULE ArchRules ------------------------------
(***************************************************************************)
(* archlint's rule check (src/tools/archlint/src/rules.rs) over this       *)
(* repository's own rules (src/archlint.toml), as the gate CI puts before  *)
(* every change: the module graph grows one reference at a time, and only  *)
(* a graph archlint accepts is merged.                                     *)
(*                                                                         *)
(* A reference is an edge [from, to, scope]; from and to are paths of      *)
(* ArchMatch, a name being a segment of one letter.  The crate names are   *)
(* shortened: engine (angzarr_router), conformance                         *)
(* (angzarr_router_conformance).                                           *)
(***************************************************************************)
EXTENDS ArchCheck, FiniteSets

CONSTANTS
  Registered,       \* the modules a scan registers
  Candidates,       \* the references changes may add
  Libraries         \* the names of the workspace's libraries

VARIABLE merged     \* the references of the code merged so far

(* The names of paths and patterns: one letter each.                       *)
N(name) == <<name>>
Path1(a) == InCode(<<N(a)>>)
Path2(a, b) == InCode(<<N(a), N(b)>>)

(* The names the rules are written with.                                   *)
RuleNames ==
  {"engine", "conformance", "send", "error", "rebuild", "context", "router",
   "domain", "policy", "projector", "upcaster", "fixture", "std", "core", "ffi",
   "os", "raw", "libc"}

(* A scan registers modules of the workspace's crates, and an edge leaves  *)
(* one of them.                                                            *)
ASSUME GateAssumption ==
  /\ RuleNames \cup Libraries \subseteq Letters
  /\ {"engine", "conformance"} \subseteq Libraries
  /\ \A m \in Registered : /\ IsPath(m) /\ ~ m.onDisk /\ m.segs # <<>>
                           /\ \E c \in Libraries : Head(m.segs) = N(c)
  /\ IsFiniteSet(Candidates)
  /\ \A e \in Candidates : /\ e.from \in Registered
                           /\ IsPath(e.to) /\ e.to.segs # <<>>
                           /\ e.scope \in {"lib", "test"}

-----------------------------------------------------------------------------
(* The rules of src/archlint.toml.                                         *)

Engine == Path1("engine")
EngineModule(name) == Path2("engine", name)
Kernel == {Engine, Under(EngineModule("error")), Under(EngineModule("rebuild")),
           Under(EngineModule("context"))}
Components == {"domain", "policy", "projector", "upcaster"}
Own == Under(InCode(<<Self>>))

CTypes == {Path2("std", "ffi"), Path2("core", "ffi"),
           InCode(<<N("std"), N("os"), N("raw")>>), Path1("libc")}

EngineIsTheBottom ==
  Rule({Under(Engine)}, "all", {Under(Engine)}, {Under(c) : c \in CTypes})

ConformanceDrivesTheEngine ==
  Rule({Under(Path1("conformance"))}, "lib",
       {Under(Path1("conformance")), Under(Engine), Under(OnDisk(<<N("fixture")>>))}, {})

ConformanceTests ==
  Rule({Under(Path1("conformance"))}, "test",
       {Under(Path1("conformance")), Under(Engine)}, {})

SendIsALeaf ==
  Rule({Under(EngineModule("send"))}, "lib", {Under(EngineModule("send"))}, {})

ErrorIsALeaf ==
  Rule({Under(EngineModule("error"))}, "lib", {Under(EngineModule("error"))}, {})

KernelBelowComponents ==
  Rule({Engine, Under(EngineModule("rebuild")), Under(EngineModule("context"))},
       "lib", Kernel, {})

ComponentsAreIndependent ==
  Rule({Under(EngineModule(c)) : c \in Components}, "lib",
       {Own} \cup Kernel, {})

Rules ==
  {EngineIsTheBottom, ConformanceDrivesTheEngine, ConformanceTests, SendIsALeaf,
   ErrorIsALeaf, KernelBelowComponents, ComponentsAreIndependent}

Within(p, m) == IsPrefix(p.segs, m.segs)

InEngine(m) == Within(Engine, m)

(* Every module of the engine's library code is one of those the rules     *)
(* name: no rule but the crate's constrains another.                       *)
ASSUME LayerAssumption ==
  \A e \in Candidates :
    InEngine(e.from) /\ e.scope = "lib" =>
      \/ e.from = Engine
      \/ \E name \in {"send", "error", "rebuild", "context", "router"} \cup Components :
            Within(EngineModule(name), e.from)

-----------------------------------------------------------------------------
(* The check.                                                              *)

GateCrates == {N(c) : c \in Libraries}

(* An edge is checked alone, so what every candidate breaks is found once. *)
Breakings == Violations(Rules, Candidates, GateCrates)

(* The rules that constrain nothing.                                       *)
Stale == UnmatchedFrom(Rules, Registered)

(* archlint's exit status: success, or the failure CI stops at.            *)
Accepts(graph) ==
  /\ Stale = {}
  /\ \A v \in Breakings : v[2] \notin graph

-----------------------------------------------------------------------------
(* The repository under the gate.                                          *)

GateInit == merged = {}

AddReference(edge) ==
  /\ edge \notin merged
  /\ Accepts(merged \cup {edge})
  /\ merged' = merged \cup {edge}

DropReference(edge) ==
  /\ edge \in merged
  /\ Accepts(merged \ {edge})
  /\ merged' = merged \ {edge}

GateNext == \E edge \in Candidates : AddReference(edge) \/ DropReference(edge)

GateSpec == GateInit /\ [][GateNext]_merged

-----------------------------------------------------------------------------
(* Properties: what the rules are for (the `why` of each), transitively.   *)

(* What a module depends on, through any number of `scopes` references.    *)
Depends(from, scopes) ==
  LET used == {e \in merged : e.scope \in scopes}
      reach[n \in 0 .. Cardinality(used)] ==
        IF n = 0 THEN {from}
        ELSE LET near == reach[n - 1]
             IN  near \cup {e.to : e \in {f \in used : f.from \in near}}
  IN  reach[Cardinality(used)] \ {from}

ComponentOf(m) == {c \in Components : Within(EngineModule(c), m)}

IsRouter(m) == Within(EngineModule("router"), m)

(* No chain of accepted references makes library code of the kernel reach  *)
(* a component or the router, or one component reach another or the        *)
(* router: the rules look at one edge at a time, and still no way round    *)
(* them is open (a re-export in the crate root, a detour through a         *)
(* component's own submodule).                                             *)
LayersHoldAllTheWay ==
  \A m \in {e.from : e \in merged} :
    InEngine(m) /\ ~ IsRouter(m) =>
      \A t \in Depends(m, {"lib"}) :
        ~ IsRouter(t) /\ ComponentOf(t) \subseteq ComponentOf(m)

(* The Send bounds and the error vocabulary are leaves of the engine, and  *)
(* the engine, in test code too, reaches neither the conformance crate nor *)
(* a C type.                                                               *)
EngineStandsAlone ==
  \A m \in {e.from : e \in merged} :
    InEngine(m) =>
      /\ \A t \in Depends(m, {"lib", "test"}) :
           /\ ~ Within(Path1("conformance"), t)
           /\ \A c \in CTypes : ~ Within(c, t)
      /\ \A leaf \in {"send", "error"} :
           Within(EngineModule(leaf), m) =>
             \A t \in Depends(m, {"lib"}) :
               InEngine(t) => Within(EngineModule(leaf), t)

=============================================================================
