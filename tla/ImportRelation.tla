---------------------------- MODULE ImportRelation ----------------------------
(***************************************************************************)
(* What a registry's sources import: what the specifications of parsing a  *)
(* registry, the atomic one and the one step by step, have in common.      *)
(*                                                                         *)
(* Parsing a source is abstract: a source is absent, broken, or the        *)
(* sequence of its imports.                                                *)
(***************************************************************************)
EXTENDS Naturals, Sequences, FiniteSets

CONSTANTS
  Path,       \* import paths
  Root,       \* the path given to Registry::parse
  Registries, \* the registries callers build
  Limits,     \* the values of max_registry_files
  Absent,     \* no source is registered under a path
  Broken,     \* the source of a path does not parse
  None        \* no path, no reason

Import == [path : Path, kind : {"normal", "public", "weak"}]
Source == Seq(Import) \cup {Absent, Broken}
Reason == {"missing", "limit", "broken", "cycle"}

\* A registry is finite, and so are the imports its sources name.
ASSUME RegistryAssumption ==
  /\ Root \in Path /\ IsFiniteSet(Path)
  /\ Registries \subseteq [Path -> Source]
  /\ Limits \subseteq Nat
  /\ Absent # Broken /\ {Absent, Broken} \cap Seq(Import) = {}
  /\ None \notin Path \cup Reason /\ \A S \in SUBSET Path : S # None

VARIABLES
  registry,           \* Registry.sources, parsed
  max_registry_files  \* SchemaParseOptions.max_registry_files

input == <<registry, max_registry_files>>

Parsed(p) == registry[p] \notin {Absent, Broken}

\* The imports that the source of p declares.
ImportsOf(p) ==
  IF Parsed(p) THEN {registry[p][i] : i \in DOMAIN registry[p]} ELSE {}

Targets(p) == {import.path : import \in ImportsOf(p)}

Registered(S) == {p \in S : registry[p] # Absent}

\* S is closed under the imports that have a registered source.
Closed(S) == \A p \in S : Registered(Targets(p)) \subseteq S

\* The paths reachable from the root: in every closed set that has it.
Reachable == {p \in Path : \A S \in SUBSET Path : Root \in S /\ Closed(S) => p \in S}

\* The root and what an import that is not weak names in the paths of S.
NeededBy(S) ==
  {Root} \cup {p \in Path : \E q \in S : \E import \in ImportsOf(q) :
                              import.path = p /\ import.kind # "weak"}

\* Every member imports a member: what a cycle contains.
Cyclic(S) == S # {} /\ \A p \in S : Targets(p) \cap S # {}
=============================================================================
