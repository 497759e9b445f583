------------------------------ MODULE Registry ------------------------------
(***************************************************************************)
(* What loading a registry promises its caller, as one atomic step: the    *)
(* reachable sources are accepted together, with what each of them sees,   *)
(* or the registry is refused for a defect that it has.                    *)
(***************************************************************************)
EXTENDS ImportRelation

VARIABLES
  outcome,    \* "parsing", "accepted" or the reason of the refusal
  visibility  \* what each source sees, None before it is accepted

vars == <<registry, max_registry_files, outcome, visibility>>

\* The defects that stop loading.  When there are several, the order in which
\* sources are loaded decides which one is reported.
LoadingDefects ==
  {why \in {"missing", "broken", "limit"} :
     \/ why = "missing" /\ \E p \in NeededBy(Reachable) : registry[p] = Absent
     \/ why = "broken"  /\ \E p \in Reachable : registry[p] = Broken
     \/ why = "limit"   /\ Cardinality(Reachable) > max_registry_files}

\* A cycle is looked for once everything is loaded.
Defects ==
  IF LoadingDefects = {} /\ \E S \in SUBSET Reachable : Cyclic(S)
  THEN {"cycle"} ELSE LoadingDefects

\* What p may see of the sources in R: a set with p, what p imports, and what
\* a member of the set re-exports.
Exposed(p, S, R) ==
  /\ p \in S /\ Targets(p) \cap R \subseteq S
  /\ \A q \in S : \A import \in ImportsOf(q) :
       import.kind = "public" /\ import.path \in R => import.path \in S

\* The least such set.
Sees(p, R) == {q \in R : \A S \in SUBSET R : Exposed(p, S, R) => q \in S}

Init ==
  /\ registry \in Registries /\ max_registry_files \in Limits
  /\ outcome = "parsing" /\ visibility = None

Accept ==
  /\ outcome = "parsing" /\ outcome' = "accepted"
  /\ Defects = {}
  /\ visibility' = LET R == Reachable IN [p \in R |-> Sees(p, R)]
  /\ UNCHANGED input

Refuse ==
  /\ outcome = "parsing" /\ outcome' \in Reason
  /\ outcome' \in Defects
  /\ UNCHANGED <<input, visibility>>

Next == Accept \/ Refuse

\* Always possible while parsing, since a registry has a defect or none.
Decided == <>(outcome # "parsing")

Spec == Init /\ [][Next]_vars /\ Decided
=============================================================================
