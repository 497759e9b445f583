----------------------------- MODULE ImportGraph -----------------------------
(***************************************************************************)
(* The import graph of a registry: the part of parse_registry that         *)
(* collects the sources reachable from a root, rejects cyclic imports      *)
(* (validate_import_cycles) and computes what each source sees             *)
(* (visible_import_paths).                                                 *)
(*                                                                         *)
(* Each iteration of a loop of the code is one step.  The vectors pending  *)
(* and public_frontier are sets here, popped in any order: which error is  *)
(* reported first may depend on it, what is accepted does not.             *)
(***************************************************************************)
EXTENDS ImportRelation

VARIABLES
  phase,              \* "loading", "cycles", "visibility", "accepted" or "error"
  reason,             \* why parsing failed
  pending,            \* paths still to load
  files,              \* paths loaded
  calls,              \* activations of validate_import_cycles, innermost last
  states,             \* 1: being visited, 2: visited
  visibility,         \* what each path sees, None before it is computed
  current,            \* the path visible_import_paths works on
  public_frontier     \* imports whose public imports are still to be exposed

vars == <<registry, max_registry_files, phase, reason, pending, files, calls,
          states, visibility, current, public_frontier>>

loading == <<pending, files>>
cycles  == <<calls, states>>
seeing  == <<visibility, current, public_frontier>>

Init ==
  /\ registry \in Registries
  /\ max_registry_files \in Limits
  /\ phase = "loading" /\ reason = None
  /\ pending = {Root} /\ files = {}
  /\ calls = <<>> /\ states = [p \in Path |-> 0]
  /\ visibility = [p \in Path |-> None]
  /\ current = None /\ public_frontier = {}

Fail(why) ==
  /\ phase' = "error" /\ reason' = why
  /\ UNCHANGED <<input, loading, cycles, seeing>>

-----------------------------------------------------------------------------
(* Loading.                                                                *)

\* Mutants: one file too many, every import required, weak imports never
\* followed, loaded files loaded again.
LimitReachedLate  == Cardinality(files) > max_registry_files
RequiredAlways(import) == TRUE
FollowRequired(p) == Registered({i.path : i \in {j \in ImportsOf(p) : j.kind # "weak"}})
NeverLoaded(p)    == FALSE

LimitReached == Cardinality(files) >= max_registry_files
Required(import) == import.kind # "weak"
Follow(p)    == Registered(Targets(p))
Loaded(p)    == p \in files

\* The check that refuses to load a path, in the order of the code.
Refusal(p) ==
  CASE registry[p] = Absent -> "missing"
    [] registry[p] # Absent /\ LimitReached -> "limit"
    [] registry[p] = Broken /\ ~LimitReached -> "broken"
    [] Parsed(p) /\ ~LimitReached /\
       (\E import \in ImportsOf(p) : Required(import) /\ registry[import.path] = Absent)
         -> "missing"
    [] OTHER -> None

Load(p) ==
  /\ phase = "loading" /\ p \in pending
  /\ IF Loaded(p)
     THEN pending' = pending \ {p} /\ UNCHANGED <<input, phase, reason, files, cycles, seeing>>
     ELSE IF Refusal(p) # None THEN Fail(Refusal(p))
     ELSE /\ pending' = (pending \ {p}) \cup Follow(p)
          /\ files' = files \cup {p}
          /\ UNCHANGED <<input, phase, reason, cycles, seeing>>

-----------------------------------------------------------------------------
(* validate_import_cycles: a depth-first visit.                            *)

Activation(p) == [path |-> p, next |-> 1]

BeginCycles ==
  /\ phase = "loading" /\ pending = {}
  /\ phase' = "cycles"
  /\ calls' = <<Activation(Root)>>
  /\ states' = [states EXCEPT ![Root] = 1]
  /\ UNCHANGED <<input, reason, loading, seeing>>

Top      == calls[Len(calls)]
Advanced == [calls EXCEPT ![Len(calls)].next = @ + 1]

\* Mutant: only a path that imports itself is noticed.
ImportsItself(p) == p = Top.path

Visits(p)       == p \in files
BeingVisited(p) == states[p] = 1

\* One iteration over the imports of the innermost activation.
VisitImport ==
  /\ phase = "cycles" /\ calls # <<>> /\ Top.next <= Len(registry[Top.path])
  /\ LET p == registry[Top.path][Top.next].path
     IN  IF Visits(p) /\ BeingVisited(p) THEN Fail("cycle")
         ELSE /\ IF Visits(p) /\ states[p] = 0
                 THEN /\ calls' = Append(Advanced, Activation(p))
                      /\ states' = [states EXCEPT ![p] = 1]
                 ELSE calls' = Advanced /\ UNCHANGED states
              /\ UNCHANGED <<input, phase, reason, loading, seeing>>

LeaveVisit ==
  /\ phase = "cycles" /\ calls # <<>> /\ Top.next > Len(registry[Top.path])
  /\ calls' = SubSeq(calls, 1, Len(calls) - 1)
  /\ states' = [states EXCEPT ![Top.path] = 2]
  /\ UNCHANGED <<input, phase, reason, loading, seeing>>

EndCycles ==
  /\ phase = "cycles" /\ calls = <<>>
  /\ phase' = "visibility"
  /\ UNCHANGED <<input, reason, loading, cycles, seeing>>

-----------------------------------------------------------------------------
(* visible_import_paths, for each loaded path.                             *)

PublicTargets(p) == {i.path : i \in {j \in ImportsOf(p) : j.kind = "public"}} \cap files

\* Mutant: an importer sees every import of what it sees.
NewlyOfAny(p) == (Targets(p) \cap files) \ visibility[current]

\* What p re-exports and the current path does not see yet.
Newly(p) == PublicTargets(p) \ visibility[current]

ExposeDirect(p) ==
  /\ phase = "visibility" /\ current = None
  /\ p \in files /\ visibility[p] = None
  /\ LET direct == (Targets(p) \cap files) \ {p}
     IN  /\ visibility' = [visibility EXCEPT ![p] = {p} \cup direct]
         /\ public_frontier' = direct
  /\ current' = p
  /\ UNCHANGED <<input, phase, reason, loading, cycles>>

ExposePublic(p) ==
  /\ phase = "visibility" /\ p \in public_frontier
  /\ visibility' = [visibility EXCEPT ![current] = @ \cup Newly(p)]
  /\ public_frontier' = (public_frontier \ {p}) \cup Newly(p)
  /\ UNCHANGED <<input, phase, reason, loading, cycles, current>>

EndExposure ==
  /\ phase = "visibility" /\ current # None /\ public_frontier = {}
  /\ current' = None
  /\ UNCHANGED <<input, phase, reason, loading, cycles, visibility, public_frontier>>

Accept ==
  /\ phase = "visibility" /\ current = None
  /\ \A p \in files : visibility[p] # None
  /\ phase' = "accepted"
  /\ UNCHANGED <<input, reason, loading, cycles, seeing>>

Terminated == phase \in {"accepted", "error"} /\ UNCHANGED vars

Next ==
  \/ \E p \in Path : Load(p) \/ ExposeDirect(p) \/ ExposePublic(p)
  \/ BeginCycles
  \/ VisitImport
  \/ LeaveVisit
  \/ EndCycles
  \/ EndExposure
  \/ Accept
  \/ Terminated

\* A sequence of loops that wait for nothing.
Spec == Init /\ [][Next]_vars /\ WF_vars(Next)

-----------------------------------------------------------------------------
(* Properties.                                                             *)

\* Every variable has its type.  In particular the visit never enters a path
\* whose source is not loaded (the code would report an import as not found),
\* and visibility names loaded sources only.
TypeOK ==
  /\ registry \in [Path -> Source] /\ max_registry_files \in Nat
  /\ phase \in {"loading", "cycles", "visibility", "accepted", "error"}
  /\ reason \in Reason \cup {None}
  /\ pending \subseteq Path
  /\ files \subseteq {p \in Path : Parsed(p)}
  /\ calls \in Seq([path : files, next : Nat \ {0}])
  /\ states \in [Path -> {0, 1, 2}]
  /\ visibility \in [Path -> (SUBSET files) \cup {None}]
  /\ current \in files \cup {None}
  /\ public_frontier \subseteq files

\* Exactly the reachable sources are loaded, whatever the order, the cycles and
\* the missing weak imports: never one that is not imported, and all of them
\* once loading ends.
LoadedExactly ==
  /\ files \subseteq Reachable
  /\ phase \notin {"loading", "error"} => files = Reachable

\* max_registry_files bounds the files kept, and refuses only a graph that is
\* larger.
WithinFileLimit ==
  /\ Cardinality(files) <= max_registry_files
  /\ reason = "limit" => Cardinality(Reachable) > max_registry_files

\* A missing source is an error only where an import requires it (or it is the
\* root), and nothing accepted requires a missing source.
MissingJustified ==
  /\ reason = "missing" => \E p \in NeededBy(Reachable) : registry[p] = Absent
  /\ phase \notin {"loading", "error"} => \A p \in NeededBy(files) : registry[p] # Absent

\* A graph that passes has no import cycle, a graph refused for a cycle has one.
CyclesRejected ==
  /\ phase \in {"visibility", "accepted"} => \A S \in SUBSET files : ~Cyclic(S)
  /\ reason = "cycle" => \E S \in SUBSET files : Cyclic(S)

\* No registry is refused for a limit, a missing source or a cycle without having
\* that defect, and none is accepted that has one.
RefusalsExact == WithinFileLimit /\ MissingJustified /\ CyclesRejected

\* What p may see: itself, its imports, and what a visible path re-exports.
Exposes(p, S) ==
  /\ p \in S /\ Targets(p) \cap files \subseteq S
  /\ \A q \in S : PublicTargets(q) \subseteq S

\* The visibility computed for a path is the least set that it may see.
VisibilityExact ==
  \A p \in files : visibility[p] # None =>
    /\ \A S \in SUBSET files : Exposes(p, S) => visibility[p] \subseteq S
    /\ p # current => Exposes(p, visibility[p])
=============================================================================
