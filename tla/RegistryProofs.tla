--------------------------- MODULE RegistryProofs ---------------------------
(***************************************************************************)
(* For every registry and every file limit: exactly the reachable sources  *)
(* are loaded, each error has its cause, no accepted graph has a cycle,    *)
(* each source sees exactly what its imports expose, and the loops of      *)
(* parse_registry implement the atomic specification: each of their steps  *)
(* is a step of it or changes nothing a caller sees.                       *)
(*                                                                         *)
(* The inductive invariant has a part for each phase.  The one about the   *)
(* visit is that of depth-first search: the activations are a chain of     *)
(* imports, and the visited paths import visited paths only, without a     *)
(* cycle among them.                                                       *)
(***************************************************************************)
EXTENDS RegistryRefinement, SequenceTheorems, FiniteSetTheorems, TLAPS

\* The paths found so far are reachable, and those that the loaded ones
\* import are found.
LoadInv ==
  /\ Root \in files \cup pending
  /\ files \cup pending \subseteq Reachable
  /\ \A p \in files : Registered(Targets(p)) \subseteq files \cup pending
  /\ phase \notin {"loading", "error"} => pending = {}

\* What loading has checked.
CheckInv ==
  /\ Cardinality(files) <= max_registry_files
  /\ \A p \in pending : p = Root \/ registry[p] # Absent
  /\ \A p \in files : \A import \in ImportsOf(p) :
       import.kind # "weak" => registry[import.path] # Absent

\* The k-th import of p.
ImportAt(p, k) == registry[p][k].path

Done(p) == states[p] = 2

\* An activation has visited the imports before next, but for the last one
\* while its own activation lasts.
Explored(i) ==
  \A k \in 1 .. calls[i].next - 1 :
    ImportAt(calls[i].path, k) \in files =>
      \/ Done(ImportAt(calls[i].path, k))
      \/ i < Len(calls) /\ ImportAt(calls[i].path, k) = calls[i + 1].path

CallsInv ==
  /\ \A i \in 1 .. Len(calls) :
       calls[i].next <= Len(registry[calls[i].path]) + 1 /\ Explored(i)
  /\ \A i, j \in 1 .. Len(calls) : calls[i].path = calls[j].path => i = j
  /\ \A i \in 1 .. Len(calls) - 1 : calls[i + 1].path \in Targets(calls[i].path)
  /\ \A p \in Path : BeingVisited(p) <=> \E i \in 1 .. Len(calls) : calls[i].path = p

DoneInv ==
  /\ \A p \in Path : Done(p) => p \in files /\ \A q \in Targets(p) \cap files : Done(q)
  /\ \A S \in SUBSET {p \in Path : Done(p)} : ~Cyclic(S)

VisitInv ==
  /\ CallsInv
  /\ DoneInv
  /\ phase = "loading" => calls = <<>> /\ \A p \in Path : states[p] = 0
  /\ phase \notin {"loading", "error"} => states[Root] # 0
  /\ phase \in {"visibility", "accepted"} => calls = <<>>

\* The visibility of p is closed but for its frontier, and holds nothing that
\* is not exposed.
SeesOnly(p, seen, frontier) ==
  /\ p \in seen /\ Targets(p) \cap files \subseteq seen
  /\ \A q \in seen \ frontier : PublicTargets(q) \subseteq seen
  /\ \A S \in SUBSET files : Exposes(p, S) => seen \subseteq S

SeeInv ==
  /\ \A p \in Path : visibility[p] # None =>
       /\ p \in files
       /\ SeesOnly(p, visibility[p], IF p = current THEN public_frontier ELSE {})
  /\ current # None => public_frontier \subseteq visibility[current] /\ visibility[current] # None
  /\ current = None => public_frontier = {}
  /\ phase \in {"loading", "cycles"} =>
       current = None /\ \A p \in Path : visibility[p] = None

\* Each error has its cause.
ReasonInv ==
  /\ reason = "limit" => Cardinality(Reachable) > max_registry_files
  /\ reason = "missing" => \E p \in NeededBy(Reachable) : registry[p] = Absent
  /\ reason = "cycle" => \E S \in SUBSET files : Cyclic(S)

Inv == TypeOK /\ LoadInv /\ CheckInv /\ VisitInv /\ SeeInv /\ ReasonInv

-----------------------------------------------------------------------------
(* Facts about the registry.                                               *)

\* The imports of a path are paths with a kind, and those of a loaded path are
\* its source's elements.
LEMMA ImportTyping ==
  ASSUME registry \in [Path -> Source]
  PROVE  /\ \A p \in Path : ImportsOf(p) \subseteq Import
         /\ \A p \in Path : Targets(p) \subseteq Path
         /\ \A p \in Path : Parsed(p) =>
              /\ registry[p] \in Seq(Import)
              /\ Targets(p) = {ImportAt(p, k) : k \in 1 .. Len(registry[p])}
<1>1. \A p \in Path : Parsed(p) => registry[p] \in Seq(Import)
  BY DEF Parsed, Source
<1>2. \A p \in Path : ImportsOf(p) \subseteq Import
  BY <1>1 DEF ImportsOf
<1>3. \A p \in Path : Targets(p) \subseteq Path
  BY <1>2 DEF Targets, Import
<1>4. ASSUME NEW p \in Path, Parsed(p)
      PROVE  Targets(p) = {ImportAt(p, k) : k \in 1 .. Len(registry[p])}
  <2>1. DOMAIN registry[p] = 1 .. Len(registry[p])
    BY <1>1, <1>4
  <2> QED BY <1>4, <2>1 DEF Targets, ImportsOf, ImportAt
<1> QED BY <1>1, <1>2, <1>3, <1>4

\* What depends on the registry alone is the same after a step that keeps it.
LEMMA SameRegistry ==
  ASSUME registry' = registry
  PROVE  /\ \A p : (Parsed(p)' <=> Parsed(p)) /\ ImportsOf(p)' = ImportsOf(p)
         /\ \A p : Targets(p)' = Targets(p)
         /\ \A S : Registered(S)' = Registered(S)
         /\ \A S : (Closed(S)' <=> Closed(S)) /\ (Cyclic(S)' <=> Cyclic(S))
         /\ \A S : NeededBy(S)' = NeededBy(S)
         /\ Reachable' = Reachable
<1>1. \A p : (Parsed(p)' <=> Parsed(p)) /\ ImportsOf(p)' = ImportsOf(p)
  BY DEF Parsed, ImportsOf
<1>2. \A p : Targets(p)' = Targets(p)
  BY <1>1 DEF Targets
<1>3. \A S : Registered(S)' = Registered(S)
  BY DEF Registered
<1>4. \A S : (Closed(S)' <=> Closed(S)) /\ (Cyclic(S)' <=> Cyclic(S))
  BY <1>2, <1>3 DEF Closed, Cyclic
<1>5. \A S : NeededBy(S)' = NeededBy(S)
  BY <1>1 DEF NeededBy
<1>6. Reachable' = Reachable
  BY <1>4 DEF Reachable
<1> QED BY <1>1, <1>2, <1>3, <1>4, <1>5, <1>6

\* The reachable paths contain the root, are closed, and are in every closed
\* set that contains it.
LEMMA ReachableLeast ==
  ASSUME registry \in [Path -> Source]
  PROVE  /\ Reachable \subseteq Path /\ Root \in Reachable /\ Closed(Reachable)
         /\ \A S \in SUBSET Path : Root \in S /\ Closed(S) => Reachable \subseteq S
<1>1. Reachable \subseteq Path /\ Root \in Reachable
  BY RegistryAssumption DEF Reachable
<1>2. \A S \in SUBSET Path : Root \in S /\ Closed(S) => Reachable \subseteq S
  BY DEF Reachable
<1>3. ASSUME NEW p \in Reachable, NEW q \in Registered(Targets(p)) PROVE q \in Reachable
  <2>1. p \in Path /\ q \in Path
    BY <1>1, <1>3, ImportTyping DEF Registered
  <2>2. ASSUME NEW S \in SUBSET Path, Root \in S, Closed(S) PROVE q \in S
    BY <1>2, <1>3, <2>2 DEF Closed
  <2> QED BY <2>1, <2>2 DEF Reachable
<1> QED BY <1>1, <1>2, <1>3 DEF Closed
-----------------------------------------------------------------------------
(* Parts of the invariant that a step leaves alone.                        *)

\* The loaded and the pending paths stay as they are.
LEMMA LoadKept ==
  ASSUME LoadInv, CheckInv, UNCHANGED input, UNCHANGED loading,
         phase' \notin {"loading", "error"} => pending = {}
  PROVE  LoadInv' /\ CheckInv'
<1>1. registry' = registry /\ max_registry_files' = max_registry_files
      /\ files' = files /\ pending' = pending
  BY DEF input, loading
<1>2. LoadInv'
  BY <1>1, SameRegistry DEF LoadInv
<1>3. CheckInv'
  BY <1>1, SameRegistry DEF CheckInv
<1> QED BY <1>2, <1>3

\* The visit of the imports stays where it is.
LEMMA VisitKept ==
  ASSUME VisitInv, UNCHANGED input, UNCHANGED cycles, files' = files,
         phase' = "loading" => phase = "loading",
         phase' \notin {"loading", "error"} => states[Root] # 0,
         phase' \in {"visibility", "accepted"} => calls = <<>>
  PROVE  VisitInv'
<1>1. registry' = registry /\ calls' = calls /\ states' = states
  BY DEF input, cycles
<1>2. CallsInv'
  <2>1. \A i : Explored(i)' <=> Explored(i)
    BY <1>1 DEF Explored, ImportAt, Done
  <2>2. \A p : Targets(p)' = Targets(p)
    BY <1>1, SameRegistry
  <2> QED BY <1>1, <2>1, <2>2 DEF VisitInv, CallsInv, BeingVisited
<1>3. DoneInv'
  BY <1>1, SameRegistry DEF VisitInv, DoneInv, Done
<1> QED BY <1>1, <1>2, <1>3 DEF VisitInv

\* What is seen of the loaded files depends on the files and their imports.
LEMMA SameView ==
  ASSUME registry' = registry, files' = files
  PROVE  /\ \A p : PublicTargets(p)' = PublicTargets(p)
         /\ \A p, S : Exposes(p, S)' <=> Exposes(p, S)
         /\ \A p, seen, frontier : SeesOnly(p, seen, frontier)' <=> SeesOnly(p, seen, frontier)
<1>1. \A p : PublicTargets(p)' = PublicTargets(p)
  BY SameRegistry DEF PublicTargets
<1>2. \A p, S : Exposes(p, S)' <=> Exposes(p, S)
  BY <1>1, SameRegistry DEF Exposes
<1>3. \A p, seen, frontier : SeesOnly(p, seen, frontier)' <=> SeesOnly(p, seen, frontier)
  BY <1>1, <1>2, SameRegistry DEF SeesOnly
<1> QED BY <1>1, <1>2, <1>3

\* The visibility computed so far stays as it is.
LEMMA SeeKept ==
  ASSUME SeeInv, UNCHANGED input, UNCHANGED seeing, files' = files,
         phase' \in {"loading", "cycles"} => phase \in {"loading", "cycles"}
  PROVE  SeeInv'
<1>1. registry' = registry /\ visibility' = visibility /\ current' = current
      /\ public_frontier' = public_frontier
  BY DEF input, seeing
<1> QED BY <1>1, SameView DEF SeeInv

\* The causes of an error do not go away.
LEMMA ReasonKept ==
  ASSUME ReasonInv, UNCHANGED input, reason' = reason, files \subseteq files'
  PROVE  ReasonInv'
<1>1. registry' = registry /\ max_registry_files' = max_registry_files
  BY DEF input
<1> QED BY <1>1, SameRegistry DEF ReasonInv

\* An error that has its cause keeps the invariant.
LEMMA FailOK ==
  ASSUME Inv, NEW why \in Reason, Fail(why),
         why = "limit" => Cardinality(Reachable) > max_registry_files,
         why = "missing" => \E p \in NeededBy(Reachable) : registry[p] = Absent,
         why = "cycle" => \E S \in SUBSET files : Cyclic(S)
  PROVE  Inv'
<1>1. /\ UNCHANGED input /\ UNCHANGED loading /\ UNCHANGED cycles /\ UNCHANGED seeing
      /\ phase' = "error" /\ reason' = why
  BY DEF Fail
<1>2. registry' = registry /\ files' = files /\ max_registry_files' = max_registry_files
  BY <1>1 DEF input, loading
<1>3. TypeOK'
  BY <1>1, <1>2, SameRegistry DEF Inv, TypeOK, input, loading, cycles, seeing
<1>4. LoadInv' /\ CheckInv'
  BY <1>1, LoadKept DEF Inv
<1>5. VisitInv'
  BY <1>1, <1>2, VisitKept DEF Inv
<1>6. SeeInv'
  BY <1>1, <1>2, SeeKept DEF Inv
<1>7. ReasonInv'
  BY <1>1, <1>2, SameRegistry DEF ReasonInv
<1> QED BY <1>3, <1>4, <1>5, <1>6, <1>7 DEF Inv
-----------------------------------------------------------------------------
(* The steps of loading.                                                   *)

\* What is loaded is finite.
LEMMA FiniteFiles ==
  ASSUME TypeOK
  PROVE  IsFiniteSet(files) /\ Cardinality(files) \in Nat
<1>1. files \in SUBSET Path
  BY DEF TypeOK
<1> QED BY <1>1, RegistryAssumption, FS_Subset, FS_CardinalityType

\* A path is refused for a cause, and what is not refused parses, has its
\* required imports and does not exceed the limit.
LEMMA RefusalCauses ==
  ASSUME NEW p
  PROVE  /\ Refusal(p) = "limit" => registry[p] # Absent /\ LimitReached
         /\ Refusal(p) = "missing" =>
              \/ registry[p] = Absent
              \/ \E import \in ImportsOf(p) : Required(import) /\ registry[import.path] = Absent
         /\ Refusal(p) \in (Reason \ {"cycle"}) \cup {None}
         /\ Refusal(p) = None =>
              /\ Parsed(p) /\ ~LimitReached
              /\ \A import \in ImportsOf(p) : Required(import) => registry[import.path] # Absent
<1> DEFINE lacks == \E import \in ImportsOf(p) : Required(import) /\ registry[import.path] = Absent
<1>1. None \notin Reason
  BY RegistryAssumption
<1>2. CASE registry[p] = Absent
  BY <1>1, <1>2 DEF Refusal, Reason
<1>3. CASE registry[p] # Absent /\ LimitReached
  BY <1>1, <1>3 DEF Refusal, Reason
<1>4. CASE registry[p] # Absent /\ ~LimitReached /\ registry[p] = Broken
  BY <1>1, <1>4 DEF Refusal, Reason, Parsed
<1>5. CASE Parsed(p) /\ ~LimitReached /\ lacks
  BY <1>1, <1>5 DEF Refusal, Reason, Parsed
<1>6. CASE Parsed(p) /\ ~LimitReached /\ ~lacks
  <2>1. Refusal(p) = None
    BY <1>6 DEF Refusal, Parsed
  <2> QED BY <1>1, <1>6, <2>1 DEF Reason
<1> HIDE DEF lacks
<1> QED BY <1>2, <1>3, <1>4, <1>5, <1>6 DEF Parsed

\* A refused path leaves its cause behind.
LEMMA RefuseOK ==
  ASSUME Inv, NEW p \in pending, p \notin files, Refusal(p) # None, Fail(Refusal(p))
  PROVE  Inv'
<1>1. Refusal(p) \in Reason /\ Refusal(p) # "cycle"
  BY RefusalCauses, RegistryAssumption DEF Reason
<1>2. registry \in [Path -> Source] /\ max_registry_files \in Nat /\ p \in Reachable /\ p \in Path
  BY DEF Inv, TypeOK, LoadInv
<1>3. ASSUME Refusal(p) = "limit" PROVE Cardinality(Reachable) > max_registry_files
  <2>1. LimitReached
    BY <1>3, RefusalCauses
  <2>2. IsFiniteSet(Reachable) /\ IsFiniteSet(files) /\ Cardinality(files) \in Nat
    BY <1>2, ReachableLeast, FS_Subset, RegistryAssumption, FiniteFiles DEF Inv
  <2>3. Cardinality(files \cup {p}) = Cardinality(files) + 1
    BY <2>2, FS_AddElement
  <2>4. files \cup {p} \in SUBSET Reachable
    BY <1>2 DEF Inv, LoadInv
  <2>5. Cardinality(files) + 1 <= Cardinality(Reachable) /\ Cardinality(Reachable) \in Nat
    BY <2>2, <2>3, <2>4, FS_Subset, FS_CardinalityType
  <2> QED BY <1>2, <2>1, <2>2, <2>5 DEF LimitReached
<1>4. ASSUME Refusal(p) = "missing" PROVE \E q \in NeededBy(Reachable) : registry[q] = Absent
  <2>1. CASE registry[p] = Absent
    <3>1. p = Root
      BY <2>1 DEF Inv, CheckInv
    <3> QED BY <2>1, <3>1 DEF NeededBy
  <2>2. CASE \E import \in ImportsOf(p) : Required(import) /\ registry[import.path] = Absent
    <3>1. PICK import \in ImportsOf(p) : Required(import) /\ registry[import.path] = Absent
      BY <2>2
    <3>2. import.path \in Path
      BY <1>2, <3>1, ImportTyping DEF Targets
    <3> QED BY <1>2, <3>1, <3>2 DEF NeededBy, Required
  <2> QED BY <1>4, <2>1, <2>2, RefusalCauses
<1> QED BY <1>1, <1>3, <1>4, FailOK

\* Loading a path keeps what is found reachable and what is checked.
LEMMA LoadOK ==
  ASSUME Inv, NEW p \in Path, Load(p)
  PROVE  Inv'
<1>1. phase = "loading" /\ p \in pending
  BY DEF Load
<1>2. CASE Loaded(p) /\ pending' = pending \ {p}
           /\ UNCHANGED <<input, phase, reason, files, cycles, seeing>>
  <2>1. registry' = registry /\ max_registry_files' = max_registry_files /\ files' = files
    BY <1>2 DEF input
  <2>2. TypeOK'
    BY <1>2, <2>1, SameRegistry DEF Inv, TypeOK, cycles, seeing
  <2>3. LoadInv'
    BY <1>1, <1>2, <2>1, SameRegistry DEF Inv, LoadInv, Loaded
  <2>4. CheckInv'
    BY <1>2, <2>1, SameRegistry DEF Inv, CheckInv
  <2>5. VisitInv'
    BY <1>1, <1>2, VisitKept DEF Inv
  <2>6. SeeInv'
    BY <1>2, SeeKept DEF Inv
  <2>7. ReasonInv'
    BY <1>2, ReasonKept DEF Inv
  <2> QED BY <2>2, <2>3, <2>4, <2>5, <2>6, <2>7 DEF Inv
<1>3. CASE ~Loaded(p) /\ Refusal(p) # None /\ Fail(Refusal(p))
  BY <1>1, <1>3, RefuseOK DEF Loaded
<1>4. CASE /\ ~Loaded(p) /\ Refusal(p) = None
           /\ pending' = (pending \ {p}) \cup Follow(p) /\ files' = files \cup {p}
           /\ UNCHANGED <<input, phase, reason, cycles, seeing>>
  <2>1. registry' = registry /\ max_registry_files' = max_registry_files
        /\ calls' = calls /\ states' = states /\ visibility' = visibility
        /\ current' = current /\ public_frontier' = public_frontier
    BY <1>4 DEF input, cycles, seeing
  <2>2. registry \in [Path -> Source]
    BY DEF Inv, TypeOK
  <2>3. /\ Parsed(p) /\ ~LimitReached
        /\ \A import \in ImportsOf(p) : Required(import) => registry[import.path] # Absent
    BY <1>4, RefusalCauses
  <2>4. Follow(p) = Registered(Targets(p)) /\ Follow(p) \subseteq Path
    BY <2>2, ImportTyping DEF Follow, Registered
  <2>5. /\ calls = <<>> /\ \A q \in Path : states[q] = 0
        /\ current = None /\ public_frontier = {} /\ \A q \in Path : visibility[q] = None
    BY <1>1 DEF Inv, VisitInv, SeeInv
  <2>6. TypeOK'
    <3>1. files' \subseteq {q \in Path : Parsed(q)'}
      BY <1>4, <2>1, <2>3, SameRegistry DEF Inv, TypeOK
    <3>2. calls' \in Seq([path : files', next : Nat \ {0}])
      BY <2>1, <2>5, EmptySeq
    <3>3. visibility' \in [Path -> (SUBSET files') \cup {None}]
      BY <1>4, <2>1 DEF Inv, TypeOK
    <3>4. current' \in files' \cup {None} /\ public_frontier' \subseteq files'
      BY <2>1, <2>5
    <3>5. pending' \subseteq Path
      BY <1>4, <2>4 DEF Inv, TypeOK
    <3> QED BY <1>4, <2>1, <3>1, <3>2, <3>3, <3>4, <3>5 DEF Inv, TypeOK
  <2>7. LoadInv'
    <3>1. Follow(p) \subseteq Reachable
      BY <1>1, <2>2, <2>4, ReachableLeast DEF Inv, LoadInv, Closed
    <3> QED BY <1>1, <1>4, <2>1, <2>4, <3>1, SameRegistry DEF Inv, LoadInv
  <2>8. CheckInv'
    <3>1. Cardinality(files') <= max_registry_files
      <4>1. Cardinality(files') = Cardinality(files) + 1
        BY <1>4, FiniteFiles, FS_AddElement DEF Inv, Loaded
      <4> QED BY <2>3, <4>1, FiniteFiles DEF LimitReached, Inv, TypeOK
    <3>2. \A q \in pending' : q = Root \/ registry[q] # Absent
      BY <1>4, <2>4 DEF Inv, CheckInv, Registered
    <3> QED BY <1>4, <2>1, <2>3, <3>1, <3>2, SameRegistry DEF Inv, CheckInv, Required
  <2>9. VisitInv'
    <3>1. CallsInv'
      BY <2>1, <2>5 DEF CallsInv, BeingVisited
    <3>2. DoneInv'
      <4>1. {q \in Path : Done(q)'} = {}
        BY <2>1, <2>5 DEF Done
      <4> QED BY <4>1 DEF DoneInv, Cyclic
    <3> QED BY <1>1, <1>4, <2>1, <2>5, <3>1, <3>2 DEF VisitInv
  <2>10. SeeInv'
    BY <2>1, <2>5 DEF SeeInv
  <2>11. ReasonInv'
    BY <1>4, ReasonKept DEF Inv
  <2> QED BY <2>6, <2>7, <2>8, <2>9, <2>10, <2>11 DEF Inv
<1> QED BY <1>2, <1>3, <1>4 DEF Load
-----------------------------------------------------------------------------
(* The steps of the visit.                                                 *)

\* Once loading ends the loaded paths are the reachable ones.
LEMMA LoadedIsReachable ==
  ASSUME TypeOK, LoadInv, pending = {}
  PROVE  files = Reachable /\ Root \in files
<1>1. Root \in files /\ files \subseteq Reachable /\ Closed(files) /\ files \in SUBSET Path
  BY DEF LoadInv, TypeOK, Closed
<1> QED BY <1>1, ReachableLeast DEF TypeOK

\* The activations, and what the innermost one is about to do.
LEMMA TopProperties ==
  ASSUME TypeOK, CallsInv, calls # <<>>
  PROVE  /\ calls \in Seq([path : files, next : Nat \ {0}])
         /\ Len(calls) \in Nat \ {0} /\ Top = calls[Len(calls)]
         /\ Top \in [path : files, next : Nat \ {0}]
         /\ \A i \in 1 .. Len(calls) :
              /\ calls[i] \in [path : files, next : Nat \ {0}]
              /\ calls[i].path \in files /\ calls[i].path \in Path
              /\ calls[i].next \in Nat \ {0}
         /\ BeingVisited(Top.path)
         /\ \A p \in files : registry[p] \in Seq(Import) /\ Len(registry[p]) \in Nat
              /\ Targets(p) = {ImportAt(p, k) : k \in 1 .. Len(registry[p])}
<1>1. calls \in Seq([path : files, next : Nat \ {0}]) /\ files \subseteq Path
  BY DEF TypeOK
<1>2. Len(calls) \in Nat \ {0} /\ Top = calls[Len(calls)]
  BY <1>1, EmptySeq, LenProperties DEF Top
<1>3. \A i \in 1 .. Len(calls) :
        /\ calls[i] \in [path : files, next : Nat \ {0}]
        /\ calls[i].path \in files /\ calls[i].path \in Path /\ calls[i].next \in Nat \ {0}
  <2>1. \A i \in 1 .. Len(calls) : calls[i] \in [path : files, next : Nat \ {0}]
    BY <1>1, LenProperties
  <2> QED BY <1>1, <2>1
<1>4. BeingVisited(Top.path)
  BY <1>2, <1>3 DEF CallsInv
<1>5. \A p \in files : registry[p] \in Seq(Import) /\ Len(registry[p]) \in Nat
         /\ Targets(p) = {ImportAt(p, k) : k \in 1 .. Len(registry[p])}
  BY <1>1, ImportTyping, LenProperties DEF TypeOK
<1> QED BY <1>1, <1>2, <1>3, <1>4, <1>5

\* The innermost activation goes on by one import.
LEMMA AdvancedShape ==
  ASSUME TypeOK, CallsInv, calls # <<>>
  PROVE  /\ Advanced \in Seq([path : files, next : Nat \ {0}])
         /\ Len(Advanced) = Len(calls)
         /\ \A i \in 1 .. Len(calls) : Advanced[i].path = calls[i].path
         /\ \A i \in 1 .. Len(calls) :
              Advanced[i].next = IF i = Len(calls) THEN Top.next + 1 ELSE calls[i].next
<1> DEFINE act == [Top EXCEPT !.next = @ + 1]
<1>1. Advanced = [calls EXCEPT ![Len(calls)] = act]
  BY DEF Advanced, Top
<1>2. Top \in [path : files, next : Nat \ {0}]
  BY TopProperties
<1>3. act \in [path : files, next : Nat \ {0}] /\ act.path = Top.path /\ act.next = Top.next + 1
  BY <1>2
<1> HIDE DEF act
<1>4. Advanced \in Seq([path : files, next : Nat \ {0}]) /\ Len(Advanced) = Len(calls)
  BY <1>1, <1>3, TopProperties, ExceptSeq
<1>5. \A i \in 1 .. Len(calls) : Advanced[i] = IF i = Len(calls) THEN act ELSE calls[i]
  BY <1>1, TopProperties, ExceptSeq
<1> QED BY <1>3, <1>4, <1>5, TopProperties

\* The visit starts at the root.
LEMMA BeginCyclesOK ==
  ASSUME Inv, BeginCycles
  PROVE  Inv'
<1>1. /\ registry' = registry /\ max_registry_files' = max_registry_files
      /\ files' = files /\ pending' = pending /\ reason' = reason
      /\ phase = "loading" /\ pending = {} /\ phase' = "cycles"
      /\ calls' = <<Activation(Root)>> /\ states' = [states EXCEPT ![Root] = 1]
  BY DEF BeginCycles, input, loading
<1>2. Root \in files /\ Root \in Path
  BY <1>1, LoadedIsReachable, RegistryAssumption DEF Inv
<1>3. Activation(Root) \in [path : files, next : Nat \ {0}]
  BY <1>2 DEF Activation
<1>4. \A p \in Path : states'[p] = IF p = Root THEN 1 ELSE 0
  BY <1>1, <1>2 DEF Inv, TypeOK, VisitInv
<1>5. TypeOK'
  <2>1. calls' \in Seq([path : files', next : Nat \ {0}])
    BY <1>1, <1>3, SeqDef
  <2>2. states' \in [Path -> {0, 1, 2}]
    BY <1>1 DEF Inv, TypeOK
  <2> QED BY <1>1, <2>1, <2>2, SameRegistry DEF Inv, TypeOK, BeginCycles, seeing
<1>6. LoadInv' /\ CheckInv'
  BY <1>1, LoadKept DEF Inv, BeginCycles
<1>7. VisitInv'
  <2>1. Len(calls') = 1 /\ calls'[1].path = Root /\ calls'[1].next = 1
    BY <1>1 DEF Activation
  <2>2. Len(registry[Root]) \in Nat
    BY <1>2, ImportTyping, LenProperties DEF Inv, TypeOK
  <2>3. CallsInv'
    <3>1. Explored(1)'
      BY <2>1 DEF Explored
    <3>2. \A p \in Path : BeingVisited(p)' <=> p = Root
      BY <1>4 DEF BeingVisited
    <3> QED BY <1>1, <2>1, <2>2, <3>1, <3>2 DEF CallsInv
  <2>4. DoneInv'
    <3>1. {p \in Path : Done(p)'} = {}
      BY <1>4 DEF Done
    <3> QED BY <3>1 DEF DoneInv, Cyclic
  <2> QED BY <1>1, <1>2, <1>4, <2>3, <2>4 DEF VisitInv
<1>8. SeeInv'
  BY <1>1, SeeKept DEF Inv, BeginCycles
<1>9. ReasonInv'
  BY <1>1, ReasonKept DEF Inv, BeginCycles
<1> QED BY <1>5, <1>6, <1>7, <1>8, <1>9 DEF Inv

\* A step of the visit disturbs the visit only.
LEMMA VisitStepOK ==
  ASSUME Inv, VisitInv', phase = "cycles",
         calls' \in Seq([path : files, next : Nat \ {0}]),
         states' \in [Path -> {0, 1, 2}],
         UNCHANGED <<input, phase, reason, loading, seeing>>
  PROVE  Inv'
<1>1. registry' = registry /\ max_registry_files' = max_registry_files
      /\ files' = files /\ pending' = pending
  BY DEF input, loading
<1>2. TypeOK'
  BY <1>1, SameRegistry DEF Inv, TypeOK, seeing
<1>3. LoadInv' /\ CheckInv'
  BY LoadKept DEF Inv, LoadInv
<1>4. SeeInv' /\ ReasonInv'
  BY <1>1, SeeKept, ReasonKept DEF Inv
<1> QED BY <1>2, <1>3, <1>4 DEF Inv

\* The activations from the i-th one on, when the innermost imports the i-th.
LEMMA ChainIsCyclic ==
  ASSUME TypeOK, CallsInv, NEW i \in 1 .. Len(calls),
         calls[i].path \in Targets(Top.path)
  PROVE  \E S \in SUBSET files : Cyclic(S)
<1> DEFINE S == {calls[j].path : j \in i .. Len(calls)}
<1>1. calls # <<>>
  BY EmptySeq
<1>2. Len(calls) \in Nat \ {0} /\ Top = calls[Len(calls)]
      /\ \A j \in 1 .. Len(calls) : calls[j].path \in files
  BY <1>1, TopProperties
<1>3. S \subseteq files /\ calls[i].path \in S
  BY <1>2
<1>4. \A j \in i .. Len(calls) : Targets(calls[j].path) \cap S # {}
  <2> SUFFICES ASSUME NEW j \in i .. Len(calls) PROVE Targets(calls[j].path) \cap S # {}
    OBVIOUS
  <2>1. CASE j = Len(calls)
    BY <1>2, <1>3, <2>1
  <2>2. CASE j # Len(calls)
    <3>1. j \in 1 .. Len(calls) - 1 /\ j + 1 \in i .. Len(calls)
      BY <1>2, <2>2
    <3>2. calls[j + 1].path \in Targets(calls[j].path)
      BY <3>1 DEF CallsInv
    <3> QED BY <3>1, <3>2
  <2> QED BY <2>1, <2>2
<1>5. Cyclic(S)
  BY <1>3, <1>4 DEF Cyclic
<1> QED BY <1>3, <1>5

\* An activation that stays has explored what it had explored.
LEMMA ExploredKept ==
  ASSUME registry' = registry, files' = files, files \subseteq Path,
         \A q \in Path : states[q] = 2 => states'[q] = 2,
         NEW i \in Nat, Explored(i), i < Len(calls), i < Len(calls'),
         calls'[i].path = calls[i].path, calls'[i].next = calls[i].next,
         calls'[i + 1].path = calls[i + 1].path
  PROVE  Explored(i)'
<1> SUFFICES ASSUME NEW k \in 1 .. calls[i].next - 1, ImportAt(calls[i].path, k) \in files
             PROVE  \/ states'[ImportAt(calls[i].path, k)] = 2
                    \/ ImportAt(calls[i].path, k) = calls[i + 1].path
  BY DEF Explored, Done, ImportAt
<1> QED BY DEF Explored, Done

\* The visited paths stay the same.
LEMMA DoneKept ==
  ASSUME DoneInv, registry \in [Path -> Source], registry' = registry, files' = files,
         \A q \in Path : states'[q] = 2 <=> states[q] = 2
  PROVE  DoneInv'
<1>1. \A q \in Path : Done(q)' <=> Done(q)
  BY DEF Done
<1>2. {q \in Path : Done(q)'} = {q \in Path : Done(q)}
  BY <1>1
<1>3. \A q \in Path : Targets(q)' = Targets(q) /\ Targets(q) \subseteq Path
  BY SameRegistry, ImportTyping
<1>4. \A S : Cyclic(S)' <=> Cyclic(S)
  BY SameRegistry
<1> QED BY <1>1, <1>2, <1>3, <1>4 DEF DoneInv

\* The activations are a chain of distinct paths, each explored up to next,
\* and they are the paths being visited.
LEMMA CallsChain ==
  ASSUME registry' = registry, NEW n \in Nat, Len(calls') = n,
         \A i \in 1 .. n : calls'[i].next <= Len(registry[calls'[i].path]) + 1,
         \A i \in 1 .. n : Explored(i)',
         \A i, j \in 1 .. n : calls'[i].path = calls'[j].path => i = j,
         \A i \in 1 .. n - 1 : calls'[i + 1].path \in Targets(calls'[i].path),
         \A q \in Path : states'[q] = 1 <=> \E i \in 1 .. n : calls'[i].path = q
  PROVE  CallsInv'
<1>1. \A i \in 1 .. n - 1 : (calls[i + 1].path \in Targets(calls[i].path))'
  BY DEF Targets, ImportsOf, Parsed
<1> QED BY <1>1 DEF CallsInv, BeingVisited

\* An import that is loaded is visited, unless it is visited already or is
\* being visited: then there is a cycle.
LEMMA VisitImportOK ==
  ASSUME Inv, VisitImport
  PROVE  Inv'
<1> DEFINE top == Top.path
           p == ImportAt(top, Top.next)
           n == Len(calls)
<1>1. /\ phase = "cycles" /\ calls # <<>> /\ Top.next <= Len(registry[top])
      /\ TypeOK /\ CallsInv /\ DoneInv
  BY DEF VisitImport, Inv, VisitInv
<1>2. /\ n \in Nat \ {0} /\ Top = calls[n] /\ BeingVisited(top)
      /\ Top \in [path : files, next : Nat \ {0}]
      /\ calls \in Seq([path : files, next : Nat \ {0}])
      /\ \A i \in 1 .. n : calls[i].path \in files /\ calls[i].next \in Nat \ {0}
  BY <1>1, TopProperties
<1>3. p \in Targets(top) /\ p \in Path /\ top \in Path /\ top \in files
  <2>1. Top.next \in 1 .. Len(registry[top]) /\ top \in files /\ top \in Path
    BY <1>1, <1>2, TopProperties
  <2> QED BY <1>1, <2>1, TopProperties, ImportTyping DEF TypeOK
<1>4. /\ Advanced \in Seq([path : files, next : Nat \ {0}]) /\ Len(Advanced) = n
      /\ \A i \in 1 .. n : /\ Advanced[i].path = calls[i].path
                           /\ Advanced[i].next = IF i = n THEN Top.next + 1 ELSE calls[i].next
  BY <1>1, AdvancedShape
<1>8. /\ Top.next \in Nat /\ Top.next <= Len(registry[top])
      /\ n \in 1 .. Len(calls) /\ n \in 1 .. n /\ n \in Nat
  BY <1>1, <1>2
<1>9. Explored(n) /\ Len(registry[top]) \in Nat
  <2>1. Explored(n)
    BY <1>1, <1>8 DEF CallsInv
  <2>2. Len(registry[top]) \in Nat
    BY <1>1, <1>3, TopProperties
  <2> QED BY <2>1, <2>2
<1> HIDE DEF p, n
<1>5. CASE Visits(p) /\ BeingVisited(p) /\ Fail("cycle")
  <2>1. \E i \in 1 .. Len(calls) : calls[i].path = p
    BY <1>1, <1>3, <1>5 DEF CallsInv
  <2>2. \E S \in SUBSET files : Cyclic(S)
    BY <1>1, <1>3, <2>1, ChainIsCyclic
  <2> QED BY <1>5, <2>2, FailOK DEF Reason
<1>6. CASE /\ Visits(p) /\ states[p] = 0
           /\ calls' = Append(Advanced, Activation(p))
           /\ states' = [states EXCEPT ![p] = 1]
           /\ UNCHANGED <<input, phase, reason, loading, seeing>>
  <2>1. registry' = registry /\ files' = files /\ p \in files
    BY <1>6 DEF input, loading, Visits
  <2>2. /\ Activation(p) \in [path : files, next : Nat \ {0}]
        /\ Activation(p).path = p /\ Activation(p).next = 1
    BY <2>1 DEF Activation
  <2>3. /\ calls' \in Seq([path : files, next : Nat \ {0}])
        /\ Len(calls') = n + 1 /\ calls'[n + 1] = Activation(p)
        /\ \A i \in 1 .. n : calls'[i] = Advanced[i]
    BY <1>4, <1>6, <2>2, AppendProperties
  <2>4. states' \in [Path -> {0, 1, 2}]
        /\ \A q \in Path : states'[q] = IF q = p THEN 1 ELSE states[q]
    BY <1>1, <1>3, <1>6 DEF TypeOK
  <2>5. \A q \in Path : states'[q] = 2 <=> states[q] = 2
    BY <1>6, <2>4
  <2>6. CallsInv'
    <3>1. \A i \in 1 .. n + 1 :
            calls'[i].path = IF i = n + 1 THEN p ELSE calls[i].path
      BY <1>2, <1>4, <2>2, <2>3
    <3>2. ASSUME NEW i \in 1 .. n + 1
          PROVE  calls'[i].next <= Len(registry[calls'[i].path]) + 1 /\ Explored(i)'
      <4>1. CASE i = n + 1
        <5>1. calls'[i].next = 1 /\ calls'[i].path = p
          BY <2>2, <2>3, <4>1
        <5>2. Len(registry[p]) \in Nat
          BY <1>1, <2>1, TopProperties
        <5> QED BY <5>1, <5>2 DEF Explored
      <4>2. CASE i = n
        <5>1. /\ calls'[i].next = Top.next + 1 /\ calls'[i].path = top /\ calls'[i + 1].path = p
              /\ i < n + 1 /\ i \in 1 .. Len(calls)
          <6>1. i \in 1 .. n /\ i + 1 = n + 1 /\ i < n + 1 /\ i \in 1 .. Len(calls)
            BY <1>8, <4>2
          <6>2. calls'[i] = Advanced[i]
            BY <2>3, <6>1
          <6>3. Advanced[i].path = calls[i].path /\ Advanced[i].next = Top.next + 1
            BY <1>4, <4>2, <6>1
          <6>4. calls[i] = Top
            BY <1>2, <4>2
          <6>5. calls'[i + 1].path = p
            BY <2>2, <2>3, <6>1
          <6> QED BY <6>1, <6>2, <6>3, <6>4, <6>5
        <5>3. ASSUME NEW k \in 1 .. Top.next, ImportAt(top, k) \in files
              PROVE  states'[ImportAt(top, k)] = 2 \/ ImportAt(top, k) = p
          <6>1. CASE k = Top.next
            BY <6>1 DEF p
          <6>2. CASE k # Top.next
            <7>1. k \in 1 .. Top.next - 1
              BY <1>2, <6>2
            <7>2. states[ImportAt(top, k)] = 2
              BY <1>2, <1>9, <5>3, <7>1 DEF Explored, Done, n
            <7> QED BY <1>1, <2>5, <5>3, <7>2 DEF TypeOK
          <6> QED BY <6>1, <6>2
        <5>4. Explored(i)'
          <6>1. calls'[i].next - 1 = Top.next /\ i < Len(calls')
            <7>1. Len(calls') = n + 1
              BY <2>3
            <7> QED BY <1>8, <5>1, <7>1
          <6> QED BY <2>1, <5>1, <5>3, <6>1 DEF Explored, ImportAt, Done
        <5> QED BY <1>8, <1>9, <5>1, <5>4
      <4>3. CASE i < n
        <5>1. /\ calls'[i].path = calls[i].path /\ calls'[i].next = calls[i].next
              /\ calls'[i + 1].path = calls[i + 1].path
              /\ i \in 1 .. Len(calls) /\ i < Len(calls) /\ i < Len(calls') /\ i \in Nat
          <6>1. /\ i \in 1 .. n /\ i + 1 \in 1 .. n + 1 /\ i # n /\ i # n + 1 /\ i + 1 # n + 1
                /\ i < n /\ i < n + 1 /\ i \in Nat
            BY <1>2, <4>3
          <6>2. calls'[i] = Advanced[i] /\ Advanced[i].next = calls[i].next
            BY <1>4, <2>3, <6>1
          <6> QED BY <2>3, <3>1, <6>1, <6>2 DEF n
        <5>2. Explored(i) /\ calls[i].next <= Len(registry[calls[i].path]) + 1
          BY <1>1, <5>1 DEF CallsInv
        <5>3. Explored(i)'
          BY <1>1, <2>1, <2>5, <5>1, <5>2, ExploredKept DEF TypeOK
        <5> QED BY <5>1, <5>2, <5>3
      <4> QED BY <1>2, <4>1, <4>2, <4>3
    <3>3. \A i \in 1 .. n : calls[i].path # p
      BY <1>1, <1>3, <1>6 DEF CallsInv, BeingVisited, n
    <3>4. \A i, j \in 1 .. n + 1 : calls'[i].path = calls'[j].path => i = j
      <4>1. \A i, j \in 1 .. n : calls[i].path = calls[j].path => i = j
        BY <1>1 DEF CallsInv, n
      <4>2. \A i \in 1 .. n + 1 : i = n + 1 \/ i \in 1 .. n
        BY <1>2
      <4> QED BY <3>1, <3>3, <4>1, <4>2
    <3>5. ASSUME NEW i \in 1 .. n PROVE calls'[i + 1].path \in Targets(calls'[i].path)
      <4>1. CASE i = n
        BY <1>2, <1>3, <3>1, <4>1
      <4>2. CASE i # n
        <5>1. i \in 1 .. n - 1 /\ i + 1 \in 1 .. n
          BY <1>2, <4>2
        <5>2. calls[i + 1].path \in Targets(calls[i].path)
          BY <1>1, <5>1 DEF CallsInv, n
        <5> QED BY <1>2, <3>1, <5>1, <5>2
      <4> QED BY <4>1, <4>2
    <3>6. \A q \in Path : states'[q] = 1 <=> \E i \in 1 .. n + 1 : calls'[i].path = q
      <4>1. \A q \in Path : states'[q] = 1 <=> q = p \/ states[q] = 1
        BY <2>4
      <4>2. \A q \in Path : states[q] = 1 <=> \E i \in 1 .. n : calls[i].path = q
        BY <1>1 DEF CallsInv, BeingVisited, n
      <4>3. \A i \in 1 .. n : i \in 1 .. n + 1 /\ calls'[i].path = calls[i].path
        BY <1>2, <3>1
      <4>4. n + 1 \in 1 .. n + 1 /\ calls'[n + 1].path = p
        BY <1>2, <3>1
      <4>5. \A i \in 1 .. n + 1 : i = n + 1 \/ i \in 1 .. n
        BY <1>2
      <4> QED BY <4>1, <4>2, <4>3, <4>4, <4>5
    <3> DEFINE m == n + 1
    <3>7. m \in Nat /\ Len(calls') = m /\ m - 1 = n
      BY <1>2, <2>3
    <3>8. \A i \in 1 .. m - 1 : calls'[i + 1].path \in Targets(calls'[i].path)
      BY <3>5, <3>7
    <3>9. /\ \A i \in 1 .. m : calls'[i].next <= Len(registry[calls'[i].path]) + 1
          /\ \A i \in 1 .. m : Explored(i)'
          /\ \A i, j \in 1 .. m : calls'[i].path = calls'[j].path => i = j
          /\ \A q \in Path : states'[q] = 1 <=> \E i \in 1 .. m : calls'[i].path = q
      BY <3>2, <3>4, <3>6
    <3> HIDE DEF m
    <3> QED BY <2>1, <3>7, <3>8, <3>9, CallsChain
  <2>7. DoneInv'
    BY <1>1, <2>1, <2>5, DoneKept DEF TypeOK
  <2>8. VisitInv'
    BY <1>1, <1>6, <2>4, <2>6, <2>7, RegistryAssumption DEF Inv, VisitInv
  <2> QED BY <1>1, <1>6, <2>3, <2>4, <2>8, VisitStepOK
<1>7. CASE /\ ~(Visits(p) /\ BeingVisited(p)) /\ ~(Visits(p) /\ states[p] = 0)
           /\ calls' = Advanced /\ states' = states
           /\ UNCHANGED <<input, phase, reason, loading, seeing>>
  <2>1. registry' = registry /\ files' = files
    BY <1>7 DEF input, loading
  <2>2. p \in files => Done(p)
    BY <1>1, <1>3, <1>7 DEF Visits, BeingVisited, Done, TypeOK
  <2>3. \A q \in Path : states'[q] = states[q]
    BY <1>7
  <2>4. CallsInv'
    <3>1. ASSUME NEW i \in 1 .. n
          PROVE  calls'[i].next <= Len(registry[calls'[i].path]) + 1 /\ Explored(i)'
      <4>1. CASE i = n
        <5>1. calls'[i].next = Top.next + 1 /\ calls'[i].path = top
          BY <1>2, <1>4, <1>7, <4>1
        <5>3. ASSUME NEW k \in 1 .. Top.next, ImportAt(top, k) \in files
              PROVE  states'[ImportAt(top, k)] = 2
          <6>1. CASE k = Top.next
            BY <1>7, <2>2, <5>3, <6>1 DEF p, Done
          <6>2. CASE k # Top.next
            <7>1. k \in 1 .. Top.next - 1
              BY <1>2, <6>2
            <7> QED BY <1>2, <1>7, <1>9, <5>3, <7>1 DEF Explored, Done, n
          <6> QED BY <6>1, <6>2
        <5>4. Explored(i)'
          BY <1>8, <2>1, <5>1, <5>3 DEF Explored, ImportAt, Done
        <5> QED BY <1>8, <1>9, <5>1, <5>4
      <4>2. CASE i < n
        <5>1. /\ calls'[i].path = calls[i].path /\ calls'[i].next = calls[i].next
              /\ calls'[i + 1].path = calls[i + 1].path
              /\ i \in 1 .. Len(calls) /\ i < Len(calls) /\ i < Len(calls') /\ i \in Nat
          <6>1. /\ i \in 1 .. n /\ i + 1 \in 1 .. n /\ i # n /\ i \in Nat
                /\ i \in 1 .. Len(calls) /\ i < Len(calls)
            BY <1>8, <4>2 DEF n
          <6>2. Advanced[i].path = calls[i].path /\ Advanced[i].next = calls[i].next
            BY <1>4, <6>1
          <6>3. Advanced[i + 1].path = calls[i + 1].path /\ Len(Advanced) = Len(calls)
            BY <1>4, <6>1 DEF n
          <6> QED BY <1>7, <6>1, <6>2, <6>3
        <5>2. Explored(i) /\ calls[i].next <= Len(registry[calls[i].path]) + 1
          BY <1>1, <5>1 DEF CallsInv
        <5>3. Explored(i)'
          BY <1>1, <2>1, <2>3, <5>1, <5>2, ExploredKept DEF TypeOK
        <5> QED BY <5>1, <5>2, <5>3
      <4> QED BY <1>2, <4>1, <4>2
    <3>2. \A i, j \in 1 .. n : calls'[i].path = calls'[j].path => i = j
      BY <1>1, <1>4, <1>7 DEF CallsInv, n
    <3>3. \A i \in 1 .. n - 1 : calls'[i + 1].path \in Targets(calls'[i].path)
      BY <1>1, <1>2, <1>4, <1>7 DEF CallsInv, n
    <3>4. \A q \in Path : states'[q] = 1 <=> \E i \in 1 .. n : calls'[i].path = q
      <4>1. \A q \in Path : states[q] = 1 <=> \E i \in 1 .. n : calls[i].path = q
        BY <1>1 DEF CallsInv, BeingVisited, n
      <4>2. \A i \in 1 .. n : calls'[i].path = calls[i].path
        BY <1>4, <1>7
      <4> QED BY <1>7, <4>1, <4>2
    <3> QED BY <1>2, <1>4, <1>7, <2>1, <3>1, <3>2, <3>3, <3>4, CallsChain
  <2>5. DoneInv'
    BY <1>1, <2>1, <2>3, DoneKept DEF TypeOK
  <2>6. VisitInv'
    BY <1>1, <1>7, <2>4, <2>5 DEF Inv, VisitInv
  <2>7. states' \in [Path -> {0, 1, 2}]
    BY <1>1, <1>7 DEF TypeOK
  <2> QED BY <1>1, <1>4, <1>7, <2>6, <2>7, VisitStepOK
<1> QED BY <1>5, <1>6, <1>7 DEF VisitImport, ImportAt, p

\* An activation with no import left has visited every path it imports, so no
\* cycle goes through it.
LEMMA LeaveVisitOK ==
  ASSUME Inv, LeaveVisit
  PROVE  Inv'
<1> DEFINE top == Top.path
           n == Len(calls)
           m == Len(calls) - 1
<1>0. TypeOK /\ CallsInv /\ calls # <<>>
  BY DEF LeaveVisit, Inv, VisitInv
<1>1. /\ phase = "cycles" /\ calls # <<>> /\ Top.next > Len(registry[top])
      /\ calls' = SubSeq(calls, 1, Len(calls) - 1)
      /\ states' = [states EXCEPT ![top] = 2]
      /\ UNCHANGED <<input, phase, reason, loading, seeing>>
      /\ TypeOK /\ CallsInv /\ DoneInv
  BY DEF LeaveVisit, Inv, VisitInv
<1>2. registry' = registry /\ files' = files /\ files \subseteq Path
      /\ registry \in [Path -> Source]
  BY <1>1 DEF input, loading, TypeOK
<1>3. /\ n \in Nat /\ m \in Nat /\ n = m + 1 /\ Top = calls[n] /\ BeingVisited(top)
      /\ top \in files /\ top \in Path /\ Top.next \in Nat \ {0}
  <2>1. Len(calls) \in Nat \ {0}
    BY <1>0, TopProperties
  <2> QED BY <1>0, <1>2, <2>1, TopProperties
<1>4. /\ calls \in Seq([path : files, next : Nat \ {0}])
      /\ \A i \in 1 .. n : calls[i] \in [path : files, next : Nat \ {0}]
  BY <1>0, TopProperties
<1> HIDE DEF n, m
<1>41. /\ 1 .. m \subseteq 1 .. n /\ n \in 1 .. n /\ n \notin 1 .. m
       /\ \A i \in 1 .. n : i = n \/ i \in 1 .. m
  BY <1>3
<1>5. /\ calls' \in Seq([path : files, next : Nat \ {0}]) /\ Len(calls') = m
      /\ \A i \in 1 .. m : calls'[i] = calls[i]
  <2>1. \A i \in 1 .. m : calls[i] \in [path : files, next : Nat \ {0}]
    BY <1>4, <1>41
  <2>2. 1 \in Int /\ m \in Int /\ m - 1 + 1 = m /\ (1 <= m \/ m = 0)
    BY <1>3
  <2>3. SubSeq(calls, 1, m) \in Seq([path : files, next : Nat \ {0}])
        /\ Len(SubSeq(calls, 1, m)) = (IF 1 <= m THEN m - 1 + 1 ELSE 0)
        /\ \A i \in 1 .. m - 1 + 1 : SubSeq(calls, 1, m)[i] = calls[1 + i - 1]
    BY <2>1, <2>2, SubSeqProperties
  <2>4. \A i \in 1 .. m : 1 + i - 1 = i
    OBVIOUS
  <2> QED BY <1>1, <2>2, <2>3, <2>4 DEF m
<1>6. states' \in [Path -> {0, 1, 2}]
      /\ \A q \in Path : states'[q] = IF q = top THEN 2 ELSE states[q]
  BY <1>1, <1>3 DEF TypeOK
<1>7. ASSUME NEW q \in Targets(top) \cap files PROVE Done(q)
  <2>1. PICK k \in 1 .. Len(registry[top]) : q = ImportAt(top, k)
    BY <1>1, <1>3, TopProperties
  <2>2. k \in 1 .. Top.next - 1
    BY <1>1, <1>3, TopProperties
  <2>3. Explored(n)
    BY <1>1, <1>41 DEF CallsInv, n
  <2>4. ImportAt(calls[n].path, k) \in files /\ ~(n < Len(calls)) /\ k \in 1 .. calls[n].next - 1
    BY <1>3, <1>7, <2>1, <2>2 DEF n
  <2> QED BY <1>3, <2>1, <2>3, <2>4 DEF Explored
<1>8. CallsInv'
  <2>1. ASSUME NEW i \in 1 .. m
        PROVE  calls'[i].next <= Len(registry[calls'[i].path]) + 1 /\ Explored(i)'
    <3>1. calls'[i] = calls[i] /\ i \in 1 .. Len(calls) /\ i \in Nat /\ i < Len(calls)
      BY <1>3, <1>5, <1>41 DEF n
    <3>2. Explored(i) /\ calls[i].next <= Len(registry[calls[i].path]) + 1
      BY <1>1, <3>1 DEF CallsInv
    <3>3. CASE i = m
      <4>1. calls[i + 1] = Top
        BY <1>3, <3>3
      <4>2. ASSUME NEW k \in 1 .. calls[i].next - 1, ImportAt(calls[i].path, k) \in files
            PROVE  states'[ImportAt(calls[i].path, k)] = 2
        BY <1>2, <1>6, <3>2, <4>1, <4>2 DEF Explored, Done
      <4>3. Explored(i)'
        BY <1>2, <3>1, <4>2 DEF Explored, ImportAt, Done
      <4> QED BY <3>1, <3>2, <4>3
    <3>4. CASE i # m
      <4>1. i + 1 \in 1 .. m /\ i < m
        BY <1>3, <3>4
      <4>2. calls'[i + 1] = calls[i + 1] /\ i < Len(calls')
        BY <1>5, <4>1
      <4>3. \A q \in Path : states[q] = 2 => states'[q] = 2
        BY <1>6
      <4>4. Explored(i)'
        BY <1>2, <3>1, <3>2, <4>2, <4>3, ExploredKept
      <4> QED BY <3>1, <3>2, <4>4
    <3> QED BY <3>3, <3>4
  <2>2. \A i, j \in 1 .. m : calls'[i].path = calls'[j].path => i = j
    BY <1>1, <1>41, <1>5 DEF CallsInv, n
  <2>3. ASSUME NEW i \in 1 .. m - 1
        PROVE  calls'[i + 1].path \in Targets(calls'[i].path)
    <3>1. i \in 1 .. m /\ i + 1 \in 1 .. m /\ i \in 1 .. Len(calls) - 1
      BY <1>3 DEF m
    <3> QED BY <1>1, <1>5, <3>1 DEF CallsInv
  <2>4. \A q \in Path : states'[q] = 1 <=> \E i \in 1 .. m : calls'[i].path = q
    <3>1. \A q \in Path : states[q] = 1 <=> \E i \in 1 .. n : calls[i].path = q
      BY <1>1 DEF CallsInv, BeingVisited, n
    <3>2. \A i \in 1 .. m : calls[i].path # top
      BY <1>1, <1>3, <1>41 DEF CallsInv, n
    <3>3. \A q \in Path : states'[q] = 1 <=> q # top /\ states[q] = 1
      BY <1>6
    <3>4. \A i \in 1 .. m : calls'[i].path = calls[i].path /\ i \in 1 .. n
      BY <1>5, <1>41
    <3>5. \A i \in 1 .. n : calls[i].path # top => i \in 1 .. m
      BY <1>3, <1>41
    <3> QED BY <3>1, <3>2, <3>3, <3>4, <3>5
  <2>5. /\ \A i \in 1 .. m : calls'[i].next <= Len(registry[calls'[i].path]) + 1
        /\ \A i \in 1 .. m : Explored(i)'
        /\ \A i \in 1 .. m - 1 : calls'[i + 1].path \in Targets(calls'[i].path)
    BY <2>1, <2>3
  <2>6. m \in Nat /\ Len(calls') = m
    BY <1>3, <1>5
  <2> QED BY <1>2, <2>2, <2>4, <2>5, <2>6, CallsChain
<1>9. DoneInv'
  <2> DEFINE old == {q \in Path : Done(q)}
  <2>1. {q \in Path : Done(q)'} = old \cup {top}
    BY <1>3, <1>6 DEF Done
  <2>2. top \notin old /\ old \subseteq files
    BY <1>1, <1>3 DEF BeingVisited, Done, DoneInv
  <2>3. \A q \in Path : Targets(q)' = Targets(q) /\ Targets(q) \subseteq Path
    BY <1>2, SameRegistry, ImportTyping
  <2>4. \A q \in old \cup {top} : q \in files /\ Targets(q) \cap files \subseteq old
    BY <1>1, <1>2, <1>3, <1>7, <2>2 DEF DoneInv
  <2>5. ASSUME NEW S \in SUBSET (old \cup {top}), Cyclic(S) PROVE FALSE
    <3>1. \A q \in S : (Targets(q) \cap S) \cap old # {}
      BY <2>2, <2>4, <2>5 DEF Cyclic
    <3>2. S # {}
      BY <2>5 DEF Cyclic
    <3>3. S \cap old # {}
      BY <3>1, <3>2
    <3>4. Cyclic(S \cap old)
      BY <3>1, <3>3 DEF Cyclic
    <3> QED BY <1>1, <3>4 DEF DoneInv
  <2>6. \A S : Cyclic(S)' <=> Cyclic(S)
    BY <1>2, SameRegistry
  <2>7. \A q \in Path : Done(q)' <=> q \in old \cup {top}
    BY <2>1
  <2> HIDE DEF old
  <2> QED BY <1>2, <2>1, <2>3, <2>4, <2>5, <2>6, <2>7 DEF DoneInv
<1>10. VisitInv'
  <2>1. states'[Root] # 0
    BY <1>1, <1>6, RegistryAssumption DEF Inv, VisitInv
  <2> QED BY <1>1, <1>8, <1>9, <2>1 DEF VisitInv
<1> QED BY <1>1, <1>5, <1>6, <1>10, VisitStepOK

\* The visit ends.
LEMMA EndCyclesOK ==
  ASSUME Inv, EndCycles
  PROVE  Inv'
<1>1. /\ registry' = registry /\ max_registry_files' = max_registry_files
      /\ files' = files /\ pending' = pending /\ reason' = reason
      /\ phase = "cycles" /\ calls = <<>> /\ phase' = "visibility"
  BY DEF EndCycles, input, loading
<1>2. pending = {} /\ states[Root] # 0
  BY <1>1 DEF Inv, LoadInv, VisitInv
<1>3. TypeOK'
  BY <1>1, SameRegistry DEF Inv, TypeOK, EndCycles, cycles, seeing
<1>4. LoadInv' /\ CheckInv'
  BY <1>2, LoadKept DEF Inv, EndCycles
<1>5. VisitInv'
  BY <1>1, <1>2, VisitKept DEF Inv, EndCycles
<1>6. SeeInv'
  BY <1>1, SeeKept DEF Inv, EndCycles
<1>7. ReasonInv'
  BY <1>1, ReasonKept DEF Inv, EndCycles
<1> QED BY <1>3, <1>4, <1>5, <1>6, <1>7 DEF Inv

-----------------------------------------------------------------------------
(* The steps that compute the visibility.                                  *)

\* A step of the visibility disturbs the visibility only.
LEMMA SeeStepOK ==
  ASSUME Inv, phase = "visibility", phase' \in {"visibility", "accepted"}, SeeInv',
         visibility' \in [Path -> (SUBSET files) \cup {None}],
         current' \in files \cup {None}, public_frontier' \subseteq files,
         UNCHANGED <<input, reason, loading, cycles>>
  PROVE  Inv'
<1>1. registry' = registry /\ max_registry_files' = max_registry_files
      /\ files' = files /\ pending' = pending
  BY DEF input, loading
<1>2. pending = {} /\ states[Root] # 0 /\ calls = <<>>
  BY DEF Inv, LoadInv, VisitInv
<1>3. TypeOK'
  BY <1>1, SameRegistry DEF Inv, TypeOK, cycles
<1>4. LoadInv' /\ CheckInv'
  BY <1>2, LoadKept DEF Inv
<1>5. VisitInv'
  BY <1>1, <1>2, VisitKept DEF Inv
<1>6. ReasonInv'
  BY <1>1, ReasonKept DEF Inv
<1> QED BY <1>3, <1>4, <1>5, <1>6 DEF Inv

\* What a loaded file exposes are loaded imports of it.
LEMMA PublicAreTargets ==
  ASSUME NEW p
  PROVE  PublicTargets(p) \subseteq Targets(p) \cap files
BY DEF PublicTargets, Targets

\* What the next state sees, in terms of this state's files.
LEMMA SeeNext ==
  ASSUME registry' = registry, files' = files, phase' = "visibility", current' # None,
         \A q \in Path : visibility'[q] # None =>
           /\ q \in files
           /\ SeesOnly(q, visibility'[q], IF q = current' THEN public_frontier' ELSE {}),
         public_frontier' \subseteq visibility'[current'], visibility'[current'] # None
  PROVE  SeeInv'
<1>1. ASSUME NEW q \in Path, visibility'[q] # None
      PROVE  SeesOnly(q, visibility[q], IF q = current THEN public_frontier ELSE {})'
  <2>1. SeesOnly(q, visibility'[q], IF q = current' THEN public_frontier' ELSE {})
    BY <1>1
  <2> QED BY <2>1 DEF SeesOnly, Exposes, PublicTargets, Targets, ImportsOf, Parsed
<1> QED BY <1>1 DEF SeeInv

\* The direct imports are visible.
LEMMA ExposeDirectOK ==
  ASSUME Inv, NEW p \in Path, ExposeDirect(p)
  PROVE  Inv'
<1> DEFINE direct == (Targets(p) \cap files) \ {p}
           seen   == {p} \cup direct
<1>1. /\ phase = "visibility" /\ current = None /\ p \in files /\ visibility[p] = None
      /\ visibility' = [visibility EXCEPT ![p] = seen]
      /\ public_frontier' = direct /\ current' = p
      /\ UNCHANGED <<input, phase, reason, loading, cycles>>
      /\ TypeOK /\ SeeInv
  BY DEF ExposeDirect, Inv
<1>2. registry' = registry /\ files' = files
  BY <1>1 DEF input, loading
<1>3. seen \subseteq files /\ direct \subseteq files /\ files \subseteq Path /\ p # None
  BY <1>1, RegistryAssumption DEF TypeOK
<1>4. visibility' \in [Path -> (SUBSET files) \cup {None}]
      /\ visibility'[p] = seen /\ \A q \in Path : q # p => visibility'[q] = visibility[q]
  BY <1>1, <1>3 DEF TypeOK
<1>5. SeesOnly(p, seen, direct)
  BY PublicAreTargets DEF SeesOnly, Exposes
<1>6. seen # None
  <2>1. seen \in SUBSET Path
    BY <1>3
  <2> HIDE DEF seen
  <2> QED BY <2>1, RegistryAssumption
<1> HIDE DEF direct, seen
<1>7. SeeInv'
  <2>1. ASSUME NEW q \in Path, visibility'[q] # None
        PROVE  q \in files /\ SeesOnly(q, visibility'[q], IF q = p THEN direct ELSE {})
    <3>1. CASE q = p
      BY <1>1, <1>4, <1>5, <3>1
    <3>2. CASE q # p
      BY <1>1, <1>4, <2>1, <3>2, RegistryAssumption DEF SeeInv
    <3> QED BY <3>1, <3>2
  <2>2. direct \subseteq seen
    BY DEF seen
  <2> QED BY <1>1, <1>2, <1>3, <1>4, <1>6, <2>1, <2>2, SeeNext
<1> QED BY <1>1, <1>3, <1>4, <1>7, SeeStepOK

\* What a visible path re-exports is visible.
LEMMA ExposePublicOK ==
  ASSUME Inv, NEW p \in Path, ExposePublic(p)
  PROVE  Inv'
<1> DEFINE seen     == visibility[current]
           found    == PublicTargets(p) \ seen
           frontier == (public_frontier \ {p}) \cup found
<1>1. /\ phase = "visibility" /\ p \in public_frontier
      /\ visibility' = [visibility EXCEPT ![current] = @ \cup found]
      /\ public_frontier' = frontier /\ current' = current
      /\ UNCHANGED <<input, phase, reason, loading, cycles>>
      /\ TypeOK /\ SeeInv
  BY DEF ExposePublic, Newly, Inv
<1>2. registry' = registry /\ files' = files
  BY <1>1 DEF input, loading
<1>3. /\ current # None /\ current \in files /\ current \in Path /\ files \subseteq Path
      /\ seen \in SUBSET files /\ public_frontier \subseteq seen
      /\ SeesOnly(current, seen, public_frontier)
  <2>1. current # None /\ current \in files /\ current \in Path /\ files \subseteq Path
    BY <1>1 DEF TypeOK, SeeInv
  <2> QED BY <1>1, <2>1 DEF TypeOK, SeeInv
<1> HIDE DEF seen
<1>4. /\ visibility' \in [Path -> (SUBSET files) \cup {None}]
      /\ visibility'[current] = seen \cup found
      /\ \A q \in Path : q # current => visibility'[q] = visibility[q]
  BY <1>1, <1>3, PublicAreTargets DEF TypeOK, seen
<1>5. SeesOnly(current, seen \cup found, frontier)
  BY <1>1, <1>3 DEF SeesOnly, Exposes
<1>6. seen \cup found # None /\ frontier \subseteq seen \cup found /\ frontier \subseteq files
  <2>1. seen \cup found \in SUBSET Path
    BY <1>3, PublicAreTargets
  <2> QED BY <1>3, <2>1, PublicAreTargets, RegistryAssumption
<1> HIDE DEF found, frontier
<1>7. SeeInv'
  <2>1. ASSUME NEW q \in Path, visibility'[q] # None
        PROVE  q \in files /\ SeesOnly(q, visibility'[q], IF q = current THEN frontier ELSE {})
    <3>1. CASE q = current
      BY <1>3, <1>4, <1>5, <3>1
    <3>2. CASE q # current
      BY <1>1, <1>4, <2>1, <3>2 DEF SeeInv
    <3> QED BY <3>1, <3>2
  <2> QED BY <1>1, <1>2, <1>3, <1>4, <1>6, <2>1, SeeNext
<1> QED BY <1>1, <1>3, <1>4, <1>6, <1>7, SeeStepOK

\* A path is done with when its frontier is empty.
LEMMA EndExposureOK ==
  ASSUME Inv, EndExposure
  PROVE  Inv'
<1>1. /\ phase = "visibility" /\ current # None /\ public_frontier = {}
      /\ current' = None /\ visibility' = visibility /\ public_frontier' = {}
      /\ UNCHANGED <<input, phase, reason, loading, cycles>>
      /\ TypeOK /\ SeeInv
  BY DEF EndExposure, Inv
<1>2. registry' = registry /\ files' = files
  BY <1>1 DEF input, loading
<1>3. \A q \in Path : visibility[q] # None => q \in files /\ SeesOnly(q, visibility[q], {})
  BY <1>1 DEF SeeInv
<1>4. SeeInv'
  BY <1>1, <1>2, <1>3, SameView DEF SeeInv
<1>5. /\ visibility' \in [Path -> (SUBSET files) \cup {None}]
      /\ current' \in files \cup {None} /\ public_frontier' \subseteq files
  BY <1>1 DEF TypeOK
<1> QED BY <1>1, <1>4, <1>5, SeeStepOK

\* The graph is accepted.
LEMMA AcceptOK ==
  ASSUME Inv, Accept
  PROVE  Inv'
<1>1. /\ phase = "visibility" /\ phase' = "accepted"
      /\ UNCHANGED <<input, reason, loading, cycles>> /\ UNCHANGED seeing
      /\ TypeOK /\ SeeInv
  BY DEF Accept, Inv
<1>2. SeeInv'
  BY <1>1, SeeKept DEF loading
<1>3. /\ visibility' \in [Path -> (SUBSET files) \cup {None}]
      /\ current' \in files \cup {None} /\ public_frontier' \subseteq files
  BY <1>1 DEF TypeOK, seeing
<1> QED BY <1>1, <1>2, <1>3, SeeStepOK

-----------------------------------------------------------------------------
(* The theorems.                                                           *)

\* The invariant holds of a registry that is about to be loaded.
LEMMA InitOK ==
  ASSUME Init
  PROVE  Inv
<1>1. registry \in [Path -> Source] /\ max_registry_files \in Nat
  BY RegistryAssumption DEF Init
<1>2. TypeOK
  BY <1>1, EmptySeq, RegistryAssumption DEF Init, TypeOK
<1>3. LoadInv
  BY <1>1, ReachableLeast DEF Init, LoadInv
<1>4. CheckInv
  BY <1>1, FS_EmptySet DEF Init, CheckInv
<1>5. VisitInv
  <2>1. CallsInv
    BY DEF Init, CallsInv, BeingVisited
  <2>2. {p \in Path : Done(p)} = {}
    BY DEF Init, Done
  <2>3. DoneInv
    BY <2>2 DEF DoneInv, Cyclic
  <2> QED BY <2>1, <2>3 DEF Init, VisitInv
<1>6. SeeInv /\ ReasonInv
  BY RegistryAssumption DEF Init, SeeInv, ReasonInv, Reason
<1> QED BY <1>2, <1>3, <1>4, <1>5, <1>6 DEF Inv

\* Inv is inductive.
THEOREM ImportInvariance == Spec => []Inv
<1>1. Inv /\ [Next]_vars => Inv'
  <2> SUFFICES ASSUME Inv, [Next]_vars PROVE Inv'
    OBVIOUS
  <2>1. ASSUME NEW p \in Path, Load(p) \/ ExposeDirect(p) \/ ExposePublic(p) PROVE Inv'
    BY <2>1, LoadOK, ExposeDirectOK, ExposePublicOK
  <2>2. ASSUME BeginCycles \/ VisitImport \/ LeaveVisit \/ EndCycles PROVE Inv'
    BY <2>2, BeginCyclesOK, VisitImportOK, LeaveVisitOK, EndCyclesOK
  <2>3. ASSUME EndExposure \/ Accept PROVE Inv'
    BY <2>3, EndExposureOK, AcceptOK
  <2>4. ASSUME UNCHANGED vars PROVE Inv'
    <3>1. /\ UNCHANGED input /\ UNCHANGED loading /\ UNCHANGED cycles /\ UNCHANGED seeing
          /\ phase' = phase /\ reason' = reason /\ files' = files
      BY <2>4 DEF vars, input, loading, cycles, seeing
    <3>2. TypeOK'
      BY <3>1, SameRegistry DEF Inv, TypeOK, input, loading, cycles, seeing
    <3>3. LoadInv' /\ CheckInv'
      BY <3>1, LoadKept DEF Inv, LoadInv
    <3>4. VisitInv'
      BY <3>1, VisitKept DEF Inv, VisitInv
    <3> QED BY <3>1, <3>2, <3>3, <3>4, SeeKept, ReasonKept DEF Inv
  <2> QED BY <2>1, <2>2, <2>3, <2>4 DEF Next, Terminated
<1> QED BY <1>1, InitOK, PTL DEF Spec

\* The visit never enters a path whose source is not loaded, and visibility
\* names loaded sources only.
THEOREM ImportTypeCorrectness == Spec => []TypeOK
<1>1. Inv => TypeOK
  BY DEF Inv
<1> QED BY <1>1, ImportInvariance, PTL

\* parse_registry loads exactly the sources that the root reaches.
THEOREM LoadsExactly == Spec => []LoadedExactly
<1>1. Inv => LoadedExactly
  BY LoadedIsReachable DEF Inv, LoadInv, LoadedExactly
<1> QED BY <1>1, ImportInvariance, PTL

\* The file limit bounds what is loaded and refuses only larger graphs.
THEOREM FileLimitIsExact == Spec => []WithinFileLimit
<1>1. Inv => WithinFileLimit
  BY DEF Inv, CheckInv, ReasonInv, WithinFileLimit
<1> QED BY <1>1, ImportInvariance, PTL

\* A missing source is reported when and only when something requires it.
THEOREM MissingIsJustified == Spec => []MissingJustified
<1>1. Inv => MissingJustified
  <2> SUFFICES ASSUME Inv PROVE MissingJustified
    OBVIOUS
  <2>1. ASSUME phase \notin {"loading", "error"}, NEW p \in NeededBy(files)
        PROVE  registry[p] # Absent
    <3>1. Root \in files
      BY <2>1, LoadedIsReachable DEF Inv, LoadInv
    <3>2. registry[Root] # Absent
      BY <3>1 DEF Inv, TypeOK, Parsed
    <3> QED BY <2>1, <3>2 DEF Inv, CheckInv, NeededBy
  <2> QED BY <2>1 DEF Inv, ReasonInv, MissingJustified
<1> QED BY <1>1, ImportInvariance, PTL

\* validate_import_cycles accepts acyclic graphs only, and refuses cyclic ones
\* only.
THEOREM CyclesAreRejected == Spec => []CyclesRejected
<1>1. Inv => CyclesRejected
  <2> SUFFICES ASSUME Inv PROVE CyclesRejected
    OBVIOUS
  <2>1. ASSUME phase \in {"visibility", "accepted"}, NEW S \in SUBSET files
        PROVE  ~Cyclic(S)
    <3> DEFINE done == {p \in Path : Done(p)}
    <3>1. /\ calls = <<>> /\ states[Root] # 0 /\ states \in [Path -> {0, 1, 2}]
          /\ CallsInv /\ DoneInv /\ pending = {} /\ registry \in [Path -> Source]
      BY <2>1 DEF Inv, TypeOK, LoadInv, VisitInv
    <3>2. \A p \in Path : ~BeingVisited(p)
      BY <3>1 DEF CallsInv
    <3>3. Root \in done
      BY <3>1, <3>2, RegistryAssumption DEF BeingVisited, Done
    <3>4. Closed(done)
      <4> SUFFICES ASSUME NEW p \in done, NEW q \in Registered(Targets(p)) PROVE q \in done
        BY DEF Closed
      <4>1. p \in files /\ q \in files /\ q \in Path /\ q \in Targets(p)
        BY <3>1 DEF DoneInv, Registered, Inv, LoadInv, TypeOK
      <4> QED BY <3>1, <4>1 DEF DoneInv
    <3>5. files \subseteq done
      BY <3>1, <3>3, <3>4, LoadedIsReachable, ReachableLeast DEF Inv
    <3> QED BY <3>1, <3>5 DEF DoneInv
  <2> QED BY <2>1 DEF Inv, ReasonInv, CyclesRejected
<1> QED BY <1>1, ImportInvariance, PTL

\* Loading and the visit together refuse a registry for a defect that it has,
\* and accept none with such a defect.
THEOREM RefusalsAreExact == Spec => []RefusalsExact
<1>1. WithinFileLimit /\ MissingJustified /\ CyclesRejected => RefusalsExact
  BY DEF RefusalsExact
<1> QED BY <1>1, FileLimitIsExact, MissingIsJustified, CyclesAreRejected, PTL

\* visible_import_paths computes the least set that the imports expose.
THEOREM VisibilityIsExact == Spec => []VisibilityExact
<1>1. Inv => VisibilityExact
  BY DEF Inv, TypeOK, SeeInv, SeesOnly, Exposes, VisibilityExact
<1> QED BY <1>1, ImportInvariance, PTL

-----------------------------------------------------------------------------
(* The refinement.                                                         *)

\* What is known of every reachable state.
Known == Inv /\ MissingJustified /\ CyclesRejected /\ VisibilityExact

\* The two specifications mean the same by the imports of a registry.
LEMMA SameRelation ==
  /\ Abstract!Reachable = Reachable
  /\ \A p : Abstract!ImportsOf(p) = ImportsOf(p) /\ Abstract!Targets(p) = Targets(p)
  /\ \A S : Abstract!NeededBy(S) = NeededBy(S) /\ (Abstract!Cyclic(S) <=> Cyclic(S))
<1>1. \A p : Abstract!ImportsOf(p) = ImportsOf(p) /\ Abstract!Targets(p) = Targets(p)
  BY DEF Abstract!ImportsOf, ImportsOf, Abstract!Parsed, Parsed, Abstract!Targets, Targets
<1>2. \A S : Abstract!Closed(S) <=> Closed(S)
  BY <1>1 DEF Abstract!Closed, Closed, Abstract!Registered, Registered
<1>3. Abstract!Reachable = Reachable
  BY <1>2 DEF Abstract!Reachable, Reachable
<1>4. \A S : Abstract!NeededBy(S) = NeededBy(S) /\ (Abstract!Cyclic(S) <=> Cyclic(S))
  BY <1>1 DEF Abstract!NeededBy, NeededBy, Abstract!Cyclic, Cyclic
<1> QED BY <1>1, <1>3, <1>4

\* ... and by the size of a set.
LEMMA SameCardinality == \A S : Abstract!Cardinality(S) = Cardinality(S)
BY DEF Abstract!Cardinality, Cardinality, Abstract!IsFiniteSet, IsFiniteSet

\* The visibility of a path is the least set it may see.
LEMMA SeesLeast ==
  ASSUME Known, phase = "visibility", current = None,
         \A p \in files : visibility[p] # None, files = Reachable, NEW p \in files
  PROVE  visibility[p] = Abstract!Sees(p, files)
<1>1. \A S \in SUBSET files : Abstract!Exposed(p, S, files) <=> Exposes(p, S)
  <2> SUFFICES ASSUME NEW S \in SUBSET files
               PROVE  Abstract!Exposed(p, S, files) <=> Exposes(p, S)
    OBVIOUS
  <2>1. ASSUME NEW q
        PROVE  PublicTargets(q) \subseteq S <=>
                 \A import \in ImportsOf(q) :
                   import.kind = "public" /\ import.path \in files => import.path \in S
    BY DEF PublicTargets
  <2> QED BY <2>1, SameRelation DEF Exposes, Abstract!Exposed
<1>2. /\ \A S \in SUBSET files : Exposes(p, S) => visibility[p] \subseteq S
      /\ Exposes(p, visibility[p])
  <2>1. None \notin files
    BY RegistryAssumption DEF Known, Inv, TypeOK
  <2> QED BY <2>1 DEF Known, VisibilityExact
<1>3. visibility[p] \in SUBSET files
  <2>1. p \in Path /\ visibility \in [Path -> (SUBSET files) \cup {None}]
    BY DEF Known, Inv, TypeOK
  <2> QED BY <2>1
<1> QED BY <1>1, <1>2, <1>3 DEF Abstract!Sees

\* Once loading has ended nothing that it checks is wrong.
LEMMA NoLoadingDefects ==
  ASSUME Known, phase \in {"cycles", "visibility"}
  PROVE  files = Reachable /\ Abstract!LoadingDefects = {}
<1>1. files = Reachable
  BY LoadedIsReachable DEF Known, Inv, LoadInv
<1>2. \A p \in NeededBy(Reachable) : registry[p] # Absent
  BY <1>1 DEF Known, MissingJustified
<1>3. \A p \in Reachable : registry[p] # Broken
  BY <1>1 DEF Known, Inv, TypeOK, Parsed
<1>4. ~(Cardinality(Reachable) > max_registry_files)
  <2>1. Cardinality(files) \in Nat /\ max_registry_files \in Nat
    BY FiniteFiles DEF Known, Inv, TypeOK
  <2> QED BY <1>1, <2>1 DEF Known, Inv, CheckInv
<1> QED BY <1>2, <1>3, <1>4, <1>1, SameRelation, SameCardinality DEF Abstract!LoadingDefects

\* Accepting is the abstract Accept.
LEMMA AcceptMaps ==
  ASSUME Known, Accept
  PROVE  Abstract!Accept
<1>1. /\ phase = "visibility" /\ phase' = "accepted" /\ current = None
      /\ \A p \in files : visibility[p] # None
      /\ UNCHANGED input /\ files' = files /\ visibility' = visibility
  BY DEF Accept, loading, seeing
<1>2. files = Reachable /\ Abstract!LoadingDefects = {}
  BY <1>1, NoLoadingDefects
<1>3. \A S \in SUBSET Reachable : ~Cyclic(S)
  BY <1>1, <1>2 DEF Known, CyclesRejected
<1>4. Abstract!Defects = {}
  BY <1>2, <1>3, SameRelation DEF Abstract!Defects
<1>5. Seen' = [p \in files |-> Abstract!Sees(p, files)]
  <2>1. Seen' = [p \in files |-> visibility[p]]
    BY <1>1 DEF Seen
  <2> QED BY <1>1, <1>2, <2>1, SeesLeast
<1>6. Outcome = "parsing" /\ Outcome' = "accepted"
  BY <1>1 DEF Outcome
<1> QED BY <1>1, <1>2, <1>4, <1>5, <1>6, SameRelation DEF Abstract!Accept, input, Abstract!input

\* A refusal during loading names a defect of the registry.
LEMMA RefusalMaps ==
  ASSUME Known, Known', NEW p \in Path, Load(p), phase' = "error"
  PROVE  Abstract!Refuse
<1>1. /\ phase = "loading" /\ p \in pending /\ Fail(Refusal(p)) /\ Refusal(p) # None
  BY DEF Load
<1>2. /\ registry' = registry /\ max_registry_files' = max_registry_files
      /\ reason' = Refusal(p)
  BY <1>1 DEF Fail, input
<1>3. Refusal(p) \in {"missing", "broken", "limit"}
  BY <1>1, RefusalCauses DEF Reason
<1>4. Refusal(p) = "missing" => \E q \in NeededBy(Reachable) : registry[q] = Absent
  BY <1>2, SameRegistry DEF Known, Inv, ReasonInv
<1>5. Refusal(p) = "limit" => Cardinality(Reachable) > max_registry_files
  BY <1>2, SameRegistry DEF Known, Inv, ReasonInv
<1>6. Refusal(p) = "broken" => registry[p] = Broken
  <2> SUFFICES ASSUME registry[p] # Broken PROVE Refusal(p) # "broken"
    OBVIOUS
  <2>1. Refusal(p) = "missing" \/ Refusal(p) = "limit" \/ Refusal(p) = None
    BY DEF Refusal, Parsed
  <2> QED BY <1>1, <2>1
<1>7. p \in Reachable
  BY <1>1 DEF Known, Inv, LoadInv
<1>8. Refusal(p) \in Abstract!LoadingDefects
  BY <1>3, <1>4, <1>5, <1>6, <1>7, SameRelation, SameCardinality
  DEF Abstract!LoadingDefects
<1>9. Outcome = "parsing" /\ Outcome' = Refusal(p) /\ Seen = None /\ Seen' = None
  BY <1>1, <1>2 DEF Outcome, Seen, Fail
<1>10. Refusal(p) \in Abstract!Defects
  BY <1>8 DEF Abstract!Defects
<1> QED BY <1>2, <1>3, <1>9, <1>10 DEF Abstract!Refuse, Abstract!input, Abstract!Reason

\* A cycle found is a cycle of a registry that has no other defect.
LEMMA CycleMaps ==
  ASSUME Known, Known', VisitImport, phase' = "error"
  PROVE  Abstract!Refuse
<1>1. phase = "cycles" /\ Fail("cycle")
  BY DEF VisitImport
<1>2. /\ registry' = registry /\ max_registry_files' = max_registry_files
      /\ reason' = "cycle" /\ files' = files
  BY <1>1 DEF Fail, input, loading
<1>3. \E S \in SUBSET files : Cyclic(S)
  BY <1>2, SameRegistry DEF Known, Inv, ReasonInv
<1>4. files = Reachable /\ Abstract!LoadingDefects = {}
  BY <1>1, NoLoadingDefects
<1>5. "cycle" \in Abstract!Defects
  BY <1>3, <1>4, SameRelation DEF Abstract!Defects
<1>6. Outcome = "parsing" /\ Outcome' = "cycle" /\ Seen = None /\ Seen' = None
  BY <1>1, <1>2 DEF Outcome, Seen, Fail
<1> QED BY <1>2, <1>5, <1>6 DEF Abstract!Refuse, Abstract!input, Abstract!Reason

\* A step that does not return changes nothing that a caller sees.
LEMMA WorkStutters ==
  ASSUME UNCHANGED input, phase \notin {"accepted", "error"}, phase' \notin {"accepted", "error"}
  PROVE  UNCHANGED Abstract!vars
<1>1. Outcome = "parsing" /\ Outcome' = "parsing" /\ Seen = None /\ Seen' = None
  BY DEF Outcome, Seen
<1> QED BY <1>1 DEF Abstract!vars, input

\* Every step is a step of the atomic specification or a stutter.
LEMMA StepMaps ==
  ASSUME Known, Known', [Next]_vars
  PROVE  [Abstract!Next]_(Abstract!vars)
<1>1. ASSUME NEW p \in Path, Load(p) PROVE [Abstract!Next]_(Abstract!vars)
  <2>1. CASE phase' = "error"
    BY <1>1, <2>1, RefusalMaps DEF Abstract!Next
  <2>2. CASE phase' # "error"
    <3>1. phase = "loading" /\ phase' = "loading" /\ UNCHANGED input
      BY <1>1, <2>2 DEF Load, Fail
    <3> QED BY <3>1, WorkStutters
  <2> QED BY <2>1, <2>2
<1>2. ASSUME NEW p \in Path, ExposeDirect(p) \/ ExposePublic(p)
      PROVE  [Abstract!Next]_(Abstract!vars)
  BY <1>2, WorkStutters DEF ExposeDirect, ExposePublic
<1>3. ASSUME VisitImport PROVE [Abstract!Next]_(Abstract!vars)
  <2>1. CASE phase' = "error"
    BY <1>3, <2>1, CycleMaps DEF Abstract!Next
  <2>2. CASE phase' # "error"
    <3>1. phase = "cycles" /\ phase' = "cycles" /\ UNCHANGED input
      BY <1>3, <2>2 DEF VisitImport, Fail
    <3> QED BY <3>1, WorkStutters
  <2> QED BY <2>1, <2>2
<1>4. ASSUME BeginCycles \/ LeaveVisit \/ EndCycles \/ EndExposure
      PROVE  [Abstract!Next]_(Abstract!vars)
  BY <1>4, WorkStutters DEF BeginCycles, LeaveVisit, EndCycles, EndExposure
<1>5. ASSUME Accept PROVE [Abstract!Next]_(Abstract!vars)
  BY <1>5, AcceptMaps DEF Abstract!Next
<1>6. ASSUME UNCHANGED vars PROVE [Abstract!Next]_(Abstract!vars)
  BY <1>6 DEF vars, Abstract!vars, Outcome, Seen
<1> QED BY <1>1, <1>2, <1>3, <1>4, <1>5, <1>6 DEF Next, Terminated

\* parse_registry, as far as a caller can tell, decides in one step: it accepts
\* exactly the registries without a defect, with the least visibility their
\* imports give, and refuses the others for a defect they have.
THEOREM LoadingIsAtomic == Spec => Abstract!Init /\ [][Abstract!Next]_(Abstract!vars)
<1>1. Init => Abstract!Init
  BY DEF Init, Abstract!Init, Outcome, Seen
<1>2. Known /\ Known' /\ [Next]_vars => [Abstract!Next]_(Abstract!vars)
  BY StepMaps
<1>3. Spec => []Known
  BY ImportInvariance, MissingIsJustified, CyclesAreRejected, VisibilityIsExact, PTL DEF Known
<1> QED BY <1>1, <1>2, <1>3, PTL DEF Spec
=============================================================================
