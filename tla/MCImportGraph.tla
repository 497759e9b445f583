---------------------------- MODULE MCImportGraph ----------------------------
(***************************************************************************)
(* All the import graphs of a few paths.                                   *)
(***************************************************************************)
EXTENDS RegistryRefinement, SequencesExt

CONSTANTS a, b, c, d

\* The sources with at most n imports out of the choices given, one import of
\* each path, in some order.
SourcesOver(imports, n) ==
  {SetToSeq(S) : S \in {T \in SUBSET imports :
     /\ Cardinality(T) <= n
     /\ \A i, j \in T : i.path = j.path => i = j}}

\* Any three sources, absent and broken ones included, cycles included, and no
\* fourth.
FourPaths == {a, b, c, d}
AnyThree ==
  LET source == SourcesOver([path : {a, b, c}, kind : {"normal", "weak"}], 2)
                  \cup {Absent, Broken}
  IN  {[p \in FourPaths |-> IF p = d THEN Absent ELSE r[p]] :
         r \in {q \in [{a, b, c} -> source] : q[a] # Broken}}

\* Four sources that import later ones only, re-exporting them or not.
Later(p) == CASE p = a -> {b, c, d} [] p = b -> {c, d} [] p = c -> {d} [] p = d -> {}
LayeredFour ==
  LET sources(p) == SourcesOver([path : Later(p), kind : {"normal", "public"}], 3)
  IN  UNION {UNION {{[p \in FourPaths |-> CASE p = a -> sa [] p = b -> sb [] p = c -> sc
                                          [] p = d -> <<>>] :
                       sc \in sources(c)} : sb \in sources(b)} : sa \in sources(a)}

AnyGraph == AnyThree \cup LayeredFour

TwoOrFour == {2, 4}
=============================================================================
