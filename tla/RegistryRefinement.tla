------------------------- MODULE RegistryRefinement -------------------------
(***************************************************************************)
(* The loops of parse_registry that walk the imports implement the atomic  *)
(* specification of loading a registry.  A caller sees nothing of a parse  *)
(* that has not returned, and of a parse that has, the outcome and what    *)
(* each source sees.                                                       *)
(***************************************************************************)
EXTENDS ImportGraph

Outcome ==
  CASE phase = "accepted" -> "accepted"
    [] phase = "error"    -> reason
    [] OTHER              -> "parsing"

Seen == IF phase = "accepted" THEN [p \in files |-> visibility[p]] ELSE None

Abstract == INSTANCE Registry WITH outcome <- Outcome, visibility <- Seen

\* Loading step by step is loading in one step: whatever the order of the
\* loops, a registry is accepted exactly when it has no defect, with the least
\* visibility its imports give, it is refused for a defect that it has and for
\* a cycle only when it has no other, and it is never left undecided.
LoadsAtomically == Abstract!Spec
=============================================================================
