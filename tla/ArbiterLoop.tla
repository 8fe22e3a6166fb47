---------------------------- MODULE ArbiterLoop ----------------------------
(***************************************************************************)
(* arbitrate() as the code runs it: one pass over latest_ in index order,  *)
(* keeping an incumbent that only a strictly worse candidate replaces.     *)
(* Arbiter states the same result declaratively (Wins); this module checks *)
(* that the two agree in every state the node reaches.                     *)
(***************************************************************************)
EXTENDS Arbiter

\* latest_ is filled in first-seen order: the source at a position of it.
SourceAt(i) == CHOOSE d \in Heard : rank[d] = i

KeepWorst(best, d) ==
  IF Contributes(d) /\ (best = NoHealth \/ Worse(Candidate(d), best))
    THEN Candidate(d)
    ELSE best

\* The incumbent after the first n sources.
Incumbent[n \in 0 .. Cardinality(Heard)] ==
  IF n = 0 THEN NoHealth ELSE KeepWorst(Incumbent[n - 1], SourceAt(n))

LoopResult ==
  LET best == Incumbent[Cardinality(Heard)]
  IN  IF best = NoHealth THEN Nominal ELSE best

(***************************************************************************)
(* Every publication is what the loop over the verdicts computes, ties     *)
(* between sources included (test_arbiter.cpp:140-150).                    *)
(***************************************************************************)
PublishesTheLoop == [][Publish => published' = LoopResult]_arbiterVars
=============================================================================
