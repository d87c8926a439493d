------------------------- MODULE MCWorkflowDeletion -------------------------
EXTENDS WorkflowDeletion, TLC

CONSTANTS w1, w2, p1, o1, o2

OfferSymmetry == Permutations(Offers)

MCProductOf == (o1 :> p1) @@ (o2 :> p1)
\* Bound: seven stages are under way or committed at once.
StagesBound == stage[w1] + stage[w2] <= 6

MCLastStage == (w1 :> 6) @@ (w2 :> 3)
=============================================================================
