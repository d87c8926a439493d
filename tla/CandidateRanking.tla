---------------------------- MODULE CandidateRanking ---------------------------
(***************************************************************************)
(* The order of the candidates (presentation/ranking.py): exclusions,      *)
(* budget tiers, Pareto fronts, the ranking key, and the rules by which a  *)
(* batch of scores refuses itself.                                         *)
(*                                                                         *)
(* A candidate is a record: product (a number, ordered as the text of its  *)
(* identifier is), foundation and confidence.                              *)
(***************************************************************************)
EXTENDS CandidateDecision, SequencesExt

CONSTANT IndexScale   \* the value index is in units of 1/IndexScale
ASSUME IndexScaleAssumption == IndexScale \in Nat /\ IndexScale > 0

HasBest(candidate) == candidate.foundation.best # {}
Best(candidate) == CHOOSE cost \in candidate.foundation.best : TRUE

\* By the selected price, not by the cost that risk adds to.
BudgetStatus(request, candidate) ==
    IF ~HasBest(candidate) THEN "not_assessed"
    ELSE IF Best(candidate).price <= request.maximum THEN "within_budget"
    ELSE IF Given(request.stretch) /\ Best(candidate).price <= request.stretch
    THEN "within_stretch" ELSE "over_budget"

Exclusions(request, candidate) ==
    {code \in {"criteria_not_defined", "hard_requirements_unmet", "no_comparable_offer",
               "nonpositive_effective_cost", "over_budget", "evidence_confidence_zero"} :
        CASE code = "criteria_not_defined" -> candidate.foundation.utility = None
          [] code = "hard_requirements_unmet" -> ~candidate.foundation.hardMet
          [] code = "no_comparable_offer" -> ~HasBest(candidate)
          [] code = "nonpositive_effective_cost" -> HasBest(candidate) /\ Best(candidate).cost <= 0
          [] code = "over_budget" -> BudgetStatus(request, candidate) = "over_budget"
          [] code = "evidence_confidence_zero" -> candidate.confidence.total <= 0}

\* _draft's value index, per hundred and final score, of an eligible candidate.
ValueIndex(candidate) == HalfUp(candidate.confidence.adjusted * IndexScale, Best(candidate).cost)

ValuePer100(candidate) == HalfUp(ValueIndex(candidate) * 100 * Scale, IndexScale)

FinalScore(candidate) ==
    LET raw == 75 * candidate.foundation.utility + 25 * candidate.confidence.total
                 - 100 * Percent(Best(candidate).risk)
    IN  Max({0, Min({100 * Scale, raw})})

Draft(request, candidate) ==
    LET exclusions == Exclusions(request, candidate)
        ranked == exclusions = {}
    IN  [product |-> candidate.product, budget |-> BudgetStatus(request, candidate),
         eligible |-> ranked, exclusions |-> exclusions,
         best |-> candidate.foundation.best, evaluations |-> candidate.foundation.evaluations,
         cited |-> UNION {item.evidence : item \in Range(candidate.confidence.items)},
         adjusted |-> candidate.confidence.adjusted, confidence |-> candidate.confidence.total,
         cost |-> IF HasBest(candidate) THEN Best(candidate).cost ELSE None,
         per100 |-> IF ranked THEN ValuePer100(candidate) ELSE None,
         final |-> IF ranked THEN FinalScore(candidate) ELSE None,
         front |-> None, rank |-> None]
-------------------------------------------------------------------------------
Dominates(left, right) ==
    /\ left.adjusted >= right.adjusted
    /\ left.confidence >= right.confidence
    /\ left.cost <= right.cost
    /\ \/ left.adjusted > right.adjusted
       \/ left.confidence > right.confidence
       \/ left.cost < right.cost

(***************************************************************************)
(* _pareto_fronts: in each tier the candidates no remaining one dominates  *)
(* are peeled off, front after front; numbering starts again in the next   *)
(* tier.                                                                   *)
(***************************************************************************)
Undominated(drafts) ==
    {draft \in drafts : \A other \in drafts \ {draft} : ~Dominates(other, draft)}

Tier(drafts, budget) == {draft \in drafts : draft.budget = budget}

Remaining(tier) ==
    LET left[n \in 0 .. Cardinality(tier)] ==
            IF n = 0 THEN tier ELSE left[n - 1] \ Undominated(left[n - 1])
    IN  left

\* Mutant: the first front is number zero.
FrontFromZero(tier, draft) ==
    Max({n \in 0 .. Cardinality(tier) : draft \in Remaining(tier)[n]})

FrontIn(tier, draft) ==
    Max({n \in 0 .. Cardinality(tier) : draft \in Remaining(tier)[n]}) + 1

\* Mutant: the fronts of all tiers are peeled together.
FrontAcrossTiers(eligible, draft) == FrontIn(eligible, draft)

FrontOf(eligible, draft) == FrontIn(Tier(eligible, draft.budget), draft)

TierPriority(budget) == IF budget = "within_budget" THEN 0 ELSE 1

\* Mutant: the final score comes before the front.
RankingKeyByScore(draft, front) ==
    <<TierPriority(draft.budget), - draft.final, front, - draft.per100, draft.cost, draft.product>>

\* _ranking_key, smallest first.
RankingKey(draft, front) ==
    <<TierPriority(draft.budget), front, - draft.final, - draft.per100, draft.cost, draft.product>>

KeyLess(a, b) ==
    \E i \in DOMAIN a : a[i] < b[i] /\ \A j \in 1 .. i - 1 : a[j] = b[j]

\* sorted: the domain of the function in the order of the keys it gives.
Ordered(key) ==
    CHOOSE seq \in [1 .. Cardinality(DOMAIN key) -> DOMAIN key] :
        \A i, j \in DOMAIN seq : i < j => KeyLess(key[seq[i]], key[seq[j]])

(***************************************************************************)
(* CandidateRankingEngine.rank: the eligible candidates by their key, then *)
(* the others by product.  A score is a draft with its front and rank.     *)
(***************************************************************************)
Ranking(drafts) ==
    LET eligible == {draft \in drafts : draft.eligible}
        front == [draft \in eligible |-> FrontOf(eligible, draft)]
        ranked == Ordered([draft \in eligible |-> RankingKey(draft, front[draft])])
        others == Ordered([draft \in drafts \ eligible |-> <<draft.product>>])
    IN  [i \in DOMAIN ranked |-> [ranked[i] EXCEPT !.front = front[ranked[i]], !.rank = i]]
        \o others

Scores(request, candidates) == Ranking({Draft(request, candidate) : candidate \in candidates})

\* The scores that are eligible, or those that are not, in their order.
Selected(scores, eligible) ==
    LET chosen == {i \in DOMAIN scores : scores[i].eligible = eligible}
        Nth(n) == CHOOSE i \in chosen : Cardinality({j \in chosen : j <= i}) = n
    IN  [n \in 1 .. Cardinality(chosen) |-> scores[Nth(n)]]

(***************************************************************************)
(* CandidateRankingBatch and CandidateScore validate themselves: ranks in  *)
(* order without a gap, and the fronts of both tiers, taken together,      *)
(* without a gap.                                                          *)
(***************************************************************************)
BatchIsConsistent(scores) ==
    LET eligible == Selected(scores, TRUE)
        fronts == {eligible[i].front : i \in DOMAIN eligible}
    IN  /\ \A i, j \in DOMAIN scores : scores[i].product = scores[j].product => i = j
        /\ \A i \in DOMAIN eligible : eligible[i].rank = i
        /\ fronts # {} => fronts = 1 .. Max(fronts)
        /\ \A i \in DOMAIN scores :
              scores[i].eligible =>
                 /\ None \notin {scores[i].adjusted, scores[i].front, scores[i].rank}
                 /\ scores[i].cost > 0
===============================================================================
