--------------------------- MODULE CandidateDecision ---------------------------
(***************************************************************************)
(* What one candidate is worth: criterion utility and the cost of its      *)
(* offers (presentation/decision.py) and the confidence its evidence       *)
(* deserves (presentation/confidence.py).                                  *)
(*                                                                         *)
(* Decimals are integers in units of 1/Scale, the code's quantum being     *)
(* 10^-6; every quotient is exact before it is rounded half up.  Days      *)
(* stand for time.                                                         *)
(***************************************************************************)
EXTENDS ProductFacts, Sequences, FiniteSetsExt

CONSTANT Scale
ASSUME ScaleAssumption == Scale \in Nat /\ Scale > 0 /\ Scale % 100 = 0

Percent(n) == n * (Scale \div 100)
Half == Scale \div 2

\* quantize(..., ROUND_HALF_UP) of n/d, both non-negative.
HalfUp(n, d) == (2 * n + d) \div (2 * d)
-------------------------------------------------------------------------------
(***************************************************************************)
(* _score_value: at most one half outside the bounds, at least one half    *)
(* inside them, one at the preferred value.                                *)
(***************************************************************************)
SatisfiedScore(value, criterion) ==
    LET low == criterion.minimum
        best == criterion.preferred
        high == criterion.maximum
    IN  IF ~Given(best) THEN Scale
        ELSE IF Given(low) /\ value < best
             THEN HalfUp(Scale * ((best - low) + (value - low)), 2 * (best - low))
        ELSE IF Given(high) /\ value > best
             THEN HalfUp(Scale * ((high - best) + (high - value)), 2 * (high - best))
        ELSE Scale

\* Mutant: the score below the minimum is not halved.
ScoreValueUnhalved(value, criterion) ==
    IF Given(criterion.minimum) /\ value < criterion.minimum
    THEN <<"unsatisfied", HalfUp(Scale * value, criterion.minimum)>>
    ELSE <<"satisfied", SatisfiedScore(value, criterion)>>

ScoreValue(value, criterion) ==
    IF Given(criterion.minimum) /\ value < criterion.minimum
    THEN <<"unsatisfied", HalfUp(Scale * value, 2 * criterion.minimum)>>
    ELSE IF Given(criterion.maximum) /\ value > criterion.maximum
    THEN <<"unsatisfied", HalfUp(Scale * criterion.maximum, 2 * value)>>
    ELSE <<"satisfied", SatisfiedScore(value, criterion)>>

\* The facts that reach a criterion: by the folded key.
Reaching(criterion, facts) ==
    {fact \in facts : KeyToken(fact.key) = KeyToken(criterion.key)}

(***************************************************************************)
(* CriterionEvaluator._evaluate_one: missing, conflicting and unresolved   *)
(* facts score nothing.                                                    *)
(***************************************************************************)
Evaluate(criterion, facts) ==
    LET reaching == Reaching(criterion, facts)
        observed == UNION {fact.readings : fact \in reaching}
        statuses == {fact.status : fact \in reaching}
        Unscored(status) == [status |-> status, score |-> 0]
    IN  IF reaching = {} THEN Unscored("missing")
        ELSE IF "conflict" \in statuses \/ Cardinality(observed) > 1 THEN Unscored("conflict")
        ELSE IF statuses \cap {"unparseable_value", "unsupported_key"} # {}
                \/ Cardinality(observed) # 1
                \/ {fact.unit : fact \in reaching} # {criterion.unit}
             THEN Unscored("unresolved")
        ELSE LET scored == ScoreValue(CHOOSE value \in observed : TRUE, criterion)
             IN  [status |-> scored[1], score |-> scored[2]]

Resolved(evaluation) == evaluation.status \in {"satisfied", "unsatisfied"}

\* _weighted_average of some of the criteria, which are not none.
WeightedMean(criteria, indices, values) ==
    HalfUp(SumFunction([i \in indices |-> criteria[i].weight * values[i]]),
           SumFunction([i \in indices |-> criteria[i].weight]))
-------------------------------------------------------------------------------
StoreRisk == [self_operated |-> 0, flagship |-> 1, authorized |-> 2, third_party |-> 6,
              unknown |-> 8]
PriceRisk == [displayed |-> 4, conditional |-> 8, list |-> 10]
RiskLimit == 30

(***************************************************************************)
(* OfferCostEstimator.assess, of the offer a page was converted to: its    *)
(* region is known and its conditional price has terms, or the page would  *)
(* not have been converted.  The risk is in hundredths, the cost in units  *)
(* of 1/Scale.                                                             *)
(***************************************************************************)
Assess(offer, currency) ==
    LET kind == ComparisonPrice(offer)[1]
        price == ComparisonPrice(offer)[2]
        stockRisk == CASE offer.stock = "available" -> 0
                       [] offer.stock = "unknown"   -> 4
                       [] offer.stock = "sold_out"  -> 10
        sum == StoreRisk[offer.store] + PriceRisk[kind] + stockRisk
        risk == IF sum > RiskLimit THEN RiskLimit ELSE sum
    IN  [offer |-> offer, price |-> price, risk |-> risk,
         cost |-> price * (Scale + Percent(risk)),
         comparable |-> offer.stock # "sold_out" /\ offer.currency = currency]

\* Mutant: the cheapest offer, whether it can be had or not.
BestOfAllOffers(offers, currency) ==
    LET costs == {Assess(offer, currency) : offer \in offers}
    IN  {best \in costs : \A other \in costs \ {best} :
            \/ best.cost < other.cost
            \/ best.cost = other.cost /\ best.offer.id < other.offer.id}

\* The cheapest comparable offer, by identifier when costs are equal.
BestOffers(offers, currency) ==
    LET comparable == {cost \in {Assess(offer, currency) : offer \in offers} : cost.comparable}
    IN  {best \in comparable : \A other \in comparable \ {best} :
            \/ best.cost < other.cost
            \/ best.cost = other.cost /\ best.offer.id < other.offer.id}

(***************************************************************************)
(* CandidateScoringFoundationBuilder.build.                                *)
(***************************************************************************)
Foundation(request, facts, offers) ==
    LET criteria == request.criteria
        evaluations == [i \in DOMAIN criteria |-> Evaluate(criteria[i], facts)]
    IN  [evaluations |-> evaluations,
         utility |-> IF criteria = <<>> THEN None
                     ELSE WeightedMean(criteria, DOMAIN criteria,
                                       [i \in DOMAIN criteria |-> evaluations[i].score]),
         hardMet |-> \A i \in DOMAIN criteria :
                        criteria[i].hard => evaluations[i].status = "satisfied",
         best |-> BestOffers(offers, request.currency)]
-------------------------------------------------------------------------------
SourceReliability ==
    [manufacturer_official |-> 95, platform_self_operated |-> 90, brand_flagship |-> 85,
     authorized_retailer |-> 80, independent_review |-> 75, third_party_seller |-> 65,
     platform_listing |-> 60]

Freshness(row, assessedAt) ==
    LET age == assessedAt - row.captured
    IN  CASE age <= 180               -> 100
          [] age > 180 /\ age <= 365  -> 90
          [] age > 365 /\ age <= 730  -> 80
          [] age > 730                -> 70

CheckConsistency ==
    [match |-> 100, conflict |-> 0, platform_only |-> 60, official_only |-> 75,
     missing_official_source |-> 50]

(***************************************************************************)
(* _consistency of a resolved criterion: pages at two addresses agree;     *)
(* else what the field's checks say, a match first and a conflict second.  *)
(***************************************************************************)
Consistency(linked, checks) ==
    LET statuses == {check.status : check \in checks}
    IN  IF linked = {} THEN 0
        ELSE IF Cardinality({row.url : row \in linked}) >= 2 THEN 100
        ELSE IF "match" \in statuses THEN 100
        ELSE IF "conflict" \in statuses THEN 0
        ELSE IF statuses # {} THEN Min({CheckConsistency[status] : status \in statuses})
        ELSE 50

\* Records of a later day than the assessment: the code raises.
FromTheFuture(linked, facts, checks, assessedAt, complete) ==
    \/ \E fact \in facts : fact.normalizedAt > assessedAt
    \/ complete /\ \E row \in linked : row.captured > assessedAt
    \/ \E check \in checks : check.checkedAt > assessedAt

(***************************************************************************)
(* EvidenceConfidenceEvaluator._assess_one, of the rows still stored; the  *)
(* best source and the newest row speak for all.                           *)
(***************************************************************************)
AssessOne(criterion, evaluation, facts, rows, checks, assessedAt) ==
    LET reaching == Reaching(criterion, facts)
        sources == UNION {fact.evidence : fact \in reaching}
        linked == sources \cap rows
        relevant == {check \in checks : check.field \in {row.field : row \in sources}}
        complete == Resolved(evaluation) /\ linked # {}
    IN  [complete |-> Resolved(evaluation),
         evidence |-> linked,
         reliability |-> IF complete THEN Percent(Max({SourceReliability[row.source] :
                                                          row \in linked})) ELSE 0,
         freshness |-> IF complete THEN Percent(Max({Freshness(row, assessedAt) :
                                                        row \in linked})) ELSE 0,
         consistency |-> IF Resolved(evaluation) THEN Percent(Consistency(linked, relevant))
                         ELSE 0,
         future |-> FromTheFuture(linked, reaching, relevant, assessedAt, Resolved(evaluation))]

(***************************************************************************)
(* EvidenceConfidenceEvaluator.assess.                                     *)
(***************************************************************************)
Confidence(request, foundation, facts, rows, checks, assessedAt) ==
    LET criteria == request.criteria
        items == [i \in DOMAIN criteria |->
                    AssessOne(criteria[i], foundation.evaluations[i], facts, rows, checks,
                              assessedAt)]
        complete == {i \in DOMAIN criteria : items[i].complete}
        Mean(values) == IF complete = {} THEN 0 ELSE WeightedMean(criteria, complete, values)
        completeness == IF criteria = <<>> THEN 0
                        ELSE WeightedMean(criteria, DOMAIN criteria,
                                          [i \in DOMAIN criteria |->
                                              IF i \in complete THEN Scale ELSE 0])
        total == HalfUp(completeness * Mean([i \in complete |-> items[i].reliability])
                          * Mean([i \in complete |-> items[i].freshness])
                          * Mean([i \in complete |-> items[i].consistency]),
                        Scale * Scale * Scale)
    IN  [items |-> items, total |-> total,
         adjusted |-> IF foundation.utility = None THEN None
                      ELSE HalfUp(foundation.utility * total, Scale),
         future |-> \E i \in DOMAIN criteria : items[i].future]
===============================================================================
