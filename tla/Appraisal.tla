------------------------------- MODULE Appraisal -------------------------------
(***************************************************************************)
(* One request from its review to its explained report: the stages of the  *)
(* pipeline that decide, with the algorithms they run.  A stage commits    *)
(* everything or raises and leaves everything as it was (WorkflowStore     *)
(* models the transactions, and what goes on between them).                *)
(***************************************************************************)
EXTENDS ShoppingReport

CONSTANTS
    Requests,        \* what the user may ask for
    PageSets,        \* the detail observations that may have been collected
    OfficialSets,    \* the official pages a provider may return
    References,      \* the benchmark references that may be installed
    Days             \* the days on which a stage may run

(***************************************************************************)
(* What the domain records validate: a weight is positive, no price and no *)
(* measured number is negative, the stretch budget is not below the other  *)
(* (models.py:25-110, measurements.py:12, benchmarks.py:85).               *)
(***************************************************************************)
Optional(S) == S \cup {None}
Text == [number : Optional(Nat), unit : STRING]
Specs == SUBSET (STRING \X Text)
Bound == Int \cup {None, NaN}

Criteria ==
    Seq([key : STRING, weight : Nat \ {0}, hard : BOOLEAN, minimum : Bound, preferred : Bound,
         maximum : Bound, unit : Optional(STRING)])

RequestRecord ==
    [criteria : Criteria, maximum : Nat, stretch : Optional(Nat), currency : STRING,
     query : {"short", "padded", "long"}]

PageRecord ==
    [id : Int, product : Int, url : STRING, store : DOMAIN SourceOfStore,
     list : Optional(Nat), displayed : Optional(Nat), conditional : Optional(Nat),
     terms : BOOLEAN, stock : {"available", "unknown", "sold_out"}, currency : STRING,
     complete : BOOLEAN, captured : Int, specs : Specs]

OfficialRecord == [id : Int, product : Int, names : Int, url : STRING, specs : Specs]

ReferenceRecord ==
    [captured : Int, entries : SUBSET [name : Int, tokens : SUBSET Text, score : Nat]]

ASSUME RequestsAssumption ==
    /\ Requests \subseteq RequestRecord
    /\ None \notin Requests
    /\ \A asked \in Requests : Given(asked.stretch) => asked.stretch >= asked.maximum

ASSUME PageSetsAssumption ==
    \A found \in PageSets :
        /\ found \subseteq PageRecord /\ IsFiniteSet(found)
        /\ \A page \in found : IsFiniteSet(page.specs)

ASSUME OfficialsAssumption ==
    \A officials \in OfficialSets :
        /\ officials \subseteq OfficialRecord /\ IsFiniteSet(officials)
        /\ \A official \in officials : IsFiniteSet(official.specs)

ASSUME ReferencesAssumption ==
    References \subseteq ReferenceRecord /\ \A r \in References : IsFiniteSet(r.entries)

ASSUME DaysAssumption == Days \subseteq Int /\ Days # {} /\ IsFiniteSet(Days)

VARIABLES
    phase,       \* "new", or the state of the workflow
    request, pages,
    reference,   \* {} when no benchmark reference is installed
    today,
    rows,        \* evidence about products
    offers,      \* the offers: the pages they were converted from
    checks, facts,
    stored,      \* the candidate scores, a set
    report,
    shown,       \* the explanation that was presented
    error        \* what the last call raised, "" when it returned

vars == <<phase, request, pages, reference, today, rows, offers, checks, facts, stored,
          report, shown, error>>

Collected == UNION {{page.product} : page \in offers}
RowsOf(product) == {row \in rows : row.product = product}

Init ==
    /\ phase = "new"
    /\ request = None
    /\ pages = {}
    /\ reference \in {{}} \cup {{r} : r \in References}
    /\ today = Min(Days)
    /\ rows = {} /\ offers = {} /\ checks = {} /\ facts = {}
    /\ stored = {}
    /\ report = None
    /\ shown = None
    /\ error = ""

Raise(code) ==
    /\ error' = code
    /\ UNCHANGED <<phase, request, pages, reference, today, rows, offers, checks, facts,
                   stored, report, shown>>
-------------------------------------------------------------------------------
(***************************************************************************)
(* RequirementReviewer.require_ready: a criterion that repeats another's   *)
(* key, whose bounds are unsound, or that is a hard requirement on a key   *)
(* or unit scoring does not know.                                          *)
(***************************************************************************)
Unmeasurable(criterion) ==
    \A definition \in CanonicalDefinition(criterion.key) : criterion.unit # definition.unit

Blocking(criteria, i) ==
    \/ \E j \in 1 .. i - 1 : KeyToken(criteria[j].key) = KeyToken(criteria[i].key)
    \/ ~BoundsAreSound(criteria[i])
    \/ criteria[i].hard /\ Unmeasurable(criteria[i])

Ready(criteria) == \A i \in DOMAIN criteria : ~Blocking(criteria, i)

Start(asked) ==
    /\ phase = "new"
    /\ IF Ready(asked.criteria)
       THEN /\ phase' = "awaiting_details"
            /\ request' = asked
            /\ error' = ""
            /\ UNCHANGED <<pages, reference, today, rows, offers, checks, facts, stored,
                           report, shown>>
       ELSE Raise("clarification_required")

(***************************************************************************)
(* The collection of details.  A page bears the time its capture says: one *)
(* that was saved has it from its Date: header or the file, and it may be  *)
(* any, also one that is yet to come (saved_pages.py:86-91, 182-187).  The *)
(* platform takes 200 characters with white space folded, a request 2,000: *)
(* a "long" query has too many for it, a "padded" one more than 1,000 but  *)
(* few with white space folded.                                            *)
(***************************************************************************)
Collect(found, day) ==
    /\ phase = "awaiting_details"
    /\ day >= today
    /\ IF request.query = "long"
       THEN Raise("query_rejected")
       ELSE /\ phase' = "details_collected"
            /\ pages' = found
            /\ today' = day
            /\ error' = ""
            /\ UNCHANGED <<request, reference, rows, offers, checks, facts, stored, report, shown>>

\* OfferIngestionService: one page that cannot be converted refuses all.
Ingest ==
    /\ phase = "details_collected"
    /\ IF \A page \in pages : Convertible(page)
       THEN /\ phase' = "offers_collected"
            /\ offers' = pages
            /\ rows' = UNION {PageEvidence(page) : page \in pages}
            /\ error' = ""
            /\ UNCHANGED <<request, pages, reference, today, checks, facts, stored, report,
                           shown>>
       ELSE Raise("detail_context_incomplete")

(***************************************************************************)
(* EvidenceCrossCheckService: the checks bear the day the stage began on,  *)
(* official evidence the day, not earlier, its provider read it on.        *)
(***************************************************************************)
CrossCheck(officials, day) ==
    LET Officials(product) == {o \in officials : o.product = product}
        independent == UNION {UNION {BenchmarkEvidence(r, RowsOf(product)) : r \in reference} :
                                 product \in Collected}
        asked == UNION {Officials(product) : product \in Collected}
    IN  /\ phase = "offers_collected"
        /\ day >= today
        /\ IF \E official \in asked : official.names # official.product
           THEN Raise("official_identity_mismatch")
           ELSE IF ~IndependentInScope(independent, today)
           THEN Raise("independent_evidence_scope")
           ELSE /\ phase' = "evidence_cross_checked"
                /\ checks' = UNION {Checks(product, RowsOf(product), Officials(product), today) :
                                       product \in Collected}
                /\ rows' = rows \cup independent
                                \cup UNION {OfficialEvidence(o, day) : o \in asked}
                /\ today' = day
                /\ error' = ""
                /\ UNCHANGED <<request, pages, reference, offers, facts, stored, report, shown>>

Normalize(day) ==
    LET found == UNION {Facts(product, RowsOf(product), day) : product \in Collected}
    IN  /\ phase = "evidence_cross_checked"
        /\ day >= today
        /\ IF found = {}
           THEN Raise("no_specifications")
           ELSE /\ phase' = "data_normalized"
                /\ facts' = found
                /\ today' = day
                /\ error' = ""
                /\ UNCHANGED <<request, pages, reference, rows, offers, checks, stored, report,
                               shown>>

(***************************************************************************)
(* CandidateScoringService: every product of the request is evaluated,     *)
(* assessed and ranked; anything the algorithms refuse is raised, evidence *)
(* from after the assessment among it (confidence.py:183).                 *)
(***************************************************************************)
Candidate(product, day) ==
    LET itsFacts == {fact \in facts : fact.product = product}
        foundation == Foundation(request, itsFacts, {o \in offers : o.product = product})
    IN  [product |-> product, foundation |-> foundation,
         confidence |-> Confidence(request, foundation, itsFacts, RowsOf(product),
                                   {check \in checks : check.product = product}, day)]

\* What the evaluation of the criteria demands of them again.
CriteriaAreDefined(criteria) ==
    /\ \A i, j \in DOMAIN criteria :
          i # j => KeyToken(criteria[i].key) # KeyToken(criteria[j].key)
    /\ \A i \in DOMAIN criteria : BoundsAreSound(criteria[i])

Score(day) ==
    /\ phase = "data_normalized"
    /\ day >= today
    /\ IF ~CriteriaAreDefined(request.criteria)
       THEN Raise("criterion_definition")
       ELSE LET candidates == {Candidate(product, day) : product \in Collected}
                scores == Scores(request, candidates)
            IN  IF \E candidate \in candidates : candidate.confidence.future
                THEN Raise("evidence_timeline")
                ELSE IF ~BatchIsConsistent(scores)
                THEN Raise("ranking_batch")
                ELSE /\ phase' = "candidates_scored"
                     /\ stored' = Range(scores)
                     /\ today' = day
                     /\ error' = ""
                     /\ UNCHANGED <<request, pages, reference, rows, offers, checks, facts,
                                    report, shown>>

Render(day) ==
    LET scores == StableScores(stored)
    IN  /\ phase = "candidates_scored"
        /\ day >= today
        /\ IF ~ReportIsBuildable(scores, rows, offers)
           THEN Raise("report_input")
           ELSE /\ phase' = "report_rendered"
                /\ report' = Report(scores, day)
                /\ today' = day
                /\ error' = ""
                /\ UNCHANGED <<request, pages, reference, rows, offers, checks, facts, stored,
                               shown>>

(***************************************************************************)
(* ShoppingReportExplanationService.explain: the request is built before   *)
(* the provider is called, and outside the handler of its failures.        *)
(***************************************************************************)
Explain ==
    LET scope == ExplanationScope(report)
        Present(result) ==
            /\ shown' = result
            /\ error' = ""
            /\ UNCHANGED <<phase, request, pages, reference, today, rows, offers, checks, facts,
                           stored, report>>
    IN  /\ phase = "report_rendered"
        /\ \/ Present(Fallback("not_configured"))
           \/ ~RequestIsBuildable(request) /\ Raise("explanation_request")
           \/ /\ RequestIsBuildable(request)
              /\ \/ Present(Fallback("provider_unavailable"))
                 \/ \E answer \in Answers(scope) :
                       Present(IF InScope(answer, scope) THEN Explained(answer)
                               ELSE Fallback("invalid_output"))

Next ==
    \/ \E asked \in Requests : Start(asked)
    \/ \E found \in PageSets, day \in Days : Collect(found, day)
    \/ Ingest
    \/ \E officials \in OfficialSets, day \in Days : CrossCheck(officials, day)
    \/ \E day \in Days : Normalize(day) \/ Score(day) \/ Render(day)
    \/ Explain

Spec == Init /\ [][Next]_vars
-------------------------------------------------------------------------------
\* Evidence of a page that was saved with a later time than today's: only
\* the collection does not compare it with the clock.
IsSavedAhead(row) == \E page \in pages : page.captured > today /\ row \in PageEvidence(page)

TypeOK ==
    /\ phase \in {"new", "awaiting_details", "details_collected", "offers_collected",
                  "evidence_cross_checked", "data_normalized", "candidates_scored",
                  "report_rendered"}
    /\ request \in Requests \cup {None}
    /\ request = None <=> phase = "new"
    /\ pages \in PageSets \cup {{}}
    /\ offers \in {{}, pages}
    /\ today \in Days
    /\ \A row \in rows : row.product \in Collected /\ (row.captured <= today \/ IsSavedAhead(row))
    /\ \A check \in checks : check.product \in Collected /\ check.checkedAt <= today
    /\ \A fact \in facts : fact.product \in Collected /\ fact.evidence \subseteq rows
    /\ {score.product : score \in stored} \in {{}, Collected}
    /\ \A score \in stored : score.confidence \in 0 .. Scale
    /\ IF phase = "report_rendered" THEN report.generatedAt \in Days ELSE report = None
    /\ shown # None => phase = "report_rendered"

(***************************************************************************)
(* A criterion is scored exactly when everything observed about it agrees: *)
(* some row reaches it and all that reach it measure one and the same      *)
(* value in its unit.  The grouping by canonical key in normalization, the *)
(* statuses of the groups and their regrouping by the folded key in        *)
(* scoring must together neither lose a dissenting row nor drop an         *)
(* agreeing one (normalization.py:139-177, decision.py:229-290).           *)
(***************************************************************************)
About(product, criterion) ==
    {row \in RowsOf(product) : /\ row.field \notin IdentityFields
                               /\ KeyToken(CanonicalKey(row.field)) = KeyToken(criterion.key)}

Measured(product, criterion, value) ==
    /\ About(product, criterion) # {}
    /\ \A row \in About(product, criterion) :
          \E d \in DefinitionOf(row.field) :
             d.unit = criterion.unit /\ Reading(row.value, d) = {value}

Readings(product, criterion) ==
    UNION {UNION {Reading(row.value, d) : d \in DefinitionOf(row.field)} :
              row \in About(product, criterion)}

OneReadingDecides ==
    \A score \in stored : \A i \in DOMAIN request.criteria :
        Resolved(score.evaluations[i])
            <=> \E value \in Readings(score.product, request.criteria[i]) :
                    Measured(score.product, request.criteria[i], value)

(***************************************************************************)
(* Of two candidates the one whose measured value lies nearer to the       *)
(* preferred value, on the same side of it, never scores less: across the  *)
(* bounds, where the formula changes, and in spite of rounding             *)
(* (decision.py:165-191).                                                  *)
(***************************************************************************)
Target(criterion, bound) == IF Given(criterion.preferred) THEN criterion.preferred ELSE bound

Nearer(value, other, criterion) ==
    \/ /\ Given(criterion.minimum)
       /\ other <= value
       /\ value <= Target(criterion, criterion.minimum)
    \/ /\ Given(criterion.maximum)
       /\ other >= value
       /\ value >= Target(criterion, criterion.maximum)

NearerScoresNoLess ==
    \A left, right \in stored : \A i \in DOMAIN request.criteria :
        LET criterion == request.criteria[i]
        IN  /\ Resolved(left.evaluations[i])
            /\ Resolved(right.evaluations[i])
            /\ \E v \in Readings(left.product, criterion),
                  w \in Readings(right.product, criterion) : Nearer(v, w, criterion)
            => left.evaluations[i].score >= right.evaluations[i].score

(***************************************************************************)
(* What the earlier stages accepted is never refused later, but for one    *)
(* thing.  A request that passed the review has bounds and keys scoring    *)
(* can read, and no ranking is refused by the validators of its own batch  *)
(* (the fronts of both budget tiers number from one and must join without  *)
(* a gap, ranking.py:206) or by those of the report.  The exception is a   *)
(* page saved with a time that is yet to come: every stage up to           *)
(* normalization takes it, and scoring refuses the whole request until     *)
(* that time (confidence.py:183).  No other evidence makes it do so:       *)
(* checks, official pages and benchmark references that passed the         *)
(* cross-check (cross_check.py:335) are not from scoring's future.  The    *)
(* collection cannot be repeated, so that a refusal for good would be the  *)
(* end of the workflow.  (A query that is too long for the platform does   *)
(* pass the review, and ends the workflow at its first stage: jd.py:202.)  *)
(***************************************************************************)
WhatWasAcceptedIsNotRefused ==
    /\ error \notin {"criterion_definition", "ranking_batch", "report_input"}
    /\ error = "evidence_timeline" => \E page \in offers : page.captured > today

(***************************************************************************)
(* The front of a candidate is its depth in the order of dominance within  *)
(* its budget tier: one more than the greatest front of those that         *)
(* dominate it (ranking.py:361-380 peels fronts off one by one).           *)
(***************************************************************************)
Ranked == {score \in stored : score.eligible}

FrontsAreDominanceDepth ==
    \A score \in Ranked :
        LET dominating == {other \in Ranked : other.budget = score.budget
                                              /\ Dominates(other, score)}
        IN  score.front = 1 + Max({0} \cup {other.front : other \in dominating})

(***************************************************************************)
(* A candidate that is no worse in anything and better in something ranks  *)
(* before the other, unless it costs the stretch budget and the other does *)
(* not; the normal budget always comes first (ranking.py:383-396).         *)
(***************************************************************************)
BetterRanksFirst ==
    \A left, right \in Ranked :
        \/ TierPriority(left.budget) < TierPriority(right.budget)
        \/ left.budget = right.budget /\ Dominates(left, right)
        => left.rank < right.rank

(***************************************************************************)
(* The recommended product can be defended from the pages alone: for every *)
(* hard requirement each observation of it is a value within the bounds,   *)
(* and there is an offer of it that is not sold out, in the currency of    *)
(* the budget and within its limit.                                        *)
(***************************************************************************)
Within(value, criterion) ==
    /\ Given(criterion.minimum) => value >= criterion.minimum
    /\ Given(criterion.maximum) => value <= criterion.maximum

Limit == IF Given(request.stretch) THEN request.stretch ELSE request.maximum

RecommendationIsDefensible ==
    phase = "report_rendered" /\ report.recommended # None =>
        /\ \A i \in DOMAIN request.criteria :
              request.criteria[i].hard =>
                 \E value \in Readings(report.recommended, request.criteria[i]) :
                    /\ Measured(report.recommended, request.criteria[i], value)
                    /\ Within(value, request.criteria[i])
        /\ \E page \in pages :
              /\ page.product = report.recommended
              /\ page.stock # "sold_out"
              /\ page.currency = request.currency
              /\ ComparisonPrice(page)[2] <= Limit
===============================================================================
