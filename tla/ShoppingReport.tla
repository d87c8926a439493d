----------------------------- MODULE ShoppingReport ----------------------------
(***************************************************************************)
(* The report that is built from the stored scores                         *)
(* (presentation/reporting.py), and the explanation a language model may   *)
(* add to it (presentation/explanation.py).                                *)
(***************************************************************************)
EXTENDS CandidateRanking

\* _stable_scores: the rows come in no order.
StableScores(rows) ==
    Ordered([score \in rows |-> <<IF score.eligible THEN 0 ELSE 1,
                                  IF score.rank = None THEN 0 ELSE score.rank, score.product>>])

Products(scores) == [i \in DOMAIN scores |-> scores[i].product]

Recommended(scores) ==
    LET eligible == Selected(scores, TRUE)
    IN  IF eligible = <<>> THEN None ELSE eligible[1].product

(***************************************************************************)
(* ShoppingReportBuilder.build and the validators of its result: the batch *)
(* holds, the rows it cites are stored, and the candidates stand in the    *)
(* order of the ranking, the excluded ones in that of the products.        *)
(***************************************************************************)
ReportIsBuildable(scores, rows, offers) ==
    LET eligible == Selected(scores, TRUE)
        excluded == Selected(scores, FALSE)
    IN  /\ BatchIsConsistent(scores)
        /\ scores = eligible \o excluded
        /\ \A i, j \in DOMAIN excluded : i < j => excluded[i].product < excluded[j].product
        /\ \A i \in DOMAIN scores :
              /\ scores[i].cited \subseteq {row \in rows : row.product = scores[i].product}
              /\ \A cost \in scores[i].best :
                    cost.offer \in offers /\ cost.offer.product = scores[i].product

Report(scores, generatedAt) ==
    [scores |-> scores, recommended |-> Recommended(scores), generatedAt |-> generatedAt]
-------------------------------------------------------------------------------
CONSTANT MaxCandidates   \* 3 unless the builder is given another maximum
ASSUME MaxCandidatesAssumption == MaxCandidates \in 1 .. 10

\* A fact is about a product, or about the report (0).
Disclaimer == <<0, "disclaimer">>
ReportFacts == {<<0, "query">>, <<0, "recommendation">>, Disclaimer}
CandidateFacts(product) == {<<product, "rank">>, <<product, "score">>}

(***************************************************************************)
(* ReportExplanationRequestBuilder.build: the leading candidates and their *)
(* facts.  A fact holds 1,000 characters: a query that is longer with its  *)
(* white space, and only with it, refuses the request.                     *)
(***************************************************************************)
ExplanationScope(report) == SubSeq(Products(report.scores), 1,
                                   Min({MaxCandidates, Len(report.scores)}))

RequestIsBuildable(request) == request.query # "padded"

AllowedFacts(scope) == ReportFacts \cup UNION {CandidateFacts(p) : p \in Range(scope)}

(***************************************************************************)
(* validate_explanation_scope of a model's answer: the report it is about, *)
(* the candidates it explains, the facts each of them and the cautions     *)
(* cite.                                                                   *)
(***************************************************************************)
InScope(answer, scope) ==
    /\ answer.ofThisReport
    /\ answer.candidates = scope
    /\ UNION Range(answer.cites) \cup answer.cautions \subseteq AllowedFacts(scope)
    /\ \A i \in DOMAIN answer.candidates :
          /\ answer.cites[i] \cap CandidateFacts(answer.candidates[i]) # {}
          /\ answer.cites[i] \subseteq ReportFacts \cup CandidateFacts(answer.candidates[i])
    /\ Disclaimer \in answer.cautions

(***************************************************************************)
(* What a model may answer with: an answer in scope, or one that is about  *)
(* another report, changes the candidates, cites facts of another one, of  *)
(* the report alone or of its own making, or drops the disclaimer.         *)
(***************************************************************************)
Answers(scope) ==
    LET Own(order) == [i \in DOMAIN order |-> {<<order[i], "score">>}]
        right == [ofThisReport |-> TRUE, candidates |-> scope, cites |-> Own(scope),
                  cautions |-> {Disclaimer}]
    IN  {right,
         [right EXCEPT !.ofThisReport = FALSE],
         [right EXCEPT !.candidates = Reverse(scope), !.cites = Own(Reverse(scope))],
         [right EXCEPT !.candidates = Front(scope), !.cites = Own(Front(scope))],
         [right EXCEPT !.cites = [i \in DOMAIN scope |-> {<<scope[1], "score">>,
                                                         <<scope[i], "rank">>}]],
         [right EXCEPT !.cites = [i \in DOMAIN scope |-> {<<0, "recommendation">>}]],
         [right EXCEPT !.cites = [i \in DOMAIN scope |-> {<<scope[i], "invented">>}]],
         [right EXCEPT !.cautions = {<<0, "query">>}]}

Fallback(reason) == [status |-> "deterministic_fallback", reason |-> reason, answer |-> None]
Explained(answer) == [status |-> "explained", reason |-> None, answer |-> answer]
===============================================================================
