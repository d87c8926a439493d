----------------------------- MODULE ProductFacts -----------------------------
(***************************************************************************)
(* From pages to facts: the conversion of detail observations              *)
(* (sourcing/conversion.py), the evidence of the benchmark reference       *)
(* (benchmarks.py), the field-by-field comparison with official pages      *)
(* (cross_check.py) and the normalization of specifications                *)
(* (normalization.py).                                                     *)
(*                                                                         *)
(* A page is a record: id, product (the brand and model it names), url,    *)
(* store, list, displayed and conditional prices, terms and complete       *)
(* (BOOLEAN), stock, currency, captured (a day) and specs, a set of        *)
(* <<key, text>>.  Evidence is a set of records: the identifier of a row   *)
(* is the row, which names its origin.  Rows about offers, which nothing   *)
(* downstream of this module reads, are left out.                          *)
(***************************************************************************)
EXTENDS Measurements, Functions, TLC

IdentityFields == {"brand-and-model", "canonical-name"}

SourceOfStore ==
    [self_operated |-> "platform_self_operated", flagship |-> "brand_flagship",
     authorized |-> "authorized_retailer", third_party |-> "third_party_seller",
     unknown |-> "platform_listing"]

Prices(page) == {page.list, page.displayed, page.conditional} \ {None}

(***************************************************************************)
(* DetailObservationConverter._validate_observation: context complete      *)
(* (brand, model, seller, region, stock status; the selected variant is    *)
(* the page's; not both off the shelf and in stock), a price, and terms    *)
(* for a conditional one.                                                  *)
(***************************************************************************)
Convertible(page) ==
    /\ page.complete
    /\ Prices(page) # {}
    /\ Given(page.conditional) => page.terms

\* comparison_price: the converter fills these three of the five layers.
ComparisonPrice(page) ==
    IF Given(page.displayed) THEN <<"displayed", page.displayed>>
    ELSE IF Given(page.conditional) THEN <<"conditional", page.conditional>>
    ELSE <<"list", page.list>>

Row(product, field, source, url, captured, origin, text) ==
    [product |-> product, field |-> field, source |-> source, url |-> url,
     captured |-> captured, origin |-> origin, value |-> Stored(text)]

PageEvidence(page) ==
    LET Observed(field, text) ==
            Row(page.product, field, SourceOfStore[page.store], page.url, page.captured,
                page.id, text)
    IN  {Observed(field, Word(ToString(page.product))) : field \in IdentityFields}
        \cup {Observed(spec[1], spec[2]) : spec \in page.specs}
-------------------------------------------------------------------------------
(***************************************************************************)
(* The benchmark reference: captured and entries, records of a name, the   *)
(* tokens that match it and a score.  A chip the entries score differently *)
(* is not matched.                                                         *)
(***************************************************************************)
Lookup(reference, chip) ==
    LET matches == {entry \in reference.entries : chip \in entry.tokens}
    IN  IF Cardinality({entry.score : entry \in matches}) # 1 THEN {}
        ELSE {CHOOSE entry \in matches : \A other \in matches : entry.name <= other.name}

BenchmarkEvidence(reference, rows) ==
    UNION { {Row(row.product, "chip_performance", "independent_review", "socpk",
                 reference.captured, entry.name, Measure(entry.score, "SOCPK")) :
                entry \in Lookup(reference, row.value)} :
            row \in {r \in rows : r.field = "chip"} }

\* Mutant: the date of a benchmark reference is not compared.
IndependentOfAnyDay(rows, checkedAt) == TRUE

\* _scoped_independent_evidence: nothing dated after the check.
IndependentInScope(rows, checkedAt) == \A row \in rows : row.captured <= checkedAt
-------------------------------------------------------------------------------
(***************************************************************************)
(* An official page: id, product (the one it was returned for), names (the *)
(* one its brand and model name), url, specs.                              *)
(***************************************************************************)
OfficialEvidence(official, capturedAt) ==
    LET Observed(field, text) ==
            Row(official.product, field, "manufacturer_official", official.url, capturedAt,
                official.id, text)
    IN  {Observed("brand-and-model", Word(ToString(official.names)))}
        \cup {Observed(spec[1], spec[2]) : spec \in official.specs}

\* The observed texts of a field.  Official texts are compared as they were
\* read, the platform's as they were stored.
PlatformTexts(rows, field) ==
    {row.value : row \in {r \in rows : r.field = field /\ r.source # "manufacturer_official"}}
OfficialTexts(officials, field) ==
    UNION { {spec[2] : spec \in {s \in official.specs : s[1] = field}} : official \in officials}
    \cup IF field = "brand-and-model" THEN {Word(ToString(o.names)) : o \in officials} ELSE {}

ComparisonStatus(platform, official) ==
    IF platform = {} THEN "official_only"
    ELSE IF official = {} THEN "platform_only"
    ELSE IF Cardinality(platform) = 1 /\ platform = official THEN "match"
    ELSE "conflict"

Check(product, field, status, checkedAt) ==
    [product |-> product, field |-> field, status |-> status, checkedAt |-> checkedAt]

\* ProductEvidenceChecker.build over the rows stored about one product.
Checks(product, rows, officials, checkedAt) ==
    LET platformFields == {row.field : row \in {r \in rows : r.source # "manufacturer_official"}}
        officialFields == {"brand-and-model"}
                          \cup UNION {{spec[1] : spec \in o.specs} : o \in officials}
    IN  IF officials = {}
        THEN {Check(product, field, "missing_official_source", checkedAt) :
                 field \in IF platformFields = {} THEN {"official-source"} ELSE platformFields}
        ELSE {Check(product, field,
                    ComparisonStatus(PlatformTexts(rows, field), OfficialTexts(officials, field)),
                    checkedAt) : field \in platformFields \cup officialFields}
-------------------------------------------------------------------------------
(***************************************************************************)
(* ProductSpecificationNormalizer: the rows are grouped by the canonical   *)
(* key of their definition, or by their key when it has none.              *)
(***************************************************************************)
CanonicalKey(field) ==
    IF DefinitionOf(field) = {} THEN KeyToken(field)
    ELSE (CHOOSE d \in DefinitionOf(field) : TRUE).key

GroupReadings(group) ==
    UNION {UNION {Reading(row.value, d) : d \in DefinitionOf(row.field)} : row \in group}

ParseFailed(group) ==
    \E row \in group : \E d \in DefinitionOf(row.field) : Reading(row.value, d) = {}

\* Mutant: a text that does not parse is dropped when another does.
FactStatusOfParsed(group) ==
    IF \E row \in group : DefinitionOf(row.field) = {} THEN "unsupported_key"
    ELSE IF GroupReadings(group) = {} THEN "unparseable_value"
    ELSE IF Cardinality(GroupReadings(group)) = 1 THEN "normalized"
    ELSE "conflict"

FactStatus(group) ==
    IF \E row \in group : DefinitionOf(row.field) = {} THEN "unsupported_key"
    ELSE IF ParseFailed(group) THEN "unparseable_value"
    ELSE IF Cardinality(GroupReadings(group)) = 1 THEN "normalized"
    ELSE "conflict"

Fact(product, key, group, at) ==
    [product |-> product, key |-> key, evidence |-> group, readings |-> GroupReadings(group),
     status |-> FactStatus(group), normalizedAt |-> at,
     unit |-> IF FactStatus(group) = "unsupported_key" THEN None
              ELSE (CHOOSE d \in Catalogue : d.key = key).unit]

Facts(product, rows, at) ==
    LET specs == {row \in rows : row.field \notin IdentityFields}
        Group(key) == {row \in specs : CanonicalKey(row.field) = key}
    IN  {Fact(product, key, Group(key), at) : key \in {CanonicalKey(row.field) : row \in specs}}
===============================================================================
