-------------------------- MODULE WorkflowDeletion --------------------------
(***************************************************************************)
(* Export and deletion of a workflow's data while stages of it and of      *)
(* other workflows commit (storage/data_lifecycle.py).                     *)
(*                                                                         *)
(* Products and offers belong to no workflow: evidence, checks,            *)
(* specifications, scores and reports refer to them, those of several      *)
(* workflows and evidence of no workflow at all possibly to the same one.  *)
(* Nothing keeps evidence from referring to a row that is gone: its        *)
(* subject is no foreign key.  A deletion therefore works out which rows   *)
(* nobody else refers to, shows that, and deletes only if it is still so.  *)
(*                                                                         *)
(* Outside a deletion's own transaction every SELECT sees what is          *)
(* committed at that moment, so an export or a preview reads its tables    *)
(* one after the other, with commits of others in between.  A workflow and *)
(* its request come and go together and are one here; its transitions are  *)
(* WorkflowStore's and count here as the number of stages committed.       *)
(***************************************************************************)
EXTENDS Integers, Sequences, FiniteSets, Functions

CONSTANTS
  Workflows, Products, Offers,
  ProductOf,   \* offer -> its product
  Nobody,      \* evidence.request_id IS NULL
  Operators,   \* whoever exports, previews and deletes
  LastStage,   \* bound: workflow -> stages it may commit
  MaxImports   \* bound on the rows written through the repositories

ASSUME ProductOfAssumption == ProductOf \in [Offers -> Products]
ASSUME IdentifiersAssumption == Products \intersect Offers = {}
ASSUME NobodyAssumption == Nobody \notin Workflows
ASSUME BoundsAssumption == LastStage \in [Workflows -> 0 .. 6] /\ MaxImports \in Nat

VARIABLES
  stage,      \* workflow -> stages committed, or Deleted
  product,    \* product -> whether and whence it is there: identifiers are random
  offer,      \* offer -> likewise
  evidence,   \* evidence_items: their owner, subject and origin
  derived,    \* workflow -> its rows of the other tables and what they refer to
  job,        \* workflow -> the stage under way and the inputs it has read
  session,    \* operator -> the command under way and the token at hand
  imports     \* rows written through the repositories so far

catalog == <<product, offer>>
db == <<stage, catalog, evidence, derived>>
vars == <<db, job, session, imports>>

-----------------------------------------------------------------------------
Deleted == -1
Subjects == Products \union Offers
Status == {"unborn", "ingested", "added", "gone"}
Evidence == [owner : Workflows \union {Nobody}, subject : Subjects,
             source : {"detail", "import"}]

\* The table each stage fills, in the order of the stages.
Stages == <<"observations", "evidence", "checks", "specifications", "scores", "reports">>
Kinds == {"checks", "specifications", "scores", "reports"}

\* The SELECTs of _load_validated.
ArchiveReads ==
  <<"workflow", "observations", "evidence", "checks", "specifications", "scores", "reports",
    "offers", "products">>

\* Mutant: the workflow and its events are read when the rows are.
ArchiveReadsLate == Tail(ArchiveReads) \o <<"workflow">>

Archive == ArchiveReads

\* For a deletion, also those of _external_references and of the products' offers.
Manifest ==
  <<"workflow", "observations", "evidence", "checks", "specifications", "scores", "reports",
    "offers", "products", "foreign evidence", "foreign rows", "product offers">>

Ingested ==
  {p \in Products : product[p] = "ingested"} \union {o \in Offers : offer[o] = "ingested"}
There ==
  Ingested \union {p \in Products : product[p] = "added"} \union {o \in Offers : offer[o] = "added"}
Exists(w) == stage[w] # Deleted
SubjectsOf(rows) == {r.subject : r \in rows}
EvidenceOf(w) == {e \in evidence : e.owner = w}
Derived(w, kind) == {r \in derived[w] : r.kind = kind}

NoJob == [stage |-> 0, inputs |-> {}]
NoReads == <<>>
NoPlan == <<>>
Session(task, w, shown) == [task |-> task, wf |-> w, read |-> NoReads, shown |-> shown]
NoSession(shown) == Session("idle", Nobody, shown)

Init ==
  /\ stage = [w \in Workflows |-> 0]
  /\ product = [p \in Products |-> "unborn"]
  /\ offer = [o \in Offers |-> "unborn"]
  /\ evidence = {}
  /\ derived = [w \in Workflows |-> {}]
  /\ job = [w \in Workflows |-> NoJob]
  /\ session = [s \in Operators |-> NoSession(NoPlan)]
  /\ imports = 0

-----------------------------------------------------------------------------
(***************************************************************************)
(* The stages: each reads its inputs and later commits its rows, if the    *)
(* workflow is still where it was.                                         *)
(***************************************************************************)
\* list_products_for_request: the rows of the products the request has
\* evidence of; a subject without a row is passed over.
ProductsFor(w) == SubjectsOf(EvidenceOf(w)) \intersect There \intersect Products

\* list_offers_for_request_product, for each of those products.
OffersFor(w) == {o \in SubjectsOf(EvidenceOf(w)) \intersect There \intersect Offers :
                   ProductOf[o] \in ProductsFor(w)}

\* What the stage refers to.
Inputs(w, table) ==
  CASE table \in {"observations", "evidence"} -> {}
    [] table \in {"checks", "specifications"} -> ProductsFor(w)
    [] table = "scores"                       -> ProductsFor(w) \union OffersFor(w)
    [] table = "reports"                      -> SubjectsOf(Derived(w, "scores"))

\* The report's products and offers are looked up by the scores' references.
Begin(w) ==
  /\ job[w] = NoJob
  /\ Exists(w) /\ stage[w] < LastStage[w]
  /\ LET table == Stages[stage[w] + 1]
         inputs == Inputs(w, table)
     IN  /\ table \in Kinds => inputs # {}
         /\ table = "reports" => inputs \subseteq There
         /\ job' = [job EXCEPT ![w] = [stage |-> stage[w] + 1, inputs |-> inputs]]
  /\ UNCHANGED <<db, session, imports>>

\* The stage fails: an error of its own, the revision guard or a foreign key.
Abandon(w) ==
  /\ job[w] # NoJob
  /\ job' = [job EXCEPT ![w] = NoJob]
  /\ UNCHANGED <<db, session, imports>>

\* apply_workflow_transition: the row is there with the revision read.
Commits(w, table) ==
  /\ job[w] # NoJob
  /\ Stages[job[w].stage] = table
  /\ stage[w] = job[w].stage - 1
  /\ stage' = [stage EXCEPT ![w] = @ + 1]
  /\ job' = [job EXCEPT ![w] = NoJob]
  /\ UNCHANGED <<session, imports>>

\* candidates_discovered: search and detail observations.
Collect(w) == Commits(w, "observations") /\ UNCHANGED <<catalog, evidence, derived>>

\* offers_collected: every conversion makes products of its own, one for each
\* brand and model, with one offer for each detail, and evidence of both.
Ingest(w) ==
  /\ Commits(w, "evidence")
  /\ \E os \in SUBSET {o \in Offers : offer[o] = "unborn"} :
       LET ps == {ProductOf[o] : o \in os}
       IN  /\ os # {}
           /\ \A p \in ps : product[p] = "unborn"
           /\ product' = [p \in Products |-> IF p \in ps THEN "ingested" ELSE product[p]]
           /\ offer' = [o \in Offers |-> IF o \in os THEN "ingested" ELSE offer[o]]
           /\ evidence' = evidence \union [owner : {w}, subject : os \union ps, source : {"detail"}]
  /\ UNCHANGED derived

\* The three tables whose product is a foreign key, and the reports, whose
\* references are in their payload only.
Refer(w, kind, subjects) ==
  derived' = [derived EXCEPT ![w] = @ \union [kind : {kind}, subject : subjects]]

\* evidence_cross_checked.  The official evidence that comes with the checks is
\* about products the request has evidence of already: it adds no reference.
CrossCheck(w) ==
  /\ Commits(w, "checks")
  /\ job[w].inputs \subseteq There
  /\ Refer(w, "checks", job[w].inputs)
  /\ UNCHANGED <<catalog, evidence>>

Normalize(w) ==
  /\ Commits(w, "specifications")
  /\ job[w].inputs \subseteq There
  /\ Refer(w, "specifications", job[w].inputs)
  /\ UNCHANGED <<catalog, evidence>>

Score(w) ==
  /\ Commits(w, "scores")
  /\ job[w].inputs \intersect Products \subseteq There
  /\ Refer(w, "scores", job[w].inputs)
  /\ UNCHANGED <<catalog, evidence>>

Render(w) ==
  /\ Commits(w, "reports")
  /\ Refer(w, "reports", job[w].inputs)
  /\ UNCHANGED <<catalog, evidence>>

-----------------------------------------------------------------------------
(***************************************************************************)
(* SQLiteShoppingRepository, for programs that use the package: catalog    *)
(* rows without a workflow, and evidence of a workflow or of nobody about  *)
(* any subject whose identifier was ever seen.                             *)
(***************************************************************************)
Imports ==
  /\ imports < MaxImports
  /\ imports' = imports + 1
  /\ UNCHANGED <<stage, derived, job, session>>

AddProduct(p) ==
  /\ Imports
  /\ product[p] = "unborn"
  /\ product' = [product EXCEPT ![p] = "added"]
  /\ UNCHANGED <<offer, evidence>>

AddOffer(o) ==
  /\ Imports
  /\ offer[o] = "unborn" /\ ProductOf[o] \in There
  /\ offer' = [offer EXCEPT ![o] = "added"]
  /\ UNCHANGED <<product, evidence>>

AddEvidence(w, x) ==
  /\ Imports
  /\ w # Nobody => Exists(w)
  /\ IF x \in Products THEN product[x] # "unborn" ELSE offer[x] # "unborn"
  /\ evidence' = evidence \union {[owner |-> w, subject |-> x, source |-> "import"]}
  /\ UNCHANGED catalog

-----------------------------------------------------------------------------
(***************************************************************************)
(* Reading an archive or a deletion's manifest.                            *)
(***************************************************************************)
OwnRows(read) == UNION {read[t] : t \in DOMAIN read \intersect (Kinds \union {"evidence"})}

\* _linked_entity_ids
LinkedOffers(read) == SubjectsOf(OwnRows(read)) \intersect Offers

\* Mutant: the products of the linked offers are not linked.
LinkedProductsDirectly(read) == SubjectsOf(OwnRows(read)) \intersect Products

LinkedProducts(read) ==
  (SubjectsOf(OwnRows(read)) \intersect Products) \union {ProductOf[o] : o \in read["offers"]}

\* Mutant: evidence without a request is left out.
OthersOwn(w) == {e \in evidence : e.owner \in Workflows \ {w}}

OthersEvidence(w) == {e \in evidence : e.owner # w}

\* What the SELECT of table t returns now; the four tables of derived rows that
\* _external_references reads are one here.
Rows(w, t, read) ==
  CASE t = "workflow"         -> stage[w]
    [] t = "observations"     -> stage[w] >= 1
    [] t = "evidence"         -> EvidenceOf(w)
    [] t \in Kinds            -> Derived(w, t)
    [] t = "offers"           -> LinkedOffers(read) \intersect There
    [] t = "products"         -> LinkedProducts(read) \intersect There
    [] t = "foreign evidence" -> SubjectsOf(OthersEvidence(w))
    [] t = "foreign rows"     -> UNION {SubjectsOf(derived[v]) : v \in Workflows \ {w}}
    [] t = "product offers"   -> {o \in There \intersect Offers : ProductOf[o] \in read["products"]}

WithRows(w, read, tables) ==
  [t \in DOMAIN read \union tables |-> IF t \in tables THEN Rows(w, t, read) ELSE read[t]]

\* Mutant: a workflow that is gone reads as one without rows.
LinkedRowsThere(read) ==
  /\ "offers" \in DOMAIN read => read["offers"] = LinkedOffers(read)
  /\ "products" \in DOMAIN read => read["products"] = LinkedProducts(read)

\* The workflow is found, and no linked row is missing.
Valid(read) ==
  /\ "workflow" \in DOMAIN read => read["workflow"] # Deleted
  /\ "offers" \in DOMAIN read => read["offers"] = LinkedOffers(read)
  /\ "products" \in DOMAIN read => read["products"] = LinkedProducts(read)

\* All reads in one transaction: the last three are of what the others found.
ReadsNow(w) ==
  LET found == {"offers", "products", "product offers"}
      own == WithRows(w, NoReads, Range(Manifest) \ found)
      offers == WithRows(w, own, {"offers"})
      products == WithRows(w, offers, {"products"})
  IN  WithRows(w, products, {"product offers"})

ForeignSubjects(read) == read["foreign evidence"] \union read["foreign rows"]

\* The fingerprint of a manifest: the identifiers of every row, the workflow's
\* revision and the catalog rows that can go with it.
Plan(w, read) ==
  LET offers == read["offers"] \ ForeignSubjects(read)
      free(p) == {o \in read["product offers"] : ProductOf[o] = p} \subseteq offers
  IN  [wf |-> w,
       rows |-> [t \in Range(Archive) |-> read[t]],
       offers |-> offers,
       products |-> {p \in read["products"] \ ForeignSubjects(read) : free(p)}]

-----------------------------------------------------------------------------
ReadsOf(task) == IF task = "export" THEN Archive ELSE Manifest

Ready(s) == Cardinality(DOMAIN session[s].read) = Len(ReadsOf(session[s].task))

SessionIs(s, new) == session' = [session EXCEPT ![s] = new] /\ UNCHANGED <<db, job, imports>>

Open(s, task, w) ==
  /\ session[s].task = "idle"
  /\ SessionIs(s, Session(task, w, session[s].shown))

\* export(), prepare_deletion() and delete() begin.  delete() is given the token
\* of a preview; who has one at hand uses it or drops it before anything else.
Export(s, w) == session[s].shown = NoPlan /\ Open(s, "export", w)
Preview(s, w) == session[s].shown = NoPlan /\ Open(s, "preview", w)
Delete(s) == session[s].shown # NoPlan /\ Open(s, "delete", session[s].shown.wf)

\* The next SELECT; a missing row raises and ends the command.
Select(s) ==
  /\ session[s].task \in {"export", "preview", "delete"} /\ ~Ready(s)
  /\ LET read == session[s].read
         t == ReadsOf(session[s].task)[Cardinality(DOMAIN read) + 1]
         now == WithRows(session[s].wf, read, {t})
     IN  SessionIs(s, IF Valid(now) THEN [session[s] EXCEPT !.read = now]
                                    ELSE NoSession(NoPlan))

\* The archive is written, and the preview shown.
Written(s) == session[s].task = "export" /\ Ready(s) /\ SessionIs(s, NoSession(NoPlan))
Shown(s) ==
  /\ session[s].task = "preview" /\ Ready(s)
  /\ SessionIs(s, NoSession(Plan(session[s].wf, session[s].read)))

\* delete() compares the token with a plan of its own reads.
Confirm(s) ==
  /\ session[s].task = "delete" /\ Ready(s)
  /\ IF Plan(session[s].wf, session[s].read) = session[s].shown
     THEN SessionIs(s, Session("confirmed", session[s].wf, session[s].shown))
     ELSE SessionIs(s, NoSession(NoPlan))

\* DELETE of the request, the offers and the products, with what they cascade
\* to: the workflow's rows, a product's offers and the rows that name it.
Cascade(w, os, ps) ==
  LET gone(o) == o \in os \/ ProductOf[o] \in ps
      of(r) == IF r.subject \in Products THEN r.subject ELSE ProductOf[r.subject]
  IN  /\ stage' = [stage EXCEPT ![w] = Deleted]
      /\ evidence' = evidence \ EvidenceOf(w)
      /\ derived' = [v \in Workflows |->
           IF v = w THEN {}
           ELSE {r \in derived[v] : r.kind = "reports" \/ of(r) \notin ps}]
      /\ product' = [p \in Products |-> IF p \in ps THEN "gone" ELSE product[p]]
      /\ offer' = [o \in Offers |->
           IF gone(o) /\ o \in There THEN "gone" ELSE offer[o]]

\* Mutant: the rows the second preview found are deleted.
CarryUnchecked(s) ==
  /\ session[s].task = "confirmed"
  /\ Exists(session[s].wf)
  /\ Cascade(session[s].wf, session[s].shown.offers, session[s].shown.products)
  /\ session' = [session EXCEPT ![s] = NoSession(NoPlan)]
  /\ UNCHANGED <<job, imports>>

\* BEGIN IMMEDIATE: the manifest is read again, compared and carried out.
Carry(s) ==
  /\ session[s].task = "confirmed"
  /\ LET w == session[s].wf
         read == ReadsNow(w)
         plan == Plan(w, read)
     IN  /\ Valid(read) /\ plan = session[s].shown
         /\ Cascade(w, plan.offers, plan.products)
  /\ session' = [session EXCEPT ![s] = NoSession(NoPlan)]
  /\ UNCHANGED <<job, imports>>

\* WorkflowDeletionPlanStaleError, a row missing, a busy or full database; or
\* the operator drops the token.
GiveUp(s) ==
  /\ session[s].task = "confirmed" \/ session[s].shown # NoPlan
  /\ SessionIs(s, NoSession(NoPlan))

-----------------------------------------------------------------------------
Work(w) ==
  \/ Begin(w) \/ Abandon(w)
  \/ Collect(w) \/ Ingest(w) \/ CrossCheck(w) \/ Normalize(w) \/ Score(w) \/ Render(w)

Import ==
  \/ \E p \in Products : AddProduct(p)
  \/ \E o \in Offers : AddOffer(o)
  \/ \E w \in Workflows \union {Nobody}, x \in Subjects : AddEvidence(w, x)

Operate(s) ==
  \/ \E w \in Workflows : Export(s, w) \/ Preview(s, w)
  \/ Delete(s) \/ Select(s) \/ Written(s) \/ Shown(s) \/ Confirm(s) \/ Carry(s) \/ GiveUp(s)

Next ==
  \/ \E w \in Workflows : Work(w)
  \/ Import
  \/ \E s \in Operators : Operate(s)

Spec == Init /\ [][Next]_vars

-----------------------------------------------------------------------------
\* A plan shown is a plan of a workflow that was found, and takes only catalog
\* rows the workflow is linked to.
PlanOK(plan) ==
  /\ plan.wf \in Workflows
  /\ plan.rows["workflow"] \in 0 .. Len(Stages)
  /\ plan.offers \subseteq plan.rows["offers"]
  /\ plan.products \subseteq plan.rows["products"]

TypeOK ==
  /\ stage \in [Workflows -> Deleted .. Len(Stages)]
  /\ product \in [Products -> Status] /\ offer \in [Offers -> Status]
  /\ evidence \subseteq Evidence
  /\ derived \in [Workflows -> SUBSET [kind : Kinds, subject : Subjects]]
  /\ job \in [Workflows -> [stage : 0 .. Len(Stages), inputs : SUBSET Subjects]]
  /\ \A op \in Operators :
       /\ session[op].task \in {"idle", "export", "preview", "delete", "confirmed"}
       /\ session[op].wf \in IF session[op].task = "idle" THEN {Nobody} ELSE Workflows
       /\ DOMAIN session[op].read \subseteq Range(Manifest)
       /\ session[op].shown # NoPlan => PlanOK(session[op].shown)
  /\ imports \in 0 .. MaxImports

References == SubjectsOf(evidence) \union UNION {SubjectsOf(derived[w]) : w \in Workflows}

\* A deletion takes no catalog row that a remaining row refers to, whether
\* another workflow's or nobody's, and no row of another workflow goes with
\* the products it takes (_deletion_selection, _external_references and the
\* cascades of tables.py).
DeletionKeepsSharedRows ==
  [][/\ (There \ There') \intersect References' = {}
     /\ \A w \in Workflows : Exists(w)' => derived[w] \subseteq derived[w]']_vars

\* A deletion takes what the operator was shown, to the row: the revision, the
\* workflow's rows and the catalog rows of the preview whose token confirmed
\* it are what the database loses (delete()).
DeletesWhatWasShown ==
  [][\A s \in Operators :
       session[s].task = "confirmed" /\ stage' # stage /\ session[s]' # session[s] =>
         LET shown == session[s].shown
             lost == UNION {derived[w] \ derived'[w] : w \in Workflows}
         IN  /\ stage[shown.wf] = shown.rows["workflow"]
             /\ evidence \ evidence' = shown.rows["evidence"]
             /\ lost = UNION {shown.rows[k] : k \in Kinds}
             /\ There \ There' = shown.offers \union shown.products]_vars

\* When the last workflow that refers to an offer is deleted, the offer goes,
\* and so does a product when its last reference and its last offer go: what
\* pipelines brought in does not outlive them (the linked products and the
\* reclaimable rows of _deletion_selection).
NothingLeftBehind ==
  /\ Ingested \intersect Offers \subseteq References
  /\ \A p \in Ingested \intersect Products :
       p \in References \/ \E o \in There \intersect Offers : ProductOf[o] = p

\* An archive has the rows of every stage its own trail reports, although a
\* stage may commit between any two of its reads, unless the workflow was
\* deleted while it was read (_load_validated).
ArchiveCoversItsTrail ==
  \A s \in Operators :
    LET read == session[s].read
    IN  session[s].task = "export" /\ Ready(s) /\ Exists(session[s].wf) =>
          \A i \in 1 .. read["workflow"] :
            IF i = 1 THEN read["observations"] ELSE read[Stages[i]] # {}
=============================================================================
