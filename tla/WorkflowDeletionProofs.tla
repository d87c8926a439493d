------------------------ MODULE WorkflowDeletionProofs ------------------------
(***************************************************************************)
(* Proofs about the deletion of a workflow's data, for any workflows,      *)
(* products and offers, any references between them and any number of      *)
(* operators: a deletion takes what was shown and nothing that others      *)
(* refer to, it leaves nothing behind, and an archive is complete.         *)
(***************************************************************************)
EXTENDS WorkflowDeletion, FiniteSetTheorems, TLAPS

-------------------------------------------------------------------------------
(***************************************************************************)
(* The tables.                                                             *)
(***************************************************************************)
ArchiveTables == {"workflow", "observations", "evidence", "checks", "specifications", "scores",
                  "reports", "offers", "products"}
ManifestTables == {"workflow", "observations", "evidence", "checks", "specifications", "scores",
                   "reports", "offers", "products", "foreign evidence", "foreign rows",
                   "product offers"}

LEMMA ArchiveIs ==
  /\ Len(Archive) = 9 /\ Archive[1] = "workflow"
  /\ \A i \in 2 .. 9 : Archive[i] # "workflow"
  /\ Range(Archive) = ArchiveTables
<1>1. Len(Archive) = 9 /\ DOMAIN Archive = 1 .. 9
  BY DEF Archive, ArchiveReads
<1>2. /\ Archive[1] = "workflow" /\ Archive[2] = "observations" /\ Archive[3] = "evidence"
      /\ Archive[4] = "checks" /\ Archive[5] = "specifications" /\ Archive[6] = "scores"
      /\ Archive[7] = "reports" /\ Archive[8] = "offers" /\ Archive[9] = "products"
  BY DEF Archive, ArchiveReads
<1>3. 1 .. 9 = {1, 2, 3, 4, 5, 6, 7, 8, 9} /\ 2 .. 9 = {2, 3, 4, 5, 6, 7, 8, 9}
  OBVIOUS
<1>4. Range(Archive) = {Archive[i] : i \in {1, 2, 3, 4, 5, 6, 7, 8, 9}}
  BY <1>1, <1>3 DEF Range
<1>5. Range(Archive) = ArchiveTables
  BY <1>2, <1>4 DEF ArchiveTables
<1>6. \A i \in 2 .. 9 : Archive[i] # "workflow"
  BY <1>2, <1>3
<1> QED BY <1>1, <1>2, <1>5, <1>6

LEMMA ManifestIs ==
  /\ Len(Manifest) = 12 /\ Manifest[1] = "workflow"
  /\ \A i \in 2 .. 12 : Manifest[i] # "workflow"
  /\ Range(Manifest) = ManifestTables
<1>1. Len(Manifest) = 12 /\ DOMAIN Manifest = 1 .. 12
  BY DEF Manifest
<1>2. /\ Manifest[1] = "workflow" /\ Manifest[2] = "observations" /\ Manifest[3] = "evidence"
      /\ Manifest[4] = "checks" /\ Manifest[5] = "specifications" /\ Manifest[6] = "scores"
      /\ Manifest[7] = "reports" /\ Manifest[8] = "offers" /\ Manifest[9] = "products"
      /\ Manifest[10] = "foreign evidence" /\ Manifest[11] = "foreign rows"
      /\ Manifest[12] = "product offers"
  BY DEF Manifest
<1>3. /\ 1 .. 12 = {1, 2, 3, 4, 5, 6, 7, 8, 9, 10, 11, 12}
      /\ 2 .. 12 = {2, 3, 4, 5, 6, 7, 8, 9, 10, 11, 12}
  OBVIOUS
<1>4. Range(Manifest) = {Manifest[i] : i \in {1, 2, 3, 4, 5, 6, 7, 8, 9, 10, 11, 12}}
  BY <1>1, <1>3 DEF Range
<1>5. Range(Manifest) = ManifestTables
  <2>1. \A i \in {1, 2, 3, 4, 5, 6, 7, 8, 9, 10, 11, 12} : Manifest[i] \in ManifestTables
    BY <1>2 DEF ManifestTables
  <2>2. \A t \in ManifestTables :
          \E i \in {1, 2, 3, 4, 5, 6, 7, 8, 9, 10, 11, 12} : t = Manifest[i]
    BY <1>2 DEF ManifestTables
  <2> QED BY <1>4, <2>1, <2>2
<1>6. \A i \in 2 .. 12 : Manifest[i] # "workflow"
  BY <1>2, <1>3
<1> QED BY <1>1, <1>2, <1>5, <1>6

-------------------------------------------------------------------------------
(***************************************************************************)
(* What a transaction reads.                                               *)
(***************************************************************************)

\* A workflow's rows that refer to the catalog, and the others'.
Own(w) == EvidenceOf(w) \union derived[w]
ForeignRows(w) == OthersEvidence(w) \union UNION {derived[v] : v \in Workflows \ {w}}

OffersLinked(w) == SubjectsOf(Own(w)) \intersect Offers
ProductsLinked(w) ==
  (SubjectsOf(Own(w)) \intersect Products) \union
  {ProductOf[o] : o \in OffersLinked(w) \intersect There}

\* What goes with a workflow: the offers it is linked to that nobody else refers
\* to, and such products if all their offers go.
OffersTaken(w) == (OffersLinked(w) \intersect There) \ SubjectsOf(ForeignRows(w))
ProductsTaken(w) ==
  {p \in (ProductsLinked(w) \intersect There) \ SubjectsOf(ForeignRows(w)) :
     {o \in There \intersect Offers : ProductOf[o] = p} \subseteq OffersTaken(w)}

\* A row that refers to an offer comes with one that refers to its product.
OffersComeWithProducts ==
  \A w \in Workflows : \A r \in derived[w] :
    r.kind # "reports" /\ r.subject \in Offers =>
      \E q \in derived[w] : q.subject = ProductOf[r.subject]

LEMMA ReadsNowFacts ==
  ASSUME NEW w \in Workflows, derived[w] \subseteq [kind : Kinds, subject : Subjects]
  PROVE  /\ ReadsNow(w)["workflow"] = stage[w]
         /\ ReadsNow(w)["evidence"] = EvidenceOf(w)
         /\ \A k \in Kinds : ReadsNow(w)[k] = Derived(w, k)
         /\ ReadsNow(w)["offers"] = OffersLinked(w) \intersect There
         /\ ReadsNow(w)["products"] = ProductsLinked(w) \intersect There
         /\ ReadsNow(w)["product offers"] =
              {o \in There \intersect Offers : ProductOf[o] \in ReadsNow(w)["products"]}
         /\ ForeignSubjects(ReadsNow(w)) = SubjectsOf(ForeignRows(w))
         /\ {"workflow", "offers", "products"} \subseteq DOMAIN ReadsNow(w)
<1> DEFINE found == {"offers", "products", "product offers"}
           tables == Range(Manifest) \ found
           own == WithRows(w, NoReads, tables)
           offers == WithRows(w, own, {"offers"})
           products == WithRows(w, offers, {"products"})
           all == WithRows(w, products, {"product offers"})
<1>0. ReadsNow(w) = all
  BY DEF ReadsNow
<1>1. tables = {"workflow", "observations", "evidence", "checks", "specifications", "scores",
                "reports", "foreign evidence", "foreign rows"}
  BY ManifestIs DEF ManifestTables
<1> HIDE DEF tables
<1>2. DOMAIN own = tables /\ \A t \in tables : own[t] = Rows(w, t, NoReads)
  BY DEF WithRows, NoReads
<1>3. /\ own["workflow"] = stage[w] /\ own["evidence"] = EvidenceOf(w)
      /\ \A k \in Kinds : own[k] = Derived(w, k)
      /\ own["foreign evidence"] = SubjectsOf(OthersEvidence(w))
      /\ own["foreign rows"] = UNION {SubjectsOf(derived[v]) : v \in Workflows \ {w}}
  BY <1>1, <1>2 DEF Rows, Kinds
<1> HIDE DEF own
<1>4. /\ DOMAIN offers = tables \union {"offers"}
      /\ \A t \in tables : offers[t] = own[t]
      /\ offers["offers"] = LinkedOffers(own) \intersect There
  BY <1>1, <1>2 DEF WithRows, Rows, Kinds
<1> HIDE DEF offers
<1>5. /\ DOMAIN products = tables \union {"offers", "products"}
      /\ \A t \in tables \union {"offers"} : products[t] = offers[t]
      /\ products["products"] = LinkedProducts(offers) \intersect There
  BY <1>1, <1>4 DEF WithRows, Rows, Kinds
<1> HIDE DEF products
<1>6. /\ DOMAIN all = tables \union found
      /\ \A t \in tables \union {"offers", "products"} : all[t] = products[t]
      /\ all["product offers"] =
           {o \in There \intersect Offers : ProductOf[o] \in products["products"]}
  BY <1>1, <1>5 DEF WithRows, Rows, Kinds
<1> HIDE DEF all
<1>7. ASSUME NEW read, DOMAIN read \intersect (Kinds \union {"evidence"}) = Kinds \union {"evidence"},
             \A t \in Kinds \union {"evidence"} : read[t] = own[t]
      PROVE  OwnRows(read) = Own(w)
  <2>1. OwnRows(read) = UNION {own[t] : t \in Kinds \union {"evidence"}}
    BY <1>7 DEF OwnRows
  <2>2. OwnRows(read) = EvidenceOf(w) \union UNION {Derived(w, k) : k \in Kinds}
    BY <1>3, <2>1
  <2>3. UNION {Derived(w, k) : k \in Kinds} = derived[w]
    BY DEF Derived
  <2> QED BY <2>2, <2>3 DEF Own
<1>8. Kinds \union {"evidence"} \subseteq tables
  BY <1>1 DEF Kinds
<1>9. LinkedOffers(own) = OffersLinked(w)
  BY <1>2, <1>7, <1>8 DEF LinkedOffers, OffersLinked
<1>10. LinkedProducts(offers) = ProductsLinked(w)
  <2>1. OwnRows(offers) = Own(w)
    BY <1>4, <1>7, <1>8
  <2> QED BY <1>4, <1>9, <2>1 DEF LinkedProducts, ProductsLinked
<1>11. \A t \in tables : all[t] = own[t]
  BY <1>4, <1>5, <1>6
<1>12. ForeignSubjects(all) = SubjectsOf(ForeignRows(w))
  <2>1. /\ all["foreign evidence"] = SubjectsOf(OthersEvidence(w))
        /\ all["foreign rows"] = UNION {SubjectsOf(derived[v]) : v \in Workflows \ {w}}
    BY <1>1, <1>3, <1>11
  <2>2. ForeignSubjects(all) = SubjectsOf(OthersEvidence(w)) \union
          UNION {SubjectsOf(derived[v]) : v \in Workflows \ {w}}
    BY <2>1 DEF ForeignSubjects
  <2> QED BY <2>2 DEF ForeignRows, SubjectsOf
<1>13. /\ all["workflow"] = stage[w] /\ all["evidence"] = EvidenceOf(w)
       /\ \A k \in Kinds : all[k] = Derived(w, k)
  BY <1>1, <1>3, <1>8, <1>11
<1>14. /\ all["offers"] = OffersLinked(w) \intersect There
       /\ all["products"] = ProductsLinked(w) \intersect There
       /\ all["product offers"] = {o \in There \intersect Offers : ProductOf[o] \in all["products"]}
  BY <1>4, <1>5, <1>6, <1>9, <1>10
<1> QED BY <1>0, <1>1, <1>6, <1>12, <1>13, <1>14

\* The plan of a transaction.
LEMMA PlanFacts ==
  ASSUME NEW w \in Workflows, derived[w] \subseteq [kind : Kinds, subject : Subjects]
  PROVE  LET plan == Plan(w, ReadsNow(w))
         IN  /\ plan.wf = w
             /\ plan.offers = OffersTaken(w) /\ plan.products = ProductsTaken(w)
             /\ plan.rows["workflow"] = stage[w]
             /\ plan.rows["evidence"] = EvidenceOf(w)
             /\ \A k \in Kinds : plan.rows[k] = Derived(w, k)
<1> DEFINE read == ReadsNow(w)
           plan == Plan(w, read)
<1>1. /\ read["workflow"] = stage[w] /\ read["evidence"] = EvidenceOf(w)
      /\ \A k \in Kinds : read[k] = Derived(w, k)
      /\ read["offers"] = OffersLinked(w) \intersect There
      /\ read["products"] = ProductsLinked(w) \intersect There
      /\ read["product offers"] =
           {o \in There \intersect Offers : ProductOf[o] \in read["products"]}
      /\ ForeignSubjects(read) = SubjectsOf(ForeignRows(w))
  BY ReadsNowFacts
<1> HIDE DEF read
<1>2. plan.wf = w /\ plan.offers = OffersTaken(w)
  BY <1>1 DEF Plan, OffersTaken
<1>3. plan.products = ProductsTaken(w)
  <2>1. plan.products =
          {p \in read["products"] \ ForeignSubjects(read) :
             {o \in read["product offers"] : ProductOf[o] = p} \subseteq OffersTaken(w)}
    BY <1>1 DEF Plan, OffersTaken
  <2>2. ASSUME NEW p \in read["products"]
        PROVE  {o \in read["product offers"] : ProductOf[o] = p} =
                 {o \in There \intersect Offers : ProductOf[o] = p}
    BY <1>1
  <2> QED BY <1>1, <2>1, <2>2 DEF ProductsTaken
<1>4. \A t \in ArchiveTables : plan.rows[t] = read[t]
  BY ArchiveIs DEF Plan
<1>5. "workflow" \in ArchiveTables /\ "evidence" \in ArchiveTables /\ Kinds \subseteq ArchiveTables
  BY DEF ArchiveTables, Kinds
<1> QED BY <1>1, <1>2, <1>3, <1>4, <1>5 DEF read

-------------------------------------------------------------------------------
(***************************************************************************)
(* What a deletion takes.                                                  *)
(***************************************************************************)

\* A catalog row is there that a stage or an import made.
LEMMA ThereIs ==
  /\ \A p \in Products : p \in There <=> product[p] \in {"ingested", "added"}
  /\ \A o \in Offers : o \in There <=> offer[o] \in {"ingested", "added"}
  /\ There \subseteq Subjects
BY IdentifiersAssumption DEF There, Ingested, Subjects

LEMMA ThereWillBe ==
  /\ \A p \in Products : p \in There' <=> product'[p] \in {"ingested", "added"}
  /\ \A o \in Offers : o \in There' <=> offer'[o] \in {"ingested", "added"}
  /\ There' \subseteq Subjects
BY IdentifiersAssumption DEF There, Ingested, Subjects

\* The rows of others, and what they refer to, are kept.
LEMMA CascadeFacts ==
  ASSUME NEW w \in Workflows, Cascade(w, OffersTaken(w), ProductsTaken(w)),
         derived \in [Workflows -> SUBSET [kind : Kinds, subject : Subjects]],
         OffersComeWithProducts
  PROVE  /\ evidence' = OthersEvidence(w)
         /\ derived' = [v \in Workflows |-> IF v = w THEN {} ELSE derived[v]]
         /\ There' = There \ (OffersTaken(w) \union ProductsTaken(w))
         /\ References' = SubjectsOf(ForeignRows(w))
<1>1. /\ evidence' = evidence \ EvidenceOf(w)
      /\ derived' = [v \in Workflows |->
           IF v = w THEN {}
           ELSE {r \in derived[v] :
                   r.kind = "reports" \/
                   (IF r.subject \in Products THEN r.subject ELSE ProductOf[r.subject])
                     \notin ProductsTaken(w)}]
      /\ product' = [p \in Products |-> IF p \in ProductsTaken(w) THEN "gone" ELSE product[p]]
      /\ offer' = [o \in Offers |->
           IF (o \in OffersTaken(w) \/ ProductOf[o] \in ProductsTaken(w)) /\ o \in There
           THEN "gone" ELSE offer[o]]
  BY DEF Cascade
<1>2. evidence' = OthersEvidence(w)
  BY <1>1 DEF OthersEvidence, EvidenceOf
<1>3. ASSUME NEW v \in Workflows, v # w, NEW r \in derived[v], r.kind # "reports"
      PROVE  (IF r.subject \in Products THEN r.subject ELSE ProductOf[r.subject])
               \notin ProductsTaken(w)
  <2>1. \A q \in derived[v] : q.subject \in SubjectsOf(ForeignRows(w))
    BY <1>3 DEF ForeignRows, SubjectsOf
  <2>2. CASE r.subject \in Products
    BY <2>1, <2>2, <1>3 DEF ProductsTaken
  <2>3. CASE r.subject \notin Products
    <3>1. r.subject \in Offers
      BY <1>3, <2>3 DEF Subjects
    <3>2. PICK q \in derived[v] : q.subject = ProductOf[r.subject]
      BY <1>3, <3>1 DEF OffersComeWithProducts
    <3>3. ProductOf[r.subject] \in SubjectsOf(ForeignRows(w))
      BY <2>1, <3>2
    <3> QED BY <2>3, <3>3 DEF ProductsTaken
  <2> QED BY <2>2, <2>3
<1>4. derived' = [v \in Workflows |-> IF v = w THEN {} ELSE derived[v]]
  <2>1. ASSUME NEW v \in Workflows
        PROVE  derived'[v] = IF v = w THEN {} ELSE derived[v]
    <3>1. CASE v = w
      BY <1>1, <3>1
    <3>2. CASE v # w
      <4>1. derived'[v] =
              {r \in derived[v] :
                 r.kind = "reports" \/
                 (IF r.subject \in Products THEN r.subject ELSE ProductOf[r.subject])
                   \notin ProductsTaken(w)}
        BY <1>1, <3>2
      <4> QED BY <1>3, <3>2, <4>1
    <3> QED BY <3>1, <3>2
  <2> QED BY <1>1, <2>1
<1>5. There' = There \ (OffersTaken(w) \union ProductsTaken(w))
  <2>1. ASSUME NEW p \in Products
        PROVE  p \in There' <=> p \in There /\ p \notin OffersTaken(w) \union ProductsTaken(w)
    <3>1. p \notin OffersTaken(w)
      BY IdentifiersAssumption DEF OffersTaken, OffersLinked
    <3>2. product'[p] = IF p \in ProductsTaken(w) THEN "gone" ELSE product[p]
      BY <1>1
    <3> QED BY <3>1, <3>2, ThereIs, ThereWillBe
  <2>2. ASSUME NEW o \in Offers
        PROVE  o \in There' <=> o \in There /\ o \notin OffersTaken(w) \union ProductsTaken(w)
    <3>1. o \notin ProductsTaken(w)
      <4>1. ProductsTaken(w) \subseteq Products
        BY ProductOfAssumption DEF ProductsTaken, ProductsLinked, OffersLinked
      <4> QED BY <4>1, IdentifiersAssumption
    <3>2. o \in There /\ ProductOf[o] \in ProductsTaken(w) => o \in OffersTaken(w)
      BY DEF ProductsTaken
    <3>3. offer'[o] = IF (o \in OffersTaken(w) \/ ProductOf[o] \in ProductsTaken(w)) /\ o \in There
                      THEN "gone" ELSE offer[o]
      BY <1>1
    <3>4. o \in OffersTaken(w) => o \in There
      BY DEF OffersTaken
    <3> QED BY <3>1, <3>2, <3>3, <3>4, ThereIs, ThereWillBe
  <2>3. There \subseteq Products \union Offers /\ There' \subseteq Products \union Offers
    BY ThereIs, ThereWillBe DEF Subjects
  <2> QED BY <2>1, <2>2, <2>3
<1>6. References' = SubjectsOf(ForeignRows(w))
  <2>1. References' = SubjectsOf(OthersEvidence(w)) \union
                        UNION {SubjectsOf(derived'[v]) : v \in Workflows}
    BY <1>2 DEF References, SubjectsOf
  <2>2. UNION {SubjectsOf(derived'[v]) : v \in Workflows} =
          UNION {SubjectsOf(derived[v]) : v \in Workflows \ {w}}
    BY <1>4 DEF SubjectsOf
  <2> QED BY <2>1, <2>2 DEF ForeignRows, SubjectsOf
<1> QED BY <1>2, <1>4, <1>5, <1>6

-------------------------------------------------------------------------------
(***************************************************************************)
(* The invariant.                                                          *)
(***************************************************************************)
\* A stage under way has read what it refers to, scores the products of their
\* offers as well.
JobIsInOrder(w) ==
  job[w] # NoJob =>
    /\ job[w].stage \in 1 .. 6
    /\ job[w].stage \in {3, 4} => job[w].inputs \subseteq Products
    /\ job[w].stage = 5 => \A o \in job[w].inputs \intersect Offers : ProductOf[o] \in job[w].inputs
    /\ job[w].stage >= 3 => job[w].inputs # {}

\* Each stage committed has filled its table.
Filled(w, i) ==
  CASE i = 1        -> stage[w] >= 1
    [] i = 2        -> EvidenceOf(w) # {}
    [] i \in 3 .. 6 -> Derived(w, Stages[i]) # {}

TrailHasRows(w) == Exists(w) => \A i \in 1 .. stage[w] : Filled(w, i)

\* A command reads the workflow's row before the others.
Reading == {"export", "preview", "delete"}

ReadsAreInOrder(r) ==
  /\ r.task \in Reading =>
       /\ DOMAIN r.read \subseteq Range(ReadsOf(r.task))
       /\ DOMAIN r.read # {} => "workflow" \in DOMAIN r.read /\ r.read["workflow"] \in 0 .. 6
  /\ r.task \notin Reading => r.read = NoReads

\* The rows an archive has are no older than its trail.
FilledIn(read, i) == IF i = 1 THEN read["observations"] ELSE read[Stages[i]] # {}

ArchiveFollowsTrail(r) ==
  r.task = "export" /\ DOMAIN r.read # {} /\ Exists(r.wf) =>
    /\ r.read["workflow"] <= stage[r.wf]
    /\ \A i \in 1 .. r.read["workflow"] : Stages[i] \in DOMAIN r.read => FilledIn(r.read, i)

SessionIsInOrder(r) ==
  /\ r = [task |-> r.task, wf |-> r.wf, read |-> r.read, shown |-> r.shown]
  /\ r.task \in Reading \union {"idle", "confirmed"}
  /\ r.wf \in IF r.task = "idle" THEN {Nobody} ELSE Workflows
  /\ r.shown # NoPlan => PlanOK(r.shown)
  /\ ReadsAreInOrder(r) /\ ArchiveFollowsTrail(r)

IInv ==
  /\ TypeOK
  /\ \A w \in Workflows : JobIsInOrder(w) /\ TrailHasRows(w)
  /\ session = [s \in Operators |-> session[s]] /\ \A s \in Operators : SessionIsInOrder(session[s])
  /\ OffersComeWithProducts /\ NothingLeftBehind

LEMMA StagesAre ==
  /\ Len(Stages) = 6
  /\ Stages[1] = "observations" /\ Stages[2] = "evidence" /\ Stages[3] = "checks"
  /\ Stages[4] = "specifications" /\ Stages[5] = "scores" /\ Stages[6] = "reports"
  /\ \A i \in 1 .. 6 : /\ Stages[i] \in Kinds <=> i >= 3
                       /\ Stages[i] # "workflow" /\ Stages[i] \in ArchiveTables
<1>1. /\ Stages[1] = "observations" /\ Stages[2] = "evidence" /\ Stages[3] = "checks"
      /\ Stages[4] = "specifications" /\ Stages[5] = "scores" /\ Stages[6] = "reports"
  BY DEF Stages
<1>2. Len(Stages) = 6
  BY DEF Stages
<1>3. \A i \in 1 .. 6 : i \in {1, 2, 3, 4, 5, 6}
  OBVIOUS
<1>4. ASSUME NEW i \in {1, 2, 3, 4, 5, 6}
      PROVE  /\ Stages[i] \in Kinds <=> i >= 3
             /\ Stages[i] # "workflow" /\ Stages[i] \in ArchiveTables
  BY <1>1 DEF Kinds, ArchiveTables
<1> QED BY <1>1, <1>2, <1>3, <1>4

-------------------------------------------------------------------------------
(***************************************************************************)
(* The stages and the imports: what is there stays there.                  *)
(***************************************************************************)
Grows ==
  /\ \A w \in Workflows : (Exists(w)' <=> Exists(w)) /\ stage[w] <= stage'[w]
  /\ evidence \subseteq evidence'
  /\ \A w \in Workflows : derived[w] \subseteq derived'[w]
  /\ There \subseteq There'
  /\ UNCHANGED session

\* Nothing new without a reference.
NewIsReferred == \A x \in Ingested' : x \in Ingested \/ x \in References'

LEMMA GrowthLeavesNothing ==
  ASSUME NothingLeftBehind, Grows, NewIsReferred
  PROVE  NothingLeftBehind'
<1>1. References \subseteq References'
  BY DEF Grows, References, SubjectsOf
<1>2. Ingested' \intersect Offers \subseteq References'
  BY <1>1 DEF NothingLeftBehind, NewIsReferred
<1>3. ASSUME NEW p \in Ingested' \intersect Products
      PROVE  p \in References' \/ \E o \in There' \intersect Offers : ProductOf[o] = p
  BY <1>1, <1>3 DEF NothingLeftBehind, NewIsReferred, Grows
<1> QED BY <1>2, <1>3 DEF NothingLeftBehind

SessionsStay ==
  /\ session' = [s \in Operators |-> session'[s]]
  /\ \A s \in Operators : SessionIsInOrder(session[s])'

LEMMA GrowthKeepsSessions ==
  ASSUME IInv, Grows, TypeOK'
  PROVE  SessionsStay
<1>1. session' = [s \in Operators |-> session'[s]]
  BY DEF IInv, Grows
<1>2. ASSUME NEW s \in Operators
      PROVE  SessionIsInOrder(session[s])'
  <2> DEFINE r == session[s]
  <2>1. SessionIsInOrder(r) /\ r' = r
    BY DEF IInv, Grows
  <2>2. ArchiveFollowsTrail(r)'
    <3> SUFFICES ASSUME r.task = "export", DOMAIN r.read # {}, Exists(r.wf)'
                 PROVE  /\ r.read["workflow"] <= stage'[r.wf]
                        /\ \A i \in 1 .. r.read["workflow"] :
                             Stages[i] \in DOMAIN r.read => FilledIn(r.read, i)
      BY <2>1 DEF ArchiveFollowsTrail, FilledIn
    <3>1. r.wf \in Workflows
      BY <2>1 DEF SessionIsInOrder
    <3>2. Exists(r.wf) /\ stage[r.wf] <= stage'[r.wf]
      BY <3>1 DEF Grows
    <3>3. /\ r.read["workflow"] <= stage[r.wf]
          /\ \A i \in 1 .. r.read["workflow"] : Stages[i] \in DOMAIN r.read => FilledIn(r.read, i)
      BY <2>1, <3>2 DEF SessionIsInOrder, ArchiveFollowsTrail
    <3>4. stage[r.wf] \in Int /\ stage'[r.wf] \in Int
      BY <3>1 DEF IInv, TypeOK, Deleted
    <3>5. r.read["workflow"] \in 0 .. 6
      BY <2>1 DEF SessionIsInOrder, ReadsAreInOrder, Reading
    <3> QED BY <3>2, <3>3, <3>4, <3>5
  <2>3. ReadsAreInOrder(r)'
    BY <2>1 DEF SessionIsInOrder, ReadsAreInOrder
  <2> QED BY <2>1, <2>2, <2>3 DEF SessionIsInOrder, PlanOK
<1> QED BY <1>1, <1>2 DEF SessionsStay

\* A commit moves its own workflow to the next stage.
LEMMA CommitFacts ==
  ASSUME IInv, NEW w \in Workflows, NEW i \in 1 .. 6, Commits(w, Stages[i])
  PROVE  /\ job[w] # NoJob /\ job[w].stage = i /\ stage[w] = i - 1
         /\ stage' = [stage EXCEPT ![w] = i] /\ job' = [job EXCEPT ![w] = NoJob]
         /\ stage'[w] = i /\ stage' \in [Workflows -> Deleted .. 6]
         /\ \A v \in Workflows : (Exists(v)' <=> Exists(v)) /\ stage[v] <= stage'[v]
         /\ UNCHANGED <<session, imports>>
<1>1. /\ job[w] # NoJob /\ Stages[job[w].stage] = Stages[i] /\ stage[w] = job[w].stage - 1
      /\ stage' = [stage EXCEPT ![w] = @ + 1] /\ job' = [job EXCEPT ![w] = NoJob]
      /\ UNCHANGED <<session, imports>>
  BY DEF Commits
<1>2. job[w].stage \in 1 .. 6
  BY <1>1 DEF IInv, JobIsInOrder
<1>3. \A j, k \in 1 .. 6 : Stages[j] = Stages[k] => j = k
  <2>1. \A j \in 1 .. 6 : j \in {1, 2, 3, 4, 5, 6}
    OBVIOUS
  <2> QED BY <2>1, StagesAre
<1>4. job[w].stage = i
  BY <1>1, <1>2, <1>3
<1>5. stage \in [Workflows -> Deleted .. 6] /\ Deleted = -1
  BY StagesAre DEF IInv, TypeOK, Deleted
<1>6. stage[w] = i - 1 /\ stage'[w] = i /\ stage' = [stage EXCEPT ![w] = i]
  <2>1. stage[w] = i - 1 /\ stage[w] + 1 = i
    BY <1>1, <1>4
  <2>2. stage' = [stage EXCEPT ![w] = i]
    BY <1>1, <2>1
  <2> QED BY <1>5, <2>1, <2>2
<1>7. stage' \in [Workflows -> Deleted .. 6]
  BY <1>5, <1>6
<1>8. ASSUME NEW v \in Workflows
      PROVE  (Exists(v)' <=> Exists(v)) /\ stage[v] <= stage'[v]
  <2>1. CASE v = w
    BY <1>5, <1>6, <2>1 DEF Exists
  <2>2. CASE v # w
    <3>1. stage'[v] = stage[v] /\ stage[v] \in Int
      BY <1>5, <1>6, <2>2
    <3> QED BY <3>1 DEF Exists
  <2> QED BY <2>1, <2>2
<1> QED BY <1>1, <1>4, <1>6, <1>7, <1>8

\* What each of them has to fill and to refer to.
LEMMA CommitKeepsIInv ==
  ASSUME IInv, NEW w \in Workflows, NEW i \in 1 .. 6, Commits(w, Stages[i]),
         product' \in [Products -> Status], offer' \in [Offers -> Status],
         evidence' \subseteq Evidence, evidence \subseteq evidence',
         derived' \in [Workflows -> SUBSET [kind : Kinds, subject : Subjects]],
         \A v \in Workflows : derived[v] \subseteq derived'[v],
         There \subseteq There', NewIsReferred,
         i = 2 => \E e \in evidence' : e.owner = w,
         i >= 3 => \E r \in derived'[w] : r.kind = Stages[i],
         OffersComeWithProducts'
  PROVE  IInv' /\ Grows
<1>1. /\ stage'[w] = i /\ stage[w] = i - 1 /\ stage' = [stage EXCEPT ![w] = i]
      /\ stage' \in [Workflows -> Deleted .. 6] /\ job' = [job EXCEPT ![w] = NoJob]
      /\ \A v \in Workflows : (Exists(v)' <=> Exists(v)) /\ stage[v] <= stage'[v]
      /\ UNCHANGED <<session, imports>>
  BY CommitFacts
<1>2. Grows
  BY <1>1 DEF Grows
<1>3. job' \in [Workflows -> [stage : 0 .. 6, inputs : SUBSET Subjects]]
  <2>1. NoJob \in [stage : 0 .. 6, inputs : SUBSET Subjects]
    BY DEF NoJob
  <2>2. job \in [Workflows -> [stage : 0 .. 6, inputs : SUBSET Subjects]]
    BY StagesAre DEF IInv, TypeOK
  <2> QED BY <1>1, <2>1, <2>2
<1>4. TypeOK'
  <2>1. /\ \A op \in Operators :
             /\ session[op].task \in {"idle", "export", "preview", "delete", "confirmed"}
             /\ session[op].wf \in IF session[op].task = "idle" THEN {Nobody} ELSE Workflows
             /\ DOMAIN session[op].read \subseteq Range(Manifest)
             /\ session[op].shown # NoPlan => PlanOK(session[op].shown)
        /\ imports \in 0 .. MaxImports
    BY DEF IInv, TypeOK
  <2> HIDE DEF IInv
  <2> QED BY <1>1, <1>3, <2>1, StagesAre DEF TypeOK, PlanOK
<1>5. ASSUME NEW v \in Workflows
      PROVE  JobIsInOrder(v)'
  <2>1. job'[v] = NoJob \/ job'[v] = job[v]
    BY <1>1 DEF IInv, TypeOK
  <2> QED BY <2>1 DEF IInv, JobIsInOrder
<1>6. ASSUME NEW v \in Workflows, NEW k \in 1 .. 6, Filled(v, k)
      PROVE  Filled(v, k)'
  <2>1. k \in {1, 2} \cup 3 .. 6
    OBVIOUS
  <2>2. CASE k = 1
    <3>1. stage[v] >= 1 /\ stage[v] <= stage'[v] /\ stage[v] \in Int /\ stage'[v] \in Int
      BY <1>1, <1>6, <2>2 DEF Filled, IInv, TypeOK, Deleted
    <3> QED BY <2>2, <3>1 DEF Filled
  <2>3. CASE k = 2
    BY <1>6, <2>3 DEF Filled, EvidenceOf
  <2>4. CASE k \in 3 .. 6
    <3>1. k # 1 /\ k # 2
      BY <2>4
    <3>2. Derived(v, Stages[k]) \subseteq Derived(v, Stages[k])'
      BY DEF Derived
    <3> QED BY <1>6, <2>4, <3>1, <3>2 DEF Filled
  <2> QED BY <2>1, <2>2, <2>3, <2>4
<1>7. Filled(w, i)'
  <2>1. i \in {1, 2} \cup 3 .. 6
    OBVIOUS
  <2>2. CASE i = 1
    BY <1>1, <2>2 DEF Filled
  <2>3. CASE i = 2
    BY <2>3 DEF Filled, EvidenceOf
  <2>4. CASE i \in 3 .. 6
    <3>1. i # 1 /\ i # 2 /\ i >= 3
      BY <2>4
    <3>2. Derived(w, Stages[i])' # {}
      BY <3>1 DEF Derived
    <3> QED BY <2>4, <3>1, <3>2 DEF Filled
  <2> QED BY <2>1, <2>2, <2>3, <2>4
<1>8. ASSUME NEW v \in Workflows
      PROVE  TrailHasRows(v)'
  <2> SUFFICES ASSUME Exists(v)', NEW k \in 1 .. stage'[v] PROVE Filled(v, k)'
    BY DEF TrailHasRows
  <2>1. k \in 1 .. 6
    BY <1>1 DEF Deleted
  <2>2. CASE v = w /\ k = i
    BY <1>7, <2>2
  <2>3. CASE ~(v = w /\ k = i)
    <3>1. k \in 1 .. stage[v]
      <4>1. CASE v = w
        BY <1>1, <2>3, <4>1
      <4>2. CASE v # w
        BY <1>1, <4>2 DEF IInv, TypeOK
      <4> QED BY <4>1, <4>2
    <3>2. Filled(v, k)
      BY <1>1, <3>1 DEF IInv, TrailHasRows
    <3> QED BY <1>6, <2>1, <3>2
  <2> QED BY <2>2, <2>3
<1>9. NothingLeftBehind'
  BY <1>2, GrowthLeavesNothing DEF IInv
<1>10. SessionsStay
  BY <1>2, <1>4, GrowthKeepsSessions
<1> QED BY <1>2, <1>4, <1>5, <1>8, <1>9, <1>10 DEF IInv, SessionsStay

\* A stage begins, or fails.
LEMMA BeginKeepsIInv ==
  ASSUME IInv, NEW w \in Workflows, Begin(w) \/ Abandon(w) PROVE IInv' /\ Grows
<1>1. UNCHANGED <<stage, product, offer, evidence, derived, session, imports>>
  BY DEF Begin, Abandon, db, catalog
<1>2. Grows
  BY <1>1 DEF Grows, Exists, There, Ingested, IInv, TypeOK
<1>3. \E new : /\ job' = [job EXCEPT ![w] = new]
               /\ new \in [stage : 0 .. 6, inputs : SUBSET Subjects]
               /\ new # NoJob =>
                    /\ new.stage \in 1 .. 6
                    /\ new.stage \in {3, 4} => new.inputs \subseteq Products
                    /\ new.stage = 5 => \A o \in new.inputs \intersect Offers : ProductOf[o] \in new.inputs
                    /\ new.stage >= 3 => new.inputs # {}
  <2>1. CASE Abandon(w)
    <3>1. job' = [job EXCEPT ![w] = NoJob] /\ NoJob \in [stage : 0 .. 6, inputs : SUBSET Subjects]
      BY <2>1 DEF Abandon, NoJob
    <3> QED BY <3>1
  <2>2. CASE Begin(w)
    <3> DEFINE n == stage[w] + 1
               inputs == Inputs(w, Stages[n])
               new == [stage |-> n, inputs |-> inputs]
    <3>1. /\ Exists(w) /\ stage[w] < LastStage[w] /\ job' = [job EXCEPT ![w] = new]
          /\ Stages[n] \in Kinds => inputs # {}
      BY <2>2 DEF Begin
    <3>2. n \in 1 .. 6
      <4>1. stage[w] \in Deleted .. 6 /\ stage[w] # Deleted /\ Deleted = -1
        BY <3>1, StagesAre DEF IInv, TypeOK, Exists, Deleted
      <4>2. LastStage[w] \in 0 .. 6
        BY BoundsAssumption
      <4> QED BY <3>1, <4>1, <4>2
    <3> HIDE DEF n
    <3>3. n >= 3 => inputs # {}
      BY <3>1, <3>2, StagesAre
    <3>4. ProductsFor(w) \subseteq Products /\ OffersFor(w) \subseteq Offers
      BY DEF ProductsFor, OffersFor
    <3>5. \A o \in OffersFor(w) : ProductOf[o] \in ProductsFor(w)
      BY DEF OffersFor
    <3>6. n \in {1, 2, 3, 4, 5, 6}
      BY <3>2
    <3>7. /\ n \in {1, 2} => inputs = {}
          /\ n \in {3, 4} => inputs = ProductsFor(w)
          /\ n = 5 => inputs = ProductsFor(w) \union OffersFor(w)
          /\ n = 6 => inputs = SubjectsOf(Derived(w, "scores"))
      BY <3>6, StagesAre DEF Inputs
    <3>8. SubjectsOf(Derived(w, "scores")) \subseteq Subjects
      BY DEF SubjectsOf, Derived, IInv, TypeOK
    <3> HIDE DEF inputs
    <3>9. inputs \subseteq Subjects
      BY <3>4, <3>6, <3>7, <3>8 DEF Subjects
    <3>10. n = 5 => \A o \in inputs \intersect Offers : ProductOf[o] \in inputs
      BY <3>4, <3>5, <3>7, IdentifiersAssumption
    <3>11. n \in {3, 4} => inputs \subseteq Products
      BY <3>4, <3>7
    <3>12. /\ job' = [job EXCEPT ![w] = new] /\ new.stage = n /\ new.inputs = inputs
           /\ new \in [stage : 0 .. 6, inputs : SUBSET Subjects]
      BY <3>1, <3>2, <3>9 DEF n, inputs
    <3> HIDE DEF new
    <3> QED BY <3>2, <3>3, <3>10, <3>11, <3>12
  <2> QED BY <2>1, <2>2
<1>4. TypeOK'
  <2>1. job' \in [Workflows -> [stage : 0 .. 6, inputs : SUBSET Subjects]]
    BY <1>3, StagesAre DEF IInv, TypeOK
  <2> QED BY <1>1, <2>1, StagesAre DEF IInv, TypeOK, PlanOK
<1>5. ASSUME NEW v \in Workflows
      PROVE  JobIsInOrder(v)' /\ TrailHasRows(v)'
  <2>1. TrailHasRows(v)'
    BY <1>1 DEF IInv, TrailHasRows, Filled, Exists, EvidenceOf, Derived
  <2>2. PICK new : /\ job' = [job EXCEPT ![w] = new]
                   /\ new # NoJob =>
                        /\ new.stage \in 1 .. 6
                        /\ new.stage \in {3, 4} => new.inputs \subseteq Products
                        /\ new.stage = 5 => \A o \in new.inputs \intersect Offers : ProductOf[o] \in new.inputs
                        /\ new.stage >= 3 => new.inputs # {}
    BY <1>3
  <2>3. CASE v = w
    <3>1. job'[v] = new
      BY <2>2, <2>3 DEF IInv, TypeOK
    <3> QED BY <2>1, <2>2, <3>1 DEF JobIsInOrder
  <2>4. CASE v # w
    <3>1. job'[v] = job[v] /\ JobIsInOrder(v)
      BY <2>2, <2>4 DEF IInv, TypeOK
    <3> QED BY <2>1, <3>1 DEF JobIsInOrder
  <2> QED BY <2>3, <2>4
<1>6. OffersComeWithProducts'
  BY <1>1 DEF IInv, OffersComeWithProducts
<1>7. NothingLeftBehind'
  <2>1. NewIsReferred
    BY <1>1 DEF NewIsReferred, Ingested
  <2> QED BY <1>2, <2>1, GrowthLeavesNothing DEF IInv
<1>8. SessionsStay
  BY <1>2, <1>4, GrowthKeepsSessions
<1> QED BY <1>2, <1>4, <1>5, <1>6, <1>7, <1>8 DEF IInv, SessionsStay

\* The observations, which refer to nothing.
LEMMA CollectKeepsIInv == ASSUME IInv, NEW w \in Workflows, Collect(w) PROVE IInv' /\ Grows
<1>1. Commits(w, Stages[1]) /\ UNCHANGED <<product, offer, evidence, derived>>
  BY StagesAre DEF Collect, catalog
<1>2. /\ There' = There /\ NewIsReferred /\ OffersComeWithProducts'
  BY <1>1 DEF There, Ingested, NewIsReferred, IInv, OffersComeWithProducts
<1>3. /\ product' \in [Products -> Status] /\ offer' \in [Offers -> Status]
      /\ evidence' \subseteq Evidence
      /\ derived' \in [Workflows -> SUBSET [kind : Kinds, subject : Subjects]]
  BY <1>1 DEF IInv, TypeOK
<1> QED BY <1>1, <1>2, <1>3, CommitKeepsIInv

\* The products and offers of a collection, each with its evidence.
LEMMA IngestKeepsIInv == ASSUME IInv, NEW w \in Workflows, Ingest(w) PROVE IInv' /\ Grows
<1>1. Commits(w, Stages[2]) /\ derived' = derived
  BY StagesAre DEF Ingest
<1>2. PICK os \in SUBSET {o \in Offers : offer[o] = "unborn"} :
        LET ps == {ProductOf[o] : o \in os}
        IN  /\ os # {} /\ \A p \in ps : product[p] = "unborn"
            /\ product' = [p \in Products |-> IF p \in ps THEN "ingested" ELSE product[p]]
            /\ offer' = [o \in Offers |-> IF o \in os THEN "ingested" ELSE offer[o]]
            /\ evidence' = evidence \union [owner : {w}, subject : os \union ps, source : {"detail"}]
  BY DEF Ingest
<1> DEFINE ps == {ProductOf[o] : o \in os}
           news == [owner : {w}, subject : os \union ps, source : {"detail"}]
<1>3. ps \subseteq Products /\ os \subseteq Offers
  BY ProductOfAssumption
<1>4. /\ product' \in [Products -> Status] /\ offer' \in [Offers -> Status]
      /\ derived' \in [Workflows -> SUBSET [kind : Kinds, subject : Subjects]]
  BY <1>1, <1>2 DEF IInv, TypeOK, Status
<1>5. evidence' \subseteq Evidence /\ evidence \subseteq evidence'
  <2>1. news \subseteq Evidence
    BY <1>3 DEF Evidence, Subjects
  <2> QED BY <1>2, <2>1 DEF IInv, TypeOK
<1>6. \A x \in os \union ps : \E e \in evidence' : e.subject = x /\ e.owner = w
  <2>1. ASSUME NEW x \in os \union ps
        PROVE  [owner |-> w, subject |-> x, source |-> "detail"] \in news
    BY <2>1
  <2> QED BY <1>2, <2>1
<1>7. There \subseteq There'
  BY <1>2, <1>3, ThereIs, ThereWillBe DEF Subjects
<1>8. NewIsReferred
  <2>1. \A x \in Ingested' : x \in Ingested \/ x \in os \union ps
    BY <1>2 DEF Ingested
  <2> QED BY <1>6, <2>1 DEF NewIsReferred, References, SubjectsOf
<1>9. OffersComeWithProducts'
  BY <1>1 DEF IInv, OffersComeWithProducts
<1>10. \E e \in evidence' : e.owner = w
  BY <1>2, <1>6
<1> HIDE DEF ps, news
<1> QED BY <1>1, <1>4, <1>5, <1>7, <1>8, <1>9, <1>10, CommitKeepsIInv

\* Checks, specifications, scores and reports.
LEMMA ReferKeepsIInv ==
  ASSUME IInv, NEW w \in Workflows, CrossCheck(w) \/ Normalize(w) \/ Score(w) \/ Render(w)
  PROVE  IInv' /\ Grows
<1>1. PICK i \in 3 .. 6 :
        /\ Commits(w, Stages[i]) /\ Refer(w, Stages[i], job[w].inputs)
        /\ UNCHANGED <<product, offer, evidence>>
  <2>1. CASE CrossCheck(w)
    BY <2>1, StagesAre DEF CrossCheck, catalog
  <2>2. CASE Normalize(w)
    BY <2>2, StagesAre DEF Normalize, catalog
  <2>3. CASE Score(w)
    BY <2>3, StagesAre DEF Score, catalog
  <2>4. CASE Render(w)
    BY <2>4, StagesAre DEF Render, catalog
  <2> QED BY <2>1, <2>2, <2>3, <2>4
<1> DEFINE inputs == job[w].inputs
           news == [kind : {Stages[i]}, subject : inputs]
<1>2. i \in 1 .. 6 /\ i >= 3 /\ i # 2 /\ Stages[i] \in Kinds
  <2>1. i \in 1 .. 6 /\ i >= 3 /\ i # 2
    OBVIOUS
  <2> QED BY <2>1, StagesAre
<1>3. job[w] # NoJob /\ job[w].stage = i
  BY <1>1, <1>2, CommitFacts
<1>4. /\ inputs # {} /\ inputs \subseteq Subjects
      /\ i \in {3, 4} => inputs \subseteq Products
      /\ i = 5 => \A o \in inputs \intersect Offers : ProductOf[o] \in inputs
  BY <1>2, <1>3 DEF IInv, JobIsInOrder, TypeOK
<1> HIDE DEF inputs
<1>5. derived' = [derived EXCEPT ![w] = @ \union news]
  BY <1>1 DEF Refer, inputs
<1>6. news \subseteq [kind : Kinds, subject : Subjects]
  BY <1>2, <1>4
<1>7. \A x \in inputs : \E r \in news : r.kind = Stages[i] /\ r.subject = x
  <2>1. ASSUME NEW x \in inputs
        PROVE  [kind |-> Stages[i], subject |-> x] \in news
    OBVIOUS
  <2> QED BY <2>1
<1>8. \A r \in news : r.kind = Stages[i] /\ r.subject \in inputs
  OBVIOUS
<1> HIDE DEF news
<1>9. /\ derived' \in [Workflows -> SUBSET [kind : Kinds, subject : Subjects]]
      /\ \A v \in Workflows : derived'[v] = IF v = w THEN derived[w] \union news ELSE derived[v]
  BY <1>5, <1>6 DEF IInv, TypeOK
<1>10. OffersComeWithProducts'
  <2> SUFFICES ASSUME NEW v \in Workflows, NEW r \in derived'[v],
                      r.kind # "reports", r.subject \in Offers
               PROVE  \E q \in derived'[v] : q.subject = ProductOf[r.subject]
    BY DEF OffersComeWithProducts
  <2>1. CASE r \in derived[v]
    BY <1>9, <2>1 DEF IInv, OffersComeWithProducts
  <2>2. CASE v = w /\ r \in news
    <3>1. r.kind = Stages[i] /\ r.subject \in inputs
      BY <1>8, <2>2
    <3>2. i = 5
      <4>1. i \in {3, 4, 5, 6}
        OBVIOUS
      <4>2. i # 6
        BY <3>1, StagesAre
      <4>3. i \notin {3, 4}
        BY <1>4, <3>1, IdentifiersAssumption
      <4> QED BY <4>1, <4>2, <4>3
    <3>3. ProductOf[r.subject] \in inputs
      BY <1>4, <3>1, <3>2
    <3> QED BY <1>7, <1>9, <2>2, <3>3
  <2> QED BY <1>9, <2>1, <2>2
<1>11. There' = There /\ NewIsReferred
  BY <1>1 DEF There, Ingested, NewIsReferred
<1>12. \E r \in derived'[w] : r.kind = Stages[i]
  BY <1>4, <1>7, <1>9
<1>13. /\ product' \in [Products -> Status] /\ offer' \in [Offers -> Status]
       /\ evidence' \subseteq Evidence
  BY <1>1 DEF IInv, TypeOK
<1>14. \A v \in Workflows : derived[v] \subseteq derived'[v]
  BY <1>9
<1> QED BY <1>1, <1>2, <1>9, <1>10, <1>11, <1>12, <1>13, <1>14, CommitKeepsIInv

\* Rows written through the repositories.
LEMMA ImportKeepsIInv == ASSUME IInv, Import PROVE IInv' /\ Grows
<1>1. /\ imports < MaxImports /\ imports' = imports + 1
      /\ UNCHANGED <<stage, derived, job, session>>
  BY DEF Import, AddProduct, AddOffer, AddEvidence, Imports
<1> DEFINE CatalogGrows ==
             /\ product' \in [Products -> Status] /\ offer' \in [Offers -> Status]
             /\ evidence' \subseteq Evidence /\ evidence \subseteq evidence'
             /\ There \subseteq There' /\ Ingested' = Ingested
<1>2. CatalogGrows
  <2>1. ASSUME NEW p \in Products, AddProduct(p)
        PROVE  CatalogGrows
    <3>1. /\ product[p] = "unborn" /\ product' = [product EXCEPT ![p] = "added"]
          /\ UNCHANGED <<offer, evidence>>
      BY <2>1 DEF AddProduct
    <3>2. product' \in [Products -> Status]
      BY <3>1 DEF IInv, TypeOK, Status
    <3>3. \A q \in Products : product'[q] = IF q = p THEN "added" ELSE product[q]
      BY <3>1 DEF IInv, TypeOK
    <3>4. There \subseteq There' /\ Ingested' = Ingested
      BY <3>1, <3>3 DEF There, Ingested
    <3> QED BY <3>1, <3>2, <3>4 DEF IInv, TypeOK
  <2>2. ASSUME NEW o \in Offers, AddOffer(o)
        PROVE  CatalogGrows
    <3>1. /\ offer[o] = "unborn" /\ offer' = [offer EXCEPT ![o] = "added"]
          /\ UNCHANGED <<product, evidence>>
      BY <2>2 DEF AddOffer
    <3>2. offer' \in [Offers -> Status]
      BY <3>1 DEF IInv, TypeOK, Status
    <3>3. \A q \in Offers : offer'[q] = IF q = o THEN "added" ELSE offer[q]
      BY <3>1 DEF IInv, TypeOK
    <3>4. There \subseteq There' /\ Ingested' = Ingested
      BY <3>1, <3>3 DEF There, Ingested
    <3> QED BY <3>1, <3>2, <3>4 DEF IInv, TypeOK
  <2>3. ASSUME NEW w \in Workflows \union {Nobody}, NEW x \in Subjects, AddEvidence(w, x)
        PROVE  CatalogGrows
    <3>1. /\ evidence' = evidence \union {[owner |-> w, subject |-> x, source |-> "import"]}
          /\ UNCHANGED <<product, offer>>
      BY <2>3 DEF AddEvidence, catalog
    <3>2. [owner |-> w, subject |-> x, source |-> "import"] \in Evidence
      BY DEF Evidence
    <3>3. There' = There /\ Ingested' = Ingested
      BY <3>1 DEF There, Ingested
    <3> QED BY <3>1, <3>2, <3>3 DEF IInv, TypeOK
  <2> QED BY <2>1, <2>2, <2>3 DEF Import
<1>3. Grows
  <2>1. \A w \in Workflows : stage[w] \in Int
    BY DEF IInv, TypeOK, Deleted
  <2> QED BY <1>1, <1>2, <2>1 DEF Grows, Exists
<1>4. TypeOK'
  <2>1. imports' \in 0 .. MaxImports
    BY <1>1, BoundsAssumption DEF IInv, TypeOK
  <2> QED BY <1>1, <1>2, <2>1 DEF IInv, TypeOK, PlanOK
<1>5. ASSUME NEW v \in Workflows
      PROVE  JobIsInOrder(v)' /\ TrailHasRows(v)'
  <2>1. JobIsInOrder(v)'
    BY <1>1 DEF IInv, JobIsInOrder
  <2>2. EvidenceOf(v) \subseteq EvidenceOf(v)' /\ \A k : Derived(v, k)' = Derived(v, k)
    BY <1>1, <1>2 DEF EvidenceOf, Derived
  <2>3. \A k \in 1 .. stage[v] : Filled(v, k) => Filled(v, k)'
    <3> SUFFICES ASSUME NEW k \in 1 .. stage[v], Filled(v, k) PROVE Filled(v, k)'
      OBVIOUS
    <3>1. stage[v] \in Deleted .. 6 /\ Deleted = -1
      BY StagesAre DEF IInv, TypeOK, Deleted
    <3>2. k = 1 \/ k = 2 \/ (k \in 3 .. 6 /\ k # 1 /\ k # 2)
      BY <3>1
    <3>3. CASE k = 1
      BY <1>1, <3>3 DEF Filled
    <3>4. CASE k = 2
      BY <2>2, <3>4 DEF Filled
    <3>5. CASE k \in 3 .. 6 /\ k # 1 /\ k # 2
      BY <2>2, <3>5 DEF Filled
    <3> QED BY <3>2, <3>3, <3>4, <3>5
  <2>4. TrailHasRows(v)'
    BY <1>1, <2>3 DEF IInv, TrailHasRows, Exists
  <2> QED BY <2>1, <2>4
<1>6. OffersComeWithProducts' /\ NothingLeftBehind'
  <2>1. NewIsReferred
    BY <1>2 DEF NewIsReferred
  <2> QED BY <1>1, <1>3, <2>1, GrowthLeavesNothing DEF IInv, OffersComeWithProducts
<1>7. SessionsStay
  BY <1>3, <1>4, GrowthKeepsSessions
<1> QED BY <1>3, <1>4, <1>5, <1>6, <1>7 DEF IInv, SessionsStay

\* Whatever a workflow's stages do.
LEMMA WorkKeepsIInv == ASSUME IInv, NEW w \in Workflows, Work(w) PROVE IInv' /\ Grows
BY BeginKeepsIInv, CollectKeepsIInv, IngestKeepsIInv, ReferKeepsIInv DEF Work

-------------------------------------------------------------------------------
(***************************************************************************)
(* The commands.                                                           *)
(***************************************************************************)

\* A command that reads leaves the database alone.
LEMMA SessionKeepsIInv ==
  ASSUME IInv, NEW s \in Operators, NEW r, SessionIs(s, r), SessionIsInOrder(r)
  PROVE  IInv' /\ UNCHANGED db
<1>1. session' = [session EXCEPT ![s] = r]
      /\ UNCHANGED <<stage, product, offer, evidence, derived, job, imports>>
  BY DEF SessionIs, db, catalog
<1>2. \A op \in Operators : session'[op] = IF op = s THEN r ELSE session[op]
  BY <1>1 DEF IInv
<1>3. session' = [op \in Operators |-> session'[op]]
  BY <1>1 DEF IInv
<1>4. \A op \in Operators : SessionIsInOrder(session'[op])
  BY <1>2 DEF IInv
<1>5. ASSUME NEW op \in Operators
      PROVE  SessionIsInOrder(session[op])'
  BY <1>1, <1>4 DEF SessionIsInOrder, ReadsAreInOrder, ArchiveFollowsTrail, PlanOK, Exists, FilledIn
<1>6. TypeOK'
  <2>1. ASSUME NEW op \in Operators
        PROVE  /\ session'[op].task \in {"idle", "export", "preview", "delete", "confirmed"}
               /\ session'[op].wf \in IF session'[op].task = "idle" THEN {Nobody} ELSE Workflows
               /\ DOMAIN session'[op].read \subseteq Range(Manifest)
               /\ session'[op].shown # NoPlan => PlanOK(session'[op].shown)
    <3>1. SessionIsInOrder(session'[op])
      BY <1>4
    <3>2. Range(ReadsOf(session'[op].task)) \subseteq Range(Manifest)
      BY ArchiveIs, ManifestIs DEF ReadsOf, ArchiveTables, ManifestTables
    <3>3. DOMAIN NoReads = {}
      BY DEF NoReads
    <3> QED BY <3>1, <3>2, <3>3 DEF SessionIsInOrder, ReadsAreInOrder, Reading
  <2> QED BY <1>1, <2>1 DEF IInv, TypeOK, PlanOK
<1>7. \A w \in Workflows : JobIsInOrder(w)' /\ TrailHasRows(w)'
  BY <1>1 DEF IInv, JobIsInOrder, TrailHasRows, Filled, Exists, EvidenceOf, Derived
<1>8. OffersComeWithProducts' /\ NothingLeftBehind'
  BY <1>1 DEF IInv, OffersComeWithProducts, NothingLeftBehind, References, SubjectsOf, Ingested, There
<1> QED BY <1>1, <1>3, <1>5, <1>6, <1>7, <1>8 DEF IInv, db, catalog

\* A command begins.
LEMMA OpenKeepsIInv ==
  ASSUME IInv, NEW s \in Operators, Delete(s) \/ \E w \in Workflows : Export(s, w) \/ Preview(s, w)
  PROVE  IInv' /\ UNCHANGED db
<1>1. PICK task \in Reading, w \in Workflows : Open(s, task, w)
  <2>1. CASE Delete(s)
    BY <2>1 DEF Delete, Reading, IInv, SessionIsInOrder, PlanOK
  <2>2. ASSUME NEW w \in Workflows, Export(s, w) \/ Preview(s, w)
        PROVE  Open(s, "export", w) \/ Open(s, "preview", w)
    BY <2>2 DEF Export, Preview
  <2> QED BY <2>1, <2>2 DEF Reading
<1> DEFINE old == session[s]
           r == [task |-> task, wf |-> w, read |-> NoReads, shown |-> old.shown]
<1>2. SessionIsInOrder(old) /\ old.task = "idle" /\ old.read = NoReads
  BY <1>1 DEF Open, IInv, SessionIsInOrder, ReadsAreInOrder, Reading
<1>3. SessionIs(s, r)
  BY <1>1 DEF Open, Session
<1>4. SessionIsInOrder(r)
  <2>1. DOMAIN NoReads = {}
    BY DEF NoReads
  <2>2. old.shown # NoPlan => PlanOK(old.shown)
    BY <1>2 DEF SessionIsInOrder
  <2> HIDE DEF old
  <2>3. r.task = task /\ r.wf = w /\ r.read = NoReads /\ r.shown = old.shown
    OBVIOUS
  <2>4. ReadsAreInOrder(r) /\ ArchiveFollowsTrail(r)
    BY <1>1, <2>1, <2>3 DEF ReadsAreInOrder, ArchiveFollowsTrail
  <2>5. task # "idle"
    BY DEF Reading
  <2> QED BY <2>2, <2>3, <2>4, <2>5 DEF SessionIsInOrder
<1> QED BY <1>3, <1>4, SessionKeepsIInv

\* A command ends, with or without a plan.
LEMMA EndKeepsIInv ==
  ASSUME IInv, NEW s \in Operators, NEW plan, SessionIs(s, NoSession(plan)),
         plan # NoPlan => PlanOK(plan)
  PROVE  IInv' /\ UNCHANGED db
<1> DEFINE r == NoSession(plan)
<1>1. /\ r = [task |-> r.task, wf |-> r.wf, read |-> r.read, shown |-> r.shown]
      /\ r.task = "idle" /\ r.wf = Nobody /\ r.read = NoReads /\ r.shown = plan
  BY DEF NoSession, Session
<1> HIDE DEF r
<1>2. SessionIsInOrder(r)
  BY <1>1 DEF SessionIsInOrder, ReadsAreInOrder, ArchiveFollowsTrail, Reading
<1> QED BY <1>2, SessionKeepsIInv DEF r

\* Who has read as many tables as there are has read all.
LEMMA AllRead ==
  ASSUME NEW seq, NEW n \in Nat, DOMAIN seq = 1 .. n, NEW S \in SUBSET Range(seq)
  PROVE  /\ IsFiniteSet(S) /\ Cardinality(S) \in 0 .. n
         /\ Cardinality(S) = n => S = Range(seq)
<1> DEFINE f == [i \in 1 .. n |-> seq[i]]
<1>1. f \in Surjection(1 .. n, Range(seq))
  BY DEF Range, Surjection
<1>2. ExistsSurjection(1 .. n, Range(seq))
  BY <1>1 DEF ExistsSurjection
<1>3. IsFiniteSet(Range(seq)) /\ Cardinality(Range(seq)) <= n /\ Cardinality(Range(seq)) \in Nat
  BY <1>2, FS_NatSurjection, FS_SurjCardinalityBound, FS_CardinalityType
<1>4. /\ IsFiniteSet(S) /\ Cardinality(S) <= Cardinality(Range(seq)) /\ Cardinality(S) \in Nat
      /\ Cardinality(Range(seq)) = Cardinality(S) => Range(seq) = S
  BY <1>3, FS_Subset, FS_CardinalityType
<1> QED BY <1>3, <1>4

LEMMA ReadsOfIs ==
  ASSUME NEW task \in Reading
  PROVE  \E n \in Nat \ {0} :
           /\ DOMAIN ReadsOf(task) = 1 .. n /\ Len(ReadsOf(task)) = n
           /\ ReadsOf(task)[1] = "workflow"
           /\ \A i \in 2 .. n : ReadsOf(task)[i] # "workflow"
           /\ Range(ReadsOf(task)) = IF task = "export" THEN ArchiveTables ELSE ManifestTables
<1>1. DOMAIN Archive = 1 .. 9 /\ Len(Archive) = 9
  BY DEF Archive, ArchiveReads
<1>2. DOMAIN Manifest = 1 .. 12 /\ Len(Manifest) = 12
  BY DEF Manifest
<1>3. CASE task = "export"
  <2>1. ReadsOf(task) = Archive
    BY <1>3 DEF ReadsOf
  <2>2. 9 \in Nat \ {0}
    OBVIOUS
  <2> QED BY <1>1, <1>3, <2>1, <2>2, ArchiveIs
<1>4. CASE task # "export"
  <2>1. ReadsOf(task) = Manifest
    BY <1>4 DEF ReadsOf
  <2>2. 12 \in Nat \ {0}
    OBVIOUS
  <2> QED BY <1>2, <1>4, <2>1, <2>2, ManifestIs
<1> QED BY <1>3, <1>4

\* The next table is the workflow's if it is the first.
LEMMA NextTable ==
  ASSUME NEW s \in Operators, SessionIsInOrder(session[s]), session[s].task \in Reading
  PROVE  LET read == session[s].read
             reads == ReadsOf(session[s].task)
             t == reads[Cardinality(DOMAIN read) + 1]
         IN  /\ ~Ready(s) => t \in Range(reads) /\ (t = "workflow" <=> DOMAIN read = {})
             /\ Ready(s) => DOMAIN read = Range(reads)
<1> DEFINE read == session[s].read
           reads == ReadsOf(session[s].task)
           t == reads[Cardinality(DOMAIN read) + 1]
<1>1. PICK n \in Nat \ {0} : /\ DOMAIN reads = 1 .. n /\ Len(reads) = n /\ reads[1] = "workflow"
                             /\ \A i \in 2 .. n : reads[i] # "workflow"
  BY ReadsOfIs
<1>2. DOMAIN read \in SUBSET Range(reads)
  BY DEF SessionIsInOrder, ReadsAreInOrder
<1>3. /\ IsFiniteSet(DOMAIN read) /\ Cardinality(DOMAIN read) \in 0 .. n
      /\ Cardinality(DOMAIN read) = n => DOMAIN read = Range(reads)
  BY <1>1, <1>2, AllRead
<1>4. Cardinality(DOMAIN read) = 0 <=> DOMAIN read = {}
  BY <1>3, FS_EmptySet
<1>5. Ready(s) <=> Cardinality(DOMAIN read) = n
  BY <1>1 DEF Ready
<1>6. ASSUME ~Ready(s)
      PROVE  t \in Range(reads) /\ (t = "workflow" <=> DOMAIN read = {})
  <2>1. Cardinality(DOMAIN read) + 1 \in 1 .. n
    BY <1>3, <1>5, <1>6
  <2>2. t \in Range(reads)
    BY <1>1, <2>1 DEF Range
  <2>3. CASE Cardinality(DOMAIN read) = 0
    BY <1>1, <1>4, <2>2, <2>3
  <2>4. CASE Cardinality(DOMAIN read) # 0
    <3>1. Cardinality(DOMAIN read) + 1 \in 2 .. n
      BY <1>3, <2>1, <2>4
    <3> QED BY <1>1, <1>4, <2>2, <2>4, <3>1
  <2> QED BY <2>3, <2>4
<1> QED BY <1>3, <1>5, <1>6

\* What its SELECT finds.
LEMMA RowsAre ==
  ASSUME NEW w, NEW read
  PROVE  /\ Rows(w, "workflow", read) = stage[w]
         /\ Rows(w, "observations", read) = (stage[w] >= 1)
         /\ Rows(w, "evidence", read) = EvidenceOf(w)
         /\ \A k \in Kinds : Rows(w, k, read) = Derived(w, k)
<1>1. "workflow" \notin Kinds /\ "observations" \notin Kinds /\ "evidence" \notin Kinds
  BY DEF Kinds
<1>2. \A k \in Kinds : k # "workflow" /\ k # "observations" /\ k # "evidence"
                       /\ k # "offers" /\ k # "products"
  BY DEF Kinds
<1>3. \A k \in Kinds : k # "foreign evidence" /\ k # "foreign rows" /\ k # "product offers"
  BY DEF Kinds
<1>4. /\ Rows(w, "workflow", read) = stage[w]
      /\ Rows(w, "observations", read) = (stage[w] >= 1)
      /\ Rows(w, "evidence", read) = EvidenceOf(w)
  BY <1>1 DEF Rows
<1>5. ASSUME NEW k \in Kinds
      PROVE  Rows(w, k, read) = Derived(w, k)
  BY <1>2, <1>3 DEF Rows
<1> QED BY <1>4, <1>5

\* One table is read.
LEMMA SelectKeepsIInv == ASSUME IInv, NEW s \in Operators, Select(s) PROVE IInv' /\ UNCHANGED db
<1> DEFINE old == session[s]
           read == old.read
           w == old.wf
           t == ReadsOf(old.task)[Cardinality(DOMAIN read) + 1]
           now == WithRows(w, read, {t})
<1>1. /\ old.task \in Reading /\ ~Ready(s)
      /\ SessionIs(s, IF Valid(now) THEN [old EXCEPT !.read = now] ELSE NoSession(NoPlan))
  BY DEF Select, Reading
<1>2. SessionIsInOrder(old)
  BY DEF IInv
<1>3. w \in Workflows
  BY <1>1, <1>2 DEF SessionIsInOrder, Reading
<1>4. t \in Range(ReadsOf(old.task)) /\ (t = "workflow" <=> DOMAIN read = {})
  BY <1>1, <1>2, NextTable
<1>5. CASE ~Valid(now)
  BY <1>1, <1>5, EndKeepsIInv
<1>6. CASE Valid(now)
  <2> DEFINE r == [task |-> old.task, wf |-> w, read |-> now, shown |-> old.shown]
  <2>1. SessionIs(s, r)
    <3>1. SessionIs(s, [old EXCEPT !.read = now])
      BY <1>1, <1>6
    <3> HIDE DEF now
    <3>2. [old EXCEPT !.read = now] = r
      BY <1>2 DEF SessionIsInOrder
    <3> QED BY <3>1, <3>2
  <2>2. /\ DOMAIN now = DOMAIN read \union {t} /\ now[t] = Rows(w, t, read)
        /\ \A u \in DOMAIN read \ {t} : now[u] = read[u]
    BY DEF WithRows
  <2>3. "workflow" \in DOMAIN now => now["workflow"] # Deleted
    BY <1>6 DEF Valid
  <2>4. /\ DOMAIN read \subseteq Range(ReadsOf(old.task))
        /\ DOMAIN read # {} => "workflow" \in DOMAIN read /\ read["workflow"] \in 0 .. 6
    BY <1>1, <1>2 DEF SessionIsInOrder, ReadsAreInOrder
  <2> HIDE DEF now, t
  <2>5. "workflow" \in DOMAIN now /\ now["workflow"] \in 0 .. 6
    <3>1. CASE DOMAIN read = {}
      <4>1. now["workflow"] = stage[w] /\ "workflow" \in DOMAIN now
        BY <1>4, <2>2, <3>1, RowsAre
      <4>2. stage[w] \in Deleted .. 6 /\ Deleted = -1
        BY <1>3, StagesAre DEF IInv, TypeOK, Deleted
      <4> QED BY <2>3, <4>1, <4>2
    <3>2. CASE DOMAIN read # {}
      BY <1>4, <2>2, <2>4, <3>2
    <3> QED BY <3>1, <3>2
  <2>6. /\ r.task = old.task /\ r.wf = w /\ r.read = now /\ r.shown = old.shown
        /\ r = [task |-> r.task, wf |-> r.wf, read |-> r.read, shown |-> r.shown]
    OBVIOUS
  <2> HIDE DEF r
  <2>7. ReadsAreInOrder(r)
    BY <1>1, <1>4, <2>2, <2>4, <2>5, <2>6 DEF ReadsAreInOrder
  <2>8. ArchiveFollowsTrail(r)
    <3> SUFFICES ASSUME old.task = "export", Exists(w)
                 PROVE  /\ now["workflow"] <= stage[w]
                        /\ \A i \in 1 .. now["workflow"] : Stages[i] \in DOMAIN now => FilledIn(now, i)
      BY <2>6 DEF ArchiveFollowsTrail
    <3>0. stage[w] \in Int
      BY <1>3 DEF IInv, TypeOK, Deleted
    <3>1. stage[w] \in Int /\ (DOMAIN read = {} => now["workflow"] = stage[w])
      BY <1>4, <2>2, <3>0, RowsAre
    <3>2. DOMAIN read # {} =>
            /\ now["workflow"] = read["workflow"] /\ read["workflow"] <= stage[w]
            /\ \A i \in 1 .. read["workflow"] : Stages[i] \in DOMAIN read => FilledIn(read, i)
      BY <1>2, <1>4, <2>2, <2>4 DEF SessionIsInOrder, ArchiveFollowsTrail
    <3>3. now["workflow"] <= stage[w]
      BY <2>5, <3>1, <3>2
    <3>4. ASSUME NEW i \in 1 .. now["workflow"], Stages[i] \in DOMAIN now
          PROVE  FilledIn(now, i)
      <4>1. i \in 1 .. 6 /\ i \in 1 .. stage[w] /\ Stages[i] # "workflow"
        BY <2>5, <3>1, <3>3, StagesAre
      <4>2. CASE Stages[i] = t
        <5>1. Filled(w, i) /\ DOMAIN read # {}
          BY <1>3, <1>4, <4>1, <4>2 DEF IInv, TrailHasRows
        <5>2. now[Stages[i]] = Rows(w, Stages[i], read)
          BY <2>2, <4>2
        <5>3. i = 1 \/ i = 2 \/ (i \in 3 .. 6 /\ i # 1 /\ i # 2 /\ i >= 3)
          BY <4>1
        <5>4. CASE i = 1
          <6>1. stage[w] >= 1
            BY <5>1, <5>4 DEF Filled
          <6>2. now["observations"] = (stage[w] >= 1)
            <7>1. t = "observations"
              BY <4>2, <5>4, StagesAre
            <7>2. now["observations"] = Rows(w, "observations", read)
              BY <2>2, <7>1, Zenon
            <7>3. Rows(w, "observations", read) = (stage[w] >= 1)
              BY RowsAre, Zenon
            <7> QED BY <7>2, <7>3, Zenon
          <6>3. now["observations"]
            BY <6>1, <6>2, Zenon
          <6> QED BY <5>4, <6>3, Zenon DEF FilledIn
        <5>5. CASE i = 2
          BY <5>1, <5>2, <5>5, StagesAre, RowsAre DEF Filled, FilledIn
        <5>6. CASE i \in 3 .. 6 /\ i # 1 /\ i # 2 /\ i >= 3
          <6>1. Stages[i] \in Kinds
            BY <4>1, <5>6, StagesAre
          <6>2. Rows(w, Stages[i], read) = Derived(w, Stages[i])
            BY <6>1, RowsAre
          <6>3. Derived(w, Stages[i]) # {}
            BY <5>1, <5>6 DEF Filled
          <6> QED BY <5>2, <5>6, <6>2, <6>3 DEF FilledIn
        <5> QED BY <5>3, <5>4, <5>5, <5>6
      <4>3. CASE Stages[i] # t
        <5>1. Stages[i] \in DOMAIN read /\ now[Stages[i]] = read[Stages[i]]
          BY <2>2, <3>4, <4>3
        <5>2. FilledIn(read, i)
          BY <3>2, <5>1
        <5> QED BY <5>1, <5>2, StagesAre DEF FilledIn
      <4> QED BY <4>2, <4>3
    <3> QED BY <3>3, <3>4
  <2>9. SessionIsInOrder(r)
    BY <1>1, <1>2, <2>6, <2>7, <2>8 DEF SessionIsInOrder
  <2> QED BY <2>1, <2>9, SessionKeepsIInv DEF r
<1> QED BY <1>5, <1>6

\* A preview is shown, a token confirmed, a command over.
LEMMA AnswerKeepsIInv ==
  ASSUME IInv, NEW s \in Operators, Written(s) \/ Shown(s) \/ Confirm(s) \/ GiveUp(s)
  PROVE  IInv' /\ UNCHANGED db
<1> DEFINE old == session[s]
<1>0. SessionIsInOrder(old)
  BY DEF IInv
<1>1. CASE SessionIs(s, NoSession(NoPlan))
  BY <1>1, EndKeepsIInv
<1>2. CASE Shown(s)
  <2> DEFINE read == old.read
             plan == Plan(old.wf, read)
  <2>1. old.task = "preview" /\ Ready(s) /\ SessionIs(s, NoSession(plan))
    BY <1>2 DEF Shown
  <2>2. DOMAIN read = ManifestTables /\ read["workflow"] \in 0 .. 6 /\ old.wf \in Workflows
    <3>1. old.task \in Reading
      BY <2>1 DEF Reading
    <3>2. DOMAIN read = Range(ReadsOf(old.task))
      BY <1>0, <2>1, <3>1, NextTable
    <3>3. DOMAIN read = ManifestTables
      BY <2>1, <3>2, ManifestIs DEF ReadsOf
    <3>4. DOMAIN read # {}
      BY <3>3 DEF ManifestTables
    <3> QED BY <1>0, <2>1, <3>1, <3>3, <3>4 DEF SessionIsInOrder, ReadsAreInOrder
  <2>3. PlanOK(plan)
    <3>1. /\ plan.wf = old.wf /\ plan.offers \subseteq read["offers"]
          /\ plan.products \subseteq read["products"]
      BY DEF Plan
    <3>2. \A t \in ArchiveTables : plan.rows[t] = read[t]
      BY ArchiveIs DEF Plan
    <3>3. /\ plan.rows["workflow"] = read["workflow"] /\ plan.rows["offers"] = read["offers"]
          /\ plan.rows["products"] = read["products"]
      BY <3>2 DEF ArchiveTables
    <3> HIDE DEF plan
    <3> QED BY <2>2, <3>1, <3>3, StagesAre DEF PlanOK
  <2> QED BY <2>1, <2>3, EndKeepsIInv
<1>3. CASE old.task = "delete" /\ SessionIs(s, Session("confirmed", old.wf, old.shown))
  <2> DEFINE r == Session("confirmed", old.wf, old.shown)
  <2>1. /\ r = [task |-> r.task, wf |-> r.wf, read |-> r.read, shown |-> r.shown]
        /\ r.task = "confirmed" /\ r.wf = old.wf /\ r.read = NoReads /\ r.shown = old.shown
    BY DEF Session
  <2> HIDE DEF r
  <2>2. SessionIsInOrder(r)
    BY <1>0, <1>3, <2>1 DEF SessionIsInOrder, ReadsAreInOrder, ArchiveFollowsTrail, Reading
  <2> QED BY <1>3, <2>2, SessionKeepsIInv DEF r
<1> QED BY <1>1, <1>2, <1>3 DEF Written, Confirm, GiveUp

-------------------------------------------------------------------------------
(***************************************************************************)
(* The deletion.                                                           *)
(***************************************************************************)

\* It takes what its own transaction finds free, which is what was shown.
LEMMA CarryFacts ==
  ASSUME IInv, NEW s \in Operators, Carry(s)
  PROVE  LET w == session[s].wf
             shown == session[s].shown
         IN  /\ w \in Workflows /\ Exists(w) /\ stage' = [stage EXCEPT ![w] = Deleted]
             /\ shown.wf = w /\ shown.rows["workflow"] = stage[w]
             /\ shown.rows["evidence"] = EvidenceOf(w)
             /\ \A k \in Kinds : shown.rows[k] = Derived(w, k)
             /\ shown.offers = OffersTaken(w) /\ shown.products = ProductsTaken(w)
             /\ evidence' = OthersEvidence(w)
             /\ derived' = [v \in Workflows |-> IF v = w THEN {} ELSE derived[v]]
             /\ There' = There \ (OffersTaken(w) \union ProductsTaken(w))
             /\ References' = SubjectsOf(ForeignRows(w))
             /\ product' = [p \in Products |-> IF p \in ProductsTaken(w) THEN "gone" ELSE product[p]]
             /\ \A o \in Offers : offer'[o] \in {offer[o], "gone"}
             /\ offer' = [o \in Offers |-> offer'[o]]
             /\ session' = [session EXCEPT ![s] = NoSession(NoPlan)]
             /\ UNCHANGED <<job, imports>>
<1> DEFINE w == session[s].wf
           shown == session[s].shown
           read == ReadsNow(w)
           plan == Plan(w, read)
<1>1. /\ session[s].task = "confirmed" /\ Valid(read) /\ plan = shown
      /\ Cascade(w, plan.offers, plan.products)
      /\ session' = [session EXCEPT ![s] = NoSession(NoPlan)]
      /\ UNCHANGED <<job, imports>>
  BY DEF Carry
<1>2. w \in Workflows
  BY <1>1 DEF IInv, SessionIsInOrder
<1>3. /\ derived \in [Workflows -> SUBSET [kind : Kinds, subject : Subjects]]
      /\ derived[w] \subseteq [kind : Kinds, subject : Subjects]
  BY <1>2 DEF IInv, TypeOK
<1>4. /\ plan.wf = w /\ plan.offers = OffersTaken(w) /\ plan.products = ProductsTaken(w)
      /\ plan.rows["workflow"] = stage[w] /\ plan.rows["evidence"] = EvidenceOf(w)
      /\ \A k \in Kinds : plan.rows[k] = Derived(w, k)
  BY <1>2, <1>3, PlanFacts
<1>5. Exists(w)
  <2>1. read["workflow"] = stage[w] /\ "workflow" \in DOMAIN read
    BY <1>2, <1>3, ReadsNowFacts
  <2> QED BY <1>1, <2>1 DEF Valid, Exists
<1> HIDE DEF plan
<1>6. Cascade(w, OffersTaken(w), ProductsTaken(w))
  BY <1>1, <1>4
<1>7. /\ evidence' = OthersEvidence(w)
      /\ derived' = [v \in Workflows |-> IF v = w THEN {} ELSE derived[v]]
      /\ There' = There \ (OffersTaken(w) \union ProductsTaken(w))
      /\ References' = SubjectsOf(ForeignRows(w))
  BY <1>2, <1>3, <1>6, CascadeFacts DEF IInv
<1>8. /\ stage' = [stage EXCEPT ![w] = Deleted]
      /\ product' = [p \in Products |-> IF p \in ProductsTaken(w) THEN "gone" ELSE product[p]]
      /\ \A o \in Offers : offer'[o] \in {offer[o], "gone"}
      /\ offer' = [o \in Offers |-> offer'[o]]
  BY <1>6 DEF Cascade
<1> QED BY <1>1, <1>2, <1>4, <1>5, <1>7, <1>8

\* What stays without a reference has an offer that stays.
LEMMA CarryLeavesNothing == ASSUME IInv, NEW s \in Operators, Carry(s) PROVE NothingLeftBehind'
<1> DEFINE w == session[s].wf
           taken == OffersTaken(w) \union ProductsTaken(w)
           foreign == SubjectsOf(ForeignRows(w))
<1>1. /\ w \in Workflows /\ There' = There \ taken /\ References' = foreign
      /\ product' = [p \in Products |-> IF p \in ProductsTaken(w) THEN "gone" ELSE product[p]]
      /\ \A o \in Offers : offer'[o] \in {offer[o], "gone"}
  BY CarryFacts
<1>2. References \subseteq SubjectsOf(Own(w)) \union foreign
  <2>1. evidence \subseteq EvidenceOf(w) \union OthersEvidence(w)
    BY DEF EvidenceOf, OthersEvidence
  <2> QED BY <1>1, <2>1 DEF References, SubjectsOf, Own, ForeignRows
<1>3. Ingested' \subseteq Ingested /\ Ingested \subseteq There /\ Ingested' \subseteq There'
  BY <1>1 DEF Ingested, There
<1>4. ASSUME NEW o \in Ingested' \intersect Offers
      PROVE  o \in References'
  <2>1. o \in References /\ o \in There /\ o \notin taken
    BY <1>1, <1>3 DEF IInv, NothingLeftBehind
  <2> QED BY <1>1, <1>2, <2>1 DEF OffersTaken, OffersLinked
<1>5. ASSUME NEW p \in Ingested' \intersect Products, p \notin References'
      PROVE  \E o \in There' \intersect Offers : ProductOf[o] = p
  <2>1. p \in There /\ p \notin taken /\ p \notin foreign
    BY <1>1, <1>3, <1>5
  <2>2. p \in References \/ \E o \in There \intersect Offers : ProductOf[o] = p
    BY <1>3 DEF IInv, NothingLeftBehind
  <2>3. CASE p \in ProductsLinked(w)
    <3>1. PICK o \in There \intersect Offers : ProductOf[o] = p /\ o \notin OffersTaken(w)
      BY <2>1, <2>3 DEF ProductsTaken
    <3>2. o \notin ProductsTaken(w)
      BY <3>1, IdentifiersAssumption, ProductOfAssumption
      DEF ProductsTaken, ProductsLinked, OffersLinked
    <3> QED BY <1>1, <3>1, <3>2
  <2>4. CASE p \notin ProductsLinked(w)
    <3>1. p \notin SubjectsOf(Own(w))
      BY <2>4 DEF ProductsLinked
    <3>2. PICK o \in There \intersect Offers : ProductOf[o] = p
      BY <1>2, <2>1, <2>2, <3>1
    <3>3. o \notin OffersLinked(w)
      BY <2>4, <3>2 DEF ProductsLinked
    <3>4. o \notin ProductsTaken(w)
      BY <3>2, IdentifiersAssumption, ProductOfAssumption
      DEF ProductsTaken, ProductsLinked, OffersLinked
    <3> QED BY <1>1, <3>2, <3>3, <3>4 DEF OffersTaken
  <2> QED BY <2>3, <2>4
<1> QED BY <1>4, <1>5 DEF NothingLeftBehind

LEMMA CarryKeepsIInv == ASSUME IInv, NEW s \in Operators, Carry(s) PROVE IInv'
<1>1. PICK w \in Workflows :
      /\ Exists(w) /\ stage' = [stage EXCEPT ![w] = Deleted]
      /\ evidence' = OthersEvidence(w)
      /\ derived' = [v \in Workflows |-> IF v = w THEN {} ELSE derived[v]]
      /\ product' = [p \in Products |-> IF p \in ProductsTaken(w) THEN "gone" ELSE product[p]]
      /\ \A o \in Offers : offer'[o] \in {offer[o], "gone"}
      /\ offer' = [o \in Offers |-> offer'[o]]
      /\ session' = [session EXCEPT ![s] = NoSession(NoPlan)]
      /\ UNCHANGED <<job, imports>>
  BY CarryFacts
<1>2. /\ stage'[w] = Deleted /\ \A v \in Workflows : v # w => stage'[v] = stage[v]
      /\ stage' \in [Workflows -> Deleted .. 6]
  <2>1. stage \in [Workflows -> Deleted .. 6] /\ Deleted \in Deleted .. 6
    BY StagesAre DEF IInv, TypeOK, Deleted
  <2> QED BY <1>1, <2>1
<1>3. ~Exists(w)' /\ \A v \in Workflows : Exists(v)' => v # w /\ Exists(v)
  <2>1. ~Exists(w)'
    BY <1>2 DEF Exists
  <2>2. \A v \in Workflows : v # w => (Exists(v)' <=> Exists(v))
    BY <1>2 DEF Exists
  <2> QED BY <2>1, <2>2, Zenon
<1>4. ASSUME NEW op \in Operators
      PROVE  SessionIsInOrder(session[op])'
  <2>1. CASE op = s
    <3>1. session'[op] = NoSession(NoPlan)
      BY <1>1, <2>1 DEF IInv
    <3> DEFINE r == session'[op]
    <3>2. /\ r = [task |-> r.task, wf |-> r.wf, read |-> r.read, shown |-> r.shown]
          /\ r.task = "idle" /\ r.wf = Nobody /\ r.read = NoReads /\ r.shown = NoPlan
      BY <3>1 DEF NoSession, Session
    <3> HIDE DEF r
    <3>3. SessionIsInOrder(session[op])'
      BY <3>2 DEF r, SessionIsInOrder, ReadsAreInOrder, ArchiveFollowsTrail, Reading
    <3> QED BY <3>3
  <2>2. CASE op # s
    <3>1. session'[op] = session[op] /\ SessionIsInOrder(session[op])
      BY <1>1, <2>2 DEF IInv
    <3>2. ArchiveFollowsTrail(session[op])'
      <4> DEFINE r == session[op]
      <4>1. r.task = "export" => r.wf \in Workflows
        BY <3>1 DEF SessionIsInOrder
      <4>2. r.task = "export" /\ Exists(r.wf)' => Exists(r.wf) /\ stage'[r.wf] = stage[r.wf]
        <5> SUFFICES ASSUME NEW v \in Workflows, Exists(v)' PROVE Exists(v) /\ stage'[v] = stage[v]
          BY <3>1, <4>1
        <5> QED BY <1>2, <1>3
      <4> QED BY <3>1, <4>2 DEF SessionIsInOrder, ArchiveFollowsTrail, FilledIn
    <3> QED BY <3>1, <3>2 DEF SessionIsInOrder, ReadsAreInOrder, PlanOK
  <2> QED BY <2>1, <2>2
<1>5. session' = [op \in Operators |-> session'[op]]
  BY <1>1 DEF IInv
<1>6. TypeOK'
  <2>1. product' \in [Products -> Status] /\ offer' \in [Offers -> Status]
    BY <1>1 DEF IInv, TypeOK, Status
  <2>2. /\ evidence' \subseteq Evidence
        /\ derived' \in [Workflows -> SUBSET [kind : Kinds, subject : Subjects]]
    BY <1>1 DEF IInv, TypeOK, OthersEvidence
  <2>3. ASSUME NEW op \in Operators
        PROVE  /\ session'[op].task \in {"idle", "export", "preview", "delete", "confirmed"}
               /\ session'[op].wf \in IF session'[op].task = "idle" THEN {Nobody} ELSE Workflows
               /\ DOMAIN session'[op].read \subseteq Range(Manifest)
               /\ session'[op].shown # NoPlan => PlanOK(session[op].shown)'
    <3>1. CASE op = s
      <4>1. session'[op] = NoSession(NoPlan) /\ DOMAIN NoReads = {}
        BY <1>1, <3>1 DEF IInv, NoReads
      <4> QED BY <4>1 DEF NoSession, Session
    <3>2. CASE op # s
      <4>1. session'[op] = session[op]
        BY <1>1, <3>2 DEF IInv
      <4> QED BY <4>1 DEF IInv, TypeOK, PlanOK
    <3> QED BY <3>1, <3>2
  <2> QED BY <1>1, <1>2, <2>1, <2>2, <2>3, StagesAre DEF IInv, TypeOK
<1>7. ASSUME NEW v \in Workflows
      PROVE  JobIsInOrder(v)' /\ TrailHasRows(v)'
  <2>1. JobIsInOrder(v)'
    BY <1>1 DEF IInv, JobIsInOrder
  <2>2. CASE v = w
    BY <1>3, <2>1, <2>2 DEF TrailHasRows
  <2>3. CASE v # w
    <3>1. EvidenceOf(v)' = EvidenceOf(v)
      BY <1>1, <2>3 DEF EvidenceOf, OthersEvidence
    <3>2. \A k : Derived(v, k)' = Derived(v, k)
      BY <1>1, <2>3 DEF Derived
    <3>3. stage'[v] = stage[v]
      BY <1>2, <2>3
    <3>4. \A i : Filled(v, i)' = Filled(v, i)
      BY <3>1, <3>2, <3>3 DEF Filled
    <3> QED BY <2>1, <3>3, <3>4 DEF IInv, TrailHasRows, Exists
  <2> QED BY <2>2, <2>3
<1>8. OffersComeWithProducts'
  BY <1>1 DEF IInv, OffersComeWithProducts
<1>9. NothingLeftBehind'
  BY CarryLeavesNothing
<1> QED BY <1>4, <1>5, <1>6, <1>7, <1>8, <1>9 DEF IInv

-------------------------------------------------------------------------------
(***************************************************************************)
(* The theorems.                                                           *)
(***************************************************************************)

LEMMA InitIInv == ASSUME Init PROVE IInv
<1>1. /\ \A w \in Workflows : stage[w] = 0 /\ derived[w] = {} /\ job[w] = NoJob
      /\ \A p \in Products : product[p] = "unborn"
      /\ \A o \in Offers : offer[o] = "unborn"
      /\ evidence = {} /\ imports = 0
  BY DEF Init
<1>2. ASSUME NEW op \in Operators
      PROVE  /\ session[op] = [task |-> "idle", wf |-> Nobody, read |-> NoReads, shown |-> NoPlan]
             /\ DOMAIN NoReads = {}
  BY DEF Init, NoSession, Session, NoReads
<1>3. TypeOK
  <2>1. /\ stage \in [Workflows -> Deleted .. 6]
        /\ product \in [Products -> Status] /\ offer \in [Offers -> Status]
        /\ derived \in [Workflows -> SUBSET [kind : Kinds, subject : Subjects]]
    BY DEF Init, Deleted, Status
  <2>2. job \in [Workflows -> [stage : 0 .. 6, inputs : SUBSET Subjects]]
    BY DEF Init, NoJob
  <2>3. imports \in 0 .. MaxImports
    BY <1>1, BoundsAssumption
  <2> QED BY <1>1, <1>2, <2>1, <2>2, <2>3, StagesAre DEF TypeOK
<1>4. \A w \in Workflows : JobIsInOrder(w) /\ TrailHasRows(w)
  BY <1>1 DEF JobIsInOrder, TrailHasRows
<1>5. session = [s \in Operators |-> session[s]]
  BY DEF Init
<1>6. ASSUME NEW s \in Operators
      PROVE  SessionIsInOrder(session[s])
  BY <1>2 DEF SessionIsInOrder, ReadsAreInOrder, ArchiveFollowsTrail, Reading
<1>7. OffersComeWithProducts /\ NothingLeftBehind
  BY <1>1 DEF OffersComeWithProducts, NothingLeftBehind, Ingested
<1> QED BY <1>3, <1>4, <1>5, <1>6, <1>7 DEF IInv

\* Every step grows the database, or leaves it alone, or is a deletion.
LEMMA NextIsOneOf ==
  ASSUME IInv, [Next]_vars
  PROVE  IInv' /\ (Grows \/ UNCHANGED db \/ \E s \in Operators : Carry(s))
<1>1. CASE UNCHANGED vars
  <2>1. UNCHANGED <<stage, product, offer, evidence, derived, job, session, imports>>
    BY <1>1 DEF vars, db, catalog
  <2>2. \A w \in Workflows : JobIsInOrder(w)' /\ TrailHasRows(w)'
    BY <2>1 DEF IInv, JobIsInOrder, TrailHasRows, Filled, Exists, EvidenceOf, Derived
  <2>3. \A s \in Operators : SessionIsInOrder(session[s])'
    BY <2>1 DEF IInv, Exists, SessionIsInOrder, ReadsAreInOrder, ArchiveFollowsTrail, FilledIn, PlanOK
  <2>4. TypeOK' /\ OffersComeWithProducts'
    BY <2>1 DEF IInv, TypeOK, PlanOK, OffersComeWithProducts
  <2>5. NothingLeftBehind'
    BY <2>1 DEF IInv, NothingLeftBehind, References, SubjectsOf, Ingested, There
  <2> QED BY <2>1, <2>2, <2>3, <2>4, <2>5 DEF IInv, db, catalog
<1>2. CASE Import \/ \E w \in Workflows : Work(w)
  BY <1>2, ImportKeepsIInv, WorkKeepsIInv
<1>3. ASSUME NEW s \in Operators, Operate(s)
      PROVE  IInv' /\ (UNCHANGED db \/ Carry(s))
  BY <1>3, OpenKeepsIInv, SelectKeepsIInv, AnswerKeepsIInv, CarryKeepsIInv DEF Operate
<1> QED BY <1>1, <1>2, <1>3 DEF Next

\* The invariant is one (storage/data_lifecycle.py).
THEOREM DeletionInductive == Spec => []IInv
<1>1. IInv /\ [Next]_vars => IInv'
  BY NextIsOneOf
<1> QED BY InitIInv, <1>1, PTL DEF Spec

\* The rows, the stages under way and the commands keep their types, and a
\* token is always that of a workflow that was found (prepare_deletion()).
THEOREM DeletionTypeCorrect == Spec => []TypeOK
<1>1. IInv => TypeOK
  BY DEF IInv
<1> QED BY <1>1, DeletionInductive, PTL

\* What stages brought in does not outlive the references to it
\* (_deletion_selection).
THEOREM NothingIsLeft == Spec => []NothingLeftBehind
<1>1. IInv => NothingLeftBehind
  BY DEF IInv
<1> QED BY <1>1, DeletionInductive, PTL

\* An archive has the rows of every stage its own trail reports
\* (_load_validated).
THEOREM ArchivesAreCovered == Spec => []ArchiveCoversItsTrail
<1>1. IInv => ArchiveCoversItsTrail
  <2> SUFFICES ASSUME IInv, NEW s \in Operators, session[s].task = "export", Ready(s),
                      Exists(session[s].wf), NEW i \in 1 .. session[s].read["workflow"]
               PROVE  FilledIn(session[s].read, i)
    <3>1. Stages[1] = "observations"
      BY StagesAre
    <3> QED BY <3>1 DEF ArchiveCoversItsTrail, FilledIn
  <2> DEFINE r == session[s]
  <2>1. SessionIsInOrder(r) /\ r.task \in Reading
    BY DEF IInv, Reading
  <2>2. DOMAIN r.read = ArchiveTables
    <3>1. DOMAIN r.read = Range(ReadsOf(r.task))
      BY <2>1, NextTable
    <3> QED BY <3>1, ArchiveIs DEF ReadsOf
  <2>3. DOMAIN r.read # {}
    BY <2>2 DEF ArchiveTables
  <2>4. r.read["workflow"] \in 0 .. 6
    BY <2>1, <2>3 DEF SessionIsInOrder, ReadsAreInOrder
  <2>5. i \in 1 .. 6 /\ Stages[i] \in DOMAIN r.read
    BY <2>2, <2>4, StagesAre
  <2> QED BY <2>1, <2>3, <2>5 DEF SessionIsInOrder, ArchiveFollowsTrail
<1> QED BY <1>1, DeletionInductive, PTL

\* A deletion takes no catalog row that a row of another workflow, or of none,
\* refers to, and no row of another workflow goes with the products it takes
\* (_external_references, _deletion_selection, the cascades of tables.py).
THEOREM SharedRowsAreKept == Spec => DeletionKeepsSharedRows
<1> DEFINE Kept == /\ (There \ There') \intersect References' = {}
                   /\ \A w \in Workflows : Exists(w)' => derived[w] \subseteq derived[w]'
<1>1. IInv /\ [Next]_vars => Kept
  <2> SUFFICES ASSUME IInv, [Next]_vars PROVE Kept
    OBVIOUS
  <2>1. CASE Grows
    BY <2>1 DEF Grows
  <2>2. CASE UNCHANGED db
    <3>1. UNCHANGED <<product, offer, derived>>
      BY <2>2 DEF db, catalog
    <3>2. There' = There
      BY <3>1 DEF There, Ingested
    <3> QED BY <3>1, <3>2
  <2>3. ASSUME NEW s \in Operators, Carry(s)
        PROVE  Kept
    <3>1. PICK w \in Workflows :
          /\ stage' = [stage EXCEPT ![w] = Deleted]
          /\ There' = There \ (OffersTaken(w) \union ProductsTaken(w))
          /\ References' = SubjectsOf(ForeignRows(w))
          /\ derived' = [v \in Workflows |-> IF v = w THEN {} ELSE derived[v]]
      BY <2>3, CarryFacts
    <3>2. (There \ There') \intersect References' = {}
      BY <3>1 DEF OffersTaken, ProductsTaken
    <3>3. ~Exists(w)'
      <4>1. stage'[w] = Deleted
        BY <3>1 DEF IInv, TypeOK
      <4> QED BY <4>1 DEF Exists
    <3>4. ASSUME NEW v \in Workflows, Exists(v)'
          PROVE  derived[v] \subseteq derived[v]'
      <4>1. v # w
        BY <3>3, <3>4
      <4> QED BY <3>1, <4>1
    <3> QED BY <3>2, <3>4
  <2> QED BY <2>1, <2>2, <2>3, NextIsOneOf
<1> QED BY <1>1, DeletionInductive, PTL DEF Spec, DeletionKeepsSharedRows

\* The database loses what the operator was shown, to the row (delete()).
THEOREM ShownIsDeleted == Spec => DeletesWhatWasShown
<1> DEFINE Lost == UNION {derived[w] \ derived'[w] : w \in Workflows}
           AsShown(shown) ==
             /\ stage[shown.wf] = shown.rows["workflow"]
             /\ evidence \ evidence' = shown.rows["evidence"]
             /\ Lost = UNION {shown.rows[k] : k \in Kinds}
             /\ There \ There' = shown.offers \union shown.products
           Kept == \A s \in Operators :
             session[s].task = "confirmed" /\ stage' # stage /\ session[s]' # session[s] =>
               AsShown(session[s].shown)
<1>1. IInv /\ [Next]_vars => Kept
  <2> SUFFICES ASSUME IInv, [Next]_vars, NEW op \in Operators, stage' # stage,
                      session'[op] # session[op]
               PROVE  AsShown(session[op].shown)
    OBVIOUS
  <2>1. PICK s \in Operators : Carry(s)
    <3>1. ~Grows
      BY DEF Grows
    <3>2. ~UNCHANGED db
      BY DEF db
    <3> QED BY <3>1, <3>2, NextIsOneOf
  <2> DEFINE w == session[s].wf
             shown == session[s].shown
  <2>2. /\ w \in Workflows /\ shown.wf = w /\ shown.rows["workflow"] = stage[w]
        /\ shown.rows["evidence"] = EvidenceOf(w)
        /\ \A k \in Kinds : shown.rows[k] = Derived(w, k)
        /\ shown.offers = OffersTaken(w) /\ shown.products = ProductsTaken(w)
        /\ evidence' = OthersEvidence(w)
        /\ derived' = [v \in Workflows |-> IF v = w THEN {} ELSE derived[v]]
        /\ There' = There \ (OffersTaken(w) \union ProductsTaken(w))
        /\ session' = [session EXCEPT ![s] = NoSession(NoPlan)]
    BY <2>1, CarryFacts
  <2>3. op = s
    BY <2>2 DEF IInv
  <2> HIDE DEF w, shown
  <2>4. evidence \ evidence' = EvidenceOf(w)
    BY <2>2 DEF EvidenceOf, OthersEvidence
  <2>5. Lost = derived[w] /\ UNION {shown.rows[k] : k \in Kinds} = derived[w]
    <3>1. Lost = derived[w]
      BY <2>2
    <3>2. \A r \in derived[w] : r.kind \in Kinds
      BY <2>2 DEF IInv, TypeOK
    <3>3. UNION {Derived(w, k) : k \in Kinds} = derived[w]
      BY <3>2 DEF Derived
    <3>4. {shown.rows[k] : k \in Kinds} = {Derived(w, k) : k \in Kinds}
      BY <2>2
    <3> QED BY <3>1, <3>3, <3>4
  <2>6. There \ There' = OffersTaken(w) \union ProductsTaken(w)
    BY <2>2 DEF OffersTaken, ProductsTaken
  <2>7. AsShown(shown)
    BY <2>2, <2>4, <2>5, <2>6
  <2> QED BY <2>3, <2>7 DEF shown
<1> QED BY <1>1, DeletionInductive, PTL DEF Spec, DeletesWhatWasShown
===============================================================================
