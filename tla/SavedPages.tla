------------------------------ MODULE SavedPages ------------------------------
(***************************************************************************)
(* Assisted collection: the user saves pages into the inbox, a tool lists  *)
(* the pages that are still missing (sourcing/assisted.py), and the        *)
(* collection stage reads them in place of a browser                       *)
(* (sourcing/browser/saved_pages.py, discovery.py, details.py,             *)
(* collection.py).  The inbox is scanned again for every page, and the     *)
(* user goes on saving and removing files while it is.                     *)
(*                                                                         *)
(* A file is a record: path (a number, in the order of the names), key     *)
(* (the page's identity on the platform, Absent when the file has no page  *)
(* in it), captured (a number) and candidates, the keys a search page      *)
(* leads to, Absent when it asks for verification.  A product page says    *)
(* with candidates = <<>> that it can be read, with Absent that it cannot. *)
(***************************************************************************)
EXTENDS Naturals, Sequences, FiniteSets

CONSTANTS
    Pages,            \* the files the user may save
    Keys,             \* the identities a page may have
    SearchKey,        \* the identity of the request's search page
    MaxSavedPages,    \* MAXIMUM_SAVED_PAGES
    MaxCandidates,    \* what the caller asks for: 1 .. 100 candidates
    MaxDetails,       \* and 1 .. MaxCandidates product pages of them
    Absent

(***************************************************************************)
(* What is given: names and captures are ordered, no two files have one    *)
(* name, and Absent is nothing else.                                       *)
(***************************************************************************)
PagesAreGiven ==
    /\ IsFiniteSet(Pages)
    /\ MaxSavedPages \in Nat /\ MaxCandidates \in Nat \ {0} /\ MaxDetails \in 1 .. MaxCandidates
    /\ \A page \in Pages :
          /\ page.path \in Nat /\ page.captured \in Nat
          /\ page.candidates # Absent => page.candidates \in Seq(Keys)
    /\ \A page, other \in Pages : page.path = other.path => page = other
    /\ Absent \notin BOOLEAN

ASSUME PagesAssumption == PagesAreGiven

VARIABLES
    inbox,       \* the files in it
    private,     \* whether it is a private directory
    call,        \* the call that is running: at, wanted, saved
    ready,       \* what the last plan said, Absent when it failed
    outcome,     \* what the collection after it came to
    disturbed    \* history: since that plan began a file was removed, a search
                 \* page was saved, one page more than the limit was, or
                 \* the inbox was opened to others

pagesVars == <<inbox, private, call, ready, outcome, disturbed>>
-------------------------------------------------------------------------------
\* The first so many files in the order of their names.
Considered(files) ==
    {file \in files : Cardinality({other \in files : other.path < file.path}) < MaxSavedPages}

(***************************************************************************)
(* SavedPageCollector.saved_pages, at one key: the newest capture, and of  *)
(* equally new ones the first.                                             *)
(***************************************************************************)
Found(key) ==
    LET found == {file \in Considered(inbox) : file.key = key}
    IN  {file \in found : \A other \in found \ {file} :
            \/ other.captured < file.captured
            \/ other.captured = file.captured /\ file.path < other.path}

IsSaved(key) == Found(key) # {}
Page(key) == CHOOSE file \in Found(key) : TRUE

FirstOf(seq, n) == SubSeq(seq, 1, IF Len(seq) < n THEN Len(seq) ELSE n)

\* parse_search keeps so many candidates; the first of them are looked up.
Wanted(page) == FirstOf(FirstOf(page.candidates, MaxCandidates), MaxDetails)
-------------------------------------------------------------------------------
Nothing == [at |-> "idle", wanted |-> <<>>, saved |-> {}]

PagesInit ==
    /\ inbox = {}
    /\ private \in BOOLEAN
    /\ call = Nothing
    /\ ready = Absent
    /\ outcome = Absent
    /\ disturbed = FALSE

Save(file) ==
    /\ file \notin inbox
    /\ inbox' = inbox \cup {file}
    /\ disturbed' = (disturbed \/ file.key = SearchKey \/ Cardinality(inbox') > MaxSavedPages)
    /\ UNCHANGED <<private, call, ready, outcome>>

Remove(file) ==
    /\ file \in inbox
    /\ inbox' = inbox \ {file}
    /\ disturbed' = TRUE
    /\ UNCHANGED <<private, call, ready, outcome>>

Protect ==
    /\ ~private
    /\ private' = TRUE
    /\ UNCHANGED <<inbox, call, ready, outcome, disturbed>>

Expose ==
    /\ private
    /\ private' = FALSE
    /\ disturbed' = TRUE
    /\ UNCHANGED <<inbox, call, ready, outcome>>

Go(at, wanted, saved) ==
    /\ call' = [at |-> at, wanted |-> wanted, saved |-> saved]
    /\ UNCHANGED <<inbox, private, ready, outcome, disturbed>>

Planned(result) ==
    /\ call' = Nothing
    /\ ready' = result
    /\ UNCHANGED <<inbox, private, outcome, disturbed>>

Collected(result) ==
    /\ call' = Nothing
    /\ outcome' = result
    /\ UNCHANGED <<inbox, private, ready, disturbed>>

\* Mutant: an inbox that others can read is taken for an empty one.
PlanOfAnyInbox ==
    /\ call.at = "idle"
    /\ ready' = IF IsSaved(SearchKey) THEN Absent ELSE FALSE
    /\ call' = IF IsSaved(SearchKey) THEN [Nothing EXCEPT !.at = "plan search"] ELSE Nothing
    /\ outcome' = Absent
    /\ disturbed' = FALSE
    /\ UNCHANGED <<inbox, private>>

(***************************************************************************)
(* SavedPagePlanner.plan: is the search page saved, ...                    *)
(***************************************************************************)
Plan ==
    /\ call.at = "idle"
    /\ ready' = IF private /\ ~IsSaved(SearchKey) THEN FALSE ELSE Absent
    /\ call' = IF private /\ IsSaved(SearchKey) THEN [Nothing EXCEPT !.at = "plan search"]
               ELSE Nothing
    /\ outcome' = Absent
    /\ disturbed' = FALSE
    /\ UNCHANGED <<inbox, private>>

\* Mutant: a plan that needs no product page is ready.
PlanSearchVacuously ==
    /\ call.at = "plan search"
    /\ IF ~private \/ ~IsSaved(SearchKey) \/ Page(SearchKey).candidates = Absent
       THEN Planned(Absent)
       ELSE IF Wanted(Page(SearchKey)) = <<>> THEN Planned(TRUE)
       ELSE Go("plan details", Wanted(Page(SearchKey)), {})

\* ... which products does it lead to (another scan: it may be gone), ...
PlanSearch ==
    /\ call.at = "plan search"
    /\ IF ~private \/ ~IsSaved(SearchKey) \/ Page(SearchKey).candidates = Absent
       THEN Planned(Absent)
       ELSE IF Wanted(Page(SearchKey)) = <<>> THEN Planned(FALSE)
       ELSE Go("plan details", Wanted(Page(SearchKey)), {})

\* ... and is the page of each saved, one scan after the other.
PlanDetail ==
    LET key == Head(call.wanted)
        saved == call.saved \cup {IsSaved(key)}
    IN  /\ call.at = "plan details"
        /\ IF ~private THEN Planned(Absent)
           ELSE IF Len(call.wanted) = 1 THEN Planned(saved = {TRUE})
           ELSE Go("plan details", Tail(call.wanted), saved)

(***************************************************************************)
(* SearchDetailCollectionService.collect, through the discovery and detail *)
(* services: a page that is missing is named to the user, and nothing is   *)
(* committed.                                                              *)
(***************************************************************************)
Collect ==
    /\ call.at = "idle"
    /\ outcome = Absent
    /\ IF ~private THEN Collected("inbox_not_private")
       ELSE IF ~IsSaved(SearchKey) THEN Collected("page_not_saved")
       ELSE IF Page(SearchKey).candidates = Absent THEN Collected("search_refused")
       ELSE IF Page(SearchKey).candidates = <<>> THEN Collected("no_candidates")
       ELSE Go("collect details", Wanted(Page(SearchKey)), {})

CollectDetail ==
    LET key == Head(call.wanted)
    IN  /\ call.at = "collect details"
        /\ IF ~private THEN Collected("inbox_not_private")
           ELSE IF ~IsSaved(key) THEN Collected("page_not_saved")
           ELSE IF Page(key).candidates = Absent THEN Collected("detail_refused")
           ELSE IF Len(call.wanted) = 1 THEN Collected("details_collected")
           ELSE Go("collect details", Tail(call.wanted), {})

PagesNext ==
    \/ \E file \in Pages : Save(file) \/ Remove(file)
    \/ Protect \/ Expose
    \/ Plan \/ PlanSearch \/ PlanDetail
    \/ Collect \/ CollectDetail

PagesSpec == PagesInit /\ [][PagesNext]_pagesVars
-------------------------------------------------------------------------------
PagesTypeOK ==
    /\ inbox \subseteq Pages
    /\ private \in BOOLEAN /\ disturbed \in BOOLEAN
    /\ call.at \in {"idle", "plan search", "plan details", "collect details"}
    /\ Len(call.wanted) \in 0 .. MaxDetails
    /\ call.saved \subseteq BOOLEAN
    /\ call.wanted = <<>> <=> call.at \in {"idle", "plan search"}
    /\ ready \in BOOLEAN \cup {Absent}
    /\ ready # Absent => private \/ disturbed
    /\ outcome # Absent => outcome \in {"inbox_not_private", "page_not_saved", "search_refused",
                                      "no_candidates", "detail_refused", "details_collected"}

(***************************************************************************)
(* A plan that is ready is kept: the collection after it finds every page  *)
(* it asks for, although plan and collection scan the inbox page by page   *)
(* and derive the product pages separately (assisted.py:59-79,             *)
(* collection.py:142-160).  What may spoil it is a removed file, a newer   *)
(* search page, an inbox opened to others, or one page too many in it,     *)
(* which makes the last ones by name invisible (saved_pages.py:127-129);   *)
(* product pages saved in the meantime do not.                             *)
(***************************************************************************)
ReadyPlanCollects ==
    ready = TRUE /\ ~disturbed /\ outcome # Absent =>
        outcome \in {"details_collected", "detail_refused"}
===============================================================================
