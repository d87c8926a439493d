----------------------------- MODULE MCLocalFiles -----------------------------
(***************************************************************************)
(* Exports, refreshes, installs and the inbox share no file, so that one   *)
(* scenario at a time has every interleaving there is.  Of installs there  *)
(* are two: of one entry or another with one change by the user, and of    *)
(* one entry with every change there may be.                               *)
(***************************************************************************)
EXTENDS LocalCommands, TLC

VARIABLE scenario

File(path, key, captured, candidates) ==
    [path |-> path, key |-> key, captured |-> captured, candidates |-> candidates]

\* Two captures of the search page, one that asks for verification, and one
\* without results; product pages twice, one of them unreadable; no page at all.
MCPages ==
    { File(1, "item 1", 1, <<>>), File(2, Absent, 1, <<>>),
      File(3, "search", 1, <<"item 1", "item 2", "item 3">>),
      File(4, "search", 2, <<"item 2", "item 3", "item 1">>),
      File(5, "item 2", 1, <<>>), File(6, "item 3", 2, Absent), File(7, "item 3", 2, <<>>),
      File(8, "search", 2, <<>>), File(9, "search", 3, Absent), File(10, "item 1", 2, <<>>) }

MCInit ==
    /\ Init
    /\ scenario \in {"export", "refresh", "install", "change", "inbox"}
    /\ scenario = "inbox" \/ private

Kind == IF scenario = "change" THEN "install" ELSE scenario
OneEntry == CHOOSE entry \in Entries : TRUE

MCNext ==
    /\ UNCHANGED scenario
    /\ \/ /\ FilesNext
          /\ \A c \in Clients : job'[c].kind \in {None, Kind}
          /\ scenario # "change" => edits' <= 1
          /\ scenario = "change" => \A c \in Clients : job'[c].entry \in {None, OneEntry}
          /\ scenario # "inbox"
          /\ UNCHANGED pagesVars
       \/ /\ scenario = "inbox"
          /\ PagesNext
          /\ UNCHANGED filesVars

MCSpec == MCInit /\ [][MCNext]_<<vars, scenario>>

Symmetry == Permutations(Clients) \cup Permutations(Backups)
===============================================================================
