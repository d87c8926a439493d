----------------------------- MODULE LocalCommands -----------------------------
(***************************************************************************)
(* What runs on the user's machine besides the workflow: the commands that *)
(* write local files, and assisted collection from the inbox.  They share  *)
(* no file (the data directory, the configuration of Claude Desktop and    *)
(* the inbox are different places), so that a step of one leaves the other *)
(* alone.                                                                  *)
(***************************************************************************)
EXTENDS LocalFiles, SavedPages

vars == <<filesVars, pagesVars>>

Init == FilesInit /\ PagesInit

Next ==
    \/ FilesNext /\ UNCHANGED pagesVars
    \/ PagesNext /\ UNCHANGED filesVars

Spec == Init /\ [][Next]_vars

TypeOK == FilesTypeOK /\ PagesTypeOK
===============================================================================
