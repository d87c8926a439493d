----------------------------- MODULE PageVisits -----------------------------
(***************************************************************************)
(* PageAccess with an observer at the sites: how long ago each host was    *)
(* last visited.  ControlledPageCollector paces the calls it makes;        *)
(* BrowserManager.open then awaits the policy and its page before the      *)
(* request leaves.                                                         *)
(***************************************************************************)
EXTENDS PageAccess

VARIABLE unvisited  \* host -> time since page.goto was last called, at most MinInterval

visits == <<vars, unvisited>>

VisitsInit == Init /\ unvisited = [h \in Hosts |-> MinInterval]

Visits(h) ==
  \E j \in Jobs : Phase(j) = "turn" /\ Phase(j)' = "loading" /\ Host(j) = h

VisitsNext ==
  \/ Tick /\ unvisited' = [h \in Hosts |-> Older(unvisited[h])]
  \/ /\ (\E c \in Callers : CallerStep(c)) \/ (\E j \in Jobs : JobStep(j))
     /\ unvisited' = [h \in Hosts |-> IF Visits(h) THEN 0 ELSE unvisited[h]]

VisitsSpec == VisitsInit /\ [][VisitsNext]_visits

\* What the quick start promises: two visits to one host are at least the
\* interval apart.
VisitsPaced == [][\A h \in Hosts : Visits(h) => unvisited[h] >= MinInterval]_visits
=============================================================================
