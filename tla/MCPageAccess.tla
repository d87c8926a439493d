---------------------------- MODULE MCPageAccess ----------------------------
EXTENDS PageAccess, TLC

CONSTANTS search, item, s1, i1, i2   \* two hosts, one search and two item pages

MCHosts == {search, item}
MCUrls == {s1, i1, i2}
MCHostOf == [u \in MCUrls |-> IF u = s1 THEN search ELSE item]

Symmetry ==
  Permutations(Callers) \union Permutations(Jobs) \union Permutations({i1, i2})
=============================================================================
