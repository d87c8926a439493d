---------------------------- MODULE MCPageVisits ----------------------------
EXTENDS PageVisits

CONSTANT item   \* one host is enough: the wait for the policy varies

MCHostOf == [u \in Urls |-> item]
=============================================================================
