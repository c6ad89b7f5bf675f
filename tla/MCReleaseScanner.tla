-------------------------- MODULE MCReleaseScanner --------------------------
(* ReleaseScanner on small instances.                                      *)
EXTENDS ReleaseScanner, TLC

CONSTANTS r1, r2, u1

\* Everyone subscribes to one repository.
OneRepository == [u \in Subscription |-> r1]

\* One subscriber has another repository.
TwoRepositories == [u \in Subscription |-> IF u = u1 THEN r2 ELSE r1]

\* Scans, replicas and the subscribers of one repository are interchangeable.
Symmetry == Permutations(Scan) \cup Permutations(Replica) \cup Permutations(Subscription)
=============================================================================
