------------------------- MODULE MCSubscriptionSaga -------------------------
(* SubscriptionSaga on small instances.                                    *)
EXTENDS SubscriptionSaga, TLC

CONSTANTS p1

\* Every request asks for the same pair: the case in which they collide.
OnePair == [q \in Request |-> p1]

\* Requests, sweeps and visitors are interchangeable then.
Symmetry == Permutations(Request) \cup Permutations(Sweep) \cup Permutations(Visitor)
=============================================================================
