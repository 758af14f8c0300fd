-------------------------- MODULE MCVerdictRunner --------------------------
(* Two pairs of the same coins on two sources, sharing a token row.        *)
EXTENDS VerdictRunner, TLC

CONSTANTS p1, p2, t1, r1, r2, k1, s1, s2

OnePair     == {p1}
TwoPairs    == {p1, p2}
OneToken    == {t1}
NoToken     == {}
SameKey     == [p \in TwoPairs |-> k1]
TwoSources  == [p \in TwoPairs |-> IF p = p1 THEN s1 ELSE s2]
SharedToken == [p \in Pair |-> Token]

Symmetry == Permutations({r1, r2})
=============================================================================
