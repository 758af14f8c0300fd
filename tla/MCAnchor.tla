------------------------------ MODULE MCAnchor ------------------------------
EXTENDS Anchor, Merkle

\* Neither the pairs nor the calls differ in anything the model says of them.
Alike == Permutations(Pair) \cup Permutations(Reader)

\* The memo is followed while no facts are looked at; every set of facts has a
\* state of its own, in which its tree is.
MCInit == Init /\ \/ facts = Unread
                  \/ verified = {} /\ tree = "pairs" /\ facts \in Facts
MCNext == facts = Unread /\ Next /\ UNCHANGED facts
MCSpec == MCInit /\ [][MCNext]_<<vars, facts>>
=============================================================================
