------------------------- MODULE GrantPropagationMC -------------------------
\* Small instances of GrantPropagation for TLC.
EXTENDS GrantPropagation, TLC

CONSTANTS c1, c2, b1, b2

\* Every consumer belongs to the same bot; a second bot may be linked besides.
SameBot == [c \in Consumers |-> b1]

Symmetry == Permutations(Workers) \union Permutations(Unlinks)
=============================================================================
