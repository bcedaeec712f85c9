---------------------------- MODULE MCAutoMerge ----------------------------
(* Instances of AutoMerge for TLC.                                          *)
EXTENDS AutoMerge, TLC

CONSTANT LargeRows  \* cards whose ledger row takes twice the room of another's

MCRowSize == [c \in Cards |-> IF c \in LargeRows THEN 2 ELSE 1]

\* Cards that no constant singles out are interchangeable.
CardSymmetry == {p \in Permutations(Cards) :
                    \A c \in Cards : c \in LargeRows <=> p[c] \in LargeRows}
=============================================================================
