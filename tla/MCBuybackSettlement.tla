------------------------- MODULE MCBuybackSettlement -------------------------
(* Instances of BuybackSettlement for TLC. *)
EXTENDS BuybackSettlement, TLC

\* Every account starts with one unit of every token.
MCInitBalance == [a \in Account |-> [t \in Token |-> 1]]

OneSig == 1..1
TwoSigs == 1..2
ThreeSigs == 1..3

\* Overlapping rounds run the same code.
CheckerSymmetry == Permutations(Checker)
=============================================================================
