------------------------- MODULE MCMiningSignatures -------------------------
(* Instances of MiningSignatures for TLC. *)
EXTENDS MiningSignatures

TwoSigs == 1..2

\* In SPACE the price of a miner, so that a withdrawal leaves a mixed purchase
\* less than the price to hold and an internal one nothing to be paid from.
MCInitBalance == [a \in Account |-> [t \in Token |-> IF t = "SPACE" THEN 2 ELSE 1]]
MCOffer == {[price |-> 2, reward |-> 1]}
=============================================================================
