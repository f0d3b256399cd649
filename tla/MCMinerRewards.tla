--------------------------- MODULE MCMinerRewards ---------------------------
(* Instances of MinerRewards for TLC. *)
EXTENDS MinerRewards, TLC

CONSTANTS top, sub, m1

\* One account invited the other.
MCRelation == {[superior |-> top, subordinate |-> sub, level |-> 1]}

\* Rates are 2 and 4 a second over the first cycle, 1 and 2 over the second.
MCPrice == [m \in Miner |-> 20]
MCExpected == [m \in Miner |-> 3]

\* The ratios at the start.
MCInitBp == <<2000, 4000>>

\* The free miner is the upper account's; the lower one reinvests.  The upper one
\* is given a unit, from nowhere or from the lower one.
MCMinedAt == [a \in Account |-> IF a = top THEN {0} ELSE {}]
MCMaxPurchases == [a \in Account |-> IF a = top THEN 1 ELSE 2]
MCMaxIn == [a \in Account |-> IF a = top THEN 4 ELSE 0]
MCMaxOut == [a \in Account |-> IF a = top THEN 0 ELSE 4]

\* Overlapping claims run the same code.
ClaimerSymmetry == Permutations(Claimer)
=============================================================================
