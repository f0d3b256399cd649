----------------------------- MODULE MCDividend -----------------------------
(* Instances of Dividend for TLC. *)
EXTENDS Dividend

\* A chain: 3 under 2, 1 under 3, and 4 joins later.  Account 1 has paid, so one
\* market is enough to make 3 a V1 and 2 a V2.
MCInitParent == [a \in 1..3 |-> CASE a = 2 -> None [] a = 3 -> 2 [] a = 1 -> 3]
MCInitBought == [a \in 1..3 |-> IF a = 1 THEN 1 ELSE 0]

\* Account 1 is a V1 by hand and 4 the only node; no node has level 2.
MCManualVip == [a \in Account |-> IF a = 1 THEN 1 ELSE 0]
MCNodeLevel == [a \in Account |-> IF a = 4 THEN 1 ELSE 0]

MCKinds == <<"vip", "node">>
MCFeeBp == [k \in {"vip", "node"} |-> IF k = "node" THEN 2000 ELSE 0]
MCRuleGroup == {<<5000, 5000>>, <<10000, 5000>>, <<7000, 3000>>}
=============================================================================
