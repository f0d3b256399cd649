--------------------------- MODULE MCConfigUpdates ---------------------------
(* Instances of ConfigUpdates for TLC. *)
EXTENDS ConfigUpdates

MCInitial ==
  [k \in ConfigKey |->
     IF k \in {"COMMISSION_HIGH_MINER_PRICE_WEI", "BUYBACK_SELL_DEFAULT_PRICE"}
     THEN 2 ELSE 1]

\* The administrators update the two withdrawal fees.
FeeValues == [k \in FeeKey |-> 0..3]
=============================================================================
