---------------------------- MODULE ConfigUpdates ----------------------------
(***************************************************************************)
(* updateConfig of admin.service.ts against the readers of config.service. *)
(*                                                                         *)
(* Each call updates one key in a READ COMMITTED transaction: it validates *)
(* the value against the row of the related key, read without a lock, and  *)
(* saves.  Only keys that some reader relates to another key are modelled. *)
(***************************************************************************)
EXTENDS Naturals

CONSTANTS
  Admin,    \* administrators' calls that may be under way together
  Key,      \* the keys they update, a set of keys below
  Value,    \* [Key -> values a request may carry]
  Initial,  \* the config table at the start
  BP        \* 10000, the whole in basis points

FeeKey == {"VIP_FEE_BP", "NODE_FEE_BP"}
ThresholdKey == {"COMMISSION_MID_MINER_PRICE_WEI", "COMMISSION_HIGH_MINER_PRICE_WEI"}
PriceKey == {"BUYBACK_SELL_DEFAULT_PRICE", "BUYBACK_SELL_FIXED_PRICE"}
ConfigKey == FeeKey \cup ThresholdKey \cup PriceKey

\* What the readers require of keys they read together.
FeesFit(t) == t["VIP_FEE_BP"] + t["NODE_FEE_BP"] <= BP

ThresholdsOrdered(t) ==
  t["COMMISSION_MID_MINER_PRICE_WEI"] < t["COMMISSION_HIGH_MINER_PRICE_WEI"]

PricesOrdered(t) ==
  t["BUYBACK_SELL_FIXED_PRICE"] <= t["BUYBACK_SELL_DEFAULT_PRICE"]

VARIABLES
  table,   \* [ConfigKey -> value], the config table
  call     \* [Admin -> the updateConfig call that is running]

vars == <<table, call>>

NoCall == [pc |-> "idle"]

Init ==
  /\ table = Initial
  /\ call = [p \in Admin |-> NoCall]
-----------------------------------------------------------------------------
\* The value alone: basis points are a share, the others are positive.
InRange(k, v) == IF k \in FeeKey THEN v <= BP ELSE v > 0

\* The value next to the related key as the table has it.
validateConfigValue(k, v) ==
  LET new == [table EXCEPT ![k] = v]
  IN /\ InRange(k, v)
     /\ k \in FeeKey => FeesFit(new)
     /\ k \in ThresholdKey => ThresholdsOrdered(new)
     /\ k \in PriceKey => PricesOrdered(new)

Validate(p) ==
  /\ call[p].pc = "idle"
  /\ \E k \in Key : \E v \in Value[k] :
       /\ validateConfigValue(k, v)
       /\ call' = [call EXCEPT ![p] = [pc |-> "save", key |-> k, value |-> v]]
  /\ UNCHANGED table

\* The save and the commit.
Save(p) ==
  /\ call[p].pc = "save"
  /\ table' = [table EXCEPT ![call[p].key] = call[p].value]
  /\ call' = [call EXCEPT ![p] = NoCall]

Next == \E p \in Admin : Validate(p) \/ Save(p)

Spec == Init /\ [][Next]_vars
-----------------------------------------------------------------------------
\* getWithdrawFeeBps does not throw: the two fees are at most the whole.
FeesReadable == FeesFit(table)
=============================================================================
