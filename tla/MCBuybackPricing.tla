--------------------------- MODULE MCBuybackPricing ---------------------------
(* Instances of BuybackPricing for TLC. *)
EXTENDS BuybackPricing

\* Five price steps over two tiers, the second one reaching the fixed price.
Stepped ==
  [defaultPrice |-> 11, tier1EndAmount |-> 4, tier1StepAmount |-> 2,
   tier1StepDecrease |-> 2, tier2EndAmount |-> 10, tier2StepAmount |-> 3,
   tier2StepDecrease |-> 1, fixedPrice |-> 5, dailyMaxAmount |-> 13,
   tier1BurnBp |-> 2500, tier2BurnBp |-> 5000, tier3BurnBp |-> 8000]

\* A first tier whose decrease passes zero: the price stays at its floor.
Steep ==
  [Stepped EXCEPT !.tier1StepAmount = 1, !.tier1StepDecrease = 6, !.fixedPrice = 3,
                  !.tier1BurnBp = 10000, !.tier2BurnBp = 0]

Rising ==
  [defaultPrice |-> 5, firstStepAmount |-> 3, firstStepIncrease |-> 4,
   stepAmount |-> 2, stepIncrease |-> 3]

SellConfigs == {Stepped, Steep}
MakerConfigs == {Rising}
=============================================================================
