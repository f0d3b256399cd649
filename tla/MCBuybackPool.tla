---------------------------- MODULE MCBuybackPool ----------------------------
(* Instances of BuybackPool for TLC, priced by BuybackQuotes. *)
EXTENDS PoolViews, TLC

\* Sells at 6, 4 and 3 with the steps of one unit, buys at 7 and then more.
SellCurve ==
  [defaultPrice |-> 6, tier1EndAmount |-> 1, tier1StepAmount |-> 1,
   tier1StepDecrease |-> 2, tier2EndAmount |-> 2, tier2StepAmount |-> 1,
   tier2StepDecrease |-> 1, fixedPrice |-> 3, dailyMaxAmount |-> 3,
   tier1BurnBp |-> 5000, tier2BurnBp |-> 10000, tier3BurnBp |-> 0]

MakerCurve ==
  [defaultPrice |-> 7, firstStepAmount |-> 1, firstStepIncrease |-> 1,
   stepAmount |-> 1, stepIncrease |-> 1]

Usual ==
  [enabled |-> TRUE, sellFeeBp |-> 2500, dailyMaxAmount |-> 3, subsidyBp |-> 5000,
   sell |-> SellCurve, maker |-> MakerCurve]

\* The administrator switches the buyback off.
Off == [Usual EXCEPT !.enabled = FALSE]

MCSellQuote(x, cursor, c) ==
  LET sale == calculateUserSellQuote(x, cursor, c.sell)
  IN [totalUsdt |-> sale.totalUsdt, burnAmount |-> sale.burnAmount,
      poolSpaceAmount |-> sale.poolSpaceAmount]

MCMakerQuote(x, cursor, c) == calculateMakerBuyQuote(x, cursor, c.maker)

UsualOnly == {Usual}
UsualAndOff == {Usual, Off}

\* Three units of SPACE and twenty of USDT for each account.
MCInitBalance == [a \in Account |-> [t \in Token |-> IF t = "SPACE" THEN 3 ELSE 20]]

MCInitPool ==
  [availableSpace |-> 2, availableUsdt |-> 16, pendingBurnSpace |-> 0,
   pendingFeeUsdt |-> 0, totalBurnedSpace |-> 0, dailySellSpace |-> 0,
   dailyMakerBuySpace |-> 0, businessDate |-> 0]

RequestSymmetry == Permutations(Request)
=============================================================================
