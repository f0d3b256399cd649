---------------------------- MODULE BuybackQuotes ----------------------------
(***************************************************************************)
(* The price curves of the buyback: buyback-pricing.util.ts.               *)
(*                                                                         *)
(* A price depends on the cursor, the volume traded so far that day.  A    *)
(* trade that crosses steps is cut at the step boundaries and every chunk  *)
(* is paid at the price of the cursor where it begins, each product being  *)
(* truncated (BigInt division).                                            *)
(***************************************************************************)
EXTENDS Integers

CONSTANTS
  WEI,            \* 10^18, the scale of a price
  MaxIterations   \* 10000, the segments a quote may span

ASSUME QuotesAssumption == {WEI, MaxIterations} \subseteq Nat \ {0}

\* What getBuybackConfig accepts.
PositiveTerms(c) ==
  \A v \in {c.defaultPrice, c.tier1EndAmount, c.tier1StepAmount, c.tier1StepDecrease,
            c.tier2EndAmount, c.tier2StepAmount, c.tier2StepDecrease, c.fixedPrice,
            c.dailyMaxAmount} : v \in Nat \ {0}

BurnsAreBp(c) ==
  \A bp \in {c.tier1BurnBp, c.tier2BurnBp, c.tier3BurnBp} : bp \in Nat /\ bp <= 10000

TiersFollow(c) ==
  /\ c.fixedPrice <= c.defaultPrice
  /\ c.tier1EndAmount < c.tier2EndAmount
  /\ c.tier2EndAmount < c.dailyMaxAmount

StepsFillTiers(c) ==
  /\ c.tier1EndAmount % c.tier1StepAmount = 0
  /\ (c.tier2EndAmount - c.tier1EndAmount) % c.tier2StepAmount = 0

ValidSellConfig(c) ==
  PositiveTerms(c) /\ BurnsAreBp(c) /\ TiersFollow(c) /\ StepsFillTiers(c)

ValidMakerConfig(c) ==
  \A v \in {c.defaultPrice, c.firstStepAmount, c.firstStepIncrease, c.stepAmount,
            c.stepIncrease} : v \in Nat \ {0}

Least(a, b) == IF a < b THEN a ELSE b
Greatest(a, b) == IF a > b THEN a ELSE b
-----------------------------------------------------------------------------
(***************************************************************************)
(* Selling.                                                                *)
(***************************************************************************)
InTier1(cursor, c) == cursor < c.tier1EndAmount
InTier2(cursor, c) == cursor >= c.tier1EndAmount /\ cursor < c.tier2EndAmount

decreaseWithFloor(value, amount, floor) ==
  Greatest(IF amount < value THEN value - amount ELSE 0, floor)

\* The second tier goes down from the price where the first one ended.
Tier2FromDefault(c) == c.defaultPrice
Tier2StartPrice(c) ==
  decreaseWithFloor(c.defaultPrice,
                    (c.tier1EndAmount \div c.tier1StepAmount) * c.tier1StepDecrease,
                    c.fixedPrice)

getUserSellPrice(cursor, c) ==
  CASE InTier1(cursor, c) ->
         decreaseWithFloor(c.defaultPrice,
                           (cursor \div c.tier1StepAmount) * c.tier1StepDecrease,
                           c.fixedPrice)
    [] InTier2(cursor, c) ->
         decreaseWithFloor(Tier2StartPrice(c),
                           ((cursor - c.tier1EndAmount) \div c.tier2StepAmount)
                              * c.tier2StepDecrease,
                           c.fixedPrice)
    [] OTHER -> c.fixedPrice

\* Where the step that contains cursor ends, steps counted from start.
StepEnd(cursor, start, step) == start + ((cursor - start) \div step + 1) * step

TierEnd(cursor, c) ==
  CASE InTier1(cursor, c) -> c.tier1EndAmount
    [] InTier2(cursor, c) -> c.tier2EndAmount
    [] OTHER -> c.dailyMaxAmount

\* The end of the segment of equal price and burn rate that begins at cursor.
SellBoundary(cursor, c) ==
  CASE InTier1(cursor, c) ->
         Least(StepEnd(cursor, 0, c.tier1StepAmount), c.tier1EndAmount)
    [] InTier2(cursor, c) ->
         Least(StepEnd(cursor, c.tier1EndAmount, c.tier2StepAmount), c.tier2EndAmount)
    [] OTHER -> c.dailyMaxAmount

LateBurnBp(cursor, c) ==
  CASE cursor <= c.tier1EndAmount -> c.tier1BurnBp
    [] cursor > c.tier1EndAmount /\ cursor <= c.tier2EndAmount -> c.tier2BurnBp
    [] OTHER -> c.tier3BurnBp

BurnBp(cursor, c) ==
  CASE InTier1(cursor, c) -> c.tier1BurnBp
    [] InTier2(cursor, c) -> c.tier2BurnBp
    [] OTHER -> c.tier3BurnBp

ChunkUp(chunk, price) == (chunk * price + WEI - 1) \div WEI
ChunkUsdt(chunk, price) == (chunk * price) \div WEI

\* The loop of calculateUserSellQuote, by what remains to be sold; iterations
\* counts its rounds.
SellLoop(amount, initialCursor, c) ==
  LET quote[remaining \in 0..amount] ==
        IF remaining = 0 THEN [totalUsdt |-> 0, burnAmount |-> 0, iterations |-> 0]
        ELSE LET cursor == initialCursor + amount - remaining
                 chunk == Least(remaining, SellBoundary(cursor, c) - cursor)
                 rest == quote[remaining - chunk]
             IN [totalUsdt |-> ChunkUsdt(chunk, getUserSellPrice(cursor, c))
                                 + rest.totalUsdt,
                 burnAmount |-> (chunk * BurnBp(cursor, c)) \div 10000
                                  + rest.burnAmount,
                 iterations |-> rest.iterations + 1]
  IN quote[amount]

\* Where the function throws instead of returning a quote.
SellThrows(amount, initialCursor, c) ==
  \/ amount <= 0
  \/ initialCursor + amount > c.dailyMaxAmount
  \/ SellLoop(amount, initialCursor, c).iterations > MaxIterations

calculateUserSellQuote(amount, initialCursor, c) ==
  LET quote == SellLoop(amount, initialCursor, c)
  IN [totalUsdt |-> quote.totalUsdt,
      averagePrice |-> (quote.totalUsdt * WEI) \div amount,
      burnAmount |-> quote.burnAmount,
      poolSpaceAmount |-> amount - quote.burnAmount]
-----------------------------------------------------------------------------
(***************************************************************************)
(* Buying, for market makers.                                              *)
(***************************************************************************)
getMakerBuyPrice(cursor, c) ==
  IF cursor < c.firstStepAmount THEN c.defaultPrice
  ELSE c.defaultPrice + c.firstStepIncrease
         + ((cursor - c.firstStepAmount) \div c.stepAmount) * c.stepIncrease

EndlessBoundary(cursor, c) ==
  IF cursor < c.firstStepAmount THEN c.firstStepAmount
  ELSE c.firstStepAmount + MaxIterations * c.stepAmount

MakerBoundary(cursor, c) ==
  IF cursor < c.firstStepAmount THEN c.firstStepAmount
  ELSE StepEnd(cursor, c.firstStepAmount, c.stepAmount)

MakerLoop(amount, initialCursor, c) ==
  LET quote[remaining \in 0..amount] ==
        IF remaining = 0 THEN [totalUsdt |-> 0, iterations |-> 0]
        ELSE LET cursor == initialCursor + amount - remaining
                 chunk == Least(remaining, MakerBoundary(cursor, c) - cursor)
                 rest == quote[remaining - chunk]
             IN [totalUsdt |-> ChunkUsdt(chunk, getMakerBuyPrice(cursor, c))
                                 + rest.totalUsdt,
                 iterations |-> rest.iterations + 1]
  IN quote[amount]

MakerThrows(amount, initialCursor, c) ==
  MakerLoop(amount, initialCursor, c).iterations > MaxIterations

calculateMakerBuyQuote(amount, initialCursor, c) ==
  LET quote == MakerLoop(amount, initialCursor, c)
  IN [totalUsdt |-> quote.totalUsdt,
      averagePrice |-> (quote.totalUsdt * WEI) \div amount,
      burnAmount |-> 0,
      poolSpaceAmount |-> 0]
=============================================================================
