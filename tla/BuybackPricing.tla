--------------------------- MODULE BuybackPricing ---------------------------
(***************************************************************************)
(* The price curves of BuybackQuotes at work: one business day after       *)
(* another, users sell and makers buy in any portions, as sell and         *)
(* makerBuy of buyback.service.ts ask for the quotes and move the cursors. *)
(***************************************************************************)
EXTENDS BuybackQuotes, Functions

CONSTANTS
  SellConfig,     \* the configurations of the sell curve to start from
  MakerConfig,    \* the configurations of the maker curve to start from
  Portion,        \* amounts of one request
  MaxPortions,    \* bound on the requests of one kind in a day
  MaxMakerVolume  \* bound on what makers buy in a day

ASSUME PricingAssumption ==
  /\ Portion \subseteq Nat \ {0}
  /\ {MaxPortions, MaxMakerVolume} \subseteq Nat
  /\ \A c \in SellConfig : ValidSellConfig(c)
  /\ \A c \in MakerConfig : ValidMakerConfig(c)

VARIABLES
  sellConfig, makerConfig,   \* the configuration of the day
  sold,                      \* [cursor, portions, usdt, burn] of the sales
  bought                     \* [cursor, portions, usdt] of the maker purchases

vars == <<sellConfig, makerConfig, sold, bought>>

NothingSold == [cursor |-> 0, portions |-> 0, usdt |-> 0, burn |-> 0]
NothingBought == [cursor |-> 0, portions |-> 0, usdt |-> 0]

Init ==
  /\ sellConfig \in SellConfig
  /\ makerConfig \in MakerConfig
  /\ sold = NothingSold
  /\ bought = NothingBought

UserSell(x) ==
  /\ sold.portions < MaxPortions
  /\ ~SellThrows(x, sold.cursor, sellConfig)
  /\ LET quote == calculateUserSellQuote(x, sold.cursor, sellConfig) IN
       /\ quote.totalUsdt > 0
       /\ sold' = [cursor |-> sold.cursor + x,
                   portions |-> sold.portions + 1,
                   usdt |-> sold.usdt + quote.totalUsdt,
                   burn |-> sold.burn + quote.burnAmount]
  /\ UNCHANGED <<sellConfig, makerConfig, bought>>

MakerBuy(x) ==
  /\ bought.portions < MaxPortions
  /\ bought.cursor + x <= MaxMakerVolume
  /\ ~MakerThrows(x, bought.cursor, makerConfig)
  /\ LET quote == calculateMakerBuyQuote(x, bought.cursor, makerConfig) IN
       /\ quote.totalUsdt > 0
       /\ bought' = [cursor |-> bought.cursor + x,
                     portions |-> bought.portions + 1,
                     usdt |-> bought.usdt + quote.totalUsdt]
  /\ UNCHANGED <<sellConfig, makerConfig, sold>>

\* resetDaily: the next business day starts from the configured prices.
NewDay ==
  /\ sold' = NothingSold
  /\ bought' = NothingBought
  /\ UNCHANGED <<sellConfig, makerConfig>>

Next == NewDay \/ \E x \in Portion : UserSell(x) \/ MakerBuy(x)

Spec == Init /\ [][Next]_vars
-----------------------------------------------------------------------------
(***************************************************************************)
(* Properties.                                                             *)
(***************************************************************************)
TypeOK ==
  /\ sellConfig \in SellConfig
  /\ makerConfig \in MakerConfig
  /\ sold \in [cursor : 0..sellConfig.dailyMaxAmount, portions : 0..MaxPortions,
               usdt : Nat, burn : 0..sold.cursor]
  /\ bought \in [cursor : 0..MaxMakerVolume, portions : 0..MaxPortions, usdt : Nat]

\* Within lo..lo+parts of the exact value x/scale: what truncating parts products
\* may lose and nothing else.
Truncated(lo, x, scale, parts) ==
  scale * lo <= x /\ x <= scale * lo + (scale - 1) * parts

\* The price of every unit a day can trade.
SellPrices == [u \in 0..sellConfig.dailyMaxAmount |-> getUserSellPrice(u, sellConfig)]
MakerPrices == [u \in 0..MaxMakerVolume |-> getMakerBuyPrice(u, makerConfig)]

\* What the first n units are worth by these prices.
Worth(prices, n) == SumFunctionOnSet(prices, 0..(n - 1))

PaidByTheUnit ==
  Truncated(sold.usdt, Worth(SellPrices, sold.cursor), WEI,
            sold.portions + SellLoop(sold.cursor, 0, sellConfig).iterations)

ChargedByTheUnit ==
  Truncated(bought.usdt, Worth(MakerPrices, bought.cursor), WEI,
            bought.portions + MakerLoop(bought.cursor, 0, makerConfig).iterations)

BurnedByTheTier ==
  LET c == sellConfig
      upTo1 == Least(sold.cursor, c.tier1EndAmount)
      upTo2 == Least(sold.cursor, c.tier2EndAmount)
  IN Truncated(sold.burn,
               upTo1 * c.tier1BurnBp + (upTo2 - upTo1) * c.tier2BurnBp
                 + (sold.cursor - upTo2) * c.tier3BurnBp,
               10000,
               sold.portions + SellLoop(sold.cursor, 0, c).iterations)

\* Volume moves the prices one way, also where one tier ends and the next begins.
VolumeMovesPrices ==
  /\ \A u \in 1..sold.cursor :
       getUserSellPrice(u, sellConfig)
         \in sellConfig.fixedPrice..getUserSellPrice(u - 1, sellConfig)
  /\ \A u \in 1..bought.cursor :
       getMakerBuyPrice(u, makerConfig) >= getMakerBuyPrice(u - 1, makerConfig)

\* However large the trades that crossed the steps: each unit sold is paid, each
\* unit bought is charged, up to the truncation of each chunk, the price of its
\* own cursor, and the volume of each tier is burned at the rate of that tier;
\* sales never raise the sell price above what the unit before was paid nor
\* lower it below its floor, purchases never lower the maker price.  No single
\* trade escapes the price it moves.
PricedByTheUnit ==
  PaidByTheUnit /\ ChargedByTheUnit /\ BurnedByTheTier /\ VolumeMovesPrices

\* Cutting a sale into portions never pays more than selling at once, and costs
\* at most one unit of USDT per cut; cutting a purchase saves no more either.
SplittingGainsNothing ==
  LET atOnce == SellLoop(sold.cursor, 0, sellConfig)
      makerAtOnce == MakerLoop(bought.cursor, 0, makerConfig)
      Cuts(parts) == IF parts = 0 THEN 0 ELSE parts - 1
  IN /\ atOnce.totalUsdt - sold.usdt \in 0..Cuts(sold.portions)
     /\ makerAtOnce.totalUsdt - bought.usdt \in 0..Cuts(bought.portions)
=============================================================================
