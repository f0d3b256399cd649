------------------------------ MODULE PoolViews ------------------------------
(***************************************************************************)
(* What users and administrators are shown of the buyback: getOverview,    *)
(* getAdminOverview and quote of src/src/buyback/buyback.service.ts.       *)
(*                                                                         *)
(* They price by the pool row as it is committed, without its lock and     *)
(* without writing: normalizeDailyState takes the counters of another date *)
(* for zero where a trade resets them.  An operator is what one call       *)
(* answers when the state does not change between its reads; principal is  *)
(* what the active miners of the account cost.                             *)
(***************************************************************************)
EXTENDS BuybackPool, BuybackQuotes

\* The trades are priced by the quotes, of configurations that getBuybackConfig reads.
ASSUME ViewsAssumption ==
  /\ Principal # {}
  /\ \A c \in Config :
       /\ ValidSellConfig(c.sell) /\ ValidMakerConfig(c.maker)
       /\ c.sell.dailyMaxAmount = c.dailyMaxAmount
  /\ \A c \in Config, x \in SpaceAmount \cup {1}, cursor \in 0..MaxDailyVolume :
       /\ cursor + x <= c.dailyMaxAmount =>
            SellQuote(x, cursor, c).totalUsdt
              = calculateUserSellQuote(x, cursor, c.sell).totalUsdt
       /\ MakerQuote(x, cursor, c).totalUsdt
            = calculateMakerBuyQuote(x, cursor, c.maker).totalUsdt

\* The counters as the row has them, whatever its date.
CountersOfTheRow ==
  [dailySellSpace |-> pool.dailySellSpace, dailyMakerBuySpace |-> pool.dailyMakerBuySpace]

normalizeDailyState ==
  [dailySellSpace |-> IF pool.businessDate = today THEN pool.dailySellSpace ELSE 0,
   dailyMakerBuySpace |-> IF pool.businessDate = today THEN pool.dailyMakerBuySpace ELSE 0]

globalRemainingSellSpace ==
  Greater(config.dailyMaxAmount - normalizeDailyState.dailySellSpace, 0)

userMaxSellSpace(a, principal) ==
  Lesser(balance[a]["SPACE"], remainingSellQuota(a, principal, pool.availableUsdt))

getAdminOverview ==
  [sellPrice |-> getUserSellPrice(normalizeDailyState.dailySellSpace, config.sell),
   makerPrice |-> getMakerBuyPrice(normalizeDailyState.dailyMakerBuySpace, config.maker),
   globalRemainingSellSpace |-> globalRemainingSellSpace]

getOverview(a, principal) ==
  [sellPrice |-> getUserSellPrice(normalizeDailyState.dailySellSpace, config.sell),
   makerPrice |-> getMakerBuyPrice(normalizeDailyState.dailyMakerBuySpace, config.maker),
   maxSellSpace |-> Lesser(userMaxSellSpace(a, principal), globalRemainingSellSpace)]

SellQuoteNow(x) ==
  LET priced == SellQuote(x, normalizeDailyState.dailySellSpace, config)
  IN [usdtAmount |-> priced.totalUsdt - Fee(priced.totalUsdt, config),
      burnAmount |-> priced.burnAmount, spaceAmount |-> priced.poolSpaceAmount]

MakerQuoteNow(x) ==
  [usdtAmount |-> MakerQuote(x, normalizeDailyState.dailyMakerBuySpace, config).totalUsdt,
   burnAmount |-> 0, spaceAmount |-> x + (x * config.subsidyBp) \div BpDenominator]

\* spaceAmount is poolSpaceAmount of a sale, spaceReceivedAmount of a purchase.
quote(kind, x) == IF kind = "sell" THEN SellQuoteNow(x) ELSE MakerQuoteNow(x)

\* Where quote answers instead of throwing.
Quotable(kind, a, x, principal) ==
  /\ config.enabled
  /\ kind = "sell" =>
       /\ x <= remainingSellQuota(a, principal, pool.availableUsdt)
       /\ normalizeDailyState.dailySellSpace + x <= config.dailyMaxAmount
  /\ quote(kind, x).usdtAmount > 0

-----------------------------------------------------------------------------
\* As long as neither the date nor the configuration changes, whoever asks for a
\* quote while a trade is under way is quoted what the trade will pay, burn and
\* move, and is quoted at all.
QuotedIsTraded ==
  \A r \in Request :
    /\ req[r].pc = "priced"
    /\ req[r].day = today
    /\ req[r].call.config = config
    => LET call == req[r].call
       IN /\ \E principal \in Principal :
               Quotable(call.kind, call.account, call.amount, principal)
          /\ quote(call.kind, call.amount)
               = [usdtAmount |-> req[r].usdt, burnAmount |-> req[r].burn,
                  spaceAmount |-> req[r].space]

\* What the overview offers passes the checks a sale makes under its locks, and
\* the prices shown, the same to users and administrators, are those at which a
\* sale and a purchase begun today start.
OfferedIsAccepted ==
  /\ \A a \in Account, principal \in Principal, x \in SpaceAmount :
       x <= getOverview(a, principal).maxSellSpace =>
         /\ balance[a]["SPACE"] >= x
         /\ x <= remainingSellQuota(a, principal, Fresh(today).availableUsdt)
         /\ Fresh(today).dailySellSpace + x <= config.dailyMaxAmount
  /\ LET first == SellQuote(1, Fresh(today).dailySellSpace, config)
     IN getAdminOverview.globalRemainingSellSpace > 0 =>
          first.totalUsdt = getAdminOverview.sellPrice \div WEI
  /\ MakerQuote(1, Fresh(today).dailyMakerBuySpace, config).totalUsdt
       = getAdminOverview.makerPrice \div WEI
  /\ \A a \in Account, principal \in Principal :
       /\ getOverview(a, principal).sellPrice = getAdminOverview.sellPrice
       /\ getOverview(a, principal).makerPrice = getAdminOverview.makerPrice

\* What the server shows of the buyback without a lock is what the trades do
\* with one, across midnight and before the first trade of a day as well.
OffersHold == QuotedIsTraded /\ OfferedIsAccepted

(***************************************************************************)
(* What makes OffersHold inductive, with IInv: a priced trade carries the  *)
(* quote of its own configuration at the counters of its own day.          *)
(***************************************************************************)
PricedAsSale(r) ==
  LET call == req[r].call
      counter == Fresh(req[r].day).dailySellSpace
      priced == SellQuote(call.amount, counter, call.config)
  IN /\ req[r].usdt = priced.totalUsdt - Fee(priced.totalUsdt, call.config)
     /\ req[r].usdt > 0
     /\ req[r].burn = priced.burnAmount /\ req[r].space = priced.poolSpaceAmount
     /\ counter + call.amount <= call.config.dailyMaxAmount
     /\ req[r].day = today =>
          \E principal \in Principal :
            call.amount <= remainingSellQuota(call.account, principal, pool.availableUsdt)

PricedAsPurchase(r) ==
  LET call == req[r].call
      counter == Fresh(req[r].day).dailyMakerBuySpace
  IN /\ req[r].usdt = MakerQuote(call.amount, counter, call.config).totalUsdt
     /\ req[r].usdt > 0 /\ req[r].burn = 0
     /\ req[r].space
          = call.amount + (call.amount * call.config.subsidyBp) \div BpDenominator
     /\ counter + call.amount <= MaxDailyVolume

EnabledWhenRead(r) ==
  /\ req[r].pc = "begun" => req[r].config.enabled
  /\ HoldsPool(r) => req[r].call.config.enabled

QuoteInv ==
  /\ pool.dailyMakerBuySpace <= MaxDailyVolume
  /\ \A r \in Request :
       /\ EnabledWhenRead(r)
       /\ req[r].pc = "priced" =>
            IF req[r].call.kind = "sell" THEN PricedAsSale(r) ELSE PricedAsPurchase(r)
=============================================================================
