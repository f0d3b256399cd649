----------------------------- MODULE BuybackPool -----------------------------
(***************************************************************************)
(* The buyback pool: sell, makerBuy, addPoolUsdt, transferPoolAsset and    *)
(* the daily reset of src/src/buyback/buyback.service.ts.                  *)
(*                                                                         *)
(* A trade reads the configuration, then opens a transaction that locks    *)
(* the pool row, resets the daily counters if the date changed, locks the  *)
(* account row (which a settlement or another service may hold), reads     *)
(* the quota, prices, and writes.  The server reads the date three times:  *)
(* when it has the pool lock, when it reads the quota and when it dates    *)
(* the trade.  Midnight may pass between any two of them.                  *)
(*                                                                         *)
(* What a transaction writes to an account is computed from the row as it  *)
(* read it, not from the row it finds when it writes.                      *)
(***************************************************************************)
EXTENDS Integers, FiniteSets, Functions

CONSTANTS
  Account,           \* account ids
  MarketMaker,       \* the accounts with is_market_maker
  Request,           \* requests that may be under way together
  SpaceAmount,       \* SPACE amounts of a request
  Limit,             \* least or most USDT a request accepts
  PoolAmount,        \* amounts an administrator adds or transfers
  MoveAmount,        \* amounts a deposit or a withdrawal settles
  Principal,         \* what the active miners of an account may have cost
  Config,            \* configurations of the buyback
  SellQuote(_, _, _),   \* calculateUserSellQuote(amount, cursor, config)
  MakerQuote(_, _, _),  \* calculateMakerBuyQuote(amount, cursor, config)
  UsdtStep,          \* SELL_QUOTA_USDT_STEP
  InitBalance,       \* the buyback balances at the start
  InitPool,          \* the pool row at the start
  MaxDay,            \* bound on the days
  MaxRequests,       \* bound on the trade requests
  MaxMoves,          \* bound on administrator actions, deposits and withdrawals
  MaxDailyVolume,    \* largest dailyMaxAmount, and bound on makers' daily volume
  MaxQuota,          \* largest daily quota of an account
  NoRequest          \* no request holds the pool row

Token == {"SPACE", "USDT"}
Day == 0..MaxDay    \* 0 is the empty business_date of a new row
Kind == {"sell", "makerBuy"}
Quote == [totalUsdt : Nat, burnAmount : Nat, poolSpaceAmount : Nat]
PoolState ==
  [availableSpace : Nat, availableUsdt : Nat, pendingBurnSpace : Nat,
   pendingFeeUsdt : Nat, totalBurnedSpace : Nat, dailySellSpace : Nat,
   dailyMakerBuySpace : Nat, businessDate : Day]

Lesser(a, b) == IF a < b THEN a ELSE b
Greater(a, b) == IF a > b THEN a ELSE b

BpDenominator == 10000
RateBp == 100..1000

\* The share, in basis points, of the active miners' price that may be sold.
calculateSellQuotaRateBp(availableUsdt) ==
  Lesser(Greater((availableUsdt \div UsdtStep) * 100, 100), 1000)

ASSUME PoolAssumption ==
  /\ IsFiniteSet(Account)
  /\ MarketMaker \subseteq Account
  /\ SpaceAmount \cup Limit \cup PoolAmount \cup MoveAmount \subseteq Nat \ {0}
  /\ Principal \subseteq Nat
  /\ InitBalance \in [Account -> [Token -> Nat]]
  /\ InitPool \in PoolState /\ InitPool.businessDate = 0
  /\ InitPool.dailySellSpace = 0 /\ InitPool.dailyMakerBuySpace = 0
  /\ {MaxRequests, MaxMoves, MaxQuota, MaxDailyVolume} \subseteq Nat
  /\ MaxDay \in Nat \ {0} /\ UsdtStep \in Nat \ {0}
  /\ NoRequest \notin Request

ASSUME ConfigAssumption ==
  \A c \in Config :
    /\ c.enabled \in BOOLEAN
    /\ c.sellFeeBp \in 0..BpDenominator /\ c.subsidyBp \in 0..BpDenominator
    /\ c.dailyMaxAmount \in 1..MaxDailyVolume

ASSUME QuoteAssumption ==
  \A c \in Config, x \in SpaceAmount, cursor \in 0..MaxDailyVolume :
    /\ cursor + x <= c.dailyMaxAmount =>
         /\ SellQuote(x, cursor, c) \in Quote
         /\ x = SellQuote(x, cursor, c).burnAmount + SellQuote(x, cursor, c).poolSpaceAmount
    /\ MakerQuote(x, cursor, c).totalUsdt \in Nat

ASSUME QuotaAssumption ==
  \A principal \in Principal, rateBp \in RateBp :
    (principal * rateBp) \div BpDenominator \in 0..MaxQuota

VARIABLES
  today,      \* the date in Asia/Shanghai
  config,     \* the buyback keys of the config table
  pool,       \* the row of buyback_pool_state
  poolLock,   \* the request whose transaction holds the pool row
  balance,    \* [Account -> buyback balances]
  req,        \* [Request -> the call that is running]
  sold,       \* [Account -> [Day -> SPACE of the user_sell rows created then]]
  logged,     \* [Account -> [Token -> sum of the amounts in the balance log]]
  added,      \* USDT administrators added to the pool
  moved,      \* [Token -> deposited less withdrawn]
  settling,   \* [Account -> the settlement or withdrawal that holds its row]
  requests,   \* requests so far
  moves       \* administrator actions, deposits and withdrawals so far

vars == <<today, config, pool, poolLock, balance, req, sold, logged, added,
          moved, settling, requests, moves>>

Done == [pc |-> "idle"]
Settled == [pc |-> "idle"]

Init ==
  /\ today = 1
  /\ config \in Config
  /\ pool = InitPool
  /\ poolLock = NoRequest
  /\ balance = InitBalance
  /\ req = [r \in Request |-> Done]
  /\ sold = [a \in Account |-> [d \in Day |-> 0]]
  /\ logged = [a \in Account |-> [t \in Token |-> 0]]
  /\ added = 0
  /\ moved = [t \in Token |-> 0]
  /\ settling = [a \in Account |-> Settled]
  /\ requests = 0
  /\ moves = 0
-----------------------------------------------------------------------------
(***************************************************************************)
(* The calls of sell and makerBuy.                                         *)
(***************************************************************************)

\* The configuration is read before the transaction.
Begin(r) ==
  /\ req[r].pc = "idle"
  /\ requests < MaxRequests
  /\ config.enabled
  /\ \E kind \in Kind, a \in Account, x \in SpaceAmount, limit \in Limit :
       req' = [req EXCEPT ![r] =
                 [pc |-> "begun", kind |-> kind, account |-> a, amount |-> x,
                  limit |-> limit, config |-> config]]
  /\ requests' = requests + 1
  /\ UNCHANGED <<today, config, pool, poolLock, balance, sold, logged, added,
                 moved, settling, moves>>

ResetAlways(d) ==
  [pool EXCEPT !.businessDate = d, !.dailySellSpace = 0, !.dailyMakerBuySpace = 0]
ResetDateOnly(d) == [pool EXCEPT !.businessDate = d]

\* The pool row as resetDaily leaves it on day d.
Fresh(d) ==
  IF pool.businessDate = d THEN pool
  ELSE [pool EXCEPT !.businessDate = d, !.dailySellSpace = 0,
                    !.dailyMakerBuySpace = 0]

\* lockPool and resetDaily; the reset row is written with the trade.
LockPool(r) ==
  /\ req[r].pc = "begun"
  /\ poolLock = NoRequest
  /\ poolLock' = r
  /\ req' = [req EXCEPT ![r] = [pc |-> "locked", call |-> req[r], day |-> today]]
  /\ UNCHANGED <<today, config, pool, balance, sold, logged, added, moved, settling,
                 requests, moves>>

NotLocked(a) == FALSE

\* A request that has priced its trade holds the row of its account, and so does
\* a settlement or a withdrawal.
AccountLocked(a) ==
  \/ \E r \in Request : req[r].pc = "priced" /\ req[r].call.account = a
  \/ settling[a] # Settled

\* getDailySellQuota, the miners of the account given.
Quota(principal, availableUsdt) ==
  (principal * calculateSellQuotaRateBp(availableUsdt)) \div BpDenominator

UnsoldQuota(a, principal, availableUsdt) == Quota(principal, availableUsdt)
remainingSellQuota(a, principal, availableUsdt) ==
  Greater(Quota(principal, availableUsdt) - sold[a][today], 0)

Fee(total, c) == (total * c.sellFeeBp) \div BpDenominator

CanPay(p, usdt) == p.availableUsdt >= usdt

WithoutSubsidy(p, amount, subsidy) == p.availableSpace >= amount
CanDeliver(p, amount, subsidy) == p.availableSpace >= amount + subsidy

\* Locks the account, checks it, the quota and the pool, and prices the sale.
PriceSell(r) ==
  /\ req[r].pc = "locked" /\ req[r].call.kind = "sell"
  /\ LET call == req[r].call
         p == Fresh(req[r].day)
         quote == SellQuote(call.amount, p.dailySellSpace, call.config)
         fee == Fee(quote.totalUsdt, call.config)
         received == quote.totalUsdt - fee
     IN /\ ~AccountLocked(call.account)
        /\ balance[call.account]["SPACE"] >= call.amount
        /\ \E principal \in Principal :
             call.amount <= remainingSellQuota(call.account, principal, p.availableUsdt)
        /\ p.dailySellSpace + call.amount <= call.config.dailyMaxAmount
        /\ received > 0 /\ received >= call.limit
        /\ CanPay(p, received)
        /\ req' = [req EXCEPT ![r] =
                     [pc |-> "priced", call |-> call, day |-> req[r].day,
                      before |-> balance[call.account], usdt |-> received,
                      burn |-> quote.burnAmount, space |-> quote.poolSpaceAmount]]
  /\ UNCHANGED <<today, config, pool, poolLock, balance, sold, logged, added,
                 moved, settling, requests, moves>>

\* The same for a purchase: space is what the maker receives, burn is none.
PriceMakerBuy(r) ==
  /\ req[r].pc = "locked" /\ req[r].call.kind = "makerBuy"
  /\ LET call == req[r].call
         p == Fresh(req[r].day)
         subsidy == (call.amount * call.config.subsidyBp) \div BpDenominator
         quote == MakerQuote(call.amount, p.dailyMakerBuySpace, call.config)
     IN /\ ~AccountLocked(call.account)
        /\ call.account \in MarketMaker
        /\ p.dailyMakerBuySpace + call.amount <= MaxDailyVolume
        /\ CanDeliver(p, call.amount, subsidy)
        /\ quote.totalUsdt > 0 /\ quote.totalUsdt <= call.limit
        /\ balance[call.account]["USDT"] >= quote.totalUsdt
        /\ req' = [req EXCEPT ![r] =
                     [pc |-> "priced", call |-> call, day |-> req[r].day,
                      before |-> balance[call.account], usdt |-> quote.totalUsdt,
                      burn |-> 0, space |-> call.amount + subsidy]]
  /\ UNCHANGED <<today, config, pool, poolLock, balance, sold, logged, added,
                 moved, settling, requests, moves>>

\* Saves an account as the transaction read it, with both balances changed, and
\* creates the log rows of the changes.
Save(a, before, space, usdt) ==
  LET amount == [t \in Token |-> IF t = "SPACE" THEN space ELSE usdt]
  IN /\ balance' = [balance EXCEPT ![a] = [t \in Token |-> before[t] + amount[t]]]
     /\ logged' = [logged EXCEPT ![a] = [t \in Token |-> @[t] + amount[t]]]

Finish(r) ==
  /\ req' = [req EXCEPT ![r] = Done]
  /\ poolLock' = NoRequest
  /\ UNCHANGED <<today, config, added, moved, settling, requests, moves>>

\* The pool after a sale: the burned share is set aside, the fee stays in.
SoldToPoolWhole(p, s) ==
  [p EXCEPT !.availableSpace = @ + s.call.amount,
            !.pendingBurnSpace = @ + s.burn,
            !.availableUsdt = @ - s.usdt,
            !.dailySellSpace = @ + s.call.amount]
SoldToPool(p, s) ==
  [p EXCEPT !.availableSpace = @ + s.space,
            !.pendingBurnSpace = @ + s.burn,
            !.availableUsdt = @ - s.usdt,
            !.dailySellSpace = @ + s.call.amount]

\* Writes the sale, dated today, and commits.
CommitSell(r) ==
  /\ req[r].pc = "priced" /\ req[r].call.kind = "sell"
  /\ LET call == req[r].call
     IN /\ Save(call.account, req[r].before, -call.amount, req[r].usdt)
        /\ pool' = SoldToPool(Fresh(req[r].day), req[r])
        /\ sold' = [sold EXCEPT ![call.account][today] = @ + call.amount]
  /\ Finish(r)

\* A sixth of the price is owed to the fee receiver, the rest is the pool's.
receiverAmount(usdt) == usdt \div 6

BoughtFromPool(p, b) ==
  LET receiver == receiverAmount(b.usdt)
  IN [p EXCEPT !.availableSpace = @ - b.space,
               !.availableUsdt = @ + (b.usdt - receiver),
               !.pendingFeeUsdt = @ + receiver,
               !.dailyMakerBuySpace = @ + b.call.amount]

CommitMakerBuy(r) ==
  /\ req[r].pc = "priced" /\ req[r].call.kind = "makerBuy"
  /\ Save(req[r].call.account, req[r].before, req[r].space, -req[r].usdt)
  /\ pool' = BoughtFromPool(Fresh(req[r].day), req[r])
  /\ UNCHANGED sold
  /\ Finish(r)

\* A check failed or the database threw: the transaction rolls back.
Abort(r) ==
  /\ req[r].pc # "idle"
  /\ req' = [req EXCEPT ![r] = Done]
  /\ poolLock' = IF poolLock = r THEN NoRequest ELSE poolLock
  /\ UNCHANGED <<today, config, pool, balance, sold, logged, added, moved, settling,
                 requests, moves>>
-----------------------------------------------------------------------------
(***************************************************************************)
(* The administrator and the scheduler.  Each is one transaction under the *)
(* pool lock; what goes to an account also waits for that account.         *)
(***************************************************************************)
Moving == moves < MaxMoves /\ moves' = moves + 1

addPoolUsdt(x) ==
  /\ Moving
  /\ poolLock = NoRequest
  /\ pool' = [pool EXCEPT !.availableUsdt = @ + x]
  /\ added' = added + x
  /\ UNCHANGED <<today, config, poolLock, balance, req, sold, logged, moved, settling, requests>>

transferBurnSpace(a, x) ==
  /\ Moving
  /\ poolLock = NoRequest
  /\ pool.pendingBurnSpace >= x
  /\ pool' = [pool EXCEPT !.pendingBurnSpace = @ - x, !.totalBurnedSpace = @ + x]
  /\ ~AccountLocked(a)
  /\ Save(a, balance[a], x, 0)
  /\ UNCHANGED <<today, config, poolLock, req, sold, added, moved, settling, requests>>

transferFeeUsdt(a, x) ==
  /\ Moving
  /\ poolLock = NoRequest
  /\ pool.pendingFeeUsdt >= x
  /\ pool' = [pool EXCEPT !.pendingFeeUsdt = @ - x]
  /\ ~AccountLocked(a)
  /\ Save(a, balance[a], 0, x)
  /\ UNCHANGED <<today, config, poolLock, req, sold, added, moved, settling, requests>>

resetDailyState ==
  /\ poolLock = NoRequest
  /\ pool' = Fresh(today)
  /\ UNCHANGED <<today, config, poolLock, balance, req, sold, logged, added,
                 moved, settling, requests, moves>>

updateConfig ==
  /\ Moving
  /\ config' \in Config
  /\ UNCHANGED <<today, pool, poolLock, balance, req, sold, logged, added,
                 moved, settling, requests>>
-----------------------------------------------------------------------------
(***************************************************************************)
(* The environment: settled deposits and refunds, withdrawals, midnight.   *)
(***************************************************************************)

\* The account is locked, read and checked, ...
MoveRead(a, t, x) ==
  /\ Moving
  /\ ~AccountLocked(a)
  /\ balance[a][t] + x >= 0
  /\ settling' = [settling EXCEPT ![a] =
                    [pc |-> "read", token |-> t, amount |-> x, before |-> balance[a]]]
  /\ UNCHANGED <<today, config, pool, poolLock, balance, req, sold, logged, added,
                 moved, requests>>

\* ... and saved.
MoveSave(a) ==
  LET move == settling[a]
  IN /\ move # Settled
     /\ Save(a, move.before, IF move.token = "SPACE" THEN move.amount ELSE 0,
                             IF move.token = "USDT" THEN move.amount ELSE 0)
     /\ moved' = [moved EXCEPT ![move.token] = @ + move.amount]
     /\ settling' = [settling EXCEPT ![a] = Settled]
     /\ UNCHANGED <<today, config, pool, poolLock, req, sold, added, requests, moves>>

\* The signer or the database threw.
MoveAbort(a) ==
  /\ settling[a] # Settled
  /\ settling' = [settling EXCEPT ![a] = Settled]
  /\ UNCHANGED <<today, config, pool, poolLock, balance, req, sold, logged, added,
                 moved, requests, moves>>

Midnight ==
  /\ today < MaxDay
  /\ today' = today + 1
  /\ UNCHANGED <<config, pool, poolLock, balance, req, sold, logged, added,
                 moved, settling, requests, moves>>
-----------------------------------------------------------------------------
Call(r) ==
  \/ Begin(r) \/ LockPool(r) \/ PriceSell(r) \/ PriceMakerBuy(r)
  \/ CommitSell(r) \/ CommitMakerBuy(r) \/ Abort(r)

Admin ==
  \/ \E x \in PoolAmount :
       \/ addPoolUsdt(x)
       \/ \E a \in Account : transferBurnSpace(a, x) \/ transferFeeUsdt(a, x)
  \/ updateConfig

Next ==
  \/ \E r \in Request : Call(r)
  \/ Admin
  \/ resetDailyState
  \/ \E a \in Account, t \in Token, x \in MoveAmount :
       MoveRead(a, t, x) \/ MoveRead(a, t, -x)
  \/ \E a \in Account : MoveSave(a) \/ MoveAbort(a)
  \/ Midnight

Spec == Init /\ [][Next]_vars
-----------------------------------------------------------------------------
(***************************************************************************)
(* Properties.                                                             *)
(***************************************************************************)
CallState ==
  [pc : {"begun"}, kind : Kind, account : Account, amount : SpaceAmount,
   limit : Limit, config : Config]

RequestState ==
  {Done} \cup CallState
    \cup [pc : {"locked"}, call : CallState, day : Day]
    \cup [pc : {"priced"}, call : CallState, day : Day, before : [Token -> Nat],
          usdt : Nat, burn : Nat, space : Nat]

MoveState ==
  {Settled} \cup [pc : {"read"}, token : Token, amount : Int, before : [Token -> Nat]]

\* The type invariant; no counter of the pool and no balance is ever negative.
TypeOK ==
  /\ today \in 1..MaxDay
  /\ config \in Config
  /\ pool \in PoolState
  /\ poolLock \in Request \cup {NoRequest}
  /\ balance \in [Account -> [Token -> Nat]]
  /\ req \in [Request -> RequestState]
  /\ sold \in [Account -> [Day -> Nat]]
  /\ logged \in [Account -> [Token -> Int]]
  /\ added \in Nat
  /\ moved \in [Token -> Int]
  /\ settling \in [Account -> MoveState]
  /\ requests \in 0..MaxRequests
  /\ moves \in 0..MaxMoves

Balances(t) == SumFunction([a \in Account |-> balance[a][t]])
InitBalances(t) == SumFunction([a \in Account |-> InitBalance[a][t]])

\* SPACE and USDT are only moved between the accounts, what the pool may sell or
\* pay, and what it has set aside for burning and for the fee receiver: fees,
\* subsidies and truncated sixths included.
Conservation ==
  /\ Balances("SPACE") + pool.availableSpace + pool.pendingBurnSpace
       = InitBalances("SPACE") + InitPool.availableSpace
           + InitPool.pendingBurnSpace + moved["SPACE"]
  /\ Balances("USDT") + pool.availableUsdt + pool.pendingFeeUsdt
       = InitBalances("USDT") + InitPool.availableUsdt
           + InitPool.pendingFeeUsdt + moved["USDT"] + added

\* The amounts in the balance log of an account add up to its balances: although
\* trades, settlements, withdrawals and transfers write balances computed from what
\* they read earlier, none of them overwrites what another one logged.
LogExplainsBalances ==
  \A a \in Account, t \in Token : balance[a][t] = InitBalance[a][t] + logged[a][t]

\* However late a sale is dated and whatever quota it was checked against, the
\* sales of an account dated one day stay within the largest quota of a day.
UserQuotaPerDay ==
  \A a \in Account, d \in Day : sold[a][d] <= MaxQuota

\* What users sold on the dates of S.
SoldOn(S) == SumFunction([p \in Account \X S |-> sold[p[1]][p[2]]])

\* The counter that prices the sales holds no volume of an earlier date, and
\* stays within the daily maximum, also when the scheduler never ran.
CounterOfTheDay ==
  /\ pool.dailySellSpace <= SoldOn(pool.businessDate..MaxDay)
  /\ pool.dailySellSpace <= MaxDailyVolume

CountersFall ==
  /\ pool'.businessDate >= pool.businessDate
  /\ pool'.businessDate = pool.businessDate =>
       /\ pool'.dailySellSpace >= pool.dailySellSpace
       /\ pool'.dailyMakerBuySpace >= pool.dailyMakerBuySpace

\* The business date never goes back and the counters only fall with it.
CountersFallAtMidnight == [][CountersFall]_vars

(***************************************************************************)
(* What makes TypeOK, UserQuotaPerDay and CountersFallAtMidnight           *)
(* inductive: what a priced trade found under its locks still holds when   *)
(* it is written, whatever day that is.                                    *)
(***************************************************************************)
HoldsPool(r) == req[r].pc \in {"locked", "priced"}

LockInv == \A r \in Request : HoldsPool(r) <=> poolLock = r

DateInv ==
  /\ pool.businessDate <= today
  /\ \A r \in Request :
       HoldsPool(r) => pool.businessDate <= req[r].day /\ req[r].day <= today

Payable(r) ==
  LET a == req[r].call.account
  IN IF req[r].call.kind = "sell"
     THEN balance[a]["SPACE"] >= req[r].call.amount /\ pool.availableUsdt >= req[r].usdt
     ELSE balance[a]["USDT"] >= req[r].usdt /\ pool.availableSpace >= req[r].space

WithinQuota(r) ==
  req[r].call.kind = "sell" =>
    sold[req[r].call.account][today] + req[r].call.amount <= MaxQuota

PricedInv == \A r \in Request : req[r].pc = "priced" => Payable(r) /\ WithinQuota(r)

\* What was read of an account under its lock is its row still, and one transaction
\* holds it.
ReadInv ==
  /\ \A r \in Request : req[r].pc = "priced" =>
       /\ req[r].before = balance[req[r].call.account]
       /\ settling[req[r].call.account] = Settled
  /\ \A a \in Account : settling[a] # Settled =>
       /\ settling[a].before = balance[a]
       /\ balance[a][settling[a].token] + settling[a].amount >= 0

NoSaleInTheFuture == \A a \in Account, d \in Day : d > today => sold[a][d] = 0

IInv ==
  /\ TypeOK /\ LockInv /\ DateInv /\ PricedInv /\ ReadInv /\ NoSaleInTheFuture
  /\ UserQuotaPerDay /\ LogExplainsBalances

\* The same for Conservation and CounterOfTheDay: a priced sale burns and sells on
\* what it takes, and the counter still has room for it.
SaleInv ==
  \A r \in Request : req[r].pc = "priced" /\ req[r].call.kind = "sell" =>
    /\ req[r].call.amount = req[r].burn + req[r].space
    /\ Fresh(req[r].day).dailySellSpace + req[r].call.amount <= MaxDailyVolume

\* What users sell on one date stays within the daily global maximum.
GlobalMaximumPerDate ==
  \A d \in Day : SoldOn({d}) <= MaxDailyVolume
=============================================================================
