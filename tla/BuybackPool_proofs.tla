------------------------- MODULE BuybackPool_proofs -------------------------
(***************************************************************************)
(* Proofs about BuybackPool: its types, the balance log, the quota of a    *)
(* day, the books of the pool, the counters of the day and what the views  *)
(* of PoolViews show, for every configuration, price curve, number of      *)
(* accounts and of requests.                                               *)
(***************************************************************************)
EXTENDS PoolViews, Sums_proofs

-----------------------------------------------------------------------------
(***************************************************************************)
(* Types.                                                                  *)
(***************************************************************************)

\* The row resetDaily leaves is a row of the table, dated d, with no more in its
\* counters and the same in the rest.
LEMMA FreshType ==
  ASSUME TypeOK, NEW d \in Day
  PROVE  /\ Fresh(d) \in PoolState
         /\ Fresh(d).businessDate = d
         /\ Fresh(d).availableSpace = pool.availableSpace
         /\ Fresh(d).availableUsdt = pool.availableUsdt
         /\ Fresh(d).pendingBurnSpace = pool.pendingBurnSpace
         /\ Fresh(d).pendingFeeUsdt = pool.pendingFeeUsdt
         /\ Fresh(d).totalBurnedSpace = pool.totalBurnedSpace
         /\ pool.businessDate = d => Fresh(d) = pool
BY DEF TypeOK, PoolState, Fresh

\* The rate is between one and ten percent.
LEMMA RateBounds ==
  ASSUME NEW u \in Nat
  PROVE  calculateSellQuotaRateBp(u) \in RateBp
<1>1. u \div UsdtStep \in Int
  BY PoolAssumption
<1>2. (u \div UsdtStep) * 100 \in Int
  BY <1>1
<1> QED
  BY <1>2 DEF calculateSellQuotaRateBp, RateBp, Lesser, Greater

\* A truncated share of a natural number is a natural number.
LEMMA ShareType ==
  ASSUME NEW x \in Nat, NEW bp \in Nat
  PROVE  (x * bp) \div BpDenominator \in Nat
<1>1. x * bp \in Nat
  OBVIOUS
<1> QED
  BY <1>1 DEF BpDenominator

\* What saving an account changes, by what was read of it being its row still.
Trade(a, space, usdt) ==
  /\ balance' = [balance EXCEPT ![a] = [t \in Token |->
                   @[t] + IF t = "SPACE" THEN space ELSE usdt]]
  /\ logged' = [logged EXCEPT ![a] = [t \in Token |->
                   @[t] + IF t = "SPACE" THEN space ELSE usdt]]

LEMMA SaveIsTrade ==
  ASSUME TypeOK, NEW a \in Account, NEW before, before = balance[a],
         NEW space, NEW usdt, Save(a, before, space, usdt)
  PROVE  Trade(a, space, usdt)
BY DEF Save, Trade, TypeOK

\* What a trade moves between two balances of one account, and its log.
LEMMA TradeType ==
  ASSUME TypeOK, NEW a \in Account, NEW space \in Int, NEW usdt \in Int,
         Trade(a, space, usdt),
         balance[a]["SPACE"] + space >= 0, balance[a]["USDT"] + usdt >= 0
  PROVE  /\ balance' \in [Account -> [Token -> Nat]]
         /\ logged' \in [Account -> [Token -> Int]]
<1>1. /\ balance[a]["SPACE"] \in Nat /\ balance[a]["USDT"] \in Nat
      /\ logged[a]["SPACE"] \in Int /\ logged[a]["USDT"] \in Int
  BY DEF TypeOK, Token
<1>2. [t \in Token |-> balance[a][t] + IF t = "SPACE" THEN space ELSE usdt]
        \in [Token -> Nat]
  BY <1>1 DEF Token
<1>3. [t \in Token |-> logged[a][t] + IF t = "SPACE" THEN space ELSE usdt]
        \in [Token -> Int]
  BY <1>1 DEF Token
<1> QED
  BY <1>2, <1>3 DEF Trade, TypeOK

LEMMA TradeLogged ==
  ASSUME TypeOK, LogExplainsBalances, NEW a \in Account,
         NEW space \in Int, NEW usdt \in Int, Trade(a, space, usdt)
  PROVE  LogExplainsBalances'
<1> SUFFICES ASSUME NEW b \in Account, NEW t \in Token
             PROVE  balance'[b][t] = InitBalance[b][t] + logged'[b][t]
  BY DEF LogExplainsBalances
<1>1. /\ balance[b][t] \in Nat /\ logged[b][t] \in Int /\ InitBalance[b][t] \in Nat
      /\ balance[b][t] = InitBalance[b][t] + logged[b][t]
  BY PoolAssumption DEF TypeOK, LogExplainsBalances
<1>2. CASE a = b
  <2> DEFINE x == IF t = "SPACE" THEN space ELSE usdt
  <2>1. balance'[b][t] = balance[b][t] + x /\ logged'[b][t] = logged[b][t] + x
    BY <1>2 DEF Trade, TypeOK
  <2>2. x \in Int
    OBVIOUS
  <2> QED
    BY <1>1, <2>1, <2>2
<1>3. CASE a # b
  BY <1>1, <1>3 DEF Trade, TypeOK
<1> QED
  BY <1>2, <1>3

\* A trade touches the balances of no other account.
LEMMA TradeLocal ==
  ASSUME TypeOK, NEW a \in Account, NEW space, NEW usdt, Trade(a, space, usdt),
         NEW b \in Account, b # a
  PROVE  balance'[b] = balance[b]
BY DEF Trade, TypeOK

\* The parts of a call, by how far it is.
LEMMA CallTypes ==
  ASSUME TypeOK, NEW r \in Request
  PROVE  /\ req[r].pc = "begun" => req[r] \in CallState
         /\ HoldsPool(r) => req[r].call \in CallState /\ req[r].day \in Day
         /\ req[r].pc = "priced" =>
              req[r].usdt \in Nat /\ req[r].burn \in Nat /\ req[r].space \in Nat
<1>1. req[r] \in RequestState
  BY DEF TypeOK
<1> QED
  BY <1>1 DEF RequestState, CallState, Done, HoldsPool

\* A configuration a call read is one of the table's.
LEMMA ConfigTypes ==
  ASSUME NEW c \in Config
  PROVE  /\ c.sellFeeBp \in Nat /\ c.subsidyBp \in Nat
         /\ c.dailyMaxAmount \in Nat /\ c.dailyMaxAmount <= MaxDailyVolume
<1>1. /\ c.sellFeeBp \in 0..BpDenominator /\ c.subsidyBp \in 0..BpDenominator
      /\ c.dailyMaxAmount \in 1..MaxDailyVolume
  BY ConfigAssumption, Zenon
<1>2. MaxDailyVolume \in Nat
  BY PoolAssumption
<1>3. 0..BpDenominator \subseteq Nat
  BY DEF BpDenominator
<1>4. ASSUME NEW n \in 1..MaxDailyVolume
      PROVE  n \in Nat /\ n <= MaxDailyVolume
  BY <1>2
<1> QED
  BY <1>1, <1>3, <1>4, Zenon

\* Storing a well-formed call keeps the calls well-formed.
LEMMA ReqType ==
  ASSUME TypeOK, NEW r \in Request, NEW v \in RequestState,
         req' = [req EXCEPT ![r] = v]
  PROVE  req' \in [Request -> RequestState]
BY DEF TypeOK

-----------------------------------------------------------------------------
(***************************************************************************)
(* Pricing: what the checks under the locks establish.                     *)
(***************************************************************************)

\* The quota check leaves room for the sale on the day it is made.
LEMMA QuotaCheck ==
  ASSUME TypeOK, NEW a \in Account, NEW x \in Nat \ {0}, NEW u \in Nat,
         NEW principal \in Principal,
         x <= remainingSellQuota(a, principal, u)
  PROVE  sold[a][today] + x <= MaxQuota
<1>1. Quota(principal, u) \in 0..MaxQuota
  <2>1. calculateSellQuotaRateBp(u) \in RateBp
    BY RateBounds, Zenon
  <2> DEFINE rate == calculateSellQuotaRateBp(u)
  <2>2. (principal * rate) \div BpDenominator \in 0..MaxQuota
    <3> HIDE DEF rate
    <3>1. rate \in RateBp
      BY <2>1 DEF rate
    <3> QED
      BY <3>1, QuotaAssumption, Zenon
  <2> QED
    BY <2>2 DEF Quota
<1>2. sold[a][today] \in Nat
  <2>1. today \in Day
    BY PoolAssumption DEF TypeOK, Day
  <2> QED
    BY <2>1 DEF TypeOK
<1> QED
  BY <1>1, <1>2, PoolAssumption DEF remainingSellQuota, Greater

\* What a priced trade read of its account is its row, which nobody else holds.
ReadByNow(r) ==
  /\ req[r].before = balance[req[r].call.account]
  /\ settling[req[r].call.account] = Settled

LEMMA PriceSellSound ==
  ASSUME IInv, NEW r \in Request, PriceSell(r)
  PROVE  /\ req' \in [Request -> RequestState]
         /\ req'[r].pc = "priced" /\ req'[r].call = req[r].call
         /\ req'[r].day = req[r].day
         /\ Payable(r)' /\ WithinQuota(r)' /\ ReadByNow(r)'
         /\ req'[r].call.amount = req'[r].burn + req'[r].space
         /\ Fresh(req[r].day).dailySellSpace + req[r].call.amount <= MaxDailyVolume
<1> DEFINE call == req[r].call
           p == Fresh(req[r].day)
           offer == SellQuote(call.amount, p.dailySellSpace, call.config)
           received == offer.totalUsdt - Fee(offer.totalUsdt, call.config)
           v == [pc |-> "priced", call |-> call, day |-> req[r].day,
                 before |-> balance[call.account], usdt |-> received, burn |-> offer.burnAmount,
                 space |-> offer.poolSpaceAmount]
<1>0. TypeOK
  BY DEF IInv
<1>1. call \in CallState /\ req[r].day \in Day
  BY <1>0, CallTypes DEF PriceSell, HoldsPool
<1>2. /\ call.account \in Account /\ call.amount \in SpaceAmount
      /\ call.config \in Config /\ call.limit \in Nat /\ call.amount \in Nat \ {0}
      /\ call.limit > 0
  BY <1>1, PoolAssumption DEF CallState
<1>3. /\ p \in PoolState /\ p.dailySellSpace \in Nat /\ p.availableUsdt \in Nat
      /\ p.availableUsdt = pool.availableUsdt
  BY <1>0, <1>1, FreshType DEF PoolState
<1>4. /\ call.kind = "sell"
      /\ balance[call.account]["SPACE"] >= call.amount
      /\ \E principal \in Principal :
           call.amount <= remainingSellQuota(call.account, principal, p.availableUsdt)
      /\ p.dailySellSpace + call.amount <= call.config.dailyMaxAmount
      /\ received > 0
      /\ p.availableUsdt >= received
      /\ req' = [req EXCEPT ![r] = v]
      /\ settling[call.account] = Settled
      /\ UNCHANGED <<today, pool, balance, sold, settling>>
  BY DEF PriceSell, CanPay, AccountLocked
<1>5. offer \in Quote /\ call.amount = offer.burnAmount + offer.poolSpaceAmount
  <2> HIDE DEF call, p, received, offer, v
  <2>2. call.account \in Account /\ call.amount \in SpaceAmount /\ call.config \in Config
    BY <1>2
  <2>3. p.dailySellSpace + call.amount <= call.config.dailyMaxAmount
    BY <1>4
  <2>a. call.config.dailyMaxAmount \in Nat /\ call.config.dailyMaxAmount <= MaxDailyVolume
    BY <2>2, ConfigTypes
  <2>b. MaxDailyVolume \in Nat
    BY PoolAssumption
  <2>1. p.dailySellSpace \in 0..MaxDailyVolume
    BY <1>2, <1>3, <2>3, <2>a, <2>b
  <2> QED
    BY <2>1, <2>2, <2>3, QuoteAssumption, Zenon DEF offer
<1>6. received \in Nat
  <2>1. offer.totalUsdt \in Nat /\ call.config.sellFeeBp \in Nat
    BY <1>5, <1>2, ConfigTypes DEF Quote
  <2>2. Fee(offer.totalUsdt, call.config) \in Nat
    BY <2>1, ShareType DEF Fee
  <2>3. received > 0 /\ received = offer.totalUsdt - Fee(offer.totalUsdt, call.config)
    BY <1>4
  <2> HIDE DEF call, p, received, offer, v
  <2> QED
    BY <2>1, <2>2, <2>3
<1>7. v \in RequestState
  <2>1. balance[call.account] \in [Token -> Nat]
    BY <1>0, <1>2 DEF TypeOK
  <2> QED
    BY <1>1, <1>5, <1>6, <2>1 DEF RequestState, Quote
<1>8. req' \in [Request -> RequestState] /\ req'[r] = v
  BY <1>0, <1>4, <1>7, ReqType DEF TypeOK
<1>9. sold[call.account][today] + call.amount <= MaxQuota
  BY <1>0, <1>2, <1>3, <1>4, QuotaCheck
<1>10. Payable(r)' /\ WithinQuota(r)' /\ ReadByNow(r)'
  BY <1>3, <1>4, <1>8, <1>9 DEF Payable, WithinQuota, ReadByNow
<1>11. p.dailySellSpace + call.amount <= MaxDailyVolume
  <2>1. call.config.dailyMaxAmount \in Nat /\ call.config.dailyMaxAmount <= MaxDailyVolume
    BY <1>2, ConfigTypes
  <2> HIDE DEF call, p, received, offer, v
  <2> QED
    BY <1>2, <1>3, <1>4, <2>1, PoolAssumption
<1> QED
  BY <1>5, <1>8, <1>10, <1>11

LEMMA PriceMakerBuySound ==
  ASSUME IInv, NEW r \in Request, PriceMakerBuy(r)
  PROVE  /\ req' \in [Request -> RequestState]
         /\ req'[r].pc = "priced" /\ req'[r].call = req[r].call
         /\ req'[r].day = req[r].day
         /\ Payable(r)' /\ WithinQuota(r)' /\ ReadByNow(r)'
<1> DEFINE call == req[r].call
           p == Fresh(req[r].day)
           subsidy == (call.amount * call.config.subsidyBp) \div BpDenominator
           offer == MakerQuote(call.amount, p.dailyMakerBuySpace, call.config)
           v == [pc |-> "priced", call |-> call, day |-> req[r].day,
                 before |-> balance[call.account], usdt |-> offer.totalUsdt, burn |-> 0,
                 space |-> call.amount + subsidy]
<1>0. TypeOK
  BY DEF IInv
<1>1. call \in CallState /\ req[r].day \in Day
  BY <1>0, CallTypes DEF PriceMakerBuy, HoldsPool
<1>2. /\ call.account \in Account /\ call.amount \in SpaceAmount
      /\ call.config \in Config /\ call.amount \in Nat
  BY <1>1, PoolAssumption DEF CallState
<1>3. /\ p \in PoolState /\ p.dailyMakerBuySpace \in Nat
      /\ p.availableSpace = pool.availableSpace
  BY <1>0, <1>1, FreshType DEF PoolState
<1>4. /\ call.kind = "makerBuy"
      /\ p.dailyMakerBuySpace + call.amount <= MaxDailyVolume
      /\ p.availableSpace >= call.amount + subsidy
      /\ balance[call.account]["USDT"] >= offer.totalUsdt
      /\ req' = [req EXCEPT ![r] = v]
      /\ settling[call.account] = Settled
      /\ UNCHANGED <<today, pool, balance, sold, settling>>
  BY DEF PriceMakerBuy, CanDeliver, AccountLocked
<1>5. offer.totalUsdt \in Nat
  <2>1. p.dailyMakerBuySpace \in 0..MaxDailyVolume
    BY <1>2, <1>3, <1>4, PoolAssumption
  <2> QED
    BY <2>1, <1>2, QuoteAssumption
<1>6. subsidy \in Nat
  <2>1. call.config.subsidyBp \in Nat
    BY <1>2, ConfigTypes
  <2> QED
    BY <1>2, <2>1, ShareType
<1>7. v \in RequestState
  <2>1. balance[call.account] \in [Token -> Nat]
    BY <1>0, <1>2 DEF TypeOK
  <2> QED
    BY <1>1, <1>2, <1>5, <1>6, <2>1 DEF RequestState
<1>8. req' \in [Request -> RequestState] /\ req'[r] = v
  BY <1>0, <1>4, <1>7, ReqType DEF TypeOK
<1>9. Payable(r)' /\ WithinQuota(r)' /\ ReadByNow(r)'
  BY <1>3, <1>4, <1>8 DEF Payable, WithinQuota, ReadByNow
<1> QED
  BY <1>8, <1>9

-----------------------------------------------------------------------------
(***************************************************************************)
(* IInv is inductive.  One lemma per action, one step per conjunct.        *)
(***************************************************************************)

\* The request that holds the pool is the only priced one.
LEMMA OnlyHolder ==
  ASSUME LockInv, NEW r \in Request, HoldsPool(r), NEW q \in Request, q # r
  PROVE  ~HoldsPool(q) /\ req[q].pc # "priced"
BY DEF LockInv, HoldsPool

\* Nobody is priced while nobody holds the pool row.
LEMMA NobodyHolds ==
  ASSUME LockInv, poolLock = NoRequest, NEW q \in Request
  PROVE  ~HoldsPool(q) /\ req[q].pc # "priced"
BY PoolAssumption DEF LockInv, HoldsPool

\* Which call a step changes.
LEMMA OneCall ==
  ASSUME TypeOK, NEW r \in Request, NEW v, req' = [req EXCEPT ![r] = v]
  PROVE  req'[r] = v /\ \A q \in Request : q # r => req'[q] = req[q]
BY DEF TypeOK

\* A step that leaves the accounts alone and prices nothing.
LEMMA ReadKept ==
  ASSUME ReadInv, UNCHANGED <<balance, settling>>,
         \A q \in Request : req'[q].pc = "priced" => req'[q] = req[q]
  PROVE  ReadInv'
BY DEF ReadInv

\* A step that saves an account no settlement holds, after which nobody is priced.
LEMMA ReadWritten ==
  ASSUME TypeOK, ReadInv, NEW a \in Account, NEW space \in Int, NEW usdt \in Int,
         Trade(a, space, usdt), settling[a] = Settled, settling' = settling,
         \A q \in Request : req'[q].pc # "priced"
  PROVE  ReadInv'
<1>1. ASSUME NEW b \in Account, settling'[b] # Settled
      PROVE  balance'[b] = balance[b] /\ settling'[b] = settling[b]
  BY <1>1, TradeLocal
<1> QED
  BY <1>1 DEF ReadInv

LEMMA InitSound == Init => IInv
<1> SUFFICES ASSUME Init PROVE IInv
  OBVIOUS
<1>1. TypeOK
  BY PoolAssumption DEF Init, TypeOK, RequestState, MoveState, Token, Day
<1>2. \A r \in Request : req[r].pc = "idle"
  BY DEF Init, Done
<1>3. LockInv /\ DateInv /\ PricedInv /\ ReadInv
  BY <1>2, PoolAssumption DEF Init, LockInv, DateInv, PricedInv, ReadInv, HoldsPool
<1>4. NoSaleInTheFuture /\ UserQuotaPerDay
  BY PoolAssumption DEF Init, NoSaleInTheFuture, UserQuotaPerDay
<1>5. LogExplainsBalances
  <2> SUFFICES ASSUME NEW a \in Account, NEW t \in Token
               PROVE  balance[a][t] = InitBalance[a][t] + logged[a][t]
    BY DEF LogExplainsBalances
  <2>1. InitBalance[a][t] \in Nat
    BY PoolAssumption
  <2> QED
    BY <2>1 DEF Init
<1> QED
  BY <1>1, <1>3, <1>4, <1>5 DEF IInv

LEMMA BeginKeeps ==
  ASSUME IInv, NEW r \in Request, Begin(r)
  PROVE  IInv'
<1>0. TypeOK
  BY DEF IInv
<1>1. PICK v \in CallState : req' = [req EXCEPT ![r] = v]
  BY <1>0 DEF Begin, CallState, TypeOK
<1>2. /\ req[r].pc = "idle" /\ requests < MaxRequests /\ requests' = requests + 1
      /\ UNCHANGED <<today, config, pool, poolLock, balance, sold, logged, added,
                     moved, settling, moves>>
  BY DEF Begin
<1>3. req'[r].pc = "begun" /\ \A q \in Request : q # r => req'[q] = req[q]
  BY <1>0, <1>1, OneCall DEF CallState
<1>4. TypeOK'
  <2>1. req' \in [Request -> RequestState]
    BY <1>0, <1>1, ReqType DEF RequestState
  <2>2. requests' \in 0..MaxRequests
    BY <1>0, <1>2, PoolAssumption DEF TypeOK
  <2> QED
    BY <1>0, <1>2, <2>1, <2>2 DEF TypeOK
<1>5. \A q \in Request : HoldsPool(q)' <=> HoldsPool(q)
  BY <1>2, <1>3 DEF HoldsPool
<1>6. LockInv' /\ DateInv'
  <2>1. \A q \in Request : HoldsPool(q) => req'[q] = req[q]
    BY <1>2, <1>3 DEF HoldsPool
  <2> QED
    BY <1>2, <1>5, <2>1 DEF IInv, LockInv, DateInv
<1>7. PricedInv'
  <2> SUFFICES ASSUME NEW q \in Request, req'[q].pc = "priced"
               PROVE  Payable(q)' /\ WithinQuota(q)'
    BY DEF PricedInv
  <2>1. req'[q] = req[q]
    BY <1>3
  <2> QED
    BY <1>2, <2>1 DEF IInv, PricedInv, Payable, WithinQuota
<1>8. NoSaleInTheFuture' /\ UserQuotaPerDay' /\ LogExplainsBalances'
  BY <1>2 DEF IInv, NoSaleInTheFuture, UserQuotaPerDay, LogExplainsBalances
<1>9. ReadInv'
  <2>1. \A q \in Request : req'[q].pc = "priced" => req'[q] = req[q]
    BY <1>3
  <2> QED
    BY <1>2, <2>1, ReadKept DEF IInv
<1> QED
  BY <1>4, <1>6, <1>7, <1>8, <1>9 DEF IInv

LEMMA LockPoolKeeps ==
  ASSUME IInv, NEW r \in Request, LockPool(r)
  PROVE  IInv'
<1>0. TypeOK /\ LockInv
  BY DEF IInv
<1> DEFINE v == [pc |-> "locked", call |-> req[r], day |-> today]
<1>1. /\ req[r].pc = "begun" /\ poolLock = NoRequest /\ poolLock' = r
      /\ req' = [req EXCEPT ![r] = v]
      /\ UNCHANGED <<today, config, pool, balance, sold, logged, added, moved, settling,
                     requests, moves>>
  BY DEF LockPool
<1>2. today \in Day /\ today \in Nat
  BY <1>0, PoolAssumption DEF TypeOK, Day
<1>3. v \in RequestState
  <2>1. req[r] \in CallState
    BY <1>0, <1>1, CallTypes
  <2> QED
    BY <1>2, <2>1 DEF RequestState
<1>4. req'[r] = v /\ \A q \in Request : q # r => req'[q] = req[q]
  BY <1>0, <1>1, OneCall
<1>5. \A q \in Request : ~HoldsPool(q) /\ req[q].pc # "priced"
  BY <1>0, <1>1, NobodyHolds
<1>6. TypeOK'
  <2>1. req' \in [Request -> RequestState]
    BY <1>0, <1>1, <1>3, ReqType
  <2> QED
    BY <1>0, <1>1, <2>1 DEF TypeOK
<1>7. \A q \in Request : HoldsPool(q)' <=> q = r
  <2>1. HoldsPool(r)'
    BY <1>4 DEF HoldsPool
  <2>2. ASSUME NEW q \in Request, q # r
        PROVE  ~HoldsPool(q)'
    BY <1>4, <1>5, <2>2 DEF HoldsPool
  <2> QED
    BY <2>1, <2>2
<1>8. LockInv'
  BY <1>1, <1>7 DEF LockInv
<1>9. DateInv'
  <2>1. pool.businessDate <= today
    BY DEF IInv, DateInv
  <2>2. req'[r].day = today
    BY <1>4
  <2> QED
    BY <1>1, <1>2, <1>7, <2>1, <2>2 DEF DateInv
<1>10. PricedInv'
  <2> SUFFICES ASSUME NEW q \in Request PROVE req'[q].pc # "priced"
    BY DEF PricedInv
  <2> QED
    BY <1>4, <1>5
<1>11. NoSaleInTheFuture' /\ UserQuotaPerDay' /\ LogExplainsBalances'
  BY <1>1 DEF IInv, NoSaleInTheFuture, UserQuotaPerDay, LogExplainsBalances
<1>12. ReadInv'
  <2>1. \A q \in Request : req'[q].pc # "priced"
    BY <1>4, <1>5
  <2> QED
    BY <1>1, <2>1, ReadKept DEF IInv
<1> QED
  BY <1>6, <1>8, <1>9, <1>10, <1>11, <1>12 DEF IInv

\* Both pricing steps change nothing but the call, which was locked.
LEMMA PriceKeeps ==
  ASSUME IInv, NEW r \in Request, PriceSell(r) \/ PriceMakerBuy(r)
  PROVE  IInv'
<1>0. TypeOK /\ LockInv
  BY DEF IInv
<1>1. /\ req' \in [Request -> RequestState]
      /\ req'[r].pc = "priced" /\ req'[r].day = req[r].day
      /\ Payable(r)' /\ WithinQuota(r)' /\ ReadByNow(r)'
  BY PriceSellSound, PriceMakerBuySound
<1>2. /\ req[r].pc = "locked"
      /\ UNCHANGED <<today, config, pool, poolLock, balance, sold, logged, added,
                     moved, settling, requests, moves>>
  BY DEF PriceSell, PriceMakerBuy
<1>3. \A q \in Request : q # r => req'[q] = req[q]
  BY <1>0 DEF PriceSell, PriceMakerBuy, TypeOK
<1>4. TypeOK'
  BY <1>0, <1>1, <1>2 DEF TypeOK
<1>5. \A q \in Request : HoldsPool(q)' <=> HoldsPool(q)
  BY <1>1, <1>2, <1>3 DEF HoldsPool
<1>6. LockInv'
  BY <1>0, <1>2, <1>5 DEF LockInv
<1>7. DateInv'
  <2>1. \A q \in Request : req'[q].day = req[q].day
    BY <1>1, <1>3
  <2> QED
    BY <1>2, <1>5, <2>1 DEF IInv, DateInv
<1>8. PricedInv'
  <2> SUFFICES ASSUME NEW q \in Request, q # r PROVE req'[q].pc # "priced"
    BY <1>1 DEF PricedInv
  <2>1. HoldsPool(r)
    BY <1>2 DEF HoldsPool
  <2> QED
    BY <1>0, <1>3, <2>1, OnlyHolder
<1>9. NoSaleInTheFuture' /\ UserQuotaPerDay' /\ LogExplainsBalances'
  BY <1>2 DEF IInv, NoSaleInTheFuture, UserQuotaPerDay, LogExplainsBalances
<1>10. ReadInv'
  <2>1. ASSUME NEW q \in Request, q # r PROVE req'[q].pc # "priced"
    <3>1. HoldsPool(r)
      BY <1>2 DEF HoldsPool
    <3> QED
      BY <1>0, <1>3, <2>1, <3>1, OnlyHolder
  <2> QED
    BY <1>1, <1>2, <2>1 DEF IInv, ReadInv, ReadByNow
<1> QED
  BY <1>4, <1>6, <1>7, <1>8, <1>9, <1>10 DEF IInv

\* The holder of the pool row ends: no request holds it, none is priced.
LEMMA Released ==
  ASSUME TypeOK, LockInv, NEW r \in Request, HoldsPool(r),
         req' = [req EXCEPT ![r] = Done], poolLock' = NoRequest
  PROVE  /\ req' \in [Request -> RequestState]
         /\ \A q \in Request : ~HoldsPool(q)' /\ req'[q].pc # "priced"
         /\ LockInv' /\ PricedInv'
<1>1. Done \in RequestState /\ Done.pc = "idle"
  BY DEF RequestState, Done
<1>2. req'[r] = Done /\ \A q \in Request : q # r => req'[q] = req[q]
  BY OneCall
<1>3. ASSUME NEW q \in Request
      PROVE  ~HoldsPool(q)' /\ req'[q].pc # "priced"
  <2>1. CASE q = r
    BY <1>1, <1>2, <2>1 DEF HoldsPool
  <2>2. CASE q # r
    BY <1>2, <2>2, OnlyHolder DEF HoldsPool
  <2> QED
    BY <2>1, <2>2
<1>4. req' \in [Request -> RequestState]
  BY <1>1, ReqType
<1>5. LockInv' /\ PricedInv'
  BY <1>3, PoolAssumption DEF LockInv, PricedInv
<1> QED
  BY <1>3, <1>4, <1>5

\* What a priced trade found, and the types of what it writes.
LEMMA PricedFacts ==
  ASSUME IInv, NEW r \in Request, req[r].pc = "priced"
  PROVE  /\ HoldsPool(r) /\ Payable(r) /\ WithinQuota(r)
         /\ req[r].call \in CallState /\ req[r].call.account \in Account
         /\ req[r].call.amount \in Nat /\ req[r].day \in Day
         /\ req[r].usdt \in Nat /\ req[r].burn \in Nat /\ req[r].space \in Nat
         /\ Fresh(req[r].day) \in PoolState
         /\ Fresh(req[r].day).businessDate = req[r].day /\ req[r].day <= today
         /\ Fresh(req[r].day).availableUsdt = pool.availableUsdt
         /\ Fresh(req[r].day).availableSpace = pool.availableSpace
         /\ req[r].before = balance[req[r].call.account]
         /\ settling[req[r].call.account] = Settled
<1>0. TypeOK
  BY DEF IInv
<1>1. HoldsPool(r)
  BY DEF HoldsPool
<1>2. Payable(r) /\ WithinQuota(r)
  BY DEF IInv, PricedInv
<1>3. /\ req[r].call \in CallState /\ req[r].day \in Day
      /\ req[r].usdt \in Nat /\ req[r].burn \in Nat /\ req[r].space \in Nat
  BY <1>0, <1>1, CallTypes
<1>4. req[r].call.account \in Account /\ req[r].call.amount \in Nat
  BY <1>3, PoolAssumption DEF CallState
<1>5. req[r].day <= today
  BY <1>1 DEF IInv, DateInv
<1>6. req[r].before = balance[req[r].call.account] /\ settling[req[r].call.account] = Settled
  BY DEF IInv, ReadInv
<1> QED
  BY <1>0, <1>1, <1>2, <1>3, <1>4, <1>5, <1>6, FreshType

\* What a commit writes is a trade.
LEMMA CommitIsTrade ==
  ASSUME IInv, NEW r \in Request
  PROVE  /\ CommitSell(r) => Trade(req[r].call.account, -req[r].call.amount, req[r].usdt)
         /\ CommitMakerBuy(r) => Trade(req[r].call.account, req[r].space, -req[r].usdt)
<1> DEFINE a == req[r].call.account
<1>1. ASSUME req[r].pc = "priced"
      PROVE  TypeOK /\ a \in Account /\ req[r].before = balance[a]
  BY <1>1, PricedFacts DEF IInv
<1>2. CASE CommitSell(r)
  <2>1. req[r].pc = "priced" /\ Save(a, req[r].before, -req[r].call.amount, req[r].usdt)
    BY <1>2 DEF CommitSell
  <2>2. Trade(a, -req[r].call.amount, req[r].usdt)
    BY <1>1, <2>1, SaveIsTrade
  <2>3. ~CommitMakerBuy(r)
    BY <1>2 DEF CommitSell, CommitMakerBuy
  <2> QED
    BY <2>2, <2>3
<1>3. CASE CommitMakerBuy(r)
  <2>1. req[r].pc = "priced" /\ Save(a, req[r].before, req[r].space, -req[r].usdt)
    BY <1>3 DEF CommitMakerBuy
  <2>2. Trade(a, req[r].space, -req[r].usdt)
    BY <1>1, <2>1, SaveIsTrade
  <2>3. ~CommitSell(r)
    BY <1>3 DEF CommitSell, CommitMakerBuy
  <2> QED
    BY <2>2, <2>3
<1> QED
  BY <1>2, <1>3

\* What a transfer to an account no settlement holds writes is a trade.
LEMMA TransferIsTrade ==
  ASSUME IInv, NEW a \in Account, NEW x
  PROVE  /\ transferBurnSpace(a, x) => Trade(a, x, 0) /\ settling[a] = Settled
         /\ transferFeeUsdt(a, x) => Trade(a, 0, x) /\ settling[a] = Settled
<1>1. TypeOK
  BY DEF IInv
<1>2. CASE transferBurnSpace(a, x)
  <2>1. Save(a, balance[a], x, 0) /\ settling[a] = Settled
    BY <1>2 DEF transferBurnSpace, AccountLocked
  <2>2. Trade(a, x, 0)
    BY <1>1, <2>1, SaveIsTrade
  <2>3. transferFeeUsdt(a, x) => Trade(a, 0, x)
    BY <1>1, SaveIsTrade DEF transferFeeUsdt
  <2> QED
    BY <2>1, <2>2, <2>3
<1>3. CASE transferFeeUsdt(a, x)
  <2>1. Save(a, balance[a], 0, x) /\ settling[a] = Settled
    BY <1>3 DEF transferFeeUsdt, AccountLocked
  <2>2. Trade(a, 0, x)
    BY <1>1, <2>1, SaveIsTrade
  <2>3. transferBurnSpace(a, x) => Trade(a, x, 0)
    BY <1>1, SaveIsTrade DEF transferBurnSpace
  <2> QED
    BY <2>1, <2>2, <2>3
<1> QED
  BY <1>2, <1>3

\* What a settlement saves is a trade of one token.
SettledTrade(a) ==
  LET move == settling[a]
  IN Trade(a, IF move.token = "SPACE" THEN move.amount ELSE 0,
              IF move.token = "USDT" THEN move.amount ELSE 0)

LEMMA MoveIsTrade ==
  ASSUME IInv, NEW a \in Account, MoveSave(a)
  PROVE  /\ SettledTrade(a)
         /\ settling[a].token \in Token /\ settling[a].amount \in Int
         /\ balance[a][settling[a].token] + settling[a].amount >= 0
<1>1. TypeOK /\ settling[a] # Settled /\ settling[a] \in MoveState
  BY DEF IInv, MoveSave, TypeOK
<1>2. settling[a].token \in Token /\ settling[a].amount \in Int
  BY <1>1 DEF MoveState
<1>3. /\ settling[a].before = balance[a]
      /\ balance[a][settling[a].token] + settling[a].amount >= 0
  BY <1>1 DEF IInv, ReadInv
<1>4. SettledTrade(a)
  BY <1>1, <1>3, SaveIsTrade DEF MoveSave, SettledTrade
<1> QED
  BY <1>2, <1>3, <1>4

LEMMA CommitSellKeeps ==
  ASSUME IInv, NEW r \in Request, CommitSell(r)
  PROVE  IInv'
<1> DEFINE a == req[r].call.account
           x == req[r].call.amount
           p == Fresh(req[r].day)
<1>0. TypeOK /\ LockInv
  BY DEF IInv
<1>1. /\ req[r].pc = "priced" /\ req[r].call.kind = "sell"
      /\ Trade(a, -x, req[r].usdt)
      /\ pool' = SoldToPool(p, req[r])
      /\ sold' = [sold EXCEPT ![a][today] = @ + x]
      /\ req' = [req EXCEPT ![r] = Done] /\ poolLock' = NoRequest
      /\ UNCHANGED <<today, config, added, moved, settling, requests, moves>>
  BY CommitIsTrade DEF CommitSell, Finish
<1>2. /\ HoldsPool(r) /\ Payable(r) /\ WithinQuota(r) /\ settling[a] = Settled
      /\ a \in Account /\ x \in Nat /\ req[r].day \in Day /\ req[r].day <= today
      /\ req[r].usdt \in Nat /\ req[r].burn \in Nat /\ req[r].space \in Nat
      /\ p \in PoolState /\ p.businessDate = req[r].day
      /\ p.availableUsdt = pool.availableUsdt
  BY <1>1, PricedFacts
<1>3. balance[a]["SPACE"] >= x /\ p.availableUsdt >= req[r].usdt
  BY <1>1, <1>2 DEF Payable
<1>4. sold[a][today] + x <= MaxQuota
  BY <1>1, <1>2 DEF WithinQuota
<1>5. /\ req' \in [Request -> RequestState]
      /\ \A q \in Request : ~HoldsPool(q)' /\ req'[q].pc # "priced"
      /\ LockInv' /\ PricedInv'
  BY <1>0, <1>1, <1>2, Released
<1>6. pool' \in PoolState /\ pool'.businessDate = req[r].day
  <2>1. /\ p.availableSpace + req[r].space \in Nat
        /\ p.pendingBurnSpace + req[r].burn \in Nat
        /\ p.availableUsdt - req[r].usdt \in Nat
        /\ p.dailySellSpace + x \in Nat
    BY <1>2, <1>3 DEF PoolState
  <2> HIDE DEF p
  <2> QED
    BY <1>1, <1>2, <2>1 DEF PoolState, SoldToPool
<1>7. today \in Day /\ today \in Nat
  BY <1>0, PoolAssumption DEF TypeOK, Day
<1>8. /\ sold' \in [Account -> [Day -> Nat]]
      /\ \A b \in Account, d \in Day :
           sold'[b][d] = IF b = a /\ d = today THEN sold[a][today] + x ELSE sold[b][d]
  <2>1. sold \in [Account -> [Day -> Nat]]
    BY <1>0 DEF TypeOK
  <2>2. sold[a][today] + x \in Nat
    BY <1>2, <1>7, <2>1
  <2> HIDE DEF a, x
  <2> QED
    BY <1>1, <1>2, <1>7, <2>1, <2>2
<1>9. TypeOK'
  <2>1. balance' \in [Account -> [Token -> Nat]] /\ logged' \in [Account -> [Token -> Int]]
    <3>1. balance[a]["SPACE"] \in Nat /\ balance[a]["USDT"] \in Nat
      BY <1>0, <1>2 DEF TypeOK, Token
    <3>2. -x \in Int /\ req[r].usdt \in Int
      BY <1>2
    <3>3. balance[a]["SPACE"] + (-x) >= 0 /\ balance[a]["USDT"] + req[r].usdt >= 0
      BY <1>2, <1>3, <3>1
    <3> QED
      BY <1>0, <1>1, <1>2, <3>2, <3>3, TradeType
  <2> QED
    BY <1>0, <1>1, <1>5, <1>6, <1>8, <2>1 DEF TypeOK
<1>10. DateInv'
  BY <1>1, <1>2, <1>5, <1>6 DEF DateInv
<1>11. NoSaleInTheFuture'
  <2> SUFFICES ASSUME NEW b \in Account, NEW d \in Day, d > today
               PROVE  sold'[b][d] = 0
    BY <1>1 DEF NoSaleInTheFuture
  <2>1. d # today
    BY <1>7 DEF Day
  <2> QED
    BY <1>8, <2>1 DEF IInv, NoSaleInTheFuture
<1>12. UserQuotaPerDay'
  BY <1>4, <1>8 DEF IInv, UserQuotaPerDay
<1>13. LogExplainsBalances'
  <2>1. LogExplainsBalances /\ -x \in Int /\ req[r].usdt \in Int
    BY <1>2 DEF IInv
  <2> QED
    BY <1>0, <1>1, <1>2, <2>1, TradeLogged
<1>14. ReadInv'
  <2>1. -x \in Int /\ req[r].usdt \in Int
    BY <1>2
  <2> QED
    BY <1>0, <1>1, <1>2, <1>5, <2>1, ReadWritten DEF IInv
<1> QED
  BY <1>5, <1>9, <1>10, <1>11, <1>12, <1>13, <1>14 DEF IInv

LEMMA CommitMakerBuyKeeps ==
  ASSUME IInv, NEW r \in Request, CommitMakerBuy(r)
  PROVE  IInv'
<1> DEFINE a == req[r].call.account
           x == req[r].call.amount
           p == Fresh(req[r].day)
           receiver == receiverAmount(req[r].usdt)
<1>0. TypeOK /\ LockInv
  BY DEF IInv
<1>1. /\ req[r].pc = "priced" /\ req[r].call.kind = "makerBuy"
      /\ Trade(a, req[r].space, -req[r].usdt)
      /\ pool' = BoughtFromPool(p, req[r])
      /\ req' = [req EXCEPT ![r] = Done] /\ poolLock' = NoRequest
      /\ UNCHANGED <<today, config, sold, added, moved, settling, requests, moves>>
  BY CommitIsTrade DEF CommitMakerBuy, Finish
<1>2. /\ HoldsPool(r) /\ Payable(r) /\ settling[a] = Settled
      /\ a \in Account /\ x \in Nat /\ req[r].day \in Day /\ req[r].day <= today
      /\ req[r].usdt \in Nat /\ req[r].space \in Nat
      /\ p \in PoolState /\ p.businessDate = req[r].day
      /\ p.availableSpace = pool.availableSpace
  BY <1>1, PricedFacts
<1>3. balance[a]["USDT"] >= req[r].usdt /\ p.availableSpace >= req[r].space
  BY <1>1, <1>2 DEF Payable
<1>4. /\ req' \in [Request -> RequestState]
      /\ \A q \in Request : ~HoldsPool(q)' /\ req'[q].pc # "priced"
      /\ LockInv' /\ PricedInv'
  BY <1>0, <1>1, <1>2, Released
<1>5. receiver \in Nat /\ receiver <= req[r].usdt
  BY <1>2 DEF receiverAmount
<1>6. pool' \in PoolState /\ pool'.businessDate = req[r].day
  <2>1. /\ p.availableSpace - req[r].space \in Nat
        /\ p.availableUsdt + (req[r].usdt - receiver) \in Nat
        /\ p.pendingFeeUsdt + receiver \in Nat
        /\ p.dailyMakerBuySpace + x \in Nat
    <3> HIDE DEF receiver
    <3> QED
      BY <1>2, <1>3, <1>5 DEF PoolState
  <2> HIDE DEF p
  <2> QED
    BY <1>1, <1>2, <2>1 DEF PoolState, BoughtFromPool
<1>7. TypeOK'
  <2>1. balance' \in [Account -> [Token -> Nat]] /\ logged' \in [Account -> [Token -> Int]]
    <3>1. balance[a]["SPACE"] \in Nat /\ balance[a]["USDT"] \in Nat
      BY <1>0, <1>2 DEF TypeOK, Token
    <3>2. req[r].space \in Int /\ -req[r].usdt \in Int
      BY <1>2
    <3>3. balance[a]["SPACE"] + req[r].space >= 0
          /\ balance[a]["USDT"] + (-req[r].usdt) >= 0
      BY <1>2, <1>3, <3>1
    <3> QED
      BY <1>0, <1>1, <1>2, <3>2, <3>3, TradeType
  <2> QED
    BY <1>0, <1>1, <1>4, <1>6, <2>1 DEF TypeOK
<1>8. DateInv'
  BY <1>1, <1>2, <1>4, <1>6 DEF DateInv
<1>9. NoSaleInTheFuture' /\ UserQuotaPerDay'
  BY <1>1 DEF IInv, NoSaleInTheFuture, UserQuotaPerDay
<1>10. LogExplainsBalances'
  <2>1. LogExplainsBalances /\ req[r].space \in Int /\ -req[r].usdt \in Int
    BY <1>2 DEF IInv
  <2> QED
    BY <1>0, <1>1, <1>2, <2>1, TradeLogged
<1>11. ReadInv'
  <2>1. req[r].space \in Int /\ -req[r].usdt \in Int
    BY <1>2
  <2> QED
    BY <1>0, <1>1, <1>2, <1>4, <2>1, ReadWritten DEF IInv
<1> QED
  BY <1>4, <1>7, <1>8, <1>9, <1>10, <1>11 DEF IInv

LEMMA AbortKeeps ==
  ASSUME IInv, NEW r \in Request, Abort(r)
  PROVE  IInv'
<1>0. TypeOK /\ LockInv
  BY DEF IInv
<1>1. /\ req' = [req EXCEPT ![r] = Done]
      /\ poolLock' = IF poolLock = r THEN NoRequest ELSE poolLock
      /\ UNCHANGED <<today, config, pool, balance, sold, logged, added, moved, settling,
                     requests, moves>>
  BY DEF Abort
<1>2. Done \in RequestState /\ Done.pc = "idle"
  BY DEF RequestState, Done
<1>3. req'[r] = Done /\ \A q \in Request : q # r => req'[q] = req[q]
  BY <1>0, <1>1, OneCall
<1>4. TypeOK'
  <2>1. req' \in [Request -> RequestState]
    BY <1>0, <1>1, <1>2, ReqType
  <2> QED
    BY <1>0, <1>1, <2>1 DEF TypeOK
<1>5. \A q \in Request : HoldsPool(q)' <=> HoldsPool(q) /\ q # r
  BY <1>2, <1>3 DEF HoldsPool
<1>6. LockInv'
  BY <1>0, <1>1, <1>5, PoolAssumption DEF LockInv
<1>7. DateInv'
  BY <1>1, <1>3, <1>5 DEF IInv, DateInv
<1>8. PricedInv'
  <2> SUFFICES ASSUME NEW q \in Request, req'[q].pc = "priced"
               PROVE  Payable(q)' /\ WithinQuota(q)'
    BY DEF PricedInv
  <2>1. req'[q] = req[q]
    BY <1>2, <1>3
  <2> QED
    BY <1>1, <2>1 DEF IInv, PricedInv, Payable, WithinQuota
<1>9. NoSaleInTheFuture' /\ UserQuotaPerDay' /\ LogExplainsBalances'
  BY <1>1 DEF IInv, NoSaleInTheFuture, UserQuotaPerDay, LogExplainsBalances
<1>10. ReadInv'
  <2>1. \A q \in Request : req'[q].pc = "priced" => req'[q] = req[q]
    BY <1>2, <1>3
  <2> QED
    BY <1>1, <2>1, ReadKept DEF IInv
<1> QED
  BY <1>4, <1>6, <1>7, <1>8, <1>9, <1>10 DEF IInv

\* A step under a free pool lock that leaves the calls alone.
LEMMA QuietCalls ==
  ASSUME LockInv, poolLock = NoRequest, UNCHANGED <<poolLock, req>>
  PROVE  /\ LockInv' /\ PricedInv'
         /\ \A q \in Request : ~HoldsPool(q)' /\ req'[q].pc # "priced"
<1>1. \A q \in Request : ~HoldsPool(q) /\ req[q].pc # "priced"
  BY NobodyHolds
<1> QED
  BY <1>1 DEF LockInv, PricedInv, HoldsPool

LEMMA MovingType ==
  ASSUME TypeOK, Moving
  PROVE  moves' \in 0..MaxMoves
BY PoolAssumption DEF TypeOK, Moving

LEMMA AddPoolUsdtKeeps ==
  ASSUME IInv, NEW x \in PoolAmount, addPoolUsdt(x)
  PROVE  IInv'
<1>0. TypeOK /\ LockInv /\ x \in Nat
  BY PoolAssumption DEF IInv
<1>1. /\ Moving /\ poolLock = NoRequest /\ added' = added + x
      /\ pool' = [pool EXCEPT !.availableUsdt = @ + x]
      /\ UNCHANGED <<today, config, poolLock, balance, req, sold, logged, moved, settling,
                     requests>>
  BY DEF addPoolUsdt
<1>2. pool' \in PoolState /\ pool'.businessDate = pool.businessDate
  <2>1. pool \in PoolState
    BY <1>0 DEF TypeOK
  <2>2. pool.availableUsdt + x \in Nat
    BY <1>0, <1>1, <2>1 DEF PoolState
  <2> QED
    BY <1>1, <2>1, <2>2 DEF PoolState
<1>3. /\ LockInv' /\ PricedInv'
      /\ \A q \in Request : ~HoldsPool(q)' /\ req'[q].pc # "priced"
  BY <1>0, <1>1, QuietCalls
<1>4. TypeOK'
  BY <1>0, <1>1, <1>2, MovingType DEF TypeOK
<1>5. DateInv'
  BY <1>1, <1>2, <1>3 DEF IInv, DateInv
<1>6. NoSaleInTheFuture' /\ UserQuotaPerDay' /\ LogExplainsBalances'
  BY <1>1 DEF IInv, NoSaleInTheFuture, UserQuotaPerDay, LogExplainsBalances
<1>7. ReadInv'
  BY <1>1, <1>3, ReadKept DEF IInv
<1> QED
  BY <1>3, <1>4, <1>5, <1>6, <1>7 DEF IInv

LEMMA TransferBurnSpaceKeeps ==
  ASSUME IInv, NEW a \in Account, NEW x \in PoolAmount, transferBurnSpace(a, x)
  PROVE  IInv'
<1>0. TypeOK /\ LockInv /\ LogExplainsBalances /\ x \in Nat
  BY PoolAssumption DEF IInv
<1>1. /\ Moving /\ poolLock = NoRequest /\ pool.pendingBurnSpace >= x
      /\ pool' = [pool EXCEPT !.pendingBurnSpace = @ - x, !.totalBurnedSpace = @ + x]
      /\ Trade(a, x, 0) /\ settling[a] = Settled
      /\ UNCHANGED <<today, config, poolLock, req, sold, added, moved, settling, requests>>
  BY TransferIsTrade DEF transferBurnSpace
<1>2. pool' \in PoolState /\ pool'.businessDate = pool.businessDate
  <2>1. pool \in PoolState
    BY <1>0 DEF TypeOK
  <2>2. pool.pendingBurnSpace - x \in Nat /\ pool.totalBurnedSpace + x \in Nat
    BY <1>0, <1>1, <2>1 DEF PoolState
  <2> QED
    BY <1>1, <2>1, <2>2 DEF PoolState
<1>3. /\ LockInv' /\ PricedInv'
      /\ \A q \in Request : ~HoldsPool(q)' /\ req'[q].pc # "priced"
  BY <1>0, <1>1, QuietCalls
<1>4. balance' \in [Account -> [Token -> Nat]] /\ logged' \in [Account -> [Token -> Int]]
  <2>1. balance[a]["SPACE"] \in Nat /\ balance[a]["USDT"] \in Nat
    BY <1>0 DEF TypeOK, Token
  <2>2. balance[a]["SPACE"] + x >= 0 /\ balance[a]["USDT"] + 0 >= 0
    BY <1>0, <2>1
  <2> QED
    BY <1>0, <1>1, <2>2, TradeType
<1>5. TypeOK'
  BY <1>0, <1>1, <1>2, <1>4, MovingType DEF TypeOK
<1>6. DateInv'
  BY <1>1, <1>2, <1>3 DEF IInv, DateInv
<1>7. NoSaleInTheFuture' /\ UserQuotaPerDay'
  BY <1>1 DEF IInv, NoSaleInTheFuture, UserQuotaPerDay
<1>8. LogExplainsBalances'
  <2>1. x \in Int /\ 0 \in Int
    BY <1>0
  <2> QED
    BY <1>0, <1>1, <2>1, TradeLogged
<1>9. ReadInv'
  <2>1. x \in Int /\ 0 \in Int
    BY <1>0
  <2> QED
    BY <1>0, <1>1, <1>3, <2>1, ReadWritten DEF IInv
<1> QED
  BY <1>3, <1>5, <1>6, <1>7, <1>8, <1>9 DEF IInv

LEMMA TransferFeeUsdtKeeps ==
  ASSUME IInv, NEW a \in Account, NEW x \in PoolAmount, transferFeeUsdt(a, x)
  PROVE  IInv'
<1>0. TypeOK /\ LockInv /\ LogExplainsBalances /\ x \in Nat
  BY PoolAssumption DEF IInv
<1>1. /\ Moving /\ poolLock = NoRequest /\ pool.pendingFeeUsdt >= x
      /\ pool' = [pool EXCEPT !.pendingFeeUsdt = @ - x]
      /\ Trade(a, 0, x) /\ settling[a] = Settled
      /\ UNCHANGED <<today, config, poolLock, req, sold, added, moved, settling, requests>>
  BY TransferIsTrade DEF transferFeeUsdt
<1>2. pool' \in PoolState /\ pool'.businessDate = pool.businessDate
  <2>1. pool \in PoolState
    BY <1>0 DEF TypeOK
  <2>2. pool.pendingFeeUsdt - x \in Nat
    BY <1>0, <1>1, <2>1 DEF PoolState
  <2> QED
    BY <1>1, <2>1, <2>2 DEF PoolState
<1>3. /\ LockInv' /\ PricedInv'
      /\ \A q \in Request : ~HoldsPool(q)' /\ req'[q].pc # "priced"
  BY <1>0, <1>1, QuietCalls
<1>4. balance' \in [Account -> [Token -> Nat]] /\ logged' \in [Account -> [Token -> Int]]
  <2>1. balance[a]["SPACE"] \in Nat /\ balance[a]["USDT"] \in Nat
    BY <1>0 DEF TypeOK, Token
  <2>2. balance[a]["SPACE"] + 0 >= 0 /\ balance[a]["USDT"] + x >= 0
    BY <1>0, <2>1
  <2> QED
    BY <1>0, <1>1, <2>2, TradeType
<1>5. TypeOK'
  BY <1>0, <1>1, <1>2, <1>4, MovingType DEF TypeOK
<1>6. DateInv'
  BY <1>1, <1>2, <1>3 DEF IInv, DateInv
<1>7. NoSaleInTheFuture' /\ UserQuotaPerDay'
  BY <1>1 DEF IInv, NoSaleInTheFuture, UserQuotaPerDay
<1>8. LogExplainsBalances'
  <2>1. x \in Int /\ 0 \in Int
    BY <1>0
  <2> QED
    BY <1>0, <1>1, <2>1, TradeLogged
<1>9. ReadInv'
  <2>1. x \in Int /\ 0 \in Int
    BY <1>0
  <2> QED
    BY <1>0, <1>1, <1>3, <2>1, ReadWritten DEF IInv
<1> QED
  BY <1>3, <1>5, <1>6, <1>7, <1>8, <1>9 DEF IInv

LEMMA ResetDailyStateKeeps ==
  ASSUME IInv, resetDailyState
  PROVE  IInv'
<1>0. TypeOK /\ LockInv
  BY DEF IInv
<1>1. /\ poolLock = NoRequest /\ pool' = Fresh(today)
      /\ UNCHANGED <<today, config, poolLock, balance, req, sold, logged, added,
                     moved, settling, requests, moves>>
  BY DEF resetDailyState
<1>2. today \in Day /\ today \in Nat
  BY <1>0, PoolAssumption DEF TypeOK, Day
<1>3. pool' \in PoolState /\ pool'.businessDate = today
  BY <1>0, <1>1, <1>2, FreshType
<1>4. /\ LockInv' /\ PricedInv'
      /\ \A q \in Request : ~HoldsPool(q)' /\ req'[q].pc # "priced"
  BY <1>0, <1>1, QuietCalls
<1>5. TypeOK'
  BY <1>0, <1>1, <1>3 DEF TypeOK
<1>6. DateInv'
  BY <1>1, <1>2, <1>3, <1>4 DEF DateInv
<1>7. NoSaleInTheFuture' /\ UserQuotaPerDay' /\ LogExplainsBalances'
  BY <1>1 DEF IInv, NoSaleInTheFuture, UserQuotaPerDay, LogExplainsBalances
<1>8. ReadInv'
  BY <1>1, <1>4, ReadKept DEF IInv
<1> QED
  BY <1>4, <1>5, <1>6, <1>7, <1>8 DEF IInv

LEMMA UpdateConfigKeeps ==
  ASSUME IInv, updateConfig
  PROVE  IInv'
<1>0. TypeOK
  BY DEF IInv
<1>1. /\ Moving /\ config' \in Config
      /\ UNCHANGED <<today, pool, poolLock, balance, req, sold, logged, added,
                     moved, settling, requests>>
  BY DEF updateConfig
<1>2. TypeOK'
  BY <1>0, <1>1, MovingType DEF TypeOK
<1> QED
  BY <1>1, <1>2 DEF IInv, LockInv, DateInv, PricedInv, ReadInv, HoldsPool, Payable,
                    WithinQuota, NoSaleInTheFuture, UserQuotaPerDay,
                    LogExplainsBalances

LEMMA MoveReadKeeps ==
  ASSUME IInv, NEW a \in Account, NEW t \in Token, NEW x \in Int, MoveRead(a, t, x)
  PROVE  IInv'
<1> DEFINE v == [pc |-> "read", token |-> t, amount |-> x, before |-> balance[a]]
<1>0. TypeOK /\ ReadInv
  BY DEF IInv
<1>1. /\ Moving /\ ~AccountLocked(a) /\ balance[a][t] + x >= 0
      /\ settling' = [settling EXCEPT ![a] = v]
      /\ UNCHANGED <<today, config, pool, poolLock, balance, req, sold, logged, added,
                     moved, requests>>
  BY DEF MoveRead
<1>2. settling'[a] = v /\ \A b \in Account : b # a => settling'[b] = settling[b]
  BY <1>0, <1>1 DEF TypeOK
<1>3. TypeOK'
  <2>1. v \in MoveState
    BY <1>0 DEF MoveState, TypeOK
  <2>2. settling' \in [Account -> MoveState]
    BY <1>0, <1>1, <2>1 DEF TypeOK
  <2> QED
    BY <1>0, <1>1, <2>2, MovingType DEF TypeOK
<1>4. LockInv' /\ DateInv' /\ PricedInv'
  BY <1>1 DEF IInv, LockInv, DateInv, PricedInv, HoldsPool, Payable, WithinQuota
<1>5. NoSaleInTheFuture' /\ UserQuotaPerDay' /\ LogExplainsBalances'
  BY <1>1 DEF IInv, NoSaleInTheFuture, UserQuotaPerDay, LogExplainsBalances
<1>6. ReadInv'
  <2>1. ASSUME NEW q \in Request, req'[q].pc = "priced"
        PROVE  /\ req'[q].before = balance'[req'[q].call.account]
               /\ settling'[req'[q].call.account] = Settled
    <3>1. req'[q] = req[q]
      BY <1>1
    <3>2. req[q].call.account \in Account /\ req[q].call.account # a
      BY <1>1, <2>1, <3>1, PricedFacts DEF AccountLocked
    <3> QED
      BY <1>0, <1>1, <1>2, <2>1, <3>1, <3>2 DEF ReadInv
  <2>2. ASSUME NEW b \in Account, settling'[b] # Settled
        PROVE  /\ settling'[b].before = balance'[b]
               /\ balance'[b][settling'[b].token] + settling'[b].amount >= 0
    BY <1>0, <1>1, <1>2, <2>2 DEF ReadInv
  <2> QED
    BY <2>1, <2>2 DEF ReadInv
<1> QED
  BY <1>3, <1>4, <1>5, <1>6 DEF IInv

LEMMA MoveSaveKeeps ==
  ASSUME IInv, NEW a \in Account, MoveSave(a)
  PROVE  IInv'
<1>0. TypeOK /\ LogExplainsBalances /\ ReadInv
  BY DEF IInv
<1>a. PICK t \in Token, x \in Int : t = settling[a].token /\ x = settling[a].amount
  BY MoveIsTrade
<1> DEFINE space == IF t = "SPACE" THEN x ELSE 0
           usdt == IF t = "USDT" THEN x ELSE 0
<1>1. /\ settling[a] # Settled /\ balance[a][t] + x >= 0
      /\ Trade(a, space, usdt) /\ space \in Int /\ usdt \in Int
      /\ moved' = [moved EXCEPT ![t] = @ + x]
      /\ settling' = [settling EXCEPT ![a] = Settled]
      /\ UNCHANGED <<today, config, pool, poolLock, req, sold, added, requests, moves>>
  <2>1. SettledTrade(a) /\ balance[a][t] + x >= 0
    BY <1>a, MoveIsTrade
  <2>2. Trade(a, space, usdt)
    BY <1>a, <2>1 DEF SettledTrade
  <2>3. /\ settling[a] # Settled
        /\ moved' = [moved EXCEPT ![t] = @ + x]
        /\ settling' = [settling EXCEPT ![a] = Settled]
        /\ UNCHANGED <<today, config, pool, poolLock, req, sold, added, requests, moves>>
    BY <1>a DEF MoveSave
  <2>4. space \in Int /\ usdt \in Int
    OBVIOUS
  <2> HIDE DEF space, usdt
  <2> QED
    BY <2>1, <2>2, <2>3, <2>4
<1>2. balance' \in [Account -> [Token -> Nat]] /\ logged' \in [Account -> [Token -> Int]]
  <2>1. balance[a]["SPACE"] \in Nat /\ balance[a]["USDT"] \in Nat
    BY <1>0 DEF TypeOK, Token
  <2>2. balance[a]["SPACE"] + space >= 0 /\ balance[a]["USDT"] + usdt >= 0
    BY <1>1, <2>1 DEF Token
  <2> HIDE DEF space, usdt
  <2> QED
    BY <1>0, <1>1, <2>2, TradeType
<1>3. TypeOK'
  <2>1. moved' \in [Token -> Int]
    BY <1>0, <1>1 DEF TypeOK
  <2>2. settling' \in [Account -> MoveState]
    BY <1>0, <1>1 DEF TypeOK, MoveState
  <2> QED
    BY <1>0, <1>1, <1>2, <2>1, <2>2 DEF TypeOK
<1>4. LockInv' /\ DateInv' /\ NoSaleInTheFuture' /\ UserQuotaPerDay'
  BY <1>1 DEF IInv, LockInv, DateInv, HoldsPool, NoSaleInTheFuture, UserQuotaPerDay
<1>5. ASSUME NEW b \in Account, b # a
      PROVE  balance'[b] = balance[b] /\ settling'[b] = settling[b]
  <2> HIDE DEF space, usdt
  <2> QED
    BY <1>0, <1>1, <1>5, TradeLocal DEF TypeOK
<1>6. ASSUME NEW q \in Request, req[q].pc = "priced"
      PROVE  req[q].call.account \in Account /\ req[q].call.account # a
  BY <1>1, <1>6, PricedFacts
<1>7. PricedInv'
  <2> SUFFICES ASSUME NEW q \in Request, req[q].pc = "priced"
               PROVE  Payable(q)' /\ WithinQuota(q)'
    BY <1>1 DEF PricedInv
  <2>1. Payable(q) /\ WithinQuota(q)
    BY PricedFacts
  <2>3. balance'[req[q].call.account] = balance[req[q].call.account]
    BY <1>5, <1>6
  <2> QED
    BY <1>1, <2>1, <2>3 DEF Payable, WithinQuota
<1>8. LogExplainsBalances'
  <2> HIDE DEF space, usdt
  <2> QED
    BY <1>0, <1>1, TradeLogged
<1>9. ReadInv'
  <2>1. ASSUME NEW q \in Request, req'[q].pc = "priced"
        PROVE  /\ req'[q].before = balance'[req'[q].call.account]
               /\ settling'[req'[q].call.account] = Settled
    <3>1. req'[q] = req[q]
      BY <1>1
    <3> QED
      BY <1>0, <1>5, <1>6, <2>1, <3>1 DEF ReadInv
  <2>2. ASSUME NEW b \in Account, settling'[b] # Settled
        PROVE  b # a
    BY <1>0, <1>1, <2>2 DEF TypeOK
  <2>3. ASSUME NEW b \in Account, settling'[b] # Settled
        PROVE  /\ settling'[b].before = balance'[b]
               /\ balance'[b][settling'[b].token] + settling'[b].amount >= 0
    BY <1>0, <1>5, <2>2, <2>3 DEF ReadInv
  <2> QED
    BY <2>1, <2>3 DEF ReadInv
<1> QED
  BY <1>3, <1>4, <1>7, <1>8, <1>9 DEF IInv

LEMMA MoveAbortKeeps ==
  ASSUME IInv, NEW a \in Account, MoveAbort(a)
  PROVE  IInv'
<1>0. TypeOK /\ ReadInv
  BY DEF IInv
<1>1. /\ settling' = [settling EXCEPT ![a] = Settled]
      /\ UNCHANGED <<today, config, pool, poolLock, balance, req, sold, logged, added,
                     moved, requests, moves>>
  BY DEF MoveAbort
<1>2. settling'[a] = Settled /\ \A b \in Account : b # a => settling'[b] = settling[b]
  BY <1>0, <1>1 DEF TypeOK
<1>3. TypeOK'
  <2>1. settling' \in [Account -> MoveState]
    BY <1>0, <1>1 DEF TypeOK, MoveState
  <2> QED
    BY <1>0, <1>1, <2>1 DEF TypeOK
<1>4. LockInv' /\ DateInv' /\ PricedInv'
  BY <1>1 DEF IInv, LockInv, DateInv, PricedInv, HoldsPool, Payable, WithinQuota
<1>5. NoSaleInTheFuture' /\ UserQuotaPerDay' /\ LogExplainsBalances'
  BY <1>1 DEF IInv, NoSaleInTheFuture, UserQuotaPerDay, LogExplainsBalances
<1>6. ReadInv'
  <2>1. ASSUME NEW q \in Request, req[q].pc = "priced"
        PROVE  settling'[req[q].call.account] = Settled
    BY <1>2, <2>1, PricedFacts
  <2>2. ASSUME NEW b \in Account, settling'[b] # Settled
        PROVE  settling'[b] = settling[b]
    BY <1>2, <2>2
  <2> QED
    BY <1>0, <1>1, <2>1, <2>2 DEF ReadInv
<1> QED
  BY <1>3, <1>4, <1>5, <1>6 DEF IInv

LEMMA MidnightKeeps ==
  ASSUME IInv, Midnight
  PROVE  IInv'
<1>0. TypeOK
  BY DEF IInv
<1>1. /\ today < MaxDay /\ today' = today + 1
      /\ UNCHANGED <<config, pool, poolLock, balance, req, sold, logged, added,
                     moved, settling, requests, moves>>
  BY DEF Midnight
<1>2. /\ today \in Nat /\ today' \in Day /\ today' \in 1..MaxDay /\ today < today'
  BY <1>0, <1>1, PoolAssumption DEF TypeOK, Day
<1>3. TypeOK'
  BY <1>0, <1>1, <1>2 DEF TypeOK
<1>4. LockInv'
  BY <1>1 DEF IInv, LockInv, HoldsPool
<1>5. DateInv'
  <2>1. pool.businessDate \in Nat
    BY <1>0 DEF TypeOK, PoolState, Day
  <2>2. \A q \in Request : HoldsPool(q) => req[q].day \in Nat
    BY <1>0, CallTypes DEF Day
  <2> QED
    BY <1>1, <1>2, <2>1, <2>2 DEF IInv, DateInv, HoldsPool
<1>6. NoSaleInTheFuture'
  BY <1>1, <1>2 DEF IInv, NoSaleInTheFuture, Day
<1>7. UserQuotaPerDay' /\ LogExplainsBalances'
  BY <1>1 DEF IInv, UserQuotaPerDay, LogExplainsBalances
<1>8. PricedInv'
  <2> SUFFICES ASSUME NEW q \in Request, req[q].pc = "priced"
               PROVE  Payable(q)' /\ WithinQuota(q)'
    BY <1>1 DEF PricedInv
  <2> DEFINE a == req[q].call.account
  <2>1. /\ Payable(q) /\ WithinQuota(q) /\ a \in Account
        /\ req[q].call.amount \in Nat
    BY PricedFacts
  <2>2. sold[a][today'] = 0 /\ sold[a][today] \in Nat
    <3>1. today \in Day
      BY <1>0, PoolAssumption DEF TypeOK, Day
    <3>2. sold[a][today] \in Nat
      BY <1>0, <2>1, <3>1 DEF TypeOK
    <3> QED
      BY <1>2, <2>1, <3>2 DEF IInv, NoSaleInTheFuture
  <2>3. MaxQuota \in Nat
    BY PoolAssumption
  <2>4. WithinQuota(q)'
    BY <1>1, <2>1, <2>2, <2>3 DEF WithinQuota
  <2> QED
    BY <1>1, <2>1, <2>4 DEF Payable
<1>9. ReadInv'
  BY <1>1, ReadKept DEF IInv
<1> QED
  BY <1>3, <1>4, <1>5, <1>6, <1>7, <1>8, <1>9 DEF IInv

LEMMA StutterKeeps ==
  ASSUME IInv, UNCHANGED vars
  PROVE  IInv'
BY DEF IInv, vars, TypeOK, LockInv, DateInv, PricedInv, ReadInv, HoldsPool, Payable,
       WithinQuota, NoSaleInTheFuture, UserQuotaPerDay, LogExplainsBalances

LEMMA StepKeeps == IInv /\ [Next]_vars => IInv'
<1> SUFFICES ASSUME IInv, [Next]_vars PROVE IInv'
  OBVIOUS
<1>1. CASE UNCHANGED vars
  BY <1>1, StutterKeeps
<1>2. ASSUME NEW r \in Request, Call(r)
      PROVE  IInv'
  BY <1>2, BeginKeeps, LockPoolKeeps, PriceKeeps, CommitSellKeeps,
     CommitMakerBuyKeeps, AbortKeeps DEF Call
<1>3. CASE Admin
  BY <1>3, AddPoolUsdtKeeps, TransferBurnSpaceKeeps, TransferFeeUsdtKeeps,
     UpdateConfigKeeps DEF Admin
<1>4. CASE resetDailyState
  BY <1>4, ResetDailyStateKeeps
<1>5. ASSUME NEW a \in Account, NEW t \in Token, NEW x \in MoveAmount,
             MoveRead(a, t, x) \/ MoveRead(a, t, -x)
      PROVE  IInv'
  <2>1. x \in Int /\ -x \in Int
    BY PoolAssumption
  <2> QED
    BY <1>5, <2>1, MoveReadKeeps
<1>7. ASSUME NEW a \in Account, MoveSave(a) \/ MoveAbort(a)
      PROVE  IInv'
  BY <1>7, MoveSaveKeeps, MoveAbortKeeps
<1>6. CASE Midnight
  BY <1>6, MidnightKeeps
<1> QED
  BY <1>1, <1>2, <1>3, <1>4, <1>5, <1>6, <1>7 DEF Next

THEOREM Invariance == Spec => []IInv
<1> QED
  BY InitSound, StepKeeps, PTL DEF Spec

-----------------------------------------------------------------------------
(***************************************************************************)
(* The results.                                                            *)
(***************************************************************************)

\* No balance and no counter of the pool goes below zero, however the trades,
\* the transfers and the settlements interleave.
THEOREM TypeCorrect == Spec => []TypeOK
<1>1. IInv => TypeOK
  BY DEF IInv
<1> QED
  BY <1>1, Invariance, PTL

\* However trades, settlements, withdrawals and transfers interleave, each of them
\* writing balances computed from what it read, no write loses what another logged.
THEOREM LogExplains == Spec => []LogExplainsBalances
<1>1. IInv => LogExplainsBalances
  BY DEF IInv
<1> QED
  BY <1>1, Invariance, PTL

\* getDailySellQuota bounds what an account sells on any date, also for the
\* sales checked before midnight and dated after it.
THEOREM QuotaPerDay == Spec => []UserQuotaPerDay
<1>1. IInv => UserQuotaPerDay
  BY DEF IInv
<1> QED
  BY <1>1, Invariance, PTL

\* What a commit adds to the counters of the day it locked the pool on.
LEMMA CommitCounts ==
  ASSUME IInv, NEW r \in Request, CommitSell(r) \/ CommitMakerBuy(r)
  PROVE  CountersFall
<1> DEFINE p == Fresh(req[r].day)
           x == req[r].call.amount
<1>0. TypeOK /\ DateInv
  BY DEF IInv
<1>1. /\ req[r].pc = "priced"
      /\ pool' = SoldToPool(p, req[r]) \/ pool' = BoughtFromPool(p, req[r])
  BY DEF CommitSell, CommitMakerBuy
<1>2. /\ HoldsPool(r) /\ x \in Nat /\ req[r].day \in Day
      /\ p \in PoolState /\ p.businessDate = req[r].day
  BY <1>1, PricedFacts
<1>3. req[r].day >= pool.businessDate
  <2> HIDE DEF p, x
  <2>a. pool \in PoolState
    BY <1>0 DEF TypeOK
  <2>1. pool.businessDate \in Nat /\ req[r].day \in Nat
    BY <1>2, <2>a DEF PoolState, Day
  <2>2. pool.businessDate <= req[r].day
    BY <1>0, <1>2 DEF DateInv
  <2> QED
    BY <2>1, <2>2
<1>4. /\ pool'.businessDate = p.businessDate
      /\ pool'.dailySellSpace = p.dailySellSpace
           \/ pool'.dailySellSpace = p.dailySellSpace + x
      /\ pool'.dailyMakerBuySpace = p.dailyMakerBuySpace
           \/ pool'.dailyMakerBuySpace = p.dailyMakerBuySpace + x
  <2> HIDE DEF p
  <2>1. CASE pool' = SoldToPool(p, req[r])
    BY <1>2, <2>1 DEF SoldToPool, PoolState
  <2>2. CASE pool' = BoughtFromPool(p, req[r])
    BY <1>2, <2>2 DEF BoughtFromPool, PoolState
  <2> QED
    BY <1>1, <2>1, <2>2
<1>5. pool.businessDate = req[r].day => p = pool
  BY <1>0, <1>2, FreshType
<1>6. p.dailySellSpace \in Nat /\ p.dailyMakerBuySpace \in Nat
  BY <1>2 DEF PoolState
<1> HIDE DEF p, x
<1> QED
  BY <1>2, <1>3, <1>4, <1>5, <1>6 DEF CountersFall

LEMMA CountersStep == IInv /\ [Next]_vars => [CountersFall]_vars
<1> SUFFICES ASSUME IInv, Next PROVE CountersFall
  BY DEF vars
<1>0. /\ TypeOK /\ DateInv /\ pool \in PoolState /\ pool.businessDate \in Nat
      /\ pool.dailySellSpace \in Nat /\ pool.dailyMakerBuySpace \in Nat
  BY DEF IInv, TypeOK, PoolState, Day
<1>1. ASSUME UNCHANGED pool
      PROVE  CountersFall
  BY <1>0, <1>1 DEF CountersFall
<1>2. ASSUME NEW r \in Request, Call(r)
      PROVE  CountersFall
  BY <1>1, <1>2, CommitCounts
     DEF Call, Begin, LockPool, PriceSell, PriceMakerBuy, Abort
<1>3. CASE Admin
  <2>1. ASSUME NEW x \in PoolAmount,
               addPoolUsdt(x) \/ \E a \in Account :
                                   transferBurnSpace(a, x) \/ transferFeeUsdt(a, x)
        PROVE  CountersFall
    <3>1. /\ pool'.businessDate = pool.businessDate
          /\ pool'.dailySellSpace = pool.dailySellSpace
          /\ pool'.dailyMakerBuySpace = pool.dailyMakerBuySpace
      BY <1>0, <2>1 DEF addPoolUsdt, transferBurnSpace, transferFeeUsdt, PoolState
    <3> QED
      BY <1>0, <3>1 DEF CountersFall
  <2> QED
    BY <1>1, <1>3, <2>1 DEF Admin, updateConfig
<1>4. CASE resetDailyState
  <2>1. today \in Day /\ today \in Nat /\ pool.businessDate <= today
    BY <1>0, PoolAssumption DEF TypeOK, Day, DateInv
  <2>2. pool' = Fresh(today) /\ Fresh(today).businessDate = today
        /\ (pool.businessDate = today => Fresh(today) = pool)
    BY <1>0, <1>4, <2>1, FreshType DEF resetDailyState
  <2> QED
    BY <1>0, <2>1, <2>2 DEF CountersFall
<1> QED
  BY <1>1, <1>2, <1>3, <1>4 DEF Next, MoveRead, MoveSave, MoveAbort, Midnight

\* The counters that price the trades fall only when the date advances: no trade,
\* transfer or reset undoes the volume of the day.
THEOREM CountersOnlyFallAtMidnight == Spec => CountersFallAtMidnight
<1> QED
  BY Invariance, CountersStep, PTL DEF Spec, CountersFallAtMidnight

-----------------------------------------------------------------------------
(***************************************************************************)
(* The books: what a trade, a transfer or a settlement moves between the   *)
(* sum of the balances and the pool.                                       *)
(***************************************************************************)

LEMMA BalancesNat ==
  ASSUME TypeOK, NEW t \in Token
  PROVE  /\ NatOn([a \in Account |-> balance[a][t]], Account)
         /\ Balances(t) \in Nat
<1> DEFINE f == [a \in Account |-> balance[a][t]]
<1>1. NatOn(f, Account)
  BY PoolAssumption DEF NatOn, TypeOK
<1>2. Balances(t) = SumFunctionOnSet(f, Account)
  BY DEF Balances, SumFunction, SumFunctionOnSet, FoldFunction
<1> HIDE DEF f
<1>3. Balances(t) \in Nat
  BY <1>1, <1>2, SumNat
<1> QED
  BY <1>1, <1>3 DEF f

\* A trade adds to the sum of the balances what it adds to those of its account.
LEMMA TradeMoves ==
  ASSUME TypeOK, NEW a \in Account, NEW space \in Int, NEW usdt \in Int,
         Trade(a, space, usdt), NEW t \in Token
  PROVE  Balances(t)' = Balances(t) + IF t = "SPACE" THEN space ELSE usdt
<1> DEFINE f == [b \in Account |-> balance[b][t]]
           g == [b \in Account |-> balance'[b][t]]
           d == IF t = "SPACE" THEN space ELSE usdt
<1>1. Summable(f, Account)
  BY BalancesNat, NatSummable
<1>2. \A b \in Account : balance[b][t] \in Nat
  BY DEF TypeOK
<1>3. d \in Int
  OBVIOUS
<1>4. \A b \in Account :
        balance'[b][t] = IF b = a THEN balance[b][t] + d ELSE balance[b][t]
  BY DEF Trade, TypeOK
<1>5. /\ Balances(t) = SumFunctionOnSet(f, Account)
      /\ Balances(t)' = SumFunctionOnSet(g, Account)
  <2>1. DOMAIN f = Account /\ DOMAIN g = Account
    OBVIOUS
  <2>2. Balances(t) = SumFunction(f) /\ Balances(t)' = SumFunction(g)
    BY DEF Balances
  <2> HIDE DEF f, g
  <2> QED
    BY <2>1, <2>2 DEF SumFunction, SumFunctionOnSet, FoldFunction
<1> HIDE DEF d
<1>6. Moves(f, g, Account, a, d)
  BY <1>2, <1>3, <1>4 DEF Moves
<1> HIDE DEF f, g
<1>7. Balances(t)' = Balances(t) + d
  BY <1>1, <1>5, <1>6, SumMove
<1> QED
  BY <1>7 DEF d

\* What has to match for the books to stay balanced.
LEMMA BooksBalance ==
  ASSUME TypeOK, Conservation, NEW space \in Int, NEW usdt \in Int,
         Balances("SPACE")' = Balances("SPACE") + space,
         Balances("USDT")' = Balances("USDT") + usdt,
         pool'.availableSpace + pool'.pendingBurnSpace + space
           = pool.availableSpace + pool.pendingBurnSpace
               + (moved'["SPACE"] - moved["SPACE"]),
         pool'.availableUsdt + pool'.pendingFeeUsdt + usdt
           = pool.availableUsdt + pool.pendingFeeUsdt
               + (moved'["USDT"] - moved["USDT"]) + (added' - added),
         pool' \in PoolState, moved' \in [Token -> Int], added' \in Int
  PROVE  Conservation'
<1> DEFINE S0 == InitBalances("SPACE") + InitPool.availableSpace
                   + InitPool.pendingBurnSpace
           U0 == InitBalances("USDT") + InitPool.availableUsdt
                   + InitPool.pendingFeeUsdt
<1>1. /\ Balances("SPACE") \in Nat /\ Balances("USDT") \in Nat
      /\ moved["SPACE"] \in Int /\ moved["USDT"] \in Int /\ added \in Int
      /\ moved'["SPACE"] \in Int /\ moved'["USDT"] \in Int
      /\ pool.availableSpace \in Nat /\ pool.pendingBurnSpace \in Nat
      /\ pool.availableUsdt \in Nat /\ pool.pendingFeeUsdt \in Nat
  BY BalancesNat DEF TypeOK, Token, PoolState
<1>2. /\ pool'.availableSpace \in Nat /\ pool'.pendingBurnSpace \in Nat
      /\ pool'.availableUsdt \in Nat /\ pool'.pendingFeeUsdt \in Nat
  BY DEF PoolState
<1>3. S0 \in Int /\ U0 \in Int
  <2>1. ASSUME NEW t \in Token
        PROVE  InitBalances(t) \in Int
    <3> DEFINE f == [a \in Account |-> InitBalance[a][t]]
    <3>1. Summable(f, Account) /\ DOMAIN f = Account
      BY PoolAssumption DEF Summable
    <3>2. InitBalances(t) = SumFunction(f)
      BY DEF InitBalances
    <3> HIDE DEF f
    <3>3. InitBalances(t) = SumFunctionOnSet(f, Account)
      BY <3>1, <3>2 DEF SumFunction, SumFunctionOnSet, FoldFunction
    <3> QED
      BY <3>1, <3>3, SumInt
  <2>2. InitPool \in PoolState
    BY PoolAssumption
  <2> QED
    BY <2>1, <2>2 DEF PoolState, Token
<1>4. /\ Balances("SPACE") + pool.availableSpace + pool.pendingBurnSpace
           = S0 + moved["SPACE"]
      /\ Balances("USDT") + pool.availableUsdt + pool.pendingFeeUsdt
           = U0 + moved["USDT"] + added
  BY DEF Conservation
<1> HIDE DEF S0, U0
<1>5. Balances("SPACE")' + pool'.availableSpace + pool'.pendingBurnSpace
        = S0 + moved'["SPACE"]
  <2> DEFINE b == Balances("SPACE")
             b2 == Balances("SPACE")'
             h == pool.availableSpace
             h2 == pool'.availableSpace
             k == pool.pendingBurnSpace
             k2 == pool'.pendingBurnSpace
             m == moved["SPACE"]
             m2 == moved'["SPACE"]
  <2>1. /\ b \in Int /\ h \in Int /\ h2 \in Int /\ k \in Int /\ k2 \in Int
        /\ m \in Int /\ m2 \in Int
        /\ b2 = b + space
        /\ h2 + k2 + space = h + k + (m2 - m)
        /\ b + h + k = S0 + m
    BY <1>1, <1>2, <1>4
  <2> HIDE DEF b, b2, h, h2, k, k2, m, m2
  <2>2. b2 + h2 + k2 = S0 + m2
    BY <1>3, <2>1
  <2> QED
    BY <2>2 DEF b2, h2, k2, m2
<1>6. Balances("USDT")' + pool'.availableUsdt + pool'.pendingFeeUsdt
        = U0 + moved'["USDT"] + added'
  <2> DEFINE b == Balances("USDT")
             b2 == Balances("USDT")'
             h == pool.availableUsdt
             h2 == pool'.availableUsdt
             k == pool.pendingFeeUsdt
             k2 == pool'.pendingFeeUsdt
             m == moved["USDT"]
             m2 == moved'["USDT"]
             e == added
             e2 == added'
  <2>1. /\ b \in Int /\ h \in Int /\ h2 \in Int /\ k \in Int /\ k2 \in Int
        /\ m \in Int /\ m2 \in Int /\ e \in Int /\ e2 \in Int
        /\ b2 = b + usdt
        /\ h2 + k2 + usdt = h + k + (m2 - m) + (e2 - e)
        /\ b + h + k = U0 + m + e
    BY <1>1, <1>2, <1>4
  <2> HIDE DEF b, b2, h, h2, k, k2, m, m2, e, e2
  <2>2. b2 + h2 + k2 = U0 + m2 + e2
    BY <1>3, <2>1
  <2> QED
    BY <2>2 DEF b2, h2, k2, m2, e2
<1> QED
  BY <1>5, <1>6 DEF Conservation, S0, U0

\* The same for a trade.
LEMMA TradeBalances ==
  ASSUME TypeOK, Conservation, NEW a \in Account, NEW space \in Int, NEW usdt \in Int,
         Trade(a, space, usdt),
         pool'.availableSpace + pool'.pendingBurnSpace + space
           = pool.availableSpace + pool.pendingBurnSpace
               + (moved'["SPACE"] - moved["SPACE"]),
         pool'.availableUsdt + pool'.pendingFeeUsdt + usdt
           = pool.availableUsdt + pool.pendingFeeUsdt
               + (moved'["USDT"] - moved["USDT"]) + (added' - added),
         pool' \in PoolState, moved' \in [Token -> Int], added' \in Int
  PROVE  Conservation'
<1>1. /\ Balances("SPACE")' = Balances("SPACE") + space
      /\ Balances("USDT")' = Balances("USDT") + usdt
  BY TradeMoves DEF Token
<1> QED
  BY <1>1, BooksBalance

LEMMA SameBooks ==
  ASSUME Conservation, UNCHANGED <<balance, moved, added>>,
         pool'.availableSpace = pool.availableSpace,
         pool'.pendingBurnSpace = pool.pendingBurnSpace,
         pool'.availableUsdt = pool.availableUsdt,
         pool'.pendingFeeUsdt = pool.pendingFeeUsdt
  PROVE  Conservation'
BY DEF Conservation, Balances

\* The fields of a pool row a trade computes with, and of the row it starts from.
LEMMA TradeFacts ==
  ASSUME IInv, NEW r \in Request, req[r].pc = "priced"
  PROVE  /\ pool \in PoolState /\ Fresh(req[r].day) \in PoolState
         /\ Fresh(req[r].day).availableSpace = pool.availableSpace
         /\ Fresh(req[r].day).pendingBurnSpace = pool.pendingBurnSpace
         /\ Fresh(req[r].day).availableUsdt = pool.availableUsdt
         /\ Fresh(req[r].day).pendingFeeUsdt = pool.pendingFeeUsdt
         /\ req[r].call.account \in Account /\ req[r].call.amount \in Nat
         /\ req[r].usdt \in Nat /\ req[r].burn \in Nat /\ req[r].space \in Nat
<1>1. TypeOK /\ req[r].day \in Day
  BY PricedFacts DEF IInv
<1> QED
  BY <1>1, FreshType, PricedFacts DEF TypeOK

LEMMA SellBalances ==
  ASSUME IInv, IInv', SaleInv, Conservation, NEW r \in Request, CommitSell(r)
  PROVE  Conservation'
<1> DEFINE p == Fresh(req[r].day)
           x == req[r].call.amount
           u == req[r].usdt
           b == req[r].burn
           s == req[r].space
<1>1. /\ req[r].pc = "priced" /\ req[r].call.kind = "sell"
      /\ Trade(req[r].call.account, -x, u)
      /\ pool' = SoldToPool(p, req[r])
      /\ moved' = moved /\ added' = added
  BY CommitIsTrade DEF CommitSell, Finish
<1>2. /\ TypeOK /\ pool' \in PoolState /\ moved' \in [Token -> Int] /\ added' \in Int
      /\ moved["SPACE"] \in Int /\ moved["USDT"] \in Int /\ added \in Int
  BY DEF IInv, TypeOK, Token
<1>3. x = b + s
  BY <1>1 DEF SaleInv
<1>4. /\ pool \in PoolState /\ p \in PoolState
      /\ p.availableSpace = pool.availableSpace
      /\ p.pendingBurnSpace = pool.pendingBurnSpace
      /\ p.availableUsdt = pool.availableUsdt
      /\ p.pendingFeeUsdt = pool.pendingFeeUsdt
      /\ req[r].call.account \in Account /\ x \in Nat /\ u \in Nat /\ b \in Nat /\ s \in Nat
  BY <1>1, TradeFacts
<1>5. /\ pool'.availableSpace = p.availableSpace + s
      /\ pool'.pendingBurnSpace = p.pendingBurnSpace + b
      /\ pool'.availableUsdt = p.availableUsdt - u
      /\ pool'.pendingFeeUsdt = p.pendingFeeUsdt
  <2> HIDE DEF p
  <2> QED
    BY <1>1, <1>4 DEF SoldToPool, PoolState
<1>6. /\ pool.availableSpace \in Nat /\ pool.pendingBurnSpace \in Nat
      /\ pool.availableUsdt \in Nat /\ pool.pendingFeeUsdt \in Nat
  BY <1>4 DEF PoolState
<1> HIDE DEF p, x, u, b, s
<1>7. -x \in Int /\ u \in Int
  BY <1>4
<1>8. pool'.availableSpace + pool'.pendingBurnSpace + (-x)
        = pool.availableSpace + pool.pendingBurnSpace
            + (moved'["SPACE"] - moved["SPACE"])
  BY <1>1, <1>2, <1>3, <1>4, <1>5, <1>6
<1>9. pool'.availableUsdt + pool'.pendingFeeUsdt + u
        = pool.availableUsdt + pool.pendingFeeUsdt
            + (moved'["USDT"] - moved["USDT"]) + (added' - added)
  BY <1>1, <1>2, <1>4, <1>5, <1>6
<1> QED
  BY <1>1, <1>2, <1>4, <1>7, <1>8, <1>9, TradeBalances

LEMMA MakerBuyBalances ==
  ASSUME IInv, IInv', Conservation, NEW r \in Request, CommitMakerBuy(r)
  PROVE  Conservation'
<1> DEFINE p == Fresh(req[r].day)
           u == req[r].usdt
           s == req[r].space
           fee == receiverAmount(req[r].usdt)
<1>1. /\ req[r].pc = "priced"
      /\ Trade(req[r].call.account, s, -u)
      /\ pool' = BoughtFromPool(p, req[r])
      /\ moved' = moved /\ added' = added
  BY CommitIsTrade DEF CommitMakerBuy, Finish
<1>2. /\ TypeOK /\ pool' \in PoolState /\ moved' \in [Token -> Int] /\ added' \in Int
      /\ moved["SPACE"] \in Int /\ moved["USDT"] \in Int /\ added \in Int
  BY DEF IInv, TypeOK, Token
<1>4. /\ pool \in PoolState /\ p \in PoolState
      /\ p.availableSpace = pool.availableSpace
      /\ p.pendingBurnSpace = pool.pendingBurnSpace
      /\ p.availableUsdt = pool.availableUsdt
      /\ p.pendingFeeUsdt = pool.pendingFeeUsdt
      /\ req[r].call.account \in Account /\ u \in Nat /\ s \in Nat
  BY <1>1, TradeFacts
<1>3. fee \in Int
  BY <1>4 DEF receiverAmount
<1>5. /\ pool'.availableSpace = p.availableSpace - s
      /\ pool'.pendingBurnSpace = p.pendingBurnSpace
      /\ pool'.availableUsdt = p.availableUsdt + (u - fee)
      /\ pool'.pendingFeeUsdt = p.pendingFeeUsdt + fee
  <2> HIDE DEF p
  <2> QED
    BY <1>1, <1>4 DEF BoughtFromPool, PoolState
<1>6. /\ pool.availableSpace \in Nat /\ pool.pendingBurnSpace \in Nat
      /\ pool.availableUsdt \in Nat /\ pool.pendingFeeUsdt \in Nat
  BY <1>4 DEF PoolState
<1> HIDE DEF p, u, s, fee
<1>7. s \in Int /\ -u \in Int
  BY <1>4
<1>8. pool'.availableSpace + pool'.pendingBurnSpace + s
        = pool.availableSpace + pool.pendingBurnSpace
            + (moved'["SPACE"] - moved["SPACE"])
  BY <1>1, <1>2, <1>4, <1>5, <1>6
<1>9. pool'.availableUsdt + pool'.pendingFeeUsdt + (-u)
        = pool.availableUsdt + pool.pendingFeeUsdt
            + (moved'["USDT"] - moved["USDT"]) + (added' - added)
  BY <1>1, <1>2, <1>3, <1>4, <1>5, <1>6
<1> QED
  BY <1>1, <1>2, <1>4, <1>7, <1>8, <1>9, TradeBalances

LEMMA ConservationNext ==
  ASSUME IInv, IInv', SaleInv, Conservation, [Next]_vars
  PROVE  Conservation'
<1>0. /\ TypeOK /\ pool \in PoolState /\ pool' \in PoolState
      /\ moved' \in [Token -> Int] /\ added' \in Int
      /\ moved \in [Token -> Int] /\ moved["SPACE"] \in Int /\ moved["USDT"] \in Int
      /\ added \in Int
      /\ pool.availableSpace \in Nat /\ pool.pendingBurnSpace \in Nat
      /\ pool.availableUsdt \in Nat /\ pool.pendingFeeUsdt \in Nat
  BY DEF IInv, TypeOK, Token, PoolState
<1>1. CASE UNCHANGED <<pool, balance, moved, added>>
  BY <1>1, SameBooks
<1>2. ASSUME NEW r \in Request, Call(r)
      PROVE  Conservation'
  <2>1. CASE CommitSell(r)
    BY <2>1, SellBalances
  <2>2. CASE CommitMakerBuy(r)
    BY <2>2, MakerBuyBalances
  <2>3. CASE ~CommitSell(r) /\ ~CommitMakerBuy(r)
    BY <1>1, <1>2, <2>3 DEF Call, Begin, LockPool, PriceSell, PriceMakerBuy, Abort
  <2> QED
    BY <2>1, <2>2, <2>3
<1>3. ASSUME NEW x \in PoolAmount, addPoolUsdt(x)
      PROVE  Conservation'
  <2>1. /\ x \in Int /\ 0 \in Int
        /\ pool'.availableSpace = pool.availableSpace
        /\ pool'.pendingBurnSpace = pool.pendingBurnSpace
        /\ pool'.availableUsdt = pool.availableUsdt + x
        /\ pool'.pendingFeeUsdt = pool.pendingFeeUsdt
        /\ added' = added + x /\ moved' = moved /\ balance' = balance
    BY <1>0, <1>3, PoolAssumption DEF addPoolUsdt, PoolState
  <2>2. /\ Balances("SPACE") \in Nat /\ Balances("USDT") \in Nat
        /\ Balances("SPACE")' = Balances("SPACE") /\ Balances("USDT")' = Balances("USDT")
    BY <1>0, <2>1, BalancesNat DEF Balances, Token
  <2>3. /\ Balances("SPACE")' = Balances("SPACE") + 0
        /\ Balances("USDT")' = Balances("USDT") + 0
        /\ pool'.availableSpace + pool'.pendingBurnSpace + 0
             = pool.availableSpace + pool.pendingBurnSpace
                 + (moved'["SPACE"] - moved["SPACE"])
        /\ pool'.availableUsdt + pool'.pendingFeeUsdt + 0
             = pool.availableUsdt + pool.pendingFeeUsdt
                 + (moved'["USDT"] - moved["USDT"]) + (added' - added)
    BY <1>0, <2>1, <2>2
  <2> QED
    BY <1>0, <2>1, <2>3, BooksBalance
<1>4. ASSUME NEW x \in PoolAmount, NEW a \in Account, transferBurnSpace(a, x)
      PROVE  Conservation'
  <2>1. /\ x \in Int /\ 0 \in Int /\ Trade(a, x, 0)
        /\ pool'.availableSpace = pool.availableSpace
        /\ pool'.pendingBurnSpace = pool.pendingBurnSpace - x
        /\ pool'.availableUsdt = pool.availableUsdt
        /\ pool'.pendingFeeUsdt = pool.pendingFeeUsdt
        /\ added' = added /\ moved' = moved
    <3>1. IInv /\ Trade(a, x, 0)
      BY <1>4, TransferIsTrade
    <3>2. /\ pool'.availableSpace = pool.availableSpace
          /\ pool'.pendingBurnSpace = pool.pendingBurnSpace - x
          /\ pool'.availableUsdt = pool.availableUsdt
          /\ pool'.pendingFeeUsdt = pool.pendingFeeUsdt
          /\ added' = added /\ moved' = moved
      BY <1>0, <1>4 DEF transferBurnSpace, PoolState
    <3>3. x \in Int /\ 0 \in Int
      BY PoolAssumption
    <3> QED
      BY <3>1, <3>2, <3>3
  <2>2. /\ pool'.availableSpace + pool'.pendingBurnSpace + x
             = pool.availableSpace + pool.pendingBurnSpace
                 + (moved'["SPACE"] - moved["SPACE"])
        /\ pool'.availableUsdt + pool'.pendingFeeUsdt + 0
             = pool.availableUsdt + pool.pendingFeeUsdt
                 + (moved'["USDT"] - moved["USDT"]) + (added' - added)
    BY <1>0, <2>1
  <2> QED
    BY <1>0, <2>1, <2>2, TradeBalances
<1>5. ASSUME NEW x \in PoolAmount, NEW a \in Account, transferFeeUsdt(a, x)
      PROVE  Conservation'
  <2>1. /\ x \in Int /\ 0 \in Int /\ Trade(a, 0, x)
        /\ pool'.availableSpace = pool.availableSpace
        /\ pool'.pendingBurnSpace = pool.pendingBurnSpace
        /\ pool'.availableUsdt = pool.availableUsdt
        /\ pool'.pendingFeeUsdt = pool.pendingFeeUsdt - x
        /\ added' = added /\ moved' = moved
    <3>1. IInv /\ Trade(a, 0, x)
      BY <1>5, TransferIsTrade
    <3>2. /\ pool'.availableSpace = pool.availableSpace
          /\ pool'.pendingBurnSpace = pool.pendingBurnSpace
          /\ pool'.availableUsdt = pool.availableUsdt
          /\ pool'.pendingFeeUsdt = pool.pendingFeeUsdt - x
          /\ added' = added /\ moved' = moved
      BY <1>0, <1>5 DEF transferFeeUsdt, PoolState
    <3>3. x \in Int /\ 0 \in Int
      BY PoolAssumption
    <3> QED
      BY <3>1, <3>2, <3>3
  <2>2. /\ pool'.availableSpace + pool'.pendingBurnSpace + 0
             = pool.availableSpace + pool.pendingBurnSpace
                 + (moved'["SPACE"] - moved["SPACE"])
        /\ pool'.availableUsdt + pool'.pendingFeeUsdt + x
             = pool.availableUsdt + pool.pendingFeeUsdt
                 + (moved'["USDT"] - moved["USDT"]) + (added' - added)
    BY <1>0, <2>1
  <2> QED
    BY <1>0, <2>1, <2>2, TradeBalances
<1>6. CASE resetDailyState
  <2>1. today \in Day
    BY <1>0, PoolAssumption DEF TypeOK, Day
  <2> QED
    BY <1>0, <1>6, <2>1, FreshType, SameBooks DEF resetDailyState
<1>7. ASSUME NEW a \in Account, MoveSave(a)
      PROVE  Conservation'
  <2>0. PICK t \in Token, x \in Int : t = settling[a].token /\ x = settling[a].amount
    BY <1>7, MoveIsTrade
  <2> DEFINE space == IF t = "SPACE" THEN x ELSE 0
             usdt == IF t = "USDT" THEN x ELSE 0
  <2>1. /\ space \in Int /\ usdt \in Int /\ Trade(a, space, usdt)
        /\ pool' = pool /\ added' = added
        /\ moved' = [moved EXCEPT ![t] = @ + x]
    <3>1. SettledTrade(a)
      BY <1>7, MoveIsTrade
    <3>2. Trade(a, space, usdt)
      BY <2>0, <3>1 DEF SettledTrade
    <3>3. /\ pool' = pool /\ added' = added
          /\ moved' = [moved EXCEPT ![t] = @ + x]
      BY <1>7, <2>0 DEF MoveSave
    <3>4. space \in Int /\ usdt \in Int
      OBVIOUS
    <3> HIDE DEF space, usdt
    <3> QED
      BY <3>2, <3>3, <3>4
  <2>2. /\ moved'["SPACE"] = moved["SPACE"] + space
        /\ moved'["USDT"] = moved["USDT"] + usdt
    BY <1>0, <2>1 DEF Token
  <2> HIDE DEF space, usdt
  <2>3. /\ pool'.availableSpace + pool'.pendingBurnSpace + space
             = pool.availableSpace + pool.pendingBurnSpace
                 + (moved'["SPACE"] - moved["SPACE"])
        /\ pool'.availableUsdt + pool'.pendingFeeUsdt + usdt
             = pool.availableUsdt + pool.pendingFeeUsdt
                 + (moved'["USDT"] - moved["USDT"]) + (added' - added)
    BY <1>0, <2>1, <2>2
  <2> QED
    BY <1>0, <2>1, <2>3, TradeBalances
<1>8. CASE \/ \E a \in Account, t \in Token, x \in MoveAmount :
                MoveRead(a, t, x) \/ MoveRead(a, t, -x)
           \/ \E a \in Account : MoveAbort(a)
  BY <1>1, <1>8 DEF MoveRead, MoveAbort
<1>9. CASE UNCHANGED vars
  BY <1>1, <1>9 DEF vars
<1> QED
  BY <1>1, <1>2, <1>3, <1>4, <1>5, <1>6, <1>7, <1>8, <1>9
     DEF Next, Admin, updateConfig, Midnight

\* Whatever is priced after the step was priced before it, and the pool is the same.
LEMMA SaleKept ==
  ASSUME SaleInv, pool' = pool,
         \A q \in Request : req'[q].pc = "priced" => req'[q] = req[q]
  PROVE  SaleInv'
BY DEF SaleInv, Fresh

LEMMA SaleGone ==
  ASSUME \A q \in Request : req'[q].pc # "priced"
  PROVE  SaleInv'
BY DEF SaleInv

LEMMA SalePriced ==
  ASSUME IInv, SaleInv, NEW r \in Request, PriceSell(r)
  PROVE  SaleInv'
<1>1. /\ req[r].pc = "locked" /\ pool' = pool
      /\ req'[r].call = req[r].call /\ req'[r].day = req[r].day
      /\ req'[r].call.amount = req'[r].burn + req'[r].space
      /\ Fresh(req[r].day).dailySellSpace + req[r].call.amount <= MaxDailyVolume
  BY PriceSellSound DEF PriceSell
<1>2. \A q \in Request : q # r => req'[q] = req[q]
  BY DEF PriceSell, IInv, TypeOK
<1>3. \A q \in Request : q # r => req'[q].pc # "priced"
  BY <1>1, <1>2, OnlyHolder DEF HoldsPool, IInv
<1> QED
  BY <1>1, <1>3 DEF SaleInv, Fresh

LEMMA SaleNext ==
  ASSUME IInv, SaleInv, [Next]_vars
  PROVE  SaleInv'
<1>0. TypeOK /\ LockInv
  BY DEF IInv
<1>1. CASE UNCHANGED <<pool, req>>
  BY <1>1, SaleKept
<1>2. ASSUME NEW r \in Request, Call(r)
      PROVE  SaleInv'
  <2>1. CASE PriceSell(r)
    BY <2>1, SalePriced
  <2>2. CASE PriceMakerBuy(r)
    <3>1. req'[r].call.kind = "makerBuy"
      BY <2>2, PriceMakerBuySound DEF PriceMakerBuy
    <3>2. /\ HoldsPool(r) /\ pool' = pool
          /\ \A q \in Request : q # r => req'[q] = req[q]
      BY <1>0, <2>2 DEF PriceMakerBuy, HoldsPool, TypeOK
    <3>3. \A q \in Request : q # r => req'[q].pc # "priced"
      BY <1>0, <3>2, OnlyHolder
    <3> QED
      BY <3>1, <3>3 DEF SaleInv
  <2>3. CASE CommitSell(r) \/ CommitMakerBuy(r)
    <3>1. HoldsPool(r) /\ req' = [req EXCEPT ![r] = Done] /\ poolLock' = NoRequest
      BY <2>3 DEF CommitSell, CommitMakerBuy, Finish, HoldsPool
    <3> QED
      BY <1>0, <3>1, Released, SaleGone
  <2>4. CASE Begin(r) \/ LockPool(r) \/ Abort(r)
    <3>1. /\ pool' = pool /\ req'[r].pc # "priced"
          /\ \A q \in Request : q # r => req'[q] = req[q]
      BY <1>0, <2>4 DEF Begin, LockPool, Abort, Done, TypeOK
    <3> QED
      BY <3>1, SaleKept
  <2> QED
    BY <1>2, <2>1, <2>2, <2>3, <2>4 DEF Call
<1>3. ASSUME poolLock = NoRequest, UNCHANGED <<poolLock, req>>
      PROVE  SaleInv'
  BY <1>0, <1>3, NobodyHolds, SaleGone
<1> QED
  BY <1>1, <1>2, <1>3
     DEF Next, Admin, addPoolUsdt, transferBurnSpace, transferFeeUsdt, updateConfig,
         resetDailyState, MoveRead, MoveSave, MoveAbort, Midnight, vars
-----------------------------------------------------------------------------
(***************************************************************************)
(* The counter of the day: a sale is dated no earlier than the day it      *)
(* locked the pool on, so what the counter holds was sold since the        *)
(* business date.                                                          *)
(***************************************************************************)

Sales(S) == [p \in Account \X S |-> sold[p[1]][p[2]]]

LEMMA SalesNat ==
  ASSUME TypeOK, NEW S \in SUBSET Day
  PROVE  /\ NatOn(Sales(S), Account \X S)
         /\ SoldOn(S) = SumFunctionOnSet(Sales(S), Account \X S)
         /\ SoldOn(S) \in Nat
<1>1. IsFiniteSet(S)
  <2>1. IsFiniteSet(0..MaxDay)
    BY PoolAssumption, FS_Interval
  <2> QED
    BY <2>1, FS_Subset DEF Day
<1>2. IsFiniteSet(Account \X S)
  BY <1>1, PoolAssumption, FS_Product
<1>3. NatOn(Sales(S), Account \X S)
  BY <1>2 DEF NatOn, Sales, TypeOK
<1>4. SoldOn(S) = SumFunctionOnSet(Sales(S), Account \X S)
  <2>1. DOMAIN Sales(S) = Account \X S
    BY DEF Sales
  <2>2. SoldOn(S) = SumFunction(Sales(S))
    BY DEF SoldOn, Sales
  <2> QED
    BY <2>1, <2>2 DEF SumFunction, SumFunctionOnSet, FoldFunction
<1> QED
  BY <1>3, <1>4, SumNat

\* A sale dated in S counts once.
LEMMA SaleCounts ==
  ASSUME TypeOK, NEW S \in SUBSET Day, NEW a \in Account, today \in S, NEW x \in Nat,
         sold' = [sold EXCEPT ![a][today] = @ + x]
  PROVE  SoldOn(S)' = SoldOn(S) + x
<1> DEFINE f == Sales(S)
           g == Sales(S)'
           T == Account \X S
<1>1. Summable(f, T) /\ SoldOn(S) = SumFunctionOnSet(f, T)
  BY SalesNat, NatSummable
<1>2. SoldOn(S)' = SumFunctionOnSet(g, T)
  <2>1. DOMAIN g = T
    BY DEF Sales
  <2>2. SoldOn(S)' = SumFunction(g)
    BY DEF SoldOn, Sales
  <2> HIDE DEF g, T
  <2> QED
    BY <2>1, <2>2 DEF SumFunction, SumFunctionOnSet, FoldFunction
<1>3. \A b \in Account, d \in S :
        /\ sold[b][d] \in Nat
        /\ sold'[b][d] = IF b = a /\ d = today THEN sold[b][d] + x ELSE sold[b][d]
  BY DEF TypeOK
<1>4. Moves(f, g, T, <<a, today>>, x)
  <2>1. <<a, today>> \in T /\ x \in Int
    OBVIOUS
  <2>2. ASSUME NEW p \in T
        PROVE  g[p] = f[p] + IF p = <<a, today>> THEN x ELSE 0
    <3>1. PICK b \in Account, d \in S : p = <<b, d>>
      BY <2>2
    <3>2. f[p] = sold[b][d] /\ g[p] = sold'[b][d]
      BY <3>1 DEF Sales
    <3>3. p = <<a, today>> <=> b = a /\ d = today
      BY <3>1
    <3> HIDE DEF f, g
    <3> QED
      BY <1>3, <3>2, <3>3
  <2> HIDE DEF f, g, T
  <2> QED
    BY <2>1, <2>2 DEF Moves
<1> HIDE DEF f, g, T
<1> QED
  BY <1>1, <1>2, <1>4, SumMove

\* The reset row keeps within what was sold since its date.
LEMMA FreshCounter ==
  ASSUME TypeOK, CounterOfTheDay, NEW d \in Day
  PROVE  /\ Fresh(d).dailySellSpace <= SoldOn(d..MaxDay)
         /\ Fresh(d).dailySellSpace <= MaxDailyVolume
         /\ d..MaxDay \in SUBSET Day
         /\ SoldOn(d..MaxDay) \in Nat
<1>1. d..MaxDay \in SUBSET Day
  BY PoolAssumption DEF Day
<1>2. SoldOn(d..MaxDay) \in Nat
  BY <1>1, SalesNat
<1>3. CASE pool.businessDate = d
  BY <1>1, <1>2, <1>3 DEF Fresh, CounterOfTheDay
<1>4. CASE pool.businessDate # d
  <2>1. Fresh(d).dailySellSpace = 0
    BY <1>4 DEF Fresh, TypeOK, PoolState
  <2> QED
    BY <1>1, <1>2, <2>1, PoolAssumption
<1> QED
  BY <1>3, <1>4

LEMMA CounterNext ==
  ASSUME IInv, SaleInv, CounterOfTheDay, [Next]_vars
  PROVE  CounterOfTheDay'
<1>0. TypeOK /\ pool \in PoolState
  BY DEF IInv, TypeOK
<1>1. CASE UNCHANGED sold /\ pool'.businessDate = pool.businessDate
           /\ pool'.dailySellSpace = pool.dailySellSpace
  BY <1>1 DEF CounterOfTheDay, SoldOn
<1>2. ASSUME NEW d \in Day, UNCHANGED sold, pool'.businessDate = d,
             pool'.dailySellSpace = Fresh(d).dailySellSpace
      PROVE  CounterOfTheDay'
  BY <1>0, <1>2, FreshCounter DEF CounterOfTheDay, SoldOn
<1>3. ASSUME NEW r \in Request, CommitSell(r)
      PROVE  CounterOfTheDay'
  <2>0. PICK day \in Day : day = req[r].day
    BY <1>3, PricedFacts DEF CommitSell
  <2> DEFINE x == req[r].call.amount
             p == Fresh(day)
             S == day..MaxDay
             a == req[r].call.account
  <2>1. /\ req[r].pc = "priced" /\ req[r].call.kind = "sell"
        /\ pool' = SoldToPool(p, req[r])
        /\ sold' = [sold EXCEPT ![a][today] = @ + x]
    BY <1>3, <2>0 DEF CommitSell
  <2>2. /\ a \in Account /\ x \in Nat /\ day <= today
        /\ p \in PoolState /\ p.businessDate = day
    BY <2>0, <2>1, PricedFacts
  <2>3. pool'.businessDate = day /\ pool'.dailySellSpace = p.dailySellSpace + x
    <3> HIDE DEF p
    <3> QED
      BY <2>1, <2>2 DEF SoldToPool, PoolState
  <2>4. /\ p.dailySellSpace <= SoldOn(S) /\ S \in SUBSET Day /\ SoldOn(S) \in Nat
    BY <1>0, <2>2, FreshCounter
  <2>5. p.dailySellSpace + x <= MaxDailyVolume
    BY <2>0, <2>1 DEF SaleInv
  <2>6. today \in S
    BY <1>0, <2>2, PoolAssumption DEF TypeOK, Day
  <2>7. SoldOn(S)' = SoldOn(S) + x
    BY <1>0, <2>1, <2>2, <2>4, <2>6, SaleCounts
  <2>8. p.dailySellSpace \in Nat
    BY <2>2 DEF PoolState
  <2>9. SoldOn(pool.businessDate..MaxDay)' = SoldOn(S)'
    BY <2>3 DEF SoldOn
  <2> HIDE DEF p, x, S, a
  <2> QED
    BY <2>2, <2>3, <2>4, <2>5, <2>7, <2>8, <2>9 DEF CounterOfTheDay
<1>4. ASSUME NEW r \in Request, CommitMakerBuy(r)
      PROVE  CounterOfTheDay'
  <2> DEFINE p == Fresh(req[r].day)
  <2>1. /\ req[r].pc = "priced" /\ pool' = BoughtFromPool(p, req[r]) /\ sold' = sold
    BY <1>4 DEF CommitMakerBuy
  <2>2. req[r].day \in Day /\ p \in PoolState /\ p.businessDate = req[r].day
    BY <2>1, PricedFacts
  <2>3. pool'.businessDate = req[r].day /\ pool'.dailySellSpace = p.dailySellSpace
    <3> HIDE DEF p
    <3> QED
      BY <2>1, <2>2 DEF BoughtFromPool, PoolState
  <2> QED
    BY <1>2, <2>1, <2>2, <2>3
<1>5. ASSUME NEW r \in Request, Call(r)
      PROVE  CounterOfTheDay'
  BY <1>1, <1>3, <1>4, <1>5
     DEF Call, Begin, LockPool, PriceSell, PriceMakerBuy, Abort
<1>6. CASE resetDailyState
  <2>1. today \in Day
    BY <1>0, PoolAssumption DEF TypeOK, Day
  <2>2. pool' = Fresh(today) /\ sold' = sold /\ Fresh(today).businessDate = today
    BY <1>0, <1>6, <2>1, FreshType DEF resetDailyState
  <2> QED
    BY <1>2, <2>1, <2>2
<1>7. CASE Admin
  <2>1. /\ sold' = sold /\ pool'.businessDate = pool.businessDate
        /\ pool'.dailySellSpace = pool.dailySellSpace
    BY <1>0, <1>7 DEF Admin, addPoolUsdt, transferBurnSpace, transferFeeUsdt,
                      updateConfig, PoolState
  <2> QED
    BY <1>1, <2>1
<1> QED
  BY <1>1, <1>5, <1>6, <1>7 DEF Next, MoveRead, MoveSave, MoveAbort, Midnight, vars
-----------------------------------------------------------------------------
LEMMA BooksInit == Init => SaleInv /\ Conservation /\ CounterOfTheDay
<1> SUFFICES ASSUME Init PROVE SaleInv /\ Conservation /\ CounterOfTheDay
  OBVIOUS
<1>1. IInv /\ TypeOK
  BY InitSound DEF IInv
<1>2. SaleInv
  BY DEF Init, Done, SaleInv
<1>3. Conservation
  <2>1. /\ Balances("SPACE") = InitBalances("SPACE")
        /\ Balances("USDT") = InitBalances("USDT")
    BY DEF Init, Balances, InitBalances
  <2>2. /\ pool = InitPool /\ moved["SPACE"] = 0 /\ moved["USDT"] = 0 /\ added = 0
    BY DEF Init, Token
  <2>3. Balances("SPACE") \in Nat /\ Balances("USDT") \in Nat
    BY <1>1, BalancesNat DEF Token
  <2>4. /\ InitPool.availableSpace \in Nat /\ InitPool.pendingBurnSpace \in Nat
        /\ InitPool.availableUsdt \in Nat /\ InitPool.pendingFeeUsdt \in Nat
    BY PoolAssumption DEF PoolState
  <2> QED
    BY <2>1, <2>2, <2>3, <2>4 DEF Conservation
<1>4. CounterOfTheDay
  <2>1. 0..MaxDay \in SUBSET Day
    BY DEF Day
  <2>2. SoldOn(0..MaxDay) \in Nat
    BY <1>1, <2>1, SalesNat
  <2>3. pool.businessDate = 0 /\ pool.dailySellSpace = 0 /\ MaxDailyVolume \in Nat
    BY PoolAssumption DEF Init
  <2> QED
    BY <2>2, <2>3 DEF CounterOfTheDay
<1> QED
  BY <1>2, <1>3, <1>4

LEMMA BooksInvariance == Spec => [](SaleInv /\ Conservation /\ CounterOfTheDay)
<1> DEFINE J == IInv /\ SaleInv /\ Conservation /\ CounterOfTheDay
<1>1. Init => J
  BY InitSound, BooksInit
<1>2. J /\ [Next]_vars => J'
  <2> SUFFICES ASSUME IInv, SaleInv, Conservation, CounterOfTheDay, [Next]_vars
               PROVE  J'
    OBVIOUS
  <2>1. IInv'
    BY StepKeeps
  <2> QED
    BY <2>1, SaleNext, ConservationNext, CounterNext
<1>3. J => SaleInv /\ Conservation /\ CounterOfTheDay
  OBVIOUS
<1> QED
  BY <1>1, <1>2, <1>3, PTL DEF Spec

\* SPACE and USDT are only moved between the accounts and what the pool may sell,
\* pay, burn or owe, whatever the fees, the subsidies and the rounding.
THEOREM BooksConserved == Spec => []Conservation
<1> QED
  BY BooksInvariance, PTL

\* The counter that prices the sales holds no volume of an earlier date and stays
\* within the daily maximum, also when the scheduler never resets it.
THEOREM SellCounterOfTheDay == Spec => []CounterOfTheDay
<1> QED
  BY BooksInvariance, PTL
-----------------------------------------------------------------------------
(***************************************************************************)
(* QuoteInv is inductive under IInv.                                       *)
(***************************************************************************)

\* Quotes are kept by steps that leave the counters and the priced trades alone.
LEMMA QuoteKept ==
  ASSUME IInv, QuoteInv, pool' = pool, sold' = sold, today' \in {today, today + 1},
         \A q \in Request : req'[q] = req[q] \/ (req'[q].pc # "priced" /\ EnabledWhenRead(q)')
  PROVE  QuoteInv'
<1>1. pool'.dailyMakerBuySpace <= MaxDailyVolume
  BY DEF QuoteInv
<1>2. ASSUME NEW q \in Request PROVE EnabledWhenRead(q)'
  BY DEF QuoteInv, EnabledWhenRead, HoldsPool
<1>3. ASSUME NEW q \in Request, req'[q].pc = "priced"
      PROVE  IF req'[q].call.kind = "sell" THEN PricedAsSale(q)' ELSE PricedAsPurchase(q)'
  <2>1. req'[q] = req[q] /\ req[q].pc = "priced"
    BY <1>3
  <2>2. \A d : Fresh(d)' = Fresh(d)
    BY DEF Fresh
  <2>3. CASE req[q].call.kind = "sell"
    <3>1. PricedAsSale(q)
      BY <2>1, <2>3 DEF QuoteInv
    <3>2. req[q].day = today' => today' = today
      <4>1. today \in Nat /\ req[q].day <= today /\ req[q].day \in Nat
        BY <2>1, PricedFacts, PoolAssumption DEF IInv, TypeOK, Day
      <4> QED
        BY <4>1
    <3>3. ASSUME today' = today, NEW principal \in Principal
          PROVE  remainingSellQuota(req[q].call.account, principal, pool.availableUsdt)'
                   = remainingSellQuota(req[q].call.account, principal, pool.availableUsdt)
      BY <2>1, <3>3 DEF remainingSellQuota
    <3>4. req'[q].day = today' =>
            \E principal \in Principal :
              req'[q].call.amount
                <= remainingSellQuota(req[q].call.account, principal, pool.availableUsdt)'
      BY <2>1, <3>1, <3>2, <3>3 DEF PricedAsSale
    <3> QED
      BY <2>1, <2>2, <2>3, <3>1, <3>4 DEF PricedAsSale
  <2>4. CASE req[q].call.kind # "sell"
    BY <2>1, <2>2, <2>4 DEF QuoteInv, PricedAsPurchase
  <2> QED
    BY <2>1, <2>3, <2>4
<1> QED
  BY <1>1, <1>2, <1>3 DEF QuoteInv

\* Nothing is priced and what begins or locks is enabled.
LEMMA QuoteGone ==
  ASSUME pool'.dailyMakerBuySpace <= MaxDailyVolume,
         \A q \in Request : req'[q].pc # "priced" /\ EnabledWhenRead(q)'
  PROVE  QuoteInv'
BY DEF QuoteInv

LEMMA SaleQuoted ==
  ASSUME IInv, QuoteInv, NEW r \in Request, PriceSell(r)
  PROVE  PricedAsSale(r)'
<1>1. PICK call, day : call = req[r].call /\ day = req[r].day
  OBVIOUS
<1>2. PICK p : p = Fresh(day)
  OBVIOUS
<1> DEFINE sale == SellQuote(call.amount, p.dailySellSpace, call.config)
<1>3. /\ req'[r].call = call /\ req'[r].day = day
      /\ req'[r].usdt = sale.totalUsdt - Fee(sale.totalUsdt, call.config)
      /\ req'[r].burn = sale.burnAmount /\ req'[r].space = sale.poolSpaceAmount
      /\ sale.totalUsdt - Fee(sale.totalUsdt, call.config) > 0
      /\ p.dailySellSpace + call.amount <= call.config.dailyMaxAmount
      /\ \E principal \in Principal :
           call.amount <= remainingSellQuota(call.account, principal, p.availableUsdt)
      /\ UNCHANGED <<pool, sold, today>>
  BY <1>1, <1>2 DEF PriceSell, IInv, TypeOK
<1>4. Fresh(day)' = p
  BY <1>2, <1>3 DEF Fresh
<1>5. p.availableUsdt = pool.availableUsdt
  BY <1>1, <1>2, CallTypes, FreshType DEF PriceSell, HoldsPool, IInv
<1>6. \A principal, u :
        remainingSellQuota(call.account, principal, u)'
          = remainingSellQuota(call.account, principal, u)
  BY <1>3 DEF remainingSellQuota
<1>7. \E principal \in Principal :
        call.amount <= remainingSellQuota(call.account, principal, pool.availableUsdt)'
  BY <1>3, <1>5, <1>6
<1> QED
  BY <1>3, <1>4, <1>7 DEF PricedAsSale

LEMMA PurchaseQuoted ==
  ASSUME IInv, QuoteInv, NEW r \in Request, PriceMakerBuy(r)
  PROVE  PricedAsPurchase(r)'
<1>1. PICK call, day : call = req[r].call /\ day = req[r].day
  OBVIOUS
<1>2. PICK p : p = Fresh(day)
  OBVIOUS
<1> DEFINE usdt == MakerQuote(call.amount, p.dailyMakerBuySpace, call.config).totalUsdt
<1>3. /\ req'[r].call = call /\ req'[r].day = day
      /\ req'[r].usdt = usdt /\ req'[r].burn = 0 /\ usdt > 0
      /\ req'[r].space
           = call.amount + (call.amount * call.config.subsidyBp) \div BpDenominator
      /\ p.dailyMakerBuySpace + call.amount <= MaxDailyVolume
      /\ UNCHANGED pool
  BY <1>1, <1>2 DEF PriceMakerBuy, IInv, TypeOK
<1>4. Fresh(day)' = p
  BY <1>2, <1>3 DEF Fresh
<1> QED
  BY <1>3, <1>4 DEF PricedAsPurchase

\* The reset row has no more in the counter of the makers.
LEMMA FreshMaker ==
  ASSUME IInv, QuoteInv, NEW d \in Day
  PROVE  Fresh(d).dailyMakerBuySpace \in 0..MaxDailyVolume
<1>1. pool.dailyMakerBuySpace <= MaxDailyVolume /\ pool \in PoolState
  BY DEF QuoteInv, IInv, TypeOK
<1>2. pool.dailyMakerBuySpace \in 0..MaxDailyVolume
  BY <1>1, PoolAssumption DEF PoolState
<1>3. CASE pool.businessDate = d
  BY <1>2, <1>3 DEF Fresh
<1>4. CASE pool.businessDate # d
  <2>1. Fresh(d).dailyMakerBuySpace = 0
    BY <1>1, <1>4 DEF Fresh, PoolState
  <2> QED
    BY <2>1, PoolAssumption
<1> QED
  BY <1>3, <1>4

LEMMA QuoteNext ==
  ASSUME IInv, QuoteInv, [Next]_vars
  PROVE  QuoteInv'
<1>0. TypeOK /\ LockInv
  BY DEF IInv
<1>1. CASE UNCHANGED <<pool, req, sold>> /\ today' \in {today, today + 1}
  BY <1>1, QuoteKept
<1>2. ASSUME NEW r \in Request, Begin(r) \/ LockPool(r) \/ Abort(r)
      PROVE  QuoteInv'
  <2>1. /\ UNCHANGED <<pool, sold, today>>
        /\ \A q \in Request : q # r => req'[q] = req[q]
    BY <1>0, <1>2 DEF Begin, LockPool, Abort, TypeOK
  <2>2. CASE Begin(r)
    <3>1. req'[r].pc = "begun" /\ req'[r].config = config /\ config.enabled
      BY <1>0, <2>2 DEF Begin, TypeOK
    <3> QED
      BY <2>1, <3>1, QuoteKept DEF EnabledWhenRead, HoldsPool
  <2>3. CASE LockPool(r)
    <3>1. req'[r].pc = "locked" /\ req'[r].call.config.enabled
      BY <1>0, <2>3 DEF LockPool, QuoteInv, EnabledWhenRead, TypeOK
    <3> QED
      BY <2>1, <3>1, QuoteKept DEF EnabledWhenRead, HoldsPool
  <2>4. CASE Abort(r)
    <3>1. req'[r].pc = "idle"
      BY <1>0, <2>4 DEF Abort, Done, TypeOK
    <3> QED
      BY <2>1, <3>1, QuoteKept DEF EnabledWhenRead, HoldsPool
  <2> QED
    BY <1>2, <2>2, <2>3, <2>4
<1>3. ASSUME NEW r \in Request, PriceSell(r) \/ PriceMakerBuy(r)
      PROVE  QuoteInv'
  <2>1. /\ req[r].pc = "locked" /\ UNCHANGED <<pool, sold, today>>
        /\ req'[r].pc = "priced" /\ req'[r].call = req[r].call
        /\ \A q \in Request : q # r => req'[q] = req[q]
    <3>1. DOMAIN req = Request
      BY <1>0 DEF TypeOK
    <3>2. CASE PriceSell(r)
      BY <3>1, <3>2 DEF PriceSell
    <3>3. CASE PriceMakerBuy(r)
      BY <3>1, <3>3 DEF PriceMakerBuy
    <3> QED
      BY <1>3, <3>2, <3>3
  <2>2. ASSUME NEW q \in Request, q # r PROVE req'[q].pc # "priced"
    BY <1>0, <2>1, <2>2, OnlyHolder DEF HoldsPool
  <2>3. ASSUME NEW q \in Request PROVE EnabledWhenRead(q)'
    BY <2>1 DEF QuoteInv, EnabledWhenRead, HoldsPool
  <2>4. IF req'[r].call.kind = "sell" THEN PricedAsSale(r)' ELSE PricedAsPurchase(r)'
    <3>1. CASE PriceSell(r)
      <4>1. req'[r].call.kind = "sell"
        BY <2>1, <3>1 DEF PriceSell
      <4> QED
        BY <3>1, <4>1, SaleQuoted
    <3>2. CASE PriceMakerBuy(r)
      <4>1. req'[r].call.kind # "sell"
        BY <2>1, <3>2 DEF PriceMakerBuy
      <4> QED
        BY <3>2, <4>1, PurchaseQuoted
    <3> QED
      BY <1>3, <3>1, <3>2
  <2>5. pool'.dailyMakerBuySpace <= MaxDailyVolume
    BY <2>1 DEF QuoteInv
  <2> QED
    BY <2>2, <2>3, <2>4, <2>5 DEF QuoteInv
<1>4. ASSUME NEW r \in Request, CommitSell(r) \/ CommitMakerBuy(r)
      PROVE  QuoteInv'
  <2> DEFINE p == Fresh(req[r].day)
  <2>1. /\ req[r].pc = "priced" /\ HoldsPool(r)
        /\ req' = [req EXCEPT ![r] = Done] /\ poolLock' = NoRequest
    BY <1>4 DEF CommitSell, CommitMakerBuy, Finish, HoldsPool
  <2>2. req'[r] = Done /\ \A q \in Request : q # r => req'[q] = req[q]
    BY <1>0, <2>1 DEF TypeOK
  <2>3. ASSUME NEW q \in Request PROVE req'[q].pc # "priced" /\ EnabledWhenRead(q)'
    BY <1>0, <2>1, <2>2, Released DEF QuoteInv, EnabledWhenRead, HoldsPool, Done
  <2>4. p \in PoolState /\ p.dailyMakerBuySpace \in 0..MaxDailyVolume
    BY <2>1, PricedFacts, FreshMaker
  <2>5. pool'.dailyMakerBuySpace <= MaxDailyVolume
    <3>1. CASE CommitSell(r)
      <4>1. pool' = SoldToPool(p, req[r])
        BY <3>1 DEF CommitSell
      <4> HIDE DEF p
      <4> QED
        BY <2>4, <4>1, PoolAssumption DEF SoldToPool, PoolState
    <3>2. CASE CommitMakerBuy(r)
      <4>1. pool' = BoughtFromPool(p, req[r])
        BY <3>2 DEF CommitMakerBuy
      <4>2. p.dailyMakerBuySpace + req[r].call.amount <= MaxDailyVolume
        BY <2>1, <3>2 DEF CommitMakerBuy, QuoteInv, PricedAsPurchase
      <4> HIDE DEF p
      <4>3. pool'.dailyMakerBuySpace = p.dailyMakerBuySpace + req[r].call.amount
        BY <2>4, <4>1 DEF BoughtFromPool, PoolState
      <4> QED
        BY <4>2, <4>3
    <3> QED
      BY <1>4, <3>1, <3>2
  <2> QED
    BY <2>3, <2>5, QuoteGone
<1>5. ASSUME poolLock = NoRequest, UNCHANGED req,
             pool'.dailyMakerBuySpace <= MaxDailyVolume
      PROVE  QuoteInv'
  <2>1. ASSUME NEW q \in Request PROVE req'[q].pc # "priced" /\ EnabledWhenRead(q)'
    BY <1>0, <1>5, NobodyHolds DEF QuoteInv, EnabledWhenRead, HoldsPool
  <2> QED
    BY <1>5, <2>1, QuoteGone
<1>6. CASE resetDailyState
  <2>1. today \in Day
    BY <1>0, PoolAssumption DEF TypeOK, Day
  <2>2. pool'.dailyMakerBuySpace <= MaxDailyVolume
    BY <1>6, <2>1, FreshMaker, PoolAssumption DEF resetDailyState
  <2> QED
    BY <1>5, <1>6, <2>2 DEF resetDailyState
<1>7. CASE \E x \in PoolAmount : \/ addPoolUsdt(x)
                                 \/ \E a \in Account : \/ transferBurnSpace(a, x)
                                                       \/ transferFeeUsdt(a, x)
  <2>1. /\ poolLock = NoRequest /\ UNCHANGED req
        /\ pool'.dailyMakerBuySpace = pool.dailyMakerBuySpace
    BY <1>0, <1>7 DEF addPoolUsdt, transferBurnSpace, transferFeeUsdt, TypeOK, PoolState
  <2> QED
    BY <1>5, <2>1 DEF QuoteInv
<1>8. CASE \/ updateConfig \/ Midnight \/ UNCHANGED vars
           \/ \E a \in Account, t \in Token, x \in MoveAmount :
                MoveRead(a, t, x) \/ MoveRead(a, t, -x)
           \/ \E a \in Account : MoveSave(a) \/ MoveAbort(a)
  BY <1>1, <1>8 DEF updateConfig, Midnight, MoveRead, MoveSave, MoveAbort, vars
<1> QED
  BY <1>2, <1>3, <1>4, <1>6, <1>7, <1>8 DEF Next, Call, Admin
-----------------------------------------------------------------------------
(***************************************************************************)
(* Views.  The quote of one unit is its price: the boundary of a segment   *)
(* is ahead of the cursor, hence the loops of the quotes take one round.   *)
(***************************************************************************)
LEMMA StepAhead ==
  ASSUME NEW start \in Nat, NEW step \in Nat \ {0}, NEW u \in Nat, start <= u
  PROVE  StepEnd(u, start, step) \in Nat /\ u < StepEnd(u, start, step)
<1>1. PICK x \in Nat : x = u - start
  OBVIOUS
<1>2. PICK q \in Nat, r \in 0..(step - 1) : q = x \div step /\ x = step * q + r
  <2>1. /\ x \div step \in Nat /\ x % step \in 0..(step - 1)
        /\ x = step * (x \div step) + (x % step)
    OBVIOUS
  <2> QED
    BY <2>1
<1>3. PICK p \in Nat : p = step * q
  OBVIOUS
<1>4. (q + 1) * step = p + step
  <2>1. (q + 1) * step = step * q + step
    OBVIOUS
  <2> QED
    BY <1>3, <2>1
<1>5. StepEnd(u, start, step) = start + (p + step)
  BY <1>1, <1>2, <1>4 DEF StepEnd
<1> HIDE DEF StepEnd
<1>6. PICK i \in Nat : i = step /\ r < i
  OBVIOUS
<1>7. start + (p + i) \in Nat /\ u < start + (p + i)
  BY <1>1, <1>2, <1>3, <1>6
<1> QED
  BY <1>5, <1>6, <1>7

LEMMA SellTerms ==
  ASSUME NEW c, ValidSellConfig(c)
  PROVE  /\ c.defaultPrice \in Nat /\ c.fixedPrice \in Nat
         /\ c.tier1StepAmount \in Nat \ {0} /\ c.tier2StepAmount \in Nat \ {0}
         /\ c.tier1StepDecrease \in Nat /\ c.tier2StepDecrease \in Nat
         /\ \E e1, e2, m \in Nat : /\ e1 = c.tier1EndAmount /\ e2 = c.tier2EndAmount
                                   /\ m = c.dailyMaxAmount /\ e1 < e2 /\ e2 < m
<1>1. PositiveTerms(c) /\ TiersFollow(c)
  BY DEF ValidSellConfig
<1>2. /\ c.defaultPrice \in Nat /\ c.fixedPrice \in Nat
      /\ c.tier1StepAmount \in Nat \ {0} /\ c.tier2StepAmount \in Nat \ {0}
      /\ c.tier1StepDecrease \in Nat /\ c.tier2StepDecrease \in Nat
  BY <1>1 DEF PositiveTerms
<1>3. PICK e1, e2, m \in Nat : e1 = c.tier1EndAmount /\ e2 = c.tier2EndAmount
                               /\ m = c.dailyMaxAmount
  BY <1>1 DEF PositiveTerms
<1>4. e1 < e2 /\ e2 < m
  BY <1>1, <1>3 DEF TiersFollow
<1> QED
  BY <1>2, <1>3, <1>4

LEMMA FloorType ==
  ASSUME NEW v \in Nat, NEW x \in Nat, NEW floor \in Nat
  PROVE  decreaseWithFloor(v, x, floor) \in Nat
BY DEF decreaseWithFloor, Greatest

LEMMA StepsType ==
  ASSUME NEW x \in Nat, NEW step \in Nat \ {0}, NEW rate \in Nat
  PROVE  (x \div step) * rate \in Nat
<1>1. PICK q \in Nat : q = x \div step
  OBVIOUS
<1> QED
  BY <1>1

\* The sell price is a natural number and its segment ends later.
LEMMA SellPriceAhead ==
  ASSUME NEW c, ValidSellConfig(c), NEW u \in Nat, u < c.dailyMaxAmount
  PROVE  /\ getUserSellPrice(u, c) \in Nat
         /\ SellBoundary(u, c) \in Nat /\ u < SellBoundary(u, c)
<1>1. PICK e1, e2, m \in Nat : /\ e1 = c.tier1EndAmount /\ e2 = c.tier2EndAmount
                               /\ m = c.dailyMaxAmount /\ e1 < e2 /\ e2 < m
  BY SellTerms
<1>2. CASE u < e1
  <2>1. InTier1(u, c) /\ ~InTier2(u, c)
    BY <1>1, <1>2 DEF InTier1, InTier2
  <2>a. c.tier1StepAmount \in Nat \ {0} /\ 0 \in Nat /\ 0 <= u
    BY SellTerms
  <2>2. PICK b \in Nat : b = StepEnd(u, 0, c.tier1StepAmount) /\ u < b
    BY <2>a, StepAhead
  <2>3. SellBoundary(u, c) = Least(b, e1)
    BY <1>1, <2>1, <2>2 DEF SellBoundary
  <2>4. (u \div c.tier1StepAmount) * c.tier1StepDecrease \in Nat
    BY SellTerms, StepsType
  <2>5. getUserSellPrice(u, c) \in Nat
    BY <2>1, <2>4, SellTerms, FloorType DEF getUserSellPrice
  <2> QED
    BY <1>2, <2>2, <2>3, <2>5 DEF Least
<1>3. CASE e1 <= u /\ u < e2
  <2>1. ~InTier1(u, c) /\ InTier2(u, c)
    BY <1>1, <1>3 DEF InTier1, InTier2
  <2>2. PICK b \in Nat : b = StepEnd(u, e1, c.tier2StepAmount) /\ u < b
    BY <1>3, SellTerms, StepAhead
  <2>3. SellBoundary(u, c) = Least(b, e2)
    BY <1>1, <2>1, <2>2 DEF SellBoundary
  <2>4. PICK x \in Nat : x = u - e1
    BY <1>3
  <2>5. /\ (x \div c.tier2StepAmount) * c.tier2StepDecrease \in Nat
        /\ (e1 \div c.tier1StepAmount) * c.tier1StepDecrease \in Nat
    BY SellTerms, StepsType
  <2>6. Tier2StartPrice(c) \in Nat
    BY <1>1, <2>5, SellTerms, FloorType DEF Tier2StartPrice
  <2>7. PICK y, z, floor \in Nat : /\ y = (x \div c.tier2StepAmount) * c.tier2StepDecrease
                                   /\ z = Tier2StartPrice(c) /\ floor = c.fixedPrice
    BY <2>5, <2>6, SellTerms
  <2>8. getUserSellPrice(u, c) = decreaseWithFloor(z, y, floor)
    BY <1>1, <2>1, <2>4, <2>7 DEF getUserSellPrice
  <2>9. getUserSellPrice(u, c) \in Nat
    BY <2>8, FloorType
  <2> QED
    BY <1>3, <2>2, <2>3, <2>9 DEF Least
<1>4. CASE e2 <= u
  <2>1. ~InTier1(u, c) /\ ~InTier2(u, c)
    BY <1>1, <1>4 DEF InTier1, InTier2
  <2> QED
    BY <1>1, <2>1, SellTerms DEF SellBoundary, getUserSellPrice
<1> QED
  BY <1>1, <1>2, <1>3, <1>4

LEMMA MakerPriceAhead ==
  ASSUME NEW c, ValidMakerConfig(c), NEW u \in Nat
  PROVE  /\ getMakerBuyPrice(u, c) \in Nat
         /\ MakerBoundary(u, c) \in Nat /\ u < MakerBoundary(u, c)
<1>1. /\ c.defaultPrice \in Nat /\ c.firstStepIncrease \in Nat /\ c.stepIncrease \in Nat
      /\ c.stepAmount \in Nat \ {0}
  BY DEF ValidMakerConfig
<1>2. PICK e \in Nat : e = c.firstStepAmount
  BY DEF ValidMakerConfig
<1>3. CASE u < e
  BY <1>1, <1>2, <1>3 DEF MakerBoundary, getMakerBuyPrice
<1>4. CASE e <= u
  <2>1. PICK b \in Nat : b = StepEnd(u, e, c.stepAmount) /\ u < b
    BY <1>1, <1>4, StepAhead
  <2>2. MakerBoundary(u, c) = b
    BY <1>2, <1>4, <2>1 DEF MakerBoundary
  <2>3. PICK x \in Nat : x = u - e
    BY <1>4
  <2>4. PICK y \in Nat : y = (x \div c.stepAmount) * c.stepIncrease
    BY <1>1, StepsType
  <2>5. getMakerBuyPrice(u, c) = c.defaultPrice + c.firstStepIncrease + y
    BY <1>2, <1>4, <2>3, <2>4 DEF getMakerBuyPrice
  <2> QED
    BY <1>1, <2>1, <2>2, <2>4, <2>5
<1> QED
  BY <1>2, <1>3, <1>4

LEMMA PriceOfOne ==
  ASSUME NEW price \in Nat
  PROVE  ChunkUsdt(1, price) = price \div WEI /\ price \div WEI \in Nat
<1>1. WEI \in Nat \ {0}
  BY QuotesAssumption
<1>2. 1 * price = price
  OBVIOUS
<1> QED
  BY <1>1, <1>2 DEF ChunkUsdt

\* What the loops have quoted when nothing remains.
NothingQuoted == [totalUsdt |-> 0, burnAmount |-> 0, iterations |-> 0]
NothingCharged == [totalUsdt |-> 0, iterations |-> 0]

\* The loop of the sell quote as the recursive function it is, for one unit.
OneSold(u, c, offer) ==
  [remaining \in 0..1 |->
     IF remaining = 0 THEN [totalUsdt |-> 0, burnAmount |-> 0, iterations |-> 0]
     ELSE LET cursor == u + 1 - remaining
              chunk == Least(remaining, SellBoundary(cursor, c) - cursor)
              rest == offer[remaining - chunk]
          IN [totalUsdt |-> ChunkUsdt(chunk, getUserSellPrice(cursor, c))
                              + rest.totalUsdt,
              burnAmount |-> (chunk * BurnBp(cursor, c)) \div 10000
                               + rest.burnAmount,
              iterations |-> rest.iterations + 1]]

OneSoldWith(cursor, k, rest, c) ==
  [totalUsdt |-> ChunkUsdt(k, getUserSellPrice(cursor, c)) + rest.totalUsdt,
   burnAmount |-> (k * BurnBp(cursor, c)) \div 10000 + rest.burnAmount,
   iterations |-> rest.iterations + 1]

LEMMA OneSoldIs ==
  ASSUME NEW c, ValidSellConfig(c), NEW u \in Nat, u < c.dailyMaxAmount, NEW f
  PROVE  /\ OneSold(u, c, f)[0] = NothingQuoted
         /\ OneSold(u, c, f)[1] = OneSoldWith(u, 1, f[0], c)
<1>1. OneSold(u, c, f)[0] = NothingQuoted
  BY DEF OneSold, NothingQuoted
<1>2. PICK v, k, rest : /\ v = u + 1 - 1 /\ k = Least(1, SellBoundary(v, c) - v)
                        /\ rest = f[1 - k]
  OBVIOUS
<1>3. OneSold(u, c, f)[1] = OneSoldWith(v, k, rest, c)
  BY <1>2 DEF OneSold, OneSoldWith
<1>4. v = u
  BY <1>2
<1>5. k = 1
  BY <1>2, <1>4, SellPriceAhead DEF Least
<1>6. rest = f[0]
  BY <1>2, <1>5
<1> QED
  BY <1>1, <1>3, <1>4, <1>5, <1>6

LEMMA UnitSold ==
  ASSUME NEW c, ValidSellConfig(c), NEW u \in Nat, u < c.dailyMaxAmount
  PROVE  SellLoop(1, u, c).totalUsdt = getUserSellPrice(u, c) \div WEI
<1> DEFINE one == OneSoldWith(u, 1, NothingQuoted, c)
<1>1. SellLoop(1, u, c) = (CHOOSE f : f = OneSold(u, c, f))[1]
  BY DEF SellLoop, OneSold
<1>2. \E f : f = OneSold(u, c, f)
  <2> DEFINE g == [remaining \in 0..1 |-> IF remaining = 0 THEN NothingQuoted ELSE one]
  <2>1. g[0] = NothingQuoted /\ g[1] = one
    <3> HIDE DEF one
    <3> QED
      OBVIOUS
  <2>2. \A i \in 0..1 : i = 0 \/ i = 1
    OBVIOUS
  <2>3. OneSold(u, c, g) = [i \in 0..1 |-> OneSold(u, c, g)[i]]
    BY DEF OneSold
  <2>4. g = [i \in 0..1 |-> g[i]]
    OBVIOUS
  <2> HIDE DEF g
  <2>5. OneSold(u, c, g)[0] = g[0] /\ OneSold(u, c, g)[1] = g[1]
    BY <2>1, OneSoldIs
  <2>6. \A i \in 0..1 : g[i] = OneSold(u, c, g)[i]
    BY <2>2, <2>5, Zenon
  <2>7. g = OneSold(u, c, g)
    BY <2>3, <2>4, <2>6, Zenon
  <2> QED
    BY <2>7
<1>3. PICK f : f = (CHOOSE h : h = OneSold(u, c, h))
  OBVIOUS
<1>4. f = OneSold(u, c, f)
  BY <1>2, <1>3, Zenon
<1>5. f[0] = NothingQuoted /\ f[1] = OneSoldWith(u, 1, f[0], c)
  <2>1. PICK g : g = OneSold(u, c, f)
    OBVIOUS
  <2>2. g[0] = NothingQuoted /\ g[1] = OneSoldWith(u, 1, f[0], c)
    BY <2>1, OneSoldIs
  <2>3. f = g
    BY <1>4, <2>1
  <2> QED
    BY <2>2, <2>3
<1>6. PICK p \in Nat : p = getUserSellPrice(u, c)
  BY SellPriceAhead
<1>7. OneSoldWith(u, 1, NothingQuoted, c).totalUsdt = ChunkUsdt(1, p) + 0
  BY <1>6 DEF OneSoldWith, NothingQuoted
<1>8. SellLoop(1, u, c).totalUsdt = ChunkUsdt(1, p) + 0
  BY <1>1, <1>3, <1>5, <1>7
<1> QED
  BY <1>6, <1>8, PriceOfOne

OneBought(u, c, offer) ==
  [remaining \in 0..1 |->
     IF remaining = 0 THEN [totalUsdt |-> 0, iterations |-> 0]
     ELSE LET cursor == u + 1 - remaining
              chunk == Least(remaining, MakerBoundary(cursor, c) - cursor)
              rest == offer[remaining - chunk]
          IN [totalUsdt |-> ChunkUsdt(chunk, getMakerBuyPrice(cursor, c))
                              + rest.totalUsdt,
              iterations |-> rest.iterations + 1]]

OneBoughtWith(cursor, k, rest, c) ==
  [totalUsdt |-> ChunkUsdt(k, getMakerBuyPrice(cursor, c)) + rest.totalUsdt,
   iterations |-> rest.iterations + 1]

LEMMA OneBoughtIs ==
  ASSUME NEW c, ValidMakerConfig(c), NEW u \in Nat, NEW f
  PROVE  /\ OneBought(u, c, f)[0] = NothingCharged
         /\ OneBought(u, c, f)[1] = OneBoughtWith(u, 1, f[0], c)
<1>1. OneBought(u, c, f)[0] = NothingCharged
  BY DEF OneBought, NothingCharged
<1>2. PICK v, k, rest : /\ v = u + 1 - 1 /\ k = Least(1, MakerBoundary(v, c) - v)
                        /\ rest = f[1 - k]
  OBVIOUS
<1>3. OneBought(u, c, f)[1] = OneBoughtWith(v, k, rest, c)
  BY <1>2 DEF OneBought, OneBoughtWith
<1>4. v = u
  BY <1>2
<1>5. k = 1
  BY <1>2, <1>4, MakerPriceAhead DEF Least
<1>6. rest = f[0]
  BY <1>2, <1>5
<1> QED
  BY <1>1, <1>3, <1>4, <1>5, <1>6

LEMMA UnitBought ==
  ASSUME NEW c, ValidMakerConfig(c), NEW u \in Nat
  PROVE  MakerLoop(1, u, c).totalUsdt = getMakerBuyPrice(u, c) \div WEI
<1> DEFINE one == OneBoughtWith(u, 1, NothingCharged, c)
<1>1. MakerLoop(1, u, c) = (CHOOSE f : f = OneBought(u, c, f))[1]
  BY DEF MakerLoop, OneBought
<1>2. \E f : f = OneBought(u, c, f)
  <2> DEFINE g == [remaining \in 0..1 |-> IF remaining = 0 THEN NothingCharged ELSE one]
  <2>1. g[0] = NothingCharged /\ g[1] = one
    <3> HIDE DEF one
    <3> QED
      OBVIOUS
  <2>2. \A i \in 0..1 : i = 0 \/ i = 1
    OBVIOUS
  <2>3. OneBought(u, c, g) = [i \in 0..1 |-> OneBought(u, c, g)[i]]
    BY DEF OneBought
  <2>4. g = [i \in 0..1 |-> g[i]]
    OBVIOUS
  <2> HIDE DEF g
  <2>5. OneBought(u, c, g)[0] = g[0] /\ OneBought(u, c, g)[1] = g[1]
    BY <2>1, OneBoughtIs
  <2>6. \A i \in 0..1 : g[i] = OneBought(u, c, g)[i]
    BY <2>2, <2>5, Zenon
  <2>7. g = OneBought(u, c, g)
    BY <2>3, <2>4, <2>6, Zenon
  <2> QED
    BY <2>7
<1>3. PICK f : f = (CHOOSE h : h = OneBought(u, c, h))
  OBVIOUS
<1>4. f = OneBought(u, c, f)
  BY <1>2, <1>3, Zenon
<1>5. f[0] = NothingCharged /\ f[1] = OneBoughtWith(u, 1, f[0], c)
  <2>1. PICK g : g = OneBought(u, c, f)
    OBVIOUS
  <2>2. g[0] = NothingCharged /\ g[1] = OneBoughtWith(u, 1, f[0], c)
    BY <2>1, OneBoughtIs
  <2>3. f = g
    BY <1>4, <2>1
  <2> QED
    BY <2>2, <2>3
<1>6. PICK p \in Nat : p = getMakerBuyPrice(u, c)
  BY MakerPriceAhead
<1>7. OneBoughtWith(u, 1, NothingCharged, c).totalUsdt = ChunkUsdt(1, p) + 0
  BY <1>6 DEF OneBoughtWith, NothingCharged
<1>8. MakerLoop(1, u, c).totalUsdt = ChunkUsdt(1, p) + 0
  BY <1>1, <1>3, <1>5, <1>7
<1> QED
  BY <1>6, <1>8, PriceOfOne

-----------------------------------------------------------------------------
(***************************************************************************)
(* What is shown, from QuoteInv and the quote of one unit.                 *)
(***************************************************************************)

\* The views read the row of today as a trade resets it.
LEMMA ViewsOfToday ==
  ASSUME TypeOK
  PROVE  /\ normalizeDailyState.dailySellSpace = Fresh(today).dailySellSpace
         /\ normalizeDailyState.dailyMakerBuySpace = Fresh(today).dailyMakerBuySpace
         /\ Fresh(today).availableUsdt = pool.availableUsdt
         /\ Fresh(today).dailySellSpace \in Nat
BY DEF normalizeDailyState, Fresh, TypeOK, PoolState

LEMMA QuotedAsTraded == IInv /\ QuoteInv => QuotedIsTraded
<1> SUFFICES ASSUME IInv, QuoteInv, NEW r \in Request, req[r].pc = "priced",
                    req[r].day = today, req[r].call.config = config
             PROVE  LET call == req[r].call
                    IN /\ \E principal \in Principal :
                            Quotable(call.kind, call.account, call.amount, principal)
                       /\ quote(call.kind, call.amount)
                            = [usdtAmount |-> req[r].usdt, burnAmount |-> req[r].burn,
                               spaceAmount |-> req[r].space]
  BY DEF QuotedIsTraded
<1>1. PICK call : call = req[r].call
  OBVIOUS
<1>2. /\ normalizeDailyState.dailySellSpace = Fresh(today).dailySellSpace
      /\ normalizeDailyState.dailyMakerBuySpace = Fresh(today).dailyMakerBuySpace
  BY ViewsOfToday DEF IInv
<1>3. config.enabled
  BY <1>1 DEF QuoteInv, EnabledWhenRead, HoldsPool
<1>4. CASE call.kind = "sell"
  <2>1. PricedAsSale(r)
    BY <1>1, <1>4 DEF QuoteInv
  <2> DEFINE priced == SellQuote(call.amount, Fresh(today).dailySellSpace, config)
  <2>2. /\ req[r].usdt = priced.totalUsdt - Fee(priced.totalUsdt, config)
        /\ req[r].usdt > 0
        /\ req[r].burn = priced.burnAmount /\ req[r].space = priced.poolSpaceAmount
        /\ Fresh(today).dailySellSpace + call.amount <= config.dailyMaxAmount
        /\ \E principal \in Principal :
             call.amount <= remainingSellQuota(call.account, principal, pool.availableUsdt)
    BY <1>1, <2>1 DEF PricedAsSale
  <2>3. quote(call.kind, call.amount)
          = [usdtAmount |-> req[r].usdt, burnAmount |-> req[r].burn,
             spaceAmount |-> req[r].space]
    BY <1>2, <1>4, <2>2 DEF quote, SellQuoteNow
  <2>4. quote(call.kind, call.amount).usdtAmount > 0
    BY <2>2, <2>3
  <2>5. \E principal \in Principal :
          Quotable(call.kind, call.account, call.amount, principal)
    BY <1>2, <1>3, <2>2, <2>4 DEF Quotable
  <2> QED
    BY <1>1, <2>3, <2>5
<1>5. CASE call.kind # "sell"
  <2>1. PricedAsPurchase(r)
    BY <1>1, <1>5 DEF QuoteInv
  <2>2. /\ req[r].usdt
             = MakerQuote(call.amount, Fresh(today).dailyMakerBuySpace, config).totalUsdt
        /\ req[r].usdt > 0 /\ req[r].burn = 0
        /\ req[r].space
             = call.amount + (call.amount * config.subsidyBp) \div BpDenominator
    BY <1>1, <2>1 DEF PricedAsPurchase
  <2>3. quote(call.kind, call.amount)
          = [usdtAmount |-> req[r].usdt, burnAmount |-> req[r].burn,
             spaceAmount |-> req[r].space]
    BY <1>2, <1>5, <2>2 DEF quote, MakerQuoteNow
  <2>4. quote(call.kind, call.amount).usdtAmount > 0
    BY <2>2, <2>3
  <2>5. \A principal \in Principal :
          Quotable(call.kind, call.account, call.amount, principal)
    BY <1>3, <1>5, <2>4 DEF Quotable
  <2>6. Principal # {}
    BY ViewsAssumption
  <2> QED
    BY <1>1, <2>3, <2>5, <2>6
<1> QED
  BY <1>1, <1>4, <1>5

LEMMA OffersAccepted == IInv /\ QuoteInv => OfferedIsAccepted
<1> SUFFICES ASSUME IInv, QuoteInv PROVE OfferedIsAccepted
  OBVIOUS
<1>0. TypeOK /\ config \in Config /\ today \in Day /\ MaxDailyVolume \in Nat
  BY PoolAssumption DEF IInv, TypeOK, Day
<1>1. PICK u \in Nat : /\ u = Fresh(today).dailySellSpace
                      /\ u = normalizeDailyState.dailySellSpace
  BY <1>0, ViewsOfToday
<1>2. PICK v \in 0..MaxDailyVolume : /\ v = Fresh(today).dailyMakerBuySpace
                                    /\ v = normalizeDailyState.dailyMakerBuySpace
  BY <1>0, ViewsOfToday, FreshMaker
<1>3. PICK m \in Nat : m = config.dailyMaxAmount /\ m <= MaxDailyVolume
  BY <1>0, ConfigTypes
<1>4. globalRemainingSellSpace = Greater(m - u, 0)
  BY <1>1, <1>3 DEF globalRemainingSellSpace
<1>5. ASSUME NEW a \in Account, NEW principal \in Principal, NEW x \in SpaceAmount,
             x <= getOverview(a, principal).maxSellSpace
      PROVE  /\ balance[a]["SPACE"] >= x
             /\ x <= remainingSellQuota(a, principal, Fresh(today).availableUsdt)
             /\ u + x <= m
  <2>1. PICK left : left = remainingSellQuota(a, principal, pool.availableUsdt)
    OBVIOUS
  <2>2. left \in Int
    <3>1. Quota(principal, pool.availableUsdt) \in Int
      <4>1. calculateSellQuotaRateBp(pool.availableUsdt) \in RateBp
        BY <1>0, RateBounds DEF TypeOK, PoolState
      <4>2. Quota(principal, pool.availableUsdt) \in 0..MaxQuota
        BY <4>1, QuotaAssumption, Zenon DEF Quota
      <4> QED
        BY <4>2
    <3>2. sold[a][today] \in Int
      BY <1>0 DEF TypeOK
    <3> QED
      BY <2>1, <3>1, <3>2 DEF remainingSellQuota, Greater
  <2>3. PICK has \in Nat : has = balance[a]["SPACE"]
    BY <1>0 DEF TypeOK, Token
  <2>4. x \in Nat \ {0}
    BY PoolAssumption
  <2>5. x <= Lesser(Lesser(has, left), Greater(m - u, 0))
    BY <1>4, <1>5, <2>1, <2>3 DEF getOverview, userMaxSellSpace
  <2>6. x <= has /\ x <= left /\ x <= m - u
    BY <2>2, <2>4, <2>5 DEF Lesser, Greater
  <2>7. Fresh(today).availableUsdt = pool.availableUsdt
    BY <1>0, ViewsOfToday
  <2> QED
    BY <2>1, <2>3, <2>4, <2>6, <2>7
<1>6. ASSUME getAdminOverview.globalRemainingSellSpace > 0
      PROVE  SellQuote(1, u, config).totalUsdt = getAdminOverview.sellPrice \div WEI
  <2>1. u + 1 <= m /\ u \in 0..MaxDailyVolume
    <3>1. Greater(m - u, 0) > 0
      BY <1>4, <1>6 DEF getAdminOverview
    <3> QED
      BY <1>0, <1>3, <3>1 DEF Greater
  <2>2. /\ ValidSellConfig(config.sell) /\ config.sell.dailyMaxAmount = m
        /\ SellQuote(1, u, config).totalUsdt
             = calculateUserSellQuote(1, u, config.sell).totalUsdt
    BY <1>0, <1>3, <2>1, ViewsAssumption
  <2>3. SellLoop(1, u, config.sell).totalUsdt = getUserSellPrice(u, config.sell) \div WEI
    BY <2>1, <2>2, UnitSold
  <2>4. calculateUserSellQuote(1, u, config.sell).totalUsdt
          = SellLoop(1, u, config.sell).totalUsdt
    BY DEF calculateUserSellQuote
  <2>5. getAdminOverview.sellPrice = getUserSellPrice(u, config.sell)
    BY <1>1 DEF getAdminOverview
  <2> QED
    BY <2>2, <2>3, <2>4, <2>5
<1>7. MakerQuote(1, v, config).totalUsdt = getAdminOverview.makerPrice \div WEI
  <2>1. /\ ValidMakerConfig(config.maker)
        /\ MakerQuote(1, v, config).totalUsdt
             = calculateMakerBuyQuote(1, v, config.maker).totalUsdt
    BY <1>0, ViewsAssumption
  <2>2. v \in Nat
    BY <1>0
  <2>3. MakerLoop(1, v, config.maker).totalUsdt = getMakerBuyPrice(v, config.maker) \div WEI
    BY <2>1, <2>2, UnitBought
  <2>4. calculateMakerBuyQuote(1, v, config.maker).totalUsdt
          = MakerLoop(1, v, config.maker).totalUsdt
    BY DEF calculateMakerBuyQuote
  <2>5. getAdminOverview.makerPrice = getMakerBuyPrice(v, config.maker)
    BY <1>2 DEF getAdminOverview
  <2> QED
    BY <2>1, <2>3, <2>4, <2>5
<1>8. \A a \in Account, principal \in Principal :
        /\ getOverview(a, principal).sellPrice = getAdminOverview.sellPrice
        /\ getOverview(a, principal).makerPrice = getAdminOverview.makerPrice
  BY DEF getOverview, getAdminOverview
<1> QED
  BY <1>1, <1>2, <1>3, <1>5, <1>6, <1>7, <1>8 DEF OfferedIsAccepted

LEMMA QuoteInit == Init => QuoteInv
BY PoolAssumption DEF Init, QuoteInv, EnabledWhenRead, HoldsPool, Done

\* What the quote and the overviews show without a lock is what trades do with one:
\* a priced trade, as long as neither date nor configuration changed, pays, burns and
\* moves what anybody is quoted for it, and what is offered passes the checks of a
\* sale (quote, getOverview, getAdminOverview against sell and makerBuy).
THEOREM ShownIsTraded == Spec => []OffersHold
<1>1. Init => IInv /\ QuoteInv
  BY InitSound, QuoteInit
<1>2. IInv /\ QuoteInv /\ [Next]_vars => IInv' /\ QuoteInv'
  BY StepKeeps, QuoteNext
<1>3. IInv /\ QuoteInv => OffersHold
  BY QuotedAsTraded, OffersAccepted DEF OffersHold
<1> QED
  BY <1>1, <1>2, <1>3, PTL DEF Spec
=============================================================================
