# spacefi-server: specification and proofs

TLA+ modules, TLC configurations and TLAPS proofs for the spacefi server, a
NestJS application with PostgreSQL, Redis/BullMQ and contracts on BSC. All
definitions are translated from the source under `src/src` and `src/sql`; paths
below are relative to `src/src` unless they start otherwise.

## 1. The system

Three processes share one database: the user API, the admin API and a worker
(`apps/*`), each in any number of instances. The worker runs the queue processors
and the cron tasks of `worker/task-scheduler.service.ts` (every five minutes the
three signature checks, at midnight in Shanghai the miner rewards and the buyback
reset, weekly the dividend). `runTask` catches what a task throws, and nothing
keeps two runs of a task apart except the advisory locks of the SQL procedures.
Transactions run at READ COMMITTED and lock rows with `SELECT ... FOR UPDATE`,
except where noted.

| Component | State | Operations | Hard part |
|---|---|---|---|
| Buyback settlement (`buyback/buyback.service.ts`, `buyback.processor.ts`) | `buyback_signature`, two balances of `account`, `buyback_balance_log`, BullMQ jobs | generateDeposit/WithdrawSignature, submitNonce, processNonce, checkExpiredSignatures, settleSignature | two racing settlers, chain time against server time, lagging RPC, faults, retries refused by job ids |
| Buyback pricing (`buyback-pricing.util.ts`) | none | calculateUserSellQuote, calculateMakerBuyQuote | step boundaries, truncation |
| Buyback pool | `buyback_pool_state`, `buyback_trade`, balances | sell, makerBuy, addPoolUsdt, transferPoolAsset, resetDailyState; quote, overviews | one transaction over pool and account, three readings of the date, quotes without the lock |
| Config (`config/config.service.ts`, `admin.service.ts` updateConfig) | `config`, `dividend_rule` | updateConfig, readers, defaults | relations between keys, write skew |
| Account sync (`account.service.ts`, `admin.service.ts`) | one `account` row | syncMarketMaker, syncNodeLevel, updateUserLevels | whole entities saved without a lock |
| Withdrawals (`account.service.ts`) | `account_withdraw_signature`, balances | generateWithdraw(Usdt)Signature, checkWithdrawSignatureTask | as the settlement; one batch read, one catch per record |
| Miner purchase (`miner/miner.service.ts`) | purchase signatures, `account_miner`, balances | generatePurchaseMinerSignature, purchaseMinerInTransaction, checkPurchaseMinerSignatureTask | one pending purchase, four ways to pay, paid on the chain and turned down later |
| Miner rewards (`miner.service.ts`, SQL procedures) | `account_miner`, balances and their log | midnight task, accelerate, batch accelerate, cycle reset, ratio update | shares read before any lock, team rewards on top, produced never above expected |
| Free miner | `free_miner`, claims | processFreeMinerHash, claimFreeMinerReward, distribution | limits that other transactions move, opposite lock order |
| Referral tree, VIP, commission | `account_relation`, levels | createAccount, deleteUser, move_account_subtree, recompute_vip_levels | closure table and parent links agree; recomputation on a snapshot |
| Dividend (`dividendTask`) | vaults on the chain, rules, balances | sweep of the vaults, distribution by level | the sweep and the database transaction are not atomic; recipients listed, then locked |
| Login, administrators (`auth`, `nonce`, `admin-auth`) | a Redis key per address, `admin_user` | generateNonce, login, register, admin login, changePassword, guards | one signature sent twice, lock-out next to a password change |
| Start of the servers (`apps/user-api`, initializeDefaults, onModuleInit) | config, rule, account, miner, pool and administrator rows | find what is missing, insert it | several servers and requests at once |
| Maintenance flag, market, notices, notifications, test endpoints, HTTP plumbing | display data, CRUD | | none |

The components meet in the account row (balances, levels, flags), in the config
table, in the referral tree, and at the chain: settlements read nonces that the
contracts consume, the sync calls read rights that the contracts hold, the
dividend empties vaults.

What makes each component correct:

* settlements, withdrawals, purchases: a signature is settled once, by what the
  chain says for ever, and eventually; nothing is created or lost; a purchase that
  was paid on the chain is never turned down;
* pricing: each unit is paid its own price whatever the cuts;
* pool: conservation, an audit log that explains every balance, quotas and counters
  of the right day, no negative counter, and quotes that the trades keep;
* config: no accepted update makes a reader throw;
* account sync: no lost update;
* miners: produced within expected, every unit credited once, claims within both
  limits, active rates at the configured ratio;
* tree: the table is the closure of the parent links; levels follow it; every view
  of a team agrees with the others;
* dividend: nothing paid twice or out of nothing, one share per account and kind;
* access: a nonce admits once, a password is replaced by who knows it, and servers
  that start do not undo or block anything.

## 2. Modules

| Module | Models |
|---|---|
| `SignatureEscrow` | abstract specification: a signature is issued (a withdrawal is debited), the chain may redeem it, it is settled once with the result of the chain |
| `BuybackSettlement` | the buyback settlement with its queue, cron rounds, RPC lag and faults; implements `SignatureEscrow` |
| `MiningSignatures` | withdrawals of the main balances and purchases of miners, settled in batches; implements `SignatureEscrow` |
| `BuybackQuotes` | the pricing functions as pure operators |
| `BuybackPricing` | a business day of sales and purchases priced by `BuybackQuotes` |
| `BuybackPool` | pool, trades, transfers, reset; parameterised by the quote functions |
| `PoolViews` | quote and the two overviews; composes `BuybackPool` and `BuybackQuotes` |
| `MinerRewards` | midnight task, team rewards, accelerations, cycles, purchases, free miners, claims |
| `ReferralTree` | registration, deletion, moves, all recomputations of VIP levels |
| `TeamViews` | the queries over a team; extends `ReferralTree` |
| `Dividend` | the weekly task over a tree that goes on changing; extends `ReferralTree` |
| `AccountSync` | unlocked saves of an account entity next to locked movements |
| `ConfigUpdates` | updateConfig against the readers |
| `Access` | nonces, login, registration, administrators |
| `Startup` | servers that start, administrators who edit; extends `Access` |
| `Sums_proofs` | lemmas on sums over finite sets |
| `*_proofs` | theorems, see section 5; those about `ReferralTree` are in `Dividend_proofs`, which needs them |
| `MC*` | instances for TLC |

Everywhere a step boundary is an `await` outside a transaction, or a statement of
a transaction after which another transaction can be seen; what a transaction
writes takes effect at its commit.

### BuybackSettlement

| Specification | Code |
|---|---|
| `GenerateDepositSignature`, `GenerateWithdrawSignature`, `Insert` | the two generate calls; a withdrawal is debited and logged in the transaction that inserts the row |
| `SubmitNonce`, `JobRemove` | `queue.add` with `jobId`; BullMQ ignores an id it still knows, and forgets it `Retention` after the job ended |
| `JobStart`, `JobRead`, `JobSettle`, `JobFail` | processNonce: record, two reads three seconds apart, settlement; one attempt |
| `RoundList`, `RoundBlock`, `RoundRead`, `RoundSettle`, `RoundFail` | checkExpiredSignatures; rounds may overlap, a throw ends the round |
| `Settle`, `Record`, `Credit` | settleSignature, one transaction that rechecks `pending` under the row lock |
| `Tick`, `MineBlock`, `Redeemable` | server clock and contracts (external). A block's timestamp is `b \div SlotsPerTick`, so several blocks may share one |
| `Latest` | `getLatestBlock` answers from a node at most `Lag` blocks behind |
| `Crash` | the worker dies; the active job stalls and is run again or dropped |

The clock of the chain is not tied to the server's: blocks come at any time.

### MiningSignatures

| Specification | Code |
|---|---|
| `GenerateWithdrawSignature` | generateWithdrawSignature, generateWithdrawUsdtSignature: debit, log and row in one transaction |
| `GeneratePurchaseMinerSignature`, `Hold`, `NonePending`, `Eligible` | internal, wallet, mixed and USDT payment; what is held differs, at most one purchase of a miner is open |
| `SubmitNonce`, `JobStart` … `JobRemove` | the BullMQ processor of purchases |
| `RoundList`, `RoundRead`, `Skipped` | both check tasks: pending records past their grace, one block, all nonces in one batch; records still usable at that block stay out |
| `RoundSettle`, `RoundSkip`, `RoundFail` | one record after the other in the order of ids; a record that throws is skipped, a batch read that throws ends the round |
| `Record`, `Rejected`, `StartMiner` | settlement under the row lock; a used purchase starts the miner unless it is at work |
| `Produce` | the distribution, which ends a miner's work (the details are in `MinerRewards`) |
| `Crash` | as above |

### BuybackPool and PoolViews

`Begin` reads the configuration before the transaction. `LockPool` takes the pool
row and the date (`lockPool`, `resetDaily`). `PriceSell`/`PriceMakerBuy` take the
account row, read the quota on the date of *that* moment and check everything.
`CommitSell`/`CommitMakerBuy` write, the trade row dated by *that* moment. The
steps are separate because the account lock may make the transaction wait and
because the date is read again each time. `Abort` is a failed check or a database
error. `MoveRead`, `MoveSave` and `MoveAbort` are a settlement or a withdrawal by
another transaction: it reads the account under its lock, saves it, or throws. Every
writer saves absolute balances computed from the row it read (`Save`, `before`) and
logs the change, so a write over one that came in between would show in the log.
What the active miners of an account cost is an input chosen
anew by each sale.

`PoolViews` has the calls that only read: `quote`, `getOverview` and
`getAdminOverview` over the committed pool row with `normalizeDailyState`. An
operator is the answer of one call whose statements see one state.

### MinerRewards

| Specification | Code |
|---|---|
| `DistributeRead`, `DistributeLock`, `DistributeFree`, `DistributeCommit`, `DistributeAbort` | the midnight task: shares without a lock; accounts locked and log rows computed, team rewards, updates; the shares of the free miners, then both ratios read over another connection; cycle resets, commit |
| `CommissionLevel`, `TeamReward`, `TeamShare` | `compute_commission_level` and statements 7 to 11 |
| `Accelerate`, `BatchAccelerate` | the two procedures; refused while the midnight task holds the advisory lock |
| `UpdateCycleRead`, `UpdateCycleCommit`, `UpdateFreeRead`, `UpdateFreeCommit`, `UpdateAbort` | updateConfig of `CYCLE_REWARD_BP` and `FREE_MINER_CYCLE_REWARD_BP`: the value is saved and the UPDATE of the active rates takes its snapshot; when the rows it waits for are free, it rewrites them and commits. A row that became active between the two is missed (`stale`, `freeStale`) |
| `BuyRead`, `BuySave` | purchaseMinerInTransaction: the row is locked, the configuration read over another connection, the row written |
| `StartRead`, `StartFreeMiner`, `StartEnds` | the queue job processFreeMinerHash: event and ratio read, then the account locked and the row inserted; or nothing, because the row exists or something failed, and nobody tries again |
| `ClaimRead`, `ClaimPay`, `DeadlockVictim` | claimFreeMinerReward, which locks in the opposite order |
| `addUserSystemReward`, `transferUserBalance` | the administrator's movements |

A move of a subtree waits for the advisory lock of the midnight task, so
`Relation` is a constant here.

### ReferralTree and TeamViews

`CreateRead`/`CreateInsert` are createAccount: the superiors are read, then rows are
inserted whose foreign keys ask for every superior. `MoveLock`/`MoveCommit` are
`move_account_subtree`: the table lock waits for transactions that have read the
table and keeps out later ones. `SnapshotBegin`/`SnapshotRead`/`SnapshotWrite` are
the scheduled recomputation in a REPEATABLE READ transaction, `RecomputeNow` the one
inside a move or an update of the threshold. `VipLevels` goes level by level like
the procedure; `LevelsBottomUp` is `recompute_vip_levels_after_purchase` applied to
every account from the leaves up, and the reference the levels are compared to. The
histories `parent`, `due` and `mixed` say who invited or was moved to whom, which
levels the last recomputation owed, and whether it was older than the tree.

`TeamViews` has an operator for each query of the administrator and of the user over
one team: rows, accounts, pages of members, branches, statistics, the chain of
superiors, and whose market orders an account sees.

### Dividend

`Recompute`/`RecomputeEnd`, `SweepSend`/`SweepReceipt`/`SweepTimeout` (the call may
have been mined when the wait ends, may be reverted, and nobody looks at the status),
`ReadRules`, then for each rule `ListRecipients` and one `PayRecipient` per account,
`Commit` or `DividendFail`. All steps of the tree go on in between; what is paid
stays locked (`held`).

### AccountSync, ConfigUpdates

A sync call reads the entity, waits for the RPC, sets its field and saves. TypeORM's
`save` is modelled by what it does: `SELECT` (`SaveSelect`), then `UPDATE` of every
column that differs from the entity (`SaveUpdate`). `Validate` and `Save` are the two
halves of the updateConfig transaction: READ COMMITTED without locks lets another one
commit between them. Formats are left out; every modelled key is a number.

### Access and Startup

`Enter` is a request with a signature, `ConsumeNonce` the GETDEL with the
verification, `CreateRead`/`CreateInsert` createAccount after a registration.
`AdminLoginRead`/`AdminLoginAnswer` are the login of an administrator, whose wrong
credentials lock every account; `ChangeRead`/`ChangeUpdate` the two halves of
changePassword around the hashing; `Guarded` what both guards check. Requests fail
at any point (`CallFail`). A signature is the nonce that was signed.

`FindExisting`/`InsertMissing` are one initializeDefaults transaction under its
advisory lock, stage by stage; `UpsertPool` is the pool row; `FindAdmin`/`InsertAdmin`
the administrator of the environment. `EditRow`, `CreateMinerRead`,
`UpdateMinerRead`, `SaveMiner` are what requests do to the same rows meanwhile.
`by` names who wrote a row, `edited` which rows were changed since.

## 3. Runs

| Run | Shows | Bounds and why they are enough |
|---|---|---|
| `settlement` | types, agreement with the chain, exactly once, conservation, no early refund, refinement of `SignatureEscrow` | two signatures, the queue job, two overlapping rounds, one fault, two blocks per timestamp, lag one: three settlers can meet at one record, the second record makes a round long enough to fail between records, and the chain passes the deadline within the bounds (1.8 million states) |
| `settlement_live` | every issued signature settles | one fault; the clock and the chain run far enough past the deadline for two rounds |
| `mining` | types, agreement with the chain, exactly once, conservation, credited purchases, a paid purchase goes through, the same escrow, and every record settles | two records of either kind, two withdrawal rounds, a purchase round and the job, one fault, lag one (250 thousand states). A third record, that is a second purchase of a miner after the first was used, does not fit; `rewards` has repeated purchases and the proofs have any number |
| `pricing` | unit prices, burn rates, monotone prices, no gain from splitting | all cuts of a day of 13 units into portions 1, 2, 3, 5, 9 over both tiers and the fixed price; prices in quarters so that every division truncates |
| `pool` | types, conservation, log, quota, counters, offers kept | two requests, a user and a maker, two days, three trades, one other movement, which may hold the account between its read and its save; a curve with a step per unit and all burn rates (598 thousand states) |
| `pool_midnight` | violation of `GlobalMaximumPerDate` | |
| `rewards` | types, produced within expected, conservation, log chain, claims within limits, rates at the configured ratio | an account and its subordinate, one miner, one update of either ratio, whose snapshot and commit fall anywhere, one job that starts a free miner, two claims, a purchase, one gift and one release, time for two cycles of different lengths: the shares, the team reward and a release can each be the one that completes a miner (1.57 million states) |
| `tree` | types, closure, levels, views of a team | six accounts on three levels and a newcomer, one move of a leaf or a branch, a deletion, both thresholds, two VIP levels with two markets each, a snapshot at any time (41 thousand states) |
| `dividend` | paid out of sweeps, one level per kind, a round pays all | a chain of three and a newcomer, two kinds of two levels, one round, one move; the fee unit makes every cut truncate (1.2 million states) |
| `access` | one session per nonce, passwords replaced by their holders, safe starts | two servers, two overlapping requests of three, two nonces, two administrators, two passwords, one default row per table and one older account, so that a request can take the key or the unique value of a default at any point of a start (1.7 million states) |
| `account_sync_lost` | violation of `LogExplainsBalance` | |
| `config_two` | violation of `FeesReadable` by two administrators | |

Symmetry is used for rounds, requests, claims and servers, which no property orders.

### Findings

* A sale that crosses midnight between its pool lock and its row is priced by the
  day before: the sales dated one day can exceed the daily maximum
  (`pool_midnight`). The quota per account holds all the same, which is proved.
* A save of an account entity without its lock can undo a balance movement
  (`account_sync_lost`). It would break the chain of the balance log as well;
  `MinerRewards` leaves these saves out, so that its properties are about the rest.
* Two updates of the withdrawal fees can together exceed the whole (`config_two`).

Met while modelling, without a run, because neither the code nor a document says
what should happen:

* A purchase, or the start of a free miner, that reads its ratio before an update
  commits earns at the old one until its next cycle, if it commits after the update or
  while the UPDATE, which does not see it, waits for its rows; so does a miner whose
  cycle the midnight task resets at a ratio it has read before and whose row it has not
  paid and locked (`stale` and `freeStale` in `MinerRewards`);
  updateMiner changes price and reward of a miner without touching the rates of the
  active rows, which follow at the next reset.
* createMiner and updateMiner look first and save a whole entity later: the second
  of two requests overwrites the first.
* One accepted update of a tier key makes getBuybackConfig throw for every trade.
* Tokens stay valid after a password change; a change that was read before the
  account was locked still commits (but does not unlock it).
* A start fails if a request inserts a row between the server's find and its insert;
  a default whose unique value was taken by someone else is skipped for good.
* A claim of a free miner and the midnight task can deadlock; if the database ends
  the midnight task, everybody waits for the next midnight.
* A snapshot recomputation older than a move leaves levels that follow neither tree
  until the next one (`mixed`).
* Dividends: a failure or a deleted recipient after the sweep loses the round
  (`lost`); a reverted call is taken for a sweep (`unbacked`); an account whose level
  is written between listing and locking may share in two levels; a failing
  recomputation skips the week.
* Lists with a total, quotes and overviews are several statements, between which the
  database may change.
* BUYBACK_SYSTEM_DESIGN.md adds the whole sold amount to the pool (line 74) and pays
  a sixth to an account at once (line 103), where the code sets the burned share and
  the sixth aside; `MAKER_MAX_PRICE` (lines 142, 155) has no counterpart in the code.

## 4. Fairness

`settlement_live` and `mining` assume weak fairness of the server clock, block
production, the queue worker and each cron round: the scheduler starts a round every
five minutes and BullMQ delivers waiting jobs. No fairness of users, of contracts or
of the distribution is assumed, nor of faults. The faults are bounded, as every
attempt failing for ever would leave a record pending. All other properties are
safety.

## 5. Proofs

For every value of the constants that satisfies the assumptions named in the modules:

| Theorem | Statement |
|---|---|
| `BuybackSettlement_proofs`: `TypeCorrect`, `MatchesChain`, `ExactlyOnce`, `BalancesConserved` | `Spec => []TypeOK`, `[]SettlementMatchesChain`, `[]SettledExactlyOnce`, `[]Conservation` |
| `NoEarlyRefund`, `Refinement` | `Spec => GivenUpOnlyAfterGrace`, `Spec => Escrow!Spec` |
| `MiningSignatures_proofs`: `TypeCorrect`, `MatchesChain`, `ExactlyOnce`, `BalancesConserved`, `Refinement` | the same for withdrawals and purchases |
| `NeverRejected`, `EveryPurchaseCredited` | `Spec => []PaidPurchaseGoesThrough`, `[]PurchasesCredited` |
| `BuybackPool_proofs`: `TypeCorrect`, `LogExplains`, `QuotaPerDay`, `CountersOnlyFallAtMidnight` | `Spec => []TypeOK`, `[]LogExplainsBalances`, `[]UserQuotaPerDay`, `CountersFallAtMidnight` |
| `BooksConserved`, `SellCounterOfTheDay`, `ShownIsTraded` | `Spec => []Conservation`, `[]CounterOfTheDay`, `[]OffersHold` |
| `BuybackPricing_proofs`: `PricingTypeCorrect`, `UnitsPriced`, `NoGainFromSplitting` | `Spec => []TypeOK`, `[]PricedByTheUnit`, `[]SplittingGainsNothing` |
| `MinerRewards_proofs`: `TypeCorrect`, `ProductionBounded`, `RewardConservation`, `LogEndsWithBalance`, `RatesFollowConfig`, `ClaimLimits` | `Spec => []TypeOK`, `[]ProducedWithinExpected`, `[]Conservation`, `[]LogChain`, `[]RateFollowsConfig`, `[]ClaimedWithinLimits` |
| `Dividend_proofs`: `TreeTypeCorrect`, `TableIsClosure`, `LevelsFollow`, `ViewsAgree` | `TreeSpec => []TypeOK`, `[]ClosureOfParents`, `[]LevelsFollowTree`, `[]TeamViewsAgree` |
| `OneShare`, `PaidFromSweeps`, `CommitLeavesRounding` | `DividendSpec => []SharesInOneLevel`, `[]PaidOutOfSweeps`, `RoundPaysAll` |
| `Startup_proofs`: `OneSession`, `HolderReplaces`, `SafeStarts` | `Spec => []OneNonceOneSession`, `PasswordReplacedByItsHolder`, `[]StartsAreSafe` |

Sums. What the books add up to are sums over the rows of a table (`SumFunctionOnSet`,
a fold). The fold is a recursive function behind a `CHOOSE`; `Sums_proofs` shows that
there is one, what it is on the empty set and what one more element adds, by induction
over the subsets of a finite set. The induction is the well-foundedness of strict
inclusion (`FS_StrictSubsetOrderingWellFounded`, `WFMin`) applied to a set of
counterexamples, so that no theorem with an operator parameter is needed. From there
the lemmas are those the components need: a change of one term (`SumChange`), a move
from one term to another (`SumMove`), sums grouped by a key (`SumByGroup`) or taken over
what stands for the elements (`SumImage`), bounds
(`SumMonotone`, `SumSlack`, `SumWithin`).

Assumptions. Signatures, accounts, miners, relations and kinds are finite sets: they
are rows of tables, entries of a configuration. Amounts, prices and rewards are natural
numbers, as the validators and the column types make them; `AmountAssumption` of
`Dividend` says that there is a kind to distribute and that fees are at most 10000
basis points, which the readers of the configuration check. `ForestAssumption` of
`ReferralTree` says that the links there are at the start have no cycle: whoever
invited an account was there before it.

The settlement. `SettlementMatchesChain` is not inductive: a job or a round about to
settle relies on what it read at an earlier block. `IInv` adds `ChainInv` (a nonce is
consumed no later than the head and within its deadline), `TermsInv`, `WorkerInv`
(a job about to settle has seen a consumed nonce) and `RoundInv` (a round about to
settle has either seen it consumed, or its block is past the deadline and nothing
can consume it any more). The refinement maps the escrow's `redeemed` to the consumed
nonces; `MineBlock` is its redemption, `Settle` its settlement, all else stutters.

`Conservation` is stated over what the chain did, and a redemption moves an amount
from one of its sums to another. `BooksInv` says the same over the rows alone: an
account starts with what it has now plus a sum with one term for each signature
(`Net`). Every step changes at most one term, and the balance by the same amount;
`SettlementMatchesChain` turns the one form into the other.

Withdrawals and purchases. `RoundInv` speaks of all records a round has still to
settle, as they were all read at once: each is decided by the round's block.
`PaidPurchaseGoesThrough` is part of the invariant, because the refinement needs it:
the miner of an open purchase has finished and no other purchase of it is open, hence
`Rejected` never happens and a settlement is what the escrow says it is. `MinerInv`
says that purchases are of miners there are. `Conservation` and `PurchasesCredited` are
inductive under it: the first as above, with what a purchase holds of the internal
balance; the second because only the settlement of a used purchase changes what
produces.

The pool. The types alone are not inductive: a trade is written after other steps
have happened since its checks. `IInv` adds `LockInv` (the request with the pool lock
is the one in progress), `PricedInv` (a priced trade can still be paid and is still
within the quota, now or on the next day), `ReadInv` (what a transaction has read of
an account under its lock is still the row, and one transaction at a time holds it),
`DateInv` and `NoSaleInTheFuture`. `LogExplainsBalances` rests on `ReadInv`: only
because of the lock is the balance a transaction computed from what it read the balance
there is with the logged change added. The
quote functions are constants; `QuoteAssumption` states what is assumed of them (a
sale that respects the daily maximum gives natural numbers that split the amount),
and the instance that TLC checks takes them from `BuybackQuotes`. For the sums,
`SaleInv` adds that a priced sale burns and sells on exactly what it takes from the
account, and that the counter of its day still has room for it; a sale that meets
midnight finds a counter that was reset.

The views. `OffersHold` is about requests that are priced and about what is shown
meanwhile. `QuoteInv` says that a priced request carries what its own configuration
gives at the counters of its own day, that it was enabled when it was read, and, as
long as that day lasts, that its quota still admits it; it is inductive because nobody
else touches counters, pool or the sales of the day while the request holds the pool.
What is shown as a price is then compared with the quote of one unit (`UnitSold`,
`UnitBought`): the end of the segment is ahead of the cursor, so the loop takes one
round. `ViewsAssumption` says that the two quote functions are those of `BuybackQuotes`
on configurations that getBuybackConfig accepts.

Prices. A curve (`Curve`) is a rate for every unit of the day and, for every cursor
below the limit, a boundary ahead of it up to which the rate stays the same; the sell
price, the burn share and the maker price are three curves. That the boundaries of the
code are such (`SellSegment`, `MakerSegment`) is where the checks of the configuration
are needed: steps that did not fill their tier would run over its end. The loops of the
quotes are recursive functions; `SellUnfolds` and `MakerUnfolds` show by induction over
the rounds (`CountingAll`, from the well-foundedness of the natural numbers, applied to
a set of counterexamples) that each cuts a trade at the boundaries (`Cut`): a chunk at
the rate of its cursor, and then the rest. What follows is about any cut of any curve:
it pays what the units cost, less than a unit short for every chunk (`PaidNear`), and
two trades one after the other pay what one trade of both pays, or one unit less, with
at most one chunk more (`TradesJoin`): only the chunk that the cut divides is truncated
twice. `DaySoFar` of a day's trades is inductive by the latter, and `PricedByTheUnit` and
`SplittingGainsNothing` are what it says of the curves. One trade is bounded by the
limit of the loops (`MaxIterations`) in the model as in the code; the theorems compare
with the loop of the whole volume.

Miners. `RowInv` says that while the midnight task runs, what it has read for a miner
still fits what that miner has left to produce (`SharesFit`): accelerations wait for
the rows it holds, and a purchase only raises what a miner is to produce;
`FreeSharesFit` says it of the free miners. `BalanceInv` adds that until it commits,
the balances of those it pays are the ones it has read (`SeenIsBalance`), so the logged
balance is right when it is written; under it `LogChain` and `Conservation` are
inductive. `FreeInv` says of a claim between its two halves that nobody else claims
from its free miner and that what it computed is still covered by what was produced
and paid, both of which only grow meanwhile.

The two halves of `RateFollowsConfig`, `MinerRates` and `FreeRates`, need more.
`UpdateInv` gives the updates that are running their types and `BuyInv` says of a
purchase between its reading of the ratio and its commit that its miner is not active
and that no other purchase holds it. `Missed` and `FreeMissed` say of the midnight task
between its reading of the ratios and its commit that, if an update has committed
meanwhile, every row the task has paid is `stale`: the task held the row, so the update
can only have committed if its snapshot did not have it. A reset then writes rate and
cycle from the configured ratio, or the row is stale.

The tree. `Closure` is defined by climbing from an account to its superiors; the table
is changed by rows. `Mirrors` says in rows what the closure is: a row of level 1 is a
parent link (`Direct`), a row of level l + 1 is one of the parent with level l
(`Indirect`), nobody is above itself (`NoLoop`). One set of rows mirrors given links,
their closure: without a cycle no way up is longer than there are accounts (a
pigeonhole, `WayUpEnds`). `TreeInv` says that `account_relation` mirrors the links, that
its rows are about accounts there are (`Known`), and of a registration between its read
and its insert that no move holds the table, that its account is not there yet and that
the superiors it has read are still those of its recommender, unless the recommender was
deleted (`Registering`). A deleted recommender does not come back, because an id is used
once. The step that takes work is a move: rows are cut above the subtree and added below
the new superiors, and `MoveMirrors` shows the result mirrors the changed links.

The levels. The procedure raises everybody from level n - 1 to n in its n-th round and
stops when nobody rises; `LevelsBottomUp` asks for one account which levels below it
there are. Both are recursive functions, so what is proved of them is an induction
(`CountingUp`, from the well-foundedness of the natural numbers) over what they compute
for one n. `Ladder` is what they have in common: who sells enough, and who has enough
markets in which somebody reached the level below. Because the markets of a member lie
within the market (`MirrorNested`), each rung is within the one below it
(`LadderFalls`); therefore the procedure may skip whom it has not raised and end early,
and both give the highest rung an account stands on (`LevelsAgree`). `LevelInv` then
says of a scheduled recomputation, as long as nobody else has recomputed, that an account
it does not write has its level already (`SnapshotRight`).

What is shown of a team. `ViewsAgree` needs no invariant beyond those of the tree; the
work is in what mirrored rows mean for the queries. A superior has one level above an
account, so rows and members are alike in number (`OneRowEach`); every member is in the
branch of one direct subordinate, because the way up passes one account at distance 1
below the superior (`HeadOver`, `OneBranchEach`), so any sum over the team is that over
its branches (`SumOfBranches`, which also counts them: a count is a sum of ones); and the
distances of the superiors of an account are 1 to some h (`ChainExists`), so the row with
h - l farther ones is that at distance l (`HigherCount`, `ChainIs`).

The dividend. `PayInv`: an account that was paid is locked until the commit, a locked
account's level is written by nobody, and the levels of a kind are disjoint; so an
account that appears in a second list was written before its lock. It rests on
`DividendAssumption` (the kinds are distinct). `BooksInv` says that what a round took
for swept is accounted for until the round ends, and that what it has paid, with what
the current list is still to get, stays within what the rules give to the levels listed
so far (`Covered`): a list is divided with truncation and every account of it is paid
once. From below, `SpendInv` says that nobody is paid twice from one list (`PaidOnce`)
and that each list leaves less than a unit per account (`Spent`); with less than a unit
lost per level to the rules, a commit leaves no more than `RoundPaysAll` allows.

Access. `NonceInv` adds that nonces not given out yet admitted nobody and are carried
by nobody. `AdminInv` says that a change under way carries the hash it verified, of a
row that exists. `StartInv` says that a server about to insert holds the lock of its
stage alone (`LockInv`), that what it did not find missing is covered (`FoundInv`), and
that edited rows are there (`EditedInv`); `SaveInv`, that a miner about to be saved is
a request's. From these the four parts of `StartsAreSafe` are inductive together. The
proof rests on `StartupAssumption`: the defaults of a table and its rows at the start
have distinct keys and unique values.

Only model-checked: liveness (`EverySignatureSettles`, of both settlements);
`AccountSync` and `ConfigUpdates`, whose runs are counterexamples.

## 6. Not modelled

* Reorganisations of the chain: settlements rest on the latest block, the repository's
  own plan for finalized blocks (FINALIZED_NONCE_SETTLEMENT_PLAN.md) is not
  implemented, and nothing takes a settlement back. Nodes may lag, blocks do not
  disappear.
* The lock graph: deadlocks of the database appear as aborted transactions, except the
  one of the midnight task with a claim, which is an action.
* The market maker whitelist, `dividend_level_stat`, the deletion of a default account next to a start.
* `deleteUser` removes pending signatures and miners of an account while settlements
  and the midnight task run; it is modelled for the referral tree alone.
* An update of a ratio to the value it has, which writes no row of the configuration;
  the two halves of an update of the VIP threshold (`UpdateThreshold` is one step; a
  snapshot written between them is one that is older than the update, `mixed`).
* Signing, ABI encodings and constants, HTTP, the maintenance flag (one Redis key),
  notices, notifications, market prices, lists and statistics for display, logging,
  test endpoints.

Numbers are unbounded: the code computes with `BigInt` and stores `NUMERIC(28,0)`.

## 7. Plan

Done: the settlement with its abstract escrow and proofs; quotes and pricing; the
pool, its views and proofs; account sync and config; withdrawals and purchases against
the same escrow with proofs; miner rewards and free miners with proofs; the referral
tree, VIP levels and team views with proofs; the dividend with proofs; access and the
start of servers with proofs; the theorems about prices.

Left, in this order:

1. The market maker whitelist next to `AccountSync`.
2. A model of the lock order of all transactions that looks for deadlocks.
