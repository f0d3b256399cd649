---------------------------- MODULE MinerRewards ----------------------------
(***************************************************************************)
(* What miners produce: src/sql/distribute_miner_rewards.sql,              *)
(* distribute_free_miner_rewards.sql, compute_commission_level.sql, the    *)
(* two acceleration procedures, and of src/src/miner/miner.service.ts the  *)
(* midnight task that calls them, the start of a purchased and of a free   *)
(* miner, the job over the hash of a free miner's transaction, and the     *)
(* claim of a free miner's reward; and of                                  *)
(* src/src/admin/admin.service.ts the calls that change the same balances  *)
(* and rows.                                                               *)
(*                                                                         *)
(* The midnight task is one transaction of many statements.  It takes an   *)
(* advisory lock, reads what every miner is to get, locks the accounts it  *)
(* will pay, then the free miners, and reads the ratios; so it is four     *)
(* steps here, and what others commit between them is visible to the later *)
(* ones.  Everything it writes takes effect at the commit.  The claim of a *)
(* free miner's reward locks the free miner first and the account second,  *)
(* the other way round.  An update of a ratio is a transaction too: the    *)
(* snapshot of its UPDATE fixes the rows, its commit rewrites them.        *)
(***************************************************************************)
EXTENDS Integers, FiniteSets, Functions

CONSTANTS
  Account, Miner,
  Relation,       \* account_relation: [superior, subordinate, level] rows
  Price,          \* miner.price
  Expected,       \* miner.expectedReward
  FreePrice,      \* FREE_MINER_PRICE_WEI
  FreeExpected,   \* spaceAmount of the claim event of a free miner
  Bp,             \* values CYCLE_REWARD_BP may be set to
  FreeBp,         \* values FREE_MINER_CYCLE_REWARD_BP may be set to
  InitBp,         \* the two ratios at the start
  TeamBp,         \* TEAM_REWARD_BP
  MidPrice,       \* COMMISSION_MID_MINER_PRICE_WEI
  HighPrice,      \* COMMISSION_HIGH_MINER_PRICE_WEI
  InitCycle, MaxCycle, ExtendCycle,   \* cycle lengths, in seconds
  Day,            \* 86400
  StartAt,        \* MINER_REWARD_START_AT
  InitBalance,    \* account.balance at the start
  Release,        \* amounts an administrator may release from a miner
  Gift,           \* amounts an administrator may give or transfer
  Claimer,        \* claim requests that may overlap
  Buyer,          \* purchase settlements that may overlap
  Starter,        \* jobs over free-miner hashes that may overlap
  MaxNow,         \* bound on the clock
  MaxUpdates,     \* bound on the updates of the ratios that commit
  MinedAt,        \* [Account -> times a block may hold its free miner's claim]
  MaxPurchases,   \* [Account -> bound on its purchases of one miner]
  MaxIn, MaxOut   \* [Account -> bounds on what administrators move in and out]

ASSUME ConstantsAssumption ==
  /\ Price \in [Miner -> Nat] /\ Expected \in [Miner -> Nat]
  /\ {FreePrice, FreeExpected, TeamBp, StartAt, InitBalance, MaxNow, MaxUpdates}
       \subseteq Nat
  /\ MinedAt \in [Account -> SUBSET Nat]
  /\ {MaxPurchases, MaxIn, MaxOut} \subseteq [Account -> Nat]
  /\ {InitCycle, MaxCycle, ExtendCycle, Day} \subseteq Nat \ {0}
  /\ Bp \subseteq Nat /\ FreeBp \subseteq Nat /\ InitBp \in Bp \X FreeBp
  /\ Release \subseteq Nat \ {0} /\ Gift \subseteq Nat \ {0}

\* A database holds finitely many miners and relations.
ASSUME TablesAssumption ==
  /\ IsFiniteSet(Miner) /\ IsFiniteSet(Relation)
  /\ Relation \subseteq [superior : Account, subordinate : Account, level : Nat \ {0}]

VARIABLES
  now,        \* Date.now() and NOW(), in seconds
  bp,         \* CYCLE_REWARD_BP
  freeBp,     \* FREE_MINER_CYCLE_REWARD_BP
  updates,    \* updates of the two that have committed
  update,     \* the update of CYCLE_REWARD_BP that is running
  freeUpdate, \* the update of FREE_MINER_CYCLE_REWARD_BP that is running
  miner,      \* account_miner, one row for an account and a miner
  free,       \* free_miner, one row for an account
  paid,       \* what an account paid for the purchases that were settled used
  balance,    \* account.balance
  moved,      \* what administrators moved out of a balance, less what they moved in
  logged,     \* balance_after of the last account_balance_log row
  dist,       \* the midnight task that is running
  claim,      \* [Claimer -> the claim that is running]
  buy,        \* [Buyer -> the settlement of a purchase that is running]
  start       \* [Starter -> the job over a free-miner hash that is running]

VARIABLES
  stale,      \* history: the rows whose rate was written from a ratio that an update
              \* was replacing, or had replaced, and that the update did not find
  freeStale   \* history: the accounts with such a free miner

config == <<bp, freeBp, updates, update, freeUpdate>>
starts == <<start, freeStale>>
vars == <<now, config, miner, free, paid, balance, moved, logged, dist, claim, buy, starts,
          stale>>

NoRow == [id |-> 0, expected |-> 0, produced |-> 0, last |-> 0, rate |-> 0,
          cycle |-> 1, end |-> 0]
NoFree == [expected |-> 0, produced |-> 0, claimed |-> 0, last |-> 0, rate |-> 0,
           cycle |-> 1, end |-> 0]
NoShares == [a \in Account |-> [m \in Miner |-> 0]]
NoDist == [pc |-> "idle", at |-> 0, share |-> NoShares, seen |-> [a \in Account |-> 0],
           freeShare |-> [a \in Account |-> 0], bp |-> 0, freeBp |-> 0]
NoUpdate == [pc |-> "idle"]
NoClaim == [pc |-> "idle"]
NoBuy == [pc |-> "idle"]
NoStart == [pc |-> "idle"]

Owned(a, m) == miner[a][m].id # 0
Active(r) == r.produced < r.expected

LesserOf(x, y) == IF x < y THEN x ELSE y
GreaterOf(x, y) == IF x > y THEN x ELSE y

\* computeCycleEndAt: the cycle counts from the start of the day.
CycleEnd(t, cycle) == (t \div Day) * Day + cycle

\* rewardPerSecond; every division rounds down.
Rate(price, rewardBp, cycle) == ((price * rewardBp) \div 10000) \div cycle

\* The next cycle is longer, up to the longest.
NextCycle(cycle) == LesserOf(cycle + ExtendCycle, MaxCycle)

Init ==
  /\ now = 0
  /\ bp = InitBp[1] /\ freeBp = InitBp[2]
  /\ updates = 0
  /\ update = NoUpdate /\ freeUpdate = NoUpdate
  /\ miner = [a \in Account |-> [m \in Miner |-> NoRow]]
  /\ free = [a \in Account |-> NoFree]
  /\ paid = [a \in Account |-> 0]
  /\ balance = [a \in Account |-> InitBalance]
  /\ moved = [a \in Account |-> 0]
  /\ logged = balance
  /\ dist = NoDist
  /\ claim = [q \in Claimer |-> NoClaim]
  /\ buy = [q \in Buyer |-> NoBuy]
  /\ start = [q \in Starter |-> NoStart]
  /\ stale = {}
  /\ freeStale = {}

-----------------------------------------------------------------------------
(***************************************************************************)
(* Locks that are held across steps.  The UPDATE of a ratio waits for them *)
(* and commits at once, so its own need no variable.                       *)
(***************************************************************************)
LockNothing(a) == FALSE

\* The account rows the midnight task has locked FOR UPDATE.
Locked(a) == dist.pc \in {"pay", "save"} /\ \E m \in Miner : dist.share[a][m] > 0

\* The account_miner rows it has updated, ...
RowLocked(a, m) == dist.pc \in {"pay", "save"} /\ dist.share[a][m] > 0

\* ... and the free_miner rows.
FreeLocked(a) == dist.pc = "save" /\ dist.freeShare[a] > 0

\* pg_try_advisory_xact_lock('distribute_miner_rewards')
AnyoneAtWork == TRUE
NobodyAtWork == dist.pc = "idle"

FreeUnlocked(a) == TRUE
\* No claim holds the free_miner row.
FreeMinerFree(a) ==
  \A q \in Claimer : ~(claim[q].pc = "pay" /\ claim[q].account = a)

\* No settlement of a purchase holds the miner and its account_miner row.
MinerFree(m) == \A q \in Buyer : ~(buy[q].pc = "save" /\ buy[q].miner = m)
Bought(a, m) == \E q \in Buyer : buy[q].pc = "save" /\ buy[q].account = a /\ buy[q].miner = m

\* A log row over the whole of amount, and the balance with it.
Credit(a, amount) ==
  /\ balance' = [balance EXCEPT ![a] = @ + amount]
  /\ logged' = [logged EXCEPT ![a] = balance[a] + amount]

-----------------------------------------------------------------------------
(***************************************************************************)
(* The midnight task: resetCycleAndDistributeRewardTask.                   *)
(***************************************************************************)

ShareFromAnyTime(r, t) ==
  IF Active(r) THEN LesserOf((t - r.last) * r.rate, r.expected - r.produced) ELSE 0

\* What time has earned a row at time t, at most what is left to produce.
ShareOf(r, t) ==
  IF Active(r) /\ r.last < t
  THEN LesserOf((t - r.last) * r.rate, r.expected - r.produced) ELSE 0

\* Statement 1: the shares, read without a lock.
DistributeRead ==
  /\ NobodyAtWork
  /\ dist.pc = "idle"
  /\ dist' = [NoDist EXCEPT !.pc = "lock", !.at = now,
                !.share = [a \in Account |-> [m \in Miner |-> ShareOf(miner[a][m], now)]]]
  /\ UNCHANGED <<now, config, miner, free, paid, balance, moved, logged, claim, buy, starts, stale>>

TotalShare(a) == SumFunctionOnSet(dist.share[a], Miner)

\* Statements 2 to 5: the accounts are locked, the log rows written over the
\* balances they have now, the balances and the rows updated.
DistributeLock ==
  /\ dist.pc = "lock"
  /\ dist' = [dist EXCEPT !.pc = "pay",
                !.seen = [a \in Account |-> IF TotalShare(a) > 0 THEN balance[a] ELSE 0]]
  /\ UNCHANGED <<now, config, miner, free, paid, balance, moved, logged, claim, buy, starts, stale>>

\* Statement 6, compute_commission_level: how many levels below it an account
\* is rewarded for, by how many of its direct subordinates own which miners.
DirectOwners(a, price) ==
  {u \in Account : /\ [superior |-> a, subordinate |-> u, level |-> 1] \in Relation
                   /\ \E m \in Miner : Owned(u, m) /\ Price[m] >= price}

CommissionLevel(a) ==
  LET high == Cardinality(DirectOwners(a, HighPrice))
      mid == Cardinality(DirectOwners(a, MidPrice))
      any == Cardinality(DirectOwners(a, 0))
  IN CASE high >= 3 -> 20
       [] high = 2 -> 15
       [] high = 1 -> 10
       [] high = 0 /\ mid >= 1 -> 5
       [] high = 0 /\ mid = 0 /\ any >= 1 -> 1
       [] OTHER -> 0

\* Statement 7: a share of what each miner below it got, rounded down per miner.
TeamReward(a) ==
  LET rows == {r \in Relation : r.superior = a /\ r.level <= CommissionLevel(a)}
      OfRow(r) ==
        SumFunction([m \in Miner |-> (dist.share[r.subordinate][m] * TeamBp) \div 10000])
  IN SumFunction([r \in rows |-> OfRow(r)])

\* Statement 8: it is laid on the account's own miners in this order, as far as
\* they have something left to produce after statement 5; the rest is lost.
Before(a, m, n) ==
  LET r == miner[a][m]
      s == miner[a][n]
  IN \/ r.cycle < s.cycle
     \/ r.cycle = s.cycle /\ r.expected > s.expected
     \/ r.cycle = s.cycle /\ r.expected = s.expected /\ r.id < s.id

Left(a, m) == miner[a][m].expected - (miner[a][m].produced + dist.share[a][m])

\* x, but not below 0 and not above y, and nothing of what is used up.
Clamp(x, y) == IF x <= 0 \/ y <= 0 THEN 0 ELSE LesserOf(x, y)

TeamShare(a, m) ==
  LET ahead == {n \in Miner : Left(a, n) > 0 /\ Before(a, n, m)}
  IN Clamp(TeamReward(a) - SumFunction([n \in ahead |-> Left(a, n)]), Left(a, m))

\* Statements 9 to 11.
TeamPaid(a) == SumFunction([m \in Miner |-> TeamShare(a, m)])

ResetAtOldRate(r, price, rewardBp) ==
  IF Active(r) /\ r.end <= dist.at
  THEN [r EXCEPT !.cycle = NextCycle(@), !.end = CycleEnd(dist.at, NextCycle(r.cycle))]
  ELSE r

\* The reset of a row whose cycle has ended.
Reset(r, price, rewardBp) ==
  IF Active(r) /\ r.end <= dist.at
  THEN [r EXCEPT !.cycle = NextCycle(@), !.end = CycleEnd(dist.at, NextCycle(r.cycle)),
                 !.rate = Rate(price, rewardBp, NextCycle(r.cycle))]
  ELSE r

\* Statements 5 and 12.
MinerPaid(a, m) ==
  LET share == dist.share[a][m]
      r == miner[a][m]
  IN [r EXCEPT !.produced = @ + share + TeamShare(a, m),
               !.last = IF share > 0 THEN dist.at ELSE @]

\* distribute_free_miner_rewards: what a free miner produces waits to be claimed;
\* its row must not be locked by a claim.  Then both ratios are read, over another
\* connection, for the reset of the cycles.
DistributeFree ==
  /\ dist.pc = "pay"
  /\ \A a \in Account : ShareOf(free[a], dist.at) > 0 => FreeMinerFree(a)
  /\ dist' = [dist EXCEPT !.pc = "save", !.bp = bp, !.freeBp = freeBp,
                !.freeShare = [a \in Account |-> ShareOf(free[a], dist.at)]]
  /\ UNCHANGED <<now, config, miner, free, paid, balance, moved, logged, claim, buy, starts, stale>>

FreePaid(a) ==
  LET share == dist.freeShare[a] IN
    [free[a] EXCEPT !.produced = @ + share, !.last = IF share > 0 THEN dist.at ELSE @]

FreeAfter(a) == Reset(FreePaid(a), FreePrice, dist.freeBp)

FreeWasReset(a) == Active(FreePaid(a)) /\ free[a].end <= dist.at

WasReset(a, m) == Active(MinerPaid(a, m)) /\ miner[a][m].end <= dist.at

\* The reset of the cycles and the commit.  No claim may hold a row it resets.  A
\* row it has paid is locked since before the ratio was read, another may have been
\* rewritten at a newer ratio meanwhile.
DistributeCommit ==
  /\ dist.pc = "save"
  /\ \A a \in Account : FreeAfter(a) = free[a] \/ FreeMinerFree(a)
  /\ miner' = [a \in Account |-> [m \in Miner |-> Reset(MinerPaid(a, m), Price[m], dist.bp)]]
  /\ free' = [a \in Account |-> FreeAfter(a)]
  /\ balance' = [a \in Account |-> balance[a] + TotalShare(a) + TeamPaid(a)]
  /\ logged' = [a \in Account |->
       IF TotalShare(a) > 0 \/ TeamPaid(a) > 0
       THEN (IF TotalShare(a) > 0 THEN dist.seen[a] ELSE balance[a])
              + TotalShare(a) + TeamPaid(a)
       ELSE logged[a]]
  /\ LET reset == {p \in Account \X Miner : WasReset(p[1], p[2])}
         freeReset == {a \in Account : FreeWasReset(a)}
     IN /\ stale' = IF dist.bp = bp THEN stale \ reset
                    ELSE stale \cup {p \in reset : ~RowLocked(p[1], p[2])}
        /\ freeStale' = IF dist.freeBp = freeBp THEN freeStale \ freeReset
                        ELSE freeStale \cup {a \in freeReset : ~FreeLocked(a)}
  /\ dist' = NoDist
  /\ UNCHANGED <<now, config, paid, moved, claim, buy, start>>

\* An error rolls everything back; the next midnight makes up for it.
DistributeAbort ==
  /\ dist.pc # "idle"
  /\ dist' = NoDist
  /\ UNCHANGED <<now, config, miner, free, paid, balance, moved, logged, claim, buy, starts, stale>>

-----------------------------------------------------------------------------
(***************************************************************************)
(* The administrator.                                                      *)
(***************************************************************************)

\* accelerate_account_miner_reward: at most what is left.
Accelerate(a, m) ==
  /\ NobodyAtWork
  /\ ~Locked(a) /\ ~RowLocked(a, m)
  /\ Active(miner[a][m])
  /\ \E amount \in Release :
       LET actual == LesserOf(amount, miner[a][m].expected - miner[a][m].produced) IN
         /\ Credit(a, actual)
         /\ miner' = [miner EXCEPT ![a][m].produced = @ + actual]
  /\ UNCHANGED <<now, config, free, paid, moved, dist, claim, buy, starts, stale>>

\* What the active miners of an account have left to produce.
Unproduced(a) ==
  SumFunction([m \in Miner |-> IF Active(miner[a][m])
                               THEN miner[a][m].expected - miner[a][m].produced ELSE 0])

\* batch_accelerate_account_miners: all miners of the accounts are completed.
BatchAccelerate(accounts) ==
  /\ NobodyAtWork
  /\ \A a \in accounts : ~Locked(a)
  /\ \E a \in accounts : Unproduced(a) > 0
  /\ balance' = [a \in Account |->
                   IF a \in accounts THEN balance[a] + Unproduced(a) ELSE balance[a]]
  /\ logged' = [a \in Account |->
                  IF a \in accounts /\ Unproduced(a) > 0
                  THEN balance[a] + Unproduced(a) ELSE logged[a]]
  /\ miner' = [a \in Account |-> [m \in Miner |->
                 IF a \in accounts /\ Active(miner[a][m])
                 THEN [miner[a][m] EXCEPT !.produced = miner[a][m].expected]
                 ELSE miner[a][m]]]
  /\ UNCHANGED <<now, config, free, paid, moved, dist, claim, buy, starts, stale>>

\* The updates that have not committed.
Running == (IF update = NoUpdate THEN 0 ELSE 1) + (IF freeUpdate = NoUpdate THEN 0 ELSE 1)

\* updateConfig of CYCLE_REWARD_BP: the value is saved, which locks its row and
\* lets one update of it run at a time; the snapshot of the UPDATE that follows
\* holds the rows that are active now.  Others see neither before the commit.
UpdateCycleRead(value) ==
  /\ update = NoUpdate
  /\ value # bp /\ updates + Running < MaxUpdates
  /\ update' = [pc |-> "rewrite", value |-> value,
                rows |-> {p \in Account \X Miner : Active(miner[p[1]][p[2]])}]
  /\ UNCHANGED <<now, bp, freeBp, updates, freeUpdate, miner, free, paid, balance, moved, logged,
                 dist, claim, buy, starts, stale>>

\* The UPDATE waits for rows of its snapshot that are locked, rewrites those that
\* are active still, and commits.  It does not see a row that became active
\* meanwhile.
UpdateCycleCommit ==
  LET rows == update.rows IN
  /\ update.pc = "rewrite"
  /\ \A p \in rows : ~RowLocked(p[1], p[2]) /\ ~Bought(p[1], p[2])
  /\ bp' = update.value /\ updates' = updates + 1
  /\ miner' = [a \in Account |-> [m \in Miner |->
       IF <<a, m>> \in rows /\ Active(miner[a][m])
       THEN [miner[a][m] EXCEPT !.rate = Rate(Price[m], update.value, miner[a][m].cycle)]
       ELSE miner[a][m]]]
  /\ stale' = {p \in Account \X Miner : Active(miner[p[1]][p[2]]) /\ p \notin rows}
  /\ update' = NoUpdate
  /\ UNCHANGED <<now, freeBp, freeUpdate, free, paid, balance, moved, logged,
                 dist, claim, buy, starts>>

\* updateConfig of FREE_MINER_CYCLE_REWARD_BP: the same for free miners, whose
\* rows a claim may hold.
UpdateFreeRead(value) ==
  /\ freeUpdate = NoUpdate
  /\ value # freeBp /\ updates + Running < MaxUpdates
  /\ freeUpdate' = [pc |-> "rewrite", value |-> value,
                    rows |-> {a \in Account : Active(free[a])}]
  /\ UNCHANGED <<now, bp, freeBp, updates, update, miner, free, paid, balance, moved, logged,
                 dist, claim, buy, starts, stale>>

UpdateFreeCommit ==
  LET rows == freeUpdate.rows IN
  /\ freeUpdate.pc = "rewrite"
  /\ \A a \in rows : ~FreeLocked(a) /\ FreeMinerFree(a)
  /\ freeBp' = freeUpdate.value /\ updates' = updates + 1
  /\ free' = [a \in Account |->
       IF a \in rows /\ Active(free[a])
       THEN [free[a] EXCEPT !.rate = Rate(FreePrice, freeUpdate.value, free[a].cycle)]
       ELSE free[a]]
  /\ freeStale' = {a \in Account : Active(free[a]) /\ a \notin rows}
  /\ freeUpdate' = NoUpdate
  /\ UNCHANGED <<now, bp, update, miner, paid, balance, moved, logged,
                 dist, claim, buy, start, stale>>

\* Either is rolled back, by an error or as the victim of a deadlock with the
\* midnight task, which locks the same rows in another order.
UpdateAbort ==
  /\ \/ update # NoUpdate /\ update' = NoUpdate /\ UNCHANGED freeUpdate
     \/ freeUpdate # NoUpdate /\ freeUpdate' = NoUpdate /\ UNCHANGED update
  /\ UNCHANGED <<now, bp, freeBp, updates, miner, free, paid, balance, moved, logged,
                 dist, claim, buy, starts, stale>>

\* Movements of balances under the account locks.  A transfer locks both rows
\* in one statement and writes them in one.  (What withdrawals and purchases do
\* to a balance is the debit of a transfer, see MiningSignatures.)
addUserSystemReward(a, amount) ==
  /\ ~Locked(a)
  /\ moved[a] - amount >= -MaxIn[a]
  /\ Credit(a, amount)
  /\ moved' = [moved EXCEPT ![a] = @ - amount]
  /\ UNCHANGED <<now, config, miner, free, paid, dist, claim, buy, starts, stale>>

transferUserBalance(from, to, amount) ==
  LET after == [balance EXCEPT ![from] = @ - amount, ![to] = @ + amount] IN
  /\ ~Locked(from) /\ ~Locked(to)
  /\ from # to
  /\ balance[from] >= amount
  /\ moved[from] + amount <= MaxOut[from] /\ moved[to] - amount >= -MaxIn[to]
  /\ balance' = after
  /\ logged' = [logged EXCEPT ![from] = after[from], ![to] = after[to]]
  /\ moved' = [moved EXCEPT ![from] = @ + amount, ![to] = @ - amount]
  /\ UNCHANGED <<now, config, miner, free, paid, dist, claim, buy, starts, stale>>

-----------------------------------------------------------------------------
(***************************************************************************)
(* A purchase that was paid: purchaseMinerInTransaction.  The row is       *)
(* locked, then the configuration is read over another connection, then    *)
(* the row is written.                                                     *)
(***************************************************************************)
Startable(a, m) == ~Active(miner[a][m])

BuyRead(q, a, m) ==
  /\ buy[q].pc = "idle"
  /\ Startable(a, m)
  /\ miner[a][m].expected < MaxPurchases[a] * Expected[m]
  /\ MinerFree(m)
  /\ buy' = [buy EXCEPT ![q] = [pc |-> "save", account |-> a, miner |-> m, bp |-> bp]]
  /\ UNCHANGED <<now, config, miner, free, paid, balance, moved, logged, dist, claim, starts, stale>>

\* A first purchase inserts a row, whose foreign key needs the account.
BuySave(q) ==
  /\ buy[q].pc = "save"
  /\ LET a == buy[q].account
         m == buy[q].miner
         r == miner[a][m]
         cycle == IF Owned(a, m) THEN NextCycle(r.cycle) ELSE InitCycle
         startAt == GreaterOf(now, StartAt)
     IN /\ Owned(a, m) \/ ~Locked(a)
        /\ miner' = [miner EXCEPT ![a][m] =
             [id |-> IF Owned(a, m) THEN r.id
                     ELSE 1 + Cardinality({n \in Miner : Owned(a, n)}),
              expected |-> r.expected + Expected[m], produced |-> r.produced,
              last |-> startAt, rate |-> Rate(Price[m], buy[q].bp, cycle),
              cycle |-> cycle, end |-> CycleEnd(startAt, cycle)]]
        /\ paid' = [paid EXCEPT ![a] = @ + Price[m]]
        /\ stale' = IF buy[q].bp = bp THEN stale \ {<<a, m>>} ELSE stale \cup {<<a, m>>}
  /\ buy' = [buy EXCEPT ![q] = NoBuy]
  /\ UNCHANGED <<now, config, free, balance, moved, logged, dist, claim, starts>>

-----------------------------------------------------------------------------
(***************************************************************************)
(* Free miners.                                                            *)
(***************************************************************************)

\* processFreeMinerHash of a hash that was submitted while its account had no
\* free miner: the event and the configuration are read, ...
StartRead(q, a, minedAt) ==
  /\ start[q].pc = "idle"
  /\ free[a] = NoFree
  /\ minedAt <= now
  /\ start' = [start EXCEPT ![q] = [pc |-> "insert", account |-> a, bp |-> freeBp,
                                   at |-> GreaterOf(minedAt, StartAt)]]
  /\ UNCHANGED <<now, config, miner, free, paid, balance, moved, logged, dist, claim, buy,
                 freeStale, stale>>

\* ... the account is locked and the row inserted, one for an account.
StartFreeMiner(q) ==
  /\ start[q].pc = "insert"
  /\ LET a == start[q].account
         at == start[q].at
     IN /\ ~Locked(a)
        /\ free[a] = NoFree
        /\ free' = [free EXCEPT ![a] =
             [expected |-> FreeExpected, produced |-> 0, claimed |-> 0, last |-> at,
              rate |-> Rate(FreePrice, start[q].bp, InitCycle), cycle |-> InitCycle,
              end |-> CycleEnd(at, InitCycle)]]
        /\ freeStale' = IF start[q].bp = freeBp THEN freeStale ELSE freeStale \cup {a}
  /\ start' = [start EXCEPT ![q] = NoStart]
  /\ UNCHANGED <<now, config, miner, paid, balance, moved, logged, dist, claim, buy, stale>>

\* The row is there already, or an error: nothing is written.
StartEnds(q) ==
  /\ start[q].pc = "insert"
  /\ start' = [start EXCEPT ![q] = NoStart]
  /\ UNCHANGED <<now, config, miner, free, paid, balance, moved, logged, dist, claim, buy,
                 freeStale, stale>>

\* getFreeMinerClaimInfo: a fifth of what the account paid for miners.
ClaimLimit(a) == (paid[a] * 20) \div 100

ClaimableAgain(a) ==
  LesserOf(Clamp(free[a].produced - free[a].claimed, free[a].produced), ClaimLimit(a))

\* What is left of both.
Claimable(a) ==
  LesserOf(Clamp(free[a].produced - free[a].claimed, free[a].produced),
           Clamp(ClaimLimit(a) - free[a].claimed, ClaimLimit(a)))

\* claimFreeMinerReward: the free miner is locked and the amount computed; ...
ClaimRead(q, a) ==
  /\ claim[q].pc = "idle"
  /\ FreeMinerFree(a) /\ ~FreeLocked(a)
  /\ Claimable(a) > 0
  /\ claim' = [claim EXCEPT ![q] = [pc |-> "pay", account |-> a, amount |-> Claimable(a),
                                    claimed |-> free[a].claimed]]
  /\ UNCHANGED <<now, config, miner, free, paid, balance, moved, logged, dist, buy, starts, stale>>

\* ... the account is locked, and both are written.
ClaimPay(q) ==
  /\ claim[q].pc = "pay"
  /\ ~Locked(claim[q].account)
  /\ Credit(claim[q].account, claim[q].amount)
  /\ free' = [free EXCEPT ![claim[q].account].claimed = claim[q].claimed + claim[q].amount]
  /\ claim' = [claim EXCEPT ![q] = NoClaim]
  /\ UNCHANGED <<now, config, miner, paid, moved, dist, buy, starts, stale>>

\* The midnight task and a claim wait for each other: the database ends one of
\* them.
DeadlockVictim(q) ==
  /\ claim[q].pc = "pay"
  /\ Locked(claim[q].account)
  /\ IF dist.pc = "pay" THEN ShareOf(free[claim[q].account], dist.at) > 0
     ELSE FreeAfter(claim[q].account) # free[claim[q].account]
  /\ claim' = [claim EXCEPT ![q] = NoClaim]
  /\ UNCHANGED <<now, config, miner, free, paid, balance, moved, logged, dist, buy, starts, stale>>

-----------------------------------------------------------------------------
Tick ==
  /\ now < MaxNow
  /\ now' = now + 1
  /\ UNCHANGED <<config, miner, free, paid, balance, moved, logged, dist, claim, buy, starts, stale>>

MidnightTask ==
  DistributeRead \/ DistributeLock \/ DistributeFree \/ DistributeCommit \/ DistributeAbort

Next ==
  \/ Tick \/ MidnightTask
  \/ \E a \in Account, m \in Miner :
       Accelerate(a, m) \/ \E q \in Buyer : BuyRead(q, a, m)
  \/ \E accounts \in SUBSET Account : BatchAccelerate(accounts)
  \/ \E value \in Bp : UpdateCycleRead(value)
  \/ \E value \in FreeBp : UpdateFreeRead(value)
  \/ UpdateCycleCommit \/ UpdateFreeCommit \/ UpdateAbort
  \/ \E q \in Starter : StartFreeMiner(q) \/ StartEnds(q)
  \/ \E q \in Buyer : BuySave(q)
  \/ \E a \in Account :
       \/ \E amount \in Gift :
            \/ addUserSystemReward(a, amount)
            \/ \E b \in Account : transferUserBalance(a, b, amount)
       \/ \E t \in MinedAt[a], q \in Starter : StartRead(q, a, t)
       \/ \E q \in Claimer : ClaimRead(q, a)
  \/ \E q \in Claimer : ClaimPay(q) \/ DeadlockVictim(q)

Spec == Init /\ [][Next]_vars

-----------------------------------------------------------------------------
(***************************************************************************)
(* Properties.                                                             *)
(***************************************************************************)
Row == [id : 0..Cardinality(Miner), expected : Nat, produced : Nat, last : Nat,
        rate : Nat, cycle : Nat \ {0}, end : Nat]
FreeRow == [expected : Nat, produced : Nat, claimed : Nat, last : Nat, rate : Nat,
            cycle : Nat \ {0}, end : Nat]

\* The variables have their types; in particular no balance is negative.
TypeOK ==
  /\ now \in 0..MaxNow /\ bp \in Bp /\ freeBp \in FreeBp /\ updates \in 0..MaxUpdates
  /\ miner \in [Account -> [Miner -> Row]]
  /\ free \in [Account -> FreeRow]
  /\ {paid, balance, logged} \subseteq [Account -> Nat]
  /\ moved \in [Account -> Int]
  /\ dist \in [pc : {"idle", "lock", "pay", "save"}, at : 0..MaxNow,
               share : [Account -> [Miner -> Nat]], seen : [Account -> Nat],
               freeShare : [Account -> Nat], bp : Nat, freeBp : Nat]
  /\ \/ update = NoUpdate
     \/ update \in [pc : {"rewrite"}, value : Bp, rows : SUBSET (Account \X Miner)]
  /\ \/ freeUpdate = NoUpdate
     \/ freeUpdate \in [pc : {"rewrite"}, value : FreeBp, rows : SUBSET Account]
  /\ \A q \in Claimer : \/ claim[q] = NoClaim
                       \/ claim[q] \in [pc : {"pay"}, account : Account,
                                       amount : Nat \ {0}, claimed : Nat]
  /\ \A q \in Buyer : \/ buy[q] = NoBuy
                     \/ buy[q] \in [pc : {"save"}, account : Account, miner : Miner,
                                   bp : Bp]
  /\ \A q \in Starter : \/ start[q] = NoStart
                       \/ start[q] \in [pc : {"insert"}, account : Account,
                                       bp : FreeBp, at : Nat]
  /\ stale \subseteq Account \X Miner /\ freeStale \subseteq Account

\* No miner and no free miner ever produces more than it was sold for, although
\* the midnight task adds shares it computed before it locked anything, team
\* rewards on top of them, and administrators release rewards in between.
ProducedWithinExpected ==
  \A a \in Account : /\ \A m \in Miner : miner[a][m].produced <= miner[a][m].expected
                     /\ free[a].produced <= free[a].expected

\* What the miners of an account have produced.
Produced(a) == SumFunction([m \in Miner |-> miner[a][m].produced])

\* Every unit of a balance was produced by one of the account's miners, claimed
\* from its free miner or moved in, once, and what was produced was credited.
Conservation ==
  \A a \in Account :
    balance[a] + moved[a] = InitBalance + free[a].claimed + Produced(a)

\* The balance_after of the last log row is the balance: nothing comes between
\* the log rows of the midnight task and its updates.
LogChain == logged = balance

\* However claims, distributions and purchases interleave, an account claims no
\* more than its free miner produced and a fifth of what it paid for miners.
ClaimedWithinLimits ==
  \A a \in Account : /\ free[a].claimed <= free[a].produced
                     /\ free[a].claimed <= ClaimLimit(a)

MinerRates ==
  \A a \in Account, m \in Miner :
    Active(miner[a][m]) /\ <<a, m>> \notin stale
      => miner[a][m].rate = Rate(Price[m], bp, miner[a][m].cycle)

FreeRates ==
  \A a \in Account :
    Active(free[a]) /\ a \notin freeStale
      => free[a].rate = Rate(FreePrice, freeBp, free[a].cycle)

\* Whatever order the starts of miners, the resets of the cycles and the updates
\* of CYCLE_REWARD_BP and FREE_MINER_CYCLE_REWARD_BP commit in, an active miner
\* earns at the configured ratio over its current cycle, except if it was started,
\* or reset without being paid, at a ratio read before an update committed, and
\* that write committed after the update or after its UPDATE had taken the snapshot,
\* in which the miner was not active yet.
RateFollowsConfig == MinerRates /\ FreeRates
=============================================================================
