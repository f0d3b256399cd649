-------------------------- MODULE MiningSignatures --------------------------
(***************************************************************************)
(* Withdrawals of the main balances and purchases of miners, both signed   *)
(* for the Mining contract: src/src/account/account.service.ts and         *)
(* src/src/miner/miner.service.ts with its BullMQ processor.               *)
(*                                                                         *)
(* The API holds an amount (a withdrawal, or the part of a purchase paid   *)
(* from the internal balance) and signs a nonce with a deadline.  The user *)
(* may hand it to the contract.  A cron round per kind looks at the        *)
(* records past their grace period, at one latest block, all nonces in one *)
(* batch; a purchase may also be settled by a queue job.  A used purchase  *)
(* starts the miner, an unused record gives the hold back.                 *)
(*                                                                         *)
(* The rounds differ from those of BuybackSettlement: they read all nonces *)
(* before they settle any record, and the failure of one record does not   *)
(* end the round.                                                          *)
(***************************************************************************)
EXTENDS Integers, FiniteSets, Functions

CONSTANTS
  Sig,            \* account_withdraw_signature and miner_purchase_signature ids
  Account, Miner, \* account and miner ids
  Amount,         \* amounts a withdrawal may carry
  Offer,          \* [price, reward] pairs the row of a miner may hold
  NodeAccount,    \* accounts with nodeLevel > 0
  InitBalance,    \* account.balance and account.usdtBalance at the start
  WithdrawRound,  \* checkWithdrawSignatureTask calls that may overlap
  PurchaseRound,  \* checkPurchaseMinerSignatureTask calls that may overlap
  TTL,            \* deadline - issue time (180 s)
  Grace,          \* how long after its deadline a record is listed (120 s)
  Retention,      \* removeOnComplete / removeOnFail age (7200 s)
  UsdtUntil,      \* USDT_PURCHASE_END_AT
  SlotsPerTick,   \* blocks that may carry the same timestamp
  Lag,            \* how many blocks an RPC node may be behind the head
  IssueUntil,     \* bound: no signature is issued after this time
  MaxNow,         \* bound on the server clock
  MaxHead,        \* bound on the chain
  MaxFaults,      \* bound on RPC errors, database errors and worker crashes
  NoTerms         \* the terms of a signature that does not exist yet

ASSUME ConstantsAssumption ==
  /\ Sig \subseteq Nat \ {0} /\ IsFiniteSet(Sig)
  /\ Amount \subseteq Nat \ {0}
  /\ Offer \subseteq [price : Nat \ {0}, reward : Nat \ {0}]
  /\ InitBalance \in [Account -> [{"SPACE", "USDT"} -> Nat]]
  /\ {TTL, Grace, Retention, UsdtUntil, Lag, IssueUntil, MaxNow, MaxHead,
       MaxFaults} \subseteq Nat
  /\ SlotsPerTick \in Nat \ {0}

VARIABLES
  now,        \* Date.now() of the server, in seconds
  head,       \* number of the latest block
  usedAt,     \* [Sig -> block that consumed the nonce, 0 if none did]
  status,     \* status of the signature, "absent" before the insert
  terms,      \* what was signed
  deadline,   \* deadline of the signature
  balance,    \* account.balance (SPACE) and account.usdtBalance (USDT)
  entries,    \* account_balance_log rows of a signature: holds and refunds
  miner,      \* account_miner: produced and expected reward of an account
  job,        \* the BullMQ job with jobId mining-nonce-<nonce>
  worker,     \* the process() call of the queue that is running
  round       \* [Round -> the cron call that is running]

VARIABLE faults  \* faults so far

chain == <<head, usedAt>>
table == <<status, terms, deadline, balance, entries, miner>>
vars == <<now, chain, table, job, worker, round, faults>>

Token == {"SPACE", "USDT"}
Method == {"internal", "wallet", "mixed", "usdt"}
Round == WithdrawRound \cup PurchaseRound
Block == 0..MaxHead

\* What a record may hold: hold is what the internal balance gave.
Holds == {0} \cup Amount \cup UNION {0..o.price : o \in Offer}

\* A withdrawal has no miner.
Terms ==
  [kind : {"withdraw", "purchase"}, account : Account, token : Token, hold : Holds,
   miner : Miner \cup {"none"}, method : Method \cup {"none"}, reward : Nat]

Idle == [pc |-> "idle", sig |-> 0]
NoRound == [pc |-> "idle", todo |-> {}, snap |-> 0]

Timestamp(b) == b \div SlotsPerTick
UsedBy(s, b) == usedAt[s] # 0 /\ usedAt[s] <= b
Latest == {b \in Block : b <= head /\ head - b <= Lag}

Issued(s) == status[s] # "absent"
IsPurchase(s) == Issued(s) /\ terms[s].kind = "purchase"

\* The account owns no miner m, or one that has produced all it was to produce.
Finished(a, m) == miner[a][m].produced >= miner[a][m].expected

Init ==
  /\ now = 0
  /\ head = 0
  /\ usedAt = [s \in Sig |-> 0]
  /\ status = [s \in Sig |-> "absent"]
  /\ terms = [s \in Sig |-> NoTerms]
  /\ deadline = [s \in Sig |-> 0]
  /\ balance = InitBalance
  /\ entries = [s \in Sig |-> [l \in {"hold", "refund"} |-> 0]]
  /\ miner = [a \in Account |-> [m \in Miner |-> [produced |-> 0, expected |-> 0]]]
  /\ job = [s \in Sig |-> "none"]
  /\ worker = Idle
  /\ round = [c \in Round |-> NoRound]
  /\ faults = 0

-----------------------------------------------------------------------------
(***************************************************************************)
(* The API: each request is one transaction under the account lock.        *)
(***************************************************************************)
NextId(s) == ~Issued(s) /\ \A r \in Sig : r < s => Issued(r)

\* The checks of both kinds of request on the balance that is locked.
AnyBalance(t) == TRUE
Affordable(t) == balance[t.account][t.token] >= t.hold

\* Debit, log and insert; the log has a row only when something is held.
Issue(s, t) ==
  /\ now <= IssueUntil
  /\ NextId(s)
  /\ Affordable(t)
  /\ balance' = [balance EXCEPT ![t.account][t.token] = @ - t.hold]
  /\ entries' = [entries EXCEPT ![s]["hold"] = IF t.hold = 0 THEN @ ELSE @ + 1]
  /\ status' = [status EXCEPT ![s] = "pending"]
  /\ terms' = [terms EXCEPT ![s] = t]
  /\ deadline' = [deadline EXCEPT ![s] = now + TTL]
  /\ UNCHANGED <<now, chain, miner, job, worker, round, faults>>

GenerateWithdrawSignature(s) ==
  \E a \in Account, t \in Token, amount \in Amount :
    Issue(s, [kind |-> "withdraw", account |-> a, token |-> t, hold |-> amount,
              miner |-> "none", method |-> "none", reward |-> 0])

\* What the account pays from its internal balance.
Hold(a, method, price) ==
  CASE method = "internal" -> price
    [] method = "mixed" -> IF balance[a]["SPACE"] < price
                           THEN balance[a]["SPACE"] ELSE price
    [] OTHER -> 0

\* The partial unique index on the pending rows of an account and a miner.  A
\* pending row whose deadline has not passed is returned instead (or refused
\* for its method), one that has passed makes the insert fail: both ways the
\* request changes nothing.
PendingPurchase(s, a, m) ==
  /\ status[s] = "pending" /\ terms[s].kind = "purchase"
  /\ terms[s].account = a /\ terms[s].miner = m

AlwaysFree(a, m) == TRUE
NonePending(a, m) == \A s \in Sig : ~PendingPurchase(s, a, m)

Eligible(a, method) ==
  method = "usdt" => a \in NodeAccount /\ now < UsdtUntil

GeneratePurchaseMinerSignature(s) ==
  \E a \in Account, m \in Miner, method \in Method, offer \in Offer :
    /\ Finished(a, m)
    /\ NonePending(a, m)
    /\ Eligible(a, method)
    /\ Issue(s, [kind |-> "purchase", account |-> a, token |-> "SPACE",
                 hold |-> Hold(a, method, offer.price),
                 miner |-> m, method |-> method, reward |-> offer.reward])

-----------------------------------------------------------------------------
(***************************************************************************)
(* The environment: the clock, the chain, the distribution of rewards.     *)
(***************************************************************************)
Tick ==
  /\ now < MaxNow
  /\ now' = now + 1
  /\ UNCHANGED <<chain, table, job, worker, round, faults>>

\* A nonce the contract accepts in block b.
Redeemable(s, b) == Issued(s) /\ usedAt[s] = 0 /\ Timestamp(b) <= deadline[s]

MineBlock ==
  /\ head < MaxHead
  /\ head' = head + 1
  /\ \E S \in SUBSET {s \in Sig : Redeemable(s, head + 1)} :
       usedAt' = [s \in Sig |-> IF s \in S THEN head + 1 ELSE usedAt[s]]
  /\ UNCHANGED <<now, table, job, worker, round, faults>>

\* distribute_miner_rewards, of which only this much matters here: a miner
\* produces until it has produced what it was to produce (see MinerRewards).
Produce(a, m) ==
  /\ ~Finished(a, m)
  /\ miner' = [miner EXCEPT ![a][m].produced = @ + 1]
  /\ UNCHANGED <<now, chain, status, terms, deadline, balance, entries,
                 job, worker, round, faults>>

-----------------------------------------------------------------------------
(***************************************************************************)
(* processWithdrawSignature and processPurchaseMinerSignature: one         *)
(* transaction that selects the row FOR UPDATE with status pending.        *)
(***************************************************************************)

\* purchaseMinerInTransaction: a new account_miner, or more expected reward for
\* one that has finished.  It throws for one that has not, and the transaction
\* rolls back.
StartMiner(t) ==
  miner' = [miner EXCEPT ![t.account][t.miner].expected = @ + t.reward]

Record(s, used) ==
  LET t == terms[s]
      refund == IF used THEN 0 ELSE t.hold
  IN /\ status' = [status EXCEPT ![s] = IF used THEN "used" ELSE "unused"]
     /\ balance' = [balance EXCEPT ![t.account][t.token] = @ + refund]
     /\ entries' = [entries EXCEPT ![s]["refund"] = IF refund = 0 THEN @ ELSE @ + 1]
     /\ IF used /\ t.kind = "purchase" THEN StartMiner(t) ELSE UNCHANGED miner
     /\ UNCHANGED <<terms, deadline>>

Rejected(s, used) ==
  used /\ IsPurchase(s) /\ ~Finished(terms[s].account, terms[s].miner)

RecordAgain(s, used) == Record(s, used)

Settle(s, used) ==
  IF status[s] = "pending" /\ ~Rejected(s, used)
  THEN Record(s, used) ELSE UNCHANGED table

-----------------------------------------------------------------------------
(***************************************************************************)
(* The queue: submitNonce adds a job for a purchase, whatever its status.  *)
(***************************************************************************)
SubmitNonce(s) ==
  /\ IsPurchase(s)
  /\ job[s] = "none"
  /\ job' = [job EXCEPT ![s] = "waiting"]
  /\ UNCHANGED <<now, chain, table, worker, round, faults>>

\* processPurchaseMinerSignatureNonce looks the pending record up.
JobStart(s) ==
  /\ worker.pc = "idle"
  /\ job[s] = "waiting"
  /\ IF status[s] = "pending"
     THEN /\ job' = [job EXCEPT ![s] = "active"]
          /\ worker' = [pc |-> "read", sig |-> s]
     ELSE /\ job' = [job EXCEPT ![s] = "done"]
          /\ UNCHANGED worker
  /\ UNCHANGED <<now, chain, table, round, faults>>

\* Two reads of the nonce at the latest block, three seconds apart.  Still
\* unused: the record stays pending.
JobRead ==
  /\ worker.pc \in {"read", "reread"}
  /\ \E b \in Latest :
       IF UsedBy(worker.sig, b)
       THEN worker' = [worker EXCEPT !.pc = "settle"] /\ UNCHANGED job
       ELSE IF worker.pc = "read"
            THEN worker' = [worker EXCEPT !.pc = "reread"] /\ UNCHANGED job
            ELSE /\ worker' = Idle
                 /\ job' = [job EXCEPT ![worker.sig] = "done"]
  /\ UNCHANGED <<now, chain, table, round, faults>>

JobSettle ==
  /\ worker.pc = "settle"
  /\ Settle(worker.sig, TRUE)
  /\ worker' = Idle
  /\ job' = [job EXCEPT ![worker.sig] = "done"]
  /\ UNCHANGED <<now, chain, round, faults>>

\* A thrown error fails the job; it has a single attempt, and while the failed
\* job is kept its id refuses another one.
JobFail ==
  /\ faults < MaxFaults
  /\ worker.pc # "idle"
  /\ faults' = faults + 1
  /\ worker' = Idle
  /\ job' = [job EXCEPT ![worker.sig] = "done"]
  /\ UNCHANGED <<now, chain, table, round>>

\* A finished job keeps its id for Retention after it ended, hence at least
\* until Retention after the signature was issued; then the id is free again.
JobRemove(s) ==
  /\ job[s] = "done"
  /\ now >= deadline[s] - TTL + Retention
  /\ job' = [job EXCEPT ![s] = "none"]
  /\ UNCHANGED <<now, chain, table, worker, round, faults>>

-----------------------------------------------------------------------------
(***************************************************************************)
(* The cron rounds: checkWithdrawSignatureTask and                         *)
(* checkPurchaseMinerSignatureTask, the same steps for each kind.          *)
(***************************************************************************)
KindOf(c) == IF c \in WithdrawRound THEN "withdraw" ELSE "purchase"

Listed(c) ==
  {s \in Sig : /\ status[s] = "pending" /\ terms[s].kind = KindOf(c)
               /\ deadline[s] <= now - Grace}

RoundList(c) ==
  /\ round[c].pc = "idle"
  /\ Listed(c) # {}
  /\ round' = [round EXCEPT ![c] = [NoRound EXCEPT !.pc = "read", !.todo = Listed(c)]]
  /\ UNCHANGED <<now, chain, table, job, worker, faults>>

\* The nonce may still be consumed in a block after b.
NeverUsable(s, b) == FALSE
UsableBefore(s, b) == Timestamp(b) < deadline[s]
StillUsable(s, b) == Timestamp(b) <= deadline[s]

\* What the loop skips: unused and perhaps still usable, so left for a later
\* round.
SkippedUnused(s, b) == ~UsedBy(s, b)
Skipped(s, b) == ~UsedBy(s, b) /\ StillUsable(s, b)

AtWork(todo, b) == IF todo = {} THEN NoRound
                   ELSE [pc |-> "settle", todo |-> todo, snap |-> b]

\* One latest block, then all nonces at that block: what the second call
\* returns is fixed by the block.
RoundRead(c) ==
  /\ round[c].pc = "read"
  /\ \E b \in Latest :
       round' = [round EXCEPT ![c] = AtWork({s \in @.todo : ~Skipped(s, b)}, b)]
  /\ UNCHANGED <<now, chain, table, job, worker, faults>>

First(s, S) == s \in S /\ \A r \in S : s <= r

\* The round goes on without record s.
Rest(r, s) == AtWork(r.todo \ {s}, r.snap)

RoundSettle(c, s) ==
  /\ round[c].pc = "settle"
  /\ First(s, round[c].todo)
  /\ Settle(s, UsedBy(s, round[c].snap))
  /\ round' = [round EXCEPT ![c] = Rest(@, s)]
  /\ UNCHANGED <<now, chain, job, worker, faults>>

\* The transaction of one record fails (a lost connection, a deadlock): logged,
\* and the loop goes on.
RoundSkip(c, s) ==
  /\ faults < MaxFaults
  /\ round[c].pc = "settle"
  /\ First(s, round[c].todo)
  /\ faults' = faults + 1
  /\ round' = [round EXCEPT ![c] = Rest(@, s)]
  /\ UNCHANGED <<now, chain, table, job, worker>>

\* Reading the block or the nonces throws: the whole round is lost.
RoundFail(c) ==
  /\ faults < MaxFaults
  /\ round[c].pc = "read"
  /\ faults' = faults + 1
  /\ round' = [round EXCEPT ![c] = NoRound]
  /\ UNCHANGED <<now, chain, table, job, worker>>

\* The worker process dies: rounds are lost, the active job stalls and BullMQ
\* runs it again or gives it up.
Crash ==
  /\ faults < MaxFaults
  /\ faults' = faults + 1
  /\ worker' = Idle
  /\ round' = [c \in Round |-> NoRound]
  /\ IF worker.pc = "idle" THEN UNCHANGED job
     ELSE \E j \in {"waiting", "done"} : job' = [job EXCEPT ![worker.sig] = j]
  /\ UNCHANGED <<now, chain, table>>

-----------------------------------------------------------------------------
\* At the bounds of the clock and the chain, with nothing left to settle.
Terminated ==
  /\ now = MaxNow /\ head = MaxHead
  /\ \A s \in Sig : status[s] # "pending" /\ job[s] # "waiting"
  /\ worker.pc = "idle"
  /\ \A c \in Round : round[c].pc = "idle"
  /\ UNCHANGED vars

Api(s) ==
  \/ GenerateWithdrawSignature(s) \/ GeneratePurchaseMinerSignature(s)
  \/ SubmitNonce(s) \/ JobRemove(s)

JobStep == JobRead \/ JobSettle \/ \E s \in Sig : JobStart(s)

RoundStep(c) ==
  \/ RoundList(c) \/ RoundRead(c)
  \/ \E s \in Sig : RoundSettle(c, s)

Fault == JobFail \/ Crash \/ \E c \in Round : RoundFail(c) \/ \E s \in Sig : RoundSkip(c, s)

Next ==
  \/ Tick \/ MineBlock \/ JobStep \/ Fault \/ Terminated
  \/ \E s \in Sig : Api(s)
  \/ \E c \in Round : RoundStep(c)
  \/ \E a \in Account, m \in Miner : Produce(a, m)

Spec == Init /\ [][Next]_vars

\* Time passes, blocks are produced, the worker drains its queue, and the
\* scheduler starts each kind of round every five minutes and runs it to its
\* end.  Nothing is assumed of users, and of the distribution neither.
Fairness ==
  /\ WF_vars(Tick) /\ WF_vars(MineBlock) /\ WF_vars(JobStep)
  /\ \A c \in Round : WF_vars(RoundStep(c))

FairSpec == Spec /\ Fairness
-----------------------------------------------------------------------------
(***************************************************************************)
(* Properties.                                                             *)
(***************************************************************************)
Status == {"absent", "pending", "used", "unused"}
JobType == [Sig -> {"none", "waiting", "active", "done"}]
WorkerState == {Idle} \cup [pc : {"read", "reread", "settle"}, sig : Sig]
RoundState == [pc : {"idle", "read", "settle"}, todo : SUBSET Sig, snap : Block]
MinerType == [Account -> [Miner -> [produced : Nat, expected : Nat]]]

\* The type invariant.
TypeOK ==
  /\ now \in 0..MaxNow
  /\ head \in Block
  /\ usedAt \in [Sig -> Block]
  /\ status \in [Sig -> Status]
  /\ \A s \in Sig : IF Issued(s) THEN terms[s] \in Terms ELSE terms[s] = NoTerms
  /\ DOMAIN terms = Sig
  /\ deadline \in [Sig -> Nat]
  /\ balance \in [Account -> [Token -> Nat]]
  /\ entries \in [Sig -> [{"hold", "refund"} -> Nat]]
  /\ miner \in MinerType
  /\ job \in JobType
  /\ worker \in WorkerState
  /\ round \in [Round -> RoundState]
  /\ faults \in 0..MaxFaults

\* A record is settled used only if the Mining contract consumed its nonce, and
\* unused only if it neither did nor ever can, whichever of the job, a round and
\* an overlapping round that read an older block comes first.
SettlementMatchesChain ==
  \A s \in Sig :
    /\ status[s] = "used" => usedAt[s] # 0
    /\ status[s] = "unused" => usedAt[s] = 0 /\ Timestamp(head) > deadline[s]

\* However many settlements of a record are attempted, the balance log holds one
\* row for what it held and one row for what an unused record gave back.
ExpectedEntries(s) ==
  LET held == Issued(s) /\ terms[s].hold # 0
  IN [hold |-> IF held THEN 1 ELSE 0,
      refund |-> IF held /\ status[s] = "unused" THEN 1 ELSE 0]

SettledExactlyOnce == \A s \in Sig : entries[s] = ExpectedEntries(s)

\* What an account started with is what it has, what open records hold, and
\* what the contract's side of a redeemed record took: the hold of a record is
\* neither lost nor given back for something the user received.
Outstanding(a, t) ==
  [s \in Sig |-> IF /\ Issued(s) /\ terms[s].account = a /\ terms[s].token = t
                    /\ usedAt[s] # 0 \/ status[s] = "pending"
                 THEN terms[s].hold ELSE 0]

Conservation ==
  \A a \in Account, t \in Token :
    InitBalance[a][t] = balance[a][t] + SumFunction(Outstanding(a, t))

\* What an account's miner is to produce is the sum of the rewards of the
\* purchases of it that were settled as used: every paid purchase starts the
\* miner once, an unpaid one never.
PurchasesOf(a, m) ==
  {s \in Sig : IsPurchase(s) /\ terms[s].account = a /\ terms[s].miner = m}

Credited(a, m) ==
  [s \in Sig |-> IF s \in PurchasesOf(a, m) /\ status[s] = "used"
                 THEN terms[s].reward ELSE 0]

PurchasesCredited ==
  \A a \in Account, m \in Miner :
    miner[a][m].expected = SumFunction(Credited(a, m))

\* While a purchase is open the miner it is for stands still, so the purchase
\* the user has paid on the chain can never be turned down when it is settled;
\* and no second purchase of that miner is open.
OpenPurchase(s) == IsPurchase(s) /\ status[s] = "pending"

PaidPurchaseGoesThrough ==
  \A s \in Sig : OpenPurchase(s) =>
    /\ Finished(terms[s].account, terms[s].miner)
    /\ \A r \in PurchasesOf(terms[s].account, terms[s].miner) :
         OpenPurchase(r) => r = s

\* Every record is settled, whatever fails on the way: a job that looked too
\* early and whose id refuses another one, a record the round skipped, a round
\* that broke off, a crash between reading the chain and writing the database.
EverySignatureSettles ==
  \A s \in Sig : status[s] = "pending" ~> status[s] \in {"used", "unused"}

(***************************************************************************)
(* What makes these inductive: what a job or a round remembers between two *)
(* of its steps is still true when it acts on it.                          *)
(***************************************************************************)
ChainInv ==
  \A s \in Sig :
    /\ usedAt[s] <= head
    /\ ~Issued(s) => usedAt[s] = 0
    /\ usedAt[s] # 0 => Timestamp(usedAt[s]) <= deadline[s]

WorkerInv ==
  worker.pc # "idle" =>
    /\ Issued(worker.sig)
    /\ worker.pc = "settle" => usedAt[worker.sig] # 0

\* Every record a round has still to settle is decided by the round's block.
RoundInv ==
  \A c \in Round :
    /\ round[c].snap <= head
    /\ \A s \in round[c].todo :
         /\ Issued(s)
         /\ deadline[s] <= now - Grace
         /\ round[c].pc = "settle" => ~Skipped(s, round[c].snap)

IInv ==
  /\ TypeOK /\ ChainInv /\ WorkerInv /\ RoundInv
  /\ SettlementMatchesChain /\ SettledExactlyOnce /\ PaidPurchaseGoesThrough

\* The flow implements the same escrow as the buyback withdrawals: a record is
\* settled once, by what the contract did, and what it held comes back if and
\* only if the contract did nothing and never will.
EscrowTerms(t) ==
  [account |-> t.account, kind |-> "withdraw", token |-> t.token, amount |-> t.hold]

Escrow == INSTANCE SignatureEscrow WITH
            Amount <- Holds,
            terms <- [s \in Sig |-> IF Issued(s) THEN EscrowTerms(terms[s]) ELSE NoTerms],
            redeemed <- {s \in Sig : usedAt[s] # 0}
ImplementsEscrow == Escrow!Spec
=============================================================================
