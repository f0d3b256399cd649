-------------------------- MODULE BuybackSettlement --------------------------
(***************************************************************************)
(* Deposits into and withdrawals from the buyback balances:                *)
(* src/src/buyback/buyback.service.ts and its BullMQ processor.            *)
(*                                                                         *)
(* The API issues a signature with a nonce and a deadline; the user may    *)
(* hand it to a contract, which consumes the nonce at most once and only   *)
(* in a block whose timestamp is not past the deadline.  The database      *)
(* learns the outcome from two places that race: the queue job a user      *)
(* triggers (processNonce) and the cron round of the worker                *)
(* (checkExpiredSignatures).  Both end in settleSignature, one transaction *)
(* under the row locks of the signature and of the account.                *)
(*                                                                         *)
(* Every await between two steps of a handler is a step boundary here; a   *)
(* transaction is one step.  A thrown error (RPC or database) ends the     *)
(* handler where it is thrown, as in the code.                             *)
(***************************************************************************)
EXTENDS Integers, FiniteSets, Functions

CONSTANTS
  Sig,            \* buyback_signature ids, numbered from 1 in SERIAL order
  Account,        \* account ids
  Token,          \* BuybackToken
  Amount,         \* amounts a request may carry
  InitBalance,    \* buybackSpaceBalance / buybackUsdtBalance at the start
  Checker,        \* cron rounds that may overlap
  TTL,            \* deadline - issue time (180 s)
  Grace,          \* how long after its deadline a record is listed (120 s)
  Retention,      \* removeOnComplete / removeOnFail age (7200 s)
  SlotsPerTick,   \* blocks that may carry the same timestamp
  Lag,            \* how many blocks an RPC node may be behind the head
  IssueUntil,     \* bound: no signature is issued after this time
  MaxNow,         \* bound on the server clock
  MaxHead,        \* bound on the chain
  MaxFaults,      \* bound on RPC errors, database errors and worker crashes
  NoTerms         \* the terms of a signature that does not exist yet

ASSUME ConstantsAssumption ==
  /\ Sig \subseteq Nat \ {0} /\ IsFiniteSet(Sig)
  /\ Amount \subseteq Nat \ {0}
  /\ InitBalance \in [Account -> [Token -> Nat]]
  /\ {TTL, Grace, Retention, Lag, IssueUntil, MaxNow, MaxHead, MaxFaults}
       \subseteq Nat
  /\ SlotsPerTick \in Nat \ {0}

VARIABLES
  now,        \* Date.now() of the server, in seconds
  head,       \* number of the latest block
  usedAt,     \* [Sig -> block that consumed the nonce, 0 if none did]
  status,     \* buyback_signature.status, "absent" before the insert
  terms,      \* buyback_signature account_id, kind, token, amount
  deadline,   \* buyback_signature.deadline
  balance,    \* account.buyback_space_balance, account.buyback_usdt_balance
  entries,    \* buyback_balance_log rows written for a signature, by type
  job,        \* the BullMQ job with jobId buyback-<id>
  worker,     \* the processNonce call that is running, one at a time
  round,      \* [Checker -> the checkExpiredSignatures call that is running]
  faults      \* faults so far

chain == <<head, usedAt>>
table == <<status, terms, deadline, balance, entries>>
vars == <<now, chain, table, job, worker, round, faults>>

Kind == {"deposit", "withdraw"}
LogType == {"Deposit", "Withdraw", "WithdrawRefund"}
Terms == [account : Account, kind : Kind, token : Token, amount : Amount]
Block == 0..MaxHead

\* No call running.
Idle == [pc |-> "idle", sig |-> 0]
NoRound == [pc |-> "idle", todo |-> {}, snap |-> 0, used |-> FALSE]

(***************************************************************************)
(* Blocks are numbered one by one and several of them may carry the same   *)
(* timestamp, in seconds.                                                  *)
(***************************************************************************)
Timestamp(b) == b \div SlotsPerTick

\* The nonce of s reads as used in the state after block b.
UsedBy(s, b) == usedAt[s] # 0 /\ usedAt[s] <= b

\* The block an RPC node may call latest.
Latest == {b \in Block : b <= head /\ head - b <= Lag}

Init ==
  /\ now = 0
  /\ head = 0
  /\ usedAt = [s \in Sig |-> 0]
  /\ status = [s \in Sig |-> "absent"]
  /\ terms = [s \in Sig |-> NoTerms]
  /\ deadline = [s \in Sig |-> 0]
  /\ balance = InitBalance
  /\ entries = [s \in Sig |-> [l \in LogType |-> 0]]
  /\ job = [s \in Sig |-> "none"]
  /\ worker = Idle
  /\ round = [c \in Checker |-> NoRound]
  /\ faults = 0

-----------------------------------------------------------------------------
(***************************************************************************)
(* The API: issuing a signature.                                           *)
(***************************************************************************)

\* The row a request inserts gets the next SERIAL id.
NextId(s) == status[s] = "absent" /\ \A r \in Sig : r < s => status[r] # "absent"

Insert(s, a, kind, t, amount) ==
  /\ status' = [status EXCEPT ![s] = "pending"]
  /\ terms' = [terms EXCEPT ![s] = [account |-> a, kind |-> kind,
                                    token |-> t, amount |-> amount]]
  /\ deadline' = [deadline EXCEPT ![s] = now + TTL]

\* No balance changes: the deposit is credited when the chain has it.  The
\* buyback switch of the configuration, which refuses the request, is an input.
GenerateDepositSignature(s) ==
  /\ now <= IssueUntil
  /\ NextId(s)
  /\ \E a \in Account, t \in Token, amount \in Amount :
       Insert(s, a, "deposit", t, amount)
  /\ UNCHANGED <<now, chain, balance, entries, job, worker, round, faults>>

\* One transaction under the account lock: check, debit, log, sign, insert.
AnyAmount(a, t, amount) == TRUE
Covered(a, t, amount) == balance[a][t] >= amount

GenerateWithdrawSignature(s) ==
  /\ now <= IssueUntil
  /\ NextId(s)
  /\ \E a \in Account, t \in Token, amount \in Amount :
       /\ Covered(a, t, amount)
       /\ balance' = [balance EXCEPT ![a][t] = @ - amount]
       /\ entries' = [entries EXCEPT ![s]["Withdraw"] = @ + 1]
       /\ Insert(s, a, "withdraw", t, amount)
  /\ UNCHANGED <<now, chain, job, worker, round, faults>>

-----------------------------------------------------------------------------
(***************************************************************************)
(* The environment: the clock, the chain.                                  *)
(***************************************************************************)
Tick ==
  /\ now < MaxNow
  /\ now' = now + 1
  /\ UNCHANGED <<chain, table, job, worker, round, faults>>

\* A nonce the contract accepts in block b.
Redeemable(s, b) ==
  status[s] # "absent" /\ usedAt[s] = 0 /\ Timestamp(b) <= deadline[s]

MineBlock ==
  /\ head < MaxHead
  /\ head' = head + 1
  /\ \E S \in SUBSET {s \in Sig : Redeemable(s, head + 1)} :
       usedAt' = [s \in Sig |-> IF s \in S THEN head + 1 ELSE usedAt[s]]
  /\ UNCHANGED <<now, table, job, worker, round, faults>>

-----------------------------------------------------------------------------
(***************************************************************************)
(* settleSignature: one transaction.  The signature is selected FOR UPDATE *)
(* with status pending, so a settlement that lost the race finds nothing.  *)
(***************************************************************************)
CreditAnyWithdrawal(t, used) ==
  IF used \/ t.kind = "withdraw" THEN t.amount ELSE 0

Credit(t, used) ==
  IF \/ used /\ t.kind = "deposit"
     \/ ~used /\ t.kind = "withdraw"
  THEN t.amount ELSE 0

CreditLog(used) == IF used THEN "Deposit" ELSE "WithdrawRefund"

\* Writes the outcome, whatever the row says.
Record(s, used) ==
  LET t == terms[s]
      credit == Credit(t, used)
  IN /\ status' = [status EXCEPT ![s] = IF used THEN "used" ELSE "unused"]
     /\ balance' = [balance EXCEPT ![t.account][t.token] = @ + credit]
     /\ entries' = [entries EXCEPT ![s][CreditLog(used)] =
                      IF credit = 0 THEN @ ELSE @ + 1]
     /\ UNCHANGED <<terms, deadline>>

Settle(s, used) ==
  IF status[s] = "pending" THEN Record(s, used) ELSE UNCHANGED table

-----------------------------------------------------------------------------
(***************************************************************************)
(* The queue: submitNonce adds a job, processNonce runs it.                *)
(***************************************************************************)

\* queue.add with a jobId that exists, in whatever state, adds nothing.
SubmitNonce(s) ==
  /\ status[s] = "pending"
  /\ job[s] = "none"
  /\ job' = [job EXCEPT ![s] = "waiting"]
  /\ UNCHANGED <<now, chain, table, worker, round, faults>>

\* processNonce looks the pending record up; without one it returns.
JobStart(s) ==
  /\ worker.pc = "idle"
  /\ job[s] = "waiting"
  /\ IF status[s] = "pending"
     THEN /\ job' = [job EXCEPT ![s] = "active"]
          /\ worker' = [pc |-> "read", sig |-> s]
     ELSE /\ job' = [job EXCEPT ![s] = "done"]
          /\ UNCHANGED worker
  /\ UNCHANGED <<now, chain, table, round, faults>>

\* The two reads of the nonce at the latest block, three seconds apart.
JobRead ==
  /\ worker.pc \in {"read", "reread"}
  /\ \E b \in Latest :
       IF UsedBy(worker.sig, b)
       THEN worker' = [worker EXCEPT !.pc = "settle"] /\ UNCHANGED job
       ELSE IF worker.pc = "read"
            THEN worker' = [worker EXCEPT !.pc = "reread"] /\ UNCHANGED job
            ELSE /\ worker' = Idle
                 /\ job' = [job EXCEPT ![worker.sig] = "done"]
  /\ UNCHANGED <<now, chain, table, round, faults>>

JobSettle ==
  /\ worker.pc = "settle"
  /\ Settle(worker.sig, TRUE)
  /\ worker' = Idle
  /\ job' = [job EXCEPT ![worker.sig] = "done"]
  /\ UNCHANGED <<now, chain, round, faults>>

\* A thrown RPC or database error fails the job; it has a single attempt.
JobFail ==
  /\ faults < MaxFaults
  /\ worker.pc # "idle"
  /\ faults' = faults + 1
  /\ worker' = Idle
  /\ job' = [job EXCEPT ![worker.sig] = "done"]
  /\ UNCHANGED <<now, chain, table, round>>

\* A finished job keeps its id for Retention after it ended, hence at least
\* until Retention after the signature was issued; then the id is free again.
JobRemove(s) ==
  /\ job[s] = "done"
  /\ now >= deadline[s] - TTL + Retention
  /\ job' = [job EXCEPT ![s] = "none"]
  /\ UNCHANGED <<now, chain, table, worker, round, faults>>

-----------------------------------------------------------------------------
(***************************************************************************)
(* The cron round: checkExpiredSignatures.                                 *)
(***************************************************************************)
ExpiredAtDeadline == {s \in Sig : status[s] = "pending" /\ deadline[s] <= now}

Expired == {s \in Sig : status[s] = "pending" /\ deadline[s] <= now - Grace}

\* The records are listed once; an empty list ends the round.
RoundList(c) ==
  /\ round[c].pc = "idle"
  /\ Expired # {}
  /\ round' = [round EXCEPT ![c] = [NoRound EXCEPT !.pc = "block", !.todo = Expired]]
  /\ UNCHANGED <<now, chain, table, job, worker, faults>>

\* One latest block for the whole round.
RoundBlock(c) ==
  /\ round[c].pc = "block"
  /\ \E b \in Latest :
       round' = [round EXCEPT ![c] = [@ EXCEPT !.pc = "scan", !.snap = b]]
  /\ UNCHANGED <<now, chain, table, job, worker, faults>>

First(s, S) == s \in S /\ \A r \in S : s <= r

\* The round without record s.
Rest(r, s) ==
  IF r.todo = {s} THEN NoRound
  ELSE [r EXCEPT !.pc = "scan", !.todo = @ \ {s}, !.used = FALSE]

\* The nonce may still be consumed in the state after block b.
UsableBefore(s, b) == Timestamp(b) < deadline[s]
NeverUsable(s, b) == FALSE
UsableInMilliseconds(s, b) == Timestamp(b) <= 1000 * deadline[s]
StillUsable(s, b) == Timestamp(b) <= deadline[s]

\* Reads the nonce of the next record at the block of the round.  Unused and
\* perhaps still usable after that block: left for a later round.
RoundRead(c, s) ==
  /\ round[c].pc = "scan"
  /\ First(s, round[c].todo)
  /\ LET used == UsedBy(s, round[c].snap) IN
       round' = [round EXCEPT ![c] =
         IF ~used /\ StillUsable(s, round[c].snap)
         THEN Rest(@, s)
         ELSE [@ EXCEPT !.pc = "settle", !.used = used]]
  /\ UNCHANGED <<now, chain, table, job, worker, faults>>

RoundSettle(c, s) ==
  /\ round[c].pc = "settle"
  /\ First(s, round[c].todo)
  /\ Settle(s, round[c].used)
  /\ round' = [round EXCEPT ![c] = Rest(@, s)]
  /\ UNCHANGED <<now, chain, job, worker, faults>>

\* A thrown error leaves the loop: the records after it wait for the next
\* round.
RoundFail(c) ==
  /\ faults < MaxFaults
  /\ round[c].pc # "idle"
  /\ faults' = faults + 1
  /\ round' = [round EXCEPT ![c] = NoRound]
  /\ UNCHANGED <<now, chain, table, job, worker>>

\* The worker process dies: rounds are lost, the active job stalls and BullMQ
\* runs it again or gives it up.
Crash ==
  /\ faults < MaxFaults
  /\ faults' = faults + 1
  /\ worker' = Idle
  /\ round' = [c \in Checker |-> NoRound]
  /\ IF worker.pc = "idle" THEN UNCHANGED job
     ELSE \E j \in {"waiting", "done"} : job' = [job EXCEPT ![worker.sig] = j]
  /\ UNCHANGED <<now, chain, table>>

-----------------------------------------------------------------------------
\* At the bounds of the clock and the chain, with nothing left to settle.
Terminated ==
  /\ now = MaxNow /\ head = MaxHead
  /\ \A s \in Sig : status[s] # "pending" /\ job[s] # "waiting"
  /\ worker.pc = "idle"
  /\ \A c \in Checker : round[c].pc = "idle"
  /\ UNCHANGED vars

Api(s) == GenerateDepositSignature(s) \/ GenerateWithdrawSignature(s) \/ SubmitNonce(s)
Queue == JobRead \/ JobSettle \/ JobFail \/ \E s \in Sig : JobStart(s) \/ JobRemove(s)
Cron(c) ==
  \/ RoundList(c) \/ RoundBlock(c) \/ RoundFail(c)
  \/ \E s \in Sig : RoundRead(c, s) \/ RoundSettle(c, s)

Next ==
  \/ Tick \/ MineBlock \/ Crash \/ Queue \/ Terminated
  \/ \E s \in Sig : Api(s)
  \/ \E c \in Checker : Cron(c)

Spec == Init /\ [][Next]_vars

(***************************************************************************)
(* Time passes, blocks are produced, the worker drains its queue, and the  *)
(* scheduler starts a round every five minutes and runs it to its end.     *)
(***************************************************************************)
RoundStep(c) ==
  \/ RoundList(c) \/ RoundBlock(c)
  \/ \E s \in Sig : RoundRead(c, s) \/ RoundSettle(c, s)

JobStep == JobRead \/ JobSettle \/ \E s \in Sig : JobStart(s)

Fairness ==
  /\ WF_vars(Tick) /\ WF_vars(MineBlock) /\ WF_vars(JobStep)
  /\ \A c \in Checker : WF_vars(RoundStep(c))

FairSpec == Spec /\ Fairness
-----------------------------------------------------------------------------
(***************************************************************************)
(* Properties.                                                             *)
(***************************************************************************)
Status == {"absent", "pending", "used", "unused"}

JobType == [Sig -> {"none", "waiting", "active", "done"}]

WorkerState == {Idle} \cup [pc : {"read", "reread", "settle"}, sig : Sig]

RoundState == [pc : {"idle", "block", "scan", "settle"}, todo : SUBSET Sig,
               snap : Block, used : BOOLEAN]

\* The type invariant.
TypeOK ==
  /\ now \in 0..MaxNow
  /\ head \in Block
  /\ usedAt \in [Sig -> Block]
  /\ status \in [Sig -> Status]
  /\ terms \in [Sig -> Terms \cup {NoTerms}]
  /\ deadline \in [Sig -> Nat]
  /\ balance \in [Account -> [Token -> Nat]]
  /\ entries \in [Sig -> [LogType -> Nat]]
  /\ job \in JobType
  /\ worker \in WorkerState
  /\ round \in [Checker -> RoundState]
  /\ faults \in 0..MaxFaults

\* A signature is recorded used only when the contract consumed its nonce, and
\* recorded unused only when the contract neither did nor ever can: no path
\* (job, cron round, stale round, restarted job) decides against the chain.
SettlementMatchesChain ==
  \A s \in Sig :
    /\ status[s] = "used" => usedAt[s] # 0
    /\ status[s] = "unused" => usedAt[s] = 0 /\ Timestamp(head) > deadline[s]

\* The balance log of a signature: the hold of a withdrawal, and one credit or
\* one refund when the settlement gives something, however many settlements of
\* it were attempted.
ExpectedEntries(s) ==
  LET withdraw == status[s] # "absent" /\ terms[s].kind = "withdraw"
      deposit == status[s] # "absent" /\ terms[s].kind = "deposit"
  IN [l \in LogType |->
        IF \/ l = "Withdraw" /\ withdraw
           \/ l = "WithdrawRefund" /\ withdraw /\ status[s] = "unused"
           \/ l = "Deposit" /\ deposit /\ status[s] = "used"
        THEN 1 ELSE 0]

SettledExactlyOnce ==
  \A s \in Sig : entries[s] = ExpectedEntries(s)

\* What the signatures of S move in one balance of one account.
Amounts(a, t, S) ==
  [s \in Sig |-> IF s \in S /\ terms[s].account = a /\ terms[s].token = t
                 THEN terms[s].amount ELSE 0]

Moved(a, t, S) == SumFunction(Amounts(a, t, S))

Issued(kind) == {s \in Sig : status[s] # "absent" /\ terms[s].kind = kind}
OnChain == {s \in Sig : usedAt[s] # 0}
Open == {s \in Sig : status[s] = "pending"}

\* For each account and token: what was there, plus what the contracts took in,
\* is what is in the internal balance, what a deposit waits for, what the
\* contracts paid out and what an open withdrawal holds.  Nothing is paid and
\* refunded, credited twice, or taken in and written off.
Conservation ==
  LET TakenIn == Issued("deposit") \cap OnChain
      PaidOut == Issued("withdraw") \cap OnChain
      Held == (Issued("withdraw") \cap Open) \ OnChain
  IN \A a \in Account, t \in Token :
       InitBalance[a][t] + Moved(a, t, TakenIn)
         = balance[a][t] + Moved(a, t, TakenIn \cap Open)
             + Moved(a, t, PaidOut) + Moved(a, t, Held)

\* A signature is given up only after the grace period: the immediate check a
\* user triggers, and a job that runs again after a crash, never give one up.
GivenUpOnlyAfterGrace ==
  [][\A s \in Sig : status[s] = "pending" /\ status'[s] = "unused"
                       => now >= deadline[s] + Grace]_vars

\* Every issued signature is settled, whatever fails on the way: a job that
\* looked too early and whose id now refuses another one, a round that broke
\* off, a crash between reading the chain and writing the database.
EverySignatureSettles ==
  \A s \in Sig : status[s] = "pending" ~> status[s] \in {"used", "unused"}

(***************************************************************************)
(* What makes SettlementMatchesChain inductive: whatever a job or a round  *)
(* remembers between two of its steps is still true when it acts on it.    *)
(***************************************************************************)

\* A nonce is consumed in a block that exists and is not past the deadline.
ChainInv ==
  \A s \in Sig :
    /\ usedAt[s] <= head
    /\ status[s] = "absent" => usedAt[s] = 0
    /\ usedAt[s] # 0 => Timestamp(usedAt[s]) <= deadline[s]

TermsInv == \A s \in Sig : status[s] # "absent" => terms[s] \in Terms

\* The job that runs is of an issued signature, and about to settle only if the
\* nonce is used.
WorkerInv ==
  worker.pc # "idle" =>
    /\ status[worker.sig] # "absent"
    /\ worker.pc = "settle" => usedAt[worker.sig] # 0

\* What a round has listed is past its grace period, and a round about to
\* settle holds a verdict its block supports.
RoundInv ==
  \A c \in Checker :
    /\ round[c].snap <= head
    /\ \A s \in round[c].todo : status[s] # "absent" /\ deadline[s] <= now - Grace
    /\ round[c].pc = "settle" =>
         \A s \in Sig : First(s, round[c].todo) =>
           IF round[c].used THEN UsedBy(s, round[c].snap)
           ELSE /\ ~UsedBy(s, round[c].snap)
                /\ Timestamp(round[c].snap) > deadline[s]

IInv ==
  /\ TypeOK /\ ChainInv /\ TermsInv /\ WorkerInv /\ RoundInv
  /\ SettlementMatchesChain /\ SettledExactlyOnce

\* The flow implements the escrow of SignatureEscrow: it settles once, by what
\* the contract did, and the contract does nothing after the settlement.
Escrow == INSTANCE SignatureEscrow WITH
            redeemed <- {s \in Sig : usedAt[s] # 0}
ImplementsEscrow == Escrow!Spec
=============================================================================
