----------------------- MODULE BuybackSettlement_proofs -----------------------
(***************************************************************************)
(* Proofs about BuybackSettlement, for any signatures, accounts, amounts,  *)
(* overlapping rounds, lag and faults.                                     *)
(***************************************************************************)
EXTENDS BuybackSettlement, Sums_proofs

(***************************************************************************)
(* Later blocks do not carry earlier timestamps.                           *)
(***************************************************************************)
LEMMA TimestampMonotone ==
  ASSUME NEW a \in Nat, NEW b \in Nat, a <= b
  PROVE  Timestamp(a) <= Timestamp(b) /\ Timestamp(a) \in Nat
  BY ConstantsAssumption DEF Timestamp

-----------------------------------------------------------------------------
(***************************************************************************)
(* Type correctness.  An issued signature has terms; this part of the      *)
(* invariant goes along, since settling it reads them.                     *)
(***************************************************************************)
TypeInv == TypeOK /\ TermsInv

\* A settlement changes the row of one pending signature and credits at most
\* its own amount.
LEMMA SettleType ==
  ASSUME TypeInv, NEW s \in Sig, NEW used \in BOOLEAN, Settle(s, used)
  PROVE  /\ status' \in [Sig -> Status]
         /\ terms' = terms /\ deadline' = deadline
         /\ balance' \in [Account -> [Token -> Nat]]
         /\ entries' \in [Sig -> [LogType -> Nat]]
         /\ \A r \in Sig : status'[r] = "absent" <=> status[r] = "absent"
<1> USE DEF TypeInv, TypeOK, TermsInv
<1>1. CASE status[s] = "pending"
  <2>1. terms[s] \in Terms
    BY <1>1
  <2>2. Credit(terms[s], used) \in Nat
    BY <2>1, ConstantsAssumption DEF Credit, Terms
  <2>3. CreditLog(used) \in LogType
    BY DEF CreditLog, LogType
  <2>4. /\ status' = [status EXCEPT ![s] = IF used THEN "used" ELSE "unused"]
        /\ balance' = [balance EXCEPT ![terms[s].account][terms[s].token] =
                         @ + Credit(terms[s], used)]
        /\ entries' = [entries EXCEPT ![s][CreditLog(used)] =
                         IF Credit(terms[s], used) = 0 THEN @ ELSE @ + 1]
        /\ terms' = terms /\ deadline' = deadline
    BY <1>1 DEF Settle, Record
  <2>5. balance' \in [Account -> [Token -> Nat]]
    BY <2>1, <2>2, <2>4 DEF Terms
  <2>6. entries' \in [Sig -> [LogType -> Nat]]
    BY <2>3, <2>4
  <2>7. QED
    BY <1>1, <2>4, <2>5, <2>6 DEF Status
<1>2. CASE status[s] # "pending"
  BY <1>2 DEF Settle, Record, table
<1>3. QED
  BY <1>1, <1>2

\* An insert issues one signature, which did not exist.
LEMMA InsertType ==
  ASSUME TypeInv, NEW s \in Sig, NEW a \in Account, NEW kind \in Kind,
         NEW t \in Token, NEW amount \in Amount, Insert(s, a, kind, t, amount)
  PROVE  /\ status' \in [Sig -> Status]
         /\ terms' \in [Sig -> Terms \cup {NoTerms}]
         /\ deadline' \in [Sig -> Nat]
         /\ TermsInv'
<1>1. [account |-> a, kind |-> kind, token |-> t, amount |-> amount] \in Terms
  BY DEF Terms
<1>2. now + TTL \in Nat
  BY ConstantsAssumption DEF TypeInv, TypeOK
<1>3. QED
  BY <1>1, <1>2 DEF Insert, TypeInv, TypeOK, TermsInv, Status

LEMMA IdleType == Idle \in WorkerState
  BY DEF WorkerState

LEMMA NoRoundType == NoRound \in RoundState
  BY ConstantsAssumption DEF NoRound, RoundState, Block

\* A round that goes on without a record is a round.
LEMMA RestType ==
  ASSUME NEW r \in RoundState, NEW s \in Sig
  PROVE  Rest(r, s) \in RoundState
  BY NoRoundType DEF Rest, RoundState

\* So is a round that has read a nonce.
LEMMA ReadType ==
  ASSUME NEW r \in RoundState, NEW used \in BOOLEAN
  PROVE  [r EXCEPT !.pc = "settle", !.used = used] \in RoundState
  BY DEF RoundState

LEMMA TypeInit == Init => TypeInv
  BY ConstantsAssumption
  DEF Init, TypeInv, TypeOK, TermsInv, Block, Status, LogType, RoundState,
      NoRound, Idle, WorkerState, JobType

LEMMA TypeNext == TypeInv /\ [Next]_vars => TypeInv'
<1> SUFFICES ASSUME TypeInv, [Next]_vars PROVE TypeInv'
  OBVIOUS
<1> USE ConstantsAssumption DEF TypeInv, TypeOK, JobType
<1>1. CASE Tick
  BY <1>1 DEF Tick, chain, table, TermsInv
<1>2. CASE MineBlock
  BY <1>2 DEF MineBlock, table, TermsInv, Block
<1>3. CASE Crash
  BY <1>3, IdleType, NoRoundType DEF Crash, chain, table, TermsInv, JobType
<1>4. ASSUME NEW s \in Sig, GenerateDepositSignature(s) PROVE TypeInv'
  <2>1. PICK a \in Account, t \in Token, amount \in Amount :
          Insert(s, a, "deposit", t, amount)
    BY <1>4 DEF GenerateDepositSignature
  <2>2. QED
    BY <1>4, <2>1, InsertType DEF GenerateDepositSignature, chain, Kind
<1>5. ASSUME NEW s \in Sig, GenerateWithdrawSignature(s) PROVE TypeInv'
  <2>1. PICK a \in Account, t \in Token, amount \in Amount :
          /\ balance[a][t] >= amount
          /\ balance' = [balance EXCEPT ![a][t] = @ - amount]
          /\ entries' = [entries EXCEPT ![s]["Withdraw"] = @ + 1]
          /\ Insert(s, a, "withdraw", t, amount)
    BY <1>5 DEF GenerateWithdrawSignature, Covered
  <2>2. balance[a][t] - amount \in Nat
    <3>1. amount \in Nat /\ balance[a][t] \in Nat
      OBVIOUS
    <3>2. QED
      BY <2>1, <3>1
  <2>3. balance' \in [Account -> [Token -> Nat]]
    BY <2>1, <2>2
  <2>4. entries' \in [Sig -> [LogType -> Nat]]
    BY <2>1 DEF LogType
  <2>5. QED
    BY <1>5, <2>1, <2>3, <2>4, InsertType
    DEF GenerateWithdrawSignature, Covered, chain, Kind
<1>6. ASSUME NEW s \in Sig, SubmitNonce(s) PROVE TypeInv'
  BY <1>6 DEF SubmitNonce, chain, table, TermsInv
<1>7. ASSUME NEW s \in Sig, JobStart(s) PROVE TypeInv'
  <2>1. [pc |-> "read", sig |-> s] \in WorkerState
    BY DEF WorkerState
  <2>2. worker' \in WorkerState /\ job' \in JobType
    BY <1>7, <2>1 DEF JobStart
  <2>3. QED
    BY <1>7, <2>2 DEF JobStart, chain, table, TermsInv
<1>8. CASE JobRead
  <2>1. /\ [worker EXCEPT !.pc = "settle"] \in WorkerState
        /\ [worker EXCEPT !.pc = "reread"] \in WorkerState
    BY <1>8 DEF JobRead, WorkerState, Idle
  <2>2. worker' \in WorkerState /\ job' \in JobType
    BY <1>8, <2>1, IdleType DEF JobRead
  <2>3. QED
    BY <1>8, <2>2 DEF JobRead, chain, table, TermsInv
<1>9. CASE JobSettle
  <2>1. worker.sig \in Sig
    BY <1>9 DEF JobSettle, Idle, WorkerState
  <2>2. worker' \in WorkerState /\ job' \in JobType
    BY <1>9, IdleType DEF JobSettle
  <2>3. QED
    BY <1>9, <2>1, <2>2, SettleType DEF JobSettle, chain, TermsInv
<1>10. CASE JobFail
  <2>1. worker' \in WorkerState /\ job' \in JobType
    BY <1>10, IdleType DEF JobFail
  <2>2. QED
    BY <1>10, <2>1 DEF JobFail, chain, table, TermsInv
<1>11. ASSUME NEW s \in Sig, JobRemove(s) PROVE TypeInv'
  BY <1>11 DEF JobRemove, chain, table, TermsInv
<1>12. ASSUME NEW c \in Checker, RoundList(c) PROVE TypeInv'
  <2>1. [NoRound EXCEPT !.pc = "block", !.todo = Expired] \in RoundState
    <3>1. Expired \in SUBSET Sig
      BY DEF Expired
    <3>2. QED
      BY <3>1, NoRoundType DEF RoundState
  <2>2. round' \in [Checker -> RoundState]
    BY <1>12, <2>1 DEF RoundList
  <2>3. QED
    BY <1>12, <2>2 DEF RoundList, chain, table, TermsInv
<1>13. ASSUME NEW c \in Checker, RoundBlock(c) PROVE TypeInv'
  <2>1. PICK b \in Latest :
          round' = [round EXCEPT ![c] = [@ EXCEPT !.pc = "scan", !.snap = b]]
    BY <1>13 DEF RoundBlock
  <2>2. round[c] \in RoundState /\ b \in Block
    BY DEF Latest
  <2>3. [round[c] EXCEPT !.pc = "scan", !.snap = b] \in RoundState
    BY <2>2 DEF RoundState
  <2>4. round' = [round EXCEPT ![c] = [round[c] EXCEPT !.pc = "scan", !.snap = b]]
    BY <2>1
  <2>5. round' \in [Checker -> RoundState]
    BY <2>3, <2>4
  <2>6. QED
    BY <1>13, <2>5 DEF RoundBlock, chain, table, TermsInv
<1>14. ASSUME NEW c \in Checker, NEW s \in Sig, RoundRead(c, s) PROVE TypeInv'
  <2>1. \A used \in BOOLEAN :
          [round[c] EXCEPT !.pc = "settle", !.used = used] \in RoundState
    BY ReadType
  <2>2. UsedBy(s, round[c].snap) \in BOOLEAN
    BY DEF UsedBy
  <2>3. round' = [round EXCEPT ![c] =
                    IF /\ ~UsedBy(s, round[c].snap)
                       /\ Timestamp(round[c].snap) <= deadline[s]
                    THEN Rest(round[c], s)
                    ELSE [round[c] EXCEPT !.pc = "settle",
                                          !.used = UsedBy(s, round[c].snap)]]
    BY <1>14 DEF RoundRead, StillUsable
  <2>4. round[c] \in RoundState
    OBVIOUS
  <2>5. round' \in [Checker -> RoundState]
    BY <2>1, <2>2, <2>3, <2>4, RestType
  <2>6. QED
    BY <1>14, <2>5 DEF RoundRead, StillUsable, chain, table, TermsInv
<1>15. ASSUME NEW c \in Checker, NEW s \in Sig, RoundSettle(c, s) PROVE TypeInv'
  <2>1. round' \in [Checker -> RoundState]
    BY <1>15, RestType DEF RoundSettle
  <2>2. round[c].used \in BOOLEAN
    BY DEF RoundState
  <2>3. QED
    BY <1>15, <2>1, <2>2, SettleType DEF RoundSettle, chain, TermsInv
<1>16. ASSUME NEW c \in Checker, RoundFail(c) PROVE TypeInv'
  BY <1>16, NoRoundType DEF RoundFail, chain, table, TermsInv
<1>17. CASE UNCHANGED vars
  BY <1>17 DEF vars, chain, table, TermsInv
<1>18. QED
  BY <1>1, <1>2, <1>3, <1>4, <1>5, <1>6, <1>7, <1>8, <1>9, <1>10, <1>11, <1>12,
     <1>13, <1>14, <1>15, <1>16, <1>17
  DEF Next, Api, Queue, Cron, Terminated

\* Every variable keeps its type.
THEOREM TypeCorrect == Spec => []TypeOK
<1>1. Spec => []TypeInv
  BY TypeInit, TypeNext, PTL DEF Spec
<1>2. TypeInv => TypeOK
  BY DEF TypeInv
<1>3. QED
  BY <1>1, <1>2, PTL
-----------------------------------------------------------------------------
(***************************************************************************)
(* What no step takes back: blocks, consumed nonces, time, and the rows of *)
(* issued signatures.  A job or a round that remembers one of these can be *)
(* suspended for as long as it likes.                                      *)
(***************************************************************************)
Kept ==
  /\ head <= head' /\ now <= now'
  /\ \A s \in Sig : usedAt[s] # 0 => usedAt'[s] = usedAt[s]
  /\ \A s \in Sig : usedAt'[s] = usedAt[s] \/ head < usedAt'[s]
  /\ \A s \in Sig : status[s] # "absent" =>
       status'[s] # "absent" /\ deadline'[s] = deadline[s] /\ terms'[s] = terms[s]

LEMMA StepKeeps == TypeInv /\ [Next]_vars => Kept
<1> SUFFICES ASSUME TypeInv, [Next]_vars PROVE Kept
  OBVIOUS
<1> USE DEF TypeInv, TypeOK
<1>0. head \in Nat /\ now \in Nat
  BY ConstantsAssumption DEF Block
<1>1. UNCHANGED <<now, chain, table>> => Kept
  BY <1>0 DEF chain, table, Kept
<1>2. CASE Tick
  BY <1>0, <1>2 DEF Tick, chain, table, Kept
<1>3. CASE MineBlock
  <2>1. PICK S \in SUBSET {s \in Sig : Redeemable(s, head + 1)} :
          usedAt' = [s \in Sig |-> IF s \in S THEN head + 1 ELSE usedAt[s]]
    BY <1>3 DEF MineBlock
  <2>2. \A s \in S : usedAt[s] = 0
    BY DEF Redeemable
  <2>3. QED
    BY <1>0, <1>3, <2>1, <2>2 DEF MineBlock, table, Kept
<1>4. ASSUME NEW s \in Sig, GenerateDepositSignature(s) PROVE Kept
  BY <1>0, <1>4 DEF GenerateDepositSignature, NextId, Insert, chain, Kept
<1>5. ASSUME NEW s \in Sig, GenerateWithdrawSignature(s) PROVE Kept
  BY <1>0, <1>5 DEF GenerateWithdrawSignature, Covered, NextId, Insert, chain, Kept
<1>6. ASSUME NEW s \in Sig, NEW used \in BOOLEAN, Settle(s, used),
             UNCHANGED <<now, chain>>
      PROVE  Kept
  BY <1>0, <1>6, SettleType DEF chain, Kept
<1>7. CASE JobSettle
  <2>1. worker.sig \in Sig
    BY <1>7 DEF JobSettle, WorkerState, Idle
  <2>2. QED
    BY <1>6, <1>7, <2>1 DEF JobSettle, chain
<1>8. ASSUME NEW c \in Checker, NEW s \in Sig, RoundSettle(c, s) PROVE Kept
  <2>1. round[c].used \in BOOLEAN
    BY DEF RoundState
  <2>2. QED
    BY <1>6, <1>8, <2>1 DEF RoundSettle, chain
<1>9. QED
  BY <1>1, <1>2, <1>3, <1>4, <1>5, <1>7, <1>8
  DEF Next, Api, Queue, Cron, Terminated, vars, Crash, SubmitNonce, JobStart,
      JobRead, JobFail, JobRemove, RoundList, RoundBlock, RoundRead, RoundFail
-----------------------------------------------------------------------------
(***************************************************************************)
(* The heart of the argument: every settlement, from whichever path and    *)
(* however old the reading it acts on, carries a verdict that is true now  *)
(* and stays true.  An unused verdict was read at a block past the         *)
(* deadline; a later consumption would sit in a later block with an        *)
(* earlier timestamp.                                                      *)
(***************************************************************************)
Verdict(s, used) ==
  IF used THEN usedAt[s] # 0
  ELSE /\ usedAt[s] = 0
       /\ Timestamp(head) > deadline[s]
       /\ deadline[s] <= now - Grace

SoundSettlement(s) ==
  \E used \in BOOLEAN :
    Settle(s, used) /\ Verdict(s, used) /\ UNCHANGED <<now, chain>>

LEMMA JobVerdict ==
  ASSUME IInv, JobSettle
  PROVE  worker.sig \in Sig /\ SoundSettlement(worker.sig)
<1>1. worker.sig \in Sig
  BY DEF IInv, TypeOK, JobSettle, WorkerState, Idle
<1>2. Verdict(worker.sig, TRUE)
  BY DEF IInv, WorkerInv, JobSettle, Verdict
<1>3. QED
  BY <1>1, <1>2 DEF JobSettle, SoundSettlement

LEMMA RoundVerdict ==
  ASSUME IInv, NEW c \in Checker, NEW s \in Sig, RoundSettle(c, s)
  PROVE  SoundSettlement(s)
<1> DEFINE b == round[c].snap
<1>1. /\ b \in Nat /\ head \in Nat /\ b <= head
      /\ usedAt[s] \in Nat /\ deadline[s] \in Nat
      /\ round[c].used \in BOOLEAN
      /\ deadline[s] <= now - Grace
  BY ConstantsAssumption
  DEF IInv, TypeOK, RoundInv, RoundState, Block, RoundSettle, First
<1>2. CASE round[c].used
  BY <1>2 DEF IInv, RoundInv, RoundSettle, UsedBy, Verdict, SoundSettlement
<1>3. CASE ~round[c].used
  <2>1. ~UsedBy(s, b) /\ Timestamp(b) > deadline[s]
    BY <1>3 DEF IInv, RoundInv, RoundSettle
  <2>2. Timestamp(head) > deadline[s]
    BY <1>1, <2>1, TimestampMonotone, ConstantsAssumption
  <2>3. usedAt[s] = 0
    <3>1. SUFFICES ASSUME usedAt[s] # 0 PROVE FALSE
      OBVIOUS
    <3>2. b <= usedAt[s]
      BY <1>1, <2>1, <3>1 DEF UsedBy
    <3>3. Timestamp(b) <= Timestamp(usedAt[s])
      BY <1>1, <3>2, TimestampMonotone
    <3>4. Timestamp(usedAt[s]) <= deadline[s]
      BY <3>1 DEF IInv, ChainInv
    <3>5. QED
      BY <1>1, <2>1, <3>3, <3>4, TimestampMonotone
  <2>4. Verdict(s, FALSE)
    BY <1>1, <2>2, <2>3 DEF Verdict
  <2>5. round[c].used = FALSE
    BY <1>1, <1>3
  <2>6. QED
    BY <2>4, <2>5 DEF RoundSettle, SoundSettlement
<1>4. QED
  BY <1>2, <1>3

\* What a step may do to the tables.
LEMMA TableSteps ==
  ASSUME IInv, [Next]_vars
  PROVE  \/ UNCHANGED table
         \/ \E s \in Sig :
              \/ GenerateDepositSignature(s) \/ GenerateWithdrawSignature(s)
              \/ SoundSettlement(s)
  BY JobVerdict, RoundVerdict
  DEF Next, Api, Queue, Cron, Terminated, vars, Tick, MineBlock, Crash,
      SubmitNonce, JobStart, JobRead, JobFail, JobRemove, RoundList, RoundBlock,
      RoundRead, RoundFail
-----------------------------------------------------------------------------
(***************************************************************************)
(* The conjuncts of the inductive invariant, one by one.                   *)
(***************************************************************************)

\* An issue adds one pending signature whose nonce is not consumed.
LEMMA IssueStep ==
  ASSUME IInv, NEW s \in Sig,
         GenerateDepositSignature(s) \/ GenerateWithdrawSignature(s)
  PROVE  /\ status[s] = "absent" /\ usedAt[s] = 0
         /\ status' = [status EXCEPT ![s] = "pending"]
         /\ deadline' = [deadline EXCEPT ![s] = now + TTL]
         /\ UNCHANGED <<now, chain, job, worker, round>>
         /\ \E a \in Account, t \in Token, amount \in Amount, k \in Kind :
              terms' = [terms EXCEPT ![s] = [account |-> a, kind |-> k,
                                             token |-> t, amount |-> amount]]
  BY DEF GenerateDepositSignature, GenerateWithdrawSignature, Covered, NextId, Insert,
         IInv, ChainInv, Kind

\* A consumption happens in the next block, in time for its deadline.
LEMMA ConsumeStep ==
  ASSUME IInv, MineBlock
  PROVE  /\ head' = head + 1 /\ UNCHANGED <<table, now>>
         /\ \A s \in Sig :
              \/ usedAt'[s] = usedAt[s]
              \/ /\ usedAt[s] = 0 /\ usedAt'[s] = head + 1
                 /\ status[s] = "pending"
                 /\ Timestamp(head + 1) <= deadline[s]
<1>1. head \in Nat
  BY ConstantsAssumption DEF IInv, TypeOK, Block
<1>2. Timestamp(head) <= Timestamp(head + 1)
      /\ Timestamp(head) \in Nat /\ Timestamp(head + 1) \in Nat
  BY <1>1, TimestampMonotone
<1>3. \A s \in Sig : Redeemable(s, head + 1) =>
        usedAt[s] = 0 /\ status[s] = "pending" /\ Timestamp(head + 1) <= deadline[s]
  <2>1. ASSUME NEW s \in Sig, Redeemable(s, head + 1), status[s] # "pending"
        PROVE  FALSE
    <3>1. status[s] \in {"used", "unused"} /\ deadline[s] \in Nat
      BY <2>1 DEF IInv, TypeOK, Status, Redeemable
    <3>2. QED
      BY <1>2, <2>1, <3>1 DEF IInv, SettlementMatchesChain, Redeemable
  <2>2. QED
    BY <2>1 DEF Redeemable
<1>4. QED
  BY <1>1, <1>3 DEF MineBlock, IInv, TypeOK

LEMMA ChainUnlessMined ==
  ASSUME [Next]_vars PROVE MineBlock \/ UNCHANGED chain
  BY DEF Next, Api, Queue, Cron, Terminated, vars, chain, Tick, Crash,
         GenerateDepositSignature, GenerateWithdrawSignature, Covered, SubmitNonce,
         JobStart, JobRead, JobSettle, JobFail, JobRemove, RoundList,
         RoundBlock, RoundRead, RoundSettle, RoundFail

LEMMA SettleKeeps ==
  ASSUME IInv, NEW s \in Sig, SoundSettlement(s)
  PROVE  /\ UNCHANGED <<now, chain, terms, deadline>>
         /\ \A r \in Sig : status'[r] = "absent" <=> status[r] = "absent"
         /\ \A r \in Sig :
              \/ status'[r] = status[r]
              \/ status[r] = "pending" /\ status'[r] = "used" /\ Verdict(r, TRUE)
              \/ status[r] = "pending" /\ status'[r] = "unused" /\ Verdict(r, FALSE)
  BY SettleType
  DEF SoundSettlement, Settle, Record, table, IInv, TypeInv, TypeOK

LEMMA ChainInvNext ==
  ASSUME IInv, [Next]_vars PROVE ChainInv'
<1>0. /\ head \in Nat /\ deadline \in [Sig -> Nat] /\ usedAt \in [Sig -> Block]
      /\ status \in [Sig -> Status]
  BY ConstantsAssumption DEF IInv, TypeOK, Block
<1>1. CASE UNCHANGED table /\ UNCHANGED chain
  BY <1>1 DEF IInv, ChainInv, chain, table, Timestamp
<1>2. CASE MineBlock
  <2>1. \A s \in Sig : usedAt[s] <= head /\ usedAt[s] \in Nat
    BY <1>0 DEF IInv, ChainInv, Block
  <2>2. QED
    BY <1>0, <1>2, <2>1, ConsumeStep DEF IInv, ChainInv, table, Timestamp
<1>3. ASSUME NEW s \in Sig,
             GenerateDepositSignature(s) \/ GenerateWithdrawSignature(s)
      PROVE  ChainInv'
  BY <1>0, <1>3, IssueStep DEF IInv, ChainInv, chain, Timestamp
<1>4. ASSUME NEW s \in Sig, SoundSettlement(s) PROVE ChainInv'
  BY <1>0, <1>4, SettleKeeps DEF IInv, ChainInv, chain, Timestamp
<1>5. QED
  BY <1>1, <1>2, <1>3, <1>4, TableSteps, ChainUnlessMined

LEMMA MatchNext ==
  ASSUME IInv, [Next]_vars PROVE SettlementMatchesChain'
<1>0. /\ head \in Nat /\ deadline \in [Sig -> Nat] /\ usedAt \in [Sig -> Block]
      /\ status \in [Sig -> Status]
  BY ConstantsAssumption DEF IInv, TypeOK, Block
<1>1. CASE UNCHANGED table /\ UNCHANGED chain
  BY <1>1 DEF IInv, SettlementMatchesChain, chain, table, Timestamp
<1>2. CASE MineBlock
  <2>1. /\ Timestamp(head) <= Timestamp(head + 1)
        /\ Timestamp(head) \in Nat /\ Timestamp(head + 1) \in Nat
    BY <1>0, TimestampMonotone
  <2>2. Timestamp(head)' = Timestamp(head + 1)
    BY <1>2, ConsumeStep DEF Timestamp
  <2>3. \A s \in Sig : deadline[s] \in Nat
    BY <1>0
  <2>4. QED
    BY <1>0, <1>2, <2>1, <2>2, <2>3, ConsumeStep
    DEF IInv, SettlementMatchesChain, table
<1>3. ASSUME NEW s \in Sig,
             GenerateDepositSignature(s) \/ GenerateWithdrawSignature(s)
      PROVE  SettlementMatchesChain'
  BY <1>0, <1>3, IssueStep DEF IInv, SettlementMatchesChain, chain, Timestamp
<1>4. ASSUME NEW s \in Sig, SoundSettlement(s) PROVE SettlementMatchesChain'
  BY <1>0, <1>4, SettleKeeps
  DEF IInv, SettlementMatchesChain, Verdict, chain, Timestamp
<1>5. QED
  BY <1>1, <1>2, <1>3, <1>4, TableSteps, ChainUnlessMined
LEMMA WorkerInvNext ==
  ASSUME IInv, [Next]_vars PROVE WorkerInv'
<1>0. Kept
  BY StepKeeps DEF IInv, TypeInv
<1>1. /\ worker \in WorkerState /\ usedAt \in [Sig -> Block]
      /\ \A b \in Block : b \in Nat
  BY ConstantsAssumption DEF IInv, TypeOK, Block
<1>2. CASE worker' = worker
  BY <1>0, <1>1, <1>2 DEF WorkerInv, WorkerState, IInv, Idle, Kept
<1>3. CASE worker' = Idle
  BY <1>3 DEF WorkerInv, Idle
<1>4. ASSUME NEW s \in Sig, JobStart(s) PROVE WorkerInv'
  BY <1>2, <1>4 DEF JobStart, WorkerInv, table
<1>5. CASE JobRead
  <2>1. worker.sig \in Sig /\ worker \in [pc : {"read", "reread", "settle"}, sig : Sig]
    BY <1>1, <1>5 DEF JobRead, WorkerState, Idle
  <2>2. CASE worker' = [worker EXCEPT !.pc = "reread"]
    BY <1>5, <2>1, <2>2 DEF JobRead, WorkerInv, IInv, table
  <2>3. CASE \E b \in Latest : UsedBy(worker.sig, b)
                              /\ worker' = [worker EXCEPT !.pc = "settle"]
    BY <1>5, <2>1, <2>3 DEF JobRead, WorkerInv, IInv, table, chain, UsedBy
  <2>4. QED
    BY <1>3, <1>5, <2>2, <2>3 DEF JobRead
<1>6. QED
  BY <1>2, <1>3, <1>4, <1>5
  DEF Next, Api, Queue, Cron, Terminated, vars, Tick, MineBlock, Crash,
      GenerateDepositSignature, GenerateWithdrawSignature, Covered, SubmitNonce,
      JobSettle, JobFail, JobRemove, RoundList, RoundBlock, RoundRead,
      RoundSettle, RoundFail

\* What the invariant asks of one round, and that a round that sleeps through a
\* step keeps it.
Sound(r) ==
  /\ r.snap <= head
  /\ \A s \in r.todo : status[s] # "absent" /\ deadline[s] <= now - Grace
  /\ r.pc = "settle" =>
       \A s \in Sig : First(s, r.todo) =>
         IF r.used THEN UsedBy(s, r.snap)
         ELSE ~UsedBy(s, r.snap) /\ Timestamp(r.snap) > deadline[s]

LEMMA SleepingRound ==
  ASSUME TypeInv, Kept, NEW r \in RoundState, Sound(r), ChainInv,
         head' \in Nat, now' \in Int, deadline' \in [Sig -> Nat],
         usedAt' \in [Sig -> Nat]
  PROVE  Sound(r)'
<1>1. /\ r.snap \in Nat /\ r.todo \in SUBSET Sig
      /\ head \in Nat /\ now \in Nat /\ Grace \in Nat
      /\ deadline \in [Sig -> Nat] /\ usedAt \in [Sig -> Nat]
  BY ConstantsAssumption DEF RoundState, TypeInv, TypeOK, Block
<1>2. r.snap <= head'
  BY <1>1 DEF Kept, Sound
<1>3. \A s \in r.todo : status'[s] # "absent" /\ deadline'[s] <= now' - Grace
  BY <1>1 DEF Kept, Sound
<1>4. \A s \in Sig : UsedBy(s, r.snap)' <=> UsedBy(s, r.snap)
  BY <1>1 DEF UsedBy, Kept, Sound
<1>5. \A s \in r.todo : deadline'[s] = deadline[s]
  BY <1>1 DEF Kept, Sound
<1>6. QED
  BY <1>2, <1>3, <1>4, <1>5 DEF Sound, First, Timestamp

\* A fresh round, and a round without one of its records, are sound when the
\* round they come from is.
LEMMA NoRoundSound == ASSUME head \in Nat PROVE Sound(NoRound)
  BY DEF Sound, NoRound

LEMMA RestSound ==
  ASSUME NEW r \in RoundState, NEW s \in Sig, Sound(r), head \in Nat
  PROVE  Sound(Rest(r, s))
<1>1. CASE r.todo = {s}
  BY <1>1, NoRoundSound DEF Rest
<1>2. CASE r.todo # {s}
  <2>1. /\ Rest(r, s).snap = r.snap /\ Rest(r, s).pc = "scan"
        /\ Rest(r, s).todo = r.todo \ {s}
    BY <1>2 DEF Rest, RoundState
  <2>2. QED
    BY <2>1 DEF Sound
<1>3. QED
  BY <1>1, <1>2

LEMMA RoundStepSound ==
  ASSUME IInv, NEW c \in Checker,
         RoundList(c) \/ RoundBlock(c) \/ \E s \in Sig : RoundRead(c, s)
  PROVE  \E r \in RoundState : round' = [round EXCEPT ![c] = r] /\ Sound(r)
<1>0. /\ head \in Nat /\ now \in Nat /\ round[c] \in RoundState
      /\ deadline \in [Sig -> Nat] /\ Grace \in Nat
      /\ Sound(round[c])
  BY ConstantsAssumption DEF IInv, TypeOK, Block, RoundInv, Sound
<1>1. CASE RoundList(c)
  <2>1. Expired \in SUBSET Sig
    BY DEF Expired
  <2>2. DEFINE r == [NoRound EXCEPT !.pc = "block", !.todo = Expired]
  <2>3. r \in RoundState
    BY <2>1, NoRoundType DEF RoundState
  <2>4. r.snap = 0 /\ r.todo = Expired /\ r.pc = "block"
    BY DEF NoRound
  <2>5. Sound(r)
    BY <1>0, <2>4 DEF Sound, Expired
  <2>6. QED
    BY <1>1, <2>3, <2>5 DEF RoundList
<1>2. CASE RoundBlock(c)
  <2>1. PICK b \in Latest :
          round' = [round EXCEPT ![c] = [round[c] EXCEPT !.pc = "scan", !.snap = b]]
    BY <1>2 DEF RoundBlock
  <2>2. DEFINE r == [round[c] EXCEPT !.pc = "scan", !.snap = b]
  <2>3. r \in RoundState
    BY <1>0, <2>1 DEF RoundState, Latest
  <2>4. r.snap = b /\ r.todo = round[c].todo /\ r.pc = "scan"
    BY <1>0 DEF RoundState
  <2>5. Sound(r)
    BY <1>0, <2>4 DEF Sound, Latest
  <2>6. QED
    BY <2>1, <2>3, <2>5
<1>3. ASSUME NEW s \in Sig, RoundRead(c, s)
      PROVE  \E r \in RoundState : round' = [round EXCEPT ![c] = r] /\ Sound(r)
  <2>1. DEFINE used == UsedBy(s, round[c].snap)
               r == [round[c] EXCEPT !.pc = "settle", !.used = used]
  <2>2. CASE ~used /\ Timestamp(round[c].snap) <= deadline[s]
    <3>1. round' = [round EXCEPT ![c] = Rest(round[c], s)]
      BY <1>3, <2>2 DEF RoundRead, StillUsable
    <3>2. QED
      BY <1>0, <3>1, RestSound, RestType
  <2>3. CASE ~(~used /\ Timestamp(round[c].snap) <= deadline[s])
    <3>1. round' = [round EXCEPT ![c] = r]
      BY <1>3, <2>3 DEF RoundRead, StillUsable
    <3>2. used \in BOOLEAN
      BY DEF UsedBy
    <3>3. r \in RoundState
      BY <1>0, <3>2 DEF RoundState
    <3>4. /\ r.snap = round[c].snap /\ r.todo = round[c].todo
          /\ r.pc = "settle" /\ r.used = used
      BY <1>0 DEF RoundState
    <3>5. \A q \in Sig : First(q, r.todo) => q = s
      <4>1. First(s, round[c].todo)
        BY <1>3 DEF RoundRead, StillUsable
      <4>2. QED
        BY <3>4, <4>1, ConstantsAssumption DEF First
    <3>6. used \/ (~used /\ Timestamp(round[c].snap) > deadline[s])
      <4>1. round[c].snap \in Nat
        BY <1>0, ConstantsAssumption DEF RoundState, Block
      <4>2. Timestamp(round[c].snap) \in Nat
        BY <4>1, TimestampMonotone
      <4>3. deadline[s] \in Nat
        BY <1>0
      <4>4. QED
        BY <2>3, <4>2, <4>3
    <3>7. Sound(r)
      BY <1>0, <3>4, <3>5, <3>6 DEF Sound
    <3>8. QED
      BY <3>1, <3>3, <3>7
  <2>4. QED
    BY <2>2, <2>3
<1>4. QED
  BY <1>1, <1>2, <1>3

LEMMA RoundInvNext ==
  ASSUME IInv, [Next]_vars PROVE RoundInv'
<1>0. TypeInv /\ TypeInv' /\ Kept
  BY StepKeeps, TypeNext DEF IInv, TypeInv
<1>1. /\ head' \in Nat /\ now' \in Int /\ deadline' \in [Sig -> Nat]
      /\ usedAt' \in [Sig -> Nat] /\ round \in [Checker -> RoundState]
  BY <1>0, ConstantsAssumption DEF TypeInv, TypeOK, Block
<1>2. RoundInv <=> \A c \in Checker : Sound(round[c])
  BY DEF RoundInv, Sound
<1>3. RoundInv' <=> \A c \in Checker : Sound(round[c])'
  BY DEF RoundInv, Sound
<1>4. \A c \in Checker : round'[c] = round[c] => Sound(round[c])'
  <2>1. SUFFICES ASSUME NEW c \in Checker, round'[c] = round[c]
                 PROVE  Sound(round[c])'
    OBVIOUS
  <2>2. Sound(round[c]) /\ round[c] \in RoundState /\ ChainInv
    BY <1>1, <1>2 DEF IInv
  <2>3. PICK r \in RoundState : r = round[c]
    BY <2>2
  <2>4. Sound(r)
    BY <2>2, <2>3
  <2>5. Sound(r)'
    BY <1>0, <1>1, <2>2, <2>4, SleepingRound
  <2>6. QED
    BY <2>1, <2>3, <2>5 DEF Sound, First, UsedBy, Timestamp
<1>5. \A c \in Checker : round'[c] = NoRound => Sound(round[c])'
  BY <1>1, NoRoundSound DEF Sound, NoRound
<1>6. ASSUME NEW c \in Checker,
             RoundList(c) \/ RoundBlock(c) \/ \E s \in Sig : RoundRead(c, s)
      PROVE  RoundInv'
  <2>1. PICK r \in RoundState : round' = [round EXCEPT ![c] = r] /\ Sound(r)
    BY <1>6, RoundStepSound
  <2>2. Sound(r)'
    BY <1>0, <1>1, <2>1, SleepingRound DEF IInv
  <2>3. round'[c] = r
    BY <1>1, <2>1
  <2>4. Sound(round[c])'
    BY <2>2, <2>3 DEF Sound, First, UsedBy, Timestamp
  <2>5. \A d \in Checker \ {c} : round'[d] = round[d]
    BY <1>1, <2>1
  <2>6. QED
    BY <1>3, <1>4, <2>4, <2>5
<1>7. ASSUME NEW c \in Checker, NEW s \in Sig, RoundSettle(c, s) PROVE RoundInv'
  <2>1. PICK r \in RoundState : r = Rest(round[c], s)
    BY <1>1, RestType
  <2>2. Sound(r)
    <3>1. Sound(round[c]) /\ head \in Nat
      BY <1>2, ConstantsAssumption DEF IInv, TypeOK, Block
    <3>2. QED
      BY <1>1, <2>1, <3>1, RestSound
  <2>3. Sound(r)'
    BY <1>0, <1>1, <2>2, SleepingRound DEF IInv
  <2>4. round' = [round EXCEPT ![c] = r]
    BY <1>7, <2>1 DEF RoundSettle
  <2>5. Sound(round[c])'
    BY <1>1, <2>3, <2>4 DEF Sound, First, UsedBy, Timestamp
  <2>6. \A d \in Checker \ {c} : round'[d] = round[d]
    BY <1>1, <2>4
  <2>7. QED
    BY <1>3, <1>4, <2>5, <2>6
<1>8. ASSUME NEW c \in Checker, RoundFail(c) PROVE RoundInv'
  BY <1>1, <1>3, <1>4, <1>5, <1>8 DEF RoundFail
<1>9. CASE Crash
  BY <1>3, <1>5, <1>9 DEF Crash
<1>10. CASE round' = round
  BY <1>3, <1>4, <1>10
<1>11. QED
  BY <1>6, <1>7, <1>8, <1>9, <1>10
  DEF Next, Api, Queue, Cron, Terminated, vars, Tick, MineBlock,
      GenerateDepositSignature, GenerateWithdrawSignature, Covered, SubmitNonce,
      JobStart, JobRead, JobSettle, JobFail, JobRemove
\* The log of a signature follows its status: an issue and a settlement write
\* what they have to, and nothing else writes to it.
LEMMA OnceNext ==
  ASSUME IInv, [Next]_vars PROVE SettledExactlyOnce'
<1>0. /\ TypeInv /\ status \in [Sig -> Status]
      /\ entries \in [Sig -> [LogType -> Nat]]
      /\ terms \in [Sig -> Terms \cup {NoTerms}]
      /\ \A s \in Sig : entries[s] = ExpectedEntries(s)
  BY DEF IInv, TypeInv, TypeOK, SettledExactlyOnce
<1>1. CASE UNCHANGED table
  BY <1>1 DEF IInv, SettledExactlyOnce, ExpectedEntries, table
<1>2. ASSUME NEW s \in Sig, GenerateDepositSignature(s)
      PROVE  SettledExactlyOnce'
  <2>1. PICK a \in Account, t \in Token, amount \in Amount :
          Insert(s, a, "deposit", t, amount)
    BY <1>2 DEF GenerateDepositSignature
  <2>2. status[s] = "absent" /\ entries' = entries
    BY <1>2 DEF GenerateDepositSignature, NextId
  <2>3. ASSUME NEW r \in Sig PROVE entries'[r] = ExpectedEntries(r)'
    BY <1>0, <2>1, <2>2 DEF Insert, ExpectedEntries
  <2>4. QED
    BY <2>3 DEF SettledExactlyOnce
<1>3. ASSUME NEW s \in Sig, GenerateWithdrawSignature(s)
      PROVE  SettledExactlyOnce'
  <2>1. PICK a \in Account, t \in Token, amount \in Amount :
          /\ Insert(s, a, "withdraw", t, amount)
          /\ entries' = [entries EXCEPT ![s]["Withdraw"] = @ + 1]
    BY <1>3 DEF GenerateWithdrawSignature, Covered
  <2>2. status[s] = "absent"
    BY <1>3 DEF GenerateWithdrawSignature, Covered, NextId
  <2>3. ASSUME NEW r \in Sig PROVE entries'[r] = ExpectedEntries(r)'
    <3>1. CASE r # s
      BY <1>0, <2>1, <2>2, <3>1 DEF Insert, ExpectedEntries
    <3>2. CASE r = s
      <4>1. /\ status'[s] = "pending" /\ terms'[s].kind = "withdraw"
        BY <1>0, <2>1 DEF Insert
      <4>2. entries[s] = [l \in LogType |-> 0]
        BY <1>0, <2>2 DEF ExpectedEntries
      <4>3. entries'[s] = [entries[s] EXCEPT !["Withdraw"] = @ + 1]
        BY <1>0, <2>1
      <4>4. entries'[s] = [l \in LogType |-> IF l = "Withdraw" THEN 1 ELSE 0]
        BY <4>2, <4>3 DEF LogType
      <4>5. ExpectedEntries(s)' =
              [l \in LogType |-> IF l = "Withdraw" THEN 1 ELSE 0]
        BY <4>1 DEF ExpectedEntries
      <4>6. QED
        BY <3>2, <4>4, <4>5
    <3>3. QED
      BY <3>1, <3>2
  <2>4. QED
    BY <2>3 DEF SettledExactlyOnce
<1>4. ASSUME NEW s \in Sig, SoundSettlement(s) PROVE SettledExactlyOnce'
  <2>1. PICK used \in BOOLEAN : Settle(s, used)
    BY <1>4 DEF SoundSettlement
  <2>2. CASE status[s] # "pending"
    BY <1>1, <2>1, <2>2 DEF Settle, Record
  <2>3. CASE status[s] = "pending"
    <3>1. /\ status' = [status EXCEPT ![s] = IF used THEN "used" ELSE "unused"]
          /\ entries' = [entries EXCEPT ![s][CreditLog(used)] =
                           IF Credit(terms[s], used) = 0 THEN @ ELSE @ + 1]
          /\ terms' = terms
      BY <2>1, <2>3 DEF Settle, Record
    <3>2. terms[s].kind \in Kind /\ terms[s].amount # 0
      BY <2>3, ConstantsAssumption DEF IInv, TermsInv, Terms
    <3>3. ASSUME NEW r \in Sig, r # s PROVE entries'[r] = ExpectedEntries(r)'
      BY <1>0, <3>1, <3>3 DEF ExpectedEntries
    <3>4. entries[s] = [l \in LogType |->
            IF l = "Withdraw" /\ terms[s].kind = "withdraw" THEN 1 ELSE 0]
      BY <1>0, <2>3 DEF ExpectedEntries
    <3>5. entries'[s] = [entries[s] EXCEPT ![CreditLog(used)] =
                           IF Credit(terms[s], used) = 0 THEN @ ELSE @ + 1]
      BY <1>0, <3>1
    <3>6. entries'[s] = ExpectedEntries(s)'
      <4>1. CASE used
        <5>1. /\ CreditLog(used) = "Deposit"
              /\ Credit(terms[s], used) = 0 <=> terms[s].kind # "deposit"
          BY <3>2, <4>1 DEF Credit, CreditLog, Kind
        <5>2. ExpectedEntries(s)' = [l \in LogType |->
                IF \/ l = "Withdraw" /\ terms[s].kind = "withdraw"
                   \/ l = "Deposit" /\ terms[s].kind = "deposit"
                THEN 1 ELSE 0]
          BY <1>0, <3>1, <4>1 DEF ExpectedEntries
        <5>3. QED
          BY <3>2, <3>4, <3>5, <5>1, <5>2 DEF LogType, Kind
      <4>2. CASE ~used
        <5>1. /\ CreditLog(used) = "WithdrawRefund"
              /\ Credit(terms[s], used) = 0 <=> terms[s].kind # "withdraw"
          BY <3>2, <4>2 DEF Credit, CreditLog, Kind
        <5>2. ExpectedEntries(s)' = [l \in LogType |->
                IF \/ l = "Withdraw" /\ terms[s].kind = "withdraw"
                   \/ l = "WithdrawRefund" /\ terms[s].kind = "withdraw"
                THEN 1 ELSE 0]
          BY <1>0, <3>1, <4>2 DEF ExpectedEntries
        <5>3. QED
          BY <3>2, <3>4, <3>5, <5>1, <5>2 DEF LogType, Kind
      <4>3. QED
        BY <4>1, <4>2
    <3>7. QED
      BY <3>3, <3>6 DEF SettledExactlyOnce
  <2>4. QED
    BY <2>2, <2>3
<1>5. QED
  BY <1>1, <1>2, <1>3, <1>4, TableSteps

-----------------------------------------------------------------------------
LEMMA InvInit == Init => IInv
<1> SUFFICES ASSUME Init PROVE IInv
  OBVIOUS
<1>1. TypeOK /\ TermsInv
  BY TypeInit DEF TypeInv
<1>2. ChainInv /\ SettlementMatchesChain
  BY DEF Init, ChainInv, SettlementMatchesChain
<1>3. WorkerInv /\ RoundInv
  BY DEF Init, WorkerInv, RoundInv, Idle, NoRound
<1>4. SettledExactlyOnce
  BY DEF Init, SettledExactlyOnce, ExpectedEntries
<1>5. QED
  BY <1>1, <1>2, <1>3, <1>4 DEF IInv

LEMMA InvNext == IInv /\ [Next]_vars => IInv'
<1> SUFFICES ASSUME IInv, [Next]_vars PROVE IInv'
  OBVIOUS
<1>1. TypeOK' /\ TermsInv'
  BY TypeNext DEF IInv, TypeInv
<1>2. QED
  BY <1>1, ChainInvNext, MatchNext, WorkerInvNext, RoundInvNext, OnceNext
  DEF IInv

LEMMA Invariance == Spec => []IInv
  BY InvInit, InvNext, PTL DEF Spec

\* No signature is ever recorded against what the chain did or can still do.
THEOREM MatchesChain == Spec => []SettlementMatchesChain
<1>1. IInv => SettlementMatchesChain
  BY DEF IInv
<1>2. QED
  BY <1>1, Invariance, PTL

\* The log of every signature holds the hold, the credit and the refund exactly
\* as often as its status says: racing jobs and rounds never settle twice.
THEOREM ExactlyOnce == Spec => []SettledExactlyOnce
<1>1. IInv => SettledExactlyOnce
  BY DEF IInv
<1>2. QED
  BY <1>1, Invariance, PTL

\* No path gives a signature up before its grace period is over.
THEOREM NoEarlyRefund == Spec => GivenUpOnlyAfterGrace
<1> DEFINE A == \A s \in Sig : status[s] = "pending" /\ status'[s] = "unused"
                                 => now >= deadline[s] + Grace
<1>1. IInv /\ [Next]_vars => [A]_vars
  <2> SUFFICES ASSUME IInv, [Next]_vars PROVE A
    OBVIOUS
  <2>2. now \in Nat /\ Grace \in Nat /\ deadline \in [Sig -> Nat]
        /\ status \in [Sig -> Status]
    BY ConstantsAssumption DEF IInv, TypeOK
  <2>3. CASE UNCHANGED table
    BY <2>3 DEF table
  <2>4. ASSUME NEW s \in Sig,
               GenerateDepositSignature(s) \/ GenerateWithdrawSignature(s)
        PROVE  A
    <3>1. \A r \in Sig : status'[r] = "unused" => status[r] = "unused"
      BY <2>2, <2>4, IssueStep
    <3>2. QED
      BY <3>1
  <2>5. ASSUME NEW s \in Sig, SoundSettlement(s) PROVE A
    <3>1. ASSUME NEW r \in Sig, status[r] = "pending", status'[r] = "unused"
          PROVE  now >= deadline[r] + Grace
      <4>1. deadline[r] <= now - Grace
        <5>1. Verdict(r, FALSE)
          BY <2>5, <3>1, SettleKeeps
        <5>2. QED
          BY <5>1 DEF Verdict
      <4>2. deadline[r] \in Nat
        BY <2>2
      <4>3. QED
        BY <2>2, <4>1, <4>2
    <3>2. QED
      BY <3>1
  <2>6. QED
    BY <2>3, <2>4, <2>5, TableSteps
<1>2. QED
  BY <1>1, Invariance, PTL DEF Spec, GivenUpOnlyAfterGrace
-----------------------------------------------------------------------------
(***************************************************************************)
(* The books.  Conservation speaks of the chain; what its four sums come   *)
(* to depends on the database alone: an open or redeemed withdrawal keeps  *)
(* its amount, a credited deposit has brought its amount in.  That net     *)
(* moves with the balance in every transaction, and a settlement that      *)
(* matches the chain makes it the net of the four sums.                    *)
(***************************************************************************)
Net(a, t) ==
  [s \in Sig |->
     IF ~(status[s] # "absent" /\ terms[s].account = a /\ terms[s].token = t) THEN 0
     ELSE IF terms[s].kind = "deposit"
          THEN IF status[s] = "used" THEN -terms[s].amount ELSE 0
          ELSE IF status[s] = "unused" THEN 0 ELSE terms[s].amount]

BooksInv ==
  \A a \in Account, t \in Token :
    InitBalance[a][t] = balance[a][t] + SumFunctionOnSet(Net(a, t), Sig)

LEMMA AmountNat ==
  ASSUME TypeInv, NEW s \in Sig, status[s] # "absent"
  PROVE  terms[s].amount \in Nat
<1>1. terms[s] \in Terms
  BY DEF TypeInv, TermsInv
<1>2. QED
  BY <1>1, ConstantsAssumption DEF Terms

LEMMA NetInt ==
  ASSUME TypeInv, NEW a, NEW t
  PROVE  Summable(Net(a, t), Sig)
<1>1. \A s \in Sig : status[s] # "absent" => terms[s].amount \in Nat
  BY AmountNat
<1>2. \A s \in Sig : Net(a, t)[s] \in Int
  BY <1>1 DEF Net
<1>3. QED
  BY <1>2, ConstantsAssumption DEF Summable

\* A step that moves d out of a balance into what one signature stands for.
LEMMA BooksMove ==
  ASSUME TypeInv, BooksInv, NEW a \in Account, NEW t \in Token,
         NEW s \in Sig, NEW d \in Int,
         balance'[a][t] = balance[a][t] - d,
         Net(a, t)'[s] = Net(a, t)[s] + d,
         \A r \in Sig : r # s => Net(a, t)'[r] = Net(a, t)[r]
  PROVE  InitBalance[a][t] = balance'[a][t] + SumFunctionOnSet(Net(a, t)', Sig)
<1> DEFINE f == Net(a, t)
           g == Net(a, t)'
<1>1. Summable(f, Sig)
  BY NetInt
<1>2. SumFunctionOnSet(f, Sig) \in Int
  BY <1>1, SumInt
<1>3. InitBalance[a][t] = balance[a][t] + SumFunctionOnSet(f, Sig)
  BY DEF BooksInv
<1>4. balance[a][t] \in Nat
  BY DEF TypeInv, TypeOK
<1>5. g[s] = f[s] + d /\ \A r \in Sig : r # s => g[r] = f[r]
  OBVIOUS
<1> HIDE DEF f, g
<1>6. Moves(f, g, Sig, s, d)
  BY <1>1, <1>5 DEF Summable, Moves
<1>7. SumFunctionOnSet(g, Sig) = SumFunctionOnSet(f, Sig) + d
  BY <1>1, <1>6, SumMove
<1>8. InitBalance[a][t] = balance'[a][t] + SumFunctionOnSet(g, Sig)
  BY <1>2, <1>3, <1>4, <1>7
<1>9. QED
  BY <1>8 DEF g

LEMMA BooksIssue ==
  ASSUME IInv, BooksInv, NEW s \in Sig, NEW b \in Account, NEW k \in Kind,
         NEW u \in Token, NEW amount \in Amount, Insert(s, b, k, u, amount),
         status[s] = "absent",
         balance' = IF k = "withdraw" THEN [balance EXCEPT ![b][u] = @ - amount]
                    ELSE balance
  PROVE  BooksInv'
<1>0. /\ TypeInv /\ status \in [Sig -> Status] /\ DOMAIN terms = Sig
      /\ balance \in [Account -> [Token -> Nat]] /\ amount \in Nat
      /\ \A a \in Account, t \in Token : balance[a][t] \in Nat
  BY ConstantsAssumption DEF IInv, TypeInv, TypeOK
<1>1. /\ status' = [status EXCEPT ![s] = "pending"]
      /\ terms' = [terms EXCEPT ![s] = [account |-> b, kind |-> k,
                                        token |-> u, amount |-> amount]]
  BY DEF Insert
<1>2. SUFFICES ASSUME NEW a \in Account, NEW t \in Token
               PROVE  InitBalance[a][t] = balance'[a][t] + SumFunctionOnSet(Net(a, t)', Sig)
  BY DEF BooksInv
<1> DEFINE d == IF k = "withdraw" /\ b = a /\ u = t THEN amount ELSE 0
<1>3. d \in Int
  BY <1>0
<1>4. balance'[a][t] = balance[a][t] - d
  BY <1>0
<1>5. Net(a, t)[s] = 0 /\ Net(a, t)'[s] = d
  BY <1>0, <1>1 DEF Net, Kind
<1>6. \A r \in Sig : r # s => Net(a, t)'[r] = Net(a, t)[r]
  BY <1>0, <1>1 DEF Net
<1> HIDE DEF d
<1>7. Net(a, t)'[s] = Net(a, t)[s] + d
  BY <1>3, <1>5
<1>8. QED
  BY <1>0, <1>3, <1>4, <1>6, <1>7, BooksMove

LEMMA BooksNext ==
  ASSUME IInv, BooksInv, [Next]_vars
  PROVE  BooksInv'
<1>0. /\ TypeInv /\ status \in [Sig -> Status] /\ DOMAIN terms = Sig
      /\ balance \in [Account -> [Token -> Nat]]
      /\ \A a \in Account, t \in Token : balance[a][t] \in Nat
  BY DEF IInv, TypeInv, TypeOK
<1>1. CASE UNCHANGED table
  BY <1>1 DEF BooksInv, Net, table
<1>2. ASSUME NEW s \in Sig, GenerateDepositSignature(s) PROVE BooksInv'
  <2>1. status[s] = "absent" /\ balance' = balance
    BY <1>2 DEF GenerateDepositSignature, NextId
  <2>2. PICK b \in Account, u \in Token, amount \in Amount :
          Insert(s, b, "deposit", u, amount)
    BY <1>2 DEF GenerateDepositSignature
  <2>3. QED
    BY <2>1, <2>2, BooksIssue DEF Kind
<1>3. ASSUME NEW s \in Sig, GenerateWithdrawSignature(s) PROVE BooksInv'
  <2>1. status[s] = "absent"
    BY <1>3 DEF GenerateWithdrawSignature, NextId
  <2>2. PICK b \in Account, u \in Token, amount \in Amount :
          /\ balance' = [balance EXCEPT ![b][u] = @ - amount]
          /\ Insert(s, b, "withdraw", u, amount)
    BY <1>3 DEF GenerateWithdrawSignature
  <2>3. QED
    BY <2>1, <2>2, BooksIssue DEF Kind
<1>4. ASSUME NEW s \in Sig, SoundSettlement(s) PROVE BooksInv'
  <2>1. PICK used \in BOOLEAN : Settle(s, used)
    BY <1>4 DEF SoundSettlement
  <2>2. CASE status[s] # "pending"
    BY <1>1, <2>1, <2>2 DEF Settle
  <2>3. CASE status[s] = "pending"
    <3> DEFINE b == terms[s].account
               u == terms[s].token
               credit == Credit(terms[s], used)
    <3>1. /\ status' = [status EXCEPT ![s] = IF used THEN "used" ELSE "unused"]
          /\ balance' = [balance EXCEPT ![b][u] = @ + credit]
          /\ terms' = terms
      BY <2>1, <2>3 DEF Settle, Record
    <3>2. terms[s] \in Terms
      BY <2>3 DEF IInv, TermsInv
    <3>3. /\ b \in Account /\ u \in Token /\ terms[s].kind \in Kind
          /\ terms[s].amount \in Nat /\ credit \in Nat
      BY <3>2, ConstantsAssumption DEF Terms, Credit
    <3>4. SUFFICES ASSUME NEW a \in Account, NEW t \in Token
                   PROVE  InitBalance[a][t]
                            = balance'[a][t] + SumFunctionOnSet(Net(a, t)', Sig)
      BY DEF BooksInv
    <3> DEFINE d == IF b = a /\ u = t THEN -credit ELSE 0
    <3>5. d \in Int
      BY <3>3
    <3>6. balance'[a][t] = balance[a][t] - d
      <4>1. CASE b = a /\ u = t
        <5>1. balance'[a][t] = balance[a][t] + credit /\ d = -credit
          BY <1>0, <3>1, <4>1
        <5> HIDE DEF credit, d
        <5>2. QED
          BY <1>0, <3>3, <5>1
      <4>2. CASE ~(b = a /\ u = t)
        <5>1. balance'[a][t] = balance[a][t] /\ d = 0
          BY <1>0, <3>1, <3>3, <4>2
        <5> HIDE DEF d
        <5>2. QED
          BY <1>0, <5>1
      <4>3. QED
        BY <4>1, <4>2
    <3>7. \A r \in Sig : r # s => Net(a, t)'[r] = Net(a, t)[r]
      BY <1>0, <3>1 DEF Net
    <3>8. Net(a, t)'[s] = Net(a, t)[s] + d
      <4>1. CASE ~(b = a /\ u = t)
        <5>1. Net(a, t)[s] = 0 /\ Net(a, t)'[s] = 0 /\ d = 0
          BY <3>1, <4>1 DEF Net
        <5>2. QED
          BY <5>1
      <4>2. CASE b = a /\ u = t
        <5>1. Net(a, t)[s] = IF terms[s].kind = "deposit" THEN 0 ELSE terms[s].amount
          BY <2>3, <4>2 DEF Net
        <5>2. Net(a, t)'[s] = IF terms[s].kind = "deposit"
                              THEN IF used THEN -terms[s].amount ELSE 0
                              ELSE IF used THEN terms[s].amount ELSE 0
          BY <1>0, <3>1, <4>2 DEF Net
        <5>3. QED
          BY <3>3, <4>2, <5>1, <5>2 DEF Credit, Kind
      <4>3. QED
        BY <4>1, <4>2
    <3> HIDE DEF d
    <3>9. QED
      BY <1>0, <3>5, <3>6, <3>7, <3>8, BooksMove
  <2>4. QED
    BY <2>2, <2>3
<1>5. QED
  BY <1>1, <1>2, <1>3, <1>4, TableSteps

LEMMA BooksInit == Init => BooksInv
<1> SUFFICES ASSUME Init, NEW a \in Account, NEW t \in Token
             PROVE  InitBalance[a][t] = balance[a][t] + SumFunctionOnSet(Net(a, t), Sig)
  BY DEF BooksInv
<1>1. \A s \in Sig : Net(a, t)[s] = 0
  BY DEF Init, Net
<1>2. SumFunctionOnSet(Net(a, t), Sig) = 0
  BY <1>1, ConstantsAssumption, SumZero
<1>3. InitBalance[a][t] \in Nat /\ balance = InitBalance
  BY ConstantsAssumption DEF Init
<1>4. QED
  BY <1>2, <1>3

\* The amounts of a set of signatures add up, and to a sum over Sig.
LEMMA AmountsNat ==
  ASSUME TypeInv, NEW a, NEW t,
         NEW S \in SUBSET {s \in Sig : status[s] # "absent"}
  PROVE  /\ Summable(Amounts(a, t, S), Sig)
         /\ Moved(a, t, S) = SumFunctionOnSet(Amounts(a, t, S), Sig)
         /\ Moved(a, t, S) \in Int
<1>1. \A s \in S : terms[s].amount \in Nat
  BY AmountNat
<1>2. \A s \in Sig : Amounts(a, t, S)[s] \in Int
  BY <1>1 DEF Amounts
<1>3. Summable(Amounts(a, t, S), Sig)
  BY <1>2, ConstantsAssumption DEF Summable
<1>4. DOMAIN Amounts(a, t, S) = Sig
  BY DEF Amounts
<1>5. Moved(a, t, S) = SumFunctionOnSet(Amounts(a, t, S), Sig)
  BY <1>4 DEF Moved, SumFunction
<1>6. QED
  BY <1>3, <1>5, SumInt

\* Where settlements match the chain, what was taken in and the net are what is
\* in transit, what was paid out and what is held.
LEMMA NetOfTheChain ==
  ASSUME IInv, BooksInv
  PROVE  Conservation
<1> DEFINE taken == Issued("deposit") \cap OnChain
           paid == Issued("withdraw") \cap OnChain
           held == (Issued("withdraw") \cap Open) \ OnChain
<1>0. TypeInv /\ status \in [Sig -> Status]
  BY DEF IInv, TypeInv, TypeOK
<1>1. SUFFICES ASSUME NEW a \in Account, NEW t \in Token
               PROVE  InitBalance[a][t] + Moved(a, t, taken)
                        = balance[a][t] + Moved(a, t, taken \cap Open)
                            + Moved(a, t, paid) + Moved(a, t, held)
  BY DEF Conservation
<1> DEFINE ft == Amounts(a, t, taken)
           fo == Amounts(a, t, taken \cap Open)
           fp == Amounts(a, t, paid)
           fh == Amounts(a, t, held)
           n == Net(a, t)
           l == [s \in Sig |-> ft[s] + n[s]]
           m == [s \in Sig |-> fo[s] + fp[s]]
           w == [s \in Sig |-> m[s] + fh[s]]
<1>2. /\ taken \in SUBSET {s \in Sig : status[s] # "absent"}
      /\ taken \cap Open \in SUBSET {s \in Sig : status[s] # "absent"}
      /\ paid \in SUBSET {s \in Sig : status[s] # "absent"}
      /\ held \in SUBSET {s \in Sig : status[s] # "absent"}
  BY DEF Issued
<1>3. /\ Summable(ft, Sig) /\ Moved(a, t, taken) = SumFunctionOnSet(ft, Sig)
      /\ Moved(a, t, taken) \in Int
  BY <1>0, <1>2, AmountsNat
<1>4. /\ Summable(fo, Sig) /\ Moved(a, t, taken \cap Open) = SumFunctionOnSet(fo, Sig)
      /\ Moved(a, t, taken \cap Open) \in Int
  BY <1>0, <1>2, AmountsNat
<1>5. /\ Summable(fp, Sig) /\ Moved(a, t, paid) = SumFunctionOnSet(fp, Sig)
      /\ Moved(a, t, paid) \in Int
  BY <1>0, <1>2, AmountsNat
<1>6. /\ Summable(fh, Sig) /\ Moved(a, t, held) = SumFunctionOnSet(fh, Sig)
      /\ Moved(a, t, held) \in Int
  BY <1>0, <1>2, AmountsNat
<1>7. Summable(n, Sig) /\ SumFunctionOnSet(n, Sig) \in Int
  BY <1>0, NetInt, SumInt
<1>8. \A s \in Sig : l[s] = w[s]
  <2>1. SUFFICES ASSUME NEW s \in Sig PROVE l[s] = w[s]
    OBVIOUS
  <2>2. /\ status[s] = "used" => usedAt[s] # 0
        /\ status[s] = "unused" => usedAt[s] = 0
        /\ status[s] = "absent" => usedAt[s] = 0
    BY DEF IInv, ChainInv, SettlementMatchesChain
  <2>3. status[s] # "absent" => terms[s].kind \in Kind /\ terms[s].amount \in Nat
    BY ConstantsAssumption DEF IInv, TermsInv, Terms
  <2>4. /\ s \in taken <=> status[s] # "absent" /\ terms[s].kind = "deposit" /\ usedAt[s] # 0
        /\ s \in taken \cap Open
             <=> status[s] = "pending" /\ terms[s].kind = "deposit" /\ usedAt[s] # 0
        /\ s \in paid <=> status[s] # "absent" /\ terms[s].kind = "withdraw" /\ usedAt[s] # 0
        /\ s \in held <=> status[s] = "pending" /\ terms[s].kind = "withdraw" /\ usedAt[s] = 0
    BY DEF Issued, OnChain, Open
  <2> DEFINE x == IF terms[s].account = a /\ terms[s].token = t
                  THEN terms[s].amount ELSE 0
  <2>5. /\ ft[s] = IF s \in taken THEN x ELSE 0
        /\ fo[s] = IF s \in taken \cap Open THEN x ELSE 0
        /\ fp[s] = IF s \in paid THEN x ELSE 0
        /\ fh[s] = IF s \in held THEN x ELSE 0
    BY DEF Amounts
  <2>6. n[s] = IF status[s] = "absent" THEN 0
               ELSE IF terms[s].kind = "deposit"
                    THEN IF status[s] = "used" THEN -x ELSE 0
                    ELSE IF status[s] = "unused" THEN 0 ELSE x
    BY <2>3 DEF Net
  <2>7. status[s] # "absent" => x \in Nat
    BY <2>3
  <2>8. l[s] = ft[s] + n[s] /\ w[s] = (fo[s] + fp[s]) + fh[s]
    OBVIOUS
  <2>9. status[s] \in {"absent", "pending", "used", "unused"}
    BY <1>0 DEF Status
  <2> HIDE DEF taken, paid, held, ft, fo, fp, fh, n, l, m, w, x
  <2>10. QED
    BY <2>2, <2>3, <2>4, <2>5, <2>6, <2>7, <2>8, <2>9 DEF Kind
<1>9. /\ \A s \in Sig : l[s] = ft[s] + n[s]
      /\ \A s \in Sig : m[s] = fo[s] + fp[s]
      /\ \A s \in Sig : w[s] = m[s] + fh[s]
  OBVIOUS
<1>10. InitBalance[a][t] = balance[a][t] + SumFunctionOnSet(n, Sig)
  BY DEF BooksInv
<1>11. balance[a][t] \in Nat
  BY <1>0 DEF TypeInv, TypeOK
<1> HIDE DEF taken, paid, held, ft, fo, fp, fh, n, l, m, w
<1>12. /\ Summable(l, Sig)
       /\ SumFunctionOnSet(l, Sig) = SumFunctionOnSet(ft, Sig) + SumFunctionOnSet(n, Sig)
  BY <1>3, <1>7, <1>9, SumPlus
<1>13. /\ Summable(m, Sig)
       /\ SumFunctionOnSet(m, Sig) = SumFunctionOnSet(fo, Sig) + SumFunctionOnSet(fp, Sig)
  BY <1>4, <1>5, <1>9, SumPlus
<1>14. SumFunctionOnSet(w, Sig) = SumFunctionOnSet(m, Sig) + SumFunctionOnSet(fh, Sig)
  BY <1>6, <1>9, <1>13, SumPlus
<1>15. SumFunctionOnSet(l, Sig) = SumFunctionOnSet(w, Sig)
  BY <1>8, <1>12, SumSame
<1>16. QED
  BY <1>3, <1>4, <1>5, <1>6, <1>7, <1>10, <1>11, <1>12, <1>13, <1>14, <1>15

\* For every account and token the internal balance, what the contracts took in
\* and paid out, and what waits in between always add up to what there was: no
\* race, restart or old read pays and refunds, credits twice or loses a deposit.
THEOREM BalancesConserved == Spec => []Conservation
<1>1. Init => BooksInv
  BY BooksInit
<1>2. IInv /\ BooksInv /\ [Next]_vars => BooksInv'
  BY BooksNext
<1>3. IInv /\ BooksInv => Conservation
  BY NetOfTheChain
<1>4. QED
  BY <1>1, <1>2, <1>3, Invariance, PTL DEF Spec
-----------------------------------------------------------------------------
(***************************************************************************)
(* The flow implements the escrow: an issue is an issue, a block redeems,  *)
(* a settlement settles by what was redeemed, every other step stutters.   *)
(***************************************************************************)
LEMMA EscrowInit == Init => Escrow!Init
  BY DEF Init, Escrow!Init

LEMMA EscrowIssue ==
  ASSUME IInv, NEW s \in Sig,
         GenerateDepositSignature(s) \/ GenerateWithdrawSignature(s)
  PROVE  Escrow!Issue(s)
<1>0. /\ balance \in [Account -> [Token -> Nat]] /\ Amount \subseteq Nat
      /\ status[s] = "absent"
  BY ConstantsAssumption
  DEF IInv, TypeOK, GenerateDepositSignature, GenerateWithdrawSignature, Covered, NextId
<1>1. usedAt' = usedAt
  BY DEF GenerateDepositSignature, GenerateWithdrawSignature, Covered, chain
<1>2. CASE GenerateDepositSignature(s)
  <2>1. PICK a \in Account, t \in Token, amount \in Amount :
          Insert(s, a, "deposit", t, amount)
    BY <1>2 DEF GenerateDepositSignature
  <2>2. DEFINE d == [account |-> a, kind |-> "deposit", token |-> t,
                     amount |-> amount]
  <2>3. d \in Escrow!Terms /\ Escrow!Hold(d) = 0
    BY DEF Escrow!Terms, Escrow!Hold
  <2>4. terms' = [terms EXCEPT ![s] = d] /\ balance' = balance
        /\ status' = [status EXCEPT ![s] = "pending"]
    BY <1>2, <2>1 DEF GenerateDepositSignature, Insert
  <2>5. balance[a][t] \in Nat
    BY <1>0
  <2>6. balance = [balance EXCEPT ![d.account][d.token] = @ - Escrow!Hold(d)]
    <3>1. balance[a][t] - 0 = balance[a][t]
      BY <2>5
    <3>2. [balance EXCEPT ![a][t] = balance[a][t]] = balance
      BY <1>0
    <3>3. QED
      BY <2>3, <3>1, <3>2
  <2>7. Escrow!Hold(d) <= balance[d.account][d.token]
    BY <2>3, <2>5
  <2>8. QED
    BY <1>0, <1>1, <2>3, <2>4, <2>6, <2>7 DEF Escrow!Issue
<1>3. CASE GenerateWithdrawSignature(s)
  <2>1. PICK a \in Account, t \in Token, amount \in Amount :
          /\ balance[a][t] >= amount
          /\ balance' = [balance EXCEPT ![a][t] = @ - amount]
          /\ Insert(s, a, "withdraw", t, amount)
    BY <1>3 DEF GenerateWithdrawSignature, Covered
  <2>2. DEFINE d == [account |-> a, kind |-> "withdraw", token |-> t,
                     amount |-> amount]
  <2>3. d \in Escrow!Terms /\ Escrow!Hold(d) = amount
    BY DEF Escrow!Terms, Escrow!Hold
  <2>4. terms' = [terms EXCEPT ![s] = d]
        /\ status' = [status EXCEPT ![s] = "pending"]
    BY <2>1 DEF Insert
  <2>5. balance[a][t] \in Nat /\ amount \in Nat
    BY <1>0
  <2>6. /\ Escrow!Hold(d) <= balance[d.account][d.token]
        /\ balance' = [balance EXCEPT ![d.account][d.token] = @ - Escrow!Hold(d)]
    BY <2>1, <2>3, <2>5
  <2>7. QED
    BY <1>0, <1>1, <2>3, <2>4, <2>6 DEF Escrow!Issue
<1>4. QED
  BY <1>2, <1>3

LEMMA EscrowRedeem ==
  ASSUME IInv, MineBlock PROVE Escrow!Redeem
<1> DEFINE redeemed == {s \in Sig : usedAt[s] # 0}
           S == {s \in Sig : usedAt[s] = 0 /\ usedAt'[s] # 0}
<1>0. head \in Nat
  BY ConstantsAssumption DEF IInv, TypeOK, Block
<1>1. S \in SUBSET {s \in Sig : status[s] = "pending"}
  BY ConsumeStep
<1>2. {s \in Sig : usedAt'[s] # 0} = redeemed \cup S
  BY <1>0, ConsumeStep
<1>3. UNCHANGED <<status, terms, balance>>
  BY ConsumeStep DEF table
<1>4. QED
  BY <1>1, <1>2, <1>3 DEF Escrow!Redeem

LEMMA EscrowSettle ==
  ASSUME IInv, NEW s \in Sig, SoundSettlement(s)
  PROVE  Escrow!Settle(s) \/ UNCHANGED Escrow!vars
<1>1. PICK used \in BOOLEAN :
        Settle(s, used) /\ Verdict(s, used) /\ UNCHANGED <<now, chain>>
  BY DEF SoundSettlement
<1>2. used <=> s \in {r \in Sig : usedAt[r] # 0}
  BY <1>1 DEF Verdict
<1>3. Credit(terms[s], used) = Escrow!Credit(terms[s], used)
  BY DEF Credit, Escrow!Credit
<1>4. CASE status[s] = "pending"
  <2>1. used = (s \in {r \in Sig : usedAt[r] # 0})
    BY <1>2
  <2>2. usedAt' = usedAt
    BY <1>1 DEF chain
  <2>3. /\ status' = [status EXCEPT ![s] = IF used THEN "used" ELSE "unused"]
        /\ balance' = [balance EXCEPT ![terms[s].account][terms[s].token] =
                         @ + Escrow!Credit(terms[s], used)]
        /\ terms' = terms
    BY <1>1, <1>3, <1>4 DEF Settle, Record
  <2>4. QED
    BY <1>4, <2>1, <2>2, <2>3 DEF Escrow!Settle
<1>5. CASE status[s] # "pending"
  BY <1>1, <1>5 DEF Settle, Record, table, chain, Escrow!vars
<1>6. QED
  BY <1>4, <1>5

LEMMA EscrowNext == IInv /\ [Next]_vars => [Escrow!Next]_(Escrow!vars)
<1> SUFFICES ASSUME IInv, [Next]_vars PROVE Escrow!Next \/ UNCHANGED Escrow!vars
  OBVIOUS
<1>1. CASE UNCHANGED table /\ UNCHANGED chain
  BY <1>1 DEF table, chain, Escrow!vars
<1>2. CASE MineBlock
  BY <1>2, EscrowRedeem DEF Escrow!Next
<1>3. ASSUME NEW s \in Sig,
             GenerateDepositSignature(s) \/ GenerateWithdrawSignature(s)
      PROVE  Escrow!Next
  BY <1>3, EscrowIssue DEF Escrow!Next
<1>4. ASSUME NEW s \in Sig, SoundSettlement(s)
      PROVE  Escrow!Next \/ UNCHANGED Escrow!vars
  BY <1>4, EscrowSettle DEF Escrow!Next
<1>5. QED
  BY <1>1, <1>2, <1>3, <1>4, TableSteps, ChainUnlessMined

\* The whole flow is an implementation of SignatureEscrow.
THEOREM Refinement == Spec => ImplementsEscrow
<1>1. IInv /\ [Next]_vars => [Escrow!Next]_(Escrow!vars)
  BY EscrowNext
<1>2. Init => Escrow!Init
  BY EscrowInit
<1>3. QED
  BY <1>1, <1>2, Invariance, PTL DEF Spec, ImplementsEscrow, Escrow!Spec
=============================================================================
