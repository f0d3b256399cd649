----------------------- MODULE MiningSignatures_proofs -----------------------
(***************************************************************************)
(* Proofs about MiningSignatures, for any signatures, accounts, miners,    *)
(* offers, overlapping rounds of both kinds, lag and faults.               *)
(***************************************************************************)
EXTENDS MiningSignatures, Sums_proofs

(***************************************************************************)
(* Later blocks do not carry earlier timestamps.                           *)
(***************************************************************************)
LEMMA TimestampMonotone ==
  ASSUME NEW a \in Nat, NEW b \in Nat, a <= b
  PROVE  Timestamp(a) <= Timestamp(b) /\ Timestamp(a) \in Nat
  BY ConstantsAssumption DEF Timestamp

\* What a record may hold is a natural number.
LEMMA HoldsNat == Holds \subseteq Nat
<1>1. Amount \subseteq Nat
  BY ConstantsAssumption
<1>2. \A o \in Offer : o.price \in Nat
  BY ConstantsAssumption
<1>3. ASSUME NEW h \in Holds PROVE h \in Nat
  <2>1. CASE h \in {0} \cup Amount
    BY <1>1, <2>1
  <2>2. CASE \E o \in Offer : h \in 0..o.price
    BY <1>2, <2>2
  <2>3. QED
    BY <2>1, <2>2 DEF Holds
<1>4. QED
  BY <1>3

-----------------------------------------------------------------------------
(***************************************************************************)
(* Type correctness.  That a purchase names a miner goes along: settling   *)
(* it starts that miner.                                                   *)
(***************************************************************************)
MinerInv == \A s \in Sig : IsPurchase(s) => terms[s].miner \in Miner

TypeInv == TypeOK /\ MinerInv

\* What the two requests have in common: they issue the next signature, and a
\* purchase is of a miner that stands still and that no other open one is for.
Request(s) == GenerateWithdrawSignature(s) \/ GeneratePurchaseMinerSignature(s)

LEMMA HoldType ==
  ASSUME TypeOK, NEW a \in Account, NEW method \in Method, NEW o \in Offer
  PROVE  Hold(a, method, o.price) \in Holds
<1>1. o.price \in Nat /\ balance[a]["SPACE"] \in Nat
  BY ConstantsAssumption DEF TypeOK, Token
<1>2. Hold(a, method, o.price) \in 0..o.price
  BY <1>1 DEF Hold
<1>3. QED
  BY <1>2 DEF Holds

LEMMA IssueRequest ==
  ASSUME TypeOK, NEW s \in Sig, Request(s)
  PROVE  \E t \in Terms :
           /\ Issue(s, t)
           /\ t.kind = "purchase" => /\ t.miner \in Miner
                                     /\ Finished(t.account, t.miner)
                                     /\ NonePending(t.account, t.miner)
<1>1. CASE GenerateWithdrawSignature(s)
  <2>1. PICK a \in Account, k \in Token, amount \in Amount :
          Issue(s, [kind |-> "withdraw", account |-> a, token |-> k, hold |-> amount,
                    miner |-> "none", method |-> "none", reward |-> 0])
    BY <1>1 DEF GenerateWithdrawSignature
  <2>2. [kind |-> "withdraw", account |-> a, token |-> k, hold |-> amount,
         miner |-> "none", method |-> "none", reward |-> 0] \in Terms
    BY DEF Terms, Holds
  <2>3. QED
    BY <2>1, <2>2
<1>2. CASE GeneratePurchaseMinerSignature(s)
  <2>1. PICK a \in Account, m \in Miner, method \in Method, o \in Offer :
          /\ Finished(a, m) /\ NonePending(a, m)
          /\ Issue(s, [kind |-> "purchase", account |-> a, token |-> "SPACE",
                       hold |-> Hold(a, method, o.price),
                       miner |-> m, method |-> method, reward |-> o.reward])
    BY <1>2 DEF GeneratePurchaseMinerSignature
  <2>2. o.reward \in Nat /\ Hold(a, method, o.price) \in Holds
    BY HoldType, ConstantsAssumption
  <2>3. [kind |-> "purchase", account |-> a, token |-> "SPACE",
         hold |-> Hold(a, method, o.price),
         miner |-> m, method |-> method, reward |-> o.reward] \in Terms
    BY <2>2 DEF Terms, Token
  <2>4. QED
    BY <2>1, <2>3
<1>3. QED
  BY <1>1, <1>2 DEF Request

\* An issue adds one row, which did not exist.
LEMMA IssueType ==
  ASSUME TypeInv, NEW s \in Sig, NEW t \in Terms, Issue(s, t),
         t.kind = "purchase" => t.miner \in Miner
  PROVE  TypeInv'
<1> USE DEF TypeInv, TypeOK
<1>1. /\ t.hold \in Nat /\ t.account \in Account /\ t.token \in Token
  BY HoldsNat DEF Terms
<1>2. now + TTL \in Nat
  BY ConstantsAssumption
<1>3. balance[t.account][t.token] - t.hold \in Nat
  <2>1. balance[t.account][t.token] \in Nat
    BY <1>1
  <2>2. QED
    BY <1>1, <2>1 DEF Issue, Affordable
<1>4. balance' \in [Account -> [Token -> Nat]]
  BY <1>1, <1>3 DEF Issue
<1>5. entries' \in [Sig -> [{"hold", "refund"} -> Nat]]
  BY DEF Issue
<1>6. /\ status' \in [Sig -> Status] /\ deadline' \in [Sig -> Nat]
      /\ DOMAIN terms' = Sig
  BY <1>2 DEF Issue, Status
<1>7. \A r \in Sig : IF Issued(r)' THEN terms'[r] \in Terms ELSE terms'[r] = NoTerms
  BY DEF Issue, Issued
<1>8. MinerInv'
  BY DEF Issue, MinerInv, IsPurchase, Issued
<1>9. QED
  BY <1>4, <1>5, <1>6, <1>7, <1>8 DEF Issue, chain, MinerType, JobType

\* A settlement changes the row of one pending signature, gives back at most
\* what it held and starts at most its own miner.
LEMMA SettleType ==
  ASSUME TypeInv, NEW s \in Sig, NEW used \in BOOLEAN, Settle(s, used)
  PROVE  /\ status' \in [Sig -> Status]
         /\ terms' = terms /\ deadline' = deadline
         /\ balance' \in [Account -> [Token -> Nat]]
         /\ entries' \in [Sig -> [{"hold", "refund"} -> Nat]]
         /\ miner' \in MinerType
         /\ \A r \in Sig : Issued(r)' <=> Issued(r)
<1> USE DEF TypeInv, TypeOK
<1>1. CASE status[s] = "pending" /\ ~Rejected(s, used)
  <2> DEFINE t == terms[s]
             refund == IF used THEN 0 ELSE t.hold
  <2>1. t \in Terms /\ Issued(s)
    BY <1>1 DEF Issued
  <2>2. /\ t.account \in Account /\ t.token \in Token /\ refund \in Nat
        /\ t.reward \in Nat
    BY <2>1, HoldsNat DEF Terms
  <2>3. /\ status' = [status EXCEPT ![s] = IF used THEN "used" ELSE "unused"]
        /\ balance' = [balance EXCEPT ![t.account][t.token] = @ + refund]
        /\ entries' = [entries EXCEPT ![s]["refund"] = IF refund = 0 THEN @ ELSE @ + 1]
        /\ IF used /\ t.kind = "purchase" THEN StartMiner(t) ELSE UNCHANGED miner
        /\ terms' = terms /\ deadline' = deadline
    BY <1>1 DEF Settle, Record
  <2> HIDE DEF t, refund
  <2>4. balance' \in [Account -> [Token -> Nat]]
    BY <2>2, <2>3
  <2>5. entries' \in [Sig -> [{"hold", "refund"} -> Nat]]
    BY <2>3
  <2>6. miner' \in MinerType
    <3>1. CASE used /\ t.kind = "purchase"
      <4>1. t.miner \in Miner
        BY <2>1, <3>1 DEF MinerInv, IsPurchase, t
      <4>2. PICK r \in [produced : Nat, expected : Nat] : r = miner[t.account][t.miner]
        BY <2>2, <4>1 DEF MinerType
      <4>3. [r EXCEPT !.expected = r.expected + t.reward]
              \in [produced : Nat, expected : Nat]
        BY <2>2
      <4>4. miner' = [miner EXCEPT ![t.account][t.miner] =
                        [r EXCEPT !.expected = r.expected + t.reward]]
        BY <2>2, <2>3, <3>1, <4>1, <4>2 DEF StartMiner, MinerType
      <4>5. QED
        BY <2>2, <4>1, <4>3, <4>4 DEF MinerType
    <3>2. QED
      BY <2>3, <3>1
  <2>7. QED
    BY <1>1, <2>3, <2>4, <2>5, <2>6 DEF Status, Issued
<1>2. CASE ~(status[s] = "pending" /\ ~Rejected(s, used))
  BY <1>2 DEF Settle, table, Issued
<1>3. QED
  BY <1>1, <1>2

LEMMA IdleType == Idle \in WorkerState
  BY DEF WorkerState

LEMMA NoRoundType == NoRound \in RoundState
  BY ConstantsAssumption DEF NoRound, RoundState, Block

\* A round with records left, and a round that goes on without one, is a round.
LEMMA AtWorkType ==
  ASSUME NEW T \in SUBSET Sig, NEW b \in Block
  PROVE  AtWork(T, b) \in RoundState
  BY NoRoundType DEF AtWork, RoundState

LEMMA RestType ==
  ASSUME NEW r \in RoundState, NEW s \in Sig
  PROVE  Rest(r, s) \in RoundState
<1>1. r.todo \ {s} \in SUBSET Sig /\ r.snap \in Block
  BY DEF RoundState
<1>2. QED
  BY <1>1, AtWorkType DEF Rest

LEMMA TypeInit == Init => TypeInv
  BY ConstantsAssumption
  DEF Init, TypeInv, TypeOK, MinerInv, IsPurchase, Issued, Block, Status, Token,
      MinerType, RoundState, NoRound, Idle, WorkerState, JobType

LEMMA TypeNext == TypeInv /\ [Next]_vars => TypeInv'
<1> SUFFICES ASSUME TypeInv, [Next]_vars PROVE TypeInv'
  OBVIOUS
<1>a. ASSUME NEW s \in Sig, NEW used \in BOOLEAN, Settle(s, used)
      PROVE  /\ status' \in [Sig -> Status] /\ terms' = terms /\ deadline' = deadline
             /\ balance' \in [Account -> [Token -> Nat]]
             /\ entries' \in [Sig -> [{"hold", "refund"} -> Nat]]
             /\ miner' \in MinerType
             /\ \A r \in Sig : Issued(r)' <=> Issued(r)
  BY <1>a, SettleType
<1> USE ConstantsAssumption DEF TypeInv, TypeOK, JobType
<1>0. UNCHANGED table =>
        /\ MinerInv'
        /\ \A s \in Sig : IF Issued(s)' THEN terms'[s] \in Terms ELSE terms'[s] = NoTerms
        /\ DOMAIN terms' = Sig /\ status' \in [Sig -> Status]
        /\ deadline' \in [Sig -> Nat] /\ balance' \in [Account -> [Token -> Nat]]
        /\ entries' \in [Sig -> [{"hold", "refund"} -> Nat]] /\ miner' \in MinerType
  BY DEF table, MinerInv, IsPurchase, Issued
<1>1. CASE Tick
  BY <1>0, <1>1 DEF Tick, chain
<1>2. CASE MineBlock
  BY <1>0, <1>2 DEF MineBlock, Block
<1>3. CASE Crash
  <2>1. job' \in JobType /\ round' \in [Round -> RoundState] /\ worker' \in WorkerState
    BY <1>3, IdleType, NoRoundType DEF Crash
  <2>2. faults' \in 0..MaxFaults
    BY <1>3 DEF Crash
  <2>3. QED
    BY <1>0, <1>3, <2>1, <2>2 DEF Crash, chain
<1>4. ASSUME NEW s \in Sig, Request(s) PROVE TypeInv'
  BY <1>4, IssueRequest, IssueType
<1>5. ASSUME NEW a \in Account, NEW m \in Miner, Produce(a, m) PROVE TypeInv'
  <2>1. PICK r \in [produced : Nat, expected : Nat] : r = miner[a][m]
    BY DEF MinerType
  <2>2. [r EXCEPT !.produced = r.produced + 1] \in [produced : Nat, expected : Nat]
    OBVIOUS
  <2>3. miner' = [miner EXCEPT ![a][m] = [r EXCEPT !.produced = r.produced + 1]]
    BY <1>5, <2>1 DEF Produce, MinerType
  <2>4. miner' \in MinerType
    BY <2>2, <2>3 DEF MinerType
  <2>5. QED
    BY <1>5, <2>4 DEF Produce, chain, MinerInv, IsPurchase, Issued
<1>6. ASSUME NEW s \in Sig, SubmitNonce(s) PROVE TypeInv'
  BY <1>0, <1>6 DEF SubmitNonce, chain
<1>7. ASSUME NEW s \in Sig, JobStart(s) PROVE TypeInv'
  <2>1. [pc |-> "read", sig |-> s] \in WorkerState
    BY DEF WorkerState
  <2>2. worker' \in WorkerState /\ job' \in JobType
    BY <1>7, <2>1 DEF JobStart
  <2>3. QED
    BY <1>0, <1>7, <2>2 DEF JobStart, chain
<1>8. CASE JobRead
  <2>1. /\ [worker EXCEPT !.pc = "settle"] \in WorkerState
        /\ [worker EXCEPT !.pc = "reread"] \in WorkerState
    BY <1>8 DEF JobRead, WorkerState, Idle
  <2>2. worker' \in WorkerState /\ job' \in JobType
    BY <1>8, <2>1, IdleType DEF JobRead
  <2>3. QED
    BY <1>0, <1>8, <2>2 DEF JobRead, chain
<1>9. ASSUME NEW s \in Sig, NEW used \in BOOLEAN, Settle(s, used),
             UNCHANGED <<now, chain, faults>>,
             worker' \in WorkerState, job' \in JobType,
             round' \in [Round -> RoundState]
      PROVE  TypeInv'
  <2>1. /\ status' \in [Sig -> Status] /\ terms' = terms /\ deadline' = deadline
        /\ balance' \in [Account -> [Token -> Nat]]
        /\ entries' \in [Sig -> [{"hold", "refund"} -> Nat]]
        /\ miner' \in MinerType
        /\ \A r \in Sig : Issued(r)' <=> Issued(r)
    BY <1>9, <1>a
  <2>2. MinerInv'
    BY <2>1 DEF MinerInv, IsPurchase
  <2>3. /\ \A r \in Sig : IF Issued(r)' THEN terms'[r] \in Terms ELSE terms'[r] = NoTerms
        /\ DOMAIN terms' = Sig
    BY <2>1
  <2>4. now' = now /\ chain' = chain /\ faults' = faults
    BY <1>9
  <2>5. QED
    BY <1>9, <2>1, <2>2, <2>3, <2>4 DEF chain
<1>10. CASE JobSettle
  <2>1. worker.sig \in Sig
    BY <1>10 DEF JobSettle, Idle, WorkerState
  <2>2. worker' \in WorkerState /\ job' \in JobType
    BY <1>10, IdleType DEF JobSettle
  <2>3. QED
    BY <1>9, <1>10, <2>1, <2>2 DEF JobSettle
<1>11. CASE JobFail
  <2>1. worker' \in WorkerState /\ job' \in JobType
    BY <1>11, IdleType DEF JobFail
  <2>2. QED
    BY <1>0, <1>11, <2>1 DEF JobFail, chain
<1>12. ASSUME NEW s \in Sig, JobRemove(s) PROVE TypeInv'
  BY <1>0, <1>12 DEF JobRemove, chain
<1>13. ASSUME NEW c \in Round, RoundList(c) PROVE TypeInv'
  <2>1. [NoRound EXCEPT !.pc = "read", !.todo = Listed(c)] \in RoundState
    <3>1. Listed(c) \in SUBSET Sig
      BY DEF Listed
    <3>2. QED
      BY <3>1, NoRoundType DEF RoundState
  <2>2. round' \in [Round -> RoundState]
    BY <1>13, <2>1 DEF RoundList
  <2>3. QED
    BY <1>0, <1>13, <2>2 DEF RoundList, chain
<1>14. ASSUME NEW c \in Round, RoundRead(c) PROVE TypeInv'
  <2>1. PICK b \in Latest :
          round' = [round EXCEPT ![c] = AtWork({s \in round[c].todo : ~Skipped(s, b)}, b)]
    BY <1>14 DEF RoundRead
  <2>2. {s \in round[c].todo : ~Skipped(s, b)} \in SUBSET Sig /\ b \in Block
    BY <2>1 DEF Latest, RoundState
  <2>3. round' \in [Round -> RoundState]
    BY <2>1, <2>2, AtWorkType
  <2>4. QED
    BY <1>0, <1>14, <2>3 DEF RoundRead, chain
<1>15. ASSUME NEW c \in Round, NEW s \in Sig, round' = [round EXCEPT ![c] = Rest(@, s)]
       PROVE  round' \in [Round -> RoundState]
  BY <1>15, RestType
<1>16. ASSUME NEW c \in Round, NEW s \in Sig, RoundSettle(c, s) PROVE TypeInv'
  <2>1. UsedBy(s, round[c].snap) \in BOOLEAN
    BY DEF UsedBy
  <2>2. QED
    BY <1>9, <1>15, <1>16, <2>1 DEF RoundSettle
<1>17. ASSUME NEW c \in Round, NEW s \in Sig, RoundSkip(c, s) PROVE TypeInv'
  <2>1. round' \in [Round -> RoundState] /\ faults' \in 0..MaxFaults
    <3>1. round' = [round EXCEPT ![c] = Rest(@, s)]
      BY <1>17 DEF RoundSkip
    <3>2. round' \in [Round -> RoundState]
      BY <1>15, <3>1
    <3>3. faults' = faults + 1 /\ faults < MaxFaults
      BY <1>17 DEF RoundSkip
    <3>4. faults' \in 0..MaxFaults
      BY <3>3
    <3>5. QED
      BY <3>2, <3>4
  <2>2. UNCHANGED <<now, chain, table, job, worker>>
    BY <1>17 DEF RoundSkip
  <2>3. QED
    BY <1>0, <2>1, <2>2 DEF chain
<1>18. ASSUME NEW c \in Round, RoundFail(c) PROVE TypeInv'
  BY <1>0, <1>18, NoRoundType DEF RoundFail, chain
<1>19. CASE UNCHANGED vars
  BY <1>0, <1>19 DEF vars, chain
<1>20. QED
  BY <1>1, <1>2, <1>3, <1>4, <1>5, <1>6, <1>7, <1>8, <1>10, <1>11, <1>12,
     <1>13, <1>14, <1>16, <1>17, <1>18, <1>19
  DEF Next, Api, JobStep, RoundStep, Fault, Terminated, Request

\* Every variable keeps its type; no balance is negative.
THEOREM TypeCorrect == Spec => []TypeOK
<1>1. Spec => []TypeInv
  BY TypeInit, TypeNext, PTL DEF Spec
<1>2. TypeInv => TypeOK
  BY DEF TypeInv
<1>3. QED
  BY <1>1, <1>2, PTL
-----------------------------------------------------------------------------
(***************************************************************************)
(* What no step takes back: blocks, consumed nonces, time, and the rows of *)
(* issued signatures.  A job or a round that remembers one of these can be *)
(* suspended for as long as it likes.                                      *)
(***************************************************************************)
Kept ==
  /\ head <= head' /\ now <= now'
  /\ \A s \in Sig : usedAt[s] # 0 => usedAt'[s] = usedAt[s]
  /\ \A s \in Sig : usedAt'[s] = usedAt[s] \/ head < usedAt'[s]
  /\ \A s \in Sig : Issued(s) =>
       Issued(s)' /\ deadline'[s] = deadline[s] /\ terms'[s] = terms[s]

LEMMA StepKeeps == TypeInv /\ [Next]_vars => Kept
<1> SUFFICES ASSUME TypeInv, [Next]_vars PROVE Kept
  OBVIOUS
<1> USE DEF TypeInv, TypeOK
<1>0. head \in Nat /\ now \in Nat
  BY ConstantsAssumption DEF Block
<1>1. UNCHANGED <<now, chain, status, terms, deadline>> => Kept
  BY <1>0 DEF chain, Kept, Issued
<1>2. CASE Tick
  BY <1>0, <1>2 DEF Tick, chain, table, Kept, Issued
<1>3. CASE MineBlock
  <2>1. PICK S \in SUBSET {s \in Sig : Redeemable(s, head + 1)} :
          usedAt' = [s \in Sig |-> IF s \in S THEN head + 1 ELSE usedAt[s]]
    BY <1>3 DEF MineBlock
  <2>2. \A s \in S : usedAt[s] = 0
    BY DEF Redeemable
  <2>3. UNCHANGED <<now, status, terms, deadline>> /\ head' = head + 1
    BY <1>3 DEF MineBlock, table
  <2>4. QED
    BY <1>0, <2>1, <2>2, <2>3 DEF Kept, Issued
<1>4. ASSUME NEW s \in Sig, Request(s) PROVE Kept
  <2>1. PICK t \in Terms : Issue(s, t)
    BY <1>4, IssueRequest
  <2>2. QED
    BY <1>0, <2>1 DEF Issue, NextId, chain, Kept, Issued
<1>5. ASSUME NEW s \in Sig, NEW used \in BOOLEAN, Settle(s, used),
             UNCHANGED <<now, chain>>
      PROVE  Kept
  BY <1>0, <1>5, SettleType DEF chain, Kept
<1>6. CASE JobSettle
  <2>1. worker.sig \in Sig
    BY <1>6 DEF JobSettle, WorkerState, Idle
  <2>2. QED
    BY <1>5, <1>6, <2>1 DEF JobSettle, chain
<1>7. ASSUME NEW c \in Round, NEW s \in Sig, RoundSettle(c, s) PROVE Kept
  <2>1. UsedBy(s, round[c].snap) \in BOOLEAN
    BY DEF UsedBy
  <2>2. QED
    BY <1>5, <1>7, <2>1 DEF RoundSettle, chain
<1>8. QED
  BY <1>1, <1>2, <1>3, <1>4, <1>6, <1>7
  DEF Next, Api, JobStep, RoundStep, Fault, Terminated, Request, vars, table, Crash,
      Produce, SubmitNonce, JobStart, JobRead, JobFail, JobRemove, RoundList,
      RoundRead, RoundSkip, RoundFail
-----------------------------------------------------------------------------
(***************************************************************************)
(* The heart of the argument: every settlement, by the job or by a round   *)
(* however old the block it read, carries a verdict that is true now and   *)
(* stays true.  An unused verdict was read at a block past the deadline; a *)
(* later consumption would sit in a later block with an earlier timestamp. *)
(***************************************************************************)
Inv == IInv /\ MinerInv

Verdict(s, used) ==
  IF used THEN usedAt[s] # 0
  ELSE usedAt[s] = 0 /\ Timestamp(head) > deadline[s]

SoundSettlement(s) ==
  \E used \in BOOLEAN :
    Settle(s, used) /\ Verdict(s, used) /\ UNCHANGED <<now, chain>>

LEMMA JobVerdict ==
  ASSUME Inv, JobSettle
  PROVE  worker.sig \in Sig /\ SoundSettlement(worker.sig)
<1>1. worker.sig \in Sig
  BY DEF Inv, IInv, TypeOK, JobSettle, WorkerState, Idle
<1>2. Verdict(worker.sig, TRUE)
  BY DEF Inv, IInv, WorkerInv, JobSettle, Verdict
<1>3. QED
  BY <1>1, <1>2 DEF JobSettle, SoundSettlement

LEMMA RoundVerdict ==
  ASSUME Inv, NEW c \in Round, NEW s \in Sig, RoundSettle(c, s)
  PROVE  SoundSettlement(s)
<1> DEFINE b == round[c].snap
<1>1. /\ b \in Nat /\ head \in Nat /\ b <= head
      /\ usedAt[s] \in Nat /\ deadline[s] \in Nat
      /\ UsedBy(s, b) \in BOOLEAN
  BY ConstantsAssumption
  DEF Inv, IInv, TypeOK, RoundInv, RoundState, Block, UsedBy
<1>2. ~Skipped(s, b)
  BY DEF Inv, IInv, RoundInv, RoundSettle, First
<1>3. CASE UsedBy(s, b)
  <2>1. UsedBy(s, b) = TRUE /\ Verdict(s, TRUE)
    BY <1>1, <1>3 DEF UsedBy, Verdict
  <2>2. QED
    BY <2>1 DEF RoundSettle, SoundSettlement
<1>4. CASE ~UsedBy(s, b)
  <2>0. Timestamp(b) \in Nat /\ Timestamp(head) \in Nat /\ Timestamp(b) <= Timestamp(head)
    BY <1>1, TimestampMonotone
  <2>1. Timestamp(b) > deadline[s]
    BY <1>1, <1>2, <1>4, <2>0 DEF Skipped, StillUsable
  <2>2. Timestamp(head) > deadline[s]
    BY <1>1, <2>0, <2>1
  <2>3. usedAt[s] = 0
    <3>1. SUFFICES ASSUME usedAt[s] # 0 PROVE FALSE
      OBVIOUS
    <3>2. b <= usedAt[s]
      BY <1>1, <1>4, <3>1 DEF UsedBy
    <3>3. Timestamp(b) <= Timestamp(usedAt[s]) /\ Timestamp(usedAt[s]) \in Nat
      BY <1>1, <3>2, TimestampMonotone
    <3>4. Timestamp(usedAt[s]) <= deadline[s]
      BY <3>1 DEF Inv, IInv, ChainInv
    <3>5. QED
      BY <1>1, <2>0, <2>1, <3>3, <3>4
  <2>4. Verdict(s, FALSE)
    BY <2>2, <2>3 DEF Verdict
  <2>5. UsedBy(s, b) = FALSE
    BY <1>1, <1>4
  <2>6. QED
    BY <2>4, <2>5 DEF RoundSettle, SoundSettlement
<1>5. QED
  BY <1>3, <1>4

\* What a step may do to the tables.
LEMMA TableSteps ==
  ASSUME Inv, [Next]_vars
  PROVE  \/ UNCHANGED table
         \/ \E a \in Account, m \in Miner : Produce(a, m)
         \/ \E s \in Sig : Request(s) \/ SoundSettlement(s)
  BY JobVerdict, RoundVerdict
  DEF Next, Api, JobStep, RoundStep, Fault, Terminated, Request, vars, Tick, MineBlock,
      Crash, SubmitNonce, JobStart, JobRead, JobFail, JobRemove, RoundList,
      RoundRead, RoundSkip, RoundFail

\* What no request touches.
LEMMA RequestKeeps ==
  ASSUME TypeOK, NEW s \in Sig, Request(s)
  PROVE  UNCHANGED <<now, chain, miner, job, worker, round, faults>>
<1>1. PICK t \in Terms : Issue(s, t)
  BY IssueRequest
<1>2. QED
  BY <1>1 DEF Issue

LEMMA ChainUnlessMined ==
  ASSUME TypeOK, [Next]_vars PROVE MineBlock \/ UNCHANGED chain
<1>1. ASSUME NEW s \in Sig, Request(s) PROVE UNCHANGED chain
  BY <1>1, RequestKeeps
<1>2. QED
  BY <1>1 DEF Next, Api, JobStep, RoundStep, Fault, Terminated, Request, vars, chain,
         Tick, Crash, Produce, SubmitNonce, JobStart, JobRead, JobSettle, JobFail,
         JobRemove, RoundList, RoundRead, RoundSettle, RoundSkip, RoundFail
-----------------------------------------------------------------------------
(***************************************************************************)
(* The conjuncts of the inductive invariant, one by one.                   *)
(***************************************************************************)

\* An issue adds one pending signature whose nonce is not consumed.
LEMMA IssueStep ==
  ASSUME Inv, NEW s \in Sig, NEW t \in Terms, Issue(s, t)
  PROVE  /\ status[s] = "absent" /\ usedAt[s] = 0
         /\ status' = [status EXCEPT ![s] = "pending"]
         /\ deadline' = [deadline EXCEPT ![s] = now + TTL]
         /\ terms' = [terms EXCEPT ![s] = t]
         /\ UNCHANGED <<now, chain, miner, job, worker, round>>
  BY DEF Issue, NextId, Inv, IInv, ChainInv, Issued

\* A consumption happens in the next block, in time for its deadline.
LEMMA ConsumeStep ==
  ASSUME Inv, MineBlock
  PROVE  /\ head' = head + 1 /\ UNCHANGED <<table, now>>
         /\ \A s \in Sig :
              \/ usedAt'[s] = usedAt[s]
              \/ /\ usedAt[s] = 0 /\ usedAt'[s] = head + 1
                 /\ status[s] = "pending"
                 /\ Timestamp(head + 1) <= deadline[s]
<1>1. head \in Nat
  BY ConstantsAssumption DEF Inv, IInv, TypeOK, Block
<1>2. Timestamp(head) <= Timestamp(head + 1)
      /\ Timestamp(head) \in Nat /\ Timestamp(head + 1) \in Nat
  BY <1>1, TimestampMonotone
<1>3. \A s \in Sig : Redeemable(s, head + 1) =>
        usedAt[s] = 0 /\ status[s] = "pending" /\ Timestamp(head + 1) <= deadline[s]
  <2>1. ASSUME NEW s \in Sig, Redeemable(s, head + 1), status[s] # "pending"
        PROVE  FALSE
    <3>1. status[s] \in {"used", "unused"} /\ deadline[s] \in Nat
      BY <2>1 DEF Inv, IInv, TypeOK, Status, Redeemable, Issued
    <3>2. QED
      BY <1>2, <2>1, <3>1 DEF Inv, IInv, SettlementMatchesChain, Redeemable
  <2>2. QED
    BY <2>1 DEF Redeemable
<1>4. QED
  BY <1>1, <1>3 DEF MineBlock, Inv, IInv, TypeOK

LEMMA SettleKeeps ==
  ASSUME Inv, NEW s \in Sig, SoundSettlement(s)
  PROVE  /\ UNCHANGED <<now, chain, terms, deadline>>
         /\ \A r \in Sig : Issued(r)' <=> Issued(r)
         /\ \A r \in Sig :
              \/ status'[r] = status[r]
              \/ status[r] = "pending" /\ status'[r] = "used" /\ Verdict(r, TRUE)
              \/ status[r] = "pending" /\ status'[r] = "unused" /\ Verdict(r, FALSE)
<1>1. PICK used \in BOOLEAN :
        Settle(s, used) /\ Verdict(s, used) /\ UNCHANGED <<now, chain>>
  BY DEF SoundSettlement
<1>2. TypeInv
  BY DEF Inv, IInv, TypeInv
<1>3. /\ UNCHANGED <<terms, deadline>>
      /\ \A r \in Sig : Issued(r)' <=> Issued(r)
  BY <1>1, <1>2, SettleType
<1>4. CASE status[s] = "pending" /\ ~Rejected(s, used)
  <2>1. status' = [status EXCEPT ![s] = IF used THEN "used" ELSE "unused"]
    BY <1>1, <1>4 DEF Settle, Record
  <2>2. \A r \in Sig : r # s => status'[r] = status[r]
    BY <1>2, <2>1 DEF TypeInv, TypeOK
  <2>3. status'[s] = IF used THEN "used" ELSE "unused"
    BY <1>2, <2>1 DEF TypeInv, TypeOK
  <2>4. QED
    BY <1>1, <1>3, <1>4, <2>2, <2>3
<1>5. CASE ~(status[s] = "pending" /\ ~Rejected(s, used))
  BY <1>1, <1>3, <1>5 DEF Settle, table
<1>6. QED
  BY <1>4, <1>5

LEMMA ChainInvNext ==
  ASSUME Inv, [Next]_vars PROVE ChainInv'
<1>0. /\ head \in Nat /\ deadline \in [Sig -> Nat] /\ usedAt \in [Sig -> Block]
      /\ status \in [Sig -> Status] /\ TypeInv
  BY ConstantsAssumption DEF Inv, IInv, TypeInv, TypeOK, Block
<1>1. CASE UNCHANGED <<status, deadline>> /\ UNCHANGED chain
  BY <1>1 DEF Inv, IInv, ChainInv, chain, Issued, Timestamp
<1>2. CASE MineBlock
  <2>1. \A s \in Sig : usedAt[s] <= head /\ usedAt[s] \in Nat
    BY <1>0, ConstantsAssumption DEF Inv, IInv, ChainInv, Block
  <2>2. QED
    BY <1>0, <1>2, <2>1, ConsumeStep DEF Inv, IInv, ChainInv, table, Timestamp, Issued
<1>3. ASSUME NEW s \in Sig, Request(s) PROVE ChainInv'
  <2>1. PICK t \in Terms : Issue(s, t)
    BY <1>0, <1>3, IssueRequest DEF TypeInv
  <2>2. QED
    BY <1>0, <2>1, IssueStep DEF Inv, IInv, ChainInv, chain, Timestamp, Issued
<1>4. ASSUME NEW s \in Sig, SoundSettlement(s) PROVE ChainInv'
  BY <1>0, <1>4, SettleKeeps DEF Inv, IInv, ChainInv, chain, Timestamp
<1>5. QED
  BY <1>1, <1>2, <1>3, <1>4, TableSteps, ChainUnlessMined DEF table, Produce, Inv, IInv

LEMMA MatchNext ==
  ASSUME Inv, [Next]_vars PROVE SettlementMatchesChain'
<1>0. /\ head \in Nat /\ deadline \in [Sig -> Nat] /\ usedAt \in [Sig -> Block]
      /\ status \in [Sig -> Status] /\ TypeInv
  BY ConstantsAssumption DEF Inv, IInv, TypeInv, TypeOK, Block
<1>1. CASE UNCHANGED <<status, deadline>> /\ UNCHANGED chain
  BY <1>1 DEF Inv, IInv, SettlementMatchesChain, chain, Timestamp
<1>2. CASE MineBlock
  <2>1. /\ Timestamp(head) <= Timestamp(head + 1)
        /\ Timestamp(head) \in Nat /\ Timestamp(head + 1) \in Nat
    BY <1>0, TimestampMonotone
  <2>2. Timestamp(head)' = Timestamp(head + 1)
    BY <1>2, ConsumeStep DEF Timestamp
  <2>3. \A s \in Sig : deadline[s] \in Nat
    BY <1>0
  <2>4. QED
    BY <1>0, <1>2, <2>1, <2>2, <2>3, ConsumeStep
    DEF Inv, IInv, SettlementMatchesChain, table
<1>3. ASSUME NEW s \in Sig, Request(s) PROVE SettlementMatchesChain'
  <2>1. PICK t \in Terms : Issue(s, t)
    BY <1>0, <1>3, IssueRequest DEF TypeInv
  <2>2. QED
    BY <1>0, <2>1, IssueStep DEF Inv, IInv, SettlementMatchesChain, chain, Timestamp
<1>4. ASSUME NEW s \in Sig, SoundSettlement(s) PROVE SettlementMatchesChain'
  BY <1>0, <1>4, SettleKeeps
  DEF Inv, IInv, SettlementMatchesChain, Verdict, chain, Timestamp
<1>5. QED
  BY <1>1, <1>2, <1>3, <1>4, TableSteps, ChainUnlessMined DEF table, Produce, Inv, IInv

LEMMA WorkerInvNext ==
  ASSUME Inv, [Next]_vars PROVE WorkerInv'
<1>0. Kept
  BY StepKeeps DEF Inv, IInv, TypeInv
<1>1. /\ worker \in WorkerState /\ usedAt \in [Sig -> Block]
      /\ \A b \in Block : b \in Nat
  BY ConstantsAssumption DEF Inv, IInv, TypeOK, Block
<1>2. CASE worker' = worker
  BY <1>0, <1>1, <1>2 DEF WorkerInv, WorkerState, Inv, IInv, Idle, Kept
<1>3. CASE worker' = Idle
  BY <1>3 DEF WorkerInv, Idle
<1>4. ASSUME NEW s \in Sig, JobStart(s) PROVE WorkerInv'
  BY <1>2, <1>4 DEF JobStart, WorkerInv, table, Issued
<1>5. CASE JobRead
  <2>1. worker.sig \in Sig /\ worker \in [pc : {"read", "reread", "settle"}, sig : Sig]
    BY <1>1, <1>5 DEF JobRead, WorkerState, Idle
  <2>2. CASE worker' = [worker EXCEPT !.pc = "reread"]
    BY <1>5, <2>1, <2>2 DEF JobRead, WorkerInv, Inv, IInv, table, Issued
  <2>3. CASE \E b \in Latest : UsedBy(worker.sig, b)
                              /\ worker' = [worker EXCEPT !.pc = "settle"]
    BY <1>5, <2>1, <2>3 DEF JobRead, WorkerInv, Inv, IInv, table, chain, UsedBy, Issued
  <2>4. QED
    BY <1>3, <1>5, <2>2, <2>3 DEF JobRead
<1>6. CASE \E s \in Sig : Request(s)
  <2>1. worker' = worker
    BY <1>6, RequestKeeps DEF Inv, IInv
  <2>2. QED
    BY <1>2, <2>1
<1>7. QED
  BY <1>2, <1>3, <1>4, <1>5, <1>6
  DEF Next, Api, JobStep, RoundStep, Fault, Terminated, Request, vars, Tick, MineBlock,
      Crash, Produce, SubmitNonce, JobSettle, JobFail, JobRemove, RoundList, RoundRead,
      RoundSettle, RoundSkip, RoundFail

-----------------------------------------------------------------------------
(***************************************************************************)
(* Rounds.  What the invariant asks of one round, and that a round that    *)
(* sleeps through the steps of others keeps it.                            *)
(***************************************************************************)
Sound(r) ==
  /\ r.snap <= head
  /\ \A s \in r.todo :
       /\ Issued(s)
       /\ deadline[s] <= now - Grace
       /\ r.pc = "settle" => ~Skipped(s, r.snap)

LEMMA SleepingRound ==
  ASSUME TypeInv, TypeInv', Kept, NEW r \in RoundState, Sound(r)
  PROVE  Sound(r)'
<1>1. /\ r.snap \in Nat /\ r.todo \in SUBSET Sig
      /\ head \in Nat /\ now \in Nat /\ Grace \in Nat /\ head' \in Nat /\ now' \in Nat
      /\ deadline \in [Sig -> Nat] /\ usedAt \in [Sig -> Nat]
      /\ usedAt' \in [Sig -> Nat]
  BY ConstantsAssumption DEF RoundState, TypeInv, TypeOK, Block
<1>2. r.snap <= head'
  BY <1>1 DEF Kept, Sound
<1>3. \A s \in r.todo : Issued(s)' /\ deadline'[s] = deadline[s]
  BY <1>1 DEF Kept, Sound
<1>4. \A s \in r.todo : deadline'[s] <= now' - Grace
  <2>1. \A s \in r.todo : deadline[s] \in Nat /\ deadline[s] <= now - Grace
    BY <1>1 DEF Sound
  <2>2. now <= now'
    BY DEF Kept
  <2>3. QED
    BY <1>1, <1>3, <2>1, <2>2
<1>5. \A s \in Sig : UsedBy(s, r.snap)' <=> UsedBy(s, r.snap)
  BY <1>1 DEF UsedBy, Kept, Sound
<1>6. \A s \in r.todo : Skipped(s, r.snap)' => Skipped(s, r.snap)
  BY <1>1, <1>3, <1>5 DEF Skipped, StillUsable, Timestamp
<1>7. QED
  BY <1>2, <1>3, <1>4, <1>6 DEF Sound

\* A fresh round, and a round without one of its records, are sound when the
\* round they come from is.
LEMMA NoRoundSound == ASSUME head \in Nat PROVE Sound(NoRound)
  BY DEF Sound, NoRound

LEMMA RestSound ==
  ASSUME NEW r \in RoundState, NEW s \in Sig, Sound(r), head \in Nat, r.pc = "settle"
  PROVE  Sound(Rest(r, s))
<1>1. CASE r.todo \ {s} = {}
  BY <1>1, NoRoundSound DEF Rest, AtWork
<1>2. CASE r.todo \ {s} # {}
  <2>1. Rest(r, s) = [pc |-> "settle", todo |-> r.todo \ {s}, snap |-> r.snap]
    BY <1>2 DEF Rest, AtWork
  <2>2. QED
    BY <2>1 DEF Sound
<1>3. QED
  BY <1>1, <1>2

LEMMA RoundStepSound ==
  ASSUME Inv, NEW c \in Round,
         \/ RoundList(c) \/ RoundRead(c)
         \/ \E s \in Sig : RoundSettle(c, s) \/ RoundSkip(c, s)
  PROVE  \E r \in RoundState : round' = [round EXCEPT ![c] = r] /\ Sound(r)
<1>0. /\ head \in Nat /\ now \in Nat /\ round[c] \in RoundState
      /\ deadline \in [Sig -> Nat] /\ Grace \in Nat
      /\ Sound(round[c])
  BY ConstantsAssumption DEF Inv, IInv, TypeOK, Block, RoundInv, Sound
<1>1. CASE RoundList(c)
  <2>1. Listed(c) \in SUBSET Sig
    BY DEF Listed
  <2> DEFINE r == [NoRound EXCEPT !.pc = "read", !.todo = Listed(c)]
  <2>2. r \in RoundState
    BY <2>1, NoRoundType DEF RoundState
  <2>3. r.snap = 0 /\ r.todo = Listed(c) /\ r.pc = "read"
    BY DEF NoRound
  <2>4. Sound(r)
    BY <1>0, <2>3 DEF Sound, Listed, Issued
  <2>5. QED
    BY <1>1, <2>2, <2>4 DEF RoundList
<1>2. CASE RoundRead(c)
  <2>1. PICK b \in Latest :
          round' = [round EXCEPT ![c] = AtWork({s \in round[c].todo : ~Skipped(s, b)}, b)]
    BY <1>2 DEF RoundRead
  <2> DEFINE T == {s \in round[c].todo : ~Skipped(s, b)}
  <2>2. T \in SUBSET Sig /\ b \in Block /\ b <= head
    BY <1>0, <2>1 DEF Latest, RoundState
  <2>3. AtWork(T, b) \in RoundState
    BY <2>2, AtWorkType
  <2>4. Sound(AtWork(T, b))
    <3>1. CASE T = {}
      BY <1>0, <3>1, NoRoundSound DEF AtWork
    <3>2. CASE T # {}
      <4>1. AtWork(T, b) = [pc |-> "settle", todo |-> T, snap |-> b]
        BY <3>2 DEF AtWork
      <4>2. QED
        BY <1>0, <2>2, <4>1 DEF Sound
    <3>3. QED
      BY <3>1, <3>2
  <2>5. QED
    BY <2>1, <2>3, <2>4
<1>3. ASSUME NEW s \in Sig, RoundSettle(c, s) \/ RoundSkip(c, s)
      PROVE  \E r \in RoundState : round' = [round EXCEPT ![c] = r] /\ Sound(r)
  <2>1. round' = [round EXCEPT ![c] = Rest(round[c], s)] /\ round[c].pc = "settle"
    BY <1>3 DEF RoundSettle, RoundSkip
  <2>2. QED
    BY <1>0, <2>1, RestSound, RestType
<1>4. QED
  BY <1>1, <1>2, <1>3

LEMMA RoundInvNext ==
  ASSUME Inv, [Next]_vars PROVE RoundInv'
<1>0. TypeInv /\ TypeInv' /\ Kept
  BY StepKeeps, TypeNext DEF Inv, IInv, TypeInv
<1>1. head' \in Nat /\ round \in [Round -> RoundState]
  BY <1>0, ConstantsAssumption DEF TypeInv, TypeOK, Block
<1>2. RoundInv <=> \A c \in Round : Sound(round[c])
  BY DEF RoundInv, Sound
<1>3. RoundInv' <=> \A c \in Round : Sound(round[c])'
  BY DEF RoundInv, Sound
<1>4. \A c \in Round : round'[c] = round[c] => Sound(round[c])'
  <2>1. SUFFICES ASSUME NEW c \in Round, round'[c] = round[c]
                 PROVE  Sound(round[c])'
    OBVIOUS
  <2>2. PICK r \in RoundState : r = round[c]
    BY <1>1
  <2>3. Sound(r)
    BY <1>2, <2>2 DEF Inv, IInv
  <2>4. Sound(r)'
    BY <1>0, <2>3, SleepingRound
  <2>5. QED
    BY <2>1, <2>2, <2>4 DEF Sound, Skipped, StillUsable, UsedBy, Timestamp, Issued
<1>5. \A c \in Round : round'[c] = NoRound => Sound(round[c])'
  BY <1>1 DEF Sound, NoRound
<1>6. ASSUME NEW c \in Round,
             \/ RoundList(c) \/ RoundRead(c)
             \/ \E s \in Sig : RoundSettle(c, s) \/ RoundSkip(c, s)
      PROVE  RoundInv'
  <2>1. PICK r \in RoundState : round' = [round EXCEPT ![c] = r] /\ Sound(r)
    BY <1>6, RoundStepSound
  <2>2. Sound(r)'
    BY <1>0, <2>1, SleepingRound
  <2>3. round'[c] = r
    BY <1>1, <2>1
  <2>4. Sound(round[c])'
    BY <2>2, <2>3 DEF Sound, Skipped, StillUsable, UsedBy, Timestamp, Issued
  <2>5. \A d \in Round \ {c} : round'[d] = round[d]
    BY <1>1, <2>1
  <2>6. QED
    BY <1>3, <1>4, <2>4, <2>5
<1>7. ASSUME NEW c \in Round, RoundFail(c) PROVE RoundInv'
  BY <1>1, <1>3, <1>4, <1>5, <1>7 DEF RoundFail
<1>8. CASE Crash
  BY <1>3, <1>5, <1>8 DEF Crash
<1>9. CASE round' = round
  BY <1>3, <1>4, <1>9
<1>10. CASE \E s \in Sig : Request(s)
  <2>1. round' = round
    BY <1>10, RequestKeeps DEF Inv, IInv
  <2>2. QED
    BY <1>9, <2>1
<1>11. QED
  BY <1>6, <1>7, <1>8, <1>9, <1>10
  DEF Next, Api, JobStep, RoundStep, Fault, Terminated, Request, vars, Tick, MineBlock,
      Produce, SubmitNonce, JobStart, JobRead, JobSettle, JobFail, JobRemove
-----------------------------------------------------------------------------
(***************************************************************************)
(* The log of a record follows its status: an issue and a settlement write *)
(* what they have to, and nothing else writes to it.                       *)
(***************************************************************************)

\* A settlement with a true verdict of a pending record is never turned down.
LEMMA NeverTurnedDown ==
  ASSUME Inv, NEW s \in Sig, status[s] = "pending", NEW used \in BOOLEAN,
         Settle(s, used)
  PROVE  Record(s, used)
<1>1. ~Rejected(s, used)
  BY DEF Rejected, Inv, IInv, PaidPurchaseGoesThrough, OpenPurchase
<1>2. QED
  BY <1>1 DEF Settle

LEMMA OnceNext ==
  ASSUME Inv, [Next]_vars PROVE SettledExactlyOnce'
<1>0. /\ TypeInv /\ status \in [Sig -> Status]
      /\ entries \in [Sig -> [{"hold", "refund"} -> Nat]]
      /\ DOMAIN terms = Sig
      /\ \A s \in Sig : entries[s] = ExpectedEntries(s)
  BY DEF Inv, IInv, TypeInv, TypeOK, SettledExactlyOnce
<1>1. CASE UNCHANGED <<status, terms, entries>>
  BY <1>0, <1>1 DEF SettledExactlyOnce, ExpectedEntries, Issued
<1>2. ASSUME NEW s \in Sig, Request(s) PROVE SettledExactlyOnce'
  <2>1. PICK t \in Terms : Issue(s, t)
    BY <1>0, <1>2, IssueRequest DEF TypeInv
  <2>2. /\ status' = [status EXCEPT ![s] = "pending"]
        /\ terms' = [terms EXCEPT ![s] = t]
        /\ entries' = [entries EXCEPT ![s]["hold"] =
                         IF t.hold = 0 THEN @ ELSE @ + 1]
        /\ status[s] = "absent"
    BY <2>1, IssueStep DEF Issue
  <2>3. ASSUME NEW r \in Sig, r # s PROVE entries'[r] = ExpectedEntries(r)'
    BY <1>0, <2>2, <2>3 DEF ExpectedEntries, Issued
  <2>4. entries[s] = [hold |-> 0, refund |-> 0]
    BY <1>0, <2>2 DEF ExpectedEntries, Issued
  <2>5. entries'[s] = [entries[s] EXCEPT !["hold"] = IF t.hold = 0 THEN @ ELSE @ + 1]
    BY <1>0, <2>2
  <2>6. entries'[s] = [hold |-> IF t.hold = 0 THEN 0 ELSE 1, refund |-> 0]
    BY <2>4, <2>5
  <2>7. status'[s] = "pending" /\ terms'[s] = t
    BY <1>0, <2>2
  <2>8. ExpectedEntries(s)' = [hold |-> IF t.hold = 0 THEN 0 ELSE 1, refund |-> 0]
    BY <2>7 DEF ExpectedEntries, Issued
  <2>9. QED
    BY <2>3, <2>6, <2>8 DEF SettledExactlyOnce
<1>3. ASSUME NEW s \in Sig, SoundSettlement(s) PROVE SettledExactlyOnce'
  <2>1. PICK used \in BOOLEAN : Settle(s, used)
    BY <1>3 DEF SoundSettlement
  <2>2. CASE status[s] # "pending"
    BY <1>1, <2>1, <2>2 DEF Settle, table
  <2>3. CASE status[s] = "pending"
    <3> DEFINE refund == IF used THEN 0 ELSE terms[s].hold
    <3>1. /\ status' = [status EXCEPT ![s] = IF used THEN "used" ELSE "unused"]
          /\ entries' = [entries EXCEPT ![s]["refund"] = IF refund = 0 THEN @ ELSE @ + 1]
          /\ terms' = terms
      BY <2>1, <2>3, NeverTurnedDown DEF Record
    <3>2. ASSUME NEW r \in Sig, r # s PROVE entries'[r] = ExpectedEntries(r)'
      BY <1>0, <3>1, <3>2 DEF ExpectedEntries, Issued
    <3>3. entries[s] = [hold |-> IF terms[s].hold # 0 THEN 1 ELSE 0, refund |-> 0]
      BY <1>0, <2>3 DEF ExpectedEntries, Issued
    <3>4. entries'[s] = [entries[s] EXCEPT !["refund"] = IF refund = 0 THEN @ ELSE @ + 1]
      BY <1>0, <3>1
    <3>5. entries'[s] = [hold |-> IF terms[s].hold # 0 THEN 1 ELSE 0,
                         refund |-> IF refund = 0 THEN 0 ELSE 1]
      BY <3>3, <3>4
    <3>6. status'[s] = (IF used THEN "used" ELSE "unused") /\ terms'[s] = terms[s]
      BY <1>0, <3>1
    <3>7. ExpectedEntries(s)' = [hold |-> IF terms[s].hold # 0 THEN 1 ELSE 0,
                                 refund |-> IF refund = 0 THEN 0 ELSE 1]
      BY <3>6 DEF ExpectedEntries, Issued
    <3>8. QED
      BY <3>2, <3>5, <3>7 DEF SettledExactlyOnce
  <2>4. QED
    BY <2>2, <2>3
<1>4. QED
  BY <1>1, <1>2, <1>3, TableSteps DEF table, Produce
-----------------------------------------------------------------------------
(***************************************************************************)
(* The miner of an open purchase stands still: a request finds it finished *)
(* and adds the only open purchase of it, a distribution only moves miners *)
(* that are not finished, and a settlement starts a miner that no other    *)
(* open purchase is for.                                                   *)
(***************************************************************************)
SamePair(r, s) ==
  terms[r].account = terms[s].account /\ terms[r].miner = terms[s].miner

Alone(s) ==
  /\ Finished(terms[s].account, terms[s].miner)
  /\ \A r \in Sig : OpenPurchase(r) /\ SamePair(r, s) => r = s

LEMMA PaidMeans ==
  /\ PaidPurchaseGoesThrough <=> \A s \in Sig : OpenPurchase(s) => Alone(s)
  /\ PaidPurchaseGoesThrough' <=> \A s \in Sig : OpenPurchase(s)' => Alone(s)'
  BY DEF PaidPurchaseGoesThrough, PurchasesOf, OpenPurchase, Alone, SamePair

LEMMA PaidNext ==
  ASSUME Inv, [Next]_vars PROVE PaidPurchaseGoesThrough'
<1>0. /\ TypeInv /\ status \in [Sig -> Status] /\ DOMAIN terms = Sig
      /\ miner \in MinerType
      /\ \A s \in Sig : OpenPurchase(s) => Alone(s)
  BY PaidMeans DEF Inv, IInv, TypeInv, TypeOK
<1>1. \A s \in Sig : OpenPurchase(s) =>
        terms[s].account \in Account /\ terms[s].miner \in Miner
  <2>1. \A s \in Sig : Issued(s) => terms[s] \in Terms
    BY DEF Inv, IInv, TypeOK
  <2>2. \A t \in Terms : t.account \in Account
    BY DEF Terms
  <2>3. QED
    BY <2>1, <2>2 DEF OpenPurchase, IsPurchase, Inv, MinerInv
<1>2. CASE UNCHANGED <<status, terms, miner>>
  BY <1>0, <1>2, PaidMeans
  DEF OpenPurchase, IsPurchase, Issued, Alone, SamePair, Finished
<1>3. ASSUME NEW s \in Sig, Request(s) PROVE PaidPurchaseGoesThrough'
  <2>1. PICK t \in Terms :
          /\ Issue(s, t)
          /\ t.kind = "purchase" => /\ Finished(t.account, t.miner)
                                    /\ NonePending(t.account, t.miner)
    BY <1>0, <1>3, IssueRequest DEF TypeInv
  <2>2. /\ status' = [status EXCEPT ![s] = "pending"]
        /\ terms' = [terms EXCEPT ![s] = t]
        /\ miner' = miner /\ status[s] = "absent"
    BY <2>1, IssueStep
  <2>3. status'[s] = "pending" /\ terms'[s] = t
    BY <1>0, <2>2
  <2>4. \A r \in Sig : r # s => status'[r] = status[r] /\ terms'[r] = terms[r]
    BY <1>0, <2>2
  <2>5. \A r \in Sig : r # s => (OpenPurchase(r)' <=> OpenPurchase(r))
    BY <2>4 DEF OpenPurchase, IsPurchase, Issued
  <2>6. OpenPurchase(s)' <=> t.kind = "purchase"
    BY <2>3 DEF OpenPurchase, IsPurchase, Issued
  <2>7. t.kind = "purchase" =>
          \A r \in Sig : OpenPurchase(r) =>
            ~(terms[r].account = t.account /\ terms[r].miner = t.miner)
    BY <2>1 DEF NonePending, PendingPurchase, OpenPurchase, IsPurchase
  <2>8. ASSUME NEW q \in Sig, OpenPurchase(q)' PROVE Alone(q)'
    <3>1. CASE q = s
      <4>1. Finished(t.account, t.miner)'
        BY <2>1, <2>2, <2>6, <2>8, <3>1 DEF Finished
      <4>2. \A r \in Sig : OpenPurchase(r)' /\ SamePair(r, s)' => r = s
        BY <2>3, <2>4, <2>5, <2>6, <2>7, <2>8, <3>1 DEF SamePair
      <4>3. QED
        BY <2>3, <3>1, <4>1, <4>2 DEF Alone, Finished
    <3>2. CASE q # s
      <4>1. OpenPurchase(q) /\ Alone(q) /\ terms'[q] = terms[q]
        BY <1>0, <2>4, <2>5, <2>8, <3>2
      <4>2. Finished(terms[q].account, terms[q].miner)'
        BY <2>2, <4>1 DEF Alone, Finished
      <4>3. \A r \in Sig : OpenPurchase(r)' /\ SamePair(r, q)' => r = q
        <5>1. ASSUME NEW r \in Sig, OpenPurchase(r)', SamePair(r, q)', r # q
              PROVE  FALSE
          <6>1. CASE r = s
            BY <2>3, <2>6, <2>7, <4>1, <5>1, <6>1 DEF SamePair
          <6>2. CASE r # s
            BY <2>4, <2>5, <4>1, <5>1, <6>2 DEF SamePair, Alone
          <6>3. QED
            BY <6>1, <6>2
        <5>2. QED
          BY <5>1
      <4>4. QED
        BY <4>1, <4>2, <4>3 DEF Alone, Finished
    <3>3. QED
      BY <3>1, <3>2
  <2>9. QED
    BY <2>8, PaidMeans
<1>4. ASSUME NEW a \in Account, NEW m \in Miner, Produce(a, m)
      PROVE  PaidPurchaseGoesThrough'
  <2>1. ~Finished(a, m) /\ UNCHANGED <<status, terms>>
    BY <1>4 DEF Produce
  <2>2. miner' = [miner EXCEPT ![a][m].produced = @ + 1]
    BY <1>4 DEF Produce
  <2>3. \A b \in Account, n \in Miner : b # a \/ n # m => miner'[b][n] = miner[b][n]
    BY <1>0, <2>2 DEF MinerType
  <2>4. ASSUME NEW q \in Sig, OpenPurchase(q)' PROVE Alone(q)'
    <3>1. OpenPurchase(q) /\ Alone(q)
      BY <1>0, <2>1, <2>4 DEF OpenPurchase, IsPurchase, Issued
    <3>2. terms[q].account # a \/ terms[q].miner # m
      BY <2>1, <3>1 DEF Alone
    <3>3. miner'[terms[q].account][terms[q].miner] = miner[terms[q].account][terms[q].miner]
      BY <1>1, <2>3, <3>1, <3>2
    <3>4. Finished(terms[q].account, terms[q].miner)'
      BY <2>1, <3>1, <3>3 DEF Alone, Finished
    <3>5. QED
      BY <2>1, <3>1, <3>4 DEF Alone, SamePair, Finished, OpenPurchase, IsPurchase, Issued
  <2>5. QED
    BY <2>4, PaidMeans
<1>5. ASSUME NEW s \in Sig, SoundSettlement(s) PROVE PaidPurchaseGoesThrough'
  <2>1. PICK used \in BOOLEAN : Settle(s, used)
    BY <1>5 DEF SoundSettlement
  <2>2. CASE status[s] # "pending"
    BY <1>2, <2>1, <2>2 DEF Settle, table
  <2>3. CASE status[s] = "pending"
    <3> DEFINE t == terms[s]
    <3>1. /\ status' = [status EXCEPT ![s] = IF used THEN "used" ELSE "unused"]
          /\ IF used /\ t.kind = "purchase" THEN StartMiner(t) ELSE UNCHANGED miner
          /\ terms' = terms
      BY <2>1, <2>3, NeverTurnedDown DEF Record
    <3>2. status'[s] # "pending" /\ \A r \in Sig : r # s => status'[r] = status[r]
      BY <1>0, <3>1
    <3>3. \A r \in Sig : OpenPurchase(r)' => OpenPurchase(r) /\ r # s
      BY <3>1, <3>2 DEF OpenPurchase, IsPurchase, Issued
    <3>4. ASSUME NEW q \in Sig, OpenPurchase(q)' PROVE Alone(q)'
      <4>1. OpenPurchase(q) /\ Alone(q) /\ q # s
        BY <1>0, <3>3, <3>4
      <4>2. miner'[terms[q].account][terms[q].miner]
              = miner[terms[q].account][terms[q].miner]
        <5>1. CASE ~(used /\ t.kind = "purchase")
          BY <3>1, <5>1
        <5>2. CASE used /\ t.kind = "purchase"
          <6>1. OpenPurchase(s)
            BY <2>3, <5>2 DEF OpenPurchase, IsPurchase, Issued
          <6>2. terms[q].account # t.account \/ terms[q].miner # t.miner
            BY <4>1, <6>1 DEF Alone, SamePair
          <6>3. miner' = [miner EXCEPT ![t.account][t.miner].expected = @ + t.reward]
            BY <3>1, <5>2 DEF StartMiner
          <6> HIDE DEF t
          <6>4. \A b \in Account, n \in Miner :
                  b # t.account \/ n # t.miner => miner'[b][n] = miner[b][n]
            BY <1>0, <6>3 DEF MinerType
          <6>5. QED
            BY <1>1, <4>1, <6>2, <6>4
        <5>3. QED
          BY <5>1, <5>2
      <4>3. Finished(terms[q].account, terms[q].miner)'
        BY <3>1, <4>1, <4>2 DEF Alone, Finished
      <4>4. \A r \in Sig : OpenPurchase(r)' /\ SamePair(r, q)' => r = q
        BY <3>1, <3>3, <4>1 DEF Alone, SamePair
      <4>5. QED
        BY <3>1, <4>3, <4>4 DEF Alone, Finished
    <3>5. QED
      BY <3>4, PaidMeans
  <2>4. QED
    BY <2>2, <2>3
<1>6. QED
  BY <1>2, <1>3, <1>4, <1>5, TableSteps DEF table

-----------------------------------------------------------------------------
LEMMA InvInit == Init => Inv
<1> SUFFICES ASSUME Init PROVE Inv
  OBVIOUS
<1>1. TypeOK /\ MinerInv
  BY TypeInit DEF TypeInv
<1>2. ChainInv /\ SettlementMatchesChain
  BY DEF Init, ChainInv, SettlementMatchesChain, Timestamp
<1>3. WorkerInv /\ RoundInv
  BY DEF Init, WorkerInv, RoundInv, Idle, NoRound
<1>4. SettledExactlyOnce
  BY DEF Init, SettledExactlyOnce, ExpectedEntries, Issued
<1>5. PaidPurchaseGoesThrough
  BY DEF Init, PaidPurchaseGoesThrough, OpenPurchase
<1>6. QED
  BY <1>1, <1>2, <1>3, <1>4, <1>5 DEF Inv, IInv

LEMMA InvNext == Inv /\ [Next]_vars => Inv'
<1> SUFFICES ASSUME Inv, [Next]_vars PROVE Inv'
  OBVIOUS
<1>1. TypeOK' /\ MinerInv'
  BY TypeNext DEF Inv, IInv, TypeInv
<1>2. QED
  BY <1>1, ChainInvNext, MatchNext, WorkerInvNext, RoundInvNext, OnceNext, PaidNext
  DEF Inv, IInv

LEMMA Invariance == Spec => []Inv
  BY InvInit, InvNext, PTL DEF Spec

\* No withdrawal and no purchase is ever recorded against what the Mining
\* contract did or can still do with its nonce.
THEOREM MatchesChain == Spec => []SettlementMatchesChain
<1>1. Inv => SettlementMatchesChain
  BY DEF Inv, IInv
<1>2. QED
  BY <1>1, Invariance, PTL

\* The balance log of every record has its hold once and its refund once if it
\* is given up: a job and overlapping rounds never settle it twice.
THEOREM ExactlyOnce == Spec => []SettledExactlyOnce
<1>1. Inv => SettledExactlyOnce
  BY DEF Inv, IInv
<1>2. QED
  BY <1>1, Invariance, PTL

\* The miner of an open purchase stands still and no other purchase of it is
\* open, so purchaseMinerInTransaction never turns down a paid purchase.
THEOREM NeverRejected == Spec => []PaidPurchaseGoesThrough
<1>1. Inv => PaidPurchaseGoesThrough
  BY DEF Inv, IInv
<1>2. QED
  BY <1>1, Invariance, PTL
-----------------------------------------------------------------------------
(***************************************************************************)
(* The books.  A hold leaves the balance when its record is issued and     *)
(* comes back when the record is given up; a redeemed record keeps it, be  *)
(* it still pending or settled.  The reward of a purchase is credited by   *)
(* the settlement that finds it used.                                      *)
(***************************************************************************)
LEMMA OutstandingNat ==
  ASSUME TypeOK, NEW a, NEW k
  PROVE  NatOn(Outstanding(a, k), Sig)
<1>1. \A s \in Sig : Issued(s) => terms[s].hold \in Nat
  BY HoldsNat DEF TypeOK, Terms
<1>2. \A s \in Sig : Outstanding(a, k)[s] \in Nat
  BY <1>1 DEF Outstanding
<1>3. QED
  BY <1>2, ConstantsAssumption DEF NatOn

LEMMA CreditedNat ==
  ASSUME TypeOK, NEW a, NEW m
  PROVE  NatOn(Credited(a, m), Sig)
<1>1. \A s \in Sig : Issued(s) => terms[s].reward \in Nat
  BY DEF TypeOK, Terms
<1>2. \A s \in Sig : Credited(a, m)[s] \in Nat
  BY <1>1 DEF Credited, PurchasesOf, IsPurchase
<1>3. QED
  BY <1>2, ConstantsAssumption DEF NatOn

\* A step that moves d out of a balance into what one record holds.
LEMMA BooksBalance ==
  ASSUME TypeOK, Conservation, NEW a \in Account, NEW k \in Token,
         NEW s \in Sig, NEW d \in Int,
         balance'[a][k] = balance[a][k] - d,
         \A r \in Sig : Outstanding(a, k)'[r]
                          = Outstanding(a, k)[r] + IF r = s THEN d ELSE 0
  PROVE  InitBalance[a][k] = balance'[a][k] + SumFunction(Outstanding(a, k)')
<1> DEFINE f == Outstanding(a, k)
           g == Outstanding(a, k)'
<1>1. DOMAIN f = Sig /\ DOMAIN g = Sig
  BY DEF Outstanding
<1>2. NatOn(f, Sig)
  BY OutstandingNat
<1>3. SumFunctionOnSet(f, Sig) \in Nat
  BY <1>2, SumNat
<1>4. InitBalance[a][k] = balance[a][k] + SumFunctionOnSet(f, Sig)
  BY <1>1 DEF Conservation, SumFunction
<1>5. balance[a][k] \in Nat
  BY DEF TypeOK
<1> HIDE DEF f, g
<1>6. Moves(f, g, Sig, s, d)
  BY DEF f, g, Moves
<1>7. SumFunctionOnSet(g, Sig) = SumFunctionOnSet(f, Sig) + d
  BY <1>2, <1>6, NatSummable, SumMove
<1>8. InitBalance[a][k] = balance'[a][k] + SumFunctionOnSet(g, Sig)
  BY <1>3, <1>4, <1>5, <1>7
<1>9. QED
  BY <1>1, <1>8 DEF SumFunction, g

\* A step that takes nothing in or out.
LEMMA BooksKept ==
  ASSUME TypeOK, Conservation, balance' = balance,
         \A a \in Account, k \in Token, s \in Sig :
           Outstanding(a, k)'[s] = Outstanding(a, k)[s]
  PROVE  Conservation'
<1>1. SUFFICES ASSUME NEW a \in Account, NEW k \in Token
               PROVE  InitBalance[a][k] = balance'[a][k] + SumFunction(Outstanding(a, k)')
  BY DEF Conservation
<1>2. Outstanding(a, k)' = Outstanding(a, k)
  <2>1. \A s \in Sig : Outstanding(a, k)'[s] = Outstanding(a, k)[s]
    OBVIOUS
  <2>2. QED
    BY <2>1 DEF Outstanding
<1>3. QED
  BY <1>2 DEF Conservation

LEMMA ConservationNext ==
  ASSUME Inv, Conservation, [Next]_vars
  PROVE  Conservation'
<1>0. /\ TypeInv /\ TypeOK /\ status \in [Sig -> Status] /\ DOMAIN terms = Sig
      /\ balance \in [Account -> [Token -> Nat]]
      /\ \A a \in Account, k \in Token : balance[a][k] \in Nat
  BY DEF Inv, IInv, TypeInv, TypeOK
<1>1. CASE UNCHANGED <<status, terms, balance>> /\ UNCHANGED chain
  BY <1>0, <1>1, BooksKept DEF Outstanding, Issued, chain
<1>2. CASE MineBlock
  <2>1. \A s \in Sig : status[s] # "pending" => usedAt'[s] = usedAt[s]
    BY <1>2, ConsumeStep
  <2>2. UNCHANGED <<status, terms, balance>>
    BY <1>2, ConsumeStep DEF table
  <2>3. QED
    BY <1>0, <2>1, <2>2, BooksKept DEF Outstanding, Issued
<1>3. ASSUME NEW s \in Sig, Request(s) PROVE Conservation'
  <2>1. PICK t \in Terms : Issue(s, t)
    BY <1>0, <1>3, IssueRequest
  <2>2. /\ status[s] = "absent" /\ usedAt' = usedAt
        /\ status' = [status EXCEPT ![s] = "pending"]
        /\ terms' = [terms EXCEPT ![s] = t]
        /\ balance' = [balance EXCEPT ![t.account][t.token] = @ - t.hold]
    BY <2>1, IssueStep DEF Issue, chain
  <2>3. t.hold \in Nat /\ t.account \in Account /\ t.token \in Token
    BY HoldsNat DEF Terms
  <2>4. SUFFICES ASSUME NEW a \in Account, NEW k \in Token
                 PROVE  InitBalance[a][k] = balance'[a][k] + SumFunction(Outstanding(a, k)')
    BY DEF Conservation
  <2> DEFINE d == IF t.account = a /\ t.token = k THEN t.hold ELSE 0
  <2>5. d \in Int
    BY <2>3
  <2>6. balance'[a][k] = balance[a][k] - d
    BY <1>0, <2>2, <2>3
  <2>7. Outstanding(a, k)[s] = 0 /\ Outstanding(a, k)'[s] = d
    BY <1>0, <2>2 DEF Outstanding, Issued
  <2>8. \A r \in Sig : r # s => Outstanding(a, k)'[r] = Outstanding(a, k)[r]
    BY <1>0, <2>2 DEF Outstanding, Issued
  <2>9. \A r \in Sig : Outstanding(a, k)[r] \in Nat
    BY <1>0, OutstandingNat DEF NatOn
  <2> HIDE DEF d
  <2>10. \A r \in Sig : Outstanding(a, k)'[r]
                          = Outstanding(a, k)[r] + IF r = s THEN d ELSE 0
    BY <2>5, <2>7, <2>8, <2>9
  <2>11. QED
    BY <1>0, <2>5, <2>6, <2>10, BooksBalance
<1>4. ASSUME NEW s \in Sig, SoundSettlement(s) PROVE Conservation'
  <2>1. PICK used \in BOOLEAN :
          Settle(s, used) /\ Verdict(s, used) /\ UNCHANGED <<now, chain>>
    BY <1>4 DEF SoundSettlement
  <2>2. CASE status[s] # "pending"
    BY <1>1, <2>1, <2>2 DEF Settle, table
  <2>3. CASE status[s] = "pending"
    <3> DEFINE t == terms[s]
               refund == IF used THEN 0 ELSE t.hold
    <3>1. /\ status' = [status EXCEPT ![s] = IF used THEN "used" ELSE "unused"]
          /\ balance' = [balance EXCEPT ![t.account][t.token] = @ + refund]
          /\ terms' = terms /\ usedAt' = usedAt
      BY <2>1, <2>3, NeverTurnedDown DEF Record, chain
    <3>2. /\ t \in Terms /\ t.hold \in Nat /\ t.account \in Account /\ t.token \in Token
      BY <1>0, <2>3, HoldsNat DEF TypeOK, Issued, Terms
    <3>3. SUFFICES ASSUME NEW a \in Account, NEW k \in Token
                   PROVE  InitBalance[a][k] = balance'[a][k] + SumFunction(Outstanding(a, k)')
      BY DEF Conservation
    <3> DEFINE d == IF t.account = a /\ t.token = k THEN refund ELSE 0
    <3>4. d \in Nat
      BY <3>2
    <3>5. Outstanding(a, k)[s] = IF t.account = a /\ t.token = k THEN t.hold ELSE 0
      BY <2>3 DEF Outstanding, Issued
    <3>6. Outstanding(a, k)'[s]
            = IF t.account = a /\ t.token = k /\ used THEN t.hold ELSE 0
      BY <1>0, <2>1, <3>1 DEF Outstanding, Issued, Verdict
    <3>7. \A r \in Sig : r # s => Outstanding(a, k)'[r] = Outstanding(a, k)[r]
      BY <1>0, <3>1 DEF Outstanding, Issued
    <3>8. \A r \in Sig : Outstanding(a, k)[r] \in Nat
      BY <1>0, OutstandingNat DEF NatOn
    <3>9. Outstanding(a, k)'[s] = Outstanding(a, k)[s] - d
      BY <3>2, <3>5, <3>6
    <3>10. balance'[a][k] = balance[a][k] + d
      <4> HIDE DEF t
      <4>1. refund \in Nat
        BY <3>2
      <4> HIDE DEF refund
      <4>2. QED
        BY <1>0, <3>1, <3>2, <4>1
    <3> HIDE DEF d
    <3>11. -d \in Int /\ balance'[a][k] = balance[a][k] - (-d)
      BY <1>0, <3>4, <3>10
    <3>12. \A r \in Sig : Outstanding(a, k)'[r]
                            = Outstanding(a, k)[r] + IF r = s THEN -d ELSE 0
      BY <3>4, <3>7, <3>8, <3>9
    <3>13. QED
      BY <1>0, <3>11, <3>12, BooksBalance
  <2>4. QED
    BY <2>2, <2>3
<1>5. QED
  BY <1>0, <1>1, <1>2, <1>3, <1>4, TableSteps, ChainUnlessMined DEF table, Produce

\* A step that adds d to what one purchase is credited, and to its miner.
LEMMA CreditsMove ==
  ASSUME TypeOK, PurchasesCredited, NEW a \in Account, NEW m \in Miner,
         NEW s \in Sig, NEW d \in Int,
         miner'[a][m].expected = miner[a][m].expected + d,
         \A r \in Sig : Credited(a, m)'[r]
                          = Credited(a, m)[r] + IF r = s THEN d ELSE 0
  PROVE  miner'[a][m].expected = SumFunction(Credited(a, m)')
<1> DEFINE f == Credited(a, m)
           g == Credited(a, m)'
<1>1. DOMAIN f = Sig /\ DOMAIN g = Sig
  BY DEF Credited
<1>2. NatOn(f, Sig)
  BY CreditedNat
<1>4. miner[a][m].expected = SumFunctionOnSet(f, Sig)
  BY <1>1 DEF PurchasesCredited, SumFunction
<1> HIDE DEF f, g
<1>5. Moves(f, g, Sig, s, d)
  BY DEF f, g, Moves
<1>6. SumFunctionOnSet(g, Sig) = SumFunctionOnSet(f, Sig) + d
  BY <1>2, <1>5, NatSummable, SumMove
<1>7. QED
  BY <1>1, <1>4, <1>6 DEF SumFunction, g

LEMMA CreditsKept ==
  ASSUME TypeOK, PurchasesCredited,
         \A a \in Account, m \in Miner : miner'[a][m].expected = miner[a][m].expected,
         \A a \in Account, m \in Miner, s \in Sig :
           Credited(a, m)'[s] = Credited(a, m)[s]
  PROVE  PurchasesCredited'
<1>1. SUFFICES ASSUME NEW a \in Account, NEW m \in Miner
               PROVE  miner'[a][m].expected = SumFunction(Credited(a, m)')
  BY DEF PurchasesCredited
<1>2. Credited(a, m)' = Credited(a, m)
  <2>1. \A s \in Sig : Credited(a, m)'[s] = Credited(a, m)[s]
    OBVIOUS
  <2>2. QED
    BY <2>1 DEF Credited
<1>3. QED
  BY <1>2 DEF PurchasesCredited

LEMMA CreditedNext ==
  ASSUME Inv, PurchasesCredited, [Next]_vars
  PROVE  PurchasesCredited'
<1>0. /\ TypeInv /\ TypeOK /\ status \in [Sig -> Status] /\ DOMAIN terms = Sig
      /\ miner \in [Account -> [Miner -> [produced : Nat, expected : Nat]]]
  BY DEF Inv, IInv, TypeInv, TypeOK, MinerType
<1>1. CASE UNCHANGED <<status, terms, miner>>
  BY <1>0, <1>1, CreditsKept DEF Credited, PurchasesOf, IsPurchase, Issued
<1>2. ASSUME NEW b \in Account, NEW n \in Miner, Produce(b, n)
      PROVE  PurchasesCredited'
  <2>1. UNCHANGED <<status, terms>>
    BY <1>2 DEF Produce
  <2>2. miner' = [miner EXCEPT ![b][n].produced = @ + 1]
    BY <1>2 DEF Produce
  <2>3. \A a \in Account, m \in Miner : miner'[a][m].expected = miner[a][m].expected
    BY <1>0, <2>2
  <2>4. QED
    BY <1>0, <2>1, <2>3, CreditsKept DEF Credited, PurchasesOf, IsPurchase, Issued
<1>3. ASSUME NEW s \in Sig, Request(s) PROVE PurchasesCredited'
  <2>1. PICK t \in Terms : Issue(s, t)
    BY <1>0, <1>3, IssueRequest
  <2>2. /\ status[s] = "absent" /\ miner' = miner
        /\ status' = [status EXCEPT ![s] = "pending"]
        /\ terms' = [terms EXCEPT ![s] = t]
    BY <2>1, IssueStep
  <2>3. \A a \in Account, m \in Miner :
          Credited(a, m)[s] = 0 /\ Credited(a, m)'[s] = 0
    BY <1>0, <2>2 DEF Credited
  <2>4. \A a \in Account, m \in Miner, r \in Sig : r # s =>
          Credited(a, m)'[r] = Credited(a, m)[r]
    BY <1>0, <2>2 DEF Credited, PurchasesOf, IsPurchase, Issued
  <2>5. QED
    BY <1>0, <2>2, <2>3, <2>4, CreditsKept
<1>4. ASSUME NEW s \in Sig, SoundSettlement(s) PROVE PurchasesCredited'
  <2>1. PICK used \in BOOLEAN :
          Settle(s, used) /\ Verdict(s, used) /\ UNCHANGED <<now, chain>>
    BY <1>4 DEF SoundSettlement
  <2>2. CASE status[s] # "pending"
    BY <1>1, <2>1, <2>2 DEF Settle, table
  <2>3. CASE status[s] = "pending"
    <3> DEFINE t == terms[s]
               started == used /\ t.kind = "purchase"
    <3>1. /\ status' = [status EXCEPT ![s] = IF used THEN "used" ELSE "unused"]
          /\ IF started THEN StartMiner(t) ELSE UNCHANGED miner
          /\ terms' = terms
      BY <2>1, <2>3, NeverTurnedDown DEF Record
    <3>2. /\ t \in Terms /\ t.reward \in Nat /\ t.account \in Account
          /\ started => t.miner \in Miner
      BY <1>0, <2>3 DEF TypeOK, Issued, Terms, Inv, MinerInv, IsPurchase
    <3>3. SUFFICES ASSUME NEW a \in Account, NEW m \in Miner
                   PROVE  miner'[a][m].expected = SumFunction(Credited(a, m)')
      BY DEF PurchasesCredited
    <3> DEFINE d == IF started /\ t.account = a /\ t.miner = m THEN t.reward ELSE 0
    <3>4. d \in Int
      BY <3>2
    <3>5. Credited(a, m)[s] = 0
      BY <2>3 DEF Credited
    <3>6. Credited(a, m)'[s] = d
      BY <1>0, <3>1 DEF Credited, PurchasesOf, IsPurchase, Issued
    <3>7. \A r \in Sig : r # s => Credited(a, m)'[r] = Credited(a, m)[r]
      BY <1>0, <3>1 DEF Credited, PurchasesOf, IsPurchase, Issued
    <3>8. \A r \in Sig : Credited(a, m)[r] \in Nat
      BY <1>0, CreditedNat DEF NatOn
    <3>9. miner[a][m].expected \in Nat
      BY <1>0
    <3>10. miner'[a][m].expected = miner[a][m].expected + d
      <4>1. CASE started
        <5>1. miner' = [miner EXCEPT ![t.account][t.miner].expected = @ + t.reward]
          BY <3>1, <4>1 DEF StartMiner
        <5>2. t.miner \in Miner
          BY <3>2, <4>1
        <5>3. d = IF t.account = a /\ t.miner = m THEN t.reward ELSE 0
          BY <4>1
        <5> HIDE DEF t, d
        <5>4. QED
          BY <1>0, <3>2, <3>9, <5>1, <5>2, <5>3
      <4>2. CASE ~started
        BY <3>1, <3>9, <4>2
      <4>3. QED
        BY <4>1, <4>2
    <3> HIDE DEF d
    <3>11. \A r \in Sig : Credited(a, m)'[r]
                            = Credited(a, m)[r] + IF r = s THEN d ELSE 0
      BY <3>4, <3>5, <3>6, <3>7, <3>8
    <3>12. QED
      BY <1>0, <3>4, <3>10, <3>11, CreditsMove
  <2>4. QED
    BY <2>2, <2>3
<1>5. QED
  BY <1>1, <1>2, <1>3, <1>4, TableSteps DEF table

LEMMA BooksInit == Init => Conservation /\ PurchasesCredited
<1> SUFFICES ASSUME Init PROVE Conservation /\ PurchasesCredited
  OBVIOUS
<1>1. IsFiniteSet(Sig)
  BY ConstantsAssumption
<1>2. ASSUME NEW a \in Account, NEW k \in Token
      PROVE  InitBalance[a][k] = balance[a][k] + SumFunction(Outstanding(a, k))
  <2>1. DOMAIN Outstanding(a, k) = Sig /\ \A s \in Sig : Outstanding(a, k)[s] = 0
    BY DEF Init, Outstanding, Issued
  <2>2. SumFunction(Outstanding(a, k)) = 0
    BY <1>1, <2>1, SumZero DEF SumFunction
  <2>3. InitBalance[a][k] \in Nat /\ balance = InitBalance
    BY ConstantsAssumption DEF Init, Token
  <2>4. QED
    BY <2>2, <2>3
<1>3. ASSUME NEW a \in Account, NEW m \in Miner
      PROVE  miner[a][m].expected = SumFunction(Credited(a, m))
  <2>1. DOMAIN Credited(a, m) = Sig /\ \A s \in Sig : Credited(a, m)[s] = 0
    BY DEF Init, Credited
  <2>2. SumFunction(Credited(a, m)) = 0
    BY <1>1, <2>1, SumZero DEF SumFunction
  <2>3. QED
    BY <2>2 DEF Init
<1>4. QED
  BY <1>2, <1>3 DEF Conservation, PurchasesCredited

\* The hold of a record is in the balance, in an open record, or was taken by
\* what the contract did: a job, overlapping rounds and refunds never lose it
\* and never give it back for something the user received.
THEOREM BalancesConserved == Spec => []Conservation
<1>1. Init => Conservation
  BY BooksInit
<1>2. Inv /\ Conservation /\ [Next]_vars => Conservation'
  BY ConservationNext
<1>3. QED
  BY <1>1, <1>2, Invariance, PTL DEF Spec

\* A miner is to produce the sum of the rewards of its used purchases: each
\* paid purchase starts it exactly once, through the job or through a round.
THEOREM EveryPurchaseCredited == Spec => []PurchasesCredited
<1>1. Init => PurchasesCredited
  BY BooksInit
<1>2. Inv /\ PurchasesCredited /\ [Next]_vars => PurchasesCredited'
  BY CreditedNext
<1>3. QED
  BY <1>1, <1>2, Invariance, PTL DEF Spec
-----------------------------------------------------------------------------
(***************************************************************************)
(* The flow implements the escrow: an issue is an issue, a block redeems,  *)
(* a settlement settles by what was redeemed, every other step stutters.   *)
(***************************************************************************)
Held == [s \in Sig |-> IF Issued(s) THEN EscrowTerms(terms[s]) ELSE NoTerms]

LEMMA EscrowInit == Init => Escrow!Init
  BY DEF Init, Escrow!Init, Issued

\* The escrow's terms move with the table and with nothing else.
LEMMA HeldKept ==
  ASSUME \A s \in Sig : Issued(s)' <=> Issued(s), terms' = terms
  PROVE  Held' = Held
  BY DEF Held

LEMMA EscrowIssue ==
  ASSUME Inv, NEW s \in Sig, Request(s) PROVE Escrow!Issue(s)
<1>0. /\ TypeOK /\ balance \in [Account -> [Token -> Nat]]
      /\ status \in [Sig -> Status] /\ DOMAIN terms = Sig
  BY DEF Inv, IInv, TypeOK
<1>1. PICK t \in Terms : Issue(s, t)
  BY <1>0, IssueRequest
<1>2. /\ status[s] = "absent" /\ usedAt' = usedAt
      /\ status' = [status EXCEPT ![s] = "pending"]
      /\ terms' = [terms EXCEPT ![s] = t]
  BY <1>1, IssueStep DEF chain
<1> DEFINE d == EscrowTerms(t)
<1>3. /\ t.account \in Account /\ t.token \in Token /\ t.hold \in Holds
  BY DEF Terms
<1>4. d \in Escrow!Terms /\ Escrow!Hold(d) = t.hold
      /\ d.account = t.account /\ d.token = t.token
  BY <1>3 DEF EscrowTerms, Escrow!Terms, Escrow!Hold
<1>5. /\ balance' = [balance EXCEPT ![t.account][t.token] = @ - t.hold]
      /\ balance[t.account][t.token] >= t.hold
  BY <1>1 DEF Issue, Affordable
<1>6. t.hold <= balance[t.account][t.token]
  BY <1>0, <1>3, <1>5, HoldsNat
<1>7. Held' = [Held EXCEPT ![s] = d]
  <2>1. Held'[s] = d
    BY <1>0, <1>2 DEF Held, Issued
  <2>2. \A r \in Sig : r # s => Held'[r] = Held[r]
    BY <1>0, <1>2 DEF Held, Issued
  <2>3. QED
    BY <2>1, <2>2 DEF Held
<1>8. {r \in Sig : usedAt'[r] # 0} = {r \in Sig : usedAt[r] # 0}
  BY <1>2
<1>9. QED
  BY <1>2, <1>4, <1>5, <1>6, <1>7, <1>8 DEF Escrow!Issue, Held

LEMMA EscrowRedeem ==
  ASSUME Inv, MineBlock PROVE Escrow!Redeem
<1> DEFINE redeemed == {s \in Sig : usedAt[s] # 0}
           S == {s \in Sig : usedAt[s] = 0 /\ usedAt'[s] # 0}
<1>0. head \in Nat
  BY ConstantsAssumption DEF Inv, IInv, TypeOK, Block
<1>1. S \in SUBSET {s \in Sig : status[s] = "pending"}
  BY ConsumeStep
<1>2. {s \in Sig : usedAt'[s] # 0} = redeemed \cup S
  BY <1>0, ConsumeStep
<1>3. UNCHANGED <<status, terms, balance>>
  BY ConsumeStep DEF table
<1>4. Held' = Held
  BY <1>3, HeldKept DEF Issued
<1>5. QED
  BY <1>1, <1>2, <1>3, <1>4 DEF Escrow!Redeem, Held

LEMMA EscrowSettle ==
  ASSUME Inv, NEW s \in Sig, SoundSettlement(s)
  PROVE  Escrow!Settle(s) \/ UNCHANGED Escrow!vars
<1>1. PICK used \in BOOLEAN :
        Settle(s, used) /\ Verdict(s, used) /\ UNCHANGED <<now, chain>>
  BY DEF SoundSettlement
<1>2. /\ used = (s \in {r \in Sig : usedAt[r] # 0})
      /\ usedAt' = usedAt
  BY <1>1 DEF Verdict, chain
<1>3. Held' = Held
  BY SettleKeeps, HeldKept
<1>4. CASE status[s] = "pending"
  <2>1. Held[s] = EscrowTerms(terms[s])
    BY <1>4 DEF Held, Issued
  <2>2. /\ Held[s].account = terms[s].account /\ Held[s].token = terms[s].token
        /\ Escrow!Credit(Held[s], used) = IF used THEN 0 ELSE terms[s].hold
    BY <2>1 DEF EscrowTerms, Escrow!Credit
  <2>3. /\ status' = [status EXCEPT ![s] = IF used THEN "used" ELSE "unused"]
        /\ balance' = [balance EXCEPT ![terms[s].account][terms[s].token] =
                         @ + (IF used THEN 0 ELSE terms[s].hold)]
    BY <1>1, <1>4, NeverTurnedDown DEF Record
  <2>4. balance' = [balance EXCEPT ![Held[s].account][Held[s].token] =
                      @ + Escrow!Credit(Held[s], used)]
    BY <2>2, <2>3
  <2>5. QED
    BY <1>2, <1>3, <1>4, <2>3, <2>4 DEF Escrow!Settle, Held
<1>5. CASE status[s] # "pending"
  BY <1>1, <1>2, <1>3, <1>5 DEF Settle, table, Escrow!vars, Held
<1>6. QED
  BY <1>4, <1>5

LEMMA EscrowNext == Inv /\ [Next]_vars => [Escrow!Next]_(Escrow!vars)
<1> SUFFICES ASSUME Inv, [Next]_vars PROVE Escrow!Next \/ UNCHANGED Escrow!vars
  OBVIOUS
<1>1. CASE UNCHANGED <<status, terms, balance>> /\ UNCHANGED chain
  <2>1. Held' = Held
    BY <1>1, HeldKept DEF Issued
  <2>2. QED
    BY <1>1, <2>1 DEF chain, Escrow!vars, Held
<1>2. CASE MineBlock
  BY <1>2, EscrowRedeem DEF Escrow!Next
<1>3. ASSUME NEW s \in Sig, Request(s) PROVE Escrow!Next
  BY <1>3, EscrowIssue DEF Escrow!Next
<1>4. ASSUME NEW s \in Sig, SoundSettlement(s)
      PROVE  Escrow!Next \/ UNCHANGED Escrow!vars
  BY <1>4, EscrowSettle DEF Escrow!Next
<1>5. TypeOK
  BY DEF Inv, IInv
<1>6. QED
  BY <1>1, <1>2, <1>3, <1>4, <1>5, TableSteps, ChainUnlessMined DEF table, Produce

\* Withdrawals and purchases implement SignatureEscrow: what a record holds
\* comes back once, and if and only if the contract did nothing and never will.
THEOREM Refinement == Spec => ImplementsEscrow
<1>1. Inv /\ [Next]_vars => [Escrow!Next]_(Escrow!vars)
  BY EscrowNext
<1>2. Init => Escrow!Init
  BY EscrowInit
<1>3. QED
  BY <1>1, <1>2, Invariance, PTL DEF Spec, ImplementsEscrow, Escrow!Spec
=============================================================================
