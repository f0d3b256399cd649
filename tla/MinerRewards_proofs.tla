------------------------ MODULE MinerRewards_proofs ------------------------
(***************************************************************************)
(* Proofs about MinerRewards, for any accounts and relations, any finite   *)
(* set of miners, any prices, ratios and cycles, and any number of claims  *)
(* and purchases that overlap with each other and with the midnight task,  *)
(* however often the ratios are updated.                                   *)
(*                                                                         *)
(* The inductive invariants build on each other: UpdateInv (the updates of *)
(* the ratios), FreeInv (free miners and their claims), FreeRates and      *)
(* FreeMissed on top of it, RowInv (the rows of miners and the shares the  *)
(* midnight task has read), and on top of that BalanceInv (balances, their *)
(* log and what they consist of), MinerRates with BuyInv and Missed, and   *)
(* BoundsInv.  The sums are those of Sums_proofs.                          *)
(***************************************************************************)
EXTENDS MinerRewards, Sums_proofs

(***************************************************************************)
(* Arithmetic.                                                             *)
(***************************************************************************)
LEMMA DivNat ==
  ASSUME NEW x \in Nat, NEW y \in Nat \ {0}
  PROVE  x \div y \in Nat
  OBVIOUS

LEMMA ProductNat ==
  ASSUME NEW x \in Nat, NEW y \in Nat
  PROVE  x * y \in Nat
  OBVIOUS

LEMMA RateNat ==
  ASSUME NEW price \in Nat, NEW b \in Nat, NEW cycle \in Nat \ {0}
  PROVE  Rate(price, b, cycle) \in Nat
<1>1. price * b \in Nat
  BY ProductNat
<1>2. (price * b) \div 10000 \in Nat
  BY <1>1, DivNat
<1>3. QED
  BY <1>2, DivNat DEF Rate

LEMMA CycleEndNat ==
  ASSUME NEW t \in Nat, NEW cycle \in Nat \ {0}
  PROVE  CycleEnd(t, cycle) \in Nat
<1>1. Day \in Nat \ {0}
  BY ConstantsAssumption
<1>2. t \div Day \in Nat
  BY <1>1, DivNat
<1>3. (t \div Day) * Day \in Nat
  BY <1>1, <1>2, ProductNat
<1>4. QED
  BY <1>3 DEF CycleEnd

LEMMA NextCycleType ==
  ASSUME NEW cycle \in Nat \ {0}
  PROVE  NextCycle(cycle) \in Nat \ {0}
<1>1. ExtendCycle \in Nat \ {0} /\ MaxCycle \in Nat \ {0}
  BY ConstantsAssumption
<1>2. QED
  BY <1>1 DEF NextCycle, LesserOf

\* A fifth of what was paid does not shrink while more is paid.
LEMMA FifthMonotone ==
  ASSUME NEW x \in Nat, NEW y \in Nat, x <= y
  PROVE  /\ (x * 20) \div 100 \in Nat /\ (y * 20) \div 100 \in Nat
         /\ (x * 20) \div 100 <= (y * 20) \div 100
  OBVIOUS

-----------------------------------------------------------------------------
(***************************************************************************)
(* A midnight: what a free miner gets is at most what it has left.         *)
(***************************************************************************)
LEMMA ShareBound ==
  ASSUME NEW r, {r.produced, r.expected, r.last, r.rate} \subseteq Nat,
         r.produced <= r.expected, NEW t \in Nat
  PROVE  ShareOf(r, t) \in Nat /\ r.produced + ShareOf(r, t) <= r.expected
<1>1. /\ r.produced \in Nat /\ r.expected \in Nat /\ r.last \in Nat /\ r.rate \in Nat
  OBVIOUS
<1>2. CASE Active(r) /\ r.last < t
  <2>1. t - r.last \in Nat
    BY <1>1, <1>2
  <2>2. (t - r.last) * r.rate \in Nat
    BY <1>1, <2>1, ProductNat
  <2>3. QED
    BY <1>1, <1>2, <2>2 DEF ShareOf, LesserOf, Active
<1>3. CASE ~(Active(r) /\ r.last < t)
  BY <1>1, <1>3 DEF ShareOf
<1>4. QED
  BY <1>2, <1>3

\* The reset of a cycle leaves alone what was produced and claimed.
LEMMA ResetKeeps ==
  ASSUME NEW r \in FreeRow, dist.at \in Nat, NEW ratio \in Nat
  PROVE  LET s == Reset(r, FreePrice, ratio) IN
           /\ s \in FreeRow
           /\ s.produced = r.produced /\ s.expected = r.expected /\ s.claimed = r.claimed
<1>1. r.cycle \in Nat \ {0}
  BY DEF FreeRow
<1>2. NextCycle(r.cycle) \in Nat \ {0}
  BY <1>1, NextCycleType
<1>3. CycleEnd(dist.at, NextCycle(r.cycle)) \in Nat
  BY <1>2, CycleEndNat
<1>4. FreePrice \in Nat
  BY ConstantsAssumption
<1>5. Rate(FreePrice, ratio, NextCycle(r.cycle)) \in Nat
  BY <1>2, <1>4, RateNat
<1>6. QED
  BY <1>2, <1>3, <1>5 DEF Reset, FreeRow

LEMMA FreeAfterBounds ==
  ASSUME NEW a \in Account, free[a] \in FreeRow, dist.freeShare[a] \in Nat,
         free[a].produced + dist.freeShare[a] <= free[a].expected,
         dist.at \in Nat, dist.freeBp \in Nat
  PROVE  /\ FreeAfter(a) \in FreeRow
         /\ FreeAfter(a).expected = free[a].expected
         /\ FreeAfter(a).claimed = free[a].claimed
         /\ free[a].produced <= FreeAfter(a).produced
         /\ FreeAfter(a).produced <= FreeAfter(a).expected
<1> DEFINE share == dist.freeShare[a]
<1>1. PICK r \in FreeRow : r = free[a]
  OBVIOUS
<1>2. share \in Nat /\ r.produced + share <= r.expected
  BY <1>1
<1>3. FreePaid(a) = [r EXCEPT !.produced = r.produced + share,
                             !.last = IF share > 0 THEN dist.at ELSE r.last]
  BY <1>1 DEF FreePaid, FreeRow
<1> HIDE DEF share
<1>4. r.produced + share \in Nat /\ (IF share > 0 THEN dist.at ELSE r.last) \in Nat
  BY <1>2 DEF FreeRow
<1>5. /\ FreePaid(a) \in FreeRow
      /\ FreePaid(a).produced = r.produced + share
      /\ FreePaid(a).expected = r.expected /\ FreePaid(a).claimed = r.claimed
  BY <1>3, <1>4 DEF FreeRow
<1>6. /\ FreeAfter(a) \in FreeRow
      /\ FreeAfter(a).produced = r.produced + share
      /\ FreeAfter(a).expected = r.expected /\ FreeAfter(a).claimed = r.claimed
  BY <1>5, ResetKeeps DEF FreeAfter
<1>7. r.produced \in Nat
  BY DEF FreeRow
<1>8. QED
  BY <1>1, <1>2, <1>6, <1>7

\* What a claim may take leaves both limits kept.
LEMMA ClaimableBounds ==
  ASSUME NEW a \in Account, free[a] \in FreeRow, ClaimLimit(a) \in Nat, Claimable(a) > 0
  PROVE  /\ Claimable(a) \in Nat \ {0}
         /\ free[a].claimed + Claimable(a) <= free[a].produced
         /\ free[a].claimed + Claimable(a) <= ClaimLimit(a)
<1>1. free[a].produced \in Nat /\ free[a].claimed \in Nat
  BY DEF FreeRow
<1>2. QED
  BY <1>1 DEF Claimable, Clamp, LesserOf

-----------------------------------------------------------------------------
(***************************************************************************)
(* The updates of the ratios.                                              *)
(***************************************************************************)
UpdateState == [pc : {"rewrite"}, value : Bp, rows : SUBSET (Account \X Miner)]
FreeUpdateState == [pc : {"rewrite"}, value : FreeBp, rows : SUBSET Account]

UpdateInv ==
  /\ update \in {NoUpdate} \cup UpdateState
  /\ freeUpdate \in {NoUpdate} \cup FreeUpdateState
  /\ updates \in Nat /\ updates + Running <= MaxUpdates

LEMMA UpdateInit == Init => UpdateInv
  BY ConstantsAssumption DEF Init, UpdateInv, Running

\* One of them takes its snapshot.
LEMMA UpdateReadStep ==
  ASSUME UpdateInv,
         \/ \E value \in Bp : UpdateCycleRead(value)
         \/ \E value \in FreeBp : UpdateFreeRead(value)
  PROVE  UpdateInv'
<1>0. MaxUpdates \in Nat /\ updates \in Nat /\ Running \in Nat
  BY ConstantsAssumption DEF UpdateInv, Running
<1>1. ASSUME NEW value \in Bp, UpdateCycleRead(value) PROVE UpdateInv'
  <2>1. /\ update' \in UpdateState /\ update' # NoUpdate /\ update = NoUpdate
        /\ UNCHANGED <<updates, freeUpdate>> /\ updates + Running < MaxUpdates
    BY <1>1 DEF UpdateCycleRead, UpdateState, NoUpdate
  <2>2. Running' = Running + 1
    BY <2>1 DEF Running
  <2>3. updates' + Running' <= MaxUpdates
    BY <1>0, <2>1, <2>2
  <2>4. QED
    BY <2>1, <2>3 DEF UpdateInv
<1>2. ASSUME NEW value \in FreeBp, UpdateFreeRead(value) PROVE UpdateInv'
  <2>1. /\ freeUpdate' \in FreeUpdateState /\ freeUpdate' # NoUpdate /\ freeUpdate = NoUpdate
        /\ UNCHANGED <<updates, update>> /\ updates + Running < MaxUpdates
    BY <1>2 DEF UpdateFreeRead, FreeUpdateState, NoUpdate
  <2>2. Running' = Running + 1
    BY <2>1 DEF Running
  <2>3. updates' + Running' <= MaxUpdates
    BY <1>0, <2>1, <2>2
  <2>4. QED
    BY <2>1, <2>3 DEF UpdateInv
<1>3. QED
  BY <1>1, <1>2

\* One of them ends: its place is taken by a count, or by nothing.
LEMMA UpdateEndStep ==
  ASSUME UpdateInv, UpdateCycleCommit \/ UpdateFreeCommit \/ UpdateAbort
  PROVE  UpdateInv'
<1>0. /\ MaxUpdates \in Nat /\ updates \in Nat /\ Running \in Nat
      /\ updates + Running <= MaxUpdates
  BY ConstantsAssumption DEF UpdateInv, Running
<1>1. CASE UpdateCycleCommit
  <2>1. /\ update # NoUpdate /\ update' = NoUpdate /\ freeUpdate' = freeUpdate
        /\ updates' = updates + 1
    BY <1>1 DEF UpdateCycleCommit, NoUpdate
  <2>2. Running' = Running - 1
    BY <2>1 DEF Running
  <2>3. updates' \in Nat /\ updates' + Running' <= MaxUpdates
    BY <1>0, <2>1, <2>2
  <2>4. QED
    BY <2>1, <2>3 DEF UpdateInv
<1>2. CASE UpdateFreeCommit
  <2>1. /\ freeUpdate # NoUpdate /\ freeUpdate' = NoUpdate /\ update' = update
        /\ updates' = updates + 1
    BY <1>2 DEF UpdateFreeCommit, NoUpdate
  <2>2. Running' = Running - 1
    BY <2>1 DEF Running
  <2>3. updates' \in Nat /\ updates' + Running' <= MaxUpdates
    BY <1>0, <2>1, <2>2
  <2>4. QED
    BY <2>1, <2>3 DEF UpdateInv
<1>3. CASE UpdateAbort
  <2>1. /\ updates' = updates
        /\ \/ update # NoUpdate /\ update' = NoUpdate /\ freeUpdate' = freeUpdate
           \/ freeUpdate # NoUpdate /\ freeUpdate' = NoUpdate /\ update' = update
    BY <1>3 DEF UpdateAbort
  <2>2. Running' = Running - 1
    BY <2>1 DEF Running
  <2>3. updates' \in Nat /\ updates' + Running' <= MaxUpdates
    BY <1>0, <2>1, <2>2
  <2>4. QED
    BY <2>1, <2>3 DEF UpdateInv
<1>4. QED
  BY <1>1, <1>2, <1>3

LEMMA UpdateNext == UpdateInv /\ [Next]_vars => UpdateInv'
<1> SUFFICES ASSUME UpdateInv, [Next]_vars PROVE UpdateInv'
  OBVIOUS
<1>1. ASSUME UNCHANGED <<updates, update, freeUpdate>> PROVE UpdateInv'
  BY <1>1 DEF UpdateInv, Running
<1>2. CASE UNCHANGED vars
  BY <1>1, <1>2 DEF vars, config
<1>3. CASE Tick \/ MidnightTask
  BY <1>1, <1>3 DEF Tick, MidnightTask, DistributeRead, DistributeLock, DistributeFree,
     DistributeCommit, DistributeAbort, config
<1>4. ASSUME NEW a \in Account, NEW m \in Miner,
             Accelerate(a, m) \/ \E q \in Buyer : BuyRead(q, a, m)
      PROVE  UpdateInv'
  BY <1>1, <1>4 DEF Accelerate, BuyRead, config
<1>5. ASSUME NEW A \in SUBSET Account, BatchAccelerate(A) PROVE UpdateInv'
  BY <1>1, <1>5 DEF BatchAccelerate, config
<1>6. ASSUME NEW a \in Account, NEW x \in Gift,
             \/ addUserSystemReward(a, x)
             \/ \E b \in Account : transferUserBalance(a, b, x)
      PROVE  UpdateInv'
  BY <1>1, <1>6 DEF addUserSystemReward, transferUserBalance, config
<1>7. ASSUME NEW q \in Buyer, BuySave(q) PROVE UpdateInv'
  BY <1>1, <1>7 DEF BuySave, config
<1>8. ASSUME NEW q \in Starter, StartFreeMiner(q) \/ StartEnds(q) PROVE UpdateInv'
  BY <1>1, <1>8 DEF StartFreeMiner, StartEnds, config
<1>9. ASSUME NEW a \in Account, NEW t \in MinedAt[a], NEW q \in Starter, StartRead(q, a, t)
      PROVE  UpdateInv'
  BY <1>1, <1>9 DEF StartRead, config
<1>10. ASSUME NEW q \in Claimer, NEW a \in Account, ClaimRead(q, a) PROVE UpdateInv'
  BY <1>1, <1>10 DEF ClaimRead, config
<1>11. ASSUME NEW q \in Claimer, ClaimPay(q) \/ DeadlockVictim(q) PROVE UpdateInv'
  BY <1>1, <1>11 DEF ClaimPay, DeadlockVictim, config
<1>12. QED
  BY <1>2, <1>3, <1>4, <1>5, <1>6, <1>7, <1>8, <1>9, <1>10, <1>11,
     UpdateReadStep, UpdateEndStep DEF Next

LEMMA UpdateInvariance == Spec => []UpdateInv
  BY UpdateInit, UpdateNext, PTL DEF Spec

-----------------------------------------------------------------------------
(***************************************************************************)
(* The inductive invariant.  A claim computes its amount when it locks the *)
(* free miner and pays later: until then nobody else claims from that free *)
(* miner, and what it computed stays within what was produced and paid.    *)
(***************************************************************************)
ClaimState == [pc : {"pay"}, account : Account, amount : Nat \ {0}, claimed : Nat]
BuyState == [pc : {"save"}, account : Account, miner : Miner, bp : Bp]
StartState == [pc : {"insert"}, account : Account, bp : FreeBp, at : Nat]

\* The midnight task knows when it began and, at its end, the ratios.
DistTimed ==
  \E p, t, s, n, f, b, c :
    /\ t \in Nat /\ b \in Nat /\ c \in Nat
    /\ dist = [pc |-> p, at |-> t, share |-> s, seen |-> n, freeShare |-> f,
               bp |-> b, freeBp |-> c]

FreeTypes ==
  /\ now \in Nat /\ bp \in Bp /\ freeBp \in FreeBp
  /\ free \in [Account -> FreeRow]
  /\ paid \in [Account -> Nat]
  /\ claim \in [Claimer -> {NoClaim} \cup ClaimState]
  /\ buy \in [Buyer -> {NoBuy} \cup BuyState]
  /\ start \in [Starter -> {NoStart} \cup StartState]
  /\ DistTimed

Paying(q) == claim[q].pc = "pay"

\* What one claim remembers is still true.
Covered(c) ==
  /\ c.claimed = free[c.account].claimed
  /\ c.claimed + c.amount <= free[c.account].produced
  /\ c.claimed + c.amount <= ClaimLimit(c.account)

\* What the midnight task is adding to free miners fits what they have left.
FreeSharesFit ==
  dist.pc = "save" =>
    \A a \in Account : /\ dist.freeShare[a] \in Nat
                       /\ free[a].produced + dist.freeShare[a] <= free[a].expected

FreeInv ==
  /\ FreeTypes
  /\ FreeSharesFit
  /\ \A a \in Account : free[a].produced <= free[a].expected
  /\ ClaimedWithinLimits
  /\ \A q \in Claimer : Paying(q) => Covered(claim[q])
  /\ \A p, q \in Claimer :
       Paying(p) /\ Paying(q) /\ claim[p].account = claim[q].account => p = q

LEMMA LimitNat ==
  ASSUME FreeTypes, NEW a \in Account
  PROVE  ClaimLimit(a) \in Nat
  BY FifthMonotone DEF ClaimLimit, FreeTypes

LEMMA PayingType ==
  ASSUME FreeTypes, NEW q \in Claimer, Paying(q)
  PROVE  claim[q] \in ClaimState
  BY DEF FreeTypes, Paying, NoClaim

LEMMA FreeInit == Init => FreeInv
<1> SUFFICES ASSUME Init PROVE FreeInv
  OBVIOUS
<1>1. NoFree \in FreeRow /\ NoFree.produced = 0 /\ NoFree.expected = 0 /\ NoFree.claimed = 0
  BY DEF NoFree, FreeRow
<1>2. DistTimed
  BY DEF Init, NoDist, DistTimed
<1>3. FreeTypes
  <2>1. InitBp[1] \in Bp /\ InitBp[2] \in FreeBp
    BY ConstantsAssumption
  <2>2. QED
    BY <1>1, <1>2, <2>1 DEF Init, FreeTypes
<1>4. \A q \in Claimer : ~Paying(q)
  BY DEF Init, Paying, NoClaim
<1>5. \A a \in Account : free[a] = NoFree /\ ClaimLimit(a) \in Nat
  BY <1>3, LimitNat DEF Init
<1>6. ClaimedWithinLimits
  BY <1>1, <1>5 DEF ClaimedWithinLimits
<1>7. FreeSharesFit
  BY DEF Init, NoDist, FreeSharesFit
<1>8. QED
  BY <1>1, <1>3, <1>4, <1>5, <1>6, <1>7 DEF FreeInv

\* The steps that do not touch free miners, payments and claims.
LEMMA OtherStep ==
  ASSUME FreeInv, UNCHANGED <<free, paid, claim>>, FreeTypes', FreeSharesFit'
  PROVE  FreeInv'
  BY DEF FreeInv, ClaimedWithinLimits, Paying, Covered, ClaimLimit

\* The steps that leave the rest of the types alone.
LEMMA TypesKept ==
  ASSUME FreeInv, UNCHANGED <<now, bp, freeBp, buy, start>>, DistTimed',
         free' \in [Account -> FreeRow], paid' \in [Account -> Nat],
         claim' \in [Claimer -> {NoClaim} \cup ClaimState]
  PROVE  FreeTypes'
<1>1. /\ now' \in Nat /\ bp' \in Bp /\ freeBp' \in FreeBp
      /\ buy' \in [Buyer -> {NoBuy} \cup BuyState]
      /\ start' \in [Starter -> {NoStart} \cup StartState]
  BY DEF FreeInv, FreeTypes
<1>2. QED
  BY <1>1 DEF FreeTypes

LEMMA DistKept == ASSUME FreeInv, UNCHANGED dist PROVE DistTimed'
  BY DEF FreeInv, FreeTypes, DistTimed

LEMMA FreeSharesKept ==
  ASSUME FreeInv, UNCHANGED dist,
         \A a \in Account : /\ free'[a].produced = free[a].produced
                            /\ free'[a].expected = free[a].expected
  PROVE  FreeSharesFit'
  BY DEF FreeInv, FreeSharesFit

LEMMA DistNats == ASSUME FreeInv PROVE dist.at \in Nat /\ dist.bp \in Nat /\ dist.freeBp \in Nat
<1>1. PICK p, t, s, n, f, b, c :
        /\ t \in Nat /\ b \in Nat /\ c \in Nat
        /\ dist = [pc |-> p, at |-> t, share |-> s, seen |-> n, freeShare |-> f,
                   bp |-> b, freeBp |-> c]
  BY DEF FreeInv, FreeTypes, DistTimed
<1>2. QED
  BY <1>1

\* The shares of free miners are read, under their locks, and the ratios with them.
LEMMA FreeShareFits ==
  ASSUME FreeInv, NEW a \in Account
  PROVE  /\ ShareOf(free[a], dist.at) \in Nat
         /\ free[a].produced + ShareOf(free[a], dist.at) <= free[a].expected
<1>1. PICK r \in FreeRow : r = free[a]
  BY DEF FreeInv, FreeTypes
<1>2. {r.produced, r.expected, r.last, r.rate} \subseteq Nat
  BY DEF FreeRow
<1>3. r.produced <= r.expected
  BY <1>1 DEF FreeInv
<1>4. QED
  BY <1>1, <1>2, <1>3, DistNats, ShareBound

LEMMA FreeSharesRead ==
  ASSUME FreeInv, DistributeFree
  PROVE  DistTimed' /\ FreeSharesFit'
<1> DEFINE shares == [a \in Account |-> ShareOf(free[a], dist.at)]
<1>1. \A a \in Account : /\ shares[a] \in Nat
                          /\ free[a].produced + shares[a] <= free[a].expected
  BY FreeShareFits
<1>2. /\ dist' = [dist EXCEPT !.pc = "save", !.bp = bp, !.freeBp = freeBp,
                             !.freeShare = shares]
      /\ free' = free
  BY DEF DistributeFree
<1>3. bp \in Nat /\ freeBp \in Nat
  BY ConstantsAssumption DEF FreeInv, FreeTypes
<1> HIDE DEF shares
<1>4. PICK p, t, s, n, f, b, c :
        /\ t \in Nat /\ b \in Nat /\ c \in Nat
        /\ dist = [pc |-> p, at |-> t, share |-> s, seen |-> n, freeShare |-> f,
                   bp |-> b, freeBp |-> c]
  BY DEF FreeInv, FreeTypes, DistTimed
<1>5. dist' = [pc |-> "save", at |-> t, share |-> s, seen |-> n, freeShare |-> shares,
               bp |-> bp, freeBp |-> freeBp]
  BY <1>2, <1>4
<1>6. DistTimed'
  BY <1>3, <1>4, <1>5 DEF DistTimed
<1>7. FreeSharesFit'
  BY <1>1, <1>2, <1>5 DEF FreeSharesFit
<1>8. QED
  BY <1>6, <1>7

\* The midnight task commits: free miners produce.
LEMMA CommitStep == ASSUME FreeInv, DistributeCommit PROVE FreeInv'
<1>0. free \in [Account -> FreeRow] /\ dist.at \in Nat /\ dist.freeBp \in Nat
  BY DistNats DEF FreeInv, FreeTypes
<1>1. free' = [a \in Account |-> FreeAfter(a)] /\ dist' = NoDist /\ dist.pc = "save"
      /\ UNCHANGED <<now, bp, freeBp, paid, claim, buy, start>>
  BY DEF DistributeCommit, config
<1>2. ASSUME NEW a \in Account
      PROVE  /\ free'[a] \in FreeRow
             /\ free'[a].produced <= free'[a].expected
             /\ free'[a].claimed = free[a].claimed
             /\ free[a].produced <= free'[a].produced
  <2>1. /\ free'[a] = FreeAfter(a) /\ dist.freeShare[a] \in Nat
        /\ free[a].produced + dist.freeShare[a] <= free[a].expected
    BY <1>1 DEF FreeInv, FreeSharesFit
  <2>2. QED
    BY <1>0, <2>1, FreeAfterBounds
<1>3. DistTimed'
  BY <1>1 DEF DistTimed, NoDist
<1>4. FreeTypes'
  <2>1. free' \in [Account -> FreeRow]
    BY <1>1, <1>2
  <2>2. paid' \in [Account -> Nat] /\ claim' \in [Claimer -> {NoClaim} \cup ClaimState]
    BY <1>1 DEF FreeInv, FreeTypes
  <2>3. QED
    BY <1>1, <1>3, <2>1, <2>2, TypesKept
<1>5. \A a \in Account : ClaimLimit(a)' = ClaimLimit(a)
  BY <1>1 DEF ClaimLimit
<1>6. \A a \in Account : /\ free[a].produced \in Nat /\ free[a].claimed \in Nat
                          /\ free'[a].produced \in Nat
  BY <1>0, <1>2 DEF FreeRow
<1>7. ClaimedWithinLimits'
  <2>1. ASSUME NEW a \in Account
        PROVE  free'[a].claimed <= free'[a].produced /\ free'[a].claimed <= ClaimLimit(a)'
    <3>1. free[a].claimed <= free[a].produced /\ free[a].claimed <= ClaimLimit(a)
      BY DEF FreeInv, ClaimedWithinLimits
    <3>2. QED
      BY <1>2, <1>5, <1>6, <3>1
  <2>2. QED
    BY <2>1 DEF ClaimedWithinLimits
<1>8. ASSUME NEW q \in Claimer, Paying(q)' PROVE Covered(claim[q])'
  <2>1. Paying(q) /\ claim'[q] = claim[q]
    BY <1>1, <1>8 DEF Paying
  <2>2. Covered(claim[q]) /\ claim[q] \in ClaimState
    BY <2>1, PayingType DEF FreeInv
  <2>3. PICK c \in ClaimState : c = claim[q]
    BY <2>2
  <2>4. c.account \in Account /\ c.amount \in Nat /\ c.claimed \in Nat
    BY DEF ClaimState
  <2>5. Covered(c)'
    BY <1>2, <1>5, <1>6, <2>2, <2>3, <2>4 DEF Covered
  <2>6. QED
    BY <2>1, <2>3, <2>5 DEF Covered, ClaimLimit
<1>9. FreeSharesFit'
  BY <1>1 DEF FreeSharesFit, NoDist
<1>10. QED
  BY <1>1, <1>2, <1>4, <1>7, <1>8, <1>9 DEF FreeInv, Paying

\* The free ratio is updated: only rates change.
LEMMA FreeRatioStep ==
  ASSUME UpdateInv, FreeInv, UpdateFreeCommit
  PROVE  FreeInv'
<1>a. freeUpdate \in FreeUpdateState
  BY DEF UpdateInv, UpdateFreeCommit, NoUpdate
<1>b. PICK value \in FreeBp, rows \in SUBSET Account :
        value = freeUpdate.value /\ rows = freeUpdate.rows
  BY <1>a DEF FreeUpdateState
<1>0. free \in [Account -> FreeRow] /\ FreePrice \in Nat /\ value \in Nat
  BY ConstantsAssumption DEF FreeInv, FreeTypes
<1>1. /\ freeBp' = value
      /\ free' = [a \in Account |->
           IF a \in rows /\ Active(free[a])
           THEN [free[a] EXCEPT !.rate = Rate(FreePrice, value, free[a].cycle)]
           ELSE free[a]]
      /\ UNCHANGED <<now, bp, paid, dist, claim, buy, start>>
  BY <1>b DEF UpdateFreeCommit
<1>2. ASSUME NEW a \in Account
      PROVE  /\ free'[a] \in FreeRow /\ free'[a].produced = free[a].produced
             /\ free'[a].expected = free[a].expected /\ free'[a].claimed = free[a].claimed
  <2>1. PICK r \in FreeRow : r = free[a]
    BY <1>0
  <2>2. r.cycle \in Nat \ {0}
    BY DEF FreeRow
  <2>3. Rate(FreePrice, value, r.cycle) \in Nat
    BY <1>0, <2>2, RateNat
  <2>4. QED
    BY <1>1, <2>1, <2>3 DEF FreeRow
<1>3. FreeTypes'
  <2>1. free' \in [Account -> FreeRow] /\ DistTimed'
    BY <1>1, <1>2, DistKept
  <2>2. QED
    BY <1>1, <2>1 DEF FreeInv, FreeTypes
<1>4. \A a \in Account : ClaimLimit(a)' = ClaimLimit(a)
  BY <1>1 DEF ClaimLimit
<1>5. ClaimedWithinLimits'
  BY <1>2, <1>4 DEF FreeInv, ClaimedWithinLimits
<1>6. ASSUME NEW q \in Claimer, Paying(q)' PROVE Covered(claim[q])'
  <2>1. Paying(q) /\ claim'[q] = claim[q]
    BY <1>1, <1>6 DEF Paying
  <2>2. Covered(claim[q]) /\ claim[q] \in ClaimState
    BY <2>1, PayingType DEF FreeInv
  <2>3. PICK c \in ClaimState : c = claim[q]
    BY <2>2
  <2>4. c.account \in Account
    BY DEF ClaimState
  <2>5. Covered(c)'
    BY <1>2, <1>4, <2>2, <2>3, <2>4 DEF Covered
  <2>6. QED
    BY <2>1, <2>3, <2>5 DEF Covered, ClaimLimit
<1>7. \A a \in Account : free'[a].produced <= free'[a].expected
  BY <1>2 DEF FreeInv
<1>8. FreeSharesFit'
  BY <1>1, <1>2, FreeSharesKept
<1>9. QED
  BY <1>1, <1>3, <1>5, <1>6, <1>7, <1>8 DEF FreeInv, Paying

\* A purchase is settled: the limit of its account may rise.
LEMMA BuySaveStep == ASSUME FreeInv, NEW q \in Buyer, BuySave(q) PROVE FreeInv'
<1> DEFINE a == buy[q].account
           m == buy[q].miner
<1>0. /\ a \in Account /\ m \in Miner
      /\ buy \in [Buyer -> {NoBuy} \cup BuyState]
      /\ paid \in [Account -> Nat]
  <2>1. buy \in [Buyer -> {NoBuy} \cup BuyState] /\ paid \in [Account -> Nat]
    BY DEF FreeInv, FreeTypes
  <2>2. buy[q].pc = "save"
    BY DEF BuySave
  <2>3. buy[q] \in BuyState
    BY <2>1, <2>2 DEF NoBuy
  <2>4. QED
    BY <2>1, <2>3 DEF BuyState
<1>1. /\ paid' = [paid EXCEPT ![a] = @ + Price[m]]
      /\ buy' = [buy EXCEPT ![q] = NoBuy]
      /\ UNCHANGED <<now, bp, freeBp, free, claim, dist, start>>
  BY DEF BuySave, config, starts
<1>2. Price[m] \in Nat
  BY <1>0, ConstantsAssumption
<1> HIDE DEF a, m
<1>3. \A b \in Account : paid'[b] \in Nat /\ paid[b] <= paid'[b]
  BY <1>0, <1>1, <1>2
<1>4. FreeTypes'
  <2>1. paid' \in [Account -> Nat]
    BY <1>0, <1>1, <1>2
  <2>2. buy' \in [Buyer -> {NoBuy} \cup BuyState]
    BY <1>0, <1>1
  <2>3. DistTimed'
    BY <1>1, DistKept
  <2>4. QED
    BY <1>1, <2>1, <2>2, <2>3 DEF FreeInv, FreeTypes
<1>5. ASSUME NEW b \in Account
      PROVE  ClaimLimit(b) <= ClaimLimit(b)' /\ ClaimLimit(b) \in Nat /\ ClaimLimit(b)' \in Nat
  BY <1>0, <1>3, FifthMonotone DEF ClaimLimit
<1>6. \A b \in Account : free[b].claimed \in Nat
  BY DEF FreeInv, FreeTypes, FreeRow
<1>7. ClaimedWithinLimits'
  <2>1. ASSUME NEW b \in Account PROVE free[b].claimed <= ClaimLimit(b)'
    <3>1. free[b].claimed <= ClaimLimit(b)
      BY DEF FreeInv, ClaimedWithinLimits
    <3>2. QED
      BY <1>5, <1>6, <3>1
  <2>2. QED
    BY <1>1, <2>1 DEF FreeInv, ClaimedWithinLimits
<1>8. ASSUME NEW p \in Claimer, Paying(p)' PROVE Covered(claim[p])'
  <2>1. Paying(p) /\ claim'[p] = claim[p]
    BY <1>1, <1>8 DEF Paying
  <2>2. Covered(claim[p]) /\ claim[p] \in ClaimState
    BY <2>1, PayingType DEF FreeInv
  <2>3. PICK c \in ClaimState : c = claim[p]
    BY <2>2
  <2>4. c.account \in Account /\ c.amount \in Nat /\ c.claimed \in Nat
    BY DEF ClaimState
  <2>5. c.claimed + c.amount <= ClaimLimit(c.account)
    BY <2>2, <2>3 DEF Covered
  <2>6. c.claimed + c.amount <= ClaimLimit(c.account)'
    BY <1>5, <2>4, <2>5
  <2>7. Covered(c)'
    BY <1>1, <2>2, <2>3, <2>6 DEF Covered
  <2>8. QED
    BY <2>1, <2>3, <2>7 DEF Covered, ClaimLimit
<1>9. FreeSharesFit'
  BY <1>1, FreeSharesKept
<1>10. QED
  BY <1>1, <1>4, <1>7, <1>8, <1>9 DEF FreeInv, Paying

\* A claim for a free miner finds something produced, so none is open for an
\* account whose free miner starts.
LEMMA StartStep ==
  ASSUME FreeInv, NEW q \in Starter, StartFreeMiner(q)
  PROVE  FreeInv'
<1> DEFINE a == start[q].account
           r == [expected |-> FreeExpected, produced |-> 0, claimed |-> 0,
                 last |-> start[q].at, rate |-> Rate(FreePrice, start[q].bp, InitCycle),
                 cycle |-> InitCycle, end |-> CycleEnd(start[q].at, InitCycle)]
<1>0. /\ free \in [Account -> FreeRow] /\ free[a] = NoFree
      /\ start \in [Starter -> {NoStart} \cup StartState]
      /\ start[q] \in StartState
  BY DEF FreeInv, FreeTypes, StartFreeMiner, NoStart
<1>1. /\ free' = [free EXCEPT ![a] = r]
      /\ start' = [start EXCEPT ![q] = NoStart]
      /\ UNCHANGED <<now, bp, freeBp, paid, dist, claim, buy>>
  BY DEF StartFreeMiner, config
<1>2. FreePrice \in Nat /\ FreeBp \subseteq Nat /\ FreeExpected \in Nat
      /\ InitCycle \in Nat \ {0}
  BY ConstantsAssumption
<1>3. a \in Account /\ start[q].at \in Nat /\ start[q].bp \in Nat
  BY <1>0, <1>2 DEF StartState
<1>4. /\ Rate(FreePrice, start[q].bp, InitCycle) \in Nat
      /\ CycleEnd(start[q].at, InitCycle) \in Nat
  BY <1>2, <1>3, RateNat, CycleEndNat
<1>5. r \in FreeRow /\ r.produced = 0 /\ r.claimed = 0 /\ r.expected \in Nat
  BY <1>2, <1>3, <1>4 DEF FreeRow
<1> HIDE DEF r, a
<1>6. \A b \in Account : free'[b] = IF b = a THEN r ELSE free[b]
  BY <1>0, <1>1, <1>3
<1>7. FreeTypes'
  <2>1. free' \in [Account -> FreeRow] /\ DistTimed'
    BY <1>0, <1>1, <1>3, <1>5, DistKept
  <2>2. start' \in [Starter -> {NoStart} \cup StartState]
    BY <1>0, <1>1
  <2>3. QED
    BY <1>1, <2>1, <2>2 DEF FreeInv, FreeTypes
<1>8. \A b \in Account : ClaimLimit(b)' = ClaimLimit(b) /\ ClaimLimit(b) \in Nat
  BY <1>1, LimitNat DEF ClaimLimit, FreeInv
<1>9. ClaimedWithinLimits'
  BY <1>5, <1>6, <1>8 DEF FreeInv, ClaimedWithinLimits
<1>10. ASSUME NEW p \in Claimer, Paying(p)' PROVE Covered(claim[p])'
  <2>1. Paying(p) /\ claim'[p] = claim[p]
    BY <1>1, <1>10 DEF Paying
  <2>2. Covered(claim[p]) /\ claim[p] \in ClaimState
    BY <2>1, PayingType DEF FreeInv
  <2>3. PICK c \in ClaimState : c = claim[p]
    BY <2>2
  <2>4. c.account \in Account /\ c.amount \in Nat \ {0} /\ c.claimed \in Nat
    BY DEF ClaimState
  <2>5. c.account # a
    BY <1>0, <2>2, <2>3, <2>4 DEF Covered, NoFree
  <2>6. Covered(c)'
    BY <1>6, <1>8, <2>2, <2>3, <2>4, <2>5 DEF Covered
  <2>7. QED
    BY <2>1, <2>3, <2>6 DEF Covered, ClaimLimit
<1>11. \A b \in Account : free'[b].produced <= free'[b].expected
  BY <1>5, <1>6 DEF FreeInv
<1>12. FreeSharesFit'
  <2>1. ASSUME dist.pc = "save", NEW b \in Account
        PROVE  /\ dist.freeShare[b] \in Nat
               /\ free'[b].produced + dist.freeShare[b] <= free'[b].expected
    <3>1. /\ dist.freeShare[b] \in Nat
          /\ free[b].produced + dist.freeShare[b] <= free[b].expected
      BY <2>1 DEF FreeInv, FreeSharesFit
    <3>2. CASE b = a
      <4>1. free[b].produced = 0 /\ free[b].expected = 0
        BY <1>0, <3>2 DEF NoFree
      <4>2. dist.freeShare[b] = 0
        BY <3>1, <4>1
      <4>3. QED
        BY <1>5, <1>6, <3>2, <4>2
    <3>3. CASE b # a
      BY <1>6, <3>1, <3>3
    <3>4. QED
      BY <3>2, <3>3
  <2>2. QED
    BY <1>1, <2>1 DEF FreeSharesFit
<1>13. QED
  BY <1>1, <1>7, <1>9, <1>10, <1>11, <1>12 DEF FreeInv, Paying

\* A claim locks a free miner that no open claim has locked.
LEMMA ClaimReadStep ==
  ASSUME FreeInv, NEW q \in Claimer, NEW a \in Account, ClaimRead(q, a)
  PROVE  FreeInv'
<1> DEFINE c == [pc |-> "pay", account |-> a, amount |-> Claimable(a),
                 claimed |-> free[a].claimed]
<1>0. /\ free[a] \in FreeRow /\ ClaimLimit(a) \in Nat /\ Claimable(a) > 0
      /\ claim \in [Claimer -> {NoClaim} \cup ClaimState]
      /\ FreeMinerFree(a)
  BY LimitNat DEF FreeInv, FreeTypes, ClaimRead
<1>1. /\ claim' = [claim EXCEPT ![q] = c]
      /\ UNCHANGED <<now, bp, freeBp, free, paid, dist, buy, start>>
  BY DEF ClaimRead, config, starts
<1>2. /\ Claimable(a) \in Nat \ {0}
      /\ free[a].claimed + Claimable(a) <= free[a].produced
      /\ free[a].claimed + Claimable(a) <= ClaimLimit(a)
  BY <1>0, ClaimableBounds
<1>3. c \in ClaimState /\ Covered(c)
  BY <1>0, <1>2 DEF ClaimState, Covered, FreeRow
<1>4. c.account = a
  OBVIOUS
<1> HIDE DEF c
<1>5. \A p \in Claimer : claim'[p] = IF p = q THEN c ELSE claim[p]
  BY <1>0, <1>1
<1>6. FreeTypes'
  <2>1. claim' \in [Claimer -> {NoClaim} \cup ClaimState] /\ DistTimed'
    BY <1>0, <1>1, <1>3, DistKept
  <2>2. paid' \in [Account -> Nat] /\ free' \in [Account -> FreeRow]
    BY <1>1 DEF FreeInv, FreeTypes
  <2>3. QED
    BY <1>1, <2>1, <2>2, TypesKept
<1>7. ASSUME NEW p \in Claimer, Paying(p)' PROVE Covered(claim[p])'
  <2>1. Covered(claim'[p])
    BY <1>3, <1>5, <1>7 DEF Paying, FreeInv
  <2>2. QED
    BY <1>1, <2>1 DEF Covered, ClaimLimit
<1>8. ASSUME NEW p \in Claimer, NEW r \in Claimer, Paying(p)', Paying(r)',
             claim'[p].account = claim'[r].account
      PROVE  p = r
  <2>1. \A x \in Claimer : x # q => (Paying(x)' <=> Paying(x)) /\ claim'[x] = claim[x]
    BY <1>5 DEF Paying
  <2>2. \A x \in Claimer : x # q /\ Paying(x) => claim[x].account # a
    BY <1>0 DEF FreeMinerFree, Paying
  <2>3. claim'[q].account = a
    BY <1>4, <1>5
  <2>4. QED
    BY <1>8, <2>1, <2>2, <2>3 DEF FreeInv
<1>9. ClaimedWithinLimits' /\ \A b \in Account : free'[b].produced <= free'[b].expected
  BY <1>1 DEF FreeInv, ClaimedWithinLimits, ClaimLimit
<1>10. FreeSharesFit'
  BY <1>1, FreeSharesKept
<1>11. QED
  BY <1>6, <1>7, <1>8, <1>9, <1>10 DEF FreeInv

\* It pays what it computed, and only its own free miner changes.
LEMMA ClaimPayStep ==
  ASSUME FreeInv, NEW q \in Claimer, ClaimPay(q)
  PROVE  FreeInv'
<1>0. /\ free \in [Account -> FreeRow] /\ Paying(q)
      /\ claim \in [Claimer -> {NoClaim} \cup ClaimState]
  BY DEF FreeInv, FreeTypes, ClaimPay, Paying
<1>1. PICK c \in ClaimState : c = claim[q]
  BY <1>0, PayingType DEF FreeInv
<1>2. /\ free' = [free EXCEPT ![c.account].claimed = c.claimed + c.amount]
      /\ claim' = [claim EXCEPT ![q] = NoClaim]
      /\ UNCHANGED <<now, bp, freeBp, paid, dist, buy, start>>
  BY <1>1 DEF ClaimPay, config, starts
<1>3. c.account \in Account /\ c.amount \in Nat /\ c.claimed \in Nat
  BY DEF ClaimState
<1>4. PICK r \in FreeRow : r = free[c.account]
  BY <1>0, <1>3
<1> DEFINE s == [r EXCEPT !.claimed = c.claimed + c.amount]
<1>5. /\ s \in FreeRow /\ s.produced = r.produced /\ s.expected = r.expected
      /\ s.claimed = c.claimed + c.amount
  BY <1>3 DEF FreeRow
<1>6. free' = [free EXCEPT ![c.account] = s]
  BY <1>0, <1>2, <1>3, <1>4
<1> HIDE DEF s
<1>7. \A b \in Account : free'[b] = IF b = c.account THEN s ELSE free[b]
  BY <1>0, <1>3, <1>6
<1>8. FreeTypes'
  <2>1. claim' \in [Claimer -> {NoClaim} \cup ClaimState] /\ DistTimed'
    BY <1>0, <1>2, DistKept
  <2>2. paid' \in [Account -> Nat]
    BY <1>2 DEF FreeInv, FreeTypes
  <2>3. free' \in [Account -> FreeRow]
    BY <1>0, <1>5, <1>6
  <2>4. QED
    BY <1>2, <2>1, <2>2, <2>3, TypesKept
<1>9. \A b \in Account : ClaimLimit(b)' = ClaimLimit(b)
  BY <1>2 DEF ClaimLimit
<1>10. c.claimed + c.amount <= r.produced /\ c.claimed + c.amount <= ClaimLimit(c.account)
  BY <1>0, <1>1, <1>4 DEF FreeInv, Covered
<1>11. ClaimedWithinLimits'
  BY <1>5, <1>7, <1>9, <1>10 DEF FreeInv, ClaimedWithinLimits
<1>12. \A b \in Account : free'[b].produced <= free'[b].expected
  BY <1>4, <1>5, <1>7 DEF FreeInv
<1>13. \A p \in Claimer : Paying(p)' => p # q /\ Paying(p) /\ claim'[p] = claim[p]
  BY <1>0, <1>2 DEF Paying, NoClaim
<1>14. ASSUME NEW p \in Claimer, Paying(p)' PROVE Covered(claim[p])'
  <2>1. p # q /\ Paying(p) /\ claim'[p] = claim[p]
    BY <1>13, <1>14
  <2>2. Covered(claim[p]) /\ claim[p] \in ClaimState
    BY <2>1, PayingType DEF FreeInv
  <2>3. PICK d \in ClaimState : d = claim[p]
    BY <2>2
  <2>4. d.account # c.account /\ d.account \in Account
    BY <1>0, <1>1, <2>1, <2>3 DEF FreeInv, ClaimState
  <2>5. Covered(d)'
    BY <1>7, <1>9, <2>2, <2>3, <2>4 DEF Covered
  <2>6. QED
    BY <2>1, <2>3, <2>5 DEF Covered, ClaimLimit
<1>15. FreeSharesFit'
  <2>1. \A b \in Account : /\ free'[b].produced = free[b].produced
                            /\ free'[b].expected = free[b].expected
    BY <1>4, <1>5, <1>7
  <2>2. QED
    BY <1>2, <2>1, FreeSharesKept
<1>16. QED
  BY <1>8, <1>11, <1>12, <1>13, <1>14, <1>15 DEF FreeInv

\* The database ends a claim: it has written nothing.
LEMMA VictimStep ==
  ASSUME FreeInv, NEW q \in Claimer, DeadlockVictim(q)
  PROVE  FreeInv'
<1>1. /\ claim' = [claim EXCEPT ![q] = NoClaim]
      /\ UNCHANGED <<now, bp, freeBp, free, paid, dist, buy, start>>
  BY DEF DeadlockVictim, config, starts
<1>2. claim \in [Claimer -> {NoClaim} \cup ClaimState]
  BY DEF FreeInv, FreeTypes
<1>3. FreeTypes'
  <2>1. claim' \in [Claimer -> {NoClaim} \cup ClaimState] /\ DistTimed'
    BY <1>1, <1>2, DistKept
  <2>2. paid' \in [Account -> Nat] /\ free' \in [Account -> FreeRow]
    BY <1>1 DEF FreeInv, FreeTypes
  <2>3. QED
    BY <1>1, <2>1, <2>2, TypesKept
<1>4. \A p \in Claimer : Paying(p)' => Paying(p) /\ claim'[p] = claim[p]
  BY <1>1, <1>2 DEF Paying, NoClaim
<1>5. \A p \in Claimer : Paying(p)' => Covered(claim[p])'
  BY <1>1, <1>4 DEF FreeInv, Covered, ClaimLimit
<1>6. FreeSharesFit'
  BY <1>1, FreeSharesKept
<1>7. QED
  BY <1>1, <1>3, <1>4, <1>5, <1>6 DEF FreeInv, ClaimedWithinLimits, ClaimLimit

LEMMA FreeNext == UpdateInv /\ FreeInv /\ [Next]_vars => FreeInv'
<1> SUFFICES ASSUME UpdateInv, FreeInv, [Next]_vars PROVE FreeInv'
  OBVIOUS
<1>1. ASSUME UNCHANGED <<now, bp, freeBp, free, paid, claim, buy, start>>, DistTimed',
             FreeSharesFit'
      PROVE  FreeInv'
  <2>1. /\ free' \in [Account -> FreeRow] /\ paid' \in [Account -> Nat]
        /\ claim' \in [Claimer -> {NoClaim} \cup ClaimState]
    BY <1>1 DEF FreeInv, FreeTypes
  <2>2. QED
    BY <1>1, <2>1, TypesKept, OtherStep
<1>2. CASE Tick
  <2>1. now' \in Nat /\ UNCHANGED <<bp, freeBp, free, paid, claim, buy, start, dist>>
    BY <1>2 DEF Tick, config, starts, FreeInv, FreeTypes
  <2>2. FreeTypes'
    BY <2>1, DistKept DEF FreeInv, FreeTypes
  <2>3. QED
    BY <2>1, <2>2, OtherStep, FreeSharesKept
<1>3. CASE DistributeRead
  <2>a. PICK s : dist' = [NoDist EXCEPT !.pc = "lock", !.at = now, !.share = s]
    BY <1>3 DEF DistributeRead
  <2>b. dist' = [pc |-> "lock", at |-> now, share |-> s, seen |-> [a \in Account |-> 0],
                 freeShare |-> [a \in Account |-> 0], bp |-> 0, freeBp |-> 0]
    BY <2>a DEF NoDist
  <2>c. now \in Nat
    BY DEF FreeInv, FreeTypes
  <2>1. DistTimed' /\ FreeSharesFit'
    BY <2>b, <2>c DEF DistTimed, FreeSharesFit
  <2>2. QED
    BY <1>1, <1>3, <2>1 DEF DistributeRead, config, starts
<1>4. CASE DistributeLock
  <2>1. PICK p, t, s, n, f, b, c :
          /\ t \in Nat /\ b \in Nat /\ c \in Nat
          /\ dist = [pc |-> p, at |-> t, share |-> s, seen |-> n, freeShare |-> f,
                     bp |-> b, freeBp |-> c]
    BY DEF FreeInv, FreeTypes, DistTimed
  <2>2. \E m : dist' = [dist EXCEPT !.pc = "pay", !.seen = m]
    BY <1>4 DEF DistributeLock
  <2>3. PICK m : dist' = [dist EXCEPT !.pc = "pay", !.seen = m]
    BY <2>2
  <2>4. dist' = [pc |-> "pay", at |-> t, share |-> s, seen |-> m, freeShare |-> f,
                 bp |-> b, freeBp |-> c]
    BY <2>1, <2>3
  <2>5. DistTimed' /\ FreeSharesFit'
    BY <2>1, <2>4 DEF DistTimed, FreeSharesFit
  <2>6. QED
    BY <1>1, <1>4, <2>5 DEF DistributeLock, config, starts
<1>5. CASE DistributeAbort
  <2>1. DistTimed' /\ FreeSharesFit'
    BY <1>5 DEF DistributeAbort, DistTimed, FreeSharesFit, NoDist
  <2>2. QED
    BY <1>1, <1>5, <2>1 DEF DistributeAbort, config, starts
<1>6. CASE UpdateCycleCommit
  <2>1. update \in UpdateState
    BY <1>6 DEF UpdateInv, UpdateCycleCommit, NoUpdate
  <2>2. bp' \in Bp /\ UNCHANGED <<now, freeBp, free, paid, claim, buy, start, dist>>
    BY <1>6, <2>1 DEF UpdateCycleCommit, UpdateState, starts
  <2>3. FreeTypes'
    BY <2>2, DistKept DEF FreeInv, FreeTypes
  <2>4. QED
    BY <2>2, <2>3, OtherStep, FreeSharesKept
<1>7. ASSUME NEW q \in Buyer, NEW a \in Account, NEW m \in Miner, BuyRead(q, a, m)
      PROVE  FreeInv'
  <2>1. /\ buy' = [buy EXCEPT ![q] =
                     [pc |-> "save", account |-> a, miner |-> m, bp |-> bp]]
        /\ UNCHANGED <<now, bp, freeBp, free, paid, claim, start, dist>>
    BY <1>7 DEF BuyRead, config, starts
  <2>2. [pc |-> "save", account |-> a, miner |-> m, bp |-> bp] \in BuyState
    BY DEF BuyState, FreeInv, FreeTypes
  <2>3. FreeTypes'
    BY <2>1, <2>2, DistKept DEF FreeInv, FreeTypes
  <2>4. QED
    BY <2>1, <2>3, OtherStep, FreeSharesKept
<1>8. ASSUME UNCHANGED <<now, bp, freeBp, free, paid, claim, buy, start, dist>> PROVE FreeInv'
  BY <1>1, <1>8, DistKept, FreeSharesKept
<1>9. ASSUME NEW a \in Account, NEW m \in Miner, Accelerate(a, m) PROVE FreeInv'
  BY <1>8, <1>9 DEF Accelerate, config, starts
<1>10. ASSUME NEW A \in SUBSET Account, BatchAccelerate(A) PROVE FreeInv'
  BY <1>8, <1>10 DEF BatchAccelerate, config, starts
<1>11. ASSUME NEW a \in Account, NEW x \in Gift,
              \/ addUserSystemReward(a, x)
              \/ \E b \in Account : transferUserBalance(a, b, x)
       PROVE  FreeInv'
  BY <1>8, <1>11 DEF addUserSystemReward, transferUserBalance, config, starts
<1>12. CASE UNCHANGED vars
  BY <1>8, <1>12 DEF vars, config, starts
<1>13. ASSUME UNCHANGED <<now, bp, freeBp, free, paid, claim, buy, dist>>,
              start' \in [Starter -> {NoStart} \cup StartState]
       PROVE  FreeInv'
  <2>1. FreeTypes'
    BY <1>13, DistKept DEF FreeInv, FreeTypes
  <2>2. QED
    BY <1>13, <2>1, OtherStep, FreeSharesKept
<1>14. ASSUME NEW q \in Starter, NEW a \in Account, NEW t \in MinedAt[a], StartRead(q, a, t)
       PROVE  FreeInv'
  <2>1. GreaterOf(t, StartAt) \in Nat
    BY ConstantsAssumption DEF GreaterOf
  <2>2. [pc |-> "insert", account |-> a, bp |-> freeBp, at |-> GreaterOf(t, StartAt)]
          \in StartState
    BY <2>1 DEF StartState, FreeInv, FreeTypes
  <2>3. start' \in [Starter -> {NoStart} \cup StartState]
    BY <1>14, <2>2 DEF StartRead, FreeInv, FreeTypes
  <2>4. QED
    BY <1>13, <1>14, <2>3 DEF StartRead, config
<1>15. ASSUME NEW q \in Starter, StartEnds(q) PROVE FreeInv'
  <2>1. start' \in [Starter -> {NoStart} \cup StartState]
    BY <1>15 DEF StartEnds, FreeInv, FreeTypes
  <2>2. QED
    BY <1>13, <1>15, <2>1 DEF StartEnds, config
<1>16. CASE DistributeFree
  BY <1>1, <1>16, FreeSharesRead DEF DistributeFree, config, starts
<1>17. ASSUME \/ \E value \in Bp : UpdateCycleRead(value)
              \/ \E value \in FreeBp : UpdateFreeRead(value)
              \/ UpdateAbort
       PROVE  FreeInv'
  BY <1>8, <1>17 DEF UpdateCycleRead, UpdateFreeRead, UpdateAbort, starts
<1>18. QED
  BY <1>2, <1>3, <1>4, <1>5, <1>6, <1>7, <1>9, <1>10, <1>11, <1>12, <1>14, <1>15, <1>16, <1>17,
     CommitStep, BuySaveStep, FreeRatioStep, StartStep, ClaimReadStep, ClaimPayStep, VictimStep
  DEF Next, MidnightTask

LEMMA FreeInvariance == Spec => []FreeInv
  BY FreeInit, FreeNext, UpdateInvariance, PTL DEF Spec

\* However many claims of an account overlap with each other, with the midnight
\* task and with the settlement of its purchases, what it has claimed is never
\* more than its free miner produced, nor than a fifth of what it paid.
THEOREM ClaimLimits == Spec => []ClaimedWithinLimits
<1>1. FreeInv => ClaimedWithinLimits
  BY DEF FreeInv
<1>2. QED
  BY <1>1, FreeInvariance, PTL

-----------------------------------------------------------------------------
(***************************************************************************)
(* The rates of free miners.                                               *)
(***************************************************************************)
\* Whatever a midnight adds and resets, the rate goes with the cycle.
LEMMA FreeRateAfter ==
  ASSUME FreeInv, dist.pc = "save", NEW a \in Account, Active(FreeAfter(a)),
         FreeWasReset(a) => dist.freeBp = freeBp,
         ~FreeWasReset(a) => free[a].rate = Rate(FreePrice, freeBp, free[a].cycle)
                               \/ ~Active(free[a])
  PROVE  FreeAfter(a).rate = Rate(FreePrice, freeBp, FreeAfter(a).cycle)
<1>0. dist.at \in Nat /\ free[a] \in FreeRow /\ dist.freeShare[a] \in Nat
  BY DistNats DEF FreeInv, FreeTypes, FreeSharesFit
<1> DEFINE share == dist.freeShare[a]
           s == FreePaid(a)
<1>1. PICK r \in FreeRow : r = free[a]
  BY <1>0
<1>2. share \in Nat /\ r.produced \in Nat /\ r.expected \in Nat /\ r.cycle \in Nat \ {0}
  BY <1>0 DEF FreeRow
<1>3. s = [r EXCEPT !.produced = r.produced + share,
                    !.last = IF share > 0 THEN dist.at ELSE r.last]
  BY <1>1 DEF FreePaid, FreeRow
<1> HIDE DEF share
<1>4. /\ s.rate = r.rate /\ s.cycle = r.cycle /\ s.end = r.end /\ s.expected = r.expected
      /\ s.produced = r.produced + share
      /\ s = [expected |-> s.expected, produced |-> s.produced, claimed |-> s.claimed,
              last |-> s.last, rate |-> s.rate, cycle |-> s.cycle, end |-> s.end]
  BY <1>3 DEF FreeRow
<1> HIDE DEF s
<1>5. FreeAfter(a) = Reset(s, FreePrice, dist.freeBp)
  BY DEF FreeAfter, s
<1>6. CASE FreeWasReset(a)
  <2>1. Active(s) /\ s.end <= dist.at
    BY <1>1, <1>4, <1>6 DEF FreeWasReset, s
  <2>2. /\ FreeAfter(a).cycle = NextCycle(s.cycle)
        /\ FreeAfter(a).rate = Rate(FreePrice, dist.freeBp, NextCycle(s.cycle))
    BY <1>4, <1>5, <2>1 DEF Reset
  <2>3. QED
    BY <1>6, <2>2
<1>7. CASE ~FreeWasReset(a)
  <2>1. ~(Active(s) /\ s.end <= dist.at)
    BY <1>1, <1>4, <1>7 DEF FreeWasReset, s
  <2>2. FreeAfter(a) = s
    BY <1>5, <2>1 DEF Reset
  <2>3. Active(r)
    BY <1>2, <1>4, <2>2 DEF Active
  <2>4. QED
    BY <1>1, <1>4, <1>7, <2>2, <2>3
<1>8. QED
  BY <1>6, <1>7

\* An update that commits between the midnight task's reading of the ratio and its
\* commit does not find the free miners the task is adding to.
FreeMissed ==
  dist.pc = "save" /\ dist.freeBp # freeBp =>
    \A a \in Account : dist.freeShare[a] > 0 => a \in freeStale

LEMMA FreeRatesCommit ==
  ASSUME FreeInv, FreeMissed, FreeRates, DistributeCommit
  PROVE  FreeRates'
<1> DEFINE reset == {a \in Account : FreeWasReset(a)}
<1>1. /\ dist.pc = "save"
      /\ free' = [a \in Account |-> FreeAfter(a)]
      /\ freeStale' = IF dist.freeBp = freeBp THEN freeStale \ reset
                      ELSE freeStale \cup {a \in reset : ~FreeLocked(a)}
      /\ freeBp' = freeBp
  BY DEF DistributeCommit, config
<1>2. SUFFICES ASSUME NEW a \in Account, Active(FreeAfter(a)), a \notin freeStale'
               PROVE  FreeAfter(a).rate = Rate(FreePrice, freeBp, FreeAfter(a).cycle)
  BY <1>1 DEF FreeRates, Active, Rate
<1>3. ~FreeWasReset(a) => a \notin freeStale
  BY <1>1, <1>2
<1>4. FreeWasReset(a) => dist.freeBp = freeBp
  BY <1>1, <1>2 DEF FreeMissed, FreeLocked
<1>5. QED
  BY <1>1, <1>2, <1>3, <1>4, FreeRateAfter DEF FreeRates

\* Only the midnight task moves itself on, ...
LEMMA DistAfter ==
  ASSUME FreeInv, MidnightTask
  PROVE  \/ dist'.pc # "save"
         \/ /\ dist'.bp = bp /\ dist'.freeBp = freeBp
            /\ UNCHANGED <<bp, freeBp, stale, freeStale>>
<1>1. PICK p, t, s, n, f, b, c :
        dist = [pc |-> p, at |-> t, share |-> s, seen |-> n, freeShare |-> f,
                bp |-> b, freeBp |-> c]
  BY DEF FreeInv, FreeTypes, DistTimed
<1>2. CASE DistributeRead
  <2>1. \E x, y : dist' = [NoDist EXCEPT !.pc = "lock", !.at = x, !.share = y]
    BY <1>2 DEF DistributeRead
  <2>2. PICK x, y : dist' = [NoDist EXCEPT !.pc = "lock", !.at = x, !.share = y]
    BY <2>1
  <2>3. QED
    BY <2>2 DEF NoDist
<1>3. CASE DistributeLock
  <2>1. \E x : dist' = [dist EXCEPT !.pc = "pay", !.seen = x]
    BY <1>3 DEF DistributeLock
  <2>2. PICK x : dist' = [dist EXCEPT !.pc = "pay", !.seen = x]
    BY <2>1
  <2>3. QED
    BY <1>1, <2>2
<1>4. CASE DistributeFree
  <2>1. \E x : dist' = [dist EXCEPT !.pc = "save", !.bp = bp, !.freeBp = freeBp, !.freeShare = x]
    BY <1>4 DEF DistributeFree
  <2>2. PICK x : dist' = [dist EXCEPT !.pc = "save", !.bp = bp, !.freeBp = freeBp, !.freeShare = x]
    BY <2>1
  <2>3. dist'.bp = bp /\ dist'.freeBp = freeBp
    BY <1>1, <2>2
  <2>4. QED
    BY <1>4, <2>3 DEF DistributeFree, config, starts
<1>5. CASE DistributeCommit \/ DistributeAbort
  BY <1>5 DEF DistributeCommit, DistributeAbort, NoDist
<1>6. QED
  BY <1>2, <1>3, <1>4, <1>5 DEF MidnightTask

\* ... and few other steps touch the ratios or what is stale.
LEMMA Elsewhere ==
  ASSUME [Next]_vars, ~MidnightTask
  PROVE  /\ UNCHANGED dist
         /\ \/ UpdateCycleCommit
            \/ \E q \in Buyer : BuySave(q)
            \/ UNCHANGED <<bp, stale>>
         /\ \/ UpdateFreeCommit
            \/ \E q \in Starter : StartFreeMiner(q)
            \/ UNCHANGED <<freeBp, freeStale>>
<1> DEFINE Rest == UNCHANGED <<dist, bp, stale, freeBp, freeStale>>
<1>1. CASE UNCHANGED vars
  BY <1>1 DEF vars, config, starts
<1>2. CASE Tick
  BY <1>2 DEF Tick, config, starts
<1>3. ASSUME NEW a \in Account, NEW m \in Miner,
             Accelerate(a, m) \/ \E q \in Buyer : BuyRead(q, a, m)
      PROVE  Rest
  BY <1>3 DEF Accelerate, BuyRead, config, starts
<1>4. ASSUME NEW A \in SUBSET Account, BatchAccelerate(A) PROVE Rest
  BY <1>4 DEF BatchAccelerate, config, starts
<1>5. ASSUME \/ \E value \in Bp : UpdateCycleRead(value)
             \/ \E value \in FreeBp : UpdateFreeRead(value)
             \/ UpdateAbort
      PROVE  Rest
  BY <1>5 DEF UpdateCycleRead, UpdateFreeRead, UpdateAbort, starts
<1>6. ASSUME NEW a \in Account, NEW x \in Gift,
             \/ addUserSystemReward(a, x)
             \/ \E b \in Account : transferUserBalance(a, b, x)
      PROVE  Rest
  BY <1>6 DEF addUserSystemReward, transferUserBalance, config, starts
<1>7. ASSUME NEW q \in Starter, NEW a \in Account, NEW t \in MinedAt[a], StartRead(q, a, t)
      PROVE  Rest
  BY <1>7 DEF StartRead, config
<1>8. ASSUME NEW q \in Starter, StartEnds(q) PROVE Rest
  BY <1>8 DEF StartEnds, config
<1>9. ASSUME NEW q \in Claimer, NEW a \in Account, ClaimRead(q, a) PROVE Rest
  BY <1>9 DEF ClaimRead, config, starts
<1>10. ASSUME NEW q \in Claimer, ClaimPay(q) \/ DeadlockVictim(q) PROVE Rest
  BY <1>10 DEF ClaimPay, DeadlockVictim, config, starts
<1>11. CASE UpdateCycleCommit
  BY <1>11 DEF UpdateCycleCommit, starts
<1>12. CASE UpdateFreeCommit
  BY <1>12 DEF UpdateFreeCommit
<1>13. ASSUME NEW q \in Buyer, BuySave(q) PROVE UNCHANGED <<dist, freeBp, freeStale>>
  BY <1>13 DEF BuySave, config, starts
<1>14. ASSUME NEW q \in Starter, StartFreeMiner(q) PROVE UNCHANGED <<dist, bp, stale>>
  BY <1>14 DEF StartFreeMiner, config
<1>15. QED
  BY <1>1, <1>2, <1>3, <1>4, <1>5, <1>6, <1>7, <1>8, <1>9, <1>10, <1>11, <1>12, <1>13, <1>14
  DEF Next

LEMMA FreeMissedNext == UpdateInv /\ FreeInv /\ FreeMissed /\ [Next]_vars => FreeMissed'
<1> SUFFICES ASSUME UpdateInv, FreeInv, FreeMissed, [Next]_vars PROVE FreeMissed'
  OBVIOUS
<1>1. CASE MidnightTask
  BY <1>1, DistAfter DEF FreeMissed
<1>2. CASE UpdateFreeCommit
  <2>1. /\ freeStale' = {a \in Account : Active(free[a]) /\ a \notin freeUpdate.rows}
        /\ \A a \in freeUpdate.rows : ~FreeLocked(a)
        /\ dist' = dist
    BY <1>2 DEF UpdateFreeCommit
  <2>2. ASSUME dist.pc = "save", NEW a \in Account, dist.freeShare[a] > 0
        PROVE  a \in freeStale'
    <3>1. a \notin freeUpdate.rows
      BY <2>1, <2>2 DEF FreeLocked
    <3>2. /\ dist.freeShare[a] \in Nat
          /\ free[a].produced + dist.freeShare[a] <= free[a].expected
          /\ free[a] \in FreeRow
      BY <2>2 DEF FreeInv, FreeSharesFit, FreeTypes
    <3>3. free[a].produced \in Nat /\ free[a].expected \in Nat
      BY <3>2 DEF FreeRow
    <3>4. Active(free[a])
      BY <2>2, <3>2, <3>3 DEF Active
    <3>5. QED
      BY <2>1, <3>1, <3>4
  <2>3. QED
    BY <2>1, <2>2 DEF FreeMissed
<1>3. ASSUME NEW q \in Starter, StartFreeMiner(q) PROVE FreeMissed'
  <2>1. UNCHANGED <<dist, freeBp>> /\ freeStale \subseteq freeStale'
    BY <1>3 DEF StartFreeMiner, config
  <2>2. QED
    BY <2>1 DEF FreeMissed
<1>4. CASE UNCHANGED <<dist, freeBp, freeStale>>
  BY <1>4 DEF FreeMissed
<1>5. QED
  BY <1>1, <1>2, <1>3, <1>4, Elsewhere

LEMMA FreeRatesNext ==
  UpdateInv /\ FreeInv /\ FreeMissed /\ FreeRates /\ [Next]_vars => FreeRates'
<1> SUFFICES ASSUME UpdateInv, FreeInv, FreeMissed, FreeRates, [Next]_vars PROVE FreeRates'
  OBVIOUS
<1>0. free \in [Account -> FreeRow] /\ claim \in [Claimer -> {NoClaim} \cup ClaimState]
  BY DEF FreeInv, FreeTypes
<1>1. ASSUME UNCHANGED <<freeBp, free, freeStale>> PROVE FreeRates'
  BY <1>1 DEF FreeRates
<1>2. CASE UpdateFreeCommit
  <2>a. PICK value, rows : value = freeUpdate.value /\ rows = freeUpdate.rows
    OBVIOUS
  <2>1. /\ free' = [a \in Account |->
             IF a \in rows /\ Active(free[a])
             THEN [free[a] EXCEPT !.rate = Rate(FreePrice, value, free[a].cycle)]
             ELSE free[a]]
        /\ freeBp' = value
        /\ freeStale' = {a \in Account : Active(free[a]) /\ a \notin rows}
    BY <1>2, <2>a DEF UpdateFreeCommit
  <2>2. ASSUME NEW a \in Account, Active(free'[a]), a \notin freeStale'
        PROVE  free'[a].rate = Rate(FreePrice, value, free'[a].cycle)
    <3>1. CASE Active(free[a])
      <4>1. PICK r \in FreeRow : r = free[a]
        BY <1>0
      <4>a. a \in rows
        BY <2>1, <2>2, <3>1
      <4>2. free'[a] = [r EXCEPT !.rate = Rate(FreePrice, value, r.cycle)]
        BY <2>1, <3>1, <4>1, <4>a
      <4>3. free'[a].rate = Rate(FreePrice, value, r.cycle) /\ free'[a].cycle = r.cycle
        BY <4>2 DEF FreeRow
      <4>4. QED
        BY <4>3
    <3>2. CASE ~Active(free[a])
      BY <2>1, <2>2, <3>2 DEF Active
    <3>3. QED
      BY <3>1, <3>2
  <2>3. QED
    BY <2>1, <2>2 DEF FreeRates, Rate, Active
<1>3. ASSUME NEW q \in Starter, StartFreeMiner(q) PROVE FreeRates'
  <2>1. PICK a, c : /\ a = start[q].account /\ c = start[q].at
    OBVIOUS
  <2> DEFINE r == [expected |-> FreeExpected, produced |-> 0, claimed |-> 0, last |-> c,
                   rate |-> Rate(FreePrice, start[q].bp, InitCycle), cycle |-> InitCycle,
                   end |-> CycleEnd(c, InitCycle)]
  <2>2. /\ free' = [free EXCEPT ![a] = r]
        /\ freeStale' = IF start[q].bp = freeBp THEN freeStale ELSE freeStale \cup {a}
        /\ freeBp' = freeBp
    BY <1>3, <2>1 DEF StartFreeMiner, config
  <2>3. \A b \in Account : b # a => free'[b] = free[b]
    BY <1>0, <2>2
  <2>4. ASSUME a \in Account, a \notin freeStale'
        PROVE  free'[a].rate = Rate(FreePrice, freeBp, free'[a].cycle)
    <3>1. start[q].bp = freeBp
      BY <2>2, <2>4
    <3>2. free'[a] = r
      BY <1>0, <2>2, <2>4
    <3>3. QED
      BY <3>1, <3>2
  <2>5. ASSUME NEW b \in Account, b # a, Active(free'[b]), b \notin freeStale'
        PROVE  free'[b].rate = Rate(FreePrice, freeBp, free'[b].cycle)
    BY <2>2, <2>3, <2>5 DEF FreeRates
  <2>6. QED
    BY <2>2, <2>4, <2>5 DEF FreeRates, Rate, Active
<1>4. ASSUME NEW q \in Claimer, ClaimPay(q) PROVE FreeRates'
  <2>1. PICK a, n : free' = [free EXCEPT ![a].claimed = n]
    BY <1>4 DEF ClaimPay
  <2>2. UNCHANGED <<freeBp, freeStale>>
    BY <1>4 DEF ClaimPay, config, starts
  <2>3. ASSUME NEW b \in Account
        PROVE  /\ free'[b].rate = free[b].rate /\ free'[b].cycle = free[b].cycle
               /\ free'[b].produced = free[b].produced
               /\ free'[b].expected = free[b].expected
    <3>1. PICK r \in FreeRow : r = free[b]
      BY <1>0
    <3>2. free'[b] = r \/ free'[b] = [r EXCEPT !.claimed = n]
      BY <1>0, <2>1, <3>1
    <3>3. QED
      BY <3>1, <3>2 DEF FreeRow
  <2>4. QED
    BY <2>2, <2>3 DEF FreeRates, Rate, Active
<1>5. CASE UNCHANGED vars
  BY <1>1, <1>5 DEF vars, config, starts
<1>6. CASE Tick \/ DistributeRead \/ DistributeLock \/ DistributeFree \/ DistributeAbort
  BY <1>1, <1>6 DEF Tick, DistributeRead, DistributeLock, DistributeFree, DistributeAbort,
     config, starts
<1>7. ASSUME NEW a \in Account, NEW m \in Miner,
             Accelerate(a, m) \/ \E q \in Buyer : BuyRead(q, a, m)
      PROVE  FreeRates'
  BY <1>1, <1>7 DEF Accelerate, BuyRead, config, starts
<1>8. ASSUME NEW A \in SUBSET Account, BatchAccelerate(A) PROVE FreeRates'
  BY <1>1, <1>8 DEF BatchAccelerate, config, starts
<1>9. ASSUME \/ UpdateCycleCommit \/ UpdateAbort
             \/ \E value \in Bp : UpdateCycleRead(value)
             \/ \E value \in FreeBp : UpdateFreeRead(value)
      PROVE  FreeRates'
  BY <1>1, <1>9 DEF UpdateCycleCommit, UpdateAbort, UpdateCycleRead, UpdateFreeRead, starts
<1>10. ASSUME NEW q \in Buyer, BuySave(q) PROVE FreeRates'
  BY <1>1, <1>10 DEF BuySave, config, starts
<1>11. ASSUME NEW a \in Account, NEW x \in Gift,
              \/ addUserSystemReward(a, x)
              \/ \E b \in Account : transferUserBalance(a, b, x)
       PROVE  FreeRates'
  BY <1>1, <1>11 DEF addUserSystemReward, transferUserBalance, config, starts
<1>12. ASSUME NEW q \in Starter, NEW a \in Account, NEW t \in MinedAt[a],
              StartRead(q, a, t)
       PROVE  FreeRates'
  BY <1>1, <1>12 DEF StartRead, config
<1>13. ASSUME NEW q \in Starter, StartEnds(q) PROVE FreeRates'
  BY <1>1, <1>13 DEF StartEnds, config
<1>14. ASSUME NEW q \in Claimer, NEW a \in Account, ClaimRead(q, a) PROVE FreeRates'
  BY <1>1, <1>14 DEF ClaimRead, config, starts
<1>15. ASSUME NEW q \in Claimer, DeadlockVictim(q) PROVE FreeRates'
  BY <1>1, <1>15 DEF DeadlockVictim, config, starts
<1>16. QED
  BY <1>2, <1>3, <1>4, <1>5, <1>6, <1>7, <1>8, <1>9, <1>10, <1>11, <1>12, <1>13, <1>14,
     <1>15, FreeRatesCommit DEF Next, MidnightTask

LEMMA FreeRatesInvariance == Spec => []FreeRates
<1>1. Init => FreeRates /\ FreeMissed
  BY DEF Init, FreeRates, FreeMissed, NoFree, NoDist, Active
<1>2. QED
  BY <1>1, UpdateInvariance, FreeInvariance, FreeMissedNext, FreeRatesNext, PTL DEF Spec

-----------------------------------------------------------------------------
(***************************************************************************)
(* The sums of the midnight task and of the accelerations.                 *)
(***************************************************************************)
DistState == [pc : {"idle", "lock", "pay", "save"}, at : 0..MaxNow,
              share : [Account -> [Miner -> Nat]], seen : [Account -> Nat],
              freeShare : [Account -> Nat], bp : Nat, freeBp : Nat]

\* What the midnight task has read fits what miners have left to produce.
SharesFit ==
  dist.pc # "idle" =>
    \A a \in Account, m \in Miner :
      miner[a][m].produced + dist.share[a][m] <= miner[a][m].expected

MinersBounded ==
  \A a \in Account, m \in Miner : miner[a][m].produced <= miner[a][m].expected

RowTypes ==
  /\ now \in 0..MaxNow
  /\ miner \in [Account -> [Miner -> Row]]
  /\ balance \in [Account -> Nat]
  /\ dist \in DistState

RowInv == RowTypes /\ MinersBounded /\ SharesFit

LEMMA RowType ==
  ASSUME miner \in [Account -> [Miner -> Row]], NEW a \in Account, NEW m \in Miner
  PROVE  /\ miner[a][m] \in Row
         /\ miner[a][m].expected \in Nat /\ miner[a][m].produced \in Nat
         /\ miner[a][m].last \in Nat /\ miner[a][m].rate \in Nat
         /\ miner[a][m].cycle \in Nat \ {0} /\ miner[a][m].end \in Nat
         /\ miner[a][m].id \in 0..Cardinality(Miner)
<1>1. miner[a][m] \in Row
  OBVIOUS
<1>2. QED
  BY <1>1 DEF Row

LEMMA ShareType ==
  ASSUME dist \in DistState, NEW a \in Account
  PROVE  /\ dist.pc \in {"idle", "lock", "pay", "save"} /\ dist.at \in 0..MaxNow
         /\ dist.bp \in Nat /\ dist.seen[a] \in Nat /\ NatOn(dist.share[a], Miner)
         /\ \A m \in Miner : dist.share[a][m] \in Nat
  BY TablesAssumption DEF DistState, NatOn

LEMMA TotalShareType ==
  ASSUME dist \in DistState, NEW a \in Account
  PROVE  /\ TotalShare(a) \in Nat
         /\ TotalShare(a) > 0 <=> \E m \in Miner : dist.share[a][m] > 0
  BY ShareType, SumNat, SumPositive DEF TotalShare

LEMMA TeamRewardInt ==
  ASSUME dist \in DistState, NEW a \in Account
  PROVE  TeamReward(a) \in Int
<1> DEFINE rows == {r \in Relation : r.superior = a /\ r.level <= CommissionLevel(a)}
           part(r) == [m \in Miner |-> (dist.share[r.subordinate][m] * TeamBp) \div 10000]
           g == [r \in rows |-> SumFunction(part(r))]
<1>1. ASSUME NEW r \in Relation PROVE SumFunction(part(r)) \in Nat
  <2>1. r.subordinate \in Account
    BY TablesAssumption
  <2>2. \A m \in Miner : (dist.share[r.subordinate][m] * TeamBp) \div 10000 \in Nat
    <3>1. SUFFICES ASSUME NEW m \in Miner
                   PROVE  (dist.share[r.subordinate][m] * TeamBp) \div 10000 \in Nat
      OBVIOUS
    <3>2. dist.share[r.subordinate][m] \in Nat /\ TeamBp \in Nat
      BY <2>1, ShareType, ConstantsAssumption
    <3>3. dist.share[r.subordinate][m] * TeamBp \in Nat
      BY <3>2, ProductNat
    <3>4. QED
      BY <3>3, DivNat
  <2>3. NatOn(part(r), Miner) /\ DOMAIN part(r) = Miner
    BY <2>2, TablesAssumption DEF NatOn
  <2> HIDE DEF part
  <2>4. QED
    BY <2>3, SumNat DEF SumFunction
<1>2. IsFiniteSet(rows)
  BY TablesAssumption, FS_Subset
<1>3. Summable(g, rows) /\ DOMAIN g = rows
  <2> HIDE DEF part
  <2>1. \A r \in rows : g[r] \in Int
    BY <1>1
  <2> HIDE DEF g, rows
  <2>2. Summable(g, rows)
    BY <1>2, <2>1 DEF Summable
  <2>3. QED
    BY <2>2 DEF g
<1>4. TeamReward(a) = SumFunction(g)
  BY DEF TeamReward
<1> HIDE DEF g, rows
<1>5. QED
  BY <1>3, <1>4, SumInt DEF SumFunction

LEMMA ClampBounds ==
  ASSUME NEW x \in Int, NEW y \in Int
  PROVE  Clamp(x, y) \in Nat /\ (Clamp(x, y) = 0 \/ Clamp(x, y) <= y)
  BY DEF Clamp, LesserOf

\* A miner's part of the team reward is no more than it has left.
LEMMA TeamShareBounds ==
  ASSUME RowTypes, NEW a \in Account, NEW m \in Miner
  PROVE  TeamShare(a, m) \in Nat /\ (TeamShare(a, m) = 0 \/ TeamShare(a, m) <= Left(a, m))
<1> DEFINE ahead == {n \in Miner : Left(a, n) > 0 /\ Before(a, n, m)}
           g == [n \in ahead |-> Left(a, n)]
<1>1. \A n \in Miner : Left(a, n) \in Int
  BY RowType, ShareType DEF RowTypes, Left
<1>2. IsFiniteSet(ahead)
  BY TablesAssumption, FS_Subset
<1>3. Summable(g, ahead) /\ DOMAIN g = ahead
  BY <1>1, <1>2 DEF Summable
<1>4. TeamShare(a, m) = Clamp(TeamReward(a) - SumFunction(g), Left(a, m))
  BY DEF TeamShare
<1> HIDE DEF g, ahead
<1>5. SumFunction(g) \in Int
  BY <1>3, SumInt DEF SumFunction
<1>6. TeamReward(a) - SumFunction(g) \in Int
  BY <1>5, TeamRewardInt DEF RowTypes
<1>7. QED
  BY <1>1, <1>4, <1>6, ClampBounds

LEMMA TeamPaidType ==
  ASSUME RowTypes, NEW a \in Account
  PROVE  TeamPaid(a) \in Nat
<1> DEFINE g == [m \in Miner |-> TeamShare(a, m)]
<1>1. NatOn(g, Miner) /\ DOMAIN g = Miner
  BY TeamShareBounds, TablesAssumption DEF NatOn
<1> HIDE DEF g
<1>2. SumFunction(g) \in Nat
  BY <1>1, SumNat DEF SumFunction
<1>3. QED
  BY <1>2 DEF TeamPaid, g

LEMMA UnproducedType ==
  ASSUME RowTypes, NEW a \in Account
  PROVE  Unproduced(a) \in Nat
<1> DEFINE g == [m \in Miner |-> IF Active(miner[a][m])
                                 THEN miner[a][m].expected - miner[a][m].produced ELSE 0]
<1>1. \A m \in Miner : g[m] \in Nat
  BY RowType DEF RowTypes, Active
<1>2. NatOn(g, Miner) /\ DOMAIN g = Miner
  BY <1>1, TablesAssumption DEF NatOn
<1>3. Unproduced(a) = SumFunction(g)
  BY DEF Unproduced
<1> HIDE DEF g
<1>4. QED
  BY <1>2, <1>3, SumNat DEF SumFunction

-----------------------------------------------------------------------------
(***************************************************************************)
(* The rows of purchased miners.                                           *)
(***************************************************************************)
LEMMA RowInit == Init => RowInv
<1> SUFFICES ASSUME Init PROVE RowInv
  OBVIOUS
<1>0. Cardinality(Miner) \in Nat
  BY TablesAssumption, FS_CardinalityType
<1>1. NoRow \in Row /\ NoRow.produced = 0 /\ NoRow.expected = 0
  BY <1>0 DEF NoRow, Row
<1>2. NoShares \in [Account -> [Miner -> Nat]] /\ MaxNow \in Nat /\ InitBalance \in Nat
  BY ConstantsAssumption DEF NoShares
<1>3. dist \in DistState /\ dist.pc = "idle"
  BY <1>2 DEF Init, NoDist, DistState
<1>4. RowTypes
  BY <1>1, <1>2, <1>3 DEF Init, RowTypes
<1>5. QED
  BY <1>1, <1>3, <1>4 DEF Init, RowInv, MinersBounded, SharesFit

\* The steps that leave the rows of miners and the midnight task alone.
LEMMA RowsKept ==
  ASSUME RowInv, UNCHANGED <<miner, dist>>, now' \in 0..MaxNow, balance' \in [Account -> Nat]
  PROVE  RowInv'
<1>1. RowTypes'
  BY DEF RowInv, RowTypes
<1>2. QED
  BY <1>1 DEF RowInv, MinersBounded, SharesFit

LEMMA CreditType ==
  ASSUME balance \in [Account -> Nat], NEW a \in Account, NEW x \in Nat, Credit(a, x)
  PROVE  balance' \in [Account -> Nat]
  BY DEF Credit

\* The shares that are read fit.
LEMMA RowShareBound ==
  ASSUME RowInv, NEW a \in Account, NEW m \in Miner
  PROVE  /\ ShareOf(miner[a][m], now) \in Nat
         /\ miner[a][m].produced + ShareOf(miner[a][m], now) <= miner[a][m].expected
<1>1. PICK r : r = miner[a][m]
  OBVIOUS
<1>2. {r.produced, r.expected, r.last, r.rate} \subseteq Nat
  BY <1>1, RowType DEF RowInv, RowTypes
<1>3. r.produced <= r.expected /\ now \in Nat
  BY <1>1, ConstantsAssumption DEF RowInv, RowTypes, MinersBounded
<1>4. QED
  BY <1>1, <1>2, <1>3, ShareBound

LEMMA RowRead == ASSUME RowInv, DistributeRead PROVE RowInv'
<1> DEFINE shares == [a \in Account |-> [m \in Miner |-> ShareOf(miner[a][m], now)]]
<1>1. shares \in [Account -> [Miner -> Nat]]
  BY RowShareBound
<1>2. /\ dist' = [NoDist EXCEPT !.pc = "lock", !.at = now, !.share = shares]
      /\ UNCHANGED <<now, miner, balance>>
  BY DEF DistributeRead
<1>3. \A a \in Account, m \in Miner :
        miner[a][m].produced + shares[a][m] <= miner[a][m].expected
  BY RowShareBound
<1> HIDE DEF shares
<1>4. dist' = [pc |-> "lock", at |-> now, share |-> shares, seen |-> [a \in Account |-> 0],
               freeShare |-> [a \in Account |-> 0], bp |-> 0, freeBp |-> 0]
  BY <1>2 DEF NoDist
<1>5. dist' \in DistState
  BY <1>1, <1>4 DEF DistState, RowInv, RowTypes
<1>6. RowTypes'
  BY <1>2, <1>5 DEF RowInv, RowTypes
<1>7. QED
  BY <1>2, <1>3, <1>4, <1>6 DEF RowInv, MinersBounded, SharesFit

LEMMA RowLock == ASSUME RowInv, DistributeLock PROVE RowInv'
<1> DEFINE seen == [a \in Account |-> IF TotalShare(a) > 0 THEN balance[a] ELSE 0]
<1>1. seen \in [Account -> Nat]
  BY DEF RowInv, RowTypes
<1>2. /\ dist.pc = "lock" /\ dist' = [dist EXCEPT !.pc = "pay", !.seen = seen]
      /\ UNCHANGED <<now, miner, balance>>
  BY DEF DistributeLock
<1> HIDE DEF seen
<1>3. dist' \in DistState /\ dist'.share = dist.share
  BY <1>1, <1>2 DEF RowInv, RowTypes, DistState
<1>4. RowTypes'
  BY <1>2, <1>3 DEF RowInv, RowTypes
<1>5. QED
  BY <1>2, <1>3, <1>4 DEF RowInv, MinersBounded, SharesFit

\* What the midnight task reads of free miners and of the ratios changes no row.
LEMMA RowFree == ASSUME FreeInv, RowInv, DistributeFree PROVE RowInv'
<1> DEFINE shares == [a \in Account |-> ShareOf(free[a], dist.at)]
<1>1. shares \in [Account -> Nat] /\ bp \in Nat /\ freeBp \in Nat
  BY FreeShareFits, ConstantsAssumption DEF FreeInv, FreeTypes
<1>2. /\ dist.pc = "pay"
      /\ dist' = [dist EXCEPT !.pc = "save", !.bp = bp, !.freeBp = freeBp, !.freeShare = shares]
      /\ UNCHANGED <<now, miner, balance>>
  BY DEF DistributeFree
<1> HIDE DEF shares
<1>3. dist' \in DistState /\ dist'.share = dist.share
  BY <1>1, <1>2 DEF RowInv, RowTypes, DistState
<1>4. RowTypes'
  BY <1>2, <1>3 DEF RowInv, RowTypes
<1>5. QED
  BY <1>2, <1>3, <1>4 DEF RowInv, MinersBounded, SharesFit

LEMMA NoDistType == NoDist \in DistState /\ NoDist.pc = "idle"
  BY ConstantsAssumption DEF NoDist, NoShares, DistState

LEMMA RowAbort == ASSUME RowInv, DistributeAbort PROVE RowInv'
<1>1. dist' \in DistState /\ dist'.pc = "idle" /\ UNCHANGED <<now, miner, balance>>
  BY NoDistType DEF DistributeAbort
<1>2. RowTypes'
  BY <1>1 DEF RowInv, RowTypes
<1>3. QED
  BY <1>1, <1>2 DEF RowInv, MinersBounded, SharesFit

\* What a midnight makes of a row: the share it read and the row's part of the
\* team reward are produced, and both fit.
LEMMA PaidRow ==
  ASSUME RowInv, dist.pc = "save", NEW a \in Account, NEW m \in Miner
  PROVE  LET r == MinerPaid(a, m)
             s == Reset(r, Price[m], dist.bp)
         IN /\ s \in Row
            /\ s.produced = miner[a][m].produced + dist.share[a][m] + TeamShare(a, m)
            /\ s.expected = miner[a][m].expected
            /\ s.produced <= s.expected
            /\ r \in Row /\ r.produced = s.produced /\ r.expected = s.expected
            /\ r.cycle = miner[a][m].cycle /\ r.rate = miner[a][m].rate
            /\ r.end = miner[a][m].end
<1>1. PICK o \in Row : o = miner[a][m]
  BY RowType DEF RowInv, RowTypes
<1>2. PICK x, y : x = dist.share[a][m] /\ y = TeamShare(a, m)
  OBVIOUS
<1>3. x \in Nat /\ y \in Nat /\ dist.at \in Nat
  BY <1>2, ShareType, TeamShareBounds, ConstantsAssumption DEF RowInv, RowTypes
<1>4. o.produced \in Nat /\ o.expected \in Nat /\ o.produced + x <= o.expected
  BY <1>1, <1>2 DEF RowInv, SharesFit, Row
<1>5. y = 0 \/ y <= o.expected - (o.produced + x)
  BY <1>1, <1>2, TeamShareBounds DEF RowInv, Left
<1>6. PICK r : r = MinerPaid(a, m)
  OBVIOUS
<1>7. r = [o EXCEPT !.produced = @ + x + y, !.last = IF x > 0 THEN dist.at ELSE @]
  BY <1>1, <1>2, <1>6 DEF MinerPaid
<1>8. o.produced + x + y \in Nat /\ o.produced + x + y <= o.expected
  BY <1>3, <1>4, <1>5
<1>9. (IF x > 0 THEN dist.at ELSE o.last) \in Nat
  BY <1>3 DEF Row
<1>10. r = [o EXCEPT !.produced = o.produced + x + y,
                     !.last = IF x > 0 THEN dist.at ELSE o.last]
  BY <1>7 DEF Row
<1>11. /\ r \in Row /\ r.produced = o.produced + x + y /\ r.expected = o.expected
       /\ r.cycle = o.cycle /\ r.rate = o.rate /\ r.end = o.end
  BY <1>8, <1>9, <1>10 DEF Row
<1>12. NextCycle(r.cycle) \in Nat \ {0}
  BY <1>11, NextCycleType DEF Row
<1>13. CycleEnd(dist.at, NextCycle(r.cycle)) \in Nat
  BY <1>3, <1>12, CycleEndNat
<1>14. Rate(Price[m], dist.bp, NextCycle(r.cycle)) \in Nat
  BY <1>12, RateNat, ShareType, ConstantsAssumption DEF RowInv, RowTypes
<1>15. PICK s : s = Reset(r, Price[m], dist.bp)
  OBVIOUS
<1>16. s \in Row /\ s.produced = r.produced /\ s.expected = r.expected
  BY <1>11, <1>12, <1>13, <1>14, <1>15 DEF Reset, Row
<1>17. s.produced <= s.expected
  BY <1>8, <1>11, <1>16
<1>18. QED
  BY <1>1, <1>2, <1>6, <1>11, <1>15, <1>16, <1>17

LEMMA RowCommit == ASSUME RowInv, DistributeCommit PROVE RowInv'
<1>1. /\ dist.pc = "save" /\ dist' = NoDist /\ now' = now
      /\ miner' = [a \in Account |-> [m \in Miner |->
                     Reset(MinerPaid(a, m), Price[m], dist.bp)]]
      /\ balance' = [a \in Account |-> balance[a] + TotalShare(a) + TeamPaid(a)]
  BY DEF DistributeCommit
<1>2. \A a \in Account, m \in Miner :
        miner'[a][m] \in Row /\ miner'[a][m].produced <= miner'[a][m].expected
  BY <1>1, PaidRow
<1>3. miner' \in [Account -> [Miner -> Row]]
  BY <1>1, <1>2
<1>4. balance' \in [Account -> Nat]
  BY <1>1, TotalShareType, TeamPaidType DEF RowInv, RowTypes
<1>5. RowTypes'
  BY <1>1, <1>3, <1>4, NoDistType DEF RowInv, RowTypes
<1>6. QED
  BY <1>1, <1>2, <1>5, NoDistType DEF RowInv, MinersBounded, SharesFit

LEMMA RowAccelerate ==
  ASSUME RowInv, NEW a \in Account, NEW m \in Miner, Accelerate(a, m)
  PROVE  RowInv'
<1>1. PICK o \in Row : o = miner[a][m]
  BY RowType DEF RowInv, RowTypes
<1>2. PICK x \in Release :
        LET actual == LesserOf(x, o.expected - o.produced) IN
          Credit(a, actual) /\ miner' = [miner EXCEPT ![a][m].produced = @ + actual]
  BY <1>1 DEF Accelerate
<1>3. PICK y : y = LesserOf(x, o.expected - o.produced)
  OBVIOUS
<1>4. Credit(a, y) /\ miner' = [miner EXCEPT ![a][m].produced = @ + y]
  BY <1>2, <1>3
<1>5. /\ dist.pc = "idle" /\ dist' = dist /\ now' = now
      /\ o.produced \in Nat /\ o.expected \in Nat /\ o.produced < o.expected
  BY <1>1 DEF Accelerate, NobodyAtWork, Active, Row
<1>6. y \in Nat /\ o.produced + y <= o.expected
  BY <1>3, <1>5, ConstantsAssumption DEF LesserOf
<1>7. miner \in [Account -> [Miner -> Row]]
  BY DEF RowInv, RowTypes
<1>8. /\ miner'[a][m] = [o EXCEPT !.produced = o.produced + y]
      /\ \A b \in Account, n \in Miner : <<b, n>> # <<a, m>> => miner'[b][n] = miner[b][n]
      /\ miner' = [b \in Account |-> [n \in Miner |-> miner'[b][n]]]
  BY <1>1, <1>4, <1>7
<1>9. /\ miner'[a][m] \in Row /\ miner'[a][m].expected = o.expected
      /\ miner'[a][m].produced = o.produced + y
  BY <1>5, <1>6, <1>8 DEF Row
<1>10. \A b \in Account, n \in Miner :
         miner'[b][n] \in Row /\ miner'[b][n].produced <= miner'[b][n].expected
  <2>1. SUFFICES ASSUME NEW b \in Account, NEW n \in Miner
                 PROVE  miner'[b][n] \in Row /\ miner'[b][n].produced <= miner'[b][n].expected
    OBVIOUS
  <2>2. miner[b][n] \in Row /\ miner[b][n].produced <= miner[b][n].expected
    BY <1>7, RowType DEF RowInv, MinersBounded
  <2>3. CASE b = a /\ n = m
    BY <1>6, <1>9, <2>3
  <2>4. CASE ~(b = a /\ n = m)
    BY <1>8, <2>2, <2>4
  <2>5. QED
    BY <2>3, <2>4
<1>11. miner' \in [Account -> [Miner -> Row]]
  BY <1>8, <1>10
<1>12. balance' \in [Account -> Nat]
  BY <1>4, <1>6, CreditType DEF RowInv, RowTypes
<1>13. RowTypes'
  BY <1>5, <1>11, <1>12 DEF RowInv, RowTypes
<1>14. QED
  BY <1>5, <1>10, <1>13 DEF RowInv, MinersBounded, SharesFit

LEMMA RowBatch ==
  ASSUME RowInv, NEW A \in SUBSET Account, BatchAccelerate(A)
  PROVE  RowInv'
<1>1. /\ dist.pc = "idle" /\ dist' = dist /\ now' = now
      /\ balance' = [a \in Account |->
                      IF a \in A THEN balance[a] + Unproduced(a) ELSE balance[a]]
      /\ miner' = [a \in Account |-> [m \in Miner |->
           IF a \in A /\ Active(miner[a][m])
           THEN [miner[a][m] EXCEPT !.produced = miner[a][m].expected] ELSE miner[a][m]]]
  BY DEF BatchAccelerate, NobodyAtWork
<1>2. ASSUME NEW a \in Account, NEW m \in Miner
      PROVE  miner'[a][m] \in Row /\ miner'[a][m].produced <= miner'[a][m].expected
  <2>1. PICK o \in Row : o = miner[a][m]
    BY RowType DEF RowInv, RowTypes
  <2>2. o.expected \in Nat /\ o.produced <= o.expected
    BY <2>1 DEF Row, RowInv, MinersBounded
  <2>3. miner'[a][m] = o \/ miner'[a][m] = [o EXCEPT !.produced = o.expected]
    BY <1>1, <2>1
  <2>4. QED
    BY <2>2, <2>3 DEF Row
<1>3. miner' \in [Account -> [Miner -> Row]]
  BY <1>1, <1>2
<1>4. balance' \in [Account -> Nat]
  BY <1>1, UnproducedType DEF RowInv, RowTypes
<1>5. RowTypes'
  BY <1>1, <1>3, <1>4 DEF RowInv, RowTypes
<1>6. QED
  BY <1>1, <1>2, <1>5 DEF RowInv, MinersBounded, SharesFit

\* An update of the ratio changes nothing of a row but its rate.
LEMMA Rewritten ==
  ASSUME UpdateInv, miner \in [Account -> [Miner -> Row]], UpdateCycleCommit,
         NEW a \in Account, NEW m \in Miner
  PROVE  /\ miner'[a][m] \in Row
         /\ miner'[a][m].produced = miner[a][m].produced
         /\ miner'[a][m].expected = miner[a][m].expected
         /\ miner'[a][m].cycle = miner[a][m].cycle
         /\ <<a, m>> \in update.rows /\ Active(miner[a][m])
              => miner'[a][m].rate = Rate(Price[m], bp', miner[a][m].cycle)
<1>1. PICK value \in Bp, rows \in SUBSET (Account \X Miner) :
        value = update.value /\ rows = update.rows
  <2>1. update \in UpdateState
    BY DEF UpdateInv, UpdateCycleCommit, NoUpdate
  <2>2. QED
    BY <2>1 DEF UpdateState
<1>2. /\ bp' = value
      /\ miner' = [b \in Account |-> [n \in Miner |->
           IF <<b, n>> \in rows /\ Active(miner[b][n])
           THEN [miner[b][n] EXCEPT !.rate = Rate(Price[n], value, miner[b][n].cycle)]
           ELSE miner[b][n]]]
  BY <1>1 DEF UpdateCycleCommit
<1>3. PICK o \in Row : o = miner[a][m]
  BY RowType
<1>4. PICK x : x = Rate(Price[m], value, o.cycle)
  OBVIOUS
<1>5. x \in Nat
  BY <1>4, RateNat, ConstantsAssumption DEF Row
<1>6. miner'[a][m] = IF <<a, m>> \in rows /\ Active(o) THEN [o EXCEPT !.rate = x] ELSE o
  BY <1>2, <1>3, <1>4
<1>7. CASE <<a, m>> \in rows /\ Active(o)
  <2>1. miner'[a][m] = [o EXCEPT !.rate = x]
    BY <1>6, <1>7
  <2>2. /\ miner'[a][m] \in Row /\ miner'[a][m].rate = x
        /\ miner'[a][m].produced = o.produced /\ miner'[a][m].expected = o.expected
        /\ miner'[a][m].cycle = o.cycle
    BY <1>5, <2>1 DEF Row
  <2>3. QED
    BY <1>2, <1>3, <1>4, <2>2
<1>8. CASE ~(<<a, m>> \in rows /\ Active(o))
  BY <1>1, <1>3, <1>6, <1>8
<1>9. QED
  BY <1>7, <1>8

LEMMA RowRatio == ASSUME UpdateInv, RowInv, UpdateCycleCommit PROVE RowInv'
<1>1. /\ UNCHANGED <<now, balance, dist>>
      /\ \E f : miner' = [a \in Account |-> [m \in Miner |-> f[a][m]]]
  <2> DEFINE f == [a \in Account |-> [m \in Miner |->
        IF <<a, m>> \in update.rows /\ Active(miner[a][m])
        THEN [miner[a][m] EXCEPT !.rate = Rate(Price[m], update.value, miner[a][m].cycle)]
        ELSE miner[a][m]]]
  <2>1. miner' = f /\ UNCHANGED <<now, balance, dist>>
    BY DEF UpdateCycleCommit
  <2>2. f = [a \in Account |-> [m \in Miner |-> f[a][m]]]
    OBVIOUS
  <2> HIDE DEF f
  <2>3. QED
    BY <2>1, <2>2
<1>2. ASSUME NEW a \in Account, NEW m \in Miner
      PROVE  /\ miner'[a][m] \in Row /\ miner'[a][m].produced = miner[a][m].produced
             /\ miner'[a][m].expected = miner[a][m].expected
  BY Rewritten DEF RowInv, RowTypes
<1>3. miner' \in [Account -> [Miner -> Row]]
  BY <1>1, <1>2
<1>4. RowTypes'
  BY <1>1, <1>3 DEF RowInv, RowTypes
<1>5. QED
  BY <1>1, <1>2, <1>4 DEF RowInv, MinersBounded, SharesFit

\* A purchase starts a miner: only its expected reward grows.
LEMMA StartedRow ==
  ASSUME RowInv, FreeInv, NEW q \in Buyer, BuySave(q)
  PROVE  \E a \in Account, m \in Miner, r \in Row :
           /\ a = buy[q].account /\ m = buy[q].miner
           /\ miner' = [miner EXCEPT ![a][m] = r]
           /\ r.produced = miner[a][m].produced
           /\ r.expected = miner[a][m].expected + Expected[m]
           /\ r.rate = Rate(Price[m], buy[q].bp, r.cycle)
<1>1. buy[q] \in BuyState
  <2>1. buy \in [Buyer -> {NoBuy} \cup BuyState]
    BY DEF FreeInv, FreeTypes
  <2>2. buy[q].pc = "save"
    BY DEF BuySave
  <2>3. QED
    BY <2>1, <2>2 DEF NoBuy
<1>2. PICK a \in Account, m \in Miner, b \in Bp :
        a = buy[q].account /\ m = buy[q].miner /\ b = buy[q].bp
  BY <1>1 DEF BuyState
<1>3. PICK o \in Row : o = miner[a][m]
  BY RowType DEF RowInv, RowTypes
<1>4. PICK cycle, at, id :
        /\ cycle = IF Owned(a, m) THEN NextCycle(o.cycle) ELSE InitCycle
        /\ at = GreaterOf(now, StartAt)
        /\ id = IF Owned(a, m) THEN o.id ELSE 1 + Cardinality({n \in Miner : Owned(a, n)})
  OBVIOUS
<1> DEFINE r == [id |-> id, expected |-> o.expected + Expected[m], produced |-> o.produced,
                 last |-> at, rate |-> Rate(Price[m], b, cycle),
                 cycle |-> cycle, end |-> CycleEnd(at, cycle)]
<1>5. miner' = [miner EXCEPT ![a][m] = r]
  <2>1. miner' = [miner EXCEPT ![a][m] =
          [id |-> IF Owned(a, m) THEN miner[a][m].id
                  ELSE 1 + Cardinality({n \in Miner : Owned(a, n)}),
           expected |-> miner[a][m].expected + Expected[m],
           produced |-> miner[a][m].produced, last |-> GreaterOf(now, StartAt),
           rate |-> Rate(Price[m], b,
                         IF Owned(a, m) THEN NextCycle(miner[a][m].cycle) ELSE InitCycle),
           cycle |-> IF Owned(a, m) THEN NextCycle(miner[a][m].cycle) ELSE InitCycle,
           end |-> CycleEnd(GreaterOf(now, StartAt),
                     IF Owned(a, m) THEN NextCycle(miner[a][m].cycle) ELSE InitCycle)]]
    <3>1. PICK x, y, z : x = buy[q].account /\ y = buy[q].miner /\ z = buy[q].bp
      OBVIOUS
    <3>2. x = a /\ y = m /\ z = b
      BY <1>2, <3>1
    <3>3. QED
      BY <3>1, <3>2 DEF BuySave
  <2>2. QED
    BY <1>3, <1>4, <2>1
<1>6. cycle \in Nat \ {0}
  BY <1>4, NextCycleType, ConstantsAssumption DEF Row
<1>7. at \in Nat
  BY <1>4, ConstantsAssumption DEF RowInv, RowTypes, GreaterOf
<1>8. id \in 0..Cardinality(Miner)
  <2>1. CASE Owned(a, m)
    BY <1>4, <2>1 DEF Row
  <2>2. CASE ~Owned(a, m)
    <3> DEFINE others == {n \in Miner : Owned(a, n)}
    <3>1. others \subseteq Miner \ {m}
      BY <2>2
    <3>2. /\ IsFiniteSet(Miner \ {m}) /\ Cardinality(Miner \ {m}) = Cardinality(Miner) - 1
          /\ Cardinality(Miner) \in Nat
      BY TablesAssumption, FS_RemoveElement, FS_CardinalityType
    <3>3. IsFiniteSet(others) /\ Cardinality(others) <= Cardinality(Miner \ {m})
      BY <3>1, <3>2, FS_Subset
    <3>4. Cardinality(others) \in Nat
      BY <3>3, FS_CardinalityType
    <3>5. id = 1 + Cardinality(others)
      BY <1>4, <2>2
    <3> HIDE DEF others
    <3>6. QED
      BY <3>2, <3>3, <3>4, <3>5
  <2>3. QED
    BY <2>1, <2>2
<1>9. CycleEnd(at, cycle) \in Nat /\ Rate(Price[m], b, cycle) \in Nat
  BY <1>6, <1>7, CycleEndNat, RateNat, ConstantsAssumption
<1>10. o.expected + Expected[m] \in Nat /\ o.produced \in Nat
  BY ConstantsAssumption DEF Row
<1>11. r \in Row
  BY <1>6, <1>7, <1>8, <1>9, <1>10 DEF Row
<1>12. QED
  BY <1>2, <1>3, <1>5, <1>11

LEMMA RowBuySave ==
  ASSUME RowInv, FreeInv, NEW q \in Buyer, BuySave(q)
  PROVE  RowInv'
<1>1. PICK a \in Account, m \in Miner, r \in Row :
        /\ miner' = [miner EXCEPT ![a][m] = r]
        /\ r.produced = miner[a][m].produced
        /\ r.expected = miner[a][m].expected + Expected[m]
  BY StartedRow
<1>2. UNCHANGED <<now, balance, dist>> /\ miner \in [Account -> [Miner -> Row]]
  BY DEF BuySave, RowInv, RowTypes
<1>3. miner' \in [Account -> [Miner -> Row]]
  BY <1>1, <1>2
<1>4. /\ miner'[a][m] = r
      /\ \A b \in Account, n \in Miner : <<b, n>> # <<a, m>> => miner'[b][n] = miner[b][n]
  BY <1>1, <1>2
<1>5. ASSUME NEW b \in Account, NEW n \in Miner
      PROVE  /\ miner'[b][n].produced = miner[b][n].produced
             /\ miner[b][n].expected <= miner'[b][n].expected
  BY <1>1, <1>2, <1>4, RowType, ConstantsAssumption
<1>6. RowTypes'
  BY <1>2, <1>3 DEF RowInv, RowTypes
<1>7. ASSUME NEW b \in Account, NEW n \in Miner
      PROVE  /\ miner[b][n].produced \in Nat /\ miner[b][n].expected \in Nat
             /\ miner'[b][n].expected \in Nat /\ dist.share[b][n] \in Nat
  <2>1. miner[b][n].produced \in Nat /\ miner[b][n].expected \in Nat
    BY <1>2, RowType
  <2>2. miner'[b][n] \in Row
    BY <1>3
  <2>3. dist.share[b][n] \in Nat
    BY ShareType DEF RowInv, RowTypes
  <2>4. QED
    BY <2>1, <2>2, <2>3 DEF Row
<1>8. MinersBounded'
  <2>1. ASSUME NEW b \in Account, NEW n \in Miner
        PROVE  miner'[b][n].produced <= miner'[b][n].expected
    BY <1>5, <1>7 DEF RowInv, MinersBounded
  <2>2. QED
    BY <2>1 DEF MinersBounded
<1>9. SharesFit'
  <2>1. ASSUME dist.pc # "idle", NEW b \in Account, NEW n \in Miner
        PROVE  miner'[b][n].produced + dist.share[b][n] <= miner'[b][n].expected
    <3>1. miner[b][n].produced + dist.share[b][n] <= miner[b][n].expected
      BY <2>1 DEF RowInv, SharesFit
    <3>2. QED
      BY <1>5, <1>7, <3>1
  <2>2. QED
    BY <1>2, <2>1 DEF SharesFit
<1>10. QED
  BY <1>6, <1>8, <1>9 DEF RowInv

\* A transfer takes no more than there is.
LEMMA TransferTypes ==
  ASSUME balance \in [Account -> Nat], NEW a \in Account, NEW b \in Account, NEW x \in Gift,
         transferUserBalance(a, b, x)
  PROVE  /\ a # b /\ x \in Nat
         /\ balance' = [c \in Account |-> IF c = a THEN balance[a] - x
                                         ELSE IF c = b THEN balance[b] + x ELSE balance[c]]
         /\ balance' \in [Account -> Nat]
<1>1. a # b /\ x \in Nat /\ balance[a] >= x
  BY ConstantsAssumption DEF transferUserBalance
<1>2. balance' = [balance EXCEPT ![a] = @ - x, ![b] = @ + x]
  BY DEF transferUserBalance
<1>3. balance[a] - x \in Nat /\ balance[b] + x \in Nat
  BY <1>1
<1>4. QED
  BY <1>1, <1>2, <1>3

LEMMA RowNext == UpdateInv /\ FreeInv /\ RowInv /\ [Next]_vars => RowInv'
<1> SUFFICES ASSUME UpdateInv, FreeInv, RowInv, [Next]_vars PROVE RowInv'
  OBVIOUS
<1>0. balance \in [Account -> Nat] /\ now \in 0..MaxNow /\ bp \in Nat /\ MaxNow \in Nat
  BY ConstantsAssumption DEF FreeInv, FreeTypes, RowInv, RowTypes
<1>1. ASSUME UNCHANGED <<now, miner, balance, dist>> PROVE RowInv'
  BY <1>0, <1>1, RowsKept
<1>2. CASE Tick
  <2>1. now' \in 0..MaxNow /\ UNCHANGED <<miner, dist, balance>>
    BY <1>0, <1>2 DEF Tick
  <2>2. QED
    BY <1>0, <2>1, RowsKept
<1>3. ASSUME NEW a \in Account, NEW x \in Gift, addUserSystemReward(a, x) PROVE RowInv'
  <2>1. Credit(a, x) /\ UNCHANGED <<now, miner, dist>> /\ x \in Nat
    BY <1>3, ConstantsAssumption DEF addUserSystemReward
  <2>2. balance' \in [Account -> Nat]
    BY <1>0, <2>1, CreditType
  <2>3. QED
    BY <1>0, <2>1, <2>2, RowsKept
<1>4. ASSUME NEW a \in Account, NEW b \in Account, NEW x \in Gift,
             transferUserBalance(a, b, x)
      PROVE  RowInv'
  <2>1. UNCHANGED <<now, miner, dist>>
    BY <1>4 DEF transferUserBalance
  <2>2. balance' \in [Account -> Nat]
    BY <1>0, <1>4, TransferTypes
  <2>3. QED
    BY <1>0, <2>1, <2>2, RowsKept
<1>5. ASSUME NEW q \in Claimer, ClaimPay(q) PROVE RowInv'
  <2>1. UNCHANGED <<now, miner, dist>> /\ Paying(q)
        /\ Credit(claim[q].account, claim[q].amount)
    BY <1>5 DEF ClaimPay, Paying
  <2>2. claim[q] \in ClaimState
    BY <2>1, PayingType DEF FreeInv
  <2>3. claim[q].account \in Account /\ claim[q].amount \in Nat
    BY <2>2 DEF ClaimState
  <2>4. balance' \in [Account -> Nat]
    BY <1>0, <2>1, <2>3, CreditType
  <2>5. QED
    BY <1>0, <2>1, <2>4, RowsKept
<1>6. CASE UNCHANGED vars
  BY <1>1, <1>6 DEF vars
<1>7. ASSUME \/ UpdateFreeCommit \/ UpdateAbort
             \/ \E value \in Bp : UpdateCycleRead(value)
             \/ \E value \in FreeBp : UpdateFreeRead(value)
      PROVE  RowInv'
  BY <1>1, <1>7 DEF UpdateFreeCommit, UpdateAbort, UpdateCycleRead, UpdateFreeRead
<1>8. ASSUME NEW a \in Account, NEW m \in Miner, NEW q \in Buyer, BuyRead(q, a, m)
      PROVE  RowInv'
  BY <1>1, <1>8 DEF BuyRead
<1>9. ASSUME NEW q \in Starter, StartFreeMiner(q) \/ StartEnds(q) PROVE RowInv'
  BY <1>1, <1>9 DEF StartFreeMiner, StartEnds
<1>10. ASSUME NEW a \in Account, NEW t \in MinedAt[a], NEW q \in Starter, StartRead(q, a, t)
       PROVE  RowInv'
  BY <1>1, <1>10 DEF StartRead
<1>11. ASSUME NEW q \in Claimer, NEW a \in Account, ClaimRead(q, a) PROVE RowInv'
  BY <1>1, <1>11 DEF ClaimRead
<1>12. ASSUME NEW q \in Claimer, DeadlockVictim(q) PROVE RowInv'
  BY <1>1, <1>12 DEF DeadlockVictim
<1>13. QED
  BY <1>0, <1>2, <1>3, <1>4, <1>5, <1>6, <1>7, <1>8, <1>9, <1>10, <1>11, <1>12,
     RowRead, RowLock, RowFree, RowCommit, RowAbort, RowAccelerate, RowBatch, RowRatio, RowBuySave
  DEF Next, MidnightTask

LEMMA RowInvariance == Spec => []RowInv
  BY RowInit, RowNext, UpdateInvariance, FreeInvariance, PTL DEF Spec

\* No miner ever produces more than it was sold for, although the midnight task
\* adds shares it read before it locked anything and team rewards on top of them,
\* and administrators release rewards in between.
THEOREM ProductionBounded == Spec => []ProducedWithinExpected
<1>1. FreeInv /\ RowInv => ProducedWithinExpected
  BY DEF FreeInv, RowInv, MinersBounded, ProducedWithinExpected
<1>2. QED
  BY <1>1, FreeInvariance, RowInvariance, PTL

-----------------------------------------------------------------------------
(***************************************************************************)
(* The balances.  While the midnight task holds the accounts it pays       *)
(* nobody else changes them, so what it logs is still right when it writes *)
(* the balances.                                                           *)
(***************************************************************************)
SeenIsBalance ==
  dist.pc \in {"pay", "save"} =>
    \A a \in Account : TotalShare(a) > 0 => dist.seen[a] = balance[a]

BalanceInv ==
  /\ moved \in [Account -> Int]
  /\ SeenIsBalance
  /\ LogChain
  /\ Conservation

\* What an account has produced before and after a step, as two sums.
LEMMA ProducedSums ==
  ASSUME NEW a
  PROVE  /\ Produced(a) = SumFunctionOnSet([m \in Miner |-> miner[a][m].produced], Miner)
         /\ Produced(a)' = SumFunctionOnSet([m \in Miner |-> miner'[a][m].produced], Miner)
  BY DEF Produced, SumFunction

LEMMA ProducedOn ==
  ASSUME RowTypes, NEW a \in Account
  PROVE  /\ Produced(a) \in Nat
         /\ Summable([m \in Miner |-> miner[a][m].produced], Miner)
<1> DEFINE f == [m \in Miner |-> miner[a][m].produced]
<1>1. NatOn(f, Miner)
  BY RowType, TablesAssumption DEF NatOn, RowTypes
<1>2. Produced(a) = SumFunctionOnSet(f, Miner)
  BY ProducedSums
<1> HIDE DEF f
<1>3. Produced(a) \in Nat /\ Summable(f, Miner)
  BY <1>1, <1>2, SumNat, NatSummable
<1>4. QED
  BY <1>3 DEF f

LEMMA ProducedSame ==
  ASSUME RowTypes, NEW a \in Account,
         \A m \in Miner : miner'[a][m].produced = miner[a][m].produced
  PROVE  Produced(a)' = Produced(a)
  BY ProducedSums

\* One miner produces x more.
LEMMA ProducedMore ==
  ASSUME RowTypes, NEW a \in Account, NEW m \in Miner, NEW x \in Int,
         \A n \in Miner : miner'[a][n].produced
                          = miner[a][n].produced + IF n = m THEN x ELSE 0
  PROVE  Produced(a)' = Produced(a) + x
<1> DEFINE f == [n \in Miner |-> miner[a][n].produced]
           g == [n \in Miner |-> miner'[a][n].produced]
<1>1. Summable(f, Miner)
  BY ProducedOn
<1>2. g[m] = f[m] + x
  OBVIOUS
<1>3. f[m] \in Int /\ \A n \in Miner : n # m => g[n] = f[n]
  BY <1>1 DEF Summable
<1>4. Produced(a) = SumFunctionOnSet(f, Miner) /\ Produced(a)' = SumFunctionOnSet(g, Miner)
  BY ProducedSums
<1> HIDE DEF f, g
<1>5. SumFunctionOnSet(g, Miner) = SumFunctionOnSet(f, Miner) + x
  BY <1>1, <1>2, <1>3, SumChange
<1>6. QED
  BY <1>4, <1>5

\* Every miner produces as much more as the function x says.
LEMMA ProducedAll ==
  ASSUME RowTypes, NEW a \in Account, NEW x, Summable(x, Miner),
         \A m \in Miner : miner'[a][m].produced = miner[a][m].produced + x[m]
  PROVE  Produced(a)' = Produced(a) + SumFunctionOnSet(x, Miner)
<1> DEFINE f == [n \in Miner |-> miner[a][n].produced]
           g == [n \in Miner |-> miner'[a][n].produced]
<1>1. Summable(f, Miner)
  BY ProducedOn
<1>2. \A n \in Miner : g[n] = f[n] + x[n]
  OBVIOUS
<1>3. Produced(a) = SumFunctionOnSet(f, Miner) /\ Produced(a)' = SumFunctionOnSet(g, Miner)
  BY ProducedSums
<1> HIDE DEF f, g
<1>4. QED
  BY <1>1, <1>2, <1>3, SumPlus

LEMMA BothGrow ==
  ASSUME NEW b \in Int, NEW v \in Int, NEW i \in Int, NEW c \in Int, NEW p \in Int,
         NEW y \in Int, b + v = i + c + p
  PROVE  (b + y) + v = i + c + (p + y)
  OBVIOUS

LEMMA BalanceInit == Init => BalanceInv
<1> SUFFICES ASSUME Init PROVE BalanceInv
  OBVIOUS
<1>1. moved \in [Account -> Int] /\ SeenIsBalance /\ LogChain
  BY DEF Init, SeenIsBalance, LogChain, NoDist
<1>2. ASSUME NEW a \in Account
      PROVE  balance[a] + moved[a] = InitBalance + free[a].claimed + Produced(a)
  <2> DEFINE f == [m \in Miner |-> miner[a][m].produced]
  <2>1. \A m \in Miner : f[m] = 0
    BY DEF Init, NoRow
  <2>2. Produced(a) = SumFunctionOnSet(f, Miner)
    BY ProducedSums
  <2> HIDE DEF f
  <2>3. Produced(a) = 0
    BY <2>1, <2>2, SumZero, TablesAssumption
  <2>4. balance[a] = InitBalance /\ moved[a] = 0 /\ free[a].claimed = 0 /\ InitBalance \in Nat
    BY ConstantsAssumption DEF Init, NoFree
  <2>5. QED
    BY <2>3, <2>4
<1>3. QED
  BY <1>1, <1>2 DEF BalanceInv, Conservation

\* What is locked is what has something to get.
LEMMA LockedByShare ==
  ASSUME RowInv, NEW a \in Account
  PROVE  Locked(a) <=> dist.pc \in {"pay", "save"} /\ TotalShare(a) > 0
  BY TotalShareType DEF Locked, RowInv, RowTypes

LEMMA SeenKept ==
  ASSUME RowInv, SeenIsBalance, UNCHANGED dist,
         \A a \in Account : Locked(a) => balance'[a] = balance[a]
  PROVE  SeenIsBalance'
<1>1. \A a \in Account : TotalShare(a)' = TotalShare(a)
  BY DEF TotalShare
<1>2. QED
  BY <1>1, LockedByShare DEF SeenIsBalance

\* The steps that leave the balances and what they consist of alone.
LEMMA BalancesKept ==
  ASSUME RowInv, BalanceInv, UNCHANGED <<balance, moved, logged>>, SeenIsBalance',
         \A a \in Account : free'[a].claimed = free[a].claimed,
         \A a \in Account, m \in Miner : miner'[a][m].produced = miner[a][m].produced
  PROVE  BalanceInv'
<1>1. \A a \in Account : Produced(a)' = Produced(a)
  BY ProducedSame DEF RowInv
<1>2. Conservation'
  BY <1>1 DEF BalanceInv, Conservation
<1>3. QED
  BY <1>2 DEF BalanceInv, LogChain

\* One balance is credited with what one of its account's miners produced.
LEMMA BalanceAccelerate ==
  ASSUME FreeInv, RowInv, BalanceInv, NEW a \in Account, NEW m \in Miner, Accelerate(a, m)
  PROVE  BalanceInv'
<1>1. PICK x : x \in Release /\
        LET y == LesserOf(x, miner[a][m].expected - miner[a][m].produced) IN
          Credit(a, y) /\ miner' = [miner EXCEPT ![a][m].produced = @ + y]
  BY DEF Accelerate
<1>2. PICK y : y = LesserOf(x, miner[a][m].expected - miner[a][m].produced)
  OBVIOUS
<1>3. Credit(a, y) /\ miner' = [miner EXCEPT ![a][m].produced = @ + y]
  BY <1>1, <1>2
<1>4. UNCHANGED <<free, moved, dist>> /\ ~Locked(a)
  BY DEF Accelerate
<1>5. miner \in [Account -> [Miner -> Row]] /\ balance \in [Account -> Nat]
  BY DEF RowInv, RowTypes
<1>6. y \in Int
  BY <1>1, <1>2, <1>5, RowType, ConstantsAssumption DEF LesserOf
<1>7. miner'[a][m] = [miner[a][m] EXCEPT !.produced = miner[a][m].produced + y]
  BY <1>3, <1>5
<1>8. miner'[a][m].produced = miner[a][m].produced + y
  <2>1. PICK o \in Row : o = miner[a][m]
    BY <1>5, RowType
  <2>2. QED
    BY <1>7, <2>1 DEF Row
<1>9. \A b \in Account, n \in Miner : <<b, n>> # <<a, m>> => miner'[b][n] = miner[b][n]
  BY <1>3, <1>5
<1>10. Produced(a)' = Produced(a) + y
  <2>1. ASSUME NEW n \in Miner
        PROVE  miner'[a][n].produced = miner[a][n].produced + IF n = m THEN y ELSE 0
    <3>1. miner[a][n].produced \in Nat
      BY <1>5, RowType
    <3>2. QED
      BY <1>8, <1>9, <3>1
  <2>2. QED
    BY <1>6, <2>1, ProducedMore DEF RowInv
<1>11. \A b \in Account : b # a => Produced(b)' = Produced(b)
  BY <1>9, ProducedSame DEF RowInv
<1>12. balance' = [balance EXCEPT ![a] = @ + y] /\ logged' = [logged EXCEPT ![a] = balance[a] + y]
  BY <1>3 DEF Credit
<1>13. SeenIsBalance'
  BY <1>4, <1>5, <1>12, SeenKept DEF BalanceInv
<1>14. LogChain'
  BY <1>12 DEF BalanceInv, LogChain
<1>15. Conservation'
  <2>1. \A b \in Account : /\ balance[b] \in Nat /\ moved[b] \in Int /\ Produced(b) \in Nat
                             /\ free[b].claimed \in Nat
    BY <1>5, ProducedOn DEF BalanceInv, RowInv, FreeInv, FreeTypes, FreeRow
  <2>a. InitBalance \in Nat
    BY ConstantsAssumption
  <2>2. ASSUME NEW b \in Account
        PROVE  balance'[b] + moved[b] = InitBalance + free[b].claimed + Produced(b)'
    <3>1. balance[b] + moved[b] = InitBalance + free[b].claimed + Produced(b)
      BY DEF BalanceInv, Conservation
    <3>2. CASE b = a
      <4>1. balance'[b] = balance[b] + y /\ Produced(b)' = Produced(b) + y
        BY <1>5, <1>10, <1>12, <3>2
      <4>2. QED
        BY <1>6, <2>1, <2>a, <3>1, <4>1, BothGrow
    <3>3. CASE b # a
      BY <1>5, <1>11, <1>12, <3>1, <3>3
    <3>4. QED
      BY <3>2, <3>3
  <2>3. QED
    BY <1>4, <2>2 DEF Conservation
<1>16. QED
  BY <1>4, <1>13, <1>14, <1>15 DEF BalanceInv

LEMMA BalanceParts ==
  ASSUME FreeInv, RowInv, BalanceInv, NEW a \in Account
  PROVE  /\ balance[a] \in Nat /\ moved[a] \in Int /\ Produced(a) \in Nat
         /\ free[a].claimed \in Nat /\ InitBalance \in Nat
         /\ balance[a] + moved[a] = InitBalance + free[a].claimed + Produced(a)
<1>1. balance[a] \in Nat /\ moved[a] \in Int /\ Produced(a) \in Nat /\ InitBalance \in Nat
  BY ProducedOn, ConstantsAssumption DEF BalanceInv, RowInv, RowTypes
<1>2. free[a].claimed \in Nat
  BY DEF FreeInv, FreeTypes, FreeRow
<1>3. QED
  BY <1>1, <1>2 DEF BalanceInv, Conservation

LEMMA BalanceBatch ==
  ASSUME FreeInv, RowInv, BalanceInv, NEW A \in SUBSET Account, BatchAccelerate(A)
  PROVE  BalanceInv'
<1>1. /\ UNCHANGED <<free, moved, dist>> /\ \A a \in A : ~Locked(a)
      /\ balance' = [a \in Account |->
                      IF a \in A THEN balance[a] + Unproduced(a) ELSE balance[a]]
      /\ logged' = [a \in Account |->
                     IF a \in A /\ Unproduced(a) > 0
                     THEN balance[a] + Unproduced(a) ELSE logged[a]]
      /\ miner' = [a \in Account |-> [m \in Miner |->
           IF a \in A /\ Active(miner[a][m])
           THEN [miner[a][m] EXCEPT !.produced = miner[a][m].expected] ELSE miner[a][m]]]
  BY DEF BatchAccelerate
<1>2. \A a \in Account : Unproduced(a) \in Nat /\ balance[a] \in Nat /\ logged[a] = balance[a]
  BY UnproducedType DEF RowInv, RowTypes, BalanceInv, LogChain
<1>3. SeenIsBalance'
  BY <1>1, SeenKept DEF BalanceInv
<1>4. LogChain'
  <2>1. \A a \in Account : balance'[a] = logged'[a]
    BY <1>1, <1>2
  <2>2. QED
    BY <1>1, <2>1 DEF LogChain
<1>5. ASSUME NEW a \in Account, a \in A PROVE Produced(a)' = Produced(a) + Unproduced(a)
  <2> DEFINE x == [m \in Miner |-> IF Active(miner[a][m])
                                   THEN miner[a][m].expected - miner[a][m].produced ELSE 0]
  <2>1. ASSUME NEW m \in Miner
        PROVE  x[m] \in Nat /\ miner'[a][m].produced = miner[a][m].produced + x[m]
    <3>1. PICK o \in Row : o = miner[a][m]
      BY RowType DEF RowInv, RowTypes
    <3>2. miner'[a][m] = IF Active(o) THEN [o EXCEPT !.produced = o.expected] ELSE o
      BY <1>1, <1>5, <3>1
    <3>3. QED
      BY <3>1, <3>2 DEF Row, Active
  <2>2. Summable(x, Miner)
    BY <2>1, TablesAssumption DEF Summable
  <2>3. Unproduced(a) = SumFunctionOnSet(x, Miner)
    BY DEF Unproduced, SumFunction
  <2> HIDE DEF x
  <2>4. QED
    BY <2>1, <2>2, <2>3, ProducedAll DEF RowInv
<1>6. ASSUME NEW a \in Account, a \notin A PROVE Produced(a)' = Produced(a)
  <2>1. \A m \in Miner : miner'[a][m] = miner[a][m]
    BY <1>1, <1>6
  <2>2. QED
    BY <2>1, ProducedSame DEF RowInv
<1>7. ASSUME NEW a \in Account
      PROVE  balance'[a] + moved[a] = InitBalance + free[a].claimed + Produced(a)'
  <2>1. CASE a \in A
    <3>1. balance'[a] = balance[a] + Unproduced(a)
      BY <1>1, <2>1
    <3>2. QED
      BY <1>2, <1>5, <2>1, <3>1, BalanceParts, BothGrow
  <2>2. CASE a \notin A
    <3>1. balance'[a] = balance[a]
      BY <1>1, <2>2
    <3>2. QED
      BY <1>6, <2>2, <3>1, BalanceParts
  <2>3. QED
    BY <2>1, <2>2
<1>8. Conservation'
  BY <1>1, <1>7 DEF Conservation
<1>9. QED
  BY <1>1, <1>3, <1>4, <1>8 DEF BalanceInv

\* The midnight task pays what it read and the team rewards; what it logs is
\* still the balance.
LEMMA BalanceCommit ==
  ASSUME FreeInv, RowInv, BalanceInv, DistributeCommit
  PROVE  BalanceInv'
<1>1. /\ dist.pc = "save" /\ dist' = NoDist /\ UNCHANGED moved
      /\ free' = [a \in Account |-> FreeAfter(a)]
      /\ miner' = [a \in Account |-> [m \in Miner |->
                     Reset(MinerPaid(a, m), Price[m], dist.bp)]]
      /\ balance' = [a \in Account |-> balance[a] + TotalShare(a) + TeamPaid(a)]
      /\ logged' = [a \in Account |->
           IF TotalShare(a) > 0 \/ TeamPaid(a) > 0
           THEN (IF TotalShare(a) > 0 THEN dist.seen[a] ELSE balance[a])
                  + TotalShare(a) + TeamPaid(a)
           ELSE logged[a]]
  BY DEF DistributeCommit
<1>2. ASSUME NEW a \in Account
      PROVE  /\ TotalShare(a) \in Nat /\ TeamPaid(a) \in Nat /\ balance[a] \in Nat
             /\ logged[a] = balance[a]
             /\ TotalShare(a) > 0 => dist.seen[a] = balance[a]
  BY <1>1, TotalShareType, TeamPaidType
  DEF RowInv, RowTypes, BalanceInv, LogChain, SeenIsBalance
<1>3. SeenIsBalance'
  BY <1>1 DEF SeenIsBalance, NoDist
<1>4. LogChain'
  <2>1. ASSUME NEW a \in Account
        PROVE  logged'[a] = balance[a] + TotalShare(a) + TeamPaid(a)
    <3>1. logged'[a] = IF TotalShare(a) > 0 \/ TeamPaid(a) > 0
                       THEN (IF TotalShare(a) > 0 THEN dist.seen[a] ELSE balance[a])
                              + TotalShare(a) + TeamPaid(a)
                       ELSE logged[a]
      BY <1>1
    <3>2. QED
      BY <1>2, <3>1
  <2>2. logged' = [a \in Account |-> logged'[a]]
    BY <1>1
  <2>3. QED
    BY <1>1, <2>1, <2>2 DEF LogChain
<1>5. dist.at \in Nat /\ dist.freeBp \in Nat
  BY DistNats
<1>6. ASSUME NEW a \in Account
      PROVE  Produced(a)' = Produced(a) + (TotalShare(a) + TeamPaid(a))
  <2> DEFINE y == [m \in Miner |-> TeamShare(a, m)]
             x == [m \in Miner |-> dist.share[a][m] + TeamShare(a, m)]
  <2>1. Summable(dist.share[a], Miner)
    BY ShareType, NatSummable DEF RowInv, RowTypes
  <2>2. Summable(y, Miner) /\ DOMAIN y = Miner
    BY TeamShareBounds, TablesAssumption DEF Summable, RowInv
  <2>3. \A m \in Miner : x[m] = dist.share[a][m] + y[m]
    OBVIOUS
  <2>4. TeamPaid(a) = SumFunctionOnSet(y, Miner)
    BY <2>2 DEF TeamPaid, SumFunction
  <2>5. ASSUME NEW m \in Miner
        PROVE  miner'[a][m].produced = miner[a][m].produced + x[m]
    <3>1. miner'[a][m].produced = miner[a][m].produced + dist.share[a][m] + TeamShare(a, m)
      BY <1>1, PaidRow
    <3>2. miner[a][m].produced \in Nat /\ dist.share[a][m] \in Nat /\ TeamShare(a, m) \in Nat
      BY RowType, ShareType, TeamShareBounds DEF RowInv, RowTypes
    <3>3. QED
      BY <3>1, <3>2
  <2> HIDE DEF x, y
  <2>6. Summable(x, Miner) /\ SumFunctionOnSet(x, Miner) = TotalShare(a) + TeamPaid(a)
    BY <2>1, <2>2, <2>3, <2>4, SumPlus DEF TotalShare
  <2>7. QED
    BY <2>5, <2>6, ProducedAll DEF RowInv
<1>7. ASSUME NEW a \in Account
      PROVE  balance'[a] + moved[a] = InitBalance + free'[a].claimed + Produced(a)'
  <2>1. balance'[a] = balance[a] + (TotalShare(a) + TeamPaid(a))
    BY <1>1, <1>2
  <2>2. /\ free[a] \in FreeRow /\ dist.freeShare[a] \in Nat
        /\ free[a].produced + dist.freeShare[a] <= free[a].expected
    BY <1>1 DEF FreeInv, FreeTypes, FreeSharesFit
  <2>3. free'[a].claimed = free[a].claimed
    BY <1>1, <1>5, <2>2, FreeAfterBounds
  <2>4. TotalShare(a) + TeamPaid(a) \in Int
    BY <1>2
  <2>5. QED
    BY <1>6, <2>1, <2>3, <2>4, BalanceParts, BothGrow
<1>8. Conservation'
  BY <1>1, <1>7 DEF Conservation
<1>9. QED
  BY <1>1, <1>3, <1>4, <1>8 DEF BalanceInv

\* A claim credits what it adds to the free miner's claimed reward.
LEMMA BalanceClaimPay ==
  ASSUME FreeInv, RowInv, BalanceInv, NEW q \in Claimer, ClaimPay(q)
  PROVE  BalanceInv'
<1>1. PICK a, x, c : a = claim[q].account /\ x = claim[q].amount /\ c = claim[q].claimed
  OBVIOUS
<1>2. /\ Paying(q) /\ ~Locked(a) /\ Credit(a, x)
      /\ free' = [free EXCEPT ![a].claimed = c + x]
      /\ UNCHANGED <<miner, moved, dist>>
  BY <1>1 DEF ClaimPay, Paying
<1>3. claim[q] \in ClaimState /\ Covered(claim[q])
  BY <1>2, PayingType DEF FreeInv
<1>4. a \in Account /\ x \in Nat /\ c = free[a].claimed
  BY <1>1, <1>3 DEF ClaimState, Covered
<1>5. free \in [Account -> FreeRow] /\ balance \in [Account -> Nat]
  BY DEF FreeInv, FreeTypes, RowInv, RowTypes
<1>6. balance' = [balance EXCEPT ![a] = @ + x] /\ logged' = [logged EXCEPT ![a] = balance[a] + x]
  BY <1>2 DEF Credit
<1>7. SeenIsBalance'
  BY <1>2, <1>5, <1>6, SeenKept DEF BalanceInv
<1>8. LogChain'
  BY <1>6 DEF BalanceInv, LogChain
<1>9. ASSUME NEW b \in Account
      PROVE  balance'[b] + moved[b] = InitBalance + free'[b].claimed + Produced(b)'
  <2>1. Produced(b)' = Produced(b)
    BY <1>2 DEF Produced
  <2>2. CASE b = a
    <3>1. PICK r \in FreeRow : r = free[a]
      BY <1>4, <1>5
    <3>2. free'[a] = [r EXCEPT !.claimed = c + x]
      BY <1>2, <1>4, <1>5, <3>1
    <3>3. free'[b].claimed = free[b].claimed + x
      BY <1>4, <2>2, <3>1, <3>2 DEF FreeRow
    <3>4. balance'[b] = balance[b] + x
      BY <1>4, <1>5, <1>6, <2>2
    <3>5. PICK o, v, i, l, p \in Int :
            /\ o = balance[b] /\ v = moved[b] /\ i = InitBalance
            /\ l = free[b].claimed /\ p = Produced(b)
      BY BalanceParts
    <3>6. o + v = i + l + p
      BY <3>5, BalanceParts
    <3>7. (o + x) + v = i + (l + x) + p
      BY ONLY <1>4, <3>5, <3>6
    <3>8. QED
      BY <2>1, <3>3, <3>4, <3>5, <3>7
  <2>3. CASE b # a
    <3>1. free'[b] = free[b] /\ balance'[b] = balance[b]
      BY <1>2, <1>5, <1>6, <2>3
    <3>2. QED
      BY <2>1, <3>1, BalanceParts
  <2>4. QED
    BY <2>2, <2>3
<1>10. Conservation'
  BY <1>2, <1>9 DEF Conservation
<1>11. QED
  BY <1>2, <1>7, <1>8, <1>10 DEF BalanceInv

\* Administrators move balances.
LEMMA BalanceMoved ==
  ASSUME FreeInv, RowInv, BalanceInv, UNCHANGED <<free, miner, dist>>,
         NEW d \in [Account -> Int], moved' \in [Account -> Int], logged' = balance',
         \A a \in Account : balance'[a] = balance[a] + d[a] /\ moved'[a] = moved[a] - d[a],
         \A a \in Account : Locked(a) => d[a] = 0
  PROVE  BalanceInv'
<1>2. \A a \in Account : Locked(a) => balance'[a] = balance[a]
  BY DEF RowInv, RowTypes
<1>3. SeenIsBalance'
  BY <1>2, SeenKept DEF BalanceInv
<1>4. ASSUME NEW a \in Account
      PROVE  balance'[a] + moved'[a] = InitBalance + free[a].claimed + Produced(a)'
  <2>1. Produced(a)' = Produced(a)
    BY DEF Produced
  <2>2. balance'[a] = balance[a] + d[a] /\ moved'[a] = moved[a] - d[a] /\ d[a] \in Int
    OBVIOUS
  <2>3. (balance[a] + d[a]) + (moved[a] - d[a]) = balance[a] + moved[a]
    BY <2>2, BalanceParts
  <2>4. QED
    BY <2>1, <2>2, <2>3, BalanceParts
<1>5. Conservation'
  BY <1>4 DEF Conservation
<1>6. QED
  BY <1>3, <1>5 DEF BalanceInv, LogChain

LEMMA BalanceGift ==
  ASSUME FreeInv, RowInv, BalanceInv, NEW a \in Account, NEW x \in Gift,
         addUserSystemReward(a, x)
  PROVE  BalanceInv'
<1> DEFINE d == [c \in Account |-> IF c = a THEN x ELSE 0]
<1>0. x \in Nat /\ balance \in [Account -> Nat] /\ moved \in [Account -> Int] /\ logged = balance
  BY ConstantsAssumption DEF RowInv, RowTypes, BalanceInv, LogChain
<1>1. /\ UNCHANGED <<free, miner, dist>> /\ ~Locked(a)
      /\ balance' = [balance EXCEPT ![a] = @ + x]
      /\ logged' = [logged EXCEPT ![a] = balance[a] + x]
      /\ moved' = [moved EXCEPT ![a] = @ - x]
  BY DEF addUserSystemReward, Credit
<1>2. d \in [Account -> Int] /\ \A c \in Account : Locked(c) => d[c] = 0
  BY <1>0, <1>1
<1>3. ASSUME NEW c \in Account
      PROVE  balance'[c] = balance[c] + d[c] /\ moved'[c] = moved[c] - d[c]
  BY <1>0, <1>1
<1>a. moved' \in [Account -> Int]
  BY <1>0, <1>1
<1>4. logged' = balance'
  BY <1>0, <1>1
<1> HIDE DEF d
<1>5. QED
  BY <1>1, <1>2, <1>3, <1>a, <1>4, BalanceMoved

LEMMA BalanceTransfer ==
  ASSUME FreeInv, RowInv, BalanceInv, NEW a \in Account, NEW b \in Account, NEW x \in Gift,
         transferUserBalance(a, b, x)
  PROVE  BalanceInv'
<1> DEFINE d == [c \in Account |-> IF c = a THEN -x ELSE IF c = b THEN x ELSE 0]
<1>0. x \in Nat /\ balance \in [Account -> Nat] /\ moved \in [Account -> Int] /\ logged = balance
  BY ConstantsAssumption DEF RowInv, RowTypes, BalanceInv, LogChain
<1>1. /\ UNCHANGED <<free, miner, dist>> /\ ~Locked(a) /\ ~Locked(b) /\ a # b
      /\ balance' = [balance EXCEPT ![a] = @ - x, ![b] = @ + x]
      /\ logged' = [logged EXCEPT ![a] = balance'[a], ![b] = balance'[b]]
      /\ moved' = [moved EXCEPT ![a] = @ + x, ![b] = @ - x]
  BY DEF transferUserBalance
<1>2. d \in [Account -> Int] /\ \A c \in Account : Locked(c) => d[c] = 0
  BY <1>0, <1>1
<1>3. ASSUME NEW c \in Account
      PROVE  balance'[c] = balance[c] + d[c] /\ moved'[c] = moved[c] - d[c]
  <2>1. balance[c] \in Int /\ moved[c] \in Int
    BY <1>0
  <2>2. CASE c = a
    BY <1>0, <1>1, <2>1, <2>2
  <2>3. CASE c = b
    BY <1>0, <1>1, <2>1, <2>3
  <2>4. CASE c # a /\ c # b
    BY <1>0, <1>1, <2>1, <2>4
  <2>5. QED
    BY <2>2, <2>3, <2>4
<1>4. moved' \in [Account -> Int]
  BY <1>0, <1>1
<1>5. logged' = balance'
  BY <1>0, <1>1
<1> HIDE DEF d
<1>6. QED
  BY <1>1, <1>2, <1>3, <1>4, <1>5, BalanceMoved

LEMMA BalanceNext == UpdateInv /\ FreeInv /\ RowInv /\ BalanceInv /\ [Next]_vars => BalanceInv'
<1> SUFFICES ASSUME UpdateInv, FreeInv, RowInv, BalanceInv, [Next]_vars PROVE BalanceInv'
  OBVIOUS
<1>0. /\ free \in [Account -> FreeRow] /\ miner \in [Account -> [Miner -> Row]]
      /\ SeenIsBalance /\ dist \in DistState
  BY DEF FreeInv, FreeTypes, RowInv, RowTypes, BalanceInv
<1>1. ASSUME UNCHANGED <<miner, balance, moved, logged>>, SeenIsBalance',
             \A a \in Account : free'[a].claimed = free[a].claimed
      PROVE  BalanceInv'
  BY <1>1, BalancesKept
<1>2. ASSUME UNCHANGED <<miner, balance, moved, logged, free, dist>> PROVE BalanceInv'
  BY <1>0, <1>1, <1>2, SeenKept
<1>3. CASE Tick
  BY <1>2, <1>3 DEF Tick
<1>4. CASE DistributeRead
  <2>1. dist'.pc = "lock" /\ UNCHANGED <<miner, balance, moved, logged, free>>
    BY <1>4 DEF DistributeRead, NoDist
  <2>2. SeenIsBalance'
    BY <2>1 DEF SeenIsBalance
  <2>3. QED
    BY <1>1, <2>1, <2>2
<1>5. CASE DistributeLock
  <2>1. PICK s : /\ s = [a \in Account |-> IF TotalShare(a) > 0 THEN balance[a] ELSE 0]
                 /\ dist' = [dist EXCEPT !.pc = "pay", !.seen = s]
    BY <1>5 DEF DistributeLock
  <2>2. dist'.share = dist.share /\ dist'.seen = s
    BY <1>0, <2>1 DEF DistState
  <2>3. UNCHANGED <<miner, balance, moved, logged, free>>
    BY <1>5 DEF DistributeLock
  <2>4. \A a \in Account : TotalShare(a)' = TotalShare(a)
    BY <2>2 DEF TotalShare
  <2>5. SeenIsBalance'
    BY <2>1, <2>2, <2>3, <2>4 DEF SeenIsBalance
  <2>6. QED
    BY <1>1, <2>3, <2>5
<1>6. CASE DistributeAbort
  <2>1. dist'.pc = "idle" /\ UNCHANGED <<miner, balance, moved, logged, free>>
    BY <1>6 DEF DistributeAbort, NoDist
  <2>2. SeenIsBalance'
    BY <2>1 DEF SeenIsBalance
  <2>3. QED
    BY <1>1, <2>1, <2>2
<1>7. CASE UpdateCycleCommit
  <2>1. UNCHANGED <<balance, moved, logged, free, dist>>
    BY <1>7 DEF UpdateCycleCommit
  <2>2. \A a \in Account, m \in Miner : miner'[a][m].produced = miner[a][m].produced
    BY <1>0, <1>7, Rewritten
  <2>3. QED
    BY <1>0, <2>1, <2>2, SeenKept, BalancesKept
<1>8. ASSUME NEW q \in Buyer, BuySave(q) PROVE BalanceInv'
  <2>1. UNCHANGED <<balance, moved, logged, free, dist>>
    BY <1>8 DEF BuySave
  <2>2. PICK a \in Account, m \in Miner, r \in Row :
          miner' = [miner EXCEPT ![a][m] = r] /\ r.produced = miner[a][m].produced
    BY <1>8, StartedRow
  <2>3. \A b \in Account, n \in Miner : miner'[b][n].produced = miner[b][n].produced
    BY <1>0, <2>2
  <2>4. QED
    BY <1>0, <2>1, <2>3, SeenKept, BalancesKept
<1>9. CASE UpdateFreeCommit
  <2>a. PICK value, rows : value = freeUpdate.value /\ rows = freeUpdate.rows
    OBVIOUS
  <2>1. /\ UNCHANGED <<miner, balance, moved, logged, dist>>
        /\ free' = [a \in Account |->
             IF a \in rows /\ Active(free[a])
             THEN [free[a] EXCEPT !.rate = Rate(FreePrice, value, free[a].cycle)]
             ELSE free[a]]
    BY <1>9, <2>a DEF UpdateFreeCommit
  <2>2. ASSUME NEW a \in Account PROVE free'[a].claimed = free[a].claimed
    <3>1. PICK r \in FreeRow : r = free[a]
      BY <1>0
    <3>2. free'[a] = r \/ free'[a] = [r EXCEPT !.rate = Rate(FreePrice, value, r.cycle)]
      BY <2>1, <3>1
    <3>3. QED
      BY <3>1, <3>2 DEF FreeRow
  <2>3. QED
    BY <1>0, <1>1, <2>1, <2>2, SeenKept
<1>10. ASSUME NEW q \in Starter, StartFreeMiner(q) PROVE BalanceInv'
  <2>1. PICK a, r : /\ a = start[q].account /\ free[a] = NoFree /\ r.claimed = 0
                    /\ free' = [free EXCEPT ![a] = r]
    BY <1>10 DEF StartFreeMiner
  <2>2. UNCHANGED <<miner, balance, moved, logged, dist>>
    BY <1>10 DEF StartFreeMiner
  <2>3. \A b \in Account : free'[b].claimed = free[b].claimed
    BY <1>0, <2>1 DEF NoFree
  <2>4. QED
    BY <1>0, <1>1, <2>2, <2>3, SeenKept
<1>11. CASE UNCHANGED vars
  BY <1>2, <1>11 DEF vars
<1>12. ASSUME NEW a \in Account, NEW m \in Miner, NEW q \in Buyer, BuyRead(q, a, m)
       PROVE  BalanceInv'
  BY <1>2, <1>12 DEF BuyRead
<1>13. ASSUME NEW q \in Starter, StartEnds(q) PROVE BalanceInv'
  BY <1>2, <1>13 DEF StartEnds
<1>14. ASSUME NEW a \in Account, NEW t \in MinedAt[a], NEW q \in Starter, StartRead(q, a, t)
       PROVE  BalanceInv'
  BY <1>2, <1>14 DEF StartRead
<1>15. ASSUME NEW q \in Claimer, NEW a \in Account, ClaimRead(q, a) PROVE BalanceInv'
  BY <1>2, <1>15 DEF ClaimRead
<1>16. ASSUME NEW q \in Claimer, DeadlockVictim(q) PROVE BalanceInv'
  BY <1>2, <1>16 DEF DeadlockVictim
<1>17. CASE DistributeFree
  <2>1. \E x : dist' = [dist EXCEPT !.pc = "save", !.bp = bp, !.freeBp = freeBp, !.freeShare = x]
    BY <1>17 DEF DistributeFree
  <2>2. PICK x : dist' = [dist EXCEPT !.pc = "save", !.bp = bp, !.freeBp = freeBp, !.freeShare = x]
    BY <2>1
  <2>3. /\ dist.pc = "pay" /\ dist'.share = dist.share /\ dist'.seen = dist.seen
        /\ UNCHANGED <<miner, balance, moved, logged, free>>
    BY <1>0, <1>17, <2>2 DEF DistributeFree, DistState
  <2>4. \A a \in Account : TotalShare(a)' = TotalShare(a)
    BY <2>3 DEF TotalShare
  <2>5. SeenIsBalance'
    BY <1>0, <2>3, <2>4 DEF SeenIsBalance
  <2>6. QED
    BY <1>1, <2>3, <2>5
<1>18. ASSUME \/ \E value \in Bp : UpdateCycleRead(value)
              \/ \E value \in FreeBp : UpdateFreeRead(value)
              \/ UpdateAbort
       PROVE  BalanceInv'
  BY <1>2, <1>18 DEF UpdateCycleRead, UpdateFreeRead, UpdateAbort
<1>19. QED
  BY <1>3, <1>4, <1>5, <1>6, <1>7, <1>8, <1>9, <1>10, <1>11, <1>12, <1>13, <1>14, <1>15,
     <1>16, <1>17, <1>18, BalanceAccelerate, BalanceBatch, BalanceCommit, BalanceClaimPay,
     BalanceGift, BalanceTransfer
  DEF Next, MidnightTask

LEMMA BalanceInvariance == Spec => []BalanceInv
  BY BalanceInit, BalanceNext, UpdateInvariance, FreeInvariance, RowInvariance, PTL DEF Spec

\* Every unit of a balance was produced by one of the account's miners, claimed
\* from its free miner or moved in, and what was produced was credited once: for
\* any number of miners, whatever runs while the midnight task is at work.
THEOREM RewardConservation == Spec => []Conservation
<1>1. BalanceInv => Conservation
  BY DEF BalanceInv
<1>2. QED
  BY <1>1, BalanceInvariance, PTL

\* The log of every account ends with its balance.
THEOREM LogEndsWithBalance == Spec => []LogChain
<1>1. BalanceInv => LogChain
  BY DEF BalanceInv
<1>2. QED
  BY <1>1, BalanceInvariance, PTL

-----------------------------------------------------------------------------
(***************************************************************************)
(* The rates of purchased miners.                                          *)
(***************************************************************************)
Saving(q) == buy[q].pc = "save"

\* A purchase that is being settled found its miner at rest and holds it.
BuyInv ==
  /\ \A q \in Buyer : Saving(q) => ~Active(miner[buy[q].account][buy[q].miner])
  /\ \A p, q \in Buyer : Saving(p) /\ Saving(q) /\ buy[p].miner = buy[q].miner => p = q

\* An update that commits between the midnight task's reading of the ratio and its
\* commit does not find the rows the task is adding to.
Missed ==
  dist.pc = "save" /\ dist.bp # bp =>
    \A a \in Account, m \in Miner : dist.share[a][m] > 0 => <<a, m>> \in stale

LEMMA SavingType ==
  ASSUME FreeInv, NEW q \in Buyer, Saving(q)
  PROVE  buy[q] \in BuyState /\ buy[q].account \in Account /\ buy[q].miner \in Miner
<1>1. buy \in [Buyer -> {NoBuy} \cup BuyState]
  BY DEF FreeInv, FreeTypes
<1>2. buy[q] \in BuyState
  BY <1>1 DEF Saving, NoBuy
<1>3. QED
  BY <1>2 DEF BuyState

\* A row the midnight task is adding to has something left to produce.
LEMMA SharedActive ==
  ASSUME RowInv, dist.pc # "idle", NEW a \in Account, NEW m \in Miner, dist.share[a][m] > 0
  PROVE  Active(miner[a][m])
<1>1. miner[a][m].produced + dist.share[a][m] <= miner[a][m].expected
  BY DEF RowInv, SharesFit
<1>2. /\ miner[a][m].produced \in Nat /\ miner[a][m].expected \in Nat
      /\ dist.share[a][m] \in Nat
  BY RowType, ShareType DEF RowInv, RowTypes
<1>3. QED
  BY <1>1, <1>2 DEF Active

\* Only the start of a miner makes it active.
LEMMA StaysIdle ==
  ASSUME BuyInv, UNCHANGED buy, FreeInv,
         \A a \in Account, m \in Miner : Active(miner'[a][m]) => Active(miner[a][m])
  PROVE  BuyInv'
<1>1. ASSUME NEW q \in Buyer, Saving(q)' PROVE ~Active(miner'[buy'[q].account][buy'[q].miner])
  <2>1. Saving(q) /\ buy'[q] = buy[q]
    BY <1>1 DEF Saving
  <2>2. buy[q].account \in Account /\ buy[q].miner \in Miner
    BY <2>1, SavingType
  <2>3. ~Active(miner[buy[q].account][buy[q].miner])
    BY <2>1 DEF BuyInv
  <2>4. QED
    BY <2>1, <2>2, <2>3
<1>2. \A p, q \in Buyer : Saving(p)' /\ Saving(q)' /\ buy'[p].miner = buy'[q].miner => p = q
  BY DEF BuyInv, Saving
<1>3. QED
  BY <1>1, <1>2 DEF BuyInv, Active

LEMMA RatesCommit ==
  ASSUME RowInv, Missed, MinerRates, DistributeCommit
  PROVE  MinerRates'
<1> DEFINE reset == {p \in Account \X Miner : WasReset(p[1], p[2])}
<1>1. /\ dist.pc = "save" /\ bp' = bp
      /\ stale' = IF dist.bp = bp THEN stale \ reset
                  ELSE stale \cup {p \in reset : ~RowLocked(p[1], p[2])}
      /\ miner' = [a \in Account |-> [m \in Miner |->
                     Reset(MinerPaid(a, m), Price[m], dist.bp)]]
  BY DEF DistributeCommit, config
<1>2. ASSUME NEW a \in Account, NEW m \in Miner,
             Active(miner'[a][m]), <<a, m>> \notin stale'
      PROVE  miner'[a][m].rate = Rate(Price[m], bp, miner'[a][m].cycle)
  <2>1. PICK o, r, s : /\ o = miner[a][m] /\ r = MinerPaid(a, m)
                       /\ s = Reset(r, Price[m], dist.bp)
    OBVIOUS
  <2>2. /\ s = miner'[a][m] /\ r \in Row /\ r.produced = s.produced /\ r.expected = s.expected
        /\ r.cycle = o.cycle /\ r.rate = o.rate /\ r.end = o.end
    BY <1>1, <2>1, PaidRow
  <2>3. Active(r)
    BY <1>2, <2>2 DEF Active
  <2>4. CASE r.end <= dist.at
    <3>1. s = [r EXCEPT !.cycle = NextCycle(r.cycle),
                        !.end = CycleEnd(dist.at, NextCycle(r.cycle)),
                        !.rate = Rate(Price[m], dist.bp, NextCycle(r.cycle))]
      BY <2>1, <2>3, <2>4 DEF Reset, Row
    <3>2. s.cycle = NextCycle(r.cycle) /\ s.rate = Rate(Price[m], dist.bp, NextCycle(r.cycle))
      BY <2>2, <3>1 DEF Row
    <3>3. dist.bp = bp
      <4>1. WasReset(a, m)
        BY <2>1, <2>2, <2>3, <2>4 DEF WasReset
      <4>2. <<a, m>> \in reset
        BY <4>1
      <4>3. SUFFICES ASSUME dist.bp # bp PROVE FALSE
        OBVIOUS
      <4>4. <<a, m>> \notin stale /\ RowLocked(a, m)
        BY <1>1, <1>2, <4>2, <4>3
      <4>5. QED
        BY <1>1, <4>3, <4>4 DEF Missed, RowLocked
    <3>4. QED
      BY <2>2, <3>2, <3>3
  <2>5. CASE ~(r.end <= dist.at)
    <3>1. s = r /\ ~WasReset(a, m)
      BY <2>1, <2>2, <2>5 DEF Reset, WasReset
    <3>a. <<a, m>> \notin reset
      BY <3>1
    <3>2. <<a, m>> \notin stale
      BY <1>1, <1>2, <3>a
    <3>3. Active(o)
      <4>1. s.produced = o.produced + dist.share[a][m] + TeamShare(a, m) /\ s.expected = o.expected
        BY <1>1, <2>1, PaidRow
      <4>2. o.produced \in Nat /\ o.expected \in Nat /\ dist.share[a][m] \in Nat
            /\ TeamShare(a, m) \in Nat
        BY <2>1, RowType, ShareType, TeamShareBounds DEF RowInv, RowTypes
      <4>3. QED
        BY <2>2, <2>3, <4>1, <4>2 DEF Active
    <3>4. o.rate = Rate(Price[m], bp, o.cycle)
      BY <2>1, <3>2, <3>3 DEF MinerRates
    <3>5. QED
      BY <2>2, <3>1, <3>4
  <2>6. QED
    BY <2>4, <2>5
<1> HIDE DEF reset
<1>3. QED
  BY <1>1, <1>2 DEF MinerRates, Rate, Active

\* A step after which no miner is active that was not, and none has another rate.
NoneStarted ==
  \A a \in Account, m \in Miner :
    Active(miner'[a][m]) => /\ Active(miner[a][m])
                           /\ miner'[a][m].rate = miner[a][m].rate
                           /\ miner'[a][m].cycle = miner[a][m].cycle

LEMMA RatesKept ==
  ASSUME MinerRates, UNCHANGED <<bp, stale>>, NoneStarted
  PROVE  MinerRates'
  BY DEF MinerRates, NoneStarted, Rate, Active

LEMMA AccelerateStartsNone ==
  ASSUME RowInv, NEW a \in Account, NEW m \in Miner, Accelerate(a, m)
  PROVE  NoneStarted /\ UNCHANGED <<bp, stale, buy, dist>>
<1>1. PICK y : miner' = [miner EXCEPT ![a][m].produced = @ + y]
  BY DEF Accelerate
<1>2. UNCHANGED <<bp, stale, buy, dist>> /\ Active(miner[a][m])
  BY DEF Accelerate, config
<1>3. miner \in [Account -> [Miner -> Row]]
  BY DEF RowInv, RowTypes
<1>4. ASSUME NEW b \in Account, NEW n \in Miner, Active(miner'[b][n])
      PROVE  /\ Active(miner[b][n])
             /\ miner'[b][n].rate = miner[b][n].rate /\ miner'[b][n].cycle = miner[b][n].cycle
  <2>1. CASE b = a /\ n = m
    <3>1. PICK o \in Row : o = miner[a][m]
      BY <1>3, RowType
    <3>2. miner'[a][m] = [o EXCEPT !.produced = o.produced + y]
      BY <1>1, <1>3, <3>1
    <3>3. miner'[a][m].rate = o.rate /\ miner'[a][m].cycle = o.cycle
      BY <3>2 DEF Row
    <3>4. QED
      BY <1>2, <2>1, <3>1, <3>3
  <2>2. CASE ~(b = a /\ n = m)
    <3>1. miner'[b][n] = miner[b][n]
      BY <1>1, <1>3, <2>2
    <3>2. QED
      BY <1>4, <3>1
  <2>3. QED
    BY <2>1, <2>2
<1>5. QED
  BY <1>2, <1>4 DEF NoneStarted

LEMMA BatchStartsNone ==
  ASSUME RowInv, NEW A \in SUBSET Account, BatchAccelerate(A)
  PROVE  NoneStarted /\ UNCHANGED <<bp, stale, buy, dist>>
<1>1. /\ UNCHANGED <<bp, stale, buy, dist>>
      /\ miner' = [a \in Account |-> [m \in Miner |->
           IF a \in A /\ Active(miner[a][m])
           THEN [miner[a][m] EXCEPT !.produced = miner[a][m].expected] ELSE miner[a][m]]]
  BY DEF BatchAccelerate, config
<1>2. ASSUME NEW a \in Account, NEW m \in Miner, Active(miner'[a][m])
      PROVE  miner'[a][m] = miner[a][m]
  <2>1. PICK o \in Row : o = miner[a][m]
    BY RowType DEF RowInv, RowTypes
  <2>2. miner'[a][m] = o \/ miner'[a][m] = [o EXCEPT !.produced = o.expected]
    BY <1>1, <2>1
  <2>3. ~Active([o EXCEPT !.produced = o.expected])
    BY DEF Row, Active
  <2>4. QED
    BY <1>2, <2>1, <2>2, <2>3
<1>3. QED
  BY <1>1, <1>2 DEF NoneStarted

\* The rows the snapshot of an update holds are rewritten, the others are stale.
LEMMA RatesRatio == ASSUME UpdateInv, RowInv, UpdateCycleCommit PROVE MinerRates'
<1>1. stale' = {p \in Account \X Miner : Active(miner[p[1]][p[2]]) /\ p \notin update.rows}
  BY DEF UpdateCycleCommit
<1>2. ASSUME NEW a \in Account, NEW m \in Miner, Active(miner'[a][m]), <<a, m>> \notin stale'
      PROVE  miner'[a][m].rate = Rate(Price[m], bp', miner'[a][m].cycle)
  <2>1. /\ miner'[a][m].produced = miner[a][m].produced
        /\ miner'[a][m].expected = miner[a][m].expected
        /\ miner'[a][m].cycle = miner[a][m].cycle
        /\ <<a, m>> \in update.rows /\ Active(miner[a][m])
             => miner'[a][m].rate = Rate(Price[m], bp', miner[a][m].cycle)
    BY Rewritten DEF RowInv, RowTypes
  <2>2. Active(miner[a][m])
    BY <1>2, <2>1 DEF Active
  <2>3. <<a, m>> \in update.rows
    BY <1>1, <1>2, <2>2
  <2>4. QED
    BY <2>1, <2>2, <2>3
<1>3. QED
  BY <1>2 DEF MinerRates, Rate, Active

LEMMA RatesBuySave ==
  ASSUME FreeInv, RowInv, MinerRates, NEW q \in Buyer, BuySave(q)
  PROVE  MinerRates'
<1>1. PICK a \in Account, m \in Miner, r \in Row :
        /\ a = buy[q].account /\ m = buy[q].miner
        /\ miner' = [miner EXCEPT ![a][m] = r]
        /\ r.rate = Rate(Price[m], buy[q].bp, r.cycle)
  BY StartedRow
<1>2. /\ bp' = bp
      /\ stale' = IF buy[q].bp = bp THEN stale \ {<<a, m>>} ELSE stale \cup {<<a, m>>}
  BY <1>1 DEF BuySave, config
<1>3. miner \in [Account -> [Miner -> Row]]
  BY DEF RowInv, RowTypes
<1>4. /\ miner'[a][m] = r
      /\ \A b \in Account, n \in Miner : <<b, n>> # <<a, m>> => miner'[b][n] = miner[b][n]
  BY <1>1, <1>3
<1>5. ASSUME NEW b \in Account, NEW n \in Miner,
             Active(miner'[b][n]), <<b, n>> \notin stale'
      PROVE  miner'[b][n].rate = Rate(Price[n], bp, miner'[b][n].cycle)
  <2>1. CASE <<b, n>> = <<a, m>>
    <3>1. buy[q].bp = bp
      BY <1>2, <1>5, <2>1
    <3>2. QED
      BY <1>1, <1>4, <2>1, <3>1
  <2>2. CASE <<b, n>> # <<a, m>>
    <3>1. <<b, n>> \notin stale /\ miner'[b][n] = miner[b][n]
      BY <1>2, <1>4, <1>5, <2>2
    <3>2. QED
      BY <1>5, <3>1 DEF MinerRates
  <2>3. QED
    BY <2>1, <2>2
<1>6. QED
  BY <1>2, <1>5 DEF MinerRates, Rate, Active

LEMMA MissedNext ==
  ASSUME UpdateInv, FreeInv, RowInv, BuyInv, Missed, [Next]_vars
  PROVE  Missed'
<1>1. CASE MidnightTask
  BY <1>1, DistAfter DEF Missed
<1>2. CASE UpdateCycleCommit
  <2>1. /\ stale' = {p \in Account \X Miner : Active(miner[p[1]][p[2]]) /\ p \notin update.rows}
        /\ \A p \in update.rows : ~RowLocked(p[1], p[2])
        /\ dist' = dist
    BY <1>2 DEF UpdateCycleCommit
  <2>2. ASSUME dist.pc = "save", NEW a \in Account, NEW m \in Miner, dist.share[a][m] > 0
        PROVE  <<a, m>> \in stale'
    <3>1. <<a, m>> \notin update.rows
      BY <2>1, <2>2 DEF RowLocked
    <3>2. Active(miner[a][m])
      BY <2>2, SharedActive
    <3>3. QED
      BY <2>1, <3>1, <3>2
  <2>3. QED
    BY <2>1, <2>2 DEF Missed
<1>3. ASSUME NEW q \in Buyer, BuySave(q) PROVE Missed'
  <2>1. Saving(q) /\ UNCHANGED <<dist, bp>>
    BY <1>3 DEF BuySave, Saving, config
  <2>2. PICK a \in Account, m \in Miner : a = buy[q].account /\ m = buy[q].miner
    BY <2>1, SavingType
  <2>3. stale \ {<<a, m>>} \subseteq stale'
    BY <1>3, <2>2 DEF BuySave
  <2>4. ~Active(miner[a][m])
    BY <2>1, <2>2 DEF BuyInv
  <2>5. ASSUME dist.pc = "save", dist.bp # bp, NEW b \in Account, NEW n \in Miner,
               dist.share[b][n] > 0
        PROVE  <<b, n>> \in stale'
    <3>1. Active(miner[b][n]) /\ <<b, n>> \in stale
      BY <2>5, SharedActive DEF Missed
    <3>2. <<b, n>> # <<a, m>>
      BY <2>4, <3>1
    <3>3. QED
      BY <2>3, <3>1, <3>2
  <2>6. QED
    BY <2>1, <2>5 DEF Missed
<1>4. CASE UNCHANGED <<dist, bp, stale>>
  BY <1>4 DEF Missed
<1>5. QED
  BY <1>1, <1>2, <1>3, <1>4, Elsewhere

LEMMA BuyReadStep ==
  ASSUME FreeInv, BuyInv, NEW q \in Buyer, NEW a \in Account, NEW m \in Miner, BuyRead(q, a, m)
  PROVE  BuyInv'
<1> DEFINE b == [pc |-> "save", account |-> a, miner |-> m, bp |-> bp]
<1>1. /\ buy' = [buy EXCEPT ![q] = b] /\ miner' = miner
      /\ ~Active(miner[a][m]) /\ MinerFree(m)
  BY DEF BuyRead, Startable
<1>2. b.account = a /\ b.miner = m
  OBVIOUS
<1> HIDE DEF b
<1>3. \A p \in Buyer : buy'[p] = IF p = q THEN b ELSE buy[p]
  BY <1>1 DEF FreeInv, FreeTypes
<1>4. \A p \in Buyer : Saving(p)' =>
         \/ p = q /\ buy'[p] = b
         \/ p # q /\ Saving(p) /\ buy'[p] = buy[p] /\ buy[p].miner # m
  BY <1>1, <1>3 DEF Saving, MinerFree
<1>5. ASSUME NEW p \in Buyer, Saving(p)' PROVE ~Active(miner'[buy'[p].account][buy'[p].miner])
  BY <1>1, <1>2, <1>4, <1>5 DEF BuyInv
<1>6. ASSUME NEW p \in Buyer, NEW r \in Buyer, Saving(p)', Saving(r)',
             buy'[p].miner = buy'[r].miner
      PROVE  p = r
  BY <1>2, <1>4, <1>6 DEF BuyInv
<1>7. QED
  BY <1>5, <1>6 DEF BuyInv, Active

LEMMA BuySaved ==
  ASSUME FreeInv, RowInv, BuyInv, NEW q \in Buyer, BuySave(q)
  PROVE  BuyInv'
<1>1. PICK a \in Account, m \in Miner, r \in Row :
        a = buy[q].account /\ m = buy[q].miner /\ miner' = [miner EXCEPT ![a][m] = r]
  BY StartedRow
<1>2. buy' = [buy EXCEPT ![q] = NoBuy] /\ Saving(q)
  BY DEF BuySave, Saving
<1>3. \A p \in Buyer : Saving(p)' =>
         p # q /\ Saving(p) /\ buy'[p] = buy[p] /\ buy[p].miner # m
  BY <1>1, <1>2 DEF FreeInv, FreeTypes, Saving, NoBuy, BuyInv
<1>4. ASSUME NEW p \in Buyer, Saving(p)' PROVE ~Active(miner'[buy'[p].account][buy'[p].miner])
  <2>1. Saving(p) /\ buy'[p] = buy[p] /\ buy[p].miner # m
    BY <1>3, <1>4
  <2>2. PICK b \in Account, n \in Miner : b = buy[p].account /\ n = buy[p].miner
    BY <2>1, SavingType
  <2>3. miner'[b][n] = miner[b][n]
    BY <1>1, <2>1, <2>2 DEF RowInv, RowTypes
  <2>4. ~Active(miner[b][n])
    BY <2>1, <2>2 DEF BuyInv
  <2>5. QED
    BY <2>1, <2>2, <2>3, <2>4
<1>5. ASSUME NEW p \in Buyer, NEW s \in Buyer, Saving(p)', Saving(s)',
             buy'[p].miner = buy'[s].miner
      PROVE  p = s
  BY <1>3, <1>5 DEF BuyInv
<1>6. QED
  BY <1>4, <1>5 DEF BuyInv, Active

\* The midnight task and the updates start no miner either.
LEMMA CommitsStartNone ==
  ASSUME UpdateInv, RowInv, DistributeCommit \/ UpdateCycleCommit,
         NEW a \in Account, NEW m \in Miner, Active(miner'[a][m])
  PROVE  Active(miner[a][m])
<1>1. CASE DistributeCommit
  <2>1. miner'[a][m] = Reset(MinerPaid(a, m), Price[m], dist.bp) /\ dist.pc = "save"
    BY <1>1 DEF DistributeCommit
  <2>2. /\ miner'[a][m].produced
             = miner[a][m].produced + dist.share[a][m] + TeamShare(a, m)
        /\ miner'[a][m].expected = miner[a][m].expected
    BY <2>1, PaidRow
  <2>3. /\ miner[a][m].produced \in Nat /\ miner[a][m].expected \in Nat
        /\ dist.share[a][m] \in Nat /\ TeamShare(a, m) \in Nat
    BY RowType, ShareType, TeamShareBounds DEF RowInv, RowTypes
  <2>4. QED
    BY <2>2, <2>3 DEF Active
<1>2. CASE UpdateCycleCommit
  BY <1>2, Rewritten DEF RowInv, RowTypes, Active
<1>3. QED
  BY <1>1, <1>2

LEMMA MinerRatesNext ==
  UpdateInv /\ FreeInv /\ RowInv /\ BuyInv /\ Missed /\ MinerRates /\ [Next]_vars
    => MinerRates' /\ BuyInv'
<1> SUFFICES ASSUME UpdateInv, FreeInv, RowInv, BuyInv, Missed, MinerRates, [Next]_vars
             PROVE  MinerRates' /\ BuyInv'
  OBVIOUS
<1>1. ASSUME UNCHANGED <<bp, miner, stale>> PROVE MinerRates'
  BY <1>1 DEF MinerRates
<1>a. ASSUME UNCHANGED <<bp, miner, stale, buy>> PROVE MinerRates' /\ BuyInv'
  BY <1>a, <1>1, StaysIdle
<1>2. CASE UNCHANGED vars
  BY <1>a, <1>2 DEF vars, config
<1>3. CASE Tick \/ DistributeRead \/ DistributeLock \/ DistributeFree \/ DistributeAbort
  BY <1>a, <1>3 DEF Tick, DistributeRead, DistributeLock, DistributeFree, DistributeAbort, config
<1>4. ASSUME NEW a \in Account, NEW m \in Miner, NEW q \in Buyer, BuyRead(q, a, m)
      PROVE  MinerRates' /\ BuyInv'
  BY <1>1, <1>4, BuyReadStep DEF BuyRead, config
<1>5. ASSUME \/ UpdateFreeCommit \/ UpdateAbort
             \/ \E value \in Bp : UpdateCycleRead(value)
             \/ \E value \in FreeBp : UpdateFreeRead(value)
      PROVE  MinerRates' /\ BuyInv'
  BY <1>a, <1>5 DEF UpdateFreeCommit, UpdateAbort, UpdateCycleRead, UpdateFreeRead
<1>6. ASSUME NEW q \in Starter, StartFreeMiner(q) \/ StartEnds(q) PROVE MinerRates' /\ BuyInv'
  BY <1>a, <1>6 DEF StartFreeMiner, StartEnds, config
<1>7. ASSUME NEW a \in Account, NEW x \in Gift,
             \/ addUserSystemReward(a, x)
             \/ \E b \in Account : transferUserBalance(a, b, x)
      PROVE  MinerRates' /\ BuyInv'
  BY <1>a, <1>7 DEF addUserSystemReward, transferUserBalance, config
<1>8. ASSUME NEW a \in Account, NEW t \in MinedAt[a], NEW q \in Starter, StartRead(q, a, t)
      PROVE  MinerRates' /\ BuyInv'
  BY <1>a, <1>8 DEF StartRead, config
<1>9. ASSUME NEW q \in Claimer, NEW a \in Account, ClaimRead(q, a) PROVE MinerRates' /\ BuyInv'
  BY <1>a, <1>9 DEF ClaimRead, config
<1>10. ASSUME NEW q \in Claimer, ClaimPay(q) \/ DeadlockVictim(q) PROVE MinerRates' /\ BuyInv'
  BY <1>a, <1>10 DEF ClaimPay, DeadlockVictim, config
<1>11. ASSUME NoneStarted, UNCHANGED <<bp, stale, buy>> PROVE MinerRates' /\ BuyInv'
  BY <1>11, RatesKept, StaysIdle DEF NoneStarted
<1>12. ASSUME NEW a \in Account, NEW m \in Miner, Accelerate(a, m) PROVE MinerRates' /\ BuyInv'
  BY <1>11, <1>12, AccelerateStartsNone
<1>13. ASSUME NEW A \in SUBSET Account, BatchAccelerate(A) PROVE MinerRates' /\ BuyInv'
  BY <1>11, <1>13, BatchStartsNone
<1>14. CASE DistributeCommit
  <2>1. UNCHANGED buy
    BY <1>14 DEF DistributeCommit
  <2>2. BuyInv'
    BY <1>14, <2>1, CommitsStartNone, StaysIdle
  <2>3. QED
    BY <1>14, <2>2, RatesCommit
<1>15. CASE UpdateCycleCommit
  <2>1. UNCHANGED buy
    BY <1>15 DEF UpdateCycleCommit
  <2>2. BuyInv'
    BY <1>15, <2>1, CommitsStartNone, StaysIdle
  <2>3. QED
    BY <1>15, <2>2, RatesRatio
<1>16. ASSUME NEW q \in Buyer, BuySave(q) PROVE MinerRates' /\ BuyInv'
  BY <1>16, BuySaved, RatesBuySave
<1>17. QED
  BY <1>2, <1>3, <1>4, <1>5, <1>6, <1>7, <1>8, <1>9, <1>10, <1>12, <1>13, <1>14, <1>15, <1>16
  DEF Next, MidnightTask

\* Whatever order the starts of miners, the resets of their cycles and the updates
\* of the two ratios commit in, an active miner earns at the configured ratio over
\* its current cycle, except if it was started, or reset without being paid, at a
\* ratio read before an update committed, and that write committed after the update
\* or after its UPDATE had taken the snapshot, in which the miner was not active.
THEOREM RatesFollowConfig == Spec => []RateFollowsConfig
<1>1. Init => BuyInv /\ Missed /\ MinerRates
  BY DEF Init, BuyInv, Saving, NoBuy, Missed, NoDist, MinerRates, NoRow, Active
<1>a. UpdateInv /\ FreeInv /\ RowInv /\ BuyInv /\ Missed /\ [Next]_vars => Missed'
  BY MissedNext
<1>2. Spec => []MinerRates
  BY <1>1, <1>a, UpdateInvariance, FreeInvariance, RowInvariance, MinerRatesNext, PTL DEF Spec
<1>3. MinerRates /\ FreeRates => RateFollowsConfig
  BY DEF RateFollowsConfig
<1>4. QED
  BY <1>2, <1>3, FreeRatesInvariance, PTL

-----------------------------------------------------------------------------
(***************************************************************************)
(* Types.                                                                  *)
(***************************************************************************)
BoundsInv == stale \subseteq Account \X Miner /\ freeStale \subseteq Account

LEMMA BoundsNext == FreeInv /\ RowInv /\ BoundsInv /\ [Next]_vars => BoundsInv'
<1> SUFFICES ASSUME FreeInv, RowInv, BoundsInv, [Next]_vars PROVE BoundsInv'
  OBVIOUS
<1>1. stale' \subseteq Account \X Miner
  <2>1. CASE MidnightTask
    BY <2>1 DEF MidnightTask, DistributeRead, DistributeLock, DistributeFree, DistributeCommit,
       DistributeAbort, BoundsInv
  <2>2. CASE UpdateCycleCommit
    BY <2>2 DEF UpdateCycleCommit
  <2>3. ASSUME NEW q \in Buyer, BuySave(q) PROVE stale' \subseteq Account \X Miner
    <3>1. PICK a \in Account, m \in Miner : a = buy[q].account /\ m = buy[q].miner
      BY <2>3, StartedRow
    <3>2. stale' \subseteq stale \cup {<<a, m>>}
      BY <2>3, <3>1 DEF BuySave
    <3>3. QED
      BY <3>2 DEF BoundsInv
  <2>4. QED
    BY <2>1, <2>2, <2>3, Elsewhere DEF BoundsInv
<1>2. freeStale' \subseteq Account
  <2>1. CASE MidnightTask
    BY <2>1 DEF MidnightTask, DistributeRead, DistributeLock, DistributeFree, DistributeCommit,
       DistributeAbort, BoundsInv, starts
  <2>2. CASE UpdateFreeCommit
    BY <2>2 DEF UpdateFreeCommit
  <2>3. ASSUME NEW q \in Starter, StartFreeMiner(q) PROVE freeStale' \subseteq Account
    <3>1. start[q] \in StartState
      BY <2>3 DEF StartFreeMiner, NoStart, FreeInv, FreeTypes
    <3>2. start[q].account \in Account
      BY <3>1 DEF StartState
    <3>3. freeStale' \subseteq freeStale \cup {start[q].account}
      BY <2>3 DEF StartFreeMiner
    <3>4. QED
      BY <3>2, <3>3 DEF BoundsInv
  <2>4. QED
    BY <2>1, <2>2, <2>3, Elsewhere DEF BoundsInv
<1>3. QED
  BY <1>1, <1>2 DEF BoundsInv

\* The types; in particular no balance is ever negative.
THEOREM TypeCorrect == Spec => []TypeOK
<1>1. Init => BoundsInv
  BY ConstantsAssumption DEF Init, BoundsInv
<1>2. Spec => []BoundsInv
  BY <1>1, FreeInvariance, RowInvariance, BoundsNext, PTL DEF Spec
<1>3. ASSUME UpdateInv, FreeInv, RowInv, BalanceInv, BoundsInv PROVE TypeOK
  <2>a. updates \in 0..MaxUpdates
    <3>1. /\ updates \in Nat /\ Running \in Nat /\ MaxUpdates \in Nat
          /\ updates + Running <= MaxUpdates
      BY <1>3, ConstantsAssumption DEF UpdateInv, Running
    <3>2. QED
      BY <3>1
  <2>b. /\ update = NoUpdate \/ update \in UpdateState
        /\ freeUpdate = NoUpdate \/ freeUpdate \in FreeUpdateState
    BY <1>3 DEF UpdateInv
  <2>1. /\ now \in 0..MaxNow /\ bp \in Bp /\ freeBp \in FreeBp
        /\ miner \in [Account -> [Miner -> Row]] /\ free \in [Account -> FreeRow]
        /\ paid \in [Account -> Nat] /\ balance \in [Account -> Nat] /\ logged = balance
        /\ moved \in [Account -> Int] /\ dist \in DistState
        /\ stale \subseteq Account \X Miner /\ freeStale \subseteq Account
    BY <1>3 DEF FreeInv, FreeTypes, RowInv, RowTypes, BalanceInv, LogChain, BoundsInv
  <2>2. /\ \A q \in Claimer : claim[q] = NoClaim \/ claim[q] \in ClaimState
        /\ \A q \in Buyer : buy[q] = NoBuy \/ buy[q] \in BuyState
        /\ \A q \in Starter : start[q] = NoStart \/ start[q] \in StartState
    BY <1>3 DEF FreeInv, FreeTypes
  <2>3. QED
    BY <2>a, <2>b, <2>1, <2>2 DEF TypeOK, DistState, ClaimState, BuyState, StartState,
       UpdateState, FreeUpdateState
<1>4. QED
  BY <1>2, <1>3, UpdateInvariance, FreeInvariance, RowInvariance, BalanceInvariance, PTL
===============================================================================
