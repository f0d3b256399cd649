------------------------------ MODULE Dividend ------------------------------
(***************************************************************************)
(* The weekly dividend: dividendTask and what it calls in                  *)
(* src/src/account/account.service.ts, dividend of                         *)
(* src/src/web3/web3.service.ts, the rules of src/src/config/              *)
(* config.service.ts and updateDividendRuleGroup of                        *)
(* src/src/admin/admin.service.ts, together with the referral tree that    *)
(* decides who gets what.                                                  *)
(*                                                                         *)
(* The task recomputes the levels, empties the fee vaults on the chain and *)
(* credits what was in them in one database transaction: level by level it *)
(* lists the accounts that have the level, locks one after the other and   *)
(* credits it.  What it has locked stays locked until the commit; who is   *)
(* listed and not locked yet may change.                                   *)
(***************************************************************************)
EXTENDS ReferralTree, Sequences, Functions

CONSTANTS
  Kinds,          \* the distributions in their order: vaults and who shares them
  NodeLevel,      \* account.node_level
  ManualVip,      \* account.manual_vip_level
  RuleGroup,      \* groups of rules the administrator may try to save
  Fallback,       \* DIVIDEND_FALLBACK_ACCOUNT_ADDRESS
  FeeBp,          \* [kind -> USDT_DIVIDEND_FEE_BP for the USDT vault, else 0]
  FeeUnit,        \* what a vault collects at a time
  MaxRounds       \* bound on the rounds

ASSUME DividendAssumption ==
  /\ Kinds \in Seq(STRING)
  /\ \A i, j \in 1..Len(Kinds) : Kinds[i] = Kinds[j] => i = j

\* There is something to distribute; fees and rules are basis points, amounts
\* are natural numbers.
ASSUME AmountAssumption ==
  /\ Kinds # <<>>
  /\ \A i \in 1..Len(Kinds) : FeeBp[Kinds[i]] \in Nat /\ FeeBp[Kinds[i]] <= 10000
  /\ \A group \in RuleGroup : \A l \in 1..MaxVip : group[l] \in Nat
  /\ FeeUnit \in Nat

Kind == {Kinds[i] : i \in 1..Len(Kinds)}
Level == 1..MaxVip
NoRound == [pc |-> "idle"]

VARIABLES
  vault,      \* [Kind -> what the fee vault holds on the chain]
  rules,      \* [Kind -> the dividend rules: basis points of a level]
  round,      \* the task that is running
  dividend,   \* [Account -> what dividends have been credited]
  rounds,     \* how many rounds there were
  swept,      \* history: what left the vaults for dividends
  unbacked,   \* history: what the task took for swept although it was reverted
  lost        \* history: what was swept and not distributed

roundVars == <<vault, rules, round, dividend, rounds, swept, unbacked, lost>>
vars == <<treeVars, roundVars>>

AnyGroup(group) == TRUE
\* validateDividendRuleGroupUpdate: the levels share the whole.
ValidGroup(group) == SumFunction([l \in Level |-> group[l]]) = 10000

DividendInit ==
  /\ Init
  /\ vault = [k \in Kind |-> 0]
  /\ rules \in [Kind -> {g \in RuleGroup : ValidGroup(g)}]
  /\ \A j, k \in Kind : rules[j] = rules[k]
  /\ round = NoRound
  /\ dividend = [a \in Account |-> 0]
  /\ rounds = 0
  /\ swept = 0 /\ unbacked = 0 /\ lost = 0

\* What of a vault is distributed: the fee is left out.
Net(amount, k) == amount - (amount * FeeBp[k]) \div 10000

Total(amounts) == SumFunction([k \in Kind |-> Net(amounts[k], k)])

-----------------------------------------------------------------------------
(***************************************************************************)
(* The vaults and the rules.                                               *)
(***************************************************************************)
CollectFees ==
  /\ \A k \in Kind : vault[k] = 0
  /\ vault' = [k \in Kind |-> FeeUnit]
  /\ UNCHANGED <<treeVars, rules, round, dividend, rounds, swept, unbacked, lost>>

\* updateDividendRuleGroup, all rules of a group under lock.
UpdateDividendRuleGroup(k, group) ==
  /\ ValidGroup(group)
  /\ group # rules[k]
  /\ rules' = [rules EXCEPT ![k] = group]
  /\ UNCHANGED <<treeVars, vault, round, dividend, rounds, swept, unbacked, lost>>

-----------------------------------------------------------------------------
(***************************************************************************)
(* The recomputation first; if another one is running it is skipped.       *)
(***************************************************************************)
Recompute ==
  /\ round.pc = "idle" /\ rounds < MaxRounds
  /\ rounds' = rounds + 1
  /\ \/ /\ SnapshotBegin
        /\ round' = [pc |-> "recompute"]
     \/ /\ snapshot.pc # "idle"
        /\ round' = [pc |-> "sweep"]
        /\ UNCHANGED treeVars
  /\ UNCHANGED <<vault, rules, dividend, swept, unbacked, lost>>

\* It is written: the task goes on.  If it fails the task ends, nothing swept.
RecomputeEnd ==
  /\ \/ /\ SnapshotWrite
        /\ round' = IF round.pc = "recompute" THEN [pc |-> "sweep"] ELSE round
     \/ /\ SnapshotFail
        /\ round' = IF round.pc = "recompute" THEN NoRound ELSE round
  /\ UNCHANGED <<vault, rules, dividend, rounds, swept, unbacked, lost>>

-----------------------------------------------------------------------------
(***************************************************************************)
(* web3.dividend.                                                          *)
(***************************************************************************)

\* The balances are read, the call is simulated and sent.
SweepSend ==
  /\ round.pc = "sweep"
  /\ round' = [pc |-> "sent", amount |-> vault]
  /\ UNCHANGED <<treeVars, vault, rules, dividend, rounds, swept, unbacked, lost>>

Sweep ==
  /\ vault' = [k \in Kind |-> vault[k] - round.amount[k]]
  /\ swept' = swept + Total(round.amount)

Mined == [pc |-> "mined", net |-> [k \in Kind |-> Net(round.amount[k], k)]]

\* The receipt arrives.  Nobody looks at its status.
SweepReceipt ==
  /\ round.pc = "sent"
  /\ \/ /\ Sweep
        /\ UNCHANGED unbacked
     \/ /\ unbacked' = unbacked + Total(round.amount)
        /\ UNCHANGED <<vault, swept>>
  /\ round' = Mined
  /\ UNCHANGED <<treeVars, rules, dividend, rounds, lost>>

\* The wait for the receipt times out, or the process ends; the call was mined
\* or never will be.
SweepTimeout ==
  /\ round.pc = "sent"
  /\ \/ /\ Sweep
        /\ lost' = lost + Total(round.amount)
     \/ UNCHANGED <<vault, swept, lost>>
  /\ round' = NoRound
  /\ UNCHANGED <<treeVars, rules, dividend, rounds, unbacked>>

-----------------------------------------------------------------------------
(***************************************************************************)
(* The distribution: one transaction over all kinds and levels.            *)
(***************************************************************************)

\* The rules are read and the transaction begins.
ReadRules ==
  /\ round.pc = "mined"
  /\ round' = [pc |-> "pay", net |-> round.net, rules |-> rules, step |-> 0, list |-> {},
               share |-> 0, shared |-> FALSE, paid |-> {}, changed |-> {}]
  /\ UNCHANGED <<treeVars, vault, rules, dividend, rounds, swept, unbacked, lost>>

Steps == Len(Kinds) * MaxVip
KindOf(step) == Kinds[(step - 1) \div MaxVip + 1]
LevelOf(step) == ((step - 1) % MaxVip) + 1

\* GREATEST(vip_level, manual_vip_level), or node_level.
HasLevel(a, k, l) ==
  IF k = "vip" THEN l = (IF vip[a] < ManualVip[a] THEN ManualVip[a] ELSE vip[a])
  ELSE l = NodeLevel[a]

Recipients(k, l) == {a \in account : HasLevel(a, k, l)}

\* Without recipients the fallback account gets the share of the level.
ListedOnly(k, l) == Recipients(k, l)
Targets(k, l) == IF Recipients(k, l) = {} THEN {Fallback} ELSE Recipients(k, l)

\* What the rule of a level gives it.
LevelAmount(k, l) == (round.net[k] * round.rules[k][l]) \div 10000

\* The recipients of the next level, all to get the same, rounded down.
ListRecipients ==
  LET step == round.step + 1
      k == KindOf(step)
      l == LevelOf(step)
      amount == LevelAmount(k, l)
      targets == Targets(k, l)
      average == IF targets = {} THEN 0 ELSE amount \div Cardinality(targets)
  IN /\ round.pc = "pay" /\ round.list = {} /\ round.step < Steps
     /\ amount > 0 => targets \subseteq account
     /\ round' = [round EXCEPT !.step = step, !.share = average,
                    !.shared = Recipients(k, l) # {}, !.changed = {},
                    !.list = IF average > 0 THEN targets ELSE {}]
     /\ UNCHANGED <<treeVars, vault, rules, dividend, rounds, swept, unbacked, lost>>

LeaveRow(a) == held
LockRow(a) == held \cup {a}

\* The next one in the order of ids is locked and credited.
PayRecipient(a) ==
  /\ round.pc = "pay"
  /\ a \in round.list /\ \A b \in round.list : a <= b
  /\ a \in account
  /\ held' = LockRow(a)
  /\ round' = [round EXCEPT !.list = @ \ {a},
                 !.paid = @ \cup {[account |-> a, step |-> round.step, amount |-> round.share,
                                  shared |-> round.shared, changed |-> a \in round.changed]}]
  /\ UNCHANGED <<account, relation, bought, vip, threshold, create, move, snapshot, moves,
                 parent, due, mixed>>
  /\ UNCHANGED <<vault, rules, dividend, rounds, swept, unbacked, lost>>

PaidTo(a) ==
  SumFunction([p \in {q \in round.paid : q.account = a} |-> p.amount])

Commit ==
  /\ round.pc = "pay" /\ round.list = {} /\ round.step = Steps
  /\ dividend' = [a \in Account |-> dividend[a] + PaidTo(a)]
  /\ held' = {}
  /\ round' = NoRound
  /\ UNCHANGED <<account, relation, bought, vip, threshold, create, move, snapshot, moves,
                 parent, due, mixed>>
  /\ UNCHANGED <<vault, rules, rounds, swept, unbacked, lost>>

\* A listed account or the fallback account does not exist, or anything else
\* goes wrong after the sweep: the transaction is rolled back and the task ends.
DividendFail ==
  /\ round.pc \in {"mined", "pay"}
  /\ lost' = lost + SumFunction(round.net)
  /\ held' = {}
  /\ round' = NoRound
  /\ UNCHANGED <<account, relation, bought, vip, threshold, create, move, snapshot, moves,
                 parent, due, mixed>>
  /\ UNCHANGED <<vault, rules, dividend, rounds, swept, unbacked>>

-----------------------------------------------------------------------------
\* The accounts of the current list whose level somebody writes are remembered.
Remember ==
  round' = IF round.pc = "pay"
           THEN [round EXCEPT !.changed = @ \cup {a \in Account : vip'[a] # vip[a]}]
           ELSE round

TreeStep ==
  /\ \/ Register \/ Administer
     \/ \E a \in Buyer : Purchase(a)
     \/ SnapshotBegin \/ SnapshotRead
     \/ round.pc # "recompute" /\ SnapshotWrite
     \/ round.pc # "recompute" /\ SnapshotFail
  /\ Remember
  /\ UNCHANGED <<vault, rules, dividend, rounds, swept, unbacked, lost>>

DividendNext ==
  \/ TreeStep
  \/ Recompute
  \/ round.pc = "recompute" /\ RecomputeEnd
  \/ CollectFees
  \/ \E k \in Kind, group \in RuleGroup : UpdateDividendRuleGroup(k, group)
  \/ SweepSend \/ SweepReceipt \/ SweepTimeout
  \/ ReadRules \/ ListRecipients \/ Commit \/ DividendFail
  \/ \E a \in Account : PayRecipient(a)

DividendSpec == DividendInit /\ [][DividendNext]_vars

-----------------------------------------------------------------------------
(***************************************************************************)
(* Properties.                                                             *)
(***************************************************************************)
Credited == SumFunction(dividend)

\* Whatever fails when, no more is credited than left the vaults for it or a
\* reverted call was taken for; what a failure loses is not credited later.
PaidOutOfSweeps == Credited + lost <= swept + unbacked

\* The levels of one kind are listed one after the other, and no account shares
\* in two of them, except one whose level was written between its listing and
\* its locking.
SharesInOneLevel ==
  round.pc = "pay" =>
    \A p, q \in round.paid :
      /\ p.account = q.account /\ p.step < q.step
      /\ KindOf(p.step) = KindOf(q.step)
      /\ p.shared /\ q.shared
      => p.changed

\* A round that commits has paid out all it took for swept, up to less than a
\* unit for every rule and every recipient of a rule.
RoundPaysAll ==
  [][Commit => SumFunction(round.net)
                 < Credited' - Credited + Steps * (1 + Cardinality(Account))]_vars
=============================================================================
