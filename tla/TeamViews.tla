------------------------------ MODULE TeamViews ------------------------------
(***************************************************************************)
(* What users and administrators are shown of a team: getUsers and the     *)
(* getUserTeam calls of src/src/admin/admin.service.ts, getTeam of         *)
(* src/src/account/account.service.ts, and whose orders an account is      *)
(* shown, getOpenOrders of src/src/market/market.service.ts.               *)
(*                                                                         *)
(* Each is a query of its own over account_relation and the used           *)
(* purchases: some count rows, some accounts, some sum over joined rows,   *)
(* some go branch by branch.  An operator is one of these queries on the   *)
(* committed state; pages, filters and what is only displayed of an        *)
(* account are left out.                                                   *)
(***************************************************************************)
EXTENDS ReferralTree, Sequences

CONSTANT MarketMaker    \* the accounts with is_market_maker

\* The rows in which a is the superior, and those of its direct subordinates.
TeamRows(a) == {r \in relation : r.superior = a}
DirectRows(a) == {r \in TeamRows(a) : r.level = 1}
Subordinates(rows) == {r.subordinate : r \in rows}

\* SUM(signature.price) over rows joined with the used purchases.
Performance(rows) == SumFunction([r \in rows |-> bought[r.subordinate]])
Buyers(accounts) == {u \in accounts : bought[u] > 0}

getUsers(a) ==
  [teamCount |-> Cardinality(Subordinates(TeamRows(a))),
   teamPerformance |-> Performance(TeamRows(a))]

getUserTeamOverview(a) ==
  [directCount |-> Cardinality(Subordinates(DirectRows(a))),
   teamCount |-> Cardinality(Subordinates(TeamRows(a))),
   directPerformance |-> Performance(DirectRows(a)),
   teamPerformance |-> Performance(TeamRows(a)),
   teamMinerBuyerCount |-> Cardinality(Buyers(Subordinates(TeamRows(a))))]

\* The superiors of an account, the farthest first.
superiorChain(a) ==
  LET rows == SuperiorsOf(a)
      Farther(r) == {q \in rows : q.level > r.level}
  IN [i \in 1..Cardinality(rows) |->
        (CHOOSE r \in rows : Cardinality(Farther(r)) = i - 1).superior]

getUserTeamAddresses(a) == {a} \cup Subordinates(TeamRows(a))

\* The account's own purchases count here.
getUserTeamMinerPurchaseStats(a) ==
  [totalMinerPrice |-> SumFunctionOnSet(bought, {a} \cup Subordinates(TeamRows(a))),
   buyerCount |-> Cardinality(Buyers({a} \cup Subordinates(TeamRows(a))))]

BranchBelow(d) == Subordinates(TeamRows(d))
\* direct_branch: a direct subordinate and all below it.
DirectBranch(d) == {d} \cup Subordinates(TeamRows(d))

getUserTeamBranches(a) ==
  [d \in Subordinates(DirectRows(a)) |->
     [branchTeamCount |-> Cardinality(DirectBranch(d)),
      branchPerformance |-> SumFunctionOnSet(bought, DirectBranch(d))]]

DirectSuperior(u) == {r.superior : r \in {q \in relation : q.subordinate = u /\ q.level = 1}}

\* The members at these levels with the direct superior of each, if it has one.
getUserTeamMembers(a, levels) ==
  UNION {{[account |-> r.subordinate, level |-> r.level, superior |-> s] :
            s \in IF DirectSuperior(r.subordinate) = {} THEN {None}
                  ELSE DirectSuperior(r.subordinate)} :
           r \in {q \in TeamRows(a) : q.level \in levels}}

\* The user's own view: the performance of each branch, their sum, the rows.
getTeam(a) ==
  LET performance == [d \in Subordinates(DirectRows(a)) |->
                        SumFunctionOnSet(bought, DirectBranch(d))]
  IN [directList |-> performance,
      directCount |-> Cardinality(DOMAIN performance),
      teamCount |-> Cardinality(TeamRows(a)),
      totalPerformance |-> SumFunction(performance)]

\* Whose open orders of a side an account is shown.
Makers(a, side) ==
  IF side = "sell"
  THEN IF a \in MarketMaker THEN account ELSE {a} \cup Subordinates(TeamRows(a))
  ELSE {a} \cup Subordinates(TeamRows(a)) \cup {r.superior : r \in SuperiorsOf(a)}
         \cup (MarketMaker \cap account)

-----------------------------------------------------------------------------
\* One account's team is the same by every query: the rows, the accounts, the
\* members page by page and the branches count alike, the performance of the
\* whole is that of the branches and, with the account's own, of the statistics,
\* everybody's chain of superiors leads down to the superior shown beside it,
\* and an account is shown the orders of just those it has in its team.
SameTeam(a) ==
  LET overview == getUserTeamOverview(a)
      branches == getUserTeamBranches(a)
      members == getUserTeamMembers(a, Depth)
  IN /\ getUsers(a).teamCount = overview.teamCount
     /\ getTeam(a).teamCount = overview.teamCount
     /\ Cardinality(getUserTeamAddresses(a)) = 1 + overview.teamCount
     /\ Cardinality(members) = overview.teamCount
     /\ SumFunction([d \in DOMAIN branches |-> branches[d].branchTeamCount]) = overview.teamCount
     /\ getTeam(a).directCount = overview.directCount
     /\ getTeam(a).totalPerformance = overview.teamPerformance
     /\ getUsers(a).teamPerformance = overview.teamPerformance
     /\ SumFunction([d \in DOMAIN branches |-> branches[d].branchPerformance])
          = overview.teamPerformance
     /\ getUserTeamMinerPurchaseStats(a).totalMinerPrice
          = bought[a] + overview.teamPerformance
     /\ \A m \in members :
          LET chain == superiorChain(m.account)
          IN /\ chain[Len(chain)] = m.superior
             /\ chain[Len(chain) + 1 - m.level] = a
     /\ a \notin MarketMaker => Makers(a, "sell") = getUserTeamAddresses(a)
     /\ \A b \in Makers(a, "buy") \ MarketMaker : a \in MarketMaker \/ a \in Makers(b, "buy")

\* The queries agree on every team in every committed state, whatever moves,
\* registrations and deletions went before.
TeamViewsAgree == \A a \in account : SameTeam(a)
=============================================================================
