----------------------------- MODULE AccountSync -----------------------------
(***************************************************************************)
(* Calls that save a whole account entity without locking its row:         *)
(* syncMarketMaker and syncNodeLevel of account.service.ts and             *)
(* updateUserLevels of admin.service.ts, next to the transactions that     *)
(* move a balance of the same account under its row lock.                  *)
(*                                                                         *)
(* Such a call reads the entity, awaits, sets a field and calls save.      *)
(* TypeORM's save selects the row again and updates every column whose     *)
(* value differs from the entity's: those the call set, and those another  *)
(* transaction changed since the entity was read.                          *)
(***************************************************************************)
EXTENDS Integers

CONSTANTS
  Caller,       \* calls that may be under way together
  MaxLevel,     \* highest node level and manual VIP level
  InitBalance,  \* the balance of the account at the start
  Amount,       \* amounts of a movement
  MaxBalance,   \* bound on the balance and on what the log adds up to
  MaxCalls      \* bound on the calls

VARIABLES
  row,      \* the account row: a balance, node level, VIP level, maker flag
  logged,   \* sum of the amounts in the balance log of the account
  exempt,   \* the contract's fee exemption of the address
  level,    \* the contract's node level of the address
  call,     \* [Caller -> the call that is running]
  calls     \* calls so far

vars == <<row, logged, exempt, level, call, calls>>
contract == <<exempt, level>>

Level == 0..MaxLevel
Column == {"balance", "nodeLevel", "manualVipLevel", "isMarketMaker"}

NoCall == [pc |-> "idle"]

Init ==
  /\ row = [balance |-> InitBalance, nodeLevel |-> 0, manualVipLevel |-> 0,
            isMarketMaker |-> FALSE]
  /\ logged = 0
  /\ exempt = FALSE
  /\ level = 0
  /\ call = [p \in Caller |-> NoCall]
  /\ calls = 0

Goes(p, c) == call' = [call EXCEPT ![p] = c]

Begins(p) == call[p].pc = "idle" /\ calls < MaxCalls /\ calls' = calls + 1
-----------------------------------------------------------------------------
(***************************************************************************)
(* syncMarketMaker: the entity, then the contract, then the save.          *)
(***************************************************************************)
syncMarketMaker(p) ==
  /\ Begins(p)
  /\ Goes(p, [pc |-> "rpc", entity |-> row])
  /\ UNCHANGED <<row, logged, contract>>

\* A failed RPC ends the call.
RpcFailure(p) ==
  /\ call[p].pc = "rpc"
  /\ Goes(p, NoCall)
  /\ UNCHANGED <<row, logged, contract, calls>>

isFeeExemptAccount(p) == exempt

SetMarketMaker(p) ==
  /\ call[p].pc = "rpc"
  /\ Goes(p, [pc |-> "save",
              entity |-> [call[p].entity EXCEPT !.isMarketMaker = isFeeExemptAccount(p)]])
  /\ UNCHANGED <<row, logged, contract, calls>>
-----------------------------------------------------------------------------
(***************************************************************************)
(* syncNodeLevel: the contract, then the entity, then the save.            *)
(***************************************************************************)
syncNodeLevel(p) ==
  /\ Begins(p)
  /\ Goes(p, [pc |-> "level", level |-> level])
  /\ UNCHANGED <<row, logged, contract>>

SetNodeLevel(p) ==
  /\ call[p].pc = "level"
  /\ Goes(p, IF row.nodeLevel < call[p].level
             THEN [pc |-> "save", entity |-> [row EXCEPT !.nodeLevel = call[p].level]]
             ELSE NoCall)
  /\ UNCHANGED <<row, logged, contract, calls>>

\* updateUserLevels: the administrator sets one level or both.
updateUserLevels(p) ==
  /\ Begins(p)
  /\ \E vip \in Level \cup {row.manualVipLevel}, node \in Level \cup {row.nodeLevel} :
       Goes(p, [pc |-> "save",
                entity |-> [row EXCEPT !.manualVipLevel = vip, !.nodeLevel = node]])
  /\ UNCHANGED <<row, logged, contract>>
-----------------------------------------------------------------------------
(***************************************************************************)
(* save: the select that finds the columns to update, then the update.     *)
(***************************************************************************)
SaveSelect(p) ==
  /\ call[p].pc = "save"
  /\ LET diff == {c \in Column : call[p].entity[c] # row[c]}
     IN Goes(p, IF diff = {} THEN NoCall
                ELSE [pc |-> "update", entity |-> call[p].entity, diff |-> diff])
  /\ UNCHANGED <<row, logged, contract, calls>>

SaveUpdate(p) ==
  /\ call[p].pc = "update"
  /\ row' = [c \in Column |->
               IF c \in call[p].diff THEN call[p].entity[c] ELSE row[c]]
  /\ Goes(p, NoCall)
  /\ UNCHANGED <<logged, contract, calls>>
-----------------------------------------------------------------------------
Affordable(x) == row.balance + x \in 0..MaxBalance

\* A transaction that moves the balance under the row lock and logs the amount.
MoveBalance(x) ==
  /\ Affordable(x)
  /\ logged + x \in -MaxBalance..MaxBalance
  /\ row' = [row EXCEPT !.balance = @ + x]
  /\ logged' = logged + x
  /\ UNCHANGED <<contract, call, calls>>

\* The contracts grant and revoke the exemption and move the node level.
ContractChanges ==
  /\ exempt' \in BOOLEAN /\ level' \in Level
  /\ UNCHANGED <<row, logged, call, calls>>

Next ==
  \/ \E p \in Caller :
       \/ syncMarketMaker(p) \/ RpcFailure(p) \/ SetMarketMaker(p)
       \/ syncNodeLevel(p) \/ SetNodeLevel(p)
       \/ updateUserLevels(p)
       \/ SaveSelect(p) \/ SaveUpdate(p)
  \/ \E x \in Amount : MoveBalance(x) \/ MoveBalance(-x)
  \/ ContractChanges

Spec == Init /\ [][Next]_vars
-----------------------------------------------------------------------------
\* The balance changes only in the transaction that moves and logs it.
LogExplainsBalance == row.balance = InitBalance + logged
=============================================================================
