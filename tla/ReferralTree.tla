---------------------------- MODULE ReferralTree ----------------------------
(***************************************************************************)
(* The referral tree and the VIP levels computed from it:                  *)
(* src/sql/move_account_subtree.sql, recompute_vip_levels.sql and          *)
(* recompute_vip_levels_after_purchase.sql; createAccount, canInvite and   *)
(* recomputeVipLevelsSnapshot of src/src/account/account.service.ts;       *)
(* deleteUser and the update of the VIP threshold of                       *)
(* src/src/admin/admin.service.ts.                                         *)
(*                                                                         *)
(* account_relation is a closure table: a row for every superior of an     *)
(* account, with the distance.  Registrations, moves and deletions change  *)
(* it from different processes; what keeps it a closure are table locks,   *)
(* foreign keys and row locks.  A transaction that has read the table      *)
(* holds it shared until it ends; a move takes it exclusively.             *)
(*                                                                         *)
(* The levels are recomputed over the whole table: by a move and by an     *)
(* update of the threshold within their transaction, statement by          *)
(* statement on committed data, and by the scheduler on the snapshot of a  *)
(* REPEATABLE READ transaction, which is not allowed to write a row that   *)
(* somebody else has written since.                                        *)
(***************************************************************************)
EXTENDS Integers, FiniteSets, Functions

CONSTANTS
  Account,        \* the accounts there may ever be
  None,           \* no account
  InitParent,     \* the accounts there are at the start, and who invited them
  InitBought,     \* what they paid for miners so far
  Internal,       \* AccountService.INTERNAL_ACCOUNTS
  FreeInviter,    \* accounts that may invite because of a free miner
  MarketsNeeded,  \* direct markets a level asks for: 3
  MaxVip,         \* the highest level: 5
  Threshold,      \* values of VIP_V1_MARKET_THRESHOLD_WEI
  Creator,        \* registrations that may overlap
  Newcomer,       \* accounts that may register
  Buyer,          \* accounts that may pay for a miner
  Deletable,      \* accounts the administrator may delete
  Movable,        \* accounts the administrator may move
  MaxMoves,       \* bound on the moves
  MaxBought       \* bound on what an account pays

ASSUME AccountsFinite == IsFiniteSet(Account)

ASSUME TreeAssumption ==
  /\ None \notin Account
  /\ DOMAIN InitParent \subseteq Account
  /\ InitParent \in [DOMAIN InitParent -> DOMAIN InitParent \cup {None}]
  /\ InitBought \in [DOMAIN InitParent -> 0..MaxBought]
  /\ Movable \subseteq Account
  /\ MarketsNeeded \in Nat \ {0} /\ MaxVip \in Nat \ {0}
  /\ Threshold \subseteq Nat \ {0} /\ Threshold # {}
  /\ MaxMoves \in Nat /\ MaxBought \in Nat

VARIABLES
  account,    \* the rows of account
  relation,   \* the rows of account_relation
  bought,     \* sum of the used purchases of an account
  vip,        \* account.vip_level
  threshold,  \* VIP_V1_MARKET_THRESHOLD_WEI
  held,       \* accounts some other transaction has locked FOR UPDATE
  create,     \* [Creator -> the registration that is running]
  move,       \* the move that is running
  snapshot,   \* the scheduled recomputation that is running
  moves,      \* how many moves there were
  parent,     \* history: who invited an account, or whom it was moved to
  due,        \* history: the level each account is due by the last recomputation
  mixed       \* history: a snapshot older than the tree or the threshold was written

treeVars == <<account, relation, bought, vip, threshold, held, create, move, snapshot,
              moves, parent, due, mixed>>

Depth == 1..Cardinality(Account)
Relation == [superior : Account, subordinate : Account, level : Depth]
Row(s, a, l) == [superior |-> s, subordinate |-> a, level |-> l]

NoCreate == [pc |-> "idle"]
NoMove == [pc |-> "idle"]
NoSnapshot == [pc |-> "idle"]

-----------------------------------------------------------------------------
(***************************************************************************)
(* What parent links mean.                                                 *)
(***************************************************************************)

\* The superior of a at distance k.
SuperiorAt(up, a, k) ==
  LET at[n \in 0..Cardinality(Account)] ==
        IF n = 0 THEN a ELSE IF at[n - 1] = None THEN None ELSE up[at[n - 1]]
  IN at[k]

Closure(up) ==
  {Row(SuperiorAt(up, p[1], p[2]), p[1], p[2]) :
     p \in {q \in Account \X Depth : SuperiorAt(up, q[1], q[2]) # None}}

InitUp == [a \in Account |-> IF a \in DOMAIN InitParent THEN InitParent[a] ELSE None]

\* Whoever invited an account was there before it.
ASSUME ForestAssumption == \A a \in Account, k \in Depth : SuperiorAt(InitUp, a, k) # a

-----------------------------------------------------------------------------
(***************************************************************************)
(* Levels.                                                                 *)
(***************************************************************************)

\* The direct markets of every account: a direct subordinate and all below it.
Markets(rel) ==
  [s \in Account |->
     {{r.subordinate} \cup {q.subordinate : q \in {p \in rel : p.superior = r.subordinate}} :
        r \in {p \in rel : p.superior = s /\ p.level = 1}}]

Enough(markets) == Cardinality(markets) >= MarketsNeeded

\* Those of the markets whose members have paid this much ...
Selling(markets, buys, limit) ==
  {k \in markets : SumFunctionOnSet(buys, k) >= limit}

\* ... and those in which somebody has at least this level.
Holding(markets, level, least) == {k \in markets : \E a \in k : level[a] >= least}

\* recompute_vip_levels: level after level for all accounts, until nobody rises.
VipLevels(rel, buys, limit) ==
  LET market == Markets(rel)
      round[n \in 1..MaxVip] ==
        IF n = 1
        THEN [level |-> [s \in Account |->
                IF Enough(Selling(market[s], buys, limit)) THEN 1 ELSE 0],
              ended |-> FALSE]
        ELSE LET last == round[n - 1]
                 up == {s \in Account : /\ last.level[s] < n
                                        /\ Enough(Holding(market[s], last.level, n - 1))}
             IN IF last.ended \/ up = {} THEN [last EXCEPT !.ended = TRUE]
                ELSE [level |-> [s \in Account |-> IF s \in up THEN n ELSE last.level[s]],
                      ended |-> FALSE]
  IN round[MaxVip].level

\* compute_account_vip_level: the level of one account by the levels below it.
ComputeAccountVipLevel(markets, buys, limit, level) ==
  IF ~Enough(Selling(markets, buys, limit)) THEN 0
  ELSE CHOOSE n \in 1..MaxVip :
         /\ \A k \in 2..n : Enough(Holding(markets, level, k - 1))
         /\ n < MaxVip => ~Enough(Holding(markets, level, n))

\* recompute_vip_levels_after_purchase for every account, from the leaves up: a
\* level is right once those below it are, so there are as many rounds as levels.
LevelsBottomUp(rel, buys, limit) ==
  LET market == Markets(rel)
      from[n \in 0..MaxVip] ==
        LET level == IF n = 0 THEN [a \in Account |-> 0] ELSE from[n - 1]
        IN IF n = 0 THEN level
           ELSE [a \in Account |-> ComputeAccountVipLevel(market[a], buys, limit, level)]
  IN from[MaxVip]

Init ==
  /\ account = DOMAIN InitParent
  /\ parent = InitUp
  /\ relation = Closure(parent)
  /\ bought = [a \in Account |-> IF a \in account THEN InitBought[a] ELSE 0]
  /\ threshold \in Threshold
  /\ vip = [a \in Account |-> VipLevels(relation, bought, threshold)[a]]
  /\ due = vip
  /\ held = {}
  /\ create = [c \in Creator |-> NoCreate]
  /\ move = NoMove
  /\ snapshot = NoSnapshot
  /\ moves = 0
  /\ mixed = FALSE

-----------------------------------------------------------------------------
(***************************************************************************)
(* Locks of the table.                                                     *)
(***************************************************************************)
AnyTime == TRUE

\* Nobody holds account_relation exclusively: it can be read and written.
RelationReadable == move.pc # "locked"

\* Nobody has read it in a transaction that is not over.
RelationUnread ==
  /\ \A c \in Creator : create[c].pc # "read"
  /\ snapshot.pc # "read"

-----------------------------------------------------------------------------
(***************************************************************************)
(* createAccount.                                                          *)
(***************************************************************************)
CanInvite(a) == a \in Internal \/ bought[a] > 0 \/ a \in FreeInviter

SuperiorsOf(a) == {r \in relation : r.subordinate = a}

\* The recommender may invite; its superiors are read.
CreateRead(c, a, recommender) ==
  /\ create[c].pc = "idle"
  /\ a \in Newcomer \ account
  \* ids come from a sequence: none is used twice
  /\ snapshot.pc # "idle" => a \notin snapshot.account
  /\ \A d \in Creator :
       create[d].pc = "read" => a \notin {create[d].account, create[d].recommender}
  /\ recommender \in account /\ CanInvite(recommender)
  /\ RelationReadable
  /\ create' = [create EXCEPT ![c] =
                  [pc |-> "read", account |-> a, recommender |-> recommender,
                   superiors |-> SuperiorsOf(recommender)]]
  /\ UNCHANGED <<account, relation, bought, vip, threshold, held, move, snapshot, moves,
                 parent, due, mixed>>

\* The rows an account gets under its recommender.
OwnRows(a, recommender, superiors) ==
  {Row(recommender, a, 1)} \cup {Row(r.superior, a, r.level + 1) : r \in superiors}

ForeignKeysUnchecked(superiors) == TRUE
\* The insert asks for the superiors and shares their rows.
ForeignKeysHold(superiors) == superiors \subseteq account \ held

CreateInsert(c) ==
  LET job == create[c]
      rows == OwnRows(job.account, job.recommender, job.superiors)
  IN /\ job.pc = "read"
     /\ ForeignKeysHold({r.superior : r \in rows})
     /\ account' = account \cup {job.account}
     /\ relation' = relation \cup rows
     /\ parent' = [parent EXCEPT ![job.account] = job.recommender]
     /\ due' = [due EXCEPT ![job.account] = 0]
     /\ create' = [create EXCEPT ![c] = NoCreate]
     /\ UNCHANGED <<bought, vip, threshold, held, move, snapshot, moves, mixed>>

\* A superior was deleted, or anything else went wrong: nothing is written.
CreateFail(c) ==
  /\ create[c].pc = "read"
  /\ create' = [create EXCEPT ![c] = NoCreate]
  /\ UNCHANGED <<account, relation, bought, vip, threshold, held, move, snapshot, moves,
                 parent, due, mixed>>

-----------------------------------------------------------------------------
(***************************************************************************)
(* deleteUser: an account without subordinates, and everything it owns.    *)
(***************************************************************************)
NoSubordinates(a) == \A r \in relation : r.superior # a

DeleteUser(a) ==
  /\ a \in account \ held
  /\ RelationReadable
  /\ NoSubordinates(a)
  /\ account' = account \ {a}
  /\ relation' = {r \in relation : a \notin {r.superior, r.subordinate}}
  /\ bought' = [bought EXCEPT ![a] = 0]
  /\ vip' = [vip EXCEPT ![a] = 0]
  /\ parent' = [parent EXCEPT ![a] = None]
  /\ due' = [due EXCEPT ![a] = 0]
  /\ UNCHANGED <<threshold, held, create, move, snapshot, moves, mixed>>

\* A purchase that was paid is settled.
Purchase(a) ==
  /\ a \in account /\ bought[a] < MaxBought
  /\ bought' = [bought EXCEPT ![a] = @ + 1]
  /\ UNCHANGED <<account, relation, vip, threshold, held, create, move, snapshot, moves,
                 parent, due, mixed>>

-----------------------------------------------------------------------------
(***************************************************************************)
(* Levels written: they are those due by what was read, unless what was    *)
(* read is older than the tree or the threshold.                           *)
(***************************************************************************)

\* recompute_vip_levels on committed data, in the transaction of the caller; it
\* waits for the rows it changes.
RecomputeNow(rel, up, limit) ==
  LET level == VipLevels(rel, bought, limit) IN
  /\ \A a \in account : level[a] # vip[a] => a \notin held
  /\ vip' = [a \in Account |-> IF a \in account THEN level[a] ELSE 0]
  /\ due' = [a \in Account |->
               IF a \in account THEN LevelsBottomUp(Closure(up), bought, limit)[a] ELSE 0]
  /\ mixed' = FALSE
  /\ snapshot' = IF snapshot.pc = "idle" THEN snapshot
                 ELSE [snapshot EXCEPT !.late = TRUE,
                         !.written = @ \cup {a \in account : level[a] # vip[a]}]

\* updateConfig of VIP_V1_MARKET_THRESHOLD_WEI.
UpdateThreshold(limit) ==
  /\ limit # threshold
  /\ RelationReadable
  /\ threshold' = limit
  /\ RecomputeNow(relation, parent, limit)
  /\ UNCHANGED <<account, relation, bought, held, create, move, moves, parent>>

-----------------------------------------------------------------------------
(***************************************************************************)
(* move_account_subtree.                                                   *)
(***************************************************************************)

\* The advisory locks and the table lock: other readers have ended.
MoveLock(a, superior) ==
  /\ move.pc = "idle"
  /\ moves < MaxMoves
  /\ a # superior
  /\ RelationUnread
  /\ move' = [pc |-> "locked", account |-> a, superior |-> superior]
  /\ moves' = moves + 1
  /\ UNCHANGED <<account, relation, bought, vip, threshold, held, create, snapshot,
                 parent, due, mixed>>

\* The new superior is not below the account.
NotBelow(a, superior) == \A r \in relation : ~(r.superior = a /\ r.subordinate = superior)

\* The account and everybody below it, with the distance.
Subtree(a) == {[account |-> a, level |-> 0]} \cup
  {[account |-> r.subordinate, level |-> r.level] : r \in {q \in relation : q.superior = a}}

OldLinks(a) ==
  {r \in relation : /\ \E s \in Subtree(a) : s.account = r.subordinate
                    /\ \E q \in SuperiorsOf(a) : q.superior = r.superior}

NewAncestors(superior) == {[account |-> superior, level |-> 1]} \cup
  {[account |-> r.superior, level |-> r.level + 1] : r \in SuperiorsOf(superior)}

NewLinks(a, superior) ==
  {Row(p[1].account, p[2].account, p[1].level + p[2].level) :
     p \in NewAncestors(superior) \X Subtree(a)}

MovedAlone(a, superior) ==
  {r \in relation : r.subordinate # a} \cup
  {Row(n.account, a, n.level) : n \in NewAncestors(superior)}
Moved(a, superior) == (relation \ OldLinks(a)) \cup NewLinks(a, superior)

\* Both accounts are locked; the links are replaced and the levels recomputed.
MoveCommit ==
  LET a == move.account
      superior == move.superior
  IN /\ move.pc = "locked"
     /\ {a, superior} \subseteq account \ held
     /\ NotBelow(a, superior)
     /\ Row(superior, a, 1) \notin relation
     /\ relation' = Moved(a, superior)
     /\ parent' = [parent EXCEPT ![a] = superior]
     /\ RecomputeNow(relation', parent', threshold)
     /\ move' = NoMove
     /\ UNCHANGED <<account, bought, threshold, held, create, moves>>

\* The move is refused, has nothing to do or fails.
MoveFail ==
  /\ move.pc = "locked"
  /\ move' = NoMove
  /\ UNCHANGED <<account, relation, bought, vip, threshold, held, create, snapshot, moves,
                 parent, due, mixed>>

-----------------------------------------------------------------------------
(***************************************************************************)
(* recomputeVipLevelsSnapshot.  The advisory lock admits one at a time.    *)
(***************************************************************************)

\* The first statement fixes what all later ones see, and with it the levels
\* and the rows to update: those whose level is another one.
SnapshotBegin ==
  /\ snapshot.pc = "idle"
  /\ LET level == VipLevels(relation, bought, threshold) IN
     snapshot' = [pc |-> "begun", account |-> account, level |-> level,
                  rows |-> {a \in account : level[a] # vip[a]}, bought |-> bought,
                  due |-> LevelsBottomUp(Closure(parent), bought, threshold),
                  written |-> {}, late |-> FALSE]
  /\ UNCHANGED <<account, relation, bought, vip, threshold, held, create, move, moves,
                 parent, due, mixed>>

\* The relations are read as soon as no move holds them.
SnapshotRead ==
  /\ snapshot.pc = "begun"
  /\ RelationReadable
  /\ snapshot' = [snapshot EXCEPT !.pc = "read"]
  /\ UNCHANGED <<account, relation, bought, vip, threshold, held, create, move, moves,
                 parent, due, mixed>>

\* REPEATABLE READ: a row that was written or deleted since is not written.
FirstToWrite(rows) == rows \cap snapshot.written = {} /\ rows \subseteq account

SnapshotWrite ==
  LET dueNow == IF snapshot.late
                THEN LevelsBottomUp(Closure(parent), snapshot.bought, threshold)
                ELSE snapshot.due
  IN /\ snapshot.pc = "read"
     /\ FirstToWrite(snapshot.rows)
     /\ snapshot.rows \cap held = {}
     /\ vip' = [a \in Account |-> IF a \in snapshot.rows THEN snapshot.level[a] ELSE vip[a]]
     /\ due' = [a \in Account |-> IF a \in account THEN dueNow[a] ELSE 0]
     /\ mixed' = snapshot.late
     /\ snapshot' = NoSnapshot
     /\ UNCHANGED <<account, relation, bought, threshold, held, create, move, moves, parent>>

\* It cannot be serialised, or fails otherwise: nothing is written.
SnapshotFail ==
  /\ snapshot.pc # "idle"
  /\ snapshot' = NoSnapshot
  /\ UNCHANGED <<account, relation, bought, vip, threshold, held, create, move, moves,
                 parent, due, mixed>>

-----------------------------------------------------------------------------
Register ==
  \E c \in Creator :
    \/ \E a \in Account, recommender \in Account : CreateRead(c, a, recommender)
    \/ CreateInsert(c) \/ CreateFail(c)

Administer ==
  \/ \E a \in Deletable : DeleteUser(a)
  \/ \E a \in Movable, superior \in Account : MoveLock(a, superior)
  \/ MoveCommit \/ MoveFail
  \/ \E limit \in Threshold : UpdateThreshold(limit)

TreeNext ==
  \/ Register \/ Administer
  \/ \E a \in Buyer : Purchase(a)
  \/ SnapshotBegin \/ SnapshotRead \/ SnapshotWrite \/ SnapshotFail

TreeSpec == Init /\ [][TreeNext]_treeVars

-----------------------------------------------------------------------------
(***************************************************************************)
(* Properties.                                                             *)
(***************************************************************************)

\* The variables have their types; in particular every row of account_relation
\* is about two accounts that exist.
TypeOK ==
  /\ account \subseteq Account /\ held \subseteq Account
  /\ relation \subseteq [superior : account, subordinate : account, level : Depth]
  /\ bought \in [Account -> 0..MaxBought]
  /\ {vip, due} \subseteq [Account -> 0..MaxVip]
  /\ threshold \in Threshold
  /\ \A c \in Creator :
       \/ create[c] = NoCreate
       \/ create[c] \in [pc : {"read"}, account : Account, recommender : Account,
                        superiors : SUBSET Relation]
  /\ \/ move = NoMove
     \/ move \in [pc : {"locked"}, account : Account, superior : Account]
  /\ \/ snapshot = NoSnapshot
     \/ /\ snapshot.pc \in {"begun", "read"}
        /\ snapshot.rows \subseteq snapshot.account
        /\ snapshot.level \in [Account -> 0..MaxVip]
  /\ moves \in 0..MaxMoves
  /\ parent \in [Account -> Account \cup {None}]
  /\ mixed \in BOOLEAN

\* account_relation is the closure of who invited whom and was moved where: no
\* row of an old superior survives a move, none is missing for anybody below
\* the moved account, and nobody registers under a chain that is gone.
ClosureOfParents == relation = Closure(parent)

\* After every recomputation the levels are those that the rule gives from the
\* leaves up over the parent links, although the procedure goes level by level,
\* stops early and writes only the rows that differ; except after a snapshot
\* older than a move or an update of the threshold was written.
LevelsFollowTree == ~mixed => vip = due
=============================================================================
