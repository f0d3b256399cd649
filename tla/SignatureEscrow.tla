--------------------------- MODULE SignatureEscrow ---------------------------
(***************************************************************************)
(* What the buyback deposit/withdraw flow promises, without blocks,        *)
(* deadlines, queues, cron rounds or RPC reads.                            *)
(*                                                                         *)
(* A signature is issued once.  While it is pending the chain may redeem   *)
(* it.  It is settled exactly once, according to whether the chain         *)
(* redeemed it, and after the settlement the chain never redeems it.  The  *)
(* internal balance moves only when a withdrawal is issued (the amount is  *)
(* held) and when a signature is settled (a redeemed deposit is credited,  *)
(* an unredeemed withdrawal is given back).                                *)
(***************************************************************************)
EXTENDS Naturals

CONSTANTS
  Sig,          \* signature ids
  Account,      \* account ids
  Token,        \* the two balances of an account
  Amount,       \* amounts a signature may be issued for
  InitBalance,  \* the balances before the first signature
  NoTerms       \* the terms of a signature that was not issued

VARIABLES
  status,       \* [Sig -> {"absent", "pending", "used", "unused"}]
  terms,        \* [Sig -> account, kind, token and amount signed]
  redeemed,     \* the signatures whose nonce the contract has consumed
  balance       \* [Account -> [Token -> Nat]]

vars == <<status, terms, redeemed, balance>>

Terms == [account : Account, kind : {"deposit", "withdraw"}, token : Token,
          amount : Amount]

(***************************************************************************)
(* What a settlement gives to the account, and what issuing takes from it. *)
(***************************************************************************)
Credit(t, used) ==
  IF \/ used /\ t.kind = "deposit"
     \/ ~used /\ t.kind = "withdraw"
  THEN t.amount ELSE 0

Hold(t) == IF t.kind = "withdraw" THEN t.amount ELSE 0

Init ==
  /\ status = [s \in Sig |-> "absent"]
  /\ terms = [s \in Sig |-> NoTerms]
  /\ redeemed = {}
  /\ balance = InitBalance

Issue(s) ==
  /\ status[s] = "absent"
  /\ status' = [status EXCEPT ![s] = "pending"]
  /\ \E t \in Terms :
       /\ terms' = [terms EXCEPT ![s] = t]
       /\ Hold(t) <= balance[t.account][t.token]
       /\ balance' = [balance EXCEPT ![t.account][t.token] = @ - Hold(t)]
  /\ UNCHANGED redeemed

\* One block may redeem several signatures, all of them still pending.
Redeem ==
  /\ \E S \in SUBSET {s \in Sig : status[s] = "pending"} :
       redeemed' = redeemed \cup S
  /\ UNCHANGED <<status, terms, balance>>

Settle(s) ==
  /\ status[s] = "pending"
  /\ status' = [status EXCEPT ![s] = IF s \in redeemed THEN "used" ELSE "unused"]
  /\ LET t == terms[s] IN
       balance' = [balance EXCEPT ![t.account][t.token] =
                     @ + Credit(t, s \in redeemed)]
  /\ UNCHANGED <<terms, redeemed>>

Next == Redeem \/ \E s \in Sig : Issue(s) \/ Settle(s)

Spec == Init /\ [][Next]_vars
=============================================================================
