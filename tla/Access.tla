-------------------------------- MODULE Access --------------------------------
(***************************************************************************)
(* How users and administrators get in: login and register of              *)
(* src/src/auth/auth.service.ts with the nonces of                         *)
(* src/src/nonce/nonce.service.ts, and login and changePassword of         *)
(* src/src/admin-auth/admin-auth.service.ts behind the two guards of       *)
(* src/src/auth.                                                           *)
(*                                                                         *)
(* Redis holds one nonce per address.  A user signs a message with the     *)
(* nonce it was given; a signature is the nonce that was signed, and may   *)
(* be sent any number of times.  A password hash is the password and its   *)
(* salt, so two hashes of one password differ.  Tokens are not revoked.    *)
(***************************************************************************)
EXTENDS Integers, FiniteSets

CONSTANTS
  Address,        \* addresses of the users who log in or register
  RefCode,        \* the codes generateRefCode may draw
  Username,       \* usernames that are tried
  Password,
  Request,        \* requests that may be under way together
  Table,          \* the tables the services fill when they start
  InitRows,       \* their rows at the start
  MaxNonce,       \* bound on the nonces of an address
  MaxHash,        \* bound on the password hashes stored
  MaxCalls,       \* bound on the requests
  NoRow           \* no row of this username

AdminRow == [enabled : BOOLEAN, hash : [password : Password, salt : Nat]]

ASSUME AccessAssumption ==
  /\ MaxNonce \in Nat /\ MaxHash \in Nat
  /\ NoRow \notin AdminRow

VARIABLES
  rows,       \* [Table -> set of rows: primary key, unique column, value, last writer]
  nonce,      \* [Address -> the nonce in Redis, 0 for none]
  generated,  \* [Address -> nonces given out so far]
  admitted,   \* [Address -> [nonce -> requests it let in]]
  adminUser,  \* [Username -> row of admin_user]
  hashes,     \* hashes stored so far
  token,      \* the usernames whose tokens were issued
  call,       \* [Request -> the request that is served]
  calls       \* requests so far

accessVars == <<rows, nonce, generated, admitted, adminUser, hashes, token, call, calls>>
adminVars == <<adminUser, hashes, token>>
nonceVars == <<nonce, generated, admitted>>

Done == [pc |-> "idle"]

AccessInit ==
  /\ rows = InitRows
  /\ nonce = [a \in Address |-> 0]
  /\ generated = nonce
  /\ admitted = [a \in Address |-> [n \in 1..MaxNonce |-> 0]]
  /\ adminUser = [u \in Username |-> NoRow]
  /\ hashes = 0
  /\ token = {}
  /\ call = [r \in Request |-> Done]
  /\ calls = 0

\* Request r is served from here on in several steps.
Serve(r, c) ==
  /\ call[r] = Done
  /\ calls < MaxCalls
  /\ call' = [call EXCEPT ![r] = c]
  /\ calls' = calls + 1

\* An error, a lost connection or a crash: what is not committed is gone.
CallFail(r) ==
  /\ call[r] # Done
  /\ call' = [call EXCEPT ![r] = Done]
  /\ UNCHANGED <<rows, nonceVars, adminVars, calls>>
-----------------------------------------------------------------------------
(***************************************************************************)
(* Users.                                                                  *)
(***************************************************************************)
generateNonce(a) ==
  /\ generated[a] < MaxNonce
  /\ generated' = [generated EXCEPT ![a] = @ + 1]
  /\ nonce' = [nonce EXCEPT ![a] = generated'[a]]
  /\ UNCHANGED <<rows, admitted, adminVars, call, calls>>

NonceExpires(a) ==
  /\ nonce[a] # 0
  /\ nonce' = [nonce EXCEPT ![a] = 0]
  /\ UNCHANGED <<rows, generated, admitted, adminVars, call, calls>>

HasAccount(a) == \E row \in rows["account"] : row.id = a

\* A login finds the account first, a registration consumes the nonce first.
Enter(r, a, n) ==
  /\ n \in 1..generated[a]
  /\ \/ HasAccount(a) /\ Serve(r, [pc |-> "consume", kind |-> "login", address |-> a, signed |-> n])
     \/ Serve(r, [pc |-> "consume", kind |-> "register", address |-> a, signed |-> n])
  /\ UNCHANGED <<rows, nonceVars, adminVars>>

ReadNonce(a) == nonce
\* GETDEL: the nonce is gone whatever becomes of the request.
consumeNonce(a) == [nonce EXCEPT ![a] = 0]

Admit(c) == admitted' = [admitted EXCEPT ![c.address][c.signed] = @ + 1]

\* Consumes the nonce and verifies the signature against it.
ConsumeNonce(r) ==
  LET c == call[r]
      valid == nonce[c.address] = c.signed
  IN /\ c.pc = "consume"
     /\ nonce' = consumeNonce(c.address)
     /\ call' = [call EXCEPT ![r] = IF valid /\ c.kind = "register"
                                    THEN [c EXCEPT !.pc = "create"] ELSE Done]
     /\ IF valid /\ c.kind = "login" THEN Admit(c) ELSE UNCHANGED admitted
     /\ UNCHANGED <<rows, generated, adminVars, calls>>

\* createAccount finds no account of the address, and a recommender.
CreateRead(r) ==
  /\ call[r].pc = "create"
  /\ ~HasAccount(call[r].address)
  /\ rows["account"] # {}
  /\ call' = [call EXCEPT ![r].pc = "insertAccount"]
  /\ UNCHANGED <<rows, nonceVars, adminVars, calls>>

Collides(row, id, name) == row.id = id \/ row.name = name

CreateInsert(r) ==
  /\ call[r].pc = "insertAccount"
  /\ \E code \in RefCode :
       /\ ~\E row \in rows["account"] : Collides(row, call[r].address, code)
       /\ rows' = [rows EXCEPT !["account"] =
            @ \cup {[id |-> call[r].address, name |-> code, value |-> "default", by |-> "request"]}]
  /\ Admit(call[r])
  /\ call' = [call EXCEPT ![r] = Done]
  /\ UNCHANGED <<nonce, generated, adminVars, calls>>
-----------------------------------------------------------------------------
(***************************************************************************)
(* Administrators.                                                         *)
(***************************************************************************)
Matches(row, password) == row # NoRow /\ row.hash.password = password

AdminLoginRead(r, u, password) ==
  /\ Serve(r, [pc |-> "verify", username |-> u, row |-> adminUser[u],
               matches |-> Matches(adminUser[u], password)])
  /\ UNCHANGED <<rows, nonceVars, adminVars>>

\* Wrong credentials lock every account there is.
LockAll ==
  [u \in Username |-> IF adminUser[u] = NoRow THEN NoRow
                      ELSE [adminUser[u] EXCEPT !.enabled = FALSE]]

AdminLoginAnswer(r) ==
  LET c == call[r]
  IN /\ c.pc = "verify"
     /\ adminUser' = IF c.matches THEN adminUser ELSE LockAll
     /\ token' = IF c.matches /\ c.row.enabled THEN token \cup {c.username} ELSE token
     /\ call' = [call EXCEPT ![r] = Done]
     /\ UNCHANGED <<rows, nonceVars, hashes, calls>>

\* AuthGuard and AdminGuard: a token, and an account enabled at this request.
Guarded(u) == u \in token /\ adminUser[u] # NoRow /\ adminUser[u].enabled

\* changePassword reads the account again and verifies both passwords.
ChangeRead(r, u, current, new) ==
  /\ Guarded(u)
  /\ Matches(adminUser[u], current)
  /\ new # current
  /\ Serve(r, [pc |-> "update", username |-> u, current |-> current, new |-> new,
               hash |-> adminUser[u].hash])
  /\ UNCHANGED <<rows, nonceVars, adminVars>>

WhateverHash(c) == TRUE
HashUnchanged(c) == adminUser[c.username].hash = c.hash

\* UPDATE ... WHERE the hash is the one that was read.
ChangeUpdate(r) ==
  LET c == call[r]
  IN /\ c.pc = "update"
     /\ HashUnchanged(c)
     /\ hashes < MaxHash
     /\ hashes' = hashes + 1
     /\ adminUser' = [adminUser EXCEPT ![c.username].hash =
                        [password |-> c.new, salt |-> hashes + 1]]
     /\ call' = [call EXCEPT ![r] = Done]
     /\ UNCHANGED <<rows, nonceVars, token, calls>>

AccessCall(r) ==
  \/ \E a \in Address, n \in 1..MaxNonce : Enter(r, a, n)
  \/ ConsumeNonce(r) \/ CreateRead(r) \/ CreateInsert(r)
  \/ \E u \in Username, p \in Password : AdminLoginRead(r, u, p)
  \/ AdminLoginAnswer(r)
  \/ \E u \in Username, p, q \in Password : ChangeRead(r, u, p, q)
  \/ ChangeUpdate(r)
  \/ CallFail(r)

AccessNext ==
  \/ \E a \in Address : generateNonce(a) \/ NonceExpires(a)
  \/ \E r \in Request : AccessCall(r)
-----------------------------------------------------------------------------
(***************************************************************************)
(* Properties.                                                             *)
(***************************************************************************)
\* A registration let in by nonce n, its account not written yet.
Creating(r, a, n) ==
  /\ call[r].pc \in {"create", "insertAccount"}
  /\ call[r].address = a /\ call[r].signed = n

\* A nonce lets at most one request in, however many requests carry its
\* signature at once, and none once it was replaced, expired or used: a login
\* and a registration that share a nonce cannot both succeed.
OneNonceOneSession ==
  \A a \in Address, n \in 1..MaxNonce :
    /\ admitted[a][n] <= 1
    /\ admitted[a][n] = 1 => nonce[a] # n /\ \A r \in Request : ~Creating(r, a, n)
    /\ \A r \in Request : Creating(r, a, n) =>
         nonce[a] # n /\ \A q \in Request : Creating(q, a, n) => q = r

\* A password is replaced only by a request that proved to know the one it
\* replaces: of two changes made at once one loses, a server that starts does
\* not bring back the password of its environment, and no login, change or
\* start enables an account that is locked.
PasswordReplacedByItsHolder ==
  [][\A u \in Username :
       adminUser[u] # NoRow =>
         /\ adminUser'[u] # NoRow
         /\ adminUser'[u].enabled => adminUser[u].enabled
         /\ adminUser'[u].hash # adminUser[u].hash =>
              \E r \in Request :
                /\ call[r].pc = "update" /\ call'[r] = Done
                /\ call[r].username = u
                /\ call[r].current = adminUser[u].hash.password
                /\ call[r].new = adminUser'[u].hash.password]_accessVars
=============================================================================
