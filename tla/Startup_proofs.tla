--------------------------- MODULE Startup_proofs ---------------------------
(***************************************************************************)
(* Proofs about logins, administrators and starting servers, for any       *)
(* numbers of addresses, nonces, passwords, requests, servers and default  *)
(* rows.                                                                   *)
(***************************************************************************)
EXTENDS Startup, TLAPS

(***************************************************************************)
(* Nonces.  What is added to OneNonceOneSession to make it inductive: a    *)
(* nonce that was not given out yet let nobody in, and nobody carries a    *)
(* signature over it.                                                      *)
(***************************************************************************)
UserPc == {"consume", "create", "insertAccount"}
UserCall ==
  [pc : UserPc, kind : {"login", "register"}, address : Address, signed : 1..MaxNonce]

NonceTypes ==
  /\ nonce \in [Address -> 0..MaxNonce]
  /\ generated \in [Address -> 0..MaxNonce]
  /\ admitted \in [Address -> [1..MaxNonce -> Nat]]
  /\ call = [r \in Request |-> call[r]]
  /\ \A r \in Request : call[r].pc \in UserPc => call[r] \in UserCall

GivenOut ==
  /\ \A a \in Address : nonce[a] <= generated[a]
  /\ \A a \in Address, n \in 1..MaxNonce : n > generated[a] => admitted[a][n] = 0
  /\ \A r \in Request : call[r].pc \in UserPc =>
       call[r].signed <= generated[call[r].address]

NonceInv == NonceTypes /\ GivenOut /\ OneNonceOneSession

LEMMA NonceInvInit == Init => NonceInv
<1> SUFFICES ASSUME Init PROVE NonceInv
  OBVIOUS
<1> USE AccessAssumption DEF Init, AccessInit, Done
<1>1. NonceTypes
  BY DEF NonceTypes, UserPc
<1>2. GivenOut
  BY DEF GivenOut, UserPc
<1>3. OneNonceOneSession
  BY DEF OneNonceOneSession, Creating
<1>4. QED
  BY <1>1, <1>2, <1>3 DEF NonceInv

\* Steps of requests that carry no nonce.
LEMMA OtherCall ==
  ASSUME NonceInv, NEW r \in Request, NEW c, c.pc \notin UserPc,
         call' = [call EXCEPT ![r] = c], UNCHANGED nonceVars
  PROVE  NonceInv'
<1> USE DEF nonceVars
<1>1. /\ call'[r] = c
      /\ \A q \in Request : q # r => call'[q] = call[q]
  BY DEF NonceInv, NonceTypes
<1>2. NonceTypes'
  BY <1>1 DEF NonceInv, NonceTypes
<1>3. GivenOut'
  BY <1>1 DEF NonceInv, GivenOut
<1>4. \A q \in Request, a \in Address, n \in 1..MaxNonce :
        Creating(q, a, n)' => Creating(q, a, n) /\ q # r
  BY <1>1 DEF Creating, UserPc
<1>5. OneNonceOneSession'
  BY <1>4 DEF NonceInv, OneNonceOneSession
<1>6. QED
  BY <1>2, <1>3, <1>5 DEF NonceInv

LEMMA SameNonces ==
  ASSUME NonceInv, UNCHANGED <<nonceVars, call>>
  PROVE  NonceInv'
BY DEF NonceInv, NonceTypes, GivenOut, OneNonceOneSession, Creating, nonceVars

LEMMA GenerateKeeps ==
  ASSUME NonceInv, NEW a \in Address, generateNonce(a)
  PROVE  NonceInv'
<1> USE AccessAssumption DEF NonceInv, generateNonce
<1>1. /\ generated'[a] = generated[a] + 1 /\ nonce'[a] = generated[a] + 1
      /\ \A b \in Address : b # a => generated'[b] = generated[b] /\ nonce'[b] = nonce[b]
      /\ call' = call /\ admitted' = admitted
  BY DEF NonceTypes
<1>2. NonceTypes'
  BY <1>1 DEF NonceTypes
<1>3. GivenOut'
  BY <1>1 DEF NonceTypes, GivenOut, UserCall
<1>4. admitted[a][nonce'[a]] = 0 /\ \A r \in Request : ~Creating(r, a, nonce'[a])
  <2>1. generated[a] \in Nat /\ nonce'[a] \in 1..MaxNonce /\ nonce'[a] > generated[a]
    BY <1>1 DEF NonceTypes
  <2>2. admitted[a][nonce'[a]] = 0
    BY <2>1 DEF GivenOut
  <2>3. ASSUME NEW r \in Request, Creating(r, a, nonce'[a]) PROVE FALSE
    <3>1. call[r].signed <= generated[a] /\ call[r].signed = nonce'[a]
      BY <2>3 DEF Creating, GivenOut, UserPc
    <3>2. QED
      BY <2>1, <3>1
  <2>4. QED
    BY <2>2, <2>3
<1>5. OneNonceOneSession'
  BY <1>1, <1>4 DEF OneNonceOneSession, Creating
<1>6. QED
  BY <1>2, <1>3, <1>5

LEMMA ExpiryKeeps ==
  ASSUME NonceInv, NEW a \in Address, NonceExpires(a)
  PROVE  NonceInv'
<1> USE AccessAssumption DEF NonceInv, NonceExpires
<1>1. /\ nonce'[a] = 0
      /\ \A b \in Address : b # a => nonce'[b] = nonce[b]
      /\ call' = call /\ admitted' = admitted /\ generated' = generated
  BY DEF NonceTypes
<1>2. NonceTypes'
  BY <1>1 DEF NonceTypes
<1>3. GivenOut'
  BY <1>1 DEF NonceTypes, GivenOut
<1>4. OneNonceOneSession'
  BY <1>1 DEF OneNonceOneSession, Creating
<1>5. QED
  BY <1>2, <1>3, <1>4

LEMMA EnterKeeps ==
  ASSUME NonceInv, NEW r \in Request, NEW a \in Address, NEW n \in 1..MaxNonce,
         Enter(r, a, n)
  PROVE  NonceInv'
<1> USE AccessAssumption DEF NonceInv, nonceVars
<1>1. PICK kind \in {"login", "register"} :
        call' = [call EXCEPT ![r] = [pc |-> "consume", kind |-> kind, address |-> a,
                                     signed |-> n]]
  BY DEF Enter, Serve
<1>2. /\ n <= generated[a] /\ UNCHANGED nonceVars
      /\ call'[r] = [pc |-> "consume", kind |-> kind, address |-> a, signed |-> n]
      /\ \A q \in Request : q # r => call'[q] = call[q]
  BY <1>1 DEF Enter, NonceTypes
<1>3. NonceTypes'
  BY <1>1, <1>2 DEF NonceTypes, UserCall, UserPc
<1>4. GivenOut'
  BY <1>2 DEF GivenOut
<1>5. \A q \in Request, b \in Address, m \in 1..MaxNonce :
        Creating(q, b, m)' => Creating(q, b, m) /\ q # r
  BY <1>2 DEF Creating
<1>6. OneNonceOneSession'
  BY <1>2, <1>5 DEF OneNonceOneSession
<1>7. QED
  BY <1>3, <1>4, <1>6

LEMMA AdmitCounts ==
  ASSUME admitted \in [Address -> [1..MaxNonce -> Nat]],
         NEW c, c.address \in Address, c.signed \in 1..MaxNonce, Admit(c)
  PROVE  /\ admitted'[c.address][c.signed] = admitted[c.address][c.signed] + 1
         /\ \A b \in Address, m \in 1..MaxNonce :
              b # c.address \/ m # c.signed => admitted'[b][m] = admitted[b][m]
         /\ admitted' \in [Address -> [1..MaxNonce -> Nat]]
<1> DEFINE a == c.address
           n == c.signed
           more == [admitted[a] EXCEPT ![n] = @ + 1]
<1>1. more \in [1..MaxNonce -> Nat] /\ admitted' = [admitted EXCEPT ![a] = more]
  <2>1. admitted[a] \in [1..MaxNonce -> Nat]
    OBVIOUS
  <2>2. more \in [1..MaxNonce -> Nat]
    <3> DEFINE row == admitted[a]
               one == row[n] + 1
    <3>1. row \in [1..MaxNonce -> Nat] /\ n \in 1..MaxNonce
      BY <2>1
    <3>2. more = [row EXCEPT ![n] = one]
      OBVIOUS
    <3> HIDE DEF row, n, more
    <3>3. QED
      BY <3>1, <3>2
  <2>3. admitted' = [admitted EXCEPT ![a] = more]
    BY DEF Admit
  <2>4. QED
    BY <2>2, <2>3
<1>2. more[n] = admitted[a][n] + 1 /\ \A m \in 1..MaxNonce : m # n => more[m] = admitted[a][m]
  OBVIOUS
<1> HIDE DEF more
<1>3. admitted'[a] = more /\ \A b \in Address : b # a => admitted'[b] = admitted[b]
  BY <1>1
<1>4. admitted' \in [Address -> [1..MaxNonce -> Nat]]
  BY <1>1
<1>5. QED
  BY <1>2, <1>3, <1>4

\* The signed nonce is the one in Redis, so it let nobody in so far; and it
\* leaves Redis in the same step.
LEMMA ConsumeKeeps ==
  ASSUME NonceInv, NEW r \in Request, ConsumeNonce(r)
  PROVE  NonceInv'
<1> USE AccessAssumption DEF NonceInv
<1> DEFINE c == call[r]
           a == c.address
           valid == nonce[a] = c.signed
<1>1. /\ c.pc = "consume" /\ c \in UserCall
      /\ a \in Address /\ c.signed \in 1..MaxNonce /\ c.signed <= generated[a]
  BY DEF ConsumeNonce, NonceTypes, GivenOut, UserCall, UserPc
<1>2. /\ nonce'[a] = 0
      /\ \A b \in Address : b # a => nonce'[b] = nonce[b]
      /\ nonce' \in [Address -> 0..MaxNonce]
      /\ generated' = generated
  BY <1>1 DEF ConsumeNonce, consumeNonce, NonceTypes
<1>3. /\ call'[r] = IF valid /\ c.kind = "register" THEN [c EXCEPT !.pc = "create"] ELSE Done
      /\ \A q \in Request : q # r => call'[q] = call[q]
      /\ call' = [q \in Request |-> call'[q]]
  BY DEF ConsumeNonce, NonceTypes
<1>4. call'[r].pc \in UserPc =>
        /\ valid /\ c.kind = "register" /\ call'[r] \in UserCall
        /\ call'[r].address = a /\ call'[r].signed = c.signed
  BY <1>1, <1>3 DEF Done, UserCall, UserPc
<1>5. IF valid /\ c.kind = "login"
      THEN /\ admitted'[a][c.signed] = admitted[a][c.signed] + 1
           /\ \A b \in Address, m \in 1..MaxNonce :
                b # a \/ m # c.signed => admitted'[b][m] = admitted[b][m]
           /\ admitted' \in [Address -> [1..MaxNonce -> Nat]]
      ELSE admitted' = admitted
  <2>1. CASE valid /\ c.kind = "login"
    <3>1. Admit(c)
      BY <2>1 DEF ConsumeNonce
    <3>2. QED
      BY <1>1, <2>1, <3>1, AdmitCounts DEF NonceTypes
  <2>2. CASE ~(valid /\ c.kind = "login")
    BY <2>2 DEF ConsumeNonce
  <2>3. QED
    BY <2>1, <2>2
<1>6. NonceTypes'
  BY <1>2, <1>3, <1>4, <1>5 DEF NonceTypes
<1>7. GivenOut'
  <2>1. \A b \in Address : nonce'[b] <= generated'[b]
    <3>1. generated[a] \in Nat
      BY <1>1 DEF NonceTypes
    <3>2. QED
      BY <1>2, <3>1 DEF GivenOut
  <2>2. ASSUME NEW b \in Address, NEW m \in 1..MaxNonce, m > generated'[b]
        PROVE  admitted'[b][m] = 0
    <3>1. m > generated[b] /\ admitted[b][m] = 0
      BY <1>2, <2>2 DEF GivenOut
    <3>2. ~(b = a /\ m = c.signed)
      BY <1>1, <3>1 DEF NonceTypes
    <3>3. QED
      BY <1>5, <3>1, <3>2
  <2>3. \A q \in Request : call'[q].pc \in UserPc =>
          call'[q].signed <= generated'[call'[q].address]
    BY <1>1, <1>2, <1>3, <1>4 DEF GivenOut
  <2>4. QED
    BY <2>1, <2>2, <2>3 DEF GivenOut
<1>8. valid => admitted[a][c.signed] = 0 /\ \A q \in Request : ~Creating(q, a, c.signed)
  <2>1. admitted[a][c.signed] \in Nat /\ admitted[a][c.signed] <= 1
    BY <1>1 DEF NonceTypes, OneNonceOneSession
  <2>2. valid => admitted[a][c.signed] # 1
    BY <1>1 DEF OneNonceOneSession
  <2>3. valid => \A q \in Request : ~Creating(q, a, c.signed)
    BY <1>1 DEF OneNonceOneSession
  <2>4. QED
    BY <2>1, <2>2, <2>3
<1>9. \A q \in Request, b \in Address, m \in 1..MaxNonce :
        Creating(q, b, m)' =>
          \/ q # r /\ Creating(q, b, m)
          \/ q = r /\ valid /\ c.kind = "register" /\ b = a /\ m = c.signed
  BY <1>3, <1>4 DEF Creating, UserPc
<1>10. OneNonceOneSession'
  <2> SUFFICES ASSUME NEW b \in Address, NEW m \in 1..MaxNonce
               PROVE  /\ admitted'[b][m] <= 1
                      /\ admitted'[b][m] = 1 =>
                           nonce'[b] # m /\ \A q \in Request : ~Creating(q, b, m)'
                      /\ \A q \in Request : Creating(q, b, m)' =>
                           nonce'[b] # m /\ \A p \in Request : Creating(p, b, m)' => p = q
    BY DEF OneNonceOneSession, Creating
  <2>1. CASE valid /\ b = a /\ m = c.signed
    <3>1. admitted'[b][m] = IF c.kind = "login" THEN 1 ELSE 0
      BY <1>5, <1>8, <2>1
    <3>2. nonce'[b] # m
      BY <1>1, <1>2, <2>1
    <3>3. \A q \in Request : Creating(q, b, m)' => q = r /\ c.kind = "register"
      BY <1>8, <1>9, <2>1
    <3>4. QED
      BY <3>1, <3>2, <3>3
  <2>2. CASE ~(valid /\ b = a /\ m = c.signed)
    <3>1. admitted'[b][m] = admitted[b][m]
      BY <1>5, <2>2
    <3>2. nonce'[b] = m => nonce[b] = m
      BY <1>1, <1>2
    <3>3. \A q \in Request : Creating(q, b, m)' => Creating(q, b, m)
      BY <1>9, <2>2
    <3>4. QED
      BY <3>1, <3>2, <3>3 DEF OneNonceOneSession
  <2>3. QED
    BY <2>1, <2>2
<1>11. QED
  BY <1>6, <1>7, <1>10

LEMMA CreateReadKeeps ==
  ASSUME NonceInv, NEW r \in Request, CreateRead(r)
  PROVE  NonceInv'
<1> USE AccessAssumption DEF NonceInv, nonceVars
<1>1. /\ call[r] \in UserCall /\ UNCHANGED nonceVars
      /\ call'[r] = [call[r] EXCEPT !.pc = "insertAccount"]
      /\ \A q \in Request : q # r => call'[q] = call[q]
      /\ call' = [q \in Request |-> call'[q]]
  BY DEF CreateRead, NonceTypes, UserPc
<1>2. /\ call'[r] \in UserCall /\ call'[r].pc = "insertAccount"
      /\ call'[r].address = call[r].address /\ call'[r].signed = call[r].signed
  BY <1>1 DEF UserCall, UserPc
<1>3. NonceTypes'
  BY <1>1, <1>2 DEF NonceTypes
<1>4. GivenOut'
  BY <1>1, <1>2 DEF GivenOut, CreateRead, UserPc
<1>5. \A q \in Request, a \in Address, n \in 1..MaxNonce :
        Creating(q, a, n)' <=> Creating(q, a, n)
  BY <1>1, <1>2 DEF Creating, CreateRead
<1>6. OneNonceOneSession'
  BY <1>1, <1>5 DEF OneNonceOneSession
<1>7. QED
  BY <1>3, <1>4, <1>6

LEMMA CreateInsertKeeps ==
  ASSUME NonceInv, NEW r \in Request, CreateInsert(r)
  PROVE  NonceInv'
<1> USE AccessAssumption DEF NonceInv
<1> DEFINE a == call[r].address
           n == call[r].signed
<1>1. /\ call[r] \in UserCall /\ a \in Address /\ n \in 1..MaxNonce
      /\ n <= generated[a] /\ Creating(r, a, n)
  BY DEF CreateInsert, NonceTypes, GivenOut, UserPc, UserCall, Creating
<1>2. /\ call'[r] = Done /\ call' = [q \in Request |-> call'[q]]
      /\ \A q \in Request : q # r => call'[q] = call[q]
      /\ nonce' = nonce /\ generated' = generated
  BY DEF CreateInsert, NonceTypes
<1>3. /\ admitted'[a][n] = admitted[a][n] + 1
      /\ \A b \in Address, m \in 1..MaxNonce :
           b # a \/ m # n => admitted'[b][m] = admitted[b][m]
      /\ admitted' \in [Address -> [1..MaxNonce -> Nat]]
  <2>1. Admit(call[r])
    BY DEF CreateInsert
  <2>2. QED
    BY <1>1, <2>1, AdmitCounts DEF NonceTypes
<1>4. NonceTypes'
  <2>1. /\ nonce' \in [Address -> 0..MaxNonce] /\ generated' \in [Address -> 0..MaxNonce]
        /\ admitted' \in [Address -> [1..MaxNonce -> Nat]]
    BY <1>2, <1>3 DEF NonceTypes
  <2>2. \A q \in Request : call'[q].pc \in UserPc => call'[q] \in UserCall
    <3>1. call'[r].pc \notin UserPc
      BY <1>2 DEF Done, UserPc
    <3>2. \A q \in Request : call[q].pc \in UserPc => call[q] \in UserCall
      BY DEF NonceTypes
    <3>3. QED
      BY <1>2, <3>1, <3>2
  <2>3. QED
    BY <1>2, <2>1, <2>2 DEF NonceTypes
<1>5. GivenOut'
  <2>1. \A b \in Address : nonce'[b] <= generated'[b]
    BY <1>2 DEF GivenOut
  <2>2. ASSUME NEW b \in Address, NEW m \in 1..MaxNonce, m > generated'[b]
        PROVE  admitted'[b][m] = 0
    <3>1. m > generated[b] /\ admitted[b][m] = 0
      BY <1>2, <2>2 DEF GivenOut
    <3>2. ~(b = a /\ m = n)
      BY <1>1, <3>1 DEF NonceTypes
    <3>3. QED
      BY <1>3, <3>1, <3>2
  <2>3. \A q \in Request : call'[q].pc \in UserPc =>
          call'[q].signed <= generated'[call'[q].address]
    BY <1>2 DEF GivenOut, Done, UserPc
  <2>4. QED
    BY <2>1, <2>2, <2>3 DEF GivenOut
<1>6. \A q \in Request, b \in Address, m \in 1..MaxNonce :
        Creating(q, b, m)' => q # r /\ Creating(q, b, m)
  BY <1>2 DEF Creating, Done
<1>7. /\ admitted[a][n] = 0 /\ nonce[a] # n
      /\ \A q \in Request : Creating(q, a, n) => q = r
  <2>1. admitted[a][n] \in Nat /\ admitted[a][n] <= 1
    BY <1>1 DEF NonceTypes, OneNonceOneSession
  <2>2. admitted[a][n] # 1
    BY <1>1 DEF OneNonceOneSession
  <2>3. nonce[a] # n /\ \A q \in Request : Creating(q, a, n) => q = r
    BY <1>1 DEF OneNonceOneSession
  <2>4. QED
    BY <2>1, <2>2, <2>3
<1>8. OneNonceOneSession'
  <2> SUFFICES ASSUME NEW b \in Address, NEW m \in 1..MaxNonce
               PROVE  /\ admitted'[b][m] <= 1
                      /\ admitted'[b][m] = 1 =>
                           nonce'[b] # m /\ \A q \in Request : ~Creating(q, b, m)'
                      /\ \A q \in Request : Creating(q, b, m)' =>
                           nonce'[b] # m /\ \A p \in Request : Creating(p, b, m)' => p = q
    BY DEF OneNonceOneSession, Creating
  <2>1. CASE b = a /\ m = n
    BY <1>2, <1>3, <1>6, <1>7, <2>1
  <2>2. CASE ~(b = a /\ m = n)
    BY <1>2, <1>3, <1>6, <2>2 DEF OneNonceOneSession
  <2>3. QED
    BY <2>1, <2>2
<1>9. QED
  BY <1>4, <1>5, <1>8

LEMMA NonceInvNext == NonceInv /\ [Next]_vars => NonceInv'
<1> SUFFICES ASSUME NonceInv, [Next]_vars PROVE NonceInv'
  OBVIOUS
<1>1. CASE UNCHANGED vars
  BY <1>1, SameNonces DEF vars, accessVars, nonceVars
<1>2. ASSUME NEW a \in Address, generateNonce(a) \/ NonceExpires(a) PROVE NonceInv'
  BY <1>2, GenerateKeeps, ExpiryKeeps
<1>3. ASSUME NEW r \in Request, AccessCall(r) PROVE NonceInv'
  <2>1. ASSUME NEW a \in Address, NEW n \in 1..MaxNonce, Enter(r, a, n) PROVE NonceInv'
    BY <2>1, EnterKeeps
  <2>2. CASE ConsumeNonce(r) \/ CreateRead(r) \/ CreateInsert(r)
    BY <2>2, ConsumeKeeps, CreateReadKeeps, CreateInsertKeeps
  <2>3. ASSUME NEW u \in Username, NEW p \in Password, AdminLoginRead(r, u, p)
        PROVE  NonceInv'
    <3> DEFINE c == [pc |-> "verify", username |-> u, row |-> adminUser[u],
                     matches |-> Matches(adminUser[u], p)]
    <3>1. call' = [call EXCEPT ![r] = c] /\ UNCHANGED nonceVars /\ c.pc \notin UserPc
      BY <2>3 DEF AdminLoginRead, Serve, UserPc
    <3>2. QED
      BY <3>1, OtherCall
  <2>4. ASSUME NEW u \in Username, NEW p \in Password, NEW q \in Password,
               ChangeRead(r, u, p, q)
        PROVE  NonceInv'
    <3> DEFINE c == [pc |-> "update", username |-> u, current |-> p, new |-> q,
                     hash |-> adminUser[u].hash]
    <3>1. call' = [call EXCEPT ![r] = c] /\ UNCHANGED nonceVars /\ c.pc \notin UserPc
      BY <2>4 DEF ChangeRead, Serve, UserPc
    <3>2. QED
      BY <3>1, OtherCall
  <2>5. CASE AdminLoginAnswer(r) \/ ChangeUpdate(r) \/ CallFail(r)
    <3>1. call' = [call EXCEPT ![r] = Done] /\ UNCHANGED nonceVars /\ Done.pc \notin UserPc
      BY <2>5 DEF AdminLoginAnswer, ChangeUpdate, CallFail, Done, UserPc, nonceVars
    <3>2. QED
      BY <3>1, OtherCall
  <2>6. QED
    BY <1>3, <2>1, <2>2, <2>3, <2>4, <2>5 DEF AccessCall
<1>4. ASSUME NEW s \in Server, Starting(s) PROVE NonceInv'
  BY <1>4, SameNonces
     DEF Starting, Start, FindExisting, InsertMissing, UpsertPool, Stop, FindAdmin,
         InsertAdmin, nonceVars, accessVars
<1>5. ASSUME NEW t, EditRow(t) PROVE NonceInv'
  BY <1>5, SameNonces DEF EditRow
<1>6. ASSUME NEW r \in Request, NEW id \in MinerId, NEW name \in MinerName,
             CreateMinerRead(r, id, name) \/ UpdateMinerRead(r, id, name)
      PROVE  NonceInv'
  <2> DEFINE c == [pc |-> "saveMiner",
                   entity |-> [id |-> id, name |-> name, value |-> "edited", by |-> "request"]]
  <2>1. call' = [call EXCEPT ![r] = c] /\ UNCHANGED nonceVars /\ c.pc \notin UserPc
    BY <1>6 DEF CreateMinerRead, UpdateMinerRead, Serve, UserPc
  <2>2. QED
    BY <2>1, OtherCall
<1>7. ASSUME NEW r \in Request, SaveMiner(r) PROVE NonceInv'
  <2>1. call' = [call EXCEPT ![r] = Done] /\ UNCHANGED nonceVars /\ Done.pc \notin UserPc
    BY <1>7 DEF SaveMiner, Done, UserPc
  <2>2. QED
    BY <2>1, OtherCall
<1>8. QED
  BY <1>1, <1>2, <1>3, <1>4, <1>5, <1>6, <1>7 DEF Next, AccessNext, AdminWork

\* However many requests, logins and registrations, carry a signature over one
\* nonce, however they interleave, fail and are repeated, at most one is let in.
THEOREM OneSession == Spec => []OneNonceOneSession
<1>1. NonceInv => OneNonceOneSession
  BY DEF NonceInv
<1>2. QED
  BY NonceInvInit, NonceInvNext, <1>1, PTL DEF Spec
(***************************************************************************)
(* Administrators.  A change that was read carries the hash of the password *)
(* it proved to know; the rows are there, and stay.                         *)
(***************************************************************************)
Hash == [password : Password, salt : Nat]

UpdateCall ==
  [pc : {"update"}, username : Username, current : Password, new : Password, hash : Hash]

AdminInv ==
  /\ adminUser \in [Username -> AdminRow \cup {NoRow}]
  /\ hashes \in Nat
  /\ call = [r \in Request |-> call[r]]
  /\ \A r \in Request : call[r].pc = "update" =>
       /\ call[r] \in UpdateCall
       /\ call[r].hash.password = call[r].current
       /\ adminUser[call[r].username] # NoRow

\* What PasswordReplacedByItsHolder says of a step.
Replaces(r, u) ==
  /\ call[r].pc = "update" /\ call'[r] = Done
  /\ call[r].username = u
  /\ call[r].current = adminUser[u].hash.password
  /\ call[r].new = adminUser'[u].hash.password

ByHolder ==
  \A u \in Username :
    adminUser[u] # NoRow =>
      /\ adminUser'[u] # NoRow
      /\ adminUser'[u].enabled => adminUser[u].enabled
      /\ adminUser'[u].hash # adminUser[u].hash => \E r \in Request : Replaces(r, u)

LEMMA AdminInvInit == Init => AdminInv
BY DEF Init, AccessInit, AdminInv, Done

\* A step that stores no hash: the rows stay, and a change that is started
\* carries the hash it read.
LEMMA AdminFrame ==
  ASSUME AdminInv, call' = [r \in Request |-> call'[r]], UNCHANGED hashes,
         \/ UNCHANGED adminUser
         \/ adminUser' = LockAll,
         \A r \in Request : call'[r].pc = "update" =>
           \/ call'[r] = call[r]
           \/ /\ call'[r] \in UpdateCall
              /\ call'[r].hash.password = call'[r].current
              /\ adminUser[call'[r].username] # NoRow
  PROVE  AdminInv' /\ ByHolder
<1>1. /\ adminUser' \in [Username -> AdminRow \cup {NoRow}]
      /\ \A u \in Username :
           /\ adminUser[u] # NoRow <=> adminUser'[u] # NoRow
           /\ adminUser[u] # NoRow =>
                /\ adminUser'[u].hash = adminUser[u].hash
                /\ adminUser'[u].enabled => adminUser[u].enabled
  <2>1. CASE UNCHANGED adminUser
    BY <2>1 DEF AdminInv
  <2>2. CASE adminUser' = LockAll
    <3>1. ASSUME NEW u \in Username, adminUser[u] # NoRow
          PROVE  /\ LockAll[u] = [adminUser[u] EXCEPT !.enabled = FALSE]
                 /\ LockAll[u] \in AdminRow
                 /\ LockAll[u].hash = adminUser[u].hash
                 /\ LockAll[u].enabled = FALSE
      <4>1. adminUser[u] \in AdminRow
        BY <3>1 DEF AdminInv
      <4>2. LockAll[u] = [adminUser[u] EXCEPT !.enabled = FALSE]
        BY <3>1 DEF LockAll
      <4>3. QED
        BY <4>1, <4>2 DEF AdminRow
    <3>2. \A u \in Username : adminUser[u] = NoRow => LockAll[u] = NoRow
      BY DEF LockAll
    <3>3. LockAll = [u \in Username |-> LockAll[u]]
      BY DEF LockAll
    <3>4. LockAll \in [Username -> AdminRow \cup {NoRow}]
      BY <3>1, <3>2, <3>3
    <3>5. QED
      BY <2>2, <3>1, <3>2, <3>4, AccessAssumption
  <2>3. QED
    BY <2>1, <2>2
<1>2. AdminInv'
  BY <1>1 DEF AdminInv, UpdateCall, Hash
<1>3. ByHolder
  BY <1>1 DEF ByHolder
<1>4. QED
  BY <1>2, <1>3

\* The same for a request that goes on to c.
LEMMA AdminCall ==
  ASSUME AdminInv, NEW r \in Request, NEW c, c.pc # "update",
         call' = [call EXCEPT ![r] = c], UNCHANGED hashes,
         UNCHANGED adminUser \/ adminUser' = LockAll
  PROVE  AdminInv' /\ ByHolder
<1>1. /\ call' = [q \in Request |-> call'[q]]
      /\ \A q \in Request : call'[q].pc = "update" => call'[q] = call[q]
  BY DEF AdminInv
<1>2. QED
  BY <1>1, AdminFrame

LEMMA AdminStays ==
  ASSUME AdminInv, UNCHANGED <<call, hashes, adminUser>>
  PROVE  AdminInv' /\ ByHolder
BY AdminFrame DEF AdminInv

LEMMA ChangeReadKeeps ==
  ASSUME AdminInv, NEW r \in Request, NEW u \in Username, NEW p \in Password,
         NEW q \in Password, ChangeRead(r, u, p, q)
  PROVE  AdminInv' /\ ByHolder
<1> DEFINE c == [pc |-> "update", username |-> u, current |-> p, new |-> q,
                 hash |-> adminUser[u].hash]
<1>1. adminUser[u] \in AdminRow /\ adminUser[u] # NoRow /\ adminUser[u].hash.password = p
  BY DEF ChangeRead, Matches, AdminInv
<1>2. adminUser[u].hash \in Hash
  BY <1>1 DEF AdminRow, Hash
<1>3. /\ c \in UpdateCall /\ c.hash.password = c.current
      /\ adminUser[c.username] # NoRow
  BY <1>1, <1>2 DEF UpdateCall
<1>4. call' = [call EXCEPT ![r] = c] /\ UNCHANGED <<hashes, adminUser>>
  BY DEF ChangeRead, Serve, adminVars
<1> HIDE DEF c
<1>5. /\ call' = [x \in Request |-> call'[x]] /\ call'[r] = c
      /\ \A x \in Request : x # r => call'[x] = call[x]
  BY <1>4 DEF AdminInv
<1>6. QED
  BY <1>3, <1>4, <1>5, AdminFrame

LEMMA ChangeUpdateKeeps ==
  ASSUME AdminInv, NEW r \in Request, ChangeUpdate(r)
  PROVE  AdminInv' /\ ByHolder
<1> DEFINE c == call[r]
           u == c.username
           hash == [password |-> c.new, salt |-> hashes + 1]
           row == [adminUser[u] EXCEPT !.hash = hash]
<1>1. /\ c.pc = "update" /\ c \in UpdateCall /\ c.hash.password = c.current
      /\ u \in Username /\ adminUser[u] # NoRow /\ adminUser[u] \in AdminRow
      /\ adminUser[u].hash = c.hash
  BY DEF AdminInv, ChangeUpdate, HashUnchanged, UpdateCall
<1>2. /\ adminUser' = [adminUser EXCEPT ![u] = row] /\ hashes' = hashes + 1
      /\ call' = [call EXCEPT ![r] = Done]
  BY DEF ChangeUpdate
<1>3. row \in AdminRow /\ row.hash = hash /\ row.enabled = adminUser[u].enabled
  <2>1. hash \in Hash
    BY <1>1 DEF AdminInv, UpdateCall, Hash
  <2>2. QED
    BY <1>1, <2>1 DEF AdminRow, Hash
<1>4. hash.password = c.new
  OBVIOUS
<1> HIDE DEF row, hash
<1>5. /\ adminUser'[u] = row /\ \A v \in Username : v # u => adminUser'[v] = adminUser[v]
      /\ adminUser' \in [Username -> AdminRow \cup {NoRow}]
  BY <1>1, <1>2, <1>3 DEF AdminInv
<1>6. /\ call'[r] = Done /\ Done.pc # "update" /\ call' = [q \in Request |-> call'[q]]
      /\ \A q \in Request : q # r => call'[q] = call[q]
  BY <1>2 DEF AdminInv, Done
<1>7. AdminInv'
  <2>1. row # NoRow
    BY <1>3, AccessAssumption
  <2>2. \A q \in Request : call'[q].pc = "update" =>
          /\ call'[q] \in UpdateCall /\ call'[q].hash.password = call'[q].current
          /\ adminUser'[call'[q].username] # NoRow
    BY <1>5, <1>6, <2>1 DEF AdminInv, UpdateCall
  <2>3. hashes' \in Nat
    BY <1>2 DEF AdminInv
  <2>4. QED
    BY <1>5, <1>6, <2>2, <2>3 DEF AdminInv, UpdateCall, Hash
<1>8. ByHolder
  <2>1. Replaces(r, u)
    BY <1>1, <1>3, <1>4, <1>5, <1>6 DEF Replaces
  <2>2. row # NoRow
    BY <1>3, AccessAssumption
  <2>3. QED
    BY <1>3, <1>5, <2>1, <2>2 DEF ByHolder
<1>9. QED
  BY <1>7, <1>8

\* A server creates its administrator only where there is none.
LEMMA InsertAdminKeeps ==
  ASSUME AdminInv, NEW s \in Server, InsertAdmin(s)
  PROVE  AdminInv' /\ ByHolder
<1>1. CASE adminUser[InitUsername] # NoRow
  BY <1>1, AdminStays DEF InsertAdmin
<1>2. CASE adminUser[InitUsername] = NoRow
  <2> DEFINE row == [enabled |-> TRUE,
                     hash |-> [password |-> InitPassword, salt |-> hashes + 1]]
  <2>1. /\ adminUser' = [adminUser EXCEPT ![InitUsername] = row]
        /\ hashes' = hashes + 1 /\ call' = call
    BY <1>2 DEF InsertAdmin
  <2>2. row \in AdminRow /\ hashes' \in Nat
    BY <2>1, StartupAssumption DEF AdminInv, AdminRow
  <2> HIDE DEF row
  <2>3. /\ \A v \in Username : v # InitUsername => adminUser'[v] = adminUser[v]
        /\ adminUser'[InitUsername] # NoRow
        /\ adminUser' \in [Username -> AdminRow \cup {NoRow}]
    BY <2>1, <2>2, AccessAssumption, StartupAssumption DEF AdminInv
  <2>4. \A r \in Request : call'[r].pc = "update" =>
          /\ call'[r] \in UpdateCall /\ call'[r].hash.password = call'[r].current
          /\ adminUser'[call'[r].username] # NoRow
    BY <2>1, <2>3 DEF AdminInv, UpdateCall
  <2>5. AdminInv'
    BY <2>1, <2>2, <2>3, <2>4 DEF AdminInv, UpdateCall, Hash
  <2>6. ByHolder
    BY <1>2, <2>3 DEF ByHolder
  <2>7. QED
    BY <2>5, <2>6
<1>3. QED
  BY <1>1, <1>2

LEMMA AdminStep ==
  ASSUME NonceTypes, AdminInv, [Next]_vars
  PROVE  AdminInv' /\ ByHolder
<1>1. CASE UNCHANGED vars
  BY <1>1, AdminStays DEF vars, accessVars
<1>2. ASSUME NEW a \in Address, generateNonce(a) \/ NonceExpires(a)
      PROVE  AdminInv' /\ ByHolder
  BY <1>2, AdminStays DEF generateNonce, NonceExpires, adminVars
<1>3. ASSUME NEW r \in Request, AccessCall(r) PROVE AdminInv' /\ ByHolder
  <2>1. ASSUME NEW a \in Address, NEW n \in 1..MaxNonce, Enter(r, a, n)
        PROVE  AdminInv' /\ ByHolder
    <3>1. PICK kind \in {"login", "register"} :
            call' = [call EXCEPT ![r] = [pc |-> "consume", kind |-> kind, address |-> a,
                                         signed |-> n]]
      BY <2>1 DEF Enter, Serve
    <3>2. QED
      BY <2>1, <3>1, AdminCall DEF Enter, adminVars
  <2>2. CASE ConsumeNonce(r)
    <3> DEFINE c == call[r]
               next == IF nonce[c.address] = c.signed /\ c.kind = "register"
                       THEN [c EXCEPT !.pc = "create"] ELSE Done
    <3>1. call' = [call EXCEPT ![r] = next] /\ UNCHANGED <<hashes, adminUser>>
      BY <2>2 DEF ConsumeNonce, adminVars
    <3>2. c \in UserCall
      BY <2>2 DEF ConsumeNonce, NonceTypes, UserPc
    <3>3. next.pc # "update"
      BY <3>2 DEF UserCall, Done
    <3> HIDE DEF next
    <3>4. QED
      BY <3>1, <3>3, AdminCall
  <2>3. CASE CreateRead(r)
    <3> DEFINE next == [call[r] EXCEPT !.pc = "insertAccount"]
    <3>1. call' = [call EXCEPT ![r] = next] /\ UNCHANGED <<hashes, adminUser>>
      BY <2>3 DEF CreateRead, adminVars
    <3>2. call[r] \in UserCall
      BY <2>3 DEF CreateRead, NonceTypes, UserPc
    <3>3. next.pc # "update"
      BY <3>2 DEF UserCall
    <3> HIDE DEF next
    <3>4. QED
      BY <3>1, <3>3, AdminCall
  <2>4. CASE CreateInsert(r) \/ CallFail(r)
    BY <2>4, AdminCall DEF CreateInsert, CallFail, Done, adminVars
  <2>5. ASSUME NEW u \in Username, NEW p \in Password, AdminLoginRead(r, u, p)
        PROVE  AdminInv' /\ ByHolder
    BY <2>5, AdminCall DEF AdminLoginRead, Serve, adminVars
  <2>6. CASE AdminLoginAnswer(r)
    BY <2>6, AdminCall DEF AdminLoginAnswer, Done
  <2>7. ASSUME NEW u \in Username, NEW p \in Password, NEW q \in Password,
               ChangeRead(r, u, p, q)
        PROVE  AdminInv' /\ ByHolder
    BY <2>7, ChangeReadKeeps
  <2>8. CASE ChangeUpdate(r)
    BY <2>8, ChangeUpdateKeeps
  <2>9. QED
    BY <1>3, <2>1, <2>2, <2>4, <2>5, <2>6, <2>7, <2>8, <2>3 DEF AccessCall
<1>4. ASSUME NEW s \in Server, Starting(s) PROVE AdminInv' /\ ByHolder
  <2>1. CASE InsertAdmin(s)
    BY <2>1, InsertAdminKeeps
  <2>2. CASE ~InsertAdmin(s)
    BY <1>4, <2>2, AdminStays
       DEF Starting, Start, FindExisting, InsertMissing, UpsertPool, Stop, FindAdmin,
           adminVars, accessVars
  <2>3. QED
    BY <2>1, <2>2
<1>5. ASSUME NEW t, EditRow(t) PROVE AdminInv' /\ ByHolder
  BY <1>5, AdminStays DEF EditRow, adminVars
<1>6. ASSUME NEW r \in Request, NEW id \in MinerId, NEW name \in MinerName,
             CreateMinerRead(r, id, name) \/ UpdateMinerRead(r, id, name)
      PROVE  AdminInv' /\ ByHolder
  BY <1>6, AdminCall DEF CreateMinerRead, UpdateMinerRead, Serve, adminVars
<1>7. ASSUME NEW r \in Request, SaveMiner(r) PROVE AdminInv' /\ ByHolder
  BY <1>7, AdminCall DEF SaveMiner, Done, adminVars
<1>8. QED
  BY <1>1, <1>2, <1>3, <1>4, <1>5, <1>6, <1>7 DEF Next, AccessNext, AdminWork

\* Whatever changes, logins and starts overlap: a hash is replaced only by a
\* request that knew the password it replaces, and nothing enables an account.
THEOREM HolderReplaces == Spec => PasswordReplacedByItsHolder
<1>1. NonceInv /\ AdminInv /\ [Next]_vars => AdminInv' /\ [ByHolder]_accessVars
  BY AdminStep DEF NonceInv
<1>2. ByHolder => \A u \in Username :
       adminUser[u] # NoRow =>
         /\ adminUser'[u] # NoRow
         /\ adminUser'[u].enabled => adminUser[u].enabled
         /\ adminUser'[u].hash # adminUser[u].hash =>
              \E r \in Request :
                /\ call[r].pc = "update" /\ call'[r] = Done
                /\ call[r].username = u
                /\ call[r].current = adminUser[u].hash.password
                /\ call[r].new = adminUser'[u].hash.password
  BY DEF ByHolder, Replaces
<1>3. QED
  BY <1>1, <1>2, AdminInvInit, NonceInvInit, NonceInvNext, PTL DEF Spec, PasswordReplacedByItsHolder

(***************************************************************************)
(* Starts.  A server about to insert holds the lock of its stage; what it   *)
(* found missing is still missing unless a request was given it, and what   *)
(* it found is still there.  An edited row stays, whoever edits it again.   *)
(***************************************************************************)
ServerTypes ==
  /\ rows = [t \in Table |-> rows[t]]
  /\ server = [s \in Server |-> server[s]]
  /\ \A s \in Server :
       /\ server[s].pc = "find" =>
            server[s].stage \in 1..4 /\ server[s] = [pc |-> "find", stage |-> server[s].stage]
       /\ server[s].pc = "insert" =>
            /\ server[s].stage \in 1..3
            /\ server[s] = [pc |-> "insert", stage |-> server[s].stage,
                            missing |-> server[s].missing]
            /\ DOMAIN server[s].missing = TablesOf(Stage[server[s].stage])
            /\ \A t \in DOMAIN server[s].missing : server[s].missing[t] \subseteq Default[t]

LockInv ==
  \A s, q \in Server :
    server[s].pc = "insert" /\ server[q].pc = "insert" /\ server[s].stage = server[q].stage
      => s = q

\* A row of this key or of this unique value, or a miner that a request wrote.
Covered(t, d) ==
  \/ Found(t, d)
  \/ t = "miner" /\ \E row \in rows[t] : row.by = "request"

FoundInv ==
  \A s \in Server : server[s].pc = "insert" =>
    \A t \in DOMAIN server[s].missing : \A d \in Default[t] \ server[s].missing[t] :
      Covered(t, d)

Editable == {"config", "rule", "buyback"}
EditedInv ==
  \A e \in edited :
    \E t \in Editable : \E row \in rows[t] : e = <<t, row.id>>

\* The miners that requests are about to write.
SaveInv ==
  /\ call = [r \in Request |-> call[r]]
  /\ \A r \in Request : call[r].pc = "saveMiner" => call[r].entity.by = "request"

StartInv ==
  ServerTypes /\ LockInv /\ FoundInv /\ EditedInv /\ StartsAreSafe

LEMMA StageFacts ==
  /\ Len(Stage) = 4
  /\ Stage[1] = "config" /\ Stage[2] = "account" /\ Stage[3] = "miner" /\ Stage[4] = "buyback"
BY DEF Stage

LEMMA StageTables ==
  ASSUME NEW i \in 1..4
  PROVE  /\ TablesOf(Stage[i]) \subseteq Table
         /\ \A j \in 1..4 : j # i => TablesOf(Stage[i]) \cap TablesOf(Stage[j]) = {}
         /\ i # 4 => "buyback" \notin TablesOf(Stage[i])
         /\ Stage[i] = "buyback" <=> i = 4
         /\ TablesOf(Stage[4]) = {"buyback"}
<1>1. i = 1 \/ i = 2 \/ i = 3 \/ i = 4
  OBVIOUS
<1>2. \A j \in 1..4 : j = 1 \/ j = 2 \/ j = 3 \/ j = 4
  OBVIOUS
<1>3. /\ TablesOf(Stage[1]) = {"config", "rule"}
      /\ TablesOf(Stage[2]) = {"account"}
      /\ TablesOf(Stage[3]) = {"miner"}
      /\ TablesOf(Stage[4]) = {"buyback"}
  BY StageFacts DEF TablesOf
<1>4. QED
  BY <1>1, <1>2, <1>3, StageFacts, StartupAssumption

LEMMA StartInvInit == Init => StartInv
<1> SUFFICES ASSUME Init PROVE StartInv
  OBVIOUS
<1> USE DEF Init, AccessInit, Down
<1>1. ServerTypes
  BY StartupAssumption DEF ServerTypes
<1>2. LockInv /\ FoundInv /\ EditedInv
  BY DEF LockInv, FoundInv, EditedInv
<1>3. ServersDoNotCollide /\ DefaultsThere /\ EditsSurvive
  BY DEF ServersDoNotCollide, DefaultsThere, EditsSurvive, Past
<1>4. Unique
  BY StartupAssumption DEF Unique, Collides
<1>5. QED
  BY <1>1, <1>2, <1>3, <1>4 DEF StartInv, StartsAreSafe

(***************************************************************************)
(* What a step of no server does to the rows: none comes but from a        *)
(* request, none goes but a miner, whose place a request takes.            *)
(***************************************************************************)
Same(row, other) == row.id = other.id /\ row.name = other.name /\ row.by = other.by

RowsKept ==
  \A t \in Table : \A row \in rows[t] :
    \/ \E other \in rows'[t] : Same(row, other)
    \/ t = "miner" /\ \E other \in rows'[t] : other.by = "request"

RowsFromRequests ==
  \A t \in Table : \A row \in rows'[t] :
    row.by = "request" \/ \E other \in rows[t] : Same(row, other)

LEMMA FoundStays ==
  ASSUME RowsKept, NEW t \in Table, NEW d, Covered(t, d)
  PROVE  Covered(t, d)'
<1>1. CASE Found(t, d)
  <2>1. PICK row \in rows[t] : Collides(row, d.id, d.name)
    BY <1>1 DEF Found
  <2>2. CASE \E other \in rows'[t] : Same(row, other)
    BY <2>1, <2>2 DEF Same, Covered, Found, Collides
  <2>3. CASE t = "miner" /\ \E other \in rows'[t] : other.by = "request"
    BY <2>3 DEF Covered
  <2>4. QED
    BY <2>2, <2>3 DEF RowsKept
<1>2. CASE t = "miner" /\ \E row \in rows[t] : row.by = "request"
  <2>1. PICK row \in rows[t] : row.by = "request"
    BY <1>2
  <2>2. \E other \in rows'[t] : other.by = "request"
    BY <2>1 DEF RowsKept, Same
  <2>3. QED
    BY <1>2, <2>2 DEF Covered
<1>3. QED
  BY <1>1, <1>2 DEF Covered

\* DefaultsThere in terms of Covered.
AllCovered ==
  \A s \in Server, i \in 1..4 : Past(s, i) =>
    \A t \in TablesOf(Stage[i]) : \A d \in Default[t] : Covered(t, d)

LEMMA DefaultsCovered == DefaultsThere <=> AllCovered
BY StageFacts DEF DefaultsThere, AllCovered, Covered, Found

\* The servers do not mind such a step.
LEMMA ServersFrame ==
  ASSUME StartInv, UNCHANGED server, rows' = [t \in Table |-> rows'[t]],
         RowsKept, RowsFromRequests
  PROVE  ServerTypes' /\ LockInv' /\ FoundInv' /\ ServersDoNotCollide' /\ DefaultsThere'
<1> USE DEF StartInv, StartsAreSafe
<1>1. ServerTypes' /\ LockInv'
  BY DEF ServerTypes, LockInv
<1>2. \A s \in Server : server[s].pc = "insert" =>
        /\ server[s].stage \in 1..4
        /\ DOMAIN server[s].missing = TablesOf(Stage[server[s].stage])
        /\ DOMAIN server[s].missing \subseteq Table
  BY StageTables DEF ServerTypes
<1>3. FoundInv'
  BY <1>2, FoundStays DEF FoundInv
<1>4. ServersDoNotCollide'
  <2>1. SUFFICES ASSUME NEW s \in Server, server[s].pc = "insert",
                        NEW t \in DOMAIN server[s].missing, NEW d \in server[s].missing[t],
                        NEW row \in rows'[t], Collides(row, d.id, d.name)
                 PROVE  row.by = "request"
    BY DEF ServersDoNotCollide
  <2>2. ASSUME NEW other \in rows[t], Same(row, other) PROVE row.by = "request"
    BY <2>1, <2>2 DEF Same, Collides, ServersDoNotCollide
  <2>3. QED
    BY <1>2, <2>1, <2>2 DEF RowsFromRequests
<1>5. DefaultsThere'
  <2>1. \A s \in Server, i \in 1..4 : Past(s, i)' <=> Past(s, i)
    BY DEF Past
  <2>2. \A s \in Server, i \in 1..4 : Past(s, i) =>
          \A t \in TablesOf(Stage[i]) : \A d \in Default[t] : Covered(t, d)'
    BY StageTables, FoundStays, DefaultsCovered DEF AllCovered
  <2>3. AllCovered'
    BY <2>1, <2>2 DEF AllCovered
  <2>4. QED
    BY <2>3, DefaultsCovered, PTL
<1>6. QED
  BY <1>1, <1>3, <1>4, <1>5

\* A step that leaves the rows and the servers alone.
LEMMA StartStays ==
  ASSUME StartInv, UNCHANGED <<rows, server, edited>>
  PROVE  StartInv'
<1> USE DEF StartInv, StartsAreSafe
<1>1. ServerTypes' /\ LockInv' /\ FoundInv'
  BY DEF ServerTypes, LockInv, FoundInv, Covered, Found
<1>2. EditedInv' /\ EditsSurvive' /\ Unique'
  BY DEF EditedInv, EditsSurvive, Unique
<1>3. ServersDoNotCollide'
  BY DEF ServersDoNotCollide
<1>4. DefaultsThere'
  BY DEF DefaultsThere, Past
<1>5. QED
  BY <1>1, <1>2, <1>3, <1>4

LEMMA EditsStay ==
  ASSUME EditedInv, EditsSurvive, UNCHANGED edited,
         \A t \in Editable : rows'[t] = rows[t]
  PROVE  EditedInv' /\ EditsSurvive'
<1>1. EditedInv'
  BY DEF EditedInv
<1>2. EditsSurvive'
  BY DEF EditsSurvive, Editable
<1>3. QED
  BY <1>1, <1>2

LEMMA CreateInsertSafe ==
  ASSUME StartInv, NEW r \in Request, CreateInsert(r), UNCHANGED <<server, edited>>
  PROVE  StartInv'
<1> USE DEF StartInv, StartsAreSafe
<1>1. PICK code \in RefCode :
        /\ ~\E row \in rows["account"] : Collides(row, call[r].address, code)
        /\ rows' = [rows EXCEPT !["account"] = @ \cup
             {[id |-> call[r].address, name |-> code, value |-> "default",
               by |-> "request"]}]
  BY DEF CreateInsert
<1> DEFINE new == [id |-> call[r].address, name |-> code, value |-> "default",
                   by |-> "request"]
<1>2. /\ rows'["account"] = rows["account"] \cup {new}
      /\ \A t \in Table : t # "account" => rows'[t] = rows[t]
      /\ rows' = [t \in Table |-> rows'[t]]
  BY <1>1, StartupAssumption DEF ServerTypes
<1>3. /\ new.by = "request"
      /\ \A row \in rows["account"] : row.id # new.id /\ row.name # new.name
  BY <1>1 DEF Collides
<1> HIDE DEF new
<1>4. RowsKept /\ RowsFromRequests
  BY <1>2, <1>3 DEF RowsKept, RowsFromRequests, Same
<1>5. Unique'
  BY <1>2, <1>3 DEF Unique, Collides
<1>6. EditedInv' /\ EditsSurvive'
  BY <1>2, EditsStay, StartupAssumption DEF Editable
<1>7. QED
  BY <1>2, <1>4, <1>5, <1>6, ServersFrame

LEMMA SaveMinerSafe ==
  ASSUME StartInv, SaveInv, NEW r \in Request, SaveMiner(r)
  PROVE  StartInv'
<1> USE DEF StartInv, StartsAreSafe
<1>1. call[r].entity.by = "request"
  BY DEF SaveInv, SaveMiner
<1> DEFINE new == call[r].entity
<1>2. /\ rows'["miner"] = {row \in rows["miner"] : row.id # new.id} \cup {new}
      /\ \A t \in Table : t # "miner" => rows'[t] = rows[t]
      /\ rows' = [t \in Table |-> rows'[t]]
      /\ UNCHANGED <<server, edited>>
  BY StartupAssumption DEF ServerTypes, SaveMiner
<1>3. \A row \in rows["miner"] : row.id # new.id => row.name # new.name
  BY DEF SaveMiner
<1> HIDE DEF new
<1>4. RowsKept
  BY <1>2, <1>1 DEF RowsKept, Same, new
<1>5. RowsFromRequests
  BY <1>2, <1>1 DEF RowsFromRequests, Same, new
<1>6. Unique'
  BY <1>2, <1>3 DEF Unique, Collides
<1>7. EditedInv' /\ EditsSurvive'
  BY <1>2, EditsStay, StartupAssumption DEF Editable
<1>8. QED
  BY <1>2, <1>4, <1>5, <1>6, <1>7, ServersFrame

LEMMA EditRowSafe ==
  ASSUME StartInv, NEW t \in Editable, EditRow(t)
  PROVE  StartInv'
<1> USE DEF StartInv, StartsAreSafe
<1>1. PICK row \in rows[t] :
        /\ rows' = [rows EXCEPT ![t] = (@ \ {row}) \cup
             {[id |-> row.id, name |-> row.name, value |-> "edited", by |-> row.by]}]
        /\ edited' = edited \cup {<<t, row.id>>}
  BY DEF EditRow
<1> DEFINE new == [id |-> row.id, name |-> row.name, value |-> "edited", by |-> row.by]
<1>2. /\ rows'[t] = (rows[t] \ {row}) \cup {new}
      /\ \A x \in Table : x # t => rows'[x] = rows[x]
      /\ rows' = [x \in Table |-> rows'[x]]
      /\ UNCHANGED server /\ t \in Table
  BY <1>1, StartupAssumption DEF ServerTypes, EditRow, Editable
<1>3. new.id = row.id /\ new.name = row.name /\ new.by = row.by /\ new.value = "edited"
  OBVIOUS
<1> HIDE DEF new
<1>4. \A x \in Table : \A old \in rows[x] : \E other \in rows'[x] : Same(old, other)
  BY <1>1, <1>2, <1>3 DEF Same
<1>5. \A x \in Table : \A old \in rows'[x] : \E other \in rows[x] : Same(old, other)
  BY <1>1, <1>2, <1>3 DEF Same
<1>6. RowsKept /\ RowsFromRequests
  <2>1. RowsKept
    BY <1>4 DEF RowsKept
  <2>2. RowsFromRequests
    BY <1>5 DEF RowsFromRequests, Same
  <2>3. QED
    BY <2>1, <2>2
<1>7. Unique'
  <2>1. \A other \in rows[t] : Collides(other, row.id, row.name) => other = row
    BY <1>1, <1>2 DEF Unique, Collides
  <2>2. \A old, other \in rows'[t] : Collides(old, other.id, other.name) => old = other
    BY <1>2, <1>3, <2>1 DEF Unique, Collides
  <2>3. QED
    BY <1>2, <2>2 DEF Unique
<1>8. EditedInv'
  <2>1. ASSUME NEW e \in edited' PROVE \E x \in Editable : \E old \in rows'[x] : e = <<x, old.id>>
    <3>1. CASE e = <<t, row.id>>
      BY <1>2, <1>3, <3>1
    <3>2. CASE e \in edited
      <4>1. PICK x \in Editable : \E old \in rows[x] : e = <<x, old.id>>
        BY <3>2 DEF EditedInv
      <4>2. PICK old \in rows[x] : e = <<x, old.id>>
        BY <4>1
      <4>3. PICK other \in rows'[x] : Same(old, other)
        BY <1>4, <4>1, StartupAssumption DEF Editable
      <4>4. QED
        BY <4>2, <4>3 DEF Same
    <3>3. QED
      BY <1>1, <2>1, <3>1, <3>2
  <2>2. QED
    BY <2>1 DEF EditedInv
<1>9. EditsSurvive'
  <2>1. SUFFICES ASSUME NEW x \in Editable, NEW old \in rows'[x], <<x, old.id>> \in edited'
                 PROVE  old.value = "edited"
    BY DEF EditsSurvive, Editable
  <2>2. CASE x = t /\ old = new
    BY <1>3, <2>2
  <2>3. CASE ~(x = t /\ old = new)
    <3>1. old \in rows[x] /\ (x = t => old # row)
      BY <1>1, <1>2, <2>1, <2>3, StartupAssumption DEF Editable
    <3>2. <<x, old.id>> \in edited
      <4>1. x # t \/ old.id # row.id
        BY <1>1, <1>2, <3>1 DEF Unique, Collides
      <4>2. QED
        BY <1>1, <2>1, <4>1
    <3>3. QED
      BY <2>1, <3>1, <3>2 DEF EditsSurvive, Editable
  <2>4. QED
    BY <2>2, <2>3
<1>10. QED
  BY <1>2, <1>6, <1>7, <1>8, <1>9, ServersFrame

(***************************************************************************)
(* The steps of servers.                                                   *)
(***************************************************************************)
\* A server that starts, fails or is ready: it holds no lock.
LEMMA ServerMoves ==
  ASSUME StartInv, NEW s \in Server, NEW state, UNCHANGED <<rows, edited>>, Goto(s, state),
         state.pc # "insert",
         state.pc = "find" => state = [pc |-> "find", stage |-> 1]
  PROVE  StartInv'
<1> USE DEF StartInv, StartsAreSafe
<1>1. /\ server'[s] = state /\ server' = [q \in Server |-> server'[q]]
      /\ \A q \in Server : q # s => server'[q] = server[q]
  BY DEF Goto, ServerTypes
<1>2. ServerTypes' /\ LockInv'
  BY <1>1 DEF ServerTypes, LockInv
<1>3. FoundInv' /\ ServersDoNotCollide'
  BY <1>1 DEF FoundInv, Covered, Found, ServersDoNotCollide
<1>4. DefaultsThere'
  <2>1. \A q \in Server, i \in 1..4 : Past(q, i)' => Past(q, i)
    BY <1>1 DEF Past
  <2>2. QED
    BY <2>1, StageFacts DEF DefaultsThere
<1>5. EditedInv' /\ EditsSurvive' /\ Unique'
  BY DEF EditedInv, EditsSurvive, Unique
<1>6. QED
  BY <1>2, <1>3, <1>4, <1>5

LEMMA FindExistingSafe ==
  ASSUME StartInv, NEW s \in Server, FindExisting(s)
  PROVE  StartInv'
<1> USE DEF StartInv, StartsAreSafe
<1> DEFINE k == server[s].stage
           missing == [t \in TablesOf(Stage[k]) |-> Missing(t)]
           state == [pc |-> "insert", stage |-> k, missing |-> missing]
<1>1. /\ k \in 1..3 /\ server[s].pc = "find" /\ LockFree(k)
      /\ UNCHANGED <<rows, edited>>
  BY StageFacts DEF FindExisting, ServerTypes, accessVars
<1>2. /\ server'[s] = state /\ server' = [q \in Server |-> server'[q]]
      /\ \A q \in Server : q # s => server'[q] = server[q]
  BY DEF FindExisting, Goto, ServerTypes
<1>3. /\ state.pc = "insert" /\ state.stage = k /\ state.missing = missing
      /\ DOMAIN missing = TablesOf(Stage[k])
      /\ \A t \in DOMAIN missing : missing[t] = Missing(t)
  OBVIOUS
<1>4. \A t : /\ Missing(t) \subseteq Default[t]
             /\ \A d \in Missing(t) : ~Found(t, d)
             /\ \A d \in Default[t] \ Missing(t) : Found(t, d)
  BY DEF Missing
<1> HIDE DEF missing
<1>5. ServerTypes'
  BY <1>1, <1>2, <1>3, <1>4 DEF ServerTypes
<1>6. LockInv'
  BY <1>1, <1>2, <1>3 DEF LockInv, LockFree
<1>7. FoundInv'
  BY <1>1, <1>2, <1>3, <1>4 DEF FoundInv, Covered, Found
<1>8. ServersDoNotCollide'
  BY <1>1, <1>2, <1>3, <1>4 DEF ServersDoNotCollide, Found
<1>9. DefaultsThere'
  <2>1. \A q \in Server, i \in 1..4 : Past(q, i)' => Past(q, i)
    BY <1>1, <1>2, <1>3 DEF Past
  <2>2. QED
    BY <1>1, <2>1, StageFacts DEF DefaultsThere
<1>10. EditedInv' /\ EditsSurvive' /\ Unique'
  BY <1>1 DEF EditedInv, EditsSurvive, Unique
<1>11. QED
  BY <1>5, <1>6, <1>7, <1>8, <1>9, <1>10

\* Defaults that nobody has are added.
LEMMA AddDefaults ==
  ASSUME StartInv, NEW add,
         rows' = [t \in Table |-> rows[t] \cup RowsOf(add[t])],
         \A t \in Table : add[t] \subseteq Default[t] /\ \A d \in add[t] : ~Found(t, d),
         UNCHANGED edited
  PROVE  RowsKept /\ Unique' /\ EditedInv' /\ EditsSurvive'
<1> USE DEF StartInv, StartsAreSafe
<1>1. RowsKept
  BY DEF RowsKept, Same
<1>2. \A t \in Table : \A new \in RowsOf(add[t]) :
        /\ \A row \in rows[t] : row.id # new.id /\ row.name # new.name
        /\ \A other \in RowsOf(add[t]) : new.id = other.id \/ new.name = other.name => new = other
  <2>1. SUFFICES ASSUME NEW t \in Table, NEW new \in RowsOf(add[t])
                 PROVE  /\ \A row \in rows[t] : row.id # new.id /\ row.name # new.name
                        /\ \A other \in RowsOf(add[t]) :
                             new.id = other.id \/ new.name = other.name => new = other
    OBVIOUS
  <2>2. PICK d \in add[t] :
          new = [id |-> d.id, name |-> d.name, value |-> "default", by |-> "server"]
    BY DEF RowsOf
  <2>3. \A row \in rows[t] : row.id # new.id /\ row.name # new.name
    BY <2>2 DEF Found, Collides
  <2>4. ASSUME NEW other \in RowsOf(add[t]), new.id = other.id \/ new.name = other.name
        PROVE  new = other
    <3>1. PICK e \in add[t] :
            other = [id |-> e.id, name |-> e.name, value |-> "default", by |-> "server"]
      BY DEF RowsOf
    <3>2. d.id = e.id \/ d.name = e.name
      BY <2>2, <2>4, <3>1
    <3>3. d = e
      BY <3>2, StartupAssumption
    <3>4. QED
      BY <2>2, <3>1, <3>3
  <2>5. QED
    BY <2>3, <2>4
<1>3. \A t \in Table : rows'[t] = rows[t] \cup RowsOf(add[t])
  OBVIOUS
<1>4. Unique'
  BY <1>2, <1>3 DEF Unique, Collides
<1>5. EditedInv'
  BY <1>3, StartupAssumption DEF EditedInv, Editable
<1>6. EditsSurvive'
  <2>1. SUFFICES ASSUME NEW t \in Editable, NEW row \in rows'[t], <<t, row.id>> \in edited
                 PROVE  row.value = "edited"
    BY DEF EditsSurvive, Editable
  <2>2. PICK other \in rows[t] : other.id = row.id
    BY <2>1 DEF EditedInv
  <2>3. row \in rows[t]
    BY <1>2, <1>3, <2>1, <2>2, StartupAssumption DEF Editable
  <2>4. QED
    BY <2>1, <2>3 DEF EditsSurvive, Editable
<1>7. QED
  BY <1>1, <1>4, <1>5, <1>6

LEMMA InsertMissingSafe ==
  ASSUME StartInv, NEW s \in Server, InsertMissing(s)
  PROVE  StartInv'
<1> USE DEF StartInv, StartsAreSafe
<1> DEFINE k == server[s].stage
           missing == server[s].missing
<1>1. CASE Violates(s)
  BY <1>1, ServerMoves DEF InsertMissing, Down
<1>2. CASE ~Violates(s)
  <2> DEFINE state == [pc |-> "find", stage |-> k + 1]
             add == [t \in Table |-> IF t \in DOMAIN missing THEN missing[t] ELSE {}]
  <2>1. /\ server[s].pc = "insert" /\ k \in 1..3 /\ DOMAIN missing = TablesOf(Stage[k])
        /\ \A t \in DOMAIN missing : missing[t] \subseteq Default[t]
    BY DEF InsertMissing, ServerTypes
  <2>2. /\ server'[s] = state /\ server' = [q \in Server |-> server'[q]]
        /\ \A q \in Server : q # s => server'[q] = server[q]
        /\ UNCHANGED edited
    BY <1>2 DEF InsertMissing, Goto, ServerTypes
  <2>3. rows' = [t \in Table |-> rows[t] \cup RowsOf(add[t])]
    <3>1. RowsOf({}) = {}
      BY DEF RowsOf
    <3>2. \A t \in Table : (IF t \in DOMAIN missing THEN rows[t] \cup RowsOf(missing[t]) ELSE rows[t])
                           = rows[t] \cup RowsOf(add[t])
      BY <3>1
    <3>3. rows' = [t \in Table |-> IF t \in DOMAIN missing
                                   THEN rows[t] \cup RowsOf(missing[t]) ELSE rows[t]]
      BY <1>2 DEF InsertMissing
    <3>4. QED
      BY <3>2, <3>3
  <2>4. \A t \in Table : add[t] \subseteq Default[t] /\ \A d \in add[t] : ~Found(t, d)
    BY <1>2, <2>1 DEF Violates
  <2>5. RowsKept /\ Unique' /\ EditedInv' /\ EditsSurvive'
    <3> HIDE DEF add
    <3>1. QED
      BY <2>2, <2>3, <2>4, AddDefaults
  <2>6. \A q \in Server : q # s /\ server[q].pc = "insert" =>
          /\ DOMAIN server[q].missing \subseteq Table
          /\ \A t \in DOMAIN server[q].missing : rows'[t] = rows[t]
    <3>1. SUFFICES ASSUME NEW q \in Server, q # s, server[q].pc = "insert"
                   PROVE  /\ DOMAIN server[q].missing \subseteq Table
                          /\ \A t \in DOMAIN server[q].missing : rows'[t] = rows[t]
      OBVIOUS
    <3>2. /\ server[q].stage \in 1..4 /\ k \in 1..4
          /\ DOMAIN server[q].missing = TablesOf(Stage[server[q].stage])
      BY <2>1, <3>1 DEF ServerTypes
    <3>3. server[q].stage # k
      BY <2>1, <3>1 DEF LockInv
    <3>4. /\ DOMAIN server[q].missing \subseteq Table
          /\ DOMAIN server[q].missing \cap DOMAIN missing = {}
      BY <2>1, <3>2, <3>3, StageTables
    <3>5. RowsOf({}) = {}
      BY DEF RowsOf
    <3>6. QED
      BY <2>3, <3>4, <3>5
  <2>7. ServerTypes' /\ LockInv'
    BY <2>1, <2>2, <2>3 DEF ServerTypes, LockInv
  <2>8. FoundInv'
    BY <2>2, <2>5, <2>6, FoundStays DEF FoundInv
  <2>9. ServersDoNotCollide'
    BY <2>2, <2>6 DEF ServersDoNotCollide
  <2>10. DefaultsThere'
    <3>1. ASSUME NEW q \in Server, NEW i \in 1..4, Past(q, i)',
                 NEW t \in TablesOf(Stage[i]), NEW d \in Default[t]
          PROVE  Covered(t, d)'
      <4>1. t \in Table
        BY StageTables
      <4>2. CASE Past(q, i)
        BY <2>5, <3>1, <4>1, <4>2, FoundStays, DefaultsCovered DEF AllCovered
      <4>3. CASE ~Past(q, i)
        <5>1. q = s /\ i = k
          BY <2>1, <2>2, <3>1, <4>3 DEF Past
        <5>2. CASE d \in missing[t]
          <6> DEFINE new == [id |-> d.id, name |-> d.name, value |-> "default", by |-> "server"]
          <6>1. new \in rows'[t]
            BY <2>1, <2>3, <4>1, <5>1, <5>2 DEF RowsOf
          <6>2. Collides(new, d.id, d.name)
            BY DEF Collides
          <6> HIDE DEF new
          <6>3. QED
            BY <6>1, <6>2 DEF Covered, Found
        <5>3. CASE d \notin missing[t]
          BY <2>1, <2>5, <4>1, <5>1, <5>3, FoundStays DEF FoundInv
        <5>4. QED
          BY <5>2, <5>3
      <4>4. QED
        BY <4>2, <4>3
    <3>2. AllCovered'
      BY <3>1 DEF AllCovered
    <3>3. QED
      BY <3>2, DefaultsCovered, PTL
  <2>11. QED
    BY <2>5, <2>7, <2>8, <2>9, <2>10
<1>3. QED
  BY <1>1, <1>2

LEMMA UpsertPoolSafe ==
  ASSUME StartInv, NEW s \in Server, UpsertPool(s)
  PROVE  StartInv'
<1> USE DEF StartInv, StartsAreSafe
<1> DEFINE add == [t \in Table |-> IF t = "buyback" THEN Missing("buyback") ELSE {}]
<1>1. /\ server'[s] = Ready /\ server' = [q \in Server |-> server'[q]]
      /\ \A q \in Server : q # s => server'[q] = server[q]
      /\ UNCHANGED edited
  BY DEF UpsertPool, Goto, ServerTypes
<1>2. /\ rows' = [t \in Table |-> rows[t] \cup RowsOf(add[t])]
      /\ \A t \in Table : t # "buyback" => rows'[t] = rows[t]
  <2>1. RowsOf({}) = {}
    BY DEF RowsOf
  <2>2. rows' = [rows EXCEPT !["buyback"] = rows["buyback"] \cup RowsOf(Missing("buyback"))]
    BY DEF UpsertPool
  <2>3. /\ rows'["buyback"] = rows["buyback"] \cup RowsOf(Missing("buyback"))
        /\ \A t \in Table : t # "buyback" => rows'[t] = rows[t]
        /\ rows' = [t \in Table |-> rows'[t]]
    BY <2>2, StartupAssumption DEF ServerTypes
  <2>4. \A t \in Table : rows'[t] = rows[t] \cup RowsOf(add[t])
    BY <2>1, <2>3
  <2>5. QED
    BY <2>3, <2>4
<1>3. \A t \in Table : add[t] \subseteq Default[t] /\ \A d \in add[t] : ~Found(t, d)
  BY DEF Missing
<1>4. RowsKept /\ Unique' /\ EditedInv' /\ EditsSurvive'
  <2> HIDE DEF add
  <2>1. QED
    BY <1>1, <1>2, <1>3, AddDefaults
<1>5. \A q \in Server : server'[q].pc = "insert" =>
        /\ server'[q] = server[q] /\ DOMAIN server[q].missing \subseteq Table
        /\ \A t \in DOMAIN server[q].missing : rows'[t] = rows[t]
  <2>1. \A q \in Server : server'[q].pc = "insert" => server'[q] = server[q]
    BY <1>1 DEF Ready
  <2>2. ASSUME NEW q \in Server, server[q].pc = "insert"
        PROVE  DOMAIN server[q].missing \subseteq Table \ {"buyback"}
    <3>1. server[q].stage \in 1..4 /\ server[q].stage # 4
          /\ DOMAIN server[q].missing = TablesOf(Stage[server[q].stage])
      BY <2>2 DEF ServerTypes
    <3>2. QED
      BY <3>1, StageTables
  <2>3. QED
    BY <1>2, <2>1, <2>2
<1>6. ServerTypes' /\ LockInv'
  BY <1>1, <1>2 DEF ServerTypes, LockInv, Ready
<1>7. FoundInv'
  BY <1>4, <1>5, FoundStays DEF FoundInv
<1>8. ServersDoNotCollide'
  BY <1>5 DEF ServersDoNotCollide
<1>9. DefaultsThere'
  <2>1. \A q \in Server, i \in 1..4 : Past(q, i)' => Past(q, i)
    BY <1>1 DEF Past, Ready
  <2>2. AllCovered'
    BY <1>4, <2>1, FoundStays, DefaultsCovered, StageTables DEF AllCovered
  <2>3. QED
    BY <2>2, DefaultsCovered, PTL
<1>10. QED
  BY <1>4, <1>6, <1>7, <1>8, <1>9

LEMMA StartStep ==
  ASSUME StartInv, SaveInv, [Next]_vars
  PROVE  StartInv'
<1>1. CASE UNCHANGED vars
  BY <1>1, StartStays DEF vars, accessVars
<1>2. CASE AccessNext /\ UNCHANGED <<server, edited>>
  <2>1. ASSUME NEW r \in Request, CreateInsert(r) PROVE StartInv'
    BY <1>2, <2>1, CreateInsertSafe
  <2>2. CASE UNCHANGED rows
    BY <1>2, <2>2, StartStays
  <2>3. (\E r \in Request : CreateInsert(r)) \/ UNCHANGED rows
    BY <1>2 DEF AccessNext, AccessCall, generateNonce, NonceExpires, Enter, ConsumeNonce,
                CreateRead, AdminLoginRead, AdminLoginAnswer, ChangeRead, ChangeUpdate, CallFail
  <2>4. QED
    BY <2>1, <2>2, <2>3
<1>3. ASSUME NEW s \in Server, Starting(s) PROVE StartInv'
  <2>1. CASE FindExisting(s) \/ InsertMissing(s) \/ UpsertPool(s)
    BY <2>1, FindExistingSafe, InsertMissingSafe, UpsertPoolSafe
  <2>2. CASE Start(s) \/ Stop(s)
    BY <2>2, ServerMoves DEF Start, Stop, Down, accessVars
  <2>3. CASE FindAdmin(s) \/ InsertAdmin(s)
    <3>1. PICK state : /\ Goto(s, state) /\ state.pc \notin {"insert", "find"}
                       /\ UNCHANGED <<rows, edited>>
      BY <2>3 DEF FindAdmin, InsertAdmin, Ready, accessVars
    <3>2. QED
      BY <3>1, ServerMoves
  <2>4. QED
    BY <1>3, <2>1, <2>2, <2>3 DEF Starting
<1>4. ASSUME NEW t \in {"config", "rule", "buyback"}, EditRow(t) PROVE StartInv'
  BY <1>4, EditRowSafe DEF Editable
<1>5. ASSUME NEW r \in Request, NEW id \in MinerId, NEW name \in MinerName,
             CreateMinerRead(r, id, name) \/ UpdateMinerRead(r, id, name)
      PROVE  StartInv'
  BY <1>5, StartStays DEF CreateMinerRead, UpdateMinerRead
<1>6. ASSUME NEW r \in Request, SaveMiner(r) PROVE StartInv'
  BY <1>6, SaveMinerSafe
<1>7. QED
  BY <1>1, <1>2, <1>3, <1>4, <1>5, <1>6 DEF Next, AdminWork

LEMMA SaveInvInit == Init => SaveInv
BY DEF Init, AccessInit, SaveInv, Done

\* A request goes on to c; a miner it is about to write is its own.
LEMMA SaveCall ==
  ASSUME SaveInv, NEW r \in Request, NEW c, call' = [call EXCEPT ![r] = c],
         c.pc = "saveMiner" => c.entity.by = "request"
  PROVE  SaveInv'
BY DEF SaveInv

LEMMA SaveInvNext == NonceTypes /\ SaveInv /\ [Next]_vars => SaveInv'
<1> SUFFICES ASSUME NonceTypes, SaveInv, [Next]_vars PROVE SaveInv'
  OBVIOUS
<1>1. CASE UNCHANGED call
  BY <1>1 DEF SaveInv
<1>2. ASSUME NEW r \in Request, call' = [call EXCEPT ![r] = Done] PROVE SaveInv'
  BY <1>2, SaveCall DEF Done
<1>3. ASSUME NEW r \in Request, ConsumeNonce(r) PROVE SaveInv'
  <2> DEFINE c == call[r]
             next == IF nonce[c.address] = c.signed /\ c.kind = "register"
                     THEN [c EXCEPT !.pc = "create"] ELSE Done
  <2>1. call' = [call EXCEPT ![r] = next] /\ c \in UserCall
    BY <1>3 DEF ConsumeNonce, NonceTypes, UserPc
  <2>2. next.pc # "saveMiner"
    BY <2>1 DEF UserCall, Done
  <2> HIDE DEF next
  <2>3. QED
    BY <2>1, <2>2, SaveCall
<1>4. ASSUME NEW r \in Request, CreateRead(r) PROVE SaveInv'
  <2> DEFINE next == [call[r] EXCEPT !.pc = "insertAccount"]
  <2>1. call' = [call EXCEPT ![r] = next] /\ call[r] \in UserCall
    BY <1>4 DEF CreateRead, NonceTypes, UserPc
  <2>2. next.pc # "saveMiner"
    BY <2>1 DEF UserCall
  <2> HIDE DEF next
  <2>3. QED
    BY <2>1, <2>2, SaveCall
<1>5. ASSUME NEW r \in Request, NEW a \in Address, NEW n \in 1..MaxNonce, Enter(r, a, n)
      PROVE  SaveInv'
  <2>1. PICK kind \in {"login", "register"} :
          call' = [call EXCEPT ![r] = [pc |-> "consume", kind |-> kind, address |-> a,
                                       signed |-> n]]
    BY <1>5 DEF Enter, Serve
  <2>2. QED
    BY <2>1, SaveCall
<1>6. ASSUME NEW r \in Request, NEW u \in Username, NEW p \in Password, NEW q \in Password,
             AdminLoginRead(r, u, p) \/ ChangeRead(r, u, p, q)
      PROVE  SaveInv'
  BY <1>6, SaveCall DEF AdminLoginRead, ChangeRead, Serve
<1>7. ASSUME NEW r \in Request, NEW id \in MinerId, NEW name \in MinerName,
             CreateMinerRead(r, id, name) \/ UpdateMinerRead(r, id, name)
      PROVE  SaveInv'
  BY <1>7, SaveCall DEF CreateMinerRead, UpdateMinerRead, Serve
<1>8. ASSUME NEW r \in Request, AccessCall(r) PROVE SaveInv'
  <2>1. CASE CreateInsert(r) \/ AdminLoginAnswer(r) \/ ChangeUpdate(r) \/ CallFail(r)
    BY <1>2, <2>1 DEF CreateInsert, AdminLoginAnswer, ChangeUpdate, CallFail
  <2>2. CASE ConsumeNonce(r) \/ CreateRead(r)
    BY <1>3, <1>4, <2>2
  <2>3. CASE \E u \in Username, p \in Password : AdminLoginRead(r, u, p)
    BY <1>6, <2>3
  <2>4. CASE \E u \in Username, p, q \in Password : ChangeRead(r, u, p, q)
    BY <1>6, <2>4
  <2>5. CASE \E a \in Address, n \in 1..MaxNonce : Enter(r, a, n)
    BY <1>5, <2>5
  <2>6. QED
    BY <1>8, <2>1, <2>2, <2>3, <2>4, <2>5 DEF AccessCall
<1>9. ASSUME NEW s \in Server, Starting(s) PROVE UNCHANGED call
  BY <1>9 DEF Starting, Start, FindExisting, InsertMissing, UpsertPool, Stop, FindAdmin,
              InsertAdmin, accessVars
<1>10. ASSUME NEW a \in Address, generateNonce(a) \/ NonceExpires(a) PROVE UNCHANGED call
  BY <1>10 DEF generateNonce, NonceExpires
<1>11. ASSUME NEW t, EditRow(t) PROVE UNCHANGED call
  BY <1>11 DEF EditRow
<1>12. ASSUME NEW r \in Request, SaveMiner(r) PROVE SaveInv'
  BY <1>2, <1>12 DEF SaveMiner
<1>13. UNCHANGED vars => UNCHANGED call
  BY DEF vars, accessVars
<1>14. QED
  BY <1>1, <1>7, <1>8, <1>9, <1>10, <1>11, <1>12, <1>13 DEF Next, AccessNext, AdminWork

\* Whatever servers start and stop next to each other and to the requests, the
\* defaults are completed, nothing is written twice or set back, and only a row
\* of a request can keep a server from starting.
THEOREM SafeStarts == Spec => []StartsAreSafe
<1>1. NonceInv /\ SaveInv /\ StartInv /\ [Next]_vars => StartInv' /\ SaveInv'
  BY StartStep, SaveInvNext DEF NonceInv
<1>2. StartInv => StartsAreSafe
  BY DEF StartInv
<1>3. QED
  BY <1>1, <1>2, StartInvInit, SaveInvInit, NonceInvInit, NonceInvNext, PTL DEF Spec
=============================================================================
