-------------------------- MODULE Dividend_proofs --------------------------
(***************************************************************************)
(* Proofs about the referral tree, what is shown of it and the dividends   *)
(* paid along it, for any tree, any levels, any kinds and rules, and any   *)
(* registrations, moves, deletions and recomputations in between.          *)
(***************************************************************************)
EXTENDS Dividend, TeamViews, Sums_proofs, WellFoundedInduction

(***************************************************************************)
(* account_relation stays the closure of the parent links, and the levels  *)
(* are those the tree gives, for any tree, any registrations that overlap, *)
(* moves, deletions, purchases and recomputations.                         *)
(*                                                                         *)
(* The closure is defined by climbing from an account to its superiors.    *)
(* The table is changed row by row, so the invariant says what it means    *)
(* for rows to mirror the parent links: the rows of level 1 are the links, *)
(* and the rows above are those of the parent, one level up.  The first    *)
(* part shows that one set of rows mirrors the links of a forest, the      *)
(* closure; the second that every step keeps the table a mirror; the third *)
(* that the two ways to compute the levels of a mirror agree; the last     *)
(* that what is written are these levels.                                  *)
(***************************************************************************)
\* What holds of 0 and of n + 1 with n holds of every natural number.
LEMMA CountingUp ==
  ASSUME NEW S, 0 \in S, \A n \in Nat : n \in S => n + 1 \in S
  PROVE  Nat \subseteq S
<1> DEFINE Bad == Nat \ S
<1>1. SUFFICES ASSUME Bad # {} PROVE FALSE
  OBVIOUS
<1>2. PICK n \in Bad : \A m \in Bad : ~(<<m, n>> \in OpToRel(<, Nat))
  <2>1. Bad \subseteq Nat
    OBVIOUS
  <2> HIDE DEF Bad
  <2>2. QED
    BY <1>1, <2>1, NatLessThanWellFounded, WFMin
<1>3. n \in Nat /\ n # 0 /\ n - 1 \in Nat /\ (n - 1) + 1 = n
  OBVIOUS
<1>4. <<n - 1, n>> \in OpToRel(<, Nat)
  BY <1>3 DEF OpToRel
<1>5. n - 1 \in S
  BY <1>2, <1>3, <1>4
<1>6. QED
  BY <1>3, <1>5

-----------------------------------------------------------------------------
(***************************************************************************)
(* Climbing from an account.                                               *)
(***************************************************************************)
Height == Cardinality(Account)
Parents == [Account -> Account \cup {None}]
Above(up, x) == IF x = None THEN None ELSE up[x]

\* g lists what is met on the way up from a, as far as m.
Climbs(up, a, g, m) ==
  g = [n \in 0..m |-> IF n = 0 THEN a ELSE IF g[n - 1] = None THEN None ELSE up[g[n - 1]]]

LEMMA HeightNat == Height \in Nat /\ Depth = 1..Height
  BY AccountsFinite, FS_CardinalityType DEF Height, Depth

LEMMA SuperiorIsClimb ==
  ASSUME NEW up, NEW a, NEW k
  PROVE  SuperiorAt(up, a, k) = (CHOOSE g : Climbs(up, a, g, Height))[k]
  BY DEF SuperiorAt, Climbs, Height

LEMMA ClimbExists ==
  ASSUME NEW up, NEW a
  PROVE  \E g : Climbs(up, a, g, Height)
<1> DEFINE S == {m \in Nat : \E g : Climbs(up, a, g, m)}
<1>1. 0 \in S
  <2> DEFINE g == [n \in 0..0 |-> a]
  <2>1. g = [n \in 0..0 |-> IF n = 0 THEN a
                            ELSE IF g[n - 1] = None THEN None ELSE up[g[n - 1]]]
    OBVIOUS
  <2>2. QED
    BY <2>1 DEF Climbs
<1>2. ASSUME NEW m \in Nat, m \in S PROVE m + 1 \in S
  <2>1. PICK g : Climbs(up, a, g, m)
    BY <1>2
  <2> DEFINE h == [n \in 0..(m + 1) |-> IF n = m + 1 THEN Above(up, g[m]) ELSE g[n]]
             Step(n) == IF n = 0 THEN a ELSE IF h[n - 1] = None THEN None ELSE up[h[n - 1]]
  <2>2. ASSUME NEW n \in 0..(m + 1) PROVE h[n] = Step(n)
    <3>1. CASE n = m + 1
      <4>1. h[n - 1] = g[m] /\ n # 0
        BY <3>1
      <4>2. QED
        BY <3>1, <4>1 DEF Above
    <3>2. CASE n # m + 1
      <4>1. n \in 0..m /\ h[n] = g[n] /\ (n # 0 => n - 1 \in 0..(m + 1) /\ h[n - 1] = g[n - 1])
        BY <3>2
      <4>2. g[n] = IF n = 0 THEN a ELSE IF g[n - 1] = None THEN None ELSE up[g[n - 1]]
        BY <2>1, <4>1 DEF Climbs
      <4>3. QED
        BY <4>1, <4>2
    <3>3. QED
      BY <3>1, <3>2
  <2>3. h = [n \in 0..(m + 1) |-> h[n]]
    OBVIOUS
  <2> HIDE DEF h
  <2>4. h = [n \in 0..(m + 1) |-> Step(n)]
    BY <2>2, <2>3
  <2>5. Climbs(up, a, h, m + 1)
    BY <2>4 DEF Climbs
  <2>6. QED
    BY <2>5
<1>3. Nat \subseteq S
  <2> HIDE DEF S
  <2>1. QED
    BY <1>1, <1>2, CountingUp
<1>4. QED
  BY <1>3, HeightNat

\* The way up, step by step.
LEMMA Climb ==
  ASSUME NEW up, NEW a
  PROVE  /\ SuperiorAt(up, a, 0) = a
         /\ \A k \in Nat : k < Height =>
              SuperiorAt(up, a, k + 1) = Above(up, SuperiorAt(up, a, k))
<1> DEFINE g == CHOOSE h : Climbs(up, a, h, Height)
<1>1. Climbs(up, a, g, Height)
  BY ClimbExists
<1>2. \A k : SuperiorAt(up, a, k) = g[k]
  BY SuperiorIsClimb
<1> HIDE DEF g
<1>3. g[0] = a
  BY <1>1, HeightNat DEF Climbs
<1>4. ASSUME NEW k \in Nat, k < Height PROVE g[k + 1] = Above(up, g[k])
  <2>1. k + 1 \in 0..Height /\ k + 1 # 0 /\ (k + 1) - 1 = k
    BY <1>4, HeightNat
  <2>2. QED
    BY <1>1, <2>1 DEF Climbs, Above
<1>5. QED
  BY <1>2, <1>3, <1>4

LEMMA ClimbStep ==
  ASSUME NEW up, NEW a, NEW k \in Nat, k < Height
  PROVE  SuperiorAt(up, a, k + 1) = Above(up, SuperiorAt(up, a, k))
<1>1. \A n \in Nat : n < Height =>
        SuperiorAt(up, a, n + 1) = Above(up, SuperiorAt(up, a, n))
  BY ONLY Climb
<1>2. QED
  BY ONLY <1>1, k \in Nat, k < Height

\* Who climbs within A stays there.
LEMMA SuperiorWithin ==
  ASSUME NEW up, NEW A, \A x \in A : up[x] \in A \cup {None}, NEW a \in A \cup {None}
  PROVE  \A k \in 0..Height : SuperiorAt(up, a, k) \in A \cup {None}
<1> DEFINE S == {k \in Nat : k <= Height => SuperiorAt(up, a, k) \in A \cup {None}}
<1>1. 0 \in S
  BY Climb
<1>2. ASSUME NEW k \in Nat, k \in S PROVE k + 1 \in S
  <2>1. SUFFICES ASSUME k < Height PROVE SuperiorAt(up, a, k + 1) \in A \cup {None}
    BY HeightNat
  <2>2. SuperiorAt(up, a, k + 1) = Above(up, SuperiorAt(up, a, k))
    BY <2>1, Climb
  <2>3. SuperiorAt(up, a, k) \in A \cup {None}
    BY <1>2, <2>1, HeightNat
  <2>4. QED
    BY <2>2, <2>3 DEF Above
<1>3. Nat \subseteq S
  <2> HIDE DEF S
  <2>1. QED
    BY <1>1, <1>2, CountingUp
<1>4. QED
  BY <1>3, HeightNat

LEMMA SuperiorType ==
  ASSUME NEW up \in Parents, NEW a \in Account \cup {None}
  PROVE  \A k \in 0..Height : SuperiorAt(up, a, k) \in Account \cup {None}
<1>1. \A x \in Account : up[x] \in Account \cup {None}
  BY DEF Parents
<1>2. QED
  BY <1>1, SuperiorWithin

\* The superiors of an account are its parent and the superiors of its parent.
LEMMA ClimbFromParent ==
  ASSUME NEW up \in Parents, NEW a \in Account
  PROVE  \A k \in Nat : k < Height => SuperiorAt(up, a, k + 1) = SuperiorAt(up, up[a], k)
<1> DEFINE S == {k \in Nat :
                   k < Height => SuperiorAt(up, a, k + 1) = SuperiorAt(up, up[a], k)}
<1>1. 0 \in S
  <2>1. a # None
    BY TreeAssumption
  <2>2. PICK z \in Nat : z = 0
    OBVIOUS
  <2>3. z < Height => SuperiorAt(up, a, z + 1) = Above(up, SuperiorAt(up, a, z))
    BY Climb
  <2>4. SuperiorAt(up, a, z) = a /\ SuperiorAt(up, up[a], z) = up[a]
    BY <2>2, Climb
  <2>5. QED
    BY <2>1, <2>2, <2>3, <2>4 DEF Above
<1>2. ASSUME NEW k \in Nat, k \in S PROVE k + 1 \in S
  <2>1. SUFFICES ASSUME k + 1 < Height
        PROVE  SuperiorAt(up, a, (k + 1) + 1) = SuperiorAt(up, up[a], k + 1)
    OBVIOUS
  <2>2. PICK m \in Nat : m = k + 1 /\ m < Height /\ k < Height
    BY <2>1, HeightNat
  <2>3. SuperiorAt(up, a, m + 1) = Above(up, SuperiorAt(up, a, m))
    <3>1. m < Height
      BY <2>2
    <3>2. QED
      BY <3>1, Climb
  <2>4. SuperiorAt(up, up[a], k + 1) = Above(up, SuperiorAt(up, up[a], k))
    <3>1. PICK p : p = up[a]
      OBVIOUS
    <3>2. SuperiorAt(up, p, k + 1) = Above(up, SuperiorAt(up, p, k))
      BY ONLY <2>2, k \in Nat, ClimbStep
    <3>3. QED
      BY ONLY <3>1, <3>2
  <2>5. SuperiorAt(up, a, k + 1) = SuperiorAt(up, up[a], k)
    BY <1>2, <2>2 DEF S
  <2>6. QED
    BY <2>2, <2>3, <2>4, <2>5
<1>3. Nat \subseteq S
  <2> HIDE DEF S
  <2>1. QED
    BY <1>1, <1>2, CountingUp
<1>4. QED
  BY <1>3

\* Climbing on from where one is.
LEMMA ClimbOn ==
  ASSUME NEW up, NEW a, NEW i \in Nat
  PROVE  \A d \in Nat : i + d <= Height =>
           SuperiorAt(up, a, i + d) = SuperiorAt(up, SuperiorAt(up, a, i), d)
<1> DEFINE b == SuperiorAt(up, a, i)
           S == {d \in Nat : i + d <= Height => SuperiorAt(up, a, i + d) = SuperiorAt(up, b, d)}
<1>1. 0 \in S
  BY Climb
<1>2. ASSUME NEW d \in Nat, d \in S PROVE d + 1 \in S
  <2>1. SUFFICES ASSUME i + (d + 1) <= Height
        PROVE  SuperiorAt(up, a, i + (d + 1)) = SuperiorAt(up, b, d + 1)
    OBVIOUS
  <2>2. i + d < Height /\ d < Height /\ i + (d + 1) = (i + d) + 1 /\ i + d \in Nat
    BY <2>1, HeightNat
  <2>3. SuperiorAt(up, a, (i + d) + 1) = Above(up, SuperiorAt(up, a, i + d))
    <3>1. PICK m \in Nat : m = i + d
      BY <2>2
    <3>2. SuperiorAt(up, a, m + 1) = Above(up, SuperiorAt(up, a, m))
      BY ONLY <2>2, <3>1, ClimbStep
    <3>3. QED
      BY ONLY <3>1, <3>2
  <2>4. SuperiorAt(up, b, d + 1) = Above(up, SuperiorAt(up, b, d))
    <3> HIDE DEF b
    <3>1. QED
      BY ONLY <2>2, d \in Nat, ClimbStep
  <2>5. SuperiorAt(up, a, i + d) = SuperiorAt(up, b, d)
    BY <1>2, <2>2, HeightNat
  <2> HIDE DEF b
  <2>6. QED
    BY <2>2, <2>3, <2>4, <2>5
<1>3. Nat \subseteq S
  <2> HIDE DEF S
  <2>1. QED
    BY <1>1, <1>2, CountingUp
<1>4. QED
  BY <1>3

LEMMA NoneAboveNone ==
  ASSUME NEW up
  PROVE  \A d \in Nat : d <= Height => SuperiorAt(up, None, d) = None
<1> DEFINE S == {d \in Nat : d <= Height => SuperiorAt(up, None, d) = None}
<1>1. 0 \in S
  BY Climb
<1>2. ASSUME NEW d \in Nat, d \in S PROVE d + 1 \in S
  <2>1. SUFFICES ASSUME d + 1 <= Height PROVE SuperiorAt(up, None, d + 1) = None
    OBVIOUS
  <2>2. d < Height
    BY <2>1, HeightNat
  <2>3. SuperiorAt(up, None, d + 1) = Above(up, SuperiorAt(up, None, d))
    BY <2>2, Climb
  <2>4. SuperiorAt(up, None, d) = None
    BY <1>2, <2>2, HeightNat
  <2>5. QED
    BY <2>3, <2>4 DEF Above
<1>3. Nat \subseteq S
  <2> HIDE DEF S
  <2>1. QED
    BY <1>1, <1>2, CountingUp
<1>4. QED
  BY <1>3

-----------------------------------------------------------------------------
(***************************************************************************)
(* In a forest every way up ends below the height.                         *)
(***************************************************************************)
Acyclic(up) == \A a \in Account, k \in Depth : SuperiorAt(up, a, k) # a

LEMMA WayUpEnds ==
  ASSUME NEW up \in Parents, Acyclic(up), NEW a \in Account
  PROVE  SuperiorAt(up, a, Height) = None
<1> DEFINE f == [k \in 0..Height |-> SuperiorAt(up, a, k)]
<1>1. SUFFICES ASSUME SuperiorAt(up, a, Height) # None PROVE FALSE
  OBVIOUS
<1>2. ASSUME NEW k \in 0..Height PROVE SuperiorAt(up, a, k) \in Account
  <2>1. PICK d \in Nat : Height = k + d /\ d <= Height /\ k \in Nat
    BY <1>2, HeightNat
  <2>2. SuperiorAt(up, a, k + d) = SuperiorAt(up, SuperiorAt(up, a, k), d)
    BY <2>1, ClimbOn
  <2>3. SuperiorAt(up, None, d) = None
    BY <2>1, NoneAboveNone
  <2>4. SuperiorAt(up, a, k) # None
    BY <1>1, <2>1, <2>2, <2>3
  <2>5. QED
    BY <2>4, SuperiorType
<1>3. f \in [0..Height -> Account]
  BY <1>2
<1>4. /\ IsFiniteSet(0..Height) /\ IsFiniteSet(Account)
      /\ Cardinality(Account) < Cardinality(0..Height)
  BY HeightNat, FS_Interval, AccountsFinite DEF Height
<1> HIDE DEF f
<1>5. PICK x, y \in 0..Height : x # y /\ f[x] = f[y]
  BY <1>3, <1>4, FS_PigeonHole
<1>6. PICK i, j \in 0..Height : i < j /\ f[i] = f[j]
  BY <1>5, HeightNat
<1>7. PICK d \in Nat : j = i + d /\ d \in Depth /\ i \in Nat /\ i + d <= Height
  BY <1>6, HeightNat
<1>8. SuperiorAt(up, a, i + d) = SuperiorAt(up, SuperiorAt(up, a, i), d)
  BY <1>7, ClimbOn
<1>9. f[i] = SuperiorAt(up, a, i) /\ f[j] = SuperiorAt(up, a, j)
  BY DEF f
<1>10. SuperiorAt(up, SuperiorAt(up, a, i), d) = SuperiorAt(up, a, i)
  BY <1>6, <1>7, <1>8, <1>9
<1>11. QED
  BY <1>2, <1>6, <1>7, <1>10 DEF Acyclic

-----------------------------------------------------------------------------
(***************************************************************************)
(* Rows that mirror the parent links.                                      *)
(***************************************************************************)
Generation == Nat \ {0}
RowsOf(R) == R \subseteq [superior : Account, subordinate : Account, level : Generation]

Direct(R, up) == \A s, a \in Account : Row(s, a, 1) \in R <=> up[a] = s

Indirect(R, up) ==
  \A s, a \in Account, l \in Generation :
    Row(s, a, l + 1) \in R <=> up[a] \in Account /\ Row(s, up[a], l) \in R

NoLoop(R) == \A a \in Account, l \in Generation : Row(a, a, l) \notin R

Mirrors(R, up) == RowsOf(R) /\ Direct(R, up) /\ Indirect(R, up) /\ NoLoop(R)

LEMMA ClosureRows ==
  ASSUME NEW up \in Parents, NEW s, NEW a \in Account, NEW l
  PROVE  Row(s, a, l) \in Closure(up) <=> l \in Depth /\ s # None /\ SuperiorAt(up, a, l) = s
<1>1. Row(s, a, l) \in Closure(up) =>
        \E p \in Account \X Depth : /\ SuperiorAt(up, p[1], p[2]) # None
                                    /\ Row(s, a, l) = Row(SuperiorAt(up, p[1], p[2]), p[1], p[2])
  BY DEF Closure
<1>2. Row(s, a, l) \in Closure(up) => l \in Depth /\ s # None /\ SuperiorAt(up, a, l) = s
  BY <1>1 DEF Row
<1>3. ASSUME l \in Depth, s # None, SuperiorAt(up, a, l) = s
      PROVE  Row(s, a, l) \in Closure(up)
  <2>1. <<a, l>> \in {q \in Account \X Depth : SuperiorAt(up, q[1], q[2]) # None}
    BY <1>3
  <2>2. Row(s, a, l) = Row(SuperiorAt(up, <<a, l>>[1], <<a, l>>[2]), <<a, l>>[1], <<a, l>>[2])
    BY <1>3
  <2>3. QED
    BY <2>1, <2>2 DEF Closure
<1>4. QED
  BY <1>2, <1>3

\* The closure of a forest mirrors it ...
LEMMA ClosureMirrors ==
  ASSUME NEW up \in Parents, Acyclic(up)
  PROVE  Mirrors(Closure(up), up)
<1>0. None \notin Account /\ Depth = 1..Height /\ Height \in Nat
  BY TreeAssumption, HeightNat
<1>1. RowsOf(Closure(up))
  <2>1. ASSUME NEW a \in Account, NEW l \in Depth, SuperiorAt(up, a, l) # None
        PROVE  Row(SuperiorAt(up, a, l), a, l)
                 \in [superior : Account, subordinate : Account, level : Generation]
    <3>1. SuperiorAt(up, a, l) \in Account /\ l \in Generation
      BY <1>0, <2>1, SuperiorType DEF Generation
    <3>2. QED
      BY <3>1 DEF Row
  <2>2. QED
    BY <2>1 DEF Closure, RowsOf
<1>2. Direct(Closure(up), up)
  <2>1. ASSUME NEW s \in Account, NEW a \in Account
        PROVE  Row(s, a, 1) \in Closure(up) <=> up[a] = s
    <3>1. 1 \in Depth
      <4>1. Account # {}
        BY <2>1
      <4>2. Height # 0
        BY <4>1, AccountsFinite, FS_EmptySet DEF Height
      <4>3. QED
        BY <1>0, <4>2
    <3>2. PICK z \in Nat : z = 0 /\ z < Height
      BY <1>0, <3>1
    <3>3. SuperiorAt(up, a, z + 1) = Above(up, SuperiorAt(up, a, z))
      <4>1. z < Height
        BY <3>2
      <4>2. QED
        BY <4>1, Climb
    <3>4. SuperiorAt(up, a, z) = a
      BY <3>2, Climb
    <3>5. SuperiorAt(up, a, 1) = up[a]
      BY <1>0, <3>2, <3>3, <3>4 DEF Above
    <3>6. QED
      BY <1>0, <3>1, <3>5, ClosureRows
  <2>2. QED
    BY <2>1 DEF Direct
<1>3. Indirect(Closure(up), up)
  <2>1. ASSUME NEW s \in Account, NEW a \in Account, NEW l \in Generation
        PROVE  Row(s, a, l + 1) \in Closure(up)
                 <=> up[a] \in Account /\ Row(s, up[a], l) \in Closure(up)
    <3>1. up[a] \in Account \cup {None} /\ l \in Nat /\ l # 0 /\ s # None
      BY <1>0 DEF Parents, Generation
    <3>2. CASE l < Height
      <4>1. l \in Depth /\ l + 1 \in Depth
        BY <1>0, <3>1, <3>2
      <4>2. SuperiorAt(up, a, l + 1) = SuperiorAt(up, up[a], l)
        BY <3>1, <3>2, ClimbFromParent
      <4>3. Row(s, a, l + 1) \in Closure(up) <=> SuperiorAt(up, up[a], l) = s
        BY <3>1, <4>1, <4>2, ClosureRows
      <4>4. CASE up[a] = None
        <5>1. SuperiorAt(up, None, l) = None
          BY <1>0, <3>1, <3>2, NoneAboveNone
        <5>2. QED
          BY <1>0, <3>1, <4>3, <4>4, <5>1
      <4>5. CASE up[a] \in Account
        BY <3>1, <4>1, <4>3, <4>5, ClosureRows
      <4>6. QED
        BY <3>1, <4>4, <4>5
    <3>3. CASE l = Height
      <4>1. l + 1 \notin Depth
        BY <1>0, <3>3
      <4>2. ASSUME up[a] \in Account PROVE SuperiorAt(up, up[a], l) = None
        BY <3>3, <4>2, WayUpEnds
      <4>3. QED
        BY <3>1, <4>1, <4>2, ClosureRows
    <3>4. CASE l > Height
      <4>1. l + 1 \notin Depth /\ l \notin Depth
        BY <1>0, <3>1, <3>4
      <4>2. QED
        BY <4>1, ClosureRows
    <3>5. QED
      BY <1>0, <3>1, <3>2, <3>3, <3>4
  <2>2. QED
    BY <2>1 DEF Indirect
<1>4. NoLoop(Closure(up))
  BY ClosureRows DEF NoLoop, Acyclic
<1>5. QED
  BY <1>1, <1>2, <1>3, <1>4 DEF Mirrors

\* ... no other rows do ...
LEMMA MirrorUnique ==
  ASSUME NEW up \in Parents, NEW R, NEW Q, Mirrors(R, up), Mirrors(Q, up)
  PROVE  R = Q
<1> DEFINE S == {n \in Nat : \A s, a \in Account : Row(s, a, n + 1) \in R <=> Row(s, a, n + 1) \in Q}
<1>1. 0 \in S
  <2>1. \A s, a \in Account : Row(s, a, 1) \in R <=> Row(s, a, 1) \in Q
    BY DEF Mirrors, Direct
  <2>2. QED
    BY <2>1
<1>2. ASSUME NEW n \in Nat, n \in S PROVE n + 1 \in S
  <2>1. PICK l \in Generation : l = n + 1
    BY DEF Generation
  <2>2. \A s, a \in Account : Row(s, a, l) \in R <=> Row(s, a, l) \in Q
    BY <1>2, <2>1
  <2>3. \A s, a \in Account : Row(s, a, l + 1) \in R <=> Row(s, a, l + 1) \in Q
    BY <2>2 DEF Mirrors, Indirect
  <2>4. QED
    BY <2>1, <2>3
<1>3. Nat \subseteq S
  <2> HIDE DEF S
  <2>1. QED
    BY <1>1, <1>2, CountingUp
<1>4. ASSUME NEW s \in Account, NEW a \in Account, NEW l \in Generation
      PROVE  Row(s, a, l) \in R <=> Row(s, a, l) \in Q
  <2>1. PICK n \in Nat : l = n + 1
    <3>1. l - 1 \in Nat /\ l = (l - 1) + 1
      BY DEF Generation
    <3>2. QED
      BY <3>1
  <2>2. n \in S
    BY <1>3
  <2>3. QED
    BY <2>1, <2>2
<1>5. ASSUME NEW r \in [superior : Account, subordinate : Account, level : Generation]
      PROVE  r \in R <=> r \in Q
  <2>1. r = Row(r.superior, r.subordinate, r.level)
    BY <1>5 DEF Row
  <2>2. r.superior \in Account /\ r.subordinate \in Account /\ r.level \in Generation
    BY <1>5
  <2> HIDE DEF S
  <2>3. QED
    BY <1>4, <2>1, <2>2
<1>6. QED
  BY <1>5 DEF Mirrors, RowsOf

\* ... and links that rows mirror are those of a forest.
LEMMA MirroredAcyclic ==
  ASSUME NEW up \in Parents, NEW R, Mirrors(R, up)
  PROVE  Acyclic(up)
<1> DEFINE S == {k \in Nat : k < Height =>
                   \A a, s \in Account : SuperiorAt(up, a, k + 1) = s => Row(s, a, k + 1) \in R}
<1>0. None \notin Account /\ Depth = 1..Height /\ Height \in Nat
  BY TreeAssumption, HeightNat
<1>1. 0 \in S
  <2>1. PICK z \in Nat : z = 0
    OBVIOUS
  <2>2. ASSUME z < Height, NEW a \in Account, NEW s \in Account, SuperiorAt(up, a, z + 1) = s
        PROVE  Row(s, a, 1) \in R
    <3>1. SuperiorAt(up, a, z + 1) = SuperiorAt(up, up[a], z)
      BY <2>2, ClimbFromParent
    <3>2. SuperiorAt(up, up[a], z) = up[a]
      BY <2>1, Climb
    <3>3. QED
      BY <2>2, <3>1, <3>2 DEF Mirrors, Direct
  <2>3. QED
    BY <2>1, <2>2
<1>2. ASSUME NEW k \in Nat, k \in S PROVE k + 1 \in S
  <2>1. PICK m \in Nat : m = k + 1
    OBVIOUS
  <2>2. m \in Generation
    BY <2>1 DEF Generation
  <2>3. ASSUME m < Height, NEW a \in Account, NEW s \in Account, SuperiorAt(up, a, m + 1) = s
        PROVE  Row(s, a, m + 1) \in R
    <3>1. SuperiorAt(up, up[a], m) = s
      BY <2>3, ClimbFromParent
    <3>2. up[a] \in Account
      <4>1. SuperiorAt(up, None, m) = None
        BY <1>0, <2>3, NoneAboveNone
      <4>2. QED
        BY <1>0, <3>1, <4>1 DEF Parents
    <3>3. Row(s, up[a], m) \in R
      BY <1>0, <1>2, <2>1, <2>3, <3>1, <3>2
    <3>4. QED
      BY <2>2, <3>2, <3>3 DEF Mirrors, Indirect
  <2>4. QED
    BY <2>1, <2>3
<1>3. Nat \subseteq S
  <2> HIDE DEF S
  <2>1. QED
    BY <1>1, <1>2, CountingUp
<1>4. ASSUME NEW a \in Account, NEW l \in Depth, SuperiorAt(up, a, l) = a PROVE FALSE
  <2>1. PICK k \in Nat : l = k + 1 /\ k < Height
    <3>1. l - 1 \in Nat /\ l = (l - 1) + 1 /\ l - 1 < Height
      BY <1>0
    <3>2. QED
      BY <3>1
  <2>2. Row(a, a, k + 1) \in R
    BY <1>3, <1>4, <2>1
  <2>3. QED
    BY <2>1, <2>2 DEF Mirrors, NoLoop, Generation
<1>5. QED
  BY <1>4 DEF Acyclic

LEMMA MirrorIsClosure ==
  ASSUME NEW up \in Parents, NEW R, Mirrors(R, up)
  PROVE  R = Closure(up)
  BY MirroredAcyclic, ClosureMirrors, MirrorUnique

-----------------------------------------------------------------------------
(***************************************************************************)
(* What mirrored rows say of each other.                                   *)
(***************************************************************************)

\* Above a superior at level j an account has the superiors of that superior.
SplitAt(R, j) ==
  \A s, b, x \in Account, i \in Generation :
    Row(b, x, j) \in R => (Row(s, x, j + i) \in R <=> Row(s, b, i) \in R)

OnlyAt(R, j) == \A b, c, x \in Account : Row(b, x, j) \in R /\ Row(c, x, j) \in R => b = c

LEMMA SplitOnly ==
  ASSUME NEW up \in Parents, NEW R, Mirrors(R, up)
  PROVE  \A j \in Generation : SplitAt(R, j) /\ OnlyAt(R, j)
<1> DEFINE S == {n \in Nat : SplitAt(R, n + 1) /\ OnlyAt(R, n + 1)}
<1>1. 0 \in S
  <2>1. SplitAt(R, 1)
    <3>1. ASSUME NEW s \in Account, NEW b \in Account, NEW x \in Account, NEW i \in Generation,
                 Row(b, x, 1) \in R
          PROVE  Row(s, x, 1 + i) \in R <=> Row(s, b, i) \in R
      <4>1. up[x] = b
        BY <3>1 DEF Mirrors, Direct
      <4>2. Row(s, x, i + 1) \in R <=> Row(s, b, i) \in R
        BY <4>1 DEF Mirrors, Indirect
      <4>3. i + 1 = 1 + i
        BY DEF Generation
      <4>4. QED
        BY <4>2, <4>3
    <3>2. QED
      BY <3>1 DEF SplitAt
  <2>2. OnlyAt(R, 1)
    BY DEF OnlyAt, Mirrors, Direct
  <2>3. QED
    BY <2>1, <2>2
<1>2. ASSUME NEW n \in Nat, n \in S PROVE n + 1 \in S
  <2>1. PICK j \in Generation : j = n + 1
    BY DEF Generation
  <2>2. SplitAt(R, j) /\ OnlyAt(R, j)
    BY <1>2, <2>1
  <2>3. SplitAt(R, j + 1)
    <3>1. ASSUME NEW s \in Account, NEW b \in Account, NEW x \in Account, NEW i \in Generation,
                 Row(b, x, j + 1) \in R
          PROVE  Row(s, x, (j + 1) + i) \in R <=> Row(s, b, i) \in R
      <4>1. up[x] \in Account /\ Row(b, up[x], j) \in R
        BY <3>1 DEF Mirrors, Indirect
      <4>2. PICK k \in Generation : k = j + i
        BY DEF Generation
      <4>3. Row(s, x, k + 1) \in R <=> Row(s, up[x], k) \in R
        BY <4>1 DEF Mirrors, Indirect
      <4>4. Row(s, up[x], k) \in R <=> Row(s, b, i) \in R
        BY <2>2, <4>1, <4>2 DEF SplitAt
      <4>5. k + 1 = (j + 1) + i
        BY <4>2 DEF Generation
      <4>6. QED
        BY <4>3, <4>4, <4>5
    <3>2. QED
      BY <3>1 DEF SplitAt
  <2>4. OnlyAt(R, j + 1)
    BY <2>2 DEF OnlyAt, Mirrors, Indirect
  <2>5. QED
    BY <2>1, <2>3, <2>4
<1>3. Nat \subseteq S
  <2> HIDE DEF S
  <2>1. QED
    BY <1>1, <1>2, CountingUp
<1>4. ASSUME NEW j \in Generation PROVE SplitAt(R, j) /\ OnlyAt(R, j)
  <2>1. PICK n \in Nat : j = n + 1
    <3>1. j - 1 \in Nat /\ j = (j - 1) + 1
      BY DEF Generation
    <3>2. QED
      BY <3>1
  <2>2. n \in S
    BY <1>3
  <2>3. QED
    BY <2>1, <2>2
<1>5. QED
  BY <1>4

LEMMA Split ==
  ASSUME NEW up \in Parents, NEW R, Mirrors(R, up),
         NEW s \in Account, NEW b \in Account, NEW x \in Account,
         NEW j \in Generation, NEW i \in Generation, Row(b, x, j) \in R
  PROVE  Row(s, x, j + i) \in R <=> Row(s, b, i) \in R
  BY SplitOnly DEF SplitAt

LEMMA Only ==
  ASSUME NEW up \in Parents, NEW R, Mirrors(R, up),
         NEW b \in Account, NEW c \in Account, NEW x \in Account, NEW j \in Generation,
         Row(b, x, j) \in R, Row(c, x, j) \in R
  PROVE  b = c
  BY SplitOnly DEF OnlyAt

\* A superior has one level.
LEMMA OneSuperiorPerLevel ==
  ASSUME NEW up \in Parents, NEW R, Mirrors(R, up),
         NEW b \in Account, NEW x \in Account, NEW i \in Generation, NEW j \in Generation,
         Row(b, x, i) \in R, Row(b, x, j) \in R
  PROVE  i = j
<1>1. ASSUME NEW k \in Generation, NEW l \in Generation, k < l, Row(b, x, k) \in R, Row(b, x, l) \in R
      PROVE  FALSE
  <2>1. PICK d \in Generation : l = k + d
    <3>1. l - k \in Generation /\ l = k + (l - k)
      BY <1>1 DEF Generation
    <3>2. QED
      BY <3>1
  <2>2. Row(b, b, d) \in R
    BY <1>1, <2>1, Split
  <2>3. QED
    BY <2>2 DEF Mirrors, NoLoop
<1>2. i < j \/ j < i \/ i = j
  BY DEF Generation
<1>3. QED
  BY <1>1, <1>2

-----------------------------------------------------------------------------
(***************************************************************************)
(* An account that comes, and one that goes.                               *)
(***************************************************************************)
Known(R, A) == \A r \in R : r.superior \in A /\ r.subordinate \in A

LEMMA ParentKnown ==
  ASSUME NEW up \in Parents, NEW R, NEW A, Mirrors(R, up), Known(R, A),
         NEW x \in Account, up[x] \in Account
  PROVE  x \in A /\ up[x] \in A
<1>1. Row(up[x], x, 1) \in R
  BY DEF Mirrors, Direct
<1>2. QED
  BY <1>1 DEF Known, Row

LEMMA JoinMirrors ==
  ASSUME NEW up \in Parents, NEW R, NEW A, Mirrors(R, up), Known(R, A),
         NEW a \in Account, a \notin A, NEW b \in A, b \in Account
  PROVE  LET Q == R \cup OwnRows(a, b, {r \in R : r.subordinate = b})
         IN  /\ Mirrors(Q, [up EXCEPT ![a] = b])
             /\ Known(Q, A \cup {a})
<1> DEFINE T == {r \in R : r.subordinate = b}
           O == OwnRows(a, b, T)
           Q == R \cup O
           up2 == [up EXCEPT ![a] = b]
<1>1. /\ a # b
      /\ up2 \in Parents /\ up2[a] = b /\ \A x \in Account : x # a => up2[x] = up[x]
  BY DEF Parents
<1>2. R \subseteq [superior : Account, subordinate : Account, level : Generation]
  BY DEF Mirrors, RowsOf
<1>3. ASSUME NEW r \in T PROVE r = Row(r.superior, b, r.level) /\ r.superior \in Account
                               /\ r.level \in Generation /\ r.superior \in A
  BY <1>2 DEF Row, Known
<1>4. ASSUME NEW s, NEW l \in Generation
      PROVE  Row(s, a, l) \in Q <=> \/ s = b /\ l = 1
                                    \/ \E k \in Generation : l = k + 1 /\ Row(s, b, k) \in R
  <2>1. Row(s, a, l) \notin R
    BY DEF Known, Row
  <2>2. Row(s, a, l) \in O <=> \/ Row(s, a, l) = Row(b, a, 1)
                               \/ \E r \in T : Row(s, a, l) = Row(r.superior, a, r.level + 1)
    BY DEF OwnRows
  <2>3. Row(s, a, l) = Row(b, a, 1) <=> s = b /\ l = 1
    BY DEF Row
  <2>4. (\E r \in T : Row(s, a, l) = Row(r.superior, a, r.level + 1))
          <=> \E k \in Generation : l = k + 1 /\ Row(s, b, k) \in R
    <3>1. ASSUME NEW r \in T, Row(s, a, l) = Row(r.superior, a, r.level + 1)
          PROVE  \E k \in Generation : l = k + 1 /\ Row(s, b, k) \in R
      <4>1. s = r.superior /\ l = r.level + 1
        BY <3>1 DEF Row
      <4>2. QED
        BY <1>3, <4>1
    <3>2. ASSUME NEW k \in Generation, l = k + 1, Row(s, b, k) \in R
          PROVE  \E r \in T : Row(s, a, l) = Row(r.superior, a, r.level + 1)
      <4>1. Row(s, b, k).subordinate = b /\ Row(s, b, k).superior = s /\ Row(s, b, k).level = k
        BY DEF Row
      <4>2. QED
        BY <3>2, <4>1
    <3>3. QED
      BY <3>1, <3>2
  <2>5. QED
    BY <2>1, <2>2, <2>3, <2>4
<1>5. ASSUME NEW x \in Account, x # a, NEW s, NEW l
      PROVE  Row(s, x, l) \in Q <=> Row(s, x, l) \in R
  <2>1. \A r \in O : r.subordinate = a
    BY DEF OwnRows, Row
  <2>2. Row(s, x, l).subordinate = x
    BY DEF Row
  <2>3. QED
    BY <1>5, <2>1, <2>2
<1>6. \A r \in O : /\ r.superior \in Account /\ r.superior \in A /\ r.subordinate = a
                   /\ r.level \in Generation
                   /\ r \in [superior : Account, subordinate : Account, level : Generation]
  BY <1>3 DEF OwnRows, Row, Generation
<1> HIDE DEF O, T
<1>7. RowsOf(Q) /\ Known(Q, A \cup {a})
  BY <1>2, <1>6 DEF RowsOf, Known
<1> HIDE DEF Q, up2
<1>8. Direct(Q, up2)
  <2>1. ASSUME NEW s \in Account, NEW x \in Account PROVE Row(s, x, 1) \in Q <=> up2[x] = s
    <3>1. CASE x = a
      <4>1. 1 \in Generation /\ \A k \in Generation : 1 # k + 1
        BY DEF Generation
      <4>2. QED
        BY <1>1, <1>4, <3>1, <4>1
    <3>2. CASE x # a
      BY <1>1, <1>5, <3>2 DEF Mirrors, Direct
    <3>3. QED
      BY <3>1, <3>2
  <2>2. QED
    BY <2>1 DEF Direct
<1>9. Indirect(Q, up2)
  <2>1. ASSUME NEW s \in Account, NEW x \in Account, NEW l \in Generation
        PROVE  Row(s, x, l + 1) \in Q <=> up2[x] \in Account /\ Row(s, up2[x], l) \in Q
    <3>1. CASE x = a
      <4>1. l + 1 \in Generation /\ l + 1 # 1 /\ \A k \in Generation : l + 1 = k + 1 => k = l
        BY DEF Generation
      <4>2. Row(s, a, l + 1) \in Q <=> Row(s, b, l) \in R
        BY <1>4, <4>1
      <4>3. QED
        BY <1>1, <1>5, <3>1, <4>2
    <3>2. CASE x # a
      <4>1. up[x] \in Account => up[x] # a
        BY ParentKnown
      <4>2. Row(s, x, l + 1) \in R <=> up[x] \in Account /\ Row(s, up[x], l) \in R
        BY DEF Mirrors, Indirect
      <4>3. QED
        BY <1>1, <1>5, <3>2, <4>1, <4>2
    <3>3. QED
      BY <3>1, <3>2
  <2>2. QED
    BY <2>1 DEF Indirect
<1>10. NoLoop(Q)
  <2>1. ASSUME NEW x \in Account, NEW l \in Generation PROVE Row(x, x, l) \notin Q
    <3>1. CASE x = a
      <4>1. \A k : Row(a, b, k) \notin R
        BY DEF Known, Row
      <4>2. QED
        BY <1>1, <1>4, <3>1, <4>1
    <3>2. CASE x # a
      BY <1>5, <3>2 DEF Mirrors, NoLoop
    <3>3. QED
      BY <3>1, <3>2
  <2>2. QED
    BY <2>1 DEF NoLoop
<1>11. QED
  BY <1>7, <1>8, <1>9, <1>10 DEF Mirrors, Q, O, T, up2

LEMMA LeaveMirrors ==
  ASSUME NEW up \in Parents, NEW R, NEW A, Mirrors(R, up), Known(R, A),
         NEW a \in Account, \A r \in R : r.superior # a
  PROVE  LET Q == {r \in R : a \notin {r.superior, r.subordinate}}
         IN  Mirrors(Q, [up EXCEPT ![a] = None]) /\ Known(Q, A \ {a})
<1> DEFINE Q == {r \in R : a \notin {r.superior, r.subordinate}}
           up2 == [up EXCEPT ![a] = None]
<1>1. /\ None \notin Account
      /\ up2 \in Parents /\ up2[a] = None /\ \A x \in Account : x # a => up2[x] = up[x]
  BY TreeAssumption DEF Parents
<1>2. RowsOf(Q) /\ Known(Q, A \ {a})
  BY DEF Mirrors, RowsOf, Known
<1>3. ASSUME NEW s, NEW x, NEW l
      PROVE  Row(s, x, l) \in Q <=> x # a /\ Row(s, x, l) \in R
  BY DEF Row
<1> HIDE DEF Q, up2
<1>4. \A s, x : Row(s, x, 1) \in R => s # a
  BY DEF Row
<1>5. Direct(Q, up2)
  BY <1>1, <1>3 DEF Mirrors, Direct
<1>6. Indirect(Q, up2)
  <2>1. ASSUME NEW s \in Account, NEW x \in Account, NEW l \in Generation
        PROVE  Row(s, x, l + 1) \in Q <=> up2[x] \in Account /\ Row(s, up2[x], l) \in Q
    <3>1. CASE x = a
      BY <1>1, <1>3, <3>1
    <3>2. CASE x # a
      <4>1. up[x] \in Account => up[x] # a
        <5>1. up[x] \in Account => Row(up[x], x, 1) \in R
          BY DEF Mirrors, Direct
        <5>2. QED
          BY <1>4, <5>1
      <4>2. Row(s, x, l + 1) \in R <=> up[x] \in Account /\ Row(s, up[x], l) \in R
        BY DEF Mirrors, Indirect
      <4>3. QED
        BY <1>1, <1>3, <3>2, <4>1, <4>2
    <3>3. QED
      BY <3>1, <3>2
  <2>2. QED
    BY <2>1 DEF Indirect
<1>7. NoLoop(Q)
  BY <1>3 DEF Mirrors, NoLoop
<1>8. QED
  BY <1>2, <1>5, <1>6, <1>7 DEF Mirrors, Q, up2

-----------------------------------------------------------------------------
(***************************************************************************)
(* A move.  An account x of the moved subtree, j levels below its root a,  *)
(* keeps the rows up to a, and above it has those of the new superior.     *)
(***************************************************************************)

\* x is j levels below a, or a itself.
Below(a, x, j) ==
  \/ x = a /\ j = 0
  \/ j \in Generation /\ Row(a, x, j) \in relation

LEMMA SubtreeIs ==
  ASSUME RowsOf(relation), NEW a, NEW x, NEW j
  PROVE  [account |-> x, level |-> j] \in Subtree(a) <=> Below(a, x, j)
<1>1. [account |-> x, level |-> j] \in Subtree(a)
        <=> \/ x = a /\ j = 0
            \/ \E r \in relation : r.superior = a /\ r.subordinate = x /\ r.level = j
  BY DEF Subtree
<1>2. ASSUME NEW r \in relation, r.superior = a, r.subordinate = x, r.level = j
      PROVE  j \in Generation /\ Row(a, x, j) \in relation
  <2>1. r \in [superior : Account, subordinate : Account, level : Generation]
    BY DEF RowsOf
  <2>2. r = Row(r.superior, r.subordinate, r.level) /\ r.level \in Generation
    BY <2>1 DEF Row
  <2>3. QED
    BY <1>2, <2>2
<1>3. ASSUME Row(a, x, j) \in relation
      PROVE  \E r \in relation : r.superior = a /\ r.subordinate = x /\ r.level = j
  BY <1>3 DEF Row
<1>4. QED
  BY <1>1, <1>2, <1>3 DEF Below

LEMMA MovedRows ==
  ASSUME RowsOf(relation), NEW a, NEW b, NEW s, NEW x, NEW l
  PROVE  Row(s, x, l) \in Moved(a, b)
           <=> \/ /\ Row(s, x, l) \in relation
                  /\ ~(/\ \E j : Below(a, x, j)
                       /\ \E k \in Generation : Row(s, a, k) \in relation)
               \/ \E j : Below(a, x, j) /\ \/ s = b /\ l = 1 + j
                                           \/ \E k \in Generation : /\ Row(s, b, k) \in relation
                                                               /\ l = (k + 1) + j
<1>1. relation \subseteq [superior : Account, subordinate : Account, level : Generation]
  BY DEF RowsOf
<1>2. (\E t \in Subtree(a) : t.account = x) <=> \E j : Below(a, x, j)
  <2>1. \A t \in Subtree(a) : t = [account |-> t.account, level |-> t.level]
    BY DEF Subtree
  <2>2. QED
    BY <2>1, SubtreeIs
<1>3. ASSUME NEW c
      PROVE  (\E q \in SuperiorsOf(c) : q.superior = s)
               <=> \E k \in Generation : Row(s, c, k) \in relation
  <2>1. ASSUME NEW q \in relation, q.subordinate = c, q.superior = s
        PROVE  \E k \in Generation : Row(s, c, k) \in relation
    <3>1. q = Row(s, c, q.level) /\ q.level \in Generation
      BY <1>1, <2>1 DEF Row
    <3>2. QED
      BY <3>1
  <2>2. ASSUME NEW k \in Generation, Row(s, c, k) \in relation
        PROVE  \E q \in SuperiorsOf(c) : q.superior = s
    BY <2>2 DEF SuperiorsOf, Row
  <2>3. QED
    BY <2>1, <2>2 DEF SuperiorsOf
<1>4. Row(s, x, l) \in OldLinks(a)
        <=> /\ Row(s, x, l) \in relation
            /\ \E j : Below(a, x, j)
            /\ \E k \in Generation : Row(s, a, k) \in relation
  <2>1. Row(s, x, l) \in OldLinks(a)
          <=> /\ Row(s, x, l) \in relation
              /\ \E t \in Subtree(a) : t.account = x
              /\ \E q \in SuperiorsOf(a) : q.superior = s
    BY DEF OldLinks, Row
  <2>2. QED
    BY <1>2, <1>3, <2>1
<1>5. Row(s, x, l) \in NewLinks(a, b)
        <=> \E j : Below(a, x, j) /\ \/ s = b /\ l = 1 + j
                                     \/ \E k \in Generation : /\ Row(s, b, k) \in relation
                                                         /\ l = (k + 1) + j
  <2>1. Row(s, x, l) \in NewLinks(a, b)
          <=> \E n \in NewAncestors(b), t \in Subtree(a) :
                s = n.account /\ x = t.account /\ l = n.level + t.level
    <3>1. ASSUME Row(s, x, l) \in NewLinks(a, b)
          PROVE  \E n \in NewAncestors(b), t \in Subtree(a) :
                   s = n.account /\ x = t.account /\ l = n.level + t.level
      <4>1. PICK p \in NewAncestors(b) \X Subtree(a) :
              Row(s, x, l) = Row(p[1].account, p[2].account, p[1].level + p[2].level)
        BY <3>1 DEF NewLinks
      <4>2. s = p[1].account /\ x = p[2].account /\ l = p[1].level + p[2].level
        BY <4>1 DEF Row
      <4>3. QED
        BY <4>2
    <3>2. ASSUME NEW n \in NewAncestors(b), NEW t \in Subtree(a),
                 s = n.account, x = t.account, l = n.level + t.level
          PROVE  Row(s, x, l) \in NewLinks(a, b)
      <4>1. <<n, t>> \in NewAncestors(b) \X Subtree(a)
        OBVIOUS
      <4>2. Row(s, x, l) = Row(<<n, t>>[1].account, <<n, t>>[2].account,
                               <<n, t>>[1].level + <<n, t>>[2].level)
        BY <3>2
      <4>3. QED
        BY <4>1, <4>2 DEF NewLinks
    <3>3. QED
      BY <3>1, <3>2
  <2>2. \A t \in Subtree(a) : t = [account |-> t.account, level |-> t.level]
    BY DEF Subtree
  <2>3. ASSUME NEW n \in NewAncestors(b), s = n.account
        PROVE  \/ s = b /\ n.level = 1
               \/ \E k \in Generation : Row(s, b, k) \in relation /\ n.level = k + 1
    <3>1. \/ n = [account |-> b, level |-> 1]
          \/ \E r \in SuperiorsOf(b) : n = [account |-> r.superior, level |-> r.level + 1]
      BY DEF NewAncestors
    <3>2. ASSUME NEW r \in SuperiorsOf(b), n = [account |-> r.superior, level |-> r.level + 1]
          PROVE  \E k \in Generation : Row(s, b, k) \in relation /\ n.level = k + 1
      <4>1. r \in relation /\ r.subordinate = b /\ r.superior = s /\ n.level = r.level + 1
        BY <2>3, <3>2 DEF SuperiorsOf
      <4>2. r = Row(s, b, r.level) /\ r.level \in Generation
        BY <1>1, <4>1 DEF Row
      <4>3. QED
        BY <4>1, <4>2
    <3>3. QED
      BY <2>3, <3>1, <3>2
  <2>4. [account |-> b, level |-> 1] \in NewAncestors(b)
    BY DEF NewAncestors
  <2>5. ASSUME NEW k \in Generation, Row(s, b, k) \in relation
        PROVE  [account |-> s, level |-> k + 1] \in NewAncestors(b)
    <3>1. Row(s, b, k) \in SuperiorsOf(b)
      BY <2>5 DEF SuperiorsOf, Row
    <3>2. Row(s, b, k).superior = s /\ Row(s, b, k).level = k
      BY DEF Row
    <3>3. QED
      BY <3>1, <3>2 DEF NewAncestors
  <2>6. ASSUME NEW n \in NewAncestors(b), NEW t \in Subtree(a),
               s = n.account, x = t.account, l = n.level + t.level
        PROVE  \E j : Below(a, x, j) /\ \/ s = b /\ l = 1 + j
                                        \/ \E k \in Generation : /\ Row(s, b, k) \in relation
                                                            /\ l = (k + 1) + j
    <3>1. Below(a, x, t.level)
      BY <2>2, <2>6, SubtreeIs
    <3>2. \/ s = b /\ n.level = 1
          \/ \E k \in Generation : Row(s, b, k) \in relation /\ n.level = k + 1
      BY <2>3, <2>6
    <3>3. QED
      BY <2>6, <3>1, <3>2
  <2>7. ASSUME NEW j, Below(a, x, j), \/ s = b /\ l = 1 + j
                                      \/ \E k \in Generation : /\ Row(s, b, k) \in relation
                                                          /\ l = (k + 1) + j
        PROVE  \E n \in NewAncestors(b), t \in Subtree(a) :
                 s = n.account /\ x = t.account /\ l = n.level + t.level
    <3>1. PICK t \in Subtree(a) : t.account = x /\ t.level = j
      <4>1. [account |-> x, level |-> j] \in Subtree(a)
        BY <2>7, SubtreeIs
      <4>2. QED
        BY <4>1
    <3>2. PICK n \in NewAncestors(b) : n.account = s /\ l = n.level + j
      BY <2>4, <2>5, <2>7
    <3>3. QED
      BY <3>1, <3>2
  <2>8. QED
    BY <2>1, <2>6, <2>7
<1>6. QED
  BY <1>4, <1>5 DEF Moved

LEMMA BelowOnce ==
  ASSUME parent \in Parents, Mirrors(relation, parent), NEW a \in Account, NEW x \in Account,
         NEW i, NEW j, Below(a, x, i), Below(a, x, j)
  PROVE  i = j
<1>1. \A l \in Generation : Row(a, a, l) \notin relation
  BY DEF Mirrors, NoLoop
<1>2. CASE x = a
  BY <1>1, <1>2 DEF Below
<1>3. CASE x # a
  BY <1>3, OneSuperiorPerLevel DEF Below
<1>4. QED
  BY <1>2, <1>3

\* Below a the superiors of a are those higher up than a.
LEMMA HigherThanRoot ==
  ASSUME parent \in Parents, Mirrors(relation, parent), NEW a \in Account, NEW x \in Account,
         NEW s \in Account, NEW j, Below(a, x, j), NEW l \in Generation, Row(s, x, l) \in relation
  PROVE  (\E k \in Generation : Row(s, a, k) \in relation) <=> l > j
<1>1. CASE x = a
  <2>1. j = 0
    <3>1. Below(a, a, 0)
      BY DEF Below
    <3>2. QED
      BY <1>1, <3>1, BelowOnce
  <2>2. l > j
    BY <2>1 DEF Generation
  <2>3. QED
    BY <1>1, <2>2
<1>2. CASE x # a
  <2>1. j \in Generation /\ Row(a, x, j) \in relation
    BY <1>2 DEF Below
  <2>2. CASE l > j
    <3>1. PICK i \in Generation : l = j + i
      <4>1. l - j \in Generation /\ l = j + (l - j)
        BY <2>1, <2>2 DEF Generation
      <4>2. QED
        BY <4>1
    <3>2. Row(s, a, i) \in relation
      BY <2>1, <3>1, Split
    <3>3. QED
      BY <2>2, <3>2
  <2>3. ASSUME l <= j, NEW k \in Generation, Row(s, a, k) \in relation PROVE FALSE
    <3>1. CASE l = j
      <4>1. s = a
        BY <2>1, <3>1, Only
      <4>2. QED
        BY <2>3, <4>1 DEF Mirrors, NoLoop
    <3>2. CASE l < j
      <4>1. PICK i \in Generation : j = l + i
        <5>1. j - l \in Generation /\ j = l + (j - l)
          BY <2>1, <3>2 DEF Generation
        <5>2. QED
          BY <5>1
      <4>2. Row(a, s, i) \in relation
        BY <2>1, <4>1, Split
      <4>3. Row(a, a, k + i) \in relation
        BY <2>3, <4>2, Split
      <4>4. k + i \in Generation
        BY DEF Generation
      <4>5. QED
        BY <4>3, <4>4 DEF Mirrors, NoLoop
    <3>3. QED
      BY <2>1, <2>3, <3>1, <3>2 DEF Generation
  <2>4. QED
    BY <2>1, <2>2, <2>3 DEF Generation
<1>3. QED
  BY <1>1, <1>2

LEMMA MovedBelow ==
  ASSUME parent \in Parents, Mirrors(relation, parent), NEW a \in Account, NEW b \in Account,
         NEW s \in Account, NEW x \in Account, NEW j, Below(a, x, j), NEW l \in Generation
  PROVE  Row(s, x, l) \in Moved(a, b)
           <=> \/ l <= j /\ Row(s, x, l) \in relation
               \/ s = b /\ l = 1 + j
               \/ \E k \in Generation : Row(s, b, k) \in relation /\ l = (k + 1) + j
<1>1. \A i : Below(a, x, i) <=> i = j
  BY BelowOnce
<1>2. RowsOf(relation) /\ j \in Nat
  BY DEF Mirrors, Below, Generation
<1>3. Row(s, x, l) \in relation =>
        (l <= j <=> ~ \E k \in Generation : Row(s, a, k) \in relation)
  BY <1>2, HigherThanRoot DEF Generation
<1>4. QED
  BY <1>1, <1>2, <1>3, MovedRows

LEMMA MovedElsewhere ==
  ASSUME RowsOf(relation), NEW a, NEW b, NEW s, NEW x, NEW l, \A j : ~Below(a, x, j)
  PROVE  Row(s, x, l) \in Moved(a, b) <=> Row(s, x, l) \in relation
  BY MovedRows

LEMMA MovedRowsOf ==
  ASSUME RowsOf(relation), NEW a \in Account, NEW b \in Account, NEW A, {a, b} \subseteq A,
         Known(relation, A)
  PROVE  RowsOf(Moved(a, b)) /\ Known(Moved(a, b), A)
<1>1. \A r \in relation : /\ r.superior \in Account /\ r.subordinate \in Account
                          /\ r.level \in Generation /\ r.superior \in A /\ r.subordinate \in A
  BY DEF RowsOf, Known
<1>2. \A n \in NewAncestors(b) : n.account \in Account /\ n.account \in A /\ n.level \in Generation
  BY <1>1 DEF NewAncestors, SuperiorsOf, Generation
<1>3. \A t \in Subtree(a) : t.account \in Account /\ t.account \in A /\ t.level \in Nat
  BY <1>1 DEF Subtree, Generation
<1>4. ASSUME NEW n \in NewAncestors(b), NEW t \in Subtree(a)
      PROVE  LET r == Row(n.account, t.account, n.level + t.level)
             IN  /\ r \in [superior : Account, subordinate : Account, level : Generation]
                 /\ r.superior \in A /\ r.subordinate \in A
  <2>1. n.level + t.level \in Generation
    BY <1>2, <1>3 DEF Generation
  <2>2. QED
    BY <1>2, <1>3, <2>1 DEF Row
<1>5. \A r \in NewLinks(a, b) :
        /\ r \in [superior : Account, subordinate : Account, level : Generation]
        /\ r.superior \in A /\ r.subordinate \in A
  BY <1>4 DEF NewLinks
<1>6. QED
  BY <1>5 DEF RowsOf, Known, Moved

LEMMA MoveMirrors ==
  ASSUME parent \in Parents, Mirrors(relation, parent), NEW a \in Account, NEW b \in Account,
         a # b, NotBelow(a, b), NEW A, {a, b} \subseteq A, Known(relation, A)
  PROVE  /\ Mirrors(Moved(a, b), [parent EXCEPT ![a] = b])
         /\ Known(Moved(a, b), A)
<1> DEFINE Q == Moved(a, b)
           up == [parent EXCEPT ![a] = b]
           Outside(x) == \A j : ~Below(a, x, j)
<1>1. up \in Parents /\ up[a] = b /\ \A x \in Account : x # a => up[x] = parent[x]
  BY DEF Parents
<1>2. RowsOf(relation) /\ Direct(relation, parent) /\ Indirect(relation, parent)
      /\ NoLoop(relation)
  BY DEF Mirrors
<1>3. RowsOf(Q) /\ Known(Q, A)
  BY <1>2, MovedRowsOf
<1>4. \A l : Row(a, b, l) \notin relation
  BY DEF NotBelow, Row
<1>5. Outside(b)
  BY <1>4 DEF Below
<1>6. ASSUME NEW x \in Account, Outside(x), NEW s, NEW l
      PROVE  Row(s, x, l) \in Q <=> Row(s, x, l) \in relation
  BY <1>2, <1>6, MovedElsewhere
<1>7. ASSUME NEW s \in Account, NEW x \in Account, NEW j, Below(a, x, j), NEW l \in Generation
      PROVE  Row(s, x, l) \in Q
               <=> \/ l <= j /\ Row(s, x, l) \in relation
                   \/ s = b /\ l = 1 + j
                   \/ \E k \in Generation : Row(s, b, k) \in relation /\ l = (k + 1) + j
  BY <1>7, MovedBelow
<1>8. Below(a, a, 0)
  BY DEF Below
<1>9. \A x, j : Below(a, x, j) => j \in Nat
  BY DEF Below, Generation
\* Inside and outside the subtree the parent is inside and outside with its child.
<1>10. ASSUME NEW x \in Account, NEW j \in Nat, Below(a, x, j + 1)
       PROVE  x # a /\ parent[x] \in Account /\ Below(a, parent[x], j)
  <2>1. j + 1 \in Generation /\ j + 1 # 0 /\ Row(a, x, j + 1) \in relation
    BY <1>10 DEF Below
  <2>2. x # a
    BY <1>2, <2>1 DEF NoLoop
  <2>3. CASE j = 0
    BY <1>2, <1>8, <2>1, <2>2, <2>3 DEF Direct
  <2>4. CASE j # 0
    <3>1. j \in Generation
      BY <2>4 DEF Generation
    <3>2. QED
      BY <1>2, <2>1, <2>2, <3>1 DEF Indirect, Below
  <2>5. QED
    BY <2>3, <2>4
<1>11. ASSUME NEW x \in Account, Outside(x), parent[x] \in Account
       PROVE  Outside(parent[x])
  <2>1. SUFFICES ASSUME NEW j, Below(a, parent[x], j) PROVE FALSE
    OBVIOUS
  <2>2. CASE j = 0 /\ parent[x] = a
    <3>1. Row(a, x, 1) \in relation /\ 1 \in Generation
      BY <1>2, <2>2 DEF Direct, Generation
    <3>2. QED
      BY <1>11, <3>1 DEF Below
  <2>3. CASE j \in Generation /\ Row(a, parent[x], j) \in relation
    <3>1. Row(a, x, j + 1) \in relation /\ j + 1 \in Generation
      BY <1>2, <1>11, <2>3 DEF Indirect, Generation
    <3>2. QED
      BY <1>11, <3>1 DEF Below
  <2>4. QED
    BY <2>1, <2>2, <2>3 DEF Below
<1>12. \A x \in Account : \/ Outside(x)
                          \/ x = a
                          \/ \E j \in Nat : Below(a, x, j + 1)
  <2>1. ASSUME NEW j \in Generation PROVE \E i \in Nat : j = i + 1
    <3>1. j - 1 \in Nat /\ j = (j - 1) + 1
      BY DEF Generation
    <3>2. QED
      BY <3>1
  <2>2. QED
    BY <2>1 DEF Below
<1> HIDE DEF Q, up, Outside
<1>13. \A x \in Account : Outside(x) => x # a
  BY <1>8 DEF Outside
<1>14. Direct(Q, up)
  <2>1. ASSUME NEW s \in Account, NEW x \in Account PROVE Row(s, x, 1) \in Q <=> up[x] = s
    <3>0. 1 \in Generation
      BY DEF Generation
    <3>1. CASE Outside(x)
      BY <1>1, <1>2, <1>6, <1>13, <3>1 DEF Direct
    <3>2. CASE x = a
      <4>1. Row(s, a, 1) \in Q
              <=> \/ 1 <= 0 /\ Row(s, a, 1) \in relation
                  \/ s = b /\ 1 = 1 + 0
                  \/ \E k \in Generation : Row(s, b, k) \in relation /\ 1 = (k + 1) + 0
        BY <1>7, <1>8, <3>0
      <4>2. \A k \in Generation : 1 # (k + 1) + 0
        BY DEF Generation
      <4>3. QED
        BY <1>1, <3>2, <4>1, <4>2
    <3>3. ASSUME NEW j \in Nat, Below(a, x, j + 1) PROVE Row(s, x, 1) \in Q <=> up[x] = s
      <4>1. Row(s, x, 1) \in Q
              <=> \/ 1 <= j + 1 /\ Row(s, x, 1) \in relation
                  \/ s = b /\ 1 = 1 + (j + 1)
                  \/ \E k \in Generation : Row(s, b, k) \in relation /\ 1 = (k + 1) + (j + 1)
        BY <1>7, <3>0, <3>3
      <4>2. 1 <= j + 1 /\ 1 # 1 + (j + 1) /\ \A k \in Generation : 1 # (k + 1) + (j + 1)
        BY DEF Generation
      <4>3. up[x] = parent[x]
        BY <1>1, <1>10, <3>3
      <4>4. QED
        BY <1>2, <4>1, <4>2, <4>3 DEF Direct
    <3>4. QED
      BY <1>12, <3>1, <3>2, <3>3
  <2>2. QED
    BY <2>1 DEF Direct
<1>15. Indirect(Q, up)
  <2>1. ASSUME NEW s \in Account, NEW x \in Account, NEW l \in Generation
        PROVE  Row(s, x, l + 1) \in Q <=> up[x] \in Account /\ Row(s, up[x], l) \in Q
    <3>0. l + 1 \in Generation
      BY DEF Generation
    <3>1. CASE Outside(x)
      <4>1. up[x] = parent[x]
        BY <1>1, <1>13, <3>1
      <4>2. Row(s, x, l + 1) \in relation
              <=> parent[x] \in Account /\ Row(s, parent[x], l) \in relation
        BY <1>2 DEF Indirect
      <4>3. QED
        BY <1>6, <1>11, <3>1, <4>1, <4>2
    <3>2. CASE x = a
      <4>1. Row(s, a, l + 1) \in Q
              <=> \/ l + 1 <= 0 /\ Row(s, a, l + 1) \in relation
                  \/ s = b /\ l + 1 = 1 + 0
                  \/ \E k \in Generation : Row(s, b, k) \in relation /\ l + 1 = (k + 1) + 0
        BY <1>7, <1>8, <3>0
      <4>2. ~(l + 1 <= 0) /\ l + 1 # 1 + 0 /\ \A k \in Generation : l + 1 = (k + 1) + 0 <=> k = l
        BY DEF Generation
      <4>3. Row(s, a, l + 1) \in Q <=> Row(s, b, l) \in relation
        BY <4>1, <4>2
      <4>4. QED
        BY <1>1, <1>5, <1>6, <3>2, <4>3
    <3>3. ASSUME NEW j \in Nat, Below(a, x, j + 1)
          PROVE  Row(s, x, l + 1) \in Q <=> up[x] \in Account /\ Row(s, up[x], l) \in Q
      <4>1. x # a /\ parent[x] \in Account /\ Below(a, parent[x], j) /\ up[x] = parent[x]
        BY <1>1, <1>10, <3>3
      <4>2. Row(s, x, l + 1) \in Q
              <=> \/ l + 1 <= j + 1 /\ Row(s, x, l + 1) \in relation
                  \/ s = b /\ l + 1 = 1 + (j + 1)
                  \/ \E k \in Generation : Row(s, b, k) \in relation /\ l + 1 = (k + 1) + (j + 1)
        BY <1>7, <3>0, <3>3
      <4>3. Row(s, parent[x], l) \in Q
              <=> \/ l <= j /\ Row(s, parent[x], l) \in relation
                  \/ s = b /\ l = 1 + j
                  \/ \E k \in Generation : Row(s, b, k) \in relation /\ l = (k + 1) + j
        BY <1>7, <4>1
      <4>4. /\ l + 1 <= j + 1 <=> l <= j
            /\ l + 1 = 1 + (j + 1) <=> l = 1 + j
            /\ \A k \in Generation : l + 1 = (k + 1) + (j + 1) <=> l = (k + 1) + j
        BY DEF Generation
      <4>5. Row(s, x, l + 1) \in relation <=> Row(s, parent[x], l) \in relation
        BY <1>2, <4>1 DEF Indirect
      <4>6. QED
        BY <4>1, <4>2, <4>3, <4>4, <4>5
    <3>4. QED
      BY <1>12, <3>1, <3>2, <3>3
  <2>2. QED
    BY <2>1 DEF Indirect
<1>16. NoLoop(Q)
  <2>1. ASSUME NEW x \in Account, NEW l \in Generation, Row(x, x, l) \in Q PROVE FALSE
    <3>1. CASE Outside(x)
      BY <1>2, <1>6, <2>1, <3>1 DEF NoLoop
    <3>2. ASSUME NEW j, Below(a, x, j) PROVE FALSE
      <4>1. \/ l <= j /\ Row(x, x, l) \in relation
            \/ x = b /\ l = 1 + j
            \/ \E k \in Generation : Row(x, b, k) \in relation /\ l = (k + 1) + j
        BY <1>7, <2>1, <3>2
      <4>2. Row(x, x, l) \notin relation
        BY <1>2 DEF NoLoop
      <4>3. x # b
        BY <1>5, <3>2 DEF Outside
      <4>4. PICK k \in Generation : Row(x, b, k) \in relation
        BY <4>1, <4>2, <4>3
      <4>5. CASE x = a
        BY <1>4, <4>4, <4>5
      <4>6. CASE j \in Generation /\ Row(a, x, j) \in relation
        <5>1. Row(a, b, k + j) \in relation
          BY <4>4, <4>6, Split
        <5>2. QED
          BY <1>4, <5>1
      <4>7. QED
        BY <3>2, <4>5, <4>6 DEF Below
    <3>3. QED
      BY <3>1, <3>2 DEF Outside
  <2>2. QED
    BY <2>1 DEF NoLoop
<1>17. QED
  BY <1>3, <1>14, <1>15, <1>16 DEF Mirrors, Q, up

-----------------------------------------------------------------------------
(***************************************************************************)
(* The invariant.  A registration that has read the superiors of its       *)
(* recommender still knows them all when it inserts, unless the recommender *)
(* was deleted.                                                            *)
(***************************************************************************)
Reading(c) == create[c].pc = "read"

Registering ==
  /\ DOMAIN create = Creator
  /\ \A c \in Creator : Reading(c) =>
       /\ move.pc # "locked"
       /\ create[c].account \in Account \ account
       /\ create[c].recommender \in Account \ {create[c].account}
       /\ create[c].recommender \in account
            => create[c].superiors = SuperiorsOf(create[c].recommender)
       /\ \A d \in Creator : d # c /\ Reading(d)
            => create[d].account \notin {create[c].account, create[c].recommender}

TreeInv ==
  /\ account \subseteq Account
  /\ parent \in Parents
  /\ Mirrors(relation, parent)
  /\ Known(relation, account)
  /\ move.pc = "locked" => move.account # move.superior
  /\ Registering

LEMMA TreeInit == Init => TreeInv
<1> SUFFICES ASSUME Init PROVE TreeInv
  OBVIOUS
<1>1. /\ account = DOMAIN InitParent /\ parent = InitUp /\ relation = Closure(InitUp)
      /\ create = [c \in Creator |-> NoCreate] /\ move = NoMove
  BY DEF Init
<1>2. account \subseteq Account /\ None \notin Account
  BY <1>1, TreeAssumption
<1>3. /\ InitUp \in Parents
      /\ \A x \in account : InitUp[x] \in account \cup {None}
      /\ \A x \in Account \ account : InitUp[x] = None
  BY <1>1, TreeAssumption DEF InitUp, Parents
<1>4. Mirrors(Closure(InitUp), InitUp)
  BY <1>3, ForestAssumption, ClosureMirrors DEF Acyclic
<1>5. Known(Closure(InitUp), account)
  <2>1. ASSUME NEW r \in Closure(InitUp) PROVE r.superior \in account /\ r.subordinate \in account
    <3>1. r \in [superior : Account, subordinate : Account, level : Generation]
      BY <1>4 DEF Mirrors, RowsOf
    <3>2. PICK s \in Account, a \in Account, l \in Generation :
            r = Row(s, a, l) /\ s = r.superior /\ a = r.subordinate
      BY <3>1 DEF Row
    <3>3. l \in Depth /\ s # None /\ SuperiorAt(InitUp, a, l) = s
      BY <1>3, <2>1, <3>2, ClosureRows
    <3>4. l \in 0..Height /\ l - 1 \in Nat /\ l - 1 < Height /\ (l - 1) + 1 = l
      BY <3>3, HeightNat
    <3>5. CASE a \in account
      <4>1. s \in account \cup {None}
        BY <1>3, <3>3, <3>4, <3>5, SuperiorWithin
      <4>2. QED
        BY <3>2, <3>3, <3>5, <4>1
    <3>6. CASE a \notin account
      <4>1. PICK k \in Nat : l = k + 1 /\ k < Height
        BY <3>4
      <4>2. SuperiorAt(InitUp, a, k + 1) = SuperiorAt(InitUp, InitUp[a], k)
        <5>1. k < Height
          BY <4>1
        <5>2. QED
          BY <1>3, <5>1, ClimbFromParent
      <4>3. InitUp[a] = None
        BY <1>3, <3>6
      <4>4. SuperiorAt(InitUp, None, k) = None
        BY <4>1, HeightNat, NoneAboveNone
      <4>5. QED
        BY <3>3, <4>1, <4>2, <4>3, <4>4
    <3>7. QED
      BY <3>5, <3>6
  <2>2. QED
    BY <2>1 DEF Known
<1>6. Registering /\ move.pc # "locked"
  BY <1>1 DEF Registering, Reading, NoCreate, NoMove
<1>7. QED
  BY <1>1, <1>2, <1>3, <1>4, <1>5, <1>6 DEF TreeInv

LEMMA TreeKept ==
  ASSUME TreeInv, UNCHANGED <<account, relation, parent, create, move>>
  PROVE  TreeInv'
  BY DEF TreeInv, Registering, Reading, SuperiorsOf

LEMMA TreeCreateRead ==
  ASSUME TreeInv, NEW c \in Creator, NEW a \in Account, NEW b \in Account, CreateRead(c, a, b)
  PROVE  TreeInv'
<1>1. /\ a \notin account /\ b \in account /\ move.pc # "locked"
      /\ \A d \in Creator : Reading(d) => a \notin {create[d].account, create[d].recommender}
      /\ create' = [create EXCEPT ![c] = [pc |-> "read", account |-> a, recommender |-> b,
                                          superiors |-> SuperiorsOf(b)]]
      /\ UNCHANGED <<account, relation, parent, move>>
  BY DEF CreateRead, RelationReadable, Reading
<1>2. Registering
  BY DEF TreeInv
<1>3. /\ DOMAIN create' = Creator
      /\ create'[c] = [pc |-> "read", account |-> a, recommender |-> b,
                       superiors |-> SuperiorsOf(b)]
      /\ \A d \in Creator : d # c => create'[d] = create[d]
  BY <1>1, <1>2 DEF Registering
<1>4. \A d : SuperiorsOf(d)' = SuperiorsOf(d)
  BY <1>1 DEF SuperiorsOf
<1>5. ASSUME NEW d \in Creator, Reading(d)'
      PROVE  /\ move'.pc # "locked"
             /\ create'[d].account \in Account \ account'
             /\ create'[d].recommender \in Account \ {create'[d].account}
             /\ create'[d].recommender \in account'
                  => create'[d].superiors = {r \in relation' : r.subordinate = create'[d].recommender}
             /\ \A e \in Creator : e # d /\ Reading(e)'
                  => create'[e].account \notin {create'[d].account, create'[d].recommender}
  <2>1. CASE d = c
    <3>1. a # b
      BY <1>1
    <3>2. ASSUME NEW e \in Creator, e # d, Reading(e)'
          PROVE  create'[e].account \notin {a, b}
      <4>1. create'[e] = create[e] /\ Reading(e)
        BY <1>3, <2>1, <3>2 DEF Reading
      <4>2. create[e].account \notin account
        BY <1>2, <4>1 DEF Registering
      <4>3. QED
        BY <1>1, <4>1, <4>2
    <3>3. QED
      BY <1>1, <1>3, <2>1, <3>1, <3>2 DEF SuperiorsOf
  <2>2. CASE d # c
    <3>1. create'[d] = create[d] /\ Reading(d)
      BY <1>3, <1>5, <2>2 DEF Reading
    <3>2. ASSUME NEW e \in Creator, e # d, Reading(e)'
          PROVE  create'[e].account \notin {create[d].account, create[d].recommender}
      <4>1. CASE e = c
        BY <1>1, <1>3, <3>1, <4>1
      <4>2. CASE e # c
        BY <1>2, <1>3, <3>1, <3>2, <4>2 DEF Registering, Reading
      <4>3. QED
        BY <4>1, <4>2
    <3>3. QED
      BY <1>1, <1>2, <3>1, <3>2 DEF Registering, SuperiorsOf
  <2>3. QED
    BY <2>1, <2>2
<1>6. Registering'
  BY <1>3, <1>5 DEF Registering, SuperiorsOf
<1>7. QED
  BY <1>1, <1>6 DEF TreeInv

LEMMA TreeCreateInsert ==
  ASSUME TreeInv, NEW c \in Creator, CreateInsert(c)
  PROVE  TreeInv'
<1>1. PICK a, b, T : a = create[c].account /\ b = create[c].recommender
                     /\ T = create[c].superiors
  OBVIOUS
<1>2. /\ Reading(c)
      /\ {r.superior : r \in OwnRows(a, b, T)} \subseteq account
      /\ account' = account \cup {a}
      /\ relation' = relation \cup OwnRows(a, b, T)
      /\ parent' = [parent EXCEPT ![a] = b]
      /\ create' = [create EXCEPT ![c] = NoCreate]
      /\ move' = move
  BY <1>1 DEF CreateInsert, Reading, ForeignKeysHold
<1>3. b \in account
  <2>1. Row(b, a, 1) \in OwnRows(a, b, T) /\ Row(b, a, 1).superior = b
    BY DEF OwnRows, Row
  <2>2. QED
    BY <1>2, <2>1
<1>4. /\ a \in Account /\ a \notin account /\ b \in Account /\ T = {r \in relation : r.subordinate = b}
      /\ Registering /\ account \subseteq Account
  BY <1>1, <1>2, <1>3 DEF TreeInv, Registering, SuperiorsOf
<1>5. Mirrors(relation', parent') /\ Known(relation', account')
  <2>1. parent \in Parents /\ Mirrors(relation, parent) /\ Known(relation, account)
    BY DEF TreeInv
  <2>2. QED
    BY <1>2, <1>3, <1>4, <2>1, JoinMirrors
<1>6. parent' \in Parents
  BY <1>2, <1>4 DEF TreeInv, Parents
<1>7. /\ DOMAIN create' = Creator
      /\ \A d \in Creator : Reading(d)' => d # c /\ create'[d] = create[d] /\ Reading(d)
  BY <1>2, <1>4 DEF Registering, Reading, NoCreate
<1>8. ASSUME NEW x \in Account, x # a PROVE SuperiorsOf(x)' = SuperiorsOf(x)
  <2>1. \A r \in OwnRows(a, b, T) : r.subordinate = a
    BY DEF OwnRows, Row
  <2>2. QED
    BY <1>2, <1>8, <2>1 DEF SuperiorsOf
<1>9. Registering'
  <2>1. ASSUME NEW d \in Creator, Reading(d)'
        PROVE  /\ move'.pc # "locked"
               /\ create'[d].account \in Account \ account'
               /\ create'[d].recommender \in Account \ {create'[d].account}
               /\ create'[d].recommender \in account'
                    => create'[d].superiors = (SuperiorsOf(create[d].recommender))'
               /\ create'[d].recommender = create[d].recommender
               /\ \A e \in Creator : e # d /\ Reading(e)'
                    => create'[e].account \notin {create'[d].account, create'[d].recommender}
    <3>1. d # c /\ create'[d] = create[d] /\ Reading(d)
      BY <1>7, <2>1
    <3>2. /\ move.pc # "locked"
          /\ create[d].account \in Account \ account
          /\ create[d].recommender \in Account \ {create[d].account}
          /\ create[d].recommender \in account
               => create[d].superiors = SuperiorsOf(create[d].recommender)
          /\ \A e \in Creator : e # d /\ Reading(e)
               => create[e].account \notin {create[d].account, create[d].recommender}
      BY <1>4, <3>1 DEF Registering
    <3>3. create[d].account # a /\ create[d].recommender # a
      <4>1. c # d /\ Reading(c)
        BY <1>2, <3>1
      <4>2. QED
        BY <1>1, <3>2, <4>1
    <3>4. SuperiorsOf(create[d].recommender)' = SuperiorsOf(create[d].recommender)
      BY <1>2, <1>8, <3>1, <3>2, <3>3 DEF SuperiorsOf
    <3>5. QED
      BY <1>2, <1>7, <3>1, <3>2, <3>3, <3>4
  <2>2. QED
    BY <1>7, <2>1 DEF Registering, SuperiorsOf
<1>10. QED
  BY <1>2, <1>4, <1>5, <1>6, <1>9 DEF TreeInv

LEMMA TreeCreateFail ==
  ASSUME TreeInv, NEW c \in Creator, CreateFail(c)
  PROVE  TreeInv'
<1>1. /\ create' = [create EXCEPT ![c] = NoCreate]
      /\ UNCHANGED <<account, relation, parent, move>>
  BY DEF CreateFail
<1>2. Registering
  BY DEF TreeInv
<1>3. /\ DOMAIN create' = Creator
      /\ \A d \in Creator : Reading(d)' => create'[d] = create[d] /\ Reading(d)
  BY <1>1, <1>2 DEF Registering, Reading, NoCreate
<1>4. Registering'
  BY <1>1, <1>2, <1>3 DEF Registering, SuperiorsOf
<1>5. QED
  BY <1>1, <1>4 DEF TreeInv

LEMMA TreeDeleteUser ==
  ASSUME TreeInv, NEW a, DeleteUser(a)
  PROVE  TreeInv'
<1>1. /\ a \in account /\ \A r \in relation : r.superior # a
      /\ account' = account \ {a}
      /\ relation' = {r \in relation : a \notin {r.superior, r.subordinate}}
      /\ parent' = [parent EXCEPT ![a] = None]
      /\ UNCHANGED <<create, move>>
  BY DEF DeleteUser, NoSubordinates
<1>2. /\ a \in Account /\ parent \in Parents /\ Mirrors(relation, parent)
      /\ Known(relation, account) /\ Registering
  BY <1>1 DEF TreeInv
<1>3. Mirrors(relation', parent') /\ Known(relation', account')
  BY <1>1, <1>2, LeaveMirrors
<1>4. account' \subseteq Account /\ parent' \in Parents
  BY <1>1, <1>2 DEF TreeInv, Parents
<1>5. ASSUME NEW x, x # a PROVE SuperiorsOf(x)' = SuperiorsOf(x)
  BY <1>1, <1>5 DEF SuperiorsOf
<1>6. Registering'
  <2>1. ASSUME NEW d \in Creator, Reading(d)
        PROVE  /\ create[d].account \in Account \ account'
               /\ create[d].recommender \in account'
                    => create[d].superiors = (SuperiorsOf(create[d].recommender))'
    BY <1>1, <1>2, <1>5, <2>1 DEF Registering, SuperiorsOf
  <2>2. QED
    BY <1>1, <1>2, <2>1 DEF Registering, Reading, SuperiorsOf
<1>7. QED
  BY <1>1, <1>3, <1>4, <1>6 DEF TreeInv

LEMMA TreeMoveLock ==
  ASSUME TreeInv, NEW a, NEW b, MoveLock(a, b)
  PROVE  TreeInv'
<1>1. /\ a # b /\ \A c \in Creator : ~Reading(c)
      /\ move' = [pc |-> "locked", account |-> a, superior |-> b]
      /\ UNCHANGED <<account, relation, parent, create>>
  BY DEF MoveLock, RelationUnread, Reading
<1>2. move'.account # move'.superior
  BY <1>1
<1>3. Registering'
  BY <1>1 DEF TreeInv, Registering, Reading
<1>4. QED
  BY <1>1, <1>2, <1>3 DEF TreeInv

LEMMA TreeMoveCommit ==
  ASSUME TreeInv, MoveCommit
  PROVE  TreeInv'
<1>1. PICK a, b : a = move.account /\ b = move.superior
  OBVIOUS
<1>2. /\ move.pc = "locked" /\ {a, b} \subseteq account /\ NotBelow(a, b)
      /\ relation' = Moved(a, b) /\ parent' = [parent EXCEPT ![a] = b]
      /\ move' = NoMove /\ UNCHANGED <<account, create>>
  BY <1>1 DEF MoveCommit
<1>3. /\ a # b /\ a \in Account /\ b \in Account /\ parent \in Parents
      /\ Mirrors(relation, parent) /\ Known(relation, account)
  BY <1>1, <1>2 DEF TreeInv
<1>4. Mirrors(relation', parent') /\ Known(relation', account')
  BY <1>2, <1>3, MoveMirrors
<1>5. parent' \in Parents
  BY <1>2, <1>3 DEF Parents
<1>6. Registering'
  BY <1>2 DEF TreeInv, Registering, Reading
<1>7. move'.pc # "locked"
  BY <1>2 DEF NoMove
<1>8. QED
  BY <1>2, <1>4, <1>5, <1>6, <1>7 DEF TreeInv

LEMMA TreeMoveFail ==
  ASSUME TreeInv, MoveFail
  PROVE  TreeInv'
<1>1. move' = NoMove /\ move'.pc # "locked" /\ UNCHANGED <<account, relation, parent, create>>
  BY DEF MoveFail, NoMove
<1>2. Registering'
  BY <1>1 DEF TreeInv, Registering, Reading, SuperiorsOf
<1>3. QED
  BY <1>1, <1>2 DEF TreeInv

LEMMA TreeKeeps == TreeInv /\ [TreeNext]_treeVars => TreeInv'
<1> SUFFICES ASSUME TreeInv, [TreeNext]_treeVars PROVE TreeInv'
  OBVIOUS
<1>1. CASE UNCHANGED treeVars
  BY <1>1, TreeKept DEF treeVars
<1>2. CASE \/ \E a \in Buyer : Purchase(a)
           \/ \E limit \in Threshold : UpdateThreshold(limit)
           \/ SnapshotBegin \/ SnapshotRead \/ SnapshotWrite \/ SnapshotFail
  BY <1>2, TreeKept DEF Purchase, UpdateThreshold, SnapshotBegin, SnapshotRead, SnapshotWrite,
     SnapshotFail
<1>3. CASE Register
  BY <1>3, TreeCreateRead, TreeCreateInsert, TreeCreateFail DEF Register
<1>4. CASE \/ \E a \in Deletable : DeleteUser(a)
           \/ \E a \in Movable, superior \in Account : MoveLock(a, superior)
           \/ MoveCommit \/ MoveFail
  BY <1>4, TreeDeleteUser, TreeMoveLock, TreeMoveCommit, TreeMoveFail
<1>5. QED
  BY <1>1, <1>2, <1>3, <1>4 DEF TreeNext, Administer

LEMMA TreeInvariance == TreeSpec => []TreeInv
  BY TreeInit, TreeKeeps, PTL DEF TreeSpec

\* However registrations overlap with moves and deletions, account_relation is the
\* closure of the parent links: a registration inserts the rows of a chain that
\* is still there, and move_account_subtree cuts and adds exactly the rows of the
\* moved subtree.
THEOREM TableIsClosure == TreeSpec => []ClosureOfParents
<1>1. TreeInv => ClosureOfParents
  BY MirrorIsClosure DEF TreeInv, ClosureOfParents
<1>2. QED
  BY <1>1, TreeInvariance, PTL

-----------------------------------------------------------------------------
(***************************************************************************)
(* The levels.  A ladder says which accounts reach a level: c[1] those     *)
(* with enough selling markets, c[n] those with enough markets in which    *)
(* somebody reaches n - 1.  Both computations of the levels give an        *)
(* account the highest level it reaches on the ladder; the procedure,      *)
(* which only adds to the level below, may do so because whoever reaches a *)
(* level reaches the one below it.                                         *)
(***************************************************************************)
Sells(market, buys, limit, s) == Enough(Selling(market[s], buys, limit))
Meeting(markets, A) == {k \in markets : k \cap A # {}}

Ladder(market, buys, limit, c) ==
  /\ c \in [1..MaxVip -> SUBSET Account]
  /\ c[1] = {s \in Account : Sells(market, buys, limit, s)}
  /\ \A n \in 2..MaxVip : c[n] = {s \in Account : Enough(Meeting(market[s], c[n - 1]))}

\* The markets of a member of a market lie within it.
Nested(market) ==
  /\ market \in [Account -> SUBSET SUBSET Account]
  /\ \A s \in Account : \A k \in market[s] : \A a \in k : \A h \in market[a] : h \subseteq k

LEMMA VipBound == MaxVip \in Nat /\ MaxVip >= 1 /\ MarketsNeeded \in Nat /\ MarketsNeeded >= 1
  BY TreeAssumption

LEMMA EnoughGrows ==
  ASSUME NEW H \in SUBSET SUBSET Account, NEW K \in SUBSET SUBSET Account, H \subseteq K,
         Enough(H)
  PROVE  Enough(K)
<1>1. IsFiniteSet(SUBSET Account)
  BY AccountsFinite, FS_SUBSET
<1>2. IsFiniteSet(K)
  BY <1>1, FS_Subset
<1>3. IsFiniteSet(H) /\ Cardinality(H) <= Cardinality(K)
  BY <1>2, FS_Subset
<1>4. Cardinality(H) \in Nat /\ Cardinality(K) \in Nat
  BY <1>2, <1>3, FS_CardinalityType
<1>5. QED
  BY <1>3, <1>4, VipBound DEF Enough

LEMMA EnoughIsSome ==
  ASSUME NEW H, Enough(H) PROVE H # {}
<1>1. Cardinality({}) = 0
  BY FS_EmptySet
<1>2. QED
  BY <1>1, VipBound DEF Enough

LEMMA LadderStep ==
  ASSUME NEW market, Nested(market), NEW buys \in [Account -> Nat], NEW limit \in Nat,
         NEW c, Ladder(market, buys, limit, c), NEW n \in 1..MaxVip, n + 1 \in 1..MaxVip
  PROVE  c[n + 1] \subseteq c[n]
<1> SUFFICES ASSUME NEW s \in c[n + 1] PROVE s \in c[n]
  OBVIOUS
<1>0. /\ market \in [Account -> SUBSET SUBSET Account]
      /\ n + 1 \in 2..MaxVip /\ (n + 1) - 1 = n /\ n \in Nat /\ 1 \in 1..MaxVip
  BY VipBound DEF Nested
<1>1. s \in Account /\ Enough(Meeting(market[s], c[n]))
  BY <1>0 DEF Ladder
<1>2. Meeting(market[s], c[n]) \subseteq market[s] /\ market[s] \subseteq SUBSET Account
  BY <1>0, <1>1 DEF Meeting
<1>3. CASE n = 1
  <2>1. ASSUME NEW k \in Meeting(market[s], c[n])
        PROVE  k \in Selling(market[s], buys, limit)
    <3>1. PICK b \in Account : b \in k /\ Sells(market, buys, limit, b)
      BY <1>0, <1>3 DEF Meeting, Ladder
    <3>2. PICK h \in market[b] : SumFunctionOnSet(buys, h) >= limit
      BY <3>1, EnoughIsSome DEF Sells, Selling
    <3>3. h \subseteq k /\ k \in market[s] /\ k \subseteq Account
      BY <1>1, <1>2, <3>1, <3>2 DEF Nested
    <3>4. NatOn(buys, k)
      BY <3>3, AccountsFinite, FS_Subset DEF NatOn
    <3>5. NatOn(buys, h) /\ SumFunctionOnSet(buys, h) <= SumFunctionOnSet(buys, k)
      BY <3>3, <3>4, SumWithin
    <3>6. SumFunctionOnSet(buys, h) \in Nat /\ SumFunctionOnSet(buys, k) \in Nat
      BY <3>4, <3>5, SumNat
    <3>7. SumFunctionOnSet(buys, k) >= limit
      BY <3>2, <3>5, <3>6
    <3>8. QED
      BY <3>3, <3>7 DEF Selling
  <2>2. Selling(market[s], buys, limit) \subseteq SUBSET Account
    BY <1>2 DEF Selling
  <2>3. Enough(Selling(market[s], buys, limit))
    BY <1>1, <1>2, <2>1, <2>2, EnoughGrows
  <2>4. QED
    BY <1>1, <1>3, <2>3 DEF Ladder, Sells
<1>4. CASE n # 1
  <2>0. n \in 2..MaxVip
    BY <1>4
  <2>1. ASSUME NEW k \in Meeting(market[s], c[n])
        PROVE  k \in Meeting(market[s], c[n - 1])
    <3>1. PICK b \in Account : b \in k /\ Enough(Meeting(market[b], c[n - 1]))
      BY <2>0 DEF Meeting, Ladder
    <3>2. PICK h \in market[b] : h \cap c[n - 1] # {}
      BY <3>1, EnoughIsSome DEF Meeting
    <3>3. h \subseteq k /\ k \in market[s]
      BY <1>1, <1>2, <3>1, <3>2 DEF Nested
    <3>4. QED
      BY <3>2, <3>3 DEF Meeting
  <2>2. Meeting(market[s], c[n - 1]) \subseteq SUBSET Account
    BY <1>2 DEF Meeting
  <2>3. Enough(Meeting(market[s], c[n - 1]))
    BY <1>1, <1>2, <2>1, <2>2, EnoughGrows
  <2>4. QED
    BY <1>1, <2>0, <2>3 DEF Ladder
<1>5. QED
  BY <1>3, <1>4

LEMMA LadderFalls ==
  ASSUME NEW market, Nested(market), NEW buys \in [Account -> Nat], NEW limit \in Nat,
         NEW c, Ladder(market, buys, limit, c), NEW i \in 1..MaxVip
  PROVE  \A j \in i..MaxVip : c[j] \subseteq c[i]
<1> DEFINE S == {d \in Nat : i + d <= MaxVip => c[i + d] \subseteq c[i]}
<1>1. 0 \in S
  BY VipBound
<1>2. ASSUME NEW d \in Nat, d \in S PROVE d + 1 \in S
  <2>1. SUFFICES ASSUME i + (d + 1) <= MaxVip PROVE c[i + (d + 1)] \subseteq c[i]
    OBVIOUS
  <2>2. PICK n \in 1..MaxVip : n = i + d /\ n + 1 = i + (d + 1) /\ n + 1 \in 1..MaxVip
    BY <2>1, VipBound
  <2>3. c[n + 1] \subseteq c[n]
    <3>1. n + 1 \in 1..MaxVip
      BY <2>2
    <3>2. QED
      BY <3>1, LadderStep
  <2>4. c[n] \subseteq c[i]
    BY <1>2, <2>2, VipBound
  <2>5. QED
    BY <2>2, <2>3, <2>4
<1>3. Nat \subseteq S
  <2> HIDE DEF S
  <2>1. QED
    BY <1>1, <1>2, CountingUp
<1>4. ASSUME NEW j \in i..MaxVip PROVE c[j] \subseteq c[i]
  <2>1. j - i \in Nat /\ i + (j - i) = j /\ j <= MaxVip
    BY VipBound
  <2>2. j - i \in S
    BY <1>3, <2>1
  <2>3. QED
    BY <2>1, <2>2
<1>5. QED
  BY <1>4

-----------------------------------------------------------------------------
(***************************************************************************)
(* recompute_vip_levels.                                                   *)
(***************************************************************************)
Rising(market, n, last) ==
  {s \in Account : last.level[s] < n /\ Enough(Holding(market[s], last.level, n - 1))}

First(market, buys, limit) ==
  [level |-> [s \in Account |-> IF Enough(Selling(market[s], buys, limit)) THEN 1 ELSE 0],
   ended |-> FALSE]

\* A round after the first.
Again(market, n, last) ==
  IF last.ended \/ Rising(market, n, last) = {} THEN [last EXCEPT !.ended = TRUE]
  ELSE [level |-> [s \in Account |-> IF s \in Rising(market, n, last) THEN n ELSE last.level[s]],
        ended |-> FALSE]

Rounds(market, buys, limit, g, m) ==
  g = [n \in 1..m |-> IF n = 1 THEN First(market, buys, limit) ELSE Again(market, n, g[n - 1])]

LEMMA VipIsRounds ==
  ASSUME NEW rel, NEW buys, NEW limit
  PROVE  VipLevels(rel, buys, limit)
           = (CHOOSE g : Rounds(Markets(rel), buys, limit, g, MaxVip))[MaxVip].level
  BY DEF VipLevels, Rounds, First, Again, Rising

LEMMA RoundsExist ==
  ASSUME NEW market, NEW buys, NEW limit
  PROVE  \E g : Rounds(market, buys, limit, g, MaxVip)
<1> DEFINE S == {m \in Nat : \E g : Rounds(market, buys, limit, g, m)}
           f == First(market, buys, limit)
<1>1. 0 \in S
  <2>1. [n \in 1..0 |-> 0]
          = [n \in 1..0 |-> IF n = 1 THEN f ELSE Again(market, n, [i \in 1..0 |-> 0][n - 1])]
    OBVIOUS
  <2>2. QED
    BY <2>1 DEF Rounds
<1>2. ASSUME NEW m \in Nat, m \in S PROVE m + 1 \in S
  <2>1. PICK g : Rounds(market, buys, limit, g, m)
    BY <1>2
  <2> DEFINE top == IF m = 0 THEN f ELSE Again(market, m + 1, g[m])
             h == [n \in 1..(m + 1) |-> IF n = m + 1 THEN top ELSE g[n]]
             Step(n) == IF n = 1 THEN f ELSE Again(market, n, h[n - 1])
  <2>2. ASSUME NEW n \in 1..(m + 1) PROVE h[n] = Step(n)
    <3>1. CASE n = m + 1
      <4>1. n - 1 = m /\ (n = 1 <=> m = 0) /\ (m # 0 => h[m] = g[m])
        BY <3>1
      <4>2. h[n] = top
        BY <3>1
      <4> HIDE DEF h, f
      <4>3. QED
        BY <3>1, <4>1, <4>2
    <3>2. CASE n # m + 1
      <4>1. n \in 1..m /\ h[n] = g[n] /\ (n # 1 => h[n - 1] = g[n - 1])
        BY <3>2
      <4>2. g[n] = IF n = 1 THEN f ELSE Again(market, n, g[n - 1])
        BY <2>1, <4>1 DEF Rounds
      <4> HIDE DEF h, f
      <4>3. QED
        BY <4>1, <4>2
    <3>3. QED
      BY <3>1, <3>2
  <2>3. h = [n \in 1..(m + 1) |-> h[n]]
    OBVIOUS
  <2> HIDE DEF h
  <2>4. h = [n \in 1..(m + 1) |-> Step(n)]
    BY <2>2, <2>3
  <2>5. Rounds(market, buys, limit, h, m + 1)
    BY <2>4 DEF Rounds
  <2>6. QED
    BY <2>5
<1>3. Nat \subseteq S
  <2> HIDE DEF S
  <2>1. QED
    BY <1>1, <1>2, CountingUp
<1>4. QED
  BY <1>3, VipBound

RoundType(n) == [level : [Account -> 0..n], ended : BOOLEAN]

LEMMA FirstTyped ==
  ASSUME NEW market, NEW buys, NEW limit
  PROVE  /\ First(market, buys, limit) \in RoundType(1)
         /\ First(market, buys, limit).ended = FALSE
  BY DEF First, RoundType

LEMMA AgainTyped ==
  ASSUME NEW market, NEW n \in Nat, n >= 1, NEW last \in RoundType(n)
  PROVE  LET next == Again(market, n + 1, last)
         IN  /\ next \in RoundType(n + 1)
             /\ next.ended => \A a \in Account : next.level[a] < n + 1
<1> DEFINE up == Rising(market, n + 1, last)
           next == Again(market, n + 1, last)
           Fine == /\ next \in RoundType(n + 1)
                   /\ next.ended => \A a \in Account : next.level[a] < n + 1
<1>1. last.level \in [Account -> 0..n] /\ last.ended \in BOOLEAN
  BY DEF RoundType
<1>2. \A x \in 0..n : x \in 0..(n + 1) /\ x < n + 1
  OBVIOUS
<1>3. ASSUME last.ended \/ up = {} PROVE Fine
  <2>1. next = [last EXCEPT !.ended = TRUE]
    BY <1>3 DEF Again
  <2> HIDE DEF next, up
  <2>2. next = [level |-> last.level, ended |-> TRUE]
    BY <2>1 DEF RoundType
  <2>3. last.level \in [Account -> 0..(n + 1)]
    BY <1>1, <1>2
  <2>4. next.level = last.level /\ next \in RoundType(n + 1)
    BY <2>2, <2>3 DEF RoundType
  <2>5. \A a \in Account : next.level[a] < n + 1
    BY <1>1, <2>4
  <2>6. QED
    BY <2>4, <2>5
<1>4. ASSUME ~(last.ended \/ up = {}) PROVE Fine
  <2>1. next = [level |-> [s \in Account |-> IF s \in up THEN n + 1 ELSE last.level[s]],
                ended |-> FALSE]
    BY <1>4 DEF Again
  <2> HIDE DEF next, up
  <2>2. [s \in Account |-> IF s \in up THEN n + 1 ELSE last.level[s]] \in [Account -> 0..(n + 1)]
    BY <1>1, <1>2
  <2>3. next \in RoundType(n + 1) /\ next.ended = FALSE
    BY <2>1, <2>2 DEF RoundType
  <2>4. QED
    BY <2>3
<1>5. Fine
  BY <1>3, <1>4
<1>6. QED
  BY <1>5

LEMMA RoundsTyped ==
  ASSUME NEW market, NEW buys, NEW limit, NEW g, Rounds(market, buys, limit, g, MaxVip)
  PROVE  /\ g[1] = First(market, buys, limit)
         /\ \A n \in 1..MaxVip : n + 1 <= MaxVip => g[n + 1] = Again(market, n + 1, g[n])
         /\ \A n \in 1..MaxVip : /\ g[n] \in RoundType(n)
                                 /\ g[n].ended => \A a \in Account : g[n].level[a] < n
<1> DEFINE Fine(n) == /\ g[n] \in RoundType(n)
                      /\ g[n].ended => \A a \in Account : g[n].level[a] < n
           S == {k \in Nat : k + 1 <= MaxVip => Fine(k + 1)}
<1>1. g[1] = First(market, buys, limit)
  BY VipBound DEF Rounds
<1>2. ASSUME NEW n \in 1..MaxVip, n + 1 <= MaxVip PROVE g[n + 1] = Again(market, n + 1, g[n])
  <2>1. n + 1 \in 1..MaxVip /\ n + 1 # 1 /\ (n + 1) - 1 = n
    BY <1>2, VipBound
  <2>2. QED
    BY <2>1 DEF Rounds
<1>3. 0 \in S
  <2>1. Fine(1)
    BY <1>1, FirstTyped
  <2> HIDE DEF Fine
  <2>2. QED
    BY <2>1
<1>4. ASSUME NEW k \in Nat, k \in S PROVE k + 1 \in S
  <2>1. SUFFICES ASSUME (k + 1) + 1 <= MaxVip PROVE Fine((k + 1) + 1)
    <3> HIDE DEF Fine
    <3>1. QED
      OBVIOUS
  <2>2. PICK n \in 1..MaxVip : n = k + 1 /\ n + 1 <= MaxVip /\ n \in Nat /\ n >= 1
    BY <2>1, VipBound
  <2>3. g[n] \in RoundType(n)
    BY <1>4, <2>2
  <2>4. g[n + 1] = Again(market, n + 1, g[n])
    BY <1>2, <2>2
  <2>5. Fine(n + 1)
    BY <2>2, <2>3, <2>4, AgainTyped
  <2> HIDE DEF Fine
  <2>6. QED
    BY <2>2, <2>5
<1>5. Nat \subseteq S
  <2> HIDE DEF S
  <2>1. QED
    BY <1>3, <1>4, CountingUp
<1>6. ASSUME NEW n \in 1..MaxVip PROVE Fine(n)
  <2> HIDE DEF Fine
  <2>1. n - 1 \in Nat /\ (n - 1) + 1 = n /\ n <= MaxVip
    BY VipBound
  <2>2. n - 1 \in S
    BY <1>5, <2>1
  <2>3. QED
    BY <2>1, <2>2
<1>7. QED
  BY <1>1, <1>2, <1>6

\* Who reaches level n in the n-th round.
Reached(g) == [n \in 1..MaxVip |-> {a \in Account : g[n].level[a] >= n}]

\* A round after the n-th, with who had reached n before it and n + 1 after it ...
NextRound(market, n, last, next, below, up) ==
  /\ last \in RoundType(n)
  /\ last.ended => \A a \in Account : last.level[a] < n
  /\ next = Again(market, n + 1, last)
  /\ below = {a \in Account : last.level[a] >= n}
  /\ up = {a \in Account : next.level[a] >= n + 1}

\* ... and what it does.
Raised(market, n, last, next, below, up) ==
  /\ up = {s \in Account : Enough(Meeting(market[s], below))}
  /\ \A a \in Account : a \notin up => next.level[a] = last.level[a]
  /\ \A a \in up : next.level[a] = n + 1

LEMMA AgainReaches ==
  ASSUME NEW market \in [Account -> SUBSET SUBSET Account], NEW n \in Nat, n >= 1,
         NEW last, NEW next, NEW below, NEW up,
         NextRound(market, n, last, next, below, up)
  PROVE  Raised(market, n, last, next, below, up)
<1> USE DEF NextRound, Raised
<1> DEFINE rise == Rising(market, n + 1, last)
<1>1. last.level \in [Account -> 0..n] /\ last.ended \in BOOLEAN
  BY DEF RoundType
<1>2. \A s \in Account : Holding(market[s], last.level, n) = Meeting(market[s], below)
  BY DEF Holding, Meeting
<1>3. rise = {s \in Account : Enough(Meeting(market[s], below))}
  <2>1. \A s \in Account : last.level[s] < n + 1
    BY <1>1
  <2>2. (n + 1) - 1 = n
    OBVIOUS
  <2>3. QED
    BY <1>2, <2>1, <2>2 DEF Rising
<1>4. ASSUME last.ended PROVE rise = {}
  <2>1. below = {}
    BY <1>1, <1>4
  <2>2. \A s : Meeting(market[s], below) = {}
    BY <2>1 DEF Meeting
  <2>3. QED
    BY <1>3, <2>2, EnoughIsSome
<1>5. CASE last.ended \/ rise = {}
  <2>1. next = [last EXCEPT !.ended = TRUE]
    BY <1>5 DEF Again
  <2>2. next.level = last.level
    BY <2>1 DEF RoundType
  <2> HIDE DEF rise
  <2>3. up = {}
    BY <1>1, <2>2
  <2>4. QED
    BY <1>3, <1>4, <1>5, <2>2, <2>3
<1>6. CASE ~(last.ended \/ rise = {})
  <2>1. next.level = [s \in Account |-> IF s \in rise THEN n + 1 ELSE last.level[s]]
    BY <1>6 DEF Again
  <2>2. rise \subseteq Account
    BY DEF Rising
  <2> HIDE DEF rise
  <2>3. \A a \in Account : next.level[a] = IF a \in rise THEN n + 1 ELSE last.level[a]
    BY <2>1
  <2>4. up = rise
    BY <1>1, <2>2, <2>3
  <2>5. QED
    BY <1>3, <2>2, <2>3, <2>4
<1>7. QED
  BY <1>5, <1>6

LEMMA RoundsClimb ==
  ASSUME NEW market, Nested(market), NEW buys \in [Account -> Nat], NEW limit \in Nat,
         NEW g, Rounds(market, buys, limit, g, MaxVip)
  PROVE  /\ Ladder(market, buys, limit, Reached(g))
         /\ \A j \in 1..MaxVip, a \in Account : g[MaxVip].level[a] >= j <=> a \in Reached(g)[j]
<1> DEFINE c == Reached(g)
<1>1. market \in [Account -> SUBSET SUBSET Account]
  BY DEF Nested
<1>2. /\ g[1] = First(market, buys, limit)
      /\ \A n \in 1..MaxVip : n + 1 <= MaxVip => g[n + 1] = Again(market, n + 1, g[n])
      /\ \A n \in 1..MaxVip : /\ g[n] \in RoundType(n)
                              /\ g[n].ended => \A a \in Account : g[n].level[a] < n
  BY RoundsTyped
<1>3. \A n \in 1..MaxVip : c[n] = {a \in Account : g[n].level[a] >= n}
  BY DEF Reached
<1>4. c \in [1..MaxVip -> SUBSET Account]
  BY DEF Reached
<1> HIDE DEF c
<1>5. c[1] = {s \in Account : Sells(market, buys, limit, s)}
  <2>1. c[1] = {a \in Account : First(market, buys, limit).level[a] >= 1}
    BY <1>2, <1>3, VipBound
  <2>2. QED
    BY <2>1 DEF First, Sells
<1>6. ASSUME NEW n \in 1..MaxVip, n + 1 \in 1..MaxVip
      PROVE  /\ c[n + 1] = {s \in Account : Enough(Meeting(market[s], c[n]))}
             /\ \A a \in Account : a \notin c[n + 1] => g[n + 1].level[a] = g[n].level[a]
             /\ \A a \in c[n + 1] : g[n + 1].level[a] = n + 1
  <2>1. /\ n \in Nat /\ n >= 1 /\ n + 1 <= MaxVip
        /\ g[n] \in RoundType(n)
        /\ g[n].ended => \A a \in Account : g[n].level[a] < n
    BY <1>2, <1>6, VipBound
  <2>2. g[n + 1] = Again(market, n + 1, g[n])
    BY <1>2, <2>1
  <2>3. /\ c[n] = {a \in Account : g[n].level[a] >= n}
        /\ c[n + 1] = {a \in Account : g[n + 1].level[a] >= n + 1}
    BY <1>3, <1>6
  <2>4. PICK last, next, below, up :
          last = g[n] /\ next = g[n + 1] /\ below = c[n] /\ up = c[n + 1]
    OBVIOUS
  <2>5. NextRound(market, n, last, next, below, up)
    BY <2>1, <2>2, <2>3, <2>4 DEF NextRound
  <2>6. Raised(market, n, last, next, below, up)
    BY ONLY <1>1, <2>1, <2>5, AgainReaches
  <2>7. QED
    BY ONLY <2>4, <2>6 DEF Raised
<1>7. Ladder(market, buys, limit, c)
  <2>1. ASSUME NEW m \in 2..MaxVip
        PROVE  c[m] = {s \in Account : Enough(Meeting(market[s], c[m - 1]))}
    <3>1. PICK n \in 1..MaxVip : n = m - 1 /\ n + 1 \in 1..MaxVip /\ n + 1 = m
      BY VipBound
    <3>2. n + 1 \in 1..MaxVip
      BY <3>1
    <3>3. QED
      BY <1>6, <3>1, <3>2
  <2>2. QED
    BY <1>4, <1>5, <2>1 DEF Ladder
<1> DEFINE Right(n) == \A j \in 1..n, a \in Account : g[n].level[a] >= j <=> a \in c[j]
           S == {k \in Nat : k + 1 <= MaxVip => Right(k + 1)}
<1>8. 0 \in S
  <2>1. ASSUME NEW j \in 1..1, NEW a \in Account PROVE g[1].level[a] >= j <=> a \in c[j]
    <3>1. j = 1 /\ 1 \in 1..MaxVip
      BY VipBound
    <3>2. QED
      BY <1>3, <3>1
  <2>2. Right(1)
    BY <2>1
  <2> HIDE DEF Right
  <2>3. QED
    BY <2>2
<1>9. ASSUME NEW k \in Nat, k \in S PROVE k + 1 \in S
  <2>1. SUFFICES ASSUME (k + 1) + 1 <= MaxVip PROVE Right((k + 1) + 1)
    <3> HIDE DEF Right
    <3>1. QED
      OBVIOUS
  <2>2. PICK n \in 1..MaxVip : n = k + 1 /\ n + 1 <= MaxVip /\ n + 1 \in 1..MaxVip
    BY <2>1, VipBound
  <2>3. Right(n)
    BY <1>9, <2>2, VipBound
  <2>4. ASSUME NEW j \in 1..(n + 1), NEW a \in Account
        PROVE  g[n + 1].level[a] >= j <=> a \in c[j]
    <3>1. n + 1 \in 1..MaxVip
      BY <2>2
    <3>2. CASE j = n + 1
      BY <1>3, <3>1, <3>2
    <3>3. CASE j # n + 1
      <4>1. j \in 1..n /\ j \in 1..MaxVip /\ j <= n + 1 /\ n + 1 \in j..MaxVip
        BY <2>2, <3>3, VipBound
      <4>2. CASE a \in c[n + 1]
        <5>1. c[n + 1] \subseteq c[j]
          BY <1>7, <4>1, LadderFalls
        <5>2. g[n + 1].level[a] = n + 1
          BY <1>6, <3>1, <4>2
        <5>3. QED
          BY <4>1, <4>2, <5>1, <5>2
      <4>3. CASE a \notin c[n + 1]
        <5>1. g[n + 1].level[a] = g[n].level[a]
          BY <1>6, <3>1, <4>3
        <5>2. QED
          BY <2>3, <4>1, <5>1
      <4>4. QED
        BY <4>2, <4>3
    <3>4. QED
      BY <3>2, <3>3
  <2>5. Right(n + 1)
    BY <2>4
  <2> HIDE DEF Right
  <2>6. QED
    BY <2>2, <2>5
<1>10. Nat \subseteq S
  <2> HIDE DEF S
  <2>1. QED
    BY <1>8, <1>9, CountingUp
<1>11. Right(MaxVip)
  <2> HIDE DEF Right
  <2>1. MaxVip - 1 \in Nat /\ (MaxVip - 1) + 1 = MaxVip
    BY VipBound
  <2>2. MaxVip - 1 \in S
    BY <1>10, <2>1
  <2>3. QED
    BY <2>1, <2>2
<1>12. QED
  BY <1>7, <1>11 DEF c

VipIsLadder(market, buys, limit, level) ==
  \E c : /\ Ladder(market, buys, limit, c)
         /\ \A j \in 1..MaxVip, a \in Account : level[a] >= j <=> a \in c[j]

LEMMA VipClimbs ==
  ASSUME NEW rel, Nested(Markets(rel)), NEW buys \in [Account -> Nat], NEW limit \in Nat
  PROVE  /\ VipLevels(rel, buys, limit) \in [Account -> 0..MaxVip]
         /\ VipIsLadder(Markets(rel), buys, limit, VipLevels(rel, buys, limit))
<1>1. PICK market : market = Markets(rel)
  OBVIOUS
<1>2. PICK g : /\ Rounds(market, buys, limit, g, MaxVip)
               /\ VipLevels(rel, buys, limit) = g[MaxVip].level
  <2>1. \E g : Rounds(market, buys, limit, g, MaxVip)
    BY RoundsExist
  <2>2. VipLevels(rel, buys, limit)
          = (CHOOSE g : Rounds(market, buys, limit, g, MaxVip))[MaxVip].level
    BY <1>1, VipIsRounds
  <2>3. QED
    BY <2>1, <2>2
<1>3. Nested(market)
  BY <1>1
<1>4. /\ Ladder(market, buys, limit, Reached(g))
      /\ \A j \in 1..MaxVip, a \in Account : g[MaxVip].level[a] >= j <=> a \in Reached(g)[j]
  BY <1>2, <1>3, RoundsClimb
<1>5. g[MaxVip] \in RoundType(MaxVip)
  BY <1>2, <1>3, RoundsTyped, VipBound
<1>6. g[MaxVip].level \in [Account -> 0..MaxVip]
  BY <1>5 DEF RoundType
<1>7. VipIsLadder(market, buys, limit, g[MaxVip].level)
  BY <1>4 DEF VipIsLadder
<1>8. QED
  BY <1>1, <1>2, <1>6, <1>7

-----------------------------------------------------------------------------
(***************************************************************************)
(* compute_account_vip_level, from the leaves up.                          *)
(***************************************************************************)

\* The account has a market of this level for every level up to n.
HoldsTo(markets, level, n) == \A k \in 2..n : Enough(Holding(markets, level, k - 1))

LEMMA ComputedLevel ==
  ASSUME NEW markets, NEW buys, NEW limit, NEW level, NEW v,
         v = ComputeAccountVipLevel(markets, buys, limit, level)
  PROVE  /\ v \in 0..MaxVip
         /\ \A k \in 1..MaxVip : v >= k <=> /\ Enough(Selling(markets, buys, limit))
                                            /\ HoldsTo(markets, level, k)
<1> DEFINE E(n) == Enough(Holding(markets, level, n))
           Fit(n) == HoldsTo(markets, level, n) /\ (n < MaxVip => ~E(n))
           S == {n \in Nat : n + 1 <= MaxVip => HoldsTo(markets, level, n + 1)}
<1>1. CASE ~Enough(Selling(markets, buys, limit))
  <2>1. v = 0
    BY <1>1 DEF ComputeAccountVipLevel
  <2>2. QED
    BY <1>1, <2>1, VipBound
<1>2. CASE Enough(Selling(markets, buys, limit))
  <2>1. v = CHOOSE n \in 1..MaxVip : Fit(n)
    BY <1>2 DEF ComputeAccountVipLevel, HoldsTo
  <2>2. \E n \in 1..MaxVip : Fit(n)
    <3>1. SUFFICES ASSUME \A n \in 1..MaxVip : ~Fit(n) PROVE FALSE
      OBVIOUS
    <3>2. HoldsTo(markets, level, 1)
      BY DEF HoldsTo
    <3>3. 0 \in S
      BY <3>2
    <3>4. ASSUME NEW m \in Nat, m \in S PROVE m + 1 \in S
      <4>1. SUFFICES ASSUME (m + 1) + 1 <= MaxVip
                     PROVE  HoldsTo(markets, level, (m + 1) + 1)
        OBVIOUS
      <4>2. PICK n \in 1..MaxVip : n = m + 1 /\ n < MaxVip
        BY <4>1, VipBound
      <4>3. HoldsTo(markets, level, n)
        BY <3>4, <4>2, VipBound
      <4>4. E(n)
        BY <3>1, <4>2, <4>3
      <4>5. ASSUME NEW k \in 2..(n + 1) PROVE E(k - 1)
        <5>1. CASE k = n + 1
          <6>1. k - 1 = n
            BY <5>1
          <6>2. QED
            BY <4>4, <6>1
        <5>2. CASE k # n + 1
          <6>1. k \in 2..n
            BY <5>2
          <6>2. QED
            BY <4>3, <6>1 DEF HoldsTo
        <5>3. QED
          BY <5>1, <5>2
      <4>6. HoldsTo(markets, level, n + 1)
        BY <4>5 DEF HoldsTo
      <4>7. QED
        BY <4>2, <4>6
    <3>5. Nat \subseteq S
      <4> HIDE DEF S
      <4>1. QED
        BY <3>3, <3>4, CountingUp
    <3>6. HoldsTo(markets, level, MaxVip)
      <4>1. MaxVip - 1 \in Nat /\ (MaxVip - 1) + 1 = MaxVip
        BY VipBound
      <4>2. MaxVip - 1 \in S
        BY <3>5, <4>1
      <4>3. QED
        BY <4>1, <4>2
    <3>7. QED
      BY <3>1, <3>6, VipBound
  <2>3. v \in 1..MaxVip /\ Fit(v)
    <3> HIDE DEF Fit
    <3>1. QED
      BY <2>1, <2>2
  <2>4. ASSUME NEW k \in 1..MaxVip, v >= k PROVE HoldsTo(markets, level, k)
    <3>1. \A j \in 2..k : j \in 2..v
      BY <2>3, <2>4
    <3>2. QED
      BY <2>3, <3>1 DEF HoldsTo
  <2>5. ASSUME NEW k \in 1..MaxVip, ~(v >= k), HoldsTo(markets, level, k) PROVE FALSE
    <3>1. v < MaxVip /\ v + 1 \in 2..k /\ (v + 1) - 1 = v
      <4>1. v \in 1..MaxVip
        BY <2>3
      <4>2. QED
        BY ONLY <2>5, <4>1, VipBound
    <3>2. ~E(v)
      BY <2>3, <3>1
    <3>3. E((v + 1) - 1)
      BY <2>5, <3>1 DEF HoldsTo
    <3>4. QED
      BY <3>1, <3>2, <3>3
  <2>6. QED
    BY <1>2, <2>3, <2>4, <2>5
<1>3. QED
  BY <1>1, <1>2

Unknown == [a \in Account |-> 0]
Computed(market, buys, limit, level) ==
  [a \in Account |-> ComputeAccountVipLevel(market[a], buys, limit, level)]

\* f computes the levels from the leaves up to height m.
FromBelow(market, buys, limit, f, m) ==
  f = [n \in 0..m |-> IF n = 0 THEN Unknown ELSE Computed(market, buys, limit, f[n - 1])]

LEMMA BottomUpIs ==
  ASSUME NEW rel, NEW buys, NEW limit
  PROVE  LevelsBottomUp(rel, buys, limit)
           = (CHOOSE f : FromBelow(Markets(rel), buys, limit, f, MaxVip))[MaxVip]
  BY DEF LevelsBottomUp, FromBelow, Unknown, Computed

LEMMA FromBelowExists ==
  ASSUME NEW market, NEW buys, NEW limit
  PROVE  \E f : FromBelow(market, buys, limit, f, MaxVip)
<1> DEFINE S == {m \in Nat : \E f : FromBelow(market, buys, limit, f, m)}
           up(level) == Computed(market, buys, limit, level)
<1>1. 0 \in S
  <2> DEFINE f == [n \in 0..0 |-> Unknown]
  <2>1. f = [n \in 0..0 |-> IF n = 0 THEN Unknown ELSE Computed(market, buys, limit, f[n - 1])]
    OBVIOUS
  <2>2. FromBelow(market, buys, limit, f, 0)
    BY <2>1 DEF FromBelow
  <2>3. QED
    BY <2>2
<1>2. ASSUME NEW m \in Nat, m \in S PROVE m + 1 \in S
  <2>1. PICK f : FromBelow(market, buys, limit, f, m)
    BY <1>2
  <2> DEFINE h == [n \in 0..(m + 1) |-> IF n = m + 1 THEN up(f[m]) ELSE f[n]]
             Step(n) == IF n = 0 THEN Unknown ELSE up(h[n - 1])
  <2>2. ASSUME NEW n \in 0..(m + 1) PROVE h[n] = Step(n)
    <3>1. CASE n = m + 1
      <4>1. n - 1 = m /\ n # 0 /\ h[m] = f[m]
        BY <3>1
      <4>2. h[n] = up(f[m])
        BY <3>1
      <4> HIDE DEF h, up
      <4>3. QED
        BY <4>1, <4>2
    <3>2. CASE n # m + 1
      <4>1. n \in 0..m /\ h[n] = f[n] /\ (n # 0 => h[n - 1] = f[n - 1])
        BY <3>2
      <4>2. f[n] = IF n = 0 THEN Unknown ELSE up(f[n - 1])
        BY <2>1, <4>1 DEF FromBelow
      <4> HIDE DEF h, up
      <4>3. QED
        BY <4>1, <4>2
    <3>3. QED
      BY <3>1, <3>2
  <2>3. h = [n \in 0..(m + 1) |-> h[n]]
    OBVIOUS
  <2> HIDE DEF h
  <2>4. h = [n \in 0..(m + 1) |-> Step(n)]
    BY <2>2, <2>3
  <2>5. FromBelow(market, buys, limit, h, m + 1)
    BY <2>4 DEF FromBelow
  <2>6. QED
    BY <2>5
<1>3. Nat \subseteq S
  <2> HIDE DEF S
  <2>1. QED
    BY <1>1, <1>2, CountingUp
<1>4. QED
  BY <1>3, VipBound

\* Levels that are right up to m.
RightTo(level, c, m) ==
  /\ level \in [Account -> 0..MaxVip]
  /\ \A k \in 1..m, a \in Account : level[a] >= k <=> a \in c[k]

LEMMA ComputedIsRight ==
  ASSUME NEW market, Nested(market), NEW buys \in [Account -> Nat], NEW limit \in Nat,
         NEW c, Ladder(market, buys, limit, c), NEW m \in Nat, m + 1 \in 1..MaxVip,
         NEW level, RightTo(level, c, m)
  PROVE  RightTo(Computed(market, buys, limit, level), c, m + 1)
<1>0. market \in [Account -> SUBSET SUBSET Account]
  BY DEF Nested
<1>1. PICK next : next = Computed(market, buys, limit, level)
  OBVIOUS
<1>2. ASSUME NEW a \in Account
      PROVE  /\ next[a] \in 0..MaxVip
             /\ \A k \in 1..MaxVip : next[a] >= k <=> /\ Enough(Selling(market[a], buys, limit))
                                                      /\ HoldsTo(market[a], level, k)
  <2>1. next[a] = ComputeAccountVipLevel(market[a], buys, limit, level)
    BY <1>1 DEF Computed
  <2>2. QED
    BY <2>1, ComputedLevel
<1>3. next \in [Account -> 0..MaxVip]
  <2>1. next = [a \in Account |-> next[a]]
    BY <1>1 DEF Computed
  <2>2. QED
    BY <1>2, <2>1
<1>4. ASSUME NEW k \in 2..(m + 1), NEW a \in Account
      PROVE  Enough(Holding(market[a], level, k - 1)) <=> a \in c[k]
  <2>1. PICK j \in 1..m : j = k - 1 /\ k \in 2..MaxVip
    BY VipBound
  <2>2. \A b \in Account : level[b] >= j <=> b \in c[j]
    BY <2>1 DEF RightTo
  <2>3. market[a] \subseteq SUBSET Account
    BY <1>0
  <2>4. Holding(market[a], level, j) = Meeting(market[a], c[j])
    BY <2>2, <2>3 DEF Holding, Meeting
  <2>5. c[k] = {s \in Account : Enough(Meeting(market[s], c[k - 1]))}
    BY <2>1 DEF Ladder
  <2>6. QED
    BY <2>1, <2>4, <2>5
<1>5. ASSUME NEW k \in 1..(m + 1), NEW a \in Account PROVE next[a] >= k <=> a \in c[k]
  <2>1. /\ k \in 1..MaxVip /\ 1 \in 1..MaxVip
        /\ \A j \in 2..k : j \in 2..(m + 1) /\ j \in 1..MaxVip /\ k \in j..MaxVip
        /\ k = 1 \/ k \in 2..k
        /\ k \in 1..MaxVip
    BY VipBound
  <2>2. next[a] >= k <=> /\ Enough(Selling(market[a], buys, limit))
                         /\ HoldsTo(market[a], level, k)
    BY <1>2, <2>1
  <2>3. Enough(Selling(market[a], buys, limit)) <=> a \in c[1]
    BY DEF Ladder, Sells
  <2>4. HoldsTo(market[a], level, k) <=> \A j \in 2..k : a \in c[j]
    BY <1>4, <2>1 DEF HoldsTo
  <2>5. \A j \in 2..k : c[k] \subseteq c[j]
    BY <2>1, LadderFalls
  <2>6. c[k] \subseteq c[1]
    BY <2>1, LadderFalls
  <2>7. QED
    BY <2>1, <2>2, <2>3, <2>4, <2>5, <2>6
<1>6. RightTo(next, c, m + 1)
  BY <1>3, <1>5 DEF RightTo
<1>7. QED
  BY <1>1, <1>6

LEMMA BottomUpClimbs ==
  ASSUME NEW rel, Nested(Markets(rel)), NEW buys \in [Account -> Nat], NEW limit \in Nat,
         NEW c, Ladder(Markets(rel), buys, limit, c)
  PROVE  RightTo(LevelsBottomUp(rel, buys, limit), c, MaxVip)
<1>1. PICK market : market = Markets(rel)
  OBVIOUS
<1>2. PICK f : /\ FromBelow(market, buys, limit, f, MaxVip)
               /\ LevelsBottomUp(rel, buys, limit) = f[MaxVip]
  <2>1. \E f : FromBelow(market, buys, limit, f, MaxVip)
    BY FromBelowExists
  <2>2. LevelsBottomUp(rel, buys, limit)
          = (CHOOSE f : FromBelow(market, buys, limit, f, MaxVip))[MaxVip]
    BY <1>1, BottomUpIs
  <2>3. QED
    BY <2>1, <2>2
<1> DEFINE S == {m \in Nat : m <= MaxVip => RightTo(f[m], c, m)}
<1>3. 0 \in S
  <2>1. f[0] = Unknown
    BY <1>2, VipBound DEF FromBelow
  <2>2. RightTo(Unknown, c, 0)
    BY VipBound DEF RightTo, Unknown
  <2>3. QED
    BY <2>1, <2>2
<1>4. ASSUME NEW m \in Nat, m \in S PROVE m + 1 \in S
  <2>1. SUFFICES ASSUME m + 1 <= MaxVip PROVE RightTo(f[m + 1], c, m + 1)
    OBVIOUS
  <2>2. m + 1 \in 0..MaxVip /\ m + 1 # 0 /\ (m + 1) - 1 = m /\ m + 1 \in 1..MaxVip
    BY <2>1, VipBound
  <2>3. f[m + 1] = Computed(market, buys, limit, f[m])
    BY <1>2, <2>2 DEF FromBelow
  <2>4. RightTo(f[m], c, m)
    BY <1>4, <2>1, VipBound
  <2>5. Nested(market) /\ Ladder(market, buys, limit, c)
    BY <1>1
  <2>6. RightTo(Computed(market, buys, limit, f[m]), c, m + 1)
    BY <2>2, <2>4, <2>5, ComputedIsRight
  <2>7. QED
    BY <2>3, <2>6
<1>5. Nat \subseteq S
  <2> HIDE DEF S
  <2>1. QED
    BY <1>3, <1>4, CountingUp
<1>6. QED
  BY <1>2, <1>5, VipBound

\* Generation after level or from the leaves up: the levels are the same.
LEMMA LevelsAgree ==
  ASSUME NEW rel, Nested(Markets(rel)), NEW buys \in [Account -> Nat], NEW limit \in Nat
  PROVE  /\ VipLevels(rel, buys, limit) \in [Account -> 0..MaxVip]
         /\ LevelsBottomUp(rel, buys, limit) = VipLevels(rel, buys, limit)
<1>1. PICK v, w : v = VipLevels(rel, buys, limit) /\ w = LevelsBottomUp(rel, buys, limit)
  OBVIOUS
<1>2. v \in [Account -> 0..MaxVip] /\ VipIsLadder(Markets(rel), buys, limit, v)
  BY <1>1, VipClimbs
<1>3. PICK c : /\ Ladder(Markets(rel), buys, limit, c)
               /\ \A j \in 1..MaxVip, a \in Account : v[a] >= j <=> a \in c[j]
  BY <1>2 DEF VipIsLadder
<1>4. RightTo(w, c, MaxVip)
  BY <1>1, <1>3, BottomUpClimbs
<1>5. /\ w \in [Account -> 0..MaxVip]
      /\ \A j \in 1..MaxVip, a \in Account : w[a] >= j <=> v[a] >= j
  BY <1>3, <1>4 DEF RightTo
<1>6. ASSUME NEW a \in Account PROVE w[a] = v[a]
  <2>1. PICK x, y \in 0..MaxVip : x = v[a] /\ y = w[a]
    BY <1>2, <1>5
  <2>2. \A j \in 1..MaxVip : y >= j <=> x >= j
    BY <1>5, <2>1
  <2>3. x = y
    <3>1. ASSUME x < y PROVE FALSE
      BY <2>2, <3>1, VipBound
    <3>2. ASSUME y < x PROVE FALSE
      BY <2>2, <3>2, VipBound
    <3>3. QED
      BY <3>1, <3>2, VipBound
  <2>4. QED
    BY <2>1, <2>3
<1>7. w = v
  BY <1>2, <1>5, <1>6
<1>8. QED
  BY <1>1, <1>2, <1>7

-----------------------------------------------------------------------------
(***************************************************************************)
(* The markets of mirrored rows.                                           *)
(***************************************************************************)
Team(R, x) == {x} \cup {q.subordinate : q \in {p \in R : p.superior = x}}

LEMMA TeamIs ==
  ASSUME NEW R, RowsOf(R), NEW x \in Account
  PROVE  /\ Team(R, x) \subseteq Account
         /\ \A y \in Account : y \in Team(R, x) <=> y = x \/ \E l \in Generation : Row(x, y, l) \in R
<1>1. \A p \in R : /\ p.superior \in Account /\ p.subordinate \in Account /\ p.level \in Generation
                   /\ p = Row(p.superior, p.subordinate, p.level)
  BY DEF RowsOf, Row
<1>2. \A y, l : Row(x, y, l).superior = x /\ Row(x, y, l).subordinate = y
  BY DEF Row
<1>3. Team(R, x) \subseteq Account
  BY <1>1 DEF Team
<1>4. ASSUME NEW y \in Account, y \in Team(R, x), y # x
      PROVE  \E l \in Generation : Row(x, y, l) \in R
  <2>1. PICK p \in R : p.superior = x /\ p.subordinate = y
    BY <1>4 DEF Team
  <2>2. p = Row(x, y, p.level) /\ p.level \in Generation
    BY <1>1, <2>1
  <2>3. QED
    BY <2>1, <2>2
<1>5. ASSUME NEW y \in Account, NEW l \in Generation, Row(x, y, l) \in R PROVE y \in Team(R, x)
  BY <1>2, <1>5 DEF Team
<1>6. x \in Team(R, x)
  BY DEF Team
<1>7. QED
  BY <1>3, <1>4, <1>5, <1>6

LEMMA MarketsAre ==
  ASSUME NEW R, RowsOf(R), NEW s \in Account
  PROVE  \A h : h \in Markets(R)[s] <=> \E y \in Account : Row(s, y, 1) \in R /\ h = Team(R, y)
<1>1. Markets(R)[s] = {Team(R, r.subordinate) : r \in {p \in R : p.superior = s /\ p.level = 1}}
  BY DEF Markets, Team
<1>2. \A p \in R : p.subordinate \in Account /\ p = Row(p.superior, p.subordinate, p.level)
  BY DEF RowsOf, Row
<1>3. ASSUME NEW h, h \in Markets(R)[s]
      PROVE  \E y \in Account : Row(s, y, 1) \in R /\ h = Team(R, y)
  <2>1. PICK r \in R : r.superior = s /\ r.level = 1 /\ h = Team(R, r.subordinate)
    BY <1>1, <1>3
  <2>2. QED
    BY <1>2, <2>1
<1>4. ASSUME NEW y \in Account, Row(s, y, 1) \in R PROVE Team(R, y) \in Markets(R)[s]
  <2>1. PICK r : r = Row(s, y, 1)
    OBVIOUS
  <2>2. r \in R /\ r.superior = s /\ r.level = 1 /\ r.subordinate = y
    BY <1>4, <2>1 DEF Row
  <2>3. QED
    BY <1>1, <2>2
<1>5. QED
  BY <1>3, <1>4

LEMMA MirrorNested ==
  ASSUME NEW up \in Parents, NEW R, Mirrors(R, up)
  PROVE  Nested(Markets(R))
<1>0. RowsOf(R) /\ 1 \in Generation
  BY DEF Mirrors, Generation
<1>1. \A s \in Account : Markets(R)[s] \subseteq SUBSET Account
  BY <1>0, MarketsAre, TeamIs
<1>2. Markets(R) \in [Account -> SUBSET SUBSET Account]
  <2>1. Markets(R) = [s \in Account |-> Markets(R)[s]]
    BY DEF Markets
  <2>2. QED
    BY <1>1, <2>1
<1>3. ASSUME NEW s \in Account, NEW k \in Markets(R)[s], NEW a \in k, NEW h \in Markets(R)[a]
      PROVE  h \subseteq k
  <2>1. PICK x \in Account : Row(s, x, 1) \in R /\ k = Team(R, x)
    BY <1>0, MarketsAre
  <2>2. a \in Account
    BY <1>0, <2>1, TeamIs
  <2>3. PICK y \in Account : Row(a, y, 1) \in R /\ h = Team(R, y)
    BY <1>0, <2>2, MarketsAre
  \* y is below x ...
  <2>4. PICK l \in Generation : Row(x, y, l) \in R
    <3>1. CASE a = x
      BY <1>0, <2>3, <3>1
    <3>2. CASE a # x
      <4>1. PICK l \in Generation : Row(x, a, l) \in R
        BY <1>0, <2>1, <2>2, <3>2, TeamIs
      <4>2. Row(x, y, 1 + l) \in R
        BY <1>0, <2>2, <2>3, <4>1, Split
      <4>3. 1 + l \in Generation
        BY DEF Generation
      <4>4. QED
        BY <4>2, <4>3
    <3>3. QED
      BY <3>1, <3>2
  \* ... and so is who is below y
  <2>5. ASSUME NEW z \in h PROVE z \in k
    <3>1. z \in Account
      BY <1>0, <2>3, <2>5, TeamIs
    <3>2. CASE z = y
      BY <1>0, <2>1, <2>4, <3>1, <3>2, TeamIs
    <3>3. CASE z # y
      <4>1. PICK m \in Generation : Row(y, z, m) \in R
        BY <1>0, <2>3, <2>5, <3>1, <3>3, TeamIs
      <4>2. Row(x, z, m + l) \in R
        BY <2>4, <3>1, <4>1, Split
      <4>3. m + l \in Generation
        BY DEF Generation
      <4>4. QED
        BY <1>0, <2>1, <3>1, <4>2, <4>3, TeamIs
    <3>4. QED
      BY <3>2, <3>3
  <2>6. QED
    BY <2>5
<1>4. QED
  BY <1>2, <1>3 DEF Nested

\* An account nobody is below has no level.
LEMMA RootlessLevel ==
  ASSUME NEW up \in Parents, NEW R, Mirrors(R, up), NEW buys \in [Account -> Nat],
         NEW limit \in Nat, NEW a \in Account, \A r \in R : r.superior # a
  PROVE  VipLevels(R, buys, limit)[a] = 0
<1>1. PICK market, v : market = Markets(R) /\ v = VipLevels(R, buys, limit)
  OBVIOUS
<1>2. Nested(Markets(R))
  BY MirrorNested
<1>3. v \in [Account -> 0..MaxVip] /\ VipIsLadder(market, buys, limit, v)
  BY <1>1, <1>2, VipClimbs
<1>4. PICK c : /\ Ladder(market, buys, limit, c)
               /\ \A j \in 1..MaxVip, b \in Account : v[b] >= j <=> b \in c[j]
  BY <1>3 DEF VipIsLadder
<1>5. market[a] = {}
  <2>1. \A y : Row(a, y, 1) \notin R
    BY DEF Row
  <2>2. RowsOf(R)
    BY DEF Mirrors
  <2>3. \A h : h \notin Markets(R)[a]
    BY <2>1, <2>2, MarketsAre
  <2>4. QED
    BY <1>1, <2>3
<1>6. a \notin c[1]
  <2>1. Selling(market[a], buys, limit) = {}
    BY <1>5 DEF Selling
  <2>2. ~Sells(market, buys, limit, a)
    BY <2>1, EnoughIsSome DEF Sells
  <2>3. QED
    BY <1>4, <2>2 DEF Ladder
<1>7. ~(v[a] >= 1) /\ v[a] \in 0..MaxVip
  BY <1>3, <1>4, <1>6, VipBound
<1>8. QED
  BY <1>1, <1>7, VipBound

-----------------------------------------------------------------------------
(***************************************************************************)
(* The invariant of the levels.  While the scheduled recomputation runs and *)
(* nobody else has recomputed, the levels in its snapshot are those due,   *)
(* and an account it does not write has its level already: it had it when  *)
(* the snapshot was taken, or registered later and has none.               *)
(***************************************************************************)
Levels == [Account -> 0..MaxVip]
Purchases == [Account -> 0..MaxBought]

CreateType == [pc : {"read"}, account : Account, recommender : Account,
               superiors : SUBSET Relation]
MoveType == [pc : {"locked"}, account : Account, superior : Account]
SnapshotType == [pc : {"begun", "read"}, account : SUBSET Account, level : Levels,
                 rows : SUBSET Account, bought : Purchases, due : Levels,
                 written : SUBSET Account, late : BOOLEAN]

JobsTyped ==
  /\ \A c \in Creator : create[c] = NoCreate \/ create[c] \in CreateType
  /\ move = NoMove \/ move \in MoveType
  /\ snapshot = NoSnapshot \/ snapshot \in SnapshotType

DataTyped ==
  /\ held \subseteq Account /\ bought \in Purchases /\ threshold \in Threshold
  /\ vip \in Levels /\ due \in Levels
  /\ moves \in 0..MaxMoves /\ mixed \in BOOLEAN

\* The levels in the snapshot s, for those who are there now and have these levels.
SnapshotRight(s, present, levels) ==
  /\ s.due = s.level
  /\ \A a \in Account \ s.account : s.level[a] = 0
  /\ \A a \in present : a \in s.rows \/ levels[a] = s.level[a]

SnapshotInv ==
  snapshot # NoSnapshot =>
    /\ snapshot.rows \subseteq snapshot.account
    /\ \A c \in Creator : Reading(c) => create[c].account \notin snapshot.account
    /\ ~snapshot.late => SnapshotRight(snapshot, account, vip)

NoLevelOutside == \A a \in Account \ account : vip[a] = 0 /\ due[a] = 0

LevelInv == JobsTyped /\ DataTyped /\ SnapshotInv /\ NoLevelOutside /\ LevelsFollowTree

LEMMA LevelBounds ==
  /\ Levels \subseteq [Account -> Nat] /\ Purchases \subseteq [Account -> Nat]
  /\ Threshold \subseteq Nat
<1>1. 0..MaxVip \subseteq Nat /\ 0..MaxBought \subseteq Nat
  BY TreeAssumption
<1>2. QED
  BY <1>1, TreeAssumption DEF Levels, Purchases

LEMMA RecomputedLevels ==
  ASSUME NEW up \in Parents, NEW R, Mirrors(R, up), NEW buys \in Purchases, NEW limit \in Threshold
  PROVE  /\ VipLevels(R, buys, limit) \in Levels
         /\ LevelsBottomUp(Closure(up), buys, limit) = VipLevels(R, buys, limit)
<1>1. Nested(Markets(R)) /\ R = Closure(up)
  BY MirrorNested, MirrorIsClosure
<1>2. buys \in [Account -> Nat] /\ limit \in Nat
  BY LevelBounds
<1>3. QED
  BY <1>1, <1>2, LevelsAgree DEF Levels

LEMMA OutsideLevel ==
  ASSUME NEW up \in Parents, NEW R, NEW A, Mirrors(R, up), Known(R, A),
         NEW buys \in Purchases, NEW limit \in Threshold, NEW a \in Account \ A
  PROVE  VipLevels(R, buys, limit)[a] = 0
<1>1. \A r \in R : r.superior # a
  BY DEF Known
<1>2. buys \in [Account -> Nat] /\ limit \in Nat
  BY LevelBounds
<1>3. QED
  BY <1>1, <1>2, RootlessLevel

LEMMA RelationTyped ==
  ASSUME NEW up \in Parents, NEW R, NEW A, A \subseteq Account, Mirrors(R, up), Known(R, A)
  PROVE  /\ R \subseteq [superior : A, subordinate : A, level : Depth]
         /\ R \subseteq Relation
<1>1. R = Closure(up)
  BY MirrorIsClosure
<1>2. ASSUME NEW r \in R
      PROVE  r \in [superior : A, subordinate : A, level : Depth] /\ r \in Relation
  <2>1. /\ r.superior \in A /\ r.subordinate \in A
        /\ r = Row(r.superior, r.subordinate, r.level)
        /\ r.subordinate \in Account
    BY DEF Known, Mirrors, RowsOf, Row
  <2>2. r.level \in Depth
    BY <1>1, <2>1, ClosureRows
  <2>3. QED
    BY <2>1, <2>2 DEF Row, Relation
<1>3. QED
  BY <1>2

LEMMA NotSnapshot == NoSnapshot \notin SnapshotType
  BY DEF NoSnapshot, SnapshotType

LEMMA LevelInit == Init => LevelInv
<1> SUFFICES ASSUME Init PROVE LevelInv
  OBVIOUS
<1>1. TreeInv
  BY TreeInit
<1>2. bought \in Purchases
  <2>1. bought = [a \in Account |-> IF a \in account THEN InitBought[a] ELSE 0]
        /\ account = DOMAIN InitParent /\ 0 \in 0..MaxBought
    BY TreeAssumption DEF Init
  <2>2. \A a \in account : InitBought[a] \in 0..MaxBought
    BY <2>1, TreeAssumption
  <2>3. QED
    BY <2>1, <2>2 DEF Purchases
<1>3. threshold \in Threshold
  BY DEF Init
<1>4. PICK level : level = VipLevels(relation, bought, threshold)
  OBVIOUS
<1>5. level \in Levels
  BY <1>1, <1>2, <1>3, <1>4, RecomputedLevels DEF TreeInv
<1>6. \A a \in Account \ account : level[a] = 0
  BY <1>1, <1>2, <1>3, <1>4, OutsideLevel DEF TreeInv
<1>7. vip = level /\ due = level
  BY <1>4, <1>5 DEF Init, Levels
<1>8. JobsTyped
  BY DEF Init, JobsTyped
<1>9. DataTyped
  <2>1. held = {} /\ moves = 0 /\ mixed = FALSE
    BY DEF Init
  <2>2. moves \in 0..MaxMoves
    BY <2>1, TreeAssumption
  <2>3. held \subseteq Account /\ mixed \in BOOLEAN
    BY <2>1
  <2>4. vip \in Levels /\ due \in Levels
    BY <1>5, <1>7
  <2>5. QED
    BY <1>2, <1>3, <2>2, <2>3, <2>4 DEF DataTyped
<1>10. SnapshotInv
  BY DEF Init, SnapshotInv
<1>11. NoLevelOutside /\ LevelsFollowTree
  BY <1>6, <1>7 DEF NoLevelOutside, LevelsFollowTree
<1>12. QED
  BY <1>8, <1>9, <1>10, <1>11 DEF LevelInv

LEMMA LevelKept ==
  ASSUME LevelInv, UNCHANGED treeVars
  PROVE  LevelInv'
  BY DEF LevelInv, JobsTyped, DataTyped, SnapshotInv, SnapshotRight, NoLevelOutside,
     LevelsFollowTree, treeVars, Reading

LEMMA LevelCreateRead ==
  ASSUME TreeInv, LevelInv, NEW c \in Creator, NEW a \in Account, NEW b \in Account,
         CreateRead(c, a, b)
  PROVE  LevelInv'
<1>1. DOMAIN create = Creator
  BY DEF TreeInv, Registering
<1>2. SuperiorsOf(b) \subseteq Relation
  BY RelationTyped DEF TreeInv, SuperiorsOf
<1>3. PICK job : job = [pc |-> "read", account |-> a, recommender |-> b,
                        superiors |-> SuperiorsOf(b)]
  OBVIOUS
<1>4. job \in CreateType
  BY <1>2, <1>3 DEF CreateType
<1>5. \A d \in Creator : create'[d] = IF d = c THEN job ELSE create[d]
  BY <1>1, <1>3 DEF CreateRead
<1>6. /\ UNCHANGED <<account, relation, bought, vip, threshold, held, move, snapshot, moves,
                     parent, due, mixed>>
      /\ snapshot.pc # "idle" => a \notin snapshot.account
  BY DEF CreateRead
<1>7. JobsTyped'
  BY <1>4, <1>5, <1>6 DEF LevelInv, JobsTyped
<1>8. DataTyped' /\ NoLevelOutside' /\ LevelsFollowTree'
  BY <1>6 DEF LevelInv, DataTyped, NoLevelOutside, LevelsFollowTree
<1>9. SnapshotInv'
  <2>1. ASSUME snapshot # NoSnapshot, NEW d \in Creator, Reading(d)'
        PROVE  create'[d].account \notin snapshot.account
    <3>1. snapshot.pc # "idle"
      BY <2>1 DEF LevelInv, JobsTyped, SnapshotType
    <3>2. QED
      BY <1>3, <1>5, <1>6, <2>1, <3>1 DEF LevelInv, SnapshotInv, Reading
  <2>2. QED
    BY <1>6, <2>1 DEF LevelInv, SnapshotInv
<1>10. QED
  BY <1>7, <1>8, <1>9 DEF LevelInv

LEMMA LevelCreateInsert ==
  ASSUME TreeInv, LevelInv, NEW c \in Creator, CreateInsert(c)
  PROVE  LevelInv'
<1>1. DOMAIN create = Creator /\ Reading(c)
  BY DEF TreeInv, Registering, CreateInsert, Reading
<1>2. PICK a : a = create[c].account
  OBVIOUS
<1>3. a \in Account \ account
  BY <1>1, <1>2 DEF TreeInv, Registering
<1>4. /\ account' = account \cup {a}
      /\ due' = [due EXCEPT ![a] = 0]
      /\ create' = [create EXCEPT ![c] = NoCreate]
      /\ UNCHANGED <<bought, vip, threshold, held, move, snapshot, moves, mixed>>
  BY <1>2 DEF CreateInsert
<1>5. /\ vip \in Levels /\ due \in Levels /\ vip[a] = 0 /\ due[a] = 0
  BY <1>3 DEF LevelInv, DataTyped, NoLevelOutside
<1>6. due' = due
  BY <1>4, <1>5 DEF Levels
<1>7. \A d \in Creator : create'[d] = IF d = c THEN NoCreate ELSE create[d]
  BY <1>1, <1>4
<1>8. JobsTyped'
  BY <1>4, <1>7 DEF LevelInv, JobsTyped
<1>9. DataTyped' /\ NoLevelOutside' /\ LevelsFollowTree'
  BY <1>4, <1>6 DEF LevelInv, DataTyped, NoLevelOutside, LevelsFollowTree
<1>10. SnapshotInv'
  <2>1. \A d \in Creator : Reading(d)' => Reading(d) /\ create'[d] = create[d]
    BY <1>7 DEF Reading, NoCreate
  <2>2. ASSUME snapshot # NoSnapshot, ~snapshot.late
        PROVE  SnapshotRight(snapshot, account \cup {a}, vip)
    <3>1. SnapshotRight(snapshot, account, vip) /\ a \notin snapshot.account
      BY <1>1, <1>2, <2>2 DEF LevelInv, SnapshotInv
    <3>2. snapshot.level[a] = vip[a]
      BY <1>3, <1>5, <3>1 DEF SnapshotRight
    <3>3. QED
      BY <3>1, <3>2 DEF SnapshotRight
  <2>3. QED
    BY <1>4, <2>1, <2>2 DEF LevelInv, SnapshotInv
<1>11. QED
  BY <1>8, <1>9, <1>10 DEF LevelInv

LEMMA LevelCreateFail ==
  ASSUME TreeInv, LevelInv, NEW c \in Creator, CreateFail(c)
  PROVE  LevelInv'
<1>1. DOMAIN create = Creator
  BY DEF TreeInv, Registering
<1>2. /\ \A d \in Creator : create'[d] = IF d = c THEN NoCreate ELSE create[d]
      /\ UNCHANGED <<account, relation, bought, vip, threshold, held, move, snapshot, moves,
                     parent, due, mixed>>
  BY <1>1 DEF CreateFail
<1>3. \A d \in Creator : Reading(d)' => Reading(d) /\ create'[d] = create[d]
  BY <1>2 DEF Reading, NoCreate
<1>4. JobsTyped'
  BY <1>2 DEF LevelInv, JobsTyped
<1>5. DataTyped' /\ NoLevelOutside' /\ LevelsFollowTree'
  BY <1>2 DEF LevelInv, DataTyped, NoLevelOutside, LevelsFollowTree
<1>6. SnapshotInv'
  BY <1>2, <1>3 DEF LevelInv, SnapshotInv
<1>7. QED
  BY <1>4, <1>5, <1>6 DEF LevelInv

LEMMA LevelDeleteUser ==
  ASSUME TreeInv, LevelInv, NEW a, DeleteUser(a)
  PROVE  LevelInv'
<1>1. a \in account /\ a \in Account
  BY DEF DeleteUser, TreeInv
<1>2. /\ account' = account \ {a}
      /\ bought' = [bought EXCEPT ![a] = 0]
      /\ vip' = [vip EXCEPT ![a] = 0]
      /\ due' = [due EXCEPT ![a] = 0]
      /\ UNCHANGED <<threshold, held, create, move, snapshot, moves, mixed>>
  BY DEF DeleteUser
<1>3. bought \in Purchases /\ vip \in Levels /\ due \in Levels
  BY DEF LevelInv, DataTyped
<1>4. bought' \in Purchases /\ vip' \in Levels /\ due' \in Levels
  <2>1. 0 \in 0..MaxBought /\ 0 \in 0..MaxVip
    BY TreeAssumption
  <2>2. bought' \in Purchases
    BY <1>2, <1>3, <2>1 DEF Purchases
  <2>3. vip' \in Levels /\ due' \in Levels
    BY <1>2, <1>3, <2>1 DEF Levels
  <2>4. QED
    BY <2>2, <2>3
<1>5. \A b \in Account : /\ vip'[b] = IF b = a THEN 0 ELSE vip[b]
                         /\ due'[b] = IF b = a THEN 0 ELSE due[b]
  BY <1>2, <1>3 DEF Levels
<1>6. JobsTyped'
  BY <1>2 DEF LevelInv, JobsTyped
<1>7. DataTyped'
  BY <1>2, <1>4 DEF LevelInv, DataTyped
<1>8. NoLevelOutside'
  BY <1>2, <1>5 DEF LevelInv, NoLevelOutside
<1>9. LevelsFollowTree'
  BY <1>2 DEF LevelInv, LevelsFollowTree
<1>10. SnapshotInv'
  <2>1. ASSUME snapshot # NoSnapshot, ~snapshot.late
        PROVE  SnapshotRight(snapshot, account \ {a}, vip')
    <3>1. SnapshotRight(snapshot, account, vip)
      BY <2>1 DEF LevelInv, SnapshotInv
    <3>2. \A b \in account \ {a} : vip'[b] = vip[b]
      BY <1>5 DEF TreeInv
    <3>3. QED
      BY <3>1, <3>2 DEF SnapshotRight
  <2>2. \A d \in Creator : Reading(d)' <=> Reading(d)
    BY <1>2 DEF Reading
  <2>3. QED
    BY <1>2, <2>1, <2>2 DEF LevelInv, SnapshotInv
<1>11. QED
  BY <1>6, <1>7, <1>8, <1>9, <1>10 DEF LevelInv

LEMMA LevelPurchase ==
  ASSUME TreeInv, LevelInv, NEW a, Purchase(a)
  PROVE  LevelInv'
<1>1. a \in Account /\ bought[a] < MaxBought /\ bought \in Purchases
  BY DEF Purchase, TreeInv, LevelInv, DataTyped
<1>2. /\ bought' = [bought EXCEPT ![a] = bought[a] + 1]
      /\ UNCHANGED <<account, relation, vip, threshold, held, create, move, snapshot, moves,
                     parent, due, mixed>>
  BY DEF Purchase
<1>3. bought' \in Purchases
  <2>1. bought[a] + 1 \in 0..MaxBought
    BY <1>1, TreeAssumption DEF Purchases
  <2>2. QED
    BY <1>1, <1>2, <2>1 DEF Purchases
<1>4. QED
  BY <1>2, <1>3 DEF LevelInv, JobsTyped, DataTyped, SnapshotInv, NoLevelOutside,
     LevelsFollowTree, Reading

LEMMA LevelMoveLock ==
  ASSUME LevelInv, NEW a \in Movable, NEW superior \in Account, MoveLock(a, superior)
  PROVE  LevelInv'
<1>1. /\ move' = [pc |-> "locked", account |-> a, superior |-> superior]
      /\ moves < MaxMoves /\ moves' = moves + 1
      /\ UNCHANGED <<account, relation, bought, vip, threshold, held, create, snapshot,
                     parent, due, mixed>>
  BY DEF MoveLock
<1>2. move' \in MoveType
  BY <1>1, TreeAssumption DEF MoveType
<1>3. moves' \in 0..MaxMoves
  <2>1. moves \in 0..MaxMoves
    BY DEF LevelInv, DataTyped
  <2>2. QED
    BY <1>1, <2>1, TreeAssumption
<1>4. QED
  BY <1>1, <1>2, <1>3 DEF LevelInv, JobsTyped, DataTyped, SnapshotInv, NoLevelOutside,
     LevelsFollowTree, Reading

LEMMA LevelMoveFail ==
  ASSUME LevelInv, MoveFail
  PROVE  LevelInv'
  BY DEF LevelInv, JobsTyped, DataTyped, SnapshotInv, NoLevelOutside, LevelsFollowTree,
     Reading, MoveFail

\* Whoever recomputes on committed data writes the levels that are due.
LEMMA LevelRecompute ==
  ASSUME LevelInv, account \subseteq Account,
         NEW R, NEW up \in Parents, Mirrors(R, up), NEW limit \in Threshold,
         RecomputeNow(R, up, limit), threshold' \in Threshold, move' = NoMove \/ move' = move,
         UNCHANGED <<account, bought, held, create, moves>>
  PROVE  LevelInv'
<1>1. bought \in Purchases /\ snapshot \in SnapshotType \cup {NoSnapshot}
  BY DEF LevelInv, DataTyped, JobsTyped
<1>2. PICK level : level = VipLevels(R, bought, limit)
  OBVIOUS
<1>3. level \in Levels /\ LevelsBottomUp(Closure(up), bought, limit) = level
  BY <1>1, <1>2, RecomputedLevels
<1>4. /\ vip' = [a \in Account |-> IF a \in account THEN level[a] ELSE 0]
      /\ due' = [a \in Account |-> IF a \in account THEN level[a] ELSE 0]
      /\ mixed' = FALSE
      /\ snapshot' = IF snapshot.pc = "idle" THEN snapshot
                     ELSE [snapshot EXCEPT !.late = TRUE,
                             !.written = @ \cup {a \in account : level[a] # vip[a]}]
  BY <1>2, <1>3 DEF RecomputeNow
<1>5. vip' \in Levels /\ due' \in Levels
  <2>1. 0 \in 0..MaxVip
    BY TreeAssumption
  <2>2. QED
    BY <1>3, <1>4, <2>1 DEF Levels
<1>6. DataTyped'
  BY <1>4, <1>5 DEF LevelInv, DataTyped
<1>7. NoLevelOutside' /\ LevelsFollowTree'
  BY <1>4 DEF NoLevelOutside, LevelsFollowTree
<1>8. CASE snapshot = NoSnapshot
  <2>1. snapshot' = NoSnapshot
    BY <1>4, <1>8 DEF NoSnapshot
  <2>2. JobsTyped' /\ SnapshotInv'
    BY <2>1 DEF LevelInv, JobsTyped, SnapshotInv
  <2>3. QED
    BY <1>6, <1>7, <2>2 DEF LevelInv
<1>9. CASE snapshot # NoSnapshot
  <2>1. snapshot \in SnapshotType /\ snapshot.pc # "idle"
    BY <1>1, <1>9 DEF SnapshotType
  <2>2. PICK more : more = {a \in account : level[a] # vip[a]} /\ more \subseteq Account
    OBVIOUS
  <2>3. snapshot' = [snapshot EXCEPT !.late = TRUE, !.written = snapshot.written \cup more]
    BY <1>4, <2>1, <2>2
  <2>4. /\ snapshot' \in SnapshotType /\ snapshot'.late
        /\ snapshot'.rows = snapshot.rows /\ snapshot'.account = snapshot.account
    BY <2>1, <2>2, <2>3 DEF SnapshotType
  <2>5. JobsTyped'
    BY <2>4 DEF LevelInv, JobsTyped
  <2>6. SnapshotInv'
    BY <1>9, <2>4 DEF LevelInv, SnapshotInv, Reading
  <2>7. QED
    BY <1>6, <1>7, <2>5, <2>6 DEF LevelInv
<1>10. QED
  BY <1>8, <1>9

LEMMA LevelMoveCommit ==
  ASSUME TreeInv, LevelInv, TreeInv', MoveCommit
  PROVE  LevelInv'
<1>1. PICK R, up : R = relation' /\ up = parent'
  OBVIOUS
<1>2. RecomputeNow(R, up, threshold)
  BY <1>1 DEF MoveCommit
<1>3. /\ account \subseteq Account /\ threshold \in Threshold
      /\ up \in Parents /\ Mirrors(R, up)
  BY <1>1 DEF TreeInv, LevelInv, DataTyped
<1>4. move' = NoMove /\ UNCHANGED <<account, bought, threshold, held, create, moves>>
  BY DEF MoveCommit
<1>5. QED
  BY <1>2, <1>3, <1>4, LevelRecompute

LEMMA LevelUpdateThreshold ==
  ASSUME TreeInv, LevelInv, NEW limit \in Threshold, UpdateThreshold(limit)
  PROVE  LevelInv'
<1>1. /\ RecomputeNow(relation, parent, limit) /\ threshold' = limit
      /\ UNCHANGED <<account, bought, held, create, move, moves>>
  BY DEF UpdateThreshold
<1>2. account \subseteq Account /\ parent \in Parents /\ Mirrors(relation, parent)
  BY DEF TreeInv
<1>3. QED
  BY <1>1, <1>2, LevelRecompute

LEMMA LevelSnapshotBegin ==
  ASSUME TreeInv, LevelInv, SnapshotBegin
  PROVE  LevelInv'
<1>1. /\ account \subseteq Account /\ parent \in Parents /\ Mirrors(relation, parent)
      /\ Known(relation, account)
      /\ bought \in Purchases /\ threshold \in Threshold
  BY DEF TreeInv, LevelInv, DataTyped
<1>2. PICK level : level = VipLevels(relation, bought, threshold)
  OBVIOUS
<1>3. level \in Levels /\ LevelsBottomUp(Closure(parent), bought, threshold) = level
  BY <1>1, <1>2, RecomputedLevels
<1>4. \A a \in Account \ account : level[a] = 0
  BY <1>1, <1>2, OutsideLevel
<1>5. PICK rows : rows = {a \in account : level[a] # vip[a]} /\ rows \subseteq Account
  BY <1>1
<1>6. /\ snapshot' = [pc |-> "begun", account |-> account, level |-> level, rows |-> rows,
                      bought |-> bought, due |-> level, written |-> {}, late |-> FALSE]
      /\ UNCHANGED <<account, relation, bought, vip, threshold, held, create, move, moves,
                     parent, due, mixed>>
  BY <1>2, <1>3, <1>5 DEF SnapshotBegin
<1>7. snapshot' \in SnapshotType
  BY <1>1, <1>3, <1>5, <1>6 DEF SnapshotType
<1>8. JobsTyped'
  BY <1>6, <1>7 DEF LevelInv, JobsTyped
<1>9. SnapshotRight(snapshot', account, vip)
  BY <1>4, <1>5, <1>6 DEF SnapshotRight
<1>10. \A c \in Creator : Reading(c) => create[c].account \notin account
  BY DEF TreeInv, Registering
<1>11. SnapshotInv'
  BY <1>5, <1>6, <1>9, <1>10 DEF SnapshotInv, Reading
<1>12. QED
  BY <1>6, <1>8, <1>11 DEF LevelInv, DataTyped, NoLevelOutside, LevelsFollowTree

LEMMA LevelSnapshotRead ==
  ASSUME LevelInv, SnapshotRead
  PROVE  LevelInv'
<1>1. /\ snapshot.pc = "begun" /\ snapshot' = [snapshot EXCEPT !.pc = "read"]
      /\ UNCHANGED <<account, relation, bought, vip, threshold, held, create, move, moves,
                     parent, due, mixed>>
  BY DEF SnapshotRead
<1>2. snapshot \in SnapshotType /\ snapshot # NoSnapshot
  BY <1>1, NotSnapshot DEF LevelInv, JobsTyped, NoSnapshot
<1>3. /\ snapshot' \in SnapshotType
      /\ snapshot'.account = snapshot.account /\ snapshot'.level = snapshot.level
      /\ snapshot'.rows = snapshot.rows /\ snapshot'.due = snapshot.due
      /\ snapshot'.late = snapshot.late
  BY <1>1, <1>2 DEF SnapshotType
<1>4. JobsTyped'
  BY <1>1, <1>3 DEF LevelInv, JobsTyped
<1>5. SnapshotInv'
  BY <1>1, <1>2, <1>3 DEF LevelInv, SnapshotInv, SnapshotRight, Reading
<1>6. QED
  BY <1>1, <1>4, <1>5 DEF LevelInv, DataTyped, NoLevelOutside, LevelsFollowTree

LEMMA LevelSnapshotFail ==
  ASSUME LevelInv, SnapshotFail
  PROVE  LevelInv'
  BY DEF LevelInv, JobsTyped, DataTyped, SnapshotInv, NoLevelOutside, LevelsFollowTree,
     SnapshotFail

\* A snapshot nobody wrote after makes the levels those due.
LEMMA LevelSnapshotWrite ==
  ASSUME TreeInv, LevelInv, SnapshotWrite
  PROVE  LevelInv'
<1>1. /\ account \subseteq Account /\ parent \in Parents /\ Mirrors(relation, parent)
      /\ threshold \in Threshold /\ vip \in Levels
  BY DEF TreeInv, LevelInv, DataTyped
<1>2. PICK s : s = snapshot
  OBVIOUS
<1>3. /\ s.rows \subseteq account
      /\ vip' = [a \in Account |-> IF a \in s.rows THEN s.level[a] ELSE vip[a]]
      /\ mixed' = s.late /\ snapshot' = NoSnapshot
      /\ UNCHANGED <<account, relation, bought, threshold, held, create, move, moves, parent>>
  BY <1>2 DEF SnapshotWrite, FirstToWrite
<1>4. s \in SnapshotType /\ snapshot # NoSnapshot
  BY <1>2, NotSnapshot DEF SnapshotWrite, LevelInv, JobsTyped, NoSnapshot
<1>5. s.bought \in Purchases /\ s.level \in Levels /\ s.due \in Levels /\ s.late \in BOOLEAN
  BY <1>4 DEF SnapshotType
<1>6. PICK now : now = IF s.late THEN LevelsBottomUp(Closure(parent), s.bought, threshold)
                       ELSE s.due
  OBVIOUS
<1>7. due' = [a \in Account |-> IF a \in account THEN now[a] ELSE 0]
  BY <1>2, <1>6 DEF SnapshotWrite
<1>8. now \in Levels
  BY <1>1, <1>5, <1>6, RecomputedLevels
<1>9. vip' \in Levels /\ due' \in Levels
  <2>1. 0 \in 0..MaxVip
    BY TreeAssumption
  <2>2. QED
    BY <1>1, <1>3, <1>5, <1>7, <1>8, <2>1 DEF Levels
<1>10. DataTyped'
  BY <1>3, <1>5, <1>9 DEF LevelInv, DataTyped
<1>11. JobsTyped' /\ SnapshotInv'
  BY <1>3 DEF LevelInv, JobsTyped, SnapshotInv
<1>12. NoLevelOutside'
  BY <1>3, <1>7 DEF LevelInv, NoLevelOutside
<1>13. ASSUME ~s.late PROVE vip' = due'
  <2>1. SnapshotRight(s, account, vip) /\ now = s.level
    BY <1>2, <1>4, <1>6, <1>13 DEF LevelInv, SnapshotInv, SnapshotRight
  <2>2. ASSUME NEW a \in Account PROVE vip'[a] = due'[a]
    <3>1. CASE a \in account
      BY <1>3, <1>7, <2>1, <3>1 DEF SnapshotRight
    <3>2. CASE a \notin account
      BY <1>3, <1>7, <3>2 DEF LevelInv, NoLevelOutside
    <3>3. QED
      BY <3>1, <3>2
  <2>3. QED
    BY <1>9, <2>2 DEF Levels
<1>14. LevelsFollowTree'
  BY <1>3, <1>13 DEF LevelsFollowTree
<1>15. QED
  BY <1>10, <1>11, <1>12, <1>14 DEF LevelInv

LEMMA LevelStep == TreeInv /\ TreeInv' /\ LevelInv /\ [TreeNext]_treeVars => LevelInv'
<1> SUFFICES ASSUME TreeInv, TreeInv', LevelInv, [TreeNext]_treeVars PROVE LevelInv'
  OBVIOUS
<1>1. CASE UNCHANGED treeVars
  BY <1>1, LevelKept
<1>2. CASE Register
  BY <1>2, LevelCreateRead, LevelCreateInsert, LevelCreateFail DEF Register
<1>3. CASE Administer
  BY <1>3, LevelDeleteUser, LevelMoveLock, LevelMoveCommit, LevelMoveFail,
     LevelUpdateThreshold DEF Administer
<1>4. CASE \E a \in Buyer : Purchase(a)
  BY <1>4, LevelPurchase
<1>5. CASE SnapshotBegin \/ SnapshotRead \/ SnapshotWrite \/ SnapshotFail
  BY <1>5, LevelSnapshotBegin, LevelSnapshotRead, LevelSnapshotWrite, LevelSnapshotFail
<1>6. QED
  BY <1>1, <1>2, <1>3, <1>4, <1>5 DEF TreeNext

LEMMA LevelInvariance == TreeSpec => []LevelInv
  BY LevelInit, LevelStep, TreeInvariance, PTL DEF TreeSpec

\* The variables have their types; every row of account_relation is about two
\* accounts that exist, with a distance no longer than there are accounts.
THEOREM TreeTypeCorrect == TreeSpec => []TypeOK
<1>1. ASSUME TreeInv, LevelInv PROVE TypeOK
  <2>1. /\ account \subseteq Account /\ parent \in Parents /\ Mirrors(relation, parent)
        /\ Known(relation, account)
    BY <1>1 DEF TreeInv
  <2>2. relation \subseteq [superior : account, subordinate : account, level : Depth]
    BY <2>1, RelationTyped
  <2>3. DataTyped /\ JobsTyped
    BY <1>1 DEF LevelInv
  <2>4. \/ snapshot = NoSnapshot
        \/ /\ snapshot.pc \in {"begun", "read"}
           /\ snapshot.rows \subseteq snapshot.account
           /\ snapshot.level \in [Account -> 0..MaxVip]
    BY <1>1, <2>3 DEF JobsTyped, SnapshotType, Levels, LevelInv, SnapshotInv
  <2>5. /\ \A c \in Creator :
             \/ create[c] = NoCreate
             \/ create[c] \in [pc : {"read"}, account : Account, recommender : Account,
                              superiors : SUBSET Relation]
        /\ \/ move = NoMove
           \/ move \in [pc : {"locked"}, account : Account, superior : Account]
    BY <2>3 DEF JobsTyped, CreateType, MoveType
  <2>6. /\ held \subseteq Account /\ bought \in [Account -> 0..MaxBought]
        /\ {vip, due} \subseteq [Account -> 0..MaxVip]
        /\ threshold \in Threshold /\ moves \in 0..MaxMoves /\ mixed \in BOOLEAN
    BY <2>3 DEF DataTyped, Purchases, Levels
  <2>7. QED
    BY <2>1, <2>2, <2>4, <2>5, <2>6 DEF TypeOK, Parents
<1>2. QED
  BY <1>1, TreeInvariance, LevelInvariance, PTL

\* Unless a snapshot older than a move or an update of the threshold was written
\* last, every account has the level the rule gives it from the leaves up over the
\* parent links, as of the last recomputation: recompute_vip_levels, level by
\* level with its early end, computes the levels of compute_account_vip_level, and
\* the scheduler's snapshot that writes only the rows that differ writes enough.
THEOREM LevelsFollow == TreeSpec => []LevelsFollowTree
<1>1. LevelInv => LevelsFollowTree
  BY DEF LevelInv
<1>2. QED
  BY <1>1, LevelInvariance, PTL

-----------------------------------------------------------------------------
(***************************************************************************)
(* The views of a team.  A team is what the rows make of it: one row for   *)
(* each member, and each member in the branch of one direct subordinate.   *)
(***************************************************************************)
Tree == account \subseteq Account /\ parent \in Parents /\ Mirrors(relation, parent)

Members(a) == Subordinates(TeamRows(a))
Heads(a) == Subordinates(DirectRows(a))

LEMMA RowIs ==
  ASSUME Tree, NEW r \in relation
  PROVE  /\ r.superior \in Account /\ r.subordinate \in Account /\ r.level \in Generation
         /\ r = Row(r.superior, r.subordinate, r.level)
  BY DEF Tree, Mirrors, RowsOf, Row

LEMMA RowFields ==
  \A s, x, l : /\ Row(s, x, l).superior = s /\ Row(s, x, l).subordinate = x
               /\ Row(s, x, l).level = l
  BY DEF Row

LEMMA MemberIs ==
  ASSUME Tree, NEW a \in Account
  PROVE  /\ Members(a) \subseteq Account /\ a \notin Members(a)
         /\ \A x \in Account :
              x \in Members(a) <=> \E l \in Generation : Row(a, x, l) \in relation
<1>1. \A x : x \in Members(a) <=> \E r \in relation : r.superior = a /\ r.subordinate = x
  BY DEF Members, Subordinates, TeamRows
<1>2. Members(a) \subseteq Account
  BY <1>1, RowIs
<1>3. ASSUME NEW x \in Account
      PROVE  x \in Members(a) <=> \E l \in Generation : Row(a, x, l) \in relation
  BY <1>1, RowIs, RowFields
<1>4. a \notin Members(a)
  BY <1>3 DEF Tree, Mirrors, NoLoop
<1>5. QED
  BY <1>2, <1>3, <1>4

LEMMA HeadIs ==
  ASSUME Tree, NEW a \in Account
  PROVE  /\ Heads(a) \subseteq Account
         /\ \A d \in Account : d \in Heads(a) <=> Row(a, d, 1) \in relation
<1>1. \A d : d \in Heads(a) <=>
        \E r \in relation : r.superior = a /\ r.level = 1 /\ r.subordinate = d
  BY DEF Heads, Subordinates, DirectRows, TeamRows
<1>2. \A r \in relation : r.level = 1 => r = Row(r.superior, r.subordinate, 1)
  BY RowIs
<1>3. QED
  BY <1>1, <1>2, RowIs, RowFields

\* One row, one member.
LEMMA OneRowEach ==
  ASSUME Tree, NEW a \in Account
  PROVE  /\ \A r, q \in TeamRows(a) : r.subordinate = q.subordinate => r = q
         /\ IsFiniteSet(TeamRows(a)) /\ IsFiniteSet(Members(a))
         /\ Cardinality(TeamRows(a)) = Cardinality(Members(a))
<1> DEFINE f == [r \in TeamRows(a) |-> r.subordinate]
<1>1. ASSUME NEW r \in TeamRows(a), NEW q \in TeamRows(a), r.subordinate = q.subordinate
      PROVE  r = q
  <2>1. PICK x \in Account, i \in Generation, j \in Generation :
          r = Row(a, x, i) /\ q = Row(a, x, j) /\ r \in relation /\ q \in relation
    BY <1>1, RowIs DEF TeamRows
  <2>2. i = j
    BY <2>1, OneSuperiorPerLevel DEF Tree
  <2>3. QED
    BY <2>1, <2>2
<1>2. IsFiniteSet(Members(a))
  BY MemberIs, AccountsFinite, FS_Subset
<1>3. f \in [TeamRows(a) -> Members(a)] /\ \A t \in Members(a) : \E r \in TeamRows(a) : f[r] = t
  BY DEF Members, Subordinates
<1>4. \A r, q \in TeamRows(a) : f[r] = f[q] => r = q
  BY <1>1
<1> HIDE DEF f
<1>5. QED
  BY <1>1, <1>2, <1>3, <1>4, Counterparts

\* What the rows sum up is the purchases of the members.
LEMMA PerformanceIs ==
  ASSUME Tree, DataTyped, NEW a \in Account
  PROVE  /\ Summable(bought, Members(a))
         /\ Performance(TeamRows(a)) = SumFunctionOnSet(bought, Members(a))
<1> DEFINE key == [r \in TeamRows(a) |-> r.subordinate]
           g == [r \in TeamRows(a) |-> bought[r.subordinate]]
<1>1. \A x \in Account : bought[x] \in Int
  BY LevelBounds DEF DataTyped
<1>2. \A r \in TeamRows(a) : r.subordinate \in Account
  BY RowIs DEF TeamRows
<1>3. /\ \A r \in TeamRows(a) : bought[key[r]] \in Int /\ g[r] = bought[key[r]]
      /\ \A r, q \in TeamRows(a) : key[r] = key[q] => r = q
  BY <1>1, <1>2, OneRowEach
<1>4. Keyed(key, TeamRows(a)) = Members(a)
  BY DEF Keyed, Members, Subordinates
<1>5. Performance(TeamRows(a)) = SumFunction(g) /\ DOMAIN g = TeamRows(a)
  BY DEF Performance
<1> HIDE DEF key, g
<1>6. QED
  BY <1>3, <1>4, <1>5, OneRowEach, SumImage, SumAll

-----------------------------------------------------------------------------
(***************************************************************************)
(* The branches: every member is in that of one direct subordinate.        *)
(***************************************************************************)
LEMMA BranchIs ==
  ASSUME Tree, NEW d \in Account
  PROVE  /\ DirectBranch(d) \subseteq Account
         /\ \A x \in Account : x \in DirectBranch(d) <=> \E j : Below(d, x, j)
<1>1. DirectBranch(d) = {d} \cup Members(d)
  BY DEF DirectBranch, Members
<1>2. QED
  BY <1>1, MemberIs DEF Below

\* j levels below a head is j + 1 levels below the account.
LEMMA BelowHead ==
  ASSUME Tree, NEW a \in Account, NEW d \in Account, Row(a, d, 1) \in relation,
         NEW x \in Account, NEW j, Below(d, x, j)
  PROVE  j + 1 \in Generation /\ Row(a, x, j + 1) \in relation
<1>1. CASE x = d /\ j = 0
  BY <1>1 DEF Generation
<1>2. CASE j \in Generation /\ Row(d, x, j) \in relation
  <2>1. 1 \in Generation /\ j + 1 \in Generation
    BY <1>2 DEF Generation
  <2>2. Row(a, x, j + 1) \in relation <=> Row(a, d, 1) \in relation
    BY <1>2, <2>1, Split DEF Tree
  <2>3. QED
    BY <2>1, <2>2
<1>3. QED
  BY <1>1, <1>2 DEF Below

LEMMA HeadOver ==
  ASSUME Tree, NEW a \in Account
  PROVE  \A l \in Generation : \A x \in Account : Row(a, x, l) \in relation =>
           \E d \in Account : Row(a, d, 1) \in relation /\ \E j : Below(d, x, j)
<1> DEFINE Over(x) == \E d \in Account : Row(a, d, 1) \in relation /\ \E j : Below(d, x, j)
           S == {n \in Nat : \A x \in Account : Row(a, x, n + 1) \in relation => Over(x)}
<1>1. 0 \in S
  <2>1. ASSUME NEW x \in Account, Row(a, x, 1) \in relation PROVE Over(x)
    <3>1. Below(x, x, 0)
      BY DEF Below
    <3>2. QED
      BY <2>1, <3>1
  <2> HIDE DEF Over
  <2>2. 0 + 1 = 1
    OBVIOUS
  <2>3. QED
    BY <2>1, <2>2
<1>2. ASSUME NEW n \in Nat, n \in S PROVE n + 1 \in S
  <2>1. ASSUME NEW x \in Account, Row(a, x, (n + 1) + 1) \in relation PROVE Over(x)
    <3>1. PICK l \in Generation : l = n + 1
      BY DEF Generation
    <3>2. parent[x] \in Account /\ Row(a, parent[x], l) \in relation
      BY <2>1, <3>1 DEF Tree, Mirrors, Indirect
    <3>3. Over(parent[x])
      BY <1>2, <3>1, <3>2
    <3>4. PICK d \in Account : Row(a, d, 1) \in relation /\ \E j : Below(d, parent[x], j)
      BY <3>3
    <3>5. PICK j : Below(d, parent[x], j)
      BY <3>4
    <3>6. CASE parent[x] = d /\ j = 0
      <4>1. Row(d, x, 1) \in relation /\ 1 \in Generation
        BY <3>6 DEF Tree, Mirrors, Direct, Generation
      <4>2. Below(d, x, 1)
        BY <4>1 DEF Below
      <4>3. QED
        BY <3>4, <4>2
    <3>7. CASE j \in Generation /\ Row(d, parent[x], j) \in relation
      <4>1. Row(d, x, j + 1) \in relation /\ j + 1 \in Generation
        BY <3>2, <3>7 DEF Tree, Mirrors, Indirect, Generation
      <4>2. Below(d, x, j + 1)
        BY <4>1 DEF Below
      <4>3. QED
        BY <3>4, <4>2
    <3>8. QED
      BY <3>5, <3>6, <3>7 DEF Below
  <2> HIDE DEF Over
  <2>2. QED
    BY <2>1
<1>3. Nat \subseteq S
  <2> HIDE DEF S
  <2>1. QED
    BY <1>1, <1>2, CountingUp
<1>4. ASSUME NEW l \in Generation, NEW x \in Account, Row(a, x, l) \in relation PROVE Over(x)
  <2>1. PICK n \in Nat : l = n + 1
    <3>1. l - 1 \in Nat /\ l = (l - 1) + 1
      BY DEF Generation
    <3>2. QED
      BY <3>1
  <2> HIDE DEF Over
  <2>2. QED
    BY <1>3, <1>4, <2>1
<1>5. QED
  BY <1>4

LEMMA OneBranchEach ==
  ASSUME Tree, NEW a \in Account
  PROVE  /\ \A d \in Heads(a) : DirectBranch(d) \subseteq Members(a)
         /\ \A x \in Members(a) : \E d \in Heads(a) : x \in DirectBranch(d)
         /\ \A d, e \in Heads(a) : \A x : x \in DirectBranch(d) /\ x \in DirectBranch(e) => d = e
<1>1. ASSUME NEW d \in Heads(a), NEW x \in DirectBranch(d)
      PROVE  /\ d \in Account /\ x \in Account /\ Row(a, d, 1) \in relation
             /\ \E j : Below(d, x, j) /\ j + 1 \in Generation /\ Row(a, x, j + 1) \in relation
  BY HeadIs, BranchIs, BelowHead
<1>2. ASSUME NEW d \in Heads(a), NEW x \in DirectBranch(d) PROVE x \in Members(a)
  BY <1>1, MemberIs
<1>3. ASSUME NEW x \in Members(a) PROVE \E d \in Heads(a) : x \in DirectBranch(d)
  <2>1. x \in Account /\ \E l \in Generation : Row(a, x, l) \in relation
    BY MemberIs
  <2>2. PICK d \in Account : Row(a, d, 1) \in relation /\ \E j : Below(d, x, j)
    BY <2>1, HeadOver
  <2>3. QED
    BY <2>1, <2>2, HeadIs, BranchIs
<1>4. ASSUME NEW d \in Heads(a), NEW e \in Heads(a), NEW x \in DirectBranch(d),
             x \in DirectBranch(e)
      PROVE  d = e
  <2>1. PICK i : Below(d, x, i) /\ i + 1 \in Generation /\ Row(a, x, i + 1) \in relation
    BY <1>1
  <2>2. PICK j : Below(e, x, j) /\ j + 1 \in Generation /\ Row(a, x, j + 1) \in relation
    BY <1>1, <1>4
  <2>3. d \in Account /\ e \in Account /\ x \in Account
    BY HeadIs, BranchIs
  <2>4. i \in Nat /\ j \in Nat
    BY <2>1, <2>2 DEF Below, Generation
  <2>5. i + 1 = j + 1
    BY <2>1, <2>2, <2>3, OneSuperiorPerLevel DEF Tree
  <2>6. i = j
    BY <2>4, <2>5
  <2>7. CASE i = 0
    BY <2>1, <2>2, <2>6, <2>7 DEF Below, Generation
  <2>8. CASE i # 0
    <3>1. i \in Generation /\ Row(d, x, i) \in relation /\ Row(e, x, i) \in relation
      BY <2>1, <2>2, <2>6, <2>8 DEF Below
    <3>2. QED
      BY <2>3, <3>1, Only DEF Tree
  <2>9. QED
    BY <2>7, <2>8
<1>5. QED
  BY <1>2, <1>3, <1>4

\* Any sum over the team is the sum over its branches.
LEMMA SumOfBranches ==
  ASSUME Tree, NEW a \in Account, NEW f, Summable(f, Members(a)), NEW g,
         \A d \in Heads(a) : g[d] = SumFunctionOnSet(f, DirectBranch(d))
  PROVE  SumFunctionOnSet(g, Heads(a)) = SumFunctionOnSet(f, Members(a))
<1> DEFINE key == [x \in Members(a) |-> CHOOSE d \in Heads(a) : x \in DirectBranch(d)]
           h == ByGroup(f, Members(a), key, Heads(a))
<1>1. \A x \in Members(a) : key[x] \in Heads(a) /\ x \in DirectBranch(key[x])
  BY OneBranchEach
<1>2. ASSUME NEW d \in Heads(a) PROVE Group(Members(a), key, d) = DirectBranch(d)
  BY <1>1, OneBranchEach DEF Group
<1>3. IsFiniteSet(Heads(a))
  BY HeadIs, AccountsFinite, FS_Subset
<1> HIDE DEF key
<1>4. SumFunctionOnSet(h, Heads(a)) = SumFunctionOnSet(f, Members(a)) /\ Summable(h, Heads(a))
  BY <1>1, <1>3, SumByGroup, ByGroupSummable
<1>5. \A d \in Heads(a) : h[d] = g[d]
  BY <1>2 DEF ByGroup
<1> HIDE DEF h
<1>6. QED
  BY <1>4, <1>5, SumSame

-----------------------------------------------------------------------------
(***************************************************************************)
(* The superiors of an account: one at each distance up to the root.       *)
(***************************************************************************)
HasLevelUp(x, l) == \E s \in Account : Row(s, x, l) \in relation
ChainOf(x, h) == \A l \in Generation : HasLevelUp(x, l) <=> l <= h

LEMMA LowerLevel ==
  ASSUME Tree, NEW x \in Account, NEW k \in Generation, NEW d \in Nat,
         HasLevelUp(x, k + d)
  PROVE  k + d \in Depth /\ HasLevelUp(x, k)
<1>1. relation = Closure(parent) /\ parent \in Parents
  BY MirrorIsClosure DEF Tree
<1>2. PICK l : l = k + d
  OBVIOUS
<1>3. PICK s \in Account : Row(s, x, l) \in relation
  BY <1>2 DEF HasLevelUp
<1>4. l \in Depth /\ s # None /\ SuperiorAt(parent, x, l) = s
  BY <1>1, <1>3, ClosureRows
<1>5. k \in Nat /\ k \in Depth /\ k \in 0..Height /\ k + d <= Height /\ d <= Height
  BY <1>2, <1>4, HeightNat DEF Generation
<1>6. PICK b \in Account \cup {None} : b = SuperiorAt(parent, x, k)
  BY <1>1, <1>5, SuperiorType
<1>7. SuperiorAt(parent, x, k + d) = SuperiorAt(parent, b, d)
  BY <1>5, <1>6, ClimbOn
<1>8. b # None
  <2>1. SuperiorAt(parent, None, d) = None
    BY <1>5, NoneAboveNone
  <2>2. QED
    BY <1>2, <1>4, <1>7, <2>1
<1>9. Row(b, x, k) \in relation
  BY <1>1, <1>5, <1>6, <1>8, ClosureRows
<1>10. QED
  BY <1>2, <1>4, <1>6, <1>8, <1>9 DEF HasLevelUp

LEMMA ChainExists ==
  ASSUME Tree, NEW x \in Account
  PROVE  \E h \in Nat : ChainOf(x, h)
<1> DEFINE S == {n \in Nat : \A l \in Generation : l <= n => HasLevelUp(x, l)}
<1>1. SUFFICES ASSUME \A h \in Nat : ~ChainOf(x, h) PROVE FALSE
  OBVIOUS
<1>2. 0 \in S
  BY DEF Generation
<1>3. ASSUME NEW n \in Nat, n \in S PROVE n + 1 \in S
  <2>1. PICK k \in Generation : k = n + 1
    BY DEF Generation
  <2>2. HasLevelUp(x, k)
    <3>1. SUFFICES ASSUME ~HasLevelUp(x, k) PROVE ChainOf(x, n)
      BY <1>1
    <3>2. ASSUME NEW l \in Generation, HasLevelUp(x, l) PROVE l <= n
      <4>1. SUFFICES ASSUME l > n PROVE FALSE
        BY DEF Generation
      <4>2. PICK d \in Nat : l = k + d
        <5>1. l - k \in Nat /\ l = k + (l - k)
          BY <2>1, <4>1 DEF Generation
        <5>2. QED
          BY <5>1
      <4>3. QED
        BY <3>1, <3>2, <4>2, LowerLevel
    <3>3. QED
      BY <1>3, <3>2 DEF ChainOf
  <2>3. \A l \in Generation : l <= n + 1 => l <= n \/ l = k
    BY <2>1 DEF Generation
  <2>4. QED
    BY <1>3, <2>2, <2>3
<1>4. Nat \subseteq S
  <2> HIDE DEF S
  <2>1. QED
    BY <1>2, <1>3, CountingUp
<1>5. PICK k \in Generation : k = Height + 1
  BY HeightNat DEF Generation
<1>6. k \in Nat /\ k <= k /\ k + 0 = k
  BY DEF Generation
<1>7. HasLevelUp(x, k)
  BY <1>4, <1>6
<1>8. k \in Depth
  BY <1>6, <1>7, LowerLevel
<1>9. QED
  BY <1>5, <1>8, HeightNat

Higher(x, l) == {q \in SuperiorsOf(x) : q.level > l}

LEMMA HigherCount ==
  ASSUME Tree, NEW x \in Account, NEW h \in Nat, ChainOf(x, h), NEW l \in 0..h
  PROVE  Cardinality(Higher(x, l)) = h - l
<1> DEFINE f == [q \in Higher(x, l) |-> q.level]
           T == (l + 1)..h
<1>1. \A q \in Higher(x, l) : /\ q \in relation /\ q.subordinate = x /\ q.level > l
                              /\ q.superior \in Account /\ q.level \in Generation
                              /\ q = Row(q.superior, x, q.level)
  BY RowIs DEF Higher, SuperiorsOf
<1>2. f \in [Higher(x, l) -> T]
  <2>1. ASSUME NEW q \in Higher(x, l) PROVE q.level \in T
    <3>1. q.level <= h
      BY <1>1 DEF ChainOf, HasLevelUp
    <3>2. QED
      BY <1>1, <3>1 DEF Generation
  <2>2. QED
    BY <2>1
<1>3. ASSUME NEW q \in Higher(x, l), NEW r \in Higher(x, l), f[q] = f[r] PROVE q = r
  <2>1. q.level = r.level
    BY <1>3
  <2>2. q.superior = r.superior
    BY <1>1, <2>1, Only DEF Tree
  <2>3. QED
    BY <1>1, <2>1, <2>2
<1>4. ASSUME NEW k \in T PROVE \E q \in Higher(x, l) : f[q] = k
  <2>1. k \in Generation /\ k <= h /\ k > l
    BY DEF Generation
  <2>2. PICK s \in Account : Row(s, x, k) \in relation
    BY <2>1 DEF ChainOf, HasLevelUp
  <2>3. PICK q : q = Row(s, x, k)
    OBVIOUS
  <2>4. q.subordinate = x /\ q.level = k
    BY <2>3, RowFields
  <2>5. q \in Higher(x, l)
    BY <2>1, <2>2, <2>3, <2>4 DEF Higher, SuperiorsOf
  <2>6. QED
    BY <2>4, <2>5
<1>5. l + 1 \in Int /\ h \in Int /\ (IF l + 1 > h THEN 0 ELSE h - (l + 1) + 1) = h - l
  OBVIOUS
<1>6. IsFiniteSet(T) /\ Cardinality(T) = h - l
  BY <1>5, FS_Interval
<1> HIDE DEF f, T
<1>7. QED
  BY <1>2, <1>3, <1>4, <1>6, Counterparts

\* The chain has one superior for each distance, the farthest first.
LEMMA ChainIs ==
  ASSUME Tree, NEW x \in Account, NEW h \in Nat, ChainOf(x, h)
  PROVE  /\ Len(superiorChain(x)) = h
         /\ \A l \in 1..h : \A s \in Account :
              Row(s, x, l) \in relation => superiorChain(x)[h + 1 - l] = s
<1> DEFINE Rank(i) == CHOOSE r \in SuperiorsOf(x) : Cardinality(Higher(x, r.level)) = i - 1
           c == [i \in 1..h |-> Rank(i).superior]
<1>1. \A r \in SuperiorsOf(x) : /\ r \in relation /\ r.superior \in Account
                                /\ r.level \in Generation
                                /\ r = Row(r.superior, x, r.level)
  BY RowIs DEF SuperiorsOf
<1>2. \A r \in SuperiorsOf(x) : r.level \in 1..h
  BY <1>1 DEF ChainOf, HasLevelUp, Generation
<1>3. Higher(x, 0) = SuperiorsOf(x)
  BY <1>1 DEF Higher, Generation
<1>4. Cardinality(SuperiorsOf(x)) = h
  <2>1. 0 \in 0..h /\ h - 0 = h
    OBVIOUS
  <2>2. QED
    BY <1>3, <2>1, HigherCount
<1>5. superiorChain(x) = c
  <2>1. superiorChain(x) = [i \in 1..Cardinality(SuperiorsOf(x)) |-> Rank(i).superior]
    BY DEF superiorChain, Higher
  <2>2. QED
    BY <1>4, <2>1
<1>6. ASSUME NEW l \in 1..h, NEW s \in Account, Row(s, x, l) \in relation
      PROVE  Rank(h + 1 - l) = Row(s, x, l)
  <2>1. PICK r : r = Row(s, x, l)
    OBVIOUS
  <2>2. r \in SuperiorsOf(x) /\ r.level = l
    BY <1>6, <2>1, RowFields DEF SuperiorsOf
  <2>3. l \in 0..h
    OBVIOUS
  <2>4. Cardinality(Higher(x, r.level)) = (h + 1 - l) - 1
    BY <2>2, <2>3, HigherCount
  <2>5. ASSUME NEW q \in SuperiorsOf(x), Cardinality(Higher(x, q.level)) = (h + 1 - l) - 1
        PROVE  q = r
    <3>1. PICK k \in 1..h : k = q.level
      BY <1>2
    <3>2. k \in 0..h
      OBVIOUS
    <3>3. h - k = (h + 1 - l) - 1
      BY <2>5, <3>1, <3>2, HigherCount
    <3>4. k = l
      BY <3>3
    <3>5. q = Row(q.superior, x, l) /\ l \in Generation /\ q \in relation
          /\ q.superior \in Account
      BY <1>1, <3>1, <3>4
    <3>6. q.superior = s
      BY <1>6, <3>5, Only DEF Tree
    <3>7. QED
      BY <2>1, <3>5, <3>6
  <2>6. QED
    BY <2>1, <2>2, <2>4, <2>5
<1>7. ASSUME NEW i \in 1..h PROVE Rank(i).superior \in Account
  <2>1. PICK l \in 1..h : i = h + 1 - l
    <3>1. h + 1 - i \in 1..h /\ i = h + 1 - (h + 1 - i)
      OBVIOUS
    <3>2. QED
      BY <3>1
  <2>2. PICK s \in Account : Row(s, x, l) \in relation
    BY DEF ChainOf, HasLevelUp, Generation
  <2> HIDE DEF Rank
  <2>3. QED
    BY <1>6, <2>1, <2>2, RowFields
<1> HIDE DEF Rank
<1>8. c \in Seq(Account) /\ DOMAIN c = 1..h
  BY <1>7
<1>9. Len(c) = h
  BY <1>8
<1>10. ASSUME NEW l \in 1..h, NEW s \in Account, Row(s, x, l) \in relation
       PROVE  c[h + 1 - l] = s
  <2>1. h + 1 - l \in 1..h
    OBVIOUS
  <2>2. QED
    BY <1>6, <1>10, <2>1, RowFields
<1> HIDE DEF c
<1>11. QED
  BY <1>5, <1>9, <1>10

-----------------------------------------------------------------------------
(***************************************************************************)
(* The views agree.                                                        *)
(***************************************************************************)
MemberRow(r) == [account |-> r.subordinate, level |-> r.level, superior |-> parent[r.subordinate]]

LEMMA ParentOfRow ==
  ASSUME Tree, NEW r \in relation
  PROVE  parent[r.subordinate] \in Account /\ DirectSuperior(r.subordinate) = {parent[r.subordinate]}
<1>1. PICK s \in Account, x \in Account, l \in Generation :
        r = Row(s, x, l) /\ r.subordinate = x /\ Row(s, x, l) \in relation
  BY RowIs
<1>2. parent[x] \in Account
  <2>1. CASE l = 1
    BY <1>1, <2>1 DEF Tree, Mirrors, Direct
  <2>2. CASE l # 1
    <3>1. PICK k \in Generation : l = k + 1
      <4>1. l - 1 \in Generation /\ l = (l - 1) + 1
        BY <2>2 DEF Generation
      <4>2. QED
        BY <4>1
    <3>2. QED
      BY <1>1, <3>1 DEF Tree, Mirrors, Indirect
  <2>3. QED
    BY <2>1, <2>2
<1>3. Row(parent[x], x, 1) \in relation
  BY <1>2 DEF Tree, Mirrors, Direct
<1>4. \A q \in relation : q.subordinate = x /\ q.level = 1 => q.superior = parent[x]
  <2>1. ASSUME NEW q \in relation, q.subordinate = x, q.level = 1 PROVE q.superior = parent[x]
    <3>1. Row(q.superior, x, 1) \in relation /\ q.superior \in Account
      BY <2>1, RowIs
    <3>2. QED
      BY <3>1 DEF Tree, Mirrors, Direct
  <2>2. QED
    BY <2>1
<1>5. DirectSuperior(x) = {q.superior : q \in {p \in relation : p.subordinate = x /\ p.level = 1}}
  BY DEF DirectSuperior
<1>6. parent[x] \in DirectSuperior(x)
  BY <1>3, <1>5, RowFields
<1>7. DirectSuperior(x) = {parent[x]}
  BY <1>4, <1>5, <1>6
<1>8. QED
  BY <1>1, <1>2, <1>7

LEMMA MemberList ==
  ASSUME Tree, Known(relation, account), NEW a \in Account
  PROVE  getUserTeamMembers(a, Depth) = {MemberRow(r) : r \in TeamRows(a)}
<1>1. ASSUME NEW r \in TeamRows(a)
      PROVE  /\ r.level \in Depth /\ r \in relation
             /\ DirectSuperior(r.subordinate) = {parent[r.subordinate]}
  <2>1. r \in relation
    BY DEF TeamRows
  <2>2. relation \subseteq [superior : account, subordinate : account, level : Depth]
    BY RelationTyped DEF Tree
  <2>3. r.level \in Depth
    BY <2>1, <2>2
  <2>4. QED
    BY <2>1, <2>3, ParentOfRow
<1> DEFINE Superiors(r) == IF DirectSuperior(r.subordinate) = {} THEN {None}
                           ELSE DirectSuperior(r.subordinate)
           Listed(r) == {[account |-> r.subordinate, level |-> r.level, superior |-> s] :
                           s \in Superiors(r)}
<1>2. getUserTeamMembers(a, Depth) = UNION {Listed(r) : r \in {q \in TeamRows(a) : q.level \in Depth}}
  BY DEF getUserTeamMembers
<1>3. {q \in TeamRows(a) : q.level \in Depth} = TeamRows(a)
  BY <1>1
<1>4. ASSUME NEW r \in TeamRows(a) PROVE Listed(r) = {MemberRow(r)}
  <2>1. Superiors(r) = {parent[r.subordinate]}
    BY <1>1
  <2> HIDE DEF Superiors
  <2>2. QED
    BY <2>1 DEF MemberRow
<1> HIDE DEF Listed
<1>5. QED
  BY <1>2, <1>3, <1>4

LEMMA MemberCount ==
  ASSUME Tree, Known(relation, account), NEW a \in Account
  PROVE  Cardinality(getUserTeamMembers(a, Depth)) = Cardinality(Members(a))
<1> DEFINE M == {MemberRow(r) : r \in TeamRows(a)}
           f == [m \in M |-> m.account]
<1>1. \A r : MemberRow(r).account = r.subordinate
  BY DEF MemberRow
<1>2. f \in [M -> Members(a)]
  BY <1>1 DEF Members, Subordinates
<1>3. ASSUME NEW m \in M, NEW n \in M, f[m] = f[n] PROVE m = n
  <2>1. PICK r \in TeamRows(a), q \in TeamRows(a) : m = MemberRow(r) /\ n = MemberRow(q)
    OBVIOUS
  <2>2. r.subordinate = q.subordinate
    BY <1>1, <1>3, <2>1
  <2>3. r = q
    BY <2>2, OneRowEach
  <2>4. QED
    BY <2>1, <2>3
<1>4. ASSUME NEW x \in Members(a) PROVE \E m \in M : f[m] = x
  <2>1. PICK r \in TeamRows(a) : r.subordinate = x
    BY DEF Members, Subordinates
  <2>2. MemberRow(r) \in M /\ f[MemberRow(r)] = x
    BY <1>1, <2>1
  <2>3. QED
    BY <2>2
<1>5. getUserTeamMembers(a, Depth) = M
  BY MemberList
<1> HIDE DEF M, f
<1>6. QED
  BY <1>2, <1>3, <1>4, <1>5, OneRowEach, Counterparts

\* Below whom a member is, by its chain.
LEMMA MemberChain ==
  ASSUME Tree, Known(relation, account), NEW a \in Account,
         NEW m \in getUserTeamMembers(a, Depth)
  PROVE  /\ superiorChain(m.account)[Len(superiorChain(m.account))] = m.superior
         /\ superiorChain(m.account)[Len(superiorChain(m.account)) + 1 - m.level] = a
<1>1. PICK r \in TeamRows(a) : m = MemberRow(r)
  BY MemberList
<1>2. r \in relation /\ r.superior = a
  BY DEF TeamRows
<1>3. PICK x \in Account, l \in Generation :
        /\ r = Row(a, x, l) /\ r.subordinate = x /\ r.level = l /\ Row(a, x, l) \in relation
  BY <1>2, RowIs
<1>4. m.account = x /\ m.level = l /\ m.superior = parent[x]
  BY <1>1, <1>3 DEF MemberRow
<1>5. parent[x] \in Account
  BY <1>2, <1>3, ParentOfRow
<1>6. Row(parent[x], x, 1) \in relation
  BY <1>5 DEF Tree, Mirrors, Direct
<1>7. PICK h \in Nat : ChainOf(x, h)
  BY ChainExists
<1>8. l \in 1..h /\ 1 \in 1..h
  BY <1>3, <1>7 DEF ChainOf, HasLevelUp, Generation
<1> DEFINE chain == superiorChain(x)
<1>9. /\ Len(chain) = h
      /\ chain[h + 1 - 1] = parent[x] /\ chain[h + 1 - l] = a
  BY <1>3, <1>5, <1>6, <1>7, <1>8, ChainIs
<1>10. h + 1 - 1 = h
  OBVIOUS
<1> HIDE DEF chain
<1>11. QED
  BY <1>4, <1>9, <1>10 DEF chain

\* What the branches count and sum up.
LEMMA BranchSums ==
  ASSUME Tree, DataTyped, NEW a \in Account
  PROVE  LET branches == getUserTeamBranches(a) IN
         /\ DOMAIN branches = Heads(a)
         /\ SumFunction([d \in DOMAIN branches |-> branches[d].branchTeamCount])
              = Cardinality(Members(a))
         /\ SumFunction([d \in DOMAIN branches |-> branches[d].branchPerformance])
              = SumFunctionOnSet(bought, Members(a))
<1> DEFINE branches == getUserTeamBranches(a)
           one == [x \in Members(a) |-> 1]
           counts == [d \in Heads(a) |-> branches[d].branchTeamCount]
           sums == [d \in Heads(a) |-> branches[d].branchPerformance]
<1>1. branches = [d \in Heads(a) |->
                    [branchTeamCount |-> Cardinality(DirectBranch(d)),
                     branchPerformance |-> SumFunctionOnSet(bought, DirectBranch(d))]]
  BY DEF getUserTeamBranches, Heads
<1>2. /\ DOMAIN branches = Heads(a)
      /\ \A d \in Heads(a) : /\ counts[d] = Cardinality(DirectBranch(d))
                             /\ sums[d] = SumFunctionOnSet(bought, DirectBranch(d))
  BY <1>1
<1>3. IsFiniteSet(Members(a)) /\ Cardinality(Members(a)) \in Nat
  BY OneRowEach, FS_CardinalityType
<1>4. Summable(one, Members(a)) /\ SumFunctionOnSet(one, Members(a)) = Cardinality(Members(a))
  <2>1. 1 \in Int /\ \A x \in Members(a) : one[x] = 1
    OBVIOUS
  <2> HIDE DEF one
  <2>2. /\ Summable(one, Members(a))
        /\ SumFunctionOnSet(one, Members(a)) = 1 * Cardinality(Members(a))
    BY <1>3, <2>1, SumConstant
  <2>3. QED
    BY <1>3, <2>2
<1>5. ASSUME NEW d \in Heads(a)
      PROVE  Cardinality(DirectBranch(d)) = SumFunctionOnSet(one, DirectBranch(d))
  <2>1. DirectBranch(d) \subseteq Members(a)
    BY OneBranchEach
  <2>2. IsFiniteSet(DirectBranch(d)) /\ Cardinality(DirectBranch(d)) \in Nat
    BY <1>3, <2>1, FS_Subset, FS_CardinalityType
  <2>3. 1 \in Int /\ \A x \in DirectBranch(d) : one[x] = 1
    BY <2>1
  <2> HIDE DEF one
  <2>4. SumFunctionOnSet(one, DirectBranch(d)) = 1 * Cardinality(DirectBranch(d))
    BY <2>2, <2>3, SumConstant
  <2>5. QED
    BY <2>2, <2>4
<1>6. DOMAIN counts = Heads(a) /\ DOMAIN sums = Heads(a)
  OBVIOUS
<1> HIDE DEF one, counts, sums
<1>7. SumFunctionOnSet(counts, Heads(a)) = Cardinality(Members(a))
  BY <1>2, <1>4, <1>5, SumOfBranches
<1>8. SumFunctionOnSet(sums, Heads(a)) = SumFunctionOnSet(bought, Members(a))
  BY <1>2, PerformanceIs, SumOfBranches
<1>9. /\ SumFunction(counts) = Cardinality(Members(a))
      /\ SumFunction(sums) = SumFunctionOnSet(bought, Members(a))
  BY <1>6, <1>7, <1>8, SumAll
<1>10. /\ [d \in DOMAIN branches |-> branches[d].branchTeamCount] = counts
       /\ [d \in DOMAIN branches |-> branches[d].branchPerformance] = sums
  BY <1>2 DEF counts, sums
<1> HIDE DEF branches
<1>11. QED
  BY <1>2, <1>9, <1>10 DEF branches

LEMMA TeamSums ==
  ASSUME Tree, DataTyped, NEW a \in Account
  PROVE  /\ getTeam(a).teamCount = Cardinality(Members(a))
         /\ getTeam(a).directCount = Cardinality(Heads(a))
         /\ getTeam(a).totalPerformance = SumFunctionOnSet(bought, Members(a))
<1> DEFINE performance == [d \in Heads(a) |-> SumFunctionOnSet(bought, DirectBranch(d))]
<1>1. /\ getTeam(a).teamCount = Cardinality(TeamRows(a))
      /\ getTeam(a).directCount = Cardinality(DOMAIN performance)
      /\ getTeam(a).totalPerformance = SumFunction(performance)
  BY DEF getTeam, Heads
<1>2. /\ DOMAIN performance = Heads(a)
      /\ \A d \in Heads(a) : performance[d] = SumFunctionOnSet(bought, DirectBranch(d))
  OBVIOUS
<1> HIDE DEF performance
<1>3. SumFunction(performance) = SumFunctionOnSet(bought, Members(a))
  BY <1>2, PerformanceIs, SumOfBranches, SumAll
<1>4. QED
  BY <1>1, <1>2, <1>3, OneRowEach

\* Whose orders are shown to whom.
LEMMA MakersAgree ==
  ASSUME Tree, NEW a \in Account
  PROVE  /\ a \notin MarketMaker => Makers(a, "sell") = getUserTeamAddresses(a)
         /\ \A b \in Makers(a, "buy") \ MarketMaker :
              a \in MarketMaker \/ a \in Makers(b, "buy")
<1> DEFINE Superiors(x) == {r.superior : r \in SuperiorsOf(x)}
<1>1. \A x : /\ Makers(x, "buy") = {x} \cup Members(x) \cup Superiors(x)
                                       \cup (MarketMaker \cap account)
             /\ getUserTeamAddresses(x) = {x} \cup Members(x)
             /\ x \notin MarketMaker => Makers(x, "sell") = {x} \cup Members(x)
  BY DEF Makers, Members, getUserTeamAddresses
<1>2. \A x, y : y \in Superiors(x) <=> x \in Members(y)
  BY DEF SuperiorsOf, Members, Subordinates, TeamRows
<1> HIDE DEF Superiors
<1>3. ASSUME NEW b \in Makers(a, "buy") \ MarketMaker PROVE a \in Makers(b, "buy")
  <2>1. b = a \/ b \in Members(a) \/ b \in Superiors(a)
    BY <1>1
  <2>2. b = a \/ a \in Superiors(b) \/ a \in Members(b)
    BY <1>2, <2>1
  <2>3. QED
    BY <1>1, <2>2
<1>4. QED
  BY <1>1, <1>3

LEMMA SameForOne ==
  ASSUME Tree, Known(relation, account), DataTyped, NEW a \in Account
  PROVE  SameTeam(a)
<1> DEFINE overview == getUserTeamOverview(a)
           branches == getUserTeamBranches(a)
           members == getUserTeamMembers(a, Depth)
           n == Cardinality(Members(a))
           p == SumFunctionOnSet(bought, Members(a))
<1>1. /\ overview.teamCount = n /\ overview.directCount = Cardinality(Heads(a))
      /\ overview.teamPerformance = p
      /\ getUsers(a).teamCount = n /\ getUsers(a).teamPerformance = p
  BY PerformanceIs DEF getUserTeamOverview, getUsers, Members, Heads
<1>2. Cardinality(getUserTeamAddresses(a)) = 1 + n
  <2>1. getUserTeamAddresses(a) = Members(a) \cup {a} /\ a \notin Members(a)
    BY MemberIs DEF getUserTeamAddresses, Members
  <2>2. IsFiniteSet(Members(a)) /\ n \in Nat
    BY OneRowEach, FS_CardinalityType
  <2>3. QED
    BY <2>1, <2>2, FS_AddElement
<1>3. getUserTeamMinerPurchaseStats(a).totalMinerPrice = bought[a] + p
  <2>1. getUserTeamMinerPurchaseStats(a).totalMinerPrice = SumFunctionOnSet(bought, Members(a) \cup {a})
    <3>1. {a} \cup Members(a) = Members(a) \cup {a}
      OBVIOUS
    <3>2. QED
      BY <3>1 DEF getUserTeamMinerPurchaseStats, Members
  <2>2. bought[a] \in Int
    BY LevelBounds DEF DataTyped
  <2>3. QED
    BY <2>1, <2>2, MemberIs, PerformanceIs, SumInsert
<1>4. Cardinality(members) = n
  BY MemberCount
<1>5. /\ SumFunction([d \in DOMAIN branches |-> branches[d].branchTeamCount]) = n
      /\ SumFunction([d \in DOMAIN branches |-> branches[d].branchPerformance]) = p
  BY BranchSums
<1>6. /\ getTeam(a).teamCount = n /\ getTeam(a).directCount = Cardinality(Heads(a))
      /\ getTeam(a).totalPerformance = p
  BY TeamSums
<1>7. \A m \in members :
        LET chain == superiorChain(m.account)
        IN chain[Len(chain)] = m.superior /\ chain[Len(chain) + 1 - m.level] = a
  BY MemberChain
<1>8. /\ a \notin MarketMaker => Makers(a, "sell") = getUserTeamAddresses(a)
      /\ \A b \in Makers(a, "buy") \ MarketMaker : a \in MarketMaker \/ a \in Makers(b, "buy")
  BY MakersAgree
<1> HIDE DEF overview, branches, members, n, p
<1>9. QED
  BY <1>1, <1>2, <1>3, <1>4, <1>5, <1>6, <1>7, <1>8 DEF SameTeam, overview, branches, members

\* However users and administrators look at a team they see the same one, for any
\* tree and whatever registrations, moves and deletions went before: the rows, the
\* accounts, the members and the branches count alike, the performances add up, the
\* chains of superiors lead down to the superiors shown, and orders are shown to the
\* team and nobody else.
THEOREM ViewsAgree == TreeSpec => []TeamViewsAgree
<1>1. ASSUME TreeInv, LevelInv PROVE TeamViewsAgree
  <2>1. Tree /\ Known(relation, account) /\ DataTyped
    BY <1>1 DEF TreeInv, LevelInv, Tree
  <2>2. \A a \in account : SameTeam(a)
    BY <2>1, SameForOne DEF Tree
  <2>3. QED
    BY <2>2 DEF TeamViewsAgree
<1>2. QED
  BY <1>1, TreeInvariance, LevelInvariance, PTL

-----------------------------------------------------------------------------
(***************************************************************************)
(* Proofs about the distribution of dividends, for any tree, any levels,   *)
(* any kinds and rules, and any registrations, moves, deletions and        *)
(* recomputations in between: first who is listed, locked and written      *)
(* when, then what is paid.                                                *)
(***************************************************************************)

(***************************************************************************)
(* The steps of a distribution go through the kinds in order, and through  *)
(* the levels of a kind in order: kind and level determine the step.       *)
(***************************************************************************)
LEMMA DivMod ==
  ASSUME NEW i \in Nat, NEW m \in Nat \ {0}
  PROVE  /\ i \div m \in Nat /\ i % m \in 0..(m - 1)
         /\ i = m * (i \div m) + (i % m)
<1>1. i \div m \in Nat
  OBVIOUS
<1>2. i % m \in 0..(m - 1)
  OBVIOUS
<1>3. i = m * (i \div m) + (i % m)
  OBVIOUS
<1>4. QED
  BY <1>1, <1>2, <1>3

LEMMA KindIndex ==
  ASSUME NEW n \in Nat, NEW m \in Nat \ {0}, NEW i \in Nat, i < n * m
  PROVE  i \div m < n
<1>1. /\ i \div m \in Nat /\ i % m \in 0..(m - 1)
      /\ i = m * (i \div m) + (i % m)
  BY DivMod
<1>2. SUFFICES ASSUME i \div m >= n PROVE FALSE
  BY <1>1
<1>3. PICK d \in Nat : i \div m = n + d
  <2>1. (i \div m) - n \in Nat
    BY <1>1, <1>2
  <2>2. i \div m = n + ((i \div m) - n)
    BY <1>1
  <2>3. QED
    BY <2>1, <2>2
<1>4. m * (n + d) = n * m + m * d /\ m * d \in Nat /\ n * m \in Nat
  OBVIOUS
<1>5. QED
  BY <1>1, <1>3, <1>4

LEMMA StepUnique ==
  ASSUME NEW p \in 1..Steps, NEW q \in 1..Steps,
         KindOf(p) = KindOf(q), LevelOf(p) = LevelOf(q)
  PROVE  p = q
<1>1. /\ MaxVip \in Nat \ {0} /\ Len(Kinds) \in Nat /\ Steps \in Nat
  BY TreeAssumption, DividendAssumption DEF Steps
<1>2. /\ p - 1 \in Nat /\ q - 1 \in Nat
      /\ p - 1 < Len(Kinds) * MaxVip /\ q - 1 < Len(Kinds) * MaxVip
  BY <1>1 DEF Steps
<1>3. /\ (p - 1) \div MaxVip \in Nat /\ (p - 1) \div MaxVip < Len(Kinds)
      /\ (q - 1) \div MaxVip \in Nat /\ (q - 1) \div MaxVip < Len(Kinds)
  BY <1>1, <1>2, DivMod, KindIndex
<1>4. /\ (p - 1) \div MaxVip + 1 \in 1..Len(Kinds)
      /\ (q - 1) \div MaxVip + 1 \in 1..Len(Kinds)
  BY <1>1, <1>3
<1>5. (p - 1) \div MaxVip = (q - 1) \div MaxVip
  <2>1. (p - 1) \div MaxVip + 1 = (q - 1) \div MaxVip + 1
    BY <1>4, DividendAssumption DEF KindOf
  <2>2. QED
    BY <1>3, <2>1
<1>6. (p - 1) % MaxVip = (q - 1) % MaxVip
  <2>1. (p - 1) % MaxVip \in Nat /\ (q - 1) % MaxVip \in Nat
    BY <1>1, <1>2, DivMod
  <2>2. QED
    BY <2>1 DEF LevelOf
<1>7. /\ p - 1 = MaxVip * ((p - 1) \div MaxVip) + ((p - 1) % MaxVip)
      /\ q - 1 = MaxVip * ((q - 1) \div MaxVip) + ((q - 1) % MaxVip)
  BY <1>1, <1>2, DivMod
<1>8. p - 1 = q - 1
  BY <1>5, <1>6, <1>7
<1>9. QED
  BY <1>8

-----------------------------------------------------------------------------
(***************************************************************************)
(* The tree.  Nobody writes the level of an account whose row another      *)
(* transaction has locked, or deletes it.                                  *)
(***************************************************************************)
HeldInv == DOMAIN vip = Account /\ held \subseteq Account \cap account

HeldKept ==
  /\ DOMAIN vip' = Account /\ held' = held /\ held \subseteq Account \cap account'
  /\ \A a \in held : vip'[a] = vip[a]

LEMMA RecomputeHeld ==
  ASSUME HeldInv, NEW rel, NEW up, NEW limit, RecomputeNow(rel, up, limit),
         UNCHANGED <<held, account>>
  PROVE  HeldKept
<1> DEFINE level == VipLevels(rel, bought, limit)
<1>1. /\ \A a \in account : level[a] # vip[a] => a \notin held
      /\ vip' = [a \in Account |-> IF a \in account THEN level[a] ELSE 0]
  BY DEF RecomputeNow
<1> HIDE DEF level
<1>2. \A a \in held : vip'[a] = vip[a]
  BY <1>1 DEF HeldInv
<1>3. QED
  BY <1>1, <1>2 DEF HeldInv, HeldKept

LEMMA TreeHeld ==
  ASSUME HeldInv,
         \/ Register \/ Administer \/ \E a \in Buyer : Purchase(a)
         \/ SnapshotBegin \/ SnapshotRead \/ SnapshotWrite \/ SnapshotFail
  PROVE  HeldKept
<1>1. ASSUME UNCHANGED <<account, vip, held>> PROVE HeldKept
  BY <1>1 DEF HeldInv, HeldKept
<1>2. CASE Register
  <2>1. ASSUME NEW c \in Creator, CreateInsert(c) PROVE HeldKept
    <3>1. \E a : account' = account \cup {a} /\ UNCHANGED <<vip, held>>
      BY <2>1 DEF CreateInsert
    <3>2. QED
      BY <3>1 DEF HeldInv, HeldKept
  <2>2. QED
    BY <1>1, <1>2, <2>1 DEF Register, CreateRead, CreateFail
<1>3. ASSUME NEW a \in Deletable, DeleteUser(a) PROVE HeldKept
  <2>1. /\ a \notin held /\ account' = account \ {a} /\ held' = held
        /\ vip' = [vip EXCEPT ![a] = 0]
    BY <1>3 DEF DeleteUser
  <2>2. QED
    BY <2>1 DEF HeldInv, HeldKept
<1>4. CASE MoveCommit
  <2>1. RecomputeNow(relation', parent', threshold) /\ UNCHANGED <<held, account>>
    BY <1>4 DEF MoveCommit
  <2>2. QED
    BY <2>1, RecomputeHeld
<1>5. ASSUME NEW limit \in Threshold, UpdateThreshold(limit) PROVE HeldKept
  <2>1. RecomputeNow(relation, parent, limit) /\ UNCHANGED <<held, account>>
    BY <1>5 DEF UpdateThreshold
  <2>2. QED
    BY <2>1, RecomputeHeld
<1>6. CASE SnapshotWrite
  <2>1. /\ snapshot.rows \cap held = {} /\ UNCHANGED <<held, account>>
        /\ vip' = [a \in Account |->
                     IF a \in snapshot.rows THEN snapshot.level[a] ELSE vip[a]]
    BY <1>6 DEF SnapshotWrite
  <2>2. QED
    BY <2>1 DEF HeldInv, HeldKept
<1>7. QED
  BY <1>1, <1>2, <1>3, <1>4, <1>5, <1>6
  DEF Administer, Purchase, MoveLock, MoveFail, SnapshotBegin, SnapshotRead, SnapshotFail

-----------------------------------------------------------------------------
(***************************************************************************)
(* The inductive invariant.  Whoever has been paid is locked, so the level *)
(* it was listed for is the one it has until the commit, unless it had     *)
(* changed before the lock; when a later level of the kind is listed the   *)
(* account is therefore not in that list.                                  *)
(***************************************************************************)
LevelAt(a, step) == HasLevel(a, KindOf(step), LevelOf(step))

PayShape ==
  \E n, r, st, ls, sh, sd, pd, ch :
    /\ st \in 0..Steps /\ sd \in BOOLEAN
    /\ round = [pc |-> "pay", net |-> n, rules |-> r, step |-> st, list |-> ls,
                share |-> sh, shared |-> sd, paid |-> pd, changed |-> ch]

PaidInv(rd) ==
  \A p \in rd.paid :
    /\ p.account \in held /\ p.step \in 1..rd.step
    /\ p.shared /\ ~p.changed => LevelAt(p.account, p.step)

ListInv(rd) ==
  /\ rd.list # {} => rd.step # 0
  /\ rd.shared =>
       \A a \in rd.list \cap Account :
         /\ a \notin rd.changed => LevelAt(a, rd.step)
         /\ \A p \in rd.paid :
              p.account = a /\ p.step < rd.step /\ KindOf(p.step) = KindOf(rd.step) /\ p.shared
                => p.changed

PayInv ==
  /\ HeldInv
  /\ round.pc = "pay" => PayShape /\ PaidInv(round) /\ ListInv(round)
  /\ SharesInOneLevel

LEMMA StepsNat == Steps \in Nat
<1>1. MaxVip \in Nat /\ Len(Kinds) \in Nat
  BY TreeAssumption, DividendAssumption
<1>2. QED
  BY <1>1 DEF Steps

\* An account has one level of a kind.
LEMMA OneLevel ==
  ASSUME NEW a, NEW p \in 1..Steps, NEW q \in 1..Steps, KindOf(p) = KindOf(q),
         LevelAt(a, p), LevelAt(a, q)
  PROVE  p = q
<1>1. LevelOf(p) = LevelOf(q)
  BY DEF LevelAt, HasLevel
<1>2. QED
  BY <1>1, StepUnique

LEMMA PayInit == DividendInit => PayInv
  BY DEF DividendInit, Init, NoRound, PayInv, HeldInv, SharesInOneLevel

\* Not in a distribution afterwards: nothing to show but the locks.
LEMMA NotPaying ==
  ASSUME HeldInv', round'.pc # "pay"
  PROVE  PayInv'
  BY DEF PayInv, SharesInOneLevel

LEMMA KeptHeldInv == ASSUME HeldInv, HeldKept PROVE HeldInv'
  BY DEF HeldInv, HeldKept

LEMMA TreeStepPays ==
  ASSUME PayInv, TreeStep PROVE PayInv'
<1>0. HeldKept /\ HeldInv /\ HeldInv'
  BY TreeHeld, KeptHeldInv DEF PayInv, TreeStep
<1>1. CASE round.pc # "pay"
  <2>1. round' = round
    BY <1>1 DEF TreeStep, Remember
  <2>2. QED
    BY <1>0, <1>1, <2>1, NotPaying
<1>2. CASE round.pc = "pay"
  <2>1. PICK n, r, st, ls, sh, sd, pd, ch :
          /\ st \in 0..Steps /\ sd \in BOOLEAN
          /\ round = [pc |-> "pay", net |-> n, rules |-> r, step |-> st, list |-> ls,
                      share |-> sh, shared |-> sd, paid |-> pd, changed |-> ch]
    BY <1>2 DEF PayInv, PayShape
  <2> DEFINE dh == ch \cup {a \in Account : vip'[a] # vip[a]}
  <2>2. round' = [pc |-> "pay", net |-> n, rules |-> r, step |-> st, list |-> ls,
                  share |-> sh, shared |-> sd, paid |-> pd, changed |-> dh]
    <3>1. round' = [round EXCEPT !.changed = ch \cup {a \in Account : vip'[a] # vip[a]}]
      BY <1>2, <2>1 DEF TreeStep, Remember
    <3>2. QED
      BY <2>1, <3>1
  <2>3. \A a \in Account : a \notin dh => a \notin ch /\ vip'[a] = vip[a]
    OBVIOUS
  <2> HIDE DEF dh
  <2>4. ASSUME NEW a, NEW step, vip'[a] = vip[a], LevelAt(a, step)
        PROVE  LevelAt(a, step)'
    BY <2>4 DEF LevelAt, HasLevel, KindOf, LevelOf
  <2>5. PayShape'
    BY <2>1, <2>2 DEF PayShape, Steps
  <2>6. PaidInv(round)'
    <3>1. ASSUME NEW p \in pd
          PROVE  /\ p.account \in held' /\ p.step \in 1..st
                 /\ p.shared /\ ~p.changed => LevelAt(p.account, p.step)'
      <4>1. /\ p.account \in held /\ p.step \in 1..st
            /\ p.shared /\ ~p.changed => LevelAt(p.account, p.step)
        BY <1>2, <2>1 DEF PayInv, PaidInv
      <4>2. vip'[p.account] = vip[p.account] /\ held' = held
        BY <1>0, <4>1 DEF HeldKept
      <4>3. QED
        BY <2>4, <4>1, <4>2
    <3>2. QED
      BY <2>2, <3>1 DEF PaidInv
  <2>7. ListInv(round)'
    <3>1. ls # {} => st # 0
      BY <1>2, <2>1 DEF PayInv, ListInv
    <3>2. ASSUME sd, NEW a \in ls \cap Account, a \notin dh
          PROVE  LevelAt(a, st)'
      <4>1. a \notin ch /\ vip'[a] = vip[a]
        BY <2>3, <3>2
      <4>2. LevelAt(a, st)
        BY <1>2, <2>1, <3>2, <4>1 DEF PayInv, ListInv
      <4>3. QED
        BY <2>4, <4>1, <4>2
    <3>3. sd => \A a \in ls \cap Account : \A p \in pd :
            p.account = a /\ p.step < st /\ KindOf(p.step) = KindOf(st) /\ p.shared
              => p.changed
      BY <1>2, <2>1 DEF PayInv, ListInv
    <3>4. QED
      BY <2>2, <3>1, <3>2, <3>3 DEF ListInv, KindOf
  <2>8. SharesInOneLevel'
    BY <1>2, <2>1, <2>2 DEF PayInv, SharesInOneLevel, KindOf
  <2>9. QED
    BY <1>0, <2>5, <2>6, <2>7, <2>8 DEF PayInv
<1>3. QED
  BY <1>1, <1>2

\* A transaction that begins has paid nobody yet.
LEMMA ReadPays ==
  ASSUME PayInv, ReadRules PROVE PayInv'
<1>1. round' = [pc |-> "pay", net |-> round.net, rules |-> rules, step |-> 0, list |-> {},
                share |-> 0, shared |-> FALSE, paid |-> {}, changed |-> {}]
      /\ UNCHANGED <<vip, held, account>>
  BY DEF ReadRules, treeVars
<1>2. HeldInv'
  BY <1>1 DEF PayInv, HeldInv
<1>3. 0 \in 0..Steps
  BY StepsNat
<1>4. PayShape'
  BY <1>1, <1>3 DEF PayShape, Steps
<1>5. PaidInv(round)' /\ ListInv(round)' /\ SharesInOneLevel'
  BY <1>1 DEF PaidInv, ListInv, SharesInOneLevel
<1>6. QED
  BY <1>2, <1>4, <1>5 DEF PayInv

\* The next level is listed: whoever of the list was paid for an earlier level
\* of the kind was paid for a level it did not have any more.
LEMMA ListPays ==
  ASSUME PayInv, ListRecipients PROVE PayInv'
<1>1. PICK n, r, st, ls, sh, sd, pd, ch :
        /\ st \in 0..Steps /\ sd \in BOOLEAN
        /\ round = [pc |-> "pay", net |-> n, rules |-> r, step |-> st, list |-> ls,
                    share |-> sh, shared |-> sd, paid |-> pd, changed |-> ch]
  BY DEF PayInv, PayShape, ListRecipients
<1> DEFINE step == st + 1
           R == Recipients(KindOf(step), LevelOf(step))
           some == R # {}
<1>2. UNCHANGED <<vip, held, account>> /\ st < Steps
  BY <1>1 DEF ListRecipients, treeVars
<1>3. step \in 1..Steps
  BY <1>1, <1>2, StepsNat
<1>4. \E x, T : /\ round' = [round EXCEPT !.step = step, !.share = x, !.shared = some,
                                      !.changed = {}, !.list = T]
                /\ some => T \subseteq R
  <2> DEFINE k == KindOf(round.step + 1)
             l == LevelOf(round.step + 1)
             amount == LevelAmount(k, l)
             average == IF Targets(k, l) = {} THEN 0
                        ELSE amount \div Cardinality(Targets(k, l))
  <2>1. round.step + 1 = step
    BY <1>1
  <2>2. round' = [round EXCEPT !.step = round.step + 1, !.share = average,
                    !.shared = Recipients(k, l) # {}, !.changed = {},
                    !.list = IF average > 0 THEN Targets(k, l) ELSE {}]
    BY DEF ListRecipients
  <2>3. Recipients(k, l) = R
    BY <2>1
  <2>4. R # {} => Targets(k, l) = R
    BY <2>3 DEF Targets
  <2> DEFINE T == IF average > 0 THEN Targets(k, l) ELSE {}
  <2>5. some => T \subseteq R
    BY <2>4
  <2> HIDE DEF average, T, R
  <2>6. round' = [round EXCEPT !.step = step, !.share = average, !.shared = some,
                    !.changed = {}, !.list = T]
    BY <2>1, <2>2, <2>3 DEF T
  <2>7. QED
    BY <2>5, <2>6
<1>5. PICK x, T : /\ round' = [round EXCEPT !.step = step, !.share = x, !.shared = some,
                                        !.changed = {}, !.list = T]
                  /\ some => T \subseteq R
  BY <1>4
<1>6. some \in BOOLEAN
  OBVIOUS
<1> HIDE DEF some
<1>7. round' = [pc |-> "pay", net |-> n, rules |-> r, step |-> step, list |-> T,
                share |-> x, shared |-> some, paid |-> pd, changed |-> {}]
  BY <1>1, <1>5
<1> HIDE DEF step
<1>8. PayShape'
  <2>1. step \in 0..Steps
    BY <1>3, StepsNat
  <2>2. Steps' = Steps
    BY DEF Steps
  <2>3. QED
    BY <1>6, <1>7, <2>1, <2>2 DEF PayShape
<1>9. HeldInv'
  BY <1>2 DEF PayInv, HeldInv
<1>10. \A a, s : LevelAt(a, s)' <=> LevelAt(a, s)
  BY <1>2 DEF LevelAt, HasLevel, KindOf, LevelOf
<1>11. \A p \in pd : /\ p.account \in held /\ p.step \in 1..st
                     /\ p.shared /\ ~p.changed => LevelAt(p.account, p.step)
  BY <1>1 DEF PayInv, PaidInv
<1>12. 1..st \subseteq 1..step
  BY <1>1, StepsNat DEF step
<1>13. PaidInv(round)'
  BY <1>2, <1>7, <1>10, <1>11, <1>12 DEF PaidInv
<1>14. \A a \in T : some => LevelAt(a, step)
  BY <1>5 DEF Recipients, LevelAt
<1>15. ASSUME some, NEW a \in T, NEW p \in pd, p.account = a, p.step < step,
              KindOf(p.step) = KindOf(step), p.shared, ~p.changed
       PROVE  FALSE
  <2>1. LevelAt(a, p.step) /\ LevelAt(a, step)
    BY <1>11, <1>14, <1>15
  <2>2. p.step \in 1..Steps
    BY <1>1, <1>11, <1>15, StepsNat
  <2>3. p.step = step
    BY <1>3, <1>15, <2>1, <2>2, OneLevel
  <2>4. QED
    BY <1>3, <1>15, <2>2, <2>3, StepsNat
<1>16. ListInv(round)'
  <2>1. step # 0
    BY <1>3, StepsNat
  <2>2. \A s : KindOf(s)' = KindOf(s)
    BY DEF KindOf
  <2>3. QED
    BY <1>7, <1>10, <1>14, <1>15, <2>1, <2>2 DEF ListInv
<1>17. SharesInOneLevel'
  BY <1>1, <1>7 DEF PayInv, SharesInOneLevel, KindOf
<1>18. QED
  BY <1>8, <1>9, <1>13, <1>16, <1>17 DEF PayInv

\* A recipient is locked with the level it is listed for, or is remembered as
\* one whose level was written.
LEMMA RecipientPays ==
  ASSUME PayInv, NEW a \in Account, PayRecipient(a) PROVE PayInv'
<1>1. PICK n, r, st, ls, sh, sd, pd, ch :
        /\ st \in 0..Steps /\ sd \in BOOLEAN
        /\ round = [pc |-> "pay", net |-> n, rules |-> r, step |-> st, list |-> ls,
                    share |-> sh, shared |-> sd, paid |-> pd, changed |-> ch]
  BY DEF PayInv, PayShape, PayRecipient
<1> DEFINE moved == a \in ch
           new == [account |-> a, step |-> st, amount |-> sh, shared |-> sd, changed |-> moved]
<1>2. /\ a \in ls /\ a \in account /\ held' = held \cup {a} /\ UNCHANGED <<vip, account>>
  BY <1>1 DEF PayRecipient, LockRow
<1>3. round' = [pc |-> "pay", net |-> n, rules |-> r, step |-> st, list |-> ls \ {a},
                share |-> sh, shared |-> sd, paid |-> pd \cup {new}, changed |-> ch]
  <2>1. round' = [round EXCEPT !.list = ls \ {a}, !.paid = pd \cup {new}]
    BY <1>1 DEF PayRecipient
  <2>2. QED
    BY <1>1, <2>1
<1>4. /\ new.account = a /\ new.step = st /\ (new.shared <=> sd)
      /\ (new.changed <=> moved)
  OBVIOUS
<1> HIDE DEF new, moved
<1>5. HeldInv' /\ PayShape'
  BY <1>1, <1>2, <1>3 DEF PayInv, HeldInv, PayShape, Steps
<1>6. \A b, s : LevelAt(b, s)' <=> LevelAt(b, s)
  BY <1>2 DEF LevelAt, HasLevel, KindOf, LevelOf
<1>7. st \in 1..st
  BY <1>1, <1>2, StepsNat DEF PayInv, ListInv
<1>8. sd /\ ~moved => LevelAt(a, st)
  BY <1>1, <1>2 DEF PayInv, ListInv, moved
<1>9. \A p \in pd : /\ p.account \in held /\ p.step \in 1..st
                    /\ p.shared /\ ~p.changed => LevelAt(p.account, p.step)
  BY <1>1 DEF PayInv, PaidInv
<1>10. PaidInv(round)'
  <2>1. ASSUME NEW p \in pd \cup {new}
        PROVE  /\ p.account \in held' /\ p.step \in 1..st
               /\ p.shared /\ ~p.changed => LevelAt(p.account, p.step)
    <3>1. CASE p \in pd
      BY <1>2, <1>9, <3>1
    <3>2. CASE p = new
      BY <1>2, <1>4, <1>7, <1>8, <3>2
    <3>3. QED
      BY <3>1, <3>2
  <2>2. QED
    BY <1>3, <1>6, <2>1 DEF PaidInv
<1>11. sd => \A b \in ls \cap Account :
               /\ b \notin ch => LevelAt(b, st)
               /\ \A p \in pd :
                    /\ p.account = b /\ p.step < st
                    /\ KindOf(p.step) = KindOf(st) /\ p.shared
                    => p.changed
  BY <1>1 DEF PayInv, ListInv
<1>12. ListInv(round)'
  <2>1. \A s : KindOf(s)' = KindOf(s)
    BY DEF KindOf
  <2>2. st # 0
    BY <1>7
  <2>3. ASSUME sd, NEW b \in (ls \ {a}) \cap Account, NEW p \in pd \cup {new},
               p.account = b, p.step < st, KindOf(p.step) = KindOf(st), p.shared
        PROVE  p.changed
    BY <1>4, <1>11, <2>3
  <2>4. QED
    BY <1>3, <1>6, <1>11, <2>1, <2>2, <2>3 DEF ListInv
<1>13. SharesInOneLevel'
  <2>1. ASSUME NEW p \in pd \cup {new}, NEW q \in pd \cup {new},
               p.account = q.account, p.step < q.step, KindOf(p.step) = KindOf(q.step),
               p.shared, q.shared
        PROVE  p.changed
    <3>1. CASE p \in pd /\ q \in pd
      BY <1>1, <2>1, <3>1 DEF PayInv, SharesInOneLevel
    <3>2. CASE p \in pd /\ q = new
      BY <1>2, <1>4, <1>11, <2>1, <3>2
    <3>3. CASE p = new
      <4>1. q.step \in 1..st
        BY <1>4, <1>7, <1>9
      <4>2. QED
        BY <1>1, <1>4, <2>1, <3>3, <4>1, StepsNat
    <3>4. QED
      BY <2>1, <3>1, <3>2, <3>3
  <2>2. \A s : KindOf(s)' = KindOf(s)
    BY DEF KindOf
  <2>3. QED
    BY <1>3, <2>1, <2>2 DEF SharesInOneLevel
<1>14. QED
  BY <1>5, <1>10, <1>12, <1>13 DEF PayInv

\* Steps that only concern the vaults, the rules and the past.
LEMMA QuietPays ==
  ASSUME PayInv, UNCHANGED <<account, vip, held, round>> PROVE PayInv'
<1>1. \A a, s : LevelAt(a, s)' <=> LevelAt(a, s)
  BY DEF LevelAt, HasLevel, KindOf, LevelOf
<1>2. HeldInv' /\ SharesInOneLevel'
  BY DEF PayInv, HeldInv, SharesInOneLevel, KindOf
<1>3. round.pc = "pay" => PayShape'
  BY DEF PayInv, PayShape, Steps
<1>4. round.pc = "pay" => PaidInv(round)'
  BY <1>1 DEF PayInv, PaidInv
<1>5. round.pc = "pay" => ListInv(round)'
  BY <1>1 DEF PayInv, ListInv, KindOf
<1>6. QED
  BY <1>2, <1>3, <1>4, <1>5 DEF PayInv

LEMMA PayNext == PayInv /\ [DividendNext]_vars => PayInv'
<1> SUFFICES ASSUME PayInv, [DividendNext]_vars PROVE PayInv'
  OBVIOUS
<1>0. HeldInv
  BY DEF PayInv
<1>1. CASE Recompute
  <2>1. HeldInv'
    <3>1. SnapshotBegin => HeldInv'
      BY <1>0, TreeHeld, KeptHeldInv
    <3>2. UNCHANGED treeVars => HeldInv'
      BY <1>0 DEF treeVars, HeldInv
    <3>3. QED
      BY <1>1, <3>1, <3>2 DEF Recompute
  <2>2. round'.pc # "pay"
    BY <1>1 DEF Recompute
  <2>3. QED
    BY <2>1, <2>2, NotPaying
<1>2. CASE round.pc = "recompute" /\ RecomputeEnd
  <2>1. SnapshotWrite \/ SnapshotFail
    BY <1>2 DEF RecomputeEnd
  <2>2. HeldInv'
    BY <1>0, <2>1, TreeHeld, KeptHeldInv
  <2>3. round'.pc # "pay"
    BY <1>2 DEF RecomputeEnd, NoRound
  <2>4. QED
    BY <2>2, <2>3, NotPaying
<1>3. CASE CollectFees \/ \E k \in Kind, group \in RuleGroup : UpdateDividendRuleGroup(k, group)
  BY <1>3, QuietPays DEF CollectFees, UpdateDividendRuleGroup, treeVars
<1>4. CASE SweepSend \/ SweepReceipt \/ SweepTimeout
  <2>1. round'.pc # "pay" /\ UNCHANGED <<account, vip, held>>
    BY <1>4 DEF SweepSend, SweepReceipt, SweepTimeout, Mined, NoRound, treeVars
  <2>2. QED
    BY <1>0, <2>1, NotPaying DEF HeldInv
<1>5. CASE Commit \/ DividendFail
  <2>1. round' = NoRound /\ held' = {} /\ UNCHANGED <<account, vip>>
    BY <1>5 DEF Commit, DividendFail
  <2>2. QED
    BY <1>0, <2>1, NotPaying DEF HeldInv, NoRound
<1>6. CASE UNCHANGED vars
  BY <1>6, QuietPays DEF vars, treeVars, roundVars
<1>7. QED
  BY <1>1, <1>2, <1>3, <1>4, <1>5, <1>6, TreeStepPays, ReadPays, ListPays, RecipientPays
  DEF DividendNext

\* Whatever purchases, moves and recomputations commit while the levels are
\* listed and paid one after the other, no account shares in two levels of a
\* kind, except one whose level was written between its listing and its lock.
THEOREM OneShare == DividendSpec => []SharesInOneLevel
<1>1. PayInv => SharesInOneLevel
  BY DEF PayInv
<1>2. QED
  BY <1>1, PayInit, PayNext, PTL DEF DividendSpec

-----------------------------------------------------------------------------
(***************************************************************************)
(* What the rules give.  The shares of an amount, each rounded down, do    *)
(* not exceed it, level by level and kind by kind.                         *)
(***************************************************************************)
LEMMA FiniteParts == /\ IsFiniteSet(Kind) /\ IsFiniteSet(Level)
                     /\ IsFiniteSet(Kind \X Level)
<1>1. IsFiniteSet(1..Len(Kinds)) /\ IsFiniteSet(Level)
  <2>1. 1 \in Int /\ Len(Kinds) \in Int /\ MaxVip \in Int
    BY DividendAssumption, TreeAssumption
  <2>2. QED
    BY <2>1, FS_Interval DEF Level
<1> DEFINE f == [i \in 1..Len(Kinds) |-> Kinds[i]]
<1>2. f \in Surjection(1..Len(Kinds), Kind)
  BY DEF Surjection, Kind
<1>3. IsFiniteSet(Kind)
  BY <1>1, <1>2, FS_Surjection
<1>4. QED
  BY <1>1, <1>3, FS_Product

\* A share rounded down.
LEMMA ShareFloor ==
  ASSUME NEW n \in Nat, NEW bp \in Nat
  PROVE  /\ (n * bp) \div 10000 \in Nat
         /\ 10000 * ((n * bp) \div 10000) <= n * bp
         /\ n * bp <= 10000 * ((n * bp) \div 10000) + 9999
<1>1. n * bp \in Nat
  OBVIOUS
<1>2. ASSUME NEW m \in Nat
      PROVE  /\ m \div 10000 \in Nat /\ 10000 * (m \div 10000) <= m
             /\ m <= 10000 * (m \div 10000) + 9999
  OBVIOUS
<1>3. QED
  BY <1>1, <1>2

\* s are the shares of n by the basis points g.
Shares(n, g, s, S) == \A x \in S : s[x] = (n * g[x]) \div 10000

LEMMA SharesWithin ==
  ASSUME NEW n \in Nat, NEW g, NEW s, NEW S, NatOn(g, S), Shares(n, g, s, S)
  PROVE  /\ NatOn(s, S) /\ 10000 * SumFunctionOnSet(s, S) <= n * SumFunctionOnSet(g, S)
         /\ n * SumFunctionOnSet(g, S) <= 10000 * SumFunctionOnSet(s, S) + 9999 * Cardinality(S)
<1>0. IsFiniteSet(S) /\ \A x \in S : g[x] \in Nat
  BY DEF NatOn
<1>1. ASSUME NEW x \in S
      PROVE  s[x] \in Nat /\ 10000 * s[x] <= n * g[x] /\ n * g[x] <= 10000 * s[x] + 9999
  <2>1. s[x] = (n * g[x]) \div 10000
    BY DEF Shares
  <2>2. g[x] \in Nat
    BY <1>0
  <2>3. QED
    BY <2>1, <2>2, ShareFloor
<1>2. NatOn(s, S)
  BY <1>0, <1>1 DEF NatOn
<1> DEFINE u == [x \in S |-> 10000 * s[x]]
           v == [x \in S |-> n * g[x]]
<1>3. /\ \A x \in S : u[x] = 10000 * s[x]
      /\ \A x \in S : v[x] = n * g[x]
      /\ \A x \in S : u[x] <= v[x] /\ v[x] <= u[x] + 9999
  BY <1>1
<1>4. Summable(s, S) /\ Summable(g, S) /\ n \in Int /\ 10000 \in Int /\ 9999 \in Int
  BY <1>2, NatSummable
<1> HIDE DEF u, v
<1>5. Summable(u, S) /\ SumFunctionOnSet(u, S) = 10000 * SumFunctionOnSet(s, S)
  BY <1>3, <1>4, SumScale
<1>6. Summable(v, S) /\ SumFunctionOnSet(v, S) = n * SumFunctionOnSet(g, S)
  BY <1>3, <1>4, SumScale
<1>7. SumFunctionOnSet(u, S) <= SumFunctionOnSet(v, S)
  BY <1>3, <1>5, <1>6, SumMonotone
<1>8. SumFunctionOnSet(v, S) <= SumFunctionOnSet(u, S) + 9999 * Cardinality(S)
  BY <1>3, <1>4, <1>5, <1>6, SumSlack
<1>9. QED
  BY <1>2, <1>5, <1>6, <1>7, <1>8

\* What is distributed of a vault: no more than is in it.
LEMMA NetNat ==
  ASSUME NEW n \in Nat, NEW k \in Kind
  PROVE  Net(n, k) \in Nat
<1>1. PICK bp \in Nat : bp = FeeBp[k] /\ bp <= 10000
  <2>1. PICK i \in 1..Len(Kinds) : k = Kinds[i]
    BY DEF Kind
  <2>2. FeeBp[k] \in Nat /\ FeeBp[k] <= 10000
    BY <2>1, AmountAssumption
  <2>3. QED
    BY <2>2
<1>2. bp \in Nat /\ 10000 - bp \in Nat
  BY <1>1
<1>3. PICK d \in Nat : 10000 = bp + d
  <2>1. 10000 = bp + (10000 - bp)
    BY <1>2
  <2>2. QED
    BY <1>2, <2>1
<1>4. n * (bp + d) = n * bp + n * d /\ n * d \in Nat /\ n * bp \in Nat
  BY <1>2
<1>5. (n * bp) \div 10000 \in Nat /\ 10000 * ((n * bp) \div 10000) <= n * bp
  BY <1>2, ShareFloor
<1>a. Net(n, k) = n - (n * bp) \div 10000
  BY <1>1 DEF Net
<1> DEFINE part == (n * bp) \div 10000
           whole == n * bp
           rest == n * d
<1>6. part \in Nat /\ whole \in Nat /\ rest \in Nat
      /\ 10000 * part <= whole /\ n * 10000 = whole + rest
  BY <1>3, <1>4, <1>5
<1>7. Net(n, k) = n - part
  BY <1>a
<1> HIDE DEF part, whole, rest
<1>8. n - part \in Nat
  BY <1>6
<1>9. QED
  BY <1>7, <1>8

Amounts(net, rule) == [p \in Kind \X Level |-> (net[p[1]] * rule[p[1]][p[2]]) \div 10000]

\* Rules as they are saved: a group of basis points that make the whole.
Rules(rule) == \A k \in Kind : rule[k] \in RuleGroup /\ ValidGroup(rule[k])

LEMMA RuleNat ==
  ASSUME NEW rule, Rules(rule), NEW k \in Kind
  PROVE  NatOn(rule[k], Level) /\ SumFunctionOnSet(rule[k], Level) = 10000
<1>1. \A l \in Level : rule[k][l] \in Nat
  <2>1. rule[k] \in RuleGroup
    BY DEF Rules
  <2>2. QED
    BY <2>1, AmountAssumption DEF Level
<1>2. NatOn(rule[k], Level)
  BY <1>1, FiniteParts DEF NatOn
<1> DEFINE g == [l \in Level |-> rule[k][l]]
<1>3. SumFunctionOnSet(g, Level) = 10000
  <2>1. SumFunction(g) = 10000 /\ DOMAIN g = Level
    BY DEF Rules, ValidGroup
  <2> HIDE DEF g
  <2>2. SumFunction(g) = SumFunctionOnSet(g, Level)
    BY <2>1 DEF SumFunction
  <2>3. QED
    BY <2>1, <2>2
<1>4. \A l \in Level : rule[k][l] = g[l]
  OBVIOUS
<1> HIDE DEF g
<1>5. Summable(rule[k], Level)
  BY <1>2, NatSummable
<1>6. SumFunctionOnSet(rule[k], Level) = SumFunctionOnSet(g, Level)
  BY <1>4, <1>5, SumSame
<1>7. QED
  BY <1>2, <1>3, <1>6

LEMMA AmountsNat ==
  ASSUME NEW net \in [Kind -> Nat], NEW rule, Rules(rule)
  PROVE  NatOn(Amounts(net, rule), Kind \X Level)
<1>1. ASSUME NEW k \in Kind, NEW l \in Level
      PROVE  (net[k] * rule[k][l]) \div 10000 \in Nat
  <2>1. rule[k][l] \in Nat /\ net[k] \in Nat
    BY RuleNat DEF NatOn
  <2>2. QED
    BY <2>1, ShareFloor
<1>2. QED
  BY <1>1, FiniteParts DEF NatOn, Amounts

LEMMA AmountsWithin ==
  ASSUME NEW net \in [Kind -> Nat], NEW rule, Rules(rule)
  PROVE  /\ SumFunctionOnSet(Amounts(net, rule), Kind \X Level) <= SumFunctionOnSet(net, Kind)
         /\ SumFunctionOnSet(net, Kind)
              <= SumFunctionOnSet(Amounts(net, rule), Kind \X Level)
                   + (MaxVip - 1) * Cardinality(Kind)
<1> DEFINE A == Amounts(net, rule)
           S == Kind \X Level
           kind == [p \in S |-> p[1]]
           level == [p \in S |-> p[2]]
<1>1. NatOn(A, S) /\ Summable(A, S)
  BY AmountsNat, NatSummable
<1>2. (\A p \in S : kind[p] \in Kind) /\ (\A p \in S : level[p] \in Level)
  OBVIOUS
<1>3. \A k \in Kind, l \in Level : A[<<k, l>>] = (net[k] * rule[k][l]) \div 10000
  BY DEF Amounts
<1>a. \A k \in Kind : \A p \in Group(S, kind, k) : p \in S /\ p[1] = k
  BY DEF Group
<1>b. \A k \in Kind, l \in Level :
        Group(Group(S, kind, k), level, l) = {<<k, l>>}
  BY DEF Group
<1> HIDE DEF A, S, kind, level
<1>4. ASSUME NEW k \in Kind
      PROVE  /\ SumFunctionOnSet(A, Group(S, kind, k)) <= net[k]
             /\ net[k] <= SumFunctionOnSet(A, Group(S, kind, k)) + (MaxVip - 1)
  <2> DEFINE K == Group(S, kind, k)
             B == ByGroup(A, K, level, Level)
  <2>1. Summable(A, K)
    BY <1>1, SummableSubset DEF Group
  <2>2. \A p \in K : level[p] \in Level
    BY <1>2, <1>a
  <2>3. SumFunctionOnSet(B, Level) = SumFunctionOnSet(A, K)
    <3> HIDE DEF K
    <3>1. QED
      BY <2>1, <2>2, FiniteParts, SumByGroup
  <2>4. ASSUME NEW l \in Level
        PROVE  B[l] = (net[k] * rule[k][l]) \div 10000
    <3>1. B[l] = SumFunctionOnSet(A, {<<k, l>>})
      BY <1>b DEF ByGroup
    <3>2. A[<<k, l>>] \in Int
      BY <1>1, <1>b, <2>1 DEF Summable, Group
    <3>3. SumFunctionOnSet(A, {<<k, l>>}) = A[<<k, l>>]
      BY <3>2, SumOfOne
    <3>4. A[<<k, l>>] = (net[k] * rule[k][l]) \div 10000
      BY <1>3
    <3>5. QED
      BY <3>1, <3>3, <3>4
  <2>5. NatOn(rule[k], Level) /\ SumFunctionOnSet(rule[k], Level) = 10000 /\ net[k] \in Nat
    BY RuleNat
  <2> HIDE DEF B, K
  <2>a. Shares(net[k], rule[k], B, Level)
    BY <2>4 DEF Shares
  <2>6. /\ 10000 * SumFunctionOnSet(B, Level) <= net[k] * 10000 /\ NatOn(B, Level)
        /\ net[k] * 10000 <= 10000 * SumFunctionOnSet(B, Level) + 9999 * Cardinality(Level)
    BY <2>a, <2>5, SharesWithin
  <2>7. SumFunctionOnSet(B, Level) \in Nat
    BY <2>6, SumNat
  <2>b. MaxVip \in Nat \ {0} /\ Cardinality(Level) = MaxVip
    <3>1. 1 \in Int /\ MaxVip \in Nat \ {0}
      BY TreeAssumption
    <3>2. Cardinality(1..MaxVip) = IF 1 > MaxVip THEN 0 ELSE MaxVip - 1 + 1
      BY <3>1, FS_Interval
    <3>3. QED
      BY <3>1, <3>2 DEF Level
  <2>8. SumFunctionOnSet(A, K) <= net[k] /\ net[k] <= SumFunctionOnSet(A, K) + (MaxVip - 1)
    BY <2>3, <2>5, <2>6, <2>7, <2>b
  <2>9. QED
    BY <2>8 DEF K
<1> DEFINE C == ByGroup(A, S, kind, Kind)
<1>5. SumFunctionOnSet(C, Kind) = SumFunctionOnSet(A, S)
  BY <1>1, <1>2, FiniteParts, SumByGroup
<1>6. Summable(C, Kind) /\ Summable(net, Kind)
  BY <1>1, FiniteParts, ByGroupSummable DEF Summable
<1>7. \A k \in Kind : C[k] <= net[k] /\ net[k] <= C[k] + (MaxVip - 1)
  BY <1>4 DEF ByGroup
<1> HIDE DEF C
<1>8. SumFunctionOnSet(C, Kind) <= SumFunctionOnSet(net, Kind)
  BY <1>6, <1>7, SumMonotone
<1>9. SumFunctionOnSet(net, Kind) <= SumFunctionOnSet(C, Kind) + (MaxVip - 1) * Cardinality(Kind)
  <2>1. MaxVip - 1 \in Int
    BY TreeAssumption
  <2>2. QED
    BY <1>6, <1>7, <2>1, SumSlack
<1>10. QED
  BY <1>5, <1>8, <1>9 DEF A, S

-----------------------------------------------------------------------------
(***************************************************************************)
(* The levels listed so far, and what they were to get.                    *)
(***************************************************************************)
ListedBy(n) == {<<KindOf(s), LevelOf(s)>> : s \in 1..n}
Given(net, rule, n) == SumFunctionOnSet(Amounts(net, rule), ListedBy(n))

LEMMA KindLevel ==
  ASSUME NEW s \in 1..Steps
  PROVE  KindOf(s) \in Kind /\ LevelOf(s) \in Level
<1>1. MaxVip \in Nat \ {0} /\ Len(Kinds) \in Nat /\ Steps \in Nat
  BY TreeAssumption, DividendAssumption DEF Steps
<1>2. s - 1 \in Nat /\ s - 1 < Len(Kinds) * MaxVip
  BY <1>1 DEF Steps
<1>3. /\ (s - 1) \div MaxVip \in Nat /\ (s - 1) \div MaxVip < Len(Kinds)
      /\ (s - 1) % MaxVip \in 0..(MaxVip - 1)
  BY <1>1, <1>2, DivMod, KindIndex
<1>4. (s - 1) \div MaxVip + 1 \in 1..Len(Kinds) /\ ((s - 1) % MaxVip) + 1 \in 1..MaxVip
  BY <1>1, <1>3
<1>5. KindOf(s) \in Kind
  BY <1>4 DEF KindOf, Kind
<1>6. QED
  BY <1>4, <1>5 DEF LevelOf, Level

LEMMA ListedParts ==
  ASSUME NEW n \in 0..Steps PROVE ListedBy(n) \subseteq Kind \X Level
<1>1. 1..n \subseteq 1..Steps
  BY StepsNat
<1>2. QED
  BY <1>1, KindLevel DEF ListedBy

LEMMA ListedNext ==
  ASSUME NEW n \in 0..Steps, n < Steps
  PROVE  LET new == <<KindOf(n + 1), LevelOf(n + 1)>>
         IN  new \notin ListedBy(n) /\ ListedBy(n + 1) = ListedBy(n) \cup {new}
<1>1. n + 1 \in 1..Steps /\ 1..n \subseteq 1..Steps /\ n + 1 \notin 1..n
      /\ 1..(n + 1) = 1..n \cup {n + 1}
  BY StepsNat
<1>2. \A s \in 1..n : <<KindOf(s), LevelOf(s)>> # <<KindOf(n + 1), LevelOf(n + 1)>>
  BY <1>1, StepUnique
<1>3. <<KindOf(n + 1), LevelOf(n + 1)>> \notin ListedBy(n)
  BY <1>2 DEF ListedBy
<1>4. ListedBy(n + 1) = ListedBy(n) \cup {<<KindOf(n + 1), LevelOf(n + 1)>>}
  BY <1>1 DEF ListedBy
<1>5. QED
  BY <1>3, <1>4

\* Nothing is given before the first level, and never more than there is.
LEMMA GivenWithin ==
  ASSUME NEW net \in [Kind -> Nat], NEW rule, Rules(rule), NEW n \in 0..Steps
  PROVE  /\ Given(net, rule, n) \in Nat
         /\ Given(net, rule, n) <= SumFunctionOnSet(net, Kind)
         /\ SumFunctionOnSet(net, Kind) \in Nat
<1>1. NatOn(Amounts(net, rule), Kind \X Level)
  BY AmountsNat
<1>2. ListedBy(n) \subseteq Kind \X Level
  BY ListedParts
<1> DEFINE A == Amounts(net, rule)
           S == Kind \X Level
<1>a. NatOn(A, S) /\ ListedBy(n) \subseteq S
  BY <1>1, <1>2
<1>b. SumFunctionOnSet(A, S) <= SumFunctionOnSet(net, Kind)
  BY AmountsWithin
<1>c. Given(net, rule, n) = SumFunctionOnSet(A, ListedBy(n))
  BY DEF Given
<1>d. NatOn(net, Kind)
  BY FiniteParts DEF NatOn
<1>3. SumFunctionOnSet(net, Kind) \in Nat
  BY <1>d, SumNat
<1> HIDE DEF A, S
<1>4. /\ NatOn(A, ListedBy(n))
      /\ SumFunctionOnSet(A, ListedBy(n)) <= SumFunctionOnSet(A, S)
  BY <1>a, SumWithin
<1>5. SumFunctionOnSet(A, ListedBy(n)) \in Nat /\ SumFunctionOnSet(A, S) \in Nat
  BY <1>a, <1>4, SumNat
<1>6. QED
  BY <1>b, <1>c, <1>3, <1>4, <1>5

LEMMA GivenNext ==
  ASSUME NEW net \in [Kind -> Nat], NEW rule, Rules(rule), NEW n \in 0..Steps, n < Steps,
         NEW k, NEW l, k = KindOf(n + 1), l = LevelOf(n + 1)
  PROVE  /\ (net[k] * rule[k][l]) \div 10000 \in Nat
         /\ Given(net, rule, n + 1) = (net[k] * rule[k][l]) \div 10000 + Given(net, rule, n)
<1> DEFINE A == Amounts(net, rule)
           new == <<k, l>>
           amount == (net[k] * rule[k][l]) \div 10000
<1>1. n + 1 \in 1..Steps
  BY StepsNat
<1>2. k \in Kind /\ l \in Level
  BY <1>1, KindLevel
<1>3. A[new] = amount /\ new \in Kind \X Level
  BY <1>2 DEF Amounts
<1>4. NatOn(A, Kind \X Level)
  BY AmountsNat
<1>5. A[new] \in Nat
  BY <1>3, <1>4 DEF NatOn
<1>6. Summable(A, ListedBy(n))
  BY <1>4, NatSummable, SummableSubset, ListedParts
<1>7. new \notin ListedBy(n) /\ ListedBy(n + 1) = ListedBy(n) \cup {new}
  BY ListedNext
<1> HIDE DEF A, new
<1>8. SumFunctionOnSet(A, ListedBy(n) \cup {new}) = A[new] + SumFunctionOnSet(A, ListedBy(n))
  <2>1. A[new] \in Int
    BY <1>5
  <2>2. QED
    BY <1>6, <1>7, <2>1, SumInsert
<1>9. /\ Given(net, rule, n + 1) = SumFunctionOnSet(A, ListedBy(n) \cup {new})
      /\ Given(net, rule, n) = SumFunctionOnSet(A, ListedBy(n))
  BY <1>7 DEF Given, A
<1>10. QED
  BY <1>3, <1>5, <1>8, <1>9

-----------------------------------------------------------------------------
(***************************************************************************)
(* What a round has paid.                                                  *)
(***************************************************************************)
AmountOf(P) == [p \in P |-> p.amount]
Paid(P) == SumFunctionOnSet(AmountOf(P), P)
Payments(P) == IsFiniteSet(P) /\ \A p \in P : p.account \in Account /\ p.amount \in Nat

LEMMA PaidNat ==
  ASSUME NEW P, Payments(P)
  PROVE  NatOn(AmountOf(P), P) /\ Summable(AmountOf(P), P) /\ Paid(P) \in Nat
<1>1. NatOn(AmountOf(P), P)
  BY DEF NatOn, AmountOf, Payments
<1>2. QED
  BY <1>1, NatSummable, SumNat DEF Paid

LEMMA PaidNext ==
  ASSUME NEW P, Payments(P), NEW new, new.account \in Account, new.amount \in Nat
  PROVE  /\ Payments(P \cup {new}) /\ Paid(P \cup {new}) <= Paid(P) + new.amount
         /\ new \notin P => Paid(P \cup {new}) = Paid(P) + new.amount
<1>1. Payments(P \cup {new})
  <2>1. IsFiniteSet(P \cup {new})
    BY FS_AddElement DEF Payments
  <2>2. QED
    BY <2>1 DEF Payments
<1>2. Paid(P) \in Nat /\ Summable(AmountOf(P), P)
  BY PaidNat
<1>3. CASE new \in P
  <2>1. P \cup {new} = P
    BY <1>3
  <2>2. Paid(P \cup {new}) = Paid(P)
    BY <2>1, Zenon
  <2>3. QED
    BY <1>1, <1>2, <1>3, <2>2
<1>4. CASE new \notin P
  <2> DEFINE f == AmountOf(P)
             g == AmountOf(P \cup {new})
  <2>1. (\A p \in P : f[p] = g[p]) /\ g[new] = new.amount
    BY DEF AmountOf
  <2>2. Paid(P) = SumFunctionOnSet(f, P) /\ Paid(P \cup {new}) = SumFunctionOnSet(g, P \cup {new})
    BY DEF Paid
  <2>3. Summable(f, P)
    BY <1>2
  <2> HIDE DEF f, g
  <2>4. Summable(g, P) /\ SumFunctionOnSet(f, P) = SumFunctionOnSet(g, P)
    BY <2>1, <2>3, SumSame
  <2>5. g[new] \in Int
    BY <2>1
  <2>6. SumFunctionOnSet(g, P \cup {new}) = g[new] + SumFunctionOnSet(g, P)
    BY <1>4, <2>4, <2>5, SumInsert
  <2>7. QED
    BY <1>1, <1>2, <2>1, <2>2, <2>4, <2>6
<1>5. QED
  BY <1>3, <1>4

\* A commit credits every account what the round has paid to it.
LEMMA CommitCredits ==
  ASSUME NEW P, Payments(P), NEW f \in [Account -> Nat], NEW g,
         g = [a \in Account |->
                f[a] + SumFunction([p \in {q \in P : q.account = a} |-> p.amount])]
  PROVE  /\ g \in [Account -> Nat]
         /\ SumFunction(f) \in Nat /\ SumFunction(g) = SumFunction(f) + Paid(P)
<1> DEFINE F == AmountOf(P)
           key == [p \in P |-> p.account]
           B == ByGroup(F, P, key, Account)
<1>1. NatOn(F, P) /\ Summable(F, P) /\ Paid(P) = SumFunctionOnSet(F, P)
  BY PaidNat DEF Paid
<1>2. (\A p \in P : key[p] \in Account) /\ (\A p \in P : F[p] = p.amount)
  BY DEF Payments, AmountOf
<1>3. ASSUME NEW a \in Account
      PROVE  /\ SumFunction([p \in {q \in P : q.account = a} |-> p.amount]) = B[a]
             /\ B[a] \in Nat
  <2> DEFINE G == {q \in P : q.account = a}
             h == [p \in G |-> p.amount]
  <2>1. Group(P, key, a) = G
    BY DEF Group
  <2>2. B[a] = SumFunctionOnSet(F, G)
    BY <2>1 DEF ByGroup
  <2>3. \A p \in G : F[p] = h[p]
    BY <1>2
  <2>4. NatOn(F, G)
    <3>1. G \subseteq P
      OBVIOUS
    <3> HIDE DEF G, F
    <3>2. QED
      BY <1>1, <3>1, SumWithin
  <2>5. DOMAIN h = G
    OBVIOUS
  <2> HIDE DEF G, F, h, B
  <2>6. SumFunction(h) = SumFunctionOnSet(h, G)
    BY <2>5, SumAll
  <2>7. SumFunctionOnSet(F, G) = SumFunctionOnSet(h, G)
    BY <2>3, <2>4, NatSummable, SumSame
  <2>8. SumFunctionOnSet(F, G) \in Nat
    BY <2>4, SumNat
  <2>9. SumFunction(h) = B[a] /\ B[a] \in Nat
    BY <2>2, <2>6, <2>7, <2>8
  <2>10. QED
    BY <2>9 DEF h, G
<1> HIDE DEF key, F
<1>4. SumFunctionOnSet(B, Account) = SumFunctionOnSet(F, P)
  BY <1>1, <1>2, AccountsFinite, SumByGroup
<1>5. \A a \in Account : g[a] = f[a] + B[a]
  BY <1>3
<1>6. DOMAIN f = Account /\ DOMAIN g = Account
  OBVIOUS
<1> HIDE DEF B
<1>7. NatOn(f, Account) /\ NatOn(B, Account)
  BY <1>3, AccountsFinite DEF NatOn
<1>8. \A a \in Account : g[a] \in Nat
  BY <1>5, <1>7 DEF NatOn
<1>9. g \in [Account -> Nat]
  BY <1>8
<1>10. SumFunctionOnSet(g, Account) = SumFunctionOnSet(f, Account) + SumFunctionOnSet(B, Account)
  <2>1. Summable(f, Account) /\ Summable(B, Account)
    BY <1>7, NatSummable
  <2>2. QED
    BY ONLY <1>5, <2>1, SumPlus
<1>11. /\ SumFunction(f) = SumFunctionOnSet(f, Account)
       /\ SumFunction(g) = SumFunctionOnSet(g, Account)
  BY <1>6, SumAll
<1>12. SumFunctionOnSet(f, Account) \in Nat
  BY <1>7, SumNat
<1>13. QED
  BY <1>1, <1>4, <1>9, <1>10, <1>11, <1>12

\* What a sweep takes is what there is to distribute, and the fees.
LEMMA SweptNat ==
  ASSUME NEW amount \in [Kind -> Nat]
  PROVE  LET net == [k \in Kind |-> Net(amount[k], k)]
         IN  /\ net \in [Kind -> Nat] /\ Total(amount) \in Nat
             /\ Total(amount) = SumFunctionOnSet(net, Kind)
<1> DEFINE net == [k \in Kind |-> Net(amount[k], k)]
<1>1. \A k \in Kind : Net(amount[k], k) \in Nat
  BY NetNat
<1>2. net \in [Kind -> Nat] /\ DOMAIN net = Kind
  BY <1>1
<1>3. Total(amount) = SumFunction(net)
  BY DEF Total
<1> HIDE DEF net
<1>4. NatOn(net, Kind)
  BY <1>2, FiniteParts DEF NatOn
<1>5. SumFunctionOnSet(net, Kind) \in Nat
  BY <1>4, SumNat
<1>6. SumFunction(net) = SumFunctionOnSet(net, Kind)
  BY <1>2, SumAll
<1>7. QED
  BY <1>2, <1>3, <1>5, <1>6 DEF net

-----------------------------------------------------------------------------
(***************************************************************************)
(* The inductive invariant: what a round took for swept is still there     *)
(* until the round ends, and what it has paid and listed stays within what *)
(* the rules give to the levels listed so far.                             *)
(***************************************************************************)
Covered(rd) ==
  /\ Rules(rd.rules) /\ rd.step \in 0..Steps /\ rd.share \in Nat
  /\ IsFiniteSet(rd.list) /\ Payments(rd.paid)
  /\ Paid(rd.paid) + Cardinality(rd.list) * rd.share <= Given(rd.net, rd.rules, rd.step)

RoundInv(rd) ==
  /\ rd.pc = "sent" => rd.amount \in [Kind -> Nat]
  /\ rd.pc \in {"mined", "pay"} => rd.net \in [Kind -> Nat]
  /\ rd.pc = "pay" => Covered(rd)

Taken(rd) == IF rd.pc \in {"mined", "pay"} THEN SumFunctionOnSet(rd.net, Kind) ELSE 0

\* What is in the vaults covers the call that is on its way.
VaultInv ==
  /\ vault \in [Kind -> Nat]
  /\ round.pc = "sent" => \A k \in Kind : round.amount[k] <= vault[k]

CreateInv ==
  /\ account \subseteq Account /\ DOMAIN create = Creator
  /\ \A c \in Creator : create[c].pc = "read" => create[c].account \in Account

BooksInv ==
  /\ CreateInv /\ VaultInv /\ RoundInv(round) /\ Rules(rules)
  /\ dividend \in [Account -> Nat]
  /\ swept \in Nat /\ unbacked \in Nat /\ lost \in Nat
  /\ Credited + lost + Taken(round) <= swept + unbacked

LEMMA NetNatural ==
  ASSUME NEW net \in [Kind -> Nat]
  PROVE  /\ SumFunctionOnSet(net, Kind) \in Nat
         /\ SumFunction(net) = SumFunctionOnSet(net, Kind)
<1>1. NatOn(net, Kind) /\ DOMAIN net = Kind
  BY FiniteParts DEF NatOn
<1>2. QED
  BY <1>1, SumNat, SumAll

LEMMA CreditedNat ==
  ASSUME NEW f \in [Account -> Nat] PROVE SumFunction(f) \in Nat
<1>1. NatOn(f, Account) /\ DOMAIN f = Account
  BY AccountsFinite DEF NatOn
<1>2. QED
  BY <1>1, SumNat, SumAll

LEMMA TakenNat ==
  ASSUME NEW rd, RoundInv(rd) PROVE Taken(rd) \in Nat
<1>1. CASE rd.pc \in {"mined", "pay"}
  <2>1. rd.net \in [Kind -> Nat]
    BY <1>1 DEF RoundInv
  <2>2. QED
    BY <1>1, <2>1, NetNatural DEF Taken
<1>2. QED
  BY <1>1 DEF Taken

\* The accounts stay among those there may be.
LEMMA CreatesKept ==
  ASSUME CreateInv,
         \/ Register \/ Administer \/ \E a \in Buyer : Purchase(a)
         \/ SnapshotBegin \/ SnapshotRead \/ SnapshotWrite \/ SnapshotFail
  PROVE  CreateInv'
<1>1. ASSUME UNCHANGED <<account, create>> PROVE CreateInv'
  BY <1>1 DEF CreateInv
<1>2. ASSUME NEW c \in Creator, NEW a \in Account, NEW recommender \in Account,
             CreateRead(c, a, recommender)
      PROVE  CreateInv'
  <2>1. PICK s : create' = [create EXCEPT ![c] = [pc |-> "read", account |-> a,
                              recommender |-> recommender, superiors |-> s]]
    BY <1>2 DEF CreateRead
  <2>2. account' = account
    BY <1>2 DEF CreateRead
  <2>3. QED
    BY <2>1, <2>2 DEF CreateInv
<1>3. ASSUME NEW c \in Creator, CreateInsert(c) PROVE CreateInv'
  <2>1. /\ create[c].pc = "read" /\ account' = account \cup {create[c].account}
        /\ create' = [create EXCEPT ![c] = NoCreate]
    BY <1>3 DEF CreateInsert
  <2>2. QED
    BY <2>1 DEF CreateInv, NoCreate
<1>4. ASSUME NEW c \in Creator, CreateFail(c) PROVE CreateInv'
  <2>1. create' = [create EXCEPT ![c] = NoCreate] /\ account' = account
    BY <1>4 DEF CreateFail
  <2>2. QED
    BY <2>1 DEF CreateInv, NoCreate
<1>5. ASSUME NEW a \in Deletable, DeleteUser(a) PROVE CreateInv'
  <2>1. account' = account \ {a} /\ create' = create
    BY <1>5 DEF DeleteUser
  <2>2. QED
    BY <2>1 DEF CreateInv
<1>6. CASE Register
  BY <1>2, <1>3, <1>4, <1>6 DEF Register
<1>7. CASE MoveCommit \/ MoveFail \/ SnapshotBegin \/ SnapshotRead \/ SnapshotWrite \/ SnapshotFail
  <2>1. UNCHANGED <<account, create>>
    BY <1>7 DEF MoveCommit, MoveFail, SnapshotBegin, SnapshotRead, SnapshotWrite, SnapshotFail
  <2>2. QED
    BY <1>1, <2>1
<1>8. ASSUME NEW a, NEW superior, MoveLock(a, superior) PROVE CreateInv'
  BY <1>1, <1>8 DEF MoveLock
<1>9. ASSUME NEW limit, UpdateThreshold(limit) PROVE CreateInv'
  BY <1>1, <1>9 DEF UpdateThreshold
<1>10. ASSUME NEW a, Purchase(a) PROVE CreateInv'
  BY <1>1, <1>10 DEF Purchase
<1>11. CASE Administer
  BY <1>5, <1>7, <1>8, <1>9, <1>11 DEF Administer
<1>12. QED
  BY <1>6, <1>7, <1>10, <1>11

\* Steps between which nothing is sent, paid or lost.
LEMMA BooksKept ==
  ASSUME BooksInv, CreateInv', RoundInv(round'), Taken(round') = Taken(round),
         Rules(rules'), VaultInv', UNCHANGED <<dividend, swept, unbacked, lost>>
  PROVE  BooksInv'
<1>1. Credited' = Credited
  BY DEF Credited
<1>2. Taken(round)' = Taken(round') /\ (RoundInv(round)' <=> RoundInv(round'))
      /\ (Rules(rules)' <=> Rules(rules'))
  OBVIOUS
<1>3. QED
  BY <1>1, <1>2 DEF BooksInv

\* The accounts whose level is written in between are remembered: no amount
\* depends on it.
LEMMA TreeStepBooks ==
  ASSUME PayInv, BooksInv, TreeStep PROVE BooksInv'
<1>1. CreateInv'
  BY CreatesKept DEF TreeStep, BooksInv
<1>2. UNCHANGED <<vault, rules, dividend, swept, unbacked, lost>>
  BY DEF TreeStep
<1>3. CASE round.pc # "pay"
  <2>1. round' = round
    BY <1>3 DEF TreeStep, Remember
  <2>2. VaultInv' /\ RoundInv(round') /\ Rules(rules')
    BY <1>2, <2>1 DEF BooksInv, VaultInv, Kind
  <2>3. QED
    BY <1>1, <1>2, <2>1, <2>2, BooksKept
<1>4. CASE round.pc = "pay"
  <2>1. PICK n, r, st, ls, sh, sd, pd, ch :
          /\ st \in 0..Steps /\ sd \in BOOLEAN
          /\ round = [pc |-> "pay", net |-> n, rules |-> r, step |-> st, list |-> ls,
                      share |-> sh, shared |-> sd, paid |-> pd, changed |-> ch]
    BY <1>4 DEF PayInv, PayShape
  <2>2. \E dh : round' = [pc |-> "pay", net |-> n, rules |-> r, step |-> st, list |-> ls,
                          share |-> sh, shared |-> sd, paid |-> pd, changed |-> dh]
    <3>1. round' = [round EXCEPT !.changed = ch \cup {a \in Account : vip'[a] # vip[a]}]
      BY <1>4, <2>1 DEF TreeStep, Remember
    <3>2. QED
      BY <2>1, <3>1
  <2>3. RoundInv(round') /\ Taken(round') = Taken(round)
    BY <1>4, <2>1, <2>2 DEF BooksInv, RoundInv, Covered, Taken
  <2>4. VaultInv' /\ Rules(rules')
    BY <1>2, <2>2 DEF BooksInv, VaultInv, Kind
  <2>5. QED
    BY <1>1, <1>2, <2>3, <2>4, BooksKept
<1>5. QED
  BY <1>3, <1>4

\* A round that has not swept yet, or has ended without a sweep.
LEMMA NothingTaken ==
  ASSUME BooksInv, round.pc \in {"idle", "recompute", "sweep"}, CreateInv',
         round'.pc \in {"idle", "recompute", "sweep"},
         UNCHANGED <<vault, rules, dividend, swept, unbacked, lost>>
  PROVE  BooksInv'
<1>1. RoundInv(round') /\ Taken(round') = Taken(round)
  BY DEF RoundInv, Taken
<1>2. VaultInv' /\ Rules(rules')
  BY DEF BooksInv, VaultInv, Kind
<1>3. QED
  BY <1>1, <1>2, BooksKept

LEMMA RecomputeBooks ==
  ASSUME BooksInv, Recompute \/ (round.pc = "recompute" /\ RecomputeEnd)
  PROVE  BooksInv'
<1>1. CASE Recompute
  <2>1. CreateInv'
    <3>1. SnapshotBegin \/ UNCHANGED treeVars
      BY <1>1 DEF Recompute
    <3>2. UNCHANGED treeVars => CreateInv'
      BY DEF treeVars, BooksInv, CreateInv
    <3>3. QED
      BY <3>1, <3>2, CreatesKept DEF BooksInv
  <2>2. /\ round.pc = "idle" /\ round'.pc \in {"recompute", "sweep"}
        /\ UNCHANGED <<vault, rules, dividend, swept, unbacked, lost>>
    BY <1>1 DEF Recompute
  <2>3. QED
    BY <2>1, <2>2, NothingTaken
<1>2. CASE round.pc = "recompute" /\ RecomputeEnd
  <2>1. CreateInv'
    BY <1>2, CreatesKept DEF RecomputeEnd, BooksInv
  <2>2. /\ round'.pc \in {"idle", "sweep"}
        /\ UNCHANGED <<vault, rules, dividend, swept, unbacked, lost>>
    BY <1>2 DEF RecomputeEnd, NoRound
  <2>3. QED
    BY <1>2, <2>1, <2>2, NothingTaken
<1>3. QED
  BY <1>1, <1>2

\* Fees come in while all vaults are empty; rules are replaced by valid ones.
LEMMA VaultBooks ==
  ASSUME BooksInv,
         CollectFees \/ \E k \in Kind, group \in RuleGroup : UpdateDividendRuleGroup(k, group)
  PROVE  BooksInv'
<1>1. UNCHANGED <<account, create, round, dividend, swept, unbacked, lost>>
  BY DEF CollectFees, UpdateDividendRuleGroup, treeVars
<1>2. CreateInv' /\ RoundInv(round') /\ Taken(round') = Taken(round)
  BY <1>1 DEF BooksInv, CreateInv
<1>3. VaultInv' /\ Rules(rules')
  <2>1. CASE CollectFees
    <3>1. /\ \A k \in Kind : vault[k] = 0
          /\ vault' = [k \in Kind |-> FeeUnit] /\ rules' = rules
      BY <2>1 DEF CollectFees
    <3>2. FeeUnit \in Nat
      BY AmountAssumption
    <3>3. round.pc = "sent" => \A k \in Kind : round.amount[k] \in Nat /\ round.amount[k] <= 0
      BY <3>1 DEF BooksInv, VaultInv, RoundInv
    <3>4. VaultInv'
      BY <1>1, <3>1, <3>2, <3>3 DEF VaultInv, Kind
    <3>5. QED
      BY <3>1, <3>4 DEF BooksInv, Kind
  <2>2. ASSUME NEW k \in Kind, NEW group \in RuleGroup, UpdateDividendRuleGroup(k, group)
        PROVE  VaultInv' /\ Rules(rules')
    <3>1. ValidGroup(group) /\ rules' = [rules EXCEPT ![k] = group] /\ vault' = vault
      BY <2>2 DEF UpdateDividendRuleGroup, treeVars
    <3>2. VaultInv'
      BY <1>1, <3>1 DEF BooksInv, VaultInv, Kind
    <3>3. \A j \in Kind : rules'[j] = group \/ rules'[j] = rules[j]
      BY <3>1
    <3>4. \A j \in Kind : rules'[j] \in RuleGroup /\ ValidGroup(rules'[j])
      BY <3>1, <3>3 DEF BooksInv, Rules
    <3>5. QED
      BY <3>2, <3>4 DEF Rules
  <2>3. QED
    BY <2>1, <2>2
<1>4. QED
  BY <1>1, <1>2, <1>3, BooksKept

\* The call is sent with what is in the vaults.
LEMMA SendBooks ==
  ASSUME BooksInv, SweepSend PROVE BooksInv'
<1>1. /\ round.pc = "sweep" /\ round' = [pc |-> "sent", amount |-> vault]
      /\ UNCHANGED <<account, create, vault, rules, dividend, swept, unbacked, lost>>
  BY DEF SweepSend, treeVars
<1>2. RoundInv(round') /\ Taken(round') = Taken(round)
  BY <1>1 DEF BooksInv, VaultInv, RoundInv, Taken
<1>3. CreateInv' /\ Rules(rules')
  BY <1>1 DEF BooksInv, CreateInv
<1>4. VaultInv'
  <2>1. \A k \in Kind : vault[k] \in Nat
    BY DEF BooksInv, VaultInv
  <2>2. QED
    BY <1>1, <2>1 DEF BooksInv, VaultInv, Kind
<1>5. QED
  BY <1>1, <1>2, <1>3, <1>4, BooksKept

\* The vaults still hold what the call was sent with when it is mined.
LEMMA SweepVault ==
  ASSUME BooksInv, round.pc = "sent",
         vault' = [k \in Kind |-> vault[k] - round.amount[k]]
  PROVE  vault' \in [Kind -> Nat]
<1>1. \A k \in Kind : /\ vault[k] \in Nat /\ round.amount[k] \in Nat
                     /\ round.amount[k] <= vault[k]
  BY DEF BooksInv, VaultInv, RoundInv
<1>2. \A k \in Kind : vault[k] - round.amount[k] \in Nat
  BY <1>1
<1>3. QED
  BY <1>2

\* The receipt comes or does not come: what the round takes or loses was swept,
\* or the call was reverted.
LEMMA SweepBooks ==
  ASSUME BooksInv, SweepReceipt \/ SweepTimeout PROVE BooksInv'
<1>1. /\ round.pc = "sent" /\ round.amount \in [Kind -> Nat]
      /\ UNCHANGED <<account, create, rules, dividend>>
  BY DEF BooksInv, RoundInv, SweepReceipt, SweepTimeout, treeVars
<1> DEFINE amount == round.amount
           net == [k \in Kind |-> Net(amount[k], k)]
<1>2. PICK total \in Nat : /\ total = Total(amount)
                          /\ net \in [Kind -> Nat] /\ total = SumFunctionOnSet(net, Kind)
  BY <1>1, SweptNat
<1>3. CreateInv' /\ Rules(rules') /\ Credited' = Credited
      /\ dividend' \in [Account -> Nat]
  BY <1>1 DEF BooksInv, CreateInv, Credited
<1>4. Taken(round) = 0 /\ Credited \in Nat
  BY <1>1, CreditedNat DEF Taken, Credited, BooksInv
<1>5. /\ swept \in Nat /\ unbacked \in Nat /\ lost \in Nat
      /\ Credited + lost <= swept + unbacked
  BY <1>4 DEF BooksInv
<1>6. vault' \in [Kind -> Nat]
  <2>1. vault' = vault \/ vault' = [k \in Kind |-> vault[k] - round.amount[k]]
    BY DEF SweepReceipt, SweepTimeout, Sweep
  <2>2. QED
    BY <1>1, <2>1, SweepVault DEF BooksInv, VaultInv
<1>7. CASE SweepReceipt
  <2>1. round' = [pc |-> "mined", net |-> net]
    BY <1>7 DEF SweepReceipt, Mined
  <2>2. /\ lost' = lost
        /\ \/ swept' = swept + total /\ unbacked' = unbacked
           \/ swept' = swept /\ unbacked' = unbacked + total
    BY <1>2, <1>7 DEF SweepReceipt, Sweep
  <2>3. Taken(round') = total
    BY <1>2, <2>1 DEF Taken
  <2>4. RoundInv(round')
    BY <1>2, <2>1 DEF RoundInv
  <2>5. VaultInv'
    BY <1>6, <2>1 DEF VaultInv, Kind
  <2> HIDE DEF net, amount
  <2>6. /\ swept' \in Nat /\ unbacked' \in Nat /\ lost' \in Nat
        /\ Credited' + lost' + Taken(round') <= swept' + unbacked'
    BY <1>3, <1>4, <1>5, <2>2, <2>3
  <2>7. QED
    BY <1>3, <2>4, <2>5, <2>6 DEF BooksInv
<1>8. CASE SweepTimeout
  <2>1. round' = NoRound
    BY <1>8 DEF SweepTimeout
  <2>2. /\ unbacked' = unbacked
        /\ \/ swept' = swept + total /\ lost' = lost + total
           \/ swept' = swept /\ lost' = lost
    BY <1>2, <1>8 DEF SweepTimeout, Sweep
  <2>3. RoundInv(round') /\ Taken(round') = 0
    BY <2>1 DEF Taken, RoundInv, NoRound
  <2>4. VaultInv'
    BY <1>6, <2>1 DEF VaultInv, Kind, NoRound
  <2> HIDE DEF net, amount
  <2>5. /\ swept' \in Nat /\ unbacked' \in Nat /\ lost' \in Nat
        /\ Credited' + lost' + Taken(round') <= swept' + unbacked'
    BY <1>3, <1>4, <1>5, <2>2, <2>3
  <2>6. QED
    BY <1>3, <2>3, <2>4, <2>5 DEF BooksInv
<1>9. QED
  BY <1>7, <1>8

\* The transaction begins: nothing is listed yet.
LEMMA ReadBooks ==
  ASSUME BooksInv, ReadRules PROVE BooksInv'
<1>1. /\ round.pc = "mined"
      /\ round' = [pc |-> "pay", net |-> round.net, rules |-> rules, step |-> 0, list |-> {},
                   share |-> 0, shared |-> FALSE, paid |-> {}, changed |-> {}]
      /\ UNCHANGED <<account, create, vault, rules, dividend, swept, unbacked, lost>>
  BY DEF ReadRules, treeVars
<1>2. round.net \in [Kind -> Nat] /\ Rules(rules)
  BY <1>1 DEF BooksInv, RoundInv
<1>3. 0 \in 0..Steps
  BY StepsNat
<1>4. Payments({}) /\ Paid({}) = 0 /\ IsFiniteSet({}) /\ Cardinality({}) = 0
  BY FS_EmptySet, SumEmpty DEF Payments, Paid
<1>5. Given(round.net, rules, 0) \in Nat
  BY <1>2, <1>3, GivenWithin
<1>6. Covered(round')
  BY <1>1, <1>2, <1>3, <1>4, <1>5 DEF Covered
<1>7. RoundInv(round') /\ Taken(round') = Taken(round)
  BY <1>1, <1>2, <1>6 DEF RoundInv, Taken
<1>8. CreateInv' /\ Rules(rules') /\ VaultInv'
  BY <1>1 DEF BooksInv, CreateInv, VaultInv, Kind
<1>9. QED
  BY <1>1, <1>7, <1>8, BooksKept

\* Whoever is listed for a level, and however many: together they get no more
\* than the level.
LEMMA LevelListed ==
  ASSUME PayInv, BooksInv, ListRecipients
  PROVE  /\ round.pc = "pay" /\ round'.pc = "pay" /\ round.list = {}
         /\ round'.net = round.net /\ round'.rules = round.rules /\ round'.paid = round.paid
         /\ round.step \in 0..Steps /\ round'.step \in 0..Steps
         /\ round'.step = round.step + 1
         /\ IsFiniteSet(round'.list) /\ round'.share \in Nat
         /\ \E amount \in Nat :
              /\ Given(round.net, round.rules, round.step + 1)
                   = amount + Given(round.net, round.rules, round.step)
              /\ Cardinality(round'.list) * round'.share <= amount
              /\ amount <= Cardinality(round'.list) * round'.share + Cardinality(Account)
<1>1. PICK n, r, st, ls, sh, sd, pd, ch :
        /\ st \in 0..Steps /\ sd \in BOOLEAN
        /\ round = [pc |-> "pay", net |-> n, rules |-> r, step |-> st, list |-> ls,
                    share |-> sh, shared |-> sd, paid |-> pd, changed |-> ch]
  BY DEF PayInv, PayShape, ListRecipients
<1>2. st < Steps /\ ls = {}
  BY <1>1 DEF ListRecipients
<1>3. n \in [Kind -> Nat] /\ Rules(r)
  BY <1>1 DEF BooksInv, RoundInv, Covered
<1>4. st \in 0..Steps /\ st + 1 \in 0..Steps
  <2>1. st \in 0..Steps
    BY <1>1
  <2>2. QED
    BY <1>2, <2>1, StepsNat
<1> DEFINE k == KindOf(st + 1)
           l == LevelOf(st + 1)
           targets == Targets(k, l)
           card == Cardinality(targets)
           some == Recipients(k, l) # {}
<1>5. PICK amount \in Nat : /\ amount = (n[k] * r[k][l]) \div 10000
                           /\ Given(n, r, st + 1) = amount + Given(n, r, st)
  BY <1>2, <1>3, <1>4, GivenNext
<1>6. LevelAmount(k, l) = amount
  BY <1>1, <1>5 DEF LevelAmount
<1>a. Cardinality(Account) \in Nat
  BY AccountsFinite, FS_CardinalityType
<1>7. /\ IsFiniteSet(targets) /\ targets # {} /\ card \in Nat \ {0}
      /\ amount > 0 => card <= Cardinality(Account)
  <2>1. Recipients(k, l) \subseteq Account
    BY DEF Recipients, BooksInv, CreateInv
  <2>2. IsFiniteSet(Recipients(k, l)) /\ IsFiniteSet({Fallback})
    BY <2>1, AccountsFinite, FS_Subset, FS_Singleton
  <2>3. IsFiniteSet(targets) /\ targets # {}
    BY <2>2 DEF Targets
  <2>4. amount > 0 => targets \subseteq Account
    <3>1. LevelAmount(k, l) > 0 => targets \subseteq account
      <4>1. round.step + 1 = st + 1
        BY <1>1
      <4>2. QED
        BY <4>1 DEF ListRecipients
    <3>2. QED
      BY <1>6, <3>1 DEF BooksInv, CreateInv
  <2> HIDE DEF targets
  <2>5. amount > 0 => card <= Cardinality(Account)
    BY <2>4, AccountsFinite, FS_Subset
  <2>6. card \in Nat /\ card # 0
    BY <2>3, FS_CardinalityType, FS_EmptySet
  <2>7. QED
    BY <2>3, <2>5, <2>6
<1> DEFINE average == IF targets = {} THEN 0 ELSE amount \div card
<1>8. PICK x \in Nat : /\ x = average /\ card * x \in Nat /\ card * x <= amount
                      /\ amount <= card * x + Cardinality(Account)
  <2>1. card \in Nat \ {0} /\ average = amount \div card
    BY <1>7
  <2> HIDE DEF card, average
  <2>2. PICK y \in Nat, z \in Nat : /\ y = amount \div card /\ z <= card
                                   /\ amount = card * y + z
    <3>1. /\ amount \div card \in Nat /\ amount % card \in 0..(card - 1)
          /\ amount = card * (amount \div card) + (amount % card)
      BY <2>1, DivMod
    <3>2. amount % card \in Nat /\ amount % card <= card
      BY <2>1, <3>1
    <3>3. QED
      BY <3>1, <3>2
  <2>3. card * y \in Nat
    BY <2>1, <2>2
  <2>4. amount = 0 \/ amount > 0
    OBVIOUS
  <2>5. z <= Cardinality(Account)
    BY <1>a, <1>7, <2>1, <2>2, <2>3, <2>4
  <2>6. y = average /\ card * y <= amount /\ amount <= card * y + Cardinality(Account)
    BY <1>a, <2>1, <2>2, <2>3, <2>5
  <2>7. QED
    BY <2>3, <2>6
<1> DEFINE list == IF average > 0 THEN targets ELSE {}
<1>9. round' = [round EXCEPT !.step = st + 1, !.share = average, !.shared = some,
                  !.changed = {}, !.list = list]
  <2>1. round.step + 1 = st + 1
    BY <1>1
  <2>2. QED
    BY <1>6, <2>1 DEF ListRecipients
<1> HIDE DEF some, k, l, average
<1>10. /\ IsFiniteSet(list) /\ Cardinality(list) * x <= amount
       /\ amount <= Cardinality(list) * x + Cardinality(Account)
  <2>1. CASE x > 0
    <3>1. list = targets
      BY <1>8, <2>1
    <3>2. QED
      BY <1>7, <1>8, <3>1
  <2>2. CASE x = 0
    <3>1. list = {} /\ IsFiniteSet({}) /\ Cardinality({}) = 0
      BY <1>8, <2>2, FS_EmptySet
    <3>2. card * x = 0
      BY <1>7, <2>2
    <3> HIDE DEF list, card
    <3>3. IsFiniteSet(list) /\ Cardinality(list) * x = 0
      BY <2>2, <3>1
    <3>4. QED
      BY <1>a, <1>8, <3>2, <3>3
  <2>3. QED
    BY <2>1, <2>2
<1> HIDE DEF list, targets, card
<1>11. round' = [pc |-> "pay", net |-> n, rules |-> r, step |-> st + 1, list |-> list,
                 share |-> x, shared |-> some, paid |-> pd, changed |-> {}]
  BY <1>1, <1>8, <1>9
<1>12. QED
  BY <1>1, <1>2, <1>4, <1>5, <1>10, <1>11

LEMMA ListBooks ==
  ASSUME PayInv, BooksInv, ListRecipients PROVE BooksInv'
<1>1. UNCHANGED <<account, create, vault, rules, dividend, swept, unbacked, lost>>
  BY DEF ListRecipients, treeVars
<1>2. /\ round.pc = "pay" /\ round'.pc = "pay" /\ round.list = {}
      /\ round'.net = round.net /\ round'.rules = round.rules /\ round'.paid = round.paid
      /\ round.step \in 0..Steps /\ round'.step \in 0..Steps
      /\ round'.step = round.step + 1
      /\ IsFiniteSet(round'.list) /\ round'.share \in Nat
  BY LevelListed
<1>3. PICK amount \in Nat :
        /\ Given(round.net, round.rules, round.step + 1)
             = amount + Given(round.net, round.rules, round.step)
        /\ Cardinality(round'.list) * round'.share <= amount
  BY LevelListed
<1>4. /\ round.net \in [Kind -> Nat] /\ Rules(round.rules) /\ Payments(round.paid)
      /\ Paid(round.paid) + Cardinality(round.list) * round.share
           <= Given(round.net, round.rules, round.step)
      /\ round.share \in Nat
  BY <1>2 DEF BooksInv, RoundInv, Covered
<1>5. PICK paid \in Nat : paid = Paid(round.paid)
  BY <1>4, PaidNat
<1>6. PICK given \in Nat : given = Given(round.net, round.rules, round.step)
  BY <1>2, <1>4, GivenWithin
<1>7. PICK open \in Nat : open = Cardinality(round'.list) * round'.share
  <2>1. Cardinality(round'.list) \in Nat
    BY <1>2, FS_CardinalityType
  <2>2. Cardinality(round'.list) * round'.share \in Nat
    BY <1>2, <2>1
  <2>3. QED
    BY <2>2
<1>8. paid + 0 <= given
  <2>1. Cardinality(round.list) = 0
    BY <1>2, FS_EmptySet
  <2>2. QED
    BY <1>4, <1>5, <1>6, <2>1
<1>9. Paid(round'.paid) + Cardinality(round'.list) * round'.share
        <= Given(round'.net, round'.rules, round'.step)
  <2>1. Given(round'.net, round'.rules, round'.step) = amount + given
    BY <1>2, <1>3, <1>6
  <2>2. Paid(round'.paid) = paid
    BY <1>2, <1>5
  <2>3. QED
    BY <1>3, <1>7, <1>8, <2>1, <2>2
<1>10. Covered(round')
  BY <1>2, <1>4, <1>9 DEF Covered
<1>11. RoundInv(round') /\ Taken(round') = Taken(round)
  BY <1>2, <1>4, <1>10 DEF RoundInv, Taken
<1>12. CreateInv' /\ Rules(rules') /\ VaultInv'
  BY <1>1, <1>2 DEF BooksInv, CreateInv, VaultInv, Kind
<1>13. QED
  BY <1>1, <1>11, <1>12, BooksKept

\* A recipient is credited its share: what the list still asks for gets smaller
\* by as much.
LEMMA RecipientBooks ==
  ASSUME PayInv, BooksInv, NEW a \in Account, PayRecipient(a) PROVE BooksInv'
<1>1. PICK n, r, st, ls, sh, sd, pd, ch :
        /\ st \in 0..Steps /\ sd \in BOOLEAN
        /\ round = [pc |-> "pay", net |-> n, rules |-> r, step |-> st, list |-> ls,
                    share |-> sh, shared |-> sd, paid |-> pd, changed |-> ch]
  BY DEF PayInv, PayShape, PayRecipient
<1> DEFINE moved == a \in ch
           new == [account |-> a, step |-> st, amount |-> sh, shared |-> sd, changed |-> moved]
<1>2. /\ UNCHANGED <<account, create, vault, rules, dividend, swept, unbacked, lost>>
      /\ a \in ls
  BY <1>1 DEF PayRecipient
<1>3. round' = [pc |-> "pay", net |-> n, rules |-> r, step |-> st, list |-> ls \ {a},
                share |-> sh, shared |-> sd, paid |-> pd \cup {new}, changed |-> ch]
  <2>1. round' = [round EXCEPT !.list = ls \ {a}, !.paid = pd \cup {new}]
    BY <1>1 DEF PayRecipient
  <2>2. QED
    BY <1>1, <2>1
<1>4. new.account = a /\ new.amount = sh
  OBVIOUS
<1> HIDE DEF new, moved
<1>5. /\ n \in [Kind -> Nat] /\ Rules(r) /\ Payments(pd) /\ IsFiniteSet(ls)
      /\ Paid(pd) + Cardinality(ls) * sh <= Given(n, r, st) /\ sh \in Nat
      /\ st \in 0..Steps
  BY <1>1 DEF BooksInv, RoundInv, Covered
<1>6. Payments(pd \cup {new}) /\ Paid(pd \cup {new}) <= Paid(pd) + sh
  BY <1>4, <1>5, PaidNext
<1>7. PICK c \in Nat : c = Cardinality(ls \ {a})
  BY <1>5, FS_RemoveElement, FS_CardinalityType
<1>8. IsFiniteSet(ls \ {a}) /\ Cardinality(ls) = c + 1
  <2>1. /\ IsFiniteSet(ls \ {a}) /\ Cardinality(ls) \in Nat
        /\ Cardinality(ls \ {a}) = Cardinality(ls) - 1
    BY <1>2, <1>5, FS_RemoveElement, FS_CardinalityType
  <2>2. QED
    BY <1>7, <2>1
<1>9. Paid(pd) \in Nat /\ Paid(pd \cup {new}) \in Nat /\ Given(n, r, st) \in Nat
  BY <1>5, <1>6, PaidNat, GivenWithin
<1>10. Paid(pd \cup {new}) + c * sh <= Given(n, r, st)
  <2>1. (c + 1) * sh = c * sh + sh /\ c * sh \in Nat
    BY <1>5
  <2>2. QED
    BY <1>5, <1>6, <1>8, <1>9, <2>1
<1>11. Covered(round')
  BY <1>3, <1>5, <1>6, <1>7, <1>8, <1>10 DEF Covered
<1>12. RoundInv(round') /\ Taken(round') = Taken(round)
  BY <1>1, <1>3, <1>5, <1>11 DEF RoundInv, Taken
<1>13. CreateInv' /\ Rules(rules') /\ VaultInv'
  BY <1>2, <1>3 DEF BooksInv, CreateInv, VaultInv, Kind
<1>14. QED
  BY <1>2, <1>12, <1>13, BooksKept

\* The transaction ends: what it has paid is credited, or all is lost.
LEMMA EndBooks ==
  ASSUME BooksInv, Commit \/ DividendFail PROVE BooksInv'
<1>1. /\ round' = NoRound
      /\ UNCHANGED <<account, create, vault, rules, swept, unbacked>>
  BY DEF Commit, DividendFail
<1>2. CreateInv' /\ Rules(rules') /\ VaultInv' /\ RoundInv(round') /\ Taken(round') = 0
  BY <1>1 DEF BooksInv, CreateInv, VaultInv, RoundInv, Taken, NoRound, Kind
<1>3. /\ swept \in Nat /\ unbacked \in Nat /\ lost \in Nat /\ Credited \in Nat
      /\ Credited + lost + Taken(round) <= swept + unbacked
  BY CreditedNat DEF BooksInv, Credited
<1>4. PICK net \in Nat : net = Taken(round)
  BY TakenNat DEF BooksInv
<1>5. CASE Commit
  <2>1. round.pc = "pay" /\ lost' = lost
    BY <1>5 DEF Commit
  <2>2. /\ round.net \in [Kind -> Nat] /\ Rules(round.rules) /\ round.step \in 0..Steps
        /\ Payments(round.paid) /\ round.share \in Nat /\ IsFiniteSet(round.list)
        /\ Paid(round.paid) + Cardinality(round.list) * round.share
             <= Given(round.net, round.rules, round.step)
    BY <2>1 DEF BooksInv, RoundInv, Covered
  <2>3. PICK paid \in Nat : paid = Paid(round.paid)
    BY <2>2, PaidNat
  <2>4. paid <= net
    <3>1. PICK c \in Nat : c = Cardinality(round.list) * round.share
      <4>1. Cardinality(round.list) \in Nat
        BY <2>2, FS_CardinalityType
      <4>2. Cardinality(round.list) * round.share \in Nat
        BY <2>2, <4>1
      <4>3. QED
        BY <4>2
    <3>2. PICK g \in Nat : /\ g = Given(round.net, round.rules, round.step)
                          /\ g <= SumFunctionOnSet(round.net, Kind)
      BY <2>2, GivenWithin
    <3>3. SumFunctionOnSet(round.net, Kind) = net
      BY <1>4, <2>1 DEF Taken
    <3>4. paid + c <= g
      BY <2>2, <2>3, <3>1, <3>2
    <3>5. QED
      BY <3>2, <3>3, <3>4
  <2>5. /\ dividend' \in [Account -> Nat]
        /\ SumFunction(dividend') = SumFunction(dividend) + Paid(round.paid)
    <3>1. dividend' = [a \in Account |-> dividend[a]
                        + SumFunction([p \in {q \in round.paid : q.account = a} |-> p.amount])]
      BY <1>5 DEF Commit, PaidTo
    <3>2. dividend \in [Account -> Nat]
      BY DEF BooksInv
    <3>3. QED
      BY <2>2, <3>1, <3>2, CommitCredits
  <2>6. Credited' = Credited + paid
    BY <2>3, <2>5 DEF Credited
  <2>7. /\ swept' \in Nat /\ unbacked' \in Nat /\ lost' \in Nat
        /\ Credited' + lost' + Taken(round') <= swept' + unbacked'
    BY <1>1, <1>2, <1>3, <1>4, <2>1, <2>4, <2>6
  <2>8. QED
    BY <1>2, <2>5, <2>7 DEF BooksInv
<1>6. CASE DividendFail
  <2>1. round.pc \in {"mined", "pay"} /\ lost' = lost + SumFunction(round.net)
        /\ dividend' = dividend
    BY <1>6 DEF DividendFail
  <2>2. round.net \in [Kind -> Nat]
    BY <2>1 DEF BooksInv, RoundInv
  <2>3. lost' = lost + net
    BY <1>4, <2>1, <2>2, NetNatural DEF Taken
  <2>4. Credited' = Credited /\ dividend' \in [Account -> Nat]
    BY <2>1 DEF Credited, BooksInv
  <2>5. /\ swept' \in Nat /\ unbacked' \in Nat /\ lost' \in Nat
        /\ Credited' + lost' + Taken(round') <= swept' + unbacked'
    BY <1>1, <1>2, <1>3, <1>4, <2>3, <2>4
  <2>6. QED
    BY <1>2, <2>4, <2>5 DEF BooksInv
<1>7. QED
  BY <1>5, <1>6

LEMMA BooksInit == DividendInit => BooksInv
<1> SUFFICES ASSUME DividendInit PROVE BooksInv
  OBVIOUS
<1>1. /\ account = DOMAIN InitParent /\ create = [c \in Creator |-> NoCreate]
      /\ vault = [k \in Kind |-> 0] /\ round = NoRound
      /\ dividend = [a \in Account |-> 0] /\ swept = 0 /\ unbacked = 0 /\ lost = 0
      /\ rules \in [Kind -> {g \in RuleGroup : ValidGroup(g)}]
  BY DEF DividendInit, Init
<1>2. CreateInv
  <2>1. account \subseteq Account
    BY <1>1, TreeAssumption
  <2>2. QED
    BY <1>1, <2>1 DEF CreateInv, NoCreate
<1>3. VaultInv /\ RoundInv(round) /\ Taken(round) = 0
  BY <1>1 DEF VaultInv, RoundInv, Taken, NoRound
<1>4. Rules(rules)
  BY <1>1 DEF Rules
<1>5. Credited = 0 /\ dividend \in [Account -> Nat]
  <2>1. DOMAIN dividend = Account /\ \A a \in Account : dividend[a] = 0
    BY <1>1
  <2>2. QED
    BY <1>1, <2>1, AccountsFinite, SumAll, SumZero DEF Credited
<1>6. QED
  BY <1>1, <1>2, <1>3, <1>4, <1>5 DEF BooksInv

LEMMA BooksNext == PayInv /\ BooksInv /\ [DividendNext]_vars => BooksInv'
<1> SUFFICES ASSUME PayInv, BooksInv, [DividendNext]_vars PROVE BooksInv'
  OBVIOUS
<1>1. CASE UNCHANGED vars
  <2>1. UNCHANGED <<account, create, vault, rules, round, dividend, swept, unbacked, lost>>
    BY <1>1 DEF vars, treeVars, roundVars
  <2>2. CreateInv' /\ VaultInv' /\ Rules(rules') /\ RoundInv(round')
        /\ Taken(round') = Taken(round)
    BY <2>1 DEF BooksInv, CreateInv, VaultInv, Kind
  <2>3. QED
    BY <2>1, <2>2, BooksKept
<1>2. QED
  BY <1>1, TreeStepBooks, RecomputeBooks, VaultBooks, SendBooks, SweepBooks, ReadBooks,
     ListBooks, RecipientBooks, EndBooks
  DEF DividendNext

\* Whatever fails when, for any rules, levels and numbers of recipients, what is
\* credited and what a failure has lost never exceed what left the vaults for it
\* or what a reverted call was taken for.
THEOREM PaidFromSweeps == DividendSpec => []PaidOutOfSweeps
<1>1. BooksInv => PaidOutOfSweeps
  <2>1. BooksInv => /\ Credited \in Nat /\ Taken(round) \in Nat
                    /\ swept \in Nat /\ unbacked \in Nat /\ lost \in Nat
                    /\ Credited + lost + Taken(round) <= swept + unbacked
    BY CreditedNat, TakenNat DEF BooksInv, Credited
  <2>2. QED
    BY <2>1 DEF PaidOutOfSweeps
<1>2. QED
  BY <1>1, PayInit, PayNext, BooksInit, BooksNext, PTL DEF DividendSpec

-----------------------------------------------------------------------------
(***************************************************************************)
(* Nothing but the rounding is left over.  When all levels are listed, the *)
(* rules have given everything except less than a unit for a level; a list *)
(* leaves less than a unit for each of its accounts, and nobody is paid    *)
(* twice from one list.                                                    *)
(***************************************************************************)
LEMMA DivUnique ==
  ASSUME NEW m \in Nat \ {0}, NEW q \in Nat, NEW r \in 0..(m - 1)
  PROVE  (m * q + r) \div m = q /\ (m * q + r) % m = r
<1>1. PICK s \in Nat : s = m * q + r
  OBVIOUS
<1>2. PICK p \in Nat, t \in 0..(m - 1) : p = s \div m /\ t = s % m /\ s = m * p + t
  BY DivMod
<1>3. p = q
  <2>1. ASSUME NEW a \in Nat, NEW b \in Nat, NEW c \in 0..(m - 1), NEW d \in 0..(m - 1),
               m * a + c = m * b + d, a < b
        PROVE  FALSE
    <3>1. PICK e \in Nat : b = a + 1 + e
      <4>1. b - (a + 1) \in Nat /\ b = a + 1 + (b - (a + 1))
        BY <2>1
      <4>2. QED
        BY <4>1
    <3>2. m * (a + 1 + e) = m * a + m + m * e /\ m * e \in Nat /\ m * a \in Nat
      OBVIOUS
    <3>3. QED
      BY <2>1, <3>1, <3>2
  <2>2. m * p + t = m * q + r
    BY <1>1, <1>2
  <2>3. ~(p < q) /\ ~(q < p)
    BY <2>1, <2>2
  <2>4. QED
    BY <2>3
<1>4. t = r
  <2>1. m * q \in Nat
    OBVIOUS
  <2>2. QED
    BY <1>1, <1>2, <1>3, <2>1
<1>5. QED
  BY <1>1, <1>2, <1>3, <1>4

LEMMA ListedAll == ListedBy(Steps) = Kind \X Level
<1>1. MaxVip \in Nat \ {0} /\ Len(Kinds) \in Nat /\ Steps \in Nat /\ Steps = Len(Kinds) * MaxVip
  BY TreeAssumption, DividendAssumption DEF Steps
<1>2. ASSUME NEW i \in 1..Len(Kinds), NEW l \in 1..MaxVip
      PROVE  <<Kinds[i], l>> \in ListedBy(Steps)
  <2> DEFINE s == MaxVip * (i - 1) + l
  <2>1. i - 1 \in Nat /\ l - 1 \in 0..(MaxVip - 1) /\ MaxVip * (i - 1) \in Nat
    BY <1>1
  <2>2. s \in Nat /\ s >= 1 /\ s - 1 = MaxVip * (i - 1) + (l - 1)
    BY <1>1, <2>1
  <2>3. (s - 1) \div MaxVip = i - 1 /\ (s - 1) % MaxVip = l - 1
    <3>1. PICK q \in Nat, r \in 0..(MaxVip - 1) : q = i - 1 /\ r = l - 1
      BY <2>1
    <3>2. (MaxVip * q + r) \div MaxVip = q /\ (MaxVip * q + r) % MaxVip = r
      BY <1>1, DivUnique
    <3>3. s - 1 = MaxVip * q + r
      BY <2>2, <3>1
    <3>4. QED
      BY <3>1, <3>2, <3>3
  <2>4. s <= Steps
    <3>1. PICK d \in Nat : Len(Kinds) = i + d
      <4>1. Len(Kinds) - i \in Nat /\ Len(Kinds) = i + (Len(Kinds) - i)
        BY <1>1
      <4>2. QED
        BY <4>1
    <3>2. /\ (i + d) * MaxVip = MaxVip * (i - 1) + MaxVip + MaxVip * d
          /\ MaxVip * d \in Nat
      BY <1>1
    <3>3. QED
      BY <1>1, <2>1, <3>1, <3>2
  <2> HIDE DEF s
  <2>5. KindOf(s) = Kinds[i] /\ LevelOf(s) = l
    <3>1. (i - 1) + 1 = i /\ (l - 1) + 1 = l
      OBVIOUS
    <3>2. QED
      BY <2>3, <3>1 DEF KindOf, LevelOf
  <2>6. s \in 1..Steps
    BY <1>1, <2>2, <2>4
  <2>7. QED
    BY <2>5, <2>6 DEF ListedBy
<1>3. Kind \X Level \subseteq ListedBy(Steps)
  BY <1>2 DEF Kind, Level
<1>4. ListedBy(Steps) \subseteq Kind \X Level
  <2>1. Steps \in 0..Steps
    BY <1>1
  <2>2. QED
    BY <2>1, ListedParts
<1>5. QED
  BY <1>3, <1>4

LEMMA GivenAll ==
  ASSUME NEW net \in [Kind -> Nat], NEW rule, Rules(rule)
  PROVE  SumFunctionOnSet(net, Kind) < Given(net, rule, Steps) + Steps
<1>1. MaxVip \in Nat \ {0} /\ Len(Kinds) \in Nat \ {0} /\ Steps = Len(Kinds) * MaxVip
  <2>1. MaxVip \in Nat \ {0}
    BY TreeAssumption
  <2>2. Len(Kinds) \in Nat \ {0}
    BY AmountAssumption, DividendAssumption
  <2>3. QED
    BY <2>1, <2>2 DEF Steps
<1>2. PICK c \in Nat : c = Cardinality(Kind) /\ c <= Len(Kinds)
  <2> DEFINE f == [i \in 1..Len(Kinds) |-> Kinds[i]]
  <2>1. f \in Surjection(1..Len(Kinds), Kind)
    BY DEF Surjection, Kind
  <2>2. IsFiniteSet(1..Len(Kinds)) /\ Cardinality(1..Len(Kinds)) = Len(Kinds)
    <3>1. 1 \in Int /\ Len(Kinds) \in Int
      BY <1>1
    <3>2. /\ IsFiniteSet(1..Len(Kinds))
          /\ Cardinality(1..Len(Kinds)) = IF 1 > Len(Kinds) THEN 0 ELSE Len(Kinds) - 1 + 1
      BY <3>1, FS_Interval
    <3>3. QED
      BY <1>1, <3>2
  <2> HIDE DEF f
  <2>3. Cardinality(Kind) <= Len(Kinds)
    BY <2>1, <2>2, FS_Surjection
  <2>4. Cardinality(Kind) \in Nat
    BY FiniteParts, FS_CardinalityType
  <2>5. QED
    BY <2>3, <2>4
<1>3. Steps \in 0..Steps
  BY StepsNat
<1>4. /\ SumFunctionOnSet(net, Kind) <= Given(net, rule, Steps) + (MaxVip - 1) * c
      /\ SumFunctionOnSet(net, Kind) \in Nat /\ Given(net, rule, Steps) \in Nat
  BY <1>2, <1>3, AmountsWithin, GivenWithin, ListedAll DEF Given
<1>5. (MaxVip - 1) * c < Steps /\ (MaxVip - 1) * c \in Nat
  <2>1. PICK d \in Nat, e \in Nat : Len(Kinds) = c + d /\ MaxVip = e + 1
    <3>1. Len(Kinds) - c \in Nat /\ Len(Kinds) = c + (Len(Kinds) - c)
      BY <1>1, <1>2
    <3>2. MaxVip - 1 \in Nat /\ MaxVip = (MaxVip - 1) + 1
      BY <1>1
    <3>3. QED
      BY <3>1, <3>2
  <2>2. /\ (c + d) * (e + 1) = e * c + d * e + (c + d)
        /\ d * e \in Nat /\ e * c \in Nat
    OBVIOUS
  <2>3. c + d > 0
    BY <1>1, <2>1
  <2>4. (MaxVip - 1) = e
    BY <2>1
  <2>5. QED
    BY <1>1, <2>1, <2>2, <2>3, <2>4
<1>6. QED
  BY <1>4, <1>5, StepsNat

PaidOnce(rd) == \A p \in rd.paid : p.step = rd.step => p.account \notin rd.list

Spent(rd) ==
  Given(rd.net, rd.rules, rd.step)
    <= Paid(rd.paid) + Cardinality(rd.list) * rd.share + rd.step * Cardinality(Account)

SpendInv(rd) == rd.pc = "pay" => PaidOnce(rd) /\ Spent(rd)

\* Nothing is listed or paid yet.
LEMMA ReadSpends ==
  ASSUME BooksInv, ReadRules PROVE SpendInv(round')
<1>1. /\ round.pc = "mined"
      /\ round' = [pc |-> "pay", net |-> round.net, rules |-> rules, step |-> 0, list |-> {},
                   share |-> 0, shared |-> FALSE, paid |-> {}, changed |-> {}]
  BY DEF ReadRules
<1>2. Given(round.net, rules, 0) = 0
  <2>1. ListedBy(0) = {}
    BY DEF ListedBy
  <2>2. QED
    BY <2>1, SumEmpty DEF Given
<1>3. Paid({}) = 0 /\ Cardinality({}) = 0
  BY FS_EmptySet, SumEmpty DEF Paid
<1>4. Cardinality(Account) \in Nat
  BY AccountsFinite, FS_CardinalityType
<1>5. QED
  BY <1>1, <1>2, <1>3, <1>4 DEF SpendInv, PaidOnce, Spent

\* A list leaves less than a unit for each of its accounts.
LEMMA ListSpends ==
  ASSUME PayInv, BooksInv, SpendInv(round), ListRecipients PROVE SpendInv(round')
<1>1. /\ round.pc = "pay" /\ round'.pc = "pay" /\ round.list = {}
      /\ round'.net = round.net /\ round'.rules = round.rules /\ round'.paid = round.paid
      /\ round.step \in 0..Steps /\ round'.step \in 0..Steps
      /\ round'.step = round.step + 1
      /\ IsFiniteSet(round'.list) /\ round'.share \in Nat
  BY LevelListed
<1>2. PICK amount \in Nat :
        /\ Given(round.net, round.rules, round.step + 1)
             = amount + Given(round.net, round.rules, round.step)
        /\ amount <= Cardinality(round'.list) * round'.share + Cardinality(Account)
  BY LevelListed
<1>3. /\ round.net \in [Kind -> Nat] /\ Rules(round.rules) /\ Payments(round.paid)
      /\ round.share \in Nat
  BY <1>1 DEF BooksInv, RoundInv, Covered
<1>4. PICK paid \in Nat : paid = Paid(round.paid)
  BY <1>3, PaidNat
<1>5. PICK given \in Nat : given = Given(round.net, round.rules, round.step)
  BY <1>1, <1>3, GivenWithin
<1>6. PICK open \in Nat : open = Cardinality(round'.list) * round'.share
  <2>1. Cardinality(round'.list) \in Nat
    BY <1>1, FS_CardinalityType
  <2>2. Cardinality(round'.list) * round'.share \in Nat
    BY <1>1, <2>1
  <2>3. QED
    BY <2>2
<1>7. PICK all \in Nat : all = Cardinality(Account)
  BY AccountsFinite, FS_CardinalityType
<1>8. PICK st \in Nat : st = round.step
  BY <1>1, StepsNat
<1>9. given <= paid + st * all
  <2>1. Cardinality(round.list) = 0
    BY <1>1, FS_EmptySet
  <2>2. Spent(round)
    BY <1>1 DEF SpendInv
  <2>3. st * all \in Nat
    OBVIOUS
  <2>4. Cardinality(round.list) * round.share = 0
    BY <1>3, <2>1
  <2>5. QED
    BY <1>4, <1>5, <1>7, <1>8, <2>2, <2>3, <2>4 DEF Spent
<1>10. Spent(round')
  <2>1. Given(round'.net, round'.rules, round'.step) = amount + given
    BY <1>1, <1>2, <1>5
  <2>2. Paid(round'.paid) = paid
    BY <1>1, <1>4
  <2>3. (st + 1) * all = st * all + all /\ st * all \in Nat
    OBVIOUS
  <2>4. round'.step * Cardinality(Account) = (st + 1) * all
    BY <1>1, <1>7, <1>8
  <2>5. amount <= open + all
    BY <1>2, <1>6, <1>7
  <2>6. amount + given <= paid + open + (st + 1) * all
    BY <1>9, <2>3, <2>5
  <2>7. QED
    BY <1>6, <2>1, <2>2, <2>4, <2>6 DEF Spent
<1>11. PaidOnce(round')
  <2>1. \A p \in round.paid : p.step \in 1..round.step
    BY <1>1 DEF PayInv, PaidInv
  <2>2. \A p \in round.paid : p.step # round.step + 1
    BY <1>8, <2>1
  <2>3. QED
    BY <1>1, <2>2 DEF PaidOnce
<1>12. QED
  BY <1>10, <1>11 DEF SpendInv

\* Whoever is paid leaves the list, so nobody is paid twice from it.
LEMMA RecipientSpends ==
  ASSUME PayInv, BooksInv, SpendInv(round), NEW a \in Account, PayRecipient(a)
  PROVE  SpendInv(round')
<1>1. PICK n, r, st, ls, sh, sd, pd, ch :
        /\ st \in 0..Steps /\ sd \in BOOLEAN
        /\ round = [pc |-> "pay", net |-> n, rules |-> r, step |-> st, list |-> ls,
                    share |-> sh, shared |-> sd, paid |-> pd, changed |-> ch]
  BY DEF PayInv, PayShape, PayRecipient
<1> DEFINE moved == a \in ch
           new == [account |-> a, step |-> st, amount |-> sh, shared |-> sd, changed |-> moved]
<1>2. a \in ls
  BY <1>1 DEF PayRecipient
<1>3. round' = [pc |-> "pay", net |-> n, rules |-> r, step |-> st, list |-> ls \ {a},
                share |-> sh, shared |-> sd, paid |-> pd \cup {new}, changed |-> ch]
  <2>1. round' = [round EXCEPT !.list = ls \ {a}, !.paid = pd \cup {new}]
    BY <1>1 DEF PayRecipient
  <2>2. QED
    BY <1>1, <2>1
<1>4. new.account = a /\ new.amount = sh /\ new.step = st
  OBVIOUS
<1> HIDE DEF new, moved
<1>5. /\ n \in [Kind -> Nat] /\ Rules(r) /\ Payments(pd) /\ IsFiniteSet(ls) /\ sh \in Nat
      /\ st \in 0..Steps
  BY <1>1 DEF BooksInv, RoundInv, Covered
<1>6. /\ \A p \in pd : p.step = st => p.account \notin ls
      /\ Given(n, r, st) <= Paid(pd) + Cardinality(ls) * sh + st * Cardinality(Account)
  BY <1>1 DEF SpendInv, PaidOnce, Spent
<1>7. new \notin pd
  BY <1>2, <1>4, <1>6
<1>8. Paid(pd \cup {new}) = Paid(pd) + sh
  BY <1>4, <1>5, <1>7, PaidNext
<1>9. PICK c \in Nat : c = Cardinality(ls \ {a}) /\ Cardinality(ls) = c + 1
  <2>1. /\ IsFiniteSet(ls \ {a}) /\ Cardinality(ls) \in Nat
        /\ Cardinality(ls \ {a}) = Cardinality(ls) - 1
    BY <1>2, <1>5, FS_RemoveElement, FS_CardinalityType
  <2>2. Cardinality(ls \ {a}) \in Nat
    BY <2>1, FS_CardinalityType
  <2>3. QED
    BY <2>1, <2>2
<1>10. PICK g \in Nat, p \in Nat, s \in Nat :
         /\ g = Given(n, r, st) /\ p = Paid(pd) /\ s = st * Cardinality(Account)
  <2>1. Given(n, r, st) \in Nat /\ Paid(pd) \in Nat
    BY <1>5, PaidNat, GivenWithin
  <2>2. st * Cardinality(Account) \in Nat
    <3>1. st \in Nat /\ Cardinality(Account) \in Nat
      BY <1>5, StepsNat, AccountsFinite, FS_CardinalityType
    <3>2. QED
      BY <3>1
  <2>3. QED
    BY <2>1, <2>2
<1>11. Given(n, r, st) <= Paid(pd \cup {new}) + c * sh + st * Cardinality(Account)
  <2>1. (c + 1) * sh = c * sh + sh /\ c * sh \in Nat
    BY <1>5
  <2>2. g <= p + (c + 1) * sh + s
    BY <1>6, <1>9, <1>10
  <2>3. g <= (p + sh) + c * sh + s
    BY <1>5, <2>1, <2>2
  <2>4. QED
    BY <1>8, <1>10, <2>3
<1>12. Spent(round')
  BY <1>3, <1>9, <1>11 DEF Spent
<1>13. \A q \in pd \cup {new} : q.step = st => q.account \notin ls \ {a}
  BY <1>4, <1>6
<1>14. PaidOnce(round')
  BY <1>3, <1>13 DEF PaidOnce
<1>15. QED
  BY <1>12, <1>14 DEF SpendInv

\* What is written to the levels in between does not matter.
LEMMA TreeStepSpends ==
  ASSUME PayInv, SpendInv(round), TreeStep PROVE SpendInv(round')
<1>1. CASE round.pc # "pay"
  <2>1. round' = round
    BY <1>1 DEF TreeStep, Remember
  <2>2. QED
    BY <2>1
<1>2. CASE round.pc = "pay"
  <2>1. PICK n, r, st, ls, sh, sd, pd, ch :
          /\ st \in 0..Steps /\ sd \in BOOLEAN
          /\ round = [pc |-> "pay", net |-> n, rules |-> r, step |-> st, list |-> ls,
                      share |-> sh, shared |-> sd, paid |-> pd, changed |-> ch]
    BY <1>2 DEF PayInv, PayShape
  <2>2. \E dh : round' = [pc |-> "pay", net |-> n, rules |-> r, step |-> st, list |-> ls,
                          share |-> sh, shared |-> sd, paid |-> pd, changed |-> dh]
    <3>1. round' = [round EXCEPT !.changed = ch \cup {a \in Account : vip'[a] # vip[a]}]
      BY <1>2, <2>1 DEF TreeStep, Remember
    <3>2. QED
      BY <2>1, <3>1
  <2>3. QED
    BY <2>1, <2>2 DEF SpendInv, PaidOnce, Spent
<1>3. QED
  BY <1>1, <1>2

LEMMA SpendNext ==
  ASSUME PayInv, BooksInv, SpendInv(round), [DividendNext]_vars PROVE SpendInv(round')
<1>1. CASE UNCHANGED vars
  BY <1>1 DEF vars, roundVars
<1>2. CASE Recompute \/ SweepSend \/ SweepReceipt \/ SweepTimeout \/ Commit \/ DividendFail
  <2>1. round'.pc # "pay"
    BY <1>2 DEF Recompute, SweepSend, SweepReceipt, SweepTimeout, Commit, DividendFail,
                Mined, NoRound
  <2>2. QED
    BY <2>1 DEF SpendInv
<1>3. CASE round.pc = "recompute" /\ RecomputeEnd
  <2>1. round'.pc # "pay"
    BY <1>3 DEF RecomputeEnd, NoRound
  <2>2. QED
    BY <2>1 DEF SpendInv
<1>4. CASE CollectFees \/ \E k \in Kind, group \in RuleGroup : UpdateDividendRuleGroup(k, group)
  <2>1. round' = round
    BY <1>4 DEF CollectFees, UpdateDividendRuleGroup
  <2>2. QED
    BY <2>1
<1>5. QED
  BY <1>1, <1>2, <1>3, <1>4, TreeStepSpends, ReadSpends, ListSpends, RecipientSpends
  DEF DividendNext

\* A commit therefore credits all but the rounding.
LEMMA CommitPaysAll ==
  ASSUME PayInv, BooksInv, SpendInv(round), Commit
  PROVE  SumFunction(round.net) < Credited' - Credited + Steps * (1 + Cardinality(Account))
<1>1. round.pc = "pay" /\ round.list = {} /\ round.step = Steps
  BY DEF Commit
<1>2. /\ round.net \in [Kind -> Nat] /\ Rules(round.rules) /\ Payments(round.paid)
      /\ round.share \in Nat
  BY <1>1 DEF BooksInv, RoundInv, Covered
<1>3. PICK paid \in Nat : paid = Paid(round.paid)
  BY <1>2, PaidNat
<1>4. PICK steps \in Nat, all \in Nat : steps = Steps /\ all = Cardinality(Account)
  BY StepsNat, AccountsFinite, FS_CardinalityType
<1>5. PICK given \in Nat, net \in Nat :
        /\ given = Given(round.net, round.rules, Steps) /\ net = SumFunction(round.net)
        /\ net < given + steps
  <2>1. Steps \in 0..Steps
    BY StepsNat
  <2>2. /\ Given(round.net, round.rules, Steps) \in Nat
        /\ SumFunctionOnSet(round.net, Kind) \in Nat
        /\ SumFunctionOnSet(round.net, Kind) < Given(round.net, round.rules, Steps) + Steps
    BY <1>2, <2>1, GivenWithin, GivenAll
  <2>3. SumFunction(round.net) = SumFunctionOnSet(round.net, Kind)
    BY <1>2, NetNatural
  <2>4. QED
    BY <1>4, <2>2, <2>3
<1>6. given <= paid + steps * all
  <2>1. Cardinality(round.list) * round.share = 0
    <3>1. Cardinality(round.list) = 0
      BY <1>1, FS_EmptySet
    <3>2. QED
      BY <1>2, <3>1
  <2>2. Spent(round)
    BY <1>1 DEF SpendInv
  <2>3. steps * all \in Nat
    OBVIOUS
  <2>4. QED
    BY <1>1, <1>3, <1>4, <1>5, <2>1, <2>2, <2>3 DEF Spent
<1>7. Credited \in Nat /\ Credited' = Credited + paid
  <2>1. dividend' = [a \in Account |-> dividend[a]
                      + SumFunction([p \in {q \in round.paid : q.account = a} |-> p.amount])]
    BY DEF Commit, PaidTo
  <2>2. dividend \in [Account -> Nat]
    BY DEF BooksInv
  <2>3. /\ SumFunction(dividend) \in Nat
        /\ SumFunction(dividend') = SumFunction(dividend) + Paid(round.paid)
    BY <1>2, <2>1, <2>2, CommitCredits
  <2>4. QED
    BY <1>3, <2>3 DEF Credited
<1>8. Credited' - Credited = paid
  BY <1>7
<1>9. steps * (1 + all) = steps + steps * all /\ steps * all \in Nat
  OBVIOUS
<1>10. net < paid + steps * (1 + all)
  BY <1>5, <1>6, <1>9
<1>11. QED
  BY <1>4, <1>5, <1>8, <1>10

\* A round that commits has credited everything it took for swept, except less
\* than a unit for every level and every recipient of a level, for any rules
\* and whatever happens to the tree while it is paid.
THEOREM CommitLeavesRounding == DividendSpec => RoundPaysAll
<1> DEFINE Inv == PayInv /\ BooksInv /\ SpendInv(round)
<1>1. DividendInit => SpendInv(round)
  BY DEF DividendInit, SpendInv, NoRound
<1>2. Inv /\ [DividendNext]_vars => Inv'
  <2>1. SpendInv(round)' <=> SpendInv(round')
    OBVIOUS
  <2>2. QED
    BY <2>1, PayNext, BooksNext, SpendNext
<1>3. Inv /\ [DividendNext]_vars =>
        [Commit => SumFunction(round.net)
                     < Credited' - Credited + Steps * (1 + Cardinality(Account))]_vars
  BY CommitPaysAll
<1>4. QED
  BY <1>1, <1>2, <1>3, PayInit, BooksInit, PTL DEF DividendSpec, RoundPaysAll
=============================================================================
