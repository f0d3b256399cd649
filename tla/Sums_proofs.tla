----------------------------- MODULE Sums_proofs -----------------------------
(***************************************************************************)
(* Facts about SumFunctionOnSet, the sum of a function over a finite set,  *)
(* which is how the modules write the SUM(...) of the SQL and the totals   *)
(* of the services.                                                        *)
(*                                                                         *)
(* The community modules define it by recursion over the subsets of the    *)
(* set, taking out an element that CHOOSE picks.  Here that definition is  *)
(* shown to have a solution and only one, by induction over the strict     *)
(* subsets; from then on SumRemove and SumEmpty say what the sum is, and   *)
(* everything else follows from the two.                                   *)
(***************************************************************************)
EXTENDS Functions, Integers, FiniteSetTheorems, TLAPS

\* The element that the recursion takes out of a set, and one step of it.
Pick(s) == CHOOSE x \in s : TRUE
Unfolded(f, g, s) == IF s = {} THEN 0 ELSE f[Pick(s)] + g[s \ {Pick(s)}]

\* g is the table of the sums of f over the subsets of S.
Solves(f, g, S) == g = [s \in SUBSET S |-> Unfolded(f, g, s)]
Table(f, S) == CHOOSE g : Solves(f, g, S)

LEMMA SumIsTable ==
  ASSUME NEW f, NEW S
  PROVE  SumFunctionOnSet(f, S) = Table(f, S)[S]
  BY DEF SumFunctionOnSet, FoldFunctionOnSet, MapThenFoldSet, Table, Solves, Unfolded, Pick

LEMMA PickIn ==
  ASSUME NEW s, s # {}
  PROVE  Pick(s) \in s
  BY DEF Pick

(***************************************************************************)
(* Induction over the subsets of a finite set, for a family F of them.     *)
(***************************************************************************)
LEMMA SubsetInduction ==
  ASSUME NEW S, IsFiniteSet(S), NEW F,
         \A T \in SUBSET S : (\A U \in SUBSET T : U # T => U \in F) => T \in F
  PROVE  SUBSET S \subseteq F
<1> DEFINE Bad == {T \in SUBSET S : T \notin F}
<1>1. SUFFICES ASSUME Bad # {} PROVE FALSE
  OBVIOUS
<1>2. Bad \subseteq FiniteSubsetsOf(S)
  BY FS_Subset DEF FiniteSubsetsOf
<1>3. PICK T \in Bad : \A U \in Bad : ~(<<U, T>> \in StrictSubsetOrdering(S))
  <2> HIDE DEF Bad
  <2>1. QED
    BY <1>1, <1>2, FS_StrictSubsetOrderingWellFounded, WFMin
<1>4. ASSUME NEW U \in SUBSET T, U # T PROVE U \in F
  <2>1. <<U, T>> \in StrictSubsetOrdering(S)
    BY <1>4 DEF StrictSubsetOrdering
  <2>2. QED
    BY <1>3, <2>1
<1>5. QED
  BY <1>4

(***************************************************************************)
(* The table exists and is the only one.                                   *)
(***************************************************************************)
LEMMA SolvesOnSubset ==
  ASSUME NEW f, NEW g, NEW S, Solves(f, g, S), NEW s \in SUBSET S
  PROVE  g[s] = Unfolded(f, g, s)
  BY DEF Solves

LEMMA Agreement ==
  ASSUME NEW f, NEW g, NEW h, NEW S, NEW R, IsFiniteSet(R), R \subseteq S,
         Solves(f, g, S), Solves(f, h, R)
  PROVE  g[R] = h[R]
<1> DEFINE F == {s \in SUBSET R : g[s] = h[s]}
<1>1. ASSUME NEW s \in SUBSET R, \A u \in SUBSET s : u # s => u \in F
      PROVE  s \in F
  <2>1. g[s] = Unfolded(f, g, s) /\ h[s] = Unfolded(f, h, s)
    BY SolvesOnSubset
  <2>2. CASE s = {}
    BY <2>1, <2>2 DEF Unfolded
  <2>3. CASE s # {}
    <3>1. Pick(s) \in s
      BY <2>3, PickIn
    <3>2. g[s \ {Pick(s)}] = h[s \ {Pick(s)}]
      BY <1>1, <3>1
    <3>3. QED
      BY <2>1, <3>2 DEF Unfolded
  <2>4. QED
    BY <2>2, <2>3
<1>2. SUBSET R \subseteq F
  <2> HIDE DEF F
  <2>1. QED
    BY <1>1, SubsetInduction
<1>3. QED
  BY <1>2

LEMMA TableSolves ==
  ASSUME NEW f, NEW S, IsFiniteSet(S)
  PROVE  Solves(f, Table(f, S), S)
<1> DEFINE F == {T \in SUBSET S : Solves(f, Table(f, T), T)}
<1>1. ASSUME NEW T \in SUBSET S, \A U \in SUBSET T : U # T => U \in F
      PROVE  T \in F
  <2> DEFINE p == Pick(T)
             top == IF T = {} THEN 0 ELSE f[p] + Table(f, T \ {p})[T \ {p}]
             g == [s \in SUBSET T |-> IF s = T THEN top ELSE Table(f, s)[s]]
  <2>1. ASSUME NEW s \in SUBSET T PROVE g[s] = Unfolded(f, g, s)
    <3>1. CASE s = {}
      <4>1. CASE T = {}
        BY <3>1, <4>1 DEF Unfolded
      <4>2. CASE T # {}
        <5>1. Solves(f, Table(f, s), s) /\ g[s] = Table(f, s)[s]
          BY <1>1, <3>1, <4>2
        <5>2. Table(f, s)[s] = Unfolded(f, Table(f, s), s)
          BY <5>1, SolvesOnSubset
        <5>3. QED
          BY <3>1, <5>1, <5>2 DEF Unfolded
      <4>3. QED
        BY <4>1, <4>2
    <3>2. CASE s # {}
      <4>1. Pick(s) \in s
        BY <3>2, PickIn
      <4> DEFINE u == s \ {Pick(s)}
      <4>2. u \in SUBSET T /\ u # T /\ u \subseteq s
        BY <4>1
      <4>3. Solves(f, Table(f, u), u) /\ g[u] = Table(f, u)[u]
        BY <1>1, <4>2
      <4>4. CASE s = T
        <5>1. g[s] = f[Pick(s)] + Table(f, u)[u]
          BY <3>2, <4>4
        <5>2. QED
          BY <3>2, <4>3, <5>1 DEF Unfolded
      <4>5. CASE s # T
        <5>1. Solves(f, Table(f, s), s) /\ g[s] = Table(f, s)[s]
          BY <1>1, <4>5
        <5>2. IsFiniteSet(u)
          BY <4>2, FS_Subset
        <5>3. Table(f, s)[u] = Table(f, u)[u]
          <6> HIDE DEF u, g
          <6>1. QED
            BY <4>2, <4>3, <5>1, <5>2, Agreement
        <5>4. Table(f, s)[s] = f[Pick(s)] + Table(f, s)[u]
          BY <3>2, <5>1, SolvesOnSubset DEF Unfolded
        <5>5. QED
          BY <3>2, <4>3, <5>1, <5>3, <5>4 DEF Unfolded
      <4>6. QED
        BY <4>4, <4>5
    <3>3. QED
      BY <3>1, <3>2
  <2>2. g = [s \in SUBSET T |-> g[s]]
    OBVIOUS
  <2> HIDE DEF g
  <2>3. g = [s \in SUBSET T |-> Unfolded(f, g, s)]
    BY <2>1, <2>2
  <2>4. Solves(f, g, T)
    BY <2>3 DEF Solves
  <2>5. QED
    BY <2>4 DEF Table
<1>2. SUBSET S \subseteq F
  <2> HIDE DEF F
  <2>1. QED
    BY <1>1, SubsetInduction
<1>3. QED
  BY <1>2

-----------------------------------------------------------------------------
(***************************************************************************)
(* What the sum is: nothing over the empty set, and over another set the   *)
(* value of any element and the sum over the others.                       *)
(***************************************************************************)
Summable(f, S) == IsFiniteSet(S) /\ \A x \in S : f[x] \in Int

LEMMA SumEmpty ==
  ASSUME NEW f
  PROVE  SumFunctionOnSet(f, {}) = 0
<1>1. Solves(f, Table(f, {}), {})
  BY TableSolves, FS_EmptySet
<1>2. QED
  BY <1>1, SumIsTable, SolvesOnSubset DEF Unfolded

LEMMA TableOfSubset ==
  ASSUME NEW f, NEW S, IsFiniteSet(S), NEW R, R \subseteq S
  PROVE  Table(f, S)[R] = Table(f, R)[R]
<1>1. IsFiniteSet(R)
  BY FS_Subset
<1>2. Solves(f, Table(f, S), S) /\ Solves(f, Table(f, R), R)
  BY <1>1, TableSolves
<1>3. QED
  BY <1>1, <1>2, Agreement

LEMMA SumPick ==
  ASSUME NEW f, NEW S, IsFiniteSet(S), S # {}
  PROVE  SumFunctionOnSet(f, S) = f[Pick(S)] + SumFunctionOnSet(f, S \ {Pick(S)})
<1>1. Solves(f, Table(f, S), S)
  BY TableSolves
<1>2. Table(f, S)[S] = f[Pick(S)] + Table(f, S)[S \ {Pick(S)}]
  BY <1>1, SolvesOnSubset DEF Unfolded
<1>3. QED
  BY <1>2, SumIsTable, TableOfSubset

LEMMA SumInt ==
  ASSUME NEW f, NEW S, Summable(f, S)
  PROVE  SumFunctionOnSet(f, S) \in Int
<1> DEFINE F == {T \in SUBSET S : SumFunctionOnSet(f, T) \in Int}
<1>1. ASSUME NEW T \in SUBSET S, \A U \in SUBSET T : U # T => U \in F
      PROVE  T \in F
  <2>1. CASE T = {}
    BY <2>1, SumEmpty
  <2>2. CASE T # {}
    <3>1. Pick(T) \in T /\ IsFiniteSet(T)
      BY <2>2, PickIn, FS_Subset DEF Summable
    <3>2. SumFunctionOnSet(f, T \ {Pick(T)}) \in Int
      BY <1>1, <3>1
    <3>3. f[Pick(T)] \in Int
      BY <3>1 DEF Summable
    <3>4. QED
      BY <2>2, <3>1, <3>2, <3>3, SumPick
  <2>3. QED
    BY <2>1, <2>2
<1>2. SUBSET S \subseteq F
  <2> HIDE DEF F
  <2>1. QED
    BY <1>1, SubsetInduction DEF Summable
<1>3. QED
  BY <1>2

LEMMA SummableSubset ==
  ASSUME NEW f, NEW S, Summable(f, S), NEW T, T \subseteq S
  PROVE  Summable(f, T) /\ SumFunctionOnSet(f, T) \in Int
<1>1. Summable(f, T)
  BY FS_Subset DEF Summable
<1>2. QED
  BY <1>1, SumInt

\* Any element may be taken out first.
LEMMA SumRemove ==
  ASSUME NEW f, NEW S, Summable(f, S), NEW x \in S
  PROVE  SumFunctionOnSet(f, S) = f[x] + SumFunctionOnSet(f, S \ {x})
<1> DEFINE F == {T \in SUBSET S : \A y \in T :
                   SumFunctionOnSet(f, T) = f[y] + SumFunctionOnSet(f, T \ {y})}
<1>1. ASSUME NEW T \in SUBSET S, \A U \in SUBSET T : U # T => U \in F
      PROVE  T \in F
  <2>1. SUFFICES ASSUME NEW y \in T
                 PROVE  SumFunctionOnSet(f, T) = f[y] + SumFunctionOnSet(f, T \ {y})
    OBVIOUS
  <2> DEFINE p == Pick(T)
             rest == (T \ {p}) \ {y}
  <2>2. p \in T /\ IsFiniteSet(T)
    BY PickIn, FS_Subset DEF Summable
  <2>3. SumFunctionOnSet(f, T) = f[p] + SumFunctionOnSet(f, T \ {p})
    BY <2>1, <2>2, SumPick
  <2> HIDE DEF p
  <2>4. CASE y = p
    BY <2>3, <2>4
  <2>5. CASE y # p
    <3>1. T \ {p} \in F /\ y \in T \ {p} /\ T \ {y} \in F /\ p \in T \ {y}
      BY <1>1, <2>1, <2>2, <2>5
    <3>2. rest = (T \ {y}) \ {p}
      OBVIOUS
    <3>3. SumFunctionOnSet(f, T \ {p}) = f[y] + SumFunctionOnSet(f, rest)
      BY <3>1
    <3>4. SumFunctionOnSet(f, T \ {y}) = f[p] + SumFunctionOnSet(f, rest)
      BY <3>1, <3>2
    <3>5. f[y] \in Int /\ f[p] \in Int
      BY <2>1, <2>2 DEF Summable
    <3>6. SumFunctionOnSet(f, rest) \in Int
      BY SummableSubset
    <3> HIDE DEF rest
    <3>7. QED
      BY <2>3, <3>3, <3>4, <3>5, <3>6
  <2>6. QED
    BY <2>4, <2>5
<1>2. SUBSET S \subseteq F
  <2> HIDE DEF F
  <2>1. QED
    BY <1>1, SubsetInduction DEF Summable
<1>3. S \in F
  BY <1>2
<1>4. QED
  BY <1>3

LEMMA SumInsert ==
  ASSUME NEW f, NEW S, NEW x, x \notin S, Summable(f, S), f[x] \in Int
  PROVE  /\ Summable(f, S \cup {x})
         /\ SumFunctionOnSet(f, S \cup {x}) = f[x] + SumFunctionOnSet(f, S)
<1>1. Summable(f, S \cup {x})
  BY FS_AddElement DEF Summable
<1>2. (S \cup {x}) \ {x} = S
  OBVIOUS
<1>3. QED
  BY <1>1, <1>2, SumRemove

\* The sum of a function is the sum over its domain.
LEMMA SumAll ==
  ASSUME NEW f, NEW S, DOMAIN f = S
  PROVE  SumFunction(f) = SumFunctionOnSet(f, S)
  BY DEF SumFunction

-----------------------------------------------------------------------------
(***************************************************************************)
(* What follows, by induction over the elements of the set.                *)
(***************************************************************************)
LEMMA ElementInduction ==
  ASSUME NEW S, IsFiniteSet(S), NEW F, {} \in F,
         \A T \in SUBSET S : \A x \in T : T \ {x} \in F => T \in F
  PROVE  S \in F
<1>1. ASSUME NEW T \in SUBSET S, \A U \in SUBSET T : U # T => U \in F
      PROVE  T \in F
  <2>1. CASE T = {}
    BY <2>1
  <2>2. CASE T # {}
    <3>1. PICK x : x \in T
      BY <2>2
    <3>2. T \ {x} \in F
      BY <1>1, <3>1
    <3>3. QED
      BY <3>1, <3>2
  <2>3. QED
    BY <2>1, <2>2
<1>2. SUBSET S \subseteq F
  BY <1>1, SubsetInduction
<1>3. QED
  BY <1>2

\* The sum is monotone in the function.
LEMMA SumMonotone ==
  ASSUME NEW f, NEW g, NEW S, Summable(f, S), Summable(g, S), \A x \in S : f[x] <= g[x]
  PROVE  SumFunctionOnSet(f, S) <= SumFunctionOnSet(g, S)
<1> DEFINE F == {T \in SUBSET S : SumFunctionOnSet(f, T) <= SumFunctionOnSet(g, T)}
<1>1. {} \in F
  BY SumEmpty
<1>2. ASSUME NEW T \in SUBSET S, NEW x \in T, T \ {x} \in F PROVE T \in F
  <2> DEFINE fr == SumFunctionOnSet(f, T \ {x})
             gr == SumFunctionOnSet(g, T \ {x})
  <2>1. Summable(f, T) /\ Summable(g, T)
    BY SummableSubset
  <2>2. SumFunctionOnSet(f, T) = f[x] + fr /\ SumFunctionOnSet(g, T) = g[x] + gr
    BY <2>1, SumRemove
  <2>3. fr \in Int /\ gr \in Int
    BY SummableSubset
  <2>4. f[x] \in Int /\ g[x] \in Int /\ f[x] <= g[x]
    BY DEF Summable
  <2>5. fr <= gr
    BY <1>2
  <2> HIDE DEF fr, gr
  <2>6. f[x] + fr <= g[x] + gr
    BY <2>3, <2>4, <2>5
  <2>7. QED
    BY <2>2, <2>6
<1>3. S \in F
  <2> HIDE DEF F
  <2>1. QED
    BY <1>1, <1>2, ElementInduction DEF Summable
<1>4. QED
  BY <1>3

\* Functions that agree on the set have the same sum over it.
LEMMA SumSame ==
  ASSUME NEW f, NEW g, NEW S, Summable(f, S), \A x \in S : f[x] = g[x]
  PROVE  Summable(g, S) /\ SumFunctionOnSet(f, S) = SumFunctionOnSet(g, S)
<1>1. Summable(g, S) /\ \A x \in S : f[x] <= g[x] /\ g[x] <= f[x]
  BY DEF Summable
<1>2. /\ SumFunctionOnSet(f, S) <= SumFunctionOnSet(g, S)
      /\ SumFunctionOnSet(g, S) <= SumFunctionOnSet(f, S)
  BY <1>1, SumMonotone
<1>3. SumFunctionOnSet(f, S) \in Int /\ SumFunctionOnSet(g, S) \in Int
  BY <1>1, SumInt
<1>4. QED
  BY <1>1, <1>2, <1>3

\* The sum is additive in the function.
LEMMA SumPlus ==
  ASSUME NEW f, NEW g, NEW h, NEW S, Summable(f, S), Summable(g, S),
         \A x \in S : h[x] = f[x] + g[x]
  PROVE  /\ Summable(h, S)
         /\ SumFunctionOnSet(h, S) = SumFunctionOnSet(f, S) + SumFunctionOnSet(g, S)
<1>0. Summable(h, S)
  BY DEF Summable
<1> DEFINE F == {T \in SUBSET S : SumFunctionOnSet(h, T)
                                   = SumFunctionOnSet(f, T) + SumFunctionOnSet(g, T)}
<1>1. {} \in F
  BY SumEmpty
<1>2. ASSUME NEW T \in SUBSET S, NEW x \in T, T \ {x} \in F PROVE T \in F
  <2> DEFINE fr == SumFunctionOnSet(f, T \ {x})
             gr == SumFunctionOnSet(g, T \ {x})
             hr == SumFunctionOnSet(h, T \ {x})
  <2>1. Summable(f, T) /\ Summable(g, T) /\ Summable(h, T)
    BY <1>0, SummableSubset
  <2>2. /\ SumFunctionOnSet(f, T) = f[x] + fr
        /\ SumFunctionOnSet(g, T) = g[x] + gr
        /\ SumFunctionOnSet(h, T) = h[x] + hr
    BY <2>1, SumRemove
  <2>3. fr \in Int /\ gr \in Int
    BY SummableSubset
  <2>4. f[x] \in Int /\ g[x] \in Int /\ h[x] = f[x] + g[x]
    BY DEF Summable
  <2>5. hr = fr + gr
    BY <1>2
  <2> HIDE DEF fr, gr, hr
  <2>6. h[x] + hr = (f[x] + fr) + (g[x] + gr)
    BY <2>3, <2>4, <2>5
  <2>7. QED
    BY <2>2, <2>6
<1>3. S \in F
  <2> HIDE DEF F
  <2>1. QED
    BY <1>1, <1>2, ElementInduction DEF Summable
<1>4. QED
  BY <1>0, <1>3

\* One value grows by d (which may be negative), the others stay.
LEMMA SumChange ==
  ASSUME NEW f, NEW g, NEW S, Summable(f, S), NEW x \in S, NEW d \in Int,
         g[x] = f[x] + d, \A y \in S : y # x => g[y] = f[y]
  PROVE  Summable(g, S) /\ SumFunctionOnSet(g, S) = SumFunctionOnSet(f, S) + d
<1> DEFINE R == S \ {x}
<1>1. Summable(g, S) /\ f[x] \in Int
  BY DEF Summable
<1>2. Summable(f, R) /\ SumFunctionOnSet(f, R) \in Int
  BY SummableSubset
<1>3. SumFunctionOnSet(f, S) = f[x] + SumFunctionOnSet(f, R)
  BY SumRemove
<1>4. SumFunctionOnSet(g, S) = g[x] + SumFunctionOnSet(g, R)
  BY <1>1, SumRemove
<1>5. \A y \in R : f[y] = g[y]
  OBVIOUS
<1> HIDE DEF R
<1>6. SumFunctionOnSet(f, R) = SumFunctionOnSet(g, R)
  BY <1>2, <1>5, SumSame
<1>7. QED
  BY <1>1, <1>2, <1>3, <1>4, <1>6

\* The same, with the change written as one equation and given a name.
Moves(f, g, S, x, d) ==
  x \in S /\ d \in Int /\ \A y \in S : g[y] = f[y] + IF y = x THEN d ELSE 0

LEMMA SumMove ==
  ASSUME NEW f, NEW g, NEW S, NEW x, NEW d, Summable(f, S), Moves(f, g, S, x, d)
  PROVE  Summable(g, S) /\ SumFunctionOnSet(g, S) = SumFunctionOnSet(f, S) + d
<1>1. x \in S /\ d \in Int /\ g[x] = f[x] + d
  BY DEF Moves
<1>2. \A y \in S : y # x => g[y] = f[y]
  BY DEF Moves, Summable
<1>3. QED
  BY ONLY Summable(f, S), <1>1, <1>2, SumChange

\* The sum of multiples, and of one value.
LEMMA SumScale ==
  ASSUME NEW f, NEW g, NEW S, Summable(f, S), NEW c \in Int, \A x \in S : g[x] = c * f[x]
  PROVE  Summable(g, S) /\ SumFunctionOnSet(g, S) = c * SumFunctionOnSet(f, S)
<1>1. Summable(g, S) /\ IsFiniteSet(S)
  BY DEF Summable
<1> DEFINE F == {T \in SUBSET S : SumFunctionOnSet(g, T) = c * SumFunctionOnSet(f, T)}
<1>2. {} \in F
  BY SumEmpty
<1>3. ASSUME NEW T \in SUBSET S, NEW x \in T, T \ {x} \in F PROVE T \in F
  <2> DEFINE fr == SumFunctionOnSet(f, T \ {x})
             gr == SumFunctionOnSet(g, T \ {x})
             fx == f[x]
             gx == g[x]
  <2>1. Summable(f, T) /\ Summable(g, T)
    BY <1>1, SummableSubset
  <2>2. SumFunctionOnSet(f, T) = fx + fr /\ SumFunctionOnSet(g, T) = gx + gr
    BY <2>1, SumRemove
  <2>3. fr \in Int /\ gr \in Int
    BY <1>1, SummableSubset
  <2>4. fx \in Int /\ gx = c * fx
    BY DEF Summable
  <2>5. gr = c * fr
    BY <1>3
  <2> HIDE DEF fr, gr, fx, gx
  <2>6. gx + gr = c * (fx + fr)
    BY <2>3, <2>4, <2>5
  <2>7. QED
    BY <2>2, <2>6
<1>4. S \in F
  <2>1. \A T \in SUBSET S : \A x \in T : T \ {x} \in F => T \in F
    BY <1>3
  <2> HIDE DEF F
  <2>2. QED
    BY ONLY <1>1, <1>2, <2>1, ElementInduction
<1>5. QED
  BY <1>1, <1>4

LEMMA SumConstant ==
  ASSUME NEW f, NEW S, IsFiniteSet(S), NEW c \in Int, \A x \in S : f[x] = c
  PROVE  Summable(f, S) /\ SumFunctionOnSet(f, S) = c * Cardinality(S)
<1>1. Summable(f, S)
  BY DEF Summable
<1> DEFINE F == {T \in SUBSET S : SumFunctionOnSet(f, T) = c * Cardinality(T)}
<1>2. {} \in F
  BY SumEmpty, FS_EmptySet
<1>3. ASSUME NEW T \in SUBSET S, NEW x \in T, T \ {x} \in F PROVE T \in F
  <2>1. Summable(f, T)
    BY <1>1, SummableSubset
  <2>2. SumFunctionOnSet(f, T) = f[x] + SumFunctionOnSet(f, T \ {x}) /\ f[x] = c
    BY <2>1, SumRemove
  <2>3. PICK n \in Int : n = Cardinality(T \ {x}) /\ Cardinality(T) = n + 1
    <3>1. IsFiniteSet(T)
      BY FS_Subset
    <3>2. Cardinality(T) \in Nat /\ Cardinality(T \ {x}) = Cardinality(T) - 1
      BY <3>1, FS_CardinalityType, FS_RemoveElement
    <3>3. QED
      BY <3>2
  <2>4. SumFunctionOnSet(f, T \ {x}) = c * n
    BY <1>3, <2>3
  <2>5. c + c * n = c * (n + 1)
    OBVIOUS
  <2>6. QED
    BY <2>2, <2>3, <2>4, <2>5
<1>4. S \in F
  <2>1. \A T \in SUBSET S : \A x \in T : T \ {x} \in F => T \in F
    BY <1>3
  <2> HIDE DEF F
  <2>2. QED
    BY ONLY <1>2, <2>1, ElementInduction, IsFiniteSet(S)
<1>5. QED
  BY <1>1, <1>4

\* A function is at most so much above another one at every place.
LEMMA SumSlack ==
  ASSUME NEW f, NEW g, NEW S, Summable(f, S), Summable(g, S), NEW c \in Int,
         \A x \in S : f[x] <= g[x] + c
  PROVE  SumFunctionOnSet(f, S) <= SumFunctionOnSet(g, S) + c * Cardinality(S)
<1> DEFINE h == [x \in S |-> c]
           gh == [x \in S |-> g[x] + c]
<1>1. (\A x \in S : h[x] = c) /\ (\A x \in S : gh[x] = g[x] + h[x])
      /\ (\A x \in S : f[x] <= gh[x]) /\ IsFiniteSet(S)
  BY DEF Summable
<1> HIDE DEF h, gh
<1>2. Summable(h, S) /\ SumFunctionOnSet(h, S) = c * Cardinality(S)
  BY <1>1, SumConstant
<1>3. /\ Summable(gh, S)
      /\ SumFunctionOnSet(gh, S) = SumFunctionOnSet(g, S) + SumFunctionOnSet(h, S)
  BY <1>1, <1>2, SumPlus
<1>4. SumFunctionOnSet(f, S) <= SumFunctionOnSet(gh, S)
  BY <1>1, <1>3, SumMonotone
<1>5. QED
  BY <1>2, <1>3, <1>4

LEMMA SumZero ==
  ASSUME NEW f, NEW S, IsFiniteSet(S), \A x \in S : f[x] = 0
  PROVE  Summable(f, S) /\ SumFunctionOnSet(f, S) = 0
<1>0. Summable(f, S)
  BY DEF Summable
<1> DEFINE F == {T \in SUBSET S : SumFunctionOnSet(f, T) = 0}
<1>1. {} \in F
  BY SumEmpty
<1>2. ASSUME NEW T \in SUBSET S, NEW x \in T, T \ {x} \in F PROVE T \in F
  <2>1. Summable(f, T)
    BY <1>0, SummableSubset
  <2>2. SumFunctionOnSet(f, T) = f[x] + SumFunctionOnSet(f, T \ {x})
    BY <2>1, SumRemove
  <2>3. QED
    BY <1>2, <2>2
<1>3. S \in F
  <2> HIDE DEF F
  <2>1. QED
    BY <1>1, <1>2, ElementInduction
<1>4. QED
  BY <1>0, <1>3

(***************************************************************************)
(* Sums of naturals.                                                       *)
(***************************************************************************)
NatOn(f, S) == IsFiniteSet(S) /\ \A x \in S : f[x] \in Nat

LEMMA NatSummable ==
  ASSUME NEW f, NEW S, NatOn(f, S)
  PROVE  Summable(f, S)
  BY DEF NatOn, Summable

LEMMA SumNat ==
  ASSUME NEW f, NEW S, NatOn(f, S)
  PROVE  SumFunctionOnSet(f, S) \in Nat
<1> DEFINE z == [x \in S |-> 0]
<1>1. Summable(f, S) /\ Summable(z, S) /\ SumFunctionOnSet(z, S) = 0
  BY NatSummable, SumZero DEF NatOn
<1>2. \A x \in S : z[x] <= f[x]
  BY DEF NatOn
<1> HIDE DEF z
<1>3. SumFunctionOnSet(z, S) <= SumFunctionOnSet(f, S) /\ SumFunctionOnSet(f, S) \in Int
  BY <1>1, <1>2, SumMonotone, SumInt
<1>4. QED
  BY <1>1, <1>3

\* No value is more than the sum.
LEMMA ElementWithinSum ==
  ASSUME NEW f, NEW S, NatOn(f, S), NEW x \in S
  PROVE  f[x] <= SumFunctionOnSet(f, S)
<1>1. SumFunctionOnSet(f, S) = f[x] + SumFunctionOnSet(f, S \ {x})
  BY NatSummable, SumRemove
<1>2. NatOn(f, S \ {x})
  BY FS_RemoveElement DEF NatOn
<1>3. SumFunctionOnSet(f, S \ {x}) \in Nat /\ f[x] \in Nat
  BY <1>2, SumNat DEF NatOn
<1>4. QED
  BY <1>1, <1>3

\* The sum is positive only if a value is.
LEMMA SumPositive ==
  ASSUME NEW f, NEW S, NatOn(f, S)
  PROVE  SumFunctionOnSet(f, S) > 0 <=> \E x \in S : f[x] > 0
<1>1. CASE \E x \in S : f[x] > 0
  <2>1. PICK x \in S : f[x] > 0
    BY <1>1
  <2>2. f[x] <= SumFunctionOnSet(f, S) /\ f[x] \in Nat /\ SumFunctionOnSet(f, S) \in Nat
    BY ElementWithinSum, SumNat DEF NatOn
  <2>3. QED
    BY <2>1, <2>2
<1>2. CASE ~\E x \in S : f[x] > 0
  <2>1. \A x \in S : f[x] = 0
    BY <1>2 DEF NatOn
  <2>2. QED
    BY <1>2, <2>1, SumZero DEF NatOn
<1>3. QED
  BY <1>1, <1>2

-----------------------------------------------------------------------------
(***************************************************************************)
(* A sum by groups: key tells the group of an element, A are the groups.   *)
(***************************************************************************)
Group(S, key, a) == {x \in S : key[x] = a}
ByGroup(f, S, key, A) == [a \in A |-> SumFunctionOnSet(f, Group(S, key, a))]

LEMMA ByGroupSummable ==
  ASSUME NEW f, NEW S, Summable(f, S), NEW key, NEW A, IsFiniteSet(A)
  PROVE  Summable(ByGroup(f, S, key, A), A)
<1>1. ASSUME NEW a \in A PROVE SumFunctionOnSet(f, Group(S, key, a)) \in Int
  BY SummableSubset DEF Group
<1>2. QED
  BY <1>1 DEF Summable, ByGroup

LEMMA SumByGroup ==
  ASSUME NEW f, NEW S, Summable(f, S), NEW key, NEW A, IsFiniteSet(A),
         \A x \in S : key[x] \in A
  PROVE  SumFunctionOnSet(ByGroup(f, S, key, A), A) = SumFunctionOnSet(f, S)
<1> DEFINE G(T) == ByGroup(f, T, key, A)
           F == {T \in SUBSET S : SumFunctionOnSet(G(T), A) = SumFunctionOnSet(f, T)}
<1>1. {} \in F
  <2>1. \A a \in A : Group({}, key, a) = {}
    BY DEF Group
  <2>2. \A a \in A : G({})[a] = 0
    BY <2>1, SumEmpty DEF ByGroup
  <2> HIDE DEF G
  <2>3. SumFunctionOnSet(G({}), A) = 0
    BY <2>2, SumZero
  <2>4. QED
    BY <2>3, SumEmpty
<1>2. ASSUME NEW T \in SUBSET S, NEW x \in T, T \ {x} \in F PROVE T \in F
  <2> DEFINE R == T \ {x}
  <2>1. Summable(f, T) /\ Summable(f, R) /\ f[x] \in Int
    BY SummableSubset DEF Summable
  <2>2. Summable(G(R), A)
    BY <2>1, ByGroupSummable
  <2>3. ASSUME NEW a \in A
        PROVE  G(T)[a] = G(R)[a] + IF a = key[x] THEN f[x] ELSE 0
    <3>1. /\ G(T)[a] = SumFunctionOnSet(f, Group(T, key, a))
          /\ G(R)[a] = SumFunctionOnSet(f, Group(R, key, a))
          /\ G(R)[a] \in Int
      BY <2>2 DEF ByGroup, Summable
    <3>2. CASE a = key[x]
      <4>1. x \in Group(T, key, a) /\ Group(R, key, a) = Group(T, key, a) \ {x}
        BY <3>2 DEF Group
      <4>2. Summable(f, Group(T, key, a))
        BY <2>1, SummableSubset DEF Group
      <4>3. SumFunctionOnSet(f, Group(T, key, a))
              = f[x] + SumFunctionOnSet(f, Group(T, key, a) \ {x})
        BY <4>1, <4>2, SumRemove
      <4> HIDE DEF G, R
      <4>4. G(T)[a] = f[x] + G(R)[a]
        BY <3>1, <4>1, <4>3
      <4>5. QED
        BY <2>1, <3>1, <3>2, <4>4
    <3>3. CASE a # key[x]
      <4>1. Group(R, key, a) = Group(T, key, a)
        BY <3>3 DEF Group
      <4> HIDE DEF G, R
      <4>2. QED
        BY <3>1, <3>3, <4>1
    <3>4. QED
      BY <3>2, <3>3
  <2>4. key[x] \in A
    OBVIOUS
  <2> HIDE DEF G, R
  <2>5. Moves(G(R), G(T), A, key[x], f[x])
    BY <2>1, <2>3, <2>4 DEF Moves
  <2>6. SumFunctionOnSet(G(T), A) = SumFunctionOnSet(G(R), A) + f[x]
    BY <2>2, <2>5, SumMove
  <2>7. SumFunctionOnSet(G(R), A) = SumFunctionOnSet(f, R)
    BY <1>2 DEF R
  <2>8. SumFunctionOnSet(f, T) = f[x] + SumFunctionOnSet(f, R) /\ SumFunctionOnSet(f, R) \in Int
    BY <2>1, SumRemove, SumInt DEF R
  <2>9. QED
    BY <2>1, <2>6, <2>7, <2>8
<1> HIDE DEF F
<1>3. S \in F
  BY <1>1, <1>2, ElementInduction DEF Summable
<1>4. QED
  BY <1>3 DEF F

LEMMA SumOfOne ==
  ASSUME NEW f, NEW x, f[x] \in Int
  PROVE  Summable(f, {x}) /\ SumFunctionOnSet(f, {x}) = f[x]
<1>1. Summable(f, {x})
  BY FS_Singleton DEF Summable
<1>2. SumFunctionOnSet(f, {x}) = f[x] + SumFunctionOnSet(f, {x} \ {x})
  BY <1>1, SumRemove
<1>3. {x} \ {x} = {}
  OBVIOUS
<1>4. QED
  BY <1>1, <1>2, <1>3, SumEmpty

\* A larger set of natural numbers has the larger sum.
LEMMA SumWithin ==
  ASSUME NEW f, NEW S, NatOn(f, S), NEW T, T \subseteq S
  PROVE  /\ NatOn(f, T)
         /\ SumFunctionOnSet(f, T) <= SumFunctionOnSet(f, S)
<1> DEFINE key == [x \in S |-> IF x \in T THEN 1 ELSE 0]
           K == 0..1
<1>0. NatOn(f, T)
  BY FS_Subset DEF NatOn
<1>1. IsFiniteSet(K)
  <2>1. 0 \in Int /\ 1 \in Int
    OBVIOUS
  <2>2. QED
    BY <2>1, FS_Interval
<1>2. Summable(f, S) /\ (\A x \in S : key[x] \in K) /\ 1 \in K
  BY NatSummable
<1>3. Group(S, key, 1) = T
  BY DEF Group
<1> HIDE DEF K
<1> DEFINE h == ByGroup(f, S, key, K)
<1>4. SumFunctionOnSet(h, K) = SumFunctionOnSet(f, S)
  <2> HIDE DEF key
  <2>1. QED
    BY <1>1, <1>2, SumByGroup
<1>5. NatOn(h, K)
  <2>1. ASSUME NEW a \in K
        PROVE  SumFunctionOnSet(f, Group(S, key, a)) \in Nat
    <3>1. Group(S, key, a) \subseteq S
      BY DEF Group
    <3>2. NatOn(f, Group(S, key, a))
      BY <3>1, FS_Subset DEF NatOn
    <3>3. QED
      BY <3>2, SumNat
  <2> HIDE DEF key
  <2>2. QED
    BY <1>1, <2>1 DEF NatOn, ByGroup
<1>6. h[1] = SumFunctionOnSet(f, T)
  BY <1>2, <1>3 DEF ByGroup
<1> HIDE DEF h
<1>7. h[1] <= SumFunctionOnSet(h, K)
  BY <1>2, <1>5, ElementWithinSum
<1>8. QED
  BY <1>0, <1>4, <1>6, <1>7

\* Two sets whose elements go together are alike in number.
LEMMA Counterparts ==
  ASSUME NEW S, NEW T, IsFiniteSet(T), NEW f \in [S -> T],
         \A x, y \in S : f[x] = f[y] => x = y,
         \A t \in T : \E x \in S : f[x] = t
  PROVE  IsFiniteSet(S) /\ Cardinality(S) = Cardinality(T)
<1>1. f \in Injection(S, T) /\ f \in Surjection(S, T)
  BY DEF Injection, IsInjective, Surjection
<1>2. QED
  BY <1>1, FS_Injection

\* A sum over elements, and over what stands for them.
Keyed(key, S) == {key[x] : x \in S}

LEMMA SumImage ==
  ASSUME NEW S, IsFiniteSet(S), NEW key, \A x, y \in S : key[x] = key[y] => x = y,
         NEW f, NEW g, \A x \in S : f[key[x]] \in Int /\ g[x] = f[key[x]]
  PROVE  /\ Summable(g, S) /\ Summable(f, Keyed(key, S))
         /\ SumFunctionOnSet(g, S) = SumFunctionOnSet(f, Keyed(key, S))
<1> DEFINE F == {T \in SUBSET S : /\ Summable(f, Keyed(key, T))
                                  /\ SumFunctionOnSet(g, T) = SumFunctionOnSet(f, Keyed(key, T))}
<1>1. Summable(g, S)
  BY DEF Summable
<1>2. {} \in F
  <2>1. Keyed(key, {}) = {}
    BY DEF Keyed
  <2>2. QED
    BY <2>1, SumEmpty, FS_EmptySet DEF Summable
<1>3. ASSUME NEW T \in SUBSET S, NEW x \in T, T \ {x} \in F PROVE T \in F
  <2> DEFINE R == T \ {x}
  <2>1. key[x] \notin Keyed(key, R) /\ Keyed(key, T) = Keyed(key, R) \cup {key[x]}
    BY DEF Keyed
  <2>2. Summable(g, T)
    BY <1>1, SummableSubset
  <2>3. SumFunctionOnSet(g, T) = g[x] + SumFunctionOnSet(g, R)
    BY <2>2, SumRemove
  <2>4. Summable(f, Keyed(key, R)) /\ SumFunctionOnSet(g, R) = SumFunctionOnSet(f, Keyed(key, R))
    BY <1>3
  <2>5. f[key[x]] \in Int /\ g[x] = f[key[x]]
    OBVIOUS
  <2> HIDE DEF R
  <2>6. /\ Summable(f, Keyed(key, T))
        /\ SumFunctionOnSet(f, Keyed(key, T)) = f[key[x]] + SumFunctionOnSet(f, Keyed(key, R))
    BY <2>1, <2>4, <2>5, SumInsert
  <2>7. QED
    BY <2>3, <2>4, <2>5, <2>6
<1> HIDE DEF F
<1>4. S \in F
  BY <1>2, <1>3, ElementInduction
<1>5. QED
  BY <1>1, <1>4 DEF F
===============================================================================
