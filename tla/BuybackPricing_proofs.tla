------------------------ MODULE BuybackPricing_proofs ------------------------
(***************************************************************************)
(* Proofs about the price curves of the buyback, for any configuration the *)
(* readers accept and any portions in which a day is traded.               *)
(***************************************************************************)
EXTENDS BuybackPricing, Sums_proofs, WellFoundedInduction

(***************************************************************************)
(* Induction over the natural numbers, and division.                       *)
(***************************************************************************)
LEMMA CountingAll ==
  ASSUME NEW S, \A n \in Nat : (\A m \in 0..(n - 1) : m \in S) => n \in S
  PROVE  Nat \subseteq S
<1> DEFINE Bad == Nat \ S
<1>1. SUFFICES ASSUME Bad # {} PROVE FALSE
  OBVIOUS
<1>2. PICK n \in Bad : \A m \in Bad : ~(<<m, n>> \in OpToRel(<, Nat))
  <2>1. Bad \subseteq Nat
    OBVIOUS
  <2> HIDE DEF Bad
  <2>2. QED
    BY <1>1, <2>1, NatLessThanWellFounded, WFMin
<1>3. ASSUME NEW m \in 0..(n - 1) PROVE m \in S
  <2>1. m \in Nat /\ m < n /\ n \in Nat
    OBVIOUS
  <2>2. <<m, n>> \in OpToRel(<, Nat)
    BY <2>1 DEF OpToRel
  <2>3. QED
    BY <1>2, <2>1, <2>2
<1>4. QED
  BY <1>3

LEMMA CountingOn ==
  ASSUME NEW S, 0 \in S, \A n \in Nat : n \in S => n + 1 \in S
  PROVE  Nat \subseteq S
<1>1. ASSUME NEW n \in Nat, \A m \in 0..(n - 1) : m \in S PROVE n \in S
  <2>1. CASE n = 0
    BY <2>1
  <2>2. CASE n # 0
    <3>1. n - 1 \in Nat /\ n - 1 \in 0..(n - 1) /\ (n - 1) + 1 = n
      BY <2>2
    <3>2. QED
      BY <1>1, <3>1
  <2>3. QED
    BY <2>1, <2>2
<1>2. QED
  BY <1>1, CountingAll

LEMMA DivMod ==
  ASSUME NEW x \in Nat, NEW m \in Nat \ {0}
  PROVE  \E d \in Nat, r \in 0..(m - 1) : d = x \div m /\ x = m * d + r
<1>1. x \div m \in Nat /\ x % m \in 0..(m - 1)
  OBVIOUS
<1>2. x = m * (x \div m) + (x % m)
  OBVIOUS
<1>3. QED
  BY <1>1, <1>2

LEMMA DivIs ==
  ASSUME NEW x \in Nat, NEW m \in Nat \ {0}, NEW q \in Nat, NEW r \in 0..(m - 1),
         x = m * q + r
  PROVE  x \div m = q
<1>1. PICK d \in Nat, s \in 0..(m - 1) : d = x \div m /\ x = m * d + s
  BY DivMod
<1>2. ASSUME NEW i \in Nat, NEW j \in Nat, i < j, NEW u \in 0..(m - 1), NEW v \in 0..(m - 1)
      PROVE  m * i + u < m * j + v
  <2>1. PICK e \in Nat : j = i + (1 + e)
    <3>1. j - i - 1 \in Nat /\ j = i + (1 + (j - i - 1))
      BY <1>2
    <3>2. QED
      BY <3>1
  <2>2. m * j = m * i + (m + m * e) /\ m * e \in Nat /\ m * i \in Nat
    BY <2>1
  <2>3. QED
    BY <2>2
<1>3. ~(d < q) /\ ~(q < d)
  <2>1. m * d + s = m * q + r
    BY <1>1
  <2>2. m * d \in Nat /\ m * q \in Nat
    OBVIOUS
  <2>3. QED
    BY <1>2, <2>1, <2>2
<1>4. QED
  BY <1>1, <1>3

LEMMA DivGrows ==
  ASSUME NEW x \in Nat, NEW y \in Nat, x <= y, NEW m \in Nat \ {0}
  PROVE  x \div m \in Nat /\ y \div m \in Nat /\ x \div m <= y \div m
<1>1. PICK c \in Nat, r \in 0..(m - 1) : c = x \div m /\ x = m * c + r
  BY DivMod
<1>2. PICK d \in Nat, s \in 0..(m - 1) : d = y \div m /\ y = m * d + s
  BY DivMod
<1>3. ASSUME d < c PROVE FALSE
  <2>1. PICK e \in Nat : c = d + (1 + e)
    <3>1. c - d - 1 \in Nat /\ c = d + (1 + (c - d - 1))
      BY <1>3
    <3>2. QED
      BY <3>1
  <2>2. m * c = m * d + (m + m * e) /\ m * e \in Nat /\ m * d \in Nat
    BY <2>1
  <2>3. QED
    BY <1>1, <1>2, <2>2
<1>4. QED
  BY <1>1, <1>2, <1>3

\* Dividing in two parts loses at most one.
LEMMA DivSum ==
  ASSUME NEW x \in Nat, NEW y \in Nat, NEW m \in Nat \ {0}
  PROVE  \E e \in {0, 1} : (x + y) \div m = x \div m + y \div m + e
<1>1. PICK c \in Nat, r \in 0..(m - 1) : c = x \div m /\ x = m * c + r
  BY DivMod
<1>2. PICK d \in Nat, s \in 0..(m - 1) : d = y \div m /\ y = m * d + s
  BY DivMod
<1>3. x + y \in Nat /\ c + d \in Nat /\ c + d + 1 \in Nat
  OBVIOUS
<1>4. CASE r + s < m
  <2>1. r + s \in 0..(m - 1) /\ x + y = m * (c + d) + (r + s)
    <3>1. r + s \in 0..(m - 1)
      BY <1>4
    <3>2. x + y = m * (c + d) + (r + s)
      <4>1. PICK p, q \in Nat : p = m * c /\ q = m * d
        OBVIOUS
      <4>2. m * (c + d) = m * c + m * d
        OBVIOUS
      <4>3. x = p + r /\ y = q + s /\ m * (c + d) = p + q
        BY ONLY <1>1, <1>2, <4>1, <4>2
      <4>4. r \in Nat /\ s \in Nat
        OBVIOUS
      <4>5. QED
        BY ONLY <4>1, <4>3, <4>4
    <3>3. QED
      BY <3>1, <3>2
  <2>2. (x + y) \div m = c + d
    BY ONLY <1>3, <2>1, DivIs, m \in Nat \ {0}
  <2>3. QED
    BY <1>1, <1>2, <2>2
<1>5. CASE ~(r + s < m)
  <2>1. r + s - m \in 0..(m - 1) /\ x + y = m * (c + d + 1) + (r + s - m)
    <3>1. r + s - m \in 0..(m - 1)
      <4>1. PICK i, j \in Nat : i = r /\ j = s /\ i < m /\ j < m
        OBVIOUS
      <4>2. i + j - m \in 0..(m - 1)
        BY <1>5, <4>1
      <4>3. QED
        BY <4>1, <4>2
    <3>2. x + y = m * (c + d + 1) + (r + s - m)
      <4>1. PICK p, q \in Nat : p = m * c /\ q = m * d
        OBVIOUS
      <4>2. m * (c + d + 1) = m * c + m * d + m
        OBVIOUS
      <4>3. x = p + r /\ y = q + s /\ m * (c + d + 1) = p + q + m
        BY ONLY <1>1, <1>2, <4>1, <4>2
      <4>4. r \in Nat /\ s \in Nat /\ m \in Nat
        OBVIOUS
      <4>5. QED
        BY ONLY <4>1, <4>3, <4>4
    <3>3. QED
      BY <3>1, <3>2
  <2>2. (x + y) \div m = c + d + 1
    BY ONLY <1>3, <2>1, DivIs, m \in Nat \ {0}
  <2>3. QED
    BY <1>1, <1>2, <2>2
<1>6. QED
  BY <1>4, <1>5

-----------------------------------------------------------------------------
(***************************************************************************)
(* A day of M units on a curve.  rate is what a unit is paid, burned at or *)
(* charged, and bound where the segment of a cursor ends; t and n are what *)
(* a trade of x units from cursor a gives and the chunks it is cut into.   *)
(***************************************************************************)
Curve(M, rate, bound, scale) ==
  /\ M \in Nat /\ rate \in [0..M -> Nat] /\ scale \in Nat \ {0}
  /\ \A u \in 0..M : u < M =>
       /\ bound[u] \in Nat /\ u < bound[u]
       /\ \A s \in 0..M : u <= s /\ s < bound[u] => rate[s] = rate[u] /\ bound[s] = bound[u]

Chunk(bound, a, x) == Least(x, bound[a] - a)

Cut(M, rate, bound, scale, t, n) ==
  \A a \in 0..M, x \in 0..M : a + x <= M =>
    /\ x = 0 => t[a][x] = 0 /\ n[a][x] = 0
    /\ x # 0 =>
         LET k == Chunk(bound, a, x)
         IN /\ t[a][x] = (k * rate[a]) \div scale + t[a + k][x - k]
            /\ n[a][x] = n[a + k][x - k] + 1

\* The worth of the first u units.
Priced(M, rate, w) ==
  /\ w \in [0..M -> Nat]
  /\ \A u \in 0..M : u < M => w[u + 1] = w[u] + rate[u]

LEMMA ChunkFits ==
  ASSUME NEW M, NEW rate, NEW bound, NEW scale, Curve(M, rate, bound, scale),
         NEW a \in 0..M, NEW x \in 0..M, a + x <= M, x # 0
  PROVE  /\ Chunk(bound, a, x) \in 1..x /\ a + Chunk(bound, a, x) <= bound[a]
         /\ a < M /\ bound[a] \in Nat /\ a < bound[a]
         /\ Chunk(bound, a, x) = x \/ a + Chunk(bound, a, x) = bound[a]
<1>1. M \in Nat /\ a < M
  BY DEF Curve
<1>2. bound[a] \in Nat /\ a < bound[a]
  BY <1>1 DEF Curve
<1>3. PICK b \in Nat : b = bound[a] /\ a < b
  BY <1>2
<1>4. PICK k : k = Chunk(bound, a, x)
  OBVIOUS
<1>5. k = IF x < b - a THEN x ELSE b - a
  BY <1>3, <1>4 DEF Chunk, Least
<1>6. k \in 1..x /\ a + k <= b /\ (k = x \/ a + k = b)
  BY <1>1, <1>3, <1>5
<1>7. QED
  BY <1>1, <1>2, <1>3, <1>4, <1>6

FirstChunk(M, rate, bound, scale, t, n, a, x, k) ==
  /\ k = Chunk(bound, a, x) /\ a + k <= bound[a]
  /\ a + k \in 0..M /\ x - k \in 0..M /\ x - k < x /\ (a + k) + (x - k) = a + x
  /\ k = x \/ a + k = bound[a]
  /\ t[a][x] = (k * rate[a]) \div scale + t[a + k][x - k]
  /\ n[a][x] = n[a + k][x - k] + 1

LEMMA CutStep ==
  ASSUME NEW M, NEW rate, NEW bound, NEW scale, NEW t, NEW n,
         Curve(M, rate, bound, scale), Cut(M, rate, bound, scale, t, n),
         NEW a \in 0..M, NEW x \in 0..M, a + x <= M, x # 0
  PROVE  \E k \in 1..x : FirstChunk(M, rate, bound, scale, t, n, a, x, k)
<1>1. PICK k \in 1..x : k = Chunk(bound, a, x)
  BY ChunkFits
<1>2. /\ t[a][x] = (k * rate[a]) \div scale + t[a + k][x - k]
      /\ n[a][x] = n[a + k][x - k] + 1
  BY <1>1 DEF Cut
<1>3. a + k \in 0..M /\ x - k \in 0..M /\ x - k < x /\ (a + k) + (x - k) = a + x
  BY DEF Curve
<1>4. a + k <= bound[a] /\ (k = x \/ a + k = bound[a])
  BY <1>1, ChunkFits
<1>5. QED
  BY <1>1, <1>2, <1>3, <1>4 DEF FirstChunk

LEMMA CutTyped ==
  ASSUME NEW M, NEW rate, NEW bound, NEW scale, NEW t, NEW n,
         Curve(M, rate, bound, scale), Cut(M, rate, bound, scale, t, n)
  PROVE  \A a \in 0..M, x \in 0..M : a + x <= M => t[a][x] \in Nat /\ n[a][x] \in Nat
<1> DEFINE S == {x \in Nat : \A a \in 0..M : a + x <= M => t[a][x] \in Nat /\ n[a][x] \in Nat}
<1>0. M \in Nat /\ scale \in Nat \ {0} /\ rate \in [0..M -> Nat]
  BY DEF Curve
<1>1. ASSUME NEW x \in Nat, \A y \in 0..(x - 1) : y \in S PROVE x \in S
  <2>1. SUFFICES ASSUME NEW a \in 0..M, a + x <= M PROVE t[a][x] \in Nat /\ n[a][x] \in Nat
    OBVIOUS
  <2>2. x \in 0..M
    BY <1>0, <2>1
  <2>3. CASE x = 0
    BY <2>1, <2>2, <2>3 DEF Cut
  <2>4. CASE x # 0
    <3>0. PICK k \in 1..x : FirstChunk(M, rate, bound, scale, t, n, a, x, k)
      BY <2>1, <2>2, <2>4, CutStep
    <3>1. /\ a + k \in 0..M /\ x - k \in 0..M /\ x - k < x /\ (a + k) + (x - k) = a + x
          /\ t[a][x] = (k * rate[a]) \div scale + t[a + k][x - k]
          /\ n[a][x] = n[a + k][x - k] + 1
      BY <3>0 DEF FirstChunk
    <3>2. x - k \in 0..(x - 1)
      BY <3>1
    <3>3. t[a + k][x - k] \in Nat /\ n[a + k][x - k] \in Nat
      BY <1>1, <2>1, <3>1, <3>2
    <3>4. k * rate[a] \in Nat
      BY <1>0
    <3>5. (k * rate[a]) \div scale \in Nat
      BY <1>0, <3>4, DivMod
    <3>6. QED
      BY <3>1, <3>3, <3>5
  <2>5. QED
    BY <2>3, <2>4
<1>2. Nat \subseteq S
  <2> HIDE DEF S
  <2>1. QED
    BY <1>1, CountingAll
<1>3. QED
  BY <1>0, <1>2

\* Within a segment every unit is worth the same.
LEMMA SameWorth ==
  ASSUME NEW M, NEW rate, NEW bound, NEW scale, NEW w,
         Curve(M, rate, bound, scale), Priced(M, rate, w),
         NEW a \in 0..M, NEW k \in Nat, a < M, a + k <= M, a + k <= bound[a]
  PROVE  w[a + k] = w[a] + k * rate[a]
<1> DEFINE S == {j \in Nat : j <= k => w[a + j] = w[a] + j * rate[a]}
<1>0. M \in Nat /\ rate[a] \in Nat /\ w[a] \in Nat /\ bound[a] \in Nat
  BY DEF Curve, Priced
<1>1. 0 \in S
  <2>1. a + 0 = a /\ 0 * rate[a] = 0 /\ w[a] + 0 = w[a]
    BY <1>0
  <2>2. QED
    BY <2>1
<1>2. ASSUME NEW j \in Nat, j \in S PROVE j + 1 \in S
  <2>1. SUFFICES ASSUME j + 1 <= k PROVE w[a + (j + 1)] = w[a] + (j + 1) * rate[a]
    OBVIOUS
  <2>2. PICK s \in 0..M : s = a + j /\ s < M /\ a <= s /\ s < bound[a] /\ s + 1 = a + (j + 1)
    BY <1>0, <2>1
  <2>3. rate[s] = rate[a]
    BY <2>2 DEF Curve
  <2>4. w[s + 1] = w[s] + rate[s]
    BY <2>2 DEF Priced
  <2>5. w[s] = w[a] + j * rate[a]
    BY <1>2, <2>1, <2>2
  <2>6. (j + 1) * rate[a] = j * rate[a] + rate[a] /\ j * rate[a] \in Nat
    BY <1>0
  <2>7. QED
    BY <1>0, <2>2, <2>3, <2>4, <2>5, <2>6
<1>3. Nat \subseteq S
  <2> HIDE DEF S
  <2>1. QED
    BY <1>1, <1>2, CountingOn
<1>4. QED
  BY <1>3

\* A trade gives what its units are worth, less than a unit for every chunk.
Near(t, n, scale, x) == scale * t <= x /\ x <= scale * t + (scale - 1) * n

LEMMA NearPlus ==
  ASSUME NEW scale \in Nat \ {0}, NEW t \in Nat, NEW u \in Nat, NEW n \in Nat, NEW m \in Nat,
         NEW x \in Nat, NEW y \in Nat, Near(t, n, scale, x), Near(u, m, scale, y)
  PROVE  Near(t + u, n + m, scale, x + y)
<1>1. PICK s \in Nat : s = scale - 1
  OBVIOUS
<1>2. /\ scale * t + scale * u = scale * (t + u) /\ s * n + s * m = s * (n + m)
      /\ scale * t \in Nat /\ scale * u \in Nat /\ s * n \in Nat /\ s * m \in Nat
  OBVIOUS
<1>3. scale * t <= x /\ x <= scale * t + s * n /\ scale * u <= y /\ y <= scale * u + s * m
  BY <1>1 DEF Near
<1>4. scale * (t + u) <= x + y /\ x + y <= scale * (t + u) + s * (n + m)
  BY <1>2, <1>3
<1>5. QED
  BY <1>1, <1>4 DEF Near

LEMMA NearDiv ==
  ASSUME NEW scale \in Nat \ {0}, NEW x \in Nat
  PROVE  Near(x \div scale, 1, scale, x)
<1>1. PICK d \in Nat, r \in 0..(scale - 1) : d = x \div scale /\ x = scale * d + r
  BY DivMod
<1>2. scale * d \in Nat /\ (scale - 1) * 1 = scale - 1
  OBVIOUS
<1>3. scale * d <= x /\ x <= scale * d + (scale - 1) * 1
  BY <1>1, <1>2
<1>4. QED
  BY <1>1, <1>3 DEF Near

LEMMA PaidNear ==
  ASSUME NEW M, NEW rate, NEW bound, NEW scale, NEW t, NEW n, NEW w,
         Curve(M, rate, bound, scale), Cut(M, rate, bound, scale, t, n), Priced(M, rate, w)
  PROVE  \A a \in 0..M, x \in 0..M : a + x <= M =>
           \E v \in Nat : w[a + x] = w[a] + v /\ Near(t[a][x], n[a][x], scale, v)
<1> DEFINE Good(a, x) == \E v \in Nat : w[a + x] = w[a] + v /\ Near(t[a][x], n[a][x], scale, v)
           S == {x \in Nat : \A a \in 0..M : a + x <= M => Good(a, x)}
<1>0. M \in Nat /\ 0..M \subseteq Nat /\ scale \in Nat \ {0} /\ rate \in [0..M -> Nat] /\ w \in [0..M -> Nat]
  BY DEF Curve, Priced
<1>1. ASSUME NEW x \in Nat, \A y \in 0..(x - 1) : y \in S PROVE x \in S
  <2>1. SUFFICES ASSUME NEW a \in 0..M, a + x <= M PROVE Good(a, x)
    OBVIOUS
  <2>2. x \in 0..M
    BY <1>0, <2>1
  <2>3. CASE x = 0
    <3>1. t[a][x] = 0 /\ n[a][x] = 0
      BY <2>1, <2>2, <2>3 DEF Cut
    <3>2. w[a + x] = w[a] + 0
      BY <1>0, <2>1, <2>3
    <3>3. Near(0, 0, scale, 0)
      BY <1>0 DEF Near
    <3>4. QED
      BY <3>1, <3>2, <3>3
  <2>4. CASE x # 0
    <3>0. PICK k \in 1..x : FirstChunk(M, rate, bound, scale, t, n, a, x, k)
      BY <2>1, <2>2, <2>4, CutStep
    <3>1. /\ a + k \in 0..M /\ x - k \in 0..M /\ x - k < x /\ (a + k) + (x - k) = a + x
          /\ t[a][x] = (k * rate[a]) \div scale + t[a + k][x - k]
          /\ n[a][x] = n[a + k][x - k] + 1
      BY <3>0 DEF FirstChunk
    <3>2. a < M /\ a + k <= M /\ a + k <= bound[a]
      <4>1. a + k <= bound[a]
        BY <3>0 DEF FirstChunk
      <4>2. a < M /\ a + k <= M
        BY <1>0, <2>1, <2>4, <3>1
      <4>3. QED
        BY <4>1, <4>2
    <3>3. w[a + k] = w[a] + k * rate[a]
      BY <2>1, <3>2, SameWorth
    <3>4. x - k \in S
      <4>1. x - k \in 0..(x - 1)
        BY <3>1
      <4>2. QED
        BY <1>1, <4>1
    <3>5. Good(a + k, x - k)
      BY <2>1, <3>1, <3>4
    <3>6. PICK v \in Nat : /\ w[(a + k) + (x - k)] = w[a + k] + v
                           /\ Near(t[a + k][x - k], n[a + k][x - k], scale, v)
      BY <3>5
    <3>7. PICK p \in Nat, d \in Nat : p = k * rate[a] /\ d = p \div scale
      <4>1. k * rate[a] \in Nat
        BY <1>0, <2>1
      <4>2. QED
        BY <1>0, <4>1, DivMod
    <3>8. Near(d, 1, scale, p)
      BY <1>0, <3>7, NearDiv
    <3>9. PICK u \in Nat, m \in Nat : u = t[a + k][x - k] /\ m = n[a + k][x - k]
      BY <2>1, <3>1, CutTyped
    <3>10. Near(d + u, 1 + m, scale, p + v)
      BY <1>0, <3>6, <3>8, <3>9, NearPlus
    <3>11. w[a + x] = w[a] + (p + v)
      <4>1. w[a] \in Nat /\ w[a + x] = (w[a] + p) + v
        BY <1>0, <2>1, <3>1, <3>3, <3>6, <3>7
      <4>2. QED
        BY <4>1
    <3>12. t[a][x] = d + u /\ n[a][x] = 1 + m /\ p + v \in Nat
      BY <3>1, <3>7, <3>9
    <3>13. QED
      BY <3>10, <3>11, <3>12
  <2>5. QED
    BY <2>3, <2>4
<1>2. Nat \subseteq S
  <2> HIDE DEF S
  <2>1. QED
    BY <1>1, CountingAll
<1>3. ASSUME NEW a \in 0..M, NEW x \in 0..M, a + x <= M PROVE Good(a, x)
  <2>1. x \in S
    BY <1>0, <1>2
  <2>2. QED
    BY <1>3, <2>1
<1>4. QED
  BY <1>3

\* Two trades that follow each other give at most one less than one trade, for at
\* most one chunk more; nothing is lost where the first is empty.
Joined(t, n, a, x, y) ==
  \E e \in {0, 1}, d \in {0, 1} :
    /\ t[a][x + y] = t[a][x] + t[a + x][y] + e
    /\ n[a][x] + n[a + x][y] = n[a][x + y] + d
    /\ x = 0 => e = 0

LEMMA SplitWithin ==
  ASSUME NEW M, NEW rate, NEW bound, NEW scale, NEW t, NEW n,
         Curve(M, rate, bound, scale), Cut(M, rate, bound, scale, t, n),
         NEW a \in 0..M, NEW x \in 0..M, NEW y \in 0..M, NEW z \in 0..M, z = x + y,
         a + z <= M, x # 0, a + x < bound[a]
  PROVE  Joined(t, n, a, x, y)
<1>0. M \in Nat /\ scale \in Nat \ {0} /\ rate \in [0..M -> Nat]
  BY DEF Curve
<1>1. PICK s \in 0..M : s = a + x /\ s + y = a + z /\ s + y <= M
  BY <1>0
<1>2. z # 0 /\ a + x <= M
  BY <1>0, <1>1
<1>3. a < M /\ bound[a] \in Nat
  BY <1>2, ChunkFits
<1>4. t[a][x] = (x * rate[a]) \div scale /\ n[a][x] = 1
  <2>1. PICK k \in 1..x : FirstChunk(M, rate, bound, scale, t, n, a, x, k)
    BY <1>2, CutStep
  <2>2. k = x
    BY <1>3, <2>1 DEF FirstChunk
  <2>3. /\ t[a][x] = (x * rate[a]) \div scale + t[a + x][x - x]
        /\ n[a][x] = n[a + x][x - x] + 1
    BY <2>1, <2>2 DEF FirstChunk
  <2>4. t[s][0] = 0 /\ n[s][0] = 0
    <3>1. 0 \in 0..M /\ s + 0 <= M
      BY <1>0
    <3>2. QED
      BY <3>1 DEF Cut
  <2>5. (x * rate[a]) \div scale \in Nat
    <3>1. x * rate[a] \in Nat
      BY <1>0
    <3>2. QED
      BY <1>0, <3>1, DivMod
  <2>6. x - x = 0
    OBVIOUS
  <2>7. QED
    BY <1>1, <2>3, <2>4, <2>5, <2>6
<1>5. CASE y = 0
  <2>1. t[s][y] = 0 /\ n[s][y] = 0
    BY <1>1, <1>5 DEF Cut
  <2>2. z = x /\ t[a][x] \in Nat /\ n[a][x] \in Nat
    BY <1>2, <1>5, CutTyped
  <2>3. /\ t[a][z] = t[a][x] + t[s][y] + 0
        /\ n[a][x] + n[s][y] = n[a][z] + 0
    BY <2>1, <2>2
  <2>4. QED
    BY <1>1, <2>3 DEF Joined
<1>6. CASE y # 0
  <2>1. s < M /\ bound[s] = bound[a] /\ rate[s] = rate[a]
    <3>1. s < M /\ a <= s /\ s < bound[a]
      BY <1>0, <1>1, <1>6
    <3>2. QED
      BY <1>3, <3>1 DEF Curve
  <2>2. PICK c \in 1..y : FirstChunk(M, rate, bound, scale, t, n, s, y, c)
    BY <1>1, <1>6, CutStep
  <2>3. PICK k \in 1..z : FirstChunk(M, rate, bound, scale, t, n, a, z, k)
    BY <1>2, CutStep
  <2>4. k = x + c
    <3>1. PICK b \in Nat : b = bound[a] /\ a + x < b
      BY <1>3
    <3>2. k = IF z < b - a THEN z ELSE b - a
      BY <2>3, <3>1 DEF FirstChunk, Chunk, Least
    <3>3. c = IF y < b - s THEN y ELSE b - s
      BY <2>1, <2>2, <3>1 DEF FirstChunk, Chunk, Least
    <3>4. QED
      BY <1>1, <3>1, <3>2, <3>3
  <2>5. PICK p \in Nat, q \in Nat : p = x * rate[a] /\ q = c * rate[a]
    <3>1. x * rate[a] \in Nat /\ c * rate[a] \in Nat
      BY <1>0
    <3>2. QED
      BY <3>1
  <2>6. k * rate[a] = p + q
    <3>1. PICK g \in Nat : g = rate[a]
      BY <1>0
    <3>2. (x + c) * g = x * g + c * g
      OBVIOUS
    <3>3. QED
      BY <2>4, <2>5, <3>1, <3>2
  <2>7. PICK e \in {0, 1} : (p + q) \div scale = p \div scale + q \div scale + e
    BY <1>0, DivSum
  <2>8. PICK f, r \in 0..M : f = s + c /\ r = y - c /\ f + r <= M
    <3>1. s + c \in 0..M /\ y - c \in 0..M
      BY <2>2 DEF FirstChunk
    <3>2. (s + c) + (y - c) <= M
      BY <1>0, <1>1
    <3>3. QED
      BY <3>1, <3>2
  <2>9. PICK u, m \in Nat : u = t[f][r] /\ m = n[f][r]
    BY <2>8, CutTyped
  <2>10. a + k = f /\ z - k = r
    BY <1>1, <2>4, <2>8
  <2>11. PICK i, j \in Nat : i = p \div scale /\ j = q \div scale
    BY <1>0, DivMod
  <2>12. t[a][x] = i /\ n[a][x] = 1
    BY <1>4, <2>5, <2>11
  <2>13. t[s][y] = j + u /\ n[s][y] = 1 + m
    BY <2>1, <2>2, <2>5, <2>8, <2>9, <2>11 DEF FirstChunk
  <2>14. t[a][z] = (i + j + e) + u /\ n[a][z] = 1 + m
    BY <2>3, <2>6, <2>7, <2>9, <2>10, <2>11 DEF FirstChunk
  <2>15. t[a][z] = t[a][x] + t[s][y] + e /\ n[a][x] + n[s][y] = n[a][z] + 1
    BY <2>12, <2>13, <2>14
  <2>16. QED
    BY <1>1, <2>15 DEF Joined
<1>7. QED
  BY <1>5, <1>6

LEMMA TradesJoin ==
  ASSUME NEW M, NEW rate, NEW bound, NEW scale, NEW t, NEW n,
         Curve(M, rate, bound, scale), Cut(M, rate, bound, scale, t, n)
  PROVE  \A a \in 0..M, x \in 0..M, y \in 0..M : a + (x + y) <= M => Joined(t, n, a, x, y)
<1> DEFINE S == {x \in Nat : \A a \in 0..M, y \in 0..M :
                   a + (x + y) <= M => Joined(t, n, a, x, y)}
<1>0. M \in Nat /\ 0..M \subseteq Nat /\ scale \in Nat \ {0} /\ rate \in [0..M -> Nat]
  BY DEF Curve
<1>1. ASSUME NEW x \in Nat, \A v \in 0..(x - 1) : v \in S PROVE x \in S
  <2>1. SUFFICES ASSUME NEW a \in 0..M, NEW y \in 0..M, a + (x + y) <= M
                 PROVE  Joined(t, n, a, x, y)
    OBVIOUS
  <2>2. PICK z \in 0..M : z = x + y /\ a + z <= M
    BY <1>0, <2>1
  <2>3. x \in 0..M /\ a + x <= M /\ a + x \in 0..M
    BY <1>0, <2>1
  <2>4. CASE x = 0
    <3>1. t[a][x] = 0 /\ n[a][x] = 0 /\ a + x = a /\ x + y = y
      BY <2>3, <2>4 DEF Cut
    <3>2. t[a][y] \in Nat /\ n[a][y] \in Nat
      <4>1. a + y <= M
        BY <2>1, <2>4
      <4>2. QED
        BY <4>1, CutTyped
    <3>3. t[a][x + y] = t[a][x] + t[a + x][y] + 0 /\ n[a][x] + n[a + x][y] = n[a][x + y] + 0
      BY <3>1, <3>2
    <3>4. QED
      BY <3>3 DEF Joined
  <2>5. CASE x # 0 /\ a + x < bound[a]
    BY <2>2, <2>3, <2>5, SplitWithin
  <2>6. CASE x # 0 /\ ~(a + x < bound[a])
    <3>1. PICK k \in 1..x : FirstChunk(M, rate, bound, scale, t, n, a, x, k)
      BY <2>3, <2>6, CutStep
    <3>2. z # 0
      BY <2>2, <2>6
    <3>3. PICK l \in 1..z : FirstChunk(M, rate, bound, scale, t, n, a, z, l)
      BY <2>2, <3>2, CutStep
    <3>4. bound[a] \in Nat /\ a < bound[a]
      BY <2>3, <2>6, ChunkFits
    <3>5. l = k
      <4>1. PICK b \in Nat : b = bound[a] /\ a < b /\ b <= a + x
        BY <2>6, <3>4
      <4>2. k = IF x < b - a THEN x ELSE b - a
        BY <3>1, <4>1 DEF FirstChunk, Chunk, Least
      <4>3. l = IF z < b - a THEN z ELSE b - a
        BY <3>3, <4>1 DEF FirstChunk, Chunk, Least
      <4>4. QED
        BY <2>2, <4>1, <4>2, <4>3
    <3>6. PICK f \in 0..M, r \in 0..(x - 1) : f = a + k /\ r = x - k /\ f + r = a + x
      <4>1. a + k \in 0..M
        BY <3>1 DEF FirstChunk
      <4>2. x - k \in 0..(x - 1) /\ (a + k) + (x - k) = a + x
        OBVIOUS
      <4>3. QED
        BY <4>1, <4>2
    <3>7. z - l = r + y /\ f + (r + y) <= M
      BY <2>2, <3>5, <3>6
    <3>8. Joined(t, n, f, r, y)
      <4>1. r \in S
        BY <1>1
      <4>2. QED
        BY <3>7, <4>1
    <3>9. PICK e \in {0, 1}, d \in {0, 1} :
            /\ t[f][r + y] = t[f][r] + t[f + r][y] + e
            /\ n[f][r] + n[f + r][y] = n[f][r + y] + d
      BY <3>8 DEF Joined
    <3>10. r \in 0..M /\ f + r <= M /\ r + y \in 0..M
      BY <1>0, <2>3, <3>6, <3>7
    <3>11. PICK g \in Nat, u \in Nat, v \in Nat, m \in Nat, o \in Nat :
             /\ g = (k * rate[a]) \div scale
             /\ u = t[f][r] /\ m = n[f][r] /\ v = t[a + x][y] /\ o = n[a + x][y]
      <4>1. k * rate[a] \in Nat
        BY <1>0
      <4>2. (k * rate[a]) \div scale \in Nat
        BY <1>0, <4>1, DivMod
      <4>3. t[f][r] \in Nat /\ n[f][r] \in Nat
        BY <3>10, CutTyped
      <4>4. t[a + x][y] \in Nat /\ n[a + x][y] \in Nat
        <5>1. (a + x) + y <= M
          BY <2>1, <2>3
        <5>2. QED
          BY <2>3, <5>1, CutTyped
      <4>5. QED
        BY <4>2, <4>3, <4>4
    <3>12. t[a][x] = g + u /\ n[a][x] = 1 + m
      BY <3>1, <3>6, <3>11 DEF FirstChunk
    <3>13. t[a][z] = g + t[f][r + y] /\ n[a][z] = n[f][r + y] + 1
      BY <3>3, <3>5, <3>6, <3>7, <3>11 DEF FirstChunk
    <3>14. t[f][r + y] = u + v + e /\ m + o = n[f][r + y] + d
      BY <3>6, <3>9, <3>11
    <3>15. n[f][r + y] \in Nat
      BY <3>7, <3>10, CutTyped
    <3>16. /\ t[a][z] = t[a][x] + t[a + x][y] + e
           /\ n[a][x] + n[a + x][y] = n[a][z] + d
      <4>1. PICK w \in Nat : w = n[f][r + y]
        BY <3>15
      <4>2. t[a][z] = g + (u + v + e) /\ n[a][z] = w + 1
        BY ONLY <3>13, <3>14, <4>1
      <4>3. g + (u + v + e) = g + u + v + e
        BY ONLY g \in Nat, u \in Nat, v \in Nat, e \in {0, 1}
      <4>4. m + o = w + d
        BY ONLY <3>14, <4>1
      <4>5. 1 + m + o = w + 1 + d
        BY ONLY <4>4, m \in Nat, o \in Nat, w \in Nat, d \in {0, 1}
      <4>6. v = t[a + x][y] /\ o = n[a + x][y]
        BY <3>11
      <4>7. QED
        BY ONLY <3>12, <4>2, <4>3, <4>5, <4>6
    <3>17. QED
      BY <2>2, <2>6, <3>16 DEF Joined
  <2>7. QED
    BY <2>4, <2>5, <2>6
<1>2. Nat \subseteq S
  <2> HIDE DEF S
  <2>1. QED
    BY <1>1, CountingAll
<1>3. ASSUME NEW a \in 0..M, NEW x \in 0..M, NEW y \in 0..M, a + (x + y) <= M
      PROVE  Joined(t, n, a, x, y)
  <2>1. x \in S
    BY <1>0, <1>2
  <2>2. QED
    BY <1>3, <2>1
<1>4. QED
  BY <1>3

-----------------------------------------------------------------------------
(***************************************************************************)
(* The loops of the quotes, by what remains.  bound is a segment boundary  *)
(* for every cursor of a day of M units; Ahead says that it is ahead.      *)
(***************************************************************************)
Ahead(M, bound) == M \in Nat /\ \A u \in 0..M : u < M => bound[u] \in Nat /\ u < bound[u]

LEMMA ChunkOfRest ==
  ASSUME NEW M, NEW bound, Ahead(M, bound), NEW end \in 0..M, NEW r \in 1..end
  PROVE  /\ end - r \in 0..M /\ end - r < M
         /\ Least(r, bound[end - r] - (end - r)) \in 1..r
         /\ r - Least(r, bound[end - r] - (end - r)) \in 0..(r - 1)
<1>1. PICK u \in 0..M : u = end - r /\ u < M
  BY DEF Ahead
<1>2. PICK b \in Nat : b = bound[u] /\ u < b
  BY <1>1 DEF Ahead
<1>3. PICK k : k = Least(r, b - u)
  OBVIOUS
<1>4. k \in 1..r /\ r - k \in 0..(r - 1)
  BY <1>2, <1>3 DEF Least
<1>5. QED
  BY <1>1, <1>2, <1>3, <1>4

SellBounds(c) == [u \in 0..c.dailyMaxAmount |-> SellBoundary(u, c)]
NothingQuoted == [totalUsdt |-> 0, burnAmount |-> 0, iterations |-> 0]

SellChunk(cursor, r, c) == Least(r, SellBoundary(cursor, c) - cursor)
SellWith(cursor, k, rest, c) ==
  [totalUsdt |-> ChunkUsdt(k, getUserSellPrice(cursor, c)) + rest.totalUsdt,
   burnAmount |-> (k * BurnBp(cursor, c)) \div 10000 + rest.burnAmount,
   iterations |-> rest.iterations + 1]

\* One step of the loop that ends at cursor end, with r to be sold.
SellStep(end, c, f, r) ==
  IF r = 0 THEN NothingQuoted
  ELSE SellWith(end - r, SellChunk(end - r, r, c), f[r - SellChunk(end - r, r, c)], c)

SellSteps(end, c, m, f) == f = [r \in 0..m |-> SellStep(end, c, f, r)]

\* The loop as the recursive function it is.
SellRound(amount, initialCursor, c, quote) ==
  [remaining \in 0..amount |->
     IF remaining = 0 THEN [totalUsdt |-> 0, burnAmount |-> 0, iterations |-> 0]
     ELSE LET cursor == initialCursor + amount - remaining
              chunk == Least(remaining, SellBoundary(cursor, c) - cursor)
              rest == quote[remaining - chunk]
          IN [totalUsdt |-> ChunkUsdt(chunk, getUserSellPrice(cursor, c))
                              + rest.totalUsdt,
              burnAmount |-> (chunk * BurnBp(cursor, c)) \div 10000
                               + rest.burnAmount,
              iterations |-> rest.iterations + 1]]

LEMMA SellRoundIs ==
  ASSUME NEW x \in Nat, NEW a \in Nat, NEW c, NEW f
  PROVE  f = SellRound(x, a, c, f) <=> SellSteps(a + x, c, x, f)
<1>1. ASSUME NEW r \in 0..x
      PROVE  SellRound(x, a, c, f)[r] = SellStep(a + x, c, f, r)
  <2>1. CASE r = 0
    BY <2>1 DEF SellRound, SellStep, NothingQuoted
  <2>2. CASE r # 0
    <3>0. PICK end : end = a + x
      OBVIOUS
    <3>1. PICK u, k, rest : /\ u = end - r /\ k = Least(r, SellBoundary(u, c) - u)
                            /\ rest = f[r - k]
      OBVIOUS
    <3>2. SellRound(x, a, c, f)[r] = SellWith(u, k, rest, c)
      <4>1. /\ u = a + x - r /\ k = Least(r, SellBoundary(u, c) - u)
            /\ rest = f[r - k]
        BY <3>0, <3>1
      <4>2. QED
        BY <2>2, <4>1 DEF SellRound, SellWith
    <3>3. SellChunk(u, r, c) = k
      BY <3>1 DEF SellChunk
    <3>4. SellStep(end, c, f, r) = SellWith(u, k, rest, c)
      BY ONLY <2>2, <3>1, <3>3 DEF SellStep
    <3>5. QED
      BY <3>0, <3>2, <3>4
  <2>3. QED
    BY <2>1, <2>2
<1>2. SellRound(x, a, c, f) = [r \in 0..x |-> SellRound(x, a, c, f)[r]]
  BY DEF SellRound
<1>3. QED
  BY <1>1, <1>2 DEF SellSteps

LEMMA SellLoopIs ==
  ASSUME NEW x \in Nat, NEW a \in Nat, NEW c, \E f : SellSteps(a + x, c, x, f)
  PROVE  \E f : SellSteps(a + x, c, x, f) /\ SellLoop(x, a, c) = f[x]
<1>1. SellLoop(x, a, c) = (CHOOSE f : f = SellRound(x, a, c, f))[x]
  BY DEF SellLoop, SellRound
<1>2. \E f : f = SellRound(x, a, c, f)
  BY SellRoundIs
<1>3. PICK g : g = (CHOOSE f : f = SellRound(x, a, c, f))
  OBVIOUS
<1>4. g = SellRound(x, a, c, g)
  BY <1>2, <1>3
<1>5. QED
  BY <1>1, <1>3, <1>4, SellRoundIs

LEMMA SellChunkFits ==
  ASSUME NEW c, Ahead(c.dailyMaxAmount, SellBounds(c)), NEW end \in 0..c.dailyMaxAmount,
         NEW r \in 1..end
  PROVE  /\ end - r \in 0..c.dailyMaxAmount /\ SellChunk(end - r, r, c) \in 1..r
         /\ r - SellChunk(end - r, r, c) \in 0..(r - 1)
         /\ SellChunk(end - r, r, c) = Chunk(SellBounds(c), end - r, r)
<1>1. PICK M : M = c.dailyMaxAmount
  OBVIOUS
<1>2. end - r \in 0..M
  BY <1>1, ChunkOfRest
<1>3. SellBounds(c)[end - r] = SellBoundary(end - r, c)
  BY <1>1, <1>2 DEF SellBounds
<1>4. SellChunk(end - r, r, c) = Least(r, SellBounds(c)[end - r] - (end - r))
  BY <1>3 DEF SellChunk
<1>5. QED
  BY <1>1, <1>2, <1>4, ChunkOfRest DEF Chunk

LEMMA SellStepsExist ==
  ASSUME NEW c, Ahead(c.dailyMaxAmount, SellBounds(c)), NEW end \in 0..c.dailyMaxAmount
  PROVE  \A m \in 0..end : \E f : SellSteps(end, c, m, f)
<1> DEFINE S == {m \in Nat : m <= end => \E f : SellSteps(end, c, m, f)}
<1>0. end \in Nat /\ c.dailyMaxAmount \in Nat
  BY DEF Ahead
<1>1. 0 \in S
  <2> DEFINE f == [r \in 0..0 |-> NothingQuoted]
  <2>1. \A r \in 0..0 : SellStep(end, c, f, r) = NothingQuoted
    BY DEF SellStep
  <2>2. f = [r \in 0..0 |-> SellStep(end, c, f, r)]
    <3> HIDE DEF f
    <3>1. f = [r \in 0..0 |-> NothingQuoted]
      BY DEF f
    <3>2. QED
      BY <2>1, <3>1
  <2>3. SellSteps(end, c, 0, f)
    BY <2>2 DEF SellSteps
  <2>4. QED
    BY <2>3
<1>2. ASSUME NEW m \in Nat, m \in S PROVE m + 1 \in S
  <2>1. SUFFICES ASSUME m + 1 <= end PROVE \E f : SellSteps(end, c, m + 1, f)
    OBVIOUS
  <2>2. PICK f : SellSteps(end, c, m, f)
    BY <1>0, <1>2, <2>1
  <2> DEFINE h == [r \in 0..(m + 1) |-> IF r = m + 1 THEN SellStep(end, c, f, r) ELSE f[r]]
  <2>3. ASSUME NEW r \in 0..(m + 1) PROVE h[r] = SellStep(end, c, h, r)
    <3>1. SellStep(end, c, h, r) = SellStep(end, c, f, r)
      <4>1. CASE r = 0
        BY <4>1 DEF SellStep
      <4>2. CASE r # 0
        <5>1. r \in 1..end
          BY <1>0, <2>1, <4>2
        <5>2. PICK j : j = r - SellChunk(end - r, r, c) /\ j \in 0..(r - 1)
          BY <5>1, SellChunkFits
        <5>3. h[j] = f[j]
          BY <5>2
        <5> HIDE DEF h
        <5>4. QED
          BY <4>2, <5>2, <5>3 DEF SellStep
      <4>3. QED
        BY <4>1, <4>2
    <3>2. h[r] = SellStep(end, c, f, r)
      <4>1. CASE r = m + 1
        BY <4>1
      <4>2. CASE r # m + 1
        <5>1. r \in 0..m /\ h[r] = f[r]
          BY <4>2
        <5>2. f[r] = SellStep(end, c, f, r)
          BY <2>2, <5>1 DEF SellSteps
        <5>3. QED
          BY <5>1, <5>2
      <4>3. QED
        BY <4>1, <4>2
    <3> HIDE DEF h
    <3>3. QED
      BY <3>1, <3>2
  <2>4. h = [r \in 0..(m + 1) |-> h[r]]
    OBVIOUS
  <2> HIDE DEF h
  <2>5. h = [r \in 0..(m + 1) |-> SellStep(end, c, h, r)]
    BY <2>3, <2>4
  <2>6. SellSteps(end, c, m + 1, h)
    BY <2>5 DEF SellSteps
  <2>7. QED
    BY <2>6
<1>3. Nat \subseteq S
  <2> HIDE DEF S
  <2>1. QED
    BY <1>1, <1>2, CountingOn
<1>4. QED
  BY <1>0, <1>3

\* Two loops with the same end go the same way once the same remains.
LEMMA SellStepsAgree ==
  ASSUME NEW c, Ahead(c.dailyMaxAmount, SellBounds(c)), NEW end \in 0..c.dailyMaxAmount,
         NEW m \in 0..end, NEW p \in 0..end, NEW f, NEW g,
         SellSteps(end, c, m, f), SellSteps(end, c, p, g), NEW r \in 0..m, r <= p
  PROVE  f[r] = g[r]
<1> DEFINE S == {q \in Nat : q <= r => f[q] = g[q]}
<1>0. end \in Nat
  BY DEF Ahead
<1>1. ASSUME NEW q \in Nat, \A j \in 0..(q - 1) : j \in S PROVE q \in S
  <2>1. SUFFICES ASSUME q <= r PROVE f[q] = g[q]
    OBVIOUS
  <2>2. q \in 0..m /\ q \in 0..p /\ q \in 0..end
    BY <1>0, <2>1
  <2>3. f[q] = SellStep(end, c, f, q) /\ g[q] = SellStep(end, c, g, q)
    BY <2>2 DEF SellSteps
  <2>4. CASE q = 0
    BY <2>3, <2>4 DEF SellStep
  <2>5. CASE q # 0
    <3>1. q \in 1..end
      BY <2>2, <2>5
    <3>2. PICK j : j = q - SellChunk(end - q, q, c) /\ j \in 0..(q - 1)
      BY <3>1, SellChunkFits
    <3>3. f[j] = g[j]
      <4>1. j \in S /\ j <= r
        BY <1>1, <2>1, <3>2
      <4>2. QED
        BY <4>1
    <3>4. QED
      BY <2>3, <2>5, <3>2, <3>3 DEF SellStep
  <2>6. QED
    BY <2>4, <2>5
<1>2. Nat \subseteq S
  <2> HIDE DEF S
  <2>1. QED
    BY <1>1, CountingAll
<1>3. QED
  BY <1>2

LEMMA SellUnfolds ==
  ASSUME NEW c, Ahead(c.dailyMaxAmount, SellBounds(c)), NEW a \in 0..c.dailyMaxAmount,
         NEW x \in 0..c.dailyMaxAmount, a + x <= c.dailyMaxAmount
  PROVE  /\ x = 0 => SellLoop(x, a, c) = NothingQuoted
         /\ x # 0 => \E k \in 1..x :
              /\ k = Chunk(SellBounds(c), a, x)
              /\ SellLoop(x, a, c) = SellWith(a, k, SellLoop(x - k, a + k, c), c)
<1>0. PICK M \in Nat : M = c.dailyMaxAmount
  BY DEF Ahead
<1>1. PICK end \in 0..M : end = a + x /\ x <= end /\ end - x = a
  BY <1>0
<1>2. PICK f : SellSteps(end, c, x, f) /\ SellLoop(x, a, c) = f[x]
  <2>1. \E f : SellSteps(end, c, x, f)
    <3>1. x \in 0..end
      BY <1>0, <1>1
    <3>2. QED
      BY <1>0, <1>1, <3>1, SellStepsExist
  <2>2. QED
    BY <1>1, <2>1, SellLoopIs
<1>3. SellLoop(x, a, c) = SellStep(end, c, f, x)
  <2>1. x \in 0..x
    BY <1>0
  <2>2. QED
    BY <1>2, <2>1 DEF SellSteps
<1>4. CASE x = 0
  BY <1>3, <1>4 DEF SellStep
<1>5. CASE x # 0
  <2>1. x \in 1..end
    BY <1>0, <1>1, <1>5
  <2>2. PICK k \in 1..x : k = SellChunk(a, x, c) /\ k = Chunk(SellBounds(c), a, x)
    BY <1>0, <1>1, <2>1, SellChunkFits
  <2>3. SellLoop(x, a, c) = SellWith(a, k, f[x - k], c)
    BY <1>1, <1>3, <1>5, <2>2 DEF SellStep
  <2>4. PICK y \in 0..end, b \in 0..M : y = x - k /\ b = a + k /\ b + y = end /\ y <= x
    BY <1>0, <1>1
  <2>5. PICK g : SellSteps(end, c, y, g) /\ SellLoop(y, b, c) = g[y]
    <3>1. \E g : SellSteps(end, c, y, g)
      BY <1>0, <1>1, <2>4, SellStepsExist
    <3>2. QED
      BY <2>4, <3>1, SellLoopIs
  <2>6. f[y] = g[y]
    <3>1. y \in 0..x /\ x \in 0..end /\ y <= y
      BY <1>1, <2>4
    <3>2. QED
      BY <1>0, <1>1, <1>2, <2>5, <3>1, SellStepsAgree
  <2>7. QED
    BY <1>5, <2>2, <2>3, <2>4, <2>5, <2>6
<1>6. QED
  BY <1>4, <1>5

MakerBounds(c) == [u \in 0..MaxMakerVolume |-> MakerBoundary(u, c)]
NoMakerQuote == [totalUsdt |-> 0, iterations |-> 0]

MakerChunk(cursor, r, c) == Least(r, MakerBoundary(cursor, c) - cursor)
MakerWith(cursor, k, rest, c) ==
  [totalUsdt |-> ChunkUsdt(k, getMakerBuyPrice(cursor, c)) + rest.totalUsdt,
   iterations |-> rest.iterations + 1]

\* The same for a purchase.
MakerStep(end, c, f, r) ==
  IF r = 0 THEN NoMakerQuote
  ELSE MakerWith(end - r, MakerChunk(end - r, r, c), f[r - MakerChunk(end - r, r, c)], c)

MakerSteps(end, c, m, f) == f = [r \in 0..m |-> MakerStep(end, c, f, r)]

MakerRound(amount, initialCursor, c, quote) ==
  [remaining \in 0..amount |->
     IF remaining = 0 THEN [totalUsdt |-> 0, iterations |-> 0]
     ELSE LET cursor == initialCursor + amount - remaining
              chunk == Least(remaining, MakerBoundary(cursor, c) - cursor)
              rest == quote[remaining - chunk]
          IN [totalUsdt |-> ChunkUsdt(chunk, getMakerBuyPrice(cursor, c))
                              + rest.totalUsdt,
              iterations |-> rest.iterations + 1]]

LEMMA MakerRoundIs ==
  ASSUME NEW x \in Nat, NEW a \in Nat, NEW c, NEW f
  PROVE  f = MakerRound(x, a, c, f) <=> MakerSteps(a + x, c, x, f)
<1>1. ASSUME NEW r \in 0..x
      PROVE  MakerRound(x, a, c, f)[r] = MakerStep(a + x, c, f, r)
  <2>1. CASE r = 0
    BY <2>1 DEF MakerRound, MakerStep, NoMakerQuote
  <2>2. CASE r # 0
    <3>0. PICK end : end = a + x
      OBVIOUS
    <3>1. PICK u, k, rest : /\ u = end - r /\ k = Least(r, MakerBoundary(u, c) - u)
                            /\ rest = f[r - k]
      OBVIOUS
    <3>2. MakerRound(x, a, c, f)[r] = MakerWith(u, k, rest, c)
      <4>1. /\ u = a + x - r /\ k = Least(r, MakerBoundary(u, c) - u)
            /\ rest = f[r - k]
        BY <3>0, <3>1
      <4>2. QED
        BY <2>2, <4>1 DEF MakerRound, MakerWith
    <3>3. MakerChunk(u, r, c) = k
      BY <3>1 DEF MakerChunk
    <3>4. MakerStep(end, c, f, r) = MakerWith(u, k, rest, c)
      BY ONLY <2>2, <3>1, <3>3 DEF MakerStep
    <3>5. QED
      BY <3>0, <3>2, <3>4
  <2>3. QED
    BY <2>1, <2>2
<1>2. MakerRound(x, a, c, f) = [r \in 0..x |-> MakerRound(x, a, c, f)[r]]
  BY DEF MakerRound
<1>3. QED
  BY <1>1, <1>2 DEF MakerSteps

LEMMA MakerLoopIs ==
  ASSUME NEW x \in Nat, NEW a \in Nat, NEW c, \E f : MakerSteps(a + x, c, x, f)
  PROVE  \E f : MakerSteps(a + x, c, x, f) /\ MakerLoop(x, a, c) = f[x]
<1>1. MakerLoop(x, a, c) = (CHOOSE f : f = MakerRound(x, a, c, f))[x]
  BY DEF MakerLoop, MakerRound
<1>2. \E f : f = MakerRound(x, a, c, f)
  BY MakerRoundIs
<1>3. PICK g : g = (CHOOSE f : f = MakerRound(x, a, c, f))
  OBVIOUS
<1>4. g = MakerRound(x, a, c, g)
  BY <1>2, <1>3
<1>5. QED
  BY <1>1, <1>3, <1>4, MakerRoundIs

LEMMA MakerChunkFits ==
  ASSUME NEW c, Ahead(MaxMakerVolume, MakerBounds(c)), NEW end \in 0..MaxMakerVolume,
         NEW r \in 1..end
  PROVE  /\ end - r \in 0..MaxMakerVolume /\ MakerChunk(end - r, r, c) \in 1..r
         /\ r - MakerChunk(end - r, r, c) \in 0..(r - 1)
         /\ MakerChunk(end - r, r, c) = Chunk(MakerBounds(c), end - r, r)
<1>1. PICK M : M = MaxMakerVolume
  OBVIOUS
<1>2. end - r \in 0..M
  BY <1>1, ChunkOfRest
<1>3. MakerBounds(c)[end - r] = MakerBoundary(end - r, c)
  BY <1>1, <1>2 DEF MakerBounds
<1>4. MakerChunk(end - r, r, c) = Least(r, MakerBounds(c)[end - r] - (end - r))
  BY <1>3 DEF MakerChunk
<1>5. QED
  BY <1>1, <1>2, <1>4, ChunkOfRest DEF Chunk

LEMMA MakerStepsExist ==
  ASSUME NEW c, Ahead(MaxMakerVolume, MakerBounds(c)), NEW end \in 0..MaxMakerVolume
  PROVE  \A m \in 0..end : \E f : MakerSteps(end, c, m, f)
<1> DEFINE S == {m \in Nat : m <= end => \E f : MakerSteps(end, c, m, f)}
<1>0. end \in Nat /\ MaxMakerVolume \in Nat
  BY DEF Ahead
<1>1. 0 \in S
  <2> DEFINE f == [r \in 0..0 |-> NoMakerQuote]
  <2>1. \A r \in 0..0 : MakerStep(end, c, f, r) = NoMakerQuote
    BY DEF MakerStep
  <2>2. f = [r \in 0..0 |-> MakerStep(end, c, f, r)]
    <3> HIDE DEF f
    <3>1. f = [r \in 0..0 |-> NoMakerQuote]
      BY DEF f
    <3>2. QED
      BY <2>1, <3>1
  <2>3. MakerSteps(end, c, 0, f)
    BY <2>2 DEF MakerSteps
  <2>4. QED
    BY <2>3
<1>2. ASSUME NEW m \in Nat, m \in S PROVE m + 1 \in S
  <2>1. SUFFICES ASSUME m + 1 <= end PROVE \E f : MakerSteps(end, c, m + 1, f)
    OBVIOUS
  <2>2. PICK f : MakerSteps(end, c, m, f)
    BY <1>0, <1>2, <2>1
  <2> DEFINE h == [r \in 0..(m + 1) |-> IF r = m + 1 THEN MakerStep(end, c, f, r) ELSE f[r]]
  <2>3. ASSUME NEW r \in 0..(m + 1) PROVE h[r] = MakerStep(end, c, h, r)
    <3>1. MakerStep(end, c, h, r) = MakerStep(end, c, f, r)
      <4>1. CASE r = 0
        BY <4>1 DEF MakerStep
      <4>2. CASE r # 0
        <5>1. r \in 1..end
          BY <1>0, <2>1, <4>2
        <5>2. PICK j : j = r - MakerChunk(end - r, r, c) /\ j \in 0..(r - 1)
          BY <5>1, MakerChunkFits
        <5>3. h[j] = f[j]
          BY <5>2
        <5> HIDE DEF h
        <5>4. QED
          BY <4>2, <5>2, <5>3 DEF MakerStep
      <4>3. QED
        BY <4>1, <4>2
    <3>2. h[r] = MakerStep(end, c, f, r)
      <4>1. CASE r = m + 1
        BY <4>1
      <4>2. CASE r # m + 1
        <5>1. r \in 0..m /\ h[r] = f[r]
          BY <4>2
        <5>2. f[r] = MakerStep(end, c, f, r)
          BY <2>2, <5>1 DEF MakerSteps
        <5>3. QED
          BY <5>1, <5>2
      <4>3. QED
        BY <4>1, <4>2
    <3> HIDE DEF h
    <3>3. QED
      BY <3>1, <3>2
  <2>4. h = [r \in 0..(m + 1) |-> h[r]]
    OBVIOUS
  <2> HIDE DEF h
  <2>5. h = [r \in 0..(m + 1) |-> MakerStep(end, c, h, r)]
    BY <2>3, <2>4
  <2>6. MakerSteps(end, c, m + 1, h)
    BY <2>5 DEF MakerSteps
  <2>7. QED
    BY <2>6
<1>3. Nat \subseteq S
  <2> HIDE DEF S
  <2>1. QED
    BY <1>1, <1>2, CountingOn
<1>4. QED
  BY <1>0, <1>3

LEMMA MakerStepsAgree ==
  ASSUME NEW c, Ahead(MaxMakerVolume, MakerBounds(c)), NEW end \in 0..MaxMakerVolume,
         NEW m \in 0..end, NEW p \in 0..end, NEW f, NEW g,
         MakerSteps(end, c, m, f), MakerSteps(end, c, p, g), NEW r \in 0..m, r <= p
  PROVE  f[r] = g[r]
<1> DEFINE S == {q \in Nat : q <= r => f[q] = g[q]}
<1>0. end \in Nat
  BY DEF Ahead
<1>1. ASSUME NEW q \in Nat, \A j \in 0..(q - 1) : j \in S PROVE q \in S
  <2>1. SUFFICES ASSUME q <= r PROVE f[q] = g[q]
    OBVIOUS
  <2>2. q \in 0..m /\ q \in 0..p /\ q \in 0..end
    BY <1>0, <2>1
  <2>3. f[q] = MakerStep(end, c, f, q) /\ g[q] = MakerStep(end, c, g, q)
    BY <2>2 DEF MakerSteps
  <2>4. CASE q = 0
    BY <2>3, <2>4 DEF MakerStep
  <2>5. CASE q # 0
    <3>1. q \in 1..end
      BY <2>2, <2>5
    <3>2. PICK j : j = q - MakerChunk(end - q, q, c) /\ j \in 0..(q - 1)
      BY <3>1, MakerChunkFits
    <3>3. f[j] = g[j]
      <4>1. j \in S /\ j <= r
        BY <1>1, <2>1, <3>2
      <4>2. QED
        BY <4>1
    <3>4. QED
      BY <2>3, <2>5, <3>2, <3>3 DEF MakerStep
  <2>6. QED
    BY <2>4, <2>5
<1>2. Nat \subseteq S
  <2> HIDE DEF S
  <2>1. QED
    BY <1>1, CountingAll
<1>3. QED
  BY <1>2

LEMMA MakerUnfolds ==
  ASSUME NEW c, Ahead(MaxMakerVolume, MakerBounds(c)), NEW a \in 0..MaxMakerVolume,
         NEW x \in 0..MaxMakerVolume, a + x <= MaxMakerVolume
  PROVE  /\ x = 0 => MakerLoop(x, a, c) = NoMakerQuote
         /\ x # 0 => \E k \in 1..x :
              /\ k = Chunk(MakerBounds(c), a, x)
              /\ MakerLoop(x, a, c) = MakerWith(a, k, MakerLoop(x - k, a + k, c), c)
<1>0. PICK M \in Nat : M = MaxMakerVolume
  BY DEF Ahead
<1>1. PICK end \in 0..M : end = a + x /\ x <= end /\ end - x = a
  BY <1>0
<1>2. PICK f : MakerSteps(end, c, x, f) /\ MakerLoop(x, a, c) = f[x]
  <2>1. \E f : MakerSteps(end, c, x, f)
    <3>1. x \in 0..end
      BY <1>0, <1>1
    <3>2. QED
      BY <1>0, <1>1, <3>1, MakerStepsExist
  <2>2. QED
    BY <1>1, <2>1, MakerLoopIs
<1>3. MakerLoop(x, a, c) = MakerStep(end, c, f, x)
  <2>1. x \in 0..x
    BY <1>0
  <2>2. QED
    BY <1>2, <2>1 DEF MakerSteps
<1>4. CASE x = 0
  BY <1>3, <1>4 DEF MakerStep
<1>5. CASE x # 0
  <2>1. x \in 1..end
    BY <1>0, <1>1, <1>5
  <2>2. PICK k \in 1..x : k = MakerChunk(a, x, c) /\ k = Chunk(MakerBounds(c), a, x)
    BY <1>0, <1>1, <2>1, MakerChunkFits
  <2>3. MakerLoop(x, a, c) = MakerWith(a, k, f[x - k], c)
    BY <1>1, <1>3, <1>5, <2>2 DEF MakerStep
  <2>4. PICK y \in 0..end, b \in 0..M : y = x - k /\ b = a + k /\ b + y = end /\ y <= x
    BY <1>0, <1>1
  <2>5. PICK g : MakerSteps(end, c, y, g) /\ MakerLoop(y, b, c) = g[y]
    <3>1. \E g : MakerSteps(end, c, y, g)
      BY <1>0, <1>1, <2>4, MakerStepsExist
    <3>2. QED
      BY <2>4, <3>1, MakerLoopIs
  <2>6. f[y] = g[y]
    <3>1. y \in 0..x /\ x \in 0..end /\ y <= y
      BY <1>1, <2>4
    <3>2. QED
      BY <1>0, <1>1, <1>2, <2>5, <3>1, MakerStepsAgree
  <2>7. QED
    BY <1>5, <2>2, <2>3, <2>4, <2>5, <2>6
<1>6. QED
  BY <1>4, <1>5
-----------------------------------------------------------------------------
(***************************************************************************)
(* The two curves: their steps, their rates and their worth.               *)
(***************************************************************************)
SellRate(c) == [u \in 0..c.dailyMaxAmount |-> getUserSellPrice(u, c)]
BurnRate(c) == [u \in 0..c.dailyMaxAmount |-> BurnBp(u, c)]
MakerRate(c) == [u \in 0..MaxMakerVolume |-> getMakerBuyPrice(u, c)]

\* Cursors u and s are in the same of the steps counted from start.
SameStep(u, s, start, step) ==
  /\ (u - start) \div step \in Nat /\ (s - start) \div step = (u - start) \div step
  /\ StepEnd(u, start, step) \in Nat /\ u < StepEnd(u, start, step)
  /\ StepEnd(s, start, step) = StepEnd(u, start, step)

LEMMA StepHolds ==
  ASSUME NEW start \in Nat, NEW step \in Nat \ {0}, NEW u \in Nat, start <= u
  PROVE  /\ SameStep(u, u, start, step)
         /\ \A s \in Nat : u <= s /\ s < StepEnd(u, start, step) => SameStep(u, s, start, step)
<1>1. PICK x \in Nat : x = u - start
  OBVIOUS
<1>2. PICK q \in Nat, r \in 0..(step - 1) : q = x \div step /\ x = step * q + r
  BY DivMod
<1>3. StepEnd(u, start, step) = start + (q + 1) * step
  BY <1>1, <1>2 DEF StepEnd
<1>4. PICK p \in Nat : p = step * q
  OBVIOUS
<1>5. (q + 1) * step = p + step
  <2>1. (q + 1) * step = step * q + step
    OBVIOUS
  <2>2. QED
    BY <1>4, <2>1
<1>6. PICK b \in Nat : b = StepEnd(u, start, step) /\ b = start + (p + step) /\ u < b
  <2>1. PICK i \in Nat : i = step /\ r < i
    OBVIOUS
  <2>2. start + (p + i) \in Nat /\ u < start + (p + i)
    BY <1>1, <1>2, <1>4, <2>1
  <2>3. QED
    BY <1>3, <1>5, <2>1, <2>2
<1>7. ASSUME NEW s \in Nat, u <= s, s < b PROVE SameStep(u, s, start, step)
  <2>1. PICK y \in Nat : y = s - start
    BY <1>7
  <2>2. PICK v : v = y - p /\ v \in 0..(step - 1)
    <3>1. PICK i \in Nat : i = step
      OBVIOUS
    <3>2. y - p \in 0..(i - 1)
      BY <1>1, <1>2, <1>4, <1>6, <1>7, <2>1, <3>1
    <3>3. QED
      BY <3>1, <3>2
  <2>3. y = step * q + v
    BY <1>4, <2>1, <2>2
  <2>4. y \div step = q
    BY <2>2, <2>3, DivIs
  <2>5. (s - start) \div step = q /\ (u - start) \div step = q
    BY <1>1, <1>2, <2>1, <2>4
  <2>6. StepEnd(s, start, step) = start + (q + 1) * step
    BY <2>5 DEF StepEnd
  <2>7. QED
    BY <1>3, <1>6, <2>5, <2>6 DEF SameStep
<1>8. QED
  BY <1>6, <1>7

\* What a valid configuration gives the proofs.
LEMMA SellAmounts ==
  ASSUME NEW c, ValidSellConfig(c)
  PROVE  /\ c.defaultPrice \in Nat /\ c.fixedPrice \in Nat
         /\ c.dailyMaxAmount \in Nat \ {0}
         /\ c.tier1EndAmount \in Nat \ {0} /\ c.tier2EndAmount \in Nat \ {0}
<1>1. PositiveTerms(c)
  BY DEF ValidSellConfig
<1>2. QED
  BY <1>1 DEF PositiveTerms

LEMMA SellStepAmounts ==
  ASSUME NEW c, ValidSellConfig(c)
  PROVE  /\ c.tier1StepAmount \in Nat \ {0} /\ c.tier2StepAmount \in Nat \ {0}
         /\ c.tier1StepDecrease \in Nat /\ c.tier2StepDecrease \in Nat
<1>1. PositiveTerms(c)
  BY DEF ValidSellConfig
<1>2. QED
  BY <1>1 DEF PositiveTerms

LEMMA SellTiers ==
  ASSUME NEW c, ValidSellConfig(c)
  PROVE  TiersFollow(c) /\ BurnsAreBp(c) /\ StepsFillTiers(c)
  BY DEF ValidSellConfig

LEMMA SellShape ==
  ASSUME NEW c, ValidSellConfig(c)
  PROVE  \E e1, e2, m \in Nat : /\ e1 = c.tier1EndAmount /\ e2 = c.tier2EndAmount
                                /\ m = c.dailyMaxAmount /\ e1 < e2 /\ e2 < m
<1>1. PICK e1, e2, m \in Nat : e1 = c.tier1EndAmount /\ e2 = c.tier2EndAmount
                               /\ m = c.dailyMaxAmount
  BY SellAmounts
<1>2. e1 < e2 /\ e2 < m
  BY <1>1, SellTiers DEF TiersFollow
<1>3. QED
  BY <1>1, <1>2

\* What a cursor of each tier is worth and where its segment ends.
LEMMA FirstTier ==
  ASSUME NEW c, ValidSellConfig(c), NEW u \in Nat, u < c.tier1EndAmount
  PROVE  /\ SellBoundary(u, c) = Least(StepEnd(u, 0, c.tier1StepAmount), c.tier1EndAmount)
         /\ getUserSellPrice(u, c) =
              decreaseWithFloor(c.defaultPrice,
                                (u \div c.tier1StepAmount) * c.tier1StepDecrease, c.fixedPrice)
         /\ BurnBp(u, c) = c.tier1BurnBp
<1>1. InTier1(u, c) /\ ~InTier2(u, c)
  BY SellShape DEF InTier1, InTier2
<1>2. QED
  BY <1>1 DEF SellBoundary, getUserSellPrice, BurnBp

LEMMA SecondTier ==
  ASSUME NEW c, ValidSellConfig(c), NEW u \in Nat, c.tier1EndAmount <= u, u < c.tier2EndAmount
  PROVE  /\ SellBoundary(u, c) =
              Least(StepEnd(u, c.tier1EndAmount, c.tier2StepAmount), c.tier2EndAmount)
         /\ getUserSellPrice(u, c) =
              decreaseWithFloor(Tier2StartPrice(c),
                                ((u - c.tier1EndAmount) \div c.tier2StepAmount)
                                  * c.tier2StepDecrease, c.fixedPrice)
         /\ BurnBp(u, c) = c.tier2BurnBp
<1>1. ~InTier1(u, c) /\ InTier2(u, c)
  BY SellShape DEF InTier1, InTier2
<1>2. QED
  BY <1>1 DEF SellBoundary, getUserSellPrice, BurnBp

LEMMA ThirdTier ==
  ASSUME NEW c, ValidSellConfig(c), NEW u \in Nat, c.tier2EndAmount <= u
  PROVE  /\ SellBoundary(u, c) = c.dailyMaxAmount
         /\ getUserSellPrice(u, c) = c.fixedPrice /\ BurnBp(u, c) = c.tier3BurnBp
<1>1. ~InTier1(u, c) /\ ~InTier2(u, c)
  BY SellShape DEF InTier1, InTier2
<1>2. QED
  BY <1>1 DEF SellBoundary, getUserSellPrice, BurnBp

\* All of a segment is in its tier and its step.
SegmentOf(u, s, c) ==
  /\ SellBoundary(u, c) \in Nat /\ u < SellBoundary(u, c)
  /\ SellBoundary(s, c) = SellBoundary(u, c)
  /\ getUserSellPrice(s, c) = getUserSellPrice(u, c)
  /\ BurnBp(s, c) = BurnBp(u, c)

LEMMA SellSegment ==
  ASSUME NEW c, ValidSellConfig(c), NEW u \in Nat, u < c.dailyMaxAmount
  PROVE  /\ SegmentOf(u, u, c)
         /\ \A s \in Nat : u <= s /\ s < SellBoundary(u, c) => SegmentOf(u, s, c)
<1>1. PICK e1, e2, m \in Nat : e1 = c.tier1EndAmount /\ e2 = c.tier2EndAmount
                               /\ m = c.dailyMaxAmount /\ e1 < e2 /\ e2 < m
  BY SellShape
<1>2. PICK s1, s2 \in Nat \ {0} : s1 = c.tier1StepAmount /\ s2 = c.tier2StepAmount
  BY SellStepAmounts
<1>3. CASE u < e1
  <2>0. SameStep(u, u, 0, s1)
    BY 0 \in Nat, 0 <= u, StepHolds
  <2>1. PICK b \in Nat : b = StepEnd(u, 0, s1) /\ u < b
    BY <2>0 DEF SameStep
  <2>2. SellBoundary(u, c) = Least(b, e1)
    BY <1>1, <1>2, <1>3, <2>1, FirstTier
  <2>3. Least(b, e1) \in Nat /\ u < Least(b, e1) /\ Least(b, e1) <= e1 /\ Least(b, e1) <= b
    BY <1>3, <2>1 DEF Least
  <2>4. ASSUME NEW s \in Nat, u <= s, s < SellBoundary(u, c) PROVE SegmentOf(u, s, c)
    <3>1. s < e1 /\ s < b
      BY <2>2, <2>3, <2>4
    <3>2. SameStep(u, s, 0, s1)
      BY 0 \in Nat, 0 <= u, <2>1, <2>4, <3>1, StepHolds
    <3>3. StepEnd(s, 0, s1) = b /\ (s - 0) \div s1 = (u - 0) \div s1 /\ s - 0 = s /\ u - 0 = u
      BY <2>1, <3>2 DEF SameStep
    <3>4. s \div s1 = u \div s1
      BY <3>3
    <3>5. SellBoundary(s, c) = Least(b, e1)
      BY <1>1, <1>2, <3>1, <3>3, FirstTier
    <3>6. getUserSellPrice(s, c) = getUserSellPrice(u, c)
      BY <1>1, <1>2, <1>3, <3>1, <3>4, FirstTier
    <3>7. BurnBp(s, c) = BurnBp(u, c)
      BY <1>1, <1>3, <3>1, FirstTier
    <3>8. QED
      BY <2>2, <2>3, <3>5, <3>6, <3>7 DEF SegmentOf
  <2>5. SegmentOf(u, u, c)
    BY <2>2, <2>3 DEF SegmentOf
  <2>6. QED
    BY <2>4, <2>5
<1>4. CASE ~(u < e1) /\ u < e2
  <2>0. e1 <= u /\ SameStep(u, u, e1, s2)
    <3>1. e1 <= u
      BY <1>4
    <3>2. QED
      BY <3>1, StepHolds
  <2>1. PICK b \in Nat : b = StepEnd(u, e1, s2) /\ u < b
    BY <2>0 DEF SameStep
  <2>2. SellBoundary(u, c) = Least(b, e2)
    BY <1>1, <1>2, <1>4, <2>0, <2>1, SecondTier
  <2>3. Least(b, e2) \in Nat /\ u < Least(b, e2) /\ Least(b, e2) <= e2 /\ Least(b, e2) <= b
    BY <1>4, <2>1 DEF Least
  <2>4. ASSUME NEW s \in Nat, u <= s, s < SellBoundary(u, c) PROVE SegmentOf(u, s, c)
    <3>1. e1 <= s /\ s < e2 /\ s < b
      BY <1>4, <2>2, <2>3, <2>4
    <3>2. SameStep(u, s, e1, s2)
      BY <2>0, <2>1, <2>4, <3>1, StepHolds
    <3>3. StepEnd(s, e1, s2) = b /\ (s - e1) \div s2 = (u - e1) \div s2
      BY <2>1, <3>2 DEF SameStep
    <3>4. SellBoundary(s, c) = Least(b, e2)
      BY <1>1, <1>2, <3>1, <3>3, SecondTier
    <3>5. getUserSellPrice(s, c) = getUserSellPrice(u, c)
      BY <1>1, <1>2, <1>4, <2>0, <3>1, <3>3, SecondTier
    <3>6. BurnBp(s, c) = BurnBp(u, c)
      BY <1>1, <1>4, <2>0, <3>1, SecondTier
    <3>7. QED
      BY <2>2, <2>3, <3>4, <3>5, <3>6 DEF SegmentOf
  <2>5. SegmentOf(u, u, c)
    BY <2>2, <2>3 DEF SegmentOf
  <2>6. QED
    BY <2>4, <2>5
<1>5. CASE ~(u < e2)
  <2>1. ASSUME NEW s \in Nat, u <= s
        PROVE  /\ SellBoundary(s, c) = m /\ getUserSellPrice(s, c) = c.fixedPrice
               /\ BurnBp(s, c) = c.tier3BurnBp
    <3>1. e2 <= s
      BY <1>5, <2>1
    <3>2. QED
      BY <1>1, <3>1, ThirdTier
  <2>2. u <= u
    OBVIOUS
  <2>3. SellBoundary(u, c) = m /\ u < m
    BY <1>1, <2>1, <2>2
  <2>4. QED
    BY <2>1, <2>2, <2>3 DEF SegmentOf
<1>6. QED
  BY <1>3, <1>4, <1>5

LEMMA TimesGrows ==
  ASSUME NEW x \in Nat, NEW y \in Nat, x <= y, NEW k \in Nat
  PROVE  x * k \in Nat /\ y * k \in Nat /\ x * k <= y * k
<1>1. PICK d \in Nat : y = x + d
  <2>1. y - x \in Nat /\ y = x + (y - x)
    OBVIOUS
  <2>2. QED
    BY <2>1
<1>2. y * k = x * k + d * k /\ x * k \in Nat /\ d * k \in Nat
  BY <1>1
<1>3. QED
  BY <1>2

\* steps \div size * decrease: what the steps behind a cursor take off the price.
LEMMA Steps ==
  ASSUME NEW x \in Nat, NEW y \in Nat, x <= y, NEW size \in Nat \ {0}, NEW by \in Nat
  PROVE  \E i, j \in Nat : i = (x \div size) * by /\ j = (y \div size) * by /\ i <= j
<1>1. x \div size \in Nat /\ y \div size \in Nat /\ x \div size <= y \div size
  BY DivGrows
<1>2. PICK p, q \in Nat : p = x \div size /\ q = y \div size /\ p <= q
  BY <1>1
<1>3. p * by \in Nat /\ q * by \in Nat /\ p * by <= q * by
  BY <1>2, TimesGrows
<1>4. QED
  BY <1>2, <1>3

\* A price that falls by steps to a floor.
Falling(p, x, size, by, floor) == decreaseWithFloor(p, (x \div size) * by, floor)

LEMMA FallingFalls ==
  ASSUME NEW x \in Nat, NEW y \in Nat, x <= y, NEW size \in Nat \ {0}, NEW by \in Nat,
         NEW p \in Nat, NEW floor \in Nat, floor <= p
  PROVE  /\ Falling(p, x, size, by, floor) \in floor..p
         /\ Falling(p, y, size, by, floor) \in floor..Falling(p, x, size, by, floor)
<1>1. PICK i, j \in Nat : i = (x \div size) * by /\ j = (y \div size) * by /\ i <= j
  BY Steps
<1>2. PICK a, b : a = decreaseWithFloor(p, i, floor) /\ b = decreaseWithFloor(p, j, floor)
  OBVIOUS
<1>3. a = Falling(p, x, size, by, floor) /\ b = Falling(p, y, size, by, floor)
  BY ONLY <1>1, <1>2 DEF Falling
<1>4. a \in floor..p /\ b \in floor..a
  BY ONLY <1>1, <1>2, p \in Nat, floor \in Nat, floor <= p DEF decreaseWithFloor, Greatest
<1>5. QED
  BY <1>3, <1>4

\* No unit is paid more than the one before, none less than the floor.
LEMMA SellPriceFalls ==
  ASSUME NEW c, ValidSellConfig(c), NEW u \in Nat, NEW s \in Nat, u <= s
  PROVE  /\ getUserSellPrice(u, c) \in Nat /\ c.fixedPrice <= getUserSellPrice(u, c)
         /\ getUserSellPrice(s, c) <= getUserSellPrice(u, c)
<1>1. PICK e1, e2 \in Nat : e1 = c.tier1EndAmount /\ e2 = c.tier2EndAmount /\ e1 < e2
  BY SellShape
<1>2. PICK s1, s2 \in Nat \ {0} : s1 = c.tier1StepAmount /\ s2 = c.tier2StepAmount
  BY SellStepAmounts
<1>3. PICK d1, d2 \in Nat : d1 = c.tier1StepDecrease /\ d2 = c.tier2StepDecrease
  BY SellStepAmounts
<1>4. PICK p, floor \in Nat : p = c.defaultPrice /\ floor = c.fixedPrice
  BY SellAmounts
<1>0. floor <= p
  BY <1>4, SellTiers DEF TiersFollow
<1> DEFINE First(v) == Falling(p, v, s1, d1, floor)
           start == Tier2StartPrice(c)
           Second(v) == Falling(start, v - e1, s2, d2, floor)
<1>5. start = First(e1)
  BY <1>1, <1>2, <1>3, <1>4 DEF Tier2StartPrice, Falling
<1>6. ASSUME NEW v \in Nat, NEW t \in Nat, v <= t
      PROVE  First(v) \in Nat /\ floor <= First(v) /\ First(t) <= First(v)
  <2>1. First(v) \in floor..p /\ First(t) \in floor..First(v)
    BY <1>0, <1>6, FallingFalls
  <2> HIDE DEF First
  <2>2. QED
    BY <2>1
<1>7. start \in Nat /\ floor <= start
  <2>1. First(e1) \in Nat /\ floor <= First(e1)
    BY e1 <= e1, <1>6
  <2> HIDE DEF First, start
  <2>2. QED
    BY <1>5, <2>1
<1>8. ASSUME NEW v \in Nat, NEW t \in Nat, e1 <= v, v <= t
      PROVE  Second(v) \in Nat /\ floor <= Second(v) /\ Second(t) <= Second(v) /\ Second(v) <= start
  <2> HIDE DEF start
  <2>1. v - e1 \in Nat /\ t - e1 \in Nat /\ v - e1 <= t - e1
    BY <1>8
  <2>2. Second(v) \in floor..start /\ Second(t) \in floor..Second(v)
    BY <1>7, <2>1, FallingFalls
  <2> HIDE DEF Second
  <2>3. QED
    BY <1>7, <2>2
<1>9. ASSUME NEW v \in Nat
      PROVE  /\ v < e1 => getUserSellPrice(v, c) = First(v)
             /\ e1 <= v /\ v < e2 => getUserSellPrice(v, c) = Second(v)
             /\ e2 <= v => getUserSellPrice(v, c) = floor
  BY <1>1, <1>2, <1>3, <1>4, FirstTier, SecondTier, ThirdTier DEF Falling
<1> HIDE DEF First, Second, start
<1>10. CASE u < e1
  <2>1. getUserSellPrice(u, c) = First(u) /\ First(u) \in Nat /\ floor <= First(u)
    BY <1>6, <1>9, <1>10
  <2>2. CASE s < e1
    BY <1>4, <1>6, <1>9, <2>1, <2>2
  <2>3. CASE e1 <= s /\ s < e2
    <3>1. getUserSellPrice(s, c) = Second(s) /\ Second(s) \in Nat /\ Second(s) <= start
      BY <1>8, <1>9, <2>3
    <3>2. First(e1) <= First(u)
      BY <1>6, <1>10
    <3>3. QED
      BY <1>4, <1>5, <1>7, <2>1, <3>1, <3>2
  <2>4. CASE e2 <= s
    BY <1>4, <1>9, <2>1, <2>4
  <2>5. QED
    BY <2>2, <2>3, <2>4
<1>11. CASE e1 <= u /\ u < e2
  <2>1. getUserSellPrice(u, c) = Second(u) /\ Second(u) \in Nat /\ floor <= Second(u)
    BY <1>8, <1>9, <1>11
  <2>2. CASE s < e2
    <3>1. getUserSellPrice(s, c) = Second(s) /\ Second(s) <= Second(u)
      BY <1>8, <1>9, <1>11, <2>2
    <3>2. QED
      BY <1>4, <2>1, <3>1
  <2>3. CASE e2 <= s
    BY <1>4, <1>9, <2>1, <2>3
  <2>4. QED
    BY <2>2, <2>3
<1>12. CASE e2 <= u
  <2>1. e2 <= s
    BY <1>12
  <2>2. QED
    BY <1>4, <1>9, <1>12, <2>1
<1>13. QED
  BY <1>10, <1>11, <1>12

LEMMA SellAhead ==
  ASSUME NEW c, ValidSellConfig(c)
  PROVE  Ahead(c.dailyMaxAmount, SellBounds(c))
<1>1. PICK m \in Nat : m = c.dailyMaxAmount
  BY SellAmounts
<1>2. ASSUME NEW u \in 0..m, u < m
      PROVE  SellBounds(c)[u] \in Nat /\ u < SellBounds(c)[u]
  <2>1. SegmentOf(u, u, c)
    BY <1>1, <1>2, SellSegment
  <2>2. QED
    BY <1>1, <2>1 DEF SegmentOf, SellBounds
<1>3. QED
  BY <1>1, <1>2 DEF Ahead

LEMMA SellCurves ==
  ASSUME NEW c, ValidSellConfig(c)
  PROVE  /\ Curve(c.dailyMaxAmount, SellRate(c), SellBounds(c), WEI)
         /\ Curve(c.dailyMaxAmount, BurnRate(c), SellBounds(c), 10000)
<1>1. PICK m \in Nat : m = c.dailyMaxAmount
  BY SellAmounts
<1>2. SellRate(c) \in [0..m -> Nat]
  <2>1. ASSUME NEW u \in 0..m PROVE getUserSellPrice(u, c) \in Nat
    BY SellPriceFalls
  <2>2. QED
    BY <1>1, <2>1 DEF SellRate
<1>3. BurnRate(c) \in [0..m -> Nat]
  <2>1. c.tier1BurnBp \in Nat /\ c.tier2BurnBp \in Nat /\ c.tier3BurnBp \in Nat
    BY SellTiers DEF BurnsAreBp
  <2>2. ASSUME NEW u \in 0..m PROVE BurnBp(u, c) \in Nat
    BY <2>1 DEF BurnBp
  <2>3. QED
    BY <1>1, <2>2 DEF BurnRate
<1>4. ASSUME NEW u \in 0..m, u < m
      PROVE  /\ SellBounds(c)[u] \in Nat /\ u < SellBounds(c)[u]
             /\ \A s \in 0..m : u <= s /\ s < SellBounds(c)[u] =>
                  /\ SellRate(c)[s] = SellRate(c)[u] /\ BurnRate(c)[s] = BurnRate(c)[u]
                  /\ SellBounds(c)[s] = SellBounds(c)[u]
  <2>1. SellBounds(c)[u] = SellBoundary(u, c)
    BY <1>1 DEF SellBounds
  <2>2. SegmentOf(u, u, c) /\ \A s \in Nat : u <= s /\ s < SellBoundary(u, c) => SegmentOf(u, s, c)
    BY <1>1, <1>4, SellSegment
  <2>3. ASSUME NEW s \in 0..m, u <= s, s < SellBounds(c)[u]
        PROVE  /\ SellRate(c)[s] = SellRate(c)[u] /\ BurnRate(c)[s] = BurnRate(c)[u]
               /\ SellBounds(c)[s] = SellBounds(c)[u]
    <3>1. SegmentOf(u, s, c)
      BY <2>1, <2>2, <2>3
    <3>2. QED
      BY <1>1, <3>1 DEF SegmentOf, SellRate, BurnRate, SellBounds
  <2>4. QED
    BY <2>1, <2>2, <2>3 DEF SegmentOf
<1>5. WEI \in Nat \ {0} /\ 10000 \in Nat \ {0}
  BY QuotesAssumption
<1>6. QED
  BY <1>1, <1>2, <1>3, <1>4, <1>5 DEF Curve

(***************************************************************************)
(* What the loops of a day give, by the cursor they begin at.              *)
(***************************************************************************)
SellPaid(c) ==
  [a \in 0..c.dailyMaxAmount |-> [x \in 0..c.dailyMaxAmount |-> SellLoop(x, a, c).totalUsdt]]
SellBurned(c) ==
  [a \in 0..c.dailyMaxAmount |-> [x \in 0..c.dailyMaxAmount |-> SellLoop(x, a, c).burnAmount]]
SellRounds(c) ==
  [a \in 0..c.dailyMaxAmount |-> [x \in 0..c.dailyMaxAmount |-> SellLoop(x, a, c).iterations]]

LEMMA SellCuts ==
  ASSUME NEW c, ValidSellConfig(c)
  PROVE  /\ Cut(c.dailyMaxAmount, SellRate(c), SellBounds(c), WEI, SellPaid(c), SellRounds(c))
         /\ Cut(c.dailyMaxAmount, BurnRate(c), SellBounds(c), 10000, SellBurned(c), SellRounds(c))
<1>1. PICK m \in Nat : m = c.dailyMaxAmount
  BY SellAmounts
<1>2. ASSUME NEW a \in 0..m, NEW x \in 0..m, a + x <= m, x = 0
      PROVE  SellPaid(c)[a][x] = 0 /\ SellBurned(c)[a][x] = 0 /\ SellRounds(c)[a][x] = 0
  <2>1. SellLoop(x, a, c) = NothingQuoted
    BY <1>1, <1>2, SellAhead, SellUnfolds
  <2>2. QED
    BY <1>1, <2>1 DEF SellPaid, SellBurned, SellRounds, NothingQuoted
<1>3. ASSUME NEW a \in 0..m, NEW x \in 0..m, a + x <= m, x # 0
      PROVE  LET k == Chunk(SellBounds(c), a, x)
             IN /\ SellPaid(c)[a][x] =
                     (k * SellRate(c)[a]) \div WEI + SellPaid(c)[a + k][x - k]
                /\ SellBurned(c)[a][x] =
                     (k * BurnRate(c)[a]) \div 10000 + SellBurned(c)[a + k][x - k]
                /\ SellRounds(c)[a][x] = SellRounds(c)[a + k][x - k] + 1
  <2>1. PICK k \in 1..x :
          /\ k = Chunk(SellBounds(c), a, x)
          /\ SellLoop(x, a, c) = SellWith(a, k, SellLoop(x - k, a + k, c), c)
    BY <1>1, <1>3, SellAhead, SellUnfolds
  <2>2. PICK b, y \in 0..m : b = a + k /\ y = x - k
    BY <1>3
  <2>3. PICK rest : rest = SellLoop(y, b, c)
    OBVIOUS
  <2>4. /\ SellPaid(c)[b][y] = rest.totalUsdt /\ SellBurned(c)[b][y] = rest.burnAmount
        /\ SellRounds(c)[b][y] = rest.iterations
    BY <1>1, <2>3 DEF SellPaid, SellBurned, SellRounds
  <2>5. SellRate(c)[a] = getUserSellPrice(a, c) /\ BurnRate(c)[a] = BurnBp(a, c)
    BY <1>1 DEF SellRate, BurnRate
  <2>6. SellLoop(x, a, c) = SellWith(a, k, rest, c)
    BY <2>1, <2>2, <2>3
  <2>7. /\ SellPaid(c)[a][x] = SellLoop(x, a, c).totalUsdt
        /\ SellBurned(c)[a][x] = SellLoop(x, a, c).burnAmount
        /\ SellRounds(c)[a][x] = SellLoop(x, a, c).iterations
    BY <1>1 DEF SellPaid, SellBurned, SellRounds
  <2>8. /\ SellPaid(c)[a][x] = ChunkUsdt(k, getUserSellPrice(a, c)) + rest.totalUsdt
        /\ SellBurned(c)[a][x] = (k * BurnBp(a, c)) \div 10000 + rest.burnAmount
        /\ SellRounds(c)[a][x] = rest.iterations + 1
    BY <2>6, <2>7 DEF SellWith
  <2>9. QED
    BY <2>1, <2>2, <2>4, <2>5, <2>8 DEF ChunkUsdt
<1>4. QED
  BY <1>1, <1>2, <1>3 DEF Cut

(***************************************************************************)
(* The curve of the makers.                                                *)
(***************************************************************************)
LEMMA MakerShape ==
  ASSUME NEW c, ValidMakerConfig(c)
  PROVE  \E p, first, up, by \in Nat, step \in Nat \ {0} :
           /\ p = c.defaultPrice /\ first = c.firstStepAmount /\ up = c.firstStepIncrease
           /\ by = c.stepIncrease /\ step = c.stepAmount
<1>1. /\ c.defaultPrice \in Nat /\ c.firstStepAmount \in Nat /\ c.firstStepIncrease \in Nat
      /\ c.stepIncrease \in Nat /\ c.stepAmount \in Nat \ {0}
  BY DEF ValidMakerConfig
<1>2. QED
  BY <1>1

\* Purchases never lower the price.
LEMMA MakerPriceRises ==
  ASSUME NEW c, ValidMakerConfig(c), NEW u \in Nat, NEW s \in Nat, u <= s
  PROVE  /\ getMakerBuyPrice(u, c) \in Nat /\ getMakerBuyPrice(s, c) \in Nat
         /\ getMakerBuyPrice(u, c) <= getMakerBuyPrice(s, c)
<1>1. PICK p, first, up, by \in Nat, step \in Nat \ {0} :
        /\ p = c.defaultPrice /\ first = c.firstStepAmount /\ up = c.firstStepIncrease
        /\ by = c.stepIncrease /\ step = c.stepAmount
  BY MakerShape
<1>2. ASSUME NEW v \in Nat
      PROVE  /\ v < first => getMakerBuyPrice(v, c) = p
             /\ first <= v =>
                  getMakerBuyPrice(v, c) = p + up + ((v - first) \div step) * by
  BY <1>1 DEF getMakerBuyPrice
<1>3. ASSUME NEW v \in Nat, NEW t \in Nat, first <= v, v <= t
      PROVE  \E i, j \in Nat : /\ getMakerBuyPrice(v, c) = p + up + i
                               /\ getMakerBuyPrice(t, c) = p + up + j /\ i <= j
  <2>1. PICK x, y \in Nat : x = v - first /\ y = t - first /\ x <= y
    BY <1>3
  <2>2. PICK i, j \in Nat : i = (x \div step) * by /\ j = (y \div step) * by /\ i <= j
    <3>1. x <= y
      BY <2>1
    <3>2. QED
      BY <3>1, Steps
  <2>3. first <= t
    BY <1>3
  <2>4. QED
    BY <1>2, <1>3, <2>1, <2>2, <2>3
<1>4. CASE first <= u
  <2>1. PICK i, j \in Nat : /\ getMakerBuyPrice(u, c) = p + up + i
                            /\ getMakerBuyPrice(s, c) = p + up + j /\ i <= j
    BY <1>3, <1>4
  <2>2. QED
    BY <2>1
<1>5. CASE u < first /\ first <= s
  <2>1. PICK i, j \in Nat : /\ getMakerBuyPrice(s, c) = p + up + i
                            /\ getMakerBuyPrice(s, c) = p + up + j /\ i <= j
    BY <1>3, <1>5, s <= s
  <2>2. getMakerBuyPrice(u, c) = p
    BY <1>2, <1>5
  <2>3. QED
    BY <2>1, <2>2
<1>6. CASE s < first
  <2>1. u < first
    BY <1>6
  <2>2. getMakerBuyPrice(u, c) = p /\ getMakerBuyPrice(s, c) = p
    BY <1>2, <1>6, <2>1
  <2>3. QED
    BY <2>2
<1>7. QED
  BY <1>4, <1>5, <1>6

MakerSegmentOf(u, s, c) ==
  /\ MakerBoundary(u, c) \in Nat /\ u < MakerBoundary(u, c)
  /\ MakerBoundary(s, c) = MakerBoundary(u, c)
  /\ getMakerBuyPrice(s, c) = getMakerBuyPrice(u, c)

LEMMA MakerSegment ==
  ASSUME NEW c, ValidMakerConfig(c), NEW u \in Nat
  PROVE  /\ MakerSegmentOf(u, u, c)
         /\ \A s \in Nat : u <= s /\ s < MakerBoundary(u, c) => MakerSegmentOf(u, s, c)
<1>1. PICK p, first, up, by \in Nat, step \in Nat \ {0} :
        /\ p = c.defaultPrice /\ first = c.firstStepAmount /\ up = c.firstStepIncrease
        /\ by = c.stepIncrease /\ step = c.stepAmount
  BY MakerShape
<1>2. CASE u < first
  <2>1. ASSUME NEW s \in Nat, s < first
        PROVE  MakerBoundary(s, c) = first /\ getMakerBuyPrice(s, c) = p
    BY <1>1, <2>1 DEF MakerBoundary, getMakerBuyPrice
  <2>2. MakerBoundary(u, c) = first /\ getMakerBuyPrice(u, c) = p
    BY <1>2, <2>1
  <2>3. QED
    BY <1>2, <2>1, <2>2 DEF MakerSegmentOf
<1>3. CASE first <= u
  <2>1. SameStep(u, u, first, step)
    BY <1>3, StepHolds
  <2>2. ASSUME NEW s \in Nat, first <= s
        PROVE  /\ MakerBoundary(s, c) = StepEnd(s, first, step)
               /\ getMakerBuyPrice(s, c) = p + up + ((s - first) \div step) * by
    <3>1. ~(s < first)
      BY <2>2
    <3>2. QED
      BY <1>1, <3>1 DEF MakerBoundary, getMakerBuyPrice
  <2>3. PICK b \in Nat : b = StepEnd(u, first, step) /\ u < b
    BY <2>1 DEF SameStep
  <2>4. MakerBoundary(u, c) = b
    BY <1>3, <2>2, <2>3
  <2>5. ASSUME NEW s \in Nat, u <= s, s < b PROVE MakerSegmentOf(u, s, c)
    <3>1. SameStep(u, s, first, step)
      BY <1>3, <2>3, <2>5, StepHolds
    <3>2. first <= s
      BY <1>3, <2>5
    <3>3. StepEnd(s, first, step) = b /\ (s - first) \div step = (u - first) \div step
      BY <2>3, <3>1 DEF SameStep
    <3>4. MakerBoundary(s, c) = b
      BY <2>2, <3>2, <3>3
    <3>5. getMakerBuyPrice(s, c) = getMakerBuyPrice(u, c)
      BY <1>3, <2>2, <3>2, <3>3
    <3>6. QED
      BY <2>3, <2>4, <3>4, <3>5 DEF MakerSegmentOf
  <2>6. MakerSegmentOf(u, u, c)
    BY <2>3, <2>4 DEF MakerSegmentOf
  <2>7. QED
    BY <2>4, <2>5, <2>6
<1>4. QED
  BY <1>2, <1>3

LEMMA MakerAhead ==
  ASSUME NEW c, ValidMakerConfig(c)
  PROVE  Ahead(MaxMakerVolume, MakerBounds(c))
<1>1. MaxMakerVolume \in Nat
  BY PricingAssumption
<1>2. ASSUME NEW u \in 0..MaxMakerVolume, u < MaxMakerVolume
      PROVE  MakerBounds(c)[u] \in Nat /\ u < MakerBounds(c)[u]
  <2>1. MakerSegmentOf(u, u, c)
    BY <1>1, MakerSegment
  <2>2. QED
    BY <2>1 DEF MakerSegmentOf, MakerBounds
<1>3. QED
  BY <1>1, <1>2 DEF Ahead

LEMMA MakerCurve ==
  ASSUME NEW c, ValidMakerConfig(c)
  PROVE  Curve(MaxMakerVolume, MakerRate(c), MakerBounds(c), WEI)
<1>1. PICK m \in Nat : m = MaxMakerVolume
  BY PricingAssumption
<1>2. MakerRate(c) \in [0..m -> Nat]
  <2>1. ASSUME NEW u \in 0..m PROVE getMakerBuyPrice(u, c) \in Nat
    BY u <= u, MakerPriceRises
  <2>2. QED
    BY <1>1, <2>1 DEF MakerRate
<1>3. ASSUME NEW u \in 0..m, u < m
      PROVE  /\ MakerBounds(c)[u] \in Nat /\ u < MakerBounds(c)[u]
             /\ \A s \in 0..m : u <= s /\ s < MakerBounds(c)[u] =>
                  MakerRate(c)[s] = MakerRate(c)[u] /\ MakerBounds(c)[s] = MakerBounds(c)[u]
  <2>1. MakerBounds(c)[u] = MakerBoundary(u, c)
    BY <1>1 DEF MakerBounds
  <2>2. MakerSegmentOf(u, u, c)
        /\ \A s \in Nat : u <= s /\ s < MakerBoundary(u, c) => MakerSegmentOf(u, s, c)
    BY MakerSegment
  <2>3. ASSUME NEW s \in 0..m, u <= s, s < MakerBounds(c)[u]
        PROVE  MakerRate(c)[s] = MakerRate(c)[u] /\ MakerBounds(c)[s] = MakerBounds(c)[u]
    <3>1. MakerSegmentOf(u, s, c)
      BY <2>1, <2>2, <2>3
    <3>2. QED
      BY <1>1, <3>1 DEF MakerSegmentOf, MakerRate, MakerBounds
  <2>4. QED
    BY <2>1, <2>2, <2>3 DEF MakerSegmentOf
<1>4. WEI \in Nat \ {0}
  BY QuotesAssumption
<1>5. QED
  BY <1>1, <1>2, <1>3, <1>4 DEF Curve

MakerPaid(c) ==
  [a \in 0..MaxMakerVolume |-> [x \in 0..MaxMakerVolume |-> MakerLoop(x, a, c).totalUsdt]]
MakerRounds(c) ==
  [a \in 0..MaxMakerVolume |-> [x \in 0..MaxMakerVolume |-> MakerLoop(x, a, c).iterations]]

LEMMA MakerCut ==
  ASSUME NEW c, ValidMakerConfig(c)
  PROVE  Cut(MaxMakerVolume, MakerRate(c), MakerBounds(c), WEI, MakerPaid(c), MakerRounds(c))
<1>1. PICK m \in Nat : m = MaxMakerVolume
  BY PricingAssumption
<1>2. ASSUME NEW a \in 0..m, NEW x \in 0..m, a + x <= m, x = 0
      PROVE  MakerPaid(c)[a][x] = 0 /\ MakerRounds(c)[a][x] = 0
  <2>1. MakerLoop(x, a, c) = NoMakerQuote
    BY <1>1, <1>2, MakerAhead, MakerUnfolds
  <2>2. QED
    BY <1>1, <2>1 DEF MakerPaid, MakerRounds, NoMakerQuote
<1>3. ASSUME NEW a \in 0..m, NEW x \in 0..m, a + x <= m, x # 0
      PROVE  LET k == Chunk(MakerBounds(c), a, x)
             IN /\ MakerPaid(c)[a][x] =
                     (k * MakerRate(c)[a]) \div WEI + MakerPaid(c)[a + k][x - k]
                /\ MakerRounds(c)[a][x] = MakerRounds(c)[a + k][x - k] + 1
  <2>1. PICK k \in 1..x :
          /\ k = Chunk(MakerBounds(c), a, x)
          /\ MakerLoop(x, a, c) = MakerWith(a, k, MakerLoop(x - k, a + k, c), c)
    BY <1>1, <1>3, MakerAhead, MakerUnfolds
  <2>2. PICK b, y \in 0..m : b = a + k /\ y = x - k
    BY <1>3
  <2>3. PICK rest : rest = MakerLoop(y, b, c)
    OBVIOUS
  <2>4. MakerPaid(c)[b][y] = rest.totalUsdt /\ MakerRounds(c)[b][y] = rest.iterations
    BY <1>1, <2>3 DEF MakerPaid, MakerRounds
  <2>5. MakerRate(c)[a] = getMakerBuyPrice(a, c)
    BY <1>1 DEF MakerRate
  <2>6. MakerLoop(x, a, c) = MakerWith(a, k, rest, c)
    BY <2>1, <2>2, <2>3
  <2>7. /\ MakerPaid(c)[a][x] = MakerLoop(x, a, c).totalUsdt
        /\ MakerRounds(c)[a][x] = MakerLoop(x, a, c).iterations
    BY <1>1 DEF MakerPaid, MakerRounds
  <2>8. /\ MakerPaid(c)[a][x] = ChunkUsdt(k, getMakerBuyPrice(a, c)) + rest.totalUsdt
        /\ MakerRounds(c)[a][x] = rest.iterations + 1
    BY <2>6, <2>7 DEF MakerWith
  <2>9. QED
    BY <2>1, <2>2, <2>4, <2>5, <2>8 DEF ChunkUsdt
<1>4. QED
  BY <1>1, <1>2, <1>3 DEF Cut

-----------------------------------------------------------------------------
(***************************************************************************)
(* The exact worth of the first units.                                     *)
(***************************************************************************)
LEMMA WorthIsPriced ==
  ASSUME NEW M \in Nat, NEW rate \in [0..M -> Nat]
  PROVE  Priced(M, rate, [u \in 0..M |-> Worth(rate, u)])
<1> DEFINE w == [u \in 0..M |-> Worth(rate, u)]
<1>1. ASSUME NEW u \in 0..M
      PROVE  Summable(rate, 0..(u - 1)) /\ Worth(rate, u) \in Nat
  <2>1. IsFiniteSet(0..(u - 1))
    BY FS_Interval
  <2>2. NatOn(rate, 0..(u - 1))
    <3>1. \A v \in 0..(u - 1) : v \in 0..M /\ rate[v] \in Nat
      OBVIOUS
    <3>2. QED
      BY <2>1, <3>1 DEF NatOn
  <2>3. QED
    BY <2>2, NatSummable, SumNat DEF Worth
<1>2. ASSUME NEW u \in 0..M, u < M PROVE Worth(rate, u + 1) = Worth(rate, u) + rate[u]
  <2>1. 0..((u + 1) - 1) = (0..(u - 1)) \cup {u} /\ u \notin 0..(u - 1)
    OBVIOUS
  <2>2. SumFunctionOnSet(rate, (0..(u - 1)) \cup {u}) = rate[u] + SumFunctionOnSet(rate, 0..(u - 1))
    <3>1. Summable(rate, 0..(u - 1))
      BY <1>1, <1>2
    <3>2. rate[u] \in Nat
      OBVIOUS
    <3>3. rate[u] \in Int
      BY <3>2
    <3>4. QED
      BY <2>1, <3>1, <3>3, SumInsert
  <2>3. Worth(rate, u + 1) = rate[u] + Worth(rate, u)
    BY <2>1, <2>2 DEF Worth
  <2>4. QED
    BY <1>1, <2>3
<1>3. w \in [0..M -> Nat]
  BY <1>1
<1>4. ASSUME NEW u \in 0..M, u < M PROVE w[u + 1] = w[u] + rate[u]
  <2>1. u + 1 \in 0..M
    BY <1>4
  <2>2. QED
    BY <1>2, <1>4, <2>1
<1>5. QED
  BY <1>3, <1>4 DEF Priced

\* What the tiers burn of the first n units.
BurnedOf(n, c) ==
  LET upTo1 == Least(n, c.tier1EndAmount)
      upTo2 == Least(n, c.tier2EndAmount)
  IN upTo1 * c.tier1BurnBp + (upTo2 - upTo1) * c.tier2BurnBp + (n - upTo2) * c.tier3BurnBp

BurnOf(n, e1, e2, b1, b2, b3) ==
  Least(n, e1) * b1 + (Least(n, e2) - Least(n, e1)) * b2 + (n - Least(n, e2)) * b3
BurnAt(n, e1, e2, b1, b2, b3) == IF n < e1 THEN b1 ELSE IF n < e2 THEN b2 ELSE b3

LEMMA BurnGrows ==
  ASSUME NEW n \in Nat, NEW e1 \in Nat, NEW e2 \in Nat, e1 < e2,
         NEW b1 \in Nat, NEW b2 \in Nat, NEW b3 \in Nat
  PROVE  /\ BurnOf(n, e1, e2, b1, b2, b3) \in Nat
         /\ BurnOf(n + 1, e1, e2, b1, b2, b3) =
              BurnOf(n, e1, e2, b1, b2, b3) + BurnAt(n, e1, e2, b1, b2, b3)
<1>1. PICK i, j, k \in Nat : /\ i = Least(n, e1) /\ j = Least(n, e2) - Least(n, e1)
                             /\ k = n - Least(n, e2)
  <2>1. Least(n, e1) \in Nat /\ Least(n, e2) - Least(n, e1) \in Nat /\ n - Least(n, e2) \in Nat
    BY DEF Least
  <2>2. QED
    BY <2>1
<1>2. BurnOf(n, e1, e2, b1, b2, b3) = i * b1 + j * b2 + k * b3
  BY <1>1 DEF BurnOf
<1>3. i * b1 \in Nat /\ j * b2 \in Nat /\ k * b3 \in Nat
  OBVIOUS
<1>4. PICK x, y, z \in Nat : x = i * b1 /\ y = j * b2 /\ z = k * b3
  BY <1>3
<1>5. BurnOf(n, e1, e2, b1, b2, b3) = x + y + z
  BY <1>2, <1>4
<1>6. CASE n < e1
  <2>1. /\ Least(n + 1, e1) = i + 1 /\ Least(n + 1, e2) - Least(n + 1, e1) = j
        /\ (n + 1) - Least(n + 1, e2) = k
    BY <1>1, <1>6 DEF Least
  <2>2. BurnOf(n + 1, e1, e2, b1, b2, b3) = (i + 1) * b1 + y + z
    BY <1>4, <2>1 DEF BurnOf
  <2>3. (i + 1) * b1 = x + b1
    BY <1>4
  <2>4. QED
    BY <1>5, <1>6, <2>2, <2>3 DEF BurnAt
<1>7. CASE ~(n < e1) /\ n < e2
  <2>1. /\ Least(n + 1, e1) = i /\ Least(n + 1, e2) - Least(n + 1, e1) = j + 1
        /\ (n + 1) - Least(n + 1, e2) = k
    BY <1>1, <1>7 DEF Least
  <2>2. BurnOf(n + 1, e1, e2, b1, b2, b3) = x + (j + 1) * b2 + z
    BY <1>4, <2>1 DEF BurnOf
  <2>3. (j + 1) * b2 = y + b2
    BY <1>4
  <2>4. QED
    BY <1>5, <1>7, <2>2, <2>3 DEF BurnAt
<1>8. CASE ~(n < e2)
  <2>1. /\ Least(n + 1, e1) = i /\ Least(n + 1, e2) - Least(n + 1, e1) = j
        /\ (n + 1) - Least(n + 1, e2) = k + 1
    BY <1>1, <1>8 DEF Least
  <2>2. BurnOf(n + 1, e1, e2, b1, b2, b3) = x + y + (k + 1) * b3
    BY <1>4, <2>1 DEF BurnOf
  <2>3. (k + 1) * b3 = z + b3
    BY <1>4
  <2>4. ~(n < e1)
    BY <1>8
  <2>5. QED
    BY <1>5, <1>8, <2>2, <2>3, <2>4 DEF BurnAt
<1>9. QED
  BY <1>5, <1>6, <1>7, <1>8

\* No more than all of it.
LEMMA BurnBounded ==
  ASSUME NEW n \in Nat, NEW e1 \in Nat, NEW e2 \in Nat, e1 < e2,
         NEW b1 \in Nat, NEW b2 \in Nat, NEW b3 \in Nat, NEW all \in Nat,
         b1 <= all, b2 <= all, b3 <= all
  PROVE  BurnOf(n, e1, e2, b1, b2, b3) <= all * n
<1>1. PICK i, j, k \in Nat : /\ i = Least(n, e1) /\ j = Least(n, e2) - Least(n, e1)
                             /\ k = n - Least(n, e2) /\ i + (j + k) = n
  <2>1. Least(n, e1) \in Nat /\ Least(n, e2) - Least(n, e1) \in Nat /\ n - Least(n, e2) \in Nat
    BY DEF Least
  <2>2. Least(n, e1) + ((Least(n, e2) - Least(n, e1)) + (n - Least(n, e2))) = n
    BY DEF Least
  <2>3. QED
    BY <2>1, <2>2
<1>2. PICK x, y, z, p, q, r \in Nat :
        /\ x = b1 * i /\ y = b2 * j /\ z = b3 * k /\ p = all * i /\ q = all * j /\ r = all * k
        /\ x <= p /\ y <= q /\ z <= r
  <2>1. b1 * i \in Nat /\ all * i \in Nat /\ b1 * i <= all * i
    BY TimesGrows
  <2>2. b2 * j \in Nat /\ all * j \in Nat /\ b2 * j <= all * j
    BY TimesGrows
  <2>3. b3 * k \in Nat /\ all * k \in Nat /\ b3 * k <= all * k
    BY TimesGrows
  <2>4. QED
    BY <2>1, <2>2, <2>3
<1>3. BurnOf(n, e1, e2, b1, b2, b3) = x + y + z
  <2>1. BurnOf(n, e1, e2, b1, b2, b3) = i * b1 + j * b2 + k * b3
    BY <1>1 DEF BurnOf
  <2>2. i * b1 = b1 * i /\ j * b2 = b2 * j /\ k * b3 = b3 * k
    OBVIOUS
  <2>3. QED
    BY <1>2, <2>1, <2>2
<1>4. all * n = p + (q + r)
  <2>1. all * (i + (j + k)) = all * i + (all * j + all * k)
    OBVIOUS
  <2>2. QED
    BY <1>1, <1>2, <2>1
<1>5. QED
  BY <1>2, <1>3, <1>4

\* All of it, in basis points.
WholeBp == 10000

LEMMA BurnIsPriced ==
  ASSUME NEW c, ValidSellConfig(c)
  PROVE  /\ Priced(c.dailyMaxAmount, BurnRate(c), [u \in 0..c.dailyMaxAmount |-> BurnedOf(u, c)])
         /\ \A u \in 0..c.dailyMaxAmount : BurnedOf(u, c) <= WholeBp * u
<1>1. PICK e1, e2, m \in Nat : /\ e1 = c.tier1EndAmount /\ e2 = c.tier2EndAmount
                               /\ m = c.dailyMaxAmount /\ e1 < e2 /\ e2 < m
  BY SellShape
<1>2. PICK b1, b2, b3 \in Nat : /\ b1 = c.tier1BurnBp /\ b2 = c.tier2BurnBp /\ b3 = c.tier3BurnBp
                                /\ b1 <= 10000 /\ b2 <= 10000 /\ b3 <= 10000
  BY SellTiers DEF BurnsAreBp
<1>3. ASSUME NEW n \in Nat PROVE BurnedOf(n, c) = BurnOf(n, e1, e2, b1, b2, b3)
  BY <1>1, <1>2 DEF BurnedOf, BurnOf
<1>4. ASSUME NEW n \in 0..m PROVE BurnRate(c)[n] = BurnAt(n, e1, e2, b1, b2, b3)
  <2>1. BurnBp(n, c) = BurnAt(n, e1, e2, b1, b2, b3)
    <3>1. CASE n < e1
      BY <1>1, <1>2, <3>1, FirstTier DEF BurnAt
    <3>2. CASE e1 <= n /\ n < e2
      <4>1. ~(n < e1)
        BY <3>2
      <4>2. QED
        BY <1>1, <1>2, <3>2, <4>1, SecondTier DEF BurnAt
    <3>3. CASE e2 <= n
      <4>1. ~(n < e1) /\ ~(n < e2)
        BY <1>1, <3>3
      <4>2. QED
        BY <1>1, <1>2, <3>3, <4>1, ThirdTier DEF BurnAt
    <3>4. QED
      BY <3>1, <3>2, <3>3
  <2>2. QED
    BY <1>1, <2>1 DEF BurnRate
<1>a. e1 < e2 /\ b1 <= 10000 /\ b2 <= 10000 /\ b3 <= 10000 /\ 10000 \in Nat
  BY <1>1, <1>2
<1>b. ASSUME NEW n \in Nat
      PROVE  /\ BurnOf(n, e1, e2, b1, b2, b3) \in Nat
             /\ BurnOf(n + 1, e1, e2, b1, b2, b3) =
                  BurnOf(n, e1, e2, b1, b2, b3) + BurnAt(n, e1, e2, b1, b2, b3)
             /\ BurnOf(n, e1, e2, b1, b2, b3) <= 10000 * n
  <2>1. PICK all \in Nat : all = 10000 /\ b1 <= all /\ b2 <= all /\ b3 <= all
    BY <1>a
  <2>2. BurnOf(n, e1, e2, b1, b2, b3) <= all * n
    BY <1>a, <2>1, BurnBounded
  <2>3. e1 < e2
    BY <1>a
  <2>4. /\ BurnOf(n, e1, e2, b1, b2, b3) \in Nat
        /\ BurnOf(n + 1, e1, e2, b1, b2, b3) =
             BurnOf(n, e1, e2, b1, b2, b3) + BurnAt(n, e1, e2, b1, b2, b3)
    BY <2>3, BurnGrows
  <2>5. QED
    BY <2>1, <2>2, <2>4
<1> DEFINE w == [u \in 0..m |-> BurnedOf(u, c)]
<1>5. w \in [0..m -> Nat]
  <2>1. ASSUME NEW n \in 0..m PROVE BurnedOf(n, c) \in Nat
    BY <1>3, <1>b
  <2>2. QED
    BY <2>1
<1>6. ASSUME NEW u \in 0..m, u < m PROVE w[u + 1] = w[u] + BurnRate(c)[u]
  <2>1. u + 1 \in 0..m /\ u \in Nat /\ u + 1 \in Nat
    BY <1>6
  <2>2. w[u + 1] = BurnOf(u + 1, e1, e2, b1, b2, b3) /\ w[u] = BurnOf(u, e1, e2, b1, b2, b3)
    BY <1>3, <2>1
  <2>3. /\ BurnOf(u + 1, e1, e2, b1, b2, b3) =
             BurnOf(u, e1, e2, b1, b2, b3) + BurnAt(u, e1, e2, b1, b2, b3)
        /\ BurnRate(c)[u] = BurnAt(u, e1, e2, b1, b2, b3)
    BY <1>4, <1>b, <2>1
  <2> HIDE DEF w
  <2>4. QED
    BY <2>2, <2>3
<1>7. ASSUME NEW u \in 0..m PROVE BurnedOf(u, c) <= WholeBp * u
  BY <1>3, <1>b DEF WholeBp
<1> HIDE DEF w
<1>8. Priced(m, BurnRate(c), w)
  BY <1>5, <1>6 DEF Priced
<1>9. QED
  BY <1>1, <1>7, <1>8 DEF w

-----------------------------------------------------------------------------
(***************************************************************************)
(* A day traded in portions: what it gave so far, got, against the worth   *)
(* of its units and against one trade of all of them.                      *)
(***************************************************************************)
Cuts(parts) == IF parts = 0 THEN 0 ELSE parts - 1

DaySoFar(scale, t, n, w, cursor, parts, got) ==
  /\ Near(got, parts + n[0][cursor], scale, w[cursor])
  /\ t[0][cursor] - got \in 0..Cuts(parts)
  /\ parts = 0 => cursor = 0

LEMMA DayBegins ==
  ASSUME NEW M, NEW rate, NEW bound, NEW scale, NEW t, NEW n, NEW w,
         Curve(M, rate, bound, scale), Cut(M, rate, bound, scale, t, n), w[0] = 0
  PROVE  DaySoFar(scale, t, n, w, 0, 0, 0)
<1>1. 0 \in 0..M /\ 0 + 0 <= M /\ scale \in Nat \ {0}
  BY DEF Curve
<1>2. t[0][0] = 0 /\ n[0][0] = 0
  BY <1>1 DEF Cut
<1>3. Near(0, 0, scale, 0)
  BY <1>1 DEF Near
<1>4. QED
  BY <1>2, <1>3 DEF DaySoFar, Cuts

LEMMA DayTrades ==
  ASSUME NEW M, NEW rate, NEW bound, NEW scale, NEW t, NEW n, NEW w,
         Curve(M, rate, bound, scale), Cut(M, rate, bound, scale, t, n), Priced(M, rate, w),
         NEW a \in 0..M, NEW x \in Nat, a + x <= M, NEW parts \in Nat, NEW got \in Nat,
         DaySoFar(scale, t, n, w, a, parts, got)
  PROVE  /\ t[a][x] \in Nat
         /\ DaySoFar(scale, t, n, w, a + x, parts + 1, got + t[a][x])
<1>1. PICK m \in Nat : m = M /\ scale \in Nat \ {0}
  BY DEF Curve
<1>2. a \in Nat /\ x \in 0..M /\ 0 \in 0..M /\ a + x \in 0..M /\ 0 + (a + x) <= M /\ 0 + a = a
  BY <1>1
<1>3. PICK e \in {0, 1}, d \in {0, 1} :
        /\ t[0][a + x] = t[0][a] + t[a][x] + e
        /\ n[0][a] + n[a][x] = n[0][a + x] + d
        /\ a = 0 => e = 0
  <2>1. Joined(t, n, 0, a, x)
    BY <1>2, TradesJoin
  <2>2. QED
    BY <1>2, <2>1 DEF Joined
<1>4. PICK ta, tx, tz, na, nx, nz \in Nat :
        /\ ta = t[0][a] /\ tx = t[a][x] /\ tz = t[0][a + x]
        /\ na = n[0][a] /\ nx = n[a][x] /\ nz = n[0][a + x]
  <2>1. /\ t[0][a] \in Nat /\ n[0][a] \in Nat /\ t[0][a + x] \in Nat /\ n[0][a + x] \in Nat
        /\ t[a][x] \in Nat /\ n[a][x] \in Nat
    BY <1>2, CutTyped
  <2>2. QED
    BY <2>1
<1>5. PICK v \in Nat : w[a + x] = w[a] + v /\ Near(tx, nx, scale, v)
  BY <1>2, <1>4, PaidNear
<1>6. PICK wa \in Nat : wa = w[a]
  BY DEF Priced
<1>7. Near(got, parts + na, scale, wa)
  BY <1>4, <1>6 DEF DaySoFar
<1>8. Near(got + tx, (parts + na) + nx, scale, wa + v)
  <2>1. parts + na \in Nat
    OBVIOUS
  <2>2. QED
    BY <1>1, <1>5, <1>7, <2>1, NearPlus
<1>9. Near(got + tx, (parts + 1) + nz, scale, wa + v)
  <2>1. na + nx = nz + d
    BY <1>3, <1>4
  <2>2. (parts + na) + nx <= (parts + 1) + nz
    BY <2>1
  <2>3. PICK i, j, s, lo, up \in Nat :
          /\ i = (parts + na) + nx /\ j = (parts + 1) + nz /\ s = scale - 1 /\ i <= j
          /\ lo = scale * (got + tx) /\ up = wa + v
    BY <1>1, <2>2
  <2>4. i * s <= j * s /\ i * s \in Nat /\ j * s \in Nat
    BY ONLY <2>3, TimesGrows
  <2>5. s * i = i * s /\ s * j = j * s
    OBVIOUS
  <2>6. lo <= up /\ up <= lo + s * i
    BY <1>8, <2>3 DEF Near
  <2>7. PICK f, g \in Nat : f = s * i /\ g = s * j /\ f <= g
    BY <2>4, <2>5
  <2>8. lo <= up /\ up <= lo + s * j
    BY <2>6, <2>7
  <2>9. QED
    BY <2>3, <2>8 DEF Near
<1>10. tz - (got + tx) \in 0..Cuts(parts + 1)
  <2>1. ta - got \in 0..Cuts(parts) /\ (parts = 0 => a = 0)
    BY <1>4 DEF DaySoFar
  <2>2. tz = ta + tx + e
    BY <1>3, <1>4
  <2>3. tz - (got + tx) = (ta - got) + e
    BY <2>2
  <2>4. CASE parts = 0
    BY <1>3, <2>1, <2>3, <2>4 DEF Cuts
  <2>5. CASE parts # 0
    BY <2>1, <2>3, <2>5 DEF Cuts
  <2>6. QED
    BY <2>4, <2>5
<1>11. parts + 1 # 0
  OBVIOUS
<1>12. QED
  BY <1>4, <1>5, <1>6, <1>9, <1>10, <1>11 DEF DaySoFar

-----------------------------------------------------------------------------
(***************************************************************************)
(* The invariant: of the sales and of the purchases of the day.            *)
(***************************************************************************)
SellWorth(c) == [u \in 0..c.dailyMaxAmount |-> Worth(SellRate(c), u)]
BurnWorth(c) == [u \in 0..c.dailyMaxAmount |-> BurnedOf(u, c)]
MakerWorth(c) == [u \in 0..MaxMakerVolume |-> Worth(MakerRate(c), u)]

SoldType(c) ==
  [cursor : 0..c.dailyMaxAmount, portions : 0..MaxPortions, usdt : Nat, burn : Nat]
BoughtType == [cursor : 0..MaxMakerVolume, portions : 0..MaxPortions, usdt : Nat]

SalesInv(c, s) ==
  /\ s \in SoldType(c)
  /\ DaySoFar(WEI, SellPaid(c), SellRounds(c), SellWorth(c), s.cursor, s.portions, s.usdt)
  /\ DaySoFar(10000, SellBurned(c), SellRounds(c), BurnWorth(c), s.cursor, s.portions, s.burn)

BuysInv(c, b) ==
  /\ b \in BoughtType
  /\ DaySoFar(WEI, MakerPaid(c), MakerRounds(c), MakerWorth(c), b.cursor, b.portions, b.usdt)

PricingInv ==
  /\ sellConfig \in SellConfig /\ makerConfig \in MakerConfig
  /\ SalesInv(sellConfig, sold) /\ BuysInv(makerConfig, bought)

LEMMA SalesPriced ==
  ASSUME NEW c, ValidSellConfig(c)
  PROVE  /\ Priced(c.dailyMaxAmount, SellRate(c), SellWorth(c)) /\ SellWorth(c)[0] = 0
         /\ Priced(c.dailyMaxAmount, BurnRate(c), BurnWorth(c)) /\ BurnWorth(c)[0] = 0
<1>1. PICK e1, e2, m \in Nat : /\ e1 = c.tier1EndAmount /\ e2 = c.tier2EndAmount
                               /\ m = c.dailyMaxAmount /\ e1 < e2 /\ e2 < m
  BY SellShape
<1>2. SellRate(c) \in [0..m -> Nat]
  BY <1>1, SellCurves DEF Curve
<1>3. Priced(c.dailyMaxAmount, SellRate(c), SellWorth(c))
  BY <1>1, <1>2, WorthIsPriced DEF SellWorth
<1>4. SellWorth(c)[0] = 0
  <2>1. 0..(0 - 1) = {} /\ 0 \in 0..m
    OBVIOUS
  <2>2. Worth(SellRate(c), 0) = 0
    BY <2>1, SumEmpty DEF Worth
  <2>3. QED
    BY <1>1, <2>1, <2>2 DEF SellWorth
<1>5. Priced(c.dailyMaxAmount, BurnRate(c), BurnWorth(c))
  BY BurnIsPriced DEF BurnWorth
<1>6. BurnWorth(c)[0] = 0
  <2>1. BurnWorth(c)[0] = BurnedOf(0, c) /\ BurnWorth(c)[0] \in Nat /\ BurnedOf(0, c) <= WholeBp * 0
    BY <1>1, <1>5, BurnIsPriced DEF BurnWorth, Priced
  <2>2. QED
    BY <2>1 DEF WholeBp
<1>7. QED
  BY <1>3, <1>4, <1>5, <1>6

LEMMA MakerPriced ==
  ASSUME NEW c, ValidMakerConfig(c)
  PROVE  Priced(MaxMakerVolume, MakerRate(c), MakerWorth(c)) /\ MakerWorth(c)[0] = 0
<1>1. MaxMakerVolume \in Nat
  BY PricingAssumption
<1>2. MakerRate(c) \in [0..MaxMakerVolume -> Nat]
  BY MakerCurve DEF Curve
<1>3. Priced(MaxMakerVolume, MakerRate(c), MakerWorth(c))
  BY <1>1, <1>2, WorthIsPriced DEF MakerWorth
<1>4. 0..(0 - 1) = {} /\ 0 \in 0..MaxMakerVolume
  BY <1>1
<1>5. Worth(MakerRate(c), 0) = 0
  BY <1>4, SumEmpty DEF Worth
<1>6. QED
  BY <1>3, <1>4, <1>5 DEF MakerWorth

LEMMA NoSales ==
  ASSUME NEW c, ValidSellConfig(c)
  PROVE  SalesInv(c, NothingSold)
<1>1. NothingSold \in SoldType(c)
  BY SellAmounts, PricingAssumption DEF NothingSold, SoldType
<1>2. /\ DaySoFar(WEI, SellPaid(c), SellRounds(c), SellWorth(c), 0, 0, 0)
      /\ DaySoFar(10000, SellBurned(c), SellRounds(c), BurnWorth(c), 0, 0, 0)
  BY SellCurves, SellCuts, SalesPriced, DayBegins
<1>3. NothingSold.cursor = 0 /\ NothingSold.portions = 0 /\ NothingSold.usdt = 0 /\ NothingSold.burn = 0
  BY DEF NothingSold
<1>4. QED
  BY <1>1, <1>2, <1>3 DEF SalesInv

LEMMA NoPurchases ==
  ASSUME NEW c, ValidMakerConfig(c)
  PROVE  BuysInv(c, NothingBought)
<1>1. NothingBought \in BoughtType
  BY PricingAssumption DEF NothingBought, BoughtType
<1>2. DaySoFar(WEI, MakerPaid(c), MakerRounds(c), MakerWorth(c), 0, 0, 0)
  BY MakerCurve, MakerCut, MakerPriced, DayBegins
<1>3. NothingBought.cursor = 0 /\ NothingBought.portions = 0 /\ NothingBought.usdt = 0
  BY DEF NothingBought
<1>4. QED
  BY <1>1, <1>2, <1>3 DEF BuysInv

LEMMA OneSale ==
  ASSUME NEW c, ValidSellConfig(c), NEW s, SalesInv(c, s), NEW x \in Nat,
         s.cursor + x <= c.dailyMaxAmount, s.portions < MaxPortions
  PROVE  SalesInv(c, [cursor |-> s.cursor + x, portions |-> s.portions + 1,
                      usdt |-> s.usdt + SellLoop(x, s.cursor, c).totalUsdt,
                      burn |-> s.burn + SellLoop(x, s.cursor, c).burnAmount])
<1>1. PICK m \in Nat : m = c.dailyMaxAmount
  BY SellAmounts
<1>2. /\ s.cursor \in 0..m /\ s.portions \in 0..MaxPortions /\ s.usdt \in Nat /\ s.burn \in Nat
  BY <1>1 DEF SalesInv, SoldType
<1>3. PICK a \in 0..m, p, u, b \in Nat : a = s.cursor /\ p = s.portions /\ u = s.usdt /\ b = s.burn
  BY <1>2
<1>4. x \in 0..m
  BY <1>1, <1>3
<1>5. /\ SellLoop(x, a, c).totalUsdt = SellPaid(c)[a][x]
      /\ SellLoop(x, a, c).burnAmount = SellBurned(c)[a][x]
  BY <1>1, <1>4 DEF SellPaid, SellBurned
<1>6. /\ SellPaid(c)[a][x] \in Nat
      /\ DaySoFar(WEI, SellPaid(c), SellRounds(c), SellWorth(c), a + x, p + 1,
                  u + SellPaid(c)[a][x])
  <2>1. DaySoFar(WEI, SellPaid(c), SellRounds(c), SellWorth(c), a, p, u)
    BY <1>3 DEF SalesInv
  <2>2. QED
    BY <1>1, <1>3, <2>1, SellCurves, SellCuts, SalesPriced, DayTrades
<1>7. /\ SellBurned(c)[a][x] \in Nat
      /\ DaySoFar(10000, SellBurned(c), SellRounds(c), BurnWorth(c), a + x, p + 1,
                  b + SellBurned(c)[a][x])
  <2>1. DaySoFar(10000, SellBurned(c), SellRounds(c), BurnWorth(c), a, p, b)
    BY <1>3 DEF SalesInv
  <2>2. QED
    BY <1>1, <1>3, <2>1, SellCurves, SellCuts, SalesPriced, DayTrades
<1> DEFINE z == [cursor |-> a + x, portions |-> p + 1,
                 usdt |-> u + SellPaid(c)[a][x], burn |-> b + SellBurned(c)[a][x]]
<1>8. z \in SoldType(c)
  <2>1. /\ a + x \in 0..c.dailyMaxAmount /\ p + 1 \in 0..MaxPortions
        /\ u + SellPaid(c)[a][x] \in Nat /\ b + SellBurned(c)[a][x] \in Nat
    <3>1. a + x \in 0..m /\ m = c.dailyMaxAmount
      BY <1>1, <1>3
    <3>2. MaxPortions \in Nat /\ p < MaxPortions
      BY <1>3, PricingAssumption
    <3>3. p + 1 \in 0..MaxPortions
      BY <3>2
    <3>4. u + SellPaid(c)[a][x] \in Nat /\ b + SellBurned(c)[a][x] \in Nat
      BY <1>6, <1>7
    <3>5. QED
      BY <3>1, <3>3, <3>4
  <2>2. QED
    BY <2>1 DEF SoldType
<1>9. /\ z.cursor = a + x /\ z.portions = p + 1 /\ z.usdt = u + SellPaid(c)[a][x]
      /\ z.burn = b + SellBurned(c)[a][x]
  OBVIOUS
<1>10. SalesInv(c, z)
  <2> HIDE DEF z
  <2>1. QED
    BY <1>6, <1>7, <1>8, <1>9 DEF SalesInv
<1>11. QED
  BY <1>3, <1>5, <1>10

LEMMA OnePurchase ==
  ASSUME NEW c, ValidMakerConfig(c), NEW s, BuysInv(c, s), NEW x \in Nat,
         s.cursor + x <= MaxMakerVolume, s.portions < MaxPortions
  PROVE  BuysInv(c, [cursor |-> s.cursor + x, portions |-> s.portions + 1,
                     usdt |-> s.usdt + MakerLoop(x, s.cursor, c).totalUsdt])
<1>1. PICK m \in Nat : m = MaxMakerVolume
  BY PricingAssumption
<1>2. s.cursor \in 0..m /\ s.portions \in 0..MaxPortions /\ s.usdt \in Nat
  BY <1>1 DEF BuysInv, BoughtType
<1>3. PICK a \in 0..m, p, u \in Nat : a = s.cursor /\ p = s.portions /\ u = s.usdt
  BY <1>2
<1>4. x \in 0..m
  BY <1>1, <1>3
<1>5. MakerLoop(x, a, c).totalUsdt = MakerPaid(c)[a][x]
  BY <1>1, <1>4 DEF MakerPaid
<1>6. /\ MakerPaid(c)[a][x] \in Nat
      /\ DaySoFar(WEI, MakerPaid(c), MakerRounds(c), MakerWorth(c), a + x, p + 1,
                  u + MakerPaid(c)[a][x])
  <2>1. DaySoFar(WEI, MakerPaid(c), MakerRounds(c), MakerWorth(c), a, p, u)
    BY <1>3 DEF BuysInv
  <2>2. QED
    BY <1>1, <1>3, <2>1, MakerCurve, MakerCut, MakerPriced, DayTrades
<1> DEFINE z == [cursor |-> a + x, portions |-> p + 1, usdt |-> u + MakerPaid(c)[a][x]]
<1>7. z \in BoughtType
  <2>1. /\ a + x \in 0..MaxMakerVolume /\ p + 1 \in 0..MaxPortions
        /\ u + MakerPaid(c)[a][x] \in Nat
    <3>1. a + x \in 0..m /\ m = MaxMakerVolume
      BY <1>1, <1>3
    <3>2. MaxPortions \in Nat /\ p < MaxPortions
      BY <1>3, PricingAssumption
    <3>3. p + 1 \in 0..MaxPortions
      BY <3>2
    <3>4. u + MakerPaid(c)[a][x] \in Nat
      BY <1>6
    <3>5. QED
      BY <3>1, <3>3, <3>4
  <2>2. QED
    BY <2>1 DEF BoughtType
<1>8. z.cursor = a + x /\ z.portions = p + 1 /\ z.usdt = u + MakerPaid(c)[a][x]
  OBVIOUS
<1>9. BuysInv(c, z)
  <2> HIDE DEF z
  <2>1. QED
    BY <1>6, <1>7, <1>8 DEF BuysInv
<1>10. QED
  BY <1>3, <1>5, <1>9

-----------------------------------------------------------------------------
(***************************************************************************)
(* The steps.                                                              *)
(***************************************************************************)
LEMMA PricingInit == Init => PricingInv
  BY PricingAssumption, NoSales, NoPurchases DEF Init, PricingInv

LEMMA PricingStep == PricingInv /\ [Next]_vars => PricingInv'
<1> SUFFICES ASSUME PricingInv, [Next]_vars PROVE PricingInv'
  OBVIOUS
<1>1. ValidSellConfig(sellConfig) /\ ValidMakerConfig(makerConfig)
  BY PricingAssumption DEF PricingInv
<1>2. /\ sellConfig \in SellConfig /\ makerConfig \in MakerConfig
      /\ SalesInv(sellConfig, sold) /\ BuysInv(makerConfig, bought)
  BY DEF PricingInv
<1>3. ASSUME NEW x \in Portion, UserSell(x) PROVE PricingInv'
  <2>1. x \in Nat /\ sold.cursor + x <= sellConfig.dailyMaxAmount /\ sold.portions < MaxPortions
    <3>1. x \in Nat /\ sold.portions < MaxPortions /\ ~SellThrows(x, sold.cursor, sellConfig)
      BY <1>3, PricingAssumption DEF UserSell
    <3>2. ~(sold.cursor + x > sellConfig.dailyMaxAmount)
      BY <3>1 DEF SellThrows
    <3>3. sold.cursor \in Nat /\ sellConfig.dailyMaxAmount \in Nat
      BY <1>1, <1>2, SellAmounts DEF SalesInv, SoldType
    <3>4. QED
      BY <3>1, <3>2, <3>3
  <2>2. sold' = [cursor |-> sold.cursor + x, portions |-> sold.portions + 1,
                 usdt |-> sold.usdt + SellLoop(x, sold.cursor, sellConfig).totalUsdt,
                 burn |-> sold.burn + SellLoop(x, sold.cursor, sellConfig).burnAmount]
    BY <1>3 DEF UserSell, calculateUserSellQuote
  <2>3. SalesInv(sellConfig, sold')
    BY <1>1, <1>2, <2>1, <2>2, OneSale
  <2>4. sellConfig' = sellConfig /\ makerConfig' = makerConfig /\ bought' = bought
    BY <1>3 DEF UserSell
  <2>5. QED
    BY <1>2, <2>3, <2>4 DEF PricingInv
<1>4. ASSUME NEW x \in Portion, MakerBuy(x) PROVE PricingInv'
  <2>1. x \in Nat /\ bought.cursor + x <= MaxMakerVolume /\ bought.portions < MaxPortions
    BY <1>4, PricingAssumption DEF MakerBuy
  <2>2. bought' = [cursor |-> bought.cursor + x, portions |-> bought.portions + 1,
                   usdt |-> bought.usdt + MakerLoop(x, bought.cursor, makerConfig).totalUsdt]
    BY <1>4 DEF MakerBuy, calculateMakerBuyQuote
  <2>3. BuysInv(makerConfig, bought')
    BY <1>1, <1>2, <2>1, <2>2, OnePurchase
  <2>4. sellConfig' = sellConfig /\ makerConfig' = makerConfig /\ sold' = sold
    BY <1>4 DEF MakerBuy
  <2>5. QED
    BY <1>2, <2>3, <2>4 DEF PricingInv
<1>5. CASE NewDay
  <2>1. SalesInv(sellConfig, NothingSold) /\ BuysInv(makerConfig, NothingBought)
    BY <1>1, NoSales, NoPurchases
  <2>2. QED
    BY <1>2, <1>5, <2>1 DEF NewDay, PricingInv
<1>6. CASE UNCHANGED vars
  BY <1>2, <1>6 DEF vars, PricingInv
<1>7. QED
  BY <1>3, <1>4, <1>5, <1>6 DEF Next

LEMMA PricingInvariant == Spec => []PricingInv
<1>1. QED
  BY PricingInit, PricingStep, PTL DEF Spec

\* What the invariant says of the sales of the day, and of the purchases.
LEMMA SalesSay ==
  ASSUME NEW c, ValidSellConfig(c), NEW s, SalesInv(c, s)
  PROVE  /\ s \in [cursor : 0..c.dailyMaxAmount, portions : 0..MaxPortions,
                   usdt : Nat, burn : 0..s.cursor]
         /\ Truncated(s.usdt, Worth(SellRate(c), s.cursor), WEI,
                      s.portions + SellLoop(s.cursor, 0, c).iterations)
         /\ Truncated(s.burn, BurnedOf(s.cursor, c), 10000,
                      s.portions + SellLoop(s.cursor, 0, c).iterations)
         /\ SellLoop(s.cursor, 0, c).totalUsdt - s.usdt \in 0..Cuts(s.portions)
<1>1. PICK m \in Nat : m = c.dailyMaxAmount
  BY SellAmounts
<1>2. s \in SoldType(c)
  BY DEF SalesInv
<1>3. PICK a \in 0..m, b \in Nat : a = s.cursor /\ b = s.burn
  BY <1>1, <1>2 DEF SoldType
<1>4. 0 \in 0..m
  OBVIOUS
<1>5. /\ SellPaid(c)[0][a] = SellLoop(a, 0, c).totalUsdt
      /\ SellRounds(c)[0][a] = SellLoop(a, 0, c).iterations
      /\ SellWorth(c)[a] = Worth(SellRate(c), a) /\ BurnWorth(c)[a] = BurnedOf(a, c)
  BY <1>1, <1>4 DEF SellPaid, SellRounds, SellWorth, BurnWorth
<1>6. /\ DaySoFar(WEI, SellPaid(c), SellRounds(c), SellWorth(c), a, s.portions, s.usdt)
      /\ DaySoFar(10000, SellBurned(c), SellRounds(c), BurnWorth(c), a, s.portions, b)
  BY <1>3 DEF SalesInv
<1>7. /\ Near(s.usdt, s.portions + SellLoop(a, 0, c).iterations, WEI, Worth(SellRate(c), a))
      /\ Near(b, s.portions + SellLoop(a, 0, c).iterations, 10000, BurnedOf(a, c))
      /\ SellLoop(a, 0, c).totalUsdt - s.usdt \in 0..Cuts(s.portions)
  BY <1>5, <1>6 DEF DaySoFar
<1>8. b \in 0..a
  <2>1. BurnedOf(a, c) <= 10000 * a
    <3>1. BurnedOf(a, c) <= WholeBp * a
      BY <1>1, BurnIsPriced
    <3>2. QED
      BY <3>1 DEF WholeBp
  <2>2. BurnedOf(a, c) \in Nat
    <3>1. BurnWorth(c)[a] \in Nat
      BY <1>1, SalesPriced DEF Priced
    <3>2. QED
      BY <1>5, <3>1
  <2>3. 10000 * b <= BurnedOf(a, c)
    BY <1>7 DEF Near
  <2>4. 10000 * b <= 10000 * a /\ a \in Nat
    BY <2>1, <2>2, <2>3
  <2>5. QED
    BY <2>4
<1>9. s \in [cursor : 0..c.dailyMaxAmount, portions : 0..MaxPortions,
             usdt : Nat, burn : 0..s.cursor]
  BY <1>2, <1>3, <1>8 DEF SoldType
<1>10. QED
  BY <1>3, <1>7, <1>9 DEF Near, Truncated

LEMMA PurchasesSay ==
  ASSUME NEW c, ValidMakerConfig(c), NEW s, BuysInv(c, s)
  PROVE  /\ Truncated(s.usdt, Worth(MakerRate(c), s.cursor), WEI,
                      s.portions + MakerLoop(s.cursor, 0, c).iterations)
         /\ MakerLoop(s.cursor, 0, c).totalUsdt - s.usdt \in 0..Cuts(s.portions)
<1>1. PICK m \in Nat : m = MaxMakerVolume
  BY PricingAssumption
<1>2. PICK a \in 0..m : a = s.cursor
  BY <1>1 DEF BuysInv, BoughtType
<1>3. 0 \in 0..m
  OBVIOUS
<1>4. /\ MakerPaid(c)[0][a] = MakerLoop(a, 0, c).totalUsdt
      /\ MakerRounds(c)[0][a] = MakerLoop(a, 0, c).iterations
      /\ MakerWorth(c)[a] = Worth(MakerRate(c), a)
  BY <1>1, <1>3 DEF MakerPaid, MakerRounds, MakerWorth
<1>5. DaySoFar(WEI, MakerPaid(c), MakerRounds(c), MakerWorth(c), a, s.portions, s.usdt)
  BY <1>2 DEF BuysInv
<1>6. /\ Near(s.usdt, s.portions + MakerLoop(a, 0, c).iterations, WEI, Worth(MakerRate(c), a))
      /\ MakerLoop(a, 0, c).totalUsdt - s.usdt \in 0..Cuts(s.portions)
  BY <1>4, <1>5 DEF DaySoFar
<1>7. QED
  BY <1>2, <1>6 DEF Near, Truncated

LEMMA PricesMove ==
  ASSUME PricingInv
  PROVE  VolumeMovesPrices
<1>1. ValidSellConfig(sellConfig) /\ ValidMakerConfig(makerConfig)
  BY PricingAssumption DEF PricingInv
<1>2. PICK a, b \in Nat : a = sold.cursor /\ b = bought.cursor
  <2>1. sold.cursor \in Nat /\ bought.cursor \in Nat
    BY DEF PricingInv, SalesInv, BuysInv, SoldType, BoughtType
  <2>2. QED
    BY <2>1
<1>3. ASSUME NEW u \in 1..a
      PROVE  getUserSellPrice(u, sellConfig)
               \in sellConfig.fixedPrice..getUserSellPrice(u - 1, sellConfig)
  <2>1. u \in Nat /\ u - 1 \in Nat /\ u - 1 <= u /\ u <= u
    OBVIOUS
  <2>2. /\ getUserSellPrice(u, sellConfig) \in Nat
        /\ sellConfig.fixedPrice <= getUserSellPrice(u, sellConfig)
        /\ getUserSellPrice(u, sellConfig) <= getUserSellPrice(u - 1, sellConfig)
        /\ getUserSellPrice(u - 1, sellConfig) \in Nat
    BY <1>1, <2>1, SellPriceFalls
  <2>3. sellConfig.fixedPrice \in Nat
    BY <1>1, SellAmounts
  <2>4. QED
    BY <2>2, <2>3
<1>4. ASSUME NEW u \in 1..b
      PROVE  getMakerBuyPrice(u, makerConfig) >= getMakerBuyPrice(u - 1, makerConfig)
  <2>1. u \in Nat /\ u - 1 \in Nat /\ u - 1 <= u
    OBVIOUS
  <2>2. /\ getMakerBuyPrice(u - 1, makerConfig) \in Nat /\ getMakerBuyPrice(u, makerConfig) \in Nat
        /\ getMakerBuyPrice(u - 1, makerConfig) <= getMakerBuyPrice(u, makerConfig)
    BY <1>1, <2>1, MakerPriceRises
  <2>3. QED
    BY <2>2
<1>5. QED
  BY <1>2, <1>3, <1>4 DEF VolumeMovesPrices

\* The types of a day: what is sold stays within the daily limit, and no more
\* is burned than was sold, for any configuration the readers accept.
THEOREM PricingTypeCorrect == Spec => []TypeOK
<1>1. ASSUME PricingInv PROVE TypeOK
  <2>1. ValidSellConfig(sellConfig) /\ SalesInv(sellConfig, sold) /\ bought \in BoughtType
    BY <1>1, PricingAssumption DEF PricingInv, BuysInv
  <2>2. sold \in [cursor : 0..sellConfig.dailyMaxAmount, portions : 0..MaxPortions,
                  usdt : Nat, burn : 0..sold.cursor]
    BY <2>1, SalesSay
  <2>3. QED
    BY <1>1, <2>1, <2>2 DEF PricingInv, TypeOK, BoughtType
<1>2. QED
  BY <1>1, PricingInvariant, PTL

\* However a day is cut into trades, each unit is paid, charged and burned at
\* the rate of its own cursor, up to the truncation of each chunk
\* (calculateUserSellQuote, calculateMakerBuyQuote), and volume moves the prices
\* one way.
THEOREM UnitsPriced == Spec => []PricedByTheUnit
<1>1. ASSUME PricingInv PROVE PricedByTheUnit
  <2>1. /\ ValidSellConfig(sellConfig) /\ SalesInv(sellConfig, sold)
        /\ ValidMakerConfig(makerConfig) /\ BuysInv(makerConfig, bought)
    BY <1>1, PricingAssumption DEF PricingInv
  <2>2. SellPrices = SellRate(sellConfig) /\ MakerPrices = MakerRate(makerConfig)
    BY DEF SellPrices, SellRate, MakerPrices, MakerRate
  <2>3. PaidByTheUnit
    BY <2>1, <2>2, SalesSay DEF PaidByTheUnit
  <2>4. ChargedByTheUnit
    BY <2>1, <2>2, PurchasesSay DEF ChargedByTheUnit
  <2>5. BurnedByTheTier
    <3>1. Truncated(sold.burn, BurnedOf(sold.cursor, sellConfig), 10000,
                    sold.portions + SellLoop(sold.cursor, 0, sellConfig).iterations)
      BY <2>1, SalesSay
    <3>2. QED
      BY <3>1 DEF BurnedByTheTier, BurnedOf
  <2>6. QED
    BY <1>1, <2>3, <2>4, <2>5, PricesMove DEF PricedByTheUnit
<1>2. QED
  BY <1>1, PricingInvariant, PTL

\* Cutting a trade into portions: against one trade of all of it (the loops of
\* calculateUserSellQuote and calculateMakerBuyQuote), a cut never pays a seller
\* more; each cut costs a seller, or saves a maker, at most one unit of USDT.
THEOREM NoGainFromSplitting == Spec => []SplittingGainsNothing
<1>1. ASSUME PricingInv PROVE SplittingGainsNothing
  <2>1. /\ ValidSellConfig(sellConfig) /\ SalesInv(sellConfig, sold)
        /\ ValidMakerConfig(makerConfig) /\ BuysInv(makerConfig, bought)
    BY <1>1, PricingAssumption DEF PricingInv
  <2>2. /\ SellLoop(sold.cursor, 0, sellConfig).totalUsdt - sold.usdt \in 0..Cuts(sold.portions)
        /\ MakerLoop(bought.cursor, 0, makerConfig).totalUsdt - bought.usdt
             \in 0..Cuts(bought.portions)
    BY <2>1, SalesSay, PurchasesSay
  <2>3. QED
    BY <2>2 DEF SplittingGainsNothing, Cuts
<1>2. QED
  BY <1>1, PricingInvariant, PTL
=============================================================================
