---------------------------- MODULE CounterProofs ----------------------------
(***************************************************************************)
(* The counting of pairs is exact for every number of items and            *)
(* transactions and every width of the counters.                           *)
(*                                                                         *)
(* The three layouts of a triangle, kDCI's, the matrix's and the order its *)
(* walk visits it in, are one: the pair u <= v of R rows is at             *)
(* Place(R, u, v).  Its neighbors are next to it, and no two pairs share a *)
(* place; both are statements about products, proved first.  At the end:   *)
(* the counter's steps run out.                                            *)
(***************************************************************************)
EXTENDS Counter, ItemsetsProofs

-----------------------------------------------------------------------------
(* Triangles.                                                              *)

\* The number of pairs u <= v below n.
Half(n) == (n * (n + 1)) \div 2

Place(R, u, v) == u * R - Half(u) + v

\* n * (n + 1) is even, so nothing is lost in halving it.
LEMMA HalfExact ==
  ASSUME NEW n \in Nat
  PROVE  Half(n) \in Nat /\ 2 * Half(n) = n * (n + 1)
<1>1. PICK m \in Nat : n * (n + 1) = 2 * m
  <2> DEFINE q == n \div 2
  <2>1. q \in Nat /\ (n = 2 * q \/ n = 2 * q + 1)
    OBVIOUS
  <2>2. CASE n = 2 * q
    <3>1. n * (n + 1) = 2 * (q * (n + 1)) /\ q * (n + 1) \in Nat
      BY <2>1, <2>2
    <3> QED
      BY <3>1
  <2>3. CASE n = 2 * q + 1
    <3>1. n + 1 = 2 * (q + 1)
      BY <2>1, <2>3
    <3>2. n * (n + 1) = 2 * (n * (q + 1)) /\ n * (q + 1) \in Nat
      BY <2>1, <3>1
    <3> QED
      BY <3>2
  <2> QED
    BY <2>1, <2>2, <2>3
<1>2. (2 * m) \div 2 = m
  OBVIOUS
<1> QED
  BY <1>1, <1>2 DEF Half

LEMMA HalfNext ==
  ASSUME NEW n \in Nat
  PROVE  Half(n + 1) = Half(n) + n + 1
<1>1. (n + 1) * (n + 2) = n * (n + 1) + 2 * (n + 1)
  OBVIOUS
<1>2. 2 * Half(n + 1) = (n + 1) * (n + 2) /\ 2 * Half(n) = n * (n + 1)
  BY HalfExact
<1>3. Half(n) \in Nat /\ Half(n + 1) \in Nat
  BY HalfExact
<1> QED
  BY <1>1, <1>2, <1>3

LEMMA PlaceType ==
  ASSUME NEW R \in Nat, NEW u \in Nat, NEW v \in Nat
  PROVE  Place(R, u, v) \in Int
BY HalfExact DEF Place

\* Along a row, and from the end of a row to the diagonal of the next, places
\* follow each other.
LEMMA PlaceNext ==
  ASSUME NEW R \in Nat, NEW u \in Nat, NEW v \in Nat
  PROVE  /\ Place(R, u, v + 1) = Place(R, u, v) + 1
         /\ v + 1 = R => Place(R, u + 1, u + 1) = Place(R, u, v) + 1
<1>1. u * R \in Nat /\ Half(u) \in Nat
  BY HalfExact
<1>2. (u + 1) * R = u * R + R
  OBVIOUS
<1> QED
  BY <1>1, <1>2, HalfNext DEF Place

LEMMA PlaceBounds ==
  ASSUME NEW R \in Nat, NEW v \in 0 .. R - 1, NEW u \in 0 .. v
  PROVE  Place(R, u, v) \in 0 .. Half(R) - 1
<1>1. PICK d \in Nat : R = u + d /\ d >= 1 /\ v <= u + d - 1
  <2>1. R - u \in Nat /\ R = u + (R - u) /\ R - u >= 1 /\ v <= u + (R - u) - 1
    OBVIOUS
  <2> QED
    BY <2>1
<1>2. u \in Nat /\ v \in Nat /\ v >= u
  OBVIOUS
<1>3. /\ 2 * Half(u) = u * u + u /\ Half(u) \in Nat
      /\ 2 * Half(R) = R * R + R /\ Half(R) \in Nat
  <2>1. u * (u + 1) = u * u + u /\ R * (R + 1) = R * R + R
    BY <1>2
  <2> QED
    BY <1>2, <2>1, HalfExact
<1>4. u * R = u * u + u * d /\ R * R = u * u + 2 * (u * d) + d * d
  BY <1>1, <1>2
<1>5. u * d >= u /\ d * d >= d /\ u * u >= 0
  <2>1. PICK e \in Nat : d = e + 1
    <3>1. d - 1 \in Nat /\ d = (d - 1) + 1
      BY <1>1
    <3> QED
      BY <3>1
  <2>2. u * d = u * e + u /\ u * e >= 0 /\ d * d = d * e + d /\ d * e >= 0
    BY <1>1, <1>2, <2>1
  <2> QED
    BY <1>1, <1>2, <2>2
<1> DEFINE uu == u * u
           ud == u * d
           dd == d * d
<1>6. uu \in Int /\ ud \in Int /\ dd \in Int
  BY <1>1, <1>2
<1>7. Place(R, u, v) = uu + ud - Half(u) + v
  BY <1>1, <1>2, <1>3, <1>4, <1>6 DEF Place
<1>8. Place(R, u, v) \in Int
  BY <1>6, <1>7, <1>2, <1>3
<1>9. 2 * Place(R, u, v) >= 0 /\ 2 * Place(R, u, v) < 2 * Half(R)
  <2> HIDE DEF uu, ud, dd
  <2>1. 2 * Half(u) = uu + u /\ 2 * Half(R) = uu + 2 * ud + dd + u + d
    BY <1>1, <1>3, <1>4, <1>6 DEF uu, ud, dd
  <2>2. ud >= u /\ dd >= d /\ uu >= 0
    BY <1>5 DEF uu, ud, dd
  <2> QED
    BY <1>1, <1>2, <1>3, <1>6, <1>7, <2>1, <2>2
<1> QED
  BY <1>3, <1>8, <1>9

\* The diagonal's places increase from row to row, by products of distances.
LEMMA DiagonalOrder ==
  ASSUME NEW R \in Nat, NEW b \in 0 .. R, NEW u \in 0 .. b
  PROVE  Place(R, u, u) <= Place(R, b, b)
<1>1. PICK d \in Nat, e \in Nat : b = u + d /\ R = u + d + e
  <2>1. b - u \in Nat /\ R - b \in Nat /\ b = u + (b - u) /\ R = u + (b - u) + (R - b)
    OBVIOUS
  <2> QED
    BY <2>1
<1>2. u \in Nat /\ b \in Nat
  OBVIOUS
<1>3. /\ 2 * Half(u) = u * u + u /\ Half(u) \in Nat
      /\ 2 * Half(b) = b * b + b /\ Half(b) \in Nat
  <2>1. u * (u + 1) = u * u + u /\ b * (b + 1) = b * b + b
    BY <1>2
  <2> QED
    BY <1>2, <2>1, HalfExact
<1> DEFINE uu == u * u
           ud == u * d
           ue == u * e
           dd == d * d
           de == d * e
<1>4. /\ u * R = uu + ud + ue
      /\ b * R = uu + 2 * ud + dd + ue + de
      /\ b * b = uu + 2 * ud + dd
  BY <1>1, <1>2
<1>5. uu \in Nat /\ ud \in Nat /\ ue \in Nat /\ dd \in Nat /\ de \in Nat
  BY <1>1, <1>2
<1>6. dd >= d
  <2>1. CASE d = 0
    BY <2>1, <1>5
  <2>2. CASE d # 0
    <3>1. PICK n \in Nat : d = n + 1
      <4>1. d - 1 \in Nat /\ d = (d - 1) + 1
        BY <1>1, <2>2
      <4> QED
        BY <4>1
    <3>2. d * d = d * n + d /\ d * n >= 0
      BY <1>1, <3>1
    <3> QED
      BY <1>1, <3>1, <3>2
  <2> QED
    BY <2>1, <2>2
<1>7. 2 * Half(u) = uu + u /\ 2 * Half(b) = uu + 2 * ud + dd + b
  BY <1>3, <1>4
<1> HIDE DEF uu, ud, ue, dd, de
<1>8. /\ Place(R, u, u) = uu + ud + ue - Half(u) + u
      /\ Place(R, b, b) = uu + 2 * ud + dd + ue + de - Half(b) + b
  <2>1. Half(u) \in Nat /\ Half(b) \in Nat
    BY <1>3
  <2>2. Place(R, u, u) = uu + ud + ue - Half(u) + u
    BY <1>2, <1>4, <1>5, <2>1 DEF Place
  <2>3. Place(R, b, b) = uu + 2 * ud + dd + ue + de - Half(b) + b
    BY <1>2, <1>4, <1>5, <2>1 DEF Place
  <2> QED
    BY <2>2, <2>3
<1> QED
  BY <1>1, <1>2, <1>3, <1>5, <1>6, <1>7, <1>8

\* A place determines its pair.
LEMMA PlaceInjective ==
  ASSUME NEW R \in Nat, NEW v \in 0 .. R - 1, NEW u \in 0 .. v,
         NEW y \in 0 .. R - 1, NEW x \in 0 .. y,
         Place(R, u, v) = Place(R, x, y)
  PROVE  u = x /\ v = y
<1>1. ASSUME NEW n \in 0 .. R - 1, NEW m \in 0 .. n,
             NEW w \in 0 .. R - 1, NEW z \in 0 .. w, m < z
      PROVE  Place(R, m, n) < Place(R, z, w)
  <2>1. m \in Nat /\ n \in Nat /\ z \in Nat /\ w \in Nat /\ m + 1 \in Nat
    OBVIOUS
  <2>2. /\ Half(m) \in Nat /\ m * R \in Nat
        /\ Half(z) \in Nat /\ z * R \in Nat
    BY <2>1, HalfExact
  <2>3. Place(R, m, n) <= Place(R, m, R - 1)
    BY <2>1, <2>2 DEF Place
  <2>4. Place(R, m + 1, m + 1) = Place(R, m, R - 1) + 1
    BY <2>1, PlaceNext
  <2>5. Place(R, m + 1, m + 1) <= Place(R, z, z)
    <3>1. z \in 0 .. R /\ m + 1 \in 0 .. z
      BY <1>1
    <3> QED
      BY <3>1, DiagonalOrder
  <2>6. Place(R, z, z) <= Place(R, z, w)
    BY <2>1, <2>2 DEF Place
  <2>7. /\ Place(R, m, n) \in Int /\ Place(R, m, R - 1) \in Int
        /\ Place(R, m + 1, m + 1) \in Int /\ Place(R, z, z) \in Int
        /\ Place(R, z, w) \in Int
    BY <2>1, PlaceType
  <2> QED
    BY <2>3, <2>4, <2>5, <2>6, <2>7
<1>2. Place(R, u, v) \in Int
  BY PlaceType
<1>3. ~ u < x
  BY <1>1, <1>2
<1>4. ~ x < u
  BY <1>1, <1>2
<1>5. u = x
  BY <1>3, <1>4
<1>6. u * R \in Int /\ Half(u) \in Int
  BY HalfExact
<1> QED
  BY <1>5, <1>6 DEF Place

-----------------------------------------------------------------------------
(* Sets of numbers.                                                        *)

\* Max chooses the largest number of a bounded set.
LEMMA MaxOfBounded ==
  ASSUME NEW N \in Nat, NEW S \in SUBSET (0 .. N), S # {}
  PROVE  Max(S) \in S /\ \A n \in S : n <= Max(S)
<1> DEFINE Below == {m \in Nat : \E n \in S : m = N - n}
           R == OpToRel(<, Nat)
<1>1. PICK m \in Below : \A n \in Nat : <<n, m>> \in R => n \notin Below
  <2>1. PICK n \in S : TRUE
    OBVIOUS
  <2>2. N - n \in Below
    BY <2>1
  <2>3. Below # {} /\ Below \subseteq Nat
    BY <2>2
  <2>4. IsWellFoundedOn(R, Nat)
    BY NatLessThanWellFounded
  <2> HIDE DEF Below, R
  <2> QED
    BY <2>3, <2>4, WFMin
<1>2. PICK n \in S : m = N - n
  BY <1>1
<1>3. \A l \in S : l <= n
  <2> SUFFICES ASSUME NEW l \in S, l > n
               PROVE  FALSE
    OBVIOUS
  <2>1. N - l \in Below /\ N - l \in Nat /\ m \in Nat /\ N - l < m
    BY <1>2
  <2>2. <<N - l, m>> \in R
    BY <2>1 DEF OpToRel
  <2> QED
    BY <1>1, <2>1, <2>2
<1>4. \E a \in S : \A l \in S : a >= l
  BY <1>3
<1>5. /\ Max(S) \in S
      /\ \A l \in S : Max(S) >= l
  BY <1>4 DEF Max
<1> QED
  BY <1>5

Below(S, n) == {m \in S : m < n}

\* Numbering a set of items from below is a bijection.
LEMMA Ranks ==
  ASSUME NEW S \in SUBSET Item
  PROVE  /\ Cardinality(S) \in Nat
         /\ \A n \in S : Cardinality(Below(S, n)) \in 0 .. Cardinality(S) - 1
         /\ \A n, m \in S :
              n < m => Cardinality(Below(S, n)) < Cardinality(Below(S, m))
         /\ \A u \in 0 .. Cardinality(S) - 1 :
              \E n \in S : Cardinality(Below(S, n)) = u
<1>1. /\ IsFiniteSet(S) /\ Cardinality(S) \in Nat
      /\ \A n : IsFiniteSet(Below(S, n)) /\ Cardinality(Below(S, n)) \in Nat
  BY FiniteSets DEF Below
<1>2. S \subseteq Nat
  BY SizesAssumption DEF Item
<1>3. ASSUME NEW T, NEW U \in SUBSET T, NEW n \in T, n \notin U, IsFiniteSet(T)
      PROVE  Cardinality(U) < Cardinality(T)
  <2>1. Cardinality(U) <= Cardinality(T)
        /\ (Cardinality(T) = Cardinality(U) => T = U) /\ IsFiniteSet(U)
    BY <1>3, FS_Subset
  <2>2. Cardinality(T) \in Nat /\ Cardinality(U) \in Nat
    BY <1>3, <2>1, FS_CardinalityType
  <2> QED
    BY <1>3, <2>1, <2>2
<1>4. \A n \in S : Cardinality(Below(S, n)) \in 0 .. Cardinality(S) - 1
  <2> TAKE n \in S
  <2>1. Below(S, n) \in SUBSET S /\ n \notin Below(S, n)
    BY <1>2 DEF Below
  <2>2. Cardinality(Below(S, n)) < Cardinality(S)
    BY <1>1, <1>3, <2>1
  <2> QED
    BY <1>1, <2>2
<1>5. \A n, m \in S : n < m => Cardinality(Below(S, n)) < Cardinality(Below(S, m))
  <2> SUFFICES ASSUME NEW n \in S, NEW m \in S, n < m
               PROVE  Cardinality(Below(S, n)) < Cardinality(Below(S, m))
    OBVIOUS
  <2>1. n \in Nat /\ m \in Nat /\ \A l \in S : l < n => l < m
    BY <1>2
  <2>2. n \in Below(S, m) /\ n \notin Below(S, n)
    BY <2>1 DEF Below
  <2>3. Below(S, n) \in SUBSET Below(S, m)
    BY <2>1 DEF Below
  <2> QED
    BY <1>1, <1>3, <2>2, <2>3
<1>6. \A u \in 0 .. Cardinality(S) - 1 : \E n \in S : Cardinality(Below(S, n)) = u
  <2> DEFINE T == 0 .. Cardinality(S) - 1
             f == [n \in S |-> Cardinality(Below(S, n))]
  <2>1. IsFiniteSet(T) /\ Cardinality(T) = Cardinality(S)
    <3>1. Cardinality(S) \in Nat
      BY <1>1
    <3> DEFINE c == Cardinality(S)
    <3>2. c \in Nat /\ 0 \in Int /\ c - 1 \in Int
      BY <3>1
    <3> HIDE DEF c
    <3>3. /\ IsFiniteSet(0 .. c - 1)
          /\ Cardinality(0 .. c - 1) = IF 0 > c - 1 THEN 0 ELSE c - 1 - 0 + 1
      BY <3>2, FS_Interval
    <3>4. (IF 0 > c - 1 THEN 0 ELSE c - 1 - 0 + 1) = c
      BY <3>2
    <3> QED
      BY <3>3, <3>4 DEF c
  <2>2. f \in [S -> T]
    BY <1>4
  <2>3. \A n, m \in S : f[n] = f[m] => n = m
    <3> SUFFICES ASSUME NEW n \in S, NEW m \in S, f[n] = f[m]
                 PROVE  n = m
      OBVIOUS
    <3>1. /\ n \in Nat /\ m \in Nat
          /\ Cardinality(Below(S, n)) = Cardinality(Below(S, m))
          /\ Cardinality(Below(S, n)) \in Nat
      BY <1>1, <1>2
    <3>2. ~ n < m /\ ~ m < n
      BY <1>5, <3>1
    <3> QED
      BY <3>1, <3>2
  <2>4. f \in Injection(S, T)
    BY <2>2, <2>3 DEF Injection, IsInjective
  <2>5. f \in Surjection(S, T)
    BY <2>1, <2>4, FS_Injection
  <2>6. \A u \in T : \E n \in S : f[n] = u
    BY <2>5 DEF Surjection
  <2> QED
    BY <2>6
<1> QED
  BY <1>1, <1>4, <1>5, <1>6

-----------------------------------------------------------------------------
(* The counter's layouts are this one.                                     *)

LEMMA PositionPlace ==
  ASSUME m1 \in Nat, NEW y \in 0 .. m1 - 1, NEW x \in 0 .. y - 1
  PROVE  /\ m1 - 1 \in Nat /\ y - 1 \in 0 .. (m1 - 1) - 1 /\ x \in 0 .. y - 1
         /\ Position(x, y) = Place(m1 - 1, x, y - 1)
         /\ Position(x, y) \in 0 .. (m1 * (m1 - 1)) \div 2 - 1
<1> DEFINE R == m1 - 1
<1>1. R \in Nat /\ y - 1 \in 0 .. R - 1 /\ x \in 0 .. y - 1 /\ x \in Nat /\ y \in Nat
  OBVIOUS
<1>2. Half(x) \in Nat /\ x * R \in Nat
  BY <1>1, HalfExact
<1>3. Position(x, y) = x * R - Half(x) + y - 1
  BY DEF Position, Half
<1>4. Position(x, y) = Place(R, x, y - 1)
  <2> HIDE DEF R
  <2> QED
    BY <1>1, <1>2, <1>3 DEF Place
<1>5. (m1 * (m1 - 1)) \div 2 = Half(R)
  <2>1. m1 * (m1 - 1) = R * (R + 1)
    BY <1>1
  <2> QED
    BY <2>1 DEF Half
<1>6. Place(R, x, y - 1) \in 0 .. Half(R) - 1
  BY <1>1, PlaceBounds
<1> QED
  BY <1>1, <1>4, <1>5, <1>6

\* kDCI's formula gives no two pairs one counter.
LEMMA PositionInjective ==
  ASSUME m1 \in Nat, NEW y \in 0 .. m1 - 1, NEW x \in 0 .. y - 1,
         NEW w \in 0 .. m1 - 1, NEW z \in 0 .. w - 1,
         Position(x, y) = Position(z, w)
  PROVE  x = z /\ y = w
<1>1. /\ m1 - 1 \in Nat
      /\ y - 1 \in 0 .. (m1 - 1) - 1 /\ x \in 0 .. y - 1
      /\ Position(x, y) = Place(m1 - 1, x, y - 1)
  BY PositionPlace
<1>2. /\ w - 1 \in 0 .. (m1 - 1) - 1 /\ z \in 0 .. w - 1
      /\ Position(z, w) = Place(m1 - 1, z, w - 1)
  BY PositionPlace
<1>3. Place(m1 - 1, x, y - 1) = Place(m1 - 1, z, w - 1)
  BY <1>1, <1>2
<1>4. x = z /\ y - 1 = w - 1
  BY <1>1, <1>2, <1>3, PlaceInjective
<1> QED
  BY <1>4

\* The loops over i and j read the counters one after the other.
LEMMA PositionNext ==
  ASSUME m1 \in Nat, NEW y \in 0 .. m1 - 1, NEW x \in 0 .. y - 1
  PROVE  /\ y < m1 - 1 => Position(x, y + 1) = Position(x, y) + 1
         /\ y = m1 - 1 /\ x < m1 - 2 => Position(x + 1, x + 2) = Position(x, y) + 1
<1>1. m1 - 1 \in Nat /\ x \in Nat /\ y \in Nat /\ y - 1 \in Nat
  OBVIOUS
<1>2. Position(x, y) = Place(m1 - 1, x, y - 1)
  BY PositionPlace
<1>3. /\ Place(m1 - 1, x, (y - 1) + 1) = Place(m1 - 1, x, y - 1) + 1
      /\ (y - 1) + 1 = m1 - 1 =>
           Place(m1 - 1, x + 1, x + 1) = Place(m1 - 1, x, y - 1) + 1
  BY <1>1, PlaceNext
<1>4. ASSUME y < m1 - 1
      PROVE  Position(x, y + 1) = Position(x, y) + 1
  <2>1. y + 1 \in 0 .. m1 - 1 /\ x \in 0 .. (y + 1) - 1 /\ (y + 1) - 1 = (y - 1) + 1
    BY <1>1, <1>4
  <2>2. Position(x, y + 1) = Place(m1 - 1, x, (y + 1) - 1)
    BY <2>1, PositionPlace
  <2> QED
    BY <1>2, <1>3, <2>1, <2>2
<1>5. ASSUME y = m1 - 1, x < m1 - 2
      PROVE  Position(x + 1, x + 2) = Position(x, y) + 1
  <2>1. x + 2 \in 0 .. m1 - 1 /\ x + 1 \in 0 .. (x + 2) - 1 /\ (x + 2) - 1 = x + 1
    BY <1>1, <1>5
  <2>2. Position(x + 1, x + 2) = Place(m1 - 1, x + 1, (x + 2) - 1)
    BY <2>1, PositionPlace
  <2>3. (y - 1) + 1 = m1 - 1
    BY <1>1, <1>5
  <2> QED
    BY <1>2, <1>3, <2>1, <2>2, <2>3
<1> QED
  BY <1>4, <1>5

LEMMA EltPlace ==
  ASSUME Rows \in Nat, NEW v \in Nat, NEW u \in 0 .. Rows
  PROVE  /\ Elt(u, v) = Place(Rows, u, v)
         /\ Matrix = 0 .. Half(Rows) - 1
<1> DEFINE R == Rows
           d == R - u
<1>1. R \in Nat /\ u \in Nat /\ d \in Nat /\ R = u + d
  OBVIOUS
<1>2. /\ Half(R) \in Nat /\ 2 * Half(R) = R * (R + 1)
      /\ Half(d) \in Nat /\ 2 * Half(d) = d * (d + 1)
      /\ Half(u) \in Nat /\ 2 * Half(u) = u * (u + 1)
  BY <1>1, HalfExact
<1>3. Elt(u, v) = (2 * Half(R) - 2 * Half(d)) \div 2 + v - u
  BY <1>2 DEF Elt
<1>4. (2 * Half(R) - 2 * Half(d)) \div 2 = Half(R) - Half(d)
  <2>1. 2 * Half(R) - 2 * Half(d) = 2 * (Half(R) - Half(d))
    BY <1>2
  <2>2. \A a \in Int : (2 * a) \div 2 = a
    OBVIOUS
  <2> QED
    BY <1>2, <2>1, <2>2
<1>5. Half(R) - Half(d) - u = u * R - Half(u)
  <2> DEFINE uu == u * u
             ud == u * d
             dd == d * d
  <2>1. uu \in Int /\ ud \in Int /\ dd \in Int
    BY <1>1
  <2>2. /\ u * R = uu + ud
        /\ R * (R + 1) = uu + 2 * ud + dd + u + d
        /\ d * (d + 1) = dd + d
        /\ u * (u + 1) = uu + u
    <3> HIDE DEF R, d
    <3> QED
      BY <1>1
  <2> HIDE DEF uu, ud, dd, R, d
  <2> QED
    BY <1>1, <1>2, <2>1, <2>2
<1>6. Elt(u, v) = Place(Rows, u, v)
  <2>1. u * R \in Int
    BY <1>1
  <2> QED
    BY <1>1, <1>2, <1>3, <1>4, <1>5, <2>1 DEF Place
<1> QED
  BY <1>6 DEF Matrix, Half

\* The matrix has a place of its own for each pair of rows.
LEMMA CellInjective ==
  ASSUME Rows \in Nat,
         NEW u \in 0 .. Rows - 1, NEW v \in 0 .. Rows - 1,
         NEW x \in 0 .. Rows - 1, NEW y \in 0 .. Rows - 1
  PROVE  /\ CellOf(u, v) \in Matrix
         /\ CellOf(u, v) = CellOf(v, u)
         /\ CellOf(u, v) = CellOf(x, y) =>
              (u = x /\ v = y) \/ (u = y /\ v = x)
<1>1. ASSUME NEW a \in 0 .. Rows - 1, NEW b \in 0 .. Rows - 1
      PROVE  \E m \in {a, b}, n \in {a, b} :
               /\ m <= n /\ {m, n} = {a, b}
               /\ CellOf(a, b) = Place(Rows, m, n)
               /\ CellOf(b, a) = Place(Rows, m, n)
               /\ Place(Rows, m, n) \in Matrix
  <2>1. CASE a > b
    <3>1. Elt(b, a) = Place(Rows, b, a) /\ Matrix = 0 .. Half(Rows) - 1
      BY <1>1, EltPlace
    <3>2. Place(Rows, b, a) \in 0 .. Half(Rows) - 1
      BY <1>1, <2>1, PlaceBounds
    <3>3. CellOf(a, b) = Elt(b, a) /\ CellOf(b, a) = Elt(b, a)
      BY <1>1, <2>1 DEF CellOf
    <3> QED
      BY <1>1, <2>1, <3>1, <3>2, <3>3
  <2>2. CASE ~ a > b
    <3>1. Elt(a, b) = Place(Rows, a, b) /\ Matrix = 0 .. Half(Rows) - 1
      BY <1>1, EltPlace
    <3>2. a \in 0 .. b
      BY <1>1, <2>2
    <3>3. Place(Rows, a, b) \in 0 .. Half(Rows) - 1
      BY <1>1, <3>2, PlaceBounds
    <3>4. CellOf(a, b) = Elt(a, b) /\ CellOf(b, a) = Elt(a, b)
      <4>1. b > a \/ a = b
        BY <1>1, <2>2
      <4> QED
        BY <2>2, <4>1 DEF CellOf
    <3>5. a <= b
      BY <1>1, <2>2
    <3> QED
      BY <1>1, <3>1, <3>3, <3>4, <3>5
  <2> QED
    BY <2>1, <2>2
<1>2. PICK m \in {u, v}, n \in {u, v} :
        /\ m <= n /\ {m, n} = {u, v}
        /\ CellOf(u, v) = Place(Rows, m, n)
        /\ CellOf(v, u) = Place(Rows, m, n)
        /\ Place(Rows, m, n) \in Matrix
  BY <1>1
<1>3. PICK z \in {x, y}, w \in {x, y} :
        /\ z <= w /\ {z, w} = {x, y}
        /\ CellOf(x, y) = Place(Rows, z, w)
  BY <1>1
<1>4. ASSUME CellOf(u, v) = CellOf(x, y)
      PROVE  {u, v} = {x, y}
  <2>1. n \in 0 .. Rows - 1 /\ m \in 0 .. n /\ w \in 0 .. Rows - 1 /\ z \in 0 .. w
    BY <1>2, <1>3
  <2>2. Place(Rows, m, n) = Place(Rows, z, w)
    BY <1>2, <1>3, <1>4
  <2>3. m = z /\ n = w
    BY <2>1, <2>2, PlaceInjective
  <2> QED
    BY <1>2, <1>3, <2>3
<1> QED
  BY <1>2, <1>4

-----------------------------------------------------------------------------
(* Counts.                                                                 *)

\* What the counter of a pair should hold grows as the transactions are read,
\* up to the pair's support, which is at most that of either item.
LEMMA PairCounts ==
  ASSUME NEW a, NEW b
  PROVE  /\ \A n : PairCount(db, n, a, b) \in Nat
         /\ PairCount(db, 0, a, b) = 0
         /\ PairCount(db, NumTxn, a, b) = Support(db, {a, b})
         /\ \A n : PairCount(db, n, a, b) <= Support(db, {a, b})
         /\ \A n \in Tid :
              PairCount(db, n + 1, a, b) =
                IF {a, b} \subseteq db[n]
                THEN PairCount(db, n, a, b) + 1
                ELSE PairCount(db, n, a, b)
         /\ Support(db, {a, b}) \in 0 .. NumTxn
         /\ Support(db, {a, b}) <= Count(db, a)
<1> DEFINE Before(n) == {t \in Tid : t < n /\ {a, b} \subseteq db[t]}
<1>1. \A n : Before(n) \in SUBSET Tidset(db, {a, b})
  BY DEF Tidset
<1>2. IsFiniteSet(Tidset(db, {a, b})) /\ Tidset(db, {a, b}) \in SUBSET Tid
  BY FiniteSets DEF Tidset
<1>3. \A n : /\ IsFiniteSet(Before(n))
             /\ Cardinality(Before(n)) \in Nat
             /\ Cardinality(Before(n)) <= Support(db, {a, b})
  BY <1>1, <1>2, FS_Subset, FS_CardinalityType DEF Support
<1>4. Before(0) = {}
  BY SizesAssumption DEF Tid
<1>5. Before(NumTxn) = Tidset(db, {a, b})
  BY SizesAssumption DEF Tid, Tidset
<1>6. ASSUME NEW n \in Tid
      PROVE  Cardinality(Before(n + 1)) =
               IF {a, b} \subseteq db[n]
               THEN Cardinality(Before(n)) + 1
               ELSE Cardinality(Before(n))
  <2>1. \A t \in Tid : t < n + 1 <=> t < n \/ t = n
    BY <1>6, SizesAssumption DEF Tid
  <2>2. n \notin Before(n)
    BY <1>6, SizesAssumption DEF Tid
  <2>3. CASE {a, b} \subseteq db[n]
    <3>1. Before(n + 1) = Before(n) \cup {n}
      BY <1>6, <2>1, <2>3
    <3> HIDE DEF Before
    <3> QED
      BY <1>3, <2>2, <2>3, <3>1, FS_AddElement
  <2>4. CASE ~ {a, b} \subseteq db[n]
    <3>1. Before(n + 1) = Before(n)
      BY <1>6, <2>1, <2>4
    <3> QED
      BY <2>4, <3>1
  <2> QED
    BY <2>3, <2>4
<1>7. Support(db, {a, b}) <= Count(db, a)
  BY SupportAntitone DEF Count
<1>8. Support(db, {a, b}) \in 0 .. NumTxn
  <2>1. IsFiniteSet(Tid) /\ Cardinality(Tid) = NumTxn
    <3>1. 0 \in Int /\ NumTxn - 1 \in Int
      BY SizesAssumption
    <3> QED
      BY <3>1, SizesAssumption, FS_Interval DEF Tid
  <2>2. Cardinality(Tidset(db, {a, b})) <= Cardinality(Tid)
    BY <1>2, <2>1, FS_Subset
  <2> QED
    BY <2>1, <2>2, SupportType, SizesAssumption DEF Support
<1>9. \A n : PairCount(db, n, a, b) = Cardinality(Before(n))
  BY DEF PairCount
<1>10. Cardinality(Before(0)) = 0
  BY <1>4, FS_EmptySet
<1>11. Cardinality(Before(NumTxn)) = Support(db, {a, b})
  BY <1>5 DEF Support
<1> HIDE DEF Before
<1> QED
  BY <1>3, <1>6, <1>7, <1>8, <1>9, <1>10, <1>11

\* A type chosen for n has room for n.
LEMMA WidthRoom ==
  ASSUME NEW n \in Nat, n < Word
  PROVE  Width(n) \in Nat /\ n < Width(n)
BY CounterAssumption DEF Width

-----------------------------------------------------------------------------
(* The numberings.                                                         *)

\* kDCI's numbers.
LEMMA NumberingFacts ==
  ASSUME CountInv, pc # "items"
  PROVE  /\ m1 \in Nat /\ m1 <= NumItems /\ DOMAIN unmap = 0 .. m1 - 1
         /\ \A x \in DOMAIN unmap :
              /\ unmap[x] \in DOMAIN count /\ unmap[x] \in Item
              /\ count[unmap[x]] >= min_count
              /\ Count(db, unmap[x]) <= max_support
         /\ \A x, y \in DOMAIN unmap : unmap[x] = unmap[y] => x = y
         /\ \A a \in DOMAIN count :
              count[a] >= min_count => \E x \in DOMAIN unmap : unmap[x] = a
         /\ DOMAIN count = 0 .. num_items - 1 /\ DOMAIN count \subseteq Item
         /\ \A a \in DOMAIN count : count[a] = Count(db, a) /\ count[a] \in Nat
<1>1. /\ m1 \in 0 .. NumItems /\ DOMAIN unmap = 0 .. m1 - 1
      /\ \A x, y \in DOMAIN unmap : unmap[x] = unmap[y] => x = y
      /\ Range(unmap) = Numbered
      /\ \A x \in Numbered : count[x] <= max_support
      /\ count = [x \in 0 .. num_items - 1 |-> Count(db, x)]
  BY DEF CountInv, ItemsInv
<1>2. num_items \in 0 .. NumItems
  BY DEF CountInv, TypeOK
<1>3. DOMAIN count = 0 .. num_items - 1 /\ DOMAIN count \subseteq Item
  BY <1>1, <1>2, SizesAssumption DEF Item
<1>4. \A a \in DOMAIN count : count[a] = Count(db, a) /\ count[a] \in Nat
  BY <1>1, <1>3, SupportType DEF Count
<1>5. \A x \in DOMAIN unmap : unmap[x] \in Numbered
  BY <1>1 DEF Range
<1>6. \A a \in Numbered : \E x \in DOMAIN unmap : unmap[x] = a
  BY <1>1 DEF Range
<1> QED
  BY <1>1, <1>3, <1>4, <1>5, <1>6, SizesAssumption DEF Numbered

\* The rows of the matrix, one for each frequent item.
LEMMA RowFacts ==
  ASSUME CountInv, pc \notin {"items", "large"}
  PROVE  /\ Rows \in Nat /\ F \subseteq DOMAIN count /\ F \subseteq Item
         /\ F # {} => Rows >= 1
         /\ Pairwise =>
              /\ \A a \in F : item_f[a] \in 0 .. Rows - 1
              /\ \A a, b \in F : item_f[a] = item_f[b] => a = b
              /\ \A u \in 0 .. Rows - 1 : \E a \in F : item_f[a] = u
              /\ \A a \in DOMAIN count \ F : item_f[a] = -100
<1>1. F = {x \in DOMAIN count : count[x] >= support}
  BY DEF CountInv, LargeInv
<1>2. F \subseteq DOMAIN count /\ F \in SUBSET Item
  BY <1>1, NumberingFacts
<1>3. Rows \in Nat /\ IsFiniteSet(F)
  BY <1>2, FiniteSets DEF Rows
<1>4. F # {} => Rows >= 1
  BY <1>3, FS_EmptySet DEF Rows
<1>5. ASSUME Pairwise
      PROVE  /\ \A a \in F : item_f[a] = Cardinality(Below(F, a))
             /\ \A a \in DOMAIN count \ F : item_f[a] = -100
  <2>1. item_f = [x \in DOMAIN count |->
                    IF x \in F THEN Cardinality({y \in F : y < x}) ELSE -100]
    BY <1>5 DEF CountInv, MapInv
  <2> QED
    BY <1>2, <2>1 DEF Below
<1>6. /\ \A a \in F : Cardinality(Below(F, a)) \in 0 .. Rows - 1
      /\ \A a, b \in F :
           a < b => Cardinality(Below(F, a)) < Cardinality(Below(F, b))
      /\ \A u \in 0 .. Rows - 1 : \E a \in F : Cardinality(Below(F, a)) = u
  BY <1>2, Ranks DEF Rows
<1>7. \A a, b \in F : Cardinality(Below(F, a)) = Cardinality(Below(F, b)) => a = b
  <2> SUFFICES ASSUME NEW a \in F, NEW b \in F,
                      Cardinality(Below(F, a)) = Cardinality(Below(F, b))
               PROVE  a = b
    OBVIOUS
  <2>1. a \in Int /\ b \in Int /\ Cardinality(Below(F, a)) \in Int
    BY <1>2, <1>6 DEF Item
  <2>2. ~ a < b /\ ~ b < a
    BY <1>6, <2>1
  <2> QED
    BY <2>1, <2>2
<1> QED
  BY <1>2, <1>3, <1>4, <1>5, <1>6, <1>7

LEMMA CellIsCellOf ==
  ASSUME NEW a, NEW b
  PROVE  Cell(a, b) = CellOf(item_f[a], item_f[b])
BY DEF Cell, CellOf

\* Frequent items have numbers, and at least two of them two numbers.
LEMMA FrequentNumbered ==
  ASSUME CountInv, pc \notin {"items", "large"}, support > 0, NEW a \in F
  PROVE  \E x \in DOMAIN unmap : unmap[x] = a
<1>1. a \in DOMAIN count /\ count[a] >= support /\ count[a] \in Nat
  BY RowFacts, NumberingFacts DEF CountInv, LargeInv
<1>2. support \in Int
  BY DEF CountInv, TypeOK
<1>3. count[a] >= min_count
  BY <1>1, <1>2 DEF min_count
<1> QED
  BY <1>1, <1>3, NumberingFacts

-----------------------------------------------------------------------------
(* The invariant, action by action.                                        *)

LEMMA InitInvariant == Init => CountInv
<1> SUFFICES ASSUME Init PROVE CountInv
  OBVIOUS
<1>1. DOMAIN << >> = {}
  OBVIOUS
<1>2. support \in Int /\ (relative = FALSE => support > 0)
  <2>1. \/ support \in Supports
        \/ relative = TRUE /\ support \in Unset
    BY DEF Init
  <2>2. CASE support \in Supports
    BY <2>2, CounterAssumption
  <2>3. CASE relative = TRUE /\ support \in Unset
    BY <2>3, CounterAssumption
  <2> QED
    BY <2>1, <2>2, <2>3
<1> USE DEF Init
<1>3. TypeOK
  <2>1. Range(unmap) = {}
    BY <1>1 DEF Range
  <2>2. 0 .. 0 - 1 = {}
    OBVIOUS
  <2> QED
    BY <1>1, <1>2, <2>1, <2>2, SizesAssumption DEF TypeOK
<1>4. ItemsInv /\ MapInv /\ ScanInv /\ CopyInv /\ MatrixInv /\ WalkInv /\ ListsInv
  BY DEF ItemsInv, MapInv, ScanInv, CopyInv, MatrixInv, WalkInv, ListsInv, Pairwise
<1>5. LargeInv
  BY <1>2 DEF LargeInv, Pairwise, loops
<1>6. CountersExact
  BY DEF CountersExact
<1> QED
  BY <1>3, <1>4, <1>5, <1>6 DEF CountInv

LEMMA CountItemsStep ==
  ASSUME CountInv, CountItems
  PROVE  CountInv'
<1> DEFINE S == {x + 1 : x \in UNION Range(db)} \cup {0}
           counted == {x \in 0 .. num_items' - 1 : count'[x] >= min_count}
           C == {count'[x] : x \in counted} \cup {0}
<1>1. /\ pc = "items" /\ pc' = "large"
      /\ num_items' = Max(S)
      /\ count' = [x \in 0 .. num_items' - 1 |-> Count(db, x)]
      /\ unmap' \in Numberings(counted, count')
      /\ max_support' = Max(C)
      /\ db' = db /\ relative' = relative /\ support' = support /\ F' = F
      /\ tid' = tid /\ buf' = buf /\ F2' = F2
      /\ loops' = loops
  BY DEF CountItems, inputs
<1>2. TypeOK /\ LargeInv /\ ~ Pairwise /\ ~ Pairwise' /\ F = {}
  BY <1>1 DEF CountInv, LargeInv, Pairwise
<1>3. db \in Database
  BY <1>2, CounterAssumption DEF TypeOK
<1>4. S \in SUBSET (0 .. NumItems) /\ S # {}
  <2>1. ASSUME NEW x \in UNION Range(db)
        PROVE  x + 1 \in 0 .. NumItems
    <3>1. PICK t \in DOMAIN db : x \in db[t]
      BY <2>1 DEF Range
    <3>2. x \in Item
      BY <1>3, <3>1 DEF Database
    <3> QED
      BY <3>2, SizesAssumption DEF Item
  <2> QED
    BY <2>1, SizesAssumption
<1>5. num_items' \in 0 .. NumItems /\ \A n \in S : n <= num_items'
  <2> HIDE DEF S
  <2> QED
    BY <1>1, <1>4, MaxOfBounded, SizesAssumption
<1>6. \A x \in Item : Count(db, x) > 0 => x < num_items'
  <2> SUFFICES ASSUME NEW x \in Item, Count(db, x) > 0
               PROVE  x < num_items'
    OBVIOUS
  <2>1. Tidset(db, {x}) # {}
    BY FS_EmptySet DEF Count, Support
  <2>2. PICK t \in Tid : {x} \subseteq db[t]
    BY <2>1 DEF Tidset
  <2>3. x \in UNION Range(db)
    BY <1>3, <2>2 DEF Database, Range
  <2>4. x + 1 \in S
    BY <2>3
  <2>5. x + 1 <= num_items'
    BY <1>5, <2>4
  <2> QED
    BY <1>5, <2>5, SizesAssumption DEF Item
<1>7. \A x \in 0 .. num_items' - 1 :
        count'[x] = Count(db, x) /\ count'[x] \in 0 .. NumTxn
  <2>1. \A x : Count(db, x) \in 0 .. NumTxn
    <3> TAKE x
    <3>1. {x, x} = {x}
      OBVIOUS
    <3> QED
      BY <3>1, PairCounts DEF Count
  <2> QED
    BY <1>1, <2>1
<1>8. counted \in SUBSET Item /\ IsFiniteSet(counted) /\ Cardinality(counted) \in 0 .. NumItems
  <2>1. counted \in SUBSET Item
    BY <1>5, SizesAssumption DEF Item
  <2>2. IsFiniteSet(Item) /\ Cardinality(Item) = NumItems
    <3>1. 0 \in Int /\ NumItems - 1 \in Int
      BY SizesAssumption
    <3> QED
      BY <3>1, SizesAssumption, FS_Interval DEF Item
  <2>3. Cardinality(counted) <= NumItems /\ IsFiniteSet(counted)
    BY <2>1, <2>2, FS_Subset
  <2> QED
    BY <2>1, <2>3, FS_CardinalityType, SizesAssumption
<1>9. C \in SUBSET (0 .. NumTxn) /\ C # {}
  BY <1>7, SizesAssumption
<1>10. max_support' \in 0 .. NumTxn /\ \A x \in counted : count'[x] <= max_support'
  <2>1. \A x \in counted : count'[x] \in C
    OBVIOUS
  <2> HIDE DEF C
  <2>2. max_support' \in C /\ \A n \in C : n <= max_support'
    BY <1>1, <1>9, MaxOfBounded, SizesAssumption
  <2> QED
    BY <1>9, <2>1, <2>2
<1> DEFINE n == Cardinality(counted)
<1>11. /\ unmap' \in [0 .. n - 1 -> counted]
       /\ \A x, y \in 0 .. n - 1 : unmap'[x] = unmap'[y] => x = y
  <2>1. /\ unmap' \in [0 .. n - 1 -> counted]
        /\ \A x, y \in DOMAIN unmap' : x < y => unmap'[x] # unmap'[y]
    BY <1>1 DEF Numberings
  <2>2. \A x, y \in 0 .. n - 1 : x < y \/ y < x \/ x = y
    BY <1>8
  <2> HIDE DEF counted, n
  <2> QED
    BY <2>1, <2>2
<1>12. IsFiniteSet(0 .. n - 1) /\ Cardinality(0 .. n - 1) = n
  <2>1. n \in Nat
    BY <1>8, SizesAssumption
  <2> HIDE DEF n
  <2> QED
    BY <2>1, FS_Interval
<1>13. \A a \in counted : \E x \in 0 .. n - 1 : unmap'[x] = a
  <2>1. unmap' \in Injection(0 .. n - 1, counted)
    BY <1>11 DEF Injection, IsInjective
  <2>2. unmap' \in Surjection(0 .. n - 1, counted)
    BY <1>8, <1>12, <2>1, FS_Injection
  <2> QED
    BY <2>2 DEF Surjection
<1>14. DOMAIN unmap' = 0 .. n - 1 /\ m1' = n
  BY <1>11, <1>12 DEF m1
<1>15. Range(unmap') = counted
  BY <1>11, <1>13 DEF Range
<1>16. Numbered' = counted
  BY <1>1 DEF Numbered, min_count
<1>17. ItemsInv'
  <2>1. n \in 0 .. NumItems
    BY <1>8
  <2> HIDE DEF counted, n
  <2> QED
    BY <1>1, <1>6, <1>10, <1>11, <1>14, <1>15, <1>16, <2>1 DEF ItemsInv
<1>18. TypeOK'
  <2>1. DOMAIN count' = 0 .. num_items' - 1
    BY <1>1
  <2>2. Range(unmap') \subseteq DOMAIN count'
    BY <1>15, <2>1
  <2>3. DOMAIN buf' = {} /\ DOMAIN F2' = {}
    BY <1>1, <1>2 DEF LargeInv
  <2>4. tid' = 0 /\ pc' = "large"
    BY <1>1, <1>2 DEF LargeInv
  <2> QED
    BY <1>1, <1>2, <1>5, <1>10, <2>1, <2>2, <2>3, <2>4, SizesAssumption DEF TypeOK
<1>19. LargeInv'
  BY <1>1, <1>2 DEF LargeInv
<1>20. /\ MapInv' /\ ScanInv' /\ CopyInv' /\ MatrixInv' /\ WalkInv' /\ ListsInv'
       /\ CountersExact'
  BY <1>1, <1>2 DEF MapInv, ScanInv, CopyInv, MatrixInv, WalkInv, ListsInv,
     CountersExact
<1> QED
  BY <1>17, <1>18, <1>19, <1>20 DEF CountInv

\* The frequent items alone: nothing of the pairs has been set up.
LEMMA LargeItemsStep ==
  ASSUME CountInv, LargeItems
  PROVE  CountInv'
<1>1. /\ pc = "large"
      /\ F' = F \cup {x \in 0 .. num_items - 1 : count[x] >= support}
      /\ pc' = IF level = 2 /\ F' # {} THEN "map" ELSE "done"
      /\ UNCHANGED <<inputs, items, item_f, tid, buf, two_items, loops, F2>>
  BY DEF LargeItems
<1>2. /\ TypeOK /\ ItemsInv /\ LargeInv /\ ~ Pairwise /\ ~ Pairwise' /\ F = {}
      /\ pc' \in {"map", "done"} /\ (pc' = "map" => level' = 2 /\ F' # {})
  BY <1>1 DEF CountInv, LargeInv, Pairwise, inputs
<1>3. DOMAIN count = 0 .. num_items - 1
  BY <1>1, NumberingFacts
<1>4. F' = {x \in DOMAIN count : count[x] >= support}
  BY <1>1, <1>2, <1>3
<1>5. buf' = << >> /\ F2' = << >> /\ DOMAIN << >> = {}
  BY <1>1, <1>2 DEF LargeInv
<1>6. TypeOK'
  BY <1>1, <1>2, <1>4, <1>5 DEF TypeOK, inputs, items, loops
<1>7. ItemsInv'
  BY <1>1, <1>2 DEF ItemsInv, inputs, items, m1, Numbered, min_count
<1>8. LargeInv'
  BY <1>1, <1>2, <1>4, <1>5 DEF LargeInv, inputs, items, loops
<1>9. /\ MapInv' /\ ScanInv' /\ CopyInv' /\ MatrixInv' /\ WalkInv' /\ ListsInv'
      /\ CountersExact'
  BY <1>1, <1>2 DEF MapInv, ScanInv, CopyInv, MatrixInv, WalkInv, ListsInv,
     CountersExact
<1> QED
  BY <1>6, <1>7, <1>8, <1>9 DEF CountInv

\* The invariants of the items need no more than that these are unchanged.
LEMMA ItemsKept ==
  ASSUME CountInv, UNCHANGED <<inputs, items, F>>,
         pc \in {"map", "pairs", "copy", "prune"},
         pc' \in {"pairs", "copy", "prune", "done"}
  PROVE  /\ ItemsInv' /\ LargeInv' /\ Pairwise'
         /\ m1' = m1 /\ Rows' = Rows /\ Matrix' = Matrix
         /\ CounterWidth' = CounterWidth
         /\ \A x, y : Position(x, y)' = Position(x, y)
         /\ \A u, v : Elt(u, v)' = Elt(u, v) /\ CellOf(u, v)' = CellOf(u, v)
<1> USE DEF inputs, items
<1>1. m1' = m1 /\ Rows' = Rows /\ CounterWidth' = CounterWidth /\ Numbered' = Numbered
  BY DEF m1, Rows, CounterWidth, Numbered, min_count
<1>2. ItemsInv'
  BY <1>1 DEF CountInv, ItemsInv
<1>3. level = 2 /\ F # {} /\ Pairwise'
  BY DEF Pairwise, CountInv, LargeInv
<1>4. LargeInv'
  BY <1>3 DEF CountInv, LargeInv
<1>5. Matrix' = Matrix
  BY <1>1 DEF Matrix
<1>6. \A x, y : Position(x, y)' = Position(x, y)
  BY <1>1 DEF Position
<1>7. \A u, v : Elt(u, v)' = Elt(u, v)
  BY <1>1 DEF Elt
<1>8. \A u, v : CellOf(u, v)' = CellOf(u, v)
  BY <1>7 DEF CellOf
<1> QED
  BY <1>1, <1>2, <1>3, <1>4, <1>5, <1>6, <1>7, <1>8

\* At the walk's first place no list has an entry yet.
LEMMA WalkStarts ==
  ASSUME Rows \in Nat, Rows >= 1, Rows' = Rows,
         pc' = "prune", i' = 0, j' = 0, k' = 0,
         F2' = [u \in 0 .. Rows - 1 |-> << >>]
  PROVE  WalkInv' /\ ListsInv'
<1>1. Elt(0, 0) = 0
  <2>1. Elt(0, 0) = Place(Rows, 0, 0)
    BY EltPlace
  <2>2. Half(0) \in Nat /\ 2 * Half(0) = 0 * (0 + 1)
    BY HalfExact
  <2> QED
    BY <2>1, <2>2 DEF Place
<1>2. Elt(i, j)' = 0
  BY <1>1 DEF Elt
<1>3. WalkInv'
  BY <1>2 DEF WalkInv
<1>4. ASSUME NEW u \in 0 .. Rows - 1
      PROVE  Partners(u)' = {}
  <2>1. \A v \in 0 .. Rows - 1 : ~ Passed(u, v)' \/ u = v
    BY DEF Passed
  <2> QED
    BY <2>1 DEF Partners
<1>5. ASSUME NEW u \in 0 .. Rows - 1
      PROVE  Lists(F2[u], Partners(u), Weights(u))'
  <2>1. F2'[u] = << >> /\ Len(F2'[u]) = 0 /\ 1 .. Len(F2'[u]) = {}
    OBVIOUS
  <2>2. F2'[u] \in Seq([neighbor : DOMAIN (Weights(u)'), weight : 0 .. NumTxn])
    BY <2>1
  <2>3. Cardinality({}) = 0
    BY FS_EmptySet
  <2> QED
    BY <1>4, <2>1, <2>2, <2>3 DEF Lists
<1>6. ListsInv'
  BY <1>5 DEF ListsInv
<1> QED
  BY <1>3, <1>6

\* Counters, matrix and lists start empty, the walk at its first place.
LEMMA MapItemsStep ==
  ASSUME CountInv, MapItems
  PROVE  CountInv'
<1>1. /\ pc = "map"
      /\ item_f' = [x \in 0 .. num_items - 1 |->
                      IF x \in F THEN Cardinality({y \in F : y < x}) ELSE -100]
      /\ F2' = [u \in 0 .. Rows - 1 |-> << >>]
      /\ two_items' = [e \in Matrix |-> 0]
      /\ buf' = [p \in 0 .. (m1 * (m1 - 1)) \div 2 - 1 |-> 0]
      /\ pc' = IF max_support = 0 \/ m1 < 2 THEN "prune" ELSE "pairs"
      /\ UNCHANGED <<inputs, items, F, tid, loops>>
  BY DEF MapItems
<1>2. TypeOK /\ LargeInv /\ ~ Pairwise /\ F # {}
  BY <1>1 DEF CountInv, LargeInv, Pairwise
<1>3. i' = 0 /\ j' = 0 /\ k' = 0 /\ tid' = 0
  BY <1>1, <1>2 DEF LargeInv, loops
<1>4. pc' \in {"pairs", "prune"}
  BY <1>1
<1>5. /\ ItemsInv' /\ LargeInv' /\ Pairwise'
      /\ m1' = m1 /\ Rows' = Rows /\ Matrix' = Matrix
      /\ CounterWidth' = CounterWidth
      /\ \A x, y : Position(x, y)' = Position(x, y)
      /\ \A u, v : Elt(u, v)' = Elt(u, v) /\ CellOf(u, v)' = CellOf(u, v)
  BY <1>1, <1>4, ItemsKept
<1>6. Rows \in Nat /\ Rows >= 1
  BY <1>1, <1>2, RowFacts
<1>7. CounterWidth \in Nat /\ 0 < CounterWidth
  <2>1. max_support \in Nat /\ max_support < Word
    BY <1>2, CounterAssumption, SizesAssumption DEF TypeOK
  <2> QED
    BY <2>1, WidthRoom DEF CounterWidth
<1>8. /\ m1 \in Nat /\ DOMAIN unmap = 0 .. m1 - 1
      /\ DOMAIN count = 0 .. num_items - 1
  BY <1>1, NumberingFacts
<1>9. TypeOK'
  <2>1. \A p \in DOMAIN buf' : buf'[p] \in 0 .. CounterWidth' - 1
    BY <1>1, <1>5, <1>7
  <2>2. pc' = "prune" /\ k' \in Matrix' => i' \in 0 .. j' /\ j' \in 0 .. Rows' - 1
    BY <1>3, <1>5, <1>6
  <2>3. \A u \in DOMAIN F2' :
          F2'[u] \in Seq([neighbor : 0 .. Rows' - 1, weight : 0 .. NumTxn])
    BY <1>1
  <2> QED
    BY <1>1, <1>2, <1>3, <1>4, <2>1, <2>2, <2>3, SizesAssumption
    DEF TypeOK, inputs, items
<1>10. MapInv'
  <2>1. two_items' \in [Matrix' -> 0 .. NumTxn]
    BY <1>1, <1>5, SizesAssumption
  <2> QED
    BY <1>1, <1>5, <1>8, <2>1 DEF MapInv, items
<1>11. ScanInv'
  BY <1>1, <1>5, <1>8 DEF ScanInv, NoLists
<1>12. CountersExact'
  <2>1. ASSUME NEW x \in DOMAIN unmap, NEW y \in DOMAIN unmap, x < y
        PROVE  buf'[Position(x, y)] = PairCount(db, 0, unmap[x], unmap[y])
    <3>1. y \in 0 .. m1 - 1 /\ x \in 0 .. y - 1
      BY <1>8, <2>1
    <3>2. Position(x, y) \in 0 .. (m1 * (m1 - 1)) \div 2 - 1
      BY <1>8, <3>1, PositionPlace
    <3> QED
      BY <1>1, <3>2, PairCounts
  <2>2. UNCHANGED <<unmap, db>> /\ tid' = 0
    BY <1>1, <1>3 DEF items, inputs
  <2>3. \A x, y \in DOMAIN unmap :
          x < y => buf'[Position(x, y)'] = PairCount(db, 0, unmap[x], unmap[y])
    BY <1>5, <2>1
  <2> QED
    BY <2>2, <2>3 DEF CountersExact
<1>13. CopyInv'
  BY <1>1, <1>4, <1>5 DEF CopyInv
<1>14. MatrixInv'
  <2> SUFFICES ASSUME pc' = "prune", support > 0
               PROVE  \A a, b \in F : a = b
    BY <1>1, <1>4 DEF MatrixInv, inputs
  <2>1. \A a \in F : \E x \in DOMAIN unmap : unmap[x] = a
    BY <1>1, FrequentNumbered
  <2>2. CASE m1 < 2
    <3>1. \A x, y \in DOMAIN unmap : x = y
      BY <1>8, <2>2
    <3> QED
      BY <2>1, <3>1
  <2>3. CASE max_support = 0
    <3>1. PICK a \in F : TRUE
      BY <1>2
    <3>2. PICK x \in DOMAIN unmap : unmap[x] = a
      BY <2>1
    <3>3. /\ count[a] >= support /\ count[a] \in Nat /\ Count(db, a) <= max_support
          /\ count[a] = Count(db, a)
      BY <1>1, <3>1, <3>2, NumberingFacts DEF CountInv, LargeInv
    <3>4. support \in Int
      BY <1>2 DEF TypeOK
    <3> QED
      BY <2>3, <3>3, <3>4
  <2> QED
    BY <1>1, <2>2, <2>3
<1>15. WalkInv' /\ ListsInv'
  <2>1. CASE pc' = "prune"
    BY <1>1, <1>3, <1>5, <1>6, <2>1, WalkStarts
  <2>2. CASE pc' = "pairs"
    BY <2>2 DEF WalkInv, ListsInv
  <2> QED
    BY <1>4, <2>1, <2>2
<1> QED
  BY <1>5, <1>9, <1>10, <1>11, <1>12, <1>13, <1>14, <1>15 DEF CountInv

\* A transaction's numbers fit the narrow item type.
LEMMA MappedExact ==
  ASSUME CountInv, pc # "items", NEW t
  PROVE  Mapped(t) = {x \in DOMAIN unmap : unmap[x] \in db[t]}
<1>1. m1 \in Nat /\ m1 <= NumItems /\ DOMAIN unmap = 0 .. m1 - 1
  BY NumberingFacts
<1>2. m1 + 1 \in Nat /\ m1 + 1 < Word
  BY <1>1, CounterAssumption, SizesAssumption
<1>3. ItemWidth \in Nat /\ m1 < ItemWidth
  BY <1>1, <1>2, WidthRoom DEF ItemWidth
<1>4. \A x \in DOMAIN unmap : x % ItemWidth = x
  <2> TAKE x \in DOMAIN unmap
  <2>1. x \in Nat /\ x < ItemWidth
    BY <1>1, <1>3
  <2> QED
    BY <1>3, <2>1
<1> QED
  BY <1>4 DEF Mapped

\* Reading a transaction adds one to the counters of its pairs and to no other.
LEMMA CountPairsStep ==
  ASSUME CountInv, CountPairs
  PROVE  CountInv'
<1> DEFINE pairs == {q \in Mapped(tid) \X Mapped(tid) : q[1] < q[2]}
           positions == {Position(p[1], p[2]) : p \in pairs}
<1>1. /\ pc = "pairs" /\ pc' = "pairs" /\ tid \in Tid /\ tid' = tid + 1
      /\ buf' = [p \in DOMAIN buf |->
                   IF p \in positions THEN (buf[p] + 1) % CounterWidth ELSE buf[p]]
      /\ UNCHANGED <<inputs, items, F, item_f, two_items, loops, F2>>
  BY DEF CountPairs
<1>2. TypeOK /\ MapInv /\ Pairwise /\ CountersExact
  BY <1>1 DEF CountInv, Pairwise
<1>3. /\ ItemsInv' /\ LargeInv' /\ Pairwise'
      /\ m1' = m1 /\ Rows' = Rows /\ Matrix' = Matrix
      /\ CounterWidth' = CounterWidth
      /\ \A x, y : Position(x, y)' = Position(x, y)
  BY <1>1, ItemsKept
<1>4. /\ m1 \in Nat /\ DOMAIN unmap = 0 .. m1 - 1
      /\ \A x \in DOMAIN unmap : Count(db, unmap[x]) <= max_support
  BY <1>1, NumberingFacts
<1>5. DOMAIN buf = 0 .. (m1 * (m1 - 1)) \div 2 - 1
  BY <1>2 DEF MapInv
<1>6. CounterWidth \in Nat /\ max_support < CounterWidth /\ max_support \in Nat
  <2>1. max_support \in Nat /\ max_support < Word
    BY <1>2, CounterAssumption, SizesAssumption DEF TypeOK
  <2> QED
    BY <2>1, WidthRoom DEF CounterWidth
<1>7. TypeOK'
  <2>1. \A p \in DOMAIN buf' : buf'[p] \in 0 .. CounterWidth' - 1
    <3> SUFFICES ASSUME NEW p \in DOMAIN buf
                 PROVE  buf'[p] \in 0 .. CounterWidth - 1
      BY <1>1, <1>3
    <3>1. buf[p] \in 0 .. CounterWidth - 1
      BY <1>2 DEF TypeOK
    <3>2. (buf[p] + 1) % CounterWidth \in 0 .. CounterWidth - 1
      BY <1>6, <3>1
    <3> HIDE DEF positions
    <3> QED
      BY <1>1, <3>1, <3>2
  <2>2. tid' \in 0 .. NumTxn
    BY <1>1, SizesAssumption DEF Tid
  <2>3. \A u \in DOMAIN F2' :
          F2'[u] \in Seq([neighbor : 0 .. Rows' - 1, weight : 0 .. NumTxn])
    BY <1>1, <1>2, <1>3 DEF TypeOK
  <2> QED
    BY <1>1, <1>2, <2>1, <2>2, <2>3 DEF TypeOK, inputs, items
<1>8. MapInv'
  BY <1>1, <1>2, <1>3, <1>5 DEF MapInv, items
<1>9. ScanInv'
  BY <1>1, <1>3 DEF CountInv, ScanInv, NoLists
<1>10. CopyInv'
  BY <1>1, <1>3 DEF CountInv, CopyInv
<1>11. MatrixInv' /\ WalkInv' /\ ListsInv'
  BY <1>1 DEF MatrixInv, WalkInv, ListsInv
<1>12. ASSUME NEW x \in DOMAIN unmap, NEW y \in DOMAIN unmap, x < y
       PROVE  buf'[Position(x, y)] = PairCount(db, tid + 1, unmap[x], unmap[y])
  <2> DEFINE a == unmap[x]
             b == unmap[y]
             P == Position(x, y)
  <2>1. y \in 0 .. m1 - 1 /\ x \in 0 .. y - 1
    BY <1>4, <1>12
  <2>2. P \in DOMAIN buf
    BY <1>4, <1>5, <2>1, PositionPlace
  <2>3. buf[P] = PairCount(db, tid, a, b)
    BY <1>1, <1>2, <1>12 DEF CountersExact
  <2>4. P \in positions <=> {a, b} \subseteq db[tid]
    <3>1. Mapped(tid) = {z \in DOMAIN unmap : unmap[z] \in db[tid]}
      BY <1>1, MappedExact
    <3>2. ASSUME {a, b} \subseteq db[tid]
          PROVE  P \in positions
      <4>1. x \in Mapped(tid) /\ y \in Mapped(tid)
        BY <1>12, <3>1, <3>2
      <4>2. <<x, y>> \in pairs
        BY <1>12, <4>1
      <4>3. Position(<<x, y>>[1], <<x, y>>[2]) = P
        OBVIOUS
      <4> HIDE DEF pairs, P
      <4> QED
        BY <4>2, <4>3
    <3>3. ASSUME P \in positions
          PROVE  {a, b} \subseteq db[tid]
      <4>1. PICK q \in pairs : P = Position(q[1], q[2])
        BY <3>3
      <4>2. q[1] \in Mapped(tid) /\ q[2] \in Mapped(tid) /\ q[1] < q[2]
        BY <4>1
      <4>3. q[2] \in 0 .. m1 - 1 /\ q[1] \in 0 .. q[2] - 1
        BY <1>4, <3>1, <4>2
      <4>4. x = q[1] /\ y = q[2]
        BY <1>4, <2>1, <4>1, <4>3, PositionInjective
      <4> QED
        BY <3>1, <4>2, <4>4
    <3> QED
      BY <3>2, <3>3
  <2>5. /\ PairCount(db, tid + 1, a, b) =
             IF {a, b} \subseteq db[tid]
             THEN PairCount(db, tid, a, b) + 1
             ELSE PairCount(db, tid, a, b)
        /\ PairCount(db, tid, a, b) \in Nat
        /\ PairCount(db, tid + 1, a, b) \in Nat
        /\ PairCount(db, tid + 1, a, b) <= Support(db, {a, b})
        /\ Support(db, {a, b}) <= Count(db, a)
        /\ Support(db, {a, b}) \in Nat
    <3> HIDE DEF a, b
    <3>1. /\ \A n : PairCount(db, n, a, b) \in Nat
          /\ \A n : PairCount(db, n, a, b) <= Support(db, {a, b})
          /\ Support(db, {a, b}) <= Count(db, a)
      BY PairCounts
    <3>2. PairCount(db, tid + 1, a, b) =
             IF {a, b} \subseteq db[tid]
             THEN PairCount(db, tid, a, b) + 1
             ELSE PairCount(db, tid, a, b)
      <4>1. tid \in Tid
        BY <1>1
      <4>2. \A n \in Tid :
              PairCount(db, n + 1, a, b) =
                IF {a, b} \subseteq db[n]
                THEN PairCount(db, n, a, b) + 1
                ELSE PairCount(db, n, a, b)
        BY PairCounts
      <4> QED
        BY <4>1, <4>2
    <3> QED
      BY <3>1, <3>2, SupportType
  <2>6. PairCount(db, tid + 1, a, b) < CounterWidth
    <3>1. Count(db, a) <= max_support /\ Count(db, a) \in Nat
      BY <1>4, <1>12, SupportType DEF Count
    <3> HIDE DEF a, b
    <3> QED
      BY <1>6, <2>5, <3>1
  <2>7. CASE {a, b} \subseteq db[tid]
    <3>1. buf'[P] = (buf[P] + 1) % CounterWidth
      BY <1>1, <2>2, <2>4, <2>7
    <3>2. buf[P] + 1 = PairCount(db, tid + 1, a, b)
      BY <2>3, <2>5, <2>7
    <3> HIDE DEF a, b, P
    <3> QED
      BY <1>6, <2>5, <2>6, <3>1, <3>2 DEF a, b, P
  <2>8. CASE ~ {a, b} \subseteq db[tid]
    <3>1. buf'[P] = buf[P]
      BY <1>1, <2>2, <2>4, <2>8
    <3> QED
      BY <2>3, <2>5, <2>8, <3>1
  <2> QED
    BY <2>7, <2>8
<1>13. CountersExact'
  <2>1. UNCHANGED <<unmap, db>>
    BY <1>1 DEF items, inputs
  <2>2. \A x, y \in DOMAIN unmap :
          x < y => buf'[Position(x, y)'] = PairCount(db, tid', unmap[x], unmap[y])
    BY <1>1, <1>3, <1>12
  <2> QED
    BY <2>1, <2>2 DEF CountersExact
<1> QED
  BY <1>3, <1>7, <1>8, <1>9, <1>10, <1>11, <1>13 DEF CountInv

\* A pair of frequent items has a place in the matrix.
LEMMA CellFacts ==
  ASSUME CountInv, Pairwise, NEW a \in F, NEW b \in F
  PROVE  /\ Cell(a, b) \in Matrix
         /\ Cell(a, b) = Cell(b, a)
         /\ \A c, d \in F :
              Cell(a, b) = Cell(c, d) => (a = c /\ b = d) \/ (a = d /\ b = c)
<1>1. pc \notin {"items", "large"}
  BY DEF Pairwise
<1>2. /\ Rows \in Nat
      /\ \A c \in F : item_f[c] \in 0 .. Rows - 1
      /\ \A c, d \in F : item_f[c] = item_f[d] => c = d
  BY <1>1, RowFacts
<1>3. /\ CellOf(item_f[a], item_f[b]) \in Matrix
      /\ CellOf(item_f[a], item_f[b]) = CellOf(item_f[b], item_f[a])
  BY <1>2, CellInjective
<1>4. ASSUME NEW c \in F, NEW d \in F, Cell(a, b) = Cell(c, d)
      PROVE  (a = c /\ b = d) \/ (a = d /\ b = c)
  <2>1. CellOf(item_f[a], item_f[b]) = CellOf(item_f[c], item_f[d])
    BY <1>4, CellIsCellOf
  <2>2. \/ item_f[a] = item_f[c] /\ item_f[b] = item_f[d]
        \/ item_f[a] = item_f[d] /\ item_f[b] = item_f[c]
    BY <1>2, <2>1, CellInjective
  <2> QED
    BY <1>2, <2>2
<1> QED
  BY <1>3, <1>4, CellIsCellOf

\* All transactions have been read: the counters hold the pairs' supports.
LEMMA PairsCountedStep ==
  ASSUME CountInv, PairsCounted
  PROVE  CountInv'
<1>1. /\ pc = "pairs" /\ pc' = "copy" /\ tid \notin Tid
      /\ i' = 0 /\ j' = 1 /\ k' = 0
      /\ UNCHANGED <<inputs, items, F, item_f, tid, buf, two_items, F2>>
  BY DEF PairsCounted
<1>2. TypeOK /\ MapInv /\ Pairwise /\ CountersExact
  BY <1>1 DEF CountInv, Pairwise
<1>3. /\ ItemsInv' /\ LargeInv' /\ Pairwise'
      /\ m1' = m1 /\ Rows' = Rows /\ Matrix' = Matrix
      /\ CounterWidth' = CounterWidth
      /\ \A x, y : Position(x, y)' = Position(x, y)
      /\ \A u, v : Elt(u, v)' = Elt(u, v) /\ CellOf(u, v)' = CellOf(u, v)
  BY <1>1, ItemsKept
<1>4. m1 \in Nat /\ DOMAIN unmap = 0 .. m1 - 1
  BY <1>1, NumberingFacts
<1>5. m1 >= 2 /\ two_items = [e \in Matrix |-> 0]
  BY <1>1 DEF CountInv, ScanInv, CopyInv
<1>6. tid = NumTxn
  BY <1>1, <1>2, SizesAssumption DEF TypeOK, Tid
<1>7. TypeOK'
  <2>1. \A u \in DOMAIN F2' :
          F2'[u] \in Seq([neighbor : 0 .. Rows' - 1, weight : 0 .. NumTxn])
    BY <1>1, <1>2, <1>3 DEF TypeOK
  <2>2. \A p \in DOMAIN buf' : buf'[p] \in 0 .. CounterWidth' - 1
    BY <1>1, <1>2, <1>3 DEF TypeOK
  <2> QED
    BY <1>1, <1>2, <2>1, <2>2 DEF TypeOK, inputs, items
<1>8. MapInv'
  BY <1>1, <1>2, <1>3 DEF MapInv, items
<1>9. ScanInv'
  BY <1>1, <1>3 DEF CountInv, ScanInv, NoLists
<1>10. CountersExact' /\ MatrixInv' /\ WalkInv' /\ ListsInv'
  BY <1>1 DEF CountersExact, MatrixInv, WalkInv, ListsInv
<1>11. ASSUME NEW x \in DOMAIN unmap, NEW y \in DOMAIN unmap, x < y
       PROVE  buf[Position(x, y)] = Support(db, {unmap[x], unmap[y]})
  <2>1. buf[Position(x, y)] = PairCount(db, NumTxn, unmap[x], unmap[y])
    BY <1>1, <1>2, <1>6, <1>11 DEF CountersExact
  <2> QED
    BY <2>1, PairCounts
<1>12. ASSUME NEW x \in DOMAIN unmap, NEW y \in DOMAIN unmap, x < y,
              {unmap[x], unmap[y]} \subseteq F
       PROVE  two_items[Cell(unmap[x], unmap[y])] = 0 /\ ~ (x < 0 \/ (x = 0 /\ y < 1))
  <2>1. Cell(unmap[x], unmap[y]) \in Matrix
    BY <1>2, <1>12, CellFacts
  <2> QED
    BY <1>4, <1>5, <1>12, <2>1
<1>13. Position(0, 1) = 0
  <2>1. Position(0, 1) = Place(m1 - 1, 0, 1 - 1)
    <3>1. 1 \in 0 .. m1 - 1 /\ 0 \in 0 .. 1 - 1
      BY <1>4, <1>5
    <3> QED
      BY <1>4, <3>1, PositionPlace
  <2>2. Half(0) \in Nat /\ 2 * Half(0) = 0 * (0 + 1)
    BY HalfExact
  <2> QED
    BY <1>4, <2>1, <2>2 DEF Place
<1>14. CopyInv'
  <2>1. i' \in 0 .. m1' - 1 /\ j' \in i' + 1 .. m1' - 1
    BY <1>1, <1>3, <1>4, <1>5
  <2>2. k' = Position(i, j)'
    BY <1>1, <1>3, <1>13 DEF Position
  <2>3. UNCHANGED <<unmap, db, F, two_items, buf>>
    BY <1>1 DEF items, inputs
  <2>4. \A x, y : Cell(unmap[x], unmap[y])' = Cell(unmap[x], unmap[y])
    BY <1>1, <1>3 DEF Cell, Elt, items
  <2>5. ASSUME NEW x \in DOMAIN unmap, NEW y \in DOMAIN unmap, x < y
        PROVE  /\ buf'[Position(x, y)'] = Support(db, {unmap[x], unmap[y]})
               /\ {unmap[x], unmap[y]} \subseteq F =>
                    two_items'[Cell(unmap[x], unmap[y])'] =
                      IF x < i' \/ (x = i' /\ y < j')
                      THEN Support(db, {unmap[x], unmap[y]})
                      ELSE 0
    BY <1>1, <1>3, <1>11, <1>12, <2>3, <2>4, <2>5
  <2> QED
    BY <1>1, <2>1, <2>2, <2>3, <2>5 DEF CopyInv
<1> QED
  BY <1>3, <1>7, <1>8, <1>9, <1>10, <1>14 DEF CountInv

\* One counter is read and added to the matrix, at the place of its pair.
LEMMA CopyPairStep ==
  ASSUME CountInv, CopyPair
  PROVE  CountInv'
<1> DEFINE a == unmap[i]
           b == unmap[j]
           both == {a, b} \subseteq F
<1>1. /\ pc = "copy" /\ pc' = "copy" /\ i < m1 - 1 /\ k' = k + 1
      /\ i' = (IF j = m1 - 1 THEN i + 1 ELSE i)
      /\ j' = (IF j = m1 - 1 THEN i + 2 ELSE j + 1)
      /\ two_items' = IF item_f[a] >= 0 /\ item_f[b] >= 0
                      THEN AddToMatrix(two_items, item_f[a], item_f[b], buf[k])
                      ELSE two_items
      /\ UNCHANGED <<inputs, items, F, item_f, tid, buf, F2>>
  BY DEF CopyPair
<1>2. TypeOK /\ MapInv /\ Pairwise
  BY <1>1 DEF CountInv, Pairwise
<1>3. /\ ItemsInv' /\ LargeInv' /\ Pairwise'
      /\ m1' = m1 /\ Rows' = Rows /\ Matrix' = Matrix
      /\ CounterWidth' = CounterWidth
      /\ \A x, y : Position(x, y)' = Position(x, y)
  BY <1>1, ItemsKept
<1>4. /\ m1 \in Nat /\ DOMAIN unmap = 0 .. m1 - 1
      /\ \A x \in DOMAIN unmap : unmap[x] \in DOMAIN count
      /\ \A x, y \in DOMAIN unmap : unmap[x] = unmap[y] => x = y
  BY <1>1, NumberingFacts
<1>5. /\ i \in 0 .. m1 - 2 /\ j \in i + 1 .. m1 - 1 /\ k = Position(i, j)
      /\ \A x, y \in DOMAIN unmap :
           x < y =>
             /\ buf[Position(x, y)] = Support(db, {unmap[x], unmap[y]})
             /\ {unmap[x], unmap[y]} \subseteq F =>
                  two_items[Cell(unmap[x], unmap[y])] =
                    IF x < i \/ (x = i /\ y < j)
                    THEN Support(db, {unmap[x], unmap[y]})
                    ELSE 0
  BY <1>1, <1>4 DEF CountInv, CopyInv
<1>6. i \in DOMAIN unmap /\ j \in DOMAIN unmap /\ i < j /\ i \in Int /\ j \in Int
  BY <1>4, <1>5
<1>7. buf[k] = Support(db, {a, b}) /\ Support(db, {a, b}) \in 0 .. NumTxn
  BY <1>5, <1>6, PairCounts
<1>8. both <=> item_f[a] >= 0 /\ item_f[b] >= 0
  <2>1. /\ \A c \in F : item_f[c] \in 0 .. Rows - 1
        /\ \A c \in DOMAIN count \ F : item_f[c] = -100
    BY <1>1, <1>2, RowFacts
  <2>2. a \in DOMAIN count /\ b \in DOMAIN count
    BY <1>4, <1>6
  <2>3. \A c \in DOMAIN count : c \in F <=> item_f[c] >= 0
    BY <2>1
  <2> HIDE DEF a, b
  <2> QED
    BY <2>2, <2>3
<1>9. two_items \in [Matrix -> 0 .. NumTxn]
  BY <1>2 DEF MapInv
<1>10. both => Cell(a, b) \in Matrix /\ two_items[Cell(a, b)] = 0
  <2> SUFFICES ASSUME both
               PROVE  Cell(a, b) \in Matrix /\ two_items[Cell(a, b)] = 0
    OBVIOUS
  <2>1. Cell(a, b) \in Matrix
    BY <1>2, CellFacts
  <2>2. ~ (i < i \/ (i = i /\ j < j))
    BY <1>6
  <2> QED
    BY <1>5, <1>6, <2>1, <2>2
<1>11. two_items' = IF both
                    THEN [two_items EXCEPT ![Cell(a, b)] = Support(db, {a, b})]
                    ELSE two_items
  <2>1. CASE both
    <3>1. two_items' = [two_items EXCEPT ![Cell(a, b)] = @ + buf[k]]
      BY <1>1, <1>8, <2>1 DEF AddToMatrix, Cell
    <3>2. 0 + buf[k] = Support(db, {a, b})
      BY <1>7
    <3> HIDE DEF a, b
    <3> QED
      BY <1>9, <1>10, <2>1, <3>1, <3>2
  <2>2. CASE ~ both
    BY <1>1, <1>8, <2>2
  <2> QED
    BY <2>1, <2>2
<1>12. MapInv'
  <2>1. two_items' \in [Matrix -> 0 .. NumTxn]
    <3> HIDE DEF a, b, both
    <3> QED
      BY <1>7, <1>9, <1>11
  <2> QED
    BY <1>1, <1>2, <1>3, <2>1 DEF MapInv, items
<1>13. TypeOK'
  <2>1. \A u \in DOMAIN F2' :
          F2'[u] \in Seq([neighbor : 0 .. Rows' - 1, weight : 0 .. NumTxn])
    BY <1>1, <1>2, <1>3 DEF TypeOK
  <2>2. \A p \in DOMAIN buf' : buf'[p] \in 0 .. CounterWidth' - 1
    BY <1>1, <1>2, <1>3 DEF TypeOK
  <2> QED
    BY <1>1, <1>2, <2>1, <2>2 DEF TypeOK, inputs, items
<1>14. ScanInv'
  BY <1>1, <1>3 DEF CountInv, ScanInv, NoLists
<1>15. CountersExact' /\ MatrixInv' /\ WalkInv' /\ ListsInv'
  BY <1>1 DEF CountersExact, MatrixInv, WalkInv, ListsInv
<1>16. /\ i' \in 0 .. m1 - 1
       /\ i' < m1 - 1 => j' \in i' + 1 .. m1 - 1 /\ k' = Position(i', j')
  <2>1. CASE j = m1 - 1
    <3>1. i' = i + 1 /\ j' = i + 2 /\ i' \in 0 .. m1 - 1
      BY <1>1, <1>4, <1>5, <2>1
    <3>2. i < m1 - 2 => Position(i + 1, i + 2) = Position(i, j) + 1
      <4>1. j \in 0 .. m1 - 1 /\ i \in 0 .. j - 1
        BY <1>4, <1>5, <1>6
      <4> QED
        BY <1>4, <2>1, <4>1, PositionNext
    <3> QED
      BY <1>1, <1>4, <1>5, <3>1, <3>2
  <2>2. CASE j # m1 - 1
    <3>1. i' = i /\ j' = j + 1 /\ j' \in i' + 1 .. m1 - 1 /\ i' \in 0 .. m1 - 1
      BY <1>1, <1>4, <1>5, <2>2
    <3>2. Position(i, j + 1) = Position(i, j) + 1
      <4>1. j \in 0 .. m1 - 1 /\ i \in 0 .. j - 1 /\ j < m1 - 1
        BY <1>4, <1>5, <1>6, <2>2
      <4> QED
        BY <1>4, <4>1, PositionNext
    <3> QED
      BY <1>1, <1>5, <3>1, <3>2
  <2> QED
    BY <2>1, <2>2
<1>17. ASSUME NEW x \in DOMAIN unmap, NEW y \in DOMAIN unmap, x < y
       PROVE  (x < i' \/ (x = i' /\ y < j')) <=> (x < i \/ (x = i /\ y <= j))
  <2>1. x \in Int /\ y \in Int /\ y <= m1 - 1
    BY <1>4, <1>17
  <2>2. CASE j = m1 - 1
    BY <1>1, <1>4, <1>5, <1>6, <1>17, <2>1, <2>2
  <2>3. CASE j # m1 - 1
    BY <1>1, <1>6, <2>1, <2>3
  <2> QED
    BY <2>2, <2>3
<1>18. ASSUME NEW x \in DOMAIN unmap, NEW y \in DOMAIN unmap, x < y,
              {unmap[x], unmap[y]} \subseteq F
       PROVE  two_items'[Cell(unmap[x], unmap[y])] =
                IF x < i' \/ (x = i' /\ y < j')
                THEN Support(db, {unmap[x], unmap[y]})
                ELSE 0
  <2>1. Cell(unmap[x], unmap[y]) \in Matrix
    BY <1>2, <1>18, CellFacts
  <2>2. two_items[Cell(unmap[x], unmap[y])] =
          IF x < i \/ (x = i /\ y < j)
          THEN Support(db, {unmap[x], unmap[y]})
          ELSE 0
    BY <1>5, <1>18
  <2>3. x \in Int /\ y \in Int
    BY <1>4, <1>18
  <2>4. CASE x = i /\ y = j
    <3>1. both
      BY <1>18, <2>4
    <3>2. two_items'[Cell(a, b)] = Support(db, {a, b})
      BY <1>9, <1>10, <1>11, <3>1
    <3> QED
      BY <1>6, <1>17, <1>18, <2>4, <3>2
  <2>5. CASE ~ (x = i /\ y = j)
    <3>1. both => Cell(unmap[x], unmap[y]) # Cell(a, b)
      <4> SUFFICES ASSUME both, Cell(unmap[x], unmap[y]) = Cell(a, b)
                   PROVE  FALSE
        OBVIOUS
      <4>1. \/ unmap[x] = a /\ unmap[y] = b
            \/ unmap[x] = b /\ unmap[y] = a
        BY <1>2, <1>18, CellFacts
      <4>2. (x = i /\ y = j) \/ (x = j /\ y = i)
        BY <1>4, <1>6, <1>18, <4>1
      <4> QED
        BY <1>6, <1>18, <2>5, <4>2
    <3>2. two_items'[Cell(unmap[x], unmap[y])] = two_items[Cell(unmap[x], unmap[y])]
      <4> HIDE DEF a, b, both
      <4> QED
        BY <1>9, <1>11, <2>1, <3>1
    <3>3. (x < i \/ (x = i /\ y < j)) <=> (x < i' \/ (x = i' /\ y < j'))
      BY <1>6, <1>17, <1>18, <2>3, <2>5
    <3> QED
      BY <2>2, <3>2, <3>3
  <2> QED
    BY <2>4, <2>5
<1>19. CopyInv'
  <2>1. UNCHANGED <<unmap, db, F, buf>>
    BY <1>1 DEF items, inputs
  <2>2. \A x, y : Cell(unmap[x], unmap[y])' = Cell(unmap[x], unmap[y])
    BY <1>1, <1>3 DEF Cell, Elt, items
  <2>3. i' < m1' - 1 => j' \in i' + 1 .. m1' - 1 /\ k' = Position(i, j)'
    BY <1>3, <1>16 DEF Position
  <2>4. ASSUME NEW x \in DOMAIN unmap, NEW y \in DOMAIN unmap, x < y
        PROVE  /\ buf'[Position(x, y)'] = Support(db, {unmap[x], unmap[y]})
               /\ {unmap[x], unmap[y]} \subseteq F =>
                    two_items'[Cell(unmap[x], unmap[y])'] =
                      IF x < i' \/ (x = i' /\ y < j')
                      THEN Support(db, {unmap[x], unmap[y]})
                      ELSE 0
    BY <1>3, <1>5, <1>18, <2>1, <2>2, <2>4
  <2> QED
    BY <1>1, <1>3, <1>16, <2>1, <2>3, <2>4 DEF CopyInv
<1> QED
  BY <1>3, <1>12, <1>13, <1>14, <1>15, <1>19 DEF CountInv

\* All counters have been read: each pair of frequent items is in the matrix.
LEMMA PairsCopiedStep ==
  ASSUME CountInv, PairsCopied
  PROVE  CountInv'
<1>1. /\ pc = "copy" /\ pc' = "prune" /\ i >= m1 - 1
      /\ i' = 0 /\ j' = 0 /\ k' = 0
      /\ UNCHANGED <<inputs, items, F, item_f, tid, buf, two_items, F2>>
  BY DEF PairsCopied
<1>2. TypeOK /\ MapInv /\ Pairwise /\ F # {} /\ F2 = NoLists
  BY <1>1 DEF CountInv, Pairwise, LargeInv, ScanInv
<1>3. /\ ItemsInv' /\ LargeInv' /\ Pairwise'
      /\ m1' = m1 /\ Rows' = Rows /\ Matrix' = Matrix
      /\ CounterWidth' = CounterWidth
      /\ \A u, v : Elt(u, v)' = Elt(u, v)
  BY <1>1, ItemsKept
<1>4. m1 \in Nat /\ DOMAIN unmap = 0 .. m1 - 1
  BY <1>1, NumberingFacts
<1>5. Rows \in Nat /\ Rows >= 1
  BY <1>1, <1>2, RowFacts
<1>6. TypeOK'
  <2>1. \A u \in DOMAIN F2' :
          F2'[u] \in Seq([neighbor : 0 .. Rows' - 1, weight : 0 .. NumTxn])
    BY <1>1, <1>2, <1>3 DEF TypeOK
  <2>2. \A p \in DOMAIN buf' : buf'[p] \in 0 .. CounterWidth' - 1
    BY <1>1, <1>2, <1>3 DEF TypeOK
  <2>3. i' \in 0 .. j' /\ j' \in 0 .. Rows' - 1
    BY <1>1, <1>3, <1>5
  <2> QED
    BY <1>1, <1>2, <2>1, <2>2, <2>3 DEF TypeOK, inputs, items
<1>7. MapInv'
  BY <1>1, <1>2, <1>3 DEF MapInv, items
<1>8. ScanInv' /\ CountersExact' /\ CopyInv'
  BY <1>1 DEF ScanInv, CountersExact, CopyInv
<1>9. WalkInv' /\ ListsInv'
  BY <1>1, <1>2, <1>3, <1>5, WalkStarts DEF NoLists
<1>10. ASSUME NEW x \in DOMAIN unmap, NEW y \in DOMAIN unmap, x < y,
              {unmap[x], unmap[y]} \subseteq F
       PROVE  two_items[Cell(unmap[x], unmap[y])] = Support(db, {unmap[x], unmap[y]})
  <2>1. x < i
    <3>1. i \in 0 .. m1 - 1
      BY <1>1 DEF CountInv, CopyInv
    <3> QED
      BY <1>1, <1>4, <1>10, <3>1
  <2> QED
    BY <1>1, <1>10, <2>1 DEF CountInv, CopyInv
<1>11. ASSUME support > 0, NEW a \in F, NEW b \in F, a # b
       PROVE  two_items[Cell(a, b)] = Support(db, {a, b})
  <2>1. PICK x, y \in DOMAIN unmap : unmap[x] = a /\ unmap[y] = b
    BY <1>1, <1>11, FrequentNumbered
  <2>2. CASE x < y
    BY <1>10, <2>1, <2>2
  <2>3. CASE y < x
    <3>1. two_items[Cell(b, a)] = Support(db, {b, a})
      BY <1>10, <2>1, <2>3
    <3>2. {b, a} = {a, b} /\ Cell(b, a) = Cell(a, b)
      BY <1>2, CellFacts
    <3> QED
      BY <3>1, <3>2
  <2>4. x < y \/ y < x
    BY <1>4, <1>11, <2>1
  <2> QED
    BY <2>2, <2>3, <2>4
<1>12. MatrixInv'
  <2>1. UNCHANGED <<F, db, support, two_items>>
    BY <1>1 DEF inputs
  <2>2. \A a, b : Cell(a, b)' = Cell(a, b)
    BY <1>1, <1>3 DEF Cell, Elt
  <2>3. support > 0 =>
          \A a, b \in F : a # b => two_items[Cell(a, b)'] = Support(db, {a, b})
    BY <1>11, <2>2
  <2> QED
    BY <2>1, <2>3 DEF MatrixInv
<1> QED
  BY <1>3, <1>6, <1>7, <1>8, <1>9, <1>12 DEF CountInv

\* A neighbor that is not in a list goes to its end.
LEMMA ListGrows ==
  ASSUME NEW s, NEW P, IsFiniteSet(P), NEW W, DOMAIN W \in SUBSET Int,
         P \subseteq DOMAIN W, Lists(s, P, W),
         NEW v \in DOMAIN W, v \notin P, W[v] \in 0 .. NumTxn
  PROVE  Lists(AddToList(s, v, W[v]), P \cup {v}, W)
<1> DEFINE Entry == [neighbor : DOMAIN W, weight : 0 .. NumTxn]
           e == [neighbor |-> v, weight |-> W[v]]
           t == Append(s, e)
<1>1. /\ s \in Seq(Entry) /\ Len(s) = Cardinality(P)
      /\ \A n \in 1 .. Len(s) : s[n].neighbor \in P /\ s[n].weight = W[s[n].neighbor]
      /\ \A w \in P : \E n \in 1 .. Len(s) : s[n].neighbor = w
  BY DEF Lists
<1>2. e \in Entry
  OBVIOUS
<1>3. AddToList(s, v, W[v]) = t
  <2>1. DOMAIN s = 1 .. Len(s)
    BY <1>1
  <2>2. ~ \E n \in DOMAIN s : s[n].neighbor = v
    BY <1>1, <2>1
  <2> QED
    BY <2>2 DEF AddToList
<1> HIDE DEF Entry
<1>4. /\ t \in Seq(Entry) /\ Len(s) \in Nat /\ Len(t) = Len(s) + 1
      /\ \A n \in 1 .. Len(s) : t[n] = s[n]
      /\ t[Len(s) + 1] = e
  <2> HIDE DEF e
  <2> QED
    BY <1>1, <1>2
<1>5. e.neighbor = v /\ e.weight = W[v]
  OBVIOUS
<1> HIDE DEF t, e
<1>6. Cardinality(P \cup {v}) = Cardinality(P) + 1
  BY FS_AddElement
<1>7. \A n \in 1 .. Len(t) :
        t[n].neighbor \in P \cup {v} /\ t[n].weight = W[t[n].neighbor]
  <2> TAKE n \in 1 .. Len(t)
  <2>1. n \in 1 .. Len(s) \/ n = Len(s) + 1
    BY <1>4
  <2>2. CASE n \in 1 .. Len(s)
    BY <1>1, <1>4, <2>2
  <2>3. CASE n = Len(s) + 1
    BY <1>4, <1>5, <2>3
  <2> QED
    BY <2>1, <2>2, <2>3
<1>8. \A w \in P \cup {v} : \E n \in 1 .. Len(t) : t[n].neighbor = w
  <2> TAKE w \in P \cup {v}
  <2>1. CASE w \in P
    <3>1. PICK n \in 1 .. Len(s) : s[n].neighbor = w
      BY <1>1, <2>1
    <3>2. n \in 1 .. Len(t) /\ t[n] = s[n]
      BY <1>4
    <3> QED
      BY <3>1, <3>2
  <2>2. CASE w = v
    <3>1. Len(s) + 1 \in 1 .. Len(t)
      BY <1>4
    <3> QED
      BY <1>4, <1>5, <2>2, <3>1
  <2> QED
    BY <2>1, <2>2
<1>9. t \in Seq([neighbor : DOMAIN W, weight : 0 .. NumTxn])
  BY <1>4 DEF Entry
<1> QED
  BY <1>1, <1>3, <1>4, <1>6, <1>7, <1>8, <1>9 DEF Lists

\* Where the walk stands before the end of the matrix, and where it goes.
LEMMA WalkFacts ==
  ASSUME CountInv, pc = "prune", k \in Matrix, NextEntry
  PROVE  /\ Rows \in Nat /\ i \in Nat /\ j \in Nat /\ i <= j /\ j < Rows
         /\ k = Elt(i, j) /\ k = CellOf(i, j) /\ Elt(i, j) = Place(Rows, i, j)
         /\ j + 1 < Rows => i' = i /\ j' = j + 1 /\ k' = Elt(i', j')
         /\ j + 1 = Rows => i' = i + 1 /\ j' = i + 1
         /\ j + 1 = Rows /\ i + 1 < Rows => k' = Elt(i', j')
         /\ j + 1 = Rows /\ i + 1 = Rows => k' \notin Matrix
<1>1. Rows \in Nat
  BY RowFacts
<1>2. /\ j \in 0 .. Rows - 1 /\ i \in 0 .. j /\ k = Elt(i, j)
      /\ Pairwise
  BY DEF CountInv, WalkInv, Pairwise
<1>3. i \in Nat /\ j \in Nat /\ i <= j /\ j < Rows
  BY <1>1, <1>2
<1>4. /\ Elt(i, j) = Place(Rows, i, j) /\ Matrix = 0 .. Half(Rows) - 1
      /\ k = Place(Rows, i, j)
  <2>1. i \in 0 .. Rows
    BY <1>1, <1>3
  <2> QED
    BY <1>1, <1>2, <1>3, <2>1, EltPlace
<1>5. k = CellOf(i, j)
  BY <1>2, <1>3 DEF CellOf
<1>6. /\ k' = k + 1
      /\ i' = (IF j + 1 = Rows THEN i + 1 ELSE i)
      /\ j' = (IF j + 1 = Rows THEN i + 1 ELSE j + 1)
  BY DEF NextEntry
<1>7. ASSUME j + 1 < Rows
      PROVE  i' = i /\ j' = j + 1 /\ k' = Elt(i', j')
  <2>1. i' = i /\ j' = j + 1
    BY <1>1, <1>3, <1>6, <1>7
  <2>2. Place(Rows, i, j + 1) = k + 1
    BY <1>1, <1>3, <1>4, PlaceNext
  <2>3. Elt(i, j + 1) = Place(Rows, i, j + 1)
    <3>1. i \in 0 .. Rows /\ j + 1 \in Nat
      BY <1>1, <1>3
    <3> QED
      BY <1>1, <3>1, EltPlace
  <2> QED
    BY <1>6, <2>1, <2>2, <2>3
<1>8. ASSUME j + 1 = Rows
      PROVE  /\ i' = i + 1 /\ j' = i + 1
             /\ i + 1 < Rows => k' = Elt(i', j')
             /\ i + 1 = Rows => k' \notin Matrix
  <2>1. i' = i + 1 /\ j' = i + 1
    BY <1>6, <1>8
  <2>2. Place(Rows, i + 1, i + 1) = k + 1
    BY <1>1, <1>3, <1>4, <1>8, PlaceNext
  <2>3. Elt(i + 1, i + 1) = Place(Rows, i + 1, i + 1)
    <3>1. i + 1 \in 0 .. Rows /\ i + 1 \in Nat
      BY <1>1, <1>3
    <3> QED
      BY <1>1, <3>1, EltPlace
  <2>4. ASSUME i + 1 = Rows
        PROVE  k' = Half(Rows)
    <3>1. Half(Rows) \in Nat /\ 2 * Half(Rows) = Rows * (Rows + 1)
      BY <1>1, HalfExact
    <3>2. Rows * (Rows + 1) = Rows * Rows + Rows /\ Rows * Rows \in Nat
      BY <1>1
    <3>3. k' = Rows * Rows - Half(Rows) + Rows
      BY <1>6, <2>2, <2>4 DEF Place
    <3> QED
      BY <1>1, <3>1, <3>2, <3>3
  <2>5. Half(Rows) \in Nat
    BY <1>1, HalfExact
  <2> QED
    BY <1>4, <1>6, <2>1, <2>2, <2>3, <2>4, <2>5
<1> QED
  BY <1>1, <1>2, <1>3, <1>4, <1>5, <1>7, <1>8

\* The walk passes one pair: no list changes unless it is frequent, and then
\* the lists of its two ends do.
LEMMA PruneEntryStep ==
  ASSUME CountInv, PruneEntry
  PROVE  CountInv'
<1> DEFINE w == two_items[k]
           add == w >= support /\ i # j
           Index == 0 .. Rows - 1
<1>1. /\ pc = "prune" /\ pc' = "prune" /\ k \in Matrix /\ NextEntry
      /\ F2' = IF add THEN AddEdge(F2, i, j, w) ELSE F2
      /\ UNCHANGED <<inputs, items, F, item_f, tid, buf, two_items>>
  BY DEF PruneEntry
<1>2. TypeOK /\ MapInv /\ Pairwise /\ MatrixInv
  BY <1>1 DEF CountInv, Pairwise
<1>3. /\ ItemsInv' /\ LargeInv' /\ Pairwise'
      /\ m1' = m1 /\ Rows' = Rows /\ Matrix' = Matrix
      /\ CounterWidth' = CounterWidth
      /\ \A u, v : Elt(u, v)' = Elt(u, v) /\ CellOf(u, v)' = CellOf(u, v)
  BY <1>1, ItemsKept
<1>4. /\ Rows \in Nat /\ i \in Nat /\ j \in Nat /\ i <= j /\ j < Rows
      /\ k = CellOf(i, j)
      /\ j + 1 < Rows => i' = i /\ j' = j + 1 /\ k' = Elt(i', j')
      /\ j + 1 = Rows => i' = i + 1 /\ j' = i + 1
      /\ j + 1 = Rows /\ i + 1 < Rows => k' = Elt(i', j')
      /\ j + 1 = Rows /\ i + 1 = Rows => k' \notin Matrix
  BY <1>1, WalkFacts
<1>5. i \in Index /\ j \in Index
  BY <1>4
<1>6. w \in 0 .. NumTxn /\ two_items \in [Matrix -> 0 .. NumTxn]
  BY <1>1, <1>2 DEF MapInv
<1>7. WalkInv'
  <2>1. Elt(i, j)' = Elt(i', j')
    BY <1>3 DEF Elt
  <2>2. CASE j + 1 < Rows
    <3>1. j' \in 0 .. Rows' - 1 /\ i' \in 0 .. j' /\ k' = Elt(i, j)'
      BY <1>3, <1>4, <2>1, <2>2
    <3> QED
      BY <1>1, <3>1 DEF WalkInv
  <2>3. CASE j + 1 = Rows /\ i + 1 < Rows
    <3>1. j' \in 0 .. Rows' - 1 /\ i' \in 0 .. j' /\ k' = Elt(i, j)'
      BY <1>3, <1>4, <2>1, <2>3
    <3> QED
      BY <1>1, <3>1 DEF WalkInv
  <2>4. CASE j + 1 = Rows /\ i + 1 = Rows
    <3>1. i' = Rows' /\ k' \notin Matrix'
      BY <1>3, <1>4, <2>4
    <3> QED
      BY <3>1 DEF WalkInv
  <2> QED
    BY <1>4, <2>2, <2>3, <2>4
<1>8. ASSUME NEW u \in Index, NEW v \in Index, u # v
      PROVE  Passed(u, v)' <=> Passed(u, v) \/ (u = i /\ v = j) \/ (u = j /\ v = i)
  <2>1. ASSUME NEW x \in Index, NEW y \in Index, x < y
        PROVE  (x < i' \/ (x = i' /\ y < j')) <=> (x < i \/ (x = i /\ y <= j))
    <3>1. x \in Nat /\ y \in Nat /\ y < Rows
      BY <1>4
    <3>2. CASE j + 1 < Rows
      BY <1>4, <3>1, <3>2
    <3>3. CASE j + 1 = Rows
      BY <1>4, <2>1, <3>1, <3>3
    <3> QED
      BY <1>4, <3>2, <3>3
  <2>2. u \in Nat /\ v \in Nat
    BY <1>4
  <2>3. CASE u < v
    <3>1. Passed(u, v)' <=> u < i \/ (u = i /\ v <= j)
      BY <2>1, <2>3 DEF Passed
    <3>2. Passed(u, v) <=> u < i \/ (u = i /\ v < j)
      BY <2>3 DEF Passed
    <3> QED
      BY <1>4, <2>2, <2>3, <3>1, <3>2
  <2>4. CASE v < u
    <3>1. Passed(u, v)' <=> v < i \/ (v = i /\ u <= j)
      BY <2>1, <2>2, <2>4 DEF Passed
    <3>2. Passed(u, v) <=> v < i \/ (v = i /\ u < j)
      BY <2>2, <2>4 DEF Passed
    <3> QED
      BY <1>4, <2>2, <2>4, <3>1, <3>2
  <2> QED
    BY <1>8, <2>2, <2>3, <2>4
<1>9. (~ Passed(i, j) /\ ~ Passed(j, i)) \/ i = j
  BY <1>4 DEF Passed
<1>10. \A u \in Index : Weights(u)' = Weights(u) /\ DOMAIN Weights(u) = Index
  BY <1>1, <1>3 DEF Weights
<1>11. \A u \in Index : /\ Partners(u) \subseteq Index /\ IsFiniteSet(Partners(u))
                        /\ Lists(F2[u], Partners(u), Weights(u))
  <2>1. IsFiniteSet(Index)
    BY <1>4, FS_Interval
  <2>2. \A u \in Index : Partners(u) \in SUBSET Index
    BY DEF Partners
  <2>3. \A u \in Index : IsFiniteSet(Partners(u))
    BY <2>1, <2>2, FS_Subset
  <2> QED
    BY <1>1, <1>2, <2>2, <2>3 DEF CountInv, ListsInv
<1>12. DOMAIN F2 = Index
  BY <1>1, <1>2 DEF CountInv, ListsInv
<1>13. \A u, v \in Index :
         v \in Partners(u)' <=> v # u /\ Passed(u, v)' /\ two_items[CellOf(u, v)] >= support
  <2>1. UNCHANGED <<two_items, support>>
    BY <1>1 DEF inputs
  <2> QED
    BY <1>3, <2>1 DEF Partners
<1>14. \A u, v \in Index :
         v \in Partners(u) <=> v # u /\ Passed(u, v) /\ two_items[CellOf(u, v)] >= support
  BY DEF Partners
<1>15. \A u \in Index : Partners(u)' \subseteq Index
  BY <1>3 DEF Partners
<1>16. CellOf(j, i) = k
  BY <1>4, <1>5, CellInjective
<1>17. ASSUME NEW u \in Index, NEW v \in Index
       PROVE  v \in Partners(u)' <=>
                \/ v \in Partners(u)
                \/ add /\ ((u = i /\ v = j) \/ (u = j /\ v = i))
  <2>1. CASE u = v
    BY <1>13, <1>14, <2>1
  <2>2. CASE u # v
    <3>1. Passed(u, v)' <=> Passed(u, v) \/ (u = i /\ v = j) \/ (u = j /\ v = i)
      BY <1>8, <2>2
    <3>2. (u = i /\ v = j) \/ (u = j /\ v = i) => two_items[CellOf(u, v)] = w
      BY <1>4, <1>16
    <3> HIDE DEF w
    <3> QED
      BY <1>13, <1>14, <2>2, <3>1, <3>2
  <2> QED
    BY <2>1, <2>2
<1>18. ASSUME NEW u \in Index
       PROVE  Partners(u)' = Partners(u) \cup
                (IF add /\ u = i THEN {j} ELSE IF add /\ u = j THEN {i} ELSE {})
  <2> HIDE DEF add, Index
  <2>1. CASE add /\ u = i
    <3>1. i # j
      BY <2>1 DEF add
    <3> QED
      BY <1>5, <1>11, <1>15, <1>17, <2>1, <3>1
  <2>2. CASE add /\ u # i /\ u = j
    BY <1>5, <1>11, <1>15, <1>17, <2>2
  <2>3. CASE ~ add \/ (u # i /\ u # j)
    BY <1>5, <1>11, <1>15, <1>17, <2>3
  <2> QED
    BY <2>1, <2>2, <2>3
<1>19. DOMAIN F2' = Index
  <2>1. DOMAIN AddEdge(F2, i, j, w) = DOMAIN F2
    BY DEF AddEdge
  <2> QED
    BY <1>1, <1>12, <2>1
<1>20. add => /\ F2'[i] = AddToList(F2[i], j, w)
              /\ F2'[j] = AddToList(F2[j], i, w)
              /\ \A u \in Index : u # i /\ u # j => F2'[u] = F2[u]
  BY <1>1, <1>5, <1>12 DEF AddEdge
<1>21. ASSUME NEW u \in Index
       PROVE  Lists(F2'[u], Partners(u)', Weights(u))
  <2>1. CASE add /\ u = i
    <3>1. j \in Index /\ j \notin Partners(u)
      BY <1>5, <1>9, <1>14, <2>1
    <3>2. Weights(u)[j] = w
      BY <1>4, <1>5, <1>16, <2>1 DEF Weights
    <3>3. /\ IsFiniteSet(Partners(u)) /\ Partners(u) \subseteq DOMAIN Weights(u)
          /\ Lists(F2[u], Partners(u), Weights(u))
          /\ j \in DOMAIN Weights(u) /\ DOMAIN Weights(u) \in SUBSET Int
      <4>1. DOMAIN Weights(u) = Index
        BY <1>10
      <4> QED
        BY <1>11, <3>1, <4>1
    <3>4. Weights(u)[j] \in 0 .. NumTxn
      BY <1>6, <3>2
    <3>5. Lists(AddToList(F2[u], j, Weights(u)[j]), Partners(u) \cup {j}, Weights(u))
      BY <3>1, <3>3, <3>4, ListGrows
    <3>6. Partners(u)' = Partners(u) \cup {j}
      <4>1. i # j
        BY <2>1
      <4> HIDE DEF add
      <4> QED
        BY <1>18, <2>1, <4>1
    <3>7. F2'[u] = AddToList(F2[u], j, w)
      BY <1>20, <2>1
    <3> QED
      BY <3>2, <3>5, <3>6, <3>7
  <2>2. CASE add /\ u = j
    <3>1. i \in Index /\ i \notin Partners(u)
      BY <1>5, <1>9, <1>14, <2>2
    <3>2. Weights(u)[i] = w
      BY <1>4, <1>5, <1>16, <2>2 DEF Weights
    <3>3. /\ IsFiniteSet(Partners(u)) /\ Partners(u) \subseteq DOMAIN Weights(u)
          /\ Lists(F2[u], Partners(u), Weights(u))
          /\ i \in DOMAIN Weights(u) /\ DOMAIN Weights(u) \in SUBSET Int
      <4>1. DOMAIN Weights(u) = Index
        BY <1>10
      <4> QED
        BY <1>11, <3>1, <4>1
    <3>4. Weights(u)[i] \in 0 .. NumTxn
      BY <1>6, <3>2
    <3>5. Lists(AddToList(F2[u], i, Weights(u)[i]), Partners(u) \cup {i}, Weights(u))
      BY <3>1, <3>3, <3>4, ListGrows
    <3>6. Partners(u)' = Partners(u) \cup {i}
      <4>1. i # j
        BY <2>2
      <4> HIDE DEF add
      <4> QED
        BY <1>18, <2>2, <4>1
    <3>7. F2'[u] = AddToList(F2[u], i, w)
      BY <1>20, <2>2
    <3> QED
      BY <3>2, <3>5, <3>6, <3>7
  <2>3. CASE ~ add \/ (u # i /\ u # j)
    <3>1. F2'[u] = F2[u]
      BY <1>1, <1>20, <2>3
    <3>2. Partners(u)' = Partners(u)
      <4>1. Partners(u)' = Partners(u) \cup {}
        <5> HIDE DEF add
        <5> QED
          BY <1>18, <2>3
      <4> QED
        BY <4>1
    <3> QED
      BY <1>11, <3>1, <3>2
  <2> QED
    BY <2>1, <2>2, <2>3
<1>22. ListsInv'
  <2>1. \A u \in 0 .. Rows' - 1 : Lists(F2'[u], Partners(u)', Weights(u)')
    BY <1>3, <1>10, <1>21
  <2> QED
    BY <1>3, <1>19, <2>1 DEF ListsInv
<1>23. TypeOK'
  <2>1. \A u \in DOMAIN F2' :
          F2'[u] \in Seq([neighbor : 0 .. Rows' - 1, weight : 0 .. NumTxn])
    BY <1>3, <1>10, <1>19, <1>21 DEF Lists
  <2>2. \A p \in DOMAIN buf' : buf'[p] \in 0 .. CounterWidth' - 1
    BY <1>1, <1>2, <1>3 DEF TypeOK
  <2>3. k' \in Matrix' => i' \in 0 .. j' /\ j' \in 0 .. Rows' - 1
    BY <1>3, <1>4
  <2> QED
    BY <1>1, <1>2, <2>1, <2>2, <2>3 DEF TypeOK, inputs, items
<1>24. MapInv'
  BY <1>1, <1>2, <1>3 DEF MapInv, items
<1>25. ScanInv' /\ CountersExact' /\ CopyInv'
  BY <1>1 DEF ScanInv, CountersExact, CopyInv
<1>26. MatrixInv'
  <2>1. UNCHANGED <<F, db, support, two_items>>
    BY <1>1 DEF inputs
  <2>2. \A a, b : Cell(a, b)' = Cell(a, b)
    BY <1>1, <1>3 DEF Cell, Elt
  <2>3. support > 0 =>
          \A a, b \in F : a # b => two_items[Cell(a, b)'] = Support(db, {a, b})
    BY <1>1, <1>2, <2>2 DEF MatrixInv
  <2> QED
    BY <2>1, <2>3 DEF MatrixInv
<1> QED
  BY <1>3, <1>7, <1>22, <1>23, <1>24, <1>25, <1>26 DEF CountInv

\* The walk has passed the whole matrix.
LEMMA PrunedStep ==
  ASSUME CountInv, Pruned
  PROVE  CountInv'
<1>1. /\ pc = "prune" /\ pc' = "done" /\ k \notin Matrix
      /\ UNCHANGED <<inputs, items, F, item_f, tid, buf, two_items, loops, F2>>
  BY DEF Pruned
<1>2. TypeOK /\ MapInv /\ Pairwise /\ MatrixInv
  BY <1>1 DEF CountInv, Pairwise
<1>3. /\ ItemsInv' /\ LargeInv' /\ Pairwise'
      /\ m1' = m1 /\ Rows' = Rows /\ Matrix' = Matrix
      /\ CounterWidth' = CounterWidth
      /\ \A u, v : Elt(u, v)' = Elt(u, v) /\ CellOf(u, v)' = CellOf(u, v)
  BY <1>1, ItemsKept
<1>4. Rows \in Nat
  BY <1>1, RowFacts
<1>5. UNCHANGED <<i, j, k, F2, two_items, support, db, F>>
  BY <1>1 DEF loops, inputs
<1>6. i = Rows
  <2> SUFFICES ASSUME j \in 0 .. Rows - 1, i \in 0 .. j, k = Elt(i, j)
               PROVE  FALSE
    BY <1>1, <1>2 DEF CountInv, WalkInv
  <2>1. i \in 0 .. Rows /\ j \in Nat
    BY <1>4
  <2>2. Elt(i, j) = Place(Rows, i, j) /\ Matrix = 0 .. Half(Rows) - 1
    BY <1>4, <2>1, EltPlace
  <2>3. Place(Rows, i, j) \in 0 .. Half(Rows) - 1
    BY <1>4, PlaceBounds
  <2> QED
    BY <1>1, <2>2, <2>3
<1>7. WalkInv'
  BY <1>1, <1>3, <1>5, <1>6 DEF WalkInv
<1>8. TypeOK'
  <2>1. \A u \in DOMAIN F2' :
          F2'[u] \in Seq([neighbor : 0 .. Rows' - 1, weight : 0 .. NumTxn])
    BY <1>1, <1>2, <1>3 DEF TypeOK
  <2>2. \A p \in DOMAIN buf' : buf'[p] \in 0 .. CounterWidth' - 1
    BY <1>1, <1>2, <1>3 DEF TypeOK
  <2> QED
    BY <1>1, <1>2, <2>1, <2>2 DEF TypeOK, inputs, items
<1>9. MapInv'
  BY <1>1, <1>2, <1>3 DEF MapInv, items
<1>10. ScanInv' /\ CountersExact' /\ CopyInv'
  BY <1>1 DEF ScanInv, CountersExact, CopyInv
<1>11. MatrixInv'
  <2>1. \A a, b : Cell(a, b)' = Cell(a, b)
    BY <1>1, <1>3 DEF Cell, Elt
  <2>2. support > 0 =>
          \A a, b \in F : a # b => two_items[Cell(a, b)'] = Support(db, {a, b})
    BY <1>1, <1>2, <2>1 DEF MatrixInv
  <2> QED
    BY <1>5, <2>2 DEF MatrixInv
<1>12. ListsInv'
  <2>1. \A u : Weights(u)' = Weights(u)
    BY <1>3, <1>5 DEF Weights
  <2>2. \A u, v : Passed(u, v)' <=> Passed(u, v)
    BY <1>5 DEF Passed
  <2>3. \A u : Partners(u)' = Partners(u)
    BY <1>3, <1>5, <2>2 DEF Partners
  <2>4. /\ DOMAIN F2' = 0 .. Rows' - 1
        /\ \A u \in 0 .. Rows' - 1 : Lists(F2'[u], Partners(u)', Weights(u)')
    BY <1>1, <1>2, <1>3, <1>5, <2>1, <2>3 DEF CountInv, ListsInv
  <2> QED
    BY <2>4 DEF ListsInv
<1> QED
  BY <1>3, <1>7, <1>8, <1>9, <1>10, <1>11, <1>12 DEF CountInv

LEMMA StutterStep ==
  ASSUME CountInv, UNCHANGED vars
  PROVE  CountInv'
<1>1. UNCHANGED <<inputs, items, F, item_f, tid, buf, two_items, i, j, k, F2, pc>>
  BY DEF vars, loops
<1>2. /\ m1' = m1 /\ Rows' = Rows /\ CounterWidth' = CounterWidth
      /\ Numbered' = Numbered /\ Pairwise' = Pairwise /\ NoLists' = NoLists
  BY <1>1 DEF m1, Rows, CounterWidth, Numbered, min_count, Pairwise, NoLists,
              inputs, items
<1>3. Matrix' = Matrix
  BY <1>2 DEF Matrix
<1>4. /\ \A u, v : CellOf(u, v)' = CellOf(u, v)
      /\ \A x, y : Position(x, y)' = Position(x, y)
      /\ \A a, b : Cell(a, b)' = Cell(a, b)
      /\ \A x, y : Cell(unmap[x], unmap[y])' = Cell(unmap[x], unmap[y])
      /\ Elt(i, j)' = Elt(i, j)
      /\ Position(i, j)' = Position(i, j)
  BY <1>1, <1>2 DEF CellOf, Position, Cell, Elt, items
<1>5. TypeOK'
  BY <1>1, <1>2, <1>3 DEF CountInv, TypeOK, inputs, items
<1>6. ItemsInv' /\ LargeInv'
  BY <1>1, <1>2 DEF CountInv, ItemsInv, LargeInv, inputs, items, loops
<1>7. MapInv' /\ ScanInv'
  BY <1>1, <1>2, <1>3 DEF CountInv, MapInv, ScanInv, items
<1>8. CountersExact'
  BY <1>1, <1>4 DEF CountInv, CountersExact, inputs, items
<1>9. CopyInv'
  BY <1>1, <1>2, <1>3, <1>4 DEF CountInv, CopyInv, inputs, items
<1>10. MatrixInv'
  BY <1>1, <1>2, <1>4 DEF CountInv, MatrixInv, inputs
<1>11. WalkInv'
  BY <1>1, <1>2, <1>3, <1>4 DEF CountInv, WalkInv
<1>12. ListsInv'
  <2>1. \A u : Weights(u)' = Weights(u)
    BY <1>1, <1>2, <1>4 DEF Weights
  <2>2. \A u, v : Passed(u, v)' <=> Passed(u, v)
    BY <1>1 DEF Passed
  <2>3. \A u : Partners(u)' = Partners(u)
    BY <1>1, <1>2, <1>4, <2>2 DEF Partners, inputs
  <2> QED
    BY <1>1, <1>2, <2>1, <2>3 DEF CountInv, ListsInv
<1> QED
  BY <1>5, <1>6, <1>7, <1>8, <1>9, <1>10, <1>11, <1>12 DEF CountInv

-----------------------------------------------------------------------------
(* The theorems.                                                           *)

\* The inductive invariant holds of every run of the counter.
THEOREM Invariance == Spec => []CountInv
<1>1. CountInv /\ [Next]_vars => CountInv'
  BY StutterStep, CountItemsStep, LargeItemsStep, MapItemsStep, CountPairsStep,
     PairsCountedStep, CopyPairStep, PairsCopiedStep, PruneEntryStep, PrunedStep
  DEF Next
<1> QED
  BY InitInvariant, <1>1, PTL DEF Spec

\* The counter's variables keep their types.
THEOREM TypeCorrect == Spec => []TypeOK
<1>1. CountInv => TypeOK
  BY DEF CountInv
<1> QED
  BY Invariance, <1>1, PTL

\* While transactions are read each counter holds its own pair's count.
THEOREM ScanExact == Spec => []CountersExact
<1>1. CountInv => CountersExact
  BY DEF CountInv
<1> QED
  BY Invariance, <1>1, PTL

\* What the walk has passed at its end are the frequent pairs.
LEMMA ResultExact == CountInv => PairsExact
<1> SUFFICES ASSUME CountInv, pc = "done", support > 0
             PROVE  /\ F = {x \in Item : Frequent(db, support, {x})}
                    /\ level = 2 =>
                         /\ DOMAIN F2 = 0 .. Rows - 1
                         /\ \A u \in DOMAIN F2 :
                              LET partners == {v \in DOMAIN F2 \ {u} :
                                    Frequent(db, support, {f_item(u), f_item(v)})}
                              IN  /\ Len(F2[u]) = Cardinality(partners)
                                  /\ Range(F2[u]) =
                                       {[neighbor |-> v,
                                         weight |-> Support(db, {f_item(u), f_item(v)})] :
                                           v \in partners}
  BY DEF PairsExact
<1>1. TypeOK /\ ItemsInv /\ LargeInv /\ support \in Int
  BY DEF CountInv, TypeOK
<1>2. F = {x \in Item : Frequent(db, support, {x})}
  <2>1. F = {x \in DOMAIN count : count[x] >= support}
    BY <1>1 DEF LargeInv
  <2>2. /\ DOMAIN count = 0 .. num_items - 1 /\ DOMAIN count \subseteq Item
        /\ \A x \in DOMAIN count : count[x] = Count(db, x)
    BY NumberingFacts
  <2>3. ASSUME NEW x \in Item, Count(db, x) >= support
        PROVE  x \in DOMAIN count
    <3>1. Count(db, x) > 0
      BY <1>1, <2>3, SupportType DEF Count
    <3>2. x < num_items
      BY <1>1, <3>1 DEF ItemsInv
    <3>3. num_items \in Int
      BY <1>1 DEF TypeOK
    <3> QED
      BY <2>2, <3>2, <3>3, SizesAssumption DEF Item
  <2>4. \A x : Frequent(db, support, {x}) <=> Count(db, x) >= support
    BY DEF Frequent, Count
  <2> QED
    BY <2>1, <2>2, <2>3, <2>4
<1>3. CASE F = {}
  <2>1. F2 = << >> /\ DOMAIN << >> = {}
    BY <1>1, <1>3 DEF LargeInv, Pairwise
  <2>2. Rows = 0
    BY <1>3, FS_EmptySet DEF Rows
  <2>3. DOMAIN F2 = {} /\ 0 .. Rows - 1 = {}
    BY <2>1, <2>2
  <2> QED
    BY <1>2, <2>3
<1>4. CASE level = 2 /\ F # {}
  <2> DEFINE Index == 0 .. Rows - 1
  <2>1. Pairwise
    BY <1>4 DEF Pairwise
  <2>2. /\ Rows \in Nat
        /\ \A a \in F : item_f[a] \in Index
        /\ \A a, b \in F : item_f[a] = item_f[b] => a = b
        /\ \A u \in Index : \E a \in F : item_f[a] = u
    BY <2>1, RowFacts
  <2>3. \A u \in Index : f_item(u) \in F /\ item_f[f_item(u)] = u
    BY <2>2 DEF f_item
  <2>4. i = Rows
    BY <2>1 DEF CountInv, WalkInv
  <2>5. ASSUME NEW u \in Index, NEW v \in Index, u # v
        PROVE  /\ Passed(u, v)
               /\ two_items[CellOf(u, v)] = Support(db, {f_item(u), f_item(v)})
    <3>1. u < i /\ v < i
      BY <2>2, <2>4
    <3>2. f_item(u) # f_item(v)
      BY <2>3, <2>5
    <3>3. two_items[Cell(f_item(u), f_item(v))] = Support(db, {f_item(u), f_item(v)})
      BY <2>1, <2>3, <3>2 DEF CountInv, MatrixInv
    <3> QED
      BY <2>3, <3>1, <3>3, CellIsCellOf DEF Passed
  <2>6. DOMAIN F2 = Index /\ \A u \in Index : Lists(F2[u], Partners(u), Weights(u))
    BY <2>1 DEF CountInv, ListsInv
  <2>7. ASSUME NEW u \in Index
        PROVE  LET partners == {v \in DOMAIN F2 \ {u} :
                     Frequent(db, support, {f_item(u), f_item(v)})}
               IN  /\ Len(F2[u]) = Cardinality(partners)
                   /\ Range(F2[u]) =
                        {[neighbor |-> v,
                          weight |-> Support(db, {f_item(u), f_item(v)})] :
                            v \in partners}
    <3> DEFINE partners == {v \in DOMAIN F2 \ {u} :
                     Frequent(db, support, {f_item(u), f_item(v)})}
               Edge(v) == [neighbor |-> v,
                           weight |-> Support(db, {f_item(u), f_item(v)})]
    <3>1. partners = Partners(u)
      <4>1. ASSUME NEW v \in Index
            PROVE  v \in Partners(u) <=>
                     v # u /\ Support(db, {f_item(u), f_item(v)}) >= support
        BY <2>5, <2>7, <4>1 DEF Partners
      <4>2. Partners(u) \subseteq Index
        BY DEF Partners
      <4> QED
        BY <2>6, <4>1, <4>2 DEF Frequent
    <3>2. \A v \in partners : Weights(u)[v] = Support(db, {f_item(u), f_item(v)})
      BY <2>5, <2>6, <2>7 DEF Weights
    <3> HIDE DEF partners
    <3>3. /\ F2[u] \in Seq([neighbor : DOMAIN Weights(u), weight : 0 .. NumTxn])
          /\ Len(F2[u]) = Cardinality(partners)
          /\ \A n \in 1 .. Len(F2[u]) :
               /\ F2[u][n].neighbor \in partners
               /\ F2[u][n].weight = Weights(u)[F2[u][n].neighbor]
          /\ \A v \in partners : \E n \in 1 .. Len(F2[u]) : F2[u][n].neighbor = v
      BY <2>6, <2>7, <3>1 DEF Lists
    <3>4. DOMAIN F2[u] = 1 .. Len(F2[u])
      BY <3>3
    <3>5. ASSUME NEW n \in 1 .. Len(F2[u])
          PROVE  F2[u][n] = Edge(F2[u][n].neighbor)
      <4>1. F2[u][n] \in [neighbor : DOMAIN Weights(u), weight : 0 .. NumTxn]
        <5>1. ASSUME NEW T, NEW s \in Seq(T)
              PROVE  \A m \in 1 .. Len(s) : s[m] \in T
          OBVIOUS
        <5>2. F2[u] \in Seq([neighbor : DOMAIN Weights(u), weight : 0 .. NumTxn])
          BY <3>3
        <5> DEFINE Entry == [neighbor : DOMAIN Weights(u), weight : 0 .. NumTxn]
        <5>3. F2[u] \in Seq(Entry)
          BY <5>2
        <5>4. n \in 1 .. Len(F2[u])
          OBVIOUS
        <5> HIDE DEF Entry
        <5>5. F2[u][n] \in Entry
          BY <5>1, <5>3, <5>4
        <5> QED
          BY <5>5 DEF Entry
      <4>2. F2[u][n].weight = Support(db, {f_item(u), f_item(F2[u][n].neighbor)})
        BY <3>2, <3>3
      <4> QED
        BY <4>1, <4>2
    <3>6. Range(F2[u]) = {F2[u][n] : n \in 1 .. Len(F2[u])}
      BY <3>4 DEF Range
    <3> HIDE DEF Edge
    <3>7. Range(F2[u]) = {Edge(v) : v \in partners}
      <4>1. \A n \in 1 .. Len(F2[u]) : \E v \in partners : F2[u][n] = Edge(v)
        BY <3>3, <3>5
      <4>2. \A v \in partners : \E n \in 1 .. Len(F2[u]) : F2[u][n] = Edge(v)
        BY <3>3, <3>5
      <4> QED
        BY <3>6, <4>1, <4>2
    <3> QED
      BY <3>3, <3>7 DEF partners, Edge
  <2> QED
    BY <1>2, <2>6, <2>7
<1> QED
  BY <1>2, <1>3, <1>4

\* The counter's results are the frequent items and pairs of the database.
THEOREM ResultsExact == Spec => []PairsExact
BY Invariance, ResultExact, PTL

-----------------------------------------------------------------------------
(* The steps come to an end.                                               *)

\* What is left to do: the phases, then the transactions to read, or the rows
\* of the triangle and what is left of the row.
Phase ==
  IF pc = "items" THEN 6 ELSE IF pc = "large" THEN 5 ELSE IF pc = "map" THEN 4
  ELSE IF pc = "pairs" THEN 3 ELSE IF pc = "copy" THEN 2
  ELSE IF pc = "prune" THEN 1 ELSE 0

ToRead == IF pc = "pairs" THEN NumTxn - tid
          ELSE IF pc = "copy" THEN m1 - 1 - i
          ELSE IF pc = "prune" THEN Rows - i ELSE 0

OfRow == IF pc = "copy" /\ i < m1 - 1 THEN m1 - j
         ELSE IF pc = "prune" /\ i < Rows THEN Rows - j ELSE 0

ToDo == <<Phase, ToRead, OfRow>>

\* These are numbers.
ToDoTyped == Phase \in Nat /\ ToRead \in Nat /\ OfRow \in Nat

LEMMA Numbers == Spec => []ToDoTyped
<1>1. CountInv => ToDoTyped
  <2> SUFFICES ASSUME CountInv PROVE ToDoTyped
    OBVIOUS
  <2>1. Phase \in Nat
    BY DEF Phase
  <2>2. CASE pc = "pairs"
    <3>1. tid \in 0 .. NumTxn /\ NumTxn \in Nat
      BY SizesAssumption DEF CountInv, TypeOK
    <3>2. ToRead = NumTxn - tid /\ OfRow = 0
      BY <2>2 DEF ToRead, OfRow
    <3> QED
      BY <2>1, <3>1, <3>2 DEF ToDoTyped
  <2>3. CASE pc = "copy"
    <3>1. m1 \in Nat
      BY <2>3, SizesAssumption DEF CountInv, ItemsInv
    <3>2. i \in 0 .. m1 - 1 /\ (i < m1 - 1 => j \in i + 1 .. m1 - 1)
      BY <2>3 DEF CountInv, CopyInv
    <3>3. ToRead = m1 - 1 - i /\ OfRow = IF i < m1 - 1 THEN m1 - j ELSE 0
      BY <2>3 DEF ToRead, OfRow
    <3> HIDE DEF m1
    <3> QED
      BY <2>1, <3>1, <3>2, <3>3 DEF ToDoTyped
  <2>4. CASE pc = "prune"
    <3>1. Rows \in Nat
      BY <2>4, RowFacts
    <3>2. \/ j \in 0 .. Rows - 1 /\ i \in 0 .. j
          \/ i = Rows
      BY <2>4 DEF CountInv, WalkInv, Pairwise
    <3>3. ToRead = Rows - i /\ OfRow = IF i < Rows THEN Rows - j ELSE 0
      BY <2>4 DEF ToRead, OfRow
    <3> HIDE DEF Rows
    <3> QED
      BY <2>1, <3>1, <3>2, <3>3 DEF ToDoTyped
  <2>5. CASE pc \notin {"pairs", "copy", "prune"}
    BY <2>1, <2>5 DEF ToDoTyped, ToRead, OfRow
  <2> QED
    BY <2>2, <2>3, <2>4, <2>5
<1> QED
  BY <1>1, Invariance, PTL

LEMMA ToDoFalls ==
  ASSUME ToDoTyped, ToDoTyped',
         \/ Phase' < Phase
         \/ Phase' = Phase /\ ToRead' < ToRead
         \/ Phase' = Phase /\ ToRead' = ToRead /\ OfRow' < OfRow
  PROVE  Falls(3, ToDo, ToDo')
<1> DEFINE a == Phase
           b == ToRead
           c == OfRow
           a2 == Phase'
           b2 == ToRead'
           c2 == OfRow'
<1>1. /\ a \in Nat /\ b \in Nat /\ c \in Nat
      /\ a2 \in Nat /\ b2 \in Nat /\ c2 \in Nat
  BY DEF ToDoTyped
<1>2. \/ a2 < a
      \/ a2 = a /\ b2 < b
      \/ a2 = a /\ b2 = b /\ c2 < c
  OBVIOUS
<1>3. ToDo = <<a, b, c>> /\ ToDo' = <<a2, b2, c2>>
  BY DEF ToDo
<1> HIDE DEF a, b, c, a2, b2, c2
<1> QED
  BY <1>1, <1>2, <1>3, FallsThree

\* Each step of the counter leaves less to do, in the order of these numbers:
\* it comes to its end (FallsEnd), and both loops over the triangle with it.
THEOREM StepsRunOut == Spec => [][Falls(3, ToDo, ToDo')]_vars
<1>1. CountInv /\ ToDoTyped /\ ToDoTyped' /\ [Next]_vars => [Falls(3, ToDo, ToDo')]_vars
  <2> SUFFICES ASSUME CountInv, ToDoTyped, ToDoTyped', Next
               PROVE  Falls(3, ToDo, ToDo')
    OBVIOUS
  <2>1. CASE \/ CountItems \/ LargeItems \/ MapItems \/ PairsCounted
             \/ PairsCopied \/ Pruned
    <3>1. Phase' < Phase
      BY <2>1 DEF CountItems, LargeItems, MapItems, PairsCounted, PairsCopied, Pruned,
                  Phase
    <3> QED
      BY <3>1, ToDoFalls
  <2>2. CASE CountPairs
    <3>1. Phase' = Phase
      BY <2>2 DEF CountPairs, Phase
    <3>2. ToRead = NumTxn - tid /\ ToRead' = NumTxn - (tid + 1)
      BY <2>2 DEF CountPairs, ToRead
    <3>3. tid \in 0 .. NumTxn /\ NumTxn \in Nat
      BY SizesAssumption DEF CountInv, TypeOK
    <3>4. ToRead' < ToRead
      BY ONLY <3>2, <3>3
    <3> QED
      BY <3>1, <3>4, ToDoFalls
  <2>3. CASE CopyPair
    <3>1. Phase' = Phase /\ pc = "copy" /\ pc' = "copy" /\ m1' = m1
      <4>1. pc = "copy" /\ pc' = pc /\ unmap' = unmap
        BY <2>3 DEF CopyPair, items
      <4> QED
        BY <4>1 DEF Phase, m1
    <3>2. m1 \in Nat
      BY <3>1, SizesAssumption DEF CountInv, ItemsInv
    <3>3. i < m1 - 1 /\ i \in 0 .. m1 - 1 /\ j \in i + 1 .. m1 - 1
      BY <2>3 DEF CopyPair, CountInv, CopyInv
    <3> DEFINE u == i'
               v == j'
               m == m1
    <3>4. /\ u = IF j = m - 1 THEN i + 1 ELSE i
          /\ v = IF j = m - 1 THEN i + 2 ELSE j + 1
      BY <2>3 DEF CopyPair
    <3>5. /\ ToRead = m - 1 - i /\ OfRow = m - j
          /\ ToRead' = m - 1 - u /\ OfRow' = IF u < m - 1 THEN m - v ELSE 0
      BY <3>1, <3>3 DEF ToRead, OfRow
    <3>6. m \in Nat /\ i < m - 1 /\ i \in 0 .. m - 1 /\ j \in i + 1 .. m - 1
      BY <3>2, <3>3
    <3> HIDE DEF u, v, m
    <3>7. CASE j = m - 1
      <4>1. ToRead' < ToRead
        BY ONLY <3>4, <3>5, <3>6, <3>7
      <4> QED
        BY <3>1, <4>1, ToDoFalls
    <3>8. CASE j # m - 1
      <4>1. ToRead' = ToRead /\ OfRow' < OfRow
        BY ONLY <3>4, <3>5, <3>6, <3>8
      <4> QED
        BY <3>1, <4>1, ToDoFalls
    <3> QED
      BY <3>7, <3>8
  <2>4. CASE PruneEntry
    <3>1. Phase' = Phase /\ pc = "prune" /\ pc' = "prune" /\ Rows' = Rows
      BY <2>4 DEF PruneEntry, Phase, Rows
    <3>2. Rows \in Nat
      BY <3>1, RowFacts
    <3>3. j \in 0 .. Rows - 1 /\ i \in 0 .. j
      BY <2>4 DEF PruneEntry, CountInv, WalkInv, Pairwise
    <3> DEFINE u == i'
               v == j'
               m == Rows
    <3>4. /\ u = IF j + 1 = m THEN i + 1 ELSE i
          /\ v = IF j + 1 = m THEN i + 1 ELSE j + 1
      BY <2>4 DEF PruneEntry, NextEntry
    <3>5. /\ ToRead = m - i /\ OfRow = IF i < m THEN m - j ELSE 0
          /\ ToRead' = m - u /\ OfRow' = IF u < m THEN m - v ELSE 0
      BY <3>1, <3>3 DEF ToRead, OfRow
    <3>6. m \in Nat /\ j \in 0 .. m - 1 /\ i \in 0 .. j
      BY <3>2, <3>3
    <3> HIDE DEF u, v, m
    <3>7. CASE j + 1 = m
      <4>1. ToRead' < ToRead
        BY ONLY <3>4, <3>5, <3>6, <3>7
      <4> QED
        BY <3>1, <4>1, ToDoFalls
    <3>8. CASE j + 1 # m
      <4>1. ToRead' = ToRead /\ OfRow' < OfRow
        BY ONLY <3>4, <3>5, <3>6, <3>8
      <4> QED
        BY <3>1, <4>1, ToDoFalls
    <3> QED
      BY <3>7, <3>8
  <2> QED
    BY <2>1, <2>2, <2>3, <2>4 DEF Next
<1> QED
  BY <1>1, Invariance, Numbers, PTL DEF Spec
=============================================================================
