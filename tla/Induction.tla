-------------------------------- MODULE Induction ------------------------------
(***************************************************************************)
(* Induction on the natural numbers, for sets of numbers rather than for   *)
(* predicates, so that it can be cited for any property; what follows from *)
(* it for a sequence of pieces that are joined; and division, which the    *)
(* provers know for numerals only.                                         *)
(***************************************************************************)
EXTENDS Integers, SequencesExt, SequenceTheorems, WellFoundedInduction, TLAPS

\* Every set of numbers has a least one.
LEMMA LeastNumber ==
  ASSUME NEW T \in SUBSET Nat, T # {}
  PROVE  \E x \in T : \A y \in T : x <= y
<1> DEFINE R == OpToRel(<, Nat)
<1>1. IsWellFoundedOn(R, Nat)
  BY NatLessThanWellFounded
<1>2. \A x, y \in Nat : <<x, y>> \in R <=> x < y
  BY DEF OpToRel
<1> HIDE DEF R
<1>3. PICK x \in T : \A y \in T : ~(<<y, x>> \in R)
  <2>1. \E x \in T : \A y \in T : ~(<<y, x>> \in R)
    BY <1>1, WFMin
  <2> QED
    BY <2>1
<1>4. \A y \in T : ~(y < x)
  BY <1>2, <1>3
<1>5. \A y \in T : x \in Nat /\ y \in Nat
  OBVIOUS
<1> QED
  BY <1>4, <1>5

\* A set that has 0, and n + 1 whenever it has n, has every number.
LEMMA NumberInduction ==
  ASSUME NEW S, 0 \in S, \A n \in Nat : n \in S => n + 1 \in S
  PROVE  \A n \in Nat : n \in S
<1> SUFFICES ASSUME Nat \ S # {} PROVE FALSE
  OBVIOUS
<1>1. PICK m \in Nat \ S : \A k \in Nat \ S : m <= k
  BY LeastNumber
<1>2. m - 1 \in Nat /\ m - 1 \notin Nat \ S
  BY <1>1
<1> QED
  BY <1>2

--------------------------------------------------------------------------------
\* Remainders

LEMMA RemainderIs ==
  ASSUME NEW b \in Nat \ {0}, NEW q \in Int, NEW r \in 0 .. b - 1
  PROVE  (b * q + r) % b = r
OBVIOUS

LEMMA Division ==
  ASSUME NEW b \in Nat \ {0}, NEW x \in Int
  PROVE  \E q \in Int, r \in 0 .. b - 1 : x = b * q + r /\ x % b = r
<1>1. x = b * (x \div b) + (x % b)
  OBVIOUS
<1>2. x \div b \in Int
  OBVIOUS
<1>3. x % b \in 0 .. b - 1
  OBVIOUS
<1> QED
  BY <1>1, <1>2, <1>3

LEMMA Distribute ==
  ASSUME NEW a \in Int, NEW b \in Int, NEW c \in Int
  PROVE  a * (b + c) = a * b + a * c
OBVIOUS

LEMMA RemainderShift ==
  ASSUME NEW b \in Nat \ {0}, NEW x \in Int, NEW m \in Int
  PROVE  (x + b * m) % b = x % b
<1>1. PICK q \in Int, r \in 0 .. b - 1 : x = b * q + r /\ x % b = r
  BY Division
<1>2. b * (q + m) = b * q + b * m
  BY Distribute
<1>3. q + m \in Int /\ b * q \in Int /\ b * m \in Int
  OBVIOUS
<1>4. x + b * m = b * (q + m) + r
  BY <1>1, <1>2, <1>3
<1>5. (b * (q + m) + r) % b = r
  BY <1>3, RemainderIs
<1> QED
  BY <1>1, <1>4, <1>5

Divides(b, n) == \E u \in Nat : n = b * u

LEMMA RemainderTwice ==
  ASSUME NEW b \in Nat \ {0}, NEW n \in Nat \ {0}, Divides(b, n), NEW x \in Int
  PROVE  (x % n) % b = x % b
<1> PICK u \in Nat : n = b * u
  BY DEF Divides
<1>1. PICK q \in Int, r \in 0 .. n - 1 : x = n * q + r /\ x % n = r
  BY Division
<1>2. u * q \in Int /\ r \in Int
  OBVIOUS
<1>3. n * q = b * (u * q)
  OBVIOUS
<1>4. x = r + b * (u * q)
  BY <1>1, <1>2, <1>3
<1>5. (r + b * (u * q)) % b = r % b
  BY <1>2, RemainderShift
<1> QED
  BY <1>1, <1>4, <1>5

--------------------------------------------------------------------------------
\* Joined pieces

\* The first n pieces joined one by one, up to each
Joins(F, s, n) ==
  /\ F[1] = s[1]
  /\ \A i \in 1 .. n : i < n => F[i + 1] = F[i] \o s[i + 1]

LEMMA JoinMore ==
  ASSUME NEW S, NEW s \in Seq(Seq(S)), NEW n \in Nat, n + 1 < Len(s),
         NEW F \in [1 .. n + 1 -> Seq(S)], Joins(F, s, n + 1)
  PROVE  \E G \in [1 .. n + 2 -> Seq(S)] : Joins(G, s, n + 2)
<1> DEFINE last == F[n + 1] \o s[n + 2]
           G == [i \in 1 .. n + 2 |-> IF i = n + 2 THEN last ELSE F[i]]
<1>1. last \in Seq(S)
  <2>1. F[n + 1] \in Seq(S) /\ s[n + 2] \in Seq(S)
    BY LenProperties, ElementOfSeq
  <2> QED
    BY <2>1, ConcatProperties
<1>2. last = F[n + 1] \o s[n + 2]
  OBVIOUS
<1> HIDE DEF last
<1>3. G \in [1 .. n + 2 -> Seq(S)]
  BY <1>1
<1>4. G[n + 2] = last /\ \A i \in 1 .. n + 1 : G[i] = F[i]
  OBVIOUS
<1> HIDE DEF G
<1>5. ASSUME NEW i \in 1 .. n + 1 PROVE G[i + 1] = G[i] \o s[i + 1]
  <2>1. CASE i = n + 1
    <3>1. i + 1 = n + 2 /\ G[i] = F[n + 1]
      BY <1>4, <2>1
    <3> QED
      BY <1>2, <1>4, <3>1
  <2>2. CASE i # n + 1
    <3>1. i < n + 1 /\ i + 1 \in 1 .. n + 1
      BY <2>2
    <3>2. F[i + 1] = F[i] \o s[i + 1]
      BY <3>1 DEF Joins
    <3>3. G[i] = F[i] /\ G[i + 1] = F[i + 1]
      BY <1>4, <3>1
    <3> QED
      BY <3>2, <3>3
  <2> QED
    BY <2>1, <2>2
<1>6. G[1] = s[1]
  BY <1>4 DEF Joins
<1>7. Joins(G, s, n + 2)
  <2>1. \A i \in 1 .. n + 2 : i < n + 2 => i \in 1 .. n + 1
    OBVIOUS
  <2> QED
    BY <1>5, <1>6, <2>1 DEF Joins
<1> QED
  BY <1>3, <1>7

LEMMA JoinAll ==
  ASSUME NEW S, NEW s \in Seq(Seq(S)), Len(s) # 0
  PROVE  \E F \in [1 .. Len(s) -> Seq(S)] : Joins(F, s, Len(s))
<1> DEFINE N == {n \in Nat : n < Len(s) => \E F \in [1 .. n + 1 -> Seq(S)] : Joins(F, s, n + 1)}
<1>1. Len(s) \in Nat \ {0} /\ s[1] \in Seq(S)
  BY LenProperties, ElementOfSeq
<1>2. \A n \in Nat : n \in N <=>
        (n < Len(s) => \E F \in [1 .. n + 1 -> Seq(S)] : Joins(F, s, n + 1))
  OBVIOUS
<1> HIDE DEF N
<1>3. 0 \in N
  <2> DEFINE F == [i \in 1 .. 0 + 1 |-> s[1]]
  <2>1. F \in [1 .. 0 + 1 -> Seq(S)] /\ Joins(F, s, 0 + 1)
    BY <1>1 DEF Joins
  <2> HIDE DEF F
  <2> QED
    BY <1>2, <2>1
<1>4. ASSUME NEW n \in Nat, n \in N PROVE n + 1 \in N
  <2>1. SUFFICES ASSUME n + 1 < Len(s)
                 PROVE  \E F \in [1 .. n + 1 + 1 -> Seq(S)] : Joins(F, s, n + 1 + 1)
    BY <1>2
  <2>2. PICK F \in [1 .. n + 1 -> Seq(S)] : Joins(F, s, n + 1)
    BY <1>1, <1>2, <1>4, <2>1
  <2>3. \E G \in [1 .. n + 2 -> Seq(S)] : Joins(G, s, n + 2)
    BY <2>1, <2>2, JoinMore
  <2>4. n + 1 + 1 = n + 2
    OBVIOUS
  <2> QED
    BY <2>3, <2>4
<1>5. \A n \in Nat : n \in N
  BY <1>3, <1>4, NumberInduction
<1>6. Len(s) - 1 \in Nat /\ Len(s) - 1 < Len(s) /\ Len(s) - 1 + 1 = Len(s)
  BY <1>1
<1>7. \E F \in [1 .. Len(s) - 1 + 1 -> Seq(S)] : Joins(F, s, Len(s) - 1 + 1)
  BY <1>2, <1>5, <1>6
<1> QED
  BY <1>6, <1>7

\* FlattenSeq joins the pieces one by one.
LEMMA FlattenJoins ==
  ASSUME NEW S, NEW s \in Seq(Seq(S)), Len(s) # 0
  PROVE  \E F \in [1 .. Len(s) -> Seq(S)] : Joins(F, s, Len(s)) /\ FlattenSeq(s) = F[Len(s)]
<1> DEFINE l == Len(s)
           IsJoin(F) == F = [i \in 1 .. l |-> IF i = 1 THEN s[i] ELSE F[i - 1] \o s[i]]
           F == CHOOSE G : IsJoin(G)
<1>1. l \in Nat \ {0}
  BY LenProperties
<1>2. FlattenSeq(s) = F[l]
  BY <1>1 DEF FlattenSeq
<1> HIDE DEF l
<1>3. PICK G \in [1 .. l -> Seq(S)] : Joins(G, s, l)
  BY JoinAll DEF l
<1>4. IsJoin(G)
  <2>1. ASSUME NEW i \in 1 .. l PROVE G[i] = IF i = 1 THEN s[i] ELSE G[i - 1] \o s[i]
    <3>1. CASE i = 1
      BY <1>3, <3>1 DEF Joins
    <3>2. CASE i # 1
      <4>1. i - 1 \in 1 .. l /\ i - 1 < l /\ i - 1 + 1 = i
        BY <1>1, <3>2
      <4>2. G[i - 1 + 1] = G[i - 1] \o s[i - 1 + 1]
        BY <1>3, <4>1 DEF Joins
      <4> QED
        BY <3>2, <4>1, <4>2
    <3> QED
      BY <3>1, <3>2
  <2>2. G = [i \in 1 .. l |-> G[i]]
    OBVIOUS
  <2> QED
    BY <2>1, <2>2
<1>5. IsJoin(F)
  <2> HIDE DEF IsJoin
  <2> QED
    BY <1>4
<1> HIDE DEF F
<1>6. \A i \in 1 .. l : F[i] = IF i = 1 THEN s[i] ELSE F[i - 1] \o s[i]
  BY <1>5
<1>7. \A i \in 1 .. l : G[i] = IF i = 1 THEN s[i] ELSE G[i - 1] \o s[i]
  BY <1>4
<1> HIDE DEF IsJoin
<1>8. \A n \in Nat : n < l => F[n + 1] = G[n + 1]
  <2> DEFINE N == {n \in Nat : n < l => F[n + 1] = G[n + 1]}
  <2>1. \A n \in Nat : n \in N <=> (n < l => F[n + 1] = G[n + 1])
    OBVIOUS
  <2> HIDE DEF N
  <2>2. 0 \in N
    <3>1. 1 \in 1 .. l /\ 0 + 1 = 1
      BY <1>1
    <3>2. F[1] = s[1] /\ G[1] = s[1]
      BY <1>6, <1>7, <3>1
    <3> QED
      BY <2>1, <3>1, <3>2
  <2>3. ASSUME NEW n \in Nat, n \in N PROVE n + 1 \in N
    <3>1. SUFFICES ASSUME n + 1 < l PROVE F[n + 1 + 1] = G[n + 1 + 1]
      BY <2>1
    <3> DEFINE m == n + 2
    <3>2. m \in 1 .. l /\ m # 1 /\ m - 1 = n + 1 /\ m = n + 1 + 1
      BY <1>1, <3>1
    <3> HIDE DEF m
    <3>3. F[m - 1] = G[m - 1]
      BY <1>1, <2>1, <2>3, <3>1, <3>2
    <3>4. F[m] = F[m - 1] \o s[m] /\ G[m] = G[m - 1] \o s[m]
      BY <1>6, <1>7, <3>2
    <3> QED
      BY <3>2, <3>3, <3>4
  <2>4. \A n \in Nat : n \in N
    BY <2>2, <2>3, NumberInduction
  <2> QED
    BY <2>1, <2>4
<1>9. F[l] = G[l]
  <2>1. l - 1 \in Nat /\ l - 1 < l /\ l - 1 + 1 = l
    BY <1>1
  <2> QED
    BY <1>8, <2>1
<1> QED
  BY <1>2, <1>3, <1>9 DEF l

\* Where the blocks of a row begin
LEMMA BlocksAscend ==
  ASSUME NEW b \in Nat, NEW j \in Nat, NEW n \in Nat, j <= n
  PROVE  b * j \in Nat /\ b * n \in Nat /\ b * j <= b * n /\ b * (n + 1) = b * n + b
<1>1. PICK d \in Nat : n = j + d
  <2>1. n - j \in Nat /\ n = j + (n - j)
    OBVIOUS
  <2> QED
    BY <2>1
<1>2. b * n = b * j + b * d /\ b * d \in Nat /\ b * j \in Nat
  BY <1>1
<1> QED
  BY <1>2

\* Every place of a row of n blocks is one in one of them.
LEMMA PlaceInBlock ==
  ASSUME NEW b \in Nat \ {0}, NEW n \in Nat, NEW k \in 1 .. b * n
  PROVE  \E j \in 0 .. n - 1, i \in 1 .. b : k = b * j + i
<1> DEFINE j == (k - 1) \div b
           r == (k - 1) % b
<1>1. b * n \in Nat
  OBVIOUS
<1>2. k - 1 \in Nat /\ k \in Nat
  BY <1>1
<1>3. k - 1 = b * j + r /\ r \in 0 .. b - 1 /\ j \in Int
  BY <1>2
<1> HIDE DEF j, r
<1>4. j >= 0
  <2>1. SUFFICES ASSUME j + 1 <= 0 PROVE FALSE
    BY <1>3
  <2>2. PICK e \in Nat : j + 1 = 0 - e
    <3>1. 0 - (j + 1) \in Nat /\ j + 1 = 0 - (0 - (j + 1))
      BY <1>3, <2>1
    <3> QED
      BY <3>1
  <2>3. j = 0 - e - 1
    BY <1>3, <2>2
  <2>4. b * j = 0 - b * e - b /\ b * e \in Nat
    BY <2>3
  <2> QED
    BY <1>2, <1>3, <2>4
<1>5. j < n
  <2>1. SUFFICES ASSUME n <= j PROVE FALSE
    BY <1>3
  <2>2. b * n <= b * j /\ b * j \in Nat
    BY <1>3, <1>4, <2>1, BlocksAscend
  <2> QED
    BY <1>1, <1>2, <1>3, <2>2
<1>6. j \in 0 .. n - 1 /\ r + 1 \in 1 .. b /\ k = b * j + (r + 1)
  <2>1. b * j \in Int
    BY <1>3
  <2> QED
    BY <1>2, <1>3, <1>4, <1>5, <2>1
<1> QED
  BY <1>6

\* Two pieces joined
LEMMA PairJoined ==
  ASSUME NEW S, NEW u \in Seq(S), NEW v \in Seq(S)
  PROVE  /\ u \o v \in Seq(S)  /\ Len(u \o v) = Len(u) + Len(v)
         /\ \A k \in 1 .. Len(u) : (u \o v)[k] = u[k]
         /\ \A k \in 1 .. Len(v) : (u \o v)[Len(u) + k] = v[k]
<1> DEFINE w == u \o v
<1>1. /\ w \in Seq(S)  /\ Len(w) = Len(u) + Len(v)  /\ Len(u) \in Nat  /\ Len(v) \in Nat
      /\ \A k \in 1 .. Len(u) + Len(v) : w[k] = IF k <= Len(u) THEN u[k] ELSE v[k - Len(u)]
  BY ConcatProperties, LenProperties
<1> HIDE DEF w
<1>2. ASSUME NEW k \in 1 .. Len(u) PROVE w[k] = u[k]
  BY <1>1
<1>3. ASSUME NEW k \in 1 .. Len(v) PROVE w[Len(u) + k] = v[k]
  <2>1. Len(u) + k \in 1 .. Len(u) + Len(v) /\ ~(Len(u) + k <= Len(u)) /\ Len(u) + k - Len(u) = k
    BY <1>1
  <2> QED
    BY <1>1, <2>1
<1> QED
  BY <1>1, <1>2, <1>3 DEF w

\* In w lie the first n pieces of s, each b long.
BlocksLie(w, s, b, n) ==
  /\ Len(w) = b * n
  /\ \A j \in Nat, i \in 1 .. b : j < n => w[b * j + i] = s[j + 1][i]

\* Blocks of one length lie at multiples of it.
LEMMA FlattenBlocks ==
  ASSUME NEW S, NEW b \in Nat, NEW s \in Seq(Seq(S)), Len(s) # 0,
         \A j \in 1 .. Len(s) : Len(s[j]) = b
  PROVE  FlattenSeq(s) \in Seq(S) /\ BlocksLie(FlattenSeq(s), s, b, Len(s))
<1>1. Len(s) \in Nat \ {0} /\ \A j \in 1 .. Len(s) : s[j] \in Seq(S)
  BY LenProperties, ElementOfSeq
<1>2. PICK F \in [1 .. Len(s) -> Seq(S)] : Joins(F, s, Len(s)) /\ FlattenSeq(s) = F[Len(s)]
  BY FlattenJoins
<1> DEFINE Upto(n) == BlocksLie(F[n], s, b, n)
           N == {n \in Nat : n < Len(s) => Upto(n + 1)}
<1>3. \A n \in Nat : n \in N <=> (n < Len(s) => Upto(n + 1))
  OBVIOUS
<1> HIDE DEF N
<1>4. 0 \in N
  <2>1. F[1] = s[1] /\ 1 \in 1 .. Len(s)
    BY <1>1, <1>2 DEF Joins
  <2>2. Len(s[1]) = b /\ b * 1 = b /\ 0 + 1 = 1 /\ b * 0 = 0
    BY <2>1
  <2>3. ASSUME NEW j \in Nat, NEW i \in 1 .. b, j < 1 PROVE F[1][b * j + i] = s[j + 1][i]
    <3>1. j = 0 /\ 0 + i = i
      BY <2>3
    <3> QED
      BY <2>1, <2>2, <3>1
  <2>4. Upto(1)
    BY <2>1, <2>2, <2>3 DEF BlocksLie
  <2> QED
    BY <1>3, <2>2, <2>4
<1>5. ASSUME NEW n \in Nat, n \in N PROVE n + 1 \in N
  <2>1. SUFFICES ASSUME n + 1 < Len(s) PROVE Upto(n + 1 + 1)
    BY <1>3
  <2> DEFINE m == n + 1
  <2>2. m \in Nat /\ m \in 1 .. Len(s) /\ m < Len(s) /\ m + 1 \in 1 .. Len(s) /\ n < Len(s)
    BY <1>1, <2>1
  <2>3. Upto(m)
    BY <1>3, <1>5, <2>2
  <2> HIDE DEF m
  <2>4. PICK u \in Seq(S), v \in Seq(S) :
          u = F[m] /\ v = s[m + 1] /\ Len(u) = b * m /\ Len(v) = b /\ F[m + 1] = u \o v
    <3>1. F[m] \in Seq(S) /\ s[m + 1] \in Seq(S) /\ Len(s[m + 1]) = b
      BY <1>1, <2>2
    <3>2. F[m + 1] = F[m] \o s[m + 1]
      BY <1>2, <2>2 DEF Joins
    <3> QED
      BY <2>3, <3>1, <3>2 DEF BlocksLie
  <2> DEFINE w == u \o v
             x == b * m
  <2>5. /\ Len(w) = x + b  /\ x \in Nat
        /\ \A k \in 1 .. x : w[k] = u[k]
        /\ \A k \in 1 .. b : w[x + k] = v[k]
    <3>1. Len(u) = x /\ Len(v) = b /\ x \in Nat
      BY <2>2, <2>3, <2>4 DEF BlocksLie
    <3>2. /\ Len(w) = Len(u) + Len(v)
          /\ \A k \in 1 .. Len(u) : w[k] = u[k]
          /\ \A k \in 1 .. Len(v) : w[Len(u) + k] = v[k]
      BY PairJoined
    <3> HIDE DEF x, w
    <3> QED
      BY <3>1, <3>2
  <2>6. F[m + 1] = w /\ b * (m + 1) = x + b
    BY <2>2, <2>4
  <2> HIDE DEF w
  <2>7. ASSUME NEW j \in Nat, NEW i \in 1 .. b, j < m + 1 PROVE w[b * j + i] = s[j + 1][i]
    <3>1. CASE j = m
      BY <2>4, <2>5, <3>1
    <3>2. CASE j # m
      <4> DEFINE y == b * j
      <4>1. j \in Nat /\ j + 1 \in Nat /\ j + 1 <= m /\ j < m
        BY <2>2, <2>7, <3>2
      <4>2. y \in Nat /\ y + b <= x
        BY <2>2, <4>1, BlocksAscend
      <4>3. u[y + i] = s[j + 1][i]
        BY <2>3, <2>4, <4>1 DEF BlocksLie
      <4> HIDE DEF x, y
      <4>4. y + i \in 1 .. x
        BY <2>5, <4>2
      <4>5. w[y + i] = s[j + 1][i]
        BY <2>5, <4>3, <4>4
      <4> QED
        BY <4>5 DEF y
    <3> QED
      BY <3>1, <3>2
  <2>8. Len(F[m + 1]) = b * (m + 1)
    BY <2>5, <2>6
  <2>9. Upto(m + 1)
    BY <2>6, <2>7, <2>8 DEF BlocksLie
  <2> QED
    BY <2>9 DEF m
<1>6. \A n \in Nat : n \in N
  BY <1>4, <1>5, NumberInduction
<1>7. Upto(Len(s))
  <2>1. Len(s) - 1 \in Nat /\ Len(s) - 1 < Len(s) /\ Len(s) - 1 + 1 = Len(s)
    BY <1>1
  <2>2. Upto(Len(s) - 1 + 1)
    BY <1>3, <1>6, <2>1
  <2> QED
    BY <2>1, <2>2
<1>8. F[Len(s)] \in Seq(S)
  BY <1>1
<1> QED
  BY <1>2, <1>7, <1>8

================================================================================
