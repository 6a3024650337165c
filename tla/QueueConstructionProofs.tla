----------------------- MODULE QueueConstructionProofs -----------------------
(***************************************************************************)
(* The bit tricks of the constructors compute what they are meant to, on   *)
(* words of every width: the rounding yields the least power of two, the   *)
(* check of a capacity against its predecessor lets only powers of two     *)
(* through, and masking with such a capacity less one is a remainder.      *)
(***************************************************************************)
EXTENDS QueueConstruction, Induction, FunctionTheorems, FiniteSetTheorems

--------------------------------------------------------------------------------
\* Powers of two

\* The subsets of the first n numbers
LEMMA CountSubsets ==
  ASSUME NEW n \in Nat
  PROVE  /\ IsFiniteSet(SUBSET (1 .. n))
         /\ Cardinality(SUBSET (1 .. n)) = 2 ^ n
<1>1. IsFiniteSet(1 .. n) /\ Cardinality(1 .. n) = n
  <2>1. 1 \in Int /\ n \in Int
    OBVIOUS
  <2>2. Cardinality(1 .. n) = IF 1 > n THEN 0 ELSE n - 1 + 1
    BY <2>1, FS_Interval
  <2>3. IsFiniteSet(1 .. n)
    BY <2>1, FS_Interval
  <2> QED
    BY <2>2, <2>3
<1> QED
  BY <1>1, FS_SUBSET

LEMMA PowerIsNat ==
  ASSUME NEW n \in Nat
  PROVE  2 ^ n \in Nat
BY CountSubsets, FS_CardinalityType

LEMMA PowerZero == 2 ^ 0 = 1
OBVIOUS

\* Half of the subsets of the first n + 1 numbers have the last one.
LEMMA PowerNext ==
  ASSUME NEW n \in Nat
  PROVE  2 ^ (n + 1) = 2 * 2 ^ n
<1> DEFINE A == SUBSET (1 .. n)
           B == {T \cup {n + 1} : T \in A}
           f == [T \in A |-> T \cup {n + 1}]
<1>1. IsFiniteSet(A) /\ Cardinality(A) = 2 ^ n /\ Cardinality(A) \in Nat
  BY CountSubsets, FS_CardinalityType
<1>2. SUBSET (1 .. n + 1) = A \cup B
  <2>1. ASSUME NEW T \in SUBSET (1 .. n + 1) PROVE T \in A \cup B
    <3>1. CASE n + 1 \in T
      <4>1. T \ {n + 1} \in A /\ T = (T \ {n + 1}) \cup {n + 1}
        BY <3>1
      <4> QED
        BY <4>1
    <3>2. CASE n + 1 \notin T
      BY <3>2
    <3> QED
      BY <3>1, <3>2
  <2>2. ASSUME NEW T \in A PROVE T \in SUBSET (1 .. n + 1) /\ T \cup {n + 1} \in SUBSET (1 .. n + 1)
    OBVIOUS
  <2>3. ASSUME NEW T \in A \cup B PROVE T \in SUBSET (1 .. n + 1)
    <3>1. T \in A \/ \E U \in A : T = U \cup {n + 1}
      OBVIOUS
    <3> QED
      BY <2>2, <3>1
  <2> HIDE DEF A, B
  <2> QED
    BY <2>1, <2>3
<1>3. A \cap B = {}
  OBVIOUS
<1>4. IsFiniteSet(B) /\ Cardinality(B) = Cardinality(A)
  <2>1. f \in Bijection(A, B)
    <3>1. \A T, U \in A : f[T] = f[U] => T = U
      <4> SUFFICES ASSUME NEW T \in A, NEW U \in A, T \cup {n + 1} = U \cup {n + 1} PROVE T = U
        OBVIOUS
      <4>1. n + 1 \notin T /\ n + 1 \notin U
        OBVIOUS
      <4> QED
        BY <4>1
    <3>2. f \in [A -> B] /\ \A t \in B : \E T \in A : f[T] = t
      OBVIOUS
    <3> HIDE DEF f, A, B
    <3> QED
      BY <3>1, <3>2, Fun_IsBij
  <2>2. ExistsBijection(A, B)
    BY <2>1 DEF ExistsBijection
  <2> HIDE DEF A, B
  <2> QED
    BY <1>1, <2>2, FS_Bijection
<1> HIDE DEF A, B
<1>5. Cardinality(A \cup B) = Cardinality(A) + Cardinality(B) - Cardinality(A \cap B)
  BY <1>1, <1>4, FS_Union
<1>6. Cardinality(A \cap B) = 0
  BY <1>3, FS_EmptySet
<1>7. Cardinality(SUBSET (1 .. n + 1)) = 2 ^ (n + 1)
  <2>1. n + 1 \in Nat
    OBVIOUS
  <2> QED
    BY <2>1, CountSubsets
<1>8. Cardinality(A \cup B) = 2 ^ (n + 1)
  BY <1>2, <1>7
<1> QED
  BY <1>1, <1>4, <1>5, <1>6, <1>8

LEMMA PowerPositive ==
  ASSUME NEW n \in Nat
  PROVE  2 ^ n \in Nat \ {0}
<1> DEFINE N == {m \in Nat : 2 ^ m # 0}
<1>1. \A m \in Nat : m \in N <=> 2 ^ m # 0
  OBVIOUS
<1> HIDE DEF N
<1>2. 0 \in N
  <2>1. 2 ^ 0 # 0
    BY PowerZero
  <2> QED
    BY <1>1, <2>1, Zenon
<1>3. ASSUME NEW m \in Nat, m \in N PROVE m + 1 \in N
  <2>1. 2 ^ (m + 1) = 2 * 2 ^ m /\ 2 ^ m \in Nat /\ 2 ^ m # 0
    BY <1>1, <1>3, PowerNext, PowerIsNat
  <2>2. 2 ^ (m + 1) # 0
    BY <2>1
  <2>3. m + 1 \in Nat
    OBVIOUS
  <2> QED
    BY <1>1, <2>2, <2>3
<1>4. \A m \in Nat : m \in N
  BY <1>2, <1>3, NumberInduction
<1> QED
  BY <1>1, <1>4, PowerIsNat

LEMMA PowerAdd ==
  ASSUME NEW m \in Nat, NEW n \in Nat
  PROVE  2 ^ (m + n) = 2 ^ m * 2 ^ n
<1> DEFINE N == {k \in Nat : 2 ^ (m + k) = 2 ^ m * 2 ^ k}
<1>1. \A k \in Nat : k \in N <=> 2 ^ (m + k) = 2 ^ m * 2 ^ k
  OBVIOUS
<1> HIDE DEF N
<1>2. 0 \in N
  <2>1. m + 0 = m /\ 2 ^ m \in Nat /\ 2 ^ m * 1 = 2 ^ m
    BY PowerIsNat
  <2> QED
    BY <1>1, <2>1, PowerZero
<1>3. ASSUME NEW k \in Nat, k \in N PROVE k + 1 \in N
  <2>1. PICK a \in Nat, b \in Nat, c \in Nat : a = 2 ^ m /\ b = 2 ^ k /\ c = 2 ^ (m + k)
    BY PowerIsNat
  <2>2. c = a * b
    BY <1>1, <1>3, <2>1
  <2>3. 2 ^ (k + 1) = 2 * b
    BY <2>1, PowerNext
  <2>4. 2 ^ (m + (k + 1)) = 2 * c
    <3>1. m + k \in Nat /\ m + k + 1 = m + (k + 1)
      OBVIOUS
    <3>2. 2 ^ (m + k + 1) = 2 * 2 ^ (m + k)
      BY <3>1, PowerNext
    <3> QED
      BY <2>1, <3>1, <3>2
  <2>5. 2 * (a * b) = a * (2 * b)
    OBVIOUS
  <2>6. 2 ^ (m + (k + 1)) = 2 ^ m * 2 ^ (k + 1)
    BY <2>1, <2>2, <2>3, <2>4, <2>5
  <2>7. k + 1 \in Nat
    OBVIOUS
  <2> QED
    BY <1>1, <2>6, <2>7
<1>4. \A k \in Nat : k \in N
  BY <1>2, <1>3, NumberInduction
<1> QED
  BY <1>1, <1>4

\* A power divides every higher one.
LEMMA PowerDivides ==
  ASSUME NEW m \in Nat, NEW n \in Nat, m <= n
  PROVE  /\ \E u \in Nat \ {0} : 2 ^ n = 2 ^ m * u
         /\ Divides(2 ^ m, 2 ^ n)
         /\ 2 ^ m <= 2 ^ n
<1>1. n - m \in Nat /\ m + (n - m) = n
  OBVIOUS
<1>2. PICK u \in Nat \ {0} : u = 2 ^ (n - m)
  BY <1>1, PowerPositive
<1>3. PICK a \in Nat \ {0} : a = 2 ^ m
  BY PowerPositive
<1>4. 2 ^ n = a * u
  BY <1>1, <1>2, <1>3, PowerAdd
<1>5. a * 1 <= a * u /\ a * 1 = a
  BY BlocksAscend
<1> QED
  BY <1>3, <1>4, <1>5 DEF Divides

\* A power that is lower is no more than half.
LEMMA PowerHalf ==
  ASSUME NEW m \in Nat, NEW n \in Nat, m < n
  PROVE  2 * 2 ^ m <= 2 ^ n
<1>1. m + 1 \in Nat /\ m + 1 <= n
  OBVIOUS
<1>2. 2 ^ (m + 1) <= 2 ^ n
  BY <1>1, PowerDivides
<1> QED
  BY <1>2, PowerNext

--------------------------------------------------------------------------------
\* The bits of a number

LEMMA QuotientIs ==
  ASSUME NEW b \in Nat \ {0}, NEW q \in Int, NEW r \in 0 .. b - 1
  PROVE  (b * q + r) \div b = q
OBVIOUS

\* Bit n is set when what is left below the next power reaches this one.
LEMMA BitIs ==
  ASSUME NEW x \in Nat, NEW n \in Nat
  PROVE  (x \div 2 ^ n) % 2 = 1 <=> x % 2 ^ (n + 1) >= 2 ^ n
<1>1. PICK p \in Nat \ {0} : p = 2 ^ n
  BY PowerPositive
<1>2. 2 * p \in Nat \ {0} /\ 2 ^ (n + 1) = 2 * p
  BY <1>1, PowerNext
<1>3. PICK q \in Int, r \in 0 .. 2 * p - 1 : x = (2 * p) * q + r /\ x % (2 * p) = r
  BY <1>2, Division
<1>4. (2 * p) * q = p * (2 * q) /\ p * (2 * q + 1) = p * (2 * q) + p
  OBVIOUS
<1>5. 2 * q \in Int /\ 2 * q + 1 \in Int /\ p * (2 * q) \in Int
  OBVIOUS
<1>6. CASE r < p
  <2>1. x = p * (2 * q) + r /\ r \in 0 .. p - 1
    BY <1>3, <1>4, <1>6
  <2>2. x \div p = 2 * q
    BY <1>5, <2>1, QuotientIs
  <2>3. (2 * q) % 2 = 0
    OBVIOUS
  <2>4. ~((x \div p) % 2 = 1) /\ ~(x % (2 * p) >= p)
    BY <1>3, <1>6, <2>2, <2>3
  <2> QED
    BY <1>1, <1>2, <2>4
<1>7. CASE r >= p
  <2>1. r - p \in 0 .. p - 1
    BY <1>7
  <2>2. x = p * (2 * q + 1) + (r - p)
    BY <1>3, <1>4, <1>5
  <2>3. x \div p = 2 * q + 1
    BY <1>5, <2>1, <2>2, QuotientIs
  <2>4. (2 * q + 1) % 2 = 1
    OBVIOUS
  <2>5. (x \div p) % 2 = 1 /\ x % (2 * p) >= p
    BY <1>3, <1>7, <2>3, <2>4
  <2> QED
    BY <1>1, <1>2, <2>5
<1> QED
  BY <1>6, <1>7

Places == 0 .. Width - 1

LEMMA BitsAre ==
  ASSUME NEW x \in Nat
  PROVE  /\ Bits(x) \subseteq Places
         /\ \A n \in Places : n \in Bits(x) <=> x % 2 ^ (n + 1) >= 2 ^ n
<1>1. Bits(x) \subseteq Places
  BY DEF Bits, Places
<1>2. ASSUME NEW n \in Places PROVE n \in Bits(x) <=> x % 2 ^ (n + 1) >= 2 ^ n
  <2>1. n \in Nat
    BY WordAssumption DEF Places
  <2>2. n \in Bits(x) <=> (x \div 2 ^ n) % 2 = 1
    BY DEF Bits, Places
  <2> QED
    BY <2>1, <2>2, BitIs
<1> QED
  BY <1>1, <1>2

\* What is left below a power, from what is left below the one before
LEMMA SplitBit ==
  ASSUME NEW x \in Nat, NEW n \in Nat
  PROVE  /\ x % 2 ^ (n + 1) >= 2 ^ n => x % 2 ^ (n + 1) = (x % 2 ^ n) + 2 ^ n
         /\ ~(x % 2 ^ (n + 1) >= 2 ^ n) => x % 2 ^ (n + 1) = x % 2 ^ n
<1>1. PICK p \in Nat \ {0} : p = 2 ^ n
  BY PowerPositive
<1>2. PICK d \in Nat \ {0} : d = 2 * p
  OBVIOUS
<1>3. 2 ^ (n + 1) = d /\ d = p * 2
  BY <1>1, <1>2, PowerNext
<1>4. PICK r \in 0 .. d - 1 : x % d = r
  BY Division
<1>5. r % p = x % p
  <2>1. Divides(p, d)
    BY <1>3 DEF Divides
  <2>2. x \in Int
    OBVIOUS
  <2>3. (x % d) % p = x % p
    BY <2>1, <2>2, RemainderTwice
  <2> QED
    BY <1>4, <2>3
<1>6. CASE r >= p
  <2>1. r - p \in 0 .. p - 1 /\ p * 1 + (r - p) = r
    BY <1>2, <1>6
  <2>2. (p * 1 + (r - p)) % p = r - p
    BY <2>1, RemainderIs
  <2>3. x % p = r - p
    BY <1>5, <2>1, <2>2
  <2>4. x % d = (x % p) + p
    BY <1>4, <2>3
  <2> QED
    BY <1>1, <1>3, <1>4, <1>6, <2>4
<1>7. CASE ~(r >= p)
  <2>1. r \in 0 .. p - 1 /\ p * 0 + r = r
    BY <1>7
  <2>2. (p * 0 + r) % p = r
    BY <2>1, RemainderIs
  <2>3. x % d = x % p
    BY <1>4, <1>5, <2>1, <2>2
  <2> QED
    BY <1>1, <1>3, <1>4, <1>7, <2>3
<1> QED
  BY <1>6, <1>7

LEMMA RemainderSmall ==
  ASSUME NEW b \in Nat \ {0}, NEW x \in 0 .. b - 1
  PROVE  x % b = x
OBVIOUS

\* A number below 2 ^ k has no bit from k on.
LEMMA LowBits ==
  ASSUME NEW k \in 0 .. Width, NEW x \in 0 .. 2 ^ k - 1
  PROVE  Bits(x) \subseteq 0 .. k - 1
<1>1. k \in Nat /\ Width \in Nat
  BY WordAssumption
<1>2. 2 ^ k \in Nat \ {0} /\ x \in Nat
  BY <1>1, PowerPositive
<1> SUFFICES ASSUME NEW n \in Bits(x), ~(n \in 0 .. k - 1) PROVE FALSE
  OBVIOUS
<1>3. n \in Places /\ x % 2 ^ (n + 1) >= 2 ^ n
  BY <1>2, BitsAre
<1>4. n \in Nat /\ n + 1 \in Nat /\ k <= n /\ k <= n + 1
  BY <1>1, <1>3 DEF Places
<1>5. 2 ^ k <= 2 ^ n /\ 2 ^ k <= 2 ^ (n + 1) /\ 2 ^ n \in Nat /\ 2 ^ (n + 1) \in Nat \ {0}
  BY <1>1, <1>4, PowerDivides, PowerPositive
<1>6. x \in 0 .. 2 ^ (n + 1) - 1
  BY <1>2, <1>5
<1>7. x % 2 ^ (n + 1) = x
  BY <1>5, <1>6, RemainderSmall
<1> QED
  BY <1>2, <1>3, <1>5, <1>7

\* What lies below 2 ^ k has the bits below k.
LEMMA RemainderBits ==
  ASSUME NEW k \in 0 .. Width, NEW x \in Nat
  PROVE  Bits(x % 2 ^ k) = Bits(x) \cap (0 .. k - 1)
<1>1. k \in Nat /\ Width \in Nat
  BY WordAssumption
<1>2. 2 ^ k \in Nat \ {0}
  BY <1>1, PowerPositive
<1>3. x % 2 ^ k \in 0 .. 2 ^ k - 1 /\ x % 2 ^ k \in Nat
  BY <1>2, Division
<1>4. Bits(x % 2 ^ k) \subseteq 0 .. k - 1
  BY <1>3, LowBits
<1>5. ASSUME NEW n \in 0 .. k - 1 PROVE n \in Bits(x % 2 ^ k) <=> n \in Bits(x)
  <2>1. n \in Places /\ n \in Nat /\ n + 1 \in Nat /\ n + 1 <= k
    BY <1>1 DEF Places
  <2>2. Divides(2 ^ (n + 1), 2 ^ k)
    BY <1>1, <2>1, PowerDivides
  <2>3. 2 ^ (n + 1) \in Nat \ {0} /\ x \in Int
    BY <2>1, PowerPositive
  <2>4. (x % 2 ^ k) % 2 ^ (n + 1) = x % 2 ^ (n + 1)
    BY <1>2, <2>2, <2>3, RemainderTwice
  <2> QED
    BY <1>3, <2>1, <2>4, BitsAre
<1>6. Bits(x) \subseteq Places /\ 0 .. k - 1 \subseteq Places
  BY <1>1, BitsAre DEF Places
<1> QED
  BY <1>4, <1>5

\* 2 ^ k - 1 has every bit below k.
LEMMA MaskBits ==
  ASSUME NEW k \in 0 .. Width
  PROVE  2 ^ k - 1 \in Nat /\ Bits(2 ^ k - 1) = 0 .. k - 1
<1>1. k \in Nat /\ Width \in Nat
  BY WordAssumption
<1>2. 2 ^ k \in Nat \ {0}
  BY <1>1, PowerPositive
<1>3. 2 ^ k - 1 \in 0 .. 2 ^ k - 1 /\ 2 ^ k - 1 \in Nat
  BY <1>2
<1>4. Bits(2 ^ k - 1) \subseteq 0 .. k - 1
  BY <1>3, LowBits
<1>5. ASSUME NEW n \in 0 .. k - 1 PROVE n \in Bits(2 ^ k - 1)
  <2>1. n \in Places /\ n \in Nat /\ n + 1 \in Nat /\ n + 1 <= k
    BY <1>1 DEF Places
  <2>2. PICK u \in Nat \ {0} : 2 ^ k = 2 ^ (n + 1) * u
    BY <1>1, <2>1, PowerDivides
  <2>3. PICK p \in Nat \ {0} : p = 2 ^ n
    BY <2>1, PowerPositive
  <2>4. PICK d \in Nat \ {0} : d = 2 ^ (n + 1) /\ d = 2 * p
    BY <2>1, <2>3, PowerNext, PowerPositive
  <2>5. d * u = d * (u - 1) + d /\ u - 1 \in Int /\ d * (u - 1) \in Int /\ d - 1 \in 0 .. d - 1
    OBVIOUS
  <2>6. 2 ^ k - 1 = d * (u - 1) + (d - 1)
    BY <2>2, <2>4, <2>5
  <2>7. (d * (u - 1) + (d - 1)) % d = d - 1
    BY <2>5, RemainderIs
  <2>8. (2 ^ k - 1) % d = d - 1
    BY <2>6, <2>7
  <2>9. (2 ^ k - 1) % 2 ^ (n + 1) >= 2 ^ n
    BY <2>3, <2>4, <2>8
  <2> QED
    BY <1>3, <2>1, <2>9, BitsAre
<1> QED
  BY <1>3, <1>4, <1>5

--------------------------------------------------------------------------------
\* A word and the set of its bits

LEMMA WordIs ==
  /\ WordSize \in Nat \ {0}  /\ Word = 0 .. WordSize - 1  /\ WordSize = 2 ^ Width
  /\ Width \in Nat \ {0}  /\ Places = 0 .. Width - 1
BY WordAssumption, PowerPositive DEF WordSize, Word, Places

\* Two words with the same bits are equal: what is left of them below any power
\* is.
LEMMA SameBits ==
  ASSUME NEW x \in Word, NEW y \in Word, Bits(x) = Bits(y)
  PROVE  x = y
<1> DEFINE N == {n \in Nat : n <= Width => x % 2 ^ n = y % 2 ^ n}
<1>1. x \in Nat /\ y \in Nat /\ Width \in Nat
  BY WordIs
<1>2. \A n \in Nat : n \in N <=> (n <= Width => x % 2 ^ n = y % 2 ^ n)
  OBVIOUS
<1> HIDE DEF N
<1>3. 0 \in N
  <2>1. x % 1 = 0 /\ y % 1 = 0
    BY <1>1
  <2>2. x % 2 ^ 0 = y % 2 ^ 0
    BY <2>1, PowerZero
  <2> QED
    BY <1>2, <2>2, Zenon
<1>4. ASSUME NEW n \in Nat, n \in N PROVE n + 1 \in N
  <2>1. SUFFICES ASSUME n + 1 <= Width PROVE x % 2 ^ (n + 1) = y % 2 ^ (n + 1)
    BY <1>2
  <2>2. x % 2 ^ n = y % 2 ^ n /\ n \in Places
    BY <1>1, <1>2, <1>4, <2>1 DEF Places
  <2>3. n \in Bits(x) <=> n \in Bits(y)
    OBVIOUS
  <2>4. n \in Bits(x) <=> x % 2 ^ (n + 1) >= 2 ^ n
    BY <1>1, <2>2, BitsAre
  <2>5. n \in Bits(y) <=> y % 2 ^ (n + 1) >= 2 ^ n
    BY <1>1, <2>2, BitsAre
  <2>6. CASE n \in Bits(x)
    <3>1. x % 2 ^ (n + 1) = (x % 2 ^ n) + 2 ^ n
      BY <1>1, <2>4, <2>6, SplitBit
    <3>2. y % 2 ^ (n + 1) = (y % 2 ^ n) + 2 ^ n
      BY <1>1, <2>3, <2>5, <2>6, SplitBit
    <3> QED
      BY <2>2, <3>1, <3>2
  <2>7. CASE n \notin Bits(x)
    <3>1. x % 2 ^ (n + 1) = x % 2 ^ n
      BY <1>1, <2>4, <2>7, SplitBit
    <3>2. y % 2 ^ (n + 1) = y % 2 ^ n
      BY <1>1, <2>3, <2>5, <2>7, SplitBit
    <3> QED
      BY <2>2, <3>1, <3>2
  <2> QED
    BY <2>6, <2>7
<1>5. \A n \in Nat : n \in N
  BY <1>3, <1>4, NumberInduction
<1>6. x % WordSize = y % WordSize
  BY <1>1, <1>2, <1>5, WordIs
<1>7. x % WordSize = x /\ y % WordSize = y
  BY WordIs, RemainderSmall
<1> QED
  BY <1>6, <1>7

\* Adding a power above a number sets its bit.
LEMMA AddBit ==
  ASSUME NEW n \in Places, NEW v \in 0 .. 2 ^ n - 1
  PROVE  v + 2 ^ n \in 0 .. 2 ^ (n + 1) - 1 /\ Bits(v + 2 ^ n) = Bits(v) \cup {n}
<1>1. n \in Nat /\ n + 1 \in Nat /\ n \in 0 .. Width /\ n + 1 \in 0 .. Width
  BY WordIs
<1>2. PICK p \in Nat \ {0} : p = 2 ^ n
  BY <1>1, PowerPositive
<1>3. 2 ^ (n + 1) = 2 * p
  BY <1>1, <1>2, PowerNext
<1> DEFINE w == v + p
<1>4. v \in Nat /\ w \in Nat /\ w \in 0 .. 2 * p - 1
  BY <1>2
<1>5. Bits(w) \subseteq 0 .. n /\ Bits(v) \subseteq 0 .. n - 1
  <2>1. v \in 0 .. 2 ^ n - 1 /\ w \in 0 .. 2 ^ (n + 1) - 1 /\ n + 1 - 1 = n
    BY <1>1, <1>3, <1>4
  <2> HIDE DEF w
  <2>2. Bits(w) \subseteq 0 .. n + 1 - 1
    BY <1>1, <2>1, LowBits
  <2> QED
    BY <1>1, <2>1, <2>2, LowBits
<1>6. n \in Bits(w)
  <2>1. 2 * p \in Nat \ {0}
    OBVIOUS
  <2> HIDE DEF w
  <2>2. w % (2 * p) = w
    BY <1>4, <2>1, RemainderSmall
  <2>3. w % 2 ^ (n + 1) >= 2 ^ n
    BY <1>2, <1>3, <1>4, <2>2 DEF w
  <2> QED
    BY <1>4, <2>3, BitsAre
<1>7. Bits(w) \cap (0 .. n - 1) = Bits(v) \cap (0 .. n - 1)
  <2>1. w % p = v
    <3>1. p * 1 + v = w /\ v \in 0 .. p - 1
      BY <1>2, <1>4
    <3> HIDE DEF w
    <3> QED
      BY <3>1, RemainderIs
  <2>2. v % p = v
    BY <1>2, RemainderSmall
  <2> HIDE DEF w
  <2>3. Bits(w % p) = Bits(w) \cap (0 .. n - 1) /\ Bits(v % p) = Bits(v) \cap (0 .. n - 1)
    BY <1>1, <1>2, <1>4, RemainderBits
  <2> QED
    BY <2>1, <2>2, <2>3
<1>8. w \in 0 .. 2 ^ (n + 1) - 1 /\ w = v + 2 ^ n
  BY <1>2, <1>3, <1>4
<1> HIDE DEF w
<1>9. Bits(w) = Bits(v) \cup {n}
  <2>1. \A k \in 0 .. n : k = n \/ k \in 0 .. n - 1
    BY <1>1
  <2> QED
    BY <1>5, <1>6, <1>7, <2>1
<1> QED
  BY <1>8, <1>9

\* Every set of places is the bits of a word.
LEMMA EveryWord ==
  ASSUME NEW S \in SUBSET Places
  PROVE  \E v \in Word : Bits(v) = S
<1> DEFINE P(n) == \E v \in 0 .. 2 ^ n - 1 : Bits(v) = S \cap (0 .. n - 1)
           N == {n \in Nat : n <= Width => P(n)}
<1>1. \A n \in Nat : n \in N <=> (n <= Width => P(n))
  OBVIOUS
<1> HIDE DEF N
<1>2. 0 \in N
  <2>1. 0 \in 0 .. Width /\ 0 \in 0 .. 2 ^ 0 - 1 /\ 0 .. 0 - 1 = {}
    BY WordIs, PowerZero
  <2>2. Bits(0) \subseteq 0 .. 0 - 1
    BY <2>1, LowBits
  <2>3. Bits(0) = S \cap (0 .. 0 - 1)
    BY <2>1, <2>2
  <2>4. P(0)
    BY <2>1, <2>3
  <2> HIDE DEF P
  <2> QED
    BY <1>1, <2>4
<1>3. ASSUME NEW n \in Nat, n \in N PROVE n + 1 \in N
  <2>1. SUFFICES ASSUME n + 1 <= Width PROVE P(n + 1)
    <3> HIDE DEF P
    <3> QED
      BY <1>1
  <2>2. P(n)
    <3>1. n <= Width
      BY <2>1, WordIs
    <3> HIDE DEF P
    <3> QED
      BY <1>1, <1>3, <3>1
  <2>3. PICK v \in 0 .. 2 ^ n - 1 : Bits(v) = S \cap (0 .. n - 1)
    BY <2>2
  <2>4. n \in Places /\ n + 1 - 1 = n /\ \A k \in 0 .. n : k = n \/ k \in 0 .. n - 1
    BY <2>1, WordIs
  <2>5. CASE n \in S
    <3>1. v + 2 ^ n \in 0 .. 2 ^ (n + 1) - 1 /\ Bits(v + 2 ^ n) = Bits(v) \cup {n}
      BY <2>4, AddBit
    <3>2. Bits(v + 2 ^ n) = S \cap (0 .. n)
      BY <2>3, <2>4, <2>5, <3>1
    <3> QED
      BY <2>4, <3>1, <3>2
  <2>6. CASE n \notin S
    <3>1. 2 ^ n <= 2 ^ (n + 1) /\ 2 ^ n \in Nat /\ 2 ^ (n + 1) \in Nat
      BY PowerNext, PowerIsNat
    <3>2. v \in 0 .. 2 ^ (n + 1) - 1
      BY <3>1
    <3>3. Bits(v) = S \cap (0 .. n)
      BY <2>3, <2>4, <2>6
    <3> QED
      BY <2>4, <3>2, <3>3
  <2> QED
    BY <2>5, <2>6
<1>4. \A n \in Nat : n \in N
  <2> HIDE DEF P
  <2> QED
    BY <1>2, <1>3, NumberInduction
<1>5. P(Width)
  <2> HIDE DEF P
  <2> QED
    BY <1>1, <1>4, WordIs
<1>6. S \cap (0 .. Width - 1) = S
  BY WordIs
<1> QED
  BY <1>5, <1>6, WordIs

LEMMA WordOfIs ==
  ASSUME NEW S \in SUBSET Places
  PROVE  WordOf(S) \in Word /\ Bits(WordOf(S)) = S
BY EveryWord DEF WordOf

LEMMA WordOfBits ==
  ASSUME NEW S, NEW x \in Word, Bits(x) = S
  PROVE  WordOf(S) = x
<1>1. S \in SUBSET Places
  BY WordIs, BitsAre
<1> QED
  BY <1>1, WordOfIs, SameBits

\* On a word, "& (2 ^ k - 1)" is the remainder modulo 2 ^ k.
LEMMA AndIsRemainder ==
  ASSUME NEW k \in 0 .. Width, NEW x \in Word
  PROVE  And(x, 2 ^ k - 1) = x % 2 ^ k
<1>1. k \in Nat /\ x \in Nat
  BY WordIs
<1>2. 2 ^ k \in Nat \ {0} /\ 2 ^ k <= WordSize
  BY <1>1, PowerPositive, PowerDivides, WordIs
<1>3. PICK r \in 0 .. 2 ^ k - 1 : r = x % 2 ^ k
  BY <1>1, <1>2, Division
<1>4. r \in Word
  BY <1>2, WordIs
<1>5. Bits(x) \cap Bits(2 ^ k - 1) = Bits(x) \cap (0 .. k - 1)
  BY MaskBits
<1>6. Bits(r) = Bits(x) \cap Bits(2 ^ k - 1)
  BY <1>1, <1>3, <1>5, RemainderBits
<1>7. And(x, 2 ^ k - 1) = r
  BY <1>4, <1>6, WordOfBits DEF And
<1> QED
  BY <1>3, <1>7

\* The highest bit of a number
LEMMA HighestBit ==
  ASSUME NEW x \in Word \ {0}
  PROVE  \E h \in Places : 2 ^ h <= x /\ x < 2 ^ (h + 1)
<1> DEFINE T == {n \in Nat : x < 2 ^ n}
<1>1. x \in Nat \ {0} /\ Width \in T
  BY WordIs
<1>2. T \in SUBSET Nat /\ T # {}
  BY <1>1
<1>3. PICK n \in T : \A m \in T : n <= m
  BY <1>2, LeastNumber
<1>4. n # 0
  <2>1. ~(x < 2 ^ 0)
    BY <1>1, PowerZero
  <2>2. 0 \notin T
    BY <2>1, Zenon
  <2> QED
    BY <2>2
<1>5. n - 1 \in Nat /\ n - 1 + 1 = n /\ n <= Width
  BY <1>1, <1>3, <1>4
<1>6. n - 1 \notin T
  BY <1>3, <1>5
<1>7. 2 ^ (n - 1) \in Nat
  BY <1>5, PowerIsNat
<1>8. 2 ^ (n - 1) <= x
  BY <1>1, <1>5, <1>6, <1>7
<1>9. n - 1 \in Places
  BY <1>5, WordIs
<1> QED
  BY <1>5, <1>8, <1>9

\* It is a bit, and there is none above it.
LEMMA HighestIs ==
  ASSUME NEW h \in Places, NEW x \in Nat, 2 ^ h <= x, x < 2 ^ (h + 1)
  PROVE  h \in Bits(x) /\ Bits(x) \subseteq 0 .. h
<1>1. h \in Nat /\ h + 1 \in Nat /\ h + 1 \in 0 .. Width /\ h + 1 - 1 = h
  BY WordIs
<1>2. 2 ^ (h + 1) \in Nat \ {0}
  BY <1>1, PowerPositive
<1>3. x \in 0 .. 2 ^ (h + 1) - 1
  BY <1>2
<1>4. x % 2 ^ (h + 1) = x
  BY <1>2, <1>3, RemainderSmall
<1>5. h \in Bits(x)
  BY <1>4, BitsAre
<1>6. Bits(x) \subseteq 0 .. h + 1 - 1
  BY <1>1, <1>3, LowBits
<1> QED
  BY <1>1, <1>5, <1>6

\* A number shares no bit with the one before only if it is a power of two.
LEMMA AloneIsPower ==
  ASSUME NEW x \in Word \ {0}, And(x, x - 1) = 0
  PROVE  x \in PowersOfTwo
<1>1. PICK h \in Places : 2 ^ h <= x /\ x < 2 ^ (h + 1)
  BY HighestBit
<1>2. x \in Nat \ {0} /\ x - 1 \in Nat /\ h \in Nat /\ 2 ^ h \in Nat /\ 2 ^ (h + 1) \in Nat
  BY WordIs, PowerIsNat
<1>3. h \in Bits(x)
  BY <1>1, <1>2, HighestIs
<1>4. Bits(x) \cap Bits(x - 1) = {}
  <2>1. Bits(x) \cap Bits(x - 1) \in SUBSET Places
    BY <1>2, BitsAre
  <2>2. Bits(0) = Bits(x) \cap Bits(x - 1)
    BY <2>1, WordOfIs DEF And
  <2>3. 0 \in 0 .. Width /\ 0 \in 0 .. 2 ^ 0 - 1 /\ 0 .. 0 - 1 = {}
    BY WordIs, PowerZero
  <2>4. Bits(0) \subseteq 0 .. 0 - 1
    BY <2>3, LowBits
  <2> QED
    BY <2>2, <2>3, <2>4
<1>5. ~(2 ^ h <= x - 1)
  <2> SUFFICES ASSUME 2 ^ h <= x - 1 PROVE FALSE
    OBVIOUS
  <2>1. x - 1 < 2 ^ (h + 1)
    BY <1>1, <1>2
  <2>2. h \in Bits(x - 1)
    BY <1>2, <2>1, HighestIs
  <2> QED
    BY <1>3, <1>4, <2>2
<1>6. x = 2 ^ h
  BY <1>1, <1>2, <1>5
<1> QED
  BY <1>6 DEF PowersOfTwo, Places

--------------------------------------------------------------------------------
\* The rounding of the single-process constructor

\* Dividing twice is dividing once.
LEMMA DivideTwice ==
  ASSUME NEW a \in Nat \ {0}, NEW b \in Nat \ {0}, NEW x \in Nat
  PROVE  (x \div a) \div b = x \div (a * b)
<1>1. PICK q \in Int, r \in 0 .. a - 1 : x = a * q + r
  <2>1. x \in Int
    OBVIOUS
  <2>2. \E q \in Int, r \in 0 .. a - 1 : x = a * q + r /\ x % a = r
    BY <2>1, Division
  <2> QED
    BY <2>2, Zenon
<1>2. PICK t \in Int, s \in 0 .. b - 1 : q = b * t + s
  <2>1. \E t \in Int, s \in 0 .. b - 1 : q = b * t + s /\ q % b = s
    BY Division
  <2> QED
    BY <2>1, Zenon
<1>3. x \div a = q
  BY <1>1, QuotientIs
<1>4. q \div b = t
  BY <1>2, QuotientIs
<1> DEFINE c == a * b
           u == a * s + r
<1>5. c \in Nat \ {0}
  OBVIOUS
<1>6. u \in 0 .. c - 1
  <2>1. s + 1 \in Nat /\ s + 1 <= b /\ s \in Nat
    OBVIOUS
  <2>2. a * s \in Nat /\ a * (s + 1) = a * s + a /\ a * (s + 1) <= a * b
    BY <2>1, BlocksAscend
  <2> QED
    BY <2>2
<1>7. x = c * t + u
  <2>1. a * (b * t + s) = c * t + a * s
    OBVIOUS
  <2>2. c * t \in Int /\ a * s \in Int
    OBVIOUS
  <2> QED
    BY <1>1, <1>2, <2>1, <2>2
<1> HIDE DEF c, u
<1>8. x \div c = t
  BY <1>5, <1>6, <1>7, QuotientIs
<1> QED
  BY <1>3, <1>4, <1>8 DEF c

\* A shift by s moves every bit s places down.
LEMMA ShiftBits ==
  ASSUME NEW x \in Word, NEW s \in Nat
  PROVE  Bits(ShiftRight(x, s)) = {n \in Places : n + s \in Bits(x)}
<1>1. PICK a \in Nat \ {0} : a = 2 ^ s
  BY PowerPositive
<1>2. x \in Nat
  BY WordIs
<1>3. ASSUME NEW n \in Places
      PROVE  n \in Bits(ShiftRight(x, s)) <=> n + s \in Bits(x)
  <2>1. n \in Nat /\ n + s \in Nat /\ s + n = n + s
    BY WordIs
  <2>2. PICK b \in Nat \ {0} : b = 2 ^ n
    BY <2>1, PowerPositive
  <2>3. PICK c \in Nat \ {0} : c = 2 ^ (n + s)
    BY <2>1, PowerPositive
  <2>4. c = a * b
    BY <1>1, <2>1, <2>2, <2>3, PowerAdd
  <2>5. (x \div a) \div b = x \div c
    BY <1>2, <2>4, DivideTwice
  <2>6. n \in Bits(ShiftRight(x, s)) <=> (x \div c) % 2 = 1
    <3>1. n \in Bits(ShiftRight(x, s)) <=> ((x \div 2 ^ s) \div 2 ^ n) % 2 = 1
      BY DEF Bits, ShiftRight, Places
    <3> QED
      BY <1>1, <2>2, <2>5, <3>1
  <2>7. CASE n + s \in Places
    <3>1. n + s \in Bits(x) <=> (x \div 2 ^ (n + s)) % 2 = 1
      BY <2>7 DEF Bits, Places
    <3> QED
      BY <2>3, <2>6, <3>1
  <2>8. CASE n + s \notin Places
    <3>1. n + s \notin Bits(x)
      BY <1>2, <2>8, BitsAre
    <3>2. Width <= n + s /\ Width \in Nat
      BY <2>1, <2>8, WordIs
    <3>3. WordSize <= c
      BY <2>1, <2>3, <3>2, PowerDivides, WordIs
    <3>4. x \in 0 .. c - 1 /\ c * 0 + x = x
      BY <3>3, WordIs
    <3>5. (c * 0 + x) \div c = 0
      BY <3>4, QuotientIs
    <3>6. x \div c = 0
      BY <3>4, <3>5
    <3> QED
      BY <2>6, <3>1, <3>6
  <2> QED
    BY <2>7, <2>8
<1>4. Bits(ShiftRight(x, s)) \subseteq Places
  BY DEF Bits, Places
<1> QED
  BY <1>3, <1>4

LEMMA SmearBits ==
  ASSUME NEW x \in Word, NEW s \in Nat
  PROVE  /\ Smear(x, s) \in Word
         /\ Bits(Smear(x, s)) = Bits(x) \cup {n \in Places : n + s \in Bits(x)}
<1> DEFINE S == Bits(x) \cup {n \in Places : n + s \in Bits(x)}
<1>1. S \in SUBSET Places
  BY WordIs, BitsAre
<1>2. Smear(x, s) = WordOf(S)
  BY ShiftBits DEF Smear, Or
<1> HIDE DEF S
<1>3. WordOf(S) \in Word /\ Bits(WordOf(S)) = S
  BY <1>1, WordOfIs
<1> QED
  BY <1>2, <1>3 DEF S

LEMMA ShiftsAre ==
  /\ Len(Shifts) \in Nat
  /\ \A i \in Nat : i < Len(Shifts) => Shifts[i + 1] = 2 ^ i
  /\ Width <= 2 ^ Len(Shifts)
<1>1. Len(Shifts) \in Nat
  BY ShiftsAssumption, LenProperties
<1>2. ASSUME NEW i \in Nat, i < Len(Shifts) PROVE Shifts[i + 1] = 2 ^ i
  <2>1. i + 1 \in 1 .. Len(Shifts) /\ i + 1 - 1 = i
    BY <1>1, <1>2
  <2> QED
    BY <2>1, ShiftsAssumption
<1> QED
  BY <1>1, <1>2, ShiftsAssumption

\* The first n smears of x, one after the other
Chain(F, x, n) ==
  /\ F[0] = x
  /\ \A i \in Nat : i < n => F[i + 1] = Smear(F[i], Shifts[i + 1])

LEMMA ChainMore ==
  ASSUME NEW n \in Nat, NEW x, NEW F, F = [i \in 0 .. n |-> F[i]], Chain(F, x, n)
  PROVE  \E G : G = [i \in 0 .. n + 1 |-> G[i]] /\ Chain(G, x, n + 1)
<1> DEFINE last == Smear(F[n], Shifts[n + 1])
           G == [i \in 0 .. n + 1 |-> IF i = n + 1 THEN last ELSE F[i]]
<1>1. last = Smear(F[n], Shifts[n + 1])
  OBVIOUS
<1> HIDE DEF last
<1>2. G = [i \in 0 .. n + 1 |-> G[i]] /\ G[n + 1] = last /\ \A i \in 0 .. n : G[i] = F[i]
  OBVIOUS
<1> HIDE DEF G
<1>3. G[0] = x
  BY <1>2 DEF Chain
<1>4. ASSUME NEW i \in Nat, i < n + 1 PROVE G[i + 1] = Smear(G[i], Shifts[i + 1])
  <2>1. CASE i = n
    <3>1. n \in 0 .. n
      OBVIOUS
    <3>2. G[n + 1] = last /\ G[n] = F[n]
      BY <1>2, <3>1, Zenon
    <3>3. G[n + 1] = Smear(G[n], Shifts[n + 1])
      BY <1>1, <3>2, Zenon
    <3> QED
      BY <2>1, <3>3, Zenon
  <2>2. CASE i # n
    <3>1. i < n /\ i \in 0 .. n /\ i + 1 \in 0 .. n
      BY <1>4, <2>2
    <3>2. F[i + 1] = Smear(F[i], Shifts[i + 1])
      BY <3>1 DEF Chain
    <3>3. G[i + 1] = F[i + 1] /\ G[i] = F[i]
      BY <1>2, <3>1
    <3> QED
      BY <3>2, <3>3
  <2> QED
    BY <2>1, <2>2
<1>5. Chain(G, x, n + 1)
  BY <1>3, <1>4 DEF Chain
<1> QED
  BY <1>2, <1>5

LEMMA ChainExists ==
  ASSUME NEW x, NEW n \in Nat
  PROVE  \E F : F = [i \in 0 .. n |-> F[i]] /\ Chain(F, x, n)
<1> DEFINE P(m) == \E F : F = [i \in 0 .. m |-> F[i]] /\ Chain(F, x, m)
           N == {m \in Nat : P(m)}
<1>1. \A m \in Nat : m \in N <=> P(m)
  OBVIOUS
<1> HIDE DEF N
<1>2. 0 \in N
  <2> DEFINE F == [i \in 0 .. 0 |-> x]
  <2>1. F = [i \in 0 .. 0 |-> F[i]] /\ F[0] = x
    OBVIOUS
  <2> HIDE DEF F
  <2>2. Chain(F, x, 0)
    BY <2>1 DEF Chain
  <2>3. P(0)
    BY <2>1, <2>2
  <2> HIDE DEF P
  <2> QED
    BY <1>1, <2>3
<1>3. ASSUME NEW m \in Nat, m \in N PROVE m + 1 \in N
  <2>1. P(m)
    <3> HIDE DEF P
    <3> QED
      BY <1>1, <1>3
  <2>2. PICK F : F = [i \in 0 .. m |-> F[i]] /\ Chain(F, x, m)
    BY <2>1
  <2>3. P(m + 1)
    BY <2>2, ChainMore
  <2>4. m + 1 \in Nat
    OBVIOUS
  <2> HIDE DEF P
  <2> QED
    BY <1>1, <2>3, <2>4
<1>4. P(n)
  <2> HIDE DEF P
  <2> QED
    BY <1>1, <1>2, <1>3, NumberInduction
<1> QED
  BY <1>4

\* The function inside Smeared exists, and is the chain of all smears.
LEMMA SmearedIs ==
  ASSUME NEW x
  PROVE  \E F : Chain(F, x, Len(Shifts)) /\ Smeared(x) = F[Len(Shifts)]
<1> DEFINE l == Len(Shifts)
           IsChain(F) == F = [i \in 0 .. l |-> IF i = 0 THEN x ELSE Smear(F[i - 1], Shifts[i])]
           F == CHOOSE G : IsChain(G)
<1>1. l \in Nat
  BY ShiftsAre
<1>2. Smeared(x) = F[l]
  BY DEF Smeared
<1> HIDE DEF l
<1>3. PICK G : G = [i \in 0 .. l |-> G[i]] /\ Chain(G, x, l)
  BY <1>1, ChainExists
<1>4. IsChain(G)
  <2>1. ASSUME NEW i \in 0 .. l PROVE G[i] = IF i = 0 THEN x ELSE Smear(G[i - 1], Shifts[i])
    <3>1. CASE i = 0
      BY <1>3, <3>1 DEF Chain
    <3>2. CASE i # 0
      <4>1. i - 1 \in Nat /\ i - 1 < l /\ i - 1 + 1 = i
        BY <1>1, <3>2
      <4>2. G[i - 1 + 1] = Smear(G[i - 1], Shifts[i - 1 + 1])
        BY <1>3, <4>1 DEF Chain
      <4> QED
        BY <3>2, <4>1, <4>2
    <3> QED
      BY <3>1, <3>2
  <2> QED
    BY <1>3, <2>1
<1>5. IsChain(F)
  <2> HIDE DEF IsChain
  <2> QED
    BY <1>4
<1> HIDE DEF F
<1>6. \A i \in 0 .. l : F[i] = IF i = 0 THEN x ELSE Smear(F[i - 1], Shifts[i])
  BY <1>5
<1> HIDE DEF IsChain
<1>7. Chain(F, x, l)
  <2>1. F[0] = x
    BY <1>1, <1>6
  <2>2. ASSUME NEW i \in Nat, i < l PROVE F[i + 1] = Smear(F[i], Shifts[i + 1])
    <3>1. PICK k \in 0 .. l : k = i + 1 /\ k # 0 /\ k - 1 = i
      BY <1>1, <2>2
    <3>2. F[k] = Smear(F[k - 1], Shifts[k])
      BY <1>6, <3>1
    <3> QED
      BY <3>1, <3>2
  <2> QED
    BY <2>1, <2>2 DEF Chain
<1> QED
  BY <1>2, <1>7 DEF l

\* The smears fill every bit below the highest.
LEMMA SmearedBits ==
  ASSUME NEW x \in Word, NEW h \in Places, h \in Bits(x), Bits(x) \subseteq 0 .. h
  PROVE  Smeared(x) \in Word /\ Bits(Smeared(x)) = 0 .. h
<1> DEFINE l == Len(Shifts)
<1>1. PICK F : Chain(F, x, l) /\ Smeared(x) = F[l]
  BY SmearedIs
<1>2. l \in Nat /\ h \in Nat /\ 0 .. h \subseteq Places
  BY ShiftsAre, WordIs
<1>3. \A i \in Nat : i < l => Shifts[i + 1] = 2 ^ i
  BY ShiftsAre
<1>4. Width <= 2 ^ l
  BY ShiftsAre
<1> HIDE DEF l
<1> DEFINE Full(i) == /\ F[i] \in Word  /\ Bits(F[i]) \subseteq 0 .. h
                      /\ \A n \in 0 .. h : h < n + 2 ^ i => n \in Bits(F[i])
           N == {i \in Nat : i <= l => Full(i)}
<1>5. \A i \in Nat : i \in N <=> (i <= l => Full(i))
  OBVIOUS
<1> HIDE DEF N
<1>6. 0 \in N
  <2>1. F[0] = x
    BY <1>1 DEF Chain
  <2>2. \A n \in 0 .. h : h < n + 2 ^ 0 => n = h
    BY <1>2, PowerZero
  <2>3. Full(0)
    BY <2>1, <2>2
  <2> HIDE DEF Full
  <2> QED
    BY <1>5, <2>3
<1>7. ASSUME NEW i \in Nat, i \in N PROVE i + 1 \in N
  <2>1. SUFFICES ASSUME i + 1 <= l PROVE Full(i + 1)
    <3> HIDE DEF Full
    <3> QED
      BY <1>5
  <2>2. Full(i)
    <3>1. i <= l
      BY <1>2, <2>1
    <3> HIDE DEF Full
    <3> QED
      BY <1>5, <1>7, <3>1
  <2>3. PICK p \in Nat \ {0} : p = 2 ^ i
    BY PowerPositive
  <2>4. F[i + 1] = Smear(F[i], p)
    <3>1. i < l
      BY <1>2, <2>1
    <3> QED
      BY <1>1, <1>3, <2>3, <3>1 DEF Chain
  <2>5. PICK y \in Word : y = F[i]
    BY <2>2
  <2>6. PICK z : z = F[i + 1]
    OBVIOUS
  <2>7. z \in Word /\ Bits(z) = Bits(y) \cup {n \in Places : n + p \in Bits(y)}
    BY <2>4, <2>5, <2>6, SmearBits
  <2>8. Bits(y) \subseteq 0 .. h /\ \A n \in 0 .. h : h < n + p => n \in Bits(y)
    BY <2>2, <2>3, <2>5
  <2>9. Bits(z) \subseteq 0 .. h
    <3> SUFFICES ASSUME NEW n \in Places, n + p \in Bits(y) PROVE n \in 0 .. h
      BY <2>7, <2>8
    <3>1. n + p \in 0 .. h /\ n \in Nat
      BY <2>8, WordIs
    <3> QED
      BY <1>2, <3>1
  <2>10. ASSUME NEW n \in 0 .. h, h < n + 2 * p PROVE n \in Bits(z)
    <3>1. CASE h < n + p
      BY <2>7, <2>8, <3>1
    <3>2. CASE ~(h < n + p)
      <4>1. n + p \in 0 .. h /\ h < n + p + p
        BY <1>2, <2>10, <3>2
      <4>2. n + p \in Bits(y)
        BY <2>8, <4>1
      <4>3. n \in Places
        BY <1>2
      <4> QED
        BY <2>7, <4>2, <4>3
    <3> QED
      BY <3>1, <3>2
  <2>11. 2 ^ (i + 1) = 2 * p
    BY <2>3, PowerNext
  <2> QED
    BY <2>6, <2>7, <2>9, <2>10, <2>11
<1>8. Full(l)
  <2> HIDE DEF Full
  <2>1. \A i \in Nat : i \in N
    BY <1>6, <1>7, NumberInduction
  <2> QED
    BY <1>2, <1>5, <2>1
<1>9. ASSUME NEW n \in 0 .. h PROVE n \in Bits(F[l])
  <2>1. 2 ^ l \in Nat
    BY <1>2, PowerIsNat
  <2>2. h < n + 2 ^ l
    BY <1>2, <1>4, <2>1, WordIs
  <2> QED
    BY <1>8, <2>2
<1> QED
  BY <1>1, <1>8, <1>9

\* The rounding yields the least power of two that is no less, and 0 when
\* there is none.
LEMMA RoundUpIs ==
  ASSUME NEW c \in Word, c > 1
  PROVE  /\ RoundUp(c) \in PowersOfTwo \cup {0}
         /\ RoundUp(c) # 0 => RoundUp(c) >= c
         /\ c <= WordSize \div 2 =>
              /\ RoundUp(c) \in PowersOfTwo
              /\ RoundUp(c) >= c
              /\ \A p \in PowersOfTwo : p >= c => RoundUp(c) <= p
<1>1. PICK x \in Word \ {0} : x = c - 1 /\ Wrap(c - 1) = x
  <2>1. c - 1 \in Word \ {0} /\ c - 1 \in 0 .. WordSize - 1
    BY WordIs
  <2>2. (c - 1) % WordSize = c - 1
    BY <2>1, WordIs, RemainderSmall
  <2> QED
    BY <2>1, <2>2 DEF Wrap
<1>2. PICK h \in Places : 2 ^ h <= x /\ x < 2 ^ (h + 1)
  BY HighestBit
<1>3. h \in Nat /\ h + 1 \in Nat /\ h + 1 \in 0 .. Width /\ h + 1 - 1 = h /\ x \in Nat
  BY WordIs
<1>4. PICK q \in Nat \ {0} : q = 2 ^ (h + 1) /\ q = 2 * 2 ^ h /\ q <= WordSize
  BY <1>3, PowerPositive, PowerNext, PowerDivides, WordIs
<1>5. Smeared(x) \in Word /\ Bits(Smeared(x)) = 0 .. h
  BY <1>2, <1>3, HighestIs, SmearedBits
<1>6. Smeared(x) = q - 1
  <2>1. q - 1 \in Word
    BY <1>4, WordIs
  <2>2. Bits(q - 1) = 0 .. h
    BY <1>3, <1>4, MaskBits
  <2> QED
    BY <1>5, <2>1, <2>2, SameBits
<1>7. RoundUp(c) = q % WordSize
  <2>1. q - 1 + 1 = q
    OBVIOUS
  <2> QED
    BY <1>1, <1>6, <2>1 DEF RoundUp, Wrap
<1>8. h + 1 \in Places => q \in PowersOfTwo /\ RoundUp(c) = q
  <2> SUFFICES ASSUME h + 1 \in Places PROVE q \in PowersOfTwo /\ RoundUp(c) = q
    OBVIOUS
  <2>1. h + 1 < Width
    BY WordIs
  <2>2. 2 * 2 ^ (h + 1) <= 2 ^ Width
    BY <1>3, <2>1, PowerHalf, WordIs
  <2>3. q \in 0 .. WordSize - 1
    BY <1>4, <2>2, WordIs
  <2>4. q % WordSize = q
    BY <2>3, WordIs, RemainderSmall
  <2> QED
    BY <1>4, <1>7, <2>4 DEF PowersOfTwo, Places
<1>9. h + 1 \notin Places => RoundUp(c) = 0
  <2> SUFFICES ASSUME h + 1 \notin Places PROVE RoundUp(c) = 0
    OBVIOUS
  <2>1. h + 1 = Width
    BY <1>3, WordIs
  <2>2. q = WordSize /\ q % q = 0
    BY <1>4, <2>1, WordIs
  <2> QED
    BY <1>7, <2>2
<1>10. ASSUME c <= WordSize \div 2 PROVE h + 1 \in Places
  <2>1. 2 * c <= WordSize /\ c \in Nat
    BY <1>10, WordIs
  <2>2. q < WordSize
    <3>1. PICK a \in Nat : a = 2 ^ h
      BY <1>3, PowerIsNat
    <3>2. a <= c - 1 /\ q = 2 * a
      BY <1>1, <1>2, <1>4, <3>1
    <3> QED
      BY <2>1, <3>2, WordIs
  <2>3. h + 1 # Width
    BY <1>4, <2>2, WordIs
  <2> QED
    BY <1>3, <2>3, WordIs
<1>11. q >= c
  BY <1>1, <1>2, <1>3, <1>4
<1>12. ASSUME NEW p \in PowersOfTwo, p >= c PROVE q <= p
  <2>1. PICK n \in Places : p = 2 ^ n
    BY DEF PowersOfTwo, Places
  <2>2. n \in Nat /\ 2 ^ n \in Nat /\ 2 ^ h \in Nat
    BY <1>3, PowerIsNat, WordIs
  <2>3. ~(n <= h)
    <3> SUFFICES ASSUME n <= h PROVE FALSE
      OBVIOUS
    <3>1. 2 ^ n <= 2 ^ h
      BY <1>3, <2>2, PowerDivides
    <3> QED
      BY <1>1, <1>2, <1>12, <2>1, <2>2, <3>1
  <2>4. 2 ^ (h + 1) <= 2 ^ n
    BY <1>3, <2>2, <2>3, PowerDivides
  <2> QED
    BY <1>4, <2>1, <2>4
<1> QED
  BY <1>8, <1>9, <1>10, <1>11, <1>12

--------------------------------------------------------------------------------
\* The inductive invariant of the constructors

\* The check "capacity & (capacity - 1)" of the multi-process constructor
Alone(c) == And(c, Wrap(c - 1)) = 0

TypeOK ==
  /\ pc \in {"sp", "mp", "nullCheck", "checks", "init", "done", "crashed"}
  /\ type \in {"sp", "mp"} /\ given \in Word
  /\ memory \in {"null", "aligned", "misaligned"}
  /\ capacity \in Word
  /\ storage \in {"null", "block"}

Constructors ==
  /\ pc = "sp" => type = "sp"
  /\ pc \in {"mp", "nullCheck", "checks", "init"} => type = "mp"

Checked ==
  /\ pc # "done" => storage = "null"
  /\ pc = "init" => Alone(ActualCapacity)

Constructed ==
  storage = "block" =>
    \/ type = "sp" /\ given >= CacheLine /\ capacity = RoundUp(given)
    \/ type = "mp" /\ capacity = ActualCapacity /\ Alone(ActualCapacity)

\* A size is rounded only when it is a cache line or more.
Rounded ==
  type = "sp" =>
    \/ capacity = 0
    \/ given >= CacheLine /\ capacity = RoundUp(given)

IInv == TypeOK /\ Constructors /\ Checked /\ Constructed /\ Rounded

LEMMA PowersAre ==
  ASSUME NEW p \in PowersOfTwo
  PROVE  p \in Word /\ p \in Nat \ {0} /\ 2 * p <= WordSize
<1>1. PICK n \in Nat : p = 2 ^ n /\ n < Width
  BY WordIs DEF PowersOfTwo
<1>2. p \in Nat \ {0}
  BY <1>1, PowerPositive
<1>3. 2 * p <= WordSize
  BY <1>1, PowerHalf, WordIs
<1> QED
  BY <1>2, <1>3, WordIs

LEMMA WrapIs ==
  ASSUME NEW x \in Int
  PROVE  Wrap(x) \in Word /\ (x \in Word => Wrap(x) = x)
<1>1. x % WordSize \in 0 .. WordSize - 1
  BY WordIs
<1>2. x \in Word => x % WordSize = x
  BY WordIs, RemainderSmall
<1> QED
  BY <1>1, <1>2, WordIs DEF Wrap

LEMMA StatusIs == StatusSize \in Nat /\ 2 * StatusSize < WordSize /\ CacheLine \in Nat /\ CacheLine > 1
<1>1. CacheLine \in Nat \ {0}
  BY WordAssumption, PowersAre
<1> QED
  BY <1>1, WordAssumption, WordIs DEF StatusSize

LEMMA CapacityIs ==
  ASSUME given \in Word
  PROVE  ActualCapacity \in Word
<1>1. given - StatusSize \in Int
  BY StatusIs, WordIs
<1> QED
  BY <1>1, WrapIs DEF ActualCapacity

\* What the rounding yields, for the arguments that get there
LEMMA RoundUpGiven ==
  ASSUME given \in Word, given >= CacheLine
  PROVE  RoundUp(given) \in Word /\ RoundUp(given) \in PowersOfTwo \cup {0}
<1>1. given > 1
  BY StatusIs, WordIs
<1>2. RoundUp(given) \in PowersOfTwo \cup {0}
  BY <1>1, RoundUpIs
<1>3. 0 \in Word
  BY WordIs
<1> QED
  BY <1>2, <1>3, PowersAre

LEMMA InitInvariant == Init => IInv
<1> SUFFICES ASSUME Init PROVE IInv
  OBVIOUS
<1>1. TypeOK
  BY WordIs DEF Init, TypeOK
<1>2. Constructors /\ Checked /\ Constructed
  BY DEF Init, Constructors, Checked, Constructed
<1>3. Rounded
  BY DEF Init, Rounded
<1> QED
  BY <1>1, <1>2, <1>3 DEF IInv

LEMMA StepInvariant == IInv /\ [Next]_vars => IInv'
<1> SUFFICES ASSUME IInv, [Next]_vars PROVE IInv'
  OBVIOUS
<1> USE DEF IInv, TypeOK, Constructors, Checked, Constructed, Rounded
<1>1. CASE SpReject
  BY <1>1 DEF SpReject
<1>2. CASE SpConstruct
  <2>1. capacity' = RoundUp(given) /\ RoundUp(given) \in Word
    BY <1>2, RoundUpGiven DEF SpConstruct
  <2>2. TypeOK'
    BY <1>2, <2>1 DEF SpConstruct
  <2>3. Constructors' /\ Checked'
    BY <1>2 DEF SpConstruct
  <2>4. Constructed' /\ Rounded'
    BY <1>2, <2>1 DEF SpConstruct
  <2> QED
    BY <2>2, <2>3, <2>4
<1>3. CASE MpPlacementNew
  BY <1>3 DEF MpPlacementNew
<1>4. CASE MpNullCheck
  BY <1>4 DEF MpNullCheck
<1>5. CASE MpCheck
  <2>1. ActualCapacity' = ActualCapacity
    BY <1>5 DEF MpCheck, ActualCapacity
  <2>2. pc' = "init" => Alone(ActualCapacity)
    BY <1>5 DEF MpCheck, Alone
  <2>3. pc' \in {"done", "init"}
    BY <1>5 DEF MpCheck
  <2> QED
    BY <1>5, <2>1, <2>2, <2>3 DEF MpCheck
<1>6. CASE MpInit
  <2>1. ActualCapacity' = ActualCapacity /\ ActualCapacity \in Word
    BY <1>6, CapacityIs DEF MpInit, ActualCapacity
  <2> QED
    BY <1>6, <2>1 DEF MpInit
<1>7. CASE UNCHANGED vars
  <2>1. ActualCapacity' = ActualCapacity
    BY <1>7 DEF vars, ActualCapacity
  <2> QED
    BY <1>7, <2>1 DEF vars
<1> QED
  BY <1>1, <1>2, <1>3, <1>4, <1>5, <1>6, <1>7 DEF Next

LEMMA Invariance == Spec => []IInv
<1>1. Init => IInv
  BY InitInvariant
<1>2. IInv /\ [Next]_vars => IInv'
  BY StepInvariant
<1> QED
  BY <1>1, <1>2, PTL DEF Spec

--------------------------------------------------------------------------------
\* What the constructors promise

\* The single-process constructor asks aligned_alloc for a multiple of the cache
\* line, as that requires: it turns away a size below one line, and a power of
\* two that is no less than a line is a multiple of it.
THEOREM AllocatesLines == Spec => []AllocatesWholeLines
<1>1. IInv => AllocatesWholeLines
  <2> SUFFICES ASSUME IInv, type = "sp" PROVE capacity % CacheLine = 0
    BY DEF AllocatesWholeLines
  <2>1. CacheLine \in Nat \ {0} /\ given \in Word
    BY StatusIs DEF IInv, TypeOK
  <2>2. CASE capacity = 0
    BY <2>1, <2>2
  <2>3. CASE capacity # 0
    <3>1. given > 1 /\ given >= CacheLine /\ capacity = RoundUp(given)
      BY <2>1, <2>3, StatusIs, WordIs DEF IInv, Rounded
    <3>2. capacity \in PowersOfTwo /\ capacity >= given
      BY <2>1, <2>3, <3>1, RoundUpIs
    <3>3. PICK m \in Nat, n \in Nat : CacheLine = 2 ^ m /\ capacity = 2 ^ n
      BY <3>2, WordAssumption, WordIs DEF PowersOfTwo
    <3>4. m <= n
      <4> SUFFICES ASSUME n < m PROVE FALSE
        BY <3>3
      <4>1. 2 * capacity <= CacheLine
        BY <3>3, PowerHalf
      <4>2. capacity \in Nat \ {0} /\ given \in Nat
        BY <2>1, <3>2, PowersAre, WordIs
      <4> QED
        BY <2>1, <3>1, <3>2, <4>1, <4>2
    <3>5. PICK u \in Nat \ {0} : capacity = CacheLine * u
      BY <3>3, <3>4, PowerDivides
    <3>6. CacheLine * u + 0 = CacheLine * u /\ 0 \in 0 .. CacheLine - 1 /\ u \in Int
      BY <2>1
    <3>7. (CacheLine * u + 0) % CacheLine = 0
      BY <2>1, <3>6, RemainderIs
    <3> QED
      BY <3>5, <3>6, <3>7
  <2> QED
    BY <2>2, <2>3
<1> QED
  BY <1>1, Invariance, PTL

\* The capacity of a single-process queue is the least power of two that is no
\* less than what its caller asked for, wherever a word holds one: no caller
\* gets less than it asked for, or twice what it needs.
THEOREM RoundsUp == Spec => []RoundsToLeastPower
<1>1. IInv => RoundsToLeastPower
  <2> SUFFICES ASSUME IInv, type = "sp", Usable, given <= WordSize \div 2
               PROVE  /\ capacity \in PowersOfTwo
                      /\ capacity >= given
                      /\ \A p \in PowersOfTwo : p >= given => capacity <= p
    BY DEF RoundsToLeastPower
  <2>1. given \in Word /\ given >= CacheLine /\ capacity = RoundUp(given)
    BY DEF IInv, TypeOK, Constructed, Usable, IsOk
  <2>2. given > 1
    BY <2>1, StatusIs, WordIs
  <2> QED
    BY <2>1, <2>2, RoundUpIs
<1> QED
  BY <1>1, Invariance, PTL

\* The check of the multi-process constructor leaves a power of two, or 0.
LEMMA CheckedCapacity ==
  ASSUME NEW c \in Word, Alone(c)
  PROVE  c \in PowersOfTwo \cup {0}
<1> SUFFICES ASSUME c # 0 PROVE c \in PowersOfTwo
  OBVIOUS
<1>1. c \in Word \ {0} /\ c - 1 \in Word /\ c - 1 \in Int
  BY WordIs
<1>2. Wrap(c - 1) = c - 1
  BY <1>1, WrapIs
<1>3. And(c, c - 1) = 0
  BY <1>2 DEF Alone
<1> QED
  BY <1>1, <1>3, AloneIsPower

\* The status and the storage of a multi-process queue lie in the memory that
\* it was given.  The constructor never compares sizes: memory too small for
\* the status makes the difference wrap around, and what it wraps to is more
\* than half the words and so fails the check for a power of two.
THEOREM QueueStaysInMemory == Spec => []StaysInMemory
<1>1. IInv => StaysInMemory
  <2> SUFFICES ASSUME IInv, type = "mp", Usable PROVE StatusSize + capacity <= given
    BY DEF StaysInMemory
  <2>1. given \in Word /\ capacity = ActualCapacity /\ Alone(ActualCapacity)
    BY DEF IInv, TypeOK, Constructed, Usable, IsOk
  <2>2. capacity \in PowersOfTwo \cup {0}
    BY <2>1, CapacityIs, CheckedCapacity
  <2>3. PICK d \in Int : d = given - StatusSize
    BY <2>1, StatusIs, WordIs
  <2>4. capacity = Wrap(d)
    BY <2>1, <2>3 DEF ActualCapacity
  <2>5. CASE d >= 0
    <3>1. d \in Word
      BY <2>1, <2>3, <2>5, StatusIs, WordIs
    <3>2. capacity = d
      BY <2>4, <3>1, WrapIs
    <3> QED
      BY <2>1, <2>3, <3>2, StatusIs, WordIs
  <2>6. CASE d < 0
    <3>1. WordSize + d \in 0 .. WordSize - 1 /\ 2 * (WordSize + d) > WordSize
      BY <2>1, <2>3, <2>6, StatusIs, WordIs
    <3>2. capacity = WordSize + d
      <4>1. WordSize * (-1) + (WordSize + d) = d /\ -1 \in Int
        BY WordIs
      <4>2. (WordSize * (-1) + (WordSize + d)) % WordSize = WordSize + d
        BY <3>1, <4>1, WordIs, RemainderIs
      <4> QED
        BY <2>4, <4>1, <4>2 DEF Wrap
    <3>3. capacity # 0
      BY <3>1, <3>2, WordIs
    <3>4. 2 * capacity <= WordSize
      BY <2>2, <3>3, PowersAre
    <3> QED
      BY <3>1, <3>2, <3>4, WordIs
  <2> QED
    BY <2>5, <2>6
<1> QED
  BY <1>1, Invariance, PTL

\*\* Masking a sum of indices below twice the capacity
LEMMA MaskOfIndex ==
  ASSUME NEW p \in PowersOfTwo, NEW x \in 0 .. 2 * p - 1
  PROVE  And(Wrap(x), p - 1) = x % p
<1>1. PICK k \in 0 .. Width : p = 2 ^ k
  BY WordIs DEF PowersOfTwo
<1>2. x \in Word /\ x \in Int
  BY PowersAre, WordIs
<1>3. Wrap(x) = x
  BY <1>2, WrapIs
<1>4. And(x, 2 ^ k - 1) = x % 2 ^ k
  BY <1>2, AndIsRemainder
<1> QED
  BY <1>1, <1>3, <1>4

\* On every queue that a constructor lets through, the masks in imp_write and
\* imp_read compute the remainders that RingIndex, and so TxQueue, is written
\* with.
THEOREM MasksAreRemainders == Spec => []MaskIsModulo
<1>1. IInv => MaskIsModulo
  <2> SUFFICES ASSUME IInv, Usable, NEW head \in 0 .. capacity - 1, NEW tail \in 0 .. capacity - 1
               PROVE  /\ And(Wrap(head - tail - 1 + capacity), capacity - 1)
                           = (head - tail - 1 + capacity) % capacity
                      /\ And(Wrap(tail - head + capacity), capacity - 1)
                           = (tail - head + capacity) % capacity
                      /\ And(Wrap(head + tail), capacity - 1) = (head + tail) % capacity
    BY DEF MaskIsModulo
  <2>1. given \in Word /\ capacity \in Word
    BY DEF IInv, TypeOK
  <2>2. capacity \in PowersOfTwo \cup {0}
    <3>1. CASE type = "sp"
      <4>1. given >= CacheLine /\ capacity = RoundUp(given)
        BY <3>1 DEF IInv, Constructed, Usable, IsOk, TypeOK
      <4> QED
        BY <2>1, <4>1, RoundUpGiven
    <3>2. CASE type # "sp"
      <4>1. capacity = ActualCapacity /\ Alone(ActualCapacity)
        BY <3>2 DEF IInv, Constructed, Usable, IsOk, TypeOK
      <4> QED
        BY <2>1, <4>1, CapacityIs, CheckedCapacity
    <3> QED
      BY <3>1, <3>2
  <2>3. capacity \in Nat \ {0}
    BY <2>1, WordIs
  <2>4. capacity \in PowersOfTwo
    BY <2>2, <2>3
  <2>5. head - tail - 1 + capacity \in 0 .. 2 * capacity - 1
    BY <2>3
  <2>6. tail - head + capacity \in 0 .. 2 * capacity - 1
    BY <2>3
  <2>7. head + tail \in 0 .. 2 * capacity - 1
    BY <2>3
  <2> QED
    BY <2>4, <2>5, <2>6, <2>7, MaskOfIndex
<1> QED
  BY <1>1, Invariance, PTL

================================================================================
