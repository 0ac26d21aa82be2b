---------------------------- MODULE BuddyProofs -----------------------------
(***************************************************************************)
(* The buddy allocator, for every arena, smallest block and number of      *)
(* divisions and every order of calls: it implements Allocator, refuses a  *)
(* request only when no place of the arena could take it, and reports what *)
(* is free.  With the K&R heap, which KernelServicesProofs proves, that    *)
(* makes three theorems of whichever manager the build takes.              *)
(*                                                                         *)
(* The argument is about places on a grid.  The free blocks and the held   *)
(* ones tile the arena, and no two free ones are the halves of a pair      *)
(* (Stock): halving a block and merging a block with its buddies replace   *)
(* blocks by others that cover the same bytes (Retile), and where a whole  *)
(* place is unused some free block is as long, or two would be a pair      *)
(* (StockHasRoom).  Powers of two come from the sizes of power sets.       *)
(***************************************************************************)
EXTENDS KernelServicesProofs

-----------------------------------------------------------------------------
(* Powers of two.                                                          *)

\* The provers know 2^0 and that a power is an integer, and no more.
LEMMA PowerZero == 2^0 = 1
OBVIOUS

LEMMA PowerInt == ASSUME NEW n \in Nat PROVE 2^n \in Int
OBVIOUS

\* The subsets of n + 1 numbers are those of n, without and with the last.
LEMMA PowerNext ==
    ASSUME NEW n \in Nat PROVE 2^(n + 1) = 2^n + 2^n
<1> DEFINE k == n + 1
           A == SUBSET (1 .. n)
           f == [T \in A |-> T \cup {k}]
           B == {T \in SUBSET (1 .. k) : k \in T}
<1>1. k \in Nat /\ 1 .. k = (1 .. n) \cup {k} /\ k \notin 1 .. n
  OBVIOUS
<1>2. IsFiniteSet(1 .. n) /\ Cardinality(1 .. n) = n
  <2>1. 1 \in Int /\ n \in Int /\ (1 > n => n = 0) /\ n - 1 + 1 = n
    OBVIOUS
  <2> QED
    BY <2>1, FS_Interval
<1>3. IsFiniteSet(1 .. k) /\ Cardinality(1 .. k) = k
  <2>1. 1 \in Int /\ k \in Int /\ ~(1 > k) /\ k - 1 + 1 = k
    BY <1>1
  <2> HIDE DEF k
  <2> QED
    BY <2>1, FS_Interval
<1> HIDE DEF k
<1>4. IsFiniteSet(A) /\ Cardinality(A) = 2^n
  BY <1>2, FS_SUBSET
<1>5. IsFiniteSet(SUBSET (1 .. k)) /\ Cardinality(SUBSET (1 .. k)) = 2^k
  BY <1>3, FS_SUBSET
<1>6. f \in Bijection(A, B)
  <2>1. f \in [A -> B]
    BY <1>1
  <2>2. ASSUME NEW T \in A, NEW U \in A, f[T] = f[U] PROVE T = U
    BY <1>1, <2>2
  <2>3. ASSUME NEW U \in B PROVE \E T \in A : f[T] = U
    <3>1. U \ {k} \in A /\ (U \ {k}) \cup {k} = U
      BY <1>1
    <3> QED
      BY <3>1
  <2> HIDE DEF f, A, B
  <2> QED
    BY <2>1, <2>2, <2>3 DEF Bijection, Injection, Surjection, IsInjective
<1>7. IsFiniteSet(B) /\ Cardinality(B) = Cardinality(A)
  <2> HIDE DEF A, B, f
  <2>1. ExistsBijection(A, B)
    BY <1>6, Zenon DEF ExistsBijection
  <2> QED
    BY <1>4, <2>1, FS_Bijection, Zenon
<1>8. A \cup B = SUBSET (1 .. k) /\ A \cap B = {}
  BY <1>1
<1>9. Cardinality(A \cup B) = Cardinality(A) + Cardinality(B)
  <2> HIDE DEF A, B
  <2>1. Cardinality(A \cup B) = Cardinality(A) + Cardinality(B) - Cardinality(A \cap B)
    BY <1>4, <1>7, FS_Union
  <2>2. Cardinality(A \cap B) = 0
    BY <1>8, FS_EmptySet
  <2>3. Cardinality(A) \in Nat /\ Cardinality(B) \in Nat
    BY <1>4, <1>7, FS_CardinalityType
  <2> QED
    BY <2>1, <2>2, <2>3
<1> QED
  BY <1>4, <1>5, <1>7, <1>8, <1>9 DEF k

LEMMA PowerPositive == ASSUME NEW n \in Nat PROVE 2^n \in Nat \ {0} /\ 2^n > n
<1> DEFINE S == {m \in 0 .. n : 2^m \in Int /\ 2^m > m}
<1>1. 0 \in S
  BY PowerZero
<1>2. ASSUME NEW m \in 0 .. n - 1, m \in S PROVE m + 1 \in S
  <2>1. m \in Nat /\ m + 1 \in 0 .. n /\ 2^m \in Int /\ 2^m > m
    BY <1>2
  <2>2. 2^(m + 1) = 2^m + 2^m
    BY <2>1, PowerNext
  <2>3. PICK p, q \in Int : p = 2^m /\ q = 2^(m + 1)
    BY <2>1, PowerInt
  <2>4. q = p + p /\ p > m
    BY <2>1, <2>2, <2>3
  <2>5. q \in Int /\ q > m + 1
    BY <2>1, <2>4
  <2> QED
    BY <2>1, <2>3, <2>5
<1>3. S \in SUBSET (0 .. n)
  OBVIOUS
<1> HIDE DEF S
<1>4. S = 0 .. n
  BY <1>1, <1>2, <1>3, UpTo
<1>5. n \in S
  BY <1>4
<1>6. 2^n \in Int /\ 2^n > n
  BY <1>5 DEF S
<1>7. PICK p : p = 2^n
  OBVIOUS
<1>8. p \in Nat \ {0}
  BY <1>6, <1>7
<1> QED
  BY <1>6, <1>7, <1>8

\* A power divides those above.
LEMMA PowerTimes ==
    ASSUME NEW d \in Nat, NEW e \in Nat, d <= e
    PROVE  \E m \in Nat \ {0} : 2^e = m * 2^d
<1>1. PICK n \in Nat : e = d + n
  <2>1. e - d \in Nat /\ e = d + (e - d)
    OBVIOUS
  <2> QED
    BY <2>1
<1> DEFINE S == {k \in 0 .. n : \E m \in Nat \ {0} : 2^(d + k) = m * 2^d}
<1>2. PICK p \in Nat \ {0} : p = 2^d
  BY PowerPositive
<1>3. 0 \in S
  <2>1. d + 0 = d /\ p = 1 * p
    BY <1>2
  <2> QED
    BY <1>2, <2>1
<1>4. ASSUME NEW k \in 0 .. n - 1, k \in S PROVE k + 1 \in S
  <2>1. PICK m \in Nat \ {0} : 2^(d + k) = m * p
    BY <1>2, <1>4
  <2>2. d + k \in Nat /\ (d + k) + 1 = d + (k + 1) /\ k + 1 \in 0 .. n
    OBVIOUS
  <2>3. 2^(d + (k + 1)) = m * p + m * p
    BY <2>1, <2>2, PowerNext
  <2>4. m * p + m * p = (m + m) * p /\ m + m \in Nat \ {0}
    BY <1>2
  <2> QED
    BY <1>2, <2>2, <2>3, <2>4
<1>5. S \in SUBSET (0 .. n)
  OBVIOUS
<1> HIDE DEF S
<1>6. S = 0 .. n
  BY <1>3, <1>4, <1>5, UpTo
<1>7. n \in S
  BY <1>6
<1> QED
  BY <1>1, <1>7 DEF S

\* A positive factor keeps the order.
LEMMA Factors ==
    ASSUME NEW p \in Nat \ {0}, NEW x \in Int, NEW y \in Int
    PROVE  /\ x * p < y * p <=> x < y
           /\ x * p <= y * p <=> x <= y
<1>1. ASSUME x < y PROVE x * p < y * p
  <2>1. PICK z \in Nat : y = (x + 1) + z
    <3>1. y - (x + 1) \in Nat /\ y = (x + 1) + (y - (x + 1))
      BY <1>1
    <3> QED
      BY <3>1
  <2>2. y * p = x * p + p + z * p /\ z * p >= 0 /\ x * p \in Int /\ z * p \in Int
    BY <2>1
  <2> QED
    BY <2>2
<1>2. ASSUME y < x PROVE y * p < x * p
  <2>1. PICK z \in Nat : x = (y + 1) + z
    <3>1. x - (y + 1) \in Nat /\ x = (y + 1) + (x - (y + 1))
      BY <1>2
    <3> QED
      BY <3>1
  <2>2. x * p = y * p + p + z * p /\ z * p >= 0 /\ y * p \in Int /\ z * p \in Int
    BY <2>1
  <2> QED
    BY <2>2
<1>3. x * p \in Int /\ y * p \in Int
  OBVIOUS
<1>4. x < y \/ x = y \/ y < x
  OBVIOUS
<1> QED
  BY <1>1, <1>2, <1>3, <1>4

\* The least power that is enough, and the greatest that is not too much.
LEMMA CeilLogIs ==
    ASSUME NEW n \in Nat
    PROVE  CeilLog(n) \in 0 .. n /\ 2^CeilLog(n) >= n
<1> DEFINE Enough(v) == 2^v >= n
           S == {v \in Nat : Enough(v)}
<1>1. n \in S
  BY PowerPositive
<1>2. PICK v \in S : \A w \in S : v <= w
  <2> HIDE DEF S
  <2>1. S \in SUBSET Nat /\ S # {}
    BY <1>1 DEF S
  <2> QED
    BY <2>1, LeastNatural
<1>3. v \in 0 .. n
  BY <1>1, <1>2
<1>4. ASSUME NEW w \in 0 .. v - 1 PROVE 2^w < n
  <2>1. w \in Nat /\ w \notin S
    BY <1>2
  <2>2. 2^w \in Int
    BY <2>1, PowerInt
  <2> QED
    BY <2>1, <2>2
<1>5. \E u \in 0 .. n : 2^u >= n /\ \A w \in 0 .. u - 1 : 2^w < n
  BY <1>2, <1>3, <1>4
<1> QED
  BY <1>5 DEF CeilLog

LEMMA FloorLogIs ==
    ASSUME NEW n \in Nat \ {0}
    PROVE  FloorLog(n) \in 0 .. n /\ 2^FloorLog(n) <= n
<1> DEFINE S == {v \in Nat : 2^(v + 1) > n}
<1>1. n \in S
  <2>1. n + 1 \in Nat
    OBVIOUS
  <2>2. 2^(n + 1) > n + 1 /\ 2^(n + 1) \in Int
    BY <2>1, PowerPositive
  <2> QED
    BY <2>2
<1>2. PICK v \in S : \A w \in S : v <= w
  <2> HIDE DEF S
  <2>1. S \in SUBSET Nat /\ S # {}
    BY <1>1 DEF S
  <2> QED
    BY <2>1, LeastNatural
<1>3. v \in 0 .. n /\ 2^(v + 1) > n
  BY <1>1, <1>2
<1>4. 2^v <= n
  <2>1. CASE v = 0
    BY <2>1, PowerZero
  <2>2. CASE v # 0
    <3>1. v - 1 \in Nat /\ v - 1 \notin S /\ (v - 1) + 1 = v
      BY <1>2, <2>2
    <3>2. 2^v \in Int
      BY <1>3, PowerInt
    <3> QED
      BY <3>1, <3>2
  <2> QED
    BY <2>1, <2>2
<1>5. \E u \in 0 .. n : 2^u <= n /\ 2^(u + 1) > n
  BY <1>3, <1>4
<1> QED
  BY <1>5 DEF FloorLog

-----------------------------------------------------------------------------
(* The places of the buddy system: from Start on, those of division d      *)
(* follow each other every 2^d bytes.                                      *)

Place(a, d) == a .. (a + 2^d) - 1

OnGrid(a, d) == \E k \in Nat : a = Start + k * 2^d

\* The places of the grid begin in Nat.
LEMMA GridType ==
    ASSUME NEW d \in Nat, NEW a, OnGrid(a, d)
    PROVE  a \in Nat /\ a >= Start /\ Start \in Nat
<1>1. Start \in Nat
  BY BuddyAssumption DEF Start
<1>2. PICK p \in Nat \ {0} : p = 2^d
  BY PowerPositive
<1>3. PICK k \in Nat : a = Start + k * p
  BY <1>2 DEF OnGrid
<1>4. k * p \in Nat
  OBVIOUS
<1> QED
  BY <1>1, <1>3, <1>4

\* A place of division d has 2^d bytes, the first among them.
LEMMA PlaceSize ==
    ASSUME NEW a \in Nat, NEW d \in Nat
    PROVE  /\ IsFiniteSet(Place(a, d)) /\ Cardinality(Place(a, d)) = 2^d
           /\ a \in Place(a, d) /\ Place(a, d) \subseteq Nat
<1>1. PICK p \in Nat \ {0} : p = 2^d
  BY PowerPositive
<1>2. PICK b \in Int : b = (a + p) - 1
  OBVIOUS
<1>3. Place(a, d) = a .. b
  BY <1>1, <1>2 DEF Place
<1>4. ~(a > b) /\ b - a + 1 = p /\ a \in a .. b /\ a .. b \subseteq Nat
  BY <1>2
<1>5. IsFiniteSet(a .. b) /\ Cardinality(a .. b) = p
  BY <1>4, FS_Interval
<1> QED
  BY <1>1, <1>3, <1>4, <1>5

\* Two places that share a byte: the one of the lower division is inside the other.
LEMMA Nested ==
    ASSUME NEW d \in Nat, NEW e \in Nat, d <= e, NEW a, NEW c, OnGrid(a, d), OnGrid(c, e),
           NEW x, x \in Place(a, d), x \in Place(c, e)
    PROVE  Place(a, d) \subseteq Place(c, e)
<1>1. PICK p \in Nat \ {0} : p = 2^d
  BY PowerPositive
<1>2. PICK m \in Nat \ {0} : 2^e = m * p
  BY <1>1, PowerTimes
<1>3. PICK k \in Nat : a = Start + k * p
  BY <1>1 DEF OnGrid
<1>4. PICK l \in Nat : c = Start + l * (m * p)
  BY <1>2 DEF OnGrid
<1>5. PICK h \in Nat : h = l * m
  OBVIOUS
<1>6. c = Start + h * p
  BY <1>4, <1>5
<1>7. a \in Nat /\ c \in Nat /\ Start \in Nat
  BY GridType
<1>8. Place(a, d) = a .. (a + p) - 1 /\ Place(c, e) = c .. (c + m * p) - 1
  BY <1>1, <1>2 DEF Place
<1>9. k * p \in Nat /\ h * p \in Nat /\ m * p \in Nat
  OBVIOUS
<1>10. k * p < h * p + m * p /\ h * p < k * p + p
  BY <1>3, <1>6, <1>7, <1>8, <1>9
<1>11. h * p + m * p = (h + m) * p /\ k * p + p = (k + 1) * p
  OBVIOUS
<1>12. k < h + m /\ h < k + 1
  BY <1>10, <1>11, Factors
<1>13. h <= k /\ k + 1 <= h + m
  BY <1>12
<1>14. h * p <= k * p /\ (k + 1) * p <= (h + m) * p
  BY <1>13, Factors
<1>15. c <= a /\ a + p <= c + m * p
  BY <1>3, <1>6, <1>7, <1>9, <1>11, <1>14
<1> QED
  BY <1>7, <1>8, <1>9, <1>15

\* Of one division they are the same.
LEMMA SamePlace ==
    ASSUME NEW d \in Nat, NEW a, NEW c, OnGrid(a, d), OnGrid(c, d),
           NEW x, x \in Place(a, d), x \in Place(c, d)
    PROVE  a = c
<1>1. Place(a, d) \subseteq Place(c, d) /\ Place(c, d) \subseteq Place(a, d)
  BY Nested
<1>2. a \in Nat /\ c \in Nat
  BY GridType
<1>3. a \in Place(a, d) /\ c \in Place(c, d)
  BY <1>2, PlaceSize
<1>4. PICK p \in Nat \ {0} : p = 2^d
  BY PowerPositive
<1>5. a \in c .. (c + p) - 1 /\ c \in a .. (a + p) - 1
  BY <1>1, <1>3, <1>4 DEF Place
<1> QED
  BY <1>2, <1>5

\* Rounding down, by the remainder, finds the place that a byte is in.
LEMMA RoundDown ==
    ASSUME NEW d \in Nat, NEW x \in Nat, x >= Start
    PROVE  LET r == x - ((x - Start) % 2^d) IN OnGrid(r, d) /\ x \in Place(r, d)
<1>1. PICK p \in Nat \ {0} : p = 2^d
  BY PowerPositive
<1>2. Start \in Nat
  BY BuddyAssumption DEF Start
<1>3. PICK y \in Nat : y = x - Start
  BY <1>2
<1>4. PICK q \in Nat, t \in 0 .. p - 1 : t = y % p /\ y = p * q + t
  <2>1. y = p * (y \div p) + (y % p) /\ y \div p \in Nat /\ y % p \in 0 .. p - 1
    OBVIOUS
  <2> QED
    BY <2>1
<1>5. PICK r : r = x - t
  OBVIOUS
<1>6. p * q = q * p /\ q * p \in Nat
  OBVIOUS
<1>7. r = Start + q * p
  <2>1. PICK z \in Nat : z = q * p /\ z = p * q
    BY <1>6
  <2>2. y = z + t /\ y = x - Start /\ r = x - t
    BY <1>3, <1>4, <1>5, <2>1
  <2>3. r = Start + z
    BY <1>2, <2>2
  <2> QED
    BY <2>1, <2>3
<1>8. r \in Nat /\ x \in r .. (r + p) - 1
  BY <1>2, <1>4, <1>5, <1>6, <1>7
<1> QED
  BY <1>1, <1>3, <1>4, <1>5, <1>7, <1>8 DEF OnGrid, Place

\* A place is two of the division below it.
LEMMA Halves ==
    ASSUME NEW d \in Nat, NEW a, OnGrid(a, d + 1)
    PROVE  /\ OnGrid(a, d) /\ OnGrid(a + 2^d, d)
           /\ a \in Place(a, d + 1) /\ a + 2^d \in Place(a, d + 1)
           /\ Place(a, d + 1) = Place(a, d) \cup Place(a + 2^d, d)
           /\ Place(a, d) \cap Place(a + 2^d, d) = {}
           /\ a + 2^d # a
<1>1. PICK p \in Nat \ {0} : p = 2^d
  BY PowerPositive
<1>2. d + 1 \in Nat /\ 2^(d + 1) = p + p
  BY <1>1, PowerNext
<1>3. PICK k \in Nat : a = Start + k * (p + p)
  BY <1>2 DEF OnGrid
<1>4. a \in Nat /\ Start \in Nat
  BY <1>2, GridType
<1>5. PICK h \in Nat : h = k + k
  OBVIOUS
<1>6. k * (p + p) = h * p /\ h * p \in Nat /\ h * p + p = (h + 1) * p
  BY <1>5
<1>7. a = Start + h * p /\ a + p = Start + (h + 1) * p
  BY <1>3, <1>4, <1>6
<1>8. OnGrid(a, d) /\ OnGrid(a + 2^d, d)
  <2>1. h + 1 \in Nat
    OBVIOUS
  <2>2. \E i \in Nat : a + 2^d = Start + i * 2^d
    BY <1>1, <1>7, <2>1, Zenon
  <2>3. \E i \in Nat : a = Start + i * 2^d
    BY <1>1, <1>7
  <2> QED
    BY <2>2, <2>3 DEF OnGrid
<1>9. /\ Place(a, d) = a .. (a + p) - 1 /\ Place(a + 2^d, d) = a + p .. ((a + p) + p) - 1
      /\ Place(a, d + 1) = a .. (a + (p + p)) - 1
  BY <1>1, <1>2 DEF Place
<1>10. /\ a .. (a + (p + p)) - 1 = (a .. (a + p) - 1) \cup (a + p .. ((a + p) + p) - 1)
       /\ (a .. (a + p) - 1) \cap (a + p .. ((a + p) + p) - 1) = {}
       /\ a \in a .. (a + (p + p)) - 1 /\ a + p \in a .. (a + (p + p)) - 1
       /\ a + p # a
  BY <1>4
<1> QED
  BY <1>1, <1>8, <1>9, <1>10

\* The end of a place, of a division below it, is one too.
LEMMA TailPlace ==
    ASSUME NEW d \in Nat, NEW e \in Nat, d <= e, NEW a, OnGrid(a, e)
    PROVE  /\ OnGrid((a + 2^e) - 2^d, d) /\ 2^d <= 2^e
           /\ Place((a + 2^e) - 2^d, d) \subseteq Place(a, e)
<1>1. PICK p \in Nat \ {0} : p = 2^d
  BY PowerPositive
<1>2. PICK m \in Nat \ {0} : 2^e = m * p
  BY <1>1, PowerTimes
<1>3. PICK k \in Nat : a = Start + k * (m * p)
  BY <1>2 DEF OnGrid
<1>4. PICK h \in Nat : h = k * m
  OBVIOUS
<1>5. a = Start + h * p
  BY <1>3, <1>4
<1>6. PICK j \in Nat : j = m - 1
  OBVIOUS
<1>7. m * p = j * p + p /\ j * p \in Nat /\ h * p \in Nat /\ h * p + j * p = (h + j) * p
  BY <1>6
<1>8. Start \in Nat
  BY GridType
<1>9. PICK c : c = (a + m * p) - p
  OBVIOUS
<1>10. c = Start + (h + j) * p /\ h + j \in Nat
  BY <1>5, <1>7, <1>8, <1>9
<1>11. c >= a /\ a \in Nat /\ c \in Nat /\ c + p = a + m * p /\ p <= m * p
  BY <1>5, <1>7, <1>8, <1>9
<1>12. Place(c, d) = c .. (c + p) - 1 /\ Place(a, e) = a .. (a + m * p) - 1
  BY <1>1, <1>2 DEF Place
<1>13. c .. (c + p) - 1 \subseteq a .. (a + m * p) - 1
  BY <1>11
<1>14. OnGrid(c, d)
  BY <1>1, <1>10 DEF OnGrid
<1> QED
  BY <1>1, <1>2, <1>9, <1>11, <1>12, <1>13, <1>14

-----------------------------------------------------------------------------
(* The buddy system's stock: free blocks and held ones, which tile the     *)
(* arena, with no pair of which both halves are free.                      *)

Whole == Start .. Start + BuddySize - 1

Span(x) == Place(x.at, x.div)

Cover(A) == UNION {Span(x) : x \in A}

Block == {x \in [at : Nat, div : Division] : OnGrid(x.at, x.div) /\ Span(x) \subseteq Whole}

Apart(A) == \A x, y \in A : x # y => Span(x) \cap Span(y) = {}

Paired(x, y) ==
    /\ x # y /\ x.div = y.div
    /\ \E r : /\ OnGrid(r, x.div + 1)
              /\ x.at \in Place(r, x.div + 1) /\ y.at \in Place(r, x.div + 1)

NoPairs(free) == \A x, y \in free : ~Paired(x, y)

Stock(free, taken) ==
    /\ free \cup taken \subseteq Block /\ free \cap taken = {}
    /\ Apart(free \cup taken) /\ Cover(free \cup taken) = Whole
    /\ NoPairs(free)

\* The arena is one place, of the largest division, and fits in the memory it was given.
LEMMA ArenaIsPlace ==
    /\ LargestDivision \in Nat /\ LargestDivision \in Division
    /\ \A d \in Division : d \in Nat /\ d <= LargestDivision
    /\ Start \in Nat /\ BuddySize \in Nat \ {0} /\ Start + BuddySize <= MEM_SIZE
    /\ Whole = Place(Start, LargestDivision) /\ OnGrid(Start, LargestDivision)
<1> DEFINE room == MEM_SIZE - BASE_SIZE
           S == {FloorLog(room), MAX_DIVISIONS - 1}
<1>1. room \in Nat \ {0} /\ Start = BASE_SIZE /\ MAX_DIVISIONS - 1 \in Nat
  BY ArenaAssumption, BuddyAssumption DEF Start
<1>2. FloorLog(room) \in Nat /\ 2^FloorLog(room) <= room
  <2> HIDE DEF room
  <2>1. FloorLog(room) \in 0 .. room /\ 2^FloorLog(room) <= room
    BY <1>1, FloorLogIs
  <2> QED
    BY <1>1, <2>1
<1>3. Min(S) \in S /\ \A y \in S : Min(S) <= y
  <2>1. S \in SUBSET Nat /\ S # {}
    BY <1>1, <1>2
  <2> HIDE DEF S
  <2> QED
    BY <2>1, MinProperties
<1>4. LargestDivision = Min(S)
  BY DEF LargestDivision
<1>5. LargestDivision \in Nat /\ LargestDivision <= FloorLog(room)
  <2> HIDE DEF room
  <2> QED
    BY <1>1, <1>2, <1>3, <1>4
<1>6. 2^LargestDivision <= 2^FloorLog(room)
  <2>1. OnGrid(Start, FloorLog(room))
    <3>1. PICK p \in Nat : p = 2^FloorLog(room)
      BY <1>2, PowerPositive
    <3>2. Start = Start + 0 * p
      BY <1>1, BuddyAssumption
    <3> HIDE DEF room
    <3> QED
      BY <3>1, <3>2 DEF OnGrid
  <2> HIDE DEF room
  <2> QED
    BY <1>2, <1>5, <2>1, TailPlace
<1>7. PICK p \in Nat \ {0} : p = BuddySize
  BY <1>5, PowerPositive DEF BuddySize
<1>8. p <= room
  <2>1. PICK q \in Nat \ {0} : q = 2^FloorLog(room)
    BY <1>2, PowerPositive
  <2>2. p <= q /\ q <= room
    BY <1>2, <1>6, <1>7, <2>1 DEF BuddySize
  <2> QED
    BY <1>1, <2>2
<1>9. Start \in Nat /\ Start + p <= MEM_SIZE
  BY <1>1, <1>8, ArenaAssumption, BuddyAssumption
<1>10. Whole = Place(Start, LargestDivision)
  <2>1. Whole = Start .. Start + p - 1
    BY <1>7 DEF Whole
  <2>2. Place(Start, LargestDivision) = Start .. (Start + p) - 1
    BY <1>7 DEF Place, BuddySize
  <2>3. Start + p - 1 = (Start + p) - 1
    BY <1>9
  <2> QED
    BY <2>1, <2>2, <2>3
<1>11. OnGrid(Start, LargestDivision)
  <2>1. Start = Start + 0 * p
    BY <1>9
  <2> QED
    BY <1>7, <2>1 DEF OnGrid, BuddySize
<1>12. LargestDivision \in Division /\ \A d \in Division : d \in Nat /\ d <= LargestDivision
  BY <1>5 DEF Division
<1> QED
  BY <1>5, <1>7, <1>9, <1>10, <1>11, <1>12

\* A block and its bytes.
LEMMA BlockIs ==
    ASSUME NEW x \in Block
    PROVE  /\ x.at \in Nat /\ x.div \in Division /\ x.div \in Nat /\ OnGrid(x.at, x.div)
           /\ x.at \in Span(x) /\ Span(x) \subseteq Whole /\ x = [at |-> x.at, div |-> x.div]
<1>1. /\ x \in [at : Nat, div : Division]
      /\ OnGrid(x.at, x.div) /\ Span(x) \subseteq Whole
  BY DEF Block
<1>2. x.at \in Nat /\ x.div \in Division /\ x = [at |-> x.at, div |-> x.div]
  BY <1>1
<1>3. x.div \in Nat
  BY <1>2, ArenaIsPlace
<1>4. x.at \in Span(x)
  BY <1>2, <1>3, PlaceSize DEF Span
<1> QED
  BY <1>1, <1>2, <1>3, <1>4

\* Blocks that cover the same bytes may take the place of others.
LEMMA Retile ==
    ASSUME NEW all, NEW old, NEW new, old \subseteq all, Apart(all), Apart(new),
           Cover(old) = Cover(new), all \cup new \subseteq Block,
           NEW rest, rest = all \ old
    PROVE  /\ Apart(rest \cup new) /\ Cover(rest \cup new) = Cover(all)
           /\ rest \cap new = {}
<1>1. ASSUME NEW x \in rest, NEW y \in new PROVE Span(x) \cap Span(y) = {}
  <2>1. SUFFICES ASSUME NEW b, b \in Span(x), b \in Span(y) PROVE FALSE
    OBVIOUS
  <2>2. b \in Cover(old)
    BY <2>1 DEF Cover
  <2>3. PICK z \in old : b \in Span(z)
    BY <2>2 DEF Cover
  <2>4. x \in all /\ z \in all /\ x # z
    BY <1>1
  <2> QED
    BY <2>1, <2>3, <2>4 DEF Apart
<1>2. Apart(rest \cup new)
  <2> SUFFICES ASSUME NEW x \in rest \cup new, NEW y \in rest \cup new, x # y
               PROVE  Span(x) \cap Span(y) = {}
    BY DEF Apart
  <2>1. CASE x \in rest /\ y \in rest
    BY <2>1 DEF Apart
  <2>2. CASE x \in new /\ y \in new
    BY <2>2 DEF Apart
  <2>3. CASE x \in rest /\ y \in new
    BY <1>1, <2>3
  <2>4. CASE x \in new /\ y \in rest
    BY <1>1, <2>4
  <2> QED
    BY <2>1, <2>2, <2>3, <2>4
<1>3. Cover(rest \cup new) = Cover(all)
  <2>1. Cover(rest \cup new) = Cover(rest) \cup Cover(new)
    BY DEF Cover
  <2>2. Cover(all) = Cover(rest) \cup Cover(old)
    <3>1. all = rest \cup old
      OBVIOUS
    <3> QED
      BY <3>1 DEF Cover
  <2> QED
    BY <2>1, <2>2
<1>4. rest \cap new = {}
  <2> SUFFICES ASSUME NEW x \in rest, x \in new PROVE FALSE
    OBVIOUS
  <2>1. x.at \in Span(x)
    BY BlockIs
  <2> QED
    BY <1>1, <2>1
<1> QED
  BY <1>2, <1>3, <1>4

\* What is left of block x when its end, of division d, is handed out.
EndOf(x, d) == [at |-> (x.at + 2^x.div) - 2^d, div |-> d]
Pieces(x, d) == {p \in Block : /\ p.div \in d .. x.div - 1
                               /\ p.at = (x.at + 2^x.div) - 2^(p.div + 1)}

\* A piece is a block of its division, in the block that was halved.
LEMMA PieceIs ==
    ASSUME NEW x \in Block, NEW d \in Nat, NEW f \in d .. x.div - 1
    PROVE  /\ [at |-> (x.at + 2^x.div) - 2^(f + 1), div |-> f] \in Pieces(x, d)
           /\ Span([at |-> (x.at + 2^x.div) - 2^(f + 1), div |-> f]) \subseteq Span(x)
<1>1. /\ x.at \in Nat /\ x.div \in Nat /\ x.div \in Division /\ OnGrid(x.at, x.div)
      /\ Span(x) \subseteq Whole
  BY BlockIs
<1>2. f \in Nat /\ f + 1 \in Nat /\ f + 1 <= x.div /\ f \in Division
  <2>1. f \in Nat /\ f + 1 \in Nat /\ f + 1 <= x.div
    BY <1>1
  <2>2. x.div \in Nat /\ x.div <= LargestDivision /\ LargestDivision \in Nat
    BY <1>1, ArenaIsPlace
  <2> QED
    BY <2>1, <2>2 DEF Division
<1>3. PICK a : a = (x.at + 2^x.div) - 2^(f + 1)
  OBVIOUS
<1>4. OnGrid(a, f + 1) /\ Place(a, f + 1) \subseteq Place(x.at, x.div)
  BY <1>1, <1>2, <1>3, TailPlace
<1>5. OnGrid(a, f) /\ Place(a, f) \subseteq Place(a, f + 1)
  BY <1>2, <1>4, Halves
<1>6. a \in Nat
  BY <1>2, <1>5, GridType
<1>7. PICK p : p = [at |-> a, div |-> f]
  OBVIOUS
<1>8. p.at = a /\ p.div = f /\ p \in [at : Nat, div : Division]
  BY <1>2, <1>6, <1>7
<1>9. Span(p) = Place(a, f) /\ Span(x) = Place(x.at, x.div)
  BY <1>8 DEF Span
<1>10. Span(p) \subseteq Span(x) /\ p \in Block
  BY <1>1, <1>4, <1>5, <1>8, <1>9 DEF Block
<1> QED
  BY <1>3, <1>7, <1>8, <1>10 DEF Pieces

\* What is left at the end is one, too.
LEMMA TailIsBlock ==
    ASSUME NEW x \in Block, NEW d \in Nat, d <= x.div
    PROVE  EndOf(x, d) \in Block /\ Span(EndOf(x, d)) \subseteq Span(x) /\ EndOf(x, d).div = d
<1>1. /\ x.at \in Nat /\ x.div \in Nat /\ x.div \in Division /\ OnGrid(x.at, x.div)
      /\ Span(x) \subseteq Whole
  BY BlockIs
<1>2. d \in Division
  <2>1. x.div \in Nat /\ x.div <= LargestDivision /\ LargestDivision \in Nat
    BY <1>1, ArenaIsPlace
  <2> QED
    BY <2>1 DEF Division
<1>3. PICK a : a = (x.at + 2^x.div) - 2^d
  OBVIOUS
<1>4. OnGrid(a, d) /\ Place(a, d) \subseteq Place(x.at, x.div)
  BY <1>1, <1>3, TailPlace
<1>5. a \in Nat
  BY <1>4, GridType
<1>6. PICK p : p = EndOf(x, d)
  OBVIOUS
<1>7. p.at = a /\ p.div = d /\ p \in [at : Nat, div : Division]
  BY <1>2, <1>3, <1>5, <1>6 DEF EndOf
<1>8. Span(p) = Place(a, d) /\ Span(x) = Place(x.at, x.div)
  BY <1>7 DEF Span
<1> QED
  BY <1>1, <1>4, <1>6, <1>7, <1>8 DEF Block

\* Where piece and end lie, from the end of x.
LEMMA PieceSpan ==
    ASSUME NEW x \in Block, NEW d \in Nat, d <= x.div, NEW end, end = x.at + 2^x.div
    PROVE  /\ end \in Int
           /\ Span(EndOf(x, d)) = end - 2^d .. end - 1
           /\ Span(x) = end - 2^x.div .. end - 1
           /\ \A p \in Pieces(x, d) : Span(p) = end - 2^(p.div + 1) .. (end - 2^p.div) - 1
<1>1. x.at \in Nat /\ x.div \in Nat
  BY BlockIs
<1>2. 2^x.div \in Int /\ 2^d \in Int
  BY <1>1, PowerInt
<1>3. end \in Int
  BY <1>1, <1>2
<1>4. Span(EndOf(x, d)) = end - 2^d .. end - 1
  <2>1. PICK a, q \in Int : q = 2^d /\ a = end - q
    BY <1>2
  <2>2. Span(EndOf(x, d)) = a .. (a + q) - 1
    BY <2>1 DEF Span, EndOf, Place
  <2>3. (a + q) - 1 = end - 1
    BY <1>3, <2>1
  <2> QED
    BY <2>1, <2>2, <2>3
<1>5. Span(x) = end - 2^x.div .. end - 1
  <2>1. Span(x) = x.at .. end - 1
    BY DEF Span, Place
  <2>2. end - 2^x.div = x.at
    BY <1>1, <1>2
  <2> QED
    BY <2>1, <2>2
<1>6. ASSUME NEW p \in Pieces(x, d)
      PROVE  Span(p) = end - 2^(p.div + 1) .. (end - 2^p.div) - 1
  <2>1. p.div \in Nat /\ p.at = end - 2^(p.div + 1)
    BY BlockIs DEF Pieces
  <2>2. PICK q \in Int : q = 2^p.div
    BY <2>1, PowerInt
  <2>3. 2^(p.div + 1) = q + q
    BY <2>1, <2>2, PowerNext
  <2>4. Span(p) = p.at .. (p.at + q) - 1
    BY <2>2 DEF Span, Place
  <2>5. PICK a : a = p.at
    OBVIOUS
  <2>6. a = end - (q + q)
    BY <2>1, <2>3, <2>5
  <2>7. (a + q) - 1 = (end - q) - 1
    BY <1>3, <2>2, <2>6
  <2> QED
    BY <2>1, <2>2, <2>4, <2>5, <2>7
<1> QED
  BY <1>3, <1>4, <1>5, <1>6

\* The lower the division, the smaller the place.
LEMMA PowersGrow ==
    ASSUME NEW d \in Nat, NEW e \in Nat, d <= e
    PROVE  2^d <= 2^e /\ 2^d \in Int /\ 2^e \in Int
<1>1. PICK p \in Nat \ {0} : p = 2^d
  BY PowerPositive
<1>2. PICK m \in Nat \ {0} : 2^e = m * p
  BY <1>1, PowerTimes
<1>3. m * p >= p /\ m * p \in Int
  OBVIOUS
<1> QED
  BY <1>1, <1>2, <1>3

\* Halving a block tiles it.
LEMMA PiecesTile ==
    ASSUME NEW x \in Block, NEW d \in Nat, d <= x.div, NEW new,
           new = Pieces(x, d) \cup {EndOf(x, d)}
    PROVE  /\ new \subseteq Block /\ Apart(new) /\ Cover(new) = Span(x)
           /\ EndOf(x, d) \notin Pieces(x, d)
<1>1. x.at \in Nat /\ x.div \in Nat
  BY BlockIs
<1>2. PICK end : end = x.at + 2^x.div
  OBVIOUS
<1>3. /\ end \in Int
      /\ Span(EndOf(x, d)) = end - 2^d .. end - 1
      /\ Span(x) = end - 2^x.div .. end - 1
      /\ \A p \in Pieces(x, d) : Span(p) = end - 2^(p.div + 1) .. (end - 2^p.div) - 1
  BY <1>2, PieceSpan
<1>4. EndOf(x, d) \in Block /\ EndOf(x, d).div = d
  BY TailIsBlock
<1>5. \A p \in Pieces(x, d) : p \in Block /\ p.div \in Nat /\ d <= p.div /\ p.div + 1 <= x.div
  <2> TAKE p \in Pieces(x, d)
  <2>1. p.div \in d .. x.div - 1 /\ p \in Block
    BY DEF Pieces
  <2> QED
    BY <1>1, <2>1
<1>6. ASSUME NEW p \in Pieces(x, d) PROVE Span(p) \cap Span(EndOf(x, d)) = {}
  <2>1. 2^d <= 2^p.div /\ 2^d \in Int /\ 2^p.div \in Int
    BY <1>5, PowersGrow
  <2>2. 2^(p.div + 1) \in Int
    <3>1. p.div + 1 \in Nat
      BY <1>5
    <3> QED
      BY <3>1, PowerInt
  <2>3. PICK u, v, w \in Int : u = 2^d /\ v = 2^p.div /\ w = 2^(p.div + 1)
    BY <2>1, <2>2
  <2>4. Span(p) = end - w .. (end - v) - 1 /\ Span(EndOf(x, d)) = end - u .. end - 1
    BY <1>3, <2>3
  <2>5. u <= v
    BY <2>1, <2>3
  <2> QED
    BY <1>3, <2>4, <2>5
<1>7. ASSUME NEW p \in Pieces(x, d), NEW q \in Pieces(x, d), p.div < q.div
      PROVE  Span(p) \cap Span(q) = {}
  <2>1. /\ p.div + 1 <= q.div /\ p.div \in Nat /\ q.div \in Nat
        /\ p.div + 1 \in Nat /\ q.div + 1 \in Nat
    BY <1>5, <1>7
  <2>2. 2^(p.div + 1) <= 2^q.div
    BY <2>1, PowersGrow
  <2>3. PICK u, v, w, t \in Int : u = 2^p.div /\ v = 2^(p.div + 1) /\ w = 2^q.div
                                  /\ t = 2^(q.div + 1)
    BY <2>1, PowerInt
  <2>4. Span(p) = end - v .. (end - u) - 1 /\ Span(q) = end - t .. (end - w) - 1
    BY <1>3, <2>3
  <2>5. v <= w
    BY <2>2, <2>3
  <2> QED
    BY <1>3, <2>4, <2>5
<1>8. ASSUME NEW p \in Pieces(x, d), NEW q \in Pieces(x, d), p # q PROVE p.div # q.div
  <2>1. p = [at |-> p.at, div |-> p.div] /\ q = [at |-> q.at, div |-> q.div]
    BY <1>5, BlockIs
  <2> QED
    BY <1>8, <2>1 DEF Pieces
<1>9. Apart(new)
  <2> SUFFICES ASSUME NEW p \in new, NEW q \in new, p # q PROVE Span(p) \cap Span(q) = {}
    BY DEF Apart
  <2>1. CASE p \in Pieces(x, d) /\ q \in Pieces(x, d)
    <3>1. p.div < q.div \/ q.div < p.div
      BY <1>5, <1>8, <2>1
    <3> QED
      BY <1>7, <2>1, <3>1
  <2>2. CASE p \in Pieces(x, d) /\ q = EndOf(x, d)
    BY <1>6, <2>2
  <2>3. CASE q \in Pieces(x, d) /\ p = EndOf(x, d)
    BY <1>6, <2>3
  <2> QED
    BY <2>1, <2>2, <2>3
<1>10. ASSUME NEW b \in Span(x) PROVE b \in Cover(new)
  <2> DEFINE S == {f \in Nat : d <= f /\ f <= x.div /\ b >= end - 2^f}
  <2>1. b \in Int /\ b >= end - 2^x.div /\ b <= end - 1
    <3>1. PICK u \in Int : u = 2^x.div
      BY <1>1, PowerInt
    <3>2. b \in end - u .. end - 1
      BY <1>3, <3>1
    <3> QED
      BY <1>3, <3>1, <3>2
  <2>2. x.div \in S
    BY <1>1, <2>1
  <2>3. PICK f \in S : \A g \in S : f <= g
    <3>1. S \in SUBSET Nat /\ S # {}
      BY <2>2
    <3> HIDE DEF S
    <3> QED
      BY <3>1, LeastNatural
  <2>4. CASE f = d
    <3>1. PICK u \in Int : u = 2^d
      BY PowerInt
    <3>2. b \in end - u .. end - 1
      BY <1>3, <2>1, <2>3, <2>4, <3>1
    <3> QED
      BY <1>3, <3>1, <3>2 DEF Cover
  <2>5. CASE f # d
    <3>1. PICK g \in Nat : g = f - 1
      BY <2>3, <2>5
    <3>2. d <= g /\ g < x.div /\ g \notin S /\ g + 1 = f /\ g \in d .. x.div - 1
      BY <1>1, <2>3, <2>5, <3>1
    <3>3. PICK u, v \in Int : u = 2^g /\ v = 2^f
      BY <2>3, <3>1, PowerInt
    <3>4. ~(b >= end - u) /\ b >= end - v
      BY <1>1, <2>3, <3>2, <3>3
    <3>5. PICK p : p = [at |-> (x.at + 2^x.div) - 2^(g + 1), div |-> g]
      OBVIOUS
    <3>6. p \in Pieces(x, d)
      BY <3>2, <3>5, PieceIs
    <3>7. p.div = g
      BY <3>5
    <3>8. Span(p) = end - v .. (end - u) - 1
      BY <1>3, <3>2, <3>3, <3>6, <3>7
    <3>9. b \in Span(p)
      BY <1>3, <2>1, <3>4, <3>8
    <3> QED
      BY <3>6, <3>9 DEF Cover
  <2> QED
    BY <2>4, <2>5
<1>11. ASSUME NEW p \in new PROVE Span(p) \subseteq Span(x)
  <2>1. CASE p = EndOf(x, d)
    BY <2>1, TailIsBlock
  <2>2. CASE p \in Pieces(x, d)
    <3>1. p.div \in d .. x.div - 1 /\ p.at = (x.at + 2^x.div) - 2^(p.div + 1) /\ p \in Block
      BY <2>2 DEF Pieces
    <3>2. p = [at |-> (x.at + 2^x.div) - 2^(p.div + 1), div |-> p.div]
      BY <3>1, BlockIs
    <3> QED
      BY <3>1, <3>2, PieceIs
  <2> QED
    BY <2>1, <2>2
<1>12. Cover(new) = Span(x)
  BY <1>10, <1>11 DEF Cover
<1>13. EndOf(x, d) \notin Pieces(x, d)
  <2>1. EndOf(x, d).at \in Span(EndOf(x, d))
    BY <1>4, BlockIs
  <2> QED
    BY <1>6, <2>1
<1> QED
  BY <1>4, <1>5, <1>9, <1>12, <1>13

\* From division d on, there is no free block below x.
Lowest(free, x, d) == d <= x.div /\ \A y \in free : y.div \notin d .. x.div - 1

\* memalloc: the first division with a free block gives one, which is halved down to d.
LEMMA StockGives ==
    ASSUME NEW free, NEW taken, Stock(free, taken), NEW x \in free, NEW d \in Nat,
           Lowest(free, x, d)
    PROVE  /\ Stock((free \ {x}) \cup Pieces(x, d), taken \cup {EndOf(x, d)})
           /\ Span(EndOf(x, d)) \subseteq Span(x) /\ EndOf(x, d).div = d
           /\ EndOf(x, d) \in Block
           /\ \A y \in taken : Span(y) \cap Span(EndOf(x, d)) = {}
<1> DEFINE all == free \cup taken
           new == Pieces(x, d) \cup {EndOf(x, d)}
           rest == all \ {x}
           freeNow == (free \ {x}) \cup Pieces(x, d)
           takenNow == taken \cup {EndOf(x, d)}
<1> USE DEF Lowest
<1>1. /\ all \subseteq Block /\ free \cap taken = {} /\ Apart(all) /\ Cover(all) = Whole
      /\ NoPairs(free)
  BY DEF Stock
<1>2. x \in Block /\ x \in all /\ x \notin taken
  BY <1>1
<1>3. new \subseteq Block /\ Apart(new) /\ Cover(new) = Span(x) /\ EndOf(x, d) \notin Pieces(x, d)
  BY <1>2, PiecesTile
<1>4. Cover({x}) = Span(x)
  BY DEF Cover
<1>5. Apart(rest \cup new) /\ Cover(rest \cup new) = Cover(all) /\ rest \cap new = {}
  <2>1. {x} \subseteq all /\ all \cup new \subseteq Block /\ Cover({x}) = Cover(new)
    BY <1>1, <1>2, <1>3, <1>4
  <2> HIDE DEF all, new
  <2> QED
    BY <1>1, <1>3, <2>1, Retile
<1>6. freeNow \cup takenNow = rest \cup new /\ freeNow \cap takenNow = {}
  BY <1>1, <1>2, <1>3, <1>5
<1>7. NoPairs(freeNow)
  <2> SUFFICES ASSUME NEW u \in freeNow, NEW v \in freeNow, Paired(u, v) PROVE FALSE
    BY DEF NoPairs
  <2>1. u # v /\ u.div = v.div
    BY DEF Paired
  <2>2. \A p \in Pieces(x, d) : p.div \in d .. x.div - 1
    BY DEF Pieces
  <2>3. CASE u \in free /\ v \in free
    BY <1>1, <2>3 DEF NoPairs
  <2>4. CASE u \in Pieces(x, d) /\ v \in Pieces(x, d)
    <3>1. u.at = v.at /\ u \in Block /\ v \in Block
      BY <2>1, <2>4 DEF Pieces
    <3> QED
      BY <2>1, <3>1, BlockIs
  <2>5. CASE u \in Pieces(x, d) /\ v \in free
    BY <2>1, <2>2, <2>5
  <2>6. CASE u \in free /\ v \in Pieces(x, d)
    BY <2>1, <2>2, <2>6
  <2> QED
    BY <2>3, <2>4, <2>5, <2>6
<1>8. rest \cup new \subseteq Block
  BY <1>1, <1>3
<1>9. Stock(freeNow, takenNow)
  BY <1>1, <1>5, <1>6, <1>7, <1>8 DEF Stock
<1>10. EndOf(x, d) \in Block /\ Span(EndOf(x, d)) \subseteq Span(x) /\ EndOf(x, d).div = d
  BY <1>2, TailIsBlock
<1>11. ASSUME NEW y \in taken PROVE Span(y) \cap Span(EndOf(x, d)) = {}
  <2>1. y \in all /\ y # x
    BY <1>1
  <2> QED
    BY <1>1, <1>2, <1>10, <2>1 DEF Apart
<1> QED
  BY <1>9, <1>10, <1>11

-----------------------------------------------------------------------------
\* Two different places of division d in one place of the division above are its halves.
LEMMA OtherHalf ==
    ASSUME NEW d \in Nat, NEW r, OnGrid(r, d + 1), NEW u, NEW v, OnGrid(u, d), OnGrid(v, d), u # v,
           NEW b, b \in Place(u, d), b \in Place(r, d + 1),
           NEW c, c \in Place(v, d), c \in Place(r, d + 1)
    PROVE  Place(r, d + 1) = Place(u, d) \cup Place(v, d)
<1>1. /\ OnGrid(r, d) /\ OnGrid(r + 2^d, d)
      /\ Place(r, d + 1) = Place(r, d) \cup Place(r + 2^d, d)
  BY Halves
<1>2. u = r \/ u = r + 2^d
  <2>1. b \in Place(r, d) \/ b \in Place(r + 2^d, d)
    BY <1>1
  <2> QED
    BY <1>1, <2>1, SamePlace
<1>3. v = r \/ v = r + 2^d
  <2>1. c \in Place(r, d) \/ c \in Place(r + 2^d, d)
    BY <1>1
  <2> QED
    BY <1>1, <2>1, SamePlace
<1> QED
  BY <1>1, <1>2, <1>3

\* The place of division e around a byte, by the remainder.
Around(a, e) == a - ((a - Start) % 2^e)

\* The place of division e around a block.
LEMMA AroundIs ==
    ASSUME NEW x \in Block, NEW e \in Nat, x.div <= e
    PROVE  /\ OnGrid(Around(x.at, e), e) /\ x.at \in Place(Around(x.at, e), e)
           /\ Span(x) \subseteq Place(Around(x.at, e), e)
           /\ e = x.div => Around(x.at, e) = x.at
           /\ e <= LargestDivision => Place(Around(x.at, e), e) \subseteq Whole
           /\ Around(x.at, e) \in Nat
<1>1. /\ x.at \in Nat /\ x.div \in Nat /\ OnGrid(x.at, x.div)
      /\ x.at \in Span(x) /\ Span(x) \subseteq Whole /\ Span(x) = Place(x.at, x.div)
  BY BlockIs DEF Span
<1>2. x.at >= Start
  BY <1>1, GridType
<1>3. PICK r : r = Around(x.at, e)
  OBVIOUS
<1>4. OnGrid(r, e) /\ x.at \in Place(r, e)
  BY <1>1, <1>2, <1>3, RoundDown DEF Around
<1>5. Span(x) \subseteq Place(r, e)
  BY <1>1, <1>4, Nested
<1>6. ASSUME e = x.div PROVE r = x.at
  BY <1>1, <1>4, <1>6, SamePlace
<1>7. ASSUME e <= LargestDivision PROVE Place(r, e) \subseteq Whole
  <2>1. /\ Whole = Place(Start, LargestDivision) /\ OnGrid(Start, LargestDivision)
        /\ LargestDivision \in Nat
    BY ArenaIsPlace
  <2>2. x.at \in Place(Start, LargestDivision)
    BY <1>1, <2>1
  <2> QED
    BY <1>4, <1>7, <2>1, <2>2, Nested
<1>8. r \in Nat
  BY <1>4, GridType
<1> QED
  BY <1>3, <1>4, <1>5, <1>6, <1>7, <1>8

\* The free blocks that memfree joins with x on its way up to division s.
Buddies(free, x, s) ==
    {y \in free : y.div \in x.div .. s - 1 /\ y.at \in Place(Around(x.at, y.div + 1), y.div + 1)}

Merged(x, s) == [at |-> Around(x.at, s), div |-> s]

\* A free block in the pair is the other half.
LEMMA BuddyIsOther ==
    ASSUME NEW free, NEW taken, Stock(free, taken), NEW x \in taken, NEW y \in free,
           x.div <= y.div, y.at \in Place(Around(x.at, y.div + 1), y.div + 1)
    PROVE  Place(Around(x.at, y.div + 1), y.div + 1)
             = Place(Around(x.at, y.div), y.div) \cup Span(y)
<1>1. x \in Block /\ y \in Block /\ x # y
  BY DEF Stock
<1>2. /\ y.div \in Nat /\ y.at \in Nat /\ OnGrid(y.at, y.div) /\ y.at \in Span(y)
      /\ Span(y) = Place(y.at, y.div)
  BY <1>1, BlockIs DEF Span
<1>3. x.div \in Nat /\ x.at \in Span(x)
  BY <1>1, BlockIs
<1>4. PICK e \in Nat : e = y.div
  BY <1>2
<1>5. e + 1 \in Nat /\ x.div <= e + 1 /\ x.div <= e
  BY <1>3, <1>4
<1>6. PICK r, u : r = Around(x.at, e + 1) /\ u = Around(x.at, e)
  OBVIOUS
<1>7. OnGrid(r, e + 1) /\ x.at \in Place(r, e + 1)
  BY <1>1, <1>5, <1>6, AroundIs
<1>8. OnGrid(u, e) /\ x.at \in Place(u, e)
  BY <1>1, <1>5, <1>6, AroundIs
<1>9. u # y.at
  <2>1. Span(x) \cap Span(y) = {}
    BY <1>1 DEF Stock, Apart
  <2> QED
    BY <1>2, <1>3, <1>4, <1>8, <2>1
<1>10. Place(r, e + 1) = Place(u, e) \cup Place(y.at, e)
  <2>1. PICK v : v = y.at
    OBVIOUS
  <2>2. OnGrid(v, e) /\ v \in Place(v, e) /\ v \in Place(r, e + 1) /\ u # v
    BY <1>2, <1>4, <1>6, <1>9, <2>1
  <2>3. Place(r, e + 1) = Place(u, e) \cup Place(v, e)
    BY <1>7, <1>8, <2>2, OtherHalf
  <2> QED
    BY <2>1, <2>3
<1> QED
  BY <1>2, <1>4, <1>6, <1>10

\* memfree: as long as the other half is free the pair goes up, and stops at division s.
LEMMA StockTakesBack ==
    ASSUME NEW free, NEW taken, Stock(free, taken), NEW x \in taken,
           NEW s \in Nat, x.div <= s, s <= LargestDivision,
           \A e \in x.div .. s - 1 :
             \E y \in free : y.div = e /\ y.at \in Place(Around(x.at, e + 1), e + 1),
           \A y \in free : y.div = s => y.at \notin Place(Around(x.at, s + 1), s + 1)
    PROVE  Stock((free \ Buddies(free, x, s)) \cup {Merged(x, s)}, taken \ {x})
<1> DEFINE all == free \cup taken
           D == Buddies(free, x, s)
           z == Merged(x, s)
           old == {x} \cup D
           freeNow == (free \ D) \cup {z}
           takenNow == taken \ {x}
           rest == all \ old
           d == x.div
           In(e) == Place(Around(x.at, e), e)
           Below(e) == {x} \cup {y \in D : y.div < e}
<1>1. /\ all \subseteq Block /\ free \cap taken = {} /\ Apart(all) /\ Cover(all) = Whole
      /\ NoPairs(free)
  BY DEF Stock
<1>2. x \in Block /\ x \in all /\ x \notin free /\ d \in Nat /\ x.at \in Nat
  BY <1>1, BlockIs
<1>3. PICK n \in Nat : s = d + n
  <2>1. s - d \in Nat /\ s = d + (s - d)
    BY <1>2
  <2> QED
    BY <2>1
<1>4. D \subseteq free /\ \A y \in D : y.div \in d .. s - 1 /\ y.at \in In(y.div + 1)
  BY DEF Buddies
<1>5. ASSUME NEW y \in D PROVE In(y.div + 1) = In(y.div) \cup Span(y)
  <2>1. y \in free /\ x.div <= y.div /\ y.at \in Place(Around(x.at, y.div + 1), y.div + 1)
    BY <1>2, <1>4
  <2> QED
    BY <2>1, BuddyIsOther
<1> DEFINE S == {k \in 0 .. n : In(d + k) = Cover(Below(d + k))}
<1>6. 0 \in S
  <2>1. d + 0 = d /\ \A y \in D : ~(y.div < d)
    BY <1>2, <1>4
  <2>2. Below(d) = {x}
    BY <2>1
  <2>3. In(d) = Span(x)
    BY <1>2, AroundIs DEF Span
  <2> QED
    BY <2>1, <2>2, <2>3 DEF Cover
<1>7. ASSUME NEW k \in 0 .. n - 1, k \in S PROVE k + 1 \in S
  <2>1. PICK e \in Nat : e = d + k
    BY <1>2
  <2>2. e \in d .. s - 1 /\ d + (k + 1) = e + 1 /\ k + 1 \in 0 .. n
    BY <1>2, <1>3, <2>1
  <2>3. PICK y \in free : y.div = e /\ y.at \in In(e + 1)
    BY <2>2
  <2>4. y \in D
    BY <2>2, <2>3 DEF Buddies
  <2>5. In(e + 1) = In(e) \cup Span(y)
    BY <1>5, <2>3, <2>4
  <2>6. In(e) = Cover(Below(e))
    BY <1>7, <2>1
  <2>7. ASSUME NEW w \in D, w.div < e + 1 PROVE w \in Below(e) \/ w.div = e
    <3>1. w.div \in d .. s - 1
      BY <1>4
    <3> QED
      BY <1>2, <2>7, <3>1
  <2>8. ASSUME NEW w \in D, w.div = e PROVE Span(w) \subseteq In(e + 1)
    BY <1>5, <2>8
  <2>9. Below(e) \subseteq Below(e + 1) /\ y \in Below(e + 1)
    <3>1. ASSUME NEW w \in Below(e) PROVE w \in Below(e + 1)
      <4>1. CASE w = x
        BY <4>1
      <4>2. CASE w \in D /\ w.div < e
        <5>1. w.div \in d .. s - 1
          BY <1>4, <4>2
        <5>2. w.div < e + 1
          BY <1>2, <4>2, <5>1
        <5> QED
          BY <4>2, <5>2
      <4> QED
        BY <4>1, <4>2
    <3>2. y.div < e + 1
      BY <2>3
    <3> QED
      BY <2>4, <3>1, <3>2
  <2>10. In(e + 1) \subseteq Cover(Below(e + 1))
    <3>1. Cover(Below(e)) \subseteq Cover(Below(e + 1)) /\ Span(y) \subseteq Cover(Below(e + 1))
      <4> HIDE DEF Below
      <4> QED
        BY <2>9 DEF Cover
    <3> QED
      BY <2>5, <2>6, <3>1
  <2>11. Cover(Below(e + 1)) \subseteq In(e + 1)
    <3>1. ASSUME NEW w \in Below(e + 1) PROVE Span(w) \subseteq In(e + 1)
      <4>1. w = x \/ (w \in D /\ w.div < e + 1)
        BY <3>1
      <4>2. w \in Below(e) \/ (w \in D /\ w.div = e)
        BY <2>7, <4>1
      <4>3. w \in Below(e) => Span(w) \subseteq In(e)
        <5> HIDE DEF Below, In
        <5> QED
          BY <2>6 DEF Cover
      <4> QED
        BY <2>5, <2>8, <4>2, <4>3
    <3> HIDE DEF Below, In
    <3> QED
      BY <3>1 DEF Cover
  <2> HIDE DEF Below, In
  <2>12. In(e + 1) = Cover(Below(e + 1))
    BY <2>10, <2>11
  <2>13. In(d + (k + 1)) = Cover(Below(d + (k + 1)))
    BY <2>2, <2>12, Zenon
  <2> QED
    BY <2>2, <2>13
<1>8. S \in SUBSET (0 .. n)
  OBVIOUS
<1>9. In(s) = Cover(Below(s))
  <2> HIDE DEF S
  <2>1. S = 0 .. n
    BY <1>6, <1>7, <1>8, UpTo
  <2>2. n \in S
    BY <2>1
  <2> QED
    BY <1>3, <2>2 DEF S
<1>10. Below(s) = old
  <2>1. ASSUME NEW y \in D PROVE y.div < s
    <3>1. y.div \in d .. s - 1
      BY <1>4
    <3> QED
      BY <1>2, <3>1
  <2> QED
    BY <2>1
<1>11. z.div = s /\ z.at = Around(x.at, s) /\ Span(z) = In(s)
  BY DEF Merged, Span
<1>12. z \in Block
  <2>1. OnGrid(Around(x.at, s), s) /\ Around(x.at, s) \in Nat /\ In(s) \subseteq Whole
    BY <1>2, AroundIs
  <2>2. s \in Division
    BY DEF Division
  <2>3. z \in [at : Nat, div : Division]
    BY <2>1, <2>2 DEF Merged
  <2> QED
    BY <1>11, <2>1, <2>3 DEF Block
<1>13. Apart({z}) /\ Cover({z}) = Cover(old)
  <2>1. Cover({z}) = Span(z)
    BY DEF Cover
  <2> HIDE DEF z, old, Below, In
  <2>2. Cover({z}) = Cover(old)
    BY <1>9, <1>10, <1>11, <2>1
  <2> QED
    BY <2>2 DEF Apart
<1>14. /\ Apart(rest \cup {z}) /\ Cover(rest \cup {z}) = Cover(all)
       /\ rest \cap {z} = {}
  <2>1. old \subseteq all /\ all \cup {z} \subseteq Block
    BY <1>1, <1>2, <1>4, <1>12
  <2> HIDE DEF old, all, z
  <2> QED
    BY <1>1, <1>13, <2>1, Retile
<1>15. freeNow \cup takenNow = rest \cup {z} /\ freeNow \cap takenNow = {}
  <2> HIDE DEF D, z
  <2> QED
    BY <1>1, <1>2, <1>4, <1>14
<1>16. ASSUME NEW v \in free PROVE ~Paired(z, v) /\ ~Paired(v, z)
  <2>1. SUFFICES ASSUME v.div = s,
                        NEW r, OnGrid(r, s + 1), z.at \in Place(r, s + 1), v.at \in Place(r, s + 1)
                 PROVE  FALSE
    BY <1>11 DEF Paired
  <2>2. s + 1 \in Nat /\ x.div <= s + 1
    BY <1>2
  <2>3. PICK t, u : t = Around(x.at, s + 1) /\ u = Around(x.at, s)
    OBVIOUS
  <2>4. OnGrid(t, s + 1) /\ x.at \in Place(t, s + 1)
    BY <1>2, <2>2, <2>3, AroundIs
  <2>5. OnGrid(u, s) /\ x.at \in Place(u, s) /\ u \in Nat
    BY <1>2, <2>3, AroundIs
  <2>6. Place(u, s) \subseteq Place(t, s + 1)
    <3>1. s <= s + 1
      OBVIOUS
    <3> QED
      BY <2>2, <2>4, <2>5, <3>1, Nested
  <2>7. u \in Place(t, s + 1) /\ u \in Place(r, s + 1)
    <3>1. u \in Place(u, s)
      BY <2>5, PlaceSize
    <3> QED
      BY <1>11, <2>1, <2>3, <2>6, <3>1
  <2>8. r = t
    BY <2>1, <2>2, <2>4, <2>7, SamePlace
  <2> QED
    BY <2>1, <2>3, <2>8
<1>17. NoPairs(freeNow)
  <2> SUFFICES ASSUME NEW u \in freeNow, NEW v \in freeNow, Paired(u, v) PROVE FALSE
    BY DEF NoPairs
  <2>1. u # v
    BY DEF Paired
  <2> HIDE DEF z, D
  <2>2. u \in free \/ u = z
    OBVIOUS
  <2>3. v \in free \/ v = z
    OBVIOUS
  <2> QED
    BY <1>1, <1>16, <2>1, <2>2, <2>3 DEF NoPairs
<1>18. rest \cup {z} \subseteq Block
  BY <1>1, <1>12
<1> HIDE DEF freeNow, takenNow, rest, z, all
<1>19. Stock(freeNow, takenNow)
  BY <1>1, <1>14, <1>15, <1>17, <1>18 DEF Stock
<1> QED
  BY <1>19 DEF freeNow, takenNow, z

\* A place that no held block has a byte of is in a free block of its division or of one above:
\* the least of the free blocks inside it would have its other half free too.
LEMMA StockHasRoom ==
    ASSUME NEW free, NEW taken, Stock(free, taken), NEW d \in Nat, NEW c, OnGrid(c, d),
           Place(c, d) \subseteq Whole, Place(c, d) \cap Cover(taken) = {}
    PROVE  \E x \in free : d <= x.div
<1> SUFFICES ASSUME \A x \in free : ~(d <= x.div) PROVE FALSE
  OBVIOUS
<1>1. /\ free \cup taken \subseteq Block /\ Apart(free \cup taken)
      /\ Cover(free \cup taken) = Whole /\ NoPairs(free)
  BY DEF Stock
<1>2. ASSUME NEW b \in Place(c, d)
      PROVE  \E x \in free : b \in Span(x) /\ x.at \in Place(c, d) /\ Span(x) \subseteq Place(c, d)
  <2>1. b \in Cover(free \cup taken) /\ b \notin Cover(taken)
    BY <1>1, <1>2
  <2>2. PICK x \in free : b \in Span(x)
    BY <2>1 DEF Cover
  <2>3. /\ x.div \in Nat /\ OnGrid(x.at, x.div) /\ x.at \in Span(x)
        /\ Span(x) = Place(x.at, x.div)
    BY <1>1, BlockIs DEF Span
  <2>4. x.div <= d
    BY <2>3
  <2>5. Span(x) \subseteq Place(c, d)
    BY <2>2, <2>3, <2>4, Nested
  <2> QED
    BY <2>2, <2>3, <2>5
<1> DEFINE S == {e \in Nat : \E x \in free : x.div = e /\ x.at \in Place(c, d)}
<1>3. S # {}
  <2>1. c \in Nat
    BY GridType
  <2>2. c \in Place(c, d)
    BY <2>1, PlaceSize
  <2>3. PICK x \in free : x.at \in Place(c, d)
    BY <1>2, <2>2
  <2>4. x.div \in Nat
    BY <1>1, BlockIs
  <2> QED
    BY <2>3, <2>4
<1>4. PICK e \in S : \A f \in S : e <= f
  <2>1. S \in SUBSET Nat
    OBVIOUS
  <2> HIDE DEF S
  <2> QED
    BY <1>3, <2>1, LeastNatural
<1>5. PICK x \in free : x.div = e /\ x.at \in Place(c, d)
  OBVIOUS
<1>6. /\ e \in Nat /\ e + 1 \in Nat /\ e + 1 <= d /\ x.at \in Nat /\ OnGrid(x.at, e)
      /\ x.at \in Span(x) /\ Span(x) = Place(x.at, e)
  BY <1>1, <1>5, BlockIs DEF Span
<1>7. PICK r : OnGrid(r, e + 1) /\ x.at \in Place(r, e + 1)
  <2>1. x.at >= Start
    BY <1>6, GridType
  <2> QED
    BY <1>6, <2>1, RoundDown
<1>8. Place(r, e + 1) \subseteq Place(c, d)
  BY <1>5, <1>6, <1>7, Nested
<1>9. PICK w : OnGrid(w, e) /\ w # x.at /\ w \in Place(r, e + 1)
  <2>1. /\ OnGrid(r, e) /\ OnGrid(r + 2^e, e) /\ r + 2^e # r
        /\ r \in Place(r, e + 1) /\ r + 2^e \in Place(r, e + 1)
    BY <1>6, <1>7, Halves
  <2>2. PICK h : h = r + 2^e
    OBVIOUS
  <2> QED
    BY <2>1, <2>2
<1>10. PICK z \in free : w \in Span(z) /\ z.at \in Place(c, d)
  BY <1>2, <1>8, <1>9
<1>11. /\ z.div \in Nat /\ OnGrid(z.at, z.div) /\ z.at \in Span(z) /\ Span(z) = Place(z.at, z.div)
  BY <1>1, <1>10, BlockIs DEF Span
<1>12. e <= z.div
  BY <1>4, <1>10, <1>11
<1>13. w \in Place(w, e)
  <2>1. w \in Nat
    BY <1>6, <1>9, GridType
  <2> QED
    BY <1>6, <2>1, PlaceSize
<1>14. CASE z.div = e
  <2>1. z.at = w
    BY <1>6, <1>9, <1>10, <1>11, <1>13, <1>14, SamePlace
  <2>2. x # z
    BY <1>9, <2>1
  <2>3. Paired(x, z)
    BY <1>5, <1>7, <1>9, <1>14, <2>1, <2>2 DEF Paired
  <2> QED
    BY <1>1, <2>3 DEF NoPairs
<1>15. CASE z.div # e
  <2>1. e + 1 <= z.div
    BY <1>6, <1>11, <1>12, <1>15
  <2>2. Place(r, e + 1) \subseteq Span(z)
    BY <1>6, <1>7, <1>9, <1>10, <1>11, <2>1, Nested
  <2>3. x # z /\ x.at \in Span(x) /\ x.at \in Span(z)
    BY <1>5, <1>6, <1>7, <1>15, <2>2
  <2> QED
    BY <1>1, <2>3 DEF Apart
<1> QED
  BY <1>14, <1>15

\* While a block is held, no free one has the largest division: it would be the whole arena.
LEMMA LargestInUse ==
    ASSUME NEW free, NEW taken, Stock(free, taken), NEW x \in taken, NEW y \in free
    PROVE  y.div # LargestDivision
<1> SUFFICES ASSUME y.div = LargestDivision PROVE FALSE
  OBVIOUS
<1>1. x \in Block /\ y \in Block /\ x # y /\ Span(x) \cap Span(y) = {}
  BY DEF Stock, Apart
<1>2. /\ x.at \in Span(x) /\ Span(x) \subseteq Whole
      /\ y.at \in Span(y) /\ Span(y) \subseteq Whole /\ OnGrid(y.at, LargestDivision)
      /\ Span(y) = Place(y.at, LargestDivision)
  BY <1>1, BlockIs DEF Span
<1>3. /\ Whole = Place(Start, LargestDivision) /\ OnGrid(Start, LargestDivision)
      /\ LargestDivision \in Nat
  BY ArenaIsPlace
<1>4. y.at = Start
  BY <1>2, <1>3, SamePlace
<1> QED
  BY <1>1, <1>2, <1>3, <1>4

-----------------------------------------------------------------------------
\* The lists of the code.
Members(s) == {s[i] : i \in DOMAIN s}
NoRepeats(s) == \A i, j \in DOMAIN s : s[i] = s[j] => i = j

\* Front, \o and RemoveAt on lists that repeat nothing.
LEMMA WithoutLast ==
    ASSUME NEW T, NEW s \in Seq(T), NoRepeats(s), s # <<>>
    PROVE  /\ Front(s) \in Seq(T) /\ NoRepeats(Front(s))
           /\ Last(s) \in Members(s) /\ Members(Front(s)) = Members(s) \ {Last(s)}
<1>1. /\ Len(s) \in Nat \ {0} /\ DOMAIN s = 1 .. Len(s)
  BY EmptySeq, LenProperties
<1>2. PICK n \in Nat : Len(s) = n + 1
  <2>1. Len(s) - 1 \in Nat /\ Len(s) = (Len(s) - 1) + 1
    BY <1>1
  <2> QED
    BY <2>1
<1>3. /\ Front(s) = SubSeq(s, 1, n) /\ Last(s) = s[n + 1]
  BY <1>2 DEF Front, Last
<1>4. /\ Front(s) \in Seq(T) /\ Len(Front(s)) = n
      /\ \A i \in 1 .. n : Front(s)[i] = s[i]
  <2>1. 1 \in 1 .. Len(s) + 1 /\ n \in 1 - 1 .. Len(s) /\ n - 1 + 1 = n
    BY <1>2
  <2>2. /\ SubSeq(s, 1, n) \in Seq(T)
        /\ Len(SubSeq(s, 1, n)) = n - 1 + 1
        /\ \A i \in 1 .. n - 1 + 1 : SubSeq(s, 1, n)[i] = s[1 + i - 1]
    BY <2>1, SubSeqProperties
  <2>3. \A i \in 1 .. n : 1 + i - 1 = i
    OBVIOUS
  <2> QED
    BY <1>3, <2>1, <2>2, <2>3
<1>5. DOMAIN Front(s) = 1 .. n
  BY <1>4, LenProperties
<1>6. 1 .. n + 1 = (1 .. n) \cup {n + 1} /\ n + 1 \notin 1 .. n
  OBVIOUS
<1>7. PICK f, l : f = Front(s) /\ l = s[n + 1]
  OBVIOUS
<1>8. NoRepeats(f)
  BY <1>1, <1>2, <1>4, <1>5, <1>6, <1>7 DEF NoRepeats
<1>9. l \in Members(s) /\ Members(f) = Members(s) \ {l}
  BY <1>1, <1>2, <1>4, <1>5, <1>6, <1>7 DEF Members, NoRepeats
<1> QED
  BY <1>3, <1>4, <1>7, <1>8, <1>9

LEMMA WithOneBefore ==
    ASSUME NEW T, NEW s \in Seq(T), NoRepeats(s), NEW e \in T, e \notin Members(s)
    PROVE  /\ <<e>> \o s \in Seq(T) /\ NoRepeats(<<e>> \o s)
           /\ Members(<<e>> \o s) = Members(s) \cup {e}
<1>1. PICK n \in Nat : Len(s) = n /\ DOMAIN s = 1 .. n
  BY LenProperties
<1>2. <<e>> \in Seq(T) /\ Len(<<e>>) = 1 /\ <<e>>[1] = e
  OBVIOUS
<1>3. PICK t : t = <<e>> \o s
  OBVIOUS
<1>4. /\ t \in Seq(T) /\ Len(t) = 1 + n
      /\ \A i \in 1 .. 1 + n : t[i] = IF i <= 1 THEN <<e>>[i] ELSE s[i - 1]
  BY <1>1, <1>2, <1>3, ConcatProperties
<1>5. DOMAIN t = 1 .. 1 + n
  BY <1>4, LenProperties
<1>6. t[1] = e /\ \A i \in 1 .. n : i + 1 \in 1 .. 1 + n /\ i + 1 # 1 /\ t[i + 1] = s[i]
  <2>1. t[1] = e
    BY <1>2, <1>4
  <2>2. \A i \in 1 .. n : i + 1 \in 1 .. 1 + n /\ ~(i + 1 <= 1) /\ (i + 1) - 1 = i
    OBVIOUS
  <2>3. \A i \in 1 .. n : t[i + 1] = s[(i + 1) - 1]
    BY <1>4, <2>2
  <2> QED
    BY <2>1, <2>2, <2>3
<1>7. \A j \in 1 .. 1 + n : j = 1 \/ \E i \in 1 .. n : j = i + 1
  <2> TAKE j \in 1 .. 1 + n
  <2>1. j # 1 => j - 1 \in 1 .. n /\ j = (j - 1) + 1
    OBVIOUS
  <2> QED
    BY <2>1
<1>8. NoRepeats(t)
  <2> SUFFICES ASSUME NEW i \in 1 .. 1 + n, NEW j \in 1 .. 1 + n, t[i] = t[j] PROVE i = j
    BY <1>5 DEF NoRepeats
  <2>1. \A k \in 1 .. n : s[k] # e
    BY <1>1 DEF Members
  <2>2. CASE i = 1 /\ j = 1
    BY <2>2
  <2>3. ASSUME i = 1, NEW k \in 1 .. n, j = k + 1 PROVE FALSE
    BY <1>6, <2>1, <2>3
  <2>4. ASSUME j = 1, NEW k \in 1 .. n, i = k + 1 PROVE FALSE
    BY <1>6, <2>1, <2>4
  <2>5. ASSUME NEW k \in 1 .. n, i = k + 1, NEW l \in 1 .. n, j = l + 1 PROVE i = j
    <3>1. s[k] = s[l]
      BY <1>6, <2>5
    <3>2. k = l
      BY <1>1, <3>1 DEF NoRepeats
    <3> QED
      BY <2>5, <3>2
  <2> QED
    BY <1>7, <2>2, <2>3, <2>4, <2>5
<1>9. Members(t) = Members(s) \cup {e}
  <2>1. ASSUME NEW y \in Members(t) PROVE y \in Members(s) \cup {e}
    <3>1. PICK j \in 1 .. 1 + n : y = t[j]
      BY <1>5 DEF Members
    <3> QED
      BY <1>1, <1>6, <1>7, <3>1 DEF Members
  <2>2. e \in Members(t)
    <3>1. 1 \in 1 .. 1 + n
      OBVIOUS
    <3> QED
      BY <1>5, <1>6, <3>1 DEF Members
  <2>3. ASSUME NEW y \in Members(s) PROVE y \in Members(t)
    <3>1. PICK i \in 1 .. n : y = s[i]
      BY <1>1 DEF Members
    <3> QED
      BY <1>5, <1>6, <3>1 DEF Members
  <2> QED
    BY <2>1, <2>2, <2>3
<1> QED
  BY <1>3, <1>4, <1>8, <1>9

LEMMA WithoutOne ==
    ASSUME NEW T, NEW s \in Seq(T), NoRepeats(s), NEW k \in DOMAIN s
    PROVE  /\ RemoveAt(s, k) \in Seq(T) /\ NoRepeats(RemoveAt(s, k))
           /\ s[k] \in Members(s) /\ Members(RemoveAt(s, k)) = Members(s) \ {s[k]}
<1>1. Len(s) \in Nat /\ DOMAIN s = 1 .. Len(s) /\ \A i \in 1 .. Len(s) : s[i] \in T
  BY LenProperties, ElementOfSeq
<1>2. PICK n \in Nat : Len(s) = n + 1
  <2>1. Len(s) - 1 \in Nat /\ Len(s) = (Len(s) - 1) + 1
    BY <1>1
  <2> QED
    BY <2>1
<1>3. k \in 1 .. n + 1
  BY <1>1, <1>2
<1>4. PICK a, b : a = SubSeq(s, 1, k - 1) /\ b = SubSeq(s, k + 1, n + 1)
  OBVIOUS
<1>5. /\ a \in Seq(T) /\ Len(a) = k - 1
      /\ \A i \in 1 .. k - 1 : a[i] = s[i]
  <2>1. \A i \in 1 .. k - 1 : s[i] \in T
    BY <1>1, <1>2, <1>3
  <2>2. /\ SubSeq(s, 1, k - 1) \in Seq(T)
        /\ Len(SubSeq(s, 1, k - 1)) = (IF 1 <= k - 1 THEN ((k - 1) - 1) + 1 ELSE 0)
        /\ \A i \in 1 .. ((k - 1) - 1) + 1 : SubSeq(s, 1, k - 1)[i] = s[(1 + i) - 1]
    <3>1. 1 \in Int /\ k - 1 \in Int
      BY <1>3
    <3> QED
      BY <2>1, <3>1, SubSeqProperties
  <2>3. /\ ((k - 1) - 1) + 1 = k - 1 /\ \A i \in 1 .. k - 1 : (1 + i) - 1 = i
        /\ 1 <= k - 1 \/ k - 1 = 0
    BY <1>3
  <2>4. a \in Seq(T) /\ Len(a) = k - 1
    BY <1>4, <2>2, <2>3
  <2>5. \A i \in 1 .. k - 1 : a[i] = s[i]
    BY <1>4, <2>2, <2>3
  <2> QED
    BY <2>4, <2>5
<1>6. /\ b \in Seq(T) /\ Len(b) = (n + 1) - k
      /\ \A i \in 1 .. (n + 1) - k : b[i] = s[k + i]
  <2>1. \A i \in k + 1 .. n + 1 : s[i] \in T
    BY <1>1, <1>2, <1>3
  <2>2. /\ SubSeq(s, k + 1, n + 1) \in Seq(T)
        /\ Len(SubSeq(s, k + 1, n + 1)) = (IF k + 1 <= n + 1 THEN ((n + 1) - (k + 1)) + 1 ELSE 0)
        /\ \A i \in 1 .. ((n + 1) - (k + 1)) + 1 :
             SubSeq(s, k + 1, n + 1)[i] = s[((k + 1) + i) - 1]
    <3>1. k + 1 \in Int /\ n + 1 \in Int
      BY <1>3
    <3> QED
      BY <2>1, <3>1, SubSeqProperties
  <2>3. /\ ((n + 1) - (k + 1)) + 1 = (n + 1) - k
        /\ \A i \in 1 .. (n + 1) - k : ((k + 1) + i) - 1 = k + i
        /\ k + 1 <= n + 1 \/ (n + 1) - k = 0
    BY <1>3
  <2> QED
    BY <1>4, <2>2, <2>3
<1>7. PICK t : t = RemoveAt(s, k)
  OBVIOUS
<1>8. t = a \o b
  BY <1>2, <1>4, <1>7 DEF RemoveAt
<1>9. /\ t \in Seq(T) /\ Len(t) = n
      /\ \A i \in 1 .. n : t[i] = IF i <= k - 1 THEN a[i] ELSE b[i - (k - 1)]
  <2>1. /\ t \in Seq(T) /\ Len(t) = Len(a) + Len(b)
        /\ \A i \in 1 .. Len(a) + Len(b) : t[i] = IF i <= Len(a) THEN a[i] ELSE b[i - Len(a)]
    BY <1>5, <1>6, <1>8, ConcatProperties
  <2>2. Len(a) + Len(b) = n
    BY <1>3, <1>5, <1>6
  <2> QED
    BY <1>5, <2>1, <2>2
<1>10. DOMAIN t = 1 .. n
  BY <1>9, LenProperties
<1> DEFINE g(i) == IF i < k THEN i ELSE i + 1
<1>11. \A i \in 1 .. n : g(i) \in 1 .. n + 1 /\ g(i) # k /\ t[i] = s[g(i)]
  <2> TAKE i \in 1 .. n
  <2>1. CASE i < k
    <3>1. i \in 1 .. k - 1 /\ i <= k - 1 /\ g(i) = i /\ i \in 1 .. n + 1 /\ i # k
      BY <1>3, <2>1
    <3> QED
      BY <1>5, <1>9, <3>1
  <2>2. CASE ~(i < k)
    <3>1. PICK j : j = i - (k - 1)
      OBVIOUS
    <3>2. /\ j \in 1 .. (n + 1) - k /\ k + j = i + 1 /\ ~(i <= k - 1)
          /\ g(i) = i + 1 /\ i + 1 \in 1 .. n + 1 /\ i + 1 # k
      BY <1>3, <2>2, <3>1
    <3> QED
      BY <1>6, <1>9, <3>1, <3>2
  <2> QED
    BY <2>1, <2>2
<1>12. \A i, j \in 1 .. n : g(i) = g(j) => i = j
  BY <1>3
<1>13. \A j \in 1 .. n + 1 : j # k => \E i \in 1 .. n : g(i) = j
  <2> TAKE j \in 1 .. n + 1
  <2>1. j < k => j \in 1 .. n /\ g(j) = j
    BY <1>3
  <2>2. ~(j < k) /\ j # k => j - 1 \in 1 .. n /\ g(j - 1) = j
    BY <1>3
  <2> QED
    BY <2>1, <2>2
<1> HIDE DEF g
<1>14. NoRepeats(t)
  <2> SUFFICES ASSUME NEW i \in 1 .. n, NEW j \in 1 .. n, t[i] = t[j] PROVE i = j
    BY <1>10 DEF NoRepeats
  <2>1. s[g(i)] = s[g(j)] /\ g(i) \in DOMAIN s /\ g(j) \in DOMAIN s
    BY <1>1, <1>2, <1>11
  <2>2. g(i) = g(j)
    BY <2>1 DEF NoRepeats
  <2> QED
    BY <1>12, <2>2
<1>15. Members(t) = Members(s) \ {s[k]}
  <2>1. ASSUME NEW y \in Members(t) PROVE y \in Members(s) /\ y # s[k]
    <3>1. PICK i \in 1 .. n : y = t[i]
      BY <1>10 DEF Members
    <3>2. g(i) \in DOMAIN s /\ y = s[g(i)] /\ g(i) # k
      BY <1>1, <1>2, <1>11, <3>1
    <3> QED
      BY <3>2 DEF Members, NoRepeats
  <2>2. ASSUME NEW y \in Members(s), y # s[k] PROVE y \in Members(t)
    <3>1. PICK j \in 1 .. n + 1 : y = s[j] /\ j # k
      BY <1>1, <1>2, <2>2 DEF Members
    <3>2. PICK i \in 1 .. n : g(i) = j
      BY <1>13, <3>1
    <3>3. y = t[i]
      BY <1>11, <3>1, <3>2
    <3> QED
      BY <1>10, <3>3 DEF Members
  <2> QED
    BY <2>1, <2>2
<1>16. s[k] \in Members(s)
  BY DEF Members
<1> QED
  BY <1>7, <1>9, <1>14, <1>15, <1>16

-----------------------------------------------------------------------------
(* The invariant of the buddy system.                                      *)

Lists(occ) == /\ occ \in [Division -> Seq(Nat)]
              /\ \A d \in Division : NoRepeats(occ[d])

FreeIn(occ) == {x \in [at : Nat, div : Division] : x.at \in Members(occ[x.div])}

\* The block of a caller, with the byte of the header.
HeldAs(b) == [at |-> b.at - 1, div |-> b.header]

Holding(blocks) == {HeldAs(b) : b \in blocks}

\* A caller's block is the one that its length needs.
Fitting(b) == /\ b.len \in Nat \ {0} /\ b.header = DivisionFor(b.len)
              /\ b.header \in Division /\ b.len < 2^b.header

BuddyState(blocks, occ, mem) ==
    /\ Lists(occ)
    /\ Stock(FreeIn(occ), Holding(blocks))
    /\ \A b, c \in blocks : HeldAs(b) = HeldAs(c) => b = c
    /\ \A b \in blocks : Fitting(b) /\ b.at \in Int
    /\ mem = Cardinality(Cover(Holding(blocks)))

BuddyInv == subject = "Buddy" => BuddyState(used, occupied, memUsed)

\* The division of a request holds it and its header.
LEMMA DivisionIs ==
    ASSUME NEW n \in Nat
    PROVE  DivisionFor(n) \in Nat /\ n < 2^DivisionFor(n)
<1> DEFINE S == {n + 1, MIN_SIZE}
<1>1. n + 1 \in Nat /\ MIN_SIZE \in Nat
  BY BuddyAssumption
<1>2. PICK m \in Nat : n + 1 <= m /\ MIN_SIZE <= m
  <2>1. n + 1 <= MIN_SIZE \/ MIN_SIZE <= n + 1
    BY <1>1
  <2> QED
    BY <1>1, <2>1
<1>3. Max(S) \in S /\ \A y \in S : Max(S) >= y
  <2>1. S \in SUBSET Nat /\ S # {} /\ \A y \in S : y <= m
    BY <1>1, <1>2
  <2> HIDE DEF S
  <2> QED
    BY <2>1, MaxProperties
<1>4. Max(S) \in Nat /\ Max(S) >= n + 1
  BY <1>1, <1>3
<1>5. PICK k \in Nat : k = Max(S)
  BY <1>4
<1>6. CeilLog(k) \in 0 .. k /\ 2^CeilLog(k) >= k
  BY CeilLogIs
<1>7. CeilLog(k) \in Nat
  BY <1>6
<1>8. 2^CeilLog(k) \in Int
  BY <1>7, PowerInt
<1>9. DivisionFor(n) = CeilLog(k)
  BY <1>5 DEF DivisionFor
<1> QED
  BY <1>4, <1>5, <1>6, <1>7, <1>8, <1>9

\* What a list holds is a free block.
LEMMA FreeMember ==
    ASSUME NEW occ, Lists(occ), NEW d \in Division, NEW a, a \in Members(occ[d])
    PROVE  [at |-> a, div |-> d] \in FreeIn(occ) /\ a \in Nat
<1>1. occ[d] \in Seq(Nat)
  BY DEF Lists
<1>2. PICK i \in DOMAIN occ[d] : a = occ[d][i]
  BY DEF Members
<1>3. a \in Nat
  BY <1>1, <1>2, LenProperties, ElementOfSeq
<1> QED
  BY <1>3 DEF FreeIn

\* The bytes of some blocks, counted.
LEMMA CoverCounts ==
    ASSUME NEW A, A \subseteq Block
    PROVE  IsFiniteSet(Cover(A)) /\ Cardinality(Cover(A)) \in Nat /\ Cover(A) \subseteq Whole
<1>1. Cover(A) \subseteq Whole
  <2>1. \A x \in A : Span(x) \subseteq Whole
    BY BlockIs
  <2> QED
    BY <2>1 DEF Cover
<1>2. IsFiniteSet(Whole)
  BY ArenaIsPlace, PlaceSize
<1>3. IsFiniteSet(Cover(A))
  BY <1>1, <1>2, FS_Subset
<1> QED
  BY <1>1, <1>3, FS_CardinalityType

\* A block more is 2^div bytes more.
LEMMA OneMoreCounted ==
    ASSUME NEW A, A \subseteq Block, NEW x \in Block, \A y \in A : Span(y) \cap Span(x) = {}
    PROVE  Cardinality(Cover(A \cup {x})) = Cardinality(Cover(A)) + 2^x.div
<1>1. IsFiniteSet(Cover(A)) /\ Cardinality(Cover(A)) \in Nat
  BY CoverCounts
<1>2. x.at \in Nat /\ x.div \in Nat
  BY BlockIs
<1>3. IsFiniteSet(Span(x)) /\ Cardinality(Span(x)) = 2^x.div
  BY <1>2, PlaceSize DEF Span
<1>4. Cover(A \cup {x}) = Cover(A) \cup Span(x) /\ Cover(A) \cap Span(x) = {}
  BY DEF Cover
<1>5. PICK u, v : u = Cover(A) /\ v = Span(x)
  OBVIOUS
<1>6. Cardinality(u \cup v) = Cardinality(u) + Cardinality(v) - Cardinality(u \cap v)
  BY <1>1, <1>3, <1>5, FS_Union
<1>7. Cardinality(u \cap v) = 0
  BY <1>4, <1>5, FS_EmptySet
<1>8. 2^x.div \in Int
  BY <1>2, PowerInt
<1>9. PICK i, j \in Int : i = Cardinality(u) /\ j = Cardinality(v)
  BY <1>1, <1>3, <1>5, <1>8
<1>10. Cardinality(u \cup v) = i + j
  BY <1>6, <1>7, <1>9
<1> QED
  BY <1>3, <1>4, <1>5, <1>9, <1>10

\* At first the whole arena is one free block.
LEMMA BuddyStart == ASSUME BuddyInit, NoneHeld PROVE BuddyState(used, occupied, memUsed)
<1> DEFINE top == LargestDivision
           x == [at |-> Start, div |-> top]
<1>1. /\ top \in Nat /\ top \in Division /\ Start \in Nat
      /\ Whole = Place(Start, top) /\ OnGrid(Start, top)
  BY ArenaIsPlace
<1>2. /\ occupied = [d \in Division |-> IF d = top THEN <<Start>> ELSE <<>>] /\ memUsed = 0
      /\ used = {}
  BY DEF BuddyInit, NoneHeld
<1>3. Lists(occupied)
  <2>1. \A d \in Division : occupied[d] \in Seq(Nat) /\ NoRepeats(occupied[d])
    <3> TAKE d \in Division
    <3>1. <<Start>> \in Seq(Nat) /\ DOMAIN <<Start>> = {1} /\ <<>> \in Seq(Nat)
      BY <1>1
    <3>2. DOMAIN <<>> = {}
      OBVIOUS
    <3>3. occupied[d] = <<Start>> \/ occupied[d] = <<>>
      BY <1>2
    <3>4. NoRepeats(<<Start>>) /\ NoRepeats(<<>>)
      BY <3>1, <3>2 DEF NoRepeats
    <3> QED
      BY <3>1, <3>3, <3>4
  <2>2. occupied = [d \in Division |-> occupied[d]]
    BY <1>2
  <2> QED
    BY <2>1, <2>2 DEF Lists
<1>4. FreeIn(occupied) = {x}
  <2>1. Members(<<Start>>) = {Start} /\ Members(<<>>) = {}
    BY DEF Members
  <2>2. \A d \in Division : Members(occupied[d]) = IF d = top THEN {Start} ELSE {}
    BY <1>2, <2>1
  <2>3. x \in FreeIn(occupied)
    BY <1>1, <2>2 DEF FreeIn
  <2>4. ASSUME NEW y \in FreeIn(occupied) PROVE y = x
    <3>1. /\ y \in [at : Nat, div : Division] /\ y.at \in Members(occupied[y.div])
          /\ y.div \in Division
      BY DEF FreeIn
    <3>2. y.div = top /\ y.at = Start
      BY <2>2, <3>1
    <3> QED
      BY <3>1, <3>2
  <2> QED
    BY <2>3, <2>4
<1>5. Holding(used) = {}
  BY <1>2 DEF Holding
<1>6. Span(x) = Whole
  BY <1>1 DEF Span
<1>7. Stock({x}, {})
  <2>1. x \in Block
    BY <1>1, <1>6 DEF Block
  <2>2. Apart({x} \cup {}) /\ Cover({x} \cup {}) = Whole
    <3> HIDE DEF x
    <3> QED
      BY <1>6 DEF Apart, Cover
  <2>3. NoPairs({x})
    BY DEF NoPairs, Paired
  <2> HIDE DEF x
  <2> QED
    BY <2>1, <2>2, <2>3 DEF Stock
<1>8. Cardinality(Cover({})) = 0
  <2>1. Cover({}) = {}
    BY DEF Cover
  <2> QED
    BY <2>1, FS_EmptySet
<1>9. /\ Stock(FreeIn(occupied), Holding(used)) /\ memUsed = Cardinality(Cover(Holding(used)))
      /\ \A b \in used : FALSE
  BY <1>2, <1>4, <1>5, <1>7, <1>8
<1> QED
  BY <1>3, <1>9 DEF BuddyState

\* Of the divisions from d on, e is the first with a free block.
FirstWith(d, e) == /\ e \in Division /\ d <= e /\ occupied[e] # <<>>
                   /\ \A f \in d .. e - 1 : occupied[f] = <<>>

\* The lists after memalloc has taken block from division e and halved it down to d.
Given(d, e, block, occ) ==
    occ = [f \in Division |->
             CASE f = e -> Front(occupied[f])
               [] f \in d .. e - 1 -> <<block + 2^e - 2^(f + 1)>> \o occupied[f]
               [] OTHER -> occupied[f]]

\* What memalloc does to the lists: x leaves, its pieces come.
LEMMA ListsGive ==
    ASSUME Lists(occupied), NEW d \in Nat, NEW e, FirstWith(d, e),
           NEW block, block = Last(occupied[e]), NEW occ, Given(d, e, block, occ),
           NEW x, x = [at |-> block, div |-> e], x \in Block
    PROVE  /\ Lists(occ) /\ x \in FreeIn(occupied)
           /\ FreeIn(occ) = (FreeIn(occupied) \ {x}) \cup Pieces(x, d)
<1> DEFINE spot(f) == (block + 2^e) - 2^(f + 1)
<1> USE DEF FirstWith, Given
<1>1. e \in Nat /\ e <= LargestDivision /\ x.at = block /\ x.div = e /\ block \in Nat
  BY ArenaIsPlace, BlockIs
<1>2. \A f \in Division : f \in Nat /\ occupied[f] \in Seq(Nat) /\ NoRepeats(occupied[f])
  BY ArenaIsPlace DEF Lists
<1>3. /\ Front(occupied[e]) \in Seq(Nat) /\ NoRepeats(Front(occupied[e]))
      /\ block \in Members(occupied[e])
      /\ Members(Front(occupied[e])) = Members(occupied[e]) \ {block}
  <2>1. PICK s \in Seq(Nat) : s = occupied[e]
    BY <1>2
  <2>2. NoRepeats(s) /\ s # <<>>
    BY <1>2, <2>1
  <2> QED
    BY <2>1, <2>2, WithoutLast
<1>4. ASSUME NEW f \in d .. e - 1
      PROVE  /\ f \in Division /\ f # e /\ [at |-> spot(f), div |-> f] \in Pieces(x, d)
             /\ spot(f) \in Nat /\ occ[f] = <<spot(f)>>
  <2>1. f \in Division /\ f # e
    BY <1>1, ArenaIsPlace DEF Division
  <2>2. [at |-> spot(f), div |-> f] \in Pieces(x, d)
    BY <1>1, PieceIs
  <2>3. PICK p : p = [at |-> spot(f), div |-> f]
    OBVIOUS
  <2>4. p \in Block /\ p.at = spot(f)
    BY <2>2, <2>3 DEF Pieces
  <2>5. spot(f) \in Nat
    BY <2>4, BlockIs
  <2>6. block + 2^e - 2^(f + 1) = spot(f)
    <3>1. f + 1 \in Nat
      OBVIOUS
    <3>2. PICK u, v \in Int : u = 2^e /\ v = 2^(f + 1)
      BY <1>1, <3>1, PowerInt
    <3>3. block + u - v = (block + u) - v
      BY <1>1
    <3> QED
      BY <3>2, <3>3
  <2>7. occ[f] = <<block + 2^e - 2^(f + 1)>> \o occupied[f]
    BY <2>1
  <2>8. occupied[f] = <<>>
    OBVIOUS
  <2>9. <<spot(f)>> \o <<>> = <<spot(f)>>
    <3> HIDE DEF spot
    <3>1. <<spot(f)>> \in Seq(Nat)
      BY <2>5
    <3> QED
      BY <3>1, ConcatEmptySeq
  <2>10. occ[f] = <<spot(f)>>
    <3> HIDE DEF spot
    <3> QED
      BY <2>6, <2>7, <2>8, <2>9
  <2> QED
    BY <2>1, <2>2, <2>5, <2>10
<1>5. occ[e] = Front(occupied[e])
  OBVIOUS
<1>6. ASSUME NEW f \in Division, f # e, f \notin d .. e - 1 PROVE occ[f] = occupied[f]
  BY <1>6
<1> HIDE DEF spot
<1>7. \A a \in Nat : <<a>> \in Seq(Nat) /\ NoRepeats(<<a>>) /\ Members(<<a>>) = {a}
  <2> TAKE a \in Nat
  <2>1. <<a>> \in Seq(Nat) /\ DOMAIN <<a>> = {1} /\ <<a>>[1] = a
    OBVIOUS
  <2> QED
    BY <2>1 DEF NoRepeats, Members
<1>8. Lists(occ)
  <2>1. ASSUME NEW f \in Division PROVE occ[f] \in Seq(Nat) /\ NoRepeats(occ[f])
    <3>1. CASE f = e
      BY <1>3, <1>5, <3>1
    <3>2. CASE f \in d .. e - 1
      BY <1>4, <1>7, <3>2
    <3>3. CASE f # e /\ f \notin d .. e - 1
      BY <1>2, <1>6, <3>3
    <3> QED
      BY <3>1, <3>2, <3>3
  <2>2. occ = [f \in Division |-> occ[f]]
    OBVIOUS
  <2>3. occ \in [Division -> Seq(Nat)]
    BY <2>1, <2>2
  <2> QED
    BY <2>1, <2>3 DEF Lists
<1>9. x \in FreeIn(occupied)
  BY <1>3, FreeMember
<1>10. \A f \in d .. e - 1 : Members(occupied[f]) = {}
  <2>1. Members(<<>>) = {}
    BY DEF Members
  <2> QED
    BY <2>1
<1>11. ASSUME NEW y \in FreeIn(occ) PROVE y \in (FreeIn(occupied) \ {x}) \cup Pieces(x, d)
  <2>1. /\ y \in [at : Nat, div : Division] /\ y.div \in Division /\ y.at \in Members(occ[y.div])
        /\ y = [at |-> y.at, div |-> y.div]
    BY DEF FreeIn
  <2>2. CASE y.div = e
    <3>1. y.at \in Members(occupied[e]) /\ y.at # block
      BY <1>3, <1>5, <2>1, <2>2
    <3> QED
      BY <1>1, <2>1, <2>2, <3>1 DEF FreeIn
  <2>3. CASE y.div \in d .. e - 1
    <3>1. y.at = spot(y.div)
      <4>1. PICK f \in d .. e - 1 : f = y.div
        BY <2>3
      <4>2. spot(f) \in Nat /\ occ[f] = <<spot(f)>>
        BY <1>4
      <4>3. Members(occ[f]) = {spot(f)}
        BY <1>7, <4>2
      <4> QED
        BY <2>1, <4>1, <4>3
    <3> QED
      BY <1>4, <2>1, <2>3, <3>1
  <2>4. CASE y.div # e /\ y.div \notin d .. e - 1
    BY <1>1, <1>6, <2>1, <2>4 DEF FreeIn
  <2> QED
    BY <2>2, <2>3, <2>4
<1>12. ASSUME NEW y \in FreeIn(occupied), y # x PROVE y \in FreeIn(occ)
  <2>1. /\ y \in [at : Nat, div : Division] /\ y.div \in Division
        /\ y.at \in Members(occupied[y.div]) /\ y = [at |-> y.at, div |-> y.div]
    BY DEF FreeIn
  <2>2. CASE y.div = e
    <3>1. y.at # block
      BY <1>12, <2>1, <2>2
    <3> QED
      BY <1>3, <1>5, <2>1, <2>2, <3>1 DEF FreeIn
  <2>3. CASE y.div \in d .. e - 1
    BY <1>10, <2>1, <2>3
  <2>4. CASE y.div # e /\ y.div \notin d .. e - 1
    BY <1>6, <2>1, <2>4 DEF FreeIn
  <2> QED
    BY <2>2, <2>3, <2>4
<1>13. ASSUME NEW y \in Pieces(x, d) PROVE y \in FreeIn(occ)
  <2>1. y \in Block /\ y.div \in d .. e - 1 /\ y.at = (x.at + 2^x.div) - 2^(y.div + 1)
    BY <1>1 DEF Pieces
  <2>2. y.at = spot(y.div)
    BY <1>1, <2>1 DEF spot
  <2>3. /\ y.at \in Nat /\ y.div \in Division /\ y = [at |-> y.at, div |-> y.div]
    BY <2>1, BlockIs
  <2>4. y.at \in Members(occ[y.div])
    <3>1. PICK f \in d .. e - 1 : f = y.div
      BY <2>1
    <3>2. spot(f) \in Nat /\ occ[f] = <<spot(f)>>
      BY <1>4
    <3>3. Members(occ[f]) = {spot(f)}
      BY <1>7, <3>2
    <3> QED
      BY <2>2, <3>1, <3>3
  <2>5. y \in [at : Nat, div : Division]
    BY <2>3
  <2> QED
    BY <2>4, <2>5 DEF FreeIn
<1>14. FreeIn(occ) = (FreeIn(occupied) \ {x}) \cup Pieces(x, d)
  BY <1>11, <1>12, <1>13
<1> QED
  BY <1>8, <1>9, <1>14

\* What a caller asked for lies in its block.
LEMMA InItsBlock ==
    ASSUME NEW b, Fitting(b), b.at \in Int, HeldAs(b) \in Block
    PROVE  /\ b.at .. (b.at + b.len) - 1 \subseteq Span(HeldAs(b))
           /\ b.at \in Nat /\ b.at + b.len <= MEM_SIZE /\ b.at >= Start
           /\ Span(HeldAs(b)) = Place(b.at - 1, b.header)
           /\ b.at \in Span(HeldAs(b))
<1>1. b.len \in Nat \ {0} /\ b.header \in Nat /\ b.len < 2^b.header
  BY ArenaIsPlace DEF Fitting
<1>2. PICK p \in Nat \ {0} : p = 2^b.header
  BY <1>1, PowerPositive
<1>3. PICK a : a = b.at - 1
  OBVIOUS
<1>4. Span(HeldAs(b)) = a .. (a + p) - 1
  BY <1>2, <1>3 DEF Span, HeldAs, Place
<1>5. a \in Nat /\ Span(HeldAs(b)) \subseteq Whole
  <2>1. HeldAs(b).at \in Nat /\ Span(HeldAs(b)) \subseteq Whole
    BY BlockIs
  <2> QED
    BY <1>3, <2>1 DEF HeldAs
<1>6. b.at = a + 1 /\ b.len < p
  BY <1>1, <1>2, <1>3
<1>7. b.at .. (b.at + b.len) - 1 \subseteq a .. (a + p) - 1
  BY <1>1, <1>5, <1>6
<1>8. a + b.len \in a .. (a + p) - 1 /\ b.at \in a .. (a + p) - 1 /\ a \in a .. (a + p) - 1
  BY <1>1, <1>2, <1>5, <1>6
<1>9. a + b.len \in Whole /\ a \in Whole
  BY <1>4, <1>5, <1>8
<1>10. b.at + b.len <= MEM_SIZE /\ b.at >= Start
  <2>1. PICK q \in Nat : q = BuddySize
    BY ArenaIsPlace
  <2>2. /\ Start \in Nat /\ Start + q <= MEM_SIZE /\ MEM_SIZE \in Nat
        /\ a + b.len \in Start .. Start + q - 1 /\ a \in Start .. Start + q - 1
    BY <1>9, <2>1, ArenaIsPlace, ArenaAssumption DEF Whole
  <2> QED
    BY <1>1, <1>5, <1>6, <2>2
<1>11. b.at \in Nat
  BY <1>5, <1>6
<1>12. Span(HeldAs(b)) = Place(b.at - 1, b.header)
  BY DEF Span, HeldAs
<1>13. b.at .. (b.at + b.len) - 1 \subseteq Span(HeldAs(b)) /\ b.at \in Span(HeldAs(b))
  BY <1>4, <1>7, <1>8
<1> QED
  BY <1>10, <1>11, <1>12, <1>13

\* memalloc, as it changes lists and blocks.
LEMMA MallocIs ==
    ASSUME BuddyState(used, occupied, memUsed), NEW n \in Requests, BuddyMemalloc(n)
    PROVE  \E x \in FreeIn(occupied), d \in Nat : \E b :
             /\ d <= x.div /\ \A y \in FreeIn(occupied) : y.div \notin d .. x.div - 1
             /\ Lists(occupied')
             /\ FreeIn(occupied') = (FreeIn(occupied) \ {x}) \cup Pieces(x, d)
             /\ memUsed' = memUsed + 2^d
             /\ used' = used \cup {b} /\ HeldAs(b) = EndOf(x, d)
             /\ b.len = n /\ b.at \in Int /\ b = [at |-> b.at, len |-> n, header |-> d]
             /\ Fitting(b)
<1>1. Lists(occupied) /\ FreeIn(occupied) \subseteq Block
  BY DEF BuddyState, Stock
<1>2. n \in Nat \ {0}
  BY ArenaIsPlace, RequestsAssumption DEF BuddyMemalloc
<1>3. PICK d \in Nat : d = DivisionFor(n) /\ n < 2^d
  BY <1>2, DivisionIs
<1>4. PICK S : S = ToSplit(d)
  OBVIOUS
<1>5. LargestDivision \in Nat
  BY ArenaIsPlace
<1>6. S \in SUBSET Nat /\ S # {}
  BY <1>3, <1>4, <1>5 DEF BuddyMemalloc, ToSplit
<1>7. PICK e : e = Min(S) /\ e \in S /\ \A f \in S : e <= f
  BY <1>6, MinProperties
<1>8. /\ e \in Nat /\ d <= e /\ e <= LargestDivision /\ e \in Division
      /\ occupied[e] # <<>>
  <2>1. e \in d .. LargestDivision /\ occupied[e] # <<>>
    BY <1>4, <1>7 DEF ToSplit
  <2> QED
    BY <1>5, <2>1 DEF Division
<1>9. \A f \in d .. e - 1 : occupied[f] = <<>>
  <2> TAKE f \in d .. e - 1
  <2>1. f \in d .. LargestDivision /\ ~(e <= f)
    BY <1>5, <1>8
  <2> QED
    BY <1>4, <1>7, <2>1 DEF ToSplit
<1>10. PICK block : block = Last(occupied[e])
  OBVIOUS
<1>11. /\ Given(d, e, block, occupied') /\ memUsed' = memUsed + 2^d
       /\ used' = used \cup {[at |-> block + 2^e - 2^d + 1, len |-> n, header |-> d]}
  <2> DEFINE d1 == DivisionFor(n)
             e1 == Min(ToSplit(d1))
             block1 == Last(occupied[e1])
  <2>1. /\ Given(d1, e1, block1, occupied') /\ memUsed' = memUsed + 2^d1
        /\ used' = used \cup {[at |-> block1 + 2^e1 - 2^d1 + 1, len |-> n, header |-> d1]}
    BY Zenon DEF BuddyMemalloc, Hold, Given
  <2>2. d1 = d /\ e1 = e /\ block1 = block
    BY <1>3, <1>4, <1>7, <1>10
  <2> HIDE DEF d1, e1, block1
  <2> QED
    BY <2>1, <2>2
<1>12. PICK x : x = [at |-> block, div |-> e]
  OBVIOUS
<1>13. block \in Members(occupied[e])
  <2>1. PICK s \in Seq(Nat) : s = occupied[e]
    BY <1>1, <1>8 DEF Lists
  <2>2. NoRepeats(s) /\ s # <<>>
    BY <1>1, <1>8, <2>1 DEF Lists
  <2> QED
    BY <1>10, <2>1, <2>2, WithoutLast
<1>14. x \in FreeIn(occupied) /\ x \in Block /\ block \in Nat
  BY <1>1, <1>8, <1>12, <1>13, FreeMember
<1>15. PICK occ : occ = occupied'
  OBVIOUS
<1>16. Lists(occ) /\ FreeIn(occ) = (FreeIn(occupied) \ {x}) \cup Pieces(x, d)
  <2>1. FirstWith(d, e) /\ Given(d, e, block, occ)
    BY <1>8, <1>9, <1>11, <1>15 DEF FirstWith
  <2> QED
    BY <1>1, <1>10, <1>12, <1>14, <2>1, ListsGive
<1>17. ASSUME NEW y \in FreeIn(occupied) PROVE y.div \notin d .. x.div - 1
  <2>1. y.div \in Division /\ y.at \in Members(occupied[y.div])
    BY DEF FreeIn
  <2>2. occupied[y.div] # <<>>
    <3>1. Members(<<>>) = {}
      BY DEF Members
    <3> QED
      BY <2>1, <3>1
  <2> QED
    BY <1>9, <1>12, <2>2
<1>18. PICK b : b = [at |-> block + 2^e - 2^d + 1, len |-> n, header |-> d]
  OBVIOUS
<1>19. b.at = ((block + 2^e) - 2^d) + 1 /\ b.at \in Int
  <2>1. PICK u, v \in Int : u = 2^e /\ v = 2^d
    BY <1>8, PowerInt
  <2>2. block + u - v + 1 = ((block + u) - v) + 1
    BY <1>14
  <2>3. b.at = block + u - v + 1
    BY <1>18, <2>1
  <2> QED
    BY <1>14, <2>1, <2>2, <2>3
<1>20. HeldAs(b) = EndOf(x, d)
  <2>1. b.at - 1 = (block + 2^e) - 2^d
    <3>1. PICK u, v \in Int : u = 2^e /\ v = 2^d
      BY <1>8, PowerInt
    <3>2. b.at - 1 = (block + u) - v
      BY <1>14, <1>19, <3>1
    <3> QED
      BY <3>1, <3>2
  <2>2. b.header = d /\ x.at = block /\ x.div = e
    BY <1>12, <1>18
  <2> QED
    BY <2>1, <2>2 DEF HeldAs, EndOf
<1>21. Fitting(b) /\ b.len = n /\ b = [at |-> b.at, len |-> n, header |-> d]
  <2>1. d \in Division
    BY <1>5, <1>8 DEF Division
  <2> QED
    BY <1>2, <1>3, <1>18, <2>1 DEF Fitting
<1>22. /\ d <= x.div /\ \A y \in FreeIn(occupied) : y.div \notin d .. x.div - 1
       /\ Lists(occupied')
       /\ FreeIn(occupied') = (FreeIn(occupied) \ {x}) \cup Pieces(x, d)
       /\ memUsed' = memUsed + 2^d
       /\ used' = used \cup {b}
  BY <1>8, <1>11, <1>12, <1>15, <1>16, <1>17, <1>18
<1> QED
  BY <1>14, <1>19, <1>20, <1>21, <1>22

\* memalloc keeps the state, and the block it gives shares no byte with another.
LEMMA MallocKeepsState ==
    ASSUME BuddyState(used, occupied, memUsed), NEW n \in Requests, BuddyMemalloc(n)
    PROVE  /\ BuddyState(used', occupied', memUsed')
           /\ Blocks!Allocate(n)
<1>1n. PICK x \in FreeIn(occupied), d \in Nat : \E b :
             /\ d <= x.div /\ \A y \in FreeIn(occupied) : y.div \notin d .. x.div - 1
             /\ Lists(occupied')
             /\ FreeIn(occupied') = (FreeIn(occupied) \ {x}) \cup Pieces(x, d)
             /\ memUsed' = memUsed + 2^d
             /\ used' = used \cup {b} /\ HeldAs(b) = EndOf(x, d)
             /\ b.len = n /\ b.at \in Int /\ b = [at |-> b.at, len |-> n, header |-> d]
             /\ Fitting(b)
  BY MallocIs
<1>1. PICK b :
             /\ d <= x.div /\ \A y \in FreeIn(occupied) : y.div \notin d .. x.div - 1
             /\ Lists(occupied')
             /\ FreeIn(occupied') = (FreeIn(occupied) \ {x}) \cup Pieces(x, d)
             /\ memUsed' = memUsed + 2^d
             /\ used' = used \cup {b} /\ HeldAs(b) = EndOf(x, d)
             /\ b.len = n /\ b.at \in Int /\ b = [at |-> b.at, len |-> n, header |-> d]
             /\ Fitting(b)
  BY <1>1n
<1>2. PICK free, taken : free = FreeIn(occupied) /\ taken = Holding(used)
  OBVIOUS
<1>3. /\ Stock(free, taken) /\ memUsed = Cardinality(Cover(taken))
      /\ \A c, e \in used : HeldAs(c) = HeldAs(e) => c = e
      /\ \A c \in used : Fitting(c) /\ c.at \in Int
  BY <1>2 DEF BuddyState
<1>4. PICK z : z = EndOf(x, d)
  OBVIOUS
<1>5. /\ Stock((free \ {x}) \cup Pieces(x, d), taken \cup {z})
      /\ z.div = d /\ z \in Block /\ \A y \in taken : Span(y) \cap Span(z) = {}
  <2>1. x \in free /\ Lowest(free, x, d)
    BY <1>1, <1>2 DEF Lowest
  <2>2. /\ Stock((free \ {x}) \cup Pieces(x, d), taken \cup {EndOf(x, d)})
        /\ EndOf(x, d).div = d /\ EndOf(x, d) \in Block
        /\ \A y \in taken : Span(y) \cap Span(EndOf(x, d)) = {}
    BY <1>3, <2>1, StockGives
  <2> QED
    BY <1>4, <2>2
<1>6. Holding(used') = taken \cup {z}
  BY <1>1, <1>2, <1>4 DEF Holding
<1>7. Stock(FreeIn(occupied'), Holding(used'))
  BY <1>1, <1>2, <1>5, <1>6
<1>8. ASSUME NEW c \in used PROVE HeldAs(c) \in taken /\ HeldAs(c) \in Block /\ HeldAs(c) # z
  <2>1. HeldAs(c) \in taken
    BY <1>2 DEF Holding
  <2>2. HeldAs(c) \in Block
    BY <1>3, <2>1 DEF Stock
  <2>3. z.at \in Span(z)
    BY <1>5, BlockIs
  <2> QED
    BY <1>5, <2>1, <2>2, <2>3
<1>9. \A c, e \in used' : HeldAs(c) = HeldAs(e) => c = e
  <2> SUFFICES ASSUME NEW c \in used', NEW e \in used', HeldAs(c) = HeldAs(e) PROVE c = e
    OBVIOUS
  <2>1. c \in used \/ c = b
    BY <1>1
  <2>2. e \in used \/ e = b
    BY <1>1
  <2>3. HeldAs(b) = z
    BY <1>1, <1>4
  <2> QED
    BY <1>3, <1>8, <2>1, <2>2, <2>3
<1>10. \A c \in used' : Fitting(c) /\ c.at \in Int
  BY <1>1, <1>3
<1>11. memUsed' = Cardinality(Cover(Holding(used')))
  <2>1. taken \subseteq Block
    BY <1>3 DEF Stock
  <2>2. Cardinality(Cover(taken \cup {z})) = Cardinality(Cover(taken)) + 2^z.div
    BY <1>5, <2>1, OneMoreCounted
  <2> QED
    BY <1>1, <1>3, <1>5, <1>6, <2>2
<1>12. BuddyState(used', occupied', memUsed')
  <2>1. Lists(occupied')
    BY <1>1
  <2>2. PICK u, o, m : u = used' /\ o = occupied' /\ m = memUsed'
    OBVIOUS
  <2>3. /\ Lists(o) /\ Stock(FreeIn(o), Holding(u)) /\ m = Cardinality(Cover(Holding(u)))
        /\ \A c, e \in u : HeldAs(c) = HeldAs(e) => c = e
        /\ \A c \in u : Fitting(c) /\ c.at \in Int
    BY <1>7, <1>9, <1>10, <1>11, <2>1, <2>2
  <2>4. BuddyState(u, o, m)
    BY <2>3 DEF BuddyState
  <2> QED
    BY <2>2, <2>4
<1>13. PICK new : new = [at |-> b.at, len |-> n]
  OBVIOUS
<1>14. /\ b.at \in Nat /\ b.at + n <= MEM_SIZE
       /\ b.at .. (b.at + n) - 1 \subseteq Span(z)
  <2>1. HeldAs(b) \in Block /\ Fitting(b) /\ b.at \in Int /\ HeldAs(b) = z /\ b.len = n
    BY <1>1, <1>4, <1>5
  <2> QED
    BY <2>1, InItsBlock
<1>15. n \in Nat /\ n > 0 /\ MEM_SIZE \in Nat
  <2>1. n \in Nat \ {0}
    BY <1>1 DEF Fitting
  <2> QED
    BY <2>1, ArenaAssumption
<1>16. new.at \in 0 .. MEM_SIZE - n
  BY <1>13, <1>14, <1>15
<1>17. \A other \in HeldBlocks : Blocks!Bytes(new) \cap Blocks!Bytes(other) = {}
  <2> TAKE other \in HeldBlocks
  <2>1. PICK c \in used : other = [at |-> c.at, len |-> c.len]
    BY DEF HeldBlocks
  <2>2. HeldAs(c) \in Block /\ HeldAs(c) \in taken /\ Fitting(c) /\ c.at \in Int
    BY <1>3, <1>8
  <2>3. c.at .. (c.at + c.len) - 1 \subseteq Span(HeldAs(c)) /\ c.len \in Nat
    BY <2>2, InItsBlock DEF Fitting
  <2>4. Span(HeldAs(c)) \cap Span(z) = {}
    BY <1>5, <2>2
  <2>5. /\ Blocks!Bytes(new) = b.at .. (b.at + n) - 1
        /\ Blocks!Bytes(other) = c.at .. (c.at + c.len) - 1
    BY <1>13, <1>14, <1>15, <2>1, <2>2, <2>3 DEF Blocks!Bytes
  <2> QED
    BY <1>14, <2>3, <2>4, <2>5
<1>18. HeldBlocks' = HeldBlocks \cup {new}
  BY <1>1, <1>13 DEF HeldBlocks
<1>19. Blocks!Allocate(n)
  BY <1>13, <1>15, <1>16, <1>17, <1>18 DEF Blocks!Allocate, HeldBlocks
<1> QED
  BY <1>12, <1>19

-----------------------------------------------------------------------------
\* memfree.

LEMMA PairIs ==
    ASSUME NEW x \in Block, NEW e \in Nat, x.div <= e
    PROVE  InPair(x.at, e) = {i \in DOMAIN occupied[e] :
                                occupied[e][i] \in Place(Around(x.at, e + 1), e + 1)}
<1>1. e + 1 \in Nat /\ x.div <= e + 1 /\ x.div \in Nat
  BY BlockIs
<1>2. PICK p \in Nat : p = Around(x.at, e + 1) /\ p = PairStart(x.at, e)
  BY <1>1, AroundIs DEF PairStart, Around
<1>3. PICK q \in Nat : q = 2^(e + 1)
  BY <1>1, PowerPositive
<1>4. p + q - 1 = (p + q) - 1
  OBVIOUS
<1>5. Place(Around(x.at, e + 1), e + 1) = p .. p + q - 1
  BY <1>2, <1>3, <1>4 DEF Place
<1> QED
  BY <1>2, <1>3, <1>5 DEF InPair

\* No free block lies in the pair.
LEMMA PairEmpty ==
    ASSUME Lists(occupied), NEW x \in Block, NEW e \in Division, x.div <= e,
           NEW a, a = x.at
    PROVE  InPair(a, e) = {} <=>
             \A y \in FreeIn(occupied) : y.div = e => y.at \notin Place(Around(a, e + 1), e + 1)
<1> DEFINE pair == Place(Around(a, e + 1), e + 1)
<1>1. InPair(a, e) = {i \in DOMAIN occupied[e] : occupied[e][i] \in pair}
  BY PairIs, ArenaIsPlace
<1> HIDE DEF pair
<1>2. ASSUME InPair(a, e) = {}, NEW y \in FreeIn(occupied), y.div = e PROVE y.at \notin pair
  <2>1. PICK i \in DOMAIN occupied[e] : y.at = occupied[e][i]
    BY <1>2 DEF FreeIn, Members
  <2> QED
    BY <1>1, <1>2, <2>1
<1>3. ASSUME NEW i \in InPair(a, e)
      PROVE  \E y \in FreeIn(occupied) : y.div = e /\ y.at \in pair
  <2>1. i \in DOMAIN occupied[e] /\ occupied[e][i] \in pair
    BY <1>1
  <2>2. occupied[e][i] \in Members(occupied[e])
    BY <2>1 DEF Members
  <2>3. PICK y : y = [at |-> occupied[e][i], div |-> e]
    OBVIOUS
  <2>4. y \in FreeIn(occupied)
    BY <2>2, <2>3, FreeMember
  <2> QED
    BY <2>1, <2>3, <2>4
<1> QED
  BY <1>2, <1>3 DEF pair

\* The i-th block of division e is the first that lies in the pair of x.
Found(x, e, i) == x.div <= e /\ InPair(x.at, e) # {} /\ i = Min(InPair(x.at, e))

\* What findAndRemove finds is the only free block in the pair.
LEMMA OneBuddy ==
    ASSUME Lists(occupied), NoPairs(FreeIn(occupied)), NEW x \in Block,
           NEW e \in Division, NEW i, Found(x, e, i)
    PROVE  /\ i \in DOMAIN occupied[e]
           /\ \A c \in Members(occupied[e]) :
                c \in Place(Around(x.at, e + 1), e + 1) <=> c = occupied[e][i]
<1> USE DEF Found
<1> DEFINE pair == Place(Around(x.at, e + 1), e + 1)
<1>1. e \in Nat /\ e + 1 \in Nat /\ x.div \in Nat /\ x.div <= e + 1
  BY ArenaIsPlace, BlockIs
<1>2. InPair(x.at, e) = {j \in DOMAIN occupied[e] : occupied[e][j] \in pair}
  BY <1>1, PairIs
<1>3. occupied[e] \in Seq(Nat) /\ DOMAIN occupied[e] \subseteq Nat
  BY LenProperties DEF Lists
<1>4. i \in InPair(x.at, e)
  <2>1. PICK S : S = InPair(x.at, e)
    OBVIOUS
  <2>2. S \in SUBSET Nat /\ S # {}
    <3> HIDE DEF pair
    <3> QED
      BY <1>2, <1>3, <2>1
  <2>3. Min(S) \in S
    BY <2>2, MinProperties
  <2> QED
    BY <2>1, <2>3
<1>5. PICK r : r = Around(x.at, e + 1) /\ OnGrid(r, e + 1)
  BY <1>1, AroundIs
<1>6. i \in DOMAIN occupied[e] /\ occupied[e][i] \in Place(r, e + 1)
  BY <1>2, <1>4, <1>5
<1>7. ASSUME NEW c \in Members(occupied[e]), c \in Place(r, e + 1) PROVE c = occupied[e][i]
  <2>1. PICK b : b = occupied[e][i]
    OBVIOUS
  <2>2. b \in Members(occupied[e])
    BY <1>6, <2>1 DEF Members
  <2>3. PICK y, z : y = [at |-> c, div |-> e] /\ z = [at |-> b, div |-> e]
    OBVIOUS
  <2>4. y \in FreeIn(occupied) /\ z \in FreeIn(occupied)
    BY <2>2, <2>3, FreeMember
  <2>5. y.div = e /\ z.div = e /\ y.at = c /\ z.at = b
    BY <2>3
  <2>6. b # c => Paired(y, z)
    BY <1>5, <1>6, <1>7, <2>1, <2>5 DEF Paired
  <2>7. ~Paired(y, z)
    BY <2>4 DEF NoPairs
  <2> QED
    BY <2>1, <2>6, <2>7
<1> QED
  BY <1>5, <1>6, <1>7

\* The lists after restoreToList has gone up from division d and stopped at s.
PutBack(a, d, s, occ) ==
    occ = [e \in Division |->
             CASE e \in d .. s - 1 -> RemoveAt(occupied[e], Min(InPair(a, e)))
               [] e = s -> <<Around(a, e)>> \o occupied[e]
               [] OTHER -> occupied[e]]

\* s is the first division from d on where no free block lies in the pair.
FirstAlone(a, d, s) == /\ s \in Division /\ d <= s /\ InPair(a, s) = {}
                       /\ \A e \in d .. s - 1 : InPair(a, e) # {}

\* What memfree does to the lists: the buddies leave, the merged block comes.
LEMMA ListsTakeBack ==
    ASSUME Lists(occupied), NoPairs(FreeIn(occupied)), NEW x \in Block,
           NEW s, FirstAlone(x.at, x.div, s), NEW occ, PutBack(x.at, x.div, s, occ)
    PROVE  /\ Lists(occ)
           /\ FreeIn(occ) = (FreeIn(occupied) \ Buddies(FreeIn(occupied), x, s)) \cup {Merged(x, s)}
<1> USE DEF FirstAlone, PutBack
<1> DEFINE free == FreeIn(occupied)
           d == x.div
           pair(e) == Place(Around(x.at, e + 1), e + 1)
<1>1. /\ s \in Nat /\ s <= LargestDivision /\ d \in Nat /\ LargestDivision \in Nat
      /\ Around(x.at, s) \in Nat
  BY ArenaIsPlace, BlockIs, AroundIs
<1>2. \A e \in Division : e \in Nat /\ occupied[e] \in Seq(Nat) /\ NoRepeats(occupied[e])
  BY ArenaIsPlace DEF Lists
<1>3. ASSUME NEW e \in d .. s - 1
      PROVE  /\ e \in Division /\ e # s /\ d <= e
             /\ occ[e] \in Seq(Nat) /\ NoRepeats(occ[e])
             /\ \A c : c \in Members(occ[e]) <=> c \in Members(occupied[e]) /\ c \notin pair(e)
  <2>1. e \in Division /\ e # s /\ d <= e
    BY <1>1 DEF Division
  <2>2. PICK i : i = Min(InPair(x.at, e))
    OBVIOUS
  <2>3. /\ i \in DOMAIN occupied[e]
        /\ \A c \in Members(occupied[e]) : c \in pair(e) <=> c = occupied[e][i]
    <3>1. InPair(x.at, e) # {} /\ x.div <= e /\ e \in Division
      BY <2>1
    <3>2. /\ i \in DOMAIN occupied[e]
          /\ \A c \in Members(occupied[e]) :
               c \in Place(Around(x.at, e + 1), e + 1) <=> c = occupied[e][i]
      <4>1. Found(x, e, i)
        BY <2>2, <3>1 DEF Found
      <4> QED
        BY <3>1, <4>1, OneBuddy
    <3> QED
      BY <3>2
  <2>4. occ[e] = RemoveAt(occupied[e], i)
    BY <2>1, <2>2
  <2>5. PICK q \in Seq(Nat) : q = occupied[e]
    BY <1>2, <2>1
  <2>6. /\ RemoveAt(q, i) \in Seq(Nat) /\ NoRepeats(RemoveAt(q, i))
        /\ Members(RemoveAt(q, i)) = Members(q) \ {q[i]}
    BY <1>2, <2>1, <2>3, <2>5, WithoutOne
  <2> HIDE DEF pair
  <2> QED
    BY <2>1, <2>3, <2>4, <2>5, <2>6
<1>4. Around(x.at, s) \notin Members(occupied[s])
  <2>1. PICK u : u = Around(x.at, s) /\ OnGrid(u, s) /\ x.at \in Place(u, s) /\ u \in Place(u, s)
    BY <1>1, AroundIs, PlaceSize
  <2>2. s + 1 \in Nat /\ d <= s + 1 /\ s <= s + 1
    BY <1>1
  <2>3. PICK r : r = Around(x.at, s + 1) /\ OnGrid(r, s + 1) /\ x.at \in Place(r, s + 1)
    BY <2>2, AroundIs
  <2>4. u \in Place(r, s + 1)
    BY <1>1, <2>1, <2>2, <2>3, Nested
  <2>5. \A y \in free : y.div = s => y.at \notin Place(r, s + 1)
    <3>1. PICK a : a = x.at
      OBVIOUS
    <3>2. InPair(a, s) = {} /\ s \in Division /\ x.div <= s
      BY <3>1
    <3> QED
      BY <2>3, <3>1, <3>2, PairEmpty
  <2>6. ASSUME u \in Members(occupied[s]) PROVE FALSE
    <3>1. PICK y : y = [at |-> u, div |-> s]
      OBVIOUS
    <3>2. y \in free
      BY <2>6, <3>1, FreeMember
    <3> QED
      BY <2>4, <2>5, <3>1, <3>2
  <2> QED
    BY <2>1, <2>6
<1>5. /\ occ[s] \in Seq(Nat) /\ NoRepeats(occ[s])
      /\ Members(occ[s]) = Members(occupied[s]) \cup {Around(x.at, s)}
  <2>1. occ[s] = <<Around(x.at, s)>> \o occupied[s]
    BY <1>1
  <2>2. PICK q \in Seq(Nat), a \in Nat : q = occupied[s] /\ a = Around(x.at, s)
    BY <1>1, <1>2
  <2>3. NoRepeats(q) /\ a \notin Members(q)
    BY <1>2, <1>4, <2>2
  <2>4. /\ <<a>> \o q \in Seq(Nat) /\ NoRepeats(<<a>> \o q)
        /\ Members(<<a>> \o q) = Members(q) \cup {a}
    BY <2>3, WithOneBefore
  <2> QED
    BY <2>1, <2>2, <2>4
<1>6. ASSUME NEW e \in Division, e # s, e \notin d .. s - 1 PROVE occ[e] = occupied[e]
  BY <1>6
<1>7. Lists(occ)
  <2>1. ASSUME NEW e \in Division PROVE occ[e] \in Seq(Nat) /\ NoRepeats(occ[e])
    <3>1. CASE e = s
      BY <1>5, <3>1
    <3>2. CASE e \in d .. s - 1
      BY <1>3, <3>2
    <3>3. CASE e # s /\ e \notin d .. s - 1
      BY <1>2, <1>6, <3>3
    <3> QED
      BY <3>1, <3>2, <3>3
  <2>2. occ = [e \in Division |-> occ[e]]
    OBVIOUS
  <2>3. occ \in [Division -> Seq(Nat)]
    BY <2>1, <2>2
  <2> QED
    BY <2>1, <2>3 DEF Lists
<1>8. PICK z : z = Merged(x, s) /\ z.at = Around(x.at, s) /\ z.div = s
               /\ z \in [at : Nat, div : Division]
  <2>1. PICK z : z = Merged(x, s)
    OBVIOUS
  <2>2. z = [at |-> Around(x.at, s), div |-> s]
    BY <2>1 DEF Merged
  <2>3. s \in Division /\ Around(x.at, s) \in Nat
    BY <1>1
  <2>4. PICK a \in Nat : a = Around(x.at, s)
    BY <2>3
  <2>5. z = [at |-> a, div |-> s]
    BY <2>2, <2>4
  <2>6. z.at = a /\ z.div = s /\ z \in [at : Nat, div : Division]
    BY <2>3, <2>5
  <2> QED
    BY <2>1, <2>4, <2>6
<1>9. ASSUME NEW y \in [at : Nat, div : Division]
      PROVE  y \in FreeIn(occ) <=> y = z \/ (y \in free /\ y \notin Buddies(free, x, s))
  <2>1. /\ y.div \in Division /\ y = [at |-> y.at, div |-> y.div]
        /\ y \in FreeIn(occ) <=> y.at \in Members(occ[y.div])
        /\ y \in free <=> y.at \in Members(occupied[y.div])
    BY DEF FreeIn
  <2>2. y \in Buddies(free, x, s)
          <=> y \in free /\ y.div \in d .. s - 1 /\ y.at \in pair(y.div)
    BY DEF Buddies
  <2>3. z = [at |-> Around(x.at, s), div |-> s]
    BY <1>8 DEF Merged
  <2>4. CASE y.div = s
    <3>1. y = z <=> y.at = Around(x.at, s)
      BY <2>1, <2>3, <2>4
    <3>2. y \notin Buddies(free, x, s)
      BY <1>1, <2>2, <2>4
    <3>3. y.at \in Members(occ[s]) <=> y.at \in Members(occupied[s]) \/ y.at = Around(x.at, s)
      BY <1>5
    <3> QED
      BY <2>1, <2>4, <3>1, <3>2, <3>3
  <2>5. CASE y.div \in d .. s - 1
    <3>1. PICK e \in d .. s - 1 : e = y.div
      BY <2>5
    <3>2. y.at \in Members(occ[e]) <=> y.at \in Members(occupied[e]) /\ y.at \notin pair(e)
      BY <1>3
    <3>3. y # z
      BY <1>3, <1>8, <3>1
    <3> HIDE DEF pair, free
    <3> QED
      BY <2>1, <2>2, <3>1, <3>2, <3>3
  <2>6. CASE y.div # s /\ y.div \notin d .. s - 1
    <3>1. occ[y.div] = occupied[y.div] /\ y # z
      BY <1>6, <1>8, <2>1, <2>6
    <3> HIDE DEF pair, free
    <3> QED
      BY <2>1, <2>2, <2>6, <3>1
  <2> QED
    BY <2>4, <2>5, <2>6
<1>10. FreeIn(occ) = (free \ Buddies(free, x, s)) \cup {z}
  <2>1. /\ FreeIn(occ) \subseteq [at : Nat, div : Division]
        /\ free \subseteq [at : Nat, div : Division]
    BY DEF FreeIn
  <2> HIDE DEF free
  <2> QED
    BY <1>8, <1>9, <2>1
<1> QED
  BY <1>7, <1>8, <1>10

\* Where restoreToList stops: the block above the largest division is never lost.
LEMMA StopsInside ==
    ASSUME Lists(occupied), Stock(FreeIn(occupied), Holding(used)), NEW x \in Holding(used)
    PROVE  FirstAlone(x.at, x.div, Stops(x.at, x.div))
<1> DEFINE d == x.div
           top == LargestDivision
           alone == {e \in d .. top : InPair(x.at, e) = {}}
           S == alone \cup {top + 1}
<1>1. x \in Block
  BY DEF Stock
<1>2. d \in Nat /\ top \in Nat /\ d <= top /\ top \in Division
  BY <1>1, BlockIs, ArenaIsPlace
<1>3. InPair(x.at, top) = {}
  <2>1. \A y \in FreeIn(occupied) : y.div # top
    BY LargestInUse
  <2>2. PICK a : a = x.at
    OBVIOUS
  <2>3. InPair(a, top) = {}
    BY <1>1, <1>2, <2>1, <2>2, PairEmpty
  <2> QED
    BY <2>2, <2>3
<1>4. top \in alone
  BY <1>2, <1>3
<1>5. S \in SUBSET Nat /\ S # {}
  BY <1>2
<1>6. PICK s : s = Min(S) /\ s \in S /\ \A e \in S : s <= e
  <2> HIDE DEF S
  <2> QED
    BY <1>5, MinProperties
<1>7. s \in d .. top /\ InPair(x.at, s) = {}
  <2>1. s <= top
    BY <1>4, <1>6
  <2>2. s # top + 1
    BY <1>2, <2>1
  <2>3. s \in alone
    BY <1>6, <2>2
  <2> QED
    BY <2>3
<1>8. ASSUME NEW e \in d .. s - 1 PROVE InPair(x.at, e) # {}
  <2>1. e \in d .. top /\ ~(s <= e)
    BY <1>2, <1>7
  <2> QED
    BY <1>6, <2>1
<1>9. s = Stops(x.at, x.div)
  BY <1>6 DEF Stops
<1>10. s \in Division /\ d <= s
  BY <1>2, <1>7 DEF Division
<1> QED
  BY <1>7, <1>8, <1>9, <1>10 DEF FirstAlone

\* The buddies that restoreToList takes out of their lists merge with the block.
LEMMA MergedStock ==
    ASSUME Lists(occupied), Stock(FreeIn(occupied), Holding(used)), NEW x \in Holding(used),
           NEW s, FirstAlone(x.at, x.div, s)
    PROVE  Stock((FreeIn(occupied) \ Buddies(FreeIn(occupied), x, s)) \cup {Merged(x, s)},
                 Holding(used) \ {x})
<1>1. x \in Block
  BY DEF Stock
<1>2. /\ s \in Division /\ x.div <= s /\ InPair(x.at, s) = {}
      /\ \A e \in x.div .. s - 1 : InPair(x.at, e) # {}
  BY DEF FirstAlone
<1>3. s \in Nat /\ s <= LargestDivision /\ x.div \in Nat /\ LargestDivision \in Nat
  BY <1>1, <1>2, BlockIs, ArenaIsPlace
<1>4. PICK a, free : a = x.at /\ free = FreeIn(occupied)
  OBVIOUS
<1>5. ASSUME NEW e \in x.div .. s - 1
      PROVE  \E y \in free : y.div = e /\ y.at \in Place(Around(x.at, e + 1), e + 1)
  <2>1. e \in Division /\ x.div <= e
    BY <1>3 DEF Division
  <2>2. InPair(a, e) # {}
    BY <1>2, <1>4
  <2>3. InPair(a, e) = {} <=>
             \A y \in FreeIn(occupied) : y.div = e => y.at \notin Place(Around(a, e + 1), e + 1)
    BY <1>1, <1>4, <2>1, PairEmpty
  <2> QED
    BY <1>4, <2>2, <2>3
<1>6. \A y \in free : y.div = s => y.at \notin Place(Around(x.at, s + 1), s + 1)
  <2>1. InPair(a, s) = {} <=>
             \A y \in FreeIn(occupied) : y.div = s => y.at \notin Place(Around(a, s + 1), s + 1)
    BY <1>1, <1>2, <1>4, PairEmpty
  <2> QED
    BY <1>2, <1>4, <2>1
<1>7. PICK taken : taken = Holding(used)
  OBVIOUS
<1>8. Stock(free, taken) /\ x \in taken
  BY <1>4, <1>7
<1>9. Stock((free \ Buddies(free, x, s)) \cup {Merged(x, s)}, taken \ {x})
  BY <1>2, <1>3, <1>5, <1>6, <1>8, StockTakesBack
<1> QED
  BY <1>4, <1>7, <1>9

\* memfree keeps the state.
LEMMA FreeKeepsState ==
    ASSUME BuddyState(used, occupied, memUsed), NEW b \in used, BuddyMemfree(b)
    PROVE  /\ BuddyState(used', occupied', memUsed')
           /\ \E h \in HeldBlocks : HeldBlocks' = HeldBlocks \ {h}
<1>1. PICK x : x = HeldAs(b) /\ x.at = b.at - 1 /\ x.div = b.header
  <2>1. HeldAs(b).at = b.at - 1 /\ HeldAs(b).div = b.header
    BY DEF HeldAs
  <2> QED
    BY <2>1
<1>2. PICK free, taken : free = FreeIn(occupied) /\ taken = Holding(used)
  OBVIOUS
<1>3. /\ Lists(occupied) /\ Stock(free, taken) /\ memUsed = Cardinality(Cover(taken))
      /\ \A c, e \in used : HeldAs(c) = HeldAs(e) => c = e
      /\ \A c \in used : Fitting(c) /\ c.at \in Int
  BY <1>2 DEF BuddyState
<1>4. x \in taken /\ x \in Block /\ NoPairs(free)
  <2>1. x \in taken
    BY <1>1, <1>2 DEF Holding
  <2> QED
    BY <1>3, <2>1 DEF Stock
<1>5. PICK s : s = Stops(x.at, x.div) /\ FirstAlone(x.at, x.div, s)
  BY <1>2, <1>3, <1>4, StopsInside
<1>6. /\ occupied' = Restored(x.at, x.div) /\ memUsed' = memUsed - 2^x.div /\ used' = used \ {b}
  BY <1>1 DEF BuddyMemfree, LetGo
<1>7. PICK occ : occ = occupied' /\ PutBack(x.at, x.div, s, occ)
  <2>1. PICK a, d : a = x.at /\ d = x.div
    OBVIOUS
  <2>2. Restored(a, d) = [e \in Division |->
             CASE e \in d .. s - 1 -> RemoveAt(occupied[e], Min(InPair(a, e)))
               [] e = s -> <<Around(a, e)>> \o occupied[e]
               [] OTHER -> occupied[e]]
    <3> DEFINE t == Stops(a, d)
    <3>1. Restored(a, d) = [e \in Division |->
             CASE e \in d .. t - 1 -> RemoveAt(occupied[e], Min(InPair(a, e)))
               [] e = t -> <<Around(a, e)>> \o occupied[e]
               [] OTHER -> occupied[e]]
      BY Zenon DEF Restored, Around
    <3>2. t = s
      BY <1>5, <2>1
    <3> HIDE DEF t
    <3> QED
      BY <3>1, <3>2
  <2> QED
    BY <1>6, <2>1, <2>2 DEF PutBack
<1>8. Lists(occ) /\ FreeIn(occ) = (free \ Buddies(free, x, s)) \cup {Merged(x, s)}
  BY <1>2, <1>3, <1>4, <1>5, <1>7, ListsTakeBack
<1>9. Stock(FreeIn(occ), taken \ {x})
  BY <1>2, <1>3, <1>4, <1>5, <1>8, MergedStock
<1>10. Holding(used') = taken \ {x}
  <2>1. \A c \in used : c # b => HeldAs(c) # x
    BY <1>1, <1>3
  <2> QED
    BY <1>1, <1>2, <1>6, <2>1 DEF Holding
<1>11. memUsed' = Cardinality(Cover(Holding(used')))
  <2>1. PICK rest : rest = taken \ {x}
    OBVIOUS
  <2>2. rest \subseteq Block /\ rest \cup {x} = taken
    BY <1>3, <1>4, <2>1 DEF Stock
  <2>3. \A y \in rest : Span(y) \cap Span(x) = {}
    BY <1>3, <1>4, <2>1 DEF Stock, Apart
  <2>4. Cardinality(Cover(rest \cup {x})) = Cardinality(Cover(rest)) + 2^x.div
    BY <1>4, <2>2, <2>3, OneMoreCounted
  <2>5. Cardinality(Cover(rest)) \in Nat /\ 2^x.div \in Int
    BY <1>4, <2>2, CoverCounts, BlockIs, PowerInt
  <2>6. PICK i, j \in Int : i = Cardinality(Cover(rest)) /\ j = 2^x.div
    BY <2>5
  <2>7. memUsed = i + j
    BY <1>3, <2>2, <2>4, <2>6
  <2>8. memUsed' = i
    BY <1>6, <2>6, <2>7
  <2> QED
    BY <1>10, <2>1, <2>6, <2>8
<1>12. BuddyState(used', occupied', memUsed')
  <2>1. PICK u, m : u = used' /\ m = memUsed'
    OBVIOUS
  <2>2. /\ Lists(occ) /\ Stock(FreeIn(occ), Holding(u)) /\ m = Cardinality(Cover(Holding(u)))
        /\ \A c, e \in u : HeldAs(c) = HeldAs(e) => c = e
        /\ \A c \in u : Fitting(c) /\ c.at \in Int
    BY <1>3, <1>6, <1>8, <1>9, <1>10, <1>11, <2>1
  <2>3. BuddyState(u, occ, m)
    BY <2>2 DEF BuddyState
  <2> QED
    BY <1>7, <2>1, <2>3
<1>13. PICK h : h = [at |-> b.at, len |-> b.len]
  OBVIOUS
<1>14. ASSUME NEW c \in used, c # b PROVE [at |-> c.at, len |-> c.len] # h
  <2> SUFFICES ASSUME c.at = b.at PROVE FALSE
    BY <1>13, Zenon
  <2>1. PICK y : y = HeldAs(c) /\ y.at = c.at - 1
    <3>1. HeldAs(c).at = c.at - 1
      BY DEF HeldAs
    <3> QED
      BY <3>1
  <2>2. y \in taken /\ y # x
    BY <1>1, <1>2, <1>3, <1>14, <2>1 DEF Holding
  <2>3. y \in Block /\ Span(x) \cap Span(y) = {}
    BY <1>3, <1>4, <2>2 DEF Stock, Apart
  <2>4. x.at \in Span(x) /\ y.at \in Span(y)
    BY <1>4, <2>3, BlockIs
  <2> QED
    BY <1>1, <2>1, <2>3, <2>4
<1>15. h \in HeldBlocks /\ HeldBlocks' = HeldBlocks \ {h}
  BY <1>6, <1>13, <1>14 DEF HeldBlocks
<1> QED
  BY <1>12, <1>15

\* Every step of the kernel services, as the buddy system and its callers see it.
LEMMA BuddyStep ==
    ASSUME BuddyInv, subject = "Buddy", [Next]_vars
    PROVE  BuddyState(used', occupied', memUsed') /\ [Blocks!Next]_HeldBlocks
<1> USE DEF BuddyInv
<1>1. CASE UNCHANGED <<used, occupied, memUsed>>
  <2>1. PICK u, o, m : u = used /\ o = occupied /\ m = memUsed
    OBVIOUS
  <2>2. BuddyState(u, o, m) /\ u = used' /\ o = occupied' /\ m = memUsed'
    BY <1>1, <2>1
  <2> QED
    BY <1>1, <2>2 DEF HeldBlocks
<1>2. CASE Allocates
  <2>1. PICK n \in Requests :
          CASE subject = "Buddy" -> BuddyMemalloc(n) /\ UNCHANGED freep
            [] subject = "K&R heap malloc" -> KrMemalloc(n) /\ UNCHANGED buddyVars
            [] OTHER -> FALSE
    BY <1>2, Zenon DEF Allocates
  <2>2. BuddyMemalloc(n)
    BY <2>1, Zenon
  <2>3. BuddyState(used', occupied', memUsed') /\ Blocks!Allocate(n)
    BY <2>2, MallocKeepsState
  <2> QED
    BY <2>3 DEF Blocks!Next
<1>3. CASE Frees
  <2>1. PICK b \in used : BuddyMemfree(b)
    BY <1>3, Zenon DEF Frees
  <2>2. /\ BuddyState(used', occupied', memUsed')
        /\ \E h \in HeldBlocks : HeldBlocks' = HeldBlocks \ {h}
    BY <2>1, FreeKeepsState
  <2> QED
    BY <2>2 DEF Blocks!Next, Blocks!Release, HeldBlocks
<1>4. CASE subject = "ddlADT" /\ ddlNext
           /\ UNCHANGED <<subject, memoryVars, clockVars, terminalVars>>
  BY <1>4
<1>5. CASE subject = "clock" /\ (SleepNext \/ DateNext)
           /\ UNCHANGED <<subject, memoryVars, ddlVars, terminalVars>>
  BY <1>5
<1>6. CASE subject = "terminal" /\ TerminalNext
           /\ UNCHANGED <<subject, memoryVars, ddlVars, clockVars>>
  BY <1>6
<1>7. CASE UNCHANGED vars
  BY <1>1, <1>7 DEF vars, memoryVars, buddyVars
<1> QED
  BY <1>2, <1>3, <1>4, <1>5, <1>6, <1>7 DEF Next

LEMMA BuddyInvStep ==
    ASSUME BuddyInv, [Next]_vars PROVE BuddyInv'
<1>1. subject' = subject
  BY SubjectStays
<1>2. subject = "Buddy" => BuddyState(used', occupied', memUsed')
  BY BuddyStep
<1> QED
  BY <1>1, <1>2 DEF BuddyInv

\* Every block the buddy system hands out lies in the arena, has room for what was asked
\* for, and shares no byte with another that is held, however blocks were halved and merged.
THEOREM BuddyIsAllocator ==
    Spec /\ subject = "Buddy" => ImplementsAllocator
<1>1. Init => BuddyInv
  BY BuddyStart DEF Init, BuddyInv
<1>2. BuddyInv /\ subject = "Buddy" /\ [Next]_vars => (BuddyInv /\ subject = "Buddy")'
  BY BuddyInvStep, SubjectStays
<1>3. BuddyInv /\ subject = "Buddy" /\ [Next]_vars => [Blocks!Next]_HeldBlocks
  BY BuddyStep
<1>4. Init => Blocks!Init
  BY AllocatorStart
<1> QED
  BY <1>1, <1>2, <1>3, <1>4, PTL DEF Spec, ImplementsAllocator, Blocks!Spec, HeldBlocks

\* Whichever memory manager the build takes: memalloc and memfree implement Allocator.
THEOREM AllocatorsImplemented ==
    ASSUME RoomForAHeader PROVE Spec => ImplementsAllocator
<1>1. Spec /\ subject # "Buddy" => ImplementsAllocator
  BY HeapIsAllocator
<1>2. Spec /\ subject = "Buddy" => ImplementsAllocator
  BY BuddyIsAllocator
<1> QED
  BY <1>1, <1>2

\* What nobody holds, in the callers' terms and in the buddy system's.
LEMMA UnusedIs ==
    ASSUME BuddyState(used, occupied, memUsed)
    PROVE  BuddyUnused = Whole \ Cover(Holding(used))
<1>1. ASSUME NEW b \in used PROVE BuddyBytesOf(b) = Span(HeldAs(b))
  <2>1. Fitting(b) /\ b.at \in Int
    BY DEF BuddyState
  <2>2. b.header = DivisionFor(b.len) /\ b.header \in Nat
    BY <2>1, ArenaIsPlace DEF Fitting
  <2>3. PICK d \in Nat : d = b.header /\ d = DivisionFor(b.len)
    BY <2>2
  <2>4. PICK p \in Int : p = 2^d
    BY <2>3, PowerInt
  <2>5. BuddyBytesOf(b) = (b.at - 1) .. (b.at - 2 + p)
    BY <2>3, <2>4 DEF BuddyBytesOf
  <2>6. Span(HeldAs(b)) = (b.at - 1) .. ((b.at - 1) + p) - 1
    BY <2>3, <2>4 DEF Span, HeldAs, Place
  <2>7. b.at - 2 + p = ((b.at - 1) + p) - 1
    BY <2>1
  <2> QED
    BY <2>5, <2>6, <2>7
<1>2. {BuddyBytesOf(b) : b \in used} = {Span(HeldAs(b)) : b \in used}
  BY <1>1
<1>3. UNION {Span(HeldAs(b)) : b \in used} = Cover(Holding(used))
  BY DEF Cover, Holding
<1> QED
  BY <1>2, <1>3 DEF BuddyUnused, Whole

\* memalloc finds a block for a request that a place of the arena could hold.
LEMMA BuddyRefusesRightly ==
    ASSUME BuddyState(used, occupied, memUsed), NEW n \in Nat, BuddyCouldHold(n)
    PROVE  ToSplit(DivisionFor(n)) # {}
<1>1. PICK d \in Nat : d = DivisionFor(n)
  BY DivisionIs
<1>2. PICK size \in Nat \ {0} : size = 2^d
  BY PowerPositive
<1>3. PICK bytes \in Nat \ {0} : bytes = BuddySize
  BY ArenaIsPlace
<1>4. PICK k \in 0 .. (bytes \div size) - 1 :
           Start + k * size .. Start + (k + 1) * size - 1 \subseteq BuddyUnused
  BY <1>1, <1>2, <1>3 DEF BuddyCouldHold
<1>5. k \in Nat /\ Start \in Nat
  BY <1>2, <1>3, <1>4, ArenaIsPlace
<1>6. PICK m \in Nat : m = k * size /\ (k + 1) * size = m + size
  BY <1>2, <1>5
<1>7. PICK c \in Nat : c = Start + m
  BY <1>5, <1>6
<1>8. OnGrid(c, d)
  BY <1>2, <1>5, <1>6, <1>7 DEF OnGrid
<1>9. Place(c, d) \subseteq BuddyUnused
  <2>1. Start + (m + size) - 1 = (c + size) - 1
    BY <1>2, <1>5, <1>6, <1>7
  <2>2. Start + m .. Start + (m + size) - 1 \subseteq BuddyUnused
    BY <1>4, <1>6
  <2>3. c .. (c + size) - 1 \subseteq BuddyUnused
    BY <1>7, <2>1, <2>2
  <2> QED
    BY <1>2, <2>3 DEF Place
<1>10. PICK free, taken : free = FreeIn(occupied) /\ taken = Holding(used)
  OBVIOUS
<1>11. Stock(free, taken) /\ Lists(occupied)
  BY <1>10 DEF BuddyState
<1>12. Place(c, d) \subseteq Whole /\ Place(c, d) \cap Cover(taken) = {}
  BY <1>9, <1>10, UnusedIs
<1>13. PICK x \in free : d <= x.div
  BY <1>8, <1>11, <1>12, StockHasRoom
<1>14. x.div \in Division /\ x.at \in Members(occupied[x.div])
  BY <1>10 DEF FreeIn
<1>15. occupied[x.div] # <<>>
  <2>1. Members(<<>>) = {}
    BY DEF Members
  <2> QED
    BY <1>14, <2>1
<1>16. x.div \in d .. LargestDivision
  BY <1>1, <1>13, <1>14, ArenaIsPlace DEF Division
<1> QED
  BY <1>1, <1>15, <1>16 DEF ToSplit

\* The counter of the buddy system is the number of bytes in held blocks.
LEMMA BuddyReports ==
    ASSUME BuddyState(used, occupied, memUsed)
    PROVE  BuddyFreeBlocks = Cardinality(BuddyUnused) \div MIN_SIZE
<1>1. PICK taken : taken = Holding(used)
  OBVIOUS
<1>2. taken \subseteq Block /\ memUsed = Cardinality(Cover(taken))
  BY <1>1 DEF BuddyState, Stock
<1>3. IsFiniteSet(Cover(taken)) /\ Cardinality(Cover(taken)) \in Nat /\ Cover(taken) \subseteq Whole
  BY <1>2, CoverCounts
<1>4. IsFiniteSet(Whole) /\ Cardinality(Whole) = BuddySize
  <2>1. PICK top \in Nat : top = LargestDivision
    BY ArenaIsPlace
  <2>2. Whole = Place(Start, top) /\ Start \in Nat /\ BuddySize = 2^top
    BY <2>1, ArenaIsPlace DEF BuddySize
  <2> QED
    BY <2>2, PlaceSize
<1>5. PICK v, w : v = Cover(taken) /\ w = Whole
  OBVIOUS
<1>6. Cardinality(w \ v) = Cardinality(w) - Cardinality(w \cap v)
  BY <1>4, <1>5, FS_Difference
<1>7. w \cap v = v
  BY <1>3, <1>5
<1>8. Cardinality(BuddyUnused) = BuddySize - memUsed
  BY <1>1, <1>2, <1>4, <1>5, <1>6, <1>7, UnusedIs
<1> QED
  BY <1>8 DEF BuddyFreeBlocks

LEMMA BuddyInvIsInvariant == Spec => []BuddyInv
<1>1. Init => BuddyInv
  BY BuddyStart DEF Init, BuddyInv
<1>2. BuddyInv /\ [Next]_vars => BuddyInv'
  BY BuddyInvStep
<1> QED
  BY <1>1, <1>2, PTL DEF Spec

\* Whichever memory manager the build takes: memalloc refuses a request only when no place
\* of the arena that nobody holds could take it; what is freed is never lost nor left in
\* pieces.  For the buddy system that is the merging of every pair of free halves.
THEOREM NoMemoryLost ==
    ASSUME RoomForAHeader PROVE Spec => []RefusesOnlyWhenFull
<1>1. BuddyInv /\ subject = "Buddy" => RefusesOnlyWhenFull
  <2> SUFFICES ASSUME BuddyInv, subject = "Buddy" PROVE RefusesOnlyWhenFull
    OBVIOUS
  <2>1. BuddyState(used, occupied, memUsed)
    BY DEF BuddyInv
  <2>2. ASSUME NEW n \in Requests \ {0}, BuddyCouldHold(n) PROVE ToSplit(DivisionFor(n)) # {}
    <3>1. n \in Nat
      BY RequestsAssumption
    <3> QED
      BY <2>1, <2>2, <3>1, BuddyRefusesRightly
  <2>3. subject # "K&R heap malloc"
    OBVIOUS
  <2> QED
    BY <2>2, <2>3, Zenon DEF RefusesOnlyWhenFull
<1>2. BuddyInv /\ (subject # "Buddy" => RefusesOnlyWhenFull) => RefusesOnlyWhenFull
  BY <1>1
<1>3. Spec => [](subject # "Buddy" => RefusesOnlyWhenFull)
  BY HeapRefusesOnlyWhenFull
<1> QED
  BY <1>2, <1>3, BuddyInvIsInvariant, PTL

\* Whichever memory manager the build takes: the free memory that getMemInfo reports is what
\* the callers do not hold, whatever was allocated and freed.
THEOREM ReportsAreExact ==
    ASSUME RoomForAHeader PROVE Spec => []ReportsExact
<1>1. BuddyInv /\ subject = "Buddy" => ReportsExact
  <2> SUFFICES ASSUME BuddyInv, subject = "Buddy" PROVE ReportsExact
    OBVIOUS
  <2>1. BuddyFreeBlocks = Cardinality(BuddyUnused) \div MIN_SIZE
    BY BuddyReports DEF BuddyInv
  <2>2. subject # "K&R heap malloc"
    OBVIOUS
  <2> QED
    BY <2>1, <2>2, Zenon DEF ReportsExact
<1>2. BuddyInv /\ (subject # "Buddy" => ReportsExact) => ReportsExact
  BY <1>1
<1>3. Spec => [](subject # "Buddy" => ReportsExact)
  BY HeapReportsExact
<1> QED
  BY <1>2, <1>3, BuddyInvIsInvariant, PTL
=============================================================================
