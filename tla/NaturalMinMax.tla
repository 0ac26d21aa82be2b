--------------------------- MODULE NaturalMinMax ---------------------------
(***************************************************************************)
(* What the proofs need of natural numbers: least and greatest members of  *)
(* their sets, properties and functions that pass from each number to the  *)
(* next - a fold over a sequence is one - and remainders.                  *)
(***************************************************************************)
EXTENDS Integers, FiniteSetsExt, WellFoundedInduction, TLAPS

\* Every set of naturals that is not empty has its least number.
LEMMA LeastNatural ==
    ASSUME NEW S \in SUBSET Nat, S # {}
    PROVE  \E x \in S : \A y \in S : x <= y
<1>1. PICK x \in S : \A y \in S : <<y, x>> \notin OpToRel(<, Nat)
  BY NatLessThanWellFounded, WFMin, Zenon
<1>2. \A y \in S : ~(y < x)
  BY <1>1 DEF OpToRel
<1> QED
  BY <1>2

\* Min of a set of naturals.
LEMMA MinProperties ==
    ASSUME NEW S \in SUBSET Nat, S # {}
    PROVE  Min(S) \in S /\ \A y \in S : Min(S) <= y
BY LeastNatural DEF Min

\* Max of a set of naturals that has a bound.
LEMMA MaxProperties ==
    ASSUME NEW S \in SUBSET Nat, S # {}, NEW n \in Nat, \A y \in S : y <= n
    PROVE  Max(S) \in S /\ \A y \in S : Max(S) >= y
<1> DEFINE T == {t \in Nat : \E y \in S : t = n - y}
<1>1. T # {}
  <2>1. PICK y \in S : TRUE
    OBVIOUS
  <2>2. n - y \in Nat
    BY <2>1
  <2> QED
    BY <2>2
<1>2. PICK t \in T : \A u \in T : t <= u
  <2> HIDE DEF T
  <2>1. T \in SUBSET Nat
    BY DEF T
  <2> QED
    BY <1>1, <2>1, LeastNatural
<1>3. PICK x \in S : t = n - x
  OBVIOUS
<1>4. ASSUME NEW y \in S PROVE x >= y
  <2>1. n - y \in T
    OBVIOUS
  <2>2. t <= n - y
    BY <1>2, <2>1
  <2>3. y \in Nat /\ x \in Nat
    OBVIOUS
  <2> HIDE DEF T
  <2> QED
    BY <1>3, <2>2, <2>3
<1> QED
  BY <1>4 DEF Max

\* Max of the first naturals.
LEMMA MaxOfFirst ==
    ASSUME NEW n \in Nat, NEW T \in SUBSET (1 .. n), T # {}
    PROVE  Max(T) \in T /\ \A y \in T : y <= Max(T)
<1>1. T \in SUBSET Nat /\ \A y \in T : y <= n
  OBVIOUS
<1>2. Max(T) \in T /\ \A y \in T : Max(T) >= y
  BY <1>1, MaxProperties
<1> QED
  BY <1>1, <1>2

\* A property of the first naturals that passes from each to the next holds of all: a set
\* without a least counterexample.
LEMMA UpTo ==
    ASSUME NEW n \in Nat, NEW S \in SUBSET (0 .. n), 0 \in S,
           \A m \in 0 .. n - 1 : m \in S => m + 1 \in S
    PROVE  S = 0 .. n
<1> DEFINE C == (0 .. n) \ S
<1>1. SUFFICES ASSUME C # {} PROVE FALSE
  OBVIOUS
<1>2. C \in SUBSET Nat
  OBVIOUS
<1> HIDE DEF C
<1>3. PICK c \in C : \A y \in C : c <= y
  BY <1>1, <1>2, LeastNatural
<1>4. c \in 0 .. n /\ c \notin S /\ c # 0
  BY DEF C
<1>5. c - 1 \in 0 .. n - 1 /\ c - 1 \notin C /\ (c - 1) + 1 = c
  BY <1>3, <1>4
<1>6. c - 1 \in S
  BY <1>5 DEF C
<1> QED
  BY <1>4, <1>5, <1>6

\* A function on the sets of the first n naturals that takes them apart from their greatest
\* on, as FoldLeft does with the places of a sequence.
Folding(it, n, V, base, step) ==
    /\ it \in [SUBSET (1 .. n) -> V]
    /\ \A T \in SUBSET (1 .. n) :
         it[T] = IF T = {} THEN base ELSE step[Max(T)][it[T \ {Max(T)}]]

LEMMA FoldExists ==
    ASSUME NEW n \in Nat, NEW V, NEW base \in V, NEW step \in [1 .. n -> [V -> V]]
    PROVE  \E it : Folding(it, n, V, base, step)
<1> DEFINE Folds(it, m) == Folding(it, m, V, base, step)
           S == {m \in 0 .. n : \E it : Folds(it, m)}
<1> USE DEF Folding
<1>1. 0 \in S
  <2> DEFINE it == [T \in SUBSET (1 .. 0) |-> base]
  <2>1. SUBSET (1 .. 0) = {{}}
    OBVIOUS
  <2>2. Folds(it, 0)
    BY <2>1
  <2> HIDE DEF it, Folds
  <2>3. \E f : Folds(f, 0)
    BY <2>2
  <2> QED
    BY <2>3
<1>2. ASSUME NEW m \in 0 .. n - 1, m \in S PROVE m + 1 \in S
  <2>1. PICK f : Folds(f, m)
    BY <1>2
  <2> DEFINE k == m + 1
             it == [T \in SUBSET (1 .. k) |->
                       IF k \in T THEN step[k][f[T \ {k}]] ELSE f[T]]
  <2>2. k \in 1 .. n /\ m \in Nat /\ k = m + 1
    OBVIOUS
  <2> HIDE DEF k
  <2>3. ASSUME NEW T \in SUBSET (1 .. k) PROVE T \ {k} \in SUBSET (1 .. m)
    BY <2>2, <2>3
  <2>4. ASSUME NEW T \in SUBSET (1 .. k) PROVE it[T] \in V
    <3>1. f[T \ {k}] \in V
      BY <2>1, <2>3
    <3>2. k \notin T => T = T \ {k}
      OBVIOUS
    <3>3. step[k][f[T \ {k}]] \in V
      BY <2>2, <3>1
    <3> QED
      BY <3>1, <3>2, <3>3
  <2>5. ASSUME NEW T \in SUBSET (1 .. k), T # {}
        PROVE  it[T] = step[Max(T)][it[T \ {Max(T)}]]
    <3>1. CASE k \in T
      <4>1. Max(T) = k
        <5>1. k \in Nat
          BY <2>2
        <5> HIDE DEF it
        <5>2. Max(T) \in T /\ \A y \in T : y <= Max(T)
          BY <2>5, <5>1, MaxOfFirst
        <5>3. PICK x : x = Max(T)
          OBVIOUS
        <5>4. x \in 1 .. k /\ k <= x
          BY <3>1, <5>2, <5>3
        <5>5. x = k
          BY <5>1, <5>4
        <5> QED
          BY <5>3, <5>5
      <4>2. T \ {k} \in SUBSET (1 .. k) /\ k \notin T \ {k}
        OBVIOUS
      <4>3. it[T \ {k}] = f[T \ {k}]
        BY <4>2
      <4>4. it[T] = step[k][f[T \ {k}]]
        BY <3>1
      <4> QED
        BY <4>1, <4>3, <4>4
    <3>2. CASE k \notin T
      <4>1. T \in SUBSET (1 .. m)
        BY <2>3, <3>2, T = T \ {k}
      <4>2. f[T] = step[Max(T)][f[T \ {Max(T)}]]
        BY <2>1, <2>5, <4>1
      <4>3. T \ {Max(T)} \in SUBSET (1 .. k) /\ k \notin T \ {Max(T)}
        BY <3>2
      <4>4. it[T \ {Max(T)}] = f[T \ {Max(T)}] /\ it[T] = f[T]
        BY <3>2, <4>3
      <4> QED
        BY <4>2, <4>4
    <3> QED
      BY <3>1, <3>2
  <2>6. it[{}] = base
    BY <2>1
  <2>7. it \in [SUBSET (1 .. k) -> V]
    BY <2>4
  <2> HIDE DEF it
  <2>8. Folds(it, k)
    BY <2>5, <2>6, <2>7
  <2> HIDE DEF Folds
  <2> QED
    BY <2>2, <2>8 DEF k
<1>3. n \in S
  <2> HIDE DEF S
  <2>1. S \in SUBSET (0 .. n)
    BY DEF S
  <2>2. S = 0 .. n
    BY <1>1, <1>2, <2>1, UpTo
  <2> QED
    BY <2>2
<1> QED
  BY <1>3

\* Such a function, up to each of the naturals: what the turns of a loop compute one after the
\* other.
Stepping(g, n, V, base, step) ==
    /\ g[{}] = base
    /\ \A T \in SUBSET (1 .. n) : T # {} /\ g[T \ {Max(T)}] \in V
                                  => g[T] = step[Max(T)][g[T \ {Max(T)}]]

Turns(g, n, V, base, step) ==
    /\ \A i \in 0 .. n : g[1 .. i] \in V
    /\ g[1 .. 0] = base
    /\ \A i \in 1 .. n : g[1 .. i] = step[i][g[1 .. i - 1]]

LEMMA FoldChain ==
    ASSUME NEW n \in Nat, NEW V, NEW base \in V, NEW step \in [1 .. n -> [V -> V]],
           NEW g, Stepping(g, n, V, base, step)
    PROVE  Turns(g, n, V, base, step)
<1> USE DEF Stepping
<1>1. 1 .. 0 = {}
  OBVIOUS
<1>2. ASSUME NEW i \in 1 .. n, g[1 .. i - 1] \in V
      PROVE  g[1 .. i] = step[i][g[1 .. i - 1]] /\ g[1 .. i] \in V
  <2>1. 1 .. i \in SUBSET (1 .. n) /\ 1 .. i # {} /\ i \in 1 .. i
    <3>1. i \in 1 .. i
      OBVIOUS
    <3>2. \A j \in 1 .. i : j \in 1 .. n
      OBVIOUS
    <3> QED
      BY <3>1, <3>2
  <2>2. Max(1 .. i) = i
    <3>1. i \in Nat
      OBVIOUS
    <3> DEFINE T == 1 .. i
    <3>2. T \in SUBSET (1 .. i) /\ T # {} /\ i \in T
      BY <2>1
    <3> HIDE DEF T
    <3>3. Max(T) \in T /\ \A y \in T : y <= Max(T)
      BY <3>1, <3>2, MaxOfFirst
    <3>4. PICK x : x = Max(T)
      OBVIOUS
    <3>5. x \in 1 .. i /\ i <= x
      BY <3>2, <3>3, <3>4
    <3>6. x = i
      BY <3>1, <3>5
    <3> QED
      BY <3>4, <3>6 DEF T
  <2>3. (1 .. i) \ {i} = 1 .. i - 1
    OBVIOUS
  <2>4. g[1 .. i] = step[i][g[1 .. i - 1]]
    BY <1>2, <2>1, <2>2, <2>3
  <2> QED
    BY <1>2, <2>4
<1> DEFINE S == {i \in 0 .. n : g[1 .. i] \in V}
<1>3. 0 \in S
  BY <1>1
<1>4. ASSUME NEW m \in 0 .. n - 1, m \in S PROVE m + 1 \in S
  <2>1. m + 1 \in 1 .. n /\ (m + 1) - 1 = m
    OBVIOUS
  <2>2. g[1 .. (m + 1) - 1] \in V
    BY <1>4, <2>1
  <2> QED
    BY <1>2, <2>1, <2>2
<1>5. S = 0 .. n
  <2>1. S \in SUBSET (0 .. n)
    OBVIOUS
  <2> HIDE DEF S
  <2> QED
    BY <1>3, <1>4, <2>1, UpTo
<1>6. \A i \in 0 .. n : g[1 .. i] \in V
  BY <1>5
<1>7. ASSUME NEW i \in 1 .. n PROVE g[1 .. i] = step[i][g[1 .. i - 1]]
  <2>1. i - 1 \in 0 .. n
    OBVIOUS
  <2> QED
    BY <1>2, <1>6, <2>1
<1> QED
  BY <1>1, <1>6, <1>7 DEF Turns

\* A function that is defined by recursion over the first naturals exists.
LEMMA RecursionExists ==
    ASSUME NEW n \in Nat, NEW V, NEW base \in V, NEW step \in [1 .. n -> [V -> V]]
    PROVE  \E f \in [0 .. n -> V] : f[0] = base /\ \A i \in 1 .. n : f[i] = step[i][f[i - 1]]
<1>1. PICK it : Folding(it, n, V, base, step)
  BY FoldExists
<1>2. Stepping(it, n, V, base, step)
  BY <1>1 DEF Folding, Stepping
<1>3. Turns(it, n, V, base, step)
  BY <1>2, FoldChain
<1>4. /\ \A i \in 0 .. n : it[1 .. i] \in V
      /\ it[1 .. 0] = base
      /\ \A i \in 1 .. n : it[1 .. i] = step[i][it[1 .. i - 1]]
  BY <1>3 DEF Turns
<1> DEFINE f == [i \in 0 .. n |-> it[1 .. i]]
<1>5. f \in [0 .. n -> V]
  BY <1>4
<1>6. f[0] = base
  BY <1>4
<1>7. ASSUME NEW i \in 1 .. n PROVE f[i] = step[i][f[i - 1]]
  <2>1. i \in 0 .. n /\ i - 1 \in 0 .. n
    OBVIOUS
  <2> QED
    BY <1>4, <2>1
<1> HIDE DEF f
<1> QED
  BY <1>5, <1>6, <1>7

\* Numbers that are less than m apart have remainders of their own.
LEMMA OwnRemainders ==
    ASSUME NEW m \in Nat, m > 0, NEW a \in Nat, NEW b \in Nat, a < b, b - a < m
    PROVE  a % m # b % m
<1>1. ASSUME NEW x \in Nat
      PROVE  \E q \in Int : x = m * q + (x % m)
  <2>1. x = m * (x \div m) + (x % m) /\ x \div m \in Int
    OBVIOUS
  <2> QED
    BY <2>1
<1>2. PICK p \in Int : a = m * p + (a % m)
  BY <1>1
<1>3. PICK q \in Int : b = m * q + (b % m)
  BY <1>1
<1> SUFFICES ASSUME a % m = b % m PROVE FALSE
  OBVIOUS
<1>4. a % m \in Int /\ b % m \in Int
  OBVIOUS
<1>5. b - a = m * q - m * p
  BY <1>2, <1>3, <1>4
<1>6. b - a = m * (q - p)
  BY <1>5
<1>7. ASSUME NEW d \in Int PROVE (d >= 1 => m * d >= m) /\ (d <= 0 => m * d <= 0)
  OBVIOUS
<1>8. q - p \in Int /\ (q - p >= 1 \/ q - p <= 0)
  OBVIOUS
<1>9. m * (q - p) >= m \/ m * (q - p) <= 0
  BY <1>7, <1>8
<1> QED
  BY <1>6, <1>9

\* A remainder may be taken before something is added.
LEMMA RemainderFirst ==
    ASSUME NEW m \in Nat, m > 0, NEW a \in Nat, NEW k \in Nat
    PROVE  ((a % m) + k) % m = (a + k) % m
<1>1. PICK r, q \in Int : r = a % m /\ q = a \div m /\ a = m * q + r /\ r \in 0 .. m - 1
  <2>1. a = m * (a \div m) + (a % m) /\ a \div m \in Int /\ a % m \in 0 .. m - 1
    OBVIOUS
  <2> QED
    BY <2>1
<1>2. PICK s, p \in Int : s = (r + k) % m /\ p = (r + k) \div m /\ r + k = m * p + s
                          /\ s \in 0 .. m - 1
  <2>1. r + k \in Nat
    BY <1>1
  <2>2. PICK x \in Nat : x = r + k
    BY <2>1
  <2>3. x = m * (x \div m) + (x % m) /\ x \div m \in Int /\ x % m \in 0 .. m - 1
    OBVIOUS
  <2> QED
    BY <2>2, <2>3
<1>3. PICK t, o \in Int : t = (a + k) % m /\ o = (a + k) \div m /\ a + k = m * o + t
                          /\ t \in 0 .. m - 1
  <2>1. PICK x \in Nat : x = a + k
    OBVIOUS
  <2>2. x = m * (x \div m) + (x % m) /\ x \div m \in Int /\ x % m \in 0 .. m - 1
    OBVIOUS
  <2> QED
    BY <2>1, <2>2
<1>4. s - t = m * o - (m * q + m * p)
  <2>1. m * q \in Int /\ m * p \in Int /\ m * o \in Int
    OBVIOUS
  <2> QED
    BY <1>1, <1>2, <1>3, <2>1
<1>5. s - t = m * (o - (q + p))
  <2>1. m * (o - (q + p)) = m * o - (m * q + m * p)
    OBVIOUS
  <2> QED
    BY <1>4, <2>1
<1>6. ASSUME NEW d \in Int PROVE (d >= 1 => m * d >= m) /\ (d <= -1 => m * d <= 0 - m)
  OBVIOUS
<1>7. PICK d \in Int : d = o - (q + p)
  OBVIOUS
<1>8. d = 0
  <2>1. s - t < m /\ s - t > 0 - m /\ s - t = m * d
    BY <1>2, <1>3, <1>5, <1>7
  <2>2. d >= 1 \/ d <= -1 \/ d = 0
    OBVIOUS
  <2> QED
    BY <1>6, <2>1, <2>2
<1>9. s = t
  BY <1>2, <1>3, <1>5, <1>7, <1>8
<1> QED
  BY <1>1, <1>2, <1>3, <1>9
=============================================================================
