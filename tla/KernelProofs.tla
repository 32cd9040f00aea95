---------------------------- MODULE KernelProofs ----------------------------
(***************************************************************************)
(* Theorems about the kernels of assembly/, for values no run enumerates:    *)
(* the candidates of every packed word, the strides of the string scanners   *)
(* over texts of every length, every block of eight packed digits, and the   *)
(* writer for outputs of any size anywhere in memory, literals of any        *)
(* length and arrays of any number of doubles whose reservation fits in a    *)
(* word.                                                                     *)
(***************************************************************************)
EXTENDS Writer, Words, FiniteSetTheorems, FunctionTheorems, SequenceTheorems,
        WellFoundedInduction, TLAPS

-----------------------------------------------------------------------------
(* Packed words.                                                             *)

(* What goes up from lane to lane: it starts in a lane of `starts` and goes  *)
(* on through lanes of `passes`.  The lanes' values below it decide.         *)
IsRipple(f, starts, passes) ==
  f = [i \in 0..8 |-> IF i > 0 /\ (i - 1 \in starts \/ (i - 1 \in passes /\ f[i - 1] = 1))
                       THEN 1 ELSE 0]
Reached(starts, passes, i) ==
  \E j \in 0..(i - 1) : j \in starts /\ \A k \in (j + 1)..(i - 1) : k \in passes

(* One lane up: reached where the lane below starts it or passes it on.      *)
LEMMA ReachedStep ==
  ASSUME NEW starts, NEW passes, NEW n \in 0..7
  PROVE  Reached(starts, passes, n + 1)
           <=> n \in starts \/ (n \in passes /\ Reached(starts, passes, n))
<1>1. (n + 1) - 1 = n
  OBVIOUS
<1>2. ASSUME Reached(starts, passes, n + 1)
      PROVE  n \in starts \/ (n \in passes /\ Reached(starts, passes, n))
  <2>1. PICK j \in 0..n : j \in starts /\ \A k \in (j + 1)..n : k \in passes
    BY <1>1, <1>2 DEF Reached
  <2>2. CASE j = n
    BY <2>1, <2>2
  <2>3. CASE j # n
    <3>1. j \in 0..(n - 1) /\ n \in (j + 1)..n /\ \A k \in (j + 1)..(n - 1) : k \in (j + 1)..n
      BY <2>3
    <3>2. QED
      BY <2>1, <3>1 DEF Reached
  <2>4. QED
    BY <2>2, <2>3
<1>3. ASSUME n \in starts PROVE Reached(starts, passes, n + 1)
  <2>1. n \in 0..((n + 1) - 1) /\ \A k \in (n + 1)..((n + 1) - 1) : k \in passes
    OBVIOUS
  <2>2. QED
    BY <1>3, <2>1 DEF Reached
<1>4. ASSUME n \in passes, Reached(starts, passes, n) PROVE Reached(starts, passes, n + 1)
  <2>1. PICK j \in 0..(n - 1) : j \in starts /\ \A k \in (j + 1)..(n - 1) : k \in passes
    BY <1>4 DEF Reached
  <2>2. j \in 0..n /\ \A k \in (j + 1)..n : k \in (j + 1)..(n - 1) \/ k = n
    OBVIOUS
  <2>3. QED
    BY <1>1, <1>4, <2>1, <2>2 DEF Reached
<1>5. QED
  BY <1>2, <1>3, <1>4

(* A ripple is a function, 1 exactly where the lanes below reach.            *)
LEMMA RippleExists ==
  ASSUME NEW starts, NEW passes
  PROVE  \E f \in [0..8 -> {0, 1}] : IsRipple(f, starts, passes)
<1> DEFINE f == [i \in 0..8 |-> IF Reached(starts, passes, i) THEN 1 ELSE 0]
<1>1. ASSUME NEW i \in 0..8
      PROVE  f[i] = IF i > 0 /\ (i - 1 \in starts \/ (i - 1 \in passes /\ f[i - 1] = 1))
                    THEN 1 ELSE 0
  <2>1. CASE i = 0
    <3>1. ~ Reached(starts, passes, i)
      BY <2>1 DEF Reached
    <3>2. QED
      BY <2>1, <3>1
  <2>2. CASE i > 0
    <3>1. i - 1 \in 0..7 /\ i - 1 \in 0..8 /\ (i - 1) + 1 = i
      BY <2>2
    <3>2. Reached(starts, passes, i)
            <=> i - 1 \in starts \/ (i - 1 \in passes /\ Reached(starts, passes, i - 1))
      BY <3>1, ReachedStep
    <3>3. f[i - 1] = 1 <=> Reached(starts, passes, i - 1)
      BY <3>1
    <3>4. QED
      BY <2>2, <3>2, <3>3
  <2>3. QED
    BY <2>1, <2>2
<1>2. f \in [0..8 -> {0, 1}]
  OBVIOUS
<1>. HIDE DEF f
<1>3. f = [i \in 0..8 |-> f[i]]
  BY <1>2
<1>4. IsRipple(f, starts, passes)
  BY <1>1, <1>3 DEF IsRipple
<1>5. QED
  BY <1>2, <1>4

(* A lane too small borrows, and a lane with nothing to spare passes it on.  *)
IsBorrow(b, w, c) == b = [i \in 0..8 |-> IF i > 0 /\ w[i - 1] < c + b[i - 1] THEN 1 ELSE 0]
IsCarry(a, w, c) == a = [i \in 0..8 |-> IF i > 0 /\ w[i - 1] + c + a[i - 1] > 255 THEN 1 ELSE 0]

(* The borrow of a subtraction from every lane is such a ripple.             *)
LEMMA BorrowFacts ==
  ASSUME NEW w \in [Lanes -> Byte], NEW c \in Byte
  PROVE  IsBorrow(Borrow(w, c), w, c)
<1> DEFINE starts == {i \in Lanes : w[i] < c}
           passes == {i \in Lanes : w[i] <= c}
<1>1. PICK f \in [0..8 -> {0, 1}] : IsRipple(f, starts, passes)
  BY RippleExists
<1>2. ASSUME NEW i \in 0..8, i > 0
      PROVE  w[i - 1] < c + f[i - 1]
               <=> i - 1 \in starts \/ (i - 1 \in passes /\ f[i - 1] = 1)
  <2>. DEFINE n == i - 1
  <2>1. n \in Lanes /\ n \in 0..8
    BY <1>2 DEF Lanes
  <2>. HIDE DEF n
  <2>2. w[n] \in Nat /\ c \in Nat /\ (f[n] = 0 \/ f[n] = 1)
    BY <2>1 DEF Byte
  <2>3. QED
    BY <2>1, <2>2 DEF n
<1>. HIDE DEF starts, passes
<1>3. f = [i \in 0..8 |-> IF i > 0 /\ w[i - 1] < c + f[i - 1] THEN 1 ELSE 0]
  BY <1>1, <1>2 DEF IsRipple
<1>4. IsBorrow(f, w, c)
  BY <1>3 DEF IsBorrow
<1>5. Borrow(w, c) = CHOOSE b : IsBorrow(b, w, c)
  BY DEF Borrow, IsBorrow
<1>6. QED
  BY <1>4, <1>5

(* The carry of an addition to every lane is one too.                        *)
LEMMA CarryFacts ==
  ASSUME NEW w \in [Lanes -> Byte], NEW c \in Byte
  PROVE  IsCarry(Carry(w, c), w, c)
<1> DEFINE starts == {i \in Lanes : w[i] + c > 255}
           passes == {i \in Lanes : w[i] + c >= 255}
<1>1. PICK f \in [0..8 -> {0, 1}] : IsRipple(f, starts, passes)
  BY RippleExists
<1>2. ASSUME NEW i \in 0..8, i > 0
      PROVE  w[i - 1] + c + f[i - 1] > 255
               <=> i - 1 \in starts \/ (i - 1 \in passes /\ f[i - 1] = 1)
  <2>. DEFINE n == i - 1
  <2>1. n \in Lanes /\ n \in 0..8
    BY <1>2 DEF Lanes
  <2>. HIDE DEF n
  <2>2. w[n] \in Nat /\ c \in Nat /\ (f[n] = 0 \/ f[n] = 1)
    BY <2>1 DEF Byte
  <2>3. QED
    BY <2>1, <2>2 DEF n
<1>. HIDE DEF starts, passes
<1>3. f = [i \in 0..8 |-> IF i > 0 /\ w[i - 1] + c + f[i - 1] > 255 THEN 1 ELSE 0]
  BY <1>1, <1>2 DEF IsRipple
<1>4. IsCarry(f, w, c)
  BY <1>3 DEF IsCarry
<1>5. Carry(w, c) = CHOOSE a : IsCarry(a, w, c)
  BY DEF Carry, IsCarry
<1>6. QED
  BY <1>4, <1>5

(* The least of a set of numbers.                                            *)
LEMMA Least ==
  ASSUME NEW S, S \subseteq Nat, S # {}
  PROVE  Min(S) \in S /\ \A x \in S : Min(S) <= x
<1>1. PICK x \in S : \A y \in S : ~ (<<y, x>> \in OpToRel(<, Nat))
  BY WFMin, NatLessThanWellFounded
<1>2. \A y \in S : ~ (y < x)
  BY <1>1 DEF OpToRel
<1>3. \A y \in S : x <= y
  BY <1>2
<1>4. QED
  BY <1>3 DEF Min

(* Where a borrow comes in, some lane below was too small, and where a carry *)
(* comes in, some lane below was too large.                                  *)
LEMMA BorrowBelow ==
  ASSUME NEW w \in [Lanes -> Byte], NEW c \in Byte, NEW i \in Lanes
  PROVE  /\ Borrow(w, c)[i] \in {0, 1}
         /\ Borrow(w, c)[i] = 1 => \E j \in 0..(i - 1) : w[j] < c
<1> DEFINE b == Borrow(w, c)
           S == {k \in 0..8 : b[k] = 1}
<1>1. b = [k \in 0..8 |-> IF k > 0 /\ w[k - 1] < c + b[k - 1] THEN 1 ELSE 0]
  BY BorrowFacts DEF IsBorrow
<1>. HIDE DEF b
<1>2. \A k \in 0..8 : b[k] \in {0, 1} /\ (b[k] = 1 <=> k > 0 /\ w[k - 1] < c + b[k - 1])
  BY <1>1
<1>3. i \in 0..8
  BY DEF Lanes
<1>4. ASSUME b[i] = 1 PROVE \E j \in 0..(i - 1) : w[j] < c
  <2>1. S # {} /\ S \subseteq Nat /\ i \in S
    BY <1>3, <1>4
  <2>. DEFINE m == Min(S)
  <2>2. m \in S /\ m <= i /\ \A x \in S : m <= x
    BY <2>1, Least
  <2>. HIDE DEF m
  <2>3. m \in 0..8 /\ m > 0 /\ w[m - 1] < c + b[m - 1]
    BY <1>2, <2>2
  <2>4. m - 1 \in 0..8 /\ m - 1 \notin S /\ m - 1 \in 0..(i - 1)
    BY <1>3, <2>2, <2>3
  <2>5. b[m - 1] = 0
    BY <1>2, <2>4
  <2>6. QED
    BY <2>3, <2>4, <2>5 DEF Byte
<1>5. QED
  BY <1>2, <1>3, <1>4 DEF b

(* A carry comes up from a lane too large for the addition.                  *)
LEMMA CarryBelow ==
  ASSUME NEW w \in [Lanes -> Byte], NEW c \in Byte, NEW i \in Lanes
  PROVE  /\ Carry(w, c)[i] \in {0, 1}
         /\ Carry(w, c)[i] = 1 => \E j \in 0..(i - 1) : w[j] + c > 255
<1> DEFINE a == Carry(w, c)
           S == {k \in 0..8 : a[k] = 1}
<1>1. a = [k \in 0..8 |-> IF k > 0 /\ w[k - 1] + c + a[k - 1] > 255 THEN 1 ELSE 0]
  BY CarryFacts DEF IsCarry
<1>. HIDE DEF a
<1>2. \A k \in 0..8 : a[k] \in {0, 1} /\ (a[k] = 1 <=> k > 0 /\ w[k - 1] + c + a[k - 1] > 255)
  BY <1>1
<1>3. i \in 0..8
  BY DEF Lanes
<1>4. ASSUME a[i] = 1 PROVE \E j \in 0..(i - 1) : w[j] + c > 255
  <2>1. S # {} /\ S \subseteq Nat /\ i \in S
    BY <1>3, <1>4
  <2>. DEFINE m == Min(S)
  <2>2. m \in S /\ m <= i /\ \A x \in S : m <= x
    BY <2>1, Least
  <2>. HIDE DEF m
  <2>3. m \in 0..8 /\ m > 0 /\ w[m - 1] + c + a[m - 1] > 255
    BY <1>2, <2>2
  <2>4. m - 1 \in 0..8 /\ m - 1 \notin S /\ m - 1 \in 0..(i - 1) /\ m - 1 \in Lanes
    BY <1>3, <2>2, <2>3 DEF Lanes
  <2>5. a[m - 1] = 0 /\ w[m - 1] \in Nat /\ c \in Nat
    BY <1>2, <2>4 DEF Byte
  <2>6. QED
    BY <2>3, <2>4, <2>5
<1>5. QED
  BY <1>2, <1>3, <1>4 DEF a

-----------------------------------------------------------------------------
(* Subtracting c from every lane marks the lanes below c, and the least lane *)
(* it marks is one of them: what borrows reaches a lane from below.          *)
Below(w, c) == {i \in Lanes : w[i] < c}

(* The candidates for the lanes below c: the first of them is true.          *)
LEMMA LowLanes ==
  ASSUME NEW w \in [Lanes -> Byte], NEW c \in 1..127
  PROVE  FirstTrue(Below(w, c), High(Minus(w, c)) \ High(w))
<1> DEFINE b == Borrow(w, c)
           found == High(Minus(w, c)) \ High(w)
<1>1. c \in Byte
  BY DEF Byte
<1>2. \A i \in Lanes : b[i] \in {0, 1} /\ (b[i] = 1 => \E j \in 0..(i - 1) : w[j] < c)
  BY <1>1, BorrowBelow
<1>3. Minus(w, c) = [i \in Lanes |-> (w[i] - c - b[i]) % 256]
  BY DEF Minus
<1>. HIDE DEF b
<1>4. found = {i \in Lanes : (w[i] - c - b[i]) % 256 >= 128 /\ ~ (w[i] >= 128)}
  BY <1>3 DEF High
<1>. HIDE DEF found
<1>5. ASSUME NEW i \in Lanes, w[i] < c PROVE i \in found
  <2>1. w[i] \in 0..126 /\ b[i] \in 0..1
    BY <1>2, <1>5 DEF Byte
  <2>2. w[i] - c - b[i] \in (-128)..(-1)
    BY <1>5, <2>1
  <2>3. \A n \in (-128)..(-1) : n % 256 >= 128
    OBVIOUS
  <2>4. (w[i] - c - b[i]) % 256 >= 128
    BY <2>2, <2>3
  <2>5. QED
    BY <1>4, <2>1, <2>4
<1>6. ASSUME found # {} PROVE Min(found) \in Below(w, c)
  <2> DEFINE m == Min(found)
  <2>1. found \subseteq Nat
    BY <1>4 DEF Lanes
  <2>2. m \in found /\ \A x \in found : m <= x
    BY <1>6, <2>1, Least
  <2>. HIDE DEF m
  <2>3. m \in Lanes /\ m \in Int /\ w[m] \in 0..127 /\ (w[m] - c - b[m]) % 256 >= 128
    BY <1>4, <2>2 DEF Lanes, Byte
  <2>4. b[m] = 0
    <3>1. SUFFICES ASSUME b[m] = 1 PROVE FALSE
      BY <1>2, <2>3
    <3>2. PICK j \in 0..(m - 1) : w[j] < c
      BY <1>2, <2>3, <3>1
    <3>3. j \in Lanes /\ j < m
      BY <2>3, <3>2 DEF Lanes
    <3>4. j \in found
      BY <1>5, <3>2, <3>3
    <3>5. QED
      BY <2>2, <2>3, <3>3, <3>4 DEF Lanes
  <2>5. w[m] < c
    BY <2>3, <2>4
  <2>6. QED
    BY <2>3, <2>5 DEF Below, m
<1>7. Below(w, c) \subseteq found
  BY <1>5 DEF Below
<1>8. QED
  BY <1>6, <1>7 DEF FirstTrue, found

(* Candidates for two sets of lanes are candidates for their union.          *)
LEMMA UnionFirst ==
  ASSUME NEW S1, NEW S2, NEW F1, NEW F2, F1 \subseteq Lanes, F2 \subseteq Lanes,
         FirstTrue(S1, F1), FirstTrue(S2, F2)
  PROVE  FirstTrue(S1 \union S2, F1 \union F2)
<1> DEFINE F == F1 \union F2
<1>1. SUFFICES ASSUME F # {} PROVE Min(F) \in S1 \union S2
  BY DEF FirstTrue
<1>2. F \subseteq Nat /\ F1 \subseteq Nat /\ F2 \subseteq Nat
  BY DEF Lanes
<1>3. Min(F) \in F /\ \A x \in F : Min(F) <= x
  BY <1>1, <1>2, Least
<1>. HIDE DEF F
<1>4. ASSUME NEW G \in SUBSET F, Min(F) \in G PROVE Min(G) = Min(F)
  <2> DEFINE m == Min(F)
             n == Min(G)
  <2>1. G \subseteq Nat
    BY <1>2
  <2>2. n \in G /\ n <= m
    BY <1>4, <2>1, Least
  <2>3. m \in F /\ m <= n
    BY <1>3, <1>4, <2>2
  <2>. HIDE DEF m, n
  <2>4. m \in Int /\ n \in Int
    BY <1>2, <2>1, <2>2, <2>3
  <2>5. n = m
    BY <2>2, <2>3, <2>4
  <2>6. QED
    BY <2>5 DEF m, n
<1>5. CASE Min(F) \in F1
  BY <1>4, <1>5 DEF F, FirstTrue
<1>6. CASE Min(F) \in F2
  BY <1>4, <1>6 DEF F, FirstTrue
<1>7. QED
  BY <1>3, <1>5, <1>6 DEF F

(* Candidates are lanes.                                                     *)
LEMMA Candidates ==
  ASSUME NEW w \in [Lanes -> Byte], NEW c
  PROVE  /\ High(w) \subseteq Lanes
         /\ High(Minus(w, c)) \subseteq Lanes
BY DEF High, Minus

(* A byte is zero after the exclusive or with c exactly if it is c.          *)
LEMMA XorFacts ==
  ASSUME NEW b \in Byte, NEW c \in Byte
  PROVE  XorByte(b, c) \in Byte /\ (XorByte(b, c) = 0 <=> b = c)
<1>1. b \in 0..255 /\ c \in 0..255
  BY DEF Byte
<1>2. /\ Flip(b, c, 1) \in {0, 1} /\ Flip(b, c, 2) \in {0, 2} /\ Flip(b, c, 4) \in {0, 4}
      /\ Flip(b, c, 8) \in {0, 8} /\ Flip(b, c, 16) \in {0, 16} /\ Flip(b, c, 32) \in {0, 32}
      /\ Flip(b, c, 64) \in {0, 64} /\ Flip(b, c, 128) \in {0, 128}
  BY <1>1 DEF Flip
<1>3. XorByte(b, c) \in Byte
  BY <1>2 DEF XorByte, Byte
<1>4. ASSUME b = c PROVE XorByte(b, c) = 0
  <2>1. \A n \in {1, 2, 4, 8, 16, 32, 64, 128} : (b \div n + b \div n) % 2 = 0
    BY <1>1
  <2>2. QED
    BY <1>4, <2>1 DEF XorByte, Flip
<1>5. ASSUME XorByte(b, c) = 0 PROVE b = c
  <2>1. /\ Flip(b, c, 1) = 0 /\ Flip(b, c, 2) = 0 /\ Flip(b, c, 4) = 0
        /\ Flip(b, c, 8) = 0 /\ Flip(b, c, 16) = 0 /\ Flip(b, c, 32) = 0
        /\ Flip(b, c, 64) = 0 /\ Flip(b, c, 128) = 0
    BY <1>2, <1>5 DEF XorByte
  <2>2. /\ (b + c) % 2 = 0 /\ (b \div 2 + c \div 2) % 2 = 0
        /\ (b \div 4 + c \div 4) % 2 = 0 /\ (b \div 8 + c \div 8) % 2 = 0
    BY <1>1, <2>1 DEF Flip
  <2>3. /\ (b \div 16 + c \div 16) % 2 = 0 /\ (b \div 32 + c \div 32) % 2 = 0
        /\ (b \div 64 + c \div 64) % 2 = 0 /\ (b \div 128 + c \div 128) % 2 = 0
    BY <1>1, <2>1 DEF Flip
  <2>4. \A x, y \in Nat : x \div 2 = y \div 2 /\ (x + y) % 2 = 0 => x = y
    OBVIOUS
  <2>5. ASSUME NEW n \in {1, 2, 4, 8, 16, 32, 64},
               b \div (2 * n) = c \div (2 * n), (b \div n + c \div n) % 2 = 0
        PROVE  b \div n = c \div n
    <3>1. \A x \in 0..255 : x \div n \in Nat /\ (x \div n) \div 2 = x \div (2 * n)
      OBVIOUS
    <3> DEFINE x == b \div n
               y == c \div n
    <3>2. x \in Nat /\ y \in Nat /\ x \div 2 = y \div 2
      BY <1>1, <2>5, <3>1
    <3>3. (x + y) % 2 = 0
      BY <2>5
    <3>. HIDE DEF x, y
    <3>4. x = y
      BY <2>4, <3>2, <3>3
    <3>5. QED
      BY <3>4 DEF x, y
  <2>6. b \div 128 = c \div 128
    BY <1>1, <2>3
  <2>7. b \div 64 = c \div 64
    BY <2>2, <2>3, <2>5, <2>6
  <2>8. b \div 32 = c \div 32
    BY <2>2, <2>3, <2>5, <2>7
  <2>9. b \div 16 = c \div 16
    BY <2>2, <2>3, <2>5, <2>8
  <2>10. b \div 8 = c \div 8
    BY <2>2, <2>3, <2>5, <2>9
  <2>11. b \div 4 = c \div 4
    BY <2>2, <2>3, <2>5, <2>10
  <2>12. b \div 2 = c \div 2
    BY <2>2, <2>3, <2>5, <2>11
  <2>13. QED
    BY <1>1, <2>2, <2>4, <2>12
<1>6. QED
  BY <1>3, <1>4, <1>5

(* The candidates for a zero byte.                                           *)
LEMMA ZeroLanes ==
  ASSUME NEW w \in [Lanes -> Byte]
  PROVE  FirstTrue(Holding(w, {0}), ZeroCandidates(w)) /\ ZeroCandidates(w) \subseteq Lanes
<1>1. Below(w, 1) = Holding(w, {0})
  BY DEF Below, Holding, Byte
<1>2. 1 \in 1..127
  OBVIOUS
<1>3. QED
  BY <1>1, <1>2, LowLanes, Candidates DEF ZeroCandidates

(* The candidates for a byte c.                                              *)
LEMMA EqualLanes ==
  ASSUME NEW w \in [Lanes -> Byte], NEW c \in Byte
  PROVE  /\ FirstTrue(Holding(w, {c}), EqualCandidates(w, XorTable(c)))
         /\ EqualCandidates(w, XorTable(c)) \subseteq Lanes
<1> DEFINE x == [i \in Lanes |-> XorTable(c)[w[i]]]
<1>1. \A i \in Lanes : x[i] \in Byte /\ (x[i] = 0 <=> w[i] = c)
  BY XorFacts DEF XorTable
<1>2. x \in [Lanes -> Byte]
  BY <1>1
<1>3. EqualCandidates(w, XorTable(c)) = ZeroCandidates(x)
  BY DEF EqualCandidates
<1>. HIDE DEF x
<1>4. Holding(x, {0}) = Holding(w, {c})
  BY <1>1 DEF Holding
<1>5. QED
  BY <1>2, <1>3, <1>4, ZeroLanes

(* The tables of the bytes the kernels look for.                             *)
LEMMA TableFacts ==
  /\ Quote \in Byte /\ Backslash \in Byte /\ OpenBracket \in Byte /\ CloseBracket \in Byte
  /\ QuoteXor = XorTable(Quote) /\ SlashXor = XorTable(Backslash)
  /\ OpenXor = XorTable(OpenBracket) /\ CloseXor = XorTable(CloseBracket)
BY DEF Quote, Backslash, OpenBracket, CloseBracket, Byte, QuoteXor, SlashXor, OpenXor, CloseXor

(* Lanes that hold a byte of one set or of another.                          *)
LEMMA HoldingUnion ==
  ASSUME NEW w, NEW A, NEW B
  PROVE  Holding(w, A) \union Holding(w, B) = Holding(w, A \union B)
BY DEF Holding

(* Quotes and backslashes.                                                   *)
LEMMA QuoteLanes ==
  ASSUME NEW w \in [Lanes -> Byte]
  PROVE  /\ FirstTrue(Holding(w, {Quote, Backslash}), QuoteOrBackslash(w))
         /\ QuoteOrBackslash(w) \subseteq Lanes
<1>1. FirstTrue(Holding(w, {Quote}), EqualCandidates(w, QuoteXor))
      /\ EqualCandidates(w, QuoteXor) \subseteq Lanes
  BY TableFacts, EqualLanes
<1>2. FirstTrue(Holding(w, {Backslash}), EqualCandidates(w, SlashXor))
      /\ EqualCandidates(w, SlashXor) \subseteq Lanes
  BY TableFacts, EqualLanes
<1>3. Holding(w, {Quote}) \union Holding(w, {Backslash}) = Holding(w, {Quote, Backslash})
  BY DEF Holding
<1>4. FirstTrue(Holding(w, {Quote}) \union Holding(w, {Backslash}),
                EqualCandidates(w, QuoteXor) \union EqualCandidates(w, SlashXor))
  BY <1>1, <1>2, UnionFirst
<1>5. QED
  BY <1>1, <1>2, <1>3, <1>4 DEF QuoteOrBackslash

(* Control characters, by subtracting a space from every lane.               *)
LEMMA ControlLanes ==
  ASSUME NEW w \in [Lanes -> Byte]
  PROVE  /\ FirstTrue(Holding(w, Controls), High(Minus(w, Space)) \ High(w))
         /\ High(Minus(w, Space)) \ High(w) \subseteq Lanes
<1>1. Below(w, Space) = Holding(w, Controls)
  BY DEF Below, Holding, Controls, Space, Byte
<1>2. Space \in 1..127
  BY DEF Space
<1>3. QED
  BY <1>1, <1>2, LowLanes, Candidates

(* The bytes that stop a scan of text known to be valid.                     *)
LEMMA TrustedLanes ==
  ASSUME NEW w \in [Lanes -> Byte]
  PROVE  /\ FirstTrue(Holding(w, {Quote, Backslash} \union Controls), TrustedSpecial(w))
         /\ TrustedSpecial(w) \subseteq Lanes
<1>1. FirstTrue(Holding(w, {Quote, Backslash}) \union Holding(w, Controls),
                QuoteOrBackslash(w) \union (High(Minus(w, Space)) \ High(w)))
  BY QuoteLanes, ControlLanes, UnionFirst
<1>2. Holding(w, {Quote, Backslash}) \union Holding(w, Controls)
        = Holding(w, {Quote, Backslash} \union Controls)
  BY HoldingUnion
<1>3. QED
  BY <1>1, <1>2, QuoteLanes, ControlLanes DEF TrustedSpecial

(* Those that stop a scan that has to validate what is not ASCII.            *)
LEMMA StrictLanes ==
  ASSUME NEW w \in [Lanes -> Byte]
  PROVE  /\ FirstTrue(Holding(w, {Quote, Backslash} \union Controls \union 128..255), StrictSpecial(w))
         /\ StrictSpecial(w) \subseteq Lanes
<1>1. High(w) = Holding(w, 128..255)
  BY DEF High, Holding, Byte
<1>2. High(w) \subseteq Lanes
  BY DEF High
<1>3. FirstTrue(Holding(w, 128..255), High(w))
  <2>1. High(w) # {} => Min(High(w)) \in High(w)
    BY <1>2, Least DEF Lanes
  <2>2. QED
    BY <1>1, <2>1 DEF FirstTrue
<1>4. QED
  BY <1>2, <1>3, TrustedLanes, HoldingUnion, UnionFirst DEF StrictSpecial

(* The same control characters, by clearing the low five bits.               *)
LEMMA EscapableLanes ==
  ASSUME NEW w \in [Lanes -> Byte]
  PROVE  FirstTrue(Holding(w, {Quote, Backslash} \union Controls), Escapable(w))
<1> DEFINE x == [i \in Lanes |-> w[i] - (w[i] % 32)]
<1>1. ASSUME NEW i \in Lanes PROVE x[i] \in Byte /\ (x[i] = 0 <=> w[i] \in 0..31)
  <2>1. w[i] \in 0..255
    BY DEF Byte
  <2>2. QED
    BY <2>1 DEF Byte
<1>2. x \in [Lanes -> Byte]
  BY <1>1
<1>3. Escapable(w) = QuoteOrBackslash(w) \union ZeroCandidates(x)
  BY DEF Escapable
<1>. HIDE DEF x
<1>4. Holding(x, {0}) = Holding(w, Controls)
  BY <1>1 DEF Holding, Controls
<1>5. QED
  BY <1>2, <1>3, <1>4, ZeroLanes, QuoteLanes, HoldingUnion, UnionFirst

(* Brackets, braces and quotes: a brace loses bit 5 and is a bracket.        *)
LEMMA StructuralLanes ==
  ASSUME NEW w \in [Lanes -> Byte]
  PROVE  FirstTrue(Holding(w, {Quote, OpenBracket, CloseBracket, 123, 125}), StructuralOrQuote(w))
<1> DEFINE x == [i \in Lanes |-> Folded[w[i]]]
<1>1. ASSUME NEW i \in Lanes
      PROVE  /\ x[i] \in Byte
             /\ x[i] = OpenBracket <=> w[i] \in {OpenBracket, 123}
             /\ x[i] = CloseBracket <=> w[i] \in {CloseBracket, 125}
  <2>1. w[i] \in 0..255 /\ x[i] = w[i] - 32 * ((w[i] \div 32) % 2)
    BY DEF Byte, Folded
  <2>2. QED
    BY <2>1 DEF Byte, OpenBracket, CloseBracket
<1>2. x \in [Lanes -> Byte]
  BY <1>1
<1>3. StructuralOrQuote(w) = (EqualCandidates(x, OpenXor) \union EqualCandidates(x, CloseXor))
                               \union EqualCandidates(w, QuoteXor)
  BY DEF StructuralOrQuote
<1>. HIDE DEF x
<1>4. /\ FirstTrue(Holding(x, {OpenBracket}), EqualCandidates(x, OpenXor))
      /\ EqualCandidates(x, OpenXor) \subseteq Lanes
      /\ FirstTrue(Holding(x, {CloseBracket}), EqualCandidates(x, CloseXor))
      /\ EqualCandidates(x, CloseXor) \subseteq Lanes
      /\ FirstTrue(Holding(w, {Quote}), EqualCandidates(w, QuoteXor))
      /\ EqualCandidates(w, QuoteXor) \subseteq Lanes
  BY <1>2, TableFacts, EqualLanes
<1>5. FirstTrue(Holding(x, {OpenBracket}) \union Holding(x, {CloseBracket}),
                EqualCandidates(x, OpenXor) \union EqualCandidates(x, CloseXor))
  BY <1>4, UnionFirst
<1>6. FirstTrue((Holding(x, {OpenBracket}) \union Holding(x, {CloseBracket})) \union Holding(w, {Quote}),
                StructuralOrQuote(w))
  <2> DEFINE F == EqualCandidates(x, OpenXor) \union EqualCandidates(x, CloseXor)
             S == Holding(x, {OpenBracket}) \union Holding(x, {CloseBracket})
  <2>1. F \subseteq Lanes /\ FirstTrue(S, F)
    BY <1>4, <1>5
  <2>2. StructuralOrQuote(w) = F \union EqualCandidates(w, QuoteXor)
    BY <1>3
  <2>. HIDE DEF F, S
  <2>3. FirstTrue(S \union Holding(w, {Quote}), F \union EqualCandidates(w, QuoteXor))
    BY <1>4, <2>1, UnionFirst
  <2>4. QED
    BY <2>2, <2>3 DEF S
<1>7. (Holding(x, {OpenBracket}) \union Holding(x, {CloseBracket})) \union Holding(w, {Quote})
        = Holding(w, {Quote, OpenBracket, CloseBracket, 123, 125})
  BY <1>1 DEF Holding
<1>8. QED
  BY <1>6, <1>7

(* In every word of eight bytes the masks of swar.ts and of the scanners miss*)
(* no byte they look for and, though a borrow may mark a lane above it, the  *)
(* lowest lane they mark is a true one: the kernels act on it without looking*)
(* at the byte again.                                                        *)
THEOREM CandidatesOfWords ==
  \A w \in [Lanes -> Byte] : CandidatesTrue(w)
BY QuoteLanes, TrustedLanes, StrictLanes, EscapableLanes, StructuralLanes DEF CandidatesTrue

-----------------------------------------------------------------------------
(* The mask of nonDigitMask8 is empty exactly when all eight bytes of the    *)
(* word are ASCII digits, whatever borrows and carries do between the lanes. *)
THEOREM DigitsOfWords ==
  \A w \in [Lanes -> Byte] : NonDigits(w) = {} <=> \A i \in Lanes : w[i] \in Digits
<1>1. SUFFICES ASSUME NEW w \in [Lanes -> Byte]
               PROVE  NonDigits(w) = {} <=> \A i \in Lanes : w[i] \in Digits
  OBVIOUS
<1> DEFINE b == Borrow(w, 48)
           a == Carry(w, 70)
<1>2. 48 \in Byte /\ 70 \in Byte
  BY DEF Byte
<1>3. \A i \in Lanes : b[i] \in {0, 1} /\ (b[i] = 1 => \E j \in 0..(i - 1) : w[j] < 48)
  BY <1>2, BorrowBelow
<1>4. \A i \in Lanes : a[i] \in {0, 1} /\ (a[i] = 1 => \E j \in 0..(i - 1) : w[j] + 70 > 255)
  BY <1>2, CarryBelow
<1>5. /\ Minus(w, 48) = [i \in Lanes |-> (w[i] - 48 - b[i]) % 256]
      /\ Plus(w, 70) = [i \in Lanes |-> (w[i] + 70 + a[i]) % 256]
  BY DEF Minus, Plus
<1>. HIDE DEF a, b
<1>6. NonDigits(w) = {i \in Lanes : (w[i] - 48 - b[i]) % 256 >= 128}
                       \union {i \in Lanes : (w[i] + 70 + a[i]) % 256 >= 128}
  BY <1>5 DEF NonDigits, High
(* Where every lane below holds a digit, nothing comes in from below.        *)
<1>7. ASSUME NEW i \in Lanes, \A j \in 0..(i - 1) : w[j] \in Digits
      PROVE  b[i] = 0 /\ a[i] = 0 /\ (i \in NonDigits(w) <=> w[i] \notin Digits)
  <2>1. \A j \in 0..(i - 1) : ~ (w[j] < 48) /\ ~ (w[j] + 70 > 255)
    BY <1>7 DEF Digits
  <2>2. b[i] = 0 /\ a[i] = 0
    BY <1>3, <1>4, <2>1
  <2>3. w[i] \in 0..255
    BY DEF Byte
  <2>4. (w[i] - 48) % 256 >= 128 \/ (w[i] + 70) % 256 >= 128 <=> ~ (w[i] \in 48..57)
    BY <2>3
  <2>5. w[i] - 48 - b[i] = w[i] - 48 /\ w[i] + 70 + a[i] = w[i] + 70
    BY <2>2, <2>3
  <2>6. QED
    BY <1>6, <2>2, <2>4, <2>5 DEF Digits
<1>8. ASSUME \A i \in Lanes : w[i] \in Digits PROVE NonDigits(w) = {}
  <2>1. \A i \in Lanes : \A j \in 0..(i - 1) : j \in Lanes
    BY DEF Lanes
  <2>2. \A i \in Lanes : i \notin NonDigits(w)
    BY <1>7, <1>8, <2>1
  <2>3. QED
    BY <1>6, <2>2
<1>9. ASSUME NonDigits(w) = {} PROVE \A i \in Lanes : w[i] \in Digits
  <2> DEFINE S == {i \in Lanes : w[i] \notin Digits}
  <2>1. SUFFICES ASSUME S # {} PROVE FALSE
    OBVIOUS
  <2> DEFINE m == Min(S)
  <2>2. S \subseteq Nat
    BY DEF Lanes
  <2>3. m \in S /\ \A x \in S : m <= x
    BY <2>1, <2>2, Least
  <2>. HIDE DEF m
  <2>4. \A j \in 0..(m - 1) : j \in Lanes /\ j \notin S
    BY <2>3 DEF Lanes
  <2>5. QED
    BY <1>7, <1>9, <2>3, <2>4
<1>10. QED
  BY <1>8, <1>9

-----------------------------------------------------------------------------
(* Strides over a text.                                                      *)

(* F holds the candidates of the block of text s at q: none if no byte of it *)
(* is in B, and otherwise the first of them is the block's first byte in B.  *)
FirstOf(F, s, q, width, B) ==
  /\ F \subseteq 0..(width - 1)
  /\ F = {} => \A i \in 0..(width - 1) : s[q + i] \notin B
  /\ F # {} => s[q + Min(F)] \in B /\ \A i \in 0..(Min(F) - 1) : s[q + i] \notin B

(* Words and strides over candidates given as functions.                     *)
FirstWord(g, n) ==
  LET At(k) == {8 * k + i : i \in g[k]}
      words == {k \in 0..(n - 1) : At(k) # {}}
  IN IF words = {} THEN {} ELSE At(Min(words))
Strides(s, p, width, h) ==
  LET blocks == {p + k * width : k \in 0..((Len(s) + 1 - p) \div width - 1)}
      stops == {b \in blocks : h[b] # {}}
  IN IF stops = {} THEN p + Cardinality(blocks) * width
     ELSE Min(stops) + Min(h[Min(stops)])

(* The first word with candidates answers for a block of several.            *)
LEMMA FirstWordFacts ==
  ASSUME NEW s, NEW q \in Nat, NEW n \in Nat \ {0}, NEW B, NEW g,
         \A k \in 0..(n - 1) : FirstOf(g[k], s, q + 8 * k, 8, B)
  PROVE  FirstOf(FirstWord(g, n), s, q, 8 * n, B)
<1> DEFINE At(k) == {8 * k + i : i \in g[k]}
           words == {k \in 0..(n - 1) : At(k) # {}}
           F == FirstWord(g, n)
<1>1. F = IF words = {} THEN {} ELSE At(Min(words))
  BY DEF FirstWord
<1>2. \A k \in 0..(n - 1) : g[k] \subseteq 0..7
  BY DEF FirstOf
<1>3. ASSUME NEW k \in 0..(n - 1), k \notin words
      PROVE  \A i \in 0..7 : s[(q + 8 * k) + i] \notin B
  <2>1. g[k] = {}
    BY <1>3
  <2>2. FirstOf(g[k], s, q + 8 * k, 8, B) /\ 8 - 1 = 7
    OBVIOUS
  <2>3. QED
    BY <2>1, <2>2 DEF FirstOf
<1>. HIDE DEF F
(* The lanes of the words below k are those of the block below 8 * k.        *)
<1>4. ASSUME NEW j \in Nat, NEW k \in Nat, j < 8 * k, \A l \in 0..(k - 1) : l \in 0..(n - 1) /\ l \notin words
      PROVE  s[q + j] \notin B
  <2> DEFINE l == j \div 8
             i == j % 8
  <2>1. l \in 0..(k - 1) /\ i \in 0..7 /\ j = 8 * l + i
    BY <1>4
  <2>. HIDE DEF l, i
  <2>2. s[(q + 8 * l) + i] \notin B
    BY <1>3, <1>4, <2>1
  <2>3. (q + 8 * l) + i = q + j
    BY <2>1
  <2>4. QED
    BY <2>2, <2>3
<1>5. CASE words = {}
  <2>1. F = {}
    BY <1>1, <1>5
  <2>2. \A j \in 0..(8 * n - 1) : s[q + j] \notin B
    BY <1>4, <1>5
  <2>3. QED
    BY <2>1, <2>2 DEF FirstOf, F
<1>6. CASE words # {}
  <2> DEFINE m == Min(words)
  <2>0. words \subseteq Nat
    OBVIOUS
  <2>1. m \in words /\ \A x \in words : m <= x
    BY <1>6, <2>0, Least
  <2>2. F = At(m)
    BY <1>1, <1>6
  <2>. HIDE DEF m
  <2>3. m \in 0..(n - 1) /\ g[m] # {} /\ g[m] \subseteq 0..7
    BY <1>2, <2>1
  <2>4. FirstOf(g[m], s, q + 8 * m, 8, B)
    BY <2>3
  <2> DEFINE i == Min(g[m])
  <2>5. i \in g[m] /\ \A x \in g[m] : i <= x
    BY <2>3, Least
  <2>6. s[(q + 8 * m) + i] \in B /\ \A x \in 0..(i - 1) : s[(q + 8 * m) + x] \notin B
    BY <2>3, <2>4 DEF FirstOf
  <2>. HIDE DEF i
  <2>7. i \in 0..7
    BY <2>3, <2>5
  <2>8. F # {} /\ F \subseteq 0..(8 * n - 1)
    BY <2>2, <2>3
  <2>9. Min(F) = 8 * m + i
    <3>1. 8 * m + i \in F /\ \A x \in F : 8 * m + i <= x
      BY <2>2, <2>3, <2>5, <2>7
    <3>0. F \subseteq Nat
      BY <2>8
    <3>2. Min(F) \in F /\ \A x \in F : Min(F) <= x
      BY <2>8, <3>0, Least
    <3> DEFINE a == Min(F)
    <3>3. a \in F /\ a <= 8 * m + i /\ 8 * m + i <= a
      BY <3>1, <3>2
    <3>. HIDE DEF a
    <3>4. a \in Nat /\ 8 * m + i \in Nat
      BY <2>3, <2>7, <2>8, <3>3
    <3>5. a = 8 * m + i
      BY <3>3, <3>4
    <3>6. QED
      BY <3>5 DEF a
  <2>10. s[q + (8 * m + i)] \in B
    <3>1. q + (8 * m + i) = (q + 8 * m) + i
      BY <2>3, <2>7
    <3>2. QED
      BY <2>6, <3>1
  <2>11. ASSUME NEW j \in 0..(8 * m + i - 1) PROVE s[q + j] \notin B
    <3>1. CASE j < 8 * m
      <4>1. \A l \in 0..(m - 1) : l \in 0..(n - 1) /\ l \notin words
        BY <2>1, <2>3
      <4>2. QED
        BY <1>4, <2>3, <3>1, <4>1
    <3>2. CASE j >= 8 * m
      <4>1. j - 8 * m \in 0..(i - 1) /\ (q + 8 * m) + (j - 8 * m) = q + j
        BY <2>3, <2>7, <3>2
      <4>2. QED
        BY <2>6, <4>1
    <3>3. QED
      BY <2>3, <2>7, <3>1, <3>2
  <2>12. QED
    <3>1. s[q + Min(F)] \in B
      BY <2>9, <2>10
    <3>2. ASSUME NEW j \in 0..(Min(F) - 1) PROVE s[q + j] \notin B
      <4>1. j \in 0..(8 * m + i - 1)
        BY <2>3, <2>7, <2>9
      <4>2. QED
        BY <2>11, <4>1
    <3>3. FirstOf(F, s, q, 8 * n, B)
      BY <2>8, <3>1, <3>2 DEF FirstOf
    <3>4. QED
      BY <3>3 DEF F
<1>7. QED
  BY <1>5, <1>6

BlockWidths == {8, 16, 32}

(* A stride of so many blocks has so many places.                            *)
LEMMA BlockCount ==
  ASSUME NEW p \in Nat, NEW N \in Nat, NEW width \in BlockWidths
  PROVE  Cardinality({p + k * width : k \in 0..(N - 1)}) = N
<1> DEFINE S == {p + k * width : k \in 0..(N - 1)}
           f == [k \in 1..N |-> p + (k - 1) * width]
<1>1. \A k, l \in Nat : k * width = l * width => k = l
  BY DEF BlockWidths
<1>2. f \in [1..N -> S]
  OBVIOUS
<1>3. \A k, l \in 1..N : f[k] = f[l] => k = l
  <2>1. SUFFICES ASSUME NEW k \in 1..N, NEW l \in 1..N, f[k] = f[l] PROVE k = l
    OBVIOUS
  <2>2. CASE width = 8
    BY <2>1, <2>2
  <2>3. CASE width = 16
    BY <2>1, <2>3
  <2>4. CASE width = 32
    BY <2>1, <2>4
  <2>5. QED
    BY <2>2, <2>3, <2>4 DEF BlockWidths
<1>4. \A x \in S : \E k \in 1..N : f[k] = x
  <2>1. SUFFICES ASSUME NEW k \in 0..(N - 1) PROVE \E l \in 1..N : f[l] = p + k * width
    OBVIOUS
  <2>2. k + 1 \in 1..N /\ (k + 1) - 1 = k
    OBVIOUS
  <2>3. QED
    BY <2>2
<1>. HIDE DEF f, S
<1>5. f \in Bijection(1..N, S)
  BY <1>2, <1>3, <1>4, Fun_IsBij
<1>6. Cardinality(S) = N
  BY <1>5, FS_CountingElements DEF ExistsBijection
<1>7. QED
  BY <1>6 DEF S

(* The bytes of the blocks, for the three widths of the kernels.             *)
LEMMA BlockPlaces ==
  ASSUME NEW p \in Nat, NEW L \in Nat, p <= L + 1, NEW width \in BlockWidths
  PROVE  LET N == (L + 1 - p) \div width
         IN /\ N \in Nat /\ p + N * width <= L + 1 /\ L + 1 - (p + N * width) < width
            /\ \A k \in 0..(N - 1) : p + k * width \in p..(L + 1 - width)
            /\ \A j \in Nat : j >= p /\ j < p + N * width =>
                 LET l == (j - p) \div width
                 IN l \in 0..(N - 1) /\ j - (p + l * width) \in 0..(width - 1)
<1>1. CASE width = 8
  BY <1>1
<1>2. CASE width = 16
  BY <1>2
<1>3. CASE width = 32
  BY <1>3
<1>4. QED
  BY <1>1, <1>2, <1>3 DEF BlockWidths

(* The blocks a stride loads lie inside the text.                            *)
LEMMA BlocksInside ==
  ASSUME NEW L \in Nat, NEW p \in 1..(L + 1), NEW width \in BlockWidths
  PROVE  {p + k * width : k \in 0..((L + 1 - p) \div width - 1)} \subseteq p..(L + 1 - width)
<1> DEFINE N == (L + 1 - p) \div width
<1>1. \A k \in 0..(N - 1) : p + k * width \in p..(L + 1 - width)
  <2>1. p \in Nat /\ p <= L + 1
    OBVIOUS
  <2>2. QED
    BY <2>1, BlockPlaces
<1>. HIDE DEF N
<1>2. {p + k * width : k \in 0..(N - 1)} \subseteq p..(L + 1 - width)
  BY <1>1
<1>3. QED
  BY <1>2 DEF N

(* What a stride over exact first candidates skips and where it stops.       *)
LEMMA StridesStop ==
  ASSUME NEW s, Len(s) \in Nat, NEW p \in 1..(Len(s) + 1), NEW width \in BlockWidths, NEW B, NEW h,
         \A q \in p..(Len(s) + 1 - width) : FirstOf(h[q], s, q, width, B)
  PROVE  LET r == Strides(s, p, width, h)
         IN /\ r \in p..(Len(s) + 1)
            /\ \A j \in p..(r - 1) : s[j] \notin B
            /\ Len(s) + 1 - r < width \/ s[r] \in B
<1> DEFINE L == Len(s)
           N == (L + 1 - p) \div width
           blocks == {p + k * width : k \in 0..(N - 1)}
           stops == {b \in blocks : h[b] # {}}
           r == Strides(s, p, width, h)
<1>1. r = IF stops = {} THEN p + Cardinality(blocks) * width ELSE Min(stops) + Min(h[Min(stops)])
  BY DEF Strides
<1>2. /\ N \in Nat /\ p + N * width <= L + 1 /\ L + 1 - (p + N * width) < width
      /\ \A k \in 0..(N - 1) : p + k * width \in p..(L + 1 - width)
  BY BlockPlaces
<1>3. ASSUME NEW j \in Nat, j >= p, j < p + N * width
      PROVE  LET l == (j - p) \div width
             IN l \in 0..(N - 1) /\ j - (p + l * width) \in 0..(width - 1)
  BY <1>3, BlockPlaces
<1>. HIDE DEF r, N
<1>4. width \in Nat /\ width > 0 /\ L \in Nat /\ p \in Nat
  BY DEF BlockWidths
<1>5. Cardinality(blocks) = N
  <2>1. p \in Nat /\ N \in Nat
    BY <1>2, <1>4
  <2>2. QED
    BY Zenon, <2>1, BlockCount
<1>6. blocks \subseteq p..(L + 1 - width)
  BY <1>2
(* A byte in a block that is no stop is not in B.                            *)
<1>7. ASSUME NEW b \in blocks, h[b] = {}, NEW i \in 0..(width - 1)
      PROVE  s[b + i] \notin B
  BY <1>6, <1>7 DEF FirstOf
(* Nor is any byte before an address with no stop at or below it.            *)
<1>8. ASSUME NEW j \in Nat, p <= j, j < p + N * width,
             \A b \in stops : b > j
      PROVE  s[j] \notin B
  <2> DEFINE l == (j - p) \div width
             b == p + l * width
             i == j - b
  <2>1. l \in 0..(N - 1) /\ i \in 0..(width - 1)
    BY <1>3, <1>8
  <2>2. b \in blocks
    BY <2>1
  <2>. HIDE DEF l
  <2>3. b \in Int /\ b + i = j /\ b <= j
    BY <1>4, <1>6, <2>1, <2>2
  <2>4. b \notin stops
    BY <1>8, <2>3
  <2>. HIDE DEF b, i
  <2>5. h[b] = {}
    BY <2>2, <2>4
  <2>6. s[b + i] \notin B
    BY <1>7, <2>1, <2>2, <2>5
  <2>7. QED
    BY <2>3, <2>6
<1>9. CASE stops = {}
  <2>1. r = p + N * width
    BY <1>1, <1>5, <1>9
  <2>2. N * width \in Nat
    BY <1>2, <1>4
  <2>3. ASSUME NEW j \in p..(r - 1) PROVE s[j] \notin B
    <3>1. j \in Nat /\ p <= j /\ j < p + N * width
      BY <1>4, <2>1, <2>2
    <3>2. \A b \in stops : b > j
      BY <1>9
    <3>3. QED
      BY <1>8, <3>1, <3>2
  <2>4. QED
    BY <1>2, <1>4, <2>1, <2>2, <2>3 DEF r
<1>10. CASE stops # {}
  <2> DEFINE m == Min(stops)
             i == Min(h[m])
  <2>1. stops \subseteq Nat
    BY <1>4, <1>6
  <2>2. m \in stops /\ \A x \in stops : m <= x
    BY <1>10, <2>1, Least
  <2>3. r = m + i
    BY <1>1, <1>10
  <2>. HIDE DEF m
  <2>4. m \in p..(L + 1 - width) /\ h[m] # {} /\ FirstOf(h[m], s, m, width, B)
    BY <1>6, <2>2
  <2>5. h[m] \subseteq Nat /\ h[m] \subseteq 0..(width - 1)
    BY <1>4, <2>4 DEF FirstOf
  <2>6. i \in 0..(width - 1)
    BY <2>4, <2>5, Least
  <2>7. s[m + i] \in B /\ \A x \in 0..(i - 1) : s[m + x] \notin B
    BY <2>4 DEF FirstOf
  <2>. HIDE DEF i
  <2>8. r \in p..(L + 1) /\ s[r] \in B
    BY <1>4, <2>3, <2>4, <2>6, <2>7
  <2>9. m < p + N * width
    BY <1>2, <1>4, <2>4
  <2>10. ASSUME NEW j \in p..(r - 1) PROVE s[j] \notin B
    <3>1. CASE j < m
      <4>1. \A b \in stops : b > j
        BY <1>4, <2>1, <2>2, <2>4, <3>1
      <4>2. j \in Nat /\ p <= j /\ j < p + N * width
        BY <1>2, <1>4, <2>4, <2>9, <3>1
      <4>3. QED
        BY <1>8, <4>1, <4>2
    <3>2. CASE j >= m
      <4>1. j - m \in 0..(i - 1) /\ m + (j - m) = j
        BY <1>4, <2>3, <2>4, <2>6, <3>2
      <4>2. QED
        BY <2>7, <4>1
    <3>3. QED
      BY <1>4, <2>4, <3>1, <3>2
  <2>11. QED
    BY <2>8, <2>10 DEF r
<1>11. QED
  BY <1>9, <1>10

-----------------------------------------------------------------------------
(* The loops of the string scanners over the text.                           *)
Breaking(B) == {Quote, Backslash} \union Controls \union B

(* A word loaded from the text has exact first candidates.                   *)
LEMMA WordFirst ==
  ASSUME NEW s \in Seq(Byte), NEW q \in Nat \ {0}, q + 7 <= Len(s)
  PROVE  /\ Load(s, q) \in [Lanes -> Byte]
         /\ FirstOf(TrustedSpecial(Load(s, q)), s, q, 8, Breaking({}))
         /\ FirstOf(StrictSpecial(Load(s, q)), s, q, 8, Breaking(128..255))
<1> DEFINE w == Load(s, q)
<1>1. \A i \in Lanes : w[i] = s[q + i] /\ q + i \in DOMAIN s
  BY DEF Load, Lanes
<1>2. w \in [Lanes -> Byte]
  BY <1>1 DEF Load
<1>. HIDE DEF w
<1>3. ASSUME NEW F, NEW B, F \subseteq Lanes, FirstTrue(Holding(w, B), F)
      PROVE  FirstOf(F, s, q, 8, B)
  <2>1. 0..(8 - 1) = Lanes
    BY DEF Lanes
  <2>2. \A i \in Lanes : s[q + i] \in B => i \in F
    BY <1>1, <1>3 DEF FirstTrue, Holding
  <2>3. ASSUME F # {} PROVE s[q + Min(F)] \in B /\ \A i \in 0..(Min(F) - 1) : s[q + i] \notin B
    <3>1. Min(F) \in Holding(w, B)
      BY <1>3, <2>3 DEF FirstTrue
    <3>2. F \subseteq Nat
      BY <1>3 DEF Lanes
    <3>3. \A x \in F : Min(F) <= x
      BY <2>3, <3>2, Least
    <3> DEFINE m == Min(F)
    <3>4. m \in Lanes /\ w[m] \in B
      BY <3>1 DEF Holding
    <3>. HIDE DEF m
    <3>5. \A i \in 0..(m - 1) : i \in Lanes /\ i \notin F
      BY <3>3, <3>4 DEF Lanes, m
    <3>6. QED
      BY <1>1, <2>2, <3>4, <3>5 DEF m
  <2>4. F = {} => \A i \in Lanes : s[q + i] \notin B
    BY <2>2
  <2>5. QED
    BY <1>3, <2>1, <2>3, <2>4 DEF FirstOf
<1>4. Breaking({}) = {Quote, Backslash} \union Controls
      /\ Breaking(128..255) = {Quote, Backslash} \union Controls \union 128..255
  BY DEF Breaking
<1>5. QED
  BY <1>2, <1>3, <1>4, TrustedLanes, StrictLanes DEF w

(* n words taken together, as the loops take them.                           *)
LEMMA WordsFirst ==
  ASSUME NEW s \in Seq(Byte), NEW q \in Nat \ {0}, NEW n \in {1, 2, 4}, q + 8 * n - 1 <= Len(s)
  PROVE  /\ FirstOf(InWords(s, q, n, TrustedSpecial), s, q, 8 * n, Breaking({}))
         /\ FirstOf(InWords(s, q, n, StrictSpecial), s, q, 8 * n, Breaking(128..255))
<1> DEFINE t == [k \in 0..(n - 1) |-> TrustedSpecial(Load(s, q + 8 * k))]
           u == [k \in 0..(n - 1) |-> StrictSpecial(Load(s, q + 8 * k))]
<1>1. \A k \in 0..(n - 1) : q + 8 * k \in Nat \ {0} /\ (q + 8 * k) + 7 <= Len(s)
  OBVIOUS
<1>2. \A k \in 0..(n - 1) : /\ FirstOf(t[k], s, q + 8 * k, 8, Breaking({}))
                           /\ FirstOf(u[k], s, q + 8 * k, 8, Breaking(128..255))
  BY <1>1, WordFirst
<1>3. n \in Nat \ {0} /\ q \in Nat
  OBVIOUS
<1>. HIDE DEF t, u
<1>4. /\ FirstOf(FirstWord(t, n), s, q, 8 * n, Breaking({}))
      /\ FirstOf(FirstWord(u, n), s, q, 8 * n, Breaking(128..255))
  BY <1>2, <1>3, FirstWordFacts
<1>5. InWords(s, q, n, TrustedSpecial) = FirstWord(t, n)
  <2> DEFINE At(k) == {8 * k + i : i \in TrustedSpecial(Load(s, q + 8 * k))}
             At2(k) == {8 * k + i : i \in t[k]}
             words == {k \in 0..(n - 1) : At(k) # {}}
             words2 == {k \in 0..(n - 1) : At2(k) # {}}
  <2>1. InWords(s, q, n, TrustedSpecial) = IF words = {} THEN {} ELSE At(Min(words))
    BY DEF InWords
  <2>2. FirstWord(t, n) = IF words2 = {} THEN {} ELSE At2(Min(words2))
    BY DEF FirstWord
  <2>3. \A k \in 0..(n - 1) : At(k) = At2(k)
    BY DEF t
  <2>4. words \subseteq Nat
    OBVIOUS
  <2>. HIDE DEF At, At2
  <2>5. words = words2
    BY <2>3
  <2>6. words # {} => Min(words) \in 0..(n - 1)
    BY <2>4, Least
  <2>7. QED
    BY <2>1, <2>2, <2>3, <2>5, <2>6
<1>6. InWords(s, q, n, StrictSpecial) = FirstWord(u, n)
  <2> DEFINE At(k) == {8 * k + i : i \in StrictSpecial(Load(s, q + 8 * k))}
             At2(k) == {8 * k + i : i \in u[k]}
             words == {k \in 0..(n - 1) : At(k) # {}}
             words2 == {k \in 0..(n - 1) : At2(k) # {}}
  <2>1. InWords(s, q, n, StrictSpecial) = IF words = {} THEN {} ELSE At(Min(words))
    BY DEF InWords
  <2>2. FirstWord(u, n) = IF words2 = {} THEN {} ELSE At2(Min(words2))
    BY DEF FirstWord
  <2>3. \A k \in 0..(n - 1) : At(k) = At2(k)
    BY DEF u
  <2>4. words \subseteq Nat
    OBVIOUS
  <2>. HIDE DEF At, At2
  <2>5. words = words2
    BY <2>3
  <2>6. words # {} => Min(words) \in 0..(n - 1)
    BY <2>4, Least
  <2>7. QED
    BY <2>1, <2>2, <2>3, <2>5, <2>6
<1>7. QED
  BY <1>4, <1>5, <1>6

(* A stride of the trusted scanner, by 1, 2 or 4 words.                      *)
LEMMA TrustedStrideStops ==
  ASSUME NEW s \in Seq(Byte), NEW p \in 1..(Len(s) + 1), NEW n \in {1, 2, 4}
  PROVE  LET r == TrustedStride(s, p, n)
         IN /\ r \in p..(Len(s) + 1)
            /\ \A j \in p..(r - 1) : s[j] \notin Breaking({})
            /\ Len(s) + 1 - r < 8 * n \/ s[r] \in Breaking({})
<1> DEFINE Hits(q) == InWords(s, q, n, TrustedSpecial)
           B == Breaking({})
           width == 8 * n
           h == [q \in p..(Len(s) + 1 - width) |-> Hits(q)]
           blocks == {p + k * width : k \in 0..((Len(s) + 1 - p) \div width - 1)}
           stops == {b \in blocks : Hits(b) # {}}
           stops2 == {b \in blocks : h[b] # {}}
<1>1. TrustedStride(s, p, n) = IF stops = {} THEN p + Cardinality(blocks) * width
                           ELSE Min(stops) + Min(Hits(Min(stops)))
  BY DEF TrustedStride, Stride
<1>2. Strides(s, p, width, h) = IF stops2 = {} THEN p + Cardinality(blocks) * width
                                ELSE Min(stops2) + Min(h[Min(stops2)])
  BY DEF Strides
<1>3. width \in BlockWidths /\ Len(s) \in Nat
  BY DEF BlockWidths
<1>4. blocks \subseteq p..(Len(s) + 1 - width)
  BY <1>3, BlocksInside
<1>5. \A q \in p..(Len(s) + 1 - width) : FirstOf(h[q], s, q, width, B)
  BY <1>3, WordsFirst
<1>6. \A b \in blocks : h[b] = Hits(b)
  BY <1>4
<1>7. blocks \subseteq Nat
  BY <1>3, <1>4
<1>. HIDE DEF Hits, h, blocks, width, B
<1>8. stops = stops2
  BY <1>6
<1>9. stops # {} => Min(stops) \in blocks
  BY <1>7, Least
<1>10. TrustedStride(s, p, n) = Strides(s, p, width, h)
  BY <1>1, <1>2, <1>6, <1>8, <1>9
<1>11. LET r == Strides(s, p, width, h)
       IN /\ r \in p..(Len(s) + 1)
          /\ \A j \in p..(r - 1) : s[j] \notin B
          /\ Len(s) + 1 - r < width \/ s[r] \in B
  BY <1>3, <1>5, StridesStop
<1>12. QED
  BY <1>10, <1>11 DEF width, B

(* A stride of the strict scanner, by 1, 2 or 4 words.                       *)
LEMMA StrictStrideStops ==
  ASSUME NEW s \in Seq(Byte), NEW p \in 1..(Len(s) + 1), NEW n \in {1, 2, 4}
  PROVE  LET r == StrictStride(s, p, n)
         IN /\ r \in p..(Len(s) + 1)
            /\ \A j \in p..(r - 1) : s[j] \notin Breaking(128..255)
            /\ Len(s) + 1 - r < 8 * n \/ s[r] \in Breaking(128..255)
<1> DEFINE Hits(q) == InWords(s, q, n, StrictSpecial)
           B == Breaking(128..255)
           width == 8 * n
           h == [q \in p..(Len(s) + 1 - width) |-> Hits(q)]
           blocks == {p + k * width : k \in 0..((Len(s) + 1 - p) \div width - 1)}
           stops == {b \in blocks : Hits(b) # {}}
           stops2 == {b \in blocks : h[b] # {}}
<1>1. StrictStride(s, p, n) = IF stops = {} THEN p + Cardinality(blocks) * width
                           ELSE Min(stops) + Min(Hits(Min(stops)))
  BY DEF StrictStride, Stride
<1>2. Strides(s, p, width, h) = IF stops2 = {} THEN p + Cardinality(blocks) * width
                                ELSE Min(stops2) + Min(h[Min(stops2)])
  BY DEF Strides
<1>3. width \in BlockWidths /\ Len(s) \in Nat
  BY DEF BlockWidths
<1>4. blocks \subseteq p..(Len(s) + 1 - width)
  BY <1>3, BlocksInside
<1>5. \A q \in p..(Len(s) + 1 - width) : FirstOf(h[q], s, q, width, B)
  BY <1>3, WordsFirst
<1>6. \A b \in blocks : h[b] = Hits(b)
  BY <1>4
<1>7. blocks \subseteq Nat
  BY <1>3, <1>4
<1>. HIDE DEF Hits, h, blocks, width, B
<1>8. stops = stops2
  BY <1>6
<1>9. stops # {} => Min(stops) \in blocks
  BY <1>7, Least
<1>10. StrictStride(s, p, n) = Strides(s, p, width, h)
  BY <1>1, <1>2, <1>6, <1>8, <1>9
<1>11. LET r == Strides(s, p, width, h)
       IN /\ r \in p..(Len(s) + 1)
          /\ \A j \in p..(r - 1) : s[j] \notin B
          /\ Len(s) + 1 - r < width \/ s[r] \in B
  BY <1>3, <1>5, StridesStop
<1>12. QED
  BY <1>10, <1>11 DEF width, B

(* scanStringTrusted_SWAR, over a text of any length and from any place of   *)
(* it: the strides by four words and then by one skip no quote, backslash or *)
(* control character, and stop on one or where fewer than eight bytes are    *)
(* left for the byte loop.                                                   *)
THEOREM TrustedScanStops ==
  \A s \in Seq(Byte) : \A p \in 1..(Len(s) + 1) :
    LET stop == TrustedStride(s, TrustedStride(s, p, 4), 1)
    IN /\ stop \in p..(Len(s) + 1)
       /\ \A j \in p..(stop - 1) : s[j] \notin Breaking({})
       /\ Len(s) + 1 - stop < 8 \/ s[stop] \in Breaking({})
<1>1. SUFFICES ASSUME NEW s \in Seq(Byte), NEW p \in 1..(Len(s) + 1)
               PROVE  LET stop == TrustedStride(s, TrustedStride(s, p, 4), 1)
                      IN /\ stop \in p..(Len(s) + 1)
                         /\ \A j \in p..(stop - 1) : s[j] \notin Breaking({})
                         /\ Len(s) + 1 - stop < 8 \/ s[stop] \in Breaking({})
  OBVIOUS
<1> DEFINE q == TrustedStride(s, p, 4)
           stop == TrustedStride(s, q, 1)
<1>2. q \in p..(Len(s) + 1) /\ \A j \in p..(q - 1) : s[j] \notin Breaking({})
  BY TrustedStrideStops
<1>. HIDE DEF q
<1>3. Len(s) \in Nat /\ q \in 1..(Len(s) + 1)
  BY <1>2
<1>4. /\ stop \in q..(Len(s) + 1) /\ \A j \in q..(stop - 1) : s[j] \notin Breaking({})
      /\ Len(s) + 1 - stop < 8 \/ s[stop] \in Breaking({})
  BY <1>3, TrustedStrideStops
<1>. HIDE DEF stop
<1>5. \A j \in p..(stop - 1) : j \in p..(q - 1) \/ j \in q..(stop - 1)
  BY <1>2, <1>3, <1>4
<1>6. QED
  BY <1>2, <1>3, <1>4, <1>5 DEF stop, q

(* scanString_SWAR when it validates, likewise: its strides by two words and *)
(* then by one stop on bytes that are not ASCII as well, so that none of them*)
(* escapes the UTF-8 check.                                                  *)
THEOREM StrictScanStops ==
  \A s \in Seq(Byte) : \A p \in 1..(Len(s) + 1) :
    LET stop == StrictStride(s, StrictStride(s, p, 2), 1)
    IN /\ stop \in p..(Len(s) + 1)
       /\ \A j \in p..(stop - 1) : s[j] \notin Breaking(128..255)
       /\ Len(s) + 1 - stop < 8 \/ s[stop] \in Breaking(128..255)
<1>1. SUFFICES ASSUME NEW s \in Seq(Byte), NEW p \in 1..(Len(s) + 1)
               PROVE  LET stop == StrictStride(s, StrictStride(s, p, 2), 1)
                      IN /\ stop \in p..(Len(s) + 1)
                         /\ \A j \in p..(stop - 1) : s[j] \notin Breaking(128..255)
                         /\ Len(s) + 1 - stop < 8 \/ s[stop] \in Breaking(128..255)
  OBVIOUS
<1> DEFINE B == Breaking(128..255)
           q == StrictStride(s, p, 2)
           stop == StrictStride(s, q, 1)
<1>2. q \in p..(Len(s) + 1) /\ \A j \in p..(q - 1) : s[j] \notin B
  BY StrictStrideStops
<1>. HIDE DEF q
<1>3. Len(s) \in Nat /\ q \in 1..(Len(s) + 1)
  BY <1>2
<1>4. /\ stop \in q..(Len(s) + 1) /\ \A j \in q..(stop - 1) : s[j] \notin B
      /\ Len(s) + 1 - stop < 8 \/ s[stop] \in B
  BY <1>3, StrictStrideStops
<1>. HIDE DEF stop, B
<1>5. \A j \in p..(stop - 1) : j \in p..(q - 1) \/ j \in q..(stop - 1)
  BY <1>2, <1>3, <1>4
<1>6. QED
  BY <1>2, <1>3, <1>4, <1>5 DEF stop, q, B

-----------------------------------------------------------------------------
(* A fold halves the lanes, each the pair in base `base`.                    *)
LEMMA FoldFacts ==
  ASSUME NEW m \in Nat, NEW n \in Nat, m = 2 * n, NEW base \in Nat, NEW lanes \in [1..m -> Nat]
  PROVE  /\ Fold(lanes, base) = [i \in 1..n |-> lanes[2 * i - 1] * base + lanes[2 * i]]
         /\ Fold(lanes, base) \in [1..n -> Nat]
<1>1. Len(lanes) = m /\ m \div 2 = n
  OBVIOUS
<1>2. Fold(lanes, base) = [i \in 1..n |-> lanes[2 * i - 1] * base + lanes[2 * i]]
  BY <1>1 DEF Fold
<1>3. ASSUME NEW i \in 1..n PROVE lanes[2 * i - 1] * base + lanes[2 * i] \in Nat
  <2>1. 2 * i - 1 \in 1..m /\ 2 * i \in 1..m
    OBVIOUS
  <2>2. lanes[2 * i - 1] \in Nat /\ lanes[2 * i] \in Nat
    BY <2>1
  <2>3. \A x, y, z \in Nat : x * y + z \in Nat
    OBVIOUS
  <2>4. QED
    BY <2>2, <2>3
<1>4. QED
  BY <1>2, <1>3

(* The decimal digit of n at a place, counted from the right; four digits,   *)
(* and two such numbers side by side.                                        *)
DigitAt(n, k) == (n \div Power[k]) % 10
Myriad(x) == x \in 0..9999
Quad(u, a, b, c, d) ==
  a \in 0..9 /\ b \in 0..9 /\ c \in 0..9 /\ d \in 0..9 /\ u = (a * 10 + b) * 100 + (c * 10 + d)
Joined(n, u, v) == n = u * 10000 + v
Halves(n, u, v) == Myriad(u) /\ Myriad(v) /\ Joined(n, u, v)
QuadShown(u, a, b, c, d) ==
  Myriad(u) /\ DigitAt(u, 4) = a /\ DigitAt(u, 3) = b /\ DigitAt(u, 2) = c /\ DigitAt(u, 1) = d
HalvesShown(n, u, v) ==
  /\ DigitAt(n, 8) = DigitAt(u, 4) /\ DigitAt(n, 7) = DigitAt(u, 3)
  /\ DigitAt(n, 6) = DigitAt(u, 2) /\ DigitAt(n, 5) = DigitAt(u, 1)
  /\ DigitAt(n, 4) = DigitAt(v, 4) /\ DigitAt(n, 3) = DigitAt(v, 3)
  /\ DigitAt(n, 2) = DigitAt(v, 2) /\ DigitAt(n, 1) = DigitAt(v, 1)

(* The digits of a number put together from four.                            *)
LEMMA QuadDigits ==
  ASSUME NEW a, NEW b, NEW c, NEW d, NEW u, Quad(u, a, b, c, d)
  PROVE  QuadShown(u, a, b, c, d)
<1>0. a \in 0..9 /\ b \in 0..9 /\ c \in 0..9 /\ d \in 0..9
  BY DEF Quad
<1>1. u = (a * 10 + b) * 100 + (c * 10 + d)
  BY DEF Quad
<1>2. u \in 0..9999 /\ u = 1000 * a + 100 * b + 10 * c + d
  BY SMT, <1>0, <1>1
<1>3. u \div 1000 = a /\ a % 10 = a
  BY SMT, <1>0, <1>2
<1>4. (u \div 100) % 10 = b
  BY SMTT(30), <1>0, <1>2
<1>5. (u \div 10) % 10 = c
  <2>1. u \div 10 = (10 * a + b) * 10 + c
    BY SMT, <1>0, <1>2
  <2>2. ((10 * a + b) * 10 + c) % 10 = c
    BY SMT, <1>0
  <2>3. QED
    BY SMT, <1>0, <2>1, <2>2
<1>6. u % 10 = d /\ u \div 1 = u
  BY SMTT(30), <1>0, <1>2
<1>7. DigitAt(u, 4) = a
  BY SMT, <1>3 DEF DigitAt, Power
<1>8. DigitAt(u, 3) = b
  BY SMT, <1>4 DEF DigitAt, Power
<1>9. DigitAt(u, 2) = c
  BY SMT, <1>5 DEF DigitAt, Power
<1>10. DigitAt(u, 1) = d
  BY SMT, <1>6 DEF DigitAt, Power
<1>12. Myriad(u)
  BY <1>2 DEF Myriad
<1>13. QED
  BY Zenon, <1>12, <1>7, <1>8, <1>9, <1>10 DEF QuadShown

(* The high digits of two quads side by side are those of the first:         *)
(* the highest,                                                              *)
LEMMA High1000 ==
  ASSUME NEW u, NEW v, NEW n, Halves(n, u, v)
  PROVE  n \div 10000000 = u \div 1000
<1>0. u \in 0..9999 /\ v \in 0..9999 /\ n = u * 10000 + v
  BY DEF Myriad, Halves, Joined
<1>1. PICK q \in Nat, r \in 0..999 : u = q * 1000 + r
  <2>1. u \div 1000 \in Nat /\ u % 1000 \in 0..999 /\ u = (u \div 1000) * 1000 + (u % 1000)
    BY SMT, <1>0
  <2>2. QED
    BY SMT, <2>1
<1>2. u \div 1000 = q
  BY SMT, <1>0, <1>1
<1>3. u * 10000 + v = q * 10000000 + (r * 10000 + v)
  BY SMT, <1>0, <1>1
<1>4. \A x, y \in Nat : x < 10000000 => (y * 10000000 + x) \div 10000000 = y
  BY SMT
<1>5. r * 10000 + v \in Nat /\ r * 10000 + v < 10000000
  <2>1. r \in Int /\ 0 <= r /\ r <= 999
    BY <1>1
  <2>2. v \in Int /\ 0 <= v /\ v <= 9999
    BY <1>0
  <2>3. r * 10000 \in Int /\ 0 <= r * 10000 /\ r * 10000 <= 9990000
    BY SMT, <2>1
  <2>4. \A x, y \in Int : 0 <= x /\ x <= 9990000 /\ 0 <= y /\ y <= 9999 => x + y \in Nat /\ x + y < 10000000
    BY SMT
  <2>5. QED
    BY SMT, <2>2, <2>3, <2>4
<1>6. n \div 10000000 = q
  <2>1. n = q * 10000000 + (r * 10000 + v)
    BY SMT, <1>0, <1>3
  <2>2. QED
    BY SMT, <1>4, <1>5, <2>1
<1>7. QED
  BY SMT, <1>2, <1>6

(* the two highest,                                                          *)
LEMMA High100 ==
  ASSUME NEW u, NEW v, NEW n, Halves(n, u, v)
  PROVE  n \div 1000000 = u \div 100
<1>0. u \in 0..9999 /\ v \in 0..9999 /\ n = u * 10000 + v
  BY DEF Myriad, Halves, Joined
<1>1. PICK q \in Nat, r \in 0..99 : u = q * 100 + r
  <2>1. u \div 100 \in Nat /\ u % 100 \in 0..99 /\ u = (u \div 100) * 100 + (u % 100)
    BY SMT, <1>0
  <2>2. QED
    BY SMT, <2>1
<1>2. u \div 100 = q
  BY SMT, <1>0, <1>1
<1>3. u * 10000 + v = q * 1000000 + (r * 10000 + v)
  BY SMT, <1>0, <1>1
<1>4. \A x, y \in Nat : x < 1000000 => (y * 1000000 + x) \div 1000000 = y
  BY SMT
<1>5. r * 10000 + v \in Nat /\ r * 10000 + v < 1000000
  <2>1. r \in Int /\ 0 <= r /\ r <= 99
    BY <1>1
  <2>2. v \in Int /\ 0 <= v /\ v <= 9999
    BY <1>0
  <2>3. r * 10000 \in Int /\ 0 <= r * 10000 /\ r * 10000 <= 990000
    BY SMT, <2>1
  <2>4. \A x, y \in Int : 0 <= x /\ x <= 990000 /\ 0 <= y /\ y <= 9999 => x + y \in Nat /\ x + y < 1000000
    BY SMT
  <2>5. QED
    BY SMT, <2>2, <2>3, <2>4
<1>6. n \div 1000000 = q
  <2>1. n = q * 1000000 + (r * 10000 + v)
    BY SMT, <1>0, <1>3
  <2>2. QED
    BY SMT, <1>4, <1>5, <2>1
<1>7. QED
  BY SMT, <1>2, <1>6

(* the three highest.                                                        *)
LEMMA High10 ==
  ASSUME NEW u, NEW v, NEW n, Halves(n, u, v)
  PROVE  n \div 100000 = u \div 10
<1>0. u \in 0..9999 /\ v \in 0..9999 /\ n = u * 10000 + v
  BY DEF Myriad, Halves, Joined
<1>1. PICK q \in Nat, r \in 0..9 : u = q * 10 + r
  <2>1. u \div 10 \in Nat /\ u % 10 \in 0..9 /\ u = (u \div 10) * 10 + (u % 10)
    BY SMT, <1>0
  <2>2. QED
    BY SMT, <2>1
<1>2. u \div 10 = q
  BY SMT, <1>0, <1>1
<1>3. u * 10000 + v = q * 100000 + (r * 10000 + v)
  BY SMT, <1>0, <1>1
<1>4. \A x, y \in Nat : x < 100000 => (y * 100000 + x) \div 100000 = y
  BY SMT
<1>5. r * 10000 + v \in Nat /\ r * 10000 + v < 100000
  <2>1. r \in Int /\ 0 <= r /\ r <= 9
    BY <1>1
  <2>2. v \in Int /\ 0 <= v /\ v <= 9999
    BY <1>0
  <2>3. r * 10000 \in Int /\ 0 <= r * 10000 /\ r * 10000 <= 90000
    BY SMT, <2>1
  <2>4. \A x, y \in Int : 0 <= x /\ x <= 90000 /\ 0 <= y /\ y <= 9999 => x + y \in Nat /\ x + y < 100000
    BY SMT
  <2>5. QED
    BY SMT, <2>2, <2>3, <2>4
<1>6. n \div 100000 = q
  <2>1. n = q * 100000 + (r * 10000 + v)
    BY SMT, <1>0, <1>3
  <2>2. QED
    BY SMT, <1>4, <1>5, <2>1
<1>7. QED
  BY SMT, <1>2, <1>6

(* The digits of two quads side by side are the digits of each.              *)
LEMMA HalfDigits ==
  ASSUME NEW u, NEW v, NEW n, Halves(n, u, v)
  PROVE  HalvesShown(n, u, v)
<1>1. u \in 0..9999 /\ v \in 0..9999 /\ n = u * 10000 + v
  BY DEF Myriad, Halves, Joined
<1>2. DigitAt(n, 8) = DigitAt(u, 4)
  <2>1. n \div 10000000 = u \div 1000
    BY SMT, High1000
  <2>2. QED
    BY SMT, <2>1 DEF DigitAt, Power
<1>3. DigitAt(n, 7) = DigitAt(u, 3)
  <2>1. n \div 1000000 = u \div 100
    BY SMT, High100
  <2>2. QED
    BY SMT, <2>1 DEF DigitAt, Power
<1>4. DigitAt(n, 6) = DigitAt(u, 2)
  <2>1. n \div 100000 = u \div 10
    BY SMT, High10
  <2>2. QED
    BY SMT, <2>1 DEF DigitAt, Power
<1>5. DigitAt(n, 5) = DigitAt(u, 1)
  <2>1. n \div 10000 = u /\ u \div 1 = u
    BY SMT, <1>1
  <2>2. QED
    BY SMT, <2>1 DEF DigitAt, Power
<1>6. DigitAt(n, 4) = DigitAt(v, 4)
  <2>1. (n \div 1000) % 10 = (v \div 1000) % 10
    BY SMTT(30), <1>1
  <2>2. QED
    BY SMT, <2>1 DEF DigitAt, Power
<1>7. DigitAt(n, 3) = DigitAt(v, 3)
  <2>1. (n \div 100) % 10 = (v \div 100) % 10
    BY SMTT(30), <1>1
  <2>2. QED
    BY SMT, <2>1 DEF DigitAt, Power
<1>8. DigitAt(n, 2) = DigitAt(v, 2)
  <2>1. (n \div 10) % 10 = (v \div 10) % 10
    BY SMTT(30), <1>1
  <2>2. QED
    BY SMT, <2>1 DEF DigitAt, Power
<1>9. DigitAt(n, 1) = DigitAt(v, 1)
  <2>1. (n \div 1) % 10 = (v \div 1) % 10
    BY SMTT(30), <1>1
  <2>2. QED
    BY SMT, <2>1 DEF DigitAt, Power
<1>10. QED
  BY Zenon, <1>2, <1>3, <1>4, <1>5, <1>6, <1>7, <1>8, <1>9 DEF HalvesShown

(* The eight digits of a number put together from eight, in order.           *)
LEMMA DecimalDigits ==
  ASSUME NEW a, NEW b, NEW c, NEW d, NEW e, NEW f, NEW g, NEW h,
         NEW u, NEW v, NEW n, Quad(u, a, b, c, d), Quad(v, e, f, g, h), Joined(n, u, v)
  PROVE  Chunk(n, 8) = <<48 + a, 48 + b, 48 + c, 48 + d, 48 + e, 48 + f, 48 + g, 48 + h>>
<1>1. QuadShown(u, a, b, c, d)
  BY Zenon, QuadDigits
<1>2. QuadShown(v, e, f, g, h)
  BY Zenon, QuadDigits
<1>3. Halves(n, u, v)
  BY <1>1, <1>2 DEF Halves, QuadShown
<1>4. HalvesShown(n, u, v)
  BY Zenon, <1>3, HalfDigits
<1>5. Chunk(n, 8) = [i \in 1..8 |-> 48 + DigitAt(n, 9 - i)]
  BY DEF Chunk, DigitAt
<1>6. /\ DigitAt(n, 8) = a /\ DigitAt(n, 7) = b /\ DigitAt(n, 6) = c /\ DigitAt(n, 5) = d
      /\ DigitAt(n, 4) = e /\ DigitAt(n, 3) = f /\ DigitAt(n, 2) = g /\ DigitAt(n, 1) = h
  BY Zenon, <1>1, <1>2, <1>4 DEF QuadShown, HalvesShown
<1>7. QED
  BY <1>5, <1>6

(* Eight digits folded in a word, ten, a hundred and ten thousand at a time, *)
(* are the number whose eight decimal digits they were: every block of eight *)
(* ASCII digits comes back out of the number fold8 makes of it.              *)
THEOREM EightDigitsKept ==
  \A block \in [1..8 -> Digits] : Chunk(Fold8(block), 8) = block
<1>1. SUFFICES ASSUME NEW block \in [1..8 -> Digits]
               PROVE  Chunk(Fold8(block), 8) = block
  OBVIOUS
<1> DEFINE d == [i \in 1..8 |-> block[i] % 16]
           pairs == Fold(d, 10)
           quads == Fold(pairs, 100)
<1>2. \A i \in 1..8 : d[i] \in 0..9 /\ block[i] = 48 + d[i]
  BY DEF Digits
<1>3. d \in [1..8 -> Nat]
  <2>1. \A i \in 1..8 : d[i] \in Nat
    BY <1>2
  <2>2. QED
    BY <2>1
<1>. HIDE DEF d
<1>4. pairs = [i \in 1..4 |-> d[2 * i - 1] * 10 + d[2 * i]] /\ pairs \in [1..4 -> Nat]
  <2>1. 8 = 2 * 4
    OBVIOUS
  <2>2. QED
    BY <1>3, <2>1, FoldFacts
<1>. HIDE DEF pairs
<1>5. quads = [i \in 1..2 |-> pairs[2 * i - 1] * 100 + pairs[2 * i]] /\ quads \in [1..2 -> Nat]
  <2>1. pairs \in [1..4 -> Nat]
    BY <1>4
  <2>2. 4 = 2 * 2
    OBVIOUS
  <2>3. QED
    BY <2>1, <2>2, FoldFacts
<1>. HIDE DEF quads
<1>6. Fold(quads, 10000) = [i \in 1..1 |-> quads[2 * i - 1] * 10000 + quads[2 * i]]
  <2>1. quads \in [1..2 -> Nat]
    BY <1>5
  <2>2. 2 = 2 * 1
    OBVIOUS
  <2>3. Len(quads) = 2 /\ 2 \div 2 = 1
    BY <2>1
  <2>4. QED
    BY SMT, <2>3 DEF Fold
<1> DEFINE n == Fold8(block)
<1>7. n = quads[1] * 10000 + quads[2]
  BY <1>6 DEF Fold8, quads, pairs, d
<1>. HIDE DEF n
<1>8. /\ pairs[1] = d[1] * 10 + d[2] /\ pairs[2] = d[3] * 10 + d[4]
      /\ pairs[3] = d[5] * 10 + d[6] /\ pairs[4] = d[7] * 10 + d[8]
  BY <1>4
<1>9. quads[1] = pairs[1] * 100 + pairs[2] /\ quads[2] = pairs[3] * 100 + pairs[4]
  BY <1>5
<1>10. Quad(quads[1], d[1], d[2], d[3], d[4]) /\ Quad(quads[2], d[5], d[6], d[7], d[8])
  <2>1. /\ d[1] \in 0..9 /\ d[2] \in 0..9 /\ d[3] \in 0..9 /\ d[4] \in 0..9
        /\ d[5] \in 0..9 /\ d[6] \in 0..9 /\ d[7] \in 0..9 /\ d[8] \in 0..9
    BY <1>2
  <2>2. QED
    BY <1>8, <1>9, <2>1 DEF Quad
<1>11. Joined(n, quads[1], quads[2])
  BY <1>7 DEF Joined
<1>12. Chunk(n, 8) = <<48 + d[1], 48 + d[2], 48 + d[3], 48 + d[4],
                       48 + d[5], 48 + d[6], 48 + d[7], 48 + d[8]>>
  BY SMT, <1>10, <1>11, DecimalDigits
<1>13. Chunk(n, 8) = block
  BY <1>2, <1>12
<1>14. QED
  BY <1>13 DEF n

-----------------------------------------------------------------------------
(* The writer.                                                               *)

(* The room asked for a whole array does not wrap.                           *)
ArraysFit == \A n \in ArrayLengths : n <= MaxArray => 50 + 25 * n < Addresses

(* What a whole array still needs behind the next element: 25 characters for *)
(* each one left, of which the formatter's tail of the last is a part.       *)
Typed ==
  /\ start \in Nat /\ cursor \in Nat /\ end \in Nat /\ touched \in Nat
  /\ required \in Nat /\ place \in Nat /\ left \in Nat
  /\ \E output \in Outputs : start = output[1] /\ end = output[1] + output[2]

ArrayRoom == left > 0 => cursor < place /\ place + 25 * left + 49 <= end

IInv ==
  /\ Typed
  /\ InBounds
  /\ ArrayRoom

-----------------------------------------------------------------------------
(* What is known of the constants.                                           *)
LEMMA WordFacts ==
  /\ Addresses \in Nat /\ Addresses > 128
  /\ \A output \in Outputs : /\ output[1] \in Nat /\ output[2] \in Nat
                             /\ output[1] + output[2] + 128 < Addresses
  /\ Lengths \subseteq 0..(Addresses - 1) /\ ArrayLengths \subseteq 0..(Addresses - 1)
BY WriterAssumption DEF WriterAssumption, NumberScratch

(* Where an output begins and ends.                                          *)
LEMMA EndFacts ==
  ASSUME Typed
  PROVE  end + 128 < Addresses
BY WordFacts DEF Typed

(* A number is written in at most 24 characters, which the formatter doubles *)
(* only when it is no 32-bit integer.                                        *)
LEMMA ValueFacts ==
  ASSUME NEW v \in Values
  PROVE  /\ v.length \in 1..24
         /\ v.kind \in {"integer", "negative", "double", "null"}
         /\ v.kind = "integer" => v.length <= 10
         /\ v.kind = "negative" => v.length <= 11
         /\ Extent(v) \in v.length..48
<1>1. CASE v \in Numbers32
  BY <1>1 DEF Numbers32, Extent
<1>2. CASE v \in Doubles
  <2>1. Widths \subseteq 1..24
    BY WriterAssumption DEF WriterAssumption
  <2>2. CASE v \in [kind : {"double"}, length : Widths]
    <3>1. v.kind = "double" /\ v.length \in 1..24
      BY <2>1, <2>2
    <3>2. QED
      BY <3>1 DEF Extent
  <2>3. CASE v \in [kind : {"null"}, length : {4}]
    BY <2>3 DEF Extent
  <2>4. QED
    BY <1>2, <2>2, <2>3 DEF Doubles
<1>3. QED
  BY <1>1, <1>2 DEF Values

(* What fits when the code's test says so.                                   *)
LEMMA ReserveFacts ==
  ASSUME Typed, NEW length \in 0..(Addresses - 1), Reserve(length), cursor <= end
  PROVE  cursor + length <= end
BY WordFacts, EndFacts DEF Typed, Reserve, Wrap

(* A store that fits keeps the invariant.                                    *)
LEMMA StoreInv ==
  ASSUME IInv, left = 0, NEW length \in Nat, NEW extent \in Nat,
         cursor + length <= end, extent <= end, Store(length, extent)
  PROVE  IInv'
BY DEF IInv, Typed, InBounds, ArrayRoom, Store, Larger

(* So does a refusal, which stores nothing.                                  *)
LEMMA RefuseInv ==
  ASSUME IInv, left = 0, NEW length \in 0..(Addresses - 1), Refuse(length)
  PROVE  IInv'
<1>1. Wrap(cursor - start + length) \in Nat
  BY WordFacts, EndFacts DEF IInv, Typed, InBounds, Wrap
<1>2. required' \in Nat
  BY <1>1 DEF IInv, Typed, Refuse, Larger
<1>3. QED
  BY <1>2 DEF IInv, Typed, InBounds, ArrayRoom, Refuse

(* So does a literal.                                                        *)
LEMMA ExactlyInv ==
  ASSUME IInv, left = 0, NEW length \in 0..(Addresses - 1), WriteExactly(length)
  PROVE  IInv'
<1>1. CASE Reserve(length)
  <2>1. /\ length \in Nat /\ cursor + length \in Nat /\ cursor + length <= end
        /\ Store(length, cursor + length)
    BY <1>1, WordFacts, ReserveFacts DEF IInv, Typed, InBounds, WriteExactly
  <2>2. QED
    BY <2>1, StoreInv
<1>2. CASE ~Reserve(length)
  BY <1>2, RefuseInv DEF WriteExactly
<1>3. QED
  BY <1>1, <1>2

(* So does a number, whichever way it is printed.                            *)
LEMMA NumberInv ==
  ASSUME IInv, left = 0, NEW v \in Values, WriteF64(v)
  PROVE  IInv'
<1>1. v.length \in Nat /\ v.length \in 0..(Addresses - 1) /\ 4 \in 0..(Addresses - 1)
  BY ValueFacts, WordFacts
<1>2. cursor \in Nat /\ end \in Nat
  BY DEF IInv, Typed
<1>3. ASSUME NEW headroom \in {10, 11}, v.length <= headroom,
             WriteShortInteger(v.length, headroom)
      PROVE  IInv'
  <2>1. CASE cursor + headroom <= end
    <3>1. /\ cursor + v.length <= end /\ cursor + v.length \in Nat
          /\ Store(v.length, cursor + v.length)
      BY <1>1, <1>2, <1>3, <2>1 DEF WriteShortInteger
    <3>2. QED
      BY <1>1, <3>1, StoreInv
  <2>2. CASE ~(cursor + headroom <= end)
    BY <1>1, <1>3, <2>2, ExactlyInv DEF WriteShortInteger
  <2>3. QED
    BY <2>1, <2>2
<1>4. ASSUME v.kind = "double", WriteFormatted(v.length)
      PROVE  IInv'
  <2>1. CASE cursor + Headroom <= end
    <3>1. /\ cursor + v.length <= end /\ cursor + 2 * v.length <= end
          /\ cursor + 2 * v.length \in Nat
          /\ Store(v.length, cursor + 2 * v.length)
      BY <1>2, <1>4, <2>1, ValueFacts DEF WriteFormatted, Headroom
    <3>2. QED
      BY <1>1, <3>1, StoreInv
  <2>2. CASE ~(cursor + Headroom <= end)
    BY <1>1, <1>4, <2>2, ExactlyInv DEF WriteFormatted
  <2>3. QED
    BY <2>1, <2>2
<1>5. QED
  BY <1>1, <1>3, <1>4, ValueFacts, ExactlyInv DEF WriteF64

(* The room asked for an array is that of its elements and a tail.           *)
LEMMA ArrayFacts ==
  ASSUME ArraysFit, NEW n \in ArrayLengths, n <= MaxArray
  PROVE  n \in Nat /\ ArrayBytes(n) = 50 + 25 * n /\ ArrayBytes(n) \in 0..(Addresses - 1)
<1>1. n \in Nat /\ 50 + 25 * n < Addresses
  BY WordFacts DEF ArraysFit
<1>2. QED
  BY <1>1, WordFacts DEF ArrayBytes, Wrap

(* So does the beginning of an array, which makes room for its elements.     *)
LEMMA ArrayInv ==
  ASSUME ArraysFit, IInv, left = 0, NEW n \in ArrayLengths, WriteF64Array(n)
  PROVE  IInv'
<1>1. CASE n > MaxArray /\ UNCHANGED <<start, cursor, end, required, touched, place, left>>
  BY <1>1 DEF IInv, Typed, InBounds, ArrayRoom
<1>2. CASE n <= MaxArray /\ ~Reserve(ArrayBytes(n)) /\ Refuse(ArrayBytes(n))
  BY <1>2, ArrayFacts, RefuseInv
<1>3. CASE n <= MaxArray /\ Reserve(ArrayBytes(n))
  <2>1. /\ n \in Nat /\ cursor \in Nat /\ cursor + 50 + 25 * n <= end
    BY <1>3, ArrayFacts, ReserveFacts DEF IInv, Typed, InBounds
  <2>2. CASE n = 0 /\ Store(2, cursor + 2)
    <3>1. cursor + 2 <= end /\ cursor + 2 \in Nat
      BY <2>1, <2>2 DEF IInv, Typed
    <3>2. QED
      BY <2>2, <3>1, StoreInv
  <2>3. CASE /\ n > 0 /\ place' = cursor + 1 /\ left' = n
             /\ touched' = Larger(touched, cursor + 1)
             /\ UNCHANGED <<start, cursor, end, required, failed>>
    BY <2>1, <2>3 DEF IInv, Typed, InBounds, ArrayRoom, Larger
  <2>4. MaxArray \in Int /\ ~(n > MaxArray)
    BY <1>3, <2>1, WordFacts DEF MaxArray
  <2>5. n \in 1..MaxArray => n > 0
    BY <2>1, <2>4
  <2>6. QED
    BY <1>3, <2>2, <2>3, <2>4, <2>5 DEF WriteF64Array
<1>4. QED
  <2>1. 0 <= MaxArray
    BY WordFacts DEF MaxArray
  <2>2. QED
    BY <1>1, <1>2, <1>3, <2>1 DEF WriteF64Array

(* So does each element, stored without a test.                              *)
LEMMA ElementInv ==
  ASSUME IInv, NEW v \in Values, WriteElement(v)
  PROVE  IInv'
<1> DEFINE next == place + v.length + 1
<1>1. v.length \in 1..24 /\ Extent(v) \in v.length..48
  BY ValueFacts
<1>2. /\ start \in Nat /\ cursor \in Nat /\ end \in Nat /\ touched \in Nat /\ place \in Nat
      /\ left \in Nat /\ left > 0
      /\ start <= cursor /\ cursor <= end /\ touched <= end
      /\ cursor < place /\ place + 25 * left + 49 <= end
  BY DEF IInv, Typed, InBounds, ArrayRoom, WriteElement
<1>3. next \in Nat /\ cursor < next /\ next + 25 * (left - 1) + 49 <= end /\ next <= end
  BY <1>1, <1>2
<1>4. place + Extent(v) \in Nat /\ place + Extent(v) <= end
  BY <1>1, <1>2
<1>5. /\ left' = left - 1
      /\ touched' = Larger(touched, Larger(place + Extent(v), next))
      /\ place' = IF left = 1 THEN 0 ELSE next
      /\ cursor' = IF left = 1 THEN next ELSE cursor
      /\ UNCHANGED <<start, end, required, failed>>
  BY DEF WriteElement
<1>. HIDE DEF next
<1>6. touched' \in Nat /\ touched' <= end
  BY <1>2, <1>3, <1>4, <1>5 DEF Larger
<1>7. /\ place' \in Nat /\ cursor' \in Nat /\ left' \in Nat
      /\ start <= cursor' /\ cursor' <= end
      /\ left' > 0 => cursor' < place' /\ place' + 25 * left' + 49 <= end
  BY <1>2, <1>3, <1>5
<1>8. QED
  BY <1>5, <1>6, <1>7 DEF IInv, Typed, InBounds, ArrayRoom

(* So does every write.                                                      *)
LEMMA WriteInv ==
  ASSUME ArraysFit, IInv, [Write]_writer
  PROVE  IInv'
<1>1. CASE UNCHANGED writer
  BY <1>1 DEF writer, IInv, Typed, InBounds, ArrayRoom
<1>2. CASE left = 0 /\ WriteExactly(1)
  BY <1>2, ExactlyInv, WordFacts
<1>3. ASSUME left = 0, NEW length \in Lengths, WriteExactly(length) PROVE IInv'
  BY <1>3, ExactlyInv, WordFacts
<1>4. ASSUME left = 0, NEW v \in Values, WriteF64(v) PROVE IInv'
  BY <1>4, NumberInv
<1>5. ASSUME left = 0, NEW n \in ArrayLengths, WriteF64Array(n) PROVE IInv'
  BY <1>5, ArrayInv
<1>6. ASSUME NEW v \in Values, WriteElement(v) PROVE IInv'
  BY <1>6, ElementInv
<1>7. QED
  BY <1>1, <1>2, <1>3, <1>4, <1>5, <1>6 DEF Write

(* It holds of a fresh output.                                               *)
LEMMA BeginInv ==
  ASSUME NEW output \in Outputs, BeginWriter(output[1], output[2])
  PROVE  IInv
<1>1. output[1] \in Nat /\ output[2] \in Nat
  BY WordFacts
<1>2. QED
  BY <1>1 DEF BeginWriter, IInv, Typed, InBounds, ArrayRoom

(* The writer keeps within its output, and inside an array what is still to  *)
(* be stored without a check fits in front of its end.                       *)
THEOREM Invariance == ASSUME ArraysFit PROVE WriterSpec => []IInv
<1>1. (\E output \in Outputs : BeginWriter(output[1], output[2])) => IInv
  BY BeginInv
<1>2. IInv /\ [Write]_writer => IInv'
  BY WriteInv
<1>3. QED
  BY <1>1, <1>2, PTL DEF WriterSpec

(* Nothing is stored outside the output: not by a number formatted two bytes *)
(* wide and narrowed in place, nor by an array of any length, whose elements *)
(* are stored without a check of their own (reserve and writeF64Array).      *)
THEOREM StoresInside == ASSUME ArraysFit PROVE WriterSpec => []InBounds
<1>1. IInv => InBounds
  BY DEF IInv
<1>2. QED
  BY <1>1, Invariance, PTL

(* Every request that a refusal may answer, behind a whole output, is a word.*)
RequestsFit ==
  \A output \in Outputs :
    /\ \A length \in Lengths : output[2] + length < Addresses
    /\ \A n \in ArrayLengths : n <= MaxArray /\ output[2] + 50 + 25 * n < Addresses

AskedForMore == failed => end - start < required

(* A refusal asks for more, when what it asks for is a word.                 *)
LEMMA RefuseAsks ==
  ASSUME IInv, NEW length \in 0..(Addresses - 1), (end - start) + length < Addresses,
         ~Reserve(length), Refuse(length)
  PROVE  AskedForMore'
<1>1. /\ start \in Nat /\ cursor \in Nat /\ end \in Nat /\ required \in Nat /\ Addresses \in Nat
      /\ start <= cursor /\ cursor <= end /\ end < Addresses
  BY WordFacts, EndFacts DEF IInv, Typed, InBounds
<1>2. cursor + length > end
  BY <1>1 DEF Reserve, Wrap
<1>3. Wrap(cursor - start + length) = cursor - start + length
  BY <1>1 DEF Wrap
<1>4. required' = Larger(required, cursor - start + length) /\ start' = start /\ end' = end
  BY <1>3 DEF Refuse
<1>5. QED
  BY <1>1, <1>2, <1>4 DEF AskedForMore, Larger

(* So does a literal that does not fit.                                      *)
LEMMA ExactlyAsks ==
  ASSUME IInv, AskedForMore, NEW length \in 0..(Addresses - 1),
         (end - start) + length < Addresses, WriteExactly(length)
  PROVE  AskedForMore'
<1>1. CASE Reserve(length)
  BY <1>1 DEF WriteExactly, Store, AskedForMore
<1>2. CASE ~Reserve(length)
  BY <1>2, RefuseAsks DEF WriteExactly
<1>3. QED
  BY <1>1, <1>2

(* So does a number, too short for any sum to wrap.                          *)
LEMMA NumberAsks ==
  ASSUME IInv, AskedForMore, NEW v \in Values, WriteF64(v)
  PROVE  AskedForMore'
<1>1. /\ v.length \in 0..(Addresses - 1) /\ (end - start) + v.length < Addresses
      /\ 4 \in 0..(Addresses - 1) /\ (end - start) + 4 < Addresses
  BY ValueFacts, WordFacts, EndFacts DEF IInv, Typed, InBounds
<1>2. ASSUME NEW extent, Store(v.length, extent) PROVE AskedForMore'
  BY <1>2 DEF Store, AskedForMore
<1>3. ASSUME WriteExactly(v.length) PROVE AskedForMore'
  BY <1>1, <1>3, ExactlyAsks
<1>4. ASSUME WriteExactly(4) PROVE AskedForMore'
  BY <1>1, <1>4, ExactlyAsks
<1>5. QED
  BY <1>2, <1>3, <1>4 DEF WriteF64, WriteShortInteger, WriteFormatted

(* So does every write that is refused.                                      *)
LEMMA WriteAsks ==
  ASSUME ArraysFit, RequestsFit, IInv, AskedForMore, [Write]_writer
  PROVE  AskedForMore'
<1>1. /\ \A length \in Lengths : (end - start) + length < Addresses
      /\ \A n \in ArrayLengths : n <= MaxArray /\ (end - start) + (50 + 25 * n) < Addresses
  <2>1. PICK output \in Outputs : start = output[1] /\ end = output[1] + output[2]
    BY DEF IInv, Typed
  <2>2. output[1] \in Nat /\ output[2] \in Nat /\ end - start = output[2]
    BY <2>1, WordFacts
  <2>3. \A n \in ArrayLengths : n \in Nat
    BY WordFacts
  <2>4. QED
    BY <2>2, <2>3 DEF RequestsFit
<1>2. CASE UNCHANGED writer
  BY <1>2 DEF writer, AskedForMore
<1>3. CASE WriteExactly(1)
  <2>1. 1 \in 0..(Addresses - 1) /\ (end - start) + 1 < Addresses
    BY WordFacts, EndFacts DEF IInv, Typed, InBounds
  <2>2. QED
    BY <1>3, <2>1, ExactlyAsks
<1>4. ASSUME NEW length \in Lengths, WriteExactly(length) PROVE AskedForMore'
  <2>1. length \in 0..(Addresses - 1)
    BY WordFacts
  <2>2. QED
    BY <1>1, <1>4, <2>1, ExactlyAsks
<1>5. ASSUME NEW v \in Values, WriteF64(v) PROVE AskedForMore'
  BY <1>5, NumberAsks
<1>6. ASSUME NEW n \in ArrayLengths, WriteF64Array(n) PROVE AskedForMore'
  <2>1. /\ n \in Nat /\ ~(n > MaxArray) /\ ArrayBytes(n) = 50 + 25 * n
        /\ ArrayBytes(n) \in 0..(Addresses - 1) /\ (end - start) + ArrayBytes(n) < Addresses
    <3>1. n <= MaxArray /\ (end - start) + (50 + 25 * n) < Addresses
      BY <1>1
    <3>2. n \in Nat /\ ArrayBytes(n) = 50 + 25 * n /\ ArrayBytes(n) \in 0..(Addresses - 1)
      BY <3>1, ArrayFacts
    <3>3. MaxArray \in Int
      BY WordFacts DEF MaxArray
    <3>4. QED
      BY <3>1, <3>2, <3>3
  <2>2. CASE ~Reserve(ArrayBytes(n)) /\ Refuse(ArrayBytes(n))
    BY <2>1, <2>2, RefuseAsks
  <2>3. CASE Store(2, cursor + 2)
    BY <2>3 DEF Store, AskedForMore
  <2>4. CASE UNCHANGED <<start, cursor, end, required, failed>>
    BY <2>4 DEF AskedForMore
  <2>5. QED
    BY <1>6, <2>1, <2>2, <2>3, <2>4 DEF WriteF64Array
<1>7. ASSUME NEW v \in Values, WriteElement(v) PROVE AskedForMore'
  BY <1>7 DEF WriteElement, AskedForMore
<1>8. QED
  BY <1>2, <1>3, <1>4, <1>5, <1>6, <1>7 DEF Write

(* What a refused write reports (requiredWriterCapacity) is larger than its  *)
(* output: whoever offers what was asked for offers more than before, so     *)
(* that trying again makes progress.                                         *)
THEOREM RefusalsAsk == ASSUME ArraysFit, RequestsFit PROVE WriterSpec => []AskedForMore
<1>1. (\E output \in Outputs : BeginWriter(output[1], output[2])) => AskedForMore
  BY DEF BeginWriter, AskedForMore
<1>2. IInv /\ AskedForMore /\ [Write]_writer => AskedForMore'
  BY WriteAsks
<1>3. QED
  BY <1>1, <1>2, Invariance, PTL DEF WriterSpec

-----------------------------------------------------------------------------
(* Decimal digits.                                                           *)

(* The digits of n from place hi down to place lo, as characters.            *)
Part(n, hi, lo) == [i \in 1..(hi - lo + 1) |-> 48 + DigitAt(n, hi + 1 - i)]

(* Neighbouring parts put together are one part.                             *)
LEMMA JoinParts ==
  ASSUME NEW n, NEW hi \in Nat, NEW mid \in Nat, NEW lo \in Nat, mid < hi, lo <= mid,
         \A k \in lo..hi : DigitAt(n, k) \in Nat
  PROVE  Part(n, hi, mid + 1) \o Part(n, mid, lo) = Part(n, hi, lo)
<1> DEFINE s == Part(n, hi, mid + 1)
           t == Part(n, mid, lo)
           r == Part(n, hi, lo)
<1>1. s = [i \in 1..(hi - mid) |-> 48 + DigitAt(n, hi + 1 - i)] /\ hi - mid \in Nat
  BY DEF Part
<1>2. t = [i \in 1..(mid - lo + 1) |-> 48 + DigitAt(n, mid + 1 - i)] /\ mid - lo + 1 \in Nat
  BY DEF Part
<1>3. r = [i \in 1..(hi - lo + 1) |-> 48 + DigitAt(n, hi + 1 - i)] /\ hi - lo + 1 \in Nat
  BY DEF Part
<1>. HIDE DEF s, t, r
<1>4. s \in Seq(Nat) /\ Len(s) = hi - mid
  <2>1. \A i \in 1..(hi - mid) : 48 + DigitAt(n, hi + 1 - i) \in Nat
    OBVIOUS
  <2>2. QED
    BY <1>1, <2>1
<1>5. t \in Seq(Nat) /\ Len(t) = mid - lo + 1
  <2>1. \A i \in 1..(mid - lo + 1) : 48 + DigitAt(n, mid + 1 - i) \in Nat
    OBVIOUS
  <2>2. QED
    BY <1>2, <2>1
<1>6. r \in Seq(Nat) /\ Len(r) = hi - lo + 1
  <2>1. \A i \in 1..(hi - lo + 1) : 48 + DigitAt(n, hi + 1 - i) \in Nat
    OBVIOUS
  <2>2. QED
    BY <1>3, <2>1
<1>7. /\ s \o t \in Seq(Nat) /\ Len(s \o t) = Len(s) + Len(t)
      /\ \A i \in 1..(Len(s) + Len(t)) : (s \o t)[i] = IF i <= Len(s) THEN s[i] ELSE t[i - Len(s)]
  BY <1>4, <1>5, ConcatProperties
<1>8. Len(s \o t) = Len(r)
  BY <1>4, <1>5, <1>6, <1>7
<1>9. ASSUME NEW i \in 1..Len(r) PROVE (s \o t)[i] = r[i]
  <2>0. (s \o t)[i] = IF i <= Len(s) THEN s[i] ELSE t[i - Len(s)]
    <3>1. i \in 1..(Len(s) + Len(t))
      BY <1>4, <1>5, <1>6
    <3>2. QED
      BY Zenon, <1>7, <3>1
  <2>1. CASE i <= Len(s)
    <3>1. (s \o t)[i] = s[i] /\ s[i] = 48 + DigitAt(n, hi + 1 - i)
      <4>1. i \in 1..(hi - mid)
        BY <1>4, <1>6, <2>1
      <4>2. s[i] = 48 + DigitAt(n, hi + 1 - i)
        BY <1>1, <4>1
      <4>3. QED
        BY Zenon, <2>0, <2>1, <4>2
    <3>2. r[i] = 48 + DigitAt(n, hi + 1 - i)
      BY <1>3, <1>6
    <3>3. QED
      BY <3>1, <3>2
  <2>2. CASE i > Len(s)
    <3>1. (s \o t)[i] = t[i - Len(s)] /\ i - Len(s) \in 1..(mid - lo + 1)
      <4>1. ~(i <= Len(s)) /\ i - Len(s) \in 1..(mid - lo + 1)
        BY <1>4, <1>6, <2>2
      <4>2. QED
        BY <2>0, <4>1
    <3>2. t[i - Len(s)] = 48 + DigitAt(n, mid + 1 - (i - Len(s)))
      BY <1>2, <3>1
    <3>3. mid + 1 - (i - Len(s)) = hi + 1 - i
      BY <1>4, <1>6
    <3>4. r[i] = 48 + DigitAt(n, hi + 1 - i)
      BY <1>3, <1>6
    <3>5. QED
      BY <3>1, <3>2, <3>3, <3>4
  <2>3. i \in Int /\ Len(s) \in Int
    BY <1>4, <1>6
  <2>4. i <= Len(s) \/ i > Len(s)
    BY <2>3
  <2>5. QED
    BY Zenon, <2>1, <2>2, <2>4
<1>10. s \o t = r
  BY Zenon, <1>6, <1>7, <1>8, <1>9, SeqEqual
<1>11. QED
  BY <1>10 DEF s, t, r

(* A digit is one, and the powers of ten divide.                             *)
LEMMA DigitNat ==
  ASSUME NEW n \in Nat, NEW k \in 1..8
  PROVE  DigitAt(n, k) \in 0..9 /\ Power[k] \in Nat /\ Power[k] > 0
<1>1. Power[k] \in Nat /\ Power[k] > 0
  BY DEF Power
<1>2. \A p \in Nat : p > 0 => n \div p \in Nat
  OBVIOUS
<1>3. \A q \in Nat : q % 10 \in 0..9
  OBVIOUS
<1>4. QED
  BY <1>1, <1>2, <1>3 DEF DigitAt

(* What is left of n above its k - 1 lowest digits.                          *)
Above(n, k) == n \div Power[k]

(* The digit one place up is that of a tenth.                                *)
LEMMA NextDigit ==
  ASSUME NEW n \in Nat, NEW k \in {1, 3, 5, 7}
  PROVE  /\ Above(n, k) \in Nat
         /\ DigitAt(n, k) = Above(n, k) % 10
         /\ DigitAt(n, k + 1) = (Above(n, k) \div 10) % 10
<1> DEFINE m == n \div Power[k]
<1>1. m \in Nat
  <2>1. k \in 1..8
    OBVIOUS
  <2>2. Power[k] \in Nat /\ Power[k] > 0
    BY <2>1, DigitNat
  <2>3. \A p \in Nat : p > 0 => n \div p \in Nat
    OBVIOUS
  <2>4. QED
    BY <2>2, <2>3
<1>2. n \div Power[k + 1] = m \div 10
  <2>1. CASE k = 1
    BY SMTT(30), <2>1 DEF Power
  <2>2. CASE k = 3
    BY SMTT(30), <2>2 DEF Power
  <2>3. CASE k = 5
    BY SMTT(30), <2>3 DEF Power
  <2>4. CASE k = 7
    BY SMTT(30), <2>4 DEF Power
  <2>5. QED
    BY <2>1, <2>2, <2>3, <2>4
<1>3. QED
  BY <1>1, <1>2 DEF DigitAt, Above

(* writeU32's pair at place k is the part of the two digits there.           *)
LEMMA PairPart ==
  ASSUME NEW n \in Nat, NEW k \in {1, 3, 5, 7}
  PROVE  Pair(Above(n, k) % 100) = Part(n, k + 1, k)
<1> DEFINE m == Above(n, k)
<1>1. m \in Nat /\ DigitAt(n, k) = m % 10 /\ DigitAt(n, k + 1) = (m \div 10) % 10
  BY NextDigit
<1>. HIDE DEF m
<1>2. (m % 100) \div 10 = (m \div 10) % 10 /\ (m % 100) % 10 = (m % 10)
  BY SMTT(30), <1>1
<1>3. Part(n, k + 1, k) = [i \in 1..2 |-> 48 + DigitAt(n, k + 2 - i)]
  BY DEF Part
<1>4. Part(n, k + 1, k) = <<48 + DigitAt(n, k + 1), 48 + DigitAt(n, k)>>
  BY <1>3
<1>5. QED
  BY <1>1, <1>2, <1>4 DEF Pair, m

(* So many digits and no zero in front of them.                              *)
Plain(n, width) ==
  /\ width \in 1..8
  /\ width > 1 => n >= Power[width]
  /\ width < 8 => n < Power[width + 1]

(* What decides whether the leading pair is one digit or two.                *)
LEMMA LeadWidth ==
  ASSUME NEW n \in Nat, NEW k \in {1, 3, 5, 7}, n < 100 * Power[k], k = 1 \/ n >= Power[k]
  PROVE  /\ Above(n, k) \in 0..99
         /\ Above(n, k) < 10 => Plain(n, k)
         /\ ~(Above(n, k) < 10) => Plain(n, k + 1)
<1>1. CASE k = 1
  BY SMTT(30), <1>1 DEF Power, Above, Plain
<1>2. CASE k = 3
  BY SMTT(30), <1>2 DEF Power, Above, Plain
<1>3. CASE k = 5
  BY SMTT(30), <1>3 DEF Power, Above, Plain
<1>4. CASE k = 7
  BY SMTT(30), <1>4 DEF Power, Above, Plain
<1>5. QED
  BY <1>1, <1>2, <1>3, <1>4

(* The leading one or two digits, without a zero in front.                    *)
LEMMA LeadPart ==
  ASSUME NEW n \in Nat, NEW k \in {1, 3, 5, 7}, n < 100 * Power[k], k = 1 \/ n >= Power[k]
  PROVE  \E width \in {k, k + 1} : Plain(n, width) /\ Lead(Above(n, k)) = Part(n, width, k)
<1> DEFINE m == Above(n, k)
<1>1. m \in Nat /\ DigitAt(n, k) = m % 10 /\ DigitAt(n, k + 1) = (m \div 10) % 10
  BY NextDigit
<1>2. m \in 0..99 /\ (m < 10 => Plain(n, k)) /\ (~(m < 10) => Plain(n, k + 1))
  BY LeadWidth
<1>. HIDE DEF m
<1>3. CASE m < 10
  <2>1. m % 10 = m
    BY SMT, <1>1, <1>3
  <2>2. Part(n, k, k) = [i \in 1..1 |-> 48 + DigitAt(n, k + 1 - i)]
    BY DEF Part
  <2>3. Part(n, k, k) = <<48 + m>>
    BY <1>1, <2>1, <2>2
  <2>4. QED
    BY <1>2, <1>3, <2>3 DEF Lead, m
<1>4. CASE ~(m < 10)
  <2>1. (m \div 10) % 10 = m \div 10
    BY SMT, <1>1, <1>2, <1>4
  <2>2. Part(n, k + 1, k) = [i \in 1..2 |-> 48 + DigitAt(n, k + 2 - i)]
    BY DEF Part
  <2>3. Part(n, k + 1, k) = <<48 + (m \div 10), 48 + (m % 10)>>
    BY <1>1, <2>1, <2>2
  <2>4. QED
    BY <1>2, <1>4, <2>3 DEF Lead, Pair, m
<1>5. QED
  BY <1>3, <1>4

(* A part is a sequence of characters.                                       *)
LEMMA PartSeq ==
  ASSUME NEW n \in Nat, NEW lo \in 1..8, NEW hi \in lo..8
  PROVE  Part(n, hi, lo) \in Seq(Nat)
<1>1. hi - lo + 1 \in Nat /\ \A i \in 1..(hi - lo + 1) : hi + 1 - i \in 1..8
  OBVIOUS
<1>2. \A k \in 1..8 : 48 + DigitAt(n, k) \in Nat
  BY DigitNat
<1>3. \A i \in 1..(hi - lo + 1) : 48 + DigitAt(n, hi + 1 - i) \in Nat
  BY <1>1, <1>2
<1>4. QED
  BY <1>1, <1>3 DEF Part

(* Parts of a number of eight digits join.                                    *)
LEMMA Joins ==
  ASSUME NEW n \in Nat, NEW lo \in 1..8, NEW mid \in lo..8, NEW next, next = mid + 1, NEW hi \in next..8
  PROVE  Part(n, hi, next) \o Part(n, mid, lo) = Part(n, hi, lo)
<1>1. hi \in Nat /\ mid \in Nat /\ lo \in Nat /\ mid < hi /\ lo <= mid
  OBVIOUS
<1>2. \A k \in lo..hi : k \in 1..8
  OBVIOUS
<1>3. \A k \in lo..hi : DigitAt(n, k) \in Nat
  BY <1>2, DigitNat
<1>4. QED
  BY <1>1, <1>3, JoinParts

(* The pairs that writeU32 takes apart, from the right.                      *)
LEMMA Pairs ==
  ASSUME NEW n \in Nat
  PROVE  /\ Above(n, 1) = n /\ Above(n, 3) = n \div 100
         /\ Above(n, 5) = n \div 10000 /\ Above(n, 7) = n \div 1000000
         /\ Pair(n % 100) = Part(n, 2, 1)
         /\ Pair((n \div 100) % 100) = Part(n, 4, 3)
         /\ Pair((n \div 10000) % 100) = Part(n, 6, 5)
         /\ Pair((n \div 1000000) % 100) = Part(n, 8, 7)
<1>1. /\ Above(n, 1) = n \div 1 /\ Above(n, 3) = n \div 100
      /\ Above(n, 5) = n \div 10000 /\ Above(n, 7) = n \div 1000000
  BY SMT DEF Above, Power
<1>2. n \div 1 = n
  BY SMT
<1>3. Pair(Above(n, 1) % 100) = Part(n, 2, 1)
  BY SMT, PairPart
<1>4. Pair(Above(n, 3) % 100) = Part(n, 4, 3)
  BY SMT, PairPart
<1>5. Pair(Above(n, 5) % 100) = Part(n, 6, 5)
  BY SMT, PairPart
<1>6. Pair(Above(n, 7) % 100) = Part(n, 8, 7)
  BY SMT, PairPart
<1>7. QED
  BY SMT, <1>1, <1>2, <1>3, <1>4, <1>5, <1>6

(* A chunk of digits is the part from the lowest place.                       *)
LEMMA ChunkPart ==
  ASSUME NEW n \in Nat, NEW width \in 1..8
  PROVE  Chunk(n, width) = Part(n, width, 1)
<1>1. width - 1 + 1 = width /\ Chunk(n, width) = [i \in 1..width |-> 48 + ((n \div Power[width + 1 - i]) % 10)]
  BY DEF Chunk
<1>3. Part(n, width, 1) = [i \in 1..width |-> 48 + DigitAt(n, width + 1 - i)]
  BY <1>1 DEF Part
<1>4. \A i \in 1..width : 48 + DigitAt(n, width + 1 - i) = 48 + ((n \div Power[width + 1 - i]) % 10)
  BY DEF DigitAt
<1>5. QED
  BY <1>1, <1>3, <1>4

(* writeU32's arms by the parts of n.                                         *)
LEMMA ArmParts ==
  ASSUME NEW n \in Nat
  PROVE  /\ n < 100 => WriteU32(0, n) = Lead(Above(n, 1))
         /\ 100 <= n /\ n < 10000 => WriteU32(0, n) = Lead(Above(n, 3)) \o Part(n, 2, 1)
         /\ 10000 <= n /\ n < 1000000 =>
              WriteU32(0, n) = Lead(Above(n, 5)) \o Part(n, 4, 3) \o Part(n, 2, 1)
         /\ 1000000 <= n =>
              WriteU32(0, n) = Lead(Above(n, 7)) \o Part(n, 6, 5) \o Part(n, 4, 3) \o Part(n, 2, 1)
<1> DEFINE p1 == Part(n, 2, 1)
           p3 == Part(n, 4, 3)
           p5 == Part(n, 6, 5)
<1>1. p1 = Pair(n % 100)
  <2>1. 1 \in {1, 3, 5, 7} /\ Above(n, 1) = n /\ 1 + 1 = 2
    BY SMT, Pairs
  <2>2. Pair(Above(n, 1) % 100) = Part(n, 1 + 1, 1)
    BY Zenon, <2>1, PairPart
  <2>3. QED
    BY Zenon, <2>1, <2>2
<1>2. p3 = Pair((n \div 100) % 100)
  BY SMT, Pairs
<1>3. p5 = Pair((n \div 10000) % 100)
  BY SMT, Pairs
<1>4. Above(n, 1) = n
  BY SMT, Pairs
<1>5. Above(n, 3) = n \div 100
  BY SMT, Pairs
<1>6. Above(n, 5) = n \div 10000
  BY SMT, Pairs
<1>7. Above(n, 7) = n \div 1000000
  BY SMT, Pairs
<1>. HIDE DEF p1, p3, p5
<1>8. n < 100 => WriteU32(0, n) = Lead(Above(n, 1))
  BY SMT, <1>4 DEF WriteU32
<1>9. 100 <= n /\ n < 10000 => WriteU32(0, n) = Lead(Above(n, 3)) \o p1
  BY SMT, <1>1, <1>5 DEF WriteU32
<1>10. 10000 <= n /\ n < 1000000 => WriteU32(0, n) = Lead(Above(n, 5)) \o p3 \o p1
  <2>1. p1 = Pair((n \div 1) % 100)
    BY SMT, <1>1
  <2>2. 10000 <= n /\ n < 1000000 => WriteU32(0, n) = Lead(n \div 10000) \o p3 \o p1
    BY SMT, <2>1, <1>2 DEF WriteU32
  <2>3. QED
    BY SMT, <2>2, <1>6
<1>11. 1000000 <= n => WriteU32(0, n) = Lead(Above(n, 7)) \o p5 \o p3 \o p1
  <2>1. p1 = Pair((n \div 1) % 100)
    BY SMT, <1>1
  <2>2. 1000000 <= n => WriteU32(0, n) = Lead(n \div 1000000) \o p5 \o p3 \o p1
    BY SMT, <2>1, <1>2, <1>3 DEF WriteU32
  <2>3. QED
    BY SMT, <2>2, <1>7
<1>12. QED
  BY SMT, <1>8, <1>9, <1>10, <1>11 DEF p1, p3, p5

(* A leading part and the pairs below it are all the digits.                 *)
LEMMA LeadRest ==
  ASSUME NEW n \in Nat, NEW width \in 1..8
  PROVE  /\ width \in {3, 4} => Part(n, width, 3) \o Part(n, 2, 1) = Chunk(n, width)
         /\ width \in {5, 6} => Part(n, width, 5) \o Part(n, 4, 3) \o Part(n, 2, 1) = Chunk(n, width)
         /\ width \in {7, 8} =>
              Part(n, width, 7) \o Part(n, 6, 5) \o Part(n, 4, 3) \o Part(n, 2, 1) = Chunk(n, width)
<1>1. Chunk(n, width) = Part(n, width, 1)
  BY ChunkPart
<1>2. width \in {3, 4, 5, 6, 7, 8} => Part(n, width, 3) \o Part(n, 2, 1) = Part(n, width, 1)
  <2>1. SUFFICES ASSUME width \in 3..8 PROVE Part(n, width, 3) \o Part(n, 2, 1) = Part(n, width, 1)
    OBVIOUS
  <2>2. 1 \in 1..8 /\ 2 \in 1..8 /\ 3 = 2 + 1
    OBVIOUS
  <2>3. QED
    BY <2>1, <2>2, Joins
<1>3. width \in {5, 6, 7, 8} => Part(n, width, 5) \o Part(n, 4, 3) = Part(n, width, 3)
  <2>1. SUFFICES ASSUME width \in 5..8 PROVE Part(n, width, 5) \o Part(n, 4, 3) = Part(n, width, 3)
    OBVIOUS
  <2>2. 3 \in 1..8 /\ 4 \in 3..8 /\ 5 = 4 + 1
    OBVIOUS
  <2>3. QED
    BY <2>1, <2>2, Joins
<1>4. width \in {7, 8} => Part(n, width, 7) \o Part(n, 6, 5) = Part(n, width, 5)
  <2>1. SUFFICES ASSUME width \in 7..8 PROVE Part(n, width, 7) \o Part(n, 6, 5) = Part(n, width, 5)
    OBVIOUS
  <2>2. 5 \in 1..8 /\ 6 \in 5..8 /\ 7 = 6 + 1
    OBVIOUS
  <2>3. QED
    BY <2>1, <2>2, Joins
<1>5. ASSUME width \in {7, 8}
      PROVE  Part(n, width, 7) \o Part(n, 6, 5) \o Part(n, 4, 3) \o Part(n, 2, 1) = Chunk(n, width)
  <2>1. width \in {3, 4, 5, 6, 7, 8} /\ width \in {5, 6, 7, 8}
    BY <1>5
  <2>2. QED
    BY Zenon, <2>1, <1>1, <1>2, <1>3, <1>4, <1>5
<1>6. ASSUME width \in {5, 6}
      PROVE  Part(n, width, 5) \o Part(n, 4, 3) \o Part(n, 2, 1) = Chunk(n, width)
  <2>1. width \in {3, 4, 5, 6, 7, 8} /\ width \in {5, 6, 7, 8}
    BY <1>6
  <2>2. QED
    BY Zenon, <2>1, <1>1, <1>2, <1>3
<1>7. ASSUME width \in {3, 4} PROVE Part(n, width, 3) \o Part(n, 2, 1) = Chunk(n, width)
  <2>1. width \in {3, 4, 5, 6, 7, 8}
    BY <1>7
  <2>2. QED
    BY Zenon, <2>1, <1>1, <1>2
<1>8. QED
  BY Zenon, <1>5, <1>6, <1>7

(* At most eight digits: not an interval, whose bound no prover counts to.   *)
LowEight == {n \in Nat : n < 100000000}

(* A number of at most eight digits.                                         *)
LEMMA RestDigits ==
  ASSUME NEW rest \in LowEight
  PROVE  \E width : WriteU32(0, rest) = Chunk(rest, width) /\ Plain(rest, width)
<1>1. rest \in Nat
  BY SMT DEF LowEight
<1>2. CASE rest < 100
  <2>1. PICK width \in {1, 1 + 1} : Plain(rest, width) /\ Lead(Above(rest, 1)) = Part(rest, width, 1)
    <3>1. 1 \in {1, 3, 5, 7} /\ rest < 100 * Power[1]
      BY SMT, <1>1, <1>2 DEF Power
    <3>2. QED
      BY Zenon, <1>1, <3>1, LeadPart
  <2>2. width \in 1..8
    BY SMT, <2>1
  <2>3. WriteU32(0, rest) = Lead(Above(rest, 1))
    BY SMT, <1>1, <1>2, ArmParts
  <2>4. QED
    BY Zenon, <1>1, <2>1, <2>2, <2>3, ChunkPart
<1>3. CASE 100 <= rest /\ rest < 10000
  <2>1. PICK width \in {3, 3 + 1} : Plain(rest, width) /\ Lead(Above(rest, 3)) = Part(rest, width, 3)
    <3>1. 3 \in {1, 3, 5, 7} /\ rest < 100 * Power[3] /\ rest >= Power[3]
      BY SMT, <1>1, <1>3 DEF Power
    <3>2. QED
      BY Zenon, <1>1, <3>1, LeadPart
  <2>2. width \in 1..8 /\ width \in {3, 4}
    BY SMT, <2>1
  <2>3. WriteU32(0, rest) = Lead(Above(rest, 3)) \o Part(rest, 2, 1)
    BY SMT, <1>1, <1>3, ArmParts
  <2>4. QED
    BY Zenon, <1>1, <2>1, <2>2, <2>3, LeadRest
<1>4. CASE 10000 <= rest /\ rest < 1000000
  <2>1. PICK width \in {5, 5 + 1} : Plain(rest, width) /\ Lead(Above(rest, 5)) = Part(rest, width, 5)
    <3>1. 5 \in {1, 3, 5, 7} /\ rest < 100 * Power[5] /\ rest >= Power[5]
      BY SMT, <1>1, <1>4 DEF Power
    <3>2. QED
      BY Zenon, <1>1, <3>1, LeadPart
  <2>2. width \in 1..8 /\ width \in {5, 6}
    BY SMT, <2>1
  <2>3. WriteU32(0, rest) = Lead(Above(rest, 5)) \o Part(rest, 4, 3) \o Part(rest, 2, 1)
    BY SMT, <1>1, <1>4, ArmParts
  <2>4. QED
    BY Zenon, <1>1, <2>1, <2>2, <2>3, LeadRest
<1>5. CASE 1000000 <= rest
  <2>1. PICK width \in {7, 7 + 1} : Plain(rest, width) /\ Lead(Above(rest, 7)) = Part(rest, width, 7)
    <3>1. 7 \in {1, 3, 5, 7} /\ rest < 100 * Power[7] /\ rest >= Power[7]
      BY SMT, <1>1, <1>5 DEF Power, LowEight
    <3>2. QED
      BY Zenon, <1>1, <3>1, LeadPart
  <2>2. width \in 1..8 /\ width \in {7, 8}
    BY SMT, <2>1
  <2>3. WriteU32(0, rest) = Lead(Above(rest, 7)) \o Part(rest, 6, 5) \o Part(rest, 4, 3) \o Part(rest, 2, 1)
    BY SMT, <1>1, <1>5, ArmParts
  <2>4. QED
    BY Zenon, <1>1, <2>1, <2>2, <2>3, LeadRest
<1>6. rest < 100 \/ (100 <= rest /\ rest < 10000) \/ (10000 <= rest /\ rest < 1000000) \/ 1000000 <= rest
  BY SMT, <1>1
<1>7. QED
  BY SMT, <1>2, <1>3, <1>4, <1>5, <1>6

(* Concatenation can be regrouped.                                           *)
Regroups(s, t, u) == (s \o t) \o u = s \o (t \o u)
LEMMA Regrouping == \A s, t, u \in Seq(Nat) : Regroups(s, t, u) /\ s \o t \in Seq(Nat)
BY DEF Regroups

(* Four parts put behind a sequence are put behind it together.              *)
Together(s, a, b, c, d) == s \o a \o b \o c \o d = s \o (a \o b \o c \o d)
LEMMA PutTogether == \A s, a, b, c, d \in Seq(Nat) : Together(s, a, b, c, d)
<1>1. SUFFICES ASSUME NEW s \in Seq(Nat), NEW a \in Seq(Nat), NEW b \in Seq(Nat),
                      NEW c \in Seq(Nat), NEW d \in Seq(Nat)
               PROVE  Together(s, a, b, c, d)
  BY Zenon
<1>2. a \o b \in Seq(Nat)
  BY Zenon, Regrouping
<1>3. a \o b \o c \in Seq(Nat)
  BY Zenon, <1>2, Regrouping
<1>4. Regroups(s, a, b) /\ Regroups(s, a \o b, c) /\ Regroups(s, a \o b \o c, d)
  BY Zenon, <1>2, <1>3, Regrouping
<1>5. QED
  BY Zenon, <1>4 DEF Regroups, Together

(* A number of nine or ten digits: the upper ones and always all eight.      *)
LEMMA TopDigits ==
  ASSUME NEW top \in Int, top > 0, top < 100, NEW rest \in Nat
  PROVE  WriteU32(top, rest) = Chunk(top, IF top < 10 THEN 1 ELSE 2) \o Chunk(rest, 8)
<1> DEFINE p1 == Part(rest, 2, 1)
           p3 == Part(rest, 4, 3)
           p5 == Part(rest, 6, 5)
           p7 == Part(rest, 8, 7)
           s == Lead(top)
<1>1. p1 = Pair(rest % 100)
  <2>1. 1 \in {1, 3, 5, 7} /\ Above(rest, 1) = rest /\ 1 + 1 = 2
    BY SMT, Pairs
  <2>2. Pair(Above(rest, 1) % 100) = Part(rest, 1 + 1, 1)
    BY Zenon, <2>1, PairPart
  <2>3. QED
    BY Zenon, <2>1, <2>2
<1>11. p3 = Pair((rest \div 100) % 100)
  BY SMT, Pairs
<1>12. p5 = Pair((rest \div 10000) % 100)
  BY SMT, Pairs
<1>13. p7 = Pair((rest \div 1000000) % 100)
  BY SMT, Pairs
<1>2. p1 \in Seq(Nat) /\ p3 \in Seq(Nat) /\ p5 \in Seq(Nat) /\ p7 \in Seq(Nat)
  BY SMT, PartSeq
<1>3. p7 \o p5 \o p3 \o p1 = Chunk(rest, 8)
  <2>1. 8 \in 1..8 /\ 8 \in {7, 8}
    OBVIOUS
  <2>2. QED
    BY Zenon, <2>1, LeadRest
<1>4. s = Chunk(top, IF top < 10 THEN 1 ELSE 2) /\ s \in Seq(Nat)
  <2>1. top \in Nat /\ 1 \in {1, 3, 5, 7} /\ top < 100 * Power[1]
    BY SMT DEF Power
  <2>2. PICK width \in {1, 1 + 1} : Plain(top, width) /\ Lead(Above(top, 1)) = Part(top, width, 1)
    BY Zenon, <2>1, LeadPart
  <2>3. width \in 1..8 /\ 1 \in 1..8 /\ width \in 1..8 /\ Above(top, 1) = top
    BY SMT, <2>1, <2>2, Pairs
  <2>4. width = IF top < 10 THEN 1 ELSE 2
    BY SMT, <2>1, <2>2 DEF Plain, Power
  <2>5. s = Chunk(top, width)
    BY Zenon, <2>1, <2>2, <2>3, ChunkPart
  <2>6. Part(top, width, 1) \in Seq(Nat)
    BY <2>1, <2>3, PartSeq
  <2>7. QED
    BY Zenon, <2>2, <2>3, <2>4, <2>5, <2>6
<1>. HIDE DEF p1, p3, p5, p7, s
<1>5. WriteU32(top, rest) = s \o p7 \o p5 \o p3 \o p1
  <2>1. p1 = Pair((rest \div 1) % 100)
    BY SMT, <1>1
  <2>2. WriteU32(top, rest) = Lead(top) \o p7 \o p5 \o p3 \o p1
    BY SMTT(60), <2>1, <1>11, <1>12, <1>13 DEF WriteU32
  <2>3. QED
    BY Zenon, <2>2 DEF s
<1>6. Together(s, p7, p5, p3, p1)
  BY Zenon, <1>2, <1>4, PutTogether
<1>7. QED
  BY Zenon, <1>3, <1>4, <1>5, <1>6 DEF Together

(* An integer is printed as its decimal digits: those of rest with no zero in
   front of them, or, when there are upper digits, these (top is not 0, so the
   first is none) and all eight of rest behind them.  writeU32 of
   serialize/integer.ts takes pairs of digits apart by the size of the
   number. *)
THEOREM PrintedDigits ==
  ASSUME NEW top \in 0..42, NEW rest \in LowEight
  PROVE  IF top = 0
         THEN \E width : WriteU32(top, rest) = Chunk(rest, width) /\ Plain(rest, width)
         ELSE WriteU32(top, rest) = Chunk(top, IF top < 10 THEN 1 ELSE 2) \o Chunk(rest, 8)
<1>1. rest \in Nat
  BY SMT DEF LowEight
<1>2. top = 0 \/ (top \in Int /\ top > 0 /\ top < 100)
  BY SMT
<1>3. QED
  BY Zenon, <1>1, <1>2, RestDigits, TopDigits
=============================================================================
