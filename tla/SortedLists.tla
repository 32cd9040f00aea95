----------------------------- MODULE SortedLists -----------------------------
(* Facts about the list updates of the allocator's free list: replacing,     *)
(* removing and inserting an element of a strictly increasing sequence of    *)
(* integers keeps it increasing and changes its elements as expected.        *)
EXTENDS Integers, Sequences, SequencesExt, SequenceTheorems, TLAPS

Elements(s) == {s[i] : i \in DOMAIN s}

Increasing(s) == \A i, j \in DOMAIN s : i < j => s[i] < s[j]

(* Where the elements of a concatenation come from.                         *)
LEMMA ConcatFacts ==
  ASSUME NEW s \in Seq(Int), NEW t \in Seq(Int)
  PROVE  /\ s \o t \in Seq(Int)
         /\ Len(s \o t) = Len(s) + Len(t)
         /\ \A j \in 1..Len(s) : (s \o t)[j] = s[j]
         /\ \A j \in 1..Len(t) : (s \o t)[Len(s) + j] = t[j]
<1>0. Len(s) \in Nat /\ Len(t) \in Nat
  OBVIOUS
<1>1. s \o t \in Seq(Int) /\ Len(s \o t) = Len(s) + Len(t)
  BY <1>0
<1>2. ASSUME NEW j \in 1..Len(s) PROVE (s \o t)[j] = s[j]
  BY <1>0
<1>3. ASSUME NEW j \in 1..Len(t) PROVE (s \o t)[Len(s) + j] = t[j]
  <2>1. Len(s) + j \in 1..(Len(s) + Len(t)) /\ ~(Len(s) + j <= Len(s)) /\ Len(s) + j - Len(s) = j
    BY <1>0
  <2>2. (s \o t)[Len(s) + j] = t[Len(s) + j - Len(s)]
    BY <2>1, <1>0
  <2>3. QED BY <2>1, <2>2
<1>4. QED BY <1>1, <1>2, <1>3

(* The elements after a replacement.                                         *)
LEMMA ReplaceFacts ==
  ASSUME NEW s \in Seq(Int), NEW k \in 1..Len(s), NEW e \in Int
  PROVE  /\ ReplaceAt(s, k, e) \in Seq(Int)
         /\ Len(ReplaceAt(s, k, e)) = Len(s)
         /\ ReplaceAt(s, k, e)[k] = e
         /\ \A j \in 1..Len(s) : j # k => ReplaceAt(s, k, e)[j] = s[j]
  BY ExceptSeq DEF ReplaceAt

(* The elements after a removal.                                             *)
LEMMA RemoveFacts ==
  ASSUME NEW s \in Seq(Int), NEW k \in 1..Len(s)
  PROVE  /\ RemoveAt(s, k) \in Seq(Int)
         /\ Len(RemoveAt(s, k)) = Len(s) - 1
         /\ \A j \in 1..(k - 1) : RemoveAt(s, k)[j] = s[j]
         /\ \A j \in k..(Len(s) - 1) : RemoveAt(s, k)[j] = s[j + 1]
<1> DEFINE left == SubSeq(s, 1, k - 1)
           right == SubSeq(s, k + 1, Len(s))
           t == left \o right
<1>0. Len(s) \in Nat
  OBVIOUS
<1>1. left \in Seq(Int) /\ Len(left) = k - 1 /\ \A j \in 1..(k - 1) : left[j] = s[j]
  BY <1>0
<1>2. right \in Seq(Int) /\ Len(right) = Len(s) - k /\ \A j \in 1..(Len(s) - k) : right[j] = s[j + k]
  BY <1>0
<1>. HIDE DEF left, right
<1>3. /\ t \in Seq(Int)
      /\ Len(t) = Len(left) + Len(right)
      /\ \A j \in 1..Len(left) : t[j] = left[j]
      /\ \A j \in 1..Len(right) : t[Len(left) + j] = right[j]
  BY <1>1, <1>2, ConcatFacts
<1>. HIDE DEF t
<1>4. ASSUME NEW j \in 1..(k - 1) PROVE t[j] = s[j]
  BY <1>1, <1>3
<1>5. ASSUME NEW j \in k..(Len(s) - 1) PROVE t[j] = s[j + 1]
  <2> DEFINE i == j - k + 1
  <2>1. i \in 1..(Len(s) - k) /\ (k - 1) + i = j /\ i + k = j + 1
    BY <1>0
  <2>. HIDE DEF i
  <2>2. t[(k - 1) + i] = right[i]
    BY <2>1, <1>1, <1>2, <1>3
  <2>3. QED
    BY <2>1, <2>2, <1>2
<1>6. t \in Seq(Int) /\ Len(t) = Len(s) - 1
  BY <1>0, <1>1, <1>2, <1>3
<1>7. RemoveAt(s, k) = t
  BY DEF RemoveAt, t, left, right
<1>8. QED
  BY <1>4, <1>5, <1>6, <1>7
(* The elements after an insertion.                                          *)
LEMMA InsertFacts ==
  ASSUME NEW s \in Seq(Int), NEW k \in 1..(Len(s) + 1), NEW e \in Int
  PROVE  /\ InsertAt(s, k, e) \in Seq(Int)
         /\ Len(InsertAt(s, k, e)) = Len(s) + 1
         /\ \A j \in 1..(k - 1) : InsertAt(s, k, e)[j] = s[j]
         /\ InsertAt(s, k, e)[k] = e
         /\ \A j \in k..Len(s) : InsertAt(s, k, e)[j + 1] = s[j]
<1> DEFINE left == SubSeq(s, 1, k - 1)
           right == SubSeq(s, k, Len(s))
           one == <<e>>
           front == left \o one
           t == front \o right
<1>0. Len(s) \in Nat
  OBVIOUS
<1>1. left \in Seq(Int) /\ Len(left) = k - 1 /\ \A j \in 1..(k - 1) : left[j] = s[j]
  BY <1>0
<1>2. /\ right \in Seq(Int)
      /\ Len(right) = Len(s) - k + 1
      /\ \A j \in 1..(Len(s) - k + 1) : right[j] = s[j + k - 1]
  BY <1>0
<1>3. one \in Seq(Int) /\ Len(one) = 1 /\ one[1] = e
  OBVIOUS
<1>. HIDE DEF left, right, one
<1>4. /\ front \in Seq(Int)
      /\ Len(front) = Len(left) + 1
      /\ \A j \in 1..Len(left) : front[j] = left[j]
      /\ front[Len(left) + 1] = e
  <2>1. /\ front \in Seq(Int)
        /\ Len(front) = Len(left) + Len(one)
        /\ \A j \in 1..Len(left) : front[j] = left[j]
        /\ \A j \in 1..Len(one) : front[Len(left) + j] = one[j]
    BY <1>1, <1>3, ConcatFacts
  <2>. HIDE DEF front
  <2>2. QED
    BY <2>1, <1>3
<1>. HIDE DEF front
<1>5. /\ t \in Seq(Int)
      /\ Len(t) = Len(front) + Len(right)
      /\ \A j \in 1..Len(front) : t[j] = front[j]
      /\ \A j \in 1..Len(right) : t[Len(front) + j] = right[j]
  BY <1>2, <1>4, ConcatFacts
<1>. HIDE DEF t
<1>6. ASSUME NEW j \in 1..(k - 1) PROVE t[j] = s[j]
  BY <1>1, <1>4, <1>5
<1>7. t[k] = e
  BY <1>0, <1>1, <1>4, <1>5
<1>8. ASSUME NEW j \in k..Len(s) PROVE t[j + 1] = s[j]
  <2> DEFINE i == j - k + 1
  <2>1. i \in 1..(Len(s) - k + 1) /\ k + i = j + 1 /\ i + k - 1 = j
    BY <1>0
  <2>. HIDE DEF i
  <2>2. t[k + i] = right[i]
    BY <2>1, <1>1, <1>2, <1>4, <1>5
  <2>3. QED
    BY <2>1, <2>2, <1>2
<1>9. t \in Seq(Int) /\ Len(t) = Len(s) + 1
  BY <1>0, <1>1, <1>2, <1>4, <1>5
<1>10. InsertAt(s, k, e) = t
  BY DEF InsertAt, t, front, one, left, right
<1>11. QED
  BY <1>6, <1>7, <1>8, <1>9, <1>10

(* No element occurs twice.                                                  *)
LEMMA IncreasingDistinct ==
  ASSUME NEW s \in Seq(Int), Increasing(s), NEW k \in 1..Len(s),
         NEW j \in 1..Len(s), j # k
  PROVE  s[j] # s[k]
<1>1. /\ s[j] \in Int /\ s[k] \in Int
      /\ DOMAIN s = 1..Len(s) /\ Len(s) \in Nat
  OBVIOUS
<1>2. s[j] < s[k] \/ s[k] < s[j]
  <2>1. j < k \/ k < j
    BY <1>1
  <2>2. QED
    BY <1>1, <2>1 DEF Increasing
<1>3. QED
  BY <1>1, <1>2

(* Replacing the element at k by one that fits between its neighbours.       *)
LEMMA ReplaceIncreasing ==
  ASSUME NEW s \in Seq(Int), Increasing(s), NEW k \in 1..Len(s), NEW e \in Int,
         \A j \in 1..Len(s) : (j < k => s[j] < e) /\ (k < j => e < s[j])
  PROVE  /\ ReplaceAt(s, k, e) \in Seq(Int)
         /\ Increasing(ReplaceAt(s, k, e))
         /\ Elements(ReplaceAt(s, k, e)) = (Elements(s) \ {s[k]}) \cup {e}
<1> DEFINE t == ReplaceAt(s, k, e)
<1>1. /\ t \in Seq(Int)
      /\ Len(t) = Len(s)
      /\ t[k] = e
      /\ \A j \in 1..Len(s) : j # k => t[j] = s[j]
  BY ReplaceFacts
<1>. HIDE DEF t
<1>2. DOMAIN s = 1..Len(s) /\ DOMAIN t = 1..Len(s) /\ Len(s) \in Nat
  BY <1>1, LenProperties
<1>3. Increasing(t)
  <2> SUFFICES ASSUME NEW i \in 1..Len(s), NEW j \in 1..Len(s), i < j
               PROVE  t[i] < t[j]
    BY <1>2 DEF Increasing
  <2>1. CASE i = k
    BY <2>1, <1>1
  <2>2. CASE j = k
    BY <2>2, <1>1
  <2>3. CASE i # k /\ j # k
    BY <2>3, <1>1, <1>2 DEF Increasing
  <2>4. QED
    BY <2>1, <2>2, <2>3
<1>4. \A j \in 1..Len(s) : j # k => s[j] # s[k]
  BY IncreasingDistinct
<1>5. Elements(t) = (Elements(s) \ {s[k]}) \cup {e}
  <2>1. \A j \in DOMAIN t : t[j] \in (Elements(s) \ {s[k]}) \cup {e}
    BY <1>1, <1>2, <1>4 DEF Elements
  <2>2. e \in Elements(t) /\ \A j \in DOMAIN s : s[j] # s[k] => s[j] \in Elements(t)
    BY <1>1, <1>2 DEF Elements
  <2>3. QED
    BY <2>1, <2>2 DEF Elements
<1>6. QED
  BY <1>1, <1>3, <1>5 DEF t

(* Removing the element at k.                                                *)
LEMMA RemoveIncreasing ==
  ASSUME NEW s \in Seq(Int), Increasing(s), NEW k \in 1..Len(s)
  PROVE  /\ RemoveAt(s, k) \in Seq(Int)
         /\ Increasing(RemoveAt(s, k))
         /\ Elements(RemoveAt(s, k)) = Elements(s) \ {s[k]}
<1> DEFINE t == RemoveAt(s, k)
           from(j) == IF j < k THEN j ELSE j + 1
<1>1. /\ t \in Seq(Int)
      /\ Len(t) = Len(s) - 1
      /\ \A j \in 1..(k - 1) : t[j] = s[j]
      /\ \A j \in k..(Len(s) - 1) : t[j] = s[j + 1]
  BY RemoveFacts
<1>. HIDE DEF t
<1>2. DOMAIN s = 1..Len(s) /\ DOMAIN t = 1..(Len(s) - 1) /\ Len(s) \in Nat
  BY <1>1, LenProperties
<1>3. ASSUME NEW j \in 1..(Len(s) - 1)
      PROVE  from(j) \in 1..Len(s) /\ from(j) # k /\ t[j] = s[from(j)]
  <2>1. CASE j < k
    <3>1. j \in 1..(k - 1) /\ j \in 1..Len(s) /\ j # k
      BY <2>1, <1>2
    <3>2. from(j) = j
      BY <2>1
    <3>3. t[j] = s[j]
      BY <3>1, <1>1
    <3>. HIDE DEF from
    <3>4. QED
      BY <3>1, <3>2, <3>3
  <2>2. CASE ~(j < k)
    <3>1. j \in k..(Len(s) - 1) /\ j + 1 \in 1..Len(s) /\ j + 1 # k
      BY <2>2, <1>2
    <3>2. from(j) = j + 1
      BY <2>2
    <3>3. t[j] = s[j + 1]
      BY <3>1, <1>1
    <3>. HIDE DEF from
    <3>4. QED
      BY <3>1, <3>2, <3>3
  <2>3. QED
    BY <2>1, <2>2
<1>4. Increasing(t)
  <2> SUFFICES ASSUME NEW i \in 1..(Len(s) - 1), NEW j \in 1..(Len(s) - 1), i < j
               PROVE  t[i] < t[j]
    BY <1>2 DEF Increasing
  <2>1. from(i) < from(j)
    BY <1>2
  <2>. HIDE DEF from
  <2>2. QED
    BY <2>1, <1>2, <1>3 DEF Increasing
<1>5. \A j \in 1..Len(s) : j # k => s[j] # s[k]
  BY IncreasingDistinct
<1>6. ASSUME NEW i \in 1..Len(s), i # k
      PROVE  \E j \in 1..(Len(s) - 1) : t[j] = s[i]
  <2>1. CASE i < k
    BY <2>1, <1>1, <1>2
  <2>2. CASE ~(i < k)
    <3>1. i - 1 \in k..(Len(s) - 1) /\ i - 1 \in 1..(Len(s) - 1) /\ i - 1 + 1 = i
      BY <2>2, <1>6, <1>2
    <3>2. QED
      BY <3>1, <1>1
  <2>3. QED
    BY <2>1, <2>2
<1>. HIDE DEF from
<1>7. Elements(t) = Elements(s) \ {s[k]}
  <2>1. \A j \in DOMAIN t : t[j] \in Elements(s) \ {s[k]}
    BY <1>2, <1>3, <1>5 DEF Elements
  <2>2. \A i \in DOMAIN s : s[i] # s[k] => s[i] \in Elements(t)
    BY <1>2, <1>6 DEF Elements
  <2>3. QED
    BY <2>1, <2>2 DEF Elements
<1>8. QED
  BY <1>1, <1>4, <1>7 DEF t

(* Inserting an element at the position where it fits.                       *)
LEMMA InsertIncreasing ==
  ASSUME NEW s \in Seq(Int), Increasing(s), NEW k \in 1..(Len(s) + 1), NEW e \in Int,
         \A j \in 1..Len(s) : (j < k => s[j] < e) /\ (k <= j => e < s[j])
  PROVE  /\ InsertAt(s, k, e) \in Seq(Int)
         /\ Increasing(InsertAt(s, k, e))
         /\ Elements(InsertAt(s, k, e)) = Elements(s) \cup {e}
<1> DEFINE t == InsertAt(s, k, e)
           from(j) == IF j < k THEN j ELSE j - 1
<1>1. /\ t \in Seq(Int)
      /\ Len(t) = Len(s) + 1
      /\ \A j \in 1..(k - 1) : t[j] = s[j]
      /\ t[k] = e
      /\ \A j \in k..Len(s) : t[j + 1] = s[j]
  BY InsertFacts, ZenonT(40)
<1>. HIDE DEF t
<1>2. DOMAIN s = 1..Len(s) /\ DOMAIN t = 1..(Len(s) + 1) /\ Len(s) \in Nat
  BY <1>1, LenProperties
<1>3. ASSUME NEW j \in 1..(Len(s) + 1), j # k
      PROVE  from(j) \in 1..Len(s) /\ t[j] = s[from(j)]
  <2>1. CASE j < k
    BY <2>1, <1>1, <1>2
  <2>2. CASE ~(j < k)
    <3>1. j - 1 \in k..Len(s) /\ j - 1 \in 1..Len(s) /\ j - 1 + 1 = j
      BY <2>2, <1>3, <1>2
    <3>2. t[j] = s[j - 1]
      BY <3>1, <1>1
    <3>3. QED
      BY <3>1, <3>2, <2>2
  <2>3. QED
    BY <2>1, <2>2
<1>4. Increasing(t)
  <2> SUFFICES ASSUME NEW i \in 1..(Len(s) + 1), NEW j \in 1..(Len(s) + 1), i < j
               PROVE  t[i] < t[j]
    BY <1>2 DEF Increasing
  <2>1. CASE i # k /\ j # k
    <3>1. from(i) < from(j)
      BY <2>1, <1>2
    <3>. HIDE DEF from
    <3>2. QED
      BY <2>1, <3>1, <1>2, <1>3 DEF Increasing
  <2>2. CASE i = k
    <3>1. from(j) \in 1..Len(s) /\ k <= from(j) /\ t[j] = s[from(j)] /\ t[i] = e
      BY <2>2, <1>1, <1>2, <1>3
    <3>2. QED
      BY <3>1
  <2>3. CASE j = k
    <3>1. from(i) \in 1..Len(s) /\ from(i) < k /\ t[i] = s[from(i)] /\ t[j] = e
      BY <2>3, <1>1, <1>2, <1>3
    <3>2. QED
      BY <3>1
  <2>4. QED
    BY <2>1, <2>2, <2>3
<1>5. ASSUME NEW i \in 1..Len(s)
      PROVE  \E j \in 1..(Len(s) + 1) : t[j] = s[i]
  <2>1. CASE i < k
    BY <2>1, <1>1, <1>2
  <2>2. CASE ~(i < k)
    <3>1. i \in k..Len(s) /\ i + 1 \in 1..(Len(s) + 1)
      BY <2>2, <1>2
    <3>2. QED
      BY <3>1, <1>1
  <2>3. QED
    BY <2>1, <2>2
<1>6. k \in 1..(Len(s) + 1) /\ t[k] = e
  BY <1>1
<1>. HIDE DEF from
<1>7. Elements(t) = Elements(s) \cup {e}
  <2>1. \A j \in DOMAIN t : t[j] \in Elements(s) \cup {e}
    BY <1>2, <1>3, <1>6 DEF Elements
  <2>2. \A i \in DOMAIN s : s[i] \in Elements(t)
    BY <1>2, <1>5 DEF Elements
  <2>3. e \in Elements(t)
    BY <1>2, <1>6 DEF Elements
  <2>4. QED
    BY <2>1, <2>2, <2>3 DEF Elements
<1>8. QED
  BY <1>1, <1>4, <1>7 DEF t

(* Inserting an element and removing it again changes nothing.               *)
LEMMA InsertUndone ==
  ASSUME NEW s \in Seq(Int), NEW k \in 1..(Len(s) + 1), NEW e \in Int
  PROVE  RemoveAt(InsertAt(s, k, e), k) = s
<1> DEFINE t == InsertAt(s, k, e)
           u == RemoveAt(t, k)
<1>0. Len(s) \in Nat
  OBVIOUS
<1>1. /\ t \in Seq(Int) /\ Len(t) = Len(s) + 1
      /\ \A j \in 1..(k - 1) : t[j] = s[j]
      /\ \A j \in k..Len(s) : t[j + 1] = s[j]
  BY InsertFacts
<1>. HIDE DEF t
<1>2. k \in 1..Len(t)
  BY <1>0, <1>1
<1>3. /\ u \in Seq(Int) /\ Len(u) = Len(t) - 1
      /\ \A j \in 1..(k - 1) : u[j] = t[j]
      /\ \A j \in k..(Len(t) - 1) : u[j] = t[j + 1]
  BY <1>1, <1>2, RemoveFacts
<1>. HIDE DEF u
<1>4. Len(u) = Len(s)
  BY <1>0, <1>1, <1>3
<1>5. ASSUME NEW j \in 1..Len(u) PROVE u[j] = s[j]
  <2>1. j \in 1..(k - 1) \/ (j \in k..Len(s) /\ j \in k..(Len(t) - 1))
    BY <1>0, <1>1, <1>4, <1>5
  <2>2. QED
    BY <1>1, <1>3, <2>1
<1>6. u = s
  BY <1>3, <1>4, <1>5, SeqEqual
<1>7. QED
  BY <1>6 DEF t, u

(* Removing an element and inserting it again changes nothing.               *)
LEMMA RemoveUndone ==
  ASSUME NEW s \in Seq(Int), NEW k \in 1..Len(s)
  PROVE  InsertAt(RemoveAt(s, k), k, s[k]) = s
<1> DEFINE t == RemoveAt(s, k)
           u == InsertAt(t, k, s[k])
<1>0. Len(s) \in Nat /\ s[k] \in Int
  OBVIOUS
<1>1. /\ t \in Seq(Int) /\ Len(t) = Len(s) - 1
      /\ \A j \in 1..(k - 1) : t[j] = s[j]
      /\ \A j \in k..(Len(s) - 1) : t[j] = s[j + 1]
  BY RemoveFacts
<1>. HIDE DEF t
<1>2. k \in 1..(Len(t) + 1)
  BY <1>0, <1>1
<1>3. /\ u \in Seq(Int) /\ Len(u) = Len(t) + 1
      /\ \A j \in 1..(k - 1) : u[j] = t[j]
      /\ u[k] = s[k]
      /\ \A j \in k..Len(t) : u[j + 1] = t[j]
  BY <1>0, <1>1, <1>2, InsertFacts
<1>. HIDE DEF u
<1>4. Len(u) = Len(s)
  BY <1>0, <1>1, <1>3
<1>5. ASSUME NEW j \in 1..Len(u) PROVE u[j] = s[j]
  <2>1. j \in 1..(k - 1) \/ j = k \/ j - 1 \in k..(Len(s) - 1)
    BY <1>0, <1>4, <1>5
  <2>2. CASE j - 1 \in k..(Len(s) - 1)
    <3>1. u[(j - 1) + 1] = t[j - 1] /\ t[j - 1] = s[(j - 1) + 1]
      BY <1>0, <1>1, <1>3, <2>2
    <3>2. (j - 1) + 1 = j
      BY <1>0, <1>4
    <3>3. QED
      BY <3>1, <3>2
  <2>3. QED
    BY <1>1, <1>3, <2>1, <2>2
<1>6. u = s
  BY <1>3, <1>4, <1>5, SeqEqual
<1>7. QED
  BY <1>6 DEF t, u

(* Replacing an element and putting it back changes nothing.                 *)
LEMMA ReplaceUndone ==
  ASSUME NEW s \in Seq(Int), NEW k \in 1..Len(s), NEW e \in Int
  PROVE  ReplaceAt(ReplaceAt(s, k, e), k, s[k]) = s
<1> DEFINE t == ReplaceAt(s, k, e)
           u == ReplaceAt(t, k, s[k])
<1>0. s[k] \in Int
  OBVIOUS
<1>1. t \in Seq(Int) /\ Len(t) = Len(s) /\ \A j \in 1..Len(s) : j # k => t[j] = s[j]
  BY ReplaceFacts
<1>. HIDE DEF t
<1>2. /\ u \in Seq(Int) /\ Len(u) = Len(s) /\ u[k] = s[k]
      /\ \A j \in 1..Len(s) : j # k => u[j] = t[j]
  BY <1>0, <1>1, ReplaceFacts
<1>. HIDE DEF u
<1>3. u = s
  BY <1>1, <1>2, SeqEqual
<1>4. QED
  BY <1>3 DEF t, u

=============================================================================
