--------------------------- MODULE AllocatorHeaps ---------------------------
(***************************************************************************)
(* What each way of rewriting the allocator's heap does to it: lemmas      *)
(* about values of the memory m, the set F of free blocks, the set L of    *)
(* owned blocks and the top of the heap, for callers that never ask for an *)
(* empty payload nor store an external header, in a memory whose size fits *)
(* in a block header.                                                      *)
(***************************************************************************)
EXTENDS Allocator, TLAPS

(* Tilings of an interval of addresses by blocks.  The blocks are given by   *)
(* the set B of their first addresses and a function s from these to their   *)
(* sizes.  Each lemma is one way in which the allocator changes its heap.    *)
Sizes(s, B) == B \subseteq Int /\ \A b \in B : s[b] \in Int

(* The blocks lie between base and top, are disjoint and leave no gap.       *)
Tiles(s, B, base, top) ==
  /\ \A b \in B : base <= b /\ b < b + s[b] /\ b + s[b] <= top
  /\ \A b, c \in B : b < c => b + s[b] <= c
  /\ \A a \in base..(top - 1) : \E b \in B : b <= a /\ a < b + s[b]

(* A tiling depends only on the sizes of its blocks.                         *)
LEMMA TilesSame ==
  ASSUME NEW s, NEW t, NEW B, NEW base \in Int, NEW top \in Int,
         Sizes(s, B), Tiles(s, B, base, top), \A b \in B : t[b] = s[b]
  PROVE  Sizes(t, B) /\ Tiles(t, B, base, top)
<1>1. Sizes(t, B)
  BY DEF Sizes
<1>2. QED
  BY <1>1 DEF Tiles

(* All blocks but the one that ends at the top lie below it.                 *)
LEMMA TilesLast ==
  ASSUME NEW s, NEW B, NEW base \in Int, NEW top \in Int,
         Sizes(s, B), Tiles(s, B, base, top),
         NEW b \in B, b + s[b] = top
  PROVE  \A c \in B : c # b => c + s[c] <= b
<1> SUFFICES ASSUME NEW c \in B, c # b
             PROVE  c + s[c] <= b
  OBVIOUS
<1>1. b \in Int /\ c \in Int /\ s[b] \in Int /\ s[c] \in Int
  BY DEF Sizes
<1>2. ~(b < c)
  BY <1>1 DEF Tiles
<1>3. QED
  BY <1>1, <1>2 DEF Tiles

(* A block of n granules appended at the top.                                *)
LEMMA TilesPush ==
  ASSUME NEW s, NEW t, NEW B, NEW base \in Int, NEW top \in Int,
         Sizes(s, B), Tiles(s, B, base, top), base <= top,
         NEW n \in Nat \ {0},
         t[top] = n, \A b \in B : t[b] = s[b]
  PROVE  /\ top \notin B
         /\ Sizes(t, B \cup {top})
         /\ Tiles(t, B \cup {top}, base, top + n)
<1>1. top \notin B
  BY DEF Sizes, Tiles
<1>2. Sizes(t, B \cup {top})
  BY DEF Sizes
<1>3. ASSUME NEW b \in B \cup {top}
      PROVE  base <= b /\ b < b + t[b] /\ b + t[b] <= top + n
  BY DEF Sizes, Tiles
<1>4. ASSUME NEW b \in B \cup {top}, NEW c \in B \cup {top}, b < c
      PROVE  b + t[b] <= c
  BY <1>4 DEF Sizes, Tiles
<1>5. ASSUME NEW a \in base..(top + n - 1)
      PROVE  \E b \in B \cup {top} : b <= a /\ a < b + t[b]
  <2>1. CASE a < top
    <3>1. a \in base..(top - 1)
      BY <2>1
    <3>2. QED
      BY <3>1 DEF Tiles
  <2>2. CASE ~(a < top)
    BY <2>2
  <2>3. QED
    BY <2>1, <2>2
<1>6. QED
  BY <1>1, <1>2, <1>3, <1>4, <1>5 DEF Tiles

(* The block that ends at the top removed.                                   *)
LEMMA TilesPop ==
  ASSUME NEW s, NEW B, NEW base \in Int, NEW top \in Int,
         Sizes(s, B), Tiles(s, B, base, top),
         NEW b \in B, b + s[b] = top
  PROVE  /\ Sizes(s, B \ {b})
         /\ Tiles(s, B \ {b}, base, b)
<1>1. Sizes(s, B \ {b})
  BY DEF Sizes
<1>2. \A c \in B : c # b => c + s[c] <= b
  BY TilesLast
<1>3. b \in Int /\ s[b] \in Int
  BY DEF Sizes
<1>4. ASSUME NEW c \in B \ {b}
      PROVE  base <= c /\ c < c + s[c] /\ c + s[c] <= b
  BY <1>2 DEF Tiles
<1>5. ASSUME NEW a \in base..(b - 1)
      PROVE  \E c \in B \ {b} : c <= a /\ a < c + s[c]
  <2>1. a \in base..(top - 1) /\ a < b
    BY <1>3 DEF Tiles
  <2>2. PICK c \in B : c <= a /\ a < c + s[c]
    BY <2>1 DEF Tiles
  <2>3. c # b
    BY <2>1, <2>2, <1>3
  <2>4. QED
    BY <2>2, <2>3
<1>6. QED
  BY <1>1, <1>4, <1>5 DEF Tiles

(* The block that ends at the top resized to n granules.                     *)
LEMMA TilesResize ==
  ASSUME NEW s, NEW t, NEW B, NEW base \in Int, NEW top \in Int,
         Sizes(s, B), Tiles(s, B, base, top),
         NEW b \in B, b + s[b] = top, NEW n \in Nat \ {0},
         t[b] = n, \A c \in B : c # b => t[c] = s[c]
  PROVE  /\ Sizes(t, B)
         /\ Tiles(t, B, base, b + n)
<1>1. b \in Int /\ base <= b
  BY DEF Sizes, Tiles
<1>2. Sizes(s, B \ {b}) /\ Tiles(s, B \ {b}, base, b)
  BY TilesPop
<1>3. \A c \in B \ {b} : t[c] = s[c]
  OBVIOUS
<1>4. Sizes(t, (B \ {b}) \cup {b}) /\ Tiles(t, (B \ {b}) \cup {b}, base, b + n)
  BY <1>1, <1>2, <1>3, TilesPush
<1>5. (B \ {b}) \cup {b} = B
  OBVIOUS
<1>6. QED
  BY <1>4, <1>5

(* A block split in two, the first of n granules.                            *)
LEMMA TilesSplit ==
  ASSUME NEW s, NEW t, NEW B, NEW base \in Int, NEW top \in Int,
         Sizes(s, B), Tiles(s, B, base, top),
         NEW b \in B, NEW n \in Nat \ {0}, n < s[b],
         t[b] = n, t[b + n] = s[b] - n,
         \A c \in B : c # b => t[c] = s[c]
  PROVE  /\ b + n \notin B
         /\ Sizes(t, B \cup {b + n})
         /\ Tiles(t, B \cup {b + n}, base, top)
<1>1. b \in Int /\ s[b] \in Int /\ base <= b /\ b + s[b] <= top
  BY DEF Sizes, Tiles
<1>2. b + n \notin B
  BY <1>1 DEF Sizes, Tiles
<1>3. Sizes(t, B \cup {b + n})
  BY <1>1 DEF Sizes
<1>4. ASSUME NEW c \in B \cup {b + n}
      PROVE  base <= c /\ c < c + t[c] /\ c + t[c] <= top
  BY <1>1 DEF Sizes, Tiles
<1>5. ASSUME NEW c \in B, c # b
      PROVE  c + s[c] <= b \/ b + s[b] <= c
  BY <1>1, <1>5 DEF Sizes, Tiles
<1>6. ASSUME NEW c \in B \cup {b + n}, NEW d \in B \cup {b + n}, c < d
      PROVE  c + t[c] <= d
  <2>1. CASE c = b + n
    BY <2>1, <1>1, <1>5, <1>6 DEF Sizes, Tiles
  <2>2. CASE d = b + n /\ c = b
    BY <2>2, <1>1
  <2>3. CASE d = b + n /\ c # b /\ c \in B
    BY <2>3, <1>1, <1>5, <1>6 DEF Sizes, Tiles
  <2>4. CASE c = b /\ d \in B
    BY <2>4, <1>1, <1>6 DEF Sizes, Tiles
  <2>5. CASE c # b /\ c \in B /\ d \in B
    BY <2>5, <1>6 DEF Sizes, Tiles
  <2>6. QED
    BY <2>1, <2>2, <2>3, <2>4, <2>5
<1>7. ASSUME NEW a \in base..(top - 1)
      PROVE  \E c \in B \cup {b + n} : c <= a /\ a < c + t[c]
  <2>1. PICK c \in B : c <= a /\ a < c + s[c]
    BY DEF Tiles
  <2>2. CASE c # b
    BY <2>1, <2>2
  <2>3. CASE c = b
    <3>1. CASE a < b + n
      BY <2>1, <2>3, <3>1
    <3>2. CASE ~(a < b + n)
      BY <2>1, <2>3, <3>2, <1>1
    <3>3. QED
      BY <3>1, <3>2
  <2>4. QED
    BY <2>2, <2>3
<1>8. QED
  BY <1>2, <1>3, <1>4, <1>6, <1>7 DEF Tiles

(* Two adjacent blocks merged into the first.                                *)
LEMMA TilesMerge ==
  ASSUME NEW s, NEW t, NEW B, NEW base \in Int, NEW top \in Int,
         Sizes(s, B), Tiles(s, B, base, top),
         NEW b \in B, NEW c \in B, b + s[b] = c,
         t[b] = s[b] + s[c],
         \A d \in B : d # b /\ d # c => t[d] = s[d]
  PROVE  /\ Sizes(t, B \ {c})
         /\ Tiles(t, B \ {c}, base, top)
<1>1. b \in Int /\ c \in Int /\ s[b] \in Int /\ s[c] \in Int /\ b < c
  BY DEF Sizes, Tiles
<1>2. Sizes(t, B \ {c})
  BY <1>1 DEF Sizes
<1>3. ASSUME NEW d \in B \ {c}
      PROVE  base <= d /\ d < d + t[d] /\ d + t[d] <= top
  BY <1>1 DEF Sizes, Tiles
<1>4. ASSUME NEW d \in B \ {c}, NEW e \in B \ {c}, d < e
      PROVE  d + t[d] <= e
  <2>1. CASE d = b
    <3>1. c < e
      BY <2>1, <1>1, <1>4 DEF Sizes, Tiles
    <3>2. QED
      BY <3>1, <2>1, <1>1 DEF Tiles
  <2>2. CASE d # b
    BY <2>2, <1>4 DEF Sizes, Tiles
  <2>3. QED
    BY <2>1, <2>2
<1>5. ASSUME NEW a \in base..(top - 1)
      PROVE  \E d \in B \ {c} : d <= a /\ a < d + t[d]
  <2>1. PICK d \in B : d <= a /\ a < d + s[d]
    BY DEF Tiles
  <2>2. CASE d = b \/ d = c
    <3>1. b <= a /\ a < b + t[b] /\ b \in B \ {c}
      BY <2>1, <2>2, <1>1 DEF Tiles
    <3>2. QED
      BY <3>1
  <2>3. CASE d # b /\ d # c
    BY <2>1, <2>3
  <2>4. QED
    BY <2>2, <2>3
<1>6. QED
  BY <1>2, <1>3, <1>4, <1>5 DEF Tiles

-----------------------------------------------------------------------------
PlainCallers ==
  /\ MaxMemory <= WordLimit
  /\ Payloads \subseteq Nat \ {0}
  /\ \A w \in Words : ~w.external

Size(m, b) == m[b].size

SizeOf(m) == [a \in Addr |-> Size(m, a)]

PlainMemory(m) == m \in [Addr -> Word] /\ \A a \in Addr : ~m[a].external

Heap(m, F, L, top) ==
  /\ PlainMemory(m)
  /\ top \in HeapBase..MaxMemory
  /\ F \cup L \subseteq Addr
  /\ F \cap L = {}
  /\ Tiles(SizeOf(m), F \cup L, HeapBase, top)
  /\ \A b \in L : m[b].alloc /\ Size(m, b) >= HeaderSize + 1
  /\ \A b \in F : ~m[b].alloc

(* Memory m with the granule at b overwritten by h.                          *)
Put(m, b, h) == [m EXCEPT ![b] = h]

(* The headers of an owned and of a free block of n granules.                *)
Taken(n) == Header(n, TRUE)
Vacant(n) == Header(n, FALSE)

(* Memory m with the block at b taken whole, freed, split after n granules,  *)
(* and merged with the block at c.                                           *)
TakenWhole(m, b) == Put(m, b, Taken(Size(m, b)))
Freed(m, b) == Put(m, b, Vacant(Size(m, b)))
SplitAt(m, b, n) == Put(Put(m, b + n, Vacant(Size(m, b) - n)), b, Taken(n))
Merged(m, b, c) == Put(m, b, Vacant(Size(m, b) + Size(m, c)))

(* No free block ends where another free block starts.                       *)
Apart(m, F) == \A b, c \in F : b + Size(m, b) # c

-----------------------------------------------------------------------------
(* A header holds the size and the allocation bit it is given.               *)
LEMMA HeaderFacts ==
  ASSUME NEW n \in 0..(WordLimit - 1)
  PROVE  /\ Taken(n) = [size |-> n, alloc |-> TRUE, external |-> FALSE]
         /\ Vacant(n) = [size |-> n, alloc |-> FALSE, external |-> FALSE]
<1>1. n < WordLimit /\ ~(n >= WordLimit)
  BY ConstantsAssumption
<1>2. QED
  BY <1>1 DEF Header, Taken, Vacant

(* Writing one header changes that granule only.                             *)
LEMMA PutFacts ==
  ASSUME NEW m, PlainMemory(m), NEW b \in Addr, NEW h \in Word, ~h.external
  PROVE  /\ PlainMemory(Put(m, b, h))
         /\ Put(m, b, h)[b] = h
         /\ \A a \in Addr : a # b => Put(m, b, h)[a] = m[a]
<1> DEFINE t == Put(m, b, h)
<1>1. /\ t \in [Addr -> Word]
      /\ t[b] = h
      /\ \A a \in Addr : a # b => t[a] = m[a]
  BY DEF PlainMemory, Put
<1>. HIDE DEF t
<1>2. \A a \in Addr : ~t[a].external
  BY <1>1 DEF PlainMemory
<1>3. PlainMemory(t)
  BY <1>1, <1>2 DEF PlainMemory
<1>4. QED
  BY <1>1, <1>3 DEF t

(* Writing the header of an owned block.                                     *)
LEMMA PutAllocated ==
  ASSUME NEW m, PlainMemory(m), NEW b \in Addr, NEW n \in 0..(WordLimit - 1)
  PROVE  /\ PlainMemory(Put(m, b, Taken(n)))
         /\ Size(Put(m, b, Taken(n)), b) = n
         /\ Put(m, b, Taken(n))[b].alloc
         /\ \A a \in Addr : a # b => Put(m, b, Taken(n))[a] = m[a] /\ Size(Put(m, b, Taken(n)), a) = Size(m, a)
<1> DEFINE h == Taken(n)
<1>1. h = [size |-> n, alloc |-> TRUE, external |-> FALSE]
  BY HeaderFacts
<1>. HIDE DEF h
<1>2. h \in Word /\ ~h.external /\ h.size = n /\ h.alloc
  BY <1>1 DEF Word
<1>3. /\ PlainMemory(Put(m, b, h))
      /\ Put(m, b, h)[b] = h
      /\ \A a \in Addr : a # b => Put(m, b, h)[a] = m[a]
  BY <1>2, PutFacts
<1>4. QED
  BY <1>2, <1>3 DEF h, Size

(* Writing the header of a free block.                                       *)
LEMMA PutFree ==
  ASSUME NEW m, PlainMemory(m), NEW b \in Addr, NEW n \in 0..(WordLimit - 1)
  PROVE  /\ PlainMemory(Put(m, b, Vacant(n)))
         /\ Size(Put(m, b, Vacant(n)), b) = n
         /\ ~Put(m, b, Vacant(n))[b].alloc
         /\ \A a \in Addr : a # b => Put(m, b, Vacant(n))[a] = m[a] /\ Size(Put(m, b, Vacant(n)), a) = Size(m, a)
<1> DEFINE h == Vacant(n)
<1>1. h = [size |-> n, alloc |-> FALSE, external |-> FALSE]
  BY HeaderFacts
<1>. HIDE DEF h
<1>2. h \in Word /\ ~h.external /\ h.size = n /\ ~h.alloc
  BY <1>1 DEF Word
<1>3. /\ PlainMemory(Put(m, b, h))
      /\ Put(m, b, h)[b] = h
      /\ \A a \in Addr : a # b => Put(m, b, h)[a] = m[a]
  BY <1>2, PutFacts
<1>4. QED
  BY <1>2, <1>3 DEF h, Size

(* The sizes of the granules of m.                                           *)
LEMMA SizeOfFacts ==
  ASSUME NEW m, NEW a \in Addr
  PROVE  SizeOf(m)[a] = Size(m, a)
  BY DEF SizeOf

(* A block of a heap.                                                        *)
LEMMA BlockFacts ==
  ASSUME NEW m, NEW F, NEW L, NEW top, Heap(m, F, L, top), NEW b \in F \cup L
  PROVE  /\ b \in Addr /\ b \in Int /\ HeapBase <= b
         /\ Size(m, b) \in Nat \ {0}
         /\ Size(m, b) \in 0..(WordLimit - 1)
         /\ SizeOf(m)[b] = Size(m, b)
         /\ b + Size(m, b) <= top
         /\ Size(m, b) < MaxMemory
<1>1. b \in Addr /\ b \in Int /\ m[b] \in Word
  BY ConstantsAssumption DEF Heap, PlainMemory, Addr
<1>2. Size(m, b) \in 0..(WordLimit - 1) /\ SizeOf(m)[b] = Size(m, b)
  BY <1>1, SizeOfFacts DEF Word, Size
<1>3. HeapBase <= b /\ b < b + SizeOf(m)[b] /\ b + SizeOf(m)[b] <= top
  BY DEF Heap, Tiles
<1>4. top \in Int /\ top <= MaxMemory /\ HeapBase \in Nat \ {0} /\ MaxMemory \in Int
  BY ConstantsAssumption DEF Heap
<1>5. QED
  BY <1>1, <1>2, <1>3, <1>4

(* The tiling of a heap.                                                     *)
LEMMA HeapTiles ==
  ASSUME NEW m, NEW F, NEW L, NEW top, Heap(m, F, L, top)
  PROVE  /\ HeapBase \in Int
         /\ top \in Int
         /\ HeapBase <= top
         /\ F \cup L \subseteq Addr
         /\ Sizes(SizeOf(m), F \cup L)
         /\ Tiles(SizeOf(m), F \cup L, HeapBase, top)
<1>1. Sizes(SizeOf(m), F \cup L)
  BY BlockFacts DEF Sizes
<1>2. QED
  BY <1>1, ConstantsAssumption DEF Heap

(* Two blocks of a heap do not overlap.                                      *)
LEMMA BlocksDisjoint ==
  ASSUME NEW m, NEW F, NEW L, NEW top, Heap(m, F, L, top),
         NEW b \in F \cup L, NEW c \in F \cup L, b < c
  PROVE  b + Size(m, b) <= c
<1>1. SizeOf(m)[b] = Size(m, b)
  BY BlockFacts
<1>2. QED
  BY <1>1 DEF Heap, Tiles

(* Two heaps whose blocks have the same sizes are tiled alike.               *)
LEMMA TilesAlike ==
  ASSUME NEW m, NEW F, NEW L, NEW top, Heap(m, F, L, top),
         NEW t, \A c \in F \cup L : Size(t, c) = Size(m, c)
  PROVE  Tiles(SizeOf(t), F \cup L, HeapBase, top)
<1> DEFINE B == F \cup L
<1>1. /\ HeapBase \in Int /\ top \in Int /\ B \subseteq Addr
      /\ Sizes(SizeOf(m), B) /\ Tiles(SizeOf(m), B, HeapBase, top)
  BY HeapTiles
<1>. HIDE DEF B
<1>2. \A c \in B : SizeOf(t)[c] = SizeOf(m)[c]
  BY <1>1, SizeOfFacts DEF B
<1>3. Tiles(SizeOf(t), B, HeapBase, top)
  BY <1>1, <1>2, TilesSame
<1>4. QED
  BY <1>3 DEF B

-----------------------------------------------------------------------------
(* The nine ways of changing the heap.                                       *)

(* Storing into the payload of an owned block.                               *)
LEMMA HeapStore ==
  ASSUME NEW m, NEW F, NEW L, NEW top, Heap(m, F, L, top),
         NEW b \in L, NEW t, PlainMemory(t),
         \A a \in Addr : ~(b < a /\ a < b + Size(m, b)) => t[a] = m[a]
  PROVE  Heap(t, F, L, top) /\ \A c \in F \cup L : Size(t, c) = Size(m, c)
<1>1. \A c \in F \cup L : t[c] = m[c]
  <2> SUFFICES ASSUME NEW c \in F \cup L PROVE t[c] = m[c]
    OBVIOUS
  <2>0. b \in F \cup L
    OBVIOUS
  <2>1. b \in Int /\ c \in Int /\ c \in Addr /\ Size(m, b) \in Int
        /\ SizeOf(m)[b] = Size(m, b)
    BY <2>0, BlockFacts
  <2>2. ~(b < c /\ c < b + Size(m, b))
    BY <2>1 DEF Heap, Tiles
  <2>3. QED
    BY <2>1, <2>2
<1>2. \A c \in F \cup L : Size(t, c) = Size(m, c)
  BY <1>1 DEF Size
<1>3. Tiles(SizeOf(t), F \cup L, HeapBase, top)
  BY <1>2, TilesAlike
<1>4. QED
  BY <1>1, <1>2, <1>3 DEF Heap

(* A block of n granules taken from the wilderness.                          *)
LEMMA HeapPush ==
  ASSUME NEW m, NEW F, NEW L, NEW top, Heap(m, F, L, top),
         NEW n \in Nat, n >= HeaderSize + 1, n < WordLimit, top + n <= MaxMemory
  PROVE  /\ Heap(Put(m, top, Taken(n)), F, L \cup {top}, top + n)
         /\ Size(Put(m, top, Taken(n)), top) = n
         /\ top \notin F \cup L
         /\ \A b \in F \cup L : Size(Put(m, top, Taken(n)), b) = Size(m, b)
<1> DEFINE t == Put(m, top, Taken(n))
<1>0. top \in Addr /\ top \in Nat /\ n \in Nat \ {0} /\ n \in 0..(WordLimit - 1) /\ HeapBase <= top
      /\ top + n \in HeapBase..MaxMemory /\ HeapBase \in Int /\ top \in Int
  BY ConstantsAssumption DEF Heap, Addr, HeaderSize
<1>1. /\ PlainMemory(t) /\ Size(t, top) = n /\ t[top].alloc
      /\ \A a \in Addr : a # top => t[a] = m[a] /\ Size(t, a) = Size(m, a)
  BY <1>0, PutAllocated DEF Heap
<1> DEFINE B == F \cup L
<1>2. Sizes(SizeOf(m), B) /\ Tiles(SizeOf(m), B, HeapBase, top) /\ B \subseteq Addr
  BY HeapTiles
<1>. HIDE DEF B, t
<1>3. top \notin B
  BY <1>0, <1>2 DEF Sizes, Tiles
<1>4. SizeOf(t)[top] = n /\ \A b \in B : SizeOf(t)[b] = SizeOf(m)[b]
  BY <1>0, <1>1, <1>2, <1>3, SizeOfFacts
<1>5. Tiles(SizeOf(t), B \cup {top}, HeapBase, top + n)
  BY <1>0, <1>2, <1>4, TilesPush, ZenonT(40)
<1>6. F \cup (L \cup {top}) = B \cup {top}
  BY DEF B
<1>7. top \notin F /\ top \notin L /\ \A b \in F \cup L : t[b] = m[b] /\ Size(t, b) = Size(m, b)
  BY <1>1, <1>2, <1>3 DEF B
<1>8. QED
  BY <1>0, <1>1, <1>5, <1>6, <1>7 DEF Heap, HeaderSize, t

(* A free block taken whole.                                                 *)
LEMMA HeapTake ==
  ASSUME NEW m, NEW F, NEW L, NEW top, Heap(m, F, L, top),
         NEW b \in F, Size(m, b) >= HeaderSize + 1
  PROVE  /\ Heap(TakenWhole(m, b), F \ {b}, L \cup {b}, top)
         /\ \A c \in F \cup L : Size(TakenWhole(m, b), c) = Size(m, c)
<1> DEFINE t == TakenWhole(m, b)
<1>0. b \in Addr /\ Size(m, b) \in 0..(WordLimit - 1) /\ b \in F \cup L
  BY BlockFacts
<1>1. /\ PlainMemory(t) /\ Size(t, b) = Size(m, b) /\ t[b].alloc
      /\ \A a \in Addr : a # b => t[a] = m[a] /\ Size(t, a) = Size(m, a)
  BY <1>0, PutAllocated DEF Heap, TakenWhole
<1>2. F \cup L \subseteq Addr /\ (F \ {b}) \cup (L \cup {b}) = F \cup L
  BY DEF Heap
<1>3. \A c \in F \cup L : Size(t, c) = Size(m, c)
  BY <1>1, <1>2
<1>4. Tiles(SizeOf(t), F \cup L, HeapBase, top)
  BY <1>3, TilesAlike
<1>5. QED
  BY <1>1, <1>2, <1>3, <1>4 DEF Heap, t

(* An owned block put on the free list.                                      *)
LEMMA HeapFree ==
  ASSUME NEW m, NEW F, NEW L, NEW top, Heap(m, F, L, top),
         NEW b \in L
  PROVE  /\ Heap(Freed(m, b), F \cup {b}, L \ {b}, top)
         /\ \A c \in F \cup L : Size(Freed(m, b), c) = Size(m, c)
<1> DEFINE t == Freed(m, b)
<1>0. b \in Addr /\ Size(m, b) \in 0..(WordLimit - 1) /\ b \in F \cup L
  BY BlockFacts
<1>1. /\ PlainMemory(t) /\ Size(t, b) = Size(m, b) /\ ~t[b].alloc
      /\ \A a \in Addr : a # b => t[a] = m[a] /\ Size(t, a) = Size(m, a)
  BY <1>0, PutFree DEF Heap, Freed
<1>2. F \cup L \subseteq Addr /\ (F \cup {b}) \cup (L \ {b}) = F \cup L
  BY DEF Heap
<1>3. \A c \in F \cup L : Size(t, c) = Size(m, c)
  BY <1>1, <1>2
<1>4. Tiles(SizeOf(t), F \cup L, HeapBase, top)
  BY <1>3, TilesAlike
<1>5. QED
  BY <1>1, <1>2, <1>3, <1>4 DEF Heap, t

(* Splitting a free block changes no other header.                           *)
LEMMA SplitSizes ==
  ASSUME NEW m, NEW F, NEW L, NEW top, NEW b, NEW n, NEW c,
         Heap(m, F, L, top),
         b \in F, n \in Nat, n >= HeaderSize + 1, n < Size(m, b), c = b + n
  PROVE  /\ PlainMemory(SplitAt(m, b, n))
         /\ Size(SplitAt(m, b, n), b) = n
         /\ Size(SplitAt(m, b, n), c) = Size(m, b) - n
         /\ SplitAt(m, b, n)[b].alloc
         /\ ~SplitAt(m, b, n)[c].alloc
         /\ c \in Addr
         /\ c \notin F \cup L
         /\ \A d \in F \cup L :
              d # b => /\ SplitAt(m, b, n)[d] = m[d]
                       /\ Size(SplitAt(m, b, n), d) = Size(m, d)
<1> DEFINE B == F \cup L
           r == Size(m, b) - n
           u == Put(m, c, Vacant(r))
           t == Put(u, b, Taken(n))
<1>0. /\ b \in Addr /\ b \in Int /\ HeapBase <= b /\ n \in 0..(WordLimit - 1)
      /\ Size(m, b) \in Int /\ SizeOf(m)[b] = Size(m, b)
      /\ r \in 0..(WordLimit - 1) /\ c \in Addr /\ c \in Int /\ c # b
  <2>1. b \in F \cup L
    OBVIOUS
  <2>2. /\ b \in Addr /\ b \in Int /\ HeapBase <= b
        /\ Size(m, b) \in 0..(WordLimit - 1)
        /\ SizeOf(m)[b] = Size(m, b)
        /\ b + Size(m, b) <= top
    BY <2>1, BlockFacts
  <2>3. top \in Int /\ top <= MaxMemory
    BY ConstantsAssumption DEF Heap
  <2>4. QED
    BY <2>2, <2>3, ConstantsAssumption DEF HeaderSize, Addr
<1>1. /\ HeapBase \in Int /\ top \in Int /\ B \subseteq Addr
      /\ Sizes(SizeOf(m), B) /\ Tiles(SizeOf(m), B, HeapBase, top)
  BY HeapTiles
<1>2. c \notin B
  <2>1. b \in B /\ b < c /\ c < b + SizeOf(m)[b]
    BY <1>0 DEF B, HeaderSize
  <2>. HIDE DEF B
  <2>2. QED
    BY <2>1, <1>0, <1>1 DEF Sizes, Tiles
<1>. HIDE DEF B, r, u, t
<1>3. /\ PlainMemory(u) /\ Size(u, c) = r /\ ~u[c].alloc
      /\ \A a \in Addr : a # c => u[a] = m[a] /\ Size(u, a) = Size(m, a)
  BY <1>0, PutFree DEF Heap, u
<1>4. /\ PlainMemory(t) /\ Size(t, b) = n /\ t[b].alloc
      /\ \A a \in Addr : a # b => t[a] = u[a] /\ Size(t, a) = Size(u, a)
  BY <1>0, <1>3, PutAllocated DEF t
<1>5. Size(t, c) = r /\ ~t[c].alloc
  BY <1>0, <1>3, <1>4
<1>6. \A d \in B : d # b => t[d] = m[d] /\ Size(t, d) = Size(m, d)
  BY <1>1, <1>2, <1>3, <1>4
<1>7. t = SplitAt(m, b, n)
  BY DEF t, u, r, SplitAt
<1>8. QED
  BY <1>0, <1>2, <1>4, <1>5, <1>6, <1>7 DEF B, r

(* A free block split: its first n granules taken, the rest free.            *)
LEMMA HeapSplit ==
  ASSUME NEW m, NEW F, NEW L, NEW top, NEW b, NEW n, NEW c, NEW G, NEW K,
         Heap(m, F, L, top),
         b \in F, n \in Nat, n >= HeaderSize + 1, n < Size(m, b), c = b + n,
         G = (F \ {b}) \cup {c}, K = L \cup {b}
  PROVE  Heap(SplitAt(m, b, n), G, K, top)
<1> DEFINE B == F \cup L
           t == SplitAt(m, b, n)
<1>0. b \in B /\ b \in Addr /\ b \in Int /\ SizeOf(m)[b] = Size(m, b) /\ n \in Nat \ {0}
  <2>1. b \in F \cup L
    OBVIOUS
  <2>2. b \in Addr /\ b \in Int /\ SizeOf(m)[b] = Size(m, b)
    BY <2>1, BlockFacts
  <2>3. QED
    BY <2>1, <2>2 DEF HeaderSize
<1>1. /\ HeapBase \in Int /\ top \in Int /\ B \subseteq Addr
      /\ Sizes(SizeOf(m), B) /\ Tiles(SizeOf(m), B, HeapBase, top)
  BY HeapTiles
<1>. HIDE DEF t
<1>2. /\ PlainMemory(t) /\ Size(t, b) = n /\ Size(t, c) = Size(m, b) - n
      /\ t[b].alloc /\ ~t[c].alloc /\ c \in Addr /\ c \notin B
      /\ \A d \in B : d # b => t[d] = m[d] /\ Size(t, d) = Size(m, d)
  BY SplitSizes DEF t
<1>. HIDE DEF B
<1>3. Tiles(SizeOf(t), B \cup {c}, HeapBase, top)
  <2>1. \A d \in B : d # b => SizeOf(t)[d] = SizeOf(m)[d]
    BY <1>1, <1>2, SizeOfFacts
  <2>2. SizeOf(t)[b] = n /\ SizeOf(t)[b + n] = SizeOf(m)[b] - n /\ n < SizeOf(m)[b]
    BY <1>0, <1>2, SizeOfFacts
  <2>3. Tiles(SizeOf(t), B \cup {b + n}, HeapBase, top)
    BY <1>0, <1>1, <2>1, <2>2, TilesSplit
  <2>4. QED
    BY <2>3
<1>4. G \cup K = B \cup {c} /\ B \cup {c} \subseteq Addr
  BY <1>1, <1>2 DEF B
<1>5. \A d \in K : t[d].alloc /\ Size(t, d) >= HeaderSize + 1
  BY <1>0, <1>2 DEF Heap, B
<1>6. \A d \in G : ~t[d].alloc
  BY <1>2 DEF Heap, B
<1>7. G \cap K = {}
  BY <1>0, <1>2 DEF Heap, B
<1>8. Heap(t, G, K, top)
  BY <1>2, <1>3, <1>4, <1>5, <1>6, <1>7 DEF Heap
<1>9. QED
  BY <1>8 DEF t

(* The owned block that ends at the top resized to n granules.               *)
LEMMA HeapResize ==
  ASSUME NEW m, NEW F, NEW L, NEW top, Heap(m, F, L, top),
         NEW b \in L, b + Size(m, b) = top,
         NEW n \in Nat, n >= HeaderSize + 1, n < WordLimit, b + n <= MaxMemory
  PROVE  /\ Heap(Put(m, b, Taken(n)), F, L, b + n)
         /\ Size(Put(m, b, Taken(n)), b) = n
         /\ \A c \in F \cup L : c # b => /\ Size(Put(m, b, Taken(n)), c) = Size(m, c)
                                     /\ c + Size(m, c) <= b
<1> DEFINE t == Put(m, b, Taken(n))
<1> DEFINE B == F \cup L
<1>0. /\ b \in Addr /\ b \in Int /\ HeapBase <= b /\ b \in B
      /\ n \in 0..(WordLimit - 1) /\ n \in Nat \ {0}
      /\ SizeOf(m)[b] = Size(m, b) /\ b + n \in HeapBase..MaxMemory
  <2>1. b \in F \cup L
    OBVIOUS
  <2>2. b \in Addr /\ b \in Int /\ HeapBase <= b /\ SizeOf(m)[b] = Size(m, b)
    BY <2>1, BlockFacts
  <2>3. QED
    BY <2>1, <2>2, ConstantsAssumption DEF HeaderSize
<1>1. /\ HeapBase \in Int /\ top \in Int /\ B \subseteq Addr
      /\ Sizes(SizeOf(m), B) /\ Tiles(SizeOf(m), B, HeapBase, top)
  BY HeapTiles
<1>2. /\ PlainMemory(t) /\ Size(t, b) = n /\ t[b].alloc
      /\ \A a \in Addr : a # b => t[a] = m[a] /\ Size(t, a) = Size(m, a)
  BY <1>0, PutAllocated DEF Heap
<1>. HIDE DEF B
<1>3. \A c \in B : c # b => t[c] = m[c] /\ Size(t, c) = Size(m, c) /\ c + Size(m, c) <= b
  <2>1. \A c \in B : c # b => c + SizeOf(m)[c] <= b
    BY <1>0, <1>1, TilesLast
  <2>2. QED
    BY <2>1, <1>1, <1>2, SizeOfFacts
<1>4. SizeOf(t)[b] = n /\ \A c \in B : c # b => SizeOf(t)[c] = SizeOf(m)[c]
  BY <1>0, <1>1, <1>2, <1>3, SizeOfFacts
<1>5. Tiles(SizeOf(t), B, HeapBase, b + n)
  BY <1>0, <1>1, <1>4, TilesResize
<1>6. b \notin F
  BY DEF Heap
<1>7. Heap(t, F, L, b + n)
  BY <1>0, <1>2, <1>3, <1>5, <1>6 DEF Heap, HeaderSize, B
<1>8. QED
  BY <1>2, <1>3, <1>7 DEF B, t

(* Two adjacent free blocks merged.                                          *)
LEMMA HeapMerge ==
  ASSUME NEW m, NEW F, NEW L, NEW top, Heap(m, F, L, top),
         NEW b \in F, NEW c \in F, b + Size(m, b) = c,
         MaxMemory <= WordLimit
  PROVE  /\ Heap(Merged(m, b, c), F \ {c}, L, top)
         /\ Size(Merged(m, b, c), b) = Size(m, b) + Size(m, c)
         /\ \A d \in F \cup L : d # b => Size(Merged(m, b, c), d) = Size(m, d)
<1> DEFINE t == Merged(m, b, c)
<1> DEFINE B == F \cup L
           n == Size(m, b) + Size(m, c)
<1>0. /\ b \in Addr /\ b \in Int /\ b \in B /\ c \in B
      /\ SizeOf(m)[b] = Size(m, b) /\ SizeOf(m)[c] = Size(m, c)
      /\ n \in 0..(WordLimit - 1) /\ b # c
  <2>1. b \in F \cup L /\ c \in F \cup L
    OBVIOUS
  <2>2. /\ b \in Addr /\ b \in Int /\ HeapBase <= b /\ SizeOf(m)[b] = Size(m, b)
        /\ Size(m, b) \in Nat \ {0}
    BY <2>1, BlockFacts
  <2>3. SizeOf(m)[c] = Size(m, c) /\ Size(m, c) \in Nat \ {0} /\ c + Size(m, c) <= top
    BY <2>1, BlockFacts
  <2>4. n = (c + Size(m, c)) - b /\ HeapBase > 0 /\ top \in Int /\ top <= MaxMemory
    BY <2>2, <2>3, ConstantsAssumption DEF Heap
  <2>5. QED
    BY <2>1, <2>2, <2>3, <2>4, ConstantsAssumption DEF Heap
<1>1. /\ HeapBase \in Int /\ top \in Int /\ B \subseteq Addr
      /\ Sizes(SizeOf(m), B) /\ Tiles(SizeOf(m), B, HeapBase, top)
  BY HeapTiles
<1>. HIDE DEF B, n
<1>2. /\ PlainMemory(t) /\ Size(t, b) = n /\ ~t[b].alloc
      /\ \A a \in Addr : a # b => t[a] = m[a] /\ Size(t, a) = Size(m, a)
  BY <1>0, PutFree DEF Heap, n, Merged
<1>. HIDE DEF t
<1>3. /\ SizeOf(t)[b] = SizeOf(m)[b] + SizeOf(m)[c]
      /\ b + SizeOf(m)[b] = c
      /\ \A d \in B : d # b /\ d # c => SizeOf(t)[d] = SizeOf(m)[d]
  BY <1>0, <1>1, <1>2, SizeOfFacts DEF n
<1>4. Tiles(SizeOf(t), B \ {c}, HeapBase, top)
  BY <1>0, <1>1, <1>3, TilesMerge
<1>5. (F \ {c}) \cup L = B \ {c} /\ b \notin L
  BY DEF Heap, B
<1>6. Heap(t, F \ {c}, L, top)
  BY <1>1, <1>2, <1>4, <1>5 DEF Heap, B
<1>7. QED
  BY <1>1, <1>2, <1>6 DEF B, n, t

(* The block that ends at the top given back to the wilderness.              *)
LEMMA HeapPop ==
  ASSUME NEW m, NEW F, NEW L, NEW top, Heap(m, F, L, top),
         NEW b \in F \cup L, b + Size(m, b) = top
  PROVE  Heap(m, F \ {b}, L \ {b}, b)
<1> DEFINE B == F \cup L
<1>0. b \in Addr /\ b \in Int /\ HeapBase <= b /\ SizeOf(m)[b] = Size(m, b)
  BY BlockFacts
<1>1. /\ HeapBase \in Int /\ top \in Int /\ B \subseteq Addr
      /\ Sizes(SizeOf(m), B) /\ Tiles(SizeOf(m), B, HeapBase, top)
  BY HeapTiles
<1>. HIDE DEF B
<1>2. Tiles(SizeOf(m), B \ {b}, HeapBase, b)
  BY <1>0, <1>1, TilesPop DEF B
<1>3. (F \ {b}) \cup (L \ {b}) = B \ {b}
  BY DEF B
<1>4. b \in HeapBase..MaxMemory
  BY <1>0, ConstantsAssumption DEF Addr
<1>5. QED
  BY <1>1, <1>2, <1>3, <1>4 DEF Heap

=============================================================================
