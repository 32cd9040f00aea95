------------------------------ MODULE Allocator ------------------------------
(***************************************************************************)
(* The persistent-block allocator of assembly/runtime.ts.                  *)
(*                                                                         *)
(* Every size and address of that allocator is a multiple of 8 bytes, so   *)
(* memory is counted in 8-byte granules: a block is one header granule     *)
(* followed by its payload, and document == block + HeaderSize.  Header    *)
(* words live in memory next to payload, as in the code: a payload may     *)
(* hold bytes that read as a header, and the header of a block that has    *)
(* been merged or rewound away stays in memory until it is overwritten.    *)
(* The list linked through the second header word is the sequence          *)
(* freeList.                                                               *)
(***************************************************************************)
EXTENDS Integers, Sequences, SequencesExt

CONSTANTS
  HeapBase,      (* first granule of the persistent region                 *)
  InitialMemory, (* memory.buffer.byteLength when initialize is called     *)
  MaxMemory,     (* the memory's maximum (maximumPages), in granules       *)
  PageSize,      (* granules of a WebAssembly page                         *)
  WordLimit,     (* 2^31 bytes: the first size a block header cannot hold  *)
  ScratchSize,   (* operationScratchCapacity                               *)
  Payloads,      (* sizes callers ask for                                  *)
  Words          (* contents callers give to a payload granule             *)

HeaderSize == 1      (* BLOCK_HEADER_SIZE *)
MinSplitSize == 3    (* MIN_SPLIT_SIZE    *)

Addr == 0..(MaxMemory - 1)

(* A granule as the allocator would read it: the size and allocation bit of *)
(* a block header, and whether the 16 bytes that start here have the shape  *)
(* of a caller-owned (parseInto) document header.                           *)
Word == [size : 0..(WordLimit - 1), alloc : BOOLEAN, external : BOOLEAN]

Zero == [size |-> 0, alloc |-> FALSE, external |-> FALSE]

ASSUME ConstantsAssumption ==
  /\ HeapBase \in Nat \ {0}
  /\ InitialMemory \in Nat
  /\ MaxMemory \in Nat
  /\ PageSize \in Nat \ {0}
  /\ WordLimit \in Nat
  /\ ScratchSize \in Nat
  /\ HeapBase < InitialMemory
  /\ InitialMemory <= MaxMemory
  /\ MaxMemory < 2 * WordLimit
  /\ Payloads \subseteq Nat
  /\ Words \subseteq Word

VARIABLES
  mem,        (* the granules of linear memory                             *)
  freeList,   (* the free blocks, in list order                            *)
  heapBump,   (* the end of the used part of the heap (the wilderness)     *)
  heapLimit,  (* what the allocator takes to be the end of memory          *)
  memSize,    (* memory.size                                               *)
  live,       (* the blocks whose document a caller owns                   *)
  last        (* what the last call reported: status, required, and the    *)
              (* payload asked for when an allocation failed               *)

heap == <<mem, freeList, heapBump>>
limits == <<heapLimit, memSize>>
vars == <<mem, freeList, heapBump, heapLimit, memSize, live, last>>

-----------------------------------------------------------------------------
(* u32 arithmetic: the sum of two u32 values, and the header word written   *)
(* for a size whose 32nd bit is the allocation flag.                        *)

Wrap(n) == IF n < 2 * WordLimit THEN n ELSE n - 2 * WordLimit

(* Mutant: a header never carries the allocation bit.                        *)
HeaderUnflagged(size, alloc) == [size |-> size, alloc |-> FALSE, external |-> FALSE]

Header(size, alloc) ==
  [size     |-> IF size < WordLimit THEN size ELSE size - WordLimit,
   alloc    |-> alloc \/ size >= WordLimit,
   external |-> FALSE]

MaxPayload == WordLimit - HeaderSize - 1

Ok == [status |-> "ok", required |-> 0, payload |-> 0]
Invalid == [status |-> "invalid_state", required |-> 0, payload |-> 0]
ScratchExhausted == [status |-> "scratch_exhausted", required |-> 0, payload |-> 0]
(* Mutant: what is missing is reported instead of the limit to grow to.      *)
ExhaustedBySize(required, payload) ==
  [status |-> "memory_exhausted", required |-> payload, payload |-> payload]

Exhausted(required, payload) ==
  [status |-> "memory_exhausted", required |-> required, payload |-> payload]

(* The sizes by which memory.grow can extend memory to supply missing.      *)
PageGrowth(missing) ==
  {n * PageSize : n \in {k \in 1..MaxMemory :
                           (k - 1) * PageSize < missing /\ missing <= k * PageSize}}

(* Mutant: commitBytes copies one granule too many.                          *)
StoredPastEnd(m, block, n, fill) ==
  IF fill = {} THEN {m}
  ELSE {[a \in DOMAIN m |-> IF block < a /\ a <= block + n + 1 THEN w ELSE m[a]] : w \in fill}

(* What memory m may hold once block's n payload granules are written with   *)
(* one of the words of fill; allocating alone (fill = {}) leaves the old     *)
(* bytes in place.                                                          *)
Stored(m, block, n, fill) ==
  IF fill = {} THEN {m}
  ELSE {[a \in DOMAIN m |-> IF block < a /\ a <= block + n THEN w ELSE m[a]] : w \in fill}

-----------------------------------------------------------------------------
(* initialize: RawNodeBinding passes a valid layout once, over zeroed memory *)

Init ==
  /\ mem = [a \in Addr |-> Zero]
  /\ freeList = << >>
  /\ heapBump = HeapBase
  /\ heapLimit = Wrap(InitialMemory)
  /\ memSize = InitialMemory
  /\ live = {}
  /\ last = Ok

Refuse(answer) == last' = answer /\ UNCHANGED <<heap, limits, live>>

(* allocateBlock                                                            *)

Fits(i, total) == mem[freeList[i]].size >= total

(* The first free block that is large enough, split when the rest can be a   *)
(* block of its own.                                                        *)
TakeFree(n, fill) ==
  \E i \in DOMAIN freeList :
    LET total     == n + HeaderSize
        block     == freeList[i]
        size      == mem[block].size
        remainder == size - total
    IN  /\ Fits(i, total)
        /\ \A j \in 1..(i - 1) : ~Fits(j, total)
        /\ \/ /\ remainder >= MinSplitSize
              /\ freeList' = ReplaceAt(freeList, i, block + total)
              /\ mem' \in Stored([mem EXCEPT ![block + total] = Header(remainder, FALSE),
                                             ![block] = Header(total, TRUE)],
                                 block, n, fill)
           \/ /\ remainder < MinSplitSize
              /\ freeList' = RemoveAt(freeList, i)
              /\ mem' \in Stored([mem EXCEPT ![block] = Header(size, TRUE)], block, n, fill)
        /\ live' = live \cup {block}
        /\ last' = Ok
        /\ UNCHANGED <<heapBump, limits>>

(* Mutant: the end of memory is not checked.                                 *)
TakeWildernessUnchecked(n, fill) ==
  /\ heapBump' = heapBump + n + HeaderSize
  /\ mem' \in Stored([mem EXCEPT ![heapBump] = Header(n + HeaderSize, TRUE)], heapBump, n, fill)
  /\ live' = live \cup {heapBump}
  /\ last' = Ok
  /\ UNCHANGED <<freeList, limits>>

TakeWilderness(n, fill) ==
  LET end == Wrap(heapBump + n + HeaderSize)
  IN  \/ /\ end > heapLimit \/ end < heapBump
         /\ Refuse(Exhausted(end, n))
      \/ /\ end <= heapLimit
         /\ end >= heapBump
         /\ heapBump' = end
         /\ mem' \in Stored([mem EXCEPT ![heapBump] = Header(n + HeaderSize, TRUE)],
                            heapBump, n, fill)
         /\ live' = live \cup {heapBump}
         /\ last' = Ok
         /\ UNCHANGED <<freeList, limits>>

AllocateBlock(n, reuseFreeBlocks, fill) ==
  \/ n > MaxPayload /\ Refuse(Exhausted(n, n))
  \/ n <= MaxPayload /\ reuseFreeBlocks /\ TakeFree(n, fill)
  \/ /\ n <= MaxPayload
     /\ reuseFreeBlocks => \A i \in DOMAIN freeList : ~Fits(i, n + HeaderSize)
     /\ TakeWilderness(n, fill)

AllocateDocument(n) == AllocateBlock(n, TRUE, {})

AllocateGrowableDocument(n) == AllocateBlock(n, FALSE, {})

CommitBytes(n) ==
  \/ n > ScratchSize /\ Refuse(ScratchExhausted)
  \/ n <= ScratchSize /\ AllocateBlock(n, TRUE, Words)

-----------------------------------------------------------------------------
(* growDocument, reserveDocument, trimDocument: resizing the block that ends *)
(* at the wilderness                                                        *)

Owned(document) == document >= HeapBase + HeaderSize /\ mem[document - HeaderSize].alloc

(* Mutant: any block may be resized in place.                                *)
InHeap(block) == block + mem[block].size <= heapBump

AtWilderness(block) == block + mem[block].size = heapBump

(* Mutant: a resized block does not move the end of the heap.                *)
ResizeHeaderOnly(block, total) ==
  /\ mem' = [mem EXCEPT ![block] = Header(total, TRUE)]
  /\ last' = Ok
  /\ UNCHANGED <<freeList, heapBump, live>>

Resize(block, total) ==
  /\ heapBump' = block + total
  /\ mem' = [mem EXCEPT ![block] = Header(total, TRUE)]
  /\ last' = Ok
  /\ UNCHANGED <<freeList, live>>

(* A 6.25% step over the current payload of p granules, rounded up to 8 bytes *)
Geometric(p) == p + (((p \div 2) + 7) \div 8)

GrowDocumentTo(document, minimumSize, geometric) ==
  LET block       == document - HeaderSize
      step        == IF geometric THEN Geometric(mem[block].size - HeaderSize) ELSE minimumSize
      nextPayload == IF step < minimumSize THEN minimumSize ELSE step
      nextTotal   == nextPayload + HeaderSize
      nextEnd     == Wrap(block + nextTotal)
  IN  \/ ~Owned(document) /\ Refuse(Invalid)
      \/ /\ Owned(document)
         /\ ~AtWilderness(block)
         /\ Refuse(Exhausted(minimumSize, 0))
      \/ /\ Owned(document) /\ AtWilderness(block)
         /\ nextPayload > MaxPayload
         /\ Refuse(Exhausted(nextPayload, 0))
      \/ /\ Owned(document) /\ AtWilderness(block)
         /\ nextPayload <= MaxPayload
         /\ \/ nextEnd < block
            \/ nextEnd > heapLimit /\ \A g \in PageGrowth(nextEnd - heapLimit) : memSize + g > MaxMemory
         /\ Refuse(Exhausted(nextEnd, 0))
      \/ /\ Owned(document) /\ AtWilderness(block)
         /\ nextPayload <= MaxPayload
         /\ block <= nextEnd
         /\ nextEnd <= heapLimit
         /\ Resize(block, nextTotal)
         /\ UNCHANGED limits
      \/ /\ Owned(document) /\ AtWilderness(block)
         /\ nextPayload <= MaxPayload
         /\ block <= nextEnd
         /\ nextEnd > heapLimit
         /\ \E g \in PageGrowth(nextEnd - heapLimit) :
              /\ memSize + g <= MaxMemory
              /\ memSize' = memSize + g
              /\ heapLimit' = Wrap(memSize')
         /\ Resize(block, nextTotal)

GrowDocument(document, minimumSize) == GrowDocumentTo(document, minimumSize, TRUE)

ReserveDocument(document, minimumSize) == GrowDocumentTo(document, minimumSize, FALSE)

TrimDocument(document, usedSize) ==
  LET block     == document - HeaderSize
      nextTotal == usedSize + HeaderSize
      Trimmable == Owned(document) /\ AtWilderness(block) /\ nextTotal <= mem[block].size
  IN  \/ ~Trimmable /\ Refuse(Invalid)
      \/ /\ Trimmable
         /\ mem[block].size - nextTotal < MinSplitSize
         /\ Refuse(Ok)
      \/ /\ Trimmable
         /\ mem[block].size - nextTotal >= MinSplitSize
         /\ Resize(block, nextTotal)
         /\ UNCHANGED limits

-----------------------------------------------------------------------------
(* releaseDocument                                                          *)

(* The header of a caller-owned parseInto document: nothing to release.      *)
ExternalShape(document) == document <= memSize - 2 /\ mem[document].external

Releasable(document) ==
  LET block == document - HeaderSize
  IN  /\ HeapBase + HeaderSize <= document
      /\ document < heapBump
      /\ mem[block].alloc
      /\ mem[block].size >= HeaderSize
      /\ block + mem[block].size <= heapBump

(* Mutant: the bump pointer is never rolled back.                            *)
KeepBump(list, m) == heapBump' = heapBump /\ freeList' = list

(* Rolls the bump pointer back over the free block that ends at it, if any.  *)
RollBack(list, m) ==
  \/ \E k \in DOMAIN list :
       /\ list[k] + m[list[k]].size = heapBump
       /\ \A j \in 1..(k - 1) : list[j] + m[list[j]].size # heapBump
       /\ heapBump' = list[k]
       /\ freeList' = RemoveAt(list, k)
  \/ /\ \A k \in DOMAIN list : list[k] + m[list[k]].size # heapBump
     /\ heapBump' = heapBump
     /\ freeList' = list

(* Mutant: a block is linked in without merging it with its neighbours.      *)
LinkUnmerged(block, i) ==
  LET freed == [mem EXCEPT ![block] = Header(mem[block].size, FALSE)]
  IN  mem' = freed /\ RollBack(InsertAt(freeList, i + 1, block), freed)

(* Mutant: a block always becomes the head of the list.                      *)
LinkAtHead(block, i) ==
  LET freed == [mem EXCEPT ![block] = Header(mem[block].size, FALSE)]
  IN  mem' = freed /\ RollBack(<<block>> \o freeList, freed)

(* Links block in after the i free blocks that precede it, merging it with   *)
(* the next one and then with the previous one.                             *)
LinkFree(block, i) ==
  LET mergeNext == i < Len(freeList) /\ block + mem[block].size = freeList[i + 1]
      mergePrev == i > 0 /\ freeList[i] + mem[freeList[i]].size = block
      size      == mem[block].size + (IF mergeNext THEN mem[freeList[i + 1]].size ELSE 0)
      linked    == IF mergeNext THEN ReplaceAt(freeList, i + 1, block)
                                ELSE InsertAt(freeList, i + 1, block)
      freed     == [mem EXCEPT ![block] = Header(size, FALSE)]
      list      == IF mergePrev THEN RemoveAt(linked, i + 1) ELSE linked
      merged    == IF mergePrev
                   THEN [freed EXCEPT ![freeList[i]] =
                           Header(mem[freeList[i]].size + size, FALSE)]
                   ELSE freed
  IN  mem' = merged /\ RollBack(list, merged)

Reclaim(block) ==
  \/ /\ freeList = << >>
     /\ AtWilderness(block)
     /\ heapBump' = block
     /\ last' = Ok
     /\ UNCHANGED <<mem, freeList>>
  \/ /\ freeList = << >>
     /\ ~AtWilderness(block)
     /\ mem' = [mem EXCEPT ![block] = Header(mem[block].size, FALSE)]
     /\ freeList' = <<block>>
     /\ last' = Ok
     /\ UNCHANGED heapBump
  \/ \E i \in 0..Len(freeList) :
       /\ freeList # << >>
       /\ \A j \in 1..i : freeList[j] < block
       /\ \/ /\ i < Len(freeList) /\ freeList[i + 1] = block
             /\ last' = Invalid
             /\ UNCHANGED heap
          \/ /\ i < Len(freeList) => freeList[i + 1] > block
             /\ LinkFree(block, i)
             /\ last' = Ok

(* Whatever the status, the caller gives the document up.                    *)
ReleaseDocument(document) ==
  /\ \/ ExternalShape(document) /\ last' = Ok /\ UNCHANGED heap
     \/ ~ExternalShape(document) /\ ~Releasable(document) /\ last' = Invalid /\ UNCHANGED heap
     \/ ~ExternalShape(document) /\ Releasable(document) /\ Reclaim(document - HeaderSize)
  /\ live' = live \ {document - HeaderSize}
  /\ UNCHANGED limits

-----------------------------------------------------------------------------
(* The callers: a parser or materializer stores inside its own document, and *)
(* the host answers an exhausted allocation by growing memory (ensureBytes). *)

WritePayload(block) ==
  \E a \in (block + HeaderSize)..(block + mem[block].size - 1), w \in Words :
    /\ mem' = [mem EXCEPT ![a] = w]
    /\ UNCHANGED <<freeList, heapBump, limits, live, last>>

(* Mutant: memory grows and the allocator is not told.                       *)
EnsureBytesUnreported ==
  /\ last.status = "memory_exhausted"
  /\ last.required > memSize
  /\ \E g \in PageGrowth(last.required - memSize) :
       memSize + g <= MaxMemory /\ memSize' = memSize + g
  /\ UNCHANGED <<heap, heapLimit, live, last>>

EnsureBytes ==
  /\ last.status = "memory_exhausted"
  /\ last.required > memSize
  /\ \E g \in PageGrowth(last.required - memSize) :
       /\ memSize + g <= MaxMemory
       /\ memSize' = memSize + g
       /\ heapLimit' = Wrap(memSize')
  /\ UNCHANGED <<heap, live, last>>

Next ==
  \/ \E n \in Payloads : AllocateDocument(n)
  \/ \E n \in Payloads : AllocateGrowableDocument(n)
  \/ \E n \in Payloads : CommitBytes(n)
  \/ \E block \in live, n \in Payloads : GrowDocument(block + HeaderSize, n)
  \/ \E block \in live, n \in Payloads : ReserveDocument(block + HeaderSize, n)
  \/ \E block \in live, n \in Payloads : TrimDocument(block + HeaderSize, n)
  \/ \E block \in live : ReleaseDocument(block + HeaderSize)
  \/ \E block \in live : WritePayload(block)
  \/ EnsureBytes

Spec == Init /\ [][Next]_vars

-----------------------------------------------------------------------------
(* Properties.                                                              *)

Free == {freeList[i] : i \in DOMAIN freeList}

Blocks == Free \cup live

End(block) == block + mem[block].size

(* Types of the variables (the allocator globals of runtime.ts:28-35).       *)
TypeOK ==
  /\ mem \in [Addr -> Word]
  /\ freeList \in Seq(Addr)
  /\ heapBump \in HeapBase..MaxMemory
  /\ heapLimit \in 0..MaxMemory
  /\ memSize \in HeapBase..MaxMemory
  /\ live \subseteq Addr
  /\ last \in [status   : {"ok", "invalid_state", "scratch_exhausted", "memory_exhausted"},
               required : Nat,
               payload  : Nat]

(* No two blocks, owned or free, share a granule, and all lie in the used    *)
(* part of the heap: what allocateBlock's split and releaseDocument's merges *)
(* must keep true for documents not to overwrite each other.                *)
NoOverlap ==
  /\ \A b \in Blocks : HeapBase <= b /\ b < End(b) /\ End(b) <= heapBump
  /\ Free \cap live = {}
  /\ \A b, c \in Blocks : b < c => End(b) <= c

(* Every used granule belongs to an owned or a free block: no split, merge,  *)
(* trim, rewind or release loses memory.                                    *)
NoLeak == \A a \in HeapBase..(heapBump - 1) : \E b \in Blocks : b <= a /\ a < End(b)

(* The free list is in address order (the insertion walk of releaseDocument  *)
(* stops at the first larger address, so coalescing depends on it).          *)
FreeListSorted == \A i, j \in DOMAIN freeList : i < j => freeList[i] < freeList[j]

(* Adjacent free blocks are always merged, and no free block is left at the  *)
(* wilderness: "release coalesces adjacent blocks".                         *)
Coalesced ==
  /\ \A b, c \in Free : End(b) # c
  /\ \A b \in Free : End(b) # heapBump

(* The allocation bit of a block's header says which of the two kinds it is: *)
(* neither payload bytes nor a size that spills into bit 31 can forge it.    *)
HeadersAgree ==
  /\ \A b \in live : mem[b].alloc
  /\ \A b \in Free : ~mem[b].alloc

(* Blocks never reach beyond the memory the instance has.                   *)
WithinMemory == heapBump <= heapLimit /\ heapLimit = memSize

(* Once every document has been released the heap is empty again, however    *)
(* the releases were ordered.                                               *)
AllReclaimed == live = {} => heapBump = HeapBase /\ freeList = << >>

(* After an exhausted allocation the limit it reported is exact: as soon as  *)
(* memory has grown to it, the retry of the same size fits.                  *)
RetryFits ==
  (/\ last.status = "memory_exhausted"
   /\ last.payload \in 1..MaxPayload
   /\ heapBump + last.payload + HeaderSize <= MaxMemory
   /\ last.required <= memSize)
  => heapBump + last.payload + HeaderSize <= heapLimit

(* What a caller sees of its documents: the contents of their payloads.      *)
Document(block) == [k \in 1..(mem[block].size - HeaderSize) |-> mem[block + k]]

Held == [b \in live |-> Document(b)]

Store == INSTANCE DocumentStore WITH
           Ids <- Addr,
           Contents <- Word,
           docs <- Held

(* Documents are independent values: allocating, growing, trimming, writing  *)
(* or releasing one changes no other, and growing moves nothing.            *)
StoreSpec == Store!Spec

=============================================================================
