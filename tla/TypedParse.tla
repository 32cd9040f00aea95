----------------------------- MODULE TypedParse ------------------------------
(***************************************************************************)
(* RawNodeBinding.parse over a generated graph parser: the host's call,    *)
(* the compact and the conservative attempt inside it, and the host's      *)
(* answer to exhausted memory, on the allocator of module Allocator.       *)
(*                                                                         *)
(* A text is its length, the most memory its graph takes while it is built *)
(* (records, arrays and the array scratch at the high end of the block),   *)
(* the size of the finished document, whether it is valid JSON of the      *)
(* schema, and whether the schema defers fields (lazyOffset of its layout) *)
(* to be built behind the document when they are first read.  A text that  *)
(* is not valid takes what it took when the parser gave up.                *)
(***************************************************************************)
EXTENDS Allocator, FiniteSets

CONSTANTS
  Texts,       (* the inputs the application parses                        *)
  MaxLength,   (* 0x0fffffff: the longest input a document header can hold *)
  RecordSize,  (* granules of the root record and its 1024 bytes of slack  *)
  MaxDocuments (* bound: documents the application holds at once           *)

ASSUME TextsAssumption ==
  /\ Texts \subseteq [length : Nat \ {0}, peak : Nat, size : Nat \ {0},
                      valid : BOOLEAN, deferred : BOOLEAN]
  /\ \A text \in Texts : text.size <= text.peak
  /\ MaxLength \in Nat
  /\ RecordSize \in Nat \ {0}
  /\ MaxDocuments \in Nat

VARIABLES
  call,     (* the parse in progress, phase "idle" when there is none       *)
  outcome,  (* how the last parse ended                                    *)
  before    (* the heap when the last call began                           *)

callVars == <<call, outcome, before>>

NoCall == [phase |-> "idle"]

HeapNow == [freeList |-> freeList, heapBump |-> heapBump, live |-> live]

ParseInit ==
  /\ Init
  /\ call = NoCall
  /\ outcome = [result |-> "none"]
  /\ before = HeapNow

-----------------------------------------------------------------------------
(* Capacities the generated parser asks for (16 header bytes are 2 granules) *)

BaseCapacity(text) == 2 + text.length + RecordSize

Capacity(text, tier) ==
  IF tier = "conservative" THEN BaseCapacity(text) + 16 * text.length
  ELSE BaseCapacity(text) + text.length + text.length \div 4

Idle == call.phase = "idle"

(* The call returns to the application.                                     *)
Return(result) ==
  /\ call' = NoCall
  /\ outcome' = result
  /\ UNCHANGED before

Continue(step) == call' = step /\ UNCHANGED <<outcome, before>>

Parse(text) ==
  /\ Idle
  /\ Cardinality(live) < MaxDocuments
  /\ call' = [phase |-> "allocate", text |-> text, tier |-> "compact", retried |-> FALSE]
  /\ before' = HeapNow
  /\ outcome' = [result |-> "none"]
  /\ UNCHANGED vars

(* parse${layout}Core up to its allocateDocument.                            *)
Enter ==
  /\ call.phase = "allocate"
  /\ \/ /\ call.text.length > MaxLength
        /\ Refuse(Exhausted(call.text.length, 0))
        /\ Continue([call EXCEPT !.phase = "refused"])
     \/ /\ call.text.length <= MaxLength
        /\ AllocateDocument(Capacity(call.text, call.tier))
        /\ IF last'.status = "ok"
           THEN \E block \in live' \ live :
                  Continue([phase    |-> "build",
                            text     |-> call.text,
                            tier     |-> call.tier,
                            retried  |-> call.retried,
                            document |-> block + HeaderSize])
           ELSE Continue([call EXCEPT !.phase = "refused"])

OutOfSpace == call.text.peak > Capacity(call.text, call.tier)

(* Mutant: the conservative attempt is made in the compact block.            *)
RetryInPlace ==
  /\ call.phase = "build" /\ OutOfSpace /\ call.tier = "compact"
  /\ Continue([call EXCEPT !.tier = "conservative"])
  /\ UNCHANGED vars

(* The graph outgrew the compact block: give it back and start over.         *)
RetryConservatively ==
  /\ call.phase = "build" /\ OutOfSpace /\ call.tier = "compact"
  /\ ReleaseDocument(call.document)
  /\ Continue([phase   |-> "allocate",
               text    |-> call.text,
               tier    |-> "conservative",
               retried |-> call.retried])

(* Mutant: a failed parse forgets its block.                                 *)
FailKeeping ==
  /\ call.phase = "build"
  /\ \/ OutOfSpace /\ call.tier = "conservative"
     \/ ~OutOfSpace /\ ~call.text.valid
  /\ Return([result |-> "failed"])
  /\ UNCHANGED vars

(* fail${layout}Graph: statuses 2, 16 and 20.                                *)
Fail ==
  /\ call.phase = "build"
  /\ \/ OutOfSpace /\ call.tier = "conservative"
     \/ ~OutOfSpace /\ ~call.text.valid
  /\ ReleaseDocument(call.document)
  /\ Return([result |-> "failed"])

ReturnDocument ==
  Return([result   |-> "parsed",
          text     |-> call.text,
          tier     |-> call.tier,
          document |-> call.document])

(* Mutant: every document is trimmed, whatever its schema.                   *)
SucceedTrimmed ==
  /\ call.phase = "build" /\ ~OutOfSpace /\ call.text.valid
  /\ TrimDocument(call.document, call.text.size)
  /\ ReturnDocument

(* A document is trimmed unless its fields may still be built in its tail.   *)
Succeed ==
  /\ call.phase = "build" /\ ~OutOfSpace /\ call.text.valid
  /\ IF call.text.deferred THEN UNCHANGED vars
     ELSE TrimDocument(call.document, call.text.size)
  /\ ReturnDocument

-----------------------------------------------------------------------------
(* The host, when the parser has returned 0 with status 3                    *)

CanGrow == \E g \in PageGrowth(last.required - memSize) : memSize + g <= MaxMemory

CallAgain == Continue([call EXCEPT !.phase = "allocate", !.tier = "compact", !.retried = TRUE])

(* Mutant: the host calls again for as long as it is told to.                *)
RetryForever ==
  /\ call.phase = "refused"
  /\ \/ last.required <= memSize /\ CallAgain /\ UNCHANGED vars
     \/ EnsureBytes /\ CallAgain
     \/ /\ last.required > memSize /\ ~CanGrow
        /\ Return([result |-> "cannot_grow"])
        /\ UNCHANGED vars

Retry ==
  /\ call.phase = "refused" /\ ~call.retried
  /\ \/ last.required <= memSize /\ CallAgain /\ UNCHANGED vars
     \/ EnsureBytes /\ CallAgain
     \/ /\ last.required > memSize /\ ~CanGrow
        /\ Return([result |-> "cannot_grow"])
        /\ UNCHANGED vars

GiveUp ==
  /\ call.phase = "refused" /\ call.retried
  /\ Return([result |-> "exhausted", required |-> last.required])
  /\ UNCHANGED vars

(* Between calls the application releases the documents it has.              *)
Dispose(block) ==
  /\ Idle
  /\ ReleaseDocument(block + HeaderSize)
  /\ outcome' = [result |-> "none"]
  /\ before' = HeapNow
  /\ UNCHANGED call

ParseStep == Enter \/ RetryConservatively \/ Fail \/ Succeed \/ Retry \/ GiveUp

ParseNext ==
  \/ \E text \in Texts : Parse(text)
  \/ ParseStep
  \/ \E block \in live : Dispose(block)

(* A call runs to its end: nothing else runs on the thread meanwhile.        *)
ParseSpec ==
  /\ ParseInit
  /\ [][ParseNext]_<<vars, callVars>>
  /\ WF_<<vars, callVars>>(ParseStep)

-----------------------------------------------------------------------------
(* Properties.                                                              *)

Phases == {"idle", "allocate", "build", "refused"}

(* The document under construction is owned, and fits the capacity asked for *)
(* (graph.ts:657-672).                                                      *)
CallOK ==
  /\ call.phase \in Phases
  /\ ~Idle => call.text \in Texts /\ call.tier \in {"compact", "conservative"}
  /\ call.phase = "build" =>
       /\ call.document - HeaderSize \in live
       /\ Capacity(call.text, call.tier) + HeaderSize <= mem[call.document - HeaderSize].size

(* Whatever goes wrong, a failed parse leaves the heap as it found it: every *)
(* block it took, in either attempt, is back where it came from.             *)
HeapRestored == outcome.result \in {"failed", "exhausted", "cannot_grow"} => HeapNow = before

(* A parsed document is new and holds its graph.  One with deferred fields   *)
(* still has all the room of the attempt that built it, up to the limit that *)
(* _documentArenaLimit reads from its block; any other one at the wilderness *)
(* has no slack that could have been given back (graph.ts:706-712).          *)
ParsedFits ==
  outcome.result = "parsed" =>
    LET block == outcome.document - HeaderSize
        text  == outcome.text
    IN  /\ live = before.live \cup {block}
        /\ block \notin before.live
        /\ text.size + HeaderSize <= mem[block].size
        /\ text.deferred => Capacity(text, outcome.tier) + HeaderSize <= mem[block].size
        /\ ~text.deferred /\ AtWilderness(block) =>
             mem[block].size < text.size + HeaderSize + MinSplitSize

(* Every parse returns: the retries cannot go on for ever.                   *)
Terminates == ~Idle ~> Idle

=============================================================================
