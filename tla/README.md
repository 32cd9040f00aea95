# json-ty in TLA+

json-ty compiles typed `JSON.parse<T>` and `JSON.stringify` calls to a
WebAssembly artifact. A host binding in JavaScript owns the linear memory. The
artifact parses a text into a flat document in that memory, and the binding
exposes the document through views whose getters read it in place. Values of
unknown shape become a graph of nodes in the same memory.

This directory models the parts of the system that keep state (who owns which
bytes of memory, what the host remembers about them, what the calls do when
memory runs out) and the algorithms that read and print bytes. The modules are
translated from the source. The documentation of the repository only supplies
statements to check.

## Inventory

| Component | State | Operations | Hard behaviour | What makes it correct |
|---|---|---|---|---|
| Allocator `assembly/runtime.ts` | free list in memory, `heapBump`, `heapLimit`, result block | allocate, grow, reserve, trim, release, commit | split, merge, rewind; headers lie beside payload; exhaustion | blocks tile the heap, nothing leaks, documents are independent |
| Typed parse call (`record-codegen/graph.ts`, `RawNodeBinding.parse`) | document under construction, cursor, scratch end | compact attempt, conservative attempt, host retry | two retries nested in one another, failure half-way | a failed parse leaves the heap as it was, every call returns |
| Typed views `raw/view-state.js`, `node-binding.js` | shared document state, overlays, cached strings, `_dirtyDocuments` | getters, setters, `stringify`, `dispose` | sharing between root and nested views, mutable arrays, caches | a parsed value behaves as an object of its own |
| Byte bridge `raw/host-byte-bridge.js` | resident scratch input | `writeInput`, `ensureBytes`, `invalidateScratchInput` | the remembered input goes stale when scratch is reused | the remembered input is in scratch |
| Document layout `assembly/layout` | header words, candidate and canonical bits, slots, entries | mark, clear, compare | flags share a word with the source length | a canonical source is what the writer would print |
| Graph builder tiers and serializers (`record-codegen`, `emit/assembly`) | cursor and scratch inside a block, bitmaps, `graphDepth` | ordered, spaced and general tier; arrays, tuples, unions; print | a tier gives up after it has stored; estimates of size | exactly the texts of the schema are accepted, and print what they said |
| Lazy fields | lazy bitmap, tail of the document | materialize on first read | the deferred span fails, or finds no room | the document prints the same value before and after |
| `parseInto` | borrowed source, caller's buffer | parse into a buffer | the buffer is too small | the answer names a size that suffices |
| Dynamic values (`deserialize/dynamic.ts`, `serialize/dynamic.ts`, `node-binding.js`) | node arena, per-slot tags; views, host copy, kept text | parse eager, fixed, retained; materialize; print; mutate, dispose, reuse | arena estimate, graph built bit by bit, text kept beside a mutable copy | the graph is the value, the kept text is that of the value |
| Legacy engines `assembly/wasm/eager.ts`, `parser.ts` | schema table, arena, second arena | register, parse to tables or slots | two arenas with one cursor each | the table is the rows of the value |
| Scanner and string kernels (`deserialize/*`, `serialize/*`, `util`) | none between calls | pure functions over bytes, 1, 8 or 16 at a time | block boundaries, escapes, UTF-8 | equal to the JSON grammar and to one another |
| Number and array kernels | writer cursor | read and print numbers, count and store arrays | packed digits, overflow by chunk, reservations | no digit lost, no store outside the room |
| Schema registry, program analyzer, artifact compiler, CLI, portable fallback, tests, benchmarks | schema graph, content-addressed files | plumbing at build or load time | | not modelled, see the end |

The parts call each other as follows. The binding writes the input to scratch
(byte bridge) and calls the generated parser. The parser allocates a document,
builds the graph in it with the scanners and kernels, and trims it (allocator), unless
the schema defers fields, whose graphs are later built in the tail.
The binding wraps the root in a view. A `stringify` of an unchanged document
runs the generated serializer into scratch through the shared writer. That of a
changed one first lowers what the getters return into scratch. A value without a
schema goes through `deserialize/dynamic.ts` in the same way, and its first
mutation moves it to a host copy. `dispose` releases the document.

Everything runs on one JavaScript thread, so a call is never interrupted. The
interleavings that matter are orders of calls on several documents that share one
memory, one scratch area and one host, and, within a call, the orders in which
tiers, attempts and chunks give up and start over.

## Modules

There are two families. The first has machines with state: the allocator, a call
over it, typed views, dynamic views, the writer. The second has pure algorithms,
written as operators, which a small machine in an MC module feeds with inputs and
compares with a reference definition.

### Memory and calls

`Allocator` models `assembly/runtime.ts` with one action per exported operation.
Sizes and addresses are multiples of 8 bytes in that allocator, so memory is
counted in granules of 8 bytes: a header is one granule, `MIN_SPLIT_SIZE` three.
Memory is a function from granules to what the allocator would read there: the
size and allocation bit of a header, and whether the bytes from here have the
shape of a caller-owned document header (`ExternalShape`). Headers lie among
payload as in the code, so a payload can look like a header and an old header
remains where it was. The list threaded through the headers is the sequence
`freeList`. Header words keep their width: `Header` sets the allocation bit for a
size that reaches `WordLimit` (2^31 bytes), and `Wrap` is u32 conversion.
`ReleaseDocument` is the whole function: the external-header test, the range and
bit tests, the insertion walk, both merges and the rewind. `EnsureBytes` is the
host's answer to an exhausted allocation. Growth by `memory.grow` comes in whole
pages.

`DocumentStore` is what the allocator promises: documents are values that
come and go, and a call on one changes no other. `Allocator!StoreSpec` is the
refinement, which maps each owned block to its payload.

`TypedParse` extends `Allocator` with the call in progress. A text stands for an
input and its schema: its length, the most memory its graph takes while it is built, the
size of the finished document, whether it is valid, and whether the schema defers fields
(`lazyOffset` of its layout). The document of such a schema is not trimmed
(`graph.ts:709`): the room up to the end of its block, which `_documentArenaLimit`
reads from the header, is where deferred fields are built when they are first read. That
building is in `RecordDocuments`, as is the copy of a default document
(`graph.ts:658`), a branch of the parser that `TypedParse` leaves out. `Enter` is the generated parser up to
its allocation, `RetryConservatively` the recursive call with the larger capacity,
`Fail` and `Succeed` the two ends, `Retry` and `GiveUp` the host. Each of them
performs the allocator's action it calls.

`Writer` is the shared writer of `serialize/writer.ts`: an output somewhere in memory, a
cursor, and what would have been needed once something did not fit. Content is
its length; `touched` is the end of the furthest store, because formatting in
place writes wider characters than it leaves. Addresses are words whose sums wrap
(`Wrap`), so that the second half of the code's test, `next >= writerCursor`, has something
to refuse. An array of doubles is checked once (`WriteF64Array`) and then stored one
`WriteElement` at a time without a check. The host keeps `NumberScratch` bytes between an
output and the end of scratch (`node-binding.js:954`), which is why no smaller sum wraps.

### What the host remembers

`Views` models the binding over parsed documents of known shape. The schema is
the smallest with every kind of field transition: a number (written in
place), a real array (exposed by its first read, after which it is the host's), and a nested
record with a number and a string (overlaid when it is written). A text is the value
it spells and how it spells it. `docs` is document memory, `results` the shared
view state with overlays and cached string, `resident` the input that the bridge
remembers. A released document keeps its bytes until its block is reused.

`JsonObjects` is what views promise: each parse returns an object, whose
parts read as last written, whose text is the text of those parts, and which answers
nothing after `dispose`. `Views!ObjectSpec` is the refinement.

`DynamicViews` models the binding over values of unknown shape. A value is a
cell, the slot of a name in a document; a container is a list of entries. `states`
is what the views of one document share (`hostRoot`, `hostValues`, `serialized`),
`unbuilt` the containers that still are source spans, `heap` the host copies,
`held` a wrapper that the application keeps. `Child` and `HostChild` reach further
views, `WriteView` and `WriteHeld` are the mutators of arrays and objects by their
results (`ArrayWrites`, `ObjectWrites`), `ParseIntoView` and `ParseIntoHeld` reuse
a value for another parse.

### Bytes

`Words` has packed words of eight lanes, the subtraction and addition that borrow and carry
from lane to lane, the masks of candidates built on them, the strides of the two 8-byte scanners
and the folding of packed digits. `Bytes` adds the bit operations. `StringScan` has the three kernels that find the end of a
string (`naive`, `swar`, `simd`), the second with its four-word turns and the third
with the block classification of UTF-8. `StringWrite` has the three that print
one: measure, claim, fill. `JsonStrings` is their reference: tokens, what a payload
means, how JSON.stringify spells it.

`Documents` is the validating scanner of `deserialize/scanner.ts` with its entry
and size counts, and `Boundaries` the four that find the end of a value in a text
known to be valid. `JsonTexts` is their reference: the readings of a text as trees,
bounded by depth.

`Numbers` reads numbers and integers as the sequences of their digits, so that
2^53, 2^63 and 2^64 are within reach of TLC's integers: a comparison of digit
sequences is the overflow test of the code. It also has the kernels of integer and
boolean arrays, which count first and then store. `JsonNumbers` is the reference.

`DynamicGraph` is `deserialize/dynamic.ts` and `serialize/dynamic.ts`: slots,
headers and entries bumped off an arena; the eager parse, the one into a fixed
buffer and the retained one that leaves containers as spans; their materialization
one by one or as a whole tree; the printer.

`RecordEngines` is the pair of earlier engines: the columnar one, which turns every
level of a text into a table, and the one that makes slots point at slots.

`Records` is what the code that `record-codegen` and `emit/assembly` generate does
to memory, for a schema that is a constant: the layout of `schema-ir.ts` (bitmaps,
slots, lazy bitmap), the three tiers with their restarts, arrays gathered in chunks
at the scratch end of the block, tuples, unions, nested records, deferred fields.
`RecordDocuments` completes it with the exported functions: the flat parser, the
graph parser with its estimates and second attempt, the parser into a buffer, the
serializer with the canonical-source path and its promotion, omission, defaults, and
the materializer of a deferred field. `JsonRecords` is the reference: whether a tree
conforms to a schema, and what it prints as.

### Instances and proofs

`MCAllocator`, `MCTypedParse`, `MCViews`, `MCNestedViews`, `MCDynamicViews`,
`MCStrings`, `MCNumbers`, `MCDocuments` and `MCRecords` give constants their small
values. The last four are machines that put a text together, and state what the
algorithms promise of it. `MCNestedViews` adds an application that passes nested
views to `stringify` or `dispose`.

The proofs are in modules of their own. `SortedLists` (order-preserving changes to a
sequence, and which of them undo each other), `AllocatorHeaps` (sets of blocks that tile an
interval, and what each allocator helper does to them) and `AllocatorProofs` (the
theorems) are about the allocator, `StoreProofs` about its refinement of `DocumentStore`,
`TypedParseProofs` about the call over it. `ViewsProofs` and `DynamicViewsProofs`
extend the machine they are named after, `KernelProofs` extends `Words` and `Writer`.

## Runs

| Run | Checks | Shows |
|---|---|---|
| `AllocatorBlocks` | `TypeOK` `NoOverlap` `NoLeak` `FreeListSorted` `Coalesced` `AllReclaimed` `WithinMemory` `RetryFits` | every order of calls over up to nine heap granules |
| `AllocatorContents` | `HeadersAgree` `StoreSpec` | documents are independent values, even when a payload reads as a header |
| `TypedParse` | `CallOK` `HeapRestored` `ParsedFits` `Terminates` | a parse with both retries leaks nothing and returns |
| `Views` | `TypeOK` `NoStaleView` `CanonicalSource` `DirtyExactly` `ResidentInput` `ObjectSpec` | parsed values are independent objects |
| `DynamicViews` | `RootText` `DocumentsHeld` `ReadsKept` | the kept text is never stale, views keep what they show, documents have one owner |
| `Strings` | `ScannersAgree` `FirstCandidateTrue` `PrintedCanonically` `ClaimedExactly` `KeysMatchDecoded` | scalar, 8-byte and 16-byte kernels equal the grammar |
| `Numbers` | `NumbersExact` `IntegersExact` `ArraysExact` `InBounds` | no digit is lost, no overflow is missed, no store leaves its room |
| `Documents` | `AcceptedExactly` `BoundariesAgree` `GraphFaithful` `ReservedSuffices` `PrintedTheSame` `RowsFaithful` | scanners, dynamic graph and earlier engines agree with the grammar |
| `Records` | `RecordsAccepted` `RecordsPrinted` | generated parsers accept the texts of their schema and print what they said |

### Bounds

`MaxMemory` is the memory's own maximum and not a cut-off: runs reach
it, because exhaustion is part of the behaviour. In `AllocatorBlocks` nine granules hold
four smallest blocks, enough for a release with free neighbours on both sides
and a block at the wilderness. One request, 9, is too large for any header word,
and one page of growth is left. `AllocatorContents` has fewer granules because
payload contents multiply the states.

`TypedParse` has texts that fit
the compact capacity, need the conservative one, need more than that, are malformed
early or late, or are too long, the first two also of a schema with deferred fields, and up to `MaxDocuments` = 3 documents, so that the heap is
fragmented when a parse begins. `MaxLength` stands for 0x0fffffff and `RecordSize`
for the root record with its slack of 1024 bytes.

`Views` has two results over two documents
(`MaxParses`), so that a block is reused while a disposed view of its
earlier owner is still held, and two writes (`MaxWrites`), enough to write,
stringify and write again. Pointers are symmetric: the binding never orders them.

`DynamicViews` has two parses over two pointers of the value
`{"items":[{"ok":0}]}`, an array in an object and an object in an array, with two
mutations (`MaxWrites`) of containers of at most two entries (`MaxEntries`). Two
mutations are enough to mutate, stringify, and mutate through another view or
wrapper; two parses, to reuse a value while views of its earlier document remain.

`Strings` puts texts together from at most `MaxPieces` = 3 of 17 pieces (quotes,
backslashes, unfinished and whole escapes, control characters, bytes at the edges
of each UTF-8 range) behind 0, 7 or 14 and before 0, 16 or 34 plain bytes, so that a
piece meets each side of an 8- and a 16-byte boundary, and the turns of 32 bytes
happen.

`Numbers` takes each part of a number at the edges of the kernels: 3, 4, 8, 9 digits;
2^8, 2^32, 2^53, 2^63 and 2^64 less one and beyond; fractions of 4 to 92 digits;
exponents on both sides of the exact powers of ten. `ExponentCap` is 10000 as in the
code. Arrays have at most `MaxElements` = 3 elements. The writer has `Addresses` = 300 instead of 2^32, and
outputs (`Outputs`) that end within a number, within an array and after both; literals
of two lengths and one, 290, whose end wraps around (`Lengths`); arrays of no, one, some and
too many doubles (`ArrayLengths`); and formatted doubles of the shortest and longest `Widths`.

`Documents` and `Records` start from texts that have every construct and take
everything one edit away (`MaxEdits` = 1: a byte of the alphabet inserted, removed or
replaced anywhere), which reaches each error path at each place. A text that has been edited is
then read, and their properties are action properties of the step `Read`: each text is
evaluated once. The limits are small
so that both sides of them occur: `MaxDepth` 2 (8 in `Records`) for the 256 levels of the scanner, `GraphDepth` 5
for the 256 of generated parsers, `WordBits` 2 for the 32 fields of a bitmap word, `ChunkElements` 2 for the 16
of an array chunk, `LinearMax` 1 for 16 keys compared one by one. `EagerOverhead` and `RetainedOverhead`
are what a dynamic document has beyond its source and a share of its length: 16
instead of 64 and 1040 bytes, and `BaseExtra` 0 instead of 1024 for a typed one; with the code's
slack no short text would ever outgrow its first estimate. `Registry` has a recursive
schema and one of scalars.

`CHECK_DEADLOCK FALSE` is in `Numbers`, `Documents`, `Records` and `SpacedFlat`, whose texts come to an end, and in
`DynamicViews` and `NestedText`, where the application stops once its parses and
writes are used up. The other machines go on for ever.

### What is set apart

Some properties exclude inputs on which the code is known to depart from the
grammar. Each is a named operator of the MC module:
- `QuickZero`: the packed four-digit path takes a number such as `0042`.
- `LateBlank`: a blank behind a colon, see the finding below.
- `BareString`: the emitted graph parser of strings does not check the opening quote
  (`emit/assembly/string.ts:9`).
- `TupleBlank`: a tuple does not skip a blank before its `]` (`graph.ts:637`).
- `EndBlank`: a graph that was read in order without blanks is refused when a blank follows it (`graph.ts:700`).
- `BareElement`: the columnar engine takes the container that follows a scalar in an array of
  records as part of it (`wasm/eager.ts:248`, `:276`).

The writer's `ArrayLengths` leave out the lengths that `MaxArray` admits although `50 + 25n` wraps
(`writer.ts:52`): with 2^32 addresses, the two largest.

The graph of `DynamicViews` excludes a container stored in the copies of two
documents, and results of `slice`, `map`, `filter`, `concat` and `toJS` that are mutated afterwards:
a mutation drops the text of the document whose wrapper it came through, and of no other
(`node-binding.js:1622`). Objects there have distinct keys. Methods of a dynamic view that has
been released without a host copy are not called; `type` and `toJS` read memory before they find out
(`node-binding.js:1651`).

### Fairness

Fairness is assumed only in `TypedParse`: weak fairness of `ParseStep`, the steps
of a call in progress. The call runs to its end on the single thread, so a step
that can be taken is taken. Nothing is assumed of the application. The other
machines promise nothing about the future: every call of theirs is one step.

### Mutants

Every property is paired with a mutant in `PROJECT.json`: a plausible slip in one
modelled definition, for which the same run finds the property violated. The
mutants sit beside the definitions they change and are marked as such.

## Where the code and its documentation disagree

Each of these runs checks one statement and finds it violated.

| Run | Statement | What the code does |
|---|---|---|
| `NestedStringify` | serialization of a view is that of its value (`ARCHITECTURE.md:288`) | a nested typed view is serialized from the document's root record |
| `NestedText` | the same of a dynamic view after a mutation (`jsonarray-index.spec.ts:16`) | every view of a mutated document answers with the text of its root |
| `SpacedFlat` | a mismatch "restarts at the fully validating arbitrary-order tier" (`record-codegen/index.ts:188`) | `{"a": 5}` is refused for a record of scalars |

Further disagreements met while modelling, which the passing runs leave out:
- an empty payload committed at the wilderness lies at the bump pointer and cannot be released (`runtime.ts:314`);
- a payload with the shape of a caller-owned header is taken for one, and its block leaks (`runtime.ts:304`);
- merged blocks of 2 GiB consume the allocation bit (`runtime.ts:355`);
- a second release is accepted when the old header is inside the used heap again (`runtime.ts:318`);
- the host retries once, with a size for the compact attempt, although the conservative one follows (`node-binding.js:746`);
- `dispose` of a flat nested view frees the document under its root (`view-state.js:216`; the action `DisposeNested`);
- elements of a `JSON.Array` are new views on each access, so that a string written through one is lost (`node-binding.js:1367`, `:1449`);
- a nullable array of numbers or booleans does not tell `null` from 0 or false (`graph.ts:799`);
- the conservative capacity of a wide sparse record is short (`graph.ts:661`);
- `graphDepth` is not restored when an ordered tier fails inside an array, so siblings use up the limit (`graph.ts:549`);
- a document is trimmed to its top schema, which leaves a deferred composite inside a nested record no room (`graph.ts:709`, `view-state.js:131`);
- `@omitif` on a deferred number or boolean reads the words of its span (`emit/assembly/omit-if.ts:21`);
- the depth of a dynamic parse starts again in each deferred container (`dynamic.ts:59`), and `materializeDynamicTree` then refuses the text;
- arrays of 171798690 and 171798691 doubles pass a guard whose purpose is that their room, `50 + 25n`, does not wrap (`writer.ts:52`); no source text is long enough for one;
- a reuse of a nested dynamic view replaces the value of all views of its document (`node-binding.js:841`).

## Proofs

Every theorem holds for all values of the constants that the named assumptions of its module
allow, and for runs of any length.

| Module | Theorems | Besides the assumptions on the constants |
|---|---|---|
| `AllocatorProofs` | `TypeOK` `NoOverlap` `NoLeak` `FreeListSorted` `Coalesced` `HeadersAgree` `WithinMemory` `AllReclaimed` `RetryFits` | `PlainCallers` |
| `StoreProofs` | `Spec => StoreSpec` | `PlainCallers` |
| `TypedParseProofs` | `CallOK` `HeapRestored` `ParsedFits`, `ParseSpec => StoreSpec` | `PlainCallers` |
| `ViewsProofs` | `TypeOK` `NoStaleView` `CanonicalSource` `DirtyExactly` `ResidentInput`, `Spec => ObjectSpec` | |
| `DynamicViewsProofs` | `DocumentsHeld` `ReadsKept` `RootText` | |
| `KernelProofs` | `InBounds` | `ArraysFit` |
| `KernelProofs` | `RefusalsAsk` (a refused write asks for more than its output has) | `ArraysFit` `RequestsFit` |
| `KernelProofs` | `CandidatesOfWords` `DigitsOfWords` (masks of every packed word) | |
| `KernelProofs` | `TrustedScanStops` `StrictScanStops` (strides over texts of any length) | |
| `KernelProofs` | `EightDigitsKept` `PrintedDigits` (packed digits read, integers printed) | |

`PlainCallers` says that memory is at most 2^31 bytes, that no request is
empty and that no payload has the shape of an external header. It excludes
exactly the first three of the further disagreements above, for each of which some
property is false. `ArraysFit` says that the room asked for an array that passes the
guard does not wrap, and excludes the two lengths of `writer.ts:52`. `RequestsFit` says
that a literal or an array behind a whole output ends below `Addresses`, and that no array is
longer than its guard allows. Beyond it the statement is false: with a length near 2^32 the sum that is
reported wraps, and an array that fails the guard is refused without a request.

### The allocator

None of the properties is inductive. That blocks do not overlap is preserved by a
release only when the list is sorted, that a merge loses nothing only when the header
sizes of free blocks are right, and so on. The inductive invariant `IInv` says that the owned
and free blocks tile the interval from `HeapBase` to `heapBump` exactly, that the list is
sorted without repetition and coalesced, and that headers carry the right bit. The
argument is in three layers. `SortedLists` shows what inserting into,
replacing in and removing from a sorted sequence preserve. `AllocatorHeaps` shows what happens to a tiling
when a block is split, two are merged, or one is added or removed at its end, and
applies both to the allocator's helpers, one lemma per branch of allocation,
resizing and release. `AllocatorProofs` then has one step per action, and
derives each property from `IInv`. `RetryFits` is inductive beside it: it relates the limit
that an exhausted allocation reported to the bump pointer, which nothing moves before the
retry without replacing the report.

### Documents as values

`StoreProofs` needs to know which granules an operation stores to, not only which
blocks it leaves. A store always lies in a free block, in the wilderness, or in the block the
operation is about (`Spared`), and by the tiling these meet no other owned
block. So each action maps to one of the store's on the payloads of owned blocks, or to a stutter.

### A parse leaves no trace when it fails

That the block of a failed attempt is back is part of the tiling. That the free list is the
same as before is not: the release must undo what the allocation did to it. `Carved` says in
which of three ways the block was taken (at the wilderness, a free block whole, the front of
one), `Borrowed` that the heap less that block is the heap before the
call, and `ParseInv` carries both through growth, reservation and the second attempt. The
lemmas `InsertUndone`, `RemoveUndone` and `ReplaceUndone` of `SortedLists` then give
back the very list. `ParsedFits` uses the same description at the successful end, where the
document is trimmed to its graph or, with deferred fields, left the whole room of its attempt, and
`ParsesIsolated` is `StoreProofs` applied to the actions that each step of a call performs.

### Typed views

`IInv` of `ViewsProofs` adds to the properties that everything kept for later is true: a
document whose canonical or candidate bit is set, and a view with a kept text, have no overlay, and
the source, respectively the text, spells the slots (`Faithful`). Every step but parse and
dispose changes one view and its document, so `Update` says once what that does to all
the others. The refinement of `JsonObjects` follows with one step per action: what a view reads
after a write is the object with that part replaced, whatever was cached.

### Dynamic views

The ownership of documents in `DocumentsHeld` is nearly inductive; it needs the shape of the state
(`Shaped`: one entry of `states` and `unbuilt` for each parse). `ReadsKept` needs more. A view never is of
a container still unbuilt (`ViewsBuilt`). The host has no copy of a document that
is still read in memory, and what the views of a copy stand for is in the host's heap
(`Copied`). The wrapper that the application keeps belongs to a copy (`HeldHosted`). Then a step that
parses nothing either leaves the heap alone, or adds the copy of one document, whose views
showed the same entries in memory (`HostReads`), or changes the entries of a single container
(`HostingReads`), and the views whose reading changes all stand for that one.

`RootText` compares the text that the root of a document keeps with the one that `stringify`
would make anew, which is a recursive function of the host's heap. Two facts about that
function stand for the induction. `TextExists`: the equations that define the texts of
a closed, finite heap have a solution; if not, there is a least weight at which they have none. `TextLocal`:
two heaps that agree on a closed set of containers give its members the same text; if not,
there is a lightest container whose texts differ. The weight of a container counts the
containers it is not inside of, so it falls from a container to what it
holds even where a mutation has closed a cycle. They rest on two parts of `TreeAssumption`: slots are
finitely many, and what marks an element that is no container is no slot.

What a mutation may touch is then a matter of owners. The inductive invariant
`TextInv` says that there is a function from documents to the state whose views own them,
such that containers hold only containers of their owner (`Partitioned`), host copies and the
wrapper held belong to the state that reached them (`Owned`), and each text kept is the
one that would be made (`TextsKept`). A document belongs to its own state, or, when it was parsed
into a value that was there, to the state of that value. The function is no variable of the model and
nothing in the code: the invariant asserts that one fits. A step that changes a container drops
the text of its owner, and by `TextLocal` changes that of no other state.

### The writer

`InBounds` is not inductive inside an array, whose elements are stored without a check. `ArrayRoom` says
what is still there: 25 characters for each element left and 49 behind them, of
which the last element, formatted two bytes wide, may take 48.

`RefusalsAsk` needs the same invariant: `required` is counted from `start` to behind
the request, and the request did not fit between `cursor` and `end`.

### Packed words and digits

The 8-byte kernels test a word with one subtraction or addition. A lane that borrows or
carries disturbs the lane above it, so a mask has false candidates, and
the kernels rest on three claims: no true one is missed, the lowest is true, and the mask
of the digit test is empty exactly when all eight are digits. `IsRipple` describes borrow and carry at once as what starts in
some lanes and passes through others (`ReachedStep`), so that the lanes below the first
start are exact (`LowLanes`). Unions of masks keep the claims (`UnionFirst`), which gives them for quotes, control
characters, characters to escape and structural characters alike.

The strides of the scanners are an iteration over words: `FirstWordFacts`
describes where a search for the first word with a candidate ends, and with the
claims above no byte that matters has been passed over. The rest of a text, fewer than eight bytes,
is read by the scalar loops that `Strings` runs.

`EightDigitsKept` follows the products of the folding through their lanes: none
exceeds its field, so pairs become hundreds, hundreds myriads, and the result has the digits in order.
`PrintedDigits` is the way back. `writeU32` splits a number by its size into a leading part of
one or two digits and pairs. `LeadPart` and `PairPart` say that each is the digits of
its places (`Part`), `Joins` that neighbouring parts make one, so every
arm of the ladder prints all digits, and the arm is chosen such that none is a leading zero.

### Only model-checked

- `Terminates`: liveness under fairness is out of the prover's reach.
- The properties of `MCStrings`, `MCNumbers`, `MCDocuments` and `MCRecords` (`ScannersAgree`,
  `FirstCandidateTrue`, `PrintedCanonically`, `ClaimedExactly`, `KeysMatchDecoded`, `NumbersExact`,
  `IntegersExact`, `ArraysExact`, `AcceptedExactly` and the others): their
  modules declare recursive operators or use bit operations, which the prover does not
  support, and what they compute would take induction over texts. `CandidatesOfWords` proves for every word
what `FirstCandidateTrue` says of the words that occur in a run.
- The scalar rests of the scanners, the 16-byte kernels and the loops over digits and elements, which are parts of those runs.

## Not modelled, and the plan

Partly modelled components leave out what follows. Root wrappers of typed parses, and optional, union
and host-managed fields on the host side of `Views`. The cursor that the host shares between
nested views of a document with deferred fields, and the host's table of caller-owned
documents. The refusal of the dynamic serializer for want of output (`serialize/dynamic.ts:62`); the sign that
`deserializeInteger` gives its magnitude (`integer.ts:191`). Kernels of string and nested arrays, which repeat the loop of the integer one. The rounding of a significand to
binary64 and the shortest printing of a double: tables of 64- and 128-bit products, beyond TLC's integers. Collection of
unreachable views by a finalizer, which needs a model of reachability.

Not modelled at all:
- the schema registry, a fixpoint over descriptions at load time that no later call changes;
- the program analyzer, which translates syntax trees of the TypeScript checker (the layout it leads to is in `Records`);
- the artifact compiler and cache, calls to another compiler and the file system with a content hash for a name;
- the command line and host artifact, which are text and plumbing;
- the portable fallback, plain host objects over the platform JSON;
- tests, benchmarks and scripts.

What is left to prove is about texts: that the scalar loops agree with the strides, which would give
`ScannersAgree` for all lengths, and that a mantissa read in the blocks of `EightDigitsKept` is that of all its digits. Both are
inductions over the data, which a least counterexample can stand for as in `TextExists`, once
the recursive operators of `StringScan` and `Numbers` are functions.
