--------------------------- MODULE RecordEngines ---------------------------
(***************************************************************************)
(* The two earlier engines for arrays of records: the eager one            *)
(* (assembly/wasm/eager.ts) turns every level of a text into a table of    *)
(* its own, the other one (assembly/wasm/parser.ts) into slots that point  *)
(* at slots.  Both read text that is known to be JSON, write into an arena *)
(* that starts over with every document, and collect the elements of an    *)
(* array in a second memory until their number is known.                   *)
(***************************************************************************)
EXTENDS Documents

LOCAL INSTANCE TLC
LOCAL INSTANCE Bitwise
LOCAL INSTANCE SequencesExt
LOCAL INSTANCE FiniteSetsExt

CONSTANTS
  Registry,           \* the registered schemas: sequences of keys with modes
  LinearMax           \* fields up to which keys are compared one by one: 16

Prim == -1            \* an array of scalars
Leaf == -2            \* a scalar, or a composite that stays a span

Cell(kind, a, b) == [kind |-> kind, a |-> a, b |-> b]
ZeroCell == Cell("zero", 0, 0)
Absent == Cell("absent", 0, 0)

(* A document in the making: the cells of the arena, of the second memory
   and of the place for values that nobody wants, the ends of the first two,
   the address after the value that was read last and where it went. *)
Fresh(eager, cells) ==
  [eager |-> eager, cells |-> cells, bump |-> 0, tsp |-> 0, next |-> 1, region |-> 0]
Arena(at) == <<"arena", at>>
Tmp(at) == <<"tmp", at>>
Scratch == <<"scratch", 0>>
Shift(place, n) == <<place[1], place[2] + n>>
Keep(g, place, cell, next) == [g EXCEPT !.cells = (place :> cell) @@ @, !.next = next]
Cleared(g, place, m) ==
  [g EXCEPT !.cells = [c \in {Shift(place, f) : f \in 0..(m - 1)} |->
                         IF g.eager THEN ZeroCell ELSE Absent] @@ @]
Copied(g, from, to, n) ==
  [g EXCEPT !.cells =
     [c \in {Arena(to + k) : k \in 0..(n - 1)} |-> g.cells[Tmp(from + c[2] - to)]] @@ @]

(* Keys: one by one, or through a table of open addresses. *)
Fnv(key) == FoldLeft(LAMBDA h, b : ((h ^^ b) * 403) % 65536, 40389, key)
TableSize(count) == Min({t \in {2^k : k \in 2..14} : t >= 2 * count})
Slots(key, size) == [d \in 1..size |-> (Fnv(key) + d - 1) % size]
HashTable(fields) ==
  LET size == TableSize(Len(fields))
      Insert(table, f) ==
        LET slots == Slots(fields[f].key, size)
            free == Min({d \in 1..size : table[slots[d]] = 0})
        IN [table EXCEPT ![slots[free]] = f]
  IN FoldLeft(Insert, [slot \in 0..(size - 1) |-> 0], [f \in DOMAIN fields |-> f])
HashLookup(fields, key) ==
  LET table == HashTable(fields)
      slots == Slots(key, TableSize(Len(fields)))
      stop == Min({d \in DOMAIN slots :
                     table[slots[d]] = 0 \/ fields[table[slots[d]]].key = key})
  IN table[slots[stop]]
MatchKey(g, sid, key) ==
  LET fields == Registry[sid]
      same == {f \in DOMAIN fields : fields[f].key = key}
  IN IF g.eager /\ Len(fields) > LinearMax THEN HashLookup(fields, key)
     ELSE IF same = {} THEN 0 ELSE Min(same)

(* The ends of strings, composites and scalars. *)
RECURSIVE SkipQuoted(_, _, _), ScanComposite(_, _, _, _)
SkipQuoted(s, p, end) ==
  LET stops == {q \in p..end : s[q] \in {Quote, Backslash}}
  IN IF stops = {} THEN Max({p, end + 1})
     ELSE IF s[Min(stops)] = Quote THEN Min(stops) ELSE SkipQuoted(s, Min(stops) + 2, end)
ScanComposite(s, p, end, depth) ==
  CASE p > end -> p
    [] s[p] = Quote -> ScanComposite(s, SkipQuoted(s, p + 1, end) + 1, end, depth)
    [] s[p] \in {OpenBrace, OpenBracket} -> ScanComposite(s, p + 1, end, depth + 1)
    [] s[p] \in {CloseBrace, CloseBracket} ->
         IF depth = 1 THEN p + 1 ELSE ScanComposite(s, p + 1, end, depth - 1)
    [] OTHER -> ScanComposite(s, p + 1, end, depth)
ScalarStop(s, p, end) ==
  Min({end + 1} \union {q \in p..end : s[q] \in Whitespace \union {Comma, CloseBrace, CloseBracket}})
ValueEnd(s, p, end) ==
  CASE At(s, p) = Quote -> SkipQuoted(s, p + 1, end) + 1
    [] At(s, p) \in {OpenBrace, OpenBracket} -> ScanComposite(s, p, end, 0)
    [] OTHER -> ScalarStop(s, p, end)

RECURSIVE ReadValue(_, _, _, _, _, _), MembersInto(_, _, _, _, _, _), Rows(_, _, _, _, _, _),
  SlotElements(_, _, _, _, _), Scalars(_, _, _, _, _, _)

(* The member loop of both engines, and of the spans of a document that is
   edited in place. *)
MembersInto(g, s, sid, start, end, base) ==
  LET p == SkipWhitespace(s, start)
      quote == SkipQuoted(s, p + 1, end)
      colon == SkipWhitespace(s, quote + 1)
      f == MatchKey(g, sid, SubSeq(s, p + 1, quote - 1))
      read == IF f = 0 THEN ReadValue(g, s, colon + 1, end, Scratch, Leaf)
              ELSE ReadValue(g, s, colon + 1, end, Shift(base, f - 1), Registry[sid][f].child)
      stop == SkipWhitespace(s, read.next)
  IN IF At(s, p) = CloseBrace THEN [g EXCEPT !.next = p + 1]
     ELSE IF At(s, p) # Quote THEN [g EXCEPT !.next = p]
     ELSE IF At(s, colon) # Colon THEN [g EXCEPT !.next = colon]
     ELSE IF At(s, stop) = Comma THEN MembersInto(read, s, sid, stop + 1, end, base)
     ELSE [read EXCEPT !.next = IF At(s, stop) = CloseBrace THEN stop + 1 ELSE stop]
RecordInto(g, s, sid, p, end, base) ==
  MembersInto(Cleared(g, base, Len(Registry[sid])), s, sid,
              SkipWhitespace(s, p) + 1, end, base)

-----------------------------------------------------------------------------
(* The eager engine: a table is a header and its rows.                     *)

Header1(g, region, rows, m) ==
  [Keep(g, Arena(region), Cell("table", rows, m), g.next) EXCEPT !.region = region]
ObjTable(g, s, sid, p, end) ==
  LET m == Len(Registry[sid])
      room == [g EXCEPT !.bump = @ + 1 + m]
  IN Header1(RecordInto(room, s, sid, p, end, Arena(g.bump + 1)), g.bump, 1, m)

(* The records of an array; a flat one goes to the arena at once.  An
   element that is no object is passed over as if it were a composite. *)
FlatSchema(sid) == \A f \in DOMAIN Registry[sid] : Registry[sid][f].child = Leaf
Rows(g, s, sid, start, end, count) ==
  LET p == SkipWhitespace(s, start)
      m == Len(Registry[sid])
      base == IF FlatSchema(sid) THEN Arena(g.bump) ELSE Tmp(g.tsp)
      room == IF FlatSchema(sid) THEN [g EXCEPT !.bump = @ + m] ELSE [g EXCEPT !.tsp = @ + m]
      object == At(s, p) = OpenBrace
      read == IF object THEN RecordInto(room, s, sid, p, end, base)
              ELSE [g EXCEPT !.next = ScanComposite(s, p, end, 0)]
      stop == SkipWhitespace(s, read.next)
      now == IF object THEN count + 1 ELSE count
  IN IF At(s, p) = CloseBracket THEN [rows |-> count, g |-> [g EXCEPT !.next = p + 1]]
     ELSE IF At(s, stop) = Comma THEN Rows(read, s, sid, stop + 1, end, now)
     ELSE [rows |-> now,
           g |-> [read EXCEPT !.next = IF At(s, stop) = CloseBracket THEN stop + 1 ELSE stop]]
Gathered(read, from, m) ==
  LET used == read.tsp - from
      copied == Copied(read, from, read.bump + 1, used)
  IN Header1([copied EXCEPT !.bump = @ + 1 + used], read.bump, used \div m, m)
(* Mutant: the second memory is not given back. *)
ArrTableKeeping(g, s, sid, p, end) ==
  LET m == Len(Registry[sid])
      flat == Rows([g EXCEPT !.bump = @ + 1], s, sid, p + 1, end, 0)
      read == Rows(g, s, sid, p + 1, end, 0).g
  IN IF FlatSchema(sid) THEN Header1(flat.g, g.bump, flat.rows, m) ELSE Gathered(read, g.tsp, m)
ArrTable(g, s, sid, p, end) ==
  LET m == Len(Registry[sid])
      flat == Rows([g EXCEPT !.bump = @ + 1], s, sid, p + 1, end, 0)
      read == Rows(g, s, sid, p + 1, end, 0).g
  IN IF FlatSchema(sid) THEN Header1(flat.g, g.bump, flat.rows, m)
     ELSE [Gathered(read, g.tsp, m) EXCEPT !.tsp = g.tsp]
Scalars(g, s, start, end, base, count) ==
  LET p == SkipWhitespace(s, start)
      read == ReadValue(g, s, p, end, Shift(base, count), Leaf)
      stop == SkipWhitespace(s, read.next)
  IN IF At(s, p) = CloseBracket THEN [rows |-> count, g |-> [g EXCEPT !.next = p + 1]]
     ELSE IF At(s, stop) = Comma THEN Scalars(read, s, stop + 1, end, base, count + 1)
     ELSE [rows |-> count + 1,
           g |-> [read EXCEPT !.next = IF At(s, stop) = CloseBracket THEN stop + 1 ELSE stop]]
PrimTable(g, s, p, end) ==
  LET read == Scalars([g EXCEPT !.bump = @ + 1], s, p + 1, end, Arena(g.bump + 1), 0)
  IN Header1([read.g EXCEPT !.bump = @ + read.rows], g.bump, read.rows, 1)

-----------------------------------------------------------------------------
(* The slot engine: an array is a count and its elements.                  *)

ObjectInto(g, s, sid, p, end) ==
  [RecordInto([g EXCEPT !.bump = @ + Len(Registry[sid])], s, sid, p, end, Arena(g.bump))
     EXCEPT !.region = g.bump]
SlotElements(g, s, mode, start, end) ==
  LET p == SkipWhitespace(s, start)
      object == mode >= 0 /\ At(s, p) = OpenBrace
      read == ReadValue(g, s, p, end, Tmp(g.tsp), IF object THEN mode ELSE Leaf)
      stop == SkipWhitespace(s, read.next)
      more == [read EXCEPT !.tsp = @ + 1]
  IN IF At(s, p) = CloseBracket THEN [g EXCEPT !.next = p + 1]
     ELSE IF At(s, stop) = Comma THEN SlotElements(more, s, mode, stop + 1, end)
     ELSE [more EXCEPT !.next = IF At(s, stop) = CloseBracket THEN stop + 1 ELSE stop]
ArrayInto(g, s, mode, p, end) ==
  LET read == SlotElements(g, s, mode, p + 1, end)
      count == read.tsp - g.tsp
      copied == Copied(read, g.tsp, read.bump + 1, count)
  IN [Keep(copied, Arena(read.bump), Cell("count", count, 0), read.next)
        EXCEPT !.bump = @ + 1 + count, !.tsp = g.tsp, !.region = read.bump]

(* The span of an object that was left for later. *)
EnterObject(g, s, sid, off, len) == ObjectInto(g, s, sid, off, off + len - 1)

-----------------------------------------------------------------------------
(* A value of either engine.                                               *)

Lazy(g, s, p, end, place, kind) ==
  LET stop == ScanComposite(s, p, end, 0)
  IN Keep(g, place, IF g.eager THEN Cell("nan", 0, 0) ELSE Cell(kind, p, stop - p), stop)
ReadValue(g, s, start, end, place, mode) ==
  LET p == SkipWhitespace(s, start)
      quote == SkipQuoted(s, p + 1, end)
      scalar == ScalarStop(s, p, end)
      object == IF g.eager THEN ObjTable(g, s, mode, p, end) ELSE ObjectInto(g, s, mode, p, end)
      array == IF ~g.eager THEN ArrayInto(g, s, IF mode = Prim THEN Leaf ELSE mode, p, end)
               ELSE IF mode = Prim THEN PrimTable(g, s, p, end)
               ELSE ArrTable(g, s, mode, p, end)
      Literal(text) == IF g.eager THEN ZeroCell ELSE Cell(text, 0, 0)
  IN CASE At(s, p) = Quote -> Keep(g, place, Cell("string", p + 1, quote - p - 1), quote + 1)
       [] At(s, p) = OpenBrace /\ mode >= 0 ->
            Keep(object, place, Cell("record", object.region, 0), object.next)
       [] At(s, p) = OpenBrace -> Lazy(g, s, p, end, place, "object")
       [] At(s, p) = OpenBracket /\ mode # Leaf ->
            Keep(array, place, Cell("rows", array.region, 0), array.next)
       [] At(s, p) = OpenBracket -> Lazy(g, s, p, end, place, "array")
       [] At(s, p) = True[1] -> Keep(g, place, Cell("true", 0, 0), p + 4)
       [] At(s, p) = False[1] -> Keep(g, place, Literal("false"), p + 5)
       [] At(s, p) = Null[1] -> Keep(g, place, Literal("null"), p + 4)
       [] OTHER -> Keep(g, place, Cell("number", p, scalar - p), scalar)

(* The places of the members of a text, for edits in place. *)
RECURSIVE SpanMembers(_, _, _, _)
SpanMembers(g, s, sid, start) ==
  LET p == SkipWhitespace(s, start)
      quote == SkipQuoted(s, p + 1, Len(s))
      from == SkipWhitespace(s, SkipWhitespace(s, quote + 1) + 1)
      stop == ValueEnd(s, from, Len(s))
      after == SkipWhitespace(s, stop)
      f == MatchKey(g, sid, SubSeq(s, p + 1, quote - 1))
      kept == IF f = 0 THEN g ELSE Keep(g, Arena(f - 1), Cell("span", from, stop - from), stop)
  IN IF At(s, p) # Quote \/ At(s, SkipWhitespace(s, quote + 1)) # Colon THEN g
     ELSE IF At(s, after) = Comma THEN SpanMembers(kept, s, sid, after + 1) ELSE kept
SpanObject(g, s, sid) ==
  SpanMembers(Cleared([g EXCEPT !.bump = 0], Arena(0), Len(Registry[sid])), s, sid,
              SkipWhitespace(s, 1) + 1)
=============================================================================
