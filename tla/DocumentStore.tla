---------------------------- MODULE DocumentStore ----------------------------
(***************************************************************************)
(* What the allocator promises the rest of the runtime: a store of         *)
(* documents, each a sequence of words of its own.  A document keeps its   *)
(* contents until its owner stores into it; growing and trimming keep the  *)
(* part both sizes share; no operation on one document changes another.    *)
(***************************************************************************)
EXTENDS Integers, Sequences

CONSTANTS
  Ids,       (* document pointers              *)
  Contents   (* what a word of a document holds *)

VARIABLE docs  (* the contents of the documents that exist *)

Others(id) == DOMAIN docs \ {id}

Untouched(ids) == \A id \in ids : id \in DOMAIN docs' /\ docs'[id] = docs[id]

Init == docs = << >>

Create(id) ==
  /\ id \notin DOMAIN docs
  /\ DOMAIN docs' = DOMAIN docs \cup {id}
  /\ docs'[id] \in Seq(Contents)
  /\ Untouched(DOMAIN docs)

Shared(s, t) == 1..(IF Len(s) < Len(t) THEN Len(s) ELSE Len(t))

Resize(id) ==
  /\ DOMAIN docs' = DOMAIN docs
  /\ docs'[id] \in Seq(Contents)
  /\ \A k \in Shared(docs[id], docs'[id]) : docs'[id][k] = docs[id][k]
  /\ Untouched(Others(id))

Write(id) ==
  /\ DOMAIN docs' = DOMAIN docs
  /\ docs'[id] \in Seq(Contents)
  /\ Len(docs'[id]) = Len(docs[id])
  /\ Untouched(Others(id))

Release(id) ==
  /\ DOMAIN docs' = Others(id)
  /\ Untouched(Others(id))

Next ==
  \/ \E id \in Ids : Create(id)
  \/ \E id \in DOMAIN docs : Resize(id) \/ Write(id) \/ Release(id)

Spec == Init /\ [][Next]_docs

=============================================================================
