---------------------------- MODULE MCTypedParse -----------------------------
(* Texts for each path of the parser: one that fits the compact block, one   *)
(* that needs the conservative block, one that needs more than that, two     *)
(* that are malformed, one that is too long for a document header, and one   *)
(* of a schema with deferred fields for each of the two blocks.              *)
EXTENDS TypedParse

TextOf(length, peak, size, valid) ==
  [length |-> length, peak |-> peak, size |-> size, valid |-> valid, deferred |-> FALSE]
Deferring(text) == [text EXCEPT !.deferred = TRUE]

Plain == TextOf(1, 4, 4, TRUE)
Dense == TextOf(1, 9, 7, TRUE)
TooDense == TextOf(1, 25, 20, TRUE)
Malformed == TextOf(1, 3, 3, FALSE)
DenseMalformed == TextOf(1, 8, 8, FALSE)
TooLong == TextOf(4, 9, 9, TRUE)

AllTexts == {Plain, Dense, TooDense, Malformed, DenseMalformed, TooLong,
             Deferring(Plain), Deferring(Dense)}
NoWords == {}

=============================================================================
