------------------------------- MODULE MCViews -------------------------------
(* Two results, two documents and the texts of two objects.                  *)
EXTENDS Views, TLC

Symmetry == Permutations(Pointers)

Spelling(root, nested, style) ==
  [value |-> [p \in Parts |-> IF p \in RootParts THEN root ELSE nested], style |-> style]

MCSources == {Spelling("one", "two", "canonical"), Spelling("two", "two", "ordered")}

=============================================================================
