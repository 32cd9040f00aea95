--------------------------- MODULE MCDynamicViews ---------------------------
(* Dynamic views of a document {"items":[{"ok":0}]}.                        *)
EXTENDS DynamicViews

LOCAL INSTANCE TLC

At(key, slot) == [key |-> key, slot |-> slot]

MCTree ==
  ("root" :> <<At("items", "items")>>)
  @@ ("items" :> <<At("", "object")>>)
  @@ ("object" :> <<At("ok", "flag")>>)

Symmetry == Permutations(Pointers)
=============================================================================
