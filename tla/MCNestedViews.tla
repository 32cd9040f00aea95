---------------------------- MODULE MCNestedViews ----------------------------
(* Views with an application that passes a nested view, and not only the     *)
(* result of parse, to stringify and to dispose.                             *)
EXTENDS MCViews

NestedSpec ==
  Init /\ [][Next \/ \E id \in Ids : Stringify(id, "nested") \/ DisposeNested(id)]_vars

=============================================================================
