----------------------------- MODULE JsonObjects -----------------------------
(***************************************************************************)
(* What the host binding promises an application: every parse returns an   *)
(* object of its own, whose parts read as they were parsed or last         *)
(* written, whose text is the text of what its parts read, and which       *)
(* answers nothing once it has been disposed of.                           *)
(***************************************************************************)
CONSTANTS
  Ids,    (* the results of successive parses *)
  Parts   (* the fields an object is made of  *)

VARIABLES
  objects,  (* the value of every object not yet disposed of *)
  answer    (* what the last call returned                   *)

Init == objects = << >> /\ answer = [call |-> "none"]

Others(id) == DOMAIN objects \ {id}

Unchanged(ids) ==
  \A id \in ids : id \in DOMAIN objects' /\ objects'[id] = objects[id]

(* The text handed to parse decides the object's value.                      *)
Parse(id) ==
  /\ id \notin DOMAIN objects
  /\ DOMAIN objects' = DOMAIN objects \cup {id}
  /\ answer'.call = "parse"
  /\ objects'[id] = answer'.object
  /\ Unchanged(DOMAIN objects)

Read(id, part) ==
  /\ answer' = [call |-> "read", value |-> objects[id][part]]
  /\ UNCHANGED objects

Write(id, part) ==
  /\ answer'.call = "write"
  /\ DOMAIN objects' = DOMAIN objects
  /\ objects'[id] = [objects[id] EXCEPT ![part] = answer'.value]
  /\ Unchanged(Others(id))

(* The text of the parts asked for: the whole object or one of its records.  *)
Stringify(id, parts) ==
  /\ answer' = [call |-> "stringify",
                text |-> [value |-> [p \in parts |-> objects[id][p]], style |-> "canonical"]]
  /\ UNCHANGED objects

Dispose(id) ==
  /\ DOMAIN objects' = Others(id)
  /\ Unchanged(Others(id))
  /\ answer' = [call |-> "dispose"]

(* Every use of an object that has been disposed of is refused.              *)
Refuse == answer' = [call |-> "released"] /\ UNCHANGED objects

(* Calls that touch no object.                                              *)
Other == answer' = [call |-> "none"] /\ UNCHANGED objects

Next ==
  \/ \E id \in Ids : Parse(id)
  \/ \E id \in DOMAIN objects :
       \/ \E part \in Parts : Read(id, part) \/ Write(id, part)
       \/ \E parts \in SUBSET Parts : Stringify(id, parts)
       \/ Dispose(id)
  \/ Refuse
  \/ Other

Spec == Init /\ [][Next]_<<objects, answer>>

=============================================================================
