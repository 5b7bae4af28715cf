---------------------------- MODULE MCUnaryCalls ----------------------------
(* The unary handlers under TLC. A client asks for no columns, or for types *)
(* the backend has a line for, UNSPECIFIED, UNKNOWN and one nobody knows,   *)
(* side by side and in the struct that an array holds.                     *)
EXTENDS UnaryCalls

Leaves == <<2, 0, WireUnknown, 17>>
ColumnAt(path) ==
  [type |-> CASE path = <<5>>    -> ArrayType
              [] path = <<5, 1>> -> StructType
              [] OTHER           -> Leaves[path[Len(path)]],
   rest |-> "as it is"]
Paths == {<<i>> : i \in 1 .. 5} \cup {<<5, 1>>} \cup {<<5, 1, i>> : i \in 1 .. 4}
FewLists == {[path \in ps |-> ColumnAt(path)] : ps \in {{}, Paths}}
=============================================================================
