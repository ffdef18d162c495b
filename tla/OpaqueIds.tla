------------------------------ MODULE OpaqueIds ------------------------------
(***************************************************************************)
(* Identifiers that callers choose and the code only compares for          *)
(* equality, and what the code keeps under them.  Offered identifiers are  *)
(* numbers: a caller offers either one that is in use or the least one     *)
(* that is not: any other choice is the same behaviour with other names.   *)
(***************************************************************************)
EXTENDS Naturals

Offered(ids, used) ==
  used \cup {x \in ids \ used : \A y \in ids \ used : x <= y}

\* Map.set
Put(map, id, value) ==
  [x \in DOMAIN map \cup {id} |-> IF x = id THEN value ELSE map[x]]
=============================================================================
