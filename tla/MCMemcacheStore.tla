--------------------------- MODULE MCMemcacheStore ---------------------------
(***************************************************************************)
(* Instances of MemcacheStore for TLC: objects of two and three blocks     *)
(* that share slices, and two machines with different slice sizes.         *)
(* The two units can have the same object.                                 *)
(* The second machine stores as a whole what the first stores as a slice.  *)
(***************************************************************************)
EXTENDS MemcacheStore

CONSTANTS m1, m2, u1, u2, h1, h2, b1, b2, b3

MCObject ==
    [u \in Unit |-> [h \in Header |->
        IF u = u1 /\ h = h1 THEN {<<b1, b2, b3>>, <<b3, b1, b2>>} ELSE {<<b1, b2>>}]]

MCChunk == [m \in Machine |-> IF m = m1 THEN 2 ELSE 3]
=============================================================================
