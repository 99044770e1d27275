----------------------------- MODULE MCDirectMode -----------------------------
(***************************************************************************)
(* Instances of DirectMode for TLC: every source needs the header A, and   *)
(* the header H as well when the content of A is v1.                       *)
(***************************************************************************)
EXTENDS DirectMode, TLC

CONSTANTS A, H, v1, v2

MCUses == [s \in Source |-> [c \in Contents |-> IF c[A] = v1 THEN {A, H} ELSE {A}]]

Symmetry == Permutations(Job)
=============================================================================
