---------------------------- MODULE MCHashServer ----------------------------
(***************************************************************************)
(* Instances of HashServer for TLC: two headers in two directories.         *)
(***************************************************************************)
EXTENDS HashServer

CONSTANTS winapp, resource, d1, d2

OwnDirs == [f \in File |-> IF f = winapp THEN d1 ELSE d2]
MCHeaders == <<winapp, resource>>
=============================================================================
