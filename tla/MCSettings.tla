----------------------------- MODULE MCSettings -----------------------------
(***************************************************************************)
(* An instance of Settings for TLC: two settings with two values each, and *)
(* a file that may lack either, or both, to begin with.                    *)
(***************************************************************************)
EXTENDS Settings

CONSTANTS p1, p2, servers, chunk, default, other
=============================================================================
