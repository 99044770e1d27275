---------------------------- MODULE MCLinkProject ----------------------------
(***************************************************************************)
(* Instances of LinkProject for TLC.                                       *)
(***************************************************************************)
EXTENDS LinkProject, TLC

\* The sources are alike, and so are their contents
Symmetry == Permutations(Unit) \cup Permutations(Version)
=============================================================================
