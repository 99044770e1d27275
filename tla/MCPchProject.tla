---------------------------- MODULE MCPchProject ----------------------------
(***************************************************************************)
(* An instance of PchProject for TLC: one source creates a precompiled     *)
(* header that two others use, one uses the precompiled header of another  *)
(* project, and one uses none.                                             *)
(***************************************************************************)
EXTENDS PchProject

CONSTANTS Creator, Plain, User, SharedCreator

MCPch == [u \in Unit |-> IF u \in {Creator, Plain, SharedCreator} THEN None
                         ELSE IF u = User THEN SharedCreator ELSE Creator]
=============================================================================
