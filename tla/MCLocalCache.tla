---------------------------- MODULE MCLocalCache ----------------------------
(***************************************************************************)
(* Instances of LocalCache for TLC.  Sections are numbered; with a single  *)
(* section every manifest and every object is in it.                       *)
(***************************************************************************)
EXTENDS LocalCache

Numbered(n) == IF n \in Section THEN n ELSE 1

\* The units' manifests are in different sections, and so are the objects of
\* one compilation.
MCManSection ==
    [u \in Unit |-> Numbered(IF u = CHOOSE x \in Unit : TRUE THEN 1 ELSE 2)]
MCObjSection == [k \in Key |-> Numbered(k[2])]
=============================================================================
