--------------------------- MODULE MCBuildWorkflow ---------------------------
(***************************************************************************)
(* Instances of BuildWorkflow for TLC: a source that creates a precompiled *)
(* header and one that does not, in two CL tasks.  The second uses the     *)
(* header H only if the header A says so.                                  *)
(***************************************************************************)
EXTENDS BuildWorkflow

CONSTANTS stdafx, winapp, A, H, v1, v2

MCUses ==
    [s \in Source |-> [c \in Contents |->
        IF s = stdafx THEN {H} ELSE IF c[A] = v2 THEN {A, H} ELSE {A}]]

MCBatches == IF stdafx \in Source THEN <<{stdafx}, {winapp}>> ELSE <<{winapp}>>
=============================================================================
