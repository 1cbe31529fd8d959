---------------------------- MODULE MCPersistPms ----------------------------
(***************************************************************************)
(* A teacher draws two pages, or three and a bit, and a student one stroke *)
(* or none; a run fails, a file is deleted.                                *)
(***************************************************************************)
EXTENDS PersistPms, TLC

CONSTANTS ann, bob

SmallStrokes == (ann :> 4) @@ (bob :> 1)
PagedStrokes == (ann :> 7) @@ (bob :> 0)
=============================================================================
