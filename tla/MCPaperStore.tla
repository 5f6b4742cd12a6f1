---------------------------- MODULE MCPaperStore ----------------------------
(***************************************************************************)
(* One work in two versions, and two promoters.                            *)
(***************************************************************************)
EXTENDS PaperStore, TLC
=============================================================================
