------------------------------- MODULE MCPipeline ------------------------------
(***************************************************************************)
(* Small instances of UploadPipeline: one or two folders and one monitor   *)
(* loop.                                                                   *)
(***************************************************************************)
EXTENDS UploadPipeline, TLC

Symmetry == Permutations(Folders) \cup Permutations(Monitors)
=============================================================================
