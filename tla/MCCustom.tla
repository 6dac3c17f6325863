------------------------------ MODULE MCCustom ------------------------------
(* Two folders and an append, files below and above CHUNK_BYTES.              *)
EXTENDS CustomApi, TLC
CONSTANTS f1, f2, g1, p1, p2
MCSize == <<1, 5>>
MCBound == (f1 :> p1) @@ (f2 :> p2) @@ (g1 :> p2)
=============================================================================
