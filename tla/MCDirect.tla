------------------------------ MODULE MCDirect ------------------------------
(* Four files; the first three make a group of two large ones and a small     *)
(* one, the fourth a slice of its own.                                        *)
EXTENDS DirectUpload
MCSize == <<3, 1, 3, 5>>
=============================================================================
