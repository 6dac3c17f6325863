------------------------------- MODULE MCHandoff -------------------------------
(***************************************************************************)
(* Small instances of HandoffPending: a folder, and two loops,             *)
(* so that monitoring is started again while the old loop is in a pass.    *)
(***************************************************************************)
EXTENDS HandoffPending
CONSTANTS f1, f2, l1, l2
================================================================================
