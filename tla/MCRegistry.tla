------------------------------ MODULE MCRegistry -------------------------------
(***************************************************************************)
(* Small instances of RegistryClients: three folders and two callers, so   *)
(* that two tasks race for a folder while another job is in the queue.     *)
(***************************************************************************)
EXTENDS RegistryClients
=============================================================================
