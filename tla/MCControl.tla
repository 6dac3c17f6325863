------------------------------- MODULE MCControl -------------------------------
(***************************************************************************)
(* Small instances of UploadControl: two parallel transfers, so that one   *)
(* announces the pause while the other is elsewhere in wait_if_paused.     *)
(***************************************************************************)
EXTENDS UploadControl
=============================================================================
