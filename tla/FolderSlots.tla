----------------------------- MODULE FolderSlots ------------------------------
(***************************************************************************)
(* What the upload queue promises for each folder of the share, whatever   *)
(* the monitor loops, the operator's commands and the worker do: a folder  *)
(* is free, reserved by one caller, waiting in the queue or being          *)
(* uploaded, it enters the queue only when nobody else holds it, and one   *)
(* folder is uploaded at a time.                                           *)
(***************************************************************************)
CONSTANT Folders

VARIABLE slot   \* of each folder: "free", "reserved", "waiting" or "active"

Init == slot = [f \in Folders |-> "free"]

Move(f, to) == slot' = [slot EXCEPT ![f] = to]

Reserve(f) == slot[f] = "free" /\ Move(f, "reserved")

GiveUp(f) == slot[f] = "reserved" /\ Move(f, "free")

Submit(f) == slot[f] \in {"free", "reserved"} /\ Move(f, "waiting")

Start(f) ==
    /\ slot[f] = "waiting"
    /\ \A g \in Folders : slot[g] # "active"
    /\ Move(f, "active")

\* A waiting job is also finished when its cloud account cannot be resolved.
Finish(f) == slot[f] \in {"waiting", "active"} /\ Move(f, "free")

\* The program starts anew.
Restart == slot' = [f \in Folders |-> "free"]

Next ==
    \/ Restart
    \/ \E f \in Folders : Reserve(f) \/ GiveUp(f) \/ Submit(f) \/ Start(f) \/ Finish(f)

Spec == Init /\ [][Next]_slot
=============================================================================
