----------------------------- MODULE PublishSlot -----------------------------
(***************************************************************************)
(* What the partial unique index and the sweeps promise together: a site    *)
(* has one publish slot.  A job takes it when it is free, nobody takes it   *)
(* over from the job that has it, and it is always given back in the end,   *)
(* whatever dies on the way.                                               *)
(***************************************************************************)
CONSTANTS Jobs, NoJob

VARIABLE holder   \* the job that has the slot, or NoJob

Init == holder = NoJob

Take(j) == holder = NoJob /\ holder' = j

Release == holder # NoJob /\ holder' = NoJob

Next == Release \/ \E j \in Jobs : Take(j)

Safety == Init /\ [][Next]_holder

Spec == Safety /\ WF_holder(Release)
=============================================================================
