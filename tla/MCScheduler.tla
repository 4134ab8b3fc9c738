----------------------------- MODULE MCScheduler -----------------------------
(***************************************************************************)
(* Instances of Scheduler for TLC.  Slots are small naturals; a recurrence *)
(* reaches beyond the last clock reading, so that an enabled schedule does *)
(* not run out of slots.                                                   *)
(***************************************************************************)
EXTENDS Scheduler

EveryTick == {{1, 2, 3, 4, 5}}
TicksTwoAndThree == {{2, 3}}
TicksTwoAndFour == {{2, 4}}
OnceOrTwice == {{2}, {2, 3}}
=============================================================================
