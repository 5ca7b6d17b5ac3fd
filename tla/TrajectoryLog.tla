---------------------------- MODULE TrajectoryLog ----------------------------
(***************************************************************************)
(* What a trajectory writer promises (TrajectoryWriter in                  *)
(* python_modules/jupedsim/jupedsim/serialization.py), whatever the file   *)
(* format: the rows of the recorded frames reach the file in the order     *)
(* they were recorded in, none twice and none out of place, however they   *)
(* are buffered on the way; close() leaves all of them in the file.        *)
(***************************************************************************)
EXTENDS Sequences, SequencesExt

VARIABLES
  recording,  \* may rows be recorded?
  recorded,   \* the rows recorded since begin_writing()
  durable     \* the rows a reader of the file finds
vars == <<recording, recorded, durable>>

Init == /\ recording \in BOOLEAN
        /\ recorded = <<>>
        /\ durable = <<>>

\* begin_writing() starts an empty file.
Begin == /\ recording' = TRUE
         /\ recorded' = <<>>
         /\ durable' = <<>>

Record == /\ recording
          /\ IsStrictPrefix(recorded, recorded')
          /\ UNCHANGED <<recording, durable>>

\* A full buffer moves on to the file.
Persist == /\ recording
           /\ IsStrictPrefix(durable, durable')
           /\ IsPrefix(durable', recorded)
           /\ UNCHANGED <<recording, recorded>>

Close == /\ recording
         /\ recording' = FALSE
         /\ durable' = recorded
         /\ UNCHANGED recorded

Next == Begin \/ Record \/ Persist \/ Close
Spec == Init /\ [][Next]_vars
=============================================================================
