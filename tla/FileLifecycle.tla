---------------------------- MODULE FileLifecycle ----------------------------
(***************************************************************************)
(* What the media subsystem promises about one stored file, whatever the    *)
(* interleaving of requests, deletes, cascading purges and sweepers: a file *)
(* the application has recorded is kept until a committed delete condemns   *)
(* it, and a condemned file is waiting in the deletion queue until its      *)
(* object is gone.  No step takes a kept file straight to nothing: that     *)
(* would be an object no row and no queue entry names.                      *)
(*                                                                         *)
(* The promise covers a file for as long as it is used once.  A client that *)
(* writes or confirms the same object key again, and a row recorded while   *)
(* its own container is being purged, leave the file outside it: such a     *)
(* file is Stray, and says so from then on.                                 *)
(***************************************************************************)
CONSTANT Files

VARIABLE phase

Phases == {"new", "kept", "condemned", "gone", "stray"}

Init == phase = [f \in Files |-> "new"]

Record(f) ==
    /\ phase[f] = "new"
    /\ phase' = [phase EXCEPT ![f] = "kept"]

\* A delete condemns any number of files at once, all or none.  One that read
\* its rows before another delete took them may queue a swept object again.
Condemn(F) ==
    /\ \A f \in F : phase[f] \in {"kept", "gone", "condemned"}
    /\ phase' = [f \in Files |-> IF f \in F THEN "condemned" ELSE phase[f]]

Sweep(f) ==
    /\ phase[f] = "condemned"
    /\ phase' = [phase EXCEPT ![f] = "gone"]

Stray(f) == phase' = [phase EXCEPT ![f] = "stray"]

Next ==
    \/ \E f \in Files : Record(f) \/ Sweep(f) \/ Stray(f)
    \/ \E F \in SUBSET Files : Condemn(F)

Spec == Init /\ [][Next]_phase

=============================================================================
