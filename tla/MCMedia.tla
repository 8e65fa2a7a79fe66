------------------------------- MODULE MCMedia -------------------------------
(***************************************************************************)
(* One job; its diary entry e1 has the note n1, its entry e2 the note n2.   *)
(* Keys may be on the job (kJob) or on the entry e1 (kEntry).               *)
(***************************************************************************)
EXTENDS MediaLifecycle, TLC

CONSTANTS j1, e1, e2, n1, n2, kJob, kEntry

MCJobOf == [e \in Entries |-> j1]
MCEntryOf == [n \in Notes |-> IF n = n2 THEN e2 ELSE e1]
MCHome == [k \in Keys |-> IF k = kJob THEN j1 ELSE e1]

\* Requests differ only in name, and so do workers.
Interchangeable == Permutations(Requests) \cup Permutations(Workers)

=============================================================================
