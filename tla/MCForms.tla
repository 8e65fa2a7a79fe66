-------------------------------- MODULE MCForms --------------------------------
(* Small instances of InspectionForms. *)
EXTENDS InspectionForms, TLC

\* A blank row to be done, and a row with text that is done: without photos the
\* first counts for nothing, with one it calls for action.
MCRows == {[text |-> FALSE, actioned |-> FALSE], [text |-> TRUE, actioned |-> TRUE]}

\* Requests differ only in name; so do client keys, and so do stored names.
Interchangeable ==
    Permutations(Requests) \cup Permutations(Items) \cup Permutations(Names)

=============================================================================
