-------------------------------- MODULE MCAuth --------------------------------
(* Small instances of AuthSessions. *)
EXTENDS AuthSessions, TLC

\* Requests differ only in name.
Interchangeable == Permutations(Requests)

=============================================================================
