---------------------------- MODULE ExtrasToOrder -----------------------------
(***************************************************************************)
(* The extras to order (ETOs) of jobs, and the sequence each job numbers   *)
(* them from.                                                              *)
(*                                                                         *)
(* One transaction looks the job up, takes the next number and writes the  *)
(* ETO's diary entry and note under it.  "The upsert is the allocation":   *)
(* it locks the job's row to the end of the transaction, so a step here is *)
(* the upsert and another is the commit.  A job that has no row yet has    *)
(* its row inserted, and the unique key makes a rival wait just the same.  *)
(* Deleting the job waits for the transaction too, and takes the sequence  *)
(* and the entries with it.                                                *)
(***************************************************************************)
EXTENDS Naturals, Sequences

CONSTANTS
    EtoJobs,        \* jobs
    Raisers,        \* requests in flight at once (a bound)
    MaxEtos         \* ETOs of a job (a bound)

ASSUME EtosAreBounded == MaxEtos \in Nat

VARIABLES
    etoJobs,        \* the jobs there are
    nextEto,        \* eto_job_sequences.next_number by job, NoSequence for no row
    etos,           \* the numbers of a job's ETO notes, in order of commit
    raising         \* the transaction of each request

etoVars == <<etoJobs, nextEto, etos, raising>>

-----------------------------------------------------------------------------

NoSequence == 0

NotRaising == [number |-> 0]
Raising == [job : EtoJobs, number : 1..MaxEtos]

\* A transaction that has numbered an ETO of the job and not ended.
Numbering(j) == \E r \in Raisers : raising[r] # NotRaising /\ raising[r].job = j

\* VALUES (job, 2) ON CONFLICT DO UPDATE next_number + 1 RETURNING next_number - 1.
AllocatedNumber(j) == IF nextEto[j] = NoSequence THEN 1 ELSE nextEto[j]

Allocates(r, j) ==
    /\ raising[r] = NotRaising
    /\ j \in etoJobs
    /\ AllocatedNumber(j) <= MaxEtos
    /\ raising' = [raising EXCEPT ![r] = [job |-> j, number |-> AllocatedNumber(j)]]
    /\ UNCHANGED <<etoJobs, nextEto, etos>>

EtosInit ==
    /\ etoJobs = EtoJobs
    /\ nextEto = [j \in EtoJobs |-> NoSequence]
    /\ etos = [j \in EtoJobs |-> << >>]
    /\ raising = [r \in Raisers |-> NotRaising]

\* Mutant: the number is read and the row is not locked.
EtoAllocateUnlocked(r, j) == Allocates(r, j)

\* The upsert waits for a rival of the job to end, then reads what it committed.
EtoAllocate(r, j) == ~Numbering(j) /\ Allocates(r, j)

\* The entry and the note are written and all of it commits.
EtoCommit(r) ==
    /\ raising[r] # NotRaising
    /\ LET j == raising[r].job
           n == raising[r].number
       IN /\ nextEto' = [nextEto EXCEPT ![j] = n + 1]
          /\ etos' = [etos EXCEPT ![j] = Append(etos[j], n)]
    /\ raising' = [raising EXCEPT ![r] = NotRaising]
    /\ UNCHANGED etoJobs

\* A statement fails or the request dies: "a rollback returns the number".
EtoRollback(r) ==
    /\ raising[r] # NotRaising
    /\ raising' = [raising EXCEPT ![r] = NotRaising]
    /\ UNCHANGED <<etoJobs, nextEto, etos>>

\* The job is deleted, and its sequence and its diary by the cascade.
EtoJobDelete(j) ==
    /\ j \in etoJobs
    /\ ~Numbering(j)
    /\ etoJobs' = etoJobs \ {j}
    /\ nextEto' = [nextEto EXCEPT ![j] = NoSequence]
    /\ etos' = [etos EXCEPT ![j] = << >>]
    /\ UNCHANGED raising

EtosNext ==
    \/ \E r \in Raisers, j \in EtoJobs : EtoAllocate(r, j)
    \/ \E r \in Raisers : EtoCommit(r) \/ EtoRollback(r)
    \/ \E j \in EtoJobs : EtoJobDelete(j)

EtosSpec == EtosInit /\ [][EtosNext]_etoVars

-----------------------------------------------------------------------------
(* Properties. *)

\* The shape of every variable.
EtosTypeOK ==
    /\ etoJobs \subseteq EtoJobs
    /\ nextEto \in [EtoJobs -> NoSequence..MaxEtos + 1]
    /\ etos \in [EtoJobs -> Seq(1..MaxEtos)]
    /\ raising \in [Raisers -> {NotRaising} \cup Raising]

\* R7: the ETO numbers of each job are given out without gaps or repeats, in
\* order of commit, whatever rolls back and whoever raises at once (raise_eto).
EtoNumbersGapFree ==
    \A j \in EtoJobs :
      /\ \A i \in DOMAIN etos[j] : etos[j][i] = i
      /\ nextEto[j] = IF etos[j] = << >> THEN NoSequence ELSE Len(etos[j]) + 1

=============================================================================
