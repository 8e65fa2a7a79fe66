-------------------------------- MODULE Board --------------------------------
(***************************************************************************)
(* Drawing the labour board: PgSchedulerRepository::board, four queries in *)
(* one transaction.  The transaction is READ COMMITTED, so each query sees *)
(* what the requests of Scheduler have committed by then.                  *)
(***************************************************************************)
EXTENDS Scheduler

VARIABLES
    board,          \* the board being drawn
    midRender       \* allocations created since its first query

boardVars == <<schedulerVars, board, midRender>>

BoardData == [pc : {"idle", "absences", "allocations", "drawn"}, workers : SUBSET Workers,
              absences : SUBSET Absences, allocations : [Allocations -> Allocation \cup {NoRow}]]

NoAllocations == [x \in Allocations |-> NoRow]

BoardInit ==
    /\ SchedulerInit
    /\ board = [pc |-> "idle", workers |-> {}, absences |-> {}, allocations |-> NoAllocations]
    /\ midRender = {}

(* WHERE active *)
DrawWorkers ==
    /\ board.pc = "idle"
    /\ board' = [board EXCEPT !.pc = "absences", !.workers = {w \in Workers : worker[w] = "active"}]
    /\ UNCHANGED <<schedulerVars, midRender>>

DrawAbsences ==
    /\ board.pc = "absences"
    /\ board' = [board EXCEPT !.pc = "allocations", !.absences = {a \in Absences : Away(a)}]
    /\ UNCHANGED <<schedulerVars, midRender>>

DrawAllocations ==
    /\ board.pc = "allocations"
    /\ board' = [board EXCEPT !.pc = "drawn", !.allocations = allocation]
    /\ UNCHANGED <<schedulerVars, midRender>>

(* Whatever the other requests do meanwhile. *)
Meanwhile ==
    /\ SchedulerNext
    /\ midRender' = IF board.pc \in {"absences", "allocations"}
                    THEN midRender \cup {x \in Allocations : /\ allocation[x] = NoRow
                                                             /\ allocation'[x] # NoRow}
                    ELSE midRender
    /\ UNCHANGED board

BoardNext == DrawWorkers \/ DrawAbsences \/ DrawAllocations \/ Meanwhile

BoardSpec == BoardInit /\ [][BoardNext]_boardVars

-----------------------------------------------------------------------------
(* The comment in board: "one transaction, four queries, so the board is a   *)
(* consistent snapshot: an allocation created mid-render cannot appear       *)
(* without its worker".                                                      *)
NoAllocationWithoutItsWorker ==
    board.pc = "drawn" =>
        \A x \in midRender : board.allocations[x] # NoRow =>
            board.allocations[x].worker \in board.workers

=============================================================================
