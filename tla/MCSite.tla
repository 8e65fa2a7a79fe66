------------------------------- MODULE MCSite --------------------------------
EXTENDS Site, MCReports

CONSTANTS e1, e2, p3, q1, q2

(* Both entries are of one job. *)
EntryJobs == [e \in {e1, e2} |-> j1]

(* Two users of one company, and one of another. *)
UserCompanies == [u \in {p1, p2, p3} |-> IF u = p3 THEN 2 ELSE 1]

(* An order below all others, and a create that leaves it to the service. *)
MCOrders == {-2}
MCNewOrders == {NoOrder}

Interchangeable == Permutations({q1, q2})

=============================================================================
