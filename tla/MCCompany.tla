----------------------------- MODULE MCCompany -----------------------------
EXTENDS Company, TLC

CONSTANTS m1, m2, o1, u1, r1, r2, cust, cust2, s1, s2, s3

(* A revocation of everything, and a grant that is no role's default. *)
MCGrantLists == {{}, {"jobs:write"}}

Interchangeable == Permutations(Requests) \cup Permutations(Founders) \cup Permutations({s1, s2, s3})
                     \cup Permutations({cust, cust2})

=============================================================================
