--------------------------- MODULE MCProcessPool ----------------------------
(* Instances of ProcessPool for TLC: two tenants, the first with two units *)
(* of work; u1 is a round of the council, which makes two calls at once.   *)
EXTENDS ProcessPool

CONSTANTS t1, t2, u1, u2, u3, c1, c2, c3, c4

MCTenantOf == [u \in {u1, u2, u3} |-> IF u = u3 THEN t2 ELSE t1]

CouncilUnitOf ==
    [c \in {c1, c2, c3, c4} |->
        CASE c \in {c1, c4} -> u1 [] c = c2 -> u2 [] c = c3 -> u3]
=============================================================================
