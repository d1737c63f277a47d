------------------------------ MODULE MCRefundLink ------------------------------
(* Two refunds r1 and r2 of a purchase p1, and a purchase j1 that only Firefly has. *)
EXTENDS RefundLink, TLC

CONSTANTS r1, r2, p1, j1

MCPicks == {<<r1, [by |-> "fold", to |-> p1]>>,
            <<r2, [by |-> "fold", to |-> p1]>>,
            <<r2, [by |-> "journal", to |-> p1]>>}

MCHandMade == {[inward |-> p1, outward |-> r1], [inward |-> r2, outward |-> j1]}

Tasks == Permutations(Task)
=============================================================================
