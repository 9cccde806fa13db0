---------------------------- MODULE MCReplayWrite ----------------------------
(* Orders for TLC: the kind that is reissued, and all kinds with fewer      *)
(* documents.                                                               *)
EXTENDS ReplayWrite, TLC

CONSTANTS i1, i2

MCInvocations == {i1, i2}
MCSymmetry == Permutations(MCInvocations)

MCOrders == {[kinds |-> {"invoice"}, docs |-> 3],
             [kinds |-> {"proforma", "invoice", "prepayment", "final"}, docs |-> 2]}
=============================================================================
