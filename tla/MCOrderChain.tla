---------------------------- MODULE MCOrderChain ----------------------------
(* Orders for TLC: one invoiced by prepayment and final invoice, one with   *)
(* proformas and one with correctives.                                      *)
EXTENDS OrderChain

MCOrders == {[kinds |-> {"invoice", "prepayment", "final"}, docs |-> 4],
             [kinds |-> {"proforma", "invoice"}, docs |-> 3],
             [kinds |-> {"invoice", "corrective"}, docs |-> 3]}
=============================================================================
