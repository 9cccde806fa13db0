---------------------------- MODULE MCOrderWrite ----------------------------
(* Instances of OrderWrite for TLC. *)
EXTENDS OrderWrite, TLC

CONSTANTS i1, i2

OneInvocation == {i1}
TwoInvocations == {i1, i2}
InvoiceOnly == {"invoice"}
ProformaOnly == {"proforma"}

Symmetric == Permutations({i1, i2})
=============================================================================
