--------------------------- MODULE MCCreditLedger ---------------------------
(* Small instances of CreditLedger for TLC. *)
EXTENDS CreditLedger, TLC

\* Row ids are random: here the later of two neighbouring rows sorts first.
MCRank == [e \in Ids |-> IF e % 2 = 0 THEN e - 1 ELSE e + 1]

Interchangeable == Permutations(Customers)
=============================================================================
