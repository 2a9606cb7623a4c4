------------------------- MODULE MCBalanceRepository -------------------------
(***************************************************************************)
(* An instance of BalanceRepository: a credit and a debit.                 *)
(***************************************************************************)
EXTENDS BalanceRepository

MCDeltas == {2, -1}

=============================================================================
