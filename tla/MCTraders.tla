------------------------------ MODULE MCTraders ------------------------------
(***************************************************************************)
(* Traders with three spellings of two addresses: Ann and ann are one.     *)
(***************************************************************************)
EXTENDS Traders, TLC

MCAddresses == {"Ann", "ann", "bob"}
MCToLower(a) == IF a = "Ann" THEN "ann" ELSE a

\* Requests and ids are interchangeable.
MCSymmetry == Permutations(Requests) \cup Permutations(Ids)

=============================================================================
