--------------------------- MODULE RegistrationMC ---------------------------
(***************************************************************************)
(* A small instance of Registration for TLC: requests are interchangeable. *)
(***************************************************************************)
EXTENDS Registration, TLC

Symmetry == Permutations(Requests)
=============================================================================
