----------------------------- MODULE SessionsMC -----------------------------
(***************************************************************************)
(* A small instance of Sessions for TLC: tokens, devices and requests are  *)
(* interchangeable.                                                        *)
(***************************************************************************)
EXTENDS Sessions, TLC

Symmetry == Permutations(Tokens) \cup Permutations(Devices) \cup Permutations(Requests)
=============================================================================
