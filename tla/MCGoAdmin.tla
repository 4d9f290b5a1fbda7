------------------------------ MODULE MCGoAdmin ------------------------------
(* The Go corner and one operator, driven with AdminWorkloads; clients are  *)
(* interchangeable.                                                         *)
EXTENDS GoAdmin, AdminWorkloads, TLC

ClientSymmetry == Permutations(Clients)
=============================================================================
