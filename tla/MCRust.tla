------------------------------- MODULE MCRust -------------------------------
(* The Rust corner under the workloads. *)
EXTENDS RustRefinement, Workloads

ClientSymmetry == Permutations(Clients)
=============================================================================
