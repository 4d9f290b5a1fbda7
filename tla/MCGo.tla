-------------------------------- MODULE MCGo --------------------------------
(* The Go corner under the workloads. *)
EXTENDS GoRefinement, Workloads
=============================================================================
