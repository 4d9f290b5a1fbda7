-------------------------------- MODULE Rung --------------------------------
(***************************************************************************)
(* What the rungs that generate requests keep (tools/cmd/diffrun and        *)
(* tools/cmd/proptest): the corner checked, a server process of it for each *)
(* trace or round, and how many handles the generator has handed out.       *)
(***************************************************************************)
EXTENDS Tracegen

VARIABLES
    job,      \* what is run: the corner, and the flags of the rung
    pc,       \* how far the rung is
    srv,      \* the server of this trace or round
    exit,     \* exit code
    known     \* handles the generator has handed out in this trace or round

\* A server process of its own: built, started on a free port and healthy.
start == Server(job.corner)
=============================================================================
