------------------------------ MODULE MCAdmin ------------------------------
(***************************************************************************)
(* The admin path of the Go and of the Rust corner.  The two share         *)
(* nothing, so the run is their disjoint sum: `corner` says which of them  *)
(* a behaviour is of, and the variables only the other has stay put.  The  *)
(* Rust operator works while no client is served and loads what the corner *)
(* itself wrote; the Go operator works under traffic and loads anything.   *)
(* GoAdmin's properties of quiet loads say nothing where the Rust corner   *)
(* runs: there no Go load was quiet.                                       *)
(***************************************************************************)
EXTENDS GoAdmin, AdminWorkloads, TLC

VARIABLES
    corner,              \* "go" or "rust"
    user_ids, tweet_ids  \* of the Rust corner only

goOnly == <<idsUsr, idsTw, wmu, quiet>>
rustOnly == <<user_ids, tweet_ids>>
cornerVars == <<corner, allVars, rustOnly>>

Rust == INSTANCE RustAdmin WITH MaxUserID <- MaxUserID + 1

CornerInit ==
    \/ corner = "go" /\ AdminInit /\ user_ids = 0 /\ tweet_ids = 0
    \/ /\ corner = "rust" /\ Rust!AdminInit
       /\ idsUsr = 1 /\ idsTw = 1 /\ wmu = Nobody /\ quiet = FALSE

InGo == corner = "go" /\ AdminNext /\ UNCHANGED <<corner, rustOnly>>
InRust == corner = "rust" /\ Rust!AdminNext /\ UNCHANGED <<corner, goOnly>>

CornerNext == InGo \/ InRust

CornerSpec == CornerInit /\ [][CornerNext]_cornerVars

ClientSymmetry == Permutations(Clients)

-----------------------------------------------------------------------------
(* What RustAdmin promises of its loads (RustAdmin.tla, service/lib.rs).    *)
RustLoadLeavesServable == corner = "rust" => Rust!LoadLeavesServable
=============================================================================
