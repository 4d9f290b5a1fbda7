------------------------------ MODULE MCSweeps ------------------------------
(***************************************************************************)
(* The two sweeps that say how far the checks of the repository can be      *)
(* trusted: calibrate over the mutants, and gobra canary over the clauses.  *)
(* Both are long, are edited under, die and are resumed.  They share        *)
(* nothing, so the run is their disjoint sum: `sweep` says which of them a  *)
(* behaviour is of, and the variables only the other has stay put.          *)
(***************************************************************************)
EXTENDS Calibration, GobraSweep

VARIABLE
    sweep  \* "calibrate" or "canary"

sweepVars == <<sweep, vars, canaryVars>>

-----------------------------------------------------------------------------
(* What is calibrated: two mutants, two rungs.  `gap` is seen by every      *)
(* input and missed by the second rung; `shy` is seen by its witness alone, *)
(* changes nothing once the rest of the corner has moved on, and loses its  *)
(* anchor to an edit.                                                       *)

MCCatalogue == <<"gap", "shy">>
MCRungs == <<"R0", "R1">>
MCVersions == {"old", "new"}
MCAnchoredIn(m) == IF m = "shy" THEN {"old"} ELSE Versions
MCInputsOf(r) == IF r = "R0" THEN "corpus" ELSE "tracegen"
MCKills(r, t) == t.mutant = "gap" /\ (r = "R0" \/ t.code = "new")

\* What the corner answers depends on its sources and, where it shows, on the
\* mutation.
MCAnswers(t, i) ==
    <<t.code, CASE t.mutant = "gap" -> TRUE
                [] t.mutant = "shy" -> i = "witness" /\ t.rest = "old"
                [] OTHER -> FALSE>>

-----------------------------------------------------------------------------
(* What canaries are run on.  Tick carries the self-test's clause; Read and *)
(* Page carry one text, an implication; Page calls Read and needs what it   *)
(* promises.                                                                *)

MCMembers == {"Tick", "Read", "Page"}
MCStates == {"found", "empty"}
MCElems == {"x"}

Plain(m, text, cons) ==
    [member |-> m, text |-> text, mark |-> "none", typed |-> TRUE, guarded |-> FALSE,
     ante |-> States \X Elems, cons |-> cons]
Served == {"found"} \X Elems
TickClause == Plain("Tick", "now grows", Served)
Implication(m) ==
    [Plain(m, "found ==> served", Served) EXCEPT !.guarded = TRUE, !.ante = Served]

MCClauses ==
    {TickClause, Implication("Read"), Implication("Page"),
     [Plain("Page", "acc(log)", States \X Elems) EXCEPT !.mark = "acc"]}
\* The sources: Tick never ends; Read finds nothing; and Tick ends
\* where it may not.
Ends(tick, read, page) == [m \in Members |->
    CASE m = "Tick" -> tick [] m = "Read" -> read [] OTHER -> page]
MCBodies ==
    {Ends({}, States, States), Ends({"found"}, {"empty"}, States),
     Ends(States, States, States)}
MCReliesOn(c) == IF c.member = "Read" THEN {"Page"} ELSE {}

-----------------------------------------------------------------------------
CalIdle ==
    /\ source = Blank /\ pc = "idle" /\ journal = << >>
    /\ at = 0 /\ loaded = {} /\ base = Blank /\ disk = Blank /\ tree = Blank
    /\ cells = << >> /\ pending = Torn /\ report = {}
    /\ edits = 0 /\ faults = 0 /\ crashes = 0 /\ runs = 0
    /\ seen = {} /\ synced = {} /\ misled = FALSE
CanaryIdle ==
    /\ bodies = << >> /\ stage = "idle"
    /\ known = {} /\ running = {} /\ writing = {} /\ fresh = {}
    /\ file = [lines |-> {}, whole |-> {}, part |-> FALSE] /\ out = << >>
    /\ bodyEdits = 0 /\ badRuns = 0 /\ deaths = 0 /\ sweeps = 0 /\ ran = 0

SweepsInit ==
    \/ sweep = "calibrate" /\ Init /\ CanaryIdle
    \/ sweep = "canary" /\ CanaryInit /\ CalIdle

Calibrating == sweep = "calibrate" /\ Sweep /\ UNCHANGED <<sweep, canaryVars>>
Around == /\ sweep = "calibrate" /\ UNCHANGED <<sweep, canaryVars>>
          /\ \/ Edit \/ Truncate \/ Crash
             \/ \E resume \in BOOLEAN : Start(resume)
Asking == sweep = "canary" /\ CanarySweep /\ UNCHANGED <<sweep, vars>>
Beside == /\ sweep = "canary" /\ UNCHANGED <<sweep, vars>>
          /\ \/ EditBody \/ Die
             \/ \E skipSelf \in BOOLEAN : StartCanaries(skipSelf)

SweepsNext == Calibrating \/ Around \/ Asking \/ Beside

\* A sweep that runs goes on; nobody has to edit, start or kill one.
SweepsSpec == SweepsInit /\ [][SweepsNext]_sweepVars /\ WF_sweepVars(Calibrating \/ Asking)

-----------------------------------------------------------------------------
(* The properties of each sweep are stated and explained in Calibration.tla *)
(* and GobraSweep.tla; what they ask of the other sweep's states is nothing. *)

(* Every sweep ends, in its table, in a refusal to start or in its death: no *)
(* resumed cell, failed copy, missing probe or worker's slot holds it up    *)
(* (calibrate's calibrateOne, gobra's cmdCanary).                           *)
SweepsEnd ==
    (pc = "plan" \/ stage \in {"selftest", "infeasible", "sweep"})
        ~> (pc \in {"done", "stopped"} \/ stage \in {"done", "failed", "stopped"})
=============================================================================
