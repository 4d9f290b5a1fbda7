------------------------------ MODULE GobraSweep ------------------------------
(***************************************************************************)
(* The negation-canary sweep (tools/cmd/gobra): every functional `ensures` *)
(* of the Go corner is replaced by the negation of what it says, Gobra is  *)
(* asked to prove that, and a checkpoint lets a sweep that died go on.     *)
(* reach, audit, verify and r5 read the same sources and results.          *)
(*                                                                         *)
(* A member's body is the set of states its exit can be reached in; an     *)
(* assertion is the set of exit states it holds in.  Edits keep the lines  *)
(* of the contracts where they are.                                        *)
(***************************************************************************)
EXTENDS Integers, FiniteSets

CONSTANTS
    Members,      \* the functions and methods that carry contracts
    States,       \* exit states
    Elems,        \* what a bound variable ranges over
    Clauses,      \* the clauses, as records: see ClauseType
    ReliesOn(_),  \* a clause -> the members whose proof uses it
    Control,      \* the self-test's clause
    Bodies,       \* what the sources may be: per member, the states its exit is reached in
    Jobs,         \* parallel canaries
    MaxTrouble,   \* bound: bodyEdits, badRuns of the solver and deaths, together
    MaxSweeps     \* bound: sweeps started

\* `ante` and `cons` are the (state, element) pairs the antecedent and the
\* consequent hold of; without an antecedent, `ante` is everything.
ClauseType ==
    [member : Members, text : STRING, mark : {"trusted", "abstract", "acc", "none"},
     typed : BOOLEAN, \* Gobra can make sense of its canary
     guarded : BOOLEAN, ante : SUBSET (States \X Elems), cons : SUBSET (States \X Elems)]

VARIABLES
    bodies,   \* the bodies of the Go corner as they are
    stage,    \* the canary command: stopped, selftest, infeasible, sweep, failed or done
    known,    \* `done`: what was read from the checkpoint
    running,  \* workers with a slot, each with the workspace it copied
    writing,  \* results of workers that wait to write them to the checkpoint
    fresh,    \* the results of this process
    file,     \* the checkpoint: its whole lines, and what stands after the last newline
    out,      \* the results file
    bodyEdits, badRuns, deaths, sweeps, \* counters of the bounds
    ran       \* history: canaries run

canaryVars == <<bodies, stage, known, running, writing, fresh, file, out,
                bodyEdits, badRuns, deaths, sweeps, ran>>

-----------------------------------------------------------------------------
(* Clauses and their canaries *)

\* What Gobra assumes is not asked, and permissions cannot be negated.
Kind(c) ==
    CASE c.mark = "trusted"  -> "assumed(trusted)"
      [] c.mark = "abstract" -> "assumed(abstract)"
      [] c.mark = "acc"      -> "framing"
      [] OTHER               -> "functional"
Todo == {c \in Clauses : Kind(c) = "functional"}
Checked == {c \in Clauses : Kind(c) \in {"functional", "framing"}}

\* Fault: two members that carry one text share a verdict.
KeyWithoutMember(c) == c.text

Key(c) == <<c.member, c.text>>

\* A text is one clause of its member; without a guard a clause is about every
\* state; no proof uses the contract it proves (no member calls itself).
ASSUME GobraAssumption ==
    /\ IsFiniteSet(Members) /\ IsFiniteSet(Clauses) /\ Elems # {} /\ Jobs \in Nat
    /\ Bodies \subseteq [Members -> SUBSET States]
    /\ \A c, d \in Clauses : c.member = d.member /\ c.text = d.text => c = d
    /\ \A c \in Clauses : /\ c.member \in Members /\ c.member \notin ReliesOn(c)
                          /\ ReliesOn(c) \subseteq Members
                          /\ ~c.guarded => c.ante = States \X Elems

Meaning(c) == {s \in States : \A e \in Elems : <<s, e>> \in c.ante => <<s, e>> \in c.cons}

\* Fault: an implication is negated as a whole.
NegateWhole(c) == States \ Meaning(c)

\* Of an implication, under a quantifier or not, only the antecedent.
Canary(c) ==
    IF c.guarded THEN {s \in States : \A e \in Elems : <<s, e>> \notin c.ante}
    ELSE States \ Meaning(c)

\* The contracts of a workspace: an assertion for every checked clause.
AsShipped == [c \in Checked |-> Meaning(c)]
Substitute(c) == [AsShipped EXCEPT ![c] = Canary(c)]

-----------------------------------------------------------------------------
(* Gobra, from outside: the members it reports an error in.  A caller is    *)
(* verified against the contract as it stands in the workspace.             *)

Errors(src, contract) ==
    {c.member : c \in {d \in Checked : ~(src[d.member] \subseteq contract[d])}}
    \cup UNION {ReliesOn(c) : c \in {d \in Checked : contract[d] # Meaning(d)}}

\* A canary Gobra can make no sense of is one error, where it stands.
CanaryErrors(c, src) == IF c.typed THEN Errors(src, Substitute(c)) ELSE {c.member}

\* What the tool reads out of the output: of a run that went well, of one that
\* was terminated (it counts no errors either), of one cut short after the
\* package's own line, and of one that never came to a verdict.
Ended(errors) == [total |-> Cardinality(errors), errors |-> errors, late |-> FALSE, package |-> TRUE]
Terminated == [total |-> 0, errors |-> {}, late |-> TRUE, package |-> TRUE]
CutShort == [total |-> -1, errors |-> {}, late |-> FALSE, package |-> TRUE]
NoVerdict == [total |-> -1, errors |-> {}, late |-> FALSE, package |-> FALSE]
Outcomes(errors) == {Ended(errors), Terminated, CutShort, NoVerdict}

\* Fault: the error count is read before the termination line.
VerdictByCount(c, res) ==
    IF res.total = 0 THEN "VACUOUS"
    ELSE IF res.late THEN "TIMEOUT"
    ELSE IF res.total < 0 /\ ~res.package THEN "ILL-FORMED"
    ELSE IF ~c.typed /\ res.errors # {} THEN "ILL-FORMED"
    ELSE "REFUTABLE"

\* A type error is seen in the errors that were read: with none, it is no error.
CanaryVerdict(c, res) ==
    IF res.late THEN "TIMEOUT"
    ELSE IF res.total < 0 /\ ~res.package THEN "ILL-FORMED"
    ELSE IF res.total = 0 THEN "VACUOUS"
    ELSE IF ~c.typed /\ res.errors # {} THEN "ILL-FORMED"
    ELSE "REFUTABLE"

\* One canary's result; `asked` and `of` are history: the clause whose lines
\* were rewritten, and the bodies the workspace was copied from.
Result(c, src, res) ==
    [key |-> Key(c), verdict |-> CanaryVerdict(c, res), errors |-> res.errors,
     asked |-> c, of |-> src]

-----------------------------------------------------------------------------
(* The checkpoint *)

Checkpointed(f) == f.lines \cup f.whole

\* A record continues what stands after the last newline: two on a line, or a
\* part of one, are malformed, and every later read skips them.
LineAppended(r) ==
    [lines |-> IF file.whole = {} /\ ~file.part THEN file.lines \cup {r} ELSE file.lines,
     whole |-> {}, part |-> FALSE]

\* A death while the line is written: a part of it is there, or all but the newline.
HalfAppended(r) ==
    {[lines |-> file.lines, whole |-> {}, part |-> TRUE]}
    \cup IF file.part \/ file.whole # {} THEN {}
         ELSE {[lines |-> file.lines, whole |-> {r}, part |-> FALSE]}

-----------------------------------------------------------------------------
CanaryInit ==
    /\ bodies \in Bodies
    /\ stage = "stopped" /\ known = {} /\ running = {} /\ writing = {} /\ fresh = {}
    /\ file = [lines |-> {}, whole |-> {}, part |-> FALSE]
    /\ out = << >>
    /\ bodyEdits = 0 /\ badRuns = 0 /\ deaths = 0 /\ sweeps = 0 /\ ran = 0

\* Another agent rewrites a body, at any moment.
EditBody ==
    /\ bodyEdits + badRuns + deaths < MaxTrouble
    /\ bodies' \in Bodies \ {bodies}
    /\ bodyEdits' = bodyEdits + 1
    /\ UNCHANGED <<stage, known, running, writing, fresh, file, out, badRuns, deaths,
                   sweeps, ran>>

\* gobra canary -out, again after a sweep that died, failed or finished: the
\* checkpoint beside the output is read without -resume too.
StartCanaries(skipSelf) ==
    /\ stage \in {"stopped", "failed", "done"}
    /\ sweeps < MaxSweeps
    /\ sweeps' = sweeps + 1
    /\ stage' = IF skipSelf THEN "sweep" ELSE "selftest"
    /\ known' = Checkpointed(file) /\ fresh' = {}
    /\ UNCHANGED <<bodies, running, writing, file, out, bodyEdits, badRuns, deaths, ran>>

Faulty(res, errors) ==
    /\ badRuns' = badRuns + (IF res = Ended(errors) THEN 0 ELSE 1)
    /\ bodyEdits + badRuns' + deaths <= MaxTrouble

\* The self-test's first workspace: the control clause as shipped.  Of another
\* answer than REFUTABLE it fails, though it still runs the second workspace.
SelfTest ==
    /\ stage = "selftest"
    /\ LET errors == CanaryErrors(Control, bodies)
       IN \E live \in Outcomes(errors) :
            /\ Faulty(live, errors)
            /\ stage' = IF CanaryVerdict(Control, live) = "REFUTABLE"
                        THEN "infeasible" ELSE "failed"
    /\ UNCHANGED <<bodies, known, running, writing, fresh, file, out, bodyEdits, deaths,
                   sweeps, ran>>

\* The second: the same clause behind `assume false`, read by its own rule.
Infeasible ==
    /\ stage = "infeasible"
    /\ LET errors == CanaryErrors(Control, [bodies EXCEPT ![Control.member] = {}])
       IN \E dead \in Outcomes(errors) :
            /\ Faulty(dead, errors)
            /\ stage' = IF ~dead.late /\ dead.total = 0 THEN "sweep" ELSE "failed"
    /\ UNCHANGED <<bodies, known, running, writing, fresh, file, out, bodyEdits, deaths,
                   sweeps, ran>>

Keys(results) == {r.key : r \in results}
Busy == {w.clause : w \in running} \cup {r.asked : r \in fresh}

\* Fault: every clause is pending, whatever the checkpoint holds.
PendingAnyway(c) == c \notin Busy

Pending(c) == Key(c) \notin Keys(known) /\ c \notin Busy

\* Fault: a slot is kept when its worker has returned.
SlotKept == Cardinality(running) + Cardinality(fresh) < Jobs

\* A worker holds its slot until its line is written.
Slot == Cardinality(running) + Cardinality(writing) < Jobs

\* A worker gets a slot and copies the module as it is by now.
Take(c) ==
    /\ stage = "sweep" /\ Pending(c) /\ Slot
    /\ running' = running \cup {[clause |-> c, of |-> bodies]}
    /\ ran' = ran + 1
    /\ UNCHANGED <<bodies, stage, known, writing, fresh, file, out, bodyEdits, badRuns,
                   deaths, sweeps>>

\* Gobra ends, or the budget ends it.
Score(w) ==
    /\ LET errors == CanaryErrors(w.clause, w.of)
       IN \E res \in Outcomes(errors) :
            /\ Faulty(res, errors)
            /\ LET r == Result(w.clause, w.of, res)
               IN fresh' = fresh \cup {r} /\ writing' = writing \cup {r}
    /\ running' = running \ {w}
    /\ UNCHANGED <<bodies, stage, known, file, out, bodyEdits, deaths, sweeps, ran>>

\* Under ckptMu: the line and the flush.
WriteLine(r) ==
    /\ file' = LineAppended(r)
    /\ writing' = writing \ {r}
    /\ UNCHANGED <<bodies, stage, known, running, fresh, out, bodyEdits, badRuns, deaths,
                   sweeps, ran>>

\* Every worker is done: a row for each clause, from the checkpoint or from now.
Publish ==
    /\ stage = "sweep" /\ running = {} /\ writing = {}
    /\ \A c \in Todo : ~Pending(c)
    /\ out' = [c \in Todo |->
                  IF Key(c) \in Keys(known) THEN CHOOSE r \in known : r.key = Key(c)
                  ELSE CHOOSE r \in fresh : r.key = Key(c)]
    /\ stage' = "done"
    /\ UNCHANGED <<bodies, known, running, writing, fresh, file, bodyEdits, badRuns,
                   deaths, sweeps, ran>>

\* The process is killed, perhaps in the middle of a line.
Die ==
    /\ stage \in {"selftest", "infeasible", "sweep"}
    /\ bodyEdits + badRuns + deaths < MaxTrouble
    /\ deaths' = deaths + 1
    /\ stage' = "stopped"
    /\ running' = {} /\ writing' = {} /\ fresh' = {} /\ known' = {}
    /\ file' \in {file} \cup UNION {HalfAppended(r) : r \in writing}
    /\ UNCHANGED <<bodies, out, bodyEdits, badRuns, sweeps, ran>>

CanarySweep ==
    \/ \E r \in writing : WriteLine(r)
    \/ \E c \in Todo : Take(c)
    \/ \E w \in running : Score(w)
    \/ SelfTest \/ Infeasible \/ Publish

CanaryNext == EditBody \/ CanarySweep \/ Die \/ \E skipSelf \in BOOLEAN : StartCanaries(skipSelf)

\* Go schedules every goroutine, and the budget ends every solver.
CanarySpec == CanaryInit /\ [][CanaryNext]_canaryVars /\ WF_canaryVars(CanarySweep)

-----------------------------------------------------------------------------
(* The commands that read sources and results *)

\* verify: no error in the packages as shipped.
Green(src) == Errors(src, AsShipped) = {}

\* reach: `ensures false` is one more clause of the member.
Reach(m, src) ==
    IF Errors(src, AsShipped) = {} /\ src[m] = {} THEN "UNREACHABLE" ELSE "reachable"

\* Fault: an error anywhere in the package will do.
BackedAnywhere(r) == r.verdict = "REFUTABLE"

\* audit: the error is in the member that carries the clause.
Backed(r) == r.verdict = "REFUTABLE" /\ r.asked.member \in r.errors

\* r5: the status of an obligation carried by these clauses.
R5Status(sites) ==
    LET verdicts == {out[c].verdict : c \in sites \cap DOMAIN out}
    IN IF sites = {} THEN "UNATTEMPTED"
       ELSE IF "VACUOUS" \in verdicts THEN "VACUOUS"
       ELSE IF ~(sites \subseteq DOMAIN out) THEN "UNATTEMPTED"
       ELSE IF verdicts = {"REFUTABLE"} THEN "VERIFIED"
       ELSE "UNAUDITED"

-----------------------------------------------------------------------------
(* Properties *)

Results == fresh \cup Checkpointed(file) \cup {out[c] : c \in DOMAIN out}
Vacuous(c, src) == \A s \in src[c.member], e \in Elems : <<s, e>> \notin c.ante

\* In a package that verifies, a VACUOUS clause says nothing of any state its
\* member ends in, and a REFUTABLE one that the audit lets pass says something:
\* no timeout, cut output, caller's error or shape of clause is taken for the
\* wrong answer, and the reachability probe agrees (runCanary, negate, audit).
VerdictsAreTrue ==
    \A r \in Results : Green(r.of) =>
        /\ r.verdict = "VACUOUS" => Vacuous(r.asked, r.of)
        /\ Backed(r) => ~Vacuous(r.asked, r.of)
        /\ r.verdict = "VACUOUS" /\ ~r.asked.guarded =>
              Reach(r.asked.member, r.of) = "UNREACHABLE"

\* Every functional clause has a row, and it is what Gobra said of this very
\* clause, in this sweep or in one that died (key, canary.go:196).
RowsAreTheirOwn == stage = "done" => \A c \in Todo : out[c].asked = c

\* However often a sweep dies, fails, finishes or is run again: a death costs what
\* its workers were at, and one record spoilt by the line it tore.  No other
\* clause is ever asked twice (readCheckpoint, canary.go:85).
CrashesCostLittle == ran <= Cardinality(Todo) + deaths * (Jobs + 1)

\* "VERIFIED requires both a green package and a refutable negation" (r5.go:152).
VerifiedIsGreen ==
    \A sites \in SUBSET Todo :
        R5Status(sites) = "VERIFIED" => \A c \in sites : Green(out[c].of)
=============================================================================
