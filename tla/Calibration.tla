----------------------------- MODULE Calibration -----------------------------
(***************************************************************************)
(* The calibration sweep (tools/cmd/calibrate): every mutant of a corner   *)
(* is copied, every rung is run against the copy, a probe explains what    *)
(* survived, and a journal lets a run that died be resumed.  Agents edit   *)
(* the corner's sources while the sweep runs.                              *)
(*                                                                         *)
(* One corner, -probe=any.  A content address stands for the content it is *)
(* the hash of.  Costs (wall times, launch floors) are left out.           *)
(***************************************************************************)
EXTENDS Naturals, FiniteSets, SequencesExt

CONSTANTS
    Catalogue,      \* the mutants, in the manifest's order
    Rungs,          \* the enabled rungs, in the order they run
    Versions,       \* what a source file may hold
    AnchoredIn(_),  \* a mutant -> versions its anchor names one place of
    InputsOf(_),    \* a rung -> where its requests come from
    Kills(_, _),    \* a rung and a tree -> whether the rung fails the tree
    Answers(_, _),  \* a tree and an input source -> what its server answers
    MaxEdits, MaxFaults, MaxCrashes, MaxRuns \* bounds

Inputs == {"witness", "corpus", "tracegen"}
RungSet == Range(Rungs)

VARIABLES
    source,  \* the corner under impls/: the file the mutants edit, and the rest
    journal, \* journal.jsonl: its lines, each a sequence of pieces
    pc,      \* where the run is
    at,      \* index of the mutant calibrateOne is at
    loaded,  \* the records openJournal read
    base,    \* the source tree last loaded, or last compiled as a baseline
    disk,    \* what the scratch directory holds
    tree,    \* the content address the run files the mutant under
    cells,   \* the cells of this mutant so far, in the order of Rungs
    pending, \* the record about to be written
    report,  \* run.Cells
    edits,   \* edits of the sources
    faults,  \* copies, rungs and probes that failed, servers that did not start
    crashes, \* deaths of a run
    runs,    \* runs started
    seen,    \* history: what the sources have been since the run began
    synced,  \* history: records written and flushed, still in the file
    misled   \* history: some probe described another tree than its own

memory == <<at, loaded, base, disk, tree, cells, pending>>
counters == <<edits, faults, crashes, runs>>
vars == <<source, journal, pc, memory, report, counters, seen, synced, misled>>

-----------------------------------------------------------------------------
(* Trees, cells and probes *)

Original == "original"
Source == [mutant : {Original}, code : Versions, rest : Versions]
Tree == [mutant : Range(Catalogue), code : Versions, rest : Versions]
Blank == [mutant |-> Original, code |-> "", rest |-> ""]

\* A manifest and a list of rungs, neither empty, that name nothing twice, and
\* rungs that pass or fail a tree.
ASSUME CalibrationAssumption ==
    /\ Catalogue \in Seq(Range(Catalogue)) /\ Catalogue # << >> /\ IsInjective(Catalogue)
    /\ Rungs \in Seq(RungSet) /\ Rungs # << >> /\ IsInjective(Rungs)
    /\ \A r \in RungSet, t \in Tree : Kills(r, t) \in BOOLEAN

\* Apply: the edit lands in the one file the mutant names, if its anchor is
\* still there once; the rest is as it was.
Anchored(m) == source.code \in AnchoredIn(m)
Mutated(m, s) == [s EXCEPT !.mutant = m]

Cell(t, r, outcome) ==
    [kind |-> "cell", mutant |-> t.mutant, tree |-> t, rung |-> r, outcome |-> outcome]
Probe(t, reached) == [kind |-> "probe", mutant |-> t.mutant, tree |-> t, reached |-> reached]
ErrCell(m, t) ==
    [kind |-> "cell", mutant |-> m, tree |-> t, rung |-> Head(Rungs), outcome |-> "error"]

\* The inputs two trees answer differently, and those that show a mutation.
Differs(s, t) == {i \in Inputs : Answers(s, i) # Answers(t, i)}
Shows(t) == Differs(Mutated(Original, t), t)

\* Fault: the journal is keyed by the mutant's name.
CellsByName(t, r) ==
    {c \in loaded : c.kind = "cell" /\ c.mutant = t.mutant /\ c.rung = r}

CellsAt(t, r) == {c \in loaded : c.kind = "cell" /\ c.tree = t /\ c.rung = r}
ProbesAt(t) == {p \in loaded : p.kind = "probe" /\ p.tree = t}

\* Fault: a mutant only its witness shows counts as equivalent.
ClassifyUnwitnessed(c, probes) ==
    IF c.outcome # "survived?" \/ probes = {} THEN c
    ELSE [c EXCEPT !.outcome =
            IF InputsOf(c.rung) \in UNION {p.reached : p \in probes} THEN "survived"
            ELSE "equivalent"]

\* What a survival was: the rung's own inputs show the difference, only
\* others do, or none does.
Classify(c, probes) ==
    IF c.outcome # "survived?" \/ probes = {} THEN c
    ELSE LET reached == UNION {p.reached : p \in probes}
         IN [c EXCEPT !.outcome = CASE reached = {} -> "equivalent"
                                    [] InputsOf(c.rung) \in reached -> "survived"
                                    [] OTHER -> "unreached"]

-----------------------------------------------------------------------------
(* The journal *)

Torn == [kind |-> "torn"] \* part of a record
Readable(line) == Len(line.text) = 1 /\ line.text[1] # Torn
Records == {line.text[1] : line \in {l \in Range(journal) : Readable(l)}}

\* Fault: a malformed line is skipped.
MustRefuseNothing == FALSE

MustRefuse == \E line \in Range(journal) : ~Readable(line)

\* O_APPEND: what is written continues a line that was cut short.
Appended(piece, newline) ==
    IF journal # << >> /\ ~Last(journal).ended
    THEN Append(Front(journal), [text |-> Append(Last(journal).text, piece), ended |-> newline])
    ELSE Append(journal, [text |-> <<piece>>, ended |-> newline])

\* Fault: one journalled cell is enough.
ReusableInPart(t) ==
    /\ \E r \in RungSet : CellsAt(t, r) # {}
    /\ \/ ProbesAt(t) # {}
       \/ \A r \in RungSet : \A c \in CellsAt(t, r) : c.outcome # "survived?"

\* All of a mutant is in the journal, the probe of a survival included.
Reusable(t) ==
    /\ \A r \in RungSet : CellsAt(t, r) # {}
    /\ \/ ProbesAt(t) # {}
       \/ \A r \in RungSet : \A c \in CellsAt(t, r) : c.outcome # "survived?"

-----------------------------------------------------------------------------
Init ==
    /\ source \in Source
    /\ journal = << >>
    /\ pc = "stopped"
    /\ at = 1 /\ loaded = {} /\ cells = << >>
    /\ base = Blank /\ disk = Blank /\ tree = Blank /\ pending = Torn
    /\ report = {}
    /\ edits = 0 /\ faults = 0 /\ crashes = 0 /\ runs = 0
    /\ seen = {} /\ synced = {} /\ misled = FALSE

\* Another agent rewrites one file of the corner.
Edit ==
    /\ edits < MaxEdits
    /\ \E v \in Versions : \/ source' = [source EXCEPT !.code = v]
                           \/ source' = [source EXCEPT !.rest = v]
    /\ source' # source
    /\ edits' = edits + 1
    /\ seen' = seen \cup {source'}
    /\ UNCHANGED <<journal, pc, memory, report, faults, crashes, runs, synced, misled>>

Fault(n) ==
    /\ faults + n <= MaxFaults
    /\ faults' = faults + n

\* The operator starts a run, with -resume or without.
Start(resume) ==
    /\ pc \in {"stopped", "done"} \/ (pc = "refused" /\ ~resume)
    /\ runs < MaxRuns
    /\ runs' = runs + 1
    /\ journal' = IF resume THEN journal ELSE << >>
    /\ synced' = IF resume THEN synced ELSE {}
    /\ pc' = IF resume /\ MustRefuse THEN "refused" ELSE "plan"
    /\ loaded' = IF resume THEN {r \in Records : r.kind = "cell" => r.outcome # "error"} ELSE {}
    /\ at' = 1 /\ report' = {} /\ seen' = {source}
    /\ UNCHANGED <<base, disk, tree, cells, pending>>
    /\ UNCHANGED <<source, edits, faults, crashes, misled>>

\* "Truncate the file": the operator cuts it where the run said it is malformed.
Truncate ==
    /\ pc = "refused"
    /\ LET bad == CHOOSE i \in DOMAIN journal :
                    ~Readable(journal[i]) /\ \A k \in 1..(i - 1) : Readable(journal[k])
       IN /\ journal' = SubSeq(journal, 1, bad - 1)
          /\ synced' = synced \cap {l.text[1] : l \in Range(SubSeq(journal, 1, bad - 1))}
    /\ pc' = "stopped"
    /\ UNCHANGED <<source, memory, report, counters, seen, misled>>

\* The locals of calibrateOne and its scratch directory are gone.
Return ==
    /\ cells' = << >>
    /\ base' = Blank /\ disk' = Blank /\ tree' = Blank /\ pending' = Torn

\* What calibrateOne returns goes into the table, and the loop goes on.
Report(row) ==
    /\ report' = report \cup row
    /\ pc' = IF at = Len(Catalogue) THEN "done" ELSE "plan"
    /\ at' = at + 1
    /\ Return
    /\ UNCHANGED loaded

\* PlanHash and reuse: what the mutant of the sources as they are would be.
Plan ==
    /\ pc = "plan"
    /\ LET m == Catalogue[at]
           t == Mutated(m, source)
       IN IF ~Anchored(m) THEN Report({ErrCell(m, Blank)})
          ELSE IF Reusable(t)
          THEN Report({Classify(c, ProbesAt(t)) : c \in UNION {CellsAt(t, r) : r \in RungSet}})
          ELSE /\ tree' = t
               /\ pc' = "apply"
               /\ UNCHANGED <<at, loaded, base, disk, cells, pending, report>>
    /\ UNCHANGED <<source, journal, counters, seen, synced, misled>>

\* mutate apply, which may fail: Materialize loads the sources again, and
\* mutates them in memory.
LoadTree ==
    /\ pc = "apply"
    /\ \E n \in 0..1 :
         /\ Fault(n)
         /\ IF n = 1 \/ ~Anchored(Catalogue[at])
            THEN Report({ErrCell(Catalogue[at], tree)})
            ELSE /\ base' = source
                 /\ pc' = "copy"
                 /\ UNCHANGED <<at, loaded, disk, tree, cells, pending, report>>
    /\ UNCHANGED <<source, journal, edits, crashes, runs, seen, synced, misled>>

\* The address the cells are filed under: res.TreeHash, read back from disk.
\* Fault: the planned one.
PlannedAddress(copy) == tree
Address(copy) == copy

\* The guard: the rungs are about to run the mutant, not the original.
Guarded(m, copy) == copy.mutant = m /\ copy # base

\* copyTree, the edited file over it, the comparison with what was computed,
\* and the guard, which reads again what no other process writes.
CopyTree ==
    /\ pc = "copy"
    /\ LET m == Catalogue[at]
           copy == [Mutated(m, source) EXCEPT !.code = base.code]
       IN IF copy # Mutated(m, base) \/ ~Guarded(m, copy)
          THEN Report({ErrCell(m, tree)})
          ELSE /\ disk' = copy
               /\ tree' = Address(copy)
               /\ pc' = "rung"
               /\ UNCHANGED <<at, loaded, base, cells, pending, report>>
    /\ UNCHANGED <<source, journal, counters, seen, synced, misled>>

\* A rung's own word, which its exit code confirms.
Verdict(r, t) == IF Kills(r, t) THEN "killed" ELSE "survived?"

\* The next rung: its cell is in the journal, or the rung is run.  A rung that
\* times out or contradicts itself yields an error.
Rung ==
    /\ pc = "rung" /\ Len(cells) < Len(Rungs)
    /\ LET r == Rungs[Len(cells) + 1]
       IN IF CellsAt(tree, r) # {}
          THEN /\ \E c \in CellsAt(tree, r) : cells' = Append(cells, c)
               /\ UNCHANGED <<pc, pending, faults>>
          ELSE /\ \E n \in 0..1 :
                    /\ Fault(n)
                    /\ pending' = Cell(tree, r, IF n = 1 THEN "error" ELSE Verdict(r, disk))
               /\ pc' = "write"
               /\ UNCHANGED cells
    /\ UNCHANGED <<source, journal, at, loaded, base, disk, tree, report, edits, crashes, runs,
                   seen, synced, misled>>

\* journal.write: the line and the flush.
Write ==
    /\ pc = "write"
    /\ journal' = Appended(pending, TRUE)
    /\ synced' = synced \cup {pending}
    /\ IF pending.kind = "cell"
       THEN /\ cells' = Append(cells, pending)
            /\ pending' = Torn
            /\ pc' = "rung"
            /\ UNCHANGED <<at, loaded, base, disk, tree, report>>
       ELSE Report({Classify(c, {pending}) : c \in Range(cells)})
    /\ UNCHANGED <<source, counters, seen, misled>>

\* maybeProbe: only a survival needs one, and the journal may hold it.
Judge ==
    /\ pc = "rung" /\ Len(cells) = Len(Rungs)
    /\ IF ProbesAt(tree) # {} \/ \A c \in Range(cells) : c.outcome # "survived?"
       THEN Report({Classify(c, ProbesAt(tree)) : c \in Range(cells)})
       ELSE /\ pc' = "baseline"
            /\ UNCHANGED <<memory, report>>
    /\ UNCHANGED <<source, journal, counters, seen, synced, misled>>

\* mutate probe compiles the unmutated corner where it stands.
CompileBaseline ==
    /\ pc = "baseline"
    /\ base' = source
    /\ pc' = "probe"
    /\ UNCHANGED <<source, journal, at, loaded, disk, tree, cells, pending, report, counters,
                   seen, synced, misled>>

\* No probe: survivals stay unexplained.  Fault: it is tried until it works.
RetryProbe ==
    /\ pc' = "baseline"
    /\ UNCHANGED <<memory, report>>
Unprobed == Report(Range(cells))

\* probeOne materialises the mutant once more, from the sources as they are by
\* now, and compares: on a trace a mutant that fails to start counts as no
\* difference, one that fails to answer as one.  It may also fail altogether.
RunProbe ==
    /\ pc = "probe"
    /\ \/ /\ Fault(IF Anchored(Catalogue[at]) THEN 1 ELSE 0)
          /\ Unprobed
          /\ UNCHANGED misled
       \/ /\ Anchored(Catalogue[at])
          /\ \E unstarted, unanswered \in SUBSET Inputs :
               LET t == Mutated(Catalogue[at], source)
                   reached == (Differs(base, t) \ unstarted) \cup (unanswered \ unstarted)
               IN /\ Fault(Cardinality(unstarted \cup unanswered))
                  /\ pending' = Probe(tree, reached)
                  /\ misled' = (misled \/ reached # Shows(tree))
          /\ pc' = "write"
          /\ UNCHANGED <<at, loaded, base, disk, tree, cells, report>>
    /\ UNCHANGED <<source, journal, edits, crashes, runs, seen, synced>>

\* The run dies: killed, the machine goes down, or the disk is full.  What was
\* being written may be in the file, in part or all of it but the newline.
Crash ==
    /\ pc \notin {"stopped", "refused", "done"}
    /\ crashes < MaxCrashes
    /\ crashes' = crashes + 1
    /\ pc' = "stopped"
    /\ at' = 1 /\ loaded' = {} /\ report' = {}
    /\ Return
    /\ \/ UNCHANGED journal
       \/ /\ pc = "write"
          /\ journal' \in {Appended(Torn, FALSE), Appended(pending, FALSE),
                           Appended(pending, TRUE)}
    /\ UNCHANGED <<source, edits, faults, runs, seen, synced, misled>>

\* main exits 0 unless a cell is an error.
ExitsZero == pc = "done" /\ \A c \in report : c.outcome # "error"

Sweep == Plan \/ LoadTree \/ CopyTree \/ Rung \/ Write \/ Judge \/ CompileBaseline \/ RunProbe
Next == Edit \/ (\E resume \in BOOLEAN : Start(resume)) \/ Truncate \/ Sweep \/ Crash

Spec == Init /\ [][Next]_vars /\ WF_vars(Sweep)

-----------------------------------------------------------------------------
(* Properties *)

\* A cell says what its rung says of the very tree it is filed under, whatever
\* was edited while the mutant was planned, copied and run, and whichever run
\* measured it: runRung, the content address, and the cells a resume reads.
CellsAreOfTheirTree ==
    \A c \in {r \in loaded \cup synced : r.kind = "cell"} \cup report :
        c.outcome # "error" => (c.outcome = "killed") = Kills(c.rung, c.tree)

\* The cells of a mutant in one table are of one tree, made from sources the
\* corner held during this run: what drifted since the journal was written is
\* measured again, never reported from it (reuse, journal.go:17).
RowsAreOfThisRun ==
    \A c, d \in report :
        c.mutant = d.mutant =>
            /\ c.tree = d.tree
            /\ c.tree # Blank => Mutated(Original, c.tree) \in seen

\* What a table says is of the trees it names, and of this run's: the two together.
TableIsOfItsTrees == CellsAreOfTheirTree /\ RowsAreOfThisRun

\* A sweep that exits 0 (main: no cell is an error) has measured every rung of
\* every mutant, once: no failure on the way leaves a hole in the table.
ZeroMeansComplete ==
    ExitsZero =>
        \A m \in Range(Catalogue), r \in RungSet :
            Cardinality({c \in report : c.mutant = m /\ c.rung = r}) = 1

\* What was measured, written and flushed is never measured again, unless an
\* operator threw it away: a resume picks up every such cell of the tree at
\* hand, or refuses to run at all (load, calibrateOne).
NotAgain ==
    (pc = "rung" /\ pc' = "write") =>
        \A c \in synced : c.kind = "cell" /\ c.outcome # "error" =>
            ~(c.tree = pending'.tree /\ c.rung = pending'.rung)

NothingIsMeasuredTwice == [][NotAgain]_vars

\* Unless a probe was wrong, the table is the one a single undisturbed run
\* over the same trees makes, however often the sweep died and was resumed:
\* what it says of a survival follows from the tree alone (classify).
TableIsTheUninterruptedOne ==
    ~misled => \A c \in report : c.outcome \notin {"error", "survived?"} =>
        c.outcome = IF Kills(c.rung, c.tree) THEN "killed"
                    ELSE CASE Shows(c.tree) = {} -> "equivalent"
                           [] InputsOf(c.rung) \in Shows(c.tree) -> "survived"
                           [] OTHER -> "unreached"

\* A probe filed under a tree tells what shows that tree's mutation: what the
\* kill table's equivalent and unreached mean (probe.go:20-24).
ProbesDescribeTheirTree ==
    \A p \in {r \in synced : r.kind = "probe"} : p.reached = Shows(p.tree)
=============================================================================
