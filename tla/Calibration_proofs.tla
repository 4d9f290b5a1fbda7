-------------------------- MODULE Calibration_proofs --------------------------
(***************************************************************************)
(* Proofs about the calibration sweep (Calibration), for any catalogue of  *)
(* mutants, any rungs and any number of edits, failures, deaths and        *)
(* resumes.  A record is right of the tree it names when it is written,    *)
(* and stays so, since a tree is content: every piece of the journal is    *)
(* one of these records or a torn one, so what a resume loads is right     *)
(* too, and a table is put together from such records only.                *)
(***************************************************************************)
EXTENDS Calibration, FiniteSetTheorems, WellFoundedInduction, TLAPS

-----------------------------------------------------------------------------
(* Records and rows that are right of their tree *)

Measured == {"killed", "survived?", "error"}
Judged == Measured \cup {"survived", "equivalent", "unreached"}

\* What an undisturbed run says of a rung on a tree.
Due(r, t) ==
    IF Kills(r, t) THEN "killed"
    ELSE CASE Shows(t) = {} -> "equivalent"
           [] InputsOf(r) \in Shows(t) -> "survived"
           [] OTHER -> "unreached"

Right(c) == c.outcome # "error" => (c.outcome = "killed") = Kills(c.rung, c.tree)

CellRecord ==
    {c \in [kind : {"cell"}, mutant : Range(Catalogue), tree : Tree, rung : RungSet,
            outcome : Measured] : c.mutant = c.tree.mutant /\ Right(c)}

ProbeRecord ==
    {p \in [kind : {"probe"}, mutant : Range(Catalogue), tree : Tree, reached : SUBSET Inputs] :
        ~misled => p.reached = Shows(p.tree)}

Record == CellRecord \cup ProbeRecord
Piece == Record \cup {Torn}
Line == [text : Seq(Piece), ended : BOOLEAN]

Row == [kind : {"cell"}, mutant : Range(Catalogue), tree : Tree \cup {Blank}, rung : RungSet,
        outcome : Judged]

Sound(c) ==
    /\ c \in Row
    /\ Right(c)
    /\ ~misled /\ c.outcome \notin {"error", "survived?"} => c.outcome = Due(c.rung, c.tree)

-----------------------------------------------------------------------------
(* The inductive invariant *)

Busy == {"apply", "copy", "rung", "write", "baseline", "probe"}
Measuring == {"rung", "write", "baseline", "probe"}

OnFile(x) == \E i \in 1..Len(journal) : \E k \in 1..Len(journal[i].text) : journal[i].text[k] = x

\* The journal holds records and torn ones, and every record that was flushed.
JournalInv ==
    /\ journal \in Seq(Line)
    /\ synced \subseteq Record /\ \A x \in synced : OnFile(x)
    /\ loaded \subseteq Record
    /\ \A c \in loaded : c.kind = "cell" => c.outcome # "error"

\* The run is at one mutant, on a tree made of sources the corner has held.
RunInv ==
    /\ pc \in Busy \cup {"plan", "stopped", "refused", "done"}
    /\ source \in Source
    /\ at \in 1..(Len(Catalogue) + 1)
    /\ pc \in Busy \cup {"plan"} => at \in 1..Len(Catalogue) /\ source \in seen
    /\ pc \in Busy => /\ tree \in Tree /\ tree.mutant = Catalogue[at]
                      /\ Mutated(Original, tree) \in seen
    /\ pc = "copy" => base \in Source /\ base \in seen
    /\ pc \in Measuring => disk = tree
    /\ pc = "done" => at = Len(Catalogue) + 1
    /\ pc = "refused" => MustRefuse
    /\ misled \in BOOLEAN

\* Its cells so far are of that tree, one for each of the first rungs.
CellsInv ==
    /\ pc \notin Measuring => cells = << >>
    /\ cells \in Seq(CellRecord) /\ Len(cells) <= Len(Rungs)
    /\ \A i \in 1..Len(cells) : cells[i].rung = Rungs[i] /\ cells[i].tree = tree
    /\ pc \in {"baseline", "probe"} => Len(cells) = Len(Rungs)
    /\ pc = "write" =>
          /\ pending \in Record /\ pending.tree = tree
          /\ pending.kind = "cell" =>
                Len(cells) < Len(Rungs) /\ pending.rung = Rungs[Len(cells) + 1]
          /\ pending.kind = "probe" => Len(cells) = Len(Rungs)

Done(m) == \E i \in 1..(at - 1) : m = Catalogue[i]
RowsAt(m, r) == {c \in report : c.mutant = m /\ c.rung = r}

\* The rows are right, of the mutants done, each of these on one tree and with
\* a failure or one row for each rung.
TableInv ==
    /\ \A c \in report : Sound(c) /\ Done(c.mutant)
    /\ RowsAreOfThisRun
    /\ \A i \in 1..(at - 1) :
          \/ \E c \in report : c.mutant = Catalogue[i] /\ c.outcome = "error"
          \/ \A r \in RungSet : \E c \in report : RowsAt(Catalogue[i], r) = {c}

\* What was flushed was loaded, or measured by this very run.
FlushedInv ==
    pc \in Busy \cup {"plan"} =>
        \A c \in synced : c.kind = "cell" /\ c.outcome # "error" =>
            c \in loaded \/ Done(c.mutant) \/ \E j \in 1..Len(cells) : c = cells[j]

SweepInv == JournalInv /\ RunInv /\ CellsInv /\ TableInv /\ FlushedInv

LEMMA Constants ==
    /\ Len(Catalogue) \in Nat /\ Len(Catalogue) >= 1
    /\ \A i \in 1..Len(Catalogue) : Catalogue[i] \in Range(Catalogue)
    /\ \A i, j \in 1..Len(Catalogue) : Catalogue[i] = Catalogue[j] => i = j
    /\ \A m \in Range(Catalogue) : \E i \in 1..Len(Catalogue) : m = Catalogue[i]
    /\ Len(Rungs) \in Nat /\ Len(Rungs) >= 1
    /\ \A i \in 1..Len(Rungs) : Rungs[i] \in RungSet
    /\ \A i, j \in 1..Len(Rungs) : Rungs[i] = Rungs[j] => i = j
    /\ \A r \in RungSet : \E i \in 1..Len(Rungs) : r = Rungs[i]
    /\ Head(Rungs) \in RungSet
<1>1. /\ Catalogue \in Seq(Range(Catalogue)) /\ Catalogue # << >> /\ IsInjective(Catalogue)
      /\ Rungs \in Seq(Range(Rungs)) /\ Rungs # << >> /\ IsInjective(Rungs)
  BY CalibrationAssumption DEF RungSet
<1>2. ASSUME NEW S, NEW s \in Seq(S), s # << >>, IsInjective(s)
      PROVE  /\ Len(s) \in Nat /\ Len(s) >= 1
             /\ \A i \in 1..Len(s) : s[i] \in Range(s)
             /\ \A i, j \in 1..Len(s) : s[i] = s[j] => i = j
             /\ \A m \in Range(s) : \E i \in 1..Len(s) : m = s[i]
             /\ Head(s) = s[1]
  BY <1>2 DEF Range, IsInjective
<1>3. Head(Rungs) \in RungSet
  BY <1>1, <1>2 DEF RungSet
<1> QED BY <1>1, <1>2, <1>3 DEF RungSet

-----------------------------------------------------------------------------
(* Trees, cells and probes *)

LEMMA SourceIs ==
    ASSUME NEW s \in Source
    PROVE  /\ s = [mutant |-> Original, code |-> s.code, rest |-> s.rest]
           /\ s.code \in Versions /\ s.rest \in Versions
BY DEF Source

LEMMA MutatedIsATree ==
    ASSUME NEW m \in Range(Catalogue), NEW s \in Source
    PROVE  /\ Mutated(m, s) \in Tree
           /\ Mutated(m, s).mutant = m
           /\ Mutated(Original, Mutated(m, s)) = s
BY DEF Mutated, Tree, Source

LEMMA CellIs ==
    ASSUME NEW c \in CellRecord
    PROVE  /\ c = [kind |-> "cell", mutant |-> c.tree.mutant, tree |-> c.tree, rung |-> c.rung,
                   outcome |-> c.outcome]
           /\ c.kind = "cell" /\ c.mutant = c.tree.mutant /\ c.mutant \in Range(Catalogue)
           /\ c.tree \in Tree /\ c.rung \in RungSet /\ c.outcome \in Measured /\ Right(c)
BY DEF CellRecord

LEMMA ProbeIs ==
    ASSUME NEW p \in ProbeRecord
    PROVE  /\ p.kind = "probe" /\ p.tree \in Tree /\ p.reached \subseteq Inputs
           /\ ~misled => p.reached = Shows(p.tree)
BY DEF ProbeRecord

LEMMA KindOfRecord ==
    ASSUME NEW x \in Record
    PROVE  /\ x.kind = "cell" => x \in CellRecord
           /\ x.kind = "probe" => x \in ProbeRecord
           /\ x.kind \in {"cell", "probe"}
           /\ x # Torn
BY CellIs, ProbeIs DEF Record, Torn

\* What a rung said of a tree is one cell, failures apart.
LEMMA OneCell ==
    ASSUME NEW c \in CellRecord, NEW d \in CellRecord,
           c.tree = d.tree, c.rung = d.rung, c.outcome # "error", d.outcome # "error"
    PROVE  c = d
<1>1. Kills(c.rung, c.tree) \in BOOLEAN
  BY CellIs, CalibrationAssumption
<1>2. c.outcome = d.outcome
  BY <1>1, CellIs DEF Right, Measured
<1>3. /\ c = [kind |-> "cell", mutant |-> c.tree.mutant, tree |-> c.tree, rung |-> c.rung,
              outcome |-> c.outcome]
      /\ d = [kind |-> "cell", mutant |-> d.tree.mutant, tree |-> d.tree, rung |-> d.rung,
              outcome |-> d.outcome]
  BY CellIs
<1> QED BY <1>2, <1>3

\* A record stays one when a probe is wrong elsewhere.
LEMMA RecordsStay ==
    ASSUME misled => misled'
    PROVE  /\ CellRecord' = CellRecord
           /\ ProbeRecord \subseteq ProbeRecord'
           /\ Record \subseteq Record'
           /\ Piece \subseteq Piece'
           /\ Seq(Line) \subseteq Seq(Line')
<1>1. CellRecord' = CellRecord
  BY DEF CellRecord, Right, RungSet, Tree, Measured
<1>2. ProbeRecord \subseteq ProbeRecord'
  BY DEF ProbeRecord, Shows, Differs, Mutated, Tree
<1>3. Record \subseteq Record' /\ Piece \subseteq Piece'
  BY <1>1, <1>2 DEF Record, Piece, Torn
<1>4. Seq(Piece) \subseteq Seq(Piece')
  BY <1>3
<1>5. Line \subseteq Line'
  BY <1>4 DEF Line
<1> QED BY <1>1, <1>2, <1>3, <1>5

\* Classify keeps what the cell is of, and says of a survival what it was.
LEMMA ClassifyIsSound ==
    ASSUME NEW c \in CellRecord, NEW P, P \subseteq ProbeRecord, \A p \in P : p.tree = c.tree
    PROVE  /\ Sound(Classify(c, P))
           /\ Classify(c, P).mutant = c.mutant /\ Classify(c, P).tree = c.tree
           /\ Classify(c, P).rung = c.rung
<1>1. /\ c = [kind |-> "cell", mutant |-> c.tree.mutant, tree |-> c.tree, rung |-> c.rung,
              outcome |-> c.outcome]
      /\ c.mutant = c.tree.mutant /\ c.mutant \in Range(Catalogue)
      /\ c.tree \in Tree /\ c.rung \in RungSet /\ c.outcome \in Measured /\ Right(c)
  BY CellIs
<1>2. Kills(c.rung, c.tree) \in BOOLEAN
  BY <1>1, CalibrationAssumption
<1>3. ASSUME NEW o \in Judged,
             o # "error" => (o = "killed") = Kills(c.rung, c.tree),
             ~misled /\ o \notin {"error", "survived?"} => o = Due(c.rung, c.tree)
      PROVE  /\ Sound([c EXCEPT !.outcome = o])
             /\ [c EXCEPT !.outcome = o].mutant = c.mutant
             /\ [c EXCEPT !.outcome = o].tree = c.tree
             /\ [c EXCEPT !.outcome = o].rung = c.rung
  <2> DEFINE d == [kind |-> "cell", mutant |-> c.mutant, tree |-> c.tree, rung |-> c.rung,
                   outcome |-> o]
  <2>1. [c EXCEPT !.outcome = o] = d
    BY <1>1
  <2>2. d \in Row
    BY <1>1, <1>3 DEF Row
  <2>3. Right(d)
    BY <1>3 DEF Right
  <2>4. ~misled /\ d.outcome \notin {"error", "survived?"} => d.outcome = Due(d.rung, d.tree)
    BY <1>3
  <2>5. Sound(d) /\ d.mutant = c.mutant /\ d.tree = c.tree /\ d.rung = c.rung
    BY <2>2, <2>3, <2>4 DEF Sound
  <2> QED BY <2>1, <2>5
<1>4. CASE c.outcome # "survived?" \/ P = {}
  <2>1. Classify(c, P) = c
    BY <1>4 DEF Classify
  <2>2. c = [c EXCEPT !.outcome = c.outcome]
    BY <1>1
  <2>3. c.outcome # "error" => (c.outcome = "killed") = Kills(c.rung, c.tree)
    BY <1>1 DEF Right
  <2>4. ~misled /\ c.outcome \notin {"error", "survived?"} => c.outcome = Due(c.rung, c.tree)
    <3>1. SUFFICES ASSUME c.outcome \notin {"error", "survived?"}
                   PROVE  c.outcome = Due(c.rung, c.tree)
      OBVIOUS
    <3>2. c.outcome = "killed"
      BY <1>1, <3>1 DEF Measured
    <3>3. Kills(c.rung, c.tree)
      BY <1>2, <2>3, <3>2
    <3> QED BY <3>2, <3>3 DEF Due
  <2>5. c.outcome \in Judged
    BY <1>1 DEF Judged
  <2> QED BY <1>3, <2>1, <2>2, <2>3, <2>4, <2>5
<1>5. CASE c.outcome = "survived?" /\ P # {}
  <2> DEFINE reached == UNION {p.reached : p \in P}
             o == CASE reached = {} -> "equivalent"
                    [] InputsOf(c.rung) \in reached -> "survived"
                    [] OTHER -> "unreached"
  <2>1. Classify(c, P) = [c EXCEPT !.outcome = o]
    BY <1>5 DEF Classify
  <2>2. ~misled => reached = Shows(c.tree)
    <3>1. \A p \in P : ~misled => p.reached = Shows(c.tree)
      BY ProbeIs
    <3> QED BY <1>5, <3>1
  <2>3. ~Kills(c.rung, c.tree)
    BY <1>1, <1>2, <1>5 DEF Right
  <2>4. o \in {"equivalent", "survived", "unreached"}
    OBVIOUS
  <2>5. ~misled => o = Due(c.rung, c.tree)
    BY <2>2, <2>3 DEF Due
  <2>6. o \in Judged /\ o # "killed" /\ o # "error"
    BY <2>4 DEF Judged
  <2> HIDE DEF o
  <2>7. o # "error" => (o = "killed") = Kills(c.rung, c.tree)
    BY <1>2, <2>3, <2>6
  <2> QED BY <1>3, <2>1, <2>5, <2>6, <2>7
<1> QED BY <1>4, <1>5

-----------------------------------------------------------------------------
(* The journal *)

LEMMA JournalIs ==
    ASSUME NEW j \in Seq(Line)
    PROVE  /\ Len(j) \in Nat /\ DOMAIN j = 1..Len(j)
           /\ \A i \in 1..Len(j) : /\ j[i] \in Line /\ j[i].text \in Seq(Piece)
                                   /\ j[i].ended \in BOOLEAN
                                   /\ \A k \in 1..Len(j[i].text) : j[i].text[k] \in Piece
<1>1. Len(j) \in Nat /\ DOMAIN j = 1..Len(j) /\ \A i \in 1..Len(j) : j[i] \in Line
  OBVIOUS
<1>2. \A l \in Line : l.text \in Seq(Piece) /\ l.ended \in BOOLEAN
  BY DEF Line
<1>3. \A s \in Seq(Piece) : \A k \in 1..Len(s) : s[k] \in Piece
  OBVIOUS
<1> QED BY <1>1, <1>2, <1>3

\* A line appended, or one that was cut short continued, leaves what is there.
LEMMA AppendedKeeps ==
    ASSUME journal \in Seq(Line), NEW piece \in Piece, NEW newline \in BOOLEAN,
           journal' = Appended(piece, newline)
    PROVE  /\ journal' \in Seq(Line)
           /\ \E i \in 1..Len(journal') : \E k \in 1..Len(journal'[i].text) :
                 journal'[i].text[k] = piece
           /\ \A x : OnFile(x) => OnFile(x)'
<1>1. /\ Len(journal) \in Nat
      /\ \A i \in 1..Len(journal) : journal[i] \in Line /\ journal[i].text \in Seq(Piece)
  BY JournalIs
<1>2. CASE journal # << >> /\ ~Last(journal).ended
  <2> DEFINE n == Len(journal)
             text == journal[n].text
             more == [text |-> Append(text, piece), ended |-> newline]
  <2>1. n \in 1..Len(journal) /\ n \in Nat /\ n > 0
    BY <1>1, <1>2
  <2>2. text \in Seq(Piece)
    BY <1>1, <2>1
  <2>3. /\ Append(text, piece) \in Seq(Piece) /\ Len(Append(text, piece)) = Len(text) + 1
        /\ Len(text) \in Nat
        /\ Append(text, piece)[Len(text) + 1] = piece
        /\ \A k \in 1..Len(text) : Append(text, piece)[k] = text[k]
    BY <2>2
  <2>4. more \in Line
    BY <2>3 DEF Line
  <2>5. journal' = Append(Front(journal), more)
    BY <1>2 DEF Appended, Last
  <2>6. /\ Front(journal) \in Seq(Line) /\ Len(Front(journal)) = n - 1
        /\ \A i \in 1..(n - 1) : Front(journal)[i] = journal[i]
    <3>1. Front(journal) = [i \in 1..(n - 1) |-> journal[i]] /\ n - 1 \in Nat
      BY <2>1 DEF Front
    <3>2. \A i \in 1..(n - 1) : journal[i] \in Line
      BY <1>1
    <3> HIDE DEF n
    <3>3. \A s : s = [i \in 1..(n - 1) |-> journal[i]] =>
                /\ s \in Seq(Line) /\ Len(s) = n - 1
                /\ \A i \in 1..(n - 1) : s[i] = journal[i]
      BY <3>1, <3>2
    <3> QED BY <3>1, <3>3
  <2> HIDE DEF more
  <2>7. /\ journal' \in Seq(Line) /\ Len(journal') = n /\ journal'[n] = more
        /\ \A i \in 1..(n - 1) : journal'[i] = journal[i]
    BY <2>1, <2>4, <2>5, <2>6
  <2>8. more.text = Append(text, piece)
    BY DEF more
  <2> HIDE DEF text, n
  <2>9. \E i \in 1..Len(journal') : \E k \in 1..Len(journal'[i].text) :
            journal'[i].text[k] = piece
    <3>1. Len(text) + 1 \in 1..Len(journal'[n].text) /\ journal'[n].text[Len(text) + 1] = piece
      BY <2>3, <2>7, <2>8
    <3>2. n \in 1..Len(journal')
      BY <2>1, <2>7
    <3> QED BY <3>1, <3>2
  <2>10. ASSUME NEW x, OnFile(x) PROVE OnFile(x)'
    <3>1. PICK i \in 1..Len(journal) : \E k \in 1..Len(journal[i].text) : journal[i].text[k] = x
      BY <2>10 DEF OnFile
    <3>2. PICK k \in 1..Len(journal[i].text) : journal[i].text[k] = x
      BY <3>1
    <3>3. i \in 1..Len(journal')
      BY <2>7 DEF n
    <3>4. CASE i = n
      <4>1. k \in 1..Len(text) /\ text[k] = x
        BY <3>2, <3>4 DEF text
      <4>2. journal'[i].text = Append(text, piece)
        BY <2>7, <2>8, <3>4
      <4>3. k \in 1..Len(journal'[i].text) /\ journal'[i].text[k] = x
        BY <2>3, <4>1, <4>2
      <4> QED BY <3>3, <4>3 DEF OnFile
    <3>5. CASE i # n
      <4>1. journal'[i] = journal[i]
        BY <2>1, <2>7, <3>5 DEF n
      <4> QED BY <3>2, <3>3, <4>1 DEF OnFile
    <3> QED BY <3>4, <3>5
  <2> QED BY <2>7, <2>9, <2>10
<1>3. CASE ~(journal # << >> /\ ~Last(journal).ended)
  <2> DEFINE line == [text |-> <<piece>>, ended |-> newline]
  <2>1. journal' = Append(journal, line)
    BY <1>3 DEF Appended
  <2>2. line \in Line
    BY DEF Line
  <2>3. line.text = <<piece>> /\ Len(<<piece>>) = 1 /\ <<piece>>[1] = piece
    OBVIOUS
  <2> HIDE DEF line
  <2>4. /\ journal' \in Seq(Line) /\ Len(journal') = Len(journal) + 1
        /\ journal'[Len(journal) + 1] = line
        /\ \A i \in 1..Len(journal) : journal'[i] = journal[i]
    BY <1>1, <2>1, <2>2
  <2>5. \E i \in 1..Len(journal') : \E k \in 1..Len(journal'[i].text) :
            journal'[i].text[k] = piece
    <3>1. Len(journal) + 1 \in 1..Len(journal')
      BY <1>1, <2>4
    <3>2. PICK i \in 1..Len(journal') : journal'[i].text = <<piece>>
      BY <2>3, <2>4, <3>1
    <3>3. 1 \in 1..Len(<<piece>>)
      BY <2>3
    <3>4. 1 \in 1..Len(journal'[i].text) /\ journal'[i].text[1] = piece
      BY <2>3, <3>2, <3>3
    <3> QED BY <3>4
  <2>6. ASSUME NEW x, OnFile(x) PROVE OnFile(x)'
    <3>1. PICK i \in 1..Len(journal) : \E k \in 1..Len(journal[i].text) : journal[i].text[k] = x
      BY <2>6 DEF OnFile
    <3>2. i \in 1..Len(journal') /\ journal'[i] = journal[i]
      BY <1>1, <2>4
    <3> QED BY <3>1, <3>2 DEF OnFile
  <2> QED BY <2>4, <2>5, <2>6
<1> QED BY <1>2, <1>3

\* Where every line is one record, a resume reads all that is on file.
LEMMA RecordsAre ==
    ASSUME journal \in Seq(Line)
    PROVE  /\ Records \subseteq Record
           /\ ~MustRefuse => \A x \in Record : OnFile(x) => x \in Records
<1>1. /\ Len(journal) \in Nat /\ DOMAIN journal = 1..Len(journal)
      /\ \A i \in 1..Len(journal) : /\ journal[i] \in Line /\ journal[i].text \in Seq(Piece)
                                    /\ journal[i].ended \in BOOLEAN
                                    /\ \A k \in 1..Len(journal[i].text) :
                                          journal[i].text[k] \in Piece
  BY JournalIs
<1>2. \A l : l \in Range(journal) <=> \E i \in 1..Len(journal) : l = journal[i]
  BY <1>1 DEF Range
<1>3. \A x : x \in Records <=> \E i \in 1..Len(journal) :
                                    Readable(journal[i]) /\ x = journal[i].text[1]
  BY <1>2 DEF Records
<1>4. ASSUME NEW x \in Records PROVE x \in Record
  <2>1. PICK i \in 1..Len(journal) : Readable(journal[i]) /\ x = journal[i].text[1]
    BY <1>3
  <2>2. Len(journal[i].text) = 1 /\ x # Torn
    BY <2>1 DEF Readable
  <2>3. 1 \in 1..Len(journal[i].text)
    BY <2>2
  <2>4. x \in Piece
    BY <1>1, <2>1, <2>3
  <2> QED BY <2>2, <2>4 DEF Piece
<1>5. ASSUME ~MustRefuse, NEW x \in Record, OnFile(x) PROVE x \in Records
  <2>1. PICK i \in 1..Len(journal) : \E k \in 1..Len(journal[i].text) : journal[i].text[k] = x
    BY <1>5 DEF OnFile
  <2>2. Readable(journal[i])
    BY <1>2, <1>5, <2>1 DEF MustRefuse
  <2>3. Len(journal[i].text) = 1
    BY <2>2 DEF Readable
  <2>4. journal[i].text[1] = x
    BY <2>1, <2>3
  <2> QED BY <1>3, <2>2, <2>4
<1> QED BY <1>4, <1>5

LEMMA FirstUnreadable ==
    ASSUME journal \in Seq(Line), MustRefuse
    PROVE  \E i \in DOMAIN journal :
              ~Readable(journal[i]) /\ \A k \in 1..(i - 1) : Readable(journal[k])
<1>1. Len(journal) \in Nat /\ DOMAIN journal = 1..Len(journal)
  BY JournalIs
<1> DEFINE Less == {p \in Nat \X Nat : p[1] < p[2]}
           T == {i \in 1..Len(journal) : ~Readable(journal[i])}
<1>2. IsWellFoundedOn(Less, Nat)
  BY NatLessThanWellFounded DEF OpToRel
<1>3. T \subseteq Nat /\ T # {}
  BY <1>1 DEF MustRefuse, Range
<1>4. PICK i \in T : \A k \in T : <<k, i>> \notin Less
  <2> HIDE DEF Less, T
  <2> QED BY <1>2, <1>3, WFMin
<1>5. ASSUME NEW k \in 1..(i - 1), ~Readable(journal[k]) PROVE FALSE
  <2>1. k \in T /\ k \in Nat /\ i \in Nat /\ k < i
    BY <1>1, <1>5
  <2>2. <<k, i>> \in Less
    BY <2>1
  <2> QED BY <1>4, <2>1, <2>2
<1> QED BY <1>1, <1>4, <1>5

-----------------------------------------------------------------------------
(* A row of the table *)

\* An error, or one row for each rung.
Complete(row) ==
    \/ \E c \in row : c.outcome = "error"
    \/ \A r \in RungSet : \E c \in row : \A d \in row : d.rung = r <=> d = c

\* What calibrateOne may return: right, of one mutant, on one tree of this run.
Returned(row, t) ==
    /\ t \in Tree \cup {Blank}
    /\ t # Blank => Mutated(Original, t) \in seen
    /\ \A c \in row : Sound(c) /\ c.mutant = Catalogue[at] /\ c.tree = t
    /\ Complete(row)

LEMMA SoundIs ==
    ASSUME NEW c, Sound(c)
    PROVE  /\ c.mutant \in Range(Catalogue) /\ c.tree \in Tree \cup {Blank}
           /\ c.rung \in RungSet /\ c.outcome \in Judged /\ Right(c)
BY DEF Sound, Row

LEMMA ErrCellReturned ==
    ASSUME RunInv, pc \in Busy \cup {"plan"},
           NEW t \in Tree \cup {Blank}, t # Blank => Mutated(Original, t) \in seen
    PROVE  Returned({ErrCell(Catalogue[at], t)}, t)
<1>1. Catalogue[at] \in Range(Catalogue) /\ Head(Rungs) \in RungSet
  BY Constants DEF RunInv
<1> DEFINE c == ErrCell(Catalogue[at], t)
<1>2. /\ c.outcome = "error" /\ c.mutant = Catalogue[at] /\ c.tree = t
      /\ c \in Row
  BY <1>1 DEF ErrCell, Row, Judged, Measured
<1>3. Sound(c)
  BY <1>2 DEF Sound, Right
<1> HIDE DEF c
<1> QED BY <1>2, <1>3 DEF Returned, Complete, c

\* The table with the rows of one more mutant.
LEMMA TableGrows ==
    ASSUME RunInv, TableInv, pc \in Busy \cup {"plan"},
           NEW row, NEW t, Returned(row, t), Report(row), UNCHANGED <<seen, misled>>
    PROVE  TableInv'
<1>1. /\ at \in 1..Len(Catalogue) /\ Len(Catalogue) \in Nat
      /\ at' = at + 1 /\ report' = report \cup row
  BY Constants DEF RunInv, Report
<1>2. \A i, j \in 1..Len(Catalogue) : Catalogue[i] = Catalogue[j] => i = j
  BY Constants
<1>3. \A m : Done(m)' <=> Done(m) \/ m = Catalogue[at]
  BY <1>1 DEF Done
<1>4. ~Done(Catalogue[at])
  BY <1>1, <1>2 DEF Done
<1>5. \A c : Sound(c)' <=> Sound(c)
  BY DEF Sound, Row, Right, Due, Shows, Differs, Mutated, RungSet, Tree
<1>6. /\ \A c \in report : Sound(c) /\ Done(c.mutant)
      /\ RowsAreOfThisRun
      /\ \A i \in 1..(at - 1) :
            \/ \E c \in report : c.mutant = Catalogue[i] /\ c.outcome = "error"
            \/ \A r \in RungSet : \E c \in report : RowsAt(Catalogue[i], r) = {c}
  BY DEF TableInv
<1>7. /\ t \in Tree \cup {Blank}
      /\ t # Blank => Mutated(Original, t) \in seen
      /\ \A c \in row : Sound(c) /\ c.mutant = Catalogue[at] /\ c.tree = t
      /\ Complete(row)
  BY DEF Returned
<1>8. (\A c \in report : Sound(c) /\ Done(c.mutant))'
  BY <1>1, <1>3, <1>5, <1>6, <1>7
<1>9. RowsAreOfThisRun'
  <2>1. \A c, d \in report :
            c.mutant = d.mutant =>
                /\ c.tree = d.tree
                /\ c.tree # Blank => Mutated(Original, c.tree) \in seen
    BY <1>6 DEF RowsAreOfThisRun
  <2>2. \A c \in report : c.mutant # Catalogue[at]
    BY <1>4, <1>6
  <2> SUFFICES ASSUME NEW c \in report', NEW d \in report', c.mutant = d.mutant
               PROVE  /\ c.tree = d.tree
                      /\ c.tree # Blank => Mutated(Original, c.tree) \in seen
    BY DEF RowsAreOfThisRun, Mutated, Blank
  <2>3. CASE c \in report
    <3>1. d \in report
      BY <1>1, <1>7, <2>2, <2>3
    <3> QED BY <2>1, <2>3, <3>1
  <2>4. CASE c \in row
    <3>1. d \in row
      BY <1>1, <1>7, <2>2, <2>4
    <3> QED BY <1>7, <2>4, <3>1
  <2> QED BY <1>1, <2>3, <2>4
<1>10. ASSUME NEW i \in 1..(at' - 1)
       PROVE  \/ \E c \in report' : c.mutant = Catalogue[i] /\ c.outcome = "error"
              \/ \A r \in RungSet : \E c \in report' : RowsAt(Catalogue[i], r)' = {c}
  <2>1. CASE i = at
    <3>1. CASE \E c \in row : c.outcome = "error"
      BY <1>1, <1>7, <2>1, <3>1
    <3>2. CASE \A r \in RungSet : \E c \in row : \A d \in row : d.rung = r <=> d = c
      <4>1. ASSUME NEW r \in RungSet
            PROVE  \E c \in report' : RowsAt(Catalogue[i], r)' = {c}
        <5>1. PICK c \in row : \A d \in row : d.rung = r <=> d = c
          BY <3>2
        <5>2. ASSUME NEW d PROVE d \in RowsAt(Catalogue[i], r)' <=> d = c
          <6>1. d \in RowsAt(Catalogue[i], r)' <=>
                    d \in report' /\ d.mutant = Catalogue[at] /\ d.rung = r
            BY <2>1 DEF RowsAt
          <6>2. d \in report => d.mutant # Catalogue[at]
            BY <1>4, <1>6
          <6>3. d \in row => d.mutant = Catalogue[at]
            BY <1>7
          <6> QED BY <1>1, <5>1, <6>1, <6>2, <6>3
        <5>3. RowsAt(Catalogue[i], r)' = {c}
          BY <5>2
        <5> QED BY <1>1, <5>1, <5>3
      <4> QED BY <4>1
    <3> QED BY <1>7, <3>1, <3>2 DEF Complete
  <2>2. CASE i # at
    <3>1. i \in 1..(at - 1)
      BY <1>1, <2>2
    <3>2. Catalogue[i] # Catalogue[at]
      BY <1>1, <1>2, <2>2, <3>1
    <3>3. ASSUME NEW r PROVE RowsAt(Catalogue[i], r)' = RowsAt(Catalogue[i], r)
      BY <1>1, <1>7, <3>2 DEF RowsAt
    <3> QED BY <1>1, <1>6, <3>1, <3>3
  <2> QED BY <2>1, <2>2
<1> QED BY <1>8, <1>9, <1>10 DEF TableInv, RungSet

\* The run goes on with the next mutant, or is done.
LEMMA GoesOn ==
    ASSUME RunInv, CellsInv, FlushedInv, pc \in Busy \cup {"plan"},
           NEW row, Report(row), UNCHANGED <<source, seen, misled>>,
           \A c \in synced' : c.kind = "cell" => c \in synced
    PROVE  RunInv' /\ CellsInv' /\ FlushedInv'
<1>1. /\ at \in 1..Len(Catalogue) /\ Len(Catalogue) \in Nat /\ at' = at + 1 /\ cells' = << >>
      /\ pc' = IF at = Len(Catalogue) THEN "done" ELSE "plan"
      /\ loaded' = loaded /\ Len(Rungs) \in Nat
  BY Constants DEF RunInv, Report, Return
<1>2. RunInv'
  <2>1. pc' \in {"done", "plan"} /\ at' \in 1..(Len(Catalogue) + 1)
    BY <1>1
  <2>2. pc' = "plan" => at' \in 1..Len(Catalogue)
    BY <1>1
  <2>3. pc' = "done" => at' = Len(Catalogue) + 1
    BY <1>1
  <2>4. source' \in Source /\ source' \in seen' /\ misled' \in BOOLEAN
    BY DEF RunInv, Source
  <2> QED BY <2>1, <2>2, <2>3, <2>4 DEF RunInv, Busy, Measuring, Source
<1>3. CellsInv'
  <2>1. pc' \in {"done", "plan"}
    BY <1>1
  <2>2. cells' \in Seq(CellRecord') /\ Len(cells') = 0
    BY <1>1
  <2> QED BY <1>1, <2>1, <2>2 DEF CellsInv, Measuring, RungSet
<1>4. FlushedInv'
  <2> SUFFICES ASSUME NEW c \in synced', c.kind = "cell", c.outcome # "error"
               PROVE  c \in loaded' \/ Done(c.mutant)'
    BY DEF FlushedInv
  <2>1. c \in loaded \/ Done(c.mutant) \/ \E j \in 1..Len(cells) : c = cells[j]
    BY DEF FlushedInv
  <2>2. \A m : Done(m)' <=> Done(m) \/ m = Catalogue[at]
    BY <1>1 DEF Done
  <2>3. ASSUME NEW j \in 1..Len(cells), c = cells[j] PROVE c.mutant = Catalogue[at]
    <3>1. pc \in Busy
      BY <1>1, <2>3 DEF CellsInv, Busy, Measuring
    <3>2. cells[j] \in CellRecord /\ cells[j].tree = tree
      BY DEF CellsInv
    <3> QED BY <2>3, <3>1, <3>2, CellIs DEF RunInv
  <2> QED BY <1>1, <2>1, <2>2, <2>3
<1> QED BY <1>2, <1>3, <1>4

\* All the rungs' cells, explained by the probes of their tree.
LEMMA CellsReturned ==
    ASSUME RunInv, CellsInv, pc \in Measuring, Len(cells) = Len(Rungs),
           NEW P, P \subseteq ProbeRecord, \A p \in P : p.tree = tree
    PROVE  Returned({Classify(c, P) : c \in Range(cells)}, tree)
<1> DEFINE row == {Classify(c, P) : c \in Range(cells)}
<1>1. /\ cells \in Seq(CellRecord) /\ Len(cells) \in Nat
      /\ \A i \in 1..Len(cells) : /\ cells[i] \in CellRecord /\ cells[i].rung = Rungs[i]
                                  /\ cells[i].tree = tree
  BY DEF CellsInv
<1>2. \A u : u \in row <=> \E i \in 1..Len(cells) : u = Classify(cells[i], P)
  <2>1. \A u : u \in Range(cells) <=> \E i \in 1..Len(cells) : u = cells[i]
    BY <1>1 DEF Range
  <2> QED BY <2>1
<1> HIDE DEF row
<1>3. /\ tree \in Tree /\ tree.mutant = Catalogue[at] /\ Mutated(Original, tree) \in seen
  BY DEF RunInv, Busy, Measuring
<1>4. ASSUME NEW i \in 1..Len(cells)
      PROVE  /\ Sound(Classify(cells[i], P))
             /\ Classify(cells[i], P).mutant = Catalogue[at]
             /\ Classify(cells[i], P).tree = tree
             /\ Classify(cells[i], P).rung = Rungs[i]
  <2>1. cells[i] \in CellRecord /\ cells[i].rung = Rungs[i] /\ cells[i].tree = tree
    BY <1>1
  <2>2. /\ Sound(Classify(cells[i], P))
        /\ Classify(cells[i], P).mutant = cells[i].mutant
        /\ Classify(cells[i], P).tree = cells[i].tree
        /\ Classify(cells[i], P).rung = cells[i].rung
    BY <2>1, ClassifyIsSound
  <2>3. cells[i].mutant = cells[i].tree.mutant
    BY <2>1, CellIs
  <2> QED BY <1>3, <2>1, <2>2, <2>3
<1>5. ASSUME NEW r \in RungSet
      PROVE  \E c \in row : \A d \in row : d.rung = r <=> d = c
  <2>1. PICK i \in 1..Len(cells) : r = Rungs[i]
    BY Constants
  <2>2. \A j \in 1..Len(cells) : Rungs[i] = Rungs[j] => i = j
    BY Constants
  <2>3. Classify(cells[i], P) \in row
    BY <1>2
  <2>4. ASSUME NEW d \in row PROVE d.rung = r <=> d = Classify(cells[i], P)
    <3>1. PICK j \in 1..Len(cells) : d = Classify(cells[j], P)
      BY <1>2
    <3> QED BY <1>4, <2>1, <2>2, <3>1
  <2> QED BY <2>3, <2>4
<1>6. \A c \in row : Sound(c) /\ c.mutant = Catalogue[at] /\ c.tree = tree
  BY <1>2, <1>4
<1> QED BY <1>3, <1>5, <1>6 DEF Returned, Complete, row

\* What a resume takes from the journal, in place of the rungs.
LEMMA ReuseReturned ==
    ASSUME JournalInv, RunInv, pc = "plan",
           NEW t, t = Mutated(Catalogue[at], source), Reusable(t)
    PROVE  Returned({Classify(c, ProbesAt(t)) : c \in UNION {CellsAt(t, r) : r \in RungSet}}, t)
<1> DEFINE P == ProbesAt(t)
           row == {Classify(c, P) : c \in UNION {CellsAt(t, r) : r \in RungSet}}
<1>1. /\ at \in 1..Len(Catalogue) /\ Catalogue[at] \in Range(Catalogue)
      /\ source \in Source /\ source \in seen
  BY Constants DEF RunInv
<1>2. t \in Tree /\ t.mutant = Catalogue[at] /\ Mutated(Original, t) = source
  BY <1>1, MutatedIsATree
<1>3. \A x \in loaded : x \in Record /\ (x.kind = "cell" => x.outcome # "error")
  BY DEF JournalInv
<1>4. P \subseteq ProbeRecord /\ \A p \in P : p.tree = t
  BY <1>3, KindOfRecord DEF ProbesAt
<1>5. \A r \in RungSet : \A c \in CellsAt(t, r) :
          c \in CellRecord /\ c.tree = t /\ c.rung = r /\ c.outcome # "error"
  BY <1>3, KindOfRecord DEF CellsAt
<1>6. \A u : u \in row <=> \E r \in RungSet : \E c \in CellsAt(t, r) : u = Classify(c, P)
  OBVIOUS
<1> HIDE DEF row, P
<1>7. ASSUME NEW r \in RungSet, NEW c \in CellsAt(t, r)
      PROVE  /\ Sound(Classify(c, P)) /\ Classify(c, P).mutant = Catalogue[at]
             /\ Classify(c, P).tree = t /\ Classify(c, P).rung = r
  <2>1. c \in CellRecord /\ c.tree = t /\ c.rung = r
    BY <1>5
  <2>2. /\ Sound(Classify(c, P))
        /\ Classify(c, P).mutant = c.mutant /\ Classify(c, P).tree = c.tree
        /\ Classify(c, P).rung = c.rung
    BY <1>4, <2>1, ClassifyIsSound
  <2>3. c.mutant = c.tree.mutant
    BY <2>1, CellIs
  <2> QED BY <1>2, <2>1, <2>2, <2>3
<1>8. ASSUME NEW r \in RungSet
      PROVE  \E c \in row : \A d \in row : d.rung = r <=> d = c
  <2>1. PICK c \in CellsAt(t, r) : TRUE
    BY DEF Reusable
  <2>2. Classify(c, P) \in row
    BY <1>6, <2>1
  <2>3. ASSUME NEW d \in row PROVE d.rung = r <=> d = Classify(c, P)
    <3>1. PICK s \in RungSet : \E e \in CellsAt(t, s) : d = Classify(e, P)
      BY <1>6
    <3>2. PICK e \in CellsAt(t, s) : d = Classify(e, P)
      BY <3>1
    <3>3. d.rung = s
      BY <1>7, <3>2
    <3>4. Classify(c, P).rung = r
      BY <1>7, <2>1
    <3>5. s = r => e = c
      BY <1>5, <2>1, <3>2, OneCell
    <3> QED BY <3>2, <3>3, <3>4, <3>5
  <2> QED BY <2>2, <2>3
<1>9. \A c \in row : Sound(c) /\ c.mutant = Catalogue[at] /\ c.tree = t
  BY <1>6, <1>7
<1> QED BY <1>1, <1>2, <1>8, <1>9 DEF Returned, Complete, row, P

-----------------------------------------------------------------------------
(* The invariant is inductive: one lemma per action *)

LEMMA JournalStays ==
    ASSUME JournalInv, UNCHANGED <<journal, synced, loaded>>, misled => misled'
    PROVE  JournalInv'
<1>1. Record \subseteq Record' /\ Seq(Line) \subseteq Seq(Line')
  BY RecordsStay
<1>2. \A x : OnFile(x) => OnFile(x)'
  BY DEF OnFile
<1> QED BY <1>1, <1>2 DEF JournalInv

LEMMA TableStays ==
    ASSUME TableInv, UNCHANGED <<report, at>>, seen \subseteq seen', misled => misled'
    PROVE  TableInv'
<1>1. \A c : Sound(c) => Sound(c)'
  BY DEF Sound, Row, Right, Due, Shows, Differs, Mutated, RungSet, Tree
<1>2. \A m : Done(m)' <=> Done(m)
  BY DEF Done
<1>3. RowsAreOfThisRun'
  BY DEF TableInv, RowsAreOfThisRun, Mutated
<1>4. \A m, r : RowsAt(m, r)' = RowsAt(m, r)
  BY DEF RowsAt
<1>5. \A i \in 1..(at' - 1) :
          \/ \E c \in report' : c.mutant = Catalogue[i] /\ c.outcome = "error"
          \/ \A r \in RungSet : \E c \in report' : RowsAt(Catalogue[i], r)' = {c}
  BY <1>4 DEF TableInv
<1>6. (\A c \in report : Sound(c) /\ Done(c.mutant))'
  BY <1>1, <1>2 DEF TableInv
<1> QED BY <1>3, <1>5, <1>6 DEF TableInv, RungSet

\* A mutant is returned with a row.
LEMMA ReportKeeps ==
    ASSUME SweepInv, pc \in Busy \cup {"plan"},
           NEW row, NEW t, Returned(row, t), Report(row),
           UNCHANGED <<source, journal, seen, synced, misled>>
    PROVE  SweepInv'
<1>1. TableInv'
  BY TableGrows DEF SweepInv
<1>2. RunInv' /\ CellsInv' /\ FlushedInv'
  BY GoesOn DEF SweepInv
<1>3. JournalInv'
  BY JournalStays DEF SweepInv, Report
<1> QED BY <1>1, <1>2, <1>3 DEF SweepInv

LEMMA InitKeeps == Init => SweepInv
<1> SUFFICES ASSUME Init PROVE SweepInv
  OBVIOUS
<1>1. JournalInv
  BY DEF Init, JournalInv
<1>2. RunInv
  <2>1. 1 \in 1..(Len(Catalogue) + 1)
    BY Constants
  <2>2. pc = "stopped" /\ at = 1 /\ source \in Source /\ misled = FALSE
    BY DEF Init
  <2> QED BY <2>1, <2>2 DEF RunInv, Busy, Measuring
<1>3. CellsInv
  BY Constants DEF Init, CellsInv, Measuring
<1>4. TableInv
  BY DEF Init, TableInv, RowsAreOfThisRun
<1>5. FlushedInv
  BY DEF Init, FlushedInv
<1> QED BY <1>1, <1>2, <1>3, <1>4, <1>5 DEF SweepInv

LEMMA EditKeeps ==
    ASSUME SweepInv, Edit
    PROVE  SweepInv'
<1> USE DEF SweepInv
<1>1. source' \in Source /\ source' \in seen' /\ seen \subseteq seen'
  BY DEF Edit, RunInv, Source
<1>2. UNCHANGED <<journal, pc, memory, report, synced, misled>>
  BY DEF Edit
<1>3. UNCHANGED <<journal, pc, at, loaded, base, disk, tree, cells, pending, report, synced, misled>>
  BY <1>2 DEF memory
<1>4. JournalInv'
  BY <1>3, JournalStays
<1>5. RunInv'
  BY <1>1, <1>3 DEF RunInv, Busy, Measuring, Source, Tree, Mutated, MustRefuse, Readable
<1>6. CellsInv'
  <2>1. CellRecord' = CellRecord /\ Record \subseteq Record'
    BY <1>3, RecordsStay
  <2> QED BY <1>3, <2>1 DEF CellsInv, Measuring
<1>7. TableInv'
  BY <1>1, <1>3, TableStays
<1>8. FlushedInv'
  BY <1>3 DEF FlushedInv, Done, Busy
<1> QED BY <1>4, <1>5, <1>6, <1>7, <1>8

LEMMA StartKeeps ==
    ASSUME SweepInv, NEW resume \in BOOLEAN, Start(resume)
    PROVE  SweepInv'
<1> USE DEF SweepInv
<1>1. /\ pc \in {"stopped", "refused", "done"}
      /\ journal' = IF resume THEN journal ELSE << >>
      /\ synced' = IF resume THEN synced ELSE {}
      /\ pc' = IF resume /\ MustRefuse THEN "refused" ELSE "plan"
      /\ loaded' = IF resume THEN {r \in Records : r.kind = "cell" => r.outcome # "error"} ELSE {}
      /\ at' = 1 /\ report' = {} /\ seen' = {source}
      /\ UNCHANGED <<base, disk, tree, cells, pending, source, misled>>
  BY DEF Start
<1>2. /\ CellRecord' = CellRecord /\ Record \subseteq Record'
      /\ Seq(Line) \subseteq Seq(Line')
  BY <1>1, RecordsStay
<1>3. Records \subseteq Record /\ (~MustRefuse => \A x \in Record : OnFile(x) => x \in Records)
  BY RecordsAre DEF JournalInv
<1>4. JournalInv'
  <2>1. journal' \in Seq(Line')
    BY <1>1, <1>2 DEF JournalInv
  <2>2. synced' \subseteq Record' /\ \A x \in synced' : OnFile(x)'
    BY <1>1, <1>2 DEF JournalInv, OnFile
  <2>3. loaded' \subseteq Record' /\ \A c \in loaded' : c.kind = "cell" => c.outcome # "error"
    BY <1>1, <1>2, <1>3
  <2> QED BY <2>1, <2>2, <2>3 DEF JournalInv
<1>5. RunInv'
  <2>1. 1 \in 1..Len(Catalogue) /\ 1 \in 1..(Len(Catalogue) + 1)
    BY Constants
  <2>2. pc' = "refused" => MustRefuse'
    BY <1>1 DEF MustRefuse, Readable
  <2>3. pc' \in {"refused", "plan"}
    BY <1>1
  <2>4. at' = 1 /\ source' = source /\ seen' = {source} /\ misled' = misled
    BY <1>1
  <2>5. source \in Source /\ misled \in BOOLEAN
    BY DEF RunInv
  <2> QED BY <2>1, <2>2, <2>3, <2>4, <2>5 DEF RunInv, Busy, Measuring, Source
<1>6. CellsInv'
  <2>1. cells = << >>
    BY <1>1 DEF CellsInv, Measuring
  <2>2. pc' \in {"refused", "plan"}
    BY <1>1
  <2>3. cells' = << >> /\ cells' \in Seq(CellRecord') /\ Len(cells') = 0
    BY <1>1, <2>1
  <2>4. Len(cells') <= Len(Rungs)
    BY <2>3, Constants
  <2> QED BY <2>2, <2>3, <2>4 DEF CellsInv, Measuring
<1>7. TableInv'
  BY <1>1 DEF TableInv, RowsAreOfThisRun
<1>8. FlushedInv'
  <2> SUFFICES ASSUME pc' = "plan", NEW c \in synced', c.kind = "cell", c.outcome # "error"
               PROVE  c \in loaded'
    BY <1>1 DEF FlushedInv, Busy
  <2>1. resume /\ ~MustRefuse /\ c \in synced
    BY <1>1
  <2>2. c \in Record /\ OnFile(c)
    BY <2>1 DEF JournalInv
  <2> QED BY <1>1, <1>3, <2>1, <2>2
<1> QED BY <1>4, <1>5, <1>6, <1>7, <1>8

LEMMA TruncateKeeps ==
    ASSUME SweepInv, Truncate
    PROVE  SweepInv'
<1> USE DEF SweepInv
<1>1. pc = "refused" /\ pc' = "stopped" /\ MustRefuse
  BY DEF Truncate, RunInv
<1>2. UNCHANGED <<source, at, loaded, base, disk, tree, cells, pending, report, seen, misled>>
  BY DEF Truncate, memory
<1> DEFINE bad == CHOOSE i \in DOMAIN journal :
                    ~Readable(journal[i]) /\ \A k \in 1..(i - 1) : Readable(journal[k])
           kept == SubSeq(journal, 1, bad - 1)
<1>3. journal' = kept /\ synced' = synced \cap {l.text[1] : l \in Range(kept)}
  BY DEF Truncate
<1>4. bad \in DOMAIN journal /\ \A k \in 1..(bad - 1) : Readable(journal[k])
  BY <1>1, FirstUnreadable DEF JournalInv
<1>5. /\ Len(journal) \in Nat /\ DOMAIN journal = 1..Len(journal)
      /\ \A i \in 1..Len(journal) : journal[i] \in Line
  BY JournalIs DEF JournalInv
<1> HIDE DEF bad
<1>6. /\ kept \in Seq(Line) /\ Len(kept) = bad - 1 /\ DOMAIN kept = 1..(bad - 1)
      /\ \A i \in 1..(bad - 1) : kept[i] = journal[i]
  <2>1. kept = [i \in 1..(bad - 1) |-> journal[i]] /\ bad - 1 \in Nat /\ bad - 1 <= Len(journal)
    BY <1>4, <1>5
  <2>2. \A i \in 1..(bad - 1) : journal[i] \in Line
    BY <1>4, <1>5
  <2> HIDE DEF kept
  <2>3. \A s : s = [i \in 1..(bad - 1) |-> journal[i]] =>
              /\ s \in Seq(Line) /\ Len(s) = bad - 1 /\ DOMAIN s = 1..(bad - 1)
              /\ \A i \in 1..(bad - 1) : s[i] = journal[i]
    BY <2>1, <2>2
  <2> QED BY <2>1, <2>3
<1> HIDE DEF kept
<1>7. Record' = Record /\ Line' = Line /\ CellRecord' = CellRecord
  <2>1. CellRecord' = CellRecord
    BY <1>2, RecordsStay
  <2>2. ProbeRecord' = ProbeRecord
    BY <1>2 DEF ProbeRecord, Shows, Differs, Mutated, Tree
  <2>3. Record' = Record
    BY <2>1, <2>2 DEF Record
  <2>4. Piece' = Piece
    BY <2>3 DEF Piece, Torn
  <2> QED BY <2>1, <2>3, <2>4 DEF Line
<1>8. ASSUME NEW x \in synced' PROVE OnFile(x)'
  <2>1. PICK l \in Range(kept) : x = l.text[1]
    BY <1>3
  <2>2. PICK i \in 1..(bad - 1) : l = kept[i]
    BY <1>6, <2>1 DEF Range
  <2>3. Len(journal'[i].text) = 1
    BY <1>3, <1>4, <1>6, <2>2 DEF Readable
  <2>4. i \in 1..Len(journal') /\ 1 \in 1..Len(journal'[i].text) /\ journal'[i].text[1] = x
    BY <1>3, <1>6, <2>1, <2>2, <2>3
  <2> QED BY <2>4 DEF OnFile
<1>9. JournalInv'
  <2>1. journal' \in Seq(Line')
    BY <1>3, <1>6, <1>7
  <2>2. synced' \subseteq Record' /\ loaded' \subseteq Record'
    BY <1>2, <1>3, <1>7 DEF JournalInv
  <2>3. \A c \in loaded' : c.kind = "cell" => c.outcome # "error"
    BY <1>2 DEF JournalInv
  <2> QED BY <1>8, <2>1, <2>2, <2>3 DEF JournalInv
<1>10. RunInv'
  BY <1>1, <1>2 DEF RunInv, Busy, Measuring, Source
<1>11. CellsInv'
  BY <1>1, <1>2, <1>7 DEF CellsInv, Measuring
<1>12. TableInv'
  BY <1>2, TableStays
<1>13. FlushedInv'
  BY <1>1 DEF FlushedInv, Busy
<1> QED BY <1>9, <1>10, <1>11, <1>12, <1>13

LEMMA PlanKeeps ==
    ASSUME SweepInv, Plan
    PROVE  SweepInv'
<1> DEFINE m == Catalogue[at]
           t == Mutated(m, source)
<1>1. pc = "plan" /\ UNCHANGED <<source, journal, seen, synced, misled>>
  BY DEF Plan
<1>2. /\ at \in 1..Len(Catalogue) /\ m \in Range(Catalogue)
      /\ source \in Source /\ source \in seen
  BY <1>1, Constants DEF SweepInv, RunInv
<1>3. CASE ~Anchored(m)
  <2>1. Report({ErrCell(m, Blank)})
    BY <1>3 DEF Plan
  <2>2. Returned({ErrCell(m, Blank)}, Blank)
    BY <1>1, ErrCellReturned DEF SweepInv
  <2> QED BY <1>1, <2>1, <2>2, ReportKeeps
<1>4. CASE Anchored(m) /\ Reusable(t)
  <2> DEFINE row == {Classify(c, ProbesAt(t)) : c \in UNION {CellsAt(t, r) : r \in RungSet}}
  <2>1. Report(row)
    BY <1>4 DEF Plan
  <2>2. Returned(row, t)
    BY <1>1, <1>4, ReuseReturned DEF SweepInv
  <2> HIDE DEF row
  <2> QED BY <1>1, <2>1, <2>2, ReportKeeps
<1>5. CASE Anchored(m) /\ ~Reusable(t)
  <2>1. /\ tree' = t /\ pc' = "apply"
        /\ UNCHANGED <<at, loaded, base, disk, cells, pending, report>>
    BY <1>5 DEF Plan
  <2>2. t \in Tree /\ t.mutant = m /\ Mutated(Original, t) = source
    BY <1>2, MutatedIsATree
  <2>3. JournalInv'
    BY <1>1, <2>1, JournalStays DEF SweepInv
  <2>4. RunInv'
    <3>1. tree' \in Tree /\ tree'.mutant = Catalogue[at'] /\ Mutated(Original, tree') \in seen'
      BY <1>1, <1>2, <2>1, <2>2
    <3>2. at' \in 1..Len(Catalogue) /\ source' \in seen' /\ source' \in Source
          /\ misled' \in BOOLEAN
      BY <1>1, <1>2, <2>1 DEF SweepInv, RunInv
    <3>3. at' \in 1..(Len(Catalogue) + 1)
      BY <1>2, <2>1, Constants
    <3> QED BY <2>1, <3>1, <3>2, <3>3 DEF RunInv, Busy, Measuring, Source, Tree, Mutated
  <2>5. CellsInv'
    <3>1. cells' = << >> /\ CellRecord' = CellRecord
      BY <1>1, <2>1, RecordsStay DEF SweepInv, CellsInv, Measuring
    <3>2. cells' \in Seq(CellRecord') /\ Len(cells') = 0 /\ Len(cells') <= Len(Rungs)
      BY <3>1, Constants
    <3> QED BY <2>1, <3>1, <3>2 DEF CellsInv, Measuring
  <2>6. TableInv'
    BY <1>1, <2>1, TableStays DEF SweepInv
  <2>7. FlushedInv'
    BY <1>1, <2>1 DEF SweepInv, FlushedInv, Done
  <2> QED BY <2>3, <2>4, <2>5, <2>6, <2>7 DEF SweepInv
<1> QED BY <1>3, <1>4, <1>5

LEMMA LoadTreeKeeps ==
    ASSUME SweepInv, LoadTree
    PROVE  SweepInv'
<1>1. pc = "apply" /\ UNCHANGED <<source, journal, seen, synced, misled>>
  BY DEF LoadTree
<1>2. /\ tree \in Tree /\ Mutated(Original, tree) \in seen
      /\ at \in 1..Len(Catalogue) /\ source \in Source /\ source \in seen
      /\ tree.mutant = Catalogue[at] /\ misled \in BOOLEAN
  BY <1>1 DEF SweepInv, RunInv, Busy, Measuring
<1>3. CASE Report({ErrCell(Catalogue[at], tree)})
  <2>1. Returned({ErrCell(Catalogue[at], tree)}, tree)
    BY <1>1, <1>2, ErrCellReturned DEF SweepInv, Busy
  <2> QED BY <1>1, <1>3, <2>1, ReportKeeps DEF Busy
<1>4. CASE /\ base' = source
           /\ pc' = "copy"
           /\ UNCHANGED <<at, loaded, disk, tree, cells, pending, report>>
  <2>1. JournalInv'
    BY <1>1, <1>4, JournalStays DEF SweepInv
  <2>2. RunInv'
    <3>1. at' \in 1..(Len(Catalogue) + 1)
      BY <1>2, <1>4, Constants
    <3>2. Mutated(Original, tree') \in seen'
      BY <1>1, <1>2, <1>4
    <3>3. at' \in 1..Len(Catalogue) /\ tree' \in Tree /\ tree'.mutant = Catalogue[at']
          /\ source' \in Source /\ source' \in seen' /\ base' \in Source /\ base' \in seen'
          /\ misled' \in BOOLEAN
      BY <1>1, <1>2, <1>4
    <3> QED BY <1>4, <3>1, <3>2, <3>3 DEF RunInv, Busy, Measuring, Source, Tree, Mutated
  <2>3. CellsInv'
    <3>1. cells' = << >> /\ CellRecord' = CellRecord
      BY <1>1, <1>4, RecordsStay DEF SweepInv, CellsInv, Measuring
    <3>2. cells' \in Seq(CellRecord') /\ Len(cells') = 0 /\ Len(cells') <= Len(Rungs)
      BY <3>1, Constants
    <3> QED BY <1>4, <3>1, <3>2 DEF CellsInv, Measuring
  <2>4. TableInv'
    BY <1>1, <1>4, TableStays DEF SweepInv
  <2>5. FlushedInv'
    BY <1>1, <1>4 DEF SweepInv, FlushedInv, Done, Busy
  <2> QED BY <2>1, <2>2, <2>3, <2>4, <2>5 DEF SweepInv
<1> QED BY <1>3, <1>4 DEF LoadTree

LEMMA CopyTreeKeeps ==
    ASSUME SweepInv, CopyTree
    PROVE  SweepInv'
<1> DEFINE m == Catalogue[at]
           copy == [Mutated(m, source) EXCEPT !.code = base.code]
<1>1. pc = "copy" /\ UNCHANGED <<source, journal, seen, synced, misled>>
  BY DEF CopyTree
<1>2. /\ tree \in Tree /\ Mutated(Original, tree) \in seen
      /\ at \in 1..Len(Catalogue) /\ source \in Source /\ source \in seen
      /\ base \in Source /\ base \in seen /\ misled \in BOOLEAN
  BY <1>1 DEF SweepInv, RunInv, Busy, Measuring
<1>3. CASE copy # Mutated(m, base) \/ ~Guarded(m, copy)
  <2>1. Report({ErrCell(m, tree)})
    BY <1>3 DEF CopyTree
  <2>2. Returned({ErrCell(m, tree)}, tree)
    BY <1>1, <1>2, ErrCellReturned DEF SweepInv, Busy
  <2> QED BY <1>1, <2>1, <2>2, ReportKeeps DEF Busy
<1>4. CASE copy = Mutated(m, base) /\ Guarded(m, copy)
  <2>1. /\ disk' = copy /\ tree' = copy /\ pc' = "rung"
        /\ UNCHANGED <<at, loaded, base, cells, pending, report>>
    BY <1>4 DEF CopyTree, Address
  <2>2. m \in Range(Catalogue)
    BY <1>2, Constants
  <2>3. copy \in Tree /\ copy.mutant = m /\ Mutated(Original, copy) = base
    BY <1>2, <1>4, <2>2, MutatedIsATree
  <2> HIDE DEF copy
  <2>4. JournalInv'
    BY <1>1, <2>1, JournalStays DEF SweepInv
  <2>5. RunInv'
    <3>1. at' \in 1..(Len(Catalogue) + 1)
      BY <1>2, <2>1, Constants
    <3>2. Mutated(Original, tree') \in seen'
      BY <1>1, <1>2, <2>1, <2>3
    <3>3. at' \in 1..Len(Catalogue) /\ tree' \in Tree /\ tree'.mutant = Catalogue[at']
          /\ source' \in Source /\ source' \in seen' /\ misled' \in BOOLEAN /\ disk' = tree'
      BY <1>1, <1>2, <2>1, <2>3
    <3> QED BY <2>1, <3>1, <3>2, <3>3 DEF RunInv, Busy, Measuring, Source, Tree, Mutated
  <2>6. CellsInv'
    <3>1. cells' = << >> /\ CellRecord' = CellRecord
      BY <1>1, <2>1, RecordsStay DEF SweepInv, CellsInv, Measuring
    <3>2. cells' \in Seq(CellRecord') /\ Len(cells') = 0 /\ Len(cells') <= Len(Rungs)
      BY <3>1, Constants
    <3> QED BY <2>1, <3>1, <3>2 DEF CellsInv, Measuring
  <2>7. TableInv'
    BY <1>1, <2>1, TableStays DEF SweepInv
  <2>8. FlushedInv'
    BY <1>1, <2>1 DEF SweepInv, FlushedInv, Done, Busy
  <2> QED BY <2>4, <2>5, <2>6, <2>7, <2>8 DEF SweepInv
<1> QED BY <1>3, <1>4

\* A cell more: the next rung's.
LEMMA CellAppended ==
    ASSUME CellsInv, Len(cells) < Len(Rungs),
           NEW c \in CellRecord, c.tree = tree, c.rung = Rungs[Len(cells) + 1],
           pc' = "rung", cells' = Append(cells, c), tree' = tree, misled' = misled
    PROVE  /\ CellsInv'
           /\ Len(cells') = Len(cells) + 1 /\ cells'[Len(cells) + 1] = c
           /\ \A i \in 1..Len(cells) : cells'[i] = cells[i]
           /\ Len(cells) \in Nat
<1>1. Len(Rungs) \in Nat /\ CellRecord' = CellRecord
  BY Constants, RecordsStay
<1>2. /\ cells \in Seq(CellRecord) /\ Len(cells) \in Nat
      /\ \A i \in 1..Len(cells) : cells[i].rung = Rungs[i] /\ cells[i].tree = tree
  BY DEF CellsInv
<1>3. /\ cells' \in Seq(CellRecord) /\ Len(cells') = Len(cells) + 1
      /\ cells'[Len(cells) + 1] = c
      /\ \A i \in 1..Len(cells) : cells'[i] = cells[i]
  BY <1>2
<1>4. \A i \in 1..Len(cells') : cells'[i].rung = Rungs[i] /\ cells'[i].tree = tree'
  BY <1>2, <1>3
<1>5. cells' \in Seq(CellRecord') /\ Len(cells') <= Len(Rungs)
  BY <1>1, <1>2, <1>3
<1>6. CellsInv'
  BY <1>4, <1>5 DEF CellsInv, Measuring
<1> QED BY <1>2, <1>3, <1>6

LEMMA RungKeeps ==
    ASSUME SweepInv, Rung
    PROVE  SweepInv'
<1> DEFINE r == Rungs[Len(cells) + 1]
<1>1. /\ pc = "rung" /\ Len(cells) < Len(Rungs)
      /\ UNCHANGED <<source, journal, at, loaded, base, disk, tree, report, seen, synced, misled>>
  BY DEF Rung
<1>2. /\ tree \in Tree /\ Mutated(Original, tree) \in seen
      /\ at \in 1..Len(Catalogue) /\ source \in Source /\ source \in seen
      /\ tree.mutant = Catalogue[at] /\ misled \in BOOLEAN /\ disk = tree
  BY <1>1 DEF SweepInv, RunInv, Busy, Measuring
<1>3. /\ Len(cells) \in Nat /\ Len(Rungs) \in Nat /\ cells \in Seq(CellRecord)
      /\ \A i \in 1..Len(cells) : cells[i].rung = Rungs[i] /\ cells[i].tree = tree
  BY Constants DEF SweepInv, CellsInv
<1>4. r \in RungSet
  BY <1>1, <1>3, Constants
<1>5. JournalInv' /\ TableInv'
  BY <1>1, JournalStays, TableStays DEF SweepInv
<1>6. ASSUME pc' \in {"rung", "write"} PROVE RunInv'
  <2>1. at' \in 1..(Len(Catalogue) + 1)
    BY <1>1, <1>2, Constants
  <2>2. Mutated(Original, tree') \in seen'
    BY <1>1, <1>2
  <2>3. at' \in 1..Len(Catalogue) /\ tree' \in Tree /\ tree'.mutant = Catalogue[at']
        /\ source' \in Source /\ source' \in seen' /\ misled' \in BOOLEAN /\ disk' = tree'
    BY <1>1, <1>2
  <2> QED BY <1>6, <2>1, <2>2, <2>3 DEF RunInv, Busy, Measuring, Source, Tree, Mutated
<1>7. CASE CellsAt(tree, r) # {}
  <2>1. PICK c \in CellsAt(tree, r) : cells' = Append(cells, c)
    BY <1>7 DEF Rung
  <2>2. pc' = "rung"
    BY <1>1, <1>7 DEF Rung
  <2>3. c \in CellRecord /\ c.tree = tree /\ c.rung = r
    BY <2>1, KindOfRecord DEF CellsAt, SweepInv, JournalInv
  <2>4. /\ CellsInv' /\ Len(cells') = Len(cells) + 1
        /\ \A i \in 1..Len(cells) : cells'[i] = cells[i]
    BY <1>1, <2>1, <2>2, <2>3, CellAppended DEF SweepInv
  <2>5. FlushedInv'
    <3> SUFFICES ASSUME NEW d \in synced', d.kind = "cell", d.outcome # "error"
                 PROVE  d \in loaded' \/ Done(d.mutant)' \/ \E j \in 1..Len(cells') : d = cells'[j]
      BY DEF FlushedInv
    <3>1. d \in loaded \/ Done(d.mutant) \/ \E j \in 1..Len(cells) : d = cells[j]
      BY <1>1 DEF SweepInv, FlushedInv, Busy
    <3>2. \A j \in 1..Len(cells) : j \in 1..Len(cells') /\ cells'[j] = cells[j]
      BY <1>3, <2>4
    <3> QED BY <1>1, <3>1, <3>2 DEF Done
  <2> QED BY <1>5, <1>6, <2>2, <2>4, <2>5 DEF SweepInv
<1>8. CASE CellsAt(tree, r) = {}
  <2>1. PICK n \in 0..1 : pending' = Cell(tree, r, IF n = 1 THEN "error" ELSE Verdict(r, disk))
    BY <1>8 DEF Rung
  <2>2. pc' = "write" /\ cells' = cells
    BY <1>8 DEF Rung
  <2>3. PICK o \in Measured : /\ pending' = Cell(tree, r, o)
                              /\ o # "error" => (o = "killed") = Kills(r, tree)
    <3>1. Kills(r, tree) \in BOOLEAN
      BY <1>2, <1>4, CalibrationAssumption
    <3>2. /\ Verdict(r, disk) \in Measured
          /\ (Verdict(r, disk) = "killed") = Kills(r, tree)
      BY <1>2, <3>1 DEF Verdict, Measured
    <3>3. CASE n = 1
      BY <2>1, <3>3 DEF Measured
    <3>4. CASE n # 1
      BY <2>1, <3>2, <3>4
    <3> QED BY <3>3, <3>4
  <2>4. /\ pending'.kind = "cell" /\ pending'.tree = tree /\ pending'.rung = r
        /\ pending' \in CellRecord
    <3>1. tree.mutant \in Range(Catalogue)
      BY <1>2, Constants
    <3> DEFINE c == [kind |-> "cell", mutant |-> tree.mutant, tree |-> tree, rung |-> r,
                     outcome |-> o]
    <3>2. pending' = c
      BY <2>3 DEF Cell
    <3>3. Right(c)
      BY <2>3 DEF Right
    <3>4. c \in CellRecord
      BY <1>2, <1>4, <3>1, <3>3 DEF CellRecord
    <3> QED BY <3>2, <3>4
  <2>5. CellsInv'
    <3>1. CellRecord' = CellRecord /\ Record \subseteq Record'
      BY <1>1, RecordsStay
    <3>2. pending' \in Record'
      BY <2>4, <3>1 DEF Record
    <3>3. /\ cells' \in Seq(CellRecord') /\ Len(cells') < Len(Rungs)
          /\ \A i \in 1..Len(cells') : cells'[i].rung = Rungs[i] /\ cells'[i].tree = tree'
      BY <1>1, <1>3, <2>2, <3>1
    <3>4. Len(cells') <= Len(Rungs)
      BY <1>1, <1>3, <2>2
    <3>5. pending'.tree = tree' /\ pending'.rung = Rungs[Len(cells') + 1]
      BY <1>1, <2>2, <2>4
    <3> QED BY <2>2, <2>4, <3>2, <3>3, <3>4, <3>5 DEF CellsInv, Measuring
  <2>6. FlushedInv'
    BY <1>1, <2>2 DEF SweepInv, FlushedInv, Busy, Done
  <2> QED BY <1>5, <1>6, <2>2, <2>5, <2>6 DEF SweepInv
<1> QED BY <1>7, <1>8

LEMMA WriteKeeps ==
    ASSUME SweepInv, Write
    PROVE  SweepInv'
<1>1. /\ pc = "write" /\ journal' = Appended(pending, TRUE)
      /\ synced' = synced \cup {pending}
      /\ UNCHANGED <<source, seen, misled>>
  BY DEF Write
<1>2. pending \in Record /\ pending.tree = tree
  BY <1>1 DEF SweepInv, CellsInv
<1>3. loaded' = loaded
  BY DEF Write, Report
<1>4. JournalInv'
  <2>1. Record \subseteq Record' /\ Seq(Line) \subseteq Seq(Line')
    BY <1>1, RecordsStay
  <2>2. pending \in Piece
    BY <1>2 DEF Piece
  <2>3. /\ journal' \in Seq(Line)
        /\ \E i \in 1..Len(journal') : \E k \in 1..Len(journal'[i].text) :
              journal'[i].text[k] = pending
        /\ \A x : OnFile(x) => OnFile(x)'
    <3>1. journal \in Seq(Line) /\ TRUE \in BOOLEAN
      BY DEF SweepInv, JournalInv
    <3> QED BY <1>1, <2>2, <3>1, AppendedKeeps
  <2>4. \A x \in synced' : OnFile(x)'
    <3>1. \A x \in synced : OnFile(x)'
      BY <2>3 DEF SweepInv, JournalInv
    <3>2. \A x : x = pending => OnFile(x)'
      BY <2>3 DEF OnFile
    <3> QED BY <1>1, <3>1, <3>2
  <2>5. synced' \subseteq Record' /\ loaded' \subseteq Record'
    BY <1>1, <1>2, <1>3, <2>1 DEF SweepInv, JournalInv
  <2>6. \A c \in loaded' : c.kind = "cell" => c.outcome # "error"
    BY <1>3 DEF SweepInv, JournalInv
  <2> QED BY <2>1, <2>3, <2>4, <2>5, <2>6 DEF JournalInv
<1>5. CASE pending.kind = "cell"
  <2>1. /\ cells' = Append(cells, pending) /\ pc' = "rung"
        /\ UNCHANGED <<at, base, disk, tree, report>>
    BY <1>5 DEF Write
  <2>2. /\ pending \in CellRecord /\ Len(cells) < Len(Rungs)
        /\ pending.rung = Rungs[Len(cells) + 1]
    BY <1>1, <1>2, <1>5, KindOfRecord DEF SweepInv, CellsInv
  <2>3. /\ CellsInv' /\ Len(cells') = Len(cells) + 1 /\ cells'[Len(cells) + 1] = pending
        /\ \A i \in 1..Len(cells) : cells'[i] = cells[i]
        /\ Len(cells) \in Nat
    BY <1>1, <1>2, <2>1, <2>2, CellAppended DEF SweepInv
  <2>4. RunInv'
    <3>1. /\ tree \in Tree /\ Mutated(Original, tree) \in seen
          /\ at \in 1..Len(Catalogue) /\ source \in Source /\ source \in seen
          /\ tree.mutant = Catalogue[at] /\ misled \in BOOLEAN /\ disk = tree
      BY <1>1 DEF SweepInv, RunInv, Busy, Measuring
    <3>2. at' \in 1..(Len(Catalogue) + 1)
      BY <2>1, <3>1, Constants
    <3>3. Mutated(Original, tree') \in seen'
      BY <1>1, <2>1, <3>1
    <3>4. at' \in 1..Len(Catalogue) /\ tree' \in Tree /\ tree'.mutant = Catalogue[at']
          /\ source' \in Source /\ source' \in seen' /\ misled' \in BOOLEAN /\ disk' = tree'
      BY <1>1, <2>1, <3>1
    <3> QED BY <2>1, <3>2, <3>3, <3>4 DEF RunInv, Busy, Measuring, Source, Tree, Mutated
  <2>5. TableInv'
    BY <1>1, <2>1, TableStays DEF SweepInv
  <2>6. FlushedInv'
    <3> SUFFICES ASSUME NEW d \in synced', d.kind = "cell", d.outcome # "error"
                 PROVE  d \in loaded' \/ Done(d.mutant)' \/ \E j \in 1..Len(cells') : d = cells'[j]
      BY DEF FlushedInv
    <3>1. CASE d \in synced
      <4>1. d \in loaded \/ Done(d.mutant) \/ \E j \in 1..Len(cells) : d = cells[j]
        BY <1>1, <3>1 DEF SweepInv, FlushedInv, Busy
      <4>2. \A j \in 1..Len(cells) : j \in 1..Len(cells') /\ cells'[j] = cells[j]
        BY <2>3
      <4> QED BY <1>3, <2>1, <4>1, <4>2 DEF Done
    <3>2. CASE d = pending
      <4>1. Len(cells) + 1 \in 1..Len(cells')
        BY <2>3
      <4> QED BY <2>3, <3>2, <4>1
    <3> QED BY <1>1, <3>1, <3>2
  <2> QED BY <1>4, <2>3, <2>4, <2>5, <2>6 DEF SweepInv
<1>6. CASE pending.kind # "cell"
  <2> DEFINE row == {Classify(c, {pending}) : c \in Range(cells)}
  <2>1. Report(row)
    BY <1>6 DEF Write
  <2>2. pending \in ProbeRecord /\ pending.kind = "probe"
    BY <1>2, <1>6, KindOfRecord
  <2>3. Len(cells) = Len(Rungs)
    BY <1>1, <2>2 DEF SweepInv, CellsInv
  <2>4. Returned(row, tree)
    <3>1. {pending} \subseteq ProbeRecord /\ \A p \in {pending} : p.tree = tree
      BY <1>2, <2>2
    <3> QED BY <1>1, <2>3, <3>1, CellsReturned DEF SweepInv, Measuring
  <2> HIDE DEF row
  <2>5. TableInv'
    BY <1>1, <2>1, <2>4, TableGrows DEF SweepInv, Busy
  <2>6. \A c \in synced' : c.kind = "cell" => c \in synced
    BY <1>1, <1>6
  <2>7. RunInv' /\ CellsInv' /\ FlushedInv'
    BY <1>1, <2>1, <2>6, GoesOn DEF SweepInv, Busy
  <2> QED BY <1>4, <2>5, <2>7 DEF SweepInv
<1> QED BY <1>5, <1>6

\* A step inside a mutant that leaves its cells and what the run knows alone.
LEMMA MeasuringStays ==
    ASSUME SweepInv, pc \in {"rung", "baseline", "probe"},
           Len(cells) = Len(Rungs),
           UNCHANGED <<source, journal, at, loaded, tree, cells, report, seen, synced>>,
           misled => misled', misled' \in BOOLEAN, disk' = disk,
           \/ pc' \in {"baseline", "probe"}
           \/ pc' = "write" /\ pending' \in ProbeRecord' /\ pending'.tree = tree
    PROVE  SweepInv'
<1>1. JournalInv' /\ TableInv'
  BY JournalStays, TableStays DEF SweepInv
<1>2. RunInv'
  <2>1. /\ tree \in Tree /\ Mutated(Original, tree) \in seen
        /\ at \in 1..Len(Catalogue) /\ source \in Source /\ source \in seen
        /\ tree.mutant = Catalogue[at] /\ disk = tree
    BY DEF SweepInv, RunInv, Busy, Measuring
  <2>2. at' \in 1..(Len(Catalogue) + 1)
    BY <2>1, Constants
  <2>3. Mutated(Original, tree') \in seen'
    BY <2>1
  <2>4. at' \in 1..Len(Catalogue) /\ tree' \in Tree /\ tree'.mutant = Catalogue[at']
        /\ source' \in Source /\ source' \in seen' /\ disk' = tree'
    BY <2>1
  <2>5. pc' \in {"baseline", "probe", "write"}
    OBVIOUS
  <2> QED BY <2>2, <2>3, <2>4, <2>5 DEF RunInv, Busy, Measuring, Source, Tree, Mutated
<1>3. CellsInv'
  <2>1. CellRecord' = CellRecord
    BY RecordsStay
  <2>2. /\ cells' \in Seq(CellRecord') /\ Len(cells') = Len(Rungs) /\ Len(Rungs) \in Nat
        /\ \A i \in 1..Len(cells') : cells'[i].rung = Rungs[i] /\ cells'[i].tree = tree'
    BY <2>1, Constants DEF SweepInv, CellsInv
  <2>3. pc' = "write" => /\ pending' \in Record' /\ pending'.tree = tree'
                         /\ pending'.kind = "probe"
    <3>1. SUFFICES ASSUME pc' = "write"
                   PROVE  pending' \in Record' /\ pending'.tree = tree' /\ pending'.kind = "probe"
      OBVIOUS
    <3>2. pending' \in ProbeRecord' /\ pending'.tree = tree'
      BY <3>1
    <3>3. pending'.kind = "probe"
      BY <3>2 DEF ProbeRecord
    <3> QED BY <3>2, <3>3 DEF Record
  <2>4. pc' \in {"baseline", "probe", "write"}
    OBVIOUS
  <2> QED BY <2>2, <2>3, <2>4 DEF CellsInv, Measuring
<1>4. FlushedInv'
  BY DEF SweepInv, FlushedInv, Done, Busy
<1> QED BY <1>1, <1>2, <1>3, <1>4 DEF SweepInv

LEMMA JudgeKeeps ==
    ASSUME SweepInv, Judge
    PROVE  SweepInv'
<1>1. /\ pc = "rung" /\ Len(cells) = Len(Rungs)
      /\ UNCHANGED <<source, journal, seen, synced, misled>>
  BY DEF Judge
<1>2. CASE ProbesAt(tree) # {} \/ \A c \in Range(cells) : c.outcome # "survived?"
  <2> DEFINE row == {Classify(c, ProbesAt(tree)) : c \in Range(cells)}
  <2>1. Report(row)
    BY <1>2 DEF Judge
  <2>2. ProbesAt(tree) \subseteq ProbeRecord /\ \A p \in ProbesAt(tree) : p.tree = tree
    BY KindOfRecord DEF ProbesAt, SweepInv, JournalInv
  <2>3. Returned(row, tree)
    BY <1>1, <2>2, CellsReturned DEF SweepInv, Measuring
  <2> HIDE DEF row
  <2> QED BY <1>1, <2>1, <2>3, ReportKeeps DEF Busy
<1>3. CASE ~(ProbesAt(tree) # {} \/ \A c \in Range(cells) : c.outcome # "survived?")
  <2>1. pc' = "baseline" /\ UNCHANGED <<at, loaded, disk, tree, cells, report>>
    BY <1>3 DEF Judge, memory
  <2>2. misled' = misled /\ misled \in BOOLEAN
    BY <1>1 DEF SweepInv, RunInv
  <2> QED BY <1>1, <2>1, <2>2, MeasuringStays
<1> QED BY <1>2, <1>3

LEMMA CompileBaselineKeeps ==
    ASSUME SweepInv, CompileBaseline
    PROVE  SweepInv'
<1>1. /\ pc = "baseline" /\ pc' = "probe"
      /\ UNCHANGED <<source, journal, at, loaded, disk, tree, cells, report, seen, synced, misled>>
  BY DEF CompileBaseline
<1>2. Len(cells) = Len(Rungs) /\ misled \in BOOLEAN
  BY <1>1 DEF SweepInv, CellsInv, RunInv
<1> QED BY <1>1, <1>2, MeasuringStays

LEMMA RunProbeKeeps ==
    ASSUME SweepInv, RunProbe
    PROVE  SweepInv'
<1>1. pc = "probe" /\ UNCHANGED <<source, journal, seen, synced>>
  BY DEF RunProbe
<1>2. Len(cells) = Len(Rungs) /\ misled \in BOOLEAN
  BY <1>1 DEF SweepInv, CellsInv, RunInv
<1>3. CASE Unprobed /\ UNCHANGED misled
  <2> DEFINE row == {Classify(c, {}) : c \in Range(cells)}
  <2>1. row = Range(cells)
    BY DEF Classify
  <2>2. Report(row)
    BY <1>3, <2>1 DEF Unprobed
  <2>3. Returned(row, tree)
    BY <1>1, <1>2, CellsReturned DEF SweepInv, Measuring
  <2> HIDE DEF row
  <2> QED BY <1>1, <1>3, <2>2, <2>3, ReportKeeps DEF Busy
<1>4. CASE /\ \E unstarted, unanswered \in SUBSET Inputs :
                 LET t == Mutated(Catalogue[at], source)
                     reached == (Differs(base, t) \ unstarted) \cup (unanswered \ unstarted)
                 IN /\ Fault(Cardinality(unstarted \cup unanswered))
                    /\ pending' = Probe(tree, reached)
                    /\ misled' = (misled \/ reached # Shows(tree))
           /\ pc' = "write"
           /\ UNCHANGED <<at, loaded, base, disk, tree, cells, report>>
  <2>1. PICK reached \in SUBSET Inputs :
            pending' = Probe(tree, reached) /\ misled' = (misled \/ reached # Shows(tree))
    <3>1. PICK unstarted \in SUBSET Inputs, unanswered \in SUBSET Inputs :
              LET t == Mutated(Catalogue[at], source)
                  reached == (Differs(base, t) \ unstarted) \cup (unanswered \ unstarted)
              IN /\ pending' = Probe(tree, reached)
                 /\ misled' = (misled \/ reached # Shows(tree))
      BY <1>4
    <3> DEFINE t == Mutated(Catalogue[at], source)
               reached == (Differs(base, t) \ unstarted) \cup (unanswered \ unstarted)
    <3>2. reached \in SUBSET Inputs
      BY DEF Differs
    <3> QED BY <3>1, <3>2
  <2>2. misled' \in BOOLEAN /\ (misled => misled') /\ (~misled' => reached = Shows(tree))
    BY <1>2, <2>1
  <2>3. tree \in Tree /\ tree.mutant \in Range(Catalogue)
    <3>1. tree \in Tree /\ tree.mutant = Catalogue[at] /\ at \in 1..Len(Catalogue)
      BY <1>1 DEF SweepInv, RunInv, Busy, Measuring
    <3> QED BY <3>1, Constants
  <2>4. pending' \in ProbeRecord' /\ pending'.tree = tree
    <3> DEFINE p == [kind |-> "probe", mutant |-> tree.mutant, tree |-> tree, reached |-> reached]
    <3>1. pending' = p
      BY <2>1 DEF Probe
    <3>2. \A q \in [kind : {"probe"}, mutant : Range(Catalogue), tree : Tree,
                    reached : SUBSET Inputs] :
              (~misled' => q.reached = Shows(q.tree)) => q \in ProbeRecord'
      BY DEF ProbeRecord, Shows, Differs, Mutated, Tree
    <3>3. p \in ProbeRecord' /\ p.tree = tree
      <4>1. p \in [kind : {"probe"}, mutant : Range(Catalogue), tree : Tree,
                  reached : SUBSET Inputs]
        BY <2>3
      <4>2. p.reached = reached /\ p.tree = tree
        OBVIOUS
      <4> HIDE DEF p
      <4> QED BY <2>2, <3>2, <4>1, <4>2
    <3> QED BY <3>1, <3>3
  <2> QED BY <1>1, <1>2, <1>4, <2>2, <2>4, MeasuringStays
<1> QED BY <1>3, <1>4 DEF RunProbe

LEMMA CrashKeeps ==
    ASSUME SweepInv, Crash
    PROVE  SweepInv'
<1>1. /\ pc' = "stopped" /\ at' = 1 /\ loaded' = {} /\ report' = {} /\ cells' = << >>
      /\ UNCHANGED <<source, seen, synced, misled>>
  BY DEF Crash, Return
<1>2. \/ UNCHANGED journal
      \/ /\ pc = "write"
         /\ journal' \in {Appended(Torn, FALSE), Appended(pending, FALSE),
                          Appended(pending, TRUE)}
  BY DEF Crash
<1>3. journal \in Seq(Line) /\ synced \subseteq Record /\ \A x \in synced : OnFile(x)
  BY DEF SweepInv, JournalInv
<1>4. Record \subseteq Record' /\ Seq(Line) \subseteq Seq(Line')
  BY <1>1, RecordsStay
<1>5. journal' \in Seq(Line) /\ \A x : OnFile(x) => OnFile(x)'
  <2>1. CASE UNCHANGED journal
    BY <1>3, <2>1 DEF OnFile
  <2>2. ASSUME NEW piece \in Piece, NEW newline \in BOOLEAN, journal' = Appended(piece, newline)
        PROVE  journal' \in Seq(Line) /\ \A x : OnFile(x) => OnFile(x)'
    <3>1. /\ journal' \in Seq(Line)
          /\ \E i \in 1..Len(journal') : \E k \in 1..Len(journal'[i].text) :
                journal'[i].text[k] = piece
          /\ \A x : OnFile(x) => OnFile(x)'
      BY <1>3, <2>2, AppendedKeeps
    <3> QED BY <3>1
  <2>3. CASE /\ pc = "write"
             /\ journal' \in {Appended(Torn, FALSE), Appended(pending, FALSE),
                              Appended(pending, TRUE)}
    <3>1. pending \in Piece /\ Torn \in Piece
      BY <2>3 DEF SweepInv, CellsInv, Piece
    <3>2. PICK piece \in {pending, Torn}, newline \in BOOLEAN : journal' = Appended(piece, newline)
      BY <2>3
    <3> QED BY <2>2, <3>1, <3>2
  <2> QED BY <1>2, <2>1, <2>3
<1>6. JournalInv'
  BY <1>1, <1>3, <1>4, <1>5 DEF JournalInv
<1>7. RunInv'
  <2>1. at' \in 1..(Len(Catalogue) + 1)
    BY <1>1, Constants
  <2>2. source' \in Source /\ misled' \in BOOLEAN
    BY <1>1 DEF SweepInv, RunInv
  <2> QED BY <1>1, <2>1, <2>2 DEF RunInv, Busy, Measuring, Source
<1>8. CellsInv'
  <2>1. cells' \in Seq(CellRecord') /\ Len(cells') = 0 /\ Len(cells') <= Len(Rungs)
    BY <1>1, Constants
  <2> QED BY <1>1, <2>1 DEF CellsInv, Measuring
<1>9. TableInv'
  BY <1>1 DEF TableInv, RowsAreOfThisRun
<1>10. FlushedInv'
  BY <1>1 DEF FlushedInv, Busy
<1> QED BY <1>6, <1>7, <1>8, <1>9, <1>10 DEF SweepInv

LEMMA StutterKeeps ==
    ASSUME SweepInv, UNCHANGED vars
    PROVE  SweepInv'
<1>1. UNCHANGED <<source, journal, pc, at, loaded, base, disk, tree, cells, pending, report, seen,
                  synced, misled>>
  BY DEF vars, memory
<1>2. JournalInv' /\ TableInv'
  BY <1>1, JournalStays, TableStays DEF SweepInv
<1>3. RunInv'
  BY <1>1 DEF SweepInv, RunInv, Busy, Measuring, Source, Tree, Mutated, MustRefuse, Readable
<1>4. CellsInv'
  <2>1. CellRecord' = CellRecord /\ Record \subseteq Record'
    BY <1>1, RecordsStay
  <2> QED BY <1>1, <2>1 DEF SweepInv, CellsInv, Measuring
<1>5. FlushedInv'
  BY <1>1 DEF SweepInv, FlushedInv, Done, Busy
<1> QED BY <1>2, <1>3, <1>4, <1>5 DEF SweepInv

LEMMA InvIsInductive ==
    ASSUME SweepInv, [Next]_vars
    PROVE  SweepInv'
<1>1. CASE Edit
  BY <1>1, EditKeeps
<1>2. ASSUME NEW resume \in BOOLEAN, Start(resume) PROVE SweepInv'
  BY <1>2, StartKeeps
<1>3. CASE Truncate
  BY <1>3, TruncateKeeps
<1>4. CASE Plan
  BY <1>4, PlanKeeps
<1>5. CASE LoadTree
  BY <1>5, LoadTreeKeeps
<1>6. CASE CopyTree
  BY <1>6, CopyTreeKeeps
<1>7. CASE Rung
  BY <1>7, RungKeeps
<1>8. CASE Write
  BY <1>8, WriteKeeps
<1>9. CASE Judge
  BY <1>9, JudgeKeeps
<1>10. CASE CompileBaseline
  BY <1>10, CompileBaselineKeeps
<1>11. CASE RunProbe
  BY <1>11, RunProbeKeeps
<1>12. CASE Crash
  BY <1>12, CrashKeeps
<1>13. CASE UNCHANGED vars
  BY <1>13, StutterKeeps
<1> QED
  BY <1>1, <1>2, <1>3, <1>4, <1>5, <1>6, <1>7, <1>8, <1>9, <1>10, <1>11, <1>12, <1>13
  DEF Next, Sweep

-----------------------------------------------------------------------------
(* The theorems *)

\* The invariant the theorems rest on: what is on file and in memory is right
\* of the tree it names, in every reachable state (journal.go, sweep.go).
THEOREM SweepInvariant == Spec => []SweepInv
<1>1. Init => SweepInv
  BY InitKeeps
<1>2. SweepInv /\ [Next]_vars => SweepInv'
  BY InvIsInductive
<1> QED BY <1>1, <1>2, PTL DEF Spec

LEMMA CellsOfTheirTree == ASSUME SweepInv PROVE CellsAreOfTheirTree
<1>1. ASSUME NEW c \in loaded \cup synced, c.kind = "cell" PROVE Right(c)
  <2>1. c \in CellRecord
    BY <1>1, KindOfRecord DEF SweepInv, JournalInv
  <2> QED BY <2>1, CellIs
<1>2. ASSUME NEW c \in report PROVE Right(c)
  BY SoundIs DEF SweepInv, TableInv
<1> QED BY <1>1, <1>2 DEF CellsAreOfTheirTree, Right

\* Every cell a sweep reports, loads or journals says what its rung says of the
\* tree it is filed under, and the rows of a mutant are of one tree the corner
\* held in this run: for any edits under the sweep, any deaths and any resumes
\* (runRung, reuse, load).
THEOREM TableIsTrue == Spec => []TableIsOfItsTrees
<1>1. SweepInv => TableIsOfItsTrees
  BY CellsOfTheirTree DEF TableIsOfItsTrees, SweepInv, TableInv
<1> QED BY <1>1, SweepInvariant, PTL

\* A sweep that exits 0 has one cell for every rung of every mutant, whatever
\* failed, died or was taken from the journal on the way (calibrateOne, main).
THEOREM ZeroIsComplete == Spec => []ZeroMeansComplete
<1>1. ASSUME SweepInv PROVE ZeroMeansComplete
  <2> SUFFICES ASSUME ExitsZero, NEW m \in Range(Catalogue), NEW r \in RungSet
               PROVE  Cardinality({c \in report : c.mutant = m /\ c.rung = r}) = 1
    BY DEF ZeroMeansComplete
  <2>1. at = Len(Catalogue) + 1 /\ \A c \in report : c.outcome # "error"
    BY <1>1 DEF ExitsZero, SweepInv, RunInv
  <2>2. PICK i \in 1..Len(Catalogue) : m = Catalogue[i]
    BY Constants
  <2>3. i \in 1..(at - 1)
    BY <2>1, <2>2, Constants
  <2>4. \A q \in RungSet : \E c \in report : RowsAt(Catalogue[i], q) = {c}
    BY <1>1, <2>1, <2>3 DEF SweepInv, TableInv
  <2>5. PICK c \in report : RowsAt(m, r) = {c}
    BY <2>2, <2>4
  <2> QED BY <2>5, FS_Singleton DEF RowsAt
<1> QED BY <1>1, SweepInvariant, PTL

\* However often the sweep died and was resumed, and wherever a cell was taken
\* from, the table is the one an undisturbed run over the same trees makes,
\* unless a probe was wrong about its tree (classify, reuse).
THEOREM DeathsLeaveNoTrace ==
    Spec => []TableIsTheUninterruptedOne
<1>1. SweepInv => TableIsTheUninterruptedOne
  BY DEF TableIsTheUninterruptedOne, SweepInv, TableInv, Sound, Due
<1> QED BY <1>1, SweepInvariant, PTL

\* No rung is run on a tree for which a cell was flushed and is still on file:
\* a resume has read it, or this run has just reported it (load, calibrateOne).
THEOREM MeasuredOnce == Spec => NothingIsMeasuredTwice
<1>1. ASSUME SweepInv, [Next]_vars PROVE [NotAgain]_vars
  <2> SUFFICES ASSUME pc = "rung", pc' = "write", NEW c \in synced,
                      c.kind = "cell", c.outcome # "error",
                      c.tree = pending'.tree, c.rung = pending'.rung
               PROVE  FALSE
    BY DEF NotAgain
  <2>1. Rung
    BY <1>1 DEF Next, Sweep, Edit, Start, Truncate, Plan, LoadTree, CopyTree, Write, Judge,
                CompileBaseline, RunProbe, Crash, Report, vars
  <2> DEFINE r == Rungs[Len(cells) + 1]
  <2>2. /\ CellsAt(tree, r) = {} /\ Len(cells) < Len(Rungs)
        /\ pending'.tree = tree /\ pending'.rung = r
    BY <2>1 DEF Rung, Cell
  <2>3. c \in CellRecord /\ c.mutant = tree.mutant
    <3>1. c \in CellRecord
      BY <1>1, KindOfRecord DEF SweepInv, JournalInv
    <3> QED BY <2>2, <3>1, CellIs
  <2>4. tree.mutant = Catalogue[at] /\ at \in 1..Len(Catalogue)
    BY <1>1 DEF SweepInv, RunInv, Busy
  <2>5. c \notin loaded
    BY <2>2 DEF CellsAt
  <2>6. ~Done(c.mutant)
    <3>1. \A i \in 1..(at - 1) : i \in 1..Len(Catalogue) /\ i # at
      BY <2>4, Constants
    <3>2. \A i, j \in 1..Len(Catalogue) : Catalogue[i] = Catalogue[j] => i = j
      BY Constants
    <3> QED BY <2>3, <2>4, <3>1, <3>2 DEF Done
  <2>7. PICK j \in 1..Len(cells) : c = cells[j]
    BY <1>1, <2>5, <2>6 DEF SweepInv, FlushedInv, Busy
  <2>8. cells[j].rung = Rungs[j] /\ Len(cells) \in Nat /\ Len(Rungs) \in Nat
    BY <1>1, Constants DEF SweepInv, CellsInv
  <2>9. j \in 1..Len(Rungs) /\ Len(cells) + 1 \in 1..Len(Rungs) /\ j # Len(cells) + 1
    BY <2>2, <2>7, <2>8
  <2>10. \A i, k \in 1..Len(Rungs) : Rungs[i] = Rungs[k] => i = k
    BY Constants
  <2> QED BY <2>2, <2>7, <2>8, <2>9, <2>10
<1>2. SweepInv /\ [Next]_vars => [NotAgain]_vars
  BY <1>1
<1> QED BY <1>2, SweepInvariant, PTL DEF Spec, NothingIsMeasuredTwice
=============================================================================
