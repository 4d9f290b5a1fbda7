--------------------------- MODULE GobraSweep_proofs ---------------------------
(***************************************************************************)
(* Proofs about the negation-canary sweep (GobraSweep), for any package,   *)
(* any clauses and any number of workers, failures, deaths and sweeps.  A  *)
(* record is scored once, from one run of the solver on one workspace, and *)
(* is never changed: whatever a later sweep reads from the checkpoint was  *)
(* scored by an earlier one, about the same clause.                        *)
(***************************************************************************)
EXTENDS GobraSweep, FiniteSetTheorems, TLAPS

-----------------------------------------------------------------------------
(* The inductive invariant *)

\* What the solver may have said of a clause, in the bodies of a workspace.
Scored(r) ==
    \E c \in Todo, src \in Bodies : \E res \in Outcomes(CanaryErrors(c, src)) :
        r = Result(c, src, res)

RecordsInv ==
    /\ \A r \in known \cup fresh \cup writing \cup Checkpointed(file) : Scored(r)
    /\ \A c \in DOMAIN out : c \in Todo /\ Scored(out[c]) /\ out[c].key = Key(c)

RunInv ==
    /\ bodies \in Bodies
    /\ \A w \in running : w.clause \in Todo /\ w.of \in Bodies
    /\ stage = "done" => DOMAIN out = Todo

CanaryInv == RecordsInv /\ RunInv

-----------------------------------------------------------------------------
(* A scored record *)

LEMMA ScoredIs ==
    ASSUME NEW r, Scored(r)
    PROVE  \E c \in Todo, src \in Bodies :
              \E res \in Outcomes(CanaryErrors(c, src)) :
                  /\ r = Result(c, src, res)
                  /\ r.key = Key(c) /\ r.asked = c /\ r.of = src
                  /\ r.verdict = CanaryVerdict(c, res) /\ r.errors = res.errors
<1>1. PICK c \in Todo, src \in Bodies : \E res \in Outcomes(CanaryErrors(c, src)) :
          r = Result(c, src, res)
  BY DEF Scored
<1>2. PICK res \in Outcomes(CanaryErrors(c, src)) : r = Result(c, src, res)
  BY <1>1
<1>3. /\ r.key = Key(c) /\ r.asked = c /\ r.of = src
      /\ r.verdict = CanaryVerdict(c, res) /\ r.errors = res.errors
  BY <1>2 DEF Result
<1> QED BY <1>2, <1>3

\* The clauses Gobra is asked about, and what it is asked.
LEMMA TodoIs ==
    ASSUME NEW c \in Todo
    PROVE  /\ c \in Checked /\ c \in Clauses /\ c.member \in Members
           /\ c.member \notin ReliesOn(c)
           /\ ~c.guarded => c.ante = States \X Elems
           /\ \A d \in Checked : Substitute(c)[d] = IF d = c THEN Canary(c) ELSE Meaning(d)
           /\ \A d \in Checked : d.member \in Members /\ ReliesOn(d) \subseteq Members
<1>1. c \in Checked /\ c \in Clauses /\ Checked \subseteq Clauses
  BY DEF Todo, Checked
<1>2. \A d \in Checked : Substitute(c)[d] = IF d = c THEN Canary(c) ELSE Meaning(d)
  BY <1>1 DEF Substitute, AsShipped
<1> QED BY <1>1, <1>2, GobraAssumption

\* In a package that verifies, an error is in the clause's own member or in one
\* that relies on the clause, and in its own exactly if it ends outside the
\* canary.
LEMMA ErrorsOfCanary ==
    ASSUME NEW c \in Todo, NEW src \in Bodies, Green(src)
    PROVE  /\ IsFiniteSet(Errors(src, Substitute(c)))
           /\ c.member \in Errors(src, Substitute(c)) <=> ~(src[c.member] \subseteq Canary(c))
           /\ src[c.member] \subseteq Meaning(c) /\ src[c.member] \subseteq States
<1>1. /\ c \in Checked /\ c \in Clauses /\ c.member \in Members
      /\ c.member \notin ReliesOn(c)
      /\ ~c.guarded => c.ante = States \X Elems
      /\ \A d \in Checked : Substitute(c)[d] = IF d = c THEN Canary(c) ELSE Meaning(d)
      /\ \A d \in Checked : d.member \in Members /\ ReliesOn(d) \subseteq Members
  BY TodoIs
<1>2. \A d \in Checked : AsShipped[d] = Meaning(d)
  BY DEF AsShipped
<1>3. \A d \in Checked : src[d.member] \subseteq Meaning(d)
  <2> SUFFICES ASSUME NEW d \in Checked, ~(src[d.member] \subseteq Meaning(d)) PROVE FALSE
    OBVIOUS
  <2>1. d.member \in Errors(src, AsShipped)
    BY <1>2 DEF Errors
  <2> QED BY <2>1 DEF Green
<1>4. IsFiniteSet(Errors(src, Substitute(c)))
  <2>1. Errors(src, Substitute(c)) \subseteq Members
    BY <1>1 DEF Errors
  <2> QED BY <2>1, FS_Subset, GobraAssumption
<1>5. ASSUME c.member \in Errors(src, Substitute(c)), src[c.member] \subseteq Canary(c)
      PROVE  FALSE
  <2>1. CASE \E d \in Checked : ~(src[d.member] \subseteq Substitute(c)[d]) /\ d.member = c.member
    BY <1>1, <1>3, <1>5, <2>1
  <2>2. CASE \E d \in Checked : Substitute(c)[d] # Meaning(d) /\ c.member \in ReliesOn(d)
    BY <1>1, <2>2
  <2> QED BY <1>5, <2>1, <2>2 DEF Errors
<1>6. ~(src[c.member] \subseteq Canary(c)) => c.member \in Errors(src, Substitute(c))
  BY <1>1 DEF Errors
<1>7. src[c.member] \subseteq States
  BY <1>1, GobraAssumption
<1> QED BY <1>1, <1>3, <1>4, <1>5, <1>6, <1>7

\* No answer of the solver is read as another one.
LEMMA VerdictIs ==
    ASSUME NEW c, NEW errors, IsFiniteSet(errors), NEW res \in Outcomes(errors)
    PROVE  /\ CanaryVerdict(c, res) = "VACUOUS" => errors = {}
           /\ CanaryVerdict(c, res) = "REFUTABLE" /\ res.errors # {} =>
                 c.typed /\ res.errors = errors
<1>1. CASE res = Ended(errors)
  <2>1. res.total = Cardinality(errors) /\ res.errors = errors /\ res.late = FALSE
        /\ res.package = TRUE
    BY <1>1 DEF Ended
  <2>2. CanaryVerdict(c, res) = "VACUOUS" => res.total = 0
    BY DEF CanaryVerdict
  <2>3. Cardinality(errors) = 0 => errors = {}
    BY FS_EmptySet
  <2>4. CanaryVerdict(c, res) = "REFUTABLE" /\ res.errors # {} => c.typed
    BY DEF CanaryVerdict
  <2> QED BY <2>1, <2>2, <2>3, <2>4
<1>2. CASE res \in {Terminated, CutShort, NoVerdict}
  <2>1. res.errors = {}
    BY <1>2 DEF Terminated, CutShort, NoVerdict
  <2>2. CanaryVerdict(c, res) # "VACUOUS"
    BY <1>2 DEF Terminated, CutShort, NoVerdict, CanaryVerdict
  <2> QED BY <2>1, <2>2
<1> QED BY <1>1, <1>2 DEF Outcomes

LEMMA ScoredIsTrue ==
    ASSUME NEW r, Scored(r), Green(r.of)
    PROVE  /\ r.verdict = "VACUOUS" => Vacuous(r.asked, r.of)
           /\ Backed(r) => ~Vacuous(r.asked, r.of)
           /\ r.verdict = "VACUOUS" /\ ~r.asked.guarded =>
                 Reach(r.asked.member, r.of) = "UNREACHABLE"
<1>1. PICK c \in Todo, src \in Bodies : \E res \in Outcomes(CanaryErrors(c, src)) :
          /\ r = Result(c, src, res)
          /\ r.key = Key(c) /\ r.asked = c /\ r.of = src
          /\ r.verdict = CanaryVerdict(c, res) /\ r.errors = res.errors
  BY ScoredIs
<1> DEFINE errors == CanaryErrors(c, src)
           body == src[c.member]
<1>2. PICK res \in Outcomes(errors) :
          /\ r.asked = c /\ r.of = src /\ r.verdict = CanaryVerdict(c, res) /\ r.errors = res.errors
  BY <1>1
<1>3. /\ IsFiniteSet(errors)
      /\ c.typed => (c.member \in errors <=> ~(body \subseteq Canary(c)))
      /\ ~c.typed => c.member \in errors
      /\ body \subseteq Meaning(c) /\ body \subseteq States
  <2>1. /\ IsFiniteSet(Errors(src, Substitute(c)))
        /\ c.member \in Errors(src, Substitute(c)) <=> ~(body \subseteq Canary(c))
        /\ body \subseteq Meaning(c) /\ body \subseteq States
    BY <1>2, ErrorsOfCanary
  <2>2. errors = IF c.typed THEN Errors(src, Substitute(c)) ELSE {c.member}
    BY DEF CanaryErrors
  <2>3. IsFiniteSet({c.member})
    BY FS_Singleton
  <2> HIDE DEF errors, body
  <2>4. CASE c.typed
    BY <2>1, <2>2, <2>4
  <2>5. CASE ~c.typed
    BY <2>1, <2>2, <2>3, <2>5
  <2> QED BY <2>4, <2>5
<1>4. ~c.guarded => c.ante = States \X Elems
  BY TodoIs
<1>5. /\ r.verdict = "VACUOUS" => errors = {}
      /\ r.verdict = "REFUTABLE" /\ r.errors # {} => c.typed /\ r.errors = errors
  <2>1. \A v : \A e \in Outcomes(errors) :
            /\ CanaryVerdict(v, e) = "VACUOUS" => errors = {}
            /\ CanaryVerdict(v, e) = "REFUTABLE" /\ e.errors # {} => v.typed /\ e.errors = errors
    <3> HIDE DEF errors
    <3> QED BY <1>3, VerdictIs
  <2> HIDE DEF errors
  <2> QED BY <1>2, <2>1
<1> HIDE DEF errors, body
<1>6. \A s \in States : s \in Canary(c) <=>
          IF c.guarded THEN \A e \in Elems : <<s, e>> \notin c.ante ELSE s \notin Meaning(c)
  BY DEF Canary
<1>7. Vacuous(c, src) <=> \A s \in body, e \in Elems : <<s, e>> \notin c.ante
  BY DEF Vacuous, body
<1>8. ASSUME r.verdict = "VACUOUS" PROVE Vacuous(c, src)
  <2>1. body \subseteq Canary(c)
    BY <1>3, <1>5, <1>8
  <2> QED BY <1>3, <1>6, <1>7, <2>1
<1>9. ASSUME Backed(r) PROVE ~Vacuous(c, src)
  <2>1. r.verdict = "REFUTABLE" /\ c.member \in r.errors
    BY <1>2, <1>9 DEF Backed
  <2>2. PICK s \in body : s \notin Canary(c)
    BY <1>3, <1>5, <2>1
  <2>3. s \in States
    BY <1>3, <2>2
  <2>4. CASE c.guarded
    BY <1>6, <1>7, <2>2, <2>3, <2>4
  <2>5. CASE ~c.guarded
    <3>1. PICK e \in Elems : TRUE
      BY GobraAssumption
    <3>2. <<s, e>> \in c.ante
      BY <1>4, <2>3, <2>5, <3>1
    <3> QED BY <1>7, <2>2, <3>1, <3>2
  <2> QED BY <2>4, <2>5
<1>10. ASSUME r.verdict = "VACUOUS", ~c.guarded
       PROVE  Reach(c.member, src) = "UNREACHABLE"
  <2>1. body \subseteq Canary(c)
    BY <1>3, <1>5, <1>10
  <2>2. body = {}
    BY <1>3, <1>6, <1>10, <2>1
  <2>3. Errors(src, AsShipped) = {} /\ src[c.member] = {}
    BY <1>2, <2>2 DEF Green, body
  <2> QED BY <2>3 DEF Reach
<1> QED BY <1>2, <1>8, <1>9, <1>10

-----------------------------------------------------------------------------
(* The invariant is inductive *)

LEMMA AppendedReads ==
    ASSUME NEW r
    PROVE  /\ Checkpointed(LineAppended(r)) \subseteq Checkpointed(file) \cup {r}
           /\ \A f \in HalfAppended(r) : Checkpointed(f) \subseteq Checkpointed(file) \cup {r}
BY DEF Checkpointed, LineAppended, HalfAppended

LEMMA CanaryInvIsInductive ==
    ASSUME CanaryInv, [CanaryNext]_canaryVars
    PROVE  CanaryInv'
<1> USE DEF CanaryInv
<1>0. ASSUME NEW c \in Todo, NEW src \in Bodies, NEW res \in Outcomes(CanaryErrors(c, src))
      PROVE  Scored(Result(c, src, res))
  BY DEF Scored
<1>1. CASE EditBody
  BY <1>1 DEF EditBody, RecordsInv, RunInv, Checkpointed, Scored
<1>2. ASSUME NEW skipSelf \in BOOLEAN, StartCanaries(skipSelf) PROVE CanaryInv'
  BY <1>2 DEF StartCanaries, RecordsInv, RunInv, Checkpointed, Scored
<1>3. CASE SelfTest \/ Infeasible
  BY <1>3 DEF SelfTest, Infeasible, RecordsInv, RunInv, Checkpointed, Scored
<1>4. ASSUME NEW c \in Todo, Take(c) PROVE CanaryInv'
  BY <1>4 DEF Take, RecordsInv, RunInv, Checkpointed, Scored
<1>5. ASSUME NEW w \in running, Score(w) PROVE CanaryInv'
  <2>1. w.clause \in Todo /\ w.of \in Bodies
    BY DEF RunInv
  <2>2. PICK res \in Outcomes(CanaryErrors(w.clause, w.of)) :
            /\ fresh' = fresh \cup {Result(w.clause, w.of, res)}
            /\ writing' = writing \cup {Result(w.clause, w.of, res)}
    BY <1>5 DEF Score
  <2>3. Scored(Result(w.clause, w.of, res))
    BY <1>0, <2>1, <2>2
  <2>4. running' = running \ {w} /\ UNCHANGED <<bodies, stage, known, file, out>>
    BY <1>5 DEF Score
  <2>5. \A r : Scored(r)' <=> Scored(r)
    BY DEF Scored
  <2>6. RecordsInv'
    BY <2>2, <2>3, <2>4, <2>5 DEF RecordsInv, Checkpointed
  <2> QED BY <2>4, <2>6 DEF RunInv
<1>6. ASSUME NEW r \in writing, WriteLine(r) PROVE CanaryInv'
  <2>1. /\ file' = LineAppended(r) /\ writing' = writing \ {r}
        /\ UNCHANGED <<bodies, stage, known, running, fresh, out>>
    BY <1>6 DEF WriteLine
  <2>2. Checkpointed(file') \subseteq Checkpointed(file) \cup {r}
    BY <2>1, AppendedReads
  <2>3. \A q : Scored(q)' <=> Scored(q)
    BY DEF Scored
  <2>4. RecordsInv'
    BY <2>1, <2>2, <2>3 DEF RecordsInv, Checkpointed
  <2> QED BY <2>1, <2>4 DEF RunInv
<1>7. CASE Publish
  <2>1. /\ stage' = "done" /\ running = {}
        /\ \A c \in Todo : ~Pending(c)
        /\ out' = [c \in Todo |->
                      IF Key(c) \in Keys(known) THEN CHOOSE r \in known : r.key = Key(c)
                      ELSE CHOOSE r \in fresh : r.key = Key(c)]
        /\ UNCHANGED <<bodies, known, running, writing, fresh, file>>
    BY <1>7 DEF Publish
  <2>2. ASSUME NEW c \in Todo
        PROVE  \/ Key(c) \in Keys(known) /\ out'[c] \in known /\ out'[c].key = Key(c)
               \/ Key(c) \notin Keys(known) /\ out'[c] \in fresh /\ out'[c].key = Key(c)
    <3>1. CASE Key(c) \in Keys(known)
      <4>1. \E r \in known : r.key = Key(c)
        BY <3>1 DEF Keys
      <4>2. out'[c] = CHOOSE r \in known : r.key = Key(c)
        BY <2>1, <3>1
      <4> QED BY <3>1, <4>1, <4>2
    <3>2. CASE Key(c) \notin Keys(known)
      <4>1. c \in Busy
        BY <2>1, <3>2 DEF Pending
      <4>2. PICK r \in fresh : r.asked = c
        BY <2>1, <4>1 DEF Busy
      <4>3. r.key = Key(c)
        <5>1. Scored(r)
          BY DEF RecordsInv
        <5> QED BY <4>2, <5>1, ScoredIs
      <4>4. out'[c] = CHOOSE q \in fresh : q.key = Key(c)
        BY <2>1, <3>2
      <4> QED BY <3>2, <4>2, <4>3, <4>4
    <3> QED BY <3>1, <3>2
  <2>3. \A q : Scored(q)' <=> Scored(q)
    BY DEF Scored
  <2>4. \A r \in known \cup fresh \cup writing \cup Checkpointed(file) : Scored(r)
    BY DEF RecordsInv
  <2>5. DOMAIN out' = Todo
    BY <2>1
  <2>6. RecordsInv'
    BY <2>1, <2>2, <2>3, <2>4, <2>5 DEF RecordsInv, Checkpointed
  <2> QED BY <2>1, <2>5, <2>6 DEF RunInv
<1>8. CASE Die
  <2>1. /\ stage' = "stopped" /\ running' = {} /\ writing' = {} /\ fresh' = {} /\ known' = {}
        /\ file' \in {file} \cup UNION {HalfAppended(r) : r \in writing}
        /\ UNCHANGED <<bodies, out>>
    BY <1>8 DEF Die
  <2>2. \A x \in Checkpointed(file') : x \in Checkpointed(file) \cup writing
    BY <2>1, AppendedReads
  <2>3. \A q : Scored(q)' <=> Scored(q)
    BY DEF Scored
  <2>4. RecordsInv'
    BY <2>1, <2>2, <2>3 DEF RecordsInv, Checkpointed
  <2> QED BY <2>1, <2>4 DEF RunInv
<1>9. CASE UNCHANGED canaryVars
  BY <1>9 DEF canaryVars, RecordsInv, RunInv, Checkpointed, Scored
<1> QED
  BY <1>1, <1>2, <1>3, <1>4, <1>5, <1>6, <1>7, <1>8, <1>9 DEF CanaryNext, CanarySweep

LEMMA CanaryInitInv ==
    ASSUME CanaryInit
    PROVE  CanaryInv
BY DEF CanaryInit, CanaryInv, RecordsInv, RunInv, Checkpointed

-----------------------------------------------------------------------------
(* What is asked twice.  Every canary that was run stands for a clause that *)
(* is on the checkpoint or in a worker's hands, but for the workers of each *)
(* death and for one record on the line it tore, whichever sweep spoils it. *)

Of(records) == {c \in Todo : \E r \in records : r.asked = c}
Taken(W) == {c \in Todo : \E w \in W : w.clause = c}
InHand == Taken(running) \cup Of(writing)

\* What the next sweep would not ask, and that with what this one is at.
OnDisk == Of(Checkpointed(file))
Kept == OnDisk \cup InHand

Lost(n) == n * (Jobs + 1)

\* What the next line may still spoil: itself, and the record it continues.
Credit == IF file.part THEN 1 ELSE IF file.whole # {} THEN 2 ELSE 0

TornInv ==
    /\ file.part \in BOOLEAN
    /\ \A r, q \in file.whole : r = q
    /\ file.part => file.whole = {}

SlotInv ==
    /\ deaths \in Nat /\ ran \in Nat
    /\ IsFiniteSet(running) /\ IsFiniteSet(writing)
    /\ Cardinality(running) + Cardinality(writing) <= Jobs
    /\ stage # "sweep" => running = {} /\ writing = {}
    /\ writing \subseteq fresh

\* A sweep has read, or written itself, all that the next one would read.
HeldInv == stage \in {"selftest", "infeasible", "sweep"} => OnDisk \subseteq Of(known \cup fresh)

CostInv == ran + Credit <= Cardinality(Kept) + Lost(deaths)

CountInv == TornInv /\ SlotInv /\ HeldInv /\ CostInv

AskedInv == CanaryInv /\ CountInv

LEMMA TodoIsFinite ==
    ASSUME NEW S, S \subseteq Todo
    PROVE  IsFiniteSet(S) /\ Cardinality(S) \in Nat
<1>1. IsFiniteSet(Clauses) /\ S \subseteq Clauses
  BY GobraAssumption DEF Todo
<1>2. IsFiniteSet(S)
  BY <1>1, FS_Subset
<1> QED BY <1>2, FS_CardinalityType

\* As many clauses as records at most, and as workers.
LEMMA OfIsBounded ==
    ASSUME NEW R, IsFiniteSet(R)
    PROVE  Cardinality(Of(R)) <= Cardinality(R) /\ IsFiniteSet(Of(R))
<1> DEFINE S == {r \in R : r.asked \in Todo}
           f == [r \in S |-> r.asked]
<1>1. IsFiniteSet(S) /\ Cardinality(S) <= Cardinality(R)
  BY FS_Subset
<1>2. f \in Surjection(S, Of(R))
  BY DEF Surjection, Of
<1>3. IsFiniteSet(Of(R)) /\ Cardinality(Of(R)) <= Cardinality(S)
  <2> HIDE DEF f, S
  <2> QED BY <1>1, <1>2, FS_Surjection
<1>4. Cardinality(Of(R)) \in Nat /\ Cardinality(S) \in Nat /\ Cardinality(R) \in Nat
  <2> HIDE DEF S
  <2> QED BY <1>1, <1>3, FS_CardinalityType
<1> HIDE DEF S
<1> QED BY <1>1, <1>3, <1>4

LEMMA TakenIsBounded ==
    ASSUME NEW W, IsFiniteSet(W)
    PROVE  Cardinality(Taken(W)) <= Cardinality(W) /\ IsFiniteSet(Taken(W))
<1> DEFINE S == {w \in W : w.clause \in Todo}
           f == [w \in S |-> w.clause]
<1>1. IsFiniteSet(S) /\ Cardinality(S) <= Cardinality(W)
  BY FS_Subset
<1>2. f \in Surjection(S, Taken(W))
  BY DEF Surjection, Taken
<1>3. IsFiniteSet(Taken(W)) /\ Cardinality(Taken(W)) <= Cardinality(S)
  <2> HIDE DEF f, S
  <2> QED BY <1>1, <1>2, FS_Surjection
<1>4. Cardinality(Taken(W)) \in Nat /\ Cardinality(S) \in Nat /\ Cardinality(W) \in Nat
  <2> HIDE DEF S
  <2> QED BY <1>1, <1>3, FS_CardinalityType
<1> HIDE DEF S
<1> QED BY <1>1, <1>3, <1>4

LEMMA LostOneMore ==
    ASSUME NEW n \in Nat
    PROVE  Lost(n) \in Nat /\ Lost(n + 1) = Lost(n) + Jobs + 1
<1>1. Jobs + 1 \in Nat
  BY GobraAssumption
<1> DEFINE k == Jobs + 1
<1>2. k \in Nat /\ n * k \in Nat /\ (n + 1) * k = n * k + k
  BY <1>1
<1> QED BY <1>2, GobraAssumption DEF Lost

LEMMA CreditIs == TornInv => Credit \in {0, 1, 2}
BY DEF Credit

LEMMA KeptIs ==
    /\ Kept \subseteq Todo /\ OnDisk \subseteq Todo /\ InHand \subseteq Todo
    /\ Cardinality(Kept) \in Nat /\ Cardinality(OnDisk) \in Nat
<1>1. Kept \subseteq Todo /\ OnDisk \subseteq Todo /\ InHand \subseteq Todo
  BY DEF Kept, OnDisk, InHand, Of, Taken
<1> QED BY <1>1, TodoIsFinite

\* Two sets cover a third.
LEMMA CoveredBy ==
    ASSUME NEW S, NEW T, NEW U,
           S \subseteq T \cup U, T \subseteq Todo, U \subseteq Todo
    PROVE  Cardinality(S) <= Cardinality(T) + Cardinality(U)
<1>1. /\ IsFiniteSet(S) /\ IsFiniteSet(T) /\ IsFiniteSet(U) /\ IsFiniteSet(T \cup U)
      /\ IsFiniteSet(T \cap U)
  BY TodoIsFinite
<1>2. Cardinality(S) <= Cardinality(T \cup U)
  BY <1>1, FS_Subset
<1>3. Cardinality(T \cup U) = Cardinality(T) + Cardinality(U) - Cardinality(T \cap U)
  BY <1>1, FS_Union
<1>4. /\ Cardinality(S) \in Nat /\ Cardinality(T) \in Nat /\ Cardinality(U) \in Nat
      /\ Cardinality(T \cup U) \in Nat /\ Cardinality(T \cap U) \in Nat
  BY <1>1, FS_CardinalityType
<1> QED BY <1>2, <1>3, <1>4

LEMMA AtMostOne ==
    ASSUME NEW S, \A c, d \in S : c = d
    PROVE  IsFiniteSet(S) /\ Cardinality(S) \in {0, 1}
<1>1. CASE S = {}
  BY <1>1, FS_EmptySet
<1>2. CASE S # {}
  <2>1. PICK c \in S : TRUE
    BY <1>2
  <2>2. S = {c}
    BY <2>1
  <2> QED BY <2>2, FS_Singleton
<1> QED BY <1>1, <1>2

LEMMA Covers ==
    ASSUME NEW S, NEW T, NEW U, NEW V, NEW W,
           S \subseteq T \cup U \cup V \cup W,
           T \subseteq Todo, U \subseteq Todo, V \subseteq Todo, W \subseteq Todo
    PROVE  Cardinality(S) <= Cardinality(T) + Cardinality(U) + Cardinality(V) + Cardinality(W)
<1>1. Cardinality(S) <= Cardinality(T \cup U) + Cardinality(V \cup W)
  BY CoveredBy
<1>2. Cardinality(T \cup U) <= Cardinality(T) + Cardinality(U)
  BY CoveredBy
<1>3. Cardinality(V \cup W) <= Cardinality(V) + Cardinality(W)
  BY CoveredBy
<1>4. /\ Cardinality(S) \in Nat /\ Cardinality(T) \in Nat /\ Cardinality(U) \in Nat
      /\ Cardinality(V) \in Nat /\ Cardinality(W) \in Nat
      /\ Cardinality(T \cup U) \in Nat /\ Cardinality(V \cup W) \in Nat
  BY TodoIsFinite
<1> QED BY <1>1, <1>2, <1>3, <1>4

LEMMA CostInit ==
    ASSUME CanaryInit
    PROVE  CountInv
<1>1. /\ stage = "stopped" /\ running = {} /\ writing = {} /\ fresh = {}
      /\ file = [lines |-> {}, whole |-> {}, part |-> FALSE] /\ deaths = 0 /\ ran = 0
  BY DEF CanaryInit
<1>2. file.whole = {} /\ file.part = FALSE
  BY <1>1
<1>3. TornInv /\ HeldInv
  BY <1>1, <1>2 DEF TornInv, HeldInv
<1>4. SlotInv
  BY <1>1, FS_EmptySet, GobraAssumption DEF SlotInv
<1>5. Credit = 0 /\ Cardinality(Kept) \in Nat /\ Lost(deaths) \in Nat
  BY <1>1, <1>2, KeptIs, LostOneMore DEF Credit
<1>6. CostInv
  BY <1>1, <1>5 DEF CostInv
<1> QED BY <1>3, <1>4, <1>6 DEF CountInv

\* A step that leaves the workers, the file and the counts alone.
LEMMA CostStays ==
    ASSUME CountInv, UNCHANGED <<running, writing, file, deaths, ran>>,
           writing \subseteq fresh', HeldInv',
           stage' # "sweep" => running = {} /\ writing = {}
    PROVE  CountInv'
<1>1. Kept' = Kept /\ Credit' = Credit
  BY DEF Kept, InHand, OnDisk, Of, Taken, Checkpointed, Credit
<1>2. TornInv' /\ SlotInv'
  BY DEF CountInv, TornInv, SlotInv
<1>3. CostInv'
  BY <1>1 DEF CountInv, CostInv, Lost
<1> QED BY <1>2, <1>3 DEF CountInv

LEMMA StartCosts ==
    ASSUME CountInv, NEW skipSelf \in BOOLEAN, StartCanaries(skipSelf)
    PROVE  CountInv'
<1>1. /\ stage \in {"stopped", "failed", "done"}
      /\ known' = Checkpointed(file)
      /\ UNCHANGED <<running, writing, file, deaths, ran>>
  BY DEF StartCanaries
<1>2. running = {} /\ writing = {}
  BY <1>1 DEF CountInv, SlotInv
<1>3. HeldInv'
  BY <1>1 DEF HeldInv, OnDisk, Of, Checkpointed
<1> QED BY <1>1, <1>2, <1>3, CostStays

\* No clause is given to a worker that is on the checkpoint or at another one.
LEMMA TakeCosts ==
    ASSUME AskedInv, NEW c \in Todo, Take(c)
    PROVE  CountInv'
<1> USE DEF AskedInv, CountInv
<1> DEFINE w == [clause |-> c, of |-> bodies]
<1>1. /\ stage = "sweep" /\ stage' = stage /\ Pending(c) /\ Slot
      /\ running' = running \cup {w} /\ ran' = ran + 1
      /\ UNCHANGED <<known, writing, fresh, file, deaths>>
  BY DEF Take
<1>2. OnDisk' = OnDisk /\ Credit' = Credit /\ Of(writing)' = Of(writing)
  BY <1>1 DEF Credit, OnDisk, Of, Checkpointed
<1>3. TornInv' /\ HeldInv'
  BY <1>1, <1>2 DEF TornInv, HeldInv, Of
<1>4. SlotInv'
  <2>1. /\ IsFiniteSet(running \cup {w})
        /\ Cardinality(running \cup {w}) \in {Cardinality(running), Cardinality(running) + 1}
    <3> HIDE DEF w
    <3> QED BY FS_AddElement DEF SlotInv
  <2>2. Cardinality(running) \in Nat /\ Cardinality(writing) \in Nat /\ Jobs \in Nat
    BY FS_CardinalityType, GobraAssumption DEF SlotInv
  <2>3. Cardinality(running) + Cardinality(writing) < Jobs
    BY <1>1 DEF Slot
  <2>4. Cardinality(running') + Cardinality(writing') <= Jobs
    BY <1>1, <2>1, <2>2, <2>3
  <2> HIDE DEF w
  <2> QED BY <1>1, <2>1, <2>4 DEF SlotInv
<1>5. c \notin Kept
  <2>1. ASSUME NEW r \in known \cup fresh, r.asked = c PROVE FALSE
    <3>1. r.key = Key(c)
      <4>1. Scored(r)
        BY DEF CanaryInv, RecordsInv
      <4> QED BY <2>1, <4>1, ScoredIs
    <3> QED BY <1>1, <2>1, <3>1 DEF Pending, Keys, Busy
  <2>2. c \notin Of(known \cup fresh) /\ c \notin Of(writing)
    BY <2>1 DEF Of, SlotInv
  <2>3. c \notin OnDisk
    BY <1>1, <2>2 DEF HeldInv
  <2>4. c \notin Taken(running)
    BY <1>1 DEF Pending, Busy, Taken
  <2> QED BY <2>2, <2>3, <2>4 DEF Kept, InHand
<1>6. Kept' = Kept \cup {c}
  <2>1. Taken(running)' = Taken(running) \cup {c}
    <3>1. w.clause = c
      OBVIOUS
    <3> HIDE DEF w
    <3>2. ASSUME NEW d \in Todo
          PROVE  (\E v \in running' : v.clause = d) <=> (\E v \in running : v.clause = d) \/ d = c
      BY <1>1, <3>1
    <3> QED BY <3>2 DEF Taken
  <2> QED BY <1>2, <2>1 DEF Kept, InHand
<1>7. Cardinality(Kept') = Cardinality(Kept) + 1 /\ Cardinality(Kept) \in Nat
  BY <1>5, <1>6, KeptIs, TodoIsFinite, FS_AddElement
<1>8. Lost(deaths)' = Lost(deaths) /\ Lost(deaths) \in Nat /\ Credit \in Nat /\ ran \in Nat
  BY <1>1, CreditIs, LostOneMore DEF SlotInv, Lost
<1>9. CostInv'
  BY <1>1, <1>2, <1>7, <1>8 DEF CostInv
<1> QED BY <1>3, <1>4, <1>9

LEMMA ScoreCosts ==
    ASSUME AskedInv, NEW w \in running, Score(w)
    PROVE  CountInv'
<1> USE DEF AskedInv, CountInv
<1>1. PICK r : /\ fresh' = fresh \cup {r} /\ writing' = writing \cup {r}
               /\ r.asked = w.clause
  <2>1. PICK res : /\ fresh' = fresh \cup {Result(w.clause, w.of, res)}
                   /\ writing' = writing \cup {Result(w.clause, w.of, res)}
    BY DEF Score
  <2>2. Result(w.clause, w.of, res).asked = w.clause
    BY DEF Result
  <2> QED BY <2>1, <2>2
<1>2. /\ running' = running \ {w}
      /\ UNCHANGED <<stage, known, file, deaths, ran>>
  BY DEF Score
<1>3. stage = "sweep" /\ w.clause \in Todo
  BY DEF SlotInv, CanaryInv, RunInv
<1>4. Credit' = Credit /\ OnDisk' = OnDisk
  BY <1>2 DEF Credit, OnDisk, Of, Checkpointed
<1>5. TornInv' /\ HeldInv'
  BY <1>1, <1>2, <1>4 DEF TornInv, HeldInv, Of
<1>6. SlotInv'
  <2>1. /\ IsFiniteSet(running \ {w}) /\ Cardinality(running \ {w}) = Cardinality(running) - 1
        /\ IsFiniteSet(writing \cup {r})
        /\ Cardinality(writing \cup {r}) \in {Cardinality(writing), Cardinality(writing) + 1}
    BY FS_AddElement, FS_RemoveElement DEF SlotInv
  <2>2. Cardinality(running) \in Nat /\ Cardinality(writing) \in Nat /\ Jobs \in Nat
    BY FS_CardinalityType, GobraAssumption DEF SlotInv
  <2>3. Cardinality(running') + Cardinality(writing') <= Jobs
    BY <1>1, <1>2, <2>1, <2>2 DEF SlotInv
  <2>4. writing' \subseteq fresh'
    BY <1>1 DEF SlotInv
  <2> QED BY <1>1, <1>2, <1>3, <2>1, <2>3, <2>4 DEF SlotInv
<1>7. Kept \subseteq Kept'
  <2>1. Taken(running) \subseteq Taken(running)' \cup {w.clause}
    BY <1>2 DEF Taken
  <2>2. Of(writing) \subseteq Of(writing)' /\ w.clause \in Of(writing)'
    BY <1>1, <1>3 DEF Of
  <2> QED BY <1>4, <2>1, <2>2 DEF Kept, InHand
<1>8. Kept' \subseteq Todo
  BY DEF Kept, OnDisk, InHand, Of, Taken
<1>9. Cardinality(Kept) <= Cardinality(Kept') /\ Cardinality(Kept) \in Nat /\ Cardinality(Kept') \in Nat
  BY <1>7, <1>8, TodoIsFinite, FS_Subset
<1>10. Lost(deaths)' = Lost(deaths) /\ Lost(deaths) \in Nat /\ Credit \in Nat /\ ran \in Nat
  BY <1>2, CreditIs, LostOneMore DEF SlotInv, Lost
<1>11. CostInv'
  BY <1>2, <1>4, <1>9, <1>10 DEF CostInv
<1> QED BY <1>5, <1>6, <1>11

\* Of a line on the checkpoint, what the step takes away is on it no more.
LEMMA OneGone ==
    ASSUME NEW R, \A r, q \in R : r = q
    PROVE  Of(R) \subseteq Todo /\ Cardinality(Of(R)) \in {0, 1}
<1>1. \A c, d \in Of(R) : c = d
  BY DEF Of
<1> QED BY <1>1, AtMostOne DEF Of

\* On a torn line a record is spoilt, with the one it continues; on a line of
\* its own it is read by the next sweep.
LEMMA WriteCosts ==
    ASSUME AskedInv, NEW r \in writing, WriteLine(r)
    PROVE  CountInv'
<1> USE DEF AskedInv, CountInv
<1>1. /\ file' = LineAppended(r) /\ writing' = writing \ {r}
      /\ UNCHANGED <<stage, known, running, fresh, deaths, ran>>
  BY DEF WriteLine
<1>2. /\ file'.whole = {} /\ file'.part = FALSE
      /\ file'.lines = IF file.whole = {} /\ ~file.part THEN file.lines \cup {r} ELSE file.lines
  BY <1>1 DEF LineAppended
<1>3. stage = "sweep" /\ r \in fresh
  BY DEF SlotInv
<1>4. TornInv' /\ Credit' = 0
  BY <1>2 DEF TornInv, Credit
<1>5. SlotInv'
  <2>1. IsFiniteSet(writing \ {r}) /\ Cardinality(writing \ {r}) = Cardinality(writing) - 1
    BY FS_RemoveElement DEF SlotInv
  <2>2. Cardinality(running) \in Nat /\ Cardinality(writing) \in Nat /\ Jobs \in Nat
    BY FS_CardinalityType, GobraAssumption DEF SlotInv
  <2>3. Cardinality(running') + Cardinality(writing') <= Jobs
    BY <1>1, <2>1, <2>2 DEF SlotInv
  <2> QED BY <1>1, <1>3, <2>1, <2>3 DEF SlotInv
<1>6. HeldInv'
  <2>1. OnDisk' \subseteq OnDisk \cup Of({r})
    BY <1>2 DEF OnDisk, Of, Checkpointed
  <2>2. Of({r}) \subseteq Of(known \cup fresh)
    BY <1>3 DEF Of
  <2>3. Of(known \cup fresh)' = Of(known \cup fresh)
    BY <1>1 DEF Of
  <2> QED BY <1>3, <2>1, <2>2, <2>3 DEF HeldInv
<1>7. Kept' \subseteq Todo
  BY DEF Kept, OnDisk, InHand, Of, Taken
<1>8. Taken(running)' = Taken(running) /\ Of(writing) \subseteq Of(writing)' \cup Of({r})
  BY <1>1 DEF Taken, Of
<1>9. Cardinality(Kept) <= Cardinality(Kept') + Credit
  <2>1. CASE Credit = 0
    <3>1. file.whole = {} /\ ~file.part
      BY <2>1 DEF Credit
    <3>2. OnDisk \cup Of({r}) \subseteq OnDisk'
      BY <1>2, <3>1 DEF OnDisk, Of, Checkpointed
    <3>3. Kept \subseteq Kept'
      BY <1>8, <3>2 DEF Kept, InHand
    <3> QED BY <1>7, <2>1, <3>3, TodoIsFinite, FS_Subset
  <2>2. CASE Credit = 1
    <3>1. file.whole = {}
      BY <2>2 DEF Credit, TornInv
    <3>2. OnDisk \subseteq OnDisk'
      BY <1>2, <3>1 DEF OnDisk, Of, Checkpointed
    <3>3. Kept \subseteq Kept' \cup Of({r})
      BY <1>8, <3>2 DEF Kept, InHand
    <3>4. Of({r}) \subseteq Todo /\ Cardinality(Of({r})) \in {0, 1}
      BY OneGone
    <3>5. Cardinality(Kept) <= Cardinality(Kept') + Cardinality(Of({r}))
      BY <1>7, <3>3, <3>4, CoveredBy
    <3> QED BY <1>7, <2>2, <3>4, <3>5, KeptIs, TodoIsFinite
  <2>3. CASE Credit = 2
    <3>1. OnDisk \subseteq OnDisk' \cup Of(file.whole)
      BY <1>2 DEF OnDisk, Of, Checkpointed
    <3>2. Kept \subseteq Kept' \cup Of({r}) \cup Of(file.whole) \cup {}
      BY <1>8, <3>1 DEF Kept, InHand
    <3>3. Of({r}) \subseteq Todo /\ Cardinality(Of({r})) \in {0, 1}
      BY OneGone
    <3>4. Of(file.whole) \subseteq Todo /\ Cardinality(Of(file.whole)) \in {0, 1}
      BY OneGone DEF TornInv
    <3>5. Cardinality(Kept) <= Cardinality(Kept') + Cardinality(Of({r}))
                                 + Cardinality(Of(file.whole)) + Cardinality({})
      BY <1>7, <3>2, <3>3, <3>4, Covers
    <3> QED BY <1>7, <2>3, <3>3, <3>4, <3>5, KeptIs, TodoIsFinite, FS_EmptySet
  <2> QED BY <2>1, <2>2, <2>3, CreditIs
<1>10. CostInv'
  <2>1. /\ Lost(deaths)' = Lost(deaths) /\ Lost(deaths) \in Nat /\ Credit \in {0, 1, 2}
        /\ ran \in Nat /\ ran' = ran /\ Cardinality(Kept) \in Nat /\ Cardinality(Kept') \in Nat
    BY <1>1, <1>7, CreditIs, LostOneMore, KeptIs, TodoIsFinite DEF SlotInv, Lost
  <2> QED BY <1>4, <1>9, <2>1 DEF CostInv
<1> QED BY <1>4, <1>5, <1>6, <1>10

\* What the workers have in hand when they die.
LEMMA InHandIsBounded ==
    ASSUME SlotInv, NEW R, R \subseteq writing
    PROVE  /\ IsFiniteSet(R) /\ Cardinality(R) \in Nat
           /\ Cardinality(Taken(running) \cup Of(R)) <= Cardinality(running) + Cardinality(R)
<1>1. IsFiniteSet(R)
  BY FS_Subset DEF SlotInv
<1>2. /\ Cardinality(Taken(running)) <= Cardinality(running)
      /\ Cardinality(Of(R)) <= Cardinality(R)
  BY <1>1, OfIsBounded, TakenIsBounded DEF SlotInv
<1>3. Taken(running) \subseteq Todo /\ Of(R) \subseteq Todo
  BY DEF Taken, Of
<1>4. Cardinality(Taken(running) \cup Of(R)) <= Cardinality(Taken(running)) + Cardinality(Of(R))
  BY <1>3, CoveredBy
<1>5. /\ Cardinality(Taken(running)) \in Nat /\ Cardinality(Of(R)) \in Nat
      /\ Cardinality(Taken(running) \cup Of(R)) \in Nat
  BY <1>3, TodoIsFinite
<1>6. Cardinality(running) \in Nat /\ Cardinality(R) \in Nat
  BY <1>1, FS_CardinalityType DEF SlotInv
<1> QED BY <1>1, <1>2, <1>4, <1>5, <1>6

LEMMA CrashCosts ==
    ASSUME AskedInv, Die
    PROVE  CountInv'
<1> USE DEF AskedInv, CountInv
<1>1. /\ stage' = "stopped" /\ deaths' = deaths + 1
      /\ running' = {} /\ writing' = {} /\ fresh' = {} /\ ran' = ran
      /\ file' \in {file} \cup UNION {HalfAppended(r) : r \in writing}
  BY DEF Die
<1>2. /\ deaths \in Nat /\ ran \in Nat /\ Jobs \in Nat
      /\ Cardinality(running) \in Nat /\ Cardinality(writing) \in Nat
      /\ Cardinality(running) + Cardinality(writing) <= Jobs
  BY FS_CardinalityType, GobraAssumption DEF SlotInv
<1>3. \/ file' = file
      \/ file'.lines = file.lines /\ file'.whole = {} /\ file'.part = TRUE
      \/ /\ file.whole = {} /\ ~file.part
         /\ \E r \in writing :
               file'.lines = file.lines /\ file'.whole = {r} /\ file'.part = FALSE
  BY <1>1 DEF HalfAppended
<1>4. SlotInv' /\ HeldInv'
  BY <1>1, <1>2, FS_EmptySet DEF SlotInv, HeldInv
<1>5. TornInv'
  BY <1>3 DEF TornInv
<1>6. Kept' = OnDisk' /\ OnDisk' \subseteq Todo
  BY <1>1 DEF Kept, InHand, OnDisk, Of, Taken
<1> DEFINE k == Cardinality(Kept)
           n == Cardinality(OnDisk')
           l == Lost(deaths)
<1>7. /\ k \in Nat /\ n \in Nat /\ l \in Nat /\ Credit \in {0, 1, 2}
      /\ Lost(deaths)' = l + Jobs + 1 /\ ran + Credit <= k + l
  <2>1. Lost(deaths)' = Lost(deaths + 1)
    BY <1>1 DEF Lost
  <2> QED BY <1>2, <1>6, <2>1, KeptIs, TodoIsFinite, LostOneMore, CreditIs DEF CostInv
<1>8. SUFFICES ran + Credit' <= n + l + Jobs + 1
  BY <1>1, <1>2, <1>4, <1>5, <1>6, <1>7 DEF CostInv
<1>9. Cardinality(InHand) <= Jobs /\ Cardinality(InHand) \in Nat
  <2>1. Cardinality(InHand) <= Cardinality(running) + Cardinality(writing)
    BY InHandIsBounded DEF InHand
  <2> QED BY <1>2, <2>1, KeptIs, TodoIsFinite
<1>10. OnDisk \subseteq OnDisk' => ran + Credit <= n + Jobs + l
  <2> SUFFICES ASSUME OnDisk \subseteq OnDisk' PROVE ran + Credit <= n + Jobs + l
    OBVIOUS
  <2>1. Kept \subseteq OnDisk' \cup InHand
    BY DEF Kept
  <2>2. k <= n + Cardinality(InHand)
    BY <1>6, <2>1, KeptIs, CoveredBy
  <2> HIDE DEF k, n, l
  <2> QED BY <1>2, <1>7, <1>9, <2>2
<1>11. CASE file.whole # {} /\ file'.lines = file.lines /\ file'.whole = {} /\ file'.part = TRUE
  <2>1. Credit = 2 /\ Credit' = 1
    BY <1>11 DEF Credit, TornInv
  <2>2. OnDisk \subseteq OnDisk' \cup Of(file.whole)
    BY <1>11 DEF OnDisk, Of, Checkpointed
  <2>3. Kept \subseteq OnDisk' \cup InHand \cup Of(file.whole) \cup {}
    BY <2>2 DEF Kept
  <2>4. Of(file.whole) \subseteq Todo /\ Cardinality(Of(file.whole)) \in {0, 1}
    BY OneGone DEF TornInv
  <2>5. k <= n + Cardinality(InHand) + Cardinality(Of(file.whole)) + Cardinality({})
    BY <1>6, <2>3, <2>4, KeptIs, Covers
  <2>6. Cardinality({}) = 0
    BY FS_EmptySet
  <2> HIDE DEF k, n, l
  <2> QED BY <1>2, <1>7, <1>9, <2>1, <2>4, <2>5, <2>6
<1>12. CASE /\ file.whole = {} /\ ~file.part
            /\ \E r \in writing :
                  file'.lines = file.lines /\ file'.whole = {r} /\ file'.part = FALSE
  <2>1. PICK r \in writing :
            file'.lines = file.lines /\ file'.whole = {r} /\ file'.part = FALSE
    BY <1>12
  <2> DEFINE H == Taken(running) \cup Of(writing \ {r})
  <2>2. Credit = 0 /\ Credit' = 2
    BY <1>12, <2>1 DEF Credit
  <2>3. Kept \subseteq OnDisk' \cup H /\ H \subseteq Todo
    <3>1. OnDisk \subseteq OnDisk'
      BY <1>12, <2>1 DEF OnDisk, Of, Checkpointed
    <3>2. Of(writing) \subseteq OnDisk' \cup Of(writing \ {r})
      BY <2>1 DEF OnDisk, Of, Checkpointed
    <3>3. H \subseteq Todo
      BY DEF Taken, Of
    <3> QED BY <3>1, <3>2, <3>3 DEF Kept, InHand
  <2>4. Cardinality(H) <= Jobs - 1 /\ Cardinality(H) \in Nat
    <3>1. writing \ {r} \subseteq writing
      OBVIOUS
    <3>2. /\ Cardinality(writing \ {r}) = Cardinality(writing) - 1
      BY FS_RemoveElement DEF SlotInv
    <3>3. Cardinality(H) <= Cardinality(running) + Cardinality(writing \ {r})
      BY <3>1, InHandIsBounded
    <3>4. Cardinality(H) \in Nat
      BY <2>3, TodoIsFinite
    <3> HIDE DEF H
    <3> QED BY <1>2, <3>2, <3>3, <3>4
  <2>5. k <= n + Cardinality(H)
    <3> HIDE DEF H
    <3> QED BY <1>6, <2>3, CoveredBy
  <2> HIDE DEF H, k, n, l
  <2> QED BY <1>2, <1>7, <2>2, <2>4, <2>5
<1>13. CASE file' = file
  <2>1. OnDisk' = OnDisk /\ Credit' = Credit
    BY <1>13 DEF OnDisk, Of, Checkpointed, Credit
  <2> HIDE DEF k, n, l
  <2> QED BY <1>2, <1>7, <1>10, <2>1
<1>14. CASE file.whole = {} /\ file'.lines = file.lines /\ file'.whole = {} /\ file'.part = TRUE
  <2>1. OnDisk' = OnDisk /\ Credit' = 1
    BY <1>14 DEF OnDisk, Of, Checkpointed, Credit
  <2> HIDE DEF k, n, l
  <2> QED BY <1>2, <1>7, <1>10, <2>1
<1> QED BY <1>3, <1>11, <1>12, <1>13, <1>14

LEMMA AskedInvIsInductive ==
    ASSUME AskedInv, [CanaryNext]_canaryVars
    PROVE  AskedInv'
<1>1. CanaryInv'
  BY CanaryInvIsInductive DEF AskedInv
<1>2. SUFFICES CountInv'
  BY <1>1 DEF AskedInv
<1>3. /\ CountInv /\ writing \subseteq fresh
      /\ stage # "sweep" => running = {} /\ writing = {}
  BY DEF AskedInv, CountInv, SlotInv
<1>4. ASSUME UNCHANGED <<known, fresh, file>>,
             stage' \in {"selftest", "infeasible", "sweep"}
                 => stage \in {"selftest", "infeasible", "sweep"}
      PROVE  HeldInv'
  <2>1. OnDisk' = OnDisk /\ Of(known \cup fresh)' = Of(known \cup fresh)
    BY <1>4 DEF OnDisk, Of, Checkpointed
  <2> QED BY <1>3, <1>4, <2>1 DEF HeldInv, CountInv
<1>5. CASE EditBody
  <2>1. UNCHANGED <<stage, known, running, writing, fresh, file, deaths, ran>>
    BY <1>5 DEF EditBody
  <2> QED BY <1>3, <1>4, <2>1, CostStays
<1>6. ASSUME NEW skipSelf \in BOOLEAN, StartCanaries(skipSelf) PROVE CountInv'
  BY <1>3, <1>6, StartCosts
<1>7. CASE SelfTest \/ Infeasible
  <2>1. /\ stage \in {"selftest", "infeasible"}
        /\ stage' \in {"infeasible", "sweep", "failed"}
        /\ UNCHANGED <<known, running, writing, fresh, file, deaths, ran>>
    BY <1>7 DEF SelfTest, Infeasible
  <2> QED BY <1>3, <1>4, <2>1, CostStays
<1>8. ASSUME NEW c \in Todo, Take(c) PROVE CountInv'
  BY <1>8, TakeCosts
<1>9. ASSUME NEW w \in running, Score(w) PROVE CountInv'
  BY <1>9, ScoreCosts
<1>10. ASSUME NEW r \in writing, WriteLine(r) PROVE CountInv'
  BY <1>10, WriteCosts
<1>11. CASE Publish
  <2>1. /\ stage = "sweep" /\ running = {} /\ writing = {} /\ stage' = "done"
        /\ UNCHANGED <<known, running, writing, fresh, file, deaths, ran>>
    BY <1>11 DEF Publish
  <2> QED BY <1>3, <1>4, <2>1, CostStays
<1>12. CASE Die
  BY <1>12, CrashCosts
<1>13. CASE UNCHANGED canaryVars
  <2>1. UNCHANGED <<stage, known, running, writing, fresh, file, deaths, ran>>
    BY <1>13 DEF canaryVars
  <2> QED BY <1>3, <1>4, <2>1, CostStays
<1> QED
  BY <1>5, <1>6, <1>7, <1>8, <1>9, <1>10, <1>11, <1>12, <1>13 DEF CanaryNext, CanarySweep

-----------------------------------------------------------------------------
(* The theorems *)

\* Every record, in memory or on disk, is what the solver said of one clause
\* once (runCanary, readCheckpoint).
THEOREM CanaryInvariant == CanarySpec => []CanaryInv
<1>1. CanaryInit => CanaryInv
  BY CanaryInitInv
<1>2. CanaryInv /\ [CanaryNext]_canaryVars => CanaryInv'
  BY CanaryInvIsInductive
<1> QED BY <1>1, <1>2, PTL DEF CanarySpec

\* In a package that verifies, VACUOUS and an audited REFUTABLE mean what they
\* say, whatever the solver did and whichever sweep asked it (runCanary, negate,
\* audit, reach).
THEOREM VerdictsTell == CanarySpec => []VerdictsAreTrue
<1>1. ASSUME CanaryInv PROVE VerdictsAreTrue
  <2> SUFFICES ASSUME NEW r \in Results, Green(r.of)
               PROVE  /\ r.verdict = "VACUOUS" => Vacuous(r.asked, r.of)
                      /\ Backed(r) => ~Vacuous(r.asked, r.of)
                      /\ r.verdict = "VACUOUS" /\ ~r.asked.guarded =>
                            Reach(r.asked.member, r.of) = "UNREACHABLE"
    BY DEF VerdictsAreTrue
  <2>1. Scored(r)
    BY <1>1 DEF CanaryInv, RecordsInv, Results
  <2> QED BY <2>1, ScoredIsTrue
<1> QED BY <1>1, CanaryInvariant, PTL

\* A published row is about the clause it stands at: keys of member and text,
\* and a row for every functional clause (key, readCheckpoint, cmdCanary).
THEOREM RowsTell == CanarySpec => []RowsAreTheirOwn
<1>1. ASSUME CanaryInv PROVE RowsAreTheirOwn
  <2> SUFFICES ASSUME stage = "done", NEW c \in Todo PROVE out[c].asked = c
    BY DEF RowsAreTheirOwn
  <2>1. Scored(out[c]) /\ out[c].key = Key(c)
    BY <1>1 DEF CanaryInv, RecordsInv, RunInv
  <2>2. PICK d \in Todo : out[c].key = Key(d) /\ out[c].asked = d
    BY <2>1, ScoredIs
  <2>3. c \in Clauses /\ d \in Clauses
    BY DEF Todo
  <2> QED BY <2>1, <2>2, <2>3, GobraAssumption DEF Key
<1> QED BY <1>1, CanaryInvariant, PTL

\* However often it dies and is run again, a death of the sweep costs the canaries
\* its workers were at and one record spoilt on the line it tore: no other clause
\* is asked twice (readCheckpoint, ckptMu, the slots, the pending clauses).
THEOREM DeathsCostLittle == CanarySpec => []CrashesCostLittle
<1>1. CanaryInit => AskedInv
  BY CanaryInitInv, CostInit DEF AskedInv
<1>2. AskedInv /\ [CanaryNext]_canaryVars => AskedInv'
  BY AskedInvIsInductive
<1>3. ASSUME AskedInv PROVE CrashesCostLittle
  <2>1. Cardinality(Kept) <= Cardinality(Todo) /\ Cardinality(Todo) \in Nat
    BY KeptIs, TodoIsFinite, FS_Subset
  <2>2. /\ Credit \in Nat /\ Lost(deaths) \in Nat /\ ran \in Nat /\ Cardinality(Kept) \in Nat
        /\ ran + Credit <= Cardinality(Kept) + Lost(deaths)
    BY <1>3, CreditIs, LostOneMore, KeptIs DEF AskedInv, CountInv, SlotInv, CostInv
  <2>3. ran <= Cardinality(Todo) + Lost(deaths)
    BY <2>1, <2>2
  <2> QED BY <2>3 DEF Lost, CrashesCostLittle
<1> QED BY <1>1, <1>2, <1>3, PTL DEF CanarySpec
=============================================================================
