----------------------------- MODULE Pages_proofs -----------------------------
(***************************************************************************)
(* Proofs about the pages of module Pages, for every log, every set of     *)
(* visible positions and every limit: what Kept returns, and that the scan *)
(* which stops early cuts the page Kept means.  And about a restored log:  *)
(* what a stable sort keeps, and that comparing neighbours compares all.   *)
(*                                                                         *)
(* Kept and the scan are recursive functions, so the facts are proved by   *)
(* induction on the position.  The induction is first-order: a set of      *)
(* naturals that contains 0 and is closed under successor is Nat, which is *)
(* WFMin of WellFoundedInduction for the complement.                       *)
(***************************************************************************)
EXTENDS MemStore, FiniteSetTheorems, WellFoundedInduction, TLAPS

LEMMA LeastElement ==
    ASSUME NEW T, T \subseteq Nat, T # {}
    PROVE  \E m \in T : \A k \in T : m <= k
<1> DEFINE Less == {p \in Nat \X Nat : p[1] < p[2]}
<1>1. IsWellFoundedOn(Less, Nat)
  BY NatLessThanWellFounded DEF OpToRel
<1>2. PICK m \in T : \A k \in T : <<k, m>> \notin Less
  <2> HIDE DEF Less
  <2> QED BY <1>1, WFMin
<1>3. ASSUME NEW k \in T PROVE m <= k
  <2>1. <<k, m>> \in Nat \X Nat /\ ~(k < m)
    BY <1>2
  <2> QED BY <2>1
<1> QED BY <1>3

LEMMA Induction ==
    ASSUME NEW T, 0 \in T, \A n \in Nat : n \in T => n + 1 \in T
    PROVE  \A n \in Nat : n \in T
<1> SUFFICES ASSUME NEW n \in Nat, n \notin T PROVE FALSE
  OBVIOUS
<1> DEFINE Out == {k \in Nat : k \notin T}
<1>1. PICK m \in Out : \A k \in Out : m <= k
  <2>1. Out # {} /\ Out \subseteq Nat
    OBVIOUS
  <2> HIDE DEF Out
  <2> QED BY <2>1, LeastElement
<1>2. m - 1 \in Nat
  OBVIOUS
<1>3. m - 1 \in T
  BY <1>1, <1>2
<1>4. (m - 1) + 1 = m
  OBVIOUS
<1> QED BY <1>1, <1>2, <1>3, <1>4

\* A table filled from its first entry on: F[k] is the step to entry k.
HasTable(A, n, e, F) ==
    \E g \in [0..n -> A] : g[0] = e /\ \A k \in 1..n : g[k] = F[k][g[k - 1]]

LEMMA TableExists ==
    ASSUME NEW A, NEW n \in Nat, NEW e \in A, NEW F,
           \A k \in 1..n : \A a \in A : F[k][a] \in A
    PROVE  HasTable(A, n, e, F)
<1> DEFINE Filled(m) == \E g \in [0..m -> A] :
                           g[0] = e /\ \A k \in 1..m : g[k] = F[k][g[k - 1]]
           T == {m \in Nat : m <= n => Filled(m)}
<1>1. 0 \in T
  <2> DEFINE g == [k \in 0..0 |-> e]
  <2>1. g \in [0..0 -> A] /\ g[0] = e /\ \A k \in 1..0 : g[k] = F[k][g[k - 1]]
    OBVIOUS
  <2> QED BY <2>1
<1>2. ASSUME NEW m \in Nat, m \in T PROVE m + 1 \in T
  <2> SUFFICES ASSUME m + 1 <= n PROVE Filled(m + 1)
    OBVIOUS
  <2>1. PICK g \in [0..m -> A] : g[0] = e /\ \A k \in 1..m : g[k] = F[k][g[k - 1]]
    BY <1>2
  <2> DEFINE h == [k \in 0..(m + 1) |-> IF k = m + 1 THEN F[m + 1][g[m]] ELSE g[k]]
  <2>2. m + 1 \in 1..n /\ g[m] \in A
    OBVIOUS
  <2>3. F[m + 1][g[m]] \in A
    BY <2>2
  <2>4. h \in [0..(m + 1) -> A] /\ h[0] = e
    BY <2>1, <2>3
  <2>5. ASSUME NEW k \in 1..(m + 1) PROVE h[k] = F[k][h[k - 1]]
    <3>1. CASE k = m + 1
      BY <3>1
    <3>2. CASE k # m + 1
      <4>1. k \in 1..m /\ k - 1 \in 0..m /\ k - 1 # m + 1 /\ k \in 0..(m + 1)
                       /\ k - 1 \in 0..(m + 1)
        BY <3>2
      <4> QED BY <2>1, <3>2, <4>1
    <3> QED BY <3>1, <3>2
  <2> HIDE DEF h
  <2> QED BY <2>4, <2>5
<1>3. \A m \in Nat : m \in T
  <2> HIDE DEF T
  <2> QED BY <1>1, <1>2, Induction
<1> QED BY <1>3 DEF HasTable

-----------------------------------------------------------------------------
(* The recursive functions satisfy their equations *)

\* The table that Kept reads its last entry from.
IsKeptTable(g, s, shown) ==
    /\ g[0] = << >>
    /\ \A k \in 1..Len(s) :
          g[k] = IF k \in shown THEN Append(g[k - 1], s[k]) ELSE g[k - 1]

LEMMA KeptTable ==
    ASSUME NEW S, NEW s \in Seq(S), NEW shown
    PROVE  \E g \in [0..Len(s) -> Seq(S)] :
              IsKeptTable(g, s, shown) /\ Kept(s, shown) = g[Len(s)]
<1> DEFINE n == Len(s)
           Body(g) == [k \in 0..n |->
                         IF k = 0 THEN << >>
                         ELSE IF k \in shown THEN Append(g[k - 1], s[k]) ELSE g[k - 1]]
           upto == CHOOSE g : g = Body(g)
           F == [k \in 1..n |-> [a \in Seq(S) |-> IF k \in shown THEN Append(a, s[k]) ELSE a]]
<1>1. n \in Nat /\ \A k \in 1..n : s[k] \in S
  OBVIOUS
<1>2. \A k \in 1..n : \A a \in Seq(S) : F[k][a] \in Seq(S)
  BY <1>1
<1>3. PICK f \in [0..n -> Seq(S)] : f[0] = << >> /\ \A k \in 1..n : f[k] = F[k][f[k - 1]]
  <2> DEFINE A == Seq(S)
  <2>1. << >> \in A /\ n \in Nat /\ \A k \in 1..n : \A a \in A : F[k][a] \in A
    BY <1>1, <1>2
  <2> HIDE DEF F, n, A
  <2>2. HasTable(A, n, << >>, F)
    BY <2>1, TableExists
  <2> QED BY <2>2 DEF A, HasTable
<1>4. ASSUME NEW k \in 1..n
      PROVE  f[k] = IF k \in shown THEN Append(f[k - 1], s[k]) ELSE f[k - 1]
  <2>1. k - 1 \in 0..n /\ f[k - 1] \in Seq(S)
    BY <1>1, <1>3
  <2> QED BY <1>3, <2>1
<1>5. f = Body(f)
  <2>1. \A k \in 0..n : k = 0 \/ k \in 1..n
    BY <1>1
  <2>2. \A k \in 0..n : f[k] = IF k = 0 THEN << >>
                               ELSE IF k \in shown THEN Append(f[k - 1], s[k]) ELSE f[k - 1]
    BY <1>1, <1>3, <1>4, <2>1
  <2> HIDE DEF n
  <2> QED BY <1>3, <2>2
<1>6. upto = Body(upto)
  <2> HIDE DEF Body
  <2> QED BY <1>5
<1>7. Kept(s, shown) = upto[n]
  BY DEF Kept
<1> HIDE DEF upto, F
<1>8. IsKeptTable(upto, s, shown)
  <2>1. \A k \in 0..n : upto[k] = IF k = 0 THEN << >>
                                  ELSE IF k \in shown THEN Append(upto[k - 1], s[k])
                                  ELSE upto[k - 1]
    <3> HIDE DEF n
    <3> QED BY <1>6
  <2>2. 0 \in 0..n /\ \A k \in 1..n : k \in 0..n /\ k # 0
    BY <1>1
  <2> QED BY <2>1, <2>2 DEF IsKeptTable
<1> DEFINE T == {k \in Nat : k <= n => upto[k] \in Seq(S)}
<1>9. \A k \in Nat : k \in T
  <2>1. 0 \in T
    <3>1. upto[0] = << >>
      BY <1>8 DEF IsKeptTable
    <3>2. upto[0] \in Seq(S)
      BY <3>1
    <3> HIDE DEF n
    <3> QED BY <3>2
  <2>2. ASSUME NEW k \in Nat, k \in T PROVE k + 1 \in T
    <3> SUFFICES ASSUME k + 1 <= n PROVE upto[k + 1] \in Seq(S)
      OBVIOUS
    <3>1. upto[k] \in Seq(S) /\ k + 1 \in 1..n /\ (k + 1) - 1 = k
      BY <1>1, <2>2
    <3>2. s[k + 1] \in S
      BY <1>1, <3>1
    <3>3. upto[k + 1] = IF k + 1 \in shown THEN Append(upto[k], s[k + 1]) ELSE upto[k]
      <4> HIDE DEF n
      <4> QED BY <1>8, <3>1 DEF IsKeptTable, n
    <3> QED BY <3>1, <3>2, <3>3
  <2> HIDE DEF T
  <2> QED BY <2>1, <2>2, Induction
<1>10. upto \in [0..n -> Seq(S)]
  <2>1. \A k \in 0..n : upto[k] \in Seq(S)
    BY <1>1, <1>9
  <2> QED BY <1>6, <2>1
<1> QED BY <1>7, <1>8, <1>10

\* The table that ScanPage reads its last entry from.
Partial(S) == [page : Seq(S), more : BOOLEAN]

ScanStep(before, s, k, shown, limit) ==
    IF before.more \/ k \notin shown THEN before
    ELSE IF Len(before.page) = limit THEN [before EXCEPT !.more = TRUE]
    ELSE [before EXCEPT !.page = Append(@, s[k])]

IsScanTable(g, s, shown, limit) ==
    /\ g[0] = [page |-> << >>, more |-> FALSE]
    /\ \A k \in 1..Len(s) : g[k] = ScanStep(g[k - 1], s, k, shown, limit)

LEMMA ScanStepType ==
    ASSUME NEW S, NEW s \in Seq(S), NEW k \in 1..Len(s), NEW shown, NEW limit,
           NEW before \in Partial(S)
    PROVE  ScanStep(before, s, k, shown, limit) \in Partial(S)
<1>1. s[k] \in S
  OBVIOUS
<1>2. Append(before.page, s[k]) \in Seq(S)
  BY <1>1 DEF Partial
<1> QED BY <1>2 DEF Partial, ScanStep

LEMMA ScanTable ==
    ASSUME NEW S, NEW s \in Seq(S), NEW shown, NEW limit
    PROVE  \E g : IsScanTable(g, s, shown, limit) /\ ScanPage(s, shown, limit) = g[Len(s)]
<1> DEFINE n == Len(s)
           Start == [page |-> << >>, more |-> FALSE]
           Body(g) == [k \in 0..n |-> IF k = 0 THEN Start
                                      ELSE ScanStep(g[k - 1], s, k, shown, limit)]
           scan == CHOOSE g : g = Body(g)
           F == [k \in 1..n |-> [a \in Partial(S) |-> ScanStep(a, s, k, shown, limit)]]
<1>1. n \in Nat
  OBVIOUS
<1>2. \A k \in 1..n : \A a \in Partial(S) : F[k][a] \in Partial(S)
  BY ScanStepType
<1>3. PICK f \in [0..n -> Partial(S)] : f[0] = Start /\ \A k \in 1..n : f[k] = F[k][f[k - 1]]
  <2> DEFINE A == Partial(S)
  <2>1. Start \in A
    BY DEF Partial
  <2>2. n \in Nat /\ \A k \in 1..n : \A a \in A : F[k][a] \in A
    BY <1>1, <1>2
  <2> HIDE DEF F, n, A, Start
  <2>3. HasTable(A, n, Start, F)
    BY <2>1, <2>2, TableExists
  <2> QED BY <2>3 DEF A, HasTable
<1>4. ASSUME NEW k \in 1..n PROVE f[k] = ScanStep(f[k - 1], s, k, shown, limit)
  <2>1. k - 1 \in 0..n /\ f[k - 1] \in Partial(S)
    BY <1>1, <1>3
  <2> QED BY <1>3, <2>1
<1>5. f = Body(f)
  <2>1. \A k \in 0..n : k = 0 \/ k \in 1..n
    BY <1>1
  <2>2. \A k \in 0..n : f[k] = IF k = 0 THEN Start
                               ELSE ScanStep(f[k - 1], s, k, shown, limit)
    BY <1>1, <1>3, <1>4, <2>1
  <2> HIDE DEF n, Start
  <2> QED BY <1>3, <2>2
<1>6. scan = Body(scan)
  <2> HIDE DEF Body
  <2> QED BY <1>5
<1>7. ScanPage(s, shown, limit) = scan[n]
  BY DEF ScanPage, ScanStep
<1> HIDE DEF scan, F
<1>8. IsScanTable(scan, s, shown, limit)
  <2>1. \A k \in 0..n : scan[k] = IF k = 0 THEN Start
                                  ELSE ScanStep(scan[k - 1], s, k, shown, limit)
    <3> HIDE DEF n, Start
    <3> QED BY <1>6
  <2>2. 0 \in 0..n /\ \A k \in 1..n : k \in 0..n /\ k # 0
    BY <1>1
  <2> QED BY <2>1, <2>2 DEF IsScanTable
<1> QED BY <1>7, <1>8

-----------------------------------------------------------------------------
(* What Kept returns *)

\* at lists, in order, the positions up to m that are shown; kept is what s
\* holds there.
Selects(at, kept, s, shown, m) ==
    /\ at \in [1..Len(kept) -> 1..m]
    /\ \A i \in 1..Len(kept) : at[i] \in shown /\ kept[i] = s[at[i]]
    /\ \A i, j \in 1..Len(kept) : i < j => at[i] < at[j]
    /\ \A p \in 1..m : p \in shown => \E i \in 1..Len(kept) : at[i] = p

HasSelection(kept, s, shown, m) == \E at : Selects(at, kept, s, shown, m)

LEMMA SelectionSkips ==
    ASSUME NEW S, NEW s \in Seq(S), NEW shown, NEW m \in Nat, NEW kept \in Seq(S),
           HasSelection(kept, s, shown, m), m + 1 \notin shown
    PROVE  HasSelection(kept, s, shown, m + 1)
<1>1. PICK at : Selects(at, kept, s, shown, m)
  BY DEF HasSelection
<1>2. \A p \in 1..(m + 1) : p \in 1..m \/ p = m + 1
  OBVIOUS
<1>3. 1..m \subseteq 1..(m + 1)
  OBVIOUS
<1>4. at \in [1..Len(kept) -> 1..(m + 1)]
  BY <1>1, <1>3 DEF Selects
<1>5. Selects(at, kept, s, shown, m + 1)
  BY <1>1, <1>2, <1>4 DEF Selects
<1> QED BY <1>5 DEF HasSelection

LEMMA SelectionTakes ==
    ASSUME NEW S, NEW s \in Seq(S), NEW shown, NEW m \in Nat, NEW kept \in Seq(S),
           m + 1 \in 1..Len(s), HasSelection(kept, s, shown, m), m + 1 \in shown
    PROVE  HasSelection(Append(kept, s[m + 1]), s, shown, m + 1)
<1>1. PICK at : Selects(at, kept, s, shown, m)
  BY DEF HasSelection
<1> DEFINE longer == Append(kept, s[m + 1])
           n == Len(kept)
           next == [i \in 1..(n + 1) |-> IF i = n + 1 THEN m + 1 ELSE at[i]]
<1>2. s[m + 1] \in S /\ n \in Nat
  OBVIOUS
<1>3. Len(longer) = n + 1 /\ longer[n + 1] = s[m + 1] /\ \A i \in 1..n : longer[i] = kept[i]
  BY <1>2
<1> HIDE DEF longer, n
<1>4. \A i \in 1..(n + 1) : i = n + 1 \/ (i \in 1..n /\ i # n + 1)
  BY <1>2
<1>5. \A i \in 1..n : at[i] \in 1..m /\ at[i] \in shown /\ kept[i] = s[at[i]]
  BY <1>1 DEF Selects, n
<1>6. /\ next[n + 1] = m + 1
      /\ \A i \in 1..n : next[i] = at[i] /\ i \in 1..(n + 1)
  BY <1>2
<1>7. next \in [1..(n + 1) -> 1..(m + 1)]
  BY <1>2, <1>4, <1>5
<1> HIDE DEF next
<1>8. \A i \in 1..(n + 1) : next[i] \in shown /\ longer[i] = s[next[i]]
  BY <1>3, <1>4, <1>5, <1>6
<1>9. ASSUME NEW i \in 1..(n + 1), NEW j \in 1..(n + 1), i < j PROVE next[i] < next[j]
  <2>1. i \in 1..n
    BY <1>2, <1>9
  <2>2. CASE j = n + 1
    BY <1>5, <1>6, <2>1, <2>2
  <2>3. CASE j \in 1..n
    BY <1>1, <1>6, <1>9, <2>1, <2>3 DEF Selects, n
  <2> QED BY <1>4, <2>2, <2>3
<1>10. ASSUME NEW p \in 1..(m + 1), p \in shown PROVE \E i \in 1..(n + 1) : next[i] = p
  <2>1. CASE p = m + 1
    BY <1>2, <1>6, <2>1
  <2>2. CASE p \in 1..m
    <3>1. PICK i \in 1..n : at[i] = p
      BY <1>1, <1>10, <2>2 DEF Selects, n
    <3> QED BY <1>6, <3>1
  <2> QED BY <2>1, <2>2
<1>11. Selects(next, longer, s, shown, m + 1)
  BY <1>3, <1>7, <1>8, <1>9, <1>10 DEF Selects
<1> QED BY <1>11 DEF HasSelection, longer

(* Kept (spec/s_obs/step.go:376-395) returns exactly the shown entries of  *)
(* the log, in the order of the log, each once.                            *)
THEOREM KeptIsSelection ==
    ASSUME NEW S, NEW s \in Seq(S), NEW shown
    PROVE  Kept(s, shown) \in Seq(S) /\ HasSelection(Kept(s, shown), s, shown, Len(s))
<1>1. PICK g \in [0..Len(s) -> Seq(S)] :
              IsKeptTable(g, s, shown) /\ Kept(s, shown) = g[Len(s)]
  BY KeptTable
<1> DEFINE n == Len(s)
           T == {k \in Nat : k <= n => HasSelection(g[k], s, shown, k)}
<1>2. n \in Nat
  OBVIOUS
<1>3. 0 \in T
  <2>1. g[0] = << >> /\ Len(<< >>) = 0 /\ 1..0 = {}
    BY <1>1 DEF IsKeptTable
  <2>2. << >> \in [1..0 -> 1..0]
    OBVIOUS
  <2>3. Selects(<< >>, << >>, s, shown, 0)
    BY <2>1, <2>2 DEF Selects
  <2>4. HasSelection(g[0], s, shown, 0)
    BY <2>1, <2>3 DEF HasSelection
  <2> QED BY <2>4
<1>4. ASSUME NEW k \in Nat, k \in T PROVE k + 1 \in T
  <2> SUFFICES ASSUME k + 1 <= n PROVE HasSelection(g[k + 1], s, shown, k + 1)
    OBVIOUS
  <2>1. k + 1 \in 1..n /\ (k + 1) - 1 = k /\ k \in 0..n
    BY <1>2
  <2>2. HasSelection(g[k], s, shown, k) /\ g[k] \in Seq(S)
    BY <1>1, <1>2, <1>4, <2>1
  <2>3. g[k + 1] = IF k + 1 \in shown THEN Append(g[k], s[k + 1]) ELSE g[k]
    BY <1>1, <2>1 DEF IsKeptTable
  <2> QED BY <2>1, <2>2, <2>3, SelectionSkips, SelectionTakes
<1>5. n \in T
  <2> HIDE DEF T, n
  <2> QED BY <1>2, <1>3, <1>4, Induction
<1> QED BY <1>1, <1>2, <1>5

-----------------------------------------------------------------------------
(* The scan stops early, and returns the page Kept means *)

\* The first limit entries of kept, and whether that is not all of them.
Cut(kept, limit) ==
    [page |-> SubSeq(kept, 1, IF Len(kept) < limit THEN Len(kept) ELSE limit),
     more |-> Len(kept) > limit]

\* A page that may still grow, and one that may not.
Open(page) == [page |-> page, more |-> FALSE]
Ended(page) == [page |-> page, more |-> TRUE]

LEMMA CutWhole ==
    ASSUME NEW S, NEW kept \in Seq(S), NEW limit \in Nat, Len(kept) <= limit
    PROVE  Cut(kept, limit) = Open(kept)
<1>1. (IF Len(kept) < limit THEN Len(kept) ELSE limit) = Len(kept)
  OBVIOUS
<1>2. SubSeq(kept, 1, Len(kept)) = kept
  OBVIOUS
<1>3. (Len(kept) > limit) = FALSE
  OBVIOUS
<1> QED BY <1>1, <1>2, <1>3 DEF Cut, Open

LEMMA CutPart ==
    ASSUME NEW S, NEW kept \in Seq(S), NEW limit \in Nat, Len(kept) > limit
    PROVE  Cut(kept, limit) = Ended(SubSeq(kept, 1, limit))
<1>1. (IF Len(kept) < limit THEN Len(kept) ELSE limit) = limit
  OBVIOUS
<1>2. (Len(kept) > limit) = TRUE
  OBVIOUS
<1> QED BY <1>1, <1>2 DEF Cut, Ended

LEMMA PrefixOfAppend ==
    ASSUME NEW S, NEW kept \in Seq(S), NEW x \in S, NEW limit \in Nat, limit <= Len(kept)
    PROVE  SubSeq(Append(kept, x), 1, limit) = SubSeq(kept, 1, limit)
<1> DEFINE longer == Append(kept, x)
<1>1. \A i \in 1..limit : longer[i] = kept[i] /\ longer[1 + i - 1] = longer[i]
                          /\ kept[1 + i - 1] = kept[i]
  OBVIOUS
<1>2. SubSeq(longer, 1, limit) = [i \in 1..limit |-> longer[i]]
  OBVIOUS
<1>3. SubSeq(kept, 1, limit) = [i \in 1..limit |-> kept[i]]
  OBVIOUS
<1> HIDE DEF longer
<1> QED BY <1>1, <1>2, <1>3

LEMMA StepWhenCut ==
    ASSUME NEW s, NEW k, NEW shown, NEW limit, NEW page
    PROVE  ScanStep(Ended(page), s, k, shown, limit) = Ended(page)
BY DEF ScanStep, Ended

LEMMA StepWhenFull ==
    ASSUME NEW s, NEW shown, NEW k \in shown, NEW limit, NEW page, Len(page) = limit
    PROVE  ScanStep(Open(page), s, k, shown, limit) = Ended(page)
<1>1. ~Open(page).more /\ Len(Open(page).page) = limit
  BY DEF Open
<1>2. [Open(page) EXCEPT !.more = TRUE] = Ended(page)
  <2>1. PICK f, t : f = FALSE /\ t = TRUE
    OBVIOUS
  <2>2. [[page |-> page, more |-> f] EXCEPT !.more = t] = [page |-> page, more |-> t]
    OBVIOUS
  <2> QED BY <2>1, <2>2 DEF Open, Ended
<1> QED BY <1>1, <1>2 DEF ScanStep

LEMMA StepWhenFits ==
    ASSUME NEW s, NEW shown, NEW k \in shown, NEW limit, NEW page, Len(page) # limit
    PROVE  ScanStep(Open(page), s, k, shown, limit) = Open(Append(page, s[k]))
<1>1. ~Open(page).more /\ Len(Open(page).page) # limit /\ Open(page).page = page
  BY DEF Open
<1>2. [Open(page) EXCEPT !.page = Append(page, s[k])] = Open(Append(page, s[k]))
  <2>1. PICK f : f = FALSE
    OBVIOUS
  <2>2. [[page |-> page, more |-> f] EXCEPT !.page = Append(page, s[k])]
          = [page |-> Append(page, s[k]), more |-> f]
    OBVIOUS
  <2> QED BY <2>1, <2>2 DEF Open
<1> QED BY <1>1, <1>2 DEF ScanStep

LEMMA CutStep ==
    ASSUME NEW S, NEW s \in Seq(S), NEW shown, NEW limit \in Nat, NEW k \in 1..Len(s),
           NEW kept \in Seq(S)
    PROVE  ScanStep(Cut(kept, limit), s, k, shown, limit)
             = Cut(IF k \in shown THEN Append(kept, s[k]) ELSE kept, limit)
<1>1. s[k] \in S
  OBVIOUS
<1> DEFINE longer == Append(kept, s[k])
<1>2. longer \in Seq(S) /\ Len(longer) = Len(kept) + 1 /\ Len(kept) \in Nat
  BY <1>1
<1>3. CASE k \notin shown
  BY <1>3 DEF ScanStep
<1>4. CASE k \in shown /\ Len(kept) < limit
  <2>1. Cut(kept, limit) = Open(kept)
    BY <1>4, CutWhole
  <2>2. Cut(longer, limit) = Open(longer)
    <3> HIDE DEF longer
    <3> QED BY <1>2, <1>4, CutWhole
  <2>3. Len(kept) # limit
    BY <1>2, <1>4
  <2> QED BY <1>4, <2>1, <2>2, <2>3, StepWhenFits
<1>5. CASE k \in shown /\ Len(kept) = limit
  <2>1. Cut(kept, limit) = Open(kept)
    BY <1>5, CutWhole
  <2>2. Cut(longer, limit) = Ended(SubSeq(longer, 1, limit))
    <3> HIDE DEF longer
    <3> QED BY <1>2, <1>5, CutPart
  <2>3. SubSeq(longer, 1, limit) = kept
    <3>1. SubSeq(kept, 1, limit) = kept
      BY <1>5
    <3>2. limit <= Len(kept)
      BY <1>2, <1>5
    <3> QED BY <1>1, <3>1, <3>2, PrefixOfAppend
  <2>4. ScanStep(Open(kept), s, k, shown, limit) = Ended(kept)
    BY <1>5, StepWhenFull
  <2> HIDE DEF longer
  <2>5. Cut(longer, limit) = Ended(kept)
    BY <2>2, <2>3
  <2> QED BY <1>5, <2>1, <2>4, <2>5 DEF longer
<1>6. CASE k \in shown /\ Len(kept) > limit
  <2>1. Cut(kept, limit) = Ended(SubSeq(kept, 1, limit))
    BY <1>6, CutPart
  <2>2. Cut(longer, limit) = Ended(SubSeq(longer, 1, limit))
    <3>1. Len(longer) > limit
      BY <1>2, <1>6
    <3> HIDE DEF longer
    <3> QED BY <1>2, <3>1, CutPart
  <2>3. SubSeq(longer, 1, limit) = SubSeq(kept, 1, limit)
    <3>1. limit <= Len(kept)
      BY <1>2, <1>6
    <3> QED BY <1>1, <3>1, PrefixOfAppend
  <2>4. ScanStep(Ended(SubSeq(kept, 1, limit)), s, k, shown, limit)
          = Ended(SubSeq(kept, 1, limit))
    BY StepWhenCut
  <2> HIDE DEF longer
  <2>5. Cut(longer, limit) = Ended(SubSeq(kept, 1, limit))
    BY <2>2, <2>3
  <2> QED BY <1>6, <2>1, <2>4, <2>5 DEF longer
<1>7. Len(kept) < limit \/ Len(kept) = limit \/ Len(kept) > limit
  BY <1>2
<1> QED BY <1>3, <1>4, <1>5, <1>6, <1>7

(* The reverse scan that stops at the first tweet that does not fit        *)
(* (memstore.go HomeTimeline, Store.kt timelinePage) returns the first     *)
(* limit entries of the whole timeline, and says that there is more        *)
(* exactly when the whole timeline is longer.                              *)
THEOREM ScanIsCut ==
    ASSUME NEW S, NEW s \in Seq(S), NEW shown, NEW limit \in Nat
    PROVE  ScanPage(s, shown, limit) = Cut(Kept(s, shown), limit)
<1>1. PICK g \in [0..Len(s) -> Seq(S)] :
              IsKeptTable(g, s, shown) /\ Kept(s, shown) = g[Len(s)]
  BY KeptTable
<1>2. PICK f : IsScanTable(f, s, shown, limit) /\ ScanPage(s, shown, limit) = f[Len(s)]
  BY ScanTable
<1> DEFINE n == Len(s)
           T == {k \in Nat : k <= n => f[k] = Cut(g[k], limit)}
<1>3. n \in Nat
  OBVIOUS
<1>4. 0 \in T
  <2>1. g[0] = << >> /\ f[0] = [page |-> << >>, more |-> FALSE]
    BY <1>1, <1>2 DEF IsKeptTable, IsScanTable
  <2>2. << >> \in Seq(S) /\ Len(<< >>) <= limit
    OBVIOUS
  <2>3. f[0] = Cut(g[0], limit)
    BY <2>1, <2>2, CutWhole DEF Open
  <2> QED BY <2>3
<1>5. ASSUME NEW k \in Nat, k \in T PROVE k + 1 \in T
  <2> SUFFICES ASSUME k + 1 <= n PROVE f[k + 1] = Cut(g[k + 1], limit)
    OBVIOUS
  <2>1. k + 1 \in 1..n /\ (k + 1) - 1 = k /\ k \in 0..n
    BY <1>3
  <2>2. f[k] = Cut(g[k], limit) /\ g[k] \in Seq(S)
    BY <1>1, <1>3, <1>5, <2>1
  <2>3. g[k + 1] = IF k + 1 \in shown THEN Append(g[k], s[k + 1]) ELSE g[k]
    BY <1>1, <2>1 DEF IsKeptTable
  <2>4. f[k + 1] = ScanStep(f[k], s, k + 1, shown, limit)
    BY <1>2, <2>1 DEF IsScanTable
  <2> QED BY <2>1, <2>2, <2>3, <2>4, CutStep
<1>6. n \in T
  <2> HIDE DEF T, n
  <2> QED BY <1>3, <1>4, <1>5, Induction
<1> QED BY <1>1, <1>2, <1>3, <1>6

-----------------------------------------------------------------------------
(* The page of a store (MemStore) is the cut of what the reader may see *)

\* The positions, newest first, of the tweets of log that u may see below the
\* cursor, where none stands for no cursor.
ShownTo(log, edges, u, cursor, none) ==
    {i \in DOMAIN Reverse(log) :
        /\ cursor # none => Reverse(log)[i].id < cursor
        /\ Reverse(log)[i].author = u \/ <<u, Reverse(log)[i].author>> \in edges}

LEMMA ReverseType ==
    ASSUME NEW S, NEW log \in Seq(S)
    PROVE  Reverse(log) \in Seq(S)
<1> DEFINE n == Len(log)
           newest == [i \in 1..n |-> log[(n - i) + 1]]
<1>1. n \in Nat /\ \A i \in 1..n : log[i] \in S
  OBVIOUS
<1>2. Reverse(log) = newest
  BY DEF Reverse
<1> HIDE DEF n
<1>3. \A i \in 1..n : (n - i) + 1 \in 1..n
  BY <1>1
<1> QED BY <1>1, <1>2, <1>3

\* HomeTimeline's cursor 0 stands for none.
LEMMA HomeTimelineIsCut ==
    ASSUME NEW S, NEW log \in Seq(S), NEW edges, NEW u, NEW limit \in Nat,
           NEW none, NEW cursor \in Int \cup {none}, cursor = none \/ cursor >= 1
    PROVE  HomeTimeline(log, edges, u, limit, IF cursor = none THEN 0 ELSE cursor)
             = Cut(Kept(Reverse(log), ShownTo(log, edges, u, cursor, none)), limit)
<1> DEFINE from == IF cursor = none THEN 0 ELSE cursor
           newest == Reverse(log)
           shown == {i \in DOMAIN newest :
                       /\ from > 0 => newest[i].id < from
                       /\ newest[i].author = u \/ <<u, newest[i].author>> \in edges}
<1>1. HomeTimeline(log, edges, u, limit, from) = ScanPage(newest, shown, limit)
  BY DEF HomeTimeline
<1>2. shown = ShownTo(log, edges, u, cursor, none)
  <2>1. CASE cursor = none
    BY <2>1 DEF ShownTo
  <2>2. CASE cursor # none
    <3>1. from = cursor /\ cursor >= 1
      BY <2>2
    <3>2. from > 0
      BY <3>1
    <3> HIDE DEF from
    <3> QED BY <2>2, <3>1, <3>2 DEF ShownTo
  <2> QED BY <2>1, <2>2
<1>3. newest \in Seq(S)
  BY ReverseType
<1> HIDE DEF shown, from, newest
<1>4. ScanPage(newest, shown, limit) = Cut(Kept(newest, shown), limit)
  BY <1>3, ScanIsCut
<1> QED BY <1>1, <1>2, <1>4 DEF from, newest

\* A page cut short is not empty, so it has a last tweet.
LEMMA CutHasLast ==
    ASSUME NEW S, NEW kept \in Seq(S), NEW limit \in Nat \ {0}, Cut(kept, limit).more
    PROVE  Cut(kept, limit).page # << >>
<1>1. Len(kept) \in Nat /\ Len(kept) > limit
  <2>1. ~(Len(kept) <= limit)
    BY CutWhole DEF Open
  <2> QED BY <2>1
<1>2. Cut(kept, limit).page = SubSeq(kept, 1, limit)
  BY <1>1 DEF Cut
<1>3. Len(SubSeq(kept, 1, limit)) = limit
  BY <1>1
<1>4. Len(<< >>) = 0
  OBVIOUS
<1> QED BY <1>2, <1>3, <1>4

-----------------------------------------------------------------------------
(* Sorting a log *)

\* Of any two positions one goes before the other, by `less` or by its place.
Arranges(log, less) ==
    /\ \A i, j \in DOMAIN log : i # j => Ahead(less, i, j) \/ Ahead(less, j, i)
    /\ \A i \in DOMAIN log : ~Ahead(less, i, i)
    /\ \A i, j, k \in DOMAIN log : Ahead(less, i, j) /\ Ahead(less, j, k) => Ahead(less, i, k)

LEMMA RankGrows ==
    ASSUME NEW S, NEW log \in Seq(S), NEW less, Arranges(log, less)
    PROVE  /\ \A i \in DOMAIN log : Rank(log, less, i) \in 0..(Len(log) - 1)
           /\ \A i, j \in DOMAIN log :
                 Ahead(less, i, j) => Rank(log, less, i) < Rank(log, less, j)
<1> DEFINE D == DOMAIN log
           Before(i) == {j \in D : Ahead(less, j, i)}
<1>1. D = 1..Len(log) /\ Len(log) \in Nat
  OBVIOUS
<1>2. IsFiniteSet(D) /\ Cardinality(D) = Len(log)
  BY <1>1, FS_Interval
<1>3. ASSUME NEW i \in D
      PROVE  /\ Before(i) \in SUBSET D /\ i \notin Before(i)
             /\ IsFiniteSet(Before(i)) /\ Cardinality(Before(i)) \in Nat
             /\ Rank(log, less, i) = Cardinality(Before(i))
  <2>1. Before(i) \in SUBSET D /\ i \notin Before(i)
    BY DEF Arranges
  <2>2. Rank(log, less, i) = Cardinality(Before(i))
    BY DEF Rank
  <2> HIDE DEF Before
  <2> QED BY <1>2, <2>1, <2>2, FS_Subset, FS_CardinalityType
<1>4. ASSUME NEW i \in D PROVE Rank(log, less, i) \in 0..(Len(log) - 1)
  <2> HIDE DEF Before, D
  <2>1. Cardinality(Before(i)) <= Cardinality(D) /\ Cardinality(Before(i)) # Cardinality(D)
    BY <1>2, <1>3, <1>4, FS_Subset
  <2> QED BY <1>1, <1>2, <1>3, <1>4, <2>1
<1>5. ASSUME NEW i \in D, NEW j \in D, Ahead(less, i, j)
      PROVE  Rank(log, less, i) < Rank(log, less, j)
  <2>1. Before(i) \in SUBSET Before(j) /\ i \in Before(j)
    BY <1>5 DEF Arranges
  <2> HIDE DEF Before, D
  <2>2. Before(i) # Before(j)
    BY <1>3, <2>1
  <2>3. /\ Cardinality(Before(i)) <= Cardinality(Before(j))
        /\ Cardinality(Before(j)) = Cardinality(Before(i)) => Before(j) = Before(i)
    BY <1>3, <2>1, FS_Subset
  <2> QED BY <1>3, <2>2, <2>3
<1> QED BY <1>4, <1>5

\* Every rank is some position's, and no two positions share one.
LEMMA RanksAreTaken ==
    ASSUME NEW S, NEW log \in Seq(S), NEW less, Arranges(log, less)
    PROVE  /\ \A i, j \in DOMAIN log : Rank(log, less, i) = Rank(log, less, j) => i = j
           /\ \A k \in DOMAIN log : \E i \in DOMAIN log : Rank(log, less, i) = k - 1
<1> DEFINE D == DOMAIN log
           f == [i \in D |-> Rank(log, less, i) + 1]
<1>1. D = 1..Len(log) /\ Len(log) \in Nat
  OBVIOUS
<1>2. /\ \A i \in D : Rank(log, less, i) \in 0..(Len(log) - 1)
      /\ \A i, j \in D : Ahead(less, i, j) => Rank(log, less, i) < Rank(log, less, j)
  BY RankGrows
<1>3. \A i, j \in D : Rank(log, less, i) = Rank(log, less, j) => i = j
  BY <1>1, <1>2 DEF Arranges
<1>4. f \in [D -> D]
  BY <1>1, <1>2
<1>5. f \in Injection(D, D)
  <2>1. \A i, j \in D : f[i] = f[j] => i = j
    <3>1. ASSUME NEW i \in D, NEW j \in D, f[i] = f[j] PROVE i = j
      <4>1. Rank(log, less, i) + 1 = Rank(log, less, j) + 1
        BY <3>1
      <4>2. Rank(log, less, i) \in Int /\ Rank(log, less, j) \in Int
        BY <1>1, <1>2
      <4> QED BY <1>3, <4>1, <4>2
    <3> QED BY <3>1
  <2> QED BY <1>4, <2>1 DEF Injection, IsInjective
<1>6. IsFiniteSet(D)
  BY <1>1, FS_Interval
<1>7. f \in Surjection(D, D)
  <2> HIDE DEF f, D
  <2> QED BY <1>5, <1>6, FS_Injection
<1>8. ASSUME NEW k \in D PROVE \E i \in D : Rank(log, less, i) = k - 1
  <2>1. PICK i \in D : f[i] = k
    BY <1>7 DEF Surjection
  <2>2. Rank(log, less, i) \in Int /\ Rank(log, less, i) + 1 = k
    BY <1>1, <1>2, <2>1
  <2> QED BY <2>2
<1> QED BY <1>3, <1>8

(* A sort loses, doubles and invents nothing, and puts in front what goes  *)
(* before: at k stands the entry of the position of rank k - 1.            *)
LEMMA SortIsArrangement ==
    ASSUME NEW S, NEW log \in Seq(S), NEW less, Arranges(log, less)
    PROVE  /\ StableSort(log, less) \in Seq(S)
           /\ Len(StableSort(log, less)) = Len(log)
           /\ \E at \in Bijection(DOMAIN log, DOMAIN log) :
                 /\ \A k \in DOMAIN log : StableSort(log, less)[k] = log[at[k]]
                 /\ \A k, l \in DOMAIN log : k < l => Ahead(less, at[k], at[l])
<1> DEFINE D == DOMAIN log
           at == [k \in D |-> CHOOSE i \in D : Rank(log, less, i) = k - 1]
<1>1. D = 1..Len(log) /\ Len(log) \in Nat
  OBVIOUS
<1>2. /\ \A i, j \in D : Rank(log, less, i) = Rank(log, less, j) => i = j
      /\ \A k \in D : \E i \in D : Rank(log, less, i) = k - 1
  BY RanksAreTaken
<1>3. /\ \A i \in D : Rank(log, less, i) \in 0..(Len(log) - 1)
      /\ \A i, j \in D : Ahead(less, i, j) => Rank(log, less, i) < Rank(log, less, j)
  BY RankGrows
<1>4. ASSUME NEW k \in D PROVE at[k] \in D /\ Rank(log, less, at[k]) = k - 1
  BY <1>2
<1>5. StableSort(log, less) = [k \in 1..Len(log) |-> log[at[k]]]
  BY <1>1 DEF StableSort
<1>6. \A k \in D : log[at[k]] \in S
  BY <1>4
<1>7. at \in [D -> D]
  BY <1>4
<1> HIDE DEF at
<1>8. StableSort(log, less) \in Seq(S) /\ Len(StableSort(log, less)) = Len(log)
  BY <1>1, <1>5, <1>6
<1>9. at \in Bijection(D, D)
  <2>1. \A k, l \in D : at[k] = at[l] => k = l
    <3>1. ASSUME NEW k \in D, NEW l \in D, at[k] = at[l] PROVE k = l
      <4>1. k - 1 = l - 1
        BY <1>4, <3>1
      <4> QED BY <1>1, <4>1
    <3> QED BY <3>1
  <2>2. at \in Injection(D, D)
    BY <1>7, <2>1 DEF Injection, IsInjective
  <2>3. \A i \in D : \E k \in D : at[k] = i
    <3>1. ASSUME NEW i \in D PROVE at[Rank(log, less, i) + 1] = i
      <4>1. Rank(log, less, i) + 1 \in D /\ (Rank(log, less, i) + 1) - 1 = Rank(log, less, i)
        BY <1>1, <1>3
      <4>2. /\ at[Rank(log, less, i) + 1] \in D
            /\ Rank(log, less, at[Rank(log, less, i) + 1]) = Rank(log, less, i)
        BY <1>4, <4>1
      <4> QED BY <1>2, <4>2
    <3> QED BY <1>1, <1>3, <3>1
  <2> QED BY <1>7, <2>2, <2>3 DEF Bijection, Surjection
<1>10. ASSUME NEW k \in D, NEW l \in D, k < l PROVE Ahead(less, at[k], at[l])
  <2>1. /\ at[k] \in D /\ at[l] \in D
        /\ Rank(log, less, at[k]) = k - 1 /\ Rank(log, less, at[l]) = l - 1
    BY <1>4
  <2>2. at[k] # at[l] /\ ~Ahead(less, at[l], at[k])
    BY <1>1, <1>3, <1>10, <2>1
  <2> QED BY <2>1, <2>2 DEF Arranges
<1> QED BY <1>1, <1>5, <1>8, <1>9, <1>10

\* A log that is in order stays as it is.
LEMMA SortKeepsOrder ==
    ASSUME NEW S, NEW log \in Seq(S), NEW less,
           \A i, j \in DOMAIN log : i <= j => <<j, i>> \notin less
    PROVE  StableSort(log, less) = log
<1>1. DOMAIN log = 1..Len(log) /\ Len(log) \in Nat /\ log = [k \in 1..Len(log) |-> log[k]]
  OBVIOUS
<1>2. ASSUME NEW i \in DOMAIN log PROVE Rank(log, less, i) = i - 1
  <2>1. {j \in DOMAIN log : Ahead(less, j, i)} = 1..(i - 1)
    BY <1>1 DEF Ahead
  <2>2. Cardinality(1..(i - 1)) = i - 1
    BY <1>1, FS_Interval
  <2> QED BY <2>1, <2>2 DEF Rank
<1>3. ASSUME NEW k \in DOMAIN log
      PROVE  (CHOOSE i \in DOMAIN log : Rank(log, less, i) = k - 1) = k
  <2>1. \A i \in DOMAIN log : Rank(log, less, i) = k - 1 <=> i = k
    BY <1>1, <1>2
  <2> QED BY <2>1
<1> QED BY <1>1, <1>3 DEF StableSort

-----------------------------------------------------------------------------
(* The append log and its restoration *)

\* A record with what the log is ordered by.
Stamped(S) == \A t \in S : t.id \in Nat /\ t.createdAt \in Nat

(* isMonotoneLog compares neighbours and promises all pairs                *)
(* (memstore.go:767-777, the postcondition above the loop).                *)
THEOREM AdjacentIsPairwise ==
    ASSUME NEW S, Stamped(S), NEW log \in Seq(S), IsMonotoneLog(log)
    PROVE  \A i, j \in DOMAIN log :
              i < j => log[i].id < log[j].id /\ log[i].createdAt <= log[j].createdAt
<1> DEFINE Below(i, j) == log[i].id < log[j].id /\ log[i].createdAt <= log[j].createdAt
           T == {d \in Nat : \A i \in DOMAIN log :
                               i + 1 + d \in DOMAIN log => Below(i, i + 1 + d)}
<1>1. DOMAIN log = 1..Len(log) /\ Len(log) \in Nat
  OBVIOUS
<1>2. \A i \in DOMAIN log : log[i].id \in Nat /\ log[i].createdAt \in Nat
  <2>1. \A i \in DOMAIN log : log[i] \in S
    BY <1>1
  <2> QED BY <2>1 DEF Stamped
<1>3. ASSUME NEW i \in DOMAIN log, i + 1 \in DOMAIN log PROVE Below(i, i + 1)
  <2>1. i + 1 \in 2..Len(log) /\ (i + 1) - 1 = i
    BY <1>1, <1>3
  <2>2. log[i + 1].id > log[(i + 1) - 1].id /\ log[i + 1].createdAt >= log[(i + 1) - 1].createdAt
    BY <2>1 DEF IsMonotoneLog
  <2> QED BY <1>2, <1>3, <2>1, <2>2
<1>4. 0 \in T
  BY <1>1, <1>3
<1>5. ASSUME NEW d \in Nat, d \in T PROVE d + 1 \in T
  <2>1. ASSUME NEW i \in DOMAIN log, i + 1 + (d + 1) \in DOMAIN log
        PROVE  Below(i, i + 1 + (d + 1))
    <3>1. /\ i + 1 + d \in DOMAIN log
          /\ i + 1 + (d + 1) = (i + 1 + d) + 1
      BY <1>1, <2>1
    <3>2. Below(i, i + 1 + d) /\ Below(i + 1 + d, (i + 1 + d) + 1)
      BY <1>3, <1>5, <2>1, <3>1
    <3> QED BY <1>2, <2>1, <3>1, <3>2
  <2> HIDE DEF Below
  <2> QED BY <2>1
<1> HIDE DEF T
<1>6. \A d \in Nat : d \in T
  BY <1>4, <1>5, Induction
<1>7. ASSUME NEW i \in DOMAIN log, NEW j \in DOMAIN log, i < j PROVE Below(i, j)
  <2>1. j - i - 1 \in Nat /\ i + 1 + (j - i - 1) = j
    BY <1>1, <1>7
  <2>2. j - i - 1 \in T
    BY <1>6, <2>1
  <2> HIDE DEF Below
  <2> QED BY <2>1, <2>2 DEF T
<1> QED BY <1>7

LEMMA SmallerIDArranges ==
    ASSUME NEW S, Stamped(S), NEW log \in Seq(S)
    PROVE  Arranges(log, SmallerID(log))
<1>1. DOMAIN log \subseteq Nat /\ \A i \in DOMAIN log : log[i].id \in Nat
  <2>1. \A i \in DOMAIN log : log[i] \in S
    OBVIOUS
  <2> QED BY <2>1 DEF Stamped
<1>2. \A i, j \in DOMAIN log : Ahead(SmallerID(log), i, j) <=>
         log[i].id < log[j].id \/ (log[i].id = log[j].id /\ i < j)
  BY <1>1 DEF Ahead, SmallerID
<1> QED BY <1>1, <1>2 DEF Arranges

\* What Replace sorts is of the same records ...
LEMMA SortByIDType ==
    ASSUME NEW S, Stamped(S), NEW log \in Seq(S)
    PROVE  SortLogByID(log) \in Seq(S)
BY SmallerIDArranges, SortIsArrangement DEF SortLogByID

\* ... and a log its append guard let grow comes back as it was.
LEMMA SortByIDKeeps ==
    ASSUME NEW S, Stamped(S), NEW log \in Seq(S), IsMonotoneLog(log)
    PROVE  SortLogByID(log) = log
<1>1. DOMAIN log \subseteq Nat /\ \A i \in DOMAIN log : log[i].id \in Nat
  <2>1. \A i \in DOMAIN log : log[i] \in S
    OBVIOUS
  <2> QED BY <2>1 DEF Stamped
<1>2. \A i, j \in DOMAIN log : i < j => log[i].id < log[j].id
  BY AdjacentIsPairwise
<1>3. \A i, j \in DOMAIN log : i <= j => <<j, i>> \notin SmallerID(log)
  BY <1>1, <1>2 DEF SmallerID
<1> QED BY <1>3, SortKeepsOrder DEF SortLogByID
=============================================================================
