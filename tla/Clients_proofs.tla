--------------------------- MODULE Clients_proofs ---------------------------
(***************************************************************************)
(* Proofs about the programs that use a corner from outside.               *)
(*                                                                         *)
(* A walk through a timeline (TimelineWalk), for any handles, texts and    *)
(* page size and any length of the log: a page is the cut of what the      *)
(* reader may see below the cursor (Pages_proofs); the log is in the order *)
(* of its ids and only grows; so what was read has ids from the cursor up, *)
(* what is still to be read has ids below it, and nothing that was visible *)
(* throughout lies on neither side.                                        *)
(*                                                                         *)
(* R1's shrinking (DiffRun), for any corner, requests and length of trace: *)
(* replaying a trace gives what the run that recorded it saw, so the whole *)
(* trace fails; each pass keeps something that fails; and the pass in      *)
(* steps of one ends only when every step was tried on what is left.       *)
(*                                                                         *)
(* R2's relations (PropTest), for any users, texts, corners and number of  *)
(* requests below a page's room: a corner that conforms answers as S_obs;  *)
(* requests lead S_obs only to sound states, in which ids are positions    *)
(* and stamps grow to the clock; each relation is a lemma about a sound    *)
(* state; and a round keeps its server in one.                             *)
(***************************************************************************)
EXTENDS TimelineWalk, DiffRun, PropTest, Pages_proofs

-----------------------------------------------------------------------------
(* One page *)

\* A log in the order of its ids.
InOrder(tweets) ==
    /\ tweets \in Seq(Tweet)
    /\ \A i \in 1..Len(tweets) : tweets[i].id > 0
    /\ \A i, j \in 1..Len(tweets) : i < j => tweets[i].id < tweets[j].id

Descending(tweets) == \A i, j \in 1..Len(tweets) : i < j => tweets[i].id > tweets[j].id

\* Whether a page may hold the tweet at all.
Below(t, top, none) == top # none => t.id < top

LEMMA TweetsOf ==
    ASSUME NEW s \in Seq(Tweet)
    PROVE  /\ Len(s) \in Nat /\ DOMAIN s = 1..Len(s)
           /\ \A i \in 1..Len(s) : s[i] \in Tweet
           /\ (\A u : u \in Range(s) <=> \E i \in 1..Len(s) : u = s[i])
           /\ Range(s) \subseteq Tweet
<1>1. Len(s) \in Nat /\ DOMAIN s = 1..Len(s)
  OBVIOUS
<1>2. \A i \in 1..Len(s) : s[i] \in Tweet
  OBVIOUS
<1>3. (\A u : u \in Range(s) <=> \E i \in 1..Len(s) : u = s[i])
  BY <1>1 DEF Range
<1>4. Range(s) \subseteq Tweet
  BY <1>2, <1>3
<1> QED BY <1>1, <1>2, <1>3, <1>4

LEMMA ReverseEntries ==
    ASSUME NEW S, NEW s \in Seq(S)
    PROVE  /\ Reverse(s) \in Seq(S) /\ Len(Reverse(s)) = Len(s)
           /\ \A i \in 1..Len(s) : Reverse(s)[i] = s[(Len(s) - i) + 1]
<1>1. Reverse(s) = [i \in 1..Len(s) |-> s[(Len(s) - i) + 1]] /\ Len(s) \in Nat
  BY DEF Reverse
<1>2. Reverse(s) \in Seq(S)
  BY ReverseType
<1> QED BY <1>1, <1>2

\* What a user may see, and what of it lies below the cursor, newest first.
Readable(tweets, pairs, h) ==
    {t \in Range(tweets) : t.author = h \/ <<h, t.author>> \in pairs}
Rest(tweets, pairs, h, top, none) ==
    Kept(Reverse(tweets), ShownTo(tweets, pairs, h, top, none))

\* Turned round, the later place comes first.
LEMMA Mirrored ==
    ASSUME NEW n \in Nat, NEW p \in 1..n, NEW q \in 1..n, p < q
    PROVE  (n - p) + 1 \in 1..n /\ (n - q) + 1 \in 1..n /\ (n - q) + 1 < (n - p) + 1
OBVIOUS

LEMMA RestIsTimeline ==
    ASSUME NEW tweets, InOrder(tweets), NEW pairs, NEW h, NEW top, NEW none
    PROVE  /\ Rest(tweets, pairs, h, top, none) \in Seq(Tweet)
           /\ Descending(Rest(tweets, pairs, h, top, none))
           /\ Range(Rest(tweets, pairs, h, top, none))
                = {t \in Readable(tweets, pairs, h) : Below(t, top, none)}
<1> DEFINE n == Len(tweets)
           newest == Reverse(tweets)
           shown == ShownTo(tweets, pairs, h, top, none)
           kept == Rest(tweets, pairs, h, top, none)
<1>1. /\ tweets \in Seq(Tweet) /\ n \in Nat
      /\ \A i, j \in 1..n : i < j => tweets[i].id < tweets[j].id
  BY DEF InOrder
<1>2. newest \in Seq(Tweet) /\ Len(newest) = n /\ \A i \in 1..n : newest[i] = tweets[(n - i) + 1]
  BY <1>1, ReverseEntries
<1>3. DOMAIN newest = 1..n
  BY <1>2
<1>4. shown = {i \in 1..n : /\ Below(newest[i], top, none)
                            /\ newest[i].author = h \/ <<h, newest[i].author>> \in pairs}
  BY <1>3 DEF ShownTo, Below
<1>5. kept \in Seq(Tweet) /\ HasSelection(kept, newest, shown, Len(newest))
  BY <1>2, KeptIsSelection DEF Rest
<1>6. PICK place : Selects(place, kept, newest, shown, n)
  BY <1>2, <1>5 DEF HasSelection
<1>7. Len(kept) \in Nat /\ (\A u : u \in Range(kept) <=> \E i \in 1..Len(kept) : u = kept[i])
  <2>1. kept \in Seq(Tweet)
    BY <1>5
  <2> HIDE DEF kept
  <2> QED BY <2>1, TweetsOf
<1>8. Readable(tweets, pairs, h) =
        {t \in {tweets[i] : i \in 1..n} : t.author = h \/ <<h, t.author>> \in pairs}
  <2>1. (\A u : u \in Range(tweets) <=> \E i \in 1..n : u = tweets[i])
    BY <1>1, TweetsOf
  <2> QED BY <2>1 DEF Readable
<1> HIDE DEF newest, shown, kept, n
<1>9. /\ \A i \in 1..Len(kept) : place[i] \in 1..n /\ place[i] \in shown /\ kept[i] = newest[place[i]]
      /\ \A i, j \in 1..Len(kept) : i < j => place[i] < place[j]
      /\ \A p \in 1..n : p \in shown => \E i \in 1..Len(kept) : place[i] = p
  BY <1>6 DEF Selects
<1>10. Descending(kept)
  <2> SUFFICES ASSUME NEW i \in 1..Len(kept), NEW j \in 1..Len(kept), i < j
               PROVE  kept[i].id > kept[j].id
    BY DEF Descending
  <2> DEFINE a == (n - place[i]) + 1
             b == (n - place[j]) + 1
  <2>1. place[i] \in 1..n /\ place[j] \in 1..n /\ place[i] < place[j]
    BY <1>9
  <2>2. kept[i] = tweets[a] /\ kept[j] = tweets[b]
    BY <1>2, <1>9, <2>1
  <2>3. a \in 1..n /\ b \in 1..n /\ b < a
    BY <1>1, <2>1, Mirrored
  <2>4. tweets[a] \in Tweet /\ tweets[b] \in Tweet
    BY <1>1, <2>3 DEF n
  <2> HIDE DEF a, b
  <2>5. tweets[b].id < tweets[a].id /\ tweets[b].id \in Nat /\ tweets[a].id \in Nat
    BY <1>1, <2>3, <2>4 DEF Tweet
  <2> QED BY <2>2, <2>5
<1>11. ASSUME NEW t \in Range(kept) PROVE t \in Readable(tweets, pairs, h) /\ Below(t, top, none)
  <2>1. PICK i \in 1..Len(kept) : t = kept[i]
    BY <1>7
  <2>2. place[i] \in 1..n /\ place[i] \in shown /\ t = newest[place[i]]
    BY <1>9, <2>1
  <2>3. (n - place[i]) + 1 \in 1..n
    BY <1>1, <2>2
  <2>4. t = tweets[(n - place[i]) + 1]
    BY <1>2, <2>2
  <2> QED BY <1>4, <1>8, <2>2, <2>3, <2>4
<1>12. ASSUME NEW t \in Readable(tweets, pairs, h), Below(t, top, none) PROVE t \in Range(kept)
  <2>1. PICK k \in 1..n : t = tweets[k]
    BY <1>8
  <2>2. (n - k) + 1 \in 1..n /\ (n - ((n - k) + 1)) + 1 = k
    BY <1>1
  <2>3. PICK p \in 1..n : (n - p) + 1 = k
    BY <2>2
  <2>4. newest[p] = t
    BY <1>2, <2>1, <2>3
  <2>5. p \in shown
    BY <1>4, <1>8, <1>12, <2>4
  <2>6. PICK i \in 1..Len(kept) : place[i] = p
    BY <1>9, <2>5
  <2>7. kept[i] = t
    BY <1>9, <2>4, <2>6
  <2> QED BY <1>7, <2>7
<1>13. Range(kept) = {t \in Readable(tweets, pairs, h) : Below(t, top, none)}
  BY <1>11, <1>12
<1> QED BY <1>5, <1>10, <1>13 DEF kept

\* A page is in order, of the reader's timeline and below the cursor, and what
\* it leaves out lies below its last tweet, or is nothing.
PageIsNext(answer, tweets, pairs, top) ==
    /\ answer.page \in Seq(Tweet) /\ Descending(answer.page)
    /\ \A t \in Range(answer.page) : t \in VisibleIn(tweets, pairs) /\ Below(t, top, 0)
    /\ answer.more => answer.page # << >>
    /\ \A t \in VisibleIn(tweets, pairs) :
          Below(t, top, 0) => \/ t \in Range(answer.page)
                              \/ answer.more /\ t.id < Last(answer.page).id

LEMMA PageOfTimeline ==
    ASSUME NEW tweets, InOrder(tweets), NEW pairs, NEW top \in Nat, NEW lim \in Nat \ {0}
    PROVE  PageIsNext(HomeTimeline(tweets, pairs, Reader, lim, top), tweets, pairs, top)
<1> DEFINE answer == HomeTimeline(tweets, pairs, Reader, lim, top)
           rest == Rest(tweets, pairs, Reader, top, 0)
           n == Len(rest)
           k == IF n < lim THEN n ELSE lim
<1>1. rest \in Seq(Tweet) /\ Descending(rest)
      /\ Range(rest) = {t \in VisibleIn(tweets, pairs) : Below(t, top, 0)}
  BY RestIsTimeline DEF Readable, VisibleIn
<1>2. answer = Cut(rest, lim)
  <2> DEFINE newest == Reverse(tweets)
             met == {i \in DOMAIN newest :
                        /\ top > 0 => newest[i].id < top
                        /\ newest[i].author = Reader \/ <<Reader, newest[i].author>> \in pairs}
  <2>1. answer = ScanPage(newest, met, lim)
    BY DEF HomeTimeline
  <2>2. met = ShownTo(tweets, pairs, Reader, top, 0)
    <3>1. top > 0 <=> top # 0
      OBVIOUS
    <3> QED BY <3>1 DEF ShownTo
  <2>3. newest \in Seq(Tweet)
    BY ReverseEntries DEF InOrder
  <2> HIDE DEF newest, met
  <2>4. ScanPage(newest, met, lim) = Cut(Kept(newest, met), lim)
    BY <2>3, ScanIsCut
  <2> QED BY <2>1, <2>2, <2>4 DEF Rest, newest
<1> HIDE DEF rest, answer
<1>3. n \in Nat /\ (\A u : u \in Range(rest) <=> \E i \in 1..n : u = rest[i])
      /\ \A i \in 1..n : rest[i] \in Tweet
  <2>1. rest \in Seq(Tweet)
    BY <1>1
  <2> QED BY <2>1, TweetsOf
<1>4. answer.page = SubSeq(rest, 1, k) /\ answer.more = (n > lim)
  BY <1>2 DEF Cut
<1> HIDE DEF n
<1>5. k \in Nat /\ k <= n /\ (n > lim => k = lim) /\ (~(n > lim) => k = n)
  BY <1>3
<1> HIDE DEF k
<1>6. answer.page = [i \in 1..k |-> rest[i]] /\ \A i \in 1..k : rest[i] \in Tweet /\ i \in 1..n
  BY <1>3, <1>4, <1>5
<1>7. answer.page \in Seq(Tweet) /\ Len(answer.page) = k
  BY <1>5, <1>6
<1>8. (\A u : u \in Range(answer.page) <=> \E i \in 1..k : u = rest[i])
  <2>1. (\A u : u \in Range(answer.page) <=> \E i \in 1..k : u = answer.page[i])
    <3> DEFINE s == answer.page
    <3>1. s \in Seq(Tweet) /\ Len(s) = k
      BY <1>7
    <3> HIDE DEF s
    <3>2. (\A u : u \in Range(s) <=> \E i \in 1..k : u = s[i])
      BY <3>1, TweetsOf
    <3> QED BY <3>2 DEF s
  <2>2. \A i \in 1..k : answer.page[i] = rest[i]
    BY <1>6
  <2> QED BY <2>1, <2>2
<1>9. Descending(answer.page)
  BY <1>1, <1>6, <1>7 DEF Descending, n
<1>10. \A t \in Range(answer.page) : t \in VisibleIn(tweets, pairs) /\ Below(t, top, 0)
  BY <1>1, <1>3, <1>6, <1>8
<1>11. answer.more => k = lim /\ answer.page # << >>
  BY <1>4, <1>5, <1>7
<1>12. ASSUME NEW t \in VisibleIn(tweets, pairs), Below(t, top, 0), t \notin Range(answer.page)
       PROVE  answer.more /\ t.id < Last(answer.page).id
  <2>1. PICK i \in 1..n : t = rest[i]
    BY <1>1, <1>3, <1>12
  <2>2. i > k
    BY <1>8, <1>5, <1>3, <1>12, <2>1
  <2>3. answer.more /\ k = lim /\ k \in 1..n
    <3>1. ~(k = n)
      BY <1>3, <2>1, <2>2
    <3>2. n > lim
      BY <1>5, <3>1
    <3>3. k = lim /\ lim \in 1..n
      BY <1>3, <1>5, <3>2
    <3> QED BY <1>4, <3>2, <3>3
  <2>4. Last(answer.page) = rest[k]
    BY <1>6, <1>7, <2>3 DEF Last
  <2>5. rest[k].id > rest[i].id /\ rest[k] \in Tweet /\ rest[i] \in Tweet
    BY <1>1, <1>3, <2>1, <2>2, <2>3 DEF Descending, n
  <2> QED BY <2>1, <2>3, <2>4, <2>5 DEF Tweet
<1> QED BY <1>7, <1>9, <1>10, <1>11, <1>12 DEF PageIsNext, answer

-----------------------------------------------------------------------------
(* The inductive invariant *)

Visible == VisibleIn(log, edges)
Read == got \cup Range(page)

\* The log is in order and older than the next id.
LogInv ==
    /\ InOrder(log)
    /\ nextID \in Nat
    /\ \A i \in 1..Len(log) : log[i].id < nextID
    /\ nextID > 0

ReaderType ==
    /\ phase \in {"before", "walking", "done"}
    /\ limit \in Nat \ {0}
    /\ cursor \in Nat
    /\ page \in Seq(Tweet)
    /\ got \subseteq Tweet

\* What the reader could see: at every moment of the walk, at some.
WatchInv ==
    /\ always \subseteq Visible
    /\ phase # "before" => Visible \subseteq ever

\* What was read, in order, and where it ends.
ReadInv ==
    /\ Descending(page)
    /\ \A t \in got, u \in Range(page) : u.id < t.id
    /\ Read \subseteq ever
    /\ phase # "done" /\ cursor = 0 => got = {} /\ page = << >>
    /\ phase = "before" => cursor = 0
    /\ phase = "walking" /\ cursor # 0 =>
          /\ \A t \in Read : t.id >= cursor
          /\ \A t \in always : t.id >= cursor => t \in Read
    /\ phase = "done" => always \subseteq Read

WalkInv == LogInv /\ ReaderType /\ WatchInv /\ ReadInv

LEMMA TweetsOfPage ==
    ASSUME NEW s \in Seq(Tweet)
    PROVE  Range(s) \subseteq Tweet /\ (s = << >> => Range(s) = {})
<1>1. (\A u : u \in Range(s) <=> \E i \in 1..Len(s) : u = s[i]) /\ Range(s) \subseteq Tweet
  BY TweetsOf
<1>2. s = << >> => Len(s) = 0 /\ 1..0 = {}
  OBVIOUS
<1> QED BY <1>1, <1>2

LEMMA TweetsOfNone == Range(<< >>) = {}
BY DEF Range

LEMMA InvImplies == WalkInv => PagesJoinUp
<1> SUFFICES ASSUME WalkInv PROVE PagesJoinUp
  OBVIOUS
<1>1. /\ DOMAIN page = 1..Len(page)
      /\ \A u : u \in Range(page) <=> \E i \in 1..Len(page) : u = page[i]
  <2>1. page \in Seq(Tweet)
    BY DEF WalkInv, ReaderType
  <2> QED BY <2>1, TweetsOf
<1>2. \A i, j \in DOMAIN page : i < j => page[i].id > page[j].id
  BY <1>1 DEF WalkInv, ReadInv, Descending
<1>3. \A t \in got, i \in DOMAIN page : page[i].id < t.id
  BY <1>1 DEF WalkInv, ReadInv
<1>4. got \cup Range(page) \subseteq ever /\ (phase = "done" => always \subseteq got \cup Range(page))
  BY DEF WalkInv, ReadInv, Read
<1> QED BY <1>2, <1>3, <1>4 DEF PagesJoinUp

LEMMA InitWalk == Init => WalkInv
<1> SUFFICES ASSUME Init PROVE WalkInv
  OBVIOUS
<1>1. << >> \in Seq(Tweet) /\ Len(<< >>) = 0 /\ 1..0 = {}
  OBVIOUS
<1>2. Range(<< >>) = {}
  BY TweetsOfNone
<1>3. Visible = {}
  BY <1>2 DEF Init, Visible, VisibleIn
<1> QED BY <1>1, <1>2, <1>3 DEF Init, WalkInv, LogInv, InOrder, ReaderType, WatchInv, ReadInv,
                                 Descending, Read

-----------------------------------------------------------------------------
(* The writers *)

LEMMA WriteLog ==
    ASSUME LogInv, Write
    PROVE  LogInv'
<1>1. log \in Seq(Tweet) /\ Len(log) \in Nat /\ \A i \in 1..Len(log) : log[i] \in Tweet
  BY DEF LogInv, InOrder
<1>2. CASE \E h \in Writers, x \in Texts : Post(h, x)
  <2>1. PICK h \in Writers, x \in Texts : Post(h, x)
    BY <1>2
  <2> DEFINE t == [id |-> nextID, author |-> h, text |-> x, createdAt |-> 0]
             n == Len(log)
             longer == Append(log, t)
  <2>2. t \in Tweet /\ t.id = nextID
    BY WalkAssumption DEF Tweet, LogInv
  <2> HIDE DEF t
  <2>3. /\ longer \in Seq(Tweet) /\ Len(longer) = n + 1 /\ longer[n + 1] = t
        /\ \A i \in 1..n : longer[i] = log[i]
    BY <1>1, <2>2
  <2>4. log' = longer /\ nextID' = nextID + 1
    BY <2>1 DEF Post, t
  <2> HIDE DEF longer
  <2>5. \A i \in 1..n : log[i].id \in Nat /\ log[i].id < nextID /\ log[i].id > 0
    BY <1>1 DEF Tweet, LogInv, InOrder
  <2>6. \A i \in 1..(n + 1) : i = n + 1 \/ (i \in 1..n /\ i < n + 1)
    BY <1>1
  <2>7. nextID \in Nat /\ nextID > 0
    BY DEF LogInv
  <2>8. \A i \in 1..(n + 1) : longer[i].id > 0 /\ longer[i].id < nextID + 1
    BY <2>2, <2>3, <2>5, <2>6, <2>7
  <2>9. ASSUME NEW i \in 1..(n + 1), NEW j \in 1..(n + 1), i < j PROVE longer[i].id < longer[j].id
    <3>1. i \in 1..n
      BY <1>1, <2>9
    <3>2. CASE j \in 1..n
      BY <2>3, <2>9, <3>1, <3>2 DEF LogInv, InOrder
    <3>3. CASE j = n + 1
      BY <2>2, <2>3, <2>5, <3>1, <3>3
    <3> QED BY <2>6, <3>2, <3>3
  <2>10. InOrder(longer)
    BY <2>3, <2>8, <2>9 DEF InOrder
  <2>11. \A i \in 1..Len(longer) : longer[i].id < nextID + 1
    BY <2>3, <2>8
  <2>12. nextID + 1 \in Nat /\ nextID + 1 > 0
    BY <2>7
  <2> QED BY <2>4, <2>10, <2>11, <2>12 DEF LogInv
<1>3. CASE ~\E h \in Writers, x \in Texts : Post(h, x)
  <2>1. log' = log /\ (nextID' = nextID \/ nextID' = nextID + 1)
    BY <1>3 DEF Write, BurnID, Follow, Unfollow
  <2>2. \A i \in 1..Len(log) : log[i].id \in Nat
    BY <1>1 DEF Tweet
  <2> QED BY <2>1, <2>2 DEF LogInv, InOrder
<1> QED BY <1>2, <1>3

LEMMA WriteWalk ==
    ASSUME WalkInv, Write
    PROVE  WalkInv'
<1>1. LogInv'
  BY WriteLog DEF WalkInv
<1>2. /\ UNCHANGED <<phase, limit, cursor, page, got>> /\ Read' = Read
      /\ always' = always \cap Visible' /\ ever' = ever \cup Visible'
  BY DEF Write, Watch, walk, Visible, Read
<1>3. ReaderType' /\ WatchInv'
  BY <1>2 DEF WalkInv, ReaderType, WatchInv
<1>4. ReadInv'
  BY <1>2 DEF WalkInv, ReadInv, Descending
<1> QED BY <1>1, <1>3, <1>4 DEF WalkInv

-----------------------------------------------------------------------------
(* The reader *)

LEMMA StartWalk ==
    ASSUME WalkInv, Start
    PROVE  WalkInv'
<1>1. LogInv' /\ Visible' = Visible /\ always' = Visible /\ ever' = Visible
  BY DEF WalkInv, LogInv, InOrder, Start, store, Visible
<1>2. /\ phase = "before" /\ phase' = "walking" /\ cursor = 0 /\ UNCHANGED <<cursor, page, got>>
      /\ page = << >> /\ got = {} /\ Range(page) = {}
  BY TweetsOfPage DEF WalkInv, Start, ReadInv, ReaderType
<1>3. limit' \in Nat \ {0}
  BY WireAssumption, WalkAssumption DEF Start
<1>4. ReaderType' /\ WatchInv'
  BY <1>1, <1>2, <1>3 DEF WalkInv, ReaderType, WatchInv
<1>5. Read' = {}
  BY <1>2 DEF Read
<1>6. ReadInv'
  BY <1>2, <1>5 DEF WalkInv, ReadInv, Descending
<1> QED BY <1>1, <1>4, <1>6 DEF WalkInv

LEMMA LastOfPage ==
    ASSUME NEW s \in Seq(Tweet), Descending(s), s # << >>
    PROVE  Last(s) \in Range(s) /\ \A t \in Range(s) : t.id >= Last(s).id
<1> DEFINE n == Len(s)
<1>1. /\ \A u : u \in Range(s) <=> \E i \in 1..n : u = s[i]
      /\ n \in Nat /\ n \in 1..n
      /\ \A i \in 1..n : s[i] \in Tweet
  <2>1. /\ n \in Nat
        /\ \A u : u \in Range(s) <=> \E i \in 1..n : u = s[i]
        /\ \A i \in 1..n : s[i] \in Tweet
    BY TweetsOf
  <2>2. n \in 1..n
    OBVIOUS
  <2> QED BY <2>1, <2>2
<1>2. Last(s) = s[n]
  BY DEF Last
<1>3. ASSUME NEW i \in 1..n PROVE s[i].id >= s[n].id
  <2>1. i = n \/ i < n
    BY <1>1
  <2>2. s[i].id \in Nat /\ s[n].id \in Nat
    BY <1>1 DEF Tweet
  <2> QED BY <1>1, <2>1, <2>2 DEF Descending
<1> HIDE DEF n
<1> QED BY <1>1, <1>2, <1>3

LEMMA ReadPageWalk ==
    ASSUME WalkInv, ReadPage
    PROVE  WalkInv'
<1> DEFINE answer == HomeTimeline(log, edges, Reader, limit, cursor)
<1>1. PageIsNext(answer, log, edges, cursor)
  BY PageOfTimeline DEF WalkInv, LogInv, ReaderType
<1>2. /\ phase = "walking" /\ page' = answer.page /\ got' = Read
      /\ cursor' = (IF answer.more THEN Last(answer.page).id ELSE 0)
      /\ phase' = (IF cursor' = 0 THEN "done" ELSE "walking")
      /\ UNCHANGED <<log, edges, nextID, limit, always, ever>>
  BY DEF ReadPage, NextCursor, store, Read
<1> HIDE DEF answer
<1>3. LogInv' /\ Visible' = Visible
  BY <1>2 DEF WalkInv, LogInv, InOrder, Visible
<1>4. /\ page' \in Seq(Tweet) /\ Descending(page')
      /\ \A t \in Range(page') : t \in Visible /\ Below(t, cursor, 0)
      /\ answer.more => page' # << >>
      /\ \A t \in Visible :
            Below(t, cursor, 0) => \/ t \in Range(page')
                                   \/ answer.more /\ t.id < Last(page').id
  BY <1>1, <1>2 DEF PageIsNext, Visible
<1>5. /\ Read \subseteq Tweet /\ Range(page') \subseteq Tweet /\ Visible \subseteq Tweet
      /\ cursor \in Nat /\ always \subseteq Visible /\ Visible \subseteq ever /\ Read \subseteq ever
      /\ \A t \in Visible : t.id > 0
  <2>1. Range(page) \subseteq Tweet /\ Range(page') \subseteq Tweet
    BY <1>4, TweetsOfPage DEF WalkInv, ReaderType
  <2>2. (\A u : u \in Range(log) <=> \E i \in 1..Len(log) : u = log[i]) /\ Range(log) \subseteq Tweet
    <3>1. log \in Seq(Tweet)
      BY DEF WalkInv, LogInv, InOrder
    <3> QED BY <3>1, TweetsOf
  <2>3. \A t \in Range(log) : t.id > 0
    BY <2>2 DEF WalkInv, LogInv, InOrder
  <2> QED BY <1>2, <2>1, <2>2, <2>3 DEF WalkInv, ReaderType, WatchInv, ReadInv, Read, Visible,
                                        VisibleIn
<1>6. /\ cursor = 0 => Read = {}
      /\ cursor # 0 => /\ \A t \in Read : t.id >= cursor
                       /\ \A t \in always : t.id >= cursor => t \in Read
  <2>1. Range(<< >>) = {}
    BY TweetsOfNone
  <2> QED BY <1>2, <2>1 DEF WalkInv, ReadInv, Read
<1>7. \A t \in Read, u \in Range(page') : u.id < t.id
  BY <1>4, <1>5, <1>6 DEF Below, Tweet
<1>8. CASE answer.more
  <2>1. Last(page') \in Range(page') /\ \A t \in Range(page') : t.id >= Last(page').id
    BY <1>4, <1>8, LastOfPage
  <2>2. cursor' = Last(page').id /\ cursor' \in Nat /\ cursor' > 0 /\ phase' = "walking"
    BY <1>2, <1>4, <1>5, <1>8, <2>1 DEF Tweet
  <2>3. Read' = Read \cup Range(page')
    BY <1>2 DEF Read
  <2>4. \A t \in Read' : t.id >= cursor'
    BY <1>5, <1>7, <2>1, <2>2, <2>3 DEF Tweet
  <2>5. ASSUME NEW t \in always, t.id >= cursor' PROVE t \in Read'
    <3>1. t \in Visible /\ t.id \in Nat
      BY <1>5 DEF Tweet
    <3>2. CASE Below(t, cursor, 0)
      BY <1>4, <2>2, <2>3, <2>5, <3>1, <3>2
    <3>3. CASE ~Below(t, cursor, 0)
      BY <1>5, <1>6, <2>3, <3>1, <3>3 DEF Below
    <3> QED BY <3>2, <3>3
  <2>6. ReaderType' /\ WatchInv'
    BY <1>2, <1>3, <1>4, <1>5, <2>2 DEF WalkInv, ReaderType, WatchInv
  <2>7. ReadInv'
    BY <1>2, <1>4, <1>5, <1>7, <2>2, <2>3, <2>4, <2>5 DEF ReadInv
  <2> QED BY <1>3, <2>6, <2>7 DEF WalkInv
<1>9. CASE ~answer.more
  <2>1. cursor' = 0 /\ phase' = "done"
    BY <1>2, <1>9
  <2>2. Read' = Read \cup Range(page')
    BY <1>2 DEF Read
  <2>3. ASSUME NEW t \in always PROVE t \in Read'
    <3>1. t \in Visible /\ t.id \in Nat
      BY <1>5 DEF Tweet
    <3>2. CASE Below(t, cursor, 0)
      BY <1>4, <1>9, <2>2, <3>1, <3>2
    <3>3. CASE ~Below(t, cursor, 0)
      BY <1>5, <1>6, <2>2, <3>1, <3>3 DEF Below
    <3> QED BY <3>2, <3>3
  <2>4. ReaderType' /\ WatchInv'
    BY <1>2, <1>3, <1>4, <1>5, <2>1 DEF WalkInv, ReaderType, WatchInv
  <2>5. ReadInv'
    BY <1>2, <1>4, <1>5, <1>7, <2>1, <2>2, <2>3 DEF ReadInv
  <2> QED BY <1>3, <2>4, <2>5 DEF WalkInv
<1> QED BY <1>8, <1>9

LEMMA NextWalk == WalkInv /\ [Next]_vars => WalkInv'
<1> SUFFICES ASSUME WalkInv, [Next]_vars PROVE WalkInv'
  OBVIOUS
<1>1. CASE UNCHANGED vars
  BY <1>1 DEF vars, store, walk, WalkInv, LogInv, InOrder, ReaderType, WatchInv, ReadInv,
              Descending, Read, Visible
<1> QED BY <1>1, WriteWalk, StartWalk, ReadPageWalk DEF Next

-----------------------------------------------------------------------------
(* The theorem *)

(***************************************************************************)
(* However the log and the follow set move between two pages, and however  *)
(* small the pages are, the pages of one walk join up (MemStore's          *)
(* HomeTimeline behind GET /timeline, with next_cursor as the cursor of    *)
(* the next request): each is below the ones before it, so no tweet comes  *)
(* twice; all of them were visible at some moment; and at the end none is  *)
(* missing that was visible throughout.                                    *)
(***************************************************************************)
THEOREM WalkPagesJoinUp == Spec => []PagesJoinUp
<1>1. Spec => []WalkInv
  BY InitWalk, NextWalk, PTL DEF Spec
<1> QED BY <1>1, InvImplies, PTL

-----------------------------------------------------------------------------
(* R1: a trace run again *)

\* Each entry is both sides after so many requests of t.
IsReplay(g, corner, t) ==
    /\ g[0] = Fresh(corner)
    /\ \A i \in 1..Len(t) : g[i] = Both(g[i - 1], t[i])

LEMMA ReplayTable ==
    ASSUME NEW S, NEW t \in Seq(S), NEW corner
    PROVE  \E g : IsReplay(g, corner, t) /\ Replayed(corner, t) = g[Len(t)]
<1> DEFINE n == Len(t)
           Body(g) == [i \in 0..n |-> IF i = 0 THEN Fresh(corner) ELSE Both(g[i - 1], t[i])]
           after == CHOOSE g : g = Body(g)
           Filled(m) == \E g : /\ g = [i \in 0..m |-> g[i]] /\ g[0] = Fresh(corner)
                               /\ \A i \in 1..m : g[i] = Both(g[i - 1], t[i])
           T == {m \in Nat : Filled(m)}
<1>1. n \in Nat
  OBVIOUS
<1>2. 0 \in T
  <2> DEFINE g == [i \in 0..0 |-> Fresh(corner)]
  <2>1. /\ g = [i \in 0..0 |-> g[i]] /\ g[0] = Fresh(corner)
        /\ \A i \in 1..0 : g[i] = Both(g[i - 1], t[i])
    OBVIOUS
  <2> QED BY <2>1
<1>3. ASSUME NEW m \in Nat, m \in T PROVE m + 1 \in T
  <2>1. PICK g : /\ g = [i \in 0..m |-> g[i]] /\ g[0] = Fresh(corner)
                 /\ \A i \in 1..m : g[i] = Both(g[i - 1], t[i])
    BY <1>3
  <2> DEFINE h == [i \in 0..(m + 1) |-> IF i = m + 1 THEN Both(g[m], t[m + 1]) ELSE g[i]]
  <2>2. h = [i \in 0..(m + 1) |-> h[i]] /\ h[0] = Fresh(corner)
    BY <2>1
  <2>3. ASSUME NEW i \in 1..(m + 1) PROVE h[i] = Both(h[i - 1], t[i])
    <3>1. CASE i = m + 1
      BY <3>1
    <3>2. CASE i # m + 1
      <4>1. i \in 1..m /\ i - 1 \in 0..(m + 1) /\ i - 1 # m + 1 /\ i \in 0..(m + 1)
        BY <3>2
      <4> QED BY <2>1, <3>2, <4>1
    <3> QED BY <3>1, <3>2
  <2>4. \E k : /\ k = [i \in 0..(m + 1) |-> k[i]] /\ k[0] = Fresh(corner)
               /\ \A i \in 1..(m + 1) : k[i] = Both(k[i - 1], t[i])
    <3> HIDE DEF h
    <3> QED BY <2>2, <2>3
  <2>5. Filled(m + 1)
    <3> HIDE DEF h
    <3> QED BY <2>4
  <2> HIDE DEF h, Filled
  <2> QED BY <2>5
<1>4. \A m \in Nat : m \in T
  <2> HIDE DEF T
  <2> QED BY <1>2, <1>3, Induction
<1>5. PICK f : /\ f = [i \in 0..n |-> f[i]] /\ f[0] = Fresh(corner)
               /\ \A i \in 1..n : f[i] = Both(f[i - 1], t[i])
  BY <1>1, <1>4
<1>6. f = Body(f)
  <2>1. \A i \in 0..n : f[i] = IF i = 0 THEN Fresh(corner) ELSE Both(f[i - 1], t[i])
    <3>1. \A i \in 0..n : i = 0 \/ i \in 1..n
      BY <1>1
    <3> QED BY <1>5, <3>1
  <2> HIDE DEF n
  <2> QED BY <1>5, <2>1
<1>7. after = Body(after)
  <2> HIDE DEF Body
  <2> QED BY <1>6
<1>8. Replayed(corner, t) = after[n]
  BY DEF Replayed
<1> HIDE DEF after
<1>9. IsReplay(after, corner, t)
  <2>1. \A i \in 0..n : after[i] = IF i = 0 THEN Fresh(corner) ELSE Both(after[i - 1], t[i])
    <3> HIDE DEF n
    <3> QED BY <1>7
  <2>2. 0 \in 0..n /\ \A i \in 1..n : i \in 0..n /\ i # 0
    BY <1>1
  <2> QED BY <2>1, <2>2 DEF IsReplay
<1> QED BY <1>8, <1>9

LEMMA ReplayedNothing ==
    ASSUME NEW corner PROVE Replayed(corner, << >>) = Fresh(corner)
<1>1. << >> \in Seq({}) /\ Len(<< >>) = 0
  OBVIOUS
<1> QED BY <1>1, ReplayTable DEF IsReplay

LEMMA ReplayedOneMore ==
    ASSUME NEW S, NEW t \in Seq(S), NEW r \in S, NEW corner
    PROVE  Replayed(corner, Append(t, r)) = Both(Replayed(corner, t), r)
<1> DEFINE n == Len(t)
           u == Append(t, r)
<1>1. n \in Nat /\ u \in Seq(S) /\ Len(u) = n + 1 /\ u[n + 1] = r
      /\ \A i \in 1..n : u[i] = t[i] /\ i \in 1..(n + 1)
  OBVIOUS
<1>2. PICK g : IsReplay(g, corner, t) /\ Replayed(corner, t) = g[n]
  BY ReplayTable
<1>3. PICK h : IsReplay(h, corner, u) /\ Replayed(corner, u) = h[n + 1]
  <2> HIDE DEF u
  <2> QED BY <1>1, ReplayTable
<1> HIDE DEF n, u
<1> DEFINE T == {i \in Nat : i <= n => g[i] = h[i]}
<1>4. 0 \in T
  BY <1>2, <1>3 DEF IsReplay
<1>5. ASSUME NEW i \in Nat, i \in T PROVE i + 1 \in T
  <2> SUFFICES ASSUME i + 1 <= n PROVE g[i + 1] = h[i + 1]
    OBVIOUS
  <2>1. i + 1 \in 1..n /\ (i + 1) - 1 = i /\ g[i] = h[i]
    BY <1>1, <1>5
  <2>2. g[i + 1] = Both(g[i], t[i + 1])
    BY <1>2, <2>1 DEF IsReplay, n
  <2>3. h[i + 1] = Both(h[i], u[i + 1])
    BY <1>1, <1>3, <2>1 DEF IsReplay
  <2> QED BY <1>1, <2>1, <2>2, <2>3
<1>6. g[n] = h[n]
  <2> HIDE DEF T
  <2>1. n \in T
    BY <1>1, <1>4, <1>5, Induction
  <2> QED BY <1>1, <2>1 DEF T
<1>7. h[n + 1] = Both(h[n], u[n + 1])
  <2>1. n + 1 \in 1..(n + 1) /\ (n + 1) - 1 = n
    BY <1>1
  <2> QED BY <1>1, <1>3, <2>1 DEF IsReplay
<1> QED BY <1>1, <1>2, <1>3, <1>6, <1>7 DEF u

-----------------------------------------------------------------------------
(* R1: what shrinking keeps *)

IsServer(s) == s = [corner |-> s.corner, st |-> s.st, up |-> s.up] /\ s.up \in BOOLEAN

\* No step of t but the last can go.
CannotShrink(t) == \A i \in 1..(Len(t) - 1) : ~fails(Without(t, i - 1, 1))

\* The shortest failing prefix is no longer than hi.
PrefixInv ==
    /\ hi \in 1..Len(trace)
    /\ lo \in 1..hi
    /\ srv.up => fails(SubSeq(trace, 1, hi))

\* What is kept fails, and of a pass in single steps those up to `at` were tried.
InteriorInv ==
    /\ cur \in Seq(Sample) /\ Len(cur) >= 1
    /\ chunk \in Nat /\ at \in Nat
    /\ srv.up => fails(cur)
    /\ chunk = 1 => \A i \in 1..at : i < Len(cur) => ~fails(Without(cur, i - 1, 1))
    /\ chunk = 0 => CannotShrink(cur)

ShrinkInv ==
    /\ IsServer(srv)
    /\ trace \in Seq(Sample)
    /\ pc \in {"start", "driving", "prefix", "interior", "ended"}
    /\ pc \in {"start", "driving"} => exit = 0
    /\ pc = "driving" /\ srv.up =>
          Replayed(job.corner, trace) = [srv |-> srv, oracle |-> oracle, parted |-> FALSE]
    /\ pc = "prefix" => PrefixInv
    /\ pc = "interior" => InteriorInv
    /\ pc = "ended" => exit = 0 \/ ((srv.up => fails(cur)) /\ CannotShrink(cur))

LEMMA CallKeepsServer ==
    ASSUME NEW s, IsServer(s), NEW r
    PROVE  IsServer(Call(s, r)[2]) /\ Call(s, r)[2].up = s.up
<1>1. CASE s.up
  <2>1. Call(s, r)[2] = [s EXCEPT !.st = CornerStep(s.corner, s.st, r)[2]]
    BY <1>1 DEF Call
  <2> QED BY <2>1 DEF IsServer
<1>2. CASE ~s.up
  <2>1. Call(s, r)[2] = s
    BY <1>2 DEF Call
  <2> QED BY <2>1
<1> QED BY <1>1, <1>2

LEMMA WithoutIs ==
    ASSUME NEW S, NEW t \in Seq(S), NEW i \in Nat, NEW n \in Nat \ {0}, i + n < Len(t)
    PROVE  Without(t, i, n) \in Seq(S) /\ Len(Without(t, i, n)) = Len(t) - n
<1>1. SubSeq(t, 1, i) \in Seq(S) /\ Len(SubSeq(t, 1, i)) = i
  OBVIOUS
<1>2. /\ SubSeq(t, i + n + 1, Len(t)) \in Seq(S)
      /\ Len(SubSeq(t, i + n + 1, Len(t))) = Len(t) - (i + n)
  OBVIOUS
<1>3. Without(t, i, n) = SubSeq(t, 1, i) \o SubSeq(t, i + n + 1, Len(t))
  BY DEF Without
<1>4. ASSUME NEW a \in Seq(S), NEW b \in Seq(S)
      PROVE  a \o b \in Seq(S) /\ Len(a \o b) = Len(a) + Len(b)
  OBVIOUS
<1>5. Len(t) \in Nat
  OBVIOUS
<1>6. Without(t, i, n) \in Seq(S)
      /\ Len(Without(t, i, n)) = Len(SubSeq(t, 1, i)) + Len(SubSeq(t, i + n + 1, Len(t)))
  BY <1>1, <1>2, <1>3, <1>4
<1>7. ASSUME NEW p \in Nat PROVE i + (p - (i + n)) = p - n
  OBVIOUS
<1>8. Len(Without(t, i, n)) = i + (Len(t) - (i + n))
  BY <1>1, <1>2, <1>6, Zenon
<1> QED BY <1>5, <1>6, <1>7, <1>8, Zenon

LEMMA ShrinkInit == R1Init => ShrinkInv
BY DEF R1Init, ShrinkInv, IsServer, start, Server

LEMMA BeginTraceShrink == ShrinkInv /\ BeginTrace => ShrinkInv'
<1> SUFFICES ASSUME ShrinkInv, BeginTrace PROVE ShrinkInv'
  OBVIOUS
<1>1. exit' = 0 /\ job' = job
  BY DEF ShrinkInv, BeginTrace
<1>2. CASE traceNo = Traces
  BY <1>1, <1>2 DEF ShrinkInv, BeginTrace
<1>3. CASE traceNo # Traces
  <2>1. pc' = "driving" /\ srv' = Server(job.corner) /\ oracle' = InitState /\ trace' = << >>
    BY <1>3 DEF BeginTrace, start
  <2>2. IsServer(srv') /\ trace' \in Seq(Sample)
    BY <2>1 DEF IsServer, Server
  <2>3. Replayed(job'.corner, trace') = [srv |-> srv', oracle |-> oracle', parted |-> FALSE]
    BY <1>1, <2>1, ReplayedNothing DEF Fresh
  <2> QED BY <1>1, <2>1, <2>2, <2>3 DEF ShrinkInv
<1> QED BY <1>2, <1>3

LEMMA AskShrink ==
    ASSUME ShrinkInv, NEW r \in Sample, Ask(r) PROVE ShrinkInv'
<1> DEFINE said == Call(srv, r)
           due == Step(oracle, r)
<1>1. /\ pc = "driving" /\ exit = 0 /\ job' = job
      /\ srv' = said[2] /\ oracle' = due[2] /\ trace' = Append(trace, r)
  BY DEF Ask, ShrinkInv
<1>2. trace \in Seq(Sample) /\ trace' \in Seq(Sample) /\ Len(trace') = Len(trace) + 1
      /\ Len(trace) \in Nat
  BY <1>1 DEF ShrinkInv
<1>3. IsServer(srv') /\ srv'.up = srv.up
  BY <1>1, CallKeepsServer DEF ShrinkInv
<1>4. ASSUME srv'.up
      PROVE  Replayed(job'.corner, trace') =
                [srv |-> srv', oracle |-> oracle', parted |-> said[1] # due[1]]
  <2>1. Replayed(job.corner, trace) = [srv |-> srv, oracle |-> oracle, parted |-> FALSE]
    BY <1>1, <1>3, <1>4 DEF ShrinkInv
  <2>2. Replayed(job.corner, trace') = Both(Replayed(job.corner, trace), r)
    BY <1>1, <1>2, ReplayedOneMore
  <2> QED BY <1>1, <2>1, <2>2 DEF Both
<1>5. CASE said[1] = due[1]
  <2>1. pc' = "driving" /\ exit' = 0
    BY <1>1, <1>5 DEF Ask
  <2>2. srv'.up => Replayed(job'.corner, trace') =
                      [srv |-> srv', oracle |-> oracle', parted |-> FALSE]
    BY <1>4, <1>5
  <2> QED BY <1>2, <1>3, <2>1, <2>2 DEF ShrinkInv
<1>6. CASE said[1] # due[1] /\ ~job.stopFirst
  <2>1. pc' = "start" /\ exit' = 0
    BY <1>1, <1>6 DEF Ask
  <2> QED BY <1>2, <1>3, <2>1 DEF ShrinkInv
<1>7. CASE said[1] # due[1] /\ job.stopFirst
  <2>1. pc' = "prefix" /\ lo' = 1 /\ hi' = Len(trace')
    BY <1>1, <1>7 DEF Ask
  <2>2. SubSeq(trace', 1, hi') = trace'
    BY <1>2, <2>1
  <2>3. srv'.up => fails(SubSeq(trace, 1, hi))'
    <3> SUFFICES ASSUME srv'.up PROVE fails(SubSeq(trace, 1, hi))'
      OBVIOUS
    <3>1. Replayed(job'.corner, trace') =
              [srv |-> srv', oracle |-> oracle', parted |-> said[1] # due[1]]
      BY <1>4
    <3> HIDE DEF said, due
    <3>2. Replayed(job'.corner, trace').parted = (said[1] # due[1])
      BY <3>1
    <3>3. Replayed(job'.corner, trace').parted
      BY <1>7, <3>2, Zenon
    <3> QED BY <2>2, <3>3 DEF fails
  <2>4. PrefixInv'
    BY <1>2, <2>1, <2>3 DEF PrefixInv
  <2> QED BY <1>2, <1>3, <2>1, <2>4 DEF ShrinkInv
<1> QED BY <1>5, <1>6, <1>7

LEMMA EndTraceShrink == ShrinkInv /\ EndTrace => ShrinkInv'
BY DEF ShrinkInv, EndTrace, shrinking

LEMMA ServerDiesShrink == ShrinkInv /\ ServerDies => ShrinkInv'
<1> SUFFICES ASSUME ShrinkInv, ServerDies PROVE ShrinkInv'
  OBVIOUS
<1>1. IsServer(srv') /\ srv'.up = FALSE
  BY DEF ShrinkInv, ServerDies, IsServer
<1> QED BY <1>1 DEF ShrinkInv, ServerDies

LEMMA PrefixShrink == ShrinkInv /\ shortestPrefix => ShrinkInv'
<1> SUFFICES ASSUME ShrinkInv, shortestPrefix PROVE ShrinkInv'
  OBVIOUS
<1>1. PrefixInv /\ trace \in Seq(Sample) /\ UNCHANGED <<job, srv, exit, trace>>
  BY DEF ShrinkInv, shortestPrefix
<1>2. lo \in Nat /\ hi \in Nat /\ lo >= 1 /\ lo <= hi /\ hi <= Len(trace) /\ Len(trace) \in Nat
  BY <1>1 DEF PrefixInv
<1>3. CASE lo < hi
  <2> DEFINE mid == (lo + hi) \div 2
  <2>1. mid \in Nat /\ lo <= mid /\ mid < hi
    BY <1>2, <1>3
  <2>2. pc' = "prefix"
    BY <1>3 DEF shortestPrefix, ShrinkInv
  <2>3. CASE fails(SubSeq(trace, 1, mid))
    <3>1. hi' = mid /\ lo' = lo
      BY <1>3, <2>3 DEF shortestPrefix
    <3>2. fails(SubSeq(trace, 1, hi))'
      BY <1>1, <2>3, <3>1 DEF fails
    <3> HIDE DEF mid
    <3>3. PrefixInv'
      BY <1>1, <1>2, <2>1, <3>1, <3>2 DEF PrefixInv
    <3> QED BY <1>1, <2>2, <3>3 DEF ShrinkInv
  <2>4. CASE ~fails(SubSeq(trace, 1, mid))
    <3>1. hi' = hi /\ lo' = mid + 1
      BY <1>3, <2>4 DEF shortestPrefix
    <3>2. srv'.up => fails(SubSeq(trace, 1, hi))'
      BY <1>1, <3>1 DEF fails, PrefixInv
    <3> HIDE DEF mid
    <3>3. PrefixInv'
      BY <1>1, <1>2, <2>1, <3>1, <3>2 DEF PrefixInv
    <3> QED BY <1>1, <2>2, <3>3 DEF ShrinkInv
  <2> QED BY <2>3, <2>4
<1>4. CASE ~(lo < hi)
  <2>1. /\ pc' = "interior" /\ cur' = SubSeq(trace, 1, lo)
        /\ chunk' = lo \div 2 /\ at' = 0
    BY <1>4 DEF shortestPrefix
  <2>2. lo = hi
    BY <1>2, <1>4
  <2>3. cur' \in Seq(Sample) /\ Len(cur') = lo
    BY <1>1, <1>2, <2>1
  <2>4. srv'.up => fails(cur)'
    BY <1>1, <2>1, <2>2 DEF fails, PrefixInv
  <2>5. chunk' \in Nat /\ (chunk' = 0 => lo = 1)
    BY <1>2, <2>1
  <2>6. chunk' = 0 => CannotShrink(cur)'
    BY <1>2, <2>3, <2>5 DEF CannotShrink
  <2>7. InteriorInv'
    BY <1>2, <2>1, <2>3, <2>4, <2>5, <2>6 DEF InteriorInv
  <2> QED BY <1>1, <2>1, <2>7 DEF ShrinkInv
<1> QED BY <1>3, <1>4

LEMMA RemoveShrink == ShrinkInv /\ removeChunks => ShrinkInv'
<1> SUFFICES ASSUME ShrinkInv, removeChunks PROVE ShrinkInv'
  OBVIOUS
<1> DEFINE cand == Without(cur, at, chunk)
           next == at + chunk
<1>1. /\ InteriorInv /\ UNCHANGED <<job, srv, exit, trace>>
      /\ IsServer(srv) /\ trace \in Seq(Sample)
  BY DEF ShrinkInv, removeChunks
<1>2. Len(cur) \in Nat /\ next \in Nat
  BY <1>1 DEF InteriorInv
<1>3. CASE chunk = 0
  <2>1. pc' = "ended" /\ cur' = cur
    BY <1>3 DEF removeChunks
  <2>2. (srv'.up => fails(cur)') /\ CannotShrink(cur)'
    BY <1>1, <1>3, <2>1 DEF fails, InteriorInv, CannotShrink
  <2> QED BY <1>1, <2>1, <2>2 DEF ShrinkInv
<1>4. CASE chunk # 0 /\ next >= Len(cur)
  <2>1. pc' = "interior" /\ chunk' = chunk \div 2 /\ at' = 0 /\ cur' = cur
    BY <1>4 DEF removeChunks, ShrinkInv
  <2>2. chunk' \in Nat /\ (chunk' = 0 => chunk = 1)
    BY <1>1, <1>4, <2>1 DEF InteriorInv
  <2>3. chunk' = 0 => CannotShrink(cur)'
    <3> SUFFICES ASSUME chunk = 1, NEW i \in 1..(Len(cur) - 1)
                 PROVE  ~fails(Without(cur, i - 1, 1))
      BY <1>1, <2>1, <2>2 DEF fails, CannotShrink
    <3>1. i \in 1..at /\ i < Len(cur)
      BY <1>1, <1>2, <1>4 DEF InteriorInv
    <3> QED BY <1>1, <3>1 DEF InteriorInv
  <2>4. srv'.up => fails(cur)'
    BY <1>1, <2>1 DEF fails, InteriorInv
  <2>5. InteriorInv'
    BY <1>1, <2>1, <2>2, <2>3, <2>4 DEF InteriorInv
  <2> QED BY <1>1, <2>1, <2>5 DEF ShrinkInv
<1>5. CASE chunk # 0 /\ next < Len(cur) /\ fails(cand)
  <2>1. pc' = "interior" /\ cur' = cand /\ at' = 0 /\ chunk' = chunk
    BY <1>2, <1>5 DEF removeChunks, ShrinkInv
  <2>2. cand \in Seq(Sample) /\ Len(cand) = Len(cur) - chunk
    BY <1>1, <1>5, WithoutIs DEF InteriorInv
  <2>3. srv'.up => fails(cur)'
    BY <1>1, <1>5, <2>1 DEF fails
  <2> HIDE DEF cand
  <2>4. InteriorInv'
    BY <1>1, <1>2, <1>5, <2>1, <2>2, <2>3 DEF InteriorInv
  <2> QED BY <1>1, <2>1, <2>4 DEF ShrinkInv
<1>6. CASE chunk # 0 /\ next < Len(cur) /\ ~fails(cand)
  <2>1. pc' = "interior" /\ cur' = cur /\ at' = next /\ chunk' = chunk
    BY <1>2, <1>6 DEF removeChunks, ShrinkInv
  <2>2. srv'.up => fails(cur)'
    BY <1>1, <2>1 DEF fails, InteriorInv
  <2>3. ASSUME chunk = 1, NEW i \in 1..next, i < Len(cur) PROVE ~fails(Without(cur, i - 1, 1))
    <3>1. i \in 1..at \/ i - 1 = at
      BY <1>1, <2>3 DEF InteriorInv
    <3> QED BY <1>1, <1>6, <2>3, <3>1 DEF InteriorInv
  <2>4. InteriorInv'
    BY <1>1, <1>2, <1>6, <2>1, <2>2, <2>3 DEF fails, InteriorInv
  <2> QED BY <1>1, <2>1, <2>4 DEF ShrinkInv
<1> QED BY <1>1, <1>2, <1>3, <1>4, <1>5, <1>6 DEF InteriorInv

LEMMA StutterShrink == ShrinkInv /\ UNCHANGED r1vars => ShrinkInv'
BY DEF ShrinkInv, r1vars, PrefixInv, InteriorInv, CannotShrink, fails

\* R1's loop and both passes of its shrinking keep what they are about.
LEMMA ShrinkHolds == R1Spec => []ShrinkInv
<1>1. ShrinkInv /\ [R1Next]_r1vars => ShrinkInv'
  BY BeginTraceShrink, AskShrink, EndTraceShrink, ServerDiesShrink, PrefixShrink, RemoveShrink,
     StutterShrink DEF R1Next
<1> QED BY <1>1, ShrinkInit, PTL DEF R1Spec

(* What R1 prints as the minimal reproduction fails on a fresh server, and *)
(* no step of it but the last can go (diffrun/main.go:161-220); for any    *)
(* corner, any requests and traces of any length.                          *)
THEOREM ReproductionsAreTight == R1Spec => []ReproductionIsTight
<1>1. ShrinkInv => ReproductionIsTight
  BY DEF ShrinkInv, ReproductionIsTight, CannotShrink
<1> QED BY <1>1, ShrinkHolds, PTL

(* And the shrinking ends: no attempt leaves it where it was, though every *)
(* removal starts the pass again (diffrun/main.go:190-213).                *)
THEOREM ShrinkingGetsCloser == R1Spec => EveryAttemptGetsCloser
<1>1. ShrinkInv /\ [R1Next]_r1vars => [pc = "interior" => Closer]_r1vars
  <2> SUFFICES ASSUME ShrinkInv, R1Next, pc = "interior" PROVE Closer
    OBVIOUS
  <2>1. removeChunks /\ InteriorInv
    BY DEF R1Next, ShrinkInv, BeginTrace, Ask, EndTrace, ServerDies, shortestPrefix
  <2>2. chunk \in Nat /\ at \in Nat /\ Len(cur) \in Nat
    BY <2>1 DEF InteriorInv
  <2>3. CASE chunk # 0 /\ at + chunk < Len(cur) /\ fails(Without(cur, at, chunk))
    <3>1. Len(Without(cur, at, chunk)) = Len(cur) - chunk
      BY <2>1, <2>2, <2>3, WithoutIs DEF InteriorInv
    <3>2. cur' = Without(cur, at, chunk)
      BY <2>1, <2>2, <2>3 DEF removeChunks
    <3> QED BY <2>2, <2>3, <3>1, <3>2 DEF Closer
  <2>4. CASE chunk # 0 /\ at + chunk < Len(cur) /\ ~fails(Without(cur, at, chunk))
    <3>1. at' = at + chunk /\ cur' = cur /\ chunk' = chunk
      BY <2>1, <2>2, <2>4 DEF removeChunks
    <3> QED BY <2>2, <2>4, <3>1 DEF Closer
  <2>5. CASE chunk # 0 /\ at + chunk >= Len(cur)
    <3>1. chunk' = chunk \div 2 /\ cur' = cur
      BY <2>1, <2>5 DEF removeChunks
    <3> QED BY <2>2, <2>5, <3>1 DEF Closer
  <2>6. CASE chunk = 0
    BY <2>1, <2>6 DEF removeChunks, Closer
  <2> QED BY <2>2, <2>3, <2>4, <2>5, <2>6
<1> QED BY <1>1, ShrinkHolds, PTL DEF R1Spec, EveryAttemptGetsCloser

-----------------------------------------------------------------------------
(* R2: a corner that conforms does what S_obs does *)

Operations ==
    {"create", "follow", "unfollow", "post", "tick", "timeline", "malformed", "unrouted"}

\* The states requests lead to: an id is a position, and stamps grow to the clock.
Sound(s) ==
    /\ s \in State
    /\ s.nextUserID >= 1
    /\ s.nextTweetID = Len(s.tweets) + 1
    /\ \A i \in 1..Len(s.tweets) : s.tweets[i].id = i /\ s.tweets[i].createdAt <= s.clock
    /\ \A i, j \in 1..Len(s.tweets) : i < j => s.tweets[i].createdAt <= s.tweets[j].createdAt

\* What a request may do to one of them.
Follows(s, n) ==
    /\ Sound(n)
    /\ s.clock <= n.clock
    /\ \A h \in Handles : Registered(s, h) => Registered(n, h)
    /\ Len(n.tweets) <= Len(s.tweets) + 1

LEMMA SoundFields ==
    ASSUME NEW s, Sound(s)
    PROVE  /\ s.users \in [Handles -> Nat] /\ s.follows \in SUBSET Edge
           /\ s.tweets \in Seq(Tweet) /\ s.clock \in Nat
           /\ s.nextUserID \in Nat /\ s.nextTweetID \in Nat
           /\ Len(s.tweets) \in Nat
           /\ \A i \in 1..Len(s.tweets) :
                 /\ s.tweets[i] \in Tweet /\ s.tweets[i].id \in Nat
                 /\ s.tweets[i].createdAt \in Nat /\ s.tweets[i].author \in Handles
<1>1. /\ s.users \in [Handles -> Nat] /\ s.follows \in SUBSET Edge
      /\ s.tweets \in Seq(Tweet) /\ s.clock \in Nat
      /\ s.nextUserID \in Nat /\ s.nextTweetID \in Nat
  BY DEF Sound, State
<1>2. Len(s.tweets) \in Nat /\ \A i \in 1..Len(s.tweets) : s.tweets[i] \in Tweet
  BY <1>1
<1>3. \A t \in Tweet : t.id \in Nat /\ t.createdAt \in Nat /\ t.author \in Handles
  BY DEF Tweet
<1> QED BY <1>1, <1>2, <1>3

LEMMA SoundStays == ASSUME NEW s, Sound(s) PROVE Follows(s, s)
BY SoundFields DEF Follows

LEMMA SoundInit == Sound(InitState)
<1>1. Len(InitState.tweets) = 0 /\ InitState \in State
  BY DEF InitState, State
<1> QED BY <1>1 DEF Sound, InitState

LEMMA RejectStays == \A s, code : Reject(s, code)[2] = s
BY DEF Reject

LEMMA CreateFollows ==
    ASSUME NEW s, Sound(s), NEW r
    PROVE  Follows(s, StepCreateUser(s, r)[2])
<1>1. CASE ~ValidHandle(r.handle) \/ Registered(s, r.handle)
  BY <1>1, RejectStays, SoundStays DEF StepCreateUser
<1>2. CASE ValidHandle(r.handle) /\ ~Registered(s, r.handle)
  <2> DEFINE n == [s EXCEPT !.users = [@ EXCEPT ![r.handle] = s.nextUserID],
                            !.nextUserID = @ + 1]
  <2>1. StepCreateUser(s, r)[2] = n
    BY <1>2 DEF StepCreateUser
  <2>2. s \in State /\ s.nextUserID + 1 \in Nat
        /\ [s.users EXCEPT ![r.handle] = s.nextUserID] \in [Handles -> Nat]
    <3>1. s.users \in [Handles -> Nat] /\ s.nextUserID \in Nat /\ s \in State
      BY SoundFields DEF Sound
    <3>2. s.nextUserID + 1 \in Nat
      BY <3>1
    <3>3. [s.users EXCEPT ![r.handle] = s.nextUserID] \in [Handles -> Nat]
      BY <3>1
    <3> QED BY <3>1, <3>2, <3>3
  <2>3. n \in State /\ n.users = [s.users EXCEPT ![r.handle] = s.nextUserID]
        /\ n.tweets = s.tweets /\ n.clock = s.clock /\ n.nextTweetID = s.nextTweetID
        /\ n.nextUserID = s.nextUserID + 1
    BY <2>2 DEF State
  <2> HIDE DEF n
  <2>4. Sound(n) /\ s.clock <= n.clock /\ Len(n.tweets) <= Len(s.tweets) + 1
    BY <2>3, SoundFields DEF Sound
  <2>5. \A h \in Handles : Registered(s, h) => Registered(n, h)
    BY <1>2, <2>3, SoundFields DEF Registered
  <2> QED BY <2>1, <2>4, <2>5 DEF Follows
<1> QED BY <1>1, <1>2

\* Who is answered 201 is a user from then on.
LEMMA CreatedIsUser ==
    ASSUME NEW s, Sound(s), NEW r, StepCreateUser(s, r)[1].status = 201
    PROVE  r.handle \in Handles /\ Registered(StepCreateUser(s, r)[2], r.handle)
<1>1. \A code : Reject(s, code)[1].status # 201
  BY DEF Reject, ErrorBody
<1>2. ValidHandle(r.handle) /\ ~Registered(s, r.handle)
  BY <1>1 DEF StepCreateUser
<1>3. StepCreateUser(s, r)[2].users = [s.users EXCEPT ![r.handle] = s.nextUserID]
  BY <1>2 DEF StepCreateUser, Sound, State
<1>4. s.nextUserID # 0 /\ s.users \in [Handles -> Nat]
  BY SoundFields DEF Sound
<1> QED BY <1>2, <1>3, <1>4 DEF Registered, ValidHandle

LEMMA EdgesFollow ==
    ASSUME NEW s, Sound(s), NEW f \in SUBSET Edge
    PROVE  Follows(s, [s EXCEPT !.follows = f])
<1> DEFINE n == [s EXCEPT !.follows = f]
<1>1. n \in State /\ n.users = s.users /\ n.nextUserID = s.nextUserID
      /\ n.tweets = s.tweets /\ n.clock = s.clock /\ n.nextTweetID = s.nextTweetID
  BY DEF Sound, State
<1> HIDE DEF n
<1>2. Follows(s, n)
  BY <1>1, SoundFields DEF Sound, Follows, Registered
<1> QED BY <1>2 DEF n

LEMMA EdgeStepsFollow ==
    ASSUME NEW s, Sound(s), NEW r
    PROVE  Follows(s, StepFollow(s, r)[2]) /\ Follows(s, StepUnfollow(s, r)[2])
<1> DEFINE Wrong == \/ ~ValidHandle(r.from) \/ ~ValidHandle(r.to)
                    \/ ~Registered(s, r.from) \/ ~Registered(s, r.to)
           edge == <<r.from, r.to>>
<1>1. Follows(s, s)
  BY SoundStays
<1>2. Wrong => StepFollow(s, r)[2] = s /\ StepUnfollow(s, r)[2] = s
  BY RejectStays DEF StepFollow, StepUnfollow
<1>3. ~Wrong => /\ \/ StepFollow(s, r)[2] = s
                   \/ StepFollow(s, r)[2] = [s EXCEPT !.follows = s.follows \cup {edge}]
                /\ StepUnfollow(s, r)[2] = [s EXCEPT !.follows = s.follows \ {edge}]
  BY RejectStays DEF StepFollow, StepUnfollow
<1>4. ~Wrong => s.follows \cup {edge} \in SUBSET Edge /\ s.follows \ {edge} \in SUBSET Edge
  BY SoundFields DEF ValidHandle, Edge
<1> HIDE DEF Wrong, edge
<1> QED BY <1>1, <1>2, <1>3, <1>4, EdgesFollow

\* The tweet of a post, and the state with it.
Tweeted(s, a, x) == [id |-> s.nextTweetID, author |-> a, text |-> x, createdAt |-> s.clock]
Posted(s, t) == [s EXCEPT !.tweets = Append(@, t), !.nextTweetID = @ + 1]

LEMMA LongerLog ==
    ASSUME NEW s \in State, NEW q \in Seq(Tweet), NEW i \in Nat
    PROVE  [s EXCEPT !.tweets = q, !.nextTweetID = i] \in State
BY DEF State

LEMMA PostedIs ==
    ASSUME NEW s, Sound(s), NEW a \in Handles, NEW x \in Texts, NEW t, t = Tweeted(s, a, x)
    PROVE  /\ t \in Tweet /\ Follows(s, Posted(s, t))
           /\ Posted(s, t).tweets = Append(s.tweets, t) /\ Posted(s, t).follows = s.follows
           /\ Posted(s, t).clock = s.clock /\ Posted(s, t).users = s.users
<1> DEFINE n == Posted(s, t)
           k == Len(s.tweets)
<1>1. t \in Tweet /\ t.id = k + 1 /\ t.createdAt = s.clock
  BY SoundFields DEF Tweeted, Tweet, Sound
<1>2. k \in Nat /\ s.tweets \in Seq(Tweet) /\ s \in State /\ s.nextTweetID = k + 1 /\ s.clock \in Nat
  BY SoundFields DEF Sound
<1>3. /\ Append(s.tweets, t) \in Seq(Tweet) /\ Len(Append(s.tweets, t)) = k + 1
      /\ Append(s.tweets, t)[k + 1] = t
      /\ \A i \in 1..k : Append(s.tweets, t)[i] = s.tweets[i]
  BY <1>1, <1>2
<1>4. /\ n \in State /\ n.tweets = Append(s.tweets, t) /\ n.follows = s.follows
      /\ n.clock = s.clock /\ n.users = s.users /\ n.nextTweetID = (k + 1) + 1
      /\ n.nextUserID = s.nextUserID
  <2>1. n = [s EXCEPT !.tweets = Append(s.tweets, t), !.nextTweetID = s.nextTweetID + 1]
    BY DEF Posted
  <2>2. n \in State
    <3>1. s.nextTweetID + 1 \in Nat
      BY <1>2
    <3>2. s \in State /\ Append(s.tweets, t) \in Seq(Tweet)
      BY <1>2, <1>3
    <3>3. [s EXCEPT !.tweets = Append(s.tweets, t), !.nextTweetID = s.nextTweetID + 1] \in State
      BY <3>1, <3>2, LongerLog
    <3> QED BY <2>1, <3>3
  <2> QED BY <1>2, <2>1, <2>2 DEF State
<1> HIDE DEF n
<1>5. \A i \in 1..Len(n.tweets) : i = k + 1 \/ i \in 1..k
  BY <1>2, <1>3, <1>4
<1>6. \A i \in 1..k : /\ s.tweets[i].id = i /\ s.tweets[i].createdAt <= s.clock
                      /\ s.tweets[i].createdAt \in Nat
  BY SoundFields DEF Sound
<1>7. \A i \in 1..Len(n.tweets) : n.tweets[i].id = i /\ n.tweets[i].createdAt <= n.clock
  BY <1>1, <1>2, <1>3, <1>4, <1>5, <1>6
<1>8. ASSUME NEW i \in 1..Len(n.tweets), NEW j \in 1..Len(n.tweets), i < j
      PROVE  n.tweets[i].createdAt <= n.tweets[j].createdAt
  <2>1. i \in 1..k
    BY <1>2, <1>5, <1>8
  <2>2. CASE j = k + 1
    BY <1>1, <1>3, <1>4, <1>6, <2>1, <2>2
  <2>3. CASE j \in 1..k
    BY <1>3, <1>4, <1>8, <2>1, <2>3 DEF Sound
  <2> QED BY <1>5, <2>2, <2>3
<1>9. Sound(n)
  BY <1>3, <1>4, <1>7, <1>8 DEF Sound
<1>10. Follows(s, n)
  BY <1>2, <1>3, <1>4, <1>9 DEF Follows, Registered
<1> QED BY <1>1, <1>4, <1>10 DEF n

LEMMA PostFollows ==
    ASSUME NEW s, Sound(s), NEW r
    PROVE  Follows(s, StepPostTweet(s, r)[2])
<1> DEFINE Wrong == \/ ~ValidHandle(r.author) \/ ~ValidText(r.text) \/ ~Registered(s, r.author)
           t == Tweeted(s, r.author, r.text)
<1>1. CASE Wrong
  BY <1>1, RejectStays, SoundStays DEF StepPostTweet
<1>2. CASE ~Wrong
  <2>1. StepPostTweet(s, r)[2] = Posted(s, t)
    BY <1>2 DEF StepPostTweet, Tweeted, Posted
  <2>2. r.author \in Handles /\ r.text \in Texts
    BY <1>2 DEF ValidHandle, ValidText
  <2> QED BY <2>1, <2>2, PostedIs
<1> QED BY <1>1, <1>2

LEMMA TickFollows ==
    ASSUME NEW s, Sound(s)
    PROVE  LET n == StepTick(s)[2]
           IN  /\ Follows(s, n) /\ n.tweets = s.tweets /\ n.follows = s.follows
               /\ n.users = s.users /\ n.clock = s.clock + 1
<1> DEFINE n == StepTick(s)[2]
<1>1. s \in State /\ s.clock \in Nat /\ Len(s.tweets) \in Nat
  BY SoundFields DEF Sound
<1>2. /\ n \in State /\ n.clock = s.clock + 1 /\ n.tweets = s.tweets /\ n.users = s.users
      /\ n.nextTweetID = s.nextTweetID /\ n.follows = s.follows
      /\ n.nextUserID = s.nextUserID
  BY <1>1 DEF StepTick, State
<1> HIDE DEF n
<1>3. \A i \in 1..Len(n.tweets) : n.tweets[i].id = i /\ n.tweets[i].createdAt <= n.clock
  BY <1>1, <1>2, SoundFields DEF Sound
<1>4. Sound(n)
  BY <1>2, <1>3 DEF Sound
<1> QED BY <1>1, <1>2, <1>4 DEF Follows, Registered, n

LEMMA TimelineKeeps == \A s, r : StepTimeline(s, r)[2] = s
BY DEF StepTimeline, Reject

LEMMA StepFollows ==
    ASSUME NEW s, Sound(s), NEW r, r.op \in Operations
    PROVE  Follows(s, Step(s, r)[2])
<1>1. CASE r.op = "create"
  BY <1>1, CreateFollows DEF Step
<1>2. CASE r.op = "follow"
  BY <1>2, EdgeStepsFollow DEF Step
<1>3. CASE r.op = "unfollow"
  BY <1>3, EdgeStepsFollow DEF Step
<1>4. CASE r.op = "post"
  BY <1>4, PostFollows DEF Step
<1>5. CASE r.op = "tick"
  BY <1>5, TickFollows DEF Step
<1>6. CASE r.op = "timeline"
  BY <1>6, TimelineKeeps, SoundStays DEF Step
<1>7. CASE r.op \in {"malformed", "unrouted"}
  BY <1>7, RejectStays, SoundStays DEF Step
<1> QED BY <1>1, <1>2, <1>3, <1>4, <1>5, <1>6, <1>7 DEF Operations

LEMMA ConformingPost ==
    ASSUME NEW s, Sound(s), NEW r
    PROVE  CornerPost(Conforming, s, r) = StepPostTweet(s, r)
<1> DEFINE k == Len(s.tweets)
<1>1. s.tweets # << >> => ~(s.clock < Last(s.tweets).createdAt)
  <2> SUFFICES ASSUME s.tweets # << >> PROVE ~(s.clock < Last(s.tweets).createdAt)
    OBVIOUS
  <2>1. k \in 1..k /\ Last(s.tweets) = s.tweets[k]
    BY SoundFields DEF Last
  <2>2. s.tweets[k].createdAt <= s.clock /\ s.tweets[k].createdAt \in Nat /\ s.clock \in Nat
    BY <2>1, SoundFields DEF Sound
  <2> QED BY <2>1, <2>2
<1>2. \A t : [[s EXCEPT !.nextTweetID = @ + 1] EXCEPT !.tweets = Append(@, t)]
               = [s EXCEPT !.tweets = Append(@, t), !.nextTweetID = @ + 1]
  BY DEF Sound, State
<1>3. Conforming # "created-at-frozen" /\ Conforming # "orphan-author-accepted"
  BY DEF Conforming
<1> DEFINE t == [id |-> s.nextTweetID, author |-> r.author, text |-> r.text,
                 createdAt |-> s.clock]
<1>4. t.createdAt = s.clock
  OBVIOUS
<1>5. CASE \/ ~ValidHandle(r.author) \/ ~ValidText(r.text) \/ ~Registered(s, r.author)
  BY <1>3, <1>5 DEF CornerPost, StepPostTweet
<1>6. CASE ValidHandle(r.author) /\ ValidText(r.text) /\ Registered(s, r.author)
  <2>1. CornerPost(Conforming, s, r) =
          << TweetBody(t), [[s EXCEPT !.nextTweetID = @ + 1] EXCEPT !.tweets = Append(@, t)] >>
    BY <1>1, <1>3, <1>6 DEF CornerPost
  <2>2. StepPostTweet(s, r) =
          << TweetBody(t), [s EXCEPT !.tweets = Append(@, t), !.nextTweetID = @ + 1] >>
    BY <1>6 DEF StepPostTweet
  <2> HIDE DEF t
  <2> QED BY <1>2, <2>1, <2>2
<1> QED BY <1>5, <1>6

LEMMA ConformingTimeline ==
    ASSUME NEW s, Sound(s), NEW r
    PROVE  CornerTimeline(Conforming, s, r) = StepTimeline(s, r)
<1> DEFINE most == IF r.limit = Absent THEN DefaultLimit ELSE r.limit
           newest == Reverse(s.tweets)
           visible == VisibleBelow(s, r.user, r.cursor)
           more == Len(visible) > most
           shownPage == IF more THEN SubSeq(visible, 1, most) ELSE visible
           next == IF shownPage = << >> \/ ~more THEN Absent ELSE Last(shownPage).id
           due == StepTimeline(s, r)[1]
<1>1. visible \in Seq(Tweet)
  <2>1. newest \in Seq(Tweet)
    BY SoundFields, ReverseType
  <2> HIDE DEF newest
  <2> QED BY <2>1, KeptIsSelection DEF VisibleBelow, newest
<1>2. CornerTimeline(Conforming, s, r)
        = << IF due.status = 200 THEN TimelineBody(shownPage, next) ELSE due, s >>
  <2> DEFINE below(t) == CASE r.cursor = Absent -> TRUE
                           [] OTHER -> t.id < r.cursor
             seenAt == {i \in DOMAIN newest :
                       /\ below(newest[i])
                       /\ newest[i].author = r.user \/ <<r.user, newest[i].author>> \in s.follows}
  <2>1. seenAt = {i \in DOMAIN newest :
                       /\ r.cursor # Absent => newest[i].id < r.cursor
                       /\ newest[i].author = r.user \/ <<r.user, newest[i].author>> \in s.follows}
    OBVIOUS
  <2>2. visible = Kept(newest, seenAt)
    BY <2>1 DEF VisibleBelow
  <2> QED BY <2>2 DEF CornerTimeline, Conforming
<1> HIDE DEF visible, newest
<1>3. CASE due.status = 200
  <2>1. StepTimeline(s, r) = << PageBody(visible, most), s >> /\ most \in 1..MaxLimit
    BY <1>3 DEF StepTimeline, Reject, ErrorBody, visible
  <2>2. PageBody(visible, most) = TimelineBody(shownPage, next)
    <3>1. CASE more
      <4>1. most \in Nat /\ most >= 1 /\ Len(visible) > most /\ Len(visible) \in Nat
        BY <1>1, <2>1, <3>1, WireAssumption
      <4>2. SubSeq(visible, 1, most) # << >>
        BY <1>1, <4>1
      <4> QED BY <3>1, <4>1, <4>2 DEF PageBody
    <3>2. CASE ~more
      <4>1. SubSeq(visible, 1, Len(visible)) = visible
        BY <1>1
      <4>2. most \in Nat /\ Len(visible) \in Nat
        BY <1>1, <2>1, WireAssumption
      <4>3. Len(visible) < most \/ Len(visible) = most
        BY <3>2, <4>2
      <4> QED BY <3>2, <4>1, <4>3 DEF PageBody
    <3> QED BY <3>1, <3>2
  <2> QED BY <1>2, <1>3, <2>1, <2>2
<1>4. CASE due.status # 200
  <2>1. StepTimeline(s, r) = << due, s >>
    BY <1>4 DEF StepTimeline, Reject, PageBody, TimelineBody
  <2> QED BY <1>2, <1>4, <2>1
<1> QED BY <1>3, <1>4

LEMMA ConformingIsSObs ==
    ASSUME NEW s, Sound(s), NEW r, Understood(Conforming, r) = r
    PROVE  CornerStep(Conforming, s, r) = Step(s, r)
<1>1. CornerCreate(Conforming, s, r) = StepCreateUser(s, r)
      /\ CornerFollow(Conforming, s, r) = StepFollow(s, r)
      /\ CornerUnfollow(Conforming, s, r) = StepUnfollow(s, r)
      /\ CornerTick(Conforming, s) = StepTick(s)
  BY DEF CornerCreate, CornerFollow, CornerUnfollow, CornerTick, StepTick, Conforming
<1> QED BY <1>1, ConformingPost, ConformingTimeline DEF CornerStep, Step

\* A server of such a corner, in state s.
Serving(s) == [corner |-> Conforming, st |-> s, up |-> TRUE]

LEMMA CallIsStep ==
    ASSUME NEW s, Sound(s), NEW r, Understood(Conforming, r) = r
    PROVE  Call(Serving(s), r) = << Step(s, r)[1], Serving(Step(s, r)[2]) >>
<1>1. CornerStep(Conforming, s, r) = Step(s, r)
  BY ConformingIsSObs
<1>2. /\ Serving(s).up /\ Serving(s).corner = Conforming /\ Serving(s).st = s
  BY DEF Serving
<1>3. \A n : [Serving(s) EXCEPT !.st = n] = Serving(n)
  <2>1. PICK yes : yes = TRUE
    OBVIOUS
  <2>2. \A n : Serving(n) = [corner |-> Conforming, st |-> n, up |-> yes]
    BY <2>1 DEF Serving
  <2>3. \A n : [[corner |-> Conforming, st |-> s, up |-> yes] EXCEPT !.st = n]
                 = [corner |-> Conforming, st |-> n, up |-> yes]
    OBVIOUS
  <2> QED BY <2>2, <2>3
<1> QED BY <1>1, <1>2, <1>3 DEF Call

-----------------------------------------------------------------------------
(* R2: what is asked of such a corner is asked of S_obs *)

\* Each entry is the last answer and the server after so many requests.
IsExchange(g, server, rs) ==
    /\ g[0] = << NoAnswer, server >>
    /\ \A i \in 1..Len(rs) : g[i] = Call(g[i - 1][2], rs[i])

LEMMA DoTable ==
    ASSUME NEW S, NEW rs \in Seq(S), NEW server
    PROVE  \E g : /\ IsExchange(g, server, rs)
                  /\ Do(server, rs) = [i \in 1..Len(rs) |-> g[i][1]]
<1> DEFINE First == << NoAnswer, server >>
           n == Len(rs)
           Body(g) == [i \in 0..n |-> IF i = 0 THEN First ELSE Call(g[i - 1][2], rs[i])]
           after == CHOOSE g : g = Body(g)
           Filled(m) == \E g : /\ g = [i \in 0..m |-> g[i]] /\ g[0] = First
                               /\ \A i \in 1..m : g[i] = Call(g[i - 1][2], rs[i])
           T == {m \in Nat : Filled(m)}
<1>1. n \in Nat
  OBVIOUS
<1>2. 0 \in T
  <2> DEFINE g == [i \in 0..0 |-> First]
  <2>1. /\ g = [i \in 0..0 |-> g[i]] /\ g[0] = First
        /\ \A i \in 1..0 : g[i] = Call(g[i - 1][2], rs[i])
    OBVIOUS
  <2> QED BY <2>1
<1>3. ASSUME NEW m \in Nat, m \in T PROVE m + 1 \in T
  <2>1. PICK g : /\ g = [i \in 0..m |-> g[i]] /\ g[0] = First
                 /\ \A i \in 1..m : g[i] = Call(g[i - 1][2], rs[i])
    BY <1>3
  <2> DEFINE h == [i \in 0..(m + 1) |-> IF i = m + 1 THEN Call(g[m][2], rs[m + 1]) ELSE g[i]]
  <2>2. h = [i \in 0..(m + 1) |-> h[i]] /\ h[0] = First
    BY <2>1
  <2>3. ASSUME NEW i \in 1..(m + 1) PROVE h[i] = Call(h[i - 1][2], rs[i])
    <3>1. CASE i = m + 1
      BY <3>1
    <3>2. CASE i # m + 1
      <4>1. i \in 1..m /\ i - 1 \in 0..(m + 1) /\ i - 1 # m + 1 /\ i \in 0..(m + 1)
        BY <3>2
      <4> QED BY <2>1, <3>2, <4>1
    <3> QED BY <3>1, <3>2
  <2>4. \E k : /\ k = [i \in 0..(m + 1) |-> k[i]] /\ k[0] = First
               /\ \A i \in 1..(m + 1) : k[i] = Call(k[i - 1][2], rs[i])
    <3> HIDE DEF h
    <3> QED BY <2>2, <2>3
  <2>5. Filled(m + 1)
    <3> HIDE DEF h
    <3> QED BY <2>4
  <2> HIDE DEF h, Filled
  <2> QED BY <2>5
<1>4. \A m \in Nat : m \in T
  <2> HIDE DEF T
  <2> QED BY <1>2, <1>3, Induction
<1>5. PICK f : /\ f = [i \in 0..n |-> f[i]] /\ f[0] = First
               /\ \A i \in 1..n : f[i] = Call(f[i - 1][2], rs[i])
  BY <1>1, <1>4
<1>6. f = Body(f)
  <2>1. \A i \in 0..n : f[i] = IF i = 0 THEN First ELSE Call(f[i - 1][2], rs[i])
    <3>1. \A i \in 0..n : i = 0 \/ i \in 1..n
      BY <1>1
    <3> QED BY <1>5, <3>1
  <2> HIDE DEF n
  <2> QED BY <1>5, <2>1
<1>7. after = Body(after)
  <2> HIDE DEF Body
  <2> QED BY <1>6
<1>8. Do(server, rs) = [i \in 1..n |-> after[i][1]]
  BY DEF Do
<1> HIDE DEF after
<1>9. IsExchange(after, server, rs)
  <2>1. \A i \in 0..n : after[i] = IF i = 0 THEN First ELSE Call(after[i - 1][2], rs[i])
    <3> HIDE DEF n
    <3> QED BY <1>7
  <2>2. 0 \in 0..n /\ \A i \in 1..n : i \in 0..n /\ i # 0
    BY <1>1
  <2> QED BY <2>1, <2>2 DEF IsExchange
<1> QED BY <1>8, <1>9

Asked(r) == r.op \in Operations /\ Understood(Conforming, r) = r

\* The states S_obs passes through when it is asked rs, from s on.
IsRun(st, s, rs) ==
    /\ st[0] = s
    /\ \A i \in 1..Len(rs) : st[i] = Step(st[i - 1], rs[i])[2] /\ Follows(st[i - 1], st[i])

\* A corner in state s answers as S_obs does on its way.
RunsAsSObs(s, rs) ==
    \E st : /\ IsRun(st, s, rs)
            /\ Do(Serving(s), rs) = [i \in 1..Len(rs) |-> Step(st[i - 1], rs[i])[1]]

LEMMA DoIsSObs ==
    ASSUME NEW S, NEW rs \in Seq(S), \A i \in 1..Len(rs) : Asked(rs[i]), NEW s, Sound(s)
    PROVE  RunsAsSObs(s, rs)
<1> DEFINE n == Len(rs)
<1>1. PICK g : /\ IsExchange(g, Serving(s), rs)
               /\ Do(Serving(s), rs) = [i \in 1..n |-> g[i][1]]
  BY DoTable
<1> DEFINE st == [i \in 0..n |-> g[i][2].st]
           T == {i \in Nat : i <= n => g[i][2] = Serving(st[i]) /\ Sound(st[i])}
<1>2. n \in Nat
  OBVIOUS
<1>3. Serving(s).st = s /\ g[0][2] = Serving(s)
  BY <1>1 DEF Serving, IsExchange
<1>4. 0 \in T /\ st[0] = s
  BY <1>2, <1>3
<1>5. ASSUME NEW i \in Nat, i < n, g[i][2] = Serving(st[i]), Sound(st[i])
      PROVE  /\ g[i + 1][2] = Serving(st[i + 1]) /\ g[i + 1][1] = Step(st[i], rs[i + 1])[1]
             /\ st[i + 1] = Step(st[i], rs[i + 1])[2] /\ Follows(st[i], st[i + 1])
  <2> DEFINE a == Step(st[i], rs[i + 1])
  <2>1. i + 1 \in 1..n /\ (i + 1) - 1 = i /\ i + 1 \in 0..n
    BY <1>2, <1>5
  <2>2. Asked(rs[i + 1])
    BY <2>1
  <2>3. g[i + 1] = Call(Serving(st[i]), rs[i + 1])
    BY <1>1, <1>5, <2>1 DEF IsExchange
  <2>4. st[i + 1] = g[i + 1][2].st
    BY <2>1
  <2> HIDE DEF st
  <2>5. g[i + 1] = << a[1], Serving(a[2]) >>
    BY <1>5, <2>2, <2>3, CallIsStep DEF Asked
  <2>6. st[i + 1] = a[2]
    BY <2>4, <2>5 DEF Serving
  <2>7. Follows(st[i], a[2])
    BY <1>5, <2>2, StepFollows DEF Asked
  <2> QED BY <2>5, <2>6, <2>7
<1> HIDE DEF st
<1>6. ASSUME NEW i \in Nat, i \in T PROVE i + 1 \in T
  <2> SUFFICES ASSUME i + 1 <= n PROVE g[i + 1][2] = Serving(st[i + 1]) /\ Sound(st[i + 1])
    OBVIOUS
  <2>1. i < n /\ g[i][2] = Serving(st[i]) /\ Sound(st[i])
    BY <1>2, <1>6
  <2> QED BY <1>5, <2>1 DEF Follows
<1>7. \A i \in Nat : i \in T
  <2> HIDE DEF T
  <2> QED BY <1>4, <1>6, Induction
<1>8. ASSUME NEW i \in 1..n
      PROVE  /\ st[i] = Step(st[i - 1], rs[i])[2] /\ Follows(st[i - 1], st[i])
             /\ g[i][1] = Step(st[i - 1], rs[i])[1]
  <2>1. PICK k : k = i - 1
    OBVIOUS
  <2>2. k \in Nat /\ k < n /\ k + 1 = i /\ k <= n
    BY <1>2, <2>1
  <2>3. g[k][2] = Serving(st[k]) /\ Sound(st[k])
    BY <1>7, <2>2
  <2> HIDE DEF T
  <2>4. /\ st[k + 1] = Step(st[k], rs[k + 1])[2] /\ Follows(st[k], st[k + 1])
        /\ g[k + 1][1] = Step(st[k], rs[k + 1])[1]
    BY <1>5, <2>2, <2>3
  <2> QED BY <2>1, <2>2, <2>4
<1>9. [i \in 1..n |-> g[i][1]] = [i \in 1..n |-> Step(st[i - 1], rs[i])[1]]
  <2> HIDE DEF n
  <2> QED BY <1>8
<1>10. IsRun(st, s, rs)
  BY <1>4, <1>8 DEF IsRun
<1>11. Do(Serving(s), rs) = [i \in 1..Len(rs) |-> Step(st[i - 1], rs[i])[1]]
  BY <1>1, <1>9
<1> QED BY <1>10, <1>11 DEF RunsAsSObs

-----------------------------------------------------------------------------
(* R2: what S_obs answers to it *)

User(s, a) == a \in Handles /\ Registered(s, a)

LEMMA UserStays ==
    ASSUME NEW s, NEW n, Follows(s, n), NEW a, User(s, a)
    PROVE  User(n, a)
BY DEF Follows, User

LEMMA RequestsAreAsked ==
    /\ \A a, b : Asked(followReq(a, b)) /\ Asked(unfollowReq(a, b))
    /\ \A a : Asked(probe(a)) /\ Asked(home(a)) /\ Asked(full(a))
    /\ Asked(tick)
    /\ \A a, n, c : Asked(read(a, n, c))
<1>1. \A a, b : Asked(followReq(a, b)) /\ Asked(unfollowReq(a, b))
  BY DEF Asked, Operations, Understood, followReq, unfollowReq
<1>2. \A a : Asked(probe(a))
  BY DEF Asked, Operations, Understood, probe
<1>3. Asked(tick)
  BY DEF Asked, Operations, Understood, tick
<1>4. \A a, n, c : Asked(read(a, n, c))
  BY DEF Asked, Operations, Understood, read
<1> QED BY <1>1, <1>2, <1>3, <1>4 DEF home, full

\* The state with another follow set.
With(s, f) == [s EXCEPT !.follows = f]

LEMMA WithIs ==
    ASSUME NEW s, Sound(s), NEW f
    PROVE  /\ With(s, f).follows = f /\ With(s, f).tweets = s.tweets
           /\ With(s, f).users = s.users /\ With(s, f).clock = s.clock
           /\ With(s, s.follows) = s /\ \A g : With(With(s, f), g) = With(s, g)
<1>1. s = [users |-> s.users, follows |-> s.follows, tweets |-> s.tweets,
           clock |-> s.clock, nextUserID |-> s.nextUserID, nextTweetID |-> s.nextTweetID]
  BY DEF Sound, State
<1> QED BY <1>1 DEF With

LEMMA EdgeAnswers ==
    ASSUME NEW s, NEW a, NEW b, User(s, a), User(s, b)
    PROVE  /\ Step(s, followReq(a, b)) = IF a = b THEN Reject(s, "self_follow_forbidden")
                                         ELSE << NoContent, With(s, s.follows \cup {<<a, b>>}) >>
           /\ Step(s, unfollowReq(a, b)) = << NoContent, With(s, s.follows \ {<<a, b>>}) >>
<1>1. Step(s, followReq(a, b)) = StepFollow(s, followReq(a, b))
      /\ Step(s, unfollowReq(a, b)) = StepUnfollow(s, unfollowReq(a, b))
  BY DEF Step, followReq, unfollowReq
<1>2. ValidHandle(a) /\ ValidHandle(b) /\ Registered(s, a) /\ Registered(s, b)
  BY DEF User, ValidHandle
<1>3. followReq(a, b).from = a /\ followReq(a, b).to = b
      /\ unfollowReq(a, b).from = a /\ unfollowReq(a, b).to = b
  BY DEF followReq, unfollowReq
<1>4. StepFollow(s, followReq(a, b)) = IF a = b THEN Reject(s, "self_follow_forbidden")
                                       ELSE << NoContent, With(s, s.follows \cup {<<a, b>>}) >>
  BY <1>2, <1>3 DEF StepFollow, With
<1>5. StepUnfollow(s, unfollowReq(a, b)) = << NoContent, With(s, s.follows \ {<<a, b>>}) >>
  BY <1>2, <1>3 DEF StepUnfollow, With
<1> QED BY <1>1, <1>4, <1>5

LEMMA ReadAnswers ==
    ASSUME NEW s, NEW a, User(s, a), NEW n \in 1..MaxLimit,
           NEW c, c = Absent \/ (c \in Nat /\ c >= 1)
    PROVE  Step(s, read(a, n, c)) = << PageBody(Rest(s.tweets, s.follows, a, c, Absent), n), s >>
<1>1. Step(s, read(a, n, c)) = StepTimeline(s, read(a, n, c))
  BY DEF Step, read
<1>2. read(a, n, c).user = a /\ read(a, n, c).limit = n /\ read(a, n, c).cursor = c
  BY DEF read
<1>3. n # Absent /\ n \in 1..MaxLimit /\ ~(c # Absent /\ c < 1)
  BY WireAssumption
<1>4. VisibleBelow(s, a, c) = Rest(s.tweets, s.follows, a, c, Absent)
  BY DEF VisibleBelow, Rest, ShownTo
<1> QED BY <1>1, <1>2, <1>3, <1>4 DEF StepTimeline, User, ValidHandle

LEMMA ReadsKeep ==
    ASSUME NEW s, NEW a, NEW n, NEW c
    PROVE  Step(s, read(a, n, c))[2] = s
<1>1. Step(s, read(a, n, c)) = StepTimeline(s, read(a, n, c))
  BY DEF Step, read
<1> QED BY <1>1, TimelineKeeps

LEMMA PostAnswers ==
    ASSUME NEW s, Sound(s), NEW a, User(s, a), NEW r, r = probe(a)
    PROVE  LET t == Tweeted(s, a, r.text)
           IN  r.text \in Texts /\ Step(s, r) = << TweetBody(t), Posted(s, t) >>
<1>1. Step(s, r) = StepPostTweet(s, r) /\ r.author = a
  BY DEF Step, probe
<1>2. r.text \in Texts
  BY R2Assumption DEF probe
<1> QED BY <1>1, <1>2 DEF StepPostTweet, User, ValidHandle, ValidText, Tweeted, Posted

LEMMA TickAnswers == \A s : Step(s, tick) = StepTick(s) /\ Step(s, tick)[1] = ClockBody(s.clock + 1)
BY DEF Step, tick, StepTick

\* A page that may hold the whole timeline is the whole timeline.
LEMMA WholePage ==
    ASSUME NEW v \in Seq(Tweet), NEW n \in Nat, Len(v) <= n
    PROVE  PageBody(v, n) = TimelineBody(v, Absent) /\ decoded(PageBody(v, n)) = v
           /\ PageBody(v, n).status = 200
<1>1. ~(Len(v) > n) /\ (IF Len(v) < n THEN Len(v) ELSE n) = Len(v) /\ SubSeq(v, 1, Len(v)) = v
  OBVIOUS
<1>2. PageBody(v, n) = TimelineBody(v, Absent)
  BY <1>1 DEF PageBody
<1> QED BY <1>2 DEF TimelineBody, decoded

-----------------------------------------------------------------------------
(* R2: timelines *)

\* Of two timelines with the same tweets, the second goes on as the first does.
LEMMA SameNext ==
    ASSUME NEW p \in Seq(Tweet), NEW q \in Seq(Tweet), Descending(p), Descending(q),
           Range(p) = Range(q), NEW i \in Nat,
           \A k \in 1..i : k \in 1..Len(p) => k \in 1..Len(q) /\ p[k] = q[k],
           \A k \in 1..i : k \in 1..Len(q) => k \in 1..Len(p) /\ p[k] = q[k],
           i + 1 \in 1..Len(p)
    PROVE  i + 1 \in 1..Len(q) /\ p[i + 1] = q[i + 1]
<1>1. /\ Len(p) \in Nat /\ Len(q) \in Nat
      /\ \A k \in 1..Len(p) : p[k] \in Tweet /\ \E j \in 1..Len(q) : p[k] = q[j]
      /\ \A k \in 1..Len(q) : q[k] \in Tweet /\ \E j \in 1..Len(p) : q[k] = p[j]
  BY TweetsOf
<1>2. \A t \in Tweet : t.id \in Nat
  BY DEF Tweet
<1>3. PICK j \in 1..Len(q) : p[i + 1] = q[j]
  BY <1>1
<1>4. ~(j <= i)
  <2> SUFFICES ASSUME j <= i PROVE FALSE
    OBVIOUS
  <2>1. j \in 1..i /\ j \in 1..Len(p) /\ p[j] = q[j] /\ j < i + 1
    BY <1>1
  <2>2. p[j].id > p[i + 1].id /\ p[j].id \in Nat
    BY <1>1, <1>2, <2>1 DEF Descending
  <2> QED BY <1>3, <2>1, <2>2
<1>5. i + 1 \in 1..Len(q) /\ i + 1 <= j
  BY <1>1, <1>4
<1>6. PICK m \in 1..Len(p) : q[i + 1] = p[m]
  BY <1>1, <1>5
<1>7. ~(m <= i)
  <2> SUFFICES ASSUME m <= i PROVE FALSE
    OBVIOUS
  <2>1. m \in 1..i /\ m \in 1..Len(q) /\ p[m] = q[m] /\ m < i + 1
    BY <1>1
  <2>2. q[m].id > q[i + 1].id /\ q[m].id \in Nat
    BY <1>1, <1>2, <1>5, <2>1 DEF Descending
  <2> QED BY <1>6, <2>1, <2>2
<1>8. j = i + 1
  <2> SUFFICES ASSUME i + 1 < j PROVE FALSE
    BY <1>5
  <2>1. q[i + 1].id > q[j].id
    BY <1>5 DEF Descending
  <2>2. m = i + 1 \/ p[i + 1].id > p[m].id
    BY <1>1, <1>7 DEF Descending
  <2>3. p[i + 1].id \in Nat /\ q[i + 1].id \in Nat
    BY <1>1, <1>2, <1>5
  <2> QED BY <1>3, <1>6, <2>1, <2>2, <2>3
<1> QED BY <1>3, <1>5, <1>8

LEMMA DescendingIsItsRange ==
    ASSUME NEW p \in Seq(Tweet), NEW q \in Seq(Tweet), Descending(p), Descending(q),
           Range(p) = Range(q)
    PROVE  p = q
<1> DEFINE Agree(i) == /\ \A k \in 1..i : k \in 1..Len(p) => k \in 1..Len(q) /\ p[k] = q[k]
                       /\ \A k \in 1..i : k \in 1..Len(q) => k \in 1..Len(p) /\ p[k] = q[k]
           T == {i \in Nat : Agree(i)}
<1>1. 0 \in T
  OBVIOUS
<1>2. ASSUME NEW i \in Nat, i \in T PROVE i + 1 \in T
  <2>1. Agree(i)
    BY <1>2
  <2>2. i + 1 \in 1..Len(p) => i + 1 \in 1..Len(q) /\ p[i + 1] = q[i + 1]
    BY <2>1, SameNext
  <2>3. i + 1 \in 1..Len(q) => i + 1 \in 1..Len(p) /\ q[i + 1] = p[i + 1]
    <3>1. /\ \A k \in 1..i : k \in 1..Len(q) => k \in 1..Len(p) /\ q[k] = p[k]
          /\ \A k \in 1..i : k \in 1..Len(p) => k \in 1..Len(q) /\ q[k] = p[k]
      BY <2>1
    <3> QED BY <3>1, SameNext
  <2>4. \A k \in 1..(i + 1) : k \in 1..i \/ k = i + 1
    OBVIOUS
  <2> QED BY <2>1, <2>2, <2>3, <2>4
<1>3. \A i \in Nat : i \in T
  <2> HIDE DEF T
  <2> QED BY <1>1, <1>2, Induction
<1>4. Len(p) \in Nat /\ Len(q) \in Nat
  OBVIOUS
<1>5. Agree(Len(p)) /\ Agree(Len(q))
  BY <1>3, <1>4
<1>6. Len(p) = Len(q)
  <2>1. Len(p) >= 1 => Len(p) \in 1..Len(q)
    BY <1>4, <1>5
  <2>2. Len(q) >= 1 => Len(q) \in 1..Len(p)
    BY <1>4, <1>5
  <2> QED BY <1>4, <2>1, <2>2
<1>7. \A k \in 1..Len(p) : p[k] = q[k]
  BY <1>4, <1>5
<1>8. p = [k \in 1..Len(p) |-> p[k]] /\ q = [k \in 1..Len(q) |-> q[k]]
  OBVIOUS
<1> QED BY <1>6, <1>7, <1>8

LEMMA DescendingFits ==
    ASSUME NEW v \in Seq(Tweet), Descending(v), NEW n \in Nat, \A t \in Range(v) : t.id \in 1..n
    PROVE  Len(v) <= n
<1> DEFINE T == {i \in Nat : i + 1 <= Len(v) => v[i + 1].id <= n - i}
<1>1. Len(v) \in Nat /\ \A i \in 1..Len(v) : v[i].id \in 1..n
  BY TweetsOf
<1>2. 0 \in T
  BY <1>1
<1>3. ASSUME NEW i \in Nat, i \in T PROVE i + 1 \in T
  <2> SUFFICES ASSUME i + 2 <= Len(v) PROVE v[i + 2].id <= n - (i + 1)
    OBVIOUS
  <2>1. i + 1 \in 1..Len(v) /\ i + 2 \in 1..Len(v) /\ v[i + 1].id <= n - i
    BY <1>1, <1>3
  <2>2. v[i + 1].id > v[i + 2].id
    BY <2>1 DEF Descending
  <2> QED BY <1>1, <2>1, <2>2
<1>4. \A i \in Nat : i \in T
  <2> HIDE DEF T
  <2> QED BY <1>2, <1>3, Induction
<1>5. CASE Len(v) = 0
  BY <1>5
<1>6. CASE Len(v) # 0
  <2>1. PICK i \in Nat : i + 1 = Len(v)
    BY <1>1, <1>6
  <2>2. v[i + 1].id <= n - i /\ v[i + 1].id \in 1..n
    BY <1>1, <1>4, <2>1
  <2> QED BY <2>1, <2>2
<1> QED BY <1>5, <1>6

\* Everything a user may see in a state the requests lead to.
Whole(s, a) == Rest(s.tweets, s.follows, a, Absent, Absent)

LEMMA SoundIsInOrder ==
    ASSUME NEW s, Sound(s)
    PROVE  InOrder(s.tweets) /\ \A t \in Range(s.tweets) : t.id \in 1..Len(s.tweets)
<1>1. s.tweets \in Seq(Tweet) /\ Len(s.tweets) \in Nat
  BY SoundFields
<1>2. \A i \in 1..Len(s.tweets) : s.tweets[i].id = i
  BY DEF Sound
<1>3. \A t \in Range(s.tweets) : \E i \in 1..Len(s.tweets) : t = s.tweets[i]
  BY <1>1, TweetsOf
<1> QED BY <1>1, <1>2, <1>3 DEF InOrder

LEMMA RestOf ==
    ASSUME NEW s, Sound(s), NEW a, NEW c
    PROVE  LET v == Rest(s.tweets, s.follows, a, c, Absent)
           IN  /\ v \in Seq(Tweet) /\ Descending(v) /\ Len(v) \in Nat /\ Len(v) <= Len(s.tweets)
               /\ Range(v) = {t \in Readable(s.tweets, s.follows, a) : Below(t, c, Absent)}
<1> DEFINE v == Rest(s.tweets, s.follows, a, c, Absent)
<1>1. InOrder(s.tweets) /\ \A t \in Range(s.tweets) : t.id \in 1..Len(s.tweets)
  BY SoundIsInOrder
<1>2. /\ v \in Seq(Tweet) /\ Descending(v)
      /\ Range(v) = {t \in Readable(s.tweets, s.follows, a) : Below(t, c, Absent)}
  BY <1>1, RestIsTimeline
<1> HIDE DEF v
<1>3. \A t \in Range(v) : t.id \in 1..Len(s.tweets)
  BY <1>1, <1>2 DEF Readable
<1>4. Len(s.tweets) \in Nat
  BY SoundFields
<1>5. Len(v) <= Len(s.tweets) /\ Len(v) \in Nat
  BY <1>2, <1>3, <1>4, DescendingFits
<1> QED BY <1>2, <1>5 DEF v

LEMMA WholeOf ==
    ASSUME NEW s, Sound(s), NEW a
    PROVE  /\ Whole(s, a) \in Seq(Tweet) /\ Descending(Whole(s, a))
           /\ Len(Whole(s, a)) \in Nat /\ Len(Whole(s, a)) <= Len(s.tweets)
           /\ Range(Whole(s, a)) = Readable(s.tweets, s.follows, a)
BY RestOf DEF Whole, Below

-----------------------------------------------------------------------------
(* R2: the relations *)

Answer(s, r) == Step(s, r)[1]
Moved(s, r) == Step(s, r)[2]

LEMMA MovedFollows ==
    ASSUME NEW s, Sound(s), NEW r, Asked(r)
    PROVE  Follows(s, Moved(s, r))
BY StepFollows DEF Asked, Moved

LEMMA AskedFour ==
    ASSUME NEW s, Sound(s), NEW r1, NEW r2, NEW r3, NEW r4,
           Asked(r1), Asked(r2), Asked(r3), Asked(r4)
    PROVE  LET r == Do(Serving(s), << r1, r2, r3, r4 >>)
               s1 == Moved(s, r1)
               s2 == Moved(s1, r2)
               s3 == Moved(s2, r3)
           IN  /\ r[1] = Answer(s, r1) /\ r[2] = Answer(s1, r2)
               /\ r[3] = Answer(s2, r3) /\ r[4] = Answer(s3, r4)
<1> DEFINE rs == << r1, r2, r3, r4 >>
<1> DEFINE S == {r1, r2, r3, r4}
<1>1. rs \in Seq(S) /\ Len(rs) = 4
      /\ rs[1] = r1 /\ rs[2] = r2 /\ rs[3] = r3 /\ rs[4] = r4
  OBVIOUS
<1> HIDE DEF rs, S
<1>2. \A i \in 1..Len(rs) : Asked(rs[i])
  <2>1. \A i \in 1..4 : i = 1 \/ i = 2 \/ i = 3 \/ i = 4
    OBVIOUS
  <2> QED BY <1>1, <2>1
<1>3. PICK st : /\ IsRun(st, s, rs)
                /\ Do(Serving(s), rs) = [i \in 1..Len(rs) |-> Step(st[i - 1], rs[i])[1]]
  <2>1. RunsAsSObs(s, rs)
    BY <1>1, <1>2, DoIsSObs
  <2> QED BY <2>1 DEF RunsAsSObs
<1>4. 1 \in 1..4 /\ 2 \in 1..4 /\ 3 \in 1..4 /\ 4 \in 1..4
      /\ 1 - 1 = 0 /\ 2 - 1 = 1 /\ 3 - 1 = 2 /\ 4 - 1 = 3
  OBVIOUS
<1>5. /\ st[0] = s /\ st[1] = Moved(st[0], r1) /\ st[2] = Moved(st[1], r2)
      /\ st[3] = Moved(st[2], r3)
  BY <1>1, <1>3, <1>4 DEF IsRun, Moved
<1>6. LET r == Do(Serving(s), rs)
      IN  /\ r[1] = Answer(st[0], r1) /\ r[2] = Answer(st[1], r2)
          /\ r[3] = Answer(st[2], r3) /\ r[4] = Answer(st[3], r4)
  BY <1>1, <1>3, <1>4 DEF Answer
<1> QED BY <1>5, <1>6 DEF rs

LEMMA AskedFive ==
    ASSUME NEW s, Sound(s), NEW r1, NEW r2, NEW r3, NEW r4, NEW r5,
           Asked(r1), Asked(r2), Asked(r3), Asked(r4), Asked(r5)
    PROVE  LET r == Do(Serving(s), << r1, r2, r3, r4, r5 >>)
               s1 == Moved(s, r1)
               s2 == Moved(s1, r2)
               s3 == Moved(s2, r3)
               s4 == Moved(s3, r4)
           IN  /\ r[1] = Answer(s, r1) /\ r[2] = Answer(s1, r2)
               /\ r[3] = Answer(s2, r3) /\ r[4] = Answer(s3, r4) /\ r[5] = Answer(s4, r5)
<1> DEFINE rs == << r1, r2, r3, r4, r5 >>
<1> DEFINE S == {r1, r2, r3, r4, r5}
<1>1. rs \in Seq(S) /\ Len(rs) = 5
      /\ rs[1] = r1 /\ rs[2] = r2 /\ rs[3] = r3 /\ rs[4] = r4 /\ rs[5] = r5
  OBVIOUS
<1> HIDE DEF rs, S
<1>2. \A i \in 1..Len(rs) : Asked(rs[i])
  <2>1. \A i \in 1..5 : i = 1 \/ i = 2 \/ i = 3 \/ i = 4 \/ i = 5
    OBVIOUS
  <2> QED BY <1>1, <2>1
<1>3. PICK st : /\ IsRun(st, s, rs)
                /\ Do(Serving(s), rs) = [i \in 1..Len(rs) |-> Step(st[i - 1], rs[i])[1]]
  <2>1. RunsAsSObs(s, rs)
    BY <1>1, <1>2, DoIsSObs
  <2> QED BY <2>1 DEF RunsAsSObs
<1>4. 1 \in 1..5 /\ 2 \in 1..5 /\ 3 \in 1..5 /\ 4 \in 1..5 /\ 5 \in 1..5
      /\ 1 - 1 = 0 /\ 2 - 1 = 1 /\ 3 - 1 = 2 /\ 4 - 1 = 3 /\ 5 - 1 = 4
  OBVIOUS
<1>5. /\ st[0] = s /\ st[1] = Moved(st[0], r1) /\ st[2] = Moved(st[1], r2)
      /\ st[3] = Moved(st[2], r3) /\ st[4] = Moved(st[3], r4)
  BY <1>1, <1>3, <1>4 DEF IsRun, Moved
<1>6. LET r == Do(Serving(s), rs)
      IN  /\ r[1] = Answer(st[0], r1) /\ r[2] = Answer(st[1], r2)
          /\ r[3] = Answer(st[2], r3) /\ r[4] = Answer(st[3], r4) /\ r[5] = Answer(st[4], r5)
  BY <1>1, <1>3, <1>4 DEF Answer
<1> QED BY <1>5, <1>6 DEF rs

\* Asked for a page of any size, S_obs stays as it is.
LEMMA ReadStays == \A s, a, n, c : Moved(s, read(a, n, c)) = s
BY ReadsKeep DEF Moved

LEMMA HomeStays == \A s, a : Moved(s, home(a)) = s /\ Moved(s, full(a)) = s
BY ReadStays DEF home, full

\* The edge from a to b is there or not there, whatever it was before.
Joined(s, a, b) == IF a = b THEN s ELSE With(s, s.follows \cup {<<a, b>>})
Parted(s, a, b) == With(s, s.follows \ {<<a, b>>})

LEMMA EdgeMoves ==
    ASSUME NEW s, Sound(s), NEW a, NEW b, User(s, a), User(s, b)
    PROVE  /\ Moved(s, followReq(a, b)) = Joined(s, a, b)
           /\ Moved(s, unfollowReq(a, b)) = Parted(s, a, b)
           /\ Answer(s, unfollowReq(a, b)) = NoContent
           /\ Answer(s, followReq(a, b)) = IF a = b THEN ErrorBody(400, "self_follow_forbidden")
                                           ELSE NoContent
           /\ Follows(s, Joined(s, a, b)) /\ Follows(s, Parted(s, a, b))
           /\ User(Joined(s, a, b), a) /\ User(Joined(s, a, b), b)
           /\ User(Parted(s, a, b), a) /\ User(Parted(s, a, b), b)
<1>1. /\ Moved(s, followReq(a, b)) = Joined(s, a, b)
      /\ Moved(s, unfollowReq(a, b)) = Parted(s, a, b)
      /\ Answer(s, unfollowReq(a, b)) = NoContent
      /\ Answer(s, followReq(a, b)) = IF a = b THEN ErrorBody(400, "self_follow_forbidden")
                                      ELSE NoContent
  BY EdgeAnswers DEF Moved, Answer, Joined, Parted, Reject
<1>2. Follows(s, Joined(s, a, b)) /\ Follows(s, Parted(s, a, b))
  BY <1>1, MovedFollows, RequestsAreAsked
<1> QED BY <1>1, <1>2, UserStays

LEMMA EdgeSettles ==
    ASSUME NEW s, Sound(s), NEW a, NEW b
    PROVE  /\ Joined(Joined(s, a, b), a, b) = Joined(s, a, b)
           /\ Parted(Parted(s, a, b), a, b) = Parted(s, a, b)
           /\ Parted(Joined(Parted(s, a, b), a, b), a, b) = Parted(s, a, b)
<1> DEFINE edge == <<a, b>>
<1>1. \A f : With(s, f).follows = f /\ \A g : With(With(s, f), g) = With(s, g)
  BY WithIs
<1>2. (s.follows \cup {edge}) \cup {edge} = s.follows \cup {edge}
      /\ (s.follows \ {edge}) \ {edge} = s.follows \ {edge}
      /\ ((s.follows \ {edge}) \cup {edge}) \ {edge} = s.follows \ {edge}
  OBVIOUS
<1> HIDE DEF edge
<1>3. Joined(s, a, b) = (IF a = b THEN s ELSE With(s, s.follows \cup {edge}))
      /\ Parted(s, a, b) = With(s, s.follows \ {edge})
      /\ \A n : Joined(n, a, b) = (IF a = b THEN n ELSE With(n, n.follows \cup {edge}))
                /\ Parted(n, a, b) = With(n, n.follows \ {edge})
  BY DEF Joined, Parted, edge
<1>4. Joined(Joined(s, a, b), a, b) = Joined(s, a, b)
  BY <1>1, <1>2, <1>3
<1>5. Parted(Parted(s, a, b), a, b) = Parted(s, a, b)
  BY <1>1, <1>2, <1>3
<1>6. CASE a = b
  BY <1>3, <1>5, <1>6
<1>7. CASE a # b
  BY <1>1, <1>2, <1>3, <1>7
<1> QED BY <1>4, <1>5, <1>6, <1>7

LEMMA FollowIdempotent ==
    ASSUME NEW s, Sound(s), NEW a, NEW b, User(s, a), User(s, b)
    PROVE  idempotent(Do(Serving(s), << followReq(a, b), home(a), followReq(a, b), home(a) >>))
<1> DEFINE n == Joined(s, a, b)
           r == Do(Serving(s), << followReq(a, b), home(a), followReq(a, b), home(a) >>)
<1>1. /\ Moved(s, followReq(a, b)) = n /\ Sound(n)
      /\ Moved(n, followReq(a, b)) = n /\ Answer(n, followReq(a, b)) = Answer(s, followReq(a, b))
  <2>1. Follows(s, n) /\ Moved(s, followReq(a, b)) = n /\ User(n, a) /\ User(n, b)
    BY EdgeMoves
  <2>2. Sound(n) /\ Joined(n, a, b) = n
    BY <2>1, EdgeSettles DEF Follows
  <2> HIDE DEF n
  <2> QED BY <2>1, <2>2, EdgeMoves
<1>2. Moved(n, home(a)) = n
  BY HomeStays
<1> HIDE DEF n
<1>3. /\ r[1] = Answer(s, followReq(a, b)) /\ r[2] = Answer(n, home(a))
      /\ r[3] = Answer(n, followReq(a, b)) /\ r[4] = Answer(n, home(a))
  BY <1>1, <1>2, AskedFour, RequestsAreAsked
<1> HIDE DEF r
<1>4. idempotent(r)
  BY <1>1, <1>3 DEF idempotent
<1> QED BY <1>4 DEF r

LEMMA UnfollowIdempotent ==
    ASSUME NEW s, Sound(s), NEW a, NEW b, User(s, a), User(s, b)
    PROVE  idempotent(Do(Serving(s), << unfollowReq(a, b), home(a), unfollowReq(a, b), home(a) >>))
<1> DEFINE n == Parted(s, a, b)
           r == Do(Serving(s), << unfollowReq(a, b), home(a), unfollowReq(a, b), home(a) >>)
<1>1. /\ Moved(s, unfollowReq(a, b)) = n /\ Sound(n) /\ Moved(n, unfollowReq(a, b)) = n
      /\ Answer(n, unfollowReq(a, b)) = Answer(s, unfollowReq(a, b))
  <2>1. Follows(s, n) /\ Moved(s, unfollowReq(a, b)) = n /\ User(n, a) /\ User(n, b)
        /\ Answer(s, unfollowReq(a, b)) = NoContent
    BY EdgeMoves
  <2>2. Sound(n) /\ Parted(n, a, b) = n
    BY <2>1, EdgeSettles DEF Follows
  <2> HIDE DEF n
  <2> QED BY <2>1, <2>2, EdgeMoves
<1>2. Moved(n, home(a)) = n
  BY HomeStays
<1> HIDE DEF n
<1>3. /\ r[1] = Answer(s, unfollowReq(a, b)) /\ r[2] = Answer(n, home(a))
      /\ r[3] = Answer(n, unfollowReq(a, b)) /\ r[4] = Answer(n, home(a))
  BY <1>1, <1>2, AskedFour, RequestsAreAsked
<1> HIDE DEF r
<1>4. idempotent(r)
  BY <1>1, <1>3 DEF idempotent
<1> QED BY <1>4 DEF r

LEMMA FollowUnfollowRestores ==
    ASSUME NEW s, Sound(s), NEW a, NEW b, User(s, a), User(s, b)
    PROVE  followUnfollowRestores(Do(Serving(s),
             << unfollowReq(a, b), home(a), followReq(a, b), unfollowReq(a, b), home(a) >>))
<1> DEFINE n == Parted(s, a, b)
           m == Joined(n, a, b)
           r == Do(Serving(s), << unfollowReq(a, b), home(a), followReq(a, b),
                                  unfollowReq(a, b), home(a) >>)
<1>1. Follows(s, n) /\ Moved(s, unfollowReq(a, b)) = n /\ User(n, a) /\ User(n, b)
  BY EdgeMoves
<1>2. Parted(m, a, b) = n
  BY EdgeSettles
<1>3. Sound(n) /\ Moved(n, home(a)) = n
  BY <1>1, HomeStays DEF Follows
<1> HIDE DEF n
<1>4. Follows(n, m) /\ Moved(n, followReq(a, b)) = m /\ User(m, a) /\ User(m, b)
  BY <1>1, <1>3, EdgeMoves
<1> HIDE DEF m
<1>5. Moved(m, unfollowReq(a, b)) = n
  BY <1>2, <1>4, EdgeMoves DEF Follows
<1>6. r[2] = Answer(n, home(a)) /\ r[5] = Answer(n, home(a))
  BY <1>1, <1>3, <1>4, <1>5, AskedFive, RequestsAreAsked
<1> HIDE DEF r
<1>7. followUnfollowRestores(r)
  BY <1>6 DEF followUnfollowRestores
<1> QED BY <1>7 DEF r

\* A state whose timelines fit on a page of MaxLimit.
Fits(s) == Len(s.tweets) <= MaxLimit

LEMMA FullAnswers ==
    ASSUME NEW s, Sound(s), Fits(s), NEW a, User(s, a)
    PROVE  /\ decoded(Answer(s, full(a))) = Whole(s, a)
           /\ Answer(s, full(a)).status = 200
<1> DEFINE v == Whole(s, a)
<1>1. MaxLimit \in 1..MaxLimit /\ MaxLimit \in Nat
  BY R2Assumption, WireAssumption
<1>2. Answer(s, full(a)) = PageBody(v, MaxLimit)
  BY <1>1, ReadAnswers DEF Answer, full, Whole
<1>3. v \in Seq(Tweet) /\ Len(v) <= MaxLimit
  BY <1>1, WholeOf, SoundFields DEF Fits
<1> HIDE DEF v
<1>4. decoded(PageBody(v, MaxLimit)) = v /\ PageBody(v, MaxLimit).status = 200
  BY <1>1, <1>3, WholePage
<1> QED BY <1>2, <1>4 DEF v

\* The log's tweets by their ids.
LEMMA ByPosition ==
    ASSUME NEW s, Sound(s), NEW t \in Range(s.tweets)
    PROVE  t.id \in 1..Len(s.tweets) /\ t = s.tweets[t.id] /\ t \in Tweet
<1>1. s.tweets \in Seq(Tweet)
  BY SoundFields
<1>2. PICK i \in 1..Len(s.tweets) : t = s.tweets[i]
  BY <1>1, TweetsOf
<1>3. s.tweets[i].id = i /\ s.tweets[i] \in Tweet
  BY SoundFields DEF Sound
<1> QED BY <1>2, <1>3

LEMMA WholeIsOrdered ==
    ASSUME NEW s, Sound(s), NEW a
    PROVE  descending(Whole(s, a))
<1> DEFINE v == Whole(s, a)
<1>1. v \in Seq(Tweet) /\ Descending(v) /\ Range(v) = Readable(s.tweets, s.follows, a)
  BY WholeOf
<1> HIDE DEF v
<1>2. \A i \in DOMAIN v : i \in 1..Len(v) /\ v[i] \in Range(s.tweets)
  BY <1>1, TweetsOf DEF Readable
<1>3. ASSUME NEW i \in DOMAIN v \ {1}
      PROVE  \/ v[i - 1].createdAt > v[i].createdAt
             \/ v[i - 1].createdAt = v[i].createdAt /\ v[i - 1].id > v[i].id
  <2>1. i - 1 \in 1..Len(v) /\ i \in 1..Len(v) /\ i - 1 < i
    BY <1>1, <1>2
  <2>2. v[i - 1].id > v[i].id
    BY <1>1, <2>1 DEF Descending
  <2>3. v[i - 1] \in Range(s.tweets) /\ v[i] \in Range(s.tweets)
    BY <1>1, <1>2, <2>1
  <2>4. /\ v[i].id \in 1..Len(s.tweets) /\ v[i] = s.tweets[v[i].id]
        /\ v[i - 1].id \in 1..Len(s.tweets) /\ v[i - 1] = s.tweets[v[i - 1].id]
    BY <2>3, ByPosition
  <2>5. v[i].createdAt <= v[i - 1].createdAt
    <3>1. v[i].id < v[i - 1].id
      BY <2>2, <2>4
    <3>2. s.tweets[v[i].id].createdAt <= s.tweets[v[i - 1].id].createdAt
      BY <2>4, <3>1 DEF Sound
    <3> QED BY <2>4, <3>2
  <2>6. v[i].createdAt \in Nat /\ v[i - 1].createdAt \in Nat
    BY <2>4, SoundFields
  <2> QED BY <2>2, <2>5, <2>6
<1>4. descending(v)
  BY <1>3 DEF descending
<1> QED BY <1>4 DEF v

\* Reads alone leave the state of S_obs as it was.
LEMMA ReadsRun ==
    ASSUME NEW st, NEW s, NEW S, NEW rs \in Seq(S), IsRun(st, s, rs),
           \A i \in 1..Len(rs) : \E a, n, c : rs[i] = read(a, n, c)
    PROVE  \A i \in 0..Len(rs) : st[i] = s
<1> DEFINE T == {i \in Nat : i <= Len(rs) => st[i] = s}
<1>1. 0 \in T
  BY DEF IsRun
<1>2. ASSUME NEW i \in Nat, i \in T PROVE i + 1 \in T
  <2> SUFFICES ASSUME i + 1 <= Len(rs) PROVE st[i + 1] = s
    OBVIOUS
  <2>1. i + 1 \in 1..Len(rs) /\ (i + 1) - 1 = i /\ st[i] = s
    BY <1>2
  <2>2. st[i + 1] = Step(st[i], rs[i + 1])[2]
    BY <2>1 DEF IsRun
  <2> QED BY <2>1, <2>2, ReadsKeep
<1>3. \A i \in Nat : i \in T
  <2> HIDE DEF T
  <2> QED BY <1>1, <1>2, Induction
<1> QED BY <1>3

\* Asked for pages only, a corner answers as S_obs does in that one state.
LEMMA ReadsAnswered ==
    ASSUME NEW s, Sound(s), NEW S, NEW rs \in Seq(S),
           \A i \in 1..Len(rs) : \E a, n, c : rs[i] = read(a, n, c)
    PROVE  Do(Serving(s), rs) = [i \in 1..Len(rs) |-> Answer(s, rs[i])]
<1>1. \A i \in 1..Len(rs) : Asked(rs[i])
  BY RequestsAreAsked
<1>2. RunsAsSObs(s, rs)
  BY <1>1, DoIsSObs
<1>3. PICK st : /\ IsRun(st, s, rs)
                /\ Do(Serving(s), rs) = [i \in 1..Len(rs) |-> Step(st[i - 1], rs[i])[1]]
  BY <1>2 DEF RunsAsSObs
<1>4. \A i \in 0..Len(rs) : st[i] = s
  BY <1>3, ReadsRun
<1>5. \A i \in 1..Len(rs) : i - 1 \in 0..Len(rs)
  OBVIOUS
<1> QED BY <1>3, <1>4, <1>5 DEF Answer

LEMMA TimelineOrdered ==
    ASSUME NEW s, Sound(s), Fits(s), NEW us \in Seq(Handles), \A i \in 1..Len(us) : User(s, us[i])
    PROVE  timelineOrdered(Do(Serving(s), [i \in DOMAIN us |-> full(us[i])]))
<1> DEFINE rs == [i \in DOMAIN us |-> full(us[i])]
           S == {full(h) : h \in Handles}
           r == Do(Serving(s), rs)
<1>1. DOMAIN us = 1..Len(us) /\ Len(us) \in Nat /\ \A i \in 1..Len(us) : us[i] \in Handles
  OBVIOUS
<1>2. rs \in Seq(S) /\ Len(rs) = Len(us) /\ \A i \in 1..Len(us) : rs[i] = full(us[i])
  BY <1>1
<1> HIDE DEF rs, S
<1>3. \A i \in 1..Len(rs) : \E a, n, c : rs[i] = read(a, n, c)
  BY <1>2 DEF full
<1>4. r = [i \in 1..Len(rs) |-> Answer(s, rs[i])]
  BY <1>2, <1>3, ReadsAnswered
<1>5. \A i \in DOMAIN r : i \in 1..Len(us) /\ r[i] = Answer(s, full(us[i]))
  BY <1>2, <1>4
<1> HIDE DEF r
<1>6. \A i \in DOMAIN r : descending(decoded(r[i]))
  BY <1>5, FullAnswers, WholeIsOrdered
<1>7. timelineOrdered(r)
  BY <1>6 DEF timelineOrdered
<1> QED BY <1>7 DEF r, rs

LEMMA JoinedLists ==
    ASSUME NEW S, NEW p \in Seq(S), NEW q \in Seq(S)
    PROVE  /\ p \o q \in Seq(S) /\ Len(p \o q) = Len(p) + Len(q)
           /\ \A i \in 1..Len(p) : (p \o q)[i] = p[i]
           /\ \A i \in 1..Len(q) : (p \o q)[Len(p) + i] = q[i]
<1>1. p \o q \in Seq(S) /\ Len(p \o q) = Len(p) + Len(q)
  OBVIOUS
<1>2. \A i \in 1..Len(p) : (p \o q)[i] = p[i]
  OBVIOUS
<1>3. \A i \in 1..Len(q) : (p \o q)[Len(p) + i] = q[i]
  OBVIOUS
<1> QED BY <1>1, <1>2, <1>3

LEMMA ReadsArePure ==
    ASSUME NEW s, Sound(s), NEW a
    PROVE  readsArePure(Do(Serving(s),
             << full(a) >> \o [i \in 1..6 |-> IF i % 2 = 1 THEN read(a, 3, Absent)
                                                           ELSE read(a, 1, 2)]
               \o << full(a) >>))
<1> DEFINE mid == [i \in 1..6 |-> IF i % 2 = 1 THEN read(a, 3, Absent) ELSE read(a, 1, 2)]
           S == {read(a, MaxLimit, Absent), read(a, 3, Absent), read(a, 1, 2)}
           rs == << full(a) >> \o mid \o << full(a) >>
           r == Do(Serving(s), rs)
<1>1. full(a) \in S /\ \A x \in S : \E h, n, c : x = read(h, n, c)
  BY DEF full
<1>2. mid \in Seq(S) /\ Len(mid) = 6
  <2>1. \A i \in 1..6 : mid[i] \in S
    OBVIOUS
  <2> HIDE DEF S
  <2> QED BY <2>1
<1> HIDE DEF mid, S
<1>3. /\ rs \in Seq(S) /\ Len(rs) = 8 /\ rs[1] = full(a) /\ rs[8] = full(a)
  <2> DEFINE one == << full(a) >>
             seven == one \o mid
  <2>1. one \in Seq(S) /\ Len(one) = 1 /\ one[1] = full(a)
    BY <1>1
  <2> HIDE DEF one
  <2>2. seven \in Seq(S) /\ Len(seven) = Len(one) + Len(mid) /\ seven[1] = one[1]
    <3>1. 1 \in 1..Len(one)
      BY <2>1
    <3> QED BY <1>2, <2>1, <3>1, JoinedLists
  <2> HIDE DEF seven
  <2>3. /\ seven \o one \in Seq(S) /\ Len(seven \o one) = Len(seven) + Len(one)
        /\ (seven \o one)[1] = seven[1] /\ (seven \o one)[Len(seven) + 1] = one[1]
    <3>1. 1 \in 1..Len(one) /\ 1 \in 1..Len(seven)
      BY <1>2, <2>1, <2>2
    <3> QED BY <2>1, <2>2, <3>1, JoinedLists
  <2>4. Len(seven) = 7 /\ Len(seven) + 1 = 8
    BY <1>2, <2>1, <2>2
  <2>5. rs = seven \o one
    BY DEF seven, one
  <2> HIDE DEF rs
  <2>6. Len(rs) = 8
    BY <2>1, <2>3, <2>4, <2>5
  <2> QED BY <2>1, <2>2, <2>3, <2>4, <2>5, <2>6
<1> HIDE DEF rs
<1>4. \A i \in 1..Len(rs) : \E h, n, c : rs[i] = read(h, n, c)
  <2>1. \A i \in 1..Len(rs) : rs[i] \in S
    <3>1. rs \in Seq(S)
      BY <1>3
    <3> QED BY <3>1
  <2> QED BY <1>1, <2>1
<1>5. r = [i \in 1..8 |-> Answer(s, rs[i])]
  <2>1. rs \in Seq(S)
    BY <1>3
  <2>2. r = [i \in 1..Len(rs) |-> Answer(s, rs[i])]
    BY <1>4, <2>1, ReadsAnswered
  <2> QED BY <1>3, <2>2
<1> HIDE DEF r
<1>6. r[1] = Answer(s, full(a)) /\ Last(r) = Answer(s, full(a))
  BY <1>3, <1>5 DEF Last
<1>7. readsArePure(r)
  BY <1>6 DEF readsArePure
<1> QED BY <1>7 DEF r, rs, mid

LEMMA IdsOf ==
    ASSUME NEW v \in Seq(Tweet)
    PROVE  \A k : k \in Range(ids(v)) <=> \E t \in Range(v) : k = t.id
BY TweetsOf DEF ids, Range

LEMMA VisibilityFollowsEdges ==
    ASSUME NEW s, Sound(s), Fits(s), NEW a, NEW b, User(s, a), User(s, b)
    PROVE  LET r == Do(Serving(s), << unfollowReq(a, b), full(a), followReq(a, b), full(a) >>)
           IN  visibilityFollowsEdges(b, decoded(r[2]), decoded(r[4]))
<1> DEFINE n == Parted(s, a, b)
           m == Joined(n, a, b)
           r == Do(Serving(s), << unfollowReq(a, b), full(a), followReq(a, b), full(a) >>)
           without == Whole(n, a)
           with == Whole(m, a)
<1>1. Sound(n) /\ Moved(s, unfollowReq(a, b)) = n /\ User(n, a) /\ User(n, b)
  BY EdgeMoves DEF Follows
<1>2. n.tweets = s.tweets
  BY WithIs DEF Parted
<1> HIDE DEF n
<1>3. Sound(m) /\ Moved(n, followReq(a, b)) = m /\ User(m, a)
  BY <1>1, EdgeMoves DEF Follows
<1>4. m.tweets = s.tweets /\ n.follows \subseteq m.follows
      /\ m.follows \subseteq n.follows \cup {<<a, b>>}
  BY <1>1, <1>2, WithIs DEF Joined
<1> HIDE DEF m
<1>5. r[2] = Answer(n, full(a)) /\ r[4] = Answer(m, full(a))
  BY <1>1, <1>3, AskedFour, RequestsAreAsked, HomeStays
<1> HIDE DEF r
<1>6. decoded(r[2]) = without /\ decoded(r[4]) = with
  BY <1>1, <1>2, <1>3, <1>4, <1>5, FullAnswers DEF Fits
<1>7. /\ without \in Seq(Tweet) /\ Range(without) = Readable(s.tweets, n.follows, a)
      /\ with \in Seq(Tweet) /\ Range(with) = Readable(s.tweets, m.follows, a)
  BY <1>1, <1>2, <1>3, <1>4, WholeOf
<1> HIDE DEF without, with
<1>8. Range(without) \subseteq Range(with)
  BY <1>4, <1>7 DEF Readable
<1>9. \A t \in Range(with) : t \in Range(without) \/ t.author = b
  BY <1>4, <1>7 DEF Readable
<1>10. visibilityFollowsEdges(b, without, with)
  BY <1>7, <1>8, <1>9, IdsOf DEF visibilityFollowsEdges
<1> QED BY <1>6, <1>10 DEF r

\* A tweet on top of a timeline.
LEMMA OnTop ==
    ASSUME NEW v \in Seq(Tweet), Descending(v), NEW t \in Tweet, \A x \in Range(v) : x.id < t.id
    PROVE  LET w == << t >> \o v
           IN  /\ w \in Seq(Tweet) /\ Descending(w) /\ Len(w) = Len(v) + 1 /\ w[1] = t
               /\ Range(w) = Range(v) \cup {t}
<1> DEFINE one == << t >>
           w == one \o v
<1>1. one \in Seq(Tweet) /\ Len(one) = 1 /\ one[1] = t
  OBVIOUS
<1> HIDE DEF one
<1>2. /\ w \in Seq(Tweet) /\ Len(w) = Len(one) + Len(v)
      /\ \A i \in 1..Len(one) : w[i] = one[i]
      /\ \A i \in 1..Len(v) : w[Len(one) + i] = v[i]
  BY <1>1, JoinedLists
<1>3. Len(v) \in Nat
  OBVIOUS
<1> HIDE DEF w
<1>4. Len(w) = Len(v) + 1 /\ w[1] = t /\ \A i \in 1..Len(v) : w[1 + i] = v[i]
  BY <1>1, <1>2, <1>3
<1>5. \A k \in 1..Len(w) : k = 1 \/ \E i \in 1..Len(v) : k = 1 + i
  <2> SUFFICES ASSUME NEW k \in 1..Len(w), k # 1 PROVE \E i \in 1..Len(v) : k = 1 + i
    OBVIOUS
  <2>1. k - 1 \in 1..Len(v) /\ k = 1 + (k - 1)
    BY <1>3, <1>4
  <2> QED BY <2>1
<1>6. /\ \A u : u \in Range(v) <=> \E i \in 1..Len(v) : u = v[i]
      /\ \A u : u \in Range(w) <=> \E i \in 1..Len(w) : u = w[i]
  BY <1>2, TweetsOf
<1>7. Range(w) = Range(v) \cup {t}
  <2>1. ASSUME NEW u \in Range(w) PROVE u \in Range(v) \cup {t}
    BY <1>4, <1>5, <1>6
  <2>2. 1 \in 1..Len(w) /\ \A i \in 1..Len(v) : 1 + i \in 1..Len(w)
    BY <1>3, <1>4
  <2>3. t \in Range(w) /\ \A u \in Range(v) : u \in Range(w)
    BY <1>4, <1>6, <2>2
  <2> QED BY <2>1, <2>3
<1>8. ASSUME NEW k \in 1..Len(w), NEW l \in 1..Len(w), k < l PROVE w[k].id > w[l].id
  <2>1. PICK j \in 1..Len(v) : l = 1 + j
    BY <1>3, <1>5, <1>8
  <2>2. CASE k = 1
    <3>1. v[j] \in Range(v) /\ v[j] \in Tweet
      BY <1>6
    <3>2. v[j].id < t.id /\ v[j].id \in Nat /\ t.id \in Nat
      BY <3>1 DEF Tweet
    <3> QED BY <1>4, <2>1, <2>2, <3>2
  <2>3. CASE k # 1
    <3>1. PICK i \in 1..Len(v) : k = 1 + i
      BY <1>5, <2>3
    <3>2. i < j
      BY <1>8, <2>1, <3>1
    <3> QED BY <1>4, <2>1, <3>1, <3>2 DEF Descending
  <2> QED BY <2>2, <2>3
<1>9. Descending(w)
  BY <1>8 DEF Descending
<1> QED BY <1>2, <1>4, <1>7, <1>9 DEF w, one

LEMMA PostPrepends ==
    ASSUME NEW s, Sound(s), Len(s.tweets) < MaxLimit, NEW a, NEW b, User(s, a), User(s, b)
    PROVE  postPrepends(Do(Serving(s),
             << followReq(a, b), full(a), tick, probe(b), full(a) >>))
<1> DEFINE n == Joined(s, a, b)
           m == Moved(n, tick)
           t == Tweeted(m, b, probe(b).text)
           k == Posted(m, t)
           r == Do(Serving(s), << followReq(a, b), full(a), tick, probe(b), full(a) >>)
           old == Whole(n, a)
           new == Whole(k, a)
<1>1. /\ Sound(n) /\ Moved(s, followReq(a, b)) = n /\ User(n, a) /\ User(n, b)
  BY EdgeMoves DEF Follows
<1>2. n.tweets = s.tweets /\ (a = b \/ <<a, b>> \in n.follows)
  BY WithIs DEF Joined
<1> HIDE DEF n
<1>3. Follows(n, m) /\ m.tweets = n.tweets /\ m.follows = n.follows
  BY <1>1, TickFollows, TickAnswers DEF Moved
<1>4. Sound(m) /\ User(m, a) /\ User(m, b)
  BY <1>1, <1>3, UserStays DEF Follows
<1> HIDE DEF m
<1>5. PICK p : p = probe(b)
  OBVIOUS
<1>6. p.text \in Texts /\ Step(m, p) = << TweetBody(t), k >>
  BY <1>4, <1>5, PostAnswers
<1>7. /\ t \in Tweet /\ Follows(m, k) /\ k.tweets = Append(m.tweets, t) /\ k.follows = m.follows
      /\ t.author = b /\ t.id = m.nextTweetID
  <2>1. b \in Handles /\ p.text \in Texts
    BY <1>4, <1>6 DEF User
  <2>2. t = Tweeted(m, b, p.text)
    BY <1>5
  <2>3. t.author = b /\ t.id = m.nextTweetID
    BY DEF Tweeted
  <2> HIDE DEF t
  <2> QED BY <1>4, <2>1, <2>2, <2>3, PostedIs
<1>8. Sound(k) /\ User(k, a)
  BY <1>4, <1>7, UserStays DEF Follows
<1>9. Answer(m, probe(b)) = TweetBody(t) /\ Moved(m, probe(b)) = k
  BY <1>5, <1>6 DEF Answer, Moved
<1> HIDE DEF t, k
<1>10. /\ r[2] = Answer(n, full(a)) /\ r[4] = TweetBody(t) /\ r[5] = Answer(k, full(a))
  <2>1. Moved(n, full(a)) = n /\ Moved(n, tick) = m
    BY HomeStays DEF m
  <2> QED BY <1>1, <1>9, <2>1, AskedFive, RequestsAreAsked
<1> HIDE DEF r
<1>11. s.tweets \in Seq(Tweet) /\ Len(s.tweets) \in Nat /\ MaxLimit \in Nat
  BY SoundFields, WireAssumption
<1>12. Fits(n) /\ Fits(k)
  BY <1>2, <1>3, <1>7, <1>11 DEF Fits
<1>13. decoded(r[2]) = old /\ decoded(r[5]) = new
  BY <1>1, <1>8, <1>10, <1>12, FullAnswers
<1>14. /\ old \in Seq(Tweet) /\ Descending(old) /\ Range(old) = Readable(s.tweets, n.follows, a)
       /\ new \in Seq(Tweet) /\ Descending(new)
       /\ Range(new) = Readable(Append(s.tweets, t), n.follows, a)
  BY <1>1, <1>2, <1>3, <1>7, <1>8, WholeOf
<1> HIDE DEF old, new
<1>15. Range(Append(s.tweets, t)) = Range(s.tweets) \cup {t}
  <2> DEFINE q == Append(s.tweets, t)
  <2>1. /\ q \in Seq(Tweet) /\ Len(q) = Len(s.tweets) + 1 /\ q[Len(s.tweets) + 1] = t
        /\ \A i \in 1..Len(s.tweets) : q[i] = s.tweets[i]
    BY <1>7, <1>11
  <2> HIDE DEF q
  <2>2. /\ \A u : u \in Range(q) <=> \E i \in 1..Len(q) : u = q[i]
        /\ \A u : u \in Range(s.tweets) <=> \E i \in 1..Len(s.tweets) : u = s.tweets[i]
    BY <1>11, <2>1, TweetsOf
  <2>3. \A i \in 1..Len(q) : i \in 1..Len(s.tweets) \/ i = Len(s.tweets) + 1
    BY <1>11, <2>1
  <2>4. Len(s.tweets) + 1 \in 1..Len(q) /\ \A i \in 1..Len(s.tweets) : i \in 1..Len(q)
    BY <1>11, <2>1
  <2>5. \A u : u \in Range(q) <=> u \in Range(s.tweets) \cup {t}
    BY <2>1, <2>2, <2>3, <2>4
  <2>6. Range(q) = Range(s.tweets) \cup {t}
    BY <2>5
  <2> QED BY <2>6 DEF q
<1>16. Range(new) = Range(old) \cup {t}
  BY <1>2, <1>7, <1>14, <1>15 DEF Readable
<1>17. \A x \in Range(old) : x.id < t.id
  <2>1. t.id = Len(s.tweets) + 1
    BY <1>2, <1>3, <1>4, <1>7 DEF Sound
  <2>2. \A x \in Range(s.tweets) : x.id \in 1..Len(s.tweets)
    BY ByPosition
  <2> QED BY <1>11, <1>14, <2>1, <2>2 DEF Readable
<1>18. Len(new) = Len(old) + 1 /\ new[1] = t
  <2> DEFINE w == << t >> \o old
  <2>1. /\ w \in Seq(Tweet) /\ Descending(w) /\ Len(w) = Len(old) + 1 /\ w[1] = t
        /\ Range(w) = Range(old) \cup {t}
    BY <1>7, <1>14, <1>17, OnTop
  <2> HIDE DEF w
  <2>2. new = w
    BY <1>14, <1>16, <2>1, DescendingIsItsRange
  <2> QED BY <2>1, <2>2
<1>19. r[4].status = 201 /\ r[4].tweet = t
  BY <1>10 DEF TweetBody
<1>20. postPrepends(r)
  BY <1>13, <1>18, <1>19 DEF postPrepends
<1> QED BY <1>20 DEF r

LEMMA ClockNeverDecreases ==
    ASSUME NEW s, Sound(s), NEW a, User(s, a)
    PROVE  clockNeverDecreases(Do(Serving(s), [i \in 1..8 |-> IF i % 2 = 1 THEN probe(a) ELSE tick]))
<1> DEFINE rs == [i \in 1..8 |-> IF i % 2 = 1 THEN probe(a) ELSE tick]
           S == {probe(a), tick}
           r == Do(Serving(s), rs)
<1>1. \A i \in 1..8 : rs[i] = probe(a) \/ rs[i] = tick
  OBVIOUS
<1>2. rs \in Seq(S) /\ Len(rs) = 8
  <2>1. \A i \in 1..8 : rs[i] \in S
    BY <1>1
  <2> HIDE DEF S
  <2> QED BY <2>1
<1> HIDE DEF rs, S
<1>3. \A i \in 1..Len(rs) : Asked(rs[i])
  BY <1>1, <1>2, RequestsAreAsked
<1>4. RunsAsSObs(s, rs)
  BY <1>2, <1>3, DoIsSObs
<1>5. PICK st : /\ IsRun(st, s, rs) /\ r = [i \in 1..8 |-> Answer(st[i - 1], rs[i])]
  BY <1>2, <1>4 DEF RunsAsSObs, Answer
<1> HIDE DEF r
<1> DEFINE Grown(i) == \A k \in 0..i : /\ Sound(st[i]) /\ User(st[i], a)
                                       /\ st[k].clock \in Nat /\ st[k].clock <= st[i].clock
           T == {i \in Nat : i <= 8 => Grown(i)}
<1>6. 0 \in T
  BY <1>5, SoundFields DEF IsRun
<1>7. ASSUME NEW i \in Nat, i \in T PROVE i + 1 \in T
  <2> SUFFICES ASSUME i + 1 <= 8 PROVE Grown(i + 1)
    OBVIOUS
  <2>1. i + 1 \in 1..8 /\ (i + 1) - 1 = i /\ Grown(i) /\ i \in 0..i
    BY <1>7
  <2>2. Follows(st[i], st[i + 1])
    BY <1>2, <1>5, <2>1 DEF IsRun
  <2>3. Sound(st[i + 1]) /\ User(st[i + 1], a) /\ st[i].clock <= st[i + 1].clock
    BY <2>1, <2>2, UserStays DEF Follows
  <2>4. st[i + 1].clock \in Nat /\ st[i].clock \in Nat
    BY <2>1, <2>3, SoundFields
  <2>5. \A k \in 0..(i + 1) : k \in 0..i \/ k = i + 1
    OBVIOUS
  <2>6. \A k \in 0..i : st[k].clock \in Nat /\ st[k].clock <= st[i].clock
    BY <2>1
  <2> QED BY <2>3, <2>4, <2>5, <2>6
<1>8. \A i \in 0..8 : Grown(i)
  <2>1. \A i \in Nat : i \in T
    <3> HIDE DEF T
    <3> QED BY <1>6, <1>7, Induction
  <2> QED BY <2>1
<1>9. ASSUME NEW i \in 1..8, r[i].status = 201
      PROVE  r[i].tweet.createdAt = st[i - 1].clock
  <2>1. i - 1 \in 0..8 /\ i - 1 \in 0..(i - 1)
    OBVIOUS
  <2>2. Sound(st[i - 1]) /\ User(st[i - 1], a)
    BY <1>8, <2>1
  <2>3. r[i] = Answer(st[i - 1], rs[i])
    BY <1>5
  <2>4. rs[i] # tick
    <3>1. ASSUME rs[i] = tick PROVE r[i].status = 200
      <4>1. r[i] = ClockBody(st[i - 1].clock + 1)
        BY <2>3, <3>1, TickAnswers DEF Answer
      <4> QED BY <4>1 DEF ClockBody
    <3> QED BY <1>9, <3>1
  <2>5. PICK p : p = rs[i] /\ p = probe(a)
    BY <1>1, <2>4
  <2>6. Step(st[i - 1], p)[1] = TweetBody(Tweeted(st[i - 1], a, p.text))
    BY <2>2, <2>5, PostAnswers
  <2>7. r[i].tweet = Tweeted(st[i - 1], a, p.text)
    BY <2>3, <2>5, <2>6 DEF Answer, TweetBody
  <2> QED BY <2>7 DEF Tweeted
<1>10. DOMAIN r = 1..8
  BY <1>5
<1>11. ASSUME NEW j \in DOMAIN r, r[j].status = 201,
              NEW x \in {-1} \cup {r[i].tweet.createdAt : i \in {k \in 1..(j - 1) : r[k].status = 201}}
       PROVE  x <= r[j].tweet.createdAt
  <2>1. j \in 1..8 /\ j - 1 \in 0..8 /\ j - 1 \in 0..(j - 1)
    BY <1>10
  <2>2. r[j].tweet.createdAt = st[j - 1].clock /\ st[j - 1].clock \in Nat
    BY <1>8, <1>9, <1>11, <2>1
  <2>3. CASE x = -1
    BY <2>2, <2>3
  <2>4. CASE x # -1
    <3>1. PICK i \in 1..(j - 1) : r[i].status = 201 /\ x = r[i].tweet.createdAt
      BY <2>4
    <3>2. i \in 1..8 /\ i - 1 \in 0..(j - 1)
      BY <2>1
    <3>3. x = st[i - 1].clock
      BY <1>9, <3>1, <3>2
    <3> QED BY <1>8, <2>1, <2>2, <3>2, <3>3
  <2> QED BY <2>3, <2>4
<1>12. clockNeverDecreases(r)
  BY <1>11 DEF clockNeverDecreases
<1> QED BY <1>12 DEF r, rs

-----------------------------------------------------------------------------
(* R2: pages of two, joined *)

Begun(server) == [srv |-> server, got |-> << >>, ok |-> TRUE, cursor |-> Absent]

\* The walk after page i.
NextPage(x, a, i) ==
    IF i > 1 /\ x.cursor = Absent THEN x ELSE turned(x, Call(x.srv, read(a, 2, x.cursor)))

\* Each entry is the walk after so many pages.
IsWalk(g, server, a, n) ==
    /\ g[0] = Begun(server)
    /\ \A i \in 1..n : g[i] = NextPage(g[i - 1], a, i)

LEMMA WalkTable ==
    ASSUME NEW server, NEW a, NEW n \in Nat
    PROVE  \E g : IsWalk(g, server, a, n) /\ walked(server, a, n) = g[n]
<1> DEFINE First == Begun(server)
           Body(g) == [i \in 0..n |-> IF i = 0 THEN First ELSE NextPage(g[i - 1], a, i)]
           after == CHOOSE g : g = Body(g)
           Filled(m) == \E g : /\ g = [i \in 0..m |-> g[i]] /\ g[0] = First
                               /\ \A i \in 1..m : g[i] = NextPage(g[i - 1], a, i)
           T == {m \in Nat : Filled(m)}
<1>1. n \in Nat
  OBVIOUS
<1>2. 0 \in T
  <2> DEFINE g == [i \in 0..0 |-> First]
  <2>1. /\ g = [i \in 0..0 |-> g[i]] /\ g[0] = First
        /\ \A i \in 1..0 : g[i] = NextPage(g[i - 1], a, i)
    OBVIOUS
  <2> QED BY <2>1
<1>3. ASSUME NEW m \in Nat, m \in T PROVE m + 1 \in T
  <2>1. PICK g : /\ g = [i \in 0..m |-> g[i]] /\ g[0] = First
                 /\ \A i \in 1..m : g[i] = NextPage(g[i - 1], a, i)
    BY <1>3
  <2> DEFINE h == [i \in 0..(m + 1) |-> IF i = m + 1 THEN NextPage(g[m], a, m + 1) ELSE g[i]]
  <2>2. h = [i \in 0..(m + 1) |-> h[i]] /\ h[0] = First
    BY <2>1
  <2>3. ASSUME NEW i \in 1..(m + 1) PROVE h[i] = NextPage(h[i - 1], a, i)
    <3>1. CASE i = m + 1
      BY <3>1
    <3>2. CASE i # m + 1
      <4>1. i \in 1..m /\ i - 1 \in 0..(m + 1) /\ i - 1 # m + 1 /\ i \in 0..(m + 1)
        BY <3>2
      <4> QED BY <2>1, <3>2, <4>1
    <3> QED BY <3>1, <3>2
  <2>4. \E k : /\ k = [i \in 0..(m + 1) |-> k[i]] /\ k[0] = First
               /\ \A i \in 1..(m + 1) : k[i] = NextPage(k[i - 1], a, i)
    <3> HIDE DEF h
    <3> QED BY <2>2, <2>3
  <2>5. Filled(m + 1)
    <3> HIDE DEF h
    <3> QED BY <2>4
  <2> HIDE DEF h, Filled
  <2> QED BY <2>5
<1>4. \A m \in Nat : m \in T
  <2> HIDE DEF T
  <2> QED BY <1>2, <1>3, Induction
<1>5. PICK f : /\ f = [i \in 0..n |-> f[i]] /\ f[0] = First
               /\ \A i \in 1..n : f[i] = NextPage(f[i - 1], a, i)
  BY <1>1, <1>4
<1>6. f = Body(f)
  <2>1. \A i \in 0..n : f[i] = IF i = 0 THEN First ELSE NextPage(f[i - 1], a, i)
    <3>1. \A i \in 0..n : i = 0 \/ i \in 1..n
      BY <1>1
    <3> QED BY <1>5, <3>1
  <2> QED BY <1>5, <2>1
<1>7. after = Body(after)
  <2> HIDE DEF Body
  <2> QED BY <1>6
<1>8. walked(server, a, n) = after[n]
  BY DEF walked, NextPage, Begun
<1> HIDE DEF after
<1>9. IsWalk(after, server, a, n)
  <2>1. \A i \in 0..n : after[i] = IF i = 0 THEN First ELSE NextPage(after[i - 1], a, i)
    <3> QED BY <1>7
  <2>2. 0 \in 0..n /\ \A i \in 1..n : i \in 0..n /\ i # 0
    BY <1>1
  <2> QED BY <2>1, <2>2 DEF IsWalk
<1> QED BY <1>8, <1>9

\* The first p tweets of a timeline, and those after them.
Upto(v, p) == [j \in 1..p |-> v[j]]
Beyond(v, p) == [j \in 1..(Len(v) - p) |-> v[p + j]]

LEMMA Glued ==
    ASSUME NEW S, NEW v \in Seq(S), NEW p \in Nat, NEW q \in Nat, p <= q, q <= Len(v),
           NEW w \in Seq(S), Len(w) = q - p, \A j \in 1..(q - p) : w[j] = v[p + j]
    PROVE  Upto(v, p) \o w = Upto(v, q)
<1> DEFINE u == Upto(v, p)
           x == u \o w
<1>1. u \in Seq(S) /\ Len(u) = p /\ \A j \in 1..p : u[j] = v[j]
  <2>1. \A j \in 1..p : v[j] \in S
    OBVIOUS
  <2> QED BY <2>1 DEF Upto
<1> HIDE DEF u
<1>2. /\ x \in Seq(S) /\ Len(x) = Len(u) + Len(w)
      /\ \A j \in 1..Len(u) : x[j] = u[j]
      /\ \A j \in 1..Len(w) : x[Len(u) + j] = w[j]
  <2>1. u \in Seq(S) /\ w \in Seq(S)
    BY <1>1
  <2> QED BY ONLY <2>1, JoinedLists
<1> HIDE DEF x
<1>3. Len(x) = q
  BY <1>1, <1>2
<1>4. ASSUME NEW j \in 1..q PROVE x[j] = v[j]
  <2>1. CASE j <= p
    <3>1. j \in 1..p
      BY <2>1
    <3> QED BY <1>1, <1>2, <3>1
  <2>2. CASE p < j
    <3>1. PICK i \in Nat : i = j - p
      BY <2>2
    <3>2. i \in 1..(q - p) /\ p + i = j
      BY <2>2, <3>1
    <3>3. x[p + i] = w[i] /\ w[i] = v[p + i]
      BY <1>1, <1>2, <3>2
    <3> QED BY <3>2, <3>3
  <2> QED BY <2>1, <2>2
<1>5. x = [j \in 1..q |-> x[j]]
  BY <1>2, <1>3
<1>6. x = Upto(v, q)
  BY <1>4, <1>5 DEF Upto
<1> QED BY <1>6 DEF x, u

\* What lies below the p-th tweet of a timeline are those after it.
LEMMA RestAfter ==
    ASSUME NEW s, Sound(s), NEW a, NEW p \in 1..Len(Whole(s, a))
    PROVE  /\ Rest(s.tweets, s.follows, a, Whole(s, a)[p].id, Absent) = Beyond(Whole(s, a), p)
           /\ Whole(s, a)[p].id \in Nat /\ Whole(s, a)[p].id >= 1
<1> DEFINE v == Whole(s, a)
           c == v[p].id
           w == Rest(s.tweets, s.follows, a, c, Absent)
           q == Beyond(v, p)
<1>1. /\ v \in Seq(Tweet) /\ Descending(v) /\ Len(v) \in Nat
      /\ Range(v) = Readable(s.tweets, s.follows, a)
  BY WholeOf
<1>2. /\ w \in Seq(Tweet) /\ Descending(w)
      /\ Range(w) = {t \in Readable(s.tweets, s.follows, a) : Below(t, c, Absent)}
  BY RestOf
<1>3. p \in 1..Len(v)
  OBVIOUS
<1> HIDE DEF v
<1>4. /\ \A k \in 1..Len(v) : v[k] \in Tweet /\ v[k].id \in Nat
      /\ \A u : u \in Range(v) <=> \E k \in 1..Len(v) : u = v[k]
  <2>1. \A t \in Tweet : t.id \in Nat
    BY DEF Tweet
  <2> QED BY <1>1, <2>1, TweetsOf
<1>5. c \in Nat /\ c >= 1
  <2>1. v[p] \in Range(s.tweets)
    BY <1>1, <1>3, <1>4 DEF Readable
  <2>2. v[p].id \in 1..Len(s.tweets)
    BY <2>1, ByPosition
  <2> QED BY <2>2, SoundFields
<1>6. c # Absent
  BY <1>5, WireAssumption
<1> HIDE DEF w
<1>7. q \in Seq(Tweet) /\ Len(q) = Len(v) - p /\ \A j \in 1..(Len(v) - p) : q[j] = v[p + j]
  <2>1. \A j \in 1..(Len(v) - p) : p + j \in 1..Len(v) /\ v[p + j] \in Tweet
    BY <1>1, <1>3, <1>4
  <2>2. Len(v) - p \in Nat
    BY <1>1, <1>3
  <2> QED BY <2>1, <2>2 DEF Beyond
<1> HIDE DEF q
<1>8. Descending(q)
  <2> SUFFICES ASSUME NEW i \in 1..Len(q), NEW j \in 1..Len(q), i < j PROVE q[i].id > q[j].id
    BY DEF Descending
  <2>1. p + i \in 1..Len(v) /\ p + j \in 1..Len(v) /\ p + i < p + j
    BY <1>1, <1>3, <1>7
  <2>2. q[i] = v[p + i] /\ q[j] = v[p + j]
    BY <1>7
  <2> QED BY <1>1, <2>1, <2>2 DEF Descending
<1>9. ASSUME NEW t \in Range(q) PROVE t \in Range(w)
  <2>1. PICK j \in 1..Len(q) : t = q[j]
    BY <1>7, TweetsOf
  <2>2. p + j \in 1..Len(v) /\ p < p + j /\ t = v[p + j]
    BY <1>1, <1>3, <1>7, <2>1
  <2>3. t.id < c /\ t \in Range(v)
    BY <1>1, <1>3, <1>4, <2>2 DEF Descending
  <2> QED BY <1>1, <1>2, <2>3 DEF Below
<1>10. ASSUME NEW t \in Range(w) PROVE t \in Range(q)
  <2>1. t \in Range(v) /\ t.id < c
    BY <1>1, <1>2, <1>6, <1>10 DEF Below
  <2>2. PICK k \in 1..Len(v) : t = v[k]
    BY <1>4, <2>1
  <2>3. p < k
    <3>1. k < p => v[k].id > v[p].id
      BY <1>1, <1>3 DEF Descending
    <3>2. v[k].id \in Nat /\ v[p].id \in Nat /\ v[k].id < v[p].id
      BY <1>3, <1>4, <2>1, <2>2
    <3> QED BY <1>3, <3>1, <3>2
  <2>4. PICK j \in 1..Len(q) : p + j = k
    <3>1. k - p \in 1..Len(q) /\ p + (k - p) = k
      BY <1>1, <1>3, <1>7, <2>3
    <3> QED BY <3>1
  <2>5. q[j] = t
    BY <1>7, <2>2, <2>4
  <2> QED BY <1>7, <2>5, TweetsOf
<1>11. w = q
  <2>1. Range(w) = Range(q)
    BY <1>9, <1>10
  <2> QED BY <1>2, <1>7, <1>8, <2>1, DescendingIsItsRange
<1> QED BY <1>5, <1>11 DEF v, w, q

\* So far p tweets were read, and the next page begins after them.
HasRead(x, s, a, p) ==
    /\ x.srv = Serving(s) /\ x.got = Upto(Whole(s, a), p)
    /\ x.cursor = Absent \/ (x.cursor \in Nat /\ x.cursor >= 1)
    /\ Rest(s.tweets, s.follows, a, x.cursor, Absent) = Beyond(Whole(s, a), p)

\* The whole timeline was read, and there is no next page.
HasReadAll(x, s, a) ==
    x.srv = Serving(s) /\ x.ok /\ x.cursor = Absent /\ x.got = Whole(s, a)

LEMMA PageTurned ==
    ASSUME NEW s, Sound(s), NEW a, User(s, a), NEW p \in Nat, p <= Len(Whole(s, a)),
           NEW x, HasRead(x, s, a, p), 2 \in 1..MaxLimit
    PROVE  LET y == turned(x, Call(x.srv, read(a, 2, x.cursor)))
           IN  \/ HasReadAll(y, s, a)
               \/ p + 2 < Len(Whole(s, a)) /\ HasRead(y, s, a, p + 2) /\ y.cursor # Absent
<1> DEFINE v == Whole(s, a)
           w == Beyond(v, p)
           body == PageBody(w, 2)
           y == turned(x, Call(x.srv, read(a, 2, x.cursor)))
<1>1. v \in Seq(Tweet) /\ Len(v) \in Nat /\ p \in Nat /\ p <= Len(v)
  BY WholeOf
<1>2. Call(x.srv, read(a, 2, x.cursor)) = << body, Serving(s) >>
  <2>1. Step(s, read(a, 2, x.cursor)) = << body, s >>
    BY ReadAnswers DEF HasRead
  <2>2. Asked(read(a, 2, x.cursor)) /\ x.srv = Serving(s)
    BY RequestsAreAsked DEF HasRead
  <2> QED BY <2>1, <2>2, CallIsStep DEF Asked
<1>3. body.status = 200
  BY DEF PageBody, TimelineBody
<1>4. /\ y.srv = Serving(s) /\ y.ok /\ y.got = Upto(v, p) \o body.page /\ y.cursor = body.next
  <2>1. x.got = Upto(v, p)
    BY DEF HasRead
  <2> HIDE DEF v, w, body
  <2>2. y = turned(x, << body, Serving(s) >>)
    BY <1>2
  <2> HIDE DEF y
  <2>3. /\ y.srv = Serving(s) /\ y.ok = (body.status = 200)
        /\ y.got = x.got \o decoded(body)
        /\ y.cursor = IF body.status = 200 THEN body.next ELSE Absent
    BY <2>2 DEF turned
  <2> QED BY <1>3, <2>1, <2>3 DEF decoded
<1>5. w \in Seq(Tweet) /\ Len(w) = Len(v) - p /\ \A j \in 1..(Len(v) - p) : w[j] = v[p + j]
  <2>1. \A j \in 1..(Len(v) - p) : v[p + j] \in Tweet /\ Len(v) - p \in Nat
    <3> HIDE DEF v
    <3> QED BY <1>1
  <2>2. Len(v) - p \in Nat
    <3> HIDE DEF v
    <3> QED BY <1>1
  <2> HIDE DEF v
  <2> QED BY <2>1, <2>2 DEF Beyond
<1> HIDE DEF v, w, y
<1>6. CASE Len(w) <= 2
  <2>1. body.page = w /\ body.next = Absent
    BY <1>5, <1>6, WholePage DEF TimelineBody
  <2>2. Upto(v, p) \o w = Upto(v, Len(v))
    <3> DEFINE m == Len(v)
    <3>1. m \in Nat /\ p <= m /\ m <= Len(v) /\ Len(w) = m - p
          /\ \A j \in 1..(m - p) : w[j] = v[p + j]
      BY <1>1, <1>5
    <3>2. v \in Seq(Tweet) /\ w \in Seq(Tweet) /\ p \in Nat
      BY <1>1, <1>5
    <3> HIDE DEF m
    <3>3. Upto(v, p) \o w = Upto(v, m)
      BY ONLY <3>1, <3>2, Glued
    <3> QED BY <3>3 DEF m
  <2>3. Upto(v, Len(v)) = v
    BY <1>1 DEF Upto
  <2> QED BY <1>4, <2>1, <2>2, <2>3 DEF HasReadAll, v, y
<1>7. CASE ~(Len(w) <= 2)
  <2>1. Len(w) > 2 /\ p + 2 < Len(v) /\ p + 2 \in 1..Len(v) /\ ~(Len(w) < 2)
    BY <1>1, <1>5, <1>7
  <2> DEFINE two == SubSeq(w, 1, 2)
  <2>2. two \in Seq(Tweet) /\ Len(two) = 2 /\ two[1] = w[1] /\ two[2] = w[2]
    BY <1>5, <2>1
  <2>3. body.page = two /\ body.next = Last(two).id
    BY <2>1 DEF PageBody, TimelineBody
  <2> HIDE DEF two
  <2>4. two[1] = v[p + 1] /\ two[2] = v[p + 2] /\ Last(two) = two[2]
    <3>1. 1 \in 1..(Len(v) - p) /\ 2 \in 1..(Len(v) - p)
      BY <1>1, <2>1
    <3> QED BY <1>5, <2>2, <3>1 DEF Last
  <2>5. Upto(v, p) \o two = Upto(v, p + 2)
    <3> DEFINE q == p + 2
    <3>1. q \in Nat /\ p <= q /\ q <= Len(v) /\ q - p = 2
      BY <1>1, <2>1
    <3>2. \A j \in 1..(q - p) : two[j] = v[p + j]
      <4>1. \A j \in 1..(q - p) : j = 1 \/ j = 2
        BY <3>1
      <4> QED BY <2>4, <4>1
    <3> HIDE DEF q
    <3>3. Upto(v, p) \o two = Upto(v, q)
      <4>1. v \in Seq(Tweet) /\ two \in Seq(Tweet) /\ p \in Nat /\ Len(two) = q - p
        BY <1>1, <2>2, <3>1
      <4> QED BY ONLY <3>1, <3>2, <4>1, Glued
    <3> QED BY <3>3 DEF q
  <2>6. y.cursor = v[p + 2].id /\ y.got = Upto(v, p + 2)
    BY <1>4, <2>3, <2>4, <2>5
  <2>7. /\ Rest(s.tweets, s.follows, a, v[p + 2].id, Absent) = Beyond(v, p + 2)
        /\ v[p + 2].id \in Nat /\ v[p + 2].id >= 1
    BY <2>1, RestAfter DEF v
  <2>8. y.cursor # Absent
    BY <2>6, <2>7, WireAssumption
  <2>9. HasRead(y, s, a, p + 2)
    BY <1>4, <2>6, <2>7 DEF HasRead, v
  <2> QED BY <2>1, <2>8, <2>9 DEF v, y
<1> QED BY <1>6, <1>7

LEMMA WalkReadsAll ==
    ASSUME NEW s, Sound(s), NEW a, User(s, a), 2 \in 1..MaxLimit
    PROVE  HasReadAll(walked(Serving(s), a, Len(Whole(s, a)) + 1), s, a)
<1> DEFINE v == Whole(s, a)
           m == Len(v)
           n == m + 1
<1>1. v \in Seq(Tweet) /\ m \in Nat
  BY WholeOf
<1> HIDE DEF m
<1>2. n \in Nat
  BY <1>1
<1>3. PICK g : IsWalk(g, Serving(s), a, n) /\ walked(Serving(s), a, n) = g[n]
  BY <1>2, WalkTable
<1> DEFINE AfterPage(i) == \/ HasReadAll(g[i + 1], s, a)
                      \/ /\ 2 * (i + 1) < m /\ HasRead(g[i + 1], s, a, 2 * (i + 1))
                         /\ g[i + 1].cursor # Absent
           T == {i \in Nat : i + 1 <= n => AfterPage(i)}
<1>4. HasRead(g[0], s, a, 0)
  <2>1. g[0] = Begun(Serving(s))
    BY <1>3 DEF IsWalk
  <2>2. Beyond(v, 0) = v /\ Upto(v, 0) = << >>
    <3> HIDE DEF v
    <3> QED BY <1>1 DEF Beyond, Upto
  <2> QED BY <2>1, <2>2 DEF HasRead, Begun, Whole
<1>5. 0 \in T
  <2>1. 1 \in 1..n /\ 1 - 1 = 0 /\ ~(1 > 1) /\ 0 <= m
    BY <1>1
  <2>2. g[1] = turned(g[0], Call(g[0].srv, read(a, 2, g[0].cursor)))
    BY <1>3, <2>1 DEF IsWalk, NextPage
  <2>3. 0 + 2 = 2 * (0 + 1) /\ 0 + 1 = 1
    OBVIOUS
  <2>4. \/ HasReadAll(g[1], s, a)
        \/ 0 + 2 < m /\ HasRead(g[1], s, a, 0 + 2) /\ g[1].cursor # Absent
    BY <1>4, <2>1, <2>2, PageTurned DEF m
  <2> QED BY <2>3, <2>4
<1>6. ASSUME NEW i \in Nat, i \in T PROVE i + 1 \in T
  <2> SUFFICES ASSUME (i + 1) + 1 <= n PROVE AfterPage(i + 1)
    OBVIOUS
  <2> DEFINE k == i + 1
             x == g[k]
             y == g[k + 1]
             p == 2 * k
  <2>1. k + 1 \in 1..n /\ (k + 1) - 1 = k /\ k + 1 > 1 /\ AfterPage(i) /\ p \in Nat
    BY <1>2, <1>6
  <2>2. y = NextPage(x, a, k + 1)
    BY <1>3, <2>1 DEF IsWalk
  <2>3. CASE HasReadAll(x, s, a)
    <3>1. y = x
      BY <2>1, <2>2, <2>3 DEF NextPage, HasReadAll
    <3> QED BY <2>3, <3>1
  <2>4. CASE p < m /\ HasRead(x, s, a, p) /\ x.cursor # Absent
    <3>1. y = turned(x, Call(x.srv, read(a, 2, x.cursor)))
      BY <2>2, <2>4 DEF NextPage
    <3>2. p <= m /\ p + 2 = 2 * (k + 1)
      BY <1>1, <2>1, <2>4
    <3> HIDE DEF x, y, p
    <3>3. HasReadAll(y, s, a) \/ (p + 2 < m /\ HasRead(y, s, a, p + 2) /\ y.cursor # Absent)
      BY <2>1, <2>4, <3>1, <3>2, PageTurned DEF m
    <3> QED BY <3>2, <3>3 DEF y
  <2> QED BY <2>1, <2>3, <2>4
<1>7. \A i \in Nat : i \in T
  <2> HIDE DEF T
  <2> QED BY <1>5, <1>6, Induction
<1>8. AfterPage(m)
  BY <1>1, <1>7
<1>9. ~(2 * (m + 1) < m)
  BY <1>1
<1>10. HasReadAll(g[m + 1], s, a)
  BY <1>8, <1>9
<1> QED BY <1>3, <1>10 DEF m

LEMMA PaginationPartitions ==
    ASSUME NEW s, Sound(s), Fits(s), NEW a, User(s, a), 2 \in 1..MaxLimit
    PROVE  paginationPartitions(Serving(s), a, Do(Serving(s), << full(a) >>)[1])
<1> DEFINE rs == << full(a) >>
           S == {full(a)}
           r == Do(Serving(s), rs)
           v == Whole(s, a)
           x == walked(Serving(s), a, Len(v) + 1)
<1>1. rs \in Seq(S) /\ Len(rs) = 1 /\ rs[1] = full(a)
  OBVIOUS
<1> HIDE DEF rs, S
<1>2. \A i \in 1..Len(rs) : \E h, n, c : rs[i] = read(h, n, c)
  <2>1. \A i \in 1..Len(rs) : rs[i] = full(a)
    BY <1>1
  <2> QED BY <2>1 DEF full
<1>3. r = [i \in 1..Len(rs) |-> Answer(s, rs[i])]
  <2>1. rs \in Seq(S)
    BY <1>1
  <2> QED BY <1>2, <2>1, ReadsAnswered
<1>4. r[1] = Answer(s, full(a))
  BY <1>1, <1>3
<1> HIDE DEF r
<1>5. decoded(r[1]) = v
  BY <1>4, FullAnswers
<1>6. HasReadAll(x, s, a)
  BY WalkReadsAll
<1> HIDE DEF v, x
<1>7. joins(x, v)
  BY <1>6 DEF joins, HasReadAll, v
<1>8. paginationPartitions(Serving(s), a, r[1])
  BY <1>5, <1>7 DEF paginationPartitions, x
<1> QED BY <1>8 DEF r, rs

-----------------------------------------------------------------------------
(* R2: none of the relations cries wolf *)

LEMMA EveryRelationHolds ==
    ASSUME NEW s, Sound(s), Len(s.tweets) < MaxLimit, NEW us \in Seq(Handles), Len(us) >= 2,
           \A i \in 1..Len(us) : User(s, us[i]), NEW i \in 1..Len(properties)
    PROVE  check(properties[i], Serving(s), us)
<1> DEFINE a == us[1]
           b == us[2]
           r(name) == Do(Serving(s), asks(name, a, b, us))
<1>1. User(s, a) /\ User(s, b) /\ Fits(s) /\ 2 \in 1..MaxLimit
  BY R2Assumption, WireAssumption, SoundFields DEF Fits
<1> HIDE DEF a, b
<1>2. holds("follow-idempotent", Serving(s), a, b, r("follow-idempotent"))
  BY <1>1, FollowIdempotent DEF holds, asks
<1>3. holds("unfollow-idempotent", Serving(s), a, b, r("unfollow-idempotent"))
  BY <1>1, UnfollowIdempotent DEF holds, asks
<1>4. holds("follow-unfollow-restores", Serving(s), a, b, r("follow-unfollow-restores"))
  BY <1>1, FollowUnfollowRestores DEF holds, asks
<1>5. holds("pagination-partitions", Serving(s), a, b, r("pagination-partitions"))
  BY <1>1, PaginationPartitions DEF holds, asks
<1>6. holds("timeline-ordered", Serving(s), a, b, r("timeline-ordered"))
  BY <1>1, TimelineOrdered DEF holds, asks
<1>7. holds("visibility-follows-edges", Serving(s), a, b, r("visibility-follows-edges"))
  BY <1>1, VisibilityFollowsEdges DEF holds, asks
<1>8. holds("post-prepends", Serving(s), a, b, r("post-prepends"))
  BY <1>1, PostPrepends DEF holds, asks
<1>9. holds("clock-never-decreases", Serving(s), a, b, r("clock-never-decreases"))
  BY <1>1, ClockNeverDecreases DEF holds, asks
<1>10. holds("reads-are-pure", Serving(s), a, b, r("reads-are-pure"))
  BY ReadsArePure DEF holds, asks
<1>11. properties[i] \in {"follow-idempotent", "unfollow-idempotent",
          "follow-unfollow-restores", "pagination-partitions", "timeline-ordered",
          "visibility-follows-edges", "post-prepends", "clock-never-decreases",
          "reads-are-pure"}
  BY DEF properties
<1> HIDE DEF r
<1>12. holds(properties[i], Serving(s), a, b, r(properties[i]))
  BY <1>2, <1>3, <1>4, <1>5, <1>6, <1>7, <1>8, <1>9, <1>10, <1>11
<1> QED BY <1>12 DEF check, a, b, r

LEMMA GeneratedIsAsked ==
    ASSUME NEW n, NEW i, NEW r, Generates(n, i, r)
    PROVE  Asked(r)
<1>1. /\ \A x \in createUser(n) \cup follow(n) \cup unfollow(n) \cup tweet(n) \cup timeline(n) :
            Asked(x)
      /\ Asked([op |-> "tick"])
  BY DEF createUser, follow, unfollow, tweet, timeline, Asked, Operations, Understood
<1>2. \A x \in hostile(n) : Asked(x)
  <2>1. Tolerated(Conforming) = "none"
    BY DEF Tolerated, Conforming
  <2> QED BY <2>1 DEF hostile, Sloppy, Asked, Operations, Understood
<1> QED BY <1>1, <1>2 DEF Generates, step

\* While a corner that conforms is driven, it is where S_obs would be.
DrivenInv ==
    \E s : /\ srv = Serving(s) /\ Sound(s) /\ Len(s.tweets) <= sent
           /\ \A h \in users : User(s, h)

RoundInv ==
    /\ pc \in {"start", "driving", "ended"}
    /\ prop \in Nat \ {0}
    /\ pc = "driving" => prop <= Len(properties) /\ sent \in 0..Setup
    /\ job.corner = Conforming => exit = 0 /\ (pc = "driving" => DrivenInv)

LEMMA RoundInit == R2Init => RoundInv
BY DEF R2Init, RoundInv

LEMMA BeginRoundRound == RoundInv /\ BeginRound => RoundInv'
<1> SUFFICES ASSUME RoundInv, BeginRound PROVE RoundInv'
  OBVIOUS
<1>1. /\ job' = job /\ exit' = exit /\ prop' = prop /\ srv' = Server(job.corner)
      /\ sent' = 0 /\ users' = {} /\ pc' \in {"ended", "driving"}
      /\ pc' = "driving" => ~(prop > Len(properties))
  BY DEF BeginRound, start
<1>2. Len(properties) = 9 /\ 0 \in 0..Setup
  BY R2Assumption, WireAssumption DEF properties
<1>3. job.corner = Conforming => DrivenInv'
  <2> SUFFICES ASSUME job.corner = Conforming PROVE DrivenInv'
    OBVIOUS
  <2>1. srv' = Serving(InitState)
    BY <1>1 DEF Server, CornerInit, Serving, Conforming
  <2>2. Sound(InitState) /\ Len(InitState.tweets) <= 0
    BY SoundInit DEF InitState
  <2> QED BY <1>1, <2>1, <2>2 DEF DrivenInv
<1> QED BY <1>1, <1>2, <1>3 DEF RoundInv

LEMMA ReachRound ==
    ASSUME RoundInv, NEW q, Reach(q) PROVE RoundInv'
<1>1. /\ pc = "driving" /\ pc' = pc /\ prop' = prop /\ exit' = exit /\ job' = job
      /\ sent < Setup /\ sent' = sent + 1 /\ Generates(known, sent + 1, q)
      /\ srv' = Call(srv, q)[2]
      /\ users' = IF q.op = "create" /\ Call(srv, q)[1].status = 201
                  THEN users \cup {q.handle} ELSE users
  BY DEF Reach
<1>2. sent \in Nat /\ sent' \in 0..Setup
  BY <1>1, R2Assumption, WireAssumption DEF RoundInv
<1>3. job.corner = Conforming => DrivenInv'
  <2> SUFFICES ASSUME job.corner = Conforming PROVE DrivenInv'
    OBVIOUS
  <2>1. PICK s : /\ srv = Serving(s) /\ Sound(s) /\ Len(s.tweets) <= sent
                 /\ \A h \in users : User(s, h)
    BY <1>1 DEF RoundInv, DrivenInv
  <2> DEFINE n == Step(s, q)[2]
  <2>2. Asked(q)
    BY <1>1, GeneratedIsAsked
  <2>3. Call(srv, q) = << Step(s, q)[1], Serving(n) >>
    BY <2>1, <2>2, CallIsStep DEF Asked
  <2>4. Follows(s, n)
    BY <2>1, <2>2, StepFollows DEF Asked
  <2>5. srv' = Serving(n) /\ Sound(n)
    BY <1>1, <2>3, <2>4 DEF Follows
  <2>6. Len(n.tweets) <= sent'
    BY <1>1, <1>2, <2>1, <2>4, <2>5, SoundFields DEF Follows
  <2>7. ASSUME q.op = "create", Step(s, q)[1].status = 201 PROVE User(n, q.handle)
    <3>1. Step(s, q) = StepCreateUser(s, q)
      BY <2>7 DEF Step
    <3> QED BY <2>1, <2>7, <3>1, CreatedIsUser DEF User
  <2>8. \A h \in users' : User(n, h)
    <3>1. \A h \in users : User(n, h)
      BY <2>1, <2>4, UserStays
    <3> HIDE DEF n
    <3> QED BY <1>1, <2>3, <2>7, <3>1
  <2> HIDE DEF n
  <2> QED BY <2>5, <2>6, <2>8 DEF DrivenInv
<1> QED BY <1>1, <1>2, <1>3 DEF RoundInv

LEMMA CheckRound == RoundInv /\ Check => RoundInv'
<1> SUFFICES ASSUME RoundInv, Check PROVE RoundInv'
  OBVIOUS
<1> DEFINE us == Kept(Pool, {i \in DOMAIN Pool : Pool[i] \in users})
<1>1. /\ pc = "driving" /\ sent = Setup /\ prop' = prop + 1 /\ pc' = "start" /\ job' = job
      /\ exit' = IF Len(us) < 2 \/ check(properties[prop], srv, us) THEN exit ELSE 1
  BY DEF Check
<1>2. job.corner = Conforming => exit' = 0
  <2> SUFFICES ASSUME job.corner = Conforming, ~(Len(us) < 2)
               PROVE  check(properties[prop], srv, us)
    BY <1>1 DEF RoundInv
  <2>1. PICK s : /\ srv = Serving(s) /\ Sound(s) /\ Len(s.tweets) <= sent
                 /\ \A h \in users : User(s, h)
    BY <1>1 DEF RoundInv, DrivenInv
  <2> DEFINE shown == {i \in DOMAIN Pool : Pool[i] \in users}
  <2>2. us \in Seq(Handles) /\ HasSelection(us, Pool, shown, Len(Pool))
    BY TracegenAssumption, KeptIsSelection
  <2> HIDE DEF us
  <2>3. \A i \in 1..Len(us) : us[i] \in users
    BY <2>2 DEF HasSelection, Selects
  <2>4. Len(us) \in Nat /\ Len(us) >= 2
    BY <2>2
  <2>5. Len(s.tweets) < MaxLimit
    BY <1>1, <2>1, R2Assumption, WireAssumption, SoundFields
  <2>6. prop \in 1..Len(properties)
    BY <1>1 DEF RoundInv, properties
  <2>7. \A i \in 1..Len(us) : User(s, us[i])
    BY <2>1, <2>3
  <2> QED BY <2>1, <2>2, <2>4, <2>5, <2>6, <2>7, EveryRelationHolds
<1> QED BY <1>1, <1>2 DEF RoundInv

LEMMA RoundInvariant == R2Spec => []RoundInv
<1>1. RoundInv /\ UNCHANGED r2vars => RoundInv'
  BY DEF RoundInv, DrivenInv, r2vars
<1>2. RoundInv /\ [R2Next]_r2vars => RoundInv'
  BY <1>1, BeginRoundRound, ReachRound, CheckRound DEF R2Next
<1> QED BY <1>2, RoundInit, PTL DEF R2Spec

(* None of R2's nine relations cries wolf (properties.go): for any users,   *)
(* texts and corners, whatever the generator asks in fewer requests than a  *)
(* page has room for, a corner that does what S_obs does passes them all.   *)
THEOREM RelationsAreSound == R2Spec => []RelationsHold
<1>1. RoundInv => RelationsHold
  BY DEF RoundInv, RelationsHold
<1> QED BY <1>1, RoundInvariant, PTL
=============================================================================
