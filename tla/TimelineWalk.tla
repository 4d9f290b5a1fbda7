---------------------------- MODULE TimelineWalk ----------------------------
(***************************************************************************)
(* A client that pages through its whole timeline while the log and the    *)
(* follow set move: GET /timeline, then again with the cursor of the last  *)
(* answer until next_cursor is null (httpshim/shim.go over                 *)
(* MemStore.HomeTimeline; the Rust handler and store do the same).  One    *)
(* page is one critical section of the store, so it is one step here; the  *)
(* writers are the steps of the store the corners allow, ids with gaps     *)
(* among them (a refused post of the Rust corner burns its id).            *)
(***************************************************************************)
EXTENDS Api, MemStore

CONSTANTS
    Reader,   \* the user who reads
    Writers,  \* the users who post, and whom the reader follows and unfollows
    Limits,   \* the page sizes the reader may ask for
    MaxID     \* bound on the ids drawn

ASSUME WalkAssumption ==
    /\ Writers \subseteq Handles
    /\ Limits \subseteq 1..MaxLimit

VARIABLES
    log, edges, nextID,  \* the store and the id generator
    phase,               \* "before", "walking" or "done"
    limit, cursor,       \* what the next request sends; no cursor if 0
    page, got,           \* the last page, and the tweets of all pages before it
    always, ever         \* visible at every moment of the walk, at some moment

store == <<log, edges, nextID>>
walk == <<phase, limit, cursor, page, got>>
vars == <<store, walk, always, ever>>

VisibleIn(tweets, pairs) ==
    {t \in Range(tweets) : t.author = Reader \/ <<Reader, t.author>> \in pairs}

Init ==
    /\ log = << >>
    /\ edges = {}
    /\ nextID = 1
    /\ phase = "before"
    /\ limit = 1
    /\ cursor = 0
    /\ page = << >>
    /\ got = {}
    /\ always = {}
    /\ ever = {}

-----------------------------------------------------------------------------
(* The writers *)

Watch == /\ always' = always \cap VisibleIn(log', edges')
         /\ ever' = ever \cup VisibleIn(log', edges')

Post(author, text) ==
    /\ nextID <= MaxID
    /\ log' = Append(log, [id |-> nextID, author |-> author, text |-> text, createdAt |-> 0])
    /\ nextID' = nextID + 1
    /\ UNCHANGED edges

BurnID ==
    /\ nextID <= MaxID
    /\ nextID' = nextID + 1
    /\ UNCHANGED <<log, edges>>

Follow(h) == edges' = edges \cup {<<Reader, h>>} /\ UNCHANGED <<log, nextID>>

Unfollow(h) == edges' = edges \ {<<Reader, h>>} /\ UNCHANGED <<log, nextID>>

Write ==
    /\ \/ \E h \in Writers, x \in Texts : Post(h, x)
       \/ BurnID
       \/ \E h \in Writers \ {Reader} : Follow(h) \/ Unfollow(h)
    /\ Watch
    /\ UNCHANGED walk

-----------------------------------------------------------------------------
(* The reader *)

Start ==
    /\ phase = "before"
    /\ phase' = "walking"
    /\ limit' \in Limits
    /\ always' = VisibleIn(log, edges)
    /\ ever' = VisibleIn(log, edges)
    /\ UNCHANGED <<store, cursor, page, got>>

\* Fault: the cursor is the id after which to go on, so one below the last.
NextCursorBelow(tweets, more) == IF more THEN Last(tweets).id - 1 ELSE 0

\* next_cursor: the last id of a page that is not the last page, else null.
NextCursor(tweets, more) == IF more THEN Last(tweets).id ELSE 0

ReadPage ==
    LET answer == HomeTimeline(log, edges, Reader, limit, cursor)
    IN  /\ phase = "walking"
        /\ page' = answer.page
        /\ got' = got \cup Range(page)
        /\ cursor' = NextCursor(answer.page, answer.more)
        /\ phase' = IF cursor' = 0 THEN "done" ELSE "walking"
        /\ UNCHANGED <<store, limit, always, ever>>

Next == Write \/ Start \/ ReadPage

\* A client that has started asks for the next page; writers owe nothing.
Spec == Init /\ [][Next]_vars /\ WF_vars(ReadPage)

-----------------------------------------------------------------------------
(* Properties *)

(* Pages join up (D10, spec/s_obs/DECISIONS.md): read one after the other  *)
(* they are strictly descending, so no tweet comes twice, and a finished   *)
(* walk holds every tweet that was visible throughout and none that never  *)
(* was, whatever was posted, followed or unfollowed between two pages.     *)
PagesJoinUp ==
    /\ \A i, j \in DOMAIN page : i < j => page[i].id > page[j].id
    /\ \A t \in got, i \in DOMAIN page : page[i].id < t.id
    /\ got \cup Range(page) \subseteq ever
    /\ phase = "done" => always \subseteq got \cup Range(page)

(* A walk ends even if posting goes on: the exclusive cursor only goes     *)
(* down (memstore.go HomeTimeline).                                        *)
WalkEnds == phase = "walking" ~> phase = "done"
=============================================================================
