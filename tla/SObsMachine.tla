---------------------------- MODULE SObsMachine ----------------------------
(***************************************************************************)
(* S_obs driven by one client: each step submits a request, and the machine *)
(* answers it and moves on (the loop every rung of the ladder runs, and the *)
(* whole behaviour of a corner that serialises its requests).               *)
(***************************************************************************)
EXTENDS SObs

CONSTANTS
    Requests,   \* the requests a client may submit
    MaxTweets,  \* bound: no post is submitted beyond this many tweets
    MaxClock    \* bound: no tick is submitted beyond this clock value

ASSUME MachineAssumption ==
    /\ Requests \subseteq Request
    /\ MaxTweets \in Nat
    /\ MaxClock \in Nat

VARIABLES
    st,    \* the State
    last   \* the request answered last and its response

vars == <<st, last>>

Nothing == [req |-> [op |-> "none"], resp |-> [status |-> 0]]

Init ==
    /\ st = InitState
    /\ last = Nothing

Bounded(r) ==
    /\ r.op = "post" => Len(st.tweets) < MaxTweets
    /\ r.op = "tick" => st.clock < MaxClock

Submit(r) ==
    /\ Bounded(r)
    /\ st' = Step(st, r)[2]
    /\ last' = [req |-> r, resp |-> Step(st, r)[1]]

Next == \E r \in Requests : Submit(r)

Spec == Init /\ [][Next]_vars

-----------------------------------------------------------------------------
(* Types: the state is a State and every answer a Response of the API, so  *)
(* Step is total on the requests submitted.                                *)
TypeOK ==
    /\ st \in State
    /\ last = Nothing \/ (last.req \in Requests /\ last.resp \in Response)

(* The monotonicity lemma (step.go:310-326): along the log ids are the     *)
(* positions, stamps never decrease, and neither counter nor clock is      *)
(* behind the log.  The timeline's order rests on it.                      *)
MonotonicityLemma ==
    /\ st.nextTweetID = Len(st.tweets) + 1
    /\ \A i \in DOMAIN st.tweets :
          /\ st.tweets[i].id = i
          /\ st.tweets[i].createdAt <= st.clock
          /\ \A j \in 1..i : st.tweets[j].createdAt <= st.tweets[i].createdAt

(* F4, F6 and F9 of the design: no self-follow edge, and nothing in the    *)
(* state names a user that is not registered.                              *)
NoOrphans ==
    /\ \A e \in st.follows :
          e[1] # e[2] /\ Registered(st, e[1]) /\ Registered(st, e[2])
    /\ \A i \in DOMAIN st.tweets : Registered(st, st.tweets[i].author)

(* User ids are 1..n without a gap: S_obs allocates an id only when the    *)
(* registration succeeds (F018's oracle for the corners).                  *)
UserIdsGapless ==
    /\ {st.users[h] : h \in {g \in Handles : Registered(st, g)}} = 1..(st.nextUserID - 1)
    /\ \A g, h \in Handles : st.users[g] = st.users[h] => g = h \/ st.users[g] = 0

(* What every corner is compared with is itself in order, after any         *)
(* sequence of requests: the three together (step.go).                      *)
HistoryIsSound == MonotonicityLemma /\ NoOrphans /\ UserIdsGapless

(* F1, F2 and D10 of a page as the client sees them: strictly descending   *)
(* (createdAt, id), nothing that is not visible or not below the cursor,   *)
(* nothing skipped above its last tweet, and next_cursor null exactly when *)
(* nothing visible remains below the page.                                 *)
May(u, t) == t.author = u \/ <<u, t.author>> \in st.follows

PageIsExact ==
    (last.req.op = "timeline" /\ last.resp.status = 200) =>
        LET page == last.resp.page
            below == {t \in Range(st.tweets) :
                        /\ May(last.req.user, t)
                        /\ last.req.cursor # Absent => t.id < last.req.cursor}
            rest == below \ Range(page)
        IN  /\ Range(page) \subseteq below
            /\ \A i, j \in DOMAIN page : i < j =>
                  \/ page[i].createdAt > page[j].createdAt
                  \/ page[i].createdAt = page[j].createdAt /\ page[i].id > page[j].id
            /\ \A t \in rest, i \in DOMAIN page : t.id < page[i].id
            /\ last.resp.next = Absent <=> rest = {}
            /\ rest # {} => last.resp.next = page[Len(page)].id

(* S_obs implements the design model, with tweet ids shifted by one and    *)
(* texts and user ids dropped (tools/cmd/tlclink/project.go).              *)
Design == INSTANCE Twitter WITH
    Users <- Handles,
    knownUsers <- {h \in Handles : Registered(st, h)},
    follows <- st.follows,
    tweets <- [i \in DOMAIN st.tweets |->
                 [id |-> st.tweets[i].id - 1, author |-> st.tweets[i].author,
                  ts |-> st.tweets[i].createdAt]],
    clock <- st.clock,
    nextTweetId <- st.nextTweetID - 1

ImplementsDesign == Design!Spec
=============================================================================
