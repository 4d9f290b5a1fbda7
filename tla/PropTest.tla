----------------------------- MODULE PropTest -----------------------------
(***************************************************************************)
(* Rung R2 (tools/cmd/proptest): a generated sequence of requests brings a  *)
(* fresh server to some state, and one of nine relations is checked there   *)
(* by further requests.  S_obs is not consulted.  A relation is a list of   *)
(* requests about the first users a and b that are registered there, and a  *)
(* condition on the answers: TRUE when its check returns no error.          *)
(***************************************************************************)
EXTENDS Rung

CONSTANTS
    R2Corners,  \* the corners checked
    Setup       \* bound: -setup, requests used to reach a state

\* -setup is 40 unless it is given, and a page can show 100 tweets.
ASSUME R2Assumption == Texts # {} /\ Setup \in 1..(MaxLimit - 1)

-----------------------------------------------------------------------------
(* The client *)

followReq(a, b) == [op |-> "follow", from |-> a, to |-> b]
unfollowReq(a, b) == [op |-> "unfollow", from |-> a, to |-> b]
probe(a) == [op |-> "post", author |-> a, text |-> CHOOSE t \in Texts : TRUE]
tick == [op |-> "tick"]
read(a, limit, cursor) == [op |-> "timeline", user |-> a, limit |-> limit, cursor |-> cursor]
home(a) == read(a, Absent, Absent)
full(a) == read(a, MaxLimit, Absent)

\* do, once and again: the answers to requests asked one after the other.
Do(server, rs) ==
    LET after[i \in 0..Len(rs)] ==
            IF i = 0 THEN << NoAnswer, server >> ELSE Call(after[i - 1][2], rs[i])
    IN  [i \in 1..Len(rs) |-> after[i][1]]

\* The tweets decoded from an answer; an error decodes to none.
decoded(r) == IF r.status = 200 THEN r.page ELSE << >>
ids(page) == [i \in DOMAIN page |-> page[i].id]

-----------------------------------------------------------------------------
(* The relations: what each asks, of users a and b, and what must hold of   *)
(* the answers r to it.                                                     *)

asks(name, a, b, us) ==
    CASE name = "follow-idempotent" ->
           << followReq(a, b), home(a), followReq(a, b), home(a) >>
      [] name = "unfollow-idempotent" ->
           << unfollowReq(a, b), home(a), unfollowReq(a, b), home(a) >>
      [] name = "follow-unfollow-restores" ->
           << unfollowReq(a, b), home(a), followReq(a, b), unfollowReq(a, b), home(a) >>
      [] name = "pagination-partitions" -> << full(a) >>
      [] name = "timeline-ordered" -> [i \in DOMAIN us |-> full(us[i])]
      [] name = "visibility-follows-edges" ->
           << unfollowReq(a, b), full(a), followReq(a, b), full(a) >>
      [] name = "post-prepends" ->
           << followReq(a, b), full(a), tick, probe(b), full(a) >>
      [] name = "clock-never-decreases" -> [i \in 1..8 |-> IF i % 2 = 1 THEN probe(a) ELSE tick]
      [] name = "reads-are-pure" ->
           << full(a) >> \o [i \in 1..6 |-> IF i % 2 = 1 THEN read(a, 3, Absent) ELSE read(a, 1, 2)]
             \o << full(a) >>

idempotent(r) == r[1] = r[3] /\ decoded(r[2]) = decoded(r[4])

followUnfollowRestores(r) == decoded(r[2]) = decoded(r[5])

(* Pages of two tweets, joined until one has no next_cursor, are the page of *)
(* MaxLimit.  A walk of more pages than tweets has repeated one, which ends  *)
(* it with an error.                                                         *)
turned(x, a) == [srv |-> a[2], got |-> x.got \o decoded(a[1]), ok |-> a[1].status = 200,
                 cursor |-> IF a[1].status = 200 THEN a[1].next ELSE Absent]
walked(server, a, n) ==
    LET after[i \in 0..n] ==
            IF i = 0 THEN [srv |-> server, got |-> << >>, ok |-> TRUE, cursor |-> Absent]
            ELSE LET x == after[i - 1]
                 IN  IF i > 1 /\ x.cursor = Absent THEN x
                     ELSE turned(x, Call(x.srv, read(a, 2, x.cursor)))
    IN  after[n]
joins(x, page) == x.ok /\ x.cursor = Absent /\ ids(x.got) = ids(page)
paginationPartitions(server, a, r) ==
    r.status = 200 => joins(walked(server, a, Len(decoded(r)) + 1), decoded(r))

descending(page) ==
    \A i \in DOMAIN page \ {1} :
        \/ page[i - 1].createdAt > page[i].createdAt
        \/ page[i - 1].createdAt = page[i].createdAt /\ page[i - 1].id > page[i].id
timelineOrdered(r) == \A i \in DOMAIN r : descending(decoded(r[i]))

visibilityFollowsEdges(b, without, with) ==
    /\ \A t \in Range(with) : t.id \in Range(ids(without)) \/ t.author = b
    /\ Range(ids(without)) \subseteq Range(ids(with))

postPrepends(r) ==
    /\ r[4].status = 201
    /\ Len(decoded(r[5])) = Len(decoded(r[2])) + 1
    /\ decoded(r[5])[1].id = r[4].tweet.id

clockNeverDecreases(r) ==
    \A j \in DOMAIN r : r[j].status = 201 =>
        \A s \in {-1} \cup {r[i].tweet.createdAt : i \in {k \in 1..(j - 1) : r[k].status = 201}} :
            s <= r[j].tweet.createdAt

readsArePure(r) == decoded(r[1]) = decoded(Last(r))

holds(name, server, a, b, r) ==
    CASE name \in {"follow-idempotent", "unfollow-idempotent"} -> idempotent(r)
      [] name = "follow-unfollow-restores" -> followUnfollowRestores(r)
      [] name = "pagination-partitions" -> paginationPartitions(server, a, r[1])
      [] name = "timeline-ordered" -> timelineOrdered(r)
      [] name = "visibility-follows-edges" -> visibilityFollowsEdges(b, decoded(r[2]), decoded(r[4]))
      [] name = "post-prepends" -> postPrepends(r)
      [] name = "clock-never-decreases" -> clockNeverDecreases(r)
      [] name = "reads-are-pure" -> readsArePure(r)

check(name, server, us) ==
    holds(name, server, us[1], us[2], Do(server, asks(name, us[1], us[2], us)))

properties == << "follow-idempotent", "unfollow-idempotent", "follow-unfollow-restores",
                 "pagination-partitions", "timeline-ordered", "visibility-follows-edges",
                 "post-prepends", "clock-never-decreases", "reads-are-pure" >>

-----------------------------------------------------------------------------
VARIABLES
    prop,    \* position in properties; one round of each
    sent,    \* requests sent in this round
    users    \* handles the server answered 201 for

r2vars == <<job, pc, srv, exit, prop, sent, known, users>>

\* job is [corner], pc one of "start", "driving" and "ended".
R2Init ==
    /\ job \in [corner : R2Corners]
    /\ pc = "start" /\ srv = start /\ exit = 0
    /\ prop = 1 /\ sent = 0 /\ known = 0 /\ users = {}

BeginRound ==
    /\ pc = "start"
    /\ pc' = IF prop > Len(properties) THEN "ended" ELSE "driving"
    /\ srv' = start
    /\ sent' = 0 /\ known' = 0 /\ users' = {}
    /\ UNCHANGED <<job, exit, prop>>

Reach(r) ==
    /\ pc = "driving" /\ sent < Setup
    /\ Generates(known, sent + 1, r)
    /\ \E a \in {Call(srv, r)} :
          /\ srv' = a[2]
          /\ users' = IF r.op = "create" /\ a[1].status = 201 THEN users \cup {r.handle} ELSE users
    /\ sent' = sent + 1
    /\ known' = HandedOut(known, r)
    /\ UNCHANGED <<job, pc, exit, prop>>

\* With fewer than two users there is nothing to check: not a failure.
Check ==
    /\ pc = "driving" /\ sent = Setup
    /\ LET us == Kept(Pool, {i \in DOMAIN Pool : Pool[i] \in users})
       IN  exit' = IF Len(us) < 2 \/ check(properties[prop], srv, us) THEN exit ELSE 1
    /\ prop' = prop + 1
    /\ pc' = "start"
    /\ UNCHANGED <<job, srv, sent, known, users>>

R2Next == BeginRound \/ Check \/ \E r \in Sample : Reach(r)

R2Spec == R2Init /\ [][R2Next]_r2vars

-----------------------------------------------------------------------------
(* None of the nine relations cries wolf: whatever state the generator      *)
(* reaches on a corner that does what S_obs does, all of them hold there.   *)
(* They were written without S_obs (properties.go:8-9), so this says that   *)
(* F1, F2, F3, F7 and D10 as R2 reads them are what S_obs does.             *)
RelationsHold == (prop > 1 /\ job.corner = Conforming) => exit = 0
=============================================================================
