----------------------------- MODULE RustAdmin -----------------------------
(***************************************************************************)
(* The Rust corner with its admin path (crates/server/admin.rs over        *)
(* Service::snapshot_state and Service::load_state) beside the clients.    *)
(* As in the Go corner each part is read or written under its own lock;    *)
(* unlike it, the store is read last, a restored log is sorted and not     *)
(* checked, and the clock follows the snapshot even backwards.             *)
(***************************************************************************)
EXTENDS RustService, Snapshots

VARIABLES
    task,  \* what the operator is doing: "idle", "snapshot" or "load"
    todo,  \* the parts still to be read or written, in order
    snap   \* the snapshot being taken, taken last, or being loaded

adminVars == <<task, todo, snap>>
allVars == <<vars, adminVars>>

AdminInit ==
    /\ Init
    /\ task = "idle"
    /\ todo = << >>
    /\ snap = Blank

\* Bound: the operator works while no client is served.  Beside one, what the
\* parts are read from moves, and the code promises nothing.
Quiet == \A c \in Clients : At(c, "idle")

-----------------------------------------------------------------------------
\* The order of the fields of the literal snapshot_state builds.
SnapshotOrder == <<"clk", "usr", "tw", "store">>

BeginSnapshot ==
    /\ task = "idle"
    /\ Quiet
    /\ task' = "snapshot"
    /\ todo' = SnapshotOrder
    /\ snap' = Blank
    /\ UNCHANGED vars

\* Clock::now, Generator::current (twice) and MemStore::snapshot.
ReadPart ==
    /\ task = "snapshot"
    /\ snap' = CASE Head(todo) = "store" ->
                       [snap EXCEPT !.users = users, !.follows = follows, !.tweets = tweets]
                 [] Head(todo) = "usr" -> [snap EXCEPT !.usr = user_ids]
                 [] Head(todo) = "tw" -> [snap EXCEPT !.tw = tweet_ids]
                 [] Head(todo) = "clk" -> [snap EXCEPT !.clk = clk]
    /\ todo' = Tail(todo)
    /\ task' = IF Len(todo) = 1 THEN "idle" ELSE "snapshot"
    /\ UNCHANGED vars

LoadOrder == <<"store", "usr", "tw", "clk">>

\* Bound: what is loaded is the snapshot taken last.
BeginLoad ==
    /\ task = "idle"
    /\ Quiet
    /\ task' = "load"
    /\ todo' = LoadOrder
    /\ UNCHANGED <<vars, snap>>

Older(s, t) == s.createdAt < t.createdAt \/ (s.createdAt = t.createdAt /\ s.id < t.id)
OlderPairs(log) == {p \in (DOMAIN log) \X (DOMAIN log) : Older(log[p[1]], log[p[2]])}

\* Fault: the log is restored newest first, as a page lists it.
sort_newest_first(log) == Reverse(StableSort(log, OlderPairs(log)))

\* MemStore::replace sorts the log on (created_at, id) and installs it.
sort_by_stamp_and_id(log) == StableSort(log, OlderPairs(log))

\* replace, set_current (twice) and set_now.
WritePart ==
    LET part == Head(todo)
    IN  /\ task = "load"
        /\ IF part = "store"
           THEN /\ users' = snap.users
                /\ follows' = snap.follows
                /\ tweets' = sort_by_stamp_and_id(snap.tweets)
           ELSE UNCHANGED store
        /\ user_ids' = IF part = "usr" THEN snap.usr ELSE user_ids
        /\ tweet_ids' = IF part = "tw" THEN snap.tw ELSE tweet_ids
        /\ clk' = IF part = "clk" THEN snap.clk ELSE clk
        /\ todo' = Tail(todo)
        /\ task' = IF Len(todo) = 1 THEN "idle" ELSE "load"
        /\ UNCHANGED <<pc, req, tmp, resp, snap>>

-----------------------------------------------------------------------------
AdminNext ==
    \/ BeginSnapshot \/ ReadPart \/ BeginLoad \/ WritePart
    \/ \E c \in Clients : Handler(c) /\ UNCHANGED adminVars
    \/ \E c \in Clients, r \in Requests : task = "idle" /\ Call(c, r) /\ UNCHANGED adminVars

AdminSpec == AdminInit /\ [][AdminNext]_allVars

-----------------------------------------------------------------------------
(* Properties *)

Held == [users |-> users, follows |-> follows, tweets |-> tweets,
         usr |-> user_ids, tw |-> tweet_ids, clk |-> clk]

(* A core that was stopped to take a snapshot, or to load one of its own   *)
(* (service/lib.rs:210-233), can be served from afterwards: rolled back,   *)
(* clock and all, it draws no id that is in use.                           *)
LoadLeavesServable == task # "load" => CanServe(Held)
=============================================================================
