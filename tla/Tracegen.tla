----------------------------- MODULE Tracegen -----------------------------
(***************************************************************************)
(* The requests rungs R1 and R2 draw from (tools/internal/tracegen).  The   *)
(* seed is abstracted to a choice: Generates(n, i, r) says whether the      *)
(* generator may emit r as the i-th request of a trace when it has handed   *)
(* out n handles.                                                           *)
(***************************************************************************)
EXTENDS Corners

CONSTANTS
    Pool,     \* the handles u0, u1, ... in the order they are handed out
    Ghost,    \* a valid handle the generator never registers
    Sample    \* bound: the requests tried, when the generator may emit them

ASSUME TracegenAssumption == Pool \in Seq(Handles) /\ Ghost \in Handles \ Range(Pool)

handles(n) == {Pool[i] : i \in 1..n}
handle(n) == handles(n) \cup {Ghost}

\* One registration in four reuses a handle: a rejection before a success (F009).
createUser(n) ==
    [op : {"create"}, handle : handles(n) \cup {Pool[i] : i \in {n + 1} \cap DOMAIN Pool}]

follow(n) == [op : {"follow"}, from : handle(n), to : handle(n)]
unfollow(n) == [op : {"unfollow"}, from : handle(n), to : handle(n)]
tweet(n) == [op : {"post"}, author : handle(n), text : Texts]

timeline(n) ==
    [op : {"timeline"}, user : handle(n), limit : {Absent} \cup 1..5, cursor : {Absent} \cup 1..8]

\* Hostile input has a defined answer too; in most of it the body does not decode.
hostile(n) ==
    {[op |-> "malformed"], [op |-> "unrouted"], [op |-> "create", handle |-> BadHandle]}
      \cup {Sloppy("field", [op |-> "create", handle |-> h]) : h \in handle(n)}
      \cup {Sloppy("repeat", [op |-> "timeline", user |-> h, limit |-> Absent,
                              cursor |-> Absent]) : h \in handle(n)}
      \cup {[op |-> "follow", from |-> h, to |-> h] : h \in handle(n)}
      \cup [op : {"post"}, author : handle(n), text : {BadText}]
      \cup [op : {"timeline"}, user : handle(n), limit : {0, 101}, cursor : {Absent}]
      \cup [op : {"timeline"}, user : handle(n), limit : {Absent}, cursor : {0, -3}]

step(n) ==
    createUser(n) \cup follow(n) \cup unfollow(n) \cup tweet(n) \cup timeline(n)
      \cup {[op |-> "tick"]} \cup hostile(n)

Generates(n, i, r) == IF i <= 2 THEN r \in createUser(n) ELSE r \in step(n)

\* How many handles have been handed out once r is emitted
HandedOut(n, r) == IF r.op = "create" /\ r.handle \notin handles(n) \cup {BadHandle}
                   THEN n + 1 ELSE n
=============================================================================
