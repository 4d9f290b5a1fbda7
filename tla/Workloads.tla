------------------------------ MODULE Workloads ------------------------------
(* The requests small instances of a corner are driven with: two handles,   *)
(* pages of at most two tweets, and for each question the routes it needs.  *)
EXTENDS Api

CONSTANTS alice, bob, badHandle, hello, badText

MCHandles == {alice, bob}
MCTexts == {hello}

Create(names) == [op : {"create"}, handle : names]
Follows(from, to) == [op : {"follow"}, from : from, to : to]
Unfollows(from, to) == [op : {"unfollow"}, from : from, to : to]
Posts(authors, texts) == [op : {"post"}, author : authors, text : texts]
Timelines(names, limits, cursors) ==
    [op : {"timeline"}, user : names, limit : limits, cursor : cursors]

\* Posts against ticks and a contended registration; bob never registers.
WriteRequests == Create({alice}) \cup Posts({alice, bob}, {hello}) \cup TickRequest

\* Every route with every way to refuse it: edges between users that may not
\* exist, and pages read while the log and the follow set move.
EveryRequest ==
    Create({alice, bob, badHandle}) \cup Follows({alice, badHandle}, {alice, bob})
      \cup Unfollows({alice, badHandle}, {bob}) \cup Unfollows({alice}, {badHandle})
      \cup Posts({bob}, {hello}) \cup Posts({alice}, {badText}) \cup OtherRequest
      \cup Timelines({alice}, {1, MaxLimit + 1}, {Absent, 0, 2})
      \cup Timelines({badHandle}, {Absent}, {Absent}) \cup TickRequest
=============================================================================
