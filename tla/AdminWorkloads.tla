--------------------------- MODULE AdminWorkloads ---------------------------
(* What an admin run is driven with: clients that register, post and tick,  *)
(* and foreign snapshots with a log out of order, one whose order no sort   *)
(* repairs, one with an id used twice, and one whose counter is behind.     *)
EXTENDS Workloads, Snapshots

AdminRequests == Create({alice}) \cup Posts({alice}, {hello}) \cup TickRequest

At2(id, stamp) == [id |-> id, author |-> alice, text |-> hello, createdAt |-> stamp]

WithLog(log, tw) ==
    [Blank EXCEPT !.users = [h \in Handles |-> IF h = alice THEN 1 ELSE 0],
                  !.usr = 1, !.tweets = log, !.tw = tw, !.clk = 1]

NoForeign == {}
SomeForeign == {WithLog(<<At2(2, 1), At2(1, 0)>>, 2),
                WithLog(<<At2(2, 0), At2(1, 1)>>, 2),
                WithLog(<<At2(1, 0), At2(1, 1)>>, 1),
                WithLog(<<At2(2, 1)>>, 0)}
=============================================================================
