----------------------------- MODULE Snapshots -----------------------------
(***************************************************************************)
(* The state a core hands to POST /_admin/snapshot and takes back from     *)
(* POST /_admin/load-snapshot (ServiceSnapshot in the Go corner,           *)
(* ServiceState in the Rust one), and when such a state can be served      *)
(* from.  Counters are the last id issued in both corners.                 *)
(***************************************************************************)
EXTENDS Api, MemStore

Snapshot == [users : [Handles -> Nat], follows : SUBSET Edge, tweets : Seq(Tweet),
             usr : Nat, tw : Nat, clk : Nat]

Blank == [users |-> [h \in Handles |-> 0], follows |-> {}, tweets |-> << >>,
          usr |-> 0, tw |-> 0, clk |-> 0]

\* No id a core loaded with s will draw is in use, no stamp is ahead of its
\* clock, and nothing names an unknown user.
Grounded(s) ==
    /\ \A h \in Handles : s.users[h] <= s.usr
    /\ \A g, h \in Handles : s.users[g] # 0 /\ s.users[g] = s.users[h] => g = h
    /\ \A i \in DOMAIN s.tweets :
          /\ s.tweets[i].id <= s.tw
          /\ s.tweets[i].createdAt <= s.clk
          /\ s.users[s.tweets[i].author] # 0
    /\ \A e \in s.follows : s.users[e[1]] # 0 /\ s.users[e[2]] # 0

\* It can go on serving: moreover the log is the one its append guard would
\* have let grow.
CanServe(s) == Grounded(s) /\ IsMonotoneLog(s.tweets)
=============================================================================
