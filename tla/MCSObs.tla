------------------------------- MODULE MCSObs -------------------------------
(* S_obs on two handles and one that is badly formed, with pages of at most *)
(* two tweets: every route, every rejection and a page cut in the middle.   *)
EXTENDS JvmConformance

CONSTANTS alice, bob, badHandle, hello, badText

MCHandles == {alice, bob}
MCTexts == {hello}

SomeTimeline(users, limits, cursors) ==
    [op : {"timeline"}, user : users, limit : limits, cursor : cursors]

MCRequests ==
    CreateRequest \cup EdgeRequest \cup PostRequest \cup TickRequest
      \cup SomeTimeline({alice}, {Absent, 0, 1, MaxLimit + 1}, {Absent, 0, 2, 3})
      \cup SomeTimeline({badHandle}, {0}, {0})
      \cup OtherRequest
=============================================================================
