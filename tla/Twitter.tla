------------------------------ MODULE Twitter ------------------------------
(***************************************************************************)
(* The design model of the repository (spec/tla/twitter.tla), restated     *)
(* without its state-space bounds: which users, edges and tweets a step    *)
(* may add, and what may never change.  S_obs and every corner implement   *)
(* it.  A tweet is [id, author, ts]; ids are positions, counted from 0.    *)
(*                                                                         *)
(* LooseSpec differs from Spec in one clause only: a post may carry any    *)
(* stamp between the previous one and the clock.  A corner whose clock can *)
(* tick between reading the stamp and appending the tweet implements       *)
(* LooseSpec and not Spec.                                                 *)
(***************************************************************************)
EXTENDS Naturals, Sequences

CONSTANT Users

VARIABLES knownUsers, follows, tweets, clock, nextTweetId

vars == <<knownUsers, follows, tweets, clock, nextTweetId>>

Init ==
    /\ knownUsers = {}
    /\ follows = {}
    /\ tweets = << >>
    /\ clock = 0
    /\ nextTweetId = 0

CreateUser(u) ==
    /\ u \notin knownUsers
    /\ knownUsers' = knownUsers \cup {u}
    /\ UNCHANGED <<follows, tweets, clock, nextTweetId>>

Follow(a, b) ==
    /\ {a, b} \subseteq knownUsers
    /\ a # b
    /\ follows' = follows \cup {<<a, b>>}
    /\ UNCHANGED <<knownUsers, tweets, clock, nextTweetId>>

Unfollow(a, b) ==
    /\ {a, b} \subseteq knownUsers
    /\ follows' = follows \ {<<a, b>>}
    /\ UNCHANGED <<knownUsers, tweets, clock, nextTweetId>>

Tick ==
    /\ clock' = clock + 1
    /\ UNCHANGED <<knownUsers, follows, tweets, nextTweetId>>

PostStamped(u, ts) ==
    /\ u \in knownUsers
    /\ tweets' = Append(tweets, [id |-> nextTweetId, author |-> u, ts |-> ts])
    /\ nextTweetId' = nextTweetId + 1
    /\ UNCHANGED <<knownUsers, follows, clock>>

PostTweet(u) == PostStamped(u, clock)

LatestStamp == IF tweets = << >> THEN 0 ELSE tweets[Len(tweets)].ts

PostTweetLate(u) == \E ts \in LatestStamp..clock : PostStamped(u, ts)

Accounts ==
    \/ \E u \in Users : CreateUser(u)
    \/ \E a, b \in Users : Follow(a, b) \/ Unfollow(a, b)
    \/ Tick

Next == Accounts \/ \E u \in Users : PostTweet(u)

LooseNext == Accounts \/ \E u \in Users : PostTweetLate(u)

Spec == Init /\ [][Next]_vars

LooseSpec == Init /\ [][LooseNext]_vars
=============================================================================
