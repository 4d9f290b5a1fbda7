----------------------------- MODULE SObs_proofs -----------------------------
(***************************************************************************)
(* Proofs about S_obs (SObs, SObsMachine) and about the JVM core's         *)
(* agreement with it (JvmConformance), for any handles, texts, limits and  *)
(* requests.  A request moves the state in one of five ways or leaves it   *)
(* alone (StepMoves); the history and the design model follow from the     *)
(* moves, the page from the order of the log.                              *)
(***************************************************************************)
EXTENDS JvmConformance, Pages_proofs

-----------------------------------------------------------------------------
(* The moves of the state *)

Registers(s, n, h) ==
    /\ h \in Handles /\ ~Registered(s, h)
    /\ n.users = [s.users EXCEPT ![h] = s.nextUserID]
    /\ n.nextUserID = s.nextUserID + 1
    /\ n.follows = s.follows /\ n.tweets = s.tweets
    /\ n.clock = s.clock /\ n.nextTweetID = s.nextTweetID

Edges(s, n, a, b) ==
    /\ a \in Handles /\ b \in Handles /\ Registered(s, a) /\ Registered(s, b)
    /\ \/ a # b /\ n.follows = s.follows \cup {<<a, b>>}
       \/ n.follows = s.follows \ {<<a, b>>}
    /\ n.users = s.users /\ n.nextUserID = s.nextUserID
    /\ n.tweets = s.tweets /\ n.clock = s.clock /\ n.nextTweetID = s.nextTweetID

Posts(s, n, t) ==
    /\ t \in Tweet /\ Registered(s, t.author)
    /\ t.id = s.nextTweetID /\ t.createdAt = s.clock
    /\ n.tweets = Append(s.tweets, t) /\ n.nextTweetID = s.nextTweetID + 1
    /\ n.users = s.users /\ n.nextUserID = s.nextUserID
    /\ n.follows = s.follows /\ n.clock = s.clock

Ticks(s, n) ==
    /\ n.clock = s.clock + 1
    /\ n.users = s.users /\ n.nextUserID = s.nextUserID
    /\ n.follows = s.follows /\ n.tweets = s.tweets /\ n.nextTweetID = s.nextTweetID

Moves(s, n) ==
    \/ n = s
    \/ \E h : Registers(s, n, h)
    \/ \E a, b : Edges(s, n, a, b)
    \/ \E t : Posts(s, n, t)
    \/ Ticks(s, n)

\* Step picks the operator of the request's route.
LEMMA StepByRoute ==
    ASSUME NEW s, NEW r
    PROVE  /\ r.op = "create" => Step(s, r) = StepCreateUser(s, r)
           /\ r.op = "follow" => Step(s, r) = StepFollow(s, r)
           /\ r.op = "unfollow" => Step(s, r) = StepUnfollow(s, r)
           /\ r.op = "post" => Step(s, r) = StepPostTweet(s, r)
           /\ r.op = "tick" => Step(s, r) = StepTick(s)
           /\ r.op = "timeline" => Step(s, r) = StepTimeline(s, r)
           /\ r.op = "malformed" => Step(s, r) = Reject(s, "malformed_request")
           /\ r.op = "unrouted" => Step(s, r) = << ErrorBody(404, "not_found"), s >>
BY DEF Step

\* Every request is of one of the routes, with the parameters of the route.
LEMMA Routes ==
    ASSUME NEW r \in Request
    PROVE  \/ r.op = "create" /\ r.handle \in AnyHandle
           \/ r.op \in {"follow", "unfollow"} /\ r.from \in AnyHandle /\ r.to \in AnyHandle
           \/ r.op = "post" /\ r.author \in AnyHandle /\ r.text \in Texts \cup {BadText}
           \/ r.op = "tick"
           \/ /\ r.op = "timeline" /\ r.user \in AnyHandle
              /\ r.limit \in Int \cup {Absent} /\ r.cursor \in Int \cup {Absent}
           \/ r.op \in {"malformed", "unrouted"}
BY DEF Request, CreateRequest, EdgeRequest, PostRequest, TickRequest, TimelineRequest,
       OtherRequest

\* An answer of the API that refuses the request.
Refusal(a) == \E status \in {400, 404, 409}, code \in ErrorCode : a = ErrorBody(status, code)

LEMMA RefusalType == \A a : Refusal(a) => a \in Response /\ a.status \in {400, 404, 409}
BY DEF Refusal, Response, ErrorBody

LEMMA RejectIs ==
    ASSUME NEW s, NEW code \in ErrorCode
    PROVE  Reject(s, code)[2] = s /\ Refusal(Reject(s, code)[1])
BY DEF Reject, Refusal

LEMMA FieldTypes ==
    ASSUME NEW s \in State
    PROVE  /\ s.users \in [Handles -> Nat] /\ s.follows \in SUBSET Edge
           /\ s.tweets \in Seq(Tweet) /\ s.clock \in Nat
           /\ s.nextUserID \in Nat /\ s.nextTweetID \in Nat
BY DEF State

LEMMA FreshUsers ==
    ASSUME NEW s \in State, NEW u \in [Handles -> Nat], NEW i \in Nat
    PROVE  [s EXCEPT !.users = u, !.nextUserID = i] \in State
BY DEF State

LEMMA FreshFollows ==
    ASSUME NEW s \in State, NEW f \in SUBSET Edge
    PROVE  [s EXCEPT !.follows = f] \in State
BY DEF State

LEMMA FreshTweets ==
    ASSUME NEW s \in State, NEW q \in Seq(Tweet), NEW i \in Nat
    PROVE  [s EXCEPT !.tweets = q, !.nextTweetID = i] \in State
BY DEF State

LEMMA FreshClock ==
    ASSUME NEW s \in State, NEW i \in Nat
    PROVE  [s EXCEPT !.clock = i] \in State
BY DEF State

LEMMA CreateMoves ==
    ASSUME NEW s \in State, NEW r
    PROVE  \/ StepCreateUser(s, r)[2] = s /\ Refusal(StepCreateUser(s, r)[1])
           \/ /\ StepCreateUser(s, r)[2] \in State
              /\ Registers(s, StepCreateUser(s, r)[2], r.handle)
              /\ StepCreateUser(s, r)[1] = UserBody(r.handle, s.nextUserID)
<1> DEFINE n == [s EXCEPT !.users = [@ EXCEPT ![r.handle] = s.nextUserID],
                          !.nextUserID = @ + 1]
<1>1. CASE ~ValidHandle(r.handle)
  BY <1>1, RejectIs DEF StepCreateUser, ErrorCode
<1>2. CASE ValidHandle(r.handle) /\ Registered(s, r.handle)
  BY <1>2, RejectIs DEF StepCreateUser, ErrorCode
<1>3. CASE ValidHandle(r.handle) /\ ~Registered(s, r.handle)
  <2>1. StepCreateUser(s, r) = << UserBody(r.handle, s.nextUserID), n >>
    BY <1>3 DEF StepCreateUser
  <2>2. s.users \in [Handles -> Nat] /\ s.nextUserID \in Nat
    BY DEF State
  <2>3. n \in State
    <3>1. [s.users EXCEPT ![r.handle] = s.nextUserID] \in [Handles -> Nat]
      BY <2>2
    <3>2. s.nextUserID + 1 \in Nat
      BY <2>2
    <3> QED BY <3>1, <3>2, FreshUsers
  <2>4. Registers(s, n, r.handle)
    BY <1>3 DEF State, Registers, ValidHandle
  <2> QED BY <2>1, <2>3, <2>4
<1> QED BY <1>1, <1>2, <1>3

LEMMA EdgeMoves ==
    ASSUME NEW s \in State, NEW r
    PROVE  /\ \/ StepFollow(s, r)[2] = s /\ Refusal(StepFollow(s, r)[1])
              \/ /\ StepFollow(s, r)[2] \in State
                 /\ Edges(s, StepFollow(s, r)[2], r.from, r.to)
                 /\ StepFollow(s, r)[1] = NoContent
           /\ \/ StepUnfollow(s, r)[2] = s /\ Refusal(StepUnfollow(s, r)[1])
              \/ /\ StepUnfollow(s, r)[2] \in State
                 /\ Edges(s, StepUnfollow(s, r)[2], r.from, r.to)
                 /\ StepUnfollow(s, r)[1] = NoContent
<1> DEFINE e == <<r.from, r.to>>
           more == [s EXCEPT !.follows = @ \cup {e}]
           less == [s EXCEPT !.follows = @ \ {e}]
           Wrong == \/ ~ValidHandle(r.from) \/ ~ValidHandle(r.to)
                    \/ ~Registered(s, r.from) \/ ~Registered(s, r.to)
<1>1. CASE Wrong
  <2>1. \/ StepFollow(s, r) = Reject(s, "invalid_handle")
        \/ StepFollow(s, r) = Reject(s, "unknown_user")
    BY <1>1 DEF StepFollow
  <2>2. \/ StepUnfollow(s, r) = Reject(s, "invalid_handle")
        \/ StepUnfollow(s, r) = Reject(s, "unknown_user")
    BY <1>1 DEF StepUnfollow
  <2>3. {"invalid_handle", "unknown_user"} \subseteq ErrorCode
    BY DEF ErrorCode
  <2> QED BY <2>1, <2>2, <2>3, RejectIs
<1>2. CASE ~Wrong
  <2>1. e \in Edge /\ s.follows \in SUBSET Edge
    BY <1>2, FieldTypes DEF ValidHandle, Edge
  <2>2. more \in State /\ less \in State
    BY <2>1, FreshFollows
  <2>3. r.from # r.to => Edges(s, more, r.from, r.to)
    BY <1>2 DEF Edges, State, ValidHandle
  <2>4. Edges(s, less, r.from, r.to)
    BY <1>2 DEF Edges, State, ValidHandle
  <2>5. StepUnfollow(s, r) = << NoContent, less >>
    BY <1>2 DEF StepUnfollow
  <2>6. IF r.from = r.to THEN StepFollow(s, r) = Reject(s, "self_follow_forbidden")
        ELSE StepFollow(s, r) = << NoContent, more >>
    BY <1>2 DEF StepFollow
  <2>7. "self_follow_forbidden" \in ErrorCode
    BY DEF ErrorCode
  <2> HIDE DEF more, less
  <2> QED BY <2>2, <2>3, <2>4, <2>5, <2>6, <2>7, RejectIs
<1> QED BY <1>1, <1>2

LEMMA PostMoves ==
    ASSUME NEW s \in State, NEW r
    PROVE  \/ StepPostTweet(s, r)[2] = s /\ Refusal(StepPostTweet(s, r)[1])
           \/ \E t : /\ StepPostTweet(s, r)[2] \in State
                     /\ Posts(s, StepPostTweet(s, r)[2], t)
                     /\ StepPostTweet(s, r)[1] = TweetBody(t)
<1> DEFINE t == [id |-> s.nextTweetID, author |-> r.author,
                 text |-> r.text, createdAt |-> s.clock]
           n == [s EXCEPT !.tweets = Append(@, t), !.nextTweetID = @ + 1]
           Wrong == \/ ~ValidHandle(r.author) \/ ~ValidText(r.text)
                    \/ ~Registered(s, r.author)
<1>1. CASE Wrong
  <2>1. \/ StepPostTweet(s, r) = Reject(s, "invalid_handle")
        \/ StepPostTweet(s, r) = Reject(s, "invalid_text")
        \/ StepPostTweet(s, r) = Reject(s, "unknown_user")
    BY <1>1 DEF StepPostTweet
  <2>2. {"invalid_handle", "invalid_text", "unknown_user"} \subseteq ErrorCode
    BY DEF ErrorCode
  <2> QED BY <2>1, <2>2, RejectIs
<1>2. CASE ~Wrong
  <2>1. StepPostTweet(s, r) = << TweetBody(t), n >>
    BY <1>2 DEF StepPostTweet
  <2>2. t \in Tweet
    BY <1>2, FieldTypes DEF ValidHandle, ValidText, Tweet
  <2>3. t.author = r.author /\ t.id = s.nextTweetID /\ t.createdAt = s.clock
    OBVIOUS
  <2> HIDE DEF t
  <2>4. n \in State
    <3>1. Append(s.tweets, t) \in Seq(Tweet) /\ s.nextTweetID + 1 \in Nat
      BY <2>2, FieldTypes
    <3> QED BY <3>1, FreshTweets
  <2>5. Posts(s, n, t)
    BY <1>2, <2>2, <2>3 DEF Posts, State
  <2> QED BY <2>1, <2>4, <2>5
<1> QED BY <1>1, <1>2

LEMMA TickMoves ==
    ASSUME NEW s \in State
    PROVE  /\ StepTick(s)[2] \in State /\ Ticks(s, StepTick(s)[2])
           /\ StepTick(s)[1] = ClockBody(s.clock + 1)
<1>1. s.clock + 1 \in Nat
  BY FieldTypes
<1>2. [s EXCEPT !.clock = s.clock + 1] \in State
  BY <1>1, FreshClock
<1> QED BY <1>2 DEF StepTick, Ticks, State

LEMMA TimelineStays ==
    ASSUME NEW s, NEW r
    PROVE  StepTimeline(s, r)[2] = s
BY DEF StepTimeline, Reject

\* Whatever the request, Step answers with a response and a state.
IsPair(p) == \E a, b : p = << a, b >>

LEMMA StepIsPair ==
    ASSUME NEW s, NEW r \in Request
    PROVE  Step(s, r) = << Step(s, r)[1], Step(s, r)[2] >>
<1>1. \A code : IsPair(Reject(s, code))
  BY DEF IsPair, Reject
<1>2. IsPair(StepCreateUser(s, r))
  BY <1>1 DEF IsPair, StepCreateUser
<1>3. IsPair(StepFollow(s, r)) /\ IsPair(StepUnfollow(s, r))
  BY <1>1 DEF IsPair, StepFollow, StepUnfollow
<1>4. IsPair(StepPostTweet(s, r))
  BY <1>1 DEF IsPair, StepPostTweet
<1>5. IsPair(StepTick(s))
  BY DEF IsPair, StepTick
<1>6. IsPair(StepTimeline(s, r))
  BY <1>1 DEF IsPair, StepTimeline
<1>7. IsPair(<< ErrorBody(404, "not_found"), s >>)
  BY DEF IsPair
<1>8. IsPair(Step(s, r))
  BY <1>1, <1>2, <1>3, <1>4, <1>5, <1>6, <1>7, Routes, StepByRoute
<1> QED BY <1>8 DEF IsPair

\* Each request moves the state in one of the ways above, or not at all.
LEMMA StepMoves ==
    ASSUME NEW s \in State, NEW r \in Request
    PROVE  Step(s, r)[2] \in State /\ Moves(s, Step(s, r)[2])
<1>1. CASE r.op = "create"
  BY <1>1, StepByRoute, CreateMoves DEF Moves
<1>2. CASE r.op \in {"follow", "unfollow"}
  BY <1>2, StepByRoute, EdgeMoves DEF Moves
<1>3. CASE r.op = "post"
  BY <1>3, StepByRoute, PostMoves DEF Moves
<1>4. CASE r.op = "tick"
  BY <1>4, StepByRoute, TickMoves DEF Moves
<1>5. CASE r.op = "timeline"
  BY <1>5, StepByRoute, TimelineStays DEF Moves
<1>6. CASE r.op \in {"malformed", "unrouted"}
  BY <1>6, StepByRoute DEF Moves, Reject
<1> QED BY <1>1, <1>2, <1>3, <1>4, <1>5, <1>6, Routes

-----------------------------------------------------------------------------
(* The history is sound after every move *)

\* Ids are allocated from 1: 0 stands for a handle that is not registered.
IdsFromOne == st.nextUserID >= 1

LEMMA LogEntries ==
    ASSUME NEW s \in State
    PROVE  /\ Len(s.tweets) \in Nat /\ DOMAIN s.tweets = 1..Len(s.tweets)
           /\ \A i \in 1..Len(s.tweets) :
                 s.tweets[i] \in Tweet /\ s.tweets[i].id \in Nat /\ s.tweets[i].createdAt \in Nat
                                       /\ s.tweets[i].author \in Handles
<1>1. s.tweets \in Seq(Tweet)
  BY FieldTypes
<1>2. \A t \in Tweet : t.id \in Nat /\ t.createdAt \in Nat /\ t.author \in Handles
  BY DEF Tweet
<1>3. \A i \in 1..Len(s.tweets) : s.tweets[i] \in Tweet
  BY <1>1
<1> QED BY <1>1, <1>2, <1>3

LEMMA AppendEntries ==
    ASSUME NEW s \in State, NEW q, NEW t \in Tweet, q = Append(s.tweets, t)
    PROVE  /\ Len(q) = Len(s.tweets) + 1 /\ q[Len(s.tweets) + 1] = t
           /\ DOMAIN q = 1..(Len(s.tweets) + 1)
           /\ \A i \in 1..Len(s.tweets) : q[i] = s.tweets[i]
BY FieldTypes

LEMMA MonotonicityStep ==
    ASSUME st \in State, MonotonicityLemma, Moves(st, st')
    PROVE  MonotonicityLemma'
<1>1. st.clock \in Nat
  BY FieldTypes
<1>2. ASSUME st'.tweets = st.tweets, st'.nextTweetID = st.nextTweetID, st'.clock >= st.clock,
             st'.clock \in Nat
      PROVE  MonotonicityLemma'
  <2>1. \A i \in DOMAIN st.tweets : st.tweets[i].createdAt <= st'.clock
    BY <1>1, <1>2, LogEntries DEF MonotonicityLemma
  <2> QED BY <1>2, <2>1 DEF MonotonicityLemma
<1>3. ASSUME NEW t, Posts(st, st', t) PROVE MonotonicityLemma'
  <2> DEFINE n == Len(st.tweets)
  <2>1. t \in Tweet /\ t.id = n + 1 /\ t.createdAt = st.clock
    BY <1>3 DEF Posts, MonotonicityLemma
  <2>2. /\ Len(st'.tweets) = n + 1 /\ st'.tweets[n + 1] = t
        /\ DOMAIN st'.tweets = 1..(n + 1)
        /\ \A i \in 1..n : st'.tweets[i] = st.tweets[i]
        /\ n \in Nat /\ DOMAIN st.tweets = 1..n
    BY <1>3, <2>1, AppendEntries, LogEntries DEF Posts
  <2>3. st'.nextTweetID = Len(st'.tweets) + 1 /\ st'.clock = st.clock
    BY <1>3, <2>2 DEF Posts, MonotonicityLemma
  <2>4. \A i \in 1..n : /\ st.tweets[i].id = i
                        /\ st.tweets[i].createdAt <= st.clock
                        /\ \A j \in 1..i : st.tweets[j].createdAt <= st.tweets[i].createdAt
    BY <2>2 DEF MonotonicityLemma
  <2> HIDE DEF n
  <2>5. ASSUME NEW i \in 1..(n + 1)
        PROVE  /\ st'.tweets[i].id = i
               /\ st'.tweets[i].createdAt <= st'.clock
               /\ \A j \in 1..i : st'.tweets[j].createdAt <= st'.tweets[i].createdAt
    <3>1. CASE i = n + 1
      <4>1. \A j \in 1..i : j = n + 1 \/ j \in 1..n
        BY <2>2, <3>1
      <4> QED BY <1>1, <2>1, <2>2, <2>3, <2>4, <3>1, <4>1
    <3>2. CASE i \in 1..n
      <4>1. \A j \in 1..i : j \in 1..n
        BY <2>2, <3>2
      <4> QED BY <2>2, <2>3, <2>4, <3>2, <4>1
    <3> QED BY <2>2, <3>1, <3>2
  <2> QED BY <2>2, <2>3, <2>5 DEF MonotonicityLemma
<1>4. st' = st => MonotonicityLemma'
  BY DEF MonotonicityLemma
<1>5. \A h : Registers(st, st', h) => MonotonicityLemma'
  BY <1>1, <1>2 DEF Registers
<1>6. \A a, b : Edges(st, st', a, b) => MonotonicityLemma'
  BY <1>1, <1>2 DEF Edges
<1>7. Ticks(st, st') => MonotonicityLemma'
  BY <1>1, <1>2 DEF Ticks
<1> QED BY <1>3, <1>4, <1>5, <1>6, <1>7 DEF Moves

LEMMA OrphanStep ==
    ASSUME st \in State, NoOrphans, IdsFromOne, Moves(st, st')
    PROVE  NoOrphans'
<1> DEFINE n == Len(st.tweets)
<1>1. st.users \in [Handles -> Nat] /\ st.nextUserID \in Nat /\ st.follows \subseteq Edge
  BY FieldTypes
<1>2. \A h \in Handles : Registered(st, h) => Registered(st', h)
  BY <1>1 DEF Moves, Registers, Edges, Posts, Ticks, Registered, IdsFromOne
<1>3. \A e \in st.follows : e[1] # e[2] /\ Registered(st', e[1]) /\ Registered(st', e[2])
  BY <1>1, <1>2 DEF NoOrphans, Edge
<1>4. \A i \in DOMAIN st.tweets : Registered(st', st.tweets[i].author)
  BY <1>2, LogEntries DEF NoOrphans
<1>5. ASSUME st'.follows = st.follows, st'.tweets = st.tweets PROVE NoOrphans'
  BY <1>3, <1>4, <1>5 DEF NoOrphans
<1>6. ASSUME NEW a, NEW b, Edges(st, st', a, b) PROVE NoOrphans'
  <2>1. st'.tweets = st.tweets /\ Registered(st', a) /\ Registered(st', b)
    BY <1>2, <1>6 DEF Edges
  <2>2. \A e \in st'.follows : e \in st.follows \/ (e = <<a, b>> /\ a # b)
    BY <1>6 DEF Edges
  <2> QED BY <1>3, <1>4, <2>1, <2>2 DEF NoOrphans
<1>7. ASSUME NEW t, Posts(st, st', t) PROVE NoOrphans'
  <2>1. Registered(st', t.author) /\ st'.follows = st.follows /\ t \in Tweet
    BY <1>7 DEF Posts, Registered
  <2>2. \A i \in DOMAIN st'.tweets : st'.tweets[i] = t \/ (i \in 1..n /\ st'.tweets[i] = st.tweets[i])
    BY <1>7, <2>1, AppendEntries, LogEntries DEF Posts
  <2> QED BY <1>3, <1>4, <2>1, <2>2, LogEntries DEF NoOrphans
<1>8. st' = st => NoOrphans'
  BY DEF NoOrphans
<1> QED BY <1>5, <1>6, <1>7, <1>8 DEF Moves, Registers, Ticks

LEMMA GaplessStep ==
    ASSUME st \in State, UserIdsGapless, IdsFromOne, Moves(st, st')
    PROVE  UserIdsGapless' /\ IdsFromOne'
<1>1. st.users \in [Handles -> Nat] /\ st.nextUserID \in Nat
  BY FieldTypes
<1>2. ASSUME st'.users = st.users, st'.nextUserID = st.nextUserID
      PROVE  UserIdsGapless' /\ IdsFromOne'
  BY <1>2 DEF UserIdsGapless, IdsFromOne, Registered
<1>3. ASSUME NEW h, Registers(st, st', h) PROVE UserIdsGapless' /\ IdsFromOne'
  <2> DEFINE k == st.nextUserID
             Ids == {st.users[x] : x \in {g \in Handles : Registered(st, g)}}
             New == {st'.users[x] : x \in {g \in Handles : Registered(st', g)}}
  <2>1. /\ h \in Handles /\ st.users[h] = 0 /\ st'.nextUserID = k + 1
        /\ st'.users[h] = k /\ \A g \in Handles : g # h => st'.users[g] = st.users[g]
    BY <1>1, <1>3 DEF Registers, Registered
  <2>2. Ids = 1..(k - 1) /\ k \in Nat /\ k >= 1
    BY <1>1 DEF UserIdsGapless, IdsFromOne
  <2>3. \A g \in Handles : st.users[g] # 0 => st.users[g] \in 1..(k - 1)
    BY <2>2 DEF Registered
  <2>4. New = Ids \cup {k}
    <3>1. New \subseteq Ids \cup {k}
      BY <2>1 DEF Registered
    <3>2. k \in New
      BY <2>1, <2>2 DEF Registered
    <3>3. Ids \subseteq New
      BY <2>1 DEF Registered
    <3> QED BY <3>1, <3>2, <3>3
  <2>5. New = 1..(st'.nextUserID - 1)
    BY <2>1, <2>2, <2>4
  <2>6. ASSUME NEW g \in Handles, NEW f \in Handles, st'.users[g] = st'.users[f]
        PROVE  g = f \/ st'.users[g] = 0
    <3>1. st.users[g] = st.users[f] => g = f \/ st.users[g] = 0
      BY DEF UserIdsGapless
    <3> QED BY <1>1, <2>1, <2>2, <2>3, <2>6, <3>1
  <2>7. UserIdsGapless'
    BY <2>5, <2>6 DEF UserIdsGapless
  <2> QED BY <2>1, <2>2, <2>7 DEF IdsFromOne
<1>4. st' = st => UserIdsGapless' /\ IdsFromOne'
  BY DEF UserIdsGapless, IdsFromOne, Registered
<1> QED BY <1>2, <1>3, <1>4 DEF Moves, Edges, Posts, Ticks

LEMMA HistoryStep ==
    ASSUME st \in State, HistoryIsSound, IdsFromOne, Moves(st, st')
    PROVE  HistoryIsSound' /\ IdsFromOne'
BY MonotonicityStep, OrphanStep, GaplessStep DEF HistoryIsSound

LEMMA InitHistory == Init => st \in State /\ HistoryIsSound /\ IdsFromOne
<1> SUFFICES ASSUME Init PROVE st \in State /\ HistoryIsSound /\ IdsFromOne
  OBVIOUS
<1>1. /\ st.users = [h \in Handles |-> 0] /\ st.follows = {} /\ st.tweets = << >>
      /\ st.clock = 0 /\ st.nextUserID = 1 /\ st.nextTweetID = 1
  BY DEF Init, InitState
<1>2. st \in State
  BY DEF Init, InitState, State
<1>3. MonotonicityLemma /\ NoOrphans /\ IdsFromOne
  BY <1>1 DEF MonotonicityLemma, NoOrphans, IdsFromOne
<1>4. UserIdsGapless
  <2>1. \A h \in Handles : ~Registered(st, h)
    BY <1>1 DEF Registered
  <2> QED BY <1>1, <2>1 DEF UserIdsGapless
<1> QED BY <1>2, <1>3, <1>4 DEF HistoryIsSound

LEMMA NextHistory ==
    st \in State /\ HistoryIsSound /\ IdsFromOne /\ [Next]_vars
      => (st \in State /\ HistoryIsSound /\ IdsFromOne)'
<1> SUFFICES ASSUME st \in State, HistoryIsSound, IdsFromOne, [Next]_vars
             PROVE  (st \in State)' /\ HistoryIsSound' /\ IdsFromOne'
  OBVIOUS
<1>1. st' \in State /\ Moves(st, st')
  <2>1. CASE UNCHANGED vars
    BY <2>1 DEF vars, Moves
  <2>2. CASE Next
    <3>1. PICK r \in Requests : Submit(r)
      BY <2>2 DEF Next
    <3>2. r \in Request
      BY MachineAssumption
    <3> QED BY <3>1, <3>2, StepMoves DEF Submit
  <2> QED BY <2>1, <2>2
<1> QED BY <1>1, HistoryStep

(* After any sequence of requests, along the log ids are the positions and *)
(* stamps never decrease, no counter or clock is behind the log, no edge   *)
(* and no tweet names a handle that is not registered, and user ids are    *)
(* 1..n (step.go:310-326, F4, F6 and F9 of the design).                    *)
THEOREM HistoryHolds == Spec => []HistoryIsSound
BY InitHistory, NextHistory, PTL DEF Spec

-----------------------------------------------------------------------------
(* S_obs implements the design model *)

\* The mapped variables, named.
Known == {h \in Handles : Registered(st, h)}
AsDesign(t) == [id |-> t.id - 1, author |-> t.author, ts |-> t.createdAt]
Log == [i \in DOMAIN st.tweets |-> AsDesign(st.tweets[i])]

LEMMA InitRefines == Init => Design!Init
<1> SUFFICES ASSUME Init PROVE Design!Init
  OBVIOUS
<1>1. /\ st.users = [h \in Handles |-> 0] /\ st.follows = {} /\ st.tweets = << >>
      /\ st.clock = 0 /\ st.nextTweetID = 1
  BY DEF Init, InitState
<1>2. Known = {} /\ Log = << >>
  BY <1>1 DEF Known, Log, Registered
<1> QED BY <1>1, <1>2 DEF Design!Init, Known, Log, AsDesign

LEMMA PostRefines ==
    ASSUME st \in State, NEW t, Posts(st, st', t)
    PROVE  \E u \in Handles : Design!PostTweet(u)
<1> DEFINE n == Len(st.tweets)
<1>1. t \in Tweet /\ t.author \in Handles /\ t.author \in Known
  BY DEF Posts, Tweet, Known
<1>2. /\ Len(st'.tweets) = n + 1 /\ st'.tweets[n + 1] = t
      /\ DOMAIN st'.tweets = 1..(n + 1)
      /\ \A i \in 1..n : st'.tweets[i] = st.tweets[i]
      /\ n \in Nat /\ DOMAIN st.tweets = 1..n
  BY <1>1, AppendEntries, LogEntries DEF Posts
<1> HIDE DEF n
<1>3. Log' = Append(Log, AsDesign(t))
  <2>1. Log' = [i \in 1..(n + 1) |-> AsDesign(st'.tweets[i])]
    BY <1>2 DEF Log
  <2>2. Log = [i \in 1..n |-> AsDesign(st.tweets[i])]
    BY <1>2 DEF Log
  <2>3. Append(Log, AsDesign(t))
          = [i \in 1..(n + 1) |-> IF i = n + 1 THEN AsDesign(t) ELSE AsDesign(st.tweets[i])]
    BY <1>2, <2>2
  <2>4. ASSUME NEW i \in 1..(n + 1)
        PROVE  AsDesign(st'.tweets[i])
                 = IF i = n + 1 THEN AsDesign(t) ELSE AsDesign(st.tweets[i])
    <3>1. i = n + 1 \/ i \in 1..n
      BY <1>2
    <3> QED BY <1>2, <3>1
  <2> QED BY <2>1, <2>3, <2>4
<1>4. AsDesign(t) = [id |-> st.nextTweetID - 1, author |-> t.author, ts |-> st.clock]
  BY DEF AsDesign, Posts
<1>5. (st.nextTweetID - 1) + 1 = st'.nextTweetID - 1
  BY FieldTypes DEF Posts
<1>6. Known' = Known /\ st'.follows = st.follows /\ st'.clock = st.clock
  BY DEF Posts, Known, Registered
<1>7. Design!PostStamped(t.author, st.clock)
  BY <1>1, <1>3, <1>4, <1>5, <1>6 DEF Design!PostStamped, Known, Log, AsDesign
<1> QED BY <1>1, <1>7 DEF Design!PostTweet

LEMMA NextRefines ==
    ASSUME st \in State, IdsFromOne, Moves(st, st')
    PROVE  [Design!Next]_(Design!vars)
<1>1. CASE st' = st
  BY <1>1 DEF Design!vars, Registered
<1>2. ASSUME NEW h, Registers(st, st', h) PROVE Design!CreateUser(h)
  <2>1. st.users \in [Handles -> Nat] /\ st.nextUserID # 0
    BY FieldTypes DEF IdsFromOne
  <2>2. Known' = Known \cup {h} /\ h \notin Known
    BY <1>2, <2>1 DEF Known, Registers, Registered
  <2>3. Log' = Log
    BY <1>2 DEF Log, AsDesign, Registers
  <2> QED BY <1>2, <2>2, <2>3 DEF Design!CreateUser, Known, Log, AsDesign, Registers
<1>3. ASSUME NEW a, NEW b, Edges(st, st', a, b)
      PROVE  Design!Follow(a, b) \/ Design!Unfollow(a, b)
  <2>1. Known' = Known /\ Log' = Log /\ {a, b} \subseteq Known
    BY <1>3 DEF Known, Log, AsDesign, Edges, Registered
  <2> QED BY <1>3, <2>1 DEF Design!Follow, Design!Unfollow, Known, Log, AsDesign, Edges
<1>4. ASSUME Ticks(st, st') PROVE Design!Tick
  <2>1. Known' = Known /\ Log' = Log
    BY <1>4 DEF Known, Log, AsDesign, Ticks, Registered
  <2> QED BY <1>4, <2>1 DEF Design!Tick, Known, Log, AsDesign, Ticks
<1>5. \A h : Registers(st, st', h) => h \in Handles
  BY DEF Registers
<1>6. \A a, b : Edges(st, st', a, b) => a \in Handles /\ b \in Handles
  BY DEF Edges
<1> QED BY <1>1, <1>2, <1>3, <1>4, <1>5, <1>6, PostRefines
        DEF Moves, Design!Next, Design!Accounts

LEMMA StepRefines ==
    st \in State /\ HistoryIsSound /\ IdsFromOne /\ [Next]_vars
      => [Design!Next]_(Design!vars)
<1> SUFFICES ASSUME st \in State, IdsFromOne, [Next]_vars
             PROVE  [Design!Next]_(Design!vars)
  OBVIOUS
<1>1. CASE UNCHANGED vars
  BY <1>1, NextRefines DEF vars, Moves
<1>2. CASE Next
  <2>1. PICK r \in Requests : Submit(r)
    BY <1>2 DEF Next
  <2>2. r \in Request
    BY MachineAssumption
  <2> QED BY <2>1, <2>2, StepMoves, NextRefines DEF Submit
<1> QED BY <1>1, <1>2

(* Every request moves S_obs as the design model (spec/tla/twitter.tla)    *)
(* allows, a post being stamped with the clock's own value: what tlclink   *)
(* samples by projecting traces (tools/cmd/tlclink/project.go).            *)
THEOREM SObsImplementsDesign == Spec => ImplementsDesign
BY InitRefines, InitHistory, NextHistory, StepRefines, PTL
   DEF Spec, ImplementsDesign, Design!Spec

-----------------------------------------------------------------------------
(* The page *)

\* What PageIsExact calls the tweets below the cursor.
Below(u, cursor) ==
    {t \in Range(st.tweets) : May(u, t) /\ (cursor # Absent => t.id < cursor)}

LEMMA ReverseLog ==
    ASSUME NEW s \in State
    PROVE  /\ Reverse(s.tweets) \in Seq(Tweet) /\ Len(Reverse(s.tweets)) = Len(s.tweets)
           /\ DOMAIN Reverse(s.tweets) = 1..Len(s.tweets)
           /\ \A i \in 1..Len(s.tweets) :
                 Reverse(s.tweets)[i] = s.tweets[(Len(s.tweets) - i) + 1]
<1> DEFINE n == Len(s.tweets)
           newest == [i \in 1..n |-> s.tweets[(n - i) + 1]]
<1>1. n \in Nat /\ \A i \in 1..n : s.tweets[i] \in Tweet
  BY LogEntries
<1>2. Reverse(s.tweets) = newest
  BY DEF Reverse
<1> HIDE DEF n
<1>3. \A i \in 1..n : (n - i) + 1 \in 1..n
  BY <1>1
<1>4. newest \in Seq(Tweet) /\ Len(newest) = n
  BY <1>1, <1>3
<1> QED BY <1>2, <1>4 DEF n

LEMMA VisibleType ==
    ASSUME NEW s \in State, NEW u, NEW cursor
    PROVE  VisibleBelow(s, u, cursor) \in Seq(Tweet)
BY ReverseLog, KeptIsSelection DEF VisibleBelow

\* The visible tweets are those below the cursor, each once, newest first.
LEMMA VisibleIsExact ==
    ASSUME st \in State, MonotonicityLemma, NEW u, NEW cursor
    PROVE  LET visible == VisibleBelow(st, u, cursor)
           IN  /\ \A i \in 1..Len(visible) : visible[i] \in Below(u, cursor)
               /\ \A t \in Below(u, cursor) : \E i \in 1..Len(visible) : visible[i] = t
               /\ \A i, j \in 1..Len(visible) : i < j =>
                     /\ visible[i].id > visible[j].id
                     /\ visible[i].createdAt >= visible[j].createdAt
<1> DEFINE n == Len(st.tweets)
           newest == Reverse(st.tweets)
           shown == {i \in DOMAIN newest :
                       /\ cursor # Absent => newest[i].id < cursor
                       /\ newest[i].author = u \/ <<u, newest[i].author>> \in st.follows}
           visible == VisibleBelow(st, u, cursor)
<1>1. /\ n \in Nat /\ newest \in Seq(Tweet) /\ Len(newest) = n /\ DOMAIN newest = 1..n
      /\ \A i \in 1..n : newest[i] = st.tweets[(n - i) + 1] /\ (n - i) + 1 \in 1..n
  BY ReverseLog, LogEntries
<1>2. visible = Kept(newest, shown) /\ visible \in Seq(Tweet)
  BY VisibleType DEF VisibleBelow
<1>3. DOMAIN st.tweets = 1..n /\ Range(st.tweets) = {st.tweets[i] : i \in 1..n}
  BY LogEntries DEF Range
<1>4. \A i, j \in 1..n : i < j => /\ st.tweets[i].id < st.tweets[j].id
                                  /\ st.tweets[i].createdAt <= st.tweets[j].createdAt
  <2>1. \A i, j \in 1..n : i < j => i \in 1..j
    BY <1>1
  <2> QED BY <1>3, <2>1 DEF MonotonicityLemma
<1>5. \A i \in shown : i \in 1..n /\ newest[i] \in Below(u, cursor)
  BY <1>1, <1>3 DEF Below, May
<1>6. \A t \in Below(u, cursor) : \E i \in shown : newest[i] = t
  <2> TAKE t \in Below(u, cursor)
  <2>1. PICK k \in 1..n : st.tweets[k] = t
    BY <1>3 DEF Below
  <2>2. (n - k) + 1 \in 1..n /\ (n - ((n - k) + 1)) + 1 = k
    BY <1>1
  <2>3. newest[(n - k) + 1] = t
    BY <1>1, <2>1, <2>2
  <2>4. (n - k) + 1 \in shown
    BY <1>1, <2>2, <2>3 DEF Below, May
  <2> QED BY <2>3, <2>4
<1>7. \A i, j \in 1..n : i < j => /\ newest[i].id > newest[j].id
                                  /\ newest[i].createdAt >= newest[j].createdAt
  <2> SUFFICES ASSUME NEW i \in 1..n, NEW j \in 1..n, i < j
               PROVE  newest[i].id > newest[j].id /\ newest[i].createdAt >= newest[j].createdAt
    OBVIOUS
  <2> DEFINE a == (n - i) + 1
             b == (n - j) + 1
  <2>1. a \in 1..n /\ b \in 1..n /\ b < a
    BY <1>1
  <2>2. newest[i] = st.tweets[a] /\ newest[j] = st.tweets[b]
    BY <1>1
  <2>3. /\ st.tweets[a].id \in Nat /\ st.tweets[b].id \in Nat
        /\ st.tweets[a].createdAt \in Nat /\ st.tweets[b].createdAt \in Nat
    BY <2>1, LogEntries
  <2> HIDE DEF a, b, n, newest
  <2> QED BY <1>4, <2>1, <2>2, <2>3
<1> HIDE DEF shown, newest, n
<1>8. PICK at : Selects(at, visible, newest, shown, n)
  BY <1>1, <1>2, KeptIsSelection DEF HasSelection
<1> HIDE DEF visible
<1>9. \A i \in 1..Len(visible) : at[i] \in shown /\ visible[i] = newest[at[i]] /\ at[i] \in 1..n
  BY <1>8 DEF Selects
<1>10. \A i \in 1..Len(visible) : visible[i] \in Below(u, cursor)
  BY <1>5, <1>9
<1>11. \A t \in Below(u, cursor) : \E i \in 1..Len(visible) : visible[i] = t
  <2> TAKE t \in Below(u, cursor)
  <2>1. PICK p \in shown : newest[p] = t
    BY <1>6
  <2>2. PICK i \in 1..Len(visible) : at[i] = p
    BY <1>5, <1>8, <2>1 DEF Selects
  <2> QED BY <1>9, <2>1, <2>2
<1>12. \A i, j \in 1..Len(visible) : i < j => /\ visible[i].id > visible[j].id
                                              /\ visible[i].createdAt >= visible[j].createdAt
  <2> SUFFICES ASSUME NEW i \in 1..Len(visible), NEW j \in 1..Len(visible), i < j
               PROVE  /\ visible[i].id > visible[j].id
                      /\ visible[i].createdAt >= visible[j].createdAt
    OBVIOUS
  <2>1. at[i] < at[j]
    BY <1>8 DEF Selects
  <2> QED BY <1>7, <1>9, <2>1
<1> QED BY <1>10, <1>11, <1>12 DEF visible

\* A page of a sequence: its first entries, and the id of the last when there
\* are more.
LEMMA PageBodyIs ==
    ASSUME NEW visible \in Seq(Tweet), NEW limit \in Nat \ {0}
    PROVE  \E page \in Seq(Tweet) :
              /\ PageBody(visible, limit) =
                    TimelineBody(page, IF Len(visible) > limit THEN page[limit].id ELSE Absent)
              /\ Len(page) = IF Len(visible) < limit THEN Len(visible) ELSE limit
              /\ \A i \in 1..Len(page) : page[i] = visible[i]
<1> DEFINE m == IF Len(visible) < limit THEN Len(visible) ELSE limit
           page == SubSeq(visible, 1, m)
<1>1. m \in Nat /\ m <= Len(visible) /\ Len(visible) \in Nat
  OBVIOUS
<1>2. Len(visible) > limit => m = limit
  OBVIOUS
<1>3. PageBody(visible, limit)
        = TimelineBody(page, IF Len(visible) > limit THEN Last(page).id ELSE Absent)
  BY DEF PageBody
<1> HIDE DEF m
<1>4. page \in Seq(Tweet) /\ Len(page) = m /\ \A i \in 1..m : page[i] = visible[i]
  BY <1>1
<1> HIDE DEF page
<1>5. Len(visible) > limit => Last(page) = page[limit]
  BY <1>2, <1>4 DEF Last
<1> QED BY <1>3, <1>4, <1>5 DEF m

LEMMA TimelineAnswers ==
    ASSUME NEW s \in State, NEW r
    PROVE  \/ Refusal(StepTimeline(s, r)[1])
           \/ \E limit \in 1..MaxLimit :
                 StepTimeline(s, r)[1] = PageBody(VisibleBelow(s, r.user, r.cursor), limit)
<1> DEFINE limit == IF r.limit = Absent THEN DefaultLimit ELSE r.limit
           Wrong == \/ ~ValidHandle(r.user) \/ ~Registered(s, r.user)
                    \/ limit \notin 1..MaxLimit
                    \/ r.cursor # Absent /\ r.cursor < 1
<1>1. CASE Wrong
  <2>1. \/ StepTimeline(s, r) = Reject(s, "invalid_handle")
        \/ StepTimeline(s, r) = Reject(s, "unknown_user")
        \/ StepTimeline(s, r) = Reject(s, "invalid_limit")
        \/ StepTimeline(s, r) = Reject(s, "invalid_cursor")
    BY <1>1 DEF StepTimeline
  <2>2. {"invalid_handle", "unknown_user", "invalid_limit", "invalid_cursor"}
          \subseteq ErrorCode
    BY DEF ErrorCode
  <2> QED BY <2>1, <2>2, RejectIs
<1>2. CASE ~Wrong
  <2>1. StepTimeline(s, r) = << PageBody(VisibleBelow(s, r.user, r.cursor), limit), s >>
    BY <1>2 DEF StepTimeline
  <2> QED BY <1>2, <2>1
<1> QED BY <1>1, <1>2

LEMMA PageType ==
    ASSUME NEW visible \in Seq(Tweet), NEW limit \in 1..MaxLimit
    PROVE  PageBody(visible, limit) \in Response
<1>1. limit \in Nat \ {0}
  BY WireAssumption
<1>2. PICK page \in Seq(Tweet) :
         /\ PageBody(visible, limit) =
               TimelineBody(page, IF Len(visible) > limit THEN page[limit].id ELSE Absent)
         /\ Len(page) = IF Len(visible) < limit THEN Len(visible) ELSE limit
  BY <1>1, PageBodyIs
<1>3. Len(visible) > limit => page[limit] \in Tweet
  BY <1>1, <1>2
<1>4. (IF Len(visible) > limit THEN page[limit].id ELSE Absent) \in Nat \cup {Absent}
  BY <1>3 DEF Tweet
<1> QED BY <1>2, <1>4 DEF TimelineBody, Response

LEMMA AnswerType ==
    ASSUME NEW s \in State, NEW r \in Request
    PROVE  Step(s, r)[1] \in Response
<1>1. CASE r.op = "create"
  <2>1. r.handle \in Handles => UserBody(r.handle, s.nextUserID) \in Response
    BY FieldTypes DEF UserBody, Response
  <2>2. \A n : Registers(s, n, r.handle) => r.handle \in Handles
    BY DEF Registers
  <2>3. Step(s, r) = StepCreateUser(s, r)
    BY <1>1, StepByRoute
  <2> QED BY <2>1, <2>2, <2>3, CreateMoves, RefusalType
<1>2. CASE r.op \in {"follow", "unfollow"}
  <2>1. NoContent \in Response
    BY DEF NoContent, Response
  <2> QED BY <1>2, <2>1, StepByRoute, EdgeMoves, RefusalType
<1>3. CASE r.op = "post"
  <2>1. \A t \in Tweet : TweetBody(t) \in Response
    BY DEF TweetBody, Response
  <2> QED BY <1>3, <2>1, StepByRoute, PostMoves, RefusalType DEF Posts
<1>4. CASE r.op = "tick"
  <2>1. s.clock + 1 \in Nat
    BY FieldTypes
  <2>2. ClockBody(s.clock + 1) \in Response
    BY <2>1 DEF ClockBody, Response
  <2> QED BY <1>4, <2>2, StepByRoute, TickMoves
<1>5. CASE r.op = "timeline"
  BY <1>5, StepByRoute, TimelineAnswers, RefusalType, PageType, VisibleType
<1>6. CASE r.op \in {"malformed", "unrouted"}
  <2>1. "malformed_request" \in ErrorCode /\ "not_found" \in ErrorCode
    BY DEF ErrorCode
  <2>2. Refusal(Step(s, r)[1])
    BY <1>6, <2>1, StepByRoute, RejectIs DEF Refusal
  <2> QED BY <2>2, RefusalType
<1> QED BY <1>1, <1>2, <1>3, <1>4, <1>5, <1>6, Routes

LEMMA InitTypes == Init => TypeOK
BY InitHistory DEF Init, TypeOK

LEMMA NextTypes == TypeOK /\ [Next]_vars => TypeOK'
<1> SUFFICES ASSUME TypeOK, [Next]_vars PROVE TypeOK'
  OBVIOUS
<1>1. CASE UNCHANGED vars
  BY <1>1 DEF vars, TypeOK, Nothing
<1>2. CASE Next
  <2>1. PICK r \in Requests : Submit(r)
    BY <1>2 DEF Next
  <2>2. r \in Request
    BY MachineAssumption
  <2>3. st' \in State
    BY <2>1, <2>2, StepMoves DEF Submit, TypeOK
  <2>4. last'.req = r /\ last'.resp \in Response
    BY <2>1, <2>2, AnswerType DEF Submit, TypeOK
  <2> QED BY <2>3, <2>4 DEF TypeOK
<1> QED BY <1>1, <1>2

(* The state stays a State and every answer is one of the API: Step is     *)
(* total and well typed on every request, the last of a page included      *)
(* (spec/s_obs/step.go, types.go).                                         *)
THEOREM TypeCorrect == Spec => []TypeOK
BY InitTypes, NextTypes, PTL DEF Spec

LEMMA PageStep ==
    ASSUME st \in State, MonotonicityLemma, NEW r \in Requests, Submit(r)
    PROVE  PageIsExact'
<1> SUFFICES ASSUME r.op = "timeline", last'.resp.status = 200 PROVE PageIsExact'
  BY DEF Submit, PageIsExact
<1> DEFINE u == r.user
           cursor == r.cursor
           visible == VisibleBelow(st, u, cursor)
           below == Below(u, cursor)
           page == last'.resp.page
           rest == below \ Range(page)
           n == Len(visible)
<1>1. Step(st, r) = StepTimeline(st, r) /\ st' = st /\ last'.req = r
      /\ last'.resp = StepTimeline(st, r)[1]
  BY StepByRoute, TimelineStays DEF Submit
<1>2. PICK limit \in 1..MaxLimit : last'.resp = PageBody(visible, limit)
  <2>1. ~Refusal(last'.resp)
    BY RefusalType
  <2> QED BY <1>1, <2>1, TimelineAnswers
<1>3. limit \in Nat \ {0} /\ visible \in Seq(Tweet)
  BY WireAssumption, VisibleType
<1>4. n \in Nat /\ \A i \in 1..n : visible[i] \in Tweet /\ visible[i].id \in Nat
                                   /\ visible[i].createdAt \in Nat
  <2>1. \A t \in Tweet : t.id \in Nat /\ t.createdAt \in Nat
    BY DEF Tweet
  <2>2. \A i \in 1..n : visible[i] \in Tweet
    BY <1>3
  <2> QED BY <1>3, <2>1, <2>2
<1>5. /\ \A i \in 1..n : visible[i] \in below
      /\ \A t \in below : \E i \in 1..n : visible[i] = t
      /\ \A i, j \in 1..n : i < j => /\ visible[i].id > visible[j].id
                                     /\ visible[i].createdAt >= visible[j].createdAt
  BY VisibleIsExact
<1> HIDE DEF visible, below, n
<1>6. /\ page \in Seq(Tweet)
      /\ last'.resp.next = IF n > limit THEN page[limit].id ELSE Absent
      /\ Len(page) = IF n < limit THEN n ELSE limit
      /\ \A i \in 1..Len(page) : page[i] = visible[i]
  BY <1>2, <1>3, PageBodyIs DEF TimelineBody, n
<1> HIDE DEF page
<1> DEFINE m == Len(page)
<1>7. m \in Nat /\ m <= n /\ DOMAIN page = 1..m /\ (n > limit => m = limit /\ m >= 1)
      /\ (n <= limit => m = n)
  BY <1>3, <1>4, <1>6
<1>8. Range(page) = {visible[i] : i \in 1..m}
  BY <1>6, <1>7 DEF Range
<1> HIDE DEF m
<1>9. \A i \in 1..m : i \in 1..n /\ page[i] = visible[i]
  BY <1>4, <1>6, <1>7 DEF m
<1>10. \A t \in rest : \E k \in 1..n : k > m /\ visible[k] = t
  <2> TAKE t \in rest
  <2>1. PICK k \in 1..n : visible[k] = t
    BY <1>5
  <2>2. k \notin 1..m
    BY <1>8, <2>1
  <2> QED BY <1>4, <1>7, <2>1, <2>2
<1>11. \A k \in 1..n : k > m => visible[k] \in rest
  <2> SUFFICES ASSUME NEW k \in 1..n, k > m, visible[k] \in Range(page) PROVE FALSE
    BY <1>5
  <2>1. PICK i \in 1..m : visible[i] = visible[k]
    BY <1>8
  <2>2. i \in 1..n /\ i < k
    BY <1>4, <1>7, <1>9
  <2> QED BY <1>4, <1>5, <2>1, <2>2
<1>12. Range(page) \subseteq below
  BY <1>5, <1>8, <1>9
<1>13. ASSUME NEW i \in 1..m, NEW j \in 1..m, i < j
       PROVE  \/ page[i].createdAt > page[j].createdAt
              \/ page[i].createdAt = page[j].createdAt /\ page[i].id > page[j].id
  <2>1. i \in 1..n /\ j \in 1..n /\ page[i] = visible[i] /\ page[j] = visible[j]
    BY <1>9
  <2> QED BY <1>4, <1>5, <1>13, <2>1
<1>14. ASSUME NEW t \in rest, NEW i \in 1..m PROVE t.id < page[i].id
  <2>1. PICK k \in 1..n : k > m /\ visible[k] = t
    BY <1>10
  <2>2. i \in 1..n /\ i < k /\ page[i] = visible[i]
    BY <1>7, <1>9, <2>1
  <2> QED BY <1>4, <1>5, <2>1, <2>2
<1>15. n > limit <=> rest # {}
  <2>1. n > limit => rest # {}
    <3>1. n > limit => n \in 1..n /\ n > m
      BY <1>3, <1>4, <1>7
    <3> QED BY <1>11, <3>1
  <2>2. rest # {} => n > limit
    BY <1>3, <1>4, <1>7, <1>10
  <2> QED BY <2>1, <2>2
<1>16. n > limit => /\ last'.resp.next = page[m].id /\ last'.resp.next \in Nat
  <2> SUFFICES ASSUME n > limit PROVE page[m].id \in Nat
    BY <1>6, <1>7
  <2>1. m \in 1..m
    BY <1>7
  <2> QED BY <1>4, <1>9, <2>1
<1>17. last'.resp.next = Absent <=> rest = {}
  BY <1>6, <1>15, <1>16, WireAssumption
<1>18. below = {t \in Range(st'.tweets) :
                  /\ May(u, t)' /\ (cursor # Absent => t.id < cursor)}
  BY <1>1 DEF below, Below, May
<1> QED BY <1>1, <1>7, <1>12, <1>13, <1>14, <1>15, <1>16, <1>17, <1>18
        DEF PageIsExact, Below, m, page

LEMMA InitPage == Init => PageIsExact
BY DEF Init, Nothing, PageIsExact

LEMMA NextPage ==
    st \in State /\ HistoryIsSound /\ PageIsExact /\ [Next]_vars => PageIsExact'
<1> SUFFICES ASSUME st \in State, HistoryIsSound, PageIsExact, [Next]_vars
             PROVE  PageIsExact'
  OBVIOUS
<1>1. CASE UNCHANGED vars
  BY <1>1 DEF vars, PageIsExact, May
<1>2. CASE Next
  BY <1>2, PageStep DEF Next, HistoryIsSound
<1> QED BY <1>1, <1>2

(* Whatever the history, limit and cursor, a page is strictly descending,  *)
(* holds only visible tweets below the cursor and skips none above its     *)
(* last, and next_cursor is null exactly when nothing visible remains, and *)
(* else the id of the page's last tweet (step.go:376-420; F1, F2, D10).    *)
THEOREM PageHolds == Spec => []PageIsExact
BY InitHistory, NextHistory, InitPage, NextPage, PTL DEF Spec

-----------------------------------------------------------------------------
(* The JVM core agrees with S_obs *)

\* The guard of the log accepts the tweet S_obs would append.
LEMMA GuardAccepts ==
    ASSUME st \in State, MonotonicityLemma, NEW t,
           t.id = st.nextTweetID, t.createdAt = st.clock
    PROVE  Jvm!AcceptsTweet(st.tweets, t)
<1> SUFFICES ASSUME st.tweets # << >>
             PROVE  LET latest == st.tweets[Len(st.tweets)]
                    IN  t.id > latest.id /\ t.createdAt >= latest.createdAt
  BY DEF Jvm!AcceptsTweet
<1>1. Len(st.tweets) \in DOMAIN st.tweets /\ Len(st.tweets) \in Nat
  BY FieldTypes, LogEntries
<1>2. /\ st.tweets[Len(st.tweets)].id = Len(st.tweets)
      /\ st.tweets[Len(st.tweets)].createdAt <= st.clock
      /\ st.nextTweetID = Len(st.tweets) + 1
  BY <1>1 DEF MonotonicityLemma
<1>3. st.tweets[Len(st.tweets)].createdAt \in Nat /\ st.clock \in Nat
  BY <1>1, LogEntries, FieldTypes
<1> QED BY <1>1, <1>2, <1>3

\* The scan that stops early answers with the page S_obs cuts.
LEMMA JvmPage ==
    ASSUME st \in State, NEW u, NEW cursor, NEW limit \in 1..MaxLimit
    PROVE  Jvm!timelinePage(JvmStore(st), u, limit, cursor)
             = PageBody(VisibleBelow(st, u, cursor), limit)
<1> DEFINE newest == Reverse(st.tweets)
           shown == {i \in DOMAIN newest :
                       /\ cursor # Absent => newest[i].id < cursor
                       /\ newest[i].author = u \/ <<u, newest[i].author>> \in st.follows}
           visible == VisibleBelow(st, u, cursor)
           got == ScanPage(newest, shown, limit)
           page == SubSeq(visible, 1, IF Len(visible) < limit THEN Len(visible) ELSE limit)
<1>1. JvmStore(st).log = st.tweets /\ JvmStore(st).follows = st.follows
  BY DEF JvmStore
<1>2. limit \in Nat /\ newest \in Seq(Tweet)
  BY ReverseLog
<1>3. got = Cut(visible, limit)
  BY <1>2, ScanIsCut DEF VisibleBelow
<1>4. got.page = page /\ (got.more <=> Len(visible) > limit)
  <2> HIDE DEF got, visible
  <2>1. got.page = page
    BY <1>3 DEF Cut
  <2>2. got.more <=> Len(visible) > limit
    BY <1>3 DEF Cut
  <2> QED BY <2>1, <2>2
<1>5. Jvm!timelinePage(JvmStore(st), u, limit, cursor)
        = TimelineBody(got.page, IF got.more THEN Last(got.page).id ELSE Absent)
  BY <1>1 DEF Jvm!timelinePage, Jvm!Shown, Jvm!ScanPage, Jvm!Reverse, Jvm!Last,
              Jvm!TimelineBody, ScanPage, Reverse, Last, TimelineBody
<1>6. PageBody(visible, limit)
        = TimelineBody(page, IF Len(visible) > limit THEN Last(page).id ELSE Absent)
  BY DEF PageBody
<1> HIDE DEF visible, got, page
<1> QED BY <1>4, <1>5, <1>6 DEF visible

\* What the two sides compute of a store and of a state is the same.
LEMMA JvmFields ==
    ASSUME NEW s
    PROVE  /\ JvmStore(s).users = s.users /\ JvmStore(s).follows = s.follows
           /\ JvmStore(s).log = s.tweets /\ JvmStore(s).clock = s.clock
           /\ JvmStore(s).nextUserId = s.nextUserID
           /\ JvmStore(s).nextTweetId = s.nextTweetID
           /\ \A h : Jvm!hasUser(JvmStore(s), h) <=> Registered(s, h)
BY DEF JvmStore, Jvm!hasUser, Registered

LEMMA JvmError ==
    ASSUME NEW s, NEW code
    PROVE  Jvm!error(JvmStore(s), code) = << Reject(s, code)[1], JvmStore(Reject(s, code)[2]) >>
BY DEF Jvm!error, Jvm!ErrorBody, ErrorBody, Reject

\* The same update of both, field by field.
LEMMA JvmWithUsers ==
    ASSUME NEW s \in State, NEW x
    PROVE  [JvmStore(s) EXCEPT !.users = x] = JvmStore([s EXCEPT !.users = x])
<1> DEFINE n == [s EXCEPT !.users = x]
<1>1. /\ n.users = x /\ n.follows = s.follows /\ n.tweets = s.tweets
      /\ n.clock = s.clock /\ n.nextUserID = s.nextUserID /\ n.nextTweetID = s.nextTweetID
  BY DEF State
<1> HIDE DEF n
<1>2. JvmStore(n) = [users |-> x, follows |-> s.follows, log |-> s.tweets,
             clock |-> s.clock, nextUserId |-> s.nextUserID, nextTweetId |-> s.nextTweetID]
  BY <1>1 DEF JvmStore
<1>3. [JvmStore(s) EXCEPT !.users = x]
        = [users |-> x, follows |-> s.follows, log |-> s.tweets,
             clock |-> s.clock, nextUserId |-> s.nextUserID, nextTweetId |-> s.nextTweetID]
  BY DEF JvmStore
<1> QED BY <1>2, <1>3 DEF n

LEMMA JvmWithNextUserID ==
    ASSUME NEW s \in State, NEW x
    PROVE  [JvmStore(s) EXCEPT !.nextUserId = x] = JvmStore([s EXCEPT !.nextUserID = x])
<1> DEFINE n == [s EXCEPT !.nextUserID = x]
<1>1. /\ n.users = s.users /\ n.follows = s.follows /\ n.tweets = s.tweets
      /\ n.clock = s.clock /\ n.nextUserID = x /\ n.nextTweetID = s.nextTweetID
  BY DEF State
<1> HIDE DEF n
<1>2. JvmStore(n) = [users |-> s.users, follows |-> s.follows, log |-> s.tweets,
             clock |-> s.clock, nextUserId |-> x, nextTweetId |-> s.nextTweetID]
  BY <1>1 DEF JvmStore
<1>3. [JvmStore(s) EXCEPT !.nextUserId = x]
        = [users |-> s.users, follows |-> s.follows, log |-> s.tweets,
             clock |-> s.clock, nextUserId |-> x, nextTweetId |-> s.nextTweetID]
  BY DEF JvmStore
<1> QED BY <1>2, <1>3 DEF n

LEMMA JvmWithFollows ==
    ASSUME NEW s \in State, NEW x
    PROVE  [JvmStore(s) EXCEPT !.follows = x] = JvmStore([s EXCEPT !.follows = x])
<1> DEFINE n == [s EXCEPT !.follows = x]
<1>1. /\ n.users = s.users /\ n.follows = x /\ n.tweets = s.tweets
      /\ n.clock = s.clock /\ n.nextUserID = s.nextUserID /\ n.nextTweetID = s.nextTweetID
  BY DEF State
<1> HIDE DEF n
<1>2. JvmStore(n) = [users |-> s.users, follows |-> x, log |-> s.tweets,
             clock |-> s.clock, nextUserId |-> s.nextUserID, nextTweetId |-> s.nextTweetID]
  BY <1>1 DEF JvmStore
<1>3. [JvmStore(s) EXCEPT !.follows = x]
        = [users |-> s.users, follows |-> x, log |-> s.tweets,
             clock |-> s.clock, nextUserId |-> s.nextUserID, nextTweetId |-> s.nextTweetID]
  BY DEF JvmStore
<1> QED BY <1>2, <1>3 DEF n

LEMMA JvmWithTweets ==
    ASSUME NEW s \in State, NEW x
    PROVE  [JvmStore(s) EXCEPT !.log = x] = JvmStore([s EXCEPT !.tweets = x])
<1> DEFINE n == [s EXCEPT !.tweets = x]
<1>1. /\ n.users = s.users /\ n.follows = s.follows /\ n.tweets = x
      /\ n.clock = s.clock /\ n.nextUserID = s.nextUserID /\ n.nextTweetID = s.nextTweetID
  BY DEF State
<1> HIDE DEF n
<1>2. JvmStore(n) = [users |-> s.users, follows |-> s.follows, log |-> x,
             clock |-> s.clock, nextUserId |-> s.nextUserID, nextTweetId |-> s.nextTweetID]
  BY <1>1 DEF JvmStore
<1>3. [JvmStore(s) EXCEPT !.log = x]
        = [users |-> s.users, follows |-> s.follows, log |-> x,
             clock |-> s.clock, nextUserId |-> s.nextUserID, nextTweetId |-> s.nextTweetID]
  BY DEF JvmStore
<1> QED BY <1>2, <1>3 DEF n

LEMMA JvmWithNextTweetID ==
    ASSUME NEW s \in State, NEW x
    PROVE  [JvmStore(s) EXCEPT !.nextTweetId = x] = JvmStore([s EXCEPT !.nextTweetID = x])
<1> DEFINE n == [s EXCEPT !.nextTweetID = x]
<1>1. /\ n.users = s.users /\ n.follows = s.follows /\ n.tweets = s.tweets
      /\ n.clock = s.clock /\ n.nextUserID = s.nextUserID /\ n.nextTweetID = x
  BY DEF State
<1> HIDE DEF n
<1>2. JvmStore(n) = [users |-> s.users, follows |-> s.follows, log |-> s.tweets,
             clock |-> s.clock, nextUserId |-> s.nextUserID, nextTweetId |-> x]
  BY <1>1 DEF JvmStore
<1>3. [JvmStore(s) EXCEPT !.nextTweetId = x]
        = [users |-> s.users, follows |-> s.follows, log |-> s.tweets,
             clock |-> s.clock, nextUserId |-> s.nextUserID, nextTweetId |-> x]
  BY DEF JvmStore
<1> QED BY <1>2, <1>3 DEF n

LEMMA JvmWithClock ==
    ASSUME NEW s \in State, NEW x
    PROVE  [JvmStore(s) EXCEPT !.clock = x] = JvmStore([s EXCEPT !.clock = x])
<1> DEFINE n == [s EXCEPT !.clock = x]
<1>1. /\ n.users = s.users /\ n.follows = s.follows /\ n.tweets = s.tweets
      /\ n.clock = x /\ n.nextUserID = s.nextUserID /\ n.nextTweetID = s.nextTweetID
  BY DEF State
<1> HIDE DEF n
<1>2. JvmStore(n) = [users |-> s.users, follows |-> s.follows, log |-> s.tweets,
             clock |-> x, nextUserId |-> s.nextUserID, nextTweetId |-> s.nextTweetID]
  BY <1>1 DEF JvmStore
<1>3. [JvmStore(s) EXCEPT !.clock = x]
        = [users |-> s.users, follows |-> s.follows, log |-> s.tweets,
             clock |-> x, nextUserId |-> s.nextUserID, nextTweetId |-> s.nextTweetID]
  BY DEF JvmStore
<1> QED BY <1>2, <1>3 DEF n

Agree(here, there) == here = << there[1], JvmStore(there[2]) >>

LEMMA CreateAgrees ==
    ASSUME st \in State, NEW r
    PROVE  Agree(Jvm!createUser(JvmStore(st), r.handle), StepCreateUser(st, r))
<1> DEFINE n == [st EXCEPT !.users = [@ EXCEPT ![r.handle] = st.nextUserID],
                           !.nextUserID = @ + 1]
           k == [JvmStore(st) EXCEPT !.users = [@ EXCEPT ![r.handle] = JvmStore(st).nextUserId],
                                     !.nextUserId = @ + 1]
<1>1. CASE r.handle \notin Handles \/ Registered(st, r.handle)
  BY <1>1, JvmFields, JvmError DEF Agree, Jvm!createUser, StepCreateUser, ValidHandle
<1>2. CASE r.handle \in Handles /\ ~Registered(st, r.handle)
  <2>1. k = JvmStore(n)
    <3> DEFINE x == [st.users EXCEPT ![r.handle] = st.nextUserID]
               i == st.nextUserID + 1
               m == [st EXCEPT !.users = x]
               j == [JvmStore(st) EXCEPT !.users = x]
    <3>1. k = [j EXCEPT !.nextUserId = i]
      BY JvmFields
    <3>2. n = [m EXCEPT !.nextUserID = i]
      OBVIOUS
    <3>3. x \in [Handles -> Nat]
      BY <1>2, FieldTypes
    <3> HIDE DEF n, k, x, i
    <3>4. m \in State
      BY <3>3 DEF State
    <3>5. j = JvmStore(m)
      BY JvmWithUsers
    <3> HIDE DEF m, j
    <3> QED BY <3>1, <3>2, <3>4, <3>5, JvmWithNextUserID
  <2>2. StepCreateUser(st, r) = << UserBody(r.handle, st.nextUserID), n >>
    BY <1>2 DEF StepCreateUser, ValidHandle
  <2>3. Jvm!createUser(JvmStore(st), r.handle) = << UserBody(r.handle, st.nextUserID), k >>
    BY <1>2, JvmFields DEF Jvm!createUser, Jvm!UserBody, UserBody
  <2> HIDE DEF n, k
  <2> QED BY <2>1, <2>2, <2>3 DEF Agree
<1> QED BY <1>1, <1>2

LEMMA EdgeAgrees ==
    ASSUME st \in State, NEW r
    PROVE  /\ Agree(Jvm!follow(JvmStore(st), r.from, r.to), StepFollow(st, r))
           /\ Agree(Jvm!unfollow(JvmStore(st), r.from, r.to), StepUnfollow(st, r))
<1> DEFINE e == <<r.from, r.to>>
           code == Jvm!edgeError(JvmStore(st), r.from, r.to)
<1>1. code = IF ~ValidHandle(r.from) \/ ~ValidHandle(r.to) THEN "invalid_handle"
             ELSE IF ~Registered(st, r.from) \/ ~Registered(st, r.to) THEN "unknown_user"
             ELSE ""
  BY JvmFields DEF Jvm!edgeError, ValidHandle
<1>2. CASE code # ""
  <2>1. StepFollow(st, r) = Reject(st, code) /\ StepUnfollow(st, r) = Reject(st, code)
    BY <1>1, <1>2 DEF StepFollow, StepUnfollow
  <2>2. /\ Jvm!follow(JvmStore(st), r.from, r.to) = Jvm!error(JvmStore(st), code)
        /\ Jvm!unfollow(JvmStore(st), r.from, r.to) = Jvm!error(JvmStore(st), code)
    BY <1>2 DEF Jvm!follow, Jvm!unfollow
  <2> HIDE DEF code
  <2> QED BY <2>1, <2>2, JvmError DEF Agree
<1>3. CASE code = ""
  <2> DEFINE more == [st EXCEPT !.follows = st.follows \cup {e}]
             less == [st EXCEPT !.follows = st.follows \ {e}]
  <2>1. StepUnfollow(st, r) = << NoContent, less >>
    BY <1>1, <1>3 DEF StepUnfollow
  <2>2. StepFollow(st, r) = IF r.from = r.to THEN Reject(st, "self_follow_forbidden")
                            ELSE << NoContent, more >>
    BY <1>1, <1>3 DEF StepFollow
  <2>3. /\ [JvmStore(st) EXCEPT !.follows = @ \cup {e}] = JvmStore(more)
        /\ [JvmStore(st) EXCEPT !.follows = @ \ {e}] = JvmStore(less)
    <3> DEFINE added == st.follows \cup {e}
               removed == st.follows \ {e}
    <3>1. JvmStore(st).follows = st.follows
      BY JvmFields
    <3>2. /\ [JvmStore(st) EXCEPT !.follows = @ \cup {e}] = [JvmStore(st) EXCEPT !.follows = added]
          /\ [JvmStore(st) EXCEPT !.follows = @ \ {e}] = [JvmStore(st) EXCEPT !.follows = removed]
      BY <3>1
    <3> HIDE DEF added, removed
    <3>3. /\ [JvmStore(st) EXCEPT !.follows = added] = JvmStore([st EXCEPT !.follows = added])
          /\ [JvmStore(st) EXCEPT !.follows = removed] = JvmStore([st EXCEPT !.follows = removed])
      BY JvmWithFollows
    <3> QED BY <3>2, <3>3 DEF added, removed
  <2>4. Jvm!unfollow(JvmStore(st), r.from, r.to) = << NoContent, JvmStore(less) >>
    BY <1>3, <2>3 DEF Jvm!unfollow, Jvm!NoContent, NoContent
  <2>5. Jvm!follow(JvmStore(st), r.from, r.to)
          = IF r.from = r.to THEN Jvm!error(JvmStore(st), "self_follow_forbidden")
            ELSE << NoContent, JvmStore(more) >>
    BY <1>3, <2>3 DEF Jvm!follow, Jvm!NoContent, NoContent
  <2> HIDE DEF more, less
  <2> QED BY <2>1, <2>2, <2>4, <2>5, JvmError DEF Agree
<1> QED BY <1>2, <1>3

LEMMA PostAgrees ==
    ASSUME st \in State, MonotonicityLemma, NEW r
    PROVE  Agree(Jvm!postTweet(JvmStore(st), r.author, r.text), StepPostTweet(st, r))
<1> DEFINE t == [id |-> st.nextTweetID, author |-> r.author,
                 text |-> r.text, createdAt |-> st.clock]
           Wrong == \/ ~ValidHandle(r.author) \/ ~ValidText(r.text)
                    \/ ~Registered(st, r.author)
<1>1. CASE Wrong
  <2>1. PICK code :
          /\ StepPostTweet(st, r) = Reject(st, code)
          /\ Jvm!postTweet(JvmStore(st), r.author, r.text) = Jvm!error(JvmStore(st), code)
    BY <1>1, JvmFields DEF StepPostTweet, Jvm!postTweet, ValidHandle, ValidText
  <2> QED BY <2>1, JvmError DEF Agree
<1>2. CASE ~Wrong
  <2> DEFINE q == Append(st.tweets, t)
             i == st.nextTweetID + 1
             m == [st EXCEPT !.tweets = q]
             j == [JvmStore(st) EXCEPT !.log = q]
             n == [st EXCEPT !.tweets = q, !.nextTweetID = i]
             k == [JvmStore(st) EXCEPT !.log = q, !.nextTweetId = i]
  <2>1. t \in Tweet
    BY <1>2, FieldTypes DEF ValidHandle, ValidText, Tweet
  <2>2. StepPostTweet(st, r) = << TweetBody(t), n >>
    BY <1>2 DEF StepPostTweet
  <2>3. Jvm!AcceptsTweet(st.tweets, t)
    BY GuardAccepts
  <2>4. Jvm!postTweet(JvmStore(st), r.author, r.text)
          = Jvm!appendTweet(JvmStore(st), r.author, r.text)
    BY <1>2, JvmFields DEF Jvm!postTweet, ValidHandle, ValidText
  <2>5. Jvm!appendTweet(JvmStore(st), r.author, r.text) = << TweetBody(t), k >>
    BY <2>3, JvmFields DEF Jvm!appendTweet, Jvm!TweetBody, TweetBody
  <2>6. k = JvmStore(n)
    <3>1. k = [j EXCEPT !.nextTweetId = i] /\ n = [m EXCEPT !.nextTweetID = i]
      OBVIOUS
    <3>2. q \in Seq(Tweet)
      BY <2>1, FieldTypes
    <3> HIDE DEF n, k, q, i
    <3>3. m \in State
      BY <3>2 DEF State
    <3>4. j = JvmStore(m)
      BY JvmWithTweets
    <3> HIDE DEF m, j
    <3> QED BY <3>1, <3>3, <3>4, JvmWithNextTweetID
  <2> HIDE DEF t, n, k
  <2> QED BY <2>2, <2>4, <2>5, <2>6 DEF Agree
<1> QED BY <1>1, <1>2

LEMMA TickAgrees ==
    ASSUME st \in State
    PROVE  Agree(Jvm!tick(JvmStore(st)), StepTick(st))
<1> DEFINE n == [st EXCEPT !.clock = st.clock + 1]
<1>1. [JvmStore(st) EXCEPT !.clock = @ + 1] = JvmStore(n)
  <2> DEFINE x == st.clock + 1
  <2>1. [JvmStore(st) EXCEPT !.clock = @ + 1] = [JvmStore(st) EXCEPT !.clock = x]
    BY JvmFields
  <2> HIDE DEF x
  <2>2. [JvmStore(st) EXCEPT !.clock = x] = JvmStore([st EXCEPT !.clock = x])
    BY JvmWithClock
  <2> QED BY <2>1, <2>2 DEF x
<1>2. Jvm!tick(JvmStore(st)) = << ClockBody(st.clock + 1), JvmStore(n) >>
  BY <1>1, JvmFields DEF Jvm!tick, Jvm!ClockBody, ClockBody
<1>3. StepTick(st) = << ClockBody(st.clock + 1), n >>
  BY DEF StepTick
<1> HIDE DEF n
<1> QED BY <1>2, <1>3 DEF Agree

LEMMA TimelineAgrees ==
    ASSUME st \in State, NEW r
    PROVE  Agree(Jvm!timeline(JvmStore(st), r.user, r.limit, r.cursor), StepTimeline(st, r))
<1> DEFINE limit == IF r.limit = Absent THEN DefaultLimit ELSE r.limit
           Wrong == \/ ~ValidHandle(r.user) \/ ~Registered(st, r.user)
                    \/ limit \notin 1..MaxLimit
                    \/ r.cursor # Absent /\ r.cursor < 1
           here == Jvm!timeline(JvmStore(st), r.user, r.limit, r.cursor)
<1>1. CASE Wrong
  <2>1. PICK code : /\ StepTimeline(st, r) = Reject(st, code)
                    /\ here = Jvm!error(JvmStore(st), code)
    BY <1>1, JvmFields DEF StepTimeline, Jvm!timeline, ValidHandle
  <2> QED BY <2>1, JvmError DEF Agree
<1>2. CASE ~Wrong
  <2>1. StepTimeline(st, r) = << PageBody(VisibleBelow(st, r.user, r.cursor), limit), st >>
    BY <1>2 DEF StepTimeline
  <2>2. here = << Jvm!timelinePage(JvmStore(st), r.user, limit, r.cursor), JvmStore(st) >>
    BY <1>2, JvmFields DEF Jvm!timeline, ValidHandle
  <2>3. limit \in 1..MaxLimit
    BY <1>2
  <2> HIDE DEF limit, here
  <2> QED BY <2>1, <2>2, <2>3, JvmPage DEF Agree, here
<1> QED BY <1>1, <1>2

LEMMA RouteAgrees ==
    ASSUME st \in State, MonotonicityLemma, NEW r \in Request
    PROVE  Agree(Jvm!route(JvmStore(st), r), Step(st, r))
<1>1. CASE r.op = "create"
  BY <1>1, StepByRoute, CreateAgrees DEF Jvm!route
<1>2. CASE r.op = "follow"
  BY <1>2, StepByRoute, EdgeAgrees DEF Jvm!route
<1>3. CASE r.op = "unfollow"
  BY <1>3, StepByRoute, EdgeAgrees DEF Jvm!route
<1>4. CASE r.op = "post"
  BY <1>4, StepByRoute, PostAgrees DEF Jvm!route
<1>5. CASE r.op = "tick"
  BY <1>5, StepByRoute, TickAgrees DEF Jvm!route
<1>6. CASE r.op = "timeline"
  BY <1>6, StepByRoute, TimelineAgrees DEF Jvm!route
<1>7. CASE r.op = "malformed"
  BY <1>7, StepByRoute, JvmError DEF Jvm!route, Agree
<1>8. CASE r.op = "unrouted"
  BY <1>8, StepByRoute DEF Jvm!route, Jvm!ErrorBody, ErrorBody, Agree
<1> QED BY <1>1, <1>2, <1>3, <1>4, <1>5, <1>6, <1>7, <1>8, Routes

LEMMA HistoryAgrees == st \in State /\ HistoryIsSound => JvmAgrees
<1> SUFFICES ASSUME st \in State, HistoryIsSound, NEW r \in Requests
             PROVE  Jvm!route(JvmStore(st), r) = << Step(st, r)[1], JvmStore(Step(st, r)[2]) >>
  BY DEF JvmAgrees
<1>1. r \in Request
  BY MachineAssumption
<1> QED BY <1>1, RouteAgrees DEF Agree, HistoryIsSound

(* After any sequence of requests the Java and Kotlin core answers the     *)
(* next one as S_obs does and leaves the store S_obs leaves: no post is    *)
(* refused by the guard of the log, and the page cut by the scan that      *)
(* stops early is the page S_obs cuts from the whole timeline (Service,    *)
(* Store and Server.route against step.go).                                *)
THEOREM JvmAgreesAlways == Spec => []JvmAgrees
BY InitHistory, NextHistory, HistoryAgrees, PTL DEF Spec
=============================================================================
