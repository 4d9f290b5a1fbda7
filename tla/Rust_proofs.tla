----------------------------- MODULE Rust_proofs -----------------------------
(***************************************************************************)
(* Proofs about the Rust corner (RustService, RustRefinement), for any     *)
(* sets of clients, handles, texts and requests.                           *)
(*                                                                         *)
(* No lock spans two calls here, so nothing says that the id in hand is    *)
(* the next one: what holds is that ids are never shared, that stamps and  *)
(* ids lie behind their generators, and that lookups made earlier still    *)
(* hold.  From it follow the oracle of finding F018 for accepted writes,   *)
(* and that only an overtaken post is ever refused with 500.  Each action  *)
(* changes the control of one client and little of the store; the lemmas   *)
(* QuietStep and the five named after the steps that draw an id or write a *)
(* record carry the invariant over it.                                     *)
(*                                                                         *)
(* The corner implements the design model with late stamps once the tweets *)
(* are numbered by their places in the log: what orders the stamps is the  *)
(* guard of the log, and what keeps them behind the clock is that          *)
(* invariant.  And each answer is the one S_obs gives with the id and the  *)
(* stamp its request drew, up to the two answers that depart.              *)
(*                                                                         *)
(* The operator (RustAdmin) is followed part by part, by what a snapshot   *)
(* or a load comes to if the rest is read, or written, next.               *)
(***************************************************************************)
EXTENDS RustRefinement, RustAdmin, Pages_proofs

-----------------------------------------------------------------------------
(* The parts of TypeOK *)

Shared ==
    /\ users \in [Handles -> Nat]
    /\ follows \subseteq Edge
    /\ tweets \in Seq(Tweet)
    /\ user_ids \in Nat
    /\ tweet_ids \in Nat
    /\ clk \in Nat

Tables ==
    /\ pc \in [Clients -> Labels]
    /\ req \in [Clients -> Requests \cup {NoRequest}]
    /\ tmp \in [Clients -> [id : Nat, createdAt : Nat]]
    /\ DOMAIN resp = Clients

InItsRoute(c) ==
    /\ RunsItsRoute(c)
    /\ pc[c] = "reply" <=> resp[c].status # 0

\* What a step of client c leaves alone.
OthersKeep(c) ==
    \A d \in Clients : d # c => /\ pc'[d] = pc[d]
                                /\ req'[d] = req[d]
                                /\ tmp'[d] = tmp[d]
                                /\ resp'[d] = resp[d]

LocalsOnly(c) ==
    /\ req' \in [Clients -> Requests \cup {NoRequest}]
    /\ tmp' \in [Clients -> [id : Nat, createdAt : Nat]]
    /\ \A d \in Clients : d # c => req'[d] = req[d] /\ tmp'[d] = tmp[d]

LEMMA TypeParts == TypeOK <=> Shared /\ Tables /\ \A c \in Clients : InItsRoute(c)
BY DEF TypeOK, Tables, Shared, InItsRoute

LEMMA TypeStep ==
    ASSUME TypeOK, NEW c \in Clients, OthersKeep(c), Tables', Shared', InItsRoute(c)'
    PROVE  TypeOK'
<1>1. ASSUME NEW d \in Clients PROVE InItsRoute(d)'
  <2>1. CASE d = c
    BY <2>1
  <2>2. CASE d # c
    <3>1. InItsRoute(d)
      BY TypeParts
    <3> QED BY <2>2, <3>1 DEF OthersKeep, InItsRoute, RunsItsRoute
  <2> QED BY <2>1, <2>2
<1> QED BY <1>1 DEF TypeOK, Tables, Shared, InItsRoute

LEMMA GotoFrame ==
    ASSUME TypeOK, NEW c \in Clients, NEW l \in Labels, Goto(c, l), LocalsOnly(c)
    PROVE  OthersKeep(c) /\ Tables' /\ pc'[c] = l /\ resp'[c] = resp[c]
BY DEF TypeOK, Goto, OthersKeep, Tables, LocalsOnly

LEMMA AnswerFrame ==
    ASSUME TypeOK, NEW c \in Clients, NEW a, Answer(c, a), LocalsOnly(c)
    PROVE  OthersKeep(c) /\ Tables' /\ pc'[c] = "reply" /\ resp'[c] = a
BY DEF TypeOK, Answer, OthersKeep, Tables, LocalsOnly, Labels

\* A call inside a handler either moves to a label of the same route ...
LEMMA RouteTypes ==
    ASSUME TypeOK, NEW c \in Clients, NEW from \in Labels, NEW to \in Labels, At(c, from),
           \/ from \in CreateLabels /\ to \in CreateLabels
           \/ from \in PostLabels /\ to \in PostLabels
           \/ from \in TickLabels /\ to \in TickLabels
           \/ from \in TimelineLabels /\ to \in TimelineLabels
           \/ from \in EdgeLabels /\ to = "edge.to"
           \/ from \in EdgeLabels /\ to = "follow.put" /\ req[c].op = "follow"
                                  /\ req[c].from # req[c].to
           \/ from \in EdgeLabels /\ to = "unfollow.delete" /\ req[c].op = "unfollow",
           Goto(c, to), LocalsOnly(c), req'[c] = req[c], Shared'
    PROVE  TypeOK'
<1>1. OthersKeep(c) /\ Tables' /\ pc'[c] = to /\ resp'[c] = resp[c]
  BY GotoFrame
<1>2. pc[c] = from /\ InItsRoute(c)
  BY TypeParts DEF At
<1>3. InItsRoute(c)'
  BY <1>1, <1>2 DEF InItsRoute, RunsItsRoute, CreateLabels, PostLabels, EdgeLabels, TickLabels,
                    TimelineLabels
<1> QED BY <1>1, <1>3, TypeStep

\* ... or decides the answer.
LEMMA AnswerTypes ==
    ASSUME TypeOK, NEW c \in Clients, NEW a, a.status # 0, Answer(c, a), LocalsOnly(c), Shared'
    PROVE  TypeOK'
<1>1. OthersKeep(c) /\ Tables' /\ pc'[c] = "reply" /\ resp'[c] = a
  BY AnswerFrame
<1>2. InItsRoute(c)'
  BY <1>1 DEF InItsRoute, RunsItsRoute, CreateLabels, PostLabels, EdgeLabels,
              TickLabels, TimelineLabels
<1> QED BY <1>1, <1>2, TypeStep

LEMMA LocalsKept ==
    ASSUME TypeOK, NEW c \in Clients, UNCHANGED <<req, tmp>>
    PROVE  LocalsOnly(c)
BY DEF TypeOK, LocalsOnly

LEMMA StoringLocals ==
    ASSUME TypeOK, NEW c \in Clients, NEW n \in Nat, req' = req,
           \/ tmp' = [tmp EXCEPT ![c].id = n]
           \/ tmp' = [tmp EXCEPT ![c].createdAt = n]
    PROVE  LocalsOnly(c)
<1>1. tmp[c] \in [id : Nat, createdAt : Nat]
  BY DEF TypeOK
<1>2. /\ [tmp[c] EXCEPT !.id = n] \in [id : Nat, createdAt : Nat]
      /\ [tmp[c] EXCEPT !.createdAt = n] \in [id : Nat, createdAt : Nat]
  BY <1>1
<1> QED BY <1>2 DEF TypeOK, LocalsOnly

LEMMA MapErrStatus == \A code : map_err(code).status \in {400, 409, 500}
BY DEF map_err, ErrorBody

\* Only an append the log refuses is an internal error.
LEMMA MapErrInternal ==
    \A code : code # "non_monotonic_append" => map_err(code).status \in {400, 409}
BY DEF map_err, ErrorBody

-----------------------------------------------------------------------------
(* Every action keeps the types *)

LEMMA CallTypes ==
    ASSUME TypeOK, NEW c \in Clients, NEW r \in Requests, Call(c, r)
    PROVE  TypeOK'
<1>1. LocalsOnly(c) /\ req'[c] = r
  BY DEF Call, TypeOK, LocalsOnly
<1>2. Shared'
  BY DEF Call, TypeOK, Shared, store
<1>3. CASE SyntaxError(r) = ""
  <2>1. r \in Request
    BY ServiceAssumption
  <2>2. FirstCall(r) \in Labels \ {"reply"}
    BY <1>3, <2>1 DEF FirstCall, SyntaxError, Labels, CreateLabels, PostLabels, EdgeLabels,
       TickLabels, TimelineLabels, Request, CreateRequest, EdgeRequest, PostRequest,
       TickRequest, TimelineRequest, OtherRequest
  <2>3. OthersKeep(c) /\ Tables' /\ pc'[c] = FirstCall(r) /\ resp'[c] = resp[c]
    BY <1>1, <1>3, <2>2, GotoFrame DEF Call
  <2>4. RunsItsRoute(c)'
    BY <1>1, <1>3, <2>1, <2>3 DEF RunsItsRoute, FirstCall, SyntaxError, CreateLabels,
       PostLabels, EdgeLabels, TickLabels, TimelineLabels, Request, CreateRequest,
       EdgeRequest, PostRequest, TickRequest, TimelineRequest, OtherRequest
  <2>5. InItsRoute(c)'
    BY <2>2, <2>3, <2>4, TypeParts DEF InItsRoute, Call, At
  <2> QED BY <1>2, <2>3, <2>5, TypeStep
<1>4. CASE SyntaxError(r) # ""
  <2> DEFINE a == ErrorBody(IF r.op = "unrouted" THEN 404 ELSE 400, SyntaxError(r))
  <2>1. Answer(c, a)
    BY <1>4 DEF Call
  <2>2. a.status # 0
    BY DEF ErrorBody
  <2> HIDE DEF a
  <2> QED BY <1>1, <1>2, <2>1, <2>2, AnswerTypes
<1> QED BY <1>3, <1>4

LEMMA ReplyTypes == ASSUME TypeOK, NEW c \in Clients, Reply(c) PROVE TypeOK'
<1>1. OthersKeep(c) /\ Tables' /\ pc'[c] = "idle" /\ resp'[c] = NoReply
  BY DEF Reply, TypeOK, OthersKeep, Tables, NoLocals, Labels
<1>2. Shared'
  BY DEF Reply, TypeOK, Shared, store
<1>3. InItsRoute(c)'
  BY <1>1 DEF InItsRoute, RunsItsRoute, NoReply, CreateLabels, PostLabels, EdgeLabels,
              TickLabels, TimelineLabels
<1> QED BY <1>1, <1>2, <1>3, TypeStep

LEMMA CreateTypes ==
    ASSUME TypeOK, NEW c \in Clients, create_has_user(c) \/ create_next_id(c) \/ put_user(c)
    PROVE  TypeOK'
<1> USE DEF Labels, CreateLabels
<1>1. Shared'
  <2>1. tmp[c].id \in Nat
    BY DEF TypeOK
  <2>2. create_has_user(c) \/ create_next_id(c) => Shared'
    BY DEF create_has_user, create_next_id, TypeOK, Shared, store
  <2>3. put_user(c) => Shared'
    BY <2>1 DEF put_user, TypeOK, Shared
  <2> QED BY <2>2, <2>3
<1>2. LocalsOnly(c) /\ req'[c] = req[c]
  <2>1. user_ids + 1 \in Nat
    BY DEF TypeOK
  <2>2. create_next_id(c) => LocalsOnly(c) /\ req'[c] = req[c]
    BY <2>1, StoringLocals DEF create_next_id
  <2>3. create_has_user(c) \/ put_user(c) => LocalsOnly(c) /\ req'[c] = req[c]
    BY LocalsKept DEF create_has_user, put_user
  <2> QED BY <2>2, <2>3
<1>3. CASE create_has_user(c)
  BY <1>1, <1>2, <1>3, RouteTypes, AnswerTypes, MapErrStatus DEF create_has_user
<1>4. CASE create_next_id(c)
  BY <1>1, <1>2, <1>4, RouteTypes DEF create_next_id
<1>5. CASE put_user(c)
  <2>1. UserBody(req[c].handle, tmp[c].id).status # 0
    BY DEF UserBody
  <2> QED BY <1>1, <1>2, <1>5, <2>1, AnswerTypes, MapErrStatus DEF put_user
<1> QED BY <1>3, <1>4, <1>5

LEMMA PostTypes ==
    ASSUME TypeOK, NEW c \in Clients,
           post_has_user(c) \/ post_next_id(c) \/ post_now(c) \/ put_tweet(c)
    PROVE  TypeOK'
<1> USE DEF Labels, PostLabels
<1>1. LocalsOnly(c) /\ req'[c] = req[c]
  <2>1. tweet_ids + 1 \in Nat /\ clk \in Nat
    BY DEF TypeOK
  <2>2. post_next_id(c) \/ post_now(c) => LocalsOnly(c) /\ req'[c] = req[c]
    BY <2>1, StoringLocals DEF post_next_id, post_now
  <2>3. post_has_user(c) \/ put_tweet(c) => LocalsOnly(c) /\ req'[c] = req[c]
    BY LocalsKept DEF post_has_user, put_tweet
  <2> QED BY <2>2, <2>3
<1>2. CASE post_has_user(c)
  <2>1. Shared'
    BY <1>2 DEF post_has_user, TypeOK, Shared, store
  <2> QED BY <1>1, <1>2, <2>1, RouteTypes, AnswerTypes, MapErrStatus DEF post_has_user
<1>3. CASE post_next_id(c)
  <2>1. Shared'
    BY <1>3 DEF post_next_id, TypeOK, Shared, store
  <2> QED BY <1>1, <1>3, <2>1, RouteTypes DEF post_next_id
<1>4. CASE post_now(c)
  <2>1. Shared'
    BY <1>4 DEF post_now, TypeOK, Shared, store
  <2> QED BY <1>1, <1>4, <2>1, RouteTypes DEF post_now
<1>5. CASE put_tweet(c)
  <2>1. NewTweet(c) \in Tweet
    BY <1>5, TypeParts DEF put_tweet, At, NewTweet, Tweet, Tables, InItsRoute, RunsItsRoute
  <2>2. \/ Answer(c, TweetBody(NewTweet(c))) /\ tweets' = Append(tweets, NewTweet(c))
        \/ \E code : Answer(c, map_err(code)) /\ tweets' = tweets
    BY <1>5 DEF put_tweet
  <2>3. tweets' \in Seq(Tweet)
    <3>1. tweets \in Seq(Tweet) /\ Append(tweets, NewTweet(c)) \in Seq(Tweet)
      <4> HIDE DEF Labels, PostLabels
      <4> QED BY <2>1 DEF TypeOK
    <3> QED BY <2>2, <3>1
  <2>4. Shared'
    BY <1>5, <2>3 DEF put_tweet, TypeOK, Shared
  <2>5. TweetBody(NewTweet(c)).status # 0
    BY DEF TweetBody
  <2> QED BY <1>1, <2>2, <2>4, <2>5, AnswerTypes, MapErrStatus
<1> QED BY <1>2, <1>3, <1>4, <1>5

\* The edge a client names is one of two registered, hence well-formed, handles
\* by the time it reaches the store: delete_follow needs nothing of it.
LEMMA EdgeTypes ==
    ASSUME TypeOK, NEW c \in Clients,
           edge_has_from(c) \/ edge_has_to(c) \/ put_follow(c) \/ delete_follow(c)
    PROVE  TypeOK'
<1> USE DEF Labels, EdgeLabels
<1>1. LocalsOnly(c) /\ req'[c] = req[c]
  BY LocalsKept DEF edge_has_from, edge_has_to, put_follow, delete_follow
<1>2. RunsItsRoute(c)
  BY TypeParts DEF InItsRoute
<1>3. Shared'
  BY <1>2 DEF edge_has_from, edge_has_to, put_follow, delete_follow, TypeOK, Shared, store,
              Edge, has_user
<1>4. CASE edge_has_from(c)
  BY <1>1, <1>3, <1>4, RouteTypes, AnswerTypes, MapErrStatus DEF edge_has_from
<1>5. CASE edge_has_to(c)
  <2>1. \/ \E code : Answer(c, map_err(code))
        \/ Goto(c, "unfollow.delete") /\ req[c].op = "unfollow"
        \/ Goto(c, "follow.put") /\ req[c].op = "follow" /\ req[c].from # req[c].to
    BY <1>2, <1>5 DEF edge_has_to, At, RunsItsRoute
  <2>2. At(c, "edge.to")
    BY <1>5 DEF edge_has_to
  <2> QED BY <1>1, <1>3, <2>1, <2>2, RouteTypes, AnswerTypes, MapErrStatus
<1>6. CASE put_follow(c) \/ delete_follow(c)
  <2>1. NoContent.status # 0
    BY DEF NoContent
  <2> QED BY <1>1, <1>3, <1>6, <2>1, AnswerTypes, MapErrStatus DEF put_follow, delete_follow
<1> QED BY <1>4, <1>5, <1>6

LEMMA ReadTypes ==
    ASSUME TypeOK, NEW c \in Clients,
           tick(c) \/ tick_now(c) \/ timeline_has_user(c) \/ home_timeline(c)
    PROVE  TypeOK'
<1> USE DEF Labels, TickLabels, TimelineLabels
<1>1. LocalsOnly(c) /\ req'[c] = req[c]
  BY LocalsKept DEF tick, tick_now, timeline_has_user, home_timeline
<1>2. Shared'
  BY DEF tick, tick_now, timeline_has_user, home_timeline, TypeOK, Shared, store
<1>3. CASE tick(c)
  BY <1>1, <1>2, <1>3, RouteTypes DEF tick
<1>4. CASE tick_now(c)
  BY <1>1, <1>2, <1>4, AnswerTypes DEF tick_now, ClockBody
<1>5. CASE timeline_has_user(c)
  BY <1>1, <1>2, <1>5, RouteTypes, AnswerTypes, MapErrStatus DEF timeline_has_user
<1>6. CASE home_timeline(c)
  <2>1. \E page, next : Answer(c, TimelineBody(page, next))
    BY <1>6 DEF home_timeline
  <2>2. \A page, next : TimelineBody(page, next).status # 0
    BY DEF TimelineBody
  <2> QED BY <1>1, <1>2, <2>1, <2>2, AnswerTypes
<1> QED BY <1>3, <1>4, <1>5, <1>6

LEMMA InitTypes == Init => TypeOK
BY DEF Init, TypeOK, NoLocals, NoReply, Labels, RunsItsRoute, CreateLabels, PostLabels,
       EdgeLabels, TickLabels, TimelineLabels

LEMMA NextTypes == TypeOK /\ [Next]_vars => TypeOK'
<1> SUFFICES ASSUME TypeOK, [Next]_vars PROVE TypeOK'
  OBVIOUS
<1>1. CASE UNCHANGED vars
  BY <1>1 DEF vars, store, TypeOK, RunsItsRoute
<1>2. CASE Next
  BY <1>2, CallTypes, ReplyTypes, CreateTypes, PostTypes, EdgeTypes, ReadTypes
     DEF Next, Handler
<1> QED BY <1>1, <1>2

(* The types, and the tie between each client's next call, request and     *)
(* answer, hold in every reachable state (handlers.rs, service lib.rs).    *)
THEOREM TypeCorrect == Spec => []TypeOK
BY InitTypes, NextTypes, PTL DEF Spec

-----------------------------------------------------------------------------
(* The inductive invariant, in parts: what holds of the store, of a client *)
(* beside the store, and of two clients.                                   *)

\* An accepted write is in the store, and the user id it answers is a real one.
Durable(c) ==
    Accepted(c) =>
       \/ /\ req[c].op = "create"
          /\ resp[c].handle \in Handles
          /\ resp[c].handle = req[c].handle
          /\ resp[c].id # 0
          /\ users[resp[c].handle] = resp[c].id
       \/ /\ req[c].op = "post"
          /\ resp[c].tweet \in Range(tweets)

Overtaken(c) ==
    resp[c].status = 500 =>
       \E t \in Range(tweets) : t.id > tmp[c].id \/ t.createdAt > tmp[c].createdAt

\* Two accepted writes of a kind answer for different records.
Apart(c, d) ==
    (Accepted(c) /\ Accepted(d) /\ req[d].op = req[c].op) =>
       IF req[c].op = "create" THEN resp[d].handle # resp[c].handle
       ELSE resp[d].tweet.id # resp[c].tweet.id

StoreInv ==
    /\ LogIsMonotone
    /\ \A t \in Range(tweets) : t.id \in 1..tweet_ids /\ t.createdAt <= clk
    /\ \A h \in Handles : users[h] <= user_ids
    /\ \A g, h \in Handles : has_user(g) /\ users[g] = users[h] => g = h

ClientInv(c) ==
    /\ pc[c] \in IdLabels => /\ tmp[c].id \in 1..tweet_ids
                             /\ \A t \in Range(tweets) : t.id # tmp[c].id
    /\ pc[c] = "post.put" => tmp[c].createdAt <= clk
    /\ pc[c] = "create.put" => /\ tmp[c].id \in 1..user_ids
                               /\ \A h \in Handles : users[h] # tmp[c].id
    /\ ChecksStillHold(c)
    /\ Durable(c)
    /\ Overtaken(c)

PairInv(c, d) ==
    /\ pc[c] \in IdLabels /\ pc[d] \in IdLabels => tmp[c].id # tmp[d].id
    /\ pc[c] = "create.put" /\ pc[d] = "create.put" => tmp[c].id # tmp[d].id
    /\ Apart(c, d)

StrongInv ==
    /\ TypeOK
    /\ StoreInv
    /\ \A c \in Clients : ClientInv(c)
    /\ \A c, d \in Clients : c # d => PairInv(c, d)

LEMMA LogEntries ==
    ASSUME TypeOK
    PROVE  /\ Len(tweets) \in Nat /\ DOMAIN tweets = 1..Len(tweets)
           /\ \A t \in Range(tweets) : t \in Tweet /\ t.id \in Nat /\ t.createdAt \in Nat
           /\ \A i \in DOMAIN tweets : tweets[i] \in Range(tweets)
<1>1. tweets \in Seq(Tweet)
  BY DEF TypeOK
<1>2. Len(tweets) \in Nat /\ DOMAIN tweets = 1..Len(tweets)
  BY <1>1
<1>3. \A i \in DOMAIN tweets : tweets[i] \in Tweet
  BY <1>1
<1> QED BY <1>2, <1>3 DEF Tweet, Range

LEMMA AppendEntries ==
    ASSUME TypeOK, NEW t \in Tweet, tweets' = Append(tweets, t)
    PROVE  /\ Len(tweets') = Len(tweets) + 1
           /\ tweets'[Len(tweets) + 1] = t
           /\ \A i \in 1..Len(tweets) : tweets'[i] = tweets[i]
           /\ Range(tweets') = Range(tweets) \cup {t}
<1>1. tweets \in Seq(Tweet)
  BY DEF TypeOK
<1>2. /\ Len(tweets') = Len(tweets) + 1
      /\ DOMAIN tweets' = DOMAIN tweets \cup {Len(tweets) + 1}
      /\ tweets'[Len(tweets) + 1] = t
      /\ \A i \in DOMAIN tweets : tweets'[i] = tweets[i] /\ i # Len(tweets) + 1
  BY <1>1, LogEntries
<1> QED BY <1>2, LogEntries DEF Range

\* What StrongInv gives the properties of the runs.
LEMMA StrongImplies ==
    ASSUME StrongInv
    PROVE  IndInv /\ AcceptedWritesAreDurable /\ OnlyOvertakenPostsFail
<1>1. IdsAreIssued /\ StampsAreRead
  BY LogEntries DEF StrongInv, StoreInv, ClientInv, PairInv, IdsAreIssued, StampsAreRead
<1>2. UserIdsAreUnique
  BY DEF StrongInv, StoreInv, ClientInv, PairInv, UserIdsAreUnique
<1>3. IndInv
  BY <1>1, <1>2 DEF StrongInv, StoreInv, ClientInv, IndInv
<1>4. OnlyOvertakenPostsFail
  BY DEF StrongInv, ClientInv, Overtaken, OnlyOvertakenPostsFail
<1>5. AcceptedWritesAreDurable
  <2> SUFFICES ASSUME NEW c \in Clients, Accepted(c)
               PROVE  /\ IF req[c].op = "create"
                         THEN /\ resp[c].handle = req[c].handle
                              /\ users[resp[c].handle] = resp[c].id
                         ELSE resp[c].tweet \in Range(tweets)
                      /\ \A d \in Clients \ {c} :
                            (Accepted(d) /\ req[d].op = req[c].op) =>
                               IF req[c].op = "create"
                               THEN resp[d].handle # resp[c].handle /\ resp[d].id # resp[c].id
                               ELSE resp[d].tweet.id # resp[c].tweet.id
    BY DEF AcceptedWritesAreDurable
  <2>1. Durable(c)
    BY DEF StrongInv, ClientInv
  <2>2. ASSUME NEW d \in Clients \ {c}, Accepted(d), req[d].op = req[c].op
        PROVE  IF req[c].op = "create"
               THEN resp[d].handle # resp[c].handle /\ resp[d].id # resp[c].id
               ELSE resp[d].tweet.id # resp[c].tweet.id
    <3>1. Durable(d) /\ Apart(c, d)
      BY DEF StrongInv, ClientInv, PairInv
    <3> QED BY <2>1, <2>2, <3>1 DEF Durable, Apart, StrongInv, StoreInv, has_user
  <2> QED BY <2>1, <2>2 DEF Durable
<1> QED BY <1>3, <1>4, <1>5

-----------------------------------------------------------------------------
(* A step of one client, seen by the others *)

\* The store only grows, by what client c has in hand.
Grows(c) ==
    /\ \A h \in Handles : \/ users'[h] = users[h]
                          \/ /\ ~has_user(h) /\ pc[c] = "create.put"
                             /\ users'[h] = tmp[c].id
    /\ Range(tweets) \subseteq Range(tweets')
    /\ \A t \in Range(tweets') : \/ t \in Range(tweets)
                                 \/ pc[c] = "post.put" /\ t.id = tmp[c].id
    /\ user_ids' >= user_ids
    /\ tweet_ids' >= tweet_ids
    /\ clk' >= clk

LEMMA ChecksPersist ==
    ASSUME StrongInv, NEW c \in Clients, Grows(c), NEW d \in Clients, ChecksStillHold(d),
           pc'[d] = pc[d], req'[d] = req[d]
    PROVE  ChecksStillHold(d)'
BY DEF ChecksStillHold, Grows, has_user

LEMMA OthersHold ==
    ASSUME StrongInv, TypeOK', NEW c \in Clients, OthersKeep(c), Grows(c),
           NEW d \in Clients, d # c
    PROVE  ClientInv(d)'
<1>1. /\ pc'[d] = pc[d] /\ req'[d] = req[d] /\ tmp'[d] = tmp[d] /\ resp'[d] = resp[d]
      /\ ClientInv(d) /\ PairInv(c, d) /\ TypeOK
  BY DEF OthersKeep, StrongInv
<1>2. ChecksStillHold(d)'
  BY <1>1, ChecksPersist DEF ClientInv
<1>3. Durable(d)'
  BY <1>1 DEF ClientInv, Durable, Accepted, Grows, has_user
<1>4. Overtaken(d)'
  BY <1>1 DEF ClientInv, Overtaken, Grows
<1>5. ASSUME pc[d] \in IdLabels
      PROVE  tmp[d].id \in 1..tweet_ids' /\ \A t \in Range(tweets') : t.id # tmp[d].id
  <2>1. pc[c] = "post.put" => pc[c] \in IdLabels
    BY DEF IdLabels
  <2>2. tweet_ids' \in Nat /\ tweet_ids \in Nat
    BY <1>1 DEF TypeOK
  <2> QED BY <1>1, <1>5, <2>1, <2>2 DEF ClientInv, PairInv, Grows
<1>6. ASSUME pc[d] = "create.put"
      PROVE  tmp[d].id \in 1..user_ids' /\ \A h \in Handles : users'[h] # tmp[d].id
  <2>1. user_ids' \in Nat /\ user_ids \in Nat
    BY <1>1 DEF TypeOK
  <2> QED BY <1>1, <1>6, <2>1 DEF ClientInv, PairInv, Grows
<1>7. pc[d] = "post.put" => tmp[d].createdAt <= clk'
  <2>1. tmp[d].createdAt \in Nat /\ clk \in Nat /\ clk' \in Nat
    BY <1>1 DEF TypeOK
  <2> QED BY <1>1, <2>1 DEF ClientInv, Grows
<1> QED BY <1>1, <1>2, <1>3, <1>4, <1>5, <1>6, <1>7 DEF ClientInv

LEMMA InvStep ==
    ASSUME StrongInv, TypeOK', NEW c \in Clients, OthersKeep(c), Grows(c),
           StoreInv', ClientInv(c)', \A d \in Clients : d # c => PairInv(c, d)'
    PROVE  StrongInv'
<1>1. \A d \in Clients : ClientInv(d)'
  BY OthersHold
<1>2. ASSUME NEW d \in Clients, NEW e \in Clients, d # e
      PROVE  PairInv(d, e)'
  <2>1. CASE d = c
    BY <1>2, <2>1
  <2>2. CASE e = c
    <3>1. PairInv(e, d)'
      BY <1>2, <2>2
    <3> QED BY <3>1 DEF PairInv, Apart, Accepted
  <2>3. CASE d # c /\ e # c
    <3>1. PairInv(d, e)
      BY <1>2 DEF StrongInv
    <3> QED BY <2>3, <3>1 DEF OthersKeep, PairInv, Apart, Accepted
  <2> QED BY <2>1, <2>2, <2>3
<1> QED BY <1>1, <1>2 DEF StrongInv

\* A step that writes no record, draws no id and accepts nothing.
LEMMA QuietStep ==
    ASSUME StrongInv, TypeOK', NEW c \in Clients, OthersKeep(c),
           UNCHANGED <<users, tweets, user_ids, tweet_ids>>, clk' >= clk,
           pc'[c] \in IdLabels => pc[c] \in IdLabels /\ tmp'[c].id = tmp[c].id,
           pc'[c] = "post.put" => tmp'[c].createdAt <= clk',
           pc'[c] # "create.put", resp'[c].status # 201,
           ChecksStillHold(c)', Overtaken(c)'
    PROVE  StrongInv'
<1>1. TypeOK
  BY DEF StrongInv
<1>2. Grows(c)
  BY <1>1 DEF Grows, TypeOK
<1>3. StoreInv'
  <2>1. \A t \in Range(tweets) : t.createdAt <= clk'
    <3>1. clk \in Nat /\ clk' \in Nat
      BY <1>1 DEF TypeOK
    <3>2. \A t \in Range(tweets) : t.createdAt \in Nat /\ t.createdAt <= clk
      BY <1>1, LogEntries DEF StrongInv, StoreInv
    <3> QED BY <3>1, <3>2
  <2> QED BY <2>1 DEF StrongInv, StoreInv, LogIsMonotone, has_user
<1>4. ClientInv(c)'
  BY DEF StrongInv, ClientInv, Durable, Accepted
<1>5. \A d \in Clients : d # c => PairInv(c, d)'
  BY DEF StrongInv, PairInv, Apart, Accepted, OthersKeep
<1> QED BY <1>2, <1>3, <1>4, <1>5, InvStep

LEMMA QuietAnswer ==
    ASSUME StrongInv, TypeOK', NEW c \in Clients, NEW a, a.status \notin {201, 500},
           Answer(c, a),
           UNCHANGED <<users, tweets, user_ids, tweet_ids, clk, req, tmp>>
    PROVE  StrongInv'
<1>1. OthersKeep(c) /\ pc'[c] = "reply" /\ resp'[c] = a
  BY LocalsKept, AnswerFrame DEF StrongInv
<1>2. ChecksStillHold(c)' /\ Overtaken(c)'
  BY <1>1 DEF ChecksStillHold, IdLabels, Overtaken
<1>3. clk' >= clk /\ pc'[c] \notin IdLabels
  BY <1>1 DEF StrongInv, TypeOK, IdLabels
<1> QED BY <1>1, <1>2, <1>3, QuietStep

LEMMA QuietGoto ==
    ASSUME StrongInv, TypeOK', NEW c \in Clients, NEW l \in Labels \ (IdLabels \cup {"create.put"}),
           Goto(c, l), pc[c] # "reply",
           UNCHANGED <<users, tweets, user_ids, tweet_ids, req, tmp>>, clk' >= clk,
           l = "post.next" => has_user(req[c].author),
           l \in {"edge.to", "follow.put", "unfollow.delete"} => has_user(req[c].from),
           l \in {"follow.put", "unfollow.delete"} => has_user(req[c].to)
    PROVE  StrongInv'
<1>1. OthersKeep(c) /\ pc'[c] = l /\ resp'[c] = resp[c]
  BY LocalsKept, GotoFrame DEF StrongInv
<1>2. resp[c].status = 0
  BY DEF StrongInv, TypeOK
<1>3. ChecksStillHold(c)' /\ Overtaken(c)'
  BY <1>1, <1>2 DEF ChecksStillHold, Overtaken, has_user, IdLabels
<1>4. l # "post.put"
  BY DEF IdLabels
<1> QED BY <1>1, <1>2, <1>3, <1>4, QuietStep

-----------------------------------------------------------------------------
(* The steps that write nothing the invariant depends on *)

LEMMA CallInv ==
    ASSUME StrongInv, NEW c \in Clients, NEW r \in Requests, Call(c, r)
    PROVE  StrongInv'
<1> DEFINE entry == {"reply", "create.has", "post.has", "edge.from", "tick.tick",
                     "timeline.user"}
<1>1. TypeOK /\ TypeOK'
  BY CallTypes DEF StrongInv
<1>2. LocalsOnly(c) /\ pc[c] = "idle"
  BY <1>1 DEF Call, At, TypeOK, LocalsOnly
<1>3. UNCHANGED <<users, tweets, user_ids, tweet_ids>> /\ clk' >= clk
  <2>1. UNCHANGED <<users, tweets, user_ids, tweet_ids, clk>>
    BY DEF Call, store
  <2> QED BY <1>1, <2>1 DEF TypeOK
<1>4. /\ OthersKeep(c) /\ pc'[c] \in entry
      /\ resp'[c].status \notin {201, 500}
  <2>1. CASE SyntaxError(r) = ""
    <3>1. r \in Request
      BY ServiceAssumption
    <3>2. FirstCall(r) \in entry
      BY <2>1, <3>1 DEF FirstCall, SyntaxError, Request, CreateRequest, EdgeRequest,
         PostRequest, TickRequest, TimelineRequest, OtherRequest
    <3>3. FirstCall(r) \in Labels /\ Goto(c, FirstCall(r))
      BY <2>1, <3>2 DEF Call, Labels, CreateLabels, PostLabels, EdgeLabels, TickLabels,
         TimelineLabels
    <3>4. resp[c].status = 0
      BY <1>1, <1>2 DEF TypeOK
    <3> QED BY <1>1, <1>2, <3>2, <3>3, <3>4, GotoFrame
  <2>2. CASE SyntaxError(r) # ""
    <3> DEFINE a == ErrorBody(IF r.op = "unrouted" THEN 404 ELSE 400, SyntaxError(r))
    <3>1. Answer(c, a)
      BY <2>2 DEF Call
    <3>2. a.status \notin {201, 500}
      BY DEF ErrorBody
    <3> HIDE DEF a
    <3> QED BY <1>1, <1>2, <3>1, <3>2, AnswerFrame
  <2> QED BY <2>1, <2>2
<1>5. ChecksStillHold(c)' /\ Overtaken(c)' /\ pc'[c] \notin IdLabels \cup {"create.put"}
  BY <1>4 DEF ChecksStillHold, Overtaken, IdLabels
<1> QED BY <1>1, <1>3, <1>4, <1>5, QuietStep DEF IdLabels

LEMMA ReplyInv == ASSUME StrongInv, NEW c \in Clients, Reply(c) PROVE StrongInv'
<1>1. TypeOK /\ TypeOK'
  BY ReplyTypes DEF StrongInv
<1>2. OthersKeep(c) /\ pc'[c] = "idle" /\ resp'[c] = NoReply
  BY <1>1 DEF Reply, OthersKeep, TypeOK
<1>3. UNCHANGED <<users, tweets, user_ids, tweet_ids>> /\ clk' >= clk
  BY <1>1 DEF Reply, store, TypeOK
<1>4. /\ ChecksStillHold(c)' /\ Overtaken(c)' /\ resp'[c].status # 201
      /\ pc'[c] \notin IdLabels \cup {"create.put"}
  BY <1>2 DEF ChecksStillHold, Overtaken, IdLabels, NoReply
<1> QED BY <1>1, <1>2, <1>3, <1>4, QuietStep DEF IdLabels

LEMMA LookupInv ==
    ASSUME StrongInv, NEW c \in Clients, create_has_user(c) \/ post_has_user(c)
    PROVE  StrongInv'
<1>1. TypeOK /\ TypeOK'
  BY CreateTypes, PostTypes DEF StrongInv
<1>2. UNCHANGED <<users, tweets, user_ids, tweet_ids, clk, req, tmp>> /\ clk' >= clk
  BY <1>1 DEF create_has_user, post_has_user, store, TypeOK
<1>3. pc[c] # "reply"
  BY DEF create_has_user, post_has_user, At
<1>4. CASE create_has_user(c)
  BY <1>1, <1>2, <1>3, <1>4, QuietGoto, QuietAnswer, MapErrInternal
     DEF create_has_user, Labels, CreateLabels, IdLabels
<1>5. CASE post_has_user(c)
  BY <1>1, <1>2, <1>3, <1>5, QuietGoto, QuietAnswer, MapErrInternal
     DEF post_has_user, Labels, PostLabels, IdLabels
<1> QED BY <1>4, <1>5

LEMMA EdgeInv ==
    ASSUME StrongInv, NEW c \in Clients,
           edge_has_from(c) \/ edge_has_to(c) \/ put_follow(c) \/ delete_follow(c)
    PROVE  StrongInv'
<1>1. TypeOK /\ TypeOK'
  BY EdgeTypes DEF StrongInv
<1>2. UNCHANGED <<users, tweets, user_ids, tweet_ids, clk, req, tmp>> /\ clk' >= clk
  BY <1>1 DEF edge_has_from, edge_has_to, put_follow, delete_follow, store, TypeOK
<1>3. pc[c] # "reply"
  BY DEF edge_has_from, edge_has_to, put_follow, delete_follow, At
<1>4. CASE edge_has_from(c)
  BY <1>1, <1>2, <1>3, <1>4, QuietGoto, QuietAnswer, MapErrInternal
     DEF edge_has_from, Labels, EdgeLabels, IdLabels
<1>5. CASE edge_has_to(c)
  <2>1. \/ \E code \in {"unknown_user", "self_follow_forbidden"} : Answer(c, map_err(code))
        \/ Goto(c, "unfollow.delete") /\ has_user(req[c].to)
        \/ Goto(c, "follow.put") /\ has_user(req[c].to)
    BY <1>5 DEF edge_has_to
  <2>2. has_user(req[c].from)
    BY <1>5 DEF edge_has_to, At, StrongInv, ClientInv, ChecksStillHold
  <2> QED BY <1>1, <1>2, <1>3, <2>1, <2>2, QuietGoto, QuietAnswer, MapErrInternal
          DEF Labels, EdgeLabels, IdLabels
<1>6. CASE put_follow(c) \/ delete_follow(c)
  <2>1. NoContent.status \notin {201, 500}
    BY DEF NoContent
  <2> QED BY <1>1, <1>2, <1>6, <2>1, QuietAnswer, MapErrInternal
          DEF put_follow, delete_follow
<1> QED BY <1>4, <1>5, <1>6

LEMMA ReadInv ==
    ASSUME StrongInv, NEW c \in Clients,
           tick(c) \/ tick_now(c) \/ timeline_has_user(c) \/ home_timeline(c)
    PROVE  StrongInv'
<1>1. TypeOK /\ TypeOK'
  BY ReadTypes DEF StrongInv
<1>2. /\ UNCHANGED <<users, tweets, user_ids, tweet_ids, req, tmp>>
      /\ clk' >= clk
      /\ ~tick(c) => UNCHANGED clk
  BY <1>1 DEF tick, tick_now, timeline_has_user, home_timeline, store, TypeOK
<1>3. pc[c] # "reply"
  BY DEF tick, tick_now, timeline_has_user, home_timeline, At
<1>4. CASE tick(c)
  BY <1>1, <1>2, <1>3, <1>4, QuietGoto DEF tick, Labels, TickLabels, IdLabels
<1>5. CASE ~tick(c) /\ tick_now(c)
  BY <1>1, <1>2, <1>5, QuietAnswer DEF tick_now, ClockBody
<1>6. CASE ~tick(c) /\ timeline_has_user(c)
  BY <1>1, <1>2, <1>3, <1>6, QuietGoto, QuietAnswer, MapErrInternal
     DEF timeline_has_user, Labels, TimelineLabels, IdLabels
<1>7. CASE ~tick(c) /\ home_timeline(c)
  <2>1. PICK page, next : Answer(c, TimelineBody(page, next))
    BY <1>7 DEF home_timeline
  <2>2. TimelineBody(page, next).status \notin {201, 500}
    BY DEF TimelineBody
  <2> QED BY <1>1, <1>2, <1>7, <2>1, <2>2, QuietAnswer
<1> QED BY <1>4, <1>5, <1>6, <1>7

\* The stamp in hand is the clock's, and the clock never goes back.
LEMMA StampInv == ASSUME StrongInv, NEW c \in Clients, post_now(c) PROVE StrongInv'
<1>1. TypeOK /\ TypeOK' /\ clk \in Nat
  BY PostTypes DEF StrongInv, TypeOK
<1>2. OthersKeep(c) /\ pc'[c] = "post.put" /\ resp'[c] = resp[c]
  BY <1>1, StoringLocals, GotoFrame DEF post_now, Labels, PostLabels
<1>3. UNCHANGED <<users, tweets, user_ids, tweet_ids, clk, req>> /\ clk' >= clk
  BY <1>1 DEF post_now, store
<1>4. pc[c] = "post.now" /\ tmp'[c].id = tmp[c].id /\ tmp'[c].createdAt <= clk'
  BY <1>1, <1>3 DEF post_now, At, TypeOK
<1>5. resp[c].status = 0 /\ ChecksStillHold(c)
  BY <1>1, <1>4 DEF TypeOK, StrongInv, ClientInv
<1>6. ChecksStillHold(c)' /\ Overtaken(c)'
  BY <1>2, <1>3, <1>4, <1>5 DEF ChecksStillHold, Overtaken, has_user, IdLabels
<1> QED BY <1>1, <1>2, <1>3, <1>4, <1>5, <1>6, QuietStep DEF IdLabels

-----------------------------------------------------------------------------
(* The steps that draw an id *)

LEMMA NextUserIdInv == ASSUME StrongInv, NEW c \in Clients, create_next_id(c) PROVE StrongInv'
<1>1. TypeOK /\ TypeOK' /\ user_ids \in Nat
  BY CreateTypes DEF StrongInv, TypeOK
<1>2. OthersKeep(c) /\ pc'[c] = "create.put" /\ resp'[c] = resp[c]
  <2>1. user_ids + 1 \in Nat
    BY <1>1
  <2> QED BY <1>1, <2>1, StoringLocals, GotoFrame DEF create_next_id, Labels, CreateLabels
<1>3. /\ UNCHANGED <<users, tweets, tweet_ids, clk, req>>
      /\ user_ids' = user_ids + 1 /\ tmp'[c].id = user_ids + 1
  BY <1>1 DEF create_next_id, store, TypeOK
<1>4. pc[c] = "create.next" /\ resp[c].status = 0
  BY <1>1 DEF create_next_id, At, TypeOK
<1>5. Grows(c)
  BY <1>1, <1>3 DEF Grows, TypeOK
<1>6. \A h \in Handles : users[h] \in Nat /\ users[h] <= user_ids
  BY <1>1 DEF TypeOK, StrongInv, StoreInv
<1>7. StoreInv'
  BY <1>1, <1>3, <1>6 DEF StrongInv, StoreInv, LogIsMonotone, has_user
<1>8. ClientInv(c)'
  BY <1>1, <1>2, <1>3, <1>4, <1>6 DEF ClientInv, ChecksStillHold, Durable, Accepted, Overtaken,
     IdLabels
<1>9. ASSUME NEW d \in Clients, d # c PROVE PairInv(c, d)'
  <2>1. pc[d] = "create.put" => tmp[d].id \in 1..user_ids
    BY DEF StrongInv, ClientInv
  <2> QED BY <1>1, <1>2, <1>3, <1>4, <1>9, <2>1 DEF PairInv, Apart, Accepted, OthersKeep, IdLabels
<1> QED BY <1>1, <1>2, <1>5, <1>7, <1>8, <1>9, InvStep

LEMMA NextTweetIdInv == ASSUME StrongInv, NEW c \in Clients, post_next_id(c) PROVE StrongInv'
<1>1. TypeOK /\ TypeOK' /\ tweet_ids \in Nat
  BY PostTypes DEF StrongInv, TypeOK
<1>2. OthersKeep(c) /\ pc'[c] = "post.now" /\ resp'[c] = resp[c]
  <2>1. tweet_ids + 1 \in Nat
    BY <1>1
  <2> QED BY <1>1, <2>1, StoringLocals, GotoFrame DEF post_next_id, Labels, PostLabels
<1>3. /\ UNCHANGED <<users, tweets, user_ids, clk, req>>
      /\ tweet_ids' = tweet_ids + 1 /\ tmp'[c].id = tweet_ids + 1
  BY <1>1 DEF post_next_id, store, TypeOK
<1>4. pc[c] = "post.next" /\ resp[c].status = 0 /\ has_user(req[c].author)
  BY <1>1 DEF post_next_id, At, TypeOK, StrongInv, ClientInv, ChecksStillHold
<1>5. Grows(c)
  BY <1>1, <1>3 DEF Grows, TypeOK
<1>6. \A t \in Range(tweets) : t.id \in 1..tweet_ids
  BY DEF StrongInv, StoreInv
<1>7. StoreInv'
  <2>1. \A t \in Range(tweets) : t.id \in 1..(tweet_ids + 1)
    BY <1>1, <1>6
  <2> QED BY <1>3, <2>1 DEF StrongInv, StoreInv, LogIsMonotone, has_user
<1>8. ClientInv(c)'
  <2>1. tweet_ids + 1 \in 1..(tweet_ids + 1) /\ \A t \in Range(tweets) : t.id # tweet_ids + 1
    BY <1>1, <1>6
  <2> QED BY <1>2, <1>3, <1>4, <2>1 DEF ClientInv, ChecksStillHold, Durable, Accepted,
       Overtaken, IdLabels, has_user
<1>9. ASSUME NEW d \in Clients, d # c PROVE PairInv(c, d)'
  <2>1. pc[d] \in IdLabels => tmp[d].id \in 1..tweet_ids
    BY DEF StrongInv, ClientInv
  <2> QED BY <1>1, <1>2, <1>3, <1>4, <1>9, <2>1 DEF PairInv, Apart, Accepted, OthersKeep
<1> QED BY <1>1, <1>2, <1>5, <1>7, <1>8, <1>9, InvStep

-----------------------------------------------------------------------------
(* The steps that write a record *)

\* The winner of a race for a handle: the loser's answer is a quiet one.
LEMMA PutUserInv == ASSUME StrongInv, NEW c \in Clients, put_user(c) PROVE StrongInv'
<1> DEFINE h == req[c].handle
           n == tmp[c].id
<1>1. TypeOK /\ TypeOK' /\ pc[c] = "create.put" /\ h \in Handles /\ req[c].op = "create"
  BY CreateTypes DEF StrongInv, TypeOK, put_user, At, RunsItsRoute, CreateLabels
<1>2. UNCHANGED <<tweets, user_ids, tweet_ids, clk, req, tmp>>
  BY DEF put_user
<1>3. CASE has_user(h)
  <2>1. Answer(c, map_err("handle_taken")) /\ users' = users
    BY <1>3 DEF put_user
  <2> QED BY <1>1, <1>2, <2>1, QuietAnswer, MapErrInternal
<1>4. CASE ~has_user(h)
  <2>1. Answer(c, UserBody(h, n)) /\ users' = [users EXCEPT ![h] = n]
    BY <1>4 DEF put_user
  <2>2. OthersKeep(c) /\ pc'[c] = "reply" /\ resp'[c] = UserBody(h, n)
    BY <1>1, <1>2, <2>1, LocalsKept, AnswerFrame
  <2>3. n \in 1..user_ids /\ n # 0 /\ \A g \in Handles : users[g] # n
    BY <1>1 DEF StrongInv, ClientInv, TypeOK
  <2>4. users'[h] = n /\ \A g \in Handles : g # h => users'[g] = users[g]
    BY <1>1, <2>1 DEF TypeOK
  <2>5. resp'[c].status = 201 /\ resp'[c].handle = h /\ resp'[c].id = n
    BY <2>2 DEF UserBody
  <2> HIDE DEF h, n
  <2>6. Grows(c)
    BY <1>1, <1>2, <1>4, <2>4 DEF Grows, TypeOK, n
  <2>7. StoreInv'
    <3>1. \A g \in Handles : users'[g] <= user_ids
      <4>1. n \in Nat /\ n <= user_ids
        BY <1>1, <2>3 DEF TypeOK
      <4>2. \A g \in Handles : users[g] <= user_ids
        BY DEF StrongInv, StoreInv
      <4> QED BY <2>4, <4>1, <4>2
    <3>2. ASSUME NEW f \in Handles, NEW g \in Handles, users'[f] # 0, users'[f] = users'[g]
          PROVE  f = g
      <4>1. CASE f # h /\ g # h
        <5>1. users[f] # 0 /\ users[f] = users[g]
          BY <2>4, <3>2, <4>1
        <5> QED BY <5>1 DEF StrongInv, StoreInv, has_user
      <4>2. CASE f = h \/ g = h
        BY <2>3, <2>4, <3>2, <4>2
      <4> QED BY <4>1, <4>2
    <3> QED BY <1>2, <3>1, <3>2 DEF StrongInv, StoreInv, LogIsMonotone, has_user
  <2>8. ClientInv(c)'
    BY <1>1, <1>2, <2>2, <2>3, <2>4, <2>5 DEF ClientInv, ChecksStillHold, Durable, Overtaken,
       IdLabels, h
  <2>9. ASSUME NEW d \in Clients, d # c PROVE PairInv(c, d)'
    <3>1. Durable(d)
      BY DEF StrongInv, ClientInv
    <3>2. Apart(c, d)'
      BY <1>1, <1>2, <1>4, <2>2, <2>5, <2>9, <3>1
         DEF Apart, Durable, Accepted, OthersKeep, has_user
    <3> QED BY <2>2, <3>2 DEF PairInv, IdLabels
  <2> QED BY <1>1, <2>2, <2>6, <2>7, <2>8, <2>9, InvStep
<1> QED BY <1>3, <1>4

\* The append, or the refusal of a post that was overtaken.
LEMMA PutTweetInv == ASSUME StrongInv, NEW c \in Clients, put_tweet(c) PROVE StrongInv'
<1> DEFINE t == NewTweet(c)
           n == Len(tweets)
<1>1. /\ TypeOK /\ TypeOK' /\ pc[c] = "post.put" /\ pc[c] \in IdLabels
      /\ req[c].op = "post" /\ req[c].author \in Handles /\ req[c].text \in Texts
  BY PostTypes DEF StrongInv, TypeOK, put_tweet, At, RunsItsRoute, PostLabels, IdLabels
<1>2. UNCHANGED <<users, user_ids, tweet_ids, clk, req, tmp>>
  BY DEF put_tweet
<1>3. t \in Tweet /\ t.id = tmp[c].id /\ t.createdAt = tmp[c].createdAt
  BY <1>1 DEF NewTweet, Tweet, TypeOK
<1>4. /\ has_user(t.author)
      /\ t.id \in 1..tweet_ids /\ t.createdAt <= clk
      /\ \A u \in Range(tweets) : u.id # t.id
  BY <1>1, <1>3 DEF StrongInv, ClientInv, ChecksStillHold, NewTweet
<1>5. n \in Nat /\ tweets \in Seq(Tweet) /\ (tweets # << >> => n \in DOMAIN tweets /\ n >= 1)
  BY <1>1, LogEntries DEF TypeOK
<1>6. CASE put_tweet_error(t) = ""
  <2> HIDE DEF t
  <2>1. Answer(c, TweetBody(t)) /\ tweets' = Append(tweets, t)
    BY <1>6 DEF put_tweet, t
  <2>2. AcceptsTweet(tweets, t)
    BY <1>6 DEF put_tweet_error
  <2>3. OthersKeep(c) /\ pc'[c] = "reply" /\ resp'[c] = TweetBody(t)
    BY <1>1, <1>2, <2>1, LocalsKept, AnswerFrame
  <2>4. resp'[c].status = 201 /\ resp'[c].tweet = t
    BY <2>3 DEF TweetBody
  <2>5. /\ Len(tweets') = n + 1 /\ tweets'[n + 1] = t
        /\ \A i \in 1..n : tweets'[i] = tweets[i]
        /\ Range(tweets') = Range(tweets) \cup {t}
    BY <1>1, <1>3, <2>1, AppendEntries
  <2>6. Grows(c)
    BY <1>1, <1>2, <1>3, <2>5 DEF Grows, TypeOK
  <2>7. LogIsMonotone'
    <3> SUFFICES ASSUME NEW i \in 2..(n + 1)
                 PROVE  /\ tweets'[i].id > tweets'[i - 1].id
                        /\ tweets'[i].createdAt >= tweets'[i - 1].createdAt
      BY <2>5 DEF LogIsMonotone, IsMonotoneLog
    <3>1. CASE i = n + 1
      <4>1. tweets # << >> /\ i - 1 = n /\ n \in 1..n
        BY <1>5, <3>1
      <4>2. t.id > tweets[n].id /\ t.createdAt >= tweets[n].createdAt
        BY <2>2, <4>1 DEF AcceptsTweet
      <4> QED BY <2>5, <3>1, <4>1, <4>2
    <3>2. CASE i # n + 1
      <4>1. i \in 2..n /\ i \in 1..n /\ i - 1 \in 1..n
        BY <1>5, <3>2
      <4>2. tweets'[i] = tweets[i] /\ tweets'[i - 1] = tweets[i - 1]
        BY <2>5, <4>1
      <4> QED BY <4>1, <4>2 DEF StrongInv, StoreInv, LogIsMonotone, IsMonotoneLog
    <3> QED BY <3>1, <3>2
  <2>8. StoreInv'
    BY <1>2, <1>4, <2>5, <2>7 DEF StrongInv, StoreInv, has_user
  <2>9. ClientInv(c)'
    BY <1>1, <1>2, <2>3, <2>4, <2>5 DEF ClientInv, ChecksStillHold, Durable, Overtaken, IdLabels
  <2>10. ASSUME NEW d \in Clients, d # c PROVE PairInv(c, d)'
    <3>1. Durable(d)
      BY DEF StrongInv, ClientInv
    <3>2. Apart(c, d)'
      BY <1>1, <1>2, <1>4, <2>3, <2>4, <2>10, <3>1 DEF Apart, Durable, Accepted, OthersKeep
    <3> QED BY <2>3, <3>2 DEF PairInv, IdLabels
  <2> QED BY <1>1, <2>3, <2>6, <2>8, <2>9, <2>10, InvStep
<1>7. CASE put_tweet_error(t) # ""
  <2> HIDE DEF t
  <2>1. ~AcceptsTweet(tweets, t) /\ put_tweet_error(t) = "non_monotonic_append"
    BY <1>4, <1>7 DEF put_tweet_error
  <2>2. Answer(c, map_err("non_monotonic_append")) /\ tweets' = tweets
    BY <1>7, <2>1 DEF put_tweet, t
  <2>3. OthersKeep(c) /\ pc'[c] = "reply" /\ resp'[c] = map_err("non_monotonic_append")
    BY <1>1, <1>2, <2>2, LocalsKept, AnswerFrame
  <2>4. tweets # << >> /\ (tweets[n].id >= t.id \/ tweets[n].createdAt > t.createdAt)
    <3>1. tweets # << >> /\ ~(t.id > tweets[n].id /\ t.createdAt >= tweets[n].createdAt)
      BY <2>1 DEF AcceptsTweet
    <3>2. tweets[n] \in Tweet
      BY <1>5, <3>1
    <3> QED BY <1>3, <3>1, <3>2 DEF Tweet
  <2>5. tweets[n] \in Range(tweets)
    BY <1>1, <1>5, <2>4, LogEntries
  <2>6. tweets[n].id > t.id \/ tweets[n].createdAt > t.createdAt
    <3>1. tweets[n].id # t.id /\ tweets[n].id \in Nat /\ t.id \in Nat
      BY <1>1, <1>3, <1>4, <2>5, LogEntries DEF Tweet
    <3> QED BY <2>4, <3>1
  <2>7. Overtaken(c)'
    BY <1>2, <1>3, <2>2, <2>5, <2>6 DEF Overtaken
  <2>8. map_err("non_monotonic_append").status = 500
    BY DEF map_err, ErrorBody
  <2>9. ChecksStillHold(c)' /\ pc'[c] \notin IdLabels \cup {"create.put"}
    BY <2>3 DEF ChecksStillHold, IdLabels
  <2>10. clk' >= clk
    BY <1>1, <1>2 DEF TypeOK
  <2> QED BY <1>1, <1>2, <2>2, <2>3, <2>7, <2>8, <2>9, <2>10, QuietStep DEF IdLabels
<1> QED BY <1>6, <1>7

-----------------------------------------------------------------------------
(* Theorems *)

LEMMA InitStrong == Init => StrongInv
<1> SUFFICES ASSUME Init PROVE StrongInv
  OBVIOUS
<1>1. TypeOK
  BY InitTypes
<1>2. Range(tweets) = {} /\ Len(tweets) = 0
  BY DEF Init, Range
<1>3. StoreInv
  BY <1>2 DEF Init, StoreInv, LogIsMonotone, IsMonotoneLog, has_user
<1>4. \A c \in Clients : ClientInv(c)
  BY DEF Init, ClientInv, ChecksStillHold, Durable, Accepted, Overtaken, NoReply, IdLabels
<1>5. \A c, d \in Clients : PairInv(c, d)
  BY DEF Init, PairInv, Apart, Accepted, NoReply, IdLabels
<1> QED BY <1>1, <1>3, <1>4, <1>5 DEF StrongInv

LEMMA NextStrong == StrongInv /\ [Next]_vars => StrongInv'
<1> SUFFICES ASSUME StrongInv, [Next]_vars PROVE StrongInv'
  OBVIOUS
<1>1. CASE UNCHANGED vars
  <2>1. TypeOK'
    BY <1>1, NextTypes DEF StrongInv
  <2> QED BY <1>1, <2>1 DEF vars, store, StrongInv, StoreInv, ClientInv, PairInv, LogIsMonotone,
          ChecksStillHold, Durable, Accepted, Overtaken, Apart, has_user
<1>2. CASE Next
  BY <1>2, CallInv, ReplyInv, LookupInv, EdgeInv, ReadInv, StampInv, NextUserIdInv,
     NextTweetIdInv, PutUserInv, PutTweetInv
     DEF Next, Handler
<1> QED BY <1>1, <1>2

LEMMA StrongHolds == Spec => []StrongInv
BY InitStrong, NextStrong, PTL DEF Spec

(* Ids are never shared and never ahead of their generator, stamps are     *)
(* never ahead of the clock, the log is in the order of both, and what a   *)
(* handler looked up still holds when it acts on it: with no lock across   *)
(* the calls of the core, for any number of clients.                       *)
THEOREM IndInvHolds == Spec => []IndInv
BY StrongHolds, StrongImplies, PTL

(* The oracle of finding F018 for the writes the Rust corner accepts: N    *)
(* concurrent 201s name N distinct records, each in the store.             *)
THEOREM AcceptedAreDurable == Spec => []AcceptedWritesAreDurable
BY StrongHolds, StrongImplies, PTL

(* A post answered 500 was overtaken: the log holds a tweet with a later   *)
(* id or a later stamp (store lib.rs:254).  No other request is, ever.     *)
THEOREM OnlyOvertakenFail == Spec => []OnlyOvertakenPostsFail
BY StrongHolds, StrongImplies, PTL
-----------------------------------------------------------------------------
\* The mapped variables, named.
Known == {h \in Handles : has_user(h)}
AsDesign(i, t) == [id |-> i - 1, author |-> t.author, ts |-> t.createdAt]
Log == [i \in DOMAIN tweets |-> AsDesign(i, tweets[i])]

LEMMA InitRefines == Init => Design!Init
BY DEF Init, Design!Init, has_user

LEMMA StutterRefines ==
    ASSUME UNCHANGED <<users, follows, tweets, clk>>
    PROVE  UNCHANGED Design!vars
BY DEF Design!vars, has_user

\* Steps that write neither the store nor the clock are stutters.
LEMMA ControlRefines ==
    ASSUME NEW c \in Clients,
           \/ \E r \in Requests : Call(c, r)
           \/ Reply(c) \/ create_has_user(c) \/ create_next_id(c)
           \/ post_has_user(c) \/ post_next_id(c) \/ post_now(c)
           \/ edge_has_from(c) \/ edge_has_to(c)
           \/ tick_now(c) \/ timeline_has_user(c) \/ home_timeline(c)
    PROVE  UNCHANGED Design!vars
<1>1. UNCHANGED <<users, follows, tweets, clk>>
  BY DEF Call, Reply, create_has_user, create_next_id, post_has_user, post_next_id, post_now,
         edge_has_from, edge_has_to, tick_now, timeline_has_user, home_timeline, store
<1> QED BY <1>1, StutterRefines

LEMMA TickRefines == ASSUME NEW c \in Clients, tick(c) PROVE Design!Tick
BY DEF tick, Design!Tick, store, has_user

LEMMA PutUserRefines ==
    ASSUME IndInv, NEW c \in Clients, put_user(c)
    PROVE  (\E u \in Handles : Design!CreateUser(u)) \/ UNCHANGED Design!vars
<1> DEFINE h == req[c].handle
<1>1. h \in Handles /\ users \in [Handles -> Nat]
  BY DEF put_user, At, IndInv, TypeOK, RunsItsRoute, CreateLabels
<1>2. tmp[c].id # 0
  BY DEF put_user, At, IndInv, TypeOK, UserIdsAreUnique
<1>3. UNCHANGED <<follows, tweets, clk>>
  BY DEF put_user
<1>4. CASE has_user(h)
  BY <1>3, <1>4, StutterRefines DEF put_user
<1>5. CASE ~has_user(h)
  <2>1. users' = [users EXCEPT ![h] = tmp[c].id]
    BY <1>5 DEF put_user
  <2>2. Known' = Known \cup {h} /\ h \notin Known
    BY <1>1, <1>2, <1>5, <2>1 DEF Known, has_user
  <2>3. Log' = Log
    BY <1>3 DEF Log, AsDesign
  <2>4. Design!CreateUser(h)
    BY <1>3, <2>2, <2>3 DEF Design!CreateUser, Known, Log, AsDesign
  <2> QED BY <1>1, <2>4
<1> QED BY <1>4, <1>5

LEMMA EdgeRefines ==
    ASSUME IndInv, NEW c \in Clients, put_follow(c) \/ delete_follow(c)
    PROVE  (\E a, b \in Handles : Design!Follow(a, b) \/ Design!Unfollow(a, b))
             \/ UNCHANGED Design!vars
<1> DEFINE a == req[c].from
           b == req[c].to
<1>1. {a, b} \subseteq Known
  BY DEF put_follow, delete_follow, At, IndInv, ChecksStillHold, Known, has_user
<1>2. a \in Handles /\ b \in Handles
  BY <1>1 DEF Known
<1>3. UNCHANGED <<users, tweets, clk>>
  BY DEF put_follow, delete_follow
<1>4. Known' = Known /\ Log' = Log
  BY <1>3 DEF Known, Log, AsDesign, has_user
<1>5. CASE put_follow(c)
  <2>1. a # b
    BY <1>5 DEF put_follow, At, IndInv, TypeOK, RunsItsRoute
  <2>2. follows' = follows \cup {<<a, b>>}
    BY <1>1, <1>5 DEF put_follow, Known
  <2>3. Design!Follow(a, b)
    BY <1>1, <1>3, <1>4, <2>1, <2>2 DEF Design!Follow, Known, Log, AsDesign
  <2> QED BY <1>2, <2>3
<1>6. CASE delete_follow(c)
  <2>1. follows' = follows \ {<<a, b>>}
    BY <1>6 DEF delete_follow
  <2>2. Design!Unfollow(a, b)
    BY <1>1, <1>3, <1>4, <2>1 DEF Design!Unfollow, Known, Log, AsDesign
  <2> QED BY <1>2, <2>2
<1> QED BY <1>5, <1>6

LEMMA PutTweetRefines ==
    ASSUME IndInv, NEW c \in Clients, put_tweet(c)
    PROVE  (\E u \in Handles : Design!PostTweetLate(u)) \/ UNCHANGED Design!vars
<1> DEFINE t == NewTweet(c)
           n == Len(tweets) + 1
           u == req[c].author
<1>1. TypeOK /\ pc[c] = "post.put" /\ u \in Handles
  BY DEF put_tweet, At, IndInv, TypeOK, RunsItsRoute, PostLabels
<1>2. u \in Known
  BY <1>1 DEF IndInv, ChecksStillHold, IdLabels, Known
<1>3. t \in Tweet /\ t.author = u /\ t.createdAt = tmp[c].createdAt
  BY <1>1 DEF TypeOK, RunsItsRoute, NewTweet, Tweet, PostLabels
<1>4. UNCHANGED <<users, follows, clk>>
  BY DEF put_tweet
<1>5. CASE put_tweet_error(t) # ""
  <2>1. UNCHANGED tweets
    BY <1>5 DEF put_tweet
  <2> QED BY <1>4, <2>1, StutterRefines
<1>6. CASE put_tweet_error(t) = ""
  <2>1. tweets' = Append(tweets, t) /\ AcceptsTweet(tweets, t)
    BY <1>6 DEF put_tweet, put_tweet_error
  <2>2. tmp[c].createdAt <= clk /\ clk \in Nat /\ tmp[c].createdAt \in Nat
    BY <1>1 DEF IndInv, StampsAreRead, TypeOK
  <2> HIDE DEF t
  <2>3. /\ Len(tweets') = n /\ DOMAIN tweets' = 1..n
        /\ tweets'[n] = t
        /\ \A i \in DOMAIN tweets : tweets'[i] = tweets[i]
        /\ DOMAIN tweets = 1..Len(tweets) /\ Len(tweets) \in Nat
    BY <1>1, <1>3, <2>1, AppendEntries, LogEntries
  <2>4. Log' = Append(Log, AsDesign(n, t))
    <3>1. Log' = [i \in 1..n |-> AsDesign(i, tweets'[i])]
      BY <2>3 DEF Log
    <3>2. Log = [i \in 1..Len(tweets) |-> AsDesign(i, tweets[i])]
      BY <2>3 DEF Log
    <3>3. Append(Log, AsDesign(n, t))
            = [i \in 1..n |-> IF i = n THEN AsDesign(n, t) ELSE AsDesign(i, tweets[i])]
      BY <2>3, <3>2
    <3>4. ASSUME NEW i \in 1..n
          PROVE  AsDesign(i, tweets'[i])
                   = IF i = n THEN AsDesign(n, t) ELSE AsDesign(i, tweets[i])
      <4>1. i = n \/ i \in DOMAIN tweets
        BY <2>3
      <4> QED BY <2>3, <4>1
    <3> QED BY <3>1, <3>3, <3>4
  <2>5. AsDesign(n, t) = [id |-> Len(tweets), author |-> u, ts |-> tmp[c].createdAt]
    BY <1>3, <2>3 DEF AsDesign
  <2>6. Known' = Known /\ Len(tweets') = Len(tweets) + 1
    BY <1>4, <2>3 DEF Known, has_user
  <2>7. tmp[c].createdAt \in Design!LatestStamp..clk
    <3>1. CASE tweets = << >>
      <4>1. Log = << >>
        BY <3>1 DEF Log
      <4>2. Design!LatestStamp = 0
        BY <4>1 DEF Design!LatestStamp, Log, AsDesign
      <4> QED BY <2>2, <4>2
    <3>2. CASE tweets # << >>
      <4>1. Len(tweets) \in DOMAIN tweets
        BY <1>1, <2>3, <3>2 DEF TypeOK
      <4>2. /\ Log # << >> /\ Len(Log) = Len(tweets)
            /\ Log[Len(tweets)].ts = tweets[Len(tweets)].createdAt
        <5>1. Log = [i \in 1..Len(tweets) |-> AsDesign(i, tweets[i])]
          BY <2>3 DEF Log
        <5>2. Len(Log) = Len(tweets) /\ Log # << >>
          BY <2>3, <4>1, <5>1
        <5>3. Log[Len(tweets)] = AsDesign(Len(tweets), tweets[Len(tweets)])
          BY <4>1 DEF Log
        <5> QED BY <5>2, <5>3 DEF AsDesign
      <4>3. Design!LatestStamp = tweets[Len(tweets)].createdAt
        BY <4>2 DEF Design!LatestStamp, Log, AsDesign
      <4>4. tweets[Len(tweets)].createdAt \in Nat
        BY <1>1, <4>1, LogEntries
      <4>5. tweets[Len(tweets)].createdAt <= tmp[c].createdAt
        BY <1>3, <2>1, <2>2, <3>2, <4>4 DEF AcceptsTweet
      <4> QED BY <2>2, <4>3, <4>4, <4>5
    <3> QED BY <3>1, <3>2
  <2>8. PICK ts : ts = tmp[c].createdAt /\ ts \in Design!LatestStamp..clk
    BY <2>7
  <2>9. Design!PostStamped(u, ts)
    BY <1>2, <1>4, <2>4, <2>5, <2>6, <2>8 DEF Design!PostStamped, Known, Log, AsDesign
  <2> QED BY <1>1, <2>8, <2>9 DEF Design!PostTweetLate
<1> QED BY <1>5, <1>6

LEMMA NextRefines == IndInv /\ [Next]_vars => [Design!LooseNext]_(Design!vars)
<1> SUFFICES ASSUME IndInv, [Next]_vars PROVE [Design!LooseNext]_(Design!vars)
  OBVIOUS
<1>1. CASE UNCHANGED vars
  BY <1>1, StutterRefines DEF vars, store
<1>2. CASE Next
  <2> PICK c \in Clients : Handler(c) \/ \E r \in Requests : Call(c, r)
    BY <1>2 DEF Next
  <2> QED BY ControlRefines, TickRefines, PutUserRefines, EdgeRefines, PutTweetRefines
          DEF Handler, Design!LooseNext, Design!Accounts
<1> QED BY <1>1, <1>2

(* Whatever the clients do, the Rust corner's store and clock move as the  *)
(* design model (spec/tla/twitter.tla) allows, tweets being numbered by    *)
(* place and a post's stamp being one between its predecessor's and the    *)
(* clock's: the guard of the log (store lib.rs) is all the order there is. *)
THEOREM RustImplementsDesign == Spec => ImplementsDesign
BY InitRefines, IndInvHolds, NextRefines, PTL
   DEF Spec, ImplementsDesign, Design!LooseSpec

-----------------------------------------------------------------------------
(* Linearizability up to ids: what it needs beside IndInv *)

\* What was checked of a page before it is read.
PageIsReadable(c) ==
    pc[c] = "timeline.page" => /\ has_user(req[c].user)
                               /\ PageLimit(req[c]) \in 1..MaxLimit
                               /\ ~(req[c].cursor # Absent /\ req[c].cursor < 1)

NotAnswered(c) == pc[c] # "reply" => resp[c] = NoReply

\* A follow's handles were checked as it was submitted, an unfollow's were not.
FollowIsChecked(c) ==
    pc[c] \in EdgeLabels /\ req[c].op = "follow" => {req[c].from, req[c].to} \subseteq Handles

DueTo(c) == PageIsReadable(c) /\ FollowIsChecked(c) /\ NotAnswered(c)

AnswersAreDue == \A c \in Clients : DueTo(c)

\* What a step of client c leaves alone, and that no user ever goes.
LEMMA OneMoves ==
    ASSUME IndInv, NEW c \in Clients, Handler(c) \/ \E r \in Requests : Call(c, r)
    PROVE  OthersKeep(c) /\ \A h : has_user(h) => has_user(h)'
<1>1. pc' = pc \/ \E a : pc' = [pc EXCEPT ![c] = a]
  BY DEF Handler, Call, Reply, create_has_user, create_next_id, put_user, post_has_user,
         post_next_id, post_now, put_tweet, edge_has_from, edge_has_to, put_follow,
         delete_follow, tick, tick_now, timeline_has_user, home_timeline, Goto, Answer
<1>2. resp' = resp \/ \E a : resp' = [resp EXCEPT ![c] = a]
  BY DEF Handler, Call, Reply, create_has_user, create_next_id, put_user, post_has_user,
         post_next_id, post_now, put_tweet, edge_has_from, edge_has_to, put_follow,
         delete_follow, tick, tick_now, timeline_has_user, home_timeline, Goto, Answer
<1>3. req' = req \/ \E a : req' = [req EXCEPT ![c] = a]
  BY DEF Handler, Call, Reply, create_has_user, create_next_id, put_user, post_has_user,
         post_next_id, post_now, put_tweet, edge_has_from, edge_has_to, put_follow,
         delete_follow, tick, tick_now, timeline_has_user, home_timeline
<1>4. tmp' = tmp \/ \E a : tmp' = [tmp EXCEPT ![c] = a]
  BY DEF Handler, Call, Reply, create_has_user, create_next_id, put_user, post_has_user,
         post_next_id, post_now, put_tweet, edge_has_from, edge_has_to, put_follow,
         delete_follow, tick, tick_now, timeline_has_user, home_timeline
<1>5. \/ users' = users
      \/ ~has_user(req[c].handle) /\ users' = [users EXCEPT ![req[c].handle] = tmp[c].id]
  BY DEF Handler, Call, Reply, create_has_user, create_next_id, put_user, post_has_user,
         post_next_id, post_now, put_tweet, edge_has_from, edge_has_to, put_follow,
         delete_follow, tick, tick_now, timeline_has_user, home_timeline, store
<1>6. OthersKeep(c)
  BY <1>1, <1>2, <1>3, <1>4 DEF OthersKeep, IndInv, TypeOK
<1> QED BY <1>5, <1>6 DEF has_user, IndInv, TypeOK

LEMMA DueStep ==
    ASSUME IndInv, AnswersAreDue, NEW c \in Clients, OthersKeep(c),
           \A h : has_user(h) => has_user(h)',
           DueTo(c)'
    PROVE  AnswersAreDue'
<1>1. ASSUME NEW d \in Clients, d # c PROVE DueTo(d)'
  <2>1. pc'[d] = pc[d] /\ req'[d] = req[d] /\ resp'[d] = resp[d]
    BY <1>1 DEF OthersKeep
  <2>2. DueTo(d)
    BY DEF AnswersAreDue
  <2> QED BY <2>1, <2>2 DEF DueTo, PageIsReadable, FollowIsChecked, NotAnswered, PageLimit
<1> QED BY <1>1 DEF AnswersAreDue

LEMMA NextDue == IndInv /\ AnswersAreDue /\ [Next]_vars => AnswersAreDue'
<1> SUFFICES ASSUME IndInv, AnswersAreDue, [Next]_vars PROVE AnswersAreDue'
  OBVIOUS
<1>1. CASE UNCHANGED vars
  BY <1>1 DEF vars, AnswersAreDue, DueTo, PageIsReadable, FollowIsChecked, NotAnswered,
              has_user, PageLimit
<1>2. CASE Next
  <2>1. PICK c \in Clients : Handler(c) \/ \E r \in Requests : Call(c, r)
    BY <1>2 DEF Next
  <2>2. OthersKeep(c) /\ \A h : has_user(h) => has_user(h)'
    BY <2>1, OneMoves
  <2>3. CASE \E a : Answer(c, a)
    <3>1. pc'[c] = "reply"
      BY <2>3 DEF Answer, IndInv, TypeOK
    <3> QED BY <2>2, <3>1, DueStep
            DEF DueTo, PageIsReadable, FollowIsChecked, NotAnswered, EdgeLabels
  <2>4. CASE /\ pc[c] # "reply" /\ req' = req
             /\ \E l : /\ l # "timeline.page" /\ Goto(c, l)
                       /\ l \in EdgeLabels => pc[c] \in EdgeLabels
    <3>1. PICK l : /\ l # "timeline.page" /\ Goto(c, l)
                   /\ l \in EdgeLabels => pc[c] \in EdgeLabels
      BY <2>4
    <3>2. pc'[c] = l /\ resp'[c] = resp[c] /\ req'[c] = req[c]
      BY <2>4, <3>1 DEF Goto, IndInv, TypeOK
    <3>3. DueTo(c)
      BY DEF AnswersAreDue
    <3>4. DueTo(c)'
      BY <2>4, <3>1, <3>2, <3>3 DEF DueTo, PageIsReadable, FollowIsChecked, NotAnswered
    <3> QED BY <2>2, <3>4, DueStep
  <2>5. CASE Reply(c)
    <3>1. pc'[c] = "idle" /\ resp'[c] = NoReply
      BY <2>5 DEF Reply, IndInv, TypeOK
    <3> QED BY <2>2, <3>1, DueStep
            DEF DueTo, PageIsReadable, FollowIsChecked, NotAnswered, EdgeLabels
  <2>6. CASE timeline_has_user(c) /\ Goto(c, "timeline.page")
    <3>1. /\ pc[c] = "timeline.user" /\ pc'[c] = "timeline.page" /\ resp'[c] = resp[c] /\ UNCHANGED <<users, req>>
          /\ has_user(req[c].user) /\ PageLimit(req[c]) \in 1..MaxLimit
          /\ ~(req[c].cursor # Absent /\ req[c].cursor < 1)
      <4>1. pc'[c] = "timeline.page"
        BY <2>6 DEF Goto, IndInv, TypeOK
      <4> QED BY <2>6, <4>1 DEF timeline_has_user, Goto, Answer, At, store, IndInv, TypeOK
    <3> QED BY <2>2, <3>1, DueStep
            DEF DueTo, PageIsReadable, FollowIsChecked, NotAnswered, AnswersAreDue,
                EdgeLabels, has_user, PageLimit
  <2>7. CASE \E r \in Requests : Call(c, r)
    <3>1. PICK r \in Requests : Call(c, r)
      BY <2>7
    <3>2. r \in Request
      BY ServiceAssumption
    <3>3. CASE SyntaxError(r) = ""
      <4>1. /\ FirstCall(r) # "timeline.page"
            /\ r.op = "follow" => {r.from, r.to} \subseteq Handles
        BY <3>2, <3>3 DEF FirstCall, SyntaxError, Request, CreateRequest, EdgeRequest,
           PostRequest, TickRequest, TimelineRequest, OtherRequest
      <4>2. /\ pc[c] = "idle" /\ pc'[c] = FirstCall(r) /\ resp'[c] = resp[c] /\ req'[c] = r
        BY <3>1, <3>3 DEF Call, At, Goto, IndInv, TypeOK
      <4> QED BY <2>2, <4>1, <4>2, DueStep
              DEF DueTo, PageIsReadable, FollowIsChecked, NotAnswered, AnswersAreDue
    <3>4. CASE SyntaxError(r) # ""
      BY <2>3, <3>1, <3>4 DEF Call
    <3> QED BY <3>3, <3>4
  <2>8. CASE \/ create_has_user(c) \/ create_next_id(c) \/ post_has_user(c)
             \/ post_next_id(c) \/ post_now(c) \/ tick(c)
    <3>1. pc[c] # "reply" /\ req' = req
      BY <2>8 DEF create_has_user, create_next_id, post_has_user, post_next_id, post_now, tick, At
    <3>2. \/ \E a : Answer(c, a)
          \/ \E l \in {"create.next", "create.put", "post.next", "post.now", "post.put",
                       "tick.now"} : Goto(c, l)
      BY <2>8 DEF create_has_user, create_next_id, post_has_user, post_next_id, post_now, tick
    <3> QED BY <2>3, <2>4, <3>1, <3>2 DEF EdgeLabels
  <2>10. CASE put_user(c) \/ put_tweet(c) \/ tick_now(c) \/ home_timeline(c)
    BY <2>3, <2>10 DEF put_user, put_tweet, tick_now, home_timeline
  <2>11. CASE timeline_has_user(c)
    BY <2>3, <2>6, <2>11 DEF timeline_has_user
  <2>9. CASE edge_has_from(c) \/ edge_has_to(c) \/ put_follow(c) \/ delete_follow(c)
    <3>1. pc[c] \in EdgeLabels /\ pc[c] # "reply" /\ req' = req
      BY <2>9 DEF edge_has_from, edge_has_to, put_follow, delete_follow, At, EdgeLabels
    <3>2. \/ \E a : Answer(c, a)
          \/ \E l \in {"edge.to", "follow.put", "unfollow.delete"} : Goto(c, l)
      BY <2>9 DEF edge_has_from, edge_has_to, put_follow, delete_follow
    <3> QED BY <2>3, <2>4, <3>1, <3>2
  <2> QED BY <2>1, <2>5, <2>7, <2>8, <2>9, <2>10, <2>11 DEF Handler
<1> QED BY <1>1, <1>2

LEMMA DueHolds == Spec => []AnswersAreDue
<1>1. Init => AnswersAreDue
  BY DEF Init, AnswersAreDue, DueTo, PageIsReadable, FollowIsChecked, NotAnswered, EdgeLabels
<1> QED BY <1>1, NextDue, IndInvHolds, PTL DEF Spec

-----------------------------------------------------------------------------
(* Every answer is one of S_obs, on the store as it is decided *)

LEMMA OracleByRoute ==
    ASSUME NEW s, NEW r
    PROVE  /\ r.op = "create" => Oracle!Step(s, r) = Oracle!StepCreateUser(s, r)
           /\ r.op = "follow" => Oracle!Step(s, r) = Oracle!StepFollow(s, r)
           /\ r.op = "unfollow" => Oracle!Step(s, r) = Oracle!StepUnfollow(s, r)
           /\ r.op = "post" => Oracle!Step(s, r) = Oracle!StepPostTweet(s, r)
           /\ r.op = "timeline" => Oracle!Step(s, r) = Oracle!StepTimeline(s, r)
           /\ r.op = "malformed" => Oracle!Step(s, r) = Oracle!Reject(s, "malformed_request")
           /\ r.op = "unrouted" => Oracle!Step(s, r) = << ErrorBody(404, "not_found"), s >>
BY DEF Oracle!Step, Oracle!ErrorBody, ErrorBody

\* A post whose author or text is out of bounds is refused for that reason.
LEMMA OracleRefusesPost ==
    ASSUME NEW s, NEW r, r.op = "post"
    PROVE  /\ r.author \notin Handles
                => Oracle!Step(s, r) = Oracle!Reject(s, "invalid_handle")
           /\ r.author \in Handles /\ r.text \notin Texts
                => Oracle!Step(s, r) = Oracle!Reject(s, "invalid_text")
<1>1. Oracle!Step(s, r) = Oracle!StepPostTweet(s, r)
  BY OracleByRoute
<1> QED BY <1>1 DEF Oracle!StepPostTweet, Oracle!ValidHandle, Oracle!ValidText

LEMMA OracleReject ==
    ASSUME NEW s
    PROVE  /\ \A code \in {"malformed_request", "invalid_handle", "invalid_text"} :
                 Oracle!Reject(s, code) = << ErrorBody(400, code), s >>
           /\ \A code \in {"handle_taken", "unknown_user", "self_follow_forbidden",
                           "invalid_limit", "invalid_cursor"} :
                 Oracle!Reject(s, code) = << map_err(code), s >>
BY DEF Oracle!Reject, Oracle!ErrorBody, ErrorBody, map_err

LEMMA StateFields ==
    ASSUME NEW c \in Clients
    PROVE  LET s == SObsStateFor(c)
           IN  /\ s.users = users /\ s.follows = follows /\ s.tweets = tweets
               /\ s.nextUserID = tmp[c].id /\ s.nextTweetID = tmp[c].id
               /\ pc[c] = "post.put" => s.clock = tmp[c].createdAt
               /\ \A h \in Handles : Oracle!Registered(s, h) <=> has_user(h)
BY DEF SObsStateFor, Oracle!Registered, has_user, At

\* How LinearizableUpToIds judges an answer.
Allowed(c) == IF Departs(c) THEN UNCHANGED store ELSE AnswersLikeSObs(c)

\* An answer that leaves the store as it is.
LEMMA StoringNothing ==
    ASSUME NEW c \in Clients, UNCHANGED store,
           Oracle!Step(SObsStateFor(c), Submitted(c)) = << resp'[c], SObsStateFor(c) >>
    PROVE  Allowed(c)
<1> DEFINE s == SObsStateFor(c)
<1>1. store' = << s.users, s.follows, s.tweets >>
  BY StateFields DEF store
<1> HIDE DEF s
<1>2. Oracle!Step(s, Submitted(c)) = << resp'[c], s >>
  BY DEF s
<1>3. AnswersLikeSObs(c)
  BY <1>1, <1>2 DEF AnswersLikeSObs, s
<1> QED BY <1>3 DEF Allowed

\* An answer that stores something.
LEMMA StoringSome ==
    ASSUME NEW c \in Clients, NEW next,
           Oracle!Step(SObsStateFor(c), Submitted(c)) = << resp'[c], next >>,
           store' = << next.users, next.follows, next.tweets >>,
           resp'[c].status \notin {400, 500}
    PROVE  Allowed(c)
<1>1. AnswersLikeSObs(c)
  BY DEF AnswersLikeSObs
<1>2. ErrorBody(400, "unknown_user").status = 400
  BY DEF ErrorBody
<1>3. ~Departs(c)
  BY <1>2 DEF Departs
<1> QED BY <1>1, <1>3 DEF Allowed

LEMMA CallAllowed ==
    ASSUME IndInv, NEW c \in Clients, NEW r \in Requests, Call(c, r), Decides(c)
    PROVE  Allowed(c)
<1>1. Submitted(c) = r /\ pc[c] = "idle" /\ UNCHANGED store
  BY DEF Call, Submitted, At, IndInv, TypeOK
<1>2. SyntaxError(r) # ""
  BY DEF Call, Decides, Goto
<1>3. resp'[c] = ErrorBody(IF r.op = "unrouted" THEN 404 ELSE 400, SyntaxError(r))
  BY <1>2 DEF Call, Answer, IndInv, TypeOK
<1>4. r \in Request
  BY ServiceAssumption
<1>5. \/ r.op = "unrouted" /\ SyntaxError(r) = "not_found"
      \/ r.op = "malformed" /\ SyntaxError(r) = "malformed_request"
      \/ r.op = "create" /\ r.handle \notin Handles /\ SyntaxError(r) = "invalid_handle"
      \/ /\ r.op = "follow" /\ ~({r.from, r.to} \subseteq Handles)
         /\ SyntaxError(r) = "invalid_handle"
      \/ r.op = "post" /\ r.author \notin Handles /\ SyntaxError(r) = "invalid_handle"
      \/ /\ r.op = "post" /\ r.author \in Handles /\ r.text \notin Texts
         /\ SyntaxError(r) = "invalid_text"
      \/ r.op = "timeline" /\ r.user \notin Handles /\ SyntaxError(r) = "invalid_handle"
  BY <1>2, <1>4 DEF SyntaxError, Request, CreateRequest, EdgeRequest, PostRequest,
     TickRequest, TimelineRequest, OtherRequest
<1> DEFINE s == SObsStateFor(c)
<1> HIDE DEF s
<1>6. Oracle!Step(s, r)
        = << ErrorBody(IF r.op = "unrouted" THEN 404 ELSE 400, SyntaxError(r)), s >>
  <2>1. CASE r.op = "unrouted"
    BY <1>5, <2>1, OracleByRoute
  <2>2. CASE r.op # "unrouted"
    <3>1. Oracle!Step(s, r) = Oracle!Reject(s, SyntaxError(r))
      <4>1. CASE r.op = "malformed"
        BY <1>5, <4>1, OracleByRoute
      <4>2. CASE r.op = "create"
        BY <1>5, <4>2, OracleByRoute DEF Oracle!StepCreateUser, Oracle!ValidHandle
      <4>3. CASE r.op = "follow"
        BY <1>5, <4>3, OracleByRoute DEF Oracle!StepFollow, Oracle!ValidHandle
      <4>4. CASE r.op = "post"
        BY <1>5, <4>4, OracleRefusesPost
      <4>5. CASE r.op = "timeline"
        BY <1>5, <4>5, OracleByRoute DEF Oracle!StepTimeline, Oracle!ValidHandle
      <4> QED BY <1>5, <2>2, <4>1, <4>2, <4>3, <4>4, <4>5
    <3>2. SyntaxError(r) \in {"malformed_request", "invalid_handle", "invalid_text"}
      BY <1>5, <2>2
    <3> QED BY <2>2, <3>1, <3>2, OracleReject
  <2> QED BY <2>1, <2>2
<1> QED BY <1>1, <1>3, <1>6, StoringNothing DEF s

\* Past its submission a handler answers the request it holds.
LEMMA RunsOn ==
    ASSUME NEW c \in Clients, pc[c] # "idle"
    PROVE  Submitted(c) = req[c]
BY DEF Submitted, At

LEMMA CreateAllowed ==
    ASSUME IndInv, NEW c \in Clients, create_has_user(c) \/ put_user(c), Decides(c)
    PROVE  Allowed(c)
<1> DEFINE r == req[c]
           s == SObsStateFor(c)
           id == tmp[c].id
           next == [users EXCEPT ![r.handle] = id]
<1>1. pc[c] \in {"create.has", "create.put"} /\ UNCHANGED <<follows, tweets>>
  BY DEF create_has_user, put_user, At, store
<1>2. r.op = "create" /\ r.handle \in Handles /\ Submitted(c) = r
  BY <1>1, RunsOn DEF IndInv, TypeOK, RunsItsRoute, CreateLabels
<1>3. /\ s.users = users /\ s.follows = follows /\ s.tweets = tweets
      /\ s.nextUserID = id /\ (Oracle!Registered(s, r.handle) <=> has_user(r.handle))
  BY <1>2, StateFields
<1>4. CASE has_user(r.handle)
  <2>1. resp'[c] = map_err("handle_taken") /\ UNCHANGED store
    BY <1>1, <1>4 DEF create_has_user, put_user, Answer, store, IndInv, TypeOK
  <2> HIDE DEF s
  <2>2. Oracle!StepCreateUser(s, r) = << resp'[c], s >>
    BY <1>2, <1>3, <1>4, <2>1, OracleReject DEF Oracle!StepCreateUser, Oracle!ValidHandle
  <2> QED BY <1>2, <2>1, <2>2, OracleByRoute, StoringNothing DEF s
<1>5. CASE ~has_user(r.handle)
  <2>1. resp'[c] = UserBody(r.handle, id) /\ users' = next
    BY <1>5 DEF create_has_user, put_user, At, Goto, Answer, Decides, IndInv, TypeOK
  <2> DEFINE stored == [s EXCEPT !.users = next]
             after == [s EXCEPT !.users = next, !.nextUserID = id + 1]
  <2>2. after.users = next /\ after.follows = follows /\ after.tweets = tweets
    <3>1. stored.users = next /\ stored.follows = follows /\ stored.tweets = tweets
      <4> HIDE DEF next
      <4> QED BY DEF SObsStateFor
    <3>2. after = [stored EXCEPT !.nextUserID = id + 1]
      OBVIOUS
    <3> HIDE DEF stored, after, next, s
    <3> QED BY <3>1, <3>2
  <2> HIDE DEF s
  <2>3. Oracle!StepCreateUser(s, r) = << UserBody(r.handle, id), after >>
    BY <1>2, <1>3, <1>5 DEF Oracle!StepCreateUser, Oracle!ValidHandle, Oracle!UserBody, UserBody
  <2> HIDE DEF next, after
  <2>4. Oracle!Step(SObsStateFor(c), Submitted(c)) = << resp'[c], after >>
    BY <1>2, <2>1, <2>3, OracleByRoute DEF s
  <2>5. store' = << after.users, after.follows, after.tweets >>
    BY <1>1, <2>1, <2>2 DEF store
  <2>6. resp'[c].status = 201
    BY <2>1 DEF UserBody
  <2> QED BY <2>4, <2>5, <2>6, StoringSome
<1> QED BY <1>4, <1>5

\* The post is S_obs's with the id and the stamp it drew, or it departs.
LEMMA PostAllowed ==
    ASSUME IndInv, NEW c \in Clients, post_has_user(c) \/ put_tweet(c), Decides(c)
    PROVE  Allowed(c)
<1> DEFINE r == req[c]
           s == SObsStateFor(c)
           t == NewTweet(c)
           log == Append(tweets, t)
<1>1. pc[c] \in {"post.has", "post.put"} /\ UNCHANGED <<users, follows>>
  BY DEF post_has_user, put_tweet, At, store
<1>2. r.op = "post" /\ r.author \in Handles /\ r.text \in Texts /\ Submitted(c) = r
  BY <1>1, RunsOn DEF IndInv, TypeOK, RunsItsRoute, PostLabels
<1>3. /\ s.users = users /\ s.follows = follows /\ s.tweets = tweets
      /\ s.nextTweetID = tmp[c].id /\ (pc[c] = "post.put" => s.clock = tmp[c].createdAt)
      /\ Oracle!Registered(s, r.author) <=> has_user(r.author)
  BY <1>2, StateFields
<1>4. CASE post_has_user(c)
  <2>1. /\ ~has_user(r.author) /\ resp'[c] = map_err("unknown_user") /\ UNCHANGED store
    BY <1>4 DEF post_has_user, Goto, Answer, Decides, IndInv, TypeOK
  <2> HIDE DEF s
  <2>2. Oracle!StepPostTweet(s, r) = << resp'[c], s >>
    BY <1>2, <1>3, <2>1, OracleReject
       DEF Oracle!StepPostTweet, Oracle!ValidHandle, Oracle!ValidText
  <2> QED BY <1>2, <2>1, <2>2, OracleByRoute, StoringNothing DEF s
<1>5. CASE put_tweet(c)
  <2>1. pc[c] = "post.put" /\ has_user(r.author) /\ t.author = r.author
    BY <1>5 DEF put_tweet, At, IndInv, ChecksStillHold, IdLabels, NewTweet
  <2>2. CASE put_tweet_error(t) = ""
    <3>1. resp'[c] = TweetBody(t) /\ tweets' = log
      BY <1>5, <2>2 DEF put_tweet, Answer, IndInv, TypeOK
    <3> DEFINE after == [s EXCEPT !.tweets = log, !.nextTweetID = tmp[c].id + 1]
    <3> HIDE DEF log
    <3>2. after.users = users /\ after.follows = follows /\ after.tweets = log
      BY DEF SObsStateFor
    <3> HIDE DEF s
    <3>3. t = [id |-> s.nextTweetID, author |-> r.author, text |-> r.text, createdAt |-> s.clock]
      BY <1>3, <2>1 DEF NewTweet
    <3> HIDE DEF t
    <3>4. Oracle!StepPostTweet(s, r) = << TweetBody(t), after >>
      BY <1>2, <1>3, <2>1, <3>3 DEF Oracle!StepPostTweet, Oracle!ValidHandle,
         Oracle!ValidText, Oracle!TweetBody, TweetBody, log
    <3> HIDE DEF after
    <3>5. Oracle!Step(SObsStateFor(c), Submitted(c)) = << resp'[c], after >>
      BY <1>2, <3>1, <3>4, OracleByRoute DEF s
    <3>6. store' = << after.users, after.follows, after.tweets >>
      BY <1>1, <3>1, <3>2 DEF store
    <3>7. resp'[c].status = 201
      BY <3>1 DEF TweetBody
    <3> QED BY <3>5, <3>6, <3>7, StoringSome
  <2>3. CASE put_tweet_error(t) # ""
    <3>1. put_tweet_error(t) = "non_monotonic_append"
      BY <2>1, <2>3 DEF put_tweet_error
    <3>2. resp'[c] = map_err("non_monotonic_append") /\ UNCHANGED store
      BY <1>1, <1>5, <2>3, <3>1 DEF put_tweet, Answer, store, IndInv, TypeOK
    <3>3. resp'[c].status = 500
      BY <3>2 DEF map_err, ErrorBody
    <3> QED BY <3>2, <3>3 DEF Departs, Allowed
  <2> QED BY <2>2, <2>3
<1> QED BY <1>4, <1>5


\* What an edge request holds: an unfollow's handles may be anything.
LEMMA EdgeRequestOf ==
    ASSUME IndInv, AnswersAreDue, NEW c \in Clients, pc[c] \in EdgeLabels
    PROVE  /\ pc[c] # "idle" /\ req[c].op \in {"follow", "unfollow"}
           /\ BadUnfollow(req[c]) \/ (req[c].from \in Handles /\ req[c].to \in Handles)
<1>1. req[c].op \in {"follow", "unfollow"} /\ pc[c] # "idle"
  BY DEF IndInv, TypeOK, RunsItsRoute, EdgeLabels
<1>2. req[c].op = "follow" => {req[c].from, req[c].to} \subseteq Handles
  BY DEF AnswersAreDue, DueTo, FollowIsChecked
<1> QED BY <1>1, <1>2 DEF BadUnfollow

LEMMA EdgeAllowed ==
    ASSUME IndInv, AnswersAreDue, NEW c \in Clients,
           edge_has_from(c) \/ edge_has_to(c), Decides(c)
    PROVE  Allowed(c)
<1> DEFINE r == req[c]
           s == SObsStateFor(c)
<1>1. pc[c] \in {"edge.from", "edge.to"} /\ UNCHANGED store
  BY DEF edge_has_from, edge_has_to, At
<1>2. /\ r.op \in {"follow", "unfollow"} /\ Submitted(c) = r
      /\ BadUnfollow(r) \/ (r.from \in Handles /\ r.to \in Handles)
  BY <1>1, EdgeRequestOf, RunsOn DEF EdgeLabels
<1>3. \/ ~has_user(r.from) /\ resp'[c] = map_err("unknown_user")
      \/ ~has_user(r.to) /\ resp'[c] = map_err("unknown_user")
      \/ /\ has_user(r.from) /\ has_user(r.to) /\ r.op = "follow" /\ r.from = r.to
         /\ resp'[c] = map_err("self_follow_forbidden")
  <2>1. pc[c] = "edge.to" => has_user(r.from)
    BY DEF IndInv, ChecksStillHold
  <2> QED BY <1>2, <2>1 DEF edge_has_from, edge_has_to, Decides, Goto, Answer, At, IndInv, TypeOK
<1>4. CASE BadUnfollow(r)
  <2>1. resp'[c] = ErrorBody(400, "unknown_user")
    BY <1>3, <1>4 DEF BadUnfollow, has_user, map_err
  <2> QED BY <1>1, <1>2, <1>4, <2>1 DEF Departs, Allowed
<1>5. CASE r.from \in Handles /\ r.to \in Handles
  <2>1. /\ Oracle!Registered(s, r.from) <=> has_user(r.from)
        /\ Oracle!Registered(s, r.to) <=> has_user(r.to)
    BY <1>5, StateFields
  <2> HIDE DEF s
  <2>2. CASE r.op = "follow"
    <3>1. Oracle!StepFollow(s, r) = << resp'[c], s >>
      BY <1>3, <1>5, <2>1, OracleReject DEF Oracle!StepFollow, Oracle!ValidHandle
    <3> QED BY <1>1, <1>2, <2>2, <3>1, OracleByRoute, StoringNothing DEF s
  <2>3. CASE r.op = "unfollow"
    <3>1. Oracle!StepUnfollow(s, r) = << resp'[c], s >>
      BY <1>3, <1>5, <2>1, <2>3, OracleReject DEF Oracle!StepUnfollow, Oracle!ValidHandle
    <3> QED BY <1>1, <1>2, <2>3, <3>1, OracleByRoute, StoringNothing DEF s
  <2> QED BY <1>2, <2>2, <2>3
<1> QED BY <1>2, <1>4, <1>5

\* The store's own lookups find the users the service found.
LEMMA PutEdgeAllowed ==
    ASSUME IndInv, AnswersAreDue, NEW c \in Clients, put_follow(c) \/ delete_follow(c)
    PROVE  Allowed(c)
<1> DEFINE r == req[c]
           s == SObsStateFor(c)
           edges == IF r.op = "follow" THEN follows \cup {<<r.from, r.to>>}
                    ELSE follows \ {<<r.from, r.to>>}
           after == [s EXCEPT !.follows = edges]
<1>1. pc[c] \in {"follow.put", "unfollow.delete"} /\ UNCHANGED <<users, tweets>>
  BY DEF put_follow, delete_follow, At
<1>2. has_user(r.from) /\ has_user(r.to)
  BY <1>1 DEF IndInv, ChecksStillHold
<1>3. /\ pc[c] = "follow.put" => r.op = "follow" /\ r.from # r.to
      /\ pc[c] = "unfollow.delete" => r.op = "unfollow"
  BY DEF IndInv, TypeOK, RunsItsRoute
<1>4. r.from \in Handles /\ r.to \in Handles /\ Submitted(c) = r
  BY <1>1, <1>2, RunsOn DEF has_user
<1>5. follows' = edges /\ resp'[c] = NoContent
  <2>1. CASE put_follow(c)
    BY <1>2, <1>3, <2>1 DEF put_follow, At, Answer, IndInv, TypeOK
  <2>2. CASE delete_follow(c)
    BY <1>3, <2>2 DEF delete_follow, At, Answer, IndInv, TypeOK
  <2> QED BY <2>1, <2>2
<1>6. /\ s.follows = follows
      /\ Oracle!Registered(s, r.from) /\ Oracle!Registered(s, r.to)
  BY <1>2, <1>4, StateFields
<1>7. after.users = users /\ after.follows = edges /\ after.tweets = tweets
  <2> HIDE DEF edges
  <2> QED BY DEF SObsStateFor
<1> HIDE DEF s
<1>8. Oracle!Step(s, r) = << NoContent, after >>
  <2>1. CASE r.op = "follow"
    <3>1. Oracle!StepFollow(s, r) = << NoContent, after >>
      BY <1>1, <1>3, <1>4, <1>6, <2>1
         DEF Oracle!StepFollow, Oracle!ValidHandle, Oracle!NoContent, NoContent
    <3> QED BY <2>1, <3>1, OracleByRoute
  <2>2. CASE r.op = "unfollow"
    <3>1. Oracle!StepUnfollow(s, r) = << NoContent, after >>
      BY <1>4, <1>6, <2>2
         DEF Oracle!StepUnfollow, Oracle!ValidHandle, Oracle!NoContent, NoContent
    <3> QED BY <2>2, <3>1, OracleByRoute
  <2> QED BY <1>1, <1>3, <2>1, <2>2
<1> HIDE DEF edges, after
<1>9. store' = << after.users, after.follows, after.tweets >>
  BY <1>1, <1>5, <1>7 DEF store
<1>10. resp'[c].status = 204
  BY <1>5 DEF NoContent
<1> QED BY <1>4, <1>5, <1>8, <1>9, <1>10, StoringSome DEF s

\* What S_obs pages for user u below the cursor.
Timeline(u, cursor) == Kept(Reverse(tweets), ShownTo(tweets, follows, u, cursor, Absent))

LEMMA VisibleIs ==
    ASSUME NEW c \in Clients, NEW u, NEW cursor
    PROVE  Oracle!VisibleBelow(SObsStateFor(c), u, cursor) = Timeline(u, cursor)
<1> DEFINE s == SObsStateFor(c)
           newest == Reverse(tweets)
           shown == ShownTo(tweets, follows, u, cursor, Absent)
<1>1. s.tweets = tweets /\ s.follows = follows
  BY StateFields
<1> HIDE DEF s
<1>2. Oracle!VisibleBelow(s, u, cursor) = Oracle!Kept(newest, shown)
  BY <1>1 DEF Oracle!VisibleBelow, Oracle!Reverse, Reverse, ShownTo
<1>3. Oracle!Kept(newest, shown) = Kept(newest, shown)
  BY DEF Oracle!Kept, Kept
<1> QED BY <1>2, <1>3 DEF s, Timeline

LEMMA PageIsCut ==
    ASSUME IndInv, NEW u, NEW limit \in Nat, NEW cursor \in Int \cup {Absent},
           cursor = Absent \/ cursor >= 1
    PROVE  HomeTimeline(tweets, follows, u, limit, IF cursor = Absent THEN 0 ELSE cursor)
             = Cut(Timeline(u, cursor), limit)
<1>1. tweets \in Seq(Tweet)
  BY DEF IndInv, TypeOK
<1> DEFINE from == IF cursor = Absent THEN 0 ELSE cursor
           shown == ShownTo(tweets, follows, u, cursor, Absent)
<1>2. HomeTimeline(tweets, follows, u, limit, from) = Cut(Kept(Reverse(tweets), shown), limit)
  BY <1>1, HomeTimelineIsCut
<1> QED BY <1>2 DEF Timeline

LEMMA PageBodyIsCut ==
    ASSUME NEW kept \in Seq(Tweet), NEW limit \in Nat \ {0}
    PROVE  LET got == Cut(kept, limit)
           IN  Oracle!PageBody(kept, limit)
                 = TimelineBody(got.page, IF got.more THEN Last(got.page).id ELSE Absent)
<1> DEFINE got == Cut(kept, limit)
           page == SubSeq(kept, 1, IF Len(kept) < limit THEN Len(kept) ELSE limit)
<1>1. got.page = page
  BY DEF Cut
<1>2. got.more <=> Len(kept) > limit
  BY DEF Cut
<1>3. Oracle!PageBody(kept, limit)
        = TimelineBody(page, IF Len(kept) > limit THEN Last(page).id ELSE Absent)
  BY DEF Oracle!PageBody, Oracle!TimelineBody, Oracle!Last, TimelineBody, Last
<1> HIDE DEF got, page
<1> QED BY <1>1, <1>2, <1>3 DEF got

LEMMA TimelineAllowed ==
    ASSUME IndInv, NEW c \in Clients, timeline_has_user(c), Decides(c)
    PROVE  Allowed(c)
<1> DEFINE r == req[c]
           s == SObsStateFor(c)
<1>1. pc[c] = "timeline.user" /\ UNCHANGED store
  BY DEF timeline_has_user, At
<1>2. r.op = "timeline" /\ r.user \in Handles /\ Submitted(c) = r
  BY <1>1, RunsOn DEF IndInv, TypeOK, RunsItsRoute, TimelineLabels
<1>3. \/ ~has_user(r.user) /\ resp'[c] = map_err("unknown_user")
      \/ /\ has_user(r.user) /\ PageLimit(r) \notin 1..MaxLimit
         /\ resp'[c] = map_err("invalid_limit")
      \/ /\ has_user(r.user) /\ PageLimit(r) \in 1..MaxLimit
         /\ r.cursor # Absent /\ r.cursor < 1 /\ resp'[c] = map_err("invalid_cursor")
  BY DEF timeline_has_user, Decides, Goto, Answer, IndInv, TypeOK
<1>4. Oracle!Registered(s, r.user) <=> has_user(r.user)
  BY <1>2, StateFields
<1> HIDE DEF s
<1>5. Oracle!StepTimeline(s, r) = << resp'[c], s >>
  BY <1>2, <1>3, <1>4, OracleReject DEF Oracle!StepTimeline, Oracle!ValidHandle, PageLimit
<1> QED BY <1>1, <1>2, <1>5, OracleByRoute, StoringNothing DEF s

LEMMA PageAllowed ==
    ASSUME IndInv, AnswersAreDue, NEW c \in Clients, home_timeline(c)
    PROVE  Allowed(c)
<1> DEFINE r == req[c]
           s == SObsStateFor(c)
           limit == PageLimit(r)
           kept == Timeline(r.user, r.cursor)
           got == Cut(kept, limit)
           body == TimelineBody(got.page, IF got.more THEN Last(got.page).id ELSE Absent)
<1>1. pc[c] = "timeline.page" /\ UNCHANGED store
  BY DEF home_timeline, At
<1>2. r.op = "timeline" /\ r.user \in Handles /\ Submitted(c) = r
  BY <1>1, RunsOn DEF IndInv, TypeOK, RunsItsRoute, TimelineLabels
<1>3. r.cursor \in Int \cup {Absent}
  <2>1. req[c] \in Request
    BY <1>2, ServiceAssumption DEF IndInv, TypeOK, NoRequest
  <2> QED BY <1>2, <2>1 DEF Request, CreateRequest, EdgeRequest, PostRequest, TickRequest,
                            TimelineRequest, OtherRequest
<1>4. has_user(r.user) /\ limit \in 1..MaxLimit /\ ~(r.cursor # Absent /\ r.cursor < 1)
  BY <1>1 DEF AnswersAreDue, DueTo, PageIsReadable
<1>5. limit \in Nat \ {0} /\ (r.cursor = Absent \/ r.cursor >= 1)
  BY <1>3, <1>4, WireAssumption
<1>6. resp'[c] = body
  <2>1. HomeTimeline(tweets, follows, r.user, limit, IF r.cursor = Absent THEN 0 ELSE r.cursor) = got
    BY <1>3, <1>5, PageIsCut
  <2> HIDE DEF got
  <2> QED BY <2>1 DEF home_timeline, Answer, IndInv, TypeOK
<1>7. kept \in Seq(Tweet)
  BY ReverseType, KeptIsSelection DEF Timeline, IndInv, TypeOK
<1>8. Oracle!PageBody(kept, limit) = body
  BY <1>5, <1>7, PageBodyIsCut
<1>9. Oracle!VisibleBelow(s, r.user, r.cursor) = kept /\ Oracle!Registered(s, r.user)
  BY <1>2, <1>4, VisibleIs, StateFields
<1> HIDE DEF body, kept, s
<1>10. Oracle!StepTimeline(s, r) = << body, s >>
  BY <1>2, <1>4, <1>8, <1>9 DEF Oracle!StepTimeline, Oracle!ValidHandle, PageLimit
<1> QED BY <1>1, <1>2, <1>6, <1>10, OracleByRoute, StoringNothing DEF s

-----------------------------------------------------------------------------
(* Linearizability up to ids *)

\* The store changes only when an answer is decided.
LEMMA StoreChanges ==
    ASSUME IndInv, AnswersAreDue, NEW c \in Clients,
           Handler(c) \/ \E r \in Requests : Call(c, r)
    PROVE  UNCHANGED store \/ Decides(c)
<1>1. CASE put_user(c) \/ put_tweet(c) \/ put_follow(c) \/ delete_follow(c)
  <2>1. resp[c] = NoReply /\ pc'[c] = "reply"
    BY <1>1 DEF put_user, put_tweet, put_follow, delete_follow, At, Answer, AnswersAreDue,
       DueTo, NotAnswered, IndInv, TypeOK
  <2>2. \E a : a.status # 0 /\ resp' = [resp EXCEPT ![c] = a]
    <3>1. \A code : map_err(code).status # 0
      BY DEF map_err, ErrorBody
    <3>2. /\ \A h, id : UserBody(h, id).status # 0
          /\ \A t : TweetBody(t).status # 0
          /\ NoContent.status # 0
      BY DEF UserBody, TweetBody, NoContent
    <3> QED BY <1>1, <3>1, <3>2 DEF put_user, put_tweet, put_follow, delete_follow, Answer
  <2>3. resp'[c].status # 0
    BY <2>2 DEF IndInv, TypeOK
  <2>4. resp'[c] # NoReply
    BY <2>3 DEF NoReply
  <2> QED BY <2>1, <2>4 DEF Decides
<1>2. CASE ~(put_user(c) \/ put_tweet(c) \/ put_follow(c) \/ delete_follow(c))
  BY <1>2 DEF Handler, Call, Reply, create_has_user, create_next_id, post_has_user,
     post_next_id, post_now, edge_has_from, edge_has_to, tick, tick_now, timeline_has_user,
     home_timeline
<1> QED BY <1>1, <1>2

LEMMA EachAnswer ==
    ASSUME IndInv, AnswersAreDue, NEW c \in Clients,
           Handler(c) \/ \E r \in Requests : Call(c, r),
           Decides(c), Submitted(c).op # "tick"
    PROVE  Allowed(c)
<1>1. CASE Reply(c) \/ create_next_id(c) \/ post_next_id(c) \/ post_now(c) \/ tick(c)
  <2>1. resp' = resp \/ resp'[c] = NoReply
    BY <1>1 DEF Reply, create_next_id, post_next_id, post_now, tick, Goto, IndInv, TypeOK
  <2> QED BY <2>1 DEF Decides
<1>2. CASE tick_now(c)
  <2>1. pc[c] = "tick.now" /\ req[c].op = "tick"
    BY <1>2 DEF tick_now, At, IndInv, TypeOK, RunsItsRoute, TickLabels
  <2> QED BY <2>1, RunsOn
<1> QED BY <1>1, <1>2, CallAllowed, CreateAllowed, PostAllowed, EdgeAllowed, PutEdgeAllowed,
           TimelineAllowed, PageAllowed
        DEF Handler

LEMMA NextAnswers ==
    IndInv /\ AnswersAreDue /\ [Next]_vars =>
      [/\ \A c \in Clients : (Decides(c) /\ Submitted(c).op # "tick") =>
             IF Departs(c) THEN UNCHANGED store ELSE AnswersLikeSObs(c)
       /\ UNCHANGED store \/ \E c \in Clients : Decides(c)]_vars
<1> SUFFICES ASSUME IndInv, AnswersAreDue, [Next]_vars
    PROVE  [/\ \A c \in Clients : (Decides(c) /\ Submitted(c).op # "tick") =>
                  IF Departs(c) THEN UNCHANGED store ELSE AnswersLikeSObs(c)
            /\ UNCHANGED store \/ \E c \in Clients : Decides(c)]_vars
  OBVIOUS
<1>1. CASE UNCHANGED vars
  BY <1>1
<1>2. CASE Next
  <2>1. PICK c \in Clients : Handler(c) \/ \E r \in Requests : Call(c, r)
    BY <1>2 DEF Next
  <2>2. \A d \in Clients : Decides(d) => d = c
    BY <2>1, OneMoves DEF OthersKeep, Decides
  <2>3. \A d \in Clients : (Decides(d) /\ Submitted(d).op # "tick") => Allowed(d)
    BY <2>1, <2>2, EachAnswer
  <2> QED BY <2>1, <2>3, StoreChanges DEF Allowed
<1> QED BY <1>1, <1>2

(* Whatever the clients do, each answer but a tick's is the one S_obs      *)
(* (spec/s_obs/step.go) gives on the store at the step that decides it,    *)
(* with the id and the stamp the request drew; the two answers S_obs would *)
(* not give change nothing, and no other step changes the store.           *)
THEOREM RustIsLinearizable == Spec => LinearizableUpToIds
BY IndInvHolds, DueHolds, NextAnswers, PTL DEF Spec, LinearizableUpToIds

-----------------------------------------------------------------------------
(* The operator (RustAdmin): what a core can be served from *)

\* Records name users that exist.
RecordsAreKnown ==
    /\ \A t \in Range(tweets) : users[t.author] # 0
    /\ \A e \in follows : users[e[1]] # 0 /\ users[e[2]] # 0

\* An id is never 0, the mark of a handle that is not taken.
Ready(s) == CanServe(s) /\ \A i \in DOMAIN s.tweets : s.tweets[i].id # 0

Serving == StrongInv /\ RecordsAreKnown

LEMMA RecordsStayKnown ==
    ASSUME Serving, [Next]_vars
    PROVE  RecordsAreKnown'
<1>1. TypeOK /\ RecordsAreKnown
  BY DEF Serving, StrongInv
<1>2. /\ \A t \in Range(tweets) : t.author \in Handles
      /\ \A e \in follows : e[1] \in Handles /\ e[2] \in Handles
  BY <1>1, LogEntries DEF TypeOK, Tweet, Edge
<1>3. ASSUME NEW c \in Clients, put_user(c) PROVE RecordsAreKnown'
  <2>1. /\ req[c].handle \in Handles /\ tmp[c].id \in Nat /\ tmp[c].id # 0
        /\ users \in [Handles -> Nat]
    BY <1>1, <1>3 DEF put_user, At, TypeOK, RunsItsRoute, CreateLabels, Serving, StrongInv,
       ClientInv
  <2>2. \A h \in Handles : users[h] # 0 => users'[h] # 0
    BY <1>3, <2>1 DEF put_user
  <2>3. UNCHANGED <<follows, tweets>>
    BY <1>3 DEF put_user
  <2> QED BY <1>1, <1>2, <2>2, <2>3 DEF RecordsAreKnown
<1>4. ASSUME NEW c \in Clients, put_tweet(c) PROVE RecordsAreKnown'
  <2>1. UNCHANGED <<users, follows>>
    BY <1>4 DEF put_tweet
  <2>2. CASE put_tweet_error(NewTweet(c)) = ""
    <3>1. has_user(NewTweet(c).author) /\ tweets' = Append(tweets, NewTweet(c))
      BY <1>4, <2>2 DEF put_tweet, put_tweet_error
    <3>2. NewTweet(c) \in Tweet
      BY <1>1, <1>4 DEF put_tweet, At, TypeOK, RunsItsRoute, NewTweet, Tweet, PostLabels
    <3>3. Range(tweets') = Range(tweets) \cup {NewTweet(c)}
      BY <1>1, <3>1, <3>2, AppendEntries
    <3> QED BY <1>1, <2>1, <3>1, <3>3 DEF RecordsAreKnown, has_user
  <2>3. CASE put_tweet_error(NewTweet(c)) # ""
    BY <1>1, <1>4, <2>1, <2>3 DEF put_tweet, RecordsAreKnown
  <2> QED BY <2>2, <2>3
<1>5. ASSUME NEW c \in Clients, put_follow(c) \/ delete_follow(c) PROVE RecordsAreKnown'
  <2>1. UNCHANGED <<users, tweets>>
    BY <1>5 DEF put_follow, delete_follow
  <2>2. \A e \in follows' : \/ e \in follows
                            \/ has_user(e[1]) /\ has_user(e[2])
    BY <1>5 DEF put_follow, delete_follow
  <2> QED BY <1>1, <2>1, <2>2 DEF RecordsAreKnown, has_user
<1>6. CASE UNCHANGED <<users, follows, tweets>>
  BY <1>1, <1>6 DEF RecordsAreKnown
<1>7. ASSUME NEW c \in Clients, Handler(c) \/ \E r \in Requests : Call(c, r)
      PROVE  \/ put_user(c) \/ put_tweet(c) \/ put_follow(c) \/ delete_follow(c)
             \/ UNCHANGED <<users, follows, tweets>>
  BY <1>7 DEF Handler, Call, Reply, create_has_user, create_next_id, post_has_user,
     post_next_id, post_now, edge_has_from, edge_has_to, tick, tick_now, timeline_has_user,
     home_timeline, store
<1> QED BY <1>3, <1>4, <1>5, <1>6, <1>7 DEF Next, vars

LEMMA LogTypes ==
    ASSUME NEW log \in Seq(Tweet)
    PROVE  /\ DOMAIN log = 1..Len(log) /\ Len(log) \in Nat
           /\ \A i \in DOMAIN log : /\ log[i] \in Tweet
                                    /\ log[i].id \in Nat /\ log[i].createdAt \in Nat
                                    /\ log[i].author \in Handles
<1>1. \A i \in DOMAIN log : log[i] \in Tweet
  OBVIOUS
<1> QED BY <1>1 DEF Tweet

\* A core that serves holds what it can be served from ...
LEMMA ServesFromHeld == ASSUME Serving PROVE Held \in Snapshot /\ Ready(Held)
<1>1. /\ users \in [Handles -> Nat] /\ follows \subseteq Edge /\ tweets \in Seq(Tweet)
      /\ user_ids \in Nat /\ tweet_ids \in Nat /\ clk \in Nat
  BY DEF Serving, StrongInv, TypeOK
<1>2. Held \in Snapshot
  BY <1>1 DEF Held, Snapshot
<1>3. \A i \in DOMAIN tweets : tweets[i] \in Range(tweets)
  BY DEF Range
<1>4. /\ \A i \in DOMAIN tweets : /\ tweets[i].id \in 1..tweet_ids
                                  /\ tweets[i].createdAt <= clk
                                  /\ users[tweets[i].author] # 0
      /\ \A e \in follows : users[e[1]] # 0 /\ users[e[2]] # 0
  BY <1>3 DEF Serving, StrongInv, StoreInv, RecordsAreKnown
<1>5. /\ \A h \in Handles : users[h] <= user_ids
      /\ \A g, h \in Handles : users[g] # 0 /\ users[g] = users[h] => g = h
  BY DEF Serving, StrongInv, StoreInv, has_user
<1>6. \A i \in DOMAIN tweets : tweets[i].id <= tweet_ids /\ tweets[i].id # 0
  BY <1>1, <1>4
<1>7. IsMonotoneLog(tweets)
  BY DEF Serving, StrongInv, StoreInv, LogIsMonotone
<1> QED BY <1>2, <1>4, <1>5, <1>6, <1>7 DEF Ready, CanServe, Grounded, Held

\* ... and with nobody about it serves if it holds such a thing.
LEMMA HeldServes == TypeOK /\ Ready(Held) /\ Quiet => Serving
<1> SUFFICES ASSUME TypeOK, Ready(Held), Quiet PROVE Serving
  OBVIOUS
<1>1. /\ users \in [Handles -> Nat] /\ tweets \in Seq(Tweet)
      /\ user_ids \in Nat /\ tweet_ids \in Nat /\ clk \in Nat
  BY DEF TypeOK
<1>2. /\ \A h \in Handles : users[h] <= user_ids
      /\ \A g, h \in Handles : users[g] # 0 /\ users[g] = users[h] => g = h
      /\ \A i \in DOMAIN tweets :
            /\ tweets[i].id <= tweet_ids
            /\ tweets[i].id # 0
            /\ tweets[i].createdAt <= clk
            /\ users[tweets[i].author] # 0
      /\ \A e \in follows : users[e[1]] # 0 /\ users[e[2]] # 0
      /\ IsMonotoneLog(tweets)
  BY DEF Ready, CanServe, Grounded, Held
<1>3. \A i \in DOMAIN tweets : tweets[i].id \in Nat
  BY <1>1, LogTypes
<1>4. \A t \in Range(tweets) : \E i \in DOMAIN tweets : t = tweets[i]
  BY DEF Range
<1>5. \A i \in DOMAIN tweets : tweets[i].id \in 1..tweet_ids
  BY <1>1, <1>2, <1>3
<1>6. StoreInv
  BY <1>2, <1>4, <1>5 DEF StoreInv, LogIsMonotone, has_user
<1>7. RecordsAreKnown
  BY <1>2, <1>4 DEF RecordsAreKnown
<1>8. \A c \in Clients : pc[c] = "idle" /\ resp[c].status = 0
  BY DEF Quiet, At, TypeOK
<1>9. \A c \in Clients : ClientInv(c)
  BY <1>8 DEF ClientInv, ChecksStillHold, Durable, Accepted, Overtaken, IdLabels
<1>10. \A c, d \in Clients : PairInv(c, d)
  BY <1>8 DEF PairInv, Apart, Accepted, IdLabels
<1> QED BY <1>6, <1>7, <1>9, <1>10 DEF Serving, StrongInv

LEMMA HeldServesNext == TypeOK' /\ Ready(Held)' /\ Quiet' => Serving'
BY HeldServes, PTL

\* MemStore::replace finds a log of the corner's own in order, and leaves it so.
LEMMA SortChangesNothing ==
    ASSUME NEW log \in Seq(Tweet), IsMonotoneLog(log)
    PROVE  sort_by_stamp_and_id(log) = log
<1>1. DOMAIN log \subseteq Nat
  BY LogTypes
<1>2. \A i \in DOMAIN log : log[i].id \in Nat /\ log[i].createdAt \in Nat
  BY LogTypes
<1>3. \A i, j \in DOMAIN log :
         i < j => log[i].id < log[j].id /\ log[i].createdAt <= log[j].createdAt
  BY AdjacentIsPairwise DEF Stamped, Tweet
<1>4. ASSUME NEW i \in DOMAIN log, NEW j \in DOMAIN log, i <= j
      PROVE  <<j, i>> \notin OlderPairs(log)
  <2>1. ~Older(log[j], log[i])
    BY <1>1, <1>2, <1>3, <1>4 DEF Older
  <2> QED BY <2>1 DEF OlderPairs
<1> QED BY <1>4, SortKeepsOrder DEF sort_by_stamp_and_id

-----------------------------------------------------------------------------
(* Where the operator is *)

\* The operator has not come to this part yet.
Left(part) == \E i \in DOMAIN todo : todo[i] = part

\* The suffixes of the order in which parts are read, and written.
ReadOrders == {<<"clk", "usr", "tw", "store">>, <<"usr", "tw", "store">>,
               <<"tw", "store">>, <<"store">>}
WriteOrders == {<<"store", "usr", "tw", "clk">>, <<"usr", "tw", "clk">>,
                <<"tw", "clk">>, <<"clk">>}

OperatorTypes ==
    /\ task \in {"idle", "snapshot", "load"}
    /\ todo \in CASE task = "idle" -> {<< >>}
                  [] task = "snapshot" -> ReadOrders
                  [] task = "load" -> WriteOrders
    /\ snap \in Snapshot

\* What is being taken, if the rest were read now.
Snapped == [users |-> IF Left("store") THEN users ELSE snap.users,
            follows |-> IF Left("store") THEN follows ELSE snap.follows,
            tweets |-> IF Left("store") THEN tweets ELSE snap.tweets,
            usr |-> IF Left("usr") THEN user_ids ELSE snap.usr,
            tw |-> IF Left("tw") THEN tweet_ids ELSE snap.tw,
            clk |-> IF Left("clk") THEN clk ELSE snap.clk]

\* What will be served from, once the rest is written.
Loaded == [users |-> IF Left("store") THEN snap.users ELSE users,
           follows |-> IF Left("store") THEN snap.follows ELSE follows,
           tweets |-> IF Left("store") THEN snap.tweets ELSE tweets,
           usr |-> IF Left("usr") THEN snap.usr ELSE user_ids,
           tw |-> IF Left("tw") THEN snap.tw ELSE tweet_ids,
           clk |-> IF Left("clk") THEN snap.clk ELSE clk]

OperatorInv ==
    /\ TypeOK
    /\ OperatorTypes
    /\ task # "idle" => Quiet
    /\ task # "load" => Serving
    /\ task = "snapshot" => Ready(Snapped)
    /\ task # "snapshot" => Ready(snap)
    /\ task = "load" => Ready(Loaded)

In(p, parts) == \E i \in DOMAIN parts : parts[i] = p

LEMMA InShortLists ==
    /\ \A p : ~In(p, << >>)
    /\ \A p, a : In(p, <<a>>) <=> p = a
    /\ \A p, a, b : In(p, <<a, b>>) <=> p = a \/ p = b
    /\ \A p, a, b, c : In(p, <<a, b, c>>) <=> p = a \/ p = b \/ p = c
    /\ \A p, a, b, c, d : In(p, <<a, b, c, d>>) <=> p = a \/ p = b \/ p = c \/ p = d
<1>1. \A p : ~In(p, << >>)
  BY DEF In
<1>2. \A p, a : In(p, <<a>>) <=> p = a
  BY DEF In
<1>3. ASSUME NEW p, NEW a, NEW b PROVE In(p, <<a, b>>) <=> p = a \/ p = b
  <2>1. DOMAIN <<a, b>> = 1..2 /\ <<a, b>>[1] = a /\ <<a, b>>[2] = b
    OBVIOUS
  <2>2. \A i : i \in 1..2 <=> i = 1 \/ i = 2
    OBVIOUS
  <2> QED BY <2>1, <2>2 DEF In
<1>4. ASSUME NEW p, NEW a, NEW b, NEW c
      PROVE  In(p, <<a, b, c>>) <=> p = a \/ p = b \/ p = c
  <2>1. /\ DOMAIN <<a, b, c>> = 1..3 /\ <<a, b, c>>[1] = a /\ <<a, b, c>>[2] = b
        /\ <<a, b, c>>[3] = c
    OBVIOUS
  <2>2. \A i : i \in 1..3 <=> i = 1 \/ i = 2 \/ i = 3
    OBVIOUS
  <2> QED BY <2>1, <2>2 DEF In
<1>5. ASSUME NEW p, NEW a, NEW b, NEW c, NEW d
      PROVE  In(p, <<a, b, c, d>>) <=> p = a \/ p = b \/ p = c \/ p = d
  <2>1. /\ DOMAIN <<a, b, c, d>> = 1..4 /\ <<a, b, c, d>>[1] = a /\ <<a, b, c, d>>[2] = b
        /\ <<a, b, c, d>>[3] = c /\ <<a, b, c, d>>[4] = d
    OBVIOUS
  <2>2. \A i : i \in 1..4 <=> i = 1 \/ i = 2 \/ i = 3 \/ i = 4
    OBVIOUS
  <2> QED BY <2>1, <2>2 DEF In
<1> QED BY <1>1, <1>2, <1>3, <1>4, <1>5

LEMMA LeftIsIn == (\A p : Left(p) <=> In(p, todo)) /\ (\A p : Left(p)' <=> In(p, todo'))
BY DEF Left, In

\* A proper list of parts loses its first, and that is gone.
PartGone(parts) ==
    /\ Head(parts) \in {"store", "usr", "tw", "clk"}
    /\ In(Head(parts), parts)
    /\ \A p : In(p, Tail(parts)) <=> In(p, parts) /\ p # Head(parts)
    /\ Len(parts) = 1 <=> Tail(parts) = << >>

LEMMA OnePart ==
    ASSUME NEW a \in {"store", "usr", "tw", "clk"}
    PROVE  PartGone(<<a>>) /\ Len(<<a>>) = 1
<1>1. Head(<<a>>) = a /\ Tail(<<a>>) = << >> /\ Len(<<a>>) = 1
  OBVIOUS
<1> QED BY <1>1, InShortLists DEF PartGone

LEMMA TwoParts ==
    ASSUME NEW a \in {"store", "usr", "tw", "clk"}, NEW b, a # b
    PROVE  PartGone(<<a, b>>) /\ Tail(<<a, b>>) = <<b>>
<1>1. /\ Head(<<a, b>>) = a /\ Tail(<<a, b>>) = <<b>> /\ Len(<<a, b>>) # 1
      /\ <<b>> # << >>
  OBVIOUS
<1>2. \A p : /\ In(p, <<a, b>>) <=> p = a \/ p = b
             /\ In(p, <<b>>) <=> p = b
  BY InShortLists
<1> QED BY <1>1, <1>2 DEF PartGone

LEMMA ThreeParts ==
    ASSUME NEW a \in {"store", "usr", "tw", "clk"}, NEW b, NEW c, a # b, a # c
    PROVE  PartGone(<<a, b, c>>) /\ Tail(<<a, b, c>>) = <<b, c>>
<1>1. /\ Head(<<a, b, c>>) = a /\ Tail(<<a, b, c>>) = <<b, c>> /\ Len(<<a, b, c>>) # 1
      /\ <<b, c>> # << >>
  OBVIOUS
<1>2. \A p : /\ In(p, <<a, b, c>>) <=> p = a \/ p = b \/ p = c
             /\ In(p, <<b, c>>) <=> p = b \/ p = c
  BY InShortLists
<1> QED BY <1>1, <1>2 DEF PartGone

LEMMA FourParts ==
    ASSUME NEW a \in {"store", "usr", "tw", "clk"}, NEW b, NEW c, NEW d,
           a # b, a # c, a # d
    PROVE  PartGone(<<a, b, c, d>>) /\ Tail(<<a, b, c, d>>) = <<b, c, d>>
<1>1. /\ Head(<<a, b, c, d>>) = a /\ Tail(<<a, b, c, d>>) = <<b, c, d>>
      /\ Len(<<a, b, c, d>>) # 1 /\ <<b, c, d>> # << >>
  OBVIOUS
<1>2. \A p : /\ In(p, <<a, b, c, d>>) <=> p = a \/ p = b \/ p = c \/ p = d
             /\ In(p, <<b, c, d>>) <=> p = b \/ p = c \/ p = d
  BY InShortLists
<1> QED BY <1>1, <1>2 DEF PartGone

LEMMA PartsGo ==
    /\ \A parts \in ReadOrders : PartGone(parts) /\ (Len(parts) # 1 => Tail(parts) \in ReadOrders)
    /\ \A parts \in WriteOrders : PartGone(parts) /\ (Len(parts) # 1 => Tail(parts) \in WriteOrders)
<1>1. /\ PartGone(<<"store">>) /\ Len(<<"store">>) = 1
      /\ PartGone(<<"clk">>) /\ Len(<<"clk">>) = 1
  BY OnePart
<1>2. /\ PartGone(<<"tw", "store">>) /\ Tail(<<"tw", "store">>) = <<"store">>
      /\ PartGone(<<"tw", "clk">>) /\ Tail(<<"tw", "clk">>) = <<"clk">>
  BY TwoParts
<1>3. /\ PartGone(<<"usr", "tw", "store">>)
      /\ Tail(<<"usr", "tw", "store">>) = <<"tw", "store">>
      /\ PartGone(<<"usr", "tw", "clk">>)
      /\ Tail(<<"usr", "tw", "clk">>) = <<"tw", "clk">>
  BY ThreeParts
<1>4. /\ PartGone(<<"clk", "usr", "tw", "store">>)
      /\ Tail(<<"clk", "usr", "tw", "store">>) = <<"usr", "tw", "store">>
      /\ PartGone(<<"store", "usr", "tw", "clk">>)
      /\ Tail(<<"store", "usr", "tw", "clk">>) = <<"usr", "tw", "clk">>
  BY FourParts
<1> QED BY <1>1, <1>2, <1>3, <1>4 DEF ReadOrders, WriteOrders

\* Reading or writing a part takes it off the list and leaves the others on it.
LEMMA OnePartLess ==
    ASSUME OperatorTypes, task # "idle", todo' = Tail(todo),
           task' = IF Len(todo) = 1 THEN "idle" ELSE task
    PROVE  /\ Head(todo) \in {"store", "usr", "tw", "clk"} /\ Left(Head(todo))
           /\ \A p : Left(p)' <=> Left(p) /\ p # Head(todo)
           /\ task' = "idle" => todo' = << >> /\ \A p : ~Left(p)'
           /\ task' # "idle" /\ task = "snapshot" => todo' \in ReadOrders
           /\ task' # "idle" /\ task = "load" => todo' \in WriteOrders
<1>1. \/ task = "snapshot" /\ todo \in ReadOrders
      \/ task = "load" /\ todo \in WriteOrders
  BY DEF OperatorTypes
<1>2. /\ PartGone(todo)
      /\ task = "snapshot" /\ Len(todo) # 1 => Tail(todo) \in ReadOrders
      /\ task = "load" /\ Len(todo) # 1 => Tail(todo) \in WriteOrders
  BY <1>1, PartsGo
<1>3. \A p : ~In(p, << >>)
  BY InShortLists
<1> QED BY <1>2, <1>3, LeftIsIn DEF PartGone

\* Reading a part neither changes the core nor what the snapshot comes to.
LEMMA ReadStep ==
    ASSUME TypeOK, OperatorTypes, ReadPart
    PROVE  OperatorTypes' /\ Snapped' = Snapped /\ (task' = "idle" => snap' = Snapped)
<1>1. /\ users \in [Handles -> Nat] /\ follows \subseteq Edge /\ tweets \in Seq(Tweet)
      /\ user_ids \in Nat /\ tweet_ids \in Nat /\ clk \in Nat
  BY DEF TypeOK
<1>2. /\ Head(todo) \in {"store", "usr", "tw", "clk"} /\ Left(Head(todo))
      /\ \A p : Left(p)' <=> Left(p) /\ p # Head(todo)
      /\ task' = "idle" => todo' = << >> /\ \A p : ~Left(p)'
      /\ task' # "idle" /\ task = "snapshot" => todo' \in ReadOrders
      /\ task' # "idle" /\ task = "load" => todo' \in WriteOrders
  BY OnePartLess DEF ReadPart
<1>3. snap \in Snapshot /\ UNCHANGED <<users, follows, tweets, user_ids, tweet_ids, clk>>
  BY DEF OperatorTypes, ReadPart, vars
<1>4. snap' \in Snapshot
  BY <1>1, <1>2, <1>3 DEF ReadPart, Snapshot
<1>5. task' \in {"idle", "snapshot"} /\ task = "snapshot"
  BY DEF ReadPart
<1>6. OperatorTypes'
  BY <1>2, <1>4, <1>5 DEF OperatorTypes
<1>7. /\ snap'.users = (IF Head(todo) = "store" THEN users ELSE snap.users)
      /\ snap'.follows = (IF Head(todo) = "store" THEN follows ELSE snap.follows)
      /\ snap'.tweets = (IF Head(todo) = "store" THEN tweets ELSE snap.tweets)
      /\ snap'.usr = (IF Head(todo) = "usr" THEN user_ids ELSE snap.usr)
      /\ snap'.tw = (IF Head(todo) = "tw" THEN tweet_ids ELSE snap.tw)
      /\ snap'.clk = (IF Head(todo) = "clk" THEN clk ELSE snap.clk)
  BY <1>2, <1>3 DEF ReadPart, Snapshot
<1>8. /\ Left("store")' <=> Left("store") /\ Head(todo) # "store"
      /\ Left("usr")' <=> Left("usr") /\ Head(todo) # "usr"
      /\ Left("tw")' <=> Left("tw") /\ Head(todo) # "tw"
      /\ Left("clk")' <=> Left("clk") /\ Head(todo) # "clk"
  BY <1>2
<1>9. Snapped' = Snapped
  BY <1>2, <1>3, <1>7, <1>8 DEF Snapped
<1>10. ASSUME task' = "idle" PROVE snap' = Snapped'
  <2>1. ~Left("store")' /\ ~Left("usr")' /\ ~Left("tw")' /\ ~Left("clk")'
    BY <1>2, <1>10
  <2> QED BY <1>4, <2>1 DEF Snapped, Snapshot
<1> QED BY <1>6, <1>9, <1>10

\* Nor does writing one change what the load comes to.
LEMMA WriteStep ==
    ASSUME TypeOK, OperatorTypes, WritePart, IsMonotoneLog(snap.tweets)
    PROVE  /\ TypeOK' /\ OperatorTypes' /\ Loaded' = Loaded
           /\ task' = "idle" => Held' = Loaded
<1>1. /\ users \in [Handles -> Nat] /\ follows \subseteq Edge /\ tweets \in Seq(Tweet)
      /\ user_ids \in Nat /\ tweet_ids \in Nat /\ clk \in Nat
  BY DEF TypeOK
<1>2. /\ Head(todo) \in {"store", "usr", "tw", "clk"} /\ Left(Head(todo))
      /\ \A p : Left(p)' <=> Left(p) /\ p # Head(todo)
      /\ task' = "idle" => todo' = << >> /\ \A p : ~Left(p)'
      /\ task' # "idle" /\ task = "snapshot" => todo' \in ReadOrders
      /\ task' # "idle" /\ task = "load" => todo' \in WriteOrders
  BY OnePartLess DEF WritePart
<1>3. /\ snap \in Snapshot /\ snap.users \in [Handles -> Nat] /\ snap.follows \subseteq Edge
      /\ snap.tweets \in Seq(Tweet) /\ snap.usr \in Nat /\ snap.tw \in Nat /\ snap.clk \in Nat
  BY DEF OperatorTypes, Snapshot
<1>4. UNCHANGED <<pc, req, tmp, resp, snap>>
  BY DEF WritePart
<1>5. sort_by_stamp_and_id(snap.tweets) = snap.tweets
  BY <1>3, SortChangesNothing
<1>6. /\ users' = (IF Head(todo) = "store" THEN snap.users ELSE users)
      /\ follows' = (IF Head(todo) = "store" THEN snap.follows ELSE follows)
      /\ tweets' = (IF Head(todo) = "store" THEN snap.tweets ELSE tweets)
      /\ user_ids' = (IF Head(todo) = "usr" THEN snap.usr ELSE user_ids)
      /\ tweet_ids' = (IF Head(todo) = "tw" THEN snap.tw ELSE tweet_ids)
      /\ clk' = (IF Head(todo) = "clk" THEN snap.clk ELSE clk)
  BY <1>5 DEF WritePart, store
<1>7. TypeOK'
  BY <1>1, <1>3, <1>4, <1>6 DEF TypeOK, RunsItsRoute
<1>8. task' \in {"idle", "load"} /\ task = "load"
  BY DEF WritePart
<1>9. OperatorTypes'
  BY <1>2, <1>3, <1>4, <1>8 DEF OperatorTypes
<1>10. /\ Left("store")' <=> Left("store") /\ Head(todo) # "store"
       /\ Left("usr")' <=> Left("usr") /\ Head(todo) # "usr"
       /\ Left("tw")' <=> Left("tw") /\ Head(todo) # "tw"
       /\ Left("clk")' <=> Left("clk") /\ Head(todo) # "clk"
  BY <1>2
<1>11. Loaded' = Loaded
  BY <1>2, <1>4, <1>6, <1>10 DEF Loaded
<1>12. ASSUME task' = "idle" PROVE Held' = Loaded'
  <2>1. ~Left("store")' /\ ~Left("usr")' /\ ~Left("tw")' /\ ~Left("clk")'
    BY <1>2, <1>12
  <2> QED BY <2>1 DEF Loaded, Held
<1> QED BY <1>7, <1>9, <1>11, <1>12

-----------------------------------------------------------------------------
(* The operator's invariant *)

LEMMA InitOperator == AdminInit => OperatorInv
<1> SUFFICES ASSUME AdminInit PROVE OperatorInv
  OBVIOUS
<1>1. TypeOK /\ StrongInv
  BY InitTypes, InitStrong DEF AdminInit
<1>2. RecordsAreKnown
  BY DEF AdminInit, Init, RecordsAreKnown, Range
<1>3. Blank \in Snapshot /\ Ready(Blank)
  BY DEF Blank, Snapshot, Ready, CanServe, Grounded, IsMonotoneLog
<1>4. OperatorTypes
  BY <1>3 DEF AdminInit, OperatorTypes
<1> QED BY <1>1, <1>2, <1>3, <1>4 DEF OperatorInv, AdminInit, Serving

\* Clients run only while the operator does nothing.
LEMMA ClientsKeepOperator ==
    ASSUME OperatorInv, [Next]_vars, UNCHANGED <<task, todo, snap>>,
           task # "idle" => UNCHANGED vars
    PROVE  OperatorInv'
<1>1. TypeOK' /\ OperatorTypes'
  BY NextTypes DEF OperatorInv, OperatorTypes
<1>2. CASE task = "idle"
  <2>1. Serving'
    BY <1>2, NextStrong, RecordsStayKnown DEF OperatorInv, Serving
  <2>2. Ready(snap)'
    BY <1>2 DEF OperatorInv
  <2> QED BY <1>1, <1>2, <2>1, <2>2 DEF OperatorInv
<1>3. CASE task # "idle"
  <2>1. UNCHANGED vars
    BY <1>3
  <2>2. task # "load" => Serving'
    BY NextStrong, RecordsStayKnown DEF OperatorInv, Serving
  <2>3. Snapped' = Snapped /\ Loaded' = Loaded
    BY <2>1 DEF Snapped, Loaded, Left, vars
  <2>4. Quiet'
    BY <1>3, <2>1 DEF OperatorInv, Quiet, At, vars
  <2> QED BY <1>1, <1>3, <2>2, <2>3, <2>4 DEF OperatorInv
<1> QED BY <1>2, <1>3

LEMMA NobodyAbout ==
    ASSUME NEW c \in Clients, At(c, "idle")
    PROVE  ~Handler(c)
BY DEF Handler, At, Reply, create_has_user, create_next_id, put_user, post_has_user,
   post_next_id, post_now, put_tweet, edge_has_from, edge_has_to, put_follow, delete_follow,
   tick, tick_now, timeline_has_user, home_timeline

LEMMA BeginSnapshotOperator ==
    ASSUME OperatorInv, BeginSnapshot PROVE OperatorInv'
<1>1. /\ task' = "snapshot" /\ todo' = <<"clk", "usr", "tw", "store">> /\ snap' = Blank
      /\ UNCHANGED vars /\ task = "idle" /\ Quiet
  BY DEF BeginSnapshot, SnapshotOrder
<1>2. [Next]_vars /\ Serving
  BY <1>1 DEF OperatorInv
<1>3. TypeOK' /\ Serving'
  BY <1>2, NextStrong, RecordsStayKnown DEF Serving, StrongInv
<1>4. OperatorTypes'
  BY <1>1 DEF OperatorTypes, ReadOrders, Blank, Snapshot
<1>5. Ready(Held)
  BY <1>2, ServesFromHeld
<1>6. Snapped' = Held
  <2>1. Left("store")' /\ Left("usr")' /\ Left("tw")' /\ Left("clk")'
    BY <1>1, InShortLists, LeftIsIn
  <2> QED BY <1>1, <2>1 DEF Snapped, Held, vars
<1>7. Quiet'
  BY <1>1 DEF Quiet, At, vars
<1> QED BY <1>1, <1>3, <1>4, <1>5, <1>6, <1>7 DEF OperatorInv

LEMMA ReadPartOperator ==
    ASSUME OperatorInv, ReadPart PROVE OperatorInv'
<1>1. UNCHANGED vars /\ task = "snapshot" /\ task' \in {"idle", "snapshot"}
  BY DEF ReadPart
<1>2. OperatorTypes' /\ Snapped' = Snapped /\ (task' = "idle" => snap' = Snapped)
  BY ReadStep DEF OperatorInv
<1>3. [Next]_vars /\ Serving /\ Quiet /\ Ready(Snapped)
  BY <1>1 DEF OperatorInv
<1>4. TypeOK' /\ Serving'
  BY <1>3, NextStrong, RecordsStayKnown DEF Serving, StrongInv
<1>5. Quiet'
  BY <1>1, <1>3 DEF Quiet, At, vars
<1>6. task' = "idle" => Ready(snap)'
  BY <1>2, <1>3
<1> QED BY <1>1, <1>2, <1>3, <1>4, <1>5, <1>6 DEF OperatorInv

LEMMA BeginLoadOperator ==
    ASSUME OperatorInv, BeginLoad PROVE OperatorInv'
<1>1. /\ task' = "load" /\ todo' = <<"store", "usr", "tw", "clk">>
      /\ UNCHANGED <<vars, snap>> /\ task = "idle" /\ Quiet
  BY DEF BeginLoad, LoadOrder
<1>2. [Next]_vars /\ Ready(snap) /\ OperatorTypes /\ TypeOK
  BY <1>1 DEF OperatorInv
<1>3. TypeOK'
  BY <1>2, NextTypes
<1>4. OperatorTypes'
  BY <1>1, <1>2 DEF OperatorTypes, WriteOrders
<1>5. Loaded' = snap
  <2>1. Left("store")' /\ Left("usr")' /\ Left("tw")' /\ Left("clk")'
    BY <1>1, InShortLists, LeftIsIn
  <2> QED BY <1>1, <1>2, <2>1 DEF Loaded, OperatorTypes, Snapshot
<1>6. Quiet'
  BY <1>1 DEF Quiet, At, vars
<1> QED BY <1>1, <1>2, <1>3, <1>4, <1>5, <1>6 DEF OperatorInv

LEMMA WritePartOperator ==
    ASSUME OperatorInv, WritePart PROVE OperatorInv'
<1>1. /\ task = "load" /\ task' \in {"idle", "load"}
      /\ UNCHANGED <<pc, req, tmp, resp, snap>>
  BY DEF WritePart
<1>2. TypeOK /\ OperatorTypes /\ Quiet /\ Ready(snap) /\ Ready(Loaded)
  BY <1>1 DEF OperatorInv
<1>3. /\ TypeOK' /\ OperatorTypes' /\ Loaded' = Loaded
      /\ task' = "idle" => Held' = Loaded
  BY <1>2, WriteStep DEF Ready, CanServe
<1>4. Quiet' /\ Ready(snap)' /\ Ready(Loaded)'
  BY <1>1, <1>2, <1>3 DEF Quiet, At
<1>5. ASSUME task' = "idle" PROVE Serving'
  <2>1. Ready(Held)'
    BY <1>2, <1>3, <1>5
  <2> QED BY <1>3, <1>4, <2>1, HeldServesNext
<1> QED BY <1>1, <1>3, <1>4, <1>5 DEF OperatorInv

LEMMA NextOperator == OperatorInv /\ [AdminNext]_allVars => OperatorInv'
<1> SUFFICES ASSUME OperatorInv, [AdminNext]_allVars PROVE OperatorInv'
  OBVIOUS
<1>1. CASE UNCHANGED allVars
  BY <1>1, ClientsKeepOperator DEF allVars, adminVars
<1>2. ASSUME NEW c \in Clients, Handler(c), UNCHANGED adminVars PROVE OperatorInv'
  <2>1. Next
    BY <1>2 DEF Next
  <2>2. task = "idle"
    BY <1>2, NobodyAbout DEF OperatorInv, Quiet
  <2> QED BY <1>2, <2>1, <2>2, ClientsKeepOperator DEF adminVars
<1>3. ASSUME NEW c \in Clients, NEW r \in Requests, task = "idle", Call(c, r),
             UNCHANGED adminVars
      PROVE  OperatorInv'
  <2>1. Next
    BY <1>3 DEF Next
  <2> QED BY <1>3, <2>1, ClientsKeepOperator DEF adminVars
<1> QED BY <1>1, <1>2, <1>3, BeginSnapshotOperator, ReadPartOperator, BeginLoadOperator,
           WritePartOperator DEF AdminNext

(* A core that was stopped to take a snapshot or to load one of its own    *)
(* can be served from afterwards (service/lib.rs:210-233): the sort of     *)
(* MemStore::replace leaves a log of its own as it is, and rolled back,    *)
(* clock and all, the core draws no id that is in use.                     *)
THEOREM OwnLoadsLeaveServable == AdminSpec => []LoadLeavesServable
<1>1. OperatorInv => LoadLeavesServable
  BY ServesFromHeld DEF OperatorInv, LoadLeavesServable, Ready
<1> QED BY <1>1, InitOperator, NextOperator, PTL DEF AdminSpec
=============================================================================
