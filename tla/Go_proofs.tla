------------------------------ MODULE Go_proofs ------------------------------
(***************************************************************************)
(* Proofs about the Go corner (GoService, GoRefinement), for any sets of   *)
(* clients, handles, texts and requests.                                   *)
(*                                                                         *)
(* IndInv is inductive.  A step of one client leaves the others' control   *)
(* alone, so each action is handled by a frame lemma plus what the action  *)
(* does to its own client; and while a client is between AcquireWmu and    *)
(* ReleaseWmu no other client is, which is what makes the id and the stamp *)
(* it holds still good at the append.                                      *)
(*                                                                         *)
(* The corner implements the design model with late stamps: the refinement *)
(* mapping of GoRefinement takes initial states to initial states and      *)
(* every step to a step of Design or a stutter, by IndInv.  Its answers    *)
(* are those of S_obs (Linearizable): beside IndInv that needs             *)
(* AnswersAreDue, and for the pages that the scan of the store cuts the    *)
(* page S_obs means (ScanIsCut).                                           *)
(*                                                                         *)
(* With an operator beside the clients (GoAdmin) IndInv is lost, and       *)
(* OperatorInv takes its place: it follows a snapshot and a load part by   *)
(* part, by what they come to if the rest is read, or written, next.       *)
(***************************************************************************)
EXTENDS GoRefinement, GoAdmin, Pages_proofs, FiniteSetTheorems

-----------------------------------------------------------------------------
(* The parts of TypeOK *)

Shared ==
    /\ users \in [Handles -> Nat]
    /\ follows \subseteq Edge
    /\ tweets \in Seq(Tweet)
    /\ idsUsr \in Nat \ {0}
    /\ idsTw \in Nat \ {0}
    /\ clk \in Nat
    /\ wmu \in Clients \cup {Nobody}

Tables ==
    /\ pc \in [Clients -> Labels]
    /\ req \in [Clients -> Requests \cup {NoRequest}]
    /\ tmp \in [Clients -> [id : Nat, createdAt : Nat]]
    /\ DOMAIN resp = Clients

InItsRoute(c) ==
    /\ RunsItsRoute(c)
    /\ pc[c] \in {"unlock", "reply"} <=> resp[c].status # 0

\* What a step of client c leaves alone.
OthersKeep(c) ==
    \A d \in Clients : d # c => /\ pc'[d] = pc[d]
                                /\ req'[d] = req[d]
                                /\ tmp'[d] = tmp[d]
                                /\ resp'[d] = resp[d]

LocalsOnly(c) ==
    /\ req' \in [Clients -> Requests \cup {NoRequest}]
    /\ tmp' \in [Clients -> [id : Nat, createdAt : Nat]]
    /\ \A d \in Clients : d # c => req'[d] = req[d] /\ tmp'[d] = tmp[d]

LEMMA TypeParts == TypeOK <=> Shared /\ Tables /\ \A c \in Clients : InItsRoute(c)
BY DEF TypeOK, Tables, Shared, InItsRoute

LEMMA TypeStep ==
    ASSUME TypeOK, NEW c \in Clients, OthersKeep(c), Tables', Shared', InItsRoute(c)'
    PROVE  TypeOK'
<1>1. ASSUME NEW d \in Clients PROVE InItsRoute(d)'
  <2>1. CASE d = c
    BY <2>1
  <2>2. CASE d # c
    <3>1. InItsRoute(d)
      BY TypeParts
    <3> QED BY <2>2, <3>1 DEF OthersKeep, InItsRoute, RunsItsRoute
  <2> QED BY <2>1, <2>2
<1> QED BY <1>1 DEF TypeOK, Tables, Shared, InItsRoute

LEMMA GotoFrame ==
    ASSUME TypeOK, NEW c \in Clients, NEW l \in Labels, Goto(c, l), LocalsOnly(c)
    PROVE  OthersKeep(c) /\ Tables' /\ pc'[c] = l /\ resp'[c] = resp[c]
BY DEF TypeOK, Goto, OthersKeep, Tables, LocalsOnly

LEMMA AnswerFrame ==
    ASSUME TypeOK, NEW c \in Clients, NEW l \in Labels, NEW a, Answer(c, a, l), LocalsOnly(c)
    PROVE  OthersKeep(c) /\ Tables' /\ pc'[c] = l /\ resp'[c] = a
BY DEF TypeOK, Answer, OthersKeep, Tables, LocalsOnly

\* A call that only moves on keeps the types if it stays in its route ...
LEMMA GotoTypes ==
    ASSUME TypeOK, NEW c \in Clients, NEW l \in Labels \ {"unlock", "reply"},
           Goto(c, l), LocalsOnly(c), Shared', pc[c] \notin {"unlock", "reply"},
           RunsItsRoute(c)'
    PROVE  TypeOK'
<1>1. OthersKeep(c) /\ Tables' /\ pc'[c] = l /\ resp'[c] = resp[c]
  BY GotoFrame
<1>2. InItsRoute(c)'
  BY <1>1, TypeParts DEF InItsRoute
<1> QED BY <1>1, <1>2, TypeStep

\* ... and one that decides the answer always does.
LEMMA AnswerTypes ==
    ASSUME TypeOK, NEW c \in Clients, NEW l \in {"unlock", "reply"}, NEW a,
           a.status # 0, Answer(c, a, l), LocalsOnly(c), Shared'
    PROVE  TypeOK'
<1>1. OthersKeep(c) /\ Tables' /\ pc'[c] = l /\ resp'[c] = a
  BY AnswerFrame DEF Labels
<1>2. InItsRoute(c)'
  BY <1>1 DEF InItsRoute, RunsItsRoute, CreateLabels, PostLabels, EdgeLabels,
              TickLabels, TimelineLabels
<1> QED BY <1>1, <1>2, TypeStep

LEMMA LocalsKept ==
    ASSUME TypeOK, NEW c \in Clients, UNCHANGED <<req, tmp>>
    PROVE  LocalsOnly(c)
BY DEF TypeOK, LocalsOnly

LEMMA StoringLocals ==
    ASSUME TypeOK, NEW c \in Clients, NEW n \in Nat, req' = req,
           \/ tmp' = [tmp EXCEPT ![c].id = n]
           \/ tmp' = [tmp EXCEPT ![c].createdAt = n]
    PROVE  LocalsOnly(c)
<1>1. tmp[c] \in [id : Nat, createdAt : Nat]
  BY DEF TypeOK
<1>2. /\ [tmp[c] EXCEPT !.id = n] \in [id : Nat, createdAt : Nat]
      /\ [tmp[c] EXCEPT !.createdAt = n] \in [id : Nat, createdAt : Nat]
  BY <1>1
<1>3. \E x \in [id : Nat, createdAt : Nat] : tmp' = [tmp EXCEPT ![c] = x]
  BY <1>2
<1>4. /\ tmp \in [Clients -> [id : Nat, createdAt : Nat]]
      /\ req' \in [Clients -> Requests \cup {NoRequest}]
  BY DEF TypeOK
<1> QED BY <1>3, <1>4 DEF LocalsOnly

LEMMA WireErrorStatus == \A code : WireError(code).status \in {400, 409, 500}
BY DEF WireError, ErrorBody

-----------------------------------------------------------------------------
(* Every action keeps the types *)

LEMMA CallTypes ==
    ASSUME TypeOK, NEW c \in Clients, NEW r \in Requests, Call(c, r)
    PROVE  TypeOK'
<1>1. LocalsOnly(c) /\ req'[c] = r
  BY DEF Call, TypeOK, LocalsOnly
<1>2. Shared'
  BY DEF Call, TypeOK, Shared, store
<1>3. CASE SyntaxError(r) = ""
  <2>1. r \in Request
    BY ServiceAssumption
  <2>2. FirstCall(r) \in Labels \ {"unlock", "reply"}
    BY <1>3, <2>1 DEF FirstCall, SyntaxError, Labels, CreateLabels, PostLabels, EdgeLabels,
       TickLabels, TimelineLabels, Request, CreateRequest, EdgeRequest, PostRequest,
       TickRequest, TimelineRequest, OtherRequest
  <2>3. Goto(c, FirstCall(r)) /\ pc[c] = "idle"
    BY <1>3 DEF Call, At
  <2>4. pc'[c] = FirstCall(r)
    BY <1>1, <2>2, <2>3, GotoFrame
  <2>5. RunsItsRoute(c)'
    BY <1>1, <1>3, <2>1, <2>4 DEF RunsItsRoute, FirstCall, SyntaxError, CreateLabels,
       PostLabels, EdgeLabels, TickLabels, TimelineLabels, Request, CreateRequest,
       EdgeRequest, PostRequest, TickRequest, TimelineRequest, OtherRequest
  <2> QED BY <1>1, <1>2, <2>2, <2>3, <2>5, GotoTypes
<1>4. CASE SyntaxError(r) # ""
  <2> DEFINE a == ErrorBody(IF r.op = "unrouted" THEN 404 ELSE 400, SyntaxError(r))
  <2>1. Answer(c, a, "reply")
    BY <1>4 DEF Call
  <2>2. a.status # 0
    BY DEF ErrorBody
  <2> HIDE DEF a
  <2> QED BY <1>1, <1>2, <2>1, <2>2, AnswerTypes
<1> QED BY <1>3, <1>4

LEMMA ReplyTypes == ASSUME TypeOK, NEW c \in Clients, Reply(c) PROVE TypeOK'
<1>1. OthersKeep(c) /\ Tables' /\ pc'[c] = "idle" /\ resp'[c] = NoReply
  BY DEF Reply, TypeOK, OthersKeep, Tables, NoLocals, Labels
<1>2. Shared'
  BY DEF Reply, TypeOK, Shared, store
<1>3. InItsRoute(c)'
  BY <1>1 DEF InItsRoute, RunsItsRoute, NoReply, CreateLabels, PostLabels, EdgeLabels,
              TickLabels, TimelineLabels
<1> QED BY <1>1, <1>2, <1>3, TypeStep

\* A call inside a handler either moves to a label of the same route or answers.
LEMMA RouteTypes ==
    ASSUME TypeOK, NEW c \in Clients, NEW from \in Labels, NEW to \in Labels, At(c, from),
           \/ from \in CreateLabels /\ to \in CreateLabels
           \/ from \in PostLabels /\ to \in PostLabels
           \/ from \in TickLabels /\ to \in TickLabels
           \/ from \in TimelineLabels /\ to \in TimelineLabels
           \/ from \in EdgeLabels /\ to = "edge.to"
           \/ from \in EdgeLabels /\ to = "follow.put" /\ req[c].op = "follow"
                                  /\ req[c].from # req[c].to
           \/ from \in EdgeLabels /\ to = "unfollow.delete" /\ req[c].op = "unfollow",
           Goto(c, to), LocalsOnly(c), req'[c] = req[c], Shared'
    PROVE  TypeOK'
<1>1. pc'[c] = to
  BY GotoFrame
<1>2. pc[c] = from /\ RunsItsRoute(c)
  BY TypeParts DEF At, InItsRoute
<1>3. RunsItsRoute(c)' /\ to \notin {"unlock", "reply"} /\ from \notin {"unlock", "reply"}
  BY <1>1, <1>2 DEF RunsItsRoute, CreateLabels, PostLabels, EdgeLabels, TickLabels,
                    TimelineLabels
<1> QED BY <1>2, <1>3, GotoTypes

LEMMA MutexTypes ==
    ASSUME TypeOK, NEW c \in Clients, AcquireWmu(c) \/ ReleaseWmu(c)
    PROVE  TypeOK'
<1> USE DEF Labels, CreateLabels, PostLabels
<1>1. LocalsOnly(c) /\ Shared' /\ req'[c] = req[c]
  BY LocalsKept DEF AcquireWmu, ReleaseWmu, TypeOK, Shared, store
<1>2. CASE AcquireWmu(c)
  BY <1>1, <1>2, RouteTypes DEF AcquireWmu
<1>3. CASE ReleaseWmu(c)
  <2>1. OthersKeep(c) /\ Tables' /\ pc'[c] = "reply" /\ resp'[c] = resp[c]
    BY <1>1, <1>3, GotoFrame DEF ReleaseWmu
  <2>2. InItsRoute(c)'
    BY <1>3, <2>1, TypeParts DEF ReleaseWmu, At, InItsRoute, RunsItsRoute, EdgeLabels,
       TickLabels, TimelineLabels
  <2> QED BY <1>1, <2>1, <2>2, TypeStep
<1> QED BY <1>2, <1>3

LEMMA CreateTypes ==
    ASSUME TypeOK, NEW c \in Clients, CreateHasUser(c) \/ CreateNextID(c) \/ PutUser(c)
    PROVE  TypeOK'
<1> USE DEF Labels, CreateLabels
<1>1. Shared'
  BY TypeParts DEF CreateHasUser, CreateNextID, PutUser, At, TypeOK, Shared, store,
                   InItsRoute, RunsItsRoute
<1>2. LocalsOnly(c) /\ req'[c] = req[c]
  BY StoringLocals, LocalsKept DEF CreateHasUser, CreateNextID, PutUser, TypeOK
<1>3. CASE CreateHasUser(c)
  BY <1>1, <1>2, <1>3, RouteTypes, AnswerTypes, WireErrorStatus DEF CreateHasUser
<1>4. CASE CreateNextID(c)
  BY <1>1, <1>2, <1>4, RouteTypes DEF CreateNextID
<1>5. CASE PutUser(c)
  <2>1. UserBody(req[c].handle, tmp[c].id).status # 0
    BY DEF UserBody
  <2> QED BY <1>1, <1>2, <1>5, <2>1, AnswerTypes, WireErrorStatus DEF PutUser
<1> QED BY <1>3, <1>4, <1>5

LEMMA PostTypes ==
    ASSUME TypeOK, NEW c \in Clients,
           PostHasUser(c) \/ PostNextID(c) \/ PostReadClock(c) \/ PutTweet(c)
    PROVE  TypeOK'
<1> USE DEF Labels, PostLabels
<1>1. LocalsOnly(c) /\ req'[c] = req[c]
  BY StoringLocals, LocalsKept
     DEF PostHasUser, PostNextID, PostReadClock, PutTweet, TypeOK
<1>2. CASE PostHasUser(c)
  <2>1. Shared'
    BY <1>2 DEF PostHasUser, TypeOK, Shared, store
  <2> QED BY <1>1, <1>2, <2>1, RouteTypes, AnswerTypes, WireErrorStatus DEF PostHasUser
<1>3. CASE PostNextID(c)
  <2>1. Shared'
    BY <1>3 DEF PostNextID, TypeOK, Shared, store
  <2> QED BY <1>1, <1>3, <2>1, RouteTypes DEF PostNextID
<1>4. CASE PostReadClock(c)
  <2>1. Shared'
    BY <1>4 DEF PostReadClock, TypeOK, Shared, store
  <2> QED BY <1>1, <1>4, <2>1, RouteTypes DEF PostReadClock
<1>5. CASE PutTweet(c)
  <2>1. NewTweet(c) \in Tweet
    BY <1>5, TypeParts DEF PutTweet, At, NewTweet, Tweet, Tables, InItsRoute, RunsItsRoute
  <2>2. \/ Answer(c, TweetBody(NewTweet(c)), "unlock") /\ tweets' = Append(tweets, NewTweet(c))
        \/ \E code : Answer(c, WireError(code), "unlock") /\ tweets' = tweets
    BY <1>5 DEF PutTweet
  <2>3. tweets' \in Seq(Tweet)
    <3>1. tweets \in Seq(Tweet) /\ Append(tweets, NewTweet(c)) \in Seq(Tweet)
      <4> HIDE DEF Labels, PostLabels
      <4> QED BY <2>1 DEF TypeOK
    <3> QED BY <2>2, <3>1
  <2>4. Shared'
    BY <1>5, <2>3 DEF PutTweet, TypeOK, Shared
  <2>5. TweetBody(NewTweet(c)).status # 0
    BY DEF TweetBody
  <2> QED BY <1>1, <2>2, <2>4, <2>5, AnswerTypes, WireErrorStatus
<1> QED BY <1>2, <1>3, <1>4, <1>5

LEMMA EdgeTypes ==
    ASSUME TypeOK, NEW c \in Clients,
           EdgeHasFrom(c) \/ EdgeHasTo(c) \/ PutFollow(c) \/ DeleteFollow(c)
    PROVE  TypeOK'
<1> USE DEF Labels, EdgeLabels
<1>1. LocalsOnly(c) /\ req'[c] = req[c]
  BY LocalsKept DEF EdgeHasFrom, EdgeHasTo, PutFollow, DeleteFollow
<1>2. RunsItsRoute(c)
  BY TypeParts DEF InItsRoute
<1>3. Shared'
  BY <1>2 DEF EdgeHasFrom, EdgeHasTo, PutFollow, DeleteFollow, At, RunsItsRoute, TypeOK,
              Shared, store, Edge
<1>4. CASE EdgeHasFrom(c)
  BY <1>1, <1>3, <1>4, RouteTypes, AnswerTypes, WireErrorStatus DEF EdgeHasFrom
<1>5. CASE EdgeHasTo(c)
  <2>1. \/ \E code : Answer(c, WireError(code), "reply")
        \/ Goto(c, "unfollow.delete") /\ req[c].op = "unfollow"
        \/ Goto(c, "follow.put") /\ req[c].op = "follow" /\ req[c].from # req[c].to
    BY <1>2, <1>5 DEF EdgeHasTo, At, RunsItsRoute
  <2>2. At(c, "edge.to")
    BY <1>5 DEF EdgeHasTo
  <2> QED BY <1>1, <1>3, <2>1, <2>2, RouteTypes, AnswerTypes, WireErrorStatus
<1>6. CASE PutFollow(c) \/ DeleteFollow(c)
  <2>1. NoContent.status # 0
    BY DEF NoContent
  <2> QED BY <1>1, <1>3, <1>6, <2>1, AnswerTypes, WireErrorStatus
          DEF PutFollow, DeleteFollow
<1> QED BY <1>4, <1>5, <1>6

LEMMA ReadTypes ==
    ASSUME TypeOK, NEW c \in Clients,
           Tick(c) \/ TickReadClock(c) \/ TimelineHasUser(c) \/ ReadPage(c)
    PROVE  TypeOK'
<1> USE DEF Labels, TickLabels, TimelineLabels
<1>1. LocalsOnly(c) /\ req'[c] = req[c]
  BY LocalsKept DEF Tick, TickReadClock, TimelineHasUser, ReadPage
<1>2. Shared'
  BY DEF Tick, TickReadClock, TimelineHasUser, ReadPage, TypeOK, Shared, store
<1>3. CASE Tick(c)
  BY <1>1, <1>2, <1>3, RouteTypes DEF Tick
<1>4. CASE TickReadClock(c)
  BY <1>1, <1>2, <1>4, AnswerTypes DEF TickReadClock, ClockBody
<1>5. CASE TimelineHasUser(c)
  BY <1>1, <1>2, <1>5, RouteTypes, AnswerTypes, WireErrorStatus DEF TimelineHasUser
<1>6. CASE ReadPage(c)
  <2>1. \E page, next : Answer(c, TimelineBody(page, next), "reply")
    BY <1>6 DEF ReadPage
  <2>2. \A page, next : TimelineBody(page, next).status # 0
    BY DEF TimelineBody
  <2> QED BY <1>1, <1>2, <2>1, <2>2, AnswerTypes
<1> QED BY <1>3, <1>4, <1>5, <1>6

LEMMA InitTypes == Init => TypeOK
BY DEF Init, TypeOK, NoLocals, NoReply, Labels, RunsItsRoute, CreateLabels, PostLabels,
       EdgeLabels, TickLabels, TimelineLabels

LEMMA NextTypes == TypeOK /\ [Next]_vars => TypeOK'
<1> SUFFICES ASSUME TypeOK, [Next]_vars PROVE TypeOK'
  OBVIOUS
<1>1. CASE UNCHANGED vars
  BY <1>1 DEF vars, store, TypeOK, RunsItsRoute
<1>2. CASE Next
  BY <1>2, CallTypes, ReplyTypes, MutexTypes, CreateTypes, PostTypes, EdgeTypes, ReadTypes
     DEF Next, Handler
<1> QED BY <1>1, <1>2

(* The types, and the tie between each client's program counter, request   *)
(* and answer, hold in every reachable state (httpshim, service).          *)
THEOREM TypeCorrect == Spec => []TypeOK
BY InitTypes, NextTypes, PTL DEF Spec

-----------------------------------------------------------------------------
(* The inductive invariant *)

\* Of all clients only c may be between AcquireWmu and ReleaseWmu.
Alone(c) == \A d \in Clients : d # c => pc[d] \notin CriticalLabels

\* ServingInv as the client that is alone sees it.
HolderInv(c) ==
    /\ LogIsOrdered /\ LogIsStamped /\ RecordsAreKnown /\ UserIdsAreUnique
    /\ TweetIdIsFresh(c) /\ StampIsFresh(c) /\ ChecksStillHold(c) /\ UserIdIsFresh(c)
    /\ resp[c].status # 500

LEMMA HolderIsAlone ==
    ASSUME ServingInv, NEW c \in Clients, pc[c] \in CriticalLabels \/ wmu = Nobody
    PROVE  Alone(c)
BY ServiceAssumption DEF ServingInv, WmuIsHeld, Alone

LEMMA HolderOpen ==
    ASSUME ServingInv, NEW c \in Clients
    PROVE  HolderInv(c)
BY DEF ServingInv, HolderInv, NoInternalError

LEMMA LogEntries ==
    ASSUME TypeOK
    PROVE  /\ Len(tweets) \in Nat /\ DOMAIN tweets = 1..Len(tweets)
           /\ \A i \in DOMAIN tweets : 
              /\ tweets[i].id \in Nat /\ tweets[i].createdAt \in Nat
              /\ tweets[i].author \in Handles
<1>1. tweets \in Seq(Tweet)
  BY DEF TypeOK
<1>2. Len(tweets) \in Nat /\ DOMAIN tweets = 1..Len(tweets)
  BY <1>1
<1>3. \A i \in DOMAIN tweets : tweets[i] \in Tweet
  BY <1>1
<1> QED BY <1>2, <1>3 DEF Tweet

UsersGrow == \A h \in Handles : HasUser(h) => HasUser(h)'

LEMMA ChecksPersist ==
    ASSUME TypeOK, NEW d \in Clients, ChecksStillHold(d), UsersGrow,
           pc'[d] = pc[d], req'[d] = req[d]
    PROVE  ChecksStillHold(d)'
<1>1. RunsItsRoute(d)
  BY DEF TypeOK
<1> QED BY <1>1 DEF ChecksStillHold, UsersGrow, RunsItsRoute, LogLabels, PostLabels,
                    EdgeLabels, HasUser

\* A step of the client that is alone, which takes, keeps or gives up wmu.
LEMMA HolderStep ==
    ASSUME ServingInv, TypeOK', NEW c \in Clients, Alone(c), OthersKeep(c), UsersGrow,
           \/ pc'[c] \in CriticalLabels /\ wmu' = c
           \/ pc'[c] \notin CriticalLabels /\ wmu' = Nobody,
           HolderInv(c)'
    PROVE  ServingInv'
<1>1. \A d \in Clients : d # c => pc'[d] \notin CriticalLabels
  BY DEF OthersKeep, Alone
<1>2. WmuIsHeld'
  BY <1>1, ServiceAssumption DEF WmuIsHeld
<1>4. ASSUME NEW d \in Clients
      PROVE  TweetIdIsFresh(d)' /\ StampIsFresh(d)' /\ ChecksStillHold(d)' /\ UserIdIsFresh(d)'
  <2>1. CASE d = c
    BY <2>1 DEF HolderInv
  <2>2. CASE d # c
    <3>1. ChecksStillHold(d)'
      BY <2>2, ChecksPersist DEF ServingInv, OthersKeep
    <3> QED BY <1>1, <2>2, <3>1 DEF TweetIdIsFresh, StampIsFresh, UserIdIsFresh,
            LogLabels, CriticalLabels
  <2> QED BY <2>1, <2>2
<1>5. NoInternalError'
  BY DEF NoInternalError, ServingInv, OthersKeep, HolderInv
<1> QED BY <1>2, <1>4, <1>5 DEF ServingInv, HolderInv

\* A step outside the critical section, which at most advances the clock.
LEMMA BystanderStep ==
    ASSUME ServingInv, TypeOK', NEW c \in Clients, OthersKeep(c),
           pc[c] \notin CriticalLabels, pc'[c] \notin CriticalLabels,
           UNCHANGED <<users, tweets, idsUsr, idsTw, wmu>>, clk' >= clk,
           RecordsAreKnown', ChecksStillHold(c)', resp'[c].status # 500
    PROVE  ServingInv'
<1>1. WmuIsHeld'
  BY DEF ServingInv, WmuIsHeld, OthersKeep
<1>2. LogIsOrdered' /\ UserIdsAreUnique'
  BY DEF ServingInv, LogIsOrdered, UserIdsAreUnique, HasUser
<1>3. LogIsStamped'
  <2>1. clk \in Nat /\ clk' \in Nat /\ tweets' = tweets
    BY DEF ServingInv, TypeOK
  <2>2. \A i \in DOMAIN tweets : tweets[i].createdAt \in Nat /\ tweets[i].createdAt <= clk
    BY LogEntries DEF ServingInv, LogIsStamped
  <2>3. \A i \in DOMAIN tweets : tweets[i].createdAt <= clk'
    BY <2>1, <2>2
  <2> QED BY <2>1, <2>3 DEF ServingInv, LogIsStamped
<1>5. UsersGrow
  BY DEF UsersGrow, HasUser
<1>6. ASSUME NEW d \in Clients
      PROVE  TweetIdIsFresh(d)' /\ StampIsFresh(d)' /\ ChecksStillHold(d)' /\ UserIdIsFresh(d)'
  <2>1. CASE d = c
    BY <2>1 DEF TweetIdIsFresh, StampIsFresh, UserIdIsFresh, LogLabels, CriticalLabels
  <2>2. CASE d # c
    <3>1. ChecksStillHold(d)'
      BY <1>5, <2>2, ChecksPersist DEF ServingInv, OthersKeep
    <3>2. StampIsFresh(d)'
      BY <2>2 DEF ServingInv, OthersKeep, StampIsFresh, TypeOK
    <3>3. UserIdIsFresh(d)'
      BY <2>2 DEF ServingInv, OthersKeep, UserIdIsFresh
    <3>4. TweetIdIsFresh(d)'
      BY <2>2 DEF ServingInv, OthersKeep, TweetIdIsFresh
    <3> QED BY <3>1, <3>2, <3>3, <3>4
  <2> QED BY <2>1, <2>2
<1>7. NoInternalError'
  BY DEF NoInternalError, ServingInv, OthersKeep
<1> QED BY <1>1, <1>2, <1>3, <1>6, <1>7 DEF ServingInv

-----------------------------------------------------------------------------
(* The steps outside the critical section *)

LEMMA RecordsKept ==
    ASSUME ServingInv, UNCHANGED <<users, follows, tweets>>
    PROVE  RecordsAreKnown'
BY DEF ServingInv, RecordsAreKnown, HasUser

LEMMA CallInv ==
    ASSUME ServingInv, NEW c \in Clients, NEW r \in Requests, Call(c, r)
    PROVE  ServingInv'
<1> DEFINE entry == {"reply", "create.lock", "post.lock", "edge.from", "tick.tick",
                     "timeline.user"}
<1>1. TypeOK /\ TypeOK'
  BY CallTypes DEF ServingInv
<1>2. LocalsOnly(c) /\ pc[c] = "idle"
  BY <1>1 DEF Call, At, TypeOK, LocalsOnly
<1>3. /\ UNCHANGED <<users, tweets, idsUsr, idsTw, wmu>>
      /\ clk' >= clk
      /\ RecordsAreKnown'
  <2>1. UNCHANGED <<users, follows, tweets, idsUsr, idsTw, wmu, clk>>
    BY DEF Call, store
  <2> QED BY <1>1, <2>1, RecordsKept DEF TypeOK
<1>4. entry \subseteq Labels
  BY DEF Labels, CreateLabels, PostLabels, EdgeLabels, TickLabels, TimelineLabels
<1>5. OthersKeep(c) /\ pc'[c] \in entry /\ resp'[c].status # 500
  <2>1. CASE SyntaxError(r) = ""
    <3>1. r \in Request
      BY ServiceAssumption
    <3>2. FirstCall(r) \in entry
      BY <2>1, <3>1 DEF FirstCall, SyntaxError, Request, CreateRequest, EdgeRequest,
         PostRequest, TickRequest, TimelineRequest, OtherRequest
    <3>3. Goto(c, FirstCall(r))
      BY <2>1 DEF Call
    <3> QED BY <1>1, <1>2, <1>4, <3>2, <3>3, GotoFrame DEF ServingInv, NoInternalError
  <2>2. CASE SyntaxError(r) # ""
    <3> DEFINE a == ErrorBody(IF r.op = "unrouted" THEN 404 ELSE 400, SyntaxError(r))
    <3>1. Answer(c, a, "reply")
      BY <2>2 DEF Call
    <3>2. a.status # 500
      BY DEF ErrorBody
    <3> HIDE DEF a
    <3> QED BY <1>1, <1>2, <1>4, <3>1, <3>2, AnswerFrame
  <2> QED BY <2>1, <2>2
<1>6. ChecksStillHold(c)'
  BY <1>5 DEF ChecksStillHold, LogLabels
<1>7. pc[c] \notin CriticalLabels /\ pc'[c] \notin CriticalLabels
  BY <1>2, <1>5 DEF CriticalLabels
<1> QED BY <1>1, <1>3, <1>5, <1>6, <1>7, BystanderStep

LEMMA ReplyInv == ASSUME ServingInv, NEW c \in Clients, Reply(c) PROVE ServingInv'
<1>1. TypeOK /\ TypeOK'
  BY ReplyTypes DEF ServingInv
<1>2. OthersKeep(c) /\ pc[c] = "reply" /\ pc'[c] = "idle" /\ resp'[c] = NoReply
  BY <1>1 DEF Reply, OthersKeep, At, TypeOK
<1>3. /\ UNCHANGED <<users, tweets, idsUsr, idsTw, wmu, clk>> /\ clk' >= clk
      /\ RecordsAreKnown'
  BY <1>1, RecordsKept DEF Reply, store, TypeOK
<1>4. ChecksStillHold(c)' /\ resp'[c].status # 500
  BY <1>2 DEF ChecksStillHold, LogLabels, NoReply
<1>5. pc[c] \notin CriticalLabels /\ pc'[c] \notin CriticalLabels
  BY <1>2 DEF CriticalLabels
<1> QED BY <1>1, <1>2, <1>3, <1>4, <1>5, BystanderStep

\* An answer decided outside the critical section.
LEMMA BystanderAnswer ==
    ASSUME ServingInv, TypeOK', NEW c \in Clients, NEW a, a.status # 500,
           pc[c] \notin CriticalLabels, Answer(c, a, "reply"), RecordsAreKnown',
           UNCHANGED <<users, tweets, idsUsr, idsTw, clk, wmu, req, tmp>>
    PROVE  ServingInv'
<1>1. OthersKeep(c) /\ pc'[c] = "reply" /\ resp'[c] = a
  BY LocalsKept, AnswerFrame DEF ServingInv, Labels
<1>2. ChecksStillHold(c)' /\ pc'[c] \notin CriticalLabels
  BY <1>1 DEF ChecksStillHold, LogLabels, CriticalLabels
<1>3. clk' >= clk
  BY DEF ServingInv, TypeOK
<1> QED BY <1>1, <1>2, <1>3, BystanderStep

\* A move outside the critical section, after the lookups it rests on.
LEMMA BystanderGoto ==
    ASSUME ServingInv, TypeOK', NEW c \in Clients, NEW l \in Labels \ CriticalLabels,
           pc[c] \notin CriticalLabels, Goto(c, l), RecordsAreKnown',
           UNCHANGED <<users, tweets, idsUsr, idsTw, wmu, req, tmp>>, clk' >= clk,
           l \in {"edge.to", "follow.put", "unfollow.delete"} => HasUser(req[c].from),
           l \in {"follow.put", "unfollow.delete"} => HasUser(req[c].to)
    PROVE  ServingInv'
<1>1. OthersKeep(c) /\ pc'[c] = l /\ resp'[c] = resp[c]
  BY LocalsKept, GotoFrame DEF ServingInv
<1>2. ChecksStillHold(c)'
  BY <1>1 DEF ChecksStillHold, HasUser, LogLabels, CriticalLabels
<1>3. resp'[c].status # 500
  BY <1>1 DEF ServingInv, NoInternalError
<1> QED BY <1>1, <1>2, <1>3, BystanderStep

\* Only ErrNonMonotonic is an internal error.
LEMMA WireErrorInternal ==
    \A code : code # "non_monotonic_append" => WireError(code).status # 500
BY DEF WireError, ErrorBody

LEMMA EdgeInv ==
    ASSUME ServingInv, NEW c \in Clients,
           EdgeHasFrom(c) \/ EdgeHasTo(c) \/ PutFollow(c) \/ DeleteFollow(c)
    PROVE  ServingInv'
<1>1. TypeOK'
  BY EdgeTypes DEF ServingInv
<1>2. pc[c] \in EdgeLabels /\ pc[c] \notin CriticalLabels /\ RunsItsRoute(c)
  BY DEF EdgeHasFrom, EdgeHasTo, PutFollow, DeleteFollow, At, EdgeLabels, CriticalLabels,
         ServingInv, TypeOK
<1>3. /\ UNCHANGED <<users, tweets, idsUsr, idsTw, clk, wmu, req, tmp>>
      /\ clk' >= clk
  BY DEF EdgeHasFrom, EdgeHasTo, PutFollow, DeleteFollow, store, ServingInv, TypeOK
<1>7. RecordsAreKnown'
  <2>1. \A e \in follows' : e \notin follows => HasUser(e[1]) /\ HasUser(e[2])
    BY DEF EdgeHasFrom, EdgeHasTo, PutFollow, DeleteFollow, store
  <2> QED BY <1>3, <2>1 DEF ServingInv, RecordsAreKnown, HasUser
<1>4. CASE EdgeHasFrom(c)
  <2>1. \/ Answer(c, WireError("unknown_user"), "reply")
        \/ Goto(c, "edge.to") /\ HasUser(req[c].from)
    BY <1>4 DEF EdgeHasFrom
  <2> QED BY <1>1, <1>2, <1>3, <2>1, <1>7, BystanderAnswer, BystanderGoto, WireErrorInternal
          DEF Labels, EdgeLabels, CriticalLabels
<1>5. CASE EdgeHasTo(c)
  <2>1. \/ Answer(c, WireError("unknown_user"), "reply")
        \/ Answer(c, WireError("self_follow_forbidden"), "reply")
        \/ Goto(c, "unfollow.delete") /\ HasUser(req[c].to)
        \/ Goto(c, "follow.put") /\ HasUser(req[c].to)
    BY <1>5 DEF EdgeHasTo
  <2>2. HasUser(req[c].from)
    BY <1>5 DEF EdgeHasTo, At, ServingInv, ChecksStillHold
  <2> QED BY <1>1, <1>2, <1>3, <2>1, <2>2, <1>7, BystanderAnswer, BystanderGoto, WireErrorInternal
          DEF Labels, EdgeLabels, CriticalLabels
<1>6. CASE PutFollow(c) \/ DeleteFollow(c)
  <2>1. Answer(c, NoContent, "reply") \/ Answer(c, WireError("unknown_user"), "reply")
    BY <1>6 DEF PutFollow, DeleteFollow
  <2>2. NoContent.status # 500
    BY DEF NoContent
  <2> QED BY <1>1, <1>2, <1>3, <2>1, <2>2, <1>7, BystanderAnswer, WireErrorInternal
<1> QED BY <1>4, <1>5, <1>6

LEMMA ReadInv ==
    ASSUME ServingInv, NEW c \in Clients,
           Tick(c) \/ TickReadClock(c) \/ TimelineHasUser(c) \/ ReadPage(c)
    PROVE  ServingInv'
<1>1. TypeOK'
  BY ReadTypes DEF ServingInv
<1>2. pc[c] \notin CriticalLabels
  BY DEF Tick, TickReadClock, TimelineHasUser, ReadPage, At, CriticalLabels
<1>3. /\ UNCHANGED <<users, tweets, idsUsr, idsTw, wmu, req, tmp>>
      /\ ~Tick(c) => UNCHANGED clk
      /\ clk' >= clk
      /\ RecordsAreKnown'
  BY RecordsKept DEF Tick, TickReadClock, TimelineHasUser, ReadPage, store, ServingInv, TypeOK
<1>4. CASE Tick(c)
  <2>1. Goto(c, "tick.now")
    BY <1>4 DEF Tick
  <2> QED BY <1>1, <1>2, <1>3, <2>1, BystanderGoto DEF Labels, TickLabels, CriticalLabels
<1>5. CASE TickReadClock(c)
  <2>1. Answer(c, ClockBody(clk), "reply") /\ ClockBody(clk).status # 500
    BY <1>5 DEF TickReadClock, ClockBody
  <2>2. UNCHANGED clk
    BY <1>5 DEF TickReadClock
  <2> QED BY <1>1, <1>2, <1>3, <2>1, <2>2, BystanderAnswer
<1>6. CASE TimelineHasUser(c)
  <2>1. \/ Goto(c, "timeline.page")
        \/ \E code \in ErrorCode \ {"non_monotonic_append"} :
              Answer(c, WireError(code), "reply")
    BY <1>6 DEF TimelineHasUser, ErrorCode
  <2>2. UNCHANGED clk
    BY <1>6 DEF TimelineHasUser
  <2> QED BY <1>1, <1>2, <1>3, <2>1, <2>2, BystanderAnswer, BystanderGoto, WireErrorInternal
          DEF Labels, TimelineLabels, CriticalLabels
<1>7. CASE ReadPage(c)
  <2>1. \E page, next : Answer(c, TimelineBody(page, next), "reply")
    BY <1>7 DEF ReadPage
  <2>2. \A page, next : TimelineBody(page, next).status # 500
    BY DEF TimelineBody
  <2>3. UNCHANGED clk
    BY <1>7 DEF ReadPage
  <2> QED BY <1>1, <1>2, <1>3, <2>1, <2>2, <2>3, BystanderAnswer
<1> QED BY <1>4, <1>5, <1>6, <1>7

-----------------------------------------------------------------------------
(* The steps of the client that takes or holds wmu *)

\* A move inside the critical section, or into it, that touches no data.
LEMMA HolderGoto ==
    ASSUME ServingInv, TypeOK', NEW c \in Clients, Alone(c),
           NEW l \in {"create.has", "create.next", "post.has", "post.next"}, Goto(c, l),
           UNCHANGED <<store, idsUsr, idsTw, clk, req, tmp>>, wmu' = c,
           l = "post.next" => HasUser(req[c].author)
    PROVE  ServingInv'
<1> USE DEF store
<1>1. l \in Labels /\ l \in CriticalLabels
  BY DEF Labels, CreateLabels, PostLabels, CriticalLabels
<1>2. OthersKeep(c) /\ pc'[c] = l /\ resp'[c] = resp[c]
  BY <1>1, LocalsKept, GotoFrame DEF ServingInv
<1>3. HolderInv(c)
  BY HolderOpen
<1>4. HolderInv(c)'
  BY <1>2, <1>3 DEF HolderInv, LogIsOrdered, LogIsStamped,
     RecordsAreKnown, TweetIdIsFresh, UserIdsAreUnique, StampIsFresh,
     ChecksStillHold, UserIdIsFresh, HasUser, LogLabels
<1>5. UsersGrow
  BY DEF UsersGrow, HasUser
<1> QED BY <1>1, <1>2, <1>4, <1>5, HolderStep

\* The answer of a critical section that ends without an effect.
LEMMA HolderAnswer ==
    ASSUME ServingInv, TypeOK', NEW c \in Clients, NEW a, a.status # 500, pc[c] \in CriticalLabels,
           Answer(c, a, "unlock"),
           UNCHANGED <<store, idsUsr, idsTw, clk, wmu, req, tmp>>
    PROVE  ServingInv'
<1> USE DEF store
<1>1. OthersKeep(c) /\ pc'[c] = "unlock" /\ resp'[c] = a
  BY LocalsKept, AnswerFrame DEF ServingInv, Labels
<1>2. Alone(c) /\ HolderInv(c) /\ wmu' = c
  BY HolderIsAlone, HolderOpen DEF ServingInv, WmuIsHeld
<1>3. HolderInv(c)'
  BY <1>1, <1>2 DEF HolderInv, LogIsOrdered, LogIsStamped,
     RecordsAreKnown, TweetIdIsFresh, UserIdsAreUnique, StampIsFresh,
     ChecksStillHold, UserIdIsFresh, HasUser, LogLabels
<1>4. UsersGrow /\ pc'[c] \in CriticalLabels
  BY <1>1 DEF UsersGrow, HasUser, CriticalLabels
<1> QED BY <1>1, <1>2, <1>3, <1>4, HolderStep

LEMMA MutexInv ==
    ASSUME ServingInv, NEW c \in Clients, AcquireWmu(c) \/ ReleaseWmu(c)
    PROVE  ServingInv'
<1>1. TypeOK'
  BY MutexTypes DEF ServingInv
<1>2. UNCHANGED <<store, idsUsr, idsTw, clk, req, tmp>>
  BY DEF AcquireWmu, ReleaseWmu, store
<1>3. CASE AcquireWmu(c)
  <2>1. Alone(c) /\ wmu' = c
    BY <1>3, HolderIsAlone DEF AcquireWmu
  <2>3. Goto(c, "create.has") \/ Goto(c, "post.has")
    BY <1>3 DEF AcquireWmu
  <2> QED BY <1>1, <1>2, <2>1, <2>3, HolderGoto
<1>4. CASE ReleaseWmu(c)
  <2>1. pc[c] = "unlock" /\ pc[c] \in CriticalLabels /\ wmu' = Nobody
    BY <1>4 DEF ReleaseWmu, At, CriticalLabels
  <2>2. OthersKeep(c) /\ pc'[c] = "reply" /\ resp'[c] = resp[c]
    BY <1>2, <1>4, LocalsKept, GotoFrame DEF ReleaseWmu, ServingInv, Labels
  <2>3. Alone(c) /\ HolderInv(c)
    BY <2>1, HolderIsAlone, HolderOpen
  <2>4. HolderInv(c)'
    BY <1>2, <2>1, <2>2, <2>3 DEF store, HolderInv, LogIsOrdered, LogIsStamped,
     RecordsAreKnown, TweetIdIsFresh, UserIdsAreUnique,
       StampIsFresh, ChecksStillHold, UserIdIsFresh, HasUser, LogLabels
  <2>5. UsersGrow /\ pc'[c] \notin CriticalLabels
    BY <1>2, <2>2 DEF store, UsersGrow, HasUser, CriticalLabels
  <2> QED BY <1>1, <2>1, <2>2, <2>3, <2>4, <2>5, HolderStep
<1> QED BY <1>3, <1>4

LEMMA CreateInv ==
    ASSUME ServingInv, NEW c \in Clients, CreateHasUser(c) \/ CreateNextID(c) \/ PutUser(c)
    PROVE  ServingInv'
<1>1. TypeOK /\ TypeOK'
  BY CreateTypes DEF ServingInv
<1>2. pc[c] \in CriticalLabels /\ pc[c] \notin LogLabels
  BY DEF CreateHasUser, CreateNextID, PutUser, At, CriticalLabels, LogLabels
<1>3. Alone(c) /\ HolderInv(c) /\ wmu = c
  BY <1>2, HolderIsAlone, HolderOpen DEF ServingInv, WmuIsHeld
<1>4. CASE CreateHasUser(c)
  <2>1. UNCHANGED <<store, idsUsr, idsTw, clk, wmu, req, tmp>>
    BY <1>4 DEF CreateHasUser
  <2> QED BY <1>1, <1>2, <1>3, <1>4, <2>1, HolderGoto, HolderAnswer, WireErrorInternal
          DEF CreateHasUser
<1>5. CASE CreateNextID(c)
  <2>1. OthersKeep(c) /\ pc'[c] = "create.put" /\ resp'[c] = resp[c]
    BY <1>1, <1>5, StoringLocals, GotoFrame DEF CreateNextID, Labels, CreateLabels, TypeOK
  <2>2. tmp'[c].id = idsUsr /\ idsUsr' = idsUsr + 1 /\ idsUsr \in Nat \ {0}
    BY <1>1, <1>5 DEF CreateNextID, TypeOK
  <2>3. UNCHANGED <<users, follows, tweets, idsTw, clk, wmu, req>>
    BY <1>5 DEF CreateNextID, store
  <2>4. UserIdIsFresh(c)' /\ UserIdsAreUnique'
    BY <1>1, <1>3, <2>2, <2>3 DEF UserIdIsFresh, UserIdsAreUnique, HolderInv, HasUser, TypeOK
  <2>5. HolderInv(c)'
    BY <1>2, <1>3, <2>1, <2>3, <2>4 DEF HolderInv, LogIsOrdered, LogIsStamped,
     RecordsAreKnown, TweetIdIsFresh, StampIsFresh,
       ChecksStillHold, HasUser, LogLabels
  <2>6. UsersGrow /\ pc'[c] \in CriticalLabels
    BY <2>1, <2>3 DEF UsersGrow, HasUser, CriticalLabels
  <2> QED BY <1>1, <1>3, <2>1, <2>3, <2>5, <2>6, HolderStep
<1>6. CASE PutUser(c) /\ users' = users
  <2>1. UNCHANGED <<store, idsUsr, idsTw, clk, wmu, req, tmp>>
    BY <1>6 DEF PutUser, store
  <2>2. \A h, n : UserBody(h, n).status # 500
    BY DEF UserBody
  <2> QED BY <1>1, <1>2, <1>6, <2>1, <2>2, HolderAnswer, WireErrorInternal DEF PutUser
<1>7. CASE PutUser(c) /\ users' # users
  <2> DEFINE h == req[c].handle
  <2>1. /\ h \in Handles /\ ~HasUser(h)
        /\ users' = [users EXCEPT ![h] = tmp[c].id]
        /\ Answer(c, UserBody(h, tmp[c].id), "unlock")
    BY <1>1, <1>7 DEF PutUser, At, TypeOK, RunsItsRoute, CreateLabels
  <2>2. UNCHANGED <<follows, tweets, idsUsr, idsTw, clk, wmu, req, tmp>>
    BY <1>7 DEF PutUser
  <2>3. OthersKeep(c) /\ pc'[c] = "unlock" /\ resp'[c] = UserBody(h, tmp[c].id)
    BY <1>1, <2>1, <2>2, LocalsKept, AnswerFrame DEF Labels
  <2>4. tmp[c].id \in 1..(idsUsr - 1) /\ \A g \in Handles : users[g] # tmp[c].id
    BY <1>3, <1>7 DEF PutUser, At, HolderInv, UserIdIsFresh
  <2>5. UserIdsAreUnique' /\ UsersGrow
    <3>1. /\ users'[h] = tmp[c].id
          /\ \A g \in Handles : g # h => users'[g] = users[g]
      BY <1>1, <2>1 DEF TypeOK
    <3> HIDE DEF h
    <3> QED BY <1>1, <1>3, <2>1, <2>2, <2>4, <3>1 DEF UserIdsAreUnique, HolderInv, HasUser,
            UsersGrow, TypeOK
  <2>8. RecordsAreKnown'
    <3>1. /\ follows \subseteq Edge
          /\ \A i \in DOMAIN tweets : tweets[i].author \in Handles
      BY <1>1, LogEntries DEF TypeOK
    <3> QED BY <1>3, <2>2, <2>5, <3>1 DEF HolderInv, RecordsAreKnown, UsersGrow, Edge
  <2>6. HolderInv(c)'
    BY <1>2, <1>3, <2>2, <2>3, <2>5, <2>8 
       DEF HolderInv, LogIsOrdered, LogIsStamped, TweetIdIsFresh, StampIsFresh,
       UserIdIsFresh, ChecksStillHold, LogLabels, UserBody
  <2>7. pc'[c] \in CriticalLabels
    BY <2>3 DEF CriticalLabels
  <2> QED BY <1>1, <1>3, <2>2, <2>3, <2>5, <2>6, <2>7, HolderStep
<1> QED BY <1>4, <1>5, <1>6, <1>7

\* What the guard of the append log asks of a post, the post's own critical
\* section has secured: PutTweet cannot refuse.
LEMMA PutTweetAccepts ==
    ASSUME ServingInv, NEW c \in Clients, At(c, "post.put")
    PROVE  PutTweetError(NewTweet(c)) = ""
<1>1. HasUser(req[c].author)
  BY DEF ServingInv, ChecksStillHold, LogLabels, At
<1>3. ASSUME tweets # << >>
      PROVE  /\ Len(tweets) \in DOMAIN tweets
             /\ tmp[c].id > tweets[Len(tweets)].id
             /\ tmp[c].createdAt >= tweets[Len(tweets)].createdAt
  <2>1. Len(tweets) \in DOMAIN tweets /\ Len(tweets) \in Nat
    BY <1>3, LogEntries DEF ServingInv, TypeOK
  <2>2. tmp[c].createdAt \in Nat /\ tweets[Len(tweets)].createdAt \in Nat
    BY <2>1, LogEntries DEF ServingInv, TypeOK
  <2>3. /\ tweets[Len(tweets)].id \in Nat /\ tmp[c].id \in Nat
        /\ tweets[Len(tweets)].id < tmp[c].id
    BY <2>1, LogEntries DEF ServingInv, TweetIdIsFresh, LogLabels, At, TypeOK
  <2>4. tweets[Len(tweets)].createdAt <= tmp[c].createdAt
    BY <2>1 DEF ServingInv, StampIsFresh, At
  <2> QED BY <2>1, <2>2, <2>3, <2>4
<1> QED BY <1>1, <1>3 DEF PutTweetError, NewTweet, AcceptsTweet

LEMMA AppendEntries ==
    ASSUME TypeOK, NEW t, tweets' = Append(tweets, t), t \in Tweet
    PROVE  /\ Len(tweets') = Len(tweets) + 1
           /\ DOMAIN tweets' = DOMAIN tweets \cup {Len(tweets) + 1}
           /\ Len(tweets) + 1 \notin DOMAIN tweets
           /\ tweets'[Len(tweets) + 1] = t
           /\ \A i \in DOMAIN tweets : tweets'[i] = tweets[i]
<1>1. tweets \in Seq(Tweet)
  BY DEF TypeOK
<1> QED BY <1>1, LogEntries

LEMMA PutTweetInv == ASSUME ServingInv, NEW c \in Clients, PutTweet(c) PROVE ServingInv'
<1> DEFINE t == NewTweet(c)
           n == Len(tweets) + 1
<1>1. TypeOK /\ TypeOK'
  BY PostTypes DEF ServingInv
<1>2. pc[c] = "post.put" /\ pc[c] \in CriticalLabels /\ pc[c] \in LogLabels
  BY DEF PutTweet, At, CriticalLabels, LogLabels
<1>3. Alone(c) /\ HolderInv(c) /\ wmu = c
  BY <1>2, HolderIsAlone, HolderOpen DEF ServingInv, WmuIsHeld
<1>4. tweets' = Append(tweets, t) /\ Answer(c, TweetBody(t), "unlock")
  BY PutTweetAccepts DEF PutTweet
<1>5. UNCHANGED <<users, follows, idsUsr, idsTw, clk, wmu, req, tmp>>
  BY DEF PutTweet
<1>6. OthersKeep(c) /\ pc'[c] = "unlock" /\ resp'[c] = TweetBody(t)
  BY <1>1, <1>4, <1>5, LocalsKept, AnswerFrame DEF Labels
<1>7. /\ t.createdAt = tmp[c].createdAt /\ t.id < idsTw /\ HasUser(t.author)
      /\ \A i \in DOMAIN tweets : tweets[i].id < t.id
  BY <1>2, <1>3 DEF NewTweet, HolderInv, TweetIdIsFresh, ChecksStillHold
<1>8. t \in Tweet
  BY <1>1, <1>2 DEF TypeOK, RunsItsRoute, NewTweet, Tweet, PostLabels
<1> HIDE DEF t
<1>9. /\ Len(tweets') = n /\ DOMAIN tweets' = DOMAIN tweets \cup {n}
      /\ n \notin DOMAIN tweets /\ tweets'[n] = t /\ n \in Nat
      /\ \A i \in DOMAIN tweets : tweets'[i] = tweets[i] /\ i < n
  BY <1>1, <1>4, <1>8, AppendEntries, LogEntries
<1>10. LogIsOrdered' /\ RecordsAreKnown'
  <2>1. \A i \in DOMAIN tweets' : tweets'[i].id < idsTw' /\ users'[tweets'[i].author] # 0
    BY <1>3, <1>5, <1>7, <1>9 DEF HolderInv, LogIsOrdered, RecordsAreKnown, HasUser
  <2>2. \A i, j \in DOMAIN tweets' : i < j => tweets'[i].id < tweets'[j].id
    <3>1. \A i \in DOMAIN tweets : i \in Nat
      BY <1>1, LogEntries
    <3> QED BY <1>3, <1>7, <1>9, <3>1 DEF HolderInv, LogIsOrdered
  <2> QED BY <1>3, <1>5, <2>1, <2>2 DEF LogIsOrdered, HolderInv, RecordsAreKnown, HasUser
<1>11. LogIsStamped'
  <2>1. \A i \in DOMAIN tweets : tweets[i].createdAt <= t.createdAt
    BY <1>2, <1>3, <1>7 DEF HolderInv, StampIsFresh
  <2>2. t.createdAt \in Nat /\ t.createdAt <= clk
    BY <1>1, <1>2, <1>3, <1>7 DEF HolderInv, StampIsFresh, TypeOK
  <2>3. \A i \in DOMAIN tweets' : tweets'[i].createdAt <= clk'
    BY <1>3, <1>5, <1>9, <2>2 DEF HolderInv, LogIsStamped
  <2>4. ASSUME NEW i \in DOMAIN tweets', NEW j \in DOMAIN tweets', i <= j
        PROVE  tweets'[i].createdAt <= tweets'[j].createdAt
    <3>1. CASE j = n
      BY <1>9, <2>1, <2>2, <3>1
    <3>2. CASE j # n
      <4>1. j \in DOMAIN tweets /\ i \in DOMAIN tweets
        BY <1>1, <1>9, <2>4, <3>2, LogEntries
      <4> QED BY <1>3, <1>9, <2>4, <4>1 DEF HolderInv, LogIsStamped
    <3> QED BY <3>1, <3>2
  <2> QED BY <2>3, <2>4 DEF LogIsStamped
<1>12. UserIdsAreUnique' /\ UsersGrow
  BY <1>3, <1>5 DEF HolderInv, UserIdsAreUnique, HasUser, UsersGrow
<1>14. TweetBody(t).status # 500
  BY DEF TweetBody
<1>15. HolderInv(c)'
  BY <1>6, <1>10, <1>11, <1>12, <1>14 DEF HolderInv, TweetIdIsFresh, StampIsFresh, ChecksStillHold,
     UserIdIsFresh, LogLabels
<1>16. pc'[c] \in CriticalLabels /\ wmu' = c
  BY <1>3, <1>5, <1>6 DEF CriticalLabels
<1> QED BY <1>1, <1>3, <1>6, <1>12, <1>15, <1>16, HolderStep

LEMMA PostInv ==
    ASSUME ServingInv, NEW c \in Clients, PostHasUser(c) \/ PostNextID(c) \/ PostReadClock(c)
    PROVE  ServingInv'
<1>1. TypeOK /\ TypeOK'
  BY PostTypes DEF ServingInv
<1>2. pc[c] \in CriticalLabels
  BY DEF PostHasUser, PostNextID, PostReadClock, At, CriticalLabels
<1>3. Alone(c) /\ HolderInv(c) /\ wmu = c
  BY <1>2, HolderIsAlone, HolderOpen DEF ServingInv, WmuIsHeld
<1>4. CASE PostHasUser(c)
  <2>1. UNCHANGED <<store, idsUsr, idsTw, clk, wmu, req, tmp>>
    BY <1>4 DEF PostHasUser
  <2> QED BY <1>1, <1>2, <1>3, <1>4, <2>1, HolderGoto, HolderAnswer, WireErrorInternal
          DEF PostHasUser
<1>5. CASE PostNextID(c)
  <2>1. OthersKeep(c) /\ pc'[c] = "post.now" /\ resp'[c] = resp[c]
    BY <1>1, <1>5, StoringLocals, GotoFrame DEF PostNextID, Labels, PostLabels, TypeOK
  <2>2. UNCHANGED <<users, follows, tweets, idsUsr, clk, wmu, req>>
    BY <1>5 DEF PostNextID, store
  <2>3. tmp'[c].id = idsTw /\ idsTw' = idsTw + 1 /\ idsTw \in Nat
    BY <1>1, <1>5 DEF PostNextID, TypeOK
  <2>4. LogIsOrdered' /\ TweetIdIsFresh(c)'
    <3>1. \A i \in DOMAIN tweets : tweets[i].id \in Nat /\ tweets[i].id < idsTw
      BY <1>1, <1>3, LogEntries DEF HolderInv, LogIsOrdered
    <3> QED BY <1>3, <2>2, <2>3, <3>1 DEF HolderInv, LogIsOrdered, TweetIdIsFresh
  <2>5. HasUser(req[c].author)
    BY <1>3, <1>5 DEF PostNextID, At, HolderInv, ChecksStillHold
  <2>6. HolderInv(c)'
    BY <1>3, <2>1, <2>2, <2>4, <2>5 DEF HolderInv, LogIsOrdered, LogIsStamped,
     RecordsAreKnown, TweetIdIsFresh, StampIsFresh,
       ChecksStillHold, UserIdIsFresh, UserIdsAreUnique, HasUser, LogLabels
  <2>7. UsersGrow /\ pc'[c] \in CriticalLabels
    BY <2>1, <2>2 DEF UsersGrow, HasUser, CriticalLabels
  <2> QED BY <1>1, <1>3, <2>1, <2>2, <2>6, <2>7, HolderStep
<1>6. CASE PostReadClock(c)
  <2>1. OthersKeep(c) /\ pc'[c] = "post.put" /\ resp'[c] = resp[c]
    BY <1>1, <1>6, StoringLocals, GotoFrame DEF PostReadClock, Labels, PostLabels, TypeOK
  <2>2. UNCHANGED <<users, follows, tweets, idsUsr, idsTw, clk, wmu, req>>
    BY <1>6 DEF PostReadClock, store
  <2>3. tmp'[c].createdAt = clk /\ tmp'[c].id = tmp[c].id /\ clk \in Nat
    BY <1>1, <1>6 DEF PostReadClock, TypeOK
  <2>4. pc[c] \in LogLabels /\ HasUser(req[c].author)
    BY <1>3, <1>6 DEF PostReadClock, At, LogLabels, HolderInv, ChecksStillHold
  <2>5. StampIsFresh(c)'
    BY <1>3, <2>2, <2>3 DEF HolderInv, LogIsStamped, StampIsFresh
  <2>6. HolderInv(c)'
    BY <1>3, <2>1, <2>2, <2>3, <2>4, <2>5 DEF HolderInv, LogIsOrdered, LogIsStamped,
     RecordsAreKnown, TweetIdIsFresh,
       ChecksStillHold, UserIdIsFresh, UserIdsAreUnique, HasUser, LogLabels
  <2>7. UsersGrow /\ pc'[c] \in CriticalLabels
    BY <2>1, <2>2 DEF UsersGrow, HasUser, CriticalLabels
  <2> QED BY <1>1, <1>3, <2>1, <2>2, <2>6, <2>7, HolderStep
<1> QED BY <1>4, <1>5, <1>6

-----------------------------------------------------------------------------
(* Initially, and by every step *)

LEMMA InitServes == Init => ServingInv
<1> SUFFICES ASSUME Init PROVE ServingInv
  OBVIOUS
<1>1. TypeOK
  BY InitTypes
<1>2. WmuIsHeld
  BY ServiceAssumption DEF Init, WmuIsHeld, CriticalLabels
<1>3. LogIsOrdered /\ LogIsStamped /\ RecordsAreKnown
  BY DEF Init, LogIsOrdered, LogIsStamped, RecordsAreKnown
<1>4. UserIdsAreUnique
  BY DEF Init, UserIdsAreUnique, HasUser
<1>5. \A c \in Clients : /\ TweetIdIsFresh(c) /\ StampIsFresh(c)
                         /\ ChecksStillHold(c) /\ UserIdIsFresh(c)
  BY DEF Init, TweetIdIsFresh, StampIsFresh, ChecksStillHold, UserIdIsFresh, LogLabels
<1>6. NoInternalError
  BY DEF Init, NoInternalError, NoReply
<1> QED BY <1>1, <1>2, <1>3, <1>4, <1>5, <1>6 DEF ServingInv

LEMMA NextServes == ServingInv /\ [Next]_vars => ServingInv'
<1> SUFFICES ASSUME ServingInv, [Next]_vars PROVE ServingInv'
  OBVIOUS
<1>1. CASE UNCHANGED vars
  <2>1. TypeOK'
    BY <1>1, NextTypes DEF ServingInv
  <2> QED BY <1>1, <2>1 DEF vars, store, ServingInv, WmuIsHeld, LogIsOrdered, LogIsStamped,
          RecordsAreKnown, UserIdsAreUnique, TweetIdIsFresh, StampIsFresh, ChecksStillHold,
          UserIdIsFresh, NoInternalError, HasUser
<1>2. CASE Next
  BY <1>2, CallInv, ReplyInv, MutexInv, CreateInv, PostInv, PutTweetInv, EdgeInv, ReadInv
     DEF Next, Handler
<1> QED BY <1>1, <1>2

-----------------------------------------------------------------------------
(* The ids of a log that only grew from nothing are its positions *)

LEMMA PositionsKept ==
    ASSUME IndInv, UNCHANGED <<tweets, idsTw>>,
           \A d \in Clients : /\ pc'[d] \in LogLabels <=> pc[d] \in LogLabels
                              /\ pc[d] \in LogLabels => tmp'[d].id = tmp[d].id
    PROVE  IdIsReserved' /\ LogIsPositional'
<1>1. LogIsPositional'
  BY DEF IndInv, LogIsPositional
<1>2. (\A d \in Clients : pc'[d] \notin LogLabels) => idsTw' = Len(tweets') + 1
  BY DEF IndInv, IdIsReserved
<1>3. ASSUME NEW d \in Clients, pc'[d] \in LogLabels
      PROVE  tmp'[d].id = Len(tweets') + 1 /\ idsTw' = Len(tweets') + 2
  BY <1>3 DEF IndInv, IdIsReserved
<1> QED BY <1>1, <1>2, <1>3 DEF IdIsReserved

LEMMA PositionsStep ==
    ASSUME IndInv, NEW c \in Clients, Handler(c), ~PostNextID(c), ~PutTweet(c)
    PROVE  IdIsReserved' /\ LogIsPositional'
<1>1. TypeOK
  BY DEF IndInv, ServingInv
<1>2. UNCHANGED <<tweets, idsTw>>
  BY DEF Handler, store, AcquireWmu, ReleaseWmu, Reply, CreateHasUser, CreateNextID, PutUser,
     PostHasUser, PostReadClock, EdgeHasFrom, EdgeHasTo, PutFollow, DeleteFollow, Tick,
     TickReadClock, TimelineHasUser, ReadPage
<1>3. /\ pc \in [Clients -> Labels]
      /\ tmp \in [Clients -> [id : Nat, createdAt : Nat]]
  BY <1>1 DEF TypeOK
<1>4. /\ pc' = [pc EXCEPT ![c] = pc'[c]]
      /\ pc'[c] \in LogLabels <=> pc[c] \in LogLabels
  <2> USE <1>3 DEF At, Goto, Answer, LogLabels
  <2>1. CASE AcquireWmu(c) \/ ReleaseWmu(c) \/ Reply(c)
    BY <2>1 DEF AcquireWmu, ReleaseWmu, Reply
  <2>2. CASE CreateHasUser(c) \/ CreateNextID(c) \/ PutUser(c)
    BY <2>2 DEF CreateHasUser, CreateNextID, PutUser
  <2>3. CASE PostHasUser(c) \/ PostReadClock(c)
    BY <2>3 DEF PostHasUser, PostReadClock
  <2>4. CASE EdgeHasFrom(c) \/ EdgeHasTo(c) \/ PutFollow(c) \/ DeleteFollow(c)
    BY <2>4 DEF EdgeHasFrom, EdgeHasTo, PutFollow, DeleteFollow
  <2>5. CASE Tick(c) \/ TickReadClock(c) \/ TimelineHasUser(c) \/ ReadPage(c)
    BY <2>5 DEF Tick, TickReadClock, TimelineHasUser, ReadPage
  <2> QED BY <2>1, <2>2, <2>3, <2>4, <2>5 DEF Handler
<1>5. \/ tmp' = tmp
      \/ pc[c] \notin LogLabels /\ \E x : tmp' = [tmp EXCEPT ![c] = x]
      \/ \E n : tmp' = [tmp EXCEPT ![c].createdAt = n]
  BY DEF Handler, At, LogLabels, AcquireWmu, ReleaseWmu, Reply, CreateHasUser, CreateNextID,
     PutUser, PostHasUser, PostReadClock, EdgeHasFrom, EdgeHasTo, PutFollow, DeleteFollow,
     Tick, TickReadClock, TimelineHasUser, ReadPage
<1>6. \A d \in Clients : /\ pc'[d] \in LogLabels <=> pc[d] \in LogLabels
                         /\ pc[d] \in LogLabels => tmp'[d].id = tmp[d].id
  <2>1. ASSUME NEW d \in Clients PROVE pc'[d] \in LogLabels <=> pc[d] \in LogLabels
    <3>1. d # c => pc'[d] = pc[d]
      BY <1>3, <1>4
    <3> QED BY <1>4, <3>1
  <2>2. \A d \in Clients : pc[d] \in LogLabels => tmp'[d].id = tmp[d].id
    BY <1>3, <1>5
  <2> QED BY <2>1, <2>2
<1> QED BY <1>2, <1>6, PositionsKept

LEMMA NextPositions == IndInv /\ [Next]_vars => IdIsReserved' /\ LogIsPositional'
<1> SUFFICES ASSUME IndInv, [Next]_vars PROVE IdIsReserved' /\ LogIsPositional'
  OBVIOUS
<1>1. TypeOK
  BY DEF IndInv, ServingInv
<1>2. CASE UNCHANGED vars
  BY <1>2, PositionsKept DEF vars
<1>3. ASSUME NEW c \in Clients, NEW r \in Requests, Call(c, r)
      PROVE  IdIsReserved' /\ LogIsPositional'
  <2>1. UNCHANGED <<tweets, idsTw, tmp>> /\ pc[c] = "idle"
    BY <1>3 DEF Call, store, At
  <2>2. /\ \A d \in Clients : d # c => pc'[d] = pc[d]
        /\ pc'[c] \notin LogLabels
    <3>1. r \in Request
      BY ServiceAssumption
    <3>2. SyntaxError(r) = "" => FirstCall(r) \notin LogLabels
      BY <3>1 DEF FirstCall, SyntaxError, LogLabels, Request, CreateRequest, EdgeRequest,
         PostRequest, TickRequest, TimelineRequest, OtherRequest
    <3>3. pc' = [pc EXCEPT ![c] = pc'[c]] /\ pc'[c] \notin LogLabels
      <4>1. CASE SyntaxError(r) = ""
        BY <1>1, <1>3, <3>2, <4>1 DEF Call, Goto, TypeOK
      <4>2. CASE SyntaxError(r) # ""
        <5>1. pc' = [pc EXCEPT ![c] = "reply"]
          BY <1>3, <4>2 DEF Call, Answer
        <5> QED BY <1>1, <5>1 DEF LogLabels, TypeOK
      <4> QED BY <4>1, <4>2
    <3> QED BY <1>1, <3>3 DEF TypeOK
  <2> QED BY <2>1, <2>2, PositionsKept DEF LogLabels
<1>4. ASSUME NEW c \in Clients, PostNextID(c) \/ PutTweet(c)
      PROVE  IdIsReserved' /\ LogIsPositional'
  <2>1. pc[c] \in CriticalLabels
    BY <1>4 DEF PostNextID, PutTweet, At, CriticalLabels
  <2>2. Alone(c)
    BY <2>1, HolderIsAlone DEF IndInv
  <2>3. \A d \in Clients : d # c => pc[d] \notin LogLabels /\ pc'[d] \notin LogLabels
    BY <1>1, <1>4, <2>2 DEF Alone, CriticalLabels, LogLabels, PostNextID, PutTweet, Goto,
       Answer, TypeOK
  <2>4. Len(tweets) \in Nat /\ DOMAIN tweets = 1..Len(tweets)
    BY <1>1, LogEntries
  <2>5. CASE PostNextID(c)
    <3>1. pc[c] \notin LogLabels /\ tweets' = tweets
      BY <2>5 DEF PostNextID, At, LogLabels, store
    <3>2. idsTw = Len(tweets) + 1
      BY <2>3, <3>1 DEF IndInv, IdIsReserved
    <3>3. tmp'[c].id = idsTw /\ idsTw' = idsTw + 1 /\ pc'[c] \in LogLabels
      BY <1>1, <2>5 DEF PostNextID, Goto, TypeOK, LogLabels
    <3> QED BY <2>3, <2>4, <3>1, <3>2, <3>3 DEF IndInv, IdIsReserved, LogIsPositional
  <2>6. CASE PutTweet(c)
    <3> DEFINE t == NewTweet(c)
    <3>1. tweets' = Append(tweets, t) /\ idsTw' = idsTw /\ pc'[c] = "unlock"
      BY <1>1, <2>6, PutTweetAccepts DEF PutTweet, Answer, TypeOK, IndInv
    <3>2. t.id = Len(tweets) + 1 /\ idsTw = Len(tweets) + 2
      BY <2>6 DEF PutTweet, At, IndInv, IdIsReserved, LogLabels, NewTweet
    <3>3. t \in Tweet
      BY <1>1, <2>6 DEF PutTweet, At, TypeOK, RunsItsRoute, NewTweet, Tweet, PostLabels
    <3> HIDE DEF t
    <3>4. /\ Len(tweets') = Len(tweets) + 1
          /\ DOMAIN tweets' = DOMAIN tweets \cup {Len(tweets) + 1}
          /\ tweets'[Len(tweets) + 1] = t
          /\ \A i \in DOMAIN tweets : tweets'[i] = tweets[i]
      BY <1>1, <3>1, <3>3, AppendEntries
    <3>5. pc'[c] \notin LogLabels
      BY <3>1 DEF LogLabels
    <3> QED BY <2>3, <2>4, <3>1, <3>2, <3>4, <3>5 DEF IndInv, IdIsReserved, LogIsPositional
  <2> QED BY <1>4, <2>5, <2>6
<1> QED BY <1>2, <1>3, <1>4, PositionsStep DEF Next

-----------------------------------------------------------------------------
(* Theorems *)

LEMMA InitInv == Init => IndInv
<1>1. Init => IdIsReserved /\ LogIsPositional
  BY DEF Init, IdIsReserved, LogIsPositional, LogLabels
<1> QED BY <1>1, InitServes DEF IndInv

LEMMA NextInv == IndInv /\ [Next]_vars => IndInv'
<1>1. IndInv => ServingInv
  BY DEF IndInv
<1>2. ServingInv' /\ IdIsReserved' /\ LogIsPositional' => IndInv'
  BY DEF IndInv
<1> QED BY <1>1, <1>2, NextServes, NextPositions

(* IndInv holds in every reachable state: at most one client is inside     *)
(* wmu, and the id and stamp it holds are the next ones of the log.        *)
THEOREM IndInvHolds == Spec => []IndInv
BY InitInv, NextInv, PTL DEF Spec

(* No request is answered 500, for any clients and requests: the append    *)
(* guard of MemStore.PutTweet never fires (memstore.go:316-320).           *)
THEOREM NeverInternalError == Spec => []NoInternalError
<1>1. IndInv => NoInternalError
  BY DEF IndInv, ServingInv
<1> QED BY <1>1, IndInvHolds, PTL
-----------------------------------------------------------------------------
(* The design model *)

\* The mapped variables, named.
Known == {h \in Handles : HasUser(h)}
AsDesign(t) == [id |-> t.id - 1, author |-> t.author, ts |-> t.createdAt]
Log == [i \in DOMAIN tweets |-> AsDesign(tweets[i])]

LEMMA MappedVars ==
    Design!vars = <<Known, follows, Log, clk, Len(tweets)>>
BY DEF Design!vars, Known, Log, AsDesign

LEMMA InitRefines == Init => Design!Init
BY DEF Init, Design!Init, HasUser

LEMMA StutterRefines ==
    ASSUME UNCHANGED <<users, follows, tweets, clk>>
    PROVE  UNCHANGED Design!vars
BY DEF Design!vars, HasUser

\* Steps that write neither the store nor the clock are stutters.
LEMMA ControlRefines ==
    ASSUME NEW c \in Clients,
           \/ \E r \in Requests : Call(c, r)
           \/ Reply(c) \/ AcquireWmu(c) \/ ReleaseWmu(c)
           \/ CreateHasUser(c) \/ CreateNextID(c)
           \/ PostHasUser(c) \/ PostNextID(c) \/ PostReadClock(c)
           \/ EdgeHasFrom(c) \/ EdgeHasTo(c)
           \/ TickReadClock(c) \/ TimelineHasUser(c) \/ ReadPage(c)
    PROVE  UNCHANGED Design!vars
<1>1. UNCHANGED <<users, follows, tweets, clk>>
  BY DEF Call, Reply, AcquireWmu, ReleaseWmu, CreateHasUser, CreateNextID, PostHasUser,
         PostNextID, PostReadClock, EdgeHasFrom, EdgeHasTo, TickReadClock, TimelineHasUser,
         ReadPage, store
<1> QED BY <1>1, StutterRefines

LEMMA TickRefines == ASSUME NEW c \in Clients, Tick(c) PROVE Design!Tick
BY DEF Tick, Design!Tick, store, HasUser

LEMMA PutUserRefines ==
    ASSUME IndInv, NEW c \in Clients, PutUser(c)
    PROVE  (\E u \in Handles : Design!CreateUser(u)) \/ UNCHANGED Design!vars
<1> DEFINE h == req[c].handle
<1>1. h \in Handles /\ users \in [Handles -> Nat]
  BY DEF PutUser, At, IndInv, ServingInv, TypeOK, RunsItsRoute, CreateLabels
<1>2. tmp[c].id # 0
  BY DEF PutUser, At, IndInv, ServingInv, TypeOK, UserIdIsFresh
<1>3. UNCHANGED <<follows, tweets, clk>>
  BY DEF PutUser
<1>4. CASE HasUser(h)
  BY <1>3, <1>4, StutterRefines DEF PutUser
<1>5. CASE ~HasUser(h)
  <2>1. users' = [users EXCEPT ![h] = tmp[c].id]
    BY <1>5 DEF PutUser
  <2>2. Known' = Known \cup {h} /\ h \notin Known
    BY <1>1, <1>2, <1>5, <2>1 DEF Known, HasUser
  <2>3. Log' = Log
    BY <1>3 DEF Log, AsDesign
  <2>4. Design!CreateUser(h)
    BY <1>3, <2>2, <2>3 DEF Design!CreateUser, Known, Log, AsDesign
  <2> QED BY <1>1, <2>4
<1> QED BY <1>4, <1>5

LEMMA EdgeRefines ==
    ASSUME IndInv, NEW c \in Clients, PutFollow(c) \/ DeleteFollow(c)
    PROVE  (\E a, b \in Handles : Design!Follow(a, b) \/ Design!Unfollow(a, b))
             \/ UNCHANGED Design!vars
<1> DEFINE a == req[c].from
           b == req[c].to
<1>1. a \in Handles /\ b \in Handles
  BY DEF PutFollow, DeleteFollow, At, IndInv, ServingInv, TypeOK, RunsItsRoute, EdgeLabels
<1>2. {a, b} \subseteq Known
  BY <1>1 DEF PutFollow, DeleteFollow, At, IndInv, ServingInv, ChecksStillHold, Known
<1>3. UNCHANGED <<users, tweets, clk>>
  BY DEF PutFollow, DeleteFollow
<1>4. Known' = Known /\ Log' = Log
  BY <1>3 DEF Known, Log, AsDesign, HasUser
<1>5. CASE PutFollow(c)
  <2>1. a # b
    BY <1>5 DEF PutFollow, At, IndInv, ServingInv, TypeOK, RunsItsRoute
  <2>2. follows' = follows \cup {<<a, b>>}
    BY <1>2, <1>5 DEF PutFollow, Known
  <2>3. Design!Follow(a, b)
    BY <1>2, <1>3, <1>4, <2>1, <2>2 DEF Design!Follow, Known, Log, AsDesign
  <2> QED BY <1>1, <2>3
<1>6. CASE DeleteFollow(c)
  <2>1. follows' = follows \ {<<a, b>>}
    BY <1>6 DEF DeleteFollow
  <2>2. Design!Unfollow(a, b)
    BY <1>2, <1>3, <1>4, <2>1 DEF Design!Unfollow, Known, Log, AsDesign
  <2> QED BY <1>1, <2>2
<1> QED BY <1>5, <1>6

LEMMA PutTweetRefines ==
    ASSUME IndInv, NEW c \in Clients, PutTweet(c)
    PROVE  \E u \in Handles : Design!PostTweetLate(u)
<1> DEFINE t == NewTweet(c)
           n == Len(tweets) + 1
           u == req[c].author
<1>1. TypeOK /\ pc[c] = "post.put" /\ u \in Handles
  BY DEF PutTweet, At, IndInv, ServingInv, TypeOK, RunsItsRoute, PostLabels
<1>2. u \in Known
  BY <1>1 DEF IndInv, ServingInv, ChecksStillHold, LogLabels, Known
<1>3. t \in Tweet /\ t.author = u /\ t.createdAt = tmp[c].createdAt
  BY <1>1 DEF TypeOK, RunsItsRoute, NewTweet, Tweet, PostLabels
<1>4. t.id = n /\ n \in Nat
  <2>1. tmp[c].id = n
    BY <1>1 DEF IndInv, ServingInv, IdIsReserved, LogLabels
  <2> QED BY <1>1, <2>1, LogEntries DEF NewTweet
<1>5. tweets' = Append(tweets, t) /\ UNCHANGED <<users, follows, clk>>
  BY PutTweetAccepts DEF PutTweet, IndInv
<1>6. /\ tmp[c].createdAt <= clk /\ clk \in Nat /\ tmp[c].createdAt \in Nat
      /\ \A i \in DOMAIN tweets : tweets[i].createdAt <= tmp[c].createdAt
  BY <1>1 DEF IndInv, ServingInv, StampIsFresh, TypeOK
<1> HIDE DEF t
<1>7. /\ Len(tweets') = n /\ DOMAIN tweets' = 1..n
      /\ tweets'[n] = t
      /\ \A i \in DOMAIN tweets : tweets'[i] = tweets[i]
      /\ DOMAIN tweets = 1..Len(tweets) /\ Len(tweets) \in Nat
  BY <1>1, <1>3, <1>5, AppendEntries, LogEntries
<1>8. Log' = Append(Log, AsDesign(t))
  <2>1. Log' = [i \in 1..n |-> AsDesign(tweets'[i])]
    BY <1>7 DEF Log
  <2>2. Log = [i \in 1..Len(tweets) |-> AsDesign(tweets[i])]
    BY <1>7 DEF Log
  <2>3. Append(Log, AsDesign(t))
          = [i \in 1..n |-> IF i = n THEN AsDesign(t) ELSE AsDesign(tweets[i])]
    BY <1>7, <2>2
  <2> QED BY <1>7, <2>1, <2>3
<1>9. AsDesign(t) = [id |-> Len(tweets), author |-> u, ts |-> tmp[c].createdAt]
  BY <1>3, <1>4, <1>7 DEF AsDesign
<1>10. Known' = Known /\ Len(tweets') = Len(tweets) + 1
  BY <1>5, <1>7 DEF Known, HasUser
<1>11. tmp[c].createdAt \in Design!LatestStamp..clk
  <2>1. CASE tweets = << >>
    <3>1. Log = << >>
      BY <2>1 DEF Log
    <3>2. Design!LatestStamp = 0
      BY <3>1 DEF Design!LatestStamp, Log, AsDesign
    <3> QED BY <1>6, <3>2
  <2>2. CASE tweets # << >>
    <3>1. Len(tweets) \in DOMAIN tweets
      BY <1>1, <1>7, <2>2 DEF TypeOK
    <3>2. Log # << >> /\ Len(Log) = Len(tweets) /\ Log[Len(tweets)].ts = tweets[Len(tweets)].createdAt
      BY <1>7, <3>1 DEF Log, AsDesign
    <3>3. Design!LatestStamp = tweets[Len(tweets)].createdAt
      BY <3>2 DEF Design!LatestStamp, Log, AsDesign
    <3>4. tweets[Len(tweets)].createdAt \in Nat
      BY <1>1, <3>1, LogEntries
    <3> QED BY <1>6, <3>1, <3>3, <3>4
  <2> QED BY <2>1, <2>2
<1>12. PICK ts : ts = tmp[c].createdAt /\ ts \in Design!LatestStamp..clk
  BY <1>11
<1>13. Design!PostTweetLate(u)
  <2>1. Design!PostStamped(u, ts)
    BY <1>2, <1>5, <1>8, <1>9, <1>10, <1>12 DEF Design!PostStamped, Known, Log, AsDesign
  <2> QED BY <1>12, <2>1 DEF Design!PostTweetLate
<1> QED BY <1>1, <1>13

LEMMA NextRefines == IndInv /\ [Next]_vars => [Design!LooseNext]_(Design!vars)
<1> SUFFICES ASSUME IndInv, [Next]_vars PROVE [Design!LooseNext]_(Design!vars)
  OBVIOUS
<1>1. CASE UNCHANGED vars
  BY <1>1, StutterRefines DEF vars, store
<1>2. CASE Next
  <2> PICK c \in Clients : Handler(c) \/ \E r \in Requests : Call(c, r)
    BY <1>2 DEF Next
  <2> QED BY ControlRefines, TickRefines, PutUserRefines, EdgeRefines, PutTweetRefines
          DEF Handler, Design!LooseNext, Design!Accounts
<1> QED BY <1>1, <1>2

(* Whatever the clients do, the Go corner's store and clock move as the    *)
(* design model (spec/tla/twitter.tla) allows, a post's stamp being one    *)
(* between its predecessor's and the clock's.                              *)
THEOREM GoImplementsDesign == Spec => ImplementsDesign
BY InitRefines, IndInvHolds, NextRefines, PTL
   DEF Spec, ImplementsDesign, Design!LooseSpec

-----------------------------------------------------------------------------
(* The invariant behind Linearizable *)

\* What a step of client c leaves alone in the tables of the clients.
LEMMA OneMoves ==
    ASSUME TypeOK, NEW c \in Clients, Handler(c) \/ \E r \in Requests : Call(c, r)
    PROVE  OthersKeep(c)
<1>1. pc' = pc \/ \E a : pc' = [pc EXCEPT ![c] = a]
  BY DEF Handler, Call, Reply, AcquireWmu, ReleaseWmu, CreateHasUser, CreateNextID, PutUser,
         PostHasUser, PostNextID, PostReadClock, PutTweet, EdgeHasFrom, EdgeHasTo, PutFollow,
         DeleteFollow, Tick, TickReadClock, TimelineHasUser, ReadPage, Goto, Answer
<1>2. resp' = resp \/ \E a : resp' = [resp EXCEPT ![c] = a]
  BY DEF Handler, Call, Reply, AcquireWmu, ReleaseWmu, CreateHasUser, CreateNextID, PutUser,
         PostHasUser, PostNextID, PostReadClock, PutTweet, EdgeHasFrom, EdgeHasTo, PutFollow,
         DeleteFollow, Tick, TickReadClock, TimelineHasUser, ReadPage, Goto, Answer
<1>3. req' = req \/ \E a : req' = [req EXCEPT ![c] = a]
  BY DEF Handler, Call, Reply, AcquireWmu, ReleaseWmu, CreateHasUser, CreateNextID, PutUser,
         PostHasUser, PostNextID, PostReadClock, PutTweet, EdgeHasFrom, EdgeHasTo, PutFollow,
         DeleteFollow, Tick, TickReadClock, TimelineHasUser, ReadPage
<1>4. tmp' = tmp \/ \E a : tmp' = [tmp EXCEPT ![c] = a]
  BY DEF Handler, Call, Reply, AcquireWmu, ReleaseWmu, CreateHasUser, CreateNextID, PutUser,
         PostHasUser, PostNextID, PostReadClock, PutTweet, EdgeHasFrom, EdgeHasTo, PutFollow,
         DeleteFollow, Tick, TickReadClock, TimelineHasUser, ReadPage
<1> QED BY <1>1, <1>2, <1>3, <1>4 DEF OthersKeep, TypeOK

DueTo(c) == HandleIsFree(c) /\ PageIsReadable(c) /\ NotAnswered(c)

\* What the other clients were promised survives a step of c.
LEMMA OthersStayDue ==
    ASSUME IndInv, AnswersAreDue, NEW c \in Clients, OthersKeep(c), UsersGrow,
           UNCHANGED users \/ pc[c] \in CriticalLabels,
           NEW d \in Clients, d # c
    PROVE  DueTo(d)'
<1>1. pc'[d] = pc[d] /\ req'[d] = req[d] /\ resp'[d] = resp[d]
  BY DEF OthersKeep
<1>2. HandleIsFree(d)'
  <2>1. CASE UNCHANGED users
    BY <1>1, <2>1 DEF AnswersAreDue, HandleIsFree, HasUser
  <2>2. CASE pc[c] \in CriticalLabels
    <3>1. pc[d] \notin CriticalLabels
      BY <2>2, HolderIsAlone DEF Alone, IndInv
    <3> QED BY <1>1, <3>1 DEF HandleIsFree, CriticalLabels
  <2> QED BY <2>1, <2>2
<1>3. PageIsReadable(d)'
  <2>1. pc[d] = "timeline.page" => req[d].user \in Handles
    BY DEF IndInv, ServingInv, TypeOK, RunsItsRoute, TimelineLabels
  <2> QED BY <1>1, <2>1 DEF AnswersAreDue, PageIsReadable, UsersGrow, HasUser, PageLimit
<1> QED BY <1>1, <1>2, <1>3 DEF AnswersAreDue, NotAnswered, DueTo

\* A step that draws no user id and stores no user.
LEMMA SameUserIds ==
    ASSUME IndInv, AnswersAreDue, NEW c \in Clients, OthersKeep(c), UNCHANGED <<users, idsUsr>>,
           pc[c] # "create.put", pc'[c] # "create.put"
    PROVE  UserIdsAreDense'
<1>1. NumRegistered' = NumRegistered /\ {h \in Handles : HasUser(h)}' = {h \in Handles : HasUser(h)}
  BY DEF NumRegistered, HasUser
<1>2. \A d \in Clients : /\ pc'[d] = "create.put" <=> pc[d] = "create.put"
                         /\ pc[d] = "create.put" => tmp'[d] = tmp[d]
  BY DEF OthersKeep
<1> QED BY <1>1, <1>2 DEF AnswersAreDue, UserIdsAreDense

LEMMA DueStep ==
    ASSUME IndInv, AnswersAreDue, NEW c \in Clients, OthersKeep(c), UsersGrow,
           UNCHANGED users \/ pc[c] \in CriticalLabels,
           UserIdsAreDense', DueTo(c)'
    PROVE  AnswersAreDue'
<1>1. \A d \in Clients : DueTo(d)'
  BY OthersStayDue
<1> QED BY <1>1 DEF AnswersAreDue, DueTo

\* A step of c that touches no user, with what c itself is due.
LEMMA QuietDue ==
    ASSUME IndInv, AnswersAreDue, NEW c \in Clients, OthersKeep(c), UNCHANGED <<users, idsUsr>>,
           pc[c] # "create.put", pc'[c] # "create.put", DueTo(c)'
    PROVE  AnswersAreDue'
<1>1. UsersGrow
  BY DEF UsersGrow, HasUser
<1> QED BY <1>1, SameUserIds, DueStep

LEMMA NumRegisteredType ==
    ASSUME IsFiniteSet({h \in Handles : HasUser(h)})
    PROVE  NumRegistered \in Nat
BY FS_CardinalityType DEF NumRegistered

LEMMA DrawUserIdDue ==
    ASSUME IndInv, AnswersAreDue, NEW c \in Clients, OthersKeep(c), CreateNextID(c)
    PROVE  AnswersAreDue'
<1>1. pc[c] = "create.next" /\ pc'[c] = "create.put" /\ users' = users
      /\ idsUsr' = idsUsr + 1 /\ tmp'[c].id = idsUsr /\ UNCHANGED <<req, resp>>
  BY DEF CreateNextID, At, Goto, store, IndInv, ServingInv, TypeOK
<1>2. Alone(c)
  BY <1>1, HolderIsAlone DEF CriticalLabels, IndInv
<1>3. idsUsr = NumRegistered + 1 /\ NumRegistered \in Nat
  BY <1>1, <1>2, NumRegisteredType DEF AnswersAreDue, UserIdsAreDense, Alone, CriticalLabels
<1>4. NumRegistered' = NumRegistered /\ {h \in Handles : HasUser(h)}' = {h \in Handles : HasUser(h)}
  BY <1>1 DEF NumRegistered, HasUser
<1>5. \A d \in Clients : pc'[d] = "create.put" => d = c
  BY <1>2 DEF OthersKeep, Alone, CriticalLabels
<1>6. UserIdsAreDense'
  <2>1. \A n \in Nat : (n + 1) + 1 = n + 2
    OBVIOUS
  <2>2. idsUsr' = NumRegistered + 2 /\ tmp'[c].id = NumRegistered + 1
    BY <1>1, <1>3, <2>1
  <2>3. IsFiniteSet({h \in Handles : HasUser(h)}')
    BY <1>4 DEF AnswersAreDue, UserIdsAreDense
  <2> QED BY <1>1, <1>4, <1>5, <2>2, <2>3 DEF UserIdsAreDense
<1>7. DueTo(c)'
  BY <1>1 DEF DueTo, AnswersAreDue, HandleIsFree, PageIsReadable, NotAnswered, HasUser
<1>8. UsersGrow
  BY <1>1 DEF UsersGrow, HasUser
<1> QED BY <1>1, <1>6, <1>7, <1>8, DueStep

\* The record PutUser stores: one more user, under the next id.
LEMMA StoresUser ==
    ASSUME IndInv, AnswersAreDue, NEW c \in Clients, PutUser(c)
    PROVE  /\ req[c].handle \in Handles /\ ~HasUser(req[c].handle)
           /\ tmp[c].id = NumRegistered + 1 /\ idsUsr = NumRegistered + 2
           /\ users' = [users EXCEPT ![req[c].handle] = tmp[c].id]
           /\ Answer(c, UserBody(req[c].handle, tmp[c].id), "unlock")
           /\ NumRegistered \in Nat /\ NumRegistered' = NumRegistered + 1
           /\ IsFiniteSet({h \in Handles : HasUser(h)})'
<1> DEFINE h == req[c].handle
<1>1. pc[c] = "create.put"
  BY DEF PutUser, At
<1>2. h \in Handles /\ users \in [Handles -> Nat]
  BY <1>1 DEF IndInv, ServingInv, TypeOK, RunsItsRoute, CreateLabels
<1>3. ~HasUser(h)
  BY <1>1 DEF AnswersAreDue, HandleIsFree
<1>4. /\ tmp[c].id = NumRegistered + 1 /\ idsUsr = NumRegistered + 2
      /\ IsFiniteSet(Known) /\ NumRegistered \in Nat
  BY <1>1, NumRegisteredType DEF AnswersAreDue, UserIdsAreDense, Known
<1>5. /\ users' = [users EXCEPT ![h] = tmp[c].id]
      /\ Answer(c, UserBody(h, tmp[c].id), "unlock")
  BY <1>3 DEF PutUser
<1>6. tmp[c].id # 0
  BY <1>4
<1>7. Known' = Known \cup {h} /\ h \notin Known
  BY <1>2, <1>3, <1>5, <1>6 DEF Known, HasUser
<1>8. IsFiniteSet(Known') /\ Cardinality(Known') = Cardinality(Known) + 1
  BY <1>4, <1>7, FS_AddElement
<1> QED BY <1>2, <1>3, <1>4, <1>5, <1>8 DEF Known, NumRegistered

LEMMA PutUserDue ==
    ASSUME IndInv, AnswersAreDue, NEW c \in Clients, OthersKeep(c), PutUser(c)
    PROVE  AnswersAreDue'
<1>1. pc[c] = "create.put" /\ pc'[c] = "unlock" /\ idsUsr' = idsUsr
  BY StoresUser DEF PutUser, At, Answer, IndInv, ServingInv, TypeOK
<1>2. Alone(c)
  BY <1>1, HolderIsAlone DEF CriticalLabels, IndInv
<1>3. \A d \in Clients : pc'[d] # "create.put"
  BY <1>1, <1>2 DEF OthersKeep, Alone, CriticalLabels
<1>4. idsUsr' = NumRegistered' + 1
  <2>1. idsUsr' = NumRegistered + 2 /\ NumRegistered' = NumRegistered + 1 /\ NumRegistered \in Nat
    BY <1>1, StoresUser
  <2>2. \A n \in Nat : n + 2 = (n + 1) + 1
    OBVIOUS
  <2> QED BY <2>1, <2>2
<1>5. UserIdsAreDense'
  BY <1>3, <1>4, StoresUser DEF UserIdsAreDense
<1>6. UsersGrow
  BY StoresUser DEF UsersGrow, HasUser, IndInv, ServingInv, TypeOK
<1>7. DueTo(c)'
  BY <1>1 DEF DueTo, HandleIsFree, PageIsReadable, NotAnswered
<1> QED BY <1>1, <1>5, <1>6, <1>7, DueStep DEF CriticalLabels

\* The other calls draw no user id and store no user.
LEMMA GotoDue ==
    ASSUME IndInv, AnswersAreDue, NEW c \in Clients, NEW l, OthersKeep(c), Goto(c, l),
           UNCHANGED <<users, idsUsr>>, pc[c] \notin {"create.put", "reply", "unlock"},
           l \notin {"create.next", "create.put", "timeline.page"}
    PROVE  AnswersAreDue'
<1>1. pc'[c] = l /\ resp'[c] = resp[c]
  BY DEF Goto, IndInv, ServingInv, TypeOK
<1>2. DueTo(c)'
  BY <1>1 DEF DueTo, HandleIsFree, PageIsReadable, NotAnswered, AnswersAreDue
<1> QED BY <1>1, <1>2, QuietDue

LEMMA AnswerDue ==
    ASSUME IndInv, AnswersAreDue, NEW c \in Clients, NEW l \in {"unlock", "reply"}, NEW a,
           OthersKeep(c), Answer(c, a, l), UNCHANGED <<users, idsUsr>>, pc[c] # "create.put"
    PROVE  AnswersAreDue'
<1>1. pc'[c] = l
  BY DEF Answer, IndInv, ServingInv, TypeOK
<1>2. DueTo(c)'
  BY <1>1 DEF DueTo, HandleIsFree, PageIsReadable, NotAnswered
<1> QED BY <1>1, <1>2, QuietDue

LEMMA CallDue ==
    ASSUME IndInv, AnswersAreDue, NEW c \in Clients, OthersKeep(c),
           NEW r \in Requests, Call(c, r)
    PROVE  AnswersAreDue'
<1>1. pc[c] = "idle" /\ UNCHANGED <<users, idsUsr>>
  BY DEF Call, At, store
<1>2. CASE SyntaxError(r) = ""
  <2>1. r \in Request
    BY ServiceAssumption
  <2>2. FirstCall(r) \in {"create.lock", "post.lock", "edge.from", "tick.tick", "timeline.user"}
    BY <1>2, <2>1 DEF FirstCall, SyntaxError, Request, CreateRequest, EdgeRequest, PostRequest,
       TickRequest, TimelineRequest, OtherRequest
  <2> QED BY <1>1, <1>2, <2>2, GotoDue DEF Call
<1>3. CASE SyntaxError(r) # ""
  BY <1>1, <1>3, AnswerDue DEF Call
<1> QED BY <1>2, <1>3

LEMMA ReplyDue ==
    ASSUME IndInv, AnswersAreDue, NEW c \in Clients, OthersKeep(c), Reply(c)
    PROVE  AnswersAreDue'
<1>1. pc[c] = "reply" /\ pc'[c] = "idle" /\ resp'[c] = NoReply /\ UNCHANGED <<users, idsUsr>>
  BY DEF Reply, At, store, IndInv, ServingInv, TypeOK
<1>2. DueTo(c)'
  BY <1>1 DEF DueTo, HandleIsFree, PageIsReadable, NotAnswered
<1> QED BY <1>1, <1>2, QuietDue

LEMMA MutexDue ==
    ASSUME IndInv, AnswersAreDue, NEW c \in Clients, OthersKeep(c),
           AcquireWmu(c) \/ ReleaseWmu(c)
    PROVE  AnswersAreDue'
<1>1. CASE AcquireWmu(c)
  <2>1. UNCHANGED <<users, idsUsr>>
    BY <1>1 DEF AcquireWmu, store
  <2>2. CASE At(c, "create.lock") /\ Goto(c, "create.has")
    BY <2>1, <2>2, GotoDue DEF At
  <2>3. CASE At(c, "post.lock") /\ Goto(c, "post.has")
    BY <2>1, <2>3, GotoDue DEF At
  <2> QED BY <1>1, <2>2, <2>3 DEF AcquireWmu
<1>2. CASE ReleaseWmu(c)
  <2>1. pc[c] = "unlock" /\ pc'[c] = "reply" /\ UNCHANGED <<users, idsUsr>>
    BY <1>2 DEF ReleaseWmu, At, Goto, store, IndInv, ServingInv, TypeOK
  <2>2. DueTo(c)'
    BY <2>1 DEF DueTo, HandleIsFree, PageIsReadable, NotAnswered
  <2> QED BY <2>1, <2>2, QuietDue
<1> QED BY <1>1, <1>2

LEMMA LookupDue ==
    ASSUME IndInv, AnswersAreDue, NEW c \in Clients, OthersKeep(c),
           \/ CreateHasUser(c) \/ PostHasUser(c) \/ PostNextID(c) \/ PostReadClock(c)
           \/ PutTweet(c) \/ EdgeHasFrom(c) \/ EdgeHasTo(c) \/ PutFollow(c) \/ DeleteFollow(c)
           \/ Tick(c) \/ TickReadClock(c) \/ TimelineHasUser(c) \/ ReadPage(c)
    PROVE  AnswersAreDue'
<1>1. /\ UNCHANGED <<users, idsUsr>>
      /\ pc[c] \notin {"create.put", "create.next", "unlock", "reply"}
  BY DEF CreateHasUser, PostHasUser, PostNextID, PostReadClock, PutTweet, EdgeHasFrom,
         EdgeHasTo, PutFollow, DeleteFollow, Tick, TickReadClock, TimelineHasUser, ReadPage,
         At, store
<1>2. CASE \E a : Answer(c, a, "unlock") \/ Answer(c, a, "reply")
  BY <1>1, <1>2, AnswerDue
<1>3. CASE \E l \in {"post.next", "post.now", "post.put", "edge.to", "follow.put",
                     "unfollow.delete", "tick.now"} : Goto(c, l)
  BY <1>1, <1>3, GotoDue
<1>4. CASE CreateHasUser(c) /\ Goto(c, "create.next") /\ ~HasUser(req[c].handle)
  <2>1. pc'[c] = "create.next" /\ UNCHANGED <<users, req, resp>>
    BY <1>4 DEF CreateHasUser, Goto, store, IndInv, ServingInv, TypeOK
  <2>2. DueTo(c)'
    BY <1>1, <1>4, <2>1 DEF DueTo, HandleIsFree, PageIsReadable, NotAnswered, AnswersAreDue, HasUser
  <2> QED BY <1>1, <2>1, <2>2, QuietDue
<1>5. CASE /\ TimelineHasUser(c) /\ Goto(c, "timeline.page") /\ HasUser(req[c].user)
           /\ PageLimit(req[c]) \in 1..MaxLimit
           /\ ~(req[c].cursor # Absent /\ req[c].cursor < 1)
  <2>1. pc[c] = "timeline.user" /\ pc'[c] = "timeline.page" /\ UNCHANGED <<users, req, resp>>
    BY <1>5 DEF TimelineHasUser, At, Goto, store, IndInv, ServingInv, TypeOK
  <2>2. req[c].cursor \in Int \cup {Absent}
    <3>1. req[c] \in Request /\ req[c].op = "timeline"
      BY <2>1, ServiceAssumption
         DEF IndInv, ServingInv, TypeOK, RunsItsRoute, TimelineLabels, NoRequest
    <3> QED BY <3>1 DEF Request, CreateRequest, EdgeRequest, PostRequest, TickRequest,
                        TimelineRequest, OtherRequest
  <2>3. DueTo(c)'
    BY <1>1, <1>5, <2>1, <2>2 DEF DueTo, HandleIsFree, PageIsReadable, NotAnswered,
       AnswersAreDue, HasUser, PageLimit
  <2> QED BY <1>1, <2>1, <2>3, QuietDue
<1> QED BY <1>2, <1>3, <1>4, <1>5
    DEF CreateHasUser, PostHasUser, PostNextID, PostReadClock, PutTweet, EdgeHasFrom,
        EdgeHasTo, PutFollow, DeleteFollow, Tick, TickReadClock, TimelineHasUser, ReadPage

LEMMA InitDue == Init => AnswersAreDue
<1> SUFFICES ASSUME Init PROVE AnswersAreDue
  OBVIOUS
<1>1. {h \in Handles : HasUser(h)} = {}
  BY DEF Init, HasUser
<1>2. IsFiniteSet({}) /\ Cardinality({}) = 0
  BY FS_EmptySet
<1>3. NumRegistered = 0
  BY <1>1, <1>2 DEF NumRegistered
<1>4. UserIdsAreDense
  <2>1. idsUsr = NumRegistered + 1
    BY <1>3 DEF Init
  <2>2. \A c \in Clients : pc[c] = "idle"
    BY DEF Init
  <2> QED BY <1>1, <1>2, <2>1, <2>2 DEF UserIdsAreDense
<1> QED BY <1>4 DEF Init, AnswersAreDue, HandleIsFree, PageIsReadable, NotAnswered

LEMMA NextDue == IndInv /\ AnswersAreDue /\ [Next]_vars => AnswersAreDue'
<1> SUFFICES ASSUME IndInv, AnswersAreDue, [Next]_vars PROVE AnswersAreDue'
  OBVIOUS
<1>1. CASE UNCHANGED vars
  BY <1>1 DEF vars, AnswersAreDue, UserIdsAreDense, HandleIsFree, PageIsReadable, NotAnswered,
              NumRegistered, HasUser, PageLimit
<1>2. CASE Next
  <2>1. PICK c \in Clients : Handler(c) \/ \E r \in Requests : Call(c, r)
    BY <1>2 DEF Next
  <2>2. OthersKeep(c)
    BY <2>1, OneMoves DEF IndInv, ServingInv
  <2> QED BY <2>1, <2>2, CallDue, ReplyDue, MutexDue, DrawUserIdDue, PutUserDue, LookupDue
          DEF Handler
<1> QED BY <1>1, <1>2

(* No user id is skipped, whatever registrations race, and a handler's     *)
(* earlier checks still decide its answer (service.go:155-171, finding     *)
(* F018; shim.go:375-399).                                                 *)
THEOREM AnswersStayDue == Spec => []AnswersAreDue
BY InitDue, NextDue, IndInvHolds, PTL DEF Spec

-----------------------------------------------------------------------------
(* Every answer is one of S_obs, on the store as it is decided *)

LEMMA OracleByRoute ==
    ASSUME NEW s, NEW r
    PROVE  /\ r.op = "create" => Oracle!Step(s, r) = Oracle!StepCreateUser(s, r)
           /\ r.op = "follow" => Oracle!Step(s, r) = Oracle!StepFollow(s, r)
           /\ r.op = "unfollow" => Oracle!Step(s, r) = Oracle!StepUnfollow(s, r)
           /\ r.op = "post" => Oracle!Step(s, r) = Oracle!StepPostTweet(s, r)
           /\ r.op = "timeline" => Oracle!Step(s, r) = Oracle!StepTimeline(s, r)
           /\ r.op = "malformed" => Oracle!Step(s, r) = Oracle!Reject(s, "malformed_request")
           /\ r.op = "unrouted" => Oracle!Step(s, r) = << ErrorBody(404, "not_found"), s >>
BY DEF Oracle!Step, Oracle!ErrorBody, ErrorBody

\* A post whose author or text is out of bounds is refused for that reason.
LEMMA OracleRefusesPost ==
    ASSUME NEW s, NEW r, r.op = "post"
    PROVE  /\ r.author \notin Handles
                => Oracle!Step(s, r) = Oracle!Reject(s, "invalid_handle")
           /\ r.author \in Handles /\ r.text \notin Texts
                => Oracle!Step(s, r) = Oracle!Reject(s, "invalid_text")
<1>1. Oracle!Step(s, r) = Oracle!StepPostTweet(s, r)
  BY OracleByRoute
<1> QED BY <1>1 DEF Oracle!StepPostTweet, Oracle!ValidHandle, Oracle!ValidText

LEMMA OracleReject ==
    ASSUME NEW s
    PROVE  /\ \A code \in {"malformed_request", "invalid_handle", "invalid_text"} :
                 Oracle!Reject(s, code) = << ErrorBody(400, code), s >>
           /\ \A code \in {"handle_taken", "unknown_user", "self_follow_forbidden",
                           "invalid_limit", "invalid_cursor"} :
                 Oracle!Reject(s, code) = << WireError(code), s >>
BY DEF Oracle!Reject, Oracle!ErrorBody, ErrorBody, WireError

LEMMA StateFields ==
    /\ SObsState.users = users /\ SObsState.follows = follows
    /\ SObsState.tweets = tweets /\ SObsState.clock = clk
    /\ SObsState.nextUserID = NumRegistered + 1
    /\ SObsState.nextTweetID = Len(tweets) + 1
    /\ \A h : Oracle!Registered(SObsState, h) <=> HasUser(h)
    /\ [SObsState EXCEPT !.clock = clk] = SObsState
BY DEF SObsState, Oracle!Registered, HasUser

\* A state of S_obs from its fields, in one place.
Fields(u, f, l, k, n, m) == [users |-> u, follows |-> f, tweets |-> l, clock |-> k,
                             nextUserID |-> n, nextTweetID |-> m]

LEMMA StateIsFields ==
    SObsState = Fields(users, follows, tweets, clk, NumRegistered + 1, Len(tweets) + 1)
BY DEF SObsState, Fields

\* The shape of every proof below: what S_obs answers, and the state it leaves.
LEMMA AnswersBy ==
    ASSUME NEW c \in Clients, NEW next,
           Oracle!Step(SObsStateFor(c), Submitted(c)) = << resp'[c], next >>,
           SObsState' = [next EXCEPT !.clock = clk]
    PROVE  AnswersLikeSObs(c)
BY DEF AnswersLikeSObs

\* An answer that leaves the store and the clock as they are.
LEMMA StoringNothing ==
    ASSUME NEW c \in Clients, pc[c] # "post.put", UNCHANGED <<store, clk>>,
           Oracle!Step(SObsState, Submitted(c)) = << resp'[c], SObsState >>
    PROVE  AnswersLikeSObs(c)
<1>1. SObsStateFor(c) = SObsState
  BY DEF SObsStateFor, At
<1>2. SObsState' = SObsState
  BY DEF SObsState, store, NumRegistered, HasUser
<1> QED BY <1>1, <1>2, StateFields DEF AnswersLikeSObs

LEMMA CallAnswers ==
    ASSUME IndInv, NEW c \in Clients, NEW r \in Requests, Call(c, r), Decides(c)
    PROVE  AnswersLikeSObs(c)
<1>1. Submitted(c) = r /\ pc[c] = "idle" /\ UNCHANGED <<store, clk>>
  BY DEF Call, Submitted, At, IndInv, ServingInv, TypeOK
<1>2. SyntaxError(r) # ""
  BY DEF Call, Decides, Goto
<1>3. resp'[c] = ErrorBody(IF r.op = "unrouted" THEN 404 ELSE 400, SyntaxError(r))
  BY <1>2 DEF Call, Answer, IndInv, ServingInv, TypeOK
<1>4. r \in Request
  BY ServiceAssumption
<1>5. \/ r.op = "unrouted" /\ SyntaxError(r) = "not_found"
      \/ r.op = "malformed" /\ SyntaxError(r) = "malformed_request"
      \/ r.op = "create" /\ r.handle \notin Handles /\ SyntaxError(r) = "invalid_handle"
      \/ /\ r.op \in {"follow", "unfollow"} /\ ~({r.from, r.to} \subseteq Handles)
         /\ SyntaxError(r) = "invalid_handle"
      \/ r.op = "post" /\ r.author \notin Handles /\ SyntaxError(r) = "invalid_handle"
      \/ /\ r.op = "post" /\ r.author \in Handles /\ r.text \notin Texts
         /\ SyntaxError(r) = "invalid_text"
      \/ r.op = "timeline" /\ r.user \notin Handles /\ SyntaxError(r) = "invalid_handle"
  BY <1>2, <1>4 DEF SyntaxError, Request, CreateRequest, EdgeRequest, PostRequest,
     TickRequest, TimelineRequest, OtherRequest
<1>6. Oracle!Step(SObsState, r)
        = << ErrorBody(IF r.op = "unrouted" THEN 404 ELSE 400, SyntaxError(r)), SObsState >>
  <2>1. CASE r.op = "unrouted"
    BY <1>5, <2>1, OracleByRoute
  <2>2. CASE r.op # "unrouted"
    <3>1. Oracle!Step(SObsState, r) = Oracle!Reject(SObsState, SyntaxError(r))
      <4> DEFINE s == SObsState
                 code == SyntaxError(r)
      <4> HIDE DEF s
      <4>1. CASE r.op = "malformed"
        BY <1>5, <4>1, OracleByRoute
      <4>2. CASE r.op = "create"
        BY <1>5, <4>2, OracleByRoute DEF Oracle!StepCreateUser, Oracle!ValidHandle
      <4>3. CASE r.op = "follow"
        BY <1>5, <4>3, OracleByRoute DEF Oracle!StepFollow, Oracle!ValidHandle
      <4>4. CASE r.op = "unfollow"
        BY <1>5, <4>4, OracleByRoute DEF Oracle!StepUnfollow, Oracle!ValidHandle
      <4>5. CASE r.op = "post"
        BY <1>5, <4>5, OracleRefusesPost
      <4>6. CASE r.op = "timeline"
        BY <1>5, <4>6, OracleByRoute DEF Oracle!StepTimeline, Oracle!ValidHandle
      <4> QED BY <1>5, <2>2, <4>1, <4>2, <4>3, <4>4, <4>5, <4>6
    <3>2. SyntaxError(r) \in {"malformed_request", "invalid_handle", "invalid_text"}
      BY <1>5, <2>2
    <3> QED BY <2>2, <3>1, <3>2, OracleReject
  <2> QED BY <2>1, <2>2
<1> QED BY <1>1, <1>3, <1>6, StoringNothing

\* Past its submission a handler answers the request it holds.
LEMMA RunsOn ==
    ASSUME NEW c \in Clients, pc[c] # "idle"
    PROVE  Submitted(c) = req[c]
BY DEF Submitted, At

LEMMA CreateAnswers ==
    ASSUME IndInv, AnswersAreDue, NEW c \in Clients, CreateHasUser(c), Decides(c)
    PROVE  AnswersLikeSObs(c)
<1>1. pc[c] = "create.has" /\ UNCHANGED <<store, clk>>
  BY DEF CreateHasUser, At
<1>2. HasUser(req[c].handle) /\ resp'[c] = WireError("handle_taken")
  BY DEF CreateHasUser, Decides, Goto, Answer, IndInv, ServingInv, TypeOK
<1>3. req[c].op = "create" /\ req[c].handle \in Handles
  BY <1>1 DEF IndInv, ServingInv, TypeOK, RunsItsRoute, CreateLabels
<1>4. Oracle!StepCreateUser(SObsState, req[c]) = << resp'[c], SObsState >>
  BY <1>2, <1>3, OracleReject, StateFields DEF Oracle!StepCreateUser, Oracle!ValidHandle
<1> QED BY <1>1, <1>3, <1>4, RunsOn, OracleByRoute, StoringNothing

LEMMA PutUserAnswers ==
    ASSUME IndInv, AnswersAreDue, NEW c \in Clients, PutUser(c)
    PROVE  AnswersLikeSObs(c)
<1> DEFINE h == req[c].handle
           id == NumRegistered + 1
           next == [users EXCEPT ![h] = id]
<1>1. pc[c] = "create.put" /\ UNCHANGED <<follows, tweets, clk>>
  BY DEF PutUser, At
<1>2. req[c].op = "create" /\ h \in Handles
  BY <1>1 DEF IndInv, ServingInv, TypeOK, RunsItsRoute, CreateLabels
<1>3. /\ ~HasUser(h) /\ users' = next /\ NumRegistered' = id
      /\ Answer(c, UserBody(h, id), "unlock")
  BY StoresUser
<1>4. resp'[c] = UserBody(h, id)
  BY <1>3 DEF Answer, IndInv, ServingInv, TypeOK
<1>5. SObsStateFor(c) = SObsState /\ Submitted(c) = req[c]
  BY <1>1, RunsOn DEF SObsStateFor, At
<1>6. Oracle!StepCreateUser(SObsState, req[c])
        = << UserBody(h, id), [SObsState EXCEPT !.users = next, !.nextUserID = id + 1] >>
  BY <1>2, <1>3, StateFields
     DEF Oracle!StepCreateUser, Oracle!ValidHandle, Oracle!UserBody, UserBody
<1> DEFINE after == Fields(next, follows, tweets, clk, id + 1, Len(tweets) + 1)
<1>7. [SObsState EXCEPT !.users = next, !.nextUserID = id + 1] = after
  <2> DEFINE m == [SObsState EXCEPT !.users = next]
  <2>1. [SObsState EXCEPT !.users = next, !.nextUserID = id + 1] = [m EXCEPT !.nextUserID = id + 1]
    OBVIOUS
  <2> HIDE DEF next, id
  <2>2. m = Fields(next, follows, tweets, clk, NumRegistered + 1, Len(tweets) + 1)
    BY StateIsFields DEF Fields
  <2> HIDE DEF m
  <2>3. [m EXCEPT !.nextUserID = id + 1] = after
    BY <2>2 DEF Fields
  <2> QED BY <2>1, <2>3
<1>8. SObsState' = after
  BY <1>1, <1>3, StateIsFields DEF SObsState, Fields
<1>9. [after EXCEPT !.clock = clk] = after
  BY DEF Fields
<1>10. Oracle!Step(SObsState, req[c]) = << resp'[c], after >>
  BY <1>2, <1>4, <1>6, <1>7, OracleByRoute
<1> HIDE DEF after
<1> QED BY <1>5, <1>8, <1>9, <1>10, AnswersBy

LEMMA PostAnswers ==
    ASSUME IndInv, NEW c \in Clients, PostHasUser(c), Decides(c)
    PROVE  AnswersLikeSObs(c)
<1>1. pc[c] = "post.has" /\ UNCHANGED <<store, clk>>
  BY DEF PostHasUser, At
<1>2. ~HasUser(req[c].author) /\ resp'[c] = WireError("unknown_user")
  BY DEF PostHasUser, Decides, Goto, Answer, IndInv, ServingInv, TypeOK
<1>3. req[c].op = "post" /\ req[c].author \in Handles /\ req[c].text \in Texts
  BY <1>1 DEF IndInv, ServingInv, TypeOK, RunsItsRoute, PostLabels
<1>4. Oracle!StepPostTweet(SObsState, req[c]) = << resp'[c], SObsState >>
  BY <1>2, <1>3, OracleReject, StateFields
     DEF Oracle!StepPostTweet, Oracle!ValidHandle, Oracle!ValidText
<1> QED BY <1>1, <1>3, <1>4, RunsOn, OracleByRoute, StoringNothing

\* The post is S_obs's on the clock it was stamped with.
LEMMA PutTweetAnswers ==
    ASSUME IndInv, NEW c \in Clients, PutTweet(c)
    PROVE  AnswersLikeSObs(c)
<1> DEFINE r == req[c]
           n == Len(tweets) + 1
           stamp == tmp[c].createdAt
           s == SObsStateFor(c)
           t == NewTweet(c)
           log == Append(tweets, t)
<1>1. pc[c] = "post.put" /\ UNCHANGED <<users, follows, clk>>
  BY DEF PutTweet, At
<1>2. r.op = "post" /\ r.author \in Handles /\ r.text \in Texts
  BY <1>1 DEF IndInv, ServingInv, TypeOK, RunsItsRoute, PostLabels
<1>3. HasUser(r.author) /\ tmp[c].id = n
  BY <1>1 DEF IndInv, ServingInv, ChecksStillHold, IdIsReserved, LogLabels
<1>4. tweets' = log /\ resp'[c] = TweetBody(t)
  BY PutTweetAccepts DEF PutTweet, Answer, IndInv, ServingInv, TypeOK
<1>5. s = [SObsState EXCEPT !.clock = stamp] /\ Submitted(c) = r
  BY <1>1, RunsOn DEF SObsStateFor, At
<1>6. /\ s.users = users /\ s.tweets = tweets /\ s.clock = stamp /\ s.nextTweetID = n
  BY <1>5 DEF SObsState
<1>7. t = [id |-> n, author |-> r.author, text |-> r.text, createdAt |-> stamp]
  BY <1>3 DEF NewTweet
<1> HIDE DEF s, t
<1>8. Oracle!StepPostTweet(s, r) = << TweetBody(t), [s EXCEPT !.tweets = log, !.nextTweetID = n + 1] >>
  <2>1. Oracle!Registered(s, r.author)
    BY <1>3, <1>6 DEF Oracle!Registered, HasUser
  <2> QED BY <1>2, <1>6, <1>7, <2>1
          DEF Oracle!StepPostTweet, Oracle!ValidHandle, Oracle!ValidText, Oracle!TweetBody, TweetBody
<1>9. Len(log) = n /\ n \in Nat
  <2>1. tweets \in Seq(Tweet)
    BY DEF IndInv, ServingInv, TypeOK
  <2> QED BY <2>1
<1> DEFINE next == Fields(users, follows, log, stamp, NumRegistered + 1, n + 1)
           after == Fields(users, follows, log, clk, NumRegistered + 1, n + 1)
<1>10. [s EXCEPT !.tweets = log, !.nextTweetID = n + 1] = next /\ [next EXCEPT !.clock = clk] = after
  <2> HIDE DEF log, stamp
  <2>1. s = Fields(users, follows, tweets, stamp, NumRegistered + 1, n)
    BY <1>5, StateIsFields DEF Fields
  <2> HIDE DEF n
  <2> DEFINE m == [s EXCEPT !.tweets = log]
  <2>2. [s EXCEPT !.tweets = log, !.nextTweetID = n + 1] = [m EXCEPT !.nextTweetID = n + 1]
    OBVIOUS
  <2>3. m = Fields(users, follows, log, stamp, NumRegistered + 1, n)
    BY <2>1 DEF Fields
  <2> HIDE DEF m
  <2>4. [m EXCEPT !.nextTweetID = n + 1] = next
    BY <2>3 DEF Fields
  <2>5. [next EXCEPT !.clock = clk] = after
    BY DEF Fields
  <2> QED BY <2>2, <2>4, <2>5
<1>11. SObsState' = after
  BY <1>1, <1>4, <1>9 DEF SObsState, Fields, NumRegistered, HasUser
<1> HIDE DEF log, n, next, after
<1>12. Oracle!Step(s, r) = << resp'[c], next >>
  BY <1>2, <1>4, <1>8, <1>10, OracleByRoute
<1> QED BY <1>5, <1>10, <1>11, <1>12, AnswersBy DEF s

LEMMA EdgeRequestOf ==
    ASSUME IndInv, NEW c \in Clients, pc[c] \in EdgeLabels
    PROVE  /\ req[c].op \in {"follow", "unfollow"} /\ pc[c] # "idle" /\ pc[c] # "post.put"
           /\ req[c].from \in Handles /\ req[c].to \in Handles
BY DEF IndInv, ServingInv, TypeOK, RunsItsRoute, EdgeLabels

LEMMA EdgeAnswers ==
    ASSUME IndInv, NEW c \in Clients, EdgeHasFrom(c) \/ EdgeHasTo(c), Decides(c)
    PROVE  AnswersLikeSObs(c)
<1> DEFINE r == req[c]
<1>1. pc[c] \in {"edge.from", "edge.to"} /\ UNCHANGED <<store, clk>>
  BY DEF EdgeHasFrom, EdgeHasTo, At
<1>2. /\ r.op \in {"follow", "unfollow"} /\ r.from \in Handles /\ r.to \in Handles
      /\ Submitted(c) = r
  BY <1>1, EdgeRequestOf, RunsOn DEF EdgeLabels
<1>3. \/ ~HasUser(r.from) /\ resp'[c] = WireError("unknown_user")
      \/ ~HasUser(r.to) /\ resp'[c] = WireError("unknown_user")
      \/ /\ HasUser(r.from) /\ HasUser(r.to) /\ r.op = "follow" /\ r.from = r.to
         /\ resp'[c] = WireError("self_follow_forbidden")
  <2>1. pc[c] = "edge.to" => HasUser(r.from)
    BY DEF IndInv, ServingInv, ChecksStillHold
  <2> QED BY <1>2, <2>1
          DEF EdgeHasFrom, EdgeHasTo, Decides, Goto, Answer, At, IndInv, ServingInv, TypeOK
<1>4. CASE r.op = "follow"
  <2>1. Oracle!StepFollow(SObsState, r) = << resp'[c], SObsState >>
    BY <1>2, <1>3, OracleReject, StateFields DEF Oracle!StepFollow, Oracle!ValidHandle
  <2> QED BY <1>1, <1>2, <1>4, <2>1, OracleByRoute, StoringNothing
<1>5. CASE r.op = "unfollow"
  <2>1. Oracle!StepUnfollow(SObsState, r) = << resp'[c], SObsState >>
    BY <1>2, <1>3, <1>5, OracleReject, StateFields DEF Oracle!StepUnfollow, Oracle!ValidHandle
  <2> QED BY <1>1, <1>2, <1>5, <2>1, OracleByRoute, StoringNothing
<1> QED BY <1>2, <1>4, <1>5

\* The store's own lookups find the users the service found.
LEMMA PutEdgeAnswers ==
    ASSUME IndInv, NEW c \in Clients, PutFollow(c) \/ DeleteFollow(c)
    PROVE  AnswersLikeSObs(c)
<1> DEFINE r == req[c]
           added == follows \cup {<<r.from, r.to>>}
           removed == follows \ {<<r.from, r.to>>}
<1>1. pc[c] \in {"follow.put", "unfollow.delete"} /\ UNCHANGED <<users, tweets, clk>>
  BY DEF PutFollow, DeleteFollow, At
<1>2. /\ r.op \in {"follow", "unfollow"} /\ r.from \in Handles /\ r.to \in Handles
      /\ Submitted(c) = r /\ SObsStateFor(c) = SObsState
  BY <1>1, EdgeRequestOf, RunsOn DEF EdgeLabels, SObsStateFor, At
<1>3. HasUser(r.from) /\ HasUser(r.to)
  BY <1>1 DEF IndInv, ServingInv, ChecksStillHold
<1>4. /\ pc[c] = "follow.put" => r.op = "follow" /\ r.from # r.to
      /\ pc[c] = "unfollow.delete" => r.op = "unfollow"
  BY DEF IndInv, ServingInv, TypeOK, RunsItsRoute
<1>5. ASSUME NEW edges, follows' = edges
      PROVE  SObsState' = [[SObsState EXCEPT !.follows = edges] EXCEPT !.clock = clk]
  <2>1. SObsState' = Fields(users, edges, tweets, clk, NumRegistered + 1, Len(tweets) + 1)
    BY <1>1, <1>5 DEF SObsState, Fields, NumRegistered, HasUser
  <2>2. [SObsState EXCEPT !.follows = edges]
          = Fields(users, edges, tweets, clk, NumRegistered + 1, Len(tweets) + 1)
    BY StateIsFields DEF Fields
  <2> QED BY <2>1, <2>2 DEF Fields
<1>6. CASE PutFollow(c)
  <2>1. follows' = added /\ resp'[c] = NoContent
    BY <1>3, <1>6 DEF PutFollow, Answer, IndInv, ServingInv, TypeOK
  <2>2. Oracle!StepFollow(SObsState, r) = << NoContent, [SObsState EXCEPT !.follows = added] >>
    BY <1>2, <1>3, <1>4, <1>6, StateFields
       DEF PutFollow, At, Oracle!StepFollow, Oracle!ValidHandle, Oracle!NoContent, NoContent
  <2>3. r.op = "follow"
    BY <1>4, <1>6 DEF PutFollow, At
  <2> HIDE DEF added
  <2> DEFINE next == [SObsState EXCEPT !.follows = added]
  <2>4. SObsState' = [next EXCEPT !.clock = clk]
    BY <1>5, <2>1
  <2>5. Oracle!Step(SObsState, r) = << resp'[c], next >>
    BY <2>1, <2>2, <2>3, OracleByRoute
  <2> HIDE DEF next
  <2> QED BY <1>2, <2>4, <2>5, AnswersBy
<1>7. CASE DeleteFollow(c)
  <2>1. follows' = removed /\ resp'[c] = NoContent
    BY <1>7 DEF DeleteFollow, Answer, IndInv, ServingInv, TypeOK
  <2>2. Oracle!StepUnfollow(SObsState, r) = << NoContent, [SObsState EXCEPT !.follows = removed] >>
    BY <1>2, <1>3, StateFields
       DEF Oracle!StepUnfollow, Oracle!ValidHandle, Oracle!NoContent, NoContent
  <2>3. r.op = "unfollow"
    BY <1>4, <1>7 DEF DeleteFollow, At
  <2> HIDE DEF removed
  <2> DEFINE next == [SObsState EXCEPT !.follows = removed]
  <2>4. SObsState' = [next EXCEPT !.clock = clk]
    BY <1>5, <2>1
  <2>5. Oracle!Step(SObsState, r) = << resp'[c], next >>
    BY <2>1, <2>2, <2>3, OracleByRoute
  <2> HIDE DEF next
  <2> QED BY <1>2, <2>4, <2>5, AnswersBy
<1> QED BY <1>6, <1>7

\* What S_obs pages for user u below the cursor.
Timeline(u, cursor) == Kept(Reverse(tweets), ShownTo(tweets, follows, u, cursor, Absent))

LEMMA VisibleIs ==
    ASSUME NEW u, NEW cursor
    PROVE  Oracle!VisibleBelow(SObsState, u, cursor) = Timeline(u, cursor)
<1> DEFINE s == SObsState
           newest == Reverse(tweets)
           shown == ShownTo(tweets, follows, u, cursor, Absent)
<1>1. s.tweets = tweets /\ s.follows = follows
  BY StateFields
<1> HIDE DEF s
<1>2. Oracle!VisibleBelow(s, u, cursor) = Oracle!Kept(newest, shown)
  BY <1>1 DEF Oracle!VisibleBelow, Oracle!Reverse, Reverse, ShownTo
<1>3. Oracle!Kept(newest, shown) = Kept(newest, shown)
  BY DEF Oracle!Kept, Kept
<1> QED BY <1>2, <1>3 DEF s, Timeline

LEMMA PageIsCut ==
    ASSUME IndInv, NEW u, NEW limit \in Nat, NEW cursor \in Int \cup {Absent},
           cursor = Absent \/ cursor >= 1
    PROVE  HomeTimeline(tweets, follows, u, limit, IF cursor = Absent THEN 0 ELSE cursor)
             = Cut(Timeline(u, cursor), limit)
<1>1. tweets \in Seq(Tweet)
  BY DEF IndInv, ServingInv, TypeOK
<1> DEFINE from == IF cursor = Absent THEN 0 ELSE cursor
           shown == ShownTo(tweets, follows, u, cursor, Absent)
<1>2. HomeTimeline(tweets, follows, u, limit, from) = Cut(Kept(Reverse(tweets), shown), limit)
  BY <1>1, HomeTimelineIsCut
<1> QED BY <1>2 DEF Timeline

LEMMA PageBodyIsCut ==
    ASSUME NEW kept \in Seq(Tweet), NEW limit \in Nat \ {0}
    PROVE  LET got == Cut(kept, limit)
           IN  Oracle!PageBody(kept, limit)
                 = TimelineBody(got.page, IF got.more /\ got.page # << >>
                                          THEN Last(got.page).id ELSE Absent)
<1> DEFINE got == Cut(kept, limit)
           page == SubSeq(kept, 1, IF Len(kept) < limit THEN Len(kept) ELSE limit)
<1>1. got.page = page /\ (got.more <=> Len(kept) > limit)
  <2>1. got.page = page
    BY DEF Cut
  <2>2. got.more <=> Len(kept) > limit
    BY DEF Cut
  <2> QED BY <2>1, <2>2
<1>2. got.more => got.page # << >>
  BY CutHasLast
<1>3. Oracle!PageBody(kept, limit)
        = TimelineBody(page, IF Len(kept) > limit THEN Last(page).id ELSE Absent)
  BY DEF Oracle!PageBody, Oracle!TimelineBody, Oracle!Last, TimelineBody, Last
<1> HIDE DEF got, page
<1> QED BY <1>1, <1>2, <1>3 DEF got

LEMMA TimelineAnswers ==
    ASSUME IndInv, NEW c \in Clients, TimelineHasUser(c), Decides(c)
    PROVE  AnswersLikeSObs(c)
<1> DEFINE r == req[c]
<1>1. pc[c] = "timeline.user" /\ UNCHANGED <<store, clk>>
  BY DEF TimelineHasUser, At
<1>2. r.op = "timeline" /\ r.user \in Handles
  BY <1>1 DEF IndInv, ServingInv, TypeOK, RunsItsRoute, TimelineLabels
<1>3. \/ ~HasUser(r.user) /\ resp'[c] = WireError("unknown_user")
      \/ /\ HasUser(r.user) /\ PageLimit(r) \notin 1..MaxLimit
         /\ resp'[c] = WireError("invalid_limit")
      \/ /\ HasUser(r.user) /\ PageLimit(r) \in 1..MaxLimit
         /\ r.cursor # Absent /\ r.cursor < 1 /\ resp'[c] = WireError("invalid_cursor")
  BY DEF TimelineHasUser, Decides, Goto, Answer, IndInv, ServingInv, TypeOK
<1>4. Oracle!StepTimeline(SObsState, r) = << resp'[c], SObsState >>
  BY <1>2, <1>3, OracleReject, StateFields
     DEF Oracle!StepTimeline, Oracle!ValidHandle, PageLimit
<1> QED BY <1>1, <1>2, <1>4, RunsOn, OracleByRoute, StoringNothing

LEMMA ReadPageAnswers ==
    ASSUME IndInv, AnswersAreDue, NEW c \in Clients, ReadPage(c)
    PROVE  AnswersLikeSObs(c)
<1> DEFINE r == req[c]
           limit == PageLimit(r)
           kept == Timeline(r.user, r.cursor)
           got == Cut(kept, limit)
           body == TimelineBody(got.page, IF got.more /\ got.page # << >>
                                          THEN Last(got.page).id ELSE Absent)
<1>1. pc[c] = "timeline.page" /\ UNCHANGED <<store, clk>>
  BY DEF ReadPage, At
<1>2. r.op = "timeline" /\ r.user \in Handles
  BY <1>1 DEF IndInv, ServingInv, TypeOK, RunsItsRoute, TimelineLabels
<1>0. r.cursor \in Int \cup {Absent}
  <2>1. req[c] \in Request
    BY <1>2, ServiceAssumption DEF IndInv, ServingInv, TypeOK, NoRequest
  <2> QED BY <1>2, <2>1 DEF Request, CreateRequest, EdgeRequest, PostRequest, TickRequest,
                            TimelineRequest, OtherRequest
<1>3. HasUser(r.user) /\ limit \in 1..MaxLimit /\ (r.cursor = Absent \/ r.cursor >= 1)
  BY <1>1 DEF AnswersAreDue, PageIsReadable
<1>4. limit \in Nat \ {0}
  BY <1>3, WireAssumption
<1>5. resp'[c] = body
  <2>1. HomeTimeline(tweets, follows, r.user, limit, IF r.cursor = Absent THEN 0 ELSE r.cursor) = got
    BY <1>0, <1>3, <1>4, PageIsCut
  <2> HIDE DEF got
  <2> QED BY <2>1 DEF ReadPage, Answer, IndInv, ServingInv, TypeOK
<1>6. kept \in Seq(Tweet)
  BY ReverseType, KeptIsSelection DEF Timeline, IndInv, ServingInv, TypeOK
<1>7. Oracle!PageBody(kept, limit) = body
  BY <1>4, <1>6, PageBodyIsCut
<1>8. Oracle!VisibleBelow(SObsState, r.user, r.cursor) = kept
  BY VisibleIs
<1> HIDE DEF body, kept
<1>9. ~(r.cursor # Absent /\ r.cursor < 1)
  BY <1>3, <1>0
<1>10. Oracle!StepTimeline(SObsState, r) = << body, SObsState >>
  BY <1>2, <1>3, <1>7, <1>8, <1>9, StateFields
     DEF Oracle!StepTimeline, Oracle!ValidHandle, PageLimit
<1> QED BY <1>1, <1>2, <1>5, <1>10, RunsOn, OracleByRoute, StoringNothing

-----------------------------------------------------------------------------
(* Linearizability *)

\* The store changes only when an answer is decided.
LEMMA StoreChanges ==
    ASSUME IndInv, AnswersAreDue, NEW c \in Clients,
           Handler(c) \/ \E r \in Requests : Call(c, r)
    PROVE  UNCHANGED store \/ Decides(c)
<1>1. CASE PutUser(c) \/ PutTweet(c) \/ PutFollow(c) \/ DeleteFollow(c)
  <2>1. resp[c] = NoReply
    BY <1>1 DEF PutUser, PutTweet, PutFollow, DeleteFollow, At, AnswersAreDue, NotAnswered
  <2>2. \E a : a.status # 0 /\ resp' = [resp EXCEPT ![c] = a]
    <3>1. \A code : WireError(code).status # 0
      BY WireErrorStatus
    <3>2. /\ \A h, id : UserBody(h, id).status # 0
          /\ \A t : TweetBody(t).status # 0
          /\ NoContent.status # 0
      BY DEF UserBody, TweetBody, NoContent
    <3> QED BY <1>1, <3>1, <3>2 DEF PutUser, PutTweet, PutFollow, DeleteFollow, Answer
  <2>3. resp'[c].status # 0
    BY <2>2 DEF IndInv, ServingInv, TypeOK
  <2>4. resp'[c] # NoReply
    BY <2>3 DEF NoReply
  <2> QED BY <2>1, <2>4 DEF Decides
<1>2. CASE ~(PutUser(c) \/ PutTweet(c) \/ PutFollow(c) \/ DeleteFollow(c))
  BY <1>2 DEF Handler, Call, Reply, AcquireWmu, ReleaseWmu, CreateHasUser, CreateNextID,
     PostHasUser, PostNextID, PostReadClock, EdgeHasFrom, EdgeHasTo, Tick, TickReadClock,
     TimelineHasUser, ReadPage
<1> QED BY <1>1, <1>2

LEMMA EachAnswer ==
    ASSUME IndInv, AnswersAreDue, NEW c \in Clients,
           Handler(c) \/ \E r \in Requests : Call(c, r),
           Decides(c), Submitted(c).op # "tick"
    PROVE  AnswersLikeSObs(c)
<1>1. CASE \/ Reply(c) \/ AcquireWmu(c) \/ ReleaseWmu(c) \/ CreateNextID(c)
           \/ PostNextID(c) \/ PostReadClock(c) \/ Tick(c)
  <2>1. resp' = resp \/ resp'[c] = NoReply
    BY <1>1 DEF Reply, AcquireWmu, ReleaseWmu, CreateNextID, PostNextID, PostReadClock, Tick,
       Goto, IndInv, ServingInv, TypeOK
  <2> QED BY <2>1 DEF Decides
<1>2. CASE TickReadClock(c)
  <2>1. pc[c] = "tick.now" /\ req[c].op = "tick"
    BY <1>2 DEF TickReadClock, At, IndInv, ServingInv, TypeOK, RunsItsRoute, TickLabels
  <2> QED BY <2>1, RunsOn
<1> QED BY <1>1, <1>2, CallAnswers, CreateAnswers, PutUserAnswers, PostAnswers,
           PutTweetAnswers, EdgeAnswers, PutEdgeAnswers, TimelineAnswers, ReadPageAnswers
        DEF Handler

LEMMA NextAnswers ==
    IndInv /\ AnswersAreDue /\ [Next]_vars =>
      [/\ \A c \in Clients : (Decides(c) /\ Submitted(c).op # "tick") => AnswersLikeSObs(c)
       /\ UNCHANGED store \/ \E c \in Clients : Decides(c)]_vars
<1> SUFFICES ASSUME IndInv, AnswersAreDue, [Next]_vars
    PROVE  [/\ \A c \in Clients : (Decides(c) /\ Submitted(c).op # "tick") => AnswersLikeSObs(c)
            /\ UNCHANGED store \/ \E c \in Clients : Decides(c)]_vars
  OBVIOUS
<1>1. CASE UNCHANGED vars
  BY <1>1
<1>2. CASE Next
  <2>1. PICK c \in Clients : Handler(c) \/ \E r \in Requests : Call(c, r)
    BY <1>2 DEF Next
  <2>2. \A d \in Clients : Decides(d) => d = c
    BY <2>1, OneMoves DEF IndInv, ServingInv, OthersKeep, Decides
  <2>3. \A d \in Clients : (Decides(d) /\ Submitted(d).op # "tick") => AnswersLikeSObs(d)
    BY <2>1, <2>2, EachAnswer
  <2> QED BY <2>1, <2>3, StoreChanges
<1> QED BY <1>1, <1>2

(* Whatever the clients do, each answer but a tick's is the one S_obs      *)
(* (spec/s_obs/step.go) gives on the store at the step that decides it,    *)
(* pages included, and the store changes at no other step.                 *)
THEOREM GoIsLinearizable == Spec => Linearizable
BY IndInvHolds, AnswersStayDue, NextAnswers, PTL DEF Spec, Linearizable

-----------------------------------------------------------------------------
(* The operator (GoAdmin): what a core can be served from *)

LEMMA TweetsStamped == Stamped(Tweet)
BY DEF Stamped, Tweet

LEMMA LogTypes ==
    ASSUME NEW log \in Seq(Tweet)
    PROVE  /\ DOMAIN log = 1..Len(log) /\ Len(log) \in Nat
           /\ \A i \in DOMAIN log : /\ log[i] \in Tweet
                                    /\ log[i].id \in Nat /\ log[i].createdAt \in Nat
                                    /\ log[i].author \in Handles
<1>1. \A i \in DOMAIN log : log[i] \in Tweet
  OBVIOUS
<1> QED BY <1>1 DEF Tweet

\* A core that serves holds what it can be served from ...
LEMMA ServesFromHeld == ASSUME ServingInv PROVE Held \in Snapshot /\ CanServe(Held)
<1>1. /\ users \in [Handles -> Nat] /\ follows \subseteq Edge /\ tweets \in Seq(Tweet)
      /\ idsUsr \in Nat \ {0} /\ idsTw \in Nat \ {0} /\ clk \in Nat
  BY DEF ServingInv, TypeOK
<1>2. Held \in Snapshot
  BY <1>1 DEF Held, Snapshot
<1>3. /\ \A i \in DOMAIN tweets : /\ tweets[i].id \in Nat /\ tweets[i].id < idsTw
                                  /\ tweets[i].createdAt <= clk /\ users[tweets[i].author] # 0
      /\ \A e \in follows : users[e[1]] # 0 /\ users[e[2]] # 0
  BY <1>1, LogTypes DEF ServingInv, LogIsOrdered, LogIsStamped, RecordsAreKnown, HasUser
<1>4. /\ \A h \in Handles : users[h] \in Nat /\ users[h] < idsUsr
      /\ \A g, h \in Handles : users[g] # 0 /\ users[g] = users[h] => g = h
  BY <1>1 DEF ServingInv, UserIdsAreUnique, HasUser
<1>5. Grounded(Held)
  <2>1. /\ \A h \in Handles : users[h] <= idsUsr - 1
        /\ \A i \in DOMAIN tweets : tweets[i].id <= idsTw - 1
    BY <1>1, <1>3, <1>4
  <2> QED BY <1>3, <1>4, <2>1 DEF Grounded, Held
<1>6. IsMonotoneLog(tweets)
  <2>1. ASSUME NEW i \in 2..Len(tweets)
        PROVE  /\ tweets[i].id > tweets[i - 1].id
               /\ tweets[i].createdAt >= tweets[i - 1].createdAt
    <3>1. i \in DOMAIN tweets /\ i - 1 \in DOMAIN tweets /\ i - 1 < i /\ i - 1 <= i
      BY <1>1, <2>1
    <3>2. /\ tweets[i - 1].id < tweets[i].id
          /\ tweets[i - 1].createdAt <= tweets[i].createdAt
      BY <1>1, <3>1 DEF ServingInv, LogIsOrdered, LogIsStamped
    <3>3. /\ tweets[i].id \in Nat /\ tweets[i - 1].id \in Nat
          /\ tweets[i].createdAt \in Nat /\ tweets[i - 1].createdAt \in Nat
      BY <1>1, <3>1, LogTypes
    <3> QED BY <3>2, <3>3
  <2> QED BY <2>1 DEF IsMonotoneLog
<1> QED BY <1>2, <1>5, <1>6 DEF CanServe, Held

\* ... and with nobody about it serves if it holds such a thing.
LEMMA HeldServes ==
    ASSUME TypeOK, CanServe(Held), \A c \in Clients : At(c, "idle"), wmu = Nobody
    PROVE  ServingInv
<1>1. /\ users \in [Handles -> Nat] /\ follows \subseteq Edge /\ tweets \in Seq(Tweet)
      /\ idsUsr \in Nat \ {0} /\ idsTw \in Nat \ {0} /\ clk \in Nat
  BY DEF TypeOK
<1>2. \A i \in DOMAIN tweets : tweets[i].id \in Nat /\ tweets[i].createdAt \in Nat
  BY <1>1, LogTypes
<1>3. \A i, j \in DOMAIN tweets :
         i < j => tweets[i].id < tweets[j].id /\ tweets[i].createdAt <= tweets[j].createdAt
  BY <1>1, TweetsStamped, AdjacentIsPairwise DEF CanServe, Held
<1>4. /\ \A h \in Handles : users[h] <= idsUsr - 1
      /\ \A g, h \in Handles : users[g] # 0 /\ users[g] = users[h] => g = h
      /\ \A i \in DOMAIN tweets :
            /\ tweets[i].id <= idsTw - 1
            /\ tweets[i].createdAt <= clk
            /\ users[tweets[i].author] # 0
      /\ \A e \in follows : users[e[1]] # 0 /\ users[e[2]] # 0
  BY DEF CanServe, Grounded, Held
<1>5. \A h \in Handles : users[h] \in Nat
  BY <1>1
<1>6. LogIsOrdered
  BY <1>1, <1>2, <1>3, <1>4 DEF LogIsOrdered
<1>7. LogIsStamped
  <2>1. \A i, j \in DOMAIN tweets : i <= j => tweets[i].createdAt <= tweets[j].createdAt
    <3>1. DOMAIN tweets \subseteq Nat
      BY <1>1
    <3> QED BY <1>2, <1>3, <3>1
  <2> QED BY <1>4, <2>1 DEF LogIsStamped
<1>8. RecordsAreKnown
  BY <1>4 DEF RecordsAreKnown, HasUser
<1>9. UserIdsAreUnique
  BY <1>1, <1>4, <1>5 DEF UserIdsAreUnique, HasUser
<1>10. \A c \in Clients : pc[c] = "idle" /\ resp[c].status # 500
  BY DEF TypeOK, At
<1>11. WmuIsHeld
  BY <1>10, ServiceAssumption DEF WmuIsHeld, CriticalLabels
<1>12. \A c \in Clients : /\ TweetIdIsFresh(c) /\ StampIsFresh(c)
                          /\ ChecksStillHold(c) /\ UserIdIsFresh(c)
  BY <1>10 DEF TweetIdIsFresh, StampIsFresh, ChecksStillHold, UserIdIsFresh, LogLabels
<1> QED BY <1>6, <1>7, <1>8, <1>9, <1>10, <1>11, <1>12 DEF ServingInv, NoInternalError

LEMMA HeldCanServe == ServingInv => CanServe(Held)
BY ServesFromHeld

LEMMA HeldCanServeNext == ServingInv' => CanServe(Held)'
BY HeldCanServe, PTL

LEMMA HeldServesNext ==
    TypeOK' /\ CanServe(Held)' /\ (\A c \in Clients : At(c, "idle"))' /\ (wmu = Nobody)'
        => ServingInv'
<1>1. TypeOK /\ CanServe(Held) /\ (\A c \in Clients : At(c, "idle")) /\ wmu = Nobody => ServingInv
  BY HeldServes
<1> QED BY <1>1, PTL

\* More ids drawn and a later clock do no harm.
LEMMA CountersMayGrow ==
    ASSUME NEW s \in Snapshot, NEW t \in Snapshot, CanServe(s),
           t.users = s.users, t.follows = s.follows, t.tweets = s.tweets,
           t.usr >= s.usr, t.tw >= s.tw, t.clk >= s.clk
    PROVE  CanServe(t)
<1>1. /\ s.users \in [Handles -> Nat] /\ s.tweets \in Seq(Tweet)
      /\ s.usr \in Nat /\ s.tw \in Nat /\ s.clk \in Nat
      /\ t.usr \in Nat /\ t.tw \in Nat /\ t.clk \in Nat
  BY DEF Snapshot
<1>2. \A h \in Handles : s.users[h] \in Nat
  BY <1>1
<1>3. \A i \in DOMAIN s.tweets : s.tweets[i].id \in Nat /\ s.tweets[i].createdAt \in Nat
  BY <1>1, LogTypes
<1> QED BY <1>1, <1>2, <1>3 DEF CanServe, Grounded

-----------------------------------------------------------------------------
(* What Replace installs *)

LEMMA RestoredType ==
    ASSUME NEW log \in Seq(Tweet)
    PROVE  /\ RestoredLog(log) \in Seq(Tweet)
           /\ IsMonotoneLog(RestoredLog(log))
           /\ \A k \in DOMAIN RestoredLog(log) :
                 \E i \in DOMAIN log : RestoredLog(log)[k] = log[i]
<1>1. SortLogByID(log) \in Seq(Tweet)
  BY TweetsStamped, SortByIDType
<1>2. IsMonotoneLog(<< >>)
  BY DEF IsMonotoneLog
<1>3. Arranges(log, SmallerID(log))
  BY TweetsStamped, SmallerIDArranges
<1>4. /\ Len(SortLogByID(log)) = Len(log)
      /\ \E at \in Bijection(DOMAIN log, DOMAIN log) :
            /\ \A k \in DOMAIN log : SortLogByID(log)[k] = log[at[k]]
            /\ \A k, l \in DOMAIN log : k < l => Ahead(SmallerID(log), at[k], at[l])
  BY <1>3, SortIsArrangement DEF SortLogByID
<1>5. \A k \in DOMAIN SortLogByID(log) : \E i \in DOMAIN log : SortLogByID(log)[k] = log[i]
  <2>1. PICK at \in Bijection(DOMAIN log, DOMAIN log) :
           \A k \in DOMAIN log : SortLogByID(log)[k] = log[at[k]]
    BY <1>4
  <2>2. at \in [DOMAIN log -> DOMAIN log]
    BY DEF Bijection, Injection
  <2>3. DOMAIN SortLogByID(log) = DOMAIN log
    BY <1>1, <1>4
  <2> QED BY <2>1, <2>2, <2>3
<1>6. CASE IsMonotoneLog(SortLogByID(log))
  BY <1>1, <1>5, <1>6 DEF RestoredLog
<1>7. CASE ~IsMonotoneLog(SortLogByID(log))
  <2>1. RestoredLog(log) = << >>
    BY <1>7 DEF RestoredLog
  <2> QED BY <1>2, <2>1
<1> QED BY <1>6, <1>7

\* A grounded snapshot can be served from once its log is restored, under any
\* clock that is not behind it.
LEMMA RestoredServes ==
    ASSUME NEW s \in Snapshot, Grounded(s), NEW t \in Snapshot,
           t.users = s.users, t.follows = s.follows, t.tweets = RestoredLog(s.tweets),
           t.usr = s.usr, t.tw = s.tw, t.clk >= s.clk
    PROVE  CanServe(t)
<1>1. s.tweets \in Seq(Tweet) /\ s.clk \in Nat /\ t.clk \in Nat
  BY DEF Snapshot
<1>2. \A i \in DOMAIN s.tweets : s.tweets[i].createdAt \in Nat
  BY <1>1, LogTypes
<1>3. /\ IsMonotoneLog(t.tweets)
      /\ \A k \in DOMAIN t.tweets : \E i \in DOMAIN s.tweets : t.tweets[k] = s.tweets[i]
  BY <1>1, RestoredType
<1>4. \A i \in DOMAIN s.tweets : /\ s.tweets[i].id <= t.tw
                                 /\ s.tweets[i].createdAt <= t.clk
                                 /\ t.users[s.tweets[i].author] # 0
  BY <1>1, <1>2 DEF Grounded
<1> QED BY <1>3, <1>4 DEF CanServe, Grounded

-----------------------------------------------------------------------------
(* Where the operator is *)

AllParts == <<"store", "usr", "tw", "clk">>
Counters == <<"usr", "tw", "clk">>
TweetsAndClock == <<"tw", "clk">>
LastPart == <<"clk">>

\* One part after the other, the clock last.
LEMMA PartsInOrder ==
    /\ Head(AllParts) = "store" /\ Tail(AllParts) = Counters /\ Len(AllParts) # 1
    /\ Head(Counters) = "usr" /\ Tail(Counters) = TweetsAndClock /\ Len(Counters) # 1
    /\ Head(TweetsAndClock) = "tw" /\ Tail(TweetsAndClock) = LastPart /\ Len(TweetsAndClock) # 1
    /\ Head(LastPart) = "clk" /\ Tail(LastPart) = << >> /\ Len(LastPart) = 1
BY DEF AllParts, Counters, TweetsAndClock, LastPart

In(part, parts) == \E i \in DOMAIN parts : parts[i] = part

LEMMA PartsLeft ==
    /\ \A p \in {"store", "usr", "tw", "clk"} : In(p, AllParts)
    /\ ~In("store", Counters) /\ \A p \in {"usr", "tw", "clk"} : In(p, Counters)
    /\ \A p \in {"store", "usr"} : ~In(p, TweetsAndClock)
    /\ \A p \in {"tw", "clk"} : In(p, TweetsAndClock)
    /\ \A p \in {"store", "usr", "tw"} : ~In(p, LastPart)
    /\ In("clk", LastPart)
    /\ \A p : ~In(p, << >>)
<1>1. \A p \in {"store", "usr", "tw", "clk"} : In(p, AllParts)
  <2>1. /\ AllParts[1] = "store" /\ AllParts[2] = "usr" /\ AllParts[3] = "tw"
        /\ AllParts[4] = "clk" /\ DOMAIN AllParts = 1..4
    BY DEF AllParts
  <2> QED BY <2>1 DEF In
<1>2. ~In("store", Counters) /\ \A p \in {"usr", "tw", "clk"} : In(p, Counters)
  <2>1. /\ Counters[1] = "usr" /\ Counters[2] = "tw" /\ Counters[3] = "clk"
        /\ DOMAIN Counters = 1..3
    BY DEF Counters
  <2>2. \A i \in 1..3 : i = 1 \/ i = 2 \/ i = 3
    OBVIOUS
  <2> QED BY <2>1, <2>2 DEF In
<1>3. /\ \A p \in {"store", "usr"} : ~In(p, TweetsAndClock)
      /\ \A p \in {"tw", "clk"} : In(p, TweetsAndClock)
  <2>1. TweetsAndClock[1] = "tw" /\ TweetsAndClock[2] = "clk" /\ DOMAIN TweetsAndClock = 1..2
    BY DEF TweetsAndClock
  <2>2. \A i \in 1..2 : i = 1 \/ i = 2
    OBVIOUS
  <2> QED BY <2>1, <2>2 DEF In
<1>4. /\ \A p \in {"store", "usr", "tw"} : ~In(p, LastPart)
      /\ In("clk", LastPart)
  <2>1. LastPart[1] = "clk" /\ DOMAIN LastPart = {1}
    BY DEF LastPart
  <2> QED BY <2>1 DEF In
<1>5. \A p : ~In(p, << >>)
  BY DEF In
<1> QED BY <1>1, <1>2, <1>3, <1>4, <1>5

LEMMA LeftIsIn == \A p : Left(p) <=> In(p, todo)
BY DEF Left, In

LEMMA LeftIsInNext == \A p : Left(p)' <=> In(p, todo')
BY DEF Left, In

-----------------------------------------------------------------------------
(* Taking a snapshot *)

\* Nothing is left: the snapshot is what was being taken.
LEMMA SnappedWholeNext ==
    ASSUME snap' \in Snapshot, todo' = << >>
    PROVE  Snapped' = snap'
<1>1. /\ ~Left("store")' /\ ~Left("usr")' /\ ~Left("tw")' /\ ~Left("clk")'
  BY PartsLeft, LeftIsInNext
<1> QED BY <1>1 DEF Snapped, Snapshot

LEMMA SnappedNothing ==
    ASSUME task' = "snapshot", todo' = AllParts
    PROVE  Snapped' = Held'
<1>1. Left("store")' /\ Left("usr")' /\ Left("tw")' /\ Left("clk")'
  BY PartsLeft, LeftIsInNext
<1> QED BY <1>1 DEF Snapped, Held

LEMMA SnappedType ==
    ASSUME TypeOK, OperatorTypes
    PROVE  Snapped \in Snapshot
<1>1. /\ users \in [Handles -> Nat] /\ follows \subseteq Edge /\ tweets \in Seq(Tweet)
      /\ idsUsr - 1 \in Nat /\ idsTw - 1 \in Nat /\ clk \in Nat
  BY DEF TypeOK
<1>2. /\ snap.users \in [Handles -> Nat] /\ snap.follows \subseteq Edge
      /\ snap.tweets \in Seq(Tweet)
      /\ snap.usr \in Nat /\ snap.tw \in Nat /\ snap.clk \in Nat
  BY DEF OperatorTypes, Snapshot
<1> QED BY <1>1, <1>2 DEF Snapped, Snapshot

LEMMA ReadTypesOf ==
    ASSUME TypeOK, OperatorTypes, ReadPart
    PROVE  snap' \in Snapshot
<1>1. /\ users \in [Handles -> Nat] /\ follows \subseteq Edge /\ tweets \in Seq(Tweet)
      /\ idsUsr - 1 \in Nat /\ idsTw - 1 \in Nat /\ clk \in Nat
  BY DEF TypeOK
<1>2. snap \in Snapshot
  BY DEF OperatorTypes
<1>3. Head(todo) \in {"store", "usr", "tw", "clk"}
  BY PartsInOrder DEF OperatorTypes, ReadPart, AllParts, Counters, TweetsAndClock, LastPart
<1> QED BY <1>1, <1>2, <1>3 DEF ReadPart, Snapshot

\* Reading a part neither changes the core nor what the snapshot comes to.
LEMMA ReadStep ==
    ASSUME TypeOK, OperatorTypes, ReadPart
    PROVE  /\ OperatorTypes' /\ Snapped' = Snapped
           /\ task' \in {"idle", "snapshot"} /\ (task' = "idle" => snap' = Snapped)
<1>1. snap' \in Snapshot /\ snap \in Snapshot /\ quiet' \in BOOLEAN
  BY ReadTypesOf DEF OperatorTypes, ReadPart
<1>2. \/ todo = AllParts /\ todo' = Counters /\ task' = "snapshot"
      \/ todo = Counters /\ todo' = TweetsAndClock /\ task' = "snapshot"
      \/ todo = TweetsAndClock /\ todo' = LastPart /\ task' = "snapshot"
      \/ todo = LastPart /\ todo' = << >> /\ task' = "idle"
  <2>1. todo = AllParts \/ todo = Counters \/ todo = TweetsAndClock \/ todo = LastPart
    BY DEF OperatorTypes, ReadPart, AllParts, Counters, TweetsAndClock, LastPart
  <2> QED BY <2>1, PartsInOrder DEF ReadPart
<1>3. OperatorTypes'
  BY <1>1, <1>2 DEF OperatorTypes, AllParts, Counters, TweetsAndClock, LastPart
<1>4. Snapped' = Snapped
  <2>1. UNCHANGED <<users, follows, tweets, idsUsr, idsTw, clk>>
    BY DEF ReadPart, vars
  <2>2. CASE todo = AllParts
    <3>1. todo' = Counters
      BY <1>2, <2>2 DEF AllParts, Counters, TweetsAndClock, LastPart
    <3>2. /\ Left("store") /\ Left("usr") /\ Left("tw") /\ Left("clk")
          /\ ~Left("store")' /\ Left("usr")' /\ Left("tw")' /\ Left("clk")'
      BY <2>2, <3>1, PartsLeft, LeftIsIn, LeftIsInNext
    <3>3. snap' = [snap EXCEPT !.users = users, !.follows = follows, !.tweets = tweets]
      BY <2>2, PartsInOrder DEF ReadPart
    <3> QED BY <1>1, <2>1, <3>2, <3>3 DEF Snapped, Snapshot
  <2>3. CASE todo = Counters
    <3>1. todo' = TweetsAndClock
      BY <1>2, <2>3 DEF AllParts, Counters, TweetsAndClock, LastPart
    <3>2. /\ ~Left("store") /\ Left("usr") /\ Left("tw") /\ Left("clk")
          /\ ~Left("store")' /\ ~Left("usr")' /\ Left("tw")' /\ Left("clk")'
      BY <2>3, <3>1, PartsLeft, LeftIsIn, LeftIsInNext
    <3>3. snap' = [snap EXCEPT !.usr = idsUsr - 1]
      BY <2>3, PartsInOrder DEF ReadPart
    <3> QED BY <1>1, <2>1, <3>2, <3>3 DEF Snapped, Snapshot
  <2>4. CASE todo = TweetsAndClock
    <3>1. todo' = LastPart
      BY <1>2, <2>4 DEF AllParts, Counters, TweetsAndClock, LastPart
    <3>2. /\ ~Left("store") /\ ~Left("usr") /\ Left("tw") /\ Left("clk")
          /\ ~Left("store")' /\ ~Left("usr")' /\ ~Left("tw")' /\ Left("clk")'
      BY <2>4, <3>1, PartsLeft, LeftIsIn, LeftIsInNext
    <3>3. snap' = [snap EXCEPT !.tw = idsTw - 1]
      BY <2>4, PartsInOrder DEF ReadPart
    <3> QED BY <1>1, <2>1, <3>2, <3>3 DEF Snapped, Snapshot
  <2>5. CASE todo = LastPart
    <3>1. todo' = << >>
      BY <1>2, <2>5 DEF AllParts, Counters, TweetsAndClock, LastPart
    <3>2. /\ ~Left("store") /\ ~Left("usr") /\ ~Left("tw") /\ Left("clk")
          /\ ~Left("store")' /\ ~Left("usr")' /\ ~Left("tw")' /\ ~Left("clk")'
      BY <2>5, <3>1, PartsLeft, LeftIsIn, LeftIsInNext
    <3>3. snap' = [snap EXCEPT !.clk = clk]
      BY <2>5, PartsInOrder DEF ReadPart
    <3> QED BY <1>1, <2>1, <3>2, <3>3 DEF Snapped, Snapshot
  <2> QED BY <1>2, <2>2, <2>3, <2>4, <2>5
<1>5. task' = "idle" => snap' = Snapped
  <2>1. ASSUME task' = "idle" PROVE todo' = << >>
    BY <1>2, <2>1
  <2> QED BY <1>1, <1>4, <2>1, SnappedWholeNext
<1> QED BY <1>2, <1>3, <1>4, <1>5

-----------------------------------------------------------------------------
(* Writing a load *)

LEMMA LoadedBegins ==
    ASSUME TypeOK, snap' \in Snapshot, Grounded(snap)', todo' = AllParts, UNCHANGED vars
    PROVE  Loaded' \in Snapshot /\ CanServe(Loaded)'
<1>1. Left("store")' /\ Left("usr")' /\ Left("tw")' /\ Left("clk")'
  BY PartsLeft, LeftIsInNext
<1>2. clk \in Nat /\ clk' = clk
  BY DEF TypeOK, vars
<1>3. /\ snap'.users \in [Handles -> Nat] /\ snap'.follows \subseteq Edge
      /\ snap'.tweets \in Seq(Tweet)
      /\ snap'.usr \in Nat /\ snap'.tw \in Nat /\ snap'.clk \in Nat
  BY DEF Snapshot
<1>4. RestoredLog(snap'.tweets) \in Seq(Tweet)
  BY <1>3, RestoredType
<1>5. /\ Loaded'.users = snap'.users /\ Loaded'.follows = snap'.follows
      /\ Loaded'.tweets = RestoredLog(snap'.tweets)
      /\ Loaded'.usr = snap'.usr /\ Loaded'.tw = snap'.tw
      /\ Loaded'.clk = IF snap'.clk > clk THEN snap'.clk ELSE clk
  BY <1>1, <1>2 DEF Loaded
<1>6. Loaded' \in Snapshot
  <2>1. Loaded' = [users |-> snap'.users, follows |-> snap'.follows,
                   tweets |-> RestoredLog(snap'.tweets), usr |-> snap'.usr, tw |-> snap'.tw,
                   clk |-> IF snap'.clk > clk THEN snap'.clk ELSE clk]
    BY <1>1, <1>2 DEF Loaded
  <2> QED BY <1>2, <1>3, <1>4, <2>1 DEF Snapshot
<1>7. Loaded'.clk >= snap'.clk
  BY <1>2, <1>3, <1>5
<1>8. \A s, t \in Snapshot :
         /\ Grounded(s) /\ t.users = s.users /\ t.follows = s.follows
         /\ t.tweets = RestoredLog(s.tweets)
         /\ t.usr = s.usr /\ t.tw = s.tw /\ t.clk >= s.clk
         => CanServe(t)
  BY RestoredServes
<1> QED BY <1>5, <1>6, <1>7, <1>8

LEMMA WriteTypes ==
    ASSUME TypeOK, OperatorTypes, WritePart
    PROVE  TypeOK' /\ OperatorTypes'
<1>1. /\ snap.users \in [Handles -> Nat] /\ snap.follows \subseteq Edge
      /\ snap.tweets \in Seq(Tweet)
      /\ snap.usr \in Nat /\ snap.tw \in Nat /\ snap.clk \in Nat
  BY DEF OperatorTypes, Snapshot
<1>2. RestoredLog(snap.tweets) \in Seq(Tweet)
  BY <1>1, RestoredType
<1>3. /\ users \in [Handles -> Nat] /\ follows \subseteq Edge /\ tweets \in Seq(Tweet)
      /\ idsUsr \in Nat \ {0} /\ idsTw \in Nat \ {0} /\ clk \in Nat
  BY DEF TypeOK
<1>4. /\ users' \in [Handles -> Nat] /\ follows' \subseteq Edge /\ tweets' \in Seq(Tweet)
  BY <1>1, <1>2, <1>3 DEF WritePart, store
<1>5. idsUsr' \in Nat \ {0} /\ idsTw' \in Nat \ {0} /\ clk' \in Nat
  BY <1>1, <1>3 DEF WritePart, SetCurrent
<1>6. UNCHANGED <<wmu, pc, req, tmp, resp, snap, quiet>>
  BY DEF WritePart
<1>7. TypeOK'
  BY <1>4, <1>5, <1>6 DEF TypeOK, RunsItsRoute
<1>8. \/ todo' = Counters /\ task' = "load"
      \/ todo' = TweetsAndClock /\ task' = "load"
      \/ todo' = LastPart /\ task' = "load"
      \/ todo' = << >> /\ task' = "idle"
  <2>1. todo = AllParts \/ todo = Counters \/ todo = TweetsAndClock \/ todo = LastPart
    BY DEF OperatorTypes, WritePart, AllParts, Counters, TweetsAndClock, LastPart
  <2> QED BY <2>1, PartsInOrder DEF WritePart
<1>9. OperatorTypes'
  BY <1>6, <1>8 DEF OperatorTypes, AllParts, Counters, TweetsAndClock, LastPart
<1> QED BY <1>7, <1>9

\* Writing a part does not change what the load comes to.
LEMMA WriteStep ==
    ASSUME TypeOK, OperatorTypes, WritePart
    PROVE  Loaded' = Loaded /\ (task' = "idle" => Held' = Loaded)
<1>1. /\ snap.usr \in Nat /\ snap.tw \in Nat /\ snap.clk \in Nat
      /\ idsUsr \in Nat /\ idsTw \in Nat /\ clk \in Nat
  BY DEF OperatorTypes, Snapshot, TypeOK
<1>2. \/ todo = AllParts /\ todo' = Counters /\ task' = "load"
      \/ todo = Counters /\ todo' = TweetsAndClock /\ task' = "load"
      \/ todo = TweetsAndClock /\ todo' = LastPart /\ task' = "load"
      \/ todo = LastPart /\ todo' = << >> /\ task' = "idle"
  <2>1. todo = AllParts \/ todo = Counters \/ todo = TweetsAndClock \/ todo = LastPart
    BY DEF OperatorTypes, WritePart, AllParts, Counters, TweetsAndClock, LastPart
  <2> QED BY <2>1, PartsInOrder DEF WritePart
<1>3. snap' = snap
  BY DEF WritePart
<1>4. CASE todo = AllParts
  <2>1. todo' = Counters /\ task' # "idle"
    BY <1>2, <1>4 DEF AllParts, Counters, TweetsAndClock, LastPart
  <2>2. /\ Left("store") /\ Left("usr") /\ Left("tw") /\ Left("clk")
        /\ ~Left("store")' /\ Left("usr")' /\ Left("tw")' /\ Left("clk")'
    BY <1>4, <2>1, PartsLeft, LeftIsIn, LeftIsInNext
  <2>3. /\ users' = snap.users /\ follows' = snap.follows
        /\ tweets' = RestoredLog(snap.tweets) /\ UNCHANGED <<idsUsr, idsTw, clk>>
    BY <1>4, PartsInOrder DEF WritePart
  <2> QED BY <1>3, <2>1, <2>2, <2>3 DEF Loaded
<1>5. CASE todo = Counters
  <2>1. todo' = TweetsAndClock /\ task' # "idle"
    BY <1>2, <1>5 DEF AllParts, Counters, TweetsAndClock, LastPart
  <2>2. /\ ~Left("store") /\ Left("usr") /\ Left("tw") /\ Left("clk")
        /\ ~Left("store")' /\ ~Left("usr")' /\ Left("tw")' /\ Left("clk")'
    BY <1>5, <2>1, PartsLeft, LeftIsIn, LeftIsInNext
  <2>3. /\ UNCHANGED <<users, follows, tweets, idsTw, clk>>
        /\ idsUsr' = snap.usr + 1
    BY <1>5, PartsInOrder DEF WritePart, SetCurrent, store
  <2>4. idsUsr' - 1 = snap.usr
    BY <1>1, <2>3
  <2> QED BY <1>3, <2>1, <2>2, <2>3, <2>4 DEF Loaded
<1>6. CASE todo = TweetsAndClock
  <2>1. todo' = LastPart /\ task' # "idle"
    BY <1>2, <1>6 DEF AllParts, Counters, TweetsAndClock, LastPart
  <2>2. /\ ~Left("store") /\ ~Left("usr") /\ Left("tw") /\ Left("clk")
        /\ ~Left("store")' /\ ~Left("usr")' /\ ~Left("tw")' /\ Left("clk")'
    BY <1>6, <2>1, PartsLeft, LeftIsIn, LeftIsInNext
  <2>3. /\ UNCHANGED <<users, follows, tweets, idsUsr, clk>>
        /\ idsTw' = snap.tw + 1
    BY <1>6, PartsInOrder DEF WritePart, SetCurrent, store
  <2>4. idsTw' - 1 = snap.tw
    BY <1>1, <2>3
  <2> QED BY <1>3, <2>1, <2>2, <2>3, <2>4 DEF Loaded
<1>7. CASE todo = LastPart
  <2>1. todo' = << >>
    BY <1>2, <1>7 DEF AllParts, Counters, TweetsAndClock, LastPart
  <2>2. /\ ~Left("store") /\ ~Left("usr") /\ ~Left("tw") /\ Left("clk")
        /\ ~Left("store")' /\ ~Left("usr")' /\ ~Left("tw")' /\ ~Left("clk")'
    BY <1>7, <2>1, PartsLeft, LeftIsIn, LeftIsInNext
  <2>3. /\ UNCHANGED <<users, follows, tweets, idsUsr, idsTw>>
        /\ clk' = IF snap.clk > clk THEN snap.clk ELSE clk
    BY <1>7, PartsInOrder DEF WritePart, store
  <2> QED BY <1>3, <2>2, <2>3 DEF Loaded, Held
<1> QED BY <1>2, <1>4, <1>5, <1>6, <1>7

-----------------------------------------------------------------------------
(* Clients meanwhile *)

\* What clients do to the records and counters: the log grows by what its guard
\* accepts, the counters grow.
LEMMA ClientsOnlyAdd ==
    ASSUME TypeOK, [Next]_vars
    PROVE  /\ idsUsr' >= idsUsr /\ idsTw' >= idsTw /\ clk' >= clk
           /\ \/ tweets' = tweets
              \/ \E t \in Tweet : AcceptsTweet(tweets, t) /\ tweets' = Append(tweets, t)
<1>1. idsUsr \in Nat /\ idsTw \in Nat /\ clk \in Nat
  BY DEF TypeOK
<1>2. CASE UNCHANGED vars
  BY <1>1, <1>2 DEF vars
<1>3. ASSUME NEW c \in Clients, PutTweet(c)
      PROVE  \/ tweets' = tweets
             \/ \E t \in Tweet : AcceptsTweet(tweets, t) /\ tweets' = Append(tweets, t)
  <2>1. NewTweet(c) \in Tweet
    BY <1>3 DEF PutTweet, At, TypeOK, RunsItsRoute, NewTweet, Tweet, PostLabels
  <2>2. CASE PutTweetError(NewTweet(c)) = ""
    <3>1. AcceptsTweet(tweets, NewTweet(c))
      BY <2>2 DEF PutTweetError
    <3>2. tweets' = Append(tweets, NewTweet(c))
      BY <1>3, <2>2 DEF PutTweet
    <3> QED BY <2>1, <3>1, <3>2
  <2>3. CASE PutTweetError(NewTweet(c)) # ""
    BY <1>3, <2>3 DEF PutTweet
  <2> QED BY <2>2, <2>3
<1>4. ASSUME NEW c \in Clients, Handler(c) \/ \E r \in Requests : Call(c, r), ~PutTweet(c)
      PROVE  tweets' = tweets
  BY <1>4 DEF Handler, Call, Reply, AcquireWmu, ReleaseWmu, CreateHasUser, CreateNextID, PutUser,
     PostHasUser, PostNextID, PostReadClock, EdgeHasFrom, EdgeHasTo, PutFollow, DeleteFollow,
     Tick, TickReadClock, TimelineHasUser, ReadPage, store
<1>5. ASSUME NEW c \in Clients, Handler(c) \/ \E r \in Requests : Call(c, r)
      PROVE  /\ idsUsr' \in {idsUsr, idsUsr + 1} /\ idsTw' \in {idsTw, idsTw + 1}
             /\ clk' \in {clk, clk + 1}
  BY <1>5 DEF Handler, Call, Reply, AcquireWmu, ReleaseWmu, CreateHasUser, CreateNextID, PutUser,
     PostHasUser, PostNextID, PostReadClock, PutTweet, EdgeHasFrom, EdgeHasTo, PutFollow, DeleteFollow,
     Tick, TickReadClock, TimelineHasUser, ReadPage
<1>6. CASE Next
  <2>1. PICK c \in Clients : Handler(c) \/ \E r \in Requests : Call(c, r)
    BY <1>6 DEF Next
  <2>2. idsUsr' >= idsUsr /\ idsTw' >= idsTw /\ clk' >= clk
    BY <1>1, <1>5, <2>1
  <2> QED BY <1>3, <1>4, <2>1, <2>2
<1> QED BY <1>2, <1>6

LEMMA LogGrowsMonotone ==
    ASSUME NEW log \in Seq(Tweet), NEW t \in Tweet, IsMonotoneLog(log), AcceptsTweet(log, t)
    PROVE  IsMonotoneLog(Append(log, t))
<1> DEFINE n == Len(log)
           grown == Append(log, t)
<1>1. /\ n \in Nat /\ Len(grown) = n + 1 /\ grown[n + 1] = t
      /\ \A i \in 1..n : grown[i] = log[i]
  OBVIOUS
<1> HIDE DEF grown
<1>2. ASSUME NEW i \in 2..Len(grown)
      PROVE  grown[i].id > grown[i - 1].id /\ grown[i].createdAt >= grown[i - 1].createdAt
  <2>1. CASE i = n + 1
    <3>1. log # << >> /\ i - 1 = n /\ grown[i - 1] = log[n] /\ grown[i] = t
      BY <1>1, <2>1
    <3> QED BY <3>1 DEF AcceptsTweet
  <2>2. CASE i # n + 1
    <3>1. i \in 2..n /\ grown[i] = log[i] /\ grown[i - 1] = log[i - 1]
      BY <1>1, <2>2
    <3> QED BY <3>1 DEF IsMonotoneLog
  <2> QED BY <2>1, <2>2
<1>3. IsMonotoneLog(grown)
  BY <1>2 DEF IsMonotoneLog
<1> QED BY <1>3 DEF grown

LEMMA ClientsKeepMonotone ==
    ASSUME TypeOK, LogStaysMonotone, [Next]_vars
    PROVE  LogStaysMonotone'
<1>1. tweets \in Seq(Tweet)
  BY DEF TypeOK
<1>2. CASE tweets' = tweets
  BY <1>2 DEF LogStaysMonotone
<1>3. CASE \E t \in Tweet : AcceptsTweet(tweets, t) /\ tweets' = Append(tweets, t)
  <2>1. PICK t \in Tweet : AcceptsTweet(tweets, t) /\ tweets' = Append(tweets, t)
    BY <1>3
  <2>2. IsMonotoneLog(Append(tweets, t))
    BY <1>1, <2>1, LogGrowsMonotone DEF LogStaysMonotone
  <2> QED BY <2>1, <2>2 DEF LogStaysMonotone
<1> QED BY <1>2, <1>3, ClientsOnlyAdd

\* A snapshot being taken stays one that can be served from: the store may go
\* stale, but what is read later is only further ahead.
LEMMA ClientsKeepSnapped ==
    ASSUME ServingInv, OperatorTypes, CanServe(Snapped), task = "snapshot",
           [Next]_vars, UNCHANGED <<task, todo, snap>>
    PROVE  CanServe(Snapped)'
<1>1. TypeOK /\ TypeOK' /\ ServingInv'
  BY NextServes DEF ServingInv
<1>2. CanServe(Held)'
  BY <1>1, HeldCanServeNext
<1>3. \A p : Left(p)' <=> Left(p)
  BY LeftIsIn, LeftIsInNext
<1>4. CASE Left("store")
  <2>1. todo = AllParts
    BY <1>4, PartsLeft, LeftIsIn DEF OperatorTypes, AllParts, Counters, TweetsAndClock, LastPart
  <2>2. Snapped' = Held'
    BY <2>1, SnappedNothing
  <2> QED BY <1>2, <2>2
<1>5. CASE ~Left("store")
  <2>1. Snapped \in Snapshot
    BY <1>1, SnappedType
  <2>2. /\ snap.users \in [Handles -> Nat] /\ snap.follows \subseteq Edge
        /\ snap.tweets \in Seq(Tweet)
        /\ snap.usr \in Nat /\ snap.tw \in Nat /\ snap.clk \in Nat
    BY DEF OperatorTypes, Snapshot
  <2>3. /\ idsUsr \in Nat \ {0} /\ idsTw \in Nat \ {0} /\ clk \in Nat
        /\ idsUsr' \in Nat \ {0} /\ idsTw' \in Nat \ {0} /\ clk' \in Nat
    BY <1>1 DEF TypeOK
  <2>4. ~Left("store")' /\ (Left("usr")' <=> Left("usr")) /\ (Left("tw")' <=> Left("tw"))
        /\ (Left("clk")' <=> Left("clk"))
    BY <1>3, <1>5
  <2>5. Snapped' = [users |-> snap.users, follows |-> snap.follows, tweets |-> snap.tweets,
                    usr |-> IF Left("usr") THEN idsUsr' - 1 ELSE snap.usr,
                    tw |-> IF Left("tw") THEN idsTw' - 1 ELSE snap.tw,
                    clk |-> IF Left("clk") THEN clk' ELSE snap.clk]
    BY <2>4 DEF Snapped
  <2>6. Snapped' \in Snapshot
    <3>1. /\ (IF Left("usr") THEN idsUsr' - 1 ELSE snap.usr) \in Nat
          /\ (IF Left("tw") THEN idsTw' - 1 ELSE snap.tw) \in Nat
          /\ (IF Left("clk") THEN clk' ELSE snap.clk) \in Nat
      <4>1. idsUsr' - 1 \in Nat /\ idsTw' - 1 \in Nat /\ clk' \in Nat
        <5>1. \A n \in Nat \ {0} : n - 1 \in Nat
          OBVIOUS
        <5> QED BY <2>3, <5>1, Zenon
      <4> QED BY <2>2, <4>1, Zenon
    <3> QED BY <2>2, <2>5, <3>1 DEF Snapshot
  <2>7. /\ Snapped'.users = Snapped.users /\ Snapped'.follows = Snapped.follows
        /\ Snapped'.tweets = Snapped.tweets
    BY <1>5, <2>5 DEF Snapped
  <2>8. /\ Snapped'.usr >= Snapped.usr /\ Snapped'.tw >= Snapped.tw
        /\ Snapped'.clk >= Snapped.clk
    BY <1>1, <2>2, <2>3, <2>5, ClientsOnlyAdd DEF Snapped
  <2>9. \A s, t \in Snapshot :
           /\ CanServe(s) /\ t.users = s.users /\ t.follows = s.follows /\ t.tweets = s.tweets
           /\ t.usr >= s.usr /\ t.tw >= s.tw /\ t.clk >= s.clk
           => CanServe(t)
    BY CountersMayGrow
  <2> QED BY <2>1, <2>6, <2>7, <2>8, <2>9
<1> QED BY <1>4, <1>5

-----------------------------------------------------------------------------
(* The operator's invariant *)

LEMMA InitOperator == AdminInit => OperatorInv
<1> SUFFICES ASSUME AdminInit PROVE OperatorInv
  OBVIOUS
<1>1. TypeOK /\ ServingInv
  BY InitTypes, InitServes DEF AdminInit
<1>2. LogStaysMonotone
  BY DEF AdminInit, Init, LogStaysMonotone, IsMonotoneLog
<1>3. Blank \in Snapshot /\ Grounded(Blank)
  BY DEF Blank, Snapshot, Grounded
<1>4. OperatorTypes
  BY <1>3 DEF AdminInit, OperatorTypes
<1> QED BY <1>1, <1>2, <1>3, <1>4 DEF OperatorInv, AdminInit

LEMMA ClientsKeepOperator ==
    ASSUME OperatorInv, [Next]_vars, UNCHANGED <<task, todo, snap>>, quiet' \in BOOLEAN,
           quiet' => quiet, quiet' /\ task = "load" => UNCHANGED vars
    PROVE  OperatorInv'
<1>1. TypeOK /\ TypeOK' /\ OperatorTypes /\ OperatorTypes' /\ LogStaysMonotone
  BY NextTypes DEF OperatorInv, OperatorTypes
<1>2. LogStaysMonotone'
  BY <1>1, ClientsKeepMonotone
<1>3. ASSUME quiet', task = "idle" PROVE ServingInv' /\ Grounded(snap')
  BY <1>3, NextServes DEF OperatorInv
<1>4. ASSUME quiet', task = "snapshot" PROVE ServingInv' /\ CanServe(Snapped)'
  BY <1>1, <1>4, NextServes, ClientsKeepSnapped DEF OperatorInv
<1>5. ASSUME quiet', task = "load"
      PROVE  /\ \A c \in Clients : At(c, "idle")'
             /\ wmu' = Nobody
             /\ Grounded(snap)' /\ CanServe(Loaded)'
  <2>1. UNCHANGED vars /\ quiet
    BY <1>5
  <2>2. /\ \A c \in Clients : At(c, "idle")
        /\ wmu = Nobody
        /\ Grounded(snap) /\ CanServe(Loaded)
    BY <1>5, <2>1 DEF OperatorInv
  <2>3. Loaded' = Loaded
    BY <2>1 DEF Loaded, Left, vars
  <2> QED BY <2>1, <2>2, <2>3 DEF At, vars, Grounded, CanServe
<1>6. quiet' => /\ task' = "idle" => ServingInv' /\ Grounded(snap)'
                /\ task' = "snapshot" => ServingInv' /\ CanServe(Snapped)'
                /\ task' = "load" => /\ \A c \in Clients : At(c, "idle")'
                                     /\ wmu' = Nobody
                                     /\ Grounded(snap)' /\ CanServe(Loaded)'
  BY <1>3, <1>4, <1>5
<1> QED BY <1>1, <1>2, <1>6 DEF OperatorInv

\* While a load is quiet no handler has anything to do.
LEMMA NobodyAbout ==
    ASSUME NEW c \in Clients, At(c, "idle")
    PROVE  ~Handler(c)
BY DEF Handler, At, Reply, AcquireWmu, ReleaseWmu, CreateHasUser, CreateNextID, PutUser,
   PostHasUser, PostNextID, PostReadClock, PutTweet, EdgeHasFrom, EdgeHasTo, PutFollow,
   DeleteFollow, Tick, TickReadClock, TimelineHasUser, ReadPage

LEMMA BeginSnapshotOperator ==
    ASSUME OperatorInv, BeginSnapshot PROVE OperatorInv'
<1>1. /\ task = "idle" /\ task' = "snapshot" /\ todo' = AllParts /\ snap' = Blank
      /\ UNCHANGED vars /\ quiet' = quiet
  BY DEF BeginSnapshot, SnapshotOrder, AllParts
<1>2. Blank \in Snapshot
  BY DEF Blank, Snapshot
<1>3. TypeOK' /\ LogStaysMonotone' /\ OperatorTypes'
  <2>1. [Next]_vars
    BY <1>1
  <2> QED BY <1>1, <1>2, <2>1, NextTypes, ClientsKeepMonotone
          DEF OperatorInv, OperatorTypes, AllParts
<1>4. ASSUME quiet' PROVE ServingInv' /\ CanServe(Snapped)'
  <2>1. ServingInv'
    BY <1>1, <1>4, NextServes DEF OperatorInv
  <2>2. Snapped' = Held' /\ CanServe(Held)'
    BY <1>1, <2>1, SnappedNothing, HeldCanServeNext
  <2> QED BY <2>1, <2>2
<1> QED BY <1>1, <1>3, <1>4 DEF OperatorInv

LEMMA ReadPartOperator ==
    ASSUME OperatorInv, ReadPart PROVE OperatorInv'
<1>1. UNCHANGED vars /\ quiet' = quiet /\ task = "snapshot"
  BY DEF ReadPart
<1>2. /\ OperatorTypes' /\ Snapped' = Snapped
      /\ task' \in {"idle", "snapshot"} /\ (task' = "idle" => snap' = Snapped)
  BY ReadStep DEF OperatorInv
<1>3. TypeOK' /\ LogStaysMonotone'
  <2>1. [Next]_vars
    BY <1>1
  <2> QED BY <2>1, NextTypes, ClientsKeepMonotone DEF OperatorInv
<1>4. ASSUME quiet'
      PROVE  ServingInv' /\ CanServe(Snapped)' /\ (task' = "idle" => Grounded(snap)')
  <2>1. ServingInv'
    BY <1>1, <1>4, NextServes DEF OperatorInv
  <2>2. CanServe(Snapped)
    BY <1>1, <1>4 DEF OperatorInv
  <2> QED BY <1>2, <2>1, <2>2 DEF CanServe
<1> QED BY <1>2, <1>3, <1>4 DEF OperatorInv

LEMMA BeginLoadOperator ==
    ASSUME OperatorInv, BeginLoad PROVE OperatorInv'
<1>1. /\ task = "idle" /\ task' = "load" /\ todo' = AllParts /\ UNCHANGED vars
      /\ snap' \in {snap} \cup Foreign
      /\ quiet' = (quiet /\ Grounded(snap') /\ \A c \in Clients : At(c, "idle"))
  BY DEF BeginLoad, LoadOrder, AllParts
<1>2. snap' \in Snapshot
  BY <1>1, ForeignAssumption DEF OperatorInv, OperatorTypes
<1>3. TypeOK' /\ LogStaysMonotone' /\ OperatorTypes'
  <2>1. [Next]_vars
    BY <1>1
  <2>2. quiet' \in BOOLEAN
    BY <1>1
  <2> QED BY <1>1, <1>2, <2>1, <2>2, NextTypes, ClientsKeepMonotone
          DEF OperatorInv, OperatorTypes, AllParts
<1>4. ASSUME quiet'
      PROVE  /\ \A c \in Clients : At(c, "idle")'
             /\ wmu' = Nobody
             /\ Grounded(snap)' /\ CanServe(Loaded)'
  <2>1. quiet /\ Grounded(snap') /\ \A c \in Clients : At(c, "idle")
    BY <1>1, <1>4
  <2>2. ServingInv /\ Grounded(snap) /\ TypeOK
    BY <1>1, <2>1 DEF OperatorInv
  <2>3. Grounded(snap)'
    BY <2>1 DEF Grounded
  <2>4. wmu = Nobody
    BY <2>1, <2>2 DEF ServingInv, WmuIsHeld, CriticalLabels, At, TypeOK
  <2>5. CanServe(Loaded)'
    BY <1>1, <1>2, <2>2, <2>3, LoadedBegins
  <2> QED BY <1>1, <2>1, <2>3, <2>4, <2>5 DEF At, vars
<1> QED BY <1>1, <1>3, <1>4 DEF OperatorInv

LEMMA WritePartOperator ==
    ASSUME OperatorInv, WritePart PROVE OperatorInv'
<1>1. /\ task = "load" /\ UNCHANGED <<wmu, pc, req, tmp, resp, snap, quiet>>
      /\ tweets' = RestoredLog(snap.tweets) \/ tweets' = tweets
  BY DEF WritePart, store
<1>2. TypeOK' /\ OperatorTypes' /\ task' \in {"idle", "load"}
  BY WriteTypes DEF OperatorInv, WritePart
<1>3. Loaded' = Loaded /\ (task' = "idle" => Held' = Loaded)
  BY WriteStep DEF OperatorInv
<1>4. LogStaysMonotone'
  <2>1. snap.tweets \in Seq(Tweet)
    BY DEF OperatorInv, OperatorTypes, Snapshot
  <2>2. IsMonotoneLog(RestoredLog(snap.tweets)) /\ IsMonotoneLog(tweets)
    BY <2>1, RestoredType DEF OperatorInv, LogStaysMonotone
  <2> QED BY <1>1, <2>2 DEF LogStaysMonotone
<1>5. ASSUME quiet'
      PROVE  /\ (\A c \in Clients : At(c, "idle"))' /\ (wmu = Nobody)'
             /\ Grounded(snap)' /\ CanServe(Loaded)'
  <2>1. /\ \A c \in Clients : At(c, "idle")
        /\ wmu = Nobody /\ Grounded(snap) /\ CanServe(Loaded)
    BY <1>1, <1>5 DEF OperatorInv
  <2> QED BY <1>1, <1>3, <2>1 DEF At
<1>6. ASSUME quiet', task' = "idle" PROVE ServingInv'
  <2>1. CanServe(Held)'
    BY <1>3, <1>5, <1>6
  <2> QED BY <1>2, <1>5, <1>6, <2>1, HeldServesNext
<1> QED BY <1>2, <1>4, <1>5, <1>6 DEF OperatorInv, At

LEMMA NextOperator == OperatorInv /\ [AdminNext]_allVars => OperatorInv'
<1> SUFFICES ASSUME OperatorInv, [AdminNext]_allVars PROVE OperatorInv'
  OBVIOUS
<1>1. quiet \in BOOLEAN
  BY DEF OperatorInv, OperatorTypes
<1>2. CASE UNCHANGED allVars
  BY <1>1, <1>2, ClientsKeepOperator DEF allVars, adminVars
<1>3. ASSUME NEW c \in Clients, Handler(c), UNCHANGED adminVars PROVE OperatorInv'
  <2>1. Next
    BY <1>3 DEF Next
  <2>2. ~(quiet /\ task = "load")
    BY <1>3, NobodyAbout DEF OperatorInv
  <2> QED BY <1>1, <1>3, <2>1, <2>2, ClientsKeepOperator DEF adminVars
<1>4. ASSUME NEW c \in Clients, NEW r \in Requests, Call(c, r),
             quiet' = (quiet /\ task # "load"), UNCHANGED <<task, todo, snap>>
      PROVE  OperatorInv'
  <2>1. Next
    BY <1>4 DEF Next
  <2>2. quiet' \in BOOLEAN
    BY <1>4
  <2> QED BY <1>4, <2>1, <2>2, ClientsKeepOperator
<1> QED BY <1>2, <1>3, <1>4, BeginSnapshotOperator, ReadPartOperator, BeginLoadOperator,
           WritePartOperator DEF AdminNext

-----------------------------------------------------------------------------
(* What the admin path promises *)

(* As long as every load was quiet, the core serves, is being loaded with  *)
(* what it can serve from, and the snapshot at hand can be loaded          *)
(* (service.go:575-600, admin.go).                                         *)
THEOREM OperatorInvariant == AdminSpec => []OperatorInv
BY InitOperator, NextOperator, PTL DEF AdminSpec

(* F2's basis survives any load, quiet or not, of any snapshot, its        *)
(* counters and users true of its log or not (memstore.go:668-678).        *)
THEOREM LogSurvivesLoads == AdminSpec => []LogStaysMonotone
<1>1. OperatorInv => LogStaysMonotone
  BY DEF OperatorInv
<1> QED BY <1>1, OperatorInvariant, PTL

(* A core that was only loaded in quiet, with records its snapshots'       *)
(* counters cover, goes on being served from, and no answer is an internal *)
(* error (service.go:584-589).                                             *)
THEOREM QuietLoadsLeaveServable == AdminSpec => []LoadLeavesServable
<1>1. OperatorInv => LoadLeavesServable
  <2> SUFFICES ASSUME OperatorInv, quiet
      PROVE  NoInternalError /\ (task # "load" => CanServe(Held))
    BY DEF LoadLeavesServable
  <2>1. CASE task # "load"
    <3>1. ServingInv
      BY <2>1 DEF OperatorInv, OperatorTypes
    <3> QED BY <3>1, ServesFromHeld DEF ServingInv
  <2>2. CASE task = "load"
    <3>1. \A c \in Clients : resp[c].status = 0
      BY <2>2 DEF OperatorInv, TypeOK, At
    <3> QED BY <2>2, <3>1 DEF NoInternalError
  <2> QED BY <2>1, <2>2
<1> QED BY <1>1, OperatorInvariant, PTL

(* A snapshot taken while clients are being served can be served from      *)
(* (service.go:575-582).                                                   *)
THEOREM SnapshotsAreServable == AdminSpec => SnapshotIsLoadable
<1>1. OperatorInv /\ [AdminNext]_allVars =>
        [(task = "snapshot" /\ task' = "idle" /\ quiet) => CanServe(snap')]_allVars
  <2> SUFFICES ASSUME OperatorInv, AdminNext, task = "snapshot", task' = "idle", quiet
      PROVE  CanServe(snap')
    OBVIOUS
  <2>1. ReadPart
    BY DEF AdminNext, BeginSnapshot, BeginLoad, WritePart, adminVars
  <2>2. snap' = Snapped
    BY <2>1, ReadStep DEF OperatorInv
  <2> QED BY <2>2 DEF OperatorInv
<1> QED BY <1>1, OperatorInvariant, PTL DEF AdminSpec, SnapshotIsLoadable
=============================================================================
