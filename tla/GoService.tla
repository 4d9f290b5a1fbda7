----------------------------- MODULE GoService -----------------------------
(***************************************************************************)
(* The Go corner under concurrent requests: one goroutine per client runs  *)
(* a handler of internal/httpshim, which calls internal/service, which     *)
(* calls the store, the id generators and the clock.  Each component has a *)
(* mutex of its own that it holds for one method call, so a component call *)
(* is one step; between two calls of the same handler the others run.      *)
(* Service.wmu is the only lock held across calls.                         *)
(*                                                                         *)
(* pc[c] names the call client c makes next; the word before the dot is    *)
(* the handler.  Decoding and syntax checks read nothing shared and are    *)
(* part of the step that submits the request.                              *)
(***************************************************************************)
EXTENDS Api, MemStore, FiniteSets

CONSTANTS
    Clients,     \* HTTP connections, each with one request at a time
    Nobody,      \* the holder of a free mutex
    Requests,    \* the requests clients may send
    MaxUserID,   \* bound on the user ids clients may cause to be allocated
    MaxTweetID,  \* bound on the tweet ids clients may cause to be allocated
    MaxClock     \* bound on the clock value clients may cause

ASSUME ServiceAssumption ==
    /\ Nobody \notin Clients
    /\ Requests \subseteq Request
    /\ MaxUserID \in Nat
    /\ MaxTweetID \in Nat
    /\ MaxClock \in Nat

VARIABLES
    users,    \* MemStore.users: the user id of each handle, 0 if none
    follows,  \* MemStore.follows
    tweets,   \* MemStore.tweets, the append-ordered log
    idsUsr,   \* Service.idsUsr.next
    idsTw,    \* Service.idsTw.next
    clk,      \* Logical.now
    wmu,      \* who holds Service.wmu
    pc, req, tmp, resp  \* per client: next call, request, locals, answer

store == <<users, follows, tweets>>
vars == <<users, follows, tweets, idsUsr, idsTw, clk, wmu, pc, req, tmp, resp>>

NoRequest == [op |-> "none"]
NoReply == [status |-> 0]
NoLocals == [id |-> 0, createdAt |-> 0]

Init ==
    /\ users = [h \in Handles |-> 0]
    /\ follows = {}
    /\ tweets = << >>
    /\ idsUsr = 1
    /\ idsTw = 1
    /\ clk = 0
    /\ wmu = Nobody
    /\ pc = [c \in Clients |-> "idle"]
    /\ req = [c \in Clients |-> NoRequest]
    /\ tmp = [c \in Clients |-> NoLocals]
    /\ resp = [c \in Clients |-> NoReply]

-----------------------------------------------------------------------------
(* Control *)

At(c, label) == pc[c] = label

Goto(c, label) ==
    /\ pc' = [pc EXCEPT ![c] = label]
    /\ UNCHANGED resp

\* The handler has its answer and goes on to the given label with it.
Answer(c, response, label) ==
    /\ pc' = [pc EXCEPT ![c] = label]
    /\ resp' = [resp EXCEPT ![c] = response]

\* HasUser: one lookup under the store's read lock.
HasUser(h) == users[h] # 0

\* writeErrFromDomain: the status of each error of the core; an error it does
\* not name (ErrNonMonotonic) is an internal error.
WireError(code) ==
    CASE code = "handle_taken" -> ErrorBody(409, code)
      [] code = "non_monotonic_append" -> ErrorBody(500, "internal_error")
      [] OTHER -> ErrorBody(400, code)

-----------------------------------------------------------------------------
(* Submitting a request *)

\* Fault: the text of a post is not checked.
SyntaxErrorAnyText(r) ==
    CASE r.op = "malformed" -> "malformed_request"
      [] r.op = "unrouted" -> "not_found"
      [] r.op = "create" -> IF r.handle \in Handles THEN "" ELSE "invalid_handle"
      [] r.op \in {"follow", "unfollow"} ->
            IF {r.from, r.to} \subseteq Handles THEN "" ELSE "invalid_handle"
      [] r.op = "post" -> IF r.author \in Handles THEN "" ELSE "invalid_handle"
      [] r.op = "timeline" -> IF r.user \in Handles THEN "" ELSE "invalid_handle"
      [] r.op = "tick" -> ""

\* What the handler and the first lines of the service method reject before
\* they touch shared state; "" when they reject nothing.
SyntaxError(r) ==
    CASE r.op = "malformed" -> "malformed_request"
      [] r.op = "unrouted" -> "not_found"
      [] r.op = "create" -> IF r.handle \in Handles THEN "" ELSE "invalid_handle"
      [] r.op \in {"follow", "unfollow"} ->
            IF {r.from, r.to} \subseteq Handles THEN "" ELSE "invalid_handle"
      [] r.op = "post" -> IF r.author \notin Handles THEN "invalid_handle"
                          ELSE IF r.text \notin Texts THEN "invalid_text" ELSE ""
      [] r.op = "timeline" -> IF r.user \in Handles THEN "" ELSE "invalid_handle"
      [] r.op = "tick" -> ""

FirstCall(r) ==
    CASE r.op = "create" -> "create.lock"
      [] r.op = "post" -> "post.lock"
      [] r.op \in {"follow", "unfollow"} -> "edge.from"
      [] r.op = "tick" -> "tick.tick"
      [] r.op = "timeline" -> "timeline.user"

Pending(op) == Cardinality({c \in Clients : req[c].op = op})

\* The bounds of the model: no request that would carry a counter past them.
MayCall(r) ==
    /\ r.op = "create" => idsUsr + Pending("create") <= MaxUserID
    /\ r.op = "post" => idsTw + Pending("post") <= MaxTweetID
    /\ r.op = "tick" => clk + Pending("tick") < MaxClock

Call(c, r) ==
    /\ At(c, "idle")
    /\ MayCall(r)
    /\ req' = [req EXCEPT ![c] = r]
    /\ IF SyntaxError(r) = "" THEN Goto(c, FirstCall(r))
       ELSE Answer(c, ErrorBody(IF r.op = "unrouted" THEN 404 ELSE 400, SyntaxError(r)),
                   "reply")
    /\ UNCHANGED <<store, idsUsr, idsTw, clk, wmu, tmp>>

\* The response is written and the goroutine's locals are gone.
Reply(c) ==
    /\ At(c, "reply")
    /\ pc' = [pc EXCEPT ![c] = "idle"]
    /\ req' = [req EXCEPT ![c] = NoRequest]
    /\ tmp' = [tmp EXCEPT ![c] = NoLocals]
    /\ resp' = [resp EXCEPT ![c] = NoReply]
    /\ UNCHANGED <<store, idsUsr, idsTw, clk, wmu>>

-----------------------------------------------------------------------------
(* Service.wmu, taken by CreateUser and PostTweet and by nothing else *)

\* Fault: the mutex is not taken before the check-then-act sequence.
EnterUnlocked(c) ==
    /\ wmu' = c
    /\ \/ At(c, "create.lock") /\ Goto(c, "create.has")
       \/ At(c, "post.lock") /\ Goto(c, "post.has")
    /\ UNCHANGED <<store, idsUsr, idsTw, clk, req, tmp>>

AcquireWmu(c) ==
    /\ wmu = Nobody
    /\ wmu' = c
    /\ \/ At(c, "create.lock") /\ Goto(c, "create.has")
       \/ At(c, "post.lock") /\ Goto(c, "post.has")
    /\ UNCHANGED <<store, idsUsr, idsTw, clk, req, tmp>>

\* defer s.wmu.Unlock(): runs on every way out, before the response is written.
ReleaseWmu(c) ==
    /\ At(c, "unlock")
    /\ wmu' = Nobody
    /\ Goto(c, "reply")
    /\ UNCHANGED <<store, idsUsr, idsTw, clk, req, tmp>>

-----------------------------------------------------------------------------
(* POST /users: Service.CreateUser *)

CreateHasUser(c) ==
    /\ At(c, "create.has")
    /\ IF HasUser(req[c].handle) THEN Answer(c, WireError("handle_taken"), "unlock")
       ELSE Goto(c, "create.next")
    /\ UNCHANGED <<store, idsUsr, idsTw, clk, wmu, req, tmp>>

CreateNextID(c) ==
    /\ At(c, "create.next")
    /\ tmp' = [tmp EXCEPT ![c].id = idsUsr]
    /\ idsUsr' = idsUsr + 1
    /\ Goto(c, "create.put")
    /\ UNCHANGED <<store, idsTw, clk, wmu, req>>

\* MemStore.PutUser looks the handle up again under its own lock.
PutUser(c) ==
    LET handle == req[c].handle
    IN  /\ At(c, "create.put")
        /\ IF HasUser(handle)
           THEN /\ Answer(c, WireError("handle_taken"), "unlock")
                /\ UNCHANGED users
           ELSE /\ Answer(c, UserBody(handle, tmp[c].id), "unlock")
                /\ users' = [users EXCEPT ![handle] = tmp[c].id]
        /\ UNCHANGED <<follows, tweets, idsUsr, idsTw, clk, wmu, req, tmp>>

-----------------------------------------------------------------------------
(* POST /tweets: Service.PostTweet *)

\* Fault: the id is drawn even for a post that is then refused.
PostHasUserBurningID(c) ==
    /\ At(c, "post.has")
    /\ IF HasUser(req[c].author)
       THEN Goto(c, "post.next") /\ UNCHANGED idsTw
       ELSE Answer(c, WireError("unknown_user"), "unlock") /\ idsTw' = idsTw + 1
    /\ UNCHANGED <<store, idsUsr, clk, wmu, req, tmp>>

\* Fault: the early return leaves the mutex locked.
PostHasUserKeepingLock(c) ==
    /\ At(c, "post.has")
    /\ IF HasUser(req[c].author) THEN Goto(c, "post.next")
       ELSE Answer(c, WireError("unknown_user"), "reply")
    /\ UNCHANGED <<store, idsUsr, idsTw, clk, wmu, req, tmp>>

PostHasUser(c) ==
    /\ At(c, "post.has")
    /\ IF HasUser(req[c].author) THEN Goto(c, "post.next")
       ELSE Answer(c, WireError("unknown_user"), "unlock")
    /\ UNCHANGED <<store, idsUsr, idsTw, clk, wmu, req, tmp>>

\* Fault: the id is peeked at and not taken.
PostPeekID(c) ==
    /\ At(c, "post.next")
    /\ tmp' = [tmp EXCEPT ![c].id = idsTw]
    /\ Goto(c, "post.now")
    /\ UNCHANGED <<store, idsUsr, idsTw, clk, wmu, req>>

PostNextID(c) ==
    /\ At(c, "post.next")
    /\ tmp' = [tmp EXCEPT ![c].id = idsTw]
    /\ idsTw' = idsTw + 1
    /\ Goto(c, "post.now")
    /\ UNCHANGED <<store, idsUsr, clk, wmu, req>>

PostReadClock(c) ==
    /\ At(c, "post.now")
    /\ tmp' = [tmp EXCEPT ![c].createdAt = clk]
    /\ Goto(c, "post.put")
    /\ UNCHANGED <<store, idsUsr, idsTw, clk, wmu, req>>

NewTweet(c) == [id |-> tmp[c].id, author |-> req[c].author,
                text |-> req[c].text, createdAt |-> tmp[c].createdAt]

\* MemStore.PutTweet: author known, then the guard of the append log.
PutTweetError(t) == IF ~HasUser(t.author) THEN "unknown_user"
                    ELSE IF ~AcceptsTweet(tweets, t) THEN "non_monotonic_append"
                    ELSE ""

PutTweet(c) ==
    LET t == NewTweet(c)
    IN  /\ At(c, "post.put")
        /\ IF PutTweetError(t) = ""
           THEN /\ Answer(c, TweetBody(t), "unlock")
                /\ tweets' = Append(tweets, t)
           ELSE /\ Answer(c, WireError(PutTweetError(t)), "unlock")
                /\ UNCHANGED tweets
        /\ UNCHANGED <<users, follows, idsUsr, idsTw, clk, wmu, req, tmp>>

-----------------------------------------------------------------------------
(* POST and DELETE /follow: Service.Follow and Service.Unfollow, no wmu *)

\* Fault: self-follow is refused before existence is checked.
EdgeSelfFirst(c) ==
    /\ At(c, "edge.from")
    /\ IF req[c].op = "follow" /\ req[c].from = req[c].to
       THEN Answer(c, WireError("self_follow_forbidden"), "reply")
       ELSE IF HasUser(req[c].from) THEN Goto(c, "edge.to")
       ELSE Answer(c, WireError("unknown_user"), "reply")
    /\ UNCHANGED <<store, idsUsr, idsTw, clk, wmu, req, tmp>>

EdgeHasFrom(c) ==
    /\ At(c, "edge.from")
    /\ IF HasUser(req[c].from) THEN Goto(c, "edge.to")
       ELSE Answer(c, WireError("unknown_user"), "reply")
    /\ UNCHANGED <<store, idsUsr, idsTw, clk, wmu, req, tmp>>

\* The self-follow test comes after both lookups and reads nothing shared.
EdgeHasTo(c) ==
    /\ At(c, "edge.to")
    /\ IF ~HasUser(req[c].to) THEN Answer(c, WireError("unknown_user"), "reply")
       ELSE IF req[c].op = "unfollow" THEN Goto(c, "unfollow.delete")
       ELSE IF req[c].from = req[c].to THEN Answer(c, WireError("self_follow_forbidden"), "reply")
       ELSE Goto(c, "follow.put")
    /\ UNCHANGED <<store, idsUsr, idsTw, clk, wmu, req, tmp>>

PutFollow(c) ==
    /\ At(c, "follow.put")
    /\ IF HasUser(req[c].from) /\ HasUser(req[c].to)
       THEN /\ follows' = follows \cup {<<req[c].from, req[c].to>>}
            /\ Answer(c, NoContent, "reply")
       ELSE /\ Answer(c, WireError("unknown_user"), "reply")
            /\ UNCHANGED follows
    /\ UNCHANGED <<users, tweets, idsUsr, idsTw, clk, wmu, req, tmp>>

DeleteFollow(c) ==
    /\ At(c, "unfollow.delete")
    /\ follows' = follows \ {<<req[c].from, req[c].to>>}
    /\ Answer(c, NoContent, "reply")
    /\ UNCHANGED <<users, tweets, idsUsr, idsTw, clk, wmu, req, tmp>>

-----------------------------------------------------------------------------
(* POST /tick: the handler advances the clock, then reads it back *)

Tick(c) ==
    /\ At(c, "tick.tick")
    /\ clk' = clk + 1
    /\ Goto(c, "tick.now")
    /\ UNCHANGED <<store, idsUsr, idsTw, wmu, req, tmp>>

TickReadClock(c) ==
    /\ At(c, "tick.now")
    /\ Answer(c, ClockBody(clk), "reply")
    /\ UNCHANGED <<store, idsUsr, idsTw, clk, wmu, req, tmp>>

-----------------------------------------------------------------------------
(* GET /timeline: existence, then limit and cursor, then the page *)

PageLimit(r) == IF r.limit = Absent THEN DefaultLimit ELSE r.limit

TimelineHasUser(c) ==
    LET r == req[c]
    IN  /\ At(c, "timeline.user")
        /\ IF ~HasUser(r.user) THEN Answer(c, WireError("unknown_user"), "reply")
           ELSE IF PageLimit(r) \notin 1..MaxLimit
                THEN Answer(c, WireError("invalid_limit"), "reply")
           ELSE IF r.cursor # Absent /\ r.cursor < 1
                THEN Answer(c, WireError("invalid_cursor"), "reply")
           ELSE Goto(c, "timeline.page")
        /\ UNCHANGED <<store, idsUsr, idsTw, clk, wmu, req, tmp>>

ReadPage(c) ==
    LET r == req[c]
        got == HomeTimeline(tweets, follows, r.user, PageLimit(r),
                            IF r.cursor = Absent THEN 0 ELSE r.cursor)
    IN  /\ At(c, "timeline.page")
        /\ Answer(c, TimelineBody(got.page,
                        IF got.more /\ got.page # << >> THEN Last(got.page).id ELSE Absent),
                  "reply")
        /\ UNCHANGED <<store, idsUsr, idsTw, clk, wmu, req, tmp>>

-----------------------------------------------------------------------------
(* Behaviours *)

\* Everything client c's goroutine does once the request is in.
Handler(c) ==
    \/ AcquireWmu(c) \/ ReleaseWmu(c) \/ Reply(c)
    \/ CreateHasUser(c) \/ CreateNextID(c) \/ PutUser(c)
    \/ PostHasUser(c) \/ PostNextID(c) \/ PostReadClock(c) \/ PutTweet(c)
    \/ EdgeHasFrom(c) \/ EdgeHasTo(c) \/ PutFollow(c) \/ DeleteFollow(c)
    \/ Tick(c) \/ TickReadClock(c)
    \/ TimelineHasUser(c) \/ ReadPage(c)

Next == \E c \in Clients : Handler(c) \/ \E r \in Requests : Call(c, r)

\* A goroutine that can run does run; a waiter is not overtaken on wmu for
\* ever (sync.Mutex hands the lock over in its starvation mode).  Clients
\* need not send anything.
Fairness == \A c \in Clients : WF_vars(Handler(c)) /\ SF_vars(AcquireWmu(c))

Spec == Init /\ [][Next]_vars /\ Fairness

-----------------------------------------------------------------------------
(* Properties of the states *)

CreateLabels == {"create.lock", "create.has", "create.next", "create.put"}
PostLabels == {"post.lock", "post.has", "post.next", "post.now", "post.put"}
EdgeLabels == {"edge.from", "edge.to", "follow.put", "unfollow.delete"}
TickLabels == {"tick.tick", "tick.now"}
TimelineLabels == {"timeline.user", "timeline.page"}
Labels == CreateLabels \cup PostLabels \cup EdgeLabels \cup TickLabels
            \cup TimelineLabels \cup {"idle", "unlock", "reply"}

\* A handler runs only the calls of its own route, on a request that passed
\* the syntax checks.
RunsItsRoute(c) ==
    /\ pc[c] \in CreateLabels => req[c].op = "create" /\ req[c].handle \in Handles
    /\ pc[c] \in PostLabels =>
          req[c].op = "post" /\ req[c].author \in Handles /\ req[c].text \in Texts
    /\ pc[c] \in EdgeLabels =>
          req[c].op \in {"follow", "unfollow"} /\ {req[c].from, req[c].to} \subseteq Handles
    /\ pc[c] = "follow.put" => req[c].op = "follow" /\ req[c].from # req[c].to
    /\ pc[c] = "unfollow.delete" => req[c].op = "unfollow"
    /\ pc[c] \in TickLabels => req[c].op = "tick"
    /\ pc[c] \in TimelineLabels => req[c].op = "timeline" /\ req[c].user \in Handles

(* Types, and what ties a client's program counter to its request and its  *)
(* answer: there is an answer exactly from the call that decides it until  *)
(* the response is written (httpshim's handlers answer once).              *)
TypeOK ==
    /\ users \in [Handles -> Nat]
    /\ follows \subseteq Edge
    /\ tweets \in Seq(Tweet)
    /\ idsUsr \in Nat \ {0}
    /\ idsTw \in Nat \ {0}
    /\ clk \in Nat
    /\ wmu \in Clients \cup {Nobody}
    /\ pc \in [Clients -> Labels]
    /\ req \in [Clients -> Requests \cup {NoRequest}]
    /\ tmp \in [Clients -> [id : Nat, createdAt : Nat]]
    /\ DOMAIN resp = Clients
    /\ \A c \in Clients :
          /\ RunsItsRoute(c)
          /\ pc[c] \in {"unlock", "reply"} <=> resp[c].status # 0

(* No request is ever answered 500: the append guard of MemStore.PutTweet  *)
(* (memstore.go:316-320 calls it unreachable) never fires, whatever the    *)
(* interleaving of posts and ticks, because the id and the stamp a post    *)
(* carries were both taken under wmu (service.go:393-426).                 *)
NoInternalError == \A c \in Clients : resp[c].status # 500

-----------------------------------------------------------------------------
(* The inductive invariant behind them *)

\* Between AcquireWmu and ReleaseWmu.
CriticalLabels == {"create.has", "create.next", "create.put",
                   "post.has", "post.next", "post.now", "post.put", "unlock"}

WmuIsHeld == \A c \in Clients : pc[c] \in CriticalLabels <=> wmu = c

LogLabels == {"post.now", "post.put"}

\* Every id in the log has been drawn, and ids increase along it.
LogIsOrdered ==
    /\ \A i \in DOMAIN tweets : tweets[i].id < idsTw
    /\ \A i, j \in DOMAIN tweets : i < j => tweets[i].id < tweets[j].id

\* Stamps never decrease along the log and none is ahead of the clock.
LogIsStamped ==
    /\ \A i \in DOMAIN tweets : tweets[i].createdAt <= clk
    /\ \A i, j \in DOMAIN tweets : i <= j => tweets[i].createdAt <= tweets[j].createdAt

\* The id a post holds is drawn and past the log's.
TweetIdIsFresh(c) ==
    pc[c] \in LogLabels =>
        /\ tmp[c].id < idsTw
        /\ \A i \in DOMAIN tweets : tweets[i].id < tmp[c].id

\* The stamp a post is about to append lies between the log and the clock.
StampIsFresh(c) ==
    pc[c] = "post.put" =>
        /\ tmp[c].createdAt <= clk
        /\ \A i \in DOMAIN tweets : tweets[i].createdAt <= tmp[c].createdAt

\* Records name users that exist.
RecordsAreKnown ==
    /\ \A i \in DOMAIN tweets : HasUser(tweets[i].author)
    /\ \A e \in follows : HasUser(e[1]) /\ HasUser(e[2])

\* Existence checked earlier still holds: users are never removed.
ChecksStillHold(c) ==
    /\ pc[c] \in {"post.next"} \cup LogLabels => HasUser(req[c].author)
    /\ pc[c] \in {"edge.to", "follow.put", "unfollow.delete"} => HasUser(req[c].from)
    /\ pc[c] \in {"follow.put", "unfollow.delete"} => HasUser(req[c].to)

\* No two handles share an id, and the generator is past every id in use.
UserIdsAreUnique ==
    /\ \A h \in Handles : users[h] < idsUsr
    /\ \A g, h \in Handles : HasUser(g) /\ users[g] = users[h] => g = h

UserIdIsFresh(c) ==
    pc[c] = "create.put" => /\ tmp[c].id \in 1..(idsUsr - 1)
                            /\ \A h \in Handles : users[h] # tmp[c].id

\* What keeps a core serving, whatever state it was loaded with.
ServingInv ==
    /\ TypeOK
    /\ WmuIsHeld
    /\ LogIsOrdered
    /\ LogIsStamped
    /\ RecordsAreKnown
    /\ UserIdsAreUnique
    /\ \A c \in Clients : /\ TweetIdIsFresh(c) /\ StampIsFresh(c)
                          /\ ChecksStillHold(c) /\ UserIdIsFresh(c)
    /\ NoInternalError

-----------------------------------------------------------------------------
(* Of a core that was never loaded more is true: no id is missing *)

\* A post holds an id exactly while it is between NextID and the append, and
\* the generator is one further ahead only then.
IdIsReserved ==
    /\ (\A c \in Clients : pc[c] \notin LogLabels) => idsTw = Len(tweets) + 1
    /\ \A c \in Clients : pc[c] \in LogLabels =>
          tmp[c].id = Len(tweets) + 1 /\ idsTw = Len(tweets) + 2

LogIsPositional == \A i \in DOMAIN tweets : tweets[i].id = i

IndInv == ServingInv /\ IdIsReserved /\ LogIsPositional
=============================================================================
