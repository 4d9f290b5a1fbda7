---------------------------- MODULE RustService ----------------------------
(***************************************************************************)
(* The Rust corner under concurrent requests (crates/server/handlers.rs    *)
(* over crates/service, store, ids and clock, on tokio's worker threads).  *)
(* The handlers never await between two calls of the core, but no lock is  *)
(* held across those calls: each call takes the lock of its own component  *)
(* (the store's RwLock, a generator's or the clock's Mutex) and is a step. *)
(*                                                                         *)
(* The store's reverse scan and the guard of its append log are the ones   *)
(* the Go store has, so their operators come from MemStore.  The module    *)
(* differs from GoService where the code does: there is no wmu, and        *)
(* unfollow does not check the syntax of its handles.                      *)
(***************************************************************************)
EXTENDS Api, MemStore, FiniteSets

CONSTANTS
    Clients,     \* HTTP connections, each with one request at a time
    Requests,    \* the requests clients may send
    MaxUserID,   \* bound on the user ids clients may cause to be allocated
    MaxTweetID,  \* bound on the tweet ids clients may cause to be allocated
    MaxClock     \* bound on the clock value clients may cause

ASSUME ServiceAssumption ==
    /\ Requests \subseteq Request
    /\ MaxUserID \in Nat
    /\ MaxTweetID \in Nat
    /\ MaxClock \in Nat

VARIABLES
    users,      \* Inner.users: the user id of each handle, 0 if none
    follows,    \* Inner.follows
    tweets,     \* Inner.tweets, the append-ordered log
    user_ids,   \* Service.user_ids: the last id issued
    tweet_ids,  \* Service.tweet_ids: the last id issued
    clk,        \* Service.clk
    pc, req, tmp, resp  \* per client: next call, request, locals, answer

store == <<users, follows, tweets>>
vars == <<users, follows, tweets, user_ids, tweet_ids, clk, pc, req, tmp, resp>>

NoRequest == [op |-> "none"]
NoReply == [status |-> 0]
NoLocals == [id |-> 0, createdAt |-> 0]

Init ==
    /\ users = [h \in Handles |-> 0]
    /\ follows = {}
    /\ tweets = << >>
    /\ user_ids = 0
    /\ tweet_ids = 0
    /\ clk = 0
    /\ pc = [c \in Clients |-> "idle"]
    /\ req = [c \in Clients |-> NoRequest]
    /\ tmp = [c \in Clients |-> NoLocals]
    /\ resp = [c \in Clients |-> NoReply]

-----------------------------------------------------------------------------
(* Control *)

At(c, label) == pc[c] = label

Goto(c, label) ==
    /\ pc' = [pc EXCEPT ![c] = label]
    /\ UNCHANGED resp

Answer(c, response) ==
    /\ pc' = [pc EXCEPT ![c] = "reply"]
    /\ resp' = [resp EXCEPT ![c] = response]

\* No handle that fails the syntax check is ever a key of the map.
has_user(h) == h \in Handles /\ users[h] # 0

\* map_err: the status of each error of the core.
map_err(code) ==
    CASE code = "handle_taken" -> ErrorBody(409, code)
      [] code = "non_monotonic_append" -> ErrorBody(500, "internal_error")
      [] OTHER -> ErrorBody(400, code)

-----------------------------------------------------------------------------
(* Submitting a request *)

\* What a handler and the first lines of its service method reject before
\* they touch shared state.  Service::unfollow has no valid_handle test.
SyntaxError(r) ==
    CASE r.op = "malformed" -> "malformed_request"
      [] r.op = "unrouted" -> "not_found"
      [] r.op = "create" -> IF r.handle \in Handles THEN "" ELSE "invalid_handle"
      [] r.op = "follow" -> IF {r.from, r.to} \subseteq Handles THEN "" ELSE "invalid_handle"
      [] r.op = "post" -> IF r.author \notin Handles THEN "invalid_handle"
                          ELSE IF r.text \notin Texts THEN "invalid_text" ELSE ""
      [] r.op = "timeline" -> IF r.user \in Handles THEN "" ELSE "invalid_handle"
      [] r.op \in {"unfollow", "tick"} -> ""

FirstCall(r) ==
    CASE r.op = "create" -> "create.has"
      [] r.op = "post" -> "post.has"
      [] r.op \in {"follow", "unfollow"} -> "edge.from"
      [] r.op = "tick" -> "tick.tick"
      [] r.op = "timeline" -> "timeline.user"

Pending(op) == Cardinality({c \in Clients : req[c].op = op})

\* The bounds of the model: no request that would carry a counter past them.
MayCall(r) ==
    /\ (r.op = "create" /\ ~has_user(r.handle)) => user_ids + Pending("create") < MaxUserID
    /\ r.op = "post" => tweet_ids + Pending("post") < MaxTweetID
    /\ r.op = "tick" => clk + Pending("tick") < MaxClock

Call(c, r) ==
    /\ At(c, "idle")
    /\ MayCall(r)
    /\ req' = [req EXCEPT ![c] = r]
    /\ IF SyntaxError(r) = "" THEN Goto(c, FirstCall(r))
       ELSE Answer(c, ErrorBody(IF r.op = "unrouted" THEN 404 ELSE 400, SyntaxError(r)))
    /\ UNCHANGED <<store, user_ids, tweet_ids, clk, tmp>>

\* The response is written and the handler's locals are gone.
Reply(c) ==
    /\ At(c, "reply")
    /\ pc' = [pc EXCEPT ![c] = "idle"]
    /\ req' = [req EXCEPT ![c] = NoRequest]
    /\ tmp' = [tmp EXCEPT ![c] = NoLocals]
    /\ resp' = [resp EXCEPT ![c] = NoReply]
    /\ UNCHANGED <<store, user_ids, tweet_ids, clk>>

-----------------------------------------------------------------------------
(* POST /users: Service::create_user *)

create_has_user(c) ==
    /\ At(c, "create.has")
    /\ IF has_user(req[c].handle) THEN Answer(c, map_err("handle_taken"))
       ELSE Goto(c, "create.next")
    /\ UNCHANGED <<store, user_ids, tweet_ids, clk, req, tmp>>

create_next_id(c) ==
    /\ At(c, "create.next")
    /\ user_ids' = user_ids + 1
    /\ tmp' = [tmp EXCEPT ![c].id = user_ids + 1]
    /\ Goto(c, "create.put")
    /\ UNCHANGED <<store, tweet_ids, clk, req>>

\* Fault: put_user trusts the caller's has_user.
put_user_unchecked(c) ==
    /\ At(c, "create.put")
    /\ Answer(c, UserBody(req[c].handle, tmp[c].id))
    /\ users' = [users EXCEPT ![req[c].handle] = tmp[c].id]
    /\ UNCHANGED <<follows, tweets, user_ids, tweet_ids, clk, req, tmp>>

\* The store's second look at the handle is the one that counts: the loser of
\* a race is refused and its id is never used.
put_user(c) ==
    LET handle == req[c].handle
    IN  /\ At(c, "create.put")
        /\ IF has_user(handle)
           THEN /\ Answer(c, map_err("handle_taken"))
                /\ UNCHANGED users
           ELSE /\ Answer(c, UserBody(handle, tmp[c].id))
                /\ users' = [users EXCEPT ![handle] = tmp[c].id]
        /\ UNCHANGED <<follows, tweets, user_ids, tweet_ids, clk, req, tmp>>

-----------------------------------------------------------------------------
(* POST /tweets: Service::post_tweet *)

post_has_user(c) ==
    /\ At(c, "post.has")
    /\ IF has_user(req[c].author) THEN Goto(c, "post.next")
       ELSE Answer(c, map_err("unknown_user"))
    /\ UNCHANGED <<store, user_ids, tweet_ids, clk, req, tmp>>

post_next_id(c) ==
    /\ At(c, "post.next")
    /\ tweet_ids' = tweet_ids + 1
    /\ tmp' = [tmp EXCEPT ![c].id = tweet_ids + 1]
    /\ Goto(c, "post.now")
    /\ UNCHANGED <<store, user_ids, clk, req>>

post_now(c) ==
    /\ At(c, "post.now")
    /\ tmp' = [tmp EXCEPT ![c].createdAt = clk]
    /\ Goto(c, "post.put")
    /\ UNCHANGED <<store, user_ids, tweet_ids, clk, req>>

NewTweet(c) == [id |-> tmp[c].id, author |-> req[c].author,
                text |-> req[c].text, createdAt |-> tmp[c].createdAt]

\* Fault: the log takes whatever it is given, as before finding F005.
put_tweet_error_unguarded(t) == IF ~has_user(t.author) THEN "unknown_user" ELSE ""

\* Fault: the guard wants later stamps, not just stamps that are no earlier.
put_tweet_error_strict(t) ==
    IF ~has_user(t.author) THEN "unknown_user"
    ELSE IF tweets # << >> /\ (t.id <= Last(tweets).id \/ t.createdAt <= Last(tweets).createdAt)
    THEN "non_monotonic_append" ELSE ""

put_tweet_error(t) == IF ~has_user(t.author) THEN "unknown_user"
                      ELSE IF ~AcceptsTweet(tweets, t) THEN "non_monotonic_append"
                      ELSE ""

\* A post overtaken since it drew its id or its stamp is refused here.
put_tweet(c) ==
    LET t == NewTweet(c)
    IN  /\ At(c, "post.put")
        /\ IF put_tweet_error(t) = ""
           THEN Answer(c, TweetBody(t)) /\ tweets' = Append(tweets, t)
           ELSE Answer(c, map_err(put_tweet_error(t))) /\ UNCHANGED tweets
        /\ UNCHANGED <<users, follows, user_ids, tweet_ids, clk, req, tmp>>

-----------------------------------------------------------------------------
(* POST and DELETE /follow: Service::follow and Service::unfollow *)

edge_has_from(c) ==
    /\ At(c, "edge.from")
    /\ IF has_user(req[c].from) THEN Goto(c, "edge.to")
       ELSE Answer(c, map_err("unknown_user"))
    /\ UNCHANGED <<store, user_ids, tweet_ids, clk, req, tmp>>

\* Fault: the second lookup is left to the store, so the self test comes first.
edge_self_before_to(c) ==
    /\ At(c, "edge.to")
    /\ IF req[c].op = "unfollow" THEN Goto(c, "unfollow.delete")
       ELSE IF req[c].from = req[c].to THEN Answer(c, map_err("self_follow_forbidden"))
       ELSE Goto(c, "follow.put")
    /\ UNCHANGED <<store, user_ids, tweet_ids, clk, req, tmp>>

\* Follow::new, the self-follow test, comes after both lookups.
edge_has_to(c) ==
    /\ At(c, "edge.to")
    /\ IF ~has_user(req[c].to) THEN Answer(c, map_err("unknown_user"))
       ELSE IF req[c].op = "unfollow" THEN Goto(c, "unfollow.delete")
       ELSE IF req[c].from = req[c].to THEN Answer(c, map_err("self_follow_forbidden"))
       ELSE Goto(c, "follow.put")
    /\ UNCHANGED <<store, user_ids, tweet_ids, clk, req, tmp>>

put_follow(c) ==
    /\ At(c, "follow.put")
    /\ IF has_user(req[c].from) /\ has_user(req[c].to)
       THEN /\ follows' = follows \cup {<<req[c].from, req[c].to>>}
            /\ Answer(c, NoContent)
       ELSE /\ Answer(c, map_err("unknown_user"))
            /\ UNCHANGED follows
    /\ UNCHANGED <<users, tweets, user_ids, tweet_ids, clk, req, tmp>>

delete_follow(c) ==
    /\ At(c, "unfollow.delete")
    /\ follows' = follows \ {<<req[c].from, req[c].to>>}
    /\ Answer(c, NoContent)
    /\ UNCHANGED <<users, tweets, user_ids, tweet_ids, clk, req, tmp>>

-----------------------------------------------------------------------------
(* POST /tick and GET /timeline *)

tick(c) ==
    /\ At(c, "tick.tick")
    /\ clk' = clk + 1
    /\ Goto(c, "tick.now")
    /\ UNCHANGED <<store, user_ids, tweet_ids, req, tmp>>

tick_now(c) ==
    /\ At(c, "tick.now")
    /\ Answer(c, ClockBody(clk))
    /\ UNCHANGED <<store, user_ids, tweet_ids, clk, req, tmp>>

PageLimit(r) == IF r.limit = Absent THEN DefaultLimit ELSE r.limit

timeline_has_user(c) ==
    LET r == req[c]
    IN  /\ At(c, "timeline.user")
        /\ IF ~has_user(r.user) THEN Answer(c, map_err("unknown_user"))
           ELSE IF PageLimit(r) \notin 1..MaxLimit THEN Answer(c, map_err("invalid_limit"))
           ELSE IF r.cursor # Absent /\ r.cursor < 1 THEN Answer(c, map_err("invalid_cursor"))
           ELSE Goto(c, "timeline.page")
        /\ UNCHANGED <<store, user_ids, tweet_ids, clk, req, tmp>>

\* The page, and the id of its last tweet when the scan was cut short.
home_timeline(c) ==
    LET r == req[c]
        got == HomeTimeline(tweets, follows, r.user, PageLimit(r),
                            IF r.cursor = Absent THEN 0 ELSE r.cursor)
    IN  /\ At(c, "timeline.page")
        /\ Answer(c, TimelineBody(got.page, IF got.more THEN Last(got.page).id ELSE Absent))
        /\ UNCHANGED <<store, user_ids, tweet_ids, clk, req, tmp>>

-----------------------------------------------------------------------------
(* Behaviours *)

Handler(c) ==
    \/ Reply(c)
    \/ create_has_user(c) \/ create_next_id(c) \/ put_user(c)
    \/ post_has_user(c) \/ post_next_id(c) \/ post_now(c) \/ put_tweet(c)
    \/ edge_has_from(c) \/ edge_has_to(c) \/ put_follow(c) \/ delete_follow(c)
    \/ tick(c) \/ tick_now(c)
    \/ timeline_has_user(c) \/ home_timeline(c)

Next == \E c \in Clients : Handler(c) \/ \E r \in Requests : Call(c, r)

Spec == Init /\ [][Next]_vars

-----------------------------------------------------------------------------
(* Properties of the states *)

CreateLabels == {"create.has", "create.next", "create.put"}
PostLabels == {"post.has", "post.next", "post.now", "post.put"}
EdgeLabels == {"edge.from", "edge.to", "follow.put", "unfollow.delete"}
TickLabels == {"tick.tick", "tick.now"}
TimelineLabels == {"timeline.user", "timeline.page"}
Labels == CreateLabels \cup PostLabels \cup EdgeLabels \cup TickLabels
            \cup TimelineLabels \cup {"idle", "reply"}

RunsItsRoute(c) ==
    /\ pc[c] \in CreateLabels => req[c].op = "create" /\ req[c].handle \in Handles
    /\ pc[c] \in PostLabels =>
          req[c].op = "post" /\ req[c].author \in Handles /\ req[c].text \in Texts
    /\ pc[c] \in EdgeLabels => req[c].op \in {"follow", "unfollow"}
    /\ pc[c] = "follow.put" => req[c].op = "follow" /\ req[c].from # req[c].to
    /\ pc[c] = "unfollow.delete" => req[c].op = "unfollow"
    /\ pc[c] \in TickLabels => req[c].op = "tick"
    /\ pc[c] \in TimelineLabels => req[c].op = "timeline" /\ req[c].user \in Handles

(* Types.  Among them: no edge of the store names a handle that fails the  *)
(* syntax check, although Service::unfollow (lib.rs:163-169) lets one in.  *)
TypeOK ==
    /\ users \in [Handles -> Nat]
    /\ follows \subseteq Edge
    /\ tweets \in Seq(Tweet)
    /\ user_ids \in Nat
    /\ tweet_ids \in Nat
    /\ clk \in Nat
    /\ pc \in [Clients -> Labels]
    /\ req \in [Clients -> Requests \cup {NoRequest}]
    /\ tmp \in [Clients -> [id : Nat, createdAt : Nat]]
    /\ DOMAIN resp = Clients
    /\ \A c \in Clients :
          /\ RunsItsRoute(c)
          /\ pc[c] = "reply" <=> resp[c].status # 0

Accepted(c) == resp[c].status = 201

(* N concurrent accepted writes leave N distinct durable records (the      *)
(* oracle of finding F018): a 201 names a record of the store with all its *)
(* fields, and two 201s never name the same record or the same handle.     *)
AcceptedWritesAreDurable ==
    \A c \in Clients : Accepted(c) =>
        /\ IF req[c].op = "create"
           THEN resp[c].handle = req[c].handle /\ users[resp[c].handle] = resp[c].id
           ELSE resp[c].tweet \in Range(tweets)
        /\ \A d \in Clients \ {c} :
              (Accepted(d) /\ req[d].op = req[c].op) =>
                 IF req[c].op = "create"
                 THEN resp[d].handle # resp[c].handle /\ resp[d].id # resp[c].id
                 ELSE resp[d].tweet.id # resp[c].tweet.id

(* A post is refused with 500 only when another one overtook it: the log   *)
(* then holds a tweet with a later id or a later stamp (store/lib.rs:254). *)
(* A post that runs alone is never refused, whatever ran before it.        *)
OnlyOvertakenPostsFail ==
    \A c \in Clients : resp[c].status = 500 =>
        \E t \in Range(tweets) : t.id > tmp[c].id \/ t.createdAt > tmp[c].createdAt

-----------------------------------------------------------------------------
(* The inductive invariant behind them *)

\* F2's basis: the append order is the order of ids and of stamps.
LogIsMonotone == IsMonotoneLog(tweets)

IdLabels == {"post.now", "post.put"}

\* Ids drawn and ids stored are all different and none is ahead of the
\* generator; the same for the stamps and the clock.
IdsAreIssued ==
    /\ \A i \in DOMAIN tweets : tweets[i].id \in 1..tweet_ids
    /\ \A c \in Clients : pc[c] \in IdLabels =>
          /\ tmp[c].id \in 1..tweet_ids
          /\ \A i \in DOMAIN tweets : tweets[i].id # tmp[c].id
          /\ \A d \in Clients \ {c} : pc[d] \in IdLabels => tmp[d].id # tmp[c].id

StampsAreRead ==
    /\ \A i \in DOMAIN tweets : tweets[i].createdAt <= clk
    /\ \A c \in Clients : pc[c] = "post.put" => tmp[c].createdAt <= clk

\* User ids may have gaps, never duplicates.
UserIdsAreUnique ==
    /\ \A h \in Handles : users[h] <= user_ids
    /\ \A g, h \in Handles : has_user(g) /\ users[g] = users[h] => g = h
    /\ \A c \in Clients : pc[c] = "create.put" =>
          /\ tmp[c].id \in 1..user_ids
          /\ \A h \in Handles : users[h] # tmp[c].id
          /\ \A d \in Clients \ {c} : pc[d] = "create.put" => tmp[d].id # tmp[c].id

\* Existence checked earlier still holds.
ChecksStillHold(c) ==
    /\ pc[c] \in {"post.next"} \cup IdLabels => has_user(req[c].author)
    /\ pc[c] \in {"edge.to", "follow.put", "unfollow.delete"} => has_user(req[c].from)
    /\ pc[c] \in {"follow.put", "unfollow.delete"} => has_user(req[c].to)

IndInv ==
    /\ TypeOK
    /\ LogIsMonotone
    /\ IdsAreIssued
    /\ StampsAreRead
    /\ UserIdsAreUnique
    /\ \A c \in Clients : ChecksStillHold(c)
=============================================================================
