-------------------------------- MODULE SObs --------------------------------
(***************************************************************************)
(* S_obs, the deterministic and total reference machine of the matrix      *)
(* (spec/s_obs/step.go): Step(s, r) is the pair <<response, next state>>.  *)
(* It is the oracle the implementations are compared with.  The order of   *)
(* the tests in every operator is the validation order the contract pins   *)
(* (D4, D6): syntax, then existence, then semantics.                       *)
(***************************************************************************)
EXTENDS Api, Pages, SequencesExt

-----------------------------------------------------------------------------
(* State.  userByHandle is a total function: 0 is "not registered", which   *)
(* no user id can be since ids are allocated from 1.                        *)

State == [users : [Handles -> Nat],
          follows : SUBSET Edge,
          tweets : Seq(Tweet),
          clock : Nat,
          nextUserID : Nat,
          nextTweetID : Nat]

InitState == [users |-> [h \in Handles |-> 0],
              follows |-> {},
              tweets |-> << >>,
              clock |-> 0,
              nextUserID |-> 1,
              nextTweetID |-> 1]

ValidHandle(h) == h \in Handles
ValidText(t) == t \in Texts
Registered(s, h) == s.users[h] # 0

Reject(s, code) ==
    << ErrorBody(IF code = "handle_taken" THEN 409 ELSE 400, code), s >>

-----------------------------------------------------------------------------
(* One operator per route *)

\* Fault: the id is allocated before the handle is looked up.
StepCreateUserBurningID(s, r) ==
    IF ~ValidHandle(r.handle) THEN Reject(s, "invalid_handle")
    ELSE IF Registered(s, r.handle)
         THEN Reject([s EXCEPT !.nextUserID = @ + 1], "handle_taken")
    ELSE << UserBody(r.handle, s.nextUserID),
            [s EXCEPT !.users = [@ EXCEPT ![r.handle] = s.nextUserID],
                      !.nextUserID = @ + 1] >>

StepCreateUser(s, r) ==
    IF ~ValidHandle(r.handle) THEN Reject(s, "invalid_handle")
    ELSE IF Registered(s, r.handle) THEN Reject(s, "handle_taken")
    ELSE << UserBody(r.handle, s.nextUserID),
            [s EXCEPT !.users = [@ EXCEPT ![r.handle] = s.nextUserID],
                      !.nextUserID = @ + 1] >>

\* Fault: only the follower's existence is checked.
StepFollowAnyone(s, r) ==
    IF ~ValidHandle(r.from) \/ ~ValidHandle(r.to) THEN Reject(s, "invalid_handle")
    ELSE IF ~Registered(s, r.from) THEN Reject(s, "unknown_user")
    ELSE IF r.from = r.to THEN Reject(s, "self_follow_forbidden")
    ELSE << NoContent, [s EXCEPT !.follows = @ \cup {<<r.from, r.to>>}] >>

StepFollow(s, r) ==
    IF ~ValidHandle(r.from) \/ ~ValidHandle(r.to) THEN Reject(s, "invalid_handle")
    ELSE IF ~Registered(s, r.from) \/ ~Registered(s, r.to) THEN Reject(s, "unknown_user")
    ELSE IF r.from = r.to THEN Reject(s, "self_follow_forbidden")
    ELSE << NoContent, [s EXCEPT !.follows = @ \cup {<<r.from, r.to>>}] >>

\* Fault: the edge is removed in both directions.
StepUnfollowMutual(s, r) ==
    IF ~ValidHandle(r.from) \/ ~ValidHandle(r.to) THEN Reject(s, "invalid_handle")
    ELSE IF ~Registered(s, r.from) \/ ~Registered(s, r.to) THEN Reject(s, "unknown_user")
    ELSE << NoContent, [s EXCEPT !.follows = @ \ {<<r.from, r.to>>, <<r.to, r.from>>}] >>

StepUnfollow(s, r) ==
    IF ~ValidHandle(r.from) \/ ~ValidHandle(r.to) THEN Reject(s, "invalid_handle")
    ELSE IF ~Registered(s, r.from) \/ ~Registered(s, r.to) THEN Reject(s, "unknown_user")
    ELSE << NoContent, [s EXCEPT !.follows = @ \ {<<r.from, r.to>>}] >>

\* Fault: existence is tested in place of the text check.
StepPostTweetAnyText(s, r) ==
    IF ~ValidHandle(r.author) THEN Reject(s, "invalid_handle")
    ELSE IF ~Registered(s, r.author) THEN Reject(s, "unknown_user")
    ELSE LET t == [id |-> s.nextTweetID, author |-> r.author,
                   text |-> r.text, createdAt |-> s.clock]
         IN  << TweetBody(t),
                [s EXCEPT !.tweets = Append(@, t), !.nextTweetID = @ + 1] >>

\* Fault: each post also advances the clock it is stamped with.
StepPostTweetTicking(s, r) ==
    IF ~ValidHandle(r.author) THEN Reject(s, "invalid_handle")
    ELSE IF ~ValidText(r.text) THEN Reject(s, "invalid_text")
    ELSE IF ~Registered(s, r.author) THEN Reject(s, "unknown_user")
    ELSE LET t == [id |-> s.nextTweetID, author |-> r.author,
                   text |-> r.text, createdAt |-> s.clock + 1]
         IN  << TweetBody(t),
                [s EXCEPT !.tweets = Append(@, t), !.nextTweetID = @ + 1] >>

StepPostTweet(s, r) ==
    IF ~ValidHandle(r.author) THEN Reject(s, "invalid_handle")
    ELSE IF ~ValidText(r.text) THEN Reject(s, "invalid_text")
    ELSE IF ~Registered(s, r.author) THEN Reject(s, "unknown_user")
    ELSE LET t == [id |-> s.nextTweetID, author |-> r.author,
                   text |-> r.text, createdAt |-> s.clock]
         IN  << TweetBody(t),
                [s EXCEPT !.tweets = Append(@, t), !.nextTweetID = @ + 1] >>

StepTick(s) == << ClockBody(s.clock + 1), [s EXCEPT !.clock = @ + 1] >>

\* Fault: the cursor is inclusive.
VisibleFrom(s, u, cursor) ==
    LET newest == Reverse(s.tweets)
    IN  Kept(newest, {i \in DOMAIN newest :
                        /\ cursor # Absent => newest[i].id <= cursor
                        /\ newest[i].author = u \/ <<u, newest[i].author>> \in s.follows})

\* The reverse scan of the append-ordered log: everything user u may see below
\* the exclusive cursor, newest first.
VisibleBelow(s, u, cursor) ==
    LET newest == Reverse(s.tweets)
    IN  Kept(newest, {i \in DOMAIN newest :
                        /\ cursor # Absent => newest[i].id < cursor
                        /\ newest[i].author = u \/ <<u, newest[i].author>> \in s.follows})

\* The page is cut at limit; next_cursor is the id of its last tweet exactly
\* when a further visible tweet exists below it (D10).
PageBody(visible, limit) ==
    LET page == SubSeq(visible, 1, IF Len(visible) < limit THEN Len(visible) ELSE limit)
    IN  TimelineBody(page, IF Len(visible) > limit THEN Last(page).id ELSE Absent)

StepTimeline(s, r) ==
    LET limit == IF r.limit = Absent THEN DefaultLimit ELSE r.limit
    IN  IF ~ValidHandle(r.user) THEN Reject(s, "invalid_handle")
        ELSE IF ~Registered(s, r.user) THEN Reject(s, "unknown_user")
        ELSE IF limit \notin 1..MaxLimit THEN Reject(s, "invalid_limit")
        ELSE IF r.cursor # Absent /\ r.cursor < 1 THEN Reject(s, "invalid_cursor")
        ELSE << PageBody(VisibleBelow(s, r.user, r.cursor), limit), s >>

-----------------------------------------------------------------------------
(* The transition function: total over Request, deterministic *)

Step(s, r) ==
    CASE r.op = "create" -> StepCreateUser(s, r)
      [] r.op = "follow" -> StepFollow(s, r)
      [] r.op = "unfollow" -> StepUnfollow(s, r)
      [] r.op = "post" -> StepPostTweet(s, r)
      [] r.op = "tick" -> StepTick(s)
      [] r.op = "timeline" -> StepTimeline(s, r)
      [] r.op = "malformed" -> Reject(s, "malformed_request")
      [] r.op = "unrouted" -> << ErrorBody(404, "not_found"), s >>
=============================================================================
