----------------------------- MODULE JvmService -----------------------------
(***************************************************************************)
(* The core of the Java and Kotlin corners (service/Service, store/Store): *)
(* every method of Service is synchronized, so one call is one step and    *)
(* each operator here is a whole method, from the store it finds to the    *)
(* pair <<answer, store it leaves>>.  The two corners are line by line the *)
(* same program.                                                           *)
(***************************************************************************)
EXTENDS Api, MemStore

Store == [users : [Handles -> Nat], follows : SUBSET Edge, log : Seq(Tweet),
          nextUserId : Nat, nextTweetId : Nat, clock : Nat]

EmptyStore == [users |-> [h \in Handles |-> 0], follows |-> {}, log |-> << >>,
               nextUserId |-> 1, nextTweetId |-> 1, clock |-> 0]

hasUser(s, h) == s.users[h] # 0

\* Server.error: 409 for a taken handle, 400 for the rest of the vocabulary.
error(s, code) == << ErrorBody(IF code = "handle_taken" THEN 409 ELSE 400, code), s >>

\* Fault: the id is drawn before the handle is looked up.
createUserBurning(s, h) ==
    IF h \notin Handles THEN error(s, "invalid_handle")
    ELSE IF hasUser(s, h) THEN error([s EXCEPT !.nextUserId = @ + 1], "handle_taken")
    ELSE << UserBody(h, s.nextUserId),
            [s EXCEPT !.users = [@ EXCEPT ![h] = s.nextUserId], !.nextUserId = @ + 1] >>

createUser(s, h) ==
    IF h \notin Handles THEN error(s, "invalid_handle")
    ELSE IF hasUser(s, h) THEN error(s, "handle_taken")
    ELSE << UserBody(h, s.nextUserId),
            [s EXCEPT !.users = [@ EXCEPT ![h] = s.nextUserId], !.nextUserId = @ + 1] >>

\* What follow and unfollow reject before they look at the edge.
edgeError(s, from, to) ==
    IF from \notin Handles \/ to \notin Handles THEN "invalid_handle"
    ELSE IF ~hasUser(s, from) \/ ~hasUser(s, to) THEN "unknown_user"
    ELSE ""

follow(s, from, to) ==
    IF edgeError(s, from, to) # "" THEN error(s, edgeError(s, from, to))
    ELSE IF from = to THEN error(s, "self_follow_forbidden")
    ELSE << NoContent, [s EXCEPT !.follows = @ \cup {<<from, to>>}] >>

unfollow(s, from, to) ==
    IF edgeError(s, from, to) # "" THEN error(s, edgeError(s, from, to))
    ELSE << NoContent, [s EXCEPT !.follows = @ \ {<<from, to>>}] >>

\* The guard throws, and Server.route turns the exception into a 500.
appendTweet(s, author, text) ==
    LET t == [id |-> s.nextTweetId, author |-> author, text |-> text, createdAt |-> s.clock]
    IN  IF AcceptsTweet(s.log, t)
        THEN << TweetBody(t), [s EXCEPT !.log = Append(@, t), !.nextTweetId = @ + 1] >>
        ELSE << ErrorBody(500, "internal_error"), s >>

postTweet(s, author, text) ==
    IF author \notin Handles THEN error(s, "invalid_handle")
    ELSE IF text \notin Texts THEN error(s, "invalid_text")
    ELSE IF ~hasUser(s, author) THEN error(s, "unknown_user")
    ELSE appendTweet(s, author, text)

tick(s) == << ClockBody(s.clock + 1), [s EXCEPT !.clock = @ + 1] >>

\* What the scan of the log from its end may put on the page.
Shown(s, user, cursor) ==
    LET newest == Reverse(s.log)
    IN  {i \in DOMAIN newest :
            /\ cursor # Absent => newest[i].id < cursor
            /\ newest[i].author = user \/ <<user, newest[i].author>> \in s.follows}

\* Fault: the cursor is set as soon as the page is full.
timelinePageAtLimit(s, user, limit, cursor) ==
    LET got == ScanPage(Reverse(s.log), Shown(s, user, cursor), limit)
    IN  TimelineBody(got.page, IF Len(got.page) = limit THEN Last(got.page).id ELSE Absent)

\* The scan stops, and sets the cursor, at the first entry that no longer fits.
timelinePage(s, user, limit, cursor) ==
    LET got == ScanPage(Reverse(s.log), Shown(s, user, cursor), limit)
    IN  TimelineBody(got.page, IF got.more THEN Last(got.page).id ELSE Absent)

timeline(s, user, rawLimit, rawCursor) ==
    LET limit == IF rawLimit = Absent THEN DefaultLimit ELSE rawLimit
    IN  IF user \notin Handles THEN error(s, "invalid_handle")
        ELSE IF ~hasUser(s, user) THEN error(s, "unknown_user")
        ELSE IF limit \notin 1..MaxLimit THEN error(s, "invalid_limit")
        ELSE IF rawCursor # Absent /\ rawCursor < 1 THEN error(s, "invalid_cursor")
        ELSE << timelinePage(s, user, limit, rawCursor), s >>

\* Server.route: the decoded request picks the one service call.
route(s, r) ==
    CASE r.op = "create" -> createUser(s, r.handle)
      [] r.op = "follow" -> follow(s, r.from, r.to)
      [] r.op = "unfollow" -> unfollow(s, r.from, r.to)
      [] r.op = "post" -> postTweet(s, r.author, r.text)
      [] r.op = "tick" -> tick(s)
      [] r.op = "timeline" -> timeline(s, r.user, r.limit, r.cursor)
      [] r.op = "malformed" -> error(s, "malformed_request")
      [] r.op = "unrouted" -> << ErrorBody(404, "not_found"), s >>
=============================================================================
