------------------------------ MODULE Corners ------------------------------
(***************************************************************************)
(* The servers the conformance rungs are pointed at: the Go corner as S_obs *)
(* has it, and the eighteen defects of the mutation catalogue that are      *)
(* applied to it (tools/cmd/mutate/mutants.json, entries with impl "go").   *)
(* CornerStep(m, s, r) is what the corner with defect m answers to r in     *)
(* state s, and the state it moves to.                                      *)
(***************************************************************************)
EXTENDS SObs

Conforming == "none"

Defects == {
    "id-first-is-two", "id-burned-on-reject",
    "self-follow-guard-dropped", "follow-precedence-flipped",
    "timeline-scan-reversed", "timeline-tiebreak-by-id-asc",
    "follow-toggles", "unfollow-rejects-missing-edge", "orphan-author-accepted",
    "created-at-frozen", "tick-advances-by-two", "tick-goes-backwards",
    "next-cursor-always-emitted", "next-cursor-is-first-id",
    "cursor-inclusive", "limit-off-by-one",
    "unknown-json-fields-accepted", "repeated-query-param-accepted"}

-----------------------------------------------------------------------------
(* A request that only a lenient parser understands: S_obs rejects it as    *)
(* malformed, a corner that tolerates its flaw serves it as request r.      *)
Sloppy(flaw, r) == [op |-> "malformed", flaw |-> flaw, as |-> r]

Tolerated(m) ==
    CASE m = "unknown-json-fields-accepted" -> "field"
      [] m = "repeated-query-param-accepted" -> "repeat"
      [] OTHER -> "none"

Understood(m, r) ==
    IF "flaw" \in DOMAIN r /\ r.flaw = Tolerated(m) THEN r.as ELSE r

-----------------------------------------------------------------------------
CornerInit(m) ==
    IF m = "id-first-is-two"
    THEN [InitState EXCEPT !.nextUserID = 2, !.nextTweetID = 2]
    ELSE InitState

CornerCreate(m, s, r) ==
    IF m = "id-burned-on-reject" THEN StepCreateUserBurningID(s, r)
    ELSE StepCreateUser(s, r)

\* Fault: following twice unfollows, whatever the corner.
CornerFollowToggling(m, s, r) ==
    IF ValidHandle(r.from) /\ ValidHandle(r.to) /\ <<r.from, r.to>> \in s.follows
    THEN << NoContent, [s EXCEPT !.follows = @ \ {<<r.from, r.to>>}] >>
    ELSE StepFollow(s, r)

CornerFollow(m, s, r) ==
    LET edge == <<r.from, r.to>>
        valid == ValidHandle(r.from) /\ ValidHandle(r.to)
        known == valid /\ Registered(s, r.from) /\ Registered(s, r.to)
    IN  CASE m = "self-follow-guard-dropped" /\ known ->
               << NoContent, [s EXCEPT !.follows = @ \cup {edge}] >>
          [] m = "follow-precedence-flipped" /\ valid /\ r.from = r.to ->
               Reject(s, "self_follow_forbidden")
          [] m = "follow-toggles" /\ edge \in s.follows ->
               << NoContent, [s EXCEPT !.follows = @ \ {edge}] >>
          [] OTHER -> StepFollow(s, r)

CornerUnfollow(m, s, r) ==
    IF m = "unfollow-rejects-missing-edge" /\ <<r.from, r.to>> \notin s.follows
       /\ ValidHandle(r.from) /\ ValidHandle(r.to)
    THEN Reject(s, "unknown_user")
    ELSE StepUnfollow(s, r)

(* The store refuses a tweet stamped before the last one (PutTweet), which  *)
(* only a clock that runs backwards can bring about; its id stays taken.    *)
CornerPost(m, s, r) ==
    LET t == [id |-> s.nextTweetID, author |-> r.author, text |-> r.text,
              createdAt |-> IF m = "created-at-frozen" THEN 0 ELSE s.clock]
        spent == [s EXCEPT !.nextTweetID = @ + 1]
    IN  IF ~ValidHandle(r.author) THEN Reject(s, "invalid_handle")
        ELSE IF ~ValidText(r.text) THEN Reject(s, "invalid_text")
        ELSE IF ~Registered(s, r.author) /\ m # "orphan-author-accepted"
             THEN Reject(s, "unknown_user")
        ELSE IF s.tweets # << >> /\ t.createdAt < Last(s.tweets).createdAt
             THEN << ErrorBody(500, "internal_error"), spent >>
        ELSE << TweetBody(t), [spent EXCEPT !.tweets = Append(@, t)] >>

CornerTick(m, s) ==
    LET now == s.clock + (CASE m = "tick-advances-by-two" -> 2
                            [] m = "tick-goes-backwards" -> -1
                            [] OTHER -> 1)
    IN  << ClockBody(now), [s EXCEPT !.clock = now] >>

CornerTimeline(m, s, r) ==
    LET limit == IF r.limit = Absent THEN DefaultLimit ELSE r.limit
        width == IF m = "limit-off-by-one" THEN limit + 1 ELSE limit
        below(t) == CASE r.cursor = Absent -> TRUE
                      [] m = "cursor-inclusive" -> t.id <= r.cursor
                      [] OTHER -> t.id < r.cursor
        scan == IF m = "timeline-scan-reversed" THEN s.tweets ELSE Reverse(s.tweets)
        visible == Kept(scan, {i \in DOMAIN scan :
                       /\ below(scan[i])
                       /\ scan[i].author = r.user \/ <<r.user, scan[i].author>> \in s.follows})
        more == Len(visible) > width
        head == IF more THEN SubSeq(visible, 1, width) ELSE visible
        page == IF m = "timeline-tiebreak-by-id-asc" THEN Reverse(head) ELSE head
        next == IF page = << >> \/ ~(more \/ m = "next-cursor-always-emitted")
                THEN Absent
                ELSE IF m = "next-cursor-is-first-id" THEN page[1].id
                ELSE Last(page).id
        checked == StepTimeline(s, r)[1]
    IN  << IF checked.status = 200 THEN TimelineBody(page, next) ELSE checked, s >>

CornerStep(m, s, sent) ==
    LET r == Understood(m, sent)
    IN  CASE r.op = "create" -> CornerCreate(m, s, r)
          [] r.op = "follow" -> CornerFollow(m, s, r)
          [] r.op = "unfollow" -> CornerUnfollow(m, s, r)
          [] r.op = "post" -> CornerPost(m, s, r)
          [] r.op = "tick" -> CornerTick(m, s)
          [] r.op = "timeline" -> CornerTimeline(m, s, r)
          [] OTHER -> Step(s, r)

-----------------------------------------------------------------------------
(* A server process of the harness: the corner it was built from, its state *)
(* and whether it still answers.                                            *)
Server(m) == [corner |-> m, st |-> CornerInit(m), up |-> TRUE]

NoAnswer == [status |-> -1]

Call(srv, r) ==
    IF ~srv.up THEN << NoAnswer, srv >>
    ELSE LET a == CornerStep(srv.corner, srv.st, r)
         IN  << a[1], [srv EXCEPT !.st = a[2]] >>

\* The server after a sequence of requests
After(srv, rs) == FoldLeft(LAMBDA x, r : Call(x, r)[2], srv, rs)
=============================================================================
