--------------------------- MODULE RustRefinement ---------------------------
(***************************************************************************)
(* What the Rust corner keeps of S_obs and of the design model when        *)
(* requests run concurrently, and what it gives up.                        *)
(***************************************************************************)
EXTENDS RustService

Oracle == INSTANCE SObs

\* S_obs on the store as it is, with the id and the stamp the request drew:
\* the order of ids, not of appends, is what the corner gives up.
SObsStateFor(c) ==
    [users |-> users, follows |-> follows, tweets |-> tweets,
     clock |-> IF At(c, "post.put") THEN tmp[c].createdAt ELSE clk,
     nextUserID |-> tmp[c].id, nextTweetID |-> tmp[c].id]

Submitted(c) == IF At(c, "idle") THEN req'[c] ELSE req[c]

Decides(c) == resp[c] = NoReply /\ resp'[c] # NoReply

BadUnfollow(r) == r.op = "unfollow" /\ ~({r.from, r.to} \subseteq Handles)

\* The answers S_obs would not have given: a post refused by the guard of the
\* log, and an unfollow of a badly formed handle refused as unknown.
Departs(c) == \/ resp'[c].status = 500
              \/ BadUnfollow(Submitted(c)) /\ resp'[c] = ErrorBody(400, "unknown_user")

AnswersLikeSObs(c) ==
    LET answered == Oracle!Step(SObsStateFor(c), Submitted(c))
    IN  /\ resp'[c] = answered[1]
        /\ store' = <<answered[2].users, answered[2].follows, answered[2].tweets>>

(* Linearizability up to ids (spec/s_obs/step.go): each answer is the one  *)
(* S_obs gives on the store at the step that decides it, with the id and   *)
(* the stamp that request drew, and the store changes at no other step.    *)
(* The answers S_obs would not give change nothing.  A tick changes no     *)
(* part of the store, and its answer is read after its effect: left out.   *)
LinearizableUpToIds ==
    [][/\ \A c \in Clients : (Decides(c) /\ Submitted(c).op # "tick") =>
             IF Departs(c) THEN UNCHANGED store ELSE AnswersLikeSObs(c)
       /\ UNCHANGED store \/ \E c \in Clients : Decides(c)]_vars

(* Every move of the store is one the design model (spec/tla/twitter.tla)  *)
(* allows, once tweets are numbered by their place in the log: gaps in the *)
(* ids are all that remains of the race, no order and no visibility.       *)
Design == INSTANCE Twitter WITH
    Users <- Handles,
    knownUsers <- {h \in Handles : has_user(h)},
    tweets <- [i \in DOMAIN tweets |->
                 [id |-> i - 1, author |-> tweets[i].author, ts |-> tweets[i].createdAt]],
    clock <- clk,
    nextTweetId <- Len(tweets)

ImplementsDesign == Design!LooseSpec

-----------------------------------------------------------------------------
(* Two claims of the sources that the Rust corner does not keep *)

(* "No accepted write may be reported as a server error" (ASSURANCE.md:34; *)
(* finding F018 says FIXED, and the fix is in the Go corner only): a post  *)
(* whose author exists and whose text is valid is not answered 500.        *)
NoServerError == \A c \in Clients : resp[c].status # 500
=============================================================================
