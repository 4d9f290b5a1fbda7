---------------------------- MODULE GoRefinement ----------------------------
(***************************************************************************)
(* What the Go corner promises under concurrency: its answers are the ones *)
(* the reference machine S_obs gives when the requests are run one at a    *)
(* time, in the order in which their answers are decided; and its store    *)
(* moves as the design model allows.                                       *)
(***************************************************************************)
EXTENDS GoService

Oracle == INSTANCE SObs

NumRegistered == Cardinality({h \in Handles : HasUser(h)})

\* The state of S_obs a store stands for.  The counters are those of the
\* records, not of the generators: an id that is taken but not yet stored is
\* not observable.
SObsState == [users |-> users, follows |-> follows, tweets |-> tweets, clock |-> clk,
              nextUserID |-> NumRegistered + 1, nextTweetID |-> Len(tweets) + 1]

\* A post is run on the clock it was stamped with.
SObsStateFor(c) ==
    IF At(c, "post.put") THEN [SObsState EXCEPT !.clock = tmp[c].createdAt]
    ELSE SObsState

\* The request c is running, or has just submitted.
Submitted(c) == IF At(c, "idle") THEN req'[c] ELSE req[c]

Decides(c) == resp[c] = NoReply /\ resp'[c] # NoReply

\* Only POST /tick answers from a read it makes after its effect.
AnswersLikeSObs(c) ==
    LET answered == Oracle!Step(SObsStateFor(c), Submitted(c))
    IN  /\ resp'[c] = answered[1]
        /\ SObsState' = [answered[2] EXCEPT !.clock = clk]

(* Linearizability to S_obs (spec/s_obs/step.go): each answer, a tick's    *)
(* apart, is the one S_obs gives on the store at the step that decides it, *)
(* and that step is the only one at which the store changes.               *)
Linearizable ==
    [][/\ \A c \in Clients : (Decides(c) /\ Submitted(c).op # "tick") => AnswersLikeSObs(c)
       /\ UNCHANGED store \/ \E c \in Clients : Decides(c)]_vars

(* The Go corner implements the design model (spec/tla/twitter.tla) with   *)
(* the stamp of a post left free between its predecessor's and the clock's.*)
Design == INSTANCE Twitter WITH
    Users <- Handles,
    knownUsers <- {h \in Handles : HasUser(h)},
    tweets <- [i \in DOMAIN tweets |->
                 [id |-> tweets[i].id - 1, author |-> tweets[i].author,
                  ts |-> tweets[i].createdAt]],
    clock <- clk,
    nextTweetId <- Len(tweets)

ImplementsDesign == Design!LooseSpec

(* Every request is answered: wmu is released on every way out of the      *)
(* service, so no handler waits for ever.                                  *)
EveryRequestAnswered ==
    \A c \in Clients : pc[c] # "idle" ~> pc[c] = "idle"

-----------------------------------------------------------------------------
(* The inductive invariant behind Linearizable, beside IndInv *)

\* The user ids drawn are those of the records and the one in hand.
UserIdsAreDense ==
    /\ IsFiniteSet({h \in Handles : HasUser(h)})
    /\ (\A c \in Clients : pc[c] # "create.put") => idsUsr = NumRegistered + 1
    /\ \A c \in Clients : pc[c] = "create.put" =>
          tmp[c].id = NumRegistered + 1 /\ idsUsr = NumRegistered + 2

\* A handle found free is still free when its user is stored.
HandleIsFree(c) == pc[c] \in {"create.next", "create.put"} => ~HasUser(req[c].handle)

\* What was checked of a page before it is read.
PageIsReadable(c) ==
    pc[c] = "timeline.page" => /\ HasUser(req[c].user)
                               /\ PageLimit(req[c]) \in 1..MaxLimit
                               /\ req[c].cursor = Absent \/ req[c].cursor >= 1

NotAnswered(c) == pc[c] \notin {"unlock", "reply"} => resp[c] = NoReply

(* No user id is skipped: under wmu a handle found free is still free when *)
(* its user is stored, so no id drawn is thrown away (service.go:155-171,  *)
(* F018); and what a timeline request was let through for still holds when *)
(* its page is read (shim.go:375-399).                                     *)
AnswersAreDue ==
    /\ UserIdsAreDense
    /\ \A c \in Clients : HandleIsFree(c) /\ PageIsReadable(c) /\ NotAnswered(c)
=============================================================================
