--------------------------- MODULE JvmRefinement ---------------------------
(***************************************************************************)
(* What a client of the Java or the Kotlin corner may rely on, whatever it *)
(* pipelines and wherever it breaks off: the answers of S_obs, in turn, to *)
(* exactly the requests it sent whole.                                     *)
(***************************************************************************)
EXTENDS JvmServer

Oracle == INSTANCE SObs

SObsState(s) ==
    [users |-> s.users, follows |-> s.follows, tweets |-> s.log, clock |-> s.clock,
     nextUserID |-> s.nextUserId, nextTweetID |-> s.nextTweetId]

(* The corner is S_obs (spec/s_obs/step.go Step) with each request one     *)
(* atomic step: routing a request moves the store as Step does and draws   *)
(* Step's answer, on whichever connection it arrives, and nothing else     *)
(* moves the store (Service.java: every method is synchronized).           *)
AnswersLikeSObs ==
    [][/\ \A c \in Clients : handled'[c] # handled[c] =>
             LET last == Last(handled'[c])
             IN  <<last.resp, SObsState(st')>> = Oracle!Step(SObsState(st), last.req)
       /\ st' # st => \E c \in Clients : handled'[c] # handled[c]]_vars

Requested(c) == [i \in DOMAIN handled[c] |-> handled[c][i].req]
Responses(c) == [i \in DOMAIN handled[c] |-> handled[c][i].resp]

(* The framing never slips (Http.exchange, readChunked, readExactly): what *)
(* a connection routes is what its client sent whole, in order, up to the  *)
(* first message it cannot frame and no further than one that ends the     *)
(* connection.  A message cut short by a hang-up is never routed, and no   *)
(* stray newline, body or trailer is ever taken for a request.             *)
RoutesWhatWasSent ==
    \A c \in Clients :
        /\ IsPrefix(Requested(c), [i \in DOMAIN sent[c] |-> sent[c][i].req])
        /\ \A i \in DOMAIN handled[c] :
              /\ ~IllFormed(sent[c][i])
              /\ i < Len(handled[c]) => ~Closing(sent[c][i])

(* Answers carry no id, so a client matches them to its requests by order  *)
(* alone: they are written in the order of the requests, one behind at     *)
(* most, and the 400 for a message that cannot be framed is the last.      *)
AnsweredInTurn ==
    \A c \in Clients :
        \/ answers[c] = Responses(c)
        \/ At(c, "reply") /\ answers[c] = Front(Responses(c))
        \/ At(c, "closed") /\ \/ answers[c] = Front(Responses(c)) /\ client[c] = "gone"
                              \/ answers[c] = Append(Responses(c),
                                                 ErrorBody(400, "malformed_request"))

(* A connection is closed only when its client hung up, asked for it, sent *)
(* a message that cannot be framed, or was silent too long with nothing    *)
(* left to answer: a well-formed message is never the reason, and none is  *)
(* ever waited for once it is there (Http.exchange's return values).       *)
ClosedForAReason ==
    \A c \in Clients : At(c, "closed") =>
        \/ client[c] = "gone"
        \/ expired[c] /\ Len(handled[c]) = Len(sent[c])
        \/ handled[c] # << >> /\ Closing(sent[c][Len(handled[c])])
        \/ Len(sent[c]) > Len(handled[c]) /\ IllFormed(sent[c][Len(handled[c]) + 1])

(* Every message sent whole is answered in the end, or the connection is   *)
(* closed (Http.connection's loop): nothing pipelined is left unread.      *)
EveryRequestAnswered ==
    \A c \in Clients : \A i \in 1..MaxSent :
        Len(sent[c]) >= i ~> (Len(answers[c]) >= i \/ At(c, "closed"))

(* A client that stops, wherever it stops, does not keep its thread: the   *)
(* connection ends (Http.connection's try and its socket timeout).         *)
ThreadsComeBack ==
    \A c \in Clients : client[c] # "sending" ~> At(c, "closed")
=============================================================================
