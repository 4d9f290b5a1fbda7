------------------------------ MODULE Jvm_proofs ------------------------------
(***************************************************************************)
(* Proofs about the connections of the Java and Kotlin corners             *)
(* (JvmServer, JvmRefinement), for any number of connections and whatever  *)
(* their clients send, stop at or break off.                               *)
(*                                                                         *)
(* The store is always one that S_obs reaches, so the agreement of the     *)
(* core with S_obs (SObs_proofs) carries over to each routed request; and  *)
(* what a connection has written follows what it has routed, by where      *)
(* exchange() is.                                                          *)
(*                                                                         *)
(* The framing is followed for one connection, held as the record View(c). *)
(* What its reader has taken off the wire is a beginning of what its       *)
(* client has put there, and Framed says where in the stream of messages   *)
(* the reader stands: the messages behind it are those it has routed, and  *)
(* it stands so many tokens into the next one, at the place of exchange()  *)
(* where so many tokens leave it.  Every step of the server, and every way *)
(* a client may send, stop or break off, keeps Framed; that what is routed *)
(* is what was sent, and that a connection is closed only for a reason,    *)
(* both follow.                                                            *)
(***************************************************************************)
EXTENDS JvmRefinement, TLAPS

\* What is proved of the core against S_obs, at the store of the server.
Core == INSTANCE SObs_proofs WITH
    st <- SObsState(st), last <- [req |-> [op |-> "none"], resp |-> NoAnswer],
    Requests <- Request, MaxTweets <- 0, MaxClock <- 0

-----------------------------------------------------------------------------
(* The vocabulary of SObs_proofs is this one *)

LEMMA CoreTweet == Core!Tweet = Tweet /\ Core!Edge = Edge
BY DEF Core!Tweet, Tweet, Core!Edge, Edge

LEMMA CoreRequest == Core!Request = Request
BY DEF Core!Request, Core!AnyHandle, Core!CreateRequest, Core!EdgeRequest, Core!PostRequest,
       Core!TickRequest, Core!TimelineRequest, Core!OtherRequest,
       Request, AnyHandle, CreateRequest, EdgeRequest, PostRequest,
       TickRequest, TimelineRequest, OtherRequest

LEMMA CoreResponse == Core!Response = Response
BY CoreTweet DEF Core!Response, Response, Core!ErrorCode, ErrorCode

LEMMA CoreStep ==
    ASSUME NEW s, NEW r
    PROVE  Core!Step(s, r) = Oracle!Step(s, r)
BY DEF Core!Step, Core!StepCreateUser, Core!StepFollow, Core!StepUnfollow,
       Core!StepPostTweet, Core!StepTick, Core!StepTimeline, Core!Reject,
       Core!ErrorBody, Core!UserBody, Core!TweetBody, Core!NoContent, Core!ClockBody,
       Core!TimelineBody, Core!PageBody, Core!VisibleBelow, Core!ValidHandle,
       Core!ValidText, Core!Registered, Core!Kept, Core!Reverse, Core!Last,
       Oracle!Step, Oracle!StepCreateUser, Oracle!StepFollow, Oracle!StepUnfollow,
       Oracle!StepPostTweet, Oracle!StepTick, Oracle!StepTimeline, Oracle!Reject,
       Oracle!ErrorBody, Oracle!UserBody, Oracle!TweetBody, Oracle!NoContent,
       Oracle!ClockBody, Oracle!TimelineBody, Oracle!PageBody, Oracle!VisibleBelow,
       Oracle!ValidHandle, Oracle!ValidText, Oracle!Registered, Oracle!Kept,
       Oracle!Reverse, Oracle!Last

LEMMA CoreRoute ==
    ASSUME NEW s, NEW r
    PROVE  Core!Jvm!route(s, r) = route(s, r)
BY DEF Core!Jvm!route, Core!Jvm!createUser, Core!Jvm!follow, Core!Jvm!unfollow,
       Core!Jvm!postTweet, Core!Jvm!appendTweet, Core!Jvm!tick, Core!Jvm!timeline,
       Core!Jvm!timelinePage, Core!Jvm!Shown, Core!Jvm!edgeError, Core!Jvm!error,
       Core!Jvm!hasUser, Core!Jvm!ErrorBody, Core!Jvm!UserBody, Core!Jvm!TweetBody,
       Core!Jvm!NoContent, Core!Jvm!ClockBody, Core!Jvm!TimelineBody, Core!Jvm!ScanPage,
       Core!Jvm!Reverse, Core!Jvm!Last, Core!Jvm!AcceptsTweet,
       route, createUser, follow, unfollow, postTweet, appendTweet, tick, timeline,
       timelinePage, Shown, edgeError, error, hasUser, ErrorBody, UserBody, TweetBody,
       NoContent, ClockBody, TimelineBody, ScanPage, Reverse, Last, AcceptsTweet

LEMMA CoreAssumptions == Core!WireAssumption /\ Core!MachineAssumption
BY WireAssumption, CoreRequest DEF Core!WireAssumption, WireAssumption, Core!MachineAssumption

-----------------------------------------------------------------------------
(* The store is one that S_obs reaches *)

StoreOK == st \in Store /\ Core!HistoryIsSound /\ Core!IdsFromOne

LEMMA StoreIsState ==
    ASSUME st \in Store
    PROVE  SObsState(st) \in Core!State /\ Core!JvmStore(SObsState(st)) = st
BY CoreTweet DEF Store, SObsState, Core!State, Core!JvmStore

LEMMA StateIsStore ==
    ASSUME NEW s \in Core!State
    PROVE  Core!JvmStore(s) \in Store /\ SObsState(Core!JvmStore(s)) = s
BY CoreTweet DEF Store, SObsState, Core!State, Core!JvmStore

\* One call of the service is one step of S_obs.
LEMMA RouteIsStep ==
    ASSUME StoreOK, NEW r \in Request
    PROVE  /\ << route(st, r)[1], SObsState(route(st, r)[2]) >> = Oracle!Step(SObsState(st), r)
           /\ route(st, r)[1] \in Response
           /\ route(st, r)[2] \in Store
           /\ Core!Moves(SObsState(st), SObsState(route(st, r)[2]))
<1> DEFINE there == Core!Step(SObsState(st), r)
<1>1. SObsState(st) \in Core!State /\ Core!JvmStore(SObsState(st)) = st
  BY StoreIsState DEF StoreOK
<1>2. Core!Agree(Core!Jvm!route(Core!JvmStore(SObsState(st)), r), there)
  BY <1>1, CoreRequest, CoreAssumptions, Core!RouteAgrees DEF StoreOK, Core!HistoryIsSound
<1>3. route(st, r) = << there[1], Core!JvmStore(there[2]) >>
  BY <1>1, <1>2, CoreRoute DEF Core!Agree
<1>4. there[2] \in Core!State /\ Core!Moves(SObsState(st), there[2])
  BY <1>1, CoreRequest, CoreAssumptions, Core!StepMoves
<1>5. there[1] \in Response
  BY <1>1, CoreRequest, CoreResponse, CoreAssumptions, Core!AnswerType
<1>6. there = << there[1], there[2] >>
  BY <1>1, CoreRequest, CoreAssumptions, Core!StepIsPair
<1>7. SObsState(route(st, r)[2]) = there[2] /\ route(st, r)[2] \in Store
  BY <1>3, <1>4, StateIsStore
<1> QED BY <1>3, <1>4, <1>5, <1>6, <1>7, CoreStep

-----------------------------------------------------------------------------
(* The inductive invariant *)

HeaderName == {"close", "length", "badLength", "chunked", "other"}
RequestToken == [kind : {"request"}, req : Request, v11 : BOOLEAN]
Token == RequestToken \cup [kind : {"blank", "junk", "overlong", "body"}]
           \cup [kind : {"size"}, size : {0, 1}] \cup [kind : {"header"}, name : HeaderName]

Places == Reading \cup {"route", "reply", "closed"}
Exchanged == [req : Request, resp : Response]

Tables ==
    /\ DOMAIN wire = Clients /\ DOMAIN client = Clients /\ DOMAIN at = Clients
    /\ DOMAIN cur = Clients /\ DOMAIN handled = Clients /\ DOMAIN answers = Clients

\* The locals of exchange(): past the request line, it holds the request.
LocalsOK(c) ==
    /\ \E headers, n : cur[c] = [line |-> cur[c].line, headers |-> headers, n |-> n,
                                 resp |-> cur[c].resp]
    /\ ~At(c, "line") /\ ~At(c, "closed") => cur[c].line \in RequestToken

\* What is written follows what is routed, by where exchange() is.
InTurn(c) ==
    /\ at[c] \in Reading \cup {"route"} => answers[c] = Responses(c)
    /\ At(c, "reply") => /\ handled[c] # << >>
                         /\ cur[c].resp = Last(handled[c]).resp
                         /\ answers[c] = Front(Responses(c))
    /\ At(c, "closed") =>
          \/ answers[c] = Responses(c)
          \/ answers[c] = Front(Responses(c)) /\ client[c] = "gone"
          \/ answers[c] = Append(Responses(c), ErrorBody(400, "malformed_request"))

Conn(c) ==
    /\ wire[c] \in Seq(Token)
    /\ at[c] \in Places
    /\ handled[c] \in Seq(Exchanged)
    /\ answers[c] \in Seq(Response)
    /\ LocalsOK(c)
    /\ InTurn(c)

Inv == StoreOK /\ Tables /\ \A c \in Clients : Conn(c)

\* A step of connection c leaves the others alone.
OnlyOf(c) ==
    /\ Tables'
    /\ \A d \in Clients : d # c =>
          /\ wire'[d] = wire[d] /\ client'[d] = client[d] /\ at'[d] = at[d]
          /\ cur'[d] = cur[d] /\ handled'[d] = handled[d] /\ answers'[d] = answers[d]

LEMMA ConnStep ==
    ASSUME Inv, NEW c \in Clients, OnlyOf(c), StoreOK', Conn(c)'
    PROVE  Inv'
<1> SUFFICES ASSUME NEW d \in Clients, d # c PROVE Conn(d)'
  BY DEF Inv, OnlyOf
<1>1. Conn(d)
  BY DEF Inv
<1>2. /\ wire'[d] = wire[d] /\ client'[d] = client[d] /\ at'[d] = at[d]
      /\ cur'[d] = cur[d] /\ handled'[d] = handled[d] /\ answers'[d] = answers[d]
  BY DEF OnlyOf
<1>3. LocalsOK(d)'
  BY <1>1, <1>2 DEF Conn, LocalsOK, At
<1>4. Responses(d)' = Responses(d)
  BY <1>2 DEF Responses
<1>5. InTurn(d)'
  BY <1>1, <1>2, <1>4 DEF Conn, InTurn, At
<1> QED BY <1>1, <1>2, <1>3, <1>5 DEF Conn

LEMMA StoreStep ==
    ASSUME StoreOK, st' \in Store, Core!Moves(SObsState(st), SObsState(st)')
    PROVE  StoreOK'
<1>1. SObsState(st) \in Core!State
  BY StoreIsState DEF StoreOK
<1>2. Core!HistoryIsSound' /\ Core!IdsFromOne'
  BY <1>1, CoreAssumptions, Core!HistoryStep DEF StoreOK
<1> QED BY <1>2 DEF StoreOK

LEMMA SameStore ==
    ASSUME StoreOK, st' = st
    PROVE  StoreOK'
<1>1. Core!Moves(SObsState(st), SObsState(st)')
  BY DEF SObsState, Core!Moves
<1> QED BY <1>1, StoreStep DEF StoreOK

-----------------------------------------------------------------------------
(* Responses along the routed requests *)

LEMMA ResponsesType ==
    ASSUME NEW c, handled[c] \in Seq(Exchanged)
    PROVE  Responses(c) \in Seq(Response) /\ Len(Responses(c)) = Len(handled[c])
<1> DEFINE h == handled[c]
<1>1. Responses(c) = [i \in 1..Len(h) |-> h[i].resp] /\ Len(h) \in Nat
  BY DEF Responses
<1>2. \A i \in 1..Len(h) : h[i].resp \in Response
  <2>1. \A i \in 1..Len(h) : h[i] \in Exchanged
    OBVIOUS
  <2>2. \A x \in Exchanged : x.resp \in Response
    BY DEF Exchanged
  <2> QED BY <2>1, <2>2
<1> QED BY <1>1, <1>2

LEMMA ResponsesAppend ==
    ASSUME NEW c, handled[c] \in Seq(Exchanged), NEW x \in Exchanged,
           handled'[c] = Append(handled[c], x)
    PROVE  Responses(c)' = Append(Responses(c), x.resp)
<1> DEFINE h == handled[c]
           longer == Append(h, x)
<1>1. /\ longer \in Seq(Exchanged) /\ Len(longer) = Len(h) + 1 /\ Len(h) \in Nat
      /\ longer[Len(h) + 1] = x /\ \A i \in 1..Len(h) : longer[i] = h[i]
  OBVIOUS
<1>2. Responses(c)' = [i \in 1..(Len(h) + 1) |-> longer[i].resp]
  BY <1>1 DEF Responses
<1>3. /\ Append(Responses(c), x.resp) \in Seq(Response)
      /\ Len(Append(Responses(c), x.resp)) = Len(h) + 1
      /\ \A i \in 1..(Len(h) + 1) :
            Append(Responses(c), x.resp)[i] = IF i = Len(h) + 1 THEN x.resp ELSE Responses(c)[i]
  <2>1. Responses(c) \in Seq(Response) /\ Len(Responses(c)) = Len(h)
    BY ResponsesType
  <2>2. x.resp \in Response
    BY DEF Exchanged
  <2> HIDE DEF longer
  <2> QED BY <2>1, <2>2
<1>4. \A i \in 1..Len(h) : Responses(c)[i] = h[i].resp
  BY <1>1 DEF Responses
<1>5. Append(Responses(c), x.resp) = [i \in 1..(Len(h) + 1) |-> longer[i].resp]
  <2>1. \A i \in 1..(Len(h) + 1) : Append(Responses(c), x.resp)[i] = longer[i].resp
    BY <1>1, <1>3, <1>4
  <2> HIDE DEF longer
  <2> QED BY <1>3, <2>1
<1> QED BY <1>2, <1>5

LEMMA FrontOfAppend ==
    ASSUME NEW S, NEW s \in Seq(S), NEW x \in S
    PROVE  Front(Append(s, x)) = s /\ Last(Append(s, x)) = x /\ Append(s, x) # << >>
<1> DEFINE longer == Append(s, x)
<1>1. /\ longer \in Seq(S) /\ Len(longer) = Len(s) + 1 /\ Len(s) \in Nat
      /\ longer[Len(s) + 1] = x /\ \A i \in 1..Len(s) : longer[i] = s[i]
  OBVIOUS
<1>2. SubSeq(longer, 1, Len(s)) = s
  <2> HIDE DEF longer
  <2> QED BY <1>1
<1>3. Front(longer) = s /\ Last(longer) = x
  <2> HIDE DEF longer
  <2> QED BY <1>1, <1>2 DEF Front, Last
<1> QED BY <1>1, <1>3

LEMMA AppendLast ==
    ASSUME NEW S, NEW s \in Seq(S), s # << >>
    PROVE  Append(Front(s), Last(s)) = s /\ Last(s) \in S /\ Front(s) \in Seq(S)
<1>1. Len(s) \in Nat \ {0}
  OBVIOUS
<1>2. SubSeq(s, 1, Len(s) - 1) \in Seq(S) /\ Len(SubSeq(s, 1, Len(s) - 1)) = Len(s) - 1
  <2>1. PICK n \in Nat : Len(s) = n + 1
    BY <1>1
  <2>2. \A i \in 1..n : s[i] \in S
    BY <2>1
  <2>3. SubSeq(s, 1, n) = [i \in 1..n |-> s[i]]
    BY <2>1
  <2> QED BY <2>1, <2>2, <2>3
<1>3. \A i \in 1..(Len(s) - 1) : SubSeq(s, 1, Len(s) - 1)[i] = s[i]
  BY <1>1
<1> DEFINE f == SubSeq(s, 1, Len(s) - 1)
<1> HIDE DEF f
<1>4. Append(f, s[Len(s)]) = s
  BY <1>1, <1>2, <1>3 DEF f
<1> QED BY <1>1, <1>2, <1>4 DEF f, Front, Last

-----------------------------------------------------------------------------
(* What the clients put on the wire *)

LEMMA TokensType ==
    ASSUME NEW m \in Message
    PROVE  Tokens(m) \in Seq(Token)
<1>1. /\ Blank \in Token /\ Junk \in Token /\ Overlong \in Token /\ Body \in Token
      /\ \A n \in {0, 1} : Size(n) \in Token
      /\ \A name \in HeaderName : Header(name) \in Token
      /\ RequestLine(m) \in Token
  BY DEF Blank, Junk, Overlong, Body, Size, Header, RequestLine, Message, Token, RequestToken
<1>2. \A t \in Token : << t >> \in Seq(Token)
  OBVIOUS
<1>3. BodyTokens(m) \in Seq(Token)
  <2>1. /\ << Body, Blank >> \in Seq(Token)
        /\ << Size(1), Body, Blank, Size(0), Blank >> \in Seq(Token)
        /\ << >> \in Seq(Token)
    BY <1>1
  <2> QED BY <1>1, <1>2, <2>1 DEF BodyTokens
<1>4. HeaderLines(m) \in Seq(Token)
  <2>1. (IF m.close THEN << Header("close") >> ELSE << >>) \in Seq(Token)
    BY <1>1 DEF HeaderName
  <2> DEFINE count == MaxHeaders + (IF m.close THEN 0 ELSE 1)
             many == [i \in 1..count |-> Header("other")]
  <2>2. many \in Seq(Token)
    <3>1. count \in Nat /\ Header("other") \in Token
      BY <1>1, ServerAssumption DEF HeaderName
    <3> HIDE DEF count
    <3> QED BY <3>1
  <2> DEFINE framed ==
      CASE m.framing \in {"sized", "trailed"} -> << Header("length") >>
        [] m.framing = "badLength" -> << Header("badLength") >>
        [] m.framing \in {"chunked", "badSize"} -> << Header("chunked") >>
        [] m.framing = "overlong" -> << Overlong >>
        [] m.framing = "tooMany" -> many
        [] OTHER -> << >>
  <2>3. framed \in Seq(Token)
    <3>1. /\ << Header("length") >> \in Seq(Token) /\ << Header("badLength") >> \in Seq(Token)
          /\ << Header("chunked") >> \in Seq(Token) /\ << Overlong >> \in Seq(Token)
          /\ << >> \in Seq(Token)
      BY <1>1, <1>2 DEF HeaderName
    <3> HIDE DEF many
    <3> QED BY <2>2, <3>1
  <2>4. HeaderLines(m) = (IF m.close THEN << Header("close") >> ELSE << >>) \o framed
    BY DEF HeaderLines
  <2> HIDE DEF framed
  <2> QED BY <2>1, <2>3, <2>4
<1>5. Tokens(m) = IF m.framing = "junk" THEN << Junk >>
                  ELSE << RequestLine(m) >> \o HeaderLines(m) \o << Blank >> \o BodyTokens(m)
  BY DEF Tokens
<1>6. /\ << Junk >> \in Seq(Token) /\ << RequestLine(m) >> \in Seq(Token)
      /\ << Blank >> \in Seq(Token)
  BY <1>1, <1>2
<1> QED BY <1>3, <1>4, <1>5, <1>6

LEMMA PieceType ==
    ASSUME NEW m \in Message, NEW tokens \in Beginnings(m) \cup Stumps(m)
    PROVE  tokens \in Seq(Token)
<1> DEFINE whole == Tokens(m)
<1>1. whole \in Seq(Token) /\ Len(whole) \in Nat
  BY TokensType
<1> HIDE DEF whole
<1>2. \A k \in 0..Len(whole) : SubSeq(whole, 1, k) \in Seq(Token)
  <2> TAKE k \in 0..Len(whole)
  <2>1. SubSeq(whole, 1, k) = [i \in 1..k |-> whole[i]] /\ k \in Nat
    BY <1>1
  <2>2. \A i \in 1..k : whole[i] \in Token
    BY <1>1
  <2> QED BY <2>1, <2>2
<1>3. CASE tokens \in Beginnings(m)
  <2>1. PICK k \in 0..(Len(whole) - 1) : tokens = SubSeq(whole, 1, k)
    BY <1>3 DEF Beginnings, whole
  <2> QED BY <1>1, <1>2, <2>1
<1>4. CASE tokens \in Stumps(m)
  <2>1. PICK k \in 1..Len(whole) : \E t \in CutShort(whole[k]) :
           tokens = Append(SubSeq(whole, 1, k - 1), t)
    BY <1>4 DEF Stumps, whole
  <2>2. PICK t \in CutShort(whole[k]) : tokens = Append(SubSeq(whole, 1, k - 1), t)
    BY <2>1
  <2>3. whole[k] \in Token
    BY <1>1
  <2>4. t \in Token
    BY <2>2, <2>3 DEF CutShort, Junk, Header, Token, HeaderName
  <2>5. SubSeq(whole, 1, k - 1) \in Seq(Token)
    BY <1>1, <1>2
  <2> QED BY <2>2, <2>4, <2>5
<1> QED BY <1>3, <1>4

LEMMA ClientStepKeeps ==
    ASSUME Inv, NEW c \in Clients, ClientStep(c)
    PROVE  Inv'
<1>1. PICK m \in Traffic[c] : Send(c, m) \/ Stall(c, m) \/ HangUp(c, m)
  BY DEF ClientStep
<1>2. m \in Message
  BY ServerAssumption
<1>3. PICK tokens \in Seq(Token), atEnd \in BOOLEAN : Puts(c, m, tokens, atEnd)
  BY <1>1, <1>2, TokensType, PieceType DEF Send, Stall, HangUp
<1>4. /\ client[c] = "sending" /\ ~At(c, "closed")
      /\ \/ client' = client
         \/ \E stage : client' = [client EXCEPT ![c] = stage]
  BY <1>1 DEF Send, Stall, HangUp, MaySend
<1>5. /\ wire' = [wire EXCEPT ![c] = wire[c] \o tokens]
      /\ UNCHANGED <<st, at, cur, handled, answers>>
  BY <1>3 DEF Puts
<1>6. Tables /\ Conn(c) /\ StoreOK
  BY DEF Inv
<1>7. OnlyOf(c) /\ wire'[c] = wire[c] \o tokens
  BY <1>4, <1>5, <1>6 DEF OnlyOf, Tables
<1>8. wire'[c] \in Seq(Token)
  BY <1>3, <1>6, <1>7 DEF Conn
<1>9. LocalsOK(c)' /\ Responses(c)' = Responses(c)
  BY <1>5, <1>6 DEF Conn, LocalsOK, At, Responses
<1>10. InTurn(c)'
  BY <1>4, <1>5, <1>6, <1>9 DEF Conn, InTurn, At
<1>11. Conn(c)'
  BY <1>5, <1>6, <1>8, <1>9, <1>10 DEF Conn
<1> QED BY <1>5, <1>6, <1>7, <1>11, ConnStep, SameStore

-----------------------------------------------------------------------------
(* The steps of exchange() *)

\* Where a step that only reads may lead: on, to a refusal, or to the end.
Onward(c) ==
    \/ Close(c) \/ Refuse(c)
    \/ At(c, "line") /\ Proceed(c, "line")
    \/ ~At(c, "line") /\ \E place \in Reading \cup {"route"} : Proceed(c, place)

LEMMA MovesOn ==
    ASSUME Inv, NEW c \in Clients, Onward(c), at[c] \in Reading,
           UNCHANGED <<st, client, handled>>,
           \/ wire' = wire
           \/ \E tokens \in Seq(Token) : wire' = [wire EXCEPT ![c] = tokens]
    PROVE  Inv'
<1>1. Tables /\ Conn(c) /\ StoreOK
  BY DEF Inv
<1>2. PICK place \in Reading \cup {"route", "closed"} :
         /\ at' = [at EXCEPT ![c] = place]
         /\ place \notin {"line", "closed"} => ~At(c, "line")
  BY DEF Onward, Close, Refuse, Proceed, Goto, Reading
<1>3. at'[c] = place /\ \A d \in Clients : d # c => at'[d] = at[d]
  BY <1>1, <1>2 DEF Tables
<1>4. cur' = cur /\ Responses(c)' = Responses(c)
  BY DEF Onward, Close, Refuse, Proceed, Responses
<1>5. answers[c] = Responses(c) /\ answers[c] \in Seq(Response)
  BY <1>1 DEF Conn, InTurn
<1>6. /\ DOMAIN answers' = Clients
      /\ \A d \in Clients : d # c => answers'[d] = answers[d]
      /\ \/ answers'[c] = answers[c]
         \/ /\ answers'[c] = Append(answers[c], ErrorBody(400, "malformed_request"))
            /\ place = "closed"
  BY <1>1, <1>3 DEF Onward, Close, Refuse, Proceed, Goto, Tables
<1>7. ErrorBody(400, "malformed_request") \in Response
  BY DEF ErrorBody, Response, ErrorCode
<1>8. answers'[c] \in Seq(Response)
  BY <1>5, <1>6, <1>7
<1>9. wire'[c] \in Seq(Token) /\ DOMAIN wire' = Clients
        /\ \A d \in Clients : d # c => wire'[d] = wire[d]
  BY <1>1 DEF Conn, Tables
<1>10. OnlyOf(c)
  BY <1>1, <1>2, <1>3, <1>4, <1>6, <1>9 DEF OnlyOf, Tables
<1>11. LocalsOK(c)'
  <2>1. ~At(c, "closed")
    BY DEF At, Reading
  <2>2. at'[c] \notin {"line", "closed"} => cur[c].line \in RequestToken
    BY <1>1, <1>2, <1>3, <2>1 DEF Conn, LocalsOK
  <2> QED BY <1>1, <1>4, <2>2 DEF Conn, LocalsOK, At
<1>12. InTurn(c)'
  <2>1. at'[c] # "reply"
    BY <1>2, <1>3 DEF Reading
  <2>2. at'[c] \in Reading \cup {"route"} => answers'[c] = Responses(c)
    BY <1>3, <1>5, <1>6 DEF Reading
  <2>3. at'[c] = "closed" => \/ answers'[c] = Responses(c)
                             \/ answers'[c] = Append(Responses(c),
                                                 ErrorBody(400, "malformed_request"))
    BY <1>5, <1>6
  <2> QED BY <1>4, <2>1, <2>2, <2>3 DEF InTurn, At
<1>13. at'[c] \in Places
  BY <1>2, <1>3 DEF Places
<1>14. Conn(c)'
  BY <1>1, <1>8, <1>9, <1>11, <1>12, <1>13 DEF Conn
<1> QED BY <1>1, <1>10, <1>14, ConnStep, SameStore

LEMMA ReadsTail ==
    ASSUME Inv, NEW c \in Clients, NEW place, Reads(c, place)
    PROVE  /\ at[c] = place /\ Head(wire[c]) \in Token
           /\ Tail(wire[c]) \in Seq(Token) /\ wire' = [wire EXCEPT ![c] = Tail(wire[c])]
           /\ UNCHANGED <<st, client, handled>>
<1>1. wire[c] \in Seq(Token) /\ wire[c] # << >>
  BY DEF Inv, Conn, Reads
<1>2. Head(wire[c]) \in Token /\ Tail(wire[c]) \in Seq(Token)
  BY <1>1
<1> QED BY <1>2 DEF Reads, At

LEMMA ReadsOn ==
    ASSUME Inv, NEW c \in Clients, NEW place \in Reading, Reads(c, place), Onward(c)
    PROVE  Inv'
BY ReadsTail, MovesOn

\* A step that reads into the locals.
LEMMA TakesIn ==
    ASSUME Inv, NEW c \in Clients, NEW place \in Reading, Reads(c, place),
           NEW line \in RequestToken, NEW headers, NEW n, NEW a,
           cur' = [cur EXCEPT ![c] = [line |-> line, headers |-> headers, n |-> n, resp |-> a]],
           \/ at' = [at EXCEPT ![c] = "headers"]
           \/ at' = at /\ At(c, "headers"),
           UNCHANGED answers
    PROVE  Inv'
<1>1. Tables /\ Conn(c) /\ StoreOK
  BY DEF Inv
<1>2. /\ Tail(wire[c]) \in Seq(Token) /\ wire' = [wire EXCEPT ![c] = Tail(wire[c])]
      /\ UNCHANGED <<st, client, handled>> /\ at[c] \in Reading
  BY ReadsTail
<1>3. at'[c] = "headers" /\ wire'[c] \in Seq(Token)
  BY <1>1, <1>2 DEF Tables, At
<1>4. OnlyOf(c)
  BY <1>1, <1>2 DEF OnlyOf, Tables
<1>5. cur'[c] = [line |-> line, headers |-> headers, n |-> n, resp |-> a]
  BY <1>1 DEF Tables
<1>6. cur'[c].line = line /\ cur'[c].resp = a
  BY <1>5
<1>7. LocalsOK(c)'
  BY <1>5, <1>6 DEF LocalsOK
<1>8. answers[c] = Responses(c) /\ Responses(c)' = Responses(c)
  BY <1>1, <1>2 DEF Conn, InTurn, Responses
<1>9. InTurn(c)'
  BY <1>3, <1>8 DEF InTurn, At
<1>10. Conn(c)'
  BY <1>1, <1>2, <1>3, <1>7, <1>9 DEF Conn, Places, Reading
<1> QED BY <1>1, <1>2, <1>4, <1>10, ConnStep, SameStore

LEMMA ReadRequestLineKeeps ==
    ASSUME Inv, NEW c \in Clients, ReadRequestLine(c)
    PROVE  Inv'
<1> DEFINE t == Head(wire[c])
<1>1. Reads(c, "line") /\ "line" \in Reading /\ At(c, "line")
  BY DEF ReadRequestLine, Reading, Reads
<1>2. \/ Onward(c)
      \/ /\ t.kind = "request"
         /\ cur' = [cur EXCEPT ![c] = [Fresh EXCEPT !.line = t]]
         /\ at' = [at EXCEPT ![c] = "headers"]
         /\ UNCHANGED answers
  BY <1>1 DEF ReadRequestLine, Onward, Goto
<1>3. CASE Onward(c)
  BY <1>1, <1>3, ReadsOn
<1>4. CASE ~Onward(c)
  <2>1. t \in Token
    BY <1>1, ReadsTail
  <2>2. t \in RequestToken
    BY <1>2, <1>4, <2>1 DEF Token
  <2> HIDE DEF t
  <2>3. [Fresh EXCEPT !.line = t] = [line |-> t, headers |-> {}, n |-> 0, resp |-> NoAnswer]
    BY DEF Fresh
  <2> QED BY <1>1, <1>2, <1>4, <2>2, <2>3, TakesIn
<1> QED BY <1>3, <1>4

LEMMA ReadHeaderKeeps ==
    ASSUME Inv, NEW c \in Clients, ReadHeader(c)
    PROVE  Inv'
<1> DEFINE t == Head(wire[c])
           more == cur[c].headers \cup {t.name}
           count == cur[c].n + 1
<1>1. Reads(c, "headers") /\ "headers" \in Reading /\ At(c, "headers")
  BY DEF ReadHeader, Reading, Reads
<1>2. \/ Onward(c)
      \/ /\ cur' = [cur EXCEPT ![c].headers = more, ![c].n = count]
         /\ UNCHANGED <<at, answers>>
  <2>1. BodyPlace(cur[c].headers) \in Reading \cup {"route"}
    BY DEF BodyPlace, Reading
  <2>2. ~At(c, "line")
    BY <1>1 DEF At
  <2> QED BY <2>1, <2>2 DEF ReadHeader, Onward
<1>3. CASE Onward(c)
  BY <1>1, <1>3, ReadsOn
<1>4. CASE ~Onward(c)
  <2>1. Conn(c) /\ Tables
    BY DEF Inv
  <2>2. cur[c].line \in RequestToken
    BY <1>1, <2>1 DEF Conn, LocalsOK, At
  <2>3. PICK headers, n : cur[c] = [line |-> cur[c].line, headers |-> headers, n |-> n,
                                    resp |-> cur[c].resp]
    BY <2>1 DEF Conn, LocalsOK
  <2>4. cur' = [cur EXCEPT ![c] = [line |-> cur[c].line, headers |-> more, n |-> count,
                                   resp |-> cur[c].resp]]
    <3>1. cur' = [cur EXCEPT ![c] = [cur[c] EXCEPT !.headers = more, !.n = count]]
      BY <1>2, <1>4, <2>1 DEF Tables
    <3>2. [cur[c] EXCEPT !.headers = more, !.n = count]
            = [line |-> cur[c].line, headers |-> more, n |-> count, resp |-> cur[c].resp]
      <4> HIDE DEF more, count
      <4>1. [cur[c] EXCEPT !.headers = more]
              = [line |-> cur[c].line, headers |-> more, n |-> n, resp |-> cur[c].resp]
        BY <2>3
      <4>2. [[cur[c] EXCEPT !.headers = more] EXCEPT !.n = count]
              = [line |-> cur[c].line, headers |-> more, n |-> count, resp |-> cur[c].resp]
        <5>1. \A l : l = [line |-> cur[c].line, headers |-> more, n |-> n,
                          resp |-> cur[c].resp]
                   => [l EXCEPT !.n = count]
                        = [line |-> cur[c].line, headers |-> more, n |-> count,
                           resp |-> cur[c].resp]
          OBVIOUS
        <5> QED BY <4>1, <5>1
      <4> QED BY <4>2
    <3> QED BY <3>1, <3>2
  <2> HIDE DEF more, count
  <2> QED BY <1>1, <1>2, <1>4, <2>2, <2>4, TakesIn
<1> QED BY <1>3, <1>4

LEMMA ReadBodyKeeps ==
    ASSUME Inv, NEW c \in Clients,
           ReadBody(c) \/ ReadSize(c) \/ ReadChunk(c) \/ ReadCrlf(c) \/ ReadTrailer(c)
    PROVE  Inv'
<1>1. PICK place \in {"body", "size", "chunk", "crlf", "trailers"} :
         /\ Reads(c, place)
         /\ \/ Close(c)
            \/ \E next \in Reading \cup {"route"} : Proceed(c, next)
  BY DEF ReadBody, ReadSize, ReadChunk, ReadCrlf, ReadTrailer, Reading
<1>2. place \in Reading /\ ~At(c, "line")
  BY <1>1 DEF Reading, Reads, At
<1> QED BY <1>1, <1>2, ReadsOn DEF Onward

LEMMA EndOfInputKeeps ==
    ASSUME Inv, NEW c \in Clients, EndOfInput(c)
    PROVE  Inv'
<1>1. at[c] \in Reading /\ UNCHANGED <<st, wire, client, handled>>
  BY DEF EndOfInput
<1>2. Onward(c)
  BY DEF EndOfInput, Onward, Reading, At
<1> QED BY <1>1, <1>2, MovesOn

LEMMA TimeOutKeeps ==
    ASSUME Inv, NEW c \in Clients, TimeOut(c)
    PROVE  Inv'
BY MovesOn DEF TimeOut, Onward

LEMMA BreakKeeps ==
    ASSUME Inv, NEW c \in Clients, Break(c)
    PROVE  Inv'
<1> SUFFICES ASSUME at[c] \notin Reading PROVE Inv'
  BY MovesOn DEF Break, Onward
<1>0. at[c] = "reply"
  BY DEF Break
<1>1. Tables /\ Conn(c) /\ StoreOK
  BY DEF Inv
<1>2. /\ at' = [at EXCEPT ![c] = "closed"]
      /\ UNCHANGED <<st, wire, client, cur, handled, answers>> /\ client[c] = "gone"
  BY DEF Break, Close, Goto
<1>3. OnlyOf(c) /\ at'[c] = "closed"
  BY <1>1, <1>2 DEF OnlyOf, Tables
<1>4. answers[c] = Front(Responses(c)) /\ Responses(c)' = Responses(c)
  BY <1>0, <1>1, <1>2 DEF Conn, InTurn, Responses, At
<1>5. InTurn(c)'
  BY <1>2, <1>3, <1>4 DEF InTurn, At, Reading
<1>6. LocalsOK(c)'
  BY <1>1, <1>2, <1>3 DEF Conn, LocalsOK, At
<1>7. Conn(c)'
  BY <1>1, <1>2, <1>3, <1>5, <1>6 DEF Conn, Places
<1> QED BY <1>1, <1>2, <1>3, <1>7, ConnStep, SameStore

\* The call of the service, and what it leaves.
LEMMA RouteKeeps ==
    ASSUME Inv, NEW c \in Clients, Route(c)
    PROVE  Inv'
<1> DEFINE r == cur[c].line.req
           a == route(st, r)[1]
           done == [req |-> r, resp |-> a]
<1>1. Tables /\ Conn(c) /\ StoreOK
  BY DEF Inv
<1>2. /\ At(c, "route") /\ st' = route(st, r)[2]
      /\ cur' = [cur EXCEPT ![c].resp = a]
      /\ handled' = [handled EXCEPT ![c] = Append(handled[c], done)]
      /\ at' = [at EXCEPT ![c] = "reply"] /\ UNCHANGED <<wire, client, answers>>
  BY <1>1 DEF Route, Goto, Tables
<1>3. r \in Request
  BY <1>1, <1>2 DEF Conn, LocalsOK, At, RequestToken
<1>4. /\ a \in Response /\ route(st, r)[2] \in Store
      /\ Core!Moves(SObsState(st), SObsState(route(st, r)[2]))
  BY <1>1, <1>3, RouteIsStep
<1>5. StoreOK'
  <2>1. SObsState(st)' = SObsState(route(st, r)[2])
    BY <1>2 DEF SObsState
  <2> QED BY <1>1, <1>2, <1>4, <2>1, StoreStep
<1>6. done \in Exchanged /\ done.resp = a
  BY <1>3, <1>4 DEF Exchanged
<1>7. PICK headers, n : cur[c] = [line |-> cur[c].line, headers |-> headers, n |-> n,
                                  resp |-> cur[c].resp]
  BY <1>1 DEF Conn, LocalsOK
<1>8. cur'[c] = [line |-> cur[c].line, headers |-> headers, n |-> n, resp |-> a]
  <2>1. cur'[c] = [cur[c] EXCEPT !.resp = a]
    BY <1>1, <1>2 DEF Tables
  <2> HIDE DEF a
  <2> QED BY <1>7, <2>1
<1> HIDE DEF r, a, done
<1>9. cur'[c].line = cur[c].line /\ cur'[c].resp = a
  BY <1>8
<1>10. OnlyOf(c) /\ at'[c] = "reply" /\ handled'[c] = Append(handled[c], done)
  BY <1>1, <1>2 DEF OnlyOf, Tables
<1>11. LocalsOK(c)'
  BY <1>1, <1>2, <1>8, <1>9 DEF Conn, LocalsOK, At
<1>12. handled[c] \in Seq(Exchanged) /\ answers[c] = Responses(c)
  BY <1>1, <1>2 DEF Conn, InTurn, At
<1>13. handled'[c] \in Seq(Exchanged) /\ handled'[c] # << >> /\ Last(handled'[c]) = done
  <2>1. handled'[c] \in Seq(Exchanged)
    BY <1>6, <1>10, <1>12
  <2> QED BY <1>6, <1>10, <1>12, <2>1, FrontOfAppend
<1>14. Responses(c)' = Append(Responses(c), a)
  BY <1>6, <1>10, <1>12, ResponsesAppend
<1>15. Front(Responses(c)') = Responses(c)
  BY <1>4, <1>12, <1>14, ResponsesType, FrontOfAppend
<1>16. InTurn(c)'
  BY <1>2, <1>6, <1>9, <1>10, <1>12, <1>13, <1>15 DEF InTurn, At, Reading
<1>17. Conn(c)'
  BY <1>1, <1>2, <1>10, <1>11, <1>13, <1>16 DEF Conn, Places
<1> QED BY <1>5, <1>10, <1>17, ConnStep

LEMMA WriteResponseKeeps ==
    ASSUME Inv, NEW c \in Clients, writeResponse(c)
    PROVE  Inv'
<1>1. Tables /\ Conn(c) /\ StoreOK
  BY DEF Inv
<1>2. PICK place \in {"line", "closed"} :
         /\ At(c, "reply") /\ at' = [at EXCEPT ![c] = place]
         /\ cur' = [cur EXCEPT ![c] = Fresh]
         /\ answers' = [answers EXCEPT ![c] = Append(answers[c], cur[c].resp)]
         /\ UNCHANGED <<st, wire, client, handled>>
  BY <1>1 DEF writeResponse, Goto, Tables
<1>3. OnlyOf(c) /\ at'[c] = place /\ cur'[c] = Fresh
        /\ answers'[c] = Append(answers[c], cur[c].resp)
  BY <1>1, <1>2 DEF OnlyOf, Tables
<1>4. /\ handled[c] \in Seq(Exchanged) /\ handled[c] # << >>
      /\ cur[c].resp = Last(handled[c]).resp /\ answers[c] = Front(Responses(c))
  BY <1>1, <1>2 DEF Conn, InTurn, At
<1>5. Responses(c) \in Seq(Response) /\ Responses(c) # << >>
        /\ Last(Responses(c)) = Last(handled[c]).resp
  <2>1. Responses(c) \in Seq(Response) /\ Len(Responses(c)) = Len(handled[c])
          /\ Len(handled[c]) \in Nat \ {0}
    BY <1>4, ResponsesType
  <2>2. Len(handled[c]) \in DOMAIN handled[c]
    BY <1>4, <2>1
  <2>3. Responses(c)[Len(handled[c])] = handled[c][Len(handled[c])].resp
    BY <2>2 DEF Responses
  <2>4. Responses(c) # << >>
    BY <2>1
  <2> QED BY <2>1, <2>3, <2>4 DEF Last
<1>6. answers'[c] = Responses(c) /\ Responses(c)' = Responses(c)
  <2>1. Append(Front(Responses(c)), Last(Responses(c))) = Responses(c)
    BY <1>5, AppendLast
  <2> QED BY <1>2, <1>3, <1>4, <1>5, <2>1 DEF Responses
<1>7. LocalsOK(c)'
  <2>1. Fresh.line = NoLine /\ Fresh.resp = NoAnswer
    BY DEF Fresh
  <2>2. Fresh = [line |-> Fresh.line, headers |-> {}, n |-> 0, resp |-> Fresh.resp]
    BY <2>1 DEF Fresh
  <2> QED BY <1>3, <2>2 DEF LocalsOK, At
<1>8. InTurn(c)'
  BY <1>3, <1>6 DEF InTurn, At
<1>9. Conn(c)'
  BY <1>1, <1>2, <1>3, <1>5, <1>6, <1>7, <1>8 DEF Conn, Places, Reading
<1> QED BY <1>1, <1>2, <1>3, <1>9, ConnStep, SameStore

LEMMA NextKeeps == Inv /\ [Next]_vars => Inv'
<1> SUFFICES ASSUME Inv, [Next]_vars PROVE Inv'
  OBVIOUS
<1>1. CASE UNCHANGED vars
  <2>1. StoreOK'
    BY <1>1, SameStore DEF Inv, vars
  <2>2. Tables'
    BY <1>1 DEF Inv, Tables, vars
  <2>3. ASSUME NEW c \in Clients PROVE Conn(c)'
    <3>1. Conn(c)
      BY DEF Inv
    <3>2. UNCHANGED <<wire, client, at, cur, handled, answers>>
      BY <1>1 DEF vars
    <3>3. LocalsOK(c)'
      BY <3>1, <3>2 DEF Conn, LocalsOK, At
    <3>4. Responses(c)' = Responses(c)
      BY <3>2 DEF Responses
    <3>5. InTurn(c)'
      BY <3>1, <3>2, <3>4 DEF Conn, InTurn, At
    <3> QED BY <3>1, <3>2, <3>3, <3>5 DEF Conn
  <2> QED BY <2>1, <2>2, <2>3 DEF Inv
<1>2. CASE Next
  <2>1. PICK c \in Clients : ClientStep(c) \/ Exchange(c) \/ TimeOut(c) \/ Break(c)
    BY <1>2 DEF Next
  <2>2. CASE ClientStep(c)
    BY <2>2, ClientStepKeeps
  <2>3. CASE Exchange(c)
    BY <2>3, ReadRequestLineKeeps, ReadHeaderKeeps, ReadBodyKeeps, EndOfInputKeeps,
       RouteKeeps, WriteResponseKeeps DEF Exchange
  <2>4. CASE TimeOut(c)
    BY <2>4, TimeOutKeeps
  <2>5. CASE Break(c)
    BY <2>5, BreakKeeps
  <2> QED BY <2>1, <2>2, <2>3, <2>4, <2>5
<1> QED BY <1>1, <1>2

LEMMA InitStore == st = EmptyStore => StoreOK
<1> SUFFICES ASSUME st = EmptyStore PROVE StoreOK
  OBVIOUS
<1>1. SObsState(st) = Core!InitState
  BY DEF EmptyStore, SObsState, Core!InitState
<1>2. Core!Init
  BY <1>1 DEF Core!Init, Core!Nothing, NoAnswer
<1>3. st \in Store
  BY DEF EmptyStore, Store, Tweet
<1> QED BY <1>2, <1>3, CoreAssumptions, Core!InitHistory DEF StoreOK

LEMMA InitInv == Init => Inv
<1> SUFFICES ASSUME Init PROVE Inv
  OBVIOUS
<1>1. StoreOK /\ Tables
  BY InitStore DEF Init, Tables
<1>2. ASSUME NEW c \in Clients PROVE Conn(c)
  <2>1. /\ wire[c] = << >> /\ at[c] = "line" /\ cur[c] = Fresh /\ handled[c] = << >>
        /\ answers[c] = << >>
    BY DEF Init
  <2>2. LocalsOK(c)
    <3>1. Fresh.line = NoLine /\ Fresh.resp = NoAnswer
      BY DEF Fresh
    <3>2. Fresh = [line |-> Fresh.line, headers |-> {}, n |-> 0, resp |-> Fresh.resp]
      BY <3>1 DEF Fresh
    <3> QED BY <2>1, <3>2 DEF LocalsOK, At
  <2>3. Responses(c) = << >>
    <3>1. handled[c] \in Seq(Exchanged) /\ Len(handled[c]) = 0
      BY <2>1
    <3> QED BY <3>1, ResponsesType
  <2>4. InTurn(c)
    BY <2>1, <2>3 DEF InTurn, At
  <2> QED BY <2>1, <2>2, <2>4 DEF Conn, Places, Reading
<1> QED BY <1>1, <1>2 DEF Inv

LEMMA InvHolds == Spec => []Inv
BY InitInv, NextKeeps, PTL DEF Spec

-----------------------------------------------------------------------------
(* The theorems *)

LEMMA InvInTurn == Inv => AnsweredInTurn
<1> SUFFICES ASSUME Inv, NEW c \in Clients
             PROVE  \/ answers[c] = Responses(c)
                    \/ At(c, "reply") /\ answers[c] = Front(Responses(c))
                    \/ At(c, "closed") /\ \/ answers[c] = Front(Responses(c)) /\ client[c] = "gone"
                                          \/ answers[c] = Append(Responses(c),
                                                 ErrorBody(400, "malformed_request"))
  BY DEF AnsweredInTurn
<1>1. at[c] \in Places /\ InTurn(c)
  BY DEF Inv, Conn
<1> QED BY <1>1 DEF InTurn, Places, At

(* However a client pipelines and wherever it breaks off, its connection   *)
(* writes the answers of the requests it has routed in their order, at     *)
(* most the last one still unwritten, and a 400 for a message that cannot  *)
(* be framed only as the very last (Http.exchange), for any number of      *)
(* connections and any traffic.                                            *)
THEOREM AnswersComeInTurn == Spec => []AnsweredInTurn
BY InvHolds, InvInTurn, PTL

LEMMA StepLikeSObs ==
    ASSUME Inv, [Next]_vars
    PROVE  /\ \A c \in Clients : handled'[c] # handled[c] =>
                 LET last == Last(handled'[c])
                 IN  <<last.resp, SObsState(st')>> = Oracle!Step(SObsState(st), last.req)
           /\ st' # st => \E c \in Clients : handled'[c] # handled[c]
<1>1. CASE UNCHANGED <<st, handled>>
  BY <1>1
<1>2. CASE ~UNCHANGED <<st, handled>>
  <2>1. PICK c \in Clients : Route(c)
    BY <1>2 DEF Next, vars, ClientStep, Send, Stall, HangUp, Puts, Exchange, ReadRequestLine,
       ReadHeader, ReadBody, ReadSize, ReadChunk, ReadCrlf, ReadTrailer, Reads, EndOfInput,
       writeResponse, TimeOut, Break
  <2> DEFINE r == cur[c].line.req
             a == route(st, r)[1]
             done == [req |-> r, resp |-> a]
  <2>2. Tables /\ Conn(c) /\ StoreOK
    BY DEF Inv
  <2>3. /\ At(c, "route") /\ st' = route(st, r)[2]
        /\ handled' = [handled EXCEPT ![c] = Append(handled[c], done)]
    BY <2>1, <2>2 DEF Route, Tables
  <2>4. r \in Request
    BY <2>2, <2>3 DEF Conn, LocalsOK, At, RequestToken
  <2>5. << a, SObsState(st') >> = Oracle!Step(SObsState(st), r) /\ a \in Response
    BY <2>2, <2>3, <2>4, RouteIsStep
  <2>6. done \in Exchanged /\ done.req = r /\ done.resp = a
    BY <2>4, <2>5 DEF Exchanged
  <2> HIDE DEF r, a, done
  <2>7. handled[c] \in Seq(Exchanged) /\ handled'[c] = Append(handled[c], done)
          /\ \A d \in Clients : d # c => handled'[d] = handled[d]
    BY <2>2, <2>3 DEF Conn, Tables
  <2>8. Last(handled'[c]) = done
    BY <2>6, <2>7, FrontOfAppend
  <2>9. handled'[c] # handled[c]
    <3>1. Len(Append(handled[c], done)) = Len(handled[c]) + 1 /\ Len(handled[c]) \in Nat
      BY <2>6, <2>7
    <3> QED BY <2>7, <3>1
  <2> QED BY <2>5, <2>6, <2>7, <2>8, <2>9
<1> QED BY <1>1, <1>2

(* Any number of connections together are S_obs answering one request at a *)
(* time: a routed request gets the answer of S_obs on the store it finds   *)
(* and leaves the state of S_obs, and nothing else moves the store         *)
(* (Service's synchronized methods behind Http's threads).                 *)
THEOREM JvmIsSObs == Spec => AnswersLikeSObs
<1>1. Inv /\ [Next]_vars
        => [/\ \A c \in Clients : handled'[c] # handled[c] =>
                 LET last == Last(handled'[c])
                 IN  <<last.resp, SObsState(st')>> = Oracle!Step(SObsState(st), last.req)
            /\ st' # st => \E c \in Clients : handled'[c] # handled[c]]_vars
  BY StepLikeSObs
<1> QED BY <1>1, InvHolds, PTL DEF Spec, AnswersLikeSObs
-----------------------------------------------------------------------------
(* Sequences read from their front *)

Drop(s, j) == SubSeq(s, j + 1, Len(s))

LEMMA ConcatFacts ==
    ASSUME NEW S, NEW s \in Seq(S), NEW t \in Seq(S)
    PROVE  /\ s \o t \in Seq(S)
           /\ Len(s \o t) = Len(s) + Len(t) /\ Len(s) \in Nat /\ Len(t) \in Nat
           /\ \A i \in 1..Len(s) : (s \o t)[i] = s[i]
           /\ \A i \in 1..Len(t) : (s \o t)[Len(s) + i] = t[i]
           /\ s \o << >> = s /\ << >> \o s = s
           /\ s \o t = << >> => s = << >> /\ t = << >>
OBVIOUS

LEMMA SameSeq ==
    ASSUME NEW S, NEW s \in Seq(S), NEW t \in Seq(S), Len(s) = Len(t),
           \A i \in 1..Len(s) : s[i] = t[i]
    PROVE  s = t
OBVIOUS

LEMMA ConcatConcat ==
    ASSUME NEW S, NEW s \in Seq(S), NEW t \in Seq(S), NEW u \in Seq(S)
    PROVE  (s \o t) \o u = s \o (t \o u)
OBVIOUS

LEMMA DropFacts ==
    ASSUME NEW S, NEW s \in Seq(S), NEW j \in 0..Len(s)
    PROVE  /\ Drop(s, j) \in Seq(S) /\ Len(Drop(s, j)) = Len(s) - j
           /\ \A i \in 1..(Len(s) - j) : Drop(s, j)[i] = s[j + i]
           /\ Drop(s, j) = << >> <=> j = Len(s)
           /\ Drop(s, 0) = s
<1>1. Len(s) \in Nat /\ j \in Nat /\ Len(s) - j \in Nat
  OBVIOUS
<1>2. Drop(s, j) = [i \in 1..(Len(s) - j) |-> s[j + i]]
  BY <1>1 DEF Drop
<1>3. \A i \in 1..(Len(s) - j) : s[j + i] \in S
  BY <1>1
<1>4. Drop(s, j) \in Seq(S) /\ Len(Drop(s, j)) = Len(s) - j
  BY <1>1, <1>2, <1>3
<1>5. \A i \in 1..(Len(s) - j) : Drop(s, j)[i] = s[j + i]
  BY <1>2
<1>6. Drop(s, 0) = s
  BY DEF Drop
<1>7. Drop(s, j) = << >> <=> j = Len(s)
  BY <1>1, <1>4
<1> QED BY <1>4, <1>5, <1>6, <1>7

LEMMA DropRead ==
    ASSUME NEW S, NEW s \in Seq(S), NEW j \in Nat, j < Len(s)
    PROVE  /\ Drop(s, j) # << >> /\ Head(Drop(s, j)) = s[j + 1]
           /\ Tail(Drop(s, j)) = Drop(s, j + 1)
<1>1. j \in 0..Len(s) /\ j + 1 \in 0..Len(s) /\ Len(s) \in Nat /\ 1 \in 1..(Len(s) - j)
  OBVIOUS
<1>2. /\ Drop(s, j) \in Seq(S) /\ Len(Drop(s, j)) = Len(s) - j
      /\ \A i \in 1..(Len(s) - j) : Drop(s, j)[i] = s[j + i]
  BY <1>1, DropFacts
<1>3. /\ Drop(s, j + 1) \in Seq(S) /\ Len(Drop(s, j + 1)) = Len(s) - (j + 1)
      /\ \A i \in 1..(Len(s) - (j + 1)) : Drop(s, j + 1)[i] = s[(j + 1) + i]
  BY <1>1, DropFacts
<1> DEFINE d == Drop(s, j)
           e == Drop(s, j + 1)
<1> HIDE DEF d, e
<1>4. d # << >> /\ Head(d) = s[j + 1]
  BY <1>1, <1>2 DEF d
<1>5. Tail(d) \in Seq(S) /\ Len(Tail(d)) = Len(s) - (j + 1)
        /\ \A i \in 1..(Len(s) - (j + 1)) : Tail(d)[i] = s[(j + 1) + i]
  <2>1. Tail(d) \in Seq(S) /\ Len(Tail(d)) = Len(d) - 1 /\ \A i \in 1..(Len(d) - 1) : Tail(d)[i] = d[i + 1]
    BY <1>2, <1>4 DEF d
  <2>2. \A i \in 1..(Len(s) - (j + 1)) : i \in 1..(Len(d) - 1) /\ i + 1 \in 1..(Len(s) - j)
            /\ j + (i + 1) = (j + 1) + i
    BY <1>1, <1>2 DEF d
  <2>3. \A i \in 1..(Len(s) - (j + 1)) : Tail(d)[i] = s[(j + 1) + i]
    BY <1>2, <2>1, <2>2 DEF d
  <2> QED BY <1>1, <1>2, <2>1, <2>3 DEF d
<1>6. Tail(d) = e
  <2>1. e \in Seq(S) /\ Len(e) = Len(s) - (j + 1)
        /\ \A i \in 1..(Len(s) - (j + 1)) : e[i] = s[(j + 1) + i]
    BY <1>3 DEF e
  <2> QED BY <1>5, <2>1, SameSeq
<1> QED BY <1>4, <1>6 DEF d, e

LEMMA DropConcat ==
    ASSUME NEW S, NEW s \in Seq(S), NEW t \in Seq(S), NEW j \in 0..Len(s)
    PROVE  Drop(s \o t, j) = Drop(s, j) \o t
<1> DEFINE st2 == s \o t
<1>1. /\ st2 \in Seq(S) /\ Len(st2) = Len(s) + Len(t) /\ Len(s) \in Nat /\ Len(t) \in Nat
      /\ \A i \in 1..Len(s) : st2[i] = s[i]
      /\ \A i \in 1..Len(t) : st2[Len(s) + i] = t[i]
  BY ConcatFacts
<1> HIDE DEF st2
<1> DEFINE d == Drop(s, j)
           e == Drop(st2, j)
<1>2. /\ d \in Seq(S) /\ Len(d) = Len(s) - j
      /\ \A i \in 1..(Len(s) - j) : d[i] = s[j + i]
  BY DropFacts
<1>3. j \in 0..Len(st2)
  BY <1>1
<1>4. /\ e \in Seq(S) /\ Len(e) = Len(st2) - j
      /\ \A i \in 1..(Len(st2) - j) : e[i] = st2[j + i]
  BY <1>1, <1>3, DropFacts
<1> HIDE DEF d, e
<1>0. d \in Seq(S)
  BY <1>2
<1>5. /\ d \o t \in Seq(S)
      /\ Len(d \o t) = Len(d) + Len(t) /\ Len(d) \in Nat /\ Len(t) \in Nat
      /\ \A i \in 1..Len(d) : (d \o t)[i] = d[i]
      /\ \A i \in 1..Len(t) : (d \o t)[Len(d) + i] = t[i]
      /\ d \o << >> = d /\ << >> \o d = d
      /\ d \o t = << >> => d = << >> /\ t = << >>
  BY <1>0, ConcatFacts
<1>6. Len(e) = Len(d \o t)
  BY <1>1, <1>2, <1>4, <1>5
<1>7. ASSUME NEW i \in 1..Len(e) PROVE e[i] = (d \o t)[i]
  <2>1. CASE i <= Len(d)
    <3>1. i \in 1..Len(d) /\ i \in 1..(Len(s) - j) /\ j + i \in 1..Len(s) /\ i \in 1..(Len(st2) - j)
      BY <2>1, <1>1, <1>2, <1>4
    <3>2. e[i] = st2[j + i] /\ st2[j + i] = s[j + i]
      BY <3>1, <1>1, <1>4
    <3>3. (d \o t)[i] = d[i] /\ d[i] = s[j + i]
      BY <3>1, <1>2, <1>5
    <3> QED BY <3>2, <3>3
  <2>2. CASE i > Len(d)
    <3>1. /\ i - Len(d) \in 1..Len(t) /\ j + i = Len(s) + (i - Len(d)) /\ i = Len(d) + (i - Len(d))
          /\ i \in 1..(Len(st2) - j)
      BY <2>2, <1>1, <1>2, <1>4
    <3>2. e[i] = t[i - Len(d)]
      BY <3>1, <1>1, <1>4
    <3>3. (d \o t)[i] = t[i - Len(d)]
      BY <3>1, <1>5
    <3> QED BY <3>2, <3>3
  <2> QED BY <2>1, <2>2, <1>1, <1>2, <1>4
<1>8. e = d \o t
  BY <1>4, <1>5, <1>6, <1>7, SameSeq
<1> QED BY <1>8 DEF d, e, st2

-----------------------------------------------------------------------------
(* The tokens of a message *)

NamesTo(m, n) == {HeaderLines(m)[i].name : i \in 1..n}

\* The header line that frames the body, or the one that cannot be read.
FramingLine(m) ==
    CASE m.framing \in {"sized", "trailed"} -> << Header("length") >>
      [] m.framing = "badLength" -> << Header("badLength") >>
      [] m.framing \in {"chunked", "badSize"} -> << Header("chunked") >>
      [] m.framing = "overlong" -> << Overlong >>
      [] OTHER -> << >>

LEMMA ShortHeaders ==
    ASSUME NEW m \in Message, m.framing # "tooMany"
    PROVE  HeaderLines(m) = (IF m.close THEN << Header("close") >> ELSE << >>) \o FramingLine(m)
BY DEF HeaderLines, FramingLine

LEMMA HeaderTuples ==
    ASSUME NEW m \in Message, m.framing # "tooMany"
    PROVE  /\ ~m.close /\ FramingLine(m) = << >> => HeaderLines(m) = << >>
           /\ m.close /\ FramingLine(m) = << >> => HeaderLines(m) = << Header("close") >>
           /\ \A u \in Token : FramingLine(m) = << u >> =>
                 HeaderLines(m) = IF m.close THEN << Header("close"), u >> ELSE << u >>
<1>1. Header("close") \in Token
  BY DEF Header, Token, HeaderName
<1>2. \A x \in Token : << x >> \in Seq(Token) /\ << x >> \o << >> = << x >>
                         /\ << >> \o << x >> = << x >>
  OBVIOUS
<1>3. ASSUME NEW x \in Token, NEW y \in Token PROVE << x >> \o << y >> = << x, y >>
  <2>1. << x >> \in Seq(Token) /\ << y >> \in Seq(Token) /\ << x, y >> \in Seq(Token)
    OBVIOUS
  <2> DEFINE xy == << x >> \o << y >>
  <2>2. xy \in Seq(Token) /\ Len(xy) = 2 /\ xy[1] = x /\ xy[2] = y
    BY <2>1
  <2> HIDE DEF xy
  <2>3. xy = << x, y >>
    BY <2>1, <2>2
  <2> QED BY <2>3 DEF xy
<1>4. << >> \o << >> = << >>
  OBVIOUS
<1>5. CASE m.close
  <2>1. HeaderLines(m) = << Header("close") >> \o FramingLine(m)
    BY <1>5, ShortHeaders
  <2> QED BY <1>1, <1>2, <1>3, <1>5, <2>1
<1>6. CASE ~m.close
  <2>1. HeaderLines(m) = << >> \o FramingLine(m)
    BY <1>6, ShortHeaders
  <2> QED BY <1>2, <1>4, <1>6, <2>1
<1> QED BY <1>5, <1>6

LEMMA ShortNames ==
    ASSUME NEW m \in Message, m.framing \notin {"tooMany", "overlong"}
    PROVE  /\ HeaderLines(m) \in Seq(Token) /\ Len(HeaderLines(m)) \in 0..2
           /\ \A i \in 1..Len(HeaderLines(m)) : HeaderLines(m)[i].kind = "header"
           /\ NamesTo(m, Len(HeaderLines(m))) =
                 (IF m.close THEN {"close"} ELSE {})
                   \cup (CASE m.framing \in {"sized", "trailed"} -> {"length"}
                           [] m.framing = "badLength" -> {"badLength"}
                           [] m.framing \in {"chunked", "badSize"} -> {"chunked"}
                           [] OTHER -> {})
<1> DEFINE lines == HeaderLines(m)
           names == CASE m.framing \in {"sized", "trailed"} -> {"length"}
                      [] m.framing = "badLength" -> {"badLength"}
                      [] m.framing \in {"chunked", "badSize"} -> {"chunked"}
                      [] OTHER -> {}
<1>1. \A name \in HeaderName : Header(name) \in Token /\ Header(name).kind = "header"
                                  /\ Header(name).name = name
  BY DEF Header, Token
<1>2. NamesTo(m, Len(lines)) = {lines[i].name : i \in 1..Len(lines)}
  BY DEF NamesTo
<1>3. \/ FramingLine(m) = << >> /\ names = {}
      \/ \E name \in HeaderName : FramingLine(m) = << Header(name) >> /\ names = {name}
  BY DEF FramingLine, HeaderName
<1> HIDE DEF names
<1>4. CASE FramingLine(m) = << >> /\ names = {}
  <2>1. CASE m.close
    <3>1. lines = << Header("close") >>
      BY <1>4, <2>1, HeaderTuples
    <3>2. "close" \in HeaderName
      BY DEF HeaderName
    <3> HIDE DEF lines
    <3>3. lines \in Seq(Token) /\ Len(lines) = 1 /\ lines[1] = Header("close")
      BY <1>1, <3>1, <3>2
    <3>4. {lines[i].name : i \in 1..1} = {"close"}
      BY <1>1, <3>2, <3>3
    <3>5. NamesTo(m, Len(lines)) = {"close"} /\ \A i \in 1..Len(lines) : lines[i].kind = "header"
      BY <1>1, <1>2, <3>2, <3>3, <3>4
    <3>6. /\ lines \in Seq(Token) /\ Len(lines) \in 0..2
          /\ \A i \in 1..Len(lines) : lines[i].kind = "header"
          /\ NamesTo(m, Len(lines)) = (IF m.close THEN {"close"} ELSE {}) \cup names
      BY <1>4, <2>1, <3>3, <3>5
    <3> QED BY <3>6 DEF lines, names
  <2>2. CASE ~m.close
    <3>1. lines = << >>
      BY <1>4, <2>2, HeaderTuples
    <3> HIDE DEF lines
    <3>2. lines \in Seq(Token) /\ Len(lines) = 0 /\ {lines[i].name : i \in 1..0} = {}
      BY <3>1
    <3>3. NamesTo(m, Len(lines)) = {} /\ \A i \in 1..Len(lines) : lines[i].kind = "header"
      BY <1>2, <3>2
    <3>4. /\ lines \in Seq(Token) /\ Len(lines) \in 0..2
          /\ \A i \in 1..Len(lines) : lines[i].kind = "header"
          /\ NamesTo(m, Len(lines)) = (IF m.close THEN {"close"} ELSE {}) \cup names
      BY <1>4, <2>2, <3>2, <3>3
    <3> QED BY <3>4 DEF lines, names
  <2> QED BY <2>1, <2>2
<1>5. ASSUME NEW name \in HeaderName, FramingLine(m) = << Header(name) >>, names = {name}
      PROVE  /\ lines \in Seq(Token) /\ Len(lines) \in 0..2
             /\ \A i \in 1..Len(lines) : lines[i].kind = "header"
             /\ NamesTo(m, Len(lines)) = (IF m.close THEN {"close"} ELSE {}) \cup names
  <2>1. CASE m.close
    <3>1. lines = << Header("close"), Header(name) >>
      BY <1>1, <1>5, <2>1, HeaderTuples
    <3>2. "close" \in HeaderName
      BY DEF HeaderName
    <3> HIDE DEF lines
    <3>3. lines \in Seq(Token) /\ Len(lines) = 2 /\ lines[1] = Header("close")
            /\ lines[2] = Header(name)
      BY <1>1, <3>1, <3>2
    <3>4. {lines[i].name : i \in 1..2} = {"close", name}
      BY <1>1, <3>2, <3>3
    <3>5. \A i \in 1..2 : lines[i].kind = "header"
      BY <1>1, <3>2, <3>3
    <3> QED BY <1>2, <1>5, <2>1, <3>3, <3>4, <3>5
  <2>2. CASE ~m.close
    <3>1. lines = << Header(name) >>
      BY <1>1, <1>5, <2>2, HeaderTuples
    <3> HIDE DEF lines
    <3>3. lines \in Seq(Token) /\ Len(lines) = 1 /\ lines[1] = Header(name)
      BY <1>1, <3>1
    <3>4. {lines[i].name : i \in 1..1} = {name}
      BY <1>1, <3>3
    <3> QED BY <1>1, <1>2, <1>5, <2>2, <3>3, <3>4
  <2> QED BY <2>1, <2>2
<1> QED BY <1>3, <1>4, <1>5 DEF names

LEMMA OverlongHeaders ==
    ASSUME NEW m \in Message, m.framing = "overlong"
    PROVE  /\ HeaderLines(m) \in Seq(Token) /\ Len(HeaderLines(m)) \in 1..2
           /\ HeaderLines(m)[Len(HeaderLines(m))] = Overlong
           /\ \A i \in 1..(Len(HeaderLines(m)) - 1) : HeaderLines(m)[i].kind = "header"
<1>1. FramingLine(m) = << Overlong >>
  BY DEF FramingLine
<1>2. Overlong \in Token /\ Header("close") \in Token /\ Header("close").kind = "header"
  BY DEF Overlong, Header, Token, HeaderName
<1> DEFINE lines == HeaderLines(m)
<1>3. lines = << Overlong >> \/ lines = << Header("close"), Overlong >>
  BY <1>1, <1>2, HeaderTuples
<1> HIDE DEF lines
<1>4. CASE lines = << Overlong >>
  <2>1. lines \in Seq(Token) /\ Len(lines) = 1 /\ lines[1] = Overlong
    BY <1>2, <1>4
  <2> QED BY <2>1 DEF lines
<1>5. CASE lines = << Header("close"), Overlong >>
  <2>1. lines \in Seq(Token) /\ Len(lines) = 2 /\ lines[1] = Header("close") /\ lines[2] = Overlong
    BY <1>2, <1>5
  <2> QED BY <1>2, <2>1 DEF lines
<1> QED BY <1>3, <1>4, <1>5

LEMMA TooManyHeaders ==
    ASSUME NEW m \in Message, m.framing = "tooMany"
    PROVE  /\ HeaderLines(m) \in Seq(Token) /\ Len(HeaderLines(m)) = MaxHeaders + 1
           /\ \A i \in 1..Len(HeaderLines(m)) : HeaderLines(m)[i].kind = "header"
<1> DEFINE count == MaxHeaders + (IF m.close THEN 0 ELSE 1)
           many == [i \in 1..count |-> Header("other")]
           first == IF m.close THEN << Header("close") >> ELSE << >>
<1>1. MaxHeaders \in Nat /\ count \in Nat
  BY ServerAssumption
<1>2. \A name \in {"close", "other"} : Header(name) \in Token /\ Header(name).kind = "header"
  BY DEF Header, Token, HeaderName
<1>3. many \in Seq(Token) /\ Len(many) = count /\ \A i \in 1..count : many[i].kind = "header"
  <2> HIDE DEF count
  <2> QED BY <1>1, <1>2
<1>4. first \in Seq(Token) /\ Len(first) = (IF m.close THEN 1 ELSE 0)
        /\ \A i \in 1..Len(first) : first[i].kind = "header"
  BY <1>2
<1>5. HeaderLines(m) = first \o many
  BY DEF HeaderLines
<1> HIDE DEF first, many
<1>6. /\ first \o many \in Seq(Token) /\ Len(first \o many) = Len(first) + Len(many)
      /\ \A i \in 1..Len(first) : (first \o many)[i] = first[i]
      /\ \A i \in 1..Len(many) : (first \o many)[Len(first) + i] = many[i]
  BY <1>3, <1>4, ConcatFacts
<1>7. Len(first \o many) = MaxHeaders + 1
  BY <1>1, <1>3, <1>4, <1>6
<1>8. ASSUME NEW i \in 1..(MaxHeaders + 1) PROVE (first \o many)[i].kind = "header"
  <2>1. CASE i <= Len(first)
    BY <2>1, <1>1, <1>4, <1>6
  <2>2. CASE ~(i <= Len(first))
    <3>0. i > Len(first)
      BY <2>2, <1>4
    <3>1. i - Len(first) \in 1..Len(many) /\ i = Len(first) + (i - Len(first))
            /\ Len(many) = count
      BY <3>0, <1>1, <1>3, <1>4
    <3>2. PICK k \in 1..Len(many) : i = Len(first) + k
      BY <3>1
    <3>3. (first \o many)[Len(first) + k] = many[k]
      BY <1>6
    <3>4. many[k].kind = "header"
      BY <1>3
    <3>5. (first \o many)[i] = many[k]
      BY <3>2, <3>3
    <3> QED BY <3>4, <3>5
  <2> QED BY <2>1, <2>2
<1> QED BY <1>5, <1>6, <1>7, <1>8

LEMMA HeaderLinesType ==
    ASSUME NEW m \in Message
    PROVE  HeaderLines(m) \in Seq(Token) /\ Len(HeaderLines(m)) \in Nat
<1>1. HeaderLines(m) \in Seq(Token)
  BY ShortNames, OverlongHeaders, TooManyHeaders
<1> QED BY <1>1

LEMMA TokensShape ==
    ASSUME NEW m \in Message, m.framing # "junk"
    PROVE  /\ Len(Tokens(m)) = Len(HeaderLines(m)) + 2 + Len(BodyTokens(m))
           /\ Len(BodyTokens(m)) \in Nat
           /\ Tokens(m)[1] = RequestLine(m)
           /\ \A i \in 1..Len(HeaderLines(m)) : Tokens(m)[i + 1] = HeaderLines(m)[i]
           /\ Tokens(m)[Len(HeaderLines(m)) + 2] = Blank
           /\ \A i \in 1..Len(BodyTokens(m)) :
                 Tokens(m)[Len(HeaderLines(m)) + 2 + i] = BodyTokens(m)[i]
<1> DEFINE a == << RequestLine(m) >>
           b == HeaderLines(m)
           u == << Blank >>
           v == BodyTokens(m)
<1>1. b \in Seq(Token) /\ Len(b) \in Nat
  BY HeaderLinesType
<1>2. /\ Blank \in Token /\ Body \in Token /\ Size(0) \in Token /\ Size(1) \in Token
      /\ Junk \in Token /\ RequestLine(m) \in Token
  BY DEF Blank, Junk, Body, Size, RequestLine, Message, Token, RequestToken
<1>3. v \in Seq(Token)
  BY <1>2 DEF BodyTokens
<1>4. /\ a \in Seq(Token) /\ Len(a) = 1 /\ a[1] = RequestLine(m)
      /\ u \in Seq(Token) /\ Len(u) = 1 /\ u[1] = Blank
  BY <1>2
<1>5. Tokens(m) = ((a \o b) \o u) \o v
  BY DEF Tokens
<1> HIDE DEF a, b, u, v
<1> DEFINE ab == a \o b
           abu == ab \o u
           abuv == abu \o v
<1>6. /\ ab \in Seq(Token) /\ Len(ab) = 1 + Len(b)
      /\ ab[1] = RequestLine(m) /\ \A i \in 1..Len(b) : ab[1 + i] = b[i]
  <2>0. a \in Seq(Token) /\ b \in Seq(Token)
    BY <1>1, <1>4
  <2>1. /\ a \o b \in Seq(Token) /\ Len(a \o b) = Len(a) + Len(b)
        /\ \A i \in 1..Len(a) : (a \o b)[i] = a[i]
        /\ \A i \in 1..Len(b) : (a \o b)[Len(a) + i] = b[i]
    BY <2>0, ConcatFacts
  <2> QED BY <1>4, <2>1
<1> HIDE DEF ab
<1>7. /\ abu \in Seq(Token) /\ Len(abu) = Len(b) + 2
      /\ \A i \in 1..(Len(b) + 1) : abu[i] = ab[i]
      /\ abu[Len(b) + 2] = Blank
  <2>1. /\ ab \o u \in Seq(Token) /\ Len(ab \o u) = Len(ab) + Len(u)
        /\ \A i \in 1..Len(ab) : (ab \o u)[i] = ab[i]
        /\ \A i \in 1..Len(u) : (ab \o u)[Len(ab) + i] = u[i]
    <3>1. ab \in Seq(Token) /\ u \in Seq(Token)
      BY <1>4, <1>6
    <3> QED BY <3>1, ConcatFacts
  <2>2. Len(ab) + 1 = Len(b) + 2 /\ 1 \in 1..Len(u)
    BY <1>1, <1>4, <1>6
  <2> QED BY <1>1, <1>4, <1>6, <2>1, <2>2
<1> HIDE DEF abu
<1>8. /\ abuv \in Seq(Token) /\ Len(abuv) = Len(b) + 2 + Len(v) /\ Len(v) \in Nat
      /\ \A i \in 1..(Len(b) + 2) : abuv[i] = abu[i]
      /\ \A i \in 1..Len(v) : abuv[Len(b) + 2 + i] = v[i]
  <2>1. /\ abu \o v \in Seq(Token) /\ Len(abu \o v) = Len(abu) + Len(v) /\ Len(v) \in Nat
        /\ \A i \in 1..Len(abu) : (abu \o v)[i] = abu[i]
        /\ \A i \in 1..Len(v) : (abu \o v)[Len(abu) + i] = v[i]
    <3>1. abu \in Seq(Token) /\ v \in Seq(Token)
      BY <1>3, <1>7
    <3> QED BY <3>1, ConcatFacts
  <2> QED BY <1>1, <1>7, <2>1
<1>9. Tokens(m) = abuv
  BY <1>5 DEF abu, ab
<1> HIDE DEF abuv
<1>10. abuv[1] = RequestLine(m) /\ abuv[Len(b) + 2] = Blank
  BY <1>1, <1>6, <1>7, <1>8
<1>11. \A i \in 1..Len(b) : abuv[i + 1] = b[i]
  <2> TAKE i \in 1..Len(b)
  <2>1. i + 1 \in 1..(Len(b) + 1) /\ i + 1 \in 1..(Len(b) + 2) /\ 1 + i = i + 1
    BY <1>1
  <2> QED BY <1>6, <1>7, <1>8, <2>1
<1> QED BY <1>8, <1>9, <1>10, <1>11 DEF b, v

LEMMA BodyShape ==
    ASSUME NEW m \in Message
    PROVE  /\ m.framing = "sized" => /\ Len(BodyTokens(m)) = 1 /\ BodyTokens(m)[1] = Body
           /\ m.framing = "trailed" => /\ Len(BodyTokens(m)) = 2 /\ BodyTokens(m)[1] = Body
                                       /\ BodyTokens(m)[2] = Blank
           /\ m.framing = "chunked" => /\ Len(BodyTokens(m)) = 5 /\ BodyTokens(m)[1] = Size(1)
                                       /\ BodyTokens(m)[2] = Body /\ BodyTokens(m)[3] = Blank
                                       /\ BodyTokens(m)[4] = Size(0) /\ BodyTokens(m)[5] = Blank
           /\ m.framing = "badSize" => /\ Len(BodyTokens(m)) = 1 /\ BodyTokens(m)[1] = Junk
           /\ m.framing \notin {"sized", "trailed", "chunked", "badSize"} =>
                 Len(BodyTokens(m)) = 0
BY DEF BodyTokens

LEMMA BodyLength ==
    ASSUME NEW m \in Message
    PROVE  /\ m.framing \in {"sized", "badSize"} => Len(BodyTokens(m)) = 1
           /\ m.framing = "trailed" => Len(BodyTokens(m)) = 2
           /\ m.framing = "chunked" => Len(BodyTokens(m)) = 5
           /\ m.framing \notin {"sized", "trailed", "chunked", "badSize"} =>
                 Len(BodyTokens(m)) = 0
BY BodyShape

\* How many tokens of the message past its header lines the reader needs.
Needed(framing, atEnd) ==
    CASE framing \in {"overlong", "tooMany"} -> 1
      [] framing \in {"none", "badLength"} -> 2
      [] framing \in {"sized", "trailed", "badSize"} -> 3
      [] framing = "chunked" -> IF atEnd THEN 6 ELSE 7

LEMMA WholeLength ==
    ASSUME NEW m \in Message, NEW atEnd \in BOOLEAN, m.framing # "junk"
    PROVE  WholeAt(m, atEnd) = Len(HeaderLines(m)) + Needed(m.framing, atEnd)
<1> DEFINE one == IF m.framing \in {"trailed", "overlong", "tooMany"} THEN 1
                  ELSE IF m.framing = "chunked" /\ atEnd THEN 1 ELSE 0
           all == Len(Tokens(m))
           body == Len(BodyTokens(m))
           lines == Len(HeaderLines(m))
           needed == Needed(m.framing, atEnd)
<1>1. lines \in Nat /\ body \in Nat /\ all = lines + 2 + body
  BY HeaderLinesType, TokensShape
<1>2. WholeAt(m, atEnd) = all - one
  <2>1. CASE atEnd
    BY <2>1 DEF WholeAt
  <2>2. CASE ~atEnd
    BY <2>2 DEF WholeAt
  <2> QED BY <2>1, <2>2
<1>3. one \in {0, 1} /\ needed = 2 + body - one
  <2>1. m.framing \in Framing
    BY DEF Message
  <2>2. CASE m.framing \in {"overlong", "tooMany"}
    <3>1. body = 0 /\ one = 1
      BY <2>2, BodyLength
    <3>2. needed = 1
      BY <2>2 DEF Needed
    <3> HIDE DEF body, one, needed
    <3> QED BY <3>1, <3>2
  <2>3. CASE m.framing \in {"none", "badLength"}
    <3>1. body = 0 /\ one = 0
      BY <2>3, BodyLength
    <3>2. needed = 2
      BY <2>3 DEF Needed
    <3> HIDE DEF body, one, needed
    <3> QED BY <3>1, <3>2
  <2>4. CASE m.framing \in {"sized", "badSize"}
    <3>1. body = 1 /\ one = 0
      BY <2>4, BodyLength
    <3>2. needed = 3
      BY <2>4 DEF Needed
    <3> HIDE DEF body, one, needed
    <3> QED BY <3>1, <3>2
  <2>5. CASE m.framing = "trailed"
    <3>1. body = 2 /\ one = 1
      BY <2>5, BodyLength
    <3>2. needed = 3
      BY <2>5 DEF Needed
    <3> HIDE DEF body, one, needed
    <3> QED BY <3>1, <3>2
  <2>6. CASE m.framing = "chunked" /\ atEnd
    <3>1. body = 5 /\ one = 1
      BY <2>6, BodyLength
    <3>2. needed = 6
      BY <2>6 DEF Needed
    <3> HIDE DEF body, one, needed
    <3> QED BY <3>1, <3>2
  <2>7. CASE m.framing = "chunked" /\ ~atEnd
    <3>1. body = 5 /\ one = 0
      BY <2>7, BodyLength
    <3>2. needed = 7
      BY <2>7 DEF Needed
    <3> HIDE DEF body, one, needed
    <3> QED BY <3>1, <3>2
  <2> QED BY <2>1, <2>2, <2>3, <2>4, <2>5, <2>6, <2>7 DEF Framing
<1> HIDE DEF one, all, body, lines, needed
<1>4. all - one = lines + needed
  BY <1>1, <1>3
<1> QED BY <1>2, <1>4 DEF lines, needed

LEMMA WholeJunk ==
    ASSUME NEW m \in Message, NEW atEnd \in BOOLEAN, m.framing = "junk"
    PROVE  WholeAt(m, atEnd) = 1 /\ Tokens(m) = << Junk >>
<1>1. Tokens(m) = << Junk >> /\ Len(Tokens(m)) = 1
  BY DEF Tokens
<1>2. CASE atEnd
  BY <1>1, <1>2 DEF WholeAt
<1>3. CASE ~atEnd
  BY <1>1, <1>3 DEF WholeAt
<1> QED BY <1>1, <1>2, <1>3

LEMMA NeededRange ==
    ASSUME NEW m \in Message, NEW atEnd \in BOOLEAN, m.framing # "junk"
    PROVE  /\ Needed(m.framing, atEnd) \in 1..(2 + Len(BodyTokens(m)))
           /\ Needed(m.framing, atEnd) <= Needed(m.framing, FALSE)
<1>1. m.framing \in Framing
  BY DEF Message
<1>2. CASE atEnd
  BY <1>1, <1>2, BodyShape DEF Framing, Needed
<1>3. CASE ~atEnd
  BY <1>1, <1>3, BodyShape DEF Framing, Needed
<1> QED BY <1>2, <1>3

LEMMA WholeRange ==
    ASSUME NEW m \in Message, NEW atEnd \in BOOLEAN
    PROVE  /\ WholeAt(m, atEnd) \in 1..Len(Tokens(m))
           /\ WholeAt(m, atEnd) <= WholeAt(m, FALSE)
<1>1. CASE m.framing = "junk"
  <2>1. WholeAt(m, atEnd) = 1 /\ WholeAt(m, FALSE) = 1 /\ Tokens(m) = << Junk >>
    BY <1>1, WholeJunk
  <2>2. 1 \in 1..Len(<< Junk >>) /\ 1 <= 1
    OBVIOUS
  <2> QED BY <2>1, <2>2
<1>2. CASE m.framing # "junk"
  <2> DEFINE lines == Len(HeaderLines(m))
             body == Len(BodyTokens(m))
             here == Needed(m.framing, atEnd)
             there == Needed(m.framing, FALSE)
             all == Len(Tokens(m))
  <2>1. WholeAt(m, atEnd) = lines + here /\ WholeAt(m, FALSE) = lines + there
    BY <1>2, WholeLength
  <2>2. here \in 1..(2 + body) /\ there \in 1..(2 + body) /\ here <= there
    BY <1>2, NeededRange
  <2>3. lines \in Nat /\ body \in Nat /\ all = lines + 2 + body
    BY <1>2, HeaderLinesType, TokensShape
  <2> HIDE DEF lines, body, here, there, all
  <2>4. lines + here \in 1..all /\ lines + here <= lines + there
    BY <2>2, <2>3
  <2> QED BY <2>1, <2>4 DEF all
<1> QED BY <1>1, <1>2

-----------------------------------------------------------------------------
(* What was sent of a message *)

\* The first tokens of it are the ones of the message.
Exact(m, tokens, j) ==
    /\ j <= Len(tokens)
    /\ \A i \in 1..j : tokens[i] = Tokens(m)[i]

\* The tokens go as far as they go, and where the input ends the last one may
\* be cut short.
Piece(m, tokens, atEnd) ==
    /\ Len(tokens) <= Len(Tokens(m))
    /\ \A i \in 1..Len(tokens) :
          \/ tokens[i] = Tokens(m)[i]
          \/ atEnd /\ i = Len(tokens) /\ tokens[i] \in CutShort(Tokens(m)[i])

Whole(m, tokens, atEnd) == Exact(m, tokens, WholeAt(m, atEnd))

LEMMA WholeIsWhole ==
    ASSUME NEW m \in Message, NEW tokens \in Seq(Token), NEW atEnd \in BOOLEAN
    PROVE  IsWhole(m, tokens, atEnd) <=> Whole(m, tokens, atEnd)
<1> DEFINE all == Tokens(m)
           n == WholeAt(m, atEnd)
<1>0. all \in Seq(Token) /\ n \in 1..Len(all)
  BY TokensType, WholeRange
<1> HIDE DEF all, n
<1>1. all \in Seq(Token) /\ n \in 1..Len(all) /\ Len(all) \in Nat
  BY <1>0
<1>2. SubSeq(all, 1, n) \in Seq(Token) /\ Len(SubSeq(all, 1, n)) = n
        /\ \A i \in 1..n : SubSeq(all, 1, n)[i] = all[i]
  <2>1. SubSeq(all, 1, n) = [i \in 1..n |-> all[i]] /\ n \in Nat
    BY <1>1
  <2>2. \A i \in 1..n : all[i] \in Token
    BY <1>1
  <2> QED BY <2>1, <2>2
<1> DEFINE front == SubSeq(all, 1, n)
<1>3. IsPrefix(front, tokens) <=> n <= Len(tokens) /\ \A i \in 1..n : tokens[i] = all[i]
  <2> HIDE DEF front
  <2>1. front \in Seq(Token) /\ Len(front) = n /\ (\A i \in 1..n : front[i] = all[i]) /\ n \in Nat
    BY <1>1, <1>2 DEF front
  <2>2. SubSeq(front, 1, n) = [i \in 1..n |-> front[i]]
    BY <2>1
  <2>3. n <= Len(tokens) => SubSeq(tokens, 1, n) = [i \in 1..n |-> tokens[i]]
    BY <2>1
  <2>4. [i \in 1..n |-> front[i]] = [i \in 1..n |-> tokens[i]]
           <=> \A i \in 1..n : front[i] = tokens[i]
    <3>1. ASSUME [i \in 1..n |-> front[i]] = [i \in 1..n |-> tokens[i]], NEW i \in 1..n
          PROVE  front[i] = tokens[i]
      <4>1. [k \in 1..n |-> front[k]][i] = [k \in 1..n |-> tokens[k]][i]
        BY <3>1
      <4> QED BY <4>1
    <3> QED BY <3>1
  <2> QED BY <2>1, <2>2, <2>3, <2>4 DEF IsPrefix
<1> QED BY <1>3 DEF IsWhole, Whole, Exact, all, n

LEMMA ExactLess ==
    ASSUME NEW m, NEW tokens \in Seq(Token), NEW j \in Nat, NEW k \in Nat, k <= j,
           Exact(m, tokens, j)
    PROVE  Exact(m, tokens, k)
BY DEF Exact

LEMMA WholeAtEnd ==
    ASSUME NEW m \in Message, NEW tokens \in Seq(Token), NEW atEnd \in BOOLEAN,
           Whole(m, tokens, FALSE)
    PROVE  Whole(m, tokens, atEnd)
<1> DEFINE n == WholeAt(m, FALSE)
           k == WholeAt(m, atEnd)
<1>1. n \in 1..Len(Tokens(m)) /\ k \in 1..Len(Tokens(m)) /\ k <= n
  BY WholeRange
<1>2. Exact(m, tokens, n)
  BY DEF Whole
<1> HIDE DEF n, k
<1>3. n \in Nat /\ k \in Nat
  BY <1>1
<1>4. Exact(m, tokens, k)
  BY <1>1, <1>2, <1>3, ExactLess
<1> QED BY <1>4 DEF Whole, k

LEMMA PieceAtEnd ==
    ASSUME NEW m \in Message, NEW tokens, NEW atEnd \in BOOLEAN, Piece(m, tokens, FALSE)
    PROVE  Piece(m, tokens, atEnd)
BY DEF Piece

LEMMA WholeNotEmpty ==
    ASSUME NEW m \in Message, NEW tokens \in Seq(Token), NEW atEnd \in BOOLEAN,
           Whole(m, tokens, atEnd)
    PROVE  tokens # << >> /\ tokens[1] = Tokens(m)[1]
<1> DEFINE n == WholeAt(m, atEnd)
<1>1. n \in 1..Len(Tokens(m)) /\ Exact(m, tokens, n)
  BY WholeRange DEF Whole
<1> HIDE DEF n
<1>2. Len(tokens) \in Nat /\ n \in Nat /\ n >= 1 /\ 1 \in 1..n
  BY <1>1
<1>3. Len(tokens) >= 1 /\ tokens[1] = Tokens(m)[1]
  BY <1>1, <1>2 DEF Exact
<1> QED BY <1>2, <1>3

LEMMA SentPieces ==
    ASSUME NEW m \in Message
    PROVE  /\ Piece(m, Tokens(m), FALSE) /\ Whole(m, Tokens(m), FALSE)
           /\ \A tokens \in Beginnings(m) : Piece(m, tokens, FALSE)
           /\ \A tokens \in Beginnings(m) \cup Stumps(m) : Piece(m, tokens, TRUE)
<1> DEFINE all == Tokens(m)
           n == WholeAt(m, FALSE)
<1>0. all \in Seq(Token) /\ n \in 1..Len(all)
  BY TokensType, WholeRange
<1>1. all \in Seq(Token) /\ Len(all) \in Nat
  BY <1>0
<1> HIDE DEF n
<1>2. Piece(m, all, FALSE) /\ Whole(m, all, FALSE)
  <2>1. Exact(m, all, n)
    BY <1>0 DEF Exact
  <2>2. Piece(m, all, FALSE)
    BY <1>1 DEF Piece
  <2> QED BY <2>1, <2>2 DEF Whole, n
<1> HIDE DEF all
<1>3. \A k \in 0..Len(all) : SubSeq(all, 1, k) \in Seq(Token) /\ Len(SubSeq(all, 1, k)) = k
         /\ \A i \in 1..k : SubSeq(all, 1, k)[i] = all[i]
  <2> TAKE k \in 0..Len(all)
  <2>1. SubSeq(all, 1, k) = [i \in 1..k |-> all[i]] /\ k \in Nat
    BY <1>1
  <2>2. \A i \in 1..k : all[i] \in Token
    BY <1>1
  <2> QED BY <2>1, <2>2
<1>4. ASSUME NEW tokens \in Beginnings(m), NEW e \in BOOLEAN PROVE Piece(m, tokens, e)
  <2>1. PICK k \in 0..(Len(all) - 1) : tokens = SubSeq(all, 1, k)
    BY DEF Beginnings, all
  <2>2. Len(tokens) = k /\ k <= Len(all) /\ \A i \in 1..k : tokens[i] = all[i]
    BY <1>1, <1>3, <2>1
  <2> QED BY <2>2 DEF Piece, all
<1>5. ASSUME NEW tokens \in Stumps(m) PROVE Piece(m, tokens, TRUE)
  <2>1. PICK k \in 1..Len(all) : \E t \in CutShort(all[k]) :
           tokens = Append(SubSeq(all, 1, k - 1), t)
    BY DEF Stumps, all
  <2>2. PICK t \in CutShort(all[k]) : tokens = Append(SubSeq(all, 1, k - 1), t)
    BY <2>1
  <2>3. all[k] \in Token
    BY <1>1
  <2>4. t \in Token
    BY <2>2, <2>3 DEF CutShort, Junk, Header, Token, HeaderName
  <2> DEFINE s == SubSeq(all, 1, k - 1)
  <2>5. s \in Seq(Token) /\ Len(s) = k - 1 /\ \A i \in 1..(k - 1) : s[i] = all[i]
    BY <1>1, <1>3
  <2> HIDE DEF s
  <2>6. Len(tokens) = k /\ tokens[k] = t /\ \A i \in 1..(k - 1) : tokens[i] = all[i]
    BY <1>1, <2>2, <2>4, <2>5 DEF s
  <2>7. \A i \in 1..k : i \in 1..(k - 1) \/ i = k
    BY <1>1
  <2> QED BY <1>1, <2>2, <2>6, <2>7 DEF Piece, all
<1> QED BY <1>2, <1>4, <1>5 DEF all

LEMMA CutTokens ==
    ASSUME NEW t, NEW u \in CutShort(t), u # t
    PROVE  /\ t.kind \in {"request", "header", "blank"} /\ u.kind \in {"junk", "header"}
           /\ t.kind # "request" => u = Header("other")
BY DEF CutShort, Junk, Header

-----------------------------------------------------------------------------
(* What one connection holds, and how it hangs together *)

View(c) == [wire |-> wire[c], client |-> client[c], at |-> at[c], cur |-> cur[c],
            sent |-> sent[c], handled |-> handled[c], expired |-> expired[c]]

Routed(x) == Len(x.handled)

\* Nothing follows and nothing will: the message may have been cut short.
Ended(x, rest) == x.client = "gone" /\ rest = << >>

PieceOf(x, m, tokens, rest) ==
    Piece(m, tokens, FALSE) \/ (Ended(x, rest) /\ Piece(m, tokens, TRUE))

WholeOf(x, m, tokens, rest) ==
    Whole(m, tokens, FALSE) \/ (Ended(x, rest) /\ Whole(m, tokens, TRUE))

\* stream[i] is what the client has sent after the i-th message it sent whole.
Streams(x, stream) ==
    /\ stream \in [0..Len(x.sent) -> Seq(Token)]
    /\ \A i \in 1..Len(x.sent) : \E tokens \in Seq(Token) :
          /\ stream[i - 1] = tokens \o stream[i]
          /\ PieceOf(x, x.sent[i], tokens, stream[i])
          /\ WholeOf(x, x.sent[i], tokens, stream[i])
    /\ stream[Len(x.sent)] # << >> =>
          /\ x.client # "sending"
          /\ \E m \in Message : /\ PieceOf(x, m, stream[Len(x.sent)], << >>)
                                /\ ~WholeOf(x, m, stream[Len(x.sent)], << >>)

\* The message the reader is in, what was sent of it, and what follows.
Within(x, stream, m, tokens, rest) ==
    /\ stream[Routed(x)] = tokens \o rest
    /\ PieceOf(x, m, tokens, rest)
    /\ \/ /\ Routed(x) < Len(x.sent)
          /\ m = x.sent[Routed(x) + 1]
          /\ rest = stream[Routed(x) + 1]
          /\ WholeOf(x, m, tokens, rest)
       \/ /\ Routed(x) = Len(x.sent)
          /\ rest = << >>
          /\ x.client # "sending"
          /\ ~WholeOf(x, m, tokens, rest)

LEMMA NextWithin ==
    ASSUME NEW x, NEW stream, x.sent \in Seq(Message), Routed(x) \in 0..Len(x.sent),
           Streams(x, stream), stream[Routed(x)] # << >>
    PROVE  \E m \in Message, tokens, rest \in Seq(Token) :
              Within(x, stream, m, tokens, rest)
<1> DEFINE n == Len(x.sent)
           k == Routed(x)
<1>1. n \in Nat /\ k \in 0..n /\ stream \in [0..n -> Seq(Token)]
  BY DEF Streams
<1>2. CASE k = n
  <2>1. x.client # "sending"
    BY <1>2 DEF Streams
  <2>2. PICK m \in Message : PieceOf(x, m, stream[n], << >>) /\ ~WholeOf(x, m, stream[n], << >>)
    BY <1>2 DEF Streams
  <2>3. stream[n] \in Seq(Token) /\ << >> \in Seq(Token)
    BY <1>1
  <2>4. stream[n] = stream[n] \o << >>
    BY <2>3, ConcatFacts
  <2>5. Within(x, stream, m, stream[n], << >>)
    BY <1>2, <2>1, <2>2, <2>4 DEF Within
  <2> QED BY <2>3, <2>5
<1>3. CASE k < n
  <2>1. k + 1 \in 1..n /\ (k + 1) - 1 = k
    BY <1>1, <1>3
  <2>2. PICK tokens \in Seq(Token) :
           /\ stream[k] = tokens \o stream[k + 1]
           /\ PieceOf(x, x.sent[k + 1], tokens, stream[k + 1])
           /\ WholeOf(x, x.sent[k + 1], tokens, stream[k + 1])
    BY <2>1 DEF Streams
  <2>3. stream[k + 1] \in Seq(Token) /\ x.sent[k + 1] \in Message
    BY <1>1, <2>1
  <2>4. Within(x, stream, x.sent[k + 1], tokens, stream[k + 1])
    BY <1>3, <2>2 DEF Within
  <2> QED BY <2>3, <2>4
<1> QED BY <1>1, <1>2, <1>3

\* The reader never looks past the message it is in.
LEMMA StillWithin ==
    ASSUME NEW x, NEW stream, NEW m \in Message, NEW tokens \in Seq(Token),
           NEW rest \in Seq(Token), NEW j \in Nat,
           Within(x, stream, m, tokens, rest), j < WholeAt(m, FALSE),
           j < Len(stream[Routed(x)])
    PROVE  j < Len(tokens)
<1> DEFINE n == WholeAt(m, FALSE)
<1>1. n \in 1..Len(Tokens(m))
  BY WholeRange
<1>2. n \in Nat
  <2> HIDE DEF n
  <2> QED BY <1>1
<1>3. CASE rest = << >>
  <2>1. tokens \o << >> = tokens
    BY ConcatFacts
  <2> QED BY <1>3, <2>1 DEF Within
<1>4. CASE rest # << >>
  <2>1. Whole(m, tokens, FALSE)
    BY <1>4 DEF Within, WholeOf, Ended
  <2>2. n <= Len(tokens)
    BY <2>1 DEF Whole, Exact
  <2> HIDE DEF n
  <2>3. j < n
    BY DEF n
  <2> QED BY <1>2, <2>2, <2>3
<1> QED BY <1>3, <1>4

LEMMA ReadAt ==
    ASSUME NEW x, NEW stream, NEW m \in Message, NEW tokens \in Seq(Token),
           NEW rest \in Seq(Token), NEW j \in Nat,
           Within(x, stream, m, tokens, rest), Exact(m, tokens, j), j < WholeAt(m, FALSE),
           stream[Routed(x)] \in Seq(Token),
           x.wire = Drop(stream[Routed(x)], j), x.wire # << >>
    PROVE  /\ Tail(x.wire) = Drop(stream[Routed(x)], j + 1)
           /\ j + 1 <= Len(tokens)
           /\ \/ Head(x.wire) = Tokens(m)[j + 1] /\ Exact(m, tokens, j + 1)
              \/ /\ x.client = "gone" /\ rest = << >> /\ Tail(x.wire) = << >>
                 /\ Head(x.wire) # Tokens(m)[j + 1]
                 /\ Head(x.wire) \in CutShort(Tokens(m)[j + 1])
<1> DEFINE s == stream[Routed(x)]
<1>1. s \in Seq(Token) /\ Len(s) \in Nat /\ Len(tokens) \in Nat /\ s = tokens \o rest
  BY DEF Within
<1>2. j < Len(s)
  <2>1. j <= Len(tokens)
    BY DEF Exact
  <2>2. Len(s) = Len(tokens) + Len(rest) /\ Len(rest) \in Nat
    BY <1>1, ConcatFacts
  <2>3. j \in 0..Len(s)
    BY <1>1, <2>1, <2>2
  <2>4. Drop(s, j) = << >> <=> j = Len(s)
    <3>1. s \in Seq(Token)
      BY <1>1
    <3> HIDE DEF s
    <3> QED BY <2>3, <3>1, DropFacts
  <2> QED BY <1>1, <2>3, <2>4
<1>3. j < Len(tokens)
  BY <1>2, StillWithin
<1>4. x.wire # << >> /\ Head(x.wire) = s[j + 1] /\ Tail(x.wire) = Drop(s, j + 1)
  BY <1>1, <1>2, DropRead
<1>5. s[j + 1] = tokens[j + 1] /\ j + 1 \in 1..Len(tokens)
  <2>1. j + 1 \in 1..Len(tokens)
    BY <1>1, <1>3
  <2>2. (tokens \o rest)[j + 1] = tokens[j + 1]
    BY <2>1, ConcatFacts
  <2> QED BY <1>1, <2>1, <2>2
<1>6. CASE tokens[j + 1] = Tokens(m)[j + 1]
  <2>1. Exact(m, tokens, j + 1)
    <3>1. \A i \in 1..(j + 1) : i \in 1..j \/ i = j + 1
      OBVIOUS
    <3> QED BY <1>5, <1>6, <3>1 DEF Exact
  <2> QED BY <1>4, <1>5, <1>6, <2>1
<1>7. CASE tokens[j + 1] # Tokens(m)[j + 1]
  <2>1. ~Piece(m, tokens, FALSE)
    BY <1>5, <1>7 DEF Piece
  <2>2. Ended(x, rest) /\ Piece(m, tokens, TRUE)
    BY <2>1 DEF Within, PieceOf
  <2>3. j + 1 = Len(tokens) /\ tokens[j + 1] \in CutShort(Tokens(m)[j + 1])
    BY <1>5, <1>7, <2>2 DEF Piece
  <2>4. s = tokens
    BY <1>1, <2>2, ConcatFacts DEF Ended
  <2>5. Drop(s, j + 1) = << >>
    <3>1. j + 1 \in 0..Len(s) /\ j + 1 = Len(s)
      BY <1>1, <2>3, <2>4
    <3> QED BY <1>1, <3>1, DropFacts
  <2>6. x.client = "gone" /\ rest = << >> /\ Tail(x.wire) = << >>
    BY <1>4, <2>2, <2>5 DEF Ended
  <2>7. Head(x.wire) = tokens[j + 1]
    BY <1>4, <1>5
  <2>8. Head(x.wire) # Tokens(m)[j + 1] /\ Head(x.wire) \in CutShort(Tokens(m)[j + 1])
    BY <1>7, <2>3, <2>7
  <2>9. j + 1 <= Len(tokens) /\ Tail(x.wire) = Drop(stream[Routed(x)], j + 1)
    BY <1>1, <1>3, <1>4
  <2> QED BY <2>6, <2>8, <2>9
<1> QED BY <1>6, <1>7

\* What the reader has read as far as it needs was sent whole.
LEMMA ReadIsSent ==
    ASSUME NEW x, NEW stream, NEW m \in Message, NEW tokens \in Seq(Token),
           NEW rest \in Seq(Token), NEW j \in Nat,
           Within(x, stream, m, tokens, rest), Exact(m, tokens, j),
           \/ WholeAt(m, FALSE) <= j
           \/ x.client = "gone" /\ rest = << >> /\ WholeAt(m, TRUE) <= j
    PROVE  /\ Routed(x) < Len(x.sent) /\ m = x.sent[Routed(x) + 1]
           /\ rest = stream[Routed(x) + 1] /\ WholeOf(x, m, tokens, rest)
<1> DEFINE n == WholeAt(m, FALSE)
           k == WholeAt(m, TRUE)
<1>1. n \in 1..Len(Tokens(m)) /\ k \in 1..Len(Tokens(m))
  BY WholeRange
<1>2. n <= j \/ (x.client = "gone" /\ rest = << >> /\ k <= j)
  OBVIOUS
<1> HIDE DEF n, k
<1>3. n \in Nat /\ k \in Nat
  BY <1>1
<1>4. CASE n <= j
  <2>1. Exact(m, tokens, n)
    BY <1>3, <1>4, ExactLess
  <2>2. Whole(m, tokens, FALSE)
    BY <2>1 DEF Whole, n
  <2> QED BY <2>2 DEF Within, WholeOf
<1>5. CASE x.client = "gone" /\ rest = << >> /\ k <= j
  <2>1. Exact(m, tokens, k)
    BY <1>3, <1>5, ExactLess
  <2>2. Whole(m, tokens, TRUE)
    BY <2>1 DEF Whole, k
  <2> QED BY <1>5, <2>2 DEF Within, WholeOf, Ended
<1> QED BY <1>2, <1>4, <1>5

\* Where exchange() is once so many tokens past the header lines are read.
StagesOf(framing) ==
    CASE framing = "none" -> {<<"route", 2>>}
      [] framing \in {"sized", "trailed"} -> {<<"body", 2>>, <<"route", 3>>}
      [] framing = "chunked" -> {<<"size", 2>>, <<"chunk", 3>>, <<"crlf", 4>>, <<"size", 5>>,
                                 <<"trailers", 6>>, <<"route", 7>>}
      [] framing = "badSize" -> {<<"size", 2>>}
      [] OTHER -> {}

InHeaders(x, m, j) ==
    /\ x.at = "headers"
    /\ j \in 1..(Len(HeaderLines(m)) + 1)
    /\ j < WholeAt(m, FALSE)
    /\ x.cur.n = j - 1
    /\ x.cur.headers = NamesTo(m, j - 1)

InBody(x, m, j) ==
    /\ <<x.at, j - Len(HeaderLines(m))>> \in StagesOf(m.framing)
    /\ "close" \in x.cur.headers <=> m.close

Midway(x, stream, m, tokens, rest, j) ==
    /\ Within(x, stream, m, tokens, rest)
    /\ m.framing # "junk"
    /\ Exact(m, tokens, j)
    /\ x.wire = Drop(stream[Routed(x)], j)
    /\ x.cur.line = RequestLine(m)
    /\ InHeaders(x, m, j) \/ InBody(x, m, j)

\* The input ended in the trailers, which need no empty line then.
Curtailed(x, stream) ==
    /\ x.at \in {"trailers", "route"} /\ x.client = "gone" /\ x.wire = << >>
    /\ Routed(x) < Len(x.sent) /\ stream[Routed(x) + 1] = << >>
    /\ x.sent[Routed(x) + 1].framing = "chunked"
    /\ x.cur.line = RequestLine(x.sent[Routed(x) + 1])
    /\ "close" \in x.cur.headers <=> x.sent[Routed(x) + 1].close

\* Between two messages a stray line may be left of the one before.
Strays == {<< >>, << Blank >>, << Header("other") >>}

Between(x, stream) == \E stray \in Strays :
    /\ x.wire = stray \o stream[Routed(x)]
    /\ stray = << Header("other") >> => x.client = "gone"

Answering(x, stream) ==
    /\ x.at = "reply" /\ Routed(x) > 0 /\ Between(x, stream)
    /\ x.cur.line = RequestLine(x.sent[Routed(x)])
    /\ "close" \in x.cur.headers <=> x.sent[Routed(x)].close

\* The input ended where it must not.
Doomed(x) == x.client = "gone" /\ x.wire = << >> /\ x.at \in Reading \ {"trailers"}

KeptOpen(x) == Routed(x) > 0 => ~Closing(x.sent[Routed(x)])

Position(x, stream) ==
    \/ Doomed(x)
    \/ Answering(x, stream)
    \/ /\ KeptOpen(x)
       /\ \/ x.at = "line" /\ Between(x, stream)
          \/ Curtailed(x, stream)
          \/ \E m \in Message, tokens, rest \in Seq(Token), j \in Nat :
                Midway(x, stream, m, tokens, rest, j)

Reason(x) ==
    \/ x.client = "gone"
    \/ x.expired /\ Routed(x) = Len(x.sent)
    \/ Routed(x) > 0 /\ Closing(x.sent[Routed(x)])
    \/ Len(x.sent) > Routed(x) /\ IllFormed(x.sent[Routed(x) + 1])

Served(x) ==
    /\ x.sent \in Seq(Message) /\ Routed(x) \in 0..Len(x.sent)
    /\ \A i \in 1..Routed(x) :
          /\ x.handled[i].req = x.sent[i].req
          /\ ~IllFormed(x.sent[i])
          /\ i < Routed(x) => ~Closing(x.sent[i])

Framed(x) ==
    /\ Served(x)
    /\ x.at = "closed" => Reason(x)
    /\ x.at # "closed" => \E stream : Streams(x, stream) /\ Position(x, stream)

-----------------------------------------------------------------------------
(* Steps that move only the reader *)

Same(x, y) == y.client = x.client /\ y.sent = x.sent /\ y.handled = x.handled

LEMMA SameHistory ==
    ASSUME NEW x, NEW y, Same(x, y)
    PROVE  /\ Routed(y) = Routed(x)
           /\ Served(x) => Served(y)
           /\ \A stream : Streams(x, stream) => Streams(y, stream)
           /\ KeptOpen(x) => KeptOpen(y)
           /\ \A stream, m, tokens, rest :
                 Within(x, stream, m, tokens, rest) => Within(y, stream, m, tokens, rest)
<1>1. Routed(y) = Routed(x)
  BY DEF Same, Routed
<1>2. Served(x) => Served(y)
  BY <1>1 DEF Same, Served
<1>3. KeptOpen(x) => KeptOpen(y)
  BY <1>1 DEF Same, KeptOpen
<1>4. ASSUME NEW m, NEW tokens, NEW rest
      PROVE  /\ PieceOf(x, m, tokens, rest) <=> PieceOf(y, m, tokens, rest)
             /\ WholeOf(x, m, tokens, rest) <=> WholeOf(y, m, tokens, rest)
  BY DEF Same, PieceOf, WholeOf, Ended
<1>5. ASSUME NEW stream, Streams(x, stream) PROVE Streams(y, stream)
  BY <1>4, <1>5 DEF Same, Streams
<1>6. ASSUME NEW stream, NEW m, NEW tokens, NEW rest, Within(x, stream, m, tokens, rest)
      PROVE  Within(y, stream, m, tokens, rest)
  BY <1>1, <1>4, <1>6 DEF Same, Within
<1> QED BY <1>1, <1>2, <1>3, <1>5, <1>6

LEMMA GoesOn ==
    ASSUME NEW x, NEW y, Framed(x), Same(x, y), NEW stream, Streams(x, stream),
           y.at # "closed", Position(y, stream)
    PROVE  Framed(y)
<1>1. Served(y) /\ Streams(y, stream)
  BY SameHistory DEF Framed
<1> QED BY <1>1 DEF Framed

LEMMA EndsFor ==
    ASSUME NEW x, NEW y, Framed(x), Same(x, y), y.at = "closed", Reason(y)
    PROVE  Framed(y)
<1>1. Served(y)
  BY SameHistory DEF Framed
<1> QED BY <1>1 DEF Framed

\* Where the input ended, what is left to say is said.
LEMMA InputOver ==
    ASSUME NEW x, NEW y, Framed(x), Same(x, y), x.at # "closed", x.client = "gone",
           y.wire = << >> \/ y.at = "closed", y.at \in (Reading \ {"trailers"}) \cup {"closed"}
    PROVE  Framed(y)
<1>1. y.client = "gone"
  BY DEF Same
<1>2. CASE y.at = "closed"
  BY <1>1, <1>2, EndsFor DEF Reason
<1>3. CASE y.at # "closed"
  <2>1. PICK stream : Streams(x, stream)
    BY DEF Framed
  <2>2. Doomed(y)
    BY <1>1, <1>3 DEF Doomed
  <2> QED BY <1>3, <2>1, <2>2, GoesOn DEF Position
<1> QED BY <1>2, <1>3

LEMMA Underway ==
    ASSUME NEW x, Framed(x), x.at \in Reading \ {"line"}, x.wire # << >>
    PROVE  \E stream : \E m \in Message, tokens, rest \in Seq(Token), j \in Nat :
              /\ Streams(x, stream) /\ KeptOpen(x)
              /\ stream[Routed(x)] \in Seq(Token)
              /\ Midway(x, stream, m, tokens, rest, j)
<1>1. PICK stream : Streams(x, stream) /\ Position(x, stream)
  BY DEF Framed, Reading
<1>2. stream[Routed(x)] \in Seq(Token)
  BY <1>1 DEF Framed, Served, Streams
<1>3. ~Doomed(x) /\ ~Answering(x, stream) /\ x.at # "line" /\ ~Curtailed(x, stream)
  BY DEF Doomed, Answering, Curtailed, Reading
<1> QED BY <1>1, <1>2, <1>3 DEF Position

LEMMA StageBelow ==
    ASSUME NEW x, NEW m \in Message, NEW j \in Nat, m.framing # "junk", x.at \in Reading,
           InHeaders(x, m, j) \/ InBody(x, m, j)
    PROVE  j < WholeAt(m, FALSE)
<1>1. CASE InHeaders(x, m, j)
  BY <1>1 DEF InHeaders
<1>2. CASE InBody(x, m, j)
  <2> DEFINE h == Len(HeaderLines(m))
             n == Needed(m.framing, FALSE)
  <2>1. h \in Nat /\ WholeAt(m, FALSE) = h + n
    BY HeaderLinesType, WholeLength
  <2>2. x.at # "route" /\ <<x.at, j - h>> \in StagesOf(m.framing)
    BY <1>2 DEF InBody, Reading
  <2>3. j - h \in 2..6 /\ n \in {3, 7} /\ j - h < n
    <3>1. CASE m.framing \in {"sized", "trailed"}
      BY <2>2, <3>1 DEF StagesOf, Needed
    <3>2. CASE m.framing = "chunked"
      BY <2>2, <3>2 DEF StagesOf, Needed
    <3>3. CASE m.framing = "badSize"
      BY <2>2, <3>3 DEF StagesOf, Needed
    <3>4. CASE m.framing \notin {"sized", "trailed", "chunked", "badSize"}
      BY <2>2, <3>4 DEF StagesOf
    <3> QED BY <3>1, <3>2, <3>3, <3>4
  <2> HIDE DEF h, n
  <2>4. j < h + n
    BY <2>1, <2>3
  <2> QED BY <2>1, <2>4
<1> QED BY <1>1, <1>2

LEMMA NextToken ==
    ASSUME NEW x, NEW y, NEW stream, NEW m \in Message, NEW tokens \in Seq(Token),
           NEW rest \in Seq(Token), NEW j \in Nat,
           stream[Routed(x)] \in Seq(Token), Midway(x, stream, m, tokens, rest, j),
           x.at \in Reading, x.wire # << >>, Same(x, y), y.wire = Tail(x.wire)
    PROVE  /\ Within(y, stream, m, tokens, rest)
           /\ y.wire = Drop(stream[Routed(y)], j + 1)
           /\ j + 1 <= Len(tokens)
           /\ \/ Head(x.wire) = Tokens(m)[j + 1] /\ Exact(m, tokens, j + 1)
              \/ /\ x.client = "gone" /\ rest = << >> /\ y.wire = << >>
                 /\ Head(x.wire) # Tokens(m)[j + 1]
                 /\ Head(x.wire) \in CutShort(Tokens(m)[j + 1])
<1>1. /\ Within(x, stream, m, tokens, rest) /\ Exact(m, tokens, j) /\ m.framing # "junk"
      /\ x.wire = Drop(stream[Routed(x)], j)
  BY DEF Midway
<1>2. j < WholeAt(m, FALSE)
  BY StageBelow DEF Midway
<1>3. /\ Tail(x.wire) = Drop(stream[Routed(x)], j + 1)
      /\ j + 1 <= Len(tokens)
      /\ \/ Head(x.wire) = Tokens(m)[j + 1] /\ Exact(m, tokens, j + 1)
         \/ /\ x.client = "gone" /\ rest = << >> /\ Tail(x.wire) = << >>
            /\ Head(x.wire) # Tokens(m)[j + 1]
            /\ Head(x.wire) \in CutShort(Tokens(m)[j + 1])
  BY <1>1, <1>2, ReadAt
<1>4. Routed(y) = Routed(x) /\ Within(y, stream, m, tokens, rest)
  BY <1>1, SameHistory
<1> QED BY <1>3, <1>4

\* A refusal that comes of what was read whole is one of the message's making.
LEMMA RefusedIsIllFormed ==
    ASSUME NEW x, NEW y, Framed(x), Same(x, y), y.at = "closed",
           NEW stream, NEW m \in Message, NEW tokens \in Seq(Token),
           NEW rest \in Seq(Token), NEW j \in Nat,
           Within(y, stream, m, tokens, rest), Exact(m, tokens, j), WholeAt(m, FALSE) <= j,
           IllFormed(m)
    PROVE  Framed(y)
<1>1. Routed(y) < Len(y.sent) /\ m = y.sent[Routed(y) + 1]
  BY ReadIsSent
<1>2. Routed(y) \in Nat /\ Len(y.sent) \in Nat
  BY SameHistory DEF Framed, Served, Same
<1>3. Len(y.sent) > Routed(y)
  BY <1>1, <1>2
<1> QED BY <1>1, <1>3, EndsFor DEF Reason

LEMMA MidwayOn ==
    ASSUME NEW x, NEW y, Framed(x), Same(x, y), y.at # "closed", KeptOpen(x),
           NEW stream, Streams(x, stream),
           NEW m \in Message, NEW tokens \in Seq(Token), NEW rest \in Seq(Token), NEW j \in Nat,
           Midway(y, stream, m, tokens, rest, j)
    PROVE  Framed(y)
<1>1. KeptOpen(y)
  BY SameHistory
<1> QED BY <1>1, GoesOn DEF Position

LEMMA FirstToken ==
    ASSUME NEW x, NEW stream, NEW m \in Message, NEW tokens \in Seq(Token),
           NEW rest \in Seq(Token),
           Within(x, stream, m, tokens, rest), stream[Routed(x)] \in Seq(Token),
           x.wire # << >>
    PROVE  x.wire = stream[Routed(x)] =>
              /\ Tail(x.wire) = Drop(stream[Routed(x)], 1)
              /\ \/ Head(x.wire) = Tokens(m)[1] /\ Exact(m, tokens, 1)
                 \/ /\ x.client = "gone" /\ rest = << >> /\ Tail(x.wire) = << >>
                    /\ Head(x.wire) # Tokens(m)[1]
                    /\ Head(x.wire) \in CutShort(Tokens(m)[1])
<1>1. PICK j \in Nat : j = 0
  OBVIOUS
<1>2. Exact(m, tokens, j)
  <2>1. 0 <= Len(tokens)
    OBVIOUS
  <2> QED BY <1>1, <2>1 DEF Exact
<1>3. j < WholeAt(m, FALSE)
  <2> DEFINE n == WholeAt(m, FALSE)
             whole == Len(Tokens(m))
  <2>1. n \in 1..whole
    BY WholeRange
  <2>2. 0 < n
    <3> HIDE DEF n, whole
    <3> QED BY <2>1
  <2> QED BY <1>1, <2>2
<1>4. ASSUME x.wire = stream[Routed(x)] PROVE x.wire = Drop(stream[Routed(x)], j)
  <2> DEFINE s == stream[Routed(x)]
  <2>1. s \in Seq(Token)
    OBVIOUS
  <2>2. Drop(s, 0) = s
    <3> HIDE DEF s
    <3>1. 0 \in 0..Len(s)
      BY <2>1
    <3> QED BY <2>1, <3>1, DropFacts
  <2> QED BY <1>1, <1>4, <2>2
<1>5. ASSUME x.wire = Drop(stream[Routed(x)], j)
      PROVE  /\ Tail(x.wire) = Drop(stream[Routed(x)], j + 1)
             /\ j + 1 <= Len(tokens)
             /\ \/ Head(x.wire) = Tokens(m)[j + 1] /\ Exact(m, tokens, j + 1)
                \/ /\ x.client = "gone" /\ rest = << >> /\ Tail(x.wire) = << >>
                   /\ Head(x.wire) # Tokens(m)[j + 1]
                   /\ Head(x.wire) \in CutShort(Tokens(m)[j + 1])
  BY <1>2, <1>3, <1>5, ReadAt
<1>6. j + 1 = 1
  BY <1>1
<1> QED BY <1>4, <1>5, <1>6

LEMMA LineRead ==
    ASSUME NEW x, NEW y, Framed(x), Same(x, y), x.at = "line", x.wire # << >>,
           y.wire = Tail(x.wire),
           \/ Head(x.wire).kind = "blank" /\ y.at = "line" /\ y.cur = x.cur
           \/ /\ Head(x.wire).kind = "request" /\ y.at = "headers"
              /\ y.cur.line = Head(x.wire) /\ y.cur.headers = {} /\ y.cur.n = 0
           \/ Head(x.wire).kind \notin {"blank", "request"} /\ y.at = "closed"
    PROVE  Framed(y)
<1>1. PICK stream : Streams(x, stream) /\ Position(x, stream)
  BY DEF Framed
<1>2. KeptOpen(x) /\ Between(x, stream)
  <2>1. ~Doomed(x) /\ ~Answering(x, stream) /\ ~Curtailed(x, stream)
    BY DEF Doomed, Answering, Curtailed
  <2>2. ASSUME NEW m \in Message, NEW tokens \in Seq(Token), NEW rest \in Seq(Token),
               NEW j \in Nat, Midway(x, stream, m, tokens, rest, j)
        PROVE  FALSE
    BY <2>2 DEF Midway, InHeaders, InBody, StagesOf
  <2> QED BY <1>1, <2>1, <2>2 DEF Position
<1> DEFINE s == stream[Routed(x)]
<1>3. s \in Seq(Token)
  BY <1>1 DEF Framed, Served, Streams
<1>4. Routed(y) = Routed(x) /\ KeptOpen(y) /\ Served(x) /\ x.sent \in Seq(Message)
        /\ Routed(x) \in 0..Len(x.sent) /\ y.client = x.client
  BY <1>2, SameHistory DEF Framed, Same, Served
<1>5. PICK stray \in Strays : /\ x.wire = stray \o s
                              /\ stray = << Header("other") >> => x.client = "gone"
  BY <1>2 DEF Between
<1>6. Blank \in Token /\ Header("other") \in Token
  BY DEF Blank, Header, Token, HeaderName
<1>7. CASE stray = << Blank >>
  <2>1. Head(x.wire) = Blank /\ Tail(x.wire) = s
    <3>1. \A u \in Seq(Token) : Head(<< Blank >> \o u) = Blank /\ Tail(<< Blank >> \o u) = u
      BY <1>6
    <3> QED BY <1>3, <1>5, <1>7, <3>1
  <2>2. y.at = "line" /\ y.wire = s
    BY <2>1 DEF Blank
  <2>3. << >> \o s = s
    BY <1>3, ConcatFacts
  <2>4. Between(y, stream)
    <3>1. << >> \in Strays /\ << >> # << Header("other") >>
      BY <1>6 DEF Strays
    <3> QED BY <1>4, <2>2, <2>3, <3>1 DEF Between
  <2> QED BY <1>1, <1>4, <2>2, <2>4, GoesOn DEF Position
<1>8. CASE stray = << Header("other") >>
  <2>1. Head(x.wire) = Header("other")
    BY <1>3, <1>5, <1>6, <1>8
  <2>2. y.at = "closed"
    BY <2>1 DEF Header
  <2> QED BY <1>5, <1>8, <2>2, InputOver
<1>9. CASE stray = << >>
  <2>1. x.wire = s /\ s # << >> /\ x.wire = Drop(s, 0)
    BY <1>3, <1>5, <1>9, ConcatFacts, DropFacts
  <2>2. PICK m \in Message, tokens \in Seq(Token), rest \in Seq(Token) :
           Within(x, stream, m, tokens, rest)
    BY <1>1, <1>4, <2>1, NextWithin
  <2>4. /\ Tail(x.wire) = Drop(s, 1)
        /\ \/ Head(x.wire) = Tokens(m)[1] /\ Exact(m, tokens, 1)
           \/ /\ x.client = "gone" /\ rest = << >> /\ Tail(x.wire) = << >>
              /\ Head(x.wire) # Tokens(m)[1]
              /\ Head(x.wire) \in CutShort(Tokens(m)[1])
    BY <1>3, <2>1, <2>2, FirstToken
  <2>5. y.at \in {"line", "headers", "closed"}
    OBVIOUS
  <2>6. CASE x.client = "gone" /\ Tail(x.wire) = << >>
    BY <2>5, <2>6, InputOver DEF Reading
  <2>7. CASE ~(x.client = "gone" /\ Tail(x.wire) = << >>)
    <3>1. Head(x.wire) = Tokens(m)[1] /\ Exact(m, tokens, 1) /\ y.wire = Drop(s, 1)
      BY <2>4, <2>7
    <3>2. Within(y, stream, m, tokens, rest)
      BY <2>2, SameHistory
    <3>3. CASE m.framing = "junk"
      <4>1. Tokens(m) = << Junk >> /\ WholeAt(m, FALSE) = 1
        BY <3>3, WholeJunk
      <4>2. Head(x.wire).kind = "junk"
        BY <3>1, <4>1 DEF Junk
      <4>3. y.at = "closed"
        BY <4>2
      <4>4. IllFormed(m)
        BY <3>3 DEF IllFormed
      <4>5. WholeAt(m, FALSE) <= 1
        <5> DEFINE n == WholeAt(m, FALSE)
        <5>1. n = 1
          BY <4>1
        <5> HIDE DEF n
        <5>2. n <= 1
          BY <5>1
        <5> QED BY <5>2 DEF n
      <4> QED BY <3>1, <3>2, <4>3, <4>4, <4>5, RefusedIsIllFormed
    <3>4. CASE m.framing # "junk"
      <4>1. Head(x.wire) = RequestLine(m) /\ Len(HeaderLines(m)) \in Nat
        BY <3>1, <3>4, TokensShape, HeaderLinesType
      <4>2. y.at = "headers" /\ y.cur.line = RequestLine(m) /\ y.cur.headers = {} /\ y.cur.n = 0
        BY <4>1 DEF RequestLine
      <4>3. 1 < WholeAt(m, FALSE)
        <5> DEFINE h == Len(HeaderLines(m))
                   n == Needed(m.framing, FALSE)
        <5>1. WholeAt(m, FALSE) = h + n
          BY <3>4, WholeLength
        <5>2. n \in 1..7
          BY <3>4 DEF Needed, Message, Framing
        <5>3. m.framing \in {"overlong", "tooMany"} => h >= 1
          BY OverlongHeaders, TooManyHeaders, ServerAssumption
        <5>4. m.framing \notin {"overlong", "tooMany"} => n >= 2
          BY <3>4 DEF Needed, Message, Framing
        <5> HIDE DEF h, n
        <5>6. h \in Nat
          BY <4>1 DEF h
        <5>5. 1 < h + n
          <6>1. CASE m.framing \in {"overlong", "tooMany"}
            BY <5>2, <5>3, <5>6, <6>1
          <6>2. CASE m.framing \notin {"overlong", "tooMany"}
            BY <5>2, <5>4, <5>6, <6>2
          <6> QED BY <6>1, <6>2
        <5> QED BY <5>1, <5>5
      <4>4. NamesTo(m, 1 - 1) = {} /\ 1 \in 1..(Len(HeaderLines(m)) + 1) /\ 0 = 1 - 1
        BY <4>1 DEF NamesTo
      <4>5. InHeaders(y, m, 1)
        BY <4>2, <4>3, <4>4 DEF InHeaders
      <4>6. Midway(y, stream, m, tokens, rest, 1)
        BY <1>4, <3>1, <3>2, <3>4, <4>2, <4>5 DEF Midway
      <4> QED BY <1>1, <1>2, <4>2, <4>6, MidwayOn
    <3> QED BY <3>3, <3>4
  <2> QED BY <2>6, <2>7
<1> QED BY <1>5, <1>7, <1>8, <1>9 DEF Strays

LEMMA HeaderTokens ==
    ASSUME NEW m \in Message, m.framing # "junk", NEW j \in 1..Len(HeaderLines(m))
    PROVE  /\ Tokens(m)[j + 1] = HeaderLines(m)[j]
           /\ \/ HeaderLines(m)[j].kind = "header" /\ (j = Len(HeaderLines(m)) => m.framing # "overlong")
              \/ /\ HeaderLines(m)[j].kind = "overlong" /\ m.framing = "overlong"
                 /\ j = Len(HeaderLines(m))
           /\ MaxHeaders < j => m.framing = "tooMany"
           /\ m.framing = "tooMany" => Len(HeaderLines(m)) = MaxHeaders + 1
<1> DEFINE lines == HeaderLines(m)
           h == Len(lines)
<1>1. h \in Nat /\ j \in Nat /\ Tokens(m)[j + 1] = lines[j] /\ MaxHeaders \in Nat \ {0, 1}
  BY TokensShape, HeaderLinesType, ServerAssumption
<1>2. CASE m.framing = "overlong"
  <2>1. /\ h \in 1..2 /\ lines[h] = Overlong
        /\ \A i \in 1..(h - 1) : lines[i].kind = "header"
    BY <1>2, OverlongHeaders
  <2>2. Overlong.kind = "overlong"
    BY DEF Overlong
  <2> HIDE DEF lines, h
  <2>3. j = h \/ j \in 1..(h - 1)
    BY <2>1 DEF h, lines
  <2>4. ~(MaxHeaders < j)
    BY <1>1, <2>1, <2>3
  <2> QED BY <1>1, <1>2, <2>1, <2>2, <2>3, <2>4 DEF h, lines
<1>3. CASE m.framing = "tooMany"
  BY <1>1, <1>3, TooManyHeaders
<1>4. CASE m.framing \notin {"overlong", "tooMany"}
  <2>1. h \in 0..2 /\ \A i \in 1..h : lines[i].kind = "header"
    BY <1>4, ShortNames
  <2> HIDE DEF lines, h
  <2>2. ~(MaxHeaders < j)
    BY <1>1, <2>1 DEF h, lines
  <2> QED BY <1>1, <1>4, <2>1, <2>2 DEF h, lines
<1> QED BY <1>2, <1>3, <1>4

\* One more header line, and the reader is still in the header.
LEMMA NextNames ==
    ASSUME NEW m, NEW j \in Nat, j >= 1
    PROVE  NamesTo(m, (j + 1) - 1) = NamesTo(m, j - 1) \cup {HeaderLines(m)[j].name}
<1>1. (j + 1) - 1 = j /\ 1..j = (1..(j - 1)) \cup {j}
  OBVIOUS
<1> QED BY <1>1 DEF NamesTo

LEMMA NeededCases ==
    ASSUME NEW m \in Message, m.framing # "junk"
    PROVE  /\ m.framing \in {"overlong", "tooMany"} => Needed(m.framing, FALSE) = 1
           /\ m.framing = "badLength" => Needed(m.framing, FALSE) = 2
           /\ m.framing = "badSize" => Needed(m.framing, FALSE) = 3
           /\ m.framing \notin {"overlong", "tooMany"} => Needed(m.framing, FALSE) \in 2..7
BY DEF Needed, Message, Framing

\* What the reader has, as it reads on in the header, fits the message.
LEMMA HeaderGoesOn ==
    ASSUME NEW m \in Message, m.framing # "junk", NEW j \in 1..Len(HeaderLines(m)),
           HeaderLines(m)[j].kind = "header", ~(j - 1 >= MaxHeaders)
    PROVE  j + 1 \in 1..(Len(HeaderLines(m)) + 1) /\ j + 1 < WholeAt(m, FALSE)
<1> DEFINE h == Len(HeaderLines(m))
           n == Needed(m.framing, FALSE)
<1>1. h \in Nat /\ WholeAt(m, FALSE) = h + n /\ MaxHeaders \in Nat
  BY HeaderLinesType, WholeLength, ServerAssumption
<1>2. /\ m.framing \in {"overlong", "tooMany"} => n = 1
      /\ m.framing \notin {"overlong", "tooMany"} => n \in 2..7
  BY NeededCases
<1>3. /\ m.framing = "overlong" => j # h
      /\ m.framing = "tooMany" => h = MaxHeaders + 1
  BY HeaderTokens
<1> HIDE DEF h, n
<1>4. j \in 1..h
  BY DEF h
<1>5. j + 1 \in 1..(h + 1)
  BY <1>1, <1>4
<1>6. CASE m.framing \notin {"overlong", "tooMany"}
  <2>1. n \in 2..7
    BY <1>2, <1>6
  <2>2. j + 1 < h + n
    BY <1>1, <1>4, <2>1
  <2> QED BY <1>1, <1>5, <2>2 DEF h
<1>7. CASE m.framing \in {"overlong", "tooMany"}
  <2>1. j # h
    BY <1>1, <1>3, <1>4, <1>7
  <2>2. j + 1 < h + n
    BY <1>1, <1>2, <1>4, <1>7, <2>1
  <2> QED BY <1>1, <1>5, <2>2 DEF h
<1> QED BY <1>6, <1>7

\* The blank line is read as the message's framing has it.
LEMMA BodyBegins ==
    ASSUME NEW m \in Message, m.framing # "junk", NEW headers,
           headers = NamesTo(m, Len(HeaderLines(m))), m.framing \notin {"overlong", "tooMany"}
    PROVE  /\ "badLength" \in headers <=> m.framing = "badLength"
           /\ m.framing # "badLength" => <<BodyPlace(headers), 2>> \in StagesOf(m.framing)
           /\ "close" \in headers <=> m.close
<1> DEFINE names == CASE m.framing \in {"sized", "trailed"} -> {"length"}
                      [] m.framing = "badLength" -> {"badLength"}
                      [] m.framing \in {"chunked", "badSize"} -> {"chunked"}
                      [] OTHER -> {}
<1>1. headers = (IF m.close THEN {"close"} ELSE {}) \cup names
  BY ShortNames
<1>2. m.framing \in {"none", "sized", "trailed", "chunked", "badLength", "badSize"}
  BY DEF Message, Framing
<1>3. CASE m.framing = "none"
  <2>1. names = {} /\ StagesOf(m.framing) = {<<"route", 2>>}
    BY <1>3 DEF StagesOf
  <2> HIDE DEF names
  <2> QED BY <1>1, <1>3, <2>1 DEF BodyPlace
<1>4. CASE m.framing \in {"sized", "trailed"}
  <2>1. names = {"length"} /\ <<"body", 2>> \in StagesOf(m.framing)
    BY <1>4 DEF StagesOf
  <2> HIDE DEF names
  <2> QED BY <1>1, <1>4, <2>1 DEF BodyPlace
<1>5. CASE m.framing = "chunked"
  <2>1. names = {"chunked"} /\ <<"size", 2>> \in StagesOf(m.framing)
    BY <1>5 DEF StagesOf
  <2> HIDE DEF names
  <2> QED BY <1>1, <1>5, <2>1 DEF BodyPlace
<1>6. CASE m.framing = "badSize"
  <2>1. names = {"chunked"} /\ <<"size", 2>> \in StagesOf(m.framing)
    BY <1>6 DEF StagesOf
  <2> HIDE DEF names
  <2> QED BY <1>1, <1>6, <2>1 DEF BodyPlace
<1>7. CASE m.framing = "badLength"
  <2>1. names = {"badLength"}
    BY <1>7
  <2> HIDE DEF names
  <2> QED BY <1>1, <1>7, <2>1
<1> QED BY <1>2, <1>3, <1>4, <1>5, <1>6, <1>7

LEMMA HeaderRead ==
    ASSUME NEW x, NEW y, Framed(x), Same(x, y), x.at = "headers", x.wire # << >>,
           y.wire = Tail(x.wire),
           \/ Head(x.wire).kind = "overlong" /\ y.at = "closed"
           \/ /\ Head(x.wire).kind = "blank" /\ "badLength" \in x.cur.headers
              /\ y.at = "closed"
           \/ /\ Head(x.wire).kind = "blank" /\ "badLength" \notin x.cur.headers
              /\ y.at = BodyPlace(x.cur.headers) /\ y.cur = x.cur
           \/ /\ Head(x.wire).kind \notin {"blank", "overlong"} /\ x.cur.n >= MaxHeaders
              /\ y.at = "closed"
           \/ /\ Head(x.wire).kind \notin {"blank", "overlong"} /\ ~(x.cur.n >= MaxHeaders)
              /\ y.at = "headers" /\ y.cur.line = x.cur.line /\ y.cur.n = x.cur.n + 1
              /\ y.cur.headers = x.cur.headers \cup {Head(x.wire).name}
    PROVE  Framed(y)
<1>1. x.at \in Reading \ {"line"}
  BY DEF Reading
<1>2. PICK stream : \E m \in Message, tokens, rest \in Seq(Token), j \in Nat :
         /\ Streams(x, stream) /\ KeptOpen(x)
         /\ stream[Routed(x)] \in Seq(Token)
         /\ Midway(x, stream, m, tokens, rest, j)
  BY <1>1, Underway
<1>3. PICK m \in Message, tokens \in Seq(Token), rest \in Seq(Token), j \in Nat :
         /\ Streams(x, stream) /\ KeptOpen(x)
         /\ stream[Routed(x)] \in Seq(Token)
         /\ Midway(x, stream, m, tokens, rest, j)
  BY <1>2
<1>4. Streams(x, stream) /\ KeptOpen(x) /\ stream[Routed(x)] \in Seq(Token)
  BY <1>3
<1>5. Midway(x, stream, m, tokens, rest, j) /\ x.at \in Reading
  BY <1>1, <1>3
<1>6. /\ Within(y, stream, m, tokens, rest)
      /\ y.wire = Drop(stream[Routed(y)], j + 1)
      /\ j + 1 <= Len(tokens)
      /\ \/ Head(x.wire) = Tokens(m)[j + 1] /\ Exact(m, tokens, j + 1)
         \/ /\ x.client = "gone" /\ rest = << >> /\ y.wire = << >>
            /\ Head(x.wire) # Tokens(m)[j + 1]
            /\ Head(x.wire) \in CutShort(Tokens(m)[j + 1])
  BY <1>4, <1>5, NextToken
<1>7. m.framing # "junk" /\ x.cur.line = RequestLine(m) /\ InHeaders(x, m, j)
  BY <1>5 DEF Midway, InBody, StagesOf
<1> DEFINE h == Len(HeaderLines(m))
<1>8. CASE ~(Head(x.wire) = Tokens(m)[j + 1] /\ Exact(m, tokens, j + 1))
  <2>1. x.client = "gone" /\ y.wire = << >>
    BY <1>6, <1>8
  <2>2. Head(x.wire).kind \in {"junk", "header"}
    BY <1>6, <1>8, CutTokens
  <2>3. y.at \in (Reading \ {"trailers"}) \cup {"closed"}
    BY <2>2 DEF Reading
  <2> QED BY <2>1, <2>3, InputOver
<1>9. CASE Head(x.wire) = Tokens(m)[j + 1] /\ Exact(m, tokens, j + 1)
  <2>0. j + 1 \in Nat /\ Within(y, stream, m, tokens, rest)
    BY <1>6
  <2>1. /\ j \in 1..(h + 1) /\ j < WholeAt(m, FALSE) /\ x.cur.n = j - 1
        /\ x.cur.headers = NamesTo(m, j - 1)
    BY <1>7 DEF InHeaders
  <2>2. h \in Nat /\ WholeAt(m, FALSE) = h + Needed(m.framing, FALSE)
    BY <1>7, HeaderLinesType, WholeLength
  <2>3. /\ m.framing \in {"overlong", "tooMany"} => Needed(m.framing, FALSE) = 1
        /\ m.framing = "badLength" => Needed(m.framing, FALSE) = 2
        /\ m.framing \notin {"overlong", "tooMany"} => Needed(m.framing, FALSE) \in 2..7
    BY <1>7, NeededCases
  <2>4. CASE j <= h
    <3>1. j \in 1..h
      BY <2>1, <2>2, <2>4
    <3>2. /\ Head(x.wire) = HeaderLines(m)[j]
          /\ \/ Head(x.wire).kind = "header" /\ (j = h => m.framing # "overlong")
             \/ Head(x.wire).kind = "overlong" /\ m.framing = "overlong" /\ j = h
          /\ MaxHeaders < j => m.framing = "tooMany"
          /\ m.framing = "tooMany" => h = MaxHeaders + 1
      BY <1>7, <1>9, <3>1, HeaderTokens
    <3>3. CASE Head(x.wire).kind = "overlong"
      <4>1. y.at = "closed"
        BY <3>3
      <4>2. m.framing = "overlong" /\ j = h
        BY <3>2, <3>3
      <4>3. WholeAt(m, FALSE) <= j + 1
        <5> DEFINE n == Needed(m.framing, FALSE)
        <5>1. n = 1
          BY <2>3, <4>2
        <5> HIDE DEF n, h
        <5>2. h + n <= j + 1
          BY <2>2, <4>2, <5>1
        <5> QED BY <2>2, <5>2 DEF n
      <4>4. IllFormed(m)
        BY <4>2 DEF IllFormed
      <4> QED BY <1>9, <2>0, <4>1, <4>3, <4>4, RefusedIsIllFormed
    <3>4. CASE Head(x.wire).kind = "header" /\ x.cur.n >= MaxHeaders
      <4>1. y.at = "closed"
        BY <3>4
      <4>2. MaxHeaders \in Nat
        BY ServerAssumption
      <4>3. MaxHeaders < j
        <5> HIDE DEF h
        <5> QED BY <2>1, <3>1, <3>4, <4>2
      <4>4. m.framing = "tooMany" /\ h = MaxHeaders + 1
        BY <3>2, <4>3
      <4>5. WholeAt(m, FALSE) <= j + 1
        <5> DEFINE n == Needed(m.framing, FALSE)
        <5>1. n = 1
          BY <2>3, <4>4
        <5> HIDE DEF n, h
        <5>2. h + n <= j + 1
          BY <3>1, <4>2, <4>3, <4>4, <5>1
        <5> QED BY <2>2, <5>2 DEF n
      <4>6. IllFormed(m)
        BY <4>4 DEF IllFormed
      <4> QED BY <1>9, <2>0, <4>1, <4>5, <4>6, RefusedIsIllFormed
    <3>5. CASE Head(x.wire).kind = "header" /\ ~(x.cur.n >= MaxHeaders)
      <4>1. /\ y.at = "headers" /\ y.cur.line = x.cur.line /\ y.cur.n = x.cur.n + 1
            /\ y.cur.headers = x.cur.headers \cup {Head(x.wire).name}
        BY <3>5
      <4>2. HeaderLines(m)[j].kind = "header" /\ ~(j - 1 >= MaxHeaders)
        BY <2>1, <3>2, <3>5
      <4>3. j + 1 \in 1..(h + 1) /\ j + 1 < WholeAt(m, FALSE)
        BY <1>7, <3>1, <4>2, HeaderGoesOn
      <4>4. y.cur.n = (j + 1) - 1
        BY <2>1, <4>1
      <4>5. y.cur.headers = NamesTo(m, (j + 1) - 1)
        <5>1. j >= 1
          BY <2>1
        <5>2. NamesTo(m, (j + 1) - 1) = NamesTo(m, j - 1) \cup {HeaderLines(m)[j].name}
          BY <5>1, NextNames
        <5> QED BY <2>1, <3>2, <4>1, <5>2
      <4>6. InHeaders(y, m, j + 1)
        BY <4>1, <4>3, <4>4, <4>5 DEF InHeaders
      <4>7. Midway(y, stream, m, tokens, rest, j + 1)
        BY <1>6, <1>7, <1>9, <4>1, <4>6 DEF Midway
      <4>8. y.at # "closed"
        BY <4>1
      <4> QED BY <1>4, <2>0, <4>7, <4>8, MidwayOn
    <3> QED BY <3>2, <3>3, <3>4, <3>5
  <2>5. CASE ~(j <= h)
    <3>1. j = h + 1
      <4> HIDE DEF h
      <4> QED BY <2>1, <2>2, <2>5
    <3>2. m.framing \notin {"overlong", "tooMany"}
      <4> DEFINE n == Needed(m.framing, FALSE)
                 w == WholeAt(m, FALSE)
      <4>1. w = h + n /\ j < w
        BY <2>1, <2>2
      <4> HIDE DEF h, n, w
      <4>2. n # 1
        BY <2>2, <3>1, <4>1
      <4> QED BY <2>3, <4>2 DEF n
    <3>3. Head(x.wire) = Blank
      <4>1. j + 1 = h + 2
        BY <2>2, <3>1
      <4> QED BY <1>7, <1>9, <4>1, TokensShape
    <3>4. Head(x.wire).kind = "blank"
      BY <3>3 DEF Blank
    <3>5. x.cur.headers = NamesTo(m, h)
      <4>1. j - 1 = h
        BY <2>2, <3>1
      <4> QED BY <2>1, <4>1
    <3>6. /\ "badLength" \in x.cur.headers <=> m.framing = "badLength"
          /\ m.framing # "badLength" => <<BodyPlace(x.cur.headers), 2>> \in StagesOf(m.framing)
          /\ "close" \in x.cur.headers <=> m.close
      BY <1>7, <3>2, <3>5, BodyBegins
    <3>7. CASE m.framing = "badLength"
      <4>1. y.at = "closed"
        BY <3>4, <3>6, <3>7
      <4>2. WholeAt(m, FALSE) <= j + 1
        <5> DEFINE n == Needed(m.framing, FALSE)
        <5>1. n = 2
          BY <2>3, <3>7
        <5> HIDE DEF n, h
        <5>2. h + n <= j + 1
          BY <2>2, <3>1, <5>1
        <5> QED BY <2>2, <5>2 DEF n
      <4>3. IllFormed(m)
        BY <3>7 DEF IllFormed
      <4> QED BY <1>9, <2>0, <4>1, <4>2, <4>3, RefusedIsIllFormed
    <3>8. CASE m.framing # "badLength"
      <4>1. y.at = BodyPlace(x.cur.headers) /\ y.cur = x.cur
        BY <3>4, <3>6, <3>8
      <4>2. (j + 1) - h = 2
        BY <2>2, <3>1
      <4>3. InBody(y, m, j + 1)
        BY <3>6, <3>8, <4>1, <4>2 DEF InBody
      <4>4. Midway(y, stream, m, tokens, rest, j + 1)
        BY <1>6, <1>7, <1>9, <4>1, <4>3 DEF Midway
      <4>5. y.at # "closed"
        BY <4>1 DEF BodyPlace
      <4> QED BY <1>4, <2>0, <4>4, <4>5, MidwayOn
    <3> QED BY <3>7, <3>8
  <2> QED BY <2>4, <2>5
<1> QED BY <1>8, <1>9

\* What comes next in the body, and where it takes the reader.
LEMMA StageToken ==
    ASSUME NEW m \in Message, m.framing # "junk", NEW place, NEW j \in Nat, place # "route",
           <<place, j - Len(HeaderLines(m))>> \in StagesOf(m.framing)
    PROVE  \/ /\ place = "body" /\ Tokens(m)[j + 1] = Body
              /\ <<"route", (j + 1) - Len(HeaderLines(m))>> \in StagesOf(m.framing)
           \/ /\ place = "size" /\ Tokens(m)[j + 1] = Size(1)
              /\ <<"chunk", (j + 1) - Len(HeaderLines(m))>> \in StagesOf(m.framing)
           \/ /\ place = "size" /\ Tokens(m)[j + 1] = Size(0)
              /\ <<"trailers", (j + 1) - Len(HeaderLines(m))>> \in StagesOf(m.framing)
           \/ /\ place = "size" /\ Tokens(m)[j + 1] = Junk
              /\ m.framing = "badSize" /\ WholeAt(m, FALSE) <= j + 1
           \/ /\ place = "chunk" /\ Tokens(m)[j + 1] = Body
              /\ <<"crlf", (j + 1) - Len(HeaderLines(m))>> \in StagesOf(m.framing)
           \/ /\ place = "crlf" /\ Tokens(m)[j + 1] = Blank
              /\ <<"size", (j + 1) - Len(HeaderLines(m))>> \in StagesOf(m.framing)
           \/ /\ place = "trailers" /\ Tokens(m)[j + 1] = Blank
              /\ <<"route", (j + 1) - Len(HeaderLines(m))>> \in StagesOf(m.framing)
              /\ m.framing = "chunked" /\ WholeAt(m, TRUE) <= j
<1> DEFINE h == Len(HeaderLines(m))
           b == BodyTokens(m)
           k == j - h
           next == (j + 1) - h
<1>1. h \in Nat /\ \A i \in 1..Len(b) : Tokens(m)[h + 2 + i] = b[i]
  BY HeaderLinesType, TokensShape
<1>2. CASE m.framing \in {"sized", "trailed"}
  <2>1. place = "body" /\ k = 2 /\ <<"route", 3>> \in StagesOf(m.framing)
    BY <1>2 DEF StagesOf
  <2>2. Len(b) >= 1 /\ b[1] = Body
    BY <1>2, BodyShape
  <2>3. Tokens(m)[h + 2 + 1] = Body
    <3>1. 1 \in 1..Len(b)
      BY <1>2, BodyLength
    <3> QED BY <1>1, <2>2, <3>1
  <2> HIDE DEF h
  <2>4. next = 3 /\ j + 1 = h + 2 + 1
    BY <1>1, <2>1
  <2> QED BY <2>1, <2>3, <2>4 DEF h
<1>3. CASE m.framing = "badSize"
  <2>1. place = "size" /\ k = 2
    BY <1>3 DEF StagesOf
  <2>2. b[1] = Junk /\ Len(b) = 1
    BY <1>3, BodyShape
  <2>3. Tokens(m)[h + 2 + 1] = Junk
    <3>1. 1 \in 1..Len(b)
      BY <2>2
    <3> QED BY <1>1, <2>2, <3>1
  <2>5. WholeAt(m, FALSE) = h + Needed(m.framing, FALSE) /\ Needed(m.framing, FALSE) = 3
    BY <1>3, WholeLength, NeededCases
  <2> DEFINE n == Needed(m.framing, FALSE)
             w == WholeAt(m, FALSE)
  <2>7. w = h + n /\ n = 3
    BY <2>5
  <2> HIDE DEF h, n, w
  <2>4. j + 1 = h + 2 + 1
    BY <1>1, <2>1
  <2>6. w <= j + 1
    BY <1>1, <2>4, <2>7
  <2> QED BY <1>3, <2>1, <2>3, <2>4, <2>6 DEF h, w
<1>4. CASE m.framing = "chunked"
  <2>1. \/ place = "size" /\ k = 2
        \/ place = "chunk" /\ k = 3
        \/ place = "crlf" /\ k = 4
        \/ place = "size" /\ k = 5
        \/ place = "trailers" /\ k = 6
    BY <1>4 DEF StagesOf
  <2>2. StagesOf(m.framing) = {<<"size", 2>>, <<"chunk", 3>>, <<"crlf", 4>>, <<"size", 5>>,
                               <<"trailers", 6>>, <<"route", 7>>}
    BY <1>4 DEF StagesOf
  <2>3. /\ Len(b) = 5 /\ b[1] = Size(1) /\ b[2] = Body /\ b[3] = Blank
        /\ b[4] = Size(0) /\ b[5] = Blank
    BY <1>4, BodyShape
  <2>4. /\ Tokens(m)[h + 2 + 1] = Size(1) /\ Tokens(m)[h + 2 + 2] = Body
        /\ Tokens(m)[h + 2 + 3] = Blank /\ Tokens(m)[h + 2 + 4] = Size(0)
        /\ Tokens(m)[h + 2 + 5] = Blank
    <3>1. 1 \in 1..Len(b) /\ 2 \in 1..Len(b) /\ 3 \in 1..Len(b) /\ 4 \in 1..Len(b)
            /\ 5 \in 1..Len(b)
      BY <2>3
    <3> QED BY <1>1, <2>3, <3>1
  <2>5. WholeAt(m, TRUE) = h + 6
    <3>1. Needed(m.framing, TRUE) = 6
      BY <1>4 DEF Needed
    <3> QED BY <1>4, <3>1, WholeLength
  <2> DEFINE w == WholeAt(m, TRUE)
  <2>6. w = h + 6
    BY <2>5
  <2> HIDE DEF h, w
  <2>7. CASE place = "size" /\ k = 2
    <3>1. next = 3 /\ j + 1 = h + 2 + 1
      BY <1>1, <2>7
    <3> QED BY <2>2, <2>4, <2>7, <3>1 DEF h
  <2>8. CASE place = "chunk" /\ k = 3
    <3>1. next = 4 /\ j + 1 = h + 2 + 2
      BY <1>1, <2>8
    <3> QED BY <2>2, <2>4, <2>8, <3>1 DEF h
  <2>9. CASE place = "crlf" /\ k = 4
    <3>1. next = 5 /\ j + 1 = h + 2 + 3
      BY <1>1, <2>9
    <3> QED BY <2>2, <2>4, <2>9, <3>1 DEF h
  <2>10. CASE place = "size" /\ k = 5
    <3>1. next = 6 /\ j + 1 = h + 2 + 4
      BY <1>1, <2>10
    <3> QED BY <2>2, <2>4, <2>10, <3>1 DEF h
  <2>11. CASE place = "trailers" /\ k = 6
    <3>1. next = 7 /\ j + 1 = h + 2 + 5 /\ w <= j
      BY <1>1, <2>6, <2>11
    <3> QED BY <1>4, <2>2, <2>4, <2>11, <3>1 DEF h, w
  <2> QED BY <2>1, <2>7, <2>8, <2>9, <2>10, <2>11
<1>5. CASE m.framing \notin {"sized", "trailed", "chunked", "badSize"}
  BY <1>5 DEF StagesOf
<1> QED BY <1>2, <1>3, <1>4, <1>5

LEMMA BodyPartRead ==
    ASSUME NEW x, NEW y, Framed(x), Same(x, y), x.wire # << >>,
           y.wire = Tail(x.wire),
           \/ x.at = "body" /\ y.at = "route" /\ y.cur = x.cur
           \/ x.at = "size" /\ Head(x.wire).kind # "size" /\ y.at = "closed"
           \/ /\ x.at = "size" /\ Head(x.wire).kind = "size" /\ y.cur = x.cur
              /\ y.at = IF Head(x.wire).size = 0 THEN "trailers" ELSE "chunk"
           \/ x.at = "chunk" /\ y.at = "crlf" /\ y.cur = x.cur
           \/ x.at = "crlf" /\ y.at = "size" /\ y.cur = x.cur
           \/ /\ x.at = "trailers" /\ y.cur = x.cur
              /\ y.at = IF Head(x.wire).kind \in {"blank", "overlong"} THEN "route"
                        ELSE "trailers"
    PROVE  Framed(y)
<1>1. x.at \in Reading \ {"line"} /\ x.at # "headers" /\ x.at # "route"
  BY DEF Reading
<1>2. PICK stream : \E m \in Message, tokens, rest \in Seq(Token), j \in Nat :
         /\ Streams(x, stream) /\ KeptOpen(x)
         /\ stream[Routed(x)] \in Seq(Token)
         /\ Midway(x, stream, m, tokens, rest, j)
  BY <1>1, Underway
<1>3. PICK m \in Message, tokens \in Seq(Token), rest \in Seq(Token), j \in Nat :
         /\ Streams(x, stream) /\ KeptOpen(x)
         /\ stream[Routed(x)] \in Seq(Token)
         /\ Midway(x, stream, m, tokens, rest, j)
  BY <1>2
<1>4. Streams(x, stream) /\ KeptOpen(x) /\ stream[Routed(x)] \in Seq(Token)
  BY <1>3
<1>5. Midway(x, stream, m, tokens, rest, j) /\ x.at \in Reading
  BY <1>1, <1>3
<1>6. /\ Within(y, stream, m, tokens, rest)
      /\ y.wire = Drop(stream[Routed(y)], j + 1)
      /\ j + 1 <= Len(tokens)
      /\ \/ Head(x.wire) = Tokens(m)[j + 1] /\ Exact(m, tokens, j + 1)
         \/ /\ x.client = "gone" /\ rest = << >> /\ y.wire = << >>
            /\ Head(x.wire) # Tokens(m)[j + 1]
            /\ Head(x.wire) \in CutShort(Tokens(m)[j + 1])
  BY <1>4, <1>5, NextToken
<1> DEFINE h == Len(HeaderLines(m))
           t == Tokens(m)[j + 1]
           at2 == y.at
<1>7. /\ m.framing # "junk" /\ x.cur.line = RequestLine(m) /\ Exact(m, tokens, j)
      /\ <<x.at, j - h>> \in StagesOf(m.framing)
      /\ "close" \in x.cur.headers <=> m.close
  BY <1>1, <1>5 DEF Midway, InHeaders, InBody
<1>8. \/ x.at = "body" /\ t = Body /\ <<"route", (j + 1) - h>> \in StagesOf(m.framing)
      \/ x.at = "size" /\ t = Size(1) /\ <<"chunk", (j + 1) - h>> \in StagesOf(m.framing)
      \/ x.at = "size" /\ t = Size(0) /\ <<"trailers", (j + 1) - h>> \in StagesOf(m.framing)
      \/ /\ x.at = "size" /\ t = Junk
         /\ m.framing = "badSize" /\ WholeAt(m, FALSE) <= j + 1
      \/ x.at = "chunk" /\ t = Body /\ <<"crlf", (j + 1) - h>> \in StagesOf(m.framing)
      \/ x.at = "crlf" /\ t = Blank /\ <<"size", (j + 1) - h>> \in StagesOf(m.framing)
      \/ /\ x.at = "trailers" /\ t = Blank /\ <<"route", (j + 1) - h>> \in StagesOf(m.framing)
         /\ m.framing = "chunked" /\ WholeAt(m, TRUE) <= j
  BY <1>1, <1>7, StageToken
<1>11. /\ Junk # Size(0) /\ Junk # Size(1) /\ Size(0) # Size(1) /\ Junk.kind = "junk"
       /\ Size(0).kind = "size" /\ Size(0).size = 0 /\ Size(1).kind = "size" /\ Size(1).size = 1
  BY DEF Junk, Size
<1>12. y.client = x.client
  BY DEF Same
<1>9. CASE ~(Head(x.wire) = t /\ Exact(m, tokens, j + 1))
  <2>1. x.client = "gone" /\ rest = << >> /\ y.wire = << >> /\ Head(x.wire) # t
          /\ Head(x.wire) \in CutShort(t)
    BY <1>6, <1>9
  <2>2. t.kind \in {"request", "header", "blank"} /\ (t.kind # "request" => Head(x.wire) = Header("other"))
    BY <2>1, CutTokens
  <2>3. CASE x.at = "crlf"
    <3>1. y.at = "size"
      BY <2>3
    <3> QED BY <2>1, <2>3, <3>1, InputOver DEF Reading
  <2>4. CASE x.at = "trailers"
    <3>1. m.framing = "chunked" /\ WholeAt(m, TRUE) <= j /\ t = Blank
      BY <1>8, <2>4
    <3>2. Within(y, stream, m, tokens, rest)
      BY <1>6
    <3>7. y.client = "gone" /\ rest = << >> /\ WholeAt(m, TRUE) <= j
      BY <1>12, <2>1, <3>1
    <3>3. /\ Routed(y) < Len(y.sent) /\ m = y.sent[Routed(y) + 1]
          /\ rest = stream[Routed(y) + 1] /\ WholeOf(y, m, tokens, rest)
      <4>1. \/ WholeAt(m, FALSE) <= j
            \/ y.client = "gone" /\ rest = << >> /\ WholeAt(m, TRUE) <= j
        BY <3>7
      <4>2. Exact(m, tokens, j)
        BY <1>7
      <4> QED BY <3>2, <4>1, <4>2, ReadIsSent
    <3>4. y.at = "trailers" /\ y.cur = x.cur
      BY <2>2, <2>4, <3>1 DEF Blank, Header
    <3>5. Curtailed(y, stream)
      BY <1>7, <2>1, <3>1, <3>7, <3>3, <3>4 DEF Curtailed
    <3>6. KeptOpen(y)
      BY <1>4, SameHistory
    <3> QED BY <1>4, <3>4, <3>5, <3>6, GoesOn DEF Position
  <2>5. CASE x.at \in {"body", "size", "chunk"}
    <3>1. t \in {Body, Size(1), Size(0), Junk}
      BY <1>8, <2>5
    <3> QED BY <2>2, <3>1 DEF Body, Size, Junk
  <2> QED BY <1>8, <2>3, <2>4, <2>5
<1>10. CASE Head(x.wire) = t /\ Exact(m, tokens, j + 1)
  <2>1. j + 1 \in Nat /\ Within(y, stream, m, tokens, rest)
    BY <1>6
  <2>2. CASE x.at = "size" /\ t = Junk
    <3>1. m.framing = "badSize" /\ WholeAt(m, FALSE) <= j + 1
      BY <1>8, <1>11, <2>2
    <3>2. y.at = "closed"
      BY <1>10, <1>11, <2>2
    <3>3. IllFormed(m)
      BY <3>1 DEF IllFormed
    <3> QED BY <1>10, <2>1, <3>1, <3>2, <3>3, RefusedIsIllFormed
  <2>3. CASE ~(x.at = "size" /\ t = Junk)
    <3>1. <<y.at, (j + 1) - h>> \in StagesOf(m.framing) /\ y.cur = x.cur /\ y.at # "closed"
      <4>1. CASE x.at = "body"
        BY <1>8, <4>1
      <4>2. CASE x.at = "size"
        <5>1. CASE t = Size(1)
          <6>1. <<"chunk", (j + 1) - h>> \in StagesOf(m.framing) /\ Head(x.wire).kind = "size"
                  /\ Head(x.wire).size = 1
            BY <1>8, <1>10, <1>11, <4>2, <5>1
          <6> QED BY <4>2, <6>1
        <5>2. CASE t = Size(0)
          <6>1. <<"trailers", (j + 1) - h>> \in StagesOf(m.framing) /\ Head(x.wire).kind = "size"
                  /\ Head(x.wire).size = 0
            BY <1>8, <1>10, <1>11, <4>2, <5>2
          <6> QED BY <4>2, <6>1
        <5> QED BY <1>8, <2>3, <4>2, <5>1, <5>2
      <4>3. CASE x.at = "chunk"
        BY <1>8, <4>3
      <4>4. CASE x.at = "crlf"
        BY <1>8, <4>4
      <4>5. CASE x.at = "trailers"
        <5>1. <<"route", (j + 1) - h>> \in StagesOf(m.framing) /\ Head(x.wire).kind = "blank"
          BY <1>8, <1>10, <4>5 DEF Blank
        <5> QED BY <4>5, <5>1
      <4> QED BY <1>8, <4>1, <4>2, <4>3, <4>4, <4>5
    <3>2. InBody(y, m, j + 1)
      BY <1>7, <3>1 DEF InBody
    <3>3. Midway(y, stream, m, tokens, rest, j + 1)
      BY <1>6, <1>7, <1>10, <3>1, <3>2 DEF Midway
    <3> QED BY <1>4, <2>1, <3>1, <3>3, MidwayOn
  <2> QED BY <2>2, <2>3
<1> QED BY <1>9, <1>10

\* Where all was read, nothing follows the message.
LEMMA AllRead ==
    ASSUME NEW tokens \in Seq(Token), NEW rest \in Seq(Token), NEW j \in Nat,
           j <= Len(tokens), Drop(tokens \o rest, j) = << >>
    PROVE  rest = << >> /\ j = Len(tokens)
<1> DEFINE s == tokens \o rest
<1>1. /\ s \in Seq(Token) /\ Len(s) = Len(tokens) + Len(rest)
      /\ Len(tokens) \in Nat /\ Len(rest) \in Nat
  BY ConcatFacts
<1> HIDE DEF s
<1>2. j \in 0..Len(s)
  BY <1>1
<1>3. s \in Seq(Token)
  BY <1>1
<1>4. Drop(s, j) = << >> <=> j = Len(s)
  BY <1>2, <1>3, DropFacts
<1>5. j = Len(s)
  BY <1>4 DEF s
<1> QED BY <1>1, <1>5

LEMMA StraysType ==
    Strays \subseteq Seq(Token)
<1>1. Blank \in Token /\ Header("other") \in Token
  BY DEF Blank, Header, Token, HeaderName
<1>2. << >> \in Seq(Token) /\ << Blank >> \in Seq(Token) /\ << Header("other") >> \in Seq(Token)
  BY <1>1
<1> QED BY <1>2 DEF Strays

LEMMA InputEnds ==
    ASSUME NEW x, NEW y, Framed(x), Same(x, y), x.client = "gone", x.wire = << >>,
           y.wire = x.wire, x.at \in Reading,
           \/ x.at = "trailers" /\ y.at = "route" /\ y.cur = x.cur
           \/ x.at = "crlf" /\ y.at = "size" /\ y.cur = x.cur
           \/ x.at \notin {"trailers", "crlf"} /\ y.at = "closed"
    PROVE  Framed(y)
<1>1. x.at # "closed" /\ y.client = x.client
  BY DEF Reading, Same
<1>2. CASE x.at # "trailers"
  <2>1. y.at \in (Reading \ {"trailers"}) \cup {"closed"}
    BY <1>2 DEF Reading
  <2> QED BY <1>1, <2>1, InputOver
<1>3. CASE x.at = "trailers"
  <2>1. y.at = "route" /\ y.cur = x.cur
    BY <1>3
  <2>2. PICK stream : Streams(x, stream) /\ Position(x, stream)
    BY <1>1 DEF Framed
  <2>3. ~Doomed(x) /\ ~Answering(x, stream)
    BY <1>3 DEF Doomed, Answering
  <2>4. KeptOpen(x)
    BY <2>2, <2>3 DEF Position
  <2>5. Routed(y) = Routed(x) /\ KeptOpen(y) /\ y.sent = x.sent
    BY <2>4, SameHistory DEF Same
  <2>6. CASE Curtailed(x, stream)
    <3>1. Curtailed(y, stream)
      BY <1>1, <2>1, <2>5, <2>6 DEF Curtailed
    <3> QED BY <2>1, <2>2, <2>5, <3>1, GoesOn DEF Position
  <2>7. CASE ~Curtailed(x, stream)
    <3>1. PICK m \in Message, tokens \in Seq(Token), rest \in Seq(Token), j \in Nat :
             Midway(x, stream, m, tokens, rest, j)
      BY <1>3, <2>2, <2>3, <2>7 DEF Position
    <3>2. /\ m.framing # "junk" /\ x.cur.line = RequestLine(m) /\ Exact(m, tokens, j)
          /\ <<x.at, j - Len(HeaderLines(m))>> \in StagesOf(m.framing)
          /\ "close" \in x.cur.headers <=> m.close
          /\ Within(x, stream, m, tokens, rest) /\ x.wire = Drop(stream[Routed(x)], j)
      BY <1>3, <3>1 DEF Midway, InHeaders, InBody
    <3>3. stream[Routed(x)] = tokens \o rest
      BY <3>2 DEF Within
    <3>4. rest = << >>
      <4>1. j <= Len(tokens) /\ Drop(tokens \o rest, j) = << >>
        BY <3>2, <3>3 DEF Exact
      <4> QED BY <4>1, AllRead
    <3>5. m.framing = "chunked" /\ WholeAt(m, TRUE) <= j
      <4>1. x.at # "route" /\ x.at = "trailers"
        BY <1>3
      <4> QED BY <3>2, <4>1, StageToken
    <3>6. Within(y, stream, m, tokens, rest)
      BY <3>2, SameHistory
    <3>7. y.client = "gone" /\ rest = << >> /\ WholeAt(m, TRUE) <= j
      BY <1>1, <3>4, <3>5
    <3>8. /\ Routed(y) < Len(y.sent) /\ m = y.sent[Routed(y) + 1]
          /\ rest = stream[Routed(y) + 1] /\ WholeOf(y, m, tokens, rest)
      <4>1. \/ WholeAt(m, FALSE) <= j
            \/ y.client = "gone" /\ rest = << >> /\ WholeAt(m, TRUE) <= j
        BY <3>7
      <4>2. Exact(m, tokens, j)
        BY <3>2
      <4> QED BY <3>6, <4>1, <4>2, ReadIsSent
    <3>9. Curtailed(y, stream)
      BY <2>1, <3>2, <3>5, <3>7, <3>8 DEF Curtailed
    <3> QED BY <2>1, <2>2, <2>5, <3>9, GoesOn DEF Position
  <2> QED BY <2>6, <2>7
<1> QED BY <1>2, <1>3

LEMMA NothingLeft ==
    ASSUME NEW x, Framed(x), x.client # "gone", x.wire = << >>, x.at \in Reading
    PROVE  Routed(x) = Len(x.sent)
<1> DEFINE k == Routed(x)
<1>1. PICK stream : Streams(x, stream) /\ Position(x, stream)
  BY DEF Framed, Reading
<1>2. /\ stream[k] \in Seq(Token) /\ k \in 0..Len(x.sent) /\ Len(x.sent) \in Nat
      /\ x.sent \in Seq(Message)
  BY <1>1 DEF Framed, Served, Streams
<1> SUFFICES ASSUME Routed(x) < Len(x.sent) PROVE FALSE
  BY <1>2
<1>3. ~Doomed(x) /\ ~Answering(x, stream) /\ ~Curtailed(x, stream)
  BY DEF Doomed, Answering, Curtailed, Reading
<1>4. CASE x.at = "line" /\ Between(x, stream)
  <2>1. PICK stray \in Strays : x.wire = stray \o stream[k]
    BY <1>4 DEF Between
  <2>2. stray \in Seq(Token)
    BY StraysType
  <2>3. stream[k] = << >>
    BY <1>2, <2>1, <2>2, ConcatFacts
  <2>4. k + 1 \in 1..Len(x.sent) /\ (k + 1) - 1 = k
    BY <1>2
  <2>5. PICK tokens \in Seq(Token) :
           /\ stream[k] = tokens \o stream[k + 1]
           /\ PieceOf(x, x.sent[k + 1], tokens, stream[k + 1])
           /\ WholeOf(x, x.sent[k + 1], tokens, stream[k + 1])
    BY <1>1, <2>4 DEF Streams
  <2>6. Whole(x.sent[k + 1], tokens, FALSE)
    BY <2>5 DEF WholeOf, Ended
  <2>7. stream[k + 1] \in Seq(Token) /\ x.sent[k + 1] \in Message
    BY <1>1, <1>2, <2>4 DEF Streams
  <2>8. tokens # << >>
    BY <2>6, <2>7, WholeNotEmpty
  <2> QED BY <2>3, <2>5, <2>7, <2>8, ConcatFacts
<1>5. CASE ~(x.at = "line" /\ Between(x, stream))
  <2>1. PICK m \in Message, tokens \in Seq(Token), rest \in Seq(Token), j \in Nat :
           Midway(x, stream, m, tokens, rest, j)
    BY <1>1, <1>3, <1>5 DEF Position
  <2>2. /\ Within(x, stream, m, tokens, rest) /\ Exact(m, tokens, j) /\ m.framing # "junk"
        /\ x.wire = Drop(stream[Routed(x)], j)
    BY <2>1 DEF Midway
  <2>3. j < WholeAt(m, FALSE)
    BY <2>1, StageBelow DEF Midway
  <2>4. j = Len(tokens)
    <3>1. j <= Len(tokens) /\ Drop(tokens \o rest, j) = << >>
      BY <2>2 DEF Exact, Within
    <3> QED BY <3>1, AllRead
  <2>5. WholeOf(x, m, tokens, rest)
    BY <1>2, <2>2 DEF Within
  <2>6. Whole(m, tokens, FALSE)
    BY <2>5 DEF WholeOf, Ended
  <2> DEFINE n == WholeAt(m, FALSE)
             whole == Len(Tokens(m))
  <2>7. n <= Len(tokens) /\ j < n
    BY <2>3, <2>6 DEF Whole, Exact
  <2>8. n \in 1..whole
    BY WholeRange
  <2>9. n \in Nat
    <3> HIDE DEF n, whole
    <3> QED BY <2>8
  <2> HIDE DEF n
  <2> QED BY <2>4, <2>7, <2>9
<1> QED BY <1>4, <1>5

LEMMA TimedOut ==
    ASSUME NEW x, NEW y, Framed(x), Same(x, y), x.client # "gone", x.wire = << >>,
           x.at \in Reading, y.at = "closed", y.expired
    PROVE  Framed(y)
<1>1. Routed(x) = Len(x.sent)
  BY NothingLeft
<1>2. Routed(y) = Len(y.sent)
  BY <1>1, SameHistory DEF Same
<1> QED BY <1>2, EndsFor DEF Reason

LEMMA BrokenOff ==
    ASSUME NEW x, NEW y, Framed(x), Same(x, y), x.client = "gone", y.at = "closed"
    PROVE  Framed(y)
BY EndsFor DEF Reason, Same

-----------------------------------------------------------------------------
(* A request is routed, and answered *)

\* At "route" all of a well-formed message was read but a stray newline.
LEMMA RouteStage ==
    ASSUME NEW m \in Message, m.framing # "junk", NEW j \in Nat,
           <<"route", j - Len(HeaderLines(m))>> \in StagesOf(m.framing)
    PROVE  /\ ~IllFormed(m) /\ WholeAt(m, FALSE) <= j
           /\ \/ Len(Tokens(m)) = j
              \/ Len(Tokens(m)) = j + 1 /\ Tokens(m)[j + 1] = Blank
<1> DEFINE h == Len(HeaderLines(m))
           b == BodyTokens(m)
           n == Needed(m.framing, FALSE)
           w == WholeAt(m, FALSE)
           whole == Len(Tokens(m))
<1>1. /\ h \in Nat /\ w = h + n /\ whole = h + 2 + Len(b)
      /\ \A i \in 1..Len(b) : Tokens(m)[h + 2 + i] = b[i]
  BY HeaderLinesType, TokensShape, WholeLength
<1>2. CASE m.framing = "none"
  <2>1. j - h = 2 /\ n = 2 /\ Len(b) = 0
    BY <1>2, BodyShape DEF StagesOf, Needed
  <2> HIDE DEF h, b, n, w, whole
  <2>2. w <= j /\ whole = j
    BY <1>1, <2>1
  <2> QED BY <1>2, <2>2 DEF IllFormed, w, whole
<1>3. CASE m.framing = "sized"
  <2>1. j - h = 3 /\ n = 3 /\ Len(b) = 1
    BY <1>3, BodyShape DEF StagesOf, Needed
  <2> HIDE DEF h, b, n, w, whole
  <2>2. w <= j /\ whole = j
    BY <1>1, <2>1
  <2> QED BY <1>3, <2>2 DEF IllFormed, w, whole
<1>4. CASE m.framing = "trailed"
  <2>1. j - h = 3 /\ n = 3 /\ Len(b) = 2 /\ b[2] = Blank
    BY <1>4, BodyShape DEF StagesOf, Needed
  <2>3. Tokens(m)[h + 2 + 2] = Blank
    <3>1. 2 \in 1..Len(b)
      BY <2>1
    <3> QED BY <1>1, <2>1, <3>1
  <2> HIDE DEF h, b, n, w, whole
  <2>2. w <= j /\ whole = j + 1 /\ j + 1 = h + 2 + 2
    BY <1>1, <2>1
  <2> QED BY <1>4, <2>2, <2>3 DEF IllFormed, w, whole
<1>5. CASE m.framing = "chunked"
  <2>1. j - h = 7 /\ n = 7 /\ Len(b) = 5
    BY <1>5, BodyShape DEF StagesOf, Needed
  <2> HIDE DEF h, b, n, w, whole
  <2>2. w <= j /\ whole = j
    BY <1>1, <2>1
  <2> QED BY <1>5, <2>2 DEF IllFormed, w, whole
<1>6. CASE m.framing \notin {"none", "sized", "trailed", "chunked"}
  BY <1>6 DEF StagesOf
<1> QED BY <1>2, <1>3, <1>4, <1>5, <1>6

\* What is left of a message that was read as far as it needs.
LEMMA StrayLeft ==
    ASSUME NEW x, NEW m \in Message, NEW tokens \in Seq(Token), NEW rest \in Seq(Token),
           NEW j \in Nat, j <= Len(tokens), PieceOf(x, m, tokens, rest),
           \/ Len(Tokens(m)) = j
           \/ Len(Tokens(m)) = j + 1 /\ Tokens(m)[j + 1] = Blank
    PROVE  \E stray \in Strays :
              /\ Drop(tokens \o rest, j) = stray \o rest
              /\ stray = << Header("other") >> => x.client = "gone"
<1> DEFINE d == Drop(tokens, j)
<1>1. Len(tokens) \in Nat /\ j \in 0..Len(tokens)
  OBVIOUS
<1>2. /\ d \in Seq(Token) /\ Len(d) = Len(tokens) - j
      /\ \A i \in 1..(Len(tokens) - j) : d[i] = tokens[j + i]
      /\ d = << >> <=> j = Len(tokens)
  BY <1>1, DropFacts
<1>3. Drop(tokens \o rest, j) = d \o rest
  BY <1>1, DropConcat
<1>4. Len(tokens) <= Len(Tokens(m))
  BY DEF PieceOf, Piece
<1>5. << >> # << Header("other") >> /\ << Blank >> # << Header("other") >>
        /\ Blank.kind = "blank"
  <2>1. Blank # Header("other")
    BY DEF Blank, Header
  <2> QED BY <2>1 DEF Blank
<1> HIDE DEF d
<1>6. CASE j = Len(tokens)
  BY <1>2, <1>3, <1>5, <1>6 DEF Strays
<1>7. CASE j # Len(tokens)
  <2>1. Len(tokens) = j + 1 /\ Tokens(m)[j + 1] = Blank
    BY <1>1, <1>4, <1>7
  <2>2. Len(d) = 1 /\ d[1] = tokens[j + 1] /\ d \in Seq(Token)
    BY <1>1, <1>2, <2>1
  <2>3. d = << tokens[j + 1] >>
    BY <2>2
  <2>4. j + 1 \in 1..Len(tokens) /\ j + 1 = Len(tokens)
    BY <2>1
  <2>5. CASE tokens[j + 1] = Blank
    BY <1>3, <1>5, <2>3, <2>5 DEF Strays
  <2>6. CASE tokens[j + 1] # Blank
    <3>1. Ended(x, rest) /\ Piece(m, tokens, TRUE)
      BY <2>1, <2>4, <2>6 DEF PieceOf, Piece
    <3>2. tokens[j + 1] \in CutShort(Blank)
      BY <2>1, <2>4, <2>6, <3>1 DEF Piece
    <3>3. tokens[j + 1] = Header("other")
      BY <1>5, <2>6, <3>2, CutTokens
    <3> QED BY <1>3, <2>3, <3>1, <3>3 DEF Strays, Ended
  <2> QED BY <2>5, <2>6
<1> QED BY <1>6, <1>7

\* The request that is about to be routed is that of the next message.
Due(x, stream) ==
    /\ KeptOpen(x) /\ Routed(x) < Len(x.sent) /\ ~IllFormed(x.sent[Routed(x) + 1])
    /\ x.cur.line = RequestLine(x.sent[Routed(x) + 1])
    /\ "close" \in x.cur.headers <=> x.sent[Routed(x) + 1].close
    /\ \E stray \in Strays :
          /\ x.wire = stray \o stream[Routed(x) + 1]
          /\ stray = << Header("other") >> => x.client = "gone"

LEMMA ReadyToRoute ==
    ASSUME NEW x, Framed(x), x.at = "route"
    PROVE  \E stream : Streams(x, stream) /\ Due(x, stream)
<1>1. PICK stream : Streams(x, stream) /\ Position(x, stream)
  BY DEF Framed
<1>2. ~Doomed(x) /\ ~Answering(x, stream)
  BY DEF Doomed, Answering, Reading
<1>3. KeptOpen(x) /\ Routed(x) \in Nat
  BY <1>1, <1>2 DEF Position, Framed, Served
<1>4. CASE Curtailed(x, stream)
  <2>1. << >> \o << >> = << >> /\ << >> \in Strays /\ << >> # << Header("other") >>
    BY DEF Strays
  <2>2. \E stray \in Strays :
           /\ x.wire = stray \o stream[Routed(x) + 1]
           /\ stray = << Header("other") >> => x.client = "gone"
    BY <1>4, <2>1 DEF Curtailed
  <2> QED BY <1>1, <1>3, <1>4, <2>2 DEF Curtailed, Due, IllFormed
<1>5. CASE ~Curtailed(x, stream)
  <2>1. PICK m \in Message, tokens \in Seq(Token), rest \in Seq(Token), j \in Nat :
           Midway(x, stream, m, tokens, rest, j)
    BY <1>1, <1>2, <1>5 DEF Position
  <2>2. /\ m.framing # "junk" /\ x.cur.line = RequestLine(m) /\ Exact(m, tokens, j)
        /\ <<"route", j - Len(HeaderLines(m))>> \in StagesOf(m.framing)
        /\ "close" \in x.cur.headers <=> m.close
        /\ Within(x, stream, m, tokens, rest) /\ x.wire = Drop(stream[Routed(x)], j)
    BY <2>1 DEF Midway, InHeaders, InBody
  <2>3. /\ ~IllFormed(m) /\ WholeAt(m, FALSE) <= j
        /\ \/ Len(Tokens(m)) = j
           \/ Len(Tokens(m)) = j + 1 /\ Tokens(m)[j + 1] = Blank
    BY <2>2, RouteStage
  <2>4. /\ Routed(x) < Len(x.sent) /\ m = x.sent[Routed(x) + 1]
        /\ rest = stream[Routed(x) + 1] /\ WholeOf(x, m, tokens, rest)
    BY <2>2, <2>3, ReadIsSent
  <2>5. j <= Len(tokens) /\ PieceOf(x, m, tokens, rest) /\ x.wire = Drop(tokens \o rest, j)
    BY <2>2 DEF Exact, Within
  <2>6. PICK stray \in Strays :
           /\ Drop(tokens \o rest, j) = stray \o rest
           /\ stray = << Header("other") >> => x.client = "gone"
    BY <2>3, <2>5, StrayLeft
  <2>7. \E stray2 \in Strays :
           /\ x.wire = stray2 \o stream[Routed(x) + 1]
           /\ stray2 = << Header("other") >> => x.client = "gone"
    BY <2>4, <2>5, <2>6
  <2> QED BY <1>1, <1>3, <2>2, <2>3, <2>4, <2>7 DEF Due
<1> QED BY <1>4, <1>5

LEMMA RequestRouted ==
    ASSUME NEW x, NEW y, Framed(x), x.at = "route", y.at = "reply",
           x.handled \in Seq(Exchanged), NEW exchange \in Exchanged,
           y.client = x.client, y.sent = x.sent, y.wire = x.wire,
           y.handled = Append(x.handled, exchange), exchange.req = x.cur.line.req,
           y.cur.line = x.cur.line, y.cur.headers = x.cur.headers
    PROVE  Framed(y)
<1> DEFINE k == Routed(x)
<1>1. PICK stream : Streams(x, stream) /\ Due(x, stream)
  BY ReadyToRoute
<1>2. k \in Nat /\ Len(x.sent) \in Nat /\ k < Len(x.sent) /\ Served(x)
  BY <1>1 DEF Due, Framed, Served
<1>3. /\ Routed(y) = k + 1 /\ y.handled[k + 1] = exchange
      /\ \A i \in 1..k : y.handled[i] = x.handled[i]
  BY DEF Routed
<1> HIDE DEF k
<1>4. exchange.req = x.sent[k + 1].req
  BY <1>1 DEF Due, RequestLine, k
<1>5. Served(y)
  <2>1. Routed(y) \in 0..Len(y.sent) /\ y.sent \in Seq(Message)
    BY <1>2, <1>3 DEF Served
  <2>2. ASSUME NEW i \in 1..(k + 1)
        PROVE  /\ y.handled[i].req = y.sent[i].req
               /\ ~IllFormed(y.sent[i])
               /\ i < k + 1 => ~Closing(y.sent[i])
    <3>1. CASE i = k + 1
      <4>1. ~(i < k + 1)
        BY <1>2, <3>1
      <4> QED BY <1>1, <1>3, <1>4, <3>1, <4>1 DEF Due, k
    <3>2. CASE i # k + 1
      <4>1. i \in 1..k
        BY <1>2, <3>2
      <4>2. x.handled[i].req = x.sent[i].req /\ ~IllFormed(x.sent[i])
              /\ (i < k => ~Closing(x.sent[i]))
        BY <1>2, <4>1 DEF Served, k
      <4>3. ~Closing(x.sent[i])
        <5>1. i < k \/ (i = k /\ k > 0)
          BY <1>2, <4>1
        <5> QED BY <1>1, <4>2, <5>1 DEF Due, KeptOpen, k
      <4> QED BY <1>3, <4>1, <4>2, <4>3
    <3> QED BY <3>1, <3>2
  <2> QED BY <1>3, <2>1, <2>2 DEF Served
<1>6. Streams(y, stream)
  <2>1. \A m, tokens, rest : /\ PieceOf(x, m, tokens, rest) <=> PieceOf(y, m, tokens, rest)
                             /\ WholeOf(x, m, tokens, rest) <=> WholeOf(y, m, tokens, rest)
    BY DEF PieceOf, WholeOf, Ended
  <2> QED BY <1>1, <2>1 DEF Streams
<1>7. Answering(y, stream)
  <2>1. Between(y, stream)
    BY <1>1, <1>3 DEF Due, Between, k
  <2>2. Routed(y) > 0
    BY <1>2, <1>3
  <2> QED BY <1>1, <1>3, <2>1, <2>2 DEF Answering, Due, k
<1> QED BY <1>5, <1>6, <1>7 DEF Framed, Position

LEMMA AnswerWritten ==
    ASSUME NEW x, NEW y, Framed(x), Same(x, y), x.at = "reply", y.wire = x.wire,
           y.at = IF x.cur.line.v11 /\ "close" \notin x.cur.headers THEN "line" ELSE "closed"
    PROVE  Framed(y)
<1>1. PICK stream : Streams(x, stream) /\ Position(x, stream)
  BY DEF Framed
<1>2. Answering(x, stream)
  <2>1. ~Doomed(x) /\ ~Curtailed(x, stream)
    BY DEF Doomed, Curtailed, Reading
  <2>2. ASSUME NEW m \in Message, NEW tokens \in Seq(Token), NEW rest \in Seq(Token),
               NEW j \in Nat, Midway(x, stream, m, tokens, rest, j)
        PROVE  FALSE
    BY <2>2 DEF Midway, InHeaders, InBody, StagesOf
  <2> QED BY <1>1, <2>1, <2>2 DEF Position
<1>3. Routed(y) = Routed(x) /\ y.sent = x.sent /\ y.client = x.client
  BY SameHistory DEF Same
<1> DEFINE m == x.sent[Routed(x)]
<1>4. x.cur.line.v11 /\ "close" \notin x.cur.headers <=> ~Closing(m)
  BY <1>2 DEF Answering, RequestLine, Closing
<1>5. CASE Closing(m)
  <2>1. y.at = "closed"
    BY <1>4, <1>5
  <2>2. Reason(y)
    BY <1>2, <1>3, <1>5 DEF Answering, Reason
  <2> QED BY <2>1, <2>2, EndsFor
<1>6. CASE ~Closing(m)
  <2>1. y.at = "line"
    BY <1>4, <1>6
  <2>2. Between(y, stream) /\ KeptOpen(y)
    BY <1>2, <1>3, <1>6 DEF Answering, Between, KeptOpen
  <2> QED BY <1>1, <2>1, <2>2, GoesOn DEF Position
<1> QED BY <1>5, <1>6

-----------------------------------------------------------------------------
(* The client sends more *)

\* A client that was sending sends a piece of a message, the whole of it or not.
Sends(x, y, m, tokens) ==
    /\ x.client = "sending" /\ x.at # "closed"
    /\ y.wire = x.wire \o tokens /\ y.handled = x.handled /\ y.at = x.at /\ y.cur = x.cur
    /\ PieceOf(y, m, tokens, << >>)
    /\ \/ WholeOf(y, m, tokens, << >>) /\ y.sent = Append(x.sent, m)
       \/ ~WholeOf(y, m, tokens, << >>) /\ y.sent = x.sent /\ y.client # "sending"

\* What was sent before is followed by what was sent now.
Longer(x, y, stream, tokens) ==
    [i \in 0..Len(y.sent) |-> IF i <= Len(x.sent) THEN stream[i] \o tokens ELSE << >>]

LEMMA SentGrows ==
    ASSUME NEW x, NEW y, NEW m \in Message, NEW tokens \in Seq(Token), Sends(x, y, m, tokens),
           x.sent \in Seq(Message), NEW stream, Streams(x, stream)
    PROVE  /\ y.sent \in Seq(Message) /\ Len(x.sent) \in Nat
           /\ Len(y.sent) \in {Len(x.sent), Len(x.sent) + 1}
           /\ \A i \in 1..Len(x.sent) : y.sent[i] = x.sent[i]
           /\ \A i \in 0..Len(x.sent) : /\ stream[i] \in Seq(Token)
                                        /\ Longer(x, y, stream, tokens)[i] = stream[i] \o tokens
           /\ stream[Len(x.sent)] = << >>
<1>1. Len(x.sent) \in Nat
  OBVIOUS
<1>2. /\ y.sent \in Seq(Message) /\ Len(y.sent) \in {Len(x.sent), Len(x.sent) + 1}
      /\ \A i \in 1..Len(x.sent) : y.sent[i] = x.sent[i]
  <2>1. y.sent = Append(x.sent, m) \/ y.sent = x.sent
    BY DEF Sends
  <2>2. CASE y.sent = Append(x.sent, m)
    BY <1>1, <2>2
  <2>3. CASE y.sent = x.sent
    BY <1>1, <2>3
  <2> QED BY <2>1, <2>2, <2>3
<1>3. stream[Len(x.sent)] = << >>
  BY DEF Sends, Streams
<1>4. ASSUME NEW i \in 0..Len(x.sent)
      PROVE  /\ stream[i] \in Seq(Token)
             /\ Longer(x, y, stream, tokens)[i] = stream[i] \o tokens
  <2>1. i \in 0..Len(y.sent) /\ i <= Len(x.sent)
    BY <1>1, <1>2
  <2> QED BY <2>1 DEF Longer, Streams
<1> QED BY <1>1, <1>2, <1>3, <1>4

\* A message sent before is what it was.
LEMMA PieceKept ==
    ASSUME NEW x, NEW y, NEW m, NEW tokens, NEW rest, NEW more, x.client = "sending"
    PROVE  /\ PieceOf(x, m, tokens, rest) => PieceOf(y, m, tokens, more)
           /\ WholeOf(x, m, tokens, rest) => WholeOf(y, m, tokens, more)
BY DEF PieceOf, WholeOf, Ended

LEMMA StreamsOn ==
    ASSUME NEW x, NEW y, NEW m \in Message, NEW tokens \in Seq(Token), Sends(x, y, m, tokens),
           x.sent \in Seq(Message), NEW stream, Streams(x, stream)
    PROVE  Streams(y, Longer(x, y, stream, tokens))
<1> DEFINE n == Len(x.sent)
           longer == Longer(x, y, stream, tokens)
<1>0. /\ y.sent \in Seq(Message) /\ Len(x.sent) \in Nat
      /\ Len(y.sent) \in {Len(x.sent), Len(x.sent) + 1}
      /\ \A i \in 1..Len(x.sent) : y.sent[i] = x.sent[i]
      /\ \A i \in 0..Len(x.sent) : /\ stream[i] \in Seq(Token)
                                   /\ Longer(x, y, stream, tokens)[i] = stream[i] \o tokens
      /\ stream[Len(x.sent)] = << >>
  BY SentGrows
<1>1. /\ y.sent \in Seq(Message) /\ n \in Nat /\ Len(y.sent) \in {n, n + 1}
      /\ \A i \in 1..n : y.sent[i] = x.sent[i]
      /\ \A i \in 0..n : stream[i] \in Seq(Token) /\ longer[i] = stream[i] \o tokens
      /\ stream[n] = << >>
  BY <1>0
<1>2. x.client = "sending"
  BY DEF Sends
<1>3. longer[n] = tokens
  <2>1. << >> \o tokens = tokens /\ n \in 0..n
    BY <1>1, ConcatFacts
  <2>2. longer[n] = stream[n] \o tokens
    BY <1>1, <2>1
  <2> QED BY <1>1, <2>1, <2>2
<1>4. Len(y.sent) = n + 1 => longer[n + 1] = << >>
  <2>1. Len(y.sent) = n + 1 => n + 1 \in 0..Len(y.sent) /\ ~(n + 1 <= n)
    BY <1>1
  <2> QED BY <2>1 DEF Longer
<1>5. longer \in [0..Len(y.sent) -> Seq(Token)]
  <2>1. \A i \in 0..n : stream[i] \o tokens \in Seq(Token)
    BY <1>1, ConcatFacts
  <2>2. \A i \in 0..Len(y.sent) : i <= n => i \in 0..n
    BY <1>1
  <2>3. << >> \in Seq(Token)
    OBVIOUS
  <2> QED BY <2>1, <2>2, <2>3 DEF Longer
<1> HIDE DEF longer
<1>6. ASSUME NEW i \in 1..Len(y.sent)
      PROVE  \E piece \in Seq(Token) :
                /\ longer[i - 1] = piece \o longer[i]
                /\ PieceOf(y, y.sent[i], piece, longer[i])
                /\ WholeOf(y, y.sent[i], piece, longer[i])
  <2>1. CASE i <= n
    <3>1. i \in 1..n /\ i \in 0..n /\ i - 1 \in 0..n
      BY <1>1, <2>1
    <3>2. PICK piece \in Seq(Token) :
             /\ stream[i - 1] = piece \o stream[i]
             /\ PieceOf(x, x.sent[i], piece, stream[i])
             /\ WholeOf(x, x.sent[i], piece, stream[i])
      BY <3>1 DEF Streams
    <3>3. stream[i] \in Seq(Token)
      BY <1>1, <3>1
    <3>4. (piece \o stream[i]) \o tokens = piece \o (stream[i] \o tokens)
      <4>1. \A u \in Seq(Token) : (piece \o u) \o tokens = piece \o (u \o tokens)
        BY ConcatConcat
      <4> QED BY <3>3, <4>1
    <3>5. longer[i - 1] = piece \o longer[i]
      BY <1>1, <3>1, <3>2, <3>4
    <3>6. PieceOf(y, x.sent[i], piece, longer[i]) /\ WholeOf(y, x.sent[i], piece, longer[i])
      BY <1>2, <3>2, PieceKept
    <3>7. y.sent[i] = x.sent[i]
      BY <1>1, <3>1
    <3> QED BY <3>5, <3>6, <3>7
  <2>2. CASE ~(i <= n)
    <3>1. i = n + 1 /\ Len(y.sent) = n + 1 /\ i - 1 = n
      BY <1>1, <2>2
    <3>2. y.sent = Append(x.sent, m) /\ WholeOf(y, m, tokens, << >>)
      BY <1>1, <3>1 DEF Sends
    <3>3. y.sent[n + 1] = m
      BY <1>1, <3>2
    <3>4. tokens \o << >> = tokens
      BY ConcatFacts
    <3>5. PieceOf(y, m, tokens, << >>)
      BY DEF Sends
    <3> QED BY <1>3, <1>4, <3>1, <3>2, <3>3, <3>4, <3>5
  <2> QED BY <2>1, <2>2
<1>7. ASSUME longer[Len(y.sent)] # << >>
      PROVE  /\ y.client # "sending"
             /\ \E u \in Message : /\ PieceOf(y, u, longer[Len(y.sent)], << >>)
                                   /\ ~WholeOf(y, u, longer[Len(y.sent)], << >>)
  <2>1. Len(y.sent) = n
    BY <1>1, <1>4, <1>7
  <2>2. y.client # "sending" /\ ~WholeOf(y, m, tokens, << >>) /\ PieceOf(y, m, tokens, << >>)
    <3>1. y.sent # Append(x.sent, m)
      BY <1>1, <2>1
    <3> QED BY <3>1 DEF Sends
  <2> QED BY <1>3, <2>1, <2>2
<1> QED BY <1>5, <1>6, <1>7 DEF Streams, longer

LEMMA SentMore ==
    ASSUME NEW x, NEW y, NEW m \in Message, NEW tokens \in Seq(Token), Sends(x, y, m, tokens),
           Framed(x)
    PROVE  Framed(y)
<1> DEFINE n == Len(x.sent)
           k == Routed(x)
<1>1. Served(x) /\ x.sent \in Seq(Message) /\ k \in 0..n /\ n \in Nat
  BY DEF Framed, Served
<1>2. /\ x.client = "sending" /\ x.at # "closed" /\ y.at = x.at /\ y.cur = x.cur
      /\ y.wire = x.wire \o tokens /\ Routed(y) = k /\ y.handled = x.handled
  BY DEF Sends, Routed
<1>3. PICK stream : Streams(x, stream) /\ Position(x, stream)
  BY <1>2 DEF Framed
<1> DEFINE longer == Longer(x, y, stream, tokens)
<1>4. Streams(y, longer)
  BY <1>1, <1>3, StreamsOn
<1>0. /\ y.sent \in Seq(Message) /\ Len(x.sent) \in Nat
      /\ Len(y.sent) \in {Len(x.sent), Len(x.sent) + 1}
      /\ \A i \in 1..Len(x.sent) : y.sent[i] = x.sent[i]
      /\ \A i \in 0..Len(x.sent) : /\ stream[i] \in Seq(Token)
                                   /\ Longer(x, y, stream, tokens)[i] = stream[i] \o tokens
      /\ stream[Len(x.sent)] = << >>
  BY <1>1, <1>3, SentGrows
<1>5. /\ y.sent \in Seq(Message) /\ Len(y.sent) \in {n, n + 1}
      /\ \A i \in 1..n : y.sent[i] = x.sent[i]
      /\ \A i \in 0..n : stream[i] \in Seq(Token) /\ longer[i] = stream[i] \o tokens
  BY <1>0
<1> HIDE DEF longer
<1>6. Served(y)
  <2>1. k \in 0..Len(y.sent) /\ \A i \in 1..k : i \in 1..n
    BY <1>1, <1>5
  <2> QED BY <1>1, <1>2, <1>5, <2>1 DEF Served
<1>7. KeptOpen(x) => KeptOpen(y)
  <2>1. k > 0 => k \in 1..n
    BY <1>1
  <2> QED BY <1>2, <1>5, <2>1 DEF KeptOpen
<1>8. Between(x, stream) => Between(y, longer)
  <2> SUFFICES ASSUME Between(x, stream) PROVE Between(y, longer)
    OBVIOUS
  <2>1. PICK stray \in Strays : /\ x.wire = stray \o stream[k]
                                /\ stray = << Header("other") >> => x.client = "gone"
    BY DEF Between
  <2>2. stray \in Seq(Token) /\ stream[k] \in Seq(Token)
    BY <1>1, <1>5, StraysType
  <2>3. (stray \o stream[k]) \o tokens = stray \o (stream[k] \o tokens)
    <3>1. \A u \in Seq(Token) : (stray \o u) \o tokens = stray \o (u \o tokens)
      BY <2>2, ConcatConcat
    <3> QED BY <2>2, <3>1
  <2>4. y.wire = stray \o longer[k]
    BY <1>1, <1>2, <1>5, <2>1, <2>3
  <2>5. stray # << Header("other") >>
    BY <1>2, <2>1
  <2> QED BY <1>2, <2>4, <2>5 DEF Between
<1>9. ~Doomed(x) /\ ~Curtailed(x, stream)
  BY <1>2 DEF Doomed, Curtailed
<1>10. CASE Answering(x, stream)
  <2>1. k > 0 /\ k \in 1..n
    BY <1>1, <1>10 DEF Answering
  <2>2. y.sent[k] = x.sent[k]
    BY <1>5, <2>1
  <2>3. Answering(y, longer)
    BY <1>2, <1>8, <1>10, <2>1, <2>2 DEF Answering
  <2> QED BY <1>4, <1>6, <1>2, <2>3 DEF Framed, Position
<1>11. CASE KeptOpen(x) /\ x.at = "line" /\ Between(x, stream)
  BY <1>2, <1>4, <1>6, <1>7, <1>8, <1>11 DEF Framed, Position
<1>12. ASSUME KeptOpen(x), NEW u \in Message, NEW piece \in Seq(Token), NEW rest \in Seq(Token),
              NEW j \in Nat, Midway(x, stream, u, piece, rest, j)
       PROVE  Framed(y)
  <2>1. /\ Within(x, stream, u, piece, rest) /\ u.framing # "junk" /\ Exact(u, piece, j)
        /\ x.wire = Drop(stream[k], j) /\ x.cur.line = RequestLine(u)
    BY <1>12 DEF Midway
  <2>2. /\ stream[k] = piece \o rest /\ PieceOf(x, u, piece, rest) /\ k < n
        /\ u = x.sent[k + 1] /\ rest = stream[k + 1] /\ WholeOf(x, u, piece, rest)
    BY <1>2, <2>1 DEF Within
  <2>3. k + 1 \in 1..n /\ k + 1 \in 0..n /\ k \in 0..n /\ k < Len(y.sent)
    BY <1>1, <1>5, <2>2
  <2>4. (piece \o rest) \o tokens = piece \o (rest \o tokens)
    BY ConcatConcat
  <2>5. longer[k] = piece \o longer[k + 1]
    BY <1>5, <2>2, <2>3, <2>4
  <2>6. PieceOf(y, u, piece, longer[k + 1]) /\ WholeOf(y, u, piece, longer[k + 1])
    <3>1. x.client = "sending"
      BY <1>2
    <3>2. PieceOf(x, u, piece, rest)
      BY <2>2
    <3>3. WholeOf(x, u, piece, rest)
      BY <2>2
    <3> QED BY <3>1, <3>2, <3>3, PieceKept, Zenon
  <2>7. u = y.sent[k + 1]
    BY <1>5, <2>2, <2>3
  <2>8. Within(y, longer, u, piece, longer[k + 1])
    BY <1>2, <2>3, <2>5, <2>6, <2>7 DEF Within
  <2>9. y.wire = Drop(longer[k], j)
    <3> DEFINE s == stream[k]
    <3>1. s \in Seq(Token) /\ longer[k] = s \o tokens /\ s = piece \o rest /\ x.wire = Drop(s, j)
      BY <1>5, <2>1, <2>2, <2>3
    <3>2. Len(piece \o rest) = Len(piece) + Len(rest) /\ Len(piece) \in Nat /\ Len(rest) \in Nat
      BY ConcatFacts
    <3>3. j <= Len(piece)
      BY <2>1 DEF Exact
    <3> HIDE DEF s
    <3>4. j \in 0..Len(s)
      BY <3>1, <3>2, <3>3
    <3>5. s \in Seq(Token)
      BY <3>1
    <3>6. Drop(s \o tokens, j) = Drop(s, j) \o tokens
      BY <3>4, <3>5, DropConcat
    <3> QED BY <1>2, <3>1, <3>6
  <2>10. InHeaders(y, u, j) \/ InBody(y, u, j)
    BY <1>2, <1>12 DEF Midway, InHeaders, InBody
  <2>11. Midway(y, longer, u, piece, longer[k + 1], j)
    BY <1>2, <2>1, <2>8, <2>9, <2>10 DEF Midway
  <2>12. longer[k + 1] \in Seq(Token)
    BY <1>4, <1>5, <2>3 DEF Streams
  <2> QED BY <1>2, <1>4, <1>6, <1>7, <1>12, <2>11, <2>12 DEF Framed, Position
<1> QED BY <1>3, <1>9, <1>10, <1>11, <1>12 DEF Position

-----------------------------------------------------------------------------
(* The steps of the server, seen at one connection *)

Frames ==
    /\ DOMAIN sent = Clients /\ DOMAIN expired = Clients
    /\ \A c \in Clients : Framed(View(c))

\* A step of connection c leaves what the others hold.
Alone(c) ==
    /\ DOMAIN sent' = Clients /\ DOMAIN expired' = Clients
    /\ \A d \in Clients : d # c => View(d)' = View(d)

LEMMA FramesStep ==
    ASSUME Frames, NEW c \in Clients, Alone(c), Framed(View(c)')
    PROVE  Frames'
BY DEF Frames, Alone

LEMMA ClientAlone ==
    ASSUME Inv, Frames, NEW c \in Clients, ClientStep(c)
    PROVE  Alone(c)
<1>1. PICK m \in Traffic[c] : Send(c, m) \/ Stall(c, m) \/ HangUp(c, m)
  BY DEF ClientStep
<1>2. PICK tokens, atEnd : Puts(c, m, tokens, atEnd)
  BY <1>1 DEF Send, Stall, HangUp
<1>3. client' = client \/ \E stage : client' = [client EXCEPT ![c] = stage]
  BY <1>1 DEF Send, Stall, HangUp
<1>4. /\ wire' = [wire EXCEPT ![c] = wire[c] \o tokens]
      /\ sent' = sent \/ sent' = [sent EXCEPT ![c] = Append(sent[c], m)]
      /\ UNCHANGED <<at, cur, handled, expired>>
  BY <1>2 DEF Puts
<1>5. /\ DOMAIN wire = Clients /\ DOMAIN client = Clients /\ DOMAIN sent = Clients
      /\ DOMAIN expired = Clients
  BY DEF Inv, Tables, Frames
<1>6. \A d \in Clients : d # c => wire'[d] = wire[d] /\ client'[d] = client[d] /\ sent'[d] = sent[d]
  BY <1>3, <1>4, <1>5
<1> QED BY <1>3, <1>4, <1>5, <1>6 DEF Alone, View

LEMMA OthersKept ==
    ASSUME Inv, Frames, NEW c \in Clients,
           \/ wire' = wire
           \/ wire' = [wire EXCEPT ![c] = Tail(wire[c])],
           at' = at \/ \E place : at' = [at EXCEPT ![c] = place],
           cur' = cur \/ \E locals : cur' = [cur EXCEPT ![c] = locals],
           handled' = handled \/ \E done : handled' = [handled EXCEPT ![c] = done],
           expired' = expired \/ expired' = [expired EXCEPT ![c] = TRUE],
           UNCHANGED <<client, sent>>
    PROVE  Alone(c)
<1>1. /\ DOMAIN wire = Clients /\ DOMAIN at = Clients /\ DOMAIN cur = Clients
      /\ DOMAIN handled = Clients /\ DOMAIN sent = Clients /\ DOMAIN expired = Clients
  BY DEF Inv, Tables, Frames
<1>2. \A d \in Clients : d # c =>
         /\ wire'[d] = wire[d] /\ at'[d] = at[d] /\ cur'[d] = cur[d]
         /\ handled'[d] = handled[d] /\ expired'[d] = expired[d]
  BY <1>1
<1> QED BY <1>1, <1>2 DEF Alone, View

\* Places and locals after a step, for each thing it may do.
LEMMA Moves ==
    ASSUME Inv, NEW c \in Clients, NEW place
    PROVE  /\ Goto(c, place) => at'[c] = place /\ at' = [at EXCEPT ![c] = place]
           /\ Proceed(c, place) => at'[c] = place /\ cur'[c] = cur[c] /\ cur' = cur
                                     /\ at' = [at EXCEPT ![c] = place]
           /\ (Close(c) \/ Refuse(c)) => at'[c] = "closed" /\ cur' = cur
                                     /\ at' = [at EXCEPT ![c] = "closed"]
BY DEF Inv, Tables, Goto, Proceed, Close, Refuse

LEMMA ViewFields ==
    ASSUME NEW c
    PROVE  /\ View(c).wire = wire[c] /\ View(c).client = client[c] /\ View(c).at = at[c]
           /\ View(c).cur = cur[c] /\ View(c).sent = sent[c] /\ View(c).handled = handled[c]
           /\ View(c).expired = expired[c]
           /\ View(c)'.wire = wire'[c] /\ View(c)'.client = client'[c] /\ View(c)'.at = at'[c]
           /\ View(c)'.cur = cur'[c] /\ View(c)'.sent = sent'[c]
           /\ View(c)'.handled = handled'[c] /\ View(c)'.expired = expired'[c]
BY DEF View

LEMMA ReadsView ==
    ASSUME Inv, Frames, NEW c \in Clients, NEW place, Reads(c, place)
    PROVE  /\ View(c).at = place /\ View(c).wire # << >> /\ Framed(View(c))
           /\ View(c)'.wire = Tail(View(c).wire) /\ Same(View(c), View(c)')
           /\ wire' = [wire EXCEPT ![c] = Tail(wire[c])]
           /\ UNCHANGED <<client, sent, handled, expired>>
<1>1. /\ at[c] = place /\ wire[c] # << >> /\ wire' = [wire EXCEPT ![c] = Tail(wire[c])]
      /\ UNCHANGED <<client, sent, handled, expired>> /\ DOMAIN wire = Clients
  BY DEF Reads, At, Inv, Tables
<1> QED BY <1>1, ViewFields DEF Same, Frames

LEMMA ReadRequestLineFramed ==
    ASSUME Inv, Frames, NEW c \in Clients, ReadRequestLine(c)
    PROVE  Frames'
<1> DEFINE t == Head(wire[c])
           x == View(c)
           y == View(c)'
<1>1. Reads(c, "line")
  BY DEF ReadRequestLine
<1>2. \/ t.kind = "blank" /\ Proceed(c, "line")
      \/ t.kind = "overlong" /\ Close(c)
      \/ /\ t.kind = "request" /\ cur' = [cur EXCEPT ![c] = [Fresh EXCEPT !.line = t]]
         /\ Goto(c, "headers")
      \/ t.kind \notin {"blank", "request"} /\ Refuse(c)
  BY DEF ReadRequestLine
<1>3. DOMAIN cur = Clients
  BY DEF Inv, Tables
<1>4. \/ Head(x.wire).kind = "blank" /\ y.at = "line" /\ y.cur = x.cur
      \/ /\ Head(x.wire).kind = "request" /\ y.at = "headers"
         /\ y.cur.line = Head(x.wire) /\ y.cur.headers = {} /\ y.cur.n = 0
      \/ Head(x.wire).kind \notin {"blank", "request"} /\ y.at = "closed"
  <2>1. [Fresh EXCEPT !.line = t] = [line |-> t, headers |-> {}, n |-> 0, resp |-> NoAnswer]
    BY DEF Fresh
  <2>2. x.wire = wire[c] /\ x.cur = cur[c] /\ y.at = at'[c] /\ y.cur = cur'[c]
    BY ViewFields
  <2>3. Head(x.wire) = t
    BY <2>2
  <2> HIDE DEF t, x, y
  <2>4. CASE t.kind = "blank" /\ Proceed(c, "line")
    <3>1. at'[c] = "line" /\ cur'[c] = cur[c]
      BY <2>4, Moves
    <3> QED BY <2>2, <2>3, <2>4, <3>1
  <2>5. CASE t.kind = "overlong" /\ Close(c)
    <3>1. at'[c] = "closed"
      BY <2>5, Moves
    <3> QED BY <2>2, <2>3, <2>5, <3>1
  <2>6. CASE /\ t.kind = "request" /\ cur' = [cur EXCEPT ![c] = [Fresh EXCEPT !.line = t]]
             /\ Goto(c, "headers")
    <3>1. cur'[c] = [line |-> t, headers |-> {}, n |-> 0, resp |-> NoAnswer]
      BY <1>3, <2>1, <2>6 DEF t
    <3>2. cur'[c].line = t /\ cur'[c].headers = {} /\ cur'[c].n = 0
      BY <3>1
    <3>3. at'[c] = "headers"
      BY <2>6, Moves
    <3> QED BY <2>2, <2>3, <2>6, <3>2, <3>3
  <2>7. CASE t.kind \notin {"blank", "request"} /\ Refuse(c)
    <3>1. at'[c] = "closed"
      BY <2>7, Moves
    <3> QED BY <2>2, <2>3, <2>7, <3>1
  <2> QED BY <1>2, <2>4, <2>5, <2>6, <2>7 DEF t
<1>5. /\ x.at = "line" /\ x.wire # << >> /\ Framed(x)
      /\ y.wire = Tail(x.wire) /\ Same(x, y)
  BY <1>1, ReadsView
<1>6. Framed(y)
  <2> HIDE DEF x, y
  <2> QED BY <1>4, <1>5, LineRead
<1>7. Alone(c)
  <2>1. /\ wire' = [wire EXCEPT ![c] = Tail(wire[c])]
        /\ UNCHANGED <<client, sent, handled, expired>>
    BY <1>1, ReadsView
  <2>2. at' = at \/ \E place : at' = [at EXCEPT ![c] = place]
    BY <1>2, Moves
  <2>3. cur' = cur \/ \E locals : cur' = [cur EXCEPT ![c] = locals]
    BY <1>2, Moves
  <2> QED BY <2>1, <2>2, <2>3, OthersKept
<1> QED BY <1>6, <1>7, FramesStep

LEMMA ReadHeaderFramed ==
    ASSUME Inv, Frames, NEW c \in Clients, ReadHeader(c)
    PROVE  Frames'
<1> DEFINE t == Head(wire[c])
           x == View(c)
           y == View(c)'
           more == cur[c].headers \cup {t.name}
           count == cur[c].n + 1
<1>1. Reads(c, "headers")
  BY DEF ReadHeader
<1>2. \/ t.kind = "overlong" /\ Close(c)
      \/ t.kind = "blank" /\ "badLength" \in cur[c].headers /\ Refuse(c)
      \/ t.kind = "blank" /\ "badLength" \notin cur[c].headers
         /\ Proceed(c, BodyPlace(cur[c].headers))
      \/ t.kind \notin {"blank", "overlong"} /\ cur[c].n >= MaxHeaders /\ Refuse(c)
      \/ /\ t.kind \notin {"blank", "overlong"} /\ ~(cur[c].n >= MaxHeaders)
         /\ cur' = [cur EXCEPT ![c].headers = more, ![c].n = count] /\ at' = at
  BY DEF ReadHeader
<1>3. /\ x.at = "headers" /\ x.wire # << >> /\ Framed(x)
      /\ y.wire = Tail(x.wire) /\ Same(x, y)
  BY <1>1, ReadsView
<1>4. Conn(c) /\ DOMAIN cur = Clients
  BY DEF Inv, Tables
<1>5. x.wire = wire[c] /\ x.cur = cur[c] /\ x.at = at[c] /\ y.at = at'[c] /\ y.cur = cur'[c]
  BY ViewFields
<1>6. Head(x.wire) = t
  BY <1>5
<1>7. \/ Head(x.wire).kind = "overlong" /\ y.at = "closed"
      \/ /\ Head(x.wire).kind = "blank" /\ "badLength" \in x.cur.headers
         /\ y.at = "closed"
      \/ /\ Head(x.wire).kind = "blank" /\ "badLength" \notin x.cur.headers
         /\ y.at = BodyPlace(x.cur.headers) /\ y.cur = x.cur
      \/ /\ Head(x.wire).kind \notin {"blank", "overlong"} /\ x.cur.n >= MaxHeaders
         /\ y.at = "closed"
      \/ /\ Head(x.wire).kind \notin {"blank", "overlong"} /\ ~(x.cur.n >= MaxHeaders)
         /\ y.at = "headers" /\ y.cur.line = x.cur.line /\ y.cur.n = x.cur.n + 1
         /\ y.cur.headers = x.cur.headers \cup {Head(x.wire).name}
  <2>1. CASE t.kind = "overlong" /\ Close(c)
    <3>1. at'[c] = "closed"
      BY <2>1, Moves
    <3> HIDE DEF t, x, y
    <3> QED BY <1>5, <1>6, <2>1, <3>1
  <2>2. CASE t.kind = "blank" /\ "badLength" \in cur[c].headers /\ Refuse(c)
    <3>1. at'[c] = "closed"
      BY <2>2, Moves
    <3> HIDE DEF t, x, y
    <3> QED BY <1>5, <1>6, <2>2, <3>1
  <2>3. CASE /\ t.kind = "blank" /\ "badLength" \notin cur[c].headers
             /\ Proceed(c, BodyPlace(cur[c].headers))
    <3>1. at'[c] = BodyPlace(cur[c].headers) /\ cur'[c] = cur[c]
      BY <2>3, Moves
    <3> HIDE DEF t, x, y
    <3> QED BY <1>5, <1>6, <2>3, <3>1
  <2>4. CASE t.kind \notin {"blank", "overlong"} /\ cur[c].n >= MaxHeaders /\ Refuse(c)
    <3>1. at'[c] = "closed"
      BY <2>4, Moves
    <3> HIDE DEF t, x, y
    <3> QED BY <1>5, <1>6, <2>4, <3>1
  <2>5. CASE /\ t.kind \notin {"blank", "overlong"} /\ ~(cur[c].n >= MaxHeaders)
             /\ cur' = [cur EXCEPT ![c].headers = more, ![c].n = count] /\ at' = at
    <3>1. PICK headers, n : cur[c] = [line |-> cur[c].line, headers |-> headers, n |-> n,
                                      resp |-> cur[c].resp]
      BY <1>4 DEF Conn, LocalsOK
    <3>2. cur'[c] = [cur[c] EXCEPT !.headers = more, !.n = count]
      BY <1>4, <2>5
    <3>3. [cur[c] EXCEPT !.headers = more, !.n = count]
            = [line |-> cur[c].line, headers |-> more, n |-> count, resp |-> cur[c].resp]
      <4> HIDE DEF more, count
      <4>1. [cur[c] EXCEPT !.headers = more]
              = [line |-> cur[c].line, headers |-> more, n |-> n, resp |-> cur[c].resp]
        BY <3>1
      <4>2. \A l : l = [line |-> cur[c].line, headers |-> more, n |-> n,
                        resp |-> cur[c].resp]
                 => [l EXCEPT !.n = count]
                      = [line |-> cur[c].line, headers |-> more, n |-> count,
                         resp |-> cur[c].resp]
        OBVIOUS
      <4>3. [[cur[c] EXCEPT !.headers = more] EXCEPT !.n = count]
              = [line |-> cur[c].line, headers |-> more, n |-> count, resp |-> cur[c].resp]
        BY <4>1, <4>2
      <4> QED BY <4>3
    <3>4. cur'[c].line = cur[c].line /\ cur'[c].headers = more /\ cur'[c].n = count
      <4> HIDE DEF more, count
      <4> QED BY <3>2, <3>3
    <3>5. y.at = "headers"
      BY <1>3, <1>5, <2>5
    <3>6. /\ y.cur.line = x.cur.line /\ y.cur.n = x.cur.n + 1
          /\ y.cur.headers = x.cur.headers \cup {Head(x.wire).name}
      <4> HIDE DEF t, x, y
      <4> QED BY <1>5, <1>6, <3>4
    <3> HIDE DEF t, x, y
    <3> QED BY <1>5, <1>6, <2>5, <3>5, <3>6
  <2> QED BY <1>2, <2>1, <2>2, <2>3, <2>4, <2>5
<1>8. Framed(y)
  <2> HIDE DEF x, y
  <2> QED BY <1>3, <1>7, HeaderRead
<1>9. Alone(c)
  <2>1. /\ wire' = [wire EXCEPT ![c] = Tail(wire[c])]
        /\ UNCHANGED <<client, sent, handled, expired>>
    BY <1>1, ReadsView
  <2>2. at' = at \/ \E place : at' = [at EXCEPT ![c] = place]
    BY <1>2, Moves
  <2>3. cur' = cur \/ \E locals : cur' = [cur EXCEPT ![c] = locals]
    <3> HIDE DEF more, count
    <3>1. cur' = cur \/ cur' = [cur EXCEPT ![c].headers = more, ![c].n = count]
      BY <1>2, Moves
    <3>2. [cur EXCEPT ![c].headers = more, ![c].n = count]
            = [cur EXCEPT ![c] = [cur[c] EXCEPT !.headers = more, !.n = count]]
      BY <1>4
    <3> QED BY <3>1, <3>2
  <2> QED BY <2>1, <2>2, <2>3, OthersKept
<1> QED BY <1>8, <1>9, FramesStep

LEMMA ReadBodyFramed ==
    ASSUME Inv, Frames, NEW c \in Clients,
           ReadBody(c) \/ ReadSize(c) \/ ReadChunk(c) \/ ReadCrlf(c) \/ ReadTrailer(c)
    PROVE  Frames'
<1> DEFINE t == Head(wire[c])
           x == View(c)
           y == View(c)'
<1>1. PICK place \in {"body", "size", "chunk", "crlf", "trailers"} :
         /\ Reads(c, place)
         /\ \/ place = "body" /\ Proceed(c, "route")
            \/ place = "size" /\ t.kind # "size" /\ Close(c)
            \/ /\ place = "size" /\ t.kind = "size"
               /\ Proceed(c, IF t.size = 0 THEN "trailers" ELSE "chunk")
            \/ place = "chunk" /\ Proceed(c, "crlf")
            \/ place = "crlf" /\ Proceed(c, "size")
            \/ /\ place = "trailers"
               /\ Proceed(c, IF t.kind \in {"blank", "overlong"} THEN "route" ELSE "trailers")
  BY DEF ReadBody, ReadSize, ReadChunk, ReadCrlf, ReadTrailer
<1>2. /\ x.at = place /\ x.wire # << >> /\ Framed(x)
      /\ y.wire = Tail(x.wire) /\ Same(x, y)
  BY <1>1, ReadsView
<1>3. x.wire = wire[c] /\ x.cur = cur[c] /\ y.at = at'[c] /\ y.cur = cur'[c]
  BY ViewFields
<1>4. Head(x.wire) = t
  BY <1>3
<1>5. \/ place = "body" /\ at'[c] = "route" /\ cur'[c] = cur[c]
      \/ place = "size" /\ t.kind # "size" /\ at'[c] = "closed"
      \/ /\ place = "size" /\ t.kind = "size" /\ cur'[c] = cur[c]
         /\ at'[c] = IF t.size = 0 THEN "trailers" ELSE "chunk"
      \/ place = "chunk" /\ at'[c] = "crlf" /\ cur'[c] = cur[c]
      \/ place = "crlf" /\ at'[c] = "size" /\ cur'[c] = cur[c]
      \/ /\ place = "trailers" /\ cur'[c] = cur[c]
         /\ at'[c] = IF t.kind \in {"blank", "overlong"} THEN "route" ELSE "trailers"
  <2> HIDE DEF t
  <2> QED BY <1>1, Moves
<1>6. \/ x.at = "body" /\ y.at = "route" /\ y.cur = x.cur
      \/ x.at = "size" /\ Head(x.wire).kind # "size" /\ y.at = "closed"
      \/ /\ x.at = "size" /\ Head(x.wire).kind = "size" /\ y.cur = x.cur
         /\ y.at = IF Head(x.wire).size = 0 THEN "trailers" ELSE "chunk"
      \/ x.at = "chunk" /\ y.at = "crlf" /\ y.cur = x.cur
      \/ x.at = "crlf" /\ y.at = "size" /\ y.cur = x.cur
      \/ /\ x.at = "trailers" /\ y.cur = x.cur
         /\ y.at = IF Head(x.wire).kind \in {"blank", "overlong"} THEN "route"
                   ELSE "trailers"
  <2> HIDE DEF t, x, y
  <2> QED BY <1>2, <1>3, <1>4, <1>5
<1>7. Framed(y)
  <2> HIDE DEF x, y
  <2> QED BY <1>2, <1>6, BodyPartRead
<1>8. Alone(c)
  <2>1. /\ wire' = [wire EXCEPT ![c] = Tail(wire[c])]
        /\ UNCHANGED <<client, sent, handled, expired>>
    BY <1>1, ReadsView
  <2>2. cur' = cur /\ \E to : at' = [at EXCEPT ![c] = to]
    <3>1. Close(c) \/ \E to : Proceed(c, to)
      BY <1>1
    <3> QED BY <3>1 DEF Close, Proceed, Goto
  <2> QED BY <2>1, <2>2, OthersKept
<1> QED BY <1>7, <1>8, FramesStep

LEMMA EndOfInputFramed ==
    ASSUME Inv, Frames, NEW c \in Clients, EndOfInput(c)
    PROVE  Frames'
<1> DEFINE x == View(c)
           y == View(c)'
<1>1. /\ client[c] = "gone" /\ wire[c] = << >> /\ at[c] \in Reading
      /\ UNCHANGED <<wire, client, sent, handled, expired>>
      /\ \/ at[c] = "trailers" /\ Proceed(c, "route")
         \/ at[c] = "body" /\ Close(c)
         \/ at[c] = "crlf" /\ Proceed(c, "size")
         \/ at[c] \notin {"trailers", "crlf"} /\ Close(c)
  BY DEF EndOfInput
<1>2. /\ x.wire = wire[c] /\ x.cur = cur[c] /\ x.at = at[c] /\ x.client = client[c]
      /\ y.wire = wire'[c] /\ y.at = at'[c] /\ y.cur = cur'[c]
  BY ViewFields
<1>3. Same(x, y) /\ Framed(x)
  <2>1. Framed(x)
    BY DEF Frames
  <2>2. client'[c] = client[c] /\ sent'[c] = sent[c] /\ handled'[c] = handled[c]
    BY <1>1
  <2> QED BY <2>1, <2>2, ViewFields DEF Same
<1>4. \/ at[c] = "trailers" /\ at'[c] = "route" /\ cur'[c] = cur[c]
      \/ at[c] = "crlf" /\ at'[c] = "size" /\ cur'[c] = cur[c]
      \/ at[c] \notin {"trailers", "crlf"} /\ at'[c] = "closed"
  BY <1>1, Moves
<1>5. Framed(y)
  <2> HIDE DEF x, y
  <2>1. /\ x.client = "gone" /\ x.wire = << >> /\ y.wire = x.wire /\ x.at \in Reading
        /\ \/ x.at = "trailers" /\ y.at = "route" /\ y.cur = x.cur
           \/ x.at = "crlf" /\ y.at = "size" /\ y.cur = x.cur
           \/ x.at \notin {"trailers", "crlf"} /\ y.at = "closed"
    BY <1>1, <1>2, <1>4
  <2> QED BY <1>3, <2>1, InputEnds
<1>6. Alone(c)
  <2>1. cur' = cur /\ \E to : at' = [at EXCEPT ![c] = to]
    <3>1. Close(c) \/ \E to : Proceed(c, to)
      BY <1>1
    <3> QED BY <3>1 DEF Close, Proceed, Goto
  <2> QED BY <1>1, <2>1, OthersKept
<1> QED BY <1>5, <1>6, FramesStep

LEMMA TimeOutFramed ==
    ASSUME Inv, Frames, NEW c \in Clients, TimeOut(c)
    PROVE  Frames'
<1> DEFINE x == View(c)
           y == View(c)'
<1>1. /\ client[c] # "gone" /\ wire[c] = << >> /\ at[c] \in Reading /\ Close(c)
      /\ expired' = [expired EXCEPT ![c] = TRUE] /\ UNCHANGED <<wire, client, sent, handled>>
  BY DEF TimeOut
<1>2. x.wire = wire[c] /\ x.at = at[c] /\ x.client = client[c] /\ y.at = at'[c]
        /\ y.expired = expired'[c]
  BY ViewFields
<1>3. Same(x, y) /\ Framed(x)
  <2>1. Framed(x)
    BY DEF Frames
  <2>2. client'[c] = client[c] /\ sent'[c] = sent[c] /\ handled'[c] = handled[c]
    BY <1>1
  <2> QED BY <2>1, <2>2, ViewFields DEF Same
<1>4. at'[c] = "closed" /\ cur' = cur /\ at' = [at EXCEPT ![c] = "closed"]
  BY <1>1, Moves
<1>5. expired'[c] = TRUE
  BY <1>1 DEF Frames
<1>6. Framed(y)
  <2> HIDE DEF x, y
  <2>1. x.client # "gone" /\ x.wire = << >> /\ x.at \in Reading /\ y.at = "closed" /\ y.expired
    BY <1>1, <1>2, <1>4, <1>5
  <2> QED BY <1>3, <2>1, TimedOut
<1>7. Alone(c)
  BY <1>1, <1>4, OthersKept
<1> QED BY <1>6, <1>7, FramesStep

LEMMA BreakFramed ==
    ASSUME Inv, Frames, NEW c \in Clients, Break(c)
    PROVE  Frames'
<1> DEFINE x == View(c)
           y == View(c)'
<1>1. /\ client[c] = "gone" /\ Close(c)
      /\ UNCHANGED <<wire, client, sent, handled, expired>>
  BY DEF Break
<1>2. x.client = client[c] /\ y.at = at'[c]
  BY ViewFields
<1>3. Same(x, y) /\ Framed(x)
  <2>1. Framed(x)
    BY DEF Frames
  <2>2. client'[c] = client[c] /\ sent'[c] = sent[c] /\ handled'[c] = handled[c]
    BY <1>1
  <2> QED BY <2>1, <2>2, ViewFields DEF Same
<1>4. at'[c] = "closed" /\ cur' = cur /\ at' = [at EXCEPT ![c] = "closed"]
  BY <1>1, Moves
<1>5. Framed(y)
  <2> HIDE DEF x, y
  <2> QED BY <1>1, <1>2, <1>3, <1>4, BrokenOff
<1>6. Alone(c)
  BY <1>1, <1>4, OthersKept
<1> QED BY <1>5, <1>6, FramesStep

LEMMA RouteFramed ==
    ASSUME Inv, Frames, NEW c \in Clients, Route(c)
    PROVE  Frames'
<1> DEFINE x == View(c)
           y == View(c)'
           r == cur[c].line.req
           a == route(st, r)[1]
           done == [req |-> r, resp |-> a]
<1>1. Tables /\ Conn(c) /\ StoreOK
  BY DEF Inv
<1>2. /\ At(c, "route") /\ cur' = [cur EXCEPT ![c] = [cur[c] EXCEPT !.resp = a]]
      /\ handled' = [handled EXCEPT ![c] = Append(handled[c], done)]
      /\ at' = [at EXCEPT ![c] = "reply"] /\ UNCHANGED <<wire, client, sent, expired>>
  BY <1>1 DEF Route, Goto, Tables
<1>3. done \in Exchanged /\ done.req = r
  <2>1. r \in Request
    BY <1>1, <1>2 DEF Conn, LocalsOK, At, RequestToken
  <2>2. a \in Response
    BY <1>1, <2>1, RouteIsStep
  <2> QED BY <2>1, <2>2 DEF Exchanged
<1>4. cur'[c].line = cur[c].line /\ cur'[c].headers = cur[c].headers
  <2>1. PICK headers, n : cur[c] = [line |-> cur[c].line, headers |-> headers, n |-> n,
                                    resp |-> cur[c].resp]
    BY <1>1 DEF Conn, LocalsOK
  <2>2. cur'[c] = [cur[c] EXCEPT !.resp = a]
    BY <1>1, <1>2 DEF Tables
  <2> HIDE DEF a
  <2>3. cur'[c] = [line |-> cur[c].line, headers |-> headers, n |-> n, resp |-> a]
    BY <2>1, <2>2
  <2>4. cur'[c].line = cur[c].line /\ cur'[c].headers = headers
    BY <2>3
  <2>5. cur[c].headers = headers
    BY <2>1
  <2> QED BY <2>4, <2>5
<1> HIDE DEF a, done
<1>5. /\ at'[c] = "reply" /\ handled'[c] = Append(handled[c], done) /\ wire'[c] = wire[c]
      /\ client'[c] = client[c] /\ sent'[c] = sent[c] /\ at[c] = "route"
      /\ handled[c] \in Seq(Exchanged)
  BY <1>1, <1>2 DEF Tables, At, Conn
<1>6. /\ x.wire = wire[c] /\ x.client = client[c] /\ x.at = at[c] /\ x.cur = cur[c]
      /\ x.sent = sent[c] /\ x.handled = handled[c]
      /\ y.wire = wire'[c] /\ y.client = client'[c] /\ y.at = at'[c] /\ y.cur = cur'[c]
      /\ y.sent = sent'[c] /\ y.handled = handled'[c]
  BY ViewFields
<1>7. Framed(x)
  BY DEF Frames
<1>8. Framed(y)
  <2> HIDE DEF x, y
  <2>1. /\ x.at = "route" /\ y.at = "reply" /\ x.handled \in Seq(Exchanged)
        /\ y.client = x.client /\ y.sent = x.sent /\ y.wire = x.wire
        /\ y.handled = Append(x.handled, done) /\ done.req = x.cur.line.req
        /\ y.cur.line = x.cur.line /\ y.cur.headers = x.cur.headers
    BY <1>3, <1>4, <1>5, <1>6
  <2> QED BY <1>3, <1>7, <2>1, RequestRouted
<1>9. Alone(c)
  BY <1>2, OthersKept
<1> QED BY <1>8, <1>9, FramesStep

LEMMA WriteResponseFramed ==
    ASSUME Inv, Frames, NEW c \in Clients, writeResponse(c)
    PROVE  Frames'
<1> DEFINE x == View(c)
           y == View(c)'
<1>1. /\ at[c] = "reply" /\ cur' = [cur EXCEPT ![c] = Fresh]
      /\ Goto(c, IF keepAlive(c) THEN "line" ELSE "closed")
      /\ UNCHANGED <<wire, client, sent, handled, expired>>
  BY DEF writeResponse, At
<1>2. x.wire = wire[c] /\ y.wire = wire'[c] /\ x.cur = cur[c] /\ x.at = at[c] /\ y.at = at'[c]
  BY ViewFields
<1>3. Same(x, y) /\ Framed(x)
  <2>1. Framed(x)
    BY DEF Frames
  <2>2. client'[c] = client[c] /\ sent'[c] = sent[c] /\ handled'[c] = handled[c]
    BY <1>1
  <2> QED BY <2>1, <2>2, ViewFields DEF Same
<1>4. at'[c] = IF keepAlive(c) THEN "line" ELSE "closed"
  BY <1>1, Moves
<1>5. Framed(y)
  <2>1. keepAlive(c) <=> x.cur.line.v11 /\ "close" \notin x.cur.headers
    BY <1>2 DEF keepAlive
  <2> HIDE DEF x, y
  <2>2. /\ x.at = "reply" /\ y.wire = x.wire
        /\ y.at = IF x.cur.line.v11 /\ "close" \notin x.cur.headers THEN "line" ELSE "closed"
    BY <1>1, <1>2, <1>4, <2>1
  <2> QED BY <1>3, <2>2, AnswerWritten
<1>6. Alone(c)
  <2>1. \E to : at' = [at EXCEPT ![c] = to]
    BY <1>1 DEF Goto
  <2> QED BY <1>1, <2>1, OthersKept
<1> QED BY <1>5, <1>6, FramesStep

LEMMA ClientStepFramed ==
    ASSUME Inv, Frames, NEW c \in Clients, ClientStep(c)
    PROVE  Frames'
<1> DEFINE x == View(c)
           y == View(c)'
<1>1. PICK m \in Traffic[c] : Send(c, m) \/ Stall(c, m) \/ HangUp(c, m)
  BY DEF ClientStep
<1>2. m \in Message
  BY ServerAssumption
<1>3. /\ x.client = client[c] /\ x.at = at[c] /\ x.wire = wire[c] /\ x.handled = handled[c]
      /\ x.cur = cur[c] /\ x.sent = sent[c]
      /\ y.client = client'[c] /\ y.at = at'[c] /\ y.wire = wire'[c] /\ y.handled = handled'[c]
      /\ y.cur = cur'[c] /\ y.sent = sent'[c]
  BY ViewFields
<1>4. /\ DOMAIN wire = Clients /\ DOMAIN client = Clients /\ DOMAIN sent = Clients
      /\ Framed(x)
  BY DEF Inv, Tables, Frames
<1>5. client[c] = "sending" /\ at[c] # "closed"
  BY <1>1 DEF Send, Stall, HangUp, MaySend, At
<1>6. ASSUME NEW tokens \in Seq(Token), NEW atEnd \in BOOLEAN, Puts(c, m, tokens, atEnd)
      PROVE  /\ wire'[c] = wire[c] \o tokens /\ at'[c] = at[c] /\ cur'[c] = cur[c]
             /\ handled'[c] = handled[c]
             /\ Whole(m, tokens, atEnd) => sent'[c] = Append(sent[c], m)
             /\ ~Whole(m, tokens, atEnd) => sent'[c] = sent[c]
  <2>1. IsWhole(m, tokens, atEnd) <=> Whole(m, tokens, atEnd)
    BY <1>2, WholeIsWhole
  <2>2. /\ wire' = [wire EXCEPT ![c] = wire[c] \o tokens] /\ UNCHANGED <<at, cur, handled>>
        /\ IsWhole(m, tokens, atEnd) => sent' = [sent EXCEPT ![c] = Append(sent[c], m)]
        /\ ~IsWhole(m, tokens, atEnd) => sent' = sent
    BY <1>6 DEF Puts
  <2> QED BY <1>4, <2>1, <2>2
<1>7. \E tokens \in Seq(Token) : Sends(x, y, m, tokens)
  <2>1. CASE Send(c, m)
    <3>1. Puts(c, m, Tokens(m), FALSE) /\ Tokens(m) \in Seq(Token)
      BY <1>2, <2>1, TokensType DEF Send
    <3>2. Piece(m, Tokens(m), FALSE) /\ Whole(m, Tokens(m), FALSE)
      BY <1>2, SentPieces
    <3>3. /\ wire'[c] = wire[c] \o Tokens(m) /\ at'[c] = at[c] /\ cur'[c] = cur[c]
          /\ handled'[c] = handled[c] /\ sent'[c] = Append(sent[c], m)
      BY <1>6, <3>1, <3>2
    <3>4. PieceOf(y, m, Tokens(m), << >>) /\ WholeOf(y, m, Tokens(m), << >>)
      BY <3>2 DEF PieceOf, WholeOf
    <3> HIDE DEF x, y
    <3>5. Sends(x, y, m, Tokens(m))
      BY <1>3, <1>5, <3>3, <3>4 DEF Sends
    <3> QED BY <3>1, <3>5
  <2>2. CASE Stall(c, m)
    <3>1. PICK tokens \in Beginnings(m) : Puts(c, m, tokens, FALSE)
      BY <2>2 DEF Stall
    <3>2. tokens \in Seq(Token) /\ Piece(m, tokens, FALSE)
      BY <1>2, PieceType, SentPieces
    <3>3. client'[c] = "stalled"
      BY <1>4, <2>2 DEF Stall
    <3>4. /\ wire'[c] = wire[c] \o tokens /\ at'[c] = at[c] /\ cur'[c] = cur[c]
          /\ handled'[c] = handled[c]
          /\ Whole(m, tokens, FALSE) => sent'[c] = Append(sent[c], m)
          /\ ~Whole(m, tokens, FALSE) => sent'[c] = sent[c]
      BY <1>6, <3>1, <3>2
    <3> HIDE DEF x, y
    <3>5. y.client = "stalled"
      BY <1>3, <3>3
    <3>6. PieceOf(y, m, tokens, << >>)
      BY <3>2 DEF PieceOf
    <3>7. WholeOf(y, m, tokens, << >>) <=> Whole(m, tokens, FALSE)
      BY <3>5 DEF WholeOf, Ended
    <3>8. Sends(x, y, m, tokens)
      BY <1>3, <1>5, <3>4, <3>5, <3>6, <3>7 DEF Sends
    <3> QED BY <3>2, <3>8
  <2>3. CASE HangUp(c, m)
    <3>1. PICK tokens \in Beginnings(m) \cup Stumps(m) : Puts(c, m, tokens, TRUE)
      BY <2>3 DEF HangUp
    <3>2. tokens \in Seq(Token) /\ Piece(m, tokens, TRUE)
      BY <1>2, PieceType, SentPieces
    <3>3. client'[c] = "gone"
      BY <1>4, <2>3 DEF HangUp
    <3>4. /\ wire'[c] = wire[c] \o tokens /\ at'[c] = at[c] /\ cur'[c] = cur[c]
          /\ handled'[c] = handled[c]
          /\ Whole(m, tokens, TRUE) => sent'[c] = Append(sent[c], m)
          /\ ~Whole(m, tokens, TRUE) => sent'[c] = sent[c]
      BY <1>6, <3>1, <3>2
    <3> HIDE DEF x, y
    <3>5. y.client = "gone" /\ Ended(y, << >>)
      BY <1>3, <3>3 DEF Ended
    <3>6. PieceOf(y, m, tokens, << >>)
      BY <3>2, <3>5 DEF PieceOf
    <3>7. WholeOf(y, m, tokens, << >>) <=> Whole(m, tokens, TRUE)
      <4>1. Whole(m, tokens, FALSE) => Whole(m, tokens, TRUE)
        BY <1>2, <3>2, WholeAtEnd
      <4> QED BY <3>5, <4>1 DEF WholeOf
    <3>8. Sends(x, y, m, tokens)
      BY <1>3, <1>5, <3>4, <3>5, <3>6, <3>7 DEF Sends
    <3> QED BY <3>2, <3>8
  <2> QED BY <1>1, <2>1, <2>2, <2>3
<1>8. Framed(y)
  <2> HIDE DEF x, y
  <2> QED BY <1>2, <1>4, <1>7, SentMore
<1>9. Alone(c)
  BY ClientAlone
<1> QED BY <1>8, <1>9, FramesStep

LEMMA NextFramed == Inv /\ Frames /\ [Next]_vars => Frames'
<1> SUFFICES ASSUME Inv, Frames, [Next]_vars PROVE Frames'
  OBVIOUS
<1>1. CASE UNCHANGED vars
  <2>1. \A c \in Clients : View(c)' = View(c)
    BY <1>1 DEF vars, View
  <2> QED BY <1>1, <2>1 DEF vars, Frames
<1>2. CASE Next
  <2>1. PICK c \in Clients : ClientStep(c) \/ Exchange(c) \/ TimeOut(c) \/ Break(c)
    BY <1>2 DEF Next
  <2>2. CASE ClientStep(c)
    BY <2>2, ClientStepFramed
  <2>3. CASE Exchange(c)
    BY <2>3, ReadRequestLineFramed, ReadHeaderFramed, ReadBodyFramed, EndOfInputFramed,
       RouteFramed, WriteResponseFramed DEF Exchange
  <2>4. CASE TimeOut(c)
    BY <2>4, TimeOutFramed
  <2>5. CASE Break(c)
    BY <2>5, BreakFramed
  <2> QED BY <2>1, <2>2, <2>3, <2>4, <2>5
<1> QED BY <1>1, <1>2

LEMMA InitFramed == Init => Frames
<1> SUFFICES ASSUME Init PROVE Frames
  OBVIOUS
<1>1. DOMAIN sent = Clients /\ DOMAIN expired = Clients
  BY DEF Init
<1>2. ASSUME NEW c \in Clients PROVE Framed(View(c))
  <2> DEFINE x == View(c)
             stream == [i \in 0..0 |-> << >>]
  <2>1. /\ x.wire = << >> /\ x.client = "sending" /\ x.at = "line" /\ x.sent = << >>
        /\ x.handled = << >>
    BY ViewFields DEF Init
  <2> HIDE DEF x
  <2>2. Len(x.sent) = 0 /\ Routed(x) = 0 /\ x.sent \in Seq(Message)
    BY <2>1 DEF Routed
  <2>3. Served(x)
    BY <2>2 DEF Served
  <2>4. stream \in [0..0 -> Seq(Token)] /\ stream[0] = << >>
    OBVIOUS
  <2> HIDE DEF stream
  <2>5. Streams(x, stream)
    BY <2>2, <2>4 DEF Streams
  <2>6. KeptOpen(x)
    BY <2>2 DEF KeptOpen
  <2>7. Between(x, stream)
    <3>1. << >> \o << >> = << >> /\ << >> \in Strays /\ << >> # << Header("other") >>
      BY DEF Strays
    <3> QED BY <2>1, <2>2, <2>4, <3>1 DEF Between
  <2>8. Position(x, stream)
    BY <2>1, <2>6, <2>7 DEF Position
  <2> QED BY <2>1, <2>3, <2>5, <2>8 DEF Framed, x
<1> QED BY <1>1, <1>2 DEF Frames

LEMMA FramesHold == Spec => [](Inv /\ Frames)
<1>1. Inv /\ Frames /\ [Next]_vars => Inv' /\ Frames'
  BY NextKeeps, NextFramed
<1>2. Init => Inv /\ Frames
  BY InitInv, InitFramed
<1> QED BY <1>1, <1>2, PTL DEF Spec

LEMMA FramedRoutes == Inv /\ Frames => RoutesWhatWasSent
<1> SUFFICES ASSUME Inv, Frames, NEW c \in Clients
             PROVE  /\ IsPrefix(Requested(c), [i \in DOMAIN sent[c] |-> sent[c][i].req])
                    /\ \A i \in DOMAIN handled[c] :
                          /\ ~IllFormed(sent[c][i])
                          /\ i < Len(handled[c]) => ~Closing(sent[c][i])
  BY DEF RoutesWhatWasSent
<1> DEFINE k == Len(handled[c])
           n == Len(sent[c])
           asked == [i \in DOMAIN sent[c] |-> sent[c][i].req]
           done == Requested(c)
<1>1. /\ sent[c] \in Seq(Message) /\ k \in 0..n
      /\ \A i \in 1..k : /\ handled[c][i].req = sent[c][i].req
                         /\ ~IllFormed(sent[c][i])
                         /\ i < k => ~Closing(sent[c][i])
  <2>1. Served(View(c)) /\ View(c).sent = sent[c] /\ View(c).handled = handled[c]
    BY ViewFields DEF Frames, Framed
  <2> QED BY <2>1 DEF Served, Routed
<1>2. handled[c] \in Seq(Exchanged) /\ DOMAIN handled[c] = 1..k /\ DOMAIN sent[c] = 1..n
        /\ k \in Nat /\ n \in Nat
  BY <1>1 DEF Inv, Conn
<1>3. done = [i \in 1..k |-> handled[c][i].req] /\ asked = [i \in 1..n |-> sent[c][i].req]
  BY <1>2 DEF Requested
<1>4. done \in Seq(Request) /\ asked \in Seq(Request)
  <2>1. \A i \in 1..k : handled[c][i].req \in Request
    <3>1. \A i \in 1..k : handled[c][i] \in Exchanged
      BY <1>2
    <3>2. \A e \in Exchanged : e.req \in Request
      BY DEF Exchanged
    <3> QED BY <3>1, <3>2
  <2>2. \A i \in 1..n : sent[c][i].req \in Request
    <3>1. \A i \in 1..n : sent[c][i] \in Message
      BY <1>1, <1>2
    <3>2. \A m \in Message : m.req \in Request
      BY DEF Message
    <3> QED BY <3>1, <3>2
  <2> QED BY <1>2, <1>3, <2>1, <2>2
<1>5. Len(done) = k /\ Len(asked) = n
  BY <1>2, <1>3
<1>6. IsPrefix(done, asked)
  <2>1. SubSeq(done, 1, Len(done)) = [i \in 1..k |-> handled[c][i].req]
    <3> HIDE DEF done
    <3>1. SubSeq(done, 1, k) = [i \in 1..k |-> done[i]]
      BY <1>2, <1>4, <1>5
    <3> QED BY <1>3, <1>5, <3>1
  <2>2. SubSeq(asked, 1, Len(done)) = [i \in 1..k |-> sent[c][i].req]
    <3> HIDE DEF asked, done
    <3>1. SubSeq(asked, 1, k) = [i \in 1..k |-> asked[i]]
      BY <1>1, <1>2, <1>4, <1>5
    <3>2. \A i \in 1..k : asked[i] = sent[c][i].req
      BY <1>1, <1>2, <1>3
    <3> QED BY <1>5, <3>1, <3>2
  <2>3. [i \in 1..k |-> handled[c][i].req] = [i \in 1..k |-> sent[c][i].req]
    BY <1>1
  <2>4. Len(done) <= Len(asked) /\ SubSeq(done, 1, Len(done)) = SubSeq(asked, 1, Len(done))
    <3>1. k <= n
      BY <1>1, <1>2
    <3> HIDE DEF done, asked
    <3> QED BY <1>5, <2>1, <2>2, <2>3, <3>1
  <2> HIDE DEF done, asked
  <2> QED BY <2>4 DEF IsPrefix
<1> QED BY <1>1, <1>2, <1>6

LEMMA FramedReason == Inv /\ Frames => ClosedForAReason
<1> SUFFICES ASSUME Inv, Frames, NEW c \in Clients, At(c, "closed")
             PROVE  \/ client[c] = "gone"
                    \/ expired[c] /\ Len(handled[c]) = Len(sent[c])
                    \/ handled[c] # << >> /\ Closing(sent[c][Len(handled[c])])
                    \/ Len(sent[c]) > Len(handled[c]) /\ IllFormed(sent[c][Len(handled[c]) + 1])
  BY DEF ClosedForAReason
<1> DEFINE x == View(c)
<1>1. /\ x.client = client[c] /\ x.expired = expired[c] /\ x.sent = sent[c]
      /\ x.handled = handled[c] /\ x.at = "closed" /\ Routed(x) = Len(handled[c])
  BY ViewFields DEF At, Routed
<1>2. Reason(x)
  BY <1>1 DEF Frames, Framed
<1>3. Len(handled[c]) > 0 => handled[c] # << >>
  OBVIOUS
<1> HIDE DEF x
<1> QED BY <1>1, <1>2, <1>3 DEF Reason

-----------------------------------------------------------------------------
(* The theorems *)

(***************************************************************************)
(* However a client pipelines its requests, whatever else it sends and     *)
(* wherever it breaks off, the requests routed are the first ones it sent, *)
(* in its order, each once and none of a piece that was not a whole        *)
(* message: the end of a body is never taken for the beginning of a        *)
(* request (Http.exchange, Http.Request), for any number of connections.   *)
(***************************************************************************)
THEOREM JvmRoutesWhatWasSent == Spec => []RoutesWhatWasSent
BY FramesHold, FramedRoutes, PTL

(***************************************************************************)
(* A connection is closed only where its client is gone, where it was idle *)
(* too long with nothing left to answer, behind a request that asked for   *)
(* it, or over a message that cannot be framed (Http.exchange and its      *)
(* callers): never over well-formed requests, however they come in pieces. *)
(***************************************************************************)
THEOREM JvmClosesForAReason == Spec => []ClosedForAReason
BY FramesHold, FramedReason, PTL
=============================================================================
