----------------------------- MODULE JvmServer -----------------------------
(***************************************************************************)
(* The connections of the Java and Kotlin corners (httpshim/Http): one     *)
(* thread per connection reads HTTP by hand from a raw socket, hands each  *)
(* request it could frame to Server.route, and writes the answer.  A       *)
(* client may pipeline, stop in the middle of a message, or break off.     *)
(*                                                                         *)
(* A message is cut into the units the code reads: one token per readLine  *)
(* and one for a body or chunk readExactly fetches.  A request that does   *)
(* not arrive whole is never decoded, so a token carries no text, except   *)
(* that the request line stands for the request its message holds.         *)
(***************************************************************************)
EXTENDS JvmService

CONSTANTS
    Clients,    \* connections
    Traffic,    \* per connection: the messages its client may send
    MaxHeaders, \* MAX_HEADERS (100 in the code)
    MaxSent     \* bound on the messages begun, over all connections

Framing == {"none", "sized", "trailed", "chunked",
            "junk", "overlong", "badLength", "tooMany", "badSize"}
Message == [req : Request, framing : Framing, v11 : BOOLEAN, close : BOOLEAN]

ASSUME ServerAssumption ==
    /\ Traffic \in [Clients -> SUBSET Message]
    /\ MaxHeaders \in Nat \ {0, 1}  \* room for the two headers the reader looks at
    /\ MaxSent \in Nat

VARIABLES
    st,      \* Service.store and Service.clock
    wire,    \* per connection: tokens sent and not yet read
    client,  \* per connection: "sending", "stalled" for good, or "gone"
    at,      \* per connection: where exchange() is
    cur,     \* per connection: the locals of exchange()
    sent,    \* history: messages of which header and body were sent whole
    handled, \* history: the requests that were routed
    answers, \* history: the responses that were written
    expired  \* history: the socket timed out

vars == <<st, wire, client, at, cur, sent, handled, answers, expired>>

-----------------------------------------------------------------------------
(* Messages as the reader meets them *)

Blank == [kind |-> "blank"]
Junk == [kind |-> "junk"]          \* no target between two spaces; no size
Overlong == [kind |-> "overlong"]  \* past MAX_LINE: readLine gives up
Body == [kind |-> "body"]
Size(n) == [kind |-> "size", size |-> n]
Header(name) == [kind |-> "header", name |-> name]
RequestLine(m) == [kind |-> "request", req |-> m.req, v11 |-> m.v11]

HeaderLines(m) ==
    (IF m.close THEN << Header("close") >> ELSE << >>) \o
    CASE m.framing \in {"sized", "trailed"} -> << Header("length") >>
      [] m.framing = "badLength" -> << Header("badLength") >>
      [] m.framing \in {"chunked", "badSize"} -> << Header("chunked") >>
      [] m.framing = "overlong" -> << Overlong >>
      [] m.framing = "tooMany" -> [i \in 1..(MaxHeaders + (IF m.close THEN 0 ELSE 1)) |->
                                    Header("other")]
      [] OTHER -> << >>

BodyTokens(m) ==
    CASE m.framing = "sized" -> << Body >>
      [] m.framing = "trailed" -> << Body, Blank >>
      [] m.framing = "chunked" -> << Size(1), Body, Blank, Size(0), Blank >>
      [] m.framing = "badSize" -> << Junk >>
      [] OTHER -> << >>

Tokens(m) ==
    IF m.framing = "junk" THEN << Junk >>
    ELSE << RequestLine(m) >> \o HeaderLines(m) \o << Blank >> \o BodyTokens(m)

\* How many tokens the reader needs to route the message, or to refuse it:
\* not a stray newline, nor what follows a refusal, and at the end of the
\* input the trailers need no empty line.
WholeAt(m, atEnd) ==
    LET spare == {"trailed", "overlong", "tooMany"} \cup (IF atEnd THEN {"chunked"} ELSE {})
    IN  Len(Tokens(m)) - (IF m.framing \in spare THEN 1 ELSE 0)

\* What readLine makes of a line whose newline never came.  Chunk sizes are
\* taken to be written without leading zeros: cut short, none reads as zero.
CutShort(t) ==
    CASE t.kind = "request" -> {t, Junk}
      [] t.kind = "header" -> {t, Header("other")}
      [] t.kind = "blank" -> {Header("other")}
      [] OTHER -> {t}

Beginnings(m) == {SubSeq(Tokens(m), 1, k) : k \in 0..(Len(Tokens(m)) - 1)}

\* The same, when the input also ends in the middle of a line.
Stumps(m) == UNION {{Append(SubSeq(Tokens(m), 1, k - 1), t) : t \in CutShort(Tokens(m)[k])} :
                    k \in 1..Len(Tokens(m))}

IsWhole(m, tokens, atEnd) == IsPrefix(SubSeq(Tokens(m), 1, WholeAt(m, atEnd)), tokens)

Closing(m) == m.close \/ ~m.v11
IllFormed(m) == m.framing \in {"junk", "overlong", "badLength", "tooMany", "badSize"}

-----------------------------------------------------------------------------
(* State *)

NoLine == [kind |-> "request", req |-> [op |-> "none"], v11 |-> FALSE]
NoAnswer == [status |-> 0]
Fresh == [line |-> NoLine, headers |-> {}, n |-> 0, resp |-> NoAnswer]

Init ==
    /\ st = EmptyStore
    /\ wire = [c \in Clients |-> << >>]
    /\ client = [c \in Clients |-> "sending"]
    /\ at = [c \in Clients |-> "line"]
    /\ cur = [c \in Clients |-> Fresh]
    /\ sent = [c \in Clients |-> << >>]
    /\ handled = [c \in Clients |-> << >>]
    /\ answers = [c \in Clients |-> << >>]
    /\ expired = [c \in Clients |-> FALSE]

At(c, place) == at[c] = place

\* The places where exchange() waits for the socket.
Reading == {"line", "headers", "body", "size", "chunk", "crlf", "trailers"}

-----------------------------------------------------------------------------
(* The client.  Nothing it sends to a closed connection is ever read.        *)

\* The bound of the model: messages sent whole, and clients that stopped.
Begun(c) == Len(sent[c]) + (IF client[c] = "sending" THEN 0 ELSE 1)

MaySend(c) ==
    /\ client[c] = "sending"
    /\ ~At(c, "closed")
    /\ MapThenSumSet(Begun, Clients) < MaxSent

Puts(c, m, tokens, atEnd) ==
    /\ wire' = [wire EXCEPT ![c] = @ \o tokens]
    /\ sent' = IF IsWhole(m, tokens, atEnd) THEN [sent EXCEPT ![c] = Append(@, m)] ELSE sent
    /\ UNCHANGED <<st, at, cur, handled, answers, expired>>

\* A client need not wait for an answer before it sends the next request.
Send(c, m) ==
    /\ MaySend(c)
    /\ Puts(c, m, Tokens(m), FALSE)
    /\ UNCHANGED client

\* It may stop in the middle of a message and keep the connection open...
Stall(c, m) ==
    /\ MaySend(c)
    /\ \E tokens \in Beginnings(m) : Puts(c, m, tokens, FALSE)
    /\ client' = [client EXCEPT ![c] = "stalled"]

\* ...or close its side of it, even in the middle of a line.
HangUp(c, m) ==
    /\ MaySend(c)
    /\ \E tokens \in Beginnings(m) \cup Stumps(m) : Puts(c, m, tokens, TRUE)
    /\ client' = [client EXCEPT ![c] = "gone"]

-----------------------------------------------------------------------------
(* The steps of exchange() *)

Goto(c, place) == at' = [at EXCEPT ![c] = place]

\* return false: the connection is closed without a word.
Close(c) ==
    /\ Goto(c, "closed")
    /\ UNCHANGED <<cur, answers>>

\* Fault: the 400 is written, and the connection kept.
RefuseAndStay(c) ==
    /\ answers' = [answers EXCEPT ![c] = Append(@, ErrorBody(400, "malformed_request"))]
    /\ Goto(c, "line")
    /\ UNCHANGED cur

\* writeResponse(out, badRequest(), false); return false
Refuse(c) ==
    /\ answers' = [answers EXCEPT ![c] = Append(@, ErrorBody(400, "malformed_request"))]
    /\ Goto(c, "closed")
    /\ UNCHANGED cur

Proceed(c, place) ==
    /\ Goto(c, place)
    /\ UNCHANGED <<cur, answers>>

\* One readLine or readExactly that finds what it asks for.
Reads(c, place) ==
    /\ At(c, place)
    /\ wire[c] # << >>
    /\ wire' = [wire EXCEPT ![c] = Tail(@)]
    /\ UNCHANGED <<st, client, sent, handled, expired>>

ReadRequestLine(c) ==
    /\ Reads(c, "line")
    /\ LET t == Head(wire[c]) IN
       CASE t.kind = "blank" -> Proceed(c, "line")
         [] t.kind = "overlong" -> Close(c)
         [] t.kind = "request" -> /\ cur' = [cur EXCEPT ![c] = [Fresh EXCEPT !.line = t]]
                                  /\ Goto(c, "headers")
                                  /\ UNCHANGED answers
         [] OTHER -> Refuse(c)

\* Where the body begins, by the headers that frame it.
BodyPlace(headers) ==
    IF "chunked" \in headers THEN "size"
    ELSE IF "length" \in headers THEN "body"
    ELSE "route"

ReadHeader(c) ==
    /\ Reads(c, "headers")
    /\ LET t == Head(wire[c]) IN
       CASE t.kind = "overlong" -> Close(c)
         [] t.kind = "blank" -> IF "badLength" \in cur[c].headers THEN Refuse(c)
                                ELSE Proceed(c, BodyPlace(cur[c].headers))
         [] OTHER -> IF cur[c].n >= MaxHeaders THEN Refuse(c)
                     ELSE /\ cur' = [cur EXCEPT ![c].headers = @ \cup {t.name}, ![c].n = @ + 1]
                          /\ UNCHANGED <<at, answers>>

ReadBody(c) == Reads(c, "body") /\ Proceed(c, "route")

ReadSize(c) ==
    /\ Reads(c, "size")
    /\ LET t == Head(wire[c]) IN
       CASE t.kind # "size" -> Close(c)
         [] t.kind = "size" -> Proceed(c, IF t.size = 0 THEN "trailers" ELSE "chunk")

\* Fault: the newline after the chunk is left for the next readLine.
ReadChunkOnly(c) == Reads(c, "chunk") /\ Proceed(c, "size")

ReadChunk(c) == Reads(c, "chunk") /\ Proceed(c, "crlf")

\* The newline after a chunk: whatever line is there, it is dropped.
ReadCrlf(c) == Reads(c, "crlf") /\ Proceed(c, "size")

ReadTrailer(c) ==
    /\ Reads(c, "trailers")
    /\ Proceed(c, IF Head(wire[c]).kind \in {"blank", "overlong"} THEN "route" ELSE "trailers")

\* Fault: a body that ends early is taken for the whole body.
EndOfInputRoutes(c) ==
    /\ client[c] = "gone"
    /\ wire[c] = << >>
    /\ at[c] \in Reading
    /\ CASE at[c] \in {"trailers", "body"} -> Proceed(c, "route")
         [] at[c] = "crlf" -> Proceed(c, "size")
         [] OTHER -> Close(c)
    /\ UNCHANGED <<st, wire, client, sent, handled, expired>>

\* Fault: the loop over the trailers ends at an empty line only.
EndOfInputSpins(c) ==
    /\ client[c] = "gone"
    /\ wire[c] = << >>
    /\ at[c] \in Reading
    /\ CASE at[c] = "trailers" -> Proceed(c, "trailers")
         [] at[c] = "crlf" -> Proceed(c, "size")
         [] OTHER -> Close(c)
    /\ UNCHANGED <<st, wire, client, sent, handled, expired>>

\* readLine and readExactly return null at the end of the input.
EndOfInput(c) ==
    /\ client[c] = "gone"
    /\ wire[c] = << >>
    /\ at[c] \in Reading
    /\ CASE at[c] = "trailers" -> Proceed(c, "route")
         [] at[c] = "crlf" -> Proceed(c, "size")
         [] OTHER -> Close(c)
    /\ UNCHANGED <<st, wire, client, sent, handled, expired>>

\* Fault: the timeout covers the wait between two requests only.
TimeOutBetweenRequests(c) ==
    /\ client[c] # "gone"
    /\ wire[c] = << >>
    /\ At(c, "line")
    /\ expired' = [expired EXCEPT ![c] = TRUE]
    /\ Close(c)
    /\ UNCHANGED <<st, wire, client, sent, handled>>

\* An IOException ends the connection: the socket timed out while exchange()
\* waited for input, or the client is gone and a read or a write fails.
TimeOut(c) ==
    /\ client[c] # "gone"
    /\ wire[c] = << >>
    /\ at[c] \in Reading
    /\ expired' = [expired EXCEPT ![c] = TRUE]
    /\ Close(c)
    /\ UNCHANGED <<st, wire, client, sent, handled>>

Break(c) ==
    /\ client[c] = "gone"
    /\ at[c] \in Reading \cup {"reply"}
    /\ Close(c)
    /\ UNCHANGED <<st, wire, client, sent, handled, expired>>

\* handler.apply: the service's methods are synchronized.
Route(c) ==
    /\ At(c, "route")
    /\ LET answered == route(st, cur[c].line.req) IN
       /\ st' = answered[2]
       /\ cur' = [cur EXCEPT ![c].resp = answered[1]]
       /\ handled' = [handled EXCEPT ![c] = Append(@, [req |-> cur[c].line.req, resp |-> answered[1]])]
    /\ Goto(c, "reply")
    /\ UNCHANGED <<wire, client, sent, answers, expired>>

keepAlive(c) == cur[c].line.v11 /\ "close" \notin cur[c].headers

writeResponse(c) ==
    /\ At(c, "reply")
    /\ answers' = [answers EXCEPT ![c] = Append(@, cur[c].resp)]
    /\ cur' = [cur EXCEPT ![c] = Fresh]
    /\ Goto(c, IF keepAlive(c) THEN "line" ELSE "closed")
    /\ UNCHANGED <<st, wire, client, sent, handled, expired>>

-----------------------------------------------------------------------------
(* Specification *)

ClientStep(c) == \E m \in Traffic[c] : Send(c, m) \/ Stall(c, m) \/ HangUp(c, m)

Exchange(c) ==
    \/ ReadRequestLine(c) \/ ReadHeader(c) \/ ReadBody(c)
    \/ ReadSize(c) \/ ReadChunk(c) \/ ReadCrlf(c) \/ ReadTrailer(c)
    \/ EndOfInput(c) \/ Route(c) \/ writeResponse(c)

Next == \E c \in Clients : ClientStep(c) \/ Exchange(c) \/ TimeOut(c) \/ Break(c)

\* Each connection has a thread of its own, and setSoTimeout ends the wait for
\* a client that says no more.  No client need send anything.
Fairness == \A c \in Clients : WF_vars(Exchange(c)) /\ WF_vars(TimeOut(c))

Spec == Init /\ [][Next]_vars /\ Fairness
=============================================================================
