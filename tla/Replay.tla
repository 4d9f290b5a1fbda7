------------------------------ MODULE Replay ------------------------------
(***************************************************************************)
(* Rung R0 (tools/cmd/replay): the generated corpus is driven through one   *)
(* server and every response compared with the one S_obs gave when the      *)
(* corpus was emitted (tools/cmd/corpusgen).  With a canary the responses   *)
(* are corrupted on arrival and the verdict is inverted; "-canary=all"      *)
(* runs one child process per canary and reads what each printed.           *)
(***************************************************************************)
EXTENDS Corners

CONSTANTS
    R0Corners,     \* the corners replayed
    R0Faulty,      \* those whose server may fail to start or die on the way
    Text           \* a text of the corpus: what it says is never compared

TrailingNewline == "trailing-newline"  \* conforming, but every body ends in "\n"

-----------------------------------------------------------------------------
(* The corpus *)

u(h) == [op |-> "create", handle |-> h]
e(a, b) == [op |-> "follow", from |-> a, to |-> b]
del(a, b) == [op |-> "unfollow", from |-> a, to |-> b]
tw(a) == [op |-> "post", author |-> a, text |-> Text]
tick == [op |-> "tick"]
page(h, limit, cursor) == [op |-> "timeline", user |-> h, limit |-> limit, cursor |-> cursor]
all(h) == page(h, Absent, Absent)
malformed == [op |-> "malformed"]
NoNumber == -1  \* "limit=abc": as any limit outside the range, an invalid one

Registration ==
    << u("alice"), u("bob"), u("carol"), u("alice"), u(BadHandle), u(BadHandle), malformed,
       Sloppy("field", u("dave")), Sloppy("field", u("dave")), malformed, u("dave") >>

Following ==
    << e("alice", "alice"), e("eve", "eve"), e("alice", "eve"), e(BadHandle, "eve"),
       e("alice", "bob"), e("alice", "bob"), tick, malformed >>

Posting ==
    << tw("bob"), all("alice"), all("carol"), e("carol", "bob"), all("carol"), tw("bob"),
       all("alice"), tick, tw("carol"), e("alice", "carol"), all("alice"), all("bob"),
       tw("eve"), [tw("bob") EXCEPT !.text = BadText], [tw("bob") EXCEPT !.text = BadText] >>

Unfollowing ==
    << del("alice", "alice"), del("alice", "bob"), del("alice", "bob"), all("alice") >>

Paging ==
    << tick, tw("bob"), tick, tw("bob"),
       page("bob", 2, Absent), page("bob", 2, 3), page("bob", 2, 1),
       page("bob", 0, Absent), page("bob", 101, Absent), page("bob", NoNumber, Absent),
       page("bob", Absent, 0) >>

Totality ==
    << malformed, malformed, Sloppy("repeat", all("bob")), all("eve"),
       [op |-> "unrouted"], [op |-> "unrouted"], malformed >>

\* Fault: the corpus as it was before F009, no registration after a rejection.
ScenariosBeforeF009 ==
    SubSeq(Registration, 1, 10) \o Following \o Posting \o Unfollowing \o Paging \o Totality

scenarios ==
    Registration \o Following \o Posting \o Unfollowing \o Paging \o Totality

(* emit writes each step with what S_obs answers to it after all those     *)
(* before; the run keeps the state S_obs was in instead of the file.        *)
emit(s, i) == [request |-> scenarios[i],
               expected |-> Step(s, scenarios[i])[1], next |-> Step(s, scenarios[i])[2]]

-----------------------------------------------------------------------------
(* Canaries: what is done to a response that has arrived *)

Canaries == << "cursor", "errcode", "order", "status" >>

\* Fault: only a page of fewer than two tweets is turned round.
mutationsOfShortPages(c, resp) ==
    CASE c = "status" /\ resp.status \in 200..299 -> [resp EXCEPT !.status = 500]
      [] c = "errcode" /\ "error" \in DOMAIN resp -> [resp EXCEPT !.error = "wrong_code"]
      [] c = "cursor" /\ "next" \in DOMAIN resp ->
           [resp EXCEPT !.next = IF @ = Absent THEN 999 ELSE @]
      [] OTHER -> resp

mutations(c, resp) ==
    CASE c = "status" /\ resp.status \in 200..299 -> [resp EXCEPT !.status = 500]
      [] c = "errcode" /\ "error" \in DOMAIN resp -> [resp EXCEPT !.error = "wrong_code"]
      [] c = "order" /\ "page" \in DOMAIN resp -> [resp EXCEPT !.page = Reverse(@)]
      [] c = "cursor" /\ "next" \in DOMAIN resp ->
           [resp EXCEPT !.next = IF @ = Absent THEN 999 ELSE @]
      [] OTHER -> resp

\* The kind of verdict; "match" and "trim" are no differences.
classify(want, got, padded) ==
    CASE got = want -> IF padded THEN "trim" ELSE "match"
      [] got.status = -1 -> "transport error"
      [] got.status = 404 /\ want.status # 404 -> "route absent"
      [] got.status # want.status -> "status"
      [] "error" \in DOMAIN want /\ "error" \in DOMAIN got -> "error code"
      [] OTHER -> "body differs"

Kinds == {"match", "trim", "transport error", "route absent", "status",
          "error code", "body differs"}

\* Fault: a response that matches after trimming counts as a match.
reportTrimmed(t) ==
    IF \E k \in Kinds \ {"match", "trim"} : t[k] > 0 THEN 1 ELSE 0

report(t) == IF \E k \in Kinds \ {"match"} : t[k] > 0 THEN 1 ELSE 0

-----------------------------------------------------------------------------
VARIABLES
    job,      \* what the command line asked for, and whether the server may fail
    pc,       \* "start", "driving", "exited" (a process), "ended" (the command)
    canary,   \* of the process running: "none", one of Canaries or a typing error
    srv,      \* its server
    pos,      \* steps replayed
    oracle,   \* the state of S_obs behind the step of the corpus to come
    tally,    \* verdicts per kind
    exit,     \* exit code of the process, then of the command
    blind     \* canaries the sweep saw R0 miss

r0vars == <<job, pc, canary, srv, pos, oracle, tally, exit, blind>>

NoTally == [k \in Kinds |-> 0]

Init ==
    /\ job \in [corner : R0Corners, faulty : BOOLEAN,
               canary : {"none", "all", "typo"} \cup Range(Canaries)]
    /\ job.faulty => job.corner \in R0Faulty
    /\ pc = "start"
    /\ canary = IF job.canary = "all" THEN Canaries[1] ELSE job.canary
    /\ srv = Server(Conforming)
    /\ pos = 0 /\ oracle = InitState
    /\ tally = NoTally
    /\ exit = 0
    /\ blind = {}

\* A server built from the corner and healthy; the newline changes no state.
start == Server(IF job.corner = TrailingNewline THEN Conforming ELSE job.corner)

\* start: the server never answers its health probe, is stopped, and main dies.
Unhealthy ==
    /\ pc = "start"
    /\ job.faulty
    /\ pc' = "exited"
    /\ exit' = 1
    /\ UNCHANGED <<job, canary, srv, pos, oracle, tally, blind>>

(* The server is up before the canary's name is looked up: a name that is  *)
(* not in the table ends the process through die, past h.stop, and the      *)
(* server stays behind.                                                     *)
Launch ==
    /\ pc = "start"
    /\ srv' = start
    /\ IF canary = "typo"
       THEN pc' = "exited" /\ exit' = 1
       ELSE pc' = "driving" /\ UNCHANGED exit
    /\ pos' = 0 /\ oracle' = InitState
    /\ tally' = NoTally
    /\ UNCHANGED <<job, canary, blind>>

\* runAll: one step, whatever happened to those before it
Drive ==
    /\ pc = "driving" /\ pos < Len(scenarios)
    /\ LET s == emit(oracle, pos + 1)
           a == Call(srv, s.request)
           got == IF a[1] = NoAnswer THEN a[1] ELSE mutations(canary, a[1])
           kind == classify(s.expected, got,
                            job.corner = TrailingNewline /\ a[1].status # 204)
       IN  srv' = a[2] /\ oracle' = s.next /\ tally' = [tally EXCEPT ![kind] = @ + 1]
    /\ pos' = pos + 1
    /\ UNCHANGED <<job, pc, canary, exit, blind>>

ServerDies ==
    /\ pc = "driving" /\ srv.up
    /\ job.faulty
    /\ srv' = [srv EXCEPT !.up = FALSE]
    /\ UNCHANGED <<job, pc, canary, pos, oracle, tally, exit, blind>>

\* report, and the inversion under a canary; exit stops the server first.
Report ==
    /\ pc = "driving" /\ pos = Len(scenarios)
    /\ exit' = IF canary = "none" THEN report(tally) ELSE 1 - report(tally)
    /\ pc' = "exited"
    /\ UNCHANGED <<job, canary, srv, pos, oracle, tally, blind>>

\* runAllCanaries: the child printed "correctly rejected" exactly when it exits 0.
Collect ==
    /\ pc = "exited"
    /\ LET i == CHOOSE j \in 1..Len(Canaries) : Canaries[j] = canary
           missed == IF exit = 0 THEN blind ELSE blind \cup {canary}
       IN  IF job.canary # "all"
           THEN pc' = "ended" /\ UNCHANGED <<canary, exit, blind>>
           ELSE /\ blind' = missed
                /\ IF i < Len(Canaries)
                   THEN pc' = "start" /\ canary' = Canaries[i + 1] /\ UNCHANGED exit
                   ELSE /\ pc' = "ended"
                        /\ exit' = IF missed = {} THEN 0 ELSE 1
                        /\ UNCHANGED canary
    /\ UNCHANGED <<job, srv, pos, oracle, tally>>

Next == Launch \/ Unhealthy \/ Drive \/ ServerDies \/ Report \/ Collect

Spec == Init /\ [][Next]_r0vars

-----------------------------------------------------------------------------
(* "R0 PASSED: every step matches S_obs byte-for-byte" (report.go:109): a   *)
(* run without a canary exits 0 exactly when the corner conforms and its    *)
(* server answered all 56 steps.  The corpus tells every defect of the      *)
(* catalogue from S_obs (evidence/runs/mutants/r0-go-sweep.txt): each needs *)
(* its own few steps in the right order, as F009 found for the burned id.   *)
CorpusKills ==
    (pc = "ended" /\ job.canary = "none") =>
        (exit = 0 <=> job.corner = Conforming /\ tally["transport error"] = 0 /\ pos > 0)

(* A canary bites: on a corner that conforms and stays up every canary is   *)
(* rejected, so the sweep exits 0.  The corpus must hold a rejection, a     *)
(* page of two tweets and a null next_cursor.                               *)
CanariesAreSeen ==
    (pc = "ended" /\ job.corner = Conforming /\ ~job.faulty
        /\ job.canary \in Range(Canaries) \cup {"all"}) => exit = 0 /\ blind = {}
=============================================================================
