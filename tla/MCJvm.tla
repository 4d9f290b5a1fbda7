-------------------------------- MODULE MCJvm --------------------------------
(* The JVM corners under pipelined, interrupted and ill-formed traffic.      *)
EXTENDS JvmRefinement, Workloads

CONSTANTS c1, c2

Plain(r, framing) == [req |-> r, framing |-> framing, v11 |-> TRUE, close |-> FALSE]

CreateAlice == [op |-> "create", handle |-> alice]
PostAlice == [op |-> "post", author |-> alice, text |-> hello]
ReadAlice == [op |-> "timeline", user |-> alice, limit |-> 1, cursor |-> Absent]
Tick == [op |-> "tick"]

\* One client sends every framing, a request of every kind that changes the
\* store, and both ways to have the connection closed; the other one
\* only posts and ticks.
MCTraffic ==
    c1 :> ({Plain(CreateAlice, "sized"), Plain(PostAlice, "chunked"), Plain(Tick, "trailed"),
            [Plain(ReadAlice, "none") EXCEPT !.close = TRUE],
            [Plain(Tick, "none") EXCEPT !.v11 = FALSE],
            [Plain(Tick, "tooMany") EXCEPT !.close = TRUE]}
              \cup {Plain(Tick, f) :
                      f \in {"junk", "overlong", "badLength", "tooMany", "badSize"}})
      @@ c2 :> {Plain(PostAlice, "sized"), Plain(Tick, "none")}
=============================================================================
