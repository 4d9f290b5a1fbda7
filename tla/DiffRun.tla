------------------------------ MODULE DiffRun ------------------------------
(***************************************************************************)
(* Rung R1 (tools/cmd/diffrun): generated traces are sent to a fresh server *)
(* each and to S_obs, and the first answer that differs ends the trace.     *)
(* The trace is then shrunk: a binary search for the shortest failing       *)
(* prefix, and the removal of ever smaller chunks before its last step.     *)
(***************************************************************************)
EXTENDS Rung

CONSTANTS
    R1Corners,    \* the corners compared with S_obs
    R1Faulty,     \* those whose server may die during a trace
    StopOnFirst,  \* values the flag -stop-on-first is given
    Traces,       \* bound: -traces
    Steps         \* bound: -steps

VARIABLES
    oracle,   \* the state of S_obs
    traceNo,  \* traces begun
    trace,    \* requests of this trace so far; the failing one is the last
    seen,     \* whether a mismatch was printed for any trace
    lo, hi,   \* bounds of the binary search over prefixes
    cur,      \* what shrinking has kept
    chunk, at \* size and position of the chunk tried next

r1vars == <<job, pc, srv, oracle, known, exit, traceNo, trace, seen, lo, hi, cur, chunk, at>>

shrinking == <<lo, hi, cur, chunk, at>>

\* job is [corner, stopFirst, faulty], pc one of "start", "driving", "prefix",
\* "interior" and "ended".
R1Init ==
    /\ job \in [corner : R1Corners, stopFirst : StopOnFirst, faulty : BOOLEAN]
    /\ job.faulty => job.corner \in R1Faulty
    /\ pc = "start"
    /\ srv = start /\ oracle = InitState /\ known = 0
    /\ exit = 0 /\ traceNo = 0 /\ trace = << >> /\ seen = FALSE
    /\ lo = 0 /\ hi = 0 /\ cur = << >> /\ chunk = 0 /\ at = 0

-----------------------------------------------------------------------------
(* run and runTrace *)

BeginTrace ==
    /\ pc = "start"
    /\ IF traceNo = Traces
       THEN pc' = "ended" /\ UNCHANGED <<srv, oracle, known, traceNo, trace>>
       ELSE /\ pc' = "driving"
            /\ srv' = start /\ oracle' = InitState /\ known' = 0
            /\ traceNo' = traceNo + 1 /\ trace' = << >>
    /\ UNCHANGED <<job, exit, seen, shrinking>>

Ask(r) ==
    /\ pc = "driving" /\ Len(trace) < Steps
    /\ Generates(known, Len(trace) + 1, r)
    /\ known' = HandedOut(known, r)
    /\ LET got == Call(srv, r)
           want == Step(oracle, r)
       IN  /\ srv' = got[2] /\ oracle' = want[2]
           /\ trace' = Append(trace, r)
           /\ IF got[1] = want[1] THEN UNCHANGED <<pc, exit, seen, lo, hi>>
              ELSE /\ seen' = TRUE
                   /\ IF job.stopFirst
                      THEN /\ pc' = "prefix" /\ exit' = 1
                           /\ lo' = 1 /\ hi' = Len(trace')
                      ELSE pc' = "start" /\ UNCHANGED <<exit, lo, hi>>
    /\ UNCHANGED <<job, traceNo, cur, chunk, at>>

EndTrace ==
    /\ pc = "driving" /\ Len(trace) = Steps
    /\ pc' = "start"
    /\ UNCHANGED <<job, srv, oracle, known, exit, traceNo, trace, seen, shrinking>>

ServerDies ==
    /\ pc = "driving" /\ job.faulty /\ srv.up
    /\ srv' = [srv EXCEPT !.up = FALSE]
    /\ UNCHANGED <<job, pc, oracle, known, exit, traceNo, trace, seen, shrinking>>

-----------------------------------------------------------------------------
(* shrink *)

\* A request to the server and to S_obs, and whether they have parted ways.
Both(x, r) ==
    LET got == Call(x.srv, r)
        want == Step(x.oracle, r)
    IN  [srv |-> got[2], oracle |-> want[2], parted |-> x.parted \/ got[1] # want[1]]

Fresh(corner) == [srv |-> Server(corner), oracle |-> InitState, parted |-> FALSE]

\* Both after the requests of t, from a fresh server of the corner on.
Replayed(corner, t) ==
    LET after[i \in 0..Len(t)] ==
            IF i = 0 THEN Fresh(corner) ELSE Both(after[i - 1], t[i])
    IN  after[Len(t)]

fails(t) == Replayed(job.corner, t).parted

shortestPrefix ==
    /\ pc = "prefix"
    /\ IF lo < hi
       THEN LET mid == (lo + hi) \div 2
            IN  /\ IF fails(SubSeq(trace, 1, mid)) THEN hi' = mid /\ UNCHANGED lo
                   ELSE lo' = mid + 1 /\ UNCHANGED hi
                /\ UNCHANGED <<pc, cur, chunk, at>>
       ELSE /\ pc' = "interior"
            /\ cur' = SubSeq(trace, 1, lo)
            /\ chunk' = lo \div 2 /\ at' = 0
            /\ UNCHANGED <<lo, hi>>
    /\ UNCHANGED <<job, srv, oracle, known, exit, traceNo, trace, seen>>

Without(t, i, n) == SubSeq(t, 1, i) \o SubSeq(t, i + n + 1, Len(t))

\* Fault: a chunk size is passed over once, without starting again after a removal.
removeChunksOnce ==
    /\ pc = "interior"
    /\ LET cand == Without(cur, at, chunk)
           next == at + chunk
       IN  IF chunk = 0 THEN pc' = "ended" /\ UNCHANGED <<cur, chunk, at>>
           ELSE /\ UNCHANGED pc
                /\ IF next >= Len(cur) THEN chunk' = chunk \div 2 /\ at' = 0 /\ UNCHANGED cur
                   ELSE /\ cur' = IF fails(cand) THEN cand ELSE cur
                        /\ at' = next /\ UNCHANGED chunk
    /\ UNCHANGED <<job, srv, oracle, known, exit, traceNo, trace, seen, lo, hi>>

\* Fault: the candidate that fails is not kept.
removeChunksForgetting ==
    /\ pc = "interior"
    /\ LET cand == Without(cur, at, chunk)
           next == at + chunk
       IN  IF chunk = 0 THEN pc' = "ended" /\ UNCHANGED <<chunk, at>>
           ELSE /\ UNCHANGED pc
                /\ IF next >= Len(cur) THEN chunk' = chunk \div 2 /\ at' = 0
                   ELSE at' = (IF fails(cand) THEN 0 ELSE next) /\ UNCHANGED chunk
    /\ UNCHANGED <<job, srv, oracle, known, exit, traceNo, trace, seen, lo, hi, cur>>

\* The last step is never in a chunk; a removal starts the pass again.
removeChunks ==
    /\ pc = "interior"
    /\ LET cand == Without(cur, at, chunk)
           next == at + chunk
       IN  IF chunk = 0 THEN pc' = "ended" /\ UNCHANGED <<cur, chunk, at>>
           ELSE /\ UNCHANGED pc
                /\ IF next >= Len(cur) THEN chunk' = chunk \div 2 /\ at' = 0 /\ UNCHANGED cur
                   ELSE IF fails(cand) THEN cur' = cand /\ at' = 0 /\ UNCHANGED chunk
                   ELSE at' = next /\ UNCHANGED <<cur, chunk>>
    /\ UNCHANGED <<job, srv, oracle, known, exit, traceNo, trace, seen, lo, hi>>

R1Next ==
    \/ BeginTrace \/ EndTrace \/ ServerDies \/ shortestPrefix \/ removeChunks
    \/ \E r \in Sample : Ask(r)

R1Spec == R1Init /\ [][R1Next]_r1vars

-----------------------------------------------------------------------------
(* What shrinking is for ("a minimal reproducing subsequence", main.go:161, *)
(* and the comment on its last step): a mismatch the corner shows every     *)
(* time ends in a subsequence of the trace that shows it too and from which *)
(* no step but the last can go.                                             *)
ReproductionIsTight ==
    (pc = "ended" /\ seen /\ exit = 1 /\ srv.up) =>
        /\ fails(cur)
        /\ \A i \in 1..(Len(cur) - 1) : ~fails(Without(cur, i - 1, 1))

(* "R1 PASSED: ... zero unexplained mismatches" (main.go:77): the exit code *)
(* is 0 only when no trace of the run differed.                             *)
PassedMeansAgreed == (pc = "ended" /\ exit = 0) => ~seen

(* Shrinking comes to an end: though the second pass starts again after     *)
(* every removal, each attempt leaves fewer steps, or as many and a smaller *)
(* chunk, or the same of both and less of the pass to go.                   *)
Closer ==
    \/ pc' = "ended"
    \/ Len(cur') < Len(cur)
    \/ Len(cur') = Len(cur) /\ chunk' < chunk
    \/ Len(cur') = Len(cur) /\ chunk' = chunk /\ at' > at

EveryAttemptGetsCloser == [][pc = "interior" => Closer]_r1vars
=============================================================================
