------------------------------ MODULE MCRungs ------------------------------
(***************************************************************************)
(* The programs that drive a corner as its clients, one at a time: the      *)
(* rungs R0, R1 and R2 and a reader who pages through a timeline.  They     *)
(* share nothing, so the run is their disjoint sum: `client` says which of  *)
(* them a behaviour is of, and the variables of the others stay put.        *)
(***************************************************************************)
EXTENDS TimelineWalk, DiffRun, PropTest

CONSTANTS R0Corners, R0Faulty, Text

\* The corpus names five users.
ASSUME RungsAssumption ==
    /\ {"alice", "bob", "carol", "dave", "eve"} \subseteq Handles
    /\ Text \in Texts
    /\ StopOnFirst \subseteq BOOLEAN
    /\ {Traces, Steps, MaxID} \subseteq Nat \ {0}

VARIABLES
    client,                     \* whose behaviour it is
    canary, pos, tally, blind   \* Replay

jobVars == <<job, pc, srv, exit, oracle>>
r0Vars == <<canary, pos, tally, blind>>
traceVars == <<traceNo, trace, seen, lo, hi, cur, chunk, at>>
r2Vars == <<prop, sent, users>>
rungsVars == <<client, jobVars, r0Vars, traceVars, r2Vars, known, vars>>

-----------------------------------------------------------------------------
(* What is tried.  Requests on two users; a page of one, and cursors that   *)
(* fall on a tweet.                                                         *)
Timeline(l, c) == [op |-> "timeline", user |-> Pool[1], limit |-> l, cursor |-> c]
Edges(op) == [op |-> op, from |-> Pool[1], to |-> Pool[2]]

MCSample ==
    [op : {"create"}, handle : Range(Pool)]
      \cup [op : {"post"}, author : Range(Pool), text : Texts]
      \cup {[op |-> "tick"], Edges("follow"), Edges("unfollow"),
            Timeline(Absent, Absent), Timeline(1, Absent), Timeline(Absent, 1), Timeline(Absent, 2)}

MCPool == <<"alice", "bob">>
MCHandles == {"alice", "bob", "carol", "dave", "eve"}
MCWriters == Range(Pool)
MCReader == Pool[1]
\* Every defect of the catalogue, no defect, and one that changes only the framing.
MCDefects == {
    "none", "trailing-newline", "id-first-is-two", "id-burned-on-reject",
    "self-follow-guard-dropped", "follow-precedence-flipped", "timeline-scan-reversed",
    "timeline-tiebreak-by-id-asc", "follow-toggles", "unfollow-rejects-missing-edge",
    "orphan-author-accepted", "created-at-frozen", "tick-advances-by-two",
    "tick-goes-backwards", "next-cursor-always-emitted", "next-cursor-is-first-id",
    "cursor-inclusive", "limit-off-by-one", "unknown-json-fields-accepted",
    "repeated-query-param-accepted"}

R0 == INSTANCE Replay

-----------------------------------------------------------------------------
R0Idle == canary = "none" /\ pos = 0 /\ tally = << >> /\ blind = {}
R1Idle == /\ traceNo = 0 /\ trace = << >> /\ seen = FALSE
          /\ lo = 0 /\ hi = 0 /\ cur = << >> /\ chunk = 0 /\ at = 0
R2Idle == prop = 0 /\ sent = 0 /\ users = {}
RungIdle == job = << >> /\ pc = "idle" /\ srv = << >> /\ exit = 0 /\ oracle = << >>
WalkIdle == /\ log = << >> /\ edges = {} /\ nextID = 1 /\ phase = "idle" /\ limit = 0
            /\ cursor = 0 /\ page = << >> /\ got = {} /\ always = {} /\ ever = {}

RungsInit ==
    \/ client = "replay" /\ R0!Init /\ R1Idle /\ R2Idle /\ WalkIdle /\ known = 0
    \/ client = "diffrun" /\ R1Init /\ R0Idle /\ R2Idle /\ WalkIdle
    \/ client = "proptest" /\ R2Init /\ oracle = << >> /\ R0Idle /\ R1Idle /\ WalkIdle
    \/ client = "reader" /\ Init /\ RungIdle /\ R0Idle /\ R1Idle /\ R2Idle /\ known = 0

Replaying ==
    client = "replay" /\ R0!Next /\ UNCHANGED <<client, known, traceVars, r2Vars, vars>>
Differing ==
    client = "diffrun" /\ R1Next /\ UNCHANGED <<client, r0Vars, r2Vars, vars>>
Testing ==
    client = "proptest" /\ R2Next /\ UNCHANGED <<client, oracle, r0Vars, traceVars, vars>>
Others == <<client, known, jobVars, r0Vars, traceVars, r2Vars>>
Reading == client = "reader" /\ ReadPage /\ UNCHANGED Others
Walking == client = "reader" /\ (Write \/ Start) /\ UNCHANGED Others

RungsNext == Replaying \/ Differing \/ Testing \/ Reading \/ Walking

\* The reader asks for the next page; a rung's steps are bounded, writers owe nothing.
RungsSpec == RungsInit /\ [][RungsNext]_rungsVars /\ WF_rungsVars(Reading)

-----------------------------------------------------------------------------
(* The properties of each client, of its own behaviours *)

(* R0's corpus tells every defect of the catalogue from S_obs, and passes   *)
(* what conforms (Replay.tla, report.go).                                   *)
CorpusKills == client = "replay" => R0!CorpusKills

(* R0 rejects every canary on a corner that conforms (Replay.tla,           *)
(* canary.go).                                                              *)
CanariesAreSeen == client = "replay" => R0!CanariesAreSeen

(* Those of a walk, of R1 and of R2 are stated in TimelineWalk.tla,         *)
(* DiffRun.tla and PropTest.tla and hold of the other clients' behaviours,  *)
(* which never come to that.                                                *)
=============================================================================
