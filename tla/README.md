# A verification project for twitter-port-matrix

The repository holds one small service, a Twitter with users, follows, tweets and a
timeline, written four times (Go, Rust, Java, Kotlin) against one executable reference
machine, `S_obs`, which in turn is meant to refine a TLA+ design model. This directory
models the reference, the design model, the two corners that run requests concurrently
(Go and Rust) with their snapshot paths, the Java and Kotlin corners with the HTTP framing
they do by hand, the programs that drive a corner as its clients (the rungs R0, R1 and R2,
and a client that pages through a timeline), and the two long sweeps that survive their own
crashes: the calibration of the rungs over mutants, and the negation canaries over the Gobra
contracts. It checks them with TLC, and proves with TLAPS nearly every safety property the runs
check: what is said of the reference, of the two concurrent corners and their snapshots, of the
other two and the connections to them, of a walk through a timeline, of R1's shrinking, and of
both sweeps; for any number of clients, users, tweets, mutants, clauses and crashes.

Run everything from this directory: `tlc -config X.cfg M` for a run of the table below,
`tlapm M.tla` for each of the modules `*_proofs`.

## 1. The system

| Part | Source | State it keeps | Operations |
|---|---|---|---|
| Reference machine `S_obs` | `src/spec/s_obs/` | users, follows, append-ordered log, clock, two next-id counters (`types.go` State) | `Step(state, request)`: create, follow, unfollow, post, tick, timeline |
| Design model | `src/spec/tla/twitter.tla` | known users, follows, tweets, clock, next id | CreateUser, Follow, Unfollow, PostTweet, Tick |
| Go core | `src/impls/go/internal/{service,store,ids,clock,dom}` | a store behind an RWMutex, two id generators and a clock with a mutex each, `Service.wmu` | CreateUser, Follow, Unfollow, PostTweet, Tick, HomeTimeline, Snapshot, LoadSnapshot |
| Go HTTP shim | `src/impls/go/internal/httpshim` | none | one handler per route, one goroutine per request |
| Go admin | `src/impls/go/internal/admin` | none | snapshot, load-snapshot |
| Rust core | `src/impls/rust/crates/{service,store,ids,clock,domain}` | the same parts, one `Mutex`/`RwLock` each, no lock across them | the same |
| Rust handlers, admin | `src/impls/rust/crates/server` | none | the same routes |
| Java and Kotlin corners | `src/impls/java`, `src/impls/kotlin` | one object; every service method is `synchronized` | the same routes, over a hand-written HTTP/1.1 framing |
| R0 | `src/tools/cmd/{corpusgen,replay}` | a corpus of 56 requests with `S_obs`'s answers | replay against a fresh server, compare, exit code; canaries that corrupt responses |
| R1 | `src/tools/internal/tracegen`, `src/tools/cmd/diffrun` | none | generate a trace, drive a server and `S_obs` in step, shrink a failing trace |
| R2 | `src/tools/cmd/proptest` | none | bring a server to a generated state, check nine relations there |
| Gobra tool | `src/tools/cmd/gobra` | a checkpoint of canary results, a scratch copy of the module per worker, the results file | canary (self-test, workers, resume), reach, audit, verify, r5 |
| Calibration | `src/tools/cmd/{mutate,calibrate}`, `src/tools/internal/mutants` | `journal.jsonl` of cells and probes, a scratch copy of the mutant, the sources others edit | plan, materialise, guard, run the rungs, probe, classify, resume |
| Runner | `src/tools/internal/implrun` | a child process | build, find a free port, start, wait for health |

**How the parts interact.** A request is decoded and syntax-checked in a handler or the
first lines of a service method; then the service calls the store, a generator or the
clock, each of which takes its own lock for one call. Between two calls of one request the
calls of others run. In the Go corner `CreateUser` and `PostTweet` hold `wmu` from their
first lookup to their last store call; nothing else takes `wmu`. In the Rust corner nothing
is held across calls. The admin path reads or writes store, generators and clock one after
the other, without `wmu`, while requests run. The Java and Kotlin corners run one service
method at a time; there the concurrency is between a connection's thread and its client, who
may pipeline requests, stop in the middle of one, or hang up. The calibration sweep is one
sequential process that calls others (`mutate apply`, the rungs, `mutate probe`) and talks to
its own later runs through the journal; the sources it reads at four moments are edited by
agents who know nothing of it. The canary sweep runs several workers, each in a copy of the
module of its own, which append to one checkpoint under a mutex; `audit` and `r5` read its
results later. The rungs start a server, send one request after another and compare.

**What is hard here**, and what no rung of the repository's ladder reaches because every
rung sends one request after another:

- the order in which posts draw an id, read the clock and append (`service.go:414-420`,
  `rust service/lib.rs:184`); a log out of order breaks the backward walk of the timeline;
- check-then-act on handles and edges across separate critical sections;
- a lock held over early returns;
- ticks, which take no part in `wmu`, against posts that have read the clock;
- snapshot and load, neither of which is one step;
- pages of one timeline read at different moments;
- where one request ends and the next begins on a connection whose client pipelines, stalls
  or disappears (`Http.java` exchange, readLine, readChunked);
- which requests, in which order, make a defect visible at all (`emit.go`), and what a
  reduction of a failing trace still promises (`diffrun` shrink);
- what may be concluded from a verifier that timed out, was cut short, or failed in another
  member than the one asked about (`run.go`, `canary.go`, `audit.go`);
- a sweep that dies in the middle of a journal line and is resumed, or whose corner changes
  between the plan of a mutant, its copy, its rungs and its probe (`sweep.go`, `journal.go`).

The full list, each at its line, is `hazards` in `PROJECT.json`.

**What makes each part correct.** `S_obs`: ids are positions, stamps are ordered, nothing
names an unknown user, a page is exactly the visible tweets below the cursor, and every
step is a step of the design model. A corner: its answers under concurrency are those
`S_obs` gives one at a time; accepted writes are stored once; every request is answered; its
store moves as the design model allows. Snapshots: a core loaded from one can go on serving
without reusing an id or refusing a post. A walk: every tweet visible throughout appears
once. A connection: what is acted on is what was sent whole, answers come in turn, nothing
well-formed ends it, and it ends. A sweep: what the table says of a tree is true of that tree,
nothing flushed is measured again, an exit code of 0 means a table without holes, and every
sweep ends. A canary verdict: VACUOUS only of a clause that says nothing of any state its member
ends in, REFUTABLE and audited only of one that does. A rung: it fails every catalogued defect
(R0), its reproduction fails and is tight (R1), its relations hold of `S_obs` (R2), and exit 0
means that nothing differed.

## 2. Modules

| Module | Models | Extends |
|---|---|---|
| `Api` | requests and responses of the wire contract as records; handles, texts and absent fields as model values | — |
| `Pages` | how a page is cut out of the log: `Kept`, the whole timeline, and `ScanPage`, the loop that stops early | — |
| `SObs` | `Step` of `step.go`, one operator per route, in the order of its checks | `Api`, `Pages` |
| `SObsMachine` | the loop that submits requests to `Step`; properties of `S_obs` | `SObs` |
| `Twitter` | the design model, unbounded, with `Spec` and `LooseSpec` | — |
| `MemStore` | the store's pure parts: `HomeTimeline`, the append guard, the monotonicity test, the sort by id | `Pages` |
| `GoService` | the Go handlers and core under concurrency | `Api`, `MemStore` |
| `GoRefinement` | its relation to `S_obs` and to `Twitter`, and liveness | `GoService` |
| `RustService`, `RustRefinement` | the Rust corner in the same shape | `Api`, `MemStore` |
| `JvmService` | the Kotlin and Java service and store: each method from the store it finds to its answer and the store it leaves | `Api`, `MemStore` |
| `JvmServer` | connections to it: the client's messages, the reads of `Http.exchange`, timeouts and hang-ups | `JvmService` |
| `JvmRefinement` | what a client of such a connection may rely on | `JvmServer` |
| `JvmConformance` | the JVM core beside `S_obs`, request by request | `SObsMachine` |
| `Snapshots` | the snapshot record both corners exchange; `Grounded` (its counters and users cover its records) and `CanServe` | `Api`, `MemStore` |
| `GoAdmin`, `RustAdmin` | the corner beside one operator who snapshots and loads | `GoService` / `RustService`, `Snapshots` |
| `TimelineWalk` | a client that follows `next_cursor` while writers run | `Api`, `MemStore` |
| `Calibration` | the sweep over mutants, its journal, the operator who restarts it and the agents who edit the corner | — |
| `GobraSweep` | the canary sweep, its workers and checkpoint, the verifier from outside, and what reach, audit, verify and r5 conclude | — |
| `Corners` | the servers the rungs are pointed at: the Go corner with each of its catalogued defects | `SObs` |
| `Replay` | R0: corpus, replay, canaries and the sweep over them | `Corners` |
| `Tracegen` | what the trace generator may emit | `Corners` |
| `Rung` | what R1 and R2 keep alike: the job, the server of the trace or round, the exit code | `Tracegen` |
| `DiffRun`, `PropTest` | R1 with its shrinking, R2 with its relations | `Rung` |
| `Workloads`, `AdminWorkloads` | the request sets and foreign snapshots of the runs | `Api`, `Snapshots` |
| `MC*` | the instances TLC runs | as named |
| `Pages_proofs` | theorems: what `Kept` returns, that the early-stopping scan cuts it, what sorting and the monotonicity test do | `MemStore`, `TLAPS` |
| `SObs_proofs` | theorems: history, pages and refinement of `S_obs`, and the JVM core beside it | `JvmConformance`, `Pages_proofs` |
| `Go_proofs` | theorems: the Go corner's invariants, linearizability, the design model, and the corner beside an operator | `GoRefinement`, `GoAdmin`, `Pages_proofs` |
| `Rust_proofs` | theorems: the same of the Rust corner | `RustRefinement`, `RustAdmin`, `Pages_proofs` |
| `Jvm_proofs` | theorems: the answers on any number of JVM connections, their order, and the framing | `JvmRefinement`, `SObs_proofs` (instantiated) |
| `Clients_proofs` | theorems: a walk's pages join up; R1's shrinking; R2's relations | `TimelineWalk`, `DiffRun`, `PropTest`, `Pages_proofs` |
| `Calibration_proofs`, `GobraSweep_proofs` | theorems: the two sweeps | the sweep, `TLAPS` |

Composition: `JvmConformance` instantiates `JvmService` in the states `S_obs` reaches; the corners
`INSTANCE SObs` as the oracle of their answers and `INSTANCE Twitter WITH ...` as the abstract
specification of their store; the admin modules extend a corner and conjoin its actions with the
operator's variables unchanged. `MCAdmin`, `MCRungs` and `MCSweeps` are disjoint sums: programs that
share nothing side by side, where a first variable (`corner`, `client`, `sweep`) says whose
behaviour it is. `MCAdmin` extends `GoAdmin`, `MCRungs` extends `TimelineWalk`, `DiffRun` and
`PropTest`, `MCSweeps` extends `Calibration` and `GobraSweep`; `RustAdmin` and `Replay` are
instantiated. The specifications checked are `CornerSpec`, `RungsSpec` and `SweepsSpec`, each built
from those of the parts.

### State and actions against the code

*Corners.* `users` is the store's map (0 for a missing key), `follows` its edge set, `tweets`
its append log; `idsUsr`, `idsTw` are the Go generators' *next* value, `user_ids`,
`tweet_ids` the Rust generators' *last* one, as the two codes keep them; `clk` the clock;
`wmu` who holds the Go mutex. `pc[c]` names the component call the handler of client `c`
makes next, `req[c]` its request, `tmp[c]` the id and stamp it holds in locals, `resp[c]` its
answer from decision to writing. Every component call is one action, because it is one
critical section of that component's lock: `CreateHasUser`, `CreateNextID`, `PutUser`;
`PostHasUser`, `PostNextID`, `PostReadClock`, `PutTweet`; `EdgeHasFrom`, `EdgeHasTo`,
`PutFollow`, `DeleteFollow`; `Tick`, `TickReadClock`; `TimelineHasUser`, `ReadPage`; and for
Go `AcquireWmu` and `ReleaseWmu`. Decoding and syntax checks read nothing shared, so they are
part of `Call`. The Rust actions carry the names of the Rust functions.

*Follow indexes.* Both stores also keep per-user indexes updated in the same critical section
as the edge set; they are functions of it and are not separate state.

*Admin.* `todo` lists the parts still to be read or written in the order the code's struct
literal or statement list gives: store, user ids, tweet ids, clock in Go; clock, user ids,
tweet ids, store for a Rust snapshot. `snap` is the snapshot in hand. The Go load sorts by id
and drops a log that is still not monotone (`memstore.go` Replace) and never sets the clock
back; the Rust load sorts by stamp and id, checks nothing, and sets the clock. In `GoAdmin`
`quiet` is a history variable: no load so far has met a request in flight, or brought records that
its own counters and users do not cover.

*Walk.* `log`, `edges`, `nextID` are the store; `page` and `got` what was received; `always` and `ever`
are history: what was visible throughout the walk, and at some moment of it.

*Connections.* `st` is the one store; `wire[c]` what client `c` has sent and the server has not
read, as tokens: one per `readLine` and one per body or chunk `readExactly` fetches. `at[c]`
is where `exchange` waits and `cur[c]` its locals; each read is one action (`ReadRequestLine`,
`ReadHeader`, `ReadBody`, `ReadSize`, `ReadChunk`, `ReadCrlf`, `ReadTrailer`), `EndOfInput` is
the null those calls return at the end of the stream, `TimeOut` and `Break` are the
`IOException`s of the socket, `Route` is the synchronized service call and `writeResponse` the
answer. `client[c]` says whether the client still sends, has stopped with the connection open,
or is gone, perhaps in the middle of a line, which `readLine` then returns as if it were whole
(`CutShort`). `sent`, `handled`, `answers` and `expired` are history. The two corners' files
differ in syntax only, so one model serves both: `JvmService` is mapped to the Kotlin sources
and `JvmServer` to the Java ones.

*Calibration.* `source` is the corner on disk: the one file the mutants edit and the rest of
it. A tree's content address is modelled by the tree. `journal` is the file: lines made of
pieces, the last of which may lack its newline; `pc`, `at`, `loaded`, `base`, `disk`, `tree`,
`cells`, `pending` are what the process holds and a crash takes, `report` is `run.Cells`. `Plan`
is `PlanHash` and `reuse`; `LoadTree` and `CopyTree` are the two moments at which `Materialize`
reads the corner; `Rung` and `Write` are one cell and its flushed line; `Judge` is `maybeProbe`;
`CompileBaseline` and `RunProbe` are the two moments at which `mutate probe` reads the corner
again. `Start`, `Truncate` (the advice the program gives on a malformed line), `Edit` and `Crash`
are the environment. `seen`, `synced` and `misled` are history.

*Rungs.* A server process is a record: the corner it was built from, its state and whether it
answers (`Corners!Server`); `Call` is one request to it. `CornerStep(m, s, r)` is `SObs!Step` with
defect `m` of `mutants.json` applied to it, and the eighteen Go defects are all there. `Replay`:
`canary` is the corruption of the process running, `pos` its place in the corpus, `oracle` the state
of `S_obs` behind the expected answers, `tally` the verdicts, `blind` what the sweep over canaries
found missed; `Drive` is one step of `runAll`, `Report` the exit code with its inversion under a
canary, `Collect` the parent of `-canary=all`. `DiffRun`: `Ask` is one request of `runTrace` to both
sides; `lo`, `hi`, `cur`, `chunk`, `at` are the variables of `shrink`, whose two passes are
`shortestPrefix` and `removeChunks`, one attempt a step; an attempt is a run of `runTrace` on a
fresh server, `Replayed`, and `fails` whether it differed. `PropTest`: each relation is an operator
of the server and of the first two users registered there, written as the code's check of the
answers it gets; `Check` evaluates it in the state the round has reached.

*Canary sweep.* A member's body is the set of states its exit can be reached in, an assertion
the set of exit states it holds in, so that a clause is proved when the first lies in the
second. `Clauses` carry text, member, and the (state, element) pairs their antecedent and
consequent hold of; `Canary` is what `negate` makes of one; `Errors` is Gobra, which fails the
members whose bodies do not meet their clauses and the callers of a rewritten contract;
`Outcomes` are the ways its output can end. `known` is what was read from the checkpoint,
`running` the workers with their copies of the module, `writing` those that wait for the
checkpoint's mutex, `file` the checkpoint: whole lines, and what stands after the last newline.
`Take`, `Score` and `WriteLine` are a worker's steps. `StartCanaries` is the command, run at first
or again after a sweep that died, failed or finished: the checkpoint beside the results is read each
time. `SelfTest` and `Infeasible` are the self-test's two runs and `Publish` writes the rows.
`EditBody`, at any moment, and `Die` are the environment. `ran`, and `asked` and `of` in a result,
are history.

### What is abstracted

A handle is a member of `Handles` or the one badly formed handle; a text likewise. Bytes,
JSON, routing by raw path and percent-decoding are the two requests `malformed` and
`unrouted`, which only say that a request was refused before it named anything. Page limits
keep their order of checks and their bounds, with `DefaultLimit` and `MaxLimit` as constants.
Integers do not overflow: ids and the clock are 64-bit and grow by one per request.
A panic inside a handler is not modelled (no call of these handlers has one on the modelled
states). On a connection a body or a chunk is one token; a message has one way of being framed
and at most one defect (no request line, a line or a header list over its limit, a length or a
chunk size that is no number or too large); header fields that contradict each other
are not sent. A chunk size is taken to be written without leading zeros, as HTTP clients write
it: cut short by a hang-up it never reads as zero. In a sweep the configuration does not change
from one run to the next; whether a rung kills a tree, and what a server answers to an input, are
functions of the tree; wall times and launch floors are left out; the copy of a tree is one step,
and the copy's own files are edited by no one else, so the guard's second reading of them is part
of it; a probe's failures are a trace skipped, a trace wrongly counted as different, or no report.
In R0 to R2 a response is a record: answers that are equal as JSON and differ in bytes are one
corner of their own, `trailing-newline`. The generator's seed is a choice, and the requests tried
are a sample of what it may emit. A rung's server is the one it started; it may fail to become
healthy or die in R0 and R1. In the canary sweep line numbers, the text surgery of `substitute`,
the parsing of clauses and of Gobra's output are reduced to what they decide; edits leave the
contracts where they are, and one command runs at a time. Every clause of the run type-checks
negated; that one which does not is ILL-FORMED, and never a verdict, is in the proofs.

## 3. Runs

Passing runs. "mutants" in `PROJECT.json` gives, for each property, the plausible bug that
breaks it; most are written next to the definition they replace and marked `Fault:`.

| Run | Instance | What it shows |
|---|---|---|
| `sobs` | 2 handles + 1 bad, 3 tweets, 2 clock values, pages of ≤ 2 | `S_obs` is total and typed on every route and rejection; its history is sound: the monotonicity lemma, no orphans, gapless user ids; each page is exactly what F1, F2 and D10 ask; every step is one of the design model; in every state the JVM core answers each request as `S_obs` does and leaves the same state |
| `go` | 2 clients on every route, 2 handles + 1 bad, 3 tweets, 1 tick | every answer is the one `S_obs` gives on the store at the step that decides it, and the store changes only at such steps; no answer is 500; no user id is skipped; every request is answered; the two inductive invariants of the proofs, types and control among them (`IndInv`, `AnswersAreDue`); the store implements the design model |
| `rust` | 2 clients on every route, 3 tweets, 1 tick | no edge names an unknown user; answers are those of `S_obs` with the id and stamp the request drew, except the refused posts and the unfollow of a badly formed handle, which change nothing; a 201 names a stored record and no two name the same one; a post is refused only if another overtook it; the log stays monotone; the store implements the design model with tweets numbered by position |
| `admin` | 2 clients and an operator; Go: own snapshots and four foreign ones (a log out of order, a log no order repairs, a duplicated id, a counter behind the records), under traffic; Rust: its own snapshots, while no request runs | a snapshot of the Go corner taken under traffic is always loadable; its log stays monotone after any load, under traffic or not; after loads that met no request, of snapshots whose counters cover their records, either core serves without reusing an id, and the Go core without a 500 |
| `jvm` | 2 connections, 2 messages begun; one client sends every framing, well-formed or not, and both ways to end the connection, the other posts and ticks; a client may stop after any token or hang up in any line | the requests routed are a prefix of those sent whole, up to the first that cannot be framed or that ends the connection; answers come in turn and a refusal is the last; a connection is closed only for a reason; every message sent whole is answered or its connection closed; a client that stops gives its thread back; routed requests, on whichever connection, are steps of `S_obs` |
| `rungs` | R0: 20 corners (`S_obs`, the 18 defects, a trailing newline), every canary, a mistyped canary and the sweep over them, servers that fail or die for 2 of the corners. R1: 4 corners, 1 trace of ≤ 6 requests, stopping at the first mismatch. R2: 2 corners, 7 requests to reach a state. Walk: 1 reader, 2 authors, 5 ids with gaps, page size 1 or 2 | R0 exits 0 exactly on `S_obs` with a server that answers, so the corpus tells every catalogued defect; every canary is rejected on a conforming corner; what R1 shrinks to still fails and no step but its last can go, and each attempt gets closer to the end; none of R2's relations fails on `S_obs` in any state reached; pages of a walk join up: strictly descending, nothing invented, nothing that was visible throughout is missing; and the walk ends |
| `sweeps` | Calibration: 2 mutants, 2 rungs, 2 versions of each of 2 source files; ≤ 1 edit, 1 failure, 1 crash, 3 runs. Canaries: 3 members, 4 clauses of which two carry one text and one is framing, 3 sources, 2 workers; ≤ 2 edits, faults and crashes together (faults and edits in any mixture), 3 sweeps | a cell says what its rung says of the tree it is filed under; the rows of a table are of one tree that the corner held during that run; exit 0 means every rung of every mutant once; what was flushed is not measured again; unless a probe was misled the table is that of an undisturbed sweep. A canary verdict is true of its clause in a package that verifies; every functional clause has a row and the row is its own; a death costs what its workers were at and one record. Every sweep of either kind ends |

Runs that TLC must find violated, one per disagreement between the code and a sentence of the
repository (`findings` quotes the sentence):

| Run | What TLC shows |
|---|---|
| `go_admin_live` | `LoadSnapshot` "atomically replaces the full Service state" (`service.go:584`): a request between two of its parts leaves a record whose id the restored generator draws again |
| `rust_server_error` | "no accepted write may be reported as a server error" (`ASSURANCE.md:33`): the Rust post that drew the earlier id and appends second is answered 500 |
| `calibration_probe` | "equivalent: the mutant changes no observable behaviour anywhere" (`probe.go:20`): the probe reads the corner again, after the rungs ran, and skips a trace on which the mutant's server failed to start; its record is filed under the rungs' tree and reused by every resume |
| `verified_green` | "VERIFIED requires both a green package and a refutable negation" (`r5.go:152`): `cmdR5` joins obligations, sites and canary results and asks no package verdict; a member that fails as shipped fails its negation too and is reported VERIFIED |
| `passed_agreed` | "R1 PASSED: … zero unexplained mismatches" (`diffrun/main.go:77`): with `-stop-on-first=false` a run that printed MISMATCH goes on, prints "no mismatch", is not shrunk and exits 0 |

Other disagreements were met while modelling and have no run of their own:

- Rust `unfollow` answers `unknown_user` for a badly formed handle, where D6 has syntax
  "validated before existence, everywhere" (`LinearizableUpToIds` names it as an exception).
- `snapshot_state` of the Rust core "captures the full inner state" (`service/lib.rs:210`), but
  reads clock and counters before the store: under traffic it can hold records its own counters
  do not cover. The Go corner reads in the other order, which `SnapshotIsLoadable` shows to be safe.
- The Rust `replace` (`store/lib.rs:353`) sorts a foreign log and does not check the result.
- The Go comment at `service.go:401` calls id, stamp and append one atomic operation, yet a tick
  may fall between the stamp and the append (harmless: `LooseSpec` says exactly what is kept).
- Two Go ticks in flight may both report the second value (`shim.go:316`), which is why
  `Linearizable` says nothing of a tick's answer.
- A journal record that lost only its newline is accepted by the next resume, whose first record
  then joins its line, and the resume after that refuses the file; truncating it as told loses two
  records where `journal.go:15` says "at most the in-flight cell is lost". The canary checkpoint
  does the same and drops the joined line in silence: the record is asked again by the next sweep,
  even by one run after a sweep that finished (`CrashesCostLittle` counts what it costs).
- `replay` with a mistyped canary dies after its server was started, through `die` and past
  `h.stop` (`replay/main.go:117-122`), where the comment above says "Stop explicitly before each
  exit instead": the server stays behind.
- `replay -canary=all` on a corner that does not conform reports every canary as rejected
  (`allcanaries.go:51`): a red run is red for its own reasons. `CanariesAreSeen` is about a
  conforming corner.
- The "status" canary is described as changing the first 2xx and changes all (`canary.go:36`).
- R1's "minimal reproducing subsequence" (`diffrun/main.go:161`) never tries without its last
  step, and removing chunks one at a time gives a sequence no single step can leave, which need
  not be a shortest one; `ReproductionIsTight` states what holds.
- R1's first shrinking pass looks for the shortest failing prefix, but `runTrace` stops at the
  first mismatch: on a corner that shows it every time no shorter prefix fails, and the pass
  keeps the whole trace.
- The mutant `timeline-tiebreak-by-id-asc` says it turns ties and reverses the whole page.
- R2 passes when its server died during the setup: with fewer than two registered users the
  round checks nothing, and equal transport errors are equal answers.

**Bounds, and why they suffice.** Two clients show every race between two requests: an
overtaking needs two posts, and the proofs of both corners hold for any number. Two handles
give a contended registration, an edge and its reverse, and an unknown user. Three tweets with
pages of at most two give a full page with and without more below it, a cut in the middle, and a
cursor inside the log. `MaxUserID`, `MaxTweetID`, `MaxClock` (`MaxID` in the walk, `MaxTweets` in
`sobs`) stop clients from *sending* a request that would take a counter past them and never
disable a handler, so a started request always runs to its end. Deadlock checking stays on but
where the system really stops: `jvm`, where every client may have stopped and every connection be
closed; `rungs`, whose programs exit; `sweeps`, whose operators start at most `MaxRuns` or
`MaxSweeps` runs. `go`'s two clients are told apart by its liveness property; `admin` and `rust`
use the symmetry of their clients and check no liveness.

On a connection two messages begun show a message behind one that is refused, closes the connection,
leaves a stray newline or is cut short; `MaxHeaders` is 2 in place of 100. R0's corpus is the code's
own, at full length, so nothing of it is bounded. In R1 six requests show the three defects tried,
the toggle with none to spare (two registrations, two follows, a post, a page), the burned id (three
registrations) and the inclusive cursor (a post, a page at its id) with steps left for both passes
of the shrinking to remove. In R2 seven requests register two users, with posts, an edge and a tick
to spare. In calibration one mutant is missed by a rung that sees it and the other is shown by its
witness alone and loses its anchor to an edit, so each outcome of `classify` and each refusal
occurs; three runs are one that dies, one that resumes over a torn or joined line, and one that
resumes what that run wrote. In the canary sweep a third member calls the second, two clauses share
one text, and the sources hold a member that never ends, one whose antecedent is never met and one
that breaks its contract; two troubles are a crash and a solver's fault, a crash and an edit, or two
crashes, after which a third sweep reads what the second wrote. Three sweeps with one death also
reach the bound of `CrashesCostLittle`: a sweep dies with both workers busy and a line half written,
the next loses a record on that line and finishes, and the third asks it again.

**Fairness.** `GoService!Fairness` is weak fairness of each handler (goroutines that can run
are scheduled) and strong fairness of `AcquireWmu` per client: `sync.Mutex` hands the lock to
a waiter of more than a millisecond before any newcomer (its starvation mode), so a waiter
cannot be passed over for ever. Clients owe nothing: no fairness on `Call`.
On a JVM connection the thread that serves it is fair, and so is its timeout (`setSoTimeout`,
300 s): a wait for a client that says no more ends. A sweep is fair in its own steps only: each
rung and probe runs under `rungTimeout`, each canary under its budget, and Go schedules every
worker; crashes, edits and restarts owe nothing. In the walk only the reader's next page is fair;
writers may stop or go on. The rungs need no fairness: that shrinking ends is
`EveryAttemptGetsCloser`, a measure that falls at every attempt.

## 4. Proofs

Every theorem holds for every value of the constants and data of any
size, under assumptions that
the modules name and TLC evaluates in the runs:

- `WireAssumption`, `ServiceAssumption`, `MachineAssumption`: the badly formed handle and text are
  not among the good ones, 1 ≤ `DefaultLimit` ≤ `MaxLimit`, the bounds are naturals;
- `ForeignAssumption`: what an operator may load is a snapshot, of any content;
- `ServerAssumption`: clients send messages, and there is room for the two headers the reader looks
  at (`MaxHeaders` ≥ 2; the code has 100);
- `WalkAssumption`: who writes is a user, and the page size is one `S_obs` accepts;
- `TracegenAssumption`: the generator's handles are good ones, and its ghost is none of them;
- `R2Assumption`: R2 brings a server to a state with fewer requests than a page can show tweets
  (`-setup` is 40 unless it is given, `MaxLimit` is 100), and has a text to post;
- `CalibrationAssumption`: the catalogue and the list of rungs are not empty and repeat nothing;
- `GobraAssumption`: a package has finitely many members and clauses, a clause is told by its
  member and text, no member relies on its own contract, and a clause without a guard has an
  antecedent that is always met.

| Module | Theorem | States |
|---|---|---|
| `Go_proofs` | `TypeCorrect` | `TypeOK`: types; each handler runs the calls of its own route; an answer exists exactly from the call that decides it to the one that writes it |
| | `IndInvHolds` | `IndInv`, the inductive invariant |
| | `NeverInternalError` | `NoInternalError`: the guard of the append log, which the code calls unreachable (`memstore.go:316-320`), is unreachable |
| | `GoImplementsDesign` | `Spec => Design!LooseSpec`: no edge or tweet of an unknown user, append-only log, ids by position, stamps that never decrease |
| | `AnswersStayDue` | `AnswersAreDue`: no user id is skipped, and what was looked up still decides the answer |
| | `GoIsLinearizable` | `Linearizable`: every answer but a tick's, pages included, is `S_obs`'s at the step that decides it |
| | `OperatorInvariant` | `OperatorInv`, the inductive invariant of the corner beside an operator |
| | `LogSurvivesLoads` | `LogStaysMonotone`: after loading anything, under traffic or not, the log is in order |
| | `QuietLoadsLeaveServable` | `LoadLeavesServable`: after quiet loads no id is drawn twice and no answer is a 500 |
| | `SnapshotsAreServable` | `SnapshotIsLoadable`: a snapshot taken under traffic covers its own records |
| `Rust_proofs` | `TypeCorrect`, `IndInvHolds` | `TypeOK` and `IndInv` of the corner without a lock |
| | `AcceptedAreDurable` | `AcceptedWritesAreDurable`: each 201 names a stored record, no two the same one |
| | `OnlyOvertakenFail` | `OnlyOvertakenPostsFail`: a 500 means that a later id or stamp is in the log |
| | `RustImplementsDesign` | the store moves as `Design!LooseSpec` allows, tweets numbered by their place |
| | `RustIsLinearizable` | `LinearizableUpToIds`: every answer but a tick's and the two that depart is `S_obs`'s with the id and stamp the request drew |
| | `OwnLoadsLeaveServable` | `RustAdmin!LoadLeavesServable`: a core that loads what it wrote, while no request runs, can be served from |
| `Pages_proofs` | `KeptIsSelection` | the timeline is a selection of the log: visible positions only, in order, none left out |
| | `ScanIsCut` | the scan that stops early returns the first `limit` of them, and whether any is left |
| | `AdjacentIsPairwise` | the monotonicity test, which compares neighbours, compares all pairs |
| `SObs_proofs` | `TypeCorrect`, `HistoryHolds` | `TypeOK`, `HistoryIsSound`: the monotonicity lemma, no orphans, gapless user ids |
| | `PageHolds` | `PageIsExact`: each page is exactly what F1, F2 and D10 ask |
| | `SObsImplementsDesign` | `Spec => Design!Spec`, a post stamped with the clock's own value |
| | `JvmAgreesAlways` | `JvmAgrees`: the Java and Kotlin core answers every request as `S_obs` does and leaves the same state |
| `Jvm_proofs` | `JvmIsSObs` | `AnswersLikeSObs`: each routed request is one step of `S_obs`, on whichever connection, and nothing else moves the store |
| | `AnswersComeInTurn` | `AnsweredInTurn`: the answers are written in the order of the requests, a 400 for an unframeable message last |
| | `JvmRoutesWhatWasSent` | `RoutesWhatWasSent`: what is routed is a beginning of what was sent whole, up to the first message that cannot be framed or ends the connection |
| | `JvmClosesForAReason` | `ClosedForAReason`: no well-formed message ends a connection |
| `Clients_proofs` | `WalkPagesJoinUp` | `PagesJoinUp`: the pages of a walk are strictly descending, invent nothing and miss nothing that was visible throughout |
| | `ReproductionsAreTight` | `ReproductionIsTight`: what R1 shrinks to fails, and no step of it but the last can go |
| | `ShrinkingGetsCloser` | `EveryAttemptGetsCloser`: each attempt of the second pass lowers a well-founded measure |
| | `RelationsAreSound` | `RelationsHold`: a corner that conforms passes R2's nine relations in every state the generator reaches |
| `Calibration_proofs` | `SweepInvariant` | `SweepInv`, the inductive invariant |
| | `TableIsTrue` | `TableIsOfItsTrees`: a cell is true of its tree, and the corner held that tree during the run |
| | `ZeroIsComplete` | `ZeroMeansComplete`: exit 0 means one row for each mutant and rung, without errors |
| | `DeathsLeaveNoTrace` | `TableIsTheUninterruptedOne`: unless a probe was misled, the table is that of an undisturbed sweep |
| | `MeasuredOnce` | `NothingIsMeasuredTwice`: a cell flushed is loaded, not measured again |
| `GobraSweep_proofs` | `CanaryInvariant` | `CanaryInv`, the inductive invariant |
| | `VerdictsTell` | `VerdictsAreTrue`: VACUOUS only of a clause that says nothing, REFUTABLE and audited only of one that does |
| | `RowsTell` | `RowsAreTheirOwn`: every functional clause has a row, its own |
| | `DeathsCostLittle` | `CrashesCostLittle`: however often the sweep is run, a death costs what its workers were at and one record |

**The argument, Go.** `NoInternalError` is not inductive: nothing in it says why the id in hand is
the next one. `IndInv` is `ServingInv`, what keeps a core serving whatever log it has, and two parts
that only a core that was never loaded keeps: that no id is missing. Its chain: `wmu` is held
exactly by the client inside a critical section (`WmuIsHeld`), so at most one client is between
drawing an id and appending; therefore the generator is one ahead of the log, or two while a post is
under way, and the id in hand is the next position (`IdIsReserved`, `LogIsPositional`); the stamp in
hand lies between the log's last stamp and the clock, although the clock moves without `wmu`,
because only appends move the lower end and only this client can append (`StampIsFresh`,
`LogIsStamped`); and an existence check made earlier still holds because users are never removed
(`ChecksStillHold`). The proof of `ServingInv` has one lemma per group of actions (`CallInv`,
`ReplyInv`, `MutexInv`, `CreateInv`, `PostInv`, `PutTweetInv`, `EdgeInv`, `ReadInv`), over two frame
lemmas: what a step of the lock's holder may disturb (`HolderStep`) and what a step of anyone else
may (`BystanderStep`). The refinement maps each action: `PutUser`, `PutFollow`, `DeleteFollow`,
`Tick` and a successful `PutTweet` to their design action, every other step to a stutter.

`Linearizable` compares a registration's id with the number of users, of which `IndInv` says
nothing: it has ids unique, not dense. `AnswersAreDue` adds that the generator is one past the
number of users, or two past it between `CreateNextID` and `PutUser`, which only `wmu` keeps
(finding F018), and the range of a page's limit and cursor. Then each action that decides an
answer has a lemma (`PutUserAnswers`, `PutTweetAnswers`, `EdgeAnswers`, ...) that walks `S_obs`'s
tests on the same state, and `OneMoves` says that a step touches one client.

**The argument, loads.** With an operator `IndInv` is lost: a load may leave gaps, and a load under
traffic, as `go_admin_live` shows, much more. `OperatorInv` keeps the order of the log in any case
and `ServingInv` as long as `quiet` holds. It follows a snapshot and a load part by part by what
they come to if the rest is read, or written, next: `Snapped` is the snapshot so completed, and
each client's step only adds to it what the parts read later cover (this is where store before
counters is needed); `Loaded` is the core so completed, and it can be served from because the
snapshot could. For any snapshot whatever, the order of the log rests on the test
after the sort (`AdjacentIsPairwise`); that a log the corner wrote passes it, on the sort leaving it
as it was (`SortByIDKeeps`). The Rust load has no test, and `SortChangesNothing` says the same of its
sort.

**The argument, Rust.** With no lock across calls an id drawn says nothing of the log's end. What
is inductive is: the guard of the log keeps its order (`LogIsMonotone`), every id drawn or stored
is at most the generator's and used once (`IdsAreIssued`, `UserIdsAreUnique`), no stamp drawn or
stored is ahead of the clock (`StampsAreRead`). The two properties of the answers add, for each
client that holds one, what it was decided on: the record it names is stored, or the tweet that
overtook it is; tweets are never removed and ids never reused, so these survive every other step.

**The argument, `S_obs` and pages.** `StepMoves` says what any request does to the state: nothing,
one registration, one edge, one tweet or one tick; each part of `HistoryIsSound` is preserved by
each of these. `PageIsExact` follows from the history (the log reversed is strictly descending)
and `KeptIsSelection`. Both page theorems are about recursive functions on the positions of the
log. The library's induction theorems take an operator and cannot be used here; the induction is
therefore first-order: the set of positions where the claim holds contains 0 and is closed under
successor, and a least position outside it would contradict that (`WFMin` of
`WellFoundedInduction` for `<` on `Nat`). `ScanIsCut` keeps, along the scan, that the record so
far is the cut of what `Kept` has so far. The JVM core differs from `S_obs` in that scan and in
the second look of its append, which `GuardAccepts` shows never to refuse.

**The argument, JVM connections.** `JvmAgrees` holds where `S_obs` has been; that the server's
store is such a state is itself an invariant (`StoreOK`: its history is sound), kept because a
routed request moves it as `S_obs` moves (`RouteIsStep`), and it moves at no other step.
`Jvm_proofs` instantiates `SObs_proofs` at the server's store and takes `RouteAgrees`,
`StepMoves` and `HistoryStep` from there. That the request routed is one of the API needs the
types of what is on the wire, messages cut short included (`PieceType`), and that `exchange()`
holds a request line wherever it has passed one (`LocalsOK`). `AnsweredInTurn` becomes inductive
with what is in hand while an answer waits to be written: it is that of the last request routed
(`InTurn`). The proof has one lemma per read, and `MovesOn` for those that only read on, refuse
or close.

**The argument, framing.** One connection is followed as the record `View(c)`. `Framed` says where
in the stream of its messages the reader stands: the stream splits into the messages routed, whole,
the tokens of the next one already taken, and what is still on the wire, which is the rest of that
message before the tokens of every later one. The place of `exchange()` fixes how many tokens of
the message are behind it. A client's step appends to the end of the stream, or cuts its last
message; a read moves one token; a hang-up may make the last line a shorter one, which is why a
piece may be cut short only where the client is gone and nothing follows. At `closed` the reason is
kept instead (`Reason`).

**The argument, walk.** `LogInv`: the log is in the order of its ids and behind the generator, gaps
or not. `ReadInv`: all that was read has ids from the cursor up and what was visible throughout from
the cursor up has been read. A page is `Kept` of what lies below the cursor, cut at the limit
(`ScanIsCut`), so whatever the log gained meanwhile lies above and is not asked for.

**The argument, shrinking.** `Replayed` is the run of a trace on a fresh server, and what the rung
saw while it recorded the trace is `Replayed` of it as long as the server was up (`ReplayedOneMore`);
hence the whole trace fails. `PrefixInv` keeps a failing prefix at the upper bound of the search.
`InteriorInv` keeps that what is left fails, and, of the pass in steps of one, that every step
before `at` was tried on just this sequence: a removal starts again at 0, so when the pass ends
none can go.

**The argument, R2.** Requests lead `S_obs` only to states in which ids are positions, stamps grow to
the clock and no user goes (`Sound`, `StepFollows`); there the corner without a defect does what
`S_obs` does (`ConformingIsSObs`), so the answers to a list of requests are those of a run of `S_obs`
(`DoIsSObs`). Each relation is then a lemma about two users of a sound state. Two reads agree because
nothing asked between them moves what the author may see; a follow shows one author's tweets and
hides none. For `pagination-partitions`, what is joined and what lies below the cursor are the page
of 100 (`RestAfter`, `PageTurned`), each page takes one tweet of the rest at least, and so the walk
is over within as many pages as there are tweets (`WalkReadsAll`). `RoundInv` carries a round's
server from one sound state to the next, with no more tweets than requests were sent: three of the
relations compare with a page of 100, and `R2Assumption` is what keeps it from being cut. With
`-setup` well above 100 a full page would lose an old tweet for each one that a post or a follow
adds, and `post-prepends` would fail on a conforming corner.

**The argument, sweeps.** `SweepInv`: a record is right of the tree it names when it is made, and
since a tree is content it stays right, whatever is edited and whoever reads it back; the journal
holds such records and torn ones only; the cells at hand are of one tree that the corner held in
this run, one for each of the first rungs; each mutant passed has one row per rung or an error;
what was flushed was loaded or measured by this very run. `CanaryInv`: a record is scored once,
from one answer of the verifier on one workspace about one clause, and a row is the record with
that clause's key. `CrashesCostLittle` counts: `CostInv` bounds the canaries asked by the clauses
`Kept`, on the checkpoint or in a worker's hands, and what the deaths lost. `Credit` is what the next
append will still spoil: nothing on a fresh line, itself after a part of a record, and itself and
the record it continues after one that lacks only its newline (`TornInv` says there is at most
one). The slots of the workers bound what a death can find under way (`SlotInv`), and a clause a
worker takes is one more kept, since this sweep has read or written all that the checkpoint
holds (`HeldInv`).

**What proving changed in the models.** A message with too many header lines that also asks to close
had one line more than the reader takes before it refuses, and the run never sent one; now it does.
Guards of a CASE that overlap leave the choice open, which a proof cannot use and TLC, which takes
the first that holds, does not show: they are IF chains now, in the order of the code's tests. R2's
answers in a row and its walk were folds, of which nothing can be proved here for lists of any
length; they are recursive functions on the number of requests now. What the run took from its
constants, that R2's pages have room, is an assumption with a name. The sort of a loaded log was not
defined where two records share an id; it is a stable sort now (`StableSort`). What only a core
never loaded satisfies was split from what serving needs.

**Only model-checked.** Liveness (`EveryRequestAnswered`, `ThreadsComeBack`, `WalkEnds`,
`SweepsEnd`): TLAPS has no support for `ENABLED` and none for fairness. `CorpusKills` and
`CanariesAreSeen` are about one corpus of 56 requests and eighteen defects: a computation, which
TLC does. A tick's answer is left out of `Linearizable` because two ticks in flight may
report one value.

## 5. Not modelled, and why

- *Json, Query and the split of the target in the JVM corners*, as in the others: they decide
  which request was made. Sizes and integer widths of bodies are not modelled.
- *Metrics, UI, flags, process start of the corners.* Observers, or callers of the methods
  modelled here. The lazily created counter of the Go metrics (`metrics.go:70`, a read lock given
  up for a write lock with a second lookup) is in the plan.
- *The Kotlin checker harness, `matrixctl`, `tlclink`.* Sequential batch programs whose only state
  is their output; what `tlclink` samples, `ImplementsDesign` checks in every state.
- *Runner.* A port taken between probe and bind is a real hazard, listed without a property.
- *Of the calibration*: floors and costs, the other probe modes, several corners in one sweep, the
  guard's demonstration, the report's text. Cells carry no parameters (`journal.go:74`), so a
  resume with other trace counts reuses what the former ones measured; the configuration is fixed
  in the model.
- *Of the Gobra tool*: `members`, the recognition of clauses in the text, the reports.
- *Defects of the Rust, Java and Kotlin corners*: the catalogue repeats the Go ones for them; the
  rungs see only answers, so one set of defects serves.

## 6. Plan

Items 1–11 are done; 12 is what is left.

1. `SObs`, `Twitter`: the reference and what it refines. Everything else is compared with them.
2. `GoService`, `GoRefinement`: the corner whose concurrency the repository claims to have
   settled. Type invariant, append guard, linearizability, refinement, liveness.
3. Proofs of 2, `Linearizable` on every route included.
4. `RustService`, `RustRefinement`: the same design without the lock; what survives.
5. `Snapshots`, `GoAdmin`, `RustAdmin`, `TimelineWalk`.
6. Proofs about the Rust corner: `IndInv`, `AcceptedWritesAreDurable`,
   `OnlyOvertakenPostsFail`, `LinearizableUpToIds`, `RustService` implements `Design!LooseSpec`;
   about `S_obs`: `HistoryIsSound`, `PageIsExact`, `S_obs` implements `Twitter!Spec`; the JVM core
   agrees with `S_obs`, on any number of connections, and answers in turn.
7. `JvmService`, `JvmConformance`, `JvmServer`, `JvmRefinement`: the Java and Kotlin core beside
   `S_obs`, and the framing of a connection.
8. `Calibration`: journal append, crash, torn last line, resume; and a source tree that changes
   between planning, copying, measuring and probing.
9. `Corners`, `Replay`, `Tracegen`, `Rung`, `DiffRun`, `PropTest`: the rungs as programs, and what each
   may conclude.
10. `GobraSweep`: the negation canaries, their checkpoint, and what the reports join.
11. Proofs about the admin paths (`LogStaysMonotone` for any snapshot, `SnapshotIsLoadable` from the
    order of reads), the framing of JVM connections, the walk, R1's shrinking, R2's relations and
    both sweeps.
12. Not begun: two operators at once in the admin modules; the Rust snapshot under traffic,
    which may hold records its own counters do not cover (§3); the metric counters;
    the runner's port race.
