------------------------------ MODULE GoAdmin ------------------------------
(***************************************************************************)
(* The Go corner with its trusted admin path (internal/admin over          *)
(* Service.Snapshot and Service.LoadSnapshot) beside the clients.  Neither *)
(* method takes wmu: each reads or writes the store, the two generators    *)
(* and the clock one after the other, each under that component's own      *)
(* mutex, while handlers run in between.  One operator at a time holds the *)
(* token.  Requests turned away by the method, token, version or decoding  *)
(* checks change nothing and are not modelled.                             *)
(***************************************************************************)
EXTENDS GoService, Snapshots

CONSTANT
    Foreign  \* snapshots of other producers that the operator may load

ASSUME ForeignAssumption == Foreign \subseteq Snapshot

VARIABLES
    task,  \* what the operator is doing: "idle", "snapshot" or "load"
    todo,  \* the parts still to be read or written, in order
    snap,  \* the snapshot being taken, taken last, or being loaded
    quiet  \* history: no load so far has met a request in flight, or brought
           \* records that its own counters and users do not cover

adminVars == <<task, todo, snap, quiet>>
allVars == <<vars, adminVars>>

AdminInit ==
    /\ Init
    /\ task = "idle"
    /\ todo = << >>
    /\ snap = Blank
    /\ quiet = TRUE

-----------------------------------------------------------------------------
(* POST /_admin/snapshot *)

\* Fault: the counters and the clock are read before the store.
SnapshotOrderStoreLast == <<"usr", "tw", "clk", "store">>

\* The order of the fields of the literal Service.Snapshot builds.
SnapshotOrder == <<"store", "usr", "tw", "clk">>

BeginSnapshot ==
    /\ task = "idle"
    /\ task' = "snapshot"
    /\ todo' = SnapshotOrder
    /\ snap' = Blank
    /\ UNCHANGED <<vars, quiet>>

\* MemStore.Snapshot, Generator.Current (twice) and Logical.Now.
ReadPart ==
    /\ task = "snapshot"
    /\ snap' = CASE Head(todo) = "store" ->
                       [snap EXCEPT !.users = users, !.follows = follows, !.tweets = tweets]
                 [] Head(todo) = "usr" -> [snap EXCEPT !.usr = idsUsr - 1]
                 [] Head(todo) = "tw" -> [snap EXCEPT !.tw = idsTw - 1]
                 [] Head(todo) = "clk" -> [snap EXCEPT !.clk = clk]
    /\ todo' = Tail(todo)
    /\ task' = IF Len(todo) = 1 THEN "idle" ELSE "snapshot"
    /\ UNCHANGED <<vars, quiet>>

-----------------------------------------------------------------------------
(* POST /_admin/load-snapshot *)

LoadOrder == <<"store", "usr", "tw", "clk">>

\* The operator loads the snapshot taken last, or one from elsewhere.
BeginLoad ==
    /\ task = "idle"
    /\ \E s \in {snap} \cup Foreign :
          /\ snap' = s
          /\ quiet' = (quiet /\ Grounded(s) /\ \A c \in Clients : At(c, "idle"))
    /\ task' = "load"
    /\ todo' = LoadOrder
    /\ UNCHANGED vars

\* Fault: the sorted log is installed unchecked.
RestoredLogUnchecked(log) == SortLogByID(log)

\* MemStore.Replace: a log that is not monotone even when sorted by id is
\* dropped, not repaired.
RestoredLog(log) ==
    LET cand == SortLogByID(log)
    IN  IF IsMonotoneLog(cand) THEN cand ELSE << >>

\* Fault: the next id is the last one issued.
SetCurrentSame(value) == value

\* Generator.SetCurrent: the next id issued is value + 1.
SetCurrent(value) == value + 1

\* Replace, SetCurrent (twice) and SetNow, which never goes backwards.
WritePart ==
    LET part == Head(todo)
    IN  /\ task = "load"
        /\ IF part = "store"
           THEN /\ users' = snap.users
                /\ follows' = snap.follows
                /\ tweets' = RestoredLog(snap.tweets)
           ELSE UNCHANGED store
        /\ idsUsr' = IF part = "usr" THEN SetCurrent(snap.usr) ELSE idsUsr
        /\ idsTw' = IF part = "tw" THEN SetCurrent(snap.tw) ELSE idsTw
        /\ clk' = IF part = "clk" /\ snap.clk > clk THEN snap.clk ELSE clk
        /\ todo' = Tail(todo)
        /\ task' = IF Len(todo) = 1 THEN "idle" ELSE "load"
        /\ UNCHANGED <<wmu, pc, req, tmp, resp, snap, quiet>>

-----------------------------------------------------------------------------
AdminNext ==
    \/ BeginSnapshot \/ ReadPart \/ BeginLoad \/ WritePart
    \/ \E c \in Clients : Handler(c) /\ UNCHANGED adminVars
    \/ \E c \in Clients, r \in Requests :
          /\ Call(c, r)
          /\ quiet' = (quiet /\ task # "load")
          /\ UNCHANGED <<task, todo, snap>>

AdminSpec == AdminInit /\ [][AdminNext]_allVars

-----------------------------------------------------------------------------
(* Properties *)

\* What the core would be serving from if it were stopped here.
Held == [users |-> users, follows |-> follows, tweets |-> tweets,
         usr |-> idsUsr - 1, tw |-> idsTw - 1, clk |-> clk]

(* A snapshot taken while clients are being served can always be served    *)
(* from (service.go:575-582): it may mix moments, but counters and clock   *)
(* are read after the records they must be ahead of.                       *)
SnapshotIsLoadable ==
    [][(task = "snapshot" /\ task' = "idle" /\ quiet) => CanServe(snap')]_allVars

(* F2's basis survives any load, under traffic or not, of any snapshot:    *)
(* the append log stays strictly increasing in id and non-decreasing in    *)
(* stamp (memstore.go:668-678).                                            *)
LogStaysMonotone == IsMonotoneLog(tweets)

(* After loads that met no request, of snapshots whose counters cover      *)
(* their records, the core can be served from (service.go:584-589): no id  *)
(* in use is drawn again, and no answer is an internal error.  The log     *)
(* such a load brings may be in any order.                                 *)
LoadLeavesServable == quiet => NoInternalError /\ (task # "load" => CanServe(Held))

(* "LoadSnapshot atomically replaces the full Service state"               *)
(* (service.go:584): loads under traffic leave such a core just as well.   *)
LiveLoadLeavesServable == task # "load" => CanServe(Held)

-----------------------------------------------------------------------------
(* The inductive invariant behind them *)

\* The operator has not come to this part yet.
Left(part) == \E i \in DOMAIN todo : todo[i] = part

\* What is being taken, if the rest were read now.
Snapped == [users |-> IF Left("store") THEN users ELSE snap.users,
            follows |-> IF Left("store") THEN follows ELSE snap.follows,
            tweets |-> IF Left("store") THEN tweets ELSE snap.tweets,
            usr |-> IF Left("usr") THEN idsUsr - 1 ELSE snap.usr,
            tw |-> IF Left("tw") THEN idsTw - 1 ELSE snap.tw,
            clk |-> IF Left("clk") THEN clk ELSE snap.clk]

\* What will be served from, if the rest is written and nobody interferes.
Loaded == [users |-> IF Left("store") THEN snap.users ELSE users,
           follows |-> IF Left("store") THEN snap.follows ELSE follows,
           tweets |-> IF Left("store") THEN RestoredLog(snap.tweets) ELSE tweets,
           usr |-> IF Left("usr") THEN snap.usr ELSE idsUsr - 1,
           tw |-> IF Left("tw") THEN snap.tw ELSE idsTw - 1,
           clk |-> IF Left("clk") /\ snap.clk > clk THEN snap.clk ELSE clk]

OperatorTypes ==
    /\ task \in {"idle", "snapshot", "load"}
    /\ todo \in IF task = "idle" THEN {<< >>}
               ELSE {<<"store", "usr", "tw", "clk">>, <<"usr", "tw", "clk">>,
                     <<"tw", "clk">>, <<"clk">>}
    /\ snap \in Snapshot
    /\ quiet \in BOOLEAN

\* As long as every load was quiet, the core serves, or is being loaded with what
\* it can serve from and nobody is about.
OperatorInv ==
    /\ TypeOK
    /\ OperatorTypes
    /\ LogStaysMonotone
    /\ quiet => /\ task = "idle" => ServingInv /\ Grounded(snap)
                /\ task = "snapshot" => ServingInv /\ CanServe(Snapped)
                /\ task = "load" => /\ \A c \in Clients : At(c, "idle")
                                    /\ wmu = Nobody
                                    /\ Grounded(snap) /\ CanServe(Loaded)
=============================================================================
