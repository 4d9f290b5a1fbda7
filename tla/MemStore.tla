------------------------------ MODULE MemStore ------------------------------
(***************************************************************************)
(* The pure parts of the Go corner's store (internal/store/memstore.go):   *)
(* what one critical section of MemStore.mu computes from the log and the  *)
(* follow set.  The Rust store (crates/store/src/lib.rs) computes the same *)
(* page and guards its log in the same way.                                *)
(***************************************************************************)
EXTENDS Pages, SequencesExt

\* Fault: the page is full, so there must be more.
HomeTimelineGuessing(log, edges, user, limit, cursor) ==
    LET newest == Reverse(log)
        shown == {i \in DOMAIN newest :
                    /\ cursor > 0 => newest[i].id < cursor
                    /\ newest[i].author = user \/ <<user, newest[i].author>> \in edges}
        page == ScanPage(newest, shown, limit).page
    IN  [page |-> page, more |-> Len(page) = limit]

\* Fault: the cursor is inclusive.
HomeTimelineInclusive(log, edges, user, limit, cursor) ==
    LET newest == Reverse(log)
        shown == {i \in DOMAIN newest :
                    /\ cursor > 0 => newest[i].id <= cursor
                    /\ newest[i].author = user \/ <<user, newest[i].author>> \in edges}
    IN  ScanPage(newest, shown, limit)

\* HomeTimeline walks the append-ordered log backwards, without sorting.
\* cursor <= 0 starts from the newest tweet; otherwise it is exclusive.
HomeTimeline(log, edges, user, limit, cursor) ==
    LET newest == Reverse(log)
        shown == {i \in DOMAIN newest :
                    /\ cursor > 0 => newest[i].id < cursor
                    /\ newest[i].author = user \/ <<user, newest[i].author>> \in edges}
    IN  ScanPage(newest, shown, limit)

\* The guard of PutTweet: an append must keep ids strictly increasing and
\* stamps non-decreasing.
AcceptsTweet(log, t) ==
    log # << >> => LET latest == log[Len(log)]
                   IN  t.id > latest.id /\ t.createdAt >= latest.createdAt

IsMonotoneLog(log) ==
    \A i \in 2..Len(log) : /\ log[i].id > log[i - 1].id
                           /\ log[i].createdAt >= log[i - 1].createdAt

\* A stable sort.  `less` holds the pairs of positions of which the first has
\* the smaller key; a position's rank is the number of those that go before it.
Ahead(less, j, i) == <<j, i>> \in less \/ (j < i /\ <<i, j>> \notin less)
Rank(log, less, i) == Cardinality({j \in DOMAIN log : Ahead(less, j, i)})
StableSort(log, less) ==
    [k \in DOMAIN log |-> log[CHOOSE i \in DOMAIN log : Rank(log, less, i) = k - 1]]

SmallerID(log) == {p \in (DOMAIN log) \X (DOMAIN log) : log[p[1]].id < log[p[2]].id}
SortLogByID(log) == StableSort(log, SmallerID(log))
=============================================================================
