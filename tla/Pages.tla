------------------------------- MODULE Pages -------------------------------
(***************************************************************************)
(* How a timeline is cut out of the log, newest first.  Kept is the whole  *)
(* timeline, and says which page is meant; ScanPage is the loop every      *)
(* corner runs, which stops at the first tweet that no longer fits.  Both  *)
(* take the positions of the tweets the reader may see as a set.           *)
(***************************************************************************)
EXTENDS Integers, Sequences

\* The entries of s at the positions in the set shown, in the order of s.
Kept(s, shown) ==
    LET upto[k \in 0..Len(s)] ==
            IF k = 0 THEN << >>
            ELSE IF k \in shown THEN Append(upto[k - 1], s[k]) ELSE upto[k - 1]
    IN  upto[Len(s)]

\* The page the scan has filled, and whether it met a tweet that did not fit.
ScanPage(s, shown, limit) ==
    LET scan[k \in 0..Len(s)] ==
            IF k = 0 THEN [page |-> << >>, more |-> FALSE]
            ELSE LET before == scan[k - 1]
                 IN  IF before.more \/ k \notin shown THEN before
                     ELSE IF Len(before.page) = limit THEN [before EXCEPT !.more = TRUE]
                     ELSE [before EXCEPT !.page = Append(@, s[k])]
    IN  scan[Len(s)]
=============================================================================
