--------------------------- MODULE ExecProperties ---------------------------
(* What is claimed of UnifiedExec.tla.                                      *)
EXTENDS UnifiedExec

\* f[1] + ... + f[n]
SumTo(f, n) ==
  LET sum[k \in 0 .. n] == IF k = 0 THEN 0 ELSE sum[k - 1] + f[k] IN sum[n]

\* The characters that went into the replies about s before the k-th.
Before(s, k) == SumTo([n \in DOMAIN replies[s] |-> replies[s][n].total], k - 1)

Positions(from, to) == [i \in 1 .. to - from |-> from + i]

\* The reply shows what came from position `from' to position `to': all of it,
\* or a beginning and an end of it.
Shows(kept, from, to) ==
  \E h \in 0 .. Len(kept) :
    kept = Positions(from, from + h) \o Positions(to - (Len(kept) - h), to)

Says(s, what) == replies[s] # <<>> /\ Last(replies[s]).says = what

-----------------------------------------------------------------------------
\* Each reply reports what arrived since the last one, within the budget, and
\* the replies together account for every character read: none is reported
\* twice, none falls between two calls, and what is left out is counted.
RepliesAccount ==
  \A s \in Ids :
    /\ \A k \in DOMAIN replies[s] : LET r == replies[s][k] IN
         /\ Shows(r.kept, Before(s, k), Before(s, k) + r.total)
         /\ Len(r.kept) <= MaxChars
    /\ current # s => Before(s, Len(replies[s]) + 1) = taken[s]

\* Between calls the model and the manager agree: a session is open exactly if
\* the last reply gave its id (or close_all was called); after an exit code it
\* is closed, its process reaped, and no reply follows.
HandlesAgree ==
  \A s \in Ids \ {current} :
    /\ s \in sessions <=> Says(s, "running") /\ ~closed[s]
    /\ Says(s, "exited") => closed[s] /\ shell[s] = "reaped"
    /\ \A k \in DOMAIN replies[s] : replies[s][k].says = "exited" => k = Len(replies[s])

=============================================================================
