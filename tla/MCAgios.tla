------------------------------ MODULE MCAgios ------------------------------
(* The values the configurations give to the constants of Agios.           *)
EXTENDS Agios, TLC

\* One file per hashtable line.
MCLineOf == [f \in Files |-> f - 1]

\* Queue 0 sends two requests in a turn, queue 1 needs two turns for one.
MCWeight == [i \in QueueIds |-> IF i = 0 THEN 2 ELSE 1]

Arg(f, t, o, l, i) == [queue |-> <<f, t>>, offset |-> o, len |-> l, queue_id |-> i]

\* Two files, nothing to aggregate.
TwoFiles == {Arg(1, RT_READ, 0, 1, 0), Arg(2, RT_WRITE, 0, 2, 1)}

\* Extents of one queue that touch and do not overlap, and one of
\* another file that would touch them.
Contiguous == {Arg(1, RT_READ, 0, 1, 0), Arg(1, RT_READ, 1, 2, 1), Arg(1, RT_READ, 3, 1, 0),
               Arg(2, RT_WRITE, 4, 2, 1)}

\* Extents of one queue of which the second fills the gap between the others.
Gap == {Arg(1, RT_READ, 0, 1, 0), Arg(1, RT_READ, 1, 2, 1), Arg(1, RT_READ, 3, 1, 0)}
TwoFilesOrGap == TwoFiles \cup Gap

\* Requests that make a file wait: some that aggregate and some further on.
Further == {Arg(1, RT_READ, 0, 1, 0), Arg(1, RT_READ, 3, 1, 0)}

\* The same extent of two files.
SameExtent == {Arg(1, RT_READ, 0, 1, 0), Arg(2, RT_READ, 0, 1, 0)}

\* Beside others, a request for no bytes.
WithEmpty == Contiguous \cup {Arg(2, RT_READ, 7, 0, 0)}

Symmetry == Permutations(Reqs)

\* Requests are numbers, of which the first ones have the lower offsets: of
\* behaviours that only differ in the names of the requests, one is enough, and
\* TLC's symmetry is not sound for liveness.
OrderedInit == LibraryInit /\ \A r, s \in Reqs : r < s => data[r].offset <= data[s].offset
OrderedSpec == OrderedInit /\ [][Next]_vars /\ Fairness

\* Requests of two files, or one for each extent of Gap.
GapInit == /\ OrderedInit
           /\ \/ \A r \in Reqs : data[r] \in TwoFiles
              \/ \A a \in Gap : \E r \in Reqs : data[r] = a
GapSpec == GapInit /\ [][Next]_vars /\ Fairness
=============================================================================
