---------------------------- MODULE MCLifecycle ----------------------------
(* The values the configurations give to the constants of Lifecycle.       *)
EXTENDS Lifecycle, TLC

MCLine == [r \in Reqs |-> IF r = 1 THEN 1 ELSE IF r = 2 THEN 2 ELSE 3]

File(trace, alg) ==
  [readable |-> TRUE, unknown |-> "none", trace |-> trace, alg |-> alg, weights |-> TRUE]
Good       == {File(trace, alg) : trace \in BOOLEAN, alg \in Algorithms}
Unreadable == [File(FALSE, "SJF") EXCEPT !.readable = FALSE]
NoWeights  == [File(FALSE, "WFQ") EXCEPT !.weights = FALSE]
Unknown    == {[File(FALSE, "WFQ") EXCEPT !.unknown = name] :
                 name \in {"default_algorithm", "starting_algorithm"}}

\* A call that fails, or is given no file, and calls that try again.
Retries == <<Good \cup Unknown \cup {Unreadable, NoWeights}, Good, Good>>

\* Two lives of the library with one file that is right.
Lives == <<{File(FALSE, "SJF")}, {File(FALSE, "SJF")}>>
=============================================================================
