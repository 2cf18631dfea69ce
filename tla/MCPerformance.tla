--------------------------- MODULE MCPerformance ---------------------------
(* The values the configuration gives to the constants of Performance.     *)
EXTENDS Performance, TLC

\* Lengths whose bandwidths differ whenever they are released.
MCLen == [r \in Reqs |-> IF r = 1 THEN 40 ELSE IF r = 2 THEN 13 ELSE 0]
=============================================================================
