---------------------------- MODULE MCStatistics ----------------------------
(* The values the configuration gives to the constants of Statistics.      *)
EXTENDS Statistics, TLC

\* Three requests for one queue, in no order of their offsets, and another.
MCQueue  == [r \in Reqs |-> IF r = 4 THEN "writes" ELSE "reads"]
MCOffset == [r \in Reqs |-> CASE r = 1 -> 0 [] r = 2 -> 9 [] OTHER -> 4]
MCLen    == [r \in Reqs |-> CASE r = 1 -> 20 [] r = 2 -> 3 [] OTHER -> 7]
=============================================================================
