------------------------------ MODULE Averages ------------------------------
(* The running averages of common_functions.c.                             *)
EXTENDS Integers

\* Division of C, towards zero.
Quotient(a, b) == IF a >= 0 THEN a \div b ELSE - ((- a) \div b)

\* Mutant: the average so far is not subtracted.
update_iterative_average_Adds(avg, value, count) ==
  IF count = 1 THEN value ELSE avg + Quotient(value, count)

\* Mutant: the difference is taken the wrong way round.
update_iterative_average_Reversed(avg, value, count) ==
  IF count = 1 THEN value ELSE avg + Quotient(avg - value, count)

update_iterative_average(avg, value, count) ==
  IF count = 1 THEN value ELSE avg + Quotient(value - avg, count)

\* Some of the values are not above avg, some not below.
InRangeOf(avg, values) ==
  (\E v \in values : v <= avg) /\ (\E v \in values : avg <= v)
=============================================================================
