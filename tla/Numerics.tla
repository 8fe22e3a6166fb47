------------------------------ MODULE Numerics -------------------------------
(***************************************************************************)
(* The sums and order statistics that the tools share.  Values are         *)
(* integers, so a sum does not depend on the order of its terms; which     *)
(* terms it takes is what is kept.                                         *)
(***************************************************************************)
EXTENDS Integers, Sequences, FiniteSets, SequencesExt

\* The sums of the first n values, for every n.
Sums(values) ==
  LET sum[n \in 0 .. Len(values)] == IF n = 0 THEN 0 ELSE sum[n - 1] + values[n]
  IN  sum

Under(values, v) == {i \in DOMAIN values : values[i] < v}

UpTo(values, v) == {i \in DOMAIN values : values[i] <= v}

\* nth_element: what would stand at position n if the values were sorted.
Nth(values, n) ==
  CHOOSE v \in Range(values) : /\ Cardinality(Under(values, v)) < n
                               /\ n <= Cardinality(UpTo(values, v))
=============================================================================
