---------------------------------- MODULE Sums ----------------------------------
(* Sums of a function's values, for the totals that counters are compared to. *)
EXTENDS FiniteSetsExt

\* The sum of f's values on the finite set S.
Total(f, S) == MapThenSumSet(LAMBDA x : f[x], S)

=============================================================================
