-------------------------------- MODULE Sums --------------------------------
(* Sums of a function's values, as first-order operators one can prove about. *)
EXTENDS FiniteSetsExt

\* The sum of f[x] over the x in S.
SumOver(f, S) == MapThenSumSet(LAMBDA x : f[x], S)
=============================================================================
