-------------------------------- MODULE Sums --------------------------------
(***************************************************************************)
(* Sums over the first n values of an integer function on the naturals,    *)
(* as a recursive function, so that facts about them can be proved.        *)
(***************************************************************************)
EXTENDS Integers

\* SumTo(f)[n] = f[0] + ... + f[n-1].
SumTo(f) ==
  LET sum[n \in Nat] == IF n = 0 THEN 0 ELSE sum[n - 1] + f[n - 1]
  IN  sum
=============================================================================
