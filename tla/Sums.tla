---------------------------------- MODULE Sums ----------------------------------
(***************************************************************************)
(* The sums of the solvers, sum() over a list or LP constraints over their *)
(* terms, as totals of a function over a set of its arguments.             *)
(***************************************************************************)
EXTENDS Integers, FiniteSetsExt

\* sum(f[k] for k in S)
Total(f, S) == MapThenSumSet(LAMBDA k : f[k], S)

\* The values that a += f[k] gives a variable a over a loop, from a = 0 on.
Accumulated(f, n) ==
  LET a[k \in 0..n] == IF k = 0 THEN 0 ELSE a[k - 1] + f[k] IN a

=============================================================================
