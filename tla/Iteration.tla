------------------------------ MODULE Iteration ------------------------------
(***************************************************************************)
(* What loops compute: n rounds of a step function from s, and the sum     *)
(* f[1] + ... + f[n].  Both are recursive functions, not RECURSIVE         *)
(* operators, so that theorems can be proved about them.                   *)
(***************************************************************************)
EXTENDS Naturals

Iterate(step, s, n) ==
  LET it[i \in Nat] == IF i = 0 THEN s ELSE step[it[i - 1]]
  IN  it[n]

SumTo(f, n) ==
  LET sum[i \in Nat] == IF i = 0 THEN 0 ELSE sum[i - 1] + f[i]
  IN  sum[n]

=============================================================================
