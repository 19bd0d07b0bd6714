-------------------------- MODULE MCDurableRuntime --------------------------
(* Instances of DurableRuntime for TLC.  Pods, ids and requests are          *)
(* interchangeable: the code never compares them other than for equality.    *)
EXTENDS DurableRuntime, TLC

CONSTANTS p1, p2, i1, i2, s1, r1, r2

Symmetry ==
  {p @@ i @@ r : p \in Permutations({p1, p2}), i \in Permutations({i1, i2}),
                 r \in Permutations({r1, r2})}
=============================================================================
