------------------------------ MODULE Goroutines ------------------------------
(***************************************************************************)
(* Goroutines of one kind are interchangeable: what matters is how many of *)
(* them stand at each program point.  A population is a function from      *)
(* program points to counts.                                               *)
(***************************************************************************)
EXTENDS Naturals

(* Some goroutine stands at point p. *)
Present(pop, p) == pop[p] > 0

(* A go statement: one more goroutine at point p. *)
Spawn(pop, p) == [pop EXCEPT ![p] = @ + 1]

(* A goroutine standing at point p returns. *)
Exit(pop, p) == [pop EXCEPT ![p] = @ - 1]

(* A goroutine proceeds from point p to another point q. *)
Move(pop, p, q) == [pop EXCEPT ![p] = @ - 1, ![q] = @ + 1]
===============================================================================
