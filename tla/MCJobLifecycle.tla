--------------------------- MODULE MCJobLifecycle ------------------------------
(* TLC instances of JobLifecycle: the jobs are interchangeable.             *)
EXTENDS JobLifecycle, TLC

Symmetry == Permutations(Jobs)
================================================================================
