---------------------------------- MODULE Lists ---------------------------------
(***************************************************************************)
(* What Python's lists do for the nodes of the graph: sorted with a key, a  *)
(* comprehension with a condition, a loop over a range.  Positions count    *)
(* from 1.  All of it is by functions and cardinalities, so that it can be  *)
(* reasoned about for lists of any length.                                  *)
(***************************************************************************)
EXTENDS Integers, Sequences, FiniteSets

(* How many of the positions in at do not come behind i when they are       *)
(* sorted by key; equal keys keep their order, for sorted is stable.        *)
Rank(at, key, i) ==
  Cardinality({k \in at : key[k] < key[i] \/ (key[k] = key[i] /\ k <= i)})

(* sorted(at, key=key.get)                                                  *)
Sorted(at, key) ==
  [n \in 1 .. Cardinality(at) |-> CHOOSE i \in at : Rank(at, key, i) = n]

InOrder(at) == Sorted(at, [i \in at |-> i])

(* min(at, key=key.get): the first of the least.                            *)
LeastOf(at, key) == CHOOSE i \in at : Rank(at, key, i) = 1

(* sorted(s, key=...) where key gives the key of each position.             *)
SortedList(s, key) == LET at == Sorted(DOMAIN s, key) IN [n \in DOMAIN at |-> s[at[n]]]

(* [s[i] for i in range(len(s)) if i in keep]                               *)
Sublist(s, keep) == LET at == InOrder(keep) IN [n \in DOMAIN at |-> s[at[n]]]

(* The first n of the positions in at.                                      *)
FirstOf(at, n) == {i \in at : Cardinality({k \in at : k <= i}) <= n}

(* for i in first .. last: x = step[i][x].  Trace[i] is x after the turn    *)
(* for i, Trace[first - 1] what the loop starts from.                       *)
Trace(step, x, first, last) ==
  LET after[i \in first - 1 .. last] ==
        IF i = first - 1 THEN x ELSE step[i][after[i - 1]]
  IN after

Loop(step, x, first, last) == Trace(step, x, first, last)[last]
================================================================================
