--------------------------------- MODULE Tour ----------------------------------
(***************************************************************************)
(* _tour and _two_opt: the order in which one day's places are visited.     *)
(* A nearest-neighbour path from the first place, then reversals of         *)
(* segments as long as they shorten it.  The path is open: it does not      *)
(* return to its start.                                                     *)
(*                                                                         *)
(* A place is its position in the day's list, km[p][q] the straight         *)
(* distance between two of them.                                            *)
(***************************************************************************)
EXTENDS Integers, Sequences, FiniteSets, Functions, Lists

(* Bound of the sweeps of _two_opt.                                         *)
MaxRounds == 20

(* The path grows by min(remaining, key=...), the first of the nearest.     *)
NearestNeighbour(km, n) ==
  LET Rest(path) == (1 .. n) \ Range(path)
      Nearest(path) == LeastOf(Rest(path), [q \in Rest(path) |-> km[path[Len(path)]][q]])
  IN Loop([m \in 2 .. n |-> [path \in Seq(1 .. n) |-> Append(path, Nearest(path))]],
          <<1>>, 2, n)

(* The edges i and k are replaced by reversing what lies between them.  The *)
(* last place of the open path has no edge behind it.                       *)
Improves(km, t, i, k) ==
  LET Behind(p) == IF k < Len(t) THEN km[p][t[k + 1]] ELSE 0
  IN km[t[i]][t[k]] + Behind(t[i + 1]) < km[t[i]][t[i + 1]] + Behind(t[k])

(* Mutant: the slice loses its last place.                                  *)
ReverseShort(t, i, k) ==
  [m \in DOMAIN t |-> IF m \in i + 1 .. k - 1 THEN t[i + k - m] ELSE t[m]]

(* Mutant: the slice is copied over itself shifted by one.                  *)
ReverseShifted(t, i, k) ==
  [m \in DOMAIN t |-> IF m \in i + 1 .. k THEN t[i + k - m] ELSE t[m]]

ReverseBetween(t, i, k) ==
  [m \in DOMAIN t |-> IF m \in i + 1 .. k THEN t[i + 1 + k - m] ELSE t[m]]

(* The inner loop: the edge i against every later one.                      *)
SweepFrom(km, i, t) ==
  Loop([k \in i + 2 .. Len(t) |-> [u \in Seq(DOMAIN t) |->
          IF Improves(km, u, i, k) THEN ReverseBetween(u, i, k) ELSE u]],
       t, i + 2, Len(t))

(* One round over all pairs of edges; the tour changes under the loops.     *)
Sweep(km, t) ==
  Loop([i \in 1 .. Len(t) - 2 |-> [u \in Seq(DOMAIN t) |-> SweepFrom(km, i, u)]],
       t, 1, Len(t) - 2)

(* A round without improvement leaves the tour alone, and so would all the  *)
(* rounds after it: the break of the loop needs no case of its own.         *)
TwoOpt(km, t) ==
  Loop([round \in 1 .. MaxRounds |-> [u \in Seq(DOMAIN t) |-> Sweep(km, u)]],
       t, 1, MaxRounds)

TourOf(km, n) ==
  IF n <= 2 THEN [p \in 1 .. n |-> p] ELSE TwoOpt(km, NearestNeighbour(km, n))
================================================================================
