-------------------------------- MODULE MCTour ---------------------------------
(* The order of one day's places, tried on every placement of Size distinct *)
(* places on a small grid.                                                  *)
EXTENDS Tour

CONSTANTS Width, Size

ASSUME GridAssumption == Width \in Nat /\ Size \in Nat \ {0}

VARIABLE placement  \* the places of one day, in list order; or << >>

Distance(m, n) == IF m < n THEN n - m ELSE m - n

Grid == (0 .. Width - 1) \X (0 .. Width - 1)

CityBlocks(p, q) == Distance(p[1], q[1]) + Distance(p[2], q[2])

Placements == {s \in [1 .. Size -> Grid] : Cardinality({s[i] : i \in 1 .. Size}) = Size}

Blocks == [p \in 1 .. Size |-> [q \in 1 .. Size |-> CityBlocks(placement[p], placement[q])]]

(* _tour never loses or repeats a place and starts at the first place, the  *)
(* best scored one, although _two_opt rewrites slices of the list in place. *)
TourVisitsAll ==
  placement # << >> =>
    LET tour == TourOf(Blocks, Size)
    IN /\ Len(tour) = Size
       /\ {tour[i] : i \in DOMAIN tour} = 1 .. Size
       /\ tour[1] = 1

(* _two_opt really stops at a tour no reversal shortens: rounds that change *)
(* the tour under the running loops do not leave an improvement behind, and *)
(* the bound on the rounds is not what ends it.                             *)
NoImprovingReversal ==
  placement # << >> =>
    LET tour == TourOf(Blocks, Size)
    IN \A i, k \in DOMAIN tour : i + 2 <= k => ~Improves(Blocks, tour, i, k)
================================================================================
