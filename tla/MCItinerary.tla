------------------------------ MODULE MCItinerary ------------------------------
(* TLC instance of Itinerary: all short lists of places on a line where a   *)
(* unit takes a minute.  The simplest of its starts also carries the grids  *)
(* of MCTour, whose orders are checked before recommend_route runs.         *)
EXTENDS Itinerary, MCTour

CONSTANTS MaxPlaces, MaxDay

PlaceRecords == [day : 1 .. MaxDay, at : Map, pinned : BOOLEAN]

Line == [p \in Map |-> [q \in Map |-> Distance(p, q)]]

GivenLists == UNION {[1 .. n -> PlaceRecords] : n \in 2 .. MaxPlaces}

OneSpot == [i \in 1 .. 2 |-> [day |-> 1, at |-> 0, pinned |-> FALSE]]

CarriesGrids == given = OneSpot /\ stage = "init" /\ ~enabled

MCInit ==
  /\ Init
  /\ placement \in {<< >>} \cup IF CarriesGrids THEN Placements ELSE {}

MCNext == placement = << >> /\ Next /\ UNCHANGED placement

MCSpec == MCInit /\ [][MCNext]_<<vars, placement>>
================================================================================
