------------------------------- MODULE Handover --------------------------------
(***************************************************************************)
(* What recommend_route may count on: the list of places that load_given_   *)
(* places or recommend_places hands over.  Itinerary assumes it, Selection  *)
(* shows that recommend_places keeps it.  A place has a day and is pinned   *)
(* when its content_id is one of state["pinned_content_ids"].               *)
(***************************************************************************)
EXTENDS Integers, Sequences

Ascending(s) == \A i, k \in DOMAIN s : i < k => s[i].day <= s[k].day

Covered(s) ==
  \A i \in DOMAIN s : \A d \in 1 .. s[i].day : \E k \in DOMAIN s : s[k].day = d

NonePinned(s) == \A i \in DOMAIN s : ~s[i].pinned

(* stage route: parse_input insists on ascending days, every place is the   *)
(* caller's.  stage init: select sorts by day and covers every day.  stage  *)
(* mode1: the kept places merged with new ones and sorted by day (kept ones *)
(* first), or, when they already fill every day's target, only the kept     *)
(* ones in the caller's order; with nothing to keep, mode1 is like init.    *)
HandedOver(stage, s) ==
  /\ Len(s) >= 2
  /\ \/ stage = "route" /\ Ascending(s) /\ NonePinned(s)
     \/ stage = "init" /\ Ascending(s) /\ Covered(s) /\ NonePinned(s)
     \/ /\ stage = "mode1" /\ Ascending(s) /\ Covered(s)
        /\ \A i, k \in DOMAIN s :
             i < k /\ s[i].day = s[k].day /\ s[k].pinned => s[i].pinned
     \/ stage = "mode1" /\ Covered(s) /\ \A i \in DOMAIN s : s[i].pinned
================================================================================
