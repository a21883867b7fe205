------------------------------ MODULE Itinerary --------------------------------
(***************************************************************************)
(* From verified places to a timed itinerary: the nodes recommend_route,    *)
(* build_timeline and fit_time_budget, run in this order on one job's       *)
(* state.  The map is any: a distance for every two positions, and the      *)
(* minutes that the request's mobility makes of it.                         *)
(*                                                                         *)
(* place_id is the position of the place in given.  hub's dwell estimates,  *)
(* its failure and the caller's choices are nondeterministic.               *)
(***************************************************************************)
EXTENDS Integers, Sequences, FiniteSets, Functions, Lists, Tour, Handover

CONSTANTS
  Map,           \* positions of places
  Straight,      \* straight distance of two positions, in any unit
  Ride,          \* its minutes at the speed of the mobility, rounded
  Given,         \* the lists of places recommend_route may be handed
  Stays,         \* dwell times hub may answer, in minutes
  Start, End,    \* the activity window of every day, minutes of the day
  Buffer,        \* TIMELINE_BUFFER_MINUTES
  Floor,         \* floor_min: stays are shortened down to this
  KeepMin        \* keep_min: so many places of a day survive trimming

ASSUME ItineraryAssumption ==
  /\ Start \in Nat /\ End \in Nat /\ Start < End
  /\ Buffer \in Nat /\ Floor \in Nat /\ KeepMin \in Nat \ {0}
  /\ Stays \subseteq Nat
  /\ {Straight, Ride} \subseteq [Map -> [Map -> Nat]]
  /\ Given \subseteq Seq([day : Nat \ {0}, at : Map, pinned : BOOLEAN])

VARIABLES
  node,       \* the next node of the graph
  stage,      \* request.stage
  optimize,   \* request.optimize
  enabled,    \* TIMELINE_ENABLED
  given,      \* the places recommend_route was handed, never changed
  places,     \* place ids of state["places"], in list order
  order,      \* state["visit_order"]
  legs,       \* state["legs"]
  stay,       \* stays of the timeline (empty: no timeline)
  timeline,   \* state["timeline"]: place id -> [start, end]
  overflow,   \* state["timeline_overflow_days"]
  status,     \* state["timeline_status"]
  failed      \* state["error"] is set

request == <<stage, optimize, enabled, given>>
route == <<places, order, legs>>
times == <<stay, timeline, overflow, status>>
vars == <<node, request, route, times, failed>>

--------------------------------------------------------------------------------
Km(p, q) == Straight[p.at][q.at]

Day(id) == given[id].day

Days == {Day(id) : id \in DOMAIN given}

PlacesOn(d) == {id \in DOMAIN given : Day(id) = d}

(* _tour(by_day[d]): the places of a day keep their list order before they  *)
(* are toured.                                                              *)
DayOrder(d) ==
  LET at == InOrder(PlacesOn(d))
      km == [p \in DOMAIN at |-> [q \in DOMAIN at |-> Km(given[at[p]], given[at[q]])]]
      tour == TourOf(km, Len(at))
  IN [n \in DOMAIN tour |-> at[tour[n]]]

(* _order_places: the days ascending, each with a tour of its own.          *)
OrderedByDay ==
  LET days == InOrder(Days)
  IN Loop([m \in DOMAIN days |-> [o \in Seq(DOMAIN given) |-> o \o DayOrder(days[m])]],
          << >>, 1, Len(days))

VisitOrder ==
  IF stage = "route" /\ ~optimize THEN [i \in DOMAIN given |-> i] ELSE OrderedByDay

(* _walk_minutes: at least one minute.                                      *)
Minutes(a, b) ==
  LET ride == Ride[given[a].at][given[b].at] IN IF ride < 1 THEN 1 ELSE ride

(* _rebuild_legs.  Every leg is computed from the two positions, so a leg   *)
(* that is reused is equal to one computed anew.                            *)
RebuildLegs(o) ==
  [i \in 1 .. Len(o) - 1 |-> [from |-> o[i], to |-> o[i + 1],
                              minutes |-> Minutes(o[i], o[i + 1])]]

(* _plan_timeline: the clock starts anew with every change of day and runs  *)
(* on by stay, travel and buffer within a day.                              *)
VisitStarts(o, l, s) ==
  Trace([i \in 2 .. Len(o) |-> [clock \in Int |->
           IF Day(o[i]) # Day(o[i - 1]) THEN Start
           ELSE clock + s[o[i - 1]] + l[i - 1].minutes + Buffer]],
        Start, 2, Len(o))

PlanTimeline(o, l, s) ==
  LET at == VisitStarts(o, l, s)
      Slot(i) == [start |-> at[i], end |-> at[i] + s[o[i]]]
  IN [id \in Range(o) |-> Slot(CHOOSE i \in DOMAIN o : o[i] = id)]

Overflowing(t) == {Day(id) : id \in {x \in DOMAIN t : t[x].end > End}}

(* The overflowing days of a trial order with trial stays.                  *)
Overflows(o, s) == Overflowing(PlanTimeline(o, RebuildLegs(o), s))
--------------------------------------------------------------------------------
(* The trimming of fit_time_budget.                                         *)

(* Mutant: all days are shortened, not only those that overflow.            *)
ShortenedEverywhere(s, days) ==
  [id \in DOMAIN s |-> IF s[id] > Floor THEN Floor ELSE s[id]]

Shortened(s, days) ==
  [id \in DOMAIN s |-> IF Day(id) \in days /\ s[id] > Floor THEN Floor ELSE s[id]]

(* Mutant: no place is protected.                                           *)
NoneProtected(id) == FALSE

(* pinned_content_ids: every kept place has an id, because verification     *)
(* takes its content_id from the source and refuses a candidate without.    *)
Protected(id) == given[id].pinned

(* The order without the dropped places.                                    *)
Without(o, dropped) == Sublist(o, {i \in DOMAIN o : o[i] \notin dropped})

(* day_order: where the places of the day are that are not dropped.         *)
Left(o, dropped, d) == {i \in DOMAIN o : Day(o[i]) = d /\ o[i] \notin dropped}

LastOf(at) == InOrder(at)[Cardinality(at)]

(* Mutant: the test for the minimum comes after the removal.                *)
TrimPassToOne(o, d, s, dropped) ==
  LET removable == {i \in Left(o, dropped, d) : ~Protected(o[i])}
  IN IF d \notin Overflows(Without(o, dropped), s) \/ removable = {}
     THEN dropped ELSE dropped \cup {o[LastOf(removable)]}

(* One pass of the loop over a day: stop when it fits, when KeepMin places  *)
(* are left or when all of them are protected, else drop the last place     *)
(* that is not.  A pass that stops drops nothing, and neither do the passes *)
(* after it: the breaks need no case of their own.                          *)
TrimPass(o, d, s, dropped) ==
  LET left == Left(o, dropped, d)
      removable == {i \in left : ~Protected(o[i])}
  IN IF d \notin Overflows(Without(o, dropped), s) \/ Cardinality(left) <= KeepMin \/ removable = {}
     THEN dropped
     ELSE dropped \cup {o[LastOf(removable)]}

TrimDay(o, d, s, dropped) ==
  LET passes == Cardinality(Left(o, dropped, d))
  IN Loop([pass \in 1 .. passes |-> [gone \in SUBSET DOMAIN given |-> TrimPass(o, d, s, gone)]],
          dropped, 1, passes)

(* The overflowing days are trimmed in the order in which they are visited. *)
Dropped(o, days, s) ==
  LET day == InOrder(days)
  IN Loop([m \in DOMAIN day |-> [gone \in SUBSET DOMAIN given |-> TrimDay(o, day[m], s, gone)]],
          {}, 1, Len(day))
--------------------------------------------------------------------------------
Init ==
  /\ stage \in {"init", "mode1", "route"}
  /\ optimize \in BOOLEAN
  /\ optimize => stage = "route"
  /\ enabled \in BOOLEAN
  /\ given \in {s \in Given : HandedOver(stage, s)}
  /\ node = "recommend_route"
  /\ places = [i \in DOMAIN given |-> i]
  /\ order = << >>
  /\ legs = << >>
  /\ stay = << >>
  /\ timeline = << >>
  /\ overflow = {}
  /\ status = "none"
  /\ failed = FALSE

RecommendRoute ==
  /\ node = "recommend_route"
  /\ node' = "build_timeline"
  /\ order' = VisitOrder
  /\ legs' = RebuildLegs(order')
  /\ UNCHANGED <<request, places, times, failed>>

(* TIMELINE_ENABLED is off, hub's answer fails, or the visits are timed.    *)
BuildTimeline ==
  /\ node = "build_timeline"
  /\ node' = "fit_time_budget"
  /\ UNCHANGED <<request, route, failed>>
  /\ \/ /\ ~enabled
        /\ UNCHANGED times
     \/ /\ enabled
        /\ status' = "unverified"
        /\ UNCHANGED <<stay, timeline, overflow>>
     \/ /\ enabled
        /\ stay' \in [DOMAIN given -> Stays]
        /\ timeline' = PlanTimeline(order, legs, stay')
        /\ overflow' = Overflowing(timeline')
        /\ status' = "ok"

(* Mutant: the last timing walks the legs of the untrimmed order.           *)
FitTrimsStaleLegs ==
  LET s == Shortened(stay, overflow)
      dropped == Dropped(order, overflow, s)
      o == Without(order, dropped)
      t == PlanTimeline(o, legs, s)
  IN /\ order' = o
     /\ places' = Without(places, dropped)
     /\ legs' = RebuildLegs(o)
     /\ overflow' = {} /\ status' = "trimmed"
     /\ timeline' = t /\ stay' = [id \in DOMAIN t |-> s[id]]
     /\ UNCHANGED failed

(* Mutant: the dropped places stay in state["places"].                      *)
FitTrimsOrderOnly ==
  LET s == Shortened(stay, overflow)
      dropped == Dropped(order, overflow, s)
      o == Without(order, dropped)
      t == PlanTimeline(o, RebuildLegs(o), s)
  IN /\ order' = o
     /\ legs' = RebuildLegs(o)
     /\ overflow' = {} /\ status' = "trimmed"
     /\ timeline' = t /\ stay' = [id \in DOMAIN t |-> s[id]]
     /\ UNCHANGED <<places, failed>>

(* The days are shortened, trimmed and timed again; a day that still does   *)
(* not fit fails the job.                                                   *)
FitTrims ==
  LET s == Shortened(stay, overflow)
      dropped == Dropped(order, overflow, s)
      o == Without(order, dropped)
      t == PlanTimeline(o, RebuildLegs(o), s)
  IN /\ order' = o
     /\ places' = Without(places, dropped)
     /\ legs' = RebuildLegs(o)
     /\ overflow' = Overflowing(t)
     /\ IF overflow' = {}
        THEN /\ timeline' = t
             /\ stay' = [id \in DOMAIN t |-> s[id]]
             /\ status' = "trimmed"
             /\ UNCHANGED failed
        ELSE /\ failed' = TRUE
             /\ status' = "unverified"
             /\ UNCHANGED <<timeline, stay>>

(* Mutant: the route is handed on with the days that do not fit.            *)
FitLetsPass ==
  /\ status' = "unverified"
  /\ UNCHANGED <<route, stay, timeline, overflow, failed>>

(* A selection of the caller's own is never cut down to fit the day.        *)
FitRefuses ==
  /\ failed' = TRUE
  /\ status' = "unverified"
  /\ UNCHANGED <<route, stay, timeline, overflow>>

FitTimeBudget ==
  /\ node = "fit_time_budget"
  /\ node' = "end"
  /\ UNCHANGED request
  /\ \/ overflow = {} /\ UNCHANGED <<route, times, failed>>
     \/ overflow # {} /\ stage = "route" /\ FitRefuses
     \/ overflow # {} /\ stage # "route" /\ FitTrims

Next == RecommendRoute \/ BuildTimeline \/ FitTimeBudget

Spec == Init /\ [][Next]_vars
--------------------------------------------------------------------------------
Done == node = "end" /\ ~failed

TypeOK ==
  /\ node \in {"recommend_route", "build_timeline", "fit_time_budget", "end"}
  /\ Range(places) \subseteq DOMAIN given
  /\ Range(order) \subseteq DOMAIN given
  /\ DOMAIN timeline = DOMAIN stay
  /\ status \in {"none", "ok", "trimmed", "unverified"}
  /\ overflow \subseteq Days
  /\ failed \in BOOLEAN

(* places, visit_order, legs and timeline speak about the same places even  *)
(* after fit_time_budget dropped some: the order is a permutation of the    *)
(* places with the days ascending, legs[i] leads from order[i] to           *)
(* order[i + 1], and a timed itinerary times every place it keeps.          *)
Consistent ==
  Done =>
    /\ IsInjective(order) /\ Range(order) = Range(places)
    /\ Len(order) = Len(places)
    /\ \A i, k \in DOMAIN order : i < k => Day(order[i]) <= Day(order[k])
    /\ Len(legs) = Len(order) - 1
    /\ \A i \in DOMAIN legs : legs[i].from = order[i] /\ legs[i].to = order[i + 1]
    /\ status \in {"ok", "trimmed"} => DOMAIN timeline = Range(places)

(* A timeline that is announced as ok or trimmed can be walked: every visit *)
(* lies in the activity window, and from one visit to the next of the same  *)
(* day there is time for the way and the buffer.                            *)
Walkable ==
  Done /\ status \in {"ok", "trimmed"} =>
    \A a, b \in DOMAIN timeline :
      /\ Start <= timeline[a].start /\ timeline[a].end <= End
      /\ timeline[a].end = timeline[a].start + stay[a]
      /\ a # b /\ Day(a) = Day(b) /\ timeline[a].start <= timeline[b].start =>
           timeline[a].end + Buffer + 1 <= timeline[b].start
      /\ \A i \in DOMAIN legs :
           legs[i].from = a /\ legs[i].to = b /\ Day(a) = Day(b) =>
             timeline[b].start - timeline[a].end = legs[i].minutes + Buffer

(* The caller's places survive: all of them, in the caller's order unless   *)
(* optimize was asked for, when only a route was wanted, and every kept     *)
(* place hub knows by a content_id in a new search.                         *)
CallersPlacesKept ==
  Done =>
    /\ \A id \in DOMAIN given : stage = "route" \/ given[id].pinned => id \in Range(places)
    /\ stage = "route" /\ ~optimize => order = [i \in DOMAIN given |-> i]

(* Every stay shortened to the floor.                                       *)
Short == [id \in DOMAIN given |-> Floor]

(* Only what does not fit is cut.  A day that fits as hub timed it keeps    *)
(* its places and stays; a day loses a place only if it overflows with      *)
(* every stay shortened; no day is left with fewer than KeepMin places of   *)
(* those it had.                                                            *)
TrimsOnlyWhatOverflows ==
  Done /\ status = "trimmed" =>
    \A d \in Days :
      LET has == PlacesOn(d) \cap Range(places)
      IN /\ Cardinality(has) >= KeepMin \/ has = PlacesOn(d)
         /\ has # PlacesOn(d) => d \in Overflows(OrderedByDay, Short)

(* A day that fitted as hub timed it is not touched by the trimming of      *)
(* another.                                                                 *)
FittingDaysUntouched ==
  [][\A d \in Days : node = "fit_time_budget" /\ d \notin overflow =>
       \A id \in DOMAIN timeline : Day(id) = d =>
         /\ id \in Range(places')
         /\ ~failed' => timeline'[id] = timeline[id]]_vars
--------------------------------------------------------------------------------
(* What the control of the job, module Pipeline, sees of these nodes: which *)
(* keys of the state are set and not empty.                                 *)
NextInGraph ==
  IF node # "end" THEN node
  ELSE IF failed \/ stage = "route" THEN "build_payload" ELSE "llm_reason"

Announced ==
  (IF status = "none" THEN {} ELSE {"opening_hours"})
    \cup (IF status = "trimmed" THEN {"trimmed"} ELSE {})

Control(timelineEnabled) ==
  INSTANCE Pipeline WITH
    MaxCalls <- 0, RulesEnabled <- FALSE, TimelineEnabled <- timelineEnabled,
    node <- NextInGraph, kept <- FALSE, forecast <- "all",
    error <- IF failed THEN "invalid_request" ELSE "none",
    grounded <- TRUE, candidates <- TRUE, places <- places # << >>,
    routed <- order # << >>, overflow <- overflow # {}, timing <- status,
    calls <- 0, ask <- [who |-> "nobody", attempt |-> 0],
    reasons <- "none", degraded <- "none", warnings <- Announced, outcome <- "running"

(* However the places are ordered, timed and trimmed, every step is one the *)
(* control of the job allows for: places and visit_order are never emptied, *)
(* a trimmed timetable has no overflow left and is announced as trimmed, and*)
(* a day that cannot be made to fit ends the job with an error.             *)
FollowsControl ==
  [][IF enabled THEN Control(TRUE)!Next ELSE Control(FALSE)!Next]_vars
================================================================================
