------------------------------- MODULE Selection -------------------------------
(***************************************************************************)
(* The places of an itinerary: search_places, rules_filter, score_and_rank  *)
(* and recommend_places, run in this order on the state of one job whose    *)
(* stage is init or mode1.                                                  *)
(*                                                                         *)
(* A candidate is its content_id (NoId: it has none, so that it cannot      *)
(* become a place) and whether its category counts as indoor.  The answers  *)
(* of hub and Gemini and what the request holds are chosen where they are   *)
(* first read.  A pinned place is what verification made of a place of the  *)
(* request: its source's content_id and the caller's day.                   *)
(***************************************************************************)
EXTENDS Integers, Sequences, FiniteSets, Lists, Handover

CONSTANTS
  NumDays,       \* days of the trip
  ActiveMinutes, \* from time_start to time_end
  MaxBase,       \* CANDIDATES_MAX_BASE
  PerDay,        \* CANDIDATES_PER_DAY
  Found,         \* what the searches of all themes may return, one list
  Excludes,      \* values of request.exclude
  Pins,          \* lists of verified places to keep
  Scores,        \* scores hub may give, in hundredths
  Answers,       \* selections of the model: lists of an index and a day
  NoId

ASSUME SelectionAssumption ==
  /\ {NumDays, ActiveMinutes} \subseteq Nat \ {0}
  /\ {MaxBase, PerDay} \subseteq Nat
  /\ NoId \in Int
  /\ Found \subseteq Seq([id : Int, indoor : BOOLEAN])
  /\ Pins \subseteq Seq([id : Int \ {NoId}, day : 1 .. NumDays])
  /\ Scores \subseteq Int
  /\ Answers \subseteq Seq([index : Int, day : Int])

VARIABLES
  node,        \* the next node of the graph
  stage,       \* request.stage
  exclude,     \* request.exclude
  candidates,  \* state["candidates"]
  pinned,      \* the verified places of the request
  targets,     \* state["plan"]: day -> target_stops
  places,      \* state["places"]
  failed       \* state["error"] is set

vars == <<node, stage, exclude, candidates, pinned, targets, places, failed>>

TripDays == 1 .. NumDays

Larger(a, b) == IF a >= b THEN a ELSE b

Smaller(a, b) == IF a <= b THEN a ELSE b

(* _target_stops: a place for every 100 minutes, from 2 to 5 a day.         *)
TargetStops == Larger(2, Smaller(5, ActiveMinutes \div 100))

(* _candidate_limit: what the prompt may hold.                              *)
Limit == Larger(MaxBase, NumDays * PerDay)

Ids(s) == {s[i].id : i \in DOMAIN s}

OnDay(s, d) == {i \in DOMAIN s : s[i].day = d}

--------------------------------------------------------------------------------
(* Mutant: the themes' answers are joined as they are.                      *)
MergeAsIs(found) == found

(* _merge_place_results: the first candidate of each content_id; one        *)
(* without passes.                                                          *)
MergePlaceResults(found) ==
  Sublist(found, {i \in DOMAIN found :
                    \/ found[i].id = NoId
                    \/ \A k \in 1 .. i - 1 : found[k].id # found[i].id})

(* The score, or the decay by rank that base_score starts from.             *)
Key(c, i, scored) == IF c.id \in DOMAIN scored THEN scored[c.id] ELSE 101 - i

(* The highest first, equal ones in their order.                            *)
Ranked(s, scored) == SortedList(s, [i \in DOMAIN s |-> -Key(s[i], i, scored)])

(* Mutant: the best ones, indoor or not.                                    *)
CapFront(s) == Sublist(s, FirstOf(DOMAIN s, Limit))

(* _cap_candidates: half of the places for indoor candidates, the others    *)
(* for outdoor ones, and what these leave for indoor ones again.            *)
CapCandidates(s) ==
  LET indoor == {i \in DOMAIN s : s[i].indoor}
      takeIn == FirstOf(indoor, Limit \div 2)
      takeOut == FirstOf(DOMAIN s \ indoor, Limit - Cardinality(takeIn))
      short == Limit - Cardinality(takeIn) - Cardinality(takeOut)
  IN IF Limit = 0 \/ Len(s) <= Limit THEN s
     ELSE Sublist(s, FirstOf(indoor, Cardinality(takeIn) + short) \cup takeOut)

(* Mutant: what a day has too much is taken from the others.                *)
LeftUnbounded(pins) == [d \in TripDays |-> TargetStops - Cardinality(OnDay(pins, d))]

(* _remaining_targets: what each day still needs.                           *)
RemainingTargets(pins) ==
  [d \in TripDays |-> Larger(0, TargetStops - Cardinality(OnDay(pins, d)))]

(* Mutant: the days are added up before they are compared.                  *)
NoRoomInAll(pins) == pins # << >> /\ Len(pins) >= NumDays * TargetStops

NoRoom(pins) == pins # << >> /\ \A d \in TripDays : RemainingTargets(pins)[d] = 0

(* _place_from_candidate succeeds: the candidate names its source.          *)
IsPlace(p) == p.id # NoId

(* _select_places: selections of a day of the trip and an index of the list *)
(* in the prompt, each index once (its first), sorted by day; a candidate   *)
(* that cannot become a place is skipped.                                   *)
Chosen(s, answer) ==
  LET valid == {i \in DOMAIN answer : answer[i].day \in TripDays /\ answer[i].index \in 0 .. Len(s) - 1}
      first == {i \in valid : \A k \in valid : k < i => answer[k].index # answer[i].index}
      at == Sorted(first, [i \in first |-> answer[i].day])
      all == [n \in DOMAIN at |-> [id |-> s[answer[at[n]].index + 1].id,
                                   day |-> answer[at[n]].day]]
  IN Sublist(all, {n \in DOMAIN all : IsPlace(all[n])})

ByDay(s) == SortedList(s, [i \in DOMAIN s |-> s[i].day])

(* The places of s that are none of t.                                      *)
Others(s, t) == Sublist(s, {i \in DOMAIN s : s[i].id \notin Ids(t)})

(* Mutant: a place that is chosen anew replaces the kept one.               *)
MergeFresh(pins, fresh) == ByDay(Others(pins, fresh) \o fresh)

(* _merge_pinned: new places that are kept ones are dropped; a stable sort  *)
(* by day keeps the kept ones of a day in front.                            *)
MergePinned(pins, fresh) == ByDay(pins \o Others(fresh, pins))

(* The last check of recommend_places.                                      *)
Enough(s) == Len(s) >= 2 /\ \A d \in TripDays : OnDay(s, d) # {}
--------------------------------------------------------------------------------
Init ==
  /\ node = "search_places"
  /\ stage \in {"init", "mode1"}
  /\ exclude = {}
  /\ candidates = << >>
  /\ pinned = << >>
  /\ targets = [d \in TripDays |-> TargetStops]
  /\ places = << >>
  /\ failed = FALSE

(* An error is set: the nodes that follow return at once.                   *)
Fail == failed' = TRUE /\ node' = "end"

(* The themes are searched at the same time; their answers are merged and   *)
(* what the caller wants to see no more is dropped.                         *)
SearchPlaces ==
  /\ node = "search_places"
  /\ UNCHANGED <<stage, pinned, targets, places>>
  /\ \/ Fail /\ UNCHANGED <<exclude, candidates>>
     \/ \E found \in Found, unwanted \in Excludes :
          /\ exclude' = unwanted
          /\ LET merged == MergePlaceResults(found)
             IN candidates' = Sublist(merged, {i \in DOMAIN merged : merged[i].id \notin unwanted})
          /\ node' = "rules_filter"
          /\ UNCHANGED failed

(* hub returns the candidates within reach.  All of them stay when the      *)
(* rules are off, the mobility is unknown or the call fails.                *)
RulesFilter ==
  /\ node = "rules_filter"
  /\ node' = "score_and_rank"
  /\ \E within \in SUBSET DOMAIN candidates : candidates' = Sublist(candidates, within)
  /\ UNCHANGED <<stage, exclude, pinned, targets, places, failed>>

(* hub scores some of the candidates, or none.                              *)
ScoreAndRank ==
  /\ node = "score_and_rank"
  /\ node' = "recommend_places"
  /\ \E known \in SUBSET (Ids(candidates) \ {NoId}) :
       \E scored \in [known -> Scores] :
         candidates' = IF known = {} THEN candidates ELSE Ranked(candidates, scored)
  /\ UNCHANGED <<stage, exclude, pinned, targets, places, failed>>

(* recommend_places up to the call of the model.  The places to keep may    *)
(* fail their verification, fill the plan, or leave room for new ones.      *)
RecommendPlaces ==
  /\ node = "recommend_places"
  /\ UNCHANGED <<stage, exclude>>
  /\ \/ stage = "mode1" /\ Fail /\ UNCHANGED <<candidates, pinned, targets, places>>
     \/ \E kept \in (IF stage = "mode1" THEN Pins ELSE {}) \cup {<< >>} :
          /\ pinned' = kept
          /\ targets' = IF kept = << >> THEN targets ELSE RemainingTargets(kept)
          /\ \/ /\ NoRoom(kept)
                /\ places' = kept
                /\ node' = "end"
                /\ UNCHANGED <<candidates, failed>>
             \/ /\ ~NoRoom(kept) /\ candidates = << >>
                /\ Fail
                /\ UNCHANGED <<candidates, places>>
             \/ /\ ~NoRoom(kept) /\ candidates # << >>
                /\ candidates' = CapCandidates(candidates)
                /\ node' = "select_places"
                /\ UNCHANGED <<places, failed>>

(* _select_places: the call fails or answers; then the rest of              *)
(* recommend_places.                                                        *)
SelectPlaces ==
  /\ node = "select_places"
  /\ node' = "end"
  /\ UNCHANGED <<stage, exclude, candidates, pinned, targets>>
  /\ \/ Fail /\ UNCHANGED places
     \/ \E answer \in Answers :
          LET fresh == Chosen(candidates, answer)
          IN IF fresh = << >>
             THEN Fail /\ UNCHANGED places
             ELSE /\ places' = IF pinned = << >> THEN fresh ELSE MergePinned(pinned, fresh)
                  /\ failed' = ~Enough(places')

Next == SearchPlaces \/ RulesFilter \/ ScoreAndRank \/ RecommendPlaces \/ SelectPlaces

Spec == Init /\ [][Next]_vars
--------------------------------------------------------------------------------
Done == node = "end" /\ ~failed

Candidate == [id : Int, indoor : BOOLEAN]

Place == [id : Int \ {NoId}, day : TripDays]

TypeOK ==
  /\ node \in {"search_places", "rules_filter", "score_and_rank", "recommend_places",
               "select_places", "end"}
  /\ candidates \in Seq(Candidate)
  /\ Ids(candidates) \cap exclude = {}
  /\ targets \in [TripDays -> 0 .. TargetStops]
  /\ pinned \in Seq(Place)
  /\ places \in Seq(Place)
  /\ failed \in BOOLEAN

(* A selection that ends without an error is what recommend_route counts    *)
(* on, on the path through the model and on the one that returns early      *)
(* because the kept places fill the plan: every day of the trip has a place *)
(* although only the first path checks it.                                  *)
HandsOver ==
  Done =>
    /\ HandedOver(stage, [i \in DOMAIN places |->
                            [day |-> places[i].day, pinned |-> places[i].id \in Ids(pinned)]])
    /\ \A d \in TripDays : OnDay(places, d) # {}

KeptTwice(id) == \E i, k \in DOMAIN pinned : i # k /\ pinned[i].id = id /\ pinned[k].id = id

(* No place appears twice unless the caller kept it twice, whichever themes *)
(* found it and whether it was kept, selected or both, and none the caller  *)
(* excluded unless it was kept.                                             *)
PlacesWanted ==
  Done =>
    /\ \A i, k \in DOMAIN places : places[i].id = places[k].id => i = k \/ KeptTwice(places[i].id)
    /\ Ids(places) \cap exclude \subseteq Ids(pinned)

(* The places the caller keeps stay, on their days, whatever is selected    *)
(* beside them.                                                             *)
KeptPlacesStay ==
  Done => \A i \in DOMAIN pinned : \E k \in DOMAIN places : places[k] = pinned[i]

OfKind(s, b) == Sublist(s, {i \in DOMAIN s : s[i].indoor = b})

(* The cap on the prompt takes the best of each kind and leaves neither     *)
(* kind with less than half of the list unless it has no more.              *)
CapKeepsBothKinds ==
  [][/\ node = "recommend_places" /\ node' = "select_places"
     /\ Limit > 0 /\ Len(candidates) > Limit
     =>
       /\ Len(candidates') = Limit
       /\ \A b \in BOOLEAN :
            LET had == OfKind(candidates, b)
                has == OfKind(candidates', b)
            IN /\ has = SubSeq(had, 1, Len(has))
               /\ has = had \/ Len(has) >= Limit \div 2]_vars
================================================================================
