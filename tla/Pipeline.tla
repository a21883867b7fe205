------------------------------- MODULE Pipeline --------------------------------
(***************************************************************************)
(* The control of one recommendation job inside the LangGraph graph:        *)
(* build_graph's edges, each node's guards, early returns and error codes,  *)
(* the LLM budget of call_structured with its corrective retry, and the     *)
(* reasons node that may only degrade.  What the places, legs and times     *)
(* are is abstracted to whether they exist: module Itinerary has them.      *)
(*                                                                         *)
(* hub's and Gemini's answers and failures are nondeterministic.  None of   *)
(* them has to come: the deadline of _run_job or the shutdown cuts a job    *)
(* short in whatever it awaits.                                             *)
(***************************************************************************)
EXTENDS Naturals

CONSTANTS
  MaxCalls,        \* GEMINI_MAX_CALLS_PER_REQUEST
  RulesEnabled,    \* RULES_ENABLED
  TimelineEnabled  \* TIMELINE_ENABLED

ASSUME PipelineAssumption ==
  MaxCalls \in Nat /\ RulesEnabled \in BOOLEAN /\ TimelineEnabled \in BOOLEAN

VARIABLES
  node,        \* the node that runs next, or the one that raised
  stage,       \* request.stage
  kept,        \* mode1 only: request.places is not empty
  error,       \* state["code"] while state["error"] is set, else "none"
  forecast,    \* days of the trip state["weather"] covers: none, some, all
  grounded,    \* state["grounded"]
  candidates,  \* state["candidates"] is not empty
  places,      \* state["places"] is not empty
  routed,      \* state["visit_order"] and state["legs"] are set
  overflow,    \* state["timeline_overflow_days"] is not empty
  timing,      \* state["timeline_status"]
  calls,       \* state["llm_calls_used"]
  ask,         \* the answer awaited from Gemini: who asked, which attempt
  reasons,     \* places with a reason: none, some, all
  degraded,    \* state["degraded_reason"]
  warnings,    \* state["warnings"]
  outcome      \* running, done, failed (both published), raised, cut_short

request == <<stage, kept>>
found == <<grounded, candidates, places>>
timetable == <<routed, overflow, timing>>
llm == <<calls, ask>>
told == <<reasons, degraded>>
vars == <<node, request, error, forecast, found, timetable, llm, told, warnings, outcome>>

Idle == [who |-> "nobody", attempt |-> 0]

At(n) == node = n /\ outcome = "running" /\ ask = Idle

Clean(n) == At(n) /\ error = "none"

Go(n) == node' = n

(* _route_after: on to the next node, or to build_payload with an error.    *)
GoUnlessError(n) == node' = IF error' = "none" THEN n ELSE "build_payload"

Fail(code) == error' = code

--------------------------------------------------------------------------------
Init ==
  /\ node = "parse_input"
  /\ stage \in {"init", "mode1", "route"}
  /\ kept \in BOOLEAN
  /\ kept => stage = "mode1"
  /\ error = "none"
  /\ forecast = "none"
  /\ grounded = FALSE
  /\ candidates = FALSE
  /\ places = FALSE
  /\ routed = FALSE
  /\ overflow = FALSE
  /\ timing = "none"
  /\ calls = 0
  /\ ask = Idle
  /\ reasons = "none"
  /\ degraded = "none"
  /\ warnings = {}
  /\ outcome = "running"

(* Dates, times, days of the places, stage route without two places.        *)
ParseInput ==
  /\ At("parse_input")
  /\ UNCHANGED error \/ Fail("invalid_request")
  /\ GoUnlessError("fetch_weather")
  /\ UNCHANGED <<request, forecast, found, timetable, llm, told, warnings, outcome>>

(* Mutant: a failed call is not mentioned.                                  *)
FetchWeatherSilent ==
  /\ Clean("fetch_weather")
  /\ Go(IF stage = "route" THEN "load_given_places" ELSE "plan_strategy")
  /\ forecast' \in {"none", "some", "all"}
  /\ UNCHANGED <<request, error, found, timetable, llm, told, warnings, outcome>>

(* A failed call leaves a warning, missing days of the forecast another.    *)
FetchWeather ==
  /\ Clean("fetch_weather")
  /\ Go(IF stage = "route" THEN "load_given_places" ELSE "plan_strategy")
  /\ \/ forecast' = "all" /\ UNCHANGED warnings
     \/ forecast' = "some" /\ warnings' = warnings \cup {"missing_days"}
     \/ forecast' = "none" /\ warnings' = warnings \cup {"no_weather"}
  /\ UNCHANGED <<request, error, found, timetable, llm, told, outcome>>

PlanStrategy ==
  /\ Clean("plan_strategy")
  /\ Go("search_places")
  /\ UNCHANGED <<request, error, forecast, found, timetable, llm, told, warnings, outcome>>

VerifyErrors == {"invalid_request", "quota_exceeded", "upstream_unavailable",
                 "generation_failed"}

(* stage route: every place must be found again at its source.              *)
LoadGivenPlaces ==
  /\ Clean("load_given_places")
  /\ \/ places' = TRUE /\ grounded' = TRUE /\ UNCHANGED error
     \/ places' = FALSE /\ grounded' = FALSE /\ \E code \in VerifyErrors : Fail(code)
  /\ GoUnlessError("recommend_route")
  /\ UNCHANGED <<request, forecast, candidates, timetable, llm, told, warnings, outcome>>

(* One query per theme keyword, all of which must answer; what is excluded  *)
(* is taken out, possibly everything.                                       *)
SearchPlaces ==
  /\ Clean("search_places")
  /\ Go("rules_filter")
  /\ \/ candidates' \in BOOLEAN /\ grounded' = candidates' /\ UNCHANGED error
     \/ /\ candidates' = FALSE /\ grounded' = FALSE
        /\ \E code \in {"quota_exceeded", "upstream_unavailable"} : Fail(code)
  /\ UNCHANGED <<request, forecast, places, timetable, llm, told, warnings, outcome>>

(* Candidates outside the radius go, possibly all; with an error, without   *)
(* candidates or when hub fails the node changes nothing.                   *)
RulesFilter ==
  /\ At("rules_filter")
  /\ Go("score_and_rank")
  /\ \/ UNCHANGED found
     \/ /\ error = "none" /\ RulesEnabled /\ candidates /\ grounded
        /\ candidates' = FALSE /\ grounded' = FALSE /\ UNCHANGED places
  /\ UNCHANGED <<request, error, forecast, timetable, llm, told, warnings, outcome>>

(* Reorders the candidates at most.                                         *)
ScoreAndRank ==
  /\ At("score_and_rank")
  /\ Go("recommend_places")
  /\ UNCHANGED <<request, error, forecast, found, timetable, llm, told, warnings, outcome>>
--------------------------------------------------------------------------------
(* call_structured.                                                         *)

BudgetLeft == calls < MaxCalls

(* _consume_budget, then the first request.                                 *)
Ask(who) ==
  /\ BudgetLeft
  /\ calls' = calls + 1
  /\ ask' = [who |-> who, attempt |-> 1]

(* Mutant: a correction may be corrected.                                   *)
CorrectiveRetryAgain ==
  /\ ask.attempt \in 1 .. 2
  /\ BudgetLeft
  /\ calls' = calls + 1
  /\ ask' = [ask EXCEPT !.attempt = 2]
  /\ UNCHANGED <<node, request, error, forecast, found, timetable, told, warnings, outcome>>

(* An answer that does not fit the schema and was not truncated is sent     *)
(* back once, if the budget allows.                                         *)
CorrectiveRetry ==
  /\ ask.attempt = 1
  /\ BudgetLeft
  /\ calls' = calls + 1
  /\ ask' = [ask EXCEPT !.attempt = 2]
  /\ UNCHANGED <<node, request, error, forecast, found, timetable, told, warnings, outcome>>

(* How a call can end: a valid answer, or an exception (by the code that    *)
(* exception_failure gives it).  An invalid first answer is an exception    *)
(* when it was truncated or the budget is used up, a second one always.     *)
CallErrors == {"selection_invalid", "quota_exceeded", "upstream_unavailable",
               "generation_failed"}

Answered(who) == ask.who = who /\ ask' = Idle /\ UNCHANGED calls
--------------------------------------------------------------------------------
(* recommend_places.                                                        *)

(* Mutant: the node looks at the candidates before the error.               *)
RecommendPlacesRegardless ==
  /\ At("recommend_places")
  /\ ~candidates
  /\ Fail("no_matching_places")
  /\ Go("build_payload")
  /\ UNCHANGED <<request, forecast, found, timetable, llm, told, warnings, outcome>>

(* An earlier error, kept places that cannot be verified, kept places that  *)
(* fill every day, or no candidate: the node ends without the model.        *)
RecommendPlacesWithoutModel ==
  /\ At("recommend_places")
  /\ UNCHANGED <<request, forecast, grounded, candidates, timetable, llm, told, warnings,
                 outcome>>
  /\ \/ error # "none" /\ UNCHANGED <<error, places>>
     \/ error = "none" /\ kept /\ UNCHANGED places /\ \E code \in VerifyErrors : Fail(code)
     \/ error = "none" /\ kept /\ places' = TRUE /\ UNCHANGED error
     \/ error = "none" /\ ~candidates /\ UNCHANGED places /\ Fail("no_matching_places")
  /\ GoUnlessError("recommend_route")

AskSelection ==
  /\ Clean("recommend_places")
  /\ candidates
  /\ IF BudgetLeft
     THEN Ask("select") /\ UNCHANGED <<node, error>>
     ELSE Fail("selection_invalid") /\ Go("build_payload") /\ UNCHANGED llm
  /\ UNCHANGED <<request, forecast, found, timetable, told, warnings, outcome>>

(* The selection may turn out empty, too small or without a place for some  *)
(* day (the last two with the places already in the state).                 *)
SelectionAnswered ==
  /\ Answered("select")
  /\ \/ places' = TRUE /\ UNCHANGED error
     \/ places' = TRUE /\ Fail("selection_invalid")
     \/ UNCHANGED places /\ \E code \in CallErrors : Fail(code)
  /\ GoUnlessError("recommend_route")
  /\ UNCHANGED <<request, forecast, grounded, candidates, timetable, told, warnings,
                 outcome>>
--------------------------------------------------------------------------------
(* Mutant: the order is computed and not stored.                            *)
RecommendRouteAnyway ==
  /\ Clean("recommend_route")
  /\ Go("build_timeline")
  /\ UNCHANGED <<request, error, forecast, found, timetable, llm, told, warnings, outcome>>

RecommendRoute ==
  /\ Clean("recommend_route")
  /\ IF places
     THEN routed' = TRUE /\ UNCHANGED error
     ELSE UNCHANGED routed /\ Fail("selection_invalid")
  /\ GoUnlessError("build_timeline")
  /\ UNCHANGED <<request, forecast, found, overflow, timing, llm, told, warnings, outcome>>

BuildTimeline ==
  /\ Clean("build_timeline")
  /\ Go("fit_time_budget")
  /\ IF ~TimelineEnabled
     THEN UNCHANGED <<timing, overflow, warnings>>
     ELSE /\ warnings' = warnings \cup {"opening_hours"}
          /\ \/ timing' = "unverified" /\ UNCHANGED overflow
             \/ timing' = "ok" /\ overflow' \in BOOLEAN
  /\ UNCHANGED <<request, error, forecast, found, routed, llm, told, outcome>>

(* Overflowing days are trimmed, never for stage route, or the job fails.   *)
TrimDays ==
  /\ timing' = "trimmed"
  /\ overflow' = FALSE
  /\ warnings' = warnings \cup {"trimmed"}
  /\ UNCHANGED error

RefuseDays ==
  /\ timing' = "unverified"
  /\ UNCHANGED <<overflow, warnings>>
  /\ Fail("invalid_request")

FitTimeBudget ==
  /\ Clean("fit_time_budget")
  /\ \/ ~overflow /\ UNCHANGED <<timing, overflow, error, warnings>>
     \/ overflow /\ stage # "route" /\ TrimDays
     \/ overflow /\ RefuseDays
  /\ GoUnlessError(IF stage = "route" THEN "build_payload" ELSE "llm_reason")
  /\ UNCHANGED <<request, forecast, found, routed, llm, told, outcome>>
--------------------------------------------------------------------------------
(* llm_reason.                                                              *)

Leave == Go("build_payload")

AskReasons ==
  /\ Clean("llm_reason")
  /\ UNCHANGED reasons
  /\ IF BudgetLeft
     THEN Ask("reason") /\ UNCHANGED <<node, degraded>>
     ELSE degraded' = "llm_budget_exhausted" /\ Leave /\ UNCHANGED llm
  /\ UNCHANGED <<request, error, forecast, found, timetable, warnings, outcome>>

(* Mutant: an exception fails the job like in the other nodes.              *)
ReasonsFailJob ==
  /\ Answered("reason")
  /\ \/ reasons' = "all" /\ UNCHANGED error
     \/ \E code \in CallErrors : Fail(code) /\ UNCHANGED reasons
  /\ Leave
  /\ UNCHANGED <<request, forecast, found, timetable, degraded, warnings, outcome>>

ReasonsFailed ==
  /\ Answered("reason")
  /\ degraded' = "llm_reason_failed"
  /\ Leave
  /\ UNCHANGED <<request, error, forecast, found, timetable, reasons, warnings, outcome>>

(* All places have a reason, or some are asked for again if the budget      *)
(* allows, or the job goes on with what there is.                           *)
ReasonsAnswered ==
  /\ ask.who = "reason"
  /\ \/ /\ Answered("reason") /\ Leave
        /\ reasons' = "all" /\ UNCHANGED degraded
     \/ /\ reasons' \in {"none", "some"}
        /\ IF BudgetLeft
           THEN Ask("coverage") /\ UNCHANGED <<node, degraded>>
           ELSE Answered("reason") /\ Leave /\ degraded' = "reason_coverage_partial"
  /\ UNCHANGED <<request, error, forecast, found, timetable, warnings, outcome>>

(* The second answer only adds; if it fails the first one stands.           *)
CoverageAnswered ==
  /\ Answered("coverage")
  /\ Leave
  /\ \/ reasons' = "all" /\ UNCHANGED degraded
     \/ /\ degraded' = "reason_coverage_partial"
        /\ reasons' \in {reasons, "some"}
  /\ UNCHANGED <<request, error, forecast, found, timetable, warnings, outcome>>
--------------------------------------------------------------------------------
BuildPayload ==
  /\ At("build_payload")
  /\ Go("publish_done")
  /\ UNCHANGED <<request, error, forecast, found, timetable, llm, told, warnings, outcome>>

(* Without an error the payload reads places, visit_order and legs.         *)
PublishDone ==
  /\ At("publish_done")
  /\ outcome' = IF error = "none" THEN "done" ELSE "failed"
  /\ UNCHANGED <<node, request, error, forecast, found, timetable, llm, told, warnings>>

(* An answer of hub that is not what its clients expect (no JSON from       *)
(* /v1/weather, a coordinate or a dwell time that is no number) escapes     *)
(* the node: the graph raises and _run_job reports the failure.             *)
Calling ==
  \/ Clean("fetch_weather")
  \/ Clean("search_places")
  \/ RulesEnabled /\ candidates /\ (Clean("rules_filter") \/ Clean("score_and_rank"))
  \/ TimelineEnabled /\ Clean("build_timeline")

NodeRaises ==
  /\ Calling
  /\ outcome' = "raised"
  /\ UNCHANGED <<node, request, error, forecast, found, timetable, llm, told, warnings>>

(* The job's deadline or the shutdown cancels the graph in what it awaits:  *)
(* no node catches a CancelledError, not even the one that only degrades.   *)
CutShort ==
  /\ outcome = "running"
  /\ outcome' = "cut_short"
  /\ ask' = Idle
  /\ UNCHANGED <<node, request, error, forecast, found, timetable, calls, told, warnings>>

Next ==
  \/ ParseInput \/ FetchWeather \/ PlanStrategy \/ LoadGivenPlaces \/ SearchPlaces
  \/ RulesFilter \/ ScoreAndRank
  \/ RecommendPlacesWithoutModel \/ AskSelection \/ SelectionAnswered
  \/ RecommendRoute \/ BuildTimeline \/ FitTimeBudget
  \/ AskReasons \/ ReasonsFailed \/ ReasonsAnswered \/ CoverageAnswered
  \/ CorrectiveRetry \/ BuildPayload \/ PublishDone \/ NodeRaises
  \/ CutShort

Spec == Init /\ [][Next]_vars

(* The event loop runs the timer of wait_for.  No node has to go on: the    *)
(* limiter's Redis client has no timeout, so an await need not end.         *)
FairSpec == Spec /\ WF_vars(CutShort)
--------------------------------------------------------------------------------
Nodes == {"parse_input", "fetch_weather", "load_given_places", "plan_strategy",
          "search_places", "rules_filter", "score_and_rank", "recommend_places",
          "recommend_route", "build_timeline", "fit_time_budget", "llm_reason",
          "build_payload", "publish_done"}

Codes == VerifyErrors \cup CallErrors \cup {"no_matching_places"}

FlagsOK ==
  /\ kept \in BOOLEAN /\ grounded \in BOOLEAN
  /\ candidates \in BOOLEAN /\ places \in BOOLEAN /\ routed \in BOOLEAN
  /\ overflow \in BOOLEAN

ValuesOK ==
  /\ node \in Nodes
  /\ stage \in {"init", "mode1", "route"}
  /\ error \in Codes \cup {"none"}
  /\ forecast \in {"none", "some", "all"}
  /\ timing \in {"none", "ok", "trimmed", "unverified"}
  /\ calls \in 0 .. MaxCalls
  /\ ask \in [who : {"nobody", "select", "reason", "coverage"}, attempt : 0 .. 2]
  /\ reasons \in {"none", "some", "all"}
  /\ degraded \in {"none", "llm_budget_exhausted", "llm_reason_failed",
                   "reason_coverage_partial"}
  /\ warnings \subseteq {"missing_days", "no_weather", "opening_hours", "trimmed"}
  /\ outcome \in {"running", "done", "failed", "raised", "cut_short"}

TypeOK == FlagsOK /\ ValuesOK

(* What publish_done reads for a done payload is there on every path that   *)
(* gets to it without an error (a missing key would raise after the whole   *)
(* job), and a timed itinerary that is announced fits its days.             *)
DonePayloadComplete == outcome = "done" => places /\ routed /\ ~overflow

(* The requests to Gemini of one job stay within its budget although three  *)
(* callers and their corrections share it, and a route of the caller's own  *)
(* places costs none.                                                       *)
CallsWithinBudget == calls <= MaxCalls /\ (stage = "route" => calls = 0)

(* With the default budget of three the reasons are always asked for: the   *)
(* selection with its correction leaves one call (the budget recommend_route*)
(* returned when it stopped using the model).                               *)
SelectionLeavesBudget == MaxCalls >= 3 => degraded # "llm_budget_exhausted"

(* The first error decides what the caller is told: no later node replaces  *)
(* an outage of the search by "no matching places", or clears it.           *)
FirstErrorStands == [][error # "none" => error' = error]_vars

(* What a done job had to do without is told, and nothing else is: in the   *)
(* payload a forecast that is missing or has gaps, opening hours that were  *)
(* not checked, days that were trimmed; and missing reasons to the operator,*)
(* in degraded_reason.  A failed rules filter leaves no trace to match.     *)
DegradationTold ==
  outcome = "done" =>
    /\ "no_weather" \in warnings <=> forecast = "none"
    /\ "missing_days" \in warnings <=> forecast = "some"
    /\ "opening_hours" \in warnings <=> TimelineEnabled
    /\ "trimmed" \in warnings <=> timing = "trimmed"
    /\ stage # "route" => (degraded = "none" <=> reasons = "all")

(* The explanations are an enhancement: once the timetable stands, neither  *)
(* Gemini nor the limiter, by whatever they answer, fails the job.  Only    *)
(* the deadline or the shutdown can still cost it, when they do not answer. *)
ReasonsNeverCostTheJob == node = "llm_reason" ~> outcome \in {"done", "cut_short"}
================================================================================
