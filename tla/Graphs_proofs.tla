------------------------------ MODULE Graphs_proofs ------------------------------
(***************************************************************************)
(* The two graphs of the service, which share nothing.  What a job's        *)
(* payload and its use of the model can rely on, for every budget and both  *)
(* kill switches; and what the two endpoints of the review summaries        *)
(* answer, for lists of any length, any budget and whatever Gemini does.    *)
(***************************************************************************)
EXTENDS Pipeline, Summary, WellFoundedInduction, TLAPS

(* The nodes before the first request to the model is answered.             *)
Before == {"parse_input", "fetch_weather", "plan_strategy", "load_given_places",
           "search_places", "rules_filter", "score_and_rank", "recommend_places"}

(* The nodes a route of the caller's own places never visits.               *)
Selecting == {"plan_strategy", "search_places", "rules_filter", "score_and_rank",
              "recommend_places", "llm_reason"}

(* Who may be waiting for the model, where, and after how many requests.    *)
Asking ==
  /\ ask.who = "nobody" => ask = Idle
  /\ ask.who = "select" =>
       node = "recommend_places" /\ error = "none" /\ calls = ask.attempt
  /\ ask.who \in {"reason", "coverage"} => node = "llm_reason" /\ error = "none"
  /\ outcome # "running" => ask = Idle

(* What was spent when a node is entered: a selection costs two requests at *)
(* most, a route of the caller's own places none.                           *)
Spent ==
  /\ stage = "route" => calls = 0 /\ ask = Idle /\ node \notin Selecting
  /\ outcome = "running" /\ ask = Idle =>
       /\ node \in Before => calls = 0
       /\ node \in {"recommend_route", "build_timeline", "fit_time_budget", "llm_reason"} =>
            calls <= 2
  /\ MaxCalls >= 3 => degraded # "llm_budget_exhausted"

(* What a node finds in the state.                                          *)
Stored ==
  /\ node \in {"build_timeline", "fit_time_budget", "llm_reason"} =>
       error = "none" /\ places /\ routed
  /\ node \in {"build_payload", "publish_done"} /\ error = "none" => places /\ routed
  /\ overflow => \/ node = "fit_time_budget"
                 \/ node \in {"build_payload", "publish_done"} /\ error # "none"
  /\ outcome = "done" => node = "publish_done" /\ error = "none"

Inv == TypeOK /\ Asking /\ Spent /\ Stored

(* A job starts with every variable in its type.                            *)
LEMMA TypeInit == Init => TypeOK
<1>1. Init => FlagsOK
  BY Zenon DEF Init, FlagsOK
<1>2. Init => ValuesOK
  BY PipelineAssumption DEF PipelineAssumption, Init, ValuesOK, Idle, Nodes
<1> QED BY <1>1, <1>2 DEF TypeOK

(* The flags stay flags.                                                    *)
LEMMA FlagsNext == FlagsOK /\ [Next]_vars => FlagsOK'
<1> SUFFICES ASSUME FlagsOK, [Next]_vars PROVE FlagsOK'
  OBVIOUS
<1> USE PipelineAssumption DEF PipelineAssumption, FlagsOK, Idle, request, found,
     timetable, llm, told
<1>1. CASE ParseInput
  BY <1>1 DEF ParseInput, At, Fail
<1>2. CASE FetchWeather
  BY <1>2 DEF FetchWeather, At, Clean, Go
<1>3. CASE PlanStrategy
  BY <1>3 DEF PlanStrategy, At, Clean, Go
<1>4. CASE LoadGivenPlaces
  BY <1>4 DEF LoadGivenPlaces, At, Clean, Fail
<1>5. CASE SearchPlaces
  BY <1>5 DEF SearchPlaces, At, Clean, Fail, Go
<1>6. CASE RulesFilter
  BY <1>6 DEF RulesFilter, At, Go
<1>7. CASE ScoreAndRank
  BY <1>7 DEF ScoreAndRank, At, Go
<1>8. CASE RecommendPlacesWithoutModel
  BY <1>8 DEF RecommendPlacesWithoutModel, At, Fail
<1>9. CASE AskSelection
  BY <1>9 DEF AskSelection, At, Clean, Fail, Go
<1>10. CASE SelectionAnswered
  BY <1>10 DEF SelectionAnswered, Answered, Fail
<1>11. CASE RecommendRoute
  BY <1>11 DEF RecommendRoute, At, Clean, Fail
<1>12. CASE BuildTimeline
  BY <1>12 DEF BuildTimeline, At, Clean, Go
<1>13. CASE FitTimeBudget
  BY <1>13 DEF FitTimeBudget, At, Clean, Fail, RefuseDays, TrimDays
<1>14. CASE AskReasons
  BY <1>14 DEF AskReasons, At, Clean, Go
<1>15. CASE ReasonsFailed
  BY <1>15 DEF ReasonsFailed, Answered, Go
<1>16. CASE ReasonsAnswered
  BY <1>16 DEF ReasonsAnswered, Answered, Go
<1>17. CASE CoverageAnswered
  BY <1>17 DEF CoverageAnswered, Answered, Go
<1>18. CASE CorrectiveRetry
  BY <1>18 DEF CorrectiveRetry
<1>19. CASE BuildPayload
  BY <1>19 DEF BuildPayload, At, Go
<1>20. CASE PublishDone
  BY <1>20 DEF PublishDone, At
<1>21. CASE NodeRaises
  BY <1>21 DEF NodeRaises, Calling, At, Clean
<1>22. CASE CutShort
  BY <1>22 DEF CutShort
<1>23. CASE UNCHANGED vars
  BY <1>23 DEF vars
<1> QED BY <1>1, <1>2, <1>3, <1>4, <1>5, <1>6, <1>7, <1>8, <1>9, <1>10, <1>11, <1>12,
   <1>13, <1>14, <1>15, <1>16, <1>17, <1>18, <1>19, <1>20, <1>21, <1>22, <1>23 DEF Next

(* Codes, statuses, warnings and counts stay in their sets.                 *)
LEMMA ValuesNext == ValuesOK /\ [Next]_vars => ValuesOK'
<1> SUFFICES ASSUME ValuesOK, [Next]_vars PROVE ValuesOK'
  OBVIOUS
<1> USE PipelineAssumption DEF PipelineAssumption, ValuesOK, Codes, Nodes,
     VerifyErrors, CallErrors, Idle, request, found, timetable, llm, told
<1>1. CASE ParseInput
  BY <1>1 DEF ParseInput, At, Fail, GoUnlessError
<1>2. CASE FetchWeather
  BY <1>2 DEF FetchWeather, At, Clean, Go
<1>3. CASE PlanStrategy
  BY <1>3 DEF PlanStrategy, At, Clean, Go
<1>4. CASE LoadGivenPlaces
  BY <1>4 DEF LoadGivenPlaces, At, Clean, Fail, GoUnlessError
<1>5. CASE SearchPlaces
  BY <1>5 DEF SearchPlaces, At, Clean, Fail, Go
<1>6. CASE RulesFilter
  BY <1>6 DEF RulesFilter, At, Go
<1>7. CASE ScoreAndRank
  BY <1>7 DEF ScoreAndRank, At, Go
<1>8. CASE RecommendPlacesWithoutModel
  BY <1>8 DEF RecommendPlacesWithoutModel, At, Fail, GoUnlessError
<1>9. CASE AskSelection
  BY <1>9 DEF AskSelection, Ask, At, BudgetLeft, Clean, Fail, Go
<1>10. CASE SelectionAnswered
  BY <1>10 DEF SelectionAnswered, Answered, Fail, GoUnlessError
<1>11. CASE RecommendRoute
  BY <1>11 DEF RecommendRoute, At, Clean, Fail, GoUnlessError
<1>12. CASE BuildTimeline
  BY <1>12 DEF BuildTimeline, At, Clean, Go
<1>13. CASE FitTimeBudget
  BY <1>13 DEF FitTimeBudget, At, Clean, Fail, GoUnlessError, RefuseDays, TrimDays
<1>14. CASE AskReasons
  BY <1>14 DEF AskReasons, Ask, At, BudgetLeft, Clean, Go, Leave
<1>15. CASE ReasonsFailed
  BY <1>15 DEF ReasonsFailed, Answered, Go, Leave
<1>16. CASE ReasonsAnswered
  BY <1>16 DEF ReasonsAnswered, Answered, Ask, BudgetLeft, Go, Leave
<1>17. CASE CoverageAnswered
  BY <1>17 DEF CoverageAnswered, Answered, Go, Leave
<1>18. CASE CorrectiveRetry
  BY <1>18 DEF CorrectiveRetry, BudgetLeft
<1>19. CASE BuildPayload
  BY <1>19 DEF BuildPayload, At, Go
<1>20. CASE PublishDone
  BY <1>20 DEF PublishDone, At
<1>21. CASE NodeRaises
  BY <1>21 DEF NodeRaises, Calling, At, Clean
<1>22. CASE CutShort
  BY <1>22 DEF CutShort
<1>23. CASE UNCHANGED vars
  BY <1>23 DEF vars
<1> QED BY <1>1, <1>2, <1>3, <1>4, <1>5, <1>6, <1>7, <1>8, <1>9, <1>10, <1>11, <1>12,
   <1>13, <1>14, <1>15, <1>16, <1>17, <1>18, <1>19, <1>20, <1>21, <1>22, <1>23 DEF Next

(* Nobody but the running node waits for the model.                         *)
LEMMA AskingNext == Inv /\ [Next]_vars => Asking'
<1> SUFFICES ASSUME Inv, [Next]_vars PROVE Asking'
  OBVIOUS
<1> USE PipelineAssumption DEF PipelineAssumption, Inv, TypeOK, FlagsOK, ValuesOK,
     Asking, Spent, Stored, Before, Selecting, Idle, request, found, timetable, llm,
     told
<1>1. CASE ParseInput
  BY <1>1 DEF ParseInput, At, Fail, GoUnlessError
<1>2. CASE FetchWeather
  BY <1>2 DEF FetchWeather, At, Clean, Go
<1>3. CASE PlanStrategy
  BY <1>3 DEF PlanStrategy, At, Clean, Go
<1>4. CASE LoadGivenPlaces
  BY <1>4 DEF LoadGivenPlaces, At, Clean, Fail, GoUnlessError, VerifyErrors
<1>5. CASE SearchPlaces
  BY <1>5 DEF SearchPlaces, At, Clean, Fail, Go
<1>6. CASE RulesFilter
  BY <1>6 DEF RulesFilter, At, Go
<1>7. CASE ScoreAndRank
  BY <1>7 DEF ScoreAndRank, At, Go
<1>8. CASE RecommendPlacesWithoutModel
  BY <1>8 DEF RecommendPlacesWithoutModel, At, Fail, GoUnlessError, VerifyErrors
<1>9. CASE AskSelection
  BY <1>9 DEF AskSelection, Ask, At, BudgetLeft, Clean, Fail, Go
<1>10. CASE SelectionAnswered
  BY <1>10 DEF SelectionAnswered, Answered, CallErrors, Fail, GoUnlessError
<1>11. CASE RecommendRoute
  BY <1>11 DEF RecommendRoute, At, Clean, Fail, GoUnlessError
<1>12. CASE BuildTimeline
  BY <1>12 DEF BuildTimeline, At, Clean, Go
<1>13. CASE FitTimeBudget
  BY <1>13 DEF FitTimeBudget, At, Clean, Fail, GoUnlessError, RefuseDays, TrimDays
<1>14. CASE AskReasons
  BY <1>14 DEF AskReasons, Ask, At, BudgetLeft, Clean, Go, Leave
<1>15. CASE ReasonsFailed
  BY <1>15 DEF ReasonsFailed, Answered, Go, Leave
<1>16. CASE ReasonsAnswered
  BY <1>16 DEF ReasonsAnswered, Answered, Ask, BudgetLeft, Go, Leave
<1>17. CASE CoverageAnswered
  BY <1>17 DEF CoverageAnswered, Answered, Go, Leave
<1>18. CASE CorrectiveRetry
  BY <1>18 DEF CorrectiveRetry, BudgetLeft
<1>19. CASE BuildPayload
  BY <1>19 DEF BuildPayload, At, Go
<1>20. CASE PublishDone
  BY <1>20 DEF PublishDone, At
<1>21. CASE NodeRaises
  BY <1>21 DEF NodeRaises, Calling, At, Clean
<1>22. CASE CutShort
  BY <1>22 DEF CutShort
<1>23. CASE UNCHANGED vars
  BY <1>23 DEF vars
<1> QED BY <1>1, <1>2, <1>3, <1>4, <1>5, <1>6, <1>7, <1>8, <1>9, <1>10, <1>11, <1>12,
   <1>13, <1>14, <1>15, <1>16, <1>17, <1>18, <1>19, <1>20, <1>21, <1>22, <1>23 DEF Next

(* Every request is accounted for where it is made.                         *)
LEMMA SpentNext == Inv /\ [Next]_vars => Spent'
<1> SUFFICES ASSUME Inv, [Next]_vars PROVE Spent'
  OBVIOUS
<1> USE PipelineAssumption DEF PipelineAssumption, Inv, TypeOK, FlagsOK, ValuesOK,
     Asking, Spent, Stored, Before, Selecting, Idle, request, found, timetable, llm,
     told
<1>1. CASE ParseInput
  BY <1>1 DEF ParseInput, At, Fail, GoUnlessError
<1>2. CASE FetchWeather
  BY <1>2 DEF FetchWeather, At, Clean, Go
<1>3. CASE PlanStrategy
  BY <1>3 DEF PlanStrategy, At, Clean, Go
<1>4. CASE LoadGivenPlaces
  BY <1>4 DEF LoadGivenPlaces, At, Clean, Fail, GoUnlessError, VerifyErrors
<1>5. CASE SearchPlaces
  BY <1>5 DEF SearchPlaces, At, Clean, Fail, Go
<1>6. CASE RulesFilter
  BY <1>6 DEF RulesFilter, At, Go
<1>7. CASE ScoreAndRank
  BY <1>7 DEF ScoreAndRank, At, Go
<1>8. CASE RecommendPlacesWithoutModel
  BY <1>8 DEF RecommendPlacesWithoutModel, At, Fail, GoUnlessError, VerifyErrors
<1>9. CASE AskSelection
  BY <1>9 DEF AskSelection, Ask, At, BudgetLeft, Clean, Fail, Go
<1>10. CASE SelectionAnswered
  BY <1>10 DEF SelectionAnswered, Answered, CallErrors, Fail, GoUnlessError
<1>11. CASE RecommendRoute
  BY <1>11 DEF RecommendRoute, At, Clean, Fail, GoUnlessError
<1>12. CASE BuildTimeline
  BY <1>12 DEF BuildTimeline, At, Clean, Go
<1>13. CASE FitTimeBudget
  BY <1>13 DEF FitTimeBudget, At, Clean, Fail, GoUnlessError, RefuseDays, TrimDays
<1>14. CASE AskReasons
  BY <1>14 DEF AskReasons, Ask, At, BudgetLeft, Clean, Go, Leave
<1>15. CASE ReasonsFailed
  BY <1>15 DEF ReasonsFailed, Answered, Go, Leave
<1>16. CASE ReasonsAnswered
  BY <1>16 DEF ReasonsAnswered, Answered, Ask, BudgetLeft, Go, Leave
<1>17. CASE CoverageAnswered
  BY <1>17 DEF CoverageAnswered, Answered, Go, Leave
<1>18. CASE CorrectiveRetry
  BY <1>18 DEF CorrectiveRetry, BudgetLeft
<1>19. CASE BuildPayload
  BY <1>19 DEF BuildPayload, At, Go
<1>20. CASE PublishDone
  BY <1>20 DEF PublishDone, At
<1>21. CASE NodeRaises
  BY <1>21 DEF NodeRaises, Calling, At, Clean
<1>22. CASE CutShort
  BY <1>22 DEF CutShort
<1>23. CASE UNCHANGED vars
  BY <1>23 DEF vars
<1> QED BY <1>1, <1>2, <1>3, <1>4, <1>5, <1>6, <1>7, <1>8, <1>9, <1>10, <1>11, <1>12,
   <1>13, <1>14, <1>15, <1>16, <1>17, <1>18, <1>19, <1>20, <1>21, <1>22, <1>23 DEF Next

(* No router leads to a node that would miss something.                     *)
LEMMA StoredNext == Inv /\ [Next]_vars => Stored'
<1> SUFFICES ASSUME Inv, [Next]_vars PROVE Stored'
  OBVIOUS
<1> USE PipelineAssumption DEF PipelineAssumption, Inv, TypeOK, FlagsOK, ValuesOK,
     Asking, Spent, Stored, Before, Selecting, Idle, request, found, timetable, llm,
     told
<1>1. CASE ParseInput
  BY <1>1 DEF ParseInput, At, Fail, GoUnlessError
<1>2. CASE FetchWeather
  BY <1>2 DEF FetchWeather, At, Clean, Go
<1>3. CASE PlanStrategy
  BY <1>3 DEF PlanStrategy, At, Clean, Go
<1>4. CASE LoadGivenPlaces
  BY <1>4 DEF LoadGivenPlaces, At, Clean, Fail, GoUnlessError, VerifyErrors
<1>5. CASE SearchPlaces
  BY <1>5 DEF SearchPlaces, At, Clean, Fail, Go
<1>6. CASE RulesFilter
  BY <1>6 DEF RulesFilter, At, Go
<1>7. CASE ScoreAndRank
  BY <1>7 DEF ScoreAndRank, At, Go
<1>8. CASE RecommendPlacesWithoutModel
  BY <1>8 DEF RecommendPlacesWithoutModel, At, Fail, GoUnlessError, VerifyErrors
<1>9. CASE AskSelection
  BY <1>9 DEF AskSelection, Ask, At, BudgetLeft, Clean, Fail, Go
<1>10. CASE SelectionAnswered
  BY <1>10 DEF SelectionAnswered, Answered, CallErrors, Fail, GoUnlessError
<1>11. CASE RecommendRoute
  BY <1>11 DEF RecommendRoute, At, Clean, Fail, GoUnlessError
<1>12. CASE BuildTimeline
  BY <1>12 DEF BuildTimeline, At, Clean, Go
<1>13. CASE FitTimeBudget
  BY <1>13 DEF FitTimeBudget, At, Clean, Fail, GoUnlessError, RefuseDays, TrimDays
<1>14. CASE AskReasons
  BY <1>14 DEF AskReasons, Ask, At, BudgetLeft, Clean, Go, Leave
<1>15. CASE ReasonsFailed
  BY <1>15 DEF ReasonsFailed, Answered, Go, Leave
<1>16. CASE ReasonsAnswered
  BY <1>16 DEF ReasonsAnswered, Answered, Ask, BudgetLeft, Go, Leave
<1>17. CASE CoverageAnswered
  BY <1>17 DEF CoverageAnswered, Answered, Go, Leave
<1>18. CASE CorrectiveRetry
  BY <1>18 DEF CorrectiveRetry, BudgetLeft
<1>19. CASE BuildPayload
  BY <1>19 DEF BuildPayload, At, Go
<1>20. CASE PublishDone
  BY <1>20 DEF PublishDone, At
<1>21. CASE NodeRaises
  BY <1>21 DEF NodeRaises, Calling, At, Clean
<1>22. CASE CutShort
  BY <1>22 DEF CutShort
<1>23. CASE UNCHANGED vars
  BY <1>23 DEF vars
<1> QED BY <1>1, <1>2, <1>3, <1>4, <1>5, <1>6, <1>7, <1>8, <1>9, <1>10, <1>11, <1>12,
   <1>13, <1>14, <1>15, <1>16, <1>17, <1>18, <1>19, <1>20, <1>21, <1>22, <1>23 DEF Next

(* The whole inductive invariant: what a node finds when it is entered is   *)
(* what the nodes on every path to it left behind.                          *)
THEOREM Invariance == Spec => []Inv
<1>1. Init => Inv
  BY TypeInit DEF Init, Inv, Asking, Spent, Stored, Before, Selecting, Idle
<1>2. Inv /\ [Next]_vars => Inv'
  BY FlagsNext, ValuesNext, AskingNext, SpentNext, StoredNext DEF Inv, TypeOK
<1> QED BY <1>1, <1>2, PTL DEF Spec

(* Every variable keeps its type.                                           *)
THEOREM TypeCorrect == Spec => []TypeOK
<1>1. Inv => TypeOK
  BY PipelineAssumption DEF PipelineAssumption, Inv
<1> QED BY <1>1, Invariance, PTL

(* publish_done never misses places, visit_order or legs, and announces no  *)
(* overflowing itinerary.                                                   *)
THEOREM DonePayloadCompleteHolds == Spec => []DonePayloadComplete
<1>1. Inv => DonePayloadComplete
  BY PipelineAssumption DEF PipelineAssumption, Inv, Stored, DonePayloadComplete
<1> QED BY <1>1, Invariance, PTL

(* The budget of a job is kept for every value of it.                       *)
THEOREM CallsWithinBudgetHolds == Spec => []CallsWithinBudget
<1>1. Inv => CallsWithinBudget
  BY PipelineAssumption DEF PipelineAssumption, Inv, TypeOK, ValuesOK, Spent,
     CallsWithinBudget
<1> QED BY <1>1, Invariance, PTL

(* With three or more calls the reasons always get to ask.                  *)
THEOREM SelectionLeavesBudgetHolds == Spec => []SelectionLeavesBudget
<1>1. Inv => SelectionLeavesBudget
  BY PipelineAssumption DEF PipelineAssumption, Inv, Spent, SelectionLeavesBudget
<1> QED BY <1>1, Invariance, PTL

--------------------------------------------------------------------------------
(* Why what is told matches what is missing: whoever degrades a job warns   *)
(* in the same step, no step after it takes the one or the other back, and  *)
(* no other path reaches a done payload.                                    *)
Warned ==
  /\ node = "parse_input" => error = "none"
  /\ node \in {"parse_input", "fetch_weather"} => warnings = {}
  /\ node \notin {"parse_input", "fetch_weather"} /\ error = "none" =>
       /\ "no_weather" \in warnings <=> forecast = "none"
       /\ "missing_days" \in warnings <=> forecast = "some"
  /\ node \in Before \cup {"recommend_route", "build_timeline"} =>
       timing = "none" /\ "opening_hours" \notin warnings
  /\ node \in Before \cup {"recommend_route", "build_timeline", "fit_time_budget"} =>
       timing # "trimmed" /\ "trimmed" \notin warnings
  /\ \/ node \in {"fit_time_budget", "llm_reason"}
     \/ node \in {"build_payload", "publish_done"} /\ error = "none"
     => /\ "opening_hours" \in warnings <=> TimelineEnabled
        /\ "trimmed" \in warnings <=> timing = "trimmed"

(* The record of missing reasons is complete when llm_reason is left.       *)
Recorded ==
  /\ node \notin {"build_payload", "publish_done"} => degraded = "none" /\ reasons # "all"
  /\ node \in {"build_payload", "publish_done"} /\ error = "none" /\ stage # "route" =>
       (degraded = "none" <=> reasons = "all")

(* A job starts undegraded.                                                 *)
LEMMA WarnedInit == Init => Warned /\ Recorded
  BY DEF Init, Warned, Recorded, Before

(* Every step that degrades the job adds its warning, and no other does.    *)
LEMMA WarnedNext == Inv /\ Warned /\ [Next]_vars => Warned'
<1> SUFFICES ASSUME Inv, Warned, [Next]_vars PROVE Warned'
  OBVIOUS
<1> USE DEF Inv, Asking, Stored, Idle, Warned, Before, request, found, timetable, llm, told
<1>1. CASE ParseInput
  BY <1>1 DEF ParseInput, At, Fail, GoUnlessError
<1>2. CASE FetchWeather
  BY <1>2 DEF FetchWeather, At, Clean, Go
<1>3. CASE PlanStrategy \/ LoadGivenPlaces \/ SearchPlaces
  BY <1>3 DEF PlanStrategy, LoadGivenPlaces, SearchPlaces, At, Clean, Fail, Go,
     GoUnlessError
<1>4. CASE RulesFilter \/ ScoreAndRank
  BY <1>4 DEF RulesFilter, ScoreAndRank, At, Go
<1>5. CASE RecommendPlacesWithoutModel \/ AskSelection
  BY <1>5 DEF RecommendPlacesWithoutModel, AskSelection, Ask, At, Clean, Fail, Go,
     GoUnlessError
<1>6. CASE SelectionAnswered
  BY <1>6 DEF SelectionAnswered, Answered, Fail, GoUnlessError
<1>7. CASE RecommendRoute
  BY <1>7 DEF RecommendRoute, At, Clean, Fail, GoUnlessError
<1>8. CASE BuildTimeline
  BY <1>8 DEF BuildTimeline, At, Clean, Go
<1>9. CASE FitTimeBudget
  BY <1>9 DEF FitTimeBudget, At, Clean, Fail, GoUnlessError, RefuseDays, TrimDays
<1>10. CASE AskReasons \/ ReasonsFailed
  BY <1>10 DEF AskReasons, ReasonsFailed, Ask, Answered, At, Clean, Go, Leave
<1>11. CASE ReasonsAnswered \/ CoverageAnswered
  BY <1>11 DEF ReasonsAnswered, CoverageAnswered, Ask, Answered, Go, Leave
<1>12. CASE CorrectiveRetry \/ BuildPayload
  BY <1>12 DEF CorrectiveRetry, BuildPayload, At, Go
<1>13. CASE PublishDone \/ NodeRaises \/ CutShort
  BY <1>13 DEF PublishDone, NodeRaises, CutShort
<1>14. CASE UNCHANGED vars
  BY <1>14 DEF vars
<1> QED BY <1>1, <1>2, <1>3, <1>4, <1>5, <1>6, <1>7, <1>8, <1>9, <1>10, <1>11, <1>12,
   <1>13, <1>14 DEF Next

(* llm_reason records what is missing in the step that leaves it.           *)
LEMMA RecordedNext == Inv /\ Recorded /\ [Next]_vars => Recorded'
<1> SUFFICES ASSUME Inv, Recorded, [Next]_vars PROVE Recorded'
  OBVIOUS
<1> USE DEF Inv, Asking, Stored, Idle, Recorded, request, found, timetable, llm, told
<1>1. CASE ParseInput \/ FetchWeather \/ PlanStrategy \/ LoadGivenPlaces
  BY <1>1 DEF ParseInput, FetchWeather, PlanStrategy, LoadGivenPlaces, At, Clean, Fail, Go,
     GoUnlessError
<1>2. CASE SearchPlaces \/ RulesFilter \/ ScoreAndRank
  BY <1>2 DEF SearchPlaces, RulesFilter, ScoreAndRank, At, Clean, Go
<1>3. CASE RecommendPlacesWithoutModel \/ AskSelection \/ SelectionAnswered
  BY <1>3 DEF RecommendPlacesWithoutModel, AskSelection, SelectionAnswered, Answered, Ask,
     At, Clean, Fail, Go, GoUnlessError
<1>4. CASE RecommendRoute \/ BuildTimeline
  BY <1>4 DEF RecommendRoute, BuildTimeline, At, Clean, Fail, Go, GoUnlessError
<1>5. CASE FitTimeBudget
  BY <1>5 DEF FitTimeBudget, TrimDays, RefuseDays, At, Clean, Fail, GoUnlessError
<1>6. CASE AskReasons \/ ReasonsFailed
  BY <1>6 DEF AskReasons, ReasonsFailed, Ask, Answered, At, Clean, Go, Leave
<1>7. CASE ReasonsAnswered
  BY <1>7 DEF ReasonsAnswered, Ask, Answered, Go, Leave
<1>8. CASE CoverageAnswered
  BY <1>8 DEF CoverageAnswered, Answered, Go, Leave
<1>9. CASE CorrectiveRetry \/ BuildPayload \/ PublishDone \/ NodeRaises \/ CutShort
  BY <1>9 DEF CorrectiveRetry, BuildPayload, PublishDone, NodeRaises, CutShort, At, Go
<1>10. CASE UNCHANGED vars
  BY <1>10 DEF vars
<1> QED BY <1>1, <1>2, <1>3, <1>4, <1>5, <1>6, <1>7, <1>8, <1>9, <1>10 DEF Next

(* A done payload warns of the forecast it lacks, the opening hours nobody  *)
(* checked and the days that were trimmed, and of nothing that did not      *)
(* happen; and reasons are missing exactly when the state says why.         *)
THEOREM DegradationToldHolds == Spec => []DegradationTold
<1>1. Inv /\ Warned /\ Recorded => DegradationTold
  BY DEF Inv, Stored, Warned, Recorded, DegradationTold
<1>2. Inv /\ Warned /\ Recorded /\ [Next]_vars => (Warned /\ Recorded)'
  BY WarnedNext, RecordedNext
<1> QED BY <1>1, <1>2, Invariance, WarnedInit, PTL DEF Spec

--------------------------------------------------------------------------------
(* No node writes an error over an earlier one: those that can fail are     *)
(* entered without one, directly or behind the question to the model.       *)
THEOREM FirstErrorStandsHolds == Spec => FirstErrorStands
<1> DEFINE Stands == error # "none" => error' = error
<1>1. ASSUME Inv, Warned, [Next]_vars PROVE [Stands]_vars
  <2> USE <1>1 DEF Inv, Asking, Idle
  <2>1. CASE ParseInput \/ FetchWeather \/ PlanStrategy \/ LoadGivenPlaces
    BY <2>1 DEF ParseInput, FetchWeather, PlanStrategy, LoadGivenPlaces, At, Clean,
       Warned
  <2>2. CASE SearchPlaces \/ RulesFilter \/ ScoreAndRank
    BY <2>2 DEF SearchPlaces, RulesFilter, ScoreAndRank, Clean
  <2>3. CASE RecommendPlacesWithoutModel \/ AskSelection \/ SelectionAnswered
    BY <2>3 DEF RecommendPlacesWithoutModel, AskSelection, SelectionAnswered, Clean,
       Answered
  <2>4. CASE RecommendRoute \/ BuildTimeline \/ FitTimeBudget
    BY <2>4 DEF RecommendRoute, BuildTimeline, FitTimeBudget, Clean
  <2>5. CASE AskReasons \/ ReasonsFailed \/ ReasonsAnswered \/ CoverageAnswered
    BY <2>5 DEF AskReasons, ReasonsFailed, ReasonsAnswered, CoverageAnswered
  <2>6. CASE CorrectiveRetry \/ BuildPayload \/ PublishDone \/ NodeRaises \/ CutShort
    BY <2>6 DEF CorrectiveRetry, BuildPayload, PublishDone, NodeRaises, CutShort
  <2> QED BY <2>1, <2>2, <2>3, <2>4, <2>5, <2>6 DEF Next
<1> QED BY <1>1, Invariance, WarnedInit, WarnedNext, PTL DEF Spec, FirstErrorStands

--------------------------------------------------------------------------------
(* The reasons cannot fail the job: once llm_reason is reached it ends done *)
(* or is cut short.                                                         *)
OnlyDoneAhead ==
  /\ node \in {"llm_reason", "build_payload", "publish_done"}
  /\ error = "none"
  /\ outcome \in {"running", "done", "cut_short"}

(* A job that is not cut short ends with publish_done, or where a node      *)
(* raised, and stays there.                                                 *)
Ended ==
  outcome \notin {"running", "cut_short"} =>
    node \in {"fetch_weather", "search_places", "rules_filter", "score_and_rank",
             "build_timeline", "publish_done"}

(* A job starts running.                                                    *)
LEMMA EndedInit == Init => Ended
  BY DEF Init, Ended

(* No node runs, and no answer is awaited, after the end.                   *)
LEMMA EndedNext == Inv /\ Ended /\ [Next]_vars => Ended'
<1> SUFFICES ASSUME Inv, Ended, [Next]_vars PROVE Ended'
  OBVIOUS
<1> USE DEF Inv, Asking, Idle, Ended
<1>1. CASE UNCHANGED vars
  BY <1>1 DEF vars
<1>2. CASE PublishDone \/ NodeRaises \/ CutShort
  BY <1>2 DEF PublishDone, NodeRaises, CutShort, Calling, At, Clean
<1>3. CASE ParseInput \/ FetchWeather \/ PlanStrategy \/ LoadGivenPlaces
  BY <1>3 DEF ParseInput, FetchWeather, PlanStrategy, LoadGivenPlaces, At, Clean
<1>4. CASE SearchPlaces \/ RulesFilter \/ ScoreAndRank \/ RecommendPlacesWithoutModel
  BY <1>4 DEF SearchPlaces, RulesFilter, ScoreAndRank, RecommendPlacesWithoutModel, At,
     Clean
<1>5. CASE AskSelection \/ SelectionAnswered
  BY <1>5 DEF AskSelection, SelectionAnswered, Answered, At, Clean
<1>6. CASE RecommendRoute \/ BuildTimeline \/ FitTimeBudget \/ BuildPayload
  BY <1>6 DEF RecommendRoute, BuildTimeline, FitTimeBudget, BuildPayload, At, Clean
<1>7. CASE AskReasons \/ ReasonsFailed \/ ReasonsAnswered \/ CoverageAnswered
  BY <1>7 DEF AskReasons, ReasonsFailed, ReasonsAnswered, CoverageAnswered, Answered, At,
     Clean
<1>8. CASE CorrectiveRetry
  BY <1>8 DEF CorrectiveRetry
<1> QED BY <1>1, <1>2, <1>3, <1>4, <1>5, <1>6, <1>7, <1>8 DEF Next

(* At llm_reason nothing has gone wrong, and the job runs or was cut short. *)
LEMMA ReasonsReached == Inv /\ Ended /\ node = "llm_reason" => OnlyDoneAhead
<1> SUFFICES ASSUME Inv, Ended, node = "llm_reason" PROVE OnlyDoneAhead
  OBVIOUS
<1>1. error = "none" /\ outcome \in {"running", "cut_short"}
  BY DEF Inv, Stored, Ended
<1> QED BY <1>1 DEF OnlyDoneAhead

(* From there every step leads to the end, and to none but these two.       *)
LEMMA OnlyDoneStays == Inv /\ OnlyDoneAhead /\ [Next]_vars => OnlyDoneAhead'
<1> SUFFICES ASSUME Inv, OnlyDoneAhead, [Next]_vars PROVE OnlyDoneAhead'
  OBVIOUS
<1> USE DEF Inv, Asking, OnlyDoneAhead, request, found, timetable, llm, told
<1>1. CASE UNCHANGED vars
  BY <1>1 DEF vars
<1>2. CASE AskReasons \/ ReasonsFailed \/ ReasonsAnswered \/ CoverageAnswered
  BY <1>2 DEF AskReasons, ReasonsFailed, ReasonsAnswered, CoverageAnswered,
     Answered, Ask, At, Clean, Go, Leave
<1>3. CASE BuildPayload \/ PublishDone
  BY <1>3 DEF BuildPayload, PublishDone, At, Go
<1>4. CASE CorrectiveRetry \/ CutShort
  BY <1>4 DEF CorrectiveRetry, CutShort
<1>5. ~SelectionAnswered
  BY DEF SelectionAnswered, Answered
<1>6. /\ ~ParseInput /\ ~FetchWeather /\ ~PlanStrategy /\ ~LoadGivenPlaces /\ ~SearchPlaces
      /\ ~RulesFilter /\ ~ScoreAndRank /\ ~RecommendPlacesWithoutModel /\ ~AskSelection
      /\ ~RecommendRoute /\ ~BuildTimeline /\ ~FitTimeBudget /\ ~NodeRaises
  BY DEF ParseInput, FetchWeather, PlanStrategy, LoadGivenPlaces, SearchPlaces, RulesFilter,
     ScoreAndRank, RecommendPlacesWithoutModel, AskSelection, RecommendRoute, BuildTimeline,
     FitTimeBudget, NodeRaises, Calling, Clean, At
<1> QED BY <1>1, <1>2, <1>3, <1>4, <1>5, <1>6 DEF Next

(* Once llm_reason is reached the job never fails or raises, whatever       *)
(* Gemini and the limiter answer and whatever is left of the budget: it     *)
(* ends done, or at the deadline or the shutdown that cuts it short.        *)
THEOREM ReasonsNeverFailTheJob ==
  Spec => [](node = "llm_reason" => [](outcome \notin {"failed", "raised"}))
<1>1. OnlyDoneAhead => outcome \notin {"failed", "raised"}
  BY DEF OnlyDoneAhead
<1>2. QED
  BY Invariance, EndedInit, EndedNext, ReasonsReached, OnlyDoneStays, <1>1, PTL DEF Spec

(* How many steps a job has left: the nodes ahead of it, the requests it    *)
(* may still make, and its end.                                             *)
Ahead(n) ==
  CASE n = "parse_input" -> 13       [] n = "fetch_weather" -> 12
    [] n = "plan_strategy" -> 11     [] n = "search_places" -> 10
    [] n = "rules_filter" -> 9       [] n = "score_and_rank" -> 8
    [] n = "load_given_places" -> 7  [] n = "recommend_places" -> 6
    [] n = "recommend_route" -> 5    [] n = "build_timeline" -> 4
    [] n = "fit_time_budget" -> 3    [] n = "llm_reason" -> 2
    [] n = "build_payload" -> 1      [] n = "publish_done" -> 0

Remaining ==
  Ahead(node) + (MaxCalls - calls) + (IF outcome = "running" THEN 1 ELSE 0)

LEMMA RemainingBounds == Inv => Remaining \in 0 .. MaxCalls + 14
<1> SUFFICES ASSUME Inv PROVE Remaining \in 0 .. MaxCalls + 14
  OBVIOUS
<1>1. node \in Nodes /\ calls \in 0 .. MaxCalls
  BY DEF Inv, TypeOK, ValuesOK
<1>2. Ahead(node) \in 0 .. 13
  BY <1>1 DEF Ahead, Nodes
<1> QED BY <1>1, <1>2, PipelineAssumption DEF Remaining

LEMMA StepsAreSpent == Inv /\ Next => Remaining' < Remaining
<1> SUFFICES ASSUME Inv, Next PROVE Remaining' < Remaining
  OBVIOUS
<1>1. node \in Nodes /\ calls \in 0 .. MaxCalls /\ MaxCalls \in Nat
  BY PipelineAssumption DEF Inv, TypeOK, ValuesOK
<1> DEFINE Moves == /\ outcome' = outcome /\ calls' = calls
                    /\ Ahead(node') \in Int /\ Ahead(node') < Ahead(node)
           Asks == outcome' = outcome /\ node' = node /\ calls' = calls + 1
           Stops == outcome = "running" /\ outcome' # "running" /\ node' = node /\ calls' = calls
<1>2. Moves \/ Asks \/ Stops
  <2> USE DEF Inv, Asking, request, found, timetable, llm, told, Ahead
  <2>1. CASE ParseInput \/ FetchWeather \/ PlanStrategy \/ LoadGivenPlaces
    BY <2>1 DEF ParseInput, FetchWeather, PlanStrategy, LoadGivenPlaces, At, Clean, Go,
       GoUnlessError
  <2>2. CASE SearchPlaces \/ RulesFilter \/ ScoreAndRank \/ RecommendPlacesWithoutModel
    BY <2>2 DEF SearchPlaces, RulesFilter, ScoreAndRank, RecommendPlacesWithoutModel, At,
       Clean, Go, GoUnlessError
  <2>3. CASE AskSelection \/ SelectionAnswered
    BY <2>3 DEF AskSelection, SelectionAnswered, Answered, Ask, At, Clean, Go, GoUnlessError
  <2>4. CASE RecommendRoute \/ BuildTimeline \/ FitTimeBudget
    BY <2>4 DEF RecommendRoute, BuildTimeline, FitTimeBudget, At, Clean, Go, GoUnlessError
  <2>5. CASE AskReasons \/ ReasonsFailed \/ ReasonsAnswered \/ CoverageAnswered
    BY <2>5 DEF AskReasons, ReasonsFailed, ReasonsAnswered, CoverageAnswered, Answered, Ask,
       At, Clean, Go, Leave
  <2>6. CASE CorrectiveRetry \/ BuildPayload \/ PublishDone \/ NodeRaises \/ CutShort
    BY <2>6 DEF CorrectiveRetry, BuildPayload, PublishDone, NodeRaises, CutShort, Calling, At,
       Clean, Go
  <2> QED BY <2>1, <2>2, <2>3, <2>4, <2>5, <2>6 DEF Next
<1>3. Ahead(node) \in Int
  BY <1>1 DEF Ahead, Nodes
<1> QED BY <1>1, <1>2, <1>3 DEF Remaining

(* No job goes round in circles: whatever hub and Gemini answer, its steps  *)
(* are at most fourteen and one for every request of its budget.            *)
THEOREM JobsAreBounded ==
  Spec => [](Remaining \in 0 .. MaxCalls + 14) /\ [][Remaining' < Remaining]_vars
<1>1. Inv /\ [Next]_vars => [Remaining' < Remaining]_vars
  BY StepsAreSpent
<1>2. QED
  BY Invariance, RemainingBounds, <1>1, PTL DEF Spec

--------------------------------------------------------------------------------
(* The review summaries.                                                    *)

(* Of the items that fit, one comes first.                                  *)
LEMMA First ==
  ASSUME NEW T \in SUBSET Nat, T # {}
  PROVE  \E p \in T : \A q \in T : ~(q < p)
<1>1. PICK R : IsWellFoundedOn(R, Nat) /\ \A x, y \in Nat : y < x => <<y, x>> \in R
  BY NatLessThanWellFounded DEF OpToRel
<1>3. PICK p \in T : \A q \in T : <<q, p>> \notin R
  BY <1>1, WFMin
<1>4. \A q \in T : ~(q < p)
  BY <1>1, <1>3
<1>5. QED
  BY <1>4

--------------------------------------------------------------------------------
SummaryTypes ==
  /\ step \in {"idle", "prepare", "summarize", "waiting", "collect", "respond", "replied"}
  /\ single \in BOOLEAN
  /\ enabled \in BOOLEAN
  /\ budget \in Nat
  /\ posted \in Seq(BOOLEAN)
  /\ single /\ step # "idle" => Len(posted) = 1
  /\ used \in Nat
  /\ ended \in {"none", "valid", "invalid", "truncated", "limited", "refused", "failed"}
  /\ items \in Seq([id : Int, lines : Nat])

(* The graph asks Gemini only with evidence, and with a view of all of it.  *)
Asked ==
  /\ step \in {"summarize", "waiting", "collect"} \/ used > 0 \/ ended # "none" =>
       enabled /\ WithEvidence # {} /\ views = Views
  /\ step = "prepare" => enabled
  /\ step = "respond" /\ ended = "none" => ~enabled \/ WithEvidence = {}
  /\ used <= budget /\ used <= 2

(* How the call ended is told at the end only.                              *)
Told ==
  /\ step \in {"idle", "prepare", "summarize"} => used = 0 /\ ended = "none"
  /\ step = "waiting" => used > 0 /\ ended \in {"none", "invalid"}
  /\ step = "collect" => ended = "valid"
  /\ step = "respond" => ended \in {"none", "valid"}
  /\ step # "replied" => reply = NoReply
  /\ step \in {"idle", "prepare", "summarize", "waiting"} => items = << >>
  /\ step # "respond" /\ step # "replied" => DOMAIN bullets = {}
  /\ ended # "valid" => items = << >> /\ DOMAIN bullets = {}

(* Where the two lines of a place come from.                                *)
Kept ==
  /\ \A i \in DOMAIN bullets :
       /\ i \in WithEvidence
       /\ bullets[i] \in DOMAIN items /\ items[bullets[i]].id = i
  /\ step \in {"respond", "replied"} =>
       \A p \in DOMAIN items :
         items[p].id \in WithEvidence /\ items[p].lines >= BulletLines =>
           items[p].id \in DOMAIN bullets

SummaryInv ==
  /\ SummaryTypes /\ Asked /\ Told /\ Kept
  /\ SummariesBelong /\ NothingUsableLost /\ StatusTellsCause

(* WithEvidence and Views speak of the request alone.                       *)
LEMMA EvidenceFixed ==
  ASSUME UNCHANGED posted
  PROVE  WithEvidence' = WithEvidence /\ Views' = Views
  BY DEF WithEvidence, Views

LEMMA InitInv == SummaryInit => SummaryInv
<1> SUFFICES ASSUME SummaryInit PROVE SummaryInv
  OBVIOUS
<1>1. SummaryTypes
  <2>1. posted \in Seq(BOOLEAN) /\ items \in Seq([id : Int, lines : Nat])
    BY DEF SummaryInit
  <2>2. QED
    BY <2>1 DEF SummaryInit, SummaryTypes
<1>4. Asked /\ Told
  <2>1. DOMAIN bullets = {}
    BY DEF SummaryInit
  <2>2. QED
    BY <2>1 DEF SummaryInit, Asked, Told
<1>2. DOMAIN items = {} /\ DOMAIN bullets = {} /\ DOMAIN reply.results = {} /\ reply.status = 0
  BY DEF SummaryInit, NoReply
<1>3. Kept /\ SummariesBelong /\ NothingUsableLost /\ StatusTellsCause
  BY <1>2 DEF SummaryInit, Kept, SummariesBelong, NothingUsableLost, StatusTellsCause
<1>5. QED
  BY <1>1, <1>3, <1>4 DEF SummaryInv

LEMMA ReceiveKeeps ==
  ASSUME SummaryInv, Receive
  PROVE  SummaryInv'
<1>1. /\ step = "idle" /\ step' \in {"prepare", "respond"}
      /\ (step' = "respond" <=> ~enabled')
      /\ single' \in BOOLEAN /\ enabled' \in BOOLEAN /\ budget' \in Budgets /\ posted' \in Posts
      /\ single' => Len(posted') = 1
      /\ UNCHANGED <<views, used, ended, items, bullets, reply>>
  BY DEF Receive
<1>2. used = 0 /\ ended = "none" /\ reply = NoReply /\ items = << >> /\ DOMAIN bullets = {}
  BY <1>1 DEF SummaryInv, Told
<1>3. budget' \in Nat /\ posted' \in Seq(BOOLEAN)
  BY <1>1, SummaryAssumption
<1>4. SummaryTypes' /\ Asked' /\ Told'
  BY <1>1, <1>2, <1>3 DEF SummaryInv, SummaryTypes, Asked, Told
<1>5. DOMAIN items' = {} /\ DOMAIN bullets' = {} /\ reply'.status = 0 /\ DOMAIN reply'.results = {}
  BY <1>1, <1>2 DEF NoReply
<1>6. Kept' /\ SummariesBelong' /\ NothingUsableLost'
  BY <1>5 DEF Kept, SummariesBelong, NothingUsableLost
<1>7. StatusTellsCause'
  BY <1>1 DEF StatusTellsCause
<1>8. QED
  BY <1>4, <1>6, <1>7 DEF SummaryInv

LEMMA PrepareKeeps ==
  ASSUME SummaryInv, PreparePlaces
  PROVE  SummaryInv'
<1>1. /\ step = "prepare" /\ views' = Views
      /\ step' = IF views' = {} THEN "respond" ELSE "summarize"
      /\ UNCHANGED <<single, enabled, budget, posted, used, ended, items, bullets, reply>>
  BY DEF PreparePlaces, AfterPrepare, config
<1>2. used = 0 /\ ended = "none" /\ reply = NoReply /\ items = << >> /\ DOMAIN bullets = {}
  BY <1>1 DEF SummaryInv, Told
<1>3. WithEvidence' = WithEvidence /\ Views' = Views
  BY <1>1, EvidenceFixed
<1>4. Views = {} <=> WithEvidence = {}
  BY DEF Views
<1>5. SummaryTypes' /\ Told'
  BY <1>1, <1>2 DEF SummaryInv, SummaryTypes, Told
<1>10. Asked'
  BY <1>1, <1>2, <1>3, <1>4 DEF SummaryInv, Asked
<1>6. DOMAIN items' = {} /\ DOMAIN bullets' = {} /\ reply'.status = 0 /\ DOMAIN reply'.results = {}
  BY <1>1, <1>2 DEF NoReply
<1>7. Kept' /\ SummariesBelong' /\ NothingUsableLost'
  BY <1>6 DEF Kept, SummariesBelong, NothingUsableLost
<1>8. StatusTellsCause'
  BY <1>1 DEF StatusTellsCause
<1>9. QED
  BY <1>5, <1>7, <1>8, <1>10 DEF SummaryInv

(* A reply without summaries.                                               *)
LEMMA RefusalKeeps ==
  ASSUME SummaryInv, NEW code \in {429, 502},
         reply' = [status |-> code, results |-> << >>],
         step' = "replied", UNCHANGED <<config, views, items, bullets>>,
         step \in {"summarize", "waiting"},
         used' \in Nat, used' <= budget, used' <= 2,
         ended' \in {"none", "invalid", "truncated", "limited", "refused", "failed"},
         code = 429 <=> ended' \in {"none", "limited"}
  PROVE  SummaryInv'
<1>1. UNCHANGED <<single, enabled, budget, posted>>
  BY DEF config
<1>2. /\ enabled /\ WithEvidence # {} /\ views = Views
      /\ items = << >> /\ DOMAIN bullets = {}
  BY DEF SummaryInv, Asked, Told
<1>3. WithEvidence' = WithEvidence /\ Views' = Views
  BY <1>1, EvidenceFixed
<1>4. SummaryTypes' /\ Told'
  BY <1>1, <1>2 DEF SummaryInv, SummaryTypes, Told
<1>5. Asked'
  BY <1>1, <1>2, <1>3 DEF Asked
<1>6. DOMAIN items' = {} /\ DOMAIN bullets' = {} /\ reply'.status = code /\ DOMAIN reply'.results = {}
  BY <1>2
<1>7. Kept' /\ SummariesBelong' /\ NothingUsableLost'
  BY <1>6 DEF Kept, SummariesBelong, NothingUsableLost
<1>8. StatusTellsCause'
  BY <1>1, <1>2, <1>3, <1>6 DEF StatusTellsCause
<1>9. QED
  BY <1>4, <1>5, <1>7, <1>8 DEF SummaryInv

(* Gemini is asked, for the first time or again.                            *)
LEMMA AskingKeeps ==
  ASSUME SummaryInv, step \in {"summarize", "waiting"}, step' = "waiting",
         UNCHANGED <<config, views, items, bullets, reply>>,
         used < budget, used < 2, used' = used + 1, ended' \in {"none", "invalid"}
  PROVE  SummaryInv'
<1>1. UNCHANGED <<single, enabled, budget, posted>>
  BY DEF config
<1>2. /\ enabled /\ WithEvidence # {} /\ views = Views
      /\ items = << >> /\ DOMAIN bullets = {} /\ reply = NoReply
  BY DEF SummaryInv, Asked, Told
<1>3. WithEvidence' = WithEvidence /\ Views' = Views
  BY <1>1, EvidenceFixed
<1>4. used' \in Nat /\ used' > 0 /\ used' <= budget /\ used' <= 2
  BY DEF SummaryInv, SummaryTypes
<1>5. SummaryTypes' /\ Told'
  BY <1>1, <1>2, <1>4 DEF SummaryInv, SummaryTypes, Told
<1>6. Asked'
  BY <1>1, <1>2, <1>3, <1>4 DEF Asked
<1>7. DOMAIN items' = {} /\ DOMAIN bullets' = {} /\ reply'.status = 0 /\ DOMAIN reply'.results = {}
  BY <1>2 DEF NoReply
<1>8. Kept' /\ SummariesBelong' /\ NothingUsableLost'
  BY <1>7 DEF Kept, SummariesBelong, NothingUsableLost
<1>9. StatusTellsCause'
  BY DEF StatusTellsCause
<1>10. QED
  BY <1>5, <1>6, <1>8, <1>9 DEF SummaryInv

LEMMA SummarizeKeeps ==
  ASSUME SummaryInv, Summarize
  PROVE  SummaryInv'
<1>1. /\ step = "summarize" /\ UNCHANGED <<config, views, ended, items, bullets>>
      /\ used = 0 /\ ended = "none" /\ used <= budget
  BY DEF Summarize, SummaryInv, Told, Asked
<1>2. CASE used < budget
  <2>1. used' = used + 1 /\ step' = "waiting" /\ UNCHANGED reply
    BY <1>2 DEF Summarize
  <2>2. QED
    BY <1>1, <1>2, <2>1, AskingKeeps
<1>3. CASE ~(used < budget)
  <2>1. reply' = [status |-> 429, results |-> << >>] /\ step' = "replied" /\ UNCHANGED used
    BY <1>3 DEF Summarize, RateLimited
  <2>2. QED
    BY <1>1, <2>1, RefusalKeeps
<1>4. QED
  BY <1>2, <1>3

LEMMA InvalidKeeps ==
  ASSUME SummaryInv, GeminiAnswersInvalid
  PROVE  SummaryInv'
<1>1. /\ step = "waiting" /\ UNCHANGED <<config, views, items, bullets>>
      /\ ended' \in {"invalid", "truncated"} /\ CorrectOrRaise
      /\ used \in Nat /\ used <= budget /\ used <= 2
  BY DEF GeminiAnswersInvalid, SummaryInv, SummaryTypes, Asked
<1>2. CASE ended' = "invalid" /\ used = 1 /\ used < budget
  <2>1. used' = used + 1 /\ UNCHANGED <<step, reply>>
    BY <1>1, <1>2 DEF CorrectOrRaise
  <2>2. QED
    BY <1>1, <1>2, <2>1, AskingKeeps
<1>3. CASE ~(ended' = "invalid" /\ used = 1 /\ used < budget)
  <2>1. reply' = [status |-> 502, results |-> << >>] /\ step' = "replied" /\ UNCHANGED used
    BY <1>1, <1>3 DEF CorrectOrRaise, Unavailable
  <2>2. QED
    BY <1>1, <2>1, RefusalKeeps
<1>4. QED
  BY <1>2, <1>3

LEMMA LimiterKeeps ==
  ASSUME SummaryInv, LimiterRefuses
  PROVE  SummaryInv'
<1>1. /\ step = "waiting" /\ step' = "replied" /\ ended' = "limited"
      /\ UNCHANGED <<config, views, used, items, bullets>>
      /\ reply' = [status |-> 429, results |-> << >>]
      /\ used \in Nat /\ used <= budget /\ used <= 2
  BY DEF LimiterRefuses, RateLimited, SummaryInv, SummaryTypes, Asked
<1>2. QED
  BY <1>1, RefusalKeeps

LEMMA FailKeeps ==
  ASSUME SummaryInv, GeminiFails
  PROVE  SummaryInv'
<1>1. /\ step = "waiting" /\ step' = "replied" /\ ended' \in {"refused", "failed"}
      /\ UNCHANGED <<config, views, used, items, bullets>>
      /\ reply' = [status |-> 502, results |-> << >>]
      /\ used \in Nat /\ used <= budget /\ used <= 2
  BY DEF GeminiFails, Unavailable, SummaryInv, SummaryTypes, Asked
<1>2. QED
  BY <1>1, RefusalKeeps

(* A valid answer is taken as it comes.                                     *)
LEMMA AnswerKeeps ==
  ASSUME SummaryInv, GeminiAnswers
  PROVE  SummaryInv'
<1>1. /\ step = "waiting" /\ step' = "collect" /\ ended' = "valid" /\ items' \in Answers
      /\ UNCHANGED <<single, enabled, budget, posted, views, used, bullets, reply>>
  BY DEF GeminiAnswers, config
<1>2. /\ enabled /\ WithEvidence # {} /\ views = Views
      /\ DOMAIN bullets = {} /\ reply = NoReply /\ used > 0
  BY <1>1 DEF SummaryInv, Asked, Told
<1>3. WithEvidence' = WithEvidence /\ Views' = Views
  BY <1>1, EvidenceFixed
<1>4. items' \in Seq([id : Int, lines : Nat])
  BY <1>1, SummaryAssumption
<1>5. SummaryTypes' /\ Told'
  BY <1>1, <1>2, <1>4 DEF SummaryInv, SummaryTypes, Told
<1>6. Asked'
  BY <1>1, <1>2, <1>3 DEF SummaryInv, Asked
<1>7. DOMAIN bullets' = {} /\ reply'.status = 0 /\ DOMAIN reply'.results = {}
  BY <1>1, <1>2 DEF NoReply
<1>8. Kept' /\ SummariesBelong' /\ NothingUsableLost'
  BY <1>1, <1>7 DEF Kept, SummariesBelong, NothingUsableLost
<1>9. StatusTellsCause'
  BY <1>1 DEF StatusTellsCause
<1>10. QED
  BY <1>5, <1>6, <1>8, <1>9 DEF SummaryInv

(* The loop of collect_bullets: a place that is named twice gets its lines  *)
(* from the first item that has enough of them.                             *)
LEMMA CollectKeeps ==
  ASSUME SummaryInv, CollectBullets
  PROVE  SummaryInv'
<1> DEFINE valid == {v.id : v \in views}
           taken == {p \in DOMAIN items : items[p].id \in valid /\ Taken(p)}
<1>1. /\ step = "collect" /\ step' = "respond"
      /\ bullets' = [i \in {items[p].id : p \in taken} |->
                       CHOOSE p \in taken : items[p].id = i]
      /\ UNCHANGED <<single, enabled, budget, posted, views, used, ended, items, reply>>
  BY DEF CollectBullets, config
<1>2. ended = "valid" /\ WithEvidence # {} /\ enabled /\ views = Views /\ reply = NoReply
  BY <1>1 DEF SummaryInv, Told, Asked
<1>3. WithEvidence' = WithEvidence /\ Views' = Views
  BY <1>1, EvidenceFixed
<1>4. valid = WithEvidence
  <2>1. \A v \in Views : v.id \in WithEvidence
    BY DEF Views
  <2>2. ASSUME NEW i \in WithEvidence PROVE \E v \in Views : v.id = i
    <3>1. [id |-> i, place |-> i] \in Views
      BY DEF Views
    <3>2. [id |-> i, place |-> i].id = i
      OBVIOUS
    <3>3. QED
      BY <3>1, <3>2
  <2>3. QED
    BY <1>2, <2>1, <2>2
<1>5. /\ Len(items) \in Nat /\ DOMAIN items = 1 .. Len(items)
      /\ \A p \in DOMAIN items : items[p].id \in Int /\ items[p].lines \in Nat
  <2> DEFINE E == [id : Int, lines : Nat]
  <2>1. items \in Seq(E)
    BY DEF SummaryInv, SummaryTypes
  <2>2. \A e \in E : e.id \in Int /\ e.lines \in Nat
    OBVIOUS
  <2> HIDE DEF E
  <2>3. Len(items) \in Nat /\ DOMAIN items = 1 .. Len(items)
    BY <2>1
  <2>4. \A p \in 1 .. Len(items) : items[p] \in E
    BY <2>1
  <2>5. QED
    BY <2>2, <2>3, <2>4
<1>6. ASSUME NEW p \in DOMAIN items, items[p].id \in WithEvidence,
             items[p].lines >= BulletLines
      PROVE  \E q \in taken : items[q].id = items[p].id
  <2> DEFINE T == {q \in DOMAIN items : items[q].id = items[p].id
                                        /\ items[q].lines >= BulletLines}
  <2>1. T \in SUBSET Nat /\ p \in T
    <3>1. p \in T
      BY <1>6
    <3>2. (1 .. Len(items)) \subseteq Nat
      BY <1>5
    <3>3. QED
      BY <1>5, <3>1, <3>2
  <2>2. PICK f \in T : \A q \in T : ~(q < f)
    BY <2>1, First
  <2>3. f \in 1 .. Len(items) /\ items[f].id = items[p].id /\ items[f].lines >= BulletLines
    BY <1>5, <2>2
  <2>4. ASSUME NEW q \in 1 .. f - 1, items[q].id = items[f].id
        PROVE  items[q].lines < BulletLines
    <3>1. q \in DOMAIN items /\ q < f
      BY <1>5, <2>3
    <3>2. q \notin T
      BY <2>2, <3>1
    <3>3. ~(items[q].lines >= BulletLines) /\ items[q].lines \in Nat
      BY <1>5, <2>3, <2>4, <3>1, <3>2
    <3>4. QED
      BY <3>3 DEF BulletLines
  <2>5. Taken(f)
    BY <2>3, <2>4 DEF Taken
  <2>6. QED
    BY <1>4, <1>5, <1>6, <2>3, <2>5
<1> HIDE DEF valid
<1>7. ASSUME NEW p \in taken
      PROVE  p \in DOMAIN items /\ items[p].id \in WithEvidence
  BY <1>4
<1> HIDE DEF taken
<1>8. Kept'
  <2>1. ASSUME NEW i \in DOMAIN bullets'
        PROVE  i \in WithEvidence /\ bullets'[i] \in DOMAIN items /\ items[bullets'[i]].id = i
    <3>1. PICK p \in taken : items[p].id = i
      BY <1>1
    <3>2. bullets'[i] = CHOOSE q \in taken : items[q].id = i
      BY <1>1
    <3>3. bullets'[i] \in taken /\ items[bullets'[i]].id = i
      BY <3>1, <3>2
    <3>4. QED
      BY <1>7, <3>3
  <2>2. ASSUME NEW p \in DOMAIN items, items[p].id \in WithEvidence,
               items[p].lines >= BulletLines
        PROVE  items[p].id \in DOMAIN bullets'
    BY <1>1, <1>6, <2>2
  <2>3. QED
    BY <1>1, <1>3, <2>1, <2>2 DEF Kept
<1>9. SummaryTypes' /\ Told' /\ Asked'
  BY <1>1, <1>2, <1>3 DEF SummaryInv, SummaryTypes, Told, Asked
<1>10. reply'.status = 0 /\ DOMAIN reply'.results = {}
  BY <1>1, <1>2 DEF NoReply
<1>11. SummariesBelong' /\ NothingUsableLost' /\ StatusTellsCause'
  BY <1>1, <1>10 DEF SummariesBelong, NothingUsableLost, StatusTellsCause
<1>12. QED
  BY <1>8, <1>9, <1>11 DEF SummaryInv

(* The answer: all summaries, or the one of the only place.                 *)
LEMMA RespondKeeps ==
  ASSUME SummaryInv, Respond
  PROVE  SummaryInv'
<1> DEFINE results == IF single THEN [i \in DOMAIN bullets \cap {0} |-> bullets[i]] ELSE bullets
<1>1. /\ step = "respond" /\ step' = "replied"
      /\ reply' = [status |-> 200, results |-> results]
      /\ UNCHANGED <<single, enabled, budget, posted, views, used, ended, items, bullets>>
  BY DEF Respond, config
<1>2. WithEvidence' = WithEvidence /\ Views' = Views
  BY <1>1, EvidenceFixed
<1>3. \A i \in DOMAIN results : i \in DOMAIN bullets /\ results[i] = bullets[i]
  OBVIOUS
<1>4. single => WithEvidence \subseteq {0}
  <2>1. single => Len(posted) = 1
    BY <1>1 DEF SummaryInv, SummaryTypes
  <2>2. Len(posted) = 1 => \A i \in 0 .. Len(posted) - 1 : i = 0
    OBVIOUS
  <2>3. WithEvidence \subseteq 0 .. Len(posted) - 1
    BY DEF WithEvidence
  <2>4. QED
    BY <2>1, <2>2, <2>3
<1>5. \A i \in DOMAIN bullets \cap WithEvidence : i \in DOMAIN results
  BY <1>4
<1> HIDE DEF results
<1>6. SummaryTypes' /\ Told' /\ Asked' /\ Kept'
  BY <1>1, <1>2 DEF SummaryInv, SummaryTypes, Told, Asked, Kept
<1>7. reply'.status = 200 /\ reply'.results = results
  BY <1>1
<1>8. SummariesBelong'
  <2>1. ASSUME NEW i \in DOMAIN results
        PROVE  posted[i + 1] /\ items[results[i]].id = i /\ [id |-> i, place |-> i] \in views
    <3>1. i \in DOMAIN bullets /\ results[i] = bullets[i]
      BY <1>3
    <3>2. i \in WithEvidence /\ items[bullets[i]].id = i
      BY <3>1 DEF SummaryInv, Kept
    <3>3. ended = "valid"
      BY <3>1 DEF SummaryInv, Told
    <3>4. views = Views
      BY <3>3 DEF SummaryInv, Asked
    <3>5. posted[i + 1]
      BY <3>2 DEF WithEvidence
    <3>6. [id |-> i, place |-> i] \in views
      BY <3>2, <3>4 DEF Views
    <3>7. QED
      BY <3>1, <3>2, <3>5, <3>6
  <2>2. QED
    BY <1>1, <1>7, <2>1 DEF SummariesBelong
<1>9. NothingUsableLost'
  <2>1. ASSUME NEW p \in DOMAIN items, items[p].id \in WithEvidence,
               items[p].lines >= BulletLines
        PROVE  items[p].id \in DOMAIN results
    <3>1. items[p].id \in DOMAIN bullets
      BY <1>1, <2>1 DEF SummaryInv, Kept
    <3>2. QED
      BY <1>5, <2>1, <3>1
  <2>2. QED
    BY <1>1, <1>2, <1>7, <2>1 DEF NothingUsableLost
<1>10. StatusTellsCause'
  <2>1. ended \in {"none", "valid"} /\ (ended = "none" => ~enabled \/ WithEvidence = {})
    BY <1>1 DEF SummaryInv, Told, Asked
  <2>2. QED
    BY <1>1, <1>2, <1>7, <2>1 DEF StatusTellsCause
<1>11. QED
  BY <1>6, <1>8, <1>9, <1>10 DEF SummaryInv

LEMMA StutterKeeps ==
  ASSUME SummaryInv, UNCHANGED summaryVars
  PROVE  SummaryInv'
<1>1. UNCHANGED <<step, single, enabled, budget, posted, views, used, ended, items, bullets,
                  reply>>
  BY DEF summaryVars, config
<1>2. WithEvidence' = WithEvidence /\ Views' = Views
  BY <1>1, EvidenceFixed
<1>3. SummaryTypes' /\ Asked' /\ Told' /\ Kept'
  BY <1>1, <1>2 DEF SummaryInv, SummaryTypes, Asked, Told, Kept
<1>4. SummariesBelong' /\ NothingUsableLost' /\ StatusTellsCause'
  BY <1>1, <1>2 DEF SummaryInv, SummariesBelong, NothingUsableLost, StatusTellsCause
<1>5. QED
  BY <1>3, <1>4 DEF SummaryInv

(* The invariant holds at the start and every step keeps it.                *)
LEMMA SummaryInvariance == SummarySpec => []SummaryInv
<1>1. SummaryInv /\ [SummaryNext]_summaryVars => SummaryInv'
  <2> SUFFICES ASSUME SummaryInv, [SummaryNext]_summaryVars PROVE SummaryInv'
    OBVIOUS
  <2>1. CASE Receive
    BY <2>1, ReceiveKeeps
  <2>2. CASE PreparePlaces
    BY <2>2, PrepareKeeps
  <2>3. CASE Summarize
    BY <2>3, SummarizeKeeps
  <2>4. CASE GeminiAnswers
    BY <2>4, AnswerKeeps
  <2>5. CASE GeminiAnswersInvalid
    BY <2>5, InvalidKeeps
  <2>6. CASE GeminiFails
    BY <2>6, FailKeeps
  <2>7. CASE CollectBullets
    BY <2>7, CollectKeeps
  <2>8. CASE Respond
    BY <2>8, RespondKeeps
  <2>9. CASE LimiterRefuses
    BY <2>9, LimiterKeeps
  <2>10. CASE UNCHANGED summaryVars
    BY <2>10, StutterKeeps
  <2>11. QED
    BY <2>1, <2>2, <2>3, <2>4, <2>5, <2>6, <2>7, <2>8, <2>9, <2>10 DEF SummaryNext
<1>2. QED
  BY <1>1, InitInv, PTL DEF SummarySpec

--------------------------------------------------------------------------------
(* A summary is about the place at whose position it stands, for lists and  *)
(* answers of any length.                                                   *)
THEOREM SummariesBelongHolds == SummarySpec => []SummariesBelong
<1>1. SummaryInv => SummariesBelong
  BY DEF SummaryInv
<1>2. QED
  BY <1>1, SummaryInvariance, PTL

(* No item of an answer that passes the schema costs another one its place, *)
(* wherever it stands.                                                      *)
THEOREM NothingUsableLostHolds == SummarySpec => []NothingUsableLost
<1>1. SummaryInv => NothingUsableLost
  BY DEF SummaryInv
<1>2. QED
  BY <1>1, SummaryInvariance, PTL

(* The status tells a limit of the service from an answer of Gemini that is *)
(* unusable or missing, for every budget.                                   *)
THEOREM StatusTellsCauseHolds == SummarySpec => []StatusTellsCause
<1>1. SummaryInv => StatusTellsCause
  BY DEF SummaryInv
<1>2. QED
  BY <1>1, SummaryInvariance, PTL

(* Gemini is asked with evidence only, within the budget, twice at most.    *)
THEOREM SummaryBudgetKeptHolds == SummarySpec => []SummaryBudgetKept
<1>1. SummaryInv => SummaryBudgetKept
  BY DEF SummaryInv, Asked, SummaryBudgetKept
<1>2. QED
  BY <1>1, SummaryInvariance, PTL
================================================================================
