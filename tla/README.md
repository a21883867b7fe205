# A verification development for map-service-agent

The agent answers `POST /v1/recommend` with a job id and later appends the job's
verdict, a travel itinerary or a failure, to the Redis stream `agent:jobs:done`.
In between a LangGraph graph asks the hub service for weather, places and dwell
times and Gemini for a selection and for explanations. This directory models that
path in TLA+, and what stands beside it: the migration of the checkpoint schema, the
summaries of reviews, the collector of the evaluation. TLC checks the models on small
instances and TLAPS proves most of their safety for every instance.

## The system

| Part | State it keeps | Operations | Talks to | What makes it hard |
|---|---|---|---|---|
| Job runner (`app/main.py`) | set of background tasks, one deadline per task | accept, run, time out, fail, report | graph, StreamsPublisher | timeout, exception, cancellation and success can meet in any order around one Redis command |
| Lifespan shutdown (`app/main.py`) | tasks it waits for, grace timer | drain, cancel, drain again, close clients | tasks, clients | it waits for tasks that wait for Redis |
| StreamsPublisher (`app/clients`) | one Redis client, a capped stream | publish, publish_status | Redis | a client without a timeout that repeats commands by itself |
| Graph (`app/graph`, `app/nodes`) | one state dict per job | 13 nodes, 5 routers | hub, Gemini | every node may fail, degrade or skip; later nodes read what earlier ones left |
| Structured LLM call (`app/llm/structured_call.py`) | `llm_calls_used` of a job | consume, ask, correct once | Gemini client | three callers share one budget |
| Route ordering (`_tour`, `_two_opt`) | none | nearest neighbour, 2-opt | | slices reversed in place under running loops |
| Timing and trimming (`build_timeline`, `fit_time_budget`) | places, visit_order, legs, timeline | time, shorten, drop | hub | four lists that must agree after places are dropped |
| Rate limiter (`app/llm/rate_limit.py`) | token bucket and daily counter in Redis | acquire | Redis, clocks | the script is atomic, reading the clock before it is not |
| Place selection (`recommend_places`, `_select_places`, ...) | candidates, scores, pinned places | merge, exclude, rank, cap, select, merge pinned | hub, Gemini | indices into lists that were sorted, filtered and cut |
| Review summaries (`summary_graph`, `summary_nodes`) | one state dict per request | fetch, summarise, fall back | hub, Gemini | fan-out with per-place failures |
| Checkpoints (`checkpoint_migrate`, `checkpoint_db`, `checkpoint_seal`) | Postgres schema, migration history, keys | migrate, validate, seal, open | Postgres | a migration against another one, key rotation |
| Location seal (`location_seal`) | keys | seal, open within a time window | BFF | issue time and window |
| Readiness (`health_ready`) | none | probe | Redis, Postgres | |
| Evaluation (`eval/`) | files, a consumer group | submit, collect, score | the agent, Redis | results published before the group exists, groups and files that outlive a run |

How they interact: `recommend` starts a task; the task awaits the graph under a
deadline; a node awaits hub or, through `call_structured` and the limiter, Gemini;
the last node awaits the publisher; an exception, the deadline or a cancellation
makes the task itself await the publisher; `lifespan` awaits the tasks, cancels
them when its grace period is over and closes the clients. Jobs and processes share
the stream, the limiter's two keys and the Postgres schema of the checkpoints, nothing
else. The migration job and every starting process meet in that schema; the collector
reads the stream as a consumer among others.

What each part has to guarantee:

- runner and shutdown: every accepted job gets a verdict, an ended job has one in
  the stream, the graph never contradicts itself, clients stay open while a task is
  at work, the shutdown ends;
- graph: the first error is the one reported, a done payload is complete, a forecast,
  opening hours or days that are missing or cut are told to the caller and missing reasons
  to the operator, the optional explanations never fail a job, the budget of calls is kept;
- ordering and trimming: a tour visits each place once, the four lists agree, the
  timetable can be walked, the caller's own places survive, only what overflows is
  cut;
- limiter: the law of the bucket, the daily cap, bounded waiting, sufficient advice;
- selection: pinned places stay, excluded ones stay out, no place twice;
- checkpoints: a runtime never serves on a schema that is half migrated, and is not
  refused without a reason once a migration has completed and the grants were reapplied;
- summaries: each stands at its own place, within an answer that passes the schema a bad
  item costs only itself, the status tells a limit of the service from a failure;
- collector: a case gets the first verdict about its own job, nothing handed over is
  lost, exit code 0 can be relied on, a run ends unless Redis keeps it waiting.

## Modules

| Module | Models | Checked by | Proved in |
|---|---|---|---|
| `JobContract` | abstract: what `POST /v1/recommend` promises the reader of the stream | through `ImplementsContract` | `JobLifecycle_proofs` |
| `JobLifecycle` | `recommend`, `_run_job`, `_publish_failure`, the shutdown of `lifespan`, `StreamsPublisher.publish` and the Redis client under it | `MCJobLifecycle` | `JobLifecycle_proofs` |
| `Pipeline` | `build_graph`, the control of every node, `call_structured`, `errors.py` | `MCGraphs` | `Graphs_proofs` |
| `Summary` | `_run_summary`, both endpoints, `build_summary_graph` and its three nodes | `MCGraphs` | `Graphs_proofs` |
| `Selection` | `search_places`, `rules_filter`, `score_and_rank`, `recommend_places` with their helpers | `MCSelection` | `Selection_proofs` |
| `Handover` | what `recommend_route` may count on | through `Selection` and `Itinerary` | with them |
| `Tour` | `_tour`, `_two_opt` | `MCTour`, which `MCItinerary` extends | `Itinerary_proofs` |
| `Itinerary` | `recommend_route`, `build_timeline`, `fit_time_budget` with their helpers | `MCItinerary` | `Itinerary_proofs` |
| `Lists` | Python's `sorted`, `min`, comprehensions and loops | through `Selection`, `Tour`, `Itinerary` | `Lists_proofs` |
| `RateLimiter` | `GeminiRateLimiter`, its Lua script and its two keys | `MCRateLimiter` | `RateLimiter_proofs` |
| `CheckpointMigration` | `migrate`, `AsyncPostgresSaver.setup`, `validate_runtime_schema`, the operator | `MCCheckpointMigration` | `CheckpointMigration_proofs` |
| `Collector` | `submit`, `collect` and `main` of `eval.collect`, the consumer group, the trimmed stream | itself | `Collector_proofs` |

`Itinerary` extends `Tour` and starts from any list of places that `Handover`
allows; `Selection` shows that `recommend_places` hands over no other; `JobLifecycle`
instantiates `JobContract` as its refinement target, `Itinerary` instantiates `Pipeline`
as its own (`FollowsControl`), and `Collector` instantiates `JobContract` as its
environment: what the script reads is whatever the contract allows to be in the
stream. `JobLifecycle` treats the graph as something that runs, reaches `publish_done`
with a verdict, raises or hangs: exactly the outcomes of `Pipeline`. `Pipeline` treats
places, legs and times as present or absent: `Selection` and `Itinerary` say what they
are, and `FollowsControl` that every step of the detailed nodes is one the control allows. A call in `Pipeline` can fail with `quota_exceeded`: `RateLimiter` says when.

An operator whose comment starts with "Mutant:" is not part of a model. It is the
definition below it with a plausible slip, kept to show that a property would
notice it.

### JobLifecycle

`pc[j]` is the place of job j's task: `absent`, then in `graph`, `publishing` (inside
`publish_done`) or `closing` (the graph writes its last checkpoint), all three inside
`wait_for(graph.ainvoke)`, then `reporting` (inside `_publish_failure`) and `ended`.
`age[j]` counts towards the deadline, `drain` towards the grace period. A publish
call is an XADD that is `queued`, `sent`, `applied`; a command that was sent and then
given up becomes an orphan that Redis may still execute or, if connections break,
lose. `cancels` are cancellations asked for and not yet delivered.

The point that shapes the model: `asyncio.wait_for` around `gather` does not raise
`TimeoutError` when the timer fires. It cancels the gather, which cancels every
unfinished task, and waits until the last of them is over. By then the second bounded
wait has nothing to do, so it is not an action.

Two constants say how bad Redis may be: `Hang` (it may stay silent, and the client
has no timeout) and `Reset` (connections break, and the client repeats a command up to
`Retries` times, as the installed redis client does by default).

Time is discrete. `Tick` waits for every timer that is due and every cancellation that
is not delivered: the event loop handles them before it sleeps.

### Pipeline

One state variable per key of `AgentState` the control depends on. `node` is the next
node; the routers are the operators `Go` and `GoUnlessError`. `ask` is the answer
awaited from Gemini (who asked, first or corrective attempt); `calls` is
`llm_calls_used`. Each answer of hub or Gemini, each validation and each exception is a
nondeterministic choice. `NodeRaises` covers the answers a node neither expects nor
catches; `_run_job` reports those. `CutShort` is the deadline of `_run_job` or the
shutdown: it cancels the graph in whatever it awaits, and no node catches a
`CancelledError`. No answer has to come. `forecast` says whether the weather covers none,
some or all days of the trip. Publishing is atomic here; its failures belong to
`JobLifecycle`.

`DegradationTold` matches what a done job lacks with what is said of it, in both
directions. The payload warns of a forecast that is missing or has gaps, of opening hours
nobody checked and of days that were trimmed. Missing reasons are told to the operator
only, in `degraded_reason`. A rules filter that failed is told to nobody: it leaves the
candidates as they are and a line in the log, so there is no state to match.

### Selection

A candidate is its content id and whether it counts as indoor; a place is an id and a
day. The answers of the themes' searches are one list, in the order in which they are
merged. What hub filters and scores, what the model selects and what the request holds
are choices, made where the code first reads them. A request may keep the same place
twice; it is the caller's wish and `PlacesWanted` allows for it. `grounded` is left out:
it is true exactly while there are candidates. Blog reviews and prompts are left out; they
change no list.

### Tour and Itinerary

`Tour` takes the distances between the positions of a day's list as a function, so that
it is checked on a grid with city-block distances and used by `Itinerary` on any map. The
code's tolerance of 1e-9 against rounding has no counterpart: distances are integers. A
round without an improvement and a pass that stops change nothing, nor do those after
them, so that the loops of the code become loops of a fixed number of turns.

`Itinerary` runs the three nodes on all inputs that the earlier nodes can hand over
(`Handover!HandedOver` states, per stage, what they guarantee). A place has a day, a position
and whether it is pinned; the map gives every two positions a distance and the minutes
the mobility needs for it. The run has a line on which a unit takes a minute. Hub's dwell
times, its failure and `TIMELINE_ENABLED` are choices.

`Control` maps this state to that of `Pipeline`: a list is present when it is not empty, a
failed node has set the error, a timetable has its warning (`Announced`), and the end of
these three nodes is the node the router goes to next (`NextInGraph`). Steps that `Control`
would forbid are, for instance, a day trimmed to nothing, a timetable announced as trimmed
while a day still overflows, or a route that does not fit and is handed on.

### RateLimiter

The script of each caller carries the clock its caller read (`stamp`) and runs up to
`Lag` ticks later. Tokens are counted in integer units. `daily[d]` is the key of day d
with its expiry in whole seconds. `times` and `seen` are history variables.

What a script takes and what its caller learns are two things. `AnswerLost` is the answer
that never arrives: the Redis client sends the script again with the same clock, and the
caller notices nothing; how often is left open, so that the results hold for any number of
repetitions. `Abandoned` is the end of `acquire` by an exception of the client or by the
cancellation of its job, while it waits for the script or sleeps. `times` holds every grant,
also the ones nobody learned of, so that the laws about it bound the calls all the more.

### Summary

A place is named by its position in the posted list from the request through the
prompt and the model's answer to the response, while places without a usable review
are dropped on the way. The variables are the keys of the graph's state; `ended` says
how the last call of Gemini ended. The answer is any list over `Answers`: names of
places that were not asked about, of dropped ones, repetitions, too few lines. An answer
that breaks the schema (no line, five lines, a line too long) is `GeminiAnswersInvalid`. The
single endpoint is the batch with one place. `_run_summary` turns errors into 429 and
502; switched off, it answers 200 with nothing. 429 is for the service's own limits, the
request's budget and the limiter (`LimiterRefuses`). Gemini's own quota refusal is no
`GeminiQuotaError` and becomes 502 like every other failure (`GeminiFails`).

`MCGraphs` checks `Summary` beside `Pipeline` because they share no state: a behaviour
is one job or one request.

### CheckpointMigration

A run of the migration job is one session in autocommit mode, so every statement is a
step of its own: the try for the advisory lock, the guard, `CREATE TABLE IF NOT EXISTS`
for the history, the query for the newest version, then for every migration the
statement and the insertion of its version, and the two validations. A concurrent index
build takes two steps, because it leaves an index behind that `IF NOT EXISTS` skips the
next time although it may be invalid. A client that dies (`gone`) leaves a session that
goes on to the end of its statement, with the lock. A statement may fail at any point.
A starting runtime asks three queries, each of which can fall anywhere between the
statements of the runs. The operator applies `docs/database-roles.sql`, as often as he
likes, and rebuilds an invalid index. The script creates the schema and grants the
runtime's role the tables that are there at that moment (`granted`); a migration creates
tables without grants, so a first run must be followed by another `Provision` before a
runtime can read the history (`MayReadHistory`). The database starts empty or as any
earlier release left it, granted or not.

`setup()` is library code: it is modelled from how `checkpoint_migrate.py` and
`checkpoint_db.py` use it and from the migrations listed there.

### Collector

`log` is everything ever added to the stream and `trimmed` how much of it is gone, so
that an entry is its position. `cursor` is the group's last-delivered id. A run submits
its cases, attaches to the group (which an earlier run may have created), reads batches
and handles their entries one by one. An `XREADGROUP` is sent (`Ask`) and then answered, lost,
failed or never answered at all: the client has no timeout on its socket, and `block=2000`
is a promise of the server. `accepted`, `wanted`, `results` are the script's
own variables; `handed` is a history variable. Answers are lost, the stream is trimmed
before it is read, two different verdicts about one job arrive, entries about others and
about an earlier run's jobs are mixed in. `files` outlives the run.

## Runs

All configurations say `CHECK_DEADLOCK FALSE`: jobs, requests, runs and processes end,
lists are timed once and the limiter's clock is bounded, so every model really stops.

| Run | Bounds | Checked |
|---|---|---|
| `JobOrderlyShutdown` | 2 jobs, deadline 2, grace 4, publish 1, Redis answers, the graph may hang | `TypeOK`, `GraceCoversJobs`, `EndedJobReadable`, `AcceptedJobReported` |
| `JobFaults` | 2 jobs, deadline 1, grace 1, one repetition, Redis silent or broken | `CancelledJobReports`, implements `JobContract` |
| `JobSilentRedis` | 2 jobs, deadline 1, grace 2, Redis silent | `ShutdownTerminates` |
| `ItineraryTimed` | all lists of 2 to 4 places, 2 days, 3 positions, stays 5 or 30, window 60; all 15120 ordered choices of 5 places on a 3 by 3 grid | `Consistent`, `Walkable`, `CallersPlacesKept`, `TrimsOnlyWhatOverflows`, `FittingDaysUntouched`, `TourVisitsAll`, `NoImprovingReversal`, implements the control of `Pipeline` (`FollowsControl`) |
| `PipelineControl` | a job with budget 3 and everything on; requests for up to 3 summaries, answers of up to 3 items, budgets 0 to 3, cap 2 | `DonePayloadComplete`, `SelectionLeavesBudget`, `DegradationTold`, `FirstErrorStands`, `ReasonsNeverCostTheJob`, `SummariesBelong`, `NothingUsableLost`, `StatusTellsCause` |
| `SelectionAll` | 4 places and a candidate without id, lists of up to 3 and all orders of 5, cap 3, 2 days of 2 stops, up to 4 kept places, up to 3 selections | `TypeOK`, `HandsOver`, `PlacesWanted`, `KeptPlacesStay`, `CapKeepsBothKinds` |
| `LimiterShared` | 3 callers, capacity 2, 2 units a tick of 3 a call, 8 ticks in days of 5, 2 ticks a second, exact clocks, any answer lost, any caller cancelled | `BucketLaw`, `DailyCapKept`, `AcquireBounded`, `AdviceSuffices` |
| `CheckpointMigrations` | 3 runs, a runtime of each of two releases with 3 and 4 migrations, two tables and two indexes, grants reapplied at any moment | `ServesOnWholeSchema`, `RefusalHasReason`, `NoRecordingConflict`, `RunsEnd` |
| `CollectorRuns` | 2 cases, 2 runs, batches of 2, a stream trimmed to 1 of at most 3 entries, verdicts of graph and runner, a Redis that may be silent | `CollectedIsFirstVerdict`, `MissingHasReason`, `ExitTellsTruth`, `RunEnds` |

The type invariants of `Pipeline`, `Itinerary`, `RateLimiter`, `CheckpointMigration`, `Collector` and
`Summary` are theorems (`TypeCorrect`, or a part of the inductive invariant), and so are
`CallsWithinBudget` and `SummaryBudgetKept`; the runs do not repeat them.

Why these bounds are enough to meet the interesting cases. Two jobs are the smallest
number for which the drain waits for one task while another is in a different place;
jobs share nothing but the drain. The deadlines are small multiples of one publish, in
the relation the settings give them (grace longer than deadline plus publish) and in
the opposite one. Five places are the smallest tour in which a reversal has a place on
either side and can undo another one; a day of the program has two to five. Four places
on two days include a day of three, which can be shortened, lose one place and keep two,
and a day of one. In the selection lists of four and five exceed the cap, with enough outdoor
candidates for their half and with too few, and four kept places fill the plan, evenly
or not. The pipeline's run has the default settings; its theorems hold for all. In the
limiter three callers let one be overtaken by two; eight ticks cross midnight once and
the bucket fills more than twice; 2/3 of a call per tick makes rounding matter; two
ticks a second let the daily key expire before midnight. Three
places and items let an answer name a place that was dropped, one that was cut off and
one twice; budgets 0 to 3 include none, one without and one with room for a correction.
Of three migration runs one can die, one can find its session still at work and one can
finish, for the older or the newer release; the newer one's additional migration is an
index, the kind that can be half done; no role is too strong (`Elevated`), which ends a
run or a start before its first query. Two runs of the collector are the smallest number
for which a group, a file and a late verdict of an earlier run exist; three entries with
a stream of one let one be trimmed, one be somebody else's and one be the verdict; a
batch of two holds both.

The other three runs each show a disagreement of the code with its own documentation:

| Run | Property | What happens |
|---|---|---|
| `JobTwoVerdicts` | `SingleVerdict` | the deadline fires after the XADD of `publish_done` was executed and before the graph returned: the stream says done and failed |
| `JobHungShutdown` | `ShutdownTerminates` | with a grace period no longer than the deadline and a silent Redis the first wait of the shutdown never ends; the second, meant to bound it, is not reached |
| `LimiterStaleClock` | `BucketLaw` | a script with an older clock sets `ts` back; the same time is refilled twice |

`JobHungShutdown` needs two settings in a relation the documentation advises against;
with the documented one `JobSilentRedis` shows that the shutdown ends, because by then
every job has passed its deadline and is in its report, where a cancellation is final.

Smaller disagreements met while modelling, which the models contain and no run of its
own is spent on:

- A job that is reporting its timeout when the grace period ends is cancelled inside
  `_publish_failure`, which catches `Exception` only, and says nothing. This is why
  `EndedJobReadable` needs a Redis that answers.
- The comment in `build_graph` says `search_places` sets no error; it does. The nodes
  behind it check for one, and `FirstErrorStands` covers them.
- A 200 answer of `/v1/weather` that is no JSON escapes `fetch_weather`, whose docstring
  says that weather never stops a recommendation (`NodeRaises`).
- The expiry of the daily key is cut to whole seconds: in the last second of a day the
  count may be gone and the cap is not kept. `DailyCapKept` therefore ends where that
  second begins (with ticks of a second it would cover the whole day; `LimiterShared` has
  two ticks a second), and begins where no script of the day before can still arrive.
- `_merge_pinned` says that no place is in the itinerary twice. It compares new places
  with kept ones; a request that keeps the same place twice gets it twice. `Pins` holds
  such lists, and `PlacesWanted` excuses those places only.
- `collect_bullets` says (`summary_nodes.py:220`) that of a repeated place only the first
  item is taken. The code takes the first one with two lines: an item that is too short is
  passed over before the place counts as collected. `NothingUsableLost` states what the code
  does, which is also what the sentence after that one asks for.
- `ReviewsSummaryResponse` says (`agent_schemas.py:537-538`) that an answer out of format
  comes back as an empty list. One that breaks the schema is a 502, as `_run_summary` says
  (`main.py:616`); an empty list is what remains when no item that passes it is usable.
- `collect` says (`collect.py:112-113`) that it returns what it has when its time is over.
  It looks at the clock between two commands only, and the client (`collect.py:118`) has no
  socket timeout: a Redis that does not answer keeps the run waiting past its deadline.
  `RunEnds` therefore assumes that Redis does not keep it waiting for good.
- The limiter's Redis client has no timeout either (`rate_limit.py:130`), and
  `max_wait_seconds` bounds the sleeps only. A silent limiter costs a job, through its
  deadline, although the explanations are said never to (`agent_nodes.py:1977`).
- A runtime checks its grants on the history by reading it, those on the other three tables
  not at all: `validate_runtime_schema` looks these up in the catalog. With a history that
  is granted and tables that are not, it serves and fails at its first checkpoint.
- A full bucket and its refill fall into one minute, so that the limit per minute is
  kept only as `BucketLaw` states it: up to twice the limit in the first minute.

## Fairness

- `JobLifecycle!FairSpec`: weak fairness of what the event loop does by itself (due
  timers, deliverable cancellations, answers that have arrived) and of time. Of Redis it
  assumes progress only if `Hang` is false. Of the graph it assumes nothing: a node may
  wait for ever.
- `Pipeline!FairSpec`, in the run `MCGraphs!MCFairSpec`: the deadline of a job comes
  (`CutShort`), because the event loop runs the timer of `wait_for`. Of the nodes nothing is
  assumed: hub's client and Gemini's calls have timeouts, but the limiter's Redis client has
  none. `Summary` has no liveness property and no fairness.
- `CheckpointMigration!FairSpec`: for every run weak fairness of `Going`: a live client
  sends its next statement, a statement that has no other end runs into
  `statement_timeout` or `lock_timeout`, and the server ends the session of a dead client.
  That a build ends by itself is not assumed: it waits for older transactions.
- `Collector!FairSpec`: the script goes on where it does not wait for Redis (`urlopen` has
  a timeout) and its clock does not stop. Nothing is assumed of verdicts or of Redis. That
  Redis comes to answer is a premise of `RunEnds` itself (`[]<>~OnRedis`), so that the
  property says what the deadline is worth and what it is not.

## Proofs

All eight proof modules are checked by `tlapm` to the last leaf.

`JobLifecycle_proofs`, for any set of jobs and any timing constants:

- `TypeCorrect`. `TypeOK` is inductive by itself.
- `GraceCoversJobsHolds`. The strengthening `DrainBehind` says that while the process
  drains, `drain <= age[j]` for a task inside its graph and
  `drain <= JobTimeout + wait[j]` for one that reports: the drain started no earlier
  than the job. Both right-hand sides are bounded below the grace period, so when the
  timer is due no unfinished task is left to cancel.
- `EndedJobReadableHolds`. From the previous result no task is ever cancelled; `Recorded`
  then says that a publish call that was answered has its message in the stream.
- `CancelledJobReportsHolds`. A job the shutdown cuts short ends only with its report in
  the stream or after its connections broke as often as the client tries.
  `CancelledOnce` says that before the grace period ends nothing was cancelled, that the
  cancellation is asked for once, and that a task that took it is not in the set again.

The safety behind `ShutdownTerminates`, for any Redis: `ShutdownWaitsForNoGraph`. `Reports`
says that a drain as long as the deadline finds no task inside its graph, that therefore no
cancellation ever falls into one, and that in the last phase exactly the unfinished tasks
have a cancellation waiting, which ends a task in its report at once. Until they are over no
time passes; fairness adds only that what can be delivered is.

The refinement, in the same module: `ImplementsContractHolds`, with any number of repetitions and any
behaviour of Redis. A copy of a message is either in the stream or an orphan that may
still get there, and `Accounts` bounds the sum of both: the graph is silent before it
publishes and says one thing only, the runner is silent before it reports, and a publish
call leaves at most one copy per try. Copies in the stream alone would not be inductive,
since an orphan arrives after the task that sent it is over.

`Graphs_proofs`, first the recommendation graph, for any budget and both kill switches: `Inv` joins types, who may be
waiting for Gemini where (`Asking`), what was spent when a node is entered (`Spent`) and
what a node finds in the state (`Stored`). From it follow `TypeCorrect`,
`DonePayloadCompleteHolds`, `CallsWithinBudgetHolds` and `SelectionLeavesBudgetHolds`;
with `Warned` and `Recorded`, which carry what is missing and what was said of it to the
end, `DegradationToldHolds` and `FirstErrorStandsHolds`. None is inductive: that the payload is complete depends on
what every router guarantees about the node behind it.

What `ReasonsNeverCostTheJob` says beyond fairness is proved in two halves. By
`ReasonsNeverFailTheJob` a job that has reached `llm_reason` has neither failed nor raised,
then or later: it ends done or is cut short (`OnlyDoneAhead` is what the node is entered
with and no step behind it undoes). By `JobsAreBounded` every step of a job lowers `Remaining`, the nodes ahead and the
requests it may still make, so that no job, failed or not, takes more than fourteen steps
and its budget.

`Graphs_proofs`, then the summaries, for lists and answers of any length: `SummaryInv` says when Gemini may be asked
(`Asked`), that how the call ended is told at the end only (`Told`), and where a kept item
comes from (`Kept`). That nothing usable is lost rests on the lemma `First`: of the items
about one place with enough lines, one comes first, and that one is taken.

`RateLimiter_proofs`, for any number of callers, any capacity, rate and cap, any delay of a
script (`Lag`), any number of lost answers:

- `TypeCorrect`: the bucket is never negative nor above its capacity.
- `AcquireBoundedHolds`. `OnTime` says that a script runs within `Lag` of its clock and that
  a caller is held up by its sleeps and one script for each; a sleep is at least a tick, so
  that `max_wait_seconds` bounds both.
- `DailyCapKeptHolds`. `Tally`: the key of a day counts at least the calls in the hours of
  that day and, once it has counted one, outlives them. A late script of the day before can
  revive that day's key, but counts for no hours of any day (`SentOnItsDay`). With exact
  clocks and ticks of a second the hours are the day (`DailyCapOfExactClocks`).
- `AdviceSufficesHolds`. `Rested`: while no call is granted, a sleeper's token is refilled by
  the time it wakes. `RefusalTakesNothing` is why this needs no exact clocks: a refused
  script with an older clock sets `ts` back, and the next one finds more, not less.
- `BucketLawHolds`, and this one only, assumes exact clocks (`Lag = 0`), because
  `LimiterStaleClock` refutes it without. `Ledger`: the calls granted since any one of them
  and what the bucket still holds were paid for by a full bucket and the refill since.

`CheckpointMigration_proofs`, for any number of runs, runtimes and migrations: `Inv` says
that one session is at work (`Exclusive`), that the history has no gap and the session
records right behind it (`Gapless`), that grants are on tables that are there (`Granted`),
who builds an index (`Building`), that what is
recorded was applied, indexes excepted (`Recorded`), and what each run and runtime has
seen (`Checked`, `Queried`). What a runtime saw in an earlier query still holds later because
the history and the grants only grow and a table or valid index never disappears. `RunsAreBounded` is the
safety behind `RunsEnd`: every step of a run lowers `Left`, at most three statements a
migration and eleven around them, and no other run, runtime or repair raises it.

`Collector_proofs`, for any number of cases and runs, any batch size and any trimming:
`Sorted` and `Awaited` say that a batch is in the order of the stream and that what is
waited for has not been handled yet; `Outcome` says what the files hold at the end. That
the first verdict wins needs that `XREADGROUP` delivers in order, which is proved of
`InOrder` by counting (`Ranks`, `Ordered`). `DeadlineEndsTheRun` is the safety behind
`RunEnds`: after the deadline no further read is sent, every step of the script and every
answer lowers what is left of the one that may be under way and of its batch, and only a lost
answer or a verdict of the service leaves it as it is. That the answer comes is the premise
of `RunEnds`.

`Lists_proofs` is the library that the next two rest on. What a loop or a sort yields for
lists of any length needs induction, and the provers take no induction rule over
formulas; `RangeInduction` is one over sets (a set that holds the first number of a range
and with each its successor holds the range), and `LoopInvariant` derives from it that
what every turn of a loop carries from I[i - 1] to I[i] holds at the end. Sorting is by
rank (`Rank` counts what comes before), so that `SortedIs` (a permutation, keys ascending,
equal keys in their order), `InOrderIs`, `SublistIs` and `FirstOfIs` follow by counting.

`Selection_proofs`, for lists of any length and any trip, limits, scores and answers:
searching, filtering, ranking and cutting only draw candidates from the list before
(`Draws`), so that no id comes to appear twice (`Distinct`) and no excluded one returns;
`ChosenPlaces` and `MergedPlaces` say what selection and merge leave. `NoRoomCovers` is
why the early return may skip the check of the days: a plan without room has a kept place
on every day. `CapBalances` counts what the two halves and the refill take.

`Itinerary_proofs`, for any list of places on any number of days, any stays, window and
buffer:

- `ToursAreComplete`, by what a step keeps: the nearest-neighbour path is injective and
  grows by a place it has not (`NearestNeighbourIs`), a reversal permutes what lies between
  two positions (`ReverseBetweenIs`). It holds for any distances and rounds.
- `TwoOptShortens`, for distances that are the same in both directions: a path never gets
  longer, and it ends at one no reversal shortens (`Settled`) or was shortened by at least
  one in every round. Hence `ToursSettle`: on a grid where a day's path is shorter than there
  are rounds, as in the run (at most 16 blocks, 20 rounds), no reversal shortens the result.
- `Inv` goes by the next node: before `recommend_route` nothing is ordered, then order and
  legs are those of the given places, then the timetable is that of order and stays
  (`Timed`) or there is none. It is inductive because nothing else is carried over.
- `AlwaysConsistent`, `CallersPlacesSurvive`, `TrimmingIsMinimal`. `DropSets` is the invariant
  of the trimming loops: what is dropped is not protected, lies on an overflowing day,
  leaves `KeepMin` places or all of a day, and a day that lost a place overflows with
  every stay at the floor.
- `AlwaysWalkable`. `Gaps` says that between two visits of a day lies the way and the buffer.
- `ItineraryFollowsControl`, the refinement: `Inv` gives what each node finds, and one lemma
  per node that its step maps to a step of `Pipeline` of the same name.
- `FittingDaysStay`. `DayTiming`: two orders that agree on a day's places, in the same
  order, and on their stays give that day the same times, whatever the others lost. This
  also carries "overflows with every stay at the floor" from the trial to the whole day
  (`Trimming`): the passes over one day neither help nor harm another.

Assumptions: those on the constants that each module states (naturals, booleans, a
positive deadline, migrations that are tables, indexes or neither, `KeepMin` at least 1
where the code has 2, distances that are integers), the relation of grace period and
deadline named above (with it go a Redis that answers, for `GraceCoversJobs`, and unbroken
connections, for `EndedJobReadable`), exact clocks for `BucketLaw` and
`DailyCapOfExactClocks`, and distances that are the same in both directions for
`TwoOptShortens`. Nothing else: the map of `Itinerary` is any.

Only model-checked:

- All liveness (`AcceptedJobReported`, `ShutdownTerminates`, `ReasonsNeverCostTheJob`,
  `RunsEnd`, `RunEnds`): fairness and ENABLED are beyond the prover. Of the last four the
  measure or invariant that carries them is a theorem, see above; what TLC adds is that a
  step that lowers the measure, or the one that cuts a job short, is enabled and taken.

Neither checked nor proved: that `_two_opt` settles within twenty rounds on days whose path
is longer than that in the unit of the distances. `TwoOptShortens` is what remains there.

## Not modelled

- Start-up of `lifespan`: sequential construction of clients, fail-fast checks. What it
  asks of the checkpoint schema is in `CheckpointMigration`.
- Prompts, sanitising, JSON helpers: strings without state.
- What hub and Gemini compute; they are choices.
- Weather, strategy, segment gains and the scoring scripts of the evaluation: arithmetic
  on one payload at a time.
- Blog reviews: fetched best effort, they influence texts, which are choices already.
- Progress events and the training field of a verdict.
- A crash of the agent: jobs live in memory only and nothing recovers them. For the same
  reason a task that the shutdown cancels before its first step reports nothing.
- The seals. A sealing key that is set but malformed makes every publication raise before
  its XADD; `JobLifecycle` assumes a well formed key or none.
- Two collectors at the same time, and the files of the training mode. A run that dies
  on `xack` or on creating its group writes nothing of what it collected: the model has
  that (`CrashOnRedis`), and `ExitTellsTruth` speaks of exit code 0 only. A case whose
  submission failed counts neither as accepted nor as missing, so that exit code 0 says
  nothing about it.
- Postgres itself: a statement is atomic, except the concurrent build of an index, and so
  is the transaction of `docs/database-roles.sql`. Which privileges on the other three tables
  the runtime needs while it serves is not modelled; `granted` has them, nothing reads them.
  Sequences, ownership and memberships of roles are summed up in `Elevated`.

## Plan

Done: `JobContract`, `JobLifecycle`, its proofs and its refinement; `Tour`, `Itinerary`,
`Pipeline`, `RateLimiter`, `Handover` and `Selection`, `CheckpointMigration`, `Summary` and
`Collector`, each with its proofs. In this order because the verdict of a job is what the
service is for, and the itinerary is what the verdict carries.

Next, in this order:

1. `Recommendation`: `Pipeline` composed with `JobLifecycle` (the graph's step becomes the
   node's) and with `RateLimiter` for several jobs that share the bucket.
2. `SealedState`: key rotation of the checkpoint seal; the window of the location seal.
