-------------------------------- MODULE Summary --------------------------------
(***************************************************************************)
(* The summaries of blog reviews: POST /v1/reviews/summary for one place,   *)
(* /batch for a list, and the graph prepare_places -> summarize ->          *)
(* collect_bullets behind both.  A place is named by its position in the    *)
(* posted list, from the request through the prompt and the model's answer  *)
(* to the response.                                                         *)
(*                                                                         *)
(* Of a place only matters whether it has a usable review, of an answered   *)
(* item which place it names and how many lines it has.  What Gemini        *)
(* answers is nondeterministic: wrong names, repetitions, too few lines.    *)
(***************************************************************************)
EXTENDS Integers, Sequences, FiniteSets

CONSTANTS
  Posts,      \* the lists of places that may be posted: usable or not
  Budgets,    \* values of SUMMARY_MAX_LLM_CALLS
  PlacesCap,  \* SUMMARY_MAX_PLACES
  Answers     \* the lists of items Gemini may answer with

ASSUME SummaryAssumption ==
  /\ Posts \subseteq Seq(BOOLEAN)
  /\ Budgets \subseteq Nat
  /\ PlacesCap \in Nat \ {0}
  /\ Answers \subseteq Seq([id : Int, lines : Nat])

VARIABLES
  step,      \* idle, prepare, summarize, waiting, collect, respond, replied
  single,    \* /v1/reviews/summary, not /batch
  enabled,   \* SUMMARY_ENABLED
  budget,    \* SUMMARY_MAX_LLM_CALLS
  posted,    \* the places of the request
  views,     \* state["views"]: the id in the prompt and the place it shows
  used,      \* state["llm_calls_used"]
  ended,     \* how the last call of Gemini ended
  items,     \* state["items"]
  bullets,   \* state["bullets"]: id -> position of the item it comes from
  reply      \* the response: status and summaries

config == <<single, enabled, budget, posted>>
summaryVars == <<step, config, views, used, ended, items, bullets, reply>>

BulletLines == 2

NoReply == [status |-> 0, results |-> << >>]

--------------------------------------------------------------------------------
SummaryInit ==
  /\ step = "idle"
  /\ single = FALSE
  /\ enabled = TRUE
  /\ budget = 0
  /\ posted = << >>
  /\ views = {}
  /\ used = 0
  /\ ended = "none"
  /\ items = << >>
  /\ bullets = << >>
  /\ reply = NoReply

(* A request arrives; _run_summary starts the graph unless it is switched   *)
(* off, which is an empty answer and not a failure.                         *)
Receive ==
  /\ step = "idle"
  /\ single' \in BOOLEAN
  /\ enabled' \in BOOLEAN
  /\ budget' \in Budgets
  /\ posted' \in Posts
  /\ single' => Len(posted') = 1
  /\ step' = IF enabled' THEN "prepare" ELSE "respond"
  /\ UNCHANGED <<views, used, ended, items, bullets, reply>>

(* Positions are counted from 0, as in the code.                            *)
WithEvidence == {i \in 0 .. Len(posted) - 1 : i < PlacesCap /\ posted[i + 1]}

(* Mutant: the places that are left are numbered anew.                      *)
RenumberedViews ==
  {[id |-> Cardinality({k \in WithEvidence : k < i}), place |-> i] : i \in WithEvidence}

(* The id is the position before the places without evidence are dropped.   *)
Views == {[id |-> i, place |-> i] : i \in WithEvidence}

AfterPrepare == IF views' = {} THEN "respond" ELSE "summarize"

(* prepare_places and _route_after_prepare.                                 *)
PreparePlaces ==
  /\ step = "prepare"
  /\ views' = Views
  /\ step' = AfterPrepare
  /\ UNCHANGED <<config, used, ended, items, bullets, reply>>

--------------------------------------------------------------------------------
(* The two except clauses of _run_summary.                                  *)
RateLimited == reply' = [status |-> 429, results |-> << >>]

Unavailable == reply' = [status |-> 502, results |-> << >>]

(* summarize: call_structured spends budget, or raises LLMBudgetExceeded.   *)
Summarize ==
  /\ step = "summarize"
  /\ IF used < budget
     THEN used' = used + 1 /\ step' = "waiting" /\ UNCHANGED reply
     ELSE RateLimited /\ step' = "replied" /\ UNCHANGED used
  /\ UNCHANGED <<config, views, ended, items, bullets>>

(* A valid answer.                                                          *)
GeminiAnswers ==
  /\ step = "waiting"
  /\ items' \in Answers
  /\ ended' = "valid"
  /\ step' = "collect"
  /\ UNCHANGED <<config, views, used, bullets, reply>>

(* Mutant: the missing budget for a correction replaces the cause.          *)
CorrectOrLimit ==
  IF ended' = "invalid" /\ used = 1
  THEN IF used < budget
       THEN used' = used + 1 /\ UNCHANGED <<step, reply>>
       ELSE RateLimited /\ step' = "replied" /\ UNCHANGED used
  ELSE Unavailable /\ step' = "replied" /\ UNCHANGED used

(* An invalid first answer is sent back once if it was not truncated and    *)
(* the budget allows; otherwise its own error goes up.                      *)
CorrectOrRaise ==
  IF ended' = "invalid" /\ used = 1 /\ used < budget
  THEN used' = used + 1 /\ UNCHANGED <<step, reply>>
  ELSE Unavailable /\ step' = "replied" /\ UNCHANGED used

GeminiAnswersInvalid ==
  /\ step = "waiting"
  /\ ended' \in {"invalid", "truncated"}
  /\ CorrectOrRaise
  /\ UNCHANGED <<config, views, items, bullets>>

(* The limiter raises GeminiQuotaError before Gemini is called.             *)
LimiterRefuses ==
  /\ step = "waiting"
  /\ ended' = "limited"
  /\ RateLimited
  /\ step' = "replied"
  /\ UNCHANGED <<config, views, used, items, bullets>>

(* Gemini refuses for its own quota, which is no GeminiQuotaError; a        *)
(* timeout, or any other failure of the call or of the limiter's Redis.     *)
GeminiFails ==
  /\ step = "waiting"
  /\ ended' \in {"refused", "failed"}
  /\ Unavailable
  /\ step' = "replied"
  /\ UNCHANGED <<config, views, used, items, bullets>>
--------------------------------------------------------------------------------
(* Mutant: an item with too few lines also takes its place's turn.          *)
TakenAtFirstSight(p) ==
  /\ items[p].lines >= BulletLines
  /\ \A q \in 1 .. p - 1 : items[q].id # items[p].id

(* The loop keeps item p: enough lines, and none before it was kept.        *)
Taken(p) ==
  /\ items[p].lines >= BulletLines
  /\ \A q \in 1 .. p - 1 :
       items[q].id = items[p].id => items[q].lines < BulletLines

CollectBullets ==
  /\ step = "collect"
  /\ LET valid == {v.id : v \in views}
         taken == {p \in DOMAIN items : items[p].id \in valid /\ Taken(p)}
     IN bullets' = [i \in {items[p].id : p \in taken} |->
                      CHOOSE p \in taken : items[p].id = i]
  /\ step' = "respond"
  /\ UNCHANGED <<config, views, used, ended, items, reply>>

(* The endpoints: the summary at position 0, or all of them.                *)
Respond ==
  /\ step = "respond"
  /\ reply' = [status |-> 200,
               results |-> IF single THEN [i \in DOMAIN bullets \cap {0} |-> bullets[i]]
                                     ELSE bullets]
  /\ step' = "replied"
  /\ UNCHANGED <<config, views, used, ended, items, bullets>>

SummaryNext ==
  \/ Receive \/ PreparePlaces \/ Summarize
  \/ LimiterRefuses \/ GeminiAnswers \/ GeminiAnswersInvalid \/ GeminiFails
  \/ CollectBullets \/ Respond

SummarySpec == SummaryInit /\ [][SummaryNext]_summaryVars
--------------------------------------------------------------------------------
(* A summary stands at the position of the place it is about: the text of   *)
(* an item is about the place whose view carried the item's id, and no      *)
(* filtering on the way moves it to a neighbour or to a place without       *)
(* reviews.                                                                 *)
SummariesBelong ==
  \A i \in DOMAIN reply.results :
    /\ posted[i + 1]
    /\ items[reply.results[i]].id = i
    /\ [id |-> i, place |-> i] \in views

(* Within an answer that passes the schema (one to four lines an item, each *)
(* short enough) a bad item costs only itself: a place for which Gemini     *)
(* gave two lines in any of its items has its summary in the response, also *)
(* when an earlier item about the same place is short of lines.  An item    *)
(* that breaks the schema fails the answer: GeminiAnswersInvalid.           *)
NothingUsableLost ==
  reply.status = 200 =>
    \A p \in DOMAIN items :
      items[p].id \in WithEvidence /\ items[p].lines >= BulletLines =>
        items[p].id \in DOMAIN reply.results

(* The status tells what went wrong, as _run_summary promises: 429 when one *)
(* of the service's own limits, the request's budget or the limiter's, kept *)
(* a call from being made, also the one that would correct an answer; 502   *)
(* when an answer is unusable or did not come, Gemini's refusal included.   *)
(* An unusable answer does not turn into a limit because the request's      *)
(* budget for a correction is used up too.                                  *)
StatusTellsCause ==
  step = "replied" =>
    reply.status = CASE ended = "limited" -> 429
                     [] ended \in {"invalid", "truncated", "refused", "failed"} -> 502
                     [] ended = "valid" -> 200
                     [] ended = "none" ->
                          IF enabled /\ WithEvidence # {} THEN 429 ELSE 200

(* Gemini is asked only with evidence to summarize, within the budget of    *)
(* the request, and never more than once again.                             *)
SummaryBudgetKept == used > 0 => enabled /\ WithEvidence # {} /\ used <= budget /\ used <= 2
================================================================================
