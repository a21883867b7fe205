----------------------------- MODULE JobLifecycle ------------------------------
(***************************************************************************)
(* The life of recommendation jobs inside one process: POST /v1/recommend   *)
(* starts a task per job (_run_job), the task runs the graph under a        *)
(* deadline and reports on the Redis stream agent:jobs:done, and lifespan's *)
(* shutdown drains the tasks before it closes the Redis clients.            *)
(*                                                                         *)
(* What the nodes of the graph compute is module Pipeline's business: here  *)
(* the graph runs, reaches publish_done with a verdict, or raises.          *)
(*                                                                         *)
(* Time is discrete.  asyncio runs a due timer or a ready callback before   *)
(* time moves on, so Tick waits for every due timer and pending cancel.     *)
(***************************************************************************)
EXTENDS Naturals

CONSTANTS
  Jobs,         \* the jobs that may be submitted
  JobTimeout,   \* JOB_TIMEOUT_SECONDS, in ticks
  Grace,        \* SHUTDOWN_GRACE_SECONDS, in ticks
  PublishTime,  \* a responsive Redis settles one publish call in this time
  Retries,      \* times the Redis client repeats a command by itself
  Hang,         \* TRUE: Redis may stay silent (the client has no timeout)
  Reset         \* TRUE: connections to Redis may break

ASSUME LifecycleAssumption ==
  /\ JobTimeout \in Nat \ {0}
  /\ Grace \in Nat
  /\ PublishTime \in Nat
  /\ Retries \in Nat
  /\ Hang \in BOOLEAN
  /\ Reset \in BOOLEAN

VARIABLES
  phase,    \* of lifespan: serving, draining, reaping, closed
  drain,    \* ticks since lifespan began to wait for the tasks
  pc,       \* pc[j]: where the task of job j is
  age,      \* age[j]: ticks since wait_for(graph.ainvoke) began
  wait,     \* wait[j]: ticks spent in the publish call under way
  cmd,      \* cmd[j]: the XADD under way: idle, queued, sent, applied
  tries,    \* tries[j]: repetitions of that XADD so far
  verdict,  \* verdict[j]: what publish_done announces for j
  cause,    \* cause[j]: why _publish_failure was entered
  cancels,  \* tasks with a cancel() request not yet delivered
  orphans,  \* orphans[j][m]: commands sent, then given up by the client
  stream    \* stream[j][m]: copies of verdict m about job j in the stream

taskvars == <<pc, age, wait, cmd, tries, verdict, cause>>
redisvars == <<orphans, stream>>
vars == <<phase, drain, taskvars, cancels, redisvars>>

Messages == {"graph_done", "graph_failed", "runner_failed"}

(* In these places the task is inside wait_for(graph.ainvoke(...)).         *)
Ainvoke == {"graph", "publishing", "closing"}

(* In these places the task awaits StreamsPublisher.publish.                *)
Publishing == {"publishing", "reporting"}

Unfinished == {j \in Jobs : pc[j] \in Ainvoke \cup {"reporting"}}

(* The message of the XADD under way.                                      *)
Message(j) == IF pc[j] = "publishing" THEN verdict[j] ELSE "runner_failed"

Running(j, place) == pc[j] = place /\ j \notin cancels

--------------------------------------------------------------------------------
Init ==
  /\ phase = "serving"
  /\ drain = 0
  /\ pc = [j \in Jobs |-> "absent"]
  /\ age = [j \in Jobs |-> 0]
  /\ wait = [j \in Jobs |-> 0]
  /\ cmd = [j \in Jobs |-> "idle"]
  /\ tries = [j \in Jobs |-> 0]
  /\ verdict = [j \in Jobs |-> "graph_failed"]
  /\ cause = [j \in Jobs |-> "none"]
  /\ cancels = {}
  /\ orphans = [j \in Jobs |-> [m \in Messages |-> 0]]
  /\ stream = [j \in Jobs |-> [m \in Messages |-> 0]]

(* recommend: uuid, create_task, bg_tasks.add, 202.                         *)
Accept(j) ==
  /\ phase = "serving"
  /\ pc[j] = "absent"
  /\ pc' = [pc EXCEPT ![j] = "graph"]
  /\ UNCHANGED <<phase, drain, age, wait, cmd, tries, verdict, cause, cancels,
                 redisvars>>

(* A publish call begins: the command is queued for a connection.  A        *)
(* command of an earlier call that is already on the wire stays there: the  *)
(* client drops the connection, Redis may still read what was sent.         *)
StartPublish(j) ==
  /\ wait' = [wait EXCEPT ![j] = 0]
  /\ cmd' = [cmd EXCEPT ![j] = "queued"]
  /\ tries' = [tries EXCEPT ![j] = 0]

EndPublish(j) ==
  /\ wait' = [wait EXCEPT ![j] = 0]
  /\ cmd' = [cmd EXCEPT ![j] = "idle"]
  /\ tries' = [tries EXCEPT ![j] = 0]

GiveUp(j) ==
  orphans' = IF cmd[j] = "sent"
             THEN [orphans EXCEPT ![j][Message(j)] = @ + 1]
             ELSE orphans

(* The graph gets to publish_done, with or without state.error.             *)
ReachPublishDone(j) ==
  /\ Running(j, "graph")
  /\ pc' = [pc EXCEPT ![j] = "publishing"]
  /\ \E v \in {"graph_done", "graph_failed"} : verdict' = [verdict EXCEPT ![j] = v]
  /\ StartPublish(j)
  /\ UNCHANGED <<phase, drain, age, cause, cancels, redisvars>>

(* The answer to publish_done's XADD is read; the graph still has to write  *)
(* its last checkpoint before ainvoke returns.                              *)
PublishDoneReturns(j) ==
  /\ Running(j, "publishing")
  /\ cmd[j] = "applied"
  /\ pc' = [pc EXCEPT ![j] = "closing"]
  /\ EndPublish(j)
  /\ UNCHANGED <<phase, drain, age, verdict, cause, cancels, redisvars>>

(* ainvoke returned: _run_job is over, done_callback discards the task.     *)
JobReturns(j) ==
  /\ Running(j, "closing")
  /\ pc' = [pc EXCEPT ![j] = "ended"]
  /\ UNCHANGED <<phase, drain, age, wait, cmd, tries, verdict, cause, cancels,
                 redisvars>>

(* An except clause of _run_job: the call of _publish_failure.              *)
Report(j, why) ==
  /\ pc' = [pc EXCEPT ![j] = "reporting"]
  /\ cause' = [cause EXCEPT ![j] = why]
  /\ StartPublish(j)
  /\ GiveUp(j)
  /\ UNCHANGED <<phase, drain, age, verdict, stream>>

(* Mutant: a job that raises ends without a word.                           *)
GraphRaisesUnreported(j) ==
  /\ Running(j, "graph") \/ Running(j, "closing")
  /\ pc' = [pc EXCEPT ![j] = "ended"]
  /\ UNCHANGED <<phase, drain, age, wait, cmd, tries, verdict, cause, cancels,
                 redisvars>>

(* except Exception: a node, or a checkpoint write, raised.                 *)
GraphRaises(j) ==
  /\ Running(j, "graph") \/ Running(j, "closing")
  /\ Report(j, "error")
  /\ UNCHANGED cancels

(* Mutant: the deadline leaves room the grace period knows nothing of.      *)
DeadlineExtended == JobTimeout + 2

(* except TimeoutError: the deadline of wait_for.                           *)
Deadline == JobTimeout

(* Mutant: the timeout is swallowed.                                        *)
JobTimesOutUnreported(j) ==
  /\ \E place \in Ainvoke : Running(j, place)
  /\ age[j] = Deadline
  /\ pc' = [pc EXCEPT ![j] = "ended"]
  /\ EndPublish(j)
  /\ GiveUp(j)
  /\ UNCHANGED <<phase, drain, age, verdict, cause, cancels, stream>>

JobTimesOut(j) ==
  /\ \E place \in Ainvoke : Running(j, place)
  /\ age[j] = Deadline
  /\ Report(j, "timeout")
  /\ UNCHANGED cancels

(* Task.cancel() is delivered.  Inside ainvoke, except CancelledError       *)
(* reports and re-raises.  Inside _publish_failure nothing catches it       *)
(* (except Exception does not): the task is over.                           *)
CancelDelivered(j) ==
  /\ j \in cancels
  /\ cancels' = cancels \ {j}
  /\ \/ /\ pc[j] \in Ainvoke
        /\ Report(j, "cancelled")
     \/ /\ pc[j] = "reporting"
        /\ pc' = [pc EXCEPT ![j] = "ended"]
        /\ EndPublish(j)
        /\ GiveUp(j)
        /\ UNCHANGED <<phase, drain, age, verdict, cause, stream>>

(* _publish_failure's XADD is answered: the task is over.                   *)
ReportReturns(j) ==
  /\ Running(j, "reporting")
  /\ cmd[j] = "applied"
  /\ pc' = [pc EXCEPT ![j] = "ended"]
  /\ EndPublish(j)
  /\ UNCHANGED <<phase, drain, age, verdict, cause, cancels, redisvars>>

--------------------------------------------------------------------------------
(* StreamsPublisher.publish over the Redis client.                          *)

(* The command leaves on a connection.                                      *)
Send(j) ==
  /\ \E place \in Publishing : Running(j, place)
  /\ cmd[j] = "queued"
  /\ cmd' = [cmd EXCEPT ![j] = "sent"]
  /\ UNCHANGED <<phase, drain, pc, age, wait, tries, verdict, cause, cancels,
                 redisvars>>

(* Redis executes the XADD under way.                                       *)
Apply(j) ==
  /\ cmd[j] = "sent"
  /\ cmd' = [cmd EXCEPT ![j] = "applied"]
  /\ stream' = [stream EXCEPT ![j][Message(j)] = @ + 1]
  /\ UNCHANGED <<phase, drain, pc, age, wait, tries, verdict, cause, cancels,
                 orphans>>

(* Redis executes a command nobody waits for any more, or never sees it.    *)
ApplyOrphan(j, m) ==
  /\ orphans[j][m] > 0
  /\ orphans' = [orphans EXCEPT ![j][m] = @ - 1]
  /\ stream' = [stream EXCEPT ![j][m] = @ + 1]
  /\ UNCHANGED <<phase, drain, taskvars, cancels>>

LoseOrphan(j, m) ==
  /\ Reset
  /\ orphans[j][m] > 0
  /\ orphans' = [orphans EXCEPT ![j][m] = @ - 1]
  /\ UNCHANGED <<phase, drain, taskvars, cancels, stream>>

(* The connection breaks and the client repeats the command.                *)
Resend(j) ==
  /\ Reset
  /\ \E place \in Publishing : Running(j, place)
  /\ cmd[j] # "idle"
  /\ tries[j] < Retries
  /\ tries' = [tries EXCEPT ![j] = @ + 1]
  /\ cmd' = [cmd EXCEPT ![j] = "queued"]
  /\ GiveUp(j)
  /\ UNCHANGED <<phase, drain, pc, age, wait, verdict, cause, cancels, stream>>

(* The retries are used up and publish raises: publish_done lets it through *)
(* to except Exception, _publish_failure logs it and returns.               *)
PublishRaises(j) ==
  /\ Reset
  /\ cmd[j] # "idle"
  /\ tries[j] = Retries
  /\ UNCHANGED cancels
  /\ \/ /\ Running(j, "publishing")
        /\ Report(j, "error")
     \/ /\ Running(j, "reporting")
        /\ pc' = [pc EXCEPT ![j] = "ended"]
        /\ EndPublish(j)
        /\ GiveUp(j)
        /\ UNCHANGED <<phase, drain, age, verdict, cause, stream>>

--------------------------------------------------------------------------------
(* lifespan, after yield.                                                   *)

BeginShutdown ==
  /\ phase = "serving"
  /\ phase' = "draining"
  /\ UNCHANGED <<drain, taskvars, cancels, redisvars>>

(* Mutant: the timer of the grace period fires one tick late.               *)
GraceDueLate == phase = "draining" /\ drain > Grace

(* The timer of wait_for(gather(...), SHUTDOWN_GRACE_SECONDS) is due.       *)
GraceDue == phase = "draining" /\ drain = Grace

(* Mutant: the tasks are cancelled again while they report.                 *)
GraceExpiresAgain ==
  /\ phase \in {"draining", "reaping"}
  /\ drain = Grace
  /\ Unfinished # {}
  /\ phase' = "reaping"
  /\ cancels' = Unfinished
  /\ UNCHANGED <<drain, taskvars, redisvars>>

(* Mutant: a task that is reporting is shielded from the shutdown.          *)
GraceSparesReports ==
  /\ GraceDue
  /\ Unfinished # {}
  /\ phase' = "reaping"
  /\ cancels' = {j \in Jobs : pc[j] \in Ainvoke}
  /\ UNCHANGED <<drain, taskvars, redisvars>>

(* wait_for(gather(...), SHUTDOWN_GRACE_SECONDS) expires: it cancels the    *)
(* gather, which cancels every unfinished task, and goes on waiting until   *)
(* the last of them is over; only then does it raise TimeoutError.          *)
GraceExpires ==
  /\ GraceDue
  /\ Unfinished # {}
  /\ phase' = "reaping"
  /\ cancels' = Unfinished
  /\ UNCHANGED <<drain, taskvars, redisvars>>

(* Mutant: the clients close under the running tasks.                       *)
CloseClientsAtOnce ==
  /\ phase \in {"draining", "reaping"}
  /\ phase' = "closed"
  /\ UNCHANGED <<drain, taskvars, cancels, redisvars>>

(* All tasks are over: gather returned, or the first wait_for raised and    *)
(* the second finds nothing to cancel or wait for.  The clients close.      *)
CloseClients ==
  /\ phase \in {"draining", "reaping"}
  /\ Unfinished = {}
  /\ phase' = "closed"
  /\ UNCHANGED <<drain, taskvars, cancels, redisvars>>

(* Time passes, unless a timer or a cancel() is due at this instant, or a   *)
(* responsive Redis owes an answer.                                         *)
Tick ==
  /\ cancels = {}
  /\ \A j \in Jobs : pc[j] \in Ainvoke => age[j] < Deadline
  /\ \A j \in Jobs : pc[j] \in Publishing /\ ~Hang => wait[j] < PublishTime
  /\ ~GraceDue
  /\ age' = [j \in Jobs |-> IF pc[j] \in Ainvoke THEN age[j] + 1 ELSE age[j]]
  /\ wait' = [j \in Jobs |-> IF pc[j] \in Publishing /\ wait[j] < PublishTime
                             THEN wait[j] + 1 ELSE wait[j]]
  /\ drain' = IF phase = "draining" THEN drain + 1 ELSE drain
  /\ UNCHANGED <<phase, pc, cmd, tries, verdict, cause, cancels, redisvars>>

TaskStep(j) ==
  \/ ReachPublishDone(j) \/ PublishDoneReturns(j) \/ JobReturns(j)
  \/ GraphRaises(j) \/ JobTimesOut(j) \/ CancelDelivered(j) \/ ReportReturns(j)

RedisStep(j) ==
  \/ Send(j) \/ Apply(j) \/ Resend(j) \/ PublishRaises(j)
  \/ \E m \in Messages : ApplyOrphan(j, m) \/ LoseOrphan(j, m)

Next ==
  \/ \E j \in Jobs : Accept(j) \/ TaskStep(j) \/ RedisStep(j)
  \/ BeginShutdown \/ GraceExpires \/ CloseClients
  \/ Tick

Spec == Init /\ [][Next]_vars

(* asyncio runs due timers, deliverable cancels and answered awaits, and    *)
(* time does not stop; a responsive Redis takes and executes commands.      *)
(* Nothing is assumed of the graph: nodes may wait for ever.                *)
Fairness ==
  /\ WF_vars(Tick) /\ WF_vars(GraceExpires) /\ WF_vars(CloseClients)
  /\ \A j \in Jobs : /\ WF_vars(JobTimesOut(j))
                     /\ WF_vars(CancelDelivered(j))
                     /\ WF_vars(PublishDoneReturns(j))
                     /\ WF_vars(ReportReturns(j))
                     /\ ~Hang => WF_vars(Send(j)) /\ WF_vars(Apply(j))

FairSpec == Spec /\ Fairness
--------------------------------------------------------------------------------
Lossless == ~Hang /\ ~Reset /\ Grace > JobTimeout + PublishTime

TypeOK ==
  /\ phase \in {"serving", "draining", "reaping", "closed"}
  /\ drain \in 0 .. Grace
  /\ pc \in [Jobs -> Ainvoke \cup {"absent", "reporting", "ended"}]
  /\ age \in [Jobs -> 0 .. Deadline]
  /\ wait \in [Jobs -> 0 .. PublishTime]
  /\ cmd \in [Jobs -> {"idle", "queued", "sent", "applied"}]
  /\ tries \in [Jobs -> 0 .. Retries]
  /\ verdict \in [Jobs -> {"graph_done", "graph_failed"}]
  /\ cause \in [Jobs -> {"none", "error", "timeout", "cancelled"}]
  /\ cancels \subseteq Jobs
  /\ orphans \in [Jobs -> [Messages -> Nat]]
  /\ stream \in [Jobs -> [Messages -> Nat]]

Readable(j) == \E m \in Messages : stream[j][m] > 0

(* agent_settings links SHUTDOWN_GRACE_SECONDS to JOB_TIMEOUT_SECONDS so    *)
(* that a restart never cuts a job short: with a grace period longer than   *)
(* the deadline plus one publish, no task is ever cancelled.                *)
GraceCoversJobs ==
  ~Hang /\ Grace > JobTimeout + PublishTime => phase # "reaping"

(* With a responsive Redis and that grace period, a job that is over has a  *)
(* verdict in the stream: no path through _run_job, the deadline or the     *)
(* shutdown loses it.                                                       *)
EndedJobReadable ==
  Lossless => \A j \in Jobs : pc[j] = "ended" => Readable(j)

(* A job cut short by the shutdown itself still reports (except             *)
(* CancelledError publishes before re-raising): whatever the grace period   *)
(* and however slow Redis, its task ends only with the report in the        *)
(* stream, or after Redis broke the connection as often as the client       *)
(* tries.                                                                   *)
CancelledJobReports ==
  [][\A j \in Jobs :
       cause[j] = "cancelled" /\ pc[j] # "ended" /\ pc'[j] = "ended" =>
         \/ stream[j]["runner_failed"] > 0
         \/ Reset /\ tries[j] = Retries]_vars

(* The stream never holds two different verdicts of the graph about one     *)
(* job, and never more copies of one than the Redis client repeats.         *)
Contract ==
  INSTANCE JobContract WITH
    MaxCopies <- Retries + 1,
    admitted <- {j \in Jobs : pc[j] # "absent"},
    settled <- {j \in Jobs : pc[j] = "ended"},
    closed <- phase = "closed"

ImplementsContract == Contract!CSpec

(* Every accepted job gets a verdict, even when its graph hangs.            *)
AcceptedJobReported == \A j \in Jobs : pc[j] = "graph" ~> Readable(j)

(* The shutdown ends: lifespan's second wait is there "so that it does not  *)
(* hang for ever".                                                          *)
ShutdownTerminates == phase = "draining" ~> phase = "closed"

(* The graph and the runner never both announce a job's outcome             *)
(* (publish_done: _publish_failure is for graphs that did not get there).   *)
SingleVerdict ==
  \A j \in Jobs : \A m, n \in Messages :
     stream[j][m] > 0 /\ stream[j][n] > 0 => m = n
================================================================================
