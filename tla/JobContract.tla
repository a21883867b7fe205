------------------------------ MODULE JobContract ------------------------------
(***************************************************************************)
(* What POST /v1/recommend promises the reader of the agent:jobs:done       *)
(* stream, without any of the machinery (tasks, timers, Redis commands,     *)
(* shutdown) that keeps the promise.                                        *)
(*                                                                         *)
(* A job is admitted, verdicts about it are appended to the stream, and it  *)
(* is settled when its background task is over.  Two authors speak about a  *)
(* job: its graph (publish_done: done or failed) and its runner (_run_job's *)
(* _publish_failure).  A lost Redis reply makes the Redis client repeat a   *)
(* command, so a message may appear several times, but never changed.       *)
(***************************************************************************)
EXTENDS Naturals

CONSTANTS Jobs,       \* job ids
          MaxCopies,  \* how often one message can appear: at least 1
          Lossless    \* TRUE: no job is settled before a verdict is readable

VARIABLES admitted,   \* jobs answered with 202
          settled,    \* jobs whose background task is over
          closed,     \* the process has closed its Redis clients
          stream      \* stream[j][m]: copies of verdict m about job j

cvars == <<admitted, settled, closed, stream>>

Messages == {"graph_done", "graph_failed", "runner_failed"}

(* publish_done builds one payload, so the graph never says both.           *)
Contradicts(m, n) == {m, n} = {"graph_done", "graph_failed"}

Readable(s, j) == \E m \in Messages : s[j][m] > 0

CInit ==
  /\ admitted = {}
  /\ settled = {}
  /\ closed = FALSE
  /\ stream = [j \in Jobs |-> [m \in Messages |-> 0]]

Admit(j) ==
  /\ ~closed
  /\ j \notin admitted
  /\ admitted' = admitted \cup {j}
  /\ UNCHANGED <<settled, closed, stream>>

(* A verdict is appended.  It may still arrive after the job is settled:    *)
(* its command was on its way when the task gave up on it.                  *)
Deliver(j, m) ==
  /\ j \in admitted
  /\ stream[j][m] < MaxCopies
  /\ \A n \in Messages : Contradicts(m, n) => stream[j][n] = 0
  /\ stream' = [stream EXCEPT ![j][m] = @ + 1]
  /\ UNCHANGED <<admitted, settled, closed>>

Settle(j) ==
  /\ j \in admitted \ settled
  /\ Lossless => Readable(stream, j)
  /\ settled' = settled \cup {j}
  /\ UNCHANGED <<admitted, closed, stream>>

(* The clients are closed only when no admitted job is still at work.       *)
Close ==
  /\ ~closed
  /\ settled = admitted
  /\ closed' = TRUE
  /\ UNCHANGED <<admitted, settled, stream>>

CNext ==
  \/ \E j \in Jobs : Admit(j) \/ Settle(j) \/ \E m \in Messages : Deliver(j, m)
  \/ Close

CSpec == CInit /\ [][CNext]_cvars
================================================================================
