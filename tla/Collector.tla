------------------------------- MODULE Collector -------------------------------
(***************************************************************************)
(* eval.collect: the script submits its cases to POST /v1/recommend, then   *)
(* listens to agent:jobs:done through a consumer group of its own until it  *)
(* has a verdict for every accepted case or runs out of time, and writes    *)
(* one result file per case.  It is run several times over one output       *)
(* directory; the group and the files outlive a run.                        *)
(*                                                                         *)
(* The service is what JobContract promises: verdicts about admitted jobs   *)
(* appear in the stream, possibly two different ones, possibly never.  The  *)
(* stream is trimmed to about MaxLen entries (StreamsPublisher.publish).    *)
(* Redis is called without a timeout on the socket: a command need not be   *)
(* answered, and the script checks its deadline only between commands.      *)
(***************************************************************************)
EXTENDS Integers, Sequences, FiniteSets

CONSTANTS
  NumCases,   \* cases of the case directory, submitted in the order 1, 2, ...
  NumRuns,    \* bound: times the script is run
  Count,      \* entries one XREADGROUP returns at most
  MaxLen,     \* maxlen of the stream, 0: no trimming
  MaxLog,     \* bound: entries ever added to the stream
  Verdicts,   \* bound: the messages of the contract that are published
  Copies      \* bound: how often one verdict can be repeated

ASSUME CollectorAssumption ==
  /\ NumCases \in Nat \ {0} /\ NumRuns \in Nat \ {0} /\ Count \in Nat \ {0}
  /\ MaxLen \in Nat /\ MaxLog \in Nat /\ Copies \in Nat \ {0}
  /\ Verdicts \subseteq {"graph_done", "graph_failed", "runner_failed"}

VARIABLES
  admitted,   \* jobs the service accepted
  log,        \* every entry ever added to the stream
  trimmed,    \* so many of them are gone again
  cursor,     \* last-delivered id of the group, NoGroup before it exists
  run,        \* which run of the script this is
  pc,         \* submit, attach, read, asked (XREADGROUP is sent), ended
  next,       \* the next case to submit
  accepted,   \* cases of this run that were answered with a job id
  wanted,     \* of these, the cases still waited for
  batch,      \* positions of the entries read and not yet handled
  handed,     \* positions of all entries this run was handed
  results,    \* what this run collected: case -> position
  expired,    \* the time to wait is over
  exit,       \* the exit code of this run, Crash for a traceback
  files       \* files[c]: position of the entry in c's result file, 0: none

service == <<admitted, log, trimmed>>
script == <<next, accepted, wanted, batch, handed, results>>
vars == <<service, cursor, run, pc, script, expired, exit, files>>

Cases == 1 .. NumCases
Jobs == (1 .. NumRuns) \X Cases
Messages == {"graph_done", "graph_failed", "runner_failed"}
NoGroup == -1
Running == -1
Crash == 2

(* The job this run submitted for case c.                                   *)
Job(c) == <<run, c>>

(* The promises of the service, which is not shut down meanwhile.           *)
Service ==
  INSTANCE JobContract WITH
    MaxCopies <- Copies, Lossless <- FALSE, settled <- {}, closed <- run = 0,
    stream <- [j \in Jobs |-> [m \in Messages |->
                 Cardinality({i \in DOMAIN log : log[i] = [job |-> j, message |-> m]})]]

--------------------------------------------------------------------------------
Init ==
  /\ admitted = {}
  /\ log = << >>
  /\ trimmed = 0
  /\ cursor = NoGroup
  /\ run = 1
  /\ pc = "submit"
  /\ next = 1
  /\ accepted = {}
  /\ wanted = {}
  /\ batch = << >>
  /\ handed = {}
  /\ results = << >>
  /\ expired = FALSE
  /\ exit = Running
  /\ files = [c \in Cases |-> 0]

(* A verdict is appended; the stream may be cut down to about MaxLen.       *)
Publish(j, m) ==
  /\ Len(log) < MaxLog
  /\ log' = Append(log, [job |-> j, message |-> m])
  /\ trimmed' \in trimmed .. IF MaxLen > 0 /\ Len(log') - MaxLen > trimmed
                             THEN Len(log') - MaxLen ELSE trimmed
  /\ UNCHANGED <<cursor, run, pc, script, expired, exit, files>>
  /\ Service!Deliver(j, m)

--------------------------------------------------------------------------------
(* submit: the service answers with the job id.                             *)
SubmitAccepted ==
  /\ pc = "submit"
  /\ next \in Cases
  /\ next' = next + 1
  /\ accepted' = accepted \cup {next}
  /\ wanted' = wanted \cup {next}
  /\ UNCHANGED <<log, trimmed, cursor, run, pc, batch, handed, results, expired,
                 exit, files>>
  /\ Service!Admit(Job(next))

(* submit: HTTPError or OSError.  The service may have accepted the job and *)
(* only the answer is lost: the script skips the case all the same.         *)
SubmitFails ==
  /\ pc = "submit"
  /\ next \in Cases
  /\ admitted' \in {admitted, admitted \cup {Job(next)}}
  /\ next' = next + 1
  /\ UNCHANGED <<log, trimmed, cursor, run, pc, accepted, wanted, batch, handed,
                 results, expired, exit, files>>

(* All cases were tried.  Nothing accepted: exit 1.                         *)
Submitted ==
  /\ pc = "submit"
  /\ next \notin Cases
  /\ IF wanted = {} THEN pc' = "ended" /\ exit' = 1
                    ELSE pc' = "attach" /\ UNCHANGED exit
  /\ UNCHANGED <<service, cursor, run, script, expired, files>>

(* xgroup_create at "$", the end of the stream; a group that is there       *)
(* already stays where it is.                                               *)
Attach ==
  /\ pc = "attach"
  /\ cursor' = IF cursor = NoGroup THEN Len(log) ELSE cursor
  /\ pc' = "read"
  /\ UNCHANGED <<service, run, script, expired, exit, files>>

(* Mutant: the loop has no deadline.                                        *)
KeepsWaiting == pc = "read" /\ batch = << >> /\ wanted # {}

(* while wanted and time.time() < deadline                                  *)
Waiting == pc = "read" /\ batch = << >> /\ wanted # {} /\ ~expired

Ask ==
  /\ Waiting
  /\ pc' = "asked"
  /\ UNCHANGED <<service, cursor, run, script, expired, exit, files>>

Undelivered == {i \in DOMAIN log : i > cursor /\ i > trimmed}

(* The entries XREADGROUP with ">" delivers, and with them the new cursor.  *)
Delivered == {i \in Undelivered : Cardinality({k \in Undelivered : k < i}) < Count}

InOrder(positions) ==
  [n \in 1 .. Cardinality(positions) |->
     CHOOSE i \in positions : Cardinality({k \in positions : k < i}) = n - 1]

LastOf(positions) == CHOOSE i \in positions : \A k \in positions : k <= i

(* An answered XREADGROUP, possibly after the deadline.                     *)
Read ==
  /\ pc = "asked"
  /\ Undelivered # {}
  /\ cursor' = LastOf(Delivered)
  /\ batch' = InOrder(Delivered)
  /\ handed' = handed \cup Delivered
  /\ pc' = "read"
  /\ UNCHANGED <<service, run, next, accepted, wanted, results, expired, exit, files>>

(* Nothing new came within block=2000.                                      *)
ReadEmpty ==
  /\ pc = "asked"
  /\ Undelivered = {}
  /\ pc' = "read"
  /\ UNCHANGED <<service, cursor, run, script, expired, exit, files>>

(* Redis delivered, the answer is lost and the client repeats the command:  *)
(* what was delivered is now pending, and ">" does not return it again.     *)
ReadAnswerLost ==
  /\ pc = "asked"
  /\ Undelivered # {}
  /\ cursor' = LastOf(Delivered)
  /\ UNCHANGED <<service, run, pc, script, expired, exit, files>>

--------------------------------------------------------------------------------
(* Mutant: the verdict is not taken off the list of what is waited for.     *)
TakeKeepsWanting ==
  /\ pc = "read"
  /\ batch # << >>
  /\ LET hits == {c \in wanted : Job(c) = log[Head(batch)].job}
     IN results' = [c \in DOMAIN results \cup hits |->
                      IF c \in hits THEN Head(batch) ELSE results[c]]
  /\ batch' = Tail(batch)
  /\ UNCHANGED <<service, cursor, run, pc, next, accepted, wanted, handed, expired,
                 exit, files>>

(* Mutant: an entry about somebody else's job ends the batch.               *)
TakeBreaks ==
  /\ pc = "read"
  /\ batch # << >>
  /\ LET hits == {c \in wanted : Job(c) = log[Head(batch)].job}
     IN /\ results' = [c \in DOMAIN results \cup hits |->
                         IF c \in hits THEN Head(batch) ELSE results[c]]
        /\ wanted' = wanted \ hits
        /\ batch' = IF hits = {} THEN << >> ELSE Tail(batch)
  /\ UNCHANGED <<service, cursor, run, pc, next, accepted, handed, expired, exit,
                 files>>

(* One entry of the batch: xack, then wanted.pop.  Entries about the jobs   *)
(* of others, and second verdicts about its own, are only acknowledged.     *)
Take ==
  /\ pc = "read"
  /\ batch # << >>
  /\ LET hits == {c \in wanted : Job(c) = log[Head(batch)].job}
     IN /\ results' = [c \in DOMAIN results \cup hits |->
                         IF c \in hits THEN Head(batch) ELSE results[c]]
        /\ wanted' = wanted \ hits
  /\ batch' = Tail(batch)
  /\ UNCHANGED <<service, cursor, run, pc, next, accepted, handed, expired, exit,
                 files>>

(* xack, or the creation of the group, raises out of the script: nothing    *)
(* that was collected is written.                                           *)
CrashOnRedis ==
  /\ pc = "attach" \/ (pc = "read" /\ batch # << >>)
  /\ pc' = "ended"
  /\ exit' = Crash
  /\ UNCHANGED <<service, cursor, run, script, expired, files>>

(* Mutant: anything collected counts as success.                            *)
CodeOfAnything == IF results = << >> THEN 1 ELSE 0

(* main: missing = accepted cases without a result.                         *)
ExitCode == IF accepted \ DOMAIN results # {} THEN 1 ELSE 0

(* collect returns and main writes the files.                               *)
WriteFiles ==
  /\ files' = [c \in Cases |-> IF c \in DOMAIN results THEN results[c] ELSE files[c]]
  /\ exit' = ExitCode
  /\ pc' = "ended"
  /\ UNCHANGED <<service, cursor, run, script, expired>>

(* The loop ends: nothing is wanted any more, or the time is over.          *)
StopReading ==
  /\ pc = "read" /\ batch = << >>
  /\ ~Waiting
  /\ WriteFiles

(* xreadgroup raises RedisError: break.  What it was delivered is lost.     *)
ReadFails ==
  /\ pc = "asked"
  /\ WriteFiles

(* The deadline passes.                                                     *)
Expire ==
  /\ pc \in {"read", "asked"}
  /\ ~expired
  /\ expired' = TRUE
  /\ UNCHANGED <<service, cursor, run, pc, script, exit, files>>

(* The script is started again over the same output directory.              *)
RunAgain ==
  /\ pc = "ended"
  /\ run < NumRuns
  /\ run' = run + 1
  /\ pc' = "submit"
  /\ next' = 1
  /\ accepted' = {}
  /\ wanted' = {}
  /\ batch' = << >>
  /\ handed' = {}
  /\ results' = << >>
  /\ expired' = FALSE
  /\ exit' = Running
  /\ UNCHANGED <<service, cursor, files>>

(* What the script does of its own: submit has a timeout of 30 s.           *)
Step == SubmitAccepted \/ SubmitFails \/ Submitted \/ Ask \/ StopReading

(* What happens when Redis answers or breaks: it may do neither.            *)
RedisStep ==
  Attach \/ Read \/ ReadEmpty \/ ReadAnswerLost \/ ReadFails \/ Take \/ CrashOnRedis

Next ==
  \/ Step \/ RedisStep \/ Expire \/ RunAgain
  \/ \E j \in Jobs, m \in Verdicts : Publish(j, m)

Spec == Init /\ [][Next]_vars

(* The script runs on and its clock does not stop.  Nothing is assumed of   *)
(* the verdicts, nor of Redis.                                              *)
FairSpec == Spec /\ WF_vars(Step) /\ WF_vars(Expire)
--------------------------------------------------------------------------------
TypeOK ==
  /\ admitted \subseteq Jobs
  /\ log \in Seq([job : Jobs, message : Messages])
  /\ trimmed \in 0 .. Len(log)
  /\ cursor \in {NoGroup} \cup 0 .. Len(log)
  /\ run \in 1 .. NumRuns
  /\ pc \in {"submit", "attach", "read", "asked", "ended"}
  /\ next \in 1 .. NumCases + 1
  /\ wanted \subseteq accepted /\ accepted \subseteq 1 .. next - 1
  /\ handed \subseteq DOMAIN log /\ \A n \in DOMAIN batch : batch[n] \in handed
  /\ DOMAIN results = accepted \ wanted
  /\ \A c \in DOMAIN results : results[c] \in handed
  /\ expired \in BOOLEAN
  /\ exit \in {Running, 0, 1, Crash}
  /\ files \in [Cases -> 0 .. Len(log)]

(* A job may have two verdicts (JobContract): the case keeps the first one  *)
(* that was handed to the script, and it is one about its own job of this   *)
(* run, never a late verdict about the same case from an earlier run.  One  *)
(* delivered in an answer that was lost was not handed to it.               *)
CollectedIsFirstVerdict ==
  \A c \in DOMAIN results :
    LET own == {i \in handed : log[i].job = Job(c)}
    IN results[c] \in own /\ \A i \in own : results[c] <= i

(* A case is missing at the end only if no verdict about it ever reached    *)
(* the script: published before the group existed, trimmed, lost with an    *)
(* answer, or too late.  The entries of others never cost it one.           *)
MissingHasReason ==
  pc = "ended" /\ exit # Crash =>
    \A c \in accepted \ DOMAIN results : \A i \in handed : log[i].job # Job(c)

(* What a run that ends with 0 leaves behind can be scored: the file of     *)
(* every accepted case is about this run's job, not left by an earlier run. *)
ExitTellsTruth ==
  exit = 0 => \A c \in accepted : files[c] # 0 /\ log[files[c]].job = Job(c)

(* The script waits for an answer of Redis.                                 *)
OnRedis == pc \in {"attach", "asked"} \/ batch # << >>

(* Every run ends, whatever the jobs do and Redis answers, unless Redis     *)
(* keeps the script waiting for good: only then the deadline of --wait does *)
(* not end it.                                                              *)
RunEnds ==
  []<>~OnRedis =>
    \A r \in 1 .. NumRuns : (run = r /\ pc = "submit") ~> (run = r /\ pc = "ended")
================================================================================
