------------------------- MODULE JobLifecycle_proofs ---------------------------
(***************************************************************************)
(* Theorems about JobLifecycle for every set of jobs, deadline, grace       *)
(* period, publish time and number of retries.                              *)
(***************************************************************************)
EXTENDS JobLifecycle, TLAPS

(* A process starts with every variable in its type.                        *)
LEMMA TypeInit == Init => TypeOK
  BY LifecycleAssumption DEF Init, TypeOK, Ainvoke, Deadline

(* Report and the publish helpers keep the types of what they assign.       *)
LEMMA ReportType ==
  ASSUME TypeOK, NEW j \in Jobs, NEW why \in {"error", "timeout", "cancelled"},
         pc[j] \in Ainvoke, Report(j, why)
  PROVE  /\ phase' \in {"serving", "draining", "reaping", "closed"}
         /\ drain' \in 0 .. Grace
         /\ pc' \in [Jobs -> Ainvoke \cup {"absent", "reporting", "ended"}]
         /\ age' \in [Jobs -> 0 .. Deadline]
         /\ wait' \in [Jobs -> 0 .. PublishTime]
         /\ cmd' \in [Jobs -> {"idle", "queued", "sent", "applied"}]
         /\ tries' \in [Jobs -> 0 .. Retries]
         /\ verdict' \in [Jobs -> {"graph_done", "graph_failed"}]
         /\ cause' \in [Jobs -> {"none", "error", "timeout", "cancelled"}]
         /\ orphans' \in [Jobs -> [Messages -> Nat]]
         /\ stream' \in [Jobs -> [Messages -> Nat]]
  BY LifecycleAssumption, SMTT(60)
  DEF TypeOK, Report, StartPublish, GiveUp, Message, Messages, Ainvoke, Deadline

(* Every action keeps the types: TypeOK is inductive by itself.             *)
LEMMA TypeNext == TypeOK /\ [Next]_vars => TypeOK'
<1> SUFFICES ASSUME TypeOK, [Next]_vars PROVE TypeOK'
  OBVIOUS
<1> USE LifecycleAssumption
<1>1. ASSUME NEW j \in Jobs, Accept(j) PROVE TypeOK'
  BY <1>1 DEF TypeOK, Accept, Ainvoke, redisvars
<1>2. ASSUME NEW j \in Jobs, ReachPublishDone(j) PROVE TypeOK'
  BY <1>2 DEF TypeOK, ReachPublishDone, Running, Ainvoke, Messages, StartPublish, redisvars
<1>3. ASSUME NEW j \in Jobs, PublishDoneReturns(j) PROVE TypeOK'
  BY <1>3 DEF TypeOK, PublishDoneReturns, Running, Ainvoke, Messages, EndPublish, redisvars
<1>4. ASSUME NEW j \in Jobs, JobReturns(j) PROVE TypeOK'
  BY <1>4 DEF TypeOK, JobReturns, Running, Ainvoke, Messages, redisvars
<1>5. ASSUME NEW j \in Jobs, GraphRaises(j) PROVE TypeOK'
  <2>1. pc[j] \in Ainvoke /\ Report(j, "error") /\ UNCHANGED cancels
    BY <1>5 DEF GraphRaises, Running, Ainvoke
  <2>2. QED BY <2>1, ReportType DEF TypeOK
<1>6. ASSUME NEW j \in Jobs, JobTimesOut(j) PROVE TypeOK'
  <2>1. pc[j] \in Ainvoke /\ Report(j, "timeout") /\ UNCHANGED cancels
    BY <1>6 DEF JobTimesOut, Running, Ainvoke
  <2>2. QED BY <2>1, ReportType DEF TypeOK
<1>7. ASSUME NEW j \in Jobs, CancelDelivered(j) PROVE TypeOK'
  <2>1. CASE pc[j] \in Ainvoke /\ Report(j, "cancelled")
    BY <1>7, <2>1, ReportType DEF TypeOK, CancelDelivered
  <2>2. CASE pc[j] = "reporting" /\ pc' = [pc EXCEPT ![j] = "ended"] /\ EndPublish(j)
             /\ GiveUp(j) /\ UNCHANGED <<phase, drain, age, verdict, cause, stream>>
    BY <1>7, <2>2
    DEF TypeOK, CancelDelivered, EndPublish, GiveUp, Message, Messages, Ainvoke
  <2>3. QED BY <1>7, <2>1, <2>2 DEF CancelDelivered
<1>8. ASSUME NEW j \in Jobs, ReportReturns(j) PROVE TypeOK'
  BY <1>8 DEF TypeOK, ReportReturns, Running, Ainvoke, Messages, EndPublish, redisvars
<1>9. ASSUME NEW j \in Jobs, Send(j) PROVE TypeOK'
  BY <1>9 DEF TypeOK, Send, Running, Ainvoke, Messages, Message, redisvars
<1>10. ASSUME NEW j \in Jobs, Apply(j) PROVE TypeOK'
  BY <1>10 DEF TypeOK, Apply, Running, Ainvoke, Messages, Message, redisvars
<1>11. ASSUME NEW j \in Jobs, Resend(j) PROVE TypeOK'
  BY <1>11 DEF TypeOK, Resend, Running, Ainvoke, Messages, GiveUp, Message, redisvars
<1>12. ASSUME NEW j \in Jobs, PublishRaises(j) PROVE TypeOK'
  <2>1. CASE Running(j, "publishing") /\ Report(j, "error")
    BY <1>12, <2>1, ReportType DEF TypeOK, PublishRaises, Running, Ainvoke
  <2>2. CASE Running(j, "reporting") /\ pc' = [pc EXCEPT ![j] = "ended"] /\ EndPublish(j)
             /\ GiveUp(j) /\ UNCHANGED <<phase, drain, age, verdict, cause, stream>>
    BY <1>12, <2>2
    DEF TypeOK, PublishRaises, Running, EndPublish, GiveUp, Message, Messages, Ainvoke
  <2>3. QED BY <1>12, <2>1, <2>2 DEF PublishRaises
<1>13. ASSUME NEW j \in Jobs, NEW m \in Messages, ApplyOrphan(j, m) PROVE TypeOK'
  BY <1>13 DEF TypeOK, ApplyOrphan, taskvars
<1>14. ASSUME NEW j \in Jobs, NEW m \in Messages, LoseOrphan(j, m) PROVE TypeOK'
  BY <1>14 DEF TypeOK, LoseOrphan, taskvars
<1>15. ASSUME BeginShutdown PROVE TypeOK'
  BY <1>15 DEF TypeOK, BeginShutdown, taskvars, redisvars
<1>16. ASSUME GraceExpires PROVE TypeOK'
  BY <1>16 DEF TypeOK, GraceExpires, GraceDue, Unfinished, taskvars, redisvars
<1>17. ASSUME CloseClients PROVE TypeOK'
  BY <1>17 DEF TypeOK, CloseClients, taskvars, redisvars
<1>18. ASSUME Tick PROVE TypeOK'
  BY <1>18 DEF TypeOK, Tick, GraceDue, Ainvoke, Publishing, Deadline, redisvars
<1>19. ASSUME UNCHANGED vars PROVE TypeOK'
  BY <1>19 DEF TypeOK, vars, taskvars, redisvars
<1>20. QED
  BY <1>1, <1>2, <1>3, <1>4, <1>5, <1>6, <1>7, <1>8, <1>9,
     <1>10, <1>11, <1>12, <1>13, <1>14, <1>15, <1>16, <1>17, <1>18, <1>19
  DEF Next, TaskStep, RedisStep

(* The task, timer and Redis bookkeeping never leaves its types.            *)
THEOREM TypeCorrect == Spec => []TypeOK
  BY TypeInit, TypeNext, PTL DEF Spec

--------------------------------------------------------------------------------
(* Why the grace period is enough.  While lifespan drains, a task still in  *)
(* its graph has been running for at least as long as the drain, so its     *)
(* deadline comes first; a task in _publish_failure got there within its    *)
(* deadline and a responsive Redis lets it stay for PublishTime at most.    *)
Covered == ~Hang /\ Grace > JobTimeout + PublishTime

DrainBehind ==
  Covered =>
    /\ phase = "serving" => drain = 0
    /\ phase # "reaping"
    /\ phase = "draining" =>
         \A j \in Jobs :
            /\ pc[j] \in Ainvoke => drain <= age[j]
            /\ pc[j] = "reporting" => drain <= JobTimeout + wait[j]

(* No drain is under way at the start.                                      *)
LEMMA DrainBehindInit == Init => DrainBehind
  BY DEF Init, DrainBehind

(* Entering _publish_failure from the graph restarts the publish clock:     *)
(* drain <= age <= JobTimeout.                                              *)
LEMMA ReportBehind ==
  ASSUME TypeOK, DrainBehind, NEW j \in Jobs, NEW why,
         pc[j] \in Ainvoke, Report(j, why)
  PROVE  DrainBehind'
<1>1. SUFFICES ASSUME Covered PROVE DrainBehind'
  BY DEF DrainBehind, Covered
<1>2. drain' = drain /\ phase' = phase /\ age' = age
  BY DEF Report
<1>3. SUFFICES ASSUME phase = "draining", NEW k \in Jobs
               PROVE  /\ pc'[k] \in Ainvoke => drain <= age[k]
                      /\ pc'[k] = "reporting" => drain <= JobTimeout + wait'[k]
  BY <1>1, <1>2 DEF DrainBehind, Covered
<1>4. CASE k = j
  <2>1. pc'[k] = "reporting" /\ wait'[k] = 0
    BY <1>4 DEF Report, StartPublish, TypeOK
  <2>2. drain <= age[j]
    BY <1>1, <1>3 DEF DrainBehind
  <2>. age[j] \in 0 .. JobTimeout /\ drain \in Nat
    BY LifecycleAssumption DEF TypeOK, Deadline
  <2>3. QED
    BY <2>1, <2>2, <1>4, LifecycleAssumption DEF Ainvoke
<1>5. CASE k # j
  <2>1. pc'[k] = pc[k] /\ wait'[k] = wait[k]
    BY <1>5 DEF Report, StartPublish, TypeOK
  <2>2. QED
    BY <2>1, <1>1, <1>2, <1>3 DEF DrainBehind
<1>6. QED
  BY <1>4, <1>5

(* Every step keeps the drain behind the jobs it waits for; the deadline    *)
(* and the publish time therefore end them before the grace period does.    *)
LEMMA DrainBehindNext == TypeOK /\ DrainBehind /\ [Next]_vars => DrainBehind'
<1> SUFFICES ASSUME TypeOK, DrainBehind, [Next]_vars PROVE DrainBehind'
  OBVIOUS
<1> USE LifecycleAssumption DEF TypeOK, DrainBehind, Covered, Ainvoke, Publishing,
        Deadline, taskvars, redisvars
<1>1. ASSUME NEW j \in Jobs, Accept(j) PROVE DrainBehind'
  BY <1>1 DEF Accept
<1>2. ASSUME NEW j \in Jobs, ReachPublishDone(j) PROVE DrainBehind'
  BY <1>2 DEF ReachPublishDone, Running, StartPublish
<1>3. ASSUME NEW j \in Jobs, PublishDoneReturns(j) PROVE DrainBehind'
  BY <1>3 DEF PublishDoneReturns, Running, EndPublish
<1>4. ASSUME NEW j \in Jobs, JobReturns(j) PROVE DrainBehind'
  BY <1>4 DEF JobReturns, Running
<1>5. ASSUME NEW j \in Jobs, GraphRaises(j) PROVE DrainBehind'
  <2>1. pc[j] \in Ainvoke /\ Report(j, "error")
    BY <1>5 DEF GraphRaises, Running
  <2>2. QED BY <2>1, ReportBehind
<1>6. ASSUME NEW j \in Jobs, JobTimesOut(j) PROVE DrainBehind'
  <2>1. pc[j] \in Ainvoke /\ Report(j, "timeout")
    BY <1>6 DEF JobTimesOut, Running
  <2>2. QED BY <2>1, ReportBehind
<1>7. ASSUME NEW j \in Jobs, CancelDelivered(j) PROVE DrainBehind'
  <2>1. CASE pc[j] \in Ainvoke /\ Report(j, "cancelled")
    BY <2>1, ReportBehind DEF Running
  <2>2. CASE /\ pc' = [pc EXCEPT ![j] = "ended"] /\ EndPublish(j)
             /\ UNCHANGED <<phase, drain, age>>
    BY <2>2 DEF EndPublish
  <2>3. QED BY <1>7, <2>1, <2>2 DEF CancelDelivered
<1>8. ASSUME NEW j \in Jobs, ReportReturns(j) PROVE DrainBehind'
  BY <1>8 DEF ReportReturns, Running, EndPublish
<1>9. ASSUME NEW j \in Jobs, Send(j) PROVE DrainBehind'
  BY <1>9 DEF Send, Running
<1>10. ASSUME NEW j \in Jobs, Apply(j) PROVE DrainBehind'
  BY <1>10 DEF Apply, Message
<1>11. ASSUME NEW j \in Jobs, Resend(j) PROVE DrainBehind'
  BY <1>11 DEF Resend, Running, GiveUp
<1>12. ASSUME NEW j \in Jobs, PublishRaises(j) PROVE DrainBehind'
  <2>1. CASE Running(j, "publishing") /\ Report(j, "error")
    BY <2>1, ReportBehind DEF Running
  <2>2. CASE /\ pc' = [pc EXCEPT ![j] = "ended"] /\ EndPublish(j)
             /\ UNCHANGED <<phase, drain, age>>
    BY <2>2 DEF EndPublish
  <2>3. QED BY <1>12, <2>1, <2>2 DEF PublishRaises
<1>13. ASSUME NEW j \in Jobs, NEW m \in Messages, ApplyOrphan(j, m) PROVE DrainBehind'
  BY <1>13 DEF ApplyOrphan
<1>14. ASSUME NEW j \in Jobs, NEW m \in Messages, LoseOrphan(j, m) PROVE DrainBehind'
  BY <1>14 DEF LoseOrphan
<1>15. ASSUME BeginShutdown PROVE DrainBehind'
  BY <1>15 DEF BeginShutdown
<1>16. ASSUME GraceExpires PROVE DrainBehind'
  <2>1. SUFFICES ASSUME ~Hang, Grace > JobTimeout + PublishTime PROVE FALSE
    BY <1>16 DEF GraceExpires, GraceDue
  <2>2. PICK j \in Jobs : pc[j] \in Ainvoke \/ pc[j] = "reporting"
    BY <1>16 DEF GraceExpires, GraceDue, Unfinished
  <2>3. drain = Grace /\ phase = "draining"
    BY <1>16 DEF GraceExpires, GraceDue
  <2>6. drain <= age[j] \/ drain <= JobTimeout + wait[j]
    BY <2>1, <2>2, <2>3
  <2>4. age[j] \in 0 .. JobTimeout /\ wait[j] \in 0 .. PublishTime
    OBVIOUS
  <2>5. QED BY <2>1, <2>3, <2>4, <2>6
<1>17. ASSUME CloseClients PROVE DrainBehind'
  BY <1>17 DEF CloseClients, Unfinished
<1>18. ASSUME Tick PROVE DrainBehind'
  BY <1>18 DEF Tick, GraceDue
<1>19. ASSUME UNCHANGED vars PROVE DrainBehind'
  BY <1>19 DEF vars
<1>20. QED
  BY <1>1, <1>2, <1>3, <1>4, <1>5, <1>6, <1>7, <1>8, <1>9, <1>10,
     <1>11, <1>12, <1>13, <1>14, <1>15, <1>16, <1>17, <1>18, <1>19
  DEF Next, TaskStep, RedisStep

(* With a grace period longer than the job deadline plus one publish, and a *)
(* Redis that answers, the shutdown never cancels a job.                    *)
THEOREM GraceCoversJobsHolds == Spec => []GraceCoversJobs
<1>1. DrainBehind => GraceCoversJobs
  BY DEF DrainBehind, Covered, GraceCoversJobs
<1>2. QED
  BY <1>1, DrainBehindInit, DrainBehindNext, TypeCorrect, PTL DEF Spec

--------------------------------------------------------------------------------
(* Why the shutdown ends although Redis may stay silent.  With a grace      *)
(* period longer than the deadline alone, every task has left its graph     *)
(* when the grace period is over; one that is still there is reporting, and *)
(* there the cancellation ends it.                                          *)
Reports ==
  Grace > JobTimeout =>
    /\ phase = "serving" => drain = 0
    /\ phase \in {"serving", "draining"} => cancels = {}
    /\ phase = "draining" => \A j \in Jobs : pc[j] \in Ainvoke => drain <= age[j]
    /\ phase = "reaping" => \A j \in Jobs : /\ pc[j] \notin Ainvoke
                                            /\ pc[j] = "reporting" <=> j \in cancels
    /\ phase = "closed" => Unfinished = {} /\ cancels = {}
    /\ \A j \in Jobs : cause[j] # "cancelled"

(* No drain is under way at the start.                                      *)
LEMMA ReportsInit == Init => Reports
  BY DEF Init, Reports

(* A task enters _publish_failure before lifespan cancels it, or not at all.*)
LEMMA EntersReport ==
  ASSUME TypeOK, Reports, NEW j \in Jobs, NEW why, why # "cancelled",
         Running(j, "graph") \/ Running(j, "publishing") \/ Running(j, "closing"),
         Report(j, why), UNCHANGED cancels
  PROVE  Reports'
<1> SUFFICES ASSUME Grace > JobTimeout PROVE Reports'
  BY DEF Reports
<1>1. pc[j] \in Ainvoke /\ j \notin cancels
  BY DEF Running, Ainvoke
<1>2. /\ pc' = [pc EXCEPT ![j] = "reporting"] /\ cause' = [cause EXCEPT ![j] = why]
      /\ UNCHANGED <<phase, drain, age, cancels>>
  BY DEF Report
<1>3. phase # "reaping" /\ phase # "closed"
  BY <1>1 DEF Reports, Unfinished
<1>4. phase = "draining" => \A k \in Jobs : pc'[k] \in Ainvoke => drain <= age[k]
  BY <1>2 DEF Reports, TypeOK, Ainvoke
<1>5. \A k \in Jobs : cause'[k] # "cancelled"
  BY <1>2 DEF Reports, TypeOK
<1> QED BY <1>2, <1>3, <1>4, <1>5 DEF Reports, TypeOK

(* Every step keeps the drain behind the graphs it waits for, and once the  *)
(* tasks are cancelled nothing is left to do for them but to end.           *)
LEMMA ReportsNext == TypeOK /\ Reports /\ [Next]_vars => Reports'
<1> SUFFICES ASSUME TypeOK, Reports, [Next]_vars, Grace > JobTimeout PROVE Reports'
  BY DEF Reports
<1> USE LifecycleAssumption DEF TypeOK, Reports, Ainvoke, Publishing, Unfinished, Deadline,
        taskvars, redisvars
<1>1. ASSUME NEW j \in Jobs, Accept(j) PROVE Reports'
  BY <1>1 DEF Accept
<1>2. ASSUME NEW j \in Jobs, ReachPublishDone(j) PROVE Reports'
  BY <1>2 DEF ReachPublishDone, Running, StartPublish
<1>3. ASSUME NEW j \in Jobs, PublishDoneReturns(j) PROVE Reports'
  BY <1>3 DEF PublishDoneReturns, Running, EndPublish
<1>4. ASSUME NEW j \in Jobs, JobReturns(j) PROVE Reports'
  BY <1>4 DEF JobReturns, Running
<1>5. ASSUME NEW j \in Jobs, GraphRaises(j) PROVE Reports'
  BY <1>5, EntersReport DEF GraphRaises
<1>6. ASSUME NEW j \in Jobs, JobTimesOut(j) PROVE Reports'
  BY <1>6, EntersReport DEF JobTimesOut
<1>7. ASSUME NEW j \in Jobs, CancelDelivered(j) PROVE Reports'
  <2>1. phase = "reaping" /\ pc[j] = "reporting"
    BY <1>7 DEF CancelDelivered
  <2>2. /\ pc' = [pc EXCEPT ![j] = "ended"] /\ cancels' = cancels \ {j}
        /\ UNCHANGED <<phase, drain, age, cause>>
    BY <1>7, <2>1 DEF CancelDelivered
  <2>3. QED BY <2>1, <2>2
<1>8. ASSUME NEW j \in Jobs, ReportReturns(j) PROVE Reports'
  BY <1>8 DEF ReportReturns, Running, EndPublish
<1>9. ASSUME NEW j \in Jobs, Send(j) \/ Apply(j) \/ Resend(j)
      PROVE  UNCHANGED <<phase, drain, pc, age, cause, cancels>>
  BY <1>9 DEF Send, Apply, Resend
<1>10. ASSUME NEW j \in Jobs, PublishRaises(j) PROVE Reports'
  <2>1. CASE Running(j, "publishing") /\ Report(j, "error")
    BY <1>10, <2>1, EntersReport DEF PublishRaises
  <2>2. CASE /\ Running(j, "reporting") /\ pc' = [pc EXCEPT ![j] = "ended"]
             /\ UNCHANGED <<phase, drain, age, cause>>
    BY <1>10, <2>2 DEF PublishRaises, Running
  <2>3. QED BY <1>10, <2>1, <2>2 DEF PublishRaises
<1>11. ASSUME NEW j \in Jobs, NEW m \in Messages, ApplyOrphan(j, m) \/ LoseOrphan(j, m)
       PROVE  UNCHANGED <<phase, drain, pc, age, cause, cancels>>
  BY <1>11 DEF ApplyOrphan, LoseOrphan
<1>12. ASSUME BeginShutdown PROVE Reports'
  BY <1>12 DEF BeginShutdown
<1>13. ASSUME GraceExpires PROVE Reports'
  <2>1. /\ phase = "draining" /\ drain = Grace /\ phase' = "reaping" /\ cancels' = Unfinished
        /\ UNCHANGED <<drain, pc, age, cause>>
    BY <1>13 DEF GraceExpires, GraceDue
  <2>2. ASSUME NEW j \in Jobs PROVE pc[j] \notin Ainvoke
    BY <2>1
  <2>3. QED BY <2>1, <2>2
<1>14. ASSUME CloseClients PROVE Reports'
  BY <1>14 DEF CloseClients
<1>15. ASSUME Tick PROVE Reports'
  BY <1>15 DEF Tick, GraceDue
<1>16. CASE UNCHANGED <<phase, drain, pc, age, cause, cancels>>
  BY <1>16
<1>17. UNCHANGED vars => UNCHANGED <<phase, drain, pc, age, cause, cancels>>
  BY DEF vars
<1> QED
  BY <1>1, <1>2, <1>3, <1>4, <1>5, <1>6, <1>7, <1>8, <1>9, <1>10, <1>11, <1>12, <1>13,
     <1>14, <1>15, <1>16, <1>17
  DEF Next, TaskStep, RedisStep

(* With a grace period longer than the deadline no job is cut short in its  *)
(* graph, however long Redis stays silent; and from the end of the grace    *)
(* period no time passes until the last task is over: the ones left are all *)
(* waiting in _publish_failure for a cancellation that ends them.           *)
THEOREM ShutdownWaitsForNoGraph ==
  ASSUME Grace > JobTimeout
  PROVE  Spec => /\ [](GraceDue => \A j \in Unfinished : pc[j] = "reporting")
                 /\ [](\A j \in Jobs : cause[j] # "cancelled")
                 /\ [](phase = "reaping" => Unfinished = cancels)
                 /\ [][phase = "reaping" /\ Tick => Unfinished = {}]_vars
<1> DEFINE Left == GraceDue => \A j \in Unfinished : pc[j] = "reporting"
           Whole == \A j \in Jobs : cause[j] # "cancelled"
           Waiting == phase = "reaping" => Unfinished = cancels
           AtOnce == phase = "reaping" /\ Tick => Unfinished = {}
<1>1. TypeOK /\ Reports => Left
  <2> SUFFICES ASSUME TypeOK, Reports, GraceDue, NEW j \in Jobs PROVE pc[j] \notin Ainvoke
    BY DEF Unfinished
  <2>1. age[j] \in 0 .. JobTimeout /\ drain = Grace /\ phase = "draining"
    BY DEF TypeOK, Deadline, GraceDue
  <2> QED BY <2>1, LifecycleAssumption DEF Reports
<1>2. TypeOK /\ Reports => Whole /\ Waiting
  BY DEF TypeOK, Reports, Unfinished
<1>3. TypeOK /\ Reports => AtOnce
  BY <1>2 DEF Tick
<1> QED
  BY <1>1, <1>2, <1>3, ReportsInit, ReportsNext, TypeCorrect, PTL DEF Spec

--------------------------------------------------------------------------------
(* Why no verdict is lost: with no broken connection and no cancellation    *)
(* (the theorem above), a task leaves its publish call only by reading the  *)
(* answer, and the answer exists only after Redis appended the message.     *)
Recorded ==
  Lossless =>
    /\ cancels = {}
    /\ \A j \in Jobs :
         pc[j] \in {"closing", "ended"} => Readable(j)
    /\ \A j \in Jobs :
         pc[j] \in Publishing /\ cmd[j] = "applied" => Readable(j)

(* Nothing is over at the start.                                            *)
LEMMA RecordedInit == Init => Recorded
  BY DEF Init, Recorded, Publishing

(* Every step that ends a task, or answers a publish call, has its message  *)
(* in the stream.                                                           *)
LEMMA RecordedNext ==
  TypeOK /\ DrainBehind' /\ Recorded /\ [Next]_vars => Recorded'
<1> SUFFICES ASSUME TypeOK, DrainBehind', Recorded, [Next]_vars PROVE Recorded'
  OBVIOUS
<1> USE LifecycleAssumption DEF TypeOK, DrainBehind, Covered, Recorded, Lossless,
        Ainvoke, Publishing, Readable, Messages, taskvars, redisvars
<1>1. ASSUME NEW j \in Jobs, Accept(j) PROVE Recorded'
  BY <1>1 DEF Accept
<1>2. ASSUME NEW j \in Jobs, ReachPublishDone(j) PROVE Recorded'
  BY <1>2 DEF ReachPublishDone, Running, StartPublish
<1>3. ASSUME NEW j \in Jobs, PublishDoneReturns(j) PROVE Recorded'
  BY <1>3 DEF PublishDoneReturns, Running, EndPublish
<1>4. ASSUME NEW j \in Jobs, JobReturns(j) PROVE Recorded'
  BY <1>4 DEF JobReturns, Running
<1>5. ASSUME NEW j \in Jobs, GraphRaises(j) PROVE Recorded'
  BY <1>5 DEF GraphRaises, Running, Report, StartPublish, GiveUp
<1>6. ASSUME NEW j \in Jobs, JobTimesOut(j) PROVE Recorded'
  BY <1>6 DEF JobTimesOut, Running, Report, StartPublish, GiveUp
<1>7. ASSUME NEW j \in Jobs, CancelDelivered(j) PROVE Recorded'
  BY <1>7 DEF CancelDelivered, Report, StartPublish, EndPublish, GiveUp
<1>8. ASSUME NEW j \in Jobs, ReportReturns(j) PROVE Recorded'
  BY <1>8 DEF ReportReturns, Running, EndPublish
<1>9. ASSUME NEW j \in Jobs, Send(j) PROVE Recorded'
  BY <1>9 DEF Send, Running
<1>10. ASSUME NEW j \in Jobs, Apply(j) PROVE Recorded'
  BY <1>10 DEF Apply, Message
<1>11. ASSUME NEW j \in Jobs, Resend(j) PROVE Recorded'
  BY <1>11 DEF Resend, Running, GiveUp
<1>12. ASSUME NEW j \in Jobs, PublishRaises(j) PROVE Recorded'
  BY <1>12 DEF PublishRaises, Running, Report, StartPublish, EndPublish, GiveUp
<1>13. ASSUME NEW j \in Jobs, NEW m \in Messages, ApplyOrphan(j, m) PROVE Recorded'
  BY <1>13 DEF ApplyOrphan
<1>14. ASSUME NEW j \in Jobs, NEW m \in Messages, LoseOrphan(j, m) PROVE Recorded'
  BY <1>14 DEF LoseOrphan
<1>15. ASSUME BeginShutdown PROVE Recorded'
  BY <1>15 DEF BeginShutdown
<1>16. ASSUME GraceExpires PROVE Recorded'
  BY <1>16 DEF GraceExpires, GraceDue, Unfinished
<1>17. ASSUME CloseClients PROVE Recorded'
  BY <1>17 DEF CloseClients, Unfinished
<1>18. ASSUME Tick PROVE Recorded'
  BY <1>18 DEF Tick, GraceDue
<1>19. ASSUME UNCHANGED vars PROVE Recorded'
  BY <1>19 DEF vars
<1>20. QED
  BY <1>1, <1>2, <1>3, <1>4, <1>5, <1>6, <1>7, <1>8, <1>9, <1>10,
     <1>11, <1>12, <1>13, <1>14, <1>15, <1>16, <1>17, <1>18, <1>19
  DEF Next, TaskStep, RedisStep

(* With a responsive, unbroken Redis and the configured grace period every  *)
(* job whose task is over has a verdict in the stream.                      *)
THEOREM EndedJobReadableHolds == Spec => []EndedJobReadable
<1>1. Recorded => EndedJobReadable
  BY DEF Recorded, EndedJobReadable, Publishing
<1>2. QED
  BY <1>1, RecordedInit, RecordedNext, DrainBehindInit, DrainBehindNext,
     TypeCorrect, PTL DEF Spec

--------------------------------------------------------------------------------
(* Why the report of a cancelled job gets through: lifespan's wait_for      *)
(* cancels the tasks once, when it leaves the draining phase; a task whose  *)
(* cancellation was delivered inside the graph is not in the set of tasks   *)
(* to cancel, and nothing puts it there again.                              *)
CancelledOnce ==
  /\ phase \in {"serving", "draining"} =>
       cancels = {} /\ \A j \in Jobs : cause[j] # "cancelled"
  /\ \A j \in cancels : cause[j] # "cancelled"
  /\ \A j \in Jobs :
       cause[j] = "cancelled" =>
         /\ pc[j] \in {"reporting", "ended"}
         /\ cmd[j] = "applied" => stream[j]["runner_failed"] > 0

(* Nothing is cancelled at the start.                                       *)
LEMMA CancelledOnceInit == Init => CancelledOnce
  BY DEF Init, CancelledOnce

(* No step cancels a task that already reports its cancellation.            *)
LEMMA CancelledOnceNext ==
  TypeOK /\ CancelledOnce /\ [Next]_vars => CancelledOnce'
<1> SUFFICES ASSUME TypeOK, CancelledOnce, [Next]_vars PROVE CancelledOnce'
  OBVIOUS
<1> USE DEF TypeOK, CancelledOnce, Ainvoke, Messages, taskvars, redisvars
<1>1. ASSUME NEW j \in Jobs, Accept(j) PROVE CancelledOnce'
  BY <1>1 DEF Accept
<1>2. ASSUME NEW j \in Jobs, ReachPublishDone(j) PROVE CancelledOnce'
  BY <1>2 DEF ReachPublishDone, Running, StartPublish
<1>3. ASSUME NEW j \in Jobs, PublishDoneReturns(j) PROVE CancelledOnce'
  BY <1>3 DEF PublishDoneReturns, Running, EndPublish
<1>4. ASSUME NEW j \in Jobs, JobReturns(j) PROVE CancelledOnce'
  BY <1>4 DEF JobReturns, Running
<1>5. ASSUME NEW j \in Jobs, GraphRaises(j) PROVE CancelledOnce'
  BY <1>5 DEF GraphRaises, Running, Report, StartPublish, GiveUp
<1>6. ASSUME NEW j \in Jobs, JobTimesOut(j) PROVE CancelledOnce'
  BY <1>6 DEF JobTimesOut, Running, Report, StartPublish, GiveUp
<1>7. ASSUME NEW j \in Jobs, CancelDelivered(j) PROVE CancelledOnce'
  <2>1. /\ j \in cancels /\ cancels' = cancels \ {j}
        /\ UNCHANGED <<phase, stream>>
    BY <1>7 DEF CancelDelivered, Report
  <2>2. CASE /\ pc' = [pc EXCEPT ![j] = "reporting"]
             /\ cause' = [cause EXCEPT ![j] = "cancelled"]
             /\ cmd' = [cmd EXCEPT ![j] = "queued"]
    BY <2>1, <2>2
  <2>3. CASE /\ pc' = [pc EXCEPT ![j] = "ended"]
             /\ cmd' = [cmd EXCEPT ![j] = "idle"]
             /\ UNCHANGED cause
    BY <2>1, <2>3
  <2>4. QED
    BY <1>7, <2>2, <2>3 DEF CancelDelivered, Report, StartPublish, EndPublish
<1>8. ASSUME NEW j \in Jobs, ReportReturns(j) PROVE CancelledOnce'
  BY <1>8 DEF ReportReturns, Running, EndPublish
<1>9. ASSUME NEW j \in Jobs, Send(j) PROVE CancelledOnce'
  BY <1>9 DEF Send, Running
<1>10. ASSUME NEW j \in Jobs, Apply(j) PROVE CancelledOnce'
  BY <1>10 DEF Apply, Message
<1>11. ASSUME NEW j \in Jobs, Resend(j) PROVE CancelledOnce'
  BY <1>11 DEF Resend, Running, GiveUp
<1>12. ASSUME NEW j \in Jobs, PublishRaises(j) PROVE CancelledOnce'
  <2>1. CASE Running(j, "publishing") /\ Report(j, "error")
    BY <1>12, <2>1 DEF PublishRaises, Running, Report, StartPublish
  <2>2. CASE /\ pc' = [pc EXCEPT ![j] = "ended"] /\ EndPublish(j)
             /\ UNCHANGED <<phase, cancels, cause, stream>>
    BY <1>12, <2>2 DEF PublishRaises, EndPublish
  <2>3. QED BY <1>12, <2>1, <2>2 DEF PublishRaises
<1>13. ASSUME NEW j \in Jobs, NEW m \in Messages, ApplyOrphan(j, m) PROVE CancelledOnce'
  BY <1>13 DEF ApplyOrphan
<1>14. ASSUME NEW j \in Jobs, NEW m \in Messages, LoseOrphan(j, m) PROVE CancelledOnce'
  BY <1>14 DEF LoseOrphan
<1>15. ASSUME BeginShutdown PROVE CancelledOnce'
  BY <1>15 DEF BeginShutdown
<1>16. ASSUME GraceExpires PROVE CancelledOnce'
  BY <1>16 DEF GraceExpires, GraceDue, Unfinished
<1>17. ASSUME CloseClients PROVE CancelledOnce'
  BY <1>17 DEF CloseClients, Unfinished
<1>18. ASSUME Tick PROVE CancelledOnce'
  BY <1>18 DEF Tick, GraceDue
<1>19. ASSUME UNCHANGED vars PROVE CancelledOnce'
  BY <1>19 DEF vars
<1>20. QED
  BY <1>1, <1>2, <1>3, <1>4, <1>5, <1>6, <1>7, <1>8, <1>9, <1>10,
     <1>11, <1>12, <1>13, <1>14, <1>15, <1>16, <1>17, <1>18, <1>19
  DEF Next, TaskStep, RedisStep

(* Whatever the grace period and however long Redis stays silent, a job cut *)
(* short by the shutdown is over only after its failure report is in the    *)
(* stream, or after the client ran out of retries on broken connections.    *)
THEOREM CancelledJobReportsHolds == Spec => CancelledJobReports
<1> DEFINE Reported ==
      \A j \in Jobs :
        cause[j] = "cancelled" /\ pc[j] # "ended" /\ pc'[j] = "ended" =>
          \/ stream[j]["runner_failed"] > 0
          \/ Reset /\ tries[j] = Retries
<1>1. ASSUME TypeOK, CancelledOnce, [Next]_vars PROVE [Reported]_vars
  <2> USE <1>1 DEF TypeOK, CancelledOnce
  <2>1. ASSUME NEW j \in Jobs, TaskStep(j) PROVE Reported
    BY <2>1 DEF TaskStep, ReachPublishDone, PublishDoneReturns, JobReturns,
       GraphRaises, JobTimesOut, CancelDelivered, ReportReturns, Report, Running,
       Ainvoke
  <2>2. ASSUME NEW j \in Jobs, PublishRaises(j) PROVE Reported
    BY <2>2 DEF PublishRaises, Report, Running
  <2>3. ASSUME NEW j \in Jobs, RedisStep(j), ~PublishRaises(j) PROVE Reported
    BY <2>3 DEF RedisStep, Send, Apply, Resend, ApplyOrphan, LoseOrphan, taskvars
  <2>4. ASSUME NEW j \in Jobs, Accept(j) PROVE Reported
    BY <2>4 DEF Accept
  <2>5. ASSUME BeginShutdown \/ GraceExpires \/ CloseClients \/ Tick
        PROVE Reported
    BY <2>5 DEF BeginShutdown, GraceExpires, CloseClients, Tick, taskvars
  <2>6. QED
    BY <2>1, <2>2, <2>3, <2>4, <2>5 DEF Next
<1>2. QED
  BY <1>1, CancelledOnceInit, CancelledOnceNext, TypeCorrect, PTL
  DEF Spec, CancelledJobReports

--------------------------------------------------------------------------------
(***************************************************************************)
(* JobLifecycle implements JobContract, for every set of jobs, deadline,    *)
(* grace period and number of retries: whatever the tasks, the timers, the  *)
(* shutdown and broken connections do, the reader of the stream sees what   *)
(* the contract allows.                                                     *)
(***************************************************************************)

(* Every copy of a message that is in the stream or may still get there.    *)
Said(j, m) == stream[j][m] + orphans[j][m]

(* Who has spoken about a job, and how often: the graph is silent before    *)
(* publish_done and says one thing only, the runner is silent before it     *)
(* reports, and a publish call leaves a copy per try at most.               *)
Account(j) ==
  /\ pc[j] \in {"absent", "graph"} => Said(j, "graph_done") = 0 /\ Said(j, "graph_failed") = 0
  /\ pc[j] \notin {"reporting", "ended"} => Said(j, "runner_failed") = 0
  /\ \A m \in {"graph_done", "graph_failed"} : verdict[j] # m => Said(j, m) = 0
  /\ pc[j] \notin Publishing => cmd[j] = "idle"
  /\ pc[j] \in Publishing =>
       /\ cmd[j] = "applied" => Said(j, Message(j)) <= tries[j] + 1
       /\ cmd[j] # "applied" => Said(j, Message(j)) <= tries[j]
  /\ \A m \in Messages : Said(j, m) <= Retries + 1

Accounts == \A j \in Jobs : Account(j)

(* What Account reads of a job.                                             *)
Same(k) ==
  /\ pc'[k] = pc[k] /\ verdict'[k] = verdict[k] /\ cmd'[k] = cmd[k]
  /\ tries'[k] = tries[k] /\ stream'[k] = stream[k] /\ orphans'[k] = orphans[k]

(* Nothing has been said at the start.                                      *)
LEMMA AccountsInit == Init => Accounts
<1> SUFFICES ASSUME Init, NEW j \in Jobs PROVE Account(j)
  BY DEF Accounts
<1>1. \A m \in Messages : Said(j, m) = 0
  BY DEF Init, Said
<1>2. pc[j] = "absent" /\ cmd[j] = "idle"
  BY DEF Init
<1>3. 0 <= Retries + 1
  BY LifecycleAssumption
<1>4. QED
  BY <1>1, <1>2, <1>3 DEF Account, Messages, Publishing

(* A job nothing happened to keeps its account.                             *)
LEMMA AccountKept ==
  ASSUME NEW k \in Jobs, Account(k), Same(k)
  PROVE  Account(k)'
  BY DEF Account, Same, Said, Message, Messages, Publishing

(* A command given up while it was on the wire counts as one copy more, and *)
(* at most one per try.                                                     *)
LEMMA GiveUpAccount ==
  ASSUME TypeOK, NEW j \in Jobs, Account(j), GiveUp(j), UNCHANGED stream,
         NEW m \in Messages
  PROVE  /\ Said(j, m)' <= Retries + 1
         /\ Said(j, m)' = Said(j, m) \/ (m = Message(j) /\ cmd[j] = "sent"
                                         /\ Said(j, m)' = Said(j, m) + 1)
         /\ \A k \in Jobs : k # j => orphans'[k] = orphans[k]
<1> USE LifecycleAssumption
<1>1. Message(j) \in Messages
  BY DEF Message, Messages, TypeOK
<1>2. CASE cmd[j] = "sent"
  <2>1. pc[j] \in Publishing /\ Said(j, Message(j)) <= tries[j] /\ tries[j] \in 0 .. Retries
    BY <1>2 DEF Account, TypeOK
  <2>2. orphans' = [orphans EXCEPT ![j][Message(j)] = @ + 1]
    BY <1>2 DEF GiveUp
  <2>3. /\ \A k \in Jobs : k # j => orphans'[k] = orphans[k]
        /\ m # Message(j) => orphans'[j][m] = orphans[j][m]
        /\ orphans'[j][Message(j)] = orphans[j][Message(j)] + 1
    BY <1>1, <2>2 DEF TypeOK
  <2>4. \A n \in Messages : stream[j][n] \in Nat /\ orphans[j][n] \in Nat
    BY DEF TypeOK
  <2>5. QED
    BY <1>1, <1>2, <2>1, <2>3, <2>4 DEF Said, Account
<1>3. CASE cmd[j] # "sent"
  BY <1>3 DEF GiveUp, Said, Account
<1>4. QED
  BY <1>2, <1>3

(* A task gives its publish call up and reports, or is over.                *)
Leaves(j, to) ==
  /\ pc[j] \in Ainvoke \/ (pc[j] = "reporting" /\ to = "ended")
  /\ pc' = [pc EXCEPT ![j] = to]
  /\ (StartPublish(j) /\ to = "reporting") \/ (EndPublish(j) /\ to = "ended")
  /\ GiveUp(j)
  /\ UNCHANGED <<verdict, stream>>

(* It leaves one copy more at most, and only if the command was on the wire.*)
LEMMA LeavesAccount ==
  ASSUME TypeOK, Accounts, NEW j \in Jobs, NEW to \in {"reporting", "ended"}, Leaves(j, to)
  PROVE  Accounts'
<1> USE DEF Leaves
<1> SUFFICES ASSUME NEW k \in Jobs PROVE Account(k)'
  BY DEF Accounts
<1>0. Account(j) /\ Account(k)
  BY DEF Accounts
<1>1. CASE k # j
  <2>1. Same(k)
    BY <1>0, <1>1, GiveUpAccount DEF Same, StartPublish, EndPublish, TypeOK, Messages
  <2>2. QED BY <1>0, <2>1, AccountKept
<1>2. CASE k = j
  <2>1. /\ pc'[j] = to /\ tries'[j] = 0
        /\ cmd'[j] = IF to = "reporting" THEN "queued" ELSE "idle"
    BY DEF StartPublish, EndPublish, TypeOK
  <2>2. \A m \in Messages :
          /\ Said(j, m)' <= Retries + 1
          /\ m # Message(j) \/ cmd[j] # "sent" => Said(j, m)' = Said(j, m)
    BY <1>0, GiveUpAccount
  <2>3. cmd[j] = "sent" => pc[j] \in Publishing
    BY <1>0 DEF Account
  <2>4. Message(j) = IF pc[j] = "publishing" THEN verdict[j] ELSE "runner_failed"
    BY DEF Message
  <2>5. \A m \in {"graph_done", "graph_failed"} : verdict[j] # m => Said(j, m)' = 0
    BY <1>0, <2>2, <2>4 DEF Account, Messages
  <2>6. to = "reporting" => Said(j, "runner_failed")' = 0
    <3>1. SUFFICES ASSUME to = "reporting" PROVE Said(j, "runner_failed")' = 0
      OBVIOUS
    <3>2. pc[j] \in Ainvoke
      BY <3>1
    <3>3. Said(j, "runner_failed") = 0
      BY <1>0, <3>2 DEF Account, Ainvoke
    <3>4. cmd[j] = "sent" => Message(j) # "runner_failed"
      BY <2>3, <2>4, <3>2 DEF Publishing, Ainvoke, TypeOK
    <3>5. QED BY <2>2, <3>3, <3>4 DEF Messages
  <2>7. QED
    BY <1>2, <2>1, <2>2, <2>5, <2>6 DEF Account, Message, Publishing, Messages
<1>3. QED BY <1>1, <1>2
(* Every step keeps the accounts.                                           *)
LEMMA AccountsNext == TypeOK /\ Accounts /\ [Next]_vars => Accounts'
<1> SUFFICES ASSUME TypeOK, Accounts, [Next]_vars PROVE Accounts'
  OBVIOUS
<1> USE LifecycleAssumption
<1>1. UNCHANGED vars => Accounts'
  <2>1. ASSUME UNCHANGED vars, NEW k \in Jobs PROVE Account(k)'
    BY <2>1, AccountKept DEF Accounts, Same, vars, taskvars, redisvars
  <2>2. QED BY <2>1 DEF Accounts
<1>2. ASSUME NEW j \in Jobs, NEW why, pc[j] \in Ainvoke, Report(j, why)
      PROVE  Accounts'
  <2>1. Leaves(j, "reporting")
    BY <1>2 DEF Report, Leaves
  <2>2. QED
    BY <2>1, LeavesAccount
<1>3. ASSUME NEW j \in Jobs, Accept(j) \/ ReachPublishDone(j) \/ JobReturns(j)
      PROVE  Accounts'
  <2> SUFFICES ASSUME NEW k \in Jobs PROVE Account(k)'
    BY DEF Accounts
  <2>1. Account(k)
    BY DEF Accounts
  <2>2. CASE k # j
    <3>1. Same(k)
      BY <1>3, <2>2 DEF Accept, ReachPublishDone, JobReturns, StartPublish, Same, TypeOK,
                        taskvars, redisvars
    <3>2. QED BY <2>1, <3>1, AccountKept
  <2>3. CASE k = j /\ (Accept(j) \/ JobReturns(j))
    BY <2>1, <2>3 DEF Accept, JobReturns, Running, Account, Said, Publishing, Messages,
                      TypeOK, redisvars
  <2>4. CASE k = j /\ ReachPublishDone(j)
    <3>1. \A m \in Messages : Said(j, m) = 0
      BY <2>1, <2>4 DEF ReachPublishDone, Running, Account, Messages
    <3>2. \A m \in Messages : Said(j, m)' = 0
      BY <3>1, <2>4 DEF ReachPublishDone, Said, redisvars
    <3>3. pc'[j] = "publishing" /\ cmd'[j] = "queued" /\ tries'[j] = 0
      BY <2>4 DEF ReachPublishDone, StartPublish, TypeOK
    <3>4. verdict'[j] \in {"graph_done", "graph_failed"}
      BY <2>4 DEF ReachPublishDone, TypeOK
    <3>5. QED
      BY <2>4, <3>2, <3>3, <3>4 DEF Account, Message, Messages, Publishing
  <2>5. QED BY <1>3, <2>2, <2>3, <2>4
<1>4. ASSUME NEW j \in Jobs, PublishDoneReturns(j) \/ ReportReturns(j)
      PROVE  Accounts'
  <2> SUFFICES ASSUME NEW k \in Jobs PROVE Account(k)'
    BY DEF Accounts
  <2>1. Account(k)
    BY DEF Accounts
  <2>2. CASE k # j
    <3>1. Same(k)
      BY <1>4, <2>2 DEF PublishDoneReturns, ReportReturns, EndPublish, Same, TypeOK, redisvars
    <3>2. QED BY <2>1, <3>1, AccountKept
  <2>3. CASE k = j
    <3>1. /\ pc[j] \in Publishing /\ verdict' = verdict /\ cmd'[j] = "idle"
          /\ pc'[j] = IF pc[j] = "publishing" THEN "closing" ELSE "ended"
      BY <1>4 DEF PublishDoneReturns, ReportReturns, EndPublish, Running, Publishing, TypeOK
    <3>2. \A m \in Messages : Said(j, m)' = Said(j, m)
      BY <1>4 DEF PublishDoneReturns, ReportReturns, Said, redisvars
    <3>3. QED
      BY <2>1, <2>3, <3>1, <3>2 DEF Account, Publishing, Messages
  <2>4. QED BY <2>2, <2>3
<1>5. ASSUME NEW j \in Jobs, CancelDelivered(j) \/ PublishRaises(j), pc[j] = "reporting"
      PROVE  Accounts'
  <2>1. Leaves(j, "ended")
    BY <1>5 DEF CancelDelivered, PublishRaises, Running, Ainvoke, Leaves
  <2>2. QED
    BY <2>1, LeavesAccount
<1>6. ASSUME NEW j \in Jobs, CancelDelivered(j) \/ PublishRaises(j), pc[j] # "reporting"
      PROVE  Accounts'
  BY <1>6, <1>2 DEF CancelDelivered, PublishRaises, Running, Ainvoke
<1>7. ASSUME NEW j \in Jobs, GraphRaises(j) \/ JobTimesOut(j) PROVE Accounts'
  BY <1>7, <1>2 DEF GraphRaises, JobTimesOut, Running, Ainvoke
<1>8. ASSUME NEW j \in Jobs, Send(j) \/ Apply(j) \/ Resend(j) PROVE Accounts'
  <2> SUFFICES ASSUME NEW k \in Jobs PROVE Account(k)'
    BY DEF Accounts
  <2>1. Account(j) /\ Account(k)
    BY DEF Accounts
  <2>2. UNCHANGED <<pc, verdict>>
    BY <1>8 DEF Send, Apply, Resend
  <2>3. Message(j) \in Messages /\ Message(j)' = Message(j)
    BY <2>2 DEF Message, Messages, TypeOK
  <2>4. tries[j] \in 0 .. Retries /\ \A m \in Messages : stream[j][m] \in Nat /\ orphans[j][m] \in Nat
    BY DEF TypeOK
  <2>5. CASE k # j
    <3>1. CASE Send(j) \/ Apply(j)
      <4>1. Same(k)
        BY <2>3, <2>5, <3>1 DEF Send, Apply, Same, TypeOK, redisvars
      <4>2. QED BY <2>1, <4>1, AccountKept
    <3>2. CASE Resend(j)
      <4>1. orphans'[k] = orphans[k]
        BY <2>1, <2>3, <2>5, <3>2, GiveUpAccount DEF Resend
      <4>2. Same(k)
        BY <2>5, <3>2, <4>1 DEF Resend, Same, TypeOK
      <4>3. QED BY <2>1, <4>2, AccountKept
    <3>3. QED BY <1>8, <3>1, <3>2
  <2>6. CASE k = j /\ Send(j)
    <3>1. cmd[j] = "queued" /\ cmd'[j] = "sent" /\ tries' = tries /\ pc[j] \in Publishing
      BY <2>6 DEF Send, Running, Publishing, TypeOK
    <3>2. \A m \in Messages : Said(j, m)' = Said(j, m)
      BY <2>6 DEF Send, Said, redisvars
    <3>3. QED
      BY <2>1, <2>2, <2>3, <2>6, <3>1, <3>2 DEF Account, Messages
  <2>7. CASE k = j /\ Apply(j)
    <3>1. cmd[j] = "sent" /\ cmd'[j] = "applied" /\ tries' = tries
      BY <2>7 DEF Apply, TypeOK
    <3>2. pc[j] \in Publishing /\ Said(j, Message(j)) <= tries[j]
      BY <2>1, <3>1 DEF Account
    <3>3. /\ Said(j, Message(j))' = Said(j, Message(j)) + 1
          /\ \A m \in Messages : m # Message(j) => Said(j, m)' = Said(j, m)
      BY <2>2, <2>3, <2>4, <2>7 DEF Apply, Said, TypeOK
    <3>4. /\ Said(j, Message(j)) \in Nat /\ Said(j, Message(j))' <= tries[j] + 1
          /\ tries[j] + 1 <= Retries + 1
      BY <2>3, <2>4, <3>2, <3>3 DEF Said
    <3>5. pc[j] = "publishing" => Message(j) = verdict[j]
      BY DEF Message
    <3>6. pc[j] = "reporting" => Message(j) = "runner_failed"
      BY DEF Message
    <3>7. /\ \A m \in Messages : Said(j, m)' <= Retries + 1
          /\ pc'[j] \in Publishing /\ pc'[j] = pc[j] /\ verdict'[j] = verdict[j]
      BY <2>1, <2>2, <2>3, <2>4, <3>2, <3>3, <3>4 DEF Account
    <3>8. \A m \in Messages \ {Message(j)} : Said(j, m)' = Said(j, m)
      BY <3>3
    <3>9. QED
      BY <2>1, <2>2, <2>3, <2>7, <3>1, <3>4, <3>5, <3>6, <3>7, <3>8
      DEF Account, Messages, Publishing, TypeOK
  <2>8. CASE k = j /\ Resend(j)
    <3>1. /\ cmd'[j] = "queued" /\ tries'[j] = tries[j] + 1 /\ tries[j] < Retries
          /\ pc[j] \in Publishing /\ cmd[j] # "idle" /\ GiveUp(j) /\ UNCHANGED stream
      BY <2>8 DEF Resend, Running, Publishing, TypeOK
    <3>2. \A m \in Messages :
            /\ Said(j, m)' <= Retries + 1
            /\ m # Message(j) \/ cmd[j] # "sent" => Said(j, m)' = Said(j, m)
            /\ cmd[j] = "sent" => Said(j, Message(j))' <= Said(j, Message(j)) + 1
      BY <2>1, <2>3, <2>4, <3>1, GiveUpAccount DEF Said
    <3>3. /\ cmd[j] = "applied" => Said(j, Message(j)) <= tries[j] + 1
          /\ cmd[j] # "applied" => Said(j, Message(j)) <= tries[j]
      BY <2>1, <3>1 DEF Account
    <3>4. Said(j, Message(j))' <= tries'[j]
      <4>1. Said(j, Message(j)) \in Nat /\ tries[j] \in Nat
        BY <2>3, <2>4 DEF Said
      <4>2. CASE cmd[j] = "sent"
        <5>1. \/ Said(j, Message(j))' = Said(j, Message(j)) + 1
              \/ Said(j, Message(j))' = Said(j, Message(j))
          BY <2>1, <2>3, <3>1, GiveUpAccount
        <5>2. QED BY <3>1, <3>3, <4>1, <4>2, <5>1
      <4>3. CASE cmd[j] # "sent"
        <5>1. Said(j, Message(j))' = Said(j, Message(j))
          BY <2>3, <3>2, <4>3
        <5>2. QED BY <3>1, <3>3, <4>1, <4>3, <5>1
      <4>4. QED BY <4>2, <4>3
    <3>5. \A m \in Messages : m # Message(j) => Said(j, m)' = Said(j, m)
      BY <3>2
    <3>6. pc[j] = "publishing" => Message(j) = verdict[j]
      BY DEF Message
    <3>7. pc[j] = "reporting" => Message(j) = "runner_failed"
      BY DEF Message
    <3>8. QED
      BY <2>1, <2>2, <2>3, <2>8, <3>1, <3>2, <3>4, <3>5, <3>6, <3>7
      DEF Account, Messages, Publishing, TypeOK
  <2>9. QED BY <1>8, <2>5, <2>6, <2>7, <2>8
<1>9. ASSUME NEW j \in Jobs, NEW m \in Messages, ApplyOrphan(j, m) \/ LoseOrphan(j, m)
      PROVE  Accounts'
  <2> SUFFICES ASSUME NEW k \in Jobs PROVE Account(k)'
    BY DEF Accounts
  <2>1. Account(k)
    BY DEF Accounts
  <2>2. \A n \in Messages : stream[k][n] \in Nat /\ orphans[k][n] \in Nat
    BY DEF TypeOK
  <2>3. ASSUME NEW n \in Messages
        PROVE  Said(k, n)' = Said(k, n) \/ (Said(k, n)' = Said(k, n) - 1 /\ Said(k, n) > 0)
    <3>1. CASE k = j /\ n = m /\ ApplyOrphan(j, m)
      BY <2>2, <3>1 DEF ApplyOrphan, Said, TypeOK
    <3>2. CASE k = j /\ n = m /\ LoseOrphan(j, m)
      BY <2>2, <3>2 DEF LoseOrphan, Said, TypeOK
    <3>3. CASE k # j \/ n # m
      BY <1>9, <3>3 DEF ApplyOrphan, LoseOrphan, Said, TypeOK
    <3>4. QED BY <1>9, <3>1, <3>2, <3>3
  <2>4. UNCHANGED taskvars /\ Message(k)' = Message(k) /\ Message(k) \in Messages
    BY <1>9 DEF ApplyOrphan, LoseOrphan, Message, taskvars, Messages, TypeOK
  <2>5. \A n \in Messages : Said(k, n) \in Nat
    BY <2>2 DEF Said
  <2>6. tries[k] \in Nat
    BY DEF TypeOK
  <2>7. QED
    BY <2>1, <2>3, <2>4, <2>5, <2>6 DEF Account, Messages, taskvars
<1>10. ASSUME BeginShutdown \/ GraceExpires \/ CloseClients \/ Tick PROVE Accounts'
  <2>1. ASSUME NEW k \in Jobs PROVE Account(k)'
    <3>1. Same(k)
      BY <1>10 DEF BeginShutdown, GraceExpires, CloseClients, Tick, Same, taskvars, redisvars
    <3>2. QED BY <3>1, AccountKept DEF Accounts
  <2>2. QED BY <2>1 DEF Accounts
<1>11. QED
  BY <1>1, <1>3, <1>4, <1>5, <1>6, <1>7, <1>8, <1>9, <1>10 DEF Next, TaskStep, RedisStep
--------------------------------------------------------------------------------
(* The contract sees of a job only whether it is accepted and over.         *)
Unseen ==
  /\ \A k \in Jobs : /\ pc'[k] = "absent" <=> pc[k] = "absent"
                     /\ pc'[k] = "ended" <=> pc[k] = "ended"
  /\ phase' = "closed" <=> phase = "closed"
  /\ stream' = stream

(* What the contract does not see is a stutter of it.                       *)
LEMMA UnseenStutters == Unseen => UNCHANGED Contract!cvars
  BY DEF Unseen, Contract!cvars

(* A copy that reaches the stream is one the contract allows: the message   *)
(* was still owed, and the graph never said the opposite.                   *)
LEMMA Delivers ==
  ASSUME TypeOK, Accounts, NEW j \in Jobs, NEW m \in Messages,
         UNCHANGED <<phase, pc>>,
         stream' = [stream EXCEPT ![j][m] = @ + 1],
         \/ cmd[j] = "sent" /\ m = Message(j)
         \/ orphans[j][m] > 0
  PROVE  Contract!Deliver(j, m)
<1> USE LifecycleAssumption
<1>1. Account(j)
  BY DEF Accounts
<1>2. \A n \in Messages : stream[j][n] \in Nat /\ orphans[j][n] \in Nat
  BY DEF TypeOK
<1>3. cmd[j] = "sent" => pc[j] \in Publishing
  BY <1>1 DEF Account
<1>4. pc[j] # "absent"
  <2>1. CASE cmd[j] = "sent"
    BY <1>3, <2>1 DEF Publishing
  <2>2. CASE orphans[j][m] > 0
    <3>1. pc[j] = "absent" => \A n \in Messages : Said(j, n) = 0
      BY <1>1 DEF Account, Messages
    <3>2. stream[j][m] + orphans[j][m] # 0
      BY <1>2, <2>2
    <3>3. QED BY <3>1, <3>2 DEF Said
  <2>3. QED BY <2>1, <2>2
<1>5. stream[j][m] < Retries + 1
  <2>1. CASE cmd[j] = "sent" /\ m = Message(j)
    <3>1. Said(j, m) <= tries[j] /\ tries[j] \in 0 .. Retries
      BY <1>1, <1>3, <2>1 DEF Account, TypeOK
    <3>2. QED BY <1>2, <3>1 DEF Said
  <2>2. CASE orphans[j][m] > 0
    BY <1>1, <1>2, <2>2 DEF Account, Said
  <2>3. QED BY <2>1, <2>2
<1>6. ASSUME NEW n \in Messages, Contract!Contradicts(m, n) PROVE stream[j][n] = 0
  <2>1. m \in {"graph_done", "graph_failed"} /\ n \in {"graph_done", "graph_failed"} /\ m # n
    BY <1>6 DEF Contract!Contradicts, Messages
  <2>2. verdict[j] = m
    <3>1. CASE cmd[j] = "sent" /\ m = Message(j)
      BY <2>1, <3>1 DEF Message
    <3>2. CASE orphans[j][m] > 0
      BY <1>1, <1>2, <2>1, <3>2 DEF Account, Said
    <3>3. QED BY <3>1, <3>2
  <2>3. Said(j, n) = 0
    BY <1>1, <2>1, <2>2 DEF Account
  <2>4. QED BY <1>2, <2>3 DEF Said
<1>7. Contract!Messages = Messages
  BY DEF Contract!Messages, Messages
<1>8. QED
  BY <1>4, <1>5, <1>6, <1>7 DEF Contract!Deliver

(* A task that is over, and where a verdict must be readable, it is.        *)
LEMMA Settles ==
  ASSUME TypeOK, Recorded', NEW j \in Jobs,
         pc[j] \notin {"absent", "ended"}, pc' = [pc EXCEPT ![j] = "ended"],
         UNCHANGED <<phase, stream>>
  PROVE  Contract!Settle(j)
<1>1. Lossless => Readable(j)
  <2>1. pc'[j] = "ended" /\ Lossless' = Lossless
    BY DEF TypeOK, Lossless
  <2>2. Lossless => Readable(j)'
    BY <2>1 DEF Recorded
  <2>3. QED BY <2>2 DEF Readable
<1>2. Contract!Readable(stream, j) = Readable(j)
  BY DEF Contract!Readable, Contract!Messages, Readable, Messages
<1>3. \A k \in Jobs \ {j} : pc'[k] = pc[k]
  BY DEF TypeOK
<1>4. pc'[j] = "ended"
  BY DEF TypeOK
<1>5. QED
  BY <1>1, <1>2, <1>3, <1>4 DEF Contract!Settle

(* The initial state is one of the contract's.                              *)
LEMMA ImplementsInit == Init => Contract!CInit
  BY DEF Init, Contract!CInit, Contract!Messages, Messages

(* Every step is a step of the contract, or one it does not see.            *)
LEMMA ImplementsNext ==
  TypeOK /\ Accounts /\ Recorded' /\ [Next]_vars => [Contract!CNext]_(Contract!cvars)
<1> SUFFICES ASSUME TypeOK, Accounts, Recorded', [Next]_vars
             PROVE  Contract!CNext \/ UNCHANGED Contract!cvars
  OBVIOUS
<1>1. ASSUME NEW j \in Jobs, Accept(j) PROVE Contract!Admit(j)
  <2>1. \A k \in Jobs \ {j} : pc'[k] = pc[k]
    BY <1>1 DEF Accept, TypeOK
  <2>2. pc[j] = "absent" /\ pc'[j] = "graph"
    BY <1>1 DEF Accept, TypeOK
  <2>3. phase = "serving" /\ phase' = phase /\ stream' = stream
    BY <1>1 DEF Accept, redisvars
  <2>4. QED
    BY <2>1, <2>2, <2>3 DEF Contract!Admit
<1>2. ASSUME NEW j \in Jobs, TaskStep(j) \/ PublishRaises(j) PROVE Contract!Settle(j) \/ Unseen
  <2>1. UNCHANGED <<phase, stream>> /\ pc[j] \notin {"absent", "ended"}
    BY <1>2 DEF TaskStep, ReachPublishDone, PublishDoneReturns, JobReturns, GraphRaises,
                JobTimesOut, CancelDelivered, ReportReturns, PublishRaises, Report, Running,
                Ainvoke, redisvars
  <2>2. \E to \in {"publishing", "closing", "reporting", "ended"} : pc' = [pc EXCEPT ![j] = to]
    BY <1>2 DEF TaskStep, ReachPublishDone, PublishDoneReturns, JobReturns, GraphRaises,
                JobTimesOut, CancelDelivered, ReportReturns, PublishRaises, Report
  <2>3. CASE pc' = [pc EXCEPT ![j] = "ended"]
    BY <2>1, <2>3, Settles
  <2>4. ASSUME NEW to \in {"publishing", "closing", "reporting"}, pc' = [pc EXCEPT ![j] = to]
        PROVE  Unseen
    BY <2>1, <2>4 DEF Unseen, TypeOK
  <2>5. QED
    BY <2>2, <2>3, <2>4
<1>3. ASSUME NEW j \in Jobs, Apply(j) PROVE \E m \in Messages : Contract!Deliver(j, m)
  <2>1. Message(j) \in Messages
    BY DEF Message, Messages, TypeOK
  <2>2. QED
    BY <1>3, <2>1, Delivers DEF Apply
<1>4. ASSUME NEW j \in Jobs, NEW m \in Messages, ApplyOrphan(j, m) PROVE Contract!Deliver(j, m)
  BY <1>4, Delivers DEF ApplyOrphan, taskvars
<1>5. ASSUME NEW j \in Jobs, \/ Send(j) \/ Resend(j)
                            \/ \E m \in Messages : LoseOrphan(j, m)
      PROVE  Unseen
  BY <1>5 DEF Send, Resend, LoseOrphan, Unseen, taskvars, redisvars
<1>6. ASSUME CloseClients PROVE Contract!Close
  <2>1. \A k \in Jobs : pc[k] \in {"absent", "ended"}
    BY <1>6 DEF CloseClients, Unfinished, TypeOK
  <2>2. phase # "closed" /\ phase' = "closed" /\ UNCHANGED <<pc, stream>>
    BY <1>6 DEF CloseClients, taskvars, redisvars
  <2>3. QED
    BY <2>1, <2>2 DEF Contract!Close
<1>7. ASSUME BeginShutdown \/ GraceExpires \/ Tick \/ UNCHANGED vars PROVE Unseen
  BY <1>7 DEF BeginShutdown, GraceExpires, GraceDue, Tick, Unseen, vars, taskvars, redisvars
<1>8. Contract!Messages = Messages
  BY DEF Contract!Messages, Messages
<1>9. QED
  BY <1>1, <1>2, <1>3, <1>4, <1>5, <1>6, <1>7, <1>8, UnseenStutters
  DEF Next, RedisStep, Contract!CNext

(* What POST /v1/recommend promises the reader of the stream is kept by the *)
(* tasks, the deadline, the shutdown and the Redis client together: no      *)
(* contradiction of the graph, no more copies than the client repeats, no   *)
(* verdict lost where none may be, no client closed under a running job.    *)
THEOREM ImplementsContractHolds == Spec => ImplementsContract
<1>1. Spec => [](TypeOK /\ Accounts)
  BY AccountsInit, AccountsNext, TypeInit, TypeNext, PTL DEF Spec
<1>2. Spec => []Recorded
  BY RecordedInit, RecordedNext, DrainBehindInit, DrainBehindNext, TypeCorrect, PTL DEF Spec
<1>3. QED
  BY <1>1, <1>2, ImplementsInit, ImplementsNext, PTL
  DEF Spec, ImplementsContract, Contract!CSpec
================================================================================
