-------------------------------- MODULE MCGraphs -------------------------------
(* TLC instance of the two graphs of the service.  They share no state and  *)
(* do not call each other: a behaviour is either one job of Pipeline or one *)
(* request of Summary.                                                      *)
EXTENDS Pipeline, Summary

CONSTANTS MaxPosted, MaxItems

VARIABLE serve  \* job, summary

ShortPosts == UNION {[1 .. n -> BOOLEAN] : n \in 1 .. MaxPosted}

Item == [id : 0 .. MaxPosted, lines : {1, 2}]

ShortAnswers == UNION {[1 .. n -> Item] : n \in 0 .. MaxItems}

MCInit ==
  /\ serve \in {"job", "summary"}
  /\ Init
  /\ SummaryInit
  /\ serve = "summary" => stage = "init"

MCNext ==
  /\ UNCHANGED serve
  /\ \/ serve = "job" /\ Next /\ UNCHANGED summaryVars
     \/ serve = "summary" /\ SummaryNext /\ UNCHANGED vars

(* Only the deadline of a job is certain to come.                           *)
CutShortServing == serve = "job" /\ CutShort /\ UNCHANGED <<serve, summaryVars>>

MCFairSpec ==
  /\ MCInit
  /\ [][MCNext]_<<serve, vars, summaryVars>>
  /\ WF_<<serve, vars, summaryVars>>(CutShortServing)
================================================================================
