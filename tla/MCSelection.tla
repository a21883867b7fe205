----------------------------- MODULE MCSelection -------------------------------
(* TLC instance of Selection: four places and a candidate without id.       *)
EXTENDS Selection, SequencesExt

Candidates ==
  {[id |-> 1, indoor |-> TRUE], [id |-> 2, indoor |-> TRUE], [id |-> 3, indoor |-> TRUE],
   [id |-> 4, indoor |-> FALSE], [id |-> NoId, indoor |-> FALSE]}

(* Short lists with every repetition, and all candidates in any order.      *)
FoundLists == SeqOf(Candidates, 3) \cup SetToSeqs(Candidates)

ExcludeSets == {{}, {1}, {1, 4}}

(* Up to two places to keep on any days, the same one twice among them, or  *)
(* four, which may fill the plan.                                           *)
PinLists ==
  SeqOf([id : {1, 4}, day : TripDays], 2)
     \cup {[i \in 1 .. 4 |-> [id |-> i, day |-> on[i]]] : on \in [1 .. 4 -> TripDays]}

(* Up to three selections; up to two with indices and days that are wrong.  *)
ModelAnswers ==
  SeqOf([index : 0 .. Limit, day : 0 .. NumDays + 1], 2)
    \cup SeqOf([index : 0 .. Limit - 1, day : TripDays], 3)
================================================================================
