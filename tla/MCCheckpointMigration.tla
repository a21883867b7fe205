------------------------ MODULE MCCheckpointMigration ------------------------
(* Two releases: the older image has migrations 0 to 2, the newer one 0 to 3. *)
EXTENDS CheckpointMigration, TLC

CONSTANTS run1, run2, run3, old, new

MCRuns == {run1, run2, run3}
MCRuntimes == {old, new}
MCElevated == {}
MCTables == {0, 1}
MCIndexes == {2, 3}
MCLength == run1 :> 3 @@ run2 :> 4 @@ run3 :> 4 @@ old :> 3 @@ new :> 4
=============================================================================
