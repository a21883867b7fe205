------------------------ MODULE CheckpointMigration ------------------------
(***************************************************************************)
(* The Postgres schema of the graph's checkpoints: runs of the migration   *)
(* job (app/checkpoint_migrate.py), starts of the serving process          *)
(* (validate_runtime_schema in app/checkpoint_db.py, called by lifespan),  *)
(* and the operator.                                                       *)
(*                                                                         *)
(* A run works over one autocommit session; the session holds an advisory  *)
(* lock.  Every statement is a step.  The client may die: its session then *)
(* lives on in the server until the statement under way is over, so that   *)
(* an index may still be built, and the lock still be held, by a run that  *)
(* no longer exists.                                                       *)
(*                                                                         *)
(* AsyncPostgresSaver.setup() is a library's: migration 0 creates the      *)
(* history table, every further migration is one statement followed by the *)
(* insertion of its version.                                               *)
(***************************************************************************)
EXTENDS Naturals

CONSTANTS
    Runs,       \* runs of the migration job
    Runtimes,   \* serving processes
    Elevated,   \* the runs and runtimes whose database role is too strong
    Last,       \* number of the last migration of the newest image
    Tables,     \* the migrations that create a table (TABLES)
    Indexes,    \* the migrations that build an index concurrently (INDEXES)
    Length,     \* len(MIGRATIONS) in the image of a run or of a runtime
    None        \* nobody holds the lock

Versions == 0 .. Last
Prefix(n) == {v \in Versions : v < n}

ASSUME LastAssumption == Last \in Nat
ASSUME MigrationAssumption ==
    /\ Tables \subseteq Versions
    /\ Indexes \subseteq Versions
    /\ 0 \in Tables
    /\ Tables \cap Indexes = {}
ASSUME LengthAssumption == Length \in [Runs \cup Runtimes -> 1 .. (Last + 1)]
ASSUME NoneAssumption == None \notin Runs

VARIABLES
    provisioned,  \* the schema exists (docs/database-roles.sql was applied)
    granted,      \* the tables map_agent_runtime may use
    object,       \* what each migration has left in the schema
    history,      \* versions in checkpoint_migrations
    lock,         \* the run whose session holds the advisory lock
    pc,           \* the next statement of a run
    gone,         \* the run's client has died, its session has not
    at,           \* the version setup() is at
    serving,      \* the next statement of a starting runtime, or how it ended
    promised      \* when it started, a run for the same image had completed
                  \* and the grants had been reapplied

vars == <<provisioned, granted, object, history, lock, pc, gone, at, serving, promised>>
runtimeVars == <<serving, promised>>

InTry   == {"guard", "setup", "read", "apply", "build", "record", "check", "indexes"}
Working == InTry \cup {"unlock", "release"}
Ended   == {"failed", "completed"}
Reading == {"history", "tables", "indexes"}

TypeOK ==
    /\ provisioned \in BOOLEAN
    /\ granted \subseteq Tables
    /\ object \in [Versions -> {"absent", "building", "invalid", "done"}]
    /\ history \subseteq Versions
    /\ lock \in Runs \cup {None}
    /\ pc \in [Runs -> {"new", "cut"} \cup Working \cup Ended]
    /\ gone \in [Runs -> BOOLEAN]
    /\ at \in [Runs -> 0 .. (Last + 1)]
    /\ serving \in [Runtimes -> Reading \cup {"down", "refused", "serving"}]
    /\ promised \in [Runtimes -> BOOLEAN]

(***************************************************************************)
(* The database starts empty, with or without its schema, or as an image   *)
(* of an earlier release left it; the grants were last reapplied when some *)
(* or all of its tables were there.                                        *)
(***************************************************************************)
Init ==
    /\ \E n \in 0 .. (Last + 1) :
        /\ history = Prefix(n)
        /\ object = [v \in Versions |-> IF v < n THEN "done" ELSE "absent"]
        /\ provisioned \in IF n = 0 THEN BOOLEAN ELSE {TRUE}
        /\ \E k \in 0 .. n : granted = Tables \cap Prefix(k)
    /\ lock = None
    /\ pc = [m \in Runs |-> "new"]
    /\ gone = [m \in Runs |-> FALSE]
    /\ at = [m \in Runs |-> 0]
    /\ serving = [r \in Runtimes |-> "down"]
    /\ promised = [r \in Runtimes |-> FALSE]

-----------------------------------------------------------------------------
(* The checks both sides share. *)

\* validate_history: complete for an image of n migrations
HistoryComplete(n) == object[0] = "done" /\ history = Prefix(n)

\* validate_history with complete=False: no gap and nothing from the future
HistoryAcceptable(n) == \E k \in 0 .. n : history = Prefix(k)

TablesPresent(n) == \A v \in Tables \cap Prefix(n) : object[v] = "done"
IndexesValid(n)  == \A v \in Indexes \cap Prefix(n) : object[v] = "done"

-----------------------------------------------------------------------------
(* A run of the migration job. *)

\* Where a run goes after a statement; a dead client sends no further one.
After(m, p) == pc' = [pc EXCEPT ![m] = IF gone[m] THEN "cut" ELSE p]

\* The role is elevated, or pg_try_advisory_lock says no: the job gives up.
GiveUp(m) ==
    /\ pc[m] = "new"
    /\ m \in Elevated \/ lock # None
    /\ pc' = [pc EXCEPT ![m] = "failed"]
    /\ UNCHANGED <<provisioned, granted, object, history, lock, gone, at, runtimeVars>>

\* Mutant: the answer of pg_try_advisory_lock is not looked at.
LockUnchecked(m) ==
    /\ pc[m] = "new"
    /\ m \notin Elevated
    /\ lock' = IF lock = None THEN m ELSE lock
    /\ pc' = [pc EXCEPT ![m] = "guard"]
    /\ UNCHANGED <<provisioned, granted, object, history, gone, at, runtimeVars>>

\* pg_try_advisory_lock says yes.
Lock(m) ==
    /\ pc[m] = "new"
    /\ m \notin Elevated
    /\ lock = None
    /\ lock' = m
    /\ pc' = [pc EXCEPT ![m] = "guard"]
    /\ UNCHANGED <<provisioned, granted, object, history, gone, at, runtimeVars>>

\* The schema must exist; a history that exists must be acceptable.
Guard(m) ==
    /\ pc[m] = "guard"
    /\ After(m, IF provisioned /\ (object[0] = "done" => HistoryAcceptable(Length[m]))
                THEN "setup" ELSE "unlock")
    /\ UNCHANGED <<provisioned, granted, object, history, lock, gone, at, runtimeVars>>

\* setup() first creates the history table if it is missing ...
CreateHistory(m) ==
    /\ pc[m] = "setup"
    /\ object' = [object EXCEPT ![0] = "done"]
    /\ After(m, "read")
    /\ UNCHANGED <<provisioned, granted, history, lock, gone, at, runtimeVars>>

\* The version after the newest one recorded.
NextVersion == CHOOSE n \in 0 .. (Last + 1) :
                 /\ \A v \in history : v < n
                 /\ n = 0 \/ n - 1 \in history

\* ... and then reads which version is the newest one.
ReadVersion(m) ==
    /\ pc[m] = "read"
    /\ at' = [at EXCEPT ![m] = NextVersion]
    /\ After(m, IF NextVersion < Length[m] THEN "apply" ELSE "check")
    /\ UNCHANGED <<provisioned, granted, object, history, lock, gone, runtimeVars>>

\* A migration that is one transaction: a table, a column, nothing at all.
Apply(m) ==
    /\ pc[m] = "apply"
    /\ at[m] \notin Indexes
    /\ object' = [object EXCEPT ![at[m]] = "done"]
    /\ After(m, "record")
    /\ UNCHANGED <<provisioned, granted, history, lock, gone, at, runtimeVars>>

\* CREATE INDEX CONCURRENTLY IF NOT EXISTS enters the index before building it ...
StartBuild(m) ==
    /\ pc[m] = "apply"
    /\ at[m] \in Indexes
    /\ object[at[m]] = "absent"
    /\ object' = [object EXCEPT ![at[m]] = "building"]
    /\ pc' = [pc EXCEPT ![m] = "build"]
    /\ UNCHANGED <<provisioned, granted, history, lock, gone, at, runtimeVars>>

\* ... and leaves alone one that is entered, whatever its state.
SkipBuild(m) ==
    /\ pc[m] = "apply"
    /\ at[m] \in Indexes
    /\ object[at[m]] # "absent"
    /\ After(m, "record")
    /\ UNCHANGED <<provisioned, granted, object, history, lock, gone, at, runtimeVars>>

EndBuild(m) ==
    /\ pc[m] = "build"
    /\ object' = [object EXCEPT ![at[m]] = "done"]
    /\ After(m, "record")
    /\ UNCHANGED <<provisioned, granted, history, lock, gone, at, runtimeVars>>

\* The version is inserted; a version that is there violates the primary key.
Record(m) ==
    /\ pc[m] = "record"
    /\ \/ /\ at[m] \notin history
          /\ history' = history \cup {at[m]}
          /\ at' = [at EXCEPT ![m] = @ + 1]
          /\ After(m, IF at[m] + 1 < Length[m] THEN "apply" ELSE "check")
       \/ /\ at[m] \in history
          /\ After(m, "unlock")
          /\ UNCHANGED <<history, at>>
    /\ UNCHANGED <<provisioned, granted, object, lock, gone, runtimeVars>>

CheckHistory(m) ==
    /\ pc[m] = "check"
    /\ After(m, IF HistoryComplete(Length[m]) THEN "indexes" ELSE "unlock")
    /\ UNCHANGED <<provisioned, granted, object, history, lock, gone, at, runtimeVars>>

\* Mutant: migrate() does not validate the indexes.
CheckNoIndexes(m) ==
    /\ pc[m] = "indexes"
    /\ After(m, "release")
    /\ UNCHANGED <<provisioned, granted, object, history, lock, gone, at, runtimeVars>>

CheckIndexes(m) ==
    /\ pc[m] = "indexes"
    /\ After(m, IF IndexesValid(Length[m]) THEN "release" ELSE "unlock")
    /\ UNCHANGED <<provisioned, granted, object, history, lock, gone, at, runtimeVars>>

\* Mutant: no statement_timeout: a build waits for as long as it must.
FailButNotBuild(m) ==
    /\ pc[m] \in InTry \ {"build"}
    /\ After(m, "unlock")
    /\ UNCHANGED <<provisioned, granted, object, history, lock, gone, at, runtimeVars>>

\* A statement fails: lock_timeout, statement_timeout, an error of the database.
\* An index whose build was broken off stays behind, invalid.
Fail(m) ==
    /\ pc[m] \in InTry
    /\ object' = IF pc[m] = "build" THEN [object EXCEPT ![at[m]] = "invalid"] ELSE object
    /\ After(m, "unlock")
    /\ UNCHANGED <<provisioned, granted, history, lock, gone, at, runtimeVars>>

\* finally: pg_advisory_unlock; the job reports what has happened.
Unlock(m) ==
    /\ pc[m] \in {"unlock", "release"}
    /\ ~gone[m]
    /\ lock' = IF lock = m THEN None ELSE lock
    /\ pc' = [pc EXCEPT ![m] = IF pc[m] = "release" THEN "completed" ELSE "failed"]
    /\ UNCHANGED <<provisioned, granted, object, history, gone, at, runtimeVars>>

\* The process or its connection dies; the server has not noticed yet.
Crash(m) ==
    /\ pc[m] \in Working
    /\ ~gone[m]
    /\ gone' = [gone EXCEPT ![m] = TRUE]
    /\ UNCHANGED <<provisioned, granted, object, history, lock, pc, at, runtimeVars>>

\* The server notices once no statement is under way, and frees the lock.
SessionEnd(m) ==
    /\ gone[m]
    /\ pc[m] \in (Working \ {"build"}) \cup {"cut"}
    /\ lock' = IF lock = m THEN None ELSE lock
    /\ pc' = [pc EXCEPT ![m] = "failed"]
    /\ UNCHANGED <<provisioned, granted, object, history, gone, at, runtimeVars>>

Job(m) ==
    \/ GiveUp(m) \/ Lock(m) \/ Guard(m)
    \/ CreateHistory(m) \/ ReadVersion(m) \/ Apply(m)
    \/ StartBuild(m) \/ SkipBuild(m) \/ EndBuild(m) \/ Record(m)
    \/ CheckHistory(m) \/ CheckIndexes(m)
    \/ Fail(m) \/ Unlock(m) \/ Crash(m) \/ SessionEnd(m)

-----------------------------------------------------------------------------
(* A starting runtime: three queries one after the other, any of which can *)
(* fall anywhere between the statements of a run.                          *)

dbVars == <<provisioned, granted, object, history, lock, pc, gone, at>>

\* A run for the image of r has completed.
Migrated(r) == \E m \in Runs : pc[m] = "completed" /\ Length[m] = Length[r]

\* The runtime's role may read the history, which a run creates without a grant.
MayReadHistory == 0 \in granted

Query(r, from, ok, to) ==
    /\ serving[r] = from
    /\ serving' = [serving EXCEPT ![r] = IF ok THEN to ELSE "refused"]
    /\ UNCHANGED <<dbVars, promised>>

Start(r) ==
    /\ serving[r] = "down"
    /\ serving' = [serving EXCEPT ![r] = IF r \in Elevated THEN "refused" ELSE "history"]
    /\ promised' = [promised EXCEPT ![r] =
                      Migrated(r) /\ MayReadHistory /\ r \notin Elevated]
    /\ UNCHANGED dbVars

\* Mutant: the runtime is content with a history without gaps.
ReadPartialHistory(r) ==
    Query(r, "history", MayReadHistory /\ HistoryAcceptable(Length[r]), "tables")

ReadHistory(r) ==
    Query(r, "history", MayReadHistory /\ HistoryComplete(Length[r]), "tables")

ReadTables(r) == Query(r, "tables", TablesPresent(Length[r]), "indexes")

\* Mutant: the runtime does not look at the indexes.
ReadNoIndexes(r) == Query(r, "indexes", TRUE, "serving")

ReadIndexes(r) == Query(r, "indexes", IndexesValid(Length[r]), "serving")

\* The process stops, or the database does not answer and the start is given up.
Stop(r) ==
    /\ serving[r] # "down"
    /\ serving' = [serving EXCEPT ![r] = "down"]
    /\ UNCHANGED <<dbVars, promised>>

Runtime(r) == Start(r) \/ ReadHistory(r) \/ ReadTables(r) \/ ReadIndexes(r) \/ Stop(r)

-----------------------------------------------------------------------------
(* The operator applies docs/database-roles.sql, before the first run and  *)
(* again after every one, and rebuilds an index left invalid.              *)

\* One transaction: the schema, then the grants on the tables that are there.
Provision ==
    /\ provisioned' = TRUE
    /\ granted' = {v \in Tables : object[v] = "done"}
    /\ UNCHANGED <<object, history, lock, pc, gone, at, runtimeVars>>

Reindex(v) ==
    /\ object[v] = "invalid"
    /\ object' = [object EXCEPT ![v] = "done"]
    /\ UNCHANGED <<provisioned, granted, history, lock, pc, gone, at, runtimeVars>>

Next ==
    \/ \E m \in Runs : Job(m)
    \/ \E r \in Runtimes : Runtime(r)
    \/ Provision
    \/ \E v \in Indexes : Reindex(v)

\* What must happen: a live client goes on, the server ends the session of a
\* dead one, and a statement that has no other end runs into its timeout.
\* Nothing says that a build ends by itself: it waits for older transactions.
Going(m) ==
    \/ GiveUp(m) \/ Lock(m) \/ Unlock(m) \/ SessionEnd(m) \/ Fail(m)

Spec == Init /\ [][Next]_vars
FairSpec == Spec /\ \A m \in Runs : WF_vars(Going(m))

-----------------------------------------------------------------------------
(***************************************************************************)
(* A runtime that serves has every table, column and valid index of its    *)
(* image under it, however its three queries fell between the statements   *)
(* of runs, broken-off builds, repairs and grants (validate_runtime_schema *)
(* reads the history and the catalog: grants on the other tables it does   *)
(* not look at).                                                           *)
(***************************************************************************)
ServesOnWholeSchema ==
    \A r \in Runtimes : serving[r] = "serving" =>
        \A v \in Prefix(Length[r]) : object[v] = "done" /\ v \in history

(***************************************************************************)
(* Once the job has completed for an image and the grants were reapplied   *)
(* since the history table is there, a runtime of that image that starts   *)
(* afterwards is refused only because a newer image has migrated on (the   *)
(* cutover of docs/database-roles.md: provision, migrate, grant, start).   *)
(***************************************************************************)
RefusalHasReason ==
    \A r \in Runtimes : serving[r] = "refused" /\ promised[r] =>
        \E v \in history : v >= Length[r]

(***************************************************************************)
(* No run ever tries to record a version that is already recorded: neither *)
(* another run nor the session a dead run left behind is at work (the      *)
(* session lock "stays held ... across every migration").                  *)
(***************************************************************************)
NoRecordingConflict == \A m \in Runs : pc[m] = "record" => at[m] \notin history

(***************************************************************************)
(* Every run that has the lock ends and gives it back, even when an index  *)
(* build waits for ever or the client dies (statement_timeout, the session *)
(* lock, finally).                                                         *)
(***************************************************************************)
RunsEnd == \A m \in Runs : lock = m ~> lock # m /\ pc[m] \in Ended
=============================================================================
