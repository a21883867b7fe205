--------------------- MODULE CheckpointMigration_proofs ---------------------
(***************************************************************************)
(* What runs of the migration job and starting runtimes can rely on, for   *)
(* any number of them, any list of migrations and any images.              *)
(***************************************************************************)
EXTENDS CheckpointMigration, TLAPS

\* Whoever is at work, client alive or dead, is the session with the lock.
Exclusive == \A m \in Runs : pc[m] \in Working => lock = m

\* The history has no gap, and the one session at work records right behind it.
Gapless ==
    /\ \E n \in 0 .. (Last + 1) : history = Prefix(n)
    /\ \A m \in Runs : pc[m] \in {"apply", "build", "record"} =>
           at[m] \in Versions /\ history = Prefix(at[m])

\* An index is being built by the session that says so and by nobody else.
Building ==
    /\ \A m \in Runs : pc[m] = "build" => at[m] \in Indexes /\ object[at[m]] = "building"
    /\ \A v \in Versions : object[v] = "building" =>
           \E m \in Runs : pc[m] = "build" /\ at[m] = v

\* Recorded means applied, except that an index may be there and invalid.
Applied(v) == object[v] = "done" \/ (v \in Indexes /\ object[v] = "invalid")

Recorded ==
    /\ \A v \in history : Applied(v)
    /\ \A m \in Runs : pc[m] = "record" => Applied(at[m])

\* The whole schema of an image with n migrations.
Whole(n) == \A v \in Prefix(n) : object[v] = "done" /\ v \in history

\* What a run has seen when it is past its checks.
Checked ==
    \A m \in Runs :
        /\ pc[m] = "indexes" => Prefix(Length[m]) \subseteq history
        /\ pc[m] \in {"release", "completed"} => Whole(Length[m])

\* What a runtime has seen at each of its queries, and what it was promised.
Queried ==
    \A r \in Runtimes :
        /\ serving[r] \in {"tables", "indexes"} => Prefix(Length[r]) \subseteq history
        /\ serving[r] = "serving" => Whole(Length[r])
        /\ promised[r] => Whole(Length[r]) /\ MayReadHistory
        /\ serving[r] = "refused" /\ promised[r] => \E v \in history : v >= Length[r]

\* Grants are on tables that are there.
Granted == \A v \in granted : object[v] = "done"

Inv == TypeOK /\ Granted /\ Exclusive /\ Gapless /\ Building /\ Recorded /\ Checked /\ Queried

USE LastAssumption, MigrationAssumption, LengthAssumption, NoneAssumption

-----------------------------------------------------------------------------
\* A history without gap determines the next version.
LEMMA NextVersionIs ==
    ASSUME NEW n \in 0 .. (Last + 1), history = Prefix(n)
    PROVE  NextVersion = n
<1> DEFINE Fits(k) == (\A v \in history : v < k) /\ (k = 0 \/ k - 1 \in history)
<1>1. Fits(n)
    BY DEF Prefix, Versions
<1>2. ASSUME NEW k \in 0 .. (Last + 1), Fits(k) PROVE k = n
    BY <1>2 DEF Prefix, Versions
<1>3. QED
    BY <1>1, <1>2 DEF NextVersion

\* One version more keeps the history without gap.
LEMMA PrefixGrows ==
    ASSUME NEW n \in Versions
    PROVE  n + 1 \in 0 .. (Last + 1) /\ Prefix(n) \cup {n} = Prefix(n + 1)
    BY DEF Prefix, Versions

\* The database starts as some earlier image left it.
LEMMA InitInv == Init => Inv
<1> SUFFICES ASSUME Init PROVE Inv
    OBVIOUS
<1> PICK n \in 0 .. (Last + 1) :
        /\ history = Prefix(n)
        /\ object = [v \in Versions |-> IF v < n THEN "done" ELSE "absent"]
        /\ provisioned \in IF n = 0 THEN BOOLEAN ELSE {TRUE}
        /\ \E k \in 0 .. n : granted = Tables \cap Prefix(k)
    BY DEF Init
<1>1. TypeOK
    <2>1. history \subseteq Versions /\ provisioned \in BOOLEAN /\ granted \subseteq Tables
        BY DEF Prefix
    <2>2. object \in [Versions -> {"absent", "building", "invalid", "done"}]
        OBVIOUS
    <2>3. /\ at \in [Runs -> 0 .. (Last + 1)]
          /\ serving \in [Runtimes -> Reading \cup {"down", "refused", "serving"}]
          /\ promised \in [Runtimes -> BOOLEAN]
        BY DEF Init
    <2>4. /\ lock \in Runs \cup {None}
          /\ pc \in [Runs -> {"new", "cut"} \cup Working \cup Ended]
          /\ gone \in [Runs -> BOOLEAN]
        BY DEF Init
    <2>5. QED
        BY <2>1, <2>2, <2>3, <2>4 DEF TypeOK
<1>2. Exclusive /\ Gapless /\ Building
    BY DEF Init, Exclusive, Gapless, Building, Working, InTry, Versions
<1>3. Recorded /\ Checked /\ Queried /\ Granted
    BY DEF Init, Recorded, Applied, Checked, Queried, Granted, Prefix, Versions
<1>4. QED
    BY <1>1, <1>2, <1>3 DEF Inv

-----------------------------------------------------------------------------
\* Every step keeps the types.
LEMMA TypeNext == Inv /\ [Next]_vars => TypeOK'
<1> SUFFICES ASSUME Inv, [Next]_vars PROVE TypeOK'
    OBVIOUS
<1> USE DEF Inv, TypeOK, runtimeVars, After, Working, InTry, Ended, Reading
<1>1. ASSUME NEW m \in Runs, GiveUp(m) \/ Lock(m) \/ Guard(m) PROVE TypeOK'
    BY <1>1 DEF GiveUp, Lock, Guard
<1>2. ASSUME NEW m \in Runs, CreateHistory(m) PROVE TypeOK'
    BY <1>2 DEF CreateHistory
<1>3. ASSUME NEW m \in Runs, ReadVersion(m) PROVE TypeOK'
    <2> PICK n \in 0 .. (Last + 1) : history = Prefix(n)
        BY DEF Gapless
    <2>1. NextVersion \in 0 .. (Last + 1)
        BY NextVersionIs
    <2>2. QED
        BY <1>3, <2>1 DEF ReadVersion
<1>4. ASSUME NEW m \in Runs, Apply(m) \/ StartBuild(m) \/ SkipBuild(m) \/ EndBuild(m)
      PROVE TypeOK'
    BY <1>4 DEF Apply, StartBuild, SkipBuild, EndBuild
<1>5. ASSUME NEW m \in Runs, Record(m) PROVE TypeOK'
    <2>1. at[m] \in Versions
        BY <1>5 DEF Record, Gapless
    <2>2. at[m] + 1 \in 0 .. (Last + 1)
        BY ONLY <2>1, PrefixGrows
    <2>3. QED
        BY <1>5, <2>1, <2>2 DEF Record
<1>6. ASSUME NEW m \in Runs, CheckHistory(m) \/ CheckIndexes(m) PROVE TypeOK'
    BY <1>6 DEF CheckHistory, CheckIndexes
<1>7. ASSUME NEW m \in Runs, Fail(m) PROVE TypeOK'
    BY <1>7 DEF Fail
<1>8. ASSUME NEW m \in Runs, Unlock(m) \/ Crash(m) \/ SessionEnd(m) PROVE TypeOK'
    BY <1>8 DEF Unlock, Crash, SessionEnd
<1>9. ASSUME NEW r \in Runtimes, Runtime(r) PROVE TypeOK'
    BY <1>9 DEF Runtime, Start, ReadHistory, ReadTables, ReadIndexes, Query, Stop, dbVars
<1>10. ASSUME Provision PROVE TypeOK'
    BY <1>10 DEF Provision
<1>11. ASSUME NEW v \in Indexes, Reindex(v) PROVE TypeOK'
    BY <1>11 DEF Reindex
<1>12. ASSUME UNCHANGED vars PROVE TypeOK'
    BY <1>12 DEF vars
<1>13. QED
    BY <1>1, <1>2, <1>3, <1>4, <1>5, <1>6, <1>7, <1>8, <1>9, <1>10, <1>11, <1>12
    DEF Next, Job

\* Nothing recorded is forgotten, no grant is lost and nothing that works is
\* broken.
Grows ==
    /\ history \subseteq history'
    /\ granted \subseteq granted'
    /\ \A v \in Versions : object[v] = "done" => object'[v] = "done"

\* A statement that fails breaks off at most its own index.
LEMMA StepGrows == Inv /\ [Next]_vars => Grows
<1> SUFFICES ASSUME Inv, [Next]_vars PROVE Grows
    OBVIOUS
<1> USE DEF Inv, TypeOK, Grows, runtimeVars
<1>1. ASSUME NEW m \in Runs, GiveUp(m) \/ Lock(m) \/ Guard(m) \/ CreateHistory(m)
                             \/ ReadVersion(m)
      PROVE Grows
    BY <1>1 DEF GiveUp, Lock, Guard, CreateHistory, ReadVersion
<1>2. ASSUME NEW m \in Runs, Apply(m) \/ StartBuild(m) \/ SkipBuild(m) \/ EndBuild(m)
      PROVE Grows
    BY <1>2 DEF Apply, StartBuild, SkipBuild, EndBuild
<1>3. ASSUME NEW m \in Runs, Record(m) \/ CheckHistory(m) \/ CheckIndexes(m)
      PROVE Grows
    BY <1>3 DEF Record, CheckHistory, CheckIndexes
<1>4. ASSUME NEW m \in Runs, Fail(m) PROVE Grows
    BY <1>4 DEF Fail, Building
<1>5. ASSUME NEW m \in Runs, Unlock(m) \/ Crash(m) \/ SessionEnd(m) PROVE Grows
    BY <1>5 DEF Unlock, Crash, SessionEnd
<1>6. ASSUME NEW r \in Runtimes, Runtime(r) PROVE Grows
    BY <1>6 DEF Runtime, Start, ReadHistory, ReadTables, ReadIndexes, Query, Stop, dbVars
<1>7. ASSUME Provision PROVE Grows
    BY <1>7 DEF Provision, Granted
<1>8. ASSUME NEW v \in Indexes, Reindex(v) PROVE Grows
    BY <1>8 DEF Reindex
<1>9. ASSUME UNCHANGED vars PROVE Grows
    BY <1>9 DEF vars
<1>10. QED
    BY <1>1, <1>2, <1>3, <1>4, <1>5, <1>6, <1>7, <1>8, <1>9 DEF Next, Job

\* What is whole stays whole.
LEMMA WholeStays ==
    ASSUME Inv, Grows, NEW n, Whole(n)
    PROVE  Whole(n)'
    BY DEF Grows, Whole, Prefix

\* Only the operator grants, and only on tables that are there.
LEMMA GrantedNext == Inv /\ [Next]_vars => Granted'
<1> SUFFICES ASSUME Inv, [Next]_vars PROVE Granted'
    OBVIOUS
<1>1. Grows
    BY StepGrows
<1>2. CASE Provision
    BY <1>2 DEF Provision, Granted
<1>3. CASE UNCHANGED granted
    BY <1>1, <1>3 DEF Inv, TypeOK, Granted, Grows
<1>4. ASSUME NEW m \in Runs, Job(m) PROVE UNCHANGED granted
    BY <1>4 DEF Job, GiveUp, Lock, Guard, CreateHistory, ReadVersion, Apply, StartBuild,
                SkipBuild, EndBuild, Record, CheckHistory, CheckIndexes, Fail, Unlock, Crash,
                SessionEnd
<1>5. ASSUME NEW r \in Runtimes, Runtime(r) PROVE UNCHANGED granted
    BY <1>5 DEF Runtime, Start, ReadHistory, ReadTables, ReadIndexes, Query, Stop, dbVars
<1>6. ASSUME UNCHANGED vars \/ \E v \in Indexes : Reindex(v) PROVE UNCHANGED granted
    BY <1>6 DEF Reindex, vars
<1>7. QED
    BY <1>2, <1>3, <1>4, <1>5, <1>6 DEF Next
-----------------------------------------------------------------------------
\* The lock changes hands only when its holder is not at work any more.
LEMMA ExclusiveNext == Inv /\ [Next]_vars => Exclusive'
<1> SUFFICES ASSUME Inv, [Next]_vars PROVE Exclusive'
    OBVIOUS
<1> USE DEF Inv, TypeOK, Exclusive, runtimeVars, After, Working, InTry
<1>1. ASSUME NEW m \in Runs, GiveUp(m) \/ Lock(m) \/ Guard(m) PROVE Exclusive'
    BY <1>1 DEF GiveUp, Lock, Guard
<1>2. ASSUME NEW m \in Runs, CreateHistory(m) \/ ReadVersion(m) \/ Apply(m) PROVE Exclusive'
    BY <1>2 DEF CreateHistory, ReadVersion, Apply
<1>3. ASSUME NEW m \in Runs, StartBuild(m) \/ SkipBuild(m) \/ EndBuild(m) PROVE Exclusive'
    BY <1>3 DEF StartBuild, SkipBuild, EndBuild
<1>4. ASSUME NEW m \in Runs, Record(m) PROVE Exclusive'
    BY <1>4 DEF Record
<1>5. ASSUME NEW m \in Runs, CheckHistory(m) \/ CheckIndexes(m) \/ Fail(m) PROVE Exclusive'
    BY <1>5 DEF CheckHistory, CheckIndexes, Fail
<1>6. ASSUME NEW m \in Runs, Unlock(m) \/ Crash(m) \/ SessionEnd(m) PROVE Exclusive'
    BY <1>6 DEF Unlock, Crash, SessionEnd
<1>7. ASSUME NEW r \in Runtimes, Runtime(r) PROVE Exclusive'
    BY <1>7 DEF Runtime, Start, ReadHistory, ReadTables, ReadIndexes, Query, Stop, dbVars
<1>8. ASSUME Provision PROVE Exclusive'
    BY <1>8 DEF Provision
<1>9. ASSUME NEW v \in Indexes, Reindex(v) PROVE Exclusive'
    BY <1>9 DEF Reindex
<1>10. ASSUME UNCHANGED vars PROVE Exclusive'
    BY <1>10 DEF vars
<1>11. QED
    BY <1>1, <1>2, <1>3, <1>4, <1>5, <1>6, <1>7, <1>8, <1>9, <1>10 DEF Next, Job

\* The session with the lock records the version right behind the newest one.
LEMMA GaplessNext == Inv /\ [Next]_vars => Gapless'
<1> SUFFICES ASSUME Inv, [Next]_vars PROVE Gapless'
    OBVIOUS
<1> USE DEF Inv, TypeOK, Gapless, runtimeVars, After
<1>1. ASSUME NEW m \in Runs, GiveUp(m) \/ Lock(m) \/ Guard(m) PROVE Gapless'
    BY <1>1 DEF GiveUp, Lock, Guard, Prefix
<1>2. ASSUME NEW m \in Runs, CreateHistory(m) \/ Apply(m) PROVE Gapless'
    BY <1>2 DEF CreateHistory, Apply, Prefix
<1>3. ASSUME NEW m \in Runs, ReadVersion(m) PROVE Gapless'
    <2> PICK n \in 0 .. (Last + 1) : history = Prefix(n)
        OBVIOUS
    <2>1. NextVersion = n
        BY NextVersionIs
    <2>2. n < Length[m] => n \in Versions
        BY DEF Versions
    <2>3. at'[m] = n /\ (pc'[m] = "apply" => n \in Versions)
        BY <1>3, <2>1, <2>2 DEF ReadVersion
    <2>4. \A k \in Runs \ {m} : at'[k] = at[k] /\ pc'[k] = pc[k]
        BY <1>3 DEF ReadVersion
    <2>5. pc'[m] \notin {"build", "record"} /\ history' = history
        BY <1>3 DEF ReadVersion
    <2>6. QED
        BY <2>3, <2>4, <2>5 DEF Prefix
<1>4. ASSUME NEW m \in Runs, StartBuild(m) \/ SkipBuild(m) \/ EndBuild(m) PROVE Gapless'
    BY <1>4 DEF StartBuild, SkipBuild, EndBuild, Prefix
<1>5. ASSUME NEW m \in Runs, Record(m) PROVE Gapless'
    <2>1. at[m] \in Versions /\ history = Prefix(at[m])
        BY <1>5 DEF Record
    <2>2. at[m] \notin history
        BY <2>1 DEF Prefix, Versions
    <2>3. at[m] + 1 \in 0 .. (Last + 1) /\ history' = Prefix(at[m] + 1)
        BY <1>5, <2>1, <2>2, PrefixGrows DEF Record
    <2>4. at[m] + 1 < Length[m] => at[m] + 1 \in Versions
        BY <2>3 DEF Versions
    <2>5. at'[m] = at[m] + 1 /\ (pc'[m] = "apply" => at[m] + 1 \in Versions)
        BY <1>5, <2>2, <2>4 DEF Record
    <2>6. pc'[m] \notin {"build", "record"}
        BY <1>5 DEF Record
    <2>7. \A k \in Runs \ {m} : pc'[k] \notin {"apply", "build", "record"}
        BY <1>5 DEF Record, Exclusive, Working, InTry
    <2>8. QED
        BY <2>3, <2>5, <2>6, <2>7 DEF Prefix
<1>6. ASSUME NEW m \in Runs, CheckHistory(m) \/ CheckIndexes(m) \/ Fail(m) PROVE Gapless'
    BY <1>6 DEF CheckHistory, CheckIndexes, Fail, Prefix
<1>7. ASSUME NEW m \in Runs, Unlock(m) \/ Crash(m) \/ SessionEnd(m) PROVE Gapless'
    BY <1>7 DEF Unlock, Crash, SessionEnd, Prefix
<1>8. ASSUME NEW r \in Runtimes, Runtime(r) PROVE Gapless'
    BY <1>8 DEF Runtime, Start, ReadHistory, ReadTables, ReadIndexes, Query, Stop, dbVars,
                Prefix
<1>9. ASSUME Provision PROVE Gapless'
    BY <1>9 DEF Provision, Prefix
<1>10. ASSUME NEW v \in Indexes, Reindex(v) PROVE Gapless'
    BY <1>10 DEF Reindex, Prefix
<1>11. ASSUME UNCHANGED vars PROVE Gapless'
    BY <1>11 DEF vars, Prefix
<1>12. QED
    BY <1>1, <1>2, <1>3, <1>4, <1>5, <1>6, <1>7, <1>8, <1>9, <1>10, <1>11 DEF Next, Job

\* An index is built by the one session at work.
LEMMA BuildingNext == Inv /\ [Next]_vars => Building'
<1> SUFFICES ASSUME Inv, [Next]_vars PROVE Building'
    OBVIOUS
<1> USE DEF Inv, TypeOK, Building, runtimeVars, After
<1>1. ASSUME NEW m \in Runs, GiveUp(m) \/ Lock(m) \/ Guard(m) PROVE Building'
    BY <1>1 DEF GiveUp, Lock, Guard
<1>2. ASSUME NEW m \in Runs, CreateHistory(m) PROVE Building'
    BY <1>2 DEF CreateHistory
<1>3. ASSUME NEW m \in Runs, ReadVersion(m) PROVE Building'
    BY <1>3 DEF ReadVersion
<1>4. ASSUME NEW m \in Runs, Apply(m) PROVE Building'
    BY <1>4 DEF Apply
<1>5. ASSUME NEW m \in Runs, StartBuild(m) PROVE Building'
    BY <1>5 DEF StartBuild
<1>6. ASSUME NEW m \in Runs, SkipBuild(m) PROVE Building'
    BY <1>6 DEF SkipBuild
<1>7. ASSUME NEW m \in Runs, EndBuild(m) PROVE Building'
    BY <1>7 DEF EndBuild, Exclusive, Working, InTry
<1>8. ASSUME NEW m \in Runs, Record(m) PROVE Building'
    BY <1>8 DEF Record
<1>9. ASSUME NEW m \in Runs, CheckHistory(m) \/ CheckIndexes(m) PROVE Building'
    BY <1>9 DEF CheckHistory, CheckIndexes
<1>10. ASSUME NEW m \in Runs, Fail(m) PROVE Building'
    BY <1>10 DEF Fail, Exclusive, Working, InTry
<1>11. ASSUME NEW m \in Runs, Unlock(m) \/ Crash(m) \/ SessionEnd(m) PROVE Building'
    BY <1>11 DEF Unlock, Crash, SessionEnd, Working, InTry
<1>12. ASSUME NEW r \in Runtimes, Runtime(r) PROVE Building'
    BY <1>12 DEF Runtime, Start, ReadHistory, ReadTables, ReadIndexes, Query, Stop, dbVars
<1>13. ASSUME Provision PROVE Building'
    BY <1>13 DEF Provision
<1>14. ASSUME NEW v \in Indexes, Reindex(v) PROVE Building'
    BY <1>14 DEF Reindex
<1>15. ASSUME UNCHANGED vars PROVE Building'
    BY <1>15 DEF vars
<1>16. QED
    BY <1>1, <1>2, <1>3, <1>4, <1>5, <1>6, <1>7, <1>8, <1>9, <1>10, <1>11, <1>12, <1>13,
       <1>14, <1>15 DEF Next, Job
-----------------------------------------------------------------------------
\* What is recorded has been applied.
LEMMA RecordedNext == Inv /\ [Next]_vars => Recorded'
<1> SUFFICES ASSUME Inv, [Next]_vars PROVE Recorded'
    OBVIOUS
<1> USE DEF Inv, TypeOK, Recorded, Applied, runtimeVars, After
<1>1. ASSUME NEW m \in Runs, GiveUp(m) \/ Lock(m) \/ Guard(m) PROVE Recorded'
    BY <1>1 DEF GiveUp, Lock, Guard
<1>2. ASSUME NEW m \in Runs, CreateHistory(m) \/ ReadVersion(m) PROVE Recorded'
    BY <1>2 DEF CreateHistory, ReadVersion, Gapless
<1>3. ASSUME NEW m \in Runs, Apply(m) PROVE Recorded'
    BY <1>3 DEF Apply, Gapless
<1>4. ASSUME NEW m \in Runs, StartBuild(m) PROVE Recorded'
    <2>1. at[m] \in Versions \ history
        BY <1>4 DEF StartBuild, Gapless, Prefix, Versions
    <2>2. \A k \in Runs : pc'[k] # "record"
        BY <1>4 DEF StartBuild, Exclusive, Working, InTry
    <2>3. QED
        BY <1>4, <2>1, <2>2 DEF StartBuild
<1>5. ASSUME NEW m \in Runs, SkipBuild(m) PROVE Recorded'
    <2>1. object[at[m]] \in {"building", "invalid", "done"}
        BY <1>5 DEF SkipBuild, Gapless
    <2>2. object[at[m]] # "building"
        BY <1>5 DEF SkipBuild, Gapless, Building, Exclusive, Working, InTry
    <2>3. QED
        BY <1>5, <2>1, <2>2 DEF SkipBuild
<1>6. ASSUME NEW m \in Runs, EndBuild(m) PROVE Recorded'
    BY <1>6 DEF EndBuild, Gapless
<1>7. ASSUME NEW m \in Runs, Record(m) PROVE Recorded'
    BY <1>7 DEF Record, Exclusive, Working, InTry
<1>8. ASSUME NEW m \in Runs, CheckHistory(m) \/ CheckIndexes(m) PROVE Recorded'
    BY <1>8 DEF CheckHistory, CheckIndexes
<1>9. ASSUME NEW m \in Runs, Fail(m) PROVE Recorded'
    BY <1>9 DEF Fail, Building, Exclusive, Working, InTry
<1>10. ASSUME NEW m \in Runs, Unlock(m) \/ Crash(m) \/ SessionEnd(m) PROVE Recorded'
    BY <1>10 DEF Unlock, Crash, SessionEnd
<1>11. ASSUME NEW r \in Runtimes, Runtime(r) PROVE Recorded'
    BY <1>11 DEF Runtime, Start, ReadHistory, ReadTables, ReadIndexes, Query, Stop, dbVars
<1>12. ASSUME Provision PROVE Recorded'
    BY <1>12 DEF Provision
<1>13. ASSUME NEW v \in Indexes, Reindex(v) PROVE Recorded'
    BY <1>13 DEF Reindex
<1>14. ASSUME UNCHANGED vars PROVE Recorded'
    BY <1>14 DEF vars
<1>15. QED
    BY <1>1, <1>2, <1>3, <1>4, <1>5, <1>6, <1>7, <1>8, <1>9, <1>10, <1>11, <1>12, <1>13,
       <1>14 DEF Next, Job

\* A complete history with the objects of one kind checked is a whole schema.
LEMMA CheckedIsWhole ==
    ASSUME Inv, NEW n \in 1 .. (Last + 1), Prefix(n) \subseteq history, IndexesValid(n)
    PROVE  Whole(n)
    BY DEF Inv, Recorded, Applied, IndexesValid, Whole, Prefix

\* What a run has checked stays as it was.
LEMMA CheckedNext == Inv /\ [Next]_vars => Checked'
<1> SUFFICES ASSUME Inv, [Next]_vars PROVE Checked'
    OBVIOUS
<1>1. Grows
    BY StepGrows
<1>2. \A n : Whole(n) => Whole(n)'
    BY <1>1, WholeStays
<1>3. ASSUME NEW k \in Runs
      PROVE  /\ pc'[k] = "indexes" => Prefix(Length[k]) \subseteq history'
             /\ pc'[k] \in {"release", "completed"} => Whole(Length[k])'
    <2> USE DEF Inv, TypeOK, Checked, runtimeVars, After
    <2> DEFINE Kept == \/ pc'[k] = pc[k]
                       \/ pc'[k] \notin {"indexes", "release", "completed"}
    <2>1. CASE Kept
        BY <2>1, <1>1, <1>2 DEF Grows
    <2>2. ASSUME NEW m \in Runs, GiveUp(m) \/ Lock(m) \/ Guard(m) PROVE Kept
        BY <2>2 DEF GiveUp, Lock, Guard
    <2>3. ASSUME NEW m \in Runs, CreateHistory(m) \/ ReadVersion(m) \/ Apply(m) PROVE Kept
        BY <2>3 DEF CreateHistory, ReadVersion, Apply
    <2>4. ASSUME NEW m \in Runs, StartBuild(m) \/ SkipBuild(m) \/ EndBuild(m) PROVE Kept
        BY <2>4 DEF StartBuild, SkipBuild, EndBuild
    <2>5. ASSUME NEW m \in Runs, Record(m) PROVE Kept
        BY <2>5 DEF Record
    <2>6. ASSUME NEW m \in Runs, Fail(m) \/ Crash(m) \/ SessionEnd(m) PROVE Kept
        BY <2>6 DEF Fail, Crash, SessionEnd
    <2>7. ASSUME NEW m \in Runs, CheckHistory(m), ~Kept
          PROVE  Prefix(Length[k]) \subseteq history' /\ pc'[k] = "indexes"
        BY <2>7 DEF CheckHistory, HistoryComplete
    <2>8. ASSUME NEW m \in Runs, CheckIndexes(m), ~Kept PROVE Whole(Length[k])
        <3>1. k = m /\ pc[m] = "indexes" /\ IndexesValid(Length[m])
            BY <2>8 DEF CheckIndexes
        <3>2. QED
            BY <3>1, CheckedIsWhole
    <2>9. ASSUME NEW m \in Runs, CheckIndexes(m), ~Kept PROVE pc'[k] # "indexes"
        BY <2>9 DEF CheckIndexes
    <2>10. ASSUME NEW m \in Runs, Unlock(m), ~Kept
           PROVE  Whole(Length[k]) /\ pc'[k] = "completed"
        BY <2>10 DEF Unlock
    <2>11. ASSUME NEW r \in Runtimes, Runtime(r) PROVE Kept
        BY <2>11 DEF Runtime, Start, ReadHistory, ReadTables, ReadIndexes, Query, Stop, dbVars
    <2>12. ASSUME Provision \/ UNCHANGED vars PROVE Kept
        BY <2>12 DEF Provision, vars
    <2>13. ASSUME NEW v \in Indexes, Reindex(v) PROVE Kept
        BY <2>13 DEF Reindex
    <2>14. QED
        BY <1>2, <2>1, <2>2, <2>3, <2>4, <2>5, <2>6, <2>7, <2>8, <2>9, <2>10, <2>11, <2>12,
           <2>13 DEF Next, Job
<1>4. QED
    BY <1>3 DEF Checked
\* What a runtime has seen stays so; a promised one is refused by a newer image.
LEMMA QueriedNext == Inv /\ [Next]_vars => Queried'
<1> SUFFICES ASSUME Inv, [Next]_vars, NEW r \in Runtimes
    PROVE  (/\ serving[r] \in {"tables", "indexes"} => Prefix(Length[r]) \subseteq history
            /\ serving[r] = "serving" => Whole(Length[r])
            /\ promised[r] => Whole(Length[r]) /\ MayReadHistory
            /\ serving[r] = "refused" /\ promised[r] => \E v \in history : v >= Length[r])'
    BY DEF Queried
<1>1. Grows
    BY StepGrows
<1>2. /\ Whole(Length[r]) => Whole(Length[r])'
      /\ MayReadHistory => MayReadHistory'
    BY <1>1, WholeStays DEF Grows, MayReadHistory
<1>3. CASE serving'[r] = serving[r] /\ promised'[r] = promised[r]
    BY <1>1, <1>2, <1>3 DEF Inv, Queried, Grows
<1> USE DEF Inv, TypeOK, Queried
<1>4. CASE Start(r)
    <2>1. Migrated(r) => Whole(Length[r])
        BY DEF Migrated, Checked
    <2>2. serving'[r] \in {"refused", "history"}
        BY <1>4 DEF Start
    <2>3. promised'[r] = (Migrated(r) /\ MayReadHistory /\ r \notin Elevated)
        BY <1>4 DEF Start
    <2>4. serving'[r] = "refused" => ~promised'[r]
        BY <1>4, <2>3 DEF Start
    <2>5. QED
        BY <1>2, <2>1, <2>2, <2>3, <2>4
<1>5. CASE ReadHistory(r)
    <2>1. promised'[r] = promised[r] /\ history' = history
        BY <1>5 DEF ReadHistory, Query, dbVars
    <2>2. CASE MayReadHistory /\ HistoryComplete(Length[r])
        <3>1. serving'[r] = "tables"
            BY <1>5, <2>2 DEF ReadHistory, Query
        <3>2. QED
            BY <1>2, <2>1, <2>2, <3>1 DEF HistoryComplete
    <2>3. CASE ~(MayReadHistory /\ HistoryComplete(Length[r]))
        <3>1. serving'[r] = "refused"
            BY <1>5, <2>3 DEF ReadHistory, Query
        <3>2. ASSUME promised[r] PROVE \E v \in history : v >= Length[r]
            <4>1. Prefix(Length[r]) \subseteq history
                BY <3>2 DEF Whole
            <4>2. 0 \in Prefix(Length[r])
                BY DEF Prefix, Versions
            <4>3. object[0] = "done"
                BY <3>2, <4>2 DEF Whole
            <4>4. history # Prefix(Length[r])
                BY <2>3, <3>2, <4>3 DEF HistoryComplete
            <4>5. PICK v \in history : v \notin Prefix(Length[r])
                BY <4>1, <4>4
            <4>6. v \in Versions /\ Length[r] \in 1 .. (Last + 1)
                OBVIOUS
            <4>7. v >= Length[r]
                BY <4>5, <4>6 DEF Prefix, Versions
            <4>8. QED
                BY <4>7
        <3>3. QED
            BY <1>2, <2>1, <3>1, <3>2
    <2>4. QED
        BY <2>2, <2>3
<1>6. CASE ReadTables(r)
    <2>1. promised'[r] = promised[r] /\ history' = history /\ serving[r] = "tables"
        BY <1>6 DEF ReadTables, Query, dbVars
    <2>2. promised[r] => TablesPresent(Length[r])
        BY DEF Whole, TablesPresent
    <2>3. serving'[r] = "indexes" \/ (serving'[r] = "refused" /\ ~promised[r])
        BY <1>6, <2>2 DEF ReadTables, Query
    <2>4. QED
        BY <1>2, <2>1, <2>3
<1>7. CASE ReadIndexes(r)
    <2>1. promised'[r] = promised[r] /\ history' = history /\ serving[r] = "indexes"
        BY <1>7 DEF ReadIndexes, Query, dbVars
    <2>2. promised[r] => IndexesValid(Length[r])
        BY DEF Whole, IndexesValid
    <2>3. IndexesValid(Length[r]) => Whole(Length[r])
        BY <2>1, CheckedIsWhole
    <2>4. \/ serving'[r] = "serving" /\ IndexesValid(Length[r])
          \/ serving'[r] = "refused" /\ ~promised[r]
        BY <1>7, <2>2 DEF ReadIndexes, Query
    <2>5. QED
        BY <1>2, <2>1, <2>3, <2>4
<1>8. CASE Stop(r)
    <2>1. promised'[r] = promised[r] /\ serving'[r] = "down"
        BY <1>8 DEF Stop
    <2>2. QED
        BY <1>2, <2>1
<1>9. ASSUME NEW q \in Runtimes \ {r}, Runtime(q)
      PROVE  serving'[r] = serving[r] /\ promised'[r] = promised[r]
    BY <1>9 DEF Runtime, Start, ReadHistory, ReadTables, ReadIndexes, Query, Stop
<1>10. ASSUME NEW m \in Runs, Job(m) PROVE UNCHANGED runtimeVars
    BY <1>10 DEF Job, GiveUp, Lock, Guard, CreateHistory, ReadVersion, Apply, StartBuild,
                 SkipBuild, EndBuild, Record, CheckHistory, CheckIndexes, Fail, Unlock, Crash,
                 SessionEnd, runtimeVars
<1>11. ASSUME \/ Provision \/ UNCHANGED vars \/ \E v \in Indexes : Reindex(v)
       PROVE  UNCHANGED runtimeVars
    BY <1>11 DEF Provision, Reindex, vars, runtimeVars
<1>12. QED
    BY <1>3, <1>4, <1>5, <1>6, <1>7, <1>8, <1>9, <1>10, <1>11 DEF Next, Runtime, runtimeVars

-----------------------------------------------------------------------------
\* The invariant holds of every execution.
THEOREM Invariance == Spec => []Inv
<1>1. Inv /\ [Next]_vars => Inv'
    BY TypeNext, GrantedNext, ExclusiveNext, GaplessNext, BuildingNext, RecordedNext, CheckedNext,
       QueriedNext DEF Inv
<1>2. QED
    BY <1>1, InitInv, PTL DEF Spec

\* Every variable keeps to its range, for any number of runs and runtimes
\* (app/checkpoint_migrate.py, app/checkpoint_db.py).
THEOREM TypeCorrect == Spec => []TypeOK
<1>1. Inv => TypeOK
    BY DEF Inv
<1>2. QED
    BY <1>1, Invariance, PTL

\* A runtime that has passed validate_runtime_schema has its whole schema under
\* it, however its queries fell between the statements of the runs.
THEOREM ServesOnWholeSchemaHolds == Spec => []ServesOnWholeSchema
<1>1. Inv => ServesOnWholeSchema
    BY DEF Inv, Queried, Whole, ServesOnWholeSchema
<1>2. QED
    BY <1>1, Invariance, PTL

\* After a completed run for its image, and with the grants reapplied since the
\* history table is there, validate_runtime_schema refuses a runtime only because
\* a newer image has migrated on.
THEOREM RefusalHasReasonHolds == Spec => []RefusalHasReason
<1>1. Inv => RefusalHasReason
    BY DEF Inv, Queried, RefusalHasReason
<1>2. QED
    BY <1>1, Invariance, PTL

\* setup() never inserts a version that is there: the session lock keeps every
\* other session away, also while a dead client's statement is still running.
THEOREM NoRecordingConflictHolds == Spec => []NoRecordingConflict
<1>1. Inv => NoRecordingConflict
    BY DEF Inv, Gapless, NoRecordingConflict, Prefix, Versions
<1>2. QED
    BY <1>1, Invariance, PTL
-----------------------------------------------------------------------------
\* How many statements, deaths included, a run has left: three for every
\* migration ahead of it and those around them.
Left(m) ==
    LET ahead == 3 * (Last + 1 - at[m])
        all   == 3 * (Last + 1)
    IN (CASE pc[m] = "new" -> all + 10      [] pc[m] = "guard" -> all + 9
          [] pc[m] = "setup" -> all + 8     [] pc[m] = "read" -> all + 7
          [] pc[m] = "apply" -> ahead + 6   [] pc[m] = "build" -> ahead + 5
          [] pc[m] = "record" -> ahead + 4  [] pc[m] = "check" -> 5
          [] pc[m] = "indexes" -> 4         [] pc[m] \in {"unlock", "release"} -> 3
          [] pc[m] = "cut" -> 2             [] OTHER -> 0)
       + (IF gone[m] THEN 0 ELSE 1)

Bound == 3 * (Last + 1) + 11

\* A run that is done has nothing left, and one that starts has the bound.
LEMMA LeftBounds == ASSUME Inv, NEW m \in Runs PROVE Left(m) \in 0 .. Bound
<1>1. pc[m] \in {"new", "cut"} \cup Working \cup Ended /\ gone[m] \in BOOLEAN
      /\ at[m] \in 0 .. (Last + 1)
    BY DEF Inv, TypeOK
<1>2. QED
    BY <1>1 DEF Left, Bound, Working, InTry, Ended

\* The same of the next state.
LEMMA LeftBoundsNext == ASSUME Inv', NEW m \in Runs PROVE Left(m)' \in 0 .. Bound
<1>1. pc'[m] \in {"new", "cut"} \cup Working \cup Ended /\ gone'[m] \in BOOLEAN
      /\ at'[m] \in 0 .. (Last + 1)
    BY DEF Inv, TypeOK
<1>2. QED
    BY <1>1 DEF Left, Bound, Working, InTry, Ended

\* The step of one run changes nothing of another.
LEMMA OthersKeep ==
    ASSUME Inv, NEW m \in Runs, NEW q \in Runs \ {m}, Job(q)
    PROVE  pc'[m] = pc[m] /\ gone'[m] = gone[m] /\ at'[m] = at[m]
<1>1. /\ pc \in [Runs -> {"new", "cut"} \cup Working \cup Ended]
      /\ gone \in [Runs -> BOOLEAN] /\ at \in [Runs -> 0 .. (Last + 1)]
    BY DEF Inv, TypeOK
<1>2. QED
    BY <1>1 DEF Job, GiveUp, Lock, Guard, CreateHistory, ReadVersion, Apply, StartBuild,
                SkipBuild, EndBuild, Record, CheckHistory, CheckIndexes, Fail, Unlock, Crash,
                SessionEnd, After

\* Every step of a run uses one up.
LEMMA JobSpends == ASSUME Inv, NEW m \in Runs, Job(m) PROVE Left(m)' < Left(m)
<1>1. /\ pc \in [Runs -> {"new", "cut"} \cup Working \cup Ended]
      /\ gone \in [Runs -> BOOLEAN] /\ at \in [Runs -> 0 .. (Last + 1)]
    BY DEF Inv, TypeOK
<1>2. /\ pc[m] \in {"new", "cut"} \cup Working \cup Ended
      /\ gone[m] \in BOOLEAN /\ at[m] \in 0 .. (Last + 1)
    BY <1>1
<1>3. pc[m] \in {"apply", "build", "record"} => at[m] \in 0 .. Last
    BY DEF Inv, Gapless, Versions
<1>4. CASE GiveUp(m) \/ Lock(m) \/ Guard(m) \/ CreateHistory(m)
    BY <1>1, <1>2, <1>4 DEF GiveUp, Lock, Guard, CreateHistory, After, Left
<1>5. CASE ReadVersion(m)
    <2>1. PICK n \in 0 .. (Last + 1) : history = Prefix(n)
        BY DEF Inv, Gapless
    <2>2. NextVersion = n
        BY <2>1, NextVersionIs
    <2>3. /\ pc[m] = "read" /\ at'[m] = n /\ gone' = gone
          /\ pc'[m] \in {"apply", "check", "cut"}
        BY <1>1, <1>5, <2>2 DEF ReadVersion, After
    <2>4. QED
        BY <1>2, <2>3 DEF Left
<1>6. CASE Apply(m) \/ StartBuild(m) \/ SkipBuild(m)
    <2>1. /\ pc[m] = "apply" /\ at' = at /\ gone' = gone
          /\ pc'[m] \in {"build", "record", "cut"}
        BY <1>1, <1>6 DEF Apply, StartBuild, SkipBuild, After
    <2>2. QED
        BY <1>2, <1>3, <2>1 DEF Left
<1>7. CASE EndBuild(m)
    <2>1. /\ pc[m] = "build" /\ at' = at /\ gone' = gone /\ pc'[m] \in {"record", "cut"}
        BY <1>1, <1>7 DEF EndBuild, After
    <2>2. QED
        BY <1>2, <1>3, <2>1 DEF Left
<1>8. CASE Record(m)
    <2>1. /\ pc[m] = "record" /\ gone' = gone
          /\ at'[m] \in {at[m], at[m] + 1}
          /\ pc'[m] \in {"apply", "check", "unlock", "cut"}
          /\ pc'[m] = "apply" => at'[m] = at[m] + 1
        BY <1>1, <1>8 DEF Record, After
    <2>2. QED
        BY <1>2, <1>3, <2>1 DEF Left
<1>9. CASE CheckHistory(m) \/ CheckIndexes(m)
    BY <1>1, <1>2, <1>9 DEF CheckHistory, CheckIndexes, After, Left
<1>10. CASE Fail(m)
    <2>1. pc[m] \in InTry /\ at' = at /\ gone' = gone /\ pc'[m] \in {"unlock", "cut"}
        BY <1>1, <1>10 DEF Fail, After, InTry
    <2>2. QED
        BY <1>2, <1>3, <2>1 DEF Left, InTry
<1>11. CASE Unlock(m) \/ SessionEnd(m)
    <2>1. pc[m] \in Working \cup {"cut"} /\ at' = at /\ gone' = gone
          /\ pc'[m] \in {"completed", "failed"}
        BY <1>1, <1>11 DEF Unlock, SessionEnd, Working
    <2>2. QED
        BY <1>2, <1>3, <2>1 DEF Left, Working, InTry
<1>12. CASE Crash(m)
    <2>1. pc' = pc /\ at' = at /\ ~gone[m] /\ gone'[m]
        BY <1>1, <1>12 DEF Crash
    <2>2. QED
        BY <1>2, <1>3, <2>1 DEF Left, Working, InTry, Ended
<1>13. QED
    BY <1>4, <1>5, <1>6, <1>7, <1>8, <1>9, <1>10, <1>11, <1>12 DEF Job

\* A run of the job cannot go on for ever, nor be kept going by the runs and
\* repairs around it: setup() gets nowhere it has been, and three statements
\* for every migration and eleven around them are all there can be.
THEOREM RunsAreBounded ==
    Spec => /\ [](\A m \in Runs : Left(m) \in 0 .. Bound)
            /\ [][\A m \in Runs : /\ Left(m)' <= Left(m)
                                  /\ Job(m) => Left(m)' < Left(m)]_vars
<1> DEFINE Spends == \A m \in Runs : /\ Left(m)' <= Left(m)
                                     /\ Job(m) => Left(m)' < Left(m)
<1>1. Inv => \A m \in Runs : Left(m) \in 0 .. Bound
    BY LeftBounds
<1>2. ASSUME Inv, [Next]_vars, NEW m \in Runs, ~Job(m) PROVE Left(m)' = Left(m)
    <2>1. pc'[m] = pc[m] /\ gone'[m] = gone[m] /\ at'[m] = at[m]
        <3>1. CASE \E q \in Runs : Job(q)
            BY <1>2, <3>1, OthersKeep
        <3>2. CASE \E r \in Runtimes : Runtime(r)
            BY <3>2 DEF Runtime, Start, ReadHistory, ReadTables, ReadIndexes, Query, Stop,
                        dbVars
        <3>3. CASE Provision \/ (\E v \in Indexes : Reindex(v)) \/ UNCHANGED vars
            BY <3>3 DEF Provision, Reindex, vars
        <3>4. QED
            BY <1>2, <3>1, <3>2, <3>3 DEF Next
    <2>2. QED
        BY <2>1 DEF Left
<1>3. Inv => \A m \in Runs : Left(m) \in Nat
    <2>1. Bound \in Nat /\ \A k \in 0 .. Bound : k \in Nat
        BY DEF Bound
    <2>2. QED
        BY <1>1, <2>1
<1>4. Inv /\ Inv' /\ [Next]_vars => [Spends]_vars
    <2> SUFFICES ASSUME Inv, Inv', [Next]_vars, NEW m \in Runs
                 PROVE  Left(m)' <= Left(m) /\ (Job(m) => Left(m)' < Left(m))
        OBVIOUS
    <2>1. CASE Job(m)
        <3>1. Left(m)' < Left(m)
            BY <2>1, JobSpends
        <3>2. Left(m) \in Nat /\ Left(m)' \in Nat
            BY <1>3, LeftBoundsNext DEF Bound
        <3>3. QED
            BY <3>1, <3>2
    <2>2. CASE ~Job(m)
        BY <1>2, <1>3, <2>2
    <2>3. QED
        BY <2>1, <2>2
<1>5. QED
    BY <1>1, <1>4, Invariance, PTL DEF Spec
=============================================================================
