-------------------------- MODULE MaintenanceProofs --------------------------
(***************************************************************************)
(* Work on the files of a collection.                                      *)
(*                                                                         *)
(* The builds of a lexical index never lose a registration, never report   *)
(* an index as ready that is not the cached one, and never hold more than  *)
(* the slots of the scheduler, for any number of callers and builders.     *)
(*                                                                         *)
(* Backups are copies of one instant and restores bring back exactly that, *)
(* for any writes, operators, faults and number of calls.                  *)
(***************************************************************************)
EXTENDS LexicalBuild, Backup, FiniteSetTheorems, TLAPS

-----------------------------------------------------------------------------
(* Lexical builds: the inductive invariant *)


MaybePrint == Prints \cup {NoPrint}
FileState == Builders \cup {NoIndexFile, "whole", "torn"}
CallerState == [pc : {"idle", "schema", "read", "register", "spawn"}, print : MaybePrint]
BuilderPCs ==
    {"idle", "attempt", "waiting", "permitted", "publish", "write", "rename", "collect",
     "built", "compare", "result", "outdated", "done"}
StateNames == {"disabled", "missing", "queued", "building", "ready", "retrying", "failed"}
StatusRecord == [name : StateNames, print : MaybePrint]
BuildState == [pc : BuilderPCs, print : MaybePrint, attempt : 0..MaxAttempts, ok : BOOLEAN]

ConfigShape ==
    /\ present \in BOOLEAN /\ overlay \in BOOLEAN /\ draining \in BOOLEAN
    /\ changes \in 0..MaxChanges /\ checkpoint \in 0..changes
    /\ schema \in Schemas \cup {NoFields}
CallersShape == caller \in [Callers -> CallerState]
BuildsShape == build \in [Builders -> BuildState]
FilesShape == indexFiles \in [Prints -> FileState] /\ temps \in [Prints -> FileState]
MemoryShape ==
    /\ latest \in MaybePrint /\ cache \in MaybePrint
    /\ status \in StatusRecord
SlotsKept == Cardinality(Holding) <= Slots

LexicalIInv ==
    /\ ConfigShape /\ CallersShape /\ BuildsShape /\ FilesShape /\ MemoryShape
    /\ SlotsKept /\ RegistrationHasBuilder /\ ReadyIsCached

\* A step is one operation, or changes nothing.
LEMMA StepKinds == ASSUME [LexicalNext]_lexicalVars PROVE
    \/ Write
    \/ Query
    \/ RemoveCollection
    \/ Drain
    \/ RestartServer
    \/ \E c \in Callers : Seal(c)
    \/ \E c \in Callers : SchemaCancel(c)
    \/ \E c \in Callers : ScheduleRead(c)
    \/ \E c \in Callers : Register(c)
    \/ \E c \in Callers : Spawn(c)
    \/ \E c \in Callers, s \in Schemas \cup {NoFields} : SchemaUpdate(c, s)
    \/ \E b \in Builders : Attempt(b)
    \/ \E b \in Builders : Acquire(b)
    \/ \E b \in Builders : Check(b)
    \/ \E b \in Builders : Outdated(b)
    \/ \E b \in Builders : PublishTemp(b)
    \/ \E b \in Builders : PublishWrite(b)
    \/ \E b \in Builders : PublishRename(b)
    \/ \E b \in Builders : GarbageCollect(b)
    \/ \E b \in Builders : Built(b)
    \/ \E b \in Builders : Compare(b)
    \/ \E b \in Builders : Result(b)
    \/ \E b \in Builders : Done(b)
    \/ \E b \in Builders : AttemptFails(b)
    \/ UNCHANGED lexicalVars
  BY DEF LexicalNext, CallerStep, BuilderStep

\* The fingerprint of the current state is one, or none.
LEMMA CurrentFact == ASSUME ConfigShape PROVE CurrentPrint \in MaybePrint
  BY LexicalConstants DEF ConfigShape, CurrentPrint, MaybePrint, Prints, NoPrint

\* The values that are assigned have their shapes.
LEMMA Values ==
    /\ MaxChanges \in Nat /\ NoPrint \in MaybePrint
    /\ NoTask \in BuildState /\ NoTask.pc = "idle" /\ IdleCaller \in CallerState
    /\ IdleCaller.pc = "idle"
    /\ \A p \in MaybePrint : /\ NewTask(p) \in BuildState
                             /\ NewTask(p).pc = "attempt" /\ NewTask(p).print = p
    /\ \A n \in StateNames, p \in MaybePrint :
          /\ State(n, p) \in StatusRecord
          /\ State(n, p).name = n /\ State(n, p).print = p
<1>1. MaxChanges \in Nat /\ NoPrint \in MaybePrint
  BY LexicalConstants DEF MaybePrint
<1>2. NoTask \in BuildState /\ NoTask.pc = "idle" /\ IdleCaller \in CallerState /\ IdleCaller.pc = "idle"
  BY <1>1, LexicalConstants DEF NoTask, IdleCaller, BuildState, BuilderPCs, CallerState
<1>3. ASSUME NEW p \in MaybePrint
      PROVE  NewTask(p) \in BuildState /\ NewTask(p).pc = "attempt" /\ NewTask(p).print = p
  BY LexicalConstants DEF NewTask, BuildState, BuilderPCs
<1>4. ASSUME NEW n \in StateNames, NEW p \in MaybePrint
      PROVE  State(n, p) \in StatusRecord /\ State(n, p).name = n /\ State(n, p).print = p
  BY DEF State, StatusRecord, StateNames
<1> QED BY <1>1, <1>2, <1>3, <1>4

\* The members of a shape.
LEMMA Members ==
    ASSUME LexicalIInv
    PROVE  /\ \A c \in Callers : caller[c].print \in MaybePrint
           /\ \A b \in Builders : build[b].print \in MaybePrint
           /\ CurrentPrint \in MaybePrint
  BY CurrentFact DEF LexicalIInv, CallersShape, BuildsShape, CallerState, BuildState

\* The configuration keeps its shape.
LEMMA ConfigStep == ASSUME LexicalIInv, [LexicalNext]_lexicalVars PROVE ConfigShape'
<1> USE LexicalConstants DEF LexicalIInv, config, memory, disk, lexicalVars, ConfigShape
<1>1. ASSUME Write PROVE ConfigShape'
  BY <1>1, Values DEF Write
<1>2. ASSUME Query PROVE ConfigShape'
  BY <1>2, Values DEF Query
<1>3. ASSUME RemoveCollection PROVE ConfigShape'
  <2>1. changes' = changes + 1 /\ checkpoint' \in {checkpoint, checkpoint + 1} /\ changes < MaxChanges
    BY <1>3 DEF RemoveCollection
  <2>2. changes' \in 0..MaxChanges /\ checkpoint' \in 0..changes'
    BY <2>1, Values
  <2>3. present' \in BOOLEAN /\ overlay' \in BOOLEAN /\ draining' \in BOOLEAN
        /\ schema' \in Schemas \cup {NoFields}
    BY <1>3 DEF RemoveCollection
  <2> QED BY <2>2, <2>3
<1>4. ASSUME Drain PROVE ConfigShape'
  BY <1>4, Values DEF Drain
<1>5. ASSUME RestartServer PROVE ConfigShape'
  BY <1>5, Values DEF RestartServer, Survivor
<1>6. ASSUME NEW c \in Callers, Seal(c) PROVE ConfigShape'
  <2>1. changes' = changes + 1 /\ checkpoint' \in {checkpoint, checkpoint + 1} /\ changes < MaxChanges
    BY <1>6 DEF Seal
  <2>2. changes' \in 0..MaxChanges /\ checkpoint' \in 0..changes'
    BY <2>1, Values
  <2>3. present' \in BOOLEAN /\ overlay' \in BOOLEAN /\ draining' \in BOOLEAN
        /\ schema' \in Schemas \cup {NoFields}
    BY <1>6 DEF Seal
  <2> QED BY <2>2, <2>3
<1>7. ASSUME NEW c \in Callers, SchemaCancel(c) PROVE ConfigShape'
  BY <1>7, Values DEF SchemaCancel, Cancel
<1>8. ASSUME NEW c \in Callers, ScheduleRead(c) PROVE ConfigShape'
  BY <1>8, Values DEF ScheduleRead
<1>9. ASSUME NEW c \in Callers, Register(c) PROVE ConfigShape'
  BY <1>9, Values DEF Register
<1>10. ASSUME NEW c \in Callers, Spawn(c) PROVE ConfigShape'
  BY <1>10, Values DEF Spawn
<1>11. ASSUME NEW c \in Callers, NEW s \in Schemas \cup {NoFields}, SchemaUpdate(c, s) PROVE ConfigShape'
  BY <1>11, Values DEF SchemaUpdate, Invalidated
<1>12. ASSUME NEW b \in Builders, Attempt(b) PROVE ConfigShape'
  BY <1>12, Values DEF Attempt, Leave, LeaveFinished, Finish, Advance
<1>13. ASSUME NEW b \in Builders, Acquire(b) PROVE ConfigShape'
  BY <1>13, Values DEF Acquire, Leave, Advance
<1>14. ASSUME NEW b \in Builders, Check(b) PROVE ConfigShape'
  BY <1>14, Values DEF Check, Advance
<1>15. ASSUME NEW b \in Builders, Outdated(b) PROVE ConfigShape'
  BY <1>15, Values DEF Outdated, LeaveFinished, Finish
<1>16. ASSUME NEW b \in Builders, PublishTemp(b) PROVE ConfigShape'
  BY <1>16, Values DEF PublishTemp, Advance
<1>17. ASSUME NEW b \in Builders, PublishWrite(b) PROVE ConfigShape'
  BY <1>17, Values DEF PublishWrite, Advance, WrittenBy
<1>18. ASSUME NEW b \in Builders, PublishRename(b) PROVE ConfigShape'
  BY <1>18, Values DEF PublishRename
<1>19. ASSUME NEW b \in Builders, GarbageCollect(b) PROVE ConfigShape'
  BY <1>19, Values DEF GarbageCollect, Advance
<1>20. ASSUME NEW b \in Builders, Built(b) PROVE ConfigShape'
  BY <1>20, Values DEF Built, LeaveFinished, Leave, Advance, Finish, RemoveSnapshot
<1>21. ASSUME NEW b \in Builders, Compare(b) PROVE ConfigShape'
  BY <1>21, Values DEF Compare, Advance, RemoveSnapshot
<1>22. ASSUME NEW b \in Builders, Result(b) PROVE ConfigShape'
  BY <1>22, Values DEF Result, Advance
<1>23. ASSUME NEW b \in Builders, Done(b) PROVE ConfigShape'
  BY <1>23, Values DEF Done, LeaveFinished, Finish
<1>24. ASSUME NEW b \in Builders, AttemptFails(b) PROVE ConfigShape'
  BY <1>24, Values DEF AttemptFails
<1>25. ASSUME UNCHANGED lexicalVars PROVE ConfigShape'
  BY <1>25
<1> QED BY StepKinds, <1>1, <1>2, <1>3, <1>4, <1>5, <1>6, <1>7, <1>8, <1>9, <1>10, <1>11, <1>12,
      <1>13, <1>14, <1>15, <1>16, <1>17, <1>18, <1>19, <1>20, <1>21, <1>22, <1>23, <1>24, <1>25

\* Callers keep their shape.
LEMMA CallersStep == ASSUME LexicalIInv, [LexicalNext]_lexicalVars PROVE CallersShape'
<1> USE LexicalConstants DEF LexicalIInv, config, memory, disk, lexicalVars, CallersShape,
      CallerState, IdleCaller
<1>1. ASSUME Write PROVE CallersShape'
  BY <1>1, Values, CurrentFact DEF Write
<1>2. ASSUME Query PROVE CallersShape'
  BY <1>2, Values, CurrentFact DEF Query
<1>3. ASSUME RemoveCollection PROVE CallersShape'
  BY <1>3, Values, CurrentFact DEF RemoveCollection, Cancel
<1>4. ASSUME Drain PROVE CallersShape'
  BY <1>4, Values, CurrentFact DEF Drain
<1>5. ASSUME RestartServer PROVE CallersShape'
  BY <1>5, Values, CurrentFact DEF RestartServer, Survivor
<1>6. ASSUME NEW c \in Callers, Seal(c) PROVE CallersShape'
  BY <1>6, Values, CurrentFact DEF Seal
<1>7. ASSUME NEW c \in Callers, SchemaCancel(c) PROVE CallersShape'
  BY <1>7, Values, CurrentFact DEF SchemaCancel, Cancel
<1>8. ASSUME NEW c \in Callers, ScheduleRead(c) PROVE CallersShape'
  BY <1>8, Values, CurrentFact DEF ScheduleRead
<1>9. ASSUME NEW c \in Callers, Register(c) PROVE CallersShape'
  BY <1>9, Values, CurrentFact DEF Register
<1>10. ASSUME NEW c \in Callers, Spawn(c) PROVE CallersShape'
  BY <1>10, Values, CurrentFact DEF Spawn
<1>11. ASSUME NEW c \in Callers, NEW s \in Schemas \cup {NoFields}, SchemaUpdate(c, s) PROVE CallersShape'
  BY <1>11, Values, CurrentFact DEF SchemaUpdate, Invalidated
<1>12. ASSUME NEW b \in Builders, Attempt(b) PROVE CallersShape'
  BY <1>12, Values, CurrentFact DEF Attempt, Leave, LeaveFinished, Finish, Advance
<1>13. ASSUME NEW b \in Builders, Acquire(b) PROVE CallersShape'
  BY <1>13, Values, CurrentFact DEF Acquire, Leave, Advance
<1>14. ASSUME NEW b \in Builders, Check(b) PROVE CallersShape'
  BY <1>14, Values, CurrentFact DEF Check, Advance
<1>15. ASSUME NEW b \in Builders, Outdated(b) PROVE CallersShape'
  BY <1>15, Values, CurrentFact DEF Outdated, LeaveFinished, Finish
<1>16. ASSUME NEW b \in Builders, PublishTemp(b) PROVE CallersShape'
  BY <1>16, Values, CurrentFact DEF PublishTemp, Advance
<1>17. ASSUME NEW b \in Builders, PublishWrite(b) PROVE CallersShape'
  BY <1>17, Values, CurrentFact DEF PublishWrite, Advance, WrittenBy
<1>18. ASSUME NEW b \in Builders, PublishRename(b) PROVE CallersShape'
  BY <1>18, Values, CurrentFact DEF PublishRename
<1>19. ASSUME NEW b \in Builders, GarbageCollect(b) PROVE CallersShape'
  BY <1>19, Values, CurrentFact DEF GarbageCollect, Advance
<1>20. ASSUME NEW b \in Builders, Built(b) PROVE CallersShape'
  BY <1>20, Values, CurrentFact DEF Built, LeaveFinished, Leave, Advance, Finish, RemoveSnapshot
<1>21. ASSUME NEW b \in Builders, Compare(b) PROVE CallersShape'
  BY <1>21, Values, CurrentFact DEF Compare, Advance, RemoveSnapshot
<1>22. ASSUME NEW b \in Builders, Result(b) PROVE CallersShape'
  BY <1>22, Values, CurrentFact DEF Result, Advance
<1>23. ASSUME NEW b \in Builders, Done(b) PROVE CallersShape'
  BY <1>23, Values, CurrentFact DEF Done, LeaveFinished, Finish
<1>24. ASSUME NEW b \in Builders, AttemptFails(b) PROVE CallersShape'
  BY <1>24, Values, CurrentFact DEF AttemptFails
<1>25. ASSUME UNCHANGED lexicalVars PROVE CallersShape'
  BY <1>25
<1> QED BY StepKinds, <1>1, <1>2, <1>3, <1>4, <1>5, <1>6, <1>7, <1>8, <1>9, <1>10, <1>11, <1>12,
      <1>13, <1>14, <1>15, <1>16, <1>17, <1>18, <1>19, <1>20, <1>21, <1>22, <1>23, <1>24, <1>25

\* Builders keep their shape, and no build is attempted too often.
LEMMA BuildsStep == ASSUME LexicalIInv, [LexicalNext]_lexicalVars PROVE BuildsShape'
<1> USE LexicalConstants DEF LexicalIInv, config, memory, disk, lexicalVars, BuildsShape,
      BuildState, BuilderPCs
<1>1. ASSUME Write PROVE BuildsShape'
  BY <1>1, Values, Members DEF Write
<1>2. ASSUME Query PROVE BuildsShape'
  BY <1>2, Values, Members DEF Query
<1>3. ASSUME RemoveCollection PROVE BuildsShape'
  BY <1>3, Values, Members DEF RemoveCollection, Cancel
<1>4. ASSUME Drain PROVE BuildsShape'
  BY <1>4, Values, Members DEF Drain
<1>5. ASSUME RestartServer PROVE BuildsShape'
  BY <1>5, Values, Members DEF RestartServer, Survivor, LexicalIInv, BuildsShape, config, disk,
        memory
<1>6. ASSUME NEW c \in Callers, Seal(c) PROVE BuildsShape'
  BY <1>6, Values, Members DEF Seal
<1>7. ASSUME NEW c \in Callers, SchemaCancel(c) PROVE BuildsShape'
  BY <1>7, Values, Members DEF SchemaCancel, Cancel
<1>8. ASSUME NEW c \in Callers, ScheduleRead(c) PROVE BuildsShape'
  BY <1>8, Values, Members DEF ScheduleRead
<1>9. ASSUME NEW c \in Callers, Register(c) PROVE BuildsShape'
  BY <1>9, Values, Members DEF Register
<1>10. ASSUME NEW c \in Callers, Spawn(c) PROVE BuildsShape'
  BY <1>10, Values, Members DEF Spawn, LexicalIInv, BuildsShape, config, disk, memory
<1>11. ASSUME NEW c \in Callers, NEW s \in Schemas \cup {NoFields}, SchemaUpdate(c, s) PROVE BuildsShape'
  BY <1>11, Values, Members DEF SchemaUpdate, Invalidated
<1>12. ASSUME NEW b \in Builders, Attempt(b) PROVE BuildsShape'
  BY <1>12, Values, Members DEF Attempt, Leave, LeaveFinished, Finish, Advance
<1>13. ASSUME NEW b \in Builders, Acquire(b) PROVE BuildsShape'
  BY <1>13, Values, Members DEF Acquire, Leave, Advance
<1>14. ASSUME NEW b \in Builders, Check(b) PROVE BuildsShape'
  BY <1>14, Values, Members DEF Check, Advance
<1>15. ASSUME NEW b \in Builders, Outdated(b) PROVE BuildsShape'
  BY <1>15, Values, Members DEF Outdated, LeaveFinished, Finish
<1>16. ASSUME NEW b \in Builders, PublishTemp(b) PROVE BuildsShape'
  BY <1>16, Values, Members DEF PublishTemp, Advance
<1>17. ASSUME NEW b \in Builders, PublishWrite(b) PROVE BuildsShape'
  BY <1>17, Values, Members DEF PublishWrite, Advance, WrittenBy
<1>18. ASSUME NEW b \in Builders, PublishRename(b) PROVE BuildsShape'
  BY <1>18, Values, Members DEF PublishRename
<1>19. ASSUME NEW b \in Builders, GarbageCollect(b) PROVE BuildsShape'
  BY <1>19, Values, Members DEF GarbageCollect, Advance
<1>20. ASSUME NEW b \in Builders, Built(b) PROVE BuildsShape'
  BY <1>20, Values, Members DEF Built, LeaveFinished, Leave, Advance, Finish, RemoveSnapshot
<1>21. ASSUME NEW b \in Builders, Compare(b) PROVE BuildsShape'
  BY <1>21, Values, Members DEF Compare, Advance, RemoveSnapshot
<1>22. ASSUME NEW b \in Builders, Result(b) PROVE BuildsShape'
  BY <1>22, Values, Members DEF Result, Advance
<1>23. ASSUME NEW b \in Builders, Done(b) PROVE BuildsShape'
  BY <1>23, Values, Members DEF Done, LeaveFinished, Finish
<1>24. ASSUME NEW b \in Builders, AttemptFails(b) PROVE BuildsShape'
  BY <1>24 DEF AttemptFails
<1>25. ASSUME UNCHANGED lexicalVars PROVE BuildsShape'
  BY <1>25
<1> QED BY StepKinds, <1>1, <1>2, <1>3, <1>4, <1>5, <1>6, <1>7, <1>8, <1>9, <1>10, <1>11, <1>12,
      <1>13, <1>14, <1>15, <1>16, <1>17, <1>18, <1>19, <1>20, <1>21, <1>22, <1>23, <1>24, <1>25

\* Files are absent, whole, torn or being written.
LEMMA FilesStep == ASSUME LexicalIInv, [LexicalNext]_lexicalVars PROVE FilesShape'
<1> USE LexicalConstants DEF LexicalIInv, config, memory, disk, lexicalVars, FilesShape, FileState
<1>1. ASSUME Write PROVE FilesShape'
  BY <1>1 DEF Write
<1>2. ASSUME Query PROVE FilesShape'
  BY <1>2 DEF Query
<1>3. ASSUME RemoveCollection PROVE FilesShape'
  BY <1>3 DEF RemoveCollection, Cancel
<1>4. ASSUME Drain PROVE FilesShape'
  BY <1>4 DEF Drain
<1>5. ASSUME RestartServer PROVE FilesShape'
  BY <1>5 DEF RestartServer, Survivor
<1>6. ASSUME NEW c \in Callers, Seal(c) PROVE FilesShape'
  BY <1>6 DEF Seal
<1>7. ASSUME NEW c \in Callers, SchemaCancel(c) PROVE FilesShape'
  BY <1>7 DEF SchemaCancel, Cancel
<1>8. ASSUME NEW c \in Callers, ScheduleRead(c) PROVE FilesShape'
  BY <1>8 DEF ScheduleRead
<1>9. ASSUME NEW c \in Callers, Register(c) PROVE FilesShape'
  BY <1>9 DEF Register
<1>10. ASSUME NEW c \in Callers, Spawn(c) PROVE FilesShape'
  BY <1>10 DEF Spawn
<1>11. ASSUME NEW c \in Callers, NEW s \in Schemas \cup {NoFields}, SchemaUpdate(c, s) PROVE FilesShape'
  BY <1>11 DEF SchemaUpdate, Invalidated
<1>12. ASSUME NEW b \in Builders, Attempt(b) PROVE FilesShape'
  BY <1>12 DEF Attempt, Leave, LeaveFinished, Finish, Advance
<1>13. ASSUME NEW b \in Builders, Acquire(b) PROVE FilesShape'
  BY <1>13 DEF Acquire, Leave, Advance
<1>14. ASSUME NEW b \in Builders, Check(b) PROVE FilesShape'
  BY <1>14 DEF Check, Advance
<1>15. ASSUME NEW b \in Builders, Outdated(b) PROVE FilesShape'
  BY <1>15 DEF Outdated, LeaveFinished, Finish
<1>16. ASSUME NEW b \in Builders, PublishTemp(b) PROVE FilesShape'
  BY <1>16 DEF PublishTemp, Advance
<1>17. ASSUME NEW b \in Builders, PublishWrite(b) PROVE FilesShape'
  BY <1>17 DEF PublishWrite, Advance, WrittenBy
<1>18. ASSUME NEW b \in Builders, PublishRename(b) PROVE FilesShape'
  BY <1>18 DEF PublishRename
<1>19. ASSUME NEW b \in Builders, GarbageCollect(b) PROVE FilesShape'
  BY <1>19 DEF GarbageCollect, Advance
<1>20. ASSUME NEW b \in Builders, Built(b) PROVE FilesShape'
  BY <1>20 DEF Built, LeaveFinished, Leave, Advance, Finish, RemoveSnapshot
<1>21. ASSUME NEW b \in Builders, Compare(b) PROVE FilesShape'
  BY <1>21 DEF Compare, Advance, RemoveSnapshot
<1>22. ASSUME NEW b \in Builders, Result(b) PROVE FilesShape'
  BY <1>22 DEF Result, Advance
<1>23. ASSUME NEW b \in Builders, Done(b) PROVE FilesShape'
  BY <1>23 DEF Done, LeaveFinished, Finish
<1>24. ASSUME NEW b \in Builders, AttemptFails(b) PROVE FilesShape'
  BY <1>24 DEF AttemptFails
<1>25. ASSUME UNCHANGED lexicalVars PROVE FilesShape'
  BY <1>25
<1> QED BY StepKinds, <1>1, <1>2, <1>3, <1>4, <1>5, <1>6, <1>7, <1>8, <1>9, <1>10, <1>11, <1>12,
      <1>13, <1>14, <1>15, <1>16, <1>17, <1>18, <1>19, <1>20, <1>21, <1>22, <1>23, <1>24, <1>25

\* The registration, the cache and the state name fingerprints.
LEMMA MemoryStep == ASSUME LexicalIInv, [LexicalNext]_lexicalVars PROVE MemoryShape'
<1> USE LexicalConstants DEF LexicalIInv, config, memory, disk, lexicalVars, MemoryShape,
      StateNames
<1>1. ASSUME Write PROVE MemoryShape'
  BY <1>1, Values, Members DEF Write
<1>2. ASSUME Query PROVE MemoryShape'
  BY <1>2, Values, Members DEF Query
<1>3. ASSUME RemoveCollection PROVE MemoryShape'
  BY <1>3, Values, Members DEF RemoveCollection, Cancel
<1>4. ASSUME Drain PROVE MemoryShape'
  BY <1>4, Values, Members DEF Drain
<1>5. ASSUME RestartServer PROVE MemoryShape'
  BY <1>5, Values, Members DEF RestartServer, Survivor
<1>6. ASSUME NEW c \in Callers, Seal(c) PROVE MemoryShape'
  BY <1>6, Values, Members DEF Seal
<1>7. ASSUME NEW c \in Callers, SchemaCancel(c) PROVE MemoryShape'
  BY <1>7, Values, Members DEF SchemaCancel, Cancel
<1>8. ASSUME NEW c \in Callers, ScheduleRead(c) PROVE MemoryShape'
  BY <1>8, Values, Members DEF ScheduleRead
<1>9. ASSUME NEW c \in Callers, Register(c) PROVE MemoryShape'
  BY <1>9, Values, Members DEF Register
<1>10. ASSUME NEW c \in Callers, Spawn(c) PROVE MemoryShape'
  BY <1>10, Values, Members DEF Spawn
<1>11. ASSUME NEW c \in Callers, NEW s \in Schemas \cup {NoFields}, SchemaUpdate(c, s) PROVE MemoryShape'
  <2>1. s # NoFields /\ checkpoint # 0 => <<checkpoint, s>> \in MaybePrint
    BY Values DEF ConfigShape, MaybePrint, Prints
  <2>2. Invalidated(s) \in StatusRecord
    BY <2>1, Values DEF Invalidated
  <2> QED BY <1>11, <2>2, Values DEF SchemaUpdate
<1>12. ASSUME NEW b \in Builders, Attempt(b) PROVE MemoryShape'
  BY <1>12, Values, Members DEF Attempt, Leave, LeaveFinished, Finish, Advance
<1>13. ASSUME NEW b \in Builders, Acquire(b) PROVE MemoryShape'
  BY <1>13, Values, Members DEF Acquire, Leave, Advance
<1>14. ASSUME NEW b \in Builders, Check(b) PROVE MemoryShape'
  BY <1>14, Values, Members DEF Check, Advance
<1>15. ASSUME NEW b \in Builders, Outdated(b) PROVE MemoryShape'
  BY <1>15, Values, Members DEF Outdated, LeaveFinished, Finish
<1>16. ASSUME NEW b \in Builders, PublishTemp(b) PROVE MemoryShape'
  BY <1>16, Values, Members DEF PublishTemp, Advance
<1>17. ASSUME NEW b \in Builders, PublishWrite(b) PROVE MemoryShape'
  BY <1>17, Values, Members DEF PublishWrite, Advance, WrittenBy
<1>18. ASSUME NEW b \in Builders, PublishRename(b) PROVE MemoryShape'
  BY <1>18, Values, Members DEF PublishRename
<1>19. ASSUME NEW b \in Builders, GarbageCollect(b) PROVE MemoryShape'
  BY <1>19, Values, Members DEF GarbageCollect, Advance
<1>20. ASSUME NEW b \in Builders, Built(b) PROVE MemoryShape'
  BY <1>20, Values, Members DEF Built, LeaveFinished, Leave, Advance, Finish, RemoveSnapshot
<1>21. ASSUME NEW b \in Builders, Compare(b) PROVE MemoryShape'
  BY <1>21, Values, Members DEF Compare, Advance, RemoveSnapshot
<1>22. ASSUME NEW b \in Builders, Result(b) PROVE MemoryShape'
  BY <1>22, Values, Members DEF Result, Advance
<1>23. ASSUME NEW b \in Builders, Done(b) PROVE MemoryShape'
  BY <1>23, Values, Members DEF Done, LeaveFinished, Finish
<1>24. ASSUME NEW b \in Builders, AttemptFails(b) PROVE MemoryShape'
  BY <1>24, Values, Members DEF AttemptFails
<1>25. ASSUME UNCHANGED lexicalVars PROVE MemoryShape'
  BY <1>25
<1> QED BY StepKinds, <1>1, <1>2, <1>3, <1>4, <1>5, <1>6, <1>7, <1>8, <1>9, <1>10, <1>11, <1>12,
      <1>13, <1>14, <1>15, <1>16, <1>17, <1>18, <1>19, <1>20, <1>21, <1>22, <1>23, <1>24, <1>25

\* What is reported ready is cached.
LEMMA ReadyStep == ASSUME LexicalIInv, [LexicalNext]_lexicalVars PROVE ReadyIsCached'
<1> USE LexicalConstants DEF LexicalIInv, config, memory, disk, lexicalVars, ReadyIsCached, State,
      MemoryShape
<1>1. ASSUME Write PROVE ReadyIsCached'
  BY <1>1 DEF Write
<1>2. ASSUME Query PROVE ReadyIsCached'
  BY <1>2 DEF Query
<1>3. ASSUME RemoveCollection PROVE ReadyIsCached'
  BY <1>3 DEF RemoveCollection, Cancel
<1>4. ASSUME Drain PROVE ReadyIsCached'
  BY <1>4 DEF Drain
<1>5. ASSUME RestartServer PROVE ReadyIsCached'
  BY <1>5 DEF RestartServer, Survivor
<1>6. ASSUME NEW c \in Callers, Seal(c) PROVE ReadyIsCached'
  BY <1>6 DEF Seal
<1>7. ASSUME NEW c \in Callers, SchemaCancel(c) PROVE ReadyIsCached'
  BY <1>7 DEF SchemaCancel, Cancel
<1>8. ASSUME NEW c \in Callers, ScheduleRead(c) PROVE ReadyIsCached'
  BY <1>8 DEF ScheduleRead
<1>9. ASSUME NEW c \in Callers, Register(c) PROVE ReadyIsCached'
  BY <1>9 DEF Register
<1>10. ASSUME NEW c \in Callers, Spawn(c) PROVE ReadyIsCached'
  BY <1>10 DEF Spawn
<1>11. ASSUME NEW c \in Callers, NEW s \in Schemas \cup {NoFields}, SchemaUpdate(c, s) PROVE ReadyIsCached'
  BY <1>11 DEF SchemaUpdate, Invalidated
<1>12. ASSUME NEW b \in Builders, Attempt(b) PROVE ReadyIsCached'
  BY <1>12 DEF Attempt, Leave, LeaveFinished, Finish, Advance
<1>13. ASSUME NEW b \in Builders, Acquire(b) PROVE ReadyIsCached'
  BY <1>13 DEF Acquire, Leave, Advance
<1>14. ASSUME NEW b \in Builders, Check(b) PROVE ReadyIsCached'
  BY <1>14 DEF Check, Advance
<1>15. ASSUME NEW b \in Builders, Outdated(b) PROVE ReadyIsCached'
  BY <1>15 DEF Outdated, LeaveFinished, Finish
<1>16. ASSUME NEW b \in Builders, PublishTemp(b) PROVE ReadyIsCached'
  BY <1>16 DEF PublishTemp, Advance
<1>17. ASSUME NEW b \in Builders, PublishWrite(b) PROVE ReadyIsCached'
  BY <1>17 DEF PublishWrite, Advance, WrittenBy
<1>18. ASSUME NEW b \in Builders, PublishRename(b) PROVE ReadyIsCached'
  BY <1>18 DEF PublishRename
<1>19. ASSUME NEW b \in Builders, GarbageCollect(b) PROVE ReadyIsCached'
  BY <1>19 DEF GarbageCollect, Advance
<1>20. ASSUME NEW b \in Builders, Built(b) PROVE ReadyIsCached'
  BY <1>20 DEF Built, LeaveFinished, Leave, Advance, Finish, RemoveSnapshot
<1>21. ASSUME NEW b \in Builders, Compare(b) PROVE ReadyIsCached'
  BY <1>21 DEF Compare, Advance, RemoveSnapshot
<1>22. ASSUME NEW b \in Builders, Result(b) PROVE ReadyIsCached'
  BY <1>22 DEF Result, Advance
<1>23. ASSUME NEW b \in Builders, Done(b) PROVE ReadyIsCached'
  BY <1>23 DEF Done, LeaveFinished, Finish
<1>24. ASSUME NEW b \in Builders, AttemptFails(b) PROVE ReadyIsCached'
  BY <1>24 DEF AttemptFails
<1>25. ASSUME UNCHANGED lexicalVars PROVE ReadyIsCached'
  BY <1>25
<1> QED BY StepKinds, <1>1, <1>2, <1>3, <1>4, <1>5, <1>6, <1>7, <1>8, <1>9, <1>10, <1>11, <1>12,
      <1>13, <1>14, <1>15, <1>16, <1>17, <1>18, <1>19, <1>20, <1>21, <1>22, <1>23, <1>24, <1>25

\* A registration has a builder.
LEMMA RegistrationStep == ASSUME LexicalIInv, [LexicalNext]_lexicalVars PROVE RegistrationHasBuilder'
<1> USE LexicalConstants DEF LexicalIInv, config, memory, disk, lexicalVars,
      RegistrationHasBuilder, Active, IsCurrent, BuildsShape, CallersShape, BuildState,
      CallerState
<1>1. ASSUME Write PROVE RegistrationHasBuilder'
  BY <1>1, Values, Members DEF Write
<1>2. ASSUME Query PROVE RegistrationHasBuilder'
  BY <1>2, Values, Members DEF Query
<1>3. ASSUME RemoveCollection PROVE RegistrationHasBuilder'
  BY <1>3, Values, Members DEF RemoveCollection, Cancel
<1>4. ASSUME Drain PROVE RegistrationHasBuilder'
  BY <1>4, Values, Members DEF Drain
<1>5. ASSUME RestartServer PROVE RegistrationHasBuilder'
  BY <1>5, Values, Members DEF RestartServer, Survivor
<1>6. ASSUME NEW c \in Callers, Seal(c) PROVE RegistrationHasBuilder'
  BY <1>6, Values, Members DEF Seal
<1>7. ASSUME NEW c \in Callers, SchemaCancel(c) PROVE RegistrationHasBuilder'
  BY <1>7, Values, Members DEF SchemaCancel, Cancel
<1>8. ASSUME NEW c \in Callers, ScheduleRead(c) PROVE RegistrationHasBuilder'
  BY <1>8, Values, Members DEF ScheduleRead
<1>9. ASSUME NEW c \in Callers, Register(c) PROVE RegistrationHasBuilder'
  BY <1>9, Values, Members DEF Register
<1>10. ASSUME NEW c \in Callers, Spawn(c) PROVE RegistrationHasBuilder'
  BY <1>10, Values, Members DEF Spawn
<1>11. ASSUME NEW c \in Callers, NEW s \in Schemas \cup {NoFields}, SchemaUpdate(c, s) PROVE RegistrationHasBuilder'
  BY <1>11, Values, Members DEF SchemaUpdate, Invalidated
<1>12. ASSUME NEW b \in Builders, Attempt(b) PROVE RegistrationHasBuilder'
  BY <1>12, Values, Members DEF Attempt, Leave, LeaveFinished, Finish, Advance
<1>13. ASSUME NEW b \in Builders, Acquire(b) PROVE RegistrationHasBuilder'
  BY <1>13, Values, Members DEF Acquire, Leave, Advance
<1>14. ASSUME NEW b \in Builders, Check(b) PROVE RegistrationHasBuilder'
  BY <1>14, Values, Members DEF Check, Advance
<1>15. ASSUME NEW b \in Builders, Outdated(b) PROVE RegistrationHasBuilder'
  BY <1>15, Values, Members DEF Outdated, LeaveFinished, Finish
<1>16. ASSUME NEW b \in Builders, PublishTemp(b) PROVE RegistrationHasBuilder'
  BY <1>16, Values, Members DEF PublishTemp, Advance
<1>17. ASSUME NEW b \in Builders, PublishWrite(b) PROVE RegistrationHasBuilder'
  BY <1>17, Values, Members DEF PublishWrite, Advance, WrittenBy
<1>18. ASSUME NEW b \in Builders, PublishRename(b) PROVE RegistrationHasBuilder'
  BY <1>18, Values, Members DEF PublishRename
<1>19. ASSUME NEW b \in Builders, GarbageCollect(b) PROVE RegistrationHasBuilder'
  BY <1>19, Values, Members DEF GarbageCollect, Advance
<1>20. ASSUME NEW b \in Builders, Built(b) PROVE RegistrationHasBuilder'
  BY <1>20, Values, Members DEF Built, LeaveFinished, Leave, Advance, Finish, RemoveSnapshot
<1>21. ASSUME NEW b \in Builders, Compare(b) PROVE RegistrationHasBuilder'
  BY <1>21, Values, Members DEF Compare, Advance, RemoveSnapshot
<1>22. ASSUME NEW b \in Builders, Result(b) PROVE RegistrationHasBuilder'
  BY <1>22, Values, Members DEF Result, Advance
<1>23. ASSUME NEW b \in Builders, Done(b) PROVE RegistrationHasBuilder'
  BY <1>23, Values, Members DEF Done, LeaveFinished, Finish
<1>24. ASSUME NEW b \in Builders, AttemptFails(b) PROVE RegistrationHasBuilder'
  BY <1>24, Values, Members DEF AttemptFails
<1>25. ASSUME UNCHANGED lexicalVars PROVE RegistrationHasBuilder'
  BY <1>25
<1> QED BY StepKinds, <1>1, <1>2, <1>3, <1>4, <1>5, <1>6, <1>7, <1>8, <1>9, <1>10, <1>11, <1>12,
      <1>13, <1>14, <1>15, <1>16, <1>17, <1>18, <1>19, <1>20, <1>21, <1>22, <1>23, <1>24, <1>25

\* A set is at most one larger than another that contains all of it but one element.
LEMMA OneMore ==
    ASSUME NEW S, NEW T, NEW x, IsFiniteSet(S), T \subseteq S \cup {x}
    PROVE  Cardinality(T) \in Nat /\ Cardinality(S) \in Nat /\ Cardinality(T) <= Cardinality(S) + 1
<1>0. Cardinality(S) \in Nat
  BY FS_CardinalityType
<1>1. IsFiniteSet(S \cup {x}) /\ Cardinality(S \cup {x}) <= Cardinality(S) + 1
  BY <1>0, FS_AddElement
<1>2. IsFiniteSet(T) /\ Cardinality(T) <= Cardinality(S \cup {x})
  BY <1>1, FS_Subset
<1> QED BY <1>0, <1>1, <1>2, FS_CardinalityType

\* Fewer holders keep the slots.
LEMMA HoldersLeave ==
    ASSUME LexicalIInv, Holding' \subseteq Holding PROVE SlotsKept'
<1>1. IsFiniteSet(Holding)
  BY LexicalConstants, FS_Subset DEF Holding
<1>2. Cardinality(Holding') <= Cardinality(Holding) /\ Cardinality(Holding) \in Nat /\ Cardinality(Holding') \in Nat
  BY <1>1, FS_Subset, FS_CardinalityType
<1> QED BY <1>2, LexicalConstants DEF LexicalIInv, SlotsKept

\* No more builders hold a slot than there are.
LEMMA SlotsStep == ASSUME LexicalIInv, [LexicalNext]_lexicalVars PROVE SlotsKept'
<1> USE LexicalConstants DEF LexicalIInv, config, memory, disk, lexicalVars, Holding
<1>1. ASSUME Write PROVE SlotsKept'
  <2>1. Holding' \subseteq Holding
    BY <1>1, Values, Members DEF Write, BuildsShape, BuildState
  <2> QED BY <2>1, HoldersLeave
<1>2. ASSUME Query PROVE SlotsKept'
  <2>1. Holding' \subseteq Holding
    BY <1>2, Values, Members DEF Query, BuildsShape, BuildState
  <2> QED BY <2>1, HoldersLeave
<1>3. ASSUME RemoveCollection PROVE SlotsKept'
  <2>1. Holding' \subseteq Holding
    BY <1>3, Values, Members DEF RemoveCollection, Cancel, BuildsShape, BuildState
  <2> QED BY <2>1, HoldersLeave
<1>4. ASSUME Drain PROVE SlotsKept'
  <2>1. Holding' \subseteq Holding
    BY <1>4, Values, Members DEF Drain, BuildsShape, BuildState
  <2> QED BY <2>1, HoldersLeave
<1>5. ASSUME RestartServer PROVE SlotsKept'
  <2>1. Holding' \subseteq Holding
    BY <1>5, Values, Members DEF RestartServer, Survivor, BuildsShape, BuildState
  <2> QED BY <2>1, HoldersLeave
<1>6. ASSUME NEW c \in Callers, Seal(c) PROVE SlotsKept'
  <2>1. Holding' \subseteq Holding
    BY <1>6, Values, Members DEF Seal, BuildsShape, BuildState
  <2> QED BY <2>1, HoldersLeave
<1>7. ASSUME NEW c \in Callers, SchemaCancel(c) PROVE SlotsKept'
  <2>1. Holding' \subseteq Holding
    BY <1>7, Values, Members DEF SchemaCancel, Cancel, BuildsShape, BuildState
  <2> QED BY <2>1, HoldersLeave
<1>8. ASSUME NEW c \in Callers, ScheduleRead(c) PROVE SlotsKept'
  <2>1. Holding' \subseteq Holding
    BY <1>8, Values, Members DEF ScheduleRead, BuildsShape, BuildState
  <2> QED BY <2>1, HoldersLeave
<1>9. ASSUME NEW c \in Callers, Register(c) PROVE SlotsKept'
  <2>1. Holding' \subseteq Holding
    BY <1>9, Values, Members DEF Register, BuildsShape, BuildState
  <2> QED BY <2>1, HoldersLeave
<1>10. ASSUME NEW c \in Callers, Spawn(c) PROVE SlotsKept'
  <2>1. Holding' \subseteq Holding
    BY <1>10, Values, Members DEF Spawn, BuildsShape, BuildState
  <2> QED BY <2>1, HoldersLeave
<1>11. ASSUME NEW c \in Callers, NEW s \in Schemas \cup {NoFields}, SchemaUpdate(c, s) PROVE SlotsKept'
  <2>1. Holding' \subseteq Holding
    BY <1>11, Values, Members DEF SchemaUpdate, Invalidated, BuildsShape, BuildState
  <2> QED BY <2>1, HoldersLeave
<1>12. ASSUME NEW b \in Builders, Attempt(b) PROVE SlotsKept'
  <2>1. Holding' \subseteq Holding
    BY <1>12, Values, Members DEF Attempt, Leave, LeaveFinished, Finish, Advance, BuildsShape,
          BuildState
  <2> QED BY <2>1, HoldersLeave
<1>13. ASSUME NEW b \in Builders, Acquire(b) PROVE SlotsKept'
  <2>1. CASE IsCurrent(build[b].print)
    <3>1. Holding' \subseteq Holding \cup {b}
      BY <1>13, <2>1 DEF Acquire, Advance, BuildsShape, BuildState
    <3>2. Cardinality(Holding') <= Cardinality(Holding) + 1 /\ Cardinality(Holding) \in Nat /\ Cardinality(Holding') \in Nat
      <4>1. IsFiniteSet(Holding)
        BY FS_Subset
      <4> QED BY <3>1, <4>1, OneMore
    <3>3. Cardinality(Holding) < Slots
      BY <1>13 DEF Acquire, HasSlot
    <3> QED BY <3>2, <3>3 DEF SlotsKept
  <2>2. CASE ~IsCurrent(build[b].print)
    <3>1. Holding' \subseteq Holding
      BY <1>13, <2>2, Values DEF Acquire, Leave, BuildsShape, BuildState
    <3> QED BY <3>1, HoldersLeave
  <2> QED BY <2>1, <2>2
<1>14. ASSUME NEW b \in Builders, Check(b) PROVE SlotsKept'
  <2>1. Holding' \subseteq Holding
    BY <1>14, Values, Members DEF Check, Advance, BuildsShape, BuildState
  <2> QED BY <2>1, HoldersLeave
<1>15. ASSUME NEW b \in Builders, Outdated(b) PROVE SlotsKept'
  <2>1. Holding' \subseteq Holding
    BY <1>15, Values, Members DEF Outdated, LeaveFinished, Finish, BuildsShape, BuildState
  <2> QED BY <2>1, HoldersLeave
<1>16. ASSUME NEW b \in Builders, PublishTemp(b) PROVE SlotsKept'
  <2>1. Holding' \subseteq Holding
    BY <1>16, Values, Members DEF PublishTemp, Advance, BuildsShape, BuildState
  <2> QED BY <2>1, HoldersLeave
<1>17. ASSUME NEW b \in Builders, PublishWrite(b) PROVE SlotsKept'
  <2>1. Holding' \subseteq Holding
    BY <1>17, Values, Members DEF PublishWrite, Advance, WrittenBy, BuildsShape, BuildState
  <2> QED BY <2>1, HoldersLeave
<1>18. ASSUME NEW b \in Builders, PublishRename(b) PROVE SlotsKept'
  <2>1. Holding' \subseteq Holding
    BY <1>18, Values, Members DEF PublishRename, BuildsShape, BuildState
  <2> QED BY <2>1, HoldersLeave
<1>19. ASSUME NEW b \in Builders, GarbageCollect(b) PROVE SlotsKept'
  <2>1. Holding' \subseteq Holding
    BY <1>19, Values, Members DEF GarbageCollect, Advance, BuildsShape, BuildState
  <2> QED BY <2>1, HoldersLeave
<1>20. ASSUME NEW b \in Builders, Built(b) PROVE SlotsKept'
  <2>1. Holding' \subseteq Holding
    BY <1>20, Values, Members DEF Built, LeaveFinished, Leave, Advance, Finish, RemoveSnapshot,
          BuildsShape, BuildState
  <2> QED BY <2>1, HoldersLeave
<1>21. ASSUME NEW b \in Builders, Compare(b) PROVE SlotsKept'
  <2>1. Holding' \subseteq Holding
    BY <1>21, Values, Members DEF Compare, Advance, RemoveSnapshot, BuildsShape, BuildState
  <2> QED BY <2>1, HoldersLeave
<1>22. ASSUME NEW b \in Builders, Result(b) PROVE SlotsKept'
  <2>1. Holding' \subseteq Holding
    BY <1>22, Values, Members DEF Result, Advance, BuildsShape, BuildState
  <2> QED BY <2>1, HoldersLeave
<1>23. ASSUME NEW b \in Builders, Done(b) PROVE SlotsKept'
  <2>1. Holding' \subseteq Holding
    BY <1>23, Values, Members DEF Done, LeaveFinished, Finish, BuildsShape, BuildState
  <2> QED BY <2>1, HoldersLeave
<1>24. ASSUME NEW b \in Builders, AttemptFails(b) PROVE SlotsKept'
  <2>1. Holding' \subseteq Holding
    BY <1>24, Values, Members DEF AttemptFails, BuildsShape, BuildState
  <2> QED BY <2>1, HoldersLeave
<1>25. ASSUME UNCHANGED lexicalVars PROVE SlotsKept'
  <2>1. Holding' \subseteq Holding
    BY <1>25
  <2> QED BY <2>1, HoldersLeave
<1> QED BY StepKinds, <1>1, <1>2, <1>3, <1>4, <1>5, <1>6, <1>7, <1>8, <1>9, <1>10, <1>11, <1>12,
      <1>13, <1>14, <1>15, <1>16, <1>17, <1>18, <1>19, <1>20, <1>21, <1>22, <1>23, <1>24, <1>25

\* The first states.
LEMMA InitFact == LexicalInit => LexicalIInv
<1> SUFFICES ASSUME LexicalInit PROVE LexicalIInv
  OBVIOUS
<1>1. Holding = {}
  BY Values DEF LexicalInit, Holding
<1>2. SlotsKept
  BY <1>1, LexicalConstants, FS_EmptySet DEF SlotsKept
<1>3. ConfigShape
  <2>1. changes \in 0..MaxChanges /\ checkpoint \in 0..changes
    BY Values DEF LexicalInit
  <2>2. present \in BOOLEAN /\ overlay \in BOOLEAN /\ draining \in BOOLEAN /\ schema \in Schemas \cup {NoFields}
    BY DEF LexicalInit
  <2> QED BY <2>1, <2>2 DEF ConfigShape
<1>4. FilesShape
  BY DEF LexicalInit, FilesShape, FileState
<1>5. CallersShape /\ BuildsShape
  BY Values DEF LexicalInit, CallersShape, BuildsShape
<1>6. MemoryShape /\ ReadyIsCached
  BY Values DEF LexicalInit, MemoryShape, StateNames, ReadyIsCached
<1>7. RegistrationHasBuilder
  BY DEF LexicalInit, RegistrationHasBuilder
<1> QED BY <1>2, <1>3, <1>4, <1>5, <1>6, <1>7 DEF LexicalIInv

\* The invariant contains the properties of the runs.
LEMMA Consequences == LexicalIInv => LexicalInv
<1> SUFFICES ASSUME LexicalIInv PROVE LexicalInv
  OBVIOUS
<1>1. LexicalTypeOK
  BY DEF LexicalIInv, LexicalTypeOK, MemoryShape, StatusRecord, MaybePrint, FilesShape, FileState,
         BuildsShape, BuildState, SlotsKept
<1>2. QueryUsesCurrentIndex
  BY DEF QueryUsesCurrentIndex, Answer, Cached
<1> QED BY <1>1, <1>2 DEF LexicalIInv, LexicalInv

\* The invariant holds in every reachable state.
LEMMA LexicalInductive == LexicalSpec => []LexicalIInv
<1>1. LexicalIInv /\ [LexicalNext]_lexicalVars => LexicalIInv'
  <2> SUFFICES ASSUME LexicalIInv, [LexicalNext]_lexicalVars PROVE LexicalIInv'
    OBVIOUS
  <2> QED BY ConfigStep, CallersStep, BuildsStep, FilesStep, MemoryStep, SlotsStep,
        RegistrationStep,
             ReadyStep DEF LexicalIInv
<1> QED BY InitFact, <1>1, PTL DEF LexicalSpec

\* Whatever seals, schema changes, deletions, crashes and failed attempts interleave, no more
\* builders hold a slot than the scheduler has and none attempts more often than allowed, a
\* registered fingerprint has a task that will finish it, what is reported ready is what is
\* cached, and a query uses the index of the current checkpoint and schema or none.
THEOREM LexicalSafe == LexicalSpec => []LexicalInv
BY LexicalInductive, Consequences, PTL


-----------------------------------------------------------------------------
(* Backup and restore: the inductive invariant *)

\* From the removal of the staging directory to its publication.
MakingPcs == CreatePcs \cup {"lock"}
OperatorPcs == MakingPcs \cup RestorePcs \cup {"idle"}
Names == Files \cup {Manifest}

\* All that the files a manifest lists hold.
Total(listed) == UNION {listed[f] : f \in DOMAIN listed}

Shapes ==
    /\ DOMAIN op = Operators
    /\ \A o \in Operators : /\ DOMAIN op[o] = {"pc", "id", "todo", "seen"}
                            /\ op[o].pc \in OperatorPcs /\ op[o].id \in Ids
    /\ DOMAIN backups = Ids /\ DOMAIN making = Ids /\ DOMAIN staging = Ids /\ DOMAIN snapshot = Ids
    /\ \A i \in Ids : /\ DOMAIN backups[i] \subseteq Names
                      /\ DOMAIN making[i] \subseteq Names
                      /\ DOMAIN staging[i] \subseteq Names
    /\ DOMAIN target \subseteq Files
    /\ live => DOMAIN target = Files
    /\ lock \in Operators \cup {Nobody}
    /\ live \in BOOLEAN

\* The catalog lock is held exactly while a create copies and while a restore recovers.
LockHeld == \A o \in Operators : lock = o <=> op[o].pc \in {"copy", "recover"}

\* Two operators on one staging directory have been noticed.
Alone ==
    \A o, x \in Operators :
        o # x /\ op[o].id = op[x].id
        /\ (\/ op[o].pc \in MakingPcs /\ op[x].pc \in MakingPcs
            \/ op[o].pc \in RestorePcs /\ op[x].pc \in RestorePcs)
        => op[o].id \in shared

\* What a create that nobody disturbs has in its staging directory.
CreateState(o) ==
    LET dir == making[op[o].id]
    IN  /\ op[o].pc = "copy" => op[o].todo \subseteq DOMAIN target
        /\ op[o].id \notin shared =>
             /\ op[o].pc = "lock" => DOMAIN dir = {}
             /\ op[o].pc = "copy" =>
                  /\ DOMAIN dir = DOMAIN target \ op[o].todo
                  /\ \A f \in DOMAIN dir : dir[f] = target[f]
                  /\ op[o].seen = Content(target)
             /\ op[o].pc \in {"verify", "inventory"} =>
                  DOMAIN dir \subseteq Files /\ Content(dir) = op[o].seen
             /\ op[o].pc = "publish" =>
                  Manifest \in DOMAIN dir /\ Total(dir[Manifest]) = op[o].seen

\* What a restore that nobody disturbs has in its staging directory, then in its place.
RestoreState(o) ==
    LET id == op[o].id
        dir == staging[id]
    IN  /\ op[o].pc \in RestorePcs => Manifest \in DOMAIN backups[id]
        /\ op[o].pc = "materialize" => op[o].todo \subseteq DOMAIN backups[id]
        /\ op[o].pc = "recover" => ~live
        /\ id \notin shared =>
             /\ op[o].pc \in {"materialize", "check"} /\ Manifest \in DOMAIN dir =>
                  dir[Manifest] = backups[id][Manifest]
             /\ op[o].pc \in {"integrity", "gate"} => Content(dir) = snapshot[id]
             /\ op[o].pc = "recover" => Content(target) = snapshot[id]

\* A stored backup lists what its snapshot held, however its files decay.
BackupKept(i) ==
    i \notin shared /\ DOMAIN backups[i] # {} =>
        Manifest \in DOMAIN backups[i] /\ Total(backups[i][Manifest]) = snapshot[i]

OutcomeKept ==
    outcome.any =>
        /\ outcome.id \in Ids /\ DOMAIN backups[outcome.id] # {}
        /\ outcome.id \notin shared => outcome.content = snapshot[outcome.id]

BackupIInv ==
    /\ Shapes /\ LockHeld /\ Alone
    /\ \A o \in Operators : CreateState(o) /\ RestoreState(o)
    /\ \A i \in Ids : BackupKept(i)
    /\ OutcomeKept

-----------------------------------------------------------------------------
(* Directories *)

\* The names of a collection's files, of the manifest and of the operators' steps are distinct.
LEMMA NamesDistinct ==
  /\ Manifest \notin Files /\ Config \in Files /\ Checkpoint \in Files /\ Wal \in Files
  /\ Wal # Checkpoint /\ 0 \in Ids /\ DOMAIN NoDir = {} /\ Nobody \notin Operators
<1>1. 0 \in Ids
  BY BackupAssumption DEF Ids
<1> QED BY <1>1, BackupAssumption DEF Manifest, Files, Config, Checkpoint, Wal, NoDir

\* A missing log is created empty.
LEMMA OpenedFact ==
  ASSUME NEW dir, DOMAIN dir \subseteq Files
  PROVE  DOMAIN Opened(dir) = Files /\ Content(Opened(dir)) = Content(dir)
<1>1. DOMAIN Opened(dir) = Files /\ \A f \in Files : Opened(dir)[f] = IF f \in DOMAIN dir THEN dir[f] ELSE {}
  BY DEF Opened
<1>2. ASSUME NEW w PROVE w \in Content(Opened(dir)) <=> w \in Content(dir)
  BY <1>1, NamesDistinct DEF Content
<1> QED BY <1>1, <1>2

-----------------------------------------------------------------------------
(* Operators *)

\* What a step of operator o leaves of the others.
OthersStay(o) == DOMAIN op' = Operators /\ \A x \in Operators \ {o} : op'[x] = op[x]

LEMMA OperatorMoves ==
  ASSUME Shapes, NEW o \in Operators, NEW pc \in OperatorPcs \ {"idle"}, OperatorTo(o, pc)
  PROVE  /\ OthersStay(o) /\ DOMAIN op'[o] = {"pc", "id", "todo", "seen"} /\ op'[o].pc = pc
         /\ op'[o].id = op[o].id /\ op'[o].todo = op[o].todo /\ op'[o].seen = op[o].seen
<1>1. op' = [op EXCEPT ![o] = [op[o] EXCEPT !.pc = pc]]
  BY DEF OperatorTo
<1>2. DOMAIN op = Operators /\ DOMAIN op[o] = {"pc", "id", "todo", "seen"}
  BY DEF Shapes
<1> QED BY <1>1, <1>2 DEF OthersStay

LEMMA OperatorReturns ==
  ASSUME Shapes, NEW o \in Operators, OperatorTo(o, "idle")
  PROVE  /\ OthersStay(o) /\ op'[o] = IdleOperator
         /\ DOMAIN op'[o] = {"pc", "id", "todo", "seen"} /\ op'[o].pc = "idle" /\ op'[o].id = 0
<1>1. op' = [op EXCEPT ![o] = IdleOperator]
  BY DEF OperatorTo
<1>2. DOMAIN op = Operators
  BY DEF Shapes
<1>3. op'[o] = IdleOperator /\ OthersStay(o)
  BY <1>1, <1>2 DEF OthersStay
<1> QED BY <1>3 DEF IdleOperator

\* The steps of a call are distinct.
LEMMA PcsDistinct ==
  /\ MakingPcs = {"lock", "copy", "verify", "inventory", "publish"}
  /\ RestorePcs = {"materialize", "check", "integrity", "gate", "recover"}
  /\ OperatorPcs = {"lock", "copy", "verify", "inventory", "publish", "materialize", "check",
                    "integrity", "gate", "recover", "idle"}
BY DEF MakingPcs, RestorePcs, CreatePcs, OperatorPcs

\* What is known of an operator whose directory a step leaves alone.
LEMMA CreateStays ==
  ASSUME NEW o, CreateState(o), op'[o] = op[o], shared \subseteq shared',
         op[o].id \in shared' \/ op[o].pc \notin MakingPcs \/ making'[op[o].id] = making[op[o].id],
         op[o].pc = "copy" => target' = target
  PROVE  CreateState(o)'
BY PcsDistinct DEF CreateState

LEMMA RestoreStays ==
  ASSUME NEW o, RestoreState(o), op'[o] = op[o], shared \subseteq shared',
         op[o].id \in shared' \/ op[o].pc \notin RestorePcs \/ staging'[op[o].id] = staging[op[o].id],
         op[o].pc \in RestorePcs =>
           /\ DOMAIN backups'[op[o].id] = DOMAIN backups[op[o].id]
           /\ Manifest \in DOMAIN backups[op[o].id] =>
                backups'[op[o].id][Manifest] = backups[op[o].id][Manifest]
           /\ snapshot'[op[o].id] = snapshot[op[o].id],
         op[o].pc = "recover" => target' = target /\ live' = live
  PROVE  RestoreState(o)'
<1>1. CASE op[o].pc \notin RestorePcs
  BY <1>1, PcsDistinct DEF RestoreState
<1>2. CASE op[o].pc \in RestorePcs /\ op[o].id \in shared'
  BY <1>2, PcsDistinct DEF RestoreState
<1>3. CASE op[o].pc \in RestorePcs /\ op[o].id \notin shared'
  BY <1>3, PcsDistinct DEF RestoreState
<1> QED BY <1>1, <1>2, <1>3

\* An operator that does nothing satisfies both.
LEMMA IdleKnows ==
  ASSUME NEW o, op'[o].pc = "idle"
  PROVE  CreateState(o)' /\ RestoreState(o)'
BY PcsDistinct DEF CreateState, RestoreState

\* Operator o takes a step of its call: it moves on within the call, or returns.
SameCall(o) ==
  \/ op'[o].pc = "idle"
  \/ /\ op'[o].id = op[o].id
     /\ \/ op[o].pc \in MakingPcs /\ op'[o].pc \in MakingPcs
        \/ op[o].pc \in RestorePcs /\ op'[o].pc \in RestorePcs

LEMMA AloneKept ==
  ASSUME Alone, NEW o \in Operators, OthersStay(o), SameCall(o), shared' = shared
  PROVE  Alone'
<1> SUFFICES ASSUME NEW x \in Operators, NEW y \in Operators, x # y, op'[x].id = op'[y].id,
                    \/ op'[x].pc \in MakingPcs /\ op'[y].pc \in MakingPcs
                    \/ op'[x].pc \in RestorePcs /\ op'[y].pc \in RestorePcs
             PROVE  op'[x].id \in shared
  BY DEF Alone
<1>1. CASE x # o /\ y # o
  BY <1>1 DEF Alone, OthersStay
<1>2. CASE x = o
  BY <1>2, PcsDistinct DEF Alone, OthersStay, SameCall
<1>3. CASE y = o
  BY <1>3, PcsDistinct DEF Alone, OthersStay, SameCall
<1> QED BY <1>1, <1>2, <1>3

\* The call that begins is noticed by, and notices, the others on its directory.
LEMMA AloneBegins ==
  ASSUME Alone, NEW o \in Operators, OthersStay(o), op[o].pc = "idle", NEW pcs,
         \/ pcs = MakingPcs /\ op'[o].pc \in MakingPcs
         \/ pcs = RestorePcs /\ op'[o].pc \in RestorePcs,
         shared' = Sharing(o, op'[o].id, pcs)
  PROVE  Alone' /\ shared \subseteq shared'
<1>1. shared \subseteq shared'
  BY DEF Sharing
<1>2. ASSUME NEW x \in Operators \ {o}, op[x].id = op'[o].id, op[x].pc \in pcs
      PROVE  op'[o].id \in shared'
  BY <1>2 DEF Sharing
<1> SUFFICES ASSUME NEW x \in Operators, NEW y \in Operators, x # y, op'[x].id = op'[y].id,
                    \/ op'[x].pc \in MakingPcs /\ op'[y].pc \in MakingPcs
                    \/ op'[x].pc \in RestorePcs /\ op'[y].pc \in RestorePcs
             PROVE  op'[x].id \in shared'
  BY <1>1 DEF Alone
<1>3. CASE x # o /\ y # o
  BY <1>1, <1>3 DEF Alone, OthersStay
<1>4. CASE x = o
  BY <1>2, <1>4, PcsDistinct DEF OthersStay
<1>5. CASE y = o
  BY <1>2, <1>5, PcsDistinct DEF OthersStay
<1> QED BY <1>3, <1>4, <1>5

\* A step of operator o that touches only its own directories, and what stands in for the
\* collection only while no other operator holds the lock.
LEMMA OperatorStep ==
  ASSUME BackupIInv, NEW o \in Operators, OthersStay(o), Shapes', LockHeld', Alone',
         shared \subseteq shared', CreateState(o)', RestoreState(o)',
         \A i \in Ids : \/ making'[i] = making[i]
                        \/ op[o].pc \in MakingPcs /\ i = op[o].id
                        \/ op'[o].pc \in MakingPcs /\ i = op'[o].id,
         \A i \in Ids : \/ staging'[i] = staging[i]
                        \/ op[o].pc \in RestorePcs /\ i = op[o].id
                        \/ op'[o].pc \in RestorePcs /\ i = op'[o].id,
         (target' = target /\ live' = live) \/ lock \in {Nobody, o},
         \A i \in Ids : \/ backups'[i] = backups[i] /\ snapshot'[i] = snapshot[i]
                        \/ DOMAIN backups[i] = {} /\ BackupKept(i)',
         outcome' = outcome \/ OutcomeKept'
  PROVE  BackupIInv'
<1>1. ASSUME NEW x \in Operators \ {o} PROVE CreateState(x)' /\ RestoreState(x)'
  <2>1. /\ op'[x] = op[x] /\ op[x].id \in Ids /\ op[x].pc \in OperatorPcs
        /\ CreateState(x) /\ RestoreState(x)
    BY DEF BackupIInv, OthersStay, Shapes
  <2>2. op[x].pc \in {"copy", "recover"} => target' = target /\ live' = live
    BY NamesDistinct DEF BackupIInv, LockHeld
  <2>3. op[x].id \in shared' \/ op[x].pc \notin MakingPcs \/ making'[op[x].id] = making[op[x].id]
    BY <2>1 DEF BackupIInv, Alone
  <2>4. op[x].id \in shared' \/ op[x].pc \notin RestorePcs \/ staging'[op[x].id] = staging[op[x].id]
    BY <2>1 DEF BackupIInv, Alone
  <2>5. op[x].pc \in RestorePcs => backups'[op[x].id] = backups[op[x].id] /\ snapshot'[op[x].id] = snapshot[op[x].id]
    BY <2>1 DEF RestoreState
  <2>6. CreateState(x)'
    BY <2>1, <2>2, <2>3, CreateStays
  <2>7. RestoreState(x)'
    BY <2>1, <2>2, <2>4, <2>5, RestoreStays
  <2> QED BY <2>6, <2>7
<1>2. ASSUME NEW i \in Ids PROVE BackupKept(i)'
  BY DEF BackupIInv, BackupKept
<1>3. OutcomeKept'
  BY DEF BackupIInv, OutcomeKept
<1> QED BY <1>1, <1>2, <1>3 DEF BackupIInv

\* A step that changes the collection while nobody holds the lock.
LEMMA CollectionStep ==
  ASSUME BackupIInv, lock = Nobody, DOMAIN target' \subseteq Files, live' \in BOOLEAN,
         live' => DOMAIN target' = Files,
         UNCHANGED <<backups, making, staging, lock, op, snapshot, shared, outcome>>
  PROVE  BackupIInv'
<1>1. Shapes' /\ LockHeld' /\ Alone'
  BY DEF BackupIInv, Shapes, LockHeld, Alone
<1>2. ASSUME NEW x \in Operators PROVE CreateState(x)' /\ RestoreState(x)'
  <2>1. op[x].pc \notin {"copy", "recover"}
    BY NamesDistinct DEF BackupIInv, LockHeld
  <2>2. CreateState(x) /\ RestoreState(x)
    BY DEF BackupIInv
  <2> QED BY <2>1, <2>2, CreateStays, RestoreStays
<1>3. ASSUME NEW i \in Ids PROVE BackupKept(i)'
  BY DEF BackupIInv, BackupKept
<1>4. OutcomeKept'
  BY DEF BackupIInv, OutcomeKept
<1> QED BY <1>1, <1>2, <1>3, <1>4 DEF BackupIInv

-----------------------------------------------------------------------------
(* Clients *)

LEMMA WriteRecordKeeps ==
  ASSUME BackupIInv, NEW w, WriteRecord(w)
  PROVE  BackupIInv'
<1>1. DOMAIN target' = DOMAIN target /\ live' = live /\ lock = Nobody
      /\ UNCHANGED <<backups, making, staging, lock, op, snapshot, shared, outcome>>
  BY DEF WriteRecord, historyVars
<1> QED BY <1>1, CollectionStep DEF BackupIInv, Shapes

LEMMA SealCollectionKeeps ==
  ASSUME BackupIInv, SealCollection
  PROVE  BackupIInv'
<1>1. DOMAIN target' = DOMAIN target /\ live' = live /\ lock = Nobody
      /\ UNCHANGED <<backups, making, staging, lock, op, snapshot, shared, outcome>>
  BY DEF SealCollection, historyVars
<1> QED BY <1>1, CollectionStep DEF BackupIInv, Shapes

LEMMA DeleteCollectionKeeps ==
  ASSUME BackupIInv, DeleteCollection
  PROVE  BackupIInv'
<1>1. DOMAIN target' = {} /\ live' = FALSE /\ lock = Nobody
      /\ UNCHANGED <<backups, making, staging, lock, op, snapshot, shared, outcome>>
  BY NamesDistinct DEF DeleteCollection, historyVars
<1> QED BY <1>1, CollectionStep

-----------------------------------------------------------------------------
(* Create *)

\* Operator o and its directories have their shapes after its step.
LEMMA ShapesKept ==
  ASSUME Shapes, NEW o \in Operators, OthersStay(o), DOMAIN op'[o] = {"pc", "id", "todo", "seen"},
         op'[o].pc \in OperatorPcs, op'[o].id \in Ids,
         DOMAIN backups' = Ids, DOMAIN making' = Ids, DOMAIN staging' = Ids, DOMAIN snapshot' = Ids,
         \A i \in Ids : /\ DOMAIN backups'[i] \subseteq Names
                        /\ DOMAIN making'[i] \subseteq Names
                        /\ DOMAIN staging'[i] \subseteq Names,
         DOMAIN target' \subseteq Files, live' \in BOOLEAN, live' => DOMAIN target' = Files,
         lock' \in Operators \cup {Nobody}
  PROVE  Shapes'
BY DEF Shapes, OthersStay

\* The holder of the lock after a step of o.
LEMMA LockKept ==
  ASSUME LockHeld, NEW o \in Operators, OthersStay(o),
         \/ lock' = lock /\ (op'[o].pc \in {"copy", "recover"} <=> op[o].pc \in {"copy", "recover"})
         \/ lock = Nobody /\ lock' = o /\ op'[o].pc \in {"copy", "recover"}
         \/ lock = o /\ lock' = Nobody /\ op'[o].pc \notin {"copy", "recover"}
  PROVE  LockHeld'
BY NamesDistinct DEF LockHeld, OthersStay

\* What a step of o finds.
LEMMA OperatorFact ==
  ASSUME BackupIInv, NEW o \in Operators
  PROVE  /\ Shapes /\ LockHeld /\ Alone /\ CreateState(o) /\ RestoreState(o)
         /\ op[o].id \in Ids /\ DOMAIN op[o] = {"pc", "id", "todo", "seen"} /\ DOMAIN op = Operators
         /\ DOMAIN backups = Ids /\ DOMAIN making = Ids /\ DOMAIN staging = Ids
         /\ DOMAIN snapshot = Ids /\ DOMAIN target \subseteq Files /\ live \in BOOLEAN
         /\ live => DOMAIN target = Files
         /\ lock \in Operators \cup {Nobody}
         /\ \A i \in Ids : /\ DOMAIN backups[i] \subseteq Names
                           /\ DOMAIN making[i] \subseteq Names
                           /\ DOMAIN staging[i] \subseteq Names
BY DEF BackupIInv, Shapes

LEMMA CreateBeginKeeps ==
  ASSUME BackupIInv, NEW o \in Operators, NEW now \in Ids, CreateBegin(o, now)
  PROVE  BackupIInv'
<1>1. /\ op[o].pc = "idle"
      /\ op' = [op EXCEPT ![o] = [IdleOperator EXCEPT !.pc = "lock", !.id = now]]
      /\ making' = [making EXCEPT ![now] = NoDir] /\ shared' = Sharing(o, now, CreatePcs \cup {"lock"})
      /\ UNCHANGED <<live, target, backups, staging, lock, snapshot, outcome>>
  BY DEF CreateBegin
<1>2. /\ OthersStay(o) /\ DOMAIN op'[o] = {"pc", "id", "todo", "seen"}
      /\ op'[o].pc = "lock" /\ op'[o].id = now
  BY <1>1, OperatorFact DEF OthersStay, IdleOperator
<1>3. /\ DOMAIN making' = Ids /\ making'[now] = NoDir /\ \A i \in Ids \ {now} : making'[i] = making[i]
  BY <1>1, OperatorFact
<1>4. Shapes'
  BY <1>1, <1>2, <1>3, OperatorFact, ShapesKept, PcsDistinct, NamesDistinct
<1>5. LockHeld'
  BY <1>1, <1>2, OperatorFact, LockKept
<1>6. Alone' /\ shared \subseteq shared'
  <2>1. shared' = Sharing(o, op'[o].id, MakingPcs)
    BY <1>1, <1>2 DEF MakingPcs
  <2> QED BY <1>1, <1>2, <2>1, OperatorFact, AloneBegins, PcsDistinct
<1>7. CreateState(o)' /\ RestoreState(o)'
  BY <1>2, <1>3, NamesDistinct, PcsDistinct DEF CreateState, RestoreState
<1> QED BY <1>1, <1>2, <1>3, <1>4, <1>5, <1>6, <1>7, OperatorStep, PcsDistinct

LEMMA CreateLockKeeps ==
  ASSUME BackupIInv, NEW o \in Operators, CreateLock(o)
  PROVE  BackupIInv'
<1>1. /\ op[o].pc = "lock" /\ lock = Nobody
      /\ UNCHANGED <<live, target, backups, making, staging, snapshot, shared, outcome>>
  BY DEF CreateLock, diskVars, historyVars
<1>2. CASE live
  <2>1. /\ lock' = o
        /\ op' = [op EXCEPT ![o].pc = "copy", ![o].todo = DOMAIN target, ![o].seen = Content(target)]
    BY <1>2 DEF CreateLock
  <2>2. /\ OthersStay(o) /\ DOMAIN op'[o] = {"pc", "id", "todo", "seen"} /\ op'[o].pc = "copy"
        /\ op'[o].id = op[o].id /\ op'[o].todo = DOMAIN target /\ op'[o].seen = Content(target)
    BY <2>1, OperatorFact DEF OthersStay
  <2>3. Shapes' /\ LockHeld'
    BY <1>1, <2>1, <2>2, OperatorFact, ShapesKept, LockKept, PcsDistinct
  <2>4. Alone'
    BY <1>1, <2>2, OperatorFact, AloneKept, PcsDistinct DEF SameCall
  <2>5. CreateState(o)'
    BY <1>1, <2>2, OperatorFact DEF CreateState
  <2>6. RestoreState(o)'
    BY <2>2, PcsDistinct DEF RestoreState
  <2> QED BY <1>1, <2>2, <2>3, <2>4, <2>5, <2>6, OperatorStep
<1>3. CASE ~live
  <2>1. OperatorTo(o, "idle") /\ lock' = lock
    BY <1>3 DEF CreateLock
  <2>2. /\ OthersStay(o) /\ DOMAIN op'[o] = {"pc", "id", "todo", "seen"}
        /\ op'[o].pc = "idle" /\ op'[o].id = 0
    BY <2>1, OperatorFact, OperatorReturns
  <2>3. Shapes' /\ LockHeld'
    BY <1>1, <2>1, <2>2, OperatorFact, ShapesKept, LockKept, PcsDistinct, NamesDistinct
  <2>4. Alone'
    BY <1>1, <2>2, OperatorFact, AloneKept DEF SameCall
  <2> QED BY <1>1, <2>2, <2>3, <2>4, IdleKnows, OperatorStep
<1> QED BY <1>2, <1>3

LEMMA CreateCopyKeeps ==
  ASSUME BackupIInv, NEW o \in Operators, CreateCopy(o)
  PROVE  BackupIInv'
<1> DEFINE id == op[o].id
<1>1. /\ op[o].pc = "copy"
      /\ UNCHANGED <<live, target, backups, staging, snapshot, shared, outcome>>
  BY DEF CreateCopy, historyVars
<1>2. lock = o /\ op[o].todo \subseteq DOMAIN target
  BY <1>1, OperatorFact DEF LockHeld, CreateState
<1>3. CASE op[o].todo = {}
  <2>1. OperatorTo(o, "verify") /\ lock' = Nobody /\ making' = making
    BY <1>3 DEF CreateCopy
  <2>2. /\ OthersStay(o) /\ DOMAIN op'[o] = {"pc", "id", "todo", "seen"} /\ op'[o].pc = "verify"
        /\ op'[o].id = op[o].id /\ op'[o].todo = op[o].todo /\ op'[o].seen = op[o].seen
    BY <2>1, OperatorFact, OperatorMoves, PcsDistinct
  <2>3. Shapes' /\ LockHeld'
    BY <1>1, <1>2, <2>1, <2>2, OperatorFact, ShapesKept, LockKept, PcsDistinct
  <2>4. Alone'
    BY <1>1, <2>2, OperatorFact, AloneKept, PcsDistinct DEF SameCall
  <2>5. CreateState(o)'
    <3>1. id \notin shared => /\ DOMAIN making[id] = DOMAIN target
                              /\ \A f \in DOMAIN making[id] : making[id][f] = target[f]
                              /\ op[o].seen = Content(target)
      BY <1>1, <1>3, OperatorFact DEF CreateState
    <3>2. id \notin shared => DOMAIN making[id] \subseteq Files /\ Content(making[id]) = op[o].seen
      BY <3>1, OperatorFact DEF Content
    <3> QED BY <1>1, <2>1, <2>2, <3>2 DEF CreateState
  <2>6. RestoreState(o)'
    BY <2>2, PcsDistinct DEF RestoreState
  <2> QED BY <1>1, <2>1, <2>2, <2>3, <2>4, <2>5, <2>6, OperatorStep
<1>4. CASE op[o].todo # {}
  <2>1. PICK f \in op[o].todo :
          /\ making' = [making EXCEPT ![id] = Put(@, f, target[f])]
          /\ op' = [op EXCEPT ![o].todo = @ \ {f}]
          /\ lock' = lock
    BY <1>4 DEF CreateCopy
  <2>2. /\ OthersStay(o) /\ DOMAIN op'[o] = {"pc", "id", "todo", "seen"} /\ op'[o].pc = "copy"
        /\ op'[o].id = id /\ op'[o].todo = op[o].todo \ {f} /\ op'[o].seen = op[o].seen
    BY <1>1, <2>1, OperatorFact DEF OthersStay
  <2>3. /\ id \in Ids /\ DOMAIN making' = Ids /\ making'[id] = Put(making[id], f, target[f])
        /\ \A i \in Ids \ {id} : making'[i] = making[i]
    BY <2>1, OperatorFact
  <2> HIDE DEF id
  <2>4. /\ DOMAIN making'[id] = DOMAIN making[id] \cup {f} /\ making'[id][f] = target[f]
        /\ \A g \in DOMAIN making[id] : g # f => making'[id][g] = making[id][g]
    BY <2>3 DEF Put
  <2>5. f \in DOMAIN target /\ f \in Names
    BY <1>2, <2>1, OperatorFact DEF Names
  <2>6. Shapes' /\ LockHeld'
    <3>1. \A i \in Ids : DOMAIN making'[i] \subseteq Names
      BY <2>3, <2>4, <2>5, OperatorFact
    <3> QED BY <1>1, <2>1, <2>2, <2>3, <3>1, OperatorFact, ShapesKept, LockKept, PcsDistinct
  <2>7. Alone'
    BY <1>1, <2>2, OperatorFact, AloneKept, PcsDistinct DEF SameCall, id
  <2>8. CreateState(o)'
    <3>1. op'[o].todo \subseteq DOMAIN target'
      BY <1>1, <1>2, <2>2
    <3>2. id \notin shared => /\ DOMAIN making[id] = DOMAIN target \ op[o].todo
                              /\ \A g \in DOMAIN making[id] : making[id][g] = target[g]
                              /\ op[o].seen = Content(target)
      BY <1>1, OperatorFact DEF CreateState, id
    <3>3. id \notin shared => /\ DOMAIN making'[id] = DOMAIN target' \ op'[o].todo
                              /\ \A g \in DOMAIN making'[id] : making'[id][g] = target'[g]
                              /\ op'[o].seen = Content(target)
      BY <1>1, <2>1, <2>2, <2>4, <2>5, <3>2
    <3>4. Content(target') = Content(target)
      BY <1>1
    <3> QED BY <1>1, <2>2, <3>1, <3>3, <3>4 DEF CreateState
  <2>9. RestoreState(o)'
    BY <2>2, PcsDistinct DEF RestoreState
  <2> QED BY <1>1, <2>2, <2>3, <2>6, <2>7, <2>8, <2>9, OperatorStep, PcsDistinct DEF id
<1> QED BY <1>3, <1>4

LEMMA CreateVerifyKeeps ==
  ASSUME BackupIInv, NEW o \in Operators, CreateVerify(o)
  PROVE  BackupIInv'
<1> DEFINE id == op[o].id
<1>1. /\ op[o].pc = "verify"
      /\ UNCHANGED <<live, target, backups, staging, lock, snapshot, shared, outcome>>
  BY DEF CreateVerify, historyVars
<1>2. CASE Sound(making[id])
  <2>1. OperatorTo(o, "inventory") /\ making' = making
    BY <1>2 DEF CreateVerify
  <2>2. /\ OthersStay(o) /\ DOMAIN op'[o] = {"pc", "id", "todo", "seen"} /\ op'[o].pc = "inventory"
        /\ op'[o].id = op[o].id /\ op'[o].todo = op[o].todo /\ op'[o].seen = op[o].seen
    BY <2>1, OperatorFact, OperatorMoves, PcsDistinct
  <2>3. Shapes' /\ LockHeld'
    BY <1>1, <2>1, <2>2, OperatorFact, ShapesKept, LockKept, PcsDistinct
  <2>4. Alone'
    BY <1>1, <2>2, OperatorFact, AloneKept, PcsDistinct DEF SameCall
  <2>5. CreateState(o)'
    BY <1>1, <2>1, <2>2, OperatorFact DEF CreateState
  <2>6. RestoreState(o)'
    BY <2>2, PcsDistinct DEF RestoreState
  <2> QED BY <1>1, <2>1, <2>2, <2>3, <2>4, <2>5, <2>6, OperatorStep
<1>3. CASE ~Sound(making[id])
  <2>1. OperatorTo(o, "idle") /\ making' = [making EXCEPT ![id] = NoDir]
    BY <1>3 DEF CreateVerify
  <2>2. /\ OthersStay(o) /\ DOMAIN op'[o] = {"pc", "id", "todo", "seen"}
        /\ op'[o].pc = "idle" /\ op'[o].id = 0
    BY <2>1, OperatorFact, OperatorReturns
  <2>3. /\ id \in Ids /\ DOMAIN making' = Ids /\ making'[id] = NoDir
        /\ \A i \in Ids \ {id} : making'[i] = making[i]
    BY <2>1, OperatorFact
  <2> HIDE DEF id
  <2>4. Shapes' /\ LockHeld'
    BY <1>1, <2>2, <2>3, OperatorFact, ShapesKept, LockKept, PcsDistinct, NamesDistinct
  <2>5. Alone'
    BY <1>1, <2>2, OperatorFact, AloneKept DEF SameCall
  <2> QED BY <1>1, <2>2, <2>3, <2>4, <2>5, IdleKnows, OperatorStep, PcsDistinct DEF id
<1> QED BY <1>2, <1>3

LEMMA CreateInventoryKeeps ==
  ASSUME BackupIInv, NEW o \in Operators, CreateInventory(o)
  PROVE  BackupIInv'
<1> DEFINE id == op[o].id
<1>1. /\ op[o].pc = "inventory" /\ OperatorTo(o, "publish")
      /\ making' = [making EXCEPT ![id] = Put(@, Manifest, @)]
      /\ UNCHANGED <<live, target, backups, staging, lock, snapshot, shared, outcome>>
  BY DEF CreateInventory, historyVars
<1>2. /\ OthersStay(o) /\ DOMAIN op'[o] = {"pc", "id", "todo", "seen"} /\ op'[o].pc = "publish"
      /\ op'[o].id = op[o].id /\ op'[o].seen = op[o].seen
  BY <1>1, OperatorFact, OperatorMoves, PcsDistinct
<1>3. /\ id \in Ids /\ DOMAIN making' = Ids /\ making'[id] = Put(making[id], Manifest, making[id])
      /\ \A i \in Ids \ {id} : making'[i] = making[i]
  BY <1>1, OperatorFact
<1>4. /\ DOMAIN making'[id] = DOMAIN making[id] \cup {Manifest} /\ making'[id][Manifest] = making[id]
  BY <1>3 DEF Put
<1>5. Shapes' /\ LockHeld'
  <2>1. \A i \in Ids : DOMAIN making'[i] \subseteq Names
    BY <1>3, <1>4, OperatorFact DEF Names
  <2> QED BY <1>1, <1>2, <1>3, <2>1, OperatorFact, ShapesKept, LockKept, PcsDistinct
<1>6. Alone'
  BY <1>1, <1>2, OperatorFact, AloneKept, PcsDistinct DEF SameCall
<1>7. id \notin shared => Total(making[id]) = op[o].seen
  <2>1. id \notin shared => DOMAIN making[id] \subseteq Files /\ Content(making[id]) = op[o].seen
    BY <1>1, OperatorFact DEF CreateState
  <2>2. DOMAIN making[id] \subseteq Files => Content(making[id]) = Total(making[id])
    BY NamesDistinct DEF Content, Total
  <2> QED BY <2>1, <2>2
<1>8. CreateState(o)'
  BY <1>1, <1>2, <1>4, <1>7 DEF CreateState
<1>9. RestoreState(o)'
  BY <1>2, PcsDistinct DEF RestoreState
<1> HIDE DEF id
<1> QED BY <1>1, <1>2, <1>3, <1>5, <1>6, <1>8, <1>9, OperatorStep, PcsDistinct DEF id

LEMMA CreatePublishKeeps ==
  ASSUME BackupIInv, NEW o \in Operators, CreatePublish(o)
  PROVE  BackupIInv'
<1> DEFINE id == op[o].id
<1>1. /\ op[o].pc = "publish" /\ OperatorTo(o, "idle")
      /\ UNCHANGED <<live, target, staging, lock, shared, outcome>>
  BY DEF CreatePublish
<1>2. /\ OthersStay(o) /\ DOMAIN op'[o] = {"pc", "id", "todo", "seen"}
      /\ op'[o].pc = "idle" /\ op'[o].id = 0
  BY <1>1, OperatorFact, OperatorReturns
<1>3. LockHeld' /\ Alone'
  BY <1>1, <1>2, OperatorFact, LockKept, AloneKept DEF SameCall
<1>4. CASE backups[id] = NoDir /\ making[id] # NoDir
  <2>1. /\ backups' = [backups EXCEPT ![id] = making[id]]
        /\ making' = [making EXCEPT ![id] = NoDir]
        /\ snapshot' = [snapshot EXCEPT ![id] = op[o].seen]
    BY <1>4 DEF CreatePublish
  <2>2. /\ id \in Ids /\ DOMAIN backups' = Ids /\ DOMAIN making' = Ids /\ DOMAIN snapshot' = Ids
        /\ backups'[id] = making[id] /\ making'[id] = NoDir /\ snapshot'[id] = op[o].seen
        /\ \A i \in Ids \ {id} : /\ making'[i] = making[i] /\ backups'[i] = backups[i]
                                 /\ snapshot'[i] = snapshot[i]
    BY <2>1, OperatorFact
  <2>3. id \notin shared => Manifest \in DOMAIN making[id] /\ Total(making[id][Manifest]) = op[o].seen
    BY <1>1, OperatorFact DEF CreateState
  <2> HIDE DEF id
  <2>4. ASSUME NEW i \in Ids, i = id PROVE DOMAIN backups[i] = {} /\ BackupKept(i)'
    BY <1>1, <1>4, <2>2, <2>3, <2>4, NamesDistinct DEF BackupKept
  <2>5. Shapes'
    <3>1. \A i \in Ids : DOMAIN making'[i] \subseteq Names /\ DOMAIN backups'[i] \subseteq Names
      BY <2>2, OperatorFact, NamesDistinct
    <3> QED BY <1>1, <1>2, <2>2, <3>1, OperatorFact, ShapesKept, PcsDistinct, NamesDistinct
  <2> QED BY <1>1, <1>2, <1>3, <2>2, <2>4, <2>5, IdleKnows, OperatorStep, PcsDistinct DEF id
<1>5. CASE ~(backups[id] = NoDir /\ making[id] # NoDir)
  <2>1. UNCHANGED <<backups, making, snapshot>>
    BY <1>5 DEF CreatePublish
  <2>2. Shapes'
    BY <1>1, <1>2, <2>1, OperatorFact, ShapesKept, PcsDistinct, NamesDistinct
  <2> QED BY <1>1, <1>2, <1>3, <2>1, <2>2, IdleKnows, OperatorStep
<1> QED BY <1>4, <1>5

-----------------------------------------------------------------------------
(* Restore *)

LEMMA RestoreBeginKeeps ==
  ASSUME BackupIInv, NEW o \in Operators, NEW id \in Ids, RestoreBegin(o, id)
  PROVE  BackupIInv'
<1>1. /\ op[o].pc = "idle" /\ Manifest \in DOMAIN backups[id]
      /\ op' = [op EXCEPT ![o] = [IdleOperator EXCEPT !.pc = "materialize", !.id = id,
                                                     !.todo = DOMAIN backups[id]]]
      /\ staging' = [staging EXCEPT ![id] = NoDir] /\ shared' = Sharing(o, id, RestorePcs)
      /\ UNCHANGED <<live, target, backups, making, lock, snapshot, outcome>>
  BY DEF RestoreBegin
<1>2. /\ OthersStay(o) /\ DOMAIN op'[o] = {"pc", "id", "todo", "seen"}
      /\ op'[o].pc = "materialize" /\ op'[o].id = id /\ op'[o].todo = DOMAIN backups[id]
  BY <1>1, OperatorFact DEF OthersStay, IdleOperator
<1>3. /\ DOMAIN staging' = Ids /\ staging'[id] = NoDir /\ \A i \in Ids \ {id} : staging'[i] = staging[i]
  BY <1>1, OperatorFact
<1>4. Shapes'
  BY <1>1, <1>2, <1>3, OperatorFact, ShapesKept, PcsDistinct, NamesDistinct
<1>5. LockHeld'
  BY <1>1, <1>2, OperatorFact, LockKept
<1>6. Alone' /\ shared \subseteq shared'
  BY <1>1, <1>2, OperatorFact, AloneBegins, PcsDistinct
<1>7. CreateState(o)'
  BY <1>2, PcsDistinct DEF CreateState
<1>8. RestoreState(o)'
  BY <1>1, <1>2, <1>3, NamesDistinct, PcsDistinct DEF RestoreState
<1> QED BY <1>1, <1>2, <1>3, <1>4, <1>5, <1>6, <1>7, <1>8, OperatorStep, PcsDistinct

LEMMA RestoreMaterializeKeeps ==
  ASSUME BackupIInv, NEW o \in Operators, RestoreMaterialize(o)
  PROVE  BackupIInv'
<1> DEFINE id == op[o].id
<1>1. /\ op[o].pc = "materialize"
      /\ UNCHANGED <<live, target, backups, making, lock, snapshot, shared, outcome>>
  BY DEF RestoreMaterialize, historyVars
<1>2. /\ id \in Ids /\ Manifest \in DOMAIN backups[id] /\ op[o].todo \subseteq DOMAIN backups[id]
      /\ id \notin shared /\ Manifest \in DOMAIN staging[id] =>
           staging[id][Manifest] = backups[id][Manifest]
  BY <1>1, OperatorFact, PcsDistinct DEF RestoreState
<1>3. CASE op[o].todo = {}
  <2>1. OperatorTo(o, "check") /\ staging' = staging
    BY <1>3 DEF RestoreMaterialize
  <2>2. /\ OthersStay(o) /\ DOMAIN op'[o] = {"pc", "id", "todo", "seen"} /\ op'[o].pc = "check"
        /\ op'[o].id = id
    BY <2>1, OperatorFact, OperatorMoves, PcsDistinct
  <2>3. Shapes' /\ LockHeld'
    BY <1>1, <2>1, <2>2, OperatorFact, ShapesKept, LockKept, PcsDistinct
  <2>4. Alone'
    BY <1>1, <2>2, OperatorFact, AloneKept, PcsDistinct DEF SameCall
  <2>5. CreateState(o)'
    BY <2>2, PcsDistinct DEF CreateState
  <2>6. RestoreState(o)'
    BY <1>1, <1>2, <2>1, <2>2, PcsDistinct DEF RestoreState
  <2> QED BY <1>1, <2>1, <2>2, <2>3, <2>4, <2>5, <2>6, OperatorStep
<1>4. CASE op[o].todo # {}
  <2>1. PICK f \in op[o].todo :
          /\ staging' = [staging EXCEPT ![id] = Put(@, f, backups[id][f])]
          /\ op' = [op EXCEPT ![o].todo = @ \ {f}]
    BY <1>4 DEF RestoreMaterialize
  <2>2. /\ OthersStay(o) /\ DOMAIN op'[o] = {"pc", "id", "todo", "seen"} /\ op'[o].pc = "materialize"
        /\ op'[o].id = id /\ op'[o].todo = op[o].todo \ {f}
    BY <1>1, <2>1, OperatorFact DEF OthersStay
  <2>3. /\ DOMAIN staging' = Ids /\ staging'[id] = Put(staging[id], f, backups[id][f])
        /\ \A i \in Ids \ {id} : staging'[i] = staging[i]
    BY <1>2, <2>1, OperatorFact
  <2> HIDE DEF id
  <2>4. /\ DOMAIN staging'[id] = DOMAIN staging[id] \cup {f} /\ staging'[id][f] = backups[id][f]
        /\ \A g \in DOMAIN staging[id] : g # f => staging'[id][g] = staging[id][g]
    BY <2>3 DEF Put
  <2>5. f \in Names
    BY <1>2, <2>1, OperatorFact
  <2>6. Shapes' /\ LockHeld'
    <3>1. \A i \in Ids : DOMAIN staging'[i] \subseteq Names
      BY <2>3, <2>4, <2>5, OperatorFact
    <3> QED BY <1>1, <1>2, <2>2, <2>3, <3>1, OperatorFact, ShapesKept, LockKept, PcsDistinct
  <2>7. Alone'
    BY <1>1, <2>2, OperatorFact, AloneKept, PcsDistinct DEF SameCall, id
  <2>8. CreateState(o)'
    BY <2>2, PcsDistinct DEF CreateState
  <2>9. RestoreState(o)'
    <3>1. id \notin shared /\ Manifest \in DOMAIN staging'[id] =>
            staging'[id][Manifest] = backups[id][Manifest]
      BY <1>2, <2>4
    <3> QED BY <1>1, <1>2, <2>2, <3>1, PcsDistinct DEF RestoreState
  <2> QED BY <1>1, <1>2, <2>2, <2>3, <2>6, <2>7, <2>8, <2>9, OperatorStep, PcsDistinct DEF id
<1> QED BY <1>3, <1>4

\* A restore that gives up removes its staging directory.
LEMMA RestoreStopKeeps ==
  ASSUME BackupIInv, NEW o \in Operators, RestoreStop(o), op[o].pc \in RestorePcs \ {"recover"},
         UNCHANGED <<live, target, backups, making, lock, snapshot, shared, outcome>>
  PROVE  BackupIInv'
<1> DEFINE id == op[o].id
<1>1. OperatorTo(o, "idle") /\ staging' = [staging EXCEPT ![id] = NoDir]
  BY DEF RestoreStop
<1>2. /\ OthersStay(o) /\ DOMAIN op'[o] = {"pc", "id", "todo", "seen"}
      /\ op'[o].pc = "idle" /\ op'[o].id = 0
  BY <1>1, OperatorFact, OperatorReturns
<1>3. /\ id \in Ids /\ DOMAIN staging' = Ids /\ staging'[id] = NoDir
      /\ \A i \in Ids \ {id} : staging'[i] = staging[i]
  BY <1>1, OperatorFact
<1> HIDE DEF id
<1>4. Shapes' /\ LockHeld'
  BY <1>2, <1>3, OperatorFact, ShapesKept, LockKept, PcsDistinct, NamesDistinct
<1>5. Alone'
  BY <1>2, OperatorFact, AloneKept DEF SameCall
<1> QED BY <1>2, <1>3, <1>4, <1>5, IdleKnows, OperatorStep DEF id

\* A restore goes on with the directory it has.
LEMMA RestoreMovesOn ==
  ASSUME BackupIInv, NEW o \in Operators, NEW pc \in {"integrity", "gate"}, OperatorTo(o, pc),
         op[o].pc \in {"check", "integrity"},
         op[o].id \notin shared => Content(staging[op[o].id]) = snapshot[op[o].id],
         UNCHANGED <<live, target, backups, making, staging, lock, snapshot, shared, outcome>>
  PROVE  BackupIInv'
<1>1. /\ OthersStay(o) /\ DOMAIN op'[o] = {"pc", "id", "todo", "seen"} /\ op'[o].pc = pc
      /\ op'[o].id = op[o].id
  BY OperatorFact, OperatorMoves, PcsDistinct
<1>2. Shapes' /\ LockHeld'
  BY <1>1, OperatorFact, ShapesKept, LockKept, PcsDistinct
<1>3. Alone'
  BY <1>1, OperatorFact, AloneKept, PcsDistinct DEF SameCall
<1>4. CreateState(o)'
  BY <1>1, PcsDistinct DEF CreateState
<1>5. RestoreState(o)'
  BY <1>1, OperatorFact, PcsDistinct DEF RestoreState
<1> QED BY <1>1, <1>2, <1>3, <1>4, <1>5, OperatorStep

\* The inventory matches: the staged files hold what the manifest lists, and that is the snapshot.
LEMMA RestoreCheckKeeps ==
  ASSUME BackupIInv, NEW o \in Operators, RestoreCheck(o)
  PROVE  BackupIInv'
<1> DEFINE id == op[o].id
           dir == staging[id]
<1>1. /\ op[o].pc = "check"
      /\ UNCHANGED <<live, target, backups, making, lock, snapshot, shared, outcome>>
  BY DEF RestoreCheck, historyVars
<1>2. CASE InventoryMatches(dir)
  <2>1. OperatorTo(o, "integrity") /\ staging' = staging
    BY <1>2 DEF RestoreCheck
  <2>2. ASSUME id \notin shared PROVE Content(dir) = snapshot[id]
    <3>1. /\ id \in Ids /\ Manifest \in DOMAIN backups[id] /\ Manifest \in DOMAIN dir
          /\ dir[Manifest] = backups[id][Manifest]
      BY <1>1, <1>2, <2>2, OperatorFact, PcsDistinct DEF RestoreState, InventoryMatches
    <3>2. Total(dir[Manifest]) = snapshot[id]
      BY <2>2, <3>1 DEF BackupIInv, BackupKept
    <3>3. dir[Manifest] = [f \in DOMAIN dir \ {Manifest} |-> dir[f]]
      BY <1>2 DEF InventoryMatches, Restrict
    <3>4. Content(dir) = Total(dir[Manifest])
      <4> HIDE DEF dir
      <4> QED BY <3>3 DEF Content, Total
    <3> QED BY <3>2, <3>4
  <2> QED BY <1>1, <2>1, <2>2, RestoreMovesOn
<1>3. CASE ~InventoryMatches(dir)
  <2>1. RestoreStop(o)
    BY <1>3 DEF RestoreCheck
  <2> QED BY <1>1, <2>1, RestoreStopKeeps, PcsDistinct
<1> QED BY <1>2, <1>3

LEMMA RestoreIntegrityKeeps ==
  ASSUME BackupIInv, NEW o \in Operators, RestoreIntegrity(o)
  PROVE  BackupIInv'
<1>1. /\ op[o].pc = "integrity"
      /\ (OperatorTo(o, "gate") /\ staging' = staging) \/ RestoreStop(o)
      /\ UNCHANGED <<live, target, backups, making, lock, snapshot, shared, outcome>>
  BY DEF RestoreIntegrity, historyVars
<1>2. op[o].id \notin shared => Content(staging[op[o].id]) = snapshot[op[o].id]
  BY <1>1, OperatorFact DEF RestoreState
<1> QED BY <1>1, <1>2, RestoreMovesOn, RestoreStopKeeps, PcsDistinct

\* The staged files become the collection's.
LEMMA RestoreGateKeeps ==
  ASSUME BackupIInv, NEW o \in Operators, RestoreGate(o)
  PROVE  BackupIInv'
<1> DEFINE id == op[o].id
           dir == staging[id]
           files == DOMAIN dir \ {Manifest}
<1>1. /\ op[o].pc = "gate" /\ lock = Nobody
      /\ UNCHANGED <<live, backups, making, snapshot, shared, outcome>>
  BY DEF RestoreGate, historyVars
<1>2. CASE TargetFree /\ files # {}
  <2>1. /\ lock' = o /\ OperatorTo(o, "recover") /\ target' = Restrict(dir, files) /\ ~live
        /\ staging' = [staging EXCEPT ![id] = Restrict(dir, DOMAIN dir \cap {Manifest})]
    BY <1>2 DEF RestoreGate, TargetFree
  <2>2. /\ OthersStay(o) /\ DOMAIN op'[o] = {"pc", "id", "todo", "seen"} /\ op'[o].pc = "recover"
        /\ op'[o].id = id
    BY <2>1, OperatorFact, OperatorMoves, PcsDistinct
  <2>3. /\ id \in Ids /\ DOMAIN staging' = Ids
        /\ staging'[id] = Restrict(dir, DOMAIN dir \cap {Manifest})
        /\ \A i \in Ids \ {id} : staging'[i] = staging[i]
    BY <2>1, OperatorFact
  <2>4. DOMAIN staging'[id] \subseteq Names /\ DOMAIN target' \subseteq Files
    BY <2>1, <2>3, OperatorFact DEF Restrict, Names
  <2>5. id \notin shared => Content(dir) = snapshot[id]
    BY <1>1, OperatorFact DEF RestoreState
  <2>6. Content(target') = Content(dir)
    <3>1. target' = [f \in DOMAIN dir \ {Manifest} |-> dir[f]]
      BY <2>1 DEF Restrict
    <3> HIDE DEF dir
    <3> QED BY <3>1 DEF Content
  <2> HIDE DEF dir, id
  <2>7. Shapes' /\ LockHeld'
    <3>1. \A i \in Ids : DOMAIN staging'[i] \subseteq Names
      BY <2>3, <2>4, OperatorFact
    <3> QED BY <1>1, <2>1, <2>2, <2>3, <2>4, <3>1, OperatorFact, ShapesKept, LockKept, PcsDistinct
  <2>8. Alone'
    BY <1>1, <2>2, OperatorFact, AloneKept, PcsDistinct DEF SameCall, id
  <2>9. CreateState(o)'
    BY <2>2, PcsDistinct DEF CreateState
  <2>10. RestoreState(o)'
    <3>1. Manifest \in DOMAIN backups[id]
      BY <1>1, OperatorFact, PcsDistinct DEF RestoreState, id
    <3> QED BY <1>1, <2>1, <2>2, <2>5, <2>6, <3>1, PcsDistinct DEF RestoreState
  <2> QED BY <1>1, <2>2, <2>3, <2>7, <2>8, <2>9, <2>10, OperatorStep, PcsDistinct DEF id
<1>3. CASE ~(TargetFree /\ files # {})
  <2>1. RestoreStop(o) /\ UNCHANGED <<lock, target>>
    BY <1>3 DEF RestoreGate
  <2> QED BY <1>1, <2>1, RestoreStopKeeps, PcsDistinct
<1> QED BY <1>2, <1>3

LEMMA RestoreRecoverKeeps ==
  ASSUME BackupIInv, NEW o \in Operators, RestoreRecover(o)
  PROVE  BackupIInv'
<1> DEFINE id == op[o].id
<1>1. /\ op[o].pc = "recover" /\ lock' = Nobody /\ RestoreStop(o)
      /\ UNCHANGED <<backups, making, snapshot, shared>>
      /\ \/ /\ live' = TRUE /\ target' = Opened(target)
            /\ outcome' = [id |-> id, content |-> Content(target), any |-> TRUE]
         \/ target' = NoDir /\ UNCHANGED <<live, outcome>>
  BY DEF RestoreRecover
<1>2. OperatorTo(o, "idle") /\ staging' = [staging EXCEPT ![id] = NoDir]
  BY <1>1 DEF RestoreStop
<1>3. /\ OthersStay(o) /\ DOMAIN op'[o] = {"pc", "id", "todo", "seen"}
      /\ op'[o].pc = "idle" /\ op'[o].id = 0
  BY <1>2, OperatorFact, OperatorReturns
<1>4. /\ id \in Ids /\ DOMAIN staging' = Ids /\ staging'[id] = NoDir
      /\ \A i \in Ids \ {id} : staging'[i] = staging[i]
  BY <1>2, OperatorFact
<1>5. /\ lock = o /\ ~live /\ Manifest \in DOMAIN backups[id]
      /\ id \notin shared => Content(target) = snapshot[id]
  BY <1>1, OperatorFact, PcsDistinct DEF LockHeld, RestoreState
<1> HIDE DEF id
<1>6. /\ DOMAIN target' \subseteq Files /\ (live' => DOMAIN target' = Files) /\ live' \in BOOLEAN
  <2>1. CASE live' = TRUE /\ target' = Opened(target)
    BY <2>1 DEF Opened
  <2>2. CASE target' = NoDir /\ live' = live
    BY <1>5, <2>2, OperatorFact, NamesDistinct
  <2> QED BY <1>1, <2>1, <2>2
<1>7. Shapes' /\ LockHeld'
  BY <1>1, <1>3, <1>4, <1>5, <1>6, OperatorFact, ShapesKept, LockKept, PcsDistinct, NamesDistinct
<1>8. Alone'
  BY <1>1, <1>3, OperatorFact, AloneKept DEF SameCall
<1>9. outcome' = outcome \/ OutcomeKept'
  BY <1>1, <1>4, <1>5 DEF OutcomeKept
<1> QED BY <1>1, <1>3, <1>4, <1>5, <1>7, <1>8, <1>9, IdleKnows, OperatorStep, PcsDistinct DEF id

-----------------------------------------------------------------------------
(* Faults *)

LEMMA DecayKeeps ==
  ASSUME BackupIInv, NEW id \in Ids, NEW f, NEW content, Decay(id, f, content)
  PROVE  BackupIInv'
<1>1. /\ f \in DOMAIN backups[id] \ {Manifest} /\ backups' = [backups EXCEPT ![id][f] = content]
      /\ UNCHANGED <<live, target, making, staging, lock, op, snapshot, shared, outcome>>
  BY DEF Decay
<1>2. Shapes
  BY DEF BackupIInv
<1>3. /\ DOMAIN backups' = Ids
      /\ \A i \in Ids : /\ DOMAIN backups'[i] = DOMAIN backups[i]
                        /\ Manifest \in DOMAIN backups[i] => backups'[i][Manifest] = backups[i][Manifest]
  BY <1>1, <1>2 DEF Shapes
<1>4. Shapes' /\ LockHeld' /\ Alone'
  <2>1. Shapes'
    BY <1>1, <1>2, <1>3 DEF Shapes
  <2> QED BY <1>1, <2>1 DEF BackupIInv, LockHeld, Alone
<1>5. ASSUME NEW x \in Operators PROVE CreateState(x)' /\ RestoreState(x)'
  <2>1. CreateState(x) /\ RestoreState(x) /\ op[x].id \in Ids
    BY DEF BackupIInv, Shapes
  <2> QED BY <1>1, <1>3, <2>1, CreateStays, RestoreStays
<1>6. ASSUME NEW i \in Ids PROVE BackupKept(i)'
  BY <1>1, <1>3 DEF BackupIInv, BackupKept
<1>7. OutcomeKept'
  BY <1>1, <1>3 DEF BackupIInv, OutcomeKept
<1> QED BY <1>4, <1>5, <1>6, <1>7 DEF BackupIInv

LEMMA CrashKeeps ==
  ASSUME BackupIInv, CrashDuringBackup
  PROVE  BackupIInv'
<1>1. /\ live' = (Config \in DOMAIN target)
      /\ target' = IF Config \in DOMAIN target THEN Opened(target) ELSE target
      /\ lock' = Nobody /\ op' = [o \in Operators |-> IdleOperator]
      /\ UNCHANGED <<backups, making, staging, snapshot, shared, outcome>>
  BY DEF CrashDuringBackup, historyVars
<1>2. Shapes
  BY DEF BackupIInv
<1>3. DOMAIN op' = Operators
      /\ \A o \in Operators : /\ DOMAIN op'[o] = {"pc", "id", "todo", "seen"}
                              /\ op'[o].pc = "idle" /\ op'[o].id = 0
  BY <1>1 DEF IdleOperator
<1>4. DOMAIN target' \subseteq Files /\ (live' => DOMAIN target' = Files) /\ live' \in BOOLEAN
  <2>1. CASE Config \in DOMAIN target
    BY <1>1, <2>1 DEF Opened
  <2>2. CASE Config \notin DOMAIN target
    BY <1>1, <1>2, <2>2 DEF Shapes
  <2> QED BY <2>1, <2>2
<1>5. Shapes'
  BY <1>1, <1>2, <1>3, <1>4, PcsDistinct, NamesDistinct DEF Shapes
<1>6. LockHeld' /\ Alone'
  BY <1>1, <1>3, PcsDistinct, NamesDistinct DEF LockHeld, Alone
<1>7. ASSUME NEW x \in Operators PROVE CreateState(x)' /\ RestoreState(x)'
  BY <1>3, IdleKnows
<1>8. ASSUME NEW i \in Ids PROVE BackupKept(i)'
  BY <1>1 DEF BackupIInv, BackupKept
<1>9. OutcomeKept'
  BY <1>1 DEF BackupIInv, OutcomeKept
<1> QED BY <1>5, <1>6, <1>7, <1>8, <1>9 DEF BackupIInv

-----------------------------------------------------------------------------
(* The theorems *)

LEMMA BackupInitKeeps == BackupInit => BackupIInv
<1> SUFFICES ASSUME BackupInit PROVE BackupIInv
  OBVIOUS
<1>1. /\ DOMAIN op = Operators
      /\ \A o \in Operators : /\ DOMAIN op[o] = {"pc", "id", "todo", "seen"}
                              /\ op[o].pc = "idle" /\ op[o].id = 0
  BY DEF BackupInit, IdleOperator
<1>2. /\ DOMAIN backups = Ids /\ DOMAIN making = Ids /\ DOMAIN staging = Ids /\ DOMAIN snapshot = Ids
      /\ \A i \in Ids : backups[i] = NoDir /\ making[i] = NoDir /\ staging[i] = NoDir
      /\ DOMAIN target = Files /\ live = TRUE /\ lock = Nobody /\ outcome.any = FALSE
  BY DEF BackupInit, NoOutcome
<1>3. Shapes /\ LockHeld /\ Alone
  BY <1>1, <1>2, PcsDistinct, NamesDistinct DEF Shapes, LockHeld, Alone
<1>4. ASSUME NEW o \in Operators PROVE CreateState(o) /\ RestoreState(o)
  BY <1>1, PcsDistinct DEF CreateState, RestoreState
<1>5. (\A i \in Ids : BackupKept(i)) /\ OutcomeKept
  BY <1>2, NamesDistinct DEF BackupKept, OutcomeKept
<1> QED BY <1>3, <1>4, <1>5 DEF BackupIInv

LEMMA BackupNextKeeps == BackupIInv /\ [BackupNext]_backupVars => BackupIInv'
<1> SUFFICES ASSUME BackupIInv, [BackupNext]_backupVars PROVE BackupIInv'
  OBVIOUS
<1>1. ASSUME NEW w \in Writes, WriteRecord(w) PROVE BackupIInv'
  BY <1>1, WriteRecordKeeps
<1>2. CASE SealCollection \/ DeleteCollection \/ CrashDuringBackup
  BY <1>2, SealCollectionKeeps, DeleteCollectionKeeps, CrashKeeps
<1>3. ASSUME NEW o \in Operators, \/ CreateLock(o) \/ CreateCopy(o) \/ CreateVerify(o)
                                  \/ CreateInventory(o) \/ CreatePublish(o)
      PROVE  BackupIInv'
  BY <1>3, CreateLockKeeps, CreateCopyKeeps, CreateVerifyKeeps, CreateInventoryKeeps, CreatePublishKeeps
<1>4. ASSUME NEW o \in Operators, NEW id \in Ids, CreateBegin(o, id) \/ RestoreBegin(o, id)
      PROVE  BackupIInv'
  BY <1>4, CreateBeginKeeps, RestoreBeginKeeps
<1>5. ASSUME NEW o \in Operators, \/ RestoreMaterialize(o) \/ RestoreCheck(o) \/ RestoreIntegrity(o)
                                  \/ RestoreGate(o) \/ RestoreRecover(o)
      PROVE  BackupIInv'
  BY <1>5, RestoreMaterializeKeeps, RestoreCheckKeeps, RestoreIntegrityKeeps, RestoreGateKeeps,
     RestoreRecoverKeeps
<1>6. ASSUME NEW id \in Ids, NEW f \in Files, NEW content \in {{Rot}, {}}, Decay(id, f, content)
      PROVE  BackupIInv'
  BY <1>6, DecayKeeps
<1>7. CASE UNCHANGED backupVars
  <2>1. UNCHANGED <<live, target, backups, making, staging, lock, op, snapshot, shared, outcome>>
    BY <1>7 DEF backupVars, diskVars, historyVars
  <2>2. Shapes' /\ LockHeld' /\ Alone'
    BY <2>1 DEF BackupIInv, Shapes, LockHeld, Alone
  <2>3. ASSUME NEW x \in Operators PROVE CreateState(x)' /\ RestoreState(x)'
    BY <2>1, CreateStays, RestoreStays DEF BackupIInv
  <2>4. ASSUME NEW i \in Ids PROVE BackupKept(i)'
    BY <2>1 DEF BackupIInv, BackupKept
  <2>5. OutcomeKept'
    BY <2>1 DEF BackupIInv, OutcomeKept
  <2> QED BY <2>2, <2>3, <2>4, <2>5 DEF BackupIInv
<1> QED BY <1>1, <1>2, <1>3, <1>4, <1>5, <1>6, <1>7 DEF BackupNext

\* Whatever is written, sealed, deleted, damaged and crashed, and however many operators create and
\* restore at once: the catalog lock covers every copy and every publication, and a restore that
\* succeeds brings back what the collection held when create took the lock.
THEOREM RestoresAreSnapshots == BackupSpec => []BackupSound
<1>1. BackupIInv => BackupSound
  <2> SUFFICES ASSUME BackupIInv PROVE BackupSound
    OBVIOUS
  <2>1. BackupTypeOK
    BY DEF BackupIInv, Shapes, LockHeld, BackupTypeOK, Names
  <2>2. RestoredIsSnapshot
    BY DEF BackupIInv, OutcomeKept, RestoredIsSnapshot
  <2> QED BY <2>1, <2>2 DEF BackupSound
<1> QED BY <1>1, BackupInitKeeps, BackupNextKeeps, PTL DEF BackupSpec

\* While the collection is live every step keeps what it holds.
LEMMA LiveStep == BackupIInv /\ [BackupNext]_backupVars => [live /\ live' => Content(target) \subseteq Content(target')]_backupVars
<1> SUFFICES ASSUME BackupIInv, BackupNext, live, live' PROVE Content(target) \subseteq Content(target')
  OBVIOUS
<1>1. DOMAIN target = Files
  BY DEF BackupIInv, Shapes
<1>2. CASE target' = target
  BY <1>2
<1>3. ASSUME NEW w \in Writes, WriteRecord(w) PROVE Content(target) \subseteq Content(target')
  <2>1. target' = [target EXCEPT ![Wal] = @ \cup {w}]
    BY <1>3 DEF WriteRecord
  <2>2. DOMAIN target' = DOMAIN target /\ \A f \in DOMAIN target : target[f] \subseteq target'[f]
    BY <2>1
  <2> QED BY <2>2 DEF Content
<1>4. CASE SealCollection
  <2>1. target' = [target EXCEPT ![Checkpoint] = @ \cup target[Wal], ![Wal] = {}]
    BY <1>4 DEF SealCollection
  <2>2. /\ DOMAIN target' = Files /\ target'[Checkpoint] = target[Checkpoint] \cup target[Wal]
        /\ target'[Config] = target[Config]
    BY <1>1, <2>1, NamesDistinct DEF Config, Checkpoint, Wal
  <2>3. ASSUME NEW v \in Content(target) PROVE v \in Content(target')
    <3>1. PICK f \in Files \ {Manifest} : v \in target[f]
      BY <1>1, <2>3 DEF Content
    <3>2. f \in {Config, Checkpoint, Wal}
      BY <3>1 DEF Files
    <3>3. v \in target'[Config] \/ v \in target'[Checkpoint]
      BY <2>2, <3>1, <3>2
    <3> QED BY <2>2, <3>3, NamesDistinct DEF Content
  <2> QED BY <2>3
<1>5. CASE DeleteCollection
  BY <1>5 DEF DeleteCollection
<1>6. CASE CrashDuringBackup
  <2>1. target' = Opened(target) \/ target' = target
    BY <1>6 DEF CrashDuringBackup
  <2> QED BY <1>1, <2>1, OpenedFact
<1>7. ASSUME NEW o \in Operators, \/ CreateLock(o) \/ CreateCopy(o) \/ CreateVerify(o)
                                  \/ CreateInventory(o) \/ CreatePublish(o)
      PROVE  target' = target
  BY <1>7 DEF CreateLock, CreateCopy, CreateVerify, CreateInventory, CreatePublish, diskVars
<1>8. ASSUME NEW o \in Operators, NEW id \in Ids, CreateBegin(o, id) \/ RestoreBegin(o, id)
      PROVE  target' = target
  BY <1>8 DEF CreateBegin, RestoreBegin
<1>9. ASSUME NEW o \in Operators, RestoreMaterialize(o) \/ RestoreCheck(o) \/ RestoreIntegrity(o)
      PROVE  target' = target
  BY <1>9 DEF RestoreMaterialize, RestoreCheck, RestoreIntegrity
<1>10. ASSUME NEW o \in Operators, RestoreGate(o) PROVE target' = target
  BY <1>10 DEF RestoreGate, TargetFree
<1>11. ASSUME NEW o \in Operators, RestoreRecover(o) PROVE FALSE
  BY <1>11, OperatorFact DEF RestoreRecover, RestoreState
<1>12. ASSUME NEW id \in Ids, NEW f \in Files, NEW content \in {{Rot}, {}}, Decay(id, f, content)
       PROVE  target' = target
  BY <1>12 DEF Decay
<1> QED BY <1>2, <1>3, <1>4, <1>5, <1>6, <1>7, <1>8, <1>9, <1>10, <1>11, <1>12 DEF BackupNext

\* A restore never replaces what a live collection holds, nor does a seal or a crash lose any of it.
THEOREM LiveCollectionsKeepWrites == BackupSpec => LiveWritesKept
BY BackupInitKeeps, BackupNextKeeps, LiveStep, PTL DEF BackupSpec, LiveWritesKept
=============================================================================
