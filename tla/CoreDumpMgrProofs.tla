------------------------- MODULE CoreDumpMgrProofs -------------------------
(***************************************************************************)
(* Theorems about CoreDumpMgr for every value of its constants.            *)
(***************************************************************************)
EXTENDS CoreDumpMgr, TLAPS

-----------------------------------------------------------------------------
(* The step tables.                                                         *)

\* The steps that each table leads to.
LEMMA StepTables ==
  /\ DOMAIN AfterCheckpoint = {"elfDirCp", "coreCp", "elfSecCp", "dqDirCp", "dqCp", "dqSecCp"}
  /\ DOMAIN AfterField = {"notesSize", "crcSupported"}
  /\ DOMAIN AfterHeader = {"elfDir", "elfSec", "dqDir"}
  /\ DOMAIN AfterDq = {"dqLabels", "dqParams", "dqBody", "dqFormat"}
BY DEF AfterCheckpoint, AfterField, AfterHeader, AfterDq

LEMMA StepValues ==
  /\ AfterCheckpoint["elfDirCp"] = "elfDir" /\ AfterCheckpoint["coreCp"] = "headers"
  /\ AfterCheckpoint["elfSecCp"] = "elfSec" /\ AfterCheckpoint["dqDirCp"] = "dqDir"
  /\ AfterCheckpoint["dqCp"] = "dqLabels" /\ AfterCheckpoint["dqSecCp"] = "dqSec"
  /\ AfterField["notesSize"] = "coreCp" /\ AfterField["crcSupported"] = "elfSecCp"
  /\ AfterHeader["elfDir"] = "lock" /\ AfterHeader["elfSec"] = "dqDirCp"
  /\ AfterHeader["dqDir"] = "ftdc"
  /\ AfterDq["dqLabels"] = "dqParams" /\ AfterDq["dqParams"] = "dqBody"
  /\ AfterDq["dqBody"] = "dqFormat" /\ AfterDq["dqFormat"] = "dqCrc"
BY DEF AfterCheckpoint, AfterField, AfterHeader, AfterDq

\* The steps of a capture, spelled out.
LEMMA CaptureStepsAre ==
  CaptureSteps =
    {"overwrite", "decide", "invalidate", "start", "elfDirCp", "elfDir", "lock",
     "refresh", "notesSize", "coreCp", "headers", "segments", "notes", "unlock",
     "crcSupported", "elfSecCp", "elfSec", "dqDirCp", "dqDir", "ftdc", "dqCp",
     "dqLabels", "dqParams", "dqBody", "dqFormat", "dqCrc", "dqSecCp", "dqSec",
     "finish", "failed", "end"}
BY StepTables DEF CaptureSteps, LockedSteps

\* The steps at which the capture has begun and the dump it replaces is gone.
Collecting == CaptureSteps \ {"overwrite", "decide", "invalidate", "start", "end"}

\* The tables never lead out of the capture nor back to its beginning.
LEMMA StepsType ==
  /\ \A s \in DOMAIN AfterCheckpoint : AfterCheckpoint[s] \in Collecting \ {"failed"}
  /\ \A s \in DOMAIN AfterField : AfterField[s] \in Collecting \ {"failed"}
  /\ \A s \in DOMAIN AfterHeader : AfterHeader[s] \in Collecting \ {"failed"}
  /\ \A s \in DOMAIN AfterDq : AfterDq[s] \in Collecting \ {"failed"}
BY StepTables, StepValues, CaptureStepsAre DEF Collecting

-----------------------------------------------------------------------------
(* Types.                                                                   *)

LEMMA WallType ==
  ASSUME clock \in Nat, skew \in Int
  PROVE  Wall \in 0 .. ClockModulus - 1
BY TimeAssumption DEF Wall

\* The records that the setters of the metadata record make are records.
LEMMA RecordTypes ==
  ASSUME TypeOK
  PROVE  /\ BlankMetadata \in Metadata
         /\ \A m \in Metadata :
              /\ Invalidated(m) \in Metadata
              /\ FinishedDump(m) \in Metadata
              /\ \A e \in Events : [m EXCEPT !.event = e] \in Metadata
              /\ [m EXCEPT !.checkpoint = "WRITING"] \in Metadata
              /\ \A id \in Ids : req \in Request => StartedDump(m, id) \in Metadata
<1>1. Wall \in 0 .. ClockModulus - 1
  BY WallType, TimeAssumption DEF TypeOK
<1>2. BlankMetadata \in Metadata
  BY TimeAssumption, DumpsAssumption
     DEF BlankMetadata, Metadata, Checkpoints, Events, Types, Ids, NoDump, Forcible
<1>3. ASSUME NEW m \in Metadata
      PROVE  /\ Invalidated(m) \in Metadata
             /\ FinishedDump(m) \in Metadata
             /\ \A e \in Events : [m EXCEPT !.event = e] \in Metadata
             /\ [m EXCEPT !.checkpoint = "WRITING"] \in Metadata
  BY <1>3 DEF Metadata, Invalidated, FinishedDump, Checkpoints
<1>4. ASSUME NEW m \in Metadata, NEW id \in Ids, req \in Request
      PROVE  StartedDump(m, id) \in Metadata
  BY <1>1, <1>2, <1>4
     DEF StartedDump, Metadata, BlankMetadata, Request, TypeOK, Events
<1>5. QED
  BY <1>2, <1>3, <1>4

\* Writing a record through keeps the two copies records.
LEMMA WriteType ==
  ASSUME TypeOK, NEW w \in Writers, NEW m \in Metadata, Write(w, m)
  PROVE  /\ mem' \in Metadata /\ rpa' \in Metadata /\ crcOk' \in BOOLEAN
         /\ crcDue' \in SUBSET Writers /\ crcStale' \in SUBSET crcDue'
BY DEF TypeOK, Write, persistent

LEMMA PersistType ==
  ASSUME TypeOK, NEW m \in Metadata, Persist(m)
  PROVE  /\ mem' \in Metadata /\ rpa' \in Metadata /\ crcOk' \in BOOLEAN
         /\ crcDue' \in SUBSET Writers /\ crcStale' \in SUBSET crcDue'
BY WriteType DEF Persist, Writers

\* What a client may make of the record m: it discards it, it takes note of it,
\* or it forces one of the fields.
SameDump(m, n) == n.id = m.id /\ n.type = m.type /\ n.time = m.time /\ n.birth = m.birth

Notes(m, n) ==
  /\ n.valid = m.valid /\ n.checkpoint = m.checkpoint /\ n.forced = m.forced
  /\ n.needsRetrieval \in {m.needsRetrieval, FALSE}
  /\ n.event \in {m.event, "EVENT_CLEAR"}

ForcesValid(m, n) ==
  /\ ~m.valid /\ n.valid /\ n.forced = m.forced \cup {"valid"}
  /\ n.needsRetrieval = m.needsRetrieval /\ n.checkpoint = m.checkpoint /\ n.event = m.event

ForcesWanted(m, n) ==
  /\ n.forced = m.forced \cup {"wanted"}
  /\ n.valid = m.valid /\ n.checkpoint = m.checkpoint /\ n.event = m.event

ForcesStatus(m, n) ==
  /\ n.forced = m.forced \cup {"status"}
  /\ n.valid = m.valid /\ n.needsRetrieval = m.needsRetrieval

ClientEdit(m, n) ==
  /\ n \in Metadata /\ SameDump(m, n)
  /\ n.needsBackup \in {m.needsBackup, FALSE} \/ "wanted" \in n.forced
  /\ n = Invalidated(m) \/ Notes(m, n) \/ ForcesValid(m, n) \/ ForcesWanted(m, n) \/ ForcesStatus(m, n)

\* What is valid stays valid, and what is forced stays forced.
Keeps(m, n) == (m.valid => n.valid) /\ m.forced \subseteq n.forced

\* A client that makes n of the record, in one of its steps.
SetterWrites(c, n) ==
  /\ Ready(c) /\ Write(c, n) /\ ClientEdit(mem, n)
  /\ \/ retracted' = retracted /\ Keeps(mem, n)
     \/ retracted' = inProgress /\ n = Invalidated(mem)

\* The record k once the shell has forced a field.
Marked(k, field) == [k EXCEPT !.forced = @ \cup {field}]

\* Each client step makes one such record, and touches no more than the record.
LEMMA CallIs ==
  ASSUME NEW c, NEW n, Calls(c, n)
  PROVE  /\ TasksRun /\ Ready(c) /\ Write(c, n)
         /\ UNCHANGED <<pc, control, threshold, region, captures, clock, skew>>
BY DEF Calls

LEMMA ForceIs ==
  ASSUME NEW c, NEW field, NEW m, Forces(c, field, m)
  PROVE  /\ m # mem /\ Calls(c, Marked(m, field))
         /\ overrides < MaxOverrides /\ overrides' = overrides + 1
         /\ UNCHANGED <<clearing, retracted>>
BY DEF Forces, Marked

LEMMA NoteEdits ==
  ASSUME NEW m \in Metadata
  PROVE  /\ ClientEdit(m, m) /\ ClientEdit(m, Invalidated(m))
         /\ ClientEdit(m, [m EXCEPT !.needsRetrieval = FALSE])
         /\ ClientEdit(m, [m EXCEPT !.needsBackup = FALSE])
         /\ ClientEdit(m, [m EXCEPT !.event = "EVENT_CLEAR"])
<1>1. ClientEdit(m, m)
  BY DEF ClientEdit, SameDump, Notes
<1>2. ClientEdit(m, Invalidated(m))
  BY DEF ClientEdit, SameDump, Invalidated, Metadata
<1>3. ClientEdit(m, [m EXCEPT !.needsRetrieval = FALSE])
  BY DEF ClientEdit, SameDump, Notes, Metadata
<1>4. ClientEdit(m, [m EXCEPT !.needsBackup = FALSE])
  BY DEF ClientEdit, SameDump, Notes, Metadata
<1>5. ClientEdit(m, [m EXCEPT !.event = "EVENT_CLEAR"])
  BY DEF ClientEdit, SameDump, Notes, Metadata, Events
<1> QED
  BY <1>1, <1>2, <1>3, <1>4, <1>5

LEMMA WantedEdits ==
  ASSUME NEW m \in Metadata,
         NEW k \in {[m EXCEPT !.needsRetrieval = TRUE], [m EXCEPT !.needsBackup = TRUE]}
  PROVE  ClientEdit(m, Marked(k, "wanted")) /\ Keeps(m, Marked(k, "wanted"))
<1> DEFINE n == Marked(k, "wanted")
<1>1. /\ k \in Metadata /\ SameDump(m, k) /\ k.forced = m.forced
      /\ k.valid = m.valid /\ k.checkpoint = m.checkpoint /\ k.event = m.event
  BY DEF Metadata, SameDump
<1>2. n \in Metadata /\ SameDump(m, n) /\ ForcesWanted(m, n) /\ n.valid = m.valid
  BY <1>1 DEF Metadata, SameDump, ForcesWanted, Forcible, Marked
<1>3. "wanted" \in n.forced
  BY <1>2 DEF ForcesWanted
<1>4. Keeps(m, n)
  BY <1>2 DEF ForcesWanted, Keeps
<1> QED
  BY <1>2, <1>3, <1>4 DEF ClientEdit

LEMMA StatusEdits ==
  ASSUME NEW m \in Metadata,
         NEW k, \/ \E e \in Events : k = [m EXCEPT !.event = e]
                \/ \E p \in Checkpoints : k = [m EXCEPT !.checkpoint = p]
  PROVE  ClientEdit(m, Marked(k, "status")) /\ Keeps(m, Marked(k, "status"))
<1> DEFINE n == Marked(k, "status")
<1>1. /\ k \in Metadata /\ SameDump(m, k) /\ k.forced = m.forced
      /\ k.valid = m.valid /\ k.needsRetrieval = m.needsRetrieval
      /\ k.needsBackup = m.needsBackup
  BY DEF Metadata, SameDump
<1>2. /\ n \in Metadata /\ SameDump(m, n) /\ ForcesStatus(m, n) /\ n.valid = m.valid
      /\ n.needsBackup = m.needsBackup
  BY <1>1 DEF Metadata, SameDump, ForcesStatus, Forcible, Marked
<1>3. Keeps(m, n)
  BY <1>2 DEF ForcesStatus, Keeps
<1> QED
  BY <1>2, <1>3 DEF ClientEdit

LEMMA ValidEdit ==
  ASSUME NEW m \in Metadata, NEW k, k = [m EXCEPT !.valid = TRUE], k # m
  PROVE  ClientEdit(m, Marked(k, "valid")) /\ Keeps(m, Marked(k, "valid"))
<1> DEFINE n == Marked(k, "valid")
<1>1. /\ k \in Metadata /\ SameDump(m, k) /\ k.valid /\ k.needsRetrieval = m.needsRetrieval
      /\ k.checkpoint = m.checkpoint /\ k.event = m.event /\ k.needsBackup = m.needsBackup
      /\ k.forced = m.forced
  BY DEF Metadata, SameDump
<1>2. ~m.valid
  <2> SUFFICES ASSUME m.valid PROVE FALSE
    OBVIOUS
  <2>1. m.valid = TRUE
    BY DEF Metadata
  <2> QED
    BY <2>1 DEF Metadata
<1>3. /\ n \in Metadata /\ SameDump(m, n) /\ ForcesValid(m, n) /\ n.valid
      /\ n.needsBackup = m.needsBackup
  BY <1>1, <1>2 DEF Metadata, SameDump, ForcesValid, Forcible, Marked
<1>4. Keeps(m, n)
  BY <1>3 DEF ForcesValid, Keeps
<1> QED
  BY <1>3, <1>4 DEF ClientEdit

\* All a client step does.
SetterEffect(c) ==
  /\ TasksRun
  /\ UNCHANGED <<pc, control, threshold, region, captures, clock, skew>>
  /\ clearing' \in SUBSET Clients /\ retracted' \in BOOLEAN
  /\ overrides' \in 0 .. MaxOverrides
  /\ \E n : SetterWrites(c, n)

LEMMA SetterSteps ==
  ASSUME TypeOK, NEW c \in Clients, SetterNext(c)
  PROVE  SetterEffect(c)
<1>0. /\ mem \in Metadata /\ MaxOverrides \in Nat /\ overrides \in 0 .. MaxOverrides
      /\ clearing \in SUBSET Clients /\ retracted \in BOOLEAN /\ inProgress \in BOOLEAN
  BY DumpsAssumption DEF TypeOK
<1>1. ASSUME NEW n, Calls(c, n), ClientEdit(mem, n), Keeps(mem, n), UNCHANGED calls
      PROVE  SetterEffect(c)
  BY <1>0, <1>1, CallIs DEF calls, SetterWrites, SetterEffect
<1>2. ASSUME NEW field, NEW m, Forces(c, field, m),
             ClientEdit(mem, Marked(m, field)),
             Keeps(mem, Marked(m, field))
      PROVE  SetterEffect(c)
  <2>1. /\ Calls(c, Marked(m, field))
        /\ overrides < MaxOverrides /\ overrides' = overrides + 1
        /\ UNCHANGED <<clearing, retracted>>
    BY <1>2, ForceIs
  <2>2. overrides' \in 0 .. MaxOverrides
    BY <1>0, <2>1
  <2>3. SetterWrites(c, Marked(m, field))
    BY <1>2, <2>1, CallIs DEF SetterWrites
  <2> QED
    BY <1>0, <2>1, <2>2, <2>3, CallIs DEF SetterEffect
<1>3. CASE SetNeedsRetrieval(c)
  <2>1. CASE Calls(c, [mem EXCEPT !.needsRetrieval = FALSE]) /\ UNCHANGED calls
    <3> DEFINE n == [mem EXCEPT !.needsRetrieval = FALSE]
    <3>1. Keeps(mem, n) /\ ClientEdit(mem, n) /\ Calls(c, n) /\ UNCHANGED calls
      BY <1>0, <2>1, NoteEdits DEF Metadata, Keeps
    <3> HIDE DEF n
    <3> QED
      BY <1>1, <3>1
  <2>2. CASE Forces(c, "wanted", [mem EXCEPT !.needsRetrieval = TRUE])
    <3> DEFINE k == [mem EXCEPT !.needsRetrieval = TRUE]
    <3>1. k \in {[mem EXCEPT !.needsRetrieval = TRUE], [mem EXCEPT !.needsBackup = TRUE]}
      OBVIOUS
    <3>2. Forces(c, "wanted", k)
      BY <2>2
    <3> HIDE DEF k
    <3>3. ClientEdit(mem, Marked(k, "wanted")) /\ Keeps(mem, Marked(k, "wanted"))
      BY <1>0, <3>1, WantedEdits
    <3> QED
      BY <1>2, <3>2, <3>3
  <2> QED
    BY <1>3, <2>1, <2>2 DEF SetNeedsRetrieval
<1>4. CASE SetNeedsBackup(c)
  <2>1. CASE Calls(c, [mem EXCEPT !.needsBackup = FALSE]) /\ UNCHANGED calls
    <3> DEFINE n == [mem EXCEPT !.needsBackup = FALSE]
    <3>1. Keeps(mem, n) /\ ClientEdit(mem, n) /\ Calls(c, n) /\ UNCHANGED calls
      BY <1>0, <2>1, NoteEdits DEF Metadata, Keeps
    <3> HIDE DEF n
    <3> QED
      BY <1>1, <3>1
  <2>2. CASE Forces(c, "wanted", [mem EXCEPT !.needsBackup = TRUE])
    <3> DEFINE k == [mem EXCEPT !.needsBackup = TRUE]
    <3>1. k \in {[mem EXCEPT !.needsRetrieval = TRUE], [mem EXCEPT !.needsBackup = TRUE]}
      OBVIOUS
    <3>2. Forces(c, "wanted", k)
      BY <2>2
    <3> HIDE DEF k
    <3>3. ClientEdit(mem, Marked(k, "wanted")) /\ Keeps(mem, Marked(k, "wanted"))
      BY <1>0, <3>1, WantedEdits
    <3> QED
      BY <1>2, <3>2, <3>3
  <2> QED
    BY <1>4, <2>1, <2>2 DEF SetNeedsBackup
<1>5. CASE SetEventStatus(c)
  <2>1. CASE Calls(c, [mem EXCEPT !.event = "EVENT_CLEAR"]) /\ UNCHANGED calls
    <3> DEFINE n == [mem EXCEPT !.event = "EVENT_CLEAR"]
    <3>1. Keeps(mem, n) /\ ClientEdit(mem, n) /\ Calls(c, n) /\ UNCHANGED calls
      BY <1>0, <2>1, NoteEdits DEF Metadata, Keeps
    <3> HIDE DEF n
    <3> QED
      BY <1>1, <3>1
  <2>2. ASSUME NEW e \in Events, Forces(c, "status", [mem EXCEPT !.event = e])
        PROVE  SetterEffect(c)
    <3>1. PICK k : k = [mem EXCEPT !.event = e]
      OBVIOUS
    <3>2. ClientEdit(mem, Marked(k, "status")) /\ Keeps(mem, Marked(k, "status"))
      BY <1>0, <3>1, StatusEdits
    <3> QED
      BY <1>2, <2>2, <3>1, <3>2
  <2> QED
    <3>1. \/ Calls(c, [mem EXCEPT !.event = "EVENT_CLEAR"]) /\ UNCHANGED calls
          \/ \E e \in Events : Forces(c, "status", [mem EXCEPT !.event = e])
      BY <1>5 DEF SetEventStatus
    <3> QED
      BY <2>1, <2>2, <3>1
<1>6. CASE SetCheckPoint(c)
  <2>1. PICK p \in Checkpoints : Forces(c, "status", [mem EXCEPT !.checkpoint = p])
    BY <1>6 DEF SetCheckPoint
  <2>2. PICK k : k = [mem EXCEPT !.checkpoint = p]
    OBVIOUS
  <2>3. ClientEdit(mem, Marked(k, "status")) /\ Keeps(mem, Marked(k, "status"))
    BY <1>0, <2>2, StatusEdits
  <2> QED
    BY <1>2, <2>1, <2>2, <2>3
<1>7. CASE SetDescription(c)
  <2>1. Calls(c, mem) /\ UNCHANGED calls
    BY <1>7 DEF SetDescription
  <2>2. ClientEdit(mem, mem) /\ Keeps(mem, mem)
    BY <1>0, NoteEdits DEF Keeps
  <2> QED
    BY <1>1, <2>1, <2>2
<1>8. CASE CallValid(c)
  <2>1. Forces(c, "valid", [mem EXCEPT !.valid = TRUE])
    BY <1>8 DEF CallValid
  <2>2. PICK k : k = [mem EXCEPT !.valid = TRUE]
    OBVIOUS
  <2>3. Forces(c, "valid", k) /\ k # mem
    BY <2>1, <2>2, ForceIs
  <2>4. ClientEdit(mem, Marked(k, "valid")) /\ Keeps(mem, Marked(k, "valid"))
    BY <1>0, <2>2, <2>3, ValidEdit
  <2> QED
    BY <1>2, <2>3, <2>4
<1>9. CASE CallInvalid(c)
  <2>1. /\ Calls(c, Invalidated(mem)) /\ retracted' = inProgress
        /\ clearing' = clearing \cup {c} /\ UNCHANGED overrides
    BY <1>9 DEF CallInvalid
  <2>2. SetterWrites(c, Invalidated(mem))
    BY <1>0, <2>1, CallIs, NoteEdits DEF SetterWrites
  <2> QED
    BY <1>0, <2>1, <2>2, CallIs DEF SetterEffect
<1>10. CASE ClearEvent(c)
  <2> DEFINE n == [mem EXCEPT !.event = "EVENT_CLEAR"]
  <2>1. /\ TasksRun /\ Ready(c) /\ Write(c, n) /\ clearing' = clearing \ {c}
        /\ UNCHANGED <<pc, control, threshold, region, captures, clock, skew, retracted, overrides>>
    BY <1>10 DEF ClearEvent
  <2>2. Keeps(mem, n)
    BY <1>0 DEF Metadata, Keeps
  <2>3. ClientEdit(mem, n)
    BY <1>0, NoteEdits
  <2>4. SetterWrites(c, n)
    BY <2>1, <2>2, <2>3 DEF SetterWrites
  <2> QED
    BY <1>0, <2>1, <2>4 DEF SetterEffect
<1> QED
  BY <1>3, <1>4, <1>5, <1>6, <1>7, <1>8, <1>9, <1>10 DEF SetterNext

\* Changing what a region holds keeps the regions typed.
LEMMA RegionType ==
  ASSUME TypeOK
  PROVE  /\ NoDump \in Ids
         /\ \A t \in Types, id \in Ids : [region EXCEPT ![t] = id] \in [Types -> Ids]
<1>1. NoDump \in Ids
  BY DumpsAssumption DEF NoDump, Ids
<1>2. ASSUME NEW t \in Types, NEW id \in Ids
      PROVE  [region EXCEPT ![t] = id] \in [Types -> Ids]
  BY DEF TypeOK
<1>3. QED
  BY <1>1, <1>2

\* The flags of the manager agree with the step it is in.
ControlOK ==
  /\ inProgress <=> pc \in CaptureSteps
  /\ initComplete <=> pc \notin {"off"} \cup BootSteps
  /\ IF inProgress THEN req \in Request ELSE req = NoRequest
  /\ pc \in {"overwrite", "decide", "invalidate", "start"} => captures < MaxDumps

LEMMA InitType == Init => TypeOK /\ ControlOK
<1> SUFFICES ASSUME Init PROVE TypeOK /\ ControlOK
  OBVIOUS
<1>1. BlankMetadata \in Metadata
  BY TimeAssumption, DumpsAssumption
     DEF BlankMetadata, Metadata, Checkpoints, Events, Types, Ids, NoDump, Forcible
<1>2. region \in [Types -> Ids]
  BY DumpsAssumption DEF Init, Ids, NoDump
<1>3. threshold \in {0, DefaultThreshold} /\ captures \in Ids /\ clock \in 0 .. MaxTime
  BY TimeAssumption, DumpsAssumption DEF Init, Ids
<1>4. /\ overrides \in 0 .. MaxOverrides /\ skew \in Skews /\ pc \in Steps
      /\ crcDue \in SUBSET Writers /\ crcStale \in SUBSET crcDue /\ clearing \in SUBSET Clients
  BY TimeAssumption, DumpsAssumption DEF Init, Steps
<1>5. TypeOK
  BY <1>1, <1>2, <1>3, <1>4 DEF Init, TypeOK
<1>6. ControlOK
  BY CaptureStepsAre DEF Init, ControlOK
<1>7. QED
  BY <1>5, <1>6

\* Every step keeps the types.
LEMMA TypeStep == TypeOK /\ ControlOK /\ [Next]_vars => TypeOK'
<1> SUFFICES ASSUME TypeOK, ControlOK, [Next]_vars
             PROVE  TypeOK'
  OBVIOUS
<1>1. CASE UNCHANGED vars
  BY <1>1 DEF TypeOK, vars, persistent, control, world, calls
<1>2. CASE Boot
  BY <1>2
     DEF TypeOK, Boot, Steps, persistent, control, world, calls, BootSteps
<1>3. CASE BootInvalidate
  BY <1>3, RecordTypes, PersistType
     DEF TypeOK, BootInvalidate, Steps, persistent, control, world, calls, BootSteps
<1>4. CASE BootClear
  BY <1>4, RecordTypes, PersistType
     DEF TypeOK, BootClear, Steps, persistent, control, world, calls, BootSteps, Events
<1>5. CASE BootBoard
  BY <1>5, RecordTypes, PersistType
     DEF TypeOK, BootBoard, Steps, persistent, control, world, calls, BootSteps
<1>6. CASE BootEvent
  BY <1>6, RecordTypes, PersistType
     DEF TypeOK, BootEvent, Steps, persistent, control, world, calls, BootSteps, Events
<1>7. CASE BootDone
  BY <1>7
     DEF TypeOK, BootDone, Steps, persistent, control, world, calls
<1>8. ASSUME NEW w \in Writers, WriteCrc(w) PROVE TypeOK'
  BY <1>8
     DEF TypeOK, WriteCrc, Steps, persistent, control, world, calls
<1>9. CASE Overwrite
  <2>1. /\ mem' \in Metadata /\ rpa' \in Metadata /\ crcOk' \in BOOLEAN
        /\ crcDue' \in SUBSET Writers /\ crcStale' \in SUBSET crcDue'
    BY <1>9, RecordTypes, PersistType DEF Overwrite, TypeOK, persistent, Events
  <2>2. pc' \in Steps /\ ret' \in {"none", "ok", "fail"}
    BY <1>9, CaptureStepsAre DEF Overwrite, TypeOK, Steps, control
  <2> QED
    BY <1>9, <2>1, <2>2 DEF Overwrite, TypeOK, control, world, calls
<1>10. CASE Decide
  <2>1. /\ mem' \in Metadata /\ rpa' \in Metadata /\ crcOk' \in BOOLEAN
        /\ crcDue' \in SUBSET Writers /\ crcStale' \in SUBSET crcDue'
    BY <1>10, RecordTypes, PersistType DEF Decide, TypeOK, persistent, Events
  <2>2. pc' \in Steps /\ ret' \in {"none", "ok", "fail"}
    BY <1>10, CaptureStepsAre DEF Decide, TypeOK, Steps, control
  <2> QED
    BY <1>10, <2>1, <2>2 DEF Decide, TypeOK, control, world, calls
<1>11. CASE InvalidateOld
  BY <1>11, RecordTypes, PersistType, CaptureStepsAre
     DEF TypeOK, InvalidateOld, Steps, persistent, control, world, calls, Goto, Request, Collecting
<1>12. CASE StartDump
  <2>1. req \in Request /\ captures + 1 \in Ids /\ captures' \in Ids
    BY <1>12, CaptureStepsAre, DumpsAssumption
       DEF StartDump, ControlOK, TypeOK, Ids
  <2>2. /\ mem' \in Metadata /\ rpa' \in Metadata /\ crcOk' \in BOOLEAN
        /\ crcDue' \in SUBSET Writers /\ crcStale' \in SUBSET crcDue'
    BY <1>12, <2>1, RecordTypes, PersistType DEF StartDump, TypeOK
  <2>3. QED
    BY <1>12, CaptureStepsAre, <2>1, <2>2
       DEF TypeOK, StartDump, Goto, ReturnFalse, Steps, calls
<1>13. CASE SetCheckpoint
  BY <1>13, RecordTypes, PersistType, StepsType, CaptureStepsAre
     DEF TypeOK, SetCheckpoint, Steps, persistent, control, world, calls, Goto, Request, Collecting
<1>14. CASE SetField
  BY <1>14, RecordTypes, PersistType, StepsType
     DEF TypeOK, SetField, Steps, persistent, control, world, calls, Goto, Collecting
<1>15. CASE CopyHeader
  <2>1. pc \in CaptureSteps /\ req.type \in Types
    BY <1>15, StepTables, CaptureStepsAre DEF CopyHeader, ControlOK, Request
  <2>2. region' \in [Types -> Ids]
    BY <1>15, <2>1, RegionType DEF CopyHeader, Scribble
  <2>3. pc' \in Steps /\ ret' \in {"none", "ok", "fail"}
    BY <1>15, StepsType, CaptureStepsAre
    DEF CopyHeader, TypeOK, Goto, ReturnFalse, Steps, Collecting
  <2>4. UNCHANGED <<req, initComplete, inProgress, skipDq>>
    BY <1>15 DEF CopyHeader, Goto, ReturnFalse
  <2> QED
    BY <1>15, <2>2, <2>3, <2>4 DEF CopyHeader, TypeOK, persistent, calls
<1>16. CASE LockTasks
  BY <1>16, CaptureStepsAre
     DEF TypeOK, LockTasks, Steps, persistent, control, world, calls, Goto, ReturnFalse, Request, Collecting
<1>17. CASE RefreshSegments
  BY <1>17, CaptureStepsAre
     DEF TypeOK, RefreshSegments, Steps, persistent, control, world, calls, Goto, ReturnFalse, Request, Collecting
<1>18. CASE LayOutHeaders
  BY <1>18, RegionType, CaptureStepsAre
     DEF TypeOK, LayOutHeaders, Steps, persistent, control, world, calls, Goto, ReturnFalse, UnlockIfAlt, Scribble, ControlOK, Request, Collecting
<1>19. CASE CopySegments
  BY <1>19, RegionType, CaptureStepsAre
     DEF TypeOK, CopySegments, Steps, persistent, control, world, calls, Goto, ReturnFalse, UnlockIfAlt, Scribble, ControlOK, Request, Collecting
<1>20. CASE CopyNotes
  BY <1>20, RegionType, CaptureStepsAre
     DEF TypeOK, CopyNotes, Steps, persistent, control, world, calls, Goto, ReturnFalse, UnlockIfAlt, Scribble, ControlOK, Request, Collecting
<1>21. CASE UnlockTasks
  BY <1>21, CaptureStepsAre
     DEF TypeOK, UnlockTasks, Steps, persistent, control, world, calls, Goto, UnlockIfAlt, Request, Collecting
<1>22. CASE CheckFtdc
  BY <1>22, CaptureStepsAre
     DEF TypeOK, CheckFtdc, Steps, persistent, control, world, calls, Request, Collecting
<1>23. CASE CopyTraceDq
  BY <1>23, RecordTypes, PersistType, StepsType, CaptureStepsAre
     DEF TypeOK, CopyTraceDq, Steps, persistent, control, world, calls, Goto, Request, Collecting
<1>24. CASE ComputeDqCrc
  BY <1>24, CaptureStepsAre
     DEF TypeOK, ComputeDqCrc, Steps, persistent, control, world, calls, Goto, ReturnFalse, Request, Collecting
<1>25. CASE CopyDqSection
  <2>1. mem.id \in Ids /\ req.type \in Types
    BY <1>25, CaptureStepsAre
       DEF CopyDqSection, TypeOK, Metadata, ControlOK, Request
  <2>2. region' \in [Types -> Ids]
    BY <1>25, <2>1, RegionType DEF CopyDqSection, Scribble
  <2>3. QED
    BY <1>25, <2>2, CaptureStepsAre
       DEF TypeOK, CopyDqSection, Goto, ReturnFalse, Steps, persistent, calls
<1>26. CASE FinishDump
  BY <1>26, RecordTypes, PersistType, CaptureStepsAre
     DEF TypeOK, FinishDump, Steps, persistent, control, world, calls, Goto, Request, Collecting
<1>27. CASE Failed
  BY <1>27, RecordTypes, PersistType, CaptureStepsAre
     DEF TypeOK, Failed, Steps, persistent, control, world, calls, Goto, Events, Request, Collecting
<1>28. CASE EndCapture
  BY <1>28
     DEF TypeOK, EndCapture, Steps, persistent, control, world, calls
<1>29. ASSUME NEW c \in Clients, SetterNext(c) PROVE TypeOK'
  <2>1. PICK n : SetterWrites(c, n)
    BY <1>29, SetterSteps DEF SetterEffect
  <2>2. n \in Metadata /\ Write(c, n)
    BY <2>1 DEF SetterWrites, ClientEdit
  <2>3. /\ mem' \in Metadata /\ rpa' \in Metadata /\ crcOk' \in BOOLEAN
        /\ crcDue' \in SUBSET Writers /\ crcStale' \in SUBSET crcDue'
    BY <2>2, WriteType DEF Writers
  <2>4. QED
    BY <1>29, <2>3, SetterSteps DEF SetterEffect, TypeOK, control
<1>30. CASE CacheUsesRegion
  BY <1>30, RegionType
     DEF TypeOK, CacheUsesRegion, Steps, persistent, control, world, calls, Types
<1>31. CASE Tick
  BY <1>31, TimeAssumption
     DEF TypeOK, Tick, Steps, persistent, control, world, calls
<1>32. CASE SetClock
  BY <1>32
     DEF TypeOK, SetClock, Steps, persistent, control, world, calls
<1>33. CASE Crash
  BY <1>33, RecordTypes
     DEF TypeOK, Crash, Steps, persistent, control, world, calls
<1>34. CASE Decay
  BY <1>34, RegionType
     DEF TypeOK, Decay, Steps, persistent, control, world, calls
<1>35. ASSUME NEW t \in {0, DefaultThreshold}, SetOverwriteThresholdTime(t)
      PROVE  TypeOK'
  BY <1>35 DEF TypeOK, SetOverwriteThresholdTime, persistent, control, world, calls
<1>36. ASSUME NEW type \in Types, NEW reason \in Reasons, Trigger(type, reason)
      PROVE  TypeOK'
  BY <1>36, CaptureStepsAre
     DEF TypeOK, Trigger, Request, Steps, persistent, world, calls
<1>37. QED
  BY <1>1, <1>2, <1>3, <1>4, <1>5, <1>6, <1>7, <1>8, <1>9, <1>10, <1>11, <1>12,
     <1>13, <1>14, <1>15, <1>16, <1>17, <1>18, <1>19, <1>20, <1>21, <1>22, <1>23,
     <1>24, <1>25, <1>26, <1>27, <1>28, <1>29, <1>30, <1>31, <1>32, <1>33, <1>34,
     <1>35, <1>36
     DEF Next, BootNext, CaptureNext, ClientNext, WorldNext

-----------------------------------------------------------------------------
(* Control.                                                                 *)

\* A step within the collecting part of a capture leaves the flags alone.
LEMMA StayCollecting ==
  ASSUME ControlOK, pc \in CaptureSteps, pc' \in Collecting \cup {"end"},
         UNCHANGED <<req, initComplete, inProgress>>
  PROVE  ControlOK'
BY CaptureStepsAre DEF ControlOK, Collecting, BootSteps

\* Every step keeps the flags in line with the step the manager is in.
LEMMA ControlStep == TypeOK /\ ControlOK /\ [Next]_vars => ControlOK'
<1> SUFFICES ASSUME TypeOK, ControlOK, [Next]_vars
             PROVE  ControlOK'
  OBVIOUS
<1> USE CaptureStepsAre DEF ControlOK
<1>1. CASE UNCHANGED vars
  BY <1>1 DEF vars, control, world, calls
<1>2. CASE Boot
  BY <1>2 DEF Boot, BootSteps, control, world, calls
<1>3. CASE BootInvalidate
  BY <1>3 DEF BootInvalidate, BootSteps, control, world, calls
<1>4. CASE BootClear
  BY <1>4 DEF BootClear, BootSteps, control, world, calls
<1>5. CASE BootBoard
  BY <1>5 DEF BootBoard, BootSteps, control, world, calls
<1>6. CASE BootEvent
  BY <1>6 DEF BootEvent, BootSteps, control, world, calls
<1>7. CASE BootDone
  BY <1>7 DEF BootDone, BootSteps, control, world, calls
<1>8. ASSUME NEW w \in Writers, WriteCrc(w) PROVE ControlOK'
  BY <1>8 DEF WriteCrc, control, world, calls, BootSteps
<1>9. CASE Overwrite
  BY <1>9 DEF Overwrite, control, world, calls, BootSteps
<1>10. CASE Decide
  BY <1>10 DEF Decide, control, world, calls, BootSteps
<1>11. CASE InvalidateOld
  BY <1>11 DEF InvalidateOld, control, world, calls, Goto, BootSteps
<1>12. CASE StartDump
  <2>1. pc \in CaptureSteps
    BY <1>12 DEF StartDump
  <2>2. pc' \in Collecting \cup {"end"}
    BY <1>12 DEF StartDump, Goto, ReturnFalse, Collecting
  <2>3. UNCHANGED <<req, initComplete, inProgress>>
    BY <1>12 DEF StartDump, Goto, ReturnFalse
  <2>4. QED
    BY <2>1, <2>2, <2>3, StayCollecting
<1>13. CASE SetCheckpoint
  <2>1. pc \in CaptureSteps
    BY <1>13, StepTables DEF SetCheckpoint
  <2>2. pc' \in Collecting \cup {"end"}
    BY <1>13, StepsType DEF SetCheckpoint, Goto, Collecting
  <2>3. UNCHANGED <<req, initComplete, inProgress>>
    BY <1>13 DEF SetCheckpoint, Goto
  <2>4. QED
    BY <2>1, <2>2, <2>3, StayCollecting
<1>14. CASE SetField
  <2>1. pc \in CaptureSteps
    BY <1>14, StepTables DEF SetField
  <2>2. pc' \in Collecting \cup {"end"}
    BY <1>14, StepsType DEF SetField, Goto, Collecting
  <2>3. UNCHANGED <<req, initComplete, inProgress>>
    BY <1>14 DEF SetField, Goto
  <2>4. QED
    BY <2>1, <2>2, <2>3, StayCollecting
<1>15. CASE CopyHeader
  <2>1. pc \in CaptureSteps
    BY <1>15, StepTables DEF CopyHeader
  <2>2. pc' \in Collecting \cup {"end"}
    BY <1>15, StepsType DEF CopyHeader, Goto, ReturnFalse, Collecting
  <2>3. UNCHANGED <<req, initComplete, inProgress>>
    BY <1>15 DEF CopyHeader, Goto, ReturnFalse
  <2>4. QED
    BY <2>1, <2>2, <2>3, StayCollecting
<1>16. CASE LockTasks
  <2>1. pc \in CaptureSteps
    BY <1>16 DEF LockTasks
  <2>2. pc' \in Collecting \cup {"end"}
    BY <1>16 DEF LockTasks, Goto, Collecting
  <2>3. UNCHANGED <<req, initComplete, inProgress>>
    BY <1>16 DEF LockTasks, Goto
  <2>4. QED
    BY <2>1, <2>2, <2>3, StayCollecting
<1>17. CASE RefreshSegments
  <2>1. pc \in CaptureSteps
    BY <1>17 DEF RefreshSegments
  <2>2. pc' \in Collecting \cup {"end"}
    BY <1>17 DEF RefreshSegments, Goto, ReturnFalse, Collecting
  <2>3. UNCHANGED <<req, initComplete, inProgress>>
    BY <1>17 DEF RefreshSegments, Goto, ReturnFalse
  <2>4. QED
    BY <2>1, <2>2, <2>3, StayCollecting
<1>18. CASE LayOutHeaders
  <2>1. pc \in CaptureSteps
    BY <1>18 DEF LayOutHeaders
  <2>2. pc' \in Collecting \cup {"end"}
    BY <1>18 DEF LayOutHeaders, Goto, ReturnFalse, Collecting
  <2>3. UNCHANGED <<req, initComplete, inProgress>>
    BY <1>18 DEF LayOutHeaders, Goto, ReturnFalse
  <2>4. QED
    BY <2>1, <2>2, <2>3, StayCollecting
<1>19. CASE CopySegments
  <2>1. pc \in CaptureSteps
    BY <1>19 DEF CopySegments
  <2>2. pc' \in Collecting \cup {"end"}
    BY <1>19 DEF CopySegments, Goto, ReturnFalse, Collecting
  <2>3. UNCHANGED <<req, initComplete, inProgress>>
    BY <1>19 DEF CopySegments, Goto, ReturnFalse
  <2>4. QED
    BY <2>1, <2>2, <2>3, StayCollecting
<1>20. CASE CopyNotes
  <2>1. pc \in CaptureSteps
    BY <1>20 DEF CopyNotes
  <2>2. pc' \in Collecting \cup {"end"}
    BY <1>20 DEF CopyNotes, Goto, ReturnFalse, Collecting
  <2>3. UNCHANGED <<req, initComplete, inProgress>>
    BY <1>20 DEF CopyNotes, Goto, ReturnFalse
  <2>4. QED
    BY <2>1, <2>2, <2>3, StayCollecting
<1>21. CASE UnlockTasks
  <2>1. pc \in CaptureSteps
    BY <1>21 DEF UnlockTasks
  <2>2. pc' \in Collecting \cup {"end"}
    BY <1>21 DEF UnlockTasks, Goto, Collecting
  <2>3. UNCHANGED <<req, initComplete, inProgress>>
    BY <1>21 DEF UnlockTasks, Goto
  <2>4. QED
    BY <2>1, <2>2, <2>3, StayCollecting
<1>22. CASE CheckFtdc
  <2>1. pc \in CaptureSteps
    BY <1>22 DEF CheckFtdc
  <2>2. pc' \in Collecting \cup {"end"}
    BY <1>22 DEF CheckFtdc, Collecting
  <2>3. UNCHANGED <<req, initComplete, inProgress>>
    BY <1>22 DEF CheckFtdc
  <2>4. QED
    BY <2>1, <2>2, <2>3, StayCollecting
<1>23. CASE CopyTraceDq
  <2>1. pc \in CaptureSteps
    BY <1>23, StepTables DEF CopyTraceDq
  <2>2. pc' \in Collecting \cup {"end"}
    BY <1>23, StepsType DEF CopyTraceDq, Goto, Collecting
  <2>3. UNCHANGED <<req, initComplete, inProgress>>
    BY <1>23 DEF CopyTraceDq, Goto
  <2>4. QED
    BY <2>1, <2>2, <2>3, StayCollecting
<1>24. CASE ComputeDqCrc
  <2>1. pc \in CaptureSteps
    BY <1>24 DEF ComputeDqCrc
  <2>2. pc' \in Collecting \cup {"end"}
    BY <1>24 DEF ComputeDqCrc, Goto, ReturnFalse, Collecting
  <2>3. UNCHANGED <<req, initComplete, inProgress>>
    BY <1>24 DEF ComputeDqCrc, Goto, ReturnFalse
  <2>4. QED
    BY <2>1, <2>2, <2>3, StayCollecting
<1>25. CASE CopyDqSection
  <2>1. pc \in CaptureSteps
    BY <1>25 DEF CopyDqSection
  <2>2. pc' \in Collecting \cup {"end"}
    BY <1>25 DEF CopyDqSection, Goto, ReturnFalse, Collecting
  <2>3. UNCHANGED <<req, initComplete, inProgress>>
    BY <1>25 DEF CopyDqSection, Goto, ReturnFalse
  <2>4. QED
    BY <2>1, <2>2, <2>3, StayCollecting
<1>26. CASE FinishDump
  <2>1. pc \in CaptureSteps
    BY <1>26 DEF FinishDump
  <2>2. pc' \in Collecting \cup {"end"}
    BY <1>26 DEF FinishDump, Goto, Collecting
  <2>3. UNCHANGED <<req, initComplete, inProgress>>
    BY <1>26 DEF FinishDump, Goto
  <2>4. QED
    BY <2>1, <2>2, <2>3, StayCollecting
<1>27. CASE Failed
  <2>1. pc \in CaptureSteps
    BY <1>27 DEF Failed
  <2>2. pc' \in Collecting \cup {"end"}
    BY <1>27 DEF Failed, Goto, Collecting
  <2>3. UNCHANGED <<req, initComplete, inProgress>>
    BY <1>27 DEF Failed, Goto
  <2>4. QED
    BY <2>1, <2>2, <2>3, StayCollecting
<1>28. CASE EndCapture
  BY <1>28 DEF EndCapture, control, world, calls, BootSteps
<1>29. ASSUME NEW c \in Clients, SetterNext(c) PROVE ControlOK'
  BY <1>29, SetterSteps DEF SetterEffect, control, BootSteps
<1>30. CASE CacheUsesRegion
  BY <1>30 DEF CacheUsesRegion, control, world, calls, BootSteps
<1>31. CASE Tick
  BY <1>31 DEF Tick, control, world, calls, BootSteps
<1>32. CASE SetClock
  BY <1>32 DEF SetClock, control, world, calls, BootSteps
<1>33. CASE Crash
  BY <1>33 DEF Crash, control, world, calls, BootSteps
<1>34. CASE Decay
  BY <1>34 DEF Decay, control, world, calls, BootSteps
<1>35. ASSUME NEW t \in {0, DefaultThreshold}, SetOverwriteThresholdTime(t)
      PROVE  ControlOK'
  BY <1>35 DEF SetOverwriteThresholdTime, control, world, calls
<1>36. ASSUME NEW type \in Types, NEW reason \in Reasons, Trigger(type, reason)
      PROVE  ControlOK'
  BY <1>36 DEF Trigger, Request, world, calls, BootSteps
<1>37. QED
  BY <1>1, <1>2, <1>3, <1>4, <1>5, <1>6, <1>7, <1>8, <1>9, <1>10, <1>11, <1>12,
     <1>13, <1>14, <1>15, <1>16, <1>17, <1>18, <1>19, <1>20, <1>21, <1>22, <1>23,
     <1>24, <1>25, <1>26, <1>27, <1>28, <1>29, <1>30, <1>31, <1>32, <1>33, <1>34,
     <1>35, <1>36
     DEF Next, BootNext, CaptureNext, ClientNext, WorldNext

\* Every reachable state is well typed.
THEOREM TypeCorrect == Spec => [](TypeOK /\ ControlOK)
<1>1. QED
  BY InitType, TypeStep, ControlStep, PTL DEF Spec

-----------------------------------------------------------------------------
(* The task lock.                                                           *)

\* A table leads to a locked step exactly from a locked step.
LEMMA StepsLock ==
  /\ \A s \in DOMAIN AfterCheckpoint : s \in LockedSteps <=> AfterCheckpoint[s] \in LockedSteps
  /\ \A s \in DOMAIN AfterField : s \in LockedSteps <=> AfterField[s] \in LockedSteps
  /\ \A s \in DOMAIN AfterHeader : s \notin LockedSteps /\ AfterHeader[s] \notin LockedSteps
  /\ \A s \in DOMAIN AfterDq : s \notin LockedSteps /\ AfterDq[s] \notin LockedSteps
BY StepTables, StepValues DEF LockedSteps

\* Every step keeps the lock and the locked steps of an alt capture together.
LEMMA LockStep == TypeOK /\ ControlOK /\ TaskLockBalanced /\ [Next]_vars => TaskLockBalanced'
<1> SUFFICES ASSUME TypeOK, ControlOK, TaskLockBalanced, [Next]_vars
             PROVE  TaskLockBalanced'
  OBVIOUS
<1>1. CASE UNCHANGED vars
  BY <1>1 DEF vars, control, TaskLockBalanced
<1>2. CASE Boot
  BY <1>2 DEF Boot, LockedSteps, TaskLockBalanced, control, world, calls
<1>3. CASE BootInvalidate
  BY <1>3 DEF BootInvalidate, LockedSteps, TaskLockBalanced, control, world, calls
<1>4. CASE BootClear
  BY <1>4 DEF BootClear, LockedSteps, TaskLockBalanced, control, world, calls
<1>5. CASE BootBoard
  BY <1>5 DEF BootBoard, LockedSteps, TaskLockBalanced, control, world, calls
<1>6. CASE BootEvent
  BY <1>6 DEF BootEvent, LockedSteps, TaskLockBalanced, control, world, calls
<1>7. CASE BootDone
  BY <1>7 DEF BootDone, LockedSteps, TaskLockBalanced, control, world, calls
<1>8. ASSUME NEW w \in Writers, WriteCrc(w) PROVE TaskLockBalanced'
  BY <1>8 DEF WriteCrc, TaskLockBalanced, control, world, calls
<1>9. CASE Overwrite
  BY <1>9 DEF Overwrite, LockedSteps, TaskLockBalanced, control, world, calls
<1>10. CASE Decide
  BY <1>10 DEF Decide, LockedSteps, TaskLockBalanced, control, world, calls
<1>11. CASE InvalidateOld
  BY <1>11
     DEF InvalidateOld, LockedSteps, Goto, ReturnFalse, TaskLockBalanced, control,
         world
<1>12. CASE StartDump
  BY <1>12
     DEF StartDump, LockedSteps, Goto, ReturnFalse, TaskLockBalanced, control, world, calls
<1>13. CASE SetCheckpoint
  BY <1>13, StepsLock, StepTables
     DEF SetCheckpoint, LockedSteps, Goto, ReturnFalse, TaskLockBalanced, control,
         world
<1>14. CASE SetField
  BY <1>14, StepsLock, StepTables
     DEF SetField, LockedSteps, Goto, ReturnFalse, TaskLockBalanced, control, world, calls
<1>15. CASE CopyHeader
  BY <1>15, StepsLock, StepTables
     DEF CopyHeader, LockedSteps, Goto, ReturnFalse, TaskLockBalanced, control,
         world
<1>16. CASE LockTasks
  BY <1>16
     DEF LockTasks, LockedSteps, Goto, ReturnFalse, ControlOK, TypeOK,
         TaskLockBalanced, control, world, calls
<1>17. CASE RefreshSegments
  BY <1>17
     DEF RefreshSegments, LockedSteps, Goto, ReturnFalse, TaskLockBalanced, control, world, calls
<1>18. CASE LayOutHeaders
  BY <1>18
     DEF LayOutHeaders, LockedSteps, Goto, ReturnFalse, UnlockIfAlt, TaskLockBalanced, control, world, calls
<1>19. CASE CopySegments
  BY <1>19
     DEF CopySegments, LockedSteps, Goto, ReturnFalse, UnlockIfAlt, TaskLockBalanced, control, world, calls
<1>20. CASE CopyNotes
  BY <1>20
     DEF CopyNotes, LockedSteps, Goto, ReturnFalse, UnlockIfAlt, TaskLockBalanced, control, world, calls
<1>21. CASE UnlockTasks
  BY <1>21
     DEF UnlockTasks, LockedSteps, Goto, UnlockIfAlt, TaskLockBalanced, control,
         world
<1>22. CASE CheckFtdc
  BY <1>22
     DEF CheckFtdc, LockedSteps, Goto, ReturnFalse, TaskLockBalanced, control, world, calls
<1>23. CASE CopyTraceDq
  BY <1>23, StepsLock, StepTables
     DEF CopyTraceDq, LockedSteps, Goto, ReturnFalse, TaskLockBalanced, control,
         world
<1>24. CASE ComputeDqCrc
  BY <1>24
     DEF ComputeDqCrc, LockedSteps, Goto, ReturnFalse, TaskLockBalanced, control,
         world
<1>25. CASE CopyDqSection
  BY <1>25
     DEF CopyDqSection, LockedSteps, Goto, ReturnFalse, TaskLockBalanced, control,
         world
<1>26. CASE FinishDump
  BY <1>26
     DEF FinishDump, LockedSteps, Goto, ReturnFalse, TaskLockBalanced, control,
         world
<1>27. CASE Failed
  BY <1>27
     DEF Failed, LockedSteps, Goto, ReturnFalse, TaskLockBalanced, control, world, calls
<1>28. CASE EndCapture
  BY <1>28 DEF EndCapture, LockedSteps, TaskLockBalanced, control, world, calls
<1>29. ASSUME NEW c \in Clients, SetterNext(c) PROVE TaskLockBalanced'
  BY <1>29, SetterSteps DEF SetterEffect, TaskLockBalanced, control
<1>30. CASE CacheUsesRegion
  BY <1>30 DEF CacheUsesRegion, TaskLockBalanced, control, world, calls
<1>31. CASE Tick
  BY <1>31 DEF Tick, TaskLockBalanced, control, world, calls
<1>32. CASE SetClock
  BY <1>32 DEF SetClock, TaskLockBalanced, control, world, calls
<1>33. CASE Crash
  BY <1>33 DEF Crash, LockedSteps, TaskLockBalanced, control, world, calls
<1>34. CASE Decay
  BY <1>34 DEF Decay, TaskLockBalanced, control, world, calls
<1>35. ASSUME NEW t \in {0, DefaultThreshold}, SetOverwriteThresholdTime(t)
      PROVE  TaskLockBalanced'
  BY <1>35 DEF SetOverwriteThresholdTime, TaskLockBalanced, control, world, calls
<1>36. ASSUME NEW type \in Types, NEW reason \in Reasons, Trigger(type, reason)
      PROVE  TaskLockBalanced'
  BY <1>36 DEF Trigger, TaskLockBalanced, LockedSteps
<1>37. QED
  BY <1>1, <1>2, <1>3, <1>4, <1>5, <1>6, <1>7, <1>8, <1>9, <1>10, <1>11, <1>12,
     <1>13, <1>14, <1>15, <1>16, <1>17, <1>18, <1>19, <1>20, <1>21, <1>22, <1>23,
     <1>24, <1>25, <1>26, <1>27, <1>28, <1>29, <1>30, <1>31, <1>32, <1>33, <1>34,
     <1>35, <1>36
     DEF Next, BootNext, CaptureNext, ClientNext, WorldNext

\* The task lock is never kept past the copying of an alt capture.
THEOREM LockReleased == Spec => []TaskLockBalanced
<1>1. Init => TaskLockBalanced
  BY DEF Init, TaskLockBalanced, LockedSteps
<1>2. QED
  BY <1>1, LockStep, TypeCorrect, PTL DEF Spec

-----------------------------------------------------------------------------
(* The record and the regions.                                              *)

\* A dump that no one has forced valid is complete, and only a dump like that
\* waits to be retrieved, unless the shell wants another one to be.
RecordOK(m) ==
  /\ m.valid /\ m.forced \cap {"valid", "status"} = {}
       => m.checkpoint = "CAPTURE_COMPLETE" /\ m.event # "CAPTURE_FAILED"
  /\ m.needsRetrieval /\ "wanted" \notin m.forced => m.valid /\ "valid" \notin m.forced

\* What ValidMeansComplete needs to be inductive: the object is invalid while a
\* capture collects, unless a client has forced it, and while a boot rejects a
\* dump; and only a failed capture carries the event of a failure.
RecordInv ==
  /\ RecordOK(mem) /\ RecordOK(rpa)
  /\ pc \in Collecting \cup {"start"} => (mem.valid => "valid" \in mem.forced)
  /\ pc \in {"bootClear", "bootBoard"} => ~mem.valid
  /\ pc \in Collecting \ {"failed"} =>
       mem.type = req.type /\ (mem.event = "CAPTURE_FAILED" => "status" \in mem.forced)

\* The records that clients make of a good record are good, and none of them
\* calls a dump valid by any other means than by force.
LEMMA EditRecord ==
  ASSUME NEW m \in Metadata, RecordOK(m), NEW n, ClientEdit(m, n)
  PROVE  /\ n \in Metadata /\ SameDump(m, n) /\ RecordOK(n)
         /\ (m.valid => "valid" \in m.forced) => (n.valid => "valid" \in n.forced)
         /\ (m.event = "CAPTURE_FAILED" => "status" \in m.forced)
              => (n.event = "CAPTURE_FAILED" => "status" \in n.forced)
<1> USE DEF RecordOK
<1>0. n \in Metadata /\ SameDump(m, n)
  BY DEF ClientEdit
<1>1. CASE n = Invalidated(m)
  BY <1>0, <1>1 DEF Invalidated, Metadata
<1>2. CASE Notes(m, n)
  BY <1>0, <1>2 DEF Notes
<1>3. CASE ForcesValid(m, n)
  BY <1>0, <1>3 DEF ForcesValid
<1>4. CASE ForcesWanted(m, n)
  BY <1>0, <1>4 DEF ForcesWanted
<1>5. CASE ForcesStatus(m, n)
  <2>1. "status" \in n.forced /\ ("wanted" \in n.forced <=> "wanted" \in m.forced)
          /\ ("valid" \in n.forced <=> "valid" \in m.forced)
    BY <1>5 DEF ForcesStatus
  <2>2. n.valid = m.valid /\ n.needsRetrieval = m.needsRetrieval
    BY <1>5 DEF ForcesStatus
  <2> QED
    BY <1>0, <2>1, <2>2
<1> QED
  BY <1>1, <1>2, <1>3, <1>4, <1>5 DEF ClientEdit

\* Whatever the DMA engine does, RPA holds the old record or the new one.
LEMMA WriteRecord ==
  ASSUME RecordOK(rpa), NEW w, NEW m \in Metadata, RecordOK(m), Write(w, m)
  PROVE  mem' = m /\ RecordOK(mem') /\ RecordOK(rpa)'
BY DEF Write, persistent, RecordOK

LEMMA PersistRecord ==
  ASSUME RecordOK(rpa), NEW m \in Metadata, RecordOK(m), Persist(m)
  PROVE  mem' = m /\ RecordOK(mem') /\ RecordOK(rpa)'
BY WriteRecord DEF Persist

LEMMA RecordStep == TypeOK /\ ControlOK /\ RecordInv /\ [Next]_vars => RecordInv'
<1> SUFFICES ASSUME TypeOK, ControlOK, RecordInv, [Next]_vars
             PROVE  RecordInv'
  OBVIOUS
<1>0. mem \in Metadata /\ rpa \in Metadata
  BY DEF TypeOK
<1> USE <1>0, CaptureStepsAre DEF RecordInv, Collecting
<1>1. CASE UNCHANGED vars
  BY <1>1 DEF vars, persistent, control, RecordOK
<1>2. CASE Boot
  BY <1>2 DEF Boot, persistent, control, world, calls, RecordOK
<1>3. CASE BootInvalidate
  <2> DEFINE m == Invalidated(mem)
  <2>1. m \in Metadata /\ Persist(m)
    BY <1>3, RecordTypes DEF BootInvalidate, TypeOK, Events
  <2>2. RecordOK(m)
    BY <1>3, StepTables
       DEF BootInvalidate, RecordOK, Metadata, Invalidated, StartedDump,
           FinishedDump, BlankMetadata
  <2>3. mem' = m /\ RecordOK(mem') /\ RecordOK(rpa)'
    BY <2>1, <2>2, PersistRecord
  <2>4. QED
    BY <1>3, <2>3, StepTables, StepsType
       DEF BootInvalidate, Goto, ReturnFalse, Metadata, Invalidated, StartedDump,
           FinishedDump, BlankMetadata, control
<1>4. CASE BootClear
  <2> DEFINE m == [mem EXCEPT !.event = "EVENT_CLEAR"]
  <2>1. m \in Metadata /\ Persist(m)
    BY <1>4, RecordTypes DEF BootClear, TypeOK, Events
  <2>2. RecordOK(m)
    BY <1>4, StepTables
       DEF BootClear, RecordOK, Metadata, Invalidated, StartedDump,
           FinishedDump, BlankMetadata
  <2>3. mem' = m /\ RecordOK(mem') /\ RecordOK(rpa)'
    BY <2>1, <2>2, PersistRecord
  <2>4. QED
    BY <1>4, <2>3, StepTables, StepsType
       DEF BootClear, Goto, ReturnFalse, Metadata, Invalidated, StartedDump,
           FinishedDump, BlankMetadata, control
<1>5. CASE BootBoard
  <2> DEFINE m == mem
  <2>1. m \in Metadata /\ Persist(m)
    BY <1>5, RecordTypes DEF BootBoard, TypeOK, Events
  <2>2. RecordOK(m)
    BY <1>5, StepTables
       DEF BootBoard, RecordOK, Metadata, Invalidated, StartedDump,
           FinishedDump, BlankMetadata
  <2>3. mem' = m /\ RecordOK(mem') /\ RecordOK(rpa)'
    BY <2>1, <2>2, PersistRecord
  <2>4. QED
    BY <1>5, <2>3, StepTables, StepsType
       DEF BootBoard, Goto, ReturnFalse, Metadata, Invalidated, StartedDump,
           FinishedDump, BlankMetadata, control
<1>6. CASE BootEvent
  <2>1. CASE mem.checkpoint # "CAPTURE_COMPLETE" /\ mem.event \in {"CAPTURED", "OVER_WRITTEN"}
    <3> DEFINE m == [mem EXCEPT !.event = "CAPTURE_FAILED"]
    <3>1. m \in Metadata /\ Persist(m)
      BY <1>6, <2>1, RecordTypes DEF BootEvent, Events
    <3>2. RecordOK(m)
      BY <1>6, <2>1 DEF BootEvent, RecordOK, Metadata
    <3>3. mem' = m /\ RecordOK(mem') /\ RecordOK(rpa)'
      BY <3>1, <3>2, PersistRecord
    <3>4. QED
      BY <1>6, <2>1, <3>3 DEF BootEvent, Metadata, control
  <2>2. CASE ~(mem.checkpoint # "CAPTURE_COMPLETE" /\ mem.event \in {"CAPTURED", "OVER_WRITTEN"})
    BY <1>6, <2>2 DEF BootEvent, persistent, control, RecordOK
  <2>3. QED
    BY <2>1, <2>2
<1>7. CASE BootDone
  BY <1>7 DEF BootDone, persistent, control, world, calls, RecordOK
<1>8. ASSUME NEW w \in Writers, WriteCrc(w) PROVE RecordInv'
  BY <1>8 DEF WriteCrc, persistent, control, world, calls, RecordOK
<1>9. CASE Overwrite
  <2>1. CASE mem.needsRetrieval
    <3> DEFINE m == [mem EXCEPT !.event = "OVER_WRITTEN"]
    <3>1. m \in Metadata /\ Persist(m)
      BY <1>9, <2>1, RecordTypes DEF Overwrite, Events
    <3>2. RecordOK(m)
      BY <1>9, <2>1 DEF Overwrite, RecordOK, Metadata
    <3>3. mem' = m /\ RecordOK(mem') /\ RecordOK(rpa)'
      BY <3>1, <3>2, PersistRecord
    <3>4. QED
      BY <1>9, <2>1, <3>3 DEF Overwrite, Metadata, control
  <2>2. CASE ~(mem.needsRetrieval)
    BY <1>9, <2>2 DEF Overwrite, persistent, control, RecordOK
  <2>3. QED
    BY <2>1, <2>2
<1>10. CASE Decide
  <2>1. CASE ~(req.reason \in ExemptReasons \/ Elapsed(mem) >= threshold)
    <3> DEFINE m == [mem EXCEPT !.event = "NOT_CAPTURED"]
    <3>1. m \in Metadata /\ Persist(m)
      BY <1>10, <2>1, RecordTypes DEF Decide, Events
    <3>2. RecordOK(m)
      BY <1>10, <2>1 DEF Decide, RecordOK, Metadata
    <3>3. mem' = m /\ RecordOK(mem') /\ RecordOK(rpa)'
      BY <3>1, <3>2, PersistRecord
    <3>4. QED
      BY <1>10, <2>1, <3>3 DEF Decide, Metadata, control
  <2>2. CASE ~(~(req.reason \in ExemptReasons \/ Elapsed(mem) >= threshold))
    BY <1>10, <2>2 DEF Decide, persistent, control, RecordOK
  <2>3. QED
    BY <2>1, <2>2
<1>11. CASE InvalidateOld
  <2> DEFINE m == Invalidated(mem)
  <2>1. m \in Metadata /\ Persist(m)
    BY <1>11, RecordTypes DEF InvalidateOld, TypeOK, Events
  <2>2. RecordOK(m)
    BY <1>11, StepTables
       DEF InvalidateOld, RecordOK, Metadata, Invalidated, StartedDump,
           FinishedDump, BlankMetadata
  <2>3. mem' = m /\ RecordOK(mem') /\ RecordOK(rpa)'
    BY <2>1, <2>2, PersistRecord
  <2>4. QED
    BY <1>11, <2>3, StepTables, StepsType
       DEF InvalidateOld, Goto, ReturnFalse, Metadata, Invalidated, StartedDump,
           FinishedDump, BlankMetadata, control
<1>12. CASE StartDump
  <2> DEFINE m == StartedDump(mem, captures + 1)
  <2>1. m \in Metadata /\ Persist(m)
    <3>1. req \in Request /\ captures + 1 \in Ids
      BY <1>12, DumpsAssumption DEF StartDump, ControlOK, TypeOK, Ids
    <3>2. m \in Metadata
      BY <3>1, RecordTypes
    <3>3. QED
      BY <1>12, <3>2 DEF StartDump
  <2>2. RecordOK(m)
    BY <1>12, StepTables
       DEF StartDump, RecordOK, Metadata, Invalidated, StartedDump,
           FinishedDump, BlankMetadata
  <2>3. mem' = m /\ RecordOK(mem') /\ RecordOK(rpa)'
    BY <2>1, <2>2, PersistRecord
  <2>4. QED
    BY <1>12, <2>3, StepTables, StepsType
       DEF StartDump, Goto, ReturnFalse, Metadata, Invalidated, StartedDump,
           FinishedDump, BlankMetadata, control
<1>13. CASE SetCheckpoint
  <2> DEFINE m == [mem EXCEPT !.checkpoint = "WRITING"]
  <2>1. m \in Metadata /\ Persist(m)
    BY <1>13, RecordTypes DEF SetCheckpoint, TypeOK, Events
  <2>2. RecordOK(m)
    BY <1>13, StepTables
       DEF SetCheckpoint, RecordOK, Metadata, Invalidated, StartedDump,
           FinishedDump, BlankMetadata
  <2>3. mem' = m /\ RecordOK(mem') /\ RecordOK(rpa)'
    BY <2>1, <2>2, PersistRecord
  <2>4. QED
    BY <1>13, <2>3, StepTables, StepsType
       DEF SetCheckpoint, Goto, ReturnFalse, Metadata, Invalidated, StartedDump,
           FinishedDump, BlankMetadata, control
<1>14. CASE SetField
  <2> DEFINE m == mem
  <2>1. m \in Metadata /\ Persist(m)
    BY <1>14, RecordTypes DEF SetField, TypeOK, Events
  <2>2. RecordOK(m)
    BY <1>14, StepTables
       DEF SetField, RecordOK, Metadata, Invalidated, StartedDump,
           FinishedDump, BlankMetadata
  <2>3. mem' = m /\ RecordOK(mem') /\ RecordOK(rpa)'
    BY <2>1, <2>2, PersistRecord
  <2>4. QED
    BY <1>14, <2>3, StepTables, StepsType
       DEF SetField, Goto, ReturnFalse, Metadata, Invalidated, StartedDump,
           FinishedDump, BlankMetadata, control
<1>15. CASE CopyHeader
  BY <1>15, StepTables, StepsType
     DEF CopyHeader, Goto, ReturnFalse, persistent, control, world, calls, RecordOK
<1>16. CASE LockTasks
  BY <1>16, StepTables, StepsType
     DEF LockTasks, Goto, ReturnFalse, persistent, control, world, calls, RecordOK
<1>17. CASE RefreshSegments
  BY <1>17
     DEF RefreshSegments, Goto, ReturnFalse, persistent, control, world, calls, RecordOK
<1>18. CASE LayOutHeaders
  BY <1>18
     DEF LayOutHeaders, Goto, ReturnFalse, persistent, control, world, calls, RecordOK
<1>19. CASE CopySegments
  BY <1>19
     DEF CopySegments, Goto, ReturnFalse, persistent, control, world, calls, RecordOK
<1>20. CASE CopyNotes
  BY <1>20
     DEF CopyNotes, Goto, ReturnFalse, persistent, control, world, calls, RecordOK
<1>21. CASE UnlockTasks
  BY <1>21, StepTables, StepsType
     DEF UnlockTasks, Goto, ReturnFalse, persistent, control, world, calls, RecordOK
<1>22. CASE CheckFtdc
  BY <1>22, StepTables, StepsType
     DEF CheckFtdc, Goto, ReturnFalse, persistent, control, world, calls, RecordOK
<1>23. CASE CopyTraceDq
  <2> DEFINE m == [mem EXCEPT !.checkpoint = "WRITING"]
  <2>1. m \in Metadata /\ Persist(m)
    BY <1>23, RecordTypes DEF CopyTraceDq, TypeOK, Events
  <2>2. RecordOK(m)
    BY <1>23, StepTables
       DEF CopyTraceDq, RecordOK, Metadata, Invalidated, StartedDump,
           FinishedDump, BlankMetadata
  <2>3. mem' = m /\ RecordOK(mem') /\ RecordOK(rpa)'
    BY <2>1, <2>2, PersistRecord
  <2>4. QED
    BY <1>23, <2>3, StepTables, StepsType
       DEF CopyTraceDq, Goto, ReturnFalse, Metadata, Invalidated, StartedDump,
           FinishedDump, BlankMetadata, control
<1>24. CASE ComputeDqCrc
  BY <1>24, StepTables, StepsType
     DEF ComputeDqCrc, Goto, ReturnFalse, persistent, control, world, calls, RecordOK
<1>25. CASE CopyDqSection
  BY <1>25, StepTables, StepsType
     DEF CopyDqSection, Goto, ReturnFalse, persistent, control, world, calls, RecordOK
<1>26. CASE FinishDump
  <2> DEFINE m == FinishedDump(mem)
  <2>1. m \in Metadata /\ Persist(m)
    BY <1>26, RecordTypes DEF FinishDump, TypeOK, Events
  <2>2. RecordOK(m)
    BY <1>26, StepTables
       DEF FinishDump, RecordOK, Metadata, Invalidated, StartedDump,
           FinishedDump, BlankMetadata
  <2>3. mem' = m /\ RecordOK(mem') /\ RecordOK(rpa)'
    BY <2>1, <2>2, PersistRecord
  <2>4. QED
    BY <1>26, <2>3, StepTables, StepsType
       DEF FinishDump, Goto, ReturnFalse, Metadata, Invalidated, StartedDump,
           FinishedDump, BlankMetadata, control
<1>27. CASE Failed
  <2> DEFINE m == [mem EXCEPT !.event = "CAPTURE_FAILED"]
  <2>1. m \in Metadata /\ Persist(m)
    BY <1>27, RecordTypes DEF Failed, TypeOK, Events
  <2>2. RecordOK(m)
    BY <1>27, StepTables
       DEF Failed, RecordOK, Metadata, Invalidated, StartedDump, FinishedDump,
           BlankMetadata
  <2>3. mem' = m /\ RecordOK(mem') /\ RecordOK(rpa)'
    BY <2>1, <2>2, PersistRecord
  <2>4. QED
    BY <1>27, <2>3, StepTables, StepsType
       DEF Failed, Goto, ReturnFalse, Metadata, Invalidated, StartedDump,
           FinishedDump, BlankMetadata, control
<1>28. CASE EndCapture
  BY <1>28 DEF EndCapture, persistent, control, world, calls, RecordOK
<1>29. ASSUME NEW c \in Clients, SetterNext(c) PROVE RecordInv'
  <2>1. PICK n : SetterWrites(c, n)
    BY <1>29, SetterSteps DEF SetterEffect
  <2>2. ClientEdit(mem, n) /\ Write(c, n)
    BY <2>1 DEF SetterWrites
  <2>3. mem' = n /\ RecordOK(mem') /\ RecordOK(rpa)'
    BY <2>2, EditRecord, WriteRecord
  <2>4. pc' = pc /\ req' = req /\ TasksRun
    BY <1>29, SetterSteps DEF SetterEffect, control
  <2>5. pc \notin {"bootClear", "bootBoard"}
    BY <2>4 DEF TasksRun, ControlOK, BootSteps
  <2>6. /\ SameDump(mem, mem')
        /\ (mem.valid => "valid" \in mem.forced) => (mem'.valid => "valid" \in mem'.forced)
        /\ (mem.event = "CAPTURE_FAILED" => "status" \in mem.forced)
             => (mem'.event = "CAPTURE_FAILED" => "status" \in mem'.forced)
    BY <2>2, <2>3, EditRecord
  <2>7. QED
    BY <2>3, <2>4, <2>5, <2>6 DEF SameDump
<1>30. CASE CacheUsesRegion
  BY <1>30 DEF CacheUsesRegion, persistent, control, world, calls, RecordOK
<1>31. CASE Tick
  BY <1>31 DEF Tick, persistent, control, world, calls, RecordOK
<1>32. CASE SetClock
  BY <1>32 DEF SetClock, persistent, control, world, calls, RecordOK
<1>33. CASE Crash
  BY <1>33 DEF Crash, BlankMetadata, persistent, control, world, calls, RecordOK
<1>34. CASE Decay
  BY <1>34 DEF Decay, persistent, control, world, calls, RecordOK
<1>35. ASSUME NEW t \in {0, DefaultThreshold}, SetOverwriteThresholdTime(t)
      PROVE  RecordInv'
  BY <1>35 DEF SetOverwriteThresholdTime, persistent, control, world, calls, RecordOK
<1>36. ASSUME NEW type \in Types, NEW reason \in Reasons, Trigger(type, reason)
      PROVE  RecordInv'
  BY <1>36 DEF Trigger, persistent, RecordOK
<1>37. QED
  BY <1>1, <1>2, <1>3, <1>4, <1>5, <1>6, <1>7, <1>8, <1>9, <1>10, <1>11, <1>12,
     <1>13, <1>14, <1>15, <1>16, <1>17, <1>18, <1>19, <1>20, <1>21, <1>22, <1>23,
     <1>24, <1>25, <1>26, <1>27, <1>28, <1>29, <1>30, <1>31, <1>32, <1>33, <1>34,
     <1>35, <1>36
     DEF Next, BootNext, CaptureNext, ClientNext, WorldNext

\* Neither copy of the record ever calls a half capture valid by itself.
THEOREM ValidIsComplete == Spec => []ValidMeansComplete
<1>1. Init => RecordInv
  BY CaptureStepsAre DEF Init, RecordInv, RecordOK, BlankMetadata, Collecting
<1>2. RecordInv => ValidMeansComplete
  BY DEF RecordInv, RecordOK, ValidMeansComplete
<1>3. QED
  BY <1>1, <1>2, RecordStep, TypeCorrect, PTL DEF Spec

-----------------------------------------------------------------------------
(* The dump that clients are offered.                                       *)

\* A dump that the manager wants to be retrieved from RPA.
Vouches(m) == Offered(m) /\ m.needsBackup /\ "wanted" \notin m.forced

\* From the check of the record in initialize() on, a dump that lies in RPA
\* only is whole; and so is the one that finishDump is about to publish.
IntactInv ==
  /\ pc = "finish" => region[req.type] = mem.id
  /\ (pc \in {"bootEvent", "bootDone"} \/ initComplete) /\ Vouches(mem)
       => region[mem.type] = mem.id

\* While no CRC computation fails, initialize() accepts a dump that waits for
\* its backup only if the region holds it.
LEMMA VerifyFinds ==
  ASSUME CrcFaults = FALSE, "wanted" \notin rpa.forced, rpa.needsBackup,
         TRUE \in VerifyResults
  PROVE  region[rpa.type] = rpa.id
BY DEF VerifyResults

\* A client offers no dump, except by force.
LEMMA EditOffers ==
  ASSUME NEW m \in Metadata, RecordOK(m), NEW n, ClientEdit(m, n), Offered(n),
         "wanted" \notin n.forced
  PROVE  Offered(m) /\ "wanted" \notin m.forced
<1> USE DEF Offered
<1>1. n # Invalidated(m) /\ ~ForcesWanted(m, n)
  BY DEF Invalidated, ForcesWanted, Metadata
<1>2. CASE Notes(m, n)
  BY <1>2 DEF Notes, Metadata
<1>3. CASE ForcesValid(m, n)
  BY <1>3 DEF ForcesValid, RecordOK
<1>4. CASE ForcesStatus(m, n)
  BY <1>4 DEF ForcesStatus
<1> QED
  BY <1>1, <1>2, <1>3, <1>4 DEF ClientEdit

LEMMA EditVouches ==
  ASSUME NEW m \in Metadata, RecordOK(m), NEW n, ClientEdit(m, n), Vouches(n)
  PROVE  Vouches(m)
<1>1. m.needsBackup
  BY DEF ClientEdit, Metadata, Vouches
<1> QED
  BY <1>1, EditOffers DEF Vouches

\* A step that stays in the collecting part of a capture, or comes to it.
LEMMA StillCollecting ==
  ASSUME RecordInv', pc' \in (Collecting \cup {"start"}) \ {"finish"}
  PROVE  IntactInv'
BY CaptureStepsAre DEF IntactInv, RecordInv, RecordOK, Vouches, Offered, Collecting

LEMMA IntactStep ==
  ASSUME CrcFaults = FALSE, TypeOK, ControlOK, RecordInv, IntactInv, [Next]_vars, RecordInv'
  PROVE  IntactInv'
<1>0. mem \in Metadata /\ rpa \in Metadata
  BY DEF TypeOK
<1> USE <1>0, CaptureStepsAre, StepTables DEF ControlOK, IntactInv, Vouches, Offered
<1>1. CASE UNCHANGED vars
  BY <1>1 DEF vars, control, world
<1>2. CASE Boot
  <2>1. ~initComplete' /\ pc' # "finish" /\ mem' = rpa /\ region' = region /\ pc' # "bootDone"
    BY <1>2 DEF Boot, control, world
  <2>2. ASSUME pc' = "bootEvent", Vouches(mem)'
        PROVE  region[rpa.type] = rpa.id
    <3>1. TRUE \in VerifyResults
      BY <1>2, <2>1, <2>2 DEF Boot, VerifyResults
    <3>2. QED
      BY <2>1, <2>2, <3>1, VerifyFinds
  <2>3. QED
    BY <2>1, <2>2
<1>3. CASE BootInvalidate \/ BootClear
  <2>1. ~initComplete' /\ pc' \in {"bootClear", "bootBoard"}
    BY <1>3 DEF BootInvalidate, BootClear, BootSteps, control
  <2> QED
    BY <2>1
<1>4. CASE BootBoard
  BY <1>4 DEF BootBoard, BootSteps, RecordInv, Persist, Write, control
<1>5. CASE BootEvent
  BY <1>5 DEF BootEvent, Persist, Write, Metadata, control, world
<1>6. CASE BootDone
  BY <1>6 DEF BootDone, persistent, control, world
<1>7. ASSUME NEW w \in Writers, WriteCrc(w) PROVE IntactInv'
  BY <1>7 DEF WriteCrc, control, world
<1>8. CASE Overwrite
  BY <1>8 DEF Overwrite, Persist, Write, Metadata, control, world
<1>9. CASE Decide
  BY <1>9 DEF Decide, Persist, Write, Metadata, control, world
<1>10. CASE InvalidateOld \/ StartDump
  <2>1. pc' \in {"start", "elfDirCp", "failed"}
    BY <1>10 DEF InvalidateOld, StartDump, Goto, ReturnFalse
  <2> QED
    BY <2>1, StillCollecting DEF Collecting
<1>11. CASE SetCheckpoint \/ CopyTraceDq
  <2>1. \/ pc \in DOMAIN AfterCheckpoint /\ pc' \in {AfterCheckpoint[pc], "dqSecCp"}
        \/ pc \in DOMAIN AfterDq /\ pc' \in {AfterDq[pc], "dqSecCp"}
    BY <1>11 DEF SetCheckpoint, CopyTraceDq, Goto
  <2> QED
    BY <2>1, StepValues, StillCollecting DEF Collecting
<1>12. CASE SetField \/ CopyHeader
  <2>1. \/ pc \in DOMAIN AfterField /\ pc' = AfterField[pc]
        \/ pc \in DOMAIN AfterHeader /\ pc' \in {AfterHeader[pc], "failed"}
    BY <1>12 DEF SetField, CopyHeader, Goto, ReturnFalse
  <2> QED
    BY <2>1, StepValues, StillCollecting DEF Collecting
<1>13. CASE LockTasks \/ RefreshSegments \/ LayOutHeaders \/ CopySegments \/ CopyNotes
  <2>1. pc' \in {"refresh", "notesSize", "segments", "notes", "unlock", "failed"}
    BY <1>13 DEF LockTasks, RefreshSegments, LayOutHeaders, CopySegments, CopyNotes, Goto,
                 ReturnFalse
  <2> QED
    BY <2>1, StillCollecting DEF Collecting
<1>14. CASE UnlockTasks \/ CheckFtdc \/ ComputeDqCrc
  <2>1. pc' \in {"crcSupported", "dqCp", "dqSecCp", "failed"}
    BY <1>14 DEF UnlockTasks, CheckFtdc, ComputeDqCrc, Goto, ReturnFalse
  <2> QED
    BY <2>1, StillCollecting DEF Collecting
<1>15. CASE CopyDqSection
  <2>1. \/ pc' = "failed"
        \/ pc' = "finish" /\ region' = [region EXCEPT ![req.type] = mem.id]
    BY <1>15 DEF CopyDqSection, Goto, ReturnFalse
  <2>2. req' = req /\ mem' = mem /\ req.type \in Types /\ region \in [Types -> Ids]
    BY <1>15 DEF CopyDqSection, Goto, ReturnFalse, Request, TypeOK
  <2>3. CASE pc' = "failed"
    BY <2>3, StillCollecting DEF Collecting
  <2>4. CASE pc' = "finish" /\ region' = [region EXCEPT ![req.type] = mem.id]
    <3>1. region'[req.type] = mem.id
      BY <2>2, <2>4
    <3>2. ~Vouches(mem)
      BY <1>15 DEF CopyDqSection, RecordInv, RecordOK, Collecting
    <3> QED
      BY <2>2, <2>4, <3>1, <3>2
  <2> QED
    BY <2>1, <2>3, <2>4
<1>16. CASE FinishDump
  <2>1. mem' = FinishedDump(mem) /\ pc' = "end" /\ region' = region
    BY <1>16 DEF FinishDump, Persist, Write, Goto
  <2>2. mem'.type = mem.type /\ mem'.id = mem.id
    BY <2>1 DEF FinishedDump, Metadata
  <2>3. region[req.type] = mem.id /\ mem.type = req.type
    BY <1>16 DEF FinishDump, RecordInv, Collecting
  <2> QED
    BY <2>1, <2>2, <2>3
<1>17. CASE Failed
  <2>1. mem' = [mem EXCEPT !.event = "CAPTURE_FAILED"] /\ pc' = "end"
    BY <1>17 DEF Failed, Persist, Write, Goto
  <2>2. Vouches(mem') => Vouches(mem)
    BY <2>1 DEF Metadata
  <2>3. ~Vouches(mem)
    BY <1>17 DEF Failed, RecordInv, RecordOK, Collecting
  <2> QED
    BY <2>1, <2>2, <2>3
<1>18. CASE EndCapture
  BY <1>18 DEF EndCapture, persistent, control, world
<1>19. ASSUME NEW c \in Clients, SetterNext(c) PROVE IntactInv'
  <2>1. PICK n : SetterWrites(c, n)
    BY <1>19, SetterSteps DEF SetterEffect
  <2>2. mem' = n /\ ClientEdit(mem, mem') /\ RecordOK(mem)
    BY <2>1 DEF SetterWrites, Write, RecordInv
  <2>3. SameDump(mem, mem') /\ (Vouches(mem') => Vouches(mem))
    BY <2>2, EditVouches, EditRecord
  <2>4. UNCHANGED <<pc, req, initComplete, region>>
    BY <1>19, SetterSteps DEF SetterEffect, control
  <2> QED
    BY <2>3, <2>4 DEF SameDump
<1>20. CASE CacheUsesRegion
  BY <1>20
     DEF CacheUsesRegion, TasksRun, Types, Request, TypeOK, Metadata,
         persistent, control, world
<1>21. CASE Tick \/ SetClock \/ Crash \/ Decay
  BY <1>21 DEF Tick, SetClock, Crash, Decay, persistent, control, world
<1>22. ASSUME NEW t \in {0, DefaultThreshold}, SetOverwriteThresholdTime(t)
      PROVE  IntactInv'
  BY <1>22 DEF SetOverwriteThresholdTime, persistent, control, world
<1>23. ASSUME NEW type \in Types, NEW reason \in Reasons, Trigger(type, reason)
      PROVE  IntactInv'
  BY <1>23 DEF Trigger, persistent, world
<1>24. QED
  BY <1>1, <1>2, <1>3, <1>4, <1>5, <1>6, <1>7, <1>8, <1>9, <1>10, <1>11, <1>12, <1>13,
     <1>14, <1>15, <1>16, <1>17, <1>18, <1>19, <1>20, <1>21, <1>22, <1>23
     DEF Next, BootNext, CaptureNext, ClientNext, WorldNext

\* Whatever resets, DMA failures, cache traffic and power losses come before, a
\* dump that the manager offers of its own accord and that lies in RPA only is
\* whole, as long as the RPA engine computes each CRC it is asked for.
THEOREM OfferedIsIntact ==
  ASSUME CrcFaults = FALSE
  PROVE  Spec => []ServedDumpIntact
<1>1. Init => RecordInv /\ IntactInv
  BY CaptureStepsAre
     DEF Init, RecordInv, RecordOK, IntactInv, Vouches, Offered, BlankMetadata, Collecting
<1>2. IntactInv => ServedDumpIntact
  BY DEF IntactInv, Vouches, ServedDumpIntact
<1>3. TypeOK /\ ControlOK /\ RecordInv /\ IntactInv /\ [Next]_vars /\ RecordInv' => IntactInv'
  BY IntactStep
<1>4. QED
  BY <1>1, <1>2, <1>3, RecordStep, TypeCorrect, PTL DEF Spec
=============================================================================
