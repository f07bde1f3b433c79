-------------------------- MODULE DumpResultProofs --------------------------
(***************************************************************************)
(* Theorems about the outcome of a capture in CoreDumpMgr: what it returns *)
(* is what has happened, what it replaces was free to go, what it has      *)
(* reported as saved survives a reset, and all in all the manager is the   *)
(* one-dump store of DumpStore.                                            *)
(***************************************************************************)
EXTENDS CoreDumpMgrProofs

-----------------------------------------------------------------------------
(* What steps do to the record.                                             *)

\* What the manager itself makes of a record; startDump is the only one to fill
\* a new one.
Edits(m) ==
  {m, Invalidated(m), FinishedDump(m), [m EXCEPT !.checkpoint = "WRITING"]}
  \cup {[m EXCEPT !.event = e] : e \in Events}

LEMMA EditsAre ==
  ASSUME NEW m \in Metadata, NEW n \in Edits(m)
  PROVE  n \in Metadata /\ SameDump(m, n)
<1>1. CASE n \in {m, Invalidated(m), FinishedDump(m)}
  <2>1. Invalidated(m) \in Metadata /\ SameDump(m, Invalidated(m))
    BY DEF Metadata, Invalidated, SameDump
  <2>2. FinishedDump(m) \in Metadata /\ SameDump(m, FinishedDump(m))
    BY DEF Metadata, FinishedDump, SameDump, Checkpoints
  <2>3. SameDump(m, m)
    BY DEF SameDump
  <2> QED
    BY <1>1, <2>1, <2>2, <2>3
<1>2. CASE n = [m EXCEPT !.checkpoint = "WRITING"]
  BY <1>2 DEF Metadata, SameDump, Checkpoints
<1>3. ASSUME NEW e \in Events, n = [m EXCEPT !.event = e]
      PROVE  n \in Metadata /\ SameDump(m, n)
  BY <1>3 DEF Metadata, SameDump
<1> QED
  BY <1>1, <1>2, <1>3 DEF Edits

LEMMA EventEdits == \A e \in Events : [mem EXCEPT !.event = e] \in Edits(mem)
BY DEF Edits

LEMMA PlainEdits ==
  /\ mem \in Edits(mem) /\ Invalidated(mem) \in Edits(mem) /\ FinishedDump(mem) \in Edits(mem)
  /\ [mem EXCEPT !.checkpoint = "WRITING"] \in Edits(mem)
BY DEF Edits

\* The object and its copy change by a step of the manager or of a client, a
\* capture's start, a boot or a reset.
Edited ==
  /\ captures' = captures
  /\ \/ UNCHANGED <<mem, rpa>>
     \/ \E n \in Edits(mem) : Persist(n)
     \/ \E c \in Clients : \E n : SetterWrites(c, n)

LEMMA RecordWrites ==
  ASSUME TypeOK, [Next]_vars
  PROVE  StartDump \/ Boot \/ Crash \/ Edited
<1> USE PlainEdits, EventEdits DEF Edited
<1>1. CASE UNCHANGED vars
  BY <1>1 DEF vars, persistent, world
<1>2. CASE BootInvalidate \/ BootBoard \/ BootDone
  BY <1>2 DEF BootInvalidate, BootBoard, BootDone, persistent, world
<1>3. CASE BootClear \/ BootEvent
  BY <1>3 DEF BootClear, BootEvent, Events, persistent, world
<1>4. CASE Overwrite \/ Decide \/ Failed
  BY <1>4 DEF Overwrite, Decide, Failed, Events, persistent, world
<1>5. CASE InvalidateOld \/ SetCheckpoint \/ SetField \/ CopyTraceDq \/ FinishDump
  BY <1>5 DEF InvalidateOld, SetCheckpoint, SetField, CopyTraceDq, FinishDump, world
<1>6. CASE \/ CopyHeader \/ LockTasks \/ RefreshSegments \/ LayOutHeaders \/ CopySegments
           \/ CopyNotes \/ UnlockTasks
  BY <1>6
  DEF CopyHeader, LockTasks, RefreshSegments, LayOutHeaders, CopySegments, CopyNotes,
      UnlockTasks, persistent, world
<1>7. CASE CheckFtdc \/ ComputeDqCrc \/ CopyDqSection \/ EndCapture
  BY <1>7 DEF CheckFtdc, ComputeDqCrc, CopyDqSection, EndCapture, persistent, world
<1>8. ASSUME NEW c \in Clients, SetterNext(c)
      PROVE  Edited
  BY <1>8, SetterSteps DEF SetterEffect
<1>9. CASE CacheUsesRegion \/ Tick \/ SetClock \/ Decay
  BY <1>9 DEF CacheUsesRegion, Tick, SetClock, Decay, persistent
<1>10. ASSUME NEW t \in {0, DefaultThreshold}, SetOverwriteThresholdTime(t)
       PROVE  Edited
  BY <1>10 DEF SetOverwriteThresholdTime, persistent, world
<1>11. ASSUME NEW type \in Types, NEW reason \in Reasons, Trigger(type, reason)
       PROVE  Edited
  BY <1>11 DEF Trigger, persistent, world
<1>12. ASSUME NEW w \in Writers, WriteCrc(w)
       PROVE  Edited
  BY <1>12 DEF WriteCrc, world
<1> QED
  BY <1>1, <1>2, <1>3, <1>4, <1>5, <1>6, <1>7, <1>8, <1>9, <1>10, <1>11, <1>12
  DEF Next, BootNext, CaptureNext, ClientNext, WorldNext

-----------------------------------------------------------------------------
(* What goes on beside a capture.                                           *)

\* Beside a capture, clients write the record and use the other region; beside a
\* full capture nothing runs but the RPA engine that computes its CRC.
Beside ==
  /\ UNCHANGED <<pc, req, ret, threshold, captures, inProgress>>
  /\ region'[req.type] = region[req.type]
  /\ clock' >= clock
  /\ UNCHANGED <<mem, retracted>> \/ \E c \in Clients : \E n : SetterWrites(c, n)
  /\ req.type = "FULL" => WriteCrc(Manager) \/ UNCHANGED persistent

LEMMA CaptureSides ==
  ASSUME TypeOK, ControlOK, [Next]_vars, pc \in CaptureSteps
  PROVE  CaptureNext \/ Crash \/ Beside
<1>1. /\ inProgress /\ req \in Request /\ region \in [Types -> Ids]
      /\ pc \notin {"off", "idle"} \cup BootSteps
      /\ clock \in Nat
  BY CaptureStepsAre, TimeAssumption DEF ControlOK, TypeOK, BootSteps
<1>2. req.type \in Types /\ (TasksRun => req.type # "FULL")
  BY <1>1 DEF Request, TasksRun
<1> USE <1>1, <1>2 DEF Beside
<1>3. CASE UNCHANGED vars
  BY <1>3 DEF vars, persistent, control, world, calls
<1>4. ASSUME NEW w \in Writers, WriteCrc(w)
      PROVE  Beside
  <2>1. UNCHANGED <<pc, req, ret, threshold, captures, inProgress, region, clock, mem, retracted>>
    BY <1>4 DEF WriteCrc, control, world, calls
  <2>2. req.type = "FULL" => WriteCrc(Manager)
    BY <1>4 DEF WriteCrc
  <2> QED
    BY <2>1, <2>2
<1>5. ASSUME NEW c \in Clients, SetterNext(c)
      PROVE  Beside
  <2>1. SetterEffect(c)
    BY <1>5, SetterSteps
  <2>2. UNCHANGED <<pc, req, ret, threshold, captures, inProgress, region, clock>>
    BY <2>1 DEF SetterEffect, control
  <2>3. req.type # "FULL" /\ \E n : SetterWrites(c, n)
    BY <2>1 DEF SetterEffect
  <2> QED
    BY <2>2, <2>3
<1>6. CASE CacheUsesRegion
  BY <1>6 DEF CacheUsesRegion, persistent, control, calls
<1>7. CASE Tick
  BY <1>7 DEF Tick, persistent, control, calls
<1>8. CASE SetClock
  BY <1>8 DEF SetClock, persistent, control, calls
<1>9. ~BootNext /\ ~Decay
  BY CaptureStepsAre
  DEF BootNext, Boot, BootInvalidate, BootClear, BootBoard, BootEvent, BootDone, BootSteps,
      Decay
<1>10. /\ \A t \in {0, DefaultThreshold} : ~SetOverwriteThresholdTime(t)
       /\ \A type \in Types, reason \in Reasons : ~Trigger(type, reason)
  BY CaptureStepsAre DEF SetOverwriteThresholdTime, Trigger
<1> QED
  BY <1>3, <1>4, <1>5, <1>6, <1>7, <1>8, <1>9, <1>10 DEF Next, ClientNext, WorldNext

\* A capture begins with a trigger.
LEMMA CaptureBegins ==
  ASSUME TypeOK, [Next]_vars, pc \notin CaptureSteps
  PROVE  pc' \notin CaptureSteps \ {"overwrite"}
<1>1. CASE UNCHANGED vars
  BY <1>1 DEF vars
<1>2. CASE BootNext
  BY <1>2, CaptureStepsAre
  DEF BootNext, Boot, BootInvalidate, BootClear, BootBoard, BootEvent, BootDone
<1>3. ASSUME NEW c \in Clients, SetterNext(c)
      PROVE  pc' = pc
  BY <1>3, SetterSteps DEF SetterEffect
<1>4. CASE ClientNext
  BY <1>3, <1>4, CaptureStepsAre
  DEF ClientNext, CacheUsesRegion, SetOverwriteThresholdTime, Trigger
<1>5. CASE (\E w \in Writers : WriteCrc(w)) \/ WorldNext
  BY <1>5, CaptureStepsAre DEF WriteCrc, WorldNext, Tick, SetClock, Crash, Decay
<1>6. ~CaptureNext
  BY CaptureStepsAre, StepTables
  DEF CaptureNext, Overwrite, Decide, InvalidateOld, StartDump, SetCheckpoint, SetField,
      CopyHeader, LockTasks, RefreshSegments, LayOutHeaders, CopySegments, CopyNotes,
      UnlockTasks, CheckFtdc, CopyTraceDq, ComputeDqCrc, CopyDqSection, FinishDump, Failed,
      EndCapture
<1> QED
  BY <1>1, <1>2, <1>4, <1>5, <1>6 DEF Next

-----------------------------------------------------------------------------
(* The result of a capture.                                                 *)

\* What startDump leaves of the old record.
LEMMA StartedDumpIs ==
  ASSUME NEW m, NEW id
  PROVE  LET n == StartedDump(m, id) IN
         /\ ~n.valid /\ ~n.needsRetrieval /\ ~n.needsBackup /\ n.forced = {}
         /\ n.id = id /\ n.time = Wall /\ n.birth = clock
BY DEF StartedDump, BlankMetadata

LEMMA WriteWrites ==
  ASSUME NEW w, NEW n, Write(w, n)
  PROVE  /\ mem' = n /\ rpa' \in {n, rpa}
         /\ DmaFaults = FALSE => /\ rpa' = n /\ crcDue' = crcDue \cup {w} /\ crcStale' = crcDue
BY DEF Write, persistent

LEMMA PersistWrites ==
  ASSUME NEW n, Persist(n)
  PROVE  /\ mem' = n /\ rpa' \in {n, rpa}
         /\ DmaFaults = FALSE => /\ rpa' = n /\ crcDue' = crcDue \cup {Manager}
                                /\ crcStale' = crcDue
BY WriteWrites DEF Persist

LEMMA StartDumpIs ==
  ASSUME StartDump
  PROVE  /\ mem' = StartedDump(mem, captures + 1) /\ rpa' \in {mem', rpa}
         /\ captures' = captures + 1
         /\ pc' = "elfDirCp" \/ (pc' = "failed" /\ ret' = "fail")
         /\ ~mem'.valid /\ ~mem'.needsRetrieval /\ ~mem'.needsBackup
         /\ mem'.id = captures' /\ mem'.time = Wall /\ mem'.birth = clock
<1>1. Persist(StartedDump(mem, captures + 1)) /\ captures' = captures + 1
  BY DEF StartDump
<1>2. Goto("elfDirCp") \/ ReturnFalse
  BY DEF StartDump
<1>3. mem' = StartedDump(mem, captures + 1) /\ rpa' \in {mem', rpa}
  BY <1>1, PersistWrites
<1>4. pc' = "elfDirCp" \/ (pc' = "failed" /\ ret' = "fail")
  BY <1>2 DEF Goto, ReturnFalse
<1> QED
  BY <1>1, <1>3, <1>4, StartedDumpIs

\* What the record says after a capture that has returned false, unless the
\* shell has set the event.
SaysFailed ==
  \/ "status" \in mem.forced
  \/ mem.event = "EVENT_CLEAR"
  \/ mem.event = "NOT_CAPTURED" /\ (mem.valid \/ retracted \/ "wanted" \in mem.forced)
  \/ mem.event = "CAPTURE_FAILED" /\ (mem.valid => "valid" \in mem.forced)

\* What ResultHonest needs to be inductive: the capture fills the record it has
\* started, and only a valid dump is refused an overwrite, unless a client has
\* come in between.
ResultInv ==
  /\ pc = "decide" => mem.valid \/ retracted \/ "wanted" \in mem.forced
  /\ pc \in Collecting => mem.id = captures
  /\ pc = "finish" => region[req.type] = captures
  /\ pc = "failed" => ret = "fail"
  /\ pc = "end" => IF ret = "ok"
                   THEN /\ mem.id = captures /\ region[req.type] = captures
                        /\ mem.valid \/ retracted
                   ELSE SaysFailed

\* A client beside a capture leaves the record as true as it was.
LEMMA ResultBeside ==
  ASSUME TypeOK, ControlOK, RecordInv, ResultInv, pc \in CaptureSteps, Beside
  PROVE  ResultInv'
<1>0. inProgress /\ mem \in Metadata
  BY DEF ControlOK, TypeOK
<1>1. CASE UNCHANGED <<mem, retracted>>
  BY <1>1 DEF Beside, ResultInv, SaysFailed
<1>2. ASSUME NEW c \in Clients, NEW n, SetterWrites(c, n)
      PROVE  ResultInv'
  <2>1. /\ mem' = n /\ ClientEdit(mem, n) /\ SameDump(mem, n)
        /\ \/ retracted' = retracted /\ Keeps(mem, n)
           \/ retracted' /\ n = Invalidated(mem)
    BY <1>0, <1>2 DEF SetterWrites, Write, ClientEdit
  <2>2. (mem.valid \/ retracted) => (mem'.valid \/ retracted')
    BY <2>1 DEF Keeps
  <2>3. (mem.valid \/ retracted \/ "wanted" \in mem.forced)
          => (mem'.valid \/ retracted' \/ "wanted" \in mem'.forced)
    BY <2>1 DEF Keeps
  <2>4. SaysFailed => SaysFailed'
    <3>1. CASE n = Invalidated(mem)
      <4>1. /\ mem'.event = mem.event /\ ~mem'.valid
            /\ "status" \in mem.forced => "status" \in mem'.forced
        BY <1>0, <2>1, <3>1 DEF Invalidated, Metadata
      <4> QED
        BY <2>3, <4>1 DEF SaysFailed
    <3>2. CASE Notes(mem, n)
      BY <2>1, <2>3, <3>2 DEF SaysFailed, Notes
    <3>3. CASE ForcesValid(mem, n)
      BY <2>1, <2>3, <3>3 DEF SaysFailed, ForcesValid
    <3>4. CASE ForcesWanted(mem, n)
      BY <2>1, <2>3, <3>4 DEF SaysFailed, ForcesWanted
    <3>5. CASE ForcesStatus(mem, n)
      BY <2>1, <3>5 DEF SaysFailed, ForcesStatus
    <3> QED
      BY <2>1, <3>1, <3>2, <3>3, <3>4, <3>5 DEF ClientEdit
  <2> QED
    BY <2>1, <2>2, <2>3, <2>4 DEF Beside, SameDump, ResultInv
<1> QED
  BY <1>1, <1>2 DEF Beside

\* The steps of a capture that only go on to collect.
CollectNext ==
  \/ SetCheckpoint \/ SetField \/ CopyHeader \/ LockTasks \/ RefreshSegments
  \/ LayOutHeaders \/ CopySegments \/ CopyNotes \/ UnlockTasks \/ CheckFtdc
  \/ CopyTraceDq \/ ComputeDqCrc

LEMMA CollectStep ==
  ASSUME TypeOK, ControlOK, CollectNext
  PROVE  /\ pc \in Collecting \ {"failed", "finish"}
         /\ pc' \in Collecting \ {"finish"}
         /\ pc' = "failed" => ret' = "fail"
         /\ UNCHANGED <<req, captures, inProgress, initComplete, threshold, clock>>
         /\ mem'.valid = mem.valid /\ mem'.forced = mem.forced /\ SameDump(mem, mem')
<1> USE CaptureStepsAre, StepTables, StepValues DEF Collecting
<1>1. mem \in Metadata
  BY DEF TypeOK
<1>2. CASE SetCheckpoint \/ CopyTraceDq
  <2>1. mem' = [mem EXCEPT !.checkpoint = "WRITING"]
    BY <1>2 DEF SetCheckpoint, CopyTraceDq, Persist, Write
  <2>2. mem'.valid = mem.valid /\ mem'.forced = mem.forced /\ SameDump(mem, mem')
    BY <1>1, <2>1 DEF Metadata, SameDump
  <2>3. UNCHANGED <<req, captures, inProgress, initComplete, threshold, clock>>
    BY <1>2 DEF SetCheckpoint, CopyTraceDq, Goto, world
  <2>4. CASE SetCheckpoint
    <3>1. pc \in DOMAIN AfterCheckpoint /\ pc' \in {AfterCheckpoint[pc], "dqSecCp"}
      BY <2>4 DEF SetCheckpoint, Goto
    <3> QED
      BY <2>2, <2>3, <3>1
  <2>5. CASE CopyTraceDq
    <3>1. pc \in DOMAIN AfterDq /\ pc' \in {AfterDq[pc], "dqSecCp"}
      BY <2>5 DEF CopyTraceDq, Goto
    <3> QED
      BY <2>2, <2>3, <3>1
  <2> QED
    BY <1>2, <2>4, <2>5
<1>3. CASE SetField
  BY <1>3 DEF SetField, Persist, Write, Goto, world, SameDump
<1>4. CASE CopyHeader
  <2>1. UNCHANGED <<mem, req, captures, inProgress, initComplete, threshold, clock>>
    BY <1>4 DEF CopyHeader, Goto, ReturnFalse
  <2>2. /\ pc \in DOMAIN AfterHeader
        /\ pc' = AfterHeader[pc] \/ (pc' = "failed" /\ ret' = "fail")
    BY <1>4 DEF CopyHeader, Goto, ReturnFalse
  <2> QED
    BY <2>1, <2>2 DEF SameDump
<1>5. CASE LayOutHeaders \/ CopySegments \/ CopyNotes
  <2>1. UNCHANGED <<mem, req, captures, inProgress, initComplete, threshold, clock>>
    BY <1>5 DEF LayOutHeaders, CopySegments, CopyNotes, Goto, ReturnFalse
  <2>2. /\ pc \in {"headers", "segments", "notes"}
        /\ pc' \in {"segments", "notes", "unlock"} \/ (pc' = "failed" /\ ret' = "fail")
    BY <1>5 DEF LayOutHeaders, CopySegments, CopyNotes, Goto, ReturnFalse
  <2> QED
    BY <2>1, <2>2 DEF SameDump
<1>6. CASE LockTasks \/ RefreshSegments \/ UnlockTasks \/ CheckFtdc \/ ComputeDqCrc
  BY <1>6
  DEF LockTasks, RefreshSegments, UnlockTasks, CheckFtdc, ComputeDqCrc, Goto, ReturnFalse,
      world, SameDump
<1> QED
  BY <1>2, <1>3, <1>4, <1>5, <1>6 DEF CollectNext

LEMMA ResultStep ==
  ASSUME TypeOK, ControlOK, RecordInv, ResultInv, [Next]_vars
  PROVE  ResultInv'
<1>0. mem \in Metadata /\ region \in [Types -> Ids]
  BY DEF TypeOK
<1>1. CASE pc \notin CaptureSteps
  BY <1>1, CaptureBegins, CaptureStepsAre DEF ResultInv, Collecting
<1>2. CASE Crash
  BY <1>2, CaptureStepsAre DEF Crash, ResultInv, Collecting
<1>3. CASE Beside /\ pc \in CaptureSteps
  BY <1>3, ResultBeside
<1> USE CaptureStepsAre DEF Collecting
<1>4. CASE Overwrite
  <2>1. \/ mem.needsRetrieval /\ mem' = [mem EXCEPT !.event = "OVER_WRITTEN"] /\ pc' = "decide"
        \/ pc' = "invalidate"
    BY <1>4 DEF Overwrite, Persist, Write
  <2>2. pc' = "decide" => mem'.valid \/ "wanted" \in mem'.forced
    BY <1>0, <2>1 DEF Metadata, RecordInv, RecordOK
  <2> QED
    BY <2>1, <2>2 DEF ResultInv
<1>5. CASE Decide
  <2>1. \/ pc' = "invalidate"
        \/ pc' = "end" /\ ret' = "fail" /\ mem' = [mem EXCEPT !.event = "NOT_CAPTURED"]
    BY <1>5 DEF Decide, Persist, Write
  <2>2. mem.valid \/ retracted \/ "wanted" \in mem.forced
    BY <1>5 DEF Decide, ResultInv
  <2>3. retracted' = retracted
    BY <1>5 DEF Decide, world, calls
  <2>4. pc' = "end" => SaysFailed'
    BY <1>0, <2>1, <2>2, <2>3 DEF Metadata, SaysFailed
  <2> QED
    BY <2>1, <2>4 DEF ResultInv
<1>6. CASE InvalidateOld
  BY <1>6 DEF InvalidateOld, Goto, ResultInv
<1>7. CASE StartDump
  BY <1>7, StartDumpIs DEF ResultInv
<1>8. CASE CollectNext
  BY <1>8, CollectStep DEF ResultInv, SameDump
<1>9. CASE CopyDqSection
  <2>1. req.type \in Types /\ mem.id = captures
    BY <1>9 DEF CopyDqSection, ControlOK, Request, ResultInv
  <2>2. UNCHANGED <<mem, captures, req>>
    BY <1>9 DEF CopyDqSection, Goto, ReturnFalse
  <2>3. \/ pc' = "finish" /\ region' = [region EXCEPT ![req.type] = mem.id]
        \/ pc' = "failed" /\ ret' = "fail"
    BY <1>9 DEF CopyDqSection, Goto, ReturnFalse
  <2> QED
    BY <1>0, <2>1, <2>2, <2>3 DEF ResultInv
<1>10. CASE FinishDump
  <2>1. pc = "finish" /\ pc' = "end" /\ ret' = "ok" /\ mem' = FinishedDump(mem)
    BY <1>10 DEF FinishDump, Goto, Persist, Write
  <2>2. UNCHANGED <<region, captures, req>>
    BY <1>10 DEF FinishDump, Goto
  <2>3. mem'.valid /\ mem'.id = mem.id
    BY <1>0, <2>1 DEF FinishedDump, Metadata
  <2> QED
    BY <2>1, <2>2, <2>3 DEF ResultInv
<1>11. CASE Failed
  <2>1. pc = "failed" /\ pc' = "end" /\ ret' = ret /\ mem' = [mem EXCEPT !.event = "CAPTURE_FAILED"]
    BY <1>11 DEF Failed, Goto, Persist, Write
  <2>2. mem'.event = "CAPTURE_FAILED" /\ (mem'.valid => "valid" \in mem'.forced)
    BY <1>0, <2>1 DEF Metadata, RecordInv
  <2> QED
    BY <2>1, <2>2 DEF ResultInv, SaysFailed
<1>12. CASE EndCapture
  BY <1>12 DEF EndCapture, ResultInv
<1> QED
  BY <1>1, <1>2, <1>3, <1>4, <1>5, <1>6, <1>7, <1>8, <1>9, <1>10, <1>11, <1>12, CaptureSides
  DEF CaptureNext, CollectNext

\* What triggerCoreDump returns is what has happened, whichever parts of a
\* capture, of the record's writes, and of the engines fail, and whatever clients
\* and the shell make of the record beside it.
THEOREM ResultsAreHonest == Spec => []ResultHonest
<1>1. Init => RecordInv /\ ResultInv
  BY CaptureStepsAre DEF Init, RecordInv, RecordOK, ResultInv, BlankMetadata, Collecting
<1>2. TypeOK /\ ResultInv => ResultHonest
  BY DEF TypeOK, Metadata, ResultInv, SaysFailed, ResultHonest
<1>3. TypeOK /\ ControlOK /\ RecordInv /\ ResultInv /\ [Next]_vars => ResultInv'
  BY ResultStep
<1> QED
  BY <1>1, <1>2, <1>3, RecordStep, TypeCorrect, PTL DEF Spec

-----------------------------------------------------------------------------
(* What a success leaves in RPA.                                            *)

\* With a DMA engine that works, object and copy agree.
SyncInv == pc # "off" => rpa = mem

\* The CRC word of a full dump is in RPA, or the manager is about to store the
\* one that fits: whichever client the capture has stopped in its own write, and
\* whatever that client will store later, is overwritten or not there yet.
SavedInv ==
  pc = "end" /\ ret = "ok" /\ req.type = "FULL"
    => Manager \notin crcStale /\ (Manager \in crcDue \/ crcOk)

LEMMA BootLeavesOff ==
  ASSUME TypeOK, ControlOK, [Next]_vars, pc = "off", pc' # "off"
  PROVE  Boot
<1>1. ~UNCHANGED vars /\ ~(\E w \in Writers : WriteCrc(w)) /\ ~WorldNext
  BY DEF vars, WriteCrc, WorldNext, Tick, SetClock, Crash, Decay
<1>2. ~BootInvalidate /\ ~BootClear /\ ~BootBoard /\ ~BootEvent /\ ~BootDone
  BY DEF BootInvalidate, BootClear, BootBoard, BootEvent, BootDone
<1>3. ~ClientNext
  <2>1. ~TasksRun
    BY DEF TasksRun, ControlOK
  <2>2. \A c \in Clients : ~SetterNext(c)
    BY <2>1, SetterSteps DEF SetterEffect
  <2> QED
    BY <2>1, <2>2 DEF ClientNext, CacheUsesRegion, SetOverwriteThresholdTime, Trigger
<1>4. ~CaptureNext
  BY CaptureStepsAre, StepTables
  DEF CaptureNext, Overwrite, Decide, InvalidateOld, StartDump, SetCheckpoint, SetField,
      CopyHeader, LockTasks, RefreshSegments, LayOutHeaders, CopySegments, CopyNotes,
      UnlockTasks, CheckFtdc, CopyTraceDq, ComputeDqCrc, CopyDqSection, FinishDump, Failed,
      EndCapture
<1> QED
  BY <1>1, <1>2, <1>3, <1>4 DEF Next, BootNext

\* The capture comes to its end in three ways.
LEMMA EntersEnd ==
  ASSUME TypeOK, ControlOK, CaptureNext, pc' = "end"
  PROVE  Decide \/ FinishDump \/ Failed
<1>1. ~CollectNext
  BY CollectStep DEF Collecting
<1>2. ~Overwrite /\ ~InvalidateOld /\ ~StartDump /\ ~CopyDqSection /\ ~EndCapture
  BY StartDumpIs DEF Overwrite, InvalidateOld, CopyDqSection, EndCapture, Goto, ReturnFalse
<1> QED
  BY <1>1, <1>2 DEF CaptureNext, CollectNext

LEMMA SyncStep ==
  ASSUME DmaFaults = FALSE, TypeOK, ControlOK, SyncInv, [Next]_vars
  PROVE  SyncInv'
<1> SUFFICES ASSUME pc' # "off"
             PROVE  rpa' = mem'
  BY DEF SyncInv
<1>1. CASE StartDump
  BY <1>1, PersistWrites DEF StartDump
<1>2. CASE Boot \/ Crash
  BY <1>2 DEF Boot, Crash, persistent
<1>3. ASSUME NEW n, Persist(n)
      PROVE  rpa' = mem'
  BY <1>3, PersistWrites
<1>4. ASSUME NEW c \in Clients, NEW n, SetterWrites(c, n)
      PROVE  rpa' = mem'
  BY <1>4 DEF SetterWrites, Write
<1>5. CASE UNCHANGED <<mem, rpa>> /\ pc # "off"
  BY <1>5 DEF SyncInv
<1>6. CASE pc = "off"
  BY <1>2, <1>6, BootLeavesOff
<1> QED
  BY <1>1, <1>2, <1>3, <1>4, <1>5, <1>6, RecordWrites DEF Edited

LEMMA SavedStep ==
  ASSUME DmaFaults = FALSE, TypeOK, ControlOK, ResultInv, SavedInv, [Next]_vars
  PROVE  SavedInv'
<1> SUFFICES ASSUME pc' = "end", ret' = "ok", req'.type = "FULL"
             PROVE  Manager \notin crcStale' /\ (Manager \in crcDue' \/ crcOk')
  BY DEF SavedInv
<1>1. pc \in CaptureSteps /\ ~Crash
  BY CaptureBegins, CaptureStepsAre DEF Crash
<1>2. CASE Beside
  <2>1. pc = "end" /\ ret = "ok" /\ req.type = "FULL"
    BY <1>2 DEF Beside
  <2>2. CASE WriteCrc(Manager)
    BY <2>1, <2>2 DEF WriteCrc, SavedInv
  <2>3. CASE UNCHANGED persistent
    BY <2>1, <2>3 DEF persistent, SavedInv
  <2> QED
    BY <1>2, <2>1, <2>2, <2>3 DEF Beside
<1>3. CASE Decide
  <2>1. ret' = ret \/ ret' = "fail"
    BY <1>3 DEF Decide
  <2>2. pc' = "invalidate" \/ ret' = "fail"
    BY <1>3 DEF Decide
  <2> QED
    BY <2>1, <2>2
<1>4. CASE FinishDump
  <2>1. Manager \notin crcDue /\ Persist(FinishedDump(mem))
    BY <1>4 DEF FinishDump, Ready
  <2> QED
    BY <2>1, PersistWrites
<1>5. CASE Failed
  <2>1. ret' = "fail"
    BY <1>5 DEF Failed, ResultInv
  <2> QED
    BY <2>1
<1> QED
  BY <1>1, <1>2, <1>3, <1>4, <1>5, CaptureSides, EntersEnd

\* With a DMA engine that works, what triggerCoreDump reports as captured is
\* valid in RPA, unless a client has discarded it since, and a full dump passes
\* the CRC check of any later boot: even when clients were stopped by the capture
\* between the two halves of a write.
THEOREM SuccessIsDurable ==
  ASSUME DmaFaults = FALSE
  PROVE  Spec => []SuccessSurvives
<1>1. Init => RecordInv /\ ResultInv /\ SyncInv /\ SavedInv
  BY CaptureStepsAre
  DEF Init, RecordInv, RecordOK, ResultInv, SyncInv, SavedInv, BlankMetadata, Collecting
<1>2. ResultInv /\ SyncInv /\ SavedInv => SuccessSurvives
  BY DEF ResultInv, SyncInv, SavedInv, SuccessSurvives, Ready
<1>3. TypeOK /\ ControlOK /\ RecordInv /\ ResultInv /\ [Next]_vars => ResultInv'
  BY ResultStep
<1>4. TypeOK /\ ControlOK /\ SyncInv /\ [Next]_vars => SyncInv'
  BY SyncStep
<1>5. TypeOK /\ ControlOK /\ ResultInv /\ SavedInv /\ [Next]_vars => SavedInv'
  BY SavedStep
<1> QED
  BY <1>1, <1>2, <1>3, <1>4, <1>5, RecordStep, TypeCorrect, PTL DEF Spec

-----------------------------------------------------------------------------
(* What a capture replaces.                                                 *)

\* A clock that is never set, and wide enough for the time there is.
SteadyTime == Skews = {0} /\ MaxTime < ClockModulus

\* The time in a record is when its capture began.
Timed(m) == m.time = m.birth /\ m.birth <= clock
TimeInv  == Timed(mem) /\ Timed(rpa)

LEMMA SmallModulo ==
  ASSUME NEW n \in Nat, n < ClockModulus
  PROVE  n % ClockModulus = n
BY TimeAssumption

LEMMA WallIsClock ==
  ASSUME SteadyTime, TypeOK
  PROVE  Wall = clock
<1>1. skew = 0 /\ clock \in Nat /\ clock < ClockModulus
  BY TimeAssumption DEF SteadyTime, TypeOK
<1> QED
  BY <1>1, SmallModulo DEF Wall

\* So the UINT32 difference is the age of the dump.
LEMMA ElapsedIsAge ==
  ASSUME SteadyTime, TypeOK, TimeInv
  PROVE  Elapsed(mem) = clock - mem.birth
<1>1. clock \in Nat /\ clock < ClockModulus /\ mem.birth \in Nat /\ mem.time = mem.birth
      /\ mem.birth <= clock
  BY TimeAssumption DEF SteadyTime, TypeOK, TimeInv, Timed, Metadata
<1>2. clock - mem.birth \in Nat /\ clock - mem.birth < ClockModulus
  BY <1>1, TimeAssumption
<1> QED
  BY <1>1, <1>2, SmallModulo, WallIsClock DEF Elapsed

LEMMA ClockStep ==
  ASSUME TypeOK, [Next]_vars
  PROVE  clock' \in {clock, clock + 1}
<1>1. CASE UNCHANGED vars
  BY <1>1 DEF vars, world
<1>2. CASE BootNext \/ \E w \in Writers : WriteCrc(w)
  BY <1>2
  DEF BootNext, Boot, BootInvalidate, BootClear, BootBoard, BootEvent, BootDone, WriteCrc, world
<1>3. CASE CaptureNext
  BY <1>3
  DEF CaptureNext, Overwrite, Decide, InvalidateOld, StartDump, SetCheckpoint, SetField,
      CopyHeader, LockTasks, RefreshSegments, LayOutHeaders, CopySegments, CopyNotes,
      UnlockTasks, CheckFtdc, CopyTraceDq, ComputeDqCrc, CopyDqSection, FinishDump, Failed,
      EndCapture, world
<1>4. ASSUME NEW c \in Clients, SetterNext(c)
      PROVE  clock' = clock
  BY <1>4, SetterSteps DEF SetterEffect
<1>5. CASE ClientNext
  BY <1>4, <1>5 DEF ClientNext, CacheUsesRegion, SetOverwriteThresholdTime, Trigger, world
<1>6. CASE WorldNext
  BY <1>6 DEF WorldNext, Tick, SetClock, Crash, Decay
<1> QED
  BY <1>1, <1>2, <1>3, <1>5, <1>6 DEF Next

LEMMA TimeStep ==
  ASSUME SteadyTime, TypeOK, TimeInv, [Next]_vars
  PROVE  TimeInv'
<1>0. /\ clock \in Nat /\ clock' \in {clock, clock + 1}
      /\ mem \in Metadata /\ mem.birth \in Nat /\ rpa.birth \in Nat
  BY ClockStep, TimeAssumption DEF TypeOK, Metadata
<1>1. CASE StartDump
  BY <1>0, <1>1, StartDumpIs, WallIsClock DEF TimeInv, Timed
<1>2. CASE Boot
  BY <1>0, <1>2 DEF Boot, persistent, TimeInv, Timed
<1>3. CASE Crash
  BY <1>0, <1>3 DEF Crash, BlankMetadata, TimeInv, Timed
<1>4. CASE UNCHANGED <<mem, rpa>>
  BY <1>0, <1>4 DEF TimeInv, Timed
<1>5. ASSUME NEW n, SameDump(mem, n), mem' = n, rpa' \in {n, rpa}
      PROVE  TimeInv'
  BY <1>0, <1>5 DEF SameDump, TimeInv, Timed
<1>6. ASSUME NEW n \in Edits(mem), Persist(n)
      PROVE  TimeInv'
  BY <1>0, <1>5, <1>6, PersistWrites, EditsAre
<1>7. ASSUME NEW c \in Clients, NEW n, SetterWrites(c, n)
      PROVE  TimeInv'
  BY <1>5, <1>7, WriteWrites DEF SetterWrites, ClientEdit
<1> QED
  BY <1>1, <1>2, <1>3, <1>4, <1>6, <1>7, RecordWrites DEF Edited

\* The threshold has been asked before the old dump is invalidated, unless the
\* shell has called that dump unretrieved.
MayReplace ==
  \/ req.reason \in ExemptReasons
  \/ clock - mem.birth >= threshold
  \/ "wanted" \in mem.forced
ProtectInv == pc = "invalidate" /\ Offered(mem) => MayReplace

LEMMA ProtectStep ==
  ASSUME SteadyTime, TypeOK, ControlOK, RecordInv, TimeInv, ProtectInv, [Next]_vars
  PROVE  ProtectInv'
<1> SUFFICES ASSUME pc' = "invalidate", Offered(mem'), "wanted" \notin mem'.forced
             PROVE  (req.reason \in ExemptReasons \/ clock - mem.birth >= threshold)'
  BY DEF ProtectInv, Offered, MayReplace
<1>0. /\ pc \in CaptureSteps /\ ~Crash
      /\ clock \in Nat /\ clock' \in Nat /\ mem.birth \in Nat /\ threshold \in Nat
      /\ mem \in Metadata /\ RecordOK(mem)
  BY CaptureBegins, CaptureStepsAre, ClockStep, TimeAssumption
  DEF Crash, TypeOK, Metadata, RecordInv
<1>1. CASE Beside
  <2>1. /\ Offered(mem) /\ "wanted" \notin mem.forced /\ mem'.birth = mem.birth
    <3>1. CASE UNCHANGED mem
      BY <3>1
    <3>2. ASSUME NEW c \in Clients, NEW n, SetterWrites(c, n)
          PROVE  /\ Offered(mem) /\ "wanted" \notin mem.forced /\ mem'.birth = mem.birth
      <4>1. mem' = n /\ ClientEdit(mem, n) /\ SameDump(mem, n)
        BY <3>2 DEF SetterWrites, Write, ClientEdit
      <4>2. Offered(n) /\ "wanted" \notin n.forced
        BY <4>1
      <4> QED
        BY <1>0, <4>1, <4>2, EditOffers DEF SameDump
    <3> QED
      BY <1>1, <3>1, <3>2 DEF Beside
  <2> QED
    BY <1>0, <1>1, <2>1 DEF Beside, ProtectInv, MayReplace
<1>2. CASE Overwrite
  <2>1. mem' = mem /\ ~mem.needsRetrieval
    BY <1>2 DEF Overwrite
  <2> QED
    BY <2>1 DEF Offered
<1>3. CASE Decide
  <2>1. req.reason \in ExemptReasons \/ Elapsed(mem) >= threshold
    BY <1>3 DEF Decide
  <2>2. UNCHANGED <<mem, req, clock, threshold>>
    BY <1>3 DEF Decide, world
  <2> QED
    BY <2>1, <2>2, ElapsedIsAge
<1>4. ~InvalidateOld /\ ~StartDump /\ ~CopyDqSection /\ ~FinishDump /\ ~Failed /\ ~EndCapture
  BY StartDumpIs
  DEF InvalidateOld, CopyDqSection, FinishDump, Failed, EndCapture, Goto, ReturnFalse
<1>5. ~CollectNext
  BY CollectStep DEF Collecting
<1> QED
  BY <1>0, <1>1, <1>2, <1>3, <1>4, <1>5, CaptureSides DEF CaptureNext, CollectNext

\* A step of a capture that takes away an offered dump is the invalidation.
LEMMA ReplaceStep ==
  ASSUME TypeOK, ControlOK, RecordInv, ProtectInv, [Next]_vars,
         inProgress, pc' \notin {pc, "off"}, Offered(mem), ~Offered(mem')
  PROVE  MayReplace
<1> SUFFICES ASSUME "wanted" \notin mem.forced
             PROVE  MayReplace
  BY DEF MayReplace
<1>0. /\ pc \in CaptureSteps /\ ~Crash /\ ~Beside
      /\ mem \in Metadata /\ mem.valid /\ "valid" \notin mem.forced
  BY DEF ControlOK, Crash, Beside, TypeOK, Offered, RecordInv, RecordOK
<1>1. pc \notin Collecting \cup {"start"}
  BY <1>0 DEF RecordInv
<1>2. ~StartDump /\ ~CollectNext /\ ~CopyDqSection /\ ~FinishDump /\ ~Failed
  BY <1>1, CollectStep, CaptureStepsAre
  DEF StartDump, CopyDqSection, FinishDump, Failed, Collecting
<1>3. ~EndCapture
  BY DEF EndCapture
<1>4. ~Overwrite /\ ~Decide
  <2>1. ASSUME Overwrite \/ Decide
        PROVE  mem' = mem \/ \E e \in Events : mem' = [mem EXCEPT !.event = e]
    BY <2>1 DEF Overwrite, Decide, Persist, Write, Events
  <2> QED
    BY <1>0, <2>1 DEF Offered, Metadata
<1>5. CASE InvalidateOld
  BY <1>5 DEF InvalidateOld, ProtectInv
<1> QED
  BY <1>0, <1>2, <1>3, <1>4, <1>5, CaptureSides DEF CaptureNext, CollectNext

\* As long as the clock is not set and does not wrap around, a capture gives up
\* a dump that nobody has retrieved only for an exempt reason, or when the dump
\* is older than the threshold, or once the shell has meddled with its flags.
THEOREM UnretrievedStays ==
  ASSUME SteadyTime
  PROVE  Spec => UnretrievedProtected
<1>1. Init => RecordInv /\ TimeInv /\ ProtectInv
  BY CaptureStepsAre
  DEF Init, RecordInv, RecordOK, TimeInv, Timed, ProtectInv, BlankMetadata, Collecting
<1>2. TypeOK /\ TimeInv /\ [Next]_vars => TimeInv'
  BY TimeStep
<1>3. TypeOK /\ ControlOK /\ RecordInv /\ TimeInv /\ ProtectInv /\ [Next]_vars => ProtectInv'
  BY ProtectStep
<1>4. TypeOK /\ ControlOK /\ RecordInv /\ ProtectInv /\ [Next]_vars =>
        [inProgress /\ pc' \notin {pc, "off"} /\ Offered(mem) /\ ~Offered(mem')
         => \/ req.reason \in ExemptReasons
            \/ clock - mem.birth >= threshold
            \/ "wanted" \in mem.forced]_vars
  BY ReplaceStep DEF MayReplace
<1> QED
  BY <1>1, <1>2, <1>3, <1>4, RecordStep, TypeCorrect, PTL DEF Spec, UnretrievedProtected

-----------------------------------------------------------------------------
(***************************************************************************)
(* CoreDumpMgr implements DumpStore: with a DMA engine that works, each of *)
(* its steps is a step of the store or leaves the store as it is.          *)
(***************************************************************************)

\* What holds of the manager whenever a step begins.
Running == TypeOK /\ ControlOK /\ RecordInv /\ ResultInv /\ SyncInv

LEMMA ManagerStep ==
  ASSUME DmaFaults = FALSE, Running, [Next]_vars
  PROVE  Running'
<1>1. TypeOK /\ ControlOK /\ RecordInv /\ ResultInv /\ SyncInv
  BY DEF Running
<1> QED
  BY <1>1, TypeStep, ControlStep, RecordStep, ResultStep, SyncStep DEF Running

-----------------------------------------------------------------------------
(* What the store sees of a step.                                           *)

View == <<Stored, Served, captures>>

\* A running manager whose object keeps its dump shows the same as before.
LEMMA SameDumpSameView ==
  ASSUME SyncInv, SyncInv', pc # "off", pc' # "off", Vouched(mem') <=> Vouched(mem),
         mem'.id = mem.id, UNCHANGED <<initComplete, captures>>
  PROVE  UNCHANGED View
<1>1. rpa = mem /\ rpa' = mem'
  BY DEF SyncInv
<1> QED
  BY <1>1 DEF View, Stored, Served

\* A record nobody but the shell calls valid shows no dump.
LEMMA NoDumpNoView ==
  ASSUME SyncInv, pc # "off", ~Vouched(mem)
  PROVE  Stored = NoDump /\ Served = NoDump
BY DEF SyncInv, Stored, Served

\* Every step of the manager but those that set the valid flag keeps it.
LEMMA EditsKeepValid ==
  ASSUME NEW m \in Metadata,
         NEW n \in {m, [m EXCEPT !.checkpoint = "WRITING"]} \cup {[m EXCEPT !.event = e] : e \in Events}
  PROVE  (Vouched(n) <=> Vouched(m)) /\ n.id = m.id
<1>1. CASE n = m \/ n = [m EXCEPT !.checkpoint = "WRITING"]
  BY <1>1 DEF Metadata, Vouched
<1>2. ASSUME NEW e \in Events, n = [m EXCEPT !.event = e]
      PROVE  (Vouched(n) <=> Vouched(m)) /\ n.id = m.id
  BY <1>2 DEF Metadata, Vouched
<1> QED
  BY <1>1, <1>2

\* A client takes a dump away or leaves it: what it calls valid is none.
LEMMA ClientsKeepValid ==
  ASSUME NEW m \in Metadata, NEW n, ClientEdit(m, n), n # Invalidated(m)
  PROVE  (Vouched(n) <=> Vouched(m)) /\ n.id = m.id
<1>1. n.id = m.id
  BY DEF ClientEdit, SameDump
<1>2. Vouched(n) <=> Vouched(m)
  BY DEF ClientEdit, Notes, ForcesValid, ForcesWanted, ForcesStatus, Vouched
<1> QED
  BY <1>1, <1>2

Kept == (Vouched(mem') <=> Vouched(mem)) /\ mem'.id = mem.id

\* An invalidated record is a drop, whether or not a capture is under way.
LEMMA InvalidatedDrops ==
  ASSUME Running, SyncInv', pc' # "off", mem' = Invalidated(mem), captures' = captures,
         UNCHANGED Busy
  PROVE  Store!Drop
<1>1. ~Vouched(mem')
  BY DEF Running, TypeOK, Metadata, Invalidated, Vouched
<1>2. Stored' = NoDump /\ Served' = NoDump
  BY <1>1 DEF SyncInv, Stored, Served
<1> QED
  BY <1>2 DEF Store!Drop, Store!None, NoDump

-----------------------------------------------------------------------------
(* The steps, one by one.                                                   *)

StoreStutters == UNCHANGED <<Stored, Served, captures, Busy>>
StoreSteps == Store!StoreNext \/ StoreStutters

LEMMA BootRefines ==
  ASSUME Running, SyncInv', BootNext
  PROVE  StoreSteps
<1>0. /\ mem \in Metadata /\ ~inProgress /\ ~initComplete
      /\ pc \in BootSteps \cup {"off"}
  BY CaptureStepsAre
  DEF BootNext, Boot, BootInvalidate, BootClear, BootBoard, BootEvent, BootDone, Running,
      TypeOK, ControlOK, BootSteps
<1>1. UNCHANGED <<inProgress, captures>> /\ UNCHANGED Busy /\ pc' # "off"
  BY <1>0
  DEF BootNext, Boot, BootInvalidate, BootClear, BootBoard, BootEvent, BootDone, Busy, Writing,
      control, world
<1>2. CASE Boot
  BY <1>0, <1>1, <1>2 DEF Boot, persistent, control, Stored, Served, StoreSteps, StoreStutters
<1>3. CASE BootInvalidate
  <2>1. mem' = Invalidated(mem)
    BY <1>3 DEF BootInvalidate, Persist, Write
  <2> QED
    BY <1>1, <2>1, InvalidatedDrops DEF StoreSteps, Store!StoreNext
<1>4. CASE BootClear \/ BootBoard \/ BootEvent
  <2>1. \/ mem' = mem
        \/ \E e \in Events : mem' = [mem EXCEPT !.event = e]
    BY <1>4 DEF BootClear, BootBoard, BootEvent, Persist, Write, Events
  <2>2. Kept
    BY <1>0, <2>1, EditsKeepValid DEF Kept
  <2>3. pc # "off" /\ initComplete' = initComplete
    BY <1>4 DEF BootClear, BootBoard, BootEvent, control
  <2> QED
    BY <1>1, <2>2, <2>3, SameDumpSameView DEF Kept, Running, View, StoreSteps, StoreStutters
<1>5. CASE BootDone
  <2>1. UNCHANGED <<mem, rpa>> /\ rpa = mem /\ initComplete'
    BY <1>5 DEF BootDone, persistent, Running, SyncInv
  <2>2. Stored' = Stored /\ Served' = Stored
    BY <2>1 DEF Stored, Served
  <2> QED
    BY <1>1, <2>2 DEF StoreSteps, Store!StoreNext, Store!Recover
<1> QED
  BY <1>2, <1>3, <1>4, <1>5 DEF BootNext

LEMMA CaptureRefines ==
  ASSUME Running, Running', CaptureNext
  PROVE  StoreSteps
<1>0. /\ mem \in Metadata /\ pc \in CaptureSteps /\ initComplete /\ inProgress
      /\ pc # "off" /\ captures \in Nat
  <2>1. pc \in CaptureSteps
    BY CaptureStepsAre, StepTables
    DEF CaptureNext, Overwrite, Decide, InvalidateOld, StartDump, SetCheckpoint, SetField,
        CopyHeader, LockTasks, RefreshSegments, LayOutHeaders, CopySegments, CopyNotes,
        UnlockTasks, CheckFtdc, CopyTraceDq, ComputeDqCrc, CopyDqSection, FinishDump, Failed,
        EndCapture
  <2> QED
    BY <2>1, CaptureStepsAre, DumpsAssumption DEF Running, TypeOK, ControlOK, BootSteps, Ids
<1>1. SyncInv /\ SyncInv'
  BY DEF Running
<1> USE DEF StoreSteps, StoreStutters
<1>2. CASE Overwrite \/ Decide
  <2>1. \/ mem' = mem
        \/ \E e \in Events : mem' = [mem EXCEPT !.event = e]
    BY <1>2 DEF Overwrite, Decide, Persist, Write, Events
  <2>2. Kept
    BY <1>0, <2>1, EditsKeepValid DEF Kept
  <2>3. /\ UNCHANGED <<initComplete, captures>> /\ pc' # "off"
        /\ Busy = FALSE /\ Busy' = FALSE
    BY <1>2 DEF Overwrite, Decide, control, world, Busy, Writing
  <2> QED
    BY <1>0, <1>1, <2>2, <2>3, SameDumpSameView DEF Kept, View
<1>3. CASE InvalidateOld
  <2>1. /\ mem' = Invalidated(mem) /\ captures' = captures
        /\ pc' # "off" /\ Busy = FALSE /\ Busy' = FALSE
    BY <1>3 DEF InvalidateOld, Persist, Write, Goto, world, Busy, Writing
  <2> QED
    BY <1>1, <2>1, InvalidatedDrops DEF Store!StoreNext
<1>4. CASE StartDump
  <2>1. pc = "start" /\ ~Vouched(mem) /\ captures < MaxDumps
    BY <1>4 DEF StartDump, Running, RecordInv, ControlOK, Vouched
  <2>2. ~Vouched(mem') /\ captures' = captures + 1 /\ pc' # "off"
    BY <1>4, StartDumpIs DEF Vouched
  <2>3. Stored = NoDump /\ Served = NoDump /\ Stored' = NoDump /\ Served' = NoDump
    BY <1>0, <1>1, <2>1, <2>2, NoDumpNoView DEF SyncInv, Stored, Served
  <2>4. Busy' \in BOOLEAN
    BY DEF Busy, Writing
  <2> QED
    BY <2>1, <2>2, <2>3, <2>4 DEF Store!StoreNext, Store!Begin, Store!None, NoDump
<1>5. CASE CollectNext
  <2>1. /\ pc \in Collecting \ {"failed", "finish"} /\ pc' \in Collecting \ {"finish"}
        /\ UNCHANGED <<initComplete, captures, inProgress>> /\ Kept
    BY <1>5, CollectStep DEF Running, SameDump, Kept, Vouched
  <2>2. pc' # "off" /\ Busy = TRUE
    BY <1>0, <2>1, CaptureStepsAre DEF Collecting, Busy, Writing
  <2>3. UNCHANGED View
    BY <1>0, <1>1, <2>1, <2>2, SameDumpSameView DEF Kept
  <2>4. Busy' \in BOOLEAN
    BY DEF Busy, Writing
  <2> QED
    BY <2>1, <2>2, <2>3, <2>4 DEF View, Store!StoreNext, Store!GiveUp
<1>6. CASE CopyDqSection
  <2>1. /\ UNCHANGED <<mem, initComplete, captures>> /\ pc' # "off"
    BY <1>6 DEF CopyDqSection, Goto, ReturnFalse
  <2>2. Busy = TRUE /\ Busy' \in BOOLEAN
    BY <1>0, <1>6 DEF CopyDqSection, Busy, Writing
  <2>3. UNCHANGED View
    BY <1>0, <1>1, <2>1, SameDumpSameView
  <2> QED
    BY <2>2, <2>3 DEF View, Store!StoreNext, Store!GiveUp
<1>7. CASE FinishDump
  <2>1. /\ pc = "finish" /\ pc' = "end" /\ ret' = "ok"
        /\ UNCHANGED <<initComplete, captures>>
    BY <1>7 DEF FinishDump, Goto, world
  <2>2. mem' = FinishedDump(mem) /\ rpa' = mem' /\ mem.id = captures
    BY <1>0, <1>7, <2>1, PersistWrites, CaptureStepsAre
    DEF FinishDump, Running, SyncInv, ResultInv, Collecting
  <2>5. Vouched(mem') /\ mem'.id = captures
    BY <1>0, <2>2 DEF FinishedDump, Metadata, Vouched
  <2>3. Stored' = captures /\ Served' = captures
    BY <1>0, <2>1, <2>2, <2>5 DEF Stored, Served
  <2>4. Busy /\ Busy' = FALSE
    BY <1>0, <2>1 DEF Busy, Writing
  <2> QED
    BY <2>1, <2>3, <2>4 DEF Store!StoreNext, Store!Publish
<1>8. CASE Failed
  <2>1. mem' = [mem EXCEPT !.event = "CAPTURE_FAILED"]
    BY <1>8 DEF Failed, Persist, Write
  <2>2. Kept
    BY <1>0, <2>1, EditsKeepValid DEF Kept, Events
  <2>3. /\ UNCHANGED <<initComplete, captures>> /\ pc' # "off"
        /\ Busy = FALSE /\ Busy' = FALSE
    BY <1>8 DEF Failed, Goto, world, Busy, Writing
  <2> QED
    BY <1>0, <1>1, <2>2, <2>3, SameDumpSameView DEF Kept, View
<1>9. CASE EndCapture
  <2>1. /\ UNCHANGED <<mem, initComplete, captures>> /\ pc' # "off"
        /\ Busy = FALSE /\ Busy' = FALSE
    BY <1>9 DEF EndCapture, world, Busy, Writing
  <2> QED
    BY <1>0, <1>1, <2>1, SameDumpSameView DEF View
<1> QED
  BY <1>2, <1>3, <1>4, <1>5, <1>6, <1>7, <1>8, <1>9 DEF CaptureNext, CollectNext

LEMMA ClientRefines ==
  ASSUME Running, SyncInv', ClientNext
  PROVE  StoreSteps
<1>0. mem \in Metadata /\ SyncInv
  BY DEF Running, TypeOK
<1>1. TasksRun => pc # "off"
  BY DEF TasksRun, Running, ControlOK
<1> USE DEF StoreSteps, StoreStutters
<1>2. ASSUME NEW c \in Clients, SetterNext(c)
      PROVE  StoreSteps
  <2>1. /\ UNCHANGED <<pc, initComplete, inProgress, captures>> /\ TasksRun
        /\ \E n : SetterWrites(c, n)
    BY <1>2, SetterSteps DEF SetterEffect, Running, control
  <2>2. UNCHANGED Busy /\ pc # "off" /\ pc' # "off"
    BY <1>1, <2>1 DEF Busy, Writing
  <2>3. PICK n : SetterWrites(c, n)
    BY <2>1
  <2>4. mem' = n /\ ClientEdit(mem, n)
    BY <2>3 DEF SetterWrites, Write
  <2>5. CASE n = Invalidated(mem)
    BY <2>1, <2>2, <2>4, <2>5, InvalidatedDrops DEF Store!StoreNext
  <2>6. CASE n # Invalidated(mem)
    <3>1. Kept
      BY <1>0, <2>4, <2>6, ClientsKeepValid DEF Kept
    <3> QED
      BY <1>0, <2>1, <2>2, <3>1, SameDumpSameView DEF Kept, View
  <2> QED
    BY <2>5, <2>6
<1>3. CASE CacheUsesRegion
  BY <1>3 DEF CacheUsesRegion, persistent, control, Stored, Served, Busy, Writing
<1>4. ASSUME NEW t \in {0, DefaultThreshold}, SetOverwriteThresholdTime(t)
      PROVE  StoreSteps
  BY <1>4
  DEF SetOverwriteThresholdTime, persistent, control, world, Stored, Served, Busy, Writing
<1>5. ASSUME NEW type \in Types, NEW reason \in Reasons, Trigger(type, reason)
      PROVE  StoreSteps
  BY <1>5 DEF Trigger, persistent, world, Stored, Served, Busy, Writing
<1> QED
  BY <1>2, <1>3, <1>4, <1>5 DEF ClientNext

LEMMA WorldRefines ==
  ASSUME Running, WorldNext \/ (\E w \in Writers : WriteCrc(w)) \/ UNCHANGED vars
  PROVE  StoreSteps
<1> USE DEF StoreSteps, StoreStutters
<1>1. CASE Crash
  <2>1. Stored' = Stored /\ Served' = NoDump /\ Busy' = FALSE /\ captures' = captures
    BY <1>1 DEF Crash, world, Stored, Served, Busy, Writing
  <2> QED
    BY <2>1 DEF Store!StoreNext, Store!Restart, Store!None, NoDump
<1>2. CASE Tick \/ SetClock \/ Decay \/ (\E w \in Writers : WriteCrc(w)) \/ UNCHANGED vars
  <2>1. UNCHANGED <<mem, rpa, pc, control, captures>>
    BY <1>2 DEF Tick, SetClock, Decay, WriteCrc, vars, persistent, world
  <2> QED
    BY <2>1 DEF control, Stored, Served, Busy, Writing
<1> QED
  BY <1>1, <1>2 DEF WorldNext

LEMMA StoreStep ==
  ASSUME DmaFaults = FALSE, Running, [Next]_vars
  PROVE  [Store!StoreNext]_(Store!storeVars)
<1>1. Running' /\ SyncInv'
  BY ManagerStep DEF Running
<1>2. StoreSteps
  BY <1>1, BootRefines, CaptureRefines, ClientRefines, WorldRefines DEF Next
<1> QED
  BY <1>2 DEF StoreSteps, StoreStutters, Store!storeVars

\* As long as the DMA engine works, the manager is a durable store for one dump:
\* through resets at any step, torn record writes, rejected records and captures
\* that fail, no half dump is published and no dump that is gone comes back.
THEOREM ManagerImplementsStore ==
  ASSUME DmaFaults = FALSE
  PROVE  Spec => ImplementsStore
<1>1. Init => Running
  BY InitType, CaptureStepsAre
  DEF Running, Init, RecordInv, RecordOK, ResultInv,
      SyncInv, BlankMetadata, Collecting
<1>2. Init => Store!StoreInit
  BY DEF Init, BlankMetadata, Store!StoreInit, Store!None, NoDump, Stored, Served, Busy, Writing
<1>3. Running /\ [Next]_vars => Running'
  BY ManagerStep
<1>4. Running /\ [Next]_vars => [Store!StoreNext]_(Store!storeVars)
  BY StoreStep
<1> QED
  BY <1>1, <1>2, <1>3, <1>4, PTL DEF Spec, ImplementsStore, Store!StoreSpec
=============================================================================
