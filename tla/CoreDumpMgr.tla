---------------------------- MODULE CoreDumpMgr ----------------------------
(***************************************************************************)
(* The core dump manager of one controller: dcd::CoreDumpManager together  *)
(* with the metadata record it keeps (dcd::RWCoreDumpMetadataRecord).      *)
(*                                                                         *)
(* The record exists twice: `mem' is the object m_Metadata, `rpa' the copy *)
(* in RPA memory that survives a reset.  Every setter assigns the object   *)
(* and then calls writeToRpa, which copies the body with the DMA engine    *)
(* and, only when that succeeds, stores the CRC of the body in a second    *)
(* write.  A reset may hit between any two of these writes, and as nothing *)
(* is locked, so may another task that writes the record.                  *)
(*                                                                         *)
(* A capture walks through its steps (`pc') one RPA access at a time.      *)
(*                                                                         *)
(* `id' and `birth' are ghost fields: which capture a record describes and *)
(* when, in true time, that capture started.  `region[t]' is the id of the *)
(* capture whose complete image lies in the region for dumps of type t, or *)
(* NoDump when the region holds anything else.                             *)
(*                                                                         *)
(* The setters of the record are also commands of the shell, which takes   *)
(* any value at any time: a maintainer can call an aborted capture valid.  *)
(* The ghost field `forced' of a record says which of its fields hold what *)
(* the shell has set them to, for such a record is the maintainer's word   *)
(* and no longer the manager's.                                            *)
(***************************************************************************)
EXTENDS Integers, FiniteSets

CONSTANTS
  Clients,          \* tasks that set fields of the record, the shell among them
  Reasons,          \* reboot reasons a capture can be triggered with
  ExemptReasons,    \* COREDUMP_ON_DEMAND and CCD_COREDUMP
  DefaultThreshold, \* dcdOverwriteThresholdTimeSec, in clock ticks
  ClockModulus,     \* the width of the UINT32 time, in clock ticks
  Skews,            \* what the wall clock may differ from true time by
  DmaFaults,        \* may a copy by the RPA DMA engine fail?
  CrcFaults,        \* may a CRC computation by the RPA engine fail?
  MemoryDecays,     \* may a region lose its content while the power is off?
  MaxDumps,         \* bound: captures started
  MaxOverrides,     \* bound: fields forced by the shell
  MaxCommands,      \* bound: captures triggered and fields forced by the shell, together
  MaxTime           \* bound: ticks of the true clock

\* The activity that `pc' is about: initialize() or a capture.
Manager == "manager"
Writers == {Manager} \cup Clients

ASSUME WritersAssumption == Manager \notin Clients
ASSUME ReasonsAssumption == ExemptReasons \subseteq Reasons
ASSUME TimeAssumption ==
  /\ DefaultThreshold \in Nat
  /\ ClockModulus \in Nat \ {0}
  /\ MaxTime \in Nat
  /\ Skews \subseteq Int
  /\ 0 \in Skews
ASSUME DumpsAssumption == MaxDumps \in Nat /\ MaxOverrides \in Nat /\ MaxCommands \in Nat
ASSUME FaultAssumption ==
  /\ DmaFaults \in BOOLEAN
  /\ CrcFaults \in BOOLEAN
  /\ MemoryDecays \in BOOLEAN

NoDump == 0
Ids    == 0 .. MaxDumps
Types  == {"FULL", "ALT"}
Events == {"EVENT_CLEAR", "CAPTURED", "NOT_CAPTURED", "OVER_WRITTEN", "CAPTURE_FAILED"}

\* Recovery only asks whether the check point is CAPTURE_COMPLETE: the many
\* WRITING_* and STORING_* values are one value here.
Checkpoints == {"COLLECTING_DATA", "WRITING", "CAPTURE_COMPLETE"}
\* What the shell can force: the valid flag, the wish to be retrieved or
\* backed up, the event or the check point.
Forcible == {"valid", "wanted", "status"}

Metadata ==
  [valid : BOOLEAN, needsRetrieval : BOOLEAN, needsBackup : BOOLEAN,
   checkpoint : Checkpoints, event : Events, type : Types,
   time : 0 .. ClockModulus - 1, id : Ids, birth : 0 .. MaxTime,
   forced : SUBSET Forcible]

\* A record no capture has written: blank RPA memory, or the object before
\* initialize() fills it from RPA.
BlankMetadata ==
  [valid |-> FALSE, needsRetrieval |-> FALSE, needsBackup |-> FALSE,
   checkpoint |-> "COLLECTING_DATA", event |-> "EVENT_CLEAR", type |-> "FULL",
   time |-> 0, id |-> NoDump, birth |-> 0, forced |-> {}]

VARIABLES
  mem,          \* m_Metadata
  rpa,          \* the record's body in RPA
  crcOk,        \* does the CRC word in RPA match the body?
  crcDue,       \* who has copied the body in writeToRpa, and not yet the CRC word
  crcStale,     \* ... and has since had that body overwritten by another writer
  clearing,     \* who has called the record invalid, and not yet cleared the event
  region,       \* content of the full (shared) and the alt dump region
  pc,           \* step of initialize(), of the capture, or "idle" / "off"
  req,          \* dumpType and rebootReason of the trigger being served
  ret,          \* what captureCoreDump has returned to triggerCoreDump
  initComplete, \* m_InitComplete
  inProgress,   \* m_CoreDumpInProgress
  taskLocked,   \* VKI_TASK_LOCK is held
  skipDq,       \* dcdSkipDq
  threshold,    \* m_OverwriteThresholdTimeSec
  captures,     \* ghost: captures started so far
  clock,        \* ghost: true time
  skew,         \* VKI_TIME() minus true time
  retracted,    \* ghost: called invalid by a client beside this capture, and not finished since
  overrides     \* ghost: shell commands that have forced a field

persistent == <<rpa, crcOk, crcDue, crcStale>>
control    == <<req, ret, initComplete, inProgress, taskLocked, skipDq>>
calls      == <<clearing, retracted, overrides>>
world      == <<region, captures, clock, skew, calls>>
vars == <<mem, persistent, pc, control, threshold, world>>

-----------------------------------------------------------------------------
(* Steps of a capture, in the order of captureCoreDump.                     *)

\* Steps that set the check point, and the step each leads to.
AfterCheckpoint ==
  [elfDirCp |-> "elfDir", coreCp |-> "headers", elfSecCp |-> "elfSec",
   dqDirCp |-> "dqDir", dqCp |-> "dqLabels", dqSecCp |-> "dqSec"]

\* Steps that write through a field no property tells apart.
AfterField == [notesSize |-> "coreCp", crcSupported |-> "elfSecCp"]

\* Steps that copy a section header into the region.
AfterHeader == [elfDir |-> "lock", elfSec |-> "dqDirCp", dqDir |-> "ftdc"]

\* The parts of copyTraceDq.
AfterDq == [dqLabels |-> "dqParams", dqParams |-> "dqBody",
            dqBody |-> "dqFormat", dqFormat |-> "dqCrc"]

LockedSteps  == {"refresh", "notesSize", "coreCp", "headers", "segments", "notes", "unlock"}
CaptureSteps ==
  {"overwrite", "decide", "invalidate", "start", "lock", "ftdc",
   "dqCrc", "dqSec", "finish", "failed", "end"} \cup LockedSteps
  \cup DOMAIN AfterCheckpoint \cup DOMAIN AfterField
  \cup DOMAIN AfterHeader \cup DOMAIN AfterDq
BootSteps == {"bootInvalidate", "bootClear", "bootBoard", "bootEvent", "bootDone"}
Steps == {"off", "idle"} \cup BootSteps \cup CaptureSteps

\* VKI_TIME(0), and the UINT32 difference the overwrite check computes.
Wall == (clock + skew) % ClockModulus
Elapsed(m) == (Wall - m.time) % ClockModulus

Request == [type : Types, reason : Reasons]
NoRequest == [type |-> "none", reason |-> "none"]

Init ==
  /\ mem = BlankMetadata
  /\ rpa = BlankMetadata
  /\ crcOk = FALSE
  /\ crcDue = {}
  /\ crcStale = {}
  /\ region = [t \in Types |-> NoDump]
  /\ pc = "off"
  /\ req = NoRequest
  /\ ret = "none"
  /\ initComplete = FALSE
  /\ inProgress = FALSE
  /\ taskLocked = FALSE
  /\ skipDq = FALSE
  /\ threshold = 0
  /\ captures = 0
  /\ clock = 0
  /\ skew = 0
  /\ clearing = {}
  /\ retracted = FALSE
  /\ overrides = 0

-----------------------------------------------------------------------------
(* The metadata record.                                                     *)

\* writer w has stored the CRC word of its last write, and so may take its next step.
Ready(w) == w \notin crcDue

\* writeToRpa of writer w: the object already holds m; its body reaches RPA or,
\* when the DMA engine fails, only an error word does and RPA keeps the old record.
Write(w, m) ==
  /\ mem' = m
  /\ \/ /\ rpa' = m
        /\ crcOk' = FALSE
        /\ crcDue' = crcDue \cup {w}
        /\ crcStale' = crcDue
     \/ /\ DmaFaults
        /\ UNCHANGED persistent

Persist(m) == Write(Manager, m)

\* Tasks run beside an alt capture while it does not hold the task lock; a
\* full capture never gives up the CPU.
TasksRun ==
  /\ initComplete
  /\ pc = "idle" \/ (inProgress /\ req.type = "ALT" /\ ~taskLocked)

\* The second half of writeToRpa: the CRC word, as the engine has computed it in
\* the first.  It fits a body that has been overwritten since by chance only.
WriteCrc(w) ==
  /\ w \in crcDue
  /\ w # Manager => TasksRun
  /\ crcOk' \in IF w \in crcStale THEN BOOLEAN ELSE {TRUE}
  /\ crcDue' = crcDue \ {w}
  /\ crcStale' = crcStale \ {w}
  /\ UNCHANGED <<mem, rpa, pc, control, threshold, world>>

\* setCoreValid(false)
Invalidated(m) ==
  [m EXCEPT !.valid = FALSE, !.needsRetrieval = FALSE, !.needsBackup = FALSE,
            !.forced = @ \ {"valid", "wanted"}]

\* The record startDump fills after clear(), which keeps only the event.
StartedDump(m, id) ==
  [BlankMetadata EXCEPT
     !.event = IF m.event = "OVER_WRITTEN" THEN "OVER_WRITTEN" ELSE "CAPTURED",
     !.type = req.type, !.time = Wall, !.id = id, !.birth = clock]

FinishedDump(m) ==
  [m EXCEPT !.valid = TRUE,
            !.needsRetrieval = (m.type = "FULL") \/ @,
            !.needsBackup = (m.type = "FULL") \/ @,
            !.checkpoint = "CAPTURE_COMPLETE",
            !.forced = @ \ {"valid"}]

-----------------------------------------------------------------------------
(* initialize(), run once per boot.                                         *)

\* Seeded bug: only the CRC of the record is checked, not those of the sections.
VerifyRecordOnly == {crcOk}

\* What verifyCoreDumpCrc may return for the record in RPA.  The ELF and DQ
\* sections are read only while the dump has not been backed up (~ecdCrc).
\* A failed CRC computation returns true.  Nothing is known about the CRC fields
\* of a record whose flags the shell has set.
VerifyResults ==
  LET ecdCrc == rpa.type = "FULL" /\ ~rpa.needsBackup
      match  == crcOk /\ (ecdCrc \/ region[rpa.type] = rpa.id)
  IN  {match} \cup (IF CrcFaults \/ "wanted" \in rpa.forced THEN {TRUE} ELSE {})

\* The record is copied from RPA and checked.  `compatible' stands for the
\* signature and version checks, which fail after a firmware change.
Boot ==
  /\ pc = "off"
  /\ mem' = rpa
  /\ \E compatible \in BOOLEAN, verdict \in VerifyResults :
       pc' = IF ~rpa.valid THEN "bootBoard"
             ELSE IF ~compatible \/ (rpa.needsRetrieval /\ ~verdict)
                  THEN "bootInvalidate" ELSE "bootEvent"
  /\ UNCHANGED <<persistent, control, threshold, world>>

\* setCoreDumpValid(false): the flag first, then EVENT_CLEAR.
BootInvalidate ==
  /\ pc = "bootInvalidate" /\ Ready(Manager)
  /\ Persist(Invalidated(mem))
  /\ pc' = "bootClear"
  /\ UNCHANGED <<control, threshold, world>>

BootClear ==
  /\ pc = "bootClear" /\ Ready(Manager)
  /\ Persist([mem EXCEPT !.event = "EVENT_CLEAR"])
  /\ pc' = "bootBoard"
  /\ UNCHANGED <<control, threshold, world>>

\* populateBoardInfo(true)
BootBoard ==
  /\ pc = "bootBoard" /\ Ready(Manager)
  /\ Persist(mem)
  /\ pc' = "bootEvent"
  /\ UNCHANGED <<control, threshold, world>>

\* "Update event flag based on check point"
BootEvent ==
  /\ pc = "bootEvent" /\ Ready(Manager)
  /\ IF mem.checkpoint # "CAPTURE_COMPLETE" /\ mem.event \in {"CAPTURED", "OVER_WRITTEN"}
     THEN Persist([mem EXCEPT !.event = "CAPTURE_FAILED"])
     ELSE UNCHANGED <<mem, persistent>>
  /\ pc' = "bootDone"
  /\ UNCHANGED <<control, threshold, world>>

\* A failed buffer allocation panics instead: that is a Crash.
BootDone ==
  /\ pc = "bootDone" /\ Ready(Manager)
  /\ threshold' = DefaultThreshold
  /\ initComplete' = TRUE
  /\ pc' = "idle"
  /\ UNCHANGED <<mem, persistent, req, ret, inProgress, taskLocked, skipDq, world>>

-----------------------------------------------------------------------------
(* triggerCoreDump and overwriteCoredump.                                   *)

\* The flag test and the assignment are one step: a full dump that preempts
\* the task between them runs to its end first, which is the same behaviour
\* as one that came before the test.  A trigger while another capture runs,
\* or before initialize() is done, returns false and changes nothing.
Trigger(type, reason) ==
  /\ pc = "idle" /\ Ready(Manager)
  /\ initComplete /\ ~inProgress
  /\ captures < MaxDumps /\ captures + overrides < MaxCommands
  /\ inProgress' = TRUE
  /\ req' = [type |-> type, reason |-> reason]
  /\ ret' = "none"
  /\ pc' = "overwrite"
  /\ UNCHANGED <<mem, persistent, initComplete, taskLocked, skipDq, threshold, world>>

\* Seeded bug: a dump that is backed up is taken for one that is retrieved.
OverwriteBackedUp ==
  /\ pc = "overwrite" /\ Ready(Manager)
  /\ IF mem.needsBackup
     THEN /\ Persist([mem EXCEPT !.event = "OVER_WRITTEN"])
          /\ pc' = "decide"
     ELSE /\ pc' = "invalidate"
          /\ UNCHANGED <<mem, persistent>>
  /\ UNCHANGED <<control, threshold, world>>

\* The event is made persistent before it is known whether the dump may go.
Overwrite ==
  /\ pc = "overwrite" /\ Ready(Manager)
  /\ IF mem.needsRetrieval
     THEN /\ Persist([mem EXCEPT !.event = "OVER_WRITTEN"])
          /\ pc' = "decide"
     ELSE /\ pc' = "invalidate"
          /\ UNCHANGED <<mem, persistent>>
  /\ UNCHANGED <<control, threshold, world>>

\* Seeded bug: a dump that must not be overwritten is reported as a failure.
DecideFails ==
  /\ pc = "decide" /\ Ready(Manager)
  /\ IF req.reason \in ExemptReasons \/ Elapsed(mem) >= threshold
     THEN /\ pc' = "invalidate"
          /\ UNCHANGED <<mem, persistent, ret>>
     ELSE /\ Persist([mem EXCEPT !.event = "CAPTURE_FAILED"])
          /\ ret' = "fail"
          /\ pc' = "end"
  /\ UNCHANGED <<req, initComplete, inProgress, taskLocked, skipDq, threshold, world>>

Decide ==
  /\ pc = "decide" /\ Ready(Manager)
  /\ IF req.reason \in ExemptReasons \/ Elapsed(mem) >= threshold
     THEN /\ pc' = "invalidate"
          /\ UNCHANGED <<mem, persistent, ret>>
     ELSE /\ Persist([mem EXCEPT !.event = "NOT_CAPTURED"])
          /\ ret' = "fail"
          /\ pc' = "end"
  /\ UNCHANGED <<req, initComplete, inProgress, taskLocked, skipDq, threshold, world>>

-----------------------------------------------------------------------------
(* captureCoreDump.                                                         *)

Goto(step) == pc' = step /\ UNCHANGED <<req, initComplete, inProgress, skipDq>>

\* An early `return false'; what it does to the task lock is each exit's own.
ReturnFalse ==
  /\ pc' = "failed"
  /\ ret' = "fail"
  /\ UNCHANGED <<req, initComplete, inProgress, skipDq>>

\* `if (type == ALT_DUMP) VKI_TASK_UNLOCK();', which stands before each early
\* return of the copying of the ELF body, and after its end.
UnlockIfAlt == taskLocked' = (taskLocked /\ req.type # "ALT")

\* The region now holds something that is no complete dump.
Scribble == region' = [region EXCEPT ![req.type] = NoDump]

\* Seeded bug: startDump is left to clear the old record.
SkipInvalidate ==
  /\ pc = "invalidate" /\ Ready(Manager)
  /\ Goto("start")
  /\ UNCHANGED <<mem, persistent, ret, taskLocked, threshold, world>>

InvalidateOld ==
  /\ pc = "invalidate" /\ Ready(Manager)
  /\ Persist(Invalidated(mem))
  /\ Goto("start")
  /\ UNCHANGED <<ret, taskLocked, threshold, world>>

\* startDump.  A full dump stops here when the region manager knows no shared
\* region.
StartDump ==
  /\ pc = "start" /\ Ready(Manager)
  /\ captures' = captures + 1
  /\ Persist(StartedDump(mem, captures + 1))
  /\ \/ Goto("elfDirCp") /\ UNCHANGED ret
     \/ req.type = "FULL" /\ ReturnFalse
  /\ UNCHANGED <<taskLocked, threshold, region, clock, skew, calls>>

SetCheckpoint ==
  /\ pc \in DOMAIN AfterCheckpoint /\ Ready(Manager)
  /\ Persist([mem EXCEPT !.checkpoint = "WRITING"])
  /\ \/ ~(pc = "dqCp" /\ skipDq) /\ Goto(AfterCheckpoint[pc])
     \/ pc = "dqCp" /\ Goto("dqSecCp") \* skipped, or no trace queue is found
  /\ UNCHANGED <<ret, taskLocked, threshold, world>>

SetField ==
  /\ pc \in DOMAIN AfterField /\ Ready(Manager)
  /\ Persist(mem)
  /\ Goto(AfterField[pc])
  /\ UNCHANGED <<ret, taskLocked, threshold, world>>

CopyHeader ==
  /\ pc \in DOMAIN AfterHeader /\ Ready(Manager)
  /\ Scribble
  /\ \/ Goto(AfterHeader[pc]) /\ UNCHANGED ret
     \/ DmaFaults /\ ReturnFalse
  /\ UNCHANGED <<mem, persistent, taskLocked, threshold, captures, clock, skew, calls>>

LockTasks ==
  /\ pc = "lock" /\ Ready(Manager)
  /\ \/ req.type = "ALT" /\ taskLocked' = TRUE /\ Goto("refresh")
     \/ req.type = "FULL" /\ UNCHANGED taskLocked /\ Goto("notesSize")
  /\ UNCHANGED <<mem, persistent, ret, threshold, world>>

\* updateAltSegmentVector, for an alt dump only, and getStackSegments.
RefreshSegments ==
  /\ pc = "refresh" /\ Ready(Manager)
  /\ \/ Goto("notesSize") /\ UNCHANGED <<ret, taskLocked>>
     \/ taskLocked' = FALSE /\ ReturnFalse
  /\ UNCHANGED <<mem, persistent, threshold, world>>

\* The headers of the ELF file are laid out in the region, and their CRC is taken.
LayOutHeaders ==
  /\ pc = "headers" /\ Ready(Manager)
  /\ Scribble
  /\ \/ Goto("segments") /\ UNCHANGED <<ret, taskLocked>>
     \/ CrcFaults /\ UnlockIfAlt /\ ReturnFalse
  /\ UNCHANGED <<mem, persistent, threshold, captures, clock, skew, calls>>

\* Seeded bug: the exit of a segment that is too large keeps the tasks locked.
CopySegmentsLocked ==
  /\ pc = "segments" /\ Ready(Manager)
  /\ Scribble
  /\ \/ Goto("notes") /\ UNCHANGED <<ret, taskLocked>>
     \/ UNCHANGED taskLocked /\ ReturnFalse
     \/ DmaFaults /\ UnlockIfAlt /\ ReturnFalse
  /\ UNCHANGED <<mem, persistent, threshold, captures, clock, skew, calls>>

\* All segments in turn: any may run past the region's end or fail to be copied.
CopySegments ==
  /\ pc = "segments" /\ Ready(Manager)
  /\ Scribble
  /\ \/ Goto("notes") /\ UNCHANGED <<ret, taskLocked>>
     \/ UnlockIfAlt /\ ReturnFalse               \* CORE_SIZE_ERROR
     \/ DmaFaults /\ UnlockIfAlt /\ ReturnFalse  \* CORE_COPY_ERROR
  /\ UNCHANGED <<mem, persistent, threshold, captures, clock, skew, calls>>

CopyNotes ==
  /\ pc = "notes" /\ Ready(Manager)
  /\ Scribble
  /\ \/ Goto("unlock") /\ UNCHANGED <<ret, taskLocked>>
     \/ UnlockIfAlt /\ ReturnFalse               \* CORE_SIZE_ERROR
     \/ DmaFaults /\ UnlockIfAlt /\ ReturnFalse  \* NOTES_COPY_ERROR
  /\ UNCHANGED <<mem, persistent, threshold, captures, clock, skew, calls>>

UnlockTasks ==
  /\ pc = "unlock" /\ Ready(Manager)
  /\ UnlockIfAlt
  /\ Goto("crcSupported")
  /\ UNCHANGED <<mem, persistent, ret, threshold, world>>

\* A pending flush of the trace queue makes this and every later dump go
\* without it: dcdSkipDq is never reset.
CheckFtdc ==
  /\ pc = "ftdc" /\ Ready(Manager)
  /\ pc' = "dqCp"
  /\ skipDq' \in {skipDq, TRUE}
  /\ UNCHANGED <<mem, persistent, req, ret, initComplete, inProgress, taskLocked,
                 threshold, world>>

\* The parts of copyTraceDq.  A part that fails leaves an empty DQ section.
CopyTraceDq ==
  /\ pc \in DOMAIN AfterDq /\ Ready(Manager)
  /\ Persist([mem EXCEPT !.checkpoint = "WRITING"])
  /\ \/ Goto(AfterDq[pc])
     \/ Goto("dqSecCp")
  /\ UNCHANGED <<ret, taskLocked, threshold, world>>

ComputeDqCrc ==
  /\ pc = "dqCrc" /\ Ready(Manager)
  /\ \/ Goto("dqSecCp") /\ UNCHANGED ret
     \/ CrcFaults /\ ReturnFalse
  /\ UNCHANGED <<mem, persistent, taskLocked, threshold, world>>

\* Seeded bug: a failed copy of the last header goes unnoticed.
CopyDqSectionUnchecked ==
  /\ pc = "dqSec" /\ Ready(Manager)
  /\ \/ region' = [region EXCEPT ![req.type] = mem.id]
     \/ DmaFaults /\ Scribble
  /\ Goto("finish")
  /\ UNCHANGED <<mem, persistent, ret, taskLocked, threshold, captures, clock, skew, calls>>

\* The last write to the region: the image is complete.
CopyDqSection ==
  /\ pc = "dqSec" /\ Ready(Manager)
  /\ \/ /\ region' = [region EXCEPT ![req.type] = mem.id]
        /\ Goto("finish")
        /\ UNCHANGED ret
     \/ DmaFaults /\ Scribble /\ ReturnFalse
  /\ UNCHANGED <<mem, persistent, taskLocked, threshold, captures, clock, skew, calls>>

\* Seeded bug: the finished record stays in the object.
FinishDumpInMemory ==
  /\ pc = "finish" /\ Ready(Manager)
  /\ mem' = FinishedDump(mem)
  /\ Goto("end")
  /\ ret' = "ok"
  /\ retracted' = FALSE
  /\ UNCHANGED <<persistent, taskLocked, threshold, region, captures, clock, skew,
                 clearing, overrides>>

FinishDump ==
  /\ pc = "finish" /\ Ready(Manager)
  /\ Persist(FinishedDump(mem))
  /\ Goto("end")
  /\ ret' = "ok"
  /\ retracted' = FALSE
  /\ UNCHANGED <<taskLocked, threshold, region, captures, clock, skew, clearing, overrides>>

Failed ==
  /\ pc = "failed" /\ Ready(Manager)
  /\ Persist([mem EXCEPT !.event = "CAPTURE_FAILED"])
  /\ Goto("end")
  /\ UNCHANGED <<ret, taskLocked, threshold, world>>

\* Seeded bug: m_CoreDumpInProgress is never reset.
EndCaptureInProgress ==
  /\ pc = "end" /\ Ready(Manager)
  /\ pc' = "idle"
  /\ UNCHANGED <<mem, persistent, control, threshold, world>>

\* triggerCoreDump returns.  After a full dump the caller reboots (a Crash)
\* unless the reboot is aborted.
EndCapture ==
  /\ pc = "end" /\ Ready(Manager)
  /\ pc' = "idle"
  /\ inProgress' = FALSE
  /\ req' = NoRequest
  /\ retracted' = FALSE
  /\ UNCHANGED <<mem, persistent, ret, initComplete, taskLocked, skipDq, threshold,
                 region, captures, clock, skew, clearing, overrides>>

-----------------------------------------------------------------------------
(* The rest of the system: clients of the manager, power, time.             *)

\* Captures that have been triggered so far, the one that has not started included.
Triggered ==
  captures + IF pc \in {"overwrite", "decide", "invalidate", "start"} THEN 1 ELSE 0

\* Client c calls a setter, which makes the record m.  None asks what the record
\* says or what the manager is at.
Calls(c, m) ==
  /\ TasksRun /\ Ready(c) /\ c \notin clearing
  /\ Write(c, m)
  /\ UNCHANGED <<pc, control, threshold, region, captures, clock, skew>>

\* The shell sets a field to what no other client sets it to.  (To set what is
\* there already is to write the record unchanged: SetDescription.)
Forces(c, field, m) ==
  /\ m # mem
  /\ overrides < MaxOverrides /\ Triggered + overrides < MaxCommands
  /\ overrides' = overrides + 1
  /\ Calls(c, [m EXCEPT !.forced = @ \cup {field}])
  /\ UNCHANGED <<clearing, retracted>>

\* A client has read the dump, or dcdSetNeedsRetrieval.
SetNeedsRetrieval(c) ==
  \/ Calls(c, [mem EXCEPT !.needsRetrieval = FALSE]) /\ UNCHANGED calls
  \/ Forces(c, "wanted", [mem EXCEPT !.needsRetrieval = TRUE])

\* The dump is on the backup device, or the opposite is claimed.
SetNeedsBackup(c) ==
  \/ Calls(c, [mem EXCEPT !.needsBackup = FALSE]) /\ UNCHANGED calls
  \/ Forces(c, "wanted", [mem EXCEPT !.needsBackup = TRUE])

\* The event has been logged: EVENT_CLEAR.  dcdSetEventStatus takes any event.
SetEventStatus(c) ==
  \/ Calls(c, [mem EXCEPT !.event = "EVENT_CLEAR"]) /\ UNCHANGED calls
  \/ \E event \in Events \ {"EVENT_CLEAR"} :
       Forces(c, "status", [mem EXCEPT !.event = event])

\* dcdSetCheckPoint: nobody but the shell sets the check point from outside.
SetCheckPoint(c) ==
  \E checkpoint \in Checkpoints :
    Forces(c, "status", [mem EXCEPT !.checkpoint = checkpoint])

\* Tag, reboot reason, sizes, block size and type of a dump for the cache: fields
\* no property tells apart, but the whole object is written with them.
SetDescription(c) == Calls(c, mem) /\ UNCHANGED calls

\* setCoreDumpValid(true), dcdSetCoreValid(1)
CallValid(c) == Forces(c, "valid", [mem EXCEPT !.valid = TRUE])

\* setCoreDumpValid(false): a client discards the dump, in two record writes.
CallInvalid(c) ==
  /\ Calls(c, Invalidated(mem))
  /\ clearing' = clearing \cup {c}
  /\ retracted' = inProgress
  /\ UNCHANGED overrides

ClearEvent(c) ==
  /\ c \in clearing
  /\ TasksRun /\ Ready(c)
  /\ Write(c, [mem EXCEPT !.event = "EVENT_CLEAR"])
  /\ clearing' = clearing \ {c}
  /\ UNCHANGED <<pc, control, threshold, region, captures, clock, skew, retracted, overrides>>

\* Seeded bug: the new threshold is added to the one there is.
AddOverwriteThresholdTime(t) ==
  /\ pc = "idle" /\ TasksRun
  /\ threshold' = threshold + t
  /\ UNCHANGED <<mem, persistent, pc, control, world>>

\* dcdSetOverwriteThresholdTimeSec; dcdTriggerAllCoreDump sets it to zero.  A
\* capture reads it once, so that a change beside an alt capture is the same
\* as one before or after the capture.
SetOverwriteThresholdTime(t) ==
  /\ pc = "idle" /\ TasksRun
  /\ threshold' = t
  /\ UNCHANGED <<mem, persistent, pc, control, world>>

\* The shared region serves the cache once no dump in it awaits its backup.
CacheUsesRegion ==
  /\ TasksRun
  /\ ~mem.needsBackup
  /\ region' = [region EXCEPT !["FULL"] = NoDump]
  /\ UNCHANGED <<mem, persistent, pc, control, threshold, captures, clock, skew, calls>>

Tick ==
  /\ clock < MaxTime
  /\ clock' = clock + 1
  /\ UNCHANGED <<mem, persistent, pc, control, threshold, region, captures, skew, calls>>

SetClock ==
  /\ skew' \in Skews
  /\ UNCHANGED <<mem, persistent, pc, control, threshold, region, captures, clock, calls>>

\* A reset at any point: only RPA survives.  Also the reboot that follows a
\* full capture, a panic while a capture is running (whose own trigger is
\* refused), and a failed allocation in initialize().
Crash ==
  /\ pc # "off"
  /\ pc' = "off"
  /\ mem' = BlankMetadata
  /\ crcDue' = {}
  /\ crcStale' = {}
  /\ req' = NoRequest
  /\ ret' = "none"
  /\ initComplete' = FALSE
  /\ inProgress' = FALSE
  /\ taskLocked' = FALSE
  /\ skipDq' = FALSE
  /\ threshold' = 0
  /\ clearing' = {}
  /\ retracted' = FALSE
  /\ UNCHANGED <<rpa, crcOk, region, captures, clock, skew, overrides>>

Decay ==
  /\ MemoryDecays
  /\ pc = "off"
  /\ \E t \in Types : region' = [region EXCEPT ![t] = NoDump]
  /\ UNCHANGED <<mem, persistent, pc, control, threshold, captures, clock, skew, calls>>

-----------------------------------------------------------------------------
BootNext == Boot \/ BootInvalidate \/ BootClear \/ BootBoard \/ BootEvent \/ BootDone

CaptureNext ==
  \/ Overwrite \/ Decide \/ InvalidateOld \/ StartDump \/ SetCheckpoint
  \/ SetField \/ CopyHeader \/ LockTasks \/ RefreshSegments \/ LayOutHeaders
  \/ CopySegments \/ CopyNotes \/ UnlockTasks \/ CheckFtdc \/ CopyTraceDq
  \/ ComputeDqCrc \/ CopyDqSection \/ FinishDump \/ Failed \/ EndCapture

SetterNext(c) ==
  \/ SetNeedsRetrieval(c) \/ SetNeedsBackup(c) \/ SetEventStatus(c) \/ SetCheckPoint(c)
  \/ SetDescription(c) \/ CallValid(c) \/ CallInvalid(c) \/ ClearEvent(c)

ClientNext ==
  \/ \E c \in Clients : SetterNext(c)
  \/ CacheUsesRegion
  \/ \E t \in {0, DefaultThreshold} : SetOverwriteThresholdTime(t)
  \/ \E type \in Types, reason \in Reasons : Trigger(type, reason)

WorldNext == Tick \/ SetClock \/ Crash \/ Decay

Next == BootNext \/ (\E w \in Writers : WriteCrc(w)) \/ CaptureNext \/ ClientNext \/ WorldNext

Spec == Init /\ [][Next]_vars

\* Once triggered, a capture runs on: its steps never wait for anyone.
FairSpec == Spec /\ WF_vars(WriteCrc(Manager)) /\ WF_vars(CaptureNext)

-----------------------------------------------------------------------------
(* Properties.                                                              *)

\* Every variable holds values of its type.
TypeOK ==
  /\ mem \in Metadata /\ rpa \in Metadata
  /\ crcOk \in BOOLEAN
  /\ crcDue \in SUBSET Writers /\ crcStale \in SUBSET crcDue
  /\ region \in [Types -> Ids]
  /\ pc \in Steps
  /\ req \in Request \cup {NoRequest}
  /\ ret \in {"none", "ok", "fail"}
  /\ initComplete \in BOOLEAN /\ inProgress \in BOOLEAN
  /\ taskLocked \in BOOLEAN /\ skipDq \in BOOLEAN
  /\ threshold \in {0, DefaultThreshold}
  /\ captures \in Ids
  /\ clock \in 0 .. MaxTime
  /\ skew \in Skews
  /\ clearing \in SUBSET Clients
  /\ retracted \in BOOLEAN
  /\ overrides \in 0 .. MaxOverrides

\* A dump that waits for a client.
Offered(m) == m.valid /\ m.needsRetrieval

\* Between the first and the last access of a capture to its region.
Writing == inProgress /\ pc \notin {"overwrite", "decide", "invalidate", "start", "end"}

\* While the manager offers a dump that lies in RPA only, the region holds the
\* complete image of exactly that dump, whatever resets, DMA failures, cache
\* traffic, power losses and discards came before: initialize() has to find out.
\* Only who tells the manager to want a dump again has to know it is there.
ServedDumpIntact ==
  initComplete /\ Offered(mem) /\ mem.needsBackup /\ "wanted" \notin mem.forced
    => region[mem.type] = mem.id

\* Neither copy of the record ever calls a dump valid before its capture has
\* passed the last check point, or together with a report of failure: no reset
\* between two writes of the record leaves a half capture that looks whole,
\* unless the shell has set the flag, the event or the check point itself.
ValidMeansComplete ==
  \A m \in {mem, rpa} :
    m.valid /\ m.forced \cap {"valid", "status"} = {}
      => m.checkpoint = "CAPTURE_COMPLETE" /\ m.event # "CAPTURE_FAILED"

\* The task lock is held exactly while an alt capture copies: each of the six
\* early returns under it gives it back, and none of the others touches it.
TaskLockBalanced == taskLocked <=> (pc \in LockedSteps /\ req.type = "ALT")

\* After initialize() and before the next capture, an event that announces a
\* dump belongs to a dump that is there, unless a client is about to clear it:
\* no log entry for an invalidated one.  Fails after a reset between the two
\* record writes of setCoreDumpValid(false).
EventMatchesDump ==
  pc = "idle" /\ ret = "none" /\ clearing = {} /\ mem.forced = {}
      /\ mem.event \in {"CAPTURED", "OVER_WRITTEN"}
    => mem.valid

\* When triggerCoreDump returns true, the copy of the record that survives the
\* reboot tells of the new dump and calls it valid, unless a client that runs
\* beside an alt capture has discarded it since; and the CRC word of a full dump
\* fits, although a client may have been stopped by the capture in the middle of
\* its own write.  (An alt dump is not retrieved, so no boot asks for its CRC.)
\* Needs a DMA engine that works: finishDump cannot say that RPA was not reached.
SuccessSurvives ==
  pc = "end" /\ ret = "ok" =>
    /\ rpa.id = captures
    /\ rpa.valid \/ retracted
    /\ req.type = "FULL" /\ Ready(Manager) => crcOk

\* What triggerCoreDump returns is what has happened: true leaves the new dump
\* whole in its region and valid, unless a client has discarded it since; false
\* leaves no dump and the report of a failure, or the dump that could not be
\* overwritten, with a report that says so until the event is logged.
ResultHonest ==
  pc = "end" =>
    IF ret = "ok"
    THEN mem.id = captures /\ region[req.type] = captures /\ (mem.valid \/ retracted)
    ELSE mem.forced = {} =>
           \/ mem.event = "EVENT_CLEAR"
           \/ mem.event = "NOT_CAPTURED" /\ (mem.valid \/ retracted)
           \/ mem.event = "CAPTURE_FAILED" /\ ~mem.valid

\* A capture gives up a dump that nobody has retrieved only for an exempt reason
\* or when the dump is older, in true time, than the overwrite threshold; or when
\* the shell has come in the way by calling it unretrieved again.  Needs a clock
\* that is never set back, for the UINT32 difference would wrap around.
UnretrievedProtected ==
  [][ inProgress /\ pc' \notin {pc, "off"} /\ Offered(mem) /\ ~Offered(mem')
      => \/ req.reason \in ExemptReasons
         \/ clock - mem.birth >= threshold
         \/ "wanted" \in mem.forced ]_vars

\* A capture that has begun returns, whichever of its parts fail.
CaptureReturns == inProgress ~> ~inProgress

-----------------------------------------------------------------------------
(* The promise to clients.                                                  *)

\* A dump that the manager, and not the shell, calls valid.
Vouched(m) == m.valid /\ "valid" \notin m.forced

\* The dump in RPA, the dump clients of the running manager see, and whether a
\* capture that has begun may still publish its dump.
Stored == IF Vouched(rpa) THEN rpa.id ELSE NoDump
Served == IF initComplete /\ Vouched(mem) THEN mem.id ELSE NoDump
Busy   == Writing /\ pc # "failed"

Store == INSTANCE DumpStore
           WITH stored <- Stored, served <- Served, begun <- captures, busy <- Busy

\* As long as the DMA engine works, the manager is the one-dump store of
\* module DumpStore: across resets at any point, torn record writes, rejected
\* records and discards at any time, no half dump is served and no old dump
\* comes back.  What the shell calls valid with dcdSetCoreValid(1) is no dump of
\* the store: it republishes a discarded or a half written dump alike.
ImplementsStore == Store!StoreSpec
=============================================================================
