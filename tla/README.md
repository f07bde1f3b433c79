# Formal models of CoverityTool

This directory holds TLA+ models of the program in `src/`, the TLC configurations
that check them, and theorems about them that TLAPS proves. `PROJECT.json` maps
every definition to the source lines it stands for, lists the runs, the mutants
that show each property can fail, the hazards of the code and the theorems.

The repository is a Perl tool for coverage batches together with the C++ subjects it
is tried on: two components of a RAID controller's firmware, `dcd` (core dumps) and
`bid` (battery). The tool is small. The firmware is where state, crashes and failing
hardware are, and gets most of the models.

## 1. Inventory

Paths below are relative to `src/t/resource/gcno/Application/RAID/` unless they
begin with `src/`.

### Core dump manager: `core/dcd/dcdCoreDumpMgr.{cc,h}`, `dcdCoreDumpMetadata.cc`

*State.* One metadata record (valid, needs retrieval, needs backup, event, check
point, type, time, sizes and CRCs) kept twice: the object `m_Metadata`, and a copy in
RPA memory that survives a reset. Two regions for dumps, one for full dumps (shared
with the cache) and one for alt dumps (behind the records). The flags
`m_InitComplete`, `m_CoreDumpInProgress`, `dcdSkipDq`, the overwrite threshold, and the
segment vectors clients register with.

*Operations.* `initialize` at boot (read the record, check its CRC and the CRC of the
regions, settle what a reset left behind); `triggerCoreDump`, which decides about the
previous dump (`overwriteCoredump`) and runs `captureCoreDump` step by step;
`writeToRpa` behind every setter; the calls of clients (retrieved, backed up, event
logged, discarded, threshold); the commands of the shell, which set any field to any value at
any time; `addCoreDumpRegion`; the searches that find a section of a dump again.

*Interactions.* A full capture ends in a reboot and nothing runs beside it. An alt capture
leaves the controller running and holds the task lock only while it copies the ELF file. DMA and CRC engines of the RPA device are
called synchronously and may fail. The cache uses the shared region once the dump in it
has been backed up. Whoever retrieves a dump calls the setters when it is done.

*Hard to get right.* A reset may hit between any two writes; record body and CRC are
two writes, and as nothing is locked, another task may write the record in between; each of some twenty copies may fail; the layout is address arithmetic with
records filled in afterwards; segments are registered while a capture may start.

*Correct means:* a dump that is offered is whole and the right one; an unfinished one is
never called valid; what a capture returns is what happened; a dump nobody has fetched
is not given up without a reason the code names; the lock is released on every path;
no two parts of a dump collide and each part is found again.

### Dual-controller NMI handshake: `dcdCoreDumpCallback`, `dcdCoreDumpNmiHandler`

*State.* `m_CoreDumpInProgress`, `expectResetHold`, `isRecursive`, and the NMI messages
on their way. *Operations.* The callback runs in every reboot that may dump: it captures,
sends COMPLETE and may wait to be held in reset. The handler serves the requests of the
other controller: it reboots for FULL and RESET_HOLD, and captures a lock dump for LOCK.

*Hard to get right.* The handler interrupts whatever runs, a panic interrupts the handler,
and a reboot that hits a second reboot enters the callback again. Messages are lost, come
twice, or cross; both controllers may panic at once. *Correct means:* one capture at a
time; a flag that refuses dumps is reset by somebody; the lock dump for the other
controller costs no full dump that somebody still wants; nobody waits for ever.

### Storage record: `core/dcd/dcdStorageRecord.{cc,h}`

*State.* A second record, `m_StorageRecord`, and its copy in RPA. It says where a dump is to
be stored. *Operations.* `initialize`, `clear`, nine setters, `setStorageRecord`,
`writeToRpa`.

*Hard to get right.* A setter assigns and then copies the whole object, and nothing is
locked; there is no CRC, and a copy that fails is only printed. *Correct means:* object and
copy agree when all setters have returned, and what comes back after a reset is what was
acknowledged.

### Temperature log: `bid/bidLogTemperature.cc`, `LogTemperature`, `TempCountersAccess`

*State.* In the EEPROM of the battery: a signature and one counter, in ASCII, per
temperature range. In the driver: `m_I2CError`, the outcome of the latest access by
anyone.

*Operations.* `initialize` at boot, `update` at each interval, `initRegion`,
`getCounter`, `setCounter`, `markError`, the commands of the service shell.

*Hard to get right.* Each access may fail, and a write that is reported as failed may
have been carried out. The signature that cannot be read must be told from the one that
is invalid: the first is waited out, the second costs all counters. *Correct means:* no
sample is lost or counted twice, marked counters stay marked, a lost region is repaired.

### Charge record: the same file, `ChargeRecord`, `ChargeRecordAccess`

*State.* A signed record in the EEPROM and its image, read once per boot.
*Operations.* Boot, backup count, installation, learn cycle, last sleep, clear: all
change the image and write the whole of it. *Correct means:* an installation stays on
record, and each power failure counts once.

### Coverage batch: `src/lib/Coverity/CoverageBatch.pm`

*State.* A walk down a folder tree and the output file. *Operations.* `create`,
`traverse_gcda`, `prepare_batch`, `get_gcno_path`, `get_relative_path`. *Correct
means:* every `.gcda` below the folder is listed once, with the `.gcno` of its object.

### Smaller parts

`bid/bidLEDMgr.*` (LED states passed on to the board), `dcdSod.cc` (start of day: calls
`initialize`), battery driver variables and derived battery classes (tables and getters),
and the compiler output the tool's tests read. None is modelled; section 8 says why.

## 2. Modules

| Module | Models | Checked by | Proofs |
|---|---|---|---|
| `CoreDumpMgr` | the manager and its record, one RPA access per step | core, store, crcfault, event | `CoreDumpMgrProofs`, `DumpResultProofs` |
| `DumpStore` | what the manager promises: a durable store for one dump | store | `DumpResultProofs` |
| `DumpLayout` | segment vectors, addresses, sections | layout | `DumpLayoutProofs` |
| `DualNmi` | two controllers, their messages and interrupts | nmi | `DualNmiProofs` |
| `StorageRecord` | the storage record and its writers | record | `StorageRecordProofs` |
| `CoverageBatch` | one call of `create` | batch | `CoverageBatchProofs` |
| `TempCounters` | the temperature log | temp, flag | `TempCountersProofs` |
| `ChargeRecord` | the charge record | charge, wiped | `ChargeRecordProofs` |

`MCCoreDumpMgr`, `MCDumpLayout`, `MCDualNmi` and `MCCoverageBatch` define the constants TLC
needs.

### CoreDumpMgr

`mem` is `m_Metadata`, `rpa` the body of its copy and `crcOk` says whether the CRC word
fits the body. A setter is the assignment and the copy of the body (`Write`); the step
`WriteCrc` is the second write. `Manager` is whoever runs `initialize()` or a capture, and
`Clients` are the tasks that set fields, the shell among them. `crcDue` holds the writers that have
yet to store the CRC word, each of which takes no other step before (`Ready`), and `crcStale`
those among them whose body somebody else has overwritten since: their word
fits the new body by chance only. A reset (`Crash`) may come in between, and then the next
`Boot` sees a body with the CRC of another. `Boot`
followed by `BootInvalidate`, `BootClear`, `BootBoard`, `BootEvent`, `BootDone` is
`initialize()`; each of these writes the record, and a reset may come after any.

`Trigger`, `Overwrite`, `Decide`, `InvalidateOld`, `StartDump` and the steps up to
`EndCapture` are `triggerCoreDump` and `captureCoreDump`. The tables `AfterCheckpoint`,
`AfterField`, `AfterHeader` and `AfterDq` say which step follows which, so
that one action stands for the many places that do the same thing to different fields.
Every step that copies with the DMA engine has a failing branch, which leads to `failed`
(`writeError`) as in the code. The steps under the task lock (`RefreshSegments`, `LayOutHeaders`,
`CopySegments`, `CopyNotes`) each have the early returns of their own, and each return says
for itself what it does to the lock: the code has six of them, with an unlock in front of each.
`Trigger` tests and sets `m_CoreDumpInProgress` in one step. What can come between the two
is a full dump that preempts the task, and it runs to its end (and usually to a reset) first, which
is the same as a full dump before the test; `DualNmi` has the interrupting paths.

`region[t]` is the number of the capture whose whole image lies in the region, or
`NoDump`. It becomes the number of the capture with the last copy only. The ghost fields
`id` and `birth` of a record say which capture it describes and when that started, in true
time; the code never reads them. Clients run beside an alt capture while it does not hold
the task lock (`TasksRun`); a full capture never gives up the CPU.

The setters (`Calls`) have no guard, as in the code, and come between any two steps of an alt
capture. What the clients that retrieve, back up, log or discard a dump do is free:
`needsRetrieval` and `needsBackup` to false, `EVENT_CLEAR`, `setCoreDumpValid(false)`
(`CallInvalid`, then `ClearEvent`; `clearing` holds the tasks in between). Everything else comes from the
shell's routines `dcdSetCoreValid(1)`, `dcdSetNeedsRetrieval(1)`, `dcdSetEventStatus` and
`dcdSetCheckPoint`, with any value (`Forces`). Such a command makes the record say what no
part of the manager has found out: `dcdSetCoreValid(1)` calls an invalidated dump or
a half written one valid. The ghost field `forced` of a record remembers which of its
fields are the shell's word: "valid", "wanted" (retrieval, backup) or "status" (event, check point);
it goes with the record into RPA and through resets, and is taken back when the manager sets the field itself. The properties
promise nothing about a field that is forced, and everything else as before. `retracted` says
that a client has called the record invalid during the capture that runs. `SetDescription` stands
for the setters of fields no property tells apart (tag, sizes, reboot reason, number of
modules): each of them writes the whole record again.

### DumpLayout

Sections, headers, segments and queue blocks are parts with an address and a length, put
into a set; a part that is overwritten leaves the set. The properties then ask whether
the set is what a reader of the dump expects. `findSection` is modelled by the walk it
makes over whatever records lie there, those of an earlier dump included.

Registration is two steps of a client: `push_back` (`AddAltRegion`), then `Reserve` or
`ReserveThrows`. Nothing is locked, so `pushed` counts how many clients are between the two,
and a capture may come at any point. When `reserve` throws, the
capacity stays as it is and the segment stays in the vector, while the catch deletes its descriptor: from then
on it has any size. The ghost `covered` is the length of the client vector at the last
`reserve` that went well.

### DualNmi

Two controllers run the same code; each has a stack of at most three activities: what it was
doing, the handler's lock dump (`locking`), and the callback. `lockOnTop` says which of
the last two has interrupted the other, and `LockRuns` and `CallbackRuns` whose code runs.
A callback entered during a callback is `recursive`; the outer one never goes on. `inbox` is
a set, as an NMI sent twice is there once. Of the manager, `Refused` and `Kept` are the
checks at the top of `triggerCoreDump` and in `overwriteCoredump`; `dump` tells only a
full dump that must be kept from everything else. The inner steps of a capture are in
`CoreDumpMgr`.

### StorageRecord

A setter is `Assign` (field of the object) and later `Copy` (whatever the object holds by
then), so that any number of tasks can alternate. The fields of a record stand in the order of
the code's: signature, valid flag, version, then `data`. `Torn` is what a failed copy may leave:
any beginning of the new record over the old one. `kept` is a ghost: the records one of
which has to come back, or none. It is set by a copy that succeeded while nobody else was
between assignment and copy, and given up by the next assignment. A reset replaces it by what boots make of
the record (`Comeback`): a usable one stays, another one is cleared. When the copy that
clears it is torn right behind the signature, a record that lacked nothing but the signature is
usable at the next boot, and `Comeback` has two outcomes for it.

### CoverageBatch

A path is a sequence of tokens: the texts the Perl code searches for and what is between
them. `index`, `rindex` and `substr` become searches for tokens. The recursion of
`traverse_gcda` is the variable `stack`, so that a failing `opendir` can come anywhere.
`is_gcda_file` looks at the name only, so a folder named `old.gcda` gets an entry as well. The comments
(`CoverageBatch.pm:112`, 128) speak of files; `EachListedOnce` asks for every *file* and
leaves such folders open.

### TempCounters and ChargeRecord

Each step is one EEPROM access or one look at `m_I2CError`. A failed write of several
counters may have changed any of them. Commands of the shell write any
text into a signature (`SetSignDft`) or a counter (`SetTempRangeDataDft`), numbers included. In `TempCounters`, `logged` and `seen` are ghosts:
the samples written since the counters were last cleared for cause, and those taken (with
the numbers that were there at first), the latter up to the limit of a counter. A true
count lies between them. `task` tells the callers of `initialize()` apart: at boot it
returns, and from `update()` it goes on to count the sample. In `ChargeRecord`, `due` is
the count that should be there, and `lost` how many increments were reported as failed.

### Seeded bugs

Definitions commented "Seeded bug" are not used by the specifications. Each has the
parameters of the definition it follows and differs from it as a plausible mistake in the code would.
`PROJECT.json` ("mutants") says which property it breaks: put in the place of the
original, it makes TLC find a violation under the configuration of the run.

## 3. Runs that pass

| Run | Question | Bounds | Distinct states |
|---|---|---|---|
| core | Do clients see whole dumps only, is what a capture returns true, does each exit unlock? | 2 captures, or 1 and a field forced by the shell; a client that preempts; DMA failures, resets, loss of memory | 962,000 |
| store | Is the manager the store of `DumpStore`, does a success survive a reset, is a dump protected, does each capture return? | the same with 1 tick, two reasons and a CRC engine that fails; DMA works | 348,000 |
| layout | Do parts of a dump keep clear of each other, and is each found? | 2 captures, 2 full and 3 alt segments, 1 task; registrations in flight and failed | 3,217,000 |
| nmi | Do interrupts, recursive reboots and lost messages keep captures apart, keep a wanted dump, and let both controllers come to rest? | 2 controllers, 3 panics, requests and crashes together | 558,000 |
| record | Do object and copy agree, and does an acknowledged record survive? | 3 tasks, 2 fields of 3 values; copies torn anywhere, resets, power losses | 52,000 |
| batch | Is each `.gcda` listed once with its own `.gcno`? | all trees of two levels over 3 file, 3 folder and 2 inner names, any folder refused | 351,000 |
| temp | Is each sample counted once, do marks stay, is a lost region repaired? | 2 ranges, counters up to 2 | 80,000 |
| charge | Do installation and count survive resets and failed writes? | 4 power failures | 3,116 |

*Why the bounds are enough.* Two captures are an old dump and the one that replaces it. A
command of the shell counts as one of the two: with one it meets a blank record, a
running capture or a finished dump, each before and after resets; the theorems put no bound on
either. One tick
with a threshold of one tick separates dumps that are young from those that are old
enough. `ClockModulus` = 8 leaves room above the clock so that a difference below zero is
a huge one, as it is for `UINT32`. One client and the capture are two writers whose writes
of the record can overlap in each order; the theorems hold for any number of clients. In `layout` an alt dump with the
most segments fits but leaves no room for its queue, which smaller ones have, and the
second capture finds the remains of the first, of either type. With three alt segments, twice
their number exceeds what was reserved at first. Three triggers in `nmi` are both
controllers panicking and a request, or a panic inside a recursive reboot: each activity of a
controller has been interrupted by each other one by then. With three tasks in `record`, a task can
copy between another's assignment and copy while a third has yet to begin; the theorems of
`DualNmiProofs` and `StorageRecordProofs` hold for any number of triggers and tasks. In `batch` one folder is called
`old.gcda`, one `Application`, and a file's name begins with `Application`. In `temp` a
counter can be at zero, below the limit and at it, and the region that is repaired has a
counter that is not the one being logged. Four power failures let a count be lost,
repeated, and both.

*Deadlock* is checked except in `batch`, `layout` and `nmi`: `create` ends, in `layout`
nothing is left to do once the bounds on captures and segments are reached, and in `nmi`
controllers at rest wait for a trigger, of which there are no more.

*Configurations by purpose.* `core` runs with DMA failures because what it states must
hold with them. `store` runs without: `finishDump` cannot report that the record did not
reach RPA, so neither durability nor the refinement holds when the engine fails there
(the hazards in `PROJECT.json` say so). `CaptureReturns` and `UnretrievedProtected`, which needs the
tick, are checked there because the run is the smaller one; the theorem about the latter covers DMA failures
too. `store` keeps the clock from being set, for
`UnretrievedProtected` fails otherwise (`SteppingClock`), as the age of a dump is an unsigned difference.
That the other safety properties do not depend on the clock is proved: their theorems allow it to be set
at any time.

### Properties of the manager

`ServedDumpIntact`, `ValidMeansComplete`, `TaskLockBalanced`, `SuccessSurvives`,
`ResultHonest`, `UnretrievedProtected`, `CaptureReturns` and the refinement
`ImplementsStore`. The last one says that each step of the manager is a step of `DumpStore` or leaves the
store as it is: the dump that is stored goes before its successor begins, only the capture
that runs is published, and only once; after a restart the same dump appears again or is
gone for good. The mapping takes `stored` from the record in RPA, `served` from the object
after `initialize()`, and `busy` from the step of the capture. Neither counts a dump that the
shell has called valid (`Vouched`): `dcdSetCoreValid(1)` republishes whatever is there, which no
one-dump store does.

`SuccessSurvives` asks for the CRC word of a full dump only. A task that an alt capture has stopped between its two
writes may put its own CRC word over that of the finished record; nobody asks for
it, as an alt dump is not retrieved, and `initialize()` checks the CRC of dumps that are.

### Fairness

`CaptureReturns` assumes weak fairness of the steps of a capture and of the CRC words it
writes: it runs to its end on the processor that triggered it and waits for nobody,
unless a reset ends it. Nothing is assumed about clients: one that never stores its CRC
word, or writes the record again and again, does not keep a capture from its next step.

`Settles` assumes weak fairness of what the two controllers do, taken together: their code
runs on, the wait of the callback has a limit, and so has the requester's. Nothing is assumed
about messages; each one may be lost. Panics, requests and crashes come to an end because of
`MaxTriggers`, without which there is nothing to settle.

`RegionRepaired` assumes that updates keep coming (the task that polls the battery is
periodic) and that the driver goes on. It also assumes strong fairness of
a successful read of the signature, for each caller, and of a successful write: with a
bus that fails each time, nothing can be repaired. It claims nothing for a
controller that resets for ever, nor for one in backup mode, where nothing is logged.

## 4. Where code and comments disagree

Each of these runs checks one property that a comment states, and TLC finds it violated.

| Run | What the code does |
|---|---|
| crcfault | `verifyCoreDumpCrc` returns true when the CRC cannot be computed; a lost dump is offered. |
| event | `setCoreDumpValid(false)` writes the flag first and the event second; a reset in between leaves an event without a dump. |
| flag | `m_I2CError` is shared: a shell command between a failed read of the signature and the look at the flag makes the driver erase a healthy region. |
| wiped | After a failed read at boot the image is zero; the next write puts it over the record. |

`flag` needs `ShellPreempts = TRUE`, which `temp` excludes, and `wiped` needs
`ReadFails = TRUE`, which `charge` excludes: outside these cases the properties hold.

Defects that no run shows, seen while the models were written:

- `get_relative_path` finds `Application` in the middle of a name as well, as in
  `ApplicationMgr.gcda`, and cuts there (`GcnoOfSameObject` asks about other names).
- In an alt dump `getCoreDumpDqAddress` is too low, by the size of the metadata records: it adds an
  offset that counts from the first section to the address of those records. In a full dump the two are
  the same place. Its only caller here is a test hook, and no property is about it.
- The catch in `addCoreDumpRegion` deletes a descriptor that is in the vector by then.
- A folder named `*.gcda` is listed like a file.

## 5. Proofs

All theorems hold for every value of the constants that satisfies the assumptions named in
the modules.

**`CoreDumpMgrProofs`.** `TypeCorrect` proves `TypeOK` with `ControlOK`, which says that
the flags of the manager agree with its step; `TypeOK` alone is not inductive, for the
request must be one while a capture runs. `LockReleased` needs `ControlOK`, and goes through the early
returns under the lock one by one.
`ValidIsComplete` rests on `RecordInv`: both copies of the record satisfy the property,
a dump that waits to be retrieved is one the manager calls valid unless the shell has
come in, the object is not valid from `startDump` to `finishDump` but by force, and, unless the capture has
failed, it has the type of the request and no failure event but by force. So
what `finishDump` writes is complete, and whether or not a write reaches RPA, there is
the old record or the new one. `EditRecord` says the same of every setter, at any time. `OfferedIsIntact` assumes `CrcFaults = FALSE`, without
which it is false (run crcfault). It rests on `IntactInv`: at the step `finish` the region
holds the capture's dump, and after the CRC check of `initialize()` whatever is offered
is in its region. The cache may use the region only when no dump waits for its
backup in it, and a power loss takes the manager through the CRC check again.

**`DumpResultProofs`.** `RecordWrites` and `CaptureSides` say once what the steps of `Next`
can do to the record (a setter's edit, a capture's start, a boot, a reset) and beside a
capture (`Beside`: setters write the record, and nothing touches the capture's region); everything after
rests on them. `ResultsAreHonest` needs `ResultInv`: from `startDump` on the record is
that of the running capture, at `finish` its image is in the region, and an overwrite
is refused only to a dump that is valid, has been retracted, or has been forced. `SuccessIsDurable` assumes a working DMA engine:
then object and RPA agree while the manager runs (`SyncInv`). Writers need not take turns: a full
capture, once it runs, leaves its clients where they are, the manager's own writes are the last ones, and
so the right CRC word is in RPA or about to come (`SavedInv`). `UnretrievedStays` assumes
`SteadyTime`, a clock that is not set and does not wrap around: then the difference the code
computes is the dump's age (`ElapsedIsAge`), and `ProtectInv` carries the answer
of the threshold to the step that invalidates, past clients that run in between.

The same module holds the refinement, `ManagerImplementsStore`: with a working DMA engine
each step of the manager is a step of `DumpStore` under the mapping, or a stutter, for any
number of captures, clients, setters and discards at any time, and preempting writers. One lemma per part of `Next`
(`BootRefines`, `CaptureRefines`, `ClientRefines`, `WorldRefines`); `SyncInv` lets the object
and RPA be spoken of as one, and `ResultInv` makes `finishDump` a `Publish` of the capture that runs.

**`DumpLayoutProofs`.** Sizes and numbers of segments, stacks, notes, records and queue blocks
are arbitrary. `StacksAlwaysFit` needs `RoomInv`: the capacity is at least `MaxTasks` plus
twice the client segments there were at the last `reserve` that went well, whichever client's it was. The stacks
then fit as long as the vector of client segments has not doubled since: with registrations that are in flight,
or whose `reserve` has thrown, it takes at least as many of them as there were segments before.
`DumpKept` needs `PlaceInv`: what the running capture has written lies below the record it
has left out, or between that record and the next byte it writes. The rewrite of a
record (`WriteElfSection`, `WriteDqSection`) then falls into the gap, whatever has failed in between.

`SectionsAlwaysFound`, `CrcsMatchSections` and `SizeAlwaysCovers` follow
from one invariant, `LayoutInv`, over `PlaceInv`. Its parts say, step by step of the capture, which of its
records lie where and with which sizes (`RecordsInv`), that what was copied fills its section
without a hole (`ContentInv`), that nothing lies beyond the next byte to be written
(`BoundsInv`), and which bytes the CRCs are about (`CrcInv`); `PartsApart` says that no two
parts in the regions overlap, and so that a record found at an address is the one this capture
wrote there. `Complete` says the same of the dump in `meta`, once it is valid, and survives
until the next capture clears the flag. `CompleteSuffices` then unfolds `findSection`'s walk, which
in a complete dump is four records long and never meets what an earlier dump has left.
`HeadersAlwaysDescribe` adds `HeadersInv`: the segments copied so far lie at the offsets that
`LoadOffset` gives, which is what the headers say.

`findSection`'s walk and `LoadOffset` are recursive functions. What such a function computes is
stated by one equation, which has to be shown to have a solution first. `SetInduction` does this: it is
induction stated for a set of numbers instead of a predicate, and follows from
the library's theorem that each nonempty set of numbers has a minimum (`WFMin`). The lemmas
`WalkExists` and `SumsExist` apply it to the set of arguments up to which the equation can be solved, and
`WalkUnfolds` and `OffsetUnfolds` are what the rest of the proof cites.

**`TempCountersProofs`.** `MarksStay` assumes, like the other two, that the shell does not preempt the
driver: a command may write a mark into a field that an update has read and is
about to write a number to. It needs one fact: when a number is written back, the field is not marked.
`CountsStayHonest` assumes that the shell does not preempt. Its
inductive invariant adds to the property: `SampleInv`, the current sample is in no counter
yet; `WriteInv`, the number read is still good when it is written; `RepairInv`, the
region is initialized only when the signature is invalid, and then nothing logged counts
any more; `TaskInv`, only an update counts. `SampleInv` is why a lost acknowledgement
cannot count a sample twice: a failed write ends the update, and the next one takes a
sample of its own. `TypeCorrect` rests on the same invariant and the same assumption. TLC finds it
false without the assumption: a preempting command can make `initialize()` count from zero with samples on
record, and `logged` then passes `CounterMax`.

**`ChargeRecordProofs`.** `TypeCorrect` needs no assumption on the read at boot: `BoundInv`,
with types, is inductive by itself, so no count in the record ever passes the number of backup boots. `InstallationStays` and `PowerCyclesStayCounted` assume that the
read at boot succeeds. `ImageInv` says that after the read the image may be written back:
it is no older than the EEPROM and counts no boot that did not happen. `BoundInv`
relates the counts to the boots there were; `Pending` is the boot not counted yet.

**`DualNmiProofs`.** `OneWriterAtATime` and `FlagIsOwned` are two halves of one argument:
whoever captures has set `m_CoreDumpInProgress` (`FlagSet`), and whoever finds it set does not
capture. A recursive reboot abandons a full capture with the flag set, and `RecursiveRuns` says
that such a callback is still there to end in a reset. `FullDumpStays` follows
from the guards once `OneWriter` says that no capture runs over a dump that must be kept. No
bound on triggers is used, and any array of controllers in pairs will do.

**`StorageRecordProofs`.** `CopyInSync` is inductive but for a controller that is off
(`DownQuiet`: nobody is then between assignment and copy). `WritesSurvive` needs `KeptSafe`,
which carries the promise across resets as what boots may make of the record in RPA, and
`ClearsCleared`: the boot that refuses a record writes the cleared one. `TornComesBackLess` says that no torn
copy of that can come back as anything the torn record could not: the signature goes first, the valid
flag second, and behind that each beginning of the cleared record is invalid.

**`CoverageBatchProofs`.** Trees are arbitrary, of any shape, size and depth, as long as no name is in two
folders and a name begins with the path of its folder. `AllListedOnce` rests on `WalkInv`: there is a
set `V` of nodes that have been dealt with (`Covers`); every node below the folder
that is not in it is still to be reached through a path some call of `traverse_gcda` has yet to take,
and no path is there twice. When the stack is empty, `V` is closed, so it is all of `Below`, which
is the least such set. What a folder holds has not been reached before, as no path is in two
folders and the folder `create` is called for is in none. `ObjectsStayPaired` assumes that `create` is called for a folder
whose own name is `Application`, as the tests do: `rindex` then finds that token, and not
one further up or down (below it, `PlainNames` excludes others).

*Only model-checked.* The two liveness properties `Settles` and `RegionRepaired`, and
`CaptureReturns`: liveness and ENABLED are out of the prover's reach. So are the violations of section
4, which are behaviours TLC exhibits. Every invariant and every other action property of
a passing run is a theorem, some of them under a condition on a constant that its run shares.

## 6. Assumptions of the models

- A dump says of itself what `CoreDumpMgr` needs: the sizes that clients set are right, and the
  dump for the cache, which has a setter of its own (`setCoreDumpTime`), is left out.
- A reboot out of a callback that has interrupted another callback is not aborted. VxWorks
  decides that; the comments of the callback speak of "recursive reboot" only.
- `altReset`, `altResetHold` and `dcdmDcdmMgr` are not in the repository. The requester
  of `DualNmi` does what the comments of the handler say of them. IN_PROGRESS is left out, for
  nothing here reacts to it. Whether LOCK is sent or served depends on flags the shell may set at
  any time, hence on a free choice.
- A DMA copy of the storage record that fails has moved a beginning of it. Its conversion to
  and from XDR, whose peer is elsewhere, changes no state.
- In the metadata record, the assignment of a setter and the copy of the body are one step; a
  preemption may come between body and CRC word. Likewise test and assignment of
  `m_CoreDumpInProgress` (section 2).
- `setMetadata` copies a whole record over the object. Nothing in the repository calls it, and it
  is left out.
- The shell's word is not the manager's: properties of the record exclude the fields a command has set to what
  no other client sets them to (`forced`).
- Reading what RPA holds does not fail by itself; a DMA copy either happens or is reported.
- Memory may be lost with the power (`Decay`), only between a reset and the boot.
- CRC comparison is exact: no two contents collide.
- The battery is polled by one task. `setCounterDft`, which nothing in the repository calls, and the image that only `show()`
  reads, are left out. A field is written whole or not at all.
- Check points other than `CAPTURE_COMPLETE` are one value: no code tells them apart when
  it recovers.

## 7. Plan

Done: `CoreDumpMgr`, `TempCounters`, `ChargeRecord`, `DualNmi` and `StorageRecord` with their
theorems, `DumpStore` and the refinement with its proof, preempting writers of the metadata
record, setters at any time and with any value, `DumpLayout` and `CoverageBatch` with theorems for all of their invariants.

Next, in this order:

1. RPA access priority, and `dcdSkipDq` over several captures.
2. Two captures that fill the shared region of a pair of controllers in turn, composing `DualNmi`
   with `DumpLayout`.

## 8. Not modelled, and why

- LED manager: three states are passed on, with no decision (`canLEDActivated` is true). Who
  calls it, and from which tasks, is not in the repository, so nothing can be said about the order.
- Start of day: its one step is `Boot`. Battery variables and classes: tables.
- The fields of ELF structures, notes and labels: data nobody in the repository reads back.
  The layout models where they lie and how long they are.
- The list of modules in the record, and the `corrupt*` test hooks: they change
  what no decision depends on, or damage on purpose what `Decay` damages.
- The RPA devices, the DMA engine, the task lock, the I2C bus, the cache and the file
  system are not in the repository; they appear as the outcomes the code handles.
