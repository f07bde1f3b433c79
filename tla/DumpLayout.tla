----------------------------- MODULE DumpLayout -----------------------------
(***************************************************************************)
(* Where a core dump puts its parts: the segment vectors clients register  *)
(* with the manager, the address arithmetic of captureCoreDump and         *)
(* copyTraceDq, and the functions that find the parts again.               *)
(*                                                                         *)
(*   part of a dump        written by                                      *)
(*     CORE_ELF_DIR        WriteElfDir                                     *)
(*     CPU_ELF             WriteElfSection, once size and CRC are known    *)
(*     PHDRS               LayOut                                          *)
(*     SEGMENT ...         CopySegment                                     *)
(*     NOTES               CopyNotes                                       *)
(*     DQ_DIR              WriteDqDir                                      *)
(*     DQ_TRACE            WriteDqSection, once size and CRC are known     *)
(*     DQ ...              StoreBlock, CopyDqBody                          *)
(*                                                                         *)
(* An alt dump lies behind the two metadata records in the core dump       *)
(* region, a full dump in the shared region.  Sizes are small numbers; the *)
(* content of a part is the number of the capture that wrote it.           *)
(***************************************************************************)
EXTENDS Integers, Sequences, FiniteSets

CONSTANTS
  RpaBase, RpaEnd,        \* getCoreDumpBase, getCoreDumpEnd
  SharedBase, SharedEnd,  \* m_SharedRegionBase, and the end of that region
  MetadataSize,           \* the metadata record and the storage record
  RecordSize,             \* sizeof(SectionMetadataRecord)
  EhdrSize, PhdrSize,     \* ELF header, program header
  Alignment,              \* sizeof(UINT64)
  NoteSize,               \* one note with its header and name
  StagingSize,            \* NOTES_STAGING_REGION_SIZE
  DqLimit,                \* MAX_COREDUMP_DQ_SEGMENT_SIZE
  DqPlans,                \* what copyTraceDq may have to do: see StoreBlock
  Sizes,                  \* sizes of the segments that are registered
  StackSizes,             \* sizes of task stacks
  MaxTasks,               \* MAX_TASKS
  MaxFull, MaxAlt,        \* bounds: segments registered for full and alt dumps
  MaxDumps                \* bound: captures started

ASSUME SizesAssumption ==
  /\ {MetadataSize, RecordSize, EhdrSize, PhdrSize, Alignment, NoteSize} \subseteq Nat \ {0}
  /\ {StagingSize, DqLimit, MaxTasks, MaxFull, MaxAlt, MaxDumps} \subseteq Nat
  /\ Sizes \subseteq Nat \ {0} /\ Sizes # {}
  /\ StackSizes \subseteq Nat \ {0}
ASSUME RegionsAssumption ==
  /\ {RpaBase, RpaEnd, SharedBase, SharedEnd} \subseteq Nat \ {0}
  /\ RpaBase + MetadataSize <= RpaEnd
  /\ SharedBase <= SharedEnd
ASSUME PlansAssumption ==
  DqPlans \subseteq Seq([kind : {"block", "fits", "body"}, size : Nat])

Types == {"FULL", "ALT"}

VARIABLES
  segs,      \* segs["FULL"]: m_FullSegmentVector, segs["ALT"]: m_AltSegmentVector
  clients,   \* m_AltClientSegmentVector
  capacity,  \* capacity of m_AltSegmentVector
  pushed,    \* clients between push_back and reserve in addCoreDumpRegion
  covered,   \* ghost: length of the client vector at the last reserve that went well
  parts,     \* what the regions hold
  dump,      \* the capture that runs, or NoCapture
  meta,      \* m_Valid, m_DumpType, m_TotalSizeInMem; the ranges of the CRCs
  notesAt,   \* m_NotesOffset
  count      \* ghost: captures started so far

vectors == <<segs, clients, capacity, pushed, covered>>
vars == <<vectors, parts, dump, meta, notesAt, count>>

NoCapture == [pc |-> "idle"]

\* initialize() has registered all of memory for full dumps and the kernel for
\* alt dumps.
Init ==
  /\ \E memory, kernel \in Sizes :
       /\ segs = [FULL |-> <<memory>>, ALT |-> <<>>]
       /\ clients = <<kernel>>
  /\ capacity = MaxTasks + 2
  /\ pushed = 0
  /\ covered = 1
  /\ parts = {}
  /\ dump = NoCapture
  /\ meta = [valid |-> FALSE, type |-> "FULL", size |-> 0, elfCrc |-> <<>>, dqCrc |-> <<>>]
  /\ notesAt = 0
  /\ count = 0

-----------------------------------------------------------------------------
(* addCoreDumpRegion.  A null address or a size of zero is rejected, and a  *)
(* segment that cannot be pushed changes nothing.  Clients that run beside  *)
(* an alt capture are in no other position than before or after it: the     *)
(* vectors they touch are read in one step of it, UpdateSegments.           *)

AddFullRegion(size) ==
  /\ dump = NoCapture
  /\ Len(segs["FULL"]) < MaxFull
  /\ segs' = [segs EXCEPT !["FULL"] = Append(@, size)]
  /\ UNCHANGED <<clients, capacity, pushed, covered, parts, dump, meta, notesAt, count>>

\* Nothing is locked: any number of clients may have pushed before one reserves.
AddAltRegion(size, addToHead) ==
  /\ dump = NoCapture
  /\ Len(clients) < MaxAlt
  /\ clients' = IF addToHead THEN <<size>> \o clients ELSE Append(clients, size)
  /\ pushed' = pushed + 1
  /\ UNCHANGED <<segs, capacity, covered, parts, dump, meta, notesAt, count>>

AtLeast(room, wanted) == IF wanted > room THEN wanted ELSE room

\* Seeded bug: room for the clients' segments themselves, not for twice as many.
ReserveSingle ==
  /\ dump = NoCapture /\ pushed > 0
  /\ capacity' = AtLeast(capacity, MaxTasks + Len(clients))
  /\ pushed' = pushed - 1
  /\ covered' = Len(clients)
  /\ UNCHANGED <<segs, clients, parts, dump, meta, notesAt, count>>

\* A capture or another client may come between the push_back and this step.
Reserve ==
  /\ dump = NoCapture /\ pushed > 0
  /\ capacity' = AtLeast(capacity, MaxTasks + Len(clients) * 2)
  /\ pushed' = pushed - 1
  /\ covered' = Len(clients)
  /\ UNCHANGED <<segs, clients, parts, dump, meta, notesAt, count>>

\* reserve throws.  The catch deletes the descriptor but leaves it in the vector:
\* from here on one of the segments says what the freed memory holds.
ReserveThrows ==
  /\ dump = NoCapture /\ pushed > 0
  /\ MaxTasks + Len(clients) * 2 > capacity
  /\ pushed' = pushed - 1
  /\ \E i \in DOMAIN clients, size \in Sizes : clients' = [clients EXCEPT ![i] = size]
  /\ UNCHANGED <<segs, capacity, covered, parts, dump, meta, notesAt, count>>

-----------------------------------------------------------------------------
(* Writing to a region.                                                     *)

Part(what, at, len) == [what |-> what, at |-> at, len |-> len, id |-> count, size |-> 0]
Header(what, at, size) == [Part(what, at, RecordSize) EXCEPT !.size = size]

Disjoint(p, q) == p.at + p.len <= q.at \/ q.at + q.len <= p.at

\* What p overlaps is not intact any more.
Put(p) == parts' = {q \in parts : Disjoint(p, q)} \cup {p}

\* writeError and return false; the record stays invalid.
Abort == dump' = NoCapture /\ UNCHANGED <<parts, meta, notesAt>>

Ceiling(n) == ((n + Alignment - 1) \div Alignment) * Alignment

-----------------------------------------------------------------------------
(* captureCoreDump: the ELF file.                                           *)

\* setCoreValid(false) and startDump.  A dump for the cache (ccd) gets the
\* headers of a 64-bit ELF file.
Start(type, ccd) ==
  /\ dump = NoCapture
  /\ count < MaxDumps
  /\ count' = count + 1
  /\ meta' = [meta EXCEPT !.valid = FALSE, !.type = type, !.size = 0,
                          !.elfCrc = <<>>, !.dqCrc = <<>>]
  /\ dump' = [pc |-> "elfDir", ccd |-> ccd,
              base |-> IF type = "FULL" THEN SharedBase ELSE RpaBase + MetadataSize,
              end |-> IF type = "FULL" THEN SharedEnd ELSE RpaEnd,
              phdrs |-> <<>>, tasks |-> 0, offset |-> 0, next |-> 1, notes |-> 0,
              dqBase |-> 0, dqSize |-> 0, dqPlan |-> <<>>]
  /\ UNCHANGED <<vectors, parts, notesAt>>

\* Room for two records; from here on `base' is where the ELF file begins.
WriteElfDir ==
  /\ dump.pc = "elfDir"
  /\ \/ /\ Put(Header("CORE_ELF_DIR", dump.base, 0))
        /\ dump' = [dump EXCEPT !.pc = "segments", !.base = @ + 2 * RecordSize]
        /\ UNCHANGED <<meta, notesAt>>
     \/ Abort
  /\ UNCHANGED <<vectors, count>>

\* The capacity of m_AltSegmentVector once the clients' segments are inserted.
RoomForStacks == AtLeast(capacity, Len(clients) + Len(segs["ALT"]))

\* updateAltSegmentVector, then getStackSegments: the client segments are put
\* in front of what the last alt dump has left, which is then erased, and the
\* stack of every task outside the kernel space is pushed.  A vector that is full
\* allocates, here like anywhere.
UpdateSegments ==
  /\ dump.pc = "segments"
  /\ \/ \E tasks \in 0 .. MaxTasks :
          /\ dump' = [dump EXCEPT !.pc = "layout", !.tasks = tasks]
          /\ IF meta.type = "FULL"
             THEN UNCHANGED <<segs, capacity>>
             ELSE \E n \in 0 .. tasks : \E stacks \in [1 .. n -> StackSizes] :
                    /\ segs' = [segs EXCEPT !["ALT"] = clients \o stacks]
                    /\ capacity' = AtLeast(RoomForStacks, Len(clients) + n)
          /\ UNCHANGED <<parts, meta, notesAt>>
     \/ meta.type = "ALT" /\ Abort /\ UNCHANGED <<segs, capacity>>
  /\ UNCHANGED <<clients, pushed, covered, count>>

\* How many notes createNotes stores: one for the process, one for an exception
\* context, one for the current task unless none runs, and one for every other
\* task.  The loop over the tasks looks for the end of the staging buffer after
\* each note.
Notes(tasks, exception, current) ==
  LET first == 1 + (IF exception THEN 1 ELSE 0) + (IF current THEN 1 ELSE 0)
      others == IF current /\ tasks > 0 THEN tasks - 1 ELSE tasks
  IN  first + Cardinality({k \in 1 .. others :
                             k = 1 \/ (first + k - 1) * NoteSize < StagingSize})

NumHeaders == 1 + Len(segs[meta.type]) + (IF dump.ccd THEN 1 ELSE 0)
LoadSections == Ceiling(EhdrSize + NumHeaders * PhdrSize)

\* Seeded bug: the offsets in the headers leave out the alignment.
LoadOffsetUnaligned(i) ==
  LET sizes == segs[meta.type]
      fileOffset[k \in 1 .. Len(sizes) + 1] ==
        IF k = 1 THEN EhdrSize + NumHeaders * PhdrSize
        ELSE fileOffset[k - 1] + sizes[k - 1]
  IN  fileOffset[i]

\* Where the i-th segment goes, from the start of the ELF file: the loop that
\* creates the headers adds up the sizes.
LoadOffset(i) ==
  LET sizes == segs[meta.type]
      fileOffset[k \in 1 .. Len(sizes) + 1] ==
        IF k = 1 THEN LoadSections ELSE fileOffset[k - 1] + sizes[k - 1]
  IN  fileOffset[i]

\* The headers are built in place and their CRC is computed.  The one for RPA
\* that a dump for the cache has describes memory that is not copied.
LayOut ==
  /\ dump.pc = "layout"
  /\ LET sizes == segs[meta.type]
         loads == [i \in DOMAIN sizes |-> [offset |-> LoadOffset(i), size |-> sizes[i]]]
         notesOffset == LoadOffset(Len(sizes) + 1)
     IN  \E exception, current \in BOOLEAN :
           LET notes == Notes(dump.tasks, exception, current) * NoteSize
           IN  dump' = [dump EXCEPT
                 !.pc = "copy", !.offset = LoadSections, !.notes = notes,
                 !.phdrs = loads \o <<[offset |-> notesOffset, size |-> notes]>>]
  /\ Put(Part("PHDRS", dump.base, LoadSections))
  /\ UNCHANGED <<vectors, meta, notesAt, count>>

CopySegment ==
  /\ dump.pc = "copy"
  /\ dump.next <= Len(segs[meta.type])
  /\ LET size == segs[meta.type][dump.next]
         dest == dump.base + dump.offset
     IN  /\ dest + size <= dump.end
         /\ Put(Part("SEGMENT", dest, size))
         /\ dump' = [dump EXCEPT !.next = @ + 1, !.offset = @ + size]
  /\ UNCHANGED <<vectors, meta, notesAt, count>>

\* Seeded bug: the CRC is recorded before the notes are added to it.
CopyNotesUncounted ==
  /\ dump.pc = "copy"
  /\ dump.next > Len(segs[meta.type])
  /\ LET dest == dump.base + dump.offset
     IN  /\ dest + dump.notes <= dump.end
         /\ Put(Part("NOTES", dest, dump.notes))
         /\ meta' = [meta EXCEPT !.elfCrc = <<dump.base, dest>>]
  /\ notesAt' = dump.offset
  /\ dump' = [dump EXCEPT !.pc = "elfSec", !.offset = @ + dump.notes]
  /\ UNCHANGED <<vectors, count>>

\* The CRC kept in the record is the one carried over headers, segments, notes.
CopyNotes ==
  /\ dump.pc = "copy"
  /\ dump.next > Len(segs[meta.type])
  /\ LET dest == dump.base + dump.offset
     IN  /\ dest + dump.notes <= dump.end
         /\ Put(Part("NOTES", dest, dump.notes))
         /\ meta' = [meta EXCEPT !.elfCrc = <<dump.base, dest + dump.notes>>]
  /\ notesAt' = dump.offset
  /\ dump' = [dump EXCEPT !.pc = "elfSec", !.offset = @ + dump.notes]
  /\ UNCHANGED <<vectors, count>>

\* A part does not fit, or the engine fails to copy or to compute a CRC.
AbortCopy ==
  /\ dump.pc \in {"copy", "elfSec", "dqDir", "dqCrc", "dqSec"}
  /\ Abort
  /\ UNCHANGED <<vectors, count>>

\* Seeded bug: the record's own size counts as section data.
WriteElfSectionLong ==
  /\ dump.pc = "elfSec"
  /\ Put(Header("CPU_ELF", dump.base - RecordSize, dump.offset + RecordSize))
  /\ dump' = [dump EXCEPT !.pc = "dqDir", !.dqBase = dump.base + dump.offset]
  /\ UNCHANGED <<vectors, meta, notesAt, count>>

\* Back to the record left out, then on past both records and the ELF file.
WriteElfSection ==
  /\ dump.pc = "elfSec"
  /\ Put(Header("CPU_ELF", dump.base - RecordSize, dump.offset))
  /\ dump' = [dump EXCEPT !.pc = "dqDir", !.dqBase = dump.base + dump.offset]
  /\ UNCHANGED <<vectors, meta, notesAt, count>>

-----------------------------------------------------------------------------
(* captureCoreDump: the trace queue.                                        *)

\* Without the queue, or with a flush of it pending, nothing is stored.
WriteDqDir ==
  /\ dump.pc = "dqDir"
  /\ Put(Header("DQ_DIR", dump.dqBase, 0))
  /\ \/ \E plan \in DqPlans :
          dump' = [dump EXCEPT !.pc = "dq", !.dqBase = @ + 2 * RecordSize, !.dqPlan = plan]
     \/ dump' = [dump EXCEPT !.pc = "dqSec", !.dqBase = @ + 2 * RecordSize]
  /\ UNCHANGED <<vectors, meta, notesAt, count>>

\* dqSize is m_DqWriteIndex; m_DqWritePtr is that far behind dqBase.
DqWritePtr == dump.dqBase + dump.dqSize
FreeSize == DqLimit - dump.dqSize

\* The next step of copyTraceDq is of this kind: "block" for a block that goes
\* through dcdDqDump, "fits" for the check before a queue body, "body" for it.
DqStep(kind) == dump.pc = "dq" /\ dump.dqPlan # <<>> /\ Head(dump.dqPlan).kind = kind

Stored(size) == [dump EXCEPT !.dqSize = @ + size, !.dqPlan = Tail(@)]

\* Seeded bug: the write pointer moves on only behind a body.
StoreBlockInPlace ==
  /\ DqStep("block")
  /\ Head(dump.dqPlan).size <= FreeSize
  /\ Put(Part("DQ", DqWritePtr, Head(dump.dqPlan).size))
  /\ dump' = [dump EXCEPT !.dqPlan = Tail(@)]
  /\ UNCHANGED <<vectors, meta, notesAt, count>>

\* dcdDqDump.  When writeDqBuffer fails to copy, the pointer stays where it is
\* but the block counts as stored.
StoreBlock ==
  /\ DqStep("block")
  /\ Head(dump.dqPlan).size <= FreeSize
  /\ \/ /\ Put(Part("DQ", DqWritePtr, Head(dump.dqPlan).size))
        /\ dump' = Stored(Head(dump.dqPlan).size)
     \/ /\ dump' = Stored(0)
        /\ UNCHANGED parts
  /\ UNCHANGED <<vectors, meta, notesAt, count>>

BodyFits ==
  /\ DqStep("fits")
  /\ DqWritePtr + Head(dump.dqPlan).size <= dump.end
  /\ dump' = Stored(0)
  /\ UNCHANGED <<vectors, parts, meta, notesAt, count>>

\* copyTraceDqBody, behind the block header it stores first.
CopyDqBody ==
  /\ DqStep("body")
  /\ Head(dump.dqPlan).size <= FreeSize
  /\ Put(Part("DQ", DqWritePtr, Head(dump.dqPlan).size))
  /\ dump' = Stored(Head(dump.dqPlan).size)
  /\ UNCHANGED <<vectors, meta, notesAt, count>>

\* A check or a copy in copyTraceDq fails: it returns zero.
DqFails ==
  /\ dump.pc = "dq" /\ dump.dqPlan # <<>>
  /\ dump' = [dump EXCEPT !.pc = "dqSec", !.dqSize = 0, !.dqPlan = <<>>]
  /\ UNCHANGED <<vectors, parts, meta, notesAt, count>>

DqStored ==
  /\ dump.pc = "dq" /\ dump.dqPlan = <<>>
  /\ dump' = [dump EXCEPT !.pc = IF dump.dqSize > 0 THEN "dqCrc" ELSE "dqSec"]
  /\ UNCHANGED <<vectors, parts, meta, notesAt, count>>

ComputeDqCrc ==
  /\ dump.pc = "dqCrc"
  /\ dump' = [dump EXCEPT !.pc = "dqSec"]
  /\ meta' = [meta EXCEPT !.dqCrc = <<dump.dqBase, dump.dqBase + dump.dqSize>>]
  /\ UNCHANGED <<vectors, parts, notesAt, count>>

WriteDqSection ==
  /\ dump.pc = "dqSec"
  /\ Put(Header("DQ_TRACE", dump.dqBase - RecordSize, dump.dqSize))
  /\ dump' = [dump EXCEPT !.pc = "finish"]
  /\ UNCHANGED <<vectors, meta, notesAt, count>>

\* Seeded bug: the two records of the queue are not counted.
FinishShort ==
  /\ dump.pc = "finish"
  /\ meta' = [meta EXCEPT !.valid = TRUE, !.size = dump.offset + dump.dqSize]
  /\ dump' = NoCapture
  /\ UNCHANGED <<vectors, parts, notesAt, count>>

\* finishDump.  The size counts four records and the metadata headers, which
\* are not part of a full dump's region.
Finish ==
  /\ dump.pc = "finish"
  /\ meta' = [meta EXCEPT !.valid = TRUE,
                          !.size = MetadataSize + dump.offset + dump.dqSize + 4 * RecordSize]
  /\ dump' = NoCapture
  /\ UNCHANGED <<vectors, parts, notesAt, count>>

Next ==
  \/ \E size \in Sizes : AddFullRegion(size)
  \/ \E size \in Sizes, addToHead \in BOOLEAN : AddAltRegion(size, addToHead)
  \/ Reserve \/ ReserveThrows
  \/ \E type \in Types, ccd \in BOOLEAN : Start(type, ccd)
  \/ WriteElfDir \/ UpdateSegments \/ LayOut \/ CopySegment \/ CopyNotes
  \/ AbortCopy \/ WriteElfSection \/ WriteDqDir \/ StoreBlock \/ BodyFits
  \/ CopyDqBody \/ DqFails \/ DqStored \/ ComputeDqCrc \/ WriteDqSection
  \/ Finish

Spec == Init /\ [][Next]_vars

-----------------------------------------------------------------------------
(* Finding a section again.                                                 *)

\* getRegionAddr; the first section offset is what startDump was given.
RegionAddr == IF meta.type = "FULL" THEN SharedBase ELSE RpaBase + MetadataSize

NotFound == [offset |-> -1, size |-> 0, id |-> 0]

RecordsAt(a) ==
  {p \in parts : p.at = a /\ p.what \in {"CORE_ELF_DIR", "CPU_ELF", "DQ_DIR", "DQ_TRACE"}}

\* findSection: from record to record, each followed by as many bytes as it
\* says.  What is not a record ends the walk.
FindSection(what) ==
  LET walk[a \in Nat] ==
        IF a >= RegionAddr + meta.size \/ RecordsAt(a) = {} THEN NotFound
        ELSE LET rec == CHOOSE p \in RecordsAt(a) : TRUE
             IN  IF rec.what = what
                 THEN IF a + RecordSize > RegionAddr + meta.size THEN NotFound
                      ELSE [offset |-> a + RecordSize - RegionAddr,
                            size |-> rec.size, id |-> rec.id]
                 ELSE walk[a + RecordSize + rec.size]
  IN  walk[RegionAddr]

-----------------------------------------------------------------------------
(* Properties.                                                              *)

\* "Make sure there's enough room for the task stacks": collecting the stacks,
\* which happens with interrupts disabled, never makes the vector allocate, however
\* captures and registrations come between each other.  It takes more clients that
\* have pushed a segment and not yet reserved room for it, or failed to, than there
\* were segments at the last reserve, to use up what is reserved.
StacksFit ==
  [][Len(clients) <= 2 * covered => Len(segs'["ALT"]) <= RoomForStacks]_vars

\* No write of a capture hits what the same capture has written before: the
\* records filled in afterwards, the ELF file and the queue never collide.
WritesKeepDump ==
  [][dump # NoCapture => \A p \in parts : p.id = count => p \in parts']_vars

Copied == {p \in parts : p.id = count /\ p.what \in {"PHDRS", "SEGMENT", "NOTES"}}
Queue  == {p \in parts : p.id = count /\ p.what = "DQ"}

\* The parts fill the bytes from `from' to `to' without a hole.
Fills(ps, from, to) == UNION {p.at .. p.at + p.len - 1 : p \in ps} = from .. to - 1

\* In a valid dump findSection leads to the two sections this capture wrote,
\* never to those an earlier dump left in the region, and each has exactly the
\* bytes that were copied.
SectionsFound ==
  meta.valid =>
    LET elf == FindSection("CPU_ELF")
        dq  == FindSection("DQ_TRACE")
    IN  /\ elf.id = count /\ dq.id = count
        /\ Fills(Copied, RegionAddr + elf.offset, RegionAddr + elf.offset + elf.size)
        /\ dq.size > 0 =>
             Fills(Queue, RegionAddr + dq.offset, RegionAddr + dq.offset + dq.size)

\* The bytes whose CRC verifyCoreDumpCrc computes at the next boot are those
\* the capture computed it over.
CrcOfSections ==
  meta.valid =>
    \A s \in {<<FindSection("CPU_ELF"), meta.elfCrc>>, <<FindSection("DQ_TRACE"), meta.dqCrc>>} :
      LET from == RegionAddr + s[1].offset
      IN  s[1].size > 0 => s[2] = <<from, from + s[1].size>>

\* The size in the record covers the whole dump, so that who copies that many
\* bytes from the region loses nothing.
SizeCoversDump ==
  meta.valid =>
    \A p \in parts :
      p.id = count /\ (p.what = "DQ" => FindSection("DQ_TRACE").size > 0) =>
        RegionAddr <= p.at /\ p.at + p.len <= RegionAddr + meta.size

\* Each program header is where the bytes it describes were copied to, though
\* one loop over the vector fills the headers and another one copies.
HeadersDescribeDump ==
  dump # NoCapture /\ dump.pc \notin {"elfDir", "segments", "layout", "copy"} =>
    \A h \in DOMAIN dump.phdrs :
      \E p \in parts : /\ p.id = count /\ p.what \in {"SEGMENT", "NOTES"}
                       /\ p.at = dump.base + dump.phdrs[h].offset
                       /\ p.len = dump.phdrs[h].size
=============================================================================
