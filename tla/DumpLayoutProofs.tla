-------------------------- MODULE DumpLayoutProofs --------------------------
(***************************************************************************)
(* Theorems about DumpLayout, for regions, records and segments of any     *)
(* size: the task stacks always fit what has been reserved for them, no    *)
(* write of a capture hits what the same capture has written before, the   *)
(* program headers describe what has been copied, and what the metadata    *)
(* and the section records say of a valid dump is where its bytes are.     *)
(***************************************************************************)
EXTENDS DumpLayout, FiniteSetTheorems, SequenceTheorems, WellFoundedInduction, TLAPS

-----------------------------------------------------------------------------
(* Helpers.                                                                 *)

LEMMA NaturalProduct ==
  ASSUME NEW m \in Nat, NEW n \in Nat
  PROVE  m * n \in Nat
OBVIOUS

LEMMA NaturalQuotient ==
  ASSUME NEW m \in Nat, NEW n \in Nat \ {0}
  PROVE  m \div n \in Nat
OBVIOUS

LEMMA CeilingType ==
  ASSUME NEW n \in Nat
  PROVE  Ceiling(n) \in Nat
<1>1. Alignment \in Nat \ {0} /\ n + Alignment - 1 \in Nat
  BY SizesAssumption
<1>2. (n + Alignment - 1) \div Alignment \in Nat
  BY <1>1, NaturalQuotient
<1> QED
  BY <1>1, <1>2, NaturalProduct DEF Ceiling

\* A sequence of numbers with one of them replaced.
LEMMA ReplacedSeq ==
  ASSUME NEW s \in Seq(Nat), NEW i \in DOMAIN s, NEW n \in Nat
  PROVE  [s EXCEPT ![i] = n] \in Seq(Nat)
<1>1. s \in [1 .. Len(s) -> Nat] /\ Len(s) \in Nat
  BY LenProperties
<1>2. [s EXCEPT ![i] = n] \in [1 .. Len(s) -> Nat]
  BY <1>1
<1> QED
  BY <1>1, <1>2, SeqDef

\* createNotes stores some number of notes.
LEMMA NotesType ==
  ASSUME NEW tasks \in Nat, NEW exception \in BOOLEAN, NEW current \in BOOLEAN
  PROVE  Notes(tasks, exception, current) \in Nat
<1> DEFINE first == 1 + (IF exception THEN 1 ELSE 0) + (IF current THEN 1 ELSE 0)
           others == IF current /\ tasks > 0 THEN tasks - 1 ELSE tasks
           stored == {k \in 1 .. others : k = 1 \/ (first + k - 1) * NoteSize < StagingSize}
<1>1. others \in Nat
  OBVIOUS
<1>2. first \in Nat
  <2>1. /\ (IF exception THEN 1 ELSE 0) \in {0, 1}
        /\ (IF current THEN 1 ELSE 0) \in {0, 1}
    OBVIOUS
  <2> QED
    BY <2>1
<1>3. IsFiniteSet(1 .. others)
  BY <1>1, FS_Interval
<1>4. IsFiniteSet(stored)
  BY <1>3, FS_Subset
<1>5. Cardinality(stored) \in Nat
  BY <1>4, FS_CardinalityType
<1>6. Notes(tasks, exception, current) = first + Cardinality(stored)
  BY DEF Notes
<1> HIDE DEF first, stored
<1> QED
  BY <1>2, <1>5, <1>6

-----------------------------------------------------------------------------
(* Room for task stacks.                                                    *)

\* What StacksFit rests on: the vector has room for as many stacks as there are
\* tasks and for twice the client segments there were at the last reserve.
RoomInv ==
  /\ segs["ALT"] \in Seq(Nat) /\ clients \in Seq(Nat) /\ DOMAIN segs = Types
  /\ capacity \in Nat /\ covered \in Nat
  /\ capacity >= MaxTasks + 2 * covered

LEMMA Naturals ==
  /\ MaxTasks \in Nat /\ Sizes \subseteq Nat /\ StackSizes \subseteq Nat
  /\ MetadataSize \in Nat /\ RecordSize \in Nat \ {0}
  /\ EhdrSize \in Nat /\ PhdrSize \in Nat /\ NoteSize \in Nat
BY SizesAssumption

\* The stacks of the tasks, behind the segments of the clients.
LEMMA StacksType ==
  ASSUME clients \in Seq(Nat), NEW n \in Nat, NEW stacks \in [1 .. n -> StackSizes]
  PROVE  clients \o stacks \in Seq(Nat) /\ Len(clients \o stacks) = Len(clients) + n
<1>1. stacks \in [1 .. n -> Nat]
  BY Naturals
<1>2. stacks \in Seq(Nat)
  BY <1>1, SeqDef
<1>3. DOMAIN stacks = 1 .. Len(stacks) /\ Len(stacks) \in Nat
  BY <1>2, LenProperties
<1>4. Len(stacks) = n
  BY <1>1, <1>3
<1>5. /\ clients \o stacks \in Seq(Nat)
      /\ Len(clients \o stacks) = Len(clients) + Len(stacks)
  BY <1>2, ConcatProperties
<1> QED
  BY <1>4, <1>5

LEMMA RoomInit == Init => RoomInv
<1> SUFFICES ASSUME Init PROVE RoomInv
  OBVIOUS
<1>1. PICK memory \in Sizes, kernel \in Sizes :
        segs = [FULL |-> <<memory>>, ALT |-> <<>>] /\ clients = <<kernel>>
  BY DEF Init
<1>2. segs["ALT"] = <<>> /\ DOMAIN segs = Types /\ kernel \in Nat
  BY <1>1, SizesAssumption DEF Types
<1>3. clients \in Seq(Nat) /\ segs["ALT"] \in Seq(Nat)
  BY <1>1, <1>2
<1>4. capacity = MaxTasks + 2 /\ covered = 1
  BY DEF Init
<1> QED
  BY <1>2, <1>3, <1>4, Naturals DEF RoomInv

\* The stacks a step has collected had been reserved for.
StacksReserved == Len(clients) <= 2 * covered => Len(segs'["ALT"]) <= RoomForStacks

LEMMA RoomStep == RoomInv /\ [Next]_vars => RoomInv' /\ StacksReserved
<1> SUFFICES ASSUME RoomInv, [Next]_vars PROVE RoomInv' /\ StacksReserved
  OBVIOUS
<1>0. /\ Len(clients) \in Nat /\ Len(segs["ALT"]) \in Nat /\ clients \in Seq(Nat)
      /\ RoomForStacks \in Nat /\ RoomForStacks >= capacity
      /\ RoomForStacks >= Len(clients) + Len(segs["ALT"])
      /\ capacity \in Nat /\ covered \in Nat
  BY LenProperties DEF RoomInv, RoomForStacks, AtLeast
<1>1. ASSUME segs'["ALT"] = segs["ALT"]
      PROVE  StacksReserved
  BY <1>0, <1>1 DEF StacksReserved
<1>2. ASSUME NEW size \in Sizes, AddFullRegion(size)
      PROVE  RoomInv' /\ StacksReserved
  <2>1. segs'["ALT"] = segs["ALT"] /\ DOMAIN segs' = DOMAIN segs
    BY <1>2 DEF AddFullRegion, RoomInv, Types
  <2>2. UNCHANGED <<clients, capacity, covered>>
    BY <1>2 DEF AddFullRegion
  <2> QED
    BY <1>1, <2>1, <2>2 DEF RoomInv
<1>3. ASSUME NEW size \in Sizes, NEW addToHead \in BOOLEAN, AddAltRegion(size, addToHead)
      PROVE  RoomInv' /\ StacksReserved
  <2>1. size \in Nat
    BY Naturals
  <2>2. clients' \in Seq(Nat) /\ UNCHANGED <<segs, capacity, covered>>
    BY <1>0, <1>3, <2>1 DEF AddAltRegion
  <2> QED
    BY <1>1, <2>2 DEF RoomInv
<1>4. CASE Reserve
  <2>1. /\ capacity' = AtLeast(capacity, MaxTasks + Len(clients) * 2)
        /\ covered' = Len(clients) /\ UNCHANGED <<segs, clients>>
    BY <1>4 DEF Reserve
  <2>2. capacity' \in Nat /\ capacity' >= MaxTasks + 2 * covered'
    BY <1>0, <2>1, Naturals DEF AtLeast
  <2> QED
    BY <1>0, <1>1, <2>1, <2>2 DEF RoomInv
<1>5. CASE ReserveThrows
  <2>1. PICK i \in DOMAIN clients, size \in Sizes : clients' = [clients EXCEPT ![i] = size]
    BY <1>5 DEF ReserveThrows
  <2>2. clients' \in Seq(Nat)
    BY <1>0, <2>1, Naturals, ReplacedSeq
  <2>3. UNCHANGED <<segs, capacity, covered>>
    BY <1>5 DEF ReserveThrows
  <2> QED
    BY <1>1, <2>2, <2>3 DEF RoomInv
<1>6. CASE UpdateSegments
  <2>1. CASE UNCHANGED <<segs, capacity>>
    <3>1. UNCHANGED <<clients, covered>>
      BY <1>6, ZenonT(30) DEF UpdateSegments
    <3> QED
      BY <1>1, <2>1, <3>1 DEF RoomInv
  <2>2. ASSUME NEW tasks \in 0 .. MaxTasks, NEW n \in 0 .. tasks,
               NEW stacks \in [1 .. n -> StackSizes],
               segs' = [segs EXCEPT !["ALT"] = clients \o stacks],
               capacity' = AtLeast(RoomForStacks, Len(clients) + n)
        PROVE  RoomInv' /\ StacksReserved
    <3>1. n \in Nat /\ n <= MaxTasks /\ MaxTasks \in Nat
      BY Naturals
    <3>2. segs'["ALT"] = clients \o stacks /\ DOMAIN segs' = Types
      BY <2>2 DEF RoomInv, Types
    <3>3. segs'["ALT"] \in Seq(Nat) /\ Len(segs'["ALT"]) = Len(clients) + n
      BY <1>0, <3>1, <3>2, StacksType
    <3>4. capacity' \in Nat /\ capacity' >= capacity
      BY <1>0, <2>2, <3>1 DEF AtLeast
    <3>5. UNCHANGED <<clients, covered>>
      BY <1>6, ZenonT(30) DEF UpdateSegments
    <3>6. capacity >= MaxTasks + 2 * covered
      BY DEF RoomInv
    <3>7. StacksReserved
      BY <1>0, <3>1, <3>3, <3>6 DEF StacksReserved
    <3>8. capacity' >= MaxTasks + 2 * covered'
      BY <1>0, <3>1, <3>4, <3>5, <3>6
    <3> QED
      BY <1>0, <3>2, <3>3, <3>4, <3>5, <3>7, <3>8 DEF RoomInv
  <2> QED
    <3>1. \/ UNCHANGED <<segs, capacity>>
          \/ \E tasks \in 0 .. MaxTasks : \E n \in 0 .. tasks : \E stacks \in [1 .. n -> StackSizes] :
               /\ segs' = [segs EXCEPT !["ALT"] = clients \o stacks]
               /\ capacity' = AtLeast(RoomForStacks, Len(clients) + n)
      BY <1>6, ZenonT(30) DEF UpdateSegments
    <3> QED
      BY <2>1, <2>2, <3>1
<1>7. ASSUME NEW type \in Types, NEW ccd \in BOOLEAN, Start(type, ccd)
      PROVE  UNCHANGED vectors
  BY <1>7 DEF Start
<1>8. ASSUME \/ WriteElfDir \/ LayOut \/ CopySegment \/ CopyNotes
             \/ AbortCopy \/ WriteElfSection \/ WriteDqDir \/ StoreBlock \/ BodyFits
             \/ CopyDqBody \/ DqFails \/ DqStored \/ ComputeDqCrc \/ WriteDqSection
             \/ Finish \/ UNCHANGED vars
      PROVE  UNCHANGED vectors
  BY <1>8
  DEF WriteElfDir, LayOut, CopySegment, CopyNotes, AbortCopy, WriteElfSection, WriteDqDir,
      StoreBlock, BodyFits, CopyDqBody, DqFails, DqStored, ComputeDqCrc, WriteDqSection,
      Finish, vars
<1>9. CASE UNCHANGED vectors
  BY <1>1, <1>9 DEF vectors, RoomInv
<1> QED
  BY <1>2, <1>3, <1>4, <1>5, <1>6, <1>7, <1>8, <1>9 DEF Next

\* Collecting the stacks of an alt dump never makes the vector allocate, whatever
\* segments are registered, wherever captures and registrations meet and whichever
\* reserve throws, unless those that are not through outnumber what was there
\* before.
THEOREM StacksAlwaysFit == Spec => StacksFit
<1>1. RoomInv /\ [Next]_vars =>
        [Len(clients) <= 2 * covered => Len(segs'["ALT"]) <= RoomForStacks]_vars
  BY RoomStep DEF StacksReserved
<1> QED
  BY <1>1, RoomInit, RoomStep, PTL DEF Spec, StacksFit

-----------------------------------------------------------------------------
(* Parts of one capture never collide.                                      *)

Fields == {"pc", "ccd", "base", "end", "phdrs", "tasks", "offset", "next",
           "notes", "dqBase", "dqSize", "dqPlan"}
Plans == Seq([kind : {"block", "fits", "body"}, size : Nat])

\* Where the parts of the running capture are: below the record that is filled in
\* next, or between it and what is written next.
Placed(d, p) ==
  /\ d.pc # "elfDir"
  /\ d.pc \in {"segments", "layout"} => p.at + p.len <= d.base - RecordSize
  /\ d.pc \in {"copy", "elfSec"} =>
       \/ p.at + p.len <= d.base - RecordSize
       \/ p.at >= d.base /\ p.at + p.len <= d.base + d.offset
  /\ d.pc = "dqDir" => p.at + p.len <= d.dqBase
  /\ d.pc \in {"dq", "dqCrc"} =>
       \/ p.at + p.len <= d.dqBase - RecordSize
       \/ p.at >= d.dqBase /\ p.at + p.len <= d.dqBase + d.dqSize
  /\ d.pc = "dqSec" =>
       \/ p.at + p.len <= d.dqBase - RecordSize
       \/ p.at >= d.dqBase

StateTyped ==
  /\ segs \in [Types -> Seq(Nat)] /\ clients \in Seq(Nat) /\ count \in Nat
  /\ "type" \in DOMAIN meta /\ meta.type \in Types

PartsTyped ==
  \A p \in parts : p.at \in Int /\ p.len \in Int /\ p.id \in Nat /\ p.id <= count

DumpTyped ==
  /\ DOMAIN dump = Fields
  /\ dump.base \in Nat /\ dump.offset \in Nat /\ dump.next \in Nat \ {0}
  /\ dump.notes \in Nat /\ dump.tasks \in Nat
  /\ dump.dqBase \in Nat /\ dump.dqSize \in Nat /\ dump.dqPlan \in Plans

OwnPlaced == \A p \in parts : p.id = count => Placed(dump, p)

PlaceInv ==
  /\ StateTyped /\ PartsTyped
  /\ dump # NoCapture => DumpTyped /\ OwnPlaced

OwnKept == dump # NoCapture => \A p \in parts : p.id = count => p \in parts'

\* A write only removes what it overlaps, and adds its own part.
LEMMA PutEffect ==
  ASSUME PartsTyped, UNCHANGED count, NEW q, Put(q),
         q.at \in Int, q.len \in Int, q.id \in Nat, q.id <= count
  PROVE  PartsTyped' /\ \A p \in parts' : p \in parts \/ p = q
BY DEF Put, PartsTyped

LEMMA PutKeeps ==
  ASSUME NEW q, Put(q), \A p \in parts : p.id = count => Disjoint(q, p)
  PROVE  \A p \in parts : p.id = count => p \in parts'
BY DEF Put

LEMMA PartFields ==
  ASSUME NEW what, NEW at, NEW len
  PROVE  Part(what, at, len).at = at /\ Part(what, at, len).len = len /\ Part(what, at, len).id = count
BY DEF Part

LEMMA HeaderFields ==
  ASSUME NEW what, NEW at, NEW size
  PROVE  /\ Header(what, at, size).at = at /\ Header(what, at, size).len = RecordSize
         /\ Header(what, at, size).id = count
BY DEF Header, Part

\* The write of one part, as the actions below use it: it meets no part of the
\* same capture, and everything is where it has to be afterwards.
LEMMA PutInPlace ==
  ASSUME PlaceInv, dump # NoCapture, UNCHANGED count, StateTyped',
         NEW q, Put(q), q.at \in Int, q.len \in Int, q.id = count,
         \A p \in parts : p.id = count => Disjoint(q, p),
         \A p \in parts : p.id = count => Placed(dump', p),
         Placed(dump', q), DumpTyped'
  PROVE  PlaceInv' /\ OwnKept
<1>1. count \in Nat /\ q.id \in Nat /\ q.id <= count
  BY DEF PlaceInv, StateTyped
<1>2. PartsTyped' /\ \A p \in parts' : p \in parts \/ p = q
  BY <1>1, PutEffect DEF PlaceInv
<1>3. OwnPlaced'
  BY <1>2 DEF OwnPlaced
<1>4. OwnKept
  BY PutKeeps DEF OwnKept
<1> QED
  BY <1>2, <1>3, <1>4 DEF PlaceInv

\* A step that writes nothing.
LEMMA NothingPut ==
  ASSUME PlaceInv, UNCHANGED <<parts, count>>, StateTyped',
         dump' # NoCapture => DumpTyped' /\ \A p \in parts : p.id = count => Placed(dump', p)
  PROVE  PlaceInv' /\ OwnKept
BY DEF PlaceInv, PartsTyped, OwnPlaced, OwnKept

LEMMA AbortStep ==
  ASSUME PlaceInv, Abort, UNCHANGED <<vectors, count>>
  PROVE  PlaceInv' /\ OwnKept
<1>1. StateTyped' /\ UNCHANGED <<parts, count>> /\ dump' = NoCapture
  BY DEF PlaceInv, StateTyped, Abort, vectors
<1> QED
  BY <1>1, NothingPut

LEMMA StartStep ==
  ASSUME PlaceInv, NEW type \in Types, NEW ccd \in BOOLEAN, Start(type, ccd)
  PROVE  PlaceInv' /\ OwnKept
<1>1. dump = NoCapture /\ count' = count + 1 /\ UNCHANGED <<vectors, parts>>
  BY DEF Start
<1>2. "type" \in DOMAIN meta' /\ meta'.type = type
  BY DEF Start, PlaceInv, StateTyped
<1>3. StateTyped'
  BY <1>1, <1>2 DEF PlaceInv, StateTyped, vectors
<1>4. PartsTyped'
  BY <1>1 DEF PlaceInv, PartsTyped, StateTyped
<1>5. OwnPlaced'
  BY <1>1 DEF OwnPlaced, PlaceInv, PartsTyped, StateTyped
<1>6. RpaBase + MetadataSize \in Nat /\ SharedBase \in Nat
  BY SizesAssumption, RegionsAssumption
<1>7. <<>> \in Plans
  BY DEF Plans
<1>8. DumpTyped'
  BY <1>6, <1>7 DEF Start, DumpTyped, Fields
<1> QED
  BY <1>1, <1>3, <1>4, <1>5, <1>8 DEF PlaceInv, OwnKept

LEMMA WriteElfDirStep ==
  ASSUME PlaceInv, WriteElfDir
  PROVE  PlaceInv' /\ OwnKept
<1> DEFINE q == Header("CORE_ELF_DIR", dump.base, 0)
<1>1. dump.pc = "elfDir" /\ dump # NoCapture /\ UNCHANGED <<vectors, count>>
  BY DEF WriteElfDir, NoCapture
<1>2. CASE Abort
  BY <1>1, <1>2, AbortStep
<1>3. CASE Put(q) /\ dump' = [dump EXCEPT !.pc = "segments", !.base = @ + 2 * RecordSize]
           /\ UNCHANGED <<meta, notesAt>>
  <2>1. DumpTyped /\ OwnPlaced /\ RecordSize \in Nat
    BY <1>1, Naturals DEF PlaceInv
  <2>2. dump'.pc = "segments" /\ dump'.base = dump.base + 2 * RecordSize
    BY <1>3, <2>1 DEF DumpTyped, Fields
  <2>3. DumpTyped'
    BY <1>3, <2>1, <2>2 DEF DumpTyped, Fields
  <2>4. \A p \in parts : p.id # count
    BY <1>1, <2>1 DEF OwnPlaced, Placed
  <2>5. q.at = dump.base /\ q.len = RecordSize /\ q.id = count
    BY HeaderFields
  <2>6. Placed(dump', q)
    <3>1. q.at + q.len <= dump'.base - RecordSize
      BY <2>1, <2>2, <2>5 DEF DumpTyped
    <3> QED
      BY <2>2, <3>1 DEF Placed
  <2>7. StateTyped'
    BY <1>1, <1>3 DEF PlaceInv, StateTyped, vectors
  <2> QED
    BY <1>1, <1>3, <2>1, <2>3, <2>4, <2>5, <2>6, <2>7, PutInPlace DEF DumpTyped
<1> QED
  BY <1>2, <1>3 DEF WriteElfDir

LEMMA UpdateSegmentsStep ==
  ASSUME PlaceInv, UpdateSegments
  PROVE  PlaceInv' /\ OwnKept
<1>0. dump.pc = "segments" /\ UNCHANGED <<clients, pushed, covered, count>>
  BY ZenonT(30) DEF UpdateSegments
<1>1. dump.pc = "segments" /\ dump # NoCapture /\ UNCHANGED <<clients, pushed, covered, count>>
  BY <1>0 DEF NoCapture
<1>2. StateTyped /\ DumpTyped /\ OwnPlaced
  BY <1>1 DEF PlaceInv
<1>3. CASE Abort /\ UNCHANGED <<segs, capacity>>
  BY <1>1, <1>3, AbortStep DEF vectors
<1>4. ASSUME NEW tasks \in 0 .. MaxTasks,
             dump' = [dump EXCEPT !.pc = "layout", !.tasks = tasks],
             \/ UNCHANGED segs
             \/ \E n \in 0 .. tasks : \E stacks \in [1 .. n -> StackSizes] :
                  segs' = [segs EXCEPT !["ALT"] = clients \o stacks],
             UNCHANGED <<parts, meta, notesAt>>
      PROVE  PlaceInv' /\ OwnKept
  <2>1. segs' \in [Types -> Seq(Nat)]
    <3>1. CASE UNCHANGED segs
      BY <1>2, <3>1 DEF StateTyped
    <3>2. ASSUME NEW n \in 0 .. tasks, NEW stacks \in [1 .. n -> StackSizes],
                 segs' = [segs EXCEPT !["ALT"] = clients \o stacks]
          PROVE  segs' \in [Types -> Seq(Nat)]
      <4>1. clients \o stacks \in Seq(Nat)
        BY <1>2, StacksType DEF StateTyped
      <4> QED
        BY <1>2, <3>2, <4>1 DEF StateTyped
    <3> QED
      BY <1>4, <3>1, <3>2
  <2>2. StateTyped'
    BY <1>1, <1>2, <1>4, <2>1 DEF StateTyped
  <2>3. dump'.pc = "layout" /\ dump'.base = dump.base
    BY <1>2, <1>4 DEF DumpTyped, Fields
  <2>4. DumpTyped'
    BY <1>2, <1>4, Naturals DEF DumpTyped, Fields
  <2>5. \A p \in parts : p.id = count => Placed(dump', p)
    BY <1>1, <1>2, <2>3 DEF OwnPlaced, Placed
  <2> QED
    BY <1>1, <1>4, <2>2, <2>4, <2>5, NothingPut
<1> QED
  BY <1>3, <1>4 DEF UpdateSegments

LEMMA LoadSectionsType ==
  ASSUME StateTyped
  PROVE  LoadSections \in Nat
<1>1. Len(segs[meta.type]) \in Nat
  BY LenProperties DEF StateTyped
<1>2. NumHeaders \in Nat
  <2> DEFINE extra == IF dump.ccd THEN 1 ELSE 0
  <2>1. extra = 0 \/ extra = 1
    OBVIOUS
  <2> HIDE DEF extra
  <2>2. 1 + Len(segs[meta.type]) + extra \in Nat
    BY <1>1, <2>1
  <2> QED
    BY <2>2 DEF NumHeaders, extra
<1>3. EhdrSize + NumHeaders * PhdrSize \in Nat
  BY <1>2, Naturals, NaturalProduct
<1> QED
  BY <1>3, CeilingType DEF LoadSections

LEMMA LayOutStep ==
  ASSUME PlaceInv, LayOut
  PROVE  PlaceInv' /\ OwnKept
<1> DEFINE q == Part("PHDRS", dump.base, LoadSections)
<1>1. /\ dump.pc = "layout" /\ dump # NoCapture
      /\ UNCHANGED <<vectors, meta, count>> /\ Put(q)
  BY DEF LayOut, NoCapture
<1>2. StateTyped /\ DumpTyped /\ OwnPlaced /\ RecordSize \in Nat \ {0}
  BY <1>1, Naturals DEF PlaceInv
<1>3. PICK exception \in BOOLEAN, current \in BOOLEAN : \E headers :
        dump' = [dump EXCEPT !.pc = "copy", !.offset = LoadSections,
                             !.notes = Notes(dump.tasks, exception, current) * NoteSize,
                             !.phdrs = headers]
  BY DEF LayOut
<1>4. LoadSections \in Nat /\ Notes(dump.tasks, exception, current) * NoteSize \in Nat
  BY <1>2, LoadSectionsType, NotesType, Naturals, NaturalProduct DEF DumpTyped
<1>5. dump'.pc = "copy" /\ dump'.base = dump.base /\ dump'.offset = LoadSections
  BY <1>2, <1>3 DEF DumpTyped, Fields
<1>6. DumpTyped'
  BY <1>2, <1>3, <1>4 DEF DumpTyped, Fields
<1>7. StateTyped'
  BY <1>1, <1>2 DEF StateTyped, vectors
<1>8. q.at = dump.base /\ q.len = LoadSections /\ q.id = count
  BY PartFields
<1>9. \A p \in parts : p.id = count => p.at \in Int /\ p.len \in Int /\ p.at + p.len <= dump.base - RecordSize
  BY <1>1, <1>2 DEF OwnPlaced, Placed, PlaceInv, PartsTyped
<1>10. \A p \in parts : p.id = count => Disjoint(q, p)
  BY <1>2, <1>8, <1>9 DEF Disjoint, DumpTyped
<1>11. \A p \in parts : p.id = count => Placed(dump', p)
  BY <1>5, <1>9 DEF Placed
<1>12. Placed(dump', q)
  BY <1>2, <1>4, <1>5, <1>8 DEF Placed, DumpTyped
<1> QED
  BY <1>1, <1>2, <1>4, <1>6, <1>7, <1>8, <1>10, <1>11, <1>12, PutInPlace DEF DumpTyped

\* Copying to the end of the file, for a segment and for the notes.
LEMMA CopyInPlace ==
  ASSUME PlaceInv, dump.pc = "copy", UNCHANGED count, StateTyped', DumpTyped',
         NEW q, Put(q), q.at = dump.base + dump.offset, q.len \in Nat, q.id = count,
         dump'.pc \in {"copy", "elfSec"}, dump'.base = dump.base,
         dump'.offset = dump.offset + q.len
  PROVE  PlaceInv' /\ OwnKept
<1>1. dump # NoCapture
  BY DEF NoCapture
<1>2. DumpTyped /\ OwnPlaced /\ RecordSize \in Nat \ {0}
  BY <1>1, Naturals DEF PlaceInv
<1>3. \A p \in parts : p.id = count =>
        /\ p.at \in Int /\ p.len \in Int
        /\ \/ p.at + p.len <= dump.base - RecordSize
           \/ p.at >= dump.base /\ p.at + p.len <= dump.base + dump.offset
  BY <1>2 DEF OwnPlaced, Placed, PlaceInv, PartsTyped
<1>4. \A p \in parts : p.id = count => Disjoint(q, p)
  BY <1>2, <1>3 DEF Disjoint, DumpTyped
<1>5. \A p \in parts : p.id = count => Placed(dump', p)
  BY <1>2, <1>3 DEF Placed, DumpTyped
<1>6. Placed(dump', q)
  BY <1>2 DEF Placed, DumpTyped
<1> QED
  BY <1>1, <1>2, <1>4, <1>5, <1>6, PutInPlace DEF DumpTyped

LEMMA CopySegmentStep ==
  ASSUME PlaceInv, CopySegment
  PROVE  PlaceInv' /\ OwnKept
<1> DEFINE size == segs[meta.type][dump.next]
           q == Part("SEGMENT", dump.base + dump.offset, size)
<1>1. /\ dump.pc = "copy" /\ dump.next <= Len(segs[meta.type]) /\ dump # NoCapture
      /\ UNCHANGED <<vectors, meta, count>> /\ Put(q)
      /\ dump' = [dump EXCEPT !.next = @ + 1, !.offset = @ + size]
  BY DEF CopySegment, NoCapture
<1>2. StateTyped /\ DumpTyped
  BY <1>1 DEF PlaceInv
<1>3. segs[meta.type] \in Seq(Nat) /\ dump.next \in 1 .. Len(segs[meta.type])
  BY <1>1, <1>2, LenProperties DEF StateTyped, DumpTyped
<1>4. size \in Nat
  BY <1>3, ElementOfSeq
<1>5. dump'.pc = "copy" /\ dump'.base = dump.base /\ dump'.offset = dump.offset + size
  BY <1>1, <1>2 DEF DumpTyped, Fields
<1>6. DumpTyped'
  <2>1. DOMAIN dump' = Fields /\ dump'.next = dump.next + 1
    BY <1>1, <1>2 DEF DumpTyped, Fields
  <2>2. /\ dump'.notes = dump.notes /\ dump'.tasks = dump.tasks
        /\ dump'.dqBase = dump.dqBase /\ dump'.dqSize = dump.dqSize /\ dump'.dqPlan = dump.dqPlan
    BY <1>1, <1>2 DEF DumpTyped, Fields
  <2> QED
    BY <1>2, <1>4, <1>5, <2>1, <2>2 DEF DumpTyped
<1>7. StateTyped'
  BY <1>1, <1>2 DEF StateTyped, vectors
<1>8. q.at = dump.base + dump.offset /\ q.len = size /\ q.id = count
  BY PartFields
<1> HIDE DEF size, q
<1> QED
  BY <1>1, <1>4, <1>5, <1>6, <1>7, <1>8, CopyInPlace

LEMMA CopyNotesStep ==
  ASSUME PlaceInv, CopyNotes
  PROVE  PlaceInv' /\ OwnKept
<1> DEFINE q == Part("NOTES", dump.base + dump.offset, dump.notes)
<1>1. /\ dump.pc = "copy" /\ dump # NoCapture
      /\ UNCHANGED <<vectors, count>> /\ Put(q)
      /\ dump' = [dump EXCEPT !.pc = "elfSec", !.offset = @ + dump.notes]
  BY DEF CopyNotes, NoCapture
<1>2. StateTyped /\ DumpTyped
  BY <1>1 DEF PlaceInv
<1>3. "type" \in DOMAIN meta' /\ meta'.type = meta.type
  BY <1>2 DEF CopyNotes, StateTyped
<1>4. dump'.pc = "elfSec" /\ dump'.base = dump.base /\ dump'.offset = dump.offset + dump.notes
  BY <1>1, <1>2 DEF DumpTyped, Fields
<1>5. DumpTyped'
  BY <1>1, <1>2 DEF DumpTyped, Fields
<1>6. StateTyped'
  BY <1>1, <1>2, <1>3 DEF StateTyped, vectors
<1>7. q.at = dump.base + dump.offset /\ q.len = dump.notes /\ q.id = count
  BY PartFields
<1>8. q.len \in Nat
  BY <1>2, <1>7 DEF DumpTyped
<1> HIDE DEF q
<1> QED
  BY <1>1, <1>4, <1>5, <1>6, <1>7, <1>8, CopyInPlace

\* The record left out in front of what has been copied, and the next address.
LEMMA WriteElfSectionStep ==
  ASSUME PlaceInv, WriteElfSection
  PROVE  PlaceInv' /\ OwnKept
<1> DEFINE q == Header("CPU_ELF", dump.base - RecordSize, dump.offset)
<1>1. /\ dump.pc = "elfSec" /\ dump # NoCapture
      /\ UNCHANGED <<vectors, meta, count>> /\ Put(q)
      /\ dump' = [dump EXCEPT !.pc = "dqDir", !.dqBase = dump.base + dump.offset]
  BY DEF WriteElfSection, NoCapture
<1>2. StateTyped /\ DumpTyped /\ OwnPlaced /\ RecordSize \in Nat \ {0}
  BY <1>1, Naturals DEF PlaceInv
<1>3. dump'.pc = "dqDir" /\ dump'.dqBase = dump.base + dump.offset
  BY <1>1, <1>2 DEF DumpTyped, Fields
<1>4. DumpTyped'
  BY <1>1, <1>2 DEF DumpTyped, Fields
<1>5. StateTyped'
  BY <1>1, <1>2 DEF StateTyped, vectors
<1>6. q.at = dump.base - RecordSize /\ q.len = RecordSize /\ q.id = count
  BY HeaderFields
<1>7. \A p \in parts : p.id = count =>
        /\ p.at \in Int /\ p.len \in Int
        /\ \/ p.at + p.len <= dump.base - RecordSize
           \/ p.at >= dump.base /\ p.at + p.len <= dump.base + dump.offset
  BY <1>1, <1>2 DEF OwnPlaced, Placed, PlaceInv, PartsTyped
<1>8. \A p \in parts : p.id = count => Disjoint(q, p)
  BY <1>2, <1>6, <1>7 DEF Disjoint, DumpTyped
<1>9. \A p \in parts : p.id = count => Placed(dump', p)
  BY <1>2, <1>3, <1>7 DEF Placed, DumpTyped
<1>10. Placed(dump', q)
  BY <1>2, <1>3, <1>6 DEF Placed, DumpTyped
<1> HIDE DEF q
<1> QED
  BY <1>1, <1>2, <1>4, <1>5, <1>6, <1>8, <1>9, <1>10, PutInPlace DEF DumpTyped

LEMMA WriteDqDirStep ==
  ASSUME PlaceInv, WriteDqDir
  PROVE  PlaceInv' /\ OwnKept
<1> DEFINE q == Header("DQ_DIR", dump.dqBase, 0)
<1>0. dump.pc = "dqDir" /\ UNCHANGED <<vectors, meta, count>> /\ Put(q)
  BY Zenon DEF WriteDqDir
<1>1. /\ dump.pc = "dqDir" /\ dump # NoCapture
      /\ UNCHANGED <<vectors, meta, count>> /\ Put(q)
  BY <1>0 DEF NoCapture
<1>2. StateTyped /\ DumpTyped /\ OwnPlaced /\ RecordSize \in Nat \ {0}
  BY <1>1, Naturals DEF PlaceInv
<1>3. PICK pc \in {"dq", "dqSec"}, plan \in Plans :
        dump' = [dump EXCEPT !.pc = pc, !.dqBase = @ + 2 * RecordSize, !.dqPlan = plan]
  <2>1. CASE \E plan \in DqPlans :
               dump' = [dump EXCEPT !.pc = "dq", !.dqBase = @ + 2 * RecordSize, !.dqPlan = plan]
    BY <2>1, PlansAssumption DEF Plans
  <2>2. CASE dump' = [dump EXCEPT !.pc = "dqSec", !.dqBase = @ + 2 * RecordSize]
    <3>1. dump' = [dump EXCEPT !.pc = "dqSec", !.dqBase = @ + 2 * RecordSize, !.dqPlan = dump.dqPlan]
      BY <1>2, <2>2 DEF DumpTyped, Fields
    <3> QED
      BY <1>2, <3>1 DEF DumpTyped
  <2> QED
    BY <2>1, <2>2 DEF WriteDqDir
<1>4. /\ dump'.pc = pc /\ dump'.dqBase = dump.dqBase + 2 * RecordSize
      /\ dump'.dqSize = dump.dqSize
  BY <1>2, <1>3 DEF DumpTyped, Fields
<1>5. DumpTyped'
  <2>1. DOMAIN dump' = Fields /\ dump'.next = dump.next /\ dump'.dqPlan = plan
    BY <1>2, <1>3 DEF DumpTyped, Fields
  <2>2. /\ dump'.notes = dump.notes /\ dump'.tasks = dump.tasks
        /\ dump'.base = dump.base /\ dump'.offset = dump.offset
    BY <1>2, <1>3 DEF DumpTyped, Fields
  <2> QED
    BY <1>2, <1>4, <2>1, <2>2 DEF DumpTyped
<1>6. StateTyped'
  BY <1>1, <1>2 DEF StateTyped, vectors
<1>7. q.at = dump.dqBase /\ q.len = RecordSize /\ q.id = count
  BY HeaderFields
<1>8. \A p \in parts : p.id = count => p.at \in Int /\ p.len \in Int /\ p.at + p.len <= dump.dqBase
  BY <1>1, <1>2 DEF OwnPlaced, Placed, PlaceInv, PartsTyped
<1>9. \A p \in parts : p.id = count => Disjoint(q, p)
  BY <1>2, <1>7, <1>8 DEF Disjoint, DumpTyped
<1>10. \A p \in parts : p.id = count => Placed(dump', p)
  BY <1>2, <1>4, <1>8 DEF Placed, DumpTyped
<1>11. Placed(dump', q)
  BY <1>2, <1>4, <1>7 DEF Placed, DumpTyped
<1> HIDE DEF q
<1> QED
  BY <1>1, <1>2, <1>5, <1>6, <1>7, <1>9, <1>10, <1>11, PutInPlace DEF DumpTyped

\* What is left to do after one step of copyTraceDq, and the size of that step.
LEMMA PlanTail ==
  ASSUME NEW plan \in Plans, plan # <<>>
  PROVE  Head(plan).size \in Nat /\ Tail(plan) \in Plans
<1> DEFINE Steps == [kind : {"block", "fits", "body"}, size : Nat]
<1>1. plan \in Seq(Steps)
  BY DEF Plans
<1> HIDE DEF Steps
<1>2. Head(plan) \in Steps /\ Tail(plan) \in Seq(Steps)
  BY <1>1, HeadTailProperties
<1> QED
  BY <1>2 DEF Steps, Plans

LEMMA StoredEffect ==
  ASSUME DumpTyped, NEW size \in Nat, dump.dqPlan # <<>>, dump' = Stored(size)
  PROVE  /\ DumpTyped' /\ dump'.pc = dump.pc /\ dump'.dqBase = dump.dqBase
         /\ dump'.dqSize = dump.dqSize + size
<1>1. /\ DOMAIN dump' = Fields /\ dump'.pc = dump.pc /\ dump'.dqBase = dump.dqBase
      /\ dump'.dqSize = dump.dqSize + size /\ dump'.dqPlan = Tail(dump.dqPlan)
  BY DEF DumpTyped, Fields, Stored
<1>2. /\ dump'.next = dump.next /\ dump'.notes = dump.notes /\ dump'.tasks = dump.tasks
      /\ dump'.base = dump.base /\ dump'.offset = dump.offset
  BY DEF DumpTyped, Fields, Stored
<1>3. Tail(dump.dqPlan) \in Plans
  BY PlanTail DEF DumpTyped
<1> QED
  BY <1>1, <1>2, <1>3 DEF DumpTyped

\* A block or a body goes where the write pointer is, which then moves past it.
LEMMA StoreInPlace ==
  ASSUME PlaceInv, NEW kind, DqStep(kind), UNCHANGED <<vectors, meta, count>>,
         Put(Part("DQ", DqWritePtr, Head(dump.dqPlan).size)),
         dump' = Stored(Head(dump.dqPlan).size)
  PROVE  PlaceInv' /\ OwnKept
<1> DEFINE size == Head(dump.dqPlan).size
           q == Part("DQ", DqWritePtr, size)
<1>1. dump.pc = "dq" /\ dump.dqPlan # <<>> /\ dump # NoCapture
  BY DEF DqStep, NoCapture
<1>2. StateTyped /\ DumpTyped /\ OwnPlaced /\ RecordSize \in Nat \ {0}
  BY <1>1, Naturals DEF PlaceInv
<1>3. size \in Nat
  BY <1>1, <1>2, PlanTail DEF DumpTyped
<1>4. /\ DumpTyped' /\ dump'.pc = "dq" /\ dump'.dqBase = dump.dqBase
      /\ dump'.dqSize = dump.dqSize + size
  BY <1>1, <1>2, <1>3, StoredEffect
<1>5. StateTyped'
  BY <1>2 DEF StateTyped, vectors
<1>6. q.at = dump.dqBase + dump.dqSize /\ q.len = size /\ q.id = count
  BY PartFields DEF DqWritePtr
<1> HIDE DEF size
<1>7. \A p \in parts : p.id = count =>
        /\ p.at \in Int /\ p.len \in Int
        /\ \/ p.at + p.len <= dump.dqBase - RecordSize
           \/ p.at >= dump.dqBase /\ p.at + p.len <= dump.dqBase + dump.dqSize
  BY <1>1, <1>2 DEF OwnPlaced, Placed, PlaceInv, PartsTyped
<1>8. Put(q)
  BY DEF size
<1> HIDE DEF q
<1>9. \A p \in parts : p.id = count => Disjoint(q, p)
  BY <1>2, <1>6, <1>7 DEF Disjoint, DumpTyped
<1>10. \A p \in parts : p.id = count => Placed(dump', p)
  BY <1>2, <1>3, <1>4, <1>7 DEF Placed, DumpTyped
<1>11. Placed(dump', q)
  BY <1>2, <1>3, <1>4, <1>6 DEF Placed, DumpTyped
<1>12. q.at \in Int /\ q.len \in Int
  BY <1>2, <1>3, <1>6 DEF DumpTyped
<1>13. UNCHANGED count /\ DumpTyped'
  BY <1>4
<1> QED
  BY <1>1, <1>5, <1>6, <1>8, <1>9, <1>10, <1>11, <1>12, <1>13, PutInPlace

\* A step of copyTraceDq that stores nothing.
LEMMA SkipInPlace ==
  ASSUME PlaceInv, NEW kind, DqStep(kind), UNCHANGED <<vectors, meta, parts, count>>,
         dump' = Stored(0)
  PROVE  PlaceInv' /\ OwnKept
<1>1. dump.pc = "dq" /\ dump.dqPlan # <<>> /\ dump # NoCapture
  BY DEF DqStep, NoCapture
<1>2. StateTyped /\ DumpTyped /\ OwnPlaced
  BY <1>1 DEF PlaceInv
<1>3. /\ DumpTyped' /\ dump'.pc = "dq" /\ dump'.dqBase = dump.dqBase
      /\ dump'.dqSize = dump.dqSize + 0
  BY <1>1, <1>2, StoredEffect
<1>4. \A p \in parts : p.id = count => Placed(dump', p)
  <2>1. dump'.dqSize = dump.dqSize
    BY <1>2, <1>3 DEF DumpTyped
  <2> QED
    BY <1>1, <1>2, <1>3, <2>1 DEF OwnPlaced, Placed
<1>5. StateTyped'
  BY <1>2 DEF StateTyped, vectors
<1> QED
  BY <1>3, <1>4, <1>5, NothingPut

LEMMA StoreBlockStep ==
  ASSUME PlaceInv, StoreBlock
  PROVE  PlaceInv' /\ OwnKept
<1>1. DqStep("block") /\ UNCHANGED <<vectors, meta, count>>
  BY DEF StoreBlock
<1>2. CASE Put(Part("DQ", DqWritePtr, Head(dump.dqPlan).size)) /\ dump' = Stored(Head(dump.dqPlan).size)
  BY <1>1, <1>2, StoreInPlace
<1>3. CASE dump' = Stored(0) /\ UNCHANGED parts
  BY <1>1, <1>3, SkipInPlace
<1> QED
  BY <1>2, <1>3 DEF StoreBlock

\* The end of copyTraceDq, with or without something stored.
LEMMA DqEndStep ==
  ASSUME PlaceInv, DqFails \/ DqStored \/ ComputeDqCrc
  PROVE  PlaceInv' /\ OwnKept
<1>1. /\ dump.pc \in {"dq", "dqCrc"} /\ UNCHANGED <<vectors, parts, count>>
  BY DEF DqFails, DqStored, ComputeDqCrc
<1>2. dump # NoCapture
  BY <1>1 DEF NoCapture
<1>3. StateTyped /\ DumpTyped /\ OwnPlaced
  BY <1>2 DEF PlaceInv
<1>4. "type" \in DOMAIN meta' /\ meta'.type = meta.type
  BY <1>3 DEF DqFails, DqStored, ComputeDqCrc, StateTyped
<1>5. StateTyped'
  BY <1>1, <1>3, <1>4 DEF StateTyped, vectors
<1>6. /\ dump'.pc \in {"dqCrc", "dqSec"} /\ dump'.dqBase = dump.dqBase
      /\ dump'.dqSize \in {0, dump.dqSize} /\ dump'.dqPlan \in {<<>>, dump.dqPlan}
      /\ dump'.pc = "dqCrc" => dump'.dqSize = dump.dqSize
  <2>1. CASE DqFails
    BY <1>3, <2>1 DEF DqFails, DumpTyped, Fields
  <2>2. CASE DqStored
    BY <1>3, <2>2 DEF DqStored, DumpTyped, Fields
  <2>3. CASE ComputeDqCrc
    BY <1>3, <2>3 DEF ComputeDqCrc, DumpTyped, Fields
  <2> QED
    BY <2>1, <2>2, <2>3
<1>7. /\ DOMAIN dump' = Fields /\ dump'.next = dump.next /\ dump'.notes = dump.notes
      /\ dump'.tasks = dump.tasks /\ dump'.base = dump.base /\ dump'.offset = dump.offset
  <2>1. CASE DqFails
    BY <1>3, <2>1 DEF DqFails, DumpTyped, Fields
  <2>2. CASE DqStored
    BY <1>3, <2>2 DEF DqStored, DumpTyped, Fields
  <2>3. CASE ComputeDqCrc
    BY <1>3, <2>3 DEF ComputeDqCrc, DumpTyped, Fields
  <2> QED
    BY <2>1, <2>2, <2>3
<1>8. DumpTyped'
  <2>1. <<>> \in Plans
    BY DEF Plans
  <2> QED
    BY <1>3, <1>6, <1>7, <2>1 DEF DumpTyped
<1>9. \A p \in parts : p.id = count => Placed(dump', p)
  BY <1>1, <1>3, <1>6 DEF OwnPlaced, Placed
<1> QED
  BY <1>1, <1>5, <1>8, <1>9, NothingPut

LEMMA WriteDqSectionStep ==
  ASSUME PlaceInv, WriteDqSection
  PROVE  PlaceInv' /\ OwnKept
<1> DEFINE q == Header("DQ_TRACE", dump.dqBase - RecordSize, dump.dqSize)
<1>1. /\ dump.pc = "dqSec" /\ dump # NoCapture
      /\ UNCHANGED <<vectors, meta, count>> /\ Put(q)
      /\ dump' = [dump EXCEPT !.pc = "finish"]
  BY DEF WriteDqSection, NoCapture
<1>2. StateTyped /\ DumpTyped /\ OwnPlaced /\ RecordSize \in Nat \ {0}
  BY <1>1, Naturals DEF PlaceInv
<1>3. DumpTyped' /\ dump'.pc = "finish"
  BY <1>1, <1>2 DEF DumpTyped, Fields
<1>4. StateTyped'
  BY <1>1, <1>2 DEF StateTyped, vectors
<1>5. q.at = dump.dqBase - RecordSize /\ q.len = RecordSize /\ q.id = count
  BY HeaderFields
<1>6. \A p \in parts : p.id = count =>
        /\ p.at \in Int /\ p.len \in Int
        /\ p.at + p.len <= dump.dqBase - RecordSize \/ p.at >= dump.dqBase
  BY <1>1, <1>2 DEF OwnPlaced, Placed, PlaceInv, PartsTyped
<1>7. \A p \in parts : p.id = count => Disjoint(q, p)
  BY <1>2, <1>5, <1>6 DEF Disjoint, DumpTyped
<1>8. \A p : Placed(dump', p)
  BY <1>3 DEF Placed
<1> HIDE DEF q
<1> QED
  BY <1>1, <1>2, <1>3, <1>4, <1>5, <1>7, <1>8, PutInPlace DEF DumpTyped

LEMMA FinishStep ==
  ASSUME PlaceInv, Finish
  PROVE  PlaceInv' /\ OwnKept
<1>1. UNCHANGED <<vectors, parts, count>> /\ dump' = NoCapture
  BY DEF Finish
<1>2. "type" \in DOMAIN meta' /\ meta'.type = meta.type
  BY DEF Finish, PlaceInv, StateTyped
<1>3. StateTyped'
  BY <1>1, <1>2 DEF PlaceInv, StateTyped, vectors
<1> QED
  BY <1>1, <1>3, NothingPut

\* Registration happens between captures.
LEMMA RegisterStep ==
  ASSUME PlaceInv,
         \/ \E size \in Sizes : AddFullRegion(size)
         \/ \E size \in Sizes, addToHead \in BOOLEAN : AddAltRegion(size, addToHead)
         \/ Reserve \/ ReserveThrows
  PROVE  PlaceInv' /\ OwnKept
<1>1. dump' = NoCapture /\ UNCHANGED <<parts, meta, count>>
  BY DEF AddFullRegion, AddAltRegion, Reserve, ReserveThrows
<1>2. segs' \in [Types -> Seq(Nat)] /\ clients' \in Seq(Nat)
  <2>1. ASSUME NEW size \in Sizes, AddFullRegion(size)
        PROVE  segs' \in [Types -> Seq(Nat)] /\ clients' \in Seq(Nat)
    <3>1. Append(segs["FULL"], size) \in Seq(Nat)
      BY Naturals DEF PlaceInv, StateTyped, Types
    <3> QED
      BY <2>1, <3>1 DEF AddFullRegion, PlaceInv, StateTyped
  <2>2. ASSUME NEW size \in Sizes, NEW addToHead \in BOOLEAN, AddAltRegion(size, addToHead)
        PROVE  segs' \in [Types -> Seq(Nat)] /\ clients' \in Seq(Nat)
    <3>1. size \in Nat
      BY Naturals
    <3>2. <<size>> \o clients \in Seq(Nat) /\ Append(clients, size) \in Seq(Nat)
      BY <3>1 DEF PlaceInv, StateTyped
    <3> QED
      BY <2>2, <3>2 DEF AddAltRegion, PlaceInv, StateTyped
  <2>3. CASE Reserve
    BY <2>3 DEF Reserve, PlaceInv, StateTyped
  <2>4. CASE ReserveThrows
    <3>1. PICK i \in DOMAIN clients, size \in Sizes : clients' = [clients EXCEPT ![i] = size]
      BY <2>4 DEF ReserveThrows
    <3>2. clients \in Seq(Nat) /\ segs \in [Types -> Seq(Nat)] /\ segs' = segs
      BY <2>4 DEF ReserveThrows, PlaceInv, StateTyped
    <3>3. clients' \in Seq(Nat)
      BY <3>1, <3>2, Naturals, ReplacedSeq
    <3> QED
      BY <3>2, <3>3
  <2> QED
    BY <2>1, <2>2, <2>3, <2>4
<1>3. StateTyped'
  BY <1>1, <1>2 DEF PlaceInv, StateTyped
<1> QED
  BY <1>1, <1>3, NothingPut

LEMMA PlaceInit == Init => PlaceInv
<1> SUFFICES ASSUME Init PROVE PlaceInv
  OBVIOUS
<1>1. PICK memory \in Sizes, kernel \in Sizes :
        segs = [FULL |-> <<memory>>, ALT |-> <<>>] /\ clients = <<kernel>>
  BY DEF Init
<1>2. <<memory>> \in Seq(Nat) /\ <<kernel>> \in Seq(Nat) /\ <<>> \in Seq(Nat)
  BY Naturals
<1>3. segs \in [Types -> Seq(Nat)] /\ clients \in Seq(Nat)
  <2>1. segs["FULL"] = <<memory>> /\ segs["ALT"] = <<>> /\ DOMAIN segs = Types
    BY <1>1 DEF Types
  <2>2. segs = [t \in Types |-> segs[t]]
    BY <1>1 DEF Types
  <2>3. \A t \in Types : segs[t] \in Seq(Nat)
    BY <1>2, <2>1 DEF Types
  <2> QED
    BY <1>1, <1>2, <2>2, <2>3
<1>4. count \in Nat /\ "type" \in DOMAIN meta /\ meta.type \in Types
  BY DEF Init, Types
<1>5. parts = {} /\ dump = NoCapture
  BY DEF Init
<1> QED
  BY <1>3, <1>4, <1>5 DEF PlaceInv, StateTyped, PartsTyped

LEMMA PlaceStep == PlaceInv /\ [Next]_vars => PlaceInv' /\ (Next => OwnKept)
<1> SUFFICES ASSUME PlaceInv, [Next]_vars PROVE PlaceInv' /\ (Next => OwnKept)
  OBVIOUS
<1>1. CASE Next
  <2>1. CASE \/ \E size \in Sizes : AddFullRegion(size)
             \/ \E size \in Sizes, addToHead \in BOOLEAN : AddAltRegion(size, addToHead)
             \/ Reserve \/ ReserveThrows
    BY <2>1, RegisterStep
  <2>2. CASE \E type \in Types, ccd \in BOOLEAN : Start(type, ccd)
    BY <2>2, StartStep
  <2>3. CASE AbortCopy
    BY <2>3, AbortStep DEF AbortCopy
  <2>4. CASE BodyFits
    BY <2>4, SkipInPlace DEF BodyFits
  <2>5. CASE CopyDqBody
    BY <2>5, StoreInPlace DEF CopyDqBody
  <2> QED
    BY <1>1, <2>1, <2>2, <2>3, <2>4, <2>5, WriteElfDirStep, UpdateSegmentsStep, LayOutStep,
       CopySegmentStep, CopyNotesStep, WriteElfSectionStep, WriteDqDirStep, StoreBlockStep,
       DqEndStep, WriteDqSectionStep, FinishStep
    DEF Next
<1>2. CASE UNCHANGED vars
  <2>1. UNCHANGED <<segs, clients, parts, dump, meta, count>>
    BY <1>2 DEF vars, vectors
  <2>2. StateTyped' /\ PartsTyped'
    BY <2>1 DEF PlaceInv, StateTyped, PartsTyped
  <2>3. PlaceInv'
    BY <2>1, <2>2 DEF PlaceInv, DumpTyped, OwnPlaced
  <2>4. OwnKept
    BY <2>1 DEF OwnKept
  <2> QED
    BY <2>3, <2>4
<1> QED
  BY <1>1, <1>2

\* Each write of a capture, whatever the sizes of segments, stacks, notes, records
\* and queue, misses all that the same capture has written: every record is filled
\* in where room was left, and the ELF file ends where the queue begins.
THEOREM DumpKept == Spec => WritesKeepDump
<1>1. PlaceInv /\ [Next]_vars => [dump # NoCapture => \A p \in parts : p.id = count => p \in parts']_vars
  BY PlaceStep DEF OwnKept
<1>2. PlaceInv /\ [Next]_vars => PlaceInv'
  BY PlaceStep
<1> QED
  BY <1>1, <1>2, PlaceInit, PTL DEF Spec, WritesKeepDump

-----------------------------------------------------------------------------
(* Recursive functions.  The library's induction theorems take an operator  *)
(* as a parameter; these lemmas use a set instead.                          *)

LEMMA SetInduction ==
  ASSUME NEW S, 0 \in S, \A n \in Nat : n \in S => n + 1 \in S
  PROVE  Nat \subseteq S
<1> SUFFICES ASSUME Nat \ S # {} PROVE FALSE
  OBVIOUS
<1>1. PICK n \in Nat \ S : \A m \in Nat \ S : <<m, n>> \notin OpToRel(<, Nat)
  BY NatLessThanWellFounded, WFMin
<1>2. \A m \in Nat \ S : ~ m < n
  BY <1>1 DEF OpToRel
<1>3. n - 1 \in Nat /\ n - 1 < n /\ (n - 1) + 1 = n
  OBVIOUS
<1> QED
  BY <1>2, <1>3

\* A walk that moves on until it is at an end, and is never at or past `limit'
\* without being at one, is a function of the place where it begins.
Walks(w, ends, val, next) ==
  \A a \in Nat : w[a] = IF a \in ends THEN val[a] ELSE w[next[a]]

AlwaysEnds(limit, ends, next) ==
  \A a \in Nat : next[a] > a /\ (a >= limit => a \in ends)

LEMMA WalkExists ==
  ASSUME NEW limit \in Nat, NEW ends, NEW V, NEW val \in [Nat -> V], NEW next \in [Nat -> Nat],
         AlwaysEnds(limit, ends, next)
  PROVE  \E w \in [Nat -> V] : Walks(w, ends, val, next)
<1> USE DEF AlwaysEnds
<1> DEFINE Reached(w, n) ==
             \A a \in Nat : a + n >= limit => w[a] = IF a \in ends THEN val[a] ELSE w[next[a]]
           S == {n \in Nat : \E w \in [Nat -> V] : Reached(w, n)}
<1>1. 0 \in S
  <2>1. Reached(val, 0)
    OBVIOUS
  <2> HIDE DEF Reached
  <2> QED
    BY <2>1
<1>2. ASSUME NEW n \in Nat, n \in S
      PROVE  n + 1 \in S
  <2>1. PICK w \in [Nat -> V] : Reached(w, n)
    BY <1>2
  <2> DEFINE v == [a \in Nat |-> IF a \in ends THEN val[a] ELSE w[next[a]]]
  <2>2. v \in [Nat -> V] /\ \A a \in Nat : v[a] = IF a \in ends THEN val[a] ELSE w[next[a]]
    OBVIOUS
  <2> HIDE DEF v
  <2>3. ASSUME NEW a \in Nat, a + (n + 1) >= limit
        PROVE  v[a] = IF a \in ends THEN val[a] ELSE v[next[a]]
    <3>1. next[a] \in Nat /\ next[a] + n >= limit
      <4>1. next[a] \in Nat /\ next[a] > a
        OBVIOUS
      <4> QED
        BY <2>3, <4>1
    <3>2. w[next[a]] = v[next[a]]
      BY <2>1, <2>2, <3>1
    <3> QED
      BY <2>2, <3>2
  <2>4. Reached(v, n + 1)
    BY <2>3
  <2>5. n + 1 \in Nat
    OBVIOUS
  <2> HIDE DEF Reached
  <2> QED
    BY <2>2, <2>4, <2>5
<1>3. limit \in S
  <2> HIDE DEF S
  <2> QED
    BY <1>1, <1>2, SetInduction
<1>4. PICK w \in [Nat -> V] : Reached(w, limit)
  BY <1>3
<1> QED
  BY <1>4 DEF Walks

\* The sums of the first elements of a sequence, from a first value.
LEMMA SumsExist ==
  ASSUME NEW sizes \in Seq(Nat), NEW first \in Nat
  PROVE  \E f \in [1 .. Len(sizes) + 1 -> Nat] :
           \A k \in 1 .. Len(sizes) + 1 : f[k] = IF k = 1 THEN first ELSE f[k - 1] + sizes[k - 1]
<1> DEFINE N == Len(sizes) + 1
           Summed(f, n) ==
             \A k \in 1 .. N : k <= n => f[k] = IF k = 1 THEN first ELSE f[k - 1] + sizes[k - 1]
           S == {n \in Nat : \E f \in [1 .. N -> Nat] : Summed(f, n)}
<1>0. /\ N \in Nat
      /\ \A k \in 1 .. N : k # 1 => k - 1 \in 1 .. N /\ sizes[k - 1] \in Nat
  <2>1. Len(sizes) \in Nat /\ \A k \in 1 .. Len(sizes) : sizes[k] \in Nat
    BY LenProperties, ElementOfSeq
  <2> QED
    BY <2>1
<1> HIDE DEF N
<1>1. 0 \in S
  <2> DEFINE f == [k \in 1 .. N |-> first]
  <2>1. f \in [1 .. N -> Nat] /\ Summed(f, 0)
    OBVIOUS
  <2> HIDE DEF f, Summed
  <2> QED
    BY <2>1
<1>2. ASSUME NEW n \in Nat, n \in S
      PROVE  n + 1 \in S
  <2>1. PICK f \in [1 .. N -> Nat] : Summed(f, n)
    BY <1>2
  <2> DEFINE g == [k \in 1 .. N |-> IF k = 1 THEN first ELSE f[k - 1] + sizes[k - 1]]
  <2>2. /\ g \in [1 .. N -> Nat]
        /\ \A k \in 1 .. N : g[k] = IF k = 1 THEN first ELSE f[k - 1] + sizes[k - 1]
    BY <1>0
  <2> HIDE DEF g
  <2>3. ASSUME NEW k \in 1 .. N, k <= n + 1
        PROVE  g[k] = IF k = 1 THEN first ELSE g[k - 1] + sizes[k - 1]
    <3>1. CASE k = 1
      BY <2>2, <3>1
    <3>2. CASE k # 1
      <4>1. k - 1 \in 1 .. N /\ k - 1 <= n
        BY <1>0, <2>3, <3>2
      <4>2. g[k - 1] = f[k - 1]
        BY <2>1, <2>2, <4>1
      <4> QED
        BY <2>2, <3>2, <4>2
    <3> QED
      BY <3>1, <3>2
  <2>4. Summed(g, n + 1)
    BY <2>3
  <2>5. n + 1 \in Nat
    OBVIOUS
  <2> HIDE DEF Summed
  <2> QED
    BY <2>2, <2>4, <2>5
<1>3. N \in S
  <2> HIDE DEF S
  <2> QED
    BY <1>0, <1>1, <1>2, SetInduction
<1>4. PICK f \in [1 .. N -> Nat] : Summed(f, N)
  BY <1>3
<1>5. \A k \in 1 .. N : f[k] = IF k = 1 THEN first ELSE f[k - 1] + sizes[k - 1]
  BY <1>0, <1>4
<1> QED
  BY <1>5 DEF N

\* Where the segments of a dump go, one behind the other.
LEMMA OffsetUnfolds ==
  ASSUME StateTyped, NEW sizes, sizes = segs[meta.type]
  PROVE  /\ LoadOffset(1) = LoadSections
         /\ \A k \in 1 .. Len(sizes) : LoadOffset(k + 1) = LoadOffset(k) + sizes[k]
<1>1. sizes \in Seq(Nat) /\ Len(sizes) \in Nat
  BY LenProperties DEF StateTyped
<1> DEFINE f == CHOOSE f : f = [k \in 1 .. Len(sizes) + 1 |->
                                  IF k = 1 THEN LoadSections ELSE f[k - 1] + sizes[k - 1]]
<1>2. f = [k \in 1 .. Len(sizes) + 1 |-> IF k = 1 THEN LoadSections ELSE f[k - 1] + sizes[k - 1]]
  <2>1. PICK first \in Nat : first = LoadSections
    BY LoadSectionsType
  <2>2. PICK g \in [1 .. Len(sizes) + 1 -> Nat] :
          \A k \in 1 .. Len(sizes) + 1 : g[k] = IF k = 1 THEN first ELSE g[k - 1] + sizes[k - 1]
    BY <1>1, SumsExist
  <2>3. g = [k \in 1 .. Len(sizes) + 1 |-> IF k = 1 THEN first ELSE g[k - 1] + sizes[k - 1]]
    BY <2>2
  <2> QED
    BY <2>1, <2>3, Zenon
<1>3. \A k : LoadOffset(k) = f[k]
  BY Zenon DEF LoadOffset
<1> HIDE DEF f
<1>4. \A k \in 1 .. Len(sizes) + 1 : f[k] = IF k = 1 THEN LoadSections ELSE f[k - 1] + sizes[k - 1]
  BY <1>2
<1>5. f[1] = LoadSections
  BY <1>1, <1>4
<1>6. ASSUME NEW k \in 1 .. Len(sizes)
      PROVE  f[k + 1] = f[k] + sizes[k]
  <2>1. k + 1 \in 1 .. Len(sizes) + 1 /\ k + 1 # 1 /\ (k + 1) - 1 = k
    BY <1>1
  <2> QED
    BY <1>4, <2>1
<1> QED
  BY <1>3, <1>5, <1>6

-----------------------------------------------------------------------------
(* What a dump holds.                                                       *)

Own == {p \in parts : p.id = count}

RecordKinds == {"CORE_ELF_DIR", "CPU_ELF", "DQ_DIR", "DQ_TRACE"}

\* The running capture has written this record.
Has(what, at, size) ==
  \E p \in Own : p.what = what /\ p.at = at /\ p.size = size

\* How far the capture is.
AfterDqDir == {"dq", "dqCrc", "dqSec", "finish"}
AfterElfSec == AfterDqDir \cup {"dqDir"}
AfterCopy == AfterElfSec \cup {"elfSec"}
AfterLayout == AfterCopy \cup {"copy"}
AfterDir == AfterLayout \cup {"segments", "layout"}
AllSteps == AfterDir \cup {"elfDir"}

\* Blocks of the queue count: a failure of copyTraceDq sets dqSize to zero, what it
\* has stored stays behind.
QueueCounts == dump.pc \in {"dq", "dqCrc"} \/ dump.dqSize > 0

\* Parts of any dump never overlap, and records have the size of a record.
PartsApart ==
  /\ \A p, q \in parts : p # q => Disjoint(p, q)
  /\ \A p \in parts : p.size \in Nat
  /\ \A p \in parts : p.what \in RecordKinds => p.len = RecordSize

\* Where the capture is, and the records it has written.
RecordsInv ==
  /\ dump.pc \in AllSteps
  /\ dump.pc = "elfDir" => dump.base = RegionAddr
  /\ dump.pc \in AfterDir =>
       dump.base = RegionAddr + 2 * RecordSize /\ Has("CORE_ELF_DIR", RegionAddr, 0)
  /\ dump.pc \in AfterElfSec => Has("CPU_ELF", dump.base - RecordSize, dump.offset)
  /\ dump.pc = "dqDir" => dump.dqBase = dump.base + dump.offset
  /\ dump.pc \in AfterDqDir =>
       /\ dump.dqBase = dump.base + dump.offset + 2 * RecordSize
       /\ Has("DQ_DIR", dump.base + dump.offset, 0)
  /\ dump.pc = "finish" => Has("DQ_TRACE", dump.dqBase - RecordSize, dump.dqSize)

\* What has been copied fills the bytes from base to offset, and the queue those
\* that dqSize counts.
ContentInv ==
  /\ dump.pc \notin AfterLayout => Copied = {}
  /\ dump.pc \in AfterLayout => Fills(Copied, dump.base, dump.base + dump.offset)
  /\ dump.pc \notin AfterDqDir => Queue = {} /\ dump.dqSize = 0
  /\ dump.pc \in AfterDqDir /\ QueueCounts =>
       Fills(Queue, dump.dqBase, dump.dqBase + dump.dqSize)

\* Nothing the capture writes lies outside the dump.
BoundsInv ==
  \A p \in Own :
    /\ RegionAddr <= p.at
    /\ p.what # "DQ" =>
         /\ dump.pc \in AfterDir \ AfterElfSec => p.at + p.len <= dump.base + dump.offset
         /\ dump.pc = "dqDir" => p.at + p.len <= dump.dqBase
         /\ dump.pc \in AfterDqDir => p.at + p.len <= dump.dqBase
    /\ p.what = "DQ" =>
         /\ dump.pc \in AfterDqDir /\ dump.dqBase <= p.at
         /\ QueueCounts => p.at + p.len <= dump.dqBase + dump.dqSize

CrcInv ==
  /\ dump.pc \in AfterCopy => meta.elfCrc = <<dump.base, dump.base + dump.offset>>
  /\ dump.pc \in {"dqSec", "finish"} /\ dump.dqSize > 0 =>
       meta.dqCrc = <<dump.dqBase, dump.dqBase + dump.dqSize>>

\* The layout of a complete dump with an ELF file of `elf' bytes and a queue of
\* `dq' bytes.
Complete(elf, dq) ==
  LET base == RegionAddr + 2 * RecordSize
      dqBase == base + elf + 2 * RecordSize
  IN  /\ meta.size = MetadataSize + elf + dq + 4 * RecordSize
      /\ Has("CORE_ELF_DIR", RegionAddr, 0)
      /\ Has("CPU_ELF", RegionAddr + RecordSize, elf)
      /\ Has("DQ_DIR", base + elf, 0)
      /\ Has("DQ_TRACE", base + elf + RecordSize, dq)
      /\ Fills(Copied, base, base + elf)
      /\ meta.elfCrc = <<base, base + elf>>
      /\ dq > 0 => meta.dqCrc = <<dqBase, dqBase + dq>> /\ Fills(Queue, dqBase, dqBase + dq)
      /\ \A p \in Own :
           /\ RegionAddr <= p.at
           /\ p.what # "DQ" => p.at + p.len <= dqBase
           /\ p.what = "DQ" => dqBase <= p.at /\ (dq > 0 => p.at + p.len <= dqBase + dq)

MetaTyped == DOMAIN meta = {"valid", "type", "size", "elfCrc", "dqCrc"}

Running == ~meta.valid /\ RecordsInv /\ ContentInv /\ BoundsInv /\ CrcInv

LayoutInv ==
  /\ PartsApart /\ MetaTyped
  /\ dump # NoCapture => Running
  /\ meta.valid => \E elf, dq \in Nat : Complete(elf, dq)

-----------------------------------------------------------------------------
(* What findSection finds.                                                  *)

LEMMA RegionType ==
  ASSUME StateTyped
  PROVE  RegionAddr \in Nat
BY SizesAssumption, RegionsAssumption DEF RegionAddr

\* No two records begin at the same address.
LEMMA RecordAlone ==
  ASSUME PartsTyped, PartsApart, NEW p \in parts, p.what \in RecordKinds
  PROVE  RecordsAt(p.at) = {p}
<1>1. RecordSize \in Nat \ {0}
  BY Naturals
<1>2. ASSUME NEW r \in RecordsAt(p.at)
      PROVE  r = p
  <2>1. r \in parts /\ r.at = p.at /\ r.what \in RecordKinds
    BY DEF RecordsAt, RecordKinds
  <2>2. r.len = RecordSize /\ p.len = RecordSize /\ p.at \in Int
    BY <2>1 DEF PartsApart, PartsTyped
  <2>3. ~Disjoint(r, p)
    BY <1>1, <2>1, <2>2 DEF Disjoint
  <2> QED
    BY <2>1, <2>3 DEF PartsApart
<1>3. p \in RecordsAt(p.at)
  BY DEF RecordsAt, RecordKinds
<1> QED
  BY <1>2, <1>3

\* From each record findSection meets it goes on to what the record says.
LEMMA WalkUnfolds ==
  ASSUME StateTyped, PartsTyped, PartsApart, meta.size \in Nat, NEW what
  PROVE  \E w : /\ FindSection(what) = w[RegionAddr]
                /\ \A p \in parts :
                     /\ p.what \in RecordKinds
                     /\ RegionAddr <= p.at /\ p.at + RecordSize <= RegionAddr + meta.size
                     => w[p.at] = IF p.what = what
                                  THEN [offset |-> p.at + RecordSize - RegionAddr,
                                        size |-> p.size, id |-> p.id]
                                  ELSE w[p.at + RecordSize + p.size]
<1>1. PICK start \in Nat, limit \in Nat : start = RegionAddr /\ limit = RegionAddr + meta.size
  BY RegionType
<1>2. RecordSize \in Nat \ {0}
  BY Naturals
<1> DEFINE body(a, w) ==
             IF a >= RegionAddr + meta.size \/ RecordsAt(a) = {} THEN NotFound
             ELSE LET rec == CHOOSE p \in RecordsAt(a) : TRUE
                  IN  IF rec.what = what
                      THEN IF a + RecordSize > RegionAddr + meta.size THEN NotFound
                           ELSE [offset |-> a + RecordSize - RegionAddr,
                                 size |-> rec.size, id |-> rec.id]
                      ELSE w[a + RecordSize + rec.size]
           walk == CHOOSE w : w = [a \in Nat |-> body(a, w)]
<1>3. FindSection(what) = walk[RegionAddr]
  BY Zenon DEF FindSection
<1>4. walk = [a \in Nat |-> body(a, walk)]
  <2> DEFINE rec(a) == CHOOSE p \in RecordsAt(a) : TRUE
             none(a) == a >= RegionAddr + meta.size \/ RecordsAt(a) = {}
             value(a) == IF none(a) \/ a + RecordSize > RegionAddr + meta.size THEN NotFound
                         ELSE [offset |-> a + RecordSize - RegionAddr,
                               size |-> rec(a).size, id |-> rec(a).id]
             val == [a \in Nat |-> value(a)]
             V == {val[a] : a \in Nat}
             ends == {a \in Nat : none(a) \/ rec(a).what = what}
             next == [a \in Nat |-> a + RecordSize + (IF RecordsAt(a) = {} THEN 0 ELSE rec(a).size)]
  <2>1. \A a : RecordsAt(a) # {} => rec(a) \in parts
    BY DEF RecordsAt
  <2>2. \A a : RecordsAt(a) # {} => rec(a).size \in Nat
    BY <2>1 DEF PartsApart
  <2> HIDE DEF rec
  <2>3. next \in [Nat -> Nat] /\ \A a \in Nat : next[a] > a
    BY <1>2, <2>2
  <2>4. \A a \in Nat : a >= limit => a \in ends
    BY <1>1
  <2>5. val \in [Nat -> V]
    OBVIOUS
  <2> HIDE DEF val, V, ends, next
  <2>6. PICK w \in [Nat -> V] :
          \A a \in Nat : w[a] = IF a \in ends THEN val[a] ELSE w[next[a]]
    <3>1. AlwaysEnds(limit, ends, next)
      BY <2>3, <2>4 DEF AlwaysEnds
    <3>2. \E w \in [Nat -> V] : Walks(w, ends, val, next)
      BY <2>3, <2>5, <3>1, WalkExists
    <3> QED
      BY <3>2 DEF Walks
  <2>7. ASSUME NEW a \in Nat
        PROVE  w[a] = body(a, w)
    <3>1. w[a] = IF a \in ends THEN val[a] ELSE w[next[a]]
      BY <2>6
    <3>2. a \in ends <=> none(a) \/ rec(a).what = what
      BY DEF ends
    <3>3. val[a] = value(a)
      BY DEF val
    <3>4. RecordsAt(a) # {} => next[a] = a + RecordSize + rec(a).size
      BY DEF next
    <3>5. CASE none(a)
      BY <3>1, <3>2, <3>3, <3>5
    <3>6. CASE ~none(a) /\ rec(a).what = what
      BY <3>1, <3>2, <3>3, <3>6 DEF rec
    <3>7. CASE ~none(a) /\ rec(a).what # what
      BY <3>1, <3>2, <3>4, <3>7 DEF rec
    <3> QED
      BY <3>5, <3>6, <3>7
  <2>8. w = [a \in Nat |-> body(a, w)]
    <3> HIDE DEF body
    <3> QED
      BY <2>6, <2>7
  <2> HIDE DEF body
  <2> QED
    BY <2>8, Zenon
<1>5. ASSUME NEW p \in parts, p.what \in RecordKinds,
             RegionAddr <= p.at, p.at + RecordSize <= RegionAddr + meta.size
      PROVE  walk[p.at] = IF p.what = what
                          THEN [offset |-> p.at + RecordSize - RegionAddr,
                                size |-> p.size, id |-> p.id]
                          ELSE walk[p.at + RecordSize + p.size]
  <2>1. p.at \in Nat
    BY <1>1, <1>5 DEF PartsTyped
  <2>2. RecordsAt(p.at) = {p}
    BY <1>5, RecordAlone
  <2>3. (CHOOSE r \in RecordsAt(p.at) : TRUE) = p
    BY <2>2
  <2>4. ~(p.at >= RegionAddr + meta.size) /\ ~(p.at + RecordSize > RegionAddr + meta.size)
    BY <1>1, <1>2, <1>5, <2>1
  <2>5. body(p.at, walk) = IF p.what = what
                           THEN [offset |-> p.at + RecordSize - RegionAddr,
                                 size |-> p.size, id |-> p.id]
                           ELSE walk[p.at + RecordSize + p.size]
    <3> HIDE DEF walk
    <3> QED
      BY <2>2, <2>3, <2>4
  <2>6. walk[p.at] = body(p.at, walk)
    <3> HIDE DEF walk, body
    <3> QED
      BY <1>4, <2>1
  <2> QED
    BY <2>5, <2>6
<1> HIDE DEF walk
<1> QED
  BY <1>3, <1>5

\* In a complete dump the walk leads over four records: the two sections are found.
LEMMA SectionsOfComplete ==
  ASSUME StateTyped, PartsTyped, PartsApart, NEW elf \in Nat, NEW dq \in Nat, Complete(elf, dq)
  PROVE  /\ FindSection("CPU_ELF") = [offset |-> 2 * RecordSize, size |-> elf, id |-> count]
         /\ FindSection("DQ_TRACE") = [offset |-> elf + 4 * RecordSize, size |-> dq, id |-> count]
<1>1. RegionAddr \in Nat /\ RecordSize \in Nat \ {0} /\ MetadataSize \in Nat
  BY RegionType, Naturals
<1>2. meta.size = MetadataSize + elf + dq + 4 * RecordSize /\ meta.size \in Nat
  BY <1>1 DEF Complete
<1>3. PICK d \in Own : d.what = "CORE_ELF_DIR" /\ d.at = RegionAddr /\ d.size = 0
  BY DEF Complete, Has
<1>4. PICK e \in Own : e.what = "CPU_ELF" /\ e.at = RegionAddr + RecordSize /\ e.size = elf
  BY DEF Complete, Has
<1>5. PICK g \in Own : g.what = "DQ_DIR" /\ g.at = RegionAddr + 2 * RecordSize + elf /\ g.size = 0
  BY DEF Complete, Has
<1>6. PICK t \in Own : /\ t.what = "DQ_TRACE" /\ t.size = dq
                       /\ t.at = RegionAddr + 2 * RecordSize + elf + RecordSize
  BY DEF Complete, Has
<1>7. /\ d \in parts /\ e \in parts /\ g \in parts /\ t \in parts
      /\ e.id = count /\ t.id = count
  BY DEF Own
<1>8. {d.what, e.what, g.what, t.what} \subseteq RecordKinds
  BY <1>3, <1>4, <1>5, <1>6 DEF RecordKinds
<1> DEFINE InDump(p) == RegionAddr <= p.at /\ p.at + RecordSize <= RegionAddr + meta.size
<1>9. InDump(d) /\ InDump(e) /\ InDump(g) /\ InDump(t)
  BY <1>1, <1>2, <1>3, <1>4, <1>5, <1>6
<1>10. /\ d.at + RecordSize + d.size = e.at
       /\ e.at + RecordSize + e.size = g.at
       /\ g.at + RecordSize + g.size = t.at
  BY <1>1, <1>3, <1>4, <1>5, <1>6
<1>11. /\ e.at + RecordSize - RegionAddr = 2 * RecordSize
       /\ t.at + RecordSize - RegionAddr = elf + 4 * RecordSize
  BY <1>1, <1>4, <1>6
<1> DEFINE Follows(w, what) ==
             \A p \in parts :
               p.what \in RecordKinds /\ InDump(p)
               => w[p.at] = IF p.what = what
                            THEN [offset |-> p.at + RecordSize - RegionAddr,
                                  size |-> p.size, id |-> p.id]
                            ELSE w[p.at + RecordSize + p.size]
<1>12. \A what : \E w : FindSection(what) = w[RegionAddr] /\ Follows(w, what)
  BY <1>2, WalkUnfolds
<1> HIDE DEF InDump
<1>13. FindSection("CPU_ELF") = [offset |-> 2 * RecordSize, size |-> elf, id |-> count]
  <2>1. PICK w : FindSection("CPU_ELF") = w[RegionAddr] /\ Follows(w, "CPU_ELF")
    BY <1>12
  <2>2. w[d.at] = w[e.at]
    BY <1>3, <1>7, <1>8, <1>9, <1>10, <2>1
  <2>3. w[e.at] = [offset |-> 2 * RecordSize, size |-> elf, id |-> count]
    BY <1>4, <1>7, <1>8, <1>9, <1>11, <2>1
  <2> QED
    BY <1>3, <2>1, <2>2, <2>3
<1>14. FindSection("DQ_TRACE") = [offset |-> elf + 4 * RecordSize, size |-> dq, id |-> count]
  <2>1. PICK w : FindSection("DQ_TRACE") = w[RegionAddr] /\ Follows(w, "DQ_TRACE")
    BY <1>12
  <2>2. w[d.at] = w[e.at] /\ w[e.at] = w[g.at] /\ w[g.at] = w[t.at]
    BY <1>3, <1>4, <1>5, <1>7, <1>8, <1>9, <1>10, <2>1
  <2>3. w[t.at] = [offset |-> elf + 4 * RecordSize, size |-> dq, id |-> count]
    BY <1>6, <1>7, <1>8, <1>9, <1>11, <2>1
  <2> QED
    BY <1>3, <2>1, <2>2, <2>3
<1> QED
  BY <1>13, <1>14

\* What a complete dump lets its readers rely on.
LEMMA CompleteSuffices ==
  ASSUME PlaceInv, LayoutInv
  PROVE  SectionsFound /\ CrcOfSections /\ SizeCoversDump
<1> SUFFICES ASSUME meta.valid
             PROVE  SectionsFound /\ CrcOfSections /\ SizeCoversDump
  BY DEF SectionsFound, CrcOfSections, SizeCoversDump
<1>1. StateTyped /\ PartsTyped /\ PartsApart
  BY DEF PlaceInv, LayoutInv
<1>2. PICK elf \in Nat, dq \in Nat : Complete(elf, dq)
  BY DEF LayoutInv
<1>3. RegionAddr \in Nat /\ RecordSize \in Nat \ {0} /\ MetadataSize \in Nat
  BY <1>1, RegionType, Naturals
<1>4. /\ FindSection("CPU_ELF") = [offset |-> 2 * RecordSize, size |-> elf, id |-> count]
      /\ FindSection("DQ_TRACE") = [offset |-> elf + 4 * RecordSize, size |-> dq, id |-> count]
  BY <1>1, <1>2, SectionsOfComplete
<1> DEFINE base == RegionAddr + 2 * RecordSize
           dqBase == base + elf + 2 * RecordSize
<1>5. /\ RegionAddr + FindSection("CPU_ELF").offset = base
      /\ FindSection("CPU_ELF").size = elf /\ FindSection("CPU_ELF").id = count
      /\ RegionAddr + FindSection("DQ_TRACE").offset = dqBase
      /\ FindSection("DQ_TRACE").size = dq /\ FindSection("DQ_TRACE").id = count
  BY <1>3, <1>4
<1>6. /\ meta.size = MetadataSize + elf + dq + 4 * RecordSize
      /\ Fills(Copied, base, base + elf) /\ meta.elfCrc = <<base, base + elf>>
      /\ dq > 0 => meta.dqCrc = <<dqBase, dqBase + dq>> /\ Fills(Queue, dqBase, dqBase + dq)
      /\ \A p \in Own :
           /\ RegionAddr <= p.at
           /\ p.what # "DQ" => p.at + p.len <= dqBase
           /\ p.what = "DQ" => dqBase <= p.at /\ (dq > 0 => p.at + p.len <= dqBase + dq)
  BY <1>2 DEF Complete
<1>7. SectionsFound
  BY <1>5, <1>6 DEF SectionsFound
<1>8. CrcOfSections
  BY <1>5, <1>6 DEF CrcOfSections
<1>9. SizeCoversDump
  <2> SUFFICES ASSUME NEW p \in parts, p.id = count, p.what = "DQ" => dq > 0
               PROVE  RegionAddr <= p.at /\ p.at + p.len <= RegionAddr + meta.size
    BY <1>5 DEF SizeCoversDump
  <2>1. p \in Own /\ p.at \in Int /\ p.len \in Int
    BY <1>1 DEF Own, PartsTyped
  <2>2. p.at + p.len <= dqBase \/ p.at + p.len <= dqBase + dq
    BY <1>6, <2>1
  <2> QED
    BY <1>3, <1>6, <2>1, <2>2
<1> QED
  BY <1>7, <1>8, <1>9

-----------------------------------------------------------------------------
(* Every capture keeps to the layout.                                       *)

LEMMA WhatIsWritten ==
  ASSUME NEW what, NEW at, NEW n
  PROVE  /\ Part(what, at, n).what = what /\ Part(what, at, n).size = 0
         /\ Header(what, at, n).what = what /\ Header(what, at, n).size = n
BY DEF Part, Header

LEMMA FillsMeans ==
  ASSUME NEW ps, NEW from, NEW to
  PROVE  Fills(ps, from, to) <=>
           \A x : (\E p \in ps : x \in p.at .. p.at + p.len - 1) <=> x \in from .. to - 1
<1> DEFINE Bytes == {p.at .. p.at + p.len - 1 : p \in ps}
<1>1. \A x : x \in UNION Bytes <=> \E p \in ps : x \in p.at .. p.at + p.len - 1
  OBVIOUS
<1>2. Fills(ps, from, to) <=> UNION Bytes = from .. to - 1
  BY DEF Fills
<1> HIDE DEF Bytes
<1> QED
  BY <1>1, <1>2

LEMMA FillsMore ==
  ASSUME NEW ps, NEW from \in Int, NEW to \in Int, from <= to, Fills(ps, from, to),
         NEW q, q.at = to, q.len \in Nat
  PROVE  Fills(ps \cup {q}, from, to + q.len)
<1>1. \A x : (\E p \in ps : x \in p.at .. p.at + p.len - 1) <=> x \in from .. to - 1
  BY FillsMeans
<1>2. \A x : x \in q.at .. q.at + q.len - 1 <=> x \in to .. to + q.len - 1
  OBVIOUS
<1>3. \A x : x \in from .. to + q.len - 1 <=> x \in from .. to - 1 \/ x \in to .. to + q.len - 1
  OBVIOUS
<1>4. \A x : (\E p \in ps \cup {q} : x \in p.at .. p.at + p.len - 1) <=>
               \/ \E p \in ps : x \in p.at .. p.at + p.len - 1
               \/ x \in q.at .. q.at + q.len - 1
  OBVIOUS
<1>5. \A x : (\E p \in ps \cup {q} : x \in p.at .. p.at + p.len - 1) <=> x \in from .. to + q.len - 1
  BY <1>1, <1>2, <1>3, <1>4
<1> QED
  BY <1>5, FillsMeans

LEMMA FillsNothing ==
  ASSUME NEW from \in Int
  PROVE  Fills({}, from, from)
<1>1. from .. from - 1 = {}
  OBVIOUS
<1> QED
  BY <1>1, FillsMeans

LEMMA FillsFirst ==
  ASSUME NEW from \in Int, NEW q, q.at = from, q.len \in Nat
  PROVE  Fills({q}, from, from + q.len)
<1>1. \A x : (\E p \in {q} : x \in p.at .. p.at + p.len - 1) <=> x \in from .. from + q.len - 1
  OBVIOUS
<1> QED
  BY <1>1, FillsMeans

\* One more part of the running capture.
LEMMA Written ==
  ASSUME PlaceInv, LayoutInv, UNCHANGED count, dump # NoCapture, OwnKept,
         NEW q, Put(q), q.id = count, q.size \in Nat,
         q.what \in RecordKinds => q.len = RecordSize
  PROVE  PartsApart' /\ Own' = Own \cup {q}
<1>1. \A p \in parts' : p = q \/ (p \in parts /\ Disjoint(q, p))
  BY DEF Put
<1>2. \A p : Disjoint(q, p) => Disjoint(p, q)
  BY DEF Disjoint
<1>3. PartsApart'
  BY <1>1, <1>2 DEF LayoutInv, PartsApart
<1>4. Own' = Own \cup {q}
  <2>1. q \in parts'
    BY DEF Put
  <2> QED
    BY <1>1, <2>1 DEF Own, OwnKept
<1> QED
  BY <1>3, <1>4

LEMMA CopiedAndQueue ==
  /\ Copied = {p \in Own : p.what \in {"PHDRS", "SEGMENT", "NOTES"}}
  /\ Queue = {p \in Own : p.what = "DQ"}
BY DEF Copied, Queue, Own

\* A record is neither copied nor part of the queue.
LEMMA RecordWritten ==
  ASSUME NEW q, Own' = Own \cup {q}, q.what \in RecordKinds
  PROVE  Copied' = Copied /\ Queue' = Queue
BY CopiedAndQueue DEF Copied, Queue, Own, RecordKinds

LEMMA ContentWritten ==
  ASSUME NEW q, Own' = Own \cup {q}
  PROVE  /\ q.what \in {"PHDRS", "SEGMENT", "NOTES"} => Copied' = Copied \cup {q} /\ Queue' = Queue
         /\ q.what = "DQ" => Copied' = Copied /\ Queue' = Queue \cup {q}
<1>1. /\ Copied' = {p \in Own' : p.what \in {"PHDRS", "SEGMENT", "NOTES"}}
      /\ Queue' = {p \in Own' : p.what = "DQ"}
  BY DEF Copied, Queue, Own
<1> QED
  BY <1>1, CopiedAndQueue

\* A step of a capture that goes on.
LEMMA CaptureGoesOn ==
  ASSUME LayoutInv, dump # NoCapture, PartsApart', MetaTyped', meta'.valid = meta.valid,
         RecordsInv', ContentInv', BoundsInv', CrcInv'
  PROVE  LayoutInv'
BY DEF LayoutInv, Running

LEMMA NoPartsApart ==
  ASSUME PartsApart, UNCHANGED parts
  PROVE  PartsApart'
BY DEF PartsApart

\* What the lemmas about the actions start from.
LEMMA CaptureFacts ==
  ASSUME PlaceInv, LayoutInv, dump # NoCapture
  PROVE  /\ StateTyped /\ PartsTyped /\ DumpTyped /\ OwnPlaced
         /\ PartsApart /\ MetaTyped /\ ~meta.valid
         /\ RecordsInv /\ ContentInv /\ BoundsInv /\ CrcInv
         /\ RecordSize \in Nat \ {0} /\ RegionAddr \in Nat
         /\ \A p \in Own : p.at \in Int /\ p.len \in Int
<1>1. StateTyped /\ PartsTyped /\ DumpTyped /\ OwnPlaced
  BY DEF PlaceInv
<1>2. RegionAddr \in Nat
  BY <1>1, RegionType
<1> QED
  BY <1>1, <1>2, Naturals DEF LayoutInv, Running, PartsTyped, Own

LEMMA AbortLayout ==
  ASSUME PlaceInv, LayoutInv, dump # NoCapture, Abort, UNCHANGED count
  PROVE  LayoutInv'
<1>1. UNCHANGED <<parts, meta>> /\ dump' = NoCapture
  BY DEF Abort
<1>2. ~meta.valid /\ PartsApart /\ MetaTyped
  BY CaptureFacts
<1> QED
  BY <1>1, <1>2, NoPartsApart DEF LayoutInv, MetaTyped

LEMMA StartLayout ==
  ASSUME PlaceInv, LayoutInv, NEW type \in Types, NEW ccd \in BOOLEAN, Start(type, ccd)
  PROVE  LayoutInv'
<1>1. UNCHANGED parts /\ count' = count + 1 /\ count \in Nat /\ MetaTyped
  BY DEF Start, PlaceInv, StateTyped, LayoutInv
<1>2. meta'.valid = FALSE /\ meta'.type = type /\ MetaTyped'
  BY <1>1 DEF Start, MetaTyped
<1>3. /\ dump'.pc = "elfDir" /\ dump'.offset = 0 /\ dump'.dqSize = 0
      /\ dump'.base = IF type = "FULL" THEN SharedBase ELSE RpaBase + MetadataSize
  BY DEF Start
<1>4. dump'.base = RegionAddr'
  BY <1>2, <1>3 DEF RegionAddr
<1>5. Own' = {} /\ Copied' = {} /\ Queue' = {}
  <2>1. \A p \in parts' : p.id # count'
    BY <1>1 DEF PlaceInv, PartsTyped
  <2> QED
    BY <2>1 DEF Own, Copied, Queue
<1>6. RecordsInv'
  BY <1>3, <1>4 DEF RecordsInv, AllSteps, AfterDir, AfterLayout, AfterCopy, AfterElfSec, AfterDqDir
<1>7. ContentInv'
  BY <1>3, <1>5 DEF ContentInv, AfterLayout, AfterCopy, AfterElfSec, AfterDqDir
<1>8. BoundsInv'
  BY <1>5 DEF BoundsInv
<1>9. CrcInv'
  BY <1>3 DEF CrcInv, AfterCopy, AfterElfSec, AfterDqDir
<1> QED
  BY <1>1, <1>2, <1>6, <1>7, <1>8, <1>9, NoPartsApart DEF LayoutInv, Running

LEMMA WriteElfDirLayout ==
  ASSUME PlaceInv, LayoutInv, OwnKept, WriteElfDir
  PROVE  LayoutInv'
<1> DEFINE q == Header("CORE_ELF_DIR", dump.base, 0)
<1>1. dump.pc = "elfDir" /\ dump # NoCapture /\ UNCHANGED <<vectors, count>>
  BY DEF WriteElfDir, NoCapture
<1>2. CASE Abort
  BY <1>1, <1>2, AbortLayout
<1>3. CASE Put(q) /\ dump' = [dump EXCEPT !.pc = "segments", !.base = @ + 2 * RecordSize]
           /\ UNCHANGED <<meta, notesAt>>
  <2>1. /\ DumpTyped /\ OwnPlaced /\ RecordSize \in Nat \ {0} /\ RegionAddr \in Nat
        /\ MetaTyped /\ dump.base = RegionAddr /\ Copied = {} /\ Queue = {} /\ dump.dqSize = 0
    BY <1>1, CaptureFacts
    DEF RecordsInv, ContentInv, AfterLayout, AfterCopy, AfterElfSec, AfterDqDir
  <2>2. /\ dump'.pc = "segments" /\ dump'.base = dump.base + 2 * RecordSize
        /\ dump'.offset = dump.offset /\ dump'.dqSize = 0 /\ dump.offset \in Nat
    BY <1>3, <2>1 DEF DumpTyped, Fields
  <2>3. RegionAddr' = RegionAddr /\ MetaTyped' /\ meta' = meta
    BY <1>3, <2>1 DEF RegionAddr, MetaTyped
  <2>4. /\ q.at = dump.base /\ q.len = RecordSize /\ q.id = count
        /\ q.what = "CORE_ELF_DIR" /\ q.size = 0
    BY HeaderFields, WhatIsWritten
  <2> HIDE DEF q
  <2>5. PartsApart' /\ Own' = Own \cup {q}
    BY <1>1, <1>3, <2>4, Written
  <2>6. Own = {}
    BY <1>1, <2>1 DEF Own, OwnPlaced, Placed
  <2>7. Copied' = {} /\ Queue' = {}
    BY <2>1, <2>4, <2>5, RecordWritten DEF RecordKinds
  <2>8. RecordsInv'
    <3>1. Has("CORE_ELF_DIR", RegionAddr, 0)'
      BY <2>1, <2>3, <2>4, <2>5 DEF Has
    <3> QED
      BY <2>1, <2>2, <2>3, <3>1
      DEF RecordsInv, AllSteps, AfterDir, AfterLayout, AfterCopy, AfterElfSec, AfterDqDir
  <2>9. ContentInv'
    BY <2>2, <2>7 DEF ContentInv, AfterLayout, AfterCopy, AfterElfSec, AfterDqDir
  <2>10. BoundsInv'
    BY <2>1, <2>2, <2>3, <2>4, <2>5, <2>6
    DEF BoundsInv, AfterDir, AfterLayout, AfterCopy, AfterElfSec, AfterDqDir
  <2>11. CrcInv'
    BY <2>2 DEF CrcInv, AfterCopy, AfterElfSec, AfterDqDir
  <2> QED
    BY <1>1, <2>3, <2>5, <2>8, <2>9, <2>10, <2>11, CaptureGoesOn
<1> QED
  BY <1>2, <1>3 DEF WriteElfDir

LEMMA UpdateSegmentsLayout ==
  ASSUME PlaceInv, LayoutInv, UpdateSegments
  PROVE  LayoutInv'
<1>0. dump.pc = "segments" /\ UNCHANGED <<clients, pushed, covered, count>>
  BY ZenonT(30) DEF UpdateSegments
<1>1. dump.pc = "segments" /\ dump # NoCapture /\ UNCHANGED count
  BY <1>0 DEF NoCapture
<1>2. CASE Abort
  BY <1>1, <1>2, AbortLayout
<1>3. ASSUME NEW tasks, dump' = [dump EXCEPT !.pc = "layout", !.tasks = tasks],
             UNCHANGED <<parts, meta>>
      PROVE  LayoutInv'
  <2>1. /\ DumpTyped /\ PartsApart /\ MetaTyped
        /\ RecordsInv /\ ContentInv /\ BoundsInv /\ CrcInv
    BY <1>1, CaptureFacts
  <2>2. /\ dump'.pc = "layout" /\ dump'.base = dump.base /\ dump'.offset = dump.offset
        /\ dump'.dqSize = dump.dqSize
    BY <1>3, <2>1 DEF DumpTyped, Fields
  <2>3. /\ RegionAddr' = RegionAddr /\ MetaTyped' /\ PartsApart' /\ Own' = Own
        /\ Copied' = Copied /\ Queue' = Queue
    BY <1>1, <1>3, <2>1, NoPartsApart DEF RegionAddr, MetaTyped, Own, Copied, Queue
  <2>4. RecordsInv'
    BY <1>1, <2>1, <2>2, <2>3
    DEF RecordsInv, Has, AllSteps, AfterDir, AfterLayout, AfterCopy, AfterElfSec, AfterDqDir
  <2>5. ContentInv'
    BY <1>1, <2>1, <2>2, <2>3 DEF ContentInv, AfterLayout, AfterCopy, AfterElfSec, AfterDqDir
  <2>6. BoundsInv'
    BY <1>1, <2>1, <2>2, <2>3
    DEF BoundsInv, AfterDir, AfterLayout, AfterCopy, AfterElfSec, AfterDqDir
  <2>7. CrcInv'
    BY <2>2 DEF CrcInv, AfterCopy, AfterElfSec, AfterDqDir
  <2> QED
    BY <1>1, <1>3, <2>3, <2>4, <2>5, <2>6, <2>7, CaptureGoesOn
<1>4. Abort \/ \E tasks \in 0 .. MaxTasks : /\ dump' = [dump EXCEPT !.pc = "layout", !.tasks = tasks]
                                            /\ UNCHANGED <<parts, meta, notesAt>>
  BY ZenonT(30) DEF UpdateSegments
<1> QED
  BY <1>2, <1>3, <1>4

\* Headers and segments at the beginning of the ELF file.
LEMMA LayOutLayout ==
  ASSUME PlaceInv, LayoutInv, OwnKept, LayOut
  PROVE  LayoutInv'
<1> DEFINE q == Part("PHDRS", dump.base, LoadSections)
<1>1. /\ dump.pc = "layout" /\ dump # NoCapture
      /\ UNCHANGED <<vectors, meta, count>> /\ Put(q)
  BY DEF LayOut, NoCapture
<1>2. /\ StateTyped /\ DumpTyped /\ OwnPlaced /\ MetaTyped /\ RecordSize \in Nat \ {0} /\ RegionAddr \in Nat
      /\ RecordsInv /\ ContentInv /\ BoundsInv /\ CrcInv
      /\ \A p \in Own : p.at \in Int /\ p.len \in Int
  BY <1>1, CaptureFacts
<1>3. PICK notes, headers :
        dump' = [dump EXCEPT !.pc = "copy", !.offset = LoadSections, !.notes = notes,
                             !.phdrs = headers]
  BY DEF LayOut
<1>4. /\ dump'.pc = "copy" /\ dump'.base = dump.base /\ dump'.offset = LoadSections
      /\ dump'.dqSize = dump.dqSize /\ LoadSections \in Nat
  BY <1>2, <1>3, LoadSectionsType DEF DumpTyped, Fields
<1>5. RegionAddr' = RegionAddr /\ MetaTyped' /\ meta' = meta
  BY <1>1, <1>2 DEF RegionAddr, MetaTyped
<1>6. /\ q.at = dump.base /\ q.len = LoadSections /\ q.id = count
      /\ q.what = "PHDRS" /\ q.size = 0
  BY PartFields, WhatIsWritten
<1> HIDE DEF q
<1>7. PartsApart' /\ Own' = Own \cup {q}
  BY <1>1, <1>6, Written DEF RecordKinds
<1>8. Copied = {} /\ Queue = {} /\ dump.dqSize = 0
  BY <1>1, <1>2 DEF ContentInv, AfterLayout, AfterCopy, AfterElfSec, AfterDqDir
<1>9. Copied' = {q} /\ Queue' = {}
  BY <1>6, <1>7, <1>8, ContentWritten
<1>10. RecordsInv'
  BY <1>1, <1>2, <1>4, <1>5, <1>7
  DEF RecordsInv, Has, AllSteps, AfterDir, AfterLayout, AfterCopy, AfterElfSec, AfterDqDir
<1>11. ContentInv'
  <2>1. Fills({q}, dump.base, dump.base + LoadSections)
    <3>1. PICK from \in Int : from = dump.base
      BY <1>2 DEF DumpTyped
    <3>2. q.at = from /\ q.len \in Nat /\ q.len = LoadSections
      BY <1>4, <1>6, <3>1
    <3>3. Fills({q}, from, from + q.len)
      BY <3>2, FillsFirst
    <3> QED
      BY <3>1, <3>2, <3>3
  <2> QED
    BY <1>4, <1>8, <1>9, <2>1 DEF ContentInv, AfterLayout, AfterCopy, AfterElfSec, AfterDqDir
<1>12. BoundsInv'
  <2>1. \A p \in Own : /\ p.what # "DQ" /\ RegionAddr <= p.at
                       /\ p.at + p.len <= dump.base - RecordSize
    BY <1>1, <1>2, <1>8, CopiedAndQueue DEF BoundsInv, OwnPlaced, Placed, Own
  <2>2. dump.base = RegionAddr + 2 * RecordSize /\ dump.base \in Nat
    BY <1>1, <1>2 DEF RecordsInv, DumpTyped, AfterDir, AfterLayout, AfterCopy, AfterElfSec, AfterDqDir
  <2>3. \A p \in Own \cup {q} : /\ RegionAddr <= p.at /\ p.what # "DQ"
                                /\ p.at + p.len <= dump.base + LoadSections
    BY <1>2, <1>4, <1>6, <2>1, <2>2
  <2> QED
    BY <1>4, <1>5, <1>7, <2>3
    DEF BoundsInv, AfterDir, AfterLayout, AfterCopy, AfterElfSec, AfterDqDir
<1>13. CrcInv'
  BY <1>4 DEF CrcInv, AfterCopy, AfterElfSec, AfterDqDir
<1> QED
  BY <1>1, <1>5, <1>7, <1>10, <1>11, <1>12, <1>13, CaptureGoesOn

\* Copying to the end of the file, for a segment and for the notes.
LEMMA CopyLayout ==
  ASSUME PlaceInv, LayoutInv, OwnKept, dump.pc = "copy", UNCHANGED count,
         NEW q, Put(q), q.at = dump.base + dump.offset, q.len \in Nat, q.id = count,
         q.what \in {"SEGMENT", "NOTES"}, q.size = 0,
         MetaTyped', RegionAddr' = RegionAddr, meta'.valid = meta.valid,
         dump'.pc \in {"copy", "elfSec"}, dump'.base = dump.base,
         dump'.offset = dump.offset + q.len, dump'.dqSize = dump.dqSize,
         dump'.pc = "elfSec" =>
           meta'.elfCrc = <<dump.base, dump.base + dump.offset + q.len>>
  PROVE  LayoutInv'
<1>1. dump # NoCapture
  BY DEF NoCapture
<1>2. /\ DumpTyped /\ RecordSize \in Nat \ {0} /\ RegionAddr \in Nat
      /\ RecordsInv /\ ContentInv /\ BoundsInv /\ CrcInv
      /\ \A p \in Own : p.at \in Int /\ p.len \in Int
  BY <1>1, CaptureFacts
<1>3. PartsApart' /\ Own' = Own \cup {q}
  BY <1>1, Written DEF RecordKinds
<1>4. /\ Fills(Copied, dump.base, dump.base + dump.offset) /\ Queue = {} /\ dump.dqSize = 0
  BY <1>2 DEF ContentInv, AfterLayout, AfterCopy, AfterElfSec, AfterDqDir
<1>5. Copied' = Copied \cup {q} /\ Queue' = {}
  BY <1>3, <1>4, ContentWritten
<1>6. dump.base \in Nat /\ dump.offset \in Nat /\ dump.base = RegionAddr + 2 * RecordSize
  BY <1>2 DEF RecordsInv, DumpTyped, AfterDir, AfterLayout, AfterCopy, AfterElfSec, AfterDqDir
<1>7. RecordsInv'
  BY <1>2, <1>3
  DEF RecordsInv, Has, AllSteps, AfterDir, AfterLayout, AfterCopy, AfterElfSec, AfterDqDir
<1>8. dump'.base + dump'.offset = dump.base + dump.offset + q.len
  BY <1>6
<1>9. ContentInv'
  <2>1. Fills(Copied \cup {q}, dump.base, dump.base + dump.offset + q.len)
    <3>1. PICK from \in Int, to \in Int : from = dump.base /\ to = dump.base + dump.offset
      BY <1>6
    <3>2. from <= to /\ Fills(Copied, from, to) /\ q.at = to
      BY <1>4, <1>6, <3>1
    <3>3. Fills(Copied \cup {q}, from, to + q.len)
      BY <3>2, FillsMore
    <3> QED
      BY <3>1, <3>3
  <2> QED
    BY <1>4, <1>5, <1>8, <2>1 DEF ContentInv, AfterLayout, AfterCopy, AfterElfSec, AfterDqDir
<1>10. BoundsInv'
  <2>1. \A p \in Own : /\ p.what # "DQ" /\ RegionAddr <= p.at
                       /\ p.at + p.len <= dump.base + dump.offset
    BY <1>2, <1>4, CopiedAndQueue
    DEF BoundsInv, AfterDir, AfterLayout, AfterCopy, AfterElfSec, AfterDqDir
  <2>2. \A p \in Own \cup {q} : /\ RegionAddr <= p.at /\ p.what # "DQ"
                                /\ p.at + p.len <= dump.base + dump.offset + q.len
    BY <1>2, <1>6, <2>1
  <2> QED
    BY <1>3, <1>8, <2>2
    DEF BoundsInv, AfterDir, AfterLayout, AfterCopy, AfterElfSec, AfterDqDir
<1>11. CrcInv'
  BY <1>8 DEF CrcInv, AfterCopy, AfterElfSec, AfterDqDir
<1> QED
  BY <1>1, <1>3, <1>7, <1>9, <1>10, <1>11, CaptureGoesOn

LEMMA CopySegmentLayout ==
  ASSUME PlaceInv, LayoutInv, OwnKept, CopySegment
  PROVE  LayoutInv'
<1> DEFINE size == segs[meta.type][dump.next]
           q == Part("SEGMENT", dump.base + dump.offset, size)
<1>1. /\ dump.pc = "copy" /\ dump.next <= Len(segs[meta.type]) /\ dump # NoCapture
      /\ UNCHANGED <<vectors, meta, count>> /\ Put(q)
      /\ dump' = [dump EXCEPT !.next = @ + 1, !.offset = @ + size]
  BY DEF CopySegment, NoCapture
<1>2. StateTyped /\ DumpTyped /\ MetaTyped
  BY <1>1, CaptureFacts
<1>3. segs[meta.type] \in Seq(Nat) /\ dump.next \in 1 .. Len(segs[meta.type])
  BY <1>1, <1>2, LenProperties DEF StateTyped, DumpTyped
<1>4. size \in Nat
  BY <1>3, ElementOfSeq
<1>5. /\ dump'.pc = "copy" /\ dump'.base = dump.base /\ dump'.offset = dump.offset + size
      /\ dump'.dqSize = dump.dqSize
  BY <1>1, <1>2 DEF DumpTyped, Fields
<1>6. RegionAddr' = RegionAddr /\ MetaTyped' /\ meta' = meta
  BY <1>1, <1>2 DEF RegionAddr, MetaTyped
<1>7. /\ q.at = dump.base + dump.offset /\ q.len = size /\ q.id = count
      /\ q.what = "SEGMENT" /\ q.size = 0
  BY PartFields, WhatIsWritten
<1> HIDE DEF size, q
<1> QED
  BY <1>1, <1>4, <1>5, <1>6, <1>7, CopyLayout

LEMMA CopyNotesLayout ==
  ASSUME PlaceInv, LayoutInv, OwnKept, CopyNotes
  PROVE  LayoutInv'
<1> DEFINE q == Part("NOTES", dump.base + dump.offset, dump.notes)
<1>1. /\ dump.pc = "copy" /\ dump # NoCapture
      /\ UNCHANGED <<vectors, count>> /\ Put(q)
      /\ dump' = [dump EXCEPT !.pc = "elfSec", !.offset = @ + dump.notes]
      /\ meta' = [meta EXCEPT !.elfCrc = <<dump.base, dump.base + dump.offset + dump.notes>>]
  BY DEF CopyNotes, NoCapture
<1>2. DumpTyped /\ MetaTyped
  BY <1>1, CaptureFacts
<1>3. /\ meta'.type = meta.type /\ meta'.valid = meta.valid /\ MetaTyped'
      /\ meta'.elfCrc = <<dump.base, dump.base + dump.offset + dump.notes>>
  BY <1>1, <1>2 DEF MetaTyped
<1>4. RegionAddr' = RegionAddr
  BY <1>3 DEF RegionAddr
<1>5. /\ dump'.pc = "elfSec" /\ dump'.base = dump.base /\ dump'.offset = dump.offset + dump.notes
      /\ dump'.dqSize = dump.dqSize /\ dump.notes \in Nat
  BY <1>1, <1>2 DEF DumpTyped, Fields
<1>6. /\ q.at = dump.base + dump.offset /\ q.len = dump.notes /\ q.id = count
      /\ q.what = "NOTES" /\ q.size = 0
  BY PartFields, WhatIsWritten
<1> HIDE DEF q
<1> QED
  BY <1>1, <1>3, <1>4, <1>5, <1>6, CopyLayout

\* The record left out in front of what has been copied.
LEMMA WriteElfSectionLayout ==
  ASSUME PlaceInv, LayoutInv, OwnKept, WriteElfSection
  PROVE  LayoutInv'
<1> DEFINE q == Header("CPU_ELF", dump.base - RecordSize, dump.offset)
<1>1. /\ dump.pc = "elfSec" /\ dump # NoCapture
      /\ UNCHANGED <<vectors, meta, count>> /\ Put(q)
      /\ dump' = [dump EXCEPT !.pc = "dqDir", !.dqBase = dump.base + dump.offset]
  BY DEF WriteElfSection, NoCapture
<1>2. /\ DumpTyped /\ MetaTyped /\ RecordSize \in Nat \ {0} /\ RegionAddr \in Nat
      /\ RecordsInv /\ ContentInv /\ BoundsInv /\ CrcInv
      /\ \A p \in Own : p.at \in Int /\ p.len \in Int
  BY <1>1, CaptureFacts
<1>3. /\ dump'.pc = "dqDir" /\ dump'.base = dump.base /\ dump'.offset = dump.offset
      /\ dump'.dqSize = dump.dqSize /\ dump'.dqBase = dump.base + dump.offset
  BY <1>1, <1>2 DEF DumpTyped, Fields
<1>4. RegionAddr' = RegionAddr /\ MetaTyped' /\ meta' = meta
  BY <1>1, <1>2 DEF RegionAddr, MetaTyped
<1>5. /\ q.at = dump.base - RecordSize /\ q.len = RecordSize /\ q.id = count
      /\ q.what = "CPU_ELF" /\ q.size = dump.offset
  BY HeaderFields, WhatIsWritten
<1>6. dump.base \in Nat /\ dump.offset \in Nat /\ dump.base = RegionAddr + 2 * RecordSize
  BY <1>1, <1>2 DEF RecordsInv, DumpTyped, AfterDir, AfterLayout, AfterCopy, AfterElfSec, AfterDqDir
<1> HIDE DEF q
<1>7. PartsApart' /\ Own' = Own \cup {q}
  BY <1>1, <1>5, <1>6, Written
<1>8. Copied' = Copied /\ Queue' = Queue
  BY <1>5, <1>7, RecordWritten DEF RecordKinds
<1>9. RecordsInv'
  <2>1. Has("CPU_ELF", dump.base - RecordSize, dump.offset)'
    BY <1>3, <1>5, <1>7 DEF Has
  <2>2. Has("CORE_ELF_DIR", RegionAddr, 0)'
    BY <1>1, <1>2, <1>4, <1>7
    DEF Has, RecordsInv, AfterDir, AfterLayout, AfterCopy
  <2> QED
    BY <1>3, <1>4, <1>6, <2>1, <2>2
    DEF RecordsInv, AllSteps, AfterDir, AfterLayout, AfterCopy, AfterElfSec, AfterDqDir
<1>10. ContentInv'
  BY <1>1, <1>2, <1>3, <1>8 DEF ContentInv, AfterLayout, AfterCopy, AfterElfSec, AfterDqDir
<1>11. BoundsInv'
  <2>1. \A p \in Own : /\ p.what # "DQ" /\ RegionAddr <= p.at
                       /\ p.at + p.len <= dump.base + dump.offset
    BY <1>1, <1>2
    DEF BoundsInv, AfterDir, AfterLayout, AfterCopy, AfterElfSec, AfterDqDir
  <2>2. \A p \in Own \cup {q} : /\ RegionAddr <= p.at /\ p.what # "DQ"
                                /\ p.at + p.len <= dump.base + dump.offset
    BY <1>2, <1>5, <1>6, <2>1
  <2> QED
    BY <1>3, <1>4, <1>7, <2>2
    DEF BoundsInv, AfterDir, AfterLayout, AfterCopy, AfterElfSec, AfterDqDir
<1>12. CrcInv'
  BY <1>1, <1>2, <1>3, <1>4 DEF CrcInv, AfterCopy, AfterElfSec, AfterDqDir
<1> QED
  BY <1>1, <1>4, <1>7, <1>9, <1>10, <1>11, <1>12, CaptureGoesOn

\* The next record of the dump, behind the ELF file.
LEMMA WriteDqDirLayout ==
  ASSUME PlaceInv, LayoutInv, OwnKept, WriteDqDir
  PROVE  LayoutInv'
<1> DEFINE q == Header("DQ_DIR", dump.dqBase, 0)
<1>0. dump.pc = "dqDir" /\ UNCHANGED <<vectors, meta, count>> /\ Put(q)
  BY Zenon DEF WriteDqDir
<1>1. dump # NoCapture
  BY <1>0 DEF NoCapture
<1>2. /\ DumpTyped /\ MetaTyped /\ RecordSize \in Nat \ {0} /\ RegionAddr \in Nat
      /\ RecordsInv /\ ContentInv /\ BoundsInv /\ CrcInv
      /\ \A p \in Own : p.at \in Int /\ p.len \in Int
  BY <1>1, CaptureFacts
<1>3. /\ dump'.pc \in {"dq", "dqSec"} /\ dump'.base = dump.base /\ dump'.offset = dump.offset
      /\ dump'.dqBase = dump.dqBase + 2 * RecordSize /\ dump'.dqSize = dump.dqSize
  <2>1. CASE \E plan \in DqPlans :
               dump' = [dump EXCEPT !.pc = "dq", !.dqBase = @ + 2 * RecordSize, !.dqPlan = plan]
    BY <1>2, <2>1 DEF DumpTyped, Fields
  <2>2. CASE dump' = [dump EXCEPT !.pc = "dqSec", !.dqBase = @ + 2 * RecordSize]
    BY <1>2, <2>2 DEF DumpTyped, Fields
  <2> QED
    BY <2>1, <2>2, Zenon DEF WriteDqDir
<1>4. RegionAddr' = RegionAddr /\ MetaTyped' /\ meta' = meta
  BY <1>0, <1>2 DEF RegionAddr, MetaTyped
<1>5. /\ q.at = dump.dqBase /\ q.len = RecordSize /\ q.id = count
      /\ q.what = "DQ_DIR" /\ q.size = 0
  BY HeaderFields, WhatIsWritten
<1>6. /\ dump.base \in Nat /\ dump.offset \in Nat /\ dump.base = RegionAddr + 2 * RecordSize
      /\ dump.dqBase = dump.base + dump.offset
  BY <1>0, <1>2 DEF RecordsInv, DumpTyped, AfterDir, AfterLayout, AfterCopy, AfterElfSec, AfterDqDir
<1> HIDE DEF q
<1>7. PartsApart' /\ Own' = Own \cup {q}
  BY <1>0, <1>1, <1>5, Written
<1>8. Copied' = Copied /\ Queue' = Queue
  BY <1>5, <1>7, RecordWritten DEF RecordKinds
<1>9. Queue = {} /\ dump.dqSize = 0
  BY <1>0, <1>2 DEF ContentInv, AfterDqDir
<1>10. RecordsInv'
  <2>1. Has("DQ_DIR", dump.base + dump.offset, 0)'
    BY <1>3, <1>5, <1>6, <1>7 DEF Has
  <2>2. Has("CORE_ELF_DIR", RegionAddr, 0)'
    BY <1>0, <1>2, <1>4, <1>7
    DEF Has, RecordsInv, AfterDir, AfterLayout, AfterCopy, AfterElfSec
  <2>3. Has("CPU_ELF", dump.base - RecordSize, dump.offset)'
    BY <1>0, <1>2, <1>3, <1>7 DEF Has, RecordsInv, AfterElfSec
  <2> QED
    BY <1>3, <1>4, <1>6, <2>1, <2>2, <2>3
    DEF RecordsInv, AllSteps, AfterDir, AfterLayout, AfterCopy, AfterElfSec, AfterDqDir
<1>11. ContentInv'
  <2>1. Fills({}, dump'.dqBase, dump'.dqBase)
    <3>1. PICK from \in Int : from = dump'.dqBase
      BY <1>2, <1>3, <1>6
    <3> QED
      BY <3>1, FillsNothing
  <2>2. dump'.dqBase + dump'.dqSize = dump'.dqBase
    BY <1>2, <1>3, <1>6, <1>9
  <2>3. Fills(Copied, dump.base, dump.base + dump.offset)
    BY <1>0, <1>2 DEF ContentInv, AfterLayout, AfterCopy, AfterElfSec
  <2> QED
    BY <1>3, <1>8, <1>9, <2>1, <2>2, <2>3
    DEF ContentInv, AfterLayout, AfterCopy, AfterElfSec, AfterDqDir
<1>12. BoundsInv'
  <2>1. \A p \in Own : /\ p.what # "DQ" /\ RegionAddr <= p.at /\ p.at + p.len <= dump.dqBase
    BY <1>0, <1>2, <1>9, CopiedAndQueue
    DEF BoundsInv, AfterDir, AfterLayout, AfterCopy, AfterElfSec, AfterDqDir
  <2>2. \A p \in Own \cup {q} : /\ RegionAddr <= p.at /\ p.what # "DQ"
                                /\ p.at + p.len <= dump.dqBase + 2 * RecordSize
    BY <1>2, <1>5, <1>6, <2>1
  <2> QED
    BY <1>3, <1>4, <1>7, <2>2
    DEF BoundsInv, AfterDir, AfterLayout, AfterCopy, AfterElfSec, AfterDqDir
<1>13. CrcInv'
  BY <1>0, <1>2, <1>3, <1>4, <1>9 DEF CrcInv, AfterCopy, AfterElfSec, AfterDqDir
<1> QED
  BY <1>1, <1>4, <1>7, <1>10, <1>11, <1>12, <1>13, CaptureGoesOn

\* A block or a body of the queue.
LEMMA StoreLayout ==
  ASSUME PlaceInv, LayoutInv, OwnKept, NEW kind, DqStep(kind), UNCHANGED <<vectors, meta, count>>,
         Put(Part("DQ", DqWritePtr, Head(dump.dqPlan).size)),
         dump' = Stored(Head(dump.dqPlan).size)
  PROVE  LayoutInv'
<1> DEFINE size == Head(dump.dqPlan).size
           q == Part("DQ", DqWritePtr, size)
<1>1. dump.pc = "dq" /\ dump.dqPlan # <<>> /\ dump # NoCapture
  BY DEF DqStep, NoCapture
<1>2. /\ DumpTyped /\ MetaTyped /\ RecordSize \in Nat \ {0} /\ RegionAddr \in Nat
      /\ RecordsInv /\ ContentInv /\ BoundsInv /\ CrcInv
      /\ \A p \in Own : p.at \in Int /\ p.len \in Int
  BY <1>1, CaptureFacts
<1>3. size \in Nat
  BY <1>1, <1>2, PlanTail DEF DumpTyped
<1>4. /\ dump'.pc = "dq" /\ dump'.dqBase = dump.dqBase /\ dump'.dqSize = dump.dqSize + size
      /\ dump'.base = dump.base /\ dump'.offset = dump.offset
  BY <1>1, <1>2 DEF DumpTyped, Fields, Stored
<1>5. RegionAddr' = RegionAddr /\ MetaTyped' /\ meta' = meta
  BY <1>2 DEF RegionAddr, MetaTyped
<1>6. /\ q.at = dump.dqBase + dump.dqSize /\ q.len = size /\ q.id = count
      /\ q.what = "DQ" /\ q.size = 0
  BY PartFields, WhatIsWritten DEF DqWritePtr
<1>7. dump.dqBase \in Nat /\ dump.dqSize \in Nat /\ RegionAddr <= dump.dqBase
  <2>1. /\ dump.base = RegionAddr + 2 * RecordSize
        /\ dump.dqBase = dump.base + dump.offset + 2 * RecordSize
    BY <1>1, <1>2 DEF RecordsInv, AfterDir, AfterLayout, AfterCopy, AfterElfSec, AfterDqDir
  <2> QED
    BY <1>2, <2>1 DEF DumpTyped
<1>8. Put(q)
  OBVIOUS
<1> HIDE DEF size, q
<1>9. PartsApart' /\ Own' = Own \cup {q}
  BY <1>1, <1>6, <1>8, Written DEF RecordKinds
<1>10. Copied' = Copied /\ Queue' = Queue \cup {q}
  BY <1>6, <1>9, ContentWritten
<1>11. RecordsInv'
  BY <1>1, <1>2, <1>4, <1>5, <1>9
  DEF RecordsInv, Has, AllSteps, AfterDir, AfterLayout, AfterCopy, AfterElfSec, AfterDqDir
<1>12. dump'.dqBase + dump'.dqSize = dump.dqBase + dump.dqSize + size
  BY <1>3, <1>4, <1>7
<1>13. ContentInv'
  <2>1. /\ Fills(Queue, dump.dqBase, dump.dqBase + dump.dqSize)
        /\ Fills(Copied, dump.base, dump.base + dump.offset)
    BY <1>1, <1>2 DEF ContentInv, QueueCounts, AfterLayout, AfterCopy, AfterElfSec, AfterDqDir
  <2>2. Fills(Queue \cup {q}, dump.dqBase, dump.dqBase + dump.dqSize + size)
    <3>1. PICK from \in Int, to \in Int : from = dump.dqBase /\ to = dump.dqBase + dump.dqSize
      BY <1>7
    <3>2. from <= to /\ Fills(Queue, from, to) /\ q.at = to /\ q.len \in Nat
      BY <1>3, <1>6, <1>7, <2>1, <3>1
    <3>3. Fills(Queue \cup {q}, from, to + q.len)
      BY <3>2, FillsMore
    <3> QED
      BY <1>6, <3>1, <3>3
  <2> QED
    BY <1>4, <1>10, <1>12, <2>1, <2>2
    DEF ContentInv, AfterLayout, AfterCopy, AfterElfSec, AfterDqDir
<1>14. BoundsInv'
  <2>1. \A p \in Own : /\ RegionAddr <= p.at
                       /\ p.what # "DQ" => p.at + p.len <= dump.dqBase
                       /\ p.what = "DQ" => /\ dump.dqBase <= p.at
                                           /\ p.at + p.len <= dump.dqBase + dump.dqSize
    BY <1>1, <1>2 DEF BoundsInv, QueueCounts, AfterDqDir
  <2>2. \A p \in Own \cup {q} :
          /\ RegionAddr <= p.at
          /\ p.what # "DQ" => p.at + p.len <= dump.dqBase
          /\ p.what = "DQ" => /\ dump.dqBase <= p.at
                              /\ p.at + p.len <= dump.dqBase + dump.dqSize + size
    BY <1>2, <1>3, <1>6, <1>7, <2>1
  <2> QED
    BY <1>4, <1>5, <1>9, <1>12, <2>2
    DEF BoundsInv, AfterDir, AfterLayout, AfterCopy, AfterElfSec, AfterDqDir
<1>15. CrcInv'
  BY <1>1, <1>2, <1>4, <1>5 DEF CrcInv, AfterCopy, AfterElfSec, AfterDqDir
<1> QED
  BY <1>1, <1>5, <1>9, <1>11, <1>13, <1>14, <1>15, CaptureGoesOn

\* Steps of copyTraceDq that store nothing, and its end.
LEMMA DqLayout ==
  ASSUME PlaceInv, LayoutInv, UNCHANGED <<parts, count>>, dump.pc \in {"dq", "dqCrc"},
         MetaTyped', meta'.valid = meta.valid, meta'.type = meta.type, meta'.elfCrc = meta.elfCrc,
         dump'.pc \in {"dq", "dqCrc", "dqSec"}, dump'.base = dump.base, dump'.offset = dump.offset,
         dump'.dqBase = dump.dqBase,
         \/ dump'.dqSize = dump.dqSize
         \/ dump'.dqSize = 0 /\ dump'.pc = "dqSec",
         dump'.pc = "dqSec" /\ dump'.dqSize > 0 =>
           meta'.dqCrc = <<dump.dqBase, dump.dqBase + dump.dqSize>>
  PROVE  LayoutInv'
<1>1. dump # NoCapture
  BY DEF NoCapture
<1>2. /\ DumpTyped /\ PartsApart
      /\ RecordsInv /\ ContentInv /\ BoundsInv /\ CrcInv
  BY <1>1, CaptureFacts
<1>3. /\ RegionAddr' = RegionAddr /\ PartsApart'
      /\ Own' = Own /\ Copied' = Copied /\ Queue' = Queue
  BY <1>2, NoPartsApart DEF RegionAddr, Own, Copied, Queue
<1>4. RecordsInv'
  BY <1>2, <1>3
  DEF RecordsInv, Has, AllSteps, AfterDir, AfterLayout, AfterCopy, AfterElfSec, AfterDqDir
<1>5. QueueCounts /\ (QueueCounts' => dump'.dqSize = dump.dqSize)
  BY DEF QueueCounts
<1>6. ContentInv'
  BY <1>2, <1>3, <1>5 DEF ContentInv, AfterLayout, AfterCopy, AfterElfSec, AfterDqDir
<1>7. BoundsInv'
  BY <1>2, <1>3, <1>5
  DEF BoundsInv, AfterDir, AfterLayout, AfterCopy, AfterElfSec, AfterDqDir
<1>8. CrcInv'
  BY <1>2 DEF CrcInv, AfterCopy, AfterElfSec, AfterDqDir
<1> QED
  BY <1>1, <1>3, <1>4, <1>6, <1>7, <1>8, CaptureGoesOn

LEMMA SkipLayout ==
  ASSUME PlaceInv, LayoutInv, NEW kind, DqStep(kind), UNCHANGED <<meta, parts, count>>,
         dump' = Stored(0)
  PROVE  LayoutInv'
<1>1. dump.pc = "dq" /\ dump # NoCapture
  BY DEF DqStep, NoCapture
<1>2. DumpTyped /\ MetaTyped
  BY <1>1, CaptureFacts
<1>3. /\ dump'.pc = "dq" /\ dump'.base = dump.base /\ dump'.offset = dump.offset
      /\ dump'.dqBase = dump.dqBase /\ dump'.dqSize = dump.dqSize
  BY <1>1, <1>2 DEF DumpTyped, Fields, Stored
<1>4. MetaTyped'
  BY <1>2 DEF MetaTyped
<1> QED
  BY <1>1, <1>3, <1>4, DqLayout

LEMMA DqEndLayout ==
  ASSUME PlaceInv, LayoutInv, DqFails \/ DqStored \/ ComputeDqCrc
  PROVE  LayoutInv'
<1>1. dump.pc \in {"dq", "dqCrc"} /\ UNCHANGED <<parts, count>>
  BY DEF DqFails, DqStored, ComputeDqCrc
<1>2. dump # NoCapture
  BY <1>1 DEF NoCapture
<1>3. DumpTyped /\ MetaTyped
  BY <1>2, CaptureFacts
<1>4. MetaTyped' /\ meta'.valid = meta.valid /\ meta'.type = meta.type /\ meta'.elfCrc = meta.elfCrc
  BY <1>3 DEF DqFails, DqStored, ComputeDqCrc, MetaTyped
<1>5. dump'.base = dump.base /\ dump'.offset = dump.offset /\ dump'.dqBase = dump.dqBase
  <2>1. CASE DqFails
    BY <1>3, <2>1 DEF DqFails, DumpTyped, Fields
  <2>2. CASE DqStored
    BY <1>3, <2>2 DEF DqStored, DumpTyped, Fields
  <2>3. CASE ComputeDqCrc
    BY <1>3, <2>3 DEF ComputeDqCrc, DumpTyped, Fields
  <2> QED
    BY <2>1, <2>2, <2>3
<1>6. CASE DqFails
  <2>1. dump'.pc = "dqSec" /\ dump'.dqSize = 0
    BY <1>3, <1>6 DEF DqFails, DumpTyped, Fields
  <2> QED
    BY <1>1, <1>4, <1>5, <2>1, DqLayout
<1>7. CASE DqStored
  <2>1. /\ dump'.dqSize = dump.dqSize /\ dump.dqSize \in Nat
        /\ dump'.pc = IF dump.dqSize > 0 THEN "dqCrc" ELSE "dqSec"
    BY <1>3, <1>7 DEF DqStored, DumpTyped, Fields
  <2> QED
    BY <1>1, <1>4, <1>5, <2>1, DqLayout
<1>8. CASE ComputeDqCrc
  <2>1. dump'.dqSize = dump.dqSize /\ dump'.pc = "dqSec"
    BY <1>3, <1>8 DEF ComputeDqCrc, DumpTyped, Fields
  <2>2. meta'.dqCrc = <<dump.dqBase, dump.dqBase + dump.dqSize>>
    BY <1>3, <1>8 DEF ComputeDqCrc, MetaTyped
  <2> QED
    BY <1>1, <1>4, <1>5, <2>1, <2>2, DqLayout
<1> QED
  BY <1>6, <1>7, <1>8

LEMMA WriteDqSectionLayout ==
  ASSUME PlaceInv, LayoutInv, OwnKept, WriteDqSection
  PROVE  LayoutInv'
<1> DEFINE q == Header("DQ_TRACE", dump.dqBase - RecordSize, dump.dqSize)
<1>1. /\ dump.pc = "dqSec" /\ dump # NoCapture
      /\ UNCHANGED <<vectors, meta, count>> /\ Put(q)
      /\ dump' = [dump EXCEPT !.pc = "finish"]
  BY DEF WriteDqSection, NoCapture
<1>2. /\ DumpTyped /\ MetaTyped /\ RecordSize \in Nat \ {0} /\ RegionAddr \in Nat
      /\ RecordsInv /\ ContentInv /\ BoundsInv /\ CrcInv
      /\ \A p \in Own : p.at \in Int /\ p.len \in Int
  BY <1>1, CaptureFacts
<1>3. /\ dump'.pc = "finish" /\ dump'.base = dump.base /\ dump'.offset = dump.offset
      /\ dump'.dqSize = dump.dqSize /\ dump'.dqBase = dump.dqBase
  BY <1>1, <1>2 DEF DumpTyped, Fields
<1>4. RegionAddr' = RegionAddr /\ MetaTyped' /\ meta' = meta
  BY <1>1, <1>2 DEF RegionAddr, MetaTyped
<1>5. /\ q.at = dump.dqBase - RecordSize /\ q.len = RecordSize /\ q.id = count
      /\ q.what = "DQ_TRACE" /\ q.size = dump.dqSize
  BY HeaderFields, WhatIsWritten
<1>6. /\ dump.base \in Nat /\ dump.offset \in Nat /\ dump.base = RegionAddr + 2 * RecordSize
      /\ dump.dqSize \in Nat /\ dump.dqBase = dump.base + dump.offset + 2 * RecordSize
  BY <1>1, <1>2 DEF RecordsInv, DumpTyped, AfterDir, AfterLayout, AfterCopy, AfterElfSec, AfterDqDir
<1> HIDE DEF q
<1>7. PartsApart' /\ Own' = Own \cup {q}
  BY <1>1, <1>5, <1>6, Written
<1>8. Copied' = Copied /\ Queue' = Queue
  BY <1>5, <1>7, RecordWritten DEF RecordKinds
<1>9. RecordsInv'
  <2>1. Has("DQ_TRACE", dump.dqBase - RecordSize, dump.dqSize)'
    BY <1>3, <1>5, <1>7 DEF Has
  <2>2. Has("CORE_ELF_DIR", RegionAddr, 0)'
    BY <1>1, <1>2, <1>4, <1>7
    DEF Has, RecordsInv, AfterDir, AfterLayout, AfterCopy, AfterElfSec, AfterDqDir
  <2>3. Has("CPU_ELF", dump.base - RecordSize, dump.offset)'
    BY <1>1, <1>2, <1>3, <1>7 DEF Has, RecordsInv, AfterElfSec, AfterDqDir
  <2>4. Has("DQ_DIR", dump.base + dump.offset, 0)'
    BY <1>1, <1>2, <1>3, <1>7 DEF Has, RecordsInv, AfterDqDir
  <2> QED
    BY <1>3, <1>4, <1>6, <2>1, <2>2, <2>3, <2>4
    DEF RecordsInv, AllSteps, AfterDir, AfterLayout, AfterCopy, AfterElfSec, AfterDqDir
<1>10. QueueCounts' = QueueCounts
  BY <1>1, <1>3 DEF QueueCounts
<1>11. ContentInv'
  BY <1>1, <1>2, <1>3, <1>8, <1>10 DEF ContentInv, AfterLayout, AfterCopy, AfterElfSec, AfterDqDir
<1>12. BoundsInv'
  <2>1. \A p \in Own : /\ RegionAddr <= p.at
                       /\ p.what # "DQ" => p.at + p.len <= dump.dqBase
                       /\ p.what = "DQ" =>
                            /\ dump.dqBase <= p.at
                            /\ QueueCounts => p.at + p.len <= dump.dqBase + dump.dqSize
    BY <1>1, <1>2 DEF BoundsInv, AfterDqDir
  <2>2. RegionAddr <= q.at /\ q.what # "DQ" /\ q.at + q.len <= dump.dqBase
    BY <1>2, <1>5, <1>6
  <2> QED
    BY <1>3, <1>4, <1>7, <1>10, <2>1, <2>2
    DEF BoundsInv, AfterDir, AfterLayout, AfterCopy, AfterElfSec, AfterDqDir
<1>13. CrcInv'
  BY <1>1, <1>2, <1>3, <1>4 DEF CrcInv, AfterCopy, AfterElfSec, AfterDqDir
<1> QED
  BY <1>1, <1>4, <1>7, <1>9, <1>11, <1>12, <1>13, CaptureGoesOn

\* The dump becomes valid: its ELF file ends at offset, its queue has dqSize bytes.
LEMMA FinishLayout ==
  ASSUME PlaceInv, LayoutInv, Finish
  PROVE  LayoutInv'
<1>1. /\ dump.pc = "finish" /\ dump # NoCapture /\ dump' = NoCapture /\ UNCHANGED <<parts, count>>
      /\ meta' = [meta EXCEPT !.valid = TRUE,
                    !.size = MetadataSize + dump.offset + dump.dqSize + 4 * RecordSize]
  BY DEF Finish, NoCapture
<1>2. /\ DumpTyped /\ MetaTyped /\ RecordSize \in Nat \ {0} /\ RegionAddr \in Nat /\ PartsApart
      /\ RecordsInv /\ ContentInv /\ BoundsInv /\ CrcInv
  BY <1>1, CaptureFacts
<1>3. /\ MetaTyped' /\ meta'.type = meta.type
      /\ meta'.elfCrc = meta.elfCrc /\ meta'.dqCrc = meta.dqCrc
      /\ meta'.size = MetadataSize + dump.offset + dump.dqSize + 4 * RecordSize
  BY <1>1, <1>2 DEF MetaTyped
<1>4. RegionAddr' = RegionAddr /\ Own' = Own /\ Copied' = Copied /\ Queue' = Queue /\ PartsApart'
  BY <1>1, <1>2, <1>3, NoPartsApart DEF RegionAddr, Own, Copied, Queue
<1>5. PICK elf \in Nat, dq \in Nat : elf = dump.offset /\ dq = dump.dqSize
  BY <1>2 DEF DumpTyped
<1>6. /\ dump.base = RegionAddr + 2 * RecordSize
      /\ dump.dqBase = RegionAddr + 2 * RecordSize + elf + 2 * RecordSize
      /\ Has("CORE_ELF_DIR", RegionAddr, 0)
      /\ Has("CPU_ELF", dump.base - RecordSize, elf)
      /\ Has("DQ_DIR", dump.base + elf, 0)
      /\ Has("DQ_TRACE", dump.dqBase - RecordSize, dq)
  BY <1>1, <1>2, <1>5
  DEF RecordsInv, AfterDir, AfterLayout, AfterCopy, AfterElfSec, AfterDqDir
<1>7. /\ dump.base - RecordSize = RegionAddr + RecordSize
      /\ dump.dqBase - RecordSize = RegionAddr + 2 * RecordSize + elf + RecordSize
  BY <1>2, <1>6
<1>8. /\ Fills(Copied, dump.base, dump.base + elf)
      /\ dq > 0 => Fills(Queue, dump.dqBase, dump.dqBase + dq)
  BY <1>1, <1>2, <1>5
  DEF ContentInv, QueueCounts, AfterLayout, AfterCopy, AfterElfSec, AfterDqDir
<1>9. /\ meta.elfCrc = <<dump.base, dump.base + elf>>
      /\ dq > 0 => meta.dqCrc = <<dump.dqBase, dump.dqBase + dq>>
  BY <1>1, <1>2, <1>5 DEF CrcInv, AfterCopy, AfterElfSec, AfterDqDir
<1>10. \A p \in Own :
         /\ RegionAddr <= p.at
         /\ p.what # "DQ" => p.at + p.len <= dump.dqBase
         /\ p.what = "DQ" => dump.dqBase <= p.at /\ (dq > 0 => p.at + p.len <= dump.dqBase + dq)
  BY <1>1, <1>2, <1>5 DEF BoundsInv, QueueCounts, AfterDqDir
<1>11. Complete(elf, dq)'
  <2>1. \A what, at, size : Has(what, at, size)' <=> Has(what, at, size)
    BY <1>4 DEF Has
  <2> QED
    BY <1>3, <1>4, <1>5, <1>6, <1>7, <1>8, <1>9, <1>10 DEF Complete, Has
<1> QED
  BY <1>1, <1>3, <1>4, <1>11 DEF LayoutInv

\* Registration, between captures, changes nothing of a dump.
LEMMA NothingLayout ==
  ASSUME LayoutInv, UNCHANGED <<parts, dump, meta, count>>
  PROVE  LayoutInv'
<1>1. /\ RegionAddr' = RegionAddr /\ Own' = Own /\ Copied' = Copied /\ Queue' = Queue
      /\ QueueCounts' = QueueCounts
  BY DEF RegionAddr, Own, Copied, Queue, QueueCounts
<1>2. PartsApart' /\ MetaTyped'
  BY NoPartsApart DEF LayoutInv, MetaTyped
<1>3. Running => Running'
  BY <1>1 DEF Running, RecordsInv, Has, ContentInv, BoundsInv, CrcInv
<1>4. ASSUME NEW elf \in Nat, NEW dq \in Nat, Complete(elf, dq)
      PROVE  Complete(elf, dq)'
  BY <1>1, <1>4 DEF Complete, Has
<1> QED
  BY <1>2, <1>3, <1>4 DEF LayoutInv

LEMMA LayoutInit == Init => LayoutInv
<1> SUFFICES ASSUME Init PROVE LayoutInv
  OBVIOUS
<1>1. parts = {} /\ dump = NoCapture /\ meta.valid = FALSE /\ MetaTyped
  BY DEF Init, MetaTyped
<1> QED
  BY <1>1 DEF LayoutInv, PartsApart

LEMMA LayoutStep == PlaceInv /\ LayoutInv /\ [Next]_vars => LayoutInv'
<1> SUFFICES ASSUME PlaceInv, LayoutInv, [Next]_vars PROVE LayoutInv'
  OBVIOUS
<1>1. CASE Next
  <2>0. OwnKept
    BY <1>1, PlaceStep
  <2>1. CASE \/ \E size \in Sizes : AddFullRegion(size)
             \/ \E size \in Sizes, addToHead \in BOOLEAN : AddAltRegion(size, addToHead)
             \/ Reserve \/ ReserveThrows
    <3>1. UNCHANGED <<parts, dump, meta, count>>
      BY <2>1 DEF AddFullRegion, AddAltRegion, Reserve, ReserveThrows
    <3> QED
      BY <3>1, NothingLayout
  <2>2. CASE \E type \in Types, ccd \in BOOLEAN : Start(type, ccd)
    BY <2>2, StartLayout
  <2>3. CASE AbortCopy
    <3>1. dump # NoCapture /\ Abort /\ UNCHANGED count
      BY <2>3 DEF AbortCopy, NoCapture
    <3> QED
      BY <3>1, AbortLayout
  <2>4. CASE BodyFits
    BY <2>4, SkipLayout DEF BodyFits
  <2>5. CASE CopyDqBody
    BY <2>0, <2>5, StoreLayout DEF CopyDqBody
  <2>6. CASE StoreBlock
    <3>1. DqStep("block") /\ UNCHANGED <<vectors, meta, count>>
      BY <2>6 DEF StoreBlock
    <3>2. CASE /\ Put(Part("DQ", DqWritePtr, Head(dump.dqPlan).size))
               /\ dump' = Stored(Head(dump.dqPlan).size)
      BY <2>0, <3>1, <3>2, StoreLayout
    <3>3. CASE dump' = Stored(0) /\ UNCHANGED parts
      BY <3>1, <3>3, SkipLayout
    <3> QED
      BY <2>6, <3>2, <3>3 DEF StoreBlock
  <2> QED
    BY <1>1, <2>0, <2>1, <2>2, <2>3, <2>4, <2>5, <2>6, WriteElfDirLayout, UpdateSegmentsLayout,
       LayOutLayout, CopySegmentLayout, CopyNotesLayout, WriteElfSectionLayout, WriteDqDirLayout,
       DqEndLayout, WriteDqSectionLayout, FinishLayout
    DEF Next
<1>2. CASE UNCHANGED vars
  BY <1>2, NothingLayout DEF vars
<1> QED
  BY <1>1, <1>2

\* Whatever earlier dumps and aborted captures left in the region, findSection leads
\* from a valid dump's first record to the two sections the last capture wrote, and
\* each has exactly the bytes that were copied.
THEOREM SectionsAlwaysFound == Spec => []SectionsFound
<1>1. PlaceInv /\ LayoutInv => SectionsFound
  BY CompleteSuffices
<1> QED
  BY <1>1, PlaceInit, PlaceStep, LayoutInit, LayoutStep, PTL DEF Spec

\* At the next boot the CRCs are computed over the bytes the capture used.
THEOREM CrcsMatchSections == Spec => []CrcOfSections
<1>1. PlaceInv /\ LayoutInv => CrcOfSections
  BY CompleteSuffices
<1> QED
  BY <1>1, PlaceInit, PlaceStep, LayoutInit, LayoutStep, PTL DEF Spec

\* Who copies as many bytes as the metadata says gets every part of the dump.
THEOREM SizeAlwaysCovers == Spec => []SizeCoversDump
<1>1. PlaceInv /\ LayoutInv => SizeCoversDump
  BY CompleteSuffices
<1> QED
  BY <1>1, PlaceInit, PlaceStep, LayoutInit, LayoutStep, PTL DEF Spec

-----------------------------------------------------------------------------
(* The program headers describe what is copied.                             *)

\* The part this header describes has been copied.
Described(h) ==
  \E p \in Own : /\ p.what \in {"SEGMENT", "NOTES"}
                 /\ p.at = dump.base + dump.phdrs[h].offset /\ p.len = dump.phdrs[h].size

\* One header for each segment and one for the notes, with offsets that add up;
\* what has been copied is what the first headers describe, up to where the next
\* one says its part is.
HeadersInv ==
  /\ dump # NoCapture /\ dump.pc \notin AfterLayout => dump.next = 1
  /\ dump # NoCapture /\ dump.pc \in AfterLayout =>
       LET sizes == segs[meta.type]
           n == Len(sizes)
       IN  /\ DOMAIN dump.phdrs = 1 .. n + 1
           /\ \A k \in 1 .. n : /\ dump.phdrs[k].size = sizes[k]
                                /\ dump.phdrs[k + 1].offset = dump.phdrs[k].offset + sizes[k]
           /\ dump.phdrs[n + 1].size = dump.notes
           /\ dump.pc = "copy" => /\ dump.next \in 1 .. n + 1
                                  /\ dump.offset = dump.phdrs[dump.next].offset
                                  /\ \A h \in 1 .. dump.next - 1 : Described(h)
           /\ dump.pc \in AfterCopy => \A h \in 1 .. n + 1 : Described(h)

LEMMA HeadersInit == Init => HeadersInv
BY DEF Init, HeadersInv

LEMMA DescribedKept ==
  ASSUME Own \subseteq Own', dump'.base = dump.base, dump'.phdrs = dump.phdrs,
         NEW h, Described(h)
  PROVE  Described(h)'
BY DEF Described

\* LayOut, with the headers it builds.
LEMMA HeadersBuilt ==
  ASSUME StateTyped, DumpTyped, LayOut, NEW sizes, sizes = segs[meta.type]
  PROVE  LET n == Len(sizes)
         IN  /\ n \in Nat
             /\ DOMAIN dump'.phdrs = 1 .. n + 1
             /\ \A k \in 1 .. n : /\ dump'.phdrs[k].size = sizes[k]
                                  /\ dump'.phdrs[k + 1].offset = dump'.phdrs[k].offset + sizes[k]
             /\ dump'.phdrs[n + 1].size = dump'.notes
             /\ dump'.offset = dump'.phdrs[1].offset
             /\ dump'.pc = "copy" /\ dump'.next = dump.next
<1> DEFINE n == Len(sizes)
           loads == [i \in DOMAIN sizes |-> [offset |-> LoadOffset(i), size |-> sizes[i]]]
           last(notes) == [offset |-> LoadOffset(n + 1), size |-> notes]
<1>1. sizes \in Seq(Nat) /\ n \in Nat /\ DOMAIN sizes = 1 .. n
  BY LenProperties DEF StateTyped
<1>2. PICK notes : dump' = [dump EXCEPT
                      !.pc = "copy", !.offset = LoadSections, !.notes = notes,
                      !.phdrs = loads \o <<last(notes)>>]
  BY Zenon DEF LayOut
<1>3. /\ LoadOffset(1) = LoadSections
      /\ \A k \in 1 .. n : LoadOffset(k + 1) = LoadOffset(k) + sizes[k]
  BY OffsetUnfolds
<1> DEFINE S == {loads[i] : i \in 1 .. n} \cup {last(notes)}
<1>4. loads \in Seq(S) /\ Len(loads) = n /\ <<last(notes)>> \in Seq(S)
  <2>1. DOMAIN loads = 1 .. n /\ \A i \in 1 .. n : loads[i] \in S
    BY <1>1
  <2>2. loads \in [1 .. n -> S]
    BY <1>1, <2>1
  <2>3. last(notes) \in S
    OBVIOUS
  <2> HIDE DEF S, loads, last
  <2>4. loads \in Seq(S)
    <3>1. PICK m \in Nat : m = n
      BY <1>1
    <3>2. loads \in [1 .. m -> S]
      BY <2>2, <3>1
    <3> HIDE DEF n
    <3> QED
      BY <3>2, SeqDef
  <2>5. Len(loads) = n
    BY <1>1, <2>1, <2>4, LenProperties
  <2> QED
    BY <2>3, <2>4, <2>5
<1>5. \A i \in 1 .. n : loads[i].offset = LoadOffset(i) /\ loads[i].size = sizes[i]
  BY <1>1
<1>6. last(notes).offset = LoadOffset(n + 1) /\ last(notes).size = notes
  OBVIOUS
<1> HIDE DEF S, loads, last, n
<1> DEFINE phdrs == loads \o <<last(notes)>>
<1>7. /\ Len(phdrs) = n + 1 /\ DOMAIN phdrs = 1 .. n + 1
      /\ \A i \in 1 .. n : phdrs[i] = loads[i]
      /\ phdrs[n + 1] = last(notes)
  <2>1. Len(<<last(notes)>>) = 1 /\ <<last(notes)>>[1] = last(notes)
    OBVIOUS
  <2>2. phdrs \in Seq(S) /\ Len(phdrs) = Len(loads) + Len(<<last(notes)>>)
    BY <1>4, ConcatProperties
  <2>3. \A i \in 1 .. Len(loads) + Len(<<last(notes)>>) :
          phdrs[i] = IF i <= Len(loads) THEN loads[i] ELSE <<last(notes)>>[i - Len(loads)]
    BY <1>4, ConcatProperties
  <2>4. DOMAIN phdrs = 1 .. Len(phdrs)
    BY <2>2, LenProperties
  <2> QED
    BY <1>1, <1>4, <2>1, <2>2, <2>3, <2>4
<1>8. \A k \in 1 .. n + 1 : phdrs[k].offset = LoadOffset(k)
  <2> TAKE k \in 1 .. n + 1
  <2>1. k \in 1 .. n \/ k = n + 1
    BY <1>1
  <2> HIDE DEF phdrs
  <2> QED
    BY <1>5, <1>6, <1>7, <2>1
<1>9. /\ dump'.pc = "copy" /\ dump'.next = dump.next /\ dump'.offset = LoadSections
      /\ dump'.notes = notes /\ dump'.phdrs = phdrs
  BY <1>2 DEF DumpTyped, Fields
<1> HIDE DEF phdrs
<1>10. \A k \in 1 .. n : k \in 1 .. n + 1 /\ k + 1 \in 1 .. n + 1
  BY <1>1
<1>11. 1 \in 1 .. n + 1
  BY <1>1
<1>12. \A k \in 1 .. n : phdrs[k].size = sizes[k] /\ phdrs[k + 1].offset = phdrs[k].offset + sizes[k]
  BY <1>3, <1>5, <1>7, <1>8, <1>10
<1>13. phdrs[n + 1].size = notes /\ phdrs[1].offset = LoadSections
  BY <1>3, <1>6, <1>7, <1>8, <1>11
<1> QED
  BY <1>1, <1>7, <1>9, <1>12, <1>13 DEF n

\* The steps before the headers are built, and those after everything is copied.
LEMMA HeadersEarly ==
  ASSUME HeadersInv,
         dump' # NoCapture => /\ dump # NoCapture /\ dump.pc \notin AfterLayout
                              /\ dump'.pc \notin AfterLayout /\ dump'.next = dump.next
  PROVE  HeadersInv'
BY DEF HeadersInv, AfterLayout, AfterCopy, AfterElfSec, AfterDqDir

LEMMA HeadersKept ==
  ASSUME PlaceInv, HeadersInv, OwnKept, UNCHANGED <<segs, count>>, meta'.type = meta.type,
         dump # NoCapture, dump.pc \in AfterCopy, dump'.pc \in AfterCopy,
         dump'.base = dump.base, dump'.phdrs = dump.phdrs, dump'.notes = dump.notes
  PROVE  HeadersInv'
<1>1. dump.pc \in AfterLayout /\ dump'.pc \in AfterLayout /\ dump'.pc # "copy"
  BY DEF AfterLayout, AfterCopy, AfterElfSec, AfterDqDir
<1>2. Own \subseteq Own'
  BY DEF Own, OwnKept
<1>3. \A h : Described(h) => Described(h)'
  BY <1>2, DescribedKept
<1> QED
  BY <1>1, <1>3 DEF HeadersInv

\* A segment or the notes, copied to the end of the file.
LEMMA HeadersCopied ==
  ASSUME PlaceInv, HeadersInv, OwnKept, UNCHANGED <<segs, count>>, meta'.type = meta.type,
         dump.pc = "copy", NEW q, Put(q), q.id = count, q.what \in {"SEGMENT", "NOTES"},
         q.at = dump.base + dump.offset, q.len = dump.phdrs[dump.next].size,
         dump'.base = dump.base, dump'.phdrs = dump.phdrs
  PROVE  \A h \in 1 .. dump.next : Described(h)'
<1>1. /\ dump # NoCapture /\ dump.pc \in AfterLayout
  BY DEF NoCapture, AfterLayout
<1>2. Own \subseteq Own' /\ q \in Own'
  BY <1>1 DEF Own, OwnKept, Put
<1>3. /\ dump.next \in Nat /\ dump.offset = dump.phdrs[dump.next].offset
      /\ \A h \in 1 .. dump.next - 1 : Described(h)
  BY <1>1 DEF HeadersInv, PlaceInv, DumpTyped
<1>4. PICK next \in Nat : next = dump.next
  BY <1>3
<1>5. Described(next)'
  BY <1>2, <1>3, <1>4 DEF Described
<1>6. ASSUME NEW h \in 1 .. next
      PROVE  Described(h)'
  <2>1. CASE h = next
    BY <1>5, <2>1
  <2>2. CASE h # next
    <3>1. h \in 1 .. next - 1
      BY <2>2
    <3>2. Described(h)
      BY <1>3, <1>4, <3>1
    <3> QED
      BY <1>2, <3>2, DescribedKept
  <2> QED
    BY <2>1, <2>2
<1> QED
  BY <1>4, <1>6

LEMMA LayOutHeaders ==
  ASSUME PlaceInv, HeadersInv, LayOut
  PROVE  HeadersInv'
<1>1. /\ dump.pc = "layout" /\ dump # NoCapture /\ UNCHANGED <<vectors, meta, count>>
  BY DEF LayOut, NoCapture
<1>2. StateTyped /\ DumpTyped
  BY <1>1 DEF PlaceInv
<1>3. dump.next = 1
  BY <1>1 DEF HeadersInv, AfterLayout, AfterCopy, AfterElfSec, AfterDqDir
<1>4. PICK sizes : sizes = segs[meta.type]
  OBVIOUS
<1>5. sizes = segs'[meta'.type]
  BY <1>1, <1>4 DEF vectors
<1> DEFINE n == Len(sizes)
<1>6. /\ n \in Nat
      /\ DOMAIN dump'.phdrs = 1 .. n + 1
      /\ \A k \in 1 .. n : /\ dump'.phdrs[k].size = sizes[k]
                           /\ dump'.phdrs[k + 1].offset = dump'.phdrs[k].offset + sizes[k]
      /\ dump'.phdrs[n + 1].size = dump'.notes
      /\ dump'.offset = dump'.phdrs[1].offset
      /\ dump'.pc = "copy" /\ dump'.next = dump.next
  BY <1>2, <1>4, HeadersBuilt
<1>7. dump'.pc \in AfterLayout /\ dump'.pc \notin AfterCopy
  BY <1>6 DEF AfterLayout, AfterCopy, AfterElfSec, AfterDqDir
<1>8. dump'.next \in 1 .. n + 1 /\ 1 .. dump'.next - 1 = {}
  BY <1>3, <1>6
<1>9. dump'.offset = dump'.phdrs[dump'.next].offset
  BY <1>3, <1>6
<1> HIDE DEF n
<1>10. n = Len(segs'[meta'.type])
  BY <1>5 DEF n
<1> QED
  BY <1>5, <1>6, <1>7, <1>8, <1>9, <1>10 DEF HeadersInv

LEMMA CopySegmentHeaders ==
  ASSUME PlaceInv, HeadersInv, OwnKept, CopySegment
  PROVE  HeadersInv'
<1> DEFINE size == segs[meta.type][dump.next]
           q == Part("SEGMENT", dump.base + dump.offset, size)
<1>1. /\ dump.pc = "copy" /\ dump.next <= Len(segs[meta.type]) /\ dump # NoCapture
      /\ UNCHANGED <<vectors, meta, count>> /\ Put(q)
      /\ dump' = [dump EXCEPT !.next = @ + 1, !.offset = @ + size]
  BY DEF CopySegment, NoCapture
<1>2. StateTyped /\ DumpTyped
  BY <1>1 DEF PlaceInv
<1>3. dump.next \in 1 .. Len(segs[meta.type]) /\ Len(segs[meta.type]) \in Nat
  BY <1>1, <1>2, LenProperties DEF StateTyped, DumpTyped
<1>4. /\ dump'.pc = "copy" /\ dump'.base = dump.base /\ dump'.offset = dump.offset + size
      /\ dump'.phdrs = dump.phdrs /\ dump'.notes = dump.notes /\ dump'.next = dump.next + 1
  BY <1>1, <1>2 DEF DumpTyped, Fields
<1>5. /\ q.at = dump.base + dump.offset /\ q.len = size /\ q.id = count /\ q.what = "SEGMENT"
  BY PartFields, WhatIsWritten
<1>6. dump.pc \in AfterLayout /\ dump'.pc \in AfterLayout /\ dump'.pc \notin AfterCopy
  BY <1>1, <1>4 DEF AfterLayout, AfterCopy, AfterElfSec, AfterDqDir
<1> HIDE DEF q
<1>7. PICK n, sizes : n \in Nat /\ sizes = segs[meta.type] /\ n = Len(sizes)
  BY <1>3
<1>8. sizes = segs'[meta'.type] /\ dump.next \in 1 .. n
  BY <1>1, <1>3, <1>7 DEF vectors
<1>9. /\ DOMAIN dump.phdrs = 1 .. n + 1
      /\ \A k \in 1 .. n : /\ dump.phdrs[k].size = sizes[k]
                           /\ dump.phdrs[k + 1].offset = dump.phdrs[k].offset + sizes[k]
      /\ dump.phdrs[n + 1].size = dump.notes /\ dump.offset = dump.phdrs[dump.next].offset
  BY <1>1, <1>6, <1>7 DEF HeadersInv
<1>10. /\ dump.phdrs[dump.next].size = size
       /\ dump'.offset = dump.phdrs[dump.next + 1].offset
  BY <1>4, <1>7, <1>8, <1>9
<1>11. UNCHANGED <<segs, count>>
  BY <1>1 DEF vectors
<1> HIDE DEF size
<1>12. \A h \in 1 .. dump.next : Described(h)'
  BY <1>1, <1>4, <1>5, <1>10, <1>11, HeadersCopied
<1>13. 1 .. dump'.next - 1 = 1 .. dump.next /\ dump'.next \in 1 .. n + 1
  BY <1>4, <1>7, <1>8
<1>14. dump'.offset = dump'.phdrs[dump'.next].offset
  BY <1>4, <1>10
<1> QED
  BY <1>4, <1>6, <1>7, <1>8, <1>9, <1>12, <1>13, <1>14 DEF HeadersInv

LEMMA CopyNotesHeaders ==
  ASSUME PlaceInv, HeadersInv, OwnKept, CopyNotes
  PROVE  HeadersInv'
<1> DEFINE q == Part("NOTES", dump.base + dump.offset, dump.notes)
<1>1. /\ dump.pc = "copy" /\ dump.next > Len(segs[meta.type]) /\ dump # NoCapture
      /\ UNCHANGED <<vectors, count>> /\ Put(q)
      /\ dump' = [dump EXCEPT !.pc = "elfSec", !.offset = @ + dump.notes]
  BY DEF CopyNotes, NoCapture
<1>2. StateTyped /\ DumpTyped
  BY <1>1 DEF PlaceInv
<1>3. meta'.type = meta.type
  BY <1>2 DEF CopyNotes, StateTyped
<1>4. /\ dump'.pc = "elfSec" /\ dump'.base = dump.base
      /\ dump'.phdrs = dump.phdrs /\ dump'.notes = dump.notes
  BY <1>1, <1>2 DEF DumpTyped, Fields
<1>5. /\ q.at = dump.base + dump.offset /\ q.len = dump.notes /\ q.id = count /\ q.what = "NOTES"
  BY PartFields, WhatIsWritten
<1>6. dump.pc \in AfterLayout /\ dump'.pc \in AfterLayout /\ dump'.pc \in AfterCopy
  BY <1>1, <1>4 DEF AfterLayout, AfterCopy, AfterElfSec, AfterDqDir
<1> HIDE DEF q
<1>7. PICK n, sizes : sizes = segs[meta.type] /\ n = Len(sizes)
  OBVIOUS
<1>8. sizes = segs'[meta'.type] /\ n \in Nat /\ dump.next > n
  <2>1. n \in Nat
    BY <1>2, <1>7, LenProperties DEF StateTyped
  <2> QED
    BY <1>1, <1>3, <1>7, <2>1 DEF vectors
<1>9. /\ DOMAIN dump.phdrs = 1 .. n + 1
      /\ \A k \in 1 .. n : /\ dump.phdrs[k].size = sizes[k]
                           /\ dump.phdrs[k + 1].offset = dump.phdrs[k].offset + sizes[k]
      /\ dump.phdrs[n + 1].size = dump.notes /\ dump.next \in 1 .. n + 1
  BY <1>1, <1>6, <1>7 DEF HeadersInv
<1>10. dump.next = n + 1
  BY <1>8, <1>9
<1>11. UNCHANGED <<segs, count>> /\ q.len = dump.phdrs[dump.next].size
  BY <1>1, <1>5, <1>9, <1>10 DEF vectors
<1>12. \A h \in 1 .. dump.next : Described(h)'
  BY <1>1, <1>3, <1>4, <1>5, <1>11, HeadersCopied
<1> QED
  BY <1>4, <1>6, <1>7, <1>8, <1>9, <1>10, <1>12 DEF HeadersInv

\* What the steps after the copies leave alone.
LEMMA LateFields ==
  ASSUME DumpTyped, dump.pc \in AfterCopy,
         \/ WriteElfSection \/ WriteDqDir \/ DqFails \/ DqStored \/ ComputeDqCrc
         \/ WriteDqSection \/ \E size : dump' = Stored(size)
  PROVE  /\ dump'.pc \in AfterCopy /\ dump'.base = dump.base
         /\ dump'.phdrs = dump.phdrs /\ dump'.notes = dump.notes
<1> USE DEF DumpTyped, Fields, AfterCopy, AfterElfSec, AfterDqDir
<1>1. CASE WriteElfSection
  BY <1>1 DEF WriteElfSection
<1>2. CASE WriteDqDir
  <2>1. CASE \E plan \in DqPlans :
               dump' = [dump EXCEPT !.pc = "dq", !.dqBase = @ + 2 * RecordSize, !.dqPlan = plan]
    BY <2>1
  <2>2. CASE dump' = [dump EXCEPT !.pc = "dqSec", !.dqBase = @ + 2 * RecordSize]
    BY <2>2
  <2> QED
    BY <1>2, <2>1, <2>2, Zenon DEF WriteDqDir
<1>3. CASE DqFails
  BY <1>3 DEF DqFails
<1>4. CASE DqStored
  BY <1>4 DEF DqStored
<1>5. CASE ComputeDqCrc
  BY <1>5 DEF ComputeDqCrc
<1>6. CASE WriteDqSection
  BY <1>6 DEF WriteDqSection
<1>7. CASE \E size : dump' = Stored(size)
  BY <1>7 DEF Stored
<1> QED
  BY <1>1, <1>2, <1>3, <1>4, <1>5, <1>6, <1>7

LEMMA HeadersStep == PlaceInv /\ HeadersInv /\ [Next]_vars => HeadersInv'
<1> SUFFICES ASSUME PlaceInv, HeadersInv, [Next]_vars PROVE HeadersInv'
  OBVIOUS
<1>1. CASE Next
  <2>0. OwnKept
    BY <1>1, PlaceStep
  <2>1. CASE \/ \E size \in Sizes : AddFullRegion(size)
             \/ \E size \in Sizes, addToHead \in BOOLEAN : AddAltRegion(size, addToHead)
             \/ Reserve \/ ReserveThrows \/ Finish \/ AbortCopy
    <3>1. dump' = NoCapture
      BY <2>1 DEF AddFullRegion, AddAltRegion, Reserve, ReserveThrows, Finish, AbortCopy, Abort
    <3> QED
      BY <3>1, HeadersEarly
  <2>2. ASSUME NEW type \in Types, NEW ccd \in BOOLEAN, Start(type, ccd)
        PROVE  HeadersInv'
    <3>1. dump'.pc = "elfDir" /\ dump'.next = 1
      BY <2>2 DEF Start
    <3> QED
      BY <3>1 DEF HeadersInv, AfterLayout, AfterCopy, AfterElfSec, AfterDqDir
  <2>3. CASE WriteElfDir \/ UpdateSegments
    <3>1. dump.pc \in {"elfDir", "segments"} /\ dump # NoCapture
      <4>1. dump.pc \in {"elfDir", "segments"}
        BY <2>3, ZenonT(30) DEF WriteElfDir, UpdateSegments
      <4> QED
        BY <4>1 DEF NoCapture
    <3>2. DumpTyped
      BY <3>1 DEF PlaceInv
    <3>3. \/ dump' = NoCapture
          \/ dump' = [dump EXCEPT !.pc = "segments", !.base = @ + 2 * RecordSize]
          \/ \E tasks : dump' = [dump EXCEPT !.pc = "layout", !.tasks = tasks]
      BY <2>3, ZenonT(30) DEF WriteElfDir, UpdateSegments, Abort
    <3>4. dump' # NoCapture => dump'.pc \in {"segments", "layout"} /\ dump'.next = dump.next
      BY <3>2, <3>3 DEF DumpTyped, Fields
    <3> QED
      BY <3>1, <3>4, HeadersEarly DEF AfterLayout, AfterCopy, AfterElfSec, AfterDqDir
  <2>4. CASE \/ WriteElfSection \/ WriteDqDir \/ DqFails \/ DqStored \/ ComputeDqCrc
             \/ WriteDqSection \/ StoreBlock \/ BodyFits \/ CopyDqBody
    <3>1. dump.pc \in AfterCopy /\ dump # NoCapture
      <4>1. dump.pc \in {"elfSec", "dqDir", "dq", "dqCrc", "dqSec"}
        BY <2>4, ZenonT(30)
        DEF WriteElfSection, WriteDqDir, DqFails, DqStored, ComputeDqCrc, WriteDqSection,
            StoreBlock, BodyFits, CopyDqBody, DqStep
      <4> QED
        BY <4>1 DEF NoCapture, AfterCopy, AfterElfSec, AfterDqDir
    <3>2. DumpTyped /\ StateTyped
      BY <3>1 DEF PlaceInv
    <3>3. UNCHANGED <<segs, count>> /\ meta'.type = meta.type
      <4>1. UNCHANGED <<segs, count>>
        BY <2>4, ZenonT(30)
        DEF WriteElfSection, WriteDqDir, DqFails, DqStored, ComputeDqCrc, WriteDqSection,
            StoreBlock, BodyFits, CopyDqBody, vectors
      <4>2. meta' = meta \/ meta' = [meta EXCEPT !.dqCrc = <<dump.dqBase, dump.dqBase + dump.dqSize>>]
        BY <2>4, ZenonT(30)
        DEF WriteElfSection, WriteDqDir, DqFails, DqStored, ComputeDqCrc, WriteDqSection,
            StoreBlock, BodyFits, CopyDqBody
      <4> QED
        BY <3>2, <4>1, <4>2 DEF StateTyped
    <3>4. (StoreBlock \/ BodyFits \/ CopyDqBody) => \E size : dump' = Stored(size)
      BY DEF StoreBlock, BodyFits, CopyDqBody
    <3>5. /\ dump'.pc \in AfterCopy /\ dump'.base = dump.base
          /\ dump'.phdrs = dump.phdrs /\ dump'.notes = dump.notes
      BY <2>4, <3>1, <3>2, <3>4, LateFields
    <3> QED
      BY <2>0, <3>1, <3>3, <3>5, HeadersKept
  <2> QED
    BY <1>1, <2>0, <2>1, <2>2, <2>3, <2>4, LayOutHeaders, CopySegmentHeaders, CopyNotesHeaders
    DEF Next
<1>2. CASE UNCHANGED vars
  <2>1. UNCHANGED <<segs, parts, dump, meta, count>>
    BY <1>2 DEF vars, vectors
  <2>2. Own' = Own
    BY <2>1 DEF Own
  <2>3. \A h : Described(h) => Described(h)'
    BY <2>1, <2>2 DEF Described
  <2> QED
    BY <2>1, <2>3 DEF HeadersInv
<1> QED
  BY <1>1, <1>2

\* Each program header is where the bytes it describes have been copied to, however
\* many segments there are: the loop that builds the headers and the one that copies
\* add up the same sizes.
THEOREM HeadersAlwaysDescribe == Spec => []HeadersDescribeDump
<1>1. PlaceInv /\ LayoutInv /\ HeadersInv => HeadersDescribeDump
  <2> SUFFICES ASSUME PlaceInv, LayoutInv, HeadersInv, dump # NoCapture,
                      dump.pc \notin {"elfDir", "segments", "layout", "copy"}
               PROVE  \A h \in DOMAIN dump.phdrs :
                        \E p \in parts : /\ p.id = count /\ p.what \in {"SEGMENT", "NOTES"}
                                         /\ p.at = dump.base + dump.phdrs[h].offset
                                         /\ p.len = dump.phdrs[h].size
    BY DEF HeadersDescribeDump
  <2>1. dump.pc \in AllSteps
    BY CaptureFacts DEF RecordsInv
  <2>2. dump.pc \in AfterCopy /\ dump.pc \in AfterLayout
    BY <2>1 DEF AllSteps, AfterDir, AfterLayout
  <2>3. \A h \in DOMAIN dump.phdrs : Described(h)
    BY <2>2 DEF HeadersInv
  <2> QED
    BY <2>3 DEF Described, Own
<1> QED
  BY <1>1, PlaceInit, PlaceStep, LayoutInit, LayoutStep, HeadersInit, HeadersStep, PTL DEF Spec
=============================================================================
