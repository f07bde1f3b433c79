--------------------------- MODULE StorageRecord ---------------------------
(***************************************************************************)
(* The storage record: dcd::StorageRecord and the calls of                 *)
(* dcd::CoreDumpManager that reach it.  It tells where a dump goes, and    *)
(* lies in RPA memory behind the metadata record.  Every setter assigns    *)
(* one field of the object and then copies the whole object with the DMA   *)
(* engine.  Nothing is locked: tasks may alternate between assignment and  *)
(* copy.  No CRC protects the copy, and a failure is printed only.         *)
(***************************************************************************)
EXTENDS Naturals

CONSTANTS
  Tasks,      \* callers of the setters
  FieldCount, \* m_Mode, m_VolumeSsid, m_AltVolumeSsid, m_NetworkAddress, m_State
  Values,     \* what a field may hold
  Unset,      \* CCD_STATE_UNKNOWN, INVALID_SSID, an empty path ...
  DmaFaults   \* may a copy by the RPA DMA engine fail?

ASSUME FieldAssumption == FieldCount \in Nat
ASSUME UnsetAssumption == Unset \in Values
ASSUME FaultAssumption == DmaFaults \in BOOLEAN

\* The fields that initialize() does not look at, in their order.
Fields == 1 .. FieldCount

\* The fields in the order they are copied; `signature' and `version' say whether
\* they are those of this firmware.
Record ==
  [signature : BOOLEAN, valid : BOOLEAN, version : BOOLEAN, data : [Fields -> Values]]

\* clear()
Cleared ==
  [signature |-> TRUE, valid |-> FALSE, version |-> TRUE, data |-> [f \in Fields |-> Unset]]

\* RPA memory that has lost its content: whatever it holds, not the signature.
Lost == {r \in Record : ~r.signature}

VARIABLES
  mem,     \* m_StorageRecord
  rpa,     \* the copy in RPA
  pc,      \* "off", "bootClear" or "on"
  copying, \* tasks that have assigned a field and not yet copied the record
  unsaved, \* ghost: the last copy failed, or the object has been replaced since
  kept     \* ghost: the records one of which must come back; {} if none is promised

vars == <<mem, rpa, pc, copying, unsaved, kept>>

Init ==
  /\ mem = Cleared /\ rpa \in Lost
  /\ pc = "off" /\ copying = {}
  /\ unsaved = FALSE /\ kept = {}

-----------------------------------------------------------------------------
\* What initialize() accepts.
Usable(r) == r.signature /\ r.valid /\ r.version

\* The first n of the fields have been copied.
Prefix(old, new, n) == [f \in Fields |-> IF f <= n THEN new.data[f] ELSE old.data[f]]

\* A copy that fails has moved any beginning of the record.
Torn(old, new) ==
  {old, [old EXCEPT !.signature = new.signature],
   [old EXCEPT !.signature = new.signature, !.valid = new.valid]}
    \cup {[new EXCEPT !.data = Prefix(old, new, n)] : n \in 0 .. FieldCount}

\* writeToRpa
WriteToRpa(ok) ==
  /\ ok \/ DmaFaults
  /\ rpa' \in IF ok THEN {mem} ELSE Torn(rpa, mem)
  /\ unsaved' = ~ok

-----------------------------------------------------------------------------
(* The end of initialize().                                                 *)

\* Seeded bug: a record of another version is taken over.
BootAnyVersion ==
  /\ pc = "off"
  /\ \/ /\ rpa.signature /\ rpa.valid
        /\ mem' = rpa /\ pc' = "on"
        /\ kept' = {r \in {rpa} : kept # {}}
     \/ /\ ~(rpa.signature /\ rpa.valid)
        /\ mem' = Cleared /\ pc' = "bootClear"
        /\ UNCHANGED kept
  /\ unsaved' = FALSE
  /\ UNCHANGED <<rpa, copying>>

\* From now on a promise is about the record that has been accepted.
BootAccept ==
  /\ Usable(rpa)
  /\ mem' = rpa /\ pc' = "on"
  /\ kept' = {r \in {rpa} : kept # {}}

BootRefuse ==
  /\ ~Usable(rpa)
  /\ mem' = Cleared /\ pc' = "bootClear"
  /\ UNCHANGED kept

Boot ==
  /\ pc = "off"
  /\ BootAccept \/ BootRefuse
  /\ unsaved' = FALSE
  /\ UNCHANGED <<rpa, copying>>

\* Seeded bug: clear() for clearStorageRecord().
BootClearObject ==
  /\ pc = "bootClear"
  /\ pc' = "on"
  /\ UNCHANGED <<mem, rpa, copying, unsaved, kept>>

BootClear ==
  /\ pc = "bootClear"
  /\ \E ok \in BOOLEAN :
       /\ WriteToRpa(ok)
       /\ kept' = IF ok THEN {mem} ELSE kept
  /\ pc' = "on"
  /\ UNCHANGED <<mem, copying>>

-----------------------------------------------------------------------------
(* The calls of CoreDumpManager.                                            *)

\* isInitComplete, which every shell command asks for first.
InitComplete == pc = "on"

\* The first half of a setter.
Assign(t, record) ==
  /\ InitComplete /\ t \notin copying
  /\ mem' = record
  /\ copying' = copying \cup {t}
  /\ kept' = {}
  /\ UNCHANGED <<rpa, pc, unsaved>>

ClearStorageRecord(t)  == Assign(t, Cleared)
SetSRValid(t, valid)   == Assign(t, [mem EXCEPT !.valid = valid])
SetSRVersion(t, right) == Assign(t, [mem EXCEPT !.version = right])

\* setSRState, setSRMode, setSRVolumeSsid, setSRAltVolumeSsid, setSRNetworkPath.
\* A null path returns false and changes nothing.
SetSRField(t, f, value) == Assign(t, [mem EXCEPT !.data[f] = value])

\* The second half: the copy has whatever the object holds by now.
Copy(t) ==
  /\ t \in copying
  /\ \E ok \in BOOLEAN :
       /\ WriteToRpa(ok)
       /\ kept' = IF ok /\ copying = {t} THEN {mem} ELSE {}
  /\ copying' = copying \ {t}
  /\ UNCHANGED <<mem, pc>>

\* setStorageRecord replaces the object and leaves RPA alone.
SetStorageRecord(record) ==
  /\ InitComplete
  /\ mem' = record
  /\ unsaved' = TRUE
  /\ kept' = {}
  /\ UNCHANGED <<rpa, pc, copying>>

-----------------------------------------------------------------------------
(* Resets and power losses.                                                 *)

\* What boots make of a record.  One that is refused for its signature alone comes
\* back if the copy that clears it is torn right behind the signature.
Comeback(r) ==
  IF Usable(r) THEN {r}
  ELSE {Cleared} \cup {c \in {[r EXCEPT !.signature = TRUE]} : Usable(c)}

\* The constructor clears the object.
Reset ==
  /\ pc # "off"
  /\ pc' = "off"
  /\ mem' = Cleared
  /\ copying' = {}
  /\ unsaved' = FALSE
  /\ kept' = UNION {Comeback(r) : r \in kept}
  /\ UNCHANGED rpa

PowerLoss ==
  /\ pc = "off"
  /\ rpa' \in Lost
  /\ kept' = {}
  /\ UNCHANGED <<mem, pc, copying, unsaved>>

-----------------------------------------------------------------------------
Next ==
  \/ Boot \/ BootClear
  \/ \E t \in Tasks :
       \/ ClearStorageRecord(t) \/ Copy(t)
       \/ \E valid \in BOOLEAN : SetSRValid(t, valid)
       \/ \E right \in BOOLEAN : SetSRVersion(t, right)
       \/ \E f \in Fields, value \in Values : SetSRField(t, f, value)
  \/ \E record \in Record : SetStorageRecord(record)
  \/ Reset \/ PowerLoss

Spec == Init /\ [][Next]_vars

-----------------------------------------------------------------------------
(* Properties.                                                              *)

\* Every variable holds values of its type.
TypeOK ==
  /\ mem \in Record /\ rpa \in Record
  /\ pc \in {"off", "bootClear", "on"}
  /\ copying \in SUBSET Tasks
  /\ unsaved \in BOOLEAN
  /\ kept \in SUBSET Record

\* With no call under way, the object and its copy in RPA agree, unless the last
\* copy failed or the object has been replaced behind RPA's back: whichever way
\* the tasks alternate between assigning and copying, none of their fields is
\* left out of the copy.
InSync == pc = "on" /\ copying = {} /\ ~unsaved => rpa = mem

\* A record whose writes were all acknowledged is what the next boots find, over any
\* resets: as it was if it has the signature, the valid flag and the version, and
\* cleared otherwise, though copies that clear it at boot fail and leave parts of it
\* behind.  Only a record that lacked nothing but the signature may come back when its
\* clearing is torn, and then it stays (the end of initialize(), writeToRpa).
RecordSurvives == [][pc = "off" /\ pc' # "off" /\ kept # {} => mem' \in kept]_vars
=============================================================================
