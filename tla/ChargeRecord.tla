---------------------------- MODULE ChargeRecord ----------------------------
(***************************************************************************)
(* The charge record of a battery: bid::ChargeRecord and                   *)
(* bid::ChargeRecordAccess.  The battery's EEPROM holds a signed record of *)
(* when the battery was installed, its learn cycles, and how many times it *)
(* has carried the controller through a power failure.  The driver reads   *)
(* the record once per boot into an image; every change is made in the     *)
(* image, and then the whole image is written back.                        *)
(*                                                                         *)
(* The times of learn cycles and of the last sleep are left out: whoever   *)
(* writes them writes the whole image.                                     *)
(***************************************************************************)
EXTENDS Naturals

CONSTANTS
  ReadFails,  \* may the read at boot fail?
  MaxBackups  \* bound: backup boots

ASSUME ReadAssumption == ReadFails \in BOOLEAN
ASSUME BackupsAssumption == MaxBackups \in Nat

\* Signature and version together, and what the properties ask about.
Record == [signed : BOOLEAN, installed : BOOLEAN, backups : 0 .. MaxBackups]

Zeroed == [signed |-> FALSE, installed |-> FALSE, backups |-> 0]
Signed == [Zeroed EXCEPT !.signed = TRUE]

VARIABLES
  eeprom,    \* the record in the EEPROM
  image,     \* m_BidChargeRecordImage
  i2cError,  \* m_I2CError
  backup,    \* isInBackupMode()
  pc,        \* step of initialize(), "idle" or "off"
  kept,      \* ghost: an installation is on record, and nobody has cleared it
  due,       \* ghost: what the record should count: backup boots and earlier ones
  lost,      \* ghost: backup boots whose write was reported as failed
  boots      \* ghost: backup boots so far

ghosts == <<kept, due, lost>>
vars   == <<eeprom, image, i2cError, backup, pc, ghosts, boots>>

Init ==
  /\ eeprom \in {Zeroed, Signed}
  /\ image = Zeroed
  /\ i2cError = FALSE /\ backup = FALSE
  /\ pc = "off"
  /\ kept = FALSE
  /\ due = 0 /\ lost = 0 /\ boots = 0

-----------------------------------------------------------------------------
\* bcmEepromWrite of a whole image.  A write that is reported as failed may have
\* reached the EEPROM or not.
Write(ok, rec) ==
  /\ image' = rec
  /\ i2cError' = ~ok
  /\ eeprom' \in IF ok THEN {rec} ELSE {eeprom, rec}

Goto(step) == pc' = step

-----------------------------------------------------------------------------
(* ChargeRecordAccess::initialize, once per boot.                           *)

Boot ==
  /\ pc = "off"
  /\ Goto("readRegion")
  /\ backup' \in IF boots < MaxBackups THEN BOOLEAN ELSE {FALSE}
  /\ boots' = IF backup' THEN boots + 1 ELSE boots
  /\ UNCHANGED <<eeprom, image, i2cError, ghosts>>

\* readRegion: the image is zeroed, then read.
ReadRegion(ok) ==
  /\ pc = "readRegion"
  /\ ok \/ ReadFails
  /\ image' = IF ok THEN eeprom ELSE Zeroed
  /\ i2cError' = ~ok
  /\ Goto("judge")
  /\ UNCHANGED <<eeprom, backup, ghosts, boots>>

\* Seeded bug: a record that can be read is initialized, valid or not.
JudgeUnsigned(ok) ==
  /\ pc = "judge"
  /\ IF i2cError
     THEN UNCHANGED <<eeprom, image, i2cError>>
     ELSE Write(ok, Signed)
  /\ Goto(IF backup THEN "incrementBackup" ELSE "idle")
  /\ UNCHANGED <<backup, ghosts, boots>>

\* initRegion unless the record is valid or could not be read.
Judge(ok) ==
  /\ pc = "judge"
  /\ IF image.signed \/ i2cError
     THEN UNCHANGED <<eeprom, image, i2cError>>
     ELSE Write(ok, Signed)
  /\ Goto(IF backup THEN "incrementBackup" ELSE "idle")
  /\ UNCHANGED <<backup, ghosts, boots>>

\* Seeded bug: a failed write is tried again, with another increment.
IncrementBackupAgain(ok) ==
  /\ pc = "incrementBackup"
  /\ Write(ok, [image EXCEPT !.backups = @ + 1])
  /\ due' = IF kept THEN due + 1 ELSE due
  /\ lost' = IF kept /\ ~ok THEN lost + 1 ELSE lost
  /\ Goto(IF ok THEN "idle" ELSE "incrementBackup")
  /\ UNCHANGED <<backup, kept, boots>>

\* incrementBackup checks neither the signature nor the read before it.
IncrementBackup(ok) ==
  /\ pc = "incrementBackup"
  /\ Write(ok, [image EXCEPT !.backups = @ + 1])
  /\ due' = IF kept THEN due + 1 ELSE due
  /\ lost' = IF kept /\ ~ok THEN lost + 1 ELSE lost
  /\ Goto("idle")
  /\ UNCHANGED <<backup, kept, boots>>

-----------------------------------------------------------------------------
(* Calls while the driver runs.                                             *)

\* Seeded bug: the installation starts a new record.
SetInstallationTimeAfresh(ok) ==
  /\ pc = "idle"
  /\ image.signed
  /\ Write(ok, [Signed EXCEPT !.installed = TRUE])
  /\ IF ok /\ ~kept
     THEN kept' = TRUE /\ due' = image.backups /\ lost' = 0
     ELSE UNCHANGED ghosts
  /\ UNCHANGED <<backup, pc, boots>>

SetInstallationTime(ok) ==
  /\ pc = "idle"
  /\ image.signed
  /\ Write(ok, [image EXCEPT !.installed = TRUE])
  /\ IF ok /\ ~kept
     THEN kept' = TRUE /\ due' = image.backups /\ lost' = 0
     ELSE UNCHANGED ghosts
  /\ UNCHANGED <<backup, pc, boots>>

\* setLastSleptTime looks at the signature in the image first.
SetLastSleptTime(ok) ==
  /\ pc = "idle"
  /\ image.signed
  /\ Write(ok, image)
  /\ UNCHANGED <<backup, pc, ghosts, boots>>

\* setLearnCycleComplete does not.
SetLearnCycleComplete(ok) ==
  /\ pc = "idle"
  /\ Write(ok, image)
  /\ UNCHANGED <<backup, pc, ghosts, boots>>

\* clearRegion: initRegion without a signature.
ClearRegion(ok) ==
  /\ pc = "idle"
  /\ Write(ok, Zeroed)
  /\ kept' = FALSE
  /\ UNCHANGED <<backup, pc, due, lost, boots>>

\* A reset, or a power failure, at any point.
Reset ==
  /\ pc # "off"
  /\ Goto("off")
  /\ image' = Zeroed
  /\ i2cError' = FALSE
  /\ backup' = FALSE
  /\ UNCHANGED <<eeprom, ghosts, boots>>

Next ==
  \/ Boot \/ Reset
  \/ \E ok \in BOOLEAN :
       \/ ReadRegion(ok) \/ Judge(ok) \/ IncrementBackup(ok)
       \/ SetInstallationTime(ok) \/ SetLastSleptTime(ok)
       \/ SetLearnCycleComplete(ok) \/ ClearRegion(ok)

Spec == Init /\ [][Next]_vars

-----------------------------------------------------------------------------
(* Properties.                                                              *)

\* Every variable holds values of its type.
TypeOK ==
  /\ eeprom \in Record /\ image \in Record
  /\ i2cError \in BOOLEAN /\ backup \in BOOLEAN
  /\ pc \in {"off", "readRegion", "judge", "incrementBackup", "idle"}
  /\ kept \in BOOLEAN
  /\ due \in 0 .. MaxBackups /\ lost \in 0 .. MaxBackups /\ boots \in 0 .. MaxBackups

\* Once a battery's installation is on record, it stays on record through any
\* resets and failed writes until somebody clears the record.
InstallationKept == kept => eeprom.signed /\ eeprom.installed

\* Each backup boot counts once, or not at all if its own write failed.
\* "This will aid in determing the total number of power cycles": fails after
\* one failed read at boot, when a zeroed image goes back to the EEPROM.
PowerCyclesCounted == kept => eeprom.backups <= due /\ due <= eeprom.backups + lost
=============================================================================
