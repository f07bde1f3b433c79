------------------------- MODULE ChargeRecordProofs -------------------------
(***************************************************************************)
(* Theorems about ChargeRecord: for any number of power failures, and, but *)
(* for types, as long as the read at boot does not fail.                   *)
(***************************************************************************)
EXTENDS ChargeRecord, TLAPS

-----------------------------------------------------------------------------
(* The inductive invariant.                                                 *)

\* The backup boot that has begun is not counted yet.
Pending == backup /\ pc \in {"readRegion", "judge", "incrementBackup"}

\* A count never exceeds the backup boots there were.
BoundInv ==
  /\ pc = "incrementBackup" => backup
  /\ \A n \in {eeprom.backups, image.backups, due, lost} :
       n <= boots /\ (Pending => n + 1 <= boots)

\* Once the record has been read, what the image says can be written back: it is
\* no older than the EEPROM, and claims no boot that did not happen.
ImageInv ==
  kept /\ pc \in {"judge", "incrementBackup", "idle"} =>
    /\ image.signed /\ image.installed
    /\ eeprom.backups <= image.backups /\ image.backups <= due

\* Judge takes a record for unsigned only if it has been read.
JudgeInv == pc = "judge" => ~i2cError

IInv ==
  TypeOK /\ InstallationKept /\ PowerCyclesCounted /\ BoundInv /\ ImageInv /\ JudgeInv

-----------------------------------------------------------------------------
(* The images that are written.                                             *)

LEMMA RecordFacts ==
  /\ Zeroed \in Record /\ Zeroed.backups = 0
  /\ Signed \in Record /\ Signed.backups = 0
  /\ \A rec \in Record : /\ rec.backups \in 0 .. MaxBackups /\ rec.signed \in BOOLEAN
                         /\ [rec EXCEPT !.installed = TRUE] \in Record
  /\ \A rec \in Record : rec.backups < MaxBackups => [rec EXCEPT !.backups = @ + 1] \in Record
<1>1. /\ Zeroed \in Record /\ Zeroed.backups = 0
      /\ Signed \in Record /\ Signed.backups = 0
  <2>1. 0 \in 0 .. MaxBackups
    BY BackupsAssumption
  <2>2. Zeroed \in Record /\ Zeroed.backups = 0
    BY <2>1 DEF Zeroed, Record
  <2>3. Signed \in Record /\ Signed.backups = Zeroed.backups
    BY <2>2 DEF Signed, Record
  <2> QED
    BY <2>2, <2>3
<1>2. ASSUME NEW rec \in Record
      PROVE  /\ rec.backups \in 0 .. MaxBackups /\ rec.signed \in BOOLEAN
             /\ [rec EXCEPT !.installed = TRUE] \in Record
  BY DEF Record
<1>3. ASSUME NEW rec \in Record, rec.backups < MaxBackups
      PROVE  [rec EXCEPT !.backups = @ + 1] \in Record
  <2>1. rec.backups + 1 \in 0 .. MaxBackups
    <3>1. rec.backups \in 0 .. MaxBackups
      BY <1>3 DEF Record
    <3> QED
      BY <1>3, <3>1, BackupsAssumption
  <2> QED
    BY <2>1 DEF Record
<1> QED
  BY <1>1, <1>2, <1>3

LEMMA IInvInit == Init => IInv
<1> SUFFICES ASSUME Init PROVE IInv
  OBVIOUS
<1>1. /\ eeprom \in Record /\ eeprom.backups = 0 /\ image \in Record /\ image.backups = 0
      /\ pc = "off" /\ ~kept /\ ~backup /\ ~i2cError /\ due = 0 /\ lost = 0 /\ boots = 0
      /\ i2cError = FALSE /\ backup = FALSE /\ kept = FALSE
  BY RecordFacts DEF Init
<1>2. TypeOK
  <2>1. 0 \in 0 .. MaxBackups
    BY BackupsAssumption
  <2> QED
    BY <1>1, <2>1 DEF TypeOK
<1>3. BoundInv
  BY <1>1 DEF BoundInv, Pending
<1> QED
  BY <1>1, <1>2, <1>3 DEF IInv, InstallationKept, PowerCyclesCounted, ImageInv, JudgeInv

-----------------------------------------------------------------------------
(* Types, also after a read that has failed: no count can pass the number of *)
(* backup boots, because each boot is counted at most once.                  *)

\* A write of an image that claims no boot which has not been counted yet.
LEMMA TypeWrite ==
  ASSUME TypeOK, BoundInv, NEW ok \in BOOLEAN, NEW rec \in Record, Write(ok, rec),
         rec.backups = image.backups \/ rec.backups = 0
  PROVE  /\ eeprom' \in Record /\ image' \in Record /\ i2cError' \in BOOLEAN
         /\ \A n \in {eeprom'.backups, image'.backups} :
              n <= boots /\ (Pending => n + 1 <= boots)
<1>1. /\ image' = rec /\ eeprom' \in {eeprom, rec} /\ i2cError' \in BOOLEAN
      /\ eeprom \in Record
  BY DEF Write, TypeOK
<1>2. rec.backups <= boots /\ (Pending => rec.backups + 1 <= boots)
  <2>1. /\ image.backups \in 0 .. MaxBackups /\ boots \in 0 .. MaxBackups
    BY RecordFacts DEF TypeOK
  <2>2. /\ image.backups <= boots /\ (Pending => image.backups + 1 <= boots)
        /\ Pending => due + 1 <= boots
    BY DEF BoundInv
  <2>3. due \in 0 .. MaxBackups
    BY DEF TypeOK
  <2> QED
    BY <2>1, <2>2, <2>3, BackupsAssumption
<1>3. eeprom.backups <= boots /\ (Pending => eeprom.backups + 1 <= boots)
  BY DEF BoundInv
<1> QED
  BY <1>1, <1>2, <1>3

LEMMA TypeNext == TypeOK /\ BoundInv /\ [Next]_vars => (TypeOK /\ BoundInv)'
<1> SUFFICES ASSUME TypeOK, BoundInv, [Next]_vars PROVE (TypeOK /\ BoundInv)'
  OBVIOUS
<1>a. /\ eeprom \in Record /\ image \in Record
      /\ eeprom.backups \in 0 .. MaxBackups /\ image.backups \in 0 .. MaxBackups
      /\ due \in 0 .. MaxBackups /\ lost \in 0 .. MaxBackups /\ boots \in 0 .. MaxBackups
  BY RecordFacts DEF TypeOK
<1>1. CASE Boot
  <2>1. /\ pc = "off" /\ pc' = "readRegion" /\ backup' \in BOOLEAN
        /\ boots' = IF backup' THEN boots + 1 ELSE boots
        /\ (backup' => boots < MaxBackups)
        /\ UNCHANGED <<eeprom, image, i2cError, kept, due, lost>>
    BY <1>1 DEF Boot, Goto, ghosts
  <2>2. TypeOK'
    BY <1>a, <2>1, BackupsAssumption DEF TypeOK
  <2>3. BoundInv'
    BY <1>a, <2>1, BackupsAssumption DEF BoundInv, Pending
  <2> QED
    BY <2>2, <2>3
<1>2. CASE Reset
  <2>1. /\ pc' = "off" /\ image' = Zeroed /\ i2cError' = FALSE /\ backup' = FALSE
        /\ UNCHANGED <<eeprom, kept, due, lost, boots>>
    BY <1>2 DEF Reset, Goto, ghosts
  <2>2. TypeOK'
    BY <1>a, <2>1, RecordFacts DEF TypeOK
  <2>3. BoundInv'
    BY <1>a, <2>1, RecordFacts DEF BoundInv, Pending
  <2> QED
    BY <2>2, <2>3
<1>3. ASSUME NEW ok \in BOOLEAN, ReadRegion(ok) PROVE (TypeOK /\ BoundInv)'
  <2>1. /\ pc = "readRegion" /\ pc' = "judge" /\ i2cError' \in BOOLEAN
        /\ image' \in {eeprom, Zeroed}
        /\ UNCHANGED <<eeprom, backup, kept, due, lost, boots>>
    BY <1>3 DEF ReadRegion, Goto, ghosts
  <2>2. TypeOK'
    BY <1>a, <2>1, RecordFacts DEF TypeOK
  <2>3. image'.backups = eeprom.backups \/ image'.backups = 0
    BY <2>1, RecordFacts
  <2>4. Pending => 0 + 1 <= boots
    BY <1>a, BackupsAssumption DEF BoundInv
  <2>5. BoundInv'
    BY <1>a, <2>1, <2>3, <2>4, BackupsAssumption DEF BoundInv, Pending
  <2> QED
    BY <2>2, <2>5
<1>4. ASSUME NEW ok \in BOOLEAN, NEW rec \in Record, Write(ok, rec),
             rec.backups = image.backups \/ rec.backups = 0,
             UNCHANGED <<backup, due, lost, boots>>, kept' \in BOOLEAN,
             pc \in {"judge", "idle"},
             pc' = "idle" \/ (pc = "judge" /\ backup /\ pc' = "incrementBackup")
      PROVE  (TypeOK /\ BoundInv)'
  BY <1>4, TypeWrite DEF TypeOK, BoundInv, Pending
<1>5. ASSUME NEW ok \in BOOLEAN, Judge(ok) PROVE (TypeOK /\ BoundInv)'
  <2>1. /\ pc = "judge" /\ UNCHANGED <<backup, kept, due, lost, boots>>
        /\ pc' = IF backup THEN "incrementBackup" ELSE "idle"
    BY <1>5 DEF Judge, Goto, ghosts
  <2>2. CASE UNCHANGED <<eeprom, image, i2cError>>
    BY <2>1, <2>2 DEF TypeOK, BoundInv, Pending
  <2>3. CASE Write(ok, Signed)
    <3>1. kept' \in BOOLEAN
      BY <2>1 DEF TypeOK
    <3> QED
      BY <1>4, <2>1, <2>3, <3>1, RecordFacts
  <2> QED
    BY <1>5, <2>2, <2>3 DEF Judge
<1>6. ASSUME NEW ok \in BOOLEAN, IncrementBackup(ok) PROVE (TypeOK /\ BoundInv)'
  <2> DEFINE rec == [image EXCEPT !.backups = @ + 1]
  <2>1. /\ pc = "incrementBackup" /\ pc' = "idle" /\ UNCHANGED <<backup, kept, boots>>
        /\ image' = rec /\ i2cError' \in BOOLEAN /\ eeprom' \in {eeprom, rec}
        /\ due' \in {due, due + 1} /\ lost' \in {lost, lost + 1}
    BY <1>6 DEF IncrementBackup, Write, Goto
  <2>2. /\ eeprom.backups + 1 <= boots /\ image.backups + 1 <= boots
        /\ due + 1 <= boots /\ lost + 1 <= boots
    BY <2>1 DEF BoundInv, Pending
  <2>3. rec \in Record
    BY <1>a, <2>2, RecordFacts, BackupsAssumption
  <2>4. rec.backups = image.backups + 1
    BY <1>a DEF Record
  <2> HIDE DEF rec
  <2>5. TypeOK'
    BY <1>a, <2>1, <2>2, <2>3, BackupsAssumption DEF TypeOK
  <2>6. BoundInv'
    BY <1>a, <2>1, <2>2, <2>4, BackupsAssumption DEF BoundInv, Pending
  <2> QED
    BY <2>5, <2>6
<1>7. ASSUME NEW ok \in BOOLEAN, SetInstallationTime(ok) PROVE (TypeOK /\ BoundInv)'
  <2> DEFINE rec == [image EXCEPT !.installed = TRUE]
  <2>1. /\ pc = "idle" /\ Write(ok, rec) /\ UNCHANGED <<backup, pc, boots>>
        /\ \/ kept' = TRUE /\ due' = image.backups /\ lost' = 0
           \/ UNCHANGED <<kept, due, lost>>
    BY <1>7 DEF SetInstallationTime, ghosts
  <2>2. rec \in Record
    BY <1>a, RecordFacts
  <2>3. rec.backups = image.backups
    BY <1>a DEF Record
  <2> HIDE DEF rec
  <2>4. /\ eeprom' \in Record /\ image' \in Record /\ i2cError' \in BOOLEAN
        /\ eeprom'.backups <= boots /\ image'.backups <= boots
    BY <2>1, <2>2, <2>3, TypeWrite
  <2>5. /\ kept' \in BOOLEAN /\ due' \in 0 .. MaxBackups /\ lost' \in 0 .. MaxBackups
        /\ due' <= boots /\ lost' <= boots
    <3>1. image.backups <= boots /\ due <= boots /\ lost <= boots
      BY DEF BoundInv
    <3>2. CASE UNCHANGED <<kept, due, lost>>
      BY <3>1, <3>2 DEF TypeOK
    <3>3. CASE kept' = TRUE /\ due' = image.backups /\ lost' = 0
      BY <1>a, <3>1, <3>3, BackupsAssumption
    <3> QED
      BY <2>1, <3>2, <3>3
  <2> QED
    BY <2>1, <2>4, <2>5 DEF TypeOK, BoundInv, Pending
<1>8. ASSUME NEW ok \in BOOLEAN,
             SetLastSleptTime(ok) \/ SetLearnCycleComplete(ok) \/ ClearRegion(ok)
      PROVE  (TypeOK /\ BoundInv)'
  <2>1. /\ pc = "idle" /\ pc' = "idle" /\ kept' \in BOOLEAN
        /\ Write(ok, image) \/ Write(ok, Zeroed)
        /\ UNCHANGED <<backup, due, lost, boots>>
    BY <1>8 DEF SetLastSleptTime, SetLearnCycleComplete, ClearRegion, ghosts, TypeOK
  <2> QED
    BY <1>a, <1>4, <2>1, RecordFacts
<1>9. CASE UNCHANGED vars
  BY <1>9 DEF vars, ghosts, TypeOK, BoundInv, Pending
<1> QED
  BY <1>1, <1>2, <1>3, <1>5, <1>6, <1>7, <1>8, <1>9 DEF Next

\* Whether or not the read at boot succeeds, every variable keeps its type: above
\* all, no count in the record passes the backup boots there were.
THEOREM TypeCorrect == Spec => [](TypeOK /\ BoundInv)
<1>1. Init => TypeOK /\ BoundInv
  BY IInvInit DEF IInv
<1> QED
  BY <1>1, TypeNext, PTL DEF Spec

-----------------------------------------------------------------------------
(* The writes of a record that can be trusted.                              *)

\* An image whose counters only agree with the boots there were, and which keeps
\* what the record has on an installation, may be written at any time.
LEMMA WriteStep ==
  ASSUME IInv, NEW ok \in BOOLEAN, NEW rec \in Record, Write(ok, rec),
         UNCHANGED <<backup, ghosts, boots>>,
         pc \in {"judge", "idle"},
         pc' = "idle" \/ (pc = "judge" /\ backup /\ pc' = "incrementBackup"),
         rec.backups = image.backups \/ rec.backups = 0,
         kept => rec.backups = image.backups /\ rec.signed /\ rec.installed
  PROVE  IInv'
<1>1. /\ image' = rec /\ i2cError' \in BOOLEAN /\ eeprom' \in {eeprom, rec}
      /\ eeprom \in Record /\ image \in Record /\ eeprom' \in Record
      /\ UNCHANGED <<kept, due, lost>>
  BY DEF Write, IInv, TypeOK, ghosts
<1>2. /\ rec.backups \in 0 .. MaxBackups /\ eeprom.backups \in 0 .. MaxBackups
      /\ image.backups \in 0 .. MaxBackups
      /\ due \in 0 .. MaxBackups /\ lost \in 0 .. MaxBackups /\ boots \in 0 .. MaxBackups
  BY <1>1, RecordFacts DEF IInv, TypeOK
<1>3. TypeOK'
  BY <1>1 DEF IInv, TypeOK
<1>4. InstallationKept'
  BY <1>1 DEF IInv, InstallationKept
<1>5. kept => /\ eeprom.backups <= image.backups /\ image.backups <= due
              /\ due <= eeprom.backups + lost
  BY DEF IInv, ImageInv, PowerCyclesCounted
<1>6. PowerCyclesCounted'
  BY <1>1, <1>2, <1>5, BackupsAssumption DEF PowerCyclesCounted
<1>7. BoundInv'
  BY <1>1, <1>2, BackupsAssumption DEF IInv, BoundInv, Pending
<1>8. ImageInv'
  BY <1>1, <1>2, <1>5, BackupsAssumption DEF ImageInv
<1> QED
  BY <1>3, <1>4, <1>6, <1>7, <1>8 DEF IInv, JudgeInv

\* The increment of a backup boot, whether its write arrives or not.
LEMMA IncrementStep ==
  ASSUME IInv, NEW ok \in BOOLEAN, IncrementBackup(ok) PROVE IInv'
<1> DEFINE rec == [image EXCEPT !.backups = @ + 1]
<1>1. /\ pc = "incrementBackup" /\ pc' = "idle" /\ UNCHANGED <<backup, kept, boots>>
      /\ image' = rec /\ i2cError' = ~ok /\ eeprom' \in IF ok THEN {rec} ELSE {eeprom, rec}
      /\ due' = IF kept THEN due + 1 ELSE due
      /\ lost' = IF kept /\ ~ok THEN lost + 1 ELSE lost
  BY DEF IncrementBackup, Write, Goto
<1>2. /\ eeprom.backups \in 0 .. MaxBackups /\ image.backups \in 0 .. MaxBackups
      /\ due \in 0 .. MaxBackups /\ lost \in 0 .. MaxBackups /\ boots \in 0 .. MaxBackups
      /\ eeprom \in Record /\ image \in Record
  BY RecordFacts DEF IInv, TypeOK
<1>3. /\ eeprom.backups + 1 <= boots /\ image.backups + 1 <= boots
      /\ due + 1 <= boots /\ lost + 1 <= boots
  BY <1>1 DEF IInv, BoundInv, Pending
<1>4. rec \in Record
  BY <1>2, <1>3, RecordFacts, BackupsAssumption
<1>5. /\ rec.backups = image.backups + 1
      /\ rec.signed = image.signed /\ rec.installed = image.installed
  BY <1>2 DEF Record
<1> HIDE DEF rec
<1>6. TypeOK'
  BY <1>1, <1>2, <1>3, <1>4, BackupsAssumption DEF IInv, TypeOK
<1>7. kept => /\ image.signed /\ image.installed
              /\ eeprom.backups <= image.backups /\ image.backups <= due
              /\ due <= eeprom.backups + lost
  BY <1>1 DEF IInv, ImageInv, PowerCyclesCounted
<1>8. InstallationKept'
  BY <1>1, <1>5, <1>7 DEF IInv, InstallationKept
<1>9. PowerCyclesCounted' /\ ImageInv'
  BY <1>1, <1>2, <1>5, <1>7, BackupsAssumption DEF PowerCyclesCounted, ImageInv
<1>10. BoundInv'
  BY <1>1, <1>2, <1>3, <1>5, BackupsAssumption DEF BoundInv, Pending
<1> QED
  BY <1>1, <1>6, <1>8, <1>9, <1>10 DEF IInv, JudgeInv

\* The installation goes on record: from here on the image's count is due.
LEMMA InstallStep ==
  ASSUME IInv, NEW ok \in BOOLEAN, SetInstallationTime(ok) PROVE IInv'
<1> DEFINE rec == [image EXCEPT !.installed = TRUE]
<1>1. /\ pc = "idle" /\ image.signed /\ Write(ok, rec) /\ UNCHANGED <<backup, pc, boots>>
      /\ IF ok /\ ~kept
         THEN kept' = TRUE /\ due' = image.backups /\ lost' = 0
         ELSE UNCHANGED ghosts
  BY DEF SetInstallationTime
<1>2. image \in Record /\ rec \in Record
  BY RecordFacts DEF IInv, TypeOK
<1>3. /\ rec.backups = image.backups /\ rec.signed = image.signed /\ rec.installed = TRUE
  BY <1>2 DEF Record
<1> HIDE DEF rec
<1>4. CASE ~(ok /\ ~kept)
  <2>1. UNCHANGED <<backup, ghosts, boots>>
    BY <1>1, <1>4
  <2> QED
    BY <1>1, <1>2, <1>3, <2>1, WriteStep
<1>5. CASE ok /\ ~kept
  <2>1. /\ eeprom' = rec /\ image' = rec /\ i2cError' = FALSE
        /\ kept' = TRUE /\ due' = image.backups /\ lost' = 0
    BY <1>1, <1>5 DEF Write
  <2>2. image.backups \in 0 .. MaxBackups /\ boots \in 0 .. MaxBackups
        /\ image.backups <= boots /\ 0 <= boots
    <3>1. image.backups \in 0 .. MaxBackups /\ boots \in 0 .. MaxBackups
      BY <1>2, RecordFacts DEF IInv, TypeOK
    <3>2. image.backups <= boots
      BY DEF IInv, BoundInv
    <3> QED
      BY <3>1, <3>2, BackupsAssumption
  <2>3. TypeOK'
    <3>1. 0 \in 0 .. MaxBackups
      BY BackupsAssumption
    <3>2. UNCHANGED <<backup, pc, boots>>
      BY <1>1
    <3> QED
      BY <1>2, <2>1, <2>2, <3>1, <3>2 DEF IInv, TypeOK
  <2>4. InstallationKept' /\ JudgeInv'
    BY <1>1, <1>3, <2>1 DEF InstallationKept, JudgeInv
  <2>5. PowerCyclesCounted' /\ ImageInv'
    <3>1. eeprom'.backups = image.backups /\ image'.backups = image.backups
          /\ image'.signed /\ image'.installed
      BY <1>1, <1>3, <2>1
    <3>2. image.backups <= image.backups /\ image.backups <= image.backups + 0
      BY <2>2
    <3> QED
      BY <2>1, <3>1, <3>2 DEF PowerCyclesCounted, ImageInv
  <2>6. BoundInv'
    BY <1>1, <1>3, <2>1, <2>2 DEF BoundInv, Pending
  <2> QED
    BY <2>3, <2>4, <2>5, <2>6 DEF IInv
<1> QED
  BY <1>4, <1>5

-----------------------------------------------------------------------------
(* Steps.                                                                   *)

LEMMA IInvNext == ~ReadFails /\ IInv /\ [Next]_vars => IInv'
<1> SUFFICES ASSUME ~ReadFails, IInv, [Next]_vars PROVE IInv'
  OBVIOUS
<1>a. /\ TypeOK /\ eeprom \in Record /\ image \in Record
      /\ eeprom.backups \in 0 .. MaxBackups /\ image.backups \in 0 .. MaxBackups
      /\ due \in 0 .. MaxBackups /\ lost \in 0 .. MaxBackups /\ boots \in 0 .. MaxBackups
  BY RecordFacts DEF IInv, TypeOK
<1>1. CASE Boot
  <2>1. /\ pc = "off" /\ pc' = "readRegion" /\ backup' \in BOOLEAN
        /\ boots' = IF backup' THEN boots + 1 ELSE boots
        /\ (backup' => boots < MaxBackups)
        /\ UNCHANGED <<eeprom, image, i2cError, kept, due, lost>>
    BY <1>1 DEF Boot, Goto, ghosts
  <2>2. TypeOK'
    BY <1>a, <2>1, BackupsAssumption DEF TypeOK
  <2>3. BoundInv'
    BY <1>a, <2>1, BackupsAssumption DEF IInv, BoundInv, Pending
  <2> QED
    BY <2>1, <2>2, <2>3 DEF IInv, InstallationKept, PowerCyclesCounted, ImageInv, JudgeInv
<1>2. CASE Reset
  <2>1. /\ pc' = "off" /\ image' = Zeroed /\ i2cError' = FALSE /\ backup' = FALSE
        /\ UNCHANGED <<eeprom, kept, due, lost, boots>>
    BY <1>2 DEF Reset, Goto, ghosts
  <2>2. TypeOK'
    BY <1>a, <2>1, RecordFacts DEF TypeOK
  <2>3. BoundInv'
    BY <1>a, <2>1, RecordFacts DEF IInv, BoundInv, Pending
  <2> QED
    BY <2>1, <2>2, <2>3 DEF IInv, InstallationKept, PowerCyclesCounted, ImageInv, JudgeInv
<1>3. ASSUME NEW ok \in BOOLEAN, ReadRegion(ok) PROVE IInv'
  <2>1. /\ pc = "readRegion" /\ pc' = "judge" /\ image' = eeprom /\ i2cError' = FALSE
        /\ UNCHANGED <<eeprom, backup, kept, due, lost, boots>>
    BY <1>3 DEF ReadRegion, Goto, ghosts
  <2>2. TypeOK'
    BY <1>a, <2>1 DEF TypeOK
  <2>3. BoundInv'
    BY <2>1 DEF IInv, BoundInv, Pending
  <2>4. ImageInv'
    BY <1>a, <2>1 DEF IInv, InstallationKept, PowerCyclesCounted, ImageInv
  <2> QED
    BY <2>1, <2>2, <2>3, <2>4 DEF IInv, InstallationKept, PowerCyclesCounted, JudgeInv
<1>4. ASSUME NEW ok \in BOOLEAN, Judge(ok) PROVE IInv'
  <2>1. /\ pc = "judge" /\ ~i2cError /\ UNCHANGED <<backup, ghosts, boots>>
        /\ pc' = IF backup THEN "incrementBackup" ELSE "idle"
    BY <1>4 DEF Judge, Goto, IInv, JudgeInv
  <2>2. CASE image.signed
    <3>1. UNCHANGED <<eeprom, image, i2cError>>
      BY <1>4, <2>2 DEF Judge
    <3>2. TypeOK'
      BY <1>a, <2>1, <3>1 DEF TypeOK, ghosts
    <3>3. BoundInv'
      BY <2>1, <3>1 DEF IInv, BoundInv, Pending, ghosts
    <3> QED
      BY <2>1, <3>1, <3>2, <3>3
         DEF IInv, InstallationKept, PowerCyclesCounted, ImageInv, JudgeInv, ghosts
  <2>3. CASE ~image.signed
    <3>1. Write(ok, Signed) /\ ~kept
      BY <1>4, <2>1, <2>3 DEF Judge, IInv, ImageInv
    <3> QED
      BY <2>1, <3>1, RecordFacts, WriteStep, <1>a DEF TypeOK
  <2> QED
    BY <2>2, <2>3
<1>5. ASSUME NEW ok \in BOOLEAN, IncrementBackup(ok) PROVE IInv'
  BY <1>5, IncrementStep
<1>6. ASSUME NEW ok \in BOOLEAN, SetInstallationTime(ok) PROVE IInv'
  BY <1>6, InstallStep
<1>7. ASSUME NEW ok \in BOOLEAN, SetLastSleptTime(ok) \/ SetLearnCycleComplete(ok) PROVE IInv'
  <2>1. pc = "idle" /\ pc' = "idle" /\ Write(ok, image) /\ UNCHANGED <<backup, ghosts, boots>>
    BY <1>7 DEF SetLastSleptTime, SetLearnCycleComplete
  <2>2. kept => image.signed /\ image.installed
    BY <2>1 DEF IInv, ImageInv
  <2> QED
    BY <1>a, <2>1, <2>2, WriteStep
<1>8. ASSUME NEW ok \in BOOLEAN, ClearRegion(ok) PROVE IInv'
  <2>1. /\ pc = "idle" /\ pc' = "idle" /\ kept' = FALSE /\ image' = Zeroed
        /\ i2cError' = ~ok /\ eeprom' \in {eeprom, Zeroed}
        /\ UNCHANGED <<backup, due, lost, boots>>
    BY <1>8 DEF ClearRegion, Write
  <2>2. TypeOK'
    BY <1>a, <2>1, RecordFacts DEF TypeOK
  <2>3. BoundInv'
    BY <1>a, <2>1, RecordFacts DEF IInv, BoundInv, Pending
  <2> QED
    BY <2>1, <2>2, <2>3 DEF IInv, InstallationKept, PowerCyclesCounted, ImageInv, JudgeInv
<1>9. CASE UNCHANGED vars
  BY <1>9 DEF vars, ghosts, IInv, TypeOK, InstallationKept, PowerCyclesCounted, BoundInv,
              ImageInv, JudgeInv, Pending
<1> QED
  BY <1>1, <1>2, <1>3, <1>4, <1>5, <1>6, <1>7, <1>8, <1>9 DEF Next

\* If the read at boot succeeds, an installation stays on record through resets
\* and failed writes.
THEOREM InstallationStays ==
  ASSUME ~ReadFails
  PROVE  Spec => []InstallationKept
<1>1. IInv => InstallationKept
  BY DEF IInv
<1>2. IInv /\ [Next]_vars => IInv'
  BY IInvNext
<1> QED
  BY <1>1, <1>2, IInvInit, PTL DEF Spec

\* ... and every power failure is counted once, but for those whose own write
\* was reported as failed.
THEOREM PowerCyclesStayCounted ==
  ASSUME ~ReadFails
  PROVE  Spec => []PowerCyclesCounted
<1>1. IInv => PowerCyclesCounted
  BY DEF IInv
<1>2. IInv /\ [Next]_vars => IInv'
  BY IInvNext
<1> QED
  BY <1>1, <1>2, IInvInit, PTL DEF Spec

=============================================================================
