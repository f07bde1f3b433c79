---------------------------- MODULE TempCounters ----------------------------
(***************************************************************************)
(* The temperature log of one battery: bid::LogTemperature and             *)
(* bid::TempCountersAccess.  The battery's EEPROM holds a signature and    *)
(* one counter per temperature range; a periodic task adds one to the      *)
(* counter of the current temperature.  Every step here is one access to   *)
(* the EEPROM over the I2C bus, or one look at m_I2CError: a reset or a    *)
(* command of the service shell may come between two of them.              *)
(*                                                                         *)
(* Left out: m_LogTempImage, which only show() reads; the ASCII digits of  *)
(* a counter; setCounterDft.                                               *)
(***************************************************************************)
EXTENDS Integers

CONSTANTS
  Ranges,        \* LT_RANGES
  CounterMax,    \* LT_COUNTER_VALUE_MAX
  ShellPreempts  \* do shell commands run in the middle of an update?

ASSUME RangesAssumption == Ranges \in Nat \ {0}
ASSUME CounterAssumption == CounterMax \in Nat \ {0}
ASSUME ShellAssumption == ShellPreempts \in BOOLEAN

\* What a counter field may hold besides a number: "INVALID0", other text.
Marked  == -1
Garbage == -2
Field   == Garbage .. CounterMax

Range   == 1 .. Ranges
Tasks   == {"boot", "update", "reinit"}  \* reinit: initialize() within update
Steps   == {"off", "idle", "sign", "judge", "validate", "judgeCounter",
            "markInvalid", "initSign", "initCounters", "read", "markRead", "write"}

VARIABLES
  sign,      \* EEPROM: the signature is valid
  count,     \* EEPROM: the counters
  i2cError,  \* m_I2CError: the outcome of the latest access by anyone
  backup,    \* isInBackupMode()
  pc, task,  \* the step the driver is at, and on whose behalf
  at,        \* the range initialize() is looking at
  range,     \* the range of the temperature being logged
  got,       \* the number getCounter has returned
  logged,    \* ghost: samples written since the counter was last set or cleared
  seen       \* ghost: samples taken, and numbers found or set, up to CounterMax

eeprom == <<sign, count>>
driver == <<backup, pc, task, at, range, got>>
ghosts == <<logged, seen>>
vars   == <<eeprom, i2cError, driver, ghosts>>

isAsciiNumeric(v) == v >= 0

\* A battery that was used elsewhere may come with any content.
Init ==
  /\ sign \in BOOLEAN
  /\ count \in [Range -> Field]
  /\ i2cError = FALSE
  /\ backup = FALSE
  /\ pc = "off" /\ task = "boot"
  /\ at = 1 /\ range = 1 /\ got = 0
  /\ logged = [r \in Range |-> 0]
  /\ seen = [r \in Range |-> IF isAsciiNumeric(count[r]) THEN count[r] ELSE 0]

-----------------------------------------------------------------------------
(* bcmEepromRead and bcmEepromWrite.                                        *)

Access(ok) == i2cError' = ~ok

\* A write that is reported as failed may have reached the EEPROM, in part.
WriteCount(ok, fields, v) ==
  /\ Access(ok)
  /\ \E written \in IF ok THEN {fields} ELSE SUBSET fields :
       count' = [r \in Range |-> IF r \in written THEN v ELSE count[r]]

WriteSign(ok) ==
  /\ Access(ok)
  /\ sign' \in IF ok THEN {TRUE} ELSE {sign, TRUE}

-----------------------------------------------------------------------------
(* Control flow of initialize() and update().                               *)

Goto(step) == pc' = step /\ UNCHANGED <<backup, task, at, range, got>>

\* initialize() returns: to boot, or into the update that has called it and
\* now goes on to count its sample, whatever has become of the region.
Return == Goto(IF task = "reinit" THEN "read" ELSE "idle")

NextRange ==
  IF at < Ranges
  THEN pc' = "validate" /\ at' = at + 1 /\ UNCHANGED <<backup, task, range, got>>
  ELSE Return

\* LogTemperature::initialize: nothing is logged in backup mode.
Boot ==
  /\ pc = "off"
  /\ backup' \in BOOLEAN
  /\ pc' = IF backup' THEN "idle" ELSE "sign"
  /\ task' = "boot"
  /\ UNCHANGED <<eeprom, i2cError, at, range, got, ghosts>>

\* LogTemperature::update with a temperature of range r.
Update(r) ==
  /\ pc = "idle" /\ ~backup
  /\ pc' = "sign" /\ task' = "update" /\ range' = r
  /\ seen' = [seen EXCEPT ![r] = IF @ < CounterMax THEN @ + 1 ELSE @]
  /\ UNCHANGED <<eeprom, i2cError, backup, at, got, logged>>

\* isSignatureValid
ReadSign(ok) ==
  /\ pc = "sign"
  /\ Access(ok)
  /\ IF ~(ok /\ sign) THEN Goto("judge")
     ELSE IF task = "update" THEN Goto("read")
     ELSE pc' = "validate" /\ at' = 1 /\ UNCHANGED <<backup, task, range, got>>
  /\ UNCHANGED <<eeprom, ghosts>>

\* Seeded bug: a signature that cannot be read counts as invalid.
JudgeWithoutError ==
  /\ pc = "judge"
  /\ IF task = "update"
     THEN pc' = "sign" /\ task' = "reinit" /\ UNCHANGED <<backup, at, range, got>>
     ELSE Goto("initSign")
  /\ UNCHANGED <<eeprom, i2cError, ghosts>>

\* Seeded bug: nobody repairs a region whose signature is invalid.
JudgeReturns ==
  /\ pc = "judge"
  /\ Goto("idle")
  /\ UNCHANGED <<eeprom, i2cError, ghosts>>

\* "signature is truly invalid and not because of i2c issue"
Judge ==
  /\ pc = "judge"
  /\ IF i2cError
     THEN IF task = "update" THEN Goto("idle") ELSE Return
     ELSE IF task = "update"
     THEN pc' = "sign" /\ task' = "reinit" /\ UNCHANGED <<backup, at, range, got>>
     ELSE Goto("initSign")
  /\ UNCHANGED <<eeprom, i2cError, ghosts>>

\* isTempCounterValid
Validate(ok) ==
  /\ pc = "validate"
  /\ Access(ok)
  /\ IF ok /\ isAsciiNumeric(count[at]) THEN NextRange ELSE Goto("judgeCounter")
  /\ UNCHANGED <<eeprom, ghosts>>

JudgeCounter ==
  /\ pc = "judgeCounter"
  /\ IF i2cError THEN NextRange ELSE Goto("markInvalid")
  /\ UNCHANGED <<eeprom, i2cError, ghosts>>

\* markError, called by initialize() and by getCounter
MarkError(ok) ==
  /\ \/ pc = "markInvalid" /\ WriteCount(ok, {at}, Marked) /\ NextRange
     \/ pc = "markRead" /\ WriteCount(ok, {range}, Marked) /\ Goto("idle")
  /\ UNCHANGED <<sign, ghosts>>

\* initRegion writes the signature first and the counters afterwards.  The
\* samples logged so far are given up only if the signature was invalid indeed.
InitSign(ok) ==
  /\ pc = "initSign"
  /\ WriteSign(ok)
  /\ logged' = [r \in Range |-> IF sign THEN logged[r] ELSE 0]
  /\ IF ok THEN Goto("initCounters") ELSE Return
  /\ UNCHANGED <<count, seen>>

InitCounters(ok) ==
  /\ pc = "initCounters"
  /\ WriteCount(ok, Range, 0)
  /\ Return
  /\ UNCHANGED <<sign, ghosts>>

\* Seeded bug: a field that is marked counts from zero again.
ReadCounterMarked(ok) ==
  /\ pc = "read"
  /\ Access(ok)
  /\ LET v == IF count[range] = Marked THEN 0 ELSE count[range]
     IN  IF ~ok \/ v = CounterMax THEN Goto("idle")
         ELSE IF v = Garbage THEN Goto("markRead")
         ELSE pc' = "write" /\ got' = v /\ UNCHANGED <<backup, task, at, range>>
  /\ UNCHANGED <<eeprom, ghosts>>

\* Seeded bug: nothing stops a counter at its maximum.
ReadCounterPastMax(ok) ==
  /\ pc = "read"
  /\ Access(ok)
  /\ LET v == count[range]
     IN  IF ~ok \/ v = Marked THEN Goto("idle")
         ELSE IF v = Garbage THEN Goto("markRead")
         ELSE pc' = "write" /\ got' = v /\ UNCHANGED <<backup, task, at, range>>
  /\ UNCHANGED <<eeprom, ghosts>>

\* getCounter.  A counter at its maximum is left alone.
ReadCounter(ok) ==
  /\ pc = "read"
  /\ Access(ok)
  /\ LET v == count[range]
     IN  IF ~ok \/ v \in {Marked, CounterMax} THEN Goto("idle")
         ELSE IF v = Garbage THEN Goto("markRead")
         ELSE pc' = "write" /\ got' = v /\ UNCHANGED <<backup, task, at, range>>
  /\ UNCHANGED <<eeprom, ghosts>>

\* setCounter
SetCounter(ok) ==
  /\ pc = "write"
  /\ WriteCount(ok, {range}, got + 1)
  /\ logged' = [logged EXCEPT ![range] = IF ok THEN @ + 1 ELSE @]
  /\ Goto("idle")
  /\ UNCHANGED <<sign, seen>>

-----------------------------------------------------------------------------
(* The service shell, and resets.                                           *)

Shell == pc = "idle" \/ (ShellPreempts /\ pc # "off")

\* clearCountersDft
ClearCountersDft(ok) ==
  /\ Shell
  /\ WriteCount(ok, Range, 0)
  /\ logged' = [r \in Range |-> 0]
  /\ UNCHANGED <<sign, driver, seen>>

\* clearRegion: initRegion, even in backup mode
ClearRegion(signOk, ok) ==
  /\ Shell
  /\ logged' = [r \in Range |-> 0]
  /\ IF signOk THEN sign' = TRUE /\ WriteCount(ok, Range, 0)
               ELSE WriteSign(FALSE) /\ UNCHANGED count
  /\ UNCHANGED <<driver, seen>>

\* setTempRangeDataDft: any buffer, over the signature or over a counter, which may
\* become a number, a mark or other text.  The update in the middle of which a number
\* is set may add to it or write over it: then `seen' bounds it no longer.
SetSignDft(ok, good) ==
  /\ Shell
  /\ Access(ok)
  /\ sign' \in IF ok THEN {good} ELSE {sign, good}
  /\ UNCHANGED <<count, driver, ghosts>>

SetTempRangeDataDft(ok, r, v) ==
  /\ Shell
  /\ Access(ok)
  /\ \E written \in IF ok THEN {TRUE} ELSE BOOLEAN :
       /\ count' = [count EXCEPT ![r] = IF written THEN v ELSE @]
       /\ IF written /\ isAsciiNumeric(v)
          THEN /\ logged' = [logged EXCEPT ![r] = 0]
               /\ seen' = [seen EXCEPT ![r] = IF pc = "idle" THEN v ELSE CounterMax]
          ELSE UNCHANGED ghosts
  /\ UNCHANGED <<sign, driver>>

\* show(LT_EEPROM_RAW) only reads, but m_I2CError is the driver's as well.
ShowRaw(ok) ==
  /\ Shell
  /\ Access(ok)
  /\ UNCHANGED <<eeprom, driver, ghosts>>

Reset ==
  /\ pc # "off"
  /\ pc' = "off" /\ i2cError' = FALSE
  /\ backup' = FALSE /\ task' = "boot" /\ at' = 1 /\ range' = 1 /\ got' = 0
  /\ UNCHANGED <<eeprom, ghosts>>

-----------------------------------------------------------------------------
DriverNext(ok) ==
  \/ ReadSign(ok) \/ Validate(ok) \/ MarkError(ok) \/ InitSign(ok) \/ InitCounters(ok)
  \/ ReadCounter(ok) \/ SetCounter(ok)
  \/ Judge \/ JudgeCounter

ShellNext ==
  \/ \E ok \in BOOLEAN : ClearCountersDft(ok) \/ ShowRaw(ok)
  \/ \E signOk, ok \in BOOLEAN : ClearRegion(signOk, ok)
  \/ \E ok, good \in BOOLEAN : SetSignDft(ok, good)
  \/ \E ok \in BOOLEAN, r \in Range, v \in Field : SetTempRangeDataDft(ok, r, v)

Next ==
  \/ Boot \/ Reset \/ ShellNext
  \/ \E r \in Range : Update(r)
  \/ \E ok \in BOOLEAN : DriverNext(ok)

Spec == Init /\ [][Next]_vars

\* Updates keep coming, the driver runs on, and neither reading nor writing the
\* signature fails each time it is tried.
FairSpec ==
  /\ Spec
  /\ SF_vars(\E r \in Range : Update(r))
  /\ \A t \in Tasks : SF_vars(task = t /\ ReadSign(TRUE))
  /\ SF_vars(InitSign(TRUE))
  /\ WF_vars(\E ok \in BOOLEAN : DriverNext(ok))

-----------------------------------------------------------------------------
(* Properties.                                                              *)

\* Every variable holds values of its type.
TypeOK ==
  /\ sign \in BOOLEAN /\ count \in [Range -> Field]
  /\ i2cError \in BOOLEAN /\ backup \in BOOLEAN
  /\ pc \in Steps /\ task \in Tasks
  /\ at \in Range /\ range \in Range /\ got \in 0 .. CounterMax - 1
  /\ logged \in [Range -> 0 .. CounterMax] /\ seen \in [Range -> 0 .. CounterMax]

\* A counter that reads as a number has every sample that was written since the
\* counter was last set by command, or cleared by command or for cause, and no sample
\* twice: through lost acknowledgements, resets between two accesses, and signatures
\* that cannot be read for a while.
CountsHonest ==
  \A r \in Range :
    isAsciiNumeric(count[r]) => logged[r] <= count[r] /\ count[r] <= seen[r]

\* What starts a counter afresh: the whole region is, or a command writes over it.
Afresh(r) ==
  \E ok \in BOOLEAN :
    \/ InitCounters(ok) \/ ClearCountersDft(ok) \/ ClearRegion(TRUE, ok)
    \/ \E v \in Field : SetTempRangeDataDft(ok, r, v)

\* "mark error and the value will persist in EEPROM": no update and no boot turns
\* a marked counter back into a number.
MarkPersists ==
  [][ \A r \in Range : count[r] = Marked /\ count'[r] # Marked => Afresh(r) ]_vars

\* "If i2c issue, retry during next update interval": a lost signature comes back
\* in a controller that no longer resets and is not in backup mode.
RegionRepaired == <>[](pc # "off") => (~sign ~> (sign \/ backup))
=============================================================================
