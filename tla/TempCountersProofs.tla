------------------------- MODULE TempCountersProofs -------------------------
(***************************************************************************)
(* Theorems about TempCounters: for any number of ranges and any limit of  *)
(* the counters, if shell commands wait for an update to be over.          *)
(***************************************************************************)
EXTENDS TempCounters, TLAPS

-----------------------------------------------------------------------------
(* The inductive invariant.                                                 *)

\* From the temperature to the counter: the sample of this update is one that no
\* counter has yet, unless there are too many to tell.
SampleInv ==
  task # "boot" /\ pc \notin {"off", "idle"} =>
    /\ seen[range] >= 1
    /\ isAsciiNumeric(count[range]) =>
         count[range] < seen[range] \/ seen[range] = CounterMax

\* The sample is counted only on behalf of an update.
TaskInv == pc \in {"read", "markRead", "write"} => task # "boot"

\* The number that has been read is still good when it is written back.
WriteInv ==
  pc = "write" =>
    /\ count[range] # Marked
    /\ logged[range] <= got /\ got + 1 <= seen[range]

\* A region is initialized only if its signature is invalid, and its counters are
\* cleared only when nothing that was logged is lost.
RepairInv ==
  /\ pc = "judge" /\ ~i2cError => ~sign
  /\ pc = "initSign" => ~sign
  /\ pc = "initCounters" => \A r \in Range : logged[r] = 0

IInv == TypeOK /\ CountsHonest /\ SampleInv /\ TaskInv /\ WriteInv /\ RepairInv

-----------------------------------------------------------------------------
(* What a write does.                                                       *)

\* A write changes the fields it is about, if any, to the value it is about.
LEMMA WriteCountEffect ==
  ASSUME NEW ok, NEW fields \in SUBSET Range, NEW v \in Field,
         count \in [Range -> Field], WriteCount(ok, fields, v)
  PROVE  /\ count' \in [Range -> Field]
         /\ \A r \in Range : count'[r] = count[r] \/ (r \in fields /\ count'[r] = v)
<1>1. PICK written \in IF ok THEN {fields} ELSE SUBSET fields :
        count' = [r \in Range |-> IF r \in written THEN v ELSE count[r]]
  BY DEF WriteCount
<1>2. written \subseteq fields
  BY <1>1
<1> QED
  BY <1>1, <1>2

\* The values that are written are values of a field.
LEMMA FieldValues ==
  /\ Marked \in Field /\ Garbage \in Field /\ 0 \in Field
  /\ \A n \in 0 .. CounterMax - 1 : n + 1 \in Field
  /\ Field \subseteq Int
  /\ \A v \in Field : isAsciiNumeric(v) <=> v \in 0 .. CounterMax
  /\ ~isAsciiNumeric(Marked) /\ ~isAsciiNumeric(Garbage) /\ Marked # Garbage
  /\ \A n \in Nat : n # Marked /\ n # Garbage
  /\ 1 \in Range
BY CounterAssumption, RangesAssumption
   DEF Field, Marked, Garbage, isAsciiNumeric, Range

\* A counter that is neither marked, unreadable nor full can take one more.
LEMMA CounterValues ==
  ASSUME NEW v \in Field, v # Marked, v # Garbage, v # CounterMax
  PROVE  v \in 0 .. CounterMax - 1
BY CounterAssumption DEF Field, Marked, Garbage

\* Where initialize() goes from one counter.
LEMMA NextRangeEffect ==
  ASSUME at \in Range, NextRange
  PROVE  /\ at' \in Range
         /\ range' = range /\ got' = got /\ task' = task /\ backup' = backup
         /\ pc' \in {"validate", "read", "idle"}
         /\ pc' = "read" => task = "reinit"
<1>1. CASE at < Ranges
  BY <1>1, RangesAssumption DEF NextRange, Range
<1>2. CASE ~(at < Ranges)
  BY <1>2 DEF NextRange, Return, Goto
<1> QED
  BY <1>1, <1>2

-----------------------------------------------------------------------------
(* Counts are honest if the shell waits.                                    *)

LEMMA IInvInit == Init => IInv
<1> SUFFICES ASSUME Init PROVE IInv
  OBVIOUS
<1>1. ASSUME NEW r \in Range
      PROVE  /\ logged[r] = 0 /\ seen[r] \in 0 .. CounterMax
             /\ isAsciiNumeric(count[r]) => 0 <= count[r] /\ seen[r] = count[r]
  <2>1. CASE isAsciiNumeric(count[r])
    <3>1. count[r] \in 0 .. CounterMax
      BY <2>1, FieldValues DEF Init
    <3>2. logged[r] = 0 /\ seen[r] = count[r]
      BY <2>1 DEF Init
    <3> QED
      BY <3>1, <3>2
  <2>2. CASE ~isAsciiNumeric(count[r])
    BY <2>2, CounterAssumption DEF Init
  <2> QED
    BY <2>1, <2>2
<1>2. logged \in [Range -> 0 .. CounterMax] /\ seen \in [Range -> 0 .. CounterMax]
  <2>1. DOMAIN logged = Range /\ DOMAIN seen = Range
    BY DEF Init
  <2>2. \A r \in Range : logged[r] \in 0 .. CounterMax
    BY <1>1, CounterAssumption
  <2>3. logged = [r \in Range |-> logged[r]] /\ seen = [r \in Range |-> seen[r]]
    BY DEF Init
  <2> QED
    BY <1>1, <2>1, <2>2, <2>3
<1>3. TypeOK
  <2>1. sign \in BOOLEAN /\ count \in [Range -> Field] /\ i2cError = FALSE /\ backup = FALSE
        /\ pc = "off" /\ task = "boot" /\ at = 1 /\ range = 1 /\ got = 0
    BY DEF Init
  <2>2. 1 \in Range /\ 0 \in 0 .. CounterMax - 1
    BY FieldValues, CounterAssumption
  <2> QED
    BY <1>2, <2>1, <2>2 DEF TypeOK, Steps, Tasks
<1>4. CountsHonest
  BY <1>1, <1>2, FieldValues DEF Init, CountsHonest
<1> QED
  BY <1>3, <1>4 DEF Init, IInv, SampleInv, TaskInv, WriteInv, RepairInv

\* Reading the parts of the invariant that speak of the range being logged.
LEMMA SampleFacts ==
  ASSUME IInv, task # "boot", pc \notin {"off", "idle"}
  PROVE  seen[range] >= 1 /\ seen[range] \in 0 .. CounterMax /\ logged[range] \in 0 .. CounterMax
BY DEF IInv, SampleInv, TypeOK

\* Steps that change neither a count nor a ghost, and end where nothing has been
\* read for writing.
LEMMA QuietStep ==
  ASSUME IInv, UNCHANGED <<count, ghosts, range, got>>,
         sign' \in BOOLEAN, i2cError' \in BOOLEAN, backup' \in BOOLEAN,
         at' \in Range, task' \in Tasks, pc' \in Steps \ {"write"},
         pc' \notin {"off", "idle"} => task' = task \/ {task, task'} = {"update", "reinit"},
         pc' \notin {"off", "idle"} /\ task' # "boot" => pc \notin {"off", "idle"},
         TaskInv', RepairInv'
  PROVE  IInv'
<1>1. TypeOK'
  BY DEF IInv, TypeOK, ghosts
<1>2. CountsHonest'
  BY DEF IInv, CountsHonest, ghosts
<1>3. SampleInv'
  BY DEF IInv, SampleInv, ghosts
<1>4. WriteInv'
  BY DEF WriteInv
<1> QED
  BY <1>1, <1>2, <1>3, <1>4 DEF IInv

\* Clearing counters between two updates.
LEMMA ClearStep ==
  ASSUME IInv, pc = "idle", UNCHANGED <<driver, seen>>,
         sign' \in BOOLEAN, i2cError' \in BOOLEAN,
         count' \in [Range -> Field],
         \A r \in Range : count'[r] = count[r] \/ count'[r] = 0,
         logged' = [r \in Range |-> 0]
  PROVE  IInv'
<1>1. TypeOK'
  BY CounterAssumption DEF IInv, TypeOK, driver
<1>2. CountsHonest'
  BY FieldValues, CounterAssumption DEF IInv, TypeOK, CountsHonest, isAsciiNumeric
<1> QED
  BY <1>1, <1>2 DEF IInv, SampleInv, TaskInv, WriteInv, RepairInv, driver

\* Marking the field that is being looked at.
LEMMA MarkStep ==
  ASSUME IInv, NEW ok \in BOOLEAN, MarkError(ok) PROVE IInv'
<1>1. PICK r \in Range : WriteCount(ok, {r}, Marked)
  BY DEF MarkError, IInv, TypeOK
<1>2. /\ count' \in [Range -> Field]
      /\ \A q \in Range : count'[q] = count[q] \/ count'[q] = Marked
  <2>1. count \in [Range -> Field] /\ {r} \in SUBSET Range /\ Marked \in Field
    BY FieldValues DEF IInv, TypeOK
  <2> QED
    BY <1>1, <2>1, WriteCountEffect
<1>3. i2cError' \in BOOLEAN
  BY <1>1 DEF WriteCount, Access
<1>4. /\ at' \in Range /\ range' = range /\ got' = got /\ task' = task /\ backup' = backup
      /\ pc' \in {"validate", "read", "idle"} /\ (pc' = "read" => task = "reinit")
      /\ pc \notin {"off", "idle"}
  BY NextRangeEffect DEF MarkError, Goto, IInv, TypeOK
<1>5. TypeOK'
  BY <1>2, <1>3, <1>4 DEF MarkError, ghosts, IInv, TypeOK, Steps
<1>6. CountsHonest'
  BY <1>2, FieldValues DEF MarkError, ghosts, IInv, CountsHonest
<1>7. SampleInv'
  <2>1. range \in Range
    BY DEF IInv, TypeOK
  <2> QED
    BY <1>2, <1>4, <2>1, FieldValues DEF MarkError, ghosts, IInv, SampleInv
<1> QED
  BY <1>4, <1>5, <1>6, <1>7 DEF IInv, TaskInv, WriteInv, RepairInv

\* Clearing the counters of a region that had lost its signature.
LEMMA InitCountersStep ==
  ASSUME IInv, NEW ok \in BOOLEAN, InitCounters(ok) PROVE IInv'
<1>1. /\ count' \in [Range -> Field]
      /\ \A q \in Range : count'[q] = count[q] \/ count'[q] = 0
  <2>1. count \in [Range -> Field] /\ Range \in SUBSET Range /\ 0 \in Field
    BY FieldValues DEF IInv, TypeOK
  <2>2. WriteCount(ok, Range, 0)
    BY DEF InitCounters
  <2> QED
    BY <2>1, <2>2, WriteCountEffect
<1>2. i2cError' \in BOOLEAN
  BY DEF InitCounters, WriteCount, Access
<1>3. /\ UNCHANGED <<sign, ghosts, backup, task, at, range, got>>
      /\ pc = "initCounters" /\ pc' = IF task = "reinit" THEN "read" ELSE "idle"
  BY DEF InitCounters, Return, Goto
<1>4. TypeOK'
  BY <1>1, <1>2, <1>3 DEF ghosts, IInv, TypeOK, Steps
<1>5. CountsHonest'
  BY <1>1, <1>3, CounterAssumption DEF ghosts, IInv, TypeOK, CountsHonest, RepairInv, isAsciiNumeric
<1>6. SampleInv'
  <2>1. range \in Range
    BY DEF IInv, TypeOK
  <2> QED
    BY <1>1, <1>3, <2>1 DEF ghosts, IInv, TypeOK, SampleInv, isAsciiNumeric
<1> QED
  BY <1>3, <1>4, <1>5, <1>6 DEF IInv, TaskInv, WriteInv, RepairInv

\* What getCounter returns is below what the counter is allowed to be.
LEMMA ReadStep ==
  ASSUME IInv, NEW ok \in BOOLEAN, ReadCounter(ok) PROVE IInv'
<1>1. /\ UNCHANGED <<eeprom, ghosts, backup, task, at, range>> /\ i2cError' \in BOOLEAN
      /\ pc = "read" /\ range \in Range /\ count[range] \in Field
  BY DEF ReadCounter, Access, Goto, IInv, TypeOK
<1>2. CASE Goto("idle") \/ Goto("markRead")
  BY <1>1, <1>2, QuietStep DEF Goto, eeprom, ghosts, IInv, TypeOK, Steps, TaskInv, RepairInv
<1>3. CASE pc' = "write" /\ got' = count[range] /\ count[range] \notin {Marked, Garbage, CounterMax}
  <2>1. got' \in 0 .. CounterMax - 1
    BY <1>1, <1>3, CounterValues
  <2>2. logged[range] <= got' /\ got' + 1 <= seen[range]
    <3>1. isAsciiNumeric(count[range])
      BY <1>3, <2>1 DEF isAsciiNumeric
    <3>2. logged[range] <= count[range]
      BY <1>1, <3>1 DEF IInv, CountsHonest
    <3>3. count[range] < seen[range] \/ seen[range] = CounterMax
      BY <1>1, <3>1 DEF IInv, SampleInv, TaskInv
    <3>4. seen[range] \in 0 .. CounterMax
      BY <1>1 DEF IInv, TypeOK
    <3> QED
      BY <1>3, <2>1, <3>2, <3>3, <3>4, CounterAssumption
  <2>3. TypeOK'
    BY <1>1, <1>3, <2>1 DEF eeprom, ghosts, IInv, TypeOK, Steps
  <2>4. CountsHonest'
    BY <1>1 DEF eeprom, ghosts, IInv, CountsHonest
  <2>5. SampleInv' /\ TaskInv'
    BY <1>1 DEF eeprom, ghosts, IInv, SampleInv, TaskInv
  <2>6. WriteInv' /\ RepairInv'
    BY <1>1, <1>3, <2>2 DEF eeprom, ghosts, WriteInv, RepairInv
  <2> QED
    BY <2>3, <2>4, <2>5, <2>6 DEF IInv
<1> QED
  BY <1>2, <1>3 DEF ReadCounter

\* The counter that is written is one more than what was logged, and no more
\* than what was seen.
LEMMA SetStep ==
  ASSUME IInv, NEW ok \in BOOLEAN, SetCounter(ok) PROVE IInv'
<1>1. /\ pc = "write" /\ WriteCount(ok, {range}, got + 1)
      /\ logged' = [logged EXCEPT ![range] = IF ok THEN @ + 1 ELSE @]
      /\ pc' = "idle" /\ UNCHANGED <<sign, seen, backup, task, at, range, got>>
  BY DEF SetCounter, Goto
<1>2. /\ range \in Range /\ got \in 0 .. CounterMax - 1
      /\ logged \in [Range -> 0 .. CounterMax] /\ seen \in [Range -> 0 .. CounterMax]
      /\ count \in [Range -> Field] /\ got + 1 \in Field
      /\ logged[range] <= got /\ got + 1 <= seen[range]
  BY <1>1, FieldValues DEF IInv, TypeOK, WriteInv
<1>3. /\ count' \in [Range -> Field]
      /\ \A r \in Range : count'[r] = count[r] \/ (r = range /\ count'[r] = got + 1)
  <2>1. count \in [Range -> Field] /\ {range} \in SUBSET Range /\ got + 1 \in Field
    BY <1>2
  <2>2. WriteCount(ok, {range}, got + 1)
    BY <1>1
  <2> QED
    BY <2>1, <2>2, WriteCountEffect
<1>4. ok => count'[range] = got + 1
  BY <1>1, <1>2 DEF WriteCount
<1>5. i2cError' \in BOOLEAN
  BY <1>1 DEF WriteCount, Access
<1>6. TypeOK'
  <2>1. logged' \in [Range -> 0 .. CounterMax]
    BY <1>1, <1>2, CounterAssumption
  <2> QED
    BY <1>1, <1>3, <1>5, <2>1 DEF IInv, TypeOK, Steps
<1>7. CountsHonest'
  <2> SUFFICES ASSUME NEW r \in Range, isAsciiNumeric(count'[r])
               PROVE  logged'[r] <= count'[r] /\ count'[r] <= seen'[r]
    BY DEF CountsHonest
  <2>1. CASE r # range
    BY <1>1, <1>2, <1>3, <2>1 DEF IInv, CountsHonest
  <2>2. CASE r = range /\ count'[r] = got + 1
    BY <1>1, <1>2, <2>2, CounterAssumption
  <2>3. CASE r = range /\ count'[r] # got + 1
    BY <1>1, <1>2, <1>3, <1>4, <2>3 DEF IInv, CountsHonest
  <2> QED
    BY <2>1, <2>2, <2>3
<1> QED
  BY <1>1, <1>6, <1>7 DEF IInv, SampleInv, TaskInv, WriteInv, RepairInv

\* Setting a counter between two updates.
LEMMA SetRangeStep ==
  ASSUME IInv, pc = "idle", NEW ok \in BOOLEAN, NEW r \in Range, NEW v \in Field,
         SetTempRangeDataDft(ok, r, v)
  PROVE  IInv'
<1>1. PICK written \in BOOLEAN :
        /\ count' = [count EXCEPT ![r] = IF written THEN v ELSE @]
        /\ IF written /\ isAsciiNumeric(v)
           THEN /\ logged' = [logged EXCEPT ![r] = 0]
                /\ seen' = [seen EXCEPT ![r] = v]
           ELSE UNCHANGED ghosts
  BY DEF SetTempRangeDataDft
<1>2. /\ UNCHANGED <<sign, driver>> /\ i2cError' \in BOOLEAN
  BY DEF SetTempRangeDataDft, Access
<1>3. TypeOK
  BY DEF IInv
<1>4. count' \in [Range -> Field]
  BY <1>1, <1>3 DEF TypeOK
<1>5. CASE written /\ isAsciiNumeric(v)
  <2>1. v \in 0 .. CounterMax /\ 0 \in 0 .. CounterMax
    BY <1>5, FieldValues, CounterAssumption
  <2>2. TypeOK'
    BY <1>1, <1>2, <1>3, <1>4, <1>5, <2>1 DEF TypeOK, driver
  <2>3. CountsHonest'
    <3> SUFFICES ASSUME NEW q \in Range, isAsciiNumeric(count'[q])
                 PROVE  logged'[q] <= count'[q] /\ count'[q] <= seen'[q]
      BY DEF CountsHonest
    <3>1. CASE q = r
      BY <1>1, <1>3, <1>5, <2>1, <3>1 DEF TypeOK
    <3>2. CASE q # r
      BY <1>1, <1>3, <1>5, <3>2 DEF TypeOK, IInv, CountsHonest
    <3> QED
      BY <3>1, <3>2
  <2> QED
    BY <1>2, <2>2, <2>3 DEF driver, IInv, SampleInv, TaskInv, WriteInv, RepairInv
<1>6. CASE ~(written /\ isAsciiNumeric(v))
  <2>1. UNCHANGED ghosts
    BY <1>1, <1>6
  <2>2. TypeOK'
    BY <1>2, <1>3, <1>4, <2>1 DEF TypeOK, driver, ghosts
  <2>3. CountsHonest'
    BY <1>1, <1>3, <1>6, <2>1 DEF ghosts, IInv, TypeOK, CountsHonest
  <2> QED
    BY <1>2, <2>2, <2>3 DEF driver, IInv, SampleInv, TaskInv, WriteInv, RepairInv
<1> QED
  BY <1>5, <1>6

LEMMA IInvNext == ~ShellPreempts /\ IInv /\ [Next]_vars => IInv'
<1> SUFFICES ASSUME ~ShellPreempts, IInv, [Next]_vars PROVE IInv'
  OBVIOUS
<1> USE FieldValues
<1>a. TypeOK
  BY DEF IInv
<1>1. CASE Boot
  <2>1. /\ UNCHANGED <<sign, count, i2cError, ghosts, range, got, at>>
        /\ backup' \in BOOLEAN /\ task' = "boot" /\ pc' \in {"idle", "sign"}
    BY <1>1 DEF Boot, eeprom
  <2>2. sign' \in BOOLEAN /\ i2cError' \in BOOLEAN /\ at' \in Range
    BY <1>a, <2>1 DEF TypeOK
  <2>3. TypeOK'
    BY <1>a, <2>1 DEF TypeOK, ghosts, Steps, Tasks
  <2>4. CountsHonest'
    BY <2>1 DEF IInv, CountsHonest, ghosts
  <2> QED
    BY <2>1, <2>3, <2>4 DEF IInv, SampleInv, TaskInv, WriteInv, RepairInv
<1>2. CASE Reset
  <2>1. TypeOK'
    <3>1. 0 \in 0 .. CounterMax - 1
      BY CounterAssumption
    <3>2. UNCHANGED <<sign, count, logged, seen>>
      BY <1>2 DEF Reset, eeprom, ghosts
    <3>3. /\ pc' = "off" /\ i2cError' = FALSE /\ backup' = FALSE /\ task' = "boot"
          /\ at' = 1 /\ range' = 1 /\ got' = 0
      BY <1>2 DEF Reset
    <3> QED
      BY <1>a, <3>1, <3>2, <3>3 DEF TypeOK, Steps, Tasks
  <2>2. CountsHonest'
    BY <1>2 DEF Reset, eeprom, ghosts, IInv, CountsHonest
  <2> QED
    BY <1>2, <2>1, <2>2 DEF Reset, IInv, SampleInv, TaskInv, WriteInv, RepairInv
<1>3. ASSUME NEW ok \in BOOLEAN, ClearCountersDft(ok) PROVE IInv'
  <2>1. /\ pc = "idle" /\ WriteCount(ok, Range, 0) /\ UNCHANGED <<sign, driver, seen>>
        /\ logged' = [r \in Range |-> 0]
    BY <1>3 DEF ClearCountersDft, Shell
  <2>2. count \in [Range -> Field] /\ sign \in BOOLEAN
    BY <1>a DEF TypeOK
  <2>3. /\ count' \in [Range -> Field]
        /\ \A q \in Range : count'[q] = count[q] \/ count'[q] = 0
    BY <2>1, <2>2, WriteCountEffect
  <2>4. i2cError' \in BOOLEAN
    BY <2>1 DEF WriteCount, Access
  <2> QED
    BY <2>1, <2>2, <2>3, <2>4, ClearStep
<1>4. ASSUME NEW ok \in BOOLEAN, ShowRaw(ok) PROVE IInv'
  BY <1>4, <1>a, QuietStep
     DEF ShowRaw, Shell, Access, driver, eeprom, ghosts, TypeOK, Steps, TaskInv, RepairInv
<1>5. ASSUME NEW signOk \in BOOLEAN, NEW ok \in BOOLEAN, ClearRegion(signOk, ok) PROVE IInv'
  <2>1. /\ pc = "idle" /\ UNCHANGED <<driver, seen>> /\ logged' = [r \in Range |-> 0]
    BY <1>5 DEF ClearRegion, Shell
  <2>2. count \in [Range -> Field] /\ sign \in BOOLEAN
    BY <1>a DEF TypeOK
  <2>3. CASE signOk
    <3>1. sign' = TRUE /\ WriteCount(ok, Range, 0)
      BY <1>5, <2>3 DEF ClearRegion
    <3>2. /\ count' \in [Range -> Field]
          /\ \A q \in Range : count'[q] = count[q] \/ count'[q] = 0
      BY <2>2, <3>1, WriteCountEffect
    <3>3. i2cError' \in BOOLEAN
      BY <3>1 DEF WriteCount, Access
    <3> QED
      BY <2>1, <3>1, <3>2, <3>3, ClearStep
  <2>4. CASE ~signOk
    <3>1. count' = count /\ sign' \in BOOLEAN /\ i2cError' \in BOOLEAN
      BY <1>5, <2>2, <2>4 DEF ClearRegion, WriteSign, Access
    <3> QED
      BY <2>1, <2>2, <3>1, ClearStep
  <2> QED
    BY <2>3, <2>4
<1>6. ASSUME NEW ok \in BOOLEAN, NEW r \in Range, NEW v \in Field, SetTempRangeDataDft(ok, r, v)
      PROVE  IInv'
  BY <1>6, SetRangeStep DEF SetTempRangeDataDft, Shell
<1>10. ASSUME NEW ok \in BOOLEAN, NEW good \in BOOLEAN, SetSignDft(ok, good) PROVE IInv'
  <2>1. /\ pc = "idle" /\ UNCHANGED <<count, driver, ghosts>>
        /\ sign' \in BOOLEAN /\ i2cError' \in BOOLEAN
    BY <1>10, <1>a DEF SetSignDft, Shell, Access, TypeOK
  <2>2. TypeOK'
    BY <1>a, <2>1 DEF driver, ghosts, TypeOK
  <2> QED
    BY <2>1, <2>2 DEF driver, ghosts, IInv, CountsHonest, SampleInv, TaskInv, WriteInv, RepairInv
<1>7. ASSUME NEW r \in Range, Update(r) PROVE IInv'
  <2>1. /\ pc = "idle" /\ pc' = "sign" /\ task' = "update" /\ range' = r
        /\ seen' = [seen EXCEPT ![r] = IF @ < CounterMax THEN @ + 1 ELSE @]
        /\ UNCHANGED <<sign, count, i2cError, backup, at, got, logged>>
    BY <1>7 DEF Update, eeprom
  <2>2. seen \in [Range -> 0 .. CounterMax]
    BY <1>a DEF TypeOK
  <2>3. /\ seen' \in [Range -> 0 .. CounterMax]
        /\ \A q \in Range : seen'[q] >= seen[q]
        /\ seen'[r] >= 1 /\ (seen'[r] = seen[r] + 1 \/ seen'[r] = CounterMax)
    BY <2>1, <2>2, CounterAssumption
  <2>4. TypeOK'
    BY <1>a, <2>1, <2>3 DEF TypeOK, Steps, Tasks
  <2>5. \A q \in Range : isAsciiNumeric(count[q]) =>
          count[q] \in Int /\ logged[q] <= count[q] /\ count[q] <= seen[q]
    BY <1>a DEF IInv, TypeOK, CountsHonest
  <2>6. CountsHonest'
    BY <2>1, <2>2, <2>3, <2>5, CounterAssumption DEF CountsHonest
  <2>7. SampleInv'
    BY <2>1, <2>2, <2>3, <2>5 DEF SampleInv
  <2> QED
    BY <2>1, <2>4, <2>6, <2>7 DEF IInv, TaskInv, WriteInv, RepairInv
<1>8. ASSUME NEW ok \in BOOLEAN, DriverNext(ok) PROVE IInv'
  <2>1. CASE ReadSign(ok)
    BY <2>1, <1>a, QuietStep
       DEF ReadSign, Access, Goto, eeprom, ghosts, IInv, TypeOK, Steps, TaskInv, RepairInv
  <2>2. CASE Validate(ok)
    BY <2>2, <1>a, QuietStep, NextRangeEffect
       DEF Validate, Access, Goto, eeprom, ghosts, TypeOK, Steps, TaskInv, RepairInv
  <2>3. CASE MarkError(ok)
    BY <2>3, MarkStep
  <2>4. CASE InitSign(ok)
    <3>1. /\ pc = "initSign" /\ ~sign /\ UNCHANGED <<count, seen, backup, task, at, range, got>>
          /\ sign' \in BOOLEAN /\ i2cError' \in BOOLEAN
          /\ pc' \in {"initCounters", "read", "idle"} /\ (pc' = "read" => task = "reinit")
      <4>1. pc = "initSign" /\ ~sign /\ UNCHANGED <<count, seen>> /\ WriteSign(ok)
        BY <2>4 DEF InitSign, IInv, RepairInv
      <4>2. sign' \in BOOLEAN /\ i2cError' \in BOOLEAN
        BY <1>a, <4>1 DEF WriteSign, Access, TypeOK
      <4>3. CASE Goto("initCounters")
        BY <4>1, <4>2, <4>3 DEF Goto
      <4>4. CASE Return
        BY <4>1, <4>2, <4>4 DEF Return, Goto
      <4> QED
        BY <2>4, <4>3, <4>4 DEF InitSign
    <3>2. logged' = [r \in Range |-> 0]
      BY <2>4, <3>1 DEF InitSign
    <3>3. TypeOK'
      BY <1>a, <3>1, <3>2, CounterAssumption DEF TypeOK, Steps
    <3>4. CountsHonest'
      BY <3>1, <3>2 DEF IInv, CountsHonest, isAsciiNumeric
    <3>5. SampleInv'
      BY <3>1 DEF IInv, SampleInv
    <3> QED
      BY <3>1, <3>2, <3>3, <3>4, <3>5 DEF IInv, TaskInv, WriteInv, RepairInv
  <2>5. CASE InitCounters(ok)
    BY <2>5, InitCountersStep
  <2>6. CASE ReadCounter(ok)
    BY <2>6, ReadStep
  <2>7. CASE SetCounter(ok)
    BY <2>7, SetStep
  <2>8. CASE Judge
    BY <2>8, <1>a, QuietStep
       DEF Judge, Return, Goto, eeprom, ghosts, IInv, TypeOK, Steps, Tasks, TaskInv, RepairInv
  <2>9. CASE JudgeCounter
    BY <2>9, <1>a, QuietStep, NextRangeEffect
       DEF JudgeCounter, Goto, eeprom, ghosts, TypeOK, Steps, TaskInv, RepairInv
  <2> QED
    BY <1>8, <2>1, <2>2, <2>3, <2>4, <2>5, <2>6, <2>7, <2>8, <2>9 DEF DriverNext
<1>9. CASE UNCHANGED vars
  BY <1>9 DEF vars, driver, eeprom, ghosts, IInv, TypeOK, CountsHonest, SampleInv, TaskInv,
              WriteInv, RepairInv
<1> QED
  BY <1>1, <1>2, <1>3, <1>4, <1>5, <1>6, <1>7, <1>8, <1>9, <1>10 DEF Next, ShellNext

\* If shell commands wait for an update to be over, every variable keeps its
\* type: above all, no more samples are written than a counter can hold.  (A
\* command in between could hide that the signature was not read, and initialize()
\* would then count from zero what had been counted.)
THEOREM TypeCorrect ==
  ASSUME ~ShellPreempts
  PROVE  Spec => []TypeOK
<1>1. IInv => TypeOK
  BY DEF IInv
<1>2. IInv /\ [Next]_vars => IInv'
  BY IInvNext
<1> QED
  BY <1>1, <1>2, IInvInit, PTL DEF Spec

\* If shell commands wait for an update to be over, a counter that reads as a
\* number has neither lost a sample nor counted one twice: for any number of
\* ranges, and for every interleaving of failed accesses, resets and commands.
THEOREM CountsStayHonest ==
  ASSUME ~ShellPreempts
  PROVE  Spec => [](TypeOK /\ CountsHonest)
<1>1. IInv => TypeOK /\ CountsHonest
  BY DEF IInv
<1>2. IInv /\ [Next]_vars => IInv'
  BY IInvNext
<1> QED
  BY <1>1, <1>2, IInvInit, PTL DEF Spec

-----------------------------------------------------------------------------
(* Marks persist.                                                           *)

\* A step that turns a mark into something else starts the counter afresh.
LEMMA MarkPersistsStep ==
  ASSUME IInv, [Next]_vars, NEW r \in Range, count[r] = Marked, count'[r] # Marked
  PROVE  Afresh(r)
<1> USE FieldValues
<1>a. /\ count \in [Range -> Field] /\ at \in Range /\ range \in Range
      /\ got \in 0 .. CounterMax - 1
      /\ pc = "write" => count[range] # Marked
  BY DEF IInv, TypeOK, WriteInv
<1>1. count' # count
  OBVIOUS
<1>2. CASE Boot \/ Reset \/ Judge \/ JudgeCounter \/ \E s \in Range : Update(s)
  BY <1>1, <1>2 DEF Boot, Reset, Judge, JudgeCounter, Update, eeprom
<1>3. ASSUME NEW ok \in BOOLEAN, ClearCountersDft(ok) \/ ShowRaw(ok)
      PROVE  ClearCountersDft(ok)
  BY <1>1, <1>3 DEF ShowRaw, eeprom
<1>4. ASSUME NEW signOk \in BOOLEAN, NEW ok \in BOOLEAN, ClearRegion(signOk, ok)
      PROVE  ClearRegion(TRUE, ok)
  <2>1. signOk
    BY <1>1, <1>4 DEF ClearRegion
  <2> QED
    BY <1>4, <2>1
<1>5. ASSUME NEW ok \in BOOLEAN, NEW s \in Range, NEW v \in Field, SetTempRangeDataDft(ok, s, v)
      PROVE  SetTempRangeDataDft(ok, r, v)
  <2>1. CASE s = r
    BY <1>5, <2>1
  <2>2. CASE s # r
    <3>1. PICK w \in BOOLEAN : count' = [count EXCEPT ![s] = IF w THEN v ELSE @]
      BY <1>5 DEF SetTempRangeDataDft
    <3>2. count'[r] = count[r]
      BY <1>a, <2>2, <3>1
    <3> QED
      BY <3>2
  <2> QED
    BY <2>1, <2>2
<1>8. ASSUME NEW ok \in BOOLEAN, NEW good \in BOOLEAN, SetSignDft(ok, good) PROVE FALSE
  BY <1>1, <1>8 DEF SetSignDft
<1>6. ASSUME NEW ok \in BOOLEAN, DriverNext(ok) PROVE InitCounters(ok)
  <2>1. CASE ReadSign(ok) \/ Validate(ok) \/ InitSign(ok) \/ ReadCounter(ok)
             \/ Judge \/ JudgeCounter
    BY <1>1, <2>1 DEF ReadSign, Validate, InitSign, ReadCounter, Judge, JudgeCounter, eeprom
  <2>2. CASE MarkError(ok)
    <3>1. PICK s \in Range : WriteCount(ok, {s}, Marked)
      BY <1>a, <2>2 DEF MarkError
    <3>2. {s} \in SUBSET Range /\ Marked \in Field
      OBVIOUS
    <3>3. \A q \in Range : count'[q] = count[q] \/ count'[q] = Marked
      BY <1>a, <3>1, <3>2, WriteCountEffect
    <3> QED
      BY <3>3
  <2>3. CASE SetCounter(ok)
    <3>1. WriteCount(ok, {range}, got + 1) /\ count[range] # Marked
      BY <1>a, <2>3 DEF SetCounter
    <3>2. {range} \in SUBSET Range /\ got + 1 \in Field
      BY <1>a
    <3>3. \A q \in Range : count'[q] = count[q] \/ q = range
      BY <1>a, <3>1, <3>2, WriteCountEffect
    <3> QED
      BY <3>1, <3>3
  <2> QED
    BY <1>6, <2>1, <2>2, <2>3 DEF DriverNext
<1>7. CASE UNCHANGED vars
  BY <1>1, <1>7 DEF vars, eeprom
<1> QED
  BY <1>2, <1>3, <1>4, <1>5, <1>6, <1>7, <1>8 DEF Next, ShellNext, Afresh

\* If shell commands wait for an update to be over, a marked counter stays marked
\* until it starts afresh.  (An update writes over a mark that is set by hand between
\* its reading and its writing.)
THEOREM MarksStay ==
  ASSUME ~ShellPreempts
  PROVE  Spec => MarkPersists
<1>1. IInv /\ [Next]_vars =>
        [\A r \in Range : count[r] = Marked /\ count'[r] # Marked => Afresh(r)]_vars
  BY MarkPersistsStep
<1>2. IInv /\ [Next]_vars => IInv'
  BY IInvNext
<1> QED
  BY <1>1, <1>2, IInvInit, PTL DEF Spec, MarkPersists
=============================================================================
