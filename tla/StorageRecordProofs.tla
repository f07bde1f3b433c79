------------------------ MODULE StorageRecordProofs ------------------------
(***************************************************************************)
(* For any tasks, fields and values, and whether or not copies fail: the   *)
(* object and its copy agree whenever nobody is between the halves of a    *)
(* setter, and acknowledged writes come back after a reset.                *)
(***************************************************************************)
EXTENDS StorageRecord, TLAPS

\* Where the promise lies: what boots may make of the copy in RPA is among what is
\* promised.  While the controller is down, or has not yet cleared a record it refused,
\* the promise says what boots find, and not what they are to make of it.
KeptSafe ==
  kept # {} =>
    /\ Comeback(rpa) \subseteq UNION {Comeback(r) : r \in kept}
    /\ pc # "on" => \A r \in kept : Comeback(r) = {r}

\* Only a controller that is up has calls under way.
DownQuiet == pc # "on" => copying = {}

\* The record that boot clears is the cleared one.
ClearsCleared == pc = "bootClear" => mem = Cleared /\ ~Usable(rpa)

IInv == TypeOK /\ InSync /\ DownQuiet /\ ClearsCleared /\ KeptSafe

-----------------------------------------------------------------------------
\* The cleared record is a record, and comes back as it is; what the memory has after
\* a power loss are records.
LEMMA ClearedIsRecord ==
  /\ Cleared \in Record /\ Lost \in SUBSET Record
  /\ ~Cleared.valid /\ ~Usable(Cleared)
  /\ Comeback(Cleared) = {Cleared}
  BY UnsetAssumption DEF Cleared, Lost, Record, Usable, Comeback

\* What a record is with the signature put back.
LEMMA Signed ==
  ASSUME NEW r \in Record
  PROVE  /\ [r EXCEPT !.signature = TRUE] \in Record
         /\ Usable([r EXCEPT !.signature = TRUE]) <=> r.valid /\ r.version
  BY DEF Record, Usable

\* Boots make a record of a record, and find it again.
LEMMA ComebackSettles ==
  ASSUME NEW r \in Record, NEW c \in Comeback(r)
  PROVE  c \in Record /\ Comeback(c) = {c}
  <1>1. CASE Usable(r)
    BY <1>1 DEF Comeback
  <1>2. CASE ~Usable(r) /\ c = Cleared
    BY <1>2, ClearedIsRecord
  <1>3. CASE ~Usable(r) /\ c # Cleared
    <2>1. c = [r EXCEPT !.signature = TRUE] /\ Usable(c)
      BY <1>3 DEF Comeback
    <2> QED
      BY <2>1, Signed DEF Comeback
  <1> QED
    BY <1>1, <1>2, <1>3

\* A record that is refused may be cleared; only a valid record comes back otherwise.
LEMMA ComebackOfRefused ==
  ASSUME NEW r \in Record, ~Usable(r)
  PROVE  Cleared \in Comeback(r) /\ (~r.valid => Comeback(r) = {Cleared})
  BY Signed DEF Comeback

\* Some of the fields replaced are fields.
LEMMA PrefixIsData ==
  ASSUME NEW old \in Record, NEW new \in Record, NEW n
  PROVE  Prefix(old, new, n) \in [Fields -> Values]
  BY DEF Prefix, Record

\* Each of a torn copy's records is a record, and is the old one, the old one with
\* the new signature, or has the new valid flag.
LEMMA TornRecord ==
  ASSUME NEW old \in Record, NEW new \in Record, NEW r \in Torn(old, new)
  PROVE  /\ r \in Record
         /\ \/ r = old
            \/ r = [old EXCEPT !.signature = new.signature]
            \/ r.valid = new.valid
  <1>1. CASE r = old
    BY <1>1
  <1>2. CASE r = [old EXCEPT !.signature = new.signature]
    BY <1>2 DEF Record
  <1>3. CASE r = [old EXCEPT !.signature = new.signature, !.valid = new.valid]
    BY <1>3 DEF Record
  <1>4. CASE \E n \in 0 .. FieldCount : r = [new EXCEPT !.data = Prefix(old, new, n)]
    <2>1. PICK n : r = [new EXCEPT !.data = Prefix(old, new, n)]
      BY <1>4
    <2> QED
      BY <2>1, PrefixIsData DEF Record
  <1> QED
    BY <1>1, <1>2, <1>3, <1>4 DEF Torn

\* Clearing a record that was refused, by a copy that may be torn, leaves nothing
\* that boots make more of than they would have made of the record itself.
LEMMA TornComesBackLess ==
  ASSUME NEW old \in Record, ~Usable(old), NEW r \in Torn(old, Cleared)
  PROVE  r \in Record /\ Comeback(r) \subseteq Comeback(old)
  <1>1. r \in Record
    BY ClearedIsRecord, TornRecord
  <1>2. CASE r.valid = FALSE
    BY <1>1, <1>2, ComebackOfRefused DEF Usable
  <1>3. CASE r = [old EXCEPT !.signature = TRUE] /\ r.valid
    <2>1. CASE Usable(r)
      BY <1>1, <1>3, <2>1 DEF Comeback
    <2>2. CASE ~Usable(r)
      <3>1. [r EXCEPT !.signature = TRUE] = r
        BY <1>1, <1>3 DEF Record
      <3>2. Comeback(r) = {Cleared}
        BY <2>2, <3>1 DEF Comeback
      <3> QED
        BY <1>1, <3>2, ComebackOfRefused
    <2> QED
      BY <2>1, <2>2
  <1> QED
    <2>1. r = old \/ r = [old EXCEPT !.signature = Cleared.signature] \/ r.valid = Cleared.valid
      BY ClearedIsRecord, TornRecord
    <2>2. Cleared.signature = TRUE /\ Cleared.valid = FALSE
      BY DEF Cleared
    <2>3. r.valid \in BOOLEAN
      BY <1>1 DEF Record
    <2> QED
      BY <1>1, <1>2, <1>3, <2>1, <2>2, <2>3

-----------------------------------------------------------------------------
\* The inductive invariant holds initially.
LEMMA InitIInv == Init => IInv
  <1> SUFFICES ASSUME Init PROVE IInv OBVIOUS
  <1>1. TypeOK
    BY ClearedIsRecord DEF Init, TypeOK
  <1> QED
    BY <1>1 DEF Init, IInv, InSync, DownQuiet, ClearsCleared, KeptSafe

\* A copy leaves a record in RPA.
LEMMA WriteType ==
  ASSUME TypeOK, NEW ok \in BOOLEAN, WriteToRpa(ok)
  PROVE  rpa' \in Record /\ unsaved' \in BOOLEAN /\ (~unsaved' => rpa' = mem)
  BY TornRecord DEF TypeOK, WriteToRpa

\* The first half of every setter preserves it: a call is under way, and nothing
\* is promised.
LEMMA AssignKeeps ==
  ASSUME IInv, NEW t \in Tasks, NEW record \in Record, Assign(t, record)
  PROVE  IInv'
  BY DEF IInv, Assign, InitComplete, TypeOK, InSync, DownQuiet, ClearsCleared, KeptSafe

\* What the setters assign are records.
LEMMA SettersAssignRecords ==
  ASSUME TypeOK
  PROVE  /\ \A b \in BOOLEAN : [mem EXCEPT !.valid = b] \in Record
         /\ \A b \in BOOLEAN : [mem EXCEPT !.version = b] \in Record
         /\ \A f \in Fields, value \in Values : [mem EXCEPT !.data[f] = value] \in Record
  BY DEF TypeOK, Record

LEMMA BootKeeps == ASSUME IInv, Boot PROVE IInv'
  <1>1. rpa \in Record /\ UNCHANGED <<rpa, copying>> /\ copying = {} /\ unsaved' = FALSE
    BY DEF IInv, TypeOK, Boot, DownQuiet
  <1>2. CASE BootAccept
    <2>1. Comeback(rpa) = {rpa}
      BY <1>2 DEF BootAccept, Comeback
    <2> QED
      BY <1>1, <1>2, <2>1
      DEF IInv, BootAccept, TypeOK, InSync, DownQuiet, ClearsCleared, KeptSafe
  <1>3. CASE BootRefuse
    BY <1>1, <1>3, ClearedIsRecord
    DEF IInv, Boot, BootRefuse, TypeOK, InSync, DownQuiet, ClearsCleared, KeptSafe
  <1> QED
    BY <1>2, <1>3 DEF Boot

LEMMA BootClearKeeps == ASSUME IInv, BootClear PROVE IInv'
  <1>1. PICK ok \in BOOLEAN : WriteToRpa(ok) /\ kept' = IF ok THEN {mem} ELSE kept
    BY DEF BootClear
  <1>2. /\ mem = Cleared /\ ~Usable(rpa) /\ rpa \in Record
        /\ pc' = "on" /\ UNCHANGED <<mem, copying>> /\ copying = {}
    BY DEF IInv, BootClear, ClearsCleared, TypeOK, DownQuiet
  <1>3. kept' \in SUBSET Record
    BY <1>1, <1>2, ClearedIsRecord DEF IInv, TypeOK
  <1>4. TypeOK'
    BY <1>1, <1>2, <1>3, WriteType DEF IInv, TypeOK
  <1>5. InSync'
    BY <1>1, <1>2, WriteType DEF IInv, InSync
  <1>6. KeptSafe'
    <2>1. CASE ok
      BY <1>1, <1>2, <2>1 DEF WriteToRpa, KeptSafe
    <2>2. CASE ~ok
      <3>1. Comeback(rpa') \subseteq Comeback(rpa)
        BY <1>1, <1>2, <2>2, TornComesBackLess DEF WriteToRpa
      <3> QED
        BY <1>1, <1>2, <2>2, <3>1 DEF IInv, KeptSafe
    <2> QED
      BY <2>1, <2>2
  <1> QED
    BY <1>2, <1>4, <1>5, <1>6 DEF IInv, DownQuiet, ClearsCleared

LEMMA CopyKeeps == ASSUME IInv, NEW t \in Tasks, Copy(t) PROVE IInv'
  <1>1. PICK ok \in BOOLEAN :
          WriteToRpa(ok) /\ kept' = IF ok /\ copying = {t} THEN {mem} ELSE {}
    BY DEF Copy
  <1>2. pc = "on" /\ pc' = "on" /\ mem' = mem /\ copying' = copying \ {t}
    BY DEF Copy, IInv, DownQuiet, TypeOK
  <1>3. TypeOK'
    BY <1>1, <1>2, WriteType DEF IInv, TypeOK
  <1>4. InSync'
    BY <1>1, <1>2, WriteType DEF IInv, InSync
  <1>5. KeptSafe'
    <2>1. CASE ok /\ copying = {t}
      BY <1>1, <1>2, <2>1 DEF KeptSafe, WriteToRpa
    <2>2. CASE ~(ok /\ copying = {t})
      BY <1>1, <2>2 DEF KeptSafe
    <2> QED
      BY <2>1, <2>2
  <1> QED
    BY <1>2, <1>3, <1>4, <1>5 DEF IInv, DownQuiet, ClearsCleared

LEMMA ReplaceKeeps ==
  ASSUME IInv, NEW record \in Record, SetStorageRecord(record)
  PROVE  IInv'
  BY DEF IInv, SetStorageRecord, InitComplete, TypeOK, InSync, DownQuiet, ClearsCleared, KeptSafe

\* A reset turns the promise into what boots make of the record.
LEMMA ResetKeeps == ASSUME IInv, Reset PROVE IInv'
  <1>1. kept \in SUBSET Record /\ rpa \in Record
    BY DEF IInv, TypeOK
  <1>2. kept' = UNION {Comeback(r) : r \in kept} /\ UNCHANGED rpa
    BY DEF Reset
  <1>3. \A c \in kept' : c \in Record /\ Comeback(c) = {c}
    BY <1>1, <1>2, ComebackSettles
  <1>4. TypeOK'
    BY <1>3, ClearedIsRecord DEF IInv, Reset, TypeOK
  <1>5. KeptSafe'
    <2>1. kept' # {} => kept # {}
      BY <1>2
    <2>2. UNION {Comeback(c) : c \in kept'} = kept'
      BY <1>3
    <2> QED
      BY <1>2, <1>3, <2>1, <2>2 DEF IInv, KeptSafe
  <1> QED
    BY <1>4, <1>5 DEF IInv, Reset, InSync, DownQuiet, ClearsCleared

LEMMA PowerLossKeeps == ASSUME IInv, PowerLoss PROVE IInv'
  BY ClearedIsRecord
  DEF IInv, PowerLoss, TypeOK, InSync, DownQuiet, ClearsCleared, KeptSafe

\* Every step preserves the inductive invariant.
LEMMA NextIInv == IInv /\ [Next]_vars => IInv'
  <1> SUFFICES ASSUME IInv, [Next]_vars PROVE IInv' OBVIOUS
  <1>1. CASE Boot BY <1>1, BootKeeps
  <1>2. CASE BootClear BY <1>2, BootClearKeeps
  <1>3. CASE \E t \in Tasks : ClearStorageRecord(t) \/ Copy(t)
    BY <1>3, ClearedIsRecord, AssignKeeps, CopyKeeps DEF ClearStorageRecord
  <1>4. CASE \E t \in Tasks, b \in BOOLEAN : SetSRValid(t, b) \/ SetSRVersion(t, b)
    BY <1>4, SettersAssignRecords, AssignKeeps DEF SetSRValid, SetSRVersion, IInv
  <1>5. CASE \E t \in Tasks, f \in Fields, value \in Values : SetSRField(t, f, value)
    BY <1>5, SettersAssignRecords, AssignKeeps DEF SetSRField, IInv
  <1>6. CASE \E record \in Record : SetStorageRecord(record) BY <1>6, ReplaceKeeps
  <1>7. CASE Reset BY <1>7, ResetKeeps
  <1>8. CASE PowerLoss BY <1>8, PowerLossKeeps
  <1>9. CASE UNCHANGED vars
    BY <1>9 DEF vars, IInv, TypeOK, InSync, DownQuiet, ClearsCleared, KeptSafe
  <1> QED
    BY <1>1, <1>2, <1>3, <1>4, <1>5, <1>6, <1>7, <1>8, <1>9 DEF Next

LEMMA IInvStays == Spec => []IInv
  BY InitIInv, NextIInv, PTL DEF Spec

-----------------------------------------------------------------------------
\* Whichever way the setters' assignments and copies alternate, the object and RPA
\* agree once nobody is between the two (setValid to setNetworkPath, writeToRpa).
THEOREM CopyInSync == Spec => []InSync
  <1>1. IInv => InSync BY DEF IInv
  <1> QED BY <1>1, IInvStays, PTL

\* What a boot finds is what has been promised.
LEMMA BootFinds == ASSUME IInv, Boot, kept # {} PROVE mem' \in kept
  <1>1. rpa \in Record /\ Comeback(rpa) \subseteq kept
    BY DEF IInv, TypeOK, Boot, KeptSafe
  <1>2. CASE BootAccept
    BY <1>1, <1>2 DEF BootAccept, Comeback
  <1>3. CASE BootRefuse
    BY <1>1, <1>3, ComebackOfRefused DEF BootRefuse
  <1> QED
    BY <1>2, <1>3 DEF Boot

\* Only Boot ends "off".
LEMMA OnlyBoot ==
  ASSUME IInv, [Next]_vars, pc = "off", pc' # "off"
  PROVE  Boot
  <1>1. ~(UNCHANGED vars) /\ ~BootClear /\ ~Reset /\ ~PowerLoss
    BY DEF vars, BootClear, Reset, PowerLoss
  <1>2. ASSUME NEW t \in Tasks, NEW record, Assign(t, record) PROVE FALSE
    BY <1>2 DEF Assign, InitComplete
  <1>3. ASSUME NEW t \in Tasks, Copy(t) PROVE FALSE
    BY <1>3 DEF Copy
  <1>4. ASSUME NEW record, SetStorageRecord(record) PROVE FALSE
    BY <1>4 DEF SetStorageRecord, InitComplete
  <1> QED
    BY <1>1, <1>2, <1>3, <1>4
    DEF Next, ClearStorageRecord, SetSRValid, SetSRVersion, SetSRField

\* What was written and acknowledged is what the next boots find, though the copies
\* that clear a refused record fail; a record of another version, or not valid, never
\* comes back (the end of initialize(), clearStorageRecord).
THEOREM WritesSurvive == Spec => RecordSurvives
  <1>1. IInv /\ [Next]_vars => [pc = "off" /\ pc' # "off" /\ kept # {} => mem' \in kept]_vars
    BY BootFinds, OnlyBoot
  <1> QED BY <1>1, IInvStays, PTL DEF Spec, RecordSurvives
=============================================================================
