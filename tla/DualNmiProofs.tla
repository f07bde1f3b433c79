--------------------------- MODULE DualNmiProofs ---------------------------
(***************************************************************************)
(* Theorems about DualNmi: for any array of controllers, any messages lost *)
(* or late, and any number of panics and requests.                         *)
(***************************************************************************)
EXTENDS DualNmi, TLAPS

-----------------------------------------------------------------------------
(* The inductive invariant.                                                 *)

\* Whoever captures has set m_CoreDumpInProgress.
FlagSet == \A c \in Controllers : locking[c] \/ Capturing(c) => inProgress[c]

\* Who has been called by a recursive reboot has not returned.
RecursiveRuns == \A c \in Controllers : callback[c].recursive => InCallback(c)

IInv == TypeOK /\ OneWriter /\ FlagOwned /\ FlagSet /\ RecursiveRuns

-----------------------------------------------------------------------------
(* Types.                                                                   *)

LEMMA CallbackFacts ==
  /\ NoCallback \in Callback
  /\ \A step \in CallbackSteps, exempt, recursive \in BOOLEAN :
       [pc |-> step, exempt |-> exempt, recursive |-> recursive] \in Callback
  /\ \A r \in Callback : /\ r.pc \in CallbackSteps
                         /\ r.recursive \in BOOLEAN /\ r.exempt \in BOOLEAN
BY DEF Callback, NoCallback, CallbackSteps

\* Goto and AfterTrigger change the step of one callback, and no recursive flag.
LEMMA StepEffect ==
  ASSUME TypeOK, NEW c \in Controllers, NEW step \in CallbackSteps,
         Goto(c, step) \/ AfterTrigger(c, step)
  PROVE  /\ callback' \in [Controllers -> Callback]
         /\ callback'[c].pc = step
         /\ \A d \in Controllers : callback'[d].recursive = callback[d].recursive
         /\ \A d \in Controllers \ {c} : callback'[d] = callback[d]
<1>1. callback \in [Controllers -> Callback]
  BY DEF TypeOK
<1>2. CASE Goto(c, step)
  BY <1>1, <1>2 DEF Goto, Callback
<1>3. CASE AfterTrigger(c, step)
  BY <1>1, <1>3 DEF AfterTrigger, Callback
<1> QED
  BY <1>2, <1>3

LEMMA InboxType ==
  ASSUME TypeOK, NEW c \in Controllers,
         \/ \E m \in Messages, mine \in SUBSET Messages : Send(c, m, mine)
         \/ \E m \in Messages : Consume(c, m)
         \/ inbox' \in {inbox, [inbox EXCEPT ![c] = {}]}
  PROVE  inbox' \in [Controllers -> SUBSET Messages]
<1>1. inbox \in [Controllers -> SUBSET Messages] /\ Alt[c] \in Controllers
  BY AltAssumption DEF TypeOK
<1>2. ASSUME NEW m \in Messages, NEW mine \in SUBSET Messages, Send(c, m, mine)
      PROVE  inbox' \in [Controllers -> SUBSET Messages]
  BY <1>1, <1>2 DEF Send
<1>3. ASSUME NEW m \in Messages, Consume(c, m)
      PROVE  inbox' \in [Controllers -> SUBSET Messages]
  BY <1>1, <1>3 DEF Consume
<1> QED
  BY <1>1, <1>2, <1>3

\* A reset leaves nothing of c's activities but its dump.
LEMMA ResetStep ==
  ASSUME IInv, NEW c \in Controllers, Reset(c),
         inbox' \in [Controllers -> SUBSET Messages],
         request' \in [Controllers -> BOOLEAN], triggers' \in 0 .. MaxTriggers
  PROVE  IInv' /\ UNCHANGED dump
<1>1. /\ phase' = [phase EXCEPT ![c] = "off"]
      /\ callback' = [callback EXCEPT ![c] = NoCallback]
      /\ locking' = [locking EXCEPT ![c] = FALSE]
      /\ lockOnTop' = [lockOnTop EXCEPT ![c] = FALSE]
      /\ inProgress' = [inProgress EXCEPT ![c] = FALSE]
      /\ expectHold' = [expectHold EXCEPT ![c] = FALSE]
      /\ UNCHANGED dump
  BY DEF Reset
<1>2. TypeOK'
  BY <1>1, CallbackFacts DEF IInv, TypeOK, Phases
<1>3. ASSUME NEW d \in Controllers
      PROVE  \/ UNCHANGED <<locking[d], callback[d], inProgress[d], dump[d]>>
             \/ /\ ~locking'[d] /\ ~inProgress'[d]
                /\ callback'[d].pc = "idle" /\ ~callback'[d].recursive
  BY <1>1 DEF IInv, TypeOK, NoCallback
<1> QED
  BY <1>1, <1>2, <1>3 DEF IInv, OneWriter, FlagOwned, FlagSet, Capturing, RecursiveRuns, InCallback

\* Entering the callback abandons a full capture, and only that.
LEMMA EnterStep ==
  ASSUME IInv, NEW c \in Controllers, NEW full \in BOOLEAN, NEW exempt \in BOOLEAN,
         EnterCallback(c, full, exempt), UNCHANGED <<phase, request>>,
         expectHold' \in [Controllers -> BOOLEAN],
         inbox' \in [Controllers -> SUBSET Messages], triggers' \in 0 .. MaxTriggers
  PROVE  IInv' /\ UNCHANGED dump
<1> DEFINE entered == [pc |-> IF full THEN "trigger" ELSE "return",
                       exempt |-> full /\ exempt, recursive |-> InCallback(c)]
<1>1. /\ callback' = [callback EXCEPT ![c] = entered]
      /\ lockOnTop' = [lockOnTop EXCEPT ![c] = FALSE]
      /\ UNCHANGED <<locking, inProgress, dump>>
  BY DEF EnterCallback
<1>2. /\ entered \in Callback /\ entered.pc \in {"trigger", "return"}
      /\ entered.recursive = InCallback(c)
  <2>1. (full /\ exempt) \in BOOLEAN /\ InCallback(c) \in BOOLEAN
    BY DEF InCallback
  <2> QED
    BY <2>1 DEF Callback, CallbackSteps
<1> HIDE DEF entered
<1>3. TypeOK'
  BY <1>1, <1>2 DEF IInv, TypeOK
<1>4. ASSUME NEW d \in Controllers
      PROVE  \/ callback'[d] = callback[d]
             \/ d = c /\ callback'[d].pc \notin {"idle", "capture"}
                /\ (InCallback(c) => callback'[d].recursive)
  BY <1>1, <1>2 DEF IInv, TypeOK, InCallback
<1> QED
  BY <1>1, <1>3, <1>4 DEF IInv, OneWriter, FlagOwned, FlagSet, Capturing, RecursiveRuns, InCallback

\* A step of the callback that neither begins nor ends a capture.
LEMMA CallbackStep ==
  ASSUME IInv, NEW c \in Controllers, NEW step \in CallbackSteps \ {"idle", "capture"},
         Goto(c, step) \/ AfterTrigger(c, step), ~Capturing(c),
         UNCHANGED <<phase, captures, expectHold, request, triggers>>,
         inbox' \in [Controllers -> SUBSET Messages]
  PROVE  IInv' /\ UNCHANGED dump
<1>1. /\ callback' \in [Controllers -> Callback]
      /\ callback'[c].pc = step
      /\ \A d \in Controllers : callback'[d].recursive = callback[d].recursive
      /\ \A d \in Controllers \ {c} : callback'[d] = callback[d]
  BY StepEffect DEF IInv
<1>2. UNCHANGED <<locking, lockOnTop, inProgress, dump>>
  BY DEF captures
<1>3. TypeOK'
  BY <1>1, <1>2 DEF IInv, TypeOK
<1> QED
  BY <1>1, <1>2, <1>3 DEF IInv, OneWriter, FlagOwned, FlagSet, Capturing, RecursiveRuns, InCallback

-----------------------------------------------------------------------------
(* Steps that begin or end a capture.                                       *)

LEMMA TriggerFullStep ==
  ASSUME IInv, NEW c \in Controllers, TriggerFull(c)
  PROVE  /\ IInv'
         /\ \A d \in Controllers : dump[d] = "full" /\ dump'[d] # "full" =>
              callback[d].exempt /\ callback'[d].pc = "capture"
<1>0. /\ callback[c].pc = "trigger" /\ ~Capturing(c)
      /\ UNCHANGED <<phase, locking, lockOnTop, expectHold, inbox, request, triggers>>
  BY DEF TriggerFull, Capturing
<1>1. CASE Refused(c) \/ Kept(c, callback[c].exempt)
  <2>1. AfterTrigger(c, "complete") /\ UNCHANGED captures
    BY <1>0, <1>1 DEF TriggerFull, captures
  <2>2. inbox' \in [Controllers -> SUBSET Messages]
    BY <1>0 DEF IInv, TypeOK
  <2>3. IInv' /\ UNCHANGED dump
    BY <1>0, <2>1, <2>2, CallbackStep DEF CallbackSteps
  <2> QED
    BY <2>3
<1>2. CASE ~(Refused(c) \/ Kept(c, callback[c].exempt))
  <2>1. /\ AfterTrigger(c, "capture")
        /\ inProgress' = [inProgress EXCEPT ![c] = TRUE]
        /\ dump' = [dump EXCEPT ![c] = "other"]
        /\ ~inProgress[c] /\ (dump[c] = "full" => callback[c].exempt)
    BY <1>2 DEF TriggerFull, BeginCapture, Refused, Kept
  <2>2. /\ callback' \in [Controllers -> Callback]
        /\ callback'[c].pc = "capture"
        /\ \A d \in Controllers : callback'[d].recursive = callback[d].recursive
        /\ \A d \in Controllers \ {c} : callback'[d] = callback[d]
    BY <2>1, StepEffect DEF IInv, CallbackSteps
  <2>3. TypeOK'
    BY <1>0, <2>1, <2>2 DEF IInv, TypeOK, Dumps
  <2>4. ~locking[c]
    BY <2>1 DEF IInv, FlagSet
  <2>5. /\ inProgress'[c] /\ dump'[c] = "other"
        /\ \A d \in Controllers \ {c} : UNCHANGED <<inProgress[d], dump[d]>>
    BY <2>1 DEF IInv, TypeOK
  <2>6. OneWriter' /\ FlagOwned' /\ FlagSet' /\ RecursiveRuns'
    BY <1>0, <2>2, <2>4, <2>5 DEF IInv, OneWriter, FlagOwned, FlagSet, Capturing, RecursiveRuns, InCallback
  <2> QED
    BY <2>1, <2>2, <2>3, <2>5, <2>6 DEF IInv
<1> QED
  BY <1>1, <1>2

LEMMA CaptureFullStep ==
  ASSUME IInv, NEW c \in Controllers, CaptureFull(c)
  PROVE  IInv' /\ \A d \in Controllers : dump[d] = "full" => dump'[d] = "full"
<1>1. PICK result \in Dumps : EndCapture(c, result)
  BY DEF CaptureFull
<1>2. /\ Goto(c, "complete") /\ Capturing(c)
      /\ inProgress' = [inProgress EXCEPT ![c] = FALSE]
      /\ dump' = [dump EXCEPT ![c] = result]
      /\ UNCHANGED <<phase, locking, lockOnTop, expectHold, inbox, request, triggers>>
  BY <1>1 DEF CaptureFull, EndCapture, Capturing
<1>3. /\ callback' \in [Controllers -> Callback]
      /\ callback'[c].pc = "complete"
      /\ \A d \in Controllers : callback'[d].recursive = callback[d].recursive
      /\ \A d \in Controllers \ {c} : callback'[d] = callback[d]
  BY <1>2, StepEffect DEF IInv, CallbackSteps
<1>4. TypeOK'
  BY <1>2, <1>3 DEF IInv, TypeOK
<1>5. ~locking[c] /\ dump[c] = "other"
  BY <1>2 DEF IInv, OneWriter
<1>6. /\ ~inProgress'[c]
      /\ \A d \in Controllers \ {c} : UNCHANGED <<inProgress[d], dump[d]>>
  BY <1>2 DEF IInv, TypeOK
<1>7. OneWriter' /\ FlagOwned' /\ FlagSet' /\ RecursiveRuns'
  BY <1>2, <1>3, <1>5, <1>6 DEF IInv, OneWriter, FlagOwned, FlagSet, Capturing, RecursiveRuns, InCallback
<1> QED
  BY <1>4, <1>5, <1>6, <1>7 DEF IInv

LEMMA HandleLockStep ==
  ASSUME IInv, NEW c \in Controllers, HandleLock(c)
  PROVE  IInv' /\ \A d \in Controllers : dump[d] = "full" => dump'[d] = "full"
<1>1. inbox' \in [Controllers -> SUBSET Messages]
  BY InboxType DEF HandleLock, IInv, Messages
<1>2. UNCHANGED <<phase, callback, expectHold, request, triggers>>
  BY DEF HandleLock
<1>3. CASE UNCHANGED captures
  BY <1>1, <1>2, <1>3
  DEF IInv, captures, TypeOK, OneWriter, FlagOwned, FlagSet, Capturing, RecursiveRuns, InCallback
<1>4. CASE ~Refused(c) /\ ~Kept(c, FALSE) /\ BeginLock(c)
  <2>1. /\ ~inProgress[c] /\ dump[c] # "full"
        /\ inProgress' = [inProgress EXCEPT ![c] = TRUE]
        /\ dump' = [dump EXCEPT ![c] = "other"]
        /\ locking' = [locking EXCEPT ![c] = TRUE]
        /\ lockOnTop' = [lockOnTop EXCEPT ![c] = TRUE]
    BY <1>4 DEF Refused, Kept, BeginLock, BeginCapture
  <2>2. TypeOK'
    BY <1>1, <1>2, <2>1 DEF IInv, TypeOK, Dumps
  <2>3. ~Capturing(c)
    BY <2>1 DEF IInv, FlagSet
  <2>4. /\ inProgress'[c] /\ dump'[c] = "other"
        /\ \A d \in Controllers \ {c} : UNCHANGED <<inProgress[d], dump[d], locking[d]>>
    BY <2>1 DEF IInv, TypeOK
  <2>5. OneWriter' /\ FlagOwned' /\ FlagSet' /\ RecursiveRuns'
    BY <1>2, <2>1, <2>3, <2>4 DEF IInv, TypeOK, OneWriter, FlagOwned, FlagSet, Capturing, RecursiveRuns, InCallback
  <2> QED
    BY <2>1, <2>2, <2>4, <2>5 DEF IInv
<1> QED
  BY <1>3, <1>4 DEF HandleLock

LEMMA CaptureLockStep ==
  ASSUME IInv, NEW c \in Controllers, CaptureLock(c)
  PROVE  IInv' /\ UNCHANGED dump
<1>1. /\ locking[c]
      /\ inProgress' = [inProgress EXCEPT ![c] = FALSE]
      /\ dump' = [dump EXCEPT ![c] = "other"]
      /\ locking' = [locking EXCEPT ![c] = FALSE]
      /\ lockOnTop' = [lockOnTop EXCEPT ![c] = FALSE]
      /\ UNCHANGED <<phase, callback, expectHold, inbox, request, triggers>>
  BY DEF CaptureLock, LockRuns, EndCapture
<1>2. ~Capturing(c) /\ dump[c] = "other"
  BY <1>1 DEF IInv, OneWriter
<1>3. UNCHANGED dump
  BY <1>1, <1>2 DEF IInv, TypeOK
<1>4. TypeOK'
  BY <1>1, <1>3 DEF IInv, TypeOK
<1>5. /\ ~inProgress'[c] /\ ~locking'[c]
      /\ \A d \in Controllers \ {c} : UNCHANGED <<inProgress[d], locking[d]>>
  BY <1>1 DEF IInv, TypeOK
<1>6. OneWriter' /\ FlagOwned' /\ FlagSet' /\ RecursiveRuns'
  BY <1>1, <1>2, <1>3, <1>5 DEF IInv, OneWriter, FlagOwned, FlagSet, Capturing, RecursiveRuns, InCallback
<1> QED
  BY <1>3, <1>4, <1>6 DEF IInv

-----------------------------------------------------------------------------
(* Every step.                                                              *)

KeepsFull == \A c \in Controllers :
  dump[c] = "full" /\ dump'[c] # "full" =>
    \/ UNCHANGED <<callback, locking>>
    \/ callback[c].exempt /\ callback'[c].pc = "capture"

LEMMA CallbackNextStep ==
  ASSUME IInv, NEW c \in Controllers, CallbackNext(c) PROVE IInv' /\ KeepsFull
<1>1. CASE TriggerFull(c)
  BY <1>1, TriggerFullStep DEF KeepsFull
<1>2. CASE CaptureFull(c)
  BY <1>2, CaptureFullStep DEF KeepsFull
<1>3. CASE Complete(c)
  <2>1. inbox[c] \in SUBSET Messages /\ "COMPLETE" \in Messages
    BY DEF IInv, TypeOK, Messages
  <2>2. inbox' \in [Controllers -> SUBSET Messages]
    BY <1>3, <2>1, InboxType DEF Complete, IInv
  <2>3. ~Capturing(c) /\ UNCHANGED <<phase, captures, expectHold, request, triggers>>
    BY <1>3 DEF Complete, Capturing
  <2>4. Goto(c, "hold") \/ Goto(c, "return")
    BY <1>3 DEF Complete
  <2>5. IInv' /\ UNCHANGED dump
    BY <2>2, <2>3, <2>4, CallbackStep DEF CallbackSteps
  <2> QED
    BY <2>5 DEF KeepsFull
<1>4. CASE HoldTimeout(c)
  <2>1. inbox' \in [Controllers -> SUBSET Messages]
    BY <1>4 DEF HoldTimeout, IInv, TypeOK
  <2>2. /\ Goto(c, "return") /\ ~Capturing(c)
        /\ UNCHANGED <<phase, captures, expectHold, request, triggers>>
    BY <1>4 DEF HoldTimeout, Capturing
  <2>3. IInv' /\ UNCHANGED dump
    BY <2>1, <2>2, CallbackStep DEF CallbackSteps
  <2> QED
    BY <2>3 DEF KeepsFull
<1>5. CASE Return(c)
  <2>1. CASE Reset(c) /\ inbox' \in {inbox, [inbox EXCEPT ![c] = {}]}
             /\ request' = [request EXCEPT ![c] = FALSE]
    <3>1. inbox' \in [Controllers -> SUBSET Messages]
      BY <2>1, InboxType DEF IInv
    <3>2. request' \in [Controllers -> BOOLEAN] /\ triggers' \in 0 .. MaxTriggers
      BY <1>5, <2>1 DEF Return, IInv, TypeOK
    <3>3. IInv' /\ UNCHANGED dump
      BY <2>1, <3>1, <3>2, ResetStep
    <3> QED
      BY <3>3 DEF KeepsFull
  <2>2. CASE ~callback[c].recursive /\ callback' = [callback EXCEPT ![c] = NoCallback]
             /\ UNCHANGED <<phase, captures, expectHold, inbox, request>>
    <3>1. callback[c].pc = "return" /\ UNCHANGED <<locking, lockOnTop, inProgress, dump, triggers>>
      BY <1>5, <2>2 DEF Return, captures
    <3>2. TypeOK'
      BY <2>2, <3>1, CallbackFacts DEF IInv, TypeOK
    <3>3. /\ callback'[c].pc = "idle" /\ ~callback'[c].recursive
          /\ \A d \in Controllers \ {c} : callback'[d] = callback[d]
      BY <2>2 DEF IInv, TypeOK, NoCallback
    <3>4. OneWriter' /\ FlagOwned' /\ FlagSet' /\ RecursiveRuns'
      BY <2>2, <3>1, <3>3 DEF IInv, OneWriter, FlagOwned, FlagSet, Capturing, RecursiveRuns, InCallback
    <3> QED
      BY <3>1, <3>2, <3>4 DEF IInv, KeepsFull
  <2> QED
    BY <1>5, <2>1, <2>2 DEF Return
<1> QED
  BY <1>1, <1>2, <1>3, <1>4, <1>5 DEF CallbackNext

LEMMA HandlerNextStep ==
  ASSUME IInv, NEW c \in Controllers, HandlerNext(c) PROVE IInv' /\ KeepsFull
<1>1. CASE HandleLock(c)
  BY <1>1, HandleLockStep DEF KeepsFull
<1>2. CASE CaptureLock(c)
  BY <1>2, CaptureLockStep DEF KeepsFull
<1>3. CASE HandleComplete(c)
  <2>1. inbox' \in [Controllers -> SUBSET Messages]
    BY <1>3, InboxType DEF HandleComplete, IInv, Messages
  <2>2. UNCHANGED <<phase, callback, locking, lockOnTop, inProgress, dump, expectHold,
                    request, triggers>>
    BY <1>3 DEF HandleComplete, captures
  <2> QED
    BY <2>1, <2>2 DEF IInv, TypeOK, OneWriter, FlagOwned, FlagSet, Capturing, RecursiveRuns, InCallback, KeepsFull
<1>4. ASSUME NEW m \in Requests, HandleRequest(c, m) PROVE IInv' /\ KeepsFull
  <2>1. inbox[c] \ {m} \in SUBSET Messages /\ "LOCK" \in Messages
    BY DEF IInv, TypeOK, Messages
  <2>2. inbox' \in [Controllers -> SUBSET Messages]
    BY <1>4, <2>1, InboxType DEF HandleRequest, IInv
  <2>3. UNCHANGED <<phase, request, triggers>> /\ triggers' \in 0 .. MaxTriggers
    BY <1>4 DEF HandleRequest, IInv, TypeOK
  <2>4. CASE phase[c] = "on"
    <3>1. EnterCallback(c, TRUE, FALSE)
      BY <1>4, <2>4 DEF HandleRequest
    <3>2. expectHold' \in [Controllers -> BOOLEAN]
      BY <1>4, <2>4 DEF HandleRequest, IInv, TypeOK
    <3>3. IInv' /\ UNCHANGED dump
      BY <2>2, <2>3, <3>1, <3>2, EnterStep
    <3> QED
      BY <3>3 DEF KeepsFull
  <2>5. CASE phase[c] # "on"
    <3>1. UNCHANGED <<callback, locking, lockOnTop, inProgress, dump, expectHold>>
      BY <1>4, <2>5 DEF HandleRequest, captures
    <3> QED
      BY <2>2, <2>3, <3>1
      DEF IInv, TypeOK, OneWriter, FlagOwned, FlagSet, Capturing, RecursiveRuns, InCallback, KeepsFull
  <2> QED
    BY <2>4, <2>5
<1> QED
  BY <1>1, <1>2, <1>3, <1>4 DEF HandlerNext

LEMMA OtherStep ==
  ASSUME IInv, NEW c \in Controllers, Boot(c) \/ ResetAlt(c) \/ EnvironmentNext(c)
  PROVE  IInv' /\ KeepsFull
<1>1. CASE Boot(c)
  <2>1. /\ phase' \in [Controllers -> Phases]
        /\ UNCHANGED <<callback, locking, lockOnTop, inProgress, dump, expectHold, inbox,
                       request, triggers>>
    BY <1>1 DEF Boot, captures, IInv, TypeOK, Phases
  <2> QED
    BY <2>1 DEF IInv, TypeOK, OneWriter, FlagOwned, FlagSet, Capturing, RecursiveRuns, InCallback, KeepsFull
<1>2. CASE ResetAlt(c)
  <2>1. Alt[c] \in Controllers /\ Reset(Alt[c])
    BY <1>2, AltAssumption DEF ResetAlt
  <2>2. inbox' \in [Controllers -> SUBSET Messages]
    BY <1>2, <2>1 DEF ResetAlt, IInv, TypeOK
  <2>3. request' \in [Controllers -> BOOLEAN] /\ triggers' \in 0 .. MaxTriggers
    BY <1>2, <2>1 DEF ResetAlt, IInv, TypeOK
  <2>4. IInv' /\ UNCHANGED dump
    BY <2>1, <2>2, <2>3, ResetStep
  <2> QED
    BY <2>4 DEF KeepsFull
<1>3. ASSUME NEW full \in BOOLEAN, NEW exempt \in BOOLEAN, Panic(c, full, exempt)
      PROVE  IInv' /\ KeepsFull
  <2>1. inbox[c] \in SUBSET Messages /\ "LOCK" \in Messages
    BY DEF IInv, TypeOK, Messages
  <2>2. inbox' \in [Controllers -> SUBSET Messages]
    BY <1>3, <2>1, InboxType DEF Panic, IInv
  <2>3. /\ EnterCallback(c, full, exempt) /\ UNCHANGED <<phase, request>>
        /\ expectHold' \in [Controllers -> BOOLEAN] /\ triggers' \in 0 .. MaxTriggers
    BY <1>3, TriggersAssumption DEF Panic, IInv, TypeOK
  <2>4. IInv' /\ UNCHANGED dump
    BY <2>2, <2>3, EnterStep
  <2> QED
    BY <2>4 DEF KeepsFull
<1>4. ASSUME NEW m \in Requests, Request(c, m) PROVE IInv' /\ KeepsFull
  <2>1. inbox[c] \in SUBSET Messages /\ m \in Messages
    BY DEF IInv, TypeOK, Messages
  <2>2. inbox' \in [Controllers -> SUBSET Messages]
    BY <1>4, <2>1, InboxType DEF Request, IInv
  <2>3. /\ UNCHANGED <<phase, callback, locking, lockOnTop, inProgress, dump, expectHold>>
        /\ request' \in [Controllers -> BOOLEAN] /\ triggers' \in 0 .. MaxTriggers
    BY <1>4, TriggersAssumption DEF Request, captures, IInv, TypeOK
  <2> QED
    BY <2>2, <2>3 DEF IInv, TypeOK, OneWriter, FlagOwned, FlagSet, Capturing, RecursiveRuns, InCallback, KeepsFull
<1>5. CASE Crash(c)
  <2>1. inbox' \in [Controllers -> SUBSET Messages]
    BY <1>5, InboxType DEF Crash, IInv
  <2>2. request' \in [Controllers -> BOOLEAN] /\ triggers' \in 0 .. MaxTriggers
    BY <1>5, TriggersAssumption DEF Crash, IInv, TypeOK
  <2>3. IInv' /\ UNCHANGED dump
    BY <1>5, <2>1, <2>2, ResetStep DEF Crash
  <2> QED
    BY <2>3 DEF KeepsFull
<1>6. CASE FreeDump(c)
  <2>1. /\ dump' = [dump EXCEPT ![c] = "other"]
        /\ UNCHANGED <<phase, callback, locking, lockOnTop, inProgress, expectHold, inbox,
                       request, triggers>>
    BY <1>6 DEF FreeDump
  <2>2. \A d \in Controllers : dump'[d] \in {dump[d], "other"}
    BY <2>1 DEF IInv, TypeOK
  <2>3. TypeOK'
    BY <2>1 DEF IInv, TypeOK, Dumps
  <2> QED
    BY <2>1, <2>2, <2>3 DEF IInv, OneWriter, FlagOwned, FlagSet, Capturing, RecursiveRuns, InCallback, KeepsFull
<1> QED
  BY <1>1, <1>2, <1>3, <1>4, <1>5, <1>6 DEF EnvironmentNext

LEMMA IInvInit == Init => IInv
<1> SUFFICES ASSUME Init PROVE IInv
  OBVIOUS
<1>1. 0 \in 0 .. MaxTriggers
  BY TriggersAssumption
<1>2. TypeOK
  BY <1>1, CallbackFacts DEF Init, TypeOK, Phases
<1>3. \A c \in Controllers : ~locking[c] /\ ~callback[c].recursive /\ callback[c].pc = "idle"
                               /\ ~inProgress[c]
  BY DEF Init, NoCallback
<1> QED
  BY <1>2, <1>3 DEF IInv, OneWriter, FlagOwned, FlagSet, Capturing, RecursiveRuns, InCallback

LEMMA IInvNext == IInv /\ [Next]_vars => IInv' /\ KeepsFull
<1> SUFFICES ASSUME IInv, [Next]_vars PROVE IInv' /\ KeepsFull
  OBVIOUS
<1>1. CASE UNCHANGED vars
  BY <1>1 DEF vars, captures, IInv, TypeOK, OneWriter, FlagOwned, FlagSet, Capturing, RecursiveRuns, InCallback, KeepsFull
<1>2. ASSUME NEW c \in Controllers, ControllerNext(c) \/ EnvironmentNext(c)
      PROVE  IInv' /\ KeepsFull
  BY <1>2, CallbackNextStep, HandlerNextStep, OtherStep DEF ControllerNext
<1> QED
  BY <1>1, <1>2 DEF Next

-----------------------------------------------------------------------------
(* Theorems.                                                                *)

LEMMA InductiveInvariant == Spec => []IInv
BY IInvInit, IInvNext, PTL DEF Spec

\* Every variable holds values of its type.
THEOREM TypesStay == Spec => []TypeOK
BY InductiveInvariant, PTL DEF IInv

\* At most one of the captures of a controller runs, whoever interrupts whom.
THEOREM OneWriterAtATime == Spec => []OneWriter
BY InductiveInvariant, PTL DEF IInv

\* m_CoreDumpInProgress never stays set on a controller that goes on running.
THEOREM FlagIsOwned == Spec => []FlagOwned
BY InductiveInvariant, PTL DEF IInv

\* No lock dump, request or crossing of messages costs a full dump that nobody
\* has retrieved.
THEOREM FullDumpStays == Spec => FullDumpKept
<1>1. IInv /\ [Next]_vars =>
        [ \A c \in Controllers :
            dump[c] = "full" /\ dump'[c] # "full" =>
              \/ UNCHANGED <<callback, locking>>
              \/ callback[c].exempt /\ callback'[c].pc = "capture" ]_vars
  BY IInvNext DEF KeepsFull
<1> QED
  BY <1>1, InductiveInvariant, PTL DEF Spec, FullDumpKept
=============================================================================
