------------------------------ MODULE DualNmi ------------------------------
(***************************************************************************)
(* How the controllers of an array ask each other for core dumps:          *)
(* dcdCoreDumpCallback, which runs in every reboot that may dump, and      *)
(* dcdCoreDumpNmiHandler, which serves the messages of the other           *)
(* controller.  A message is an NMI with a mailbox: sent twice it is there *)
(* once, and a receiver in reset may or may not find it later.             *)
(*                                                                         *)
(* Three activities share a controller.  The handler interrupts whatever   *)
(* runs, and may capture a lock dump (`locking').  A panic, or a request   *)
(* by NMI, interrupts that and enters the callback; one that comes while   *)
(* the callback runs enters it again, and the outer one never goes on      *)
(* ("recursive reboot").  m_CoreDumpInProgress keeps their captures apart. *)
(*                                                                         *)
(* What a capture does to the dump there is (module CoreDumpMgr) is        *)
(* reduced to `dump'.  Who asks for a dump, and what it does on the answer *)
(* (altReset, altResetHold, dcdmDcdmMgr) is not in the repository: it      *)
(* resets the other controller on ALT_NMI_CORE_DUMP_COMPLETE or after a    *)
(* time of its own, as the comments of the handler say.  It also serves    *)
(* ALT_NMI_CORE_DUMP_IN_PROGRESS, which the handler here ignores and the   *)
(* model leaves out.                                                       *)
(***************************************************************************)
EXTENDS Naturals

CONSTANTS
  Controllers, \* the controllers of the array
  Alt,         \* the alternate of each controller
  MaxTriggers  \* bound: panics, requests and crashes together

ASSUME AltAssumption ==
  /\ Alt \in [Controllers -> Controllers]
  /\ \A c \in Controllers : Alt[c] # c /\ Alt[Alt[c]] = c
ASSUME TriggersAssumption == MaxTriggers \in Nat

\* ALT_NMI_FULL_CORE_DUMP, ALT_NMI_CORE_DUMP_RESET_HOLD, ALT_NMI_LOCK_CORE_DUMP,
\* ALT_NMI_CORE_DUMP_COMPLETE.
Requests == {"FULL", "RESET_HOLD"}
Messages == Requests \cup {"LOCK", "COMPLETE"}

\* "created": the handler is installed; "registered": so is the callback, while
\* initialize() still runs; "on": m_InitComplete.
Phases == {"off", "created", "registered", "on"}

\* "full" is a full dump nobody has retrieved, younger than the overwrite
\* threshold; "other" is any other dump, or none.
Dumps == {"full", "other"}

\* A run of the callback: its step, whether the reboot reason may overwrite any
\* dump, and isRecursive.
CallbackSteps == {"idle", "trigger", "capture", "complete", "hold", "return"}
Callback == [pc : CallbackSteps, exempt : BOOLEAN, recursive : BOOLEAN]
NoCallback == [pc |-> "idle", exempt |-> FALSE, recursive |-> FALSE]

VARIABLES
  phase,      \* how far each controller has come since its reset
  callback,   \* the run of dcdCoreDumpCallback
  locking,    \* the handler is capturing a lock dump
  lockOnTop,  \* ... and has interrupted the callback, not the other way round
  inProgress, \* m_CoreDumpInProgress
  expectHold, \* expectResetHold
  dump,       \* the dump the controller holds
  inbox,      \* NMI messages that have arrived and are not served yet
  request,    \* has the controller asked the other one for a dump?
  triggers    \* ghost: panics, requests and crashes so far

captures == <<locking, lockOnTop, inProgress, dump>>
vars == <<phase, callback, captures, expectHold, inbox, request, triggers>>

Init ==
  /\ phase = [c \in Controllers |-> "off"]
  /\ callback = [c \in Controllers |-> NoCallback]
  /\ locking = [c \in Controllers |-> FALSE]
  /\ lockOnTop = [c \in Controllers |-> FALSE]
  /\ inProgress = [c \in Controllers |-> FALSE]
  /\ expectHold = [c \in Controllers |-> FALSE]
  /\ dump \in [Controllers -> Dumps]
  /\ inbox = [c \in Controllers |-> {}]
  /\ request = [c \in Controllers |-> FALSE]
  /\ triggers = 0

-----------------------------------------------------------------------------
InCallback(c) == callback[c].pc # "idle"

\* Whose code runs when both have begun and neither has ended.
LockRuns(c)     == locking[c] /\ (lockOnTop[c] \/ ~InCallback(c))
CallbackRuns(c) == InCallback(c) /\ ~(locking[c] /\ lockOnTop[c])

\* altCtlSendNmi: a message may be lost.  `mine' is left in c's own mailbox.
Send(c, m, mine) ==
  \E arrived \in SUBSET {m} :
    inbox' = [inbox EXCEPT ![c] = mine, ![Alt[c]] = @ \cup arrived]

Consume(c, m) == inbox' = [inbox EXCEPT ![c] = @ \ {m}]

Goto(c, step) == callback' = [callback EXCEPT ![c].pc = step]

\* A reset of c.  The dump lies in RPA memory and survives.
Reset(c) ==
  /\ phase' = [phase EXCEPT ![c] = "off"]
  /\ callback' = [callback EXCEPT ![c] = NoCallback]
  /\ locking' = [locking EXCEPT ![c] = FALSE]
  /\ lockOnTop' = [lockOnTop EXCEPT ![c] = FALSE]
  /\ inProgress' = [inProgress EXCEPT ![c] = FALSE]
  /\ expectHold' = [expectHold EXCEPT ![c] = FALSE]
  /\ UNCHANGED dump

\* VKI_REBOOT calls the callback, on top of whatever runs.
EnterCallback(c, full, exempt) ==
  /\ callback' = [callback EXCEPT ![c] =
       [pc |-> IF full THEN "trigger" ELSE "return",
        exempt |-> full /\ exempt, recursive |-> InCallback(c)]]
  /\ lockOnTop' = [lockOnTop EXCEPT ![c] = FALSE]
  /\ UNCHANGED <<locking, inProgress, dump>>

\* Seeded bug: a capture in progress is not asked for.
RefusedAtBoot(c) == phase[c] # "on"

\* triggerCoreDump as far as the first write to the region: refused before
\* initialize() is done and while a capture is in progress.
Refused(c) == phase[c] # "on" \/ inProgress[c]

\* overwriteCoredump finds a dump that has to stay.
Kept(c, exempt) == dump[c] = "full" /\ ~exempt

BeginCapture(c) ==
  /\ inProgress' = [inProgress EXCEPT ![c] = TRUE]
  /\ dump' = [dump EXCEPT ![c] = "other"]

\* A capture ends, and triggerCoreDump returns.
EndCapture(c, result) ==
  /\ inProgress' = [inProgress EXCEPT ![c] = FALSE]
  /\ dump' = [dump EXCEPT ![c] = result]

-----------------------------------------------------------------------------
(* Start of day: instantiate() and initialize().                            *)

Boot(c) ==
  /\ ~InCallback(c)
  /\ \/ phase[c] = "off" /\ phase' = [phase EXCEPT ![c] = "created"]
     \/ phase[c] = "created" /\ phase' = [phase EXCEPT ![c] = "registered"]
     \/ phase[c] = "registered" /\ phase' = [phase EXCEPT ![c] = "on"]
  /\ UNCHANGED <<callback, captures, expectHold, inbox, request, triggers>>

-----------------------------------------------------------------------------
(* dcdCoreDumpCallback.                                                     *)

\* The reason matters to overwriteCoredump only.
AfterTrigger(c, step) ==
  callback' = [callback EXCEPT ![c] = [@ EXCEPT !.pc = step, !.exempt = FALSE]]

\* Seeded bug: a dump that must be kept ends the call and leaves the flag set.
TriggerFullFlagLeft(c) ==
  /\ CallbackRuns(c) /\ callback[c].pc = "trigger"
  /\ IF Refused(c) \/ Kept(c, callback[c].exempt)
     THEN /\ AfterTrigger(c, "complete")
          /\ inProgress' = [inProgress EXCEPT ![c] = TRUE]
          /\ UNCHANGED dump
     ELSE BeginCapture(c) /\ AfterTrigger(c, "capture")
  /\ UNCHANGED <<phase, locking, lockOnTop, expectHold, inbox, request, triggers>>

\* triggerCoreDump(FULL_DUMP, Reboot_Reason).  A failure waits for 20 ms before
\* its message goes out.
TriggerFull(c) ==
  /\ CallbackRuns(c) /\ callback[c].pc = "trigger"
  /\ IF Refused(c) \/ Kept(c, callback[c].exempt)
     THEN AfterTrigger(c, "complete") /\ UNCHANGED <<inProgress, dump>>
     ELSE BeginCapture(c) /\ AfterTrigger(c, "capture")
  /\ UNCHANGED <<phase, locking, lockOnTop, expectHold, inbox, request, triggers>>

CaptureFull(c) ==
  /\ CallbackRuns(c) /\ callback[c].pc = "capture"
  /\ \E result \in Dumps : EndCapture(c, result)
  /\ Goto(c, "complete")
  /\ UNCHANGED <<phase, locking, lockOnTop, expectHold, inbox, request, triggers>>

Complete(c) ==
  /\ CallbackRuns(c) /\ callback[c].pc = "complete"
  /\ Send(c, "COMPLETE", inbox[c])
  /\ Goto(c, IF expectHold[c] THEN "hold" ELSE "return")
  /\ UNCHANGED <<phase, captures, expectHold, request, triggers>>

\* Nobody has reset the controller within WAIT_TO_BE_HELD_IN_RESET_TIMEOUT.
HoldTimeout(c) ==
  /\ CallbackRuns(c) /\ callback[c].pc = "hold"
  /\ Goto(c, "return")
  /\ UNCHANGED <<phase, captures, expectHold, inbox, request, triggers>>

\* The reboot goes on, or it is aborted and whatever it had interrupted runs on.
\* A recursive reboot is not aborted.
Return(c) ==
  /\ CallbackRuns(c) /\ callback[c].pc = "return"
  /\ \/ /\ Reset(c)
        /\ inbox' \in {inbox, [inbox EXCEPT ![c] = {}]}
        /\ request' = [request EXCEPT ![c] = FALSE]
     \/ /\ ~callback[c].recursive
        /\ callback' = [callback EXCEPT ![c] = NoCallback]
        /\ UNCHANGED <<phase, captures, expectHold, inbox, request>>
  /\ UNCHANGED triggers

-----------------------------------------------------------------------------
(* dcdCoreDumpNmiHandler.  It runs as soon as the constructor has installed  *)
(* it, and interrupts the callback and captures alike.                       *)

Serves(c, m) == phase[c] # "off" /\ m \in inbox[c]

\* ALT_NMI_FULL_CORE_DUMP, ALT_NMI_CORE_DUMP_RESET_HOLD: LOCK goes back, and the
\* controller reboots if it is initialized.
HandleRequest(c, m) ==
  /\ Serves(c, m)
  /\ Send(c, "LOCK", inbox[c] \ {m})
  /\ IF phase[c] = "on"
     THEN /\ expectHold' = [expectHold EXCEPT ![c] = @ \/ m = "RESET_HOLD"]
          /\ EnterCallback(c, TRUE, FALSE)
     ELSE UNCHANGED <<callback, captures, expectHold>>
  /\ UNCHANGED <<phase, request, triggers>>

BeginLock(c) ==
  /\ BeginCapture(c)
  /\ locking' = [locking EXCEPT ![c] = TRUE]
  /\ lockOnTop' = [lockOnTop EXCEPT ![c] = TRUE]

\* Seeded bug: a lock dump overwrites any dump.
HandleLockOverwrites(c) ==
  /\ Serves(c, "LOCK")
  /\ Consume(c, "LOCK")
  /\ UNCHANGED captures \/ (~Refused(c) /\ BeginLock(c))
  /\ UNCHANGED <<phase, callback, expectHold, request, triggers>>

\* Seeded bug: a controller that is asked for a lock dump asks for one, too.
HandleLockAnswers(c) ==
  /\ Serves(c, "LOCK")
  /\ Send(c, "LOCK", inbox[c] \ {"LOCK"})
  /\ UNCHANGED captures \/ (~Refused(c) /\ ~Kept(c, FALSE) /\ BeginLock(c))
  /\ UNCHANGED <<phase, callback, expectHold, request, triggers>>

\* ALT_NMI_LOCK_CORE_DUMP: triggerCoreDump(ALT_DUMP), unless the shell has set
\* m_DcdDualFullCoreDump, which it may do at any time.
HandleLock(c) ==
  /\ Serves(c, "LOCK")
  /\ Consume(c, "LOCK")
  /\ UNCHANGED captures \/ (~Refused(c) /\ ~Kept(c, FALSE) /\ BeginLock(c))
  /\ UNCHANGED <<phase, callback, expectHold, request, triggers>>

\* ... and its end: back to what was interrupted.
CaptureLock(c) ==
  /\ LockRuns(c)
  /\ EndCapture(c, "other")
  /\ locking' = [locking EXCEPT ![c] = FALSE]
  /\ lockOnTop' = [lockOnTop EXCEPT ![c] = FALSE]
  /\ UNCHANGED <<phase, callback, expectHold, inbox, request, triggers>>

\* ALT_NMI_CORE_DUMP_COMPLETE with nothing requested: nobody takes notice.
HandleComplete(c) ==
  /\ Serves(c, "COMPLETE")
  /\ ~request[c]
  /\ Consume(c, "COMPLETE")
  /\ UNCHANGED <<phase, callback, captures, expectHold, request, triggers>>

-----------------------------------------------------------------------------
(* The rest of the system.                                                  *)

\* A panic, an assertion or a command reboots the controller.  The callback
\* sends LOCK if dumpInfo says so, which is the same as a message that is lost.
Panic(c, full, exempt) ==
  /\ triggers < MaxTriggers
  /\ phase[c] \in {"registered", "on"}
  /\ Send(c, "LOCK", inbox[c])
  /\ EnterCallback(c, full, exempt)
  /\ triggers' = triggers + 1
  /\ UNCHANGED <<phase, expectHold, request>>

\* altReset or altResetHold with the core dump bit set.
Request(c, m) ==
  /\ triggers < MaxTriggers
  /\ phase[c] = "on" /\ ~InCallback(c) /\ ~request[c]
  /\ request' = [request EXCEPT ![c] = TRUE]
  /\ Send(c, m, inbox[c])
  /\ triggers' = triggers + 1
  /\ UNCHANGED <<phase, callback, captures, expectHold>>

\* The requester resets the other controller: it has its answer, or the time is up.
ResetAlt(c) ==
  /\ phase[c] # "off" /\ request[c]
  /\ \E mine \in {inbox[c], inbox[c] \ {"COMPLETE"}}, theirs \in {inbox[Alt[c]], {}} :
       inbox' = [inbox EXCEPT ![c] = mine, ![Alt[c]] = theirs]
  /\ Reset(Alt[c])
  /\ request' = [request EXCEPT ![c] = FALSE, ![Alt[c]] = FALSE]
  /\ UNCHANGED triggers

\* A reset without a dump.
Crash(c) ==
  /\ triggers < MaxTriggers
  /\ phase[c] # "off"
  /\ Reset(c)
  /\ inbox' \in {inbox, [inbox EXCEPT ![c] = {}]}
  /\ request' = [request EXCEPT ![c] = FALSE]
  /\ triggers' = triggers + 1

\* The dump is retrieved, or grows older than the threshold.
FreeDump(c) ==
  /\ dump[c] = "full"
  /\ dump' = [dump EXCEPT ![c] = "other"]
  /\ UNCHANGED <<phase, callback, locking, lockOnTop, inProgress, expectHold, inbox,
                 request, triggers>>

-----------------------------------------------------------------------------
CallbackNext(c) ==
  TriggerFull(c) \/ CaptureFull(c) \/ Complete(c) \/ HoldTimeout(c) \/ Return(c)

HandlerNext(c) ==
  HandleLock(c) \/ CaptureLock(c) \/ HandleComplete(c) \/ \E m \in Requests : HandleRequest(c, m)

ControllerNext(c) == Boot(c) \/ CallbackNext(c) \/ HandlerNext(c) \/ ResetAlt(c)

EnvironmentNext(c) ==
  \/ \E full, exempt \in BOOLEAN : Panic(c, full, exempt)
  \/ \E m \in Requests : Request(c, m)
  \/ Crash(c) \/ FreeDump(c)

Next == \E c \in Controllers : ControllerNext(c) \/ EnvironmentNext(c)

Spec == Init /\ [][Next]_vars

\* The controllers run on, and the requester's time expires.
FairSpec == Spec /\ WF_vars(\E c \in Controllers : ControllerNext(c))

-----------------------------------------------------------------------------
(* Properties.                                                              *)

\* Every variable holds values of its type.
TypeOK ==
  /\ phase \in [Controllers -> Phases]
  /\ callback \in [Controllers -> Callback]
  /\ locking \in [Controllers -> BOOLEAN] /\ lockOnTop \in [Controllers -> BOOLEAN]
  /\ inProgress \in [Controllers -> BOOLEAN] /\ expectHold \in [Controllers -> BOOLEAN]
  /\ request \in [Controllers -> BOOLEAN]
  /\ dump \in [Controllers -> Dumps]
  /\ inbox \in [Controllers -> SUBSET Messages]
  /\ triggers \in 0 .. MaxTriggers

Capturing(c) == callback[c].pc = "capture"

\* The lock dump and the full dump share one record and one manager: whichever of
\* handler, panic and recursive reboot interrupts the other, at most one of them
\* captures, and no dump that matters is there while it does.
OneWriter ==
  \A c \in Controllers :
    /\ ~(locking[c] /\ Capturing(c))
    /\ locking[c] \/ Capturing(c) => dump[c] = "other"

\* m_CoreDumpInProgress belongs to a capture that will end, or to one that a
\* recursive reboot has abandoned, and then only the reset is to come: no
\* sequence of refusals and interruptions leaves a running controller refusing
\* every dump.
FlagOwned ==
  \A c \in Controllers :
    inProgress[c] => locking[c] \/ Capturing(c) \/ callback[c].recursive

\* A full dump that nobody has retrieved is given up only to a full dump with an
\* exempt reason, never to the lock dump that the other controller asks for when
\* it panics at the same time, nor to a request, nor to a reset.
FullDumpKept ==
  [][ \A c \in Controllers :
        dump[c] = "full" /\ dump'[c] # "full" =>
          \/ UNCHANGED <<callback, locking>>
          \/ callback[c].exempt /\ callback'[c].pc = "capture" ]_vars

Quiet(c) == phase[c] = "on" /\ ~InCallback(c) /\ ~locking[c] /\ ~request[c] /\ inbox[c] = {}

\* After the last panic, both controllers come up and come to rest: messages lost,
\* late or crossing leave nobody waiting for the other one, and no exchange of
\* messages goes on for ever.
Settles == <>[](\A c \in Controllers : Quiet(c))
=============================================================================
