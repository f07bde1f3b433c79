----------------------------- MODULE DumpStore -----------------------------
(***************************************************************************)
(* What the core dump manager promises its clients, without saying how: a  *)
(* durable store with room for one dump.  Dumps are numbered in the order  *)
(* in which their captures began.                                          *)
(*                                                                         *)
(*  - A capture never shows anything to clients until it is whole, and     *)
(*    then shows exactly the dump it has captured.                         *)
(*  - Clients see the stored dump or nothing.                              *)
(*  - A restart hides the dump; afterwards the same dump appears again or  *)
(*    it is gone for good.  No older dump ever comes back.                 *)
(***************************************************************************)
EXTENDS Naturals

CONSTANT MaxDumps  \* bound: captures begun

None == 0

VARIABLES
  stored,  \* the dump that is in the store
  served,  \* the dump that clients see
  begun,   \* captures begun so far; the number of the latest one
  busy     \* has the latest capture begun, and neither ended nor been lost?

storeVars == <<stored, served, begun, busy>>

StoreInit == stored = None /\ served = None /\ begun = 0 /\ ~busy

\* The dump goes before the capture that replaces it begins.
Drop ==
  /\ stored' = None /\ served' = None
  /\ UNCHANGED <<begun, busy>>

Begin ==
  /\ stored = None /\ begun < MaxDumps
  /\ begun' = begun + 1
  /\ busy' \in BOOLEAN \* FALSE: it fails at once
  /\ UNCHANGED <<stored, served>>

Publish ==
  /\ busy
  /\ stored' = begun /\ served' = begun
  /\ busy' = FALSE
  /\ UNCHANGED begun

GiveUp ==
  /\ busy
  /\ busy' = FALSE
  /\ UNCHANGED <<stored, served, begun>>

Restart ==
  /\ served' = None
  /\ busy' = FALSE
  /\ UNCHANGED <<stored, begun>>

Recover ==
  /\ served' = stored
  /\ UNCHANGED <<stored, begun, busy>>

StoreNext == Drop \/ Begin \/ Publish \/ GiveUp \/ Restart \/ Recover

StoreSpec == StoreInit /\ [][StoreNext]_storeVars
=============================================================================
