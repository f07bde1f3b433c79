--------------------------- MODULE MCCoreDumpMgr ---------------------------
(* Instance of CoreDumpMgr for TLC. *)
EXTENDS CoreDumpMgr

\* The clock is never set.
SteadyClock == {0}

\* The clock may be set back by one tick: with this one in store.cfg, TLC finds
\* UnretrievedProtected violated.
SteppingClock == {-1, 0}
=============================================================================
