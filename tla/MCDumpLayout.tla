---------------------------- MODULE MCDumpLayout ----------------------------
(* Instance of DumpLayout for TLC.                                          *)
EXTENDS DumpLayout

Block(n) == [kind |-> "block", size |-> n]

\* The check, the block header and the body of one queue.
Body(n) == <<[kind |-> "fits", size |-> n], Block(1), [kind |-> "body", size |-> n]>>

\* copyTraceDq with the trace queue alone: labels and parameters go through
\* dcdDqDump like the block header.
SomePlans == { Body(2) }
=============================================================================
