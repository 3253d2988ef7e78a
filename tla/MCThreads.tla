----------------------------- MODULE MCThreads -----------------------------
(***************************************************************************)
(* Two threads besides the MicroPython task and the interrupts task, and   *)
(* an interrupts queue short enough to be full.                            *)
(***************************************************************************)
EXTENDS Threads

CONSTANTS t1, t2

MCThreads == {t1, t2}
=============================================================================
