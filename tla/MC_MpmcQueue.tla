---------------------------- MODULE MC_MpmcQueue ----------------------------
(* Small instances of MpmcQueue.                                           *)
EXTENDS MpmcQueue

CONSTANTS t1, t2, t3

TwoThreads   == {t1, t2}
ThreeThreads == {t1, t2, t3}
=============================================================================
