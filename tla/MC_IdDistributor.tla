-------------------------- MODULE MC_IdDistributor --------------------------
(* A small instance of IdDistributor.                                      *)
EXTENDS IdDistributor

CONSTANTS t1, t2

TwoThreads == {t1, t2}

(* Neighbouring ids live in different stripes.                             *)
Alternating == [i \in Ids |-> i % NumStripes]
=============================================================================
