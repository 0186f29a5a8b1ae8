-------------------------- MODULE MC_DedicatedBlocks --------------------------
(* Dedicated blocks where the system aligns regions to pages, as mmap does,*)
(* and not to the cells of the radix map.  dedicatedShardIndex takes       *)
(* (Address >> 4) ^ (Address >> 16) modulo the number of shards: with a    *)
(* power of two up to 256 that is the same for addresses of one cell at the*)
(* same offset in their pages.                                             *)
EXTENDS DedicatedBlocks

CONSTANTS t1, t2, n1, n2

MCThreads == {t1, t2}
MCNodes == {n1, n2}
MCPages == 0 .. 5
MCSizes == {1, 2}
MCShards == {0, 1}
MCShardOf == [p \in MCPages |-> (p \div 2) % 2]
MCBucketIndex == [s \in MCSizes |-> 0]
=============================================================================
