--------------------------- MODULE MC_CentralPool ---------------------------
(* Small instances of CentralPool for TLC.                                 *)
EXTENDS CentralPool, TLC

CONSTANTS t1, t2, t3

(* Two threads that hash to different bucket shards.                       *)
TwoShards == t1 :> 0 @@ t2 :> 1

(* Two threads of one shard and a third of another.                        *)
ThreeThreads == t1 :> 0 @@ t2 :> 0 @@ t3 :> 1

(* All threads use one page shard.                                         *)
OnePageShard == [t \in Threads |-> 0]

Interchangeable == Permutations(SpanObjs) \cup Permutations(Extents)
=============================================================================
