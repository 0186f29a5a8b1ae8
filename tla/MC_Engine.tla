------------------------------ MODULE MC_Engine ------------------------------
(* Small instances of what the engine does around its pools behind one: the*)
(* quarantine, the dedicated blocks, the layout of a block, the events and *)
(* the tracker that hears them.  A behaviour exercises one of them, the    *)
(* subject; the others stay as they were constructed.                      *)
EXTENDS Naturals

CONSTANTS
  Threads, Blocks, BlockSize, Lifetime, Reused, Shards, Capacity, ByteLimit, EntryLimit,  \* Quarantine
  ByteModulus, ShardOf, Warmers, MaxCalls,
  Addresses, AskedSize, OsPointers, BoundFirst,  \* MemoryEvents, with the threads, width and calls above
  t1, t2, b1, b2, b3, p1, p2, e1, n1, n2, detector, statistics, None

VARIABLES
  subject,
  onlyOnFlush, place, ring, claimed, ringBytes, stale, reported, freePc, call, frees, missed,
  reserved, committed, blocks, map, record, free, grown, key, cached, holder, cachedBytes,
  regionPc, regionWork, regionCalls, astray,
  guards, request, layout, raw, user, layoutPc, touched, corrupt,
  snapshot, bindMutex, owned, live, current, peak, counts, eventPc, eventWork, eventCalls,
  times, skewed, lost,
  held, tracker, hooked, trackerMutex, hookWork, hookCalls, wrong, misled

(* One block is larger than the limit; all threads use the second shard.   *)
OneLarge == [b \in Blocks |-> IF b = b3 THEN 3 ELSE 1]
OnePersistent == [b \in Blocks |-> IF b = b3 THEN "Persistent" ELSE "Cached"]
SecondShard == [t \in Threads |-> 2]

(* One allocation asks for a byte, the other for two.                      *)
OneOrTwo == [p \in Addresses |-> IF p = p1 THEN 1 ELSE 2]
DetectorFirst == <<detector, statistics>>

QU == INSTANCE Quarantine WITH bytes <- ringBytes, pc <- freePc, calls <- frees

(* The granule is a cell of the radix map: see DedicatedBlocks_cells for a *)
(* smaller one.                                                            *)
DB == INSTANCE DedicatedBlocks WITH
  Threads <- {t1, t2}, Pages <- 0 .. 5, PagesPerCell <- 2, Granule <- 2, Sizes <- {1, 2}, SmallPage <- 0,
  Shards <- {0, 1}, ShardOf <- [p \in 0 .. 5 |-> p % 2], MapCapacity <- 1,
  Nodes <- {n1, n2}, ChunkNodeCount <- 1, BucketCount <- 2, BucketLimit <- 1, MaxProbe <- 2,
  BucketIndex <- [s \in {1, 2} |-> 0], LimitPages <- 3, MaxCalls <- 3,
  bytes <- cachedBytes, pc <- regionPc, work <- regionWork, calls <- regionCalls

(* A word of 24 bits; sizes about the bounds of the classes and of a span, *)
(* and about the largest word.                                             *)
AL == INSTANCE AllocationLayout WITH
  MaxWord <- 16777215, PageSize <- 4096, RegionBases <- {4096, 65536, 8388608},
  SizesAsked <- {0, 1, 8, 9, 24, 1023, 1024, 1025, 8120, 8121, 229377, 262072, 262073, 262144, 262145,
                 300000, 8388607, 16773119, 16777143, 16777199, 16777215},
  Alignments <- {0, 1, 8, 12, 16, 32, 4096, 65536, 8388608},
  pc <- layoutPc

EV == INSTANCE MemoryEvents WITH
  Pointers <- Addresses, SizeOf <- AskedSize, Detector <- detector, Statistics <- statistics,
  mutex <- bindMutex, held <- owned, pc <- eventPc, work <- eventWork, calls <- eventCalls

TR == INSTANCE MemoryTracker WITH
  Threads <- {t1, t2}, HookPointers <- {p1, p2}, EnginePointers <- {e1}, Sizes <- {2}, FreedFirst <- p1,
  Requests <- {[op |-> "New", size |-> 2, align |-> None], [op |-> "Malloc", size |-> 1, align |-> None],
               [op |-> "AlignedNew", size |-> 1, align |-> 16]},
  Returns <- {[op |-> "Free", size |-> None, align |-> None], [op |-> "Delete", size |-> 2, align |-> None],
              [op |-> "AlignedDelete", size |-> None, align |-> 32]},
  HistoryLimits <- {0, 2}, TimelineLimits <- {0, 2}, MaxCalls <- [t \in {t1, t2} |-> IF t = t1 THEN 3 ELSE 1],
  mutex <- trackerMutex, work <- hookWork, calls <- hookCalls

(* The instances choose their parameters as the modules ask.               *)
ASSUME InstancesAssumption ==
  QU!ParametersAssumption /\ DB!ParametersAssumption /\ EV!ParametersAssumption /\ TR!ParametersAssumption

quarantine == <<onlyOnFlush, place, ring, claimed, ringBytes, stale, reported, freePc, call, frees, missed>>
dedicated == <<reserved, committed, blocks, map, record, free, grown, key, cached, holder, cachedBytes,
               regionPc, regionWork, regionCalls, astray>>
shape == <<guards, request, layout, raw, user, layoutPc, touched, corrupt>>
events == <<snapshot, bindMutex, owned, live, current, peak, counts, eventPc, eventWork, eventCalls,
            times, skewed, lost>>
records == <<held, tracker, hooked, trackerMutex, hookWork, hookCalls, wrong, misled>>
vars == <<subject, quarantine, dedicated, shape, events, records>>

(* One build stands for both where the choice is not the subject's.        *)
Init ==
  /\ subject \in {"quarantine", "dedicated", "layout", "events", "tracker"}
  /\ QU!Init /\ DB!Init /\ AL!Init /\ EV!Init /\ TR!Init
  /\ subject # "quarantine" => onlyOnFlush
  /\ subject # "layout" => guards /\ request = [size |-> 1, alignment |-> 1]

Next ==
  /\ UNCHANGED subject
  /\ \/ subject = "quarantine" /\ QU!Next /\ UNCHANGED <<dedicated, shape, events, records>>
     \/ subject = "dedicated" /\ DB!Next /\ UNCHANGED <<quarantine, shape, events, records>>
     \/ subject = "layout" /\ AL!Next /\ UNCHANGED <<quarantine, dedicated, events, records>>
     \/ subject = "events" /\ EV!Next /\ UNCHANGED <<quarantine, dedicated, shape, records>>
     \/ subject = "tracker" /\ TR!Next /\ UNCHANGED <<quarantine, dedicated, shape, events>>

Spec == Init /\ [][Next]_vars /\ QU!Fairness /\ DB!Fairness /\ EV!Fairness

-----------------------------------------------------------------------------
(* The quarantine: a block is in one place, no block with changed bytes    *)
(* leaves it unreported, its counters and limits hold between calls, and a *)
(* flush releases what was in it.                                          *)
QuarantineExact ==
  subject = "quarantine" =>
    QU!BlocksInPlace /\ QU!BytesExact /\ QU!WithinLimits /\ QU!StaleReported /\ QU!FlushReleases

(* Dedicated blocks: a deallocation finds its own region, and every node   *)
(* and region is in one place also after a step fails.  The layout of a    *)
(* block: the user's bytes and guards fit what was allocated, for every    *)
(* size and alignment, and a changed guard is reported.                    *)
RegionsExact ==
  /\ subject = "dedicated" => DB!DedicatedExact
  /\ subject = "layout" => AL!LayoutExact

(* The event bus, the leak detector and the statistics agree with the      *)
(* blocks in use, except where the events themselves mislead them.         *)
ObserversExact == subject = "events" => EV!EventsExact

(* The tracker agrees with what the clients did and raises no false alarm, *)
(* except where its records come late.                                     *)
TrackerExact == subject = "tracker" => TR!RecordsExact

(* However many calls are made, of the quarantine, of dedicated blocks and *)
(* with announced events, all end.  CallsEnd of the three modules, in one. *)
AllCallsEnd == []<>(QU!AtRest /\ DB!AtRest /\ EV!AtRest)
=============================================================================
