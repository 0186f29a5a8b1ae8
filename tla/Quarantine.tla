----------------------------- MODULE Quarantine -----------------------------
(***************************************************************************)
(* The small blocks of MemoryAllocatorEngine (memory_facade.h): allocate,  *)
(* deallocate with its deferred-free quarantine, prewarm, the flushes and  *)
(* the end of a thread.  A quarantine shard is an mpmc_queue and a byte    *)
(* counter beside it.  The queue is taken at its linearization points      *)
(* (see MpmcQueue): a push may also be refused while another call is in    *)
(* the middle of a pop, a pop while another is in the middle of a push.    *)
(* The thread caches and the central pool are the places a block may be    *)
(* kept in (see ThreadCache and CentralPool).                              *)
(***************************************************************************)
EXTENDS Naturals, Sequences, FiniteSets, Functions

CONSTANTS
  Threads,
  Blocks,
  None,
  BlockSize,     \* [Blocks -> Nat]: Layout.BlockSize
  Lifetime,      \* what the owner of a block allocates
                 \* and frees it as; Default and Transient go the same way
  Reused,        \* bound: the blocks some client writes to after the free
  Shards,        \* 1 .. ActiveQuarantineShardCount
  Capacity,      \* QuarantineRingCapacity
  ByteLimit,     \* quarantineByteLimitPerShard
  EntryLimit,    \* quarantineEntryLimitPerShard
  ByteModulus,   \* numbers a std::size_t can hold
  ShardOf,       \* quarantineShardIndexForCurrentThread, a hash
  Warmers,       \* bound: the threads that call prewarm
  MaxCalls       \* bound: calls started

(* What a run must choose: the counter can hold every block at once.       *)
ParametersAssumption ==
  /\ IsFiniteSet(Threads) /\ IsFiniteSet(Blocks) /\ IsFiniteSet(Shards)
  /\ {"central", "live", "ring", "hand"} \cap Threads = {}
  /\ BlockSize \in [Blocks -> Nat \ {0}]
  /\ Lifetime \in [Blocks -> {"Persistent", "Cached"}] /\ Reused \subseteq Blocks
  /\ Shards = 1 .. Cardinality(Shards) /\ Shards # {}
  /\ ShardOf \in [Threads -> Shards] /\ Warmers \subseteq Threads
  /\ Capacity \in Nat \ {0} /\ ByteLimit \in Nat \ {0} /\ EntryLimit \in Nat \ {0}
  /\ ByteModulus \in Nat /\ SumFunction(BlockSize) < ByteModulus

VARIABLES
  onlyOnFlush,  \* MemoryCompileQuarantineReleaseOnlyOnFlush, a choice of the build
  place,        \* where a block is: "central", "live", "ring", "hand", or the
                \* thread whose cache has it
  ring,         \* Shard.Entries: the blocks, oldest first
  claimed,      \* entries of the rings that are not published yet
  bytes,        \* Shard.Bytes
  stale,        \* blocks in a ring whose user bytes are not FreedPattern
  reported,     \* blocks a UseAfterFree event was emitted for
  pc,           \* where a thread is in its call
  call,         \* what the thread frees, and its entry, shard and eviction
  calls,        \* calls started
  missed        \* ghost: what a flush has still to take out of the rings

blockVars == <<place, ring, claimed, bytes, stale, reported>>
vars == <<onlyOnFlush, blockVars, pc, call, calls, missed>>

NoCall == [kind |-> "none", todo |-> {}, life |-> "Cached", entry |-> None,
           popped |-> None, at |-> 1, force |-> FALSE, over |-> FALSE]

Init ==
  /\ onlyOnFlush \in BOOLEAN
  /\ place = [b \in Blocks |-> "live"]   \* allocated before the calls of a run begin
  /\ ring = [s \in Shards |-> <<>>]
  /\ claimed = {}
  /\ bytes = [s \in Shards |-> 0]
  /\ stale = {} /\ reported = {}
  /\ pc = [t \in Threads |-> "idle"]
  /\ call = [t \in Threads |-> NoCall]
  /\ calls = 0
  /\ missed = [t \in Threads |-> {}]

Goto(t, where) == pc' = [pc EXCEPT ![t] = where]

Begin(t) ==
  /\ pc[t] = "idle"
  /\ calls < MaxCalls
  /\ calls' = calls + 1

-----------------------------------------------------------------------------
(* allocate                                                                *)

(* allocateRawBlock: a persistent block comes from the central pool, any   *)
(* other from the caller's cache, or from the pool when the cache has none.*)
Offered(t, life) ==
  LET fit == {b \in Blocks : Lifetime[b] = life}
      cached == {b \in fit : place[b] = t} IN
  IF cached # {} THEN cached ELSE {b \in fit : place[b] = "central"}

(* initializeLayout writes the whole user range.                           *)
HandOut(b) ==
  /\ place' = [place EXCEPT ![b] = "live"]
  /\ stale' = stale \ {b}
  /\ reported' = reported \ {b}
  /\ UNCHANGED <<ring, claimed, bytes>>

Allocate(t) ==
  /\ Begin(t)
  /\ \E life \in {"Persistent", "Cached"} : \E b \in Offered(t, life) : HandOut(b)
  /\ UNCHANGED <<onlyOnFlush, pc, call, missed>>

-----------------------------------------------------------------------------
(* deallocate                                                              *)

(* A flush promises nothing about what other threads free meanwhile.       *)
Overlaps(t) == missed' = [u \in Threads |-> IF u = t THEN missed[t] ELSE {}]

Free(t) ==
  /\ Begin(t)
  /\ \E b \in Blocks :
       /\ place[b] = "live" /\ \A u \in Threads : b \notin call[u].todo
       /\ place' = [place EXCEPT ![b] = "hand"]
       /\ call' = [call EXCEPT ![t] = [NoCall EXCEPT !.kind = "free", !.entry = b, !.at = ShardOf[t]]]
  /\ Goto(t, "push")
  /\ Overlaps(t)
  /\ UNCHANGED <<onlyOnFlush, ring, claimed, bytes, stale, reported>>

(* prewarm takes Count blocks, or as many as there are, ...                *)
Prewarm(t) ==
  /\ t \in Warmers
  /\ Begin(t)
  /\ \E life \in {"Persistent", "Cached"} :
       call' = [call EXCEPT ![t] = [NoCall EXCEPT !.kind = "prewarm", !.life = life]]
  /\ Goto(t, "warm")
  /\ UNCHANGED <<onlyOnFlush, blockVars, missed>>

Warm(t) ==
  /\ pc[t] = "warm"
  /\ \E b \in Offered(t, call[t].life) :
       /\ HandOut(b)
       /\ call' = [call EXCEPT ![t].todo = @ \cup {b}]
  /\ UNCHANGED <<onlyOnFlush, pc, calls, missed>>

WarmDone(t) ==
  /\ pc[t] = "warm"
  /\ Goto(t, "next")
  /\ UNCHANGED <<onlyOnFlush, blockVars, call, calls, missed>>

(* ... frees them again and flushes.                                       *)
FreeNext(t) ==
  /\ pc[t] = "next"
  /\ \E b \in call[t].todo :
       /\ place' = [place EXCEPT ![b] = "hand"]
       /\ call' = [call EXCEPT ![t].entry = b, ![t].at = ShardOf[t],
                               ![t].todo = @ \ {b}]
  /\ Goto(t, "push")
  /\ Overlaps(t)
  /\ UNCHANGED <<onlyOnFlush, ring, claimed, bytes, stale, reported, calls>>

(* releaseSmallBlock: back to the central pool, or to the cache of the     *)
(* thread that happens to release it.                                      *)
Kept(t, b) == IF Lifetime[b] = "Persistent" THEN "central" ELSE t

(* A cell is free again when the pop of its former entry has ended.        *)
PushRefused(t) ==
  Len(ring[call[t].at])
    + Cardinality({u \in Threads \ {t} : pc[u] \in {"release", "evictRelease"} /\ call[u].at = call[t].at})
  >= Capacity

PopRefused(t) == ring[call[t].at] # <<>> => Head(ring[call[t].at]) \in claimed

Claimed(t) ==
  /\ Len(ring[call[t].at]) < Capacity
  /\ ring' = [ring EXCEPT ![call[t].at] = Append(@, call[t].entry)]
  /\ place' = [place EXCEPT ![call[t].entry] = "ring"]
  /\ claimed' = claimed \cup {call[t].entry}
  /\ Goto(t, "publish")
  /\ UNCHANGED <<bytes, stale, reported, call, missed>>

Push(t) ==
  /\ pc[t] = "push"
  /\ \/ Claimed(t)
     \/ PushRefused(t) /\ Goto(t, "evict") /\ UNCHANGED <<blockVars, call, missed>>
  /\ UNCHANGED <<onlyOnFlush, calls>>

Publish(t) ==
  /\ pc[t] = "publish"
  /\ claimed' = claimed \ {call[t].entry}
  /\ Goto(t, "add")
  /\ UNCHANGED <<onlyOnFlush, place, ring, bytes, stale, reported, call, calls, missed>>

Popped(t, where) ==
  LET s == call[t].at
      b == Head(ring[s]) IN
  /\ ~ PopRefused(t)
  /\ ring' = [ring EXCEPT ![s] = Tail(@)]
  /\ place' = [place EXCEPT ![b] = "hand"]
  /\ call' = [call EXCEPT ![t].popped = Head(ring[s])]
  /\ missed' = [u \in Threads |-> missed[u] \ {b}]
  /\ Goto(t, where)
  /\ UNCHANGED <<claimed, bytes, stale, reported>>

(* Mutant of Lowered: the counter says entries where it should say bytes.  *)
LoweredByOne(t) ==
  bytes' = [bytes EXCEPT ![call[t].at] = (@ + ByteModulus - 1) % ByteModulus]

Lowered(t) ==
  bytes' = [bytes EXCEPT ![call[t].at] =
              (@ + ByteModulus - BlockSize[call[t].popped]) % ByteModulus]

(* The counter is lowered; releaseSingleQuarantineEntry: stale writes are  *)
(* reported, then the block is released by its own lifetime.               *)
Released(t) ==
  LET b == call[t].popped IN
  /\ Lowered(t)
  /\ reported' = reported \cup ({b} \cap stale)
  /\ place' = [place EXCEPT ![b] = Kept(t, b)]
  /\ UNCHANGED <<ring, claimed, stale>>

(* A ring without room gives up its oldest entry ...                       *)
Evict(t) ==
  /\ pc[t] = "evict"
  /\ \/ Popped(t, "evictRelease")
     \/ PopRefused(t) /\ Goto(t, "push2") /\ UNCHANGED <<blockVars, call, missed>>
  /\ UNCHANGED <<onlyOnFlush, calls>>

EvictRelease(t) ==
  /\ pc[t] = "evictRelease"
  /\ Released(t)
  /\ Goto(t, "push2")
  /\ UNCHANGED <<onlyOnFlush, call, calls, missed>>

(* A free ends; prewarm goes on to its next block, or to its flush.        *)
Freed(t) == IF call[t].kind = "free" THEN "idle" ELSE "next"

(* ... and a block that finds no room even then is released at once.       *)
Push2(t) ==
  /\ pc[t] = "push2"
  /\ \/ Claimed(t)
     \/ /\ PushRefused(t)
        /\ place' = [place EXCEPT ![call[t].entry] = Kept(t, call[t].entry)]
        /\ Goto(t, Freed(t))
        /\ UNCHANGED <<ring, claimed, bytes, stale, reported, call, missed>>
  /\ UNCHANGED <<onlyOnFlush, calls>>

(* The counter is raised after the entry is in the ring; another thread may*)
(* have taken it out, and lowered the counter below zero, before that.     *)
Add(t) ==
  /\ pc[t] = "add"
  /\ bytes' = [bytes EXCEPT ![call[t].at] = (@ + BlockSize[call[t].entry]) % ByteModulus]
  /\ Goto(t, IF onlyOnFlush THEN Freed(t) ELSE "check")
  /\ UNCHANGED <<onlyOnFlush, place, ring, claimed, stale, reported, call, calls, missed>>

-----------------------------------------------------------------------------
(* drainQuarantineShard                                                    *)

OverLimits(t) == call[t].over \/ Len(ring[call[t].at]) > EntryLimit

LoadBytes(t) ==
  /\ pc[t] = "check"
  /\ call' = [call EXCEPT ![t].over = bytes[call[t].at] > ByteLimit]
  /\ Goto(t, "check2")
  /\ UNCHANGED <<onlyOnFlush, blockVars, calls, missed>>

LoadSize(t) ==
  /\ pc[t] = "check2"
  /\ Goto(t, IF OverLimits(t) THEN "pop" ELSE Freed(t))
  /\ UNCHANGED <<onlyOnFlush, blockVars, call, calls, missed>>

(* Mutant of AfterNone: a forced drain waits for the ring to fill.         *)
AfterNoneAgain(t) == IF call[t].force THEN "pop" ELSE Freed(t)

(* Nothing to take: flushQuarantine goes on to the next shard.             *)
AfterNone(t) ==
  IF ~ call[t].force THEN Freed(t)
  ELSE IF call[t].at + 1 \in Shards THEN "pop" ELSE "flushed"

Pop(t) ==
  /\ pc[t] = "pop"
  /\ \/ Popped(t, "release")
     \/ /\ PopRefused(t)
        /\ Goto(t, AfterNone(t))
        /\ call' = [call EXCEPT ![t].at = IF @ + 1 \in Shards THEN @ + 1 ELSE @]
        /\ UNCHANGED <<blockVars, missed>>
  /\ UNCHANGED <<onlyOnFlush, calls>>

Release(t) ==
  /\ pc[t] = "release"
  /\ Released(t)
  /\ Goto(t, IF call[t].force THEN "pop" ELSE "check")
  /\ UNCHANGED <<onlyOnFlush, call, calls, missed>>

-----------------------------------------------------------------------------
(* flushQuarantine, at the end of prewarm, flushDeferredFrees and          *)
(* onThreadExit                                                            *)

FlushCall(t) ==
  /\ Begin(t)
  /\ \E kind \in {"flush", "exit"} : call' = [call EXCEPT ![t] = [NoCall EXCEPT !.kind = kind]]
  /\ Goto(t, "next")
  /\ UNCHANGED <<onlyOnFlush, blockVars, missed>>

FlushBegin(t) ==
  /\ pc[t] = "next"
  /\ call[t].todo = {}
  /\ call' = [call EXCEPT ![t].force = TRUE, ![t].at = 1]
  /\ Goto(t, "pop")
  /\ missed' = [missed EXCEPT ![t] =
       IF \E u \in Threads : pc[u] \in {"push", "publish", "evict", "evictRelease", "push2"}
         THEN {} ELSE {b \in Blocks : place[b] = "ring"}]
  /\ UNCHANGED <<onlyOnFlush, blockVars, calls>>

(* ThreadCacheRegistry::onThreadExit gives everything back, onThreadIdle   *)
(* what is over its budgets.                                               *)
FlushEnd(t) ==
  /\ pc[t] = "flushed"
  /\ \E given \in CASE call[t].kind = "exit" -> {{b \in Blocks : place[b] = t}}
                    [] call[t].kind = "flush" -> SUBSET {b \in Blocks : place[b] = t}
                    [] OTHER -> {{}} :
       place' = [b \in Blocks |-> IF b \in given THEN "central" ELSE place[b]]
  /\ Goto(t, IF call[t].kind = "exit" THEN "ended" ELSE "idle")
  /\ call' = [call EXCEPT ![t] = NoCall]
  /\ missed' = [missed EXCEPT ![t] = {}]
  /\ UNCHANGED <<onlyOnFlush, ring, claimed, bytes, stale, reported, calls>>

(* The client writes through a pointer it has freed.                       *)
LateWrite(b) ==
  /\ place[b] = "ring"
  /\ b \in Reused \ stale
  /\ stale' = stale \cup {b}
  /\ UNCHANGED <<onlyOnFlush, place, ring, claimed, bytes, reported, pc, call, calls, missed>>

Step(t) ==
  \/ Push(t) \/ Publish(t) \/ Evict(t) \/ EvictRelease(t) \/ Push2(t) \/ Add(t)
  \/ LoadBytes(t) \/ LoadSize(t) \/ Pop(t) \/ Release(t)
  \/ WarmDone(t) \/ FreeNext(t) \/ FlushBegin(t) \/ FlushEnd(t)

(* Nobody has to call; whoever called may stop for good.                   *)
Rest == (\A t \in Threads : pc[t] \in {"idle", "ended"}) /\ UNCHANGED vars

Next ==
  \/ \E t \in Threads : Allocate(t) \/ Free(t) \/ Prewarm(t) \/ Warm(t) \/ FlushCall(t) \/ Step(t)
  \/ \E b \in Blocks : LateWrite(b)
  \/ Rest

(* A thread in a call goes on: these functions wait for nobody.            *)
Fairness == \A t \in Threads : WF_vars(Step(t))

Spec == Init /\ [][Next]_vars /\ Fairness

-----------------------------------------------------------------------------
(* The blocks in the hands of a call: the one it frees, until it is pushed *)
(* or released, and the one it has popped.                                 *)
Frees(t) == {b \in Blocks : pc[t] \in {"push", "evict", "evictRelease", "push2"}
                             /\ b = call[t].entry}
Evicts(t) == {b \in Blocks : pc[t] \in {"evictRelease", "release"}
                              /\ b = call[t].popped}
InRing(s) == {ring[s][i] : i \in 1 .. Len(ring[s])}

(* enqueueSmallBlockQuarantine and drainQuarantineShard: a block is in one *)
(* place only, in one ring once or in the hands of one call, whatever      *)
(* pushes, evictions, drains and flushes meet.                             *)
BlocksInPlace ==
  /\ place \in [Blocks -> {"central", "live", "ring", "hand"} \cup Threads]
  /\ \A b \in Blocks :
       /\ Cardinality({e \in Shards \X (1 .. Capacity) :
                          e[2] <= Len(ring[e[1]]) /\ ring[e[1]][e[2]] = b})
            = (IF place[b] = "ring" THEN 1 ELSE 0)
       /\ Cardinality({t \in Threads : b \in Frees(t)})
            + Cardinality({t \in Threads : b \in Evicts(t)})
            = (IF place[b] = "hand" THEN 1 ELSE 0)
       /\ \A t \in Threads : b \in call[t].todo => place[b] = "live"

(* The blocks of shard s that its counter has to count: those in the ring, *)
(* and those that a call has popped and not yet taken off.                 *)
Counted(s) ==
  InRing(s) \cup {call[t].popped : t \in {t \in Threads :
                     pc[t] \in {"release", "evictRelease"} /\ call[t].at = s}}

(* What a call has pushed and not yet added.                               *)
ToAdd(t, s) == IF pc[t] \in {"publish", "add"} /\ call[t].at = s THEN BlockSize[call[t].entry] ELSE 0

(* Shard.Bytes: what the counter says is what the ring holds, up to the    *)
(* calls that stand between the ring and the counter; it may wrap on the   *)
(* way, and is exact when nobody does.                                     *)
BytesExact ==
  \A s \in Shards :
    (bytes[s] + SumFunction([t \in Threads |-> ToAdd(t, s)])) % ByteModulus
      = SumFunction([b \in Blocks |-> IF b \in Counted(s) THEN BlockSize[b] ELSE 0])

(* drainQuarantineShard: when all calls have ended, no shard holds more    *)
(* bytes or entries than its limits, unless only a flush may drain it.     *)
WithinLimits ==
  (~ onlyOnFlush /\ \A t \in Threads : pc[t] \in {"idle", "ended"}) =>
    \A s \in Shards : bytes[s] <= ByteLimit /\ Len(ring[s]) <= EntryLimit

(* isQuarantinePatternIntact: a block that was written to while it was in  *)
(* quarantine is reported before it can be handed out again.               *)
StaleReported ==
  \A b \in Blocks : b \in stale /\ place[b] \in {"central"} \cup Threads => b \in reported

(* flushQuarantine: a flush that no free overlaps leaves none of the blocks*)
(* behind that were in quarantine when it began.                           *)
FlushReleases == \A t \in Threads : pc[t] = "flushed" => missed[t] = {}

(* As many calls as are made, drains, flushes and prewarm end.             *)
AtRest == \A t \in Threads : pc[t] \in {"idle", "ended"}

CallsEnd == []<>AtRest
=============================================================================
