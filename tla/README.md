# A verification of the Potato Standard Library

TLA+ models of the parts of this C++20 header library whose correctness depends
on the order in which things happen: the memory allocator and what observes it,
the queues between threads, the id distributor, the containers they are built
on, the callback lists and the logger. TLC checks the models on small instances, TLAPS proves the properties that
matter most for every value of the constants. All paths below are relative to
the repository root (`src/` here stands for it).

## 1. The system

| Part | Source | State it keeps | Operations | Interacts with | What is hard |
|---|---|---|---|---|---|
| `mpmc_queue` | `Core/Containers/mpmc_queue.h` | ring of cells with sequence numbers, two positions | `try_push`, `try_pop`, `try_pop_bulk`, `size` (`empty`, `is_full`, `snapshot` only read) | quarantine of the allocator | lock-free; a cell's payload is not atomic |
| `IdDestributor` | `Core/Components/Distrubutor` | striped active sets, striped free lists, a wrapping counter | `acquireId`, `occupyId`, `releaseId` | callers on any thread | windows between the stripes' mutexes, wrap, failing allocations |
| `ActiveSetImpl` | same | open-addressing table with tombstones | `insert`, `erase`, `contains`, `rehash` | inside one stripe's mutex | tombstone reuse, load limit, unbounded growth |
| `CentralPool`, `Span` | `Core/Memory/central_pool.h`, `Span.h` | spans in per-shard partial and empty lists, page map, span object pool | `fetchBatch`, `returnBatch`, growth, trimming | page allocator below, thread caches above | hints read without locks, batches over many spans, three copies of one state |
| `PageAllocator`, `VirtualMemoryManager` | `Core/Memory/virtual_memory_backend.h` | regions, cursors, span caches per shard | `acquireSpan`, `releaseSpan`, `reserve`, `commit`, `decommit` | central pool, engine | release from any thread, failing system calls |
| `ThreadCache`, registry | `Core/Memory/thread_cache.h`, `FreeList.h` | free lists, deferred lists, byte counters | `allocate`, `deallocate`, `onIdle`, `flushAll`, trimming | central pool | budgets and counters that move together |
| Engine and facade | `Core/Memory/memory_facade.h` | dedicated regions, quarantine ring, event metadata | `allocate`, `deallocate`, `prewarm`, drain | all of the above | counters beside a lock-free ring, cached regions, layouts near the end of the word |
| `MemoryEventBus`, `SpinLock` | `Core/Memory/memory_common.h` | snapshot of observers, flag | `bind`, `unbind`, `emit` | observability | copy-on-write against a running emit |
| Observability | `Core/Memory/Observability` | live tables, counters, history of frees, reports | observer callbacks, hooks of `malloc` and `new`, setters | event bus, the process's allocator | records that come after the call they report; mistaken and foreign frees |
| `RadixTreeMap` | `Core/Containers/radix_tree.h` | three-level tree over two bounded node pools | `insertOrAssign`, `find`, `erase`, `clear` | page map, region index | half-done insertions when a pool is empty |
| Ring buffers | `Core/Containers/buffer.h` | two positions and ready flags or sequence numbers over storage; two buffers and a swap flag | `try_push`, `try_pop`, `linearize_views`, `clear`; `commit`, `try_swap` | logger, users | slots claimed in one order and published in another |
| `observed`, `Observer_List` | `Core/Containers/observed.h` | linked list with a lock-free tail | `PushBack`, `Notify`, `Clear`, move, `Swap` | users' callbacks | appends at the same time, observers that assign the value they are told of |
| `delegate`, `multicast_delegate` | `Core/delegate.h` | slots with generations, order, retired slots | `add`, `remove`, `clear`, `broadcast` | users' callbacks | reentrancy while broadcasting |
| `logger` | `Core/logger.h` | queue of records, worker, state flag | `log`, `start_*`, `stop`, `pump_frame` | sinks, threads | records racing with `stop` |
| `math`, `time`, `platform`, `exception_handler`, `common` | `Core/*.h` | values | arithmetic, clocks, macros | users | floating point |

The allocator is a stack: an allocation goes from the engine to the thread
cache of the calling thread, on a miss to the central pool's shard of that
thread, on a miss there to the page allocator's shard of that thread, and from
there to the operating system. Frees travel the same way in the other
direction, but on whatever thread they happen, and that is where the hazards
are: a block may reach a span that another shard owns, through a hint that is
read without a lock.

What makes each part correct is stated as properties of its module below; the
hazards, each at its line, are listed in `PROJECT.json`.

## 2. The modules

| Module | Models | State ↔ code |
|---|---|---|
| `CentralPool` | `fetchBatch`, `returnBatch`, `allocateSpanForClass`, `releaseEmptySpan`, `trimEmptySpansLocked`, `findSpanHinted` | `base`, `owner`, `freeBlocks`, `freeList`, `released` are the fields of `Span`; `partial`, `empty`, `emptyCount`, `lock` those of a bucket shard; `pageMap` is `PageToSpanShards`; `group`, `batchShard`, `near` are the locals of `returnBatch` |
| `PageAllocator` | `acquireSpan`, `releaseSpan`, `commit`, `decommit`, one step per call | `regions`, `size`, `nextPage` are the cursors of `Shard::Regions`, `nextId` is `NextRegionId`, `cache` both span caches of a shard; `committed` is what the system was told; `held` and `lost` count what callers have and what a failed commit dropped |
| `ThreadCache` | `allocate`, `deallocate`, `onIdle`, `flushAll` with their refills, spills, drains and trims, one step per call | `list`, `deferred` are the lengths of `FreeLists` and `DeferredLists`, `count`, `deferredCount` their 16-bit counts, `currentBytes`, `deferredBytes`, `lastDrainClass`, `lastDeferredDrainClass` the members; `central`, `held` are where the other blocks are |
| `AllocationLayout` | `buildLayout`, the size classes and their spans, guards and their verification | `layout`, `raw`, `user` are `Context.Layout`, `RawPtr`, `UserPtr`; numbers are the program's, the word has 24 bits |
| `Quarantine` | `allocate` and `deallocate` of small blocks, `prewarm`, push, eviction, drain, flush, the end of a thread | `ring`, `bytes` are a `QuarantineShard`; `claimed` are cells of its queue that are won and not published; `stale` the blocks whose bytes are not the freed pattern |
| `DedicatedBlocks` | dedicated allocation, release and lookup, node pool, region cache | `map`, `free`, `grown` are the shards' radix maps, the node free list and the chunks; `key`, `cached`, `holder`, `bytes` the buckets of the cache |
| `MemoryEvents` | `bind`, `unbind`, `emit`, the events of a call, leak detector, statistics | `snapshot`, `mutex` are the bus; `live` is `LiveAllocations`; `current`, `peak`, `counts` the atomics of the statistics |
| `MemoryTracker` | the hooks of `malloc`, `new`, `free`, `realloc`, the tracker's records, limits and issues | `tracker` is everything under `Mutex`, `hooked` the flag, `work` the part of a call that is still to run |
| `MpmcQueue` | the queue, one step per atomic access | `seq`, `data` are the cells, `enq`, `deq` the positions, `pos`, `item` the locals of a call |
| `RingBuffer` | the four `ring_buffer`s, one step per atomic access | `head`, `tail`, `mark` are the positions and the ready flags or sequence numbers, `data` the elements alive |
| `DoubleBuffer` | `double_buffer`, one step per element and per access | the members by name; `filling`, `reading` are what the two threads have still to touch |
| `Logger` | `log`, `start_*`, `stop`, `pump_frame`, the worker, over the ring of `RingBuffer` | `running`, `mode`, `queue`, `buffer`, `files` are the members; `worker`, `engine`, `producing` where the threads stand |
| `BoundedFifo` | what the queues promise | a sequence of values |
| `IdDistributor` | the distributor, one step per critical section or atomic operation | `active`, `freeIds`, `nextId`, `cursor` are the members; `handles` counts what callers hold; `dropped` the ids that a failed allocation lost |
| `ActiveSet`, `IdSet` | the hash table of one stripe, one step per call, and the set it promises | `slots` is `Keys` and `States`, `size`, `tombstoneCount` the counters; `call` is the last call and its answer |
| `RadixTree`, `KeyMap` | `RadixTreeMap`, one step per call, and the map it promises | `root`, `children`, `values`, `used1`, `used2` are the nodes, `free1`, `free2` the pools; `call` is the last call and its answer |
| `ObserverList` | `Observer_List` and `observed`, one step per atomic access of an append | `head`, `tail`, `next` are the chain; `frames` the notifications in progress |
| `DelegateStorage` | `delegate`: binding, copy, move, reset | `binding` is `Ops` and `Invoker`, `pointer` is `ObjectPtr`, `memory` what is constructed where |
| `MulticastDelegate` | `multicast_delegate`, one step per stretch between two calls out | the members by name; `frames` is the stack of broadcasts and releases in progress |
| `*_proofs` | theorems about `CentralPool`, `PageAllocator`, `ThreadCache`, `MpmcQueue`, `IdDistributor` and, in `Containers_proofs` and `Engine_proofs`, `DelegateStorage`, `MulticastDelegate`, `ObserverList`, `RadixTree`, `Quarantine` and `MemoryEvents` | |
| `FoldLemmas` | lemmas about sums of functions, loops and counters, no code | |
| `MC_*` | small instances; `MC_Containers`, `MC_Queues` and `MC_Engine` each hold several components, and a behaviour exercises one of them, its `subject` | |

What the modules take from each other: `CentralPool` takes the page allocator
as a set of free extents, which `PageAllocator` shows it may. `ThreadCache`
takes the central pool as a number of blocks. `Quarantine` takes the queue at
its linearization points, which `MpmcQueue` justifies, and the caches and the
pool as places a block can be in. `DedicatedBlocks` takes the radix map as a
map that may refuse (`RadixTree` and `KeyMap`), and from `AllocationLayout`
that a block fits its region. `Logger` takes its ring as a queue of reserved
and published records (`RingBuffer`, which implements `BoundedFifo`).

How the models abstract:

* **Blocks and pages.** `CentralPool` treats one size class. An extent is the
  run of pages of one span, a block is a pair of its extent and its number;
  addresses, block sizes and the intrusive chains are left out, lists are
  sets. The head of a list is the code's choice, any member is the model's.
  `reset` and the push on the span object pool are one step; the span object
  pool is a set, so the lock-free list's own steps are not in this module.
* **Atomicity.** What a lock protects is one step, cut wherever the code
  touches something that others read without that lock: the pages that
  `releaseEmptySpan` gives back, the flag and the fields of a span that
  `findSpanHinted` reads, the byte counters beside the quarantine's rings and
  the region cache, the system call that a bucket's mutex is held over. Reads
  that are data races in the code's own terms (plain fields) see either value,
  never a torn one.
* **Lock-free code.** Every atomic load, store and exchange is a step, and so
  is each access to the payload. `compare_exchange_weak` does not fail
  spuriously (the library targets x86-64). Memory is sequentially consistent in
  the models; the acquire and release annotations are not checked.
* **Page spans.** A call of the page allocator holds one spin lock from its
  first read to its last write, so it is one step. Pages are numbered inside
  their region. Reserving, indexing and committing may fail at every place
  where the code tests for it; whether a released span is decommitted is left
  open, where the code decides by size and by sampling.
* **Thread caches.** Blocks of a class are alike, so a list is a number, and
  the counters that the code keeps beside its lists are separate variables that
  move as the code moves them. A cache belongs to one thread and only meets the
  others in `fetchBatch` and `returnBatch`; a call either fetches once or only
  gives back, so nothing is gained by cutting it. Whether a block belongs to
  another shard is left open. Loops over batches are recursive functions.
* **The engine.** `Quarantine` is the build that detects uses after free, with
  guards; whether only a flush drains is left open, as a choice of the build.
  `DedicatedBlocks` has no huge pages. Hashes of threads, sizes and addresses
  are constants of an instance, chosen so that they collide.
* **Callbacks.** A callback, and the destructor of one, is arbitrary code of
  the caller: in `MulticastDelegate` and `ObserverList` the caller may make any
  call whenever one of its callbacks runs, so reentrancy is a stack of frames.
* **Clients.** Clients of `MemoryTracker` make mistakes, since telling them is
  its purpose; clients of everything else use it as it asks to be used, but for
  the late writes of `Quarantine` and the writes out of bounds of
  `AllocationLayout`, which those parts exist to find.
* **Counters** that the code lets wrap (`NextId`, 16-bit counts, byte counters,
  slot generations) wrap in the model, at a width of the configuration. The
  positions of the queues do not.

## 3. What the runs check

| Run | Instance | Shows |
|---|---|---|
| `CentralPool` | 2 threads in different shards, 2 span objects, 2 extents of 2 blocks, batches of up to 2, 1 group, 1 retained span | type invariant; `BlocksAccounted`; `SpansConsistent` (counts, lists and flags of spans agree, few empty spans are kept); `PagesExclusive` (pages serve one span at a time and none while free); every critical section ends |
| `CentralPool_hints` | 3 threads, 2 bucket shards, 1 page shard | **violated**: `ReturnedToOwnSpan` |
| `PageAllocator` | 2 shards, 3 regions of 2 pages, spans of 1 to 3 | `PagesExclusive`, `PagesAccounted`, `HeldCommitted`, and the inductive invariant `IInv`, which holds the types |
| `PageAllocator_huge` | the same with regions of 4 pages and a granule of 2 | **violated**: `HeldCommitted` |
| `ThreadCache` | 2 threads, 2 classes of 1 and 4 bytes, 5 and 4 blocks, a budget of 6 bytes, batches of 3, counts modulo 8 | `BlocksAccounted`, `CountersExact`, `BudgetsKept`, `NothingLeft` |
| `ThreadCache_wrap` | 1 thread, counts modulo 4 | **violated**: `ExitFlushes` |
| `MpmcQueue` | 2 threads, 2 cells, 5 pushes, bulk pops of 2 | `SlotExclusive`, `SizeInRange`, `IInv`, `ImplementsFifo`, `CallsReturn` |
| `IdDistributor` | 2 threads, 2 stripes, counter modulo 4, 5 calls, failing allocations | `OneHolder`, `NothingLost`, `ScanComplete`, `IInv`, `CallsReturn` |
| `Containers` | `ActiveSet`, `RadixTree`, `ObserverList`, `DelegateStorage`, `MulticastDelegate` | `TablesExact` and `ImplementsTables` (the hash set is a set and the tree a map, call by call: each changes what is under its own id or key and answers accordingly; the set's chains end and its capacity stays bounded; the tree keeps the nodes its keys need), `ObserversKept`, `AppendEnds`, `DelegatesOwn`, `MulticastExact`, `CallsRegistered` |
| `Queues` | `RingBuffer`, `DoubleBuffer`, `Logger` | `RingExact`, `ImplementsFifo` for each of the four policies, `FramesInTurn`, `RecordsKept`, `CallsEnd` |
| `Engine` | `Quarantine`, `DedicatedBlocks`, `AllocationLayout`, `MemoryEvents`, `MemoryTracker` | `QuarantineExact`, `RegionsExact`, `ObserversExact`, `TrackerExact`, `AllCallsEnd` |
| `DedicatedBlocks_cells` | 2 threads, 6 pages, 2 pages in a cell of the map, regions at any page | **violated**: `FindsOwnRegion` |

The properties of the composed runs are conjunctions, one conjunct per subject;
the parts are named and explained in the component's module. The composed
modules add nothing to the components, they let one run start TLC on each in
turn.

Why the bounds are enough:

* *CentralPool.* One thread can own both extents, so a shard can come to hold
  two empty spans and has to trim; blocks are returned by the thread that did
  not fetch them, so a thread works in the other one's shard and the two
  compete for its lock; a batch over two spans exceeds the one group that is
  kept, so the single-block path runs in the middle of the grouping loop.
* *PageAllocator.* A region has room for two spans of one page, for one of two,
  and a span of three needs a region of its own; shard 1 can own two regions,
  so it chooses between them. Everything it shows is also proved for all sizes.
  Regions are used up, so deadlock is not checked.
* *ThreadCache.* The constants keep the order of the code's own: a batch is
  larger than a chunk, the deferred budget is half of the whole, one fetch of
  the large class fills the budget. So every threshold is crossed, also by
  allocations alone, and drains and trims have both classes to choose from.
  `BlocksAccounted`, `CountersExact` and `NothingLeft` are proved for all sizes;
  that the batches suffice for the budgets (`BudgetsKept`) is shown for these
  sizes only. Blocks are used up,
  so deadlock is not checked.
* *MpmcQueue.* Five pushes go round the ring of two cells twice and a half, so
  a stalled call is overtaken by more than a lap. Two threads suffice for the
  run because everything but the liveness is proved for any number of threads.
* *IdDistributor.* Three ids and five calls: the counter wraps over ids in use,
  an id is released, occupied and recycled while another call is between its
  steps. Calls are bounded by `MaxCalls`, so the run may come to an end:
  deadlock is not checked there.
* *Containers.* `ActiveSet`: six ids over starts that collide, at most two at
  once, and a capacity that tombstones could fill. `RadixTree`: seven keys and
  two nodes on each inner level, where three subtrees want them, so that an
  insertion finds room for one of the two nodes it needs; two keys of one cell;
  one key beyond the tree; what `TablesExact` says of the tree, and that it is a
  map, is also proved for any keys, values, sizes and numbers of nodes.
  `ObserverList`: two threads and two lists, two
  subscriptions, five nodes so that a freed node can be allocated again, two
  assignments, one of which may come from inside a notification;
  `ObserversKept` is also proved for any number of each.
  `DelegateStorage`: three delegates, one callable that fits the inline buffer
  and one that does not, and a cell more than delegates, for a copy that is made
  before the old binding goes; `DelegatesOwn` is also proved for any number of
  each. `MulticastDelegate`: three callbacks, three calls in
  progress, generations modulo 6 and a compaction at two dead entries, so that
  slots are reused and `Order` is compacted while a broadcast is inside it;
  `MulticastExact` and `CallsRegistered` are also proved for any such numbers.
* *Queues.* Rings of two slots and three pushes by two producers: the third
  push reuses the first slot, whose consumer may not be done. Four frames for
  the double buffer, so each of its buffers is filled twice. The logger: three
  records of two producers, a ring of two, batches of two and two sessions, so
  that a record is dropped, left over from one session to the next, and batches
  end in the middle of what is queued.
* *Engine.* `Quarantine`: two threads that share a shard of two, three blocks,
  a ring of two entries and limits of two bytes and one entry, so that pushes
  are refused, evict, and drains run beside them; blocks of one and three
  bytes, so that one alone exceeds the limit; a byte counter modulo 8, larger
  than all blocks, as in the code. `DedicatedBlocks`: six pages of two sizes,
  nodes in chunks of one, buckets of one entry of which two sizes want the
  same, maps of one entry, so that each refusal happens. `AllocationLayout`:
  sizes on both sides of every bound (the guards, the last class, the end of
  the word) with alignments from 0 to beyond a region; a word of 24 bits has
  the arithmetic of 64, since the largest class and alignment are far below
  both. `MemoryEvents`: two threads, two blocks of one and two
  bytes, of which one comes from the system, both observers, three calls, and
  the counter modulo 8 of above; `ObserversExact` is also proved for any number.
  `MemoryTracker`: two addresses of `malloc`, one of the allocator, limits from
  zero, three calls of one thread beside one of the other: the shortest
  histories in which an address is freed, reused and freed again while a
  record of it is late.

**Fairness.** A thread inside a call, or inside a critical section, is
scheduled again (weak fairness of its next step), and so is the logger's
worker; nobody has to call, no allocation has to fail, and nothing is assumed
of who wins a spin lock. The tracker has no liveness property: its setters may
wait for themselves, see "Observations".

### What the violated runs say

* `CentralPool_hints`. `releaseEmptySpan` hands the pages back
  (`central_pool.h:583`) before it resets the span object (`:585-586`).
  `findSpanHinted` (`:833-838`) accepts a hint if the object still claims the
  address. When a thread of another bucket shard gets the pages in between and
  one of its blocks is returned with the old hint, the block ends on the dead
  object, and `Memory/readme.md:140` (each group is merged into the free list
  of its own span) does not hold. The page allocator gives released pages only
  to threads of the page shard that owns them, so this needs two bucket shards
  that share a page shard; with `PageAllocatorShardScale` and
  `CentralPoolShardScale` as they are, a hardware concurrency of 1 to 3. In
  the run `CentralPool`, where threads of one page shard are of one bucket
  shard, blocks never get lost.
* `PageAllocator_huge`. `commit` and `decommit` round the offset and the length
  of a range up to the region's own page size (`virtual_memory_backend.h:220`,
  `:262`), while spans are cut in system pages. With huge pages two spans share
  a huge page, and releasing the one that starts it takes the pages of the
  other away, which its caller still uses; `:208` and `:252` say that what was
  handed out is committed. It needs `EnableHugePage`, which is off by default,
  and a mapping that the system grants. The same rounding makes a commit near
  the end of such a region fail for good, and `acquireSpan` then answers with
  an empty span without trying another region.
* `ThreadCache_wrap`. The count of a deferred list has 16 bits
  (`thread_cache.h:19`), the list has no bound but the byte budget. With the
  default configuration that budget is 8 MiB, so more than 65535 blocks of 128
  bytes or less can wait there, and forced drains, which take as many blocks as
  the count says (`:379`), leave a multiple of 65536 behind. At the end of a
  thread they are lost with the cache; `memory_facade.h:1712` says it is
  flushed. The run uses counts modulo 4 and keeps the free list below that.
  With counts wide enough, in the run `ThreadCache`, nothing is lost.
* `DedicatedBlocks_cells`. The address of a dedicated block is its key in a
  radix map (`memory_facade.h:1237`) that drops the low 16 bits of its keys
  (`:361`), while `mmap` aligns regions to pages
  (`virtual_memory_backend.h:176`). Two blocks in one cell of 65536 addresses,
  if the shard's hash sends both to the same map, share an entry, and a
  deallocation releases the region of the wrong one (`:744`) or takes a small
  block of that cell for a dedicated one; `memory_facade.h:1508-1510` says that
  it frees the block it is given. Where the system aligns regions to the cell,
  in the run `Engine`, every block finds its own region.

Three sentences of the documentation are not what the code does, and no run is
needed to see it: `mpmc_queue.h:155` says an empty result means an empty queue,
but `try_pop` also answers so while the oldest push is still being written;
`Memory/readme.md:126-134` describes a lock-free snapshot of the page map where
the code takes the shard's spin lock; `id_distributor.h:35` speaks of a boolean
where `occupyId` returns an id.

### Observations

Met while modelling; the models follow the code in each, or leave it out as
their comments say, and no run is spent on them.

* Queues. With one cell, which `mpmc_queue.h:57` and the ring's constructor
  admit, the number that says "readable" is the number that says "writable on
  the next lap", so a push overwrites; two is the smallest capacity that works
  and an assumption of the theorems. A push on the MPMC ring may be refused
  though there is room, when it was merely overtaken between its two loads. A
  copy that throws in a push on the MPSC ring leaves its slot reserved and
  unpublished, and consumers stop there. The destructor of a moved-from MPSC or
  MPMC ring calls `clear` (`buffer.h:698`, `:987`), whose `try_pop` reads a mark
  through the pointer that was moved away (`:846`, `:1152`). `pump_frame` in background mode would
  be a second consumer of an MPSC ring; nothing in the code keeps it from that.
* Logger. A record pushed after the last flush of `stop` stays queued until the
  next session (`logger.h:596`).
* Callbacks. A copy of a `multicast_delegate` taken inside a broadcast copies
  `BroadcastDepth` (`delegate.h:799`, `:1129`) and never finalizes retired
  slots. `delegate.h:268` names a function `gitinlineInvoker`.
* Central pool. `acquireSpanObject` pops a lock-free list without a counter or
  hazard pointer (`central_pool.h:611`), so the usual ABA is possible between
  the load of `PoolNext` and the exchange. The size classes 8 and 16, 24 and
  32, and so on, have blocks of one size, since `classToSize` rounds to 16.
* Quarantine. The byte counter of a shard may wrap below zero for a moment
  (`memory_facade.h:842`), and a drain then takes out more than it has to. In
  the build that releases only on flush the limits hold only after one.
* Layout. Alignments of 16 and more put padding between the front guard and the
  block, in front of which a write is not noticed if it stays in the padding.
  `EngineAllocator::allocate` multiplies count and size unchecked (`:1816`).
* Dedicated blocks. With huge pages the cache of regions is keyed by
  `ReservedSize` (`:995`) and asked by `TotalSize`, and never hits. Two
  recycling threads may raise the cached bytes past their limit together.
* Events. `unbind` may return while an `emit` on an older list still calls the
  observer. The event of a deallocation comes after the block was given back
  and carries an id of its own (`:404`), so a late one can erase the record of
  the block's next owner, or shift the statistics.
* Tracker. A record of `realloc` comes after the old block is free, so a racing
  `malloc` of that address is taken for a double allocation and its free for a
  double free. `realloc(p, 0)` frees, and is recorded as a failed reallocation.
  A block that a hook reports before the allocator does is counted twice, the
  other way round once. `setFreedHistoryLimit` and `setMaxTimelineEntries` drop
  entries while they hold the mutex (`memory_tracker.h:653`, `:665`) and, with
  hooks on, wait for it again in the hook of `delete`; `Memory/readme.md:279`
  turns hooks on before it sets the limits, which is harmless only as long as
  there is nothing to drop.

## 4. What is proved

Every theorem is about the specification that a run checks, for all values of
its constants; the assumptions beyond those of the module are named here.

`CentralPool_proofs` (`Inductive`, `TypeCorrect`, `BlocksAreAccounted`,
`SpansAreConsistent`, `PagesAreExclusive`). Any number of threads, shards,
spans, blocks and batches. Assumption `ShardsAgree`: two threads of one page
shard are of one bucket shard. Both numbers come from the hardware concurrency
h: a bucket has max(8, min(2h, 64)) shards (`central_pool.h:442-452`), the page
allocator max(1, min(2h, 64)), or 8 when h is unknown
(`virtual_memory_backend.h:663-671`), and both take the same thread hash modulo
their number; so it holds for h of at least 4 and for an unknown h, and the run
`CentralPool_hints` shows what happens where it does not. None of the three
properties is inductive. `IInv` has eleven parts. `LocksHeld` says which label
of a call has which lock, `SpansOwned` that a span object is in
the pool, live, or with the one thread that makes or releases it under its
shard's lock, `ExtentsPlaced` that pages are with the page allocator, with a span or in one
call's hands, `RegionsOfShards` that pages only come back to threads of one
shard. The heart is `BatchesOfSpans` and `BlocksPlaced`: the block that a
return has looked up, and every block of a group it has collected, still
belongs to the span it was found under, because a block in hands keeps its span
from being empty, and a span that is not empty is never released. From it
follow `CountersExact`, `ListsMatchState` and `RetainedBounded`, the copies of a
span's state. The proof has a lemma for each action.

`PageAllocator_proofs` (`TypeCorrect`, `Inductive`, `NoPageTwice`,
`SpansComeHome`, `NoPageLost`, `HandedOutCommitted`). Any number of shards and
regions, any sizes, failing commits included; the last theorem assumes a
granule of one page, the run `PageAllocator_huge` shows that it needs it. That
no page is in two spans is not inductive by itself: a new span is disjoint from
the others because all spans of its region end at the cursor (`BelowInv`), and
a new region is empty because its number was never given out (`NumbersInv`,
which rests on the arithmetic of numbers modulo the shards).

`ThreadCache_proofs` (`CountersAreExact`, `BlocksAreAccounted`,
`NothingIsLeft`). Any number of threads, classes, sizes, batches and budgets.
`CountersExact` needs no assumption: counts wrap in the code and in the
property. The other two assume that the threads are finitely many and that a
count can hold all blocks of a class (`CountsHoldAll`); without that the code
does lose blocks, which is what `ThreadCache_wrap` shows. The counters are sums
over classes and the blocks sums over threads, and refills, spills, drains and
trims are loops written as recursive functions; both are reasoned about with
`FoldLemmas`. Every loop keeps one relation between the cache it started with
and the cache it has: counters agree, and what left a list was returned.

`FoldLemmas` has what that needs: `SumFunction` of a function changes by the
change of its one entry, is zero when all entries are, is at least any entry
and no more than the sum of a larger function; a loop keeps what each of its
rounds keeps; a counter that wraps may be reduced before or after it is moved. The induction theorems of the
prover's library take operators, which the provers cannot instantiate; here
the induction is over a set (the numbers, or the subsets, of which the claim
holds), from the existence of a least element.

`MpmcQueue_proofs` (`TypeCorrect`, `Inductive`, `CellsExclusive`,
`StaysBounded`, `SizeSane`, `ImplementsQueue`). Any number of threads, pushes
and bulk sizes, any capacity of at least two (any capacity at all for the
types). `Bounded` is not inductive: whether an exchange may succeed depends on
a sequence number that was read before it. `IInv` therefore says what the
number in every cell of the two current laps can be (`WindowInv`), that a call
that has won a position is the only one with it and finds the number it needs
(`PushingInv`, `PoppingInv`, `WinnersInv`), and that a call about to exchange
has read a number that is still there if the exchange succeeds (`PushCasInv`,
`PopCasInv`). The proof has one step per action; its arithmetic rests on one
lemma, that two positions less than a lap apart are in different cells.
`ImplementsQueue` is the refinement of `BoundedFifo`, under the mapping that
the run checks: a push takes effect when its exchange succeeds, so the abstract
queue holds values that are not written yet. `DataInv` says that every value is
where the mapping looks for it, with the call that pushes it until it is
published and in its cell until its consumer has taken it; with `IInv` every
step is one of the queue or none.

`IdDistributor_proofs` (`TypeCorrect`, `Inductive`, `IdsUnique`,
`ActiveSetExact`, `NoIdLost`, `ScansAreComplete`). Any number of threads,
stripes and ids, with or without failing allocations. An id's uniqueness rests
on the active set, and the active set is larger than what callers hold exactly
between a release and its erase; `ReleaseInv` says that such an id has no
holder and only one release under way, which makes `IInv` inductive.
`NothingLost` is proved from it, with the counter's wrap as a case of its own.
`ScanComplete` is about a thread that is alone, no other having finished a call
yet: `ScanInv` says that the stripes it has passed, counted from where its scan
started, are still empty.

`Containers_proofs` (`DelegatesAreOwned`, `MulticastIsExact`,
`CallsAreRegistered`, `ObserversAreKept`, `TreeIsExact`, `TreeImplementsMap`). The first is for any number of delegates, callables
and cells, in the specification of the run `Containers`. What the three parts
of `DelegatesOwn` have in common is `Sound`, which says of every delegate where
its pointer leads (its own buffer, a cell, the instance or nowhere), that no
two own one place, and that whatever is alive has an owner. It is stated of any
bindings, pointers and memory, so that an assignment is the composition of what
it does: unbinding the target, then binding, or moving.

The next two are about multicast delegates, for any number of callbacks and of
nested calls and any size at which `Order` is compacted. They assume
`GenerationsLast`: fewer callbacks are ever added than a slot has generations,
2^32 - 1 in the code. Without it a slot that has been used that often would
give a new callback the generation of a handle from its first use, and the old
handle would remove the new callback; the run stays below that too (three
callbacks, generations modulo 6). `MulticastInv` has seven parts. `HandlesInv`
relates handles and slots: the generation of a handle that is gone is past, a
slot beyond its first generation has a removed handle of the one before, and an
active slot belongs to exactly one handle. `ListsInv` says that `FreeHead` and
`RetiredHead` lead along two stacks of slots without a repetition, and that
a slot is on one of them, being released, or active; the sets that
`SlotsAccounted` computes from the links are shown to be those stacks
(`ChainIs`). `OrderInv` says that `Order` has the handles in the order in which
they were returned, those not removed all, so that what compaction keeps is as
many as `ActiveCount` (`LiveExact`, `LiveOrder`). `CountsInv` relates the two
counters to them. `FramesInv` is why no release is lost: releases lie below all
broadcasts on the stack, as a broadcast in progress defers every other release,
also those that `remove` and `clear` ask for inside a destructor. `WalkInv`
says of a broadcast that it has called what it has passed, but for those that
were removed, and that what it has called is in order; `RunningInv` that the
slot of the callback that runs still holds it and is not being released; and
`RestInv` that nothing is deferred between calls. `clear` retires all active
slots in one step: `ClearedExact` carries slots and lists along its loop. That
no removed callback is entered follows step by step: only a broadcast's own
step adds to what it has called, and the entry it adds is active.

The fourth is about observer lists, for any threads and lists, any finite set of
nodes with at least a dummy for each list, and any numbers of subscriptions,
assignments and nested notifications. `ObserversInv` says that there is a chain
for each list (`Chained`): a sequence of nodes without a repetition that starts
at the dummy and that `next` follows to its end (`IsPath`), with the observers
in the order in which they were linked behind the dummy (`Watched`), apart
from the other chains, from free nodes and from those in a thread's hands
(`PlacedInv`). That the walks of `SubscriptionsKept` and `NodesOwned`, which
follow `next` as many times as there are nodes, are these chains is
`WalkIs`. The tail may be one node behind the end, but only while the thread that linked the
end has still to swing it (`TailsInv`), so at the end when no append is in
progress. Why no append overwrites another's: what a thread has read of a chain
stays true whatever the others do (`AppendStays`), since the tail only moves on
and a `next` that is set is not set again. The node it took for the tail was the
tail and lies in the chain (`Behind`); if it has no next, it is the end, and
then it still is the tail. `NotifyInv` is why an observer's own assignment
misses nobody: every observer that was there at the last assignment has been
called with the current value, or stands behind one of the notifications
in progress, which calls it with the value there is by then.

The last two are about the radix tree, for any keys and values, sizes of the
three levels and numbers of nodes. `TreeInv` says that a node is free or is
reached from one place, and that a free node is clean (`TreeShaped`); that
every node in the tree leads to an entry (`NodesNeeded`), so that an insertion
which finds only one of the two nodes it needs must give it back; that
`UsedCount` of a node is the number of its filled entries, on which the release
of an emptied node rests; that what lies at three indices was put there under a
key with these indices (`EntriesKeyed`); and that `Size` is the number of cells
with an entry. Its arithmetic is `CellsApart`: two keys that decode share a cell
if and only if they share the three indices, so `find` cannot return what another cell's
key was given. With it every call is the same call of `KeyMap`, with the same
key, value and answer (`TreeImplementsMap`), which is the part of
`ImplementsTables` about the tree. An insertion that is refused half-way is
modelled with what it does and undoes; that nothing is left of it is
`TreeRefuses`.
The provers know nothing of exponents: that `2 ^ KeyShift` is a positive number is
stated with the other assumptions on the parameters, and TLC evaluates it.

`Engine_proofs` (`QuarantineIsExact`, `ObserversAreExact`). The first is about
the quarantine in the specification of the run `Engine`, for any number of threads, blocks and shards, any sizes,
capacity and limits, whether only a flush drains or every free does. It assumes
what `Quarantine` asks of every instance (`ParametersAssumption`): finite sets,
and a byte counter that can hold all blocks at once. `QuarantineInv` has nine
parts. `RingInv` and `HandInv` say who has a block: one ring, once, or one
call, as what it frees or what it popped; `TodoInv` that what prewarm has still
to free is its own. `ClaimedInv` gives every entry that is not published the
call that will publish it, which is why a drain that is refused at such an
entry leaves nothing over the limits: that call drains after it. `LimitInv`
says so: a shard over a limit has a call at work on it that has still to look,
or has looked and drains; for the bytes, whose counter a drain reads before the
number of entries, the call remembers it (`over`). It needs `BytesInv`: while
no call stands between ring and counter, the counter says what the ring holds,
and a counter that wrapped below zero has one that will raise it. `MissedInv`
is about a flush that no free overlaps: what it misses is in the shard it is at
or in a later one, and nobody is about to push. `StaleInv` follows a late write
until the block leaves its ring. The proof has a lemma for each action.

The same module has `ObserversAreExact`: the event bus, the leak detector and
the statistics, for any number of threads, allocations and calls, and any
observers bound first. `ObserversExact` speaks of blocks that no call works
on and of moments at which nobody announces; `EventsInv` speaks of all others. Its notion is
`ToTell`, the events that a call has still to bring to an observer: those it
has not emitted, and the one it emits, until it has passed the observer in the
snapshot it took. `ListInv` says that a snapshot has an observer as often as
it is bound, also the one that the holder of the mutex is about to publish;
`CallerInv` what a call has to announce at each label; `NumbersInv` that two
allocations never have one number, so that an event names one allocation. With
these, `DetectorInv`: once an owner's `Allocate` is told, the detector's record
is the owner's number, unless it was erased by a late `Deallocate` of an
earlier owner (`lost`), and a record of another number has its `Deallocate`
still to come. `TotalsInv` and `EventBytesInv`: a counter of the statistics plus what is still
to tell is what happened, and `CurrentBytes` is the sum over the blocks told of
plus, for each call, the bytes of a release it has still to tell.
`PeakInv`: a peak below the current bytes has a call in the loop that raises
it. It assumes that the counter fits every block, and once more the largest for
each thread (`WideEnough`): the statistics hear of a release late, so a block
can be counted twice, once for each thread at most; `CurrentBytes` is a
`size_t` and the blocks lie in one address space. Observers to which
some event was not announced exactly once (`skewed`) are outside of the
property, as in the run.

Only model-checked: liveness (fairness and ENABLED are outside the prover's
reach); `BudgetsKept`, which depends on how the sizes, batches and budgets are
chosen; the hash set, in `TablesExact` and in `ImplementsTables`, whose
capacity is a power of two with a growing exponent; and the rest of what the
composed runs check: rings, double buffer, logger, dedicated blocks, layout and
tracker.

## 5. The plan

Done: the modules of section 2, their runs, and the proofs of section 4.

Left, in this order:

1. `RegionsExact`, as a theorem in `Engine_proofs`: the parameters of
   `DedicatedBlocks` then become constants of `MC_Engine`, as those of
   `Quarantine` and `MemoryEvents` are.
2. The probe sequences of `ActiveSet`, as theorems in `Containers_proofs`; its
   capacity then becomes a recursive doubling.
3. The span object pool with the steps of its lock-free lists.
4. The destructors of the page allocator and the engine, the registry's
   binding of caches to threads.

## 6. Not modelled

* `math.h` (a fifth of the code), `time.h`: values, floating point and clocks;
  no state, and nothing that integers could say about it.
* `platform.h`, `common.h`, `Core.h`, `exception_handler.h`: macros, includes
  and output on the way to `terminate`.
* In the allocator: NUMA placement, `protectNoAccess`, the configuration before
  the first use, runtime statistics and bench timing, which are only read by a
  printout, and the STL and PMR adapters, which forward their calls.
* In the observability: reports, JSON, call stacks, payload previews and names
  of traces, that is the text made from the records that are modelled.
* In the logger: sinks, levels and the text of a record. In `observed`: value
  storage and the choice of constructors, which the compiler makes.
* Iterators of the rings, `snapshot` of the queue and the read-only statistics
  of the pools. Generated build files. The tests and benchmarks, which were
  read as documentation of what they exercise.
