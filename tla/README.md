# Verification of the DRAM-cache tiered memory simulator

TLA+ models, TLC runs and TLAPS proofs for the simulator in `src/`, a ChampSim
derivative whose last-level cache (LLC) sits above a *DRAM-cache manager* with a
near and a far memory.  The models follow an instruction from the trace through
the core's front end to its load and store queues, and a request from there
through translation and three levels of caches to the manager and its two memory
controllers.  They concentrate on what decides whether
the simulated machine makes progress and answers each request once: queues,
states, conflicts, callbacks and the order in which they happen.  Statistics,
printing and physical timing parameters that no decision reads are left out.

- [1. The system](#1-the-system)
- [2. Modules](#2-modules)
- [3. Model and code](#3-model-and-code)
- [4. Runs](#4-runs)
- [5. Where code and documentation disagree](#5-where-code-and-documentation-disagree)
- [6. Proofs](#6-proofs)
- [7. Not modelled](#7-not-modelled)
- [8. Plan](#8-plan)

## 1. The system

The program is one thread.  `main()` advances `current_core_cycle` and, in every
cycle, lets each core operate, then each cache level, then the DRAM-cache
manager, which in turn operates its two memory controllers.  Everything that is
hard comes from that loop: many requests are in flight at once, each queue may
be full when something has to enter it, and a completion is a *call* up the
stack (`return_data()`) that may start other work before it returns.

| Component | Source | State | Operations | Status |
|---|---|---|---|---|
| DRAM-cache manager | `src/src/dram_cache_manager.cc`, `src/inc/dram_cache_manager.h` | `tagMetadataStore`, `ORB`, `CRB`, `WB`, `bypassOutstandingReads`, `pendingNearDispatches`, `pendingFarDispatches`, `pendingResponses`, `policy`, `bypassDcache` | `add_rq`, `add_wq`, `return_data`, `operate` | modelled, but for its statistics |
| Memory controller | `src/src/dram_controller.cc`, `src/inc/dram_controller.h` | `RQ`, `WQ`, cached indices, `bank_request`, `write_mode`, `dbus_cycle_available` | `add_rq`, `add_wq`, `operate` | modelled |
| Cache hierarchy | `src/src/cache.cc`, `src/inc/cache.h`, `src/inc/block.h`, `src/src/block.cc` | blocks, `MSHR` and its `next_fill_index`, `RQ`, `WQ`, `PQ`, `PROCESSED` | `handle_fill`, `handle_writeback`, `handle_read`, `handle_prefetch`, `return_data`, `add_rq`, `add_wq`, `add_pq` | modelled for one core; `invalidate_entry` only for the TLBs |
| Processor core | `src/src/ooo_cpu.cc`, `src/inc/ooo_cpu.h`, `src/inc/instruction.h` | `ROB`, `LQ`, `SQ`, `STA`, `RTS0/1`, `RTL0/1`, fetch and decode buffers | read the trace, fetch, decode, dispatch, schedule, execute, load/store queues, retire | modelled in two halves: `FrontEnd` and `LoadStoreQueue` |
| Simulation loop, page table | `src/src/main.cc` | `page_table`, `inverse_table`, `recent_page`, warmup flags | main loop, `va_to_pa` | `va_to_pa` under the TLBs; the loop's order is in every model |
| Replacement policies | `src/src/base_replacement.cc`, `src/replacement/*` | LRU ages, RRPV, PSEL, SHCT | victim choice, update | LRU, which is the one the hierarchy uses by default |
| Branch predictors | `src/branch/*` | counter and weight tables | predict, update | not modelled |
| Prefetchers | `src/prefetcher/*` | stride and signature tables | operate, fill | any prefetch may happen at any time |
| Manager statistics | `DCM_STATS` | counters | increments, ROI reset | not modelled |
| Trace tools, scripts | `src/tracer`, `src/cvp_tracer`, `src/scripts`, `*.sh` | none that outlives a record | file conversion | not modelled |

**How they interact.**  The core sends page numbers to the DTLB and line
addresses to the L1I and L1D, and takes answers from their `PROCESSED` queues.
Each cache calls `add_rq()`, `add_wq()` and `add_pq()` of the level below and is
called back by its `return_data()`; when the lower level finds the line in its
write queue, the callback comes from inside the call.  A miss of the STLB walks
`page_table` in `va_to_pa()`, and a page that is swapped out there is invalidated
in all caches and TLBs.  The LLC asks `get_occupancy()`/`get_size()`, then calls
`add_rq()`/`add_wq()` of the manager and ignores what they return.  The manager
sends reads and writes to `nearMC` and `farMC` in the same way.  A controller
calls `return_data()` of the manager for a read, either when the data has moved
(from `process()`) or at once, from inside `add_rq()`, when the line is in its
write queue.  The manager calls `return_data()` of the LLC, at once or after a
latency.  During warmup there is no traffic: `add_rq()`/`add_wq()` only update
the tag store and the LLC is answered by the call itself.

**What is hard.**

- *Re-entrance.*  `return_data()` completes a request; that promotes a held one,
  which sends a read, which the controller may forward from its write queue,
  which calls `return_data()` again.  Meanwhile the outer call has yet to send
  its background fill and the controller has yet to remove the entry whose data
  it is returning.
- *Full queues.*  A controller drops what does not fit and merges a read it
  already has; both look like success to a careless caller.  The manager must
  find out before and keep what it could not send.
- *Delayed effects.*  The tag store is updated when a request is admitted, long
  before the data moves; the line it displaced is then known to that request
  alone.
- *Wake-ups.*  A request held in the CRB is looked at only when a request of its
  index completes.
- *Merging.*  A read that meets an older one of its line is merged into it, in a
  queue or in a miss in flight, and with it go the flags that say who above has
  to be answered.  Every answer depends on no merge losing a flag.
- *One fill at a time.*  A cache fills the miss `next_fill_index` names, and
  `return_data()` and the end of each fill have to keep it on an answered miss.
- *Waiting on each other.*  A dirty victim needs room below, a prefetch needs room
  below, a miss needs an MSHR: handlers give up and try again, and no circle of
  full queues may form.
- *Code lines.*  The L1I merges requests by physical line, the core finds the
  instructions an answer is for by virtual line, and all instructions of a line
  share one request.
- *Wrong predictions.*  A misprediction found while the trace is read stops the
  reading until the branch, many stages later, has executed and a penalty is over.
- *Out-of-order memory.*  A load is bound to the youngest older store when it
  enters the load queue, and takes its data from it whether the store executes
  before or after, from the store queue or, once that has retired, from the cache.
- *Translations under way.*  A swap removes a page while the walk's result is still
  on its way up through the TLBs.
- *Cached indices and busy banks.*  The controller keeps the next request to
  schedule and to process in variables refreshed by hand, and rolls back what it
  has scheduled whenever the bus changes direction.

**What makes the components correct.**

- *Manager:* one owner per index; no read lost, duplicated or answered twice;
  every wait has exactly one memory read behind it; no dirty line dropped on its
  way to far memory; requests of an index served in order; dispatches to near
  memory in order; nothing sent to a full controller; no held request stranded;
  everything is answered and drained in the end.
- *Controller:* banks, counters and queue entries agree; the cached indices are
  fresh; each read returned once; a change of direction loses nothing; neither
  direction starves the other.
- *Caches:* each miss has exactly one answer coming; no load of the core lost or
  answered twice; the miss to fill next is an answered one; dirty data never
  dropped; a line at most once in an L1; LRU ages a permutation; no circle of
  waiting; everything answered in the end.
- *Page table and TLBs:* the two maps inverse, no two pages on a frame; a TLB
  entry, and the answer to a miss, is the table's unless the page was swapped out while a
  miss held its translation; every translation arrives.
- *Core:* instructions reach the ROB in program order, none behind a mispredicted
  branch before its time; an instruction that waits for its line has an answer
  coming; loads read what program order demands; operands counted exactly, since
  the count decides completion; no load left without someone to wake it; stores
  in order; everything retires.

The hazards, each at its line and with the properties that watch it, are listed
in `PROJECT.json` under `hazards`.

## 2. Modules

| Module | Content |
|---|---|
| `DramCacheManager` | The manager: one action per handler, branch or stage, with the two controllers as bounded sets of lines and the LLC as environment |
| `DcmProperties` | What the manager must keep true, its fairness, and the refinement of `LineService` |
| `LineService` | Abstract specification: per index a FIFO of requests served one at a time, reads answered once and in the order served |
| `DcmProofs` | Theorems about the manager's states, owners and wake-ups, with proofs |
| `DcmQueueProofs` | Theorems about its queues and the lines it stores, with proofs |
| `DcmReadsProofs` | Theorems about the reads it was given and those it sent, with proofs |
| `MemoryController` | One memory controller with slots, banks, bus and modes |
| `ControllerProperties` | What the controller must keep true, its fairness, and the refinement of `MemoryPort` |
| `MemoryPort` | Abstract specification: two bounded sets of lines, each line served once.  It is the controller `DramCacheManager` is written against |
| `ControllerProofs` | Theorems about the controller, among them that it implements `MemoryPort`, with proofs |
| `CacheHierarchy` | L1I and L1D over L2C over LLC, with the core and the prefetchers as environment and the manager as an instance of `LineService` |
| `CacheProperties` | What the caches must keep true |
| `Replacement` | `lru_victim` and `lru_update` on the blocks of a set |
| `CacheProofs` | Theorems about the caches: replacement, queues and MSHRs, answers, dirty data and loads, with proofs |
| `PageTable` | `va_to_pa`, the DTLB, the STLB and direct translation of code |
| `PageProperties` | What the page table and the TLBs must keep true |
| `PageProofs` | Theorems about them, with proofs |
| `FrontEnd` | The core from the trace to the ROB: branch prediction, fetch and decode buffers, an L1I that answers in any order |
| `FrontEndProperties` | What the front end must keep true, and the refinement of `InstructionStream` |
| `InstructionStream` | Abstract specification: the trace arrives in order, and stops behind a mispredicted branch |
| `FrontEndProofs` | Theorems about the front end, with proofs |
| `LoadStoreQueue` | The core from dispatch to retirement, over a DTLB and an L1D that answer in any order |
| `LsqProperties` | What the load and store queues must keep true |
| `LsqProofs` | Theorems about them, with proofs |
| `MCDcm`, `MCController`, `MCCache`, `MCPages`, `MCFrontEnd`, `MCLsq` | Constants for TLC |

`LineService` is what ties the levels together: `DramCacheManager` is shown to
implement it and `CacheHierarchy` is checked over it, so that the caches are
checked over everything the manager may do and not over one of its behaviours.
`MemoryPort` does the same between the manager and its controllers.
`InstructionStream` is what `LoadStoreQueue` counts on: its `Dispatch` takes the
next instruction of the program at any time, which is more than `InstructionStream`
allows.

Operators named `Faulty_X` (or `FaultyUnbounded_X` and the like, where `X` has
several) are `X` with a bug in it, of the kind an edit could bring in.  No specification uses
one.  Put in the place of `X`, each breaks the property that `PROJECT.json` pairs
it with, which shows that the property depends on the code it is about.

## 3. Model and code

`PROJECT.json` maps every definition to the lines it stands for.  The ideas
behind the mapping:

### The manager and its controllers

**Calls.**  A handler of the manager is a sequence of calls.  `call` is the
handler that runs next (`driveState`, `return_data`, `promoteFromCRB`) and
`frames` is the stack of what its callers still have to do: send the background
fill (`fill`), pop the pending dispatch that was just forwarded (`popNear`,
`popFar`), signal the second completion of a packet that is both `instruction`
and `is_data` (`return_data`), remove the entry being returned from the
controller's queue (`doneNear`, `doneFar`).  No stage and no new request runs
until both are empty, as in the single-threaded program, but every intermediate
state is a state of the model, and the invariants are checked there.

**Stages.**  `phase` goes through the stages of `operate()` in its order:
`processPendingFarDispatches`, `drainWB`, `processPendingNearDispatches`,
`nearMC->operate`, `farMC->operate`, `processPendingResponses`; then the LLC has
its turn, and `NextCycle` starts again.  A stage that loops (pending dispatches,
due responses) is one action per iteration and one for leaving the loop.

**Time.**  Cycle numbers are replaced by countdowns: `hold` of a pending far
dispatch or response is the number of cycles until its `targetCycle` or
`readyCycle`.  `NextCycle` decrements them.

**The controllers seen from the manager.**  `near` and `far` hold the sets of
queued addresses.  A queue never holds a line twice, since `add_rq()` and
`add_wq()` merge.  `trySend` gives the result of the occupancy check and of
`add_rq()`/`add_wq()`: blocked, forwarded or queued.  In its cycle a controller
serves one request of either queue or none, in any order.  A read being returned
stays in `rq` until `return_data()` has come back (`ResumeDone`), because the
code removes the entry afterwards.  `Controller` shows that the detailed
controller does no more than this (`ImplementsMemoryPort`).

**The LLC seen from the manager.**  `Submit` is any request the LLC can send: it
has asked `get_occupancy()`/`get_size()` (`Full`) and counts on an answer for a
read.  `llcWaiting` counts reads handed down and not yet answered, by address.
A request is not taken back when `add_rq()` returns -2, since the LLC ignores
that value: `ReadsConserved` would see the loss.  For a packet that is both
`instruction` and `is_data` the manager calls the LLC's `return_data()` twice in
a row; the model counts that pair as one answer.

**Tag store.**  Direct-mapped, as in the code: index and tag are remainder and
quotient of the line address (`NumLines` stands for `DCM_NUM_LINES`).
`admitRequest` contains `classifyAndInstall` and the choice of the first state;
`driveState` is the next call.

**Data.**  The program moves no data.  `unsaved` is a history variable: lines
the LLC wrote that far memory has not been given since.

**The controller's clock.**  Times are relative to the current cycle.  Event
cycles in the past matter by their order only, so `Aged` ranks them anew in
every cycle; a bank's past availability is 0.  The bus's past availability is
kept, because a change of direction adds to it even when it lies in the past
(`dbus_cycle_available += DRAM_DBUS_TURN_AROUND_TIME`), down to a floor that no
sequence of turns within the bound can climb over.

### The caches

An action of `CacheHierarchy` is one pass of a handler over the entry it looks at,
with every call it makes: the victim handed down (`WriteBack`), the request
passed on (`add_rq`, `add_pq`), the answer given up (`return_data` for the caches
of `Uppers`) and the replacement state.  A handler that returns early because
something is full is an action that is not enabled.  Where handlers call one
another, the queues and the MSHR a call finds are its arguments, so that an entry
removed before the call is gone when the call looks.

- *Packets* keep what the code compares or tests: line, word (for the L1D's write
  queue, which compares `full_addr` where all others compare `address`), type,
  `fill_level`, `fill_l1i`, `fill_l1d`, `instruction`, `is_data`, the loads that
  depend on it, and whether it was returned.
- *Time.*  There is no clock.  `event_cycle` decides the order of answered misses
  only: `return_data()` takes over `next_fill_index` or leaves it (`keep`), which
  covers every order of cycles and the ties, and `update_fill_cycle()` picks any
  answered miss.
- *Environment.*  The core fetches code lines, loads and stores data lines and
  takes answers out of `PROCESSED`; a request that `add_rq()` refuses is sent
  again, and a store leaves the core only when the L1D's write queue has room, as
  `retire_rob()` and `operate_lsq()` have it.  `prefetch_line()` may be called for
  any line at any time, by whichever caches have a prefetcher; in the code it is
  called in the middle of a handler, in the model it is a step of its own.
- *Not in it.*  Reads go before prefetches in a cycle, which decides who is first
  and nothing else; several cores; the branches under `LLC_BYPASS`, which are compiled but
  taken only for the victim `LLC_WAY`, which `lru_victim()` never names;
  `invalidate_entry()` of the data caches, which leaves a dirty block dirty though
  invalid (a hazard in the list).
- *Two copies.*  L2C and LLC may hold a line twice for a while: a write-back that
  misses is put in the cache although the line's read is in flight, whose fill
  does not look.  `FilledOnce` is therefore about the first level, and
  `DirtyDataKept` about all.

### Pages and TLBs

`va_to_pa` is one operator used by the STLB's walk and by the direct translation
of code ("magically translate instructions"), for which no ITLB is consulted.
`Allocate` draws any free frame of `Draws` or continues the run; `Swap` takes the
first page of the map: `recent_page` is never filled, so that the search for a page
not recently used stops at its first candidate, and not at a random one as the
comment of `src/src/main.cc:487` has it.  A TLB is a cache of one set; what
fill it evicts is left open.  The STLB's miss is answered at once by the walk and
filled later; the DTLB's miss is answered by the STLB's fill or hit.  `overtaken`
is a history variable: pages swapped out while a miss of them held a translation.
Left out: `page_queue`, which nothing reads; the stall of the core after a page
fault; frame 0 and the unbounded range of `draw_rand()`.

### The core

*Front end.*  An instruction is its `instr_id`, the position in the trace.  The
three buffers are first-in, first-out, so each is an interval between two of the
counters `instr_unique_id`, `decoded`, `dispatched` and `retired`.  The loop of
`read_from_trace()` is one action per turn, and `loop` holds its variables; no
handler runs meanwhile (`Cycle`).  `predict_branch()` may be right or wrong.
`RequestLines` is the scan of `fetch_instruction()`, with the queue of the L1I as it
changes under it: a request may be refused or merged, and if it is taken all
instructions of the line are marked.  A code line stands for its page and a frame
for the physical line; `add_to_ifetch_buffer()` translates at once, by `va_to_pa()`,
so that the branch of `fetch_instruction()` that asks the ITLB is never taken, and
code translations cost no `stall_cycle`.  Cycle numbers are reduced to `unset`,
`running` and `passed`.  Whether a read hits the L1I is left open, and so is which
miss is filled next; `PROCESSED` has `ROB_SIZE` entries in the code and room for all
in the model.  Of the back end only execution, in any order, and retirement are seen.

*Back end.*  Instructions of `LoadStoreQueue` are named by their `instr_id`; an entry of the
ROB is found by that name where the code uses its index, and the test that `Schedule`
makes with indices is kept: `schedule_instruction()` stops at the end of the array,
since its second loop ends at `next_fetch[1]`, which is never set.
`do_memory_scheduling` runs `check_and_add_lsq()` over all operands of an
instruction, loads first (`LoadsAdded`, then `StoresAdded`, each operand on the state
the one before it left), and gives queue slots in program order, since the code
walks the window in that order.  `STA` gets the stores of an instruction at its
dispatch: the code appends them when it reads the trace, but nothing looks at an
entry before its instruction is in the ROB.  `execute_store()` releases its
dependents one after the other; `StoreDone` states what that comes to, since no slot
is released twice: were one met twice, the second time it would no longer name the
store and `SANITY_CHECK` (`ProducerMatches`) would end the program.  The DTLB and the L1D answer in any order, each
request once.  Merging of requests by address inside the core
(`handle_merged_translation`, `handle_merged_load`) is several answers at once,
which any order contains.  `got` is a history variable that holds, for every load,
the store whose data it took: data itself is not in the program.
Left out: latencies and widths, which delay a step that may anyway be
delayed; the order of the `RTE` lists.  `inflight_reg_executions` and
`inflight_mem_executions` are one count.

### Bounds that are not in the code

`MaxRequests` bounds what the LLC submits after warmup (and what is sent to the
controller); `MaxFetches`, `MaxLoads`, `MaxStores`, `MaxPrefetches`, `MaxAccesses`
and `MaxCode` bound the environments of the caches and the TLBs.  Each is a guard of
the environment's action and of nothing else.  A program of the core is a finite
trace, where the code begins the file anew at its end.

## 4. Runs

Passing runs:

| Run | Checks | Shows |
|---|---|---|
| `DcmConflicts` | `TypeOK`, `OneRequestPerIndex`, `HeldHasBlocker`, `ReadsConserved`, `DirtyNotLost`, `WithinCapacity`, `NearDispatchInOrder` | three lines on two indices over a link, all policies, bypass switched between cycles with requests in flight, packets that signal twice |
| `DcmLiveness` | `OneReadPerWaiter`, `Drained`, `ImplementsFairLineService` | two lines of one index: every read is answered, everything drains, each index makes progress |
| `Controller` | `TypeOK`, `BankOwnsRequest`, `CountersMatch`, `CachedIndicesFresh`, `ReadReturnsOnce`, `ImplementsMemoryPort`, `NeitherStarves` | three lines on two banks with the bus changing direction: nothing is lost, served twice or starved |
| `CacheStack` | `TypeOK`, `OneAnswerPerMiss`, `NextFillIsDue`, `LoadsConserved`, `FilledOnce`, `LruStacks`, `NoWaitCycle`, `DirtyDataKept` | four caches with fetches, loads, stores and prefetches that merge, forward and meet full queues |
| `CacheLiveness` | `Drains` | with a prefetcher at every level each fetch and load is answered and all queues drain |
| `PageTable` | `TypeOK`, `TablesInverse`, `WithinMemory`, `StaleOnlyIfOvertaken`, `TranslationsArrive` | five pages on four frames: allocation, collisions, swaps, misses under way |
| `FrontEnd` | `TypeOK`, `AnswerComing`, `ImplementsFairStream` | three code lines, branches predicted rightly and wrongly, before and after warmup: every instruction is fetched, and reaches the ROB in order |
| `LoadStoreQueue` | `TypeOK`, `ReadsInProgramOrder`, `OperandsCounted`, `NoLoadStranded`, `StoresInOrder`, `AllRetire` | two programs through queues smaller than they are |

**Why the bounds are enough.**

*Manager.*  The lines are 1, 2, 3 (or 1 and 3) with two indices, so that 1 and 3
compete for an index and 2 does not.  Three lines give every relation two
requests can have: same line, same index, unrelated.  Each buffer is at its limit
in reachable states: two entries of ORB and CRB, a write-back threshold of one, a
near write queue of one slot, so that a background fill and a local write block
each other and the dispatches behind them.  The controllers' read queues have two
slots, so that a read may find its own line queued with room left, which is the
merge `trySend` must refuse: with one slot the queue would be full first and the
case would never occur.  Three requests are enough for one to be in progress, one
to be held for its index and one to be promoted inside the completion of the
first.  Warmup adds no bound: the LLC may touch any lines before, so measured
requests start from every tag store the policies can leave, dirty lines included.

*Controller.*  Different watermarks (2 and 3 of a write queue of 3), so that it
leaves write mode both when the queue is empty and when it is only below the low
one; two banks for three lines, so that two lines conflict on a bank and a row;
five requests, which fill the write queue with reads waiting.

*Caches.*  One block per cache (two in the LLC of `CacheStack`), so that every
fill evicts and dirty victims go down through write queues of one entry; two
lines of data and one of code that meet in L2C and LLC; prefetch queues of one
entry and MSHRs of one or two, which fill up; two stores, so that one is forwarded
from or merged with the other.  `PROCESSED` has room for exactly what
the L1D may be asked for, so that it is full in reachable states: in the code it has
`ROB_SIZE` entries, more than can be outstanding.  A cache's read queue holds the
misses of the caches above (`CacheAssumption`, as in `inc/cache.h`), which the
code counts on when it ignores what `add_rq()` returns.

*Pages.*  One frame less than pages, so that each page may be the victim; three
accesses of data and three of code, so that a page is swapped out and mapped again
while its translation is under way; draws that collide and runs that meet a frame in
use; a DTLB of one entry over an STLB of two.

*Front end.*  The trace meets its first line again while that may still be waited
for, so that marks of fetched instructions are set back; an L1I read queue of one
request for two lines in the buffer, so that requests are refused; branches in the
middle and at the end of a line, taken and not; a ROB of two and a decode width of
one, so that every buffer fills up.  Every page has a frame of its own: `CodeSwap`
shows what happens when it has not.

*Core.*  The two programs of `MCLsq` hold a load and a store of one address in one
instruction, stores of two addresses, loads of two operands, forwarding from the
store queue and from a store that executes later, a store queue that is full, an older
store that becomes ready after a younger one, and a ROB that wraps.

**Fairness.**  `operate()` runs every stage of the manager in every cycle, and a
handler that has been called runs: `Handler`, `Operate`, `NextCycle` and the end
of warmup are weakly fair.  Nothing is assumed about the LLC.  A controller whose
read (write) queue is not empty serves a read (write) in the end.  In the
manager's model that is strong fairness of `NearServeRead`, `NearServeWrite` and
their far counterparts, because the phase disables them between cycles.  It is
what `NeitherStarves` shows of the detailed controller,
under weak fairness of its stages only, with a bounded number of requests.
`ImplementsFairLineService` says that the oldest request of every index is served
whatever the others do.  For the caches and the TLBs weak fairness of all steps
together is enough (`WF_vars(System)`, `WF_vars(Operate)`): `main()` operates every
cache in every cycle, the bounded environment stops, and then any order of steps
must come to an end with every request answered.  The core's two halves
need no more (`WF_vars(Next)`), since a trace is finite.

**Deadlock.**  The manager's and the controller's clocks never stop, and their
runs check for deadlock.  The other runs turn the check off: when the environment's
bound is used up, or the program has retired, the system rightly stops.  That
nothing stops too early is what `NoWaitCycle`, `Drains`, `TranslationsArrive`,
`ImplementsFairStream` and `AllRetire` say.

## 5. Where code and documentation disagree

Each of these runs must find its property violated.

| Run | Statement | What the code does |
|---|---|---|
| `CacheLostFill` | "MSHR holds the most updated information about this request" (`src/src/cache.cc:1600`) | a read that joins a prefetch's miss replaces the entry, and with it the mark of a first-level cache that also waits: an L1I fetch of a line the L1D prefetches leaves the L1D's miss without an answer |
| `CacheMergedStore` | "RFO marks cache line dirty" (`src/src/cache.cc:158`) | a store that joins a load's miss leaves its type as it is, and the line is filled clean |
| `CodeSwap` | after `add_rq()` has taken a request, all instructions of its line are as good as fetched (`src/src/ooo_cpu.cc:662`) and the L1I's answer marks them so (`src/src/ooo_cpu.cc:1885`) | requests are merged by physical line and answered by the older one's `ip`: two pages of code that had the same frame share a request, and the second one's instructions stay marked with nothing under way |
| `StoreForward` | a store finds the load it wakes waiting for itself (`src/src/ooo_cpu.cc:1643`) | dependents are kept by instruction and matched by address: with two addresses and a younger store to one of them, the check fails and the program ends |

`CacheLostFill` needs a line that is used both
as code and as data, so the passing runs of the caches keep the two apart
(`CodeLines`, `DataLines`).  `CodeSwap` needs memory to be full: then `va_to_pa()`
takes the frame of the lowest page mapped, which is code as a rule, and since code
translations do not stall the core the older request is still in the queue.  A later
instruction of the line asks again; without one the core stops.

Five configurations beside them show more of the kind and can be run by hand.
`DcmResponseOrder` (`ResponsesReadyInOrder`): the comment of
`processPendingResponses()` has it that the delay is uniform, so that responses become
ready in the order queued (`src/src/dram_cache_manager.cc:1161`), but near hits and far
misses have different delays and share one FIFO, and a hit behind a miss is delivered
late.  `DcmFarOrder` (`FarDispatchInOrder`): FIFO order of dispatches is preserved by
construction, says `src/docs/memory_dispatch_audit.md:141`, but with no link latency
`dispatchToFarGuaranteed()` tries `farMC` first, past dispatches that are pending.
Both change timing only.
`DcmSharedLine` (`NoUntrackedResponse`): a read with both `instruction` and
`is_data` that is forwarded from a write queue is signalled twice, and the second
response has no request (`src/src/dram_cache_manager.cc:1210` says this should not
happen); the defensive branch absorbs it unless another request of the line is
waiting.  `DcmBypassToggle` (`BypassedReadAnsweredByFar`): when bypass is switched
off with requests in flight, a near completion of another request is taken for a
bypassed read's, since responses are matched by address alone
(`src/src/dram_cache_manager.cc:1185`); `main()` makes no such switch.
`LoadQueueDeadlock` (`AllRetire`): loads that wait for a store fill the load queue
before a load the store depends on gets a slot, in spite of the `STA`, which is
there "to execute store instructions properly without deadlock"
(`src/src/ooo_cpu.cc:65`).

## 6. Proofs

Each theorem holds for all values of the constants that satisfy the assumption of
its module, which TLC evaluates in every run.  The theorems of a component rest on
one inductive invariant, and the proofs have a step per action.

| Module | Theorem | States |
|---|---|---|
| `DcmProofs` | `TypeCorrect` | `Spec => []TypeOK` |
| | `OneOwner` | `Spec => []OneRequestPerIndex` |
| | `NoneStranded` | `Spec => []HeldHasBlocker` |
| | `NearInOrder` | `Spec => NearDispatchInOrder` |
| `DcmQueueProofs` | `NoOverflow` | `Spec => []WithinCapacity` |
| | `NothingDirtyLost` | `Spec => []DirtyNotLost` |
| | `RefinesLineService` | `Spec => ImplementsLineService` |
| `DcmReadsProofs` | `NoReadLost` | `Spec => []ReadsConserved` |
| | `AnswerInvariant` | `ASingleAnswer => (Spec => []AnswerInv)` |
| | `OneReadEach` | `ASingleAnswer => (Spec => []OneReadPerWaiter)` |
| | `AllTracked` | `ASingleAnswer => (Spec => []NoUntrackedResponse)` |
| `ControllerProofs` | `ControllerTyped` | `Spec => []TypeOK` |
| | `BanksOwned` | `Spec => []BankOwnsRequest` |
| | `CountersExact` | `Spec => []CountersMatch` |
| | `IndicesFresh` | `Spec => []CachedIndicesFresh` |
| | `ReadsReturn` | `Spec => []ReadReturnsOnce` |
| | `RefinesMemoryPort` | `Spec => ImplementsMemoryPort` |
| `CacheProofs` | `AgesPermuted` | `Spec => []LruStacks` |
| | `AlwaysVictim` | `lru_victim()` finds a block in every set |
| | `CachesTyped` | `Spec => []TypeOK` |
| | `FillsInTurn` | `Spec => []NextFillIsDue` |
| | `NoStrayAnswers` | no more answers on the way to a cache than it has open misses |
| | `MissesAnswered` | `Separate => (Spec => []OneAnswerPerMiss)` |
| | `LinesFilledOnce` | `Spec => []FilledOnce` |
| | `DirtyDataIsKept` | `Spec => DirtyDataKept` |
| | `LoadsAreConserved` | `RoomForAnswers => (Spec => []LoadsConserved)` |
| | `NothingWaitsForItself` | `Separate /\ RoomEverywhere => (Spec => []NoWaitCycle)` |
| | `CachesUseLineService` | `Spec => Manager!LineSpec` |
| `PageProofs` | `TablesTyped` | `Spec => []TypeOK` |
| | `MapsInverse` | `Spec => []TablesInverse` |
| | `MemoryBounded` | `Spec => []WithinMemory` |
| | `StaleKnown` | `Spec => []StaleOnlyIfOvertaken` |
| `FrontEndProofs` | `RefinesStream` | `Spec => Stream!StreamSpec` |
| | `FrontEndTyped` | `Spec => []TypeOK` |
| | `AnswersCome` | `EnoughFrames => (Spec => []AnswerComing)` |
| `LsqProofs` | `LsqInvariant` | `Spec => []LsqInv` |
| | `LsqTyped` | `Spec => []TypeOK` |
| | `ReadsAreRight` | `Spec => []ReadsInProgramOrder` |
| | `CountsAreRight` | `Spec => []OperandsCounted` |
| | `NoneStranded` | `Spec => []NoLoadStranded` |
| | `StoresAreInOrder` | `Spec => []StoresInOrder` |

### The manager

The only assumption is `DcmAssumption` of `DramCacheManager`: addresses are
positive, sizes and latencies are natural numbers, and the ORB, the tag store and
the controllers' queues have at least one entry.

**Type invariant.**  `TypeOK` is not inductive.  Two facts have to be carried
along.  `DirtyLinesKnown`: a dirty entry of the tag store has a real address, so
that the victim put into an ORB entry is a line.  `ReleasedAtFront`: when a
pending dispatch is answered from inside `trySend()`, everything that runs before
`processPending...Dispatches()` pops it only appends to the queue, so the queue
is not empty at the pop; this is the claim that popping after the call (rather
than before) is safe.  `TypeInv` is their conjunction with `TypeOK`.

**Owners and wake-ups.**  `OneRequestPerIndex` alone is not inductive either:
`promoteFromCRB()` admits without looking for a conflict.  That is sound because
the index it promotes for has just been freed and nothing has run in between.
`FreedIndex` says so: while `promoteFromCRB` is the call, no admitted request has
that index.  `IndexInv` is the conjunction of both.  `HeldHasBlocker` is then
inductive relative to `TypeInv` and `IndexInv`: a request enters the CRB only
when its index is busy, and when its blocker goes, `promoteFromCRB` is the next
call; if that promotes another request of the index, this one becomes the
blocker.

**Order of near dispatches.**  `NearDispatchInOrder` is an action property and
follows from `TypeInv` step by step: only `dispatchToNear()` and the release of
the front add to `nearMC`.

**Capacity.**  `promoteFromCRB()` does not ask whether the ORB has room.
`CapacityInv` says why it has: while it is the call, one entry less than the ORB's
size is admitted, because `completeRequest()` frees its entry first and nothing is
admitted in between.  The controllers' queues are safe because `trySend()` looks at
the occupancy in the same step.

**Dirty lines.**  `LineInv` says where a line the LLC wrote may be (`Stored`): dirty
in the tag store, the victim of an admitted request, in WB, or a write in
`pendingFar` or in `farMC`.  Every step that takes it from one place puts
it in another.  `TagsKnown` (a dirty entry's address belongs to its index) and
`PopsReads` (the dispatch that is popped after a callback was a read) are carried
along: without the second the pop could drop a write-back.

**Reads the LLC waits for.**  `ReadsConserved` is a sum over four places, so that it
is inductive once the steps between them are known to move one read each
(`CompleteConserves`, `PromoteConserves`).  The lemmas on `CountIn` say what an
append, a removal anywhere and the passing of time do to such a count.

**Reads on their way.**  `OneReadPerWaiter` is stated between handlers.  `AnswerInv`
is what holds inside them too: per memory and line an account (`NearAccount`,
`FarAccount`) of the reads queued, pending and being sent, less the one whose answer
has arrived and is still to be taken out (`NearEnds`, `FarEnds`), against the
requests that wait and the bypassed reads.  `FillsAbove` says what the frames of a
nested call may be, and `AnsweredThere` that the read an open frame will take out is
still there: `return_data()` runs before the controller removes its entry.  This needs
`ASingleAnswer`: no packet is both `instruction` and `is_data`, and the bypass switch is
left alone once requests flow.  Without it the claim is false, as `DcmSharedLine` and
`DcmBypassToggle` show (section 5).  With it the claim covers every program that keeps code
and data on lines of their own and all that `main()` does with the switch; `DcmLiveness` is
an instance.

**The service.**  `RefinesLineService` is the safety part of the refinement that
`DcmLiveness` checks with its fairness.  The mapping reads three things off the
manager's state.  The queue of an index is the request admitted for it, if any, and
behind it the requests the CRB holds for that index, in their order: `HeldQueue` names
the n-th of these by its rank among their positions (`Nth`), which is what an append at
the end and the removal of one position change in a way that can be reasoned about
(`Moves`, `HeldBack`, `HeldPromoted`).  `due` is the queue of delayed responses without
the delays.  `waiting` is what the LLC waits for less the reads in bypass mode, which go
to `farMC` without entering a queue; so nothing is assumed of the bypass switch or of
`ASingleAnswer`.

- `add_rq()` and `add_wq()` are `Accept`, whether the request is held or admitted, and
  stutter in bypass mode.
- `completeRequest()` is `Serve`: it frees the request at the head of its index's queue.
  Behind it `promoteFromCRB()` stutters: the first held request of the freed index
  stays first, as the owner (`HeldPromoted`).
- the delivery of a delayed response is `Answer`; a response with no delay is given in
  the same step as `Serve`.
- everything else stutters: dispatches, far and near completions that leave the request
  admitted, ageing of responses.

The invariant it needs is that of the earlier theorems together: `TypeInv`; `IndexInv`,
since two owners of an index could not be one queue's head; `HeldHasBlocker`, since a
request of a free index that is held would be overtaken; `CapacityInv`, since
`add_rq()` rejects on conditions that are not those the LLC asked before, and a request
it rejected would be lost.  `ServeInv` adds that
responses are queued only if there is a latency to wait for, and that
a request in state `LOC_MEM_WRITE` is a write, so that a completion answers reads and
nothing else.

### The controller

`Inv` is `Typed`, the four properties of the table, and `QueuedOnce`: no line has two
slots of a queue, since `add_rq()` and `add_wq()` merge.  `BankOwnsRequest` is
needed for the counters to drop by one when a request is processed, the counters for
`write_mode` to change in the right states, `QueuedOnce` for the returned read to be
the one that was queued.  `CachedIndicesFresh` rests on `Aged` keeping the order of
event cycles, so that an index found before `NextCycle` is the one a search would
find after.  The refinement maps the occupied slots to the port's two sets: a new
request, a forwarded one and a processed one are steps of the port, schedules and
changes of direction stutter.  The assumption is `McAssumption`: sizes, banks and
latencies are natural numbers and the watermarks lie in the write queue.

### The caches

The assumption is `CacheAssumption`.  Sizes are natural numbers.  The read queue of the
L2C has room for all misses of L1I and L1D (32 and 8 + 16 in `src/inc/cache.h`), that of
the LLC for all misses of the L2C (`LLC_RQ_SIZE` is `NUM_CPUS*L2C_MSHR_SIZE` there):
the code never looks at what `add_rq()` returns when a miss goes down.  A
prefetcher asks for a level no nearer to the core than its own cache, as every caller of
`prefetch_line()` in `src/prefetcher` does.

**Ages.**  `StacksInv` says that the blocks of each set are functions whose ages are a
permutation of `0 .. NumWay - 1`.  `lru_update` keeps it, for any way of any
permutation, and only five actions touch a block at all.  That some block has the
age `NumWay - 1`, which `lru_victim()` asserts, is then the pigeonhole principle
(`OldestExists`).

**Queues and misses.**  `CacheInv` is `StacksInv`, `BlocksTyped`, `CoreTyped` and
`TablesInv`.  The last has these parts:

- every queue and MSHR holds packets of its own kind, at most one for a line, within its
  size (`ReadsTyped`, `PrefsTyped`, `WritesTyped`, `MissesTyped`);
- `NextGood`: `nextFill` names an answered miss, or none was answered.
  `return_data()` and `handle_fill()` are the two that can break it;
- `Links`: for a cache `u` above another and a line, read queue, prefetch queue and
  MSHR below together hold at most one packet that wants an answer for `u`, and only
  if `u` has an open miss of the line; with `Separate`, one if it has.  A packet says which of the levels above want it
  by `fill_level`, `instruction`, `is_data`, `fill_l1i` and `fill_l1d`, each merge
  changes some of them, and two levels may meet in one packet: the lemmas named
  `...Packet` say what each merge does to this set of levels (`Wanted`);
- `MemInv` and `WaitLink`: the same for the LLC and the manager.

`NoStrayAnswers` is the part of `OneAnswerPerMiss` that holds for every program: the
assertion of `return_data()` cannot fail.  That an answer is also always on its way
needs `Separate`: no line is both code and data.  Without it a merge of a fetch with a load
keeps one of the two first levels, which `CacheLostFill` shows.  `FilledOnce` follows
from `OnceInv`: a first-level cache has a block of a line or a miss of it, not both,
since a miss is opened where `check_hit()` failed and closed as the block is filled.

**Dirty data.**  `DirtyDataKept` is an action property.  Of every step `KeptNext` says
where a line that was dirty in a block or waiting in a write queue is afterwards:
a fill replaces its victim only when the level below took the write-back in the same
step, a write that leaves a queue marks a block or goes on, and what the LLC evicts is
an accepted write of the manager.

**Loads.**  `LoadInv` is inductive beside `CacheInv`.  `HoldInv` says that a load the core
waits for is in the read queue of the L1D, in a miss of it or in `PROCESSED`, with its
own line, and no other load is anywhere.  An answer is dropped when `PROCESSED` is
full, and nobody asks for room (`src/cache.cc:190-205`, `545-551`).  `DemandInv` is why
it does not happen: the answers, reads, writes and misses of the L1D that are not
prefetches were each caused by one load or store of the core (a prefetch
that a load meets becomes one), so that there are at most as many as the core sent.
`RoomForAnswers` asks that `PROCESSED` has room for these.  It has `ROB_SIZE` = 352
entries, and the core has at most `LQ_SIZE` + `SQ_SIZE` = 128 + 72 loads and stores in its
queues; in the model each load is sent once, so that the bound is on all that are sent.
The run `CacheStack` has room for three, which is what it sends: `PROCESSED` fills up,
and with room for two a load is dropped.  Its only load joins misses of stores and
prefetches; two loads that meet are covered by the theorem.

**No wait cycle.**  `NoWaitCycle` is about four queues' worth of early returns: a fill
waits for the write queue below its victim, a write-back that misses for that below it, a
miss for an entry of the MSHR, which only a fill gives back, a prefetch for the prefetch
queue below, and the LLC for the manager.  `NothingWaitsForItself` climbs from the
bottom.  A manager that has nothing to do holds no read, and then `OwedInv` (each read
the LLC waits for is in a queue of the manager or due an answer) and `WaitLink` say that
all the LLC's misses were answered: one of them can be filled, by `NextGood`, or there
is none, and then the head of any queue of the LLC can be served.  If it can do neither it
is idle, so by `Links` all misses of the L2C were answered and its victims find room,
and so on up (`IdleBelow`, `CanGoOn`).  It needs `Separate`, as `MissesAnswered` does: the
miss that `CacheLostFill` shows waits for ever.  And it needs `RoomEverywhere`: a
buffer of no entries is always full.

**Over the manager.**  `CachesUseLineService` is the other end of `RefinesLineService`:
the caches change the manager's state by `Accept`, `Serve` and `Answer` of `LineService`
only, with requests for the lines of the program.  What is proved of the caches
therefore assumes no more of the manager than it was shown to promise of reads outside
bypass mode; a bypassed read is answered by `farMC`, which `OneReadPerWaiter` covers.

### Page table and TLBs

`IInv` is `TableInv` (the maps are inverse, and `allocated_pages` counts them), the
types of blocks, misses and queues, `BlocksRight` and `MissesRight`.  The latter two
say that what a TLB or a miss holds for a page is the table's frame, unless the page
was overtaken.  Only the victim of a swap loses its translation (`RightKept`); its
blocks are invalidated in the same step, and a miss that holds its frame is what
`overtaken` records.  The assumption is `PageAssumption`: there is a frame, and every
TLB has an entry and room for a miss.

### The front end

`StallInv` relates the reading to the mispredicted branches: the counters are ordered;
a mispredicted branch that has not executed is the last instruction read, and
`fetch_stall` holds (`Waits`); `fetch_resume` is set only once all have executed
(`ResumesStall`); the loop of `read_from_trace()` ends at a misprediction (`LoopEnds`)
and reads no more than fits (`LoopCounts`).  A dispatch is then an `Arrive` of the
stream: what it takes lies behind no branch that waits.  The assumption is
`FrontEndAssumption`.

`TypedInv` adds the types and the sizes of the L1I's queues.  `AnswerInv` says that an
entry is marked `INFLIGHT` only with a request, a miss or an answer of its line under way,
and that the ips of those are translations of their lines (`TableInv`): an answer is
matched by ip, so it must not be taken by another line's entries.  This needs a frame for
every line (`EnoughFrames`); without it the code swaps, and `CodeSwap` shows `AnswerComing`
violated.  The scan of the `IFETCH_BUFFER` (`RequestLines`) is a recursive function.  Its
value is reasoned about by the least number for which a claim fails
(`LeastNumber`), not by the library's induction theorem.

### The load and store queues

`LsqInv` is stated of `State`, the record that `check_and_add_lsq()` passes from operand
to operand, so that one lemma per operand (`AddLoadKeeps`, `AddStoreKeeps`) covers all
of an instruction's.  Its parts and what they are for:

- `LoadsPlaced`, `StoresPlaced`: a slot in use and the operand that names it agree.
  `FreshOutside`: nothing is left of an instruction outside the window, so that an
  entry dispatched again starts clean.
- `ProducerLast`, `ProducerWakes`: a load waits for the last older store to its
  address, which is marked and has not executed for it.  With `GotRight` this gives
  `ReadsInProgramOrder`: a load woken or forwarded takes the data of that store, and
  one that went to the cache had no older store in the ROB, so that what retired last
  is right whenever the answer comes; no older store can enter behind it.
- `Counted`, `DoneFirst`, `DoneCounted`: the two counters.  Each step moves operands
  between four sets; that `execute_store()` ends several at once is why the lemmas
  speak of sets of operands (`EndsKeep`).
- `LoadsAsked`, `StoresAsked`: what a list or a cache holds is a slot in use, held
  once.  Without them an answer could be taken for a slot that was given away.
- `Ring`, `StaSorted`: the slots in use are a run of the ring in program order, and the
  `STA` continues it.  Retirement frees the oldest (`UsedAreYoungest`).

The step of `execute_store()` needs `ProducerMatches`, which the code asserts and the
action has as its guard; `StoreForward` shows that the assertion can fail, and then the program ends.
The assumption is `LsqAssumption`: sizes are positive, and an instruction's
operands fit its arrays and the queues.

### Only model-checked

Of the manager the fairness of `LineService` (`ImplementsFairLineService` beyond
`ImplementsLineService`) and that everything drains.  Of the caches that what was asked is
answered in the end (`CacheLiveness`); `NoWaitCycle` states the conditions
under which handlers go on (`Ready`) instead of using `ENABLED`, and that a handler for
which they hold does take a step is what `Drains` rests on.  Of the other components
their liveness.  All liveness, fairness and `ENABLED` are TLC's, since the prover has no
backend for them; and so are the claims that fail, each with its counterexample.

## 7. Not modelled

- *Statistics of the manager* (`DCM_STATS`, `resetROIStats`, occupancy samples):
  nothing reads them back.
- *Changing the policy or a latency after construction*: `main()` sets them from
  the command line before the first request; the model starts from each value.
  `setBypassDcache()` is the exception: `main()` calls it once too, but comments in
  the code reason about switching with requests in flight, and so do `DcmConflicts`
  and `DcmBypassToggle`.
- *`add_pq()` of the manager*: it drops its argument.
- *Physical timing*: DRAM latencies are small constants; the channel and rank
  counts are one, as `inc/champsim.h` has them.
- *Data*: the program carries none.
- *The far read overtaking the write-back of the same line*: nothing in the
  program can observe it, since there is no data.
- *Invalidation of data caches*: a swap calls `invalidate_entry()` of L1I to LLC.
  With it `CacheHierarchy` has more states than a run can explore (more than three
  million in an instance with a single store); the hazard is in the list.
- *Several cores*: `NUM_CPUS` is one in `inc/champsim.h`, which the build script may change.
- *`LLC_BYPASS`*: `inc/champsim.h` defines it, so `src/src/cache.cc:30` and `:406` are
  compiled; they are dead code while the LLC's policy is LRU, whose victim is a way of the set.
- *Page fault stalls*: `stall_cycle` of a data page delays the core as a whole.
  `page_queue` is never read.
- *The ITLB's requests*: never made, since code is translated when it is read.
- *RRIP and SHiP replacement*: alternatives for the LLC, whose counters decide hit
  rates; any block may be the victim without a property here changing, but the ages.
- *Cloudsuite traces*: another record format for the same reading loop.
- *Branch predictors, prefetchers*: heuristics; a wrong hint is not an error, and the
  models let every hint happen.
- *Trace tools and scripts*: files in, files out.

## 8. Plan

Done: the manager and the controller; the caches with replacement; the page table and
the TLBs; both halves of the core; the abstract specifications between them; the
theorems of section 6.

Left, in order of what matters most:

1. `invalidate_entry()` of the data caches, in an instance of two levels, with the
   stale dirty bit it leaves (`src/src/cache.cc:1166`).
2. `TieredMemory`: the manager with two detailed controllers in place of
   `MemoryPort`; now that `RefinesMemoryPort` is proved this adds liveness only.
3. `FrontEnd` and `LoadStoreQueue` composed over `CacheHierarchy`, for the write queue
   of the L1D under retirement.
4. RRIP counters and the predictors' tables against reference definitions.
