# Verification of the STT-RAM L2 cache and its coherence protocol

The repository is gem5 with an L2 cache built of STT-RAM cells: the array is
divided into zones of different retention times, blocks expire, pages that are
written often are moved to the zone with the shortest retention, and the Ruby
protocol MESI_Two_Level was changed to live with blocks that vanish and with
banks that are busy for a long time. The modified core is `CacheMemory`,
`BankedArray`, `AbstractCacheEntry` and the four SLICC controllers; the rest of
gem5 is the simulator it runs in. This directory models the modified core in
TLA+, checks it with TLC and proves part of it with TLAPS.

## Inventory

| part | source (under `src/gem5/src/mem/ruby/`) | module | status |
|---|---|---|---|
| zones and set routing | `structures/CacheMemory.cc/.hh` | `RetentionZones` | modelled |
| tag and data array, expiry, victims | `structures/CacheMemory.cc`, `slicc_interface/AbstractCacheEntry.*` | `CacheMemory`, abstract `BlockStore` | partly |
| bank occupancy | `structures/BankedArray.cc` | `BankedArray` | modelled |
| LRU policy | `src/gem5/src/mem/cache/replacement_policies/lru_rp.cc` | in `CacheMemory` | partly |
| L1 controller | `protocol/MESI_Two_Level-L1cache.sm` | `L1Cache` | partly (no prefetch, no LL/SC) |
| L2 controller | `protocol/MESI_Two_Level-L2cache.sm` | `L2Cache` (one line, every message), `L2Port` (several lines over the array) | modelled |
| directory and memory | `protocol/MESI_Two_Level-dir.sm` | `Directory` | partly (whole-line DMA writes) |
| DMA controller | `protocol/MESI_Two_Level-dma.sm` | `DMA` | modelled |
| messages, composition | `protocol/MESI_Two_Level-msg.sm` | `MESIMessages`, `MESI_Two_Level`, abstract `CoherentLine` | modelled |
| message buffers | `network/MessageBuffer.cc` | `MessageBuffer` | partly |
| what controllers inherit and SLICC generates | `slicc_interface/AbstractController.cc`, `common/Consumer.cc`, `src/gem5/src/mem/slicc/symbols/StateMachine.py` | `AbstractController` | partly |
| the cores' sequencer | `system/Sequencer.cc`, `system/RubyPort.cc` | `Sequencer` | partly |
| the devices' sequencer | `system/DMASequencer.cc`, `system/RubyPort.cc` | `DMASequencer` | partly |
| interconnect, configuration scripts, rest of gem5 | | | not modelled |

The models cover the modified core and the Ruby runtime around it, that is the
path of an access from a core or a device to the array and to memory. The
repository holds all of gem5, about 1.09 million lines, and the mapped lines are
about a thousandth of that. The remainder (CPUs, instruction sets, devices, the
other protocols, the network, the kernel) is unmodified and out of scope.

`PROJECT.json` has the full list with reasons, the lines behind every
definition, and the hazards with the line where each bites.

## How the parts interact

A core's port hands an access to its sequencer, which sends at most one request
per line to the L1. On a miss the L1 sends a request to the L2. The L2 keeps the
sharers and the owner of every line, forwards or answers, and fetches from the
directory. Its in_ports ask the array whether the line is present, whether its
bank is free, and which line to evict. The directory owns memory and recalls a
line from the L2 when the DMA sequencer, on behalf of a device, asks for it. All
controllers take their messages from buffers that they scan when they are woken.

Each model keeps one of these concerns whole and the neighbours as their
interface:

* `MESI_Two_Level` has all messages and controllers for one line. It sees the
  array through events: the line is evicted, the block decays, the bank is busy
  (a message is delivered later).
* `L2Port` has the array and the L2's in_ports for several lines. It sees the
  protocol through the part of a line's state that decides what a request does.
* `AbstractController` has the buffers, the scan and the wakeups. It sees the
  protocol through which lines are in a transaction.
* `Sequencer` and `DMASequencer` see the controllers through the requests they
  send and the callbacks they get.

## The array

`RetentionZones` has the routing arithmetic as operators. A line is its line
number; 64 lines make a page. `CacheMemory` has the state: the entries by slot,
`m_tag_index`, the page counters, the redirection table, the end times of the
banks and the clock. Its actions are the calls a controller makes. Each is the
whole method, the counter update and the redirection of a data write included.
The named bounds are `MaxTick` (the clock), `MaxBacklog` (bookings ahead of the
clock) and `CounterMax` (the saturation of the page counter, 15 in the code).
End times of the tag array and `getRetentionLatency` have no observer and are
left out; so are statistics, line locks, transactional memory and checkpoints.

## The L2's in_ports over the array

`L2Port` extends `CacheMemory`. A request or a response is taken when
`checkResourceAvailable` finds the bank free and recycled otherwise; an unblock
is always taken. A miss in a full set evicts the victim of `cacheProbe`, or is
stalled on the victim's line when that is blocked, or recycled when it has a TBE. A transition makes several calls
of the array (MRU, data write, deallocation, permission), kept in `calls` and
made one by one, so that the array is seen in between as well. Some come after
the line has left the array: a clean eviction ends, and an INV for a line that is
not there is answered, with `c_exclusiveCleanReplacement`, which records a tag
read. That finds no tag and asserts nothing, and `CallsAreServed` lets it pass.
`BacklogBounded` is for static placement, as the run has it (see Proofs). Bounds:
`MaxTick`, `MaxRequests`, `MaxBacklog`.
The run ends at these bounds, which is why it does not check deadlock.

## The protocol

One line is modelled; what relates two lines, the choice of a victim, is in
`L2Port`. A block is a version number: every store and device write makes the
next version, at most `MaxWrites` of them, and `golden` is the last. Messages in
flight are a bag and any of them may be delivered next. `InvalidTransition` is
the panic of the generated code on an event without a transition. `Finished` lets
a quiet or stopped system stutter, so that every other dead end is reported as
deadlock.

`Workloads` is a set of sets; the initial state picks one, which says what the
environment does beside loads, stores and fetches: `L1_Replacement`,
`L2_Replacement`, `Decay`, `DMA_READ`, `DMA_WRITE`. One run so covers several
settings without their product; `coherence` has four with three cores. Two assumptions are about timing rather than
about the controllers:

* `SlowMemory` in a workload: memory answers only when nothing is in flight but
  requests to the L2 or the directory and answers to the DMA engine. Hops on the
  chip take 1 to 6 cycles and memory far longer. With a fast memory, late acks
  and writebacks of an eviction can meet the next fetch of the line in IS or ISS,
  where they have no transition, and a recalled line can be fetched while the
  recall lingers. Workloads that replace in the L2 together with the L1, or have
  DMA, assume it; the others hold without it.
* `DirInOrder`: the directory's INV does not overtake the data it sent before.
  Recycling at the L2's response in_port when the bank is busy can break this
  (L2cache.sm:268); with `DirInOrder = FALSE` the model panics. Every run sets it
  and only workloads with DMA depend on it.

DMA writes cover the whole line.

## Buffers and controllers

`MessageBuffer` has the operations of a buffer on a record: the slots as they are
counted from the sizes at the start of the cycle, `enqueue`, `dequeue`,
`recycle`, `delayHead`, `stallMessage`, `reanalyzeMessages`. `AbstractController`
has the wakeups by tick, the scan from the highest rank down as
`StateMachine.py` generates it, the transition limit, stalls and both
kinds of wake-up, lines blocked for a locked access, and the queue to memory with
its refusals and retries. What a transition does to its line is one of three
things: the line is stable, waits for the memory, or waits for another
controller. Any message may be recycled by its in_port, a message of any port
may start a transaction or be one of several answers, and the callback that
blocks or unblocks a line is part of the transition that makes it. Only the port
of the lowest rank stalls, as in the controllers of this protocol. Steps of one
tick come in any order. Bounds: `MaxTime` (the clock) and `MaxMsgs` (messages of
each port). The run ends at the clock bound,
which is why it does not check deadlock.

## The sequencers

`Sequencer` has `makeRequest` with aliasing and the limit on outstanding
requests, the two callbacks, the retries that happen inside a callback, the
locked read-modify-write, draining and the deadlock check. A callback is a
sequence of steps because the ports it retries send new requests before it
returns. `DMASequencer` has requests of several lines in bytes, with
`m_blockToLineMap`, and the DMA controller for all lines. Requests that share a
line are assumed to begin in it (`MaySend`), as `DmaPort` cuts its transfers at
the lines.

## Fairness

`MESI_Two_Level`: weak fairness of the deliveries, as a message buffer wakes its
consumer for every message, and strong fairness where a message is stalled or
recycled in between: `reanalyzeMessages` puts a stalled message back with its
original time (MessageBuffer.cc:388-424), ahead of later ones, and a recycled
one returns after a fixed time (373-386). That no message is left without a
wakeup is what `NoMessageSleeps` establishes for the buffers. CPU accesses,
evictions, decay and DMA requests have no fairness. The liveness properties of
misses, evictions and DMA requests allow the simulator to have stopped with a
panic: an UPGRADE that an eviction or a recall overtakes ends the simulation
(`upgrade_fetch`), and `OnlyUpgradePanics` says nothing else does in the workloads
of `coherence`, and nothing at all in the one with L1 replacement alone. None of
them has both DMA and L2 replacement: with the two there is another panic, which
`late_replacement` shows.

`Sequencer`: weak fairness of a callback, which runs to its end, strong fairness
of the L1's answer for a line and of the core finishing a locked access, as other
requests may disable them in between. `DMASequencer`: weak fairness of the
retries of a callback, strong fairness of the controller taking a message and of
the directory answering a line. Ports have no fairness: they need not send.

## Runs

| run | module, cfg | properties | shows |
|---|---|---|---|
| placement | `MCPlacement`, `MCPlacement.cfg` | `TagIndexConsistent`, `RetentionNeverOverstated`, `RouteSettles`, `ImplementsBlockStore` | With lazy redirection, walks and jumps between zones never detach a line from its tag, never give it a longer limit than its cells have, and leave the array a faithful store of blocks. |
| l2_port | `MCL2Port`, `MCL2Port.cfg` | `StateMatchesArray`, `CallsAreServed`, `StalledOnTransaction`, `BacklogBounded`, `NoFalseExpiry`, `TransactionKeepsWay` | With two cores, three lines in a two-way set, a busy bank and decaying blocks, the controller and the array agree between transitions, no call of the array fails, no request waits for a line that is settled, and a line in a transaction keeps its way. |
| sram_victim (violated) | `MCVictim`, `MCSramVictim.cfg` | `SramEvictsByPolicy` | With STT-RAM off every block counts as expired as soon as time passes, so the first expired way is evicted instead of the policy's victim. |
| coherence | `MCMESI`, `MCCoherence.cfg` | `TypeOK`, `OnlyUpgradePanics`, `CopiesCurrent`, `SingleWriter`, `AcksAddUp`, `NoLostWakeup`, `Inclusion` | Three cores that load, store and fetch over a network that reorders freely, with L1 replacement, with L1 and L2 replacement, with L2 replacement and decay, and with DMA: permissions stay exclusive, copies current, acks are counted right, stalled requests are woken, and the only event without a transition is the directory's refusal of an UPGRADE after an L2 replacement or a recall. |
| progress | `MCMESI`, `MCProgress.cfg` | `LastWriteKept`, `ImplementsCoherentLine`, `DMAReadsCurrent`, `MissCompletes`, `WritebackCompletes`, `EvictionCompletes`, `DMACompletes` | Two cores with L1 replacement, with L2 eviction and decay, and with DMA: the line is atomic, no write is lost, devices read the last version, and misses, writebacks, evictions and DMA requests end under the fairness of the message buffers (or the directory has refused a fetch). |
| upgrade_fetch (violated) | `MCMESI`, `MCUpgradeFetch.cfg` | `NoPanic` | An UPGRADE that waits out an eviction of the line is fetched from memory with its own type, which the directory refuses. |
| lost_store (violated) | `MCMESI`, `MCLostStore.cfg` | `LastWriteKept` | A late PUTX of a former owner reaches the L2 while it evicts the line from the new owner, replaces the block in the TBE, and the new owner's block is drained. |
| late_replacement (violated) | `MCMESI`, `MCLateReplacement.cfg` | `LateReplacementAbsorbed` | A clean replacement that crosses a DMA request finds the directory in M_DRD or M_DWR, which have no transition for it. |
| expired_served (violated) | `MCMESI`, `MCExpired.cfg` | `ExpiredNeverServed` | A block that lookup() has flagged as expired is sent to an L1 all the same. |
| controller | `MCController`, `MCController.cfg` | `NeverOverfull`, `StalledIsListed`, `NoMessageSleeps`, `TakenInOrder` | Whatever a controller recycles, stalls, wakes, delays, refuses or cuts off at the transition limit, no enqueue finds its buffer full, no stalled request is forgotten, no message is left without a wakeup, and a port takes its messages in order of arrival unless they were put back or delayed. |
| sequencer | `MCSequencer`, `MCSequencer.cfg` | `CountMatches`, `OneInTheCache`, `NoLostRetry`, `LockExclusive`, `DrainAndWatch`, `RefusedIsAccepted`, `AllPerformed` | With two ports, two lines and room for two requests, coalesced, reissued, refused and retried requests are counted, issued once, performed and accepted in the end; nothing but the Locked_RMW_Write waits for a locked line, draining ends and the deadlock check watches. |
| dma_sequencer | `MCDMASequencer`, `MCDMASequencer.cfg` | `AnswersFindRequest`, `MovedExactly`, `AllCompleted`, `PacketIsAccepted` | Two devices whose requests begin and end anywhere in three lines: every byte is moved to the right place exactly once, answers find their request, and every request is accepted and completed in the end. |

Bounds. Three cores are needed for a requestor, an owner and a bystander; two
suffice for liveness. Two writes tell the last version from the previous and the
first. The geometries are the smallest in which two pages collide in a set, a
walk wraps, a page is redirected below its index zone, and a set is full; in
`placement` one line of each of two pages does this, and blocks of zone 0 expire
within its two ticks. In
`l2_port` three lines compete for two ways, a block expires after two ticks and a
write keeps the bank for two. In `controller` a port can be full, the
memory queue holds one request, a wakeup is cut off after two transitions, and
three requests let a stalled, a recycled and a younger one meet, while two
responses do for a line that ends one transaction and is asked for again. In
`sequencer` two requests fill the table, so that two lines and two ports are
enough to be refused, coalesced and retried at once. In `dma_sequencer` a request
can cover up to three lines of two bytes and begin or end inside one. Cores and
addresses are symmetric in the safety runs; liveness runs use no symmetry.

## Where the code and its documents disagree

* **SramEvictsByPolicy**, `src/gem5/src/mem/ruby/structures/CacheMemory.cc:842` (code bug, run `sram_victim`). lookup() compares the age of a block with its retention limit without asking m_is_sttram, and allocate() gives an SRAM block the limit 0, so every SRAM block expires one tick after it is filled and cacheProbe() evicts the first expired way; src/summary/custom_retention.typ:30 says "Since gem5 SRAM doesn't decay, it doesn't need to check the health of a block." and src/summary/4retention.typ:21 "If `m_is_sttram = false`, then it will default to the original gem5 code for SRAM." The run shows a victim that is not the one of the replacement policy.
* **NoPanic**, `src/gem5/src/mem/ruby/protocol/MESI_Two_Level-L2cache.sm:368` (code bug, run `upgrade_fetch`). a_issueFetchToMemory copies in_msg.Type; an L1's UPGRADE that was overtaken by an eviction of the line finds NP, is handled as L1_GETX and is sent to the directory as UPGRADE, for which src/gem5/src/mem/ruby/protocol/MESI_Two_Level-dir.sm:215 has error("Invalid message"); src/summary/fix_runs.typ:117 says "Passing the original request type through prevents coherence mismatch panics." The run reaches the error when the L2 evicts the line of a core whose UPGRADE is on its way.
* **LastWriteKept**, `src/gem5/src/mem/ruby/protocol/MESI_Two_Level-L2cache.sm:1059` (code bug, run `lost_store`). In MT_I and MCT_I any PUTX, also that of an L1 that no longer owns the line, replaces the block in the TBE and is sent to memory; the owner's data, which arrives later, is popped in M_I (line 1110). src/gem5/src/mem/ruby/protocol/MESI_Two_Level-L2cache.sm:1057 says "Catches both PUTX and PUTX_old while the L2 is evicting, safely snatches the dirty data" and src/summary/fix_runs.typ:93 "snag the dirty data out of the message and force it into the TBE before it gets sent to memory." The run shows a version that no L1, L2, TBE, message or memory holds any more: the former owner's PUTX is taken in MCT_I and the new owner's WB_DATA is popped in M_I.
* **LateReplacementAbsorbed**, `src/gem5/src/mem/ruby/protocol/MESI_Two_Level-dir.sm:568` (code bug, run `late_replacement`). CleanReplacement has transitions in M, I and MI only. A DMA request that reaches the directory in M just before a clean replacement of the line moves it to M_DRD or M_DWR, where the replacement is an invalid transition; src/summary/fix_runs.typ:125 says "Instructing the Directory to acknowledge the late message, drop it, and wake up any stalled network buffers prevents catastrophic simulation panics under heavy load." The run reaches the panic in M_DWR with one core, one eviction and one DMA write.
* **ExpiredNeverServed**, `src/gem5/src/mem/ruby/protocol/MESI_Two_Level-L2cache.sm:319` (code bug, run `expired_served`). The in_port tests the SLICC field m_is_expired declared at line 122, which SLICC compiles to m_m_is_expired (slicc/symbols/Type.py:175 prefixes m_) and which nothing in the L2 sets; CacheMemory::lookup sets AbstractCacheEntry::m_is_expired. The branch is never taken and the block is served; src/gem5/src/mem/ruby/protocol/MESI_Two_Level-L2cache.sm:318 says "Expired Block, cannot pass it to L1, so force the eviction to write to main memory".

Two more differences have no run. A data write takes the retention limit of the
zone its line is routed to now (CacheMemory.cc:1152), while custom_retention.typ:24
says the limit is that of the block's zone; `RetentionNeverOverstated` shows that
the limit errs only on the short side. When every way of a set is Busy,
`cacheProbe` returns way 0 (CacheMemory.cc:792), as its comment says, while
new_redirection.typ:90 says Busy blocks are banned; `VictimMakesRoom`, proved
in `CacheMemoryProofs`, states the exception.

The rest was seen while modelling and has no run, as the configuration does not
reach it, or as the model leaves the part out:

* The DMA sequencer answers Draining when it has requests outstanding
  (RubyPort.cc:588), and no path of it calls `testDrainComplete` when the last
  one completes (DMASequencer.cc:169-186), though the comment at
  RubyPort.cc:581-583 expects `signalDrainDone`.
* In M_DWR the block the L2 returns is dropped and only the bytes of the DMA write
  go to memory (dir.sm:554-557). For a write of part of a dirty line the rest of
  the line would be lost.
* PUTX data is written into the array (L2cache.sm:620) without the data write
  that would refresh the block's retention and book the bank.
* A PUTX for a line that is gone, in a full set, evicts an innocent victim.
* A recycled message can be overtaken by a younger one of its line, as
  `TakenInOrder` allows. A stalled request can as well, while it is stalled: a
  PUTX is served in most states that hold up a GETX of the same line. Once woken
  it is ahead of what came after it and has not been taken.
* `wakeUpBuffers` at rank r forgets stalls of higher ranks
  (AbstractController.cc:184-203). The L1's optionalQueue (rank 3) could lose
  stalls to the response port (rank 2), but only with a prefetcher.
* A response that a bounded memory-response queue refuses could wait for ever
  (AbstractController.cc:459-479); the queue is unbounded here.
* A store coalesced behind a pending Locked_RMW_Read is performed inside the lock,
  by the callback of the read; TimingSimpleCPU never has both. `LockExclusive`
  holds once that callback has returned.
* Overlapping DMA requests of several lines would share an entry of
  `m_blockToLineMap`; `DmaPort` makes none.
* With all 256 TBEs of the L2 in use, an INV of the directory at the head of the
  response port would hold up the responses that free one.

## Proofs

Eight modules hold theorems, for every value of the constants within the named
assumptions (`GeometryAssumption`, `BankAssumption`, `CacheAssumption`,
`NullAssumption`, `ZoneOrderAssumption`, that a higher zone does not retain
for less time, as the configurations have it, `ControllerAssumption`,
`SequencerAssumption`, `NoneAssumption`, `PortAssumption`, and those of `MessageBuffer` and
`MESIMessages`).

* `CacheMemoryProofs`: first the placement arithmetic of `RetentionZones`
  (routing yields a set of the cache, the walk stays in its zone, redirection
  never leads to a longer retention), then `TypeOK` and `TagIndexConsistent`. The
  two are proved
  together as `Inv`. `TagIndexConsistent` is about the slot a tag decodes to; to
  be inductive it also has to say that every tag is the packed form of a slot
  (`TagInv`), and that packing loses nothing (`DecodeEncode`, which needs at most
  65536 sets and ways). On top of `Inv`: `NoFalseExpiry`, `RouteSettles`,
  `PlacementZone`, `RetentionNeverOverstated`, `ImplementsBlockStore` and
  `VictimMakesRoom`. Every action is first shown to change the array in one of a
  few ways (`ArrayStep`). `RetentionNeverOverstated` rests on `PlacementZone` and
  on redirection only going down.
* `L2PortProofs`: the in_ports over the array. `PortUsesArray` shows that
  `PortSpec` implements the specification of the array, so that the theorems of
  `CacheMemoryProofs` carry over. The invariant `PortInv` follows a transition
  through the calls it still has to make: with calls pending, the controller's
  state is already the new one and the array is as the made calls left it; it
  gives `StateMatchesArray` and `CallsAreServed`, and with them
  `StalledOnTransaction` and `TransactionKeepsWay`.
* `L2BankProofs`: `BacklogBounded` has an
  invariant of its own, `BankInv`, which adds to `PortInv` what the calls still to
  be made will book. It is proved for `Static` only, placement without redirection and
  accesses of at least one cycle, which is what the run has: with redirection it
  does not hold in general, as a write books the bank of the set its own count
  moves the line to (CacheMemory.cc:1183-1205), and no in_port has asked for that
  bank.
* `L2CacheProofs`: `L2Spec => []NoLostWakeup` for any set of cores and in any
  environment. The invariant is `WakeInv`, `NoLostWakeup` with the shape of the
  L2's record; a step that neither wakes nor stalls does not lead from a
  transient to a settled state. `NoLostWakeup` of `MESI_Two_Level`, which the run
  `coherence` checks, is this definition instantiated.
* `BufferProofs`, `ControllerProofs`, `WakeupProofs`: the first holds lemmas on
  the operations of a buffer, the second lemmas on the operators of the
  controller, the third one lemma per action and the theorems `TypeOK`,
  `NeverOverfull`, `StalledIsListed`, `NoMessageSleeps` and `TakenInOrder`. The
  invariant is `Inductive`: `Base` (the shapes, and the slots and lists that agree
  with the messages) and `Awaited`. `NoMessageSleeps` speaks of the time between
  wakeups; `Awaited` extends it into a scan, where a message is accounted for
  either by a wakeup or by the ports that are still to be looked at.
  `TakenInOrder` is an action property: each action takes at most the first
  message of one port from its heap, and a message that is first and was never
  put back has the least counter.
* `SequencerProofs`: `TypeOK`, `CountMatches`, `OneInTheCache`, `NoLostRetry`,
  `DrainAndWatch` and `LockExclusive`. The invariant is `Inductive`: the shapes
  (`Shape`) with `CountInv`, `CacheInv`, `DrainInv`, `LockInv`, `ExclusiveInv` and
  `RetriedInv`. Most of these properties are about the time between callbacks;
  the conjuncts say what holds inside one, while the served list is shorter than
  the count says or its first request is answered and not yet replaced.
  `ExclusiveInv` is `LockExclusive` inside a callback as well, where the locked
  line may still have what was coalesced with the read, for the same callback to
  serve. The
  lemmas on the size of the table are by adding and removing one element, as the
  count is a cardinality.

Only model-checked: the other properties of the protocol, `DMASequencer`, all liveness (fairness and ENABLED are
outside the prover), and the refinement of `CoherentLine`. Only proved, as the
proofs need them and the runs would add nothing: `TypeOK` of `CacheMemory`,
`AbstractController` and `Sequencer`, `PlacementZone` and `VictimMakesRoom`.

## Not modelled

* Partial-line DMA writes (dir.sm:437-449, 555): a block would need parts through
  all four controllers and the refinement of `CoherentLine`.
* LL/SC, TLBI, transactional memory, atomics, cache invalidation by the CPU and
  the prefetcher: X86 with this protocol and configuration issues none, so no
  reachable state would differ.
* Draining of the DMA sequencer: it has no step that ends it (above).
* The limit of the TBE tables: 256 entries against four cores with a few requests
  each.
* The interconnect: a network that delivers in any order includes it.
* Functional accesses, checkpoints, statistics, printing: no modelled operation
  reads what they write.
* Configuration scripts and parameters: set-up code; their values are the
  constants here.
* The rest of gem5: vendored, unmodified, and not part of the memory path.
