# Verification of the RV32 machine simulator

The repository is a cycle-driven simulator of an RV32I machine: two CPU models,
an Sv32 MMU, caches, an arbiter with autonomous bus masters, an address-decoded
memory map with per-device latencies, and a set of devices. This directory holds
TLA+ models of these parts, the TLC runs that check them on small instances, and
TLAPS proofs about the memory map, the arbiter, the MMU and the trap logic.
`PROJECT.json` maps every definition to the
lines it models.

## 1. The system

One `Machine::step_cycle` ticks the bus from the outside in (each level ticks
its inner level first) and then steps the core. Nothing runs in parallel; what
makes the code hard is that almost every operation takes several calls over
several cycles, so that many half-finished operations of different parties are
in flight together.

| Part | State | Operations | Talks to |
|---|---|---|---|
| memory map (`system/memory_map.rs`) | active transactions, active bursts, the polled "compatibility" transaction, next identifier | submit / advance / take for transactions and bursts; `load32`... as polled accesses; tick; reset | devices below; arbiter, caches or cores above |
| arbiter (`system/arbiter.rs`) | turn, pending request, queue of requests in flight with their completions, whether the CPU lost this cycle | tick (poll, deliver, submit, grant); CPU accesses passed through; reset | masters (`request`, `on_response`), lower bus |
| DMA controller (`devices/dma_controller.rs`) | registers, status bits, active transfer: words left, read-ahead buffer, issued requests | register writes, start, `request`, `on_response`, reset | arbiter as a master, memory map as a device |
| caches (`system/cache.rs`) | sets of lines, the pending miss, range maintenance, a burst served upward; twice for the split L1 | loads, stores, fetches, `write_back_range`, `invalidate_range`, tick, reset | caller above, burst bus below |
| block device, interrupt controller, timers, software interrupts, UART, RAM, ROM, DRAM | registers | byte accesses, tick | memory map; interrupt lines to the core |
| CSR file and traps (`cpu/state`, `cpu/exec`) | CSRs, privilege | read, write, trap entry and return, interrupt selection | cores |
| MMU (`cpu/mmu.rs`) | TLB, one page walk across cycles | translate, step, fence | cores, bus |
| reference core, pipeline core | hart state; latches, predictor, front-end PC | one cycle | all of the above |

What makes each part correct, and what is hard about it:

* **memory map**: a request is performed once, beat by beat, and answered once,
  whatever else is in flight and whenever its response is taken; the polled path
  never submits a retry again.
* **arbiter**: no request is lost or answered twice when the lower bus reorders,
  postpones or refuses; windows are respected; nobody starves, and the CPU,
  which has no turn, gets a cycle in the end.
* **DMA**: counted words have arrived; nothing outside the target is written; a
  transfer ends, with one status; responses are matched with requests only by
  their order.
* **caches**: no store is lost between the ways, a victim on its way out and the
  lower level; no instruction outlives a store to its line; range maintenance
  means what it says; a miss ends.
* **devices and traps**: a source is served once between claim and complete, a
  block command does what it was started for and its end is not lost, every
  nesting of traps returns to the place, privilege and interrupt enable it
  interrupted, and everything that was raised is served.
* **MMU**: an answer is what the tables say unless software has not fenced a
  change; a walk never undoes a store and never leaves an access on the bus.
* **cores**: what a core commits in a cycle is what the instructions of the
  program do one after the other, whatever is in flight, predicted wrongly,
  stalled or flushed.

## 2. Modules

| Module | Models | Notes |
|---|---|---|
| `BusProtocol` | requests, phases, latency, beats, `swap_remove` | operators shared by the map and the DMA system |
| `MemoryMap` | `MemoryMap` | `transactions`, `bursts`, `compat` are `active_transactions`, `active_bursts`, `compat_transaction`; `history` is auxiliary: of every identifier given out, the request, the accesses its device has seen, the answers, and whether `perform_request` made it; its length is `next_transaction_id` |
| `BusContract` | abstract bus | open requests that take effect beat by beat, in any order; what a caller may rely on. `Open` of `MemoryMap` is the refinement mapping: both tables, by identifier, without phases and latencies |
| `ArbiterQueue` | the arbiter's pure parts | window count, in-order delivery, round-robin choice |
| `Arbiter` | `ArbiterBus` over any lower bus | masters, CPU and lower bus are free; `cpu` is the CPU's access of the cycle; `issued`, `answered`, `overtaken` are auxiliary |
| `DmaController` | `DmaController` | operators on the device's record |
| `DmaSystem` | DMA + arbiter + burst table + software | composes `BusProtocol`, `ArbiterQueue` and `DmaController` |
| `Cache` | `DirectMappedCache`, `CacheBank` | operators on the bank and the lower level; `call` is the caller's access, `latest` and `foreign` are auxiliary |
| `SplitL1` | `SplitL1Cache` | the bank of `Cache` is the data bank; `instruction` is the other, with the second caller `fetch` |
| `Isa` | `crates/isa` | words, CSR addresses, causes, the decoder |
| `CsrFile` | `csr_file.rs`, `privilege.rs` | registers of flags are sets of bits |
| `Sv32` | the rules of translation | shared by `Mmu` and the cores |
| `Hart` | hart state, ALU, branches, loads and stores, the bus port of a core | shared by both cores |
| `Execute` | `execute_decoded` | one instruction |
| `Architecture` | abstract core | one instruction, or one interrupt, at a time; WFI |
| `ReferenceCore` | `ReferenceCore::step_cycle` | an action per way through a cycle |
| `PipelineCore` | `PipelineCore::step_cycle`, stages, hazards, predictor | a cycle is a record the stages hand on; `early` is auxiliary: a trap ID or IF has taken while older instructions are in EX or MEM |
| `Cores` | `Machine` with either core | states the refinement of `Architecture` |
| `Mmu` | `PageWalker` | `translate` taken apart at its bus accesses; `written`, `stale`, `unseen` are auxiliary |
| `Mmio` | the bytes of a register | shared by the devices |
| `InterruptController`, `Timers`, `BlockDevice` | the devices | operators on each device's record |
| `Platform` | `Machine` with the reference core and these devices | machine code drives the devices; `frames`, `serving`, `command` are auxiliary |
| `Assembler` | | instruction words by mnemonic, for the programs |
| `BusProtocolProofs` | | lemmas on entries, tables and words, for the memory map and the DMA system |
| `MemoryMapProofs`, `ArbiterProofs`, `DmaProofs`, `MmuProofs`, `CsrFileProofs` | | theorems about the module of the name (`DmaProofs`: `DmaSystem`) |
| `CacheProofs` | | theorems about `SplitL1` and, through it, `Cache` |
| `MemoryMapRefinement` | | `MemoryMap` implements `BusContract` |
| `MC*` | | instances for TLC |

```
MemoryMap => BusContract         Cores = ReferenceCore | PipelineCore  => Architecture
DmaSystem = DmaController + ArbiterQueue + BusProtocol
SplitL1   = Cache (data bank) + an instruction bank
Platform  = Execute + InterruptController + Timers + BlockDevice over Mmio
```

Abstractions. In the memory system addresses and data are words; byte and
halfword accesses, misalignment, statistics and display are left out; calls the
code refuses without changing state are stuttering steps. A device's latency is
chosen anew for every beat from a set, which covers the latency adapter and the
open row of the DRAM. `last_used` of a cache line is kept as its rank in
the set instead of a wrapping 64-bit epoch. In `DmaSystem` the polled CPU accesses to other devices
are left out; the software writes whole registers, each in a cycle that the
arbiter leaves to the CPU. In `Cache` the lower bus is reduced to what a cache
can see of it: it accepts a burst and finishes it after a latency, or answers
Busy to its submission. A burst it has accepted never fails, because cached
lines are memory that can be read and written: the `Failed` branch of
`drive_burst_until_blocked` (`cache.rs:714`) is left out. `DmaSystem` does not extend `MemoryMap`: only DMA bursts
are in flight there. The engine adds 32-bit registers in 64-bit addresses, which
cannot overflow, so its addresses are naturals.

In the cores a word has 24 bits and a byte 6, so that four bytes make a word and
every word is an integer of TLC; nothing but the width is changed. An
instruction word is the record of its fields. The bus of a core is one blocking
port, as the polled path of the memory map is: it holds one access until its
latency has passed and the same access is presented again. A page of a program
has a frame and flags: `Translate` gives the physical address that goes to the
bus, and a trap names the virtual one. The walk, the TLB and fences are the
subject of `Mmu`, which takes its requests as free choices. The counters of the CSR file
are left out, the right to read them is not.

## 3. Runs

| Run | Result | What it shows |
|---|---|---|
| `memory_map` | pass | types; identifiers distinct; the polled access is always backed by its transaction; the accesses counted at the devices are the ones requested, every request is answered once, and a polled one is never submitted again (`ExactlyOnce`); every request finishes; refinement of `BusContract` |
| `arbiter` | pass | accepted requests of a master are answered in order; each request is in one place (pending, in flight, answered) and within its master's window; at most `MasterCount - 1` grants overtake a waiting master; every request is answered; the CPU's access is passed on |
| `arbiter_order` | violation | with refusals the answers are *not* in submission order, against the README of the crate |
| `dma` | pass | counted words are at the destination; only the target is written; the device's and the arbiter's queues agree; done and error exclude each other; every transfer ends |
| `dma_restart` | violation | after an aborted transfer the next one takes the late responses for its own and reports done over words that were not copied |
| `cache` | pass | unified and split: no store lost (`Coherent`), a line in one place, the dirty bit never lies, no instruction outlives a store (`InstructionsFollowStores`), a cleaned range is in memory, accesses and fetches end |
| `cache_refused` | violation | a dirty victim is lost if the lower bus answers Busy to the submission of its write-back |
| `cache_neighbour` | violation | `invalidate_range` of one line drops the dirty line behind it |
| `cores` | pass | both cores: a cycle commits at most two steps of `Architecture`, traps in their place among them; what is in flight in the pipeline is one path from the committed PC to the front end, on either side of a trap taken early; every program ends |
| `cores_agreement` | violation | five programs on which the pipeline ends in another state than the architecture, against the README of the cores |
| `mmu` | pass | answers follow the tables (`AnswersFollowTables`); stores of the core to the tables survive walks; the bus never holds an access of a dropped walk; a request that stays is answered |
| `platform` | pass | contexts survive nested traps; claimed sources are with one handler and not pending; block commands keep their meaning and their end stays visible; everything is served in the end |

The restrictions of the passing runs follow from the violations and from section
5. In `dma` the properties about words and queues speak of a transfer that was
started with no request of an earlier one in flight (`job.fresh`); starts with
such requests in flight happen in the run, and `dma_restart` is about them.
`cache` uses a lower bus that never answers Busy to a submission and discards
only the last cached line, and its liveness property excepts by name the blocked
case of section 5 (`BlockedByAbandoned`, `SplitBlocked`). `mmu` assumes of software what
`SoftwareAssumption` says: the DMA engine stores to non-leaf entries only, and
global mappings are marked in the root, alike in every address space, and stay.

`cores` says of the pipeline what holds of the programs in `Agreeing`. A trap
that ID or IF finds changes the CSRs, the privilege and the front end at once,
with up to two older instructions still in EX and MEM (`addi; illegal` is such a
program, one of `EarlyTraps`). `CommittedHart` therefore shows the hart as it
was before the trap until they have left MEM, and `InFlightIsOnePath` lets the
path turn at the trap; both read the auxiliary variable `early`. What the
programs of the run leave out, each because the code goes wrong there
(`cores_agreement`, section 5):

* an operand two instructions old that is caught by a waiting access: data
  accesses wait only in programs that are `StallSafe`, fetches only where
  nothing redirects or takes the bus;
* two faults in flight together;
* a CSR write that is still in EX, MEM or WB when EX, ID or IF traps;
* behind an early trap: a load or store that still has to be translated, an
  environment call, a CSR access or another system instruction, which would be
  executed at the privilege of the trap;
* a fetch that faults behind a branch or jump, still in ID, that leads
  elsewhere;
* an interrupt that is enabled in the handler of a trap: `Interrupted` combines
  interrupts and waits with exceptions whose handler masks them, and no interrupt
  is combined with a trap of ID or IF that has an older instruction in flight.

Software is assumed to follow these rules, because the devices and caches rely
on them: the block index and the data window are not written while a command is
active, and a handler acknowledges the block device by writing back the status
it read; a handler of a software interrupt clears the device and then the mip or
sip bit; over a write-back data bank, software cleans a line before it fetches
from it and does not store to a line that is being fetched.

**Bounds.** `memory_map`: three words, two devices, three identifiers between
resets; enough for a polled access, a transaction and a burst in flight
together, a burst across a device boundary, a read-only store and an unmapped
fetch. `arbiter`: two masters with windows of two and one, three requests each;
enough for reordering, a postponed request behind two in flight, and a full
window. `dma`: bursts of two words, a window of two, transfers of zero and five
words; a transfer needs three bursts, fills the buffer and overlaps reads with
writes. `cache`: three cached lines for at most two ways, so every set
overflows, and one uncached line; four unified configurations cover both values
of each policy and three geometries, two split ones both store policies with one
way a bank. The split ones fetch one word (`Fetches`), touch one word of each
cached line (`SplitWords`) and let one older access (`OlderAccesses`) run while
a fetch waits, which is enough for a store between the read and the install of a
refill.

`cores`: every sequence of four instructions of a palette of ten (three for the
reference core), which fills the pipeline and puts every pair and triple at
every distance, with waits of up to two cycles; an illegal instruction behind every
sequence of up to three of them (CSR writes excepted), and a fetch that faults
at a page's end behind three translated instructions; and scenarios for
exceptions, also with waits and an interrupt racing them, refused instructions, interrupts, delegation, an environment call and
translation. `mmu`: two address spaces, a page, a superpage and a global page
over a TLB of two entries, which overflows, and two stores to the tables.
`platform`: a deadline of the timer between 24 and 40 cycles and block latencies
of 0, 1, 4, 5 and 9 cycles, which move the two interrupts across the main
program and across each other's handlers; time stops at
`TimeBound` = 80, after everything has happened; two blocks of four bytes;
sources 1 to 3; one reset.

**Fairness.** The clock always runs: weak fairness of every `Tick`, or of the
cycle. In `Cores` and `Platform` it is stated by the parity of the cycle counter
(`ClockRuns`). In `Arbiter`, additionally, the lower bus does not postpone a
request for ever (the memory map never does); `CpuGetsItsSlot` rests on the
masters' demand being finite (`MaxRequests`): a master that asks in every cycle
takes every cycle, and the code gives the CPU no turn against it. In `Cache` and
`SplitL1` each caller makes its attempt in every cycle: the core retries an
access answered Busy in the next cycle. In `Mmu` the core goes on calling
`translate`. No fairness is assumed of resets, of software starting something,
of fences, or of a bus master.

## 4. Proofs

Each theorem holds for every value of the constants, under the named assumptions
of the module it is about. TLC evaluates these on the instances of the runs.

**Memory map** (`MemoryMapProofs`; from `DevicesAssumption` and
`RequestsAssumption`: every device has a latency, requests are of the map's
words). `TypeCorrect`, `IdentifiersDistinct`, `CompatAlwaysBacked` and
`PerformedExactlyOnce` state `Spec => []P` for `TypeOK`, `IdsDistinct`,
`CompatBacked` and `ExactlyOnce`. All follow from one inductive invariant,
`IInv`. None of the four is inductive alone: distinctness needs every identifier
in a table to be below the next one; exactly-once needs every record without an
answer to have its entry (`Held`) and its polled ones to be the one in `compat`
(`Remembered`), and the accesses counted at the device to agree with the beat
index, the phase and the refusal of the entry (`Tracks`, `Matches`), which
survives a step of one table only if the tables share no identifier
(`Disjoint`). Taking a response moves the last entry of the table into the hole,
so `CompatBacked` needs `Distinct` to know that the entry it speaks of is another
one or has been cleared. The accesses are counted from the phase tests that reach
the device (`Executes`), not from the index the entry keeps; `StepEntry` is where
the two meet, for one entry advanced once, and it is there that a failed entry
has to be known to be a rejected store. The lemmas `EnterEntry`, `RemoveEntry` and `StepTable`
say what appending, `swap_remove` and advancing do to these facts for either
table, and one lemma per action applies them.

`MemoryMapRefinement` proves `ImplementsContract`, `Spec => KeepsBusContract`,
from the same invariant. A submission is an `Accept`, taking a response an
`Answer`; a polled access that is not answered at once is an `Accept`, a store
without latency is a `StoreAtOnce`. The work is in `Tick`: it advances both
tables in order and every entry sees the words the ones before it left. The
tables are laid end to end as one row of entries (`RowPlaces`, `OpenIsRow`); one
entry's `Advance` is a `Beat` of its request or changes nothing of it
(`StepIsBeat`, `NoStep`); and the states between the entries are those that
`Turns` of the contract passes through in the order of the row (`TurnsEnd`, by
least counterexample). That no identifier is in both tables or twice in one, from
`IInv`, is what makes a turn of one entry leave the others alone.

**Arbiter** (`ArbiterProofs`; from `BoundsAssumption`: latencies are positive,
something can be requested). `TypeCorrect`, `ResponsesKeepTheirOrder`,
`RoundRobin` and `NoRequestLost` state `[]TypeOK`, `[]AcceptedInOrder`,
`[]NoStarvation` and `[]EachRequestInOnePlace`, for any number of masters, any
windows and any behaviour of the lower bus. The invariant `Inv` says of each
master that its requests in flight are numbered in order and above the answered
ones (`InOrder`), that the answered, the flying and the pending ones are all it
has issued (`Counted`) and fit its window; and that the grants that overtook it
plus the distance from the turn to it stay below the number of masters. The
counting is what makes `EachRequestInOnePlace` inductive, the distance what makes
`NoStarvation` so: without it nothing says that a grant to another brings the
turn nearer. `AtPicks` characterises the delivery of a poll, which removes
entries from the middle of the queue; `PollKeepsPlaced`, `SubmitKeepsPlaced` and
`GrantKeepsPlaced` say what the three parts of a tick do for one master.

**DMA** (`DmaProofs`; from `DevicesAssumption`, `EngineAssumption`,
`MastersAssumption` and `SystemAssumption`: bursts and windows are positive,
memory and registers hold words and numbers, the absent values are no record).
`CountedWordsAreThere`, `TransfersStayInTarget`, `QueuesStayAligned`,
`StatusExclusive` and `TypeCorrect` state `[]CountedWordsArrived`,
`[]WritesOnlyTarget`, `[]QueuesAgree`, `[]OneStatus` and `[]TypeOK`, for every
device layout, latency, burst size, read-ahead, window and sequence of register
writes and resets. The invariant is `Sound`, of an engine, a queue of requests in
flight, a burst table, the words and the job; a tick is a chain of such states,
one lemma for each link:

    CycleSound     the memory map advances every burst
    PollSound      finished bursts leave the table, answers enter the queue
    DeliverSound   the answered prefix of the queue reaches on_response
    ArbitrateSound the engine issues a read or a write, or the map refuses it

`CountedWordsArrived` is far from inductive: what is counted next is a write that
was answered, whose words were read by a burst answered earlier, whose words must
not have been overwritten meanwhile. `Running` follows each word on this way. The
transfer is cut in pieces: writes on the bus, words waiting, reads on the bus;
`Layout` says that these follow each other without gap or overlap, in the order
of their queues, from the counted words to the words still to be read. From this,
the write at the front begins where the counted words end (`FirstWrite`), and
what a read has still to take is touched by no write if the job is
`ReadAheadSafe` (`SourceUntouched`), the one place where that condition is used.
`Matches` ties the engine's queue to the arbiter's and to the entries of the
table, whatever order `swap_remove` leaves them in; `InMemory` says which words
have changed. When a transfer is given up, its pieces are forgotten but its
writes stay on the bus: `Stopped` keeps of them that they lie in the target
behind the counted words, which is all `WritesOnlyTarget` needs. The hypothesis
that a transfer starts on a quiet bus is needed: the run `dma_restart` shows what
happens without it. The loops over the queue are recursive functions; that they
have the expected values is proved by least counterexample (`LeftExists`,
`UntakenIs`, `AfterExists`, `DeliverSound`). TLC has checked the invariant on the
instance of the `dma` run.

**MMU** (`MmuProofs`; from `MmuAssumption`, which types tables and workloads, and
`SoftwareAssumption`, section 3). `TypeCorrect`, `AnswersAreFaithful`,
`WalksLoseNoStore` and `WalksKeepTheirAccess` state `[]TypeOK`,
`[]AnswersFollowTables`, `[]StoresSurviveWalks` and `[]NoAccessAbandoned`, for
every page table, TLB size, and set of requests, fences and stores. The invariant
`Inv` says where a walk stands: below the root it got there by the entry that is
in the root now, unless a DMA store to it is unseen (`BelowRoot`); a walk that is
to write back A and D holds the leaf as it stands (`LeafToWrite`); every entry of
the TLB is made of the leaf the tables still lead to, up to A and D, for every
request it would answer and that no fence is owed for (`EntryOK`). `EntryOK`
speaks of all address spaces because a global entry answers in all of them; this
is where the rule about global mappings is needed. Both halves of
`SoftwareAssumption` are necessary: without the first a write-back undoes a DMA
store, without the second a global entry outlives the fence of one space.

**Traps** (`CsrFileProofs`; for all register contents, interrupt lines and
delegations). `WritesKeepType`: no value written to any CSR takes a register out
of its bits. `TrapsResume`: a return restores what the entry of the same level
saved. `TrapsNest`: a machine trap within a supervisor handler is invisible to
the handler. `HandlersNotReentered`: a handler just entered is not interrupted at
its own level. Together they are the step from one trap to the next on which
`InterruptedContextKept` of the `platform` run rests; that run follows whole
programs. `Isa` assumes that `None` is no number (`NoneAssumption`).

**Caches** (`CacheProofs`; from `CacheAssumption`, `FetchesAssumption` and
`NoneAssumption`: words, ranges and geometries are of the address space, the
absent value is no record). All theorems are about `SplitSpec`, whose unified
configurations are `Cache`, for every number of lines, sets and ways, both store
and both allocation policies, both replacement policies, every latency and every
set of accesses. `TypeCorrect` and `OneCopyOfALine` state `[]SplitTypeOK` and
`[]SingleCopy` without further condition. `StoresAreKept`, `DirtyBitIsTrue`,
`FetchesSeeStores` and `CleaningCompletes` state `[]Coherent`,
`[]CleanLinesMatchMemory`, `[]InstructionsFollowStores` and `CleanReachesMemory`
if `Reliable` holds: the lower bus takes every submission, and no discard
reaches a cached line outside its range. Both conditions are necessary:
`cache_refused` and `cache_neighbour` show a stored word lost without the first
and without the second.

The invariant, `CacheInv`, has two layers. `Struct` says how the parts fit
together and holds over any lower bus: a line has one way; a pending miss has
taken its way out of the set and neither its line nor its victim is held
(`PendingOK`); the burst with the lower bus is the one the pending miss or the
head of the maintenance list would ask for again, with the same words
(`BurstOK`); the polled access is the one the caller repeats (`AccessOK`); a
dirty line is one of a write-back cache that no bus master wrote (`DirtyOK`).
`Data` says what the words are: a clean line equals the lower level
(`CleanData`), a finished burst holds or has left the words that are there
(`BurstData`), what a load would see is the last store or the one being tried
(`WordData`), and every line of a range being cleaned that is still dirty is
still on the list (`MaintenanceData`). `Coherent` is not inductive without the
others: a clean victim is dropped only because it equals the lower level, a
refill that has been read but not installed must still equal it, and the words
of a dirty victim are safe only because its burst carries them and not those of
an earlier burst. `InstructionData` adds for the other bank that a line being
fetched is current in the lower level; that a store removes the copy, the
pending refill and its burst is what keeps it.

The attempts of `DirectMappedCache` are proved along the calls of the code, a
lemma or two for each: `DriveBurst`, `StartPending`, `ContinuePending`,
`EnsureLine`, `StoreHit`, `Store`, `WriteBackLine`, `WriteBackRange`,
`InvalidateRange`. The loop of `continue_write_back_range` is a recursive
function; its values are found by least counterexample. TLC has checked
`CacheInv` on the instance of the `cache` run, and on the same instance with a
lower bus that refuses.

Only model-checked: all liveness properties, `SplitAccessCompletes` of the
caches among them (fairness and ENABLED are out of the prover's reach); the
refinement `ImplementsArchitecture`; the invariants of `Cores` (`TypeOK`,
`InFlightIsOnePath`) and of `Platform`. These last follow programs of machine
code, one case per instruction and stage; `TrapsResume`, `TrapsNest` and
`HandlersNotReentered` are the part of them that is proved.

## 5. Where the code departs from what it promises

Five disagreements are runs (section 3, `findings` in `PROJECT.json`). The
others were met while modelling the cores, the devices and the caches. Two of
them have a configuration of their own:

* `tlc -config MCCacheAbandoned.cfg MCCache`: a pending refill is continued only
  by an access to its own line; when its caller has been redirected, every
  access to another cached line is answered Busy for ever (`cache.rs:825`);
* `tlc -config MCCoresInterrupt.cfg MCCores`: an interrupt is taken at
  `state.pc` (`pipeline.rs:253`), which the write-back of the instruction before
  a trap has just set back. In the cycle behind a delegated environment call, a
  machine interrupt saves the address of the call, with supervisor privilege.

`crates/cpu/src/core/README.md` says "Both cores should agree on architecturally
committed state." and promises "precise trap behavior". The run
`cores_agreement` takes five programs of `MCCores`, and each of them alone
violates `StopsInAgreement`, while every program of `Agreeing` that takes no
interrupt satisfies it:

* `Waiting`: while a load waits in MEM, the instruction behind it keeps the
  operands it read in decode, and the older instruction it should have forwarded
  from is written back and gone (`pipeline.rs:282`).
  `addi x1; lw x2; add x3, x1, x1` then computes with the old `x1`;
* `TwoTraps`: a load that faults, followed by an illegal instruction, enters the
  trap twice, the younger one first (`pipeline.rs:429`), and the saved interrupt
  enable is lost;
* `EarlyCsr`: `csrrw mepc` in MEM is written back behind the trap of the `ecall`
  in EX, and overwrites what the trap saved;
* `WrongPath`: the fetch behind a taken branch faults and its trap is applied
  (`pipeline.rs:480`); the branch then turns the front end to its target, and the
  program goes on at the privilege of a trap that was not due;
* `EarlyLoad`: a load in ID when the fetch behind it faults is executed at the
  privilege of the handler, with an untranslated address.

Read off the code and left out of the passing runs:

* an environment call in ID when the fetch behind it faults is raised from the
  privilege of the handler; the first fetch after
  `mret` or `sret` uses the old privilege; a store behind `wfi` is executed
  twice;
* a fetch in flight that is redirected, or overtaken by MEM, is held by the
  blocking bus against every other access; `wfi` before a waiting load never
  wakes;
* both cores take interrupts only while the bus is not busy (`pipeline.rs:249`),
  so that steady bus traffic postpones them without bound;
* a DMA store to a leaf entry between the walker's read and its write-back of A
  and D is undone (`mmu.rs:302`);
* `csrrs` and `csrrc` on `mip` copy a raised software interrupt line into the
  software-pending bits (`csr_file.rs:182`);
* changing the block index or window while a command is active changes the
  command (`block_device.rs:193`); its reset erases the storage; a source raised
  while it is claimed is dropped (`interrupt_controller.rs:182`);
* in the split L1, dropping a pending instruction refill on a store leaves its
  burst with the lower bus for ever; `write_back_range` leaves the instruction
  copies of what it cleans; over a lower cache, a data miss is refused while an
  instruction refill is in flight.

## 6. Not modelled, and the plan

1. A cache as lower bus of another (`active_burst`), fetches that bypass the
   split L1, and a core composed with the arbiter and a cache: these would show
   a redirected fetch leaving a refill to nobody and interrupts postponed by DMA
   traffic.
2. Proofs: `SourcesServedOnce` and `InFlightIsOnePath`, which need an invariant
   of the program that runs.

Left to the repository's tests: the extraction of fields from 32-bit words and
the 32-bit arithmetic (pure functions, out of TLC's reach at their width), the
UART (an output buffer), the open row of the DRAM (a latency), counters, tracing,
statistics, and the application with its microbenchmarks (wiring, I/O and
measurement).
