----------------------------- MODULE DmaSystem -----------------------------
(***************************************************************************)
(* The DMA engine, the arbiter and the memory map as apps/computer wires   *)
(* them: the engine is the arbiter's only master and one of the devices    *)
(* behind the memory map, and software programs it through its registers   *)
(* while its bursts are under way.                                         *)
(*                                                                         *)
(* MemoryMap takes or refuses a burst at once, so the arbiter's pending    *)
(* request never outlives a tick and is not part of the state.             *)
(***************************************************************************)
EXTENDS BusProtocol, ArbiterQueue, DmaController

CONSTANTS
  Image,          \* the words software has loaded before the first transfer
  PowerOnWords,   \* the words after a reset
  Sources, Destinations, Lengths,  \* values software writes to the registers
  ControlWrites,  \* sets of control bits software writes
  MaxTransfers    \* bound on the transfers software starts between resets

VARIABLES
  mem,          \* the words of RAM and ROM
  bursts,       \* active_bursts of the memory map
  in_flight,    \* in_flight_requests: [master, id, completion]
  cpu_reserved, \* cpu_reserved_this_cycle
  dma,          \* the engine
  job,          \* ghost: the transfer last started, NoTransfer before any
  started       \* how many transfers were started since the last reset

vars == <<mem, bursts, in_flight, cpu_reserved, dma, job, started>>

ResponseType == [kind : Kinds \cup {"error"}, words : Seq(Values)]

(* Of an element of in_flight_requests.                                    *)
FlightType == [master : {0}, id : Nat, completion : ResponseType \cup {None}]

WriteType == [destination : Nat, words : Seq(Values) \ {<< >>}]

IssuedType == [kind : {"load", "store"}, destination : Nat, beats : Nat \ {0}]

TransferType ==
  [next_source : Nat, next_destination : Nat, remaining_words : Nat,
   ready_writes : Seq(WriteType), issued_requests : Seq(IssuedType)]

DmaType ==
  [source : Nat, destination : Nat, length_words : Nat, transferred_words : Nat,
   irq_enabled : BOOLEAN, done : BOOLEAN, error : BOOLEAN,
   active : TransferType \cup {NoTransfer}]

JobType ==
  [source : Nat, destination : Nat, length : Nat, before : [Words -> Values], fresh : BOOLEAN]

ASSUME SystemAssumption ==
  /\ 0 \in Values
  /\ Image \in [Words -> Values] /\ PowerOnWords \in [Words -> Values]
  /\ Sources \subseteq Nat /\ Destinations \subseteq Nat /\ Lengths \subseteq Nat
  /\ None \notin ResponseType
  /\ NoTransfer \notin TransferType /\ NoTransfer \notin JobType

Init ==
  /\ mem = Image
  /\ bursts = << >>
  /\ in_flight = << >>
  /\ cpu_reserved = FALSE
  /\ dma = PowerOnDma
  /\ job = NoTransfer
  /\ started = 0

-----------------------------------------------------------------------------
(* Software.  Register accesses take no wait states but need the cycle's   *)
(* CPU slot (ensure_cpu_slot).                                             *)

CpuSlot == ~cpu_reserved

WriteRegister(registers) ==
  /\ CpuSlot
  /\ dma' = registers
  /\ UNCHANGED <<mem, bursts, in_flight, cpu_reserved, job, started>>

WriteSource == \E a \in Sources : WriteRegister([dma EXCEPT !.source = a])

WriteDestination == \E a \in Destinations : WriteRegister([dma EXCEPT !.destination = a])

WriteLength == \E n \in Lengths : WriteRegister([dma EXCEPT !.length_words = n])

(* The ghost keeps what the transfer was asked to do, the words as they    *)
(* were, and whether requests of an earlier transfer were still around.    *)
WriteControl ==
  \E bits \in ControlWrites :
    LET starts == "start" \in bits /\ ~IsBusy(dma)
    IN  /\ CpuSlot
        /\ starts => started < MaxTransfers
        /\ dma' = ApplyControlByte(dma, bits)
        /\ started' = started + (IF starts THEN 1 ELSE 0)
        /\ job' = IF starts
                  THEN [source |-> dma.source, destination |-> dma.destination,
                        length |-> dma.length_words, before |-> mem,
                        fresh |-> in_flight = << >>]
                  ELSE job
        /\ UNCHANGED <<mem, bursts, in_flight, cpu_reserved>>

-----------------------------------------------------------------------------
(* One clock tick of the arbiter: the memory map advances, answers are     *)
(* taken and handed to the engine, and the engine may issue a burst.       *)

(* poll_in_flight_requests, first loop, on the table the tick left.        *)
Completion(entry) ==
  CASE entry.phase.state = "Failed" -> [kind |-> "error", words |-> << >>]
    [] entry.phase.state = "Ready" -> [kind |-> entry.request.kind, words |-> entry.data]

(* Where take_burst_response finds the answer to a request in flight.      *)
Answer(table, e) == {n \in DOMAIN table : table[n].id = e.id /\ Finished(table[n])}

Polled(table) ==
  [i \in DOMAIN in_flight |->
     LET e == in_flight[i]
     IN  IF e.completion = None /\ Answer(table, e) # {}
         THEN [e EXCEPT !.completion = Completion(table[CHOOSE n \in Answer(table, e) : TRUE])]
         ELSE e]

(* take_burst_response removes what it answers.                            *)
Take(table, e) ==
  IF e.completion = None /\ Answer(table, e) # {}
  THEN SwapRemove(table, CHOOSE n \in Answer(table, e) : TRUE)
  ELSE table

Untaken(table) ==
  LET left[n \in 0 .. Len(in_flight)] ==
        IF n = 0 THEN table ELSE Take(left[n - 1], in_flight[n])
  IN  left[Len(in_flight)]

(* Second loop: every deliverable answer reaches the engine, in order.     *)
Responded(delivered) ==
  LET after[n \in 0 .. Len(delivered)] ==
        IF n = 0 THEN dma ELSE OnResponse(after[n - 1], delivered[n].completion)
  IN  after[Len(delivered)]

FreshId(table, queue) ==
  CHOOSE n \in 1 .. (Len(queue) + 1) : \A i \in DOMAIN queue : queue[i].id # n

(* try_submit_pending_request for a burst of the engine.                   *)
Submit(request, engine, table, queue) ==
  \/ /\ Routable(request)
     /\ LET id == FreshId(table, queue)
        IN  /\ bursts' = Append(table, NewEntry(id, request))
            /\ in_flight' = Append(queue, [master |-> 0, id |-> id, completion |-> None])
     /\ dma' = engine
  \/ /\ ~Routable(request)
     /\ dma' = OnResponse(engine, [kind |-> "error", words |-> << >>])
     /\ bursts' = table
     /\ in_flight' = queue

BurstRequest(burst) ==
  IF burst.kind = "load"
  THEN [kind |-> "load", addr |-> burst.addr, data |-> [n \in 1 .. burst.beats |-> 0]]
  ELSE [kind |-> "store", addr |-> burst.addr, data |-> burst.words]

Arbitrate(engine, table, queue) ==
  LET kind == IF Outstanding(0, None, queue) < Window[0] THEN NextKind(engine) ELSE "nothing"
  IN  /\ cpu_reserved' = (kind # "nothing")
      /\ \/ /\ kind = "load"
            /\ Submit(BurstRequest(ReadBurst(engine)), AfterReadIssued(engine), table, queue)
         \/ /\ kind = "store"
            /\ Submit(BurstRequest(WriteBurst(engine)), AfterWriteIssued(engine), table, queue)
         \/ /\ kind = "nothing"
            /\ bursts' = table
            /\ in_flight' = queue
            /\ dma' = engine

(* tick().  Each \E over a one-element set names a value of the tick.      *)
Tick ==
  \E latency \in LatencyChoices(bursts) :
    /\ mem' = MemAfter(bursts, latency, mem, Len(bursts))
    /\ \E advanced \in {AdvanceAll(bursts, latency, mem)} :
       \E polled \in {Polled(advanced)} :
       \E engine \in {Responded(Delivered(polled))}, queue \in {Undelivered(polled)} :
         Arbitrate(engine, Untaken(advanced), queue)
    /\ UNCHANGED <<job, started>>

(* reset() of the arbiter, the memory map and every device.                *)
Reset ==
  /\ mem' = PowerOnWords
  /\ bursts' = << >>
  /\ in_flight' = << >>
  /\ cpu_reserved' = FALSE
  /\ dma' = PowerOnDma
  /\ job' = NoTransfer
  /\ started' = 0

Next ==
  \/ WriteSource
  \/ WriteDestination
  \/ WriteLength
  \/ WriteControl
  \/ Tick
  \/ Reset

(* The machine's clock never stops.                                        *)
Spec == Init /\ [][Next]_vars /\ WF_vars(Tick)

-----------------------------------------------------------------------------
TypeOK ==
  /\ mem \in [Words -> Values]
  /\ bursts \in Seq(EntryType)
  /\ in_flight \in Seq(FlightType)
  /\ cpu_reserved \in BOOLEAN
  /\ dma \in DmaType
  /\ job \in JobType \cup {NoTransfer}
  /\ started \in Nat

Target(j) == {j.destination + n : n \in 0 .. (j.length - 1)}

(* A transfer started when nothing of an earlier one was left on the bus.  *)
Undisturbed == job # NoTransfer /\ job.fresh

(* Moving words down or to a disjoint region: what the engine can do right *)
(* although it reads ahead of its writes.                                  *)
ReadAheadSafe(j) == j.destination <= j.source \/ j.destination >= j.source + j.length

(* The first n words of the source have arrived at the destination.        *)
Arrived(j, n) ==
  \A i \in 0 .. (n - 1) : mem[j.destination + i] = j.before[j.source + i]

(* Whatever the latencies and however reads and writes overlap on the bus, *)
(* transferred_words never counts a word that has not arrived, and done is *)
(* only set when all have (request, on_response).                          *)
CountedWordsArrived ==
  Undisturbed /\ ReadAheadSafe(job) =>
    /\ Arrived(job, dma.transferred_words)
    /\ dma.done => dma.transferred_words = job.length

(* A transfer, aborted or not, writes nowhere but in its destination.      *)
WritesOnlyTarget ==
  Undisturbed => \A w \in Words \ Target(job) : mem[w] = job.before[w]

(* A burst on the bus is the one the engine noted when it issued it (the   *)
(* destination of a write is noted by the model only).                     *)
SameBurst(issued, request) ==
  /\ request.kind = issued.kind
  /\ Beats(request) = issued.beats
  /\ IF issued.kind = "store" THEN request.addr = issued.destination
     ELSE request.addr - job.source = issued.destination - job.destination

(* The engine's queue of issued requests and the arbiter's queue of        *)
(* requests in flight name the same bursts in the same order: what         *)
(* on_response pops is what the response is for.                           *)
QueuesAgree ==
  IsBusy(dma) /\ job.fresh =>
    /\ Len(dma.active.issued_requests) = Len(in_flight)
    /\ \A i \in DOMAIN in_flight :
         in_flight[i].completion = None =>
           SameBurst(dma.active.issued_requests[i],
                     bursts[IndexOf(bursts, in_flight[i].id)].request)

(* Busy, done and error exclude each other, so an interrupt is never       *)
(* raised for a transfer that is still writing and a failed transfer is    *)
(* never reported as done.                                                 *)
OneStatus ==
  /\ ~(dma.done /\ dma.error)
  /\ IsBusy(dma) => ~dma.done /\ ~dma.error

(* Every transfer ends, and unless a reset ended it an enabled interrupt   *)
(* tells software so: reads and writes never wait for each other's buffers *)
(* forever, and no way out of on_response leaves the status bits clear.    *)
TransferEnds ==
  IsBusy(dma) ~> /\ ~IsBusy(dma)
                 /\ job = NoTransfer \/ (dma.irq_enabled => PendingInterrupt(dma))

(* Whenever the engine reports done, the words are where the transfer was  *)
(* asked to put them, also if an earlier transfer had failed.              *)
DoneMeansCopied ==
  dma.done /\ ReadAheadSafe(job) => Arrived(job, job.length)
=============================================================================
