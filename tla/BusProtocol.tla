---------------------------- MODULE BusProtocol ----------------------------
(***************************************************************************)
(* The request protocol of the memory map: how one accepted request goes   *)
(* from Accepted through InFlight to Ready or Failed, and what a table of  *)
(* such requests does to the words of the mapped devices in one clock      *)
(* cycle.  Everything here is a pure operator; MemoryMap and DmaSystem     *)
(* build their actions from them.                                          *)
(*                                                                         *)
(* A single access (TransactionRequest) and a word burst (BurstRequest)    *)
(* follow the same protocol, one beat for the former and several for the   *)
(* latter, so both are a record                                            *)
(*                                                                         *)
(*     [kind, addr, data]    data: one element for each beat               *)
(*                                                                         *)
(* with the words to store, or zeros for a read.  Addresses count words:   *)
(* beat n of a burst is at addr + n (bus.rs steps by four bytes).          *)
(***************************************************************************)
EXTENDS Naturals, Sequences, FiniteSetsExt

CONSTANTS
  DeviceOf,   \* the device that decodes each mapped word: [Words -> device]
  ReadOnly,   \* words whose device rejects stores (ROM)
  Values,     \* the contents of a word
  Latencies   \* [Words -> SUBSET Nat]: what access_latency may answer there

(* The mapped words.  map_device refuses overlapping ranges, so a word has *)
(* at most one device.                                                     *)
Words == DOMAIN DeviceOf

Kinds == {"fetch", "load", "store"}

ASSUME DevicesAssumption ==
  /\ Words \subseteq Nat
  /\ ReadOnly \subseteq Words
  /\ Latencies \in [Words -> SUBSET Nat]
  /\ \A w \in Words : Latencies[w] # {}

RequestType == [kind : Kinds, addr : Nat, data : Seq(Values) \ {<< >>}]

PhaseType ==
  [state : {"Accepted", "InFlight", "Ready", "Failed"}, remaining : Nat]

EntryType ==
  [id : Nat, request : RequestType, beat : Nat, data : Seq(Values), phase : PhaseType]

Beats(request) == Len(request.data)

(* find_device_index succeeds for the first word and every later beat      *)
(* lands in the same device ("burst crosses device boundary" otherwise).   *)
Routable(request) ==
  /\ request.addr \in Words
  /\ \A n \in 1 .. (Beats(request) - 1) :
       /\ request.addr + n \in Words
       /\ DeviceOf[request.addr + n] = DeviceOf[request.addr]

(* A request as submit_transaction or submit_burst enters it.              *)
NewEntry(id, request) ==
  [id |-> id, request |-> request, beat |-> 0, data |-> request.data,
   phase |-> [state |-> "Accepted", remaining |-> 0]]

BeatAddr(entry) == entry.request.addr + entry.beat

Finished(entry) == entry.phase.state \in {"Ready", "Failed"}

(* The entry performs its current beat in this protocol step.              *)
Due(entry, latency) ==
  \/ entry.phase.state = "Accepted" /\ latency = 0
  \/ entry.phase.state = "InFlight" /\ entry.phase.remaining <= 1

(* A store to a device that answers it with an error.                      *)
Rejected(entry) == entry.request.kind = "store" /\ BeatAddr(entry) \in ReadOnly

Executes(entry, latency) ==
  ~Finished(entry) /\ Due(entry, latency) /\ ~Rejected(entry)

Writes(entry, latency) == Executes(entry, latency) /\ entry.request.kind = "store"

(* The wait of a beat that is not due: the device's latency is counted     *)
(* from the step that leaves Accepted.                                     *)
WaitRestarting(entry, latency) ==
  [entry EXCEPT !.phase = [state |-> "InFlight", remaining |-> latency + 2]]

Wait(entry, latency) ==
  [entry EXCEPT !.phase =
     [state |-> "InFlight",
      remaining |-> IF @.state = "Accepted" THEN latency ELSE @.remaining - 1]]

CompleteBeatUnderflow(entry, word) ==
  [entry EXCEPT !.beat = @ + 1,
                !.phase = [state |-> IF entry.beat + 1 = Beats(entry.request)
                                     THEN "Ready" ELSE "Accepted",
                           remaining |-> @.remaining - 1]]

(* One beat done: a read keeps the word, then the next beat or Ready.      *)
CompleteBeat(entry, word) ==
  LET next == entry.beat + 1
  IN  [id |-> entry.id,
       request |-> entry.request,
       beat |-> next,
       data |-> IF entry.request.kind = "store" THEN entry.data
                ELSE [entry.data EXCEPT ![next] = word],
       phase |-> [state |-> IF next = Beats(entry.request) THEN "Ready" ELSE "Accepted",
                  remaining |-> 0]]

(* One protocol step of one entry, given the latency its device answers    *)
(* and the word it would read.                                             *)
Advance(entry, latency, word) ==
  CASE Finished(entry) -> entry
    [] ~Finished(entry) /\ Due(entry, latency) /\ Rejected(entry) ->
         [entry EXCEPT !.phase = [state |-> "Failed", remaining |-> 0]]
    [] ~Finished(entry) /\ Due(entry, latency) /\ ~Rejected(entry) ->
         CompleteBeat(entry, word)
    [] ~Finished(entry) /\ ~Due(entry, latency) -> Wait(entry, latency)

MemAfterEarly(table, latency, m, n) ==
  [w \in Words |->
     LET writers == {i \in 1 .. n : /\ table[i].request.kind = "store"
                                    /\ ~Finished(table[i])
                                    /\ ~Rejected(table[i])
                                    /\ BeatAddr(table[i]) = w}
     IN  IF writers = {} THEN m[w]
         ELSE LET last == table[Max(writers)] IN last.request.data[last.beat + 1]]

(* The words after the first n entries of a table have taken their step in *)
(* table order: the last store to a word wins.                             *)
MemAfter(table, latency, m, n) ==
  [w \in Words |->
     LET writers == {i \in 1 .. n : Writes(table[i], latency[i]) /\ BeatAddr(table[i]) = w}
     IN  IF writers = {} THEN m[w]
         ELSE LET last == table[Max(writers)] IN last.request.data[last.beat + 1]]

(* All entries of a table take one step, each reading what the entries     *)
(* before it left behind.                                                  *)
AdvanceAll(table, latency, m) ==
  [i \in DOMAIN table |->
     Advance(table[i], latency[i], MemAfter(table, latency, m, i - 1)[BeatAddr(table[i])])]

(* What access_latency may answer to the entries of a table: it is asked   *)
(* only of an entry that leaves Accepted.                                  *)
LatencyChoices(table) ==
  {latency \in [DOMAIN table -> {0} \cup UNION {Latencies[w] : w \in Words}] :
     \A i \in DOMAIN table :
       latency[i] \in IF table[i].phase.state = "Accepted"
                      THEN Latencies[BeatAddr(table[i])] ELSE {0}}

(* Vec::swap_remove: the last element takes the place of the removed one.  *)
SwapRemove(table, i) ==
  [j \in 1 .. (Len(table) - 1) |-> IF j = i THEN table[Len(table)] ELSE table[j]]

IndexOf(table, id) == CHOOSE i \in DOMAIN table : table[i].id = id

Ids(table) == {table[i].id : i \in DOMAIN table}
=============================================================================
