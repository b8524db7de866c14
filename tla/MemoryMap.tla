----------------------------- MODULE MemoryMap -----------------------------
(***************************************************************************)
(* MemoryMap (crates/system/src/memory_map.rs): the address-decoded bus.   *)
(* It keeps a table of accepted single accesses, a table of accepted       *)
(* bursts, and the "compatibility" transaction behind the blocking-looking *)
(* Bus::load32/store32/fetch32 calls: the first call submits and answers   *)
(* Busy, later calls with the same request poll it.                        *)
(*                                                                         *)
(* Calls the code refuses without changing state (misaligned or unmapped   *)
(* address, Busy, a response that is not ready) are stuttering steps and   *)
(* have no action.                                                         *)
(***************************************************************************)
EXTENDS BusProtocol

CONSTANTS
  AccessRequests,  \* requests of Bus and TransactionBus callers: one beat
  BurstRequests,   \* requests of BurstBus callers
  PowerOnWords,    \* the words after reset: RAM is zeroed, ROM keeps its image
  MaxId,           \* bound on the identifiers handed out between two resets
  None

ASSUME RequestsAssumption ==
  /\ AccessRequests \subseteq RequestType
  /\ \A r \in AccessRequests : Beats(r) = 1
  /\ BurstRequests \subseteq RequestType
  /\ \A r \in BurstRequests : r.kind # "fetch"
  /\ PowerOnWords \in [Words -> Values]
  /\ MaxId \in Nat
  /\ None \notin [id : Nat, request : AccessRequests]

VARIABLES
  mem,           \* the words of the mapped devices
  transactions,  \* active_transactions
  bursts,        \* active_bursts
  compat,        \* compat_transaction
  history        \* history[id + 1]: what became of each identifier (auxiliary)

vars == <<mem, transactions, bursts, compat, history>>

(* next_transaction_id: identifiers are handed out in order from zero.     *)
NextId == Len(history)

----------------------------------------------------------------------------
(* An identifier's record: its request, the accesses its device saw, the   *)
(* responses handed out, and whether perform_request submitted it.         *)
Opened(request, polled) ==
  [request |-> request, executed |-> 0, answers |-> 0, polled |-> polled]

Answered(h, id) == [h EXCEPT ![id + 1].answers = @ + 1]

(* The calls of BusDevice::load and store that one step of a table makes:  *)
(* counted at the device, where MemAfter changes the words, and never from *)
(* the table's own beat index.                                             *)
Performed(h, table, latency) ==
  [n \in DOMAIN h |->
     IF \E i \in DOMAIN table : table[i].id = n - 1 /\ Executes(table[i], latency[i])
     THEN [h[n] EXCEPT !.executed = @ + 1] ELSE h[n]]

Init ==
  /\ mem = PowerOnWords
  /\ transactions = << >>
  /\ bursts = << >>
  /\ compat = None
  /\ history = << >>

(* MemoryMap::reset: tables, compat and the identifier counter are         *)
(* cleared, then every device is reset.                                    *)
Reset ==
  /\ mem' = PowerOnWords
  /\ transactions' = << >>
  /\ bursts' = << >>
  /\ compat' = None
  /\ history' = << >>

SubmitTransaction(request) ==
  /\ NextId < MaxId
  /\ Routable(request)
  /\ transactions' = Append(transactions, NewEntry(NextId, request))
  /\ history' = Append(history, Opened(request, FALSE))
  /\ UNCHANGED <<mem, bursts, compat>>

(* The burst table numbers its entries itself.                             *)
SubmitBurstOwnIds(request) ==
  /\ NextId < MaxId
  /\ Routable(request)
  /\ bursts' = Append(bursts, NewEntry(Len(bursts), request))
  /\ history' = Append(history, Opened(request, FALSE))
  /\ UNCHANGED <<mem, transactions, compat>>

SubmitBurst(request) ==
  /\ NextId < MaxId
  /\ Routable(request)
  /\ bursts' = Append(bursts, NewEntry(NextId, request))
  /\ history' = Append(history, Opened(request, FALSE))
  /\ UNCHANGED <<mem, transactions, compat>>

(* clear_compat_if_matches.                                                *)
CompatKept(id) == compat

CompatWithout(id) == IF compat # None /\ compat.id = id THEN None ELSE compat

(* take_transaction_response: only a finished transaction is removed.      *)
TakeTransactionResponse(i) ==
  /\ Finished(transactions[i])
  /\ transactions' = SwapRemove(transactions, i)
  /\ compat' = CompatWithout(transactions[i].id)
  /\ history' = Answered(history, transactions[i].id)
  /\ UNCHANGED <<mem, bursts>>

TakeBurstResponse(i) ==
  /\ Finished(bursts[i])
  /\ bursts' = SwapRemove(bursts, i)
  /\ history' = Answered(history, bursts[i].id)
  /\ UNCHANGED <<mem, transactions, compat>>

(* advance_transaction and advance_burst: a caller steps one entry.        *)
AdvanceTransaction(i) ==
  /\ ~Finished(transactions[i])
  /\ \E latency \in LatencyChoices(<<transactions[i]>>) :
       LET entry == Advance(transactions[i], latency[1], mem[BeatAddr(transactions[i])])
       IN  /\ transactions' = [transactions EXCEPT ![i] = entry]
           /\ history' = Performed(history, <<transactions[i]>>, latency)
           /\ mem' = MemAfter(<<transactions[i]>>, latency, mem, 1)
  /\ UNCHANGED <<bursts, compat>>

AdvanceBurst(i) ==
  /\ ~Finished(bursts[i])
  /\ \E latency \in LatencyChoices(<<bursts[i]>>) :
       LET entry == Advance(bursts[i], latency[1], mem[BeatAddr(bursts[i])])
       IN  /\ bursts' = [bursts EXCEPT ![i] = entry]
           /\ history' = Performed(history, <<bursts[i]>>, latency)
           /\ mem' = MemAfter(<<bursts[i]>>, latency, mem, 1)
  /\ UNCHANGED <<transactions, compat>>

(* The first call of perform_request: submit, one protocol step, and the   *)
(* response at once when the device has no latency.                        *)
PerformSubmit(request) ==
  /\ NextId < MaxId
  /\ Routable(request)
  /\ \E latency \in LatencyChoices(<<NewEntry(NextId, request)>>) :
       LET fresh == NewEntry(NextId, request)
           entry == Advance(fresh, latency[1], mem[request.addr])
           performed == Performed(Append(history, Opened(request, TRUE)), <<fresh>>, latency)
       IN  /\ mem' = MemAfter(<<fresh>>, latency, mem, 1)
           /\ \/ /\ Finished(entry)
                 /\ history' = Answered(performed, NextId)
                 /\ UNCHANGED <<transactions, compat>>
              \/ /\ ~Finished(entry)
                 /\ transactions' = Append(transactions, entry)
                 /\ compat' = [id |-> NextId, request |-> request]
                 /\ history' = performed
  /\ UNCHANGED bursts

(* perform_request submits only when no earlier access is remembered.      *)
PerformFirst(request) == compat = None /\ PerformSubmit(request)

(* perform_request polling its own transaction: the response is taken when *)
(* it is ready.  Any other request is answered Busy.                       *)
PerformRetry(request) ==
  /\ compat # None
  /\ compat.request = request
  /\ compat.id \in Ids(transactions)
  /\ TakeTransactionResponse(IndexOf(transactions, compat.id))

(* Bus::tick: every transaction, then every burst, one protocol step each. *)
Tick ==
  /\ \E lt \in LatencyChoices(transactions), lb \in LatencyChoices(bursts) :
       LET settled == MemAfter(transactions, lt, mem, Len(transactions))
       IN  /\ transactions' = AdvanceAll(transactions, lt, mem)
           /\ bursts' = AdvanceAll(bursts, lb, settled)
           /\ mem' = MemAfter(bursts, lb, settled, Len(bursts))
           /\ history' = Performed(Performed(history, transactions, lt), bursts, lb)
  /\ UNCHANGED compat

Next ==
  \/ Tick
  \/ \E r \in AccessRequests : SubmitTransaction(r) \/ PerformFirst(r) \/ PerformRetry(r)
  \/ \E r \in BurstRequests : SubmitBurst(r)
  \/ \E i \in DOMAIN transactions : AdvanceTransaction(i) \/ TakeTransactionResponse(i)
  \/ \E i \in DOMAIN bursts : AdvanceBurst(i) \/ TakeBurstResponse(i)
  \/ Reset

(* The machine ticks its bus once in every cycle (machine.rs).             *)
Spec == Init /\ [][Next]_vars /\ WF_vars(Tick)

----------------------------------------------------------------------------
TypeOK ==
  /\ mem \in [Words -> Values]
  /\ transactions \in Seq(EntryType)
  /\ bursts \in Seq(EntryType)
  /\ compat \in {None} \cup [id : Nat, request : AccessRequests]
  /\ history \in Seq([request : RequestType, executed : Nat, answers : Nat, polled : BOOLEAN])

(* Both tables draw identifiers from one counter, so that an identifier    *)
(* names at most one entry of at most one table and none that is still to  *)
(* be handed out: a lookup by identifier (transaction_index, burst_index)  *)
(* finds the entry its holder submitted.                                   *)
IdsDistinct ==
  /\ \A i \in DOMAIN transactions : transactions[i].id < NextId
  /\ \A i \in DOMAIN bursts : bursts[i].id < NextId
  /\ \A i, j \in DOMAIN transactions : transactions[i].id = transactions[j].id => i = j
  /\ \A i, j \in DOMAIN bursts : bursts[i].id = bursts[j].id => i = j
  /\ \A i \in DOMAIN transactions, j \in DOMAIN bursts : transactions[i].id # bursts[j].id

(* The compatibility transaction is an active transaction carrying the     *)
(* same request, whoever took responses meanwhile: perform_request never   *)
(* finds it gone, so its `expect` cannot fail.                             *)
CompatBacked ==
  compat # None =>
    \E i \in DOMAIN transactions :
      transactions[i].id = compat.id /\ transactions[i].request = compat.request

(* Every accepted request reaches its device once for each of its beats    *)
(* and is answered once.  While it is in a table it is unanswered, the     *)
(* device has seen the beats before its beat index and no other, and it is *)
(* Ready exactly when the device has seen all.                             *)
EntryOnce(entry) ==
  LET record == history[entry.id + 1]
  IN  /\ record.request = entry.request
      /\ record.executed = entry.beat
      /\ record.answers = 0
      /\ (entry.phase.state = "Ready") <=> (record.executed = Beats(record.request))

(* All beats reached the device, or a store stopped at the first word      *)
(* whose device refuses it.                                                *)
Complete(record) ==
  \/ record.executed = Beats(record.request)
  \/ /\ record.executed < Beats(record.request)
     /\ record.request.kind = "store"
     /\ record.request.addr + record.executed \in ReadOnly

(* Whoever takes the response: a request leaves its table with the answer, *)
(* which is given once and for a complete request.  An access submitted by *)
(* perform_request is the one compat remembers until it is answered, so    *)
(* that calling again polls it and never reaches the device a second time. *)
ExactlyOnce ==
  /\ \A i \in DOMAIN transactions : EntryOnce(transactions[i])
  /\ \A i \in DOMAIN bursts : EntryOnce(bursts[i])
  /\ \A n \in DOMAIN history :
       \/ /\ history[n].answers = 0
          /\ n - 1 \in Ids(transactions) \cup Ids(bursts)
          /\ history[n].polled => compat # None /\ compat.id = n - 1
       \/ /\ history[n].answers = 1
          /\ Complete(history[n])

(* Every accepted request is finished by the clock alone, however many     *)
(* beats and whatever latency each has, unless a reset discards it.        *)
Waiting(id) ==
  \/ \E i \in DOMAIN transactions : transactions[i].id = id /\ ~Finished(transactions[i])
  \/ \E i \in DOMAIN bursts : bursts[i].id = id /\ ~Finished(bursts[i])

EveryRequestFinishes == \A id \in 0 .. (MaxId - 1) : Waiting(id) ~> ~Waiting(id)

(* The entries of both tables, without how they wait.                      *)
View(entry) ==
  [request |-> entry.request, done |-> entry.beat, data |-> entry.data,
   failed |-> entry.phase.state = "Failed"]

Open ==
  [id \in Ids(transactions) \cup Ids(bursts) |->
     IF id \in Ids(transactions)
     THEN View(transactions[IndexOf(transactions, id)])
     ELSE View(bursts[IndexOf(bursts, id)])]

Contract == INSTANCE BusContract
  WITH open <- Open, Requests <- AccessRequests \cup BurstRequests

(* The memory map keeps the bus contract: whatever mixture of polled       *)
(* accesses, submitted transactions, bursts, early advances and ticks, the *)
(* tables only ever do to the words what their requests ask for, beat by   *)
(* beat, before the answer.                                                *)
KeepsBusContract == Contract!Spec
=============================================================================
