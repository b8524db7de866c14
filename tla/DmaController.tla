--------------------------- MODULE DmaController ---------------------------
(***************************************************************************)
(* The DMA engine as a device and as a bus master: a record of its         *)
(* registers and of the transfer under way, and one operator for each      *)
(* method that changes it.  Addresses and lengths count words.  The route  *)
(* register, which only chooses the interrupt line, is left out.           *)
(* DmaSystem puts the engine on the arbiter and the memory map.            *)
(***************************************************************************)
EXTENDS Naturals, Sequences, FiniteSetsExt

CONSTANTS
  MaxBurstWords,          \* MAX_BURST_WORDS
  MaxOutstandingRequests, \* MAX_OUTSTANDING_REQUESTS
  NoTransfer              \* active = None

ASSUME EngineAssumption ==
  /\ MaxBurstWords \in Nat \ {0}
  /\ MaxOutstandingRequests \in Nat \ {0}

(* new() and reset().                                                      *)
PowerOnDma ==
  [source |-> 0, destination |-> 0, length_words |-> 0, transferred_words |-> 0,
   irq_enabled |-> FALSE, done |-> FALSE, error |-> FALSE, active |-> NoTransfer]

IsBusy(dma) == dma.active # NoTransfer

(* pending_interrupts: the line is up.                                     *)
PendingInterrupt(dma) == dma.irq_enabled /\ (dma.done \/ dma.error)

StartWhileBusy(dma) ==
  [dma EXCEPT
     !.done = FALSE,
     !.error = dma.length_words = 0,
     !.transferred_words = 0,
     !.active = IF dma.length_words = 0 THEN NoTransfer
                ELSE [next_source |-> dma.source,
                      next_destination |-> dma.destination,
                      remaining_words |-> dma.length_words,
                      ready_writes |-> << >>,
                      issued_requests |-> << >>]]

StartKeepingDone(dma) ==
  IF IsBusy(dma) THEN dma ELSE [StartWhileBusy(dma) EXCEPT !.done = dma.done]

(* Ignored while a transfer is under way; a length of zero is an error.    *)
StartTransfer(dma) ==
  IF IsBusy(dma) THEN dma
  ELSE [dma EXCEPT
          !.done = FALSE,
          !.error = dma.length_words = 0,
          !.transferred_words = 0,
          !.active = IF dma.length_words = 0 THEN NoTransfer
                     ELSE [next_source |-> dma.source,
                           next_destination |-> dma.destination,
                           remaining_words |-> dma.length_words,
                           ready_writes |-> << >>,
                           issued_requests |-> << >>]]

(* A write of the control byte with the given bits set: the status bits    *)
(* acknowledge, and the interrupt enable takes whatever was written.       *)
ApplyControlByte(dma, bits) ==
  LET acknowledged == [dma EXCEPT
        !.irq_enabled = "irq" \in bits,
        !.done = @ /\ "done" \notin bits,
        !.error = @ /\ "error" \notin bits]
  IN  IF "start" \in bits THEN StartTransfer(acknowledged) ELSE acknowledged

ReadBursts(active) ==
  {i \in DOMAIN active.issued_requests : active.issued_requests[i].kind = "load"}

(* Bursts read, or being read, whose write has not been issued.            *)
BufferedReadBursts(active) ==
  Len(active.ready_writes) + Cardinality(ReadBursts(active))

IsComplete(active) ==
  /\ active.remaining_words = 0
  /\ active.ready_writes = << >>
  /\ active.issued_requests = << >>

(* What request() answers next: a write when there is nothing left to read *)
(* or no room to read ahead, a read while there is, else a write.          *)
Room(active) ==
  active.remaining_words > 0 /\ BufferedReadBursts(active) < MaxOutstandingRequests

NextKindReadsFirst(dma) ==
  CASE ~IsBusy(dma) -> "nothing"
    [] IsBusy(dma) /\ Room(dma.active) -> "load"
    [] IsBusy(dma) /\ dma.active.remaining_words = 0 /\ dma.active.ready_writes # << >> ->
         "store"
    [] OTHER -> "nothing"

NextKind(dma) ==
  CASE ~IsBusy(dma) -> "nothing"
    [] IsBusy(dma) /\ Room(dma.active) -> "load"
    [] IsBusy(dma) /\ ~Room(dma.active) /\ dma.active.ready_writes # << >> -> "store"
    [] OTHER -> "nothing"

(* The burst that request() hands to the arbiter.                          *)
ReadBurstFull(dma) ==
  [kind |-> "load", addr |-> dma.active.next_source, beats |-> MaxBurstWords]

ReadBurst(dma) ==
  [kind |-> "load", addr |-> dma.active.next_source,
   beats |-> IF dma.active.remaining_words < MaxBurstWords
             THEN dma.active.remaining_words ELSE MaxBurstWords]

AfterReadIssued(dma) ==
  LET beats == ReadBurst(dma).beats
  IN  [dma EXCEPT
         !.active.next_source = @ + beats,
         !.active.next_destination = @ + beats,
         !.active.remaining_words = @ - beats,
         !.active.issued_requests =
            Append(@, [kind |-> "load", destination |-> dma.active.next_destination,
                       beats |-> beats])]

WriteBurst(dma) ==
  LET write == Head(dma.active.ready_writes)
  IN  [kind |-> "store", addr |-> write.destination, words |-> write.words]

AfterWriteIssued(dma) ==
  LET write == Head(dma.active.ready_writes)
  IN  [dma EXCEPT
         !.active.ready_writes = Tail(@),
         !.active.issued_requests =
            Append(@, [kind |-> "store", destination |-> write.destination,
                       beats |-> Len(write.words)])]

(* The transfer is dropped with whatever it still had outstanding.         *)
Abort(dma) == [dma EXCEPT !.active = NoTransfer, !.error = TRUE]

(* The front of the issued requests is answered as it should be.           *)
Expected(issued, response) ==
  response.kind = issued.kind /\ Len(response.words) = issued.beats

Settle(dma) ==
  IF IsComplete(dma.active) THEN [dma EXCEPT !.active = NoTransfer, !.done = TRUE] ELSE dma

(* on_response: the response is taken to be for the oldest request of the  *)
(* transfer now under way.                                                 *)
OnResponseDoneEarly(dma, response) ==
  IF ~IsBusy(dma) THEN dma
  ELSE IF dma.active.issued_requests = << >> THEN Abort(dma)
  ELSE LET issued == Head(dma.active.issued_requests)
           popped == [dma EXCEPT !.active.issued_requests = Tail(@)]
       IN  IF ~Expected(issued, response) THEN Abort(dma)
           ELSE IF issued.kind = "load"
           THEN [popped EXCEPT !.active.ready_writes =
                   Append(@, [destination |-> issued.destination, words |-> response.words])]
           ELSE IF dma.active.remaining_words = 0
           THEN [dma EXCEPT !.active = NoTransfer, !.done = TRUE,
                            !.transferred_words = @ + issued.beats]
           ELSE [popped EXCEPT !.transferred_words = @ + issued.beats]

OnResponse(dma, response) ==
  IF ~IsBusy(dma) THEN dma
  ELSE IF dma.active.issued_requests = << >> THEN Abort(dma)
  ELSE LET issued == Head(dma.active.issued_requests)
           popped == [dma EXCEPT !.active.issued_requests = Tail(@)]
       IN  CASE ~Expected(issued, response) -> Abort(dma)
             [] Expected(issued, response) /\ issued.kind = "load" ->
                  Settle([popped EXCEPT !.active.ready_writes =
                    Append(@, [destination |-> issued.destination, words |-> response.words])])
             [] Expected(issued, response) /\ issued.kind = "store" ->
                  Settle([popped EXCEPT !.transferred_words = @ + issued.beats])
=============================================================================
