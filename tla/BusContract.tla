---------------------------- MODULE BusContract ----------------------------
(***************************************************************************)
(* What a word bus promises its masters, without tables, phases, latencies *)
(* or the polling path: an accepted request performs its beats in address  *)
(* order, each atomically on the current words, at some time before it is  *)
(* answered; the answer carries what its reads found; nothing else changes *)
(* a word.                                                                 *)
(***************************************************************************)
EXTENDS Naturals, SequencesExt

CONSTANTS
  ReadOnly,      \* words that reject a store: the request fails there
  Requests,      \* [kind, addr, data], a beat for each element of data
  PowerOnWords   \* the words after reset

VARIABLES
  mem,   \* the words
  open   \* accepted and unanswered requests, by identifier

vars == <<mem, open>>

Complete(o) == o.failed \/ o.done = Len(o.request.data)

Unfinished == {id \in DOMAIN open : ~Complete(open[id])}

(* The next beat of an open request o on the words m: what becomes of the  *)
(* request, and of the words.                                              *)
BeatWord(o) == o.request.addr + o.done

Refused(o) == o.request.kind = "store" /\ BeatWord(o) \in ReadOnly

Served(o, m) ==
  [request |-> o.request,
   done |-> IF Refused(o) THEN o.done ELSE o.done + 1,
   data |-> IF o.request.kind = "store" THEN o.data
            ELSE [o.data EXCEPT ![o.done + 1] = m[BeatWord(o)]],
   failed |-> Refused(o)]

Stored(o, m) ==
  IF o.request.kind = "store" /\ ~Refused(o)
  THEN [m EXCEPT ![BeatWord(o)] = o.request.data[o.done + 1]] ELSE m

(* Request id performs its next beat, in a state s = [mem, open].          *)
Beat(s, id) ==
  [mem |-> Stored(s.open[id], s.mem),
   open |-> [s.open EXCEPT ![id] = Served(@, s.mem)]]

(* The requests take turns in the given order; the ready ones perform a    *)
(* beat each.                                                              *)
Turns(s, order, ready) ==
  LET after[n \in 0 .. Len(order)] ==
        IF n = 0 THEN s
        ELSE IF order[n] \in ready THEN Beat(after[n - 1], order[n])
        ELSE after[n - 1]
  IN  after[Len(order)]

Init == mem = PowerOnWords /\ open = << >>

Accept(request) ==
  /\ \E id \in DOMAIN open' \ DOMAIN open :
       open' = [i \in DOMAIN open \cup {id} |->
                  IF i = id
                  THEN [request |-> request, done |-> 0, data |-> request.data, failed |-> FALSE]
                  ELSE open[i]]
  /\ UNCHANGED mem

(* Some of the open requests perform one beat each, in some order.         *)
Progress ==
  \E order \in SetToSeqs(DOMAIN open), ready \in SUBSET Unfinished :
    [mem |-> mem', open |-> open'] = Turns([mem |-> mem, open |-> open], order, ready)

(* A one-beat store accepted, performed and answered within one call.      *)
StoreAtOnce(request) ==
  /\ request.kind = "store"
  /\ request.addr \notin ReadOnly
  /\ mem' = [mem EXCEPT ![request.addr] = request.data[1]]
  /\ UNCHANGED open

Answer(id) ==
  /\ Complete(open[id])
  /\ open' = [i \in DOMAIN open \ {id} |-> open[i]]
  /\ UNCHANGED mem

Reset == mem' = PowerOnWords /\ open' = << >>

Next ==
  \/ Progress
  \/ \E r \in Requests : Accept(r) \/ StoreAtOnce(r)
  \/ \E id \in DOMAIN open : Answer(id)
  \/ Reset

Spec == Init /\ [][Next]_vars
=============================================================================
