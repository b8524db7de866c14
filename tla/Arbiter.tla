------------------------------ MODULE Arbiter ------------------------------
(***************************************************************************)
(* ArbiterBus over any lower bus: masters hand over requests, the lower    *)
(* bus accepts, postpones (Busy) or refuses each, and answers the accepted *)
(* ones in any order.  A request is its number among the requests of its   *)
(* master; what it reads or writes plays no part in arbitration.           *)
(*                                                                         *)
(* The masters are the environment.  Whether request() would answer Some   *)
(* is the variable wants; a master may change its mind when it issues a    *)
(* request or receives a response, and may start wanting at any time.  The *)
(* CPU side (a core, or the cache below it) makes one attempt at an access *)
(* or a burst in each cycle, after the tick, until it is not refused.      *)
(***************************************************************************)
EXTENDS ArbiterQueue

CONSTANTS
  Latencies,    \* ticks the lower bus may take for an accepted request
  MaxRequests   \* bound on the requests a master issues between resets

RequestType == [master : Masters, number : 1 .. MaxRequests]
EntryType == [master : Masters, number : 1 .. MaxRequests, completion : {None, "Answered"}]
ResponseType == [number : 1 .. MaxRequests, refused : BOOLEAN]

ASSUME BoundsAssumption ==
  /\ Latencies \subseteq Nat \ {0}
  /\ Latencies # {}
  /\ MaxRequests \in Nat \ {0}
  /\ None \notin RequestType

VARIABLES
  next_master_index,
  pending_request,      \* None or [master, number]
  in_flight_requests,   \* sequence of [master, number, completion]
  cpu_reserved,         \* cpu_reserved_this_cycle
  inner,                \* lower bus: ticks left for each [master, number] in it
  cpu,                  \* "idle", or "asking": the CPU side repeats an access
  wants,                \* would the master's request() answer Some
  issued,               \* ghost: how many requests each master has issued
  answered,             \* ghost: the responses each master received, in order
  overtaken             \* ghost: grants to others while a master had to wait

vars == <<next_master_index, pending_request, in_flight_requests, cpu_reserved,
          inner, cpu, wants, issued, answered, overtaken>>

Request(m, n) == [master |-> m, number |-> n]

Init ==
  /\ next_master_index = 0
  /\ pending_request = None
  /\ in_flight_requests = << >>
  /\ cpu_reserved = FALSE
  /\ inner = << >>
  /\ cpu = "idle"
  /\ wants = [m \in Masters |-> FALSE]
  /\ issued = [m \in Masters |-> 0]
  /\ answered = [m \in Masters |-> << >>]
  /\ overtaken = [m \in Masters |-> 0]

(* The software behind a master gives it something to do.                  *)
MasterWants(m) ==
  /\ ~wants[m]
  /\ issued[m] < MaxRequests
  /\ wants' = [wants EXCEPT ![m] = TRUE]
  /\ UNCHANGED <<next_master_index, pending_request, in_flight_requests, cpu_reserved,
                 inner, cpu, issued, answered, overtaken>>

(* The CPU side starts an access.                                          *)
CpuAsks ==
  /\ cpu = "idle"
  /\ cpu' = "asking"
  /\ UNCHANGED <<next_master_index, pending_request, in_flight_requests, cpu_reserved,
                 inner, wants, issued, answered, overtaken>>

-----------------------------------------------------------------------------
(* One clock tick.                                                         *)

(* inner.tick(): the requests the lower bus answers now, and the others.   *)
Answers == {r \in DOMAIN inner : inner[r] = 1}

InnerLeft == [r \in DOMAIN inner \ Answers |-> inner[r] - 1]

(* First loop of poll_in_flight_requests: take what the lower bus answers. *)
PolledHeadOnly ==
  [i \in DOMAIN in_flight_requests |->
     LET e == in_flight_requests[i]
         r == Request(e.master, e.number)
     IN  IF i = 1 /\ r \in Answers THEN [e EXCEPT !.completion = "Answered"] ELSE e]

Polled ==
  [i \in DOMAIN in_flight_requests |->
     LET e == in_flight_requests[i]
         r == Request(e.master, e.number)
     IN  IF e.completion = None /\ r \in Answers
         THEN [e EXCEPT !.completion = "Answered"] ELSE e]

(* The responses that reach each master in one poll.                       *)
ResponsesTo(m, delivered) ==
  LET mine == At(delivered, {n \in DOMAIN delivered : delivered[n].master = m})
  IN  [n \in DOMAIN mine |-> [number |-> mine[n].number, refused |-> FALSE]]

(* try_submit_pending_request: the request, the queue it joins, what is    *)
(* left in the lower bus and the answers so far.  A refusal goes straight  *)
(* to the master.                                                          *)
TrySubmitKeepingPending(pending, queue, lower, responses) ==
  /\ pending_request' \in {None, pending}
  /\ in_flight_requests' =
       Append(queue, [master |-> pending.master, number |-> pending.number,
                      completion |-> None])
  /\ inner' = [r \in DOMAIN lower \cup {pending} |-> 1]
  /\ answered' = responses

TrySubmit(pending, queue, lower, responses) ==
  \/ (* Ok *)
     /\ pending_request' = None
     /\ in_flight_requests' =
          Append(queue, [master |-> pending.master, number |-> pending.number,
                         completion |-> None])
     /\ \E latency \in Latencies :
          inner' = [r \in DOMAIN lower \cup {pending} |->
                      IF r = pending THEN latency ELSE lower[r]]
     /\ answered' = responses
  \/ (* Busy *)
     /\ pending_request' = pending
     /\ in_flight_requests' = queue
     /\ inner' = lower
     /\ answered' = responses
  \/ (* any other error *)
     /\ pending_request' = None
     /\ in_flight_requests' = queue
     /\ inner' = lower
     /\ answered' = [responses EXCEPT ![pending.master] =
                       Append(@, [number |-> pending.number, refused |-> TRUE])]

(* What the masters may want once those of the set moved have heard a      *)
(* response or issued a request, with count requests issued by each.       *)
MayChangeMind(moved, before, count) ==
  {w \in [Masters -> BOOLEAN] :
     /\ \A m \in Masters \ moved : w[m] = before[m]
     /\ \A m \in Masters : w[m] => count[m] < MaxRequests}

(* A tick with a request still to be submitted: nobody else is asked.      *)
Resubmit(queue, lower, responses, heard) ==
  /\ pending_request # None
  /\ cpu_reserved' = TRUE
  /\ TrySubmit(pending_request, queue, lower, responses)
  /\ wants' \in MayChangeMind(heard \cup {pending_request.master}, wants, issued)
  /\ UNCHANGED <<next_master_index, issued, overtaken>>

Willing(queue, wanting) ==
  {m \in Masters : wanting[m] /\ Outstanding(m, None, queue) < Window[m]}

NextTurnUnwrapped(m) == m + 1

NextTurn(m) == (m + 1) % MasterCount

Grant(queue, lower, responses, wanting) ==
  LET willing == Willing(queue, wanting)
      m == Selected(next_master_index, willing)
  IN  /\ pending_request = None
      /\ willing # {}
      /\ next_master_index' = NextTurn(m)
      /\ cpu_reserved' = TRUE
      /\ issued' = [issued EXCEPT ![m] = @ + 1]
      /\ overtaken' = [other \in Masters |->
                         IF other \in willing \ {m} THEN overtaken[other] + 1 ELSE 0]
      /\ TrySubmit(Request(m, issued[m] + 1), queue, lower, responses)
      /\ wants' \in MayChangeMind({m}, wanting, [issued EXCEPT ![m] = @ + 1])

IdleStillReserved(queue, lower, responses, wanting) ==
  /\ pending_request = None
  /\ Willing(queue, wanting) = {}
  /\ pending_request' = None
  /\ in_flight_requests' = queue
  /\ inner' = lower
  /\ answered' = responses
  /\ wants' = wanting
  /\ overtaken' = [m \in Masters |-> 0]
  /\ UNCHANGED <<next_master_index, issued, cpu_reserved>>

Idle(queue, lower, responses, wanting) ==
  /\ pending_request = None
  /\ Willing(queue, wanting) = {}
  /\ cpu_reserved' = FALSE
  /\ pending_request' = None
  /\ in_flight_requests' = queue
  /\ inner' = lower
  /\ answered' = responses
  /\ wants' = wanting
  /\ overtaken' = [m \in Masters |-> 0]
  /\ UNCHANGED <<next_master_index, issued>>

(* tick().  Each \E over a one-element set names a value of the tick.      *)
ArbiterTick ==
  \E queue \in {Undelivered(Polled)}, delivered \in {Delivered(Polled)},
     lower \in {InnerLeft} :
  \E responses \in {[m \in Masters |-> answered[m] \o ResponsesTo(m, delivered)]},
     heard \in {{delivered[n].master : n \in DOMAIN delivered}} :
    \/ Resubmit(queue, lower, responses, heard)
    \/ \E wanting \in MayChangeMind(heard, wants, issued) :
         \/ Grant(queue, lower, responses, wanting)
         \/ Idle(queue, lower, responses, wanting)

(* ensure_cpu_slot: refused in a cycle in which a master was served, else  *)
(* passed on to the lower bus.                                             *)
CpuAfter(reserved) == IF reserved THEN cpu ELSE "idle"

(* A cycle: tick(), then the attempt of the CPU side.                      *)
Tick == ArbiterTick /\ cpu' = CpuAfter(cpu_reserved')

(* reset(): the lower bus resets the devices behind it, the masters among  *)
(* them (the DMA controller is a mapped device as well as a master).       *)
Reset ==
  /\ next_master_index' = 0
  /\ pending_request' = None
  /\ in_flight_requests' = << >>
  /\ cpu_reserved' = FALSE
  /\ inner' = << >>
  /\ cpu' = "idle"
  /\ wants' = [m \in Masters |-> FALSE]
  /\ issued' = [m \in Masters |-> 0]
  /\ answered' = [m \in Masters |-> << >>]
  /\ overtaken' = [m \in Masters |-> 0]

Next == Tick \/ Reset \/ CpuAsks \/ \E m \in Masters : MasterWants(m)

(* The machine ticks forever, and the lower bus does not answer Busy       *)
(* forever: MemoryMap accepts or refuses every request at once.            *)
LowerBusTakesRequests == []<>(pending_request = None)

Spec == Init /\ [][Next]_vars /\ WF_vars(Tick) /\ LowerBusTakesRequests

-----------------------------------------------------------------------------
TypeOK ==
  /\ next_master_index \in Masters
  /\ pending_request \in RequestType \cup {None}
  /\ in_flight_requests \in Seq(EntryType)
  /\ cpu_reserved \in BOOLEAN
  /\ inner \in [DOMAIN inner -> Nat \ {0}]
  /\ DOMAIN inner \subseteq RequestType
  /\ cpu \in {"idle", "asking"}
  /\ wants \in [Masters -> BOOLEAN]
  /\ issued \in [Masters -> 0 .. MaxRequests]
  /\ answered \in [Masters -> Seq(ResponseType)]
  /\ overtaken \in [Masters -> Nat]

(* Every response a master receives for a request the lower bus accepted   *)
(* comes after those for its earlier accepted requests, however the lower  *)
(* bus reorders its answers (poll_in_flight_requests).                     *)
AcceptedInOrder ==
  \A m \in Masters : \A i, j \in DOMAIN answered[m] :
    /\ i < j
    /\ ~answered[m][i].refused
    /\ ~answered[m][j].refused
    => answered[m][i].number < answered[m][j].number

(* No request is lost, answered twice or answered and still held: the      *)
(* requests issued by a master are exactly those answered, in flight or    *)
(* pending, each in one place (try_submit_pending_request clears pending   *)
(* exactly when it pushes or answers), and no more are unanswered than the *)
(* window the master asked for (select_next_request).                      *)
EachRequestInOnePlace ==
  \A m \in Masters :
    LET mine == {i \in DOMAIN in_flight_requests : in_flight_requests[i].master = m}
        done == {answered[m][i].number : i \in DOMAIN answered[m]}
        held == {in_flight_requests[i].number : i \in mine}
        waiting == {n \in 1 .. MaxRequests : pending_request = Request(m, n)}
    IN  /\ \A i, j \in DOMAIN answered[m] :
             answered[m][i].number = answered[m][j].number => i = j
        /\ \A i, j \in mine :
             in_flight_requests[i].number = in_flight_requests[j].number => i = j
        /\ done \cap held = {} /\ (done \cup held) \cap waiting = {}
        /\ done \cup held \cup waiting = 1 .. issued[m]
        /\ Outstanding(m, pending_request, in_flight_requests) <= Window[m]

(* Round robin: a master that could issue a request is passed over at most *)
(* once for each other master, whatever the windows, the responses and the *)
(* changes of mind of the others (select_next_request moves the turn only  *)
(* past the master it grants).                                             *)
NoStarvation == \A m \in Masters : overtaken[m] < MasterCount

(* Every request a master issues is answered, unless a reset discards it.  *)
EveryRequestAnswered ==
  \A m \in Masters : \A n \in 1 .. MaxRequests :
    (issued[m] >= n) ~> \/ issued[m] < n
                        \/ \E i \in DOMAIN answered[m] : answered[m][i].number = n

(* The CPU side has no turn of its own, and is refused in every cycle that *)
(* serves a master; but a master's demand ends, each of its requests costs *)
(* the CPU side a finite number of cycles, and no reservation outlives its *)
(* cycle: the access is passed on in the end (ensure_cpu_slot, tick).      *)
CpuGetsItsSlot == cpu = "asking" ~> cpu = "idle"

(* "Responses are delivered back to each master in submission order even   *)
(* when several requests are outstanding" (README.md of the system crate). *)
ResponsesInSubmissionOrder ==
  \A m \in Masters : \A i, j \in DOMAIN answered[m] :
    i < j => answered[m][i].number < answered[m][j].number
=============================================================================
