---------------------------- MODULE ArbiterQueue ----------------------------
(***************************************************************************)
(* The pure part of ArbiterBus: whose turn it is, who may still ask, and   *)
(* which of the requests in flight can be answered.  An entry of the queue *)
(* in_flight_requests is a record with at least the fields master and      *)
(* completion, where completion = None until the lower bus has answered.   *)
(***************************************************************************)
EXTENDS Naturals, Sequences, FiniteSetsExt

CONSTANTS
  None,         \* an absent Option
  MasterCount,  \* masters.len(); masters are 0 .. MasterCount - 1
  Window        \* [Masters -> Nat]: max_outstanding_requests().max(1)

Masters == 0 .. (MasterCount - 1)

ASSUME MastersAssumption ==
  /\ MasterCount \in Nat \ {0}
  /\ Window \in [Masters -> Nat \ {0}]

(* outstanding_request_count_for_master, with the request waiting to be    *)
(* submitted counted as well.                                              *)
Outstanding(m, pending, queue) ==
  (IF pending # None /\ pending.master = m THEN 1 ELSE 0)
    + Cardinality({i \in DOMAIN queue : queue[i].master = m})

DeliverAnyAnswered(queue) == {i \in DOMAIN queue : queue[i].completion # None}

(* The second loop of poll_in_flight_requests removes an answered entry    *)
(* once no entry of the same master is left before it: what goes is, for   *)
(* each master, the longest answered prefix of its entries.                *)
Deliverable(queue) ==
  {i \in DOMAIN queue :
     \A j \in 1 .. i : queue[j].master = queue[i].master => queue[j].completion # None}

(* The entries of a queue at the given positions, in order.                *)
At(queue, positions) ==
  LET nth(n) == CHOOSE i \in positions : Cardinality({j \in positions : j <= i}) = n
  IN  [n \in 1 .. Cardinality(positions) |-> queue[nth(n)]]

Delivered(queue) == At(queue, Deliverable(queue))

Undelivered(queue) == At(queue, DOMAIN queue \ Deliverable(queue))

(* How many masters are asked before m when the turn is at index next.     *)
Distance(next, m) == (m + MasterCount - next) % MasterCount

(* select_next_request: of the masters with a free slot that answer        *)
(* request() with something, the first one from the turn on.               *)
FirstAlways(next, willing) == CHOOSE m \in willing : \A other \in willing : m <= other

Selected(next, willing) ==
  CHOOSE m \in willing : \A other \in willing : Distance(next, m) <= Distance(next, other)
=============================================================================
