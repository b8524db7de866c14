------------------------ MODULE MemoryMapRefinement ------------------------
(***************************************************************************)
(* The memory map implements the bus contract, for every device layout,    *)
(* latency and set of requests: each step of the tables is a step of the   *)
(* contract on the requests they hold, or changes nothing of it.           *)
(***************************************************************************)
EXTENDS MemoryMapProofs, FiniteSetTheorems

-----------------------------------------------------------------------------
(* Taking turns. *)

(* States A[0] to A[N], each of which follows from the one before it by    *)
(* the turn of one request.                                                *)
TakeTurns(A, N, order, ready) ==
  /\ A = [n \in 0 .. N |-> A[n]]
  /\ Len(order) = N
  /\ \A n \in 1 .. N : A[n] = IF order[n] \in ready THEN Contract!Beat(A[n - 1], order[n])
                               ELSE A[n - 1]

(* Such states end where Turns does.                                       *)
LEMMA TurnsEnd ==
  ASSUME NEW N \in Nat, NEW order, NEW ready, NEW A, TakeTurns(A, N, order, ready)
  PROVE  Contract!Turns(A[0], order, ready) = A[N]
PROOF
<1> USE DEF TakeTurns
<1> DEFINE Follows(f) == f = [n \in 0 .. Len(order) |->
                                IF n = 0 THEN A[0]
                                ELSE IF order[n] \in ready
                                THEN Contract!Beat(f[n - 1], order[n])
                                ELSE f[n - 1]]
           f == CHOOSE g : Follows(g)
           Differ == {n \in 0 .. N : f[n] # A[n]}
           R == OpToRel(<, Nat)
<1>1. Follows(A)
  <2>1. \A n \in 0 .. N : A[n] = IF n = 0 THEN A[0]
                                 ELSE IF order[n] \in ready
                                 THEN Contract!Beat(A[n - 1], order[n])
                                 ELSE A[n - 1]
    <3> SUFFICES ASSUME NEW n \in 0 .. N, n # 0
                 PROVE  A[n] = IF order[n] \in ready THEN Contract!Beat(A[n - 1], order[n])
                               ELSE A[n - 1]
      OBVIOUS
    <3>1. n \in 1 .. N
      OBVIOUS
    <3> QED BY <3>1
  <2> QED BY <2>1
<1>2. Follows(f)
  <2> HIDE DEF Follows
  <2> QED BY <1>1
<1>3. Contract!Turns(A[0], order, ready) = f[Len(order)]
  BY DEF Contract!Turns
<1>4. \A n \in 0 .. N : f[n] = IF n = 0 THEN A[0]
                               ELSE IF order[n] \in ready
                               THEN Contract!Beat(f[n - 1], order[n])
                               ELSE f[n - 1]
  <2> HIDE DEF f
  <2> QED BY <1>2
<1> HIDE DEF f
<1>5. Differ = {}
  <2> SUFFICES ASSUME Differ # {} PROVE FALSE
    OBVIOUS
  <2>0. Differ \subseteq Nat
    OBVIOUS
  <2>1. IsWellFoundedOn(R, Nat)
    BY NatLessThanWellFounded
  <2>2. PICK x \in Differ : \A y \in Differ : ~(<<y, x>> \in R)
    <3> HIDE DEF R, Differ
    <3> QED BY <2>0, <2>1, WFMin
  <2>3. x \in 0 .. N /\ f[x] # A[x] /\ x # 0
    BY <1>4
  <2>4. x - 1 \in 0 .. N /\ x \in 1 .. N /\ <<x - 1, x>> \in R
    BY <2>3 DEF OpToRel
  <2>5. f[x - 1] = A[x - 1]
    BY <2>2, <2>4
  <2>6. A[x] = IF order[x] \in ready THEN Contract!Beat(A[x - 1], order[x]) ELSE A[x - 1]
    BY <2>4
  <2>7. f[x] = IF order[x] \in ready THEN Contract!Beat(f[x - 1], order[x]) ELSE f[x - 1]
    BY <1>4, <2>3
  <2> QED BY <2>3, <2>5, <2>6, <2>7
<1> QED BY <1>3, <1>5

(* Naming N things once each puts their names into an order.               *)
LEMMA Orders ==
  ASSUME NEW N \in Nat, NEW names, names = [k \in 1 .. N |-> names[k]],
         \A j, k \in 1 .. N : names[j] = names[k] => j = k
  PROVE  names \in Contract!SetToSeqs({names[k] : k \in 1 .. N})
PROOF
<1> DEFINE S == {names[k] : k \in 1 .. N}
<1>1. names \in Bijection(1 .. N, S)
  <2>1. names \in [1 .. N -> S]
    OBVIOUS
  <2> QED BY <2>1 DEF Bijection, Injection, Surjection, IsInjective
<1>2. IsFiniteSet(1 .. N) /\ Cardinality(1 .. N) = N
  <2>1. 1 \in Int /\ N \in Int
    OBVIOUS
  <2>2. IsFiniteSet(1 .. N) /\ Cardinality(1 .. N) = IF 1 > N THEN 0 ELSE N - 1 + 1
    BY <2>1, FS_Interval
  <2>3. (IF 1 > N THEN 0 ELSE N - 1 + 1) = N
    OBVIOUS
  <2> QED BY <2>2, <2>3
<1>3. Cardinality(S) = N
  <2>1. ExistsBijection(1 .. N, S)
    BY <1>1 DEF ExistsBijection
  <2> HIDE DEF S
  <2> QED BY <1>2, <2>1, FS_Bijection
<1>4. names \in [1 .. N -> S] /\ \A i, j \in 1 .. N : i # j => names[i] # names[j]
  BY <1>1
<1> HIDE DEF S
<1>5. Contract!Cardinality(S) = Cardinality(S)
  BY DEF Contract!Cardinality, Cardinality
<1> QED BY <1>3, <1>4, <1>5 DEF Contract!SetToSeqs, S

(* The place of an identifier among N entries.                             *)
Place(E, N, id) == CHOOSE k \in 1 .. N : E[k].id = id

IdsOf(E, N) == {E[k].id : k \in 1 .. N}

(* What the contract sees of N entries.                                    *)
Seen(E, N) == [id \in IdsOf(E, N) |-> View(E[Place(E, N, id)])]

(* N entries with names of their own take turns: those in R serve a beat   *)
(* on the words the ones before them left, the others only wait.           *)
TurnByTurn(E, F, m, N, R) ==
  /\ R \subseteq 1 .. N
  /\ \A k \in 1 .. N : F[k].id = E[k].id
  /\ \A j, k \in 1 .. N : E[j].id = E[k].id => j = k
  /\ \A k \in R : /\ ~Contract!Complete(View(E[k]))
                   /\ View(F[k]) = Contract!Served(View(E[k]), m[k - 1])
                   /\ m[k] = Contract!Stored(View(E[k]), m[k - 1])
  /\ \A k \in (1 .. N) \ R : View(F[k]) = View(E[k]) /\ m[k] = m[k - 1]

(* This is progress of the contract.                                       *)
LEMMA EntriesProgress ==
  ASSUME NEW N \in Nat, NEW E, NEW F, NEW m, NEW R, TurnByTurn(E, F, m, N, R)
  PROVE  \E order \in Contract!SetToSeqs(IdsOf(E, N)),
            ready \in SUBSET {id \in IdsOf(E, N) : ~Contract!Complete(Seen(E, N)[id])} :
           [mem |-> m[N], open |-> Seen(F, N)]
             = Contract!Turns([mem |-> m[0], open |-> Seen(E, N)], order, ready)
PROOF
<1> DEFINE ids == IdsOf(E, N)
           order == [k \in 1 .. N |-> E[k].id]
           ready == {E[k].id : k \in R}
           P(id) == Place(E, N, id)
           Mixed(n) == [id \in ids |-> IF P(id) <= n THEN View(F[P(id)]) ELSE View(E[P(id)])]
           A == [n \in 0 .. N |-> [mem |-> m[n], open |-> Mixed(n)]]
<1> USE DEF TurnByTurn
<1>1. ASSUME NEW k \in 1 .. N PROVE E[k].id \in ids /\ P(E[k].id) = k
  <2>1. \A j \in 1 .. N : E[j].id = E[k].id => j = k
    OBVIOUS
  <2> QED BY <2>1 DEF IdsOf, Place
<1>2. ASSUME NEW id \in ids PROVE P(id) \in 1 .. N /\ E[P(id)].id = id
  BY DEF IdsOf, Place
<1>3. Seen(F, N) = Mixed(N)
  <2>1. IdsOf(F, N) = ids
    BY DEF IdsOf
  <2>2. \A id : Place(F, N, id) = P(id)
    <3>1. \A id : \A k \in 1 .. N : F[k].id = id <=> E[k].id = id
      OBVIOUS
    <3> QED BY <3>1 DEF Place
  <2>3. \A id \in ids : P(id) <= N
    BY <1>2
  <2> HIDE DEF ids, P
  <2> QED BY <2>1, <2>2, <2>3 DEF Seen
<1>4. Seen(E, N) = Mixed(0)
  <2>1. \A id \in ids : ~(P(id) <= 0)
    BY <1>2
  <2> HIDE DEF P
  <2> QED BY <2>1 DEF Seen, P
<1>5. order \in Contract!SetToSeqs(ids)
  <2>1. /\ order = [k \in 1 .. N |-> order[k]]
        /\ \A j, k \in 1 .. N : order[j] = order[k] => j = k
        /\ ids = {order[k] : k \in 1 .. N}
    BY DEF IdsOf
  <2> HIDE DEF order, ids
  <2> QED BY <2>1, Orders
<1>6. ready \in SUBSET {id \in ids : ~Contract!Complete(Seen(E, N)[id])}
  <2> SUFFICES ASSUME NEW k \in R
               PROVE  E[k].id \in ids /\ ~Contract!Complete(Seen(E, N)[E[k].id])
    OBVIOUS
  <2>1. k \in 1 .. N
    OBVIOUS
  <2>2. Seen(E, N)[E[k].id] = View(E[k])
    BY <1>1, <2>1 DEF Seen
  <2> QED BY <1>1, <2>1, <2>2
<1>7. ASSUME NEW n \in 1 .. N
      PROVE  A[n] = IF order[n] \in ready THEN Contract!Beat(A[n - 1], order[n]) ELSE A[n - 1]
  <2> DEFINE id == E[n].id
  <2>1. /\ order[n] = id /\ id \in ids /\ P(id) = n
        /\ n \in 0 .. N /\ n - 1 \in 0 .. N /\ ~(n <= n - 1) /\ n <= n
    BY <1>1
  <2>2. order[n] \in ready <=> n \in R
    <3>1. \A k \in R : k \in 1 .. N /\ (E[k].id = E[n].id => k = n)
      OBVIOUS
    <3> QED BY <2>1, <3>1
  <2>3. /\ A[n] = [mem |-> m[n], open |-> Mixed(n)]
        /\ A[n - 1] = [mem |-> m[n - 1], open |-> Mixed(n - 1)]
    BY <2>1
  <2>4. ASSUME NEW other \in ids, other # id
        PROVE  (P(other) <= n) <=> (P(other) <= n - 1)
    <3>1. P(other) \in 1 .. N /\ E[P(other)].id = other
      BY <1>2
    <3>2. P(other) # n
      BY <2>4, <3>1
    <3> HIDE DEF P
    <3> QED BY <3>1, <3>2
  <2>5. Mixed(n - 1)[id] = View(E[n]) /\ Mixed(n)[id] = View(F[n])
    <3> HIDE DEF P, ids, id
    <3> QED BY <2>1
  <2>6. Mixed(n) = [Mixed(n - 1) EXCEPT ![id] = View(F[n])]
    <3>1. \A other \in ids : Mixed(n)[other] = [Mixed(n - 1) EXCEPT ![id] = View(F[n])][other]
      <4> TAKE other \in ids
      <4>1. CASE other = id
        <5> HIDE DEF P, ids, id
        <5> QED BY <2>1, <2>5, <4>1
      <4>2. CASE other # id
        <5>1. (P(other) <= n) <=> (P(other) <= n - 1)
          BY <2>4, <4>2
        <5> HIDE DEF P, ids, id
        <5> QED BY <2>1, <4>2, <5>1
      <4> QED BY <4>1, <4>2
    <3> HIDE DEF P, ids, id
    <3> QED BY <3>1
  <2>7. CASE n \in R
    <3>1. /\ View(F[n]) = Contract!Served(View(E[n]), m[n - 1])
          /\ m[n] = Contract!Stored(View(E[n]), m[n - 1])
      BY <2>7
    <3>2. Contract!Beat(A[n - 1], id)
            = [mem |-> Contract!Stored(Mixed(n - 1)[id], m[n - 1]),
               open |-> [Mixed(n - 1) EXCEPT ![id] = Contract!Served(Mixed(n - 1)[id], m[n - 1])]]
      <4> HIDE DEF Mixed, A, id
      <4> QED BY <2>3 DEF Contract!Beat
    <3> HIDE DEF Mixed, A, id, ready, order
    <3> QED BY <2>1, <2>2, <2>3, <2>5, <2>6, <2>7, <3>1, <3>2
  <2>8. CASE n \notin R
    <3>1. View(F[n]) = View(E[n]) /\ m[n] = m[n - 1]
      BY <2>8
    <3>2. [Mixed(n - 1) EXCEPT ![id] = Mixed(n - 1)[id]] = Mixed(n - 1)
      <4> HIDE DEF P, ids, id
      <4> QED OBVIOUS
    <3> HIDE DEF Mixed, A, id, ready, order
    <3> QED BY <2>1, <2>2, <2>3, <2>5, <2>6, <2>8, <3>1, <3>2
  <2> QED BY <2>7, <2>8
<1>8. Contract!Turns(A[0], order, ready) = A[N]
  <2>1. A = [n \in 0 .. N |-> A[n]]
    OBVIOUS
  <2>2. Len(order) = N
    OBVIOUS
  <2> HIDE DEF A, order, ready
  <2>3. \A n \in 1 .. N : A[n] = IF order[n] \in ready THEN Contract!Beat(A[n - 1], order[n])
                                  ELSE A[n - 1]
    BY <1>7
  <2>4. TakeTurns(A, N, order, ready)
    BY <2>1, <2>2, <2>3 DEF TakeTurns
  <2> QED BY <2>4, TurnsEnd
<1>9. A[0] = [mem |-> m[0], open |-> Mixed(0)] /\ A[N] = [mem |-> m[N], open |-> Mixed(N)]
  OBVIOUS
<1> HIDE DEF A, order, ready, Mixed, ids
<1> QED BY <1>3, <1>4, <1>5, <1>6, <1>8, <1>9 DEF ids

-----------------------------------------------------------------------------
(* Entries and tables. *)

(* The entry performs or refuses its beat in this protocol step.           *)
Acts(e, latency) == ~Finished(e) /\ Due(e, latency)

(* A step of an entry is a beat of the contract, or a wait it cannot see.  *)
LEMMA StepIsBeat ==
  ASSUME NEW e, EntryOK(e), NEW latency, NEW m
  PROVE  LET x == Advance(e, latency, m[BeatAddr(e)])
         IN  /\ ~Finished(e) => ~Contract!Complete(View(e))
             /\ Finished(e) => Contract!Complete(View(e))
             /\ Acts(e, latency) => View(x) = Contract!Served(View(e), m)
             /\ ~Acts(e, latency) => View(x) = View(e)
             /\ Rejected(e) <=> Contract!Refused(View(e))
PROOF
<1> DEFINE x == Advance(e, latency, m[BeatAddr(e)])
<1>1. /\ e.beat \in Nat /\ Beats(e.request) \in Nat /\ e.beat <= Beats(e.request)
      /\ (e.phase.state = "Ready") <=> (e.beat = Beats(e.request))
      /\ e.phase.state \in {"Accepted", "InFlight", "Ready", "Failed"}
      /\ e = [id |-> e.id, request |-> e.request, beat |-> e.beat, data |-> e.data,
              phase |-> e.phase]
      /\ e.phase \in PhaseType
  BY DEF EntryOK, EntryType, PhaseType, RequestType, Beats
<1>2. /\ View(e).request = e.request /\ View(e).done = e.beat /\ View(e).data = e.data
      /\ View(e).failed <=> e.phase.state = "Failed"
      /\ View(e) = [request |-> e.request, done |-> e.beat, data |-> e.data,
                    failed |-> e.phase.state = "Failed"]
  BY DEF View
<1>3. Contract!BeatWord(View(e)) = BeatAddr(e)
  BY <1>2 DEF Contract!BeatWord, BeatAddr
<1>4. Rejected(e) <=> Contract!Refused(View(e))
  BY <1>2, <1>3 DEF Rejected, Contract!Refused
<1>5. Finished(e) <=> Contract!Complete(View(e))
  BY <1>1, <1>2 DEF Finished, Contract!Complete, Beats
<1>6. CASE ~Acts(e, latency)
  <2>1. CASE Finished(e)
    BY <1>4, <1>5, <1>6, <2>1 DEF Advance
  <2>2. CASE ~Finished(e)
    <3>1. x = Wait(e, latency)
      BY <1>6, <2>2 DEF Acts, Advance
    <3>2. /\ x.request = e.request /\ x.beat = e.beat /\ x.data = e.data
          /\ x.phase.state = "InFlight"
      BY <1>1, <3>1 DEF Wait
    <3>3. e.phase.state # "Failed"
      BY <2>2 DEF Finished
    <3>4. (x.phase.state = "Failed") = (e.phase.state = "Failed")
      BY <3>2, <3>3
    <3> HIDE DEF x
    <3>5. View(x) = View(e)
      BY <3>2, <3>4 DEF View
    <3> QED BY <1>4, <1>5, <1>6, <3>5 DEF x
  <2> QED BY <2>1, <2>2
<1>7. CASE Acts(e, latency)
  <2>1. ~Finished(e) /\ Due(e, latency) /\ e.phase.state # "Failed"
    BY <1>7 DEF Acts, Finished
  <2>2. (e.phase.state = "Failed") = FALSE
    BY <2>1
  <2>3. CASE Rejected(e)
    <3>1. x = [e EXCEPT !.phase = [state |-> "Failed", remaining |-> 0]]
      BY <2>1, <2>3 DEF Advance
    <3>2. /\ x.request = e.request /\ x.beat = e.beat /\ x.data = e.data
          /\ (x.phase.state = "Failed") = TRUE
      BY <1>1, <3>1
    <3>3. Contract!Served(View(e), m)
            = [request |-> e.request, done |-> e.beat, data |-> e.data, failed |-> TRUE]
      BY <1>2, <1>4, <2>3 DEF Contract!Served, Rejected
    <3> HIDE DEF x
    <3>4. View(x) = [request |-> e.request, done |-> e.beat, data |-> e.data, failed |-> TRUE]
      BY <3>2 DEF View
    <3>5. View(x) = Contract!Served(View(e), m)
      BY <3>3, <3>4
    <3> QED BY <1>4, <1>5, <1>7, <3>5 DEF x
  <2>4. CASE ~Rejected(e)
    <3>1. x = CompleteBeat(e, m[BeatAddr(e)])
      BY <2>1, <2>4 DEF Advance
    <3>2. /\ x.request = e.request /\ x.beat = e.beat + 1
          /\ x.data = IF e.request.kind = "store" THEN e.data
                      ELSE [e.data EXCEPT ![e.beat + 1] = m[BeatAddr(e)]]
          /\ (x.phase.state = "Failed") = FALSE
      BY <3>1 DEF CompleteBeat
    <3> HIDE DEF x
    <3>3. View(x) = [request |-> e.request, done |-> e.beat + 1, data |-> x.data,
                     failed |-> FALSE]
      BY <3>2 DEF View
    <3>5. Contract!Served(View(e), m)
            = [request |-> e.request, done |-> e.beat + 1, data |-> x.data, failed |-> FALSE]
      <4>1. ~Contract!Refused(View(e)) /\ Contract!Refused(View(e)) = FALSE
        BY <1>4, <2>4 DEF Contract!Refused
      <4>2. Contract!Served(View(e), m).data = x.data
        BY <1>2, <1>3, <3>2 DEF Contract!Served
      <4>3. Contract!Served(View(e), m)
              = [request |-> e.request, done |-> e.beat + 1,
                 data |-> Contract!Served(View(e), m).data, failed |-> FALSE]
        BY <1>2, <4>1 DEF Contract!Served
      <4> QED BY <4>2, <4>3
    <3>6. View(x) = Contract!Served(View(e), m)
      BY <3>3, <3>5
    <3> QED BY <1>4, <1>5, <1>7, <3>6 DEF x
  <2> QED BY <2>3, <2>4
<1> QED BY <1>6, <1>7

IsMemory(m) == m = [w \in Words |-> m[w]]

(* The words after no entry of a table.                                    *)
LEMMA NoStep ==
  ASSUME NEW table, NEW latency, NEW m, IsMemory(m)
  PROVE  MemAfter(table, latency, m, 0) = m
PROOF
<1>1. \A w : {i \in 1 .. 0 : Writes(table[i], latency[i]) /\ BeatAddr(table[i]) = w} = {}
  OBVIOUS
<1>2. MemAfter(table, latency, m, 0) = [w \in Words |-> m[w]]
  BY <1>1 DEF MemAfter
<1> QED BY <1>2 DEF IsMemory

(* The words after n entries of a table, from the words after n - 1.       *)
LEMMA StepIsStore ==
  ASSUME NEW table, TableOK(table), NEW latency, NEW m, NEW n \in 1 .. Len(table)
  PROVE  MemAfter(table, latency, m, n)
           = IF Acts(table[n], latency[n])
             THEN Contract!Stored(View(table[n]), MemAfter(table, latency, m, n - 1))
             ELSE MemAfter(table, latency, m, n - 1)
PROOF
<1> DEFINE e == table[n]
           Writers(k, w) == {i \in 1 .. k : Writes(table[i], latency[i]) /\ BeatAddr(table[i]) = w}
           Last(k, w) == table[Max(Writers(k, w))]
           before == MemAfter(table, latency, m, n - 1)
           after == MemAfter(table, latency, m, n)
<1>1. /\ Len(table) \in Nat /\ DOMAIN table = 1 .. Len(table) /\ EntryOK(e)
      /\ n \in Nat /\ n - 1 \in Nat
  BY DEF TableOK
<1>3. Writes(e, latency[n]) <=> /\ Acts(e, latency[n])
                                /\ e.request.kind = "store" /\ ~Rejected(e)
  BY DEF Writes, Executes, Acts
<1>4. ASSUME NEW w \in Words
      PROVE  after[w] = IF Writes(e, latency[n]) /\ BeatAddr(e) = w
                        THEN e.request.data[e.beat + 1] ELSE before[w]
  <2>1. /\ after[w] = IF Writers(n, w) = {} THEN m[w]
                      ELSE Last(n, w).request.data[Last(n, w).beat + 1]
        /\ before[w] = IF Writers(n - 1, w) = {} THEN m[w]
                       ELSE Last(n - 1, w).request.data[Last(n - 1, w).beat + 1]
    BY DEF MemAfter
  <2>2. CASE Writes(e, latency[n]) /\ BeatAddr(e) = w
    <3>1. n \in Writers(n, w) /\ \A i \in Writers(n, w) : n >= i
      BY <1>1, <2>2
    <3>2. Max(Writers(n, w)) = n
      <4> HIDE DEF Writers
      <4>1. \A x \in Writers(n, w) : (\A i \in Writers(n, w) : x >= i) => x = n
        <5>1. Writers(n, w) \subseteq Nat
          BY <1>1 DEF Writers
        <5> QED BY <1>1, <3>1, <5>1
      <4> QED BY <3>1, <4>1 DEF Max
    <3> HIDE DEF Writers, before, after
    <3> QED BY <2>1, <2>2, <3>1, <3>2
  <2>3. CASE ~(Writes(e, latency[n]) /\ BeatAddr(e) = w)
    <3>1. Writers(n, w) = Writers(n - 1, w)
      <4>1. \A i \in 1 .. n : i = n \/ i \in 1 .. (n - 1)
        BY <1>1
      <4>2. \A i \in 1 .. (n - 1) : i \in 1 .. n
        BY <1>1
      <4> QED BY <2>3, <4>1, <4>2
    <3> HIDE DEF Writers, before, after
    <3> QED BY <2>1, <2>3, <3>1
  <2> QED BY <2>2, <2>3
<1>5. after = [w \in Words |-> after[w]] /\ before = [w \in Words |-> before[w]]
  BY DEF MemAfter
<1>6. /\ View(e).request = e.request /\ View(e).done = e.beat
      /\ Contract!BeatWord(View(e)) = BeatAddr(e)
      /\ Rejected(e) <=> Contract!Refused(View(e))
  <2>1. View(e).request = e.request /\ View(e).done = e.beat
    BY DEF View
  <2>2. Contract!BeatWord(View(e)) = BeatAddr(e)
    BY <2>1 DEF Contract!BeatWord, BeatAddr
  <2> QED BY <2>1, <2>2 DEF Rejected, Contract!Refused
<1> HIDE DEF e, before, after
<1>7. CASE Writes(e, latency[n])
  <2>1. Contract!Stored(View(e), before)
          = [before EXCEPT ![BeatAddr(e)] = e.request.data[e.beat + 1]]
    BY <1>3, <1>6, <1>7 DEF Contract!Stored
  <2>2. after = [before EXCEPT ![BeatAddr(e)] = e.request.data[e.beat + 1]]
    BY <1>4, <1>5, <1>7
  <2> QED BY <1>3, <1>7, <2>1, <2>2 DEF e, before, after
<1>8. CASE ~Writes(e, latency[n])
  <2>1. after = before
    BY <1>4, <1>5, <1>8
  <2>2. Acts(e, latency[n]) => Contract!Stored(View(e), before) = before
    BY <1>3, <1>6, <1>8 DEF Contract!Stored
  <2> QED BY <2>1, <2>2 DEF e, before, after
<1> QED BY <1>7, <1>8

-----------------------------------------------------------------------------
(* The two tables as one row of entries, transactions first. *)

Size(t, b) == Len(t) + Len(b)

Row(t, b) == [k \in 1 .. Size(t, b) |-> IF k <= Len(t) THEN t[k] ELSE b[k - Len(t)]]

OpenOf(t, b) ==
  [id \in Ids(t) \cup Ids(b) |->
     IF id \in Ids(t) THEN View(t[IndexOf(t, id)]) ELSE View(b[IndexOf(b, id)])]

(* Tables that share no identifier.                                        *)
Apart(t, b) ==
  TableOK(t) /\ TableOK(b) /\ Distinct(t) /\ Distinct(b) /\ Disjoint(t, b)

(* Places of the row.                                                      *)
LEMMA RowPlaces ==
  ASSUME NEW t, NEW b, Apart(t, b)
  PROVE  /\ Len(t) \in Nat /\ Len(b) \in Nat /\ Size(t, b) \in Nat
         /\ DOMAIN t = 1 .. Len(t) /\ DOMAIN b = 1 .. Len(b)
         /\ \A k \in DOMAIN t : k \in 1 .. Size(t, b) /\ Row(t, b)[k] = t[k]
         /\ \A k \in DOMAIN b : /\ Len(t) + k \in 1 .. Size(t, b)
                                /\ Row(t, b)[Len(t) + k] = b[k]
         /\ \A k \in 1 .. Size(t, b) :
              \/ k \in DOMAIN t
              \/ k > Len(t) /\ k - Len(t) \in DOMAIN b /\ k = Len(t) + (k - Len(t))
         /\ \A k \in 1 .. Size(t, b) : EntryOK(Row(t, b)[k])
         /\ \A j, k \in 1 .. Size(t, b) : Row(t, b)[j].id = Row(t, b)[k].id => j = k
PROOF
<1>1. /\ Len(t) \in Nat /\ Len(b) \in Nat /\ Size(t, b) \in Nat
      /\ DOMAIN t = 1 .. Len(t) /\ DOMAIN b = 1 .. Len(b)
  BY DEF Apart, TableOK, Size
<1>2. \A k \in DOMAIN t : k \in 1 .. Size(t, b) /\ Row(t, b)[k] = t[k]
  BY <1>1 DEF Row, Size
<1>3. ASSUME NEW k \in DOMAIN b
      PROVE  /\ Len(t) + k \in 1 .. Size(t, b)
             /\ Row(t, b)[Len(t) + k] = b[k]
  <2>1. /\ Len(t) + k \in 1 .. Size(t, b) /\ ~(Len(t) + k <= Len(t))
        /\ Len(t) + k - Len(t) = k
    BY <1>1 DEF Size
  <2> QED BY <2>1 DEF Row
<1>4. \A k \in 1 .. Size(t, b) :
        \/ k \in DOMAIN t
        \/ k > Len(t) /\ k - Len(t) \in DOMAIN b /\ k = Len(t) + (k - Len(t))
  BY <1>1 DEF Size
<1>5. \A k \in 1 .. Size(t, b) : EntryOK(Row(t, b)[k])
  BY <1>2, <1>3, <1>4 DEF Apart, TableOK
<1>6. ASSUME NEW j \in 1 .. Size(t, b), NEW k \in 1 .. Size(t, b),
             Row(t, b)[j].id = Row(t, b)[k].id
      PROVE  j = k
  <2>1. CASE j \in DOMAIN t /\ k \in DOMAIN t
    BY <1>2, <1>6, <2>1 DEF Apart, Distinct
  <2>2. CASE j \in DOMAIN t /\ k \notin DOMAIN t
    BY <1>2, <1>3, <1>4, <1>6, <2>2 DEF Apart, Disjoint
  <2>3. CASE j \notin DOMAIN t /\ k \in DOMAIN t
    BY <1>2, <1>3, <1>4, <1>6, <2>3 DEF Apart, Disjoint
  <2>4. CASE j \notin DOMAIN t /\ k \notin DOMAIN t
    <3>1. /\ j - Len(t) \in DOMAIN b /\ j = Len(t) + (j - Len(t))
          /\ k - Len(t) \in DOMAIN b /\ k = Len(t) + (k - Len(t))
      BY <1>4, <2>4
    <3>2. Row(t, b)[j] = b[j - Len(t)] /\ Row(t, b)[k] = b[k - Len(t)]
      BY <1>3, <3>1
    <3>3. j - Len(t) = k - Len(t)
      BY <1>6, <3>1, <3>2 DEF Apart, Distinct
    <3> QED BY <3>1, <3>3
  <2> QED BY <2>1, <2>2, <2>3, <2>4
<1> QED BY <1>1, <1>2, <1>3, <1>4, <1>5, <1>6

(* A lookup by identifier finds the entry.                                 *)
LEMMA Lookup ==
  ASSUME NEW t, Distinct(t), NEW k \in DOMAIN t
  PROVE  t[k].id \in Ids(t) /\ IndexOf(t, t[k].id) = k
  BY DEF Distinct, Ids, IndexOf

(* The contract sees the entries of the row.                               *)
LEMMA OpenIsRow ==
  ASSUME NEW t, NEW b, Apart(t, b)
  PROVE  /\ OpenOf(t, b) = Seen(Row(t, b), Size(t, b))
         /\ Ids(t) \cup Ids(b) = IdsOf(Row(t, b), Size(t, b))
         /\ \A k \in DOMAIN t : t[k].id \in Ids(t) /\ OpenOf(t, b)[t[k].id] = View(t[k])
         /\ \A k \in DOMAIN b : b[k].id \in Ids(b) /\ OpenOf(t, b)[b[k].id] = View(b[k])
PROOF
<1> DEFINE N == Size(t, b)
           E == Row(t, b)
<1>1. /\ N \in Nat
      /\ \A k \in DOMAIN t : k \in 1 .. N /\ E[k] = t[k]
      /\ \A k \in DOMAIN b : Len(t) + k \in 1 .. N /\ E[Len(t) + k] = b[k]
      /\ \A k \in 1 .. N : \/ k \in DOMAIN t
                           \/ k - Len(t) \in DOMAIN b /\ k = Len(t) + (k - Len(t))
      /\ \A j, k \in 1 .. N : E[j].id = E[k].id => j = k
  BY RowPlaces
<1> HIDE DEF N, E
<1>2. Ids(t) \cup Ids(b) = IdsOf(E, N)
  <2>1. ASSUME NEW id \in Ids(t) \cup Ids(b) PROVE id \in IdsOf(E, N)
    BY <1>1 DEF Ids, IdsOf
  <2>2. ASSUME NEW id \in IdsOf(E, N) PROVE id \in Ids(t) \cup Ids(b)
    <3>1. PICK k \in 1 .. N : id = E[k].id
      BY DEF IdsOf
    <3>2. CASE k \in DOMAIN t
      BY <1>1, <3>1, <3>2 DEF Ids
    <3>3. CASE k - Len(t) \in DOMAIN b /\ k = Len(t) + (k - Len(t))
      <4>1. E[k] = b[k - Len(t)]
        BY <1>1, <3>3
      <4> QED BY <3>1, <3>3, <4>1 DEF Ids
    <3> QED BY <1>1, <3>2, <3>3
  <2> QED BY <2>1, <2>2
<1>3. ASSUME NEW k \in DOMAIN t
      PROVE  /\ t[k].id \in Ids(t) /\ OpenOf(t, b)[t[k].id] = View(t[k])
             /\ Seen(E, N)[t[k].id] = View(t[k])
  <2>1. t[k].id \in Ids(t) /\ IndexOf(t, t[k].id) = k
    BY Lookup DEF Apart
  <2>2. Place(E, N, t[k].id) = k /\ E[k] = t[k]
    BY <1>1 DEF Place
  <2> QED BY <1>2, <2>1, <2>2 DEF OpenOf, Seen
<1>4. ASSUME NEW k \in DOMAIN b
      PROVE  /\ b[k].id \in Ids(b) /\ OpenOf(t, b)[b[k].id] = View(b[k])
             /\ Seen(E, N)[b[k].id] = View(b[k])
  <2>1. b[k].id \in Ids(b) /\ IndexOf(b, b[k].id) = k
    BY Lookup DEF Apart
  <2>2. b[k].id \notin Ids(t)
    BY DEF Apart, Disjoint, Ids
  <2>3. Len(t) + k \in 1 .. N /\ E[Len(t) + k] = b[k]
    BY <1>1
  <2>4. Place(E, N, b[k].id) = Len(t) + k
    BY <1>1, <2>3 DEF Place
  <2> QED BY <1>2, <2>1, <2>2, <2>3, <2>4 DEF OpenOf, Seen
<1>5. OpenOf(t, b) = Seen(E, N)
  <2>1. \A id \in Ids(t) \cup Ids(b) : OpenOf(t, b)[id] = Seen(E, N)[id]
    BY <1>3, <1>4 DEF Ids
  <2> QED BY <1>2, <2>1 DEF OpenOf, Seen
<1> QED BY <1>2, <1>3, <1>4, <1>5 DEF N, E

-----------------------------------------------------------------------------
(* Steps of the tables that are progress of the contract. *)

(* Tables t and b become u and c, and words m0 become m1, by a beat of     *)
(* some of the entries each.                                               *)
IsProgress(t, b, u, c, m0, m1) ==
  \E order \in Contract!SetToSeqs(Ids(t) \cup Ids(b)),
     ready \in SUBSET {id \in Ids(t) \cup Ids(b) : ~Contract!Complete(OpenOf(t, b)[id])} :
    [mem |-> m1, open |-> OpenOf(u, c)]
      = Contract!Turns([mem |-> m0, open |-> OpenOf(t, b)], order, ready)

(* Entry e becomes x by a beat, or waits.                                  *)
Serves(e, x, m, n) ==
  /\ ~Contract!Complete(View(e))
  /\ View(x) = Contract!Served(View(e), m)
  /\ n = Contract!Stored(View(e), m)

Waits(e, x, m, n) == View(x) = View(e) /\ n = m

(* Tables with the same entries in the same places.                        *)
SameIds(t, u) == Len(u) = Len(t) /\ \A k \in DOMAIN t : u[k].id = t[k].id

LEMMA RowsProgress ==
  ASSUME NEW t, NEW b, NEW u, NEW c, Apart(t, b), Apart(u, c), SameIds(t, u), SameIds(b, c),
         NEW m,
         \A k \in 1 .. Size(t, b) :
           \/ Serves(Row(t, b)[k], Row(u, c)[k], m[k - 1], m[k])
           \/ Waits(Row(t, b)[k], Row(u, c)[k], m[k - 1], m[k])
  PROVE  IsProgress(t, b, u, c, m[0], m[Size(t, b)])
PROOF
<1> DEFINE N == Size(t, b)
           E == Row(t, b)
           F == Row(u, c)
           R == {k \in 1 .. N : Serves(E[k], F[k], m[k - 1], m[k])}
<1>1. /\ N \in Nat /\ Size(u, c) = N
      /\ \A j, k \in 1 .. N : E[j].id = E[k].id => j = k
  BY RowPlaces DEF SameIds, Size
<1>2. ASSUME NEW k \in 1 .. N PROVE F[k].id = E[k].id
  <2>1. /\ \A j \in DOMAIN t : E[j] = t[j]
        /\ \A j \in DOMAIN b : E[Len(t) + j] = b[j]
        /\ \/ k \in DOMAIN t
           \/ k - Len(t) \in DOMAIN b /\ k = Len(t) + (k - Len(t))
        /\ DOMAIN t = 1 .. Len(t) /\ DOMAIN b = 1 .. Len(b)
    BY RowPlaces
  <2>2. /\ \A j \in DOMAIN u : F[j] = u[j]
        /\ \A j \in DOMAIN c : F[Len(u) + j] = c[j]
        /\ DOMAIN u = 1 .. Len(u) /\ DOMAIN c = 1 .. Len(c)
    BY RowPlaces
  <2> HIDE DEF E, F
  <2>3. CASE k \in DOMAIN t
    BY <2>1, <2>2, <2>3 DEF SameIds
  <2>4. CASE k - Len(t) \in DOMAIN b /\ k = Len(t) + (k - Len(t))
    <3>1. PICK y \in DOMAIN b : k = Len(t) + y
      BY <2>4
    <3>2. E[k] = b[y]
      BY <2>1, <3>1
    <3>3. y \in DOMAIN c /\ k = Len(u) + y /\ c[y].id = b[y].id
      BY <2>1, <2>2, <3>1 DEF SameIds
    <3>4. F[k] = c[y]
      BY <2>2, <3>3
    <3> QED BY <3>2, <3>3, <3>4
  <2> QED BY <2>1, <2>3, <2>4
<1>3. R \in SUBSET (1 .. N)
  OBVIOUS
<1>4. \A k \in R : /\ ~Contract!Complete(View(E[k]))
                   /\ View(F[k]) = Contract!Served(View(E[k]), m[k - 1])
                   /\ m[k] = Contract!Stored(View(E[k]), m[k - 1])
  BY DEF Serves
<1>5. \A k \in (1 .. N) \ R : View(F[k]) = View(E[k]) /\ m[k] = m[k - 1]
  BY DEF Waits
<1>6. /\ OpenOf(t, b) = Seen(E, N) /\ Ids(t) \cup Ids(b) = IdsOf(E, N)
      /\ OpenOf(u, c) = Seen(F, N)
  BY <1>1, OpenIsRow
<1> HIDE DEF R, N, E, F
<1>7. \E order \in Contract!SetToSeqs(IdsOf(E, N)),
         ready \in SUBSET {id \in IdsOf(E, N) : ~Contract!Complete(Seen(E, N)[id])} :
        [mem |-> m[N], open |-> Seen(F, N)]
          = Contract!Turns([mem |-> m[0], open |-> Seen(E, N)], order, ready)
  <2>1. TurnByTurn(E, F, m, N, R)
    BY <1>1, <1>2, <1>3, <1>4, <1>5 DEF TurnByTurn
  <2> QED BY <1>1, <2>1, EntriesProgress
<1> QED BY <1>6, <1>7 DEF IsProgress, N

(* One entry of the row steps, on behalf of a caller.                      *)
LEMMA OneProgress ==
  ASSUME NEW t, NEW b, NEW u, NEW c, Apart(t, b), Apart(u, c), SameIds(t, u), SameIds(b, c),
         NEW p \in 1 .. Size(t, b), NEW latency, NEW m0, IsMemory(m0),
         \A k \in 1 .. Size(t, b) : k # p => Row(u, c)[k] = Row(t, b)[k],
         Row(u, c)[p] = Advance(Row(t, b)[p], latency[1], m0[BeatAddr(Row(t, b)[p])])
  PROVE  IsProgress(t, b, u, c, m0, MemAfter(<<Row(t, b)[p]>>, latency, m0, 1))
PROOF
<1> DEFINE N == Size(t, b)
           E == Row(t, b)
           F == Row(u, c)
           e == E[p]
           m1 == MemAfter(<<e>>, latency, m0, 1)
           m == [n \in 0 .. N |-> IF n < p THEN m0 ELSE m1]
<1>1. N \in Nat /\ EntryOK(e)
  BY RowPlaces
<1> HIDE DEF N, E, F, e
<1>2. m1 = IF Acts(e, latency[1]) THEN Contract!Stored(View(e), m0) ELSE m0
  <2> DEFINE one == <<e>>
  <2>1. TableOK(one) /\ Len(one) = 1 /\ one[1] = e
    BY <1>1, SingleEntry
  <2>2. m1 = MemAfter(one, latency, m0, 1)
    OBVIOUS
  <2> HIDE DEF one, m1
  <2>3. PICK n \in 1 .. Len(one) : n = 1
    BY <2>1
  <2>4. MemAfter(one, latency, m0, n)
          = IF Acts(one[n], latency[n])
            THEN Contract!Stored(View(one[n]), MemAfter(one, latency, m0, n - 1))
            ELSE MemAfter(one, latency, m0, n - 1)
    BY <2>1, StepIsStore
  <2>5. n - 1 = 0 /\ MemAfter(one, latency, m0, 0) = m0
    BY <2>3, NoStep
  <2> QED BY <2>1, <2>2, <2>3, <2>4, <2>5
<1>3. ASSUME NEW k \in 1 .. N
      PROVE  Serves(E[k], F[k], m[k - 1], m[k]) \/ Waits(E[k], F[k], m[k - 1], m[k])
  <2>1. p \in 1 .. N /\ k \in 0 .. N /\ k - 1 \in 0 .. N
    BY <1>1 DEF N
  <2>2. CASE k # p
    <3>1. m[k] = m[k - 1]
      <4> HIDE DEF m1
      <4> QED BY <2>1, <2>2
    <3>2. F[k] = E[k]
      BY <2>2 DEF N, E, F
    <3> HIDE DEF m
    <3> QED BY <3>1, <3>2 DEF Waits
  <2>3. CASE k = p
    <3>1. m[k - 1] = m0 /\ m[k] = m1
      <4> HIDE DEF m1
      <4> QED BY <2>1, <2>3
    <3>2. F[p] = Advance(e, latency[1], m0[BeatAddr(e)]) /\ E[p] = e
      BY DEF E, F, e
    <3>3. /\ ~Finished(e) => ~Contract!Complete(View(e))
          /\ Acts(e, latency[1]) => View(F[p]) = Contract!Served(View(e), m0)
          /\ ~Acts(e, latency[1]) => View(F[p]) = View(e)
      BY <1>1, <3>2, StepIsBeat
    <3>4. Acts(e, latency[1]) => ~Finished(e)
      BY DEF Acts
    <3> HIDE DEF m, m1
    <3> QED BY <1>2, <2>3, <3>1, <3>2, <3>3, <3>4 DEF Serves, Waits
  <2> QED BY <2>2, <2>3
<1>4. m[0] = m0 /\ m[N] = m1
  <2>1. p \in 1 .. N
    BY DEF N
  <2> HIDE DEF m1
  <2> QED BY <1>1, <2>1
<1> HIDE DEF m, m1
<1>5. IsProgress(t, b, u, c, m[0], m[N])
  BY <1>3, RowsProgress DEF N, E, F
<1> QED BY <1>4, <1>5 DEF m1, e, E

(* A clock cycle: every transaction, then every burst.                     *)
LEMMA CycleProgress ==
  ASSUME NEW t, NEW b, Apart(t, b), NEW lt, NEW lb, NEW m0, IsMemory(m0),
         NEW settled, settled = MemAfter(t, lt, m0, Len(t)),
         NEW u, u = AdvanceAll(t, lt, m0), NEW c, c = AdvanceAll(b, lb, settled),
         Apart(u, c), SameIds(t, u), SameIds(b, c)
  PROVE  IsProgress(t, b, u, c, m0, MemAfter(b, lb, settled, Len(b)))
PROOF
<1> DEFINE N == Size(t, b)
           E == Row(t, b)
           F == Row(u, c)
           mt(n) == MemAfter(t, lt, m0, n)
           mb(n) == MemAfter(b, lb, settled, n)
           m == [n \in 0 .. N |-> IF n <= Len(t) THEN mt(n) ELSE mb(n - Len(t))]
<1>1. /\ Len(t) \in Nat /\ Len(b) \in Nat /\ N \in Nat /\ N = Len(t) + Len(b)
      /\ DOMAIN t = 1 .. Len(t) /\ DOMAIN b = 1 .. Len(b)
      /\ \A k \in DOMAIN t : E[k] = t[k]
      /\ \A k \in DOMAIN b : E[Len(t) + k] = b[k]
      /\ \A k \in 1 .. N : \/ k \in DOMAIN t
                           \/ k > Len(t) /\ k - Len(t) \in DOMAIN b /\ k = Len(t) + (k - Len(t))
  BY RowPlaces DEF Size
<1>2. /\ \A k \in DOMAIN t : F[k] = u[k]
      /\ \A k \in DOMAIN b : F[Len(t) + k] = c[k]
  <2>1. Len(u) = Len(t) /\ Len(c) = Len(b)
    BY DEF SameIds
  <2> QED BY <1>1, <2>1, RowPlaces
<1>3. TableOK(t) /\ TableOK(b) /\ IsMemory(settled)
  BY DEF Apart, IsMemory, MemAfter
<1>4. mb(0) = settled /\ mt(0) = m0
  BY <1>3, NoStep
<1> HIDE DEF N, E, F
<1>5. ASSUME NEW s, TableOK(s), NEW l, NEW x, NEW v, v = AdvanceAll(s, l, x),
             NEW k \in DOMAIN s, NEW y, NEW z,
             y = MemAfter(s, l, x, k - 1), z = MemAfter(s, l, x, k)
      PROVE  Serves(s[k], v[k], y, z) \/ Waits(s[k], v[k], y, z)
  <2>1. TableOK(s) /\ EntryOK(s[k]) /\ k \in 1 .. Len(s)
    BY <1>5 DEF TableOK
  <2>2. z = IF Acts(s[k], l[k]) THEN Contract!Stored(View(s[k]), y) ELSE y
    <3>1. MemAfter(s, l, x, k)
            = IF Acts(s[k], l[k]) THEN Contract!Stored(View(s[k]), MemAfter(s, l, x, k - 1))
              ELSE MemAfter(s, l, x, k - 1)
      BY <2>1, StepIsStore
    <3> QED BY <1>5, <3>1
  <2>3. v[k] = Advance(s[k], l[k], y[BeatAddr(s[k])])
    BY <1>5 DEF AdvanceAll
  <2>4. /\ ~Finished(s[k]) => ~Contract!Complete(View(s[k]))
        /\ Acts(s[k], l[k]) => View(v[k]) = Contract!Served(View(s[k]), y)
        /\ ~Acts(s[k], l[k]) => View(v[k]) = View(s[k])
    BY <2>1, <2>3, StepIsBeat
  <2> QED BY <2>2, <2>4 DEF Serves, Waits, Acts
<1>6. ASSUME NEW k \in 1 .. N
      PROVE  Serves(E[k], F[k], m[k - 1], m[k]) \/ Waits(E[k], F[k], m[k - 1], m[k])
  <2>1. k \in 0 .. N /\ k - 1 \in 0 .. N
    BY <1>1
  <2>2. CASE k \in DOMAIN t
    <3>1. k <= Len(t) /\ k - 1 <= Len(t)
      BY <1>1, <2>2
    <3>2. m[k - 1] = mt(k - 1) /\ m[k] = mt(k)
      <4> HIDE DEF mt, mb
      <4> QED BY <2>1, <3>1
    <3>3. E[k] = t[k] /\ F[k] = u[k]
      BY <1>1, <1>2, <2>2
    <3> HIDE DEF m
    <3> QED BY <1>3, <1>5, <2>2, <3>2, <3>3
  <2>3. CASE k > Len(t) /\ k - Len(t) \in DOMAIN b /\ k = Len(t) + (k - Len(t))
    <3> DEFINE j == k - Len(t)
    <3>1. j \in DOMAIN b /\ k = Len(t) + j /\ ~(k <= Len(t)) /\ j \in 1 .. Len(b)
      BY <1>1, <2>3
    <3>2. m[k] = mb(j)
      <4> HIDE DEF mt, mb
      <4> QED BY <2>1, <3>1
    <3>3. m[k - 1] = mb(j - 1)
      <4>1. CASE j = 1
        <5>1. k - 1 = Len(t) /\ j - 1 = 0
          BY <1>1, <3>1, <4>1
        <5>2. m[k - 1] = mt(Len(t))
          <6> HIDE DEF mt, mb
          <6> QED BY <1>1, <2>1, <5>1
        <5> QED BY <1>4, <5>1, <5>2
      <4>2. CASE j # 1
        <5>1. ~(k - 1 <= Len(t)) /\ k - 1 - Len(t) = j - 1
          BY <1>1, <3>1, <4>2
        <5> HIDE DEF mt, mb
        <5> QED BY <2>1, <5>1
      <4> QED BY <4>1, <4>2
    <3>4. E[k] = b[j] /\ F[k] = c[j]
      <4> HIDE DEF j
      <4> QED BY <1>1, <1>2, <3>1
    <3> HIDE DEF m, j
    <3> QED BY <1>3, <1>5, <3>1, <3>2, <3>3, <3>4
  <2> QED BY <1>1, <2>2, <2>3
<1>7. m[0] = m0 /\ m[N] = mb(Len(b))
  <2>1. 0 \in 0 .. N /\ N \in 0 .. N /\ 0 <= Len(t)
    BY <1>1
  <2>2. m[0] = m0
    <3> HIDE DEF mt, mb
    <3> QED BY <1>4, <2>1
  <2>3. CASE Len(b) = 0
    <3>1. N = Len(t)
      BY <1>1, <2>3
    <3>2. m[N] = mt(Len(t))
      <4> HIDE DEF mt, mb
      <4> QED BY <1>1, <2>1, <3>1
    <3> QED BY <1>4, <2>2, <2>3, <3>2
  <2>4. CASE Len(b) # 0
    <3>1. ~(N <= Len(t)) /\ N - Len(t) = Len(b)
      BY <1>1, <2>4
    <3> HIDE DEF mt, mb
    <3> QED BY <2>1, <2>2, <3>1
  <2> QED BY <2>3, <2>4
<1> HIDE DEF m
<1>8. IsProgress(t, b, u, c, m[0], m[N])
  BY <1>6, RowsProgress DEF N, E, F
<1> QED BY <1>7, <1>8

-----------------------------------------------------------------------------
(* Requests that come and go. *)

Entries(t, b) == {t[k] : k \in DOMAIN t} \cup {b[k] : k \in DOMAIN b}

(* What the contract sees depends on the entries only, not their places.   *)
LEMMA OpenIsEntries ==
  ASSUME NEW t, NEW b, Apart(t, b)
  PROVE  /\ OpenOf(t, b) = [id \in Ids(t) \cup Ids(b) |-> OpenOf(t, b)[id]]
         /\ Ids(t) \cup Ids(b) = {e.id : e \in Entries(t, b)}
         /\ \A e \in Entries(t, b) : OpenOf(t, b)[e.id] = View(e)
PROOF
<1>1. OpenOf(t, b) = [id \in Ids(t) \cup Ids(b) |-> OpenOf(t, b)[id]]
  BY DEF OpenOf
<1>2. \A id : id \in Ids(t) \cup Ids(b) <=> id \in {e.id : e \in Entries(t, b)}
  BY DEF Ids, Entries
<1>3. ASSUME NEW e \in Entries(t, b) PROVE OpenOf(t, b)[e.id] = View(e)
  <2>1. CASE \E k \in DOMAIN t : e = t[k]
    BY <2>1, OpenIsRow
  <2>2. CASE \E k \in DOMAIN b : e = b[k]
    BY <2>2, OpenIsRow
  <2> QED BY <2>1, <2>2 DEF Entries
<1> QED BY <1>1, <1>2, <1>3

(* An entry under a new identifier.                                        *)
FreshId(e, t, b) == e.id \notin Ids(t) \cup Ids(b)

OpenWith(t, b, e) ==
  [i \in (Ids(t) \cup Ids(b)) \cup {e.id} |-> IF i = e.id THEN View(e) ELSE OpenOf(t, b)[i]]

LEMMA OpenEnter ==
  ASSUME NEW t, NEW b, Apart(t, b), NEW u, NEW c, Apart(u, c),
         NEW e, Entries(u, c) = Entries(t, b) \cup {e}, FreshId(e, t, b)
  PROVE  OpenOf(u, c) = OpenWith(t, b, e)
PROOF
<1> DEFINE old == Ids(t) \cup Ids(b)
           new == Ids(u) \cup Ids(c)
<1>1. /\ old = {x.id : x \in Entries(t, b)}
      /\ \A x \in Entries(t, b) : OpenOf(t, b)[x.id] = View(x)
  BY OpenIsEntries
<1>2. /\ new = {x.id : x \in Entries(u, c)}
      /\ \A x \in Entries(u, c) : OpenOf(u, c)[x.id] = View(x)
      /\ OpenOf(u, c) = [id \in new |-> OpenOf(u, c)[id]]
  BY OpenIsEntries
<1> USE DEF FreshId
<1> HIDE DEF old, new
<1>3. \A id : id \in new <=> id \in old \cup {e.id}
  BY <1>1, <1>2
<1>4. \A id \in new : OpenOf(u, c)[id] = IF id = e.id THEN View(e) ELSE OpenOf(t, b)[id]
  <2> TAKE id \in new
  <2>1. CASE id = e.id
    BY <1>2, <2>1
  <2>2. CASE id # e.id
    <3>1. PICK x \in Entries(t, b) : x.id = id
      BY <1>1, <1>3, <2>2
    <3> QED BY <1>1, <1>2, <2>2, <3>1
  <2> QED BY <2>1, <2>2
<1>5. new = old \cup {e.id}
  BY <1>3
<1> QED BY <1>2, <1>4, <1>5 DEF OpenWith, old, new

(* An entry that is taken.                                                 *)
LEMMA OpenLeave ==
  ASSUME NEW t, NEW b, Apart(t, b), NEW u, NEW c, Apart(u, c),
         NEW e \in Entries(t, b), Entries(u, c) = Entries(t, b) \ {e},
         \A x \in Entries(t, b) : x.id = e.id => x = e
  PROVE  OpenOf(u, c) = [i \in (Ids(t) \cup Ids(b)) \ {e.id} |-> OpenOf(t, b)[i]]
PROOF
<1> DEFINE old == Ids(t) \cup Ids(b)
           new == Ids(u) \cup Ids(c)
<1>1. /\ old = {x.id : x \in Entries(t, b)}
      /\ \A x \in Entries(t, b) : OpenOf(t, b)[x.id] = View(x)
  BY OpenIsEntries
<1>2. /\ new = {x.id : x \in Entries(u, c)}
      /\ \A x \in Entries(u, c) : OpenOf(u, c)[x.id] = View(x)
      /\ OpenOf(u, c) = [id \in new |-> OpenOf(u, c)[id]]
  BY OpenIsEntries
<1> HIDE DEF old, new
<1>3. \A id : id \in new <=> id \in old \ {e.id}
  BY <1>1, <1>2
<1>4. \A id \in new : OpenOf(u, c)[id] = OpenOf(t, b)[id]
  BY <1>1, <1>2
<1>5. new = old \ {e.id}
  BY <1>3
<1> QED BY <1>2, <1>4, <1>5 DEF old, new

(* What is in a table after push and swap_remove.                          *)
LEMMA PushEntries ==
  ASSUME NEW t, TableOK(t), NEW e, EntryOK(e)
  PROVE  {Append(t, e)[k] : k \in DOMAIN Append(t, e)} = {t[k] : k \in DOMAIN t} \cup {e}
PROOF
<1> DEFINE u == Append(t, e)
<1>1. /\ Len(t) \in Nat /\ DOMAIN t = 1 .. Len(t) /\ DOMAIN u = 1 .. (Len(t) + 1)
      /\ \A k \in DOMAIN t : u[k] = t[k]
      /\ u[Len(t) + 1] = e
  <2>1. t \in Seq(EntryType) /\ e \in EntryType
    BY DEF TableOK, EntryOK
  <2> QED BY <2>1
<1> HIDE DEF u
<1>2. \A k \in DOMAIN t : k \in DOMAIN u
  BY <1>1
<1>3. Len(t) + 1 \in DOMAIN u
  BY <1>1
<1>4. \A k \in DOMAIN u : k \in DOMAIN t \/ k = Len(t) + 1
  BY <1>1
<1> QED BY <1>1, <1>2, <1>3, <1>4 DEF u

LEMMA TakeEntries ==
  ASSUME NEW t, TableOK(t), Distinct(t), NEW k \in DOMAIN t
  PROVE  LET u == SwapRemove(t, k)
         IN  {u[j] : j \in DOMAIN u} = {t[j] : j \in DOMAIN t} \ {t[k]}
PROOF
<1> DEFINE u == SwapRemove(t, k)
           from(j) == IF j = k THEN Len(t) ELSE j
           to(j) == IF j = Len(t) THEN k ELSE j
<1>1. /\ Len(t) \in Nat /\ DOMAIN t = 1 .. Len(t) /\ DOMAIN u = 1 .. (Len(t) - 1)
      /\ \A j \in DOMAIN u : u[j] = t[from(j)]
  BY DEF TableOK, SwapRemove
<1> HIDE DEF u
<1>2. \A j \in DOMAIN u : from(j) \in DOMAIN t \ {k}
  BY <1>1
<1>3. \A j \in DOMAIN t \ {k} : to(j) \in DOMAIN u /\ from(to(j)) = j
  BY <1>1
<1>4. \A j \in DOMAIN t : t[j] = t[k] => j = k
  BY DEF Distinct
<1> HIDE DEF from, to
<1>5. \A x : x \in {u[j] : j \in DOMAIN u} <=> x \in {t[j] : j \in DOMAIN t} \ {t[k]}
  <2>1. ASSUME NEW j \in DOMAIN u PROVE u[j] \in {t[i] : i \in DOMAIN t} \ {t[k]}
    BY <1>1, <1>2, <1>4
  <2>2. ASSUME NEW j \in DOMAIN t, t[j] # t[k] PROVE \E i \in DOMAIN u : u[i] = t[j]
    BY <1>1, <1>3, <2>2
  <2> QED BY <2>1, <2>2
<1> QED BY <1>5 DEF u

-----------------------------------------------------------------------------
(* Every step of the memory map is a step of the contract, or none. *)

LEMMA OpenIs == Open = OpenOf(transactions, bursts)
  BY DEF Open, OpenOf

LEMMA OpenIsNext == Open' = OpenOf(transactions', bursts')
  BY DEF Open, OpenOf, Ids, IndexOf, View

LEMMA InvApart == IInv => /\ Apart(transactions, bursts) /\ IsMemory(mem)
                          /\ mem \in [Words -> Values]
  BY DEF IInv, Apart, IsMemory

LEMMA InvApartNext == IInv' => Apart(transactions', bursts')
  BY DEF IInv, Apart, TableOK, EntryOK, Distinct, Disjoint, Routable

LEMMA ProgressStep ==
  ASSUME IsProgress(transactions, bursts, transactions', bursts', mem, mem')
  PROVE  Contract!Progress
PROOF
<1>1. DOMAIN Open = Ids(transactions) \cup Ids(bursts)
  BY DEF Open
<1>2. Contract!Unfinished = {id \in Ids(transactions) \cup Ids(bursts) :
                               ~Contract!Complete(OpenOf(transactions, bursts)[id])}
  BY <1>1, OpenIs DEF Contract!Unfinished
<1> QED BY <1>1, <1>2, OpenIs, OpenIsNext DEF IsProgress, Contract!Progress

LEMMA TickStep ==
  ASSUME IInv, IInv', Tick
  PROVE  Contract!Progress
PROOF
<1>1. PICK lt \in LatencyChoices(transactions), lb \in LatencyChoices(bursts) :
        LET settled == MemAfter(transactions, lt, mem, Len(transactions))
        IN  /\ transactions' = AdvanceAll(transactions, lt, mem)
            /\ bursts' = AdvanceAll(bursts, lb, settled)
            /\ mem' = MemAfter(bursts, lb, settled, Len(bursts))
  BY DEF Tick
<1> DEFINE settled == MemAfter(transactions, lt, mem, Len(transactions))
<1>2. /\ Apart(transactions, bursts) /\ IsMemory(mem) /\ mem \in [Words -> Values]
      /\ Apart(transactions', bursts')
  BY InvApart, InvApartNext
<1>3. lt \in [DOMAIN transactions -> Nat] /\ lb \in [DOMAIN bursts -> Nat]
  BY LatencyType
<1>4. TableOK(transactions) /\ TableOK(bursts) /\ settled \in [Words -> Values]
  <2>1. TableOK(transactions) /\ TableOK(bursts)
    BY <1>2 DEF Apart
  <2>2. Len(transactions) \in 0 .. Len(transactions)
    BY <2>1 DEF TableOK
  <2> QED BY <1>2, <1>3, <2>1, <2>2, MemAfterType
<1>5. /\ mem' = MemAfter(bursts, lb, settled, Len(bursts))
      /\ transactions' = AdvanceAll(transactions, lt, mem)
      /\ bursts' = AdvanceAll(bursts, lb, settled)
  BY <1>1
<1>6. SameIds(transactions, transactions') /\ SameIds(bursts, bursts')
  <2> HIDE DEF settled
  <2>1. /\ DOMAIN transactions' = DOMAIN transactions /\ TableOK(transactions')
        /\ \A i \in DOMAIN transactions : transactions'[i].id = transactions[i].id
    BY <1>2, <1>3, <1>4, <1>5, AdvanceAllOK
  <2>2. /\ DOMAIN bursts' = DOMAIN bursts /\ TableOK(bursts')
        /\ \A i \in DOMAIN bursts : bursts'[i].id = bursts[i].id
    BY <1>3, <1>4, <1>5, AdvanceAllOK
  <2>3. /\ Len(transactions') = Len(transactions) /\ Len(bursts') = Len(bursts)
    BY <1>4, <2>1, <2>2 DEF TableOK
  <2> QED BY <2>1, <2>2, <2>3 DEF SameIds
<1>7. settled = MemAfter(transactions, lt, mem, Len(transactions))
  OBVIOUS
<1> HIDE DEF settled
<1>8. IsProgress(transactions, bursts, transactions', bursts', mem,
                 MemAfter(bursts, lb, settled, Len(bursts)))
  BY <1>2, <1>5, <1>6, <1>7, CycleProgress
<1> QED BY <1>5, <1>8, ProgressStep

LEMMA AdvanceTransactionStep ==
  ASSUME IInv, IInv', NEW i \in DOMAIN transactions, AdvanceTransaction(i)
  PROVE  Contract!Progress
PROOF
<1> DEFINE t == transactions
           e == t[i]
<1>1. PICK latency \in LatencyChoices(<<e>>) :
        /\ transactions' = [t EXCEPT ![i] = Advance(e, latency[1], mem[BeatAddr(e)])]
        /\ mem' = MemAfter(<<e>>, latency, mem, 1)
  BY DEF AdvanceTransaction
<1> DEFINE x == Advance(e, latency[1], mem[BeatAddr(e)])
<1>2. /\ Apart(t, bursts) /\ IsMemory(mem) /\ Apart(transactions', bursts')
      /\ bursts' = bursts /\ EntryOK(e) /\ TableOK(t) /\ mem \in [Words -> Values]
  BY InvApart, InvApartNext DEF AdvanceTransaction, Apart, TableOK
<1>3. x.id = e.id
  <2> HIDE DEF e
  <2> QED BY <1>1, <1>2, AdvanceOne
<1>4. transactions' = [t EXCEPT ![i] = x]
  BY <1>1
<1> HIDE DEF x
<1>5. /\ DOMAIN transactions' = DOMAIN t /\ transactions'[i] = x
      /\ \A k \in DOMAIN t : k # i => transactions'[k] = t[k]
      /\ Len(transactions') = Len(t)
  <2>1. t \in Seq(EntryType)
    BY <1>2 DEF TableOK
  <2> QED BY <1>4, <2>1
<1>6. SameIds(t, transactions') /\ SameIds(bursts, bursts')
  BY <1>2, <1>3, <1>5 DEF SameIds
<1> DEFINE E == Row(t, bursts)
           F == Row(transactions', bursts')
<1>7. /\ i \in 1 .. Size(t, bursts) /\ E[i] = e
      /\ \A k \in DOMAIN t : E[k] = t[k]
      /\ \A k \in DOMAIN bursts : E[Len(t) + k] = bursts[k]
      /\ \A k \in 1 .. Size(t, bursts) :
              \/ k \in DOMAIN t
              \/ k > Len(t) /\ k - Len(t) \in DOMAIN bursts /\ k = Len(t) + (k - Len(t))
      /\ DOMAIN t = 1 .. Len(t) /\ Len(t) \in Nat
  <2>1. /\ \A k \in DOMAIN t : k \in 1 .. Size(t, bursts) /\ E[k] = t[k]
        /\ \A k \in DOMAIN bursts : E[Len(t) + k] = bursts[k]
        /\ DOMAIN t = 1 .. Len(t) /\ Len(t) \in Nat
    BY <1>2, RowPlaces
  <2>2. \A k \in 1 .. Size(t, bursts) :
          \/ k \in DOMAIN t
          \/ k > Len(t) /\ k - Len(t) \in DOMAIN bursts /\ k = Len(t) + (k - Len(t))
    BY <1>2, RowPlaces
  <2> HIDE DEF E
  <2> QED BY <2>1, <2>2
<1>8. /\ \A k \in DOMAIN transactions' : F[k] = transactions'[k]
      /\ \A k \in DOMAIN bursts' : F[Len(transactions') + k] = bursts'[k]
  BY <1>2, RowPlaces
<1> HIDE DEF E, F
<1>9. F[i] = Advance(E[i], latency[1], mem[BeatAddr(E[i])])
  BY <1>5, <1>7, <1>8 DEF x
<1>10. ASSUME NEW k \in 1 .. Size(t, bursts), k # i PROVE F[k] = E[k]
  <2>1. CASE k \in DOMAIN t
    BY <1>5, <1>7, <1>8, <1>10, <2>1
  <2>2. CASE k > Len(t) /\ k - Len(t) \in DOMAIN bursts /\ k = Len(t) + (k - Len(t))
    BY <1>2, <1>5, <1>7, <1>8, <2>2
  <2> QED BY <1>7, <2>1, <2>2
<1>11. IsProgress(t, bursts, transactions', bursts', mem, MemAfter(<<E[i]>>, latency, mem, 1))
  BY <1>2, <1>6, <1>7, <1>9, <1>10, OneProgress DEF E, F
<1> QED BY <1>1, <1>7, <1>11, ProgressStep

LEMMA AdvanceBurstStep ==
  ASSUME IInv, IInv', NEW i \in DOMAIN bursts, AdvanceBurst(i)
  PROVE  Contract!Progress
PROOF
<1> DEFINE t == transactions
           b == bursts
           e == b[i]
           p == Len(t) + i
<1>1. PICK latency \in LatencyChoices(<<e>>) :
        /\ bursts' = [b EXCEPT ![i] = Advance(e, latency[1], mem[BeatAddr(e)])]
        /\ mem' = MemAfter(<<e>>, latency, mem, 1)
  BY DEF AdvanceBurst
<1> DEFINE x == Advance(e, latency[1], mem[BeatAddr(e)])
<1>2. /\ Apart(t, b) /\ IsMemory(mem) /\ Apart(transactions', bursts')
      /\ transactions' = t /\ EntryOK(e) /\ TableOK(b) /\ mem \in [Words -> Values]
  BY InvApart, InvApartNext DEF AdvanceBurst, Apart, TableOK
<1>3. x.id = e.id
  <2> HIDE DEF e
  <2> QED BY <1>1, <1>2, AdvanceOne
<1>4. bursts' = [b EXCEPT ![i] = x]
  BY <1>1
<1> HIDE DEF x
<1>5. /\ DOMAIN bursts' = DOMAIN b /\ bursts'[i] = x
      /\ \A k \in DOMAIN b : k # i => bursts'[k] = b[k]
      /\ Len(bursts') = Len(b)
  <2>1. b \in Seq(EntryType)
    BY <1>2 DEF TableOK
  <2> QED BY <1>4, <2>1
<1>6. SameIds(t, transactions') /\ SameIds(b, bursts')
  BY <1>2, <1>3, <1>5 DEF SameIds
<1> DEFINE E == Row(t, b)
           F == Row(transactions', bursts')
<1>7. /\ \A k \in DOMAIN t : E[k] = t[k]
      /\ \A k \in DOMAIN b : Len(t) + k \in 1 .. Size(t, b) /\ E[Len(t) + k] = b[k]
      /\ DOMAIN t = 1 .. Len(t) /\ Len(t) \in Nat /\ i \in Nat
  BY <1>2, RowPlaces
<1>8. \A k \in 1 .. Size(t, b) :
        \/ k \in DOMAIN t
        \/ k > Len(t) /\ k - Len(t) \in DOMAIN b /\ k = Len(t) + (k - Len(t))
  BY <1>2, RowPlaces
<1>9. /\ \A k \in DOMAIN transactions' : F[k] = transactions'[k]
      /\ \A k \in DOMAIN bursts' : F[Len(transactions') + k] = bursts'[k]
  BY <1>2, RowPlaces
<1> HIDE DEF E, F
<1>10. p \in 1 .. Size(t, b) /\ E[p] = e
  BY <1>7
<1>11. F[p] = Advance(E[p], latency[1], mem[BeatAddr(E[p])])
  BY <1>2, <1>5, <1>9, <1>10 DEF x
<1>12. ASSUME NEW k \in 1 .. Size(t, b), k # p PROVE F[k] = E[k]
  <2>1. CASE k \in DOMAIN t
    BY <1>2, <1>7, <1>9, <2>1
  <2>2. CASE k > Len(t) /\ k - Len(t) \in DOMAIN b /\ k = Len(t) + (k - Len(t))
    <3>1. PICK y \in DOMAIN b : k = Len(t) + y
      BY <2>2
    <3>2. y # i
      BY <1>12, <3>1
    <3>3. E[k] = b[y]
      BY <1>7, <3>1
    <3>4. F[k] = bursts'[y]
      BY <1>2, <1>5, <1>9, <3>1
    <3> QED BY <1>5, <3>2, <3>3, <3>4
  <2> QED BY <1>8, <2>1, <2>2
<1> HIDE DEF p
<1>13. IsProgress(t, b, transactions', bursts', mem, MemAfter(<<E[p]>>, latency, mem, 1))
  BY <1>2, <1>6, <1>10, <1>11, <1>12, OneProgress DEF E, F
<1> QED BY <1>1, <1>10, <1>13, ProgressStep

(* A new entry that has performed nothing is an accepted request.          *)
LEMMA AcceptStep ==
  ASSUME IInv, IInv', UNCHANGED mem, NEW r, NEW e, EntryOK(e),
         View(e) = [request |-> r, done |-> 0, data |-> r.data, failed |-> FALSE],
         e.id = Len(history),
         \/ transactions' = Append(transactions, e) /\ bursts' = bursts
         \/ bursts' = Append(bursts, e) /\ transactions' = transactions
  PROVE  Contract!Accept(r)
PROOF
<1>1. /\ Apart(transactions, bursts) /\ TableOK(transactions) /\ TableOK(bursts)
      /\ Apart(transactions', bursts')
  BY InvApart, InvApartNext DEF Apart
<1>2. Entries(transactions', bursts') = Entries(transactions, bursts) \cup {e}
  <2>1. CASE transactions' = Append(transactions, e) /\ bursts' = bursts
    <3>1. {transactions'[k] : k \in DOMAIN transactions'}
            = {transactions[k] : k \in DOMAIN transactions} \cup {e}
      BY <1>1, <2>1, PushEntries
    <3> QED BY <2>1, <3>1 DEF Entries
  <2>2. CASE bursts' = Append(bursts, e) /\ transactions' = transactions
    <3>1. {bursts'[k] : k \in DOMAIN bursts'} = {bursts[k] : k \in DOMAIN bursts} \cup {e}
      BY <1>1, <2>2, PushEntries
    <3> QED BY <2>2, <3>1 DEF Entries
  <2> QED BY <2>1, <2>2
<1>3. FreshId(e, transactions, bursts)
  <2>1. \A i \in DOMAIN transactions : transactions[i].id < Len(history)
    BY DEF IInv, Tracks
  <2>2. \A i \in DOMAIN bursts : bursts[i].id < Len(history)
    BY DEF IInv, Tracks
  <2>3. Len(history) \in Nat
    BY DEF IInv, HistoryOK, HistoryType
  <2> QED BY <2>1, <2>2, <2>3 DEF FreshId, Ids
<1>4. OpenOf(transactions', bursts') = OpenWith(transactions, bursts, e)
  BY <1>1, <1>2, <1>3, OpenEnter
<1>5. DOMAIN Open = Ids(transactions) \cup Ids(bursts)
  BY DEF Open
<1>6. DOMAIN Open' = (Ids(transactions) \cup Ids(bursts)) \cup {e.id}
  BY <1>4, OpenIsNext DEF OpenWith
<1>7. e.id \in DOMAIN Open' \ DOMAIN Open
  BY <1>3, <1>5, <1>6 DEF FreshId
<1>8. Open' = [i \in DOMAIN Open \cup {e.id} |->
                 IF i = e.id
                 THEN [request |-> r, done |-> 0, data |-> r.data, failed |-> FALSE]
                 ELSE Open[i]]
  BY <1>4, <1>5, OpenIs, OpenIsNext DEF OpenWith
<1> QED BY <1>7, <1>8 DEF Contract!Accept

(* A taken response is an answer.                                          *)
LEMMA AnswerStep ==
  ASSUME IInv, IInv', UNCHANGED mem, NEW e \in Entries(transactions, bursts), Finished(e),
         Entries(transactions', bursts') = Entries(transactions, bursts) \ {e}
  PROVE  e.id \in DOMAIN Open /\ Contract!Answer(e.id)
PROOF
<1>1. Apart(transactions, bursts) /\ Apart(transactions', bursts')
  BY InvApart, InvApartNext
<1>2. \A x \in Entries(transactions, bursts) : x.id = e.id => x = e
  BY <1>1 DEF Apart, Entries, Distinct, Disjoint
<1>3. OpenOf(transactions', bursts')
        = [i \in (Ids(transactions) \cup Ids(bursts)) \ {e.id} |->
             OpenOf(transactions, bursts)[i]]
  BY <1>1, <1>2, OpenLeave
<1>4. DOMAIN Open = Ids(transactions) \cup Ids(bursts)
  BY DEF Open
<1>5. /\ e.id \in Ids(transactions) \cup Ids(bursts)
      /\ OpenOf(transactions, bursts)[e.id] = View(e)
  <2>1. /\ Ids(transactions) \cup Ids(bursts) = {x.id : x \in Entries(transactions, bursts)}
        /\ \A x \in Entries(transactions, bursts) :
             OpenOf(transactions, bursts)[x.id] = View(x)
    BY <1>1, OpenIsEntries
  <2> QED BY <2>1
<1>6. EntryOK(e)
  BY <1>1 DEF Apart, TableOK, Entries
<1>7. Contract!Complete(Open[e.id])
  BY <1>5, <1>6, OpenIs, StepIsBeat
<1> QED BY <1>3, <1>4, <1>5, <1>7, OpenIs, OpenIsNext DEF Contract!Answer

LEMMA TakeTransactionStep ==
  ASSUME IInv, IInv', NEW i \in DOMAIN transactions, TakeTransactionResponse(i)
  PROVE  \E id \in DOMAIN Open : Contract!Answer(id)
PROOF
<1> DEFINE e == transactions[i]
<1>1. /\ Finished(e) /\ transactions' = SwapRemove(transactions, i)
      /\ UNCHANGED <<mem, bursts>>
  BY DEF TakeTransactionResponse
<1>2. Apart(transactions, bursts) /\ TableOK(transactions) /\ Distinct(transactions)
  BY InvApart DEF Apart
<1>3. \A k \in DOMAIN bursts : bursts[k] # e
  BY <1>2 DEF Apart, Disjoint
<1>4. Entries(transactions', bursts') = Entries(transactions, bursts) \ {e}
  <2>1. {transactions'[j] : j \in DOMAIN transactions'}
          = {transactions[j] : j \in DOMAIN transactions} \ {e}
    BY <1>1, <1>2, TakeEntries
  <2> HIDE DEF e
  <2> QED BY <1>1, <1>3, <2>1 DEF Entries
<1>5. e \in Entries(transactions, bursts)
  BY DEF Entries
<1> HIDE DEF e
<1> QED BY <1>1, <1>4, <1>5, AnswerStep

LEMMA TakeBurstStep ==
  ASSUME IInv, IInv', NEW i \in DOMAIN bursts, TakeBurstResponse(i)
  PROVE  \E id \in DOMAIN Open : Contract!Answer(id)
PROOF
<1> DEFINE e == bursts[i]
<1>1. /\ Finished(e) /\ bursts' = SwapRemove(bursts, i)
      /\ UNCHANGED <<mem, transactions>>
  BY DEF TakeBurstResponse
<1>2. Apart(transactions, bursts) /\ TableOK(bursts) /\ Distinct(bursts)
  BY InvApart DEF Apart
<1>3. \A k \in DOMAIN transactions : transactions[k] # e
  BY <1>2 DEF Apart, Disjoint
<1>4. Entries(transactions', bursts') = Entries(transactions, bursts) \ {e}
  <2>1. {bursts'[j] : j \in DOMAIN bursts'} = {bursts[j] : j \in DOMAIN bursts} \ {e}
    BY <1>1, <1>2, TakeEntries
  <2> HIDE DEF e
  <2> QED BY <1>1, <1>3, <2>1 DEF Entries
<1>5. e \in Entries(transactions, bursts)
  BY DEF Entries
<1> HIDE DEF e
<1> QED BY <1>1, <1>4, <1>5, AnswerStep

(* A request just submitted has performed nothing.                         *)
LEMMA NewEntryView ==
  ASSUME NEW id, NEW r
  PROVE  View(NewEntry(id, r)) = [request |-> r, done |-> 0, data |-> r.data, failed |-> FALSE]
  BY DEF View, NewEntry

LEMMA SubmitStep ==
  ASSUME IInv, IInv', NEW r \in RequestType,
         SubmitTransaction(r) \/ SubmitBurst(r)
  PROVE  Contract!Accept(r)
PROOF
<1> DEFINE e == NewEntry(NextId, r)
<1>1. Len(history) \in Nat
  BY DEF IInv, HistoryOK, HistoryType
<1>2. EntryOK(e)
  BY <1>1, NewEntryOK DEF SubmitTransaction, SubmitBurst, NextId
<1>3. e.id = Len(history)
  BY DEF NewEntry, NextId
<1>4. /\ UNCHANGED mem
      /\ \/ transactions' = Append(transactions, e) /\ bursts' = bursts
         \/ bursts' = Append(bursts, e) /\ transactions' = transactions
  BY DEF SubmitTransaction, SubmitBurst
<1>5. View(e) = [request |-> r, done |-> 0, data |-> r.data, failed |-> FALSE]
  BY NewEntryView
<1> HIDE DEF e
<1> QED BY <1>2, <1>3, <1>4, <1>5, AcceptStep

(* The polled call: an accepted request, a store done at once, or a read   *)
(* or a refusal answered at once, which leaves nothing behind.             *)
LEMMA PerformFirstStep ==
  ASSUME IInv, IInv', NEW r \in AccessRequests, PerformFirst(r)
  PROVE  Contract!Accept(r) \/ Contract!StoreAtOnce(r) \/ UNCHANGED <<mem, Open>>
PROOF
<1> DEFINE fresh == NewEntry(NextId, r)
<1>1. Len(history) \in Nat /\ r \in RequestType /\ Beats(r) = 1 /\ IsMemory(mem)
      /\ mem \in [Words -> Values]
  BY RequestsAssumption, InvApart DEF IInv, HistoryOK, HistoryType
<1>2. EntryOK(fresh)
  BY <1>1, NewEntryOK DEF PerformFirst, PerformSubmit, NextId
<1>3. /\ fresh.id = Len(history) /\ BeatAddr(fresh) = r.addr /\ fresh.request = r
      /\ fresh.beat = 0 /\ ~Finished(fresh)
  BY <1>1 DEF NextId, NewEntry, BeatAddr, RequestType, Finished
<1>4. PICK latency \in LatencyChoices(<<fresh>>) :
        LET entry == Advance(fresh, latency[1], mem[r.addr])
        IN  /\ mem' = MemAfter(<<fresh>>, latency, mem, 1)
            /\ \/ /\ Finished(entry)
                  /\ UNCHANGED <<transactions, compat>>
               \/ /\ ~Finished(entry)
                  /\ transactions' = Append(transactions, entry)
  BY DEF PerformFirst, PerformSubmit
<1>5. UNCHANGED bursts
  BY DEF PerformFirst, PerformSubmit
<1> DEFINE entry == Advance(fresh, latency[1], mem[BeatAddr(fresh)])
<1>6. /\ mem' = MemAfter(<<fresh>>, latency, mem, 1)
      /\ \/ Finished(entry) /\ UNCHANGED transactions
         \/ ~Finished(entry) /\ transactions' = Append(transactions, entry)
  BY <1>3, <1>4
<1>7. View(fresh) = [request |-> r, done |-> 0, data |-> r.data, failed |-> FALSE]
  BY NewEntryView
<1> HIDE DEF fresh
<1>8. EntryOK(entry) /\ entry.id = Len(history)
  BY <1>1, <1>2, <1>3, AdvanceOne
<1>9. mem' = IF Acts(fresh, latency[1]) THEN Contract!Stored(View(fresh), mem) ELSE mem
  <2> DEFINE one == <<fresh>>
  <2>1. TableOK(one) /\ Len(one) = 1 /\ one[1] = fresh
    BY <1>2, SingleEntry
  <2>2. mem' = MemAfter(one, latency, mem, 1)
    BY <1>6
  <2> HIDE DEF one
  <2>3. PICK n \in 1 .. Len(one) : n = 1
    BY <2>1
  <2>4. MemAfter(one, latency, mem, n)
          = IF Acts(one[n], latency[n])
            THEN Contract!Stored(View(one[n]), MemAfter(one, latency, mem, n - 1))
            ELSE MemAfter(one, latency, mem, n - 1)
    BY <2>1, StepIsStore
  <2>5. n - 1 = 0 /\ MemAfter(one, latency, mem, 0) = mem
    BY <1>1, <2>3, NoStep
  <2> QED BY <2>1, <2>2, <2>3, <2>4, <2>5
<1>10. CASE Finished(entry) /\ UNCHANGED transactions
  <2>1. UNCHANGED Open
    BY <1>5, <1>10, OpenIs, OpenIsNext
  <2>2. CASE Contract!Stored(View(fresh), mem) = mem
    BY <1>9, <2>1, <2>2
  <2>3. CASE Contract!Stored(View(fresh), mem) # mem /\ ~Acts(fresh, latency[1])
    BY <1>9, <2>1, <2>3
  <2>4. CASE Contract!Stored(View(fresh), mem) # mem /\ Acts(fresh, latency[1])
    <3>1. View(fresh).request = r /\ View(fresh).done = 0 /\ r.addr \in Nat
      BY <1>1, <1>7 DEF RequestType
    <3>2. r.kind = "store" /\ ~Contract!Refused(View(fresh))
      BY <2>4, <3>1 DEF Contract!Stored
    <3>3. Contract!BeatWord(View(fresh)) = r.addr
      BY <3>1 DEF Contract!BeatWord
    <3>4. r.addr \notin ReadOnly
      BY <3>1, <3>2, <3>3 DEF Contract!Refused
    <3>5. mem' = [mem EXCEPT ![r.addr] = r.data[1]]
      BY <1>9, <2>4, <3>1, <3>2, <3>3 DEF Contract!Stored
    <3> QED BY <2>1, <3>2, <3>4, <3>5 DEF Contract!StoreAtOnce
  <2> QED BY <2>2, <2>3, <2>4
<1>11. CASE ~Finished(entry) /\ transactions' = Append(transactions, entry)
  <2>1. ~Acts(fresh, latency[1])
    <3> SUFFICES ASSUME Acts(fresh, latency[1]) PROVE FALSE
      OBVIOUS
    <3>1. CASE Rejected(fresh)
      <4>1. entry = [fresh EXCEPT !.phase = [state |-> "Failed", remaining |-> 0]]
        BY <3>1 DEF Acts, Advance
      <4>2. entry.phase.state = "Failed"
        BY <1>2, <4>1 DEF EntryOK, EntryType, PhaseType
      <4> HIDE DEF entry
      <4> QED BY <1>11, <4>2 DEF Finished
    <3>2. CASE ~Rejected(fresh)
      <4>1. entry = CompleteBeat(fresh, mem[BeatAddr(fresh)])
        BY <3>2 DEF Acts, Advance
      <4>2. entry.phase.state = "Ready"
        BY <1>1, <1>3, <4>1 DEF CompleteBeat
      <4> HIDE DEF entry
      <4> QED BY <1>11, <4>2 DEF Finished
    <3> QED BY <3>1, <3>2
  <2>2. View(entry) = View(fresh)
    BY <1>2, <2>1, StepIsBeat
  <2>3. UNCHANGED mem
    BY <1>9, <2>1
  <2> HIDE DEF entry
  <2>4. View(entry) = [request |-> r, done |-> 0, data |-> r.data, failed |-> FALSE]
    BY <1>7, <2>2
  <2> QED BY <1>5, <1>8, <1>11, <2>3, <2>4, AcceptStep
<1> QED BY <1>6, <1>10, <1>11

(* No request is open.                                                     *)
LEMMA NothingOpen == OpenOf(<< >>, << >>) = << >>
PROOF
<1>1. Ids(<< >>) = {}
  BY DEF Ids
<1>2. OpenOf(<< >>, << >>) = [id \in {} |-> OpenOf(<< >>, << >>)[id]]
  BY <1>1 DEF OpenOf
<1>3. DOMAIN << >> = {}
  OBVIOUS
<1>4. << >> = [id \in {} |-> OpenOf(<< >>, << >>)[id]]
  BY <1>3
<1> QED BY <1>2, <1>4

LEMMA ContractInit == Init => Contract!Init
  BY OpenIs, NothingOpen DEF Init, Contract!Init

LEMMA ContractStep == IInv /\ IInv' /\ [Next]_vars => [Contract!Next]_(Contract!vars)
PROOF
<1> SUFFICES ASSUME IInv, IInv', [Next]_vars PROVE Contract!Next \/ UNCHANGED <<mem, Open>>
  BY DEF Contract!vars
<1> USE DEF Contract!Next
<1>1. CASE Tick
  BY <1>1, TickStep
<1>2. ASSUME NEW r \in AccessRequests, SubmitTransaction(r) PROVE Contract!Next
  BY <1>2, SubmitStep, RequestsAssumption
<1>3. ASSUME NEW r \in AccessRequests, PerformFirst(r)
      PROVE  Contract!Next \/ UNCHANGED <<mem, Open>>
  BY <1>3, PerformFirstStep
<1>4. ASSUME NEW r \in AccessRequests, PerformRetry(r) PROVE Contract!Next
  <2>1. IndexOf(transactions, compat.id) \in DOMAIN transactions
    BY <1>4 DEF PerformRetry, Ids, IndexOf
  <2> QED BY <1>4, <2>1, TakeTransactionStep DEF PerformRetry
<1>5. ASSUME NEW r \in BurstRequests, SubmitBurst(r) PROVE Contract!Next
  BY <1>5, SubmitStep, RequestsAssumption
<1>6. ASSUME NEW i \in DOMAIN transactions, AdvanceTransaction(i) PROVE Contract!Next
  BY <1>6, AdvanceTransactionStep
<1>7. ASSUME NEW i \in DOMAIN transactions, TakeTransactionResponse(i) PROVE Contract!Next
  BY <1>7, TakeTransactionStep
<1>8. ASSUME NEW i \in DOMAIN bursts, AdvanceBurst(i) PROVE Contract!Next
  BY <1>8, AdvanceBurstStep
<1>9. ASSUME NEW i \in DOMAIN bursts, TakeBurstResponse(i) PROVE Contract!Next
  BY <1>9, TakeBurstStep
<1>10. CASE Reset
  BY <1>10, OpenIsNext, NothingOpen DEF Reset, Contract!Reset
<1>11. CASE UNCHANGED vars
  BY <1>11, OpenIs, OpenIsNext DEF vars
<1> QED
  BY <1>1, <1>2, <1>3, <1>4, <1>5, <1>6, <1>7, <1>8, <1>9, <1>10, <1>11 DEF Next

(* Whatever the devices, latencies and callers, and however many requests  *)
(* are in flight, the memory map does what the bus contract says: nothing  *)
(* changes a word but the beats of accepted stores, each performed whole   *)
(* and in order, and no request is answered before its beats are done.     *)
THEOREM ImplementsContract == Spec => KeepsBusContract
PROOF
<1>1. Init => Contract!Init
  BY ContractInit
<1>2. IInv /\ IInv' /\ [Next]_vars => [Contract!Next]_(Contract!vars)
  BY ContractStep
<1>3. Spec => []IInv
  BY Invariance
<1> QED BY <1>1, <1>2, <1>3, PTL DEF Spec, KeepsBusContract, Contract!Spec
=============================================================================
