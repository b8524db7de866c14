------------------------ MODULE BusProtocolProofs ------------------------
(***************************************************************************)
(* What a step of the bus protocol does to an entry, to a table of entries *)
(* and to the words, for every device layout and latency.                  *)
(***************************************************************************)
EXTENDS BusProtocol, TLAPS, WellFoundedInduction, NaturalsInduction

(* A non-empty set of table positions has a greatest one.                  *)
LEMMA GreatestPosition ==
  ASSUME NEW n \in Nat, NEW S \in SUBSET (1 .. n), S # {}
  PROVE  Max(S) \in S /\ \A j \in S : Max(S) >= j
PROOF
<1> DEFINE R == OpToRel(<, Nat)
           T == {n - i : i \in S}
<1>1. IsWellFoundedOn(R, Nat)
  BY NatLessThanWellFounded
<1>2. T \subseteq Nat /\ T # {}
  <2>1. PICK k \in S : TRUE
    OBVIOUS
  <2>2. n - k \in T
    BY <2>1
  <2>3. \A j \in S : j \in 1 .. n /\ n - j \in Nat
    OBVIOUS
  <2> QED BY <2>2, <2>3
<1>3. PICK x \in T : \A y \in T : ~(<<y, x>> \in R)
  <2> HIDE DEF R, T
  <2> QED BY <1>1, <1>2, WFMin
<1>4. PICK i \in S : x = n - i
  OBVIOUS
<1>5. \A j \in S : i >= j
  <2> SUFFICES ASSUME NEW j \in S, ~(i >= j) PROVE FALSE
    OBVIOUS
  <2>1. n - j \in T /\ n - j \in Nat /\ x \in Nat /\ n - j < x
    BY <1>4
  <2>2. <<n - j, x>> \in R
    BY <2>1 DEF OpToRel
  <2> QED BY <1>3, <2>1, <2>2
<1> QED
  BY <1>5 DEF Max

(* What every entry of a table satisfies besides its type: all its beats   *)
(* are mapped, the beat index and the phase agree, a wait is never zero,   *)
(* and only a store to a word that refuses it has failed.                  *)
EntryOK(e) ==
  /\ e \in EntryType
  /\ Routable(e.request)
  /\ Len(e.data) = Beats(e.request)
  /\ e.beat <= Beats(e.request)
  /\ (e.phase.state = "Ready") <=> (e.beat = Beats(e.request))
  /\ e.phase.state = "InFlight" => e.phase.remaining >= 1
  /\ e.phase.state = "Failed" => Rejected(e)

TableOK(table) ==
  /\ table \in Seq(EntryType)
  /\ \A i \in DOMAIN table : EntryOK(table[i])

(* No two entries have the same identifier.                                *)
Distinct(table) == \A i, j \in DOMAIN table : table[i].id = table[j].id => i = j

(* A submitted request is a well-formed entry.                             *)
LEMMA NewEntryOK ==
  ASSUME NEW id \in Nat, NEW r \in RequestType, Routable(r)
  PROVE  EntryOK(NewEntry(id, r))
  BY DEF EntryOK, NewEntry, EntryType, PhaseType, RequestType, Beats

(* The next beat of an unfinished entry is at a mapped word.               *)
LEMMA BeatAddrMapped ==
  ASSUME NEW e, EntryOK(e), ~Finished(e)
  PROVE  /\ BeatAddr(e) \in Words
         /\ e.beat + 1 \in 1 .. Beats(e.request)
PROOF
<1>1. /\ e.beat \in Nat /\ Beats(e.request) \in Nat
      /\ e.beat < Beats(e.request) /\ e.request.addr \in Nat
  BY DEF EntryOK, EntryType, RequestType, Finished, Beats, PhaseType
<1>2. CASE e.beat = 0
  BY <1>1, <1>2 DEF EntryOK, Routable, BeatAddr
<1>3. CASE e.beat # 0
  BY <1>1, <1>3 DEF EntryOK, Routable, BeatAddr
<1> QED BY <1>1, <1>2, <1>3

(* One protocol step keeps an entry well-formed, its identity and its      *)
(* request, and moves the beat index by at most one.                       *)
LEMMA AdvanceOK ==
  ASSUME NEW e, EntryOK(e), NEW l \in Nat, NEW v,
         ~Finished(e) => v \in Values
  PROVE  /\ EntryOK(Advance(e, l, v))
         /\ Advance(e, l, v).id = e.id
         /\ Advance(e, l, v).request = e.request
PROOF
<1> USE DEF EntryOK, EntryType, RequestType, PhaseType, Beats
<1>1. CASE Finished(e)
  BY <1>1 DEF Advance
<1>2. CASE ~Finished(e) /\ Due(e, l) /\ Rejected(e)
  <2>1. Advance(e, l, v) = [e EXCEPT !.phase = [state |-> "Failed", remaining |-> 0]]
    BY <1>2 DEF Advance
  <2>2. e.beat # Beats(e.request) /\ e.phase \in PhaseType
    BY <1>2 DEF Finished
  <2>3. /\ Advance(e, l, v) \in EntryType
        /\ Advance(e, l, v).id = e.id
        /\ Advance(e, l, v).request = e.request
        /\ Advance(e, l, v).data = e.data
        /\ Advance(e, l, v).beat = e.beat
        /\ Advance(e, l, v).phase.state = "Failed"
    BY <2>1, SMTT(30)
  <2>4. Rejected(Advance(e, l, v))
    BY <1>2, <2>3 DEF Rejected, BeatAddr
  <2> QED BY <2>2, <2>3, <2>4
<1>3. CASE ~Finished(e) /\ Due(e, l) /\ ~Rejected(e)
  <2>1. Advance(e, l, v) = CompleteBeat(e, v)
    BY <1>3 DEF Advance
  <2>2. e.beat + 1 \in 1 .. Len(e.request.data)
    BY <1>3, BeatAddrMapped
  <2>3. v \in Values
    BY <1>3
  <2>4. [e.data EXCEPT ![e.beat + 1] = v] \in Seq(Values)
        /\ Len([e.data EXCEPT ![e.beat + 1] = v]) = Len(e.data)
    BY <2>2, <2>3
  <2> DEFINE x == CompleteBeat(e, v)
  <2>5. /\ x.id = e.id
        /\ x.request = e.request
        /\ x.beat = e.beat + 1
        /\ x.phase \in PhaseType
        /\ (x.phase.state = "Ready") <=> (e.beat + 1 = Beats(e.request))
        /\ x.phase.state \notin {"InFlight", "Failed"}
    BY DEF CompleteBeat
  <2>6. x.data \in Seq(Values) /\ Len(x.data) = Len(e.data)
    BY <2>4 DEF CompleteBeat
  <2>7. x = [id |-> e.id, request |-> e.request, beat |-> e.beat + 1,
             data |-> x.data, phase |-> x.phase]
    BY DEF CompleteBeat
  <2> HIDE DEF x
  <2>8. x \in EntryType
    BY <2>5, <2>6, <2>7
  <2>9. e.beat \in Nat /\ x.beat <= Beats(x.request)
    BY <2>2, <2>5
  <2>10. EntryOK(x)
    BY <2>5, <2>6, <2>8, <2>9
  <2> QED BY <2>1, <2>5, <2>10 DEF x
<1>4. CASE ~Finished(e) /\ ~Due(e, l)
  <2>1. Advance(e, l, v) = Wait(e, l)
    BY <1>4 DEF Advance
  <2>2. e.phase.state \in {"Accepted", "InFlight"}
    BY <1>4 DEF Finished
  <2> DEFINE left == IF e.phase.state = "Accepted" THEN l ELSE e.phase.remaining - 1
             phase == [state |-> "InFlight", remaining |-> left]
  <2>3. left \in Nat /\ left >= 1
    BY <1>4, <2>2 DEF Due
  <2>4. Advance(e, l, v) = [e EXCEPT !.phase = phase]
    BY <2>1 DEF Wait
  <2>5. phase \in PhaseType /\ phase.state = "InFlight" /\ phase.remaining = left
    BY <2>3
  <2> HIDE DEF phase, left
  <2>6. /\ Advance(e, l, v) \in EntryType
        /\ Advance(e, l, v).id = e.id
        /\ Advance(e, l, v).request = e.request
        /\ Advance(e, l, v).data = e.data
        /\ Advance(e, l, v).beat = e.beat
        /\ Advance(e, l, v).phase = phase
    BY <2>4, <2>5
  <2>7. e.phase.state # "Ready"
    BY <2>2
  <2> QED BY <2>3, <2>5, <2>6, <2>7
<1> QED BY <1>1, <1>2, <1>3, <1>4

(* Only a beat that is performed moves the beat index, and only a read     *)
(* takes a word.                                                           *)
Progressed(e, x, l, v) ==
  /\ x.beat = IF Executes(e, l) THEN e.beat + 1 ELSE e.beat
  /\ x.data = IF Executes(e, l) /\ e.request.kind # "store"
              THEN [e.data EXCEPT ![e.beat + 1] = v] ELSE e.data

LEMMA AdvanceProgress ==
  ASSUME NEW e, EntryOK(e), NEW l \in Nat, NEW v
  PROVE  Progressed(e, Advance(e, l, v), l, v)
PROOF
<1> USE DEF Progressed, Executes
<1>1. CASE Finished(e)
  BY <1>1 DEF Advance
<1>2. CASE ~Finished(e) /\ Due(e, l) /\ Rejected(e)
  <2>1. Advance(e, l, v) = [e EXCEPT !.phase = [state |-> "Failed", remaining |-> 0]]
    BY <1>2 DEF Advance
  <2>2. Advance(e, l, v).beat = e.beat /\ Advance(e, l, v).data = e.data
    BY <2>1 DEF EntryOK, EntryType
  <2> QED BY <1>2, <2>2
<1>3. CASE ~Finished(e) /\ Due(e, l) /\ ~Rejected(e)
  <2>1. Advance(e, l, v) = CompleteBeat(e, v)
    BY <1>3 DEF Advance
  <2> QED BY <1>3, <2>1 DEF CompleteBeat
<1>4. CASE ~Finished(e) /\ ~Due(e, l)
  <2>1. Advance(e, l, v) = Wait(e, l)
    BY <1>4 DEF Advance
  <2>2. Wait(e, l).beat = e.beat /\ Wait(e, l).data = e.data
    BY DEF Wait, EntryOK, EntryType
  <2> QED BY <1>4, <2>1, <2>2
<1> QED BY <1>1, <1>2, <1>3, <1>4

(* The i-th entry stores v at w in this cycle.                             *)
StoresAt(table, latency, i, w) == Writes(table[i], latency[i]) /\ BeatAddr(table[i]) = w

(* A word changes only by a beat stored there, and takes such a beat.      *)
Changed(table, latency, m, n, w, v) ==
  \/ v = m[w] /\ \A i \in 1 .. n : ~StoresAt(table, latency, i, w)
  \/ \E i \in 1 .. n : /\ StoresAt(table, latency, i, w)
                       /\ v = table[i].request.data[table[i].beat + 1]

LEMMA MemAfterChanges ==
  ASSUME NEW table, NEW latency, NEW m, NEW n \in Nat, NEW w \in Words
  PROVE  Changed(table, latency, m, n, w, MemAfter(table, latency, m, n)[w])
PROOF
<1> DEFINE writers == {i \in 1 .. n : Writes(table[i], latency[i]) /\ BeatAddr(table[i]) = w}
           last == table[Max(writers)]
<1>1. MemAfter(table, latency, m, n)[w]
        = IF writers = {} THEN m[w] ELSE last.request.data[last.beat + 1]
  BY DEF MemAfter
<1>2. CASE writers = {}
  BY <1>1, <1>2 DEF Changed, StoresAt
<1>3. CASE writers # {}
  <2>1. Max(writers) \in writers
    <3>1. writers \in SUBSET (1 .. n)
      OBVIOUS
    <3> HIDE DEF writers
    <3> QED BY <1>3, <3>1, GreatestPosition
  <2>2. /\ Max(writers) \in 1 .. n
        /\ StoresAt(table, latency, Max(writers), w)
    BY <2>1 DEF StoresAt
  <2> HIDE DEF writers
  <2> QED BY <1>1, <1>3, <2>2 DEF Changed
<1> QED BY <1>2, <1>3

(* The words keep their type through a step of a table.                    *)
LEMMA MemAfterType ==
  ASSUME NEW table, TableOK(table), NEW latency \in [DOMAIN table -> Nat],
         NEW m \in [Words -> Values], NEW n \in 0 .. Len(table)
  PROVE  MemAfter(table, latency, m, n) \in [Words -> Values]
PROOF
<1> SUFFICES ASSUME NEW w \in Words
             PROVE  MemAfter(table, latency, m, n)[w] \in Values
  BY DEF MemAfter
<1> DEFINE writers == {i \in 1 .. n : Writes(table[i], latency[i]) /\ BeatAddr(table[i]) = w}
           last == table[Max(writers)]
<1>1. MemAfter(table, latency, m, n)[w]
        = IF writers = {} THEN m[w] ELSE last.request.data[last.beat + 1]
  BY DEF MemAfter
<1>2. CASE writers = {}
  BY <1>1, <1>2
<1>3. CASE writers # {}
  <2>1. writers \in SUBSET (1 .. n) /\ n \in Nat
    BY DEF TableOK
  <2>2. Max(writers) \in writers
    <3> HIDE DEF writers
    <3> QED BY <2>1, <1>3, GreatestPosition
  <2>3. Max(writers) \in DOMAIN table
    BY <2>2 DEF TableOK
  <2>4. EntryOK(last) /\ ~Finished(last)
    BY <2>2, <2>3 DEF TableOK, Writes, Executes
  <2>5. last.beat + 1 \in 1 .. Len(last.request.data)
    BY <2>4, BeatAddrMapped DEF Beats
  <2>6. last.request.data \in Seq(Values)
    BY <2>4 DEF EntryOK, EntryType, RequestType
  <2>7. last.request.data[last.beat + 1] \in Values
    <3> HIDE DEF last
    <3> QED BY <2>5, <2>6
  <2> QED BY <1>1, <1>3, <2>7
<1> QED BY <1>2, <1>3

(* A clock cycle keeps a table well-formed and every position's identity   *)
(* and request.                                                            *)
LEMMA AdvanceAllOK ==
  ASSUME NEW table, TableOK(table), NEW latency \in [DOMAIN table -> Nat],
         NEW m \in [Words -> Values]
  PROVE  /\ TableOK(AdvanceAll(table, latency, m))
         /\ DOMAIN AdvanceAll(table, latency, m) = DOMAIN table
         /\ \A i \in DOMAIN table :
              /\ AdvanceAll(table, latency, m)[i].id = table[i].id
              /\ AdvanceAll(table, latency, m)[i].request = table[i].request
PROOF
<1> DEFINE next == AdvanceAll(table, latency, m)
           word(i) == MemAfter(table, latency, m, i - 1)[BeatAddr(table[i])]
<1>1. Len(table) \in Nat /\ DOMAIN table = 1 .. Len(table)
  BY DEF TableOK
<1>2. ASSUME NEW i \in DOMAIN table
      PROVE  /\ next[i] = Advance(table[i], latency[i], word(i))
             /\ EntryOK(next[i])
             /\ next[i].id = table[i].id
             /\ next[i].request = table[i].request
  <2>1. next[i] = Advance(table[i], latency[i], word(i))
    BY DEF AdvanceAll
  <2>2. EntryOK(table[i])
    BY DEF TableOK
  <2>3. ~Finished(table[i]) => word(i) \in Values
    <3> SUFFICES ASSUME ~Finished(table[i]) PROVE word(i) \in Values
      OBVIOUS
    <3>1. i - 1 \in 0 .. Len(table)
      BY <1>1
    <3>2. MemAfter(table, latency, m, i - 1) \in [Words -> Values]
      BY <3>1, MemAfterType
    <3> QED BY <3>2, <2>2, BeatAddrMapped
  <2>4. latency[i] \in Nat
    OBVIOUS
  <2> HIDE DEF word
  <2> QED BY <2>1, <2>2, <2>3, <2>4, AdvanceOK
<1>3. DOMAIN next = DOMAIN table
  BY DEF AdvanceAll
<1>4. next \in Seq(EntryType)
  <2>1. next = [i \in 1 .. Len(table) |-> next[i]]
    BY <1>1 DEF AdvanceAll
  <2>2. \A i \in 1 .. Len(table) : next[i] \in EntryType
    BY <1>1, <1>2 DEF EntryOK
  <2> HIDE DEF next
  <2> QED BY <1>1, <2>1, <2>2
<1>5. TableOK(next)
  <2> HIDE DEF next
  <2> QED BY <1>2, <1>3, <1>4 DEF TableOK
<1> QED BY <1>2, <1>3, <1>5

(* Devices answer latencies in Nat.                                        *)
LEMMA LatencyType ==
  ASSUME NEW table, NEW latency \in LatencyChoices(table)
  PROVE  latency \in [DOMAIN table -> Nat]
PROOF
<1>1. {0} \cup UNION {Latencies[w] : w \in Words} \subseteq Nat
  BY DevicesAssumption
<1>2. latency \in [DOMAIN table -> {0} \cup UNION {Latencies[w] : w \in Words}]
  BY DEF LatencyChoices
<1> QED BY <1>1, <1>2

=============================================================================
