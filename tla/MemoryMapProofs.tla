-------------------------- MODULE MemoryMapProofs --------------------------
(***************************************************************************)
(* Safety of the memory map for every device layout, latency and request   *)
(* set.                                                                    *)
(***************************************************************************)
EXTENDS MemoryMap, BusProtocolProofs

----------------------------------------------------------------------------
(* The inductive invariant relates each table to the identifier records.   *)
HistoryEntry == [request : RequestType, executed : Nat, answers : Nat, polled : BOOLEAN]

HistoryType == Seq(HistoryEntry)

Disjoint(t, b) == \A i \in DOMAIN t, j \in DOMAIN b : t[i].id # b[j].id

(* The record of an entry that is still in a table.                        *)
Matches(record, entry) ==
  /\ record.request = entry.request
  /\ record.executed = entry.beat
  /\ record.answers = 0

Tracks(table, h) ==
  \A i \in DOMAIN table :
    table[i].id < Len(h) /\ Matches(h[table[i].id + 1], table[i])

RecordOK(record) ==
  /\ record \in HistoryEntry
  /\ record.answers = 0 \/ (record.answers = 1 /\ Complete(record))

HistoryOK(h) ==
  /\ h \in HistoryType
  /\ \A n \in DOMAIN h : RecordOK(h[n])

Names(table, n) == \E i \in DOMAIN table : table[i].id + 1 = n

(* No accepted request has left its table without an answer.               *)
Held(t, b, h) == \A n \in DOMAIN h : h[n].answers = 0 => Names(t, n) \/ Names(b, n)

(* A polled access that is unanswered is the one that is remembered.       *)
Remembered(h, c) ==
  \A n \in DOMAIN h : h[n].answers = 0 /\ h[n].polled => c # None /\ c.id + 1 = n

IInv ==
  /\ mem \in [Words -> Values]
  /\ TableOK(transactions)
  /\ TableOK(bursts)
  /\ compat \in {None} \cup [id : Nat, request : AccessRequests]
  /\ HistoryOK(history)
  /\ Distinct(transactions)
  /\ Distinct(bursts)
  /\ Disjoint(transactions, bursts)
  /\ Tracks(transactions, history)
  /\ Tracks(bursts, history)
  /\ Held(transactions, bursts, history)
  /\ Remembered(history, compat)
  /\ CompatBacked

LEMMA HeldEitherWay == ASSUME NEW t, NEW b, NEW h, Held(t, b, h) PROVE Held(b, t, h)
  BY DEF Held

(* What a new identifier's record looks like.                              *)
LEMMA OpenedOK ==
  ASSUME NEW r \in RequestType, NEW polled \in BOOLEAN, NEW id
  PROVE  /\ RecordOK(Opened(r, polled)) /\ Matches(Opened(r, polled), NewEntry(id, r))
         /\ Opened(r, polled).polled = polled
  BY DEF RecordOK, HistoryEntry, Opened, Matches, NewEntry

(* A new identifier's record does not disturb the others.                  *)
LEMMA HistoryAppend ==
  ASSUME NEW h, HistoryOK(h), NEW x, RecordOK(x)
  PROVE  /\ HistoryOK(Append(h, x))
         /\ Len(h) \in Nat /\ DOMAIN h = 1 .. Len(h) /\ Len(Append(h, x)) = Len(h) + 1
         /\ DOMAIN Append(h, x) = 1 .. (Len(h) + 1)
         /\ \A n \in DOMAIN h : n \in DOMAIN Append(h, x) /\ Append(h, x)[n] = h[n]
         /\ Append(h, x)[Len(h) + 1] = x
         /\ \A n \in DOMAIN Append(h, x) : n \in DOMAIN h \/ n = Len(h) + 1
PROOF
<1>1. h \in HistoryType /\ x \in HistoryEntry /\ Len(h) \in Nat /\ DOMAIN h = 1 .. Len(h)
  BY DEF HistoryOK, HistoryType, RecordOK
<1>2. /\ Len(Append(h, x)) = Len(h) + 1
      /\ \A n \in 1 .. Len(h) : Append(h, x)[n] = h[n]
      /\ Append(h, x)[Len(h) + 1] = x
      /\ Append(h, x) \in HistoryType
      /\ DOMAIN Append(h, x) = 1 .. (Len(h) + 1)
  BY <1>1 DEF HistoryType
<1>3. \A n \in DOMAIN Append(h, x) : n \in DOMAIN h \/ n = Len(h) + 1
  BY <1>1, <1>2
<1>4. \A n \in DOMAIN h : n \in DOMAIN Append(h, x)
  BY <1>1, <1>2
<1>5. HistoryOK(Append(h, x))
  BY <1>1, <1>2, <1>3 DEF HistoryOK
<1> QED BY <1>1, <1>2, <1>3, <1>4, <1>5

LEMMA TracksAppend ==
  ASSUME NEW table, TableOK(table), NEW h, HistoryOK(h), Tracks(table, h),
         NEW x, RecordOK(x)
  PROVE  Tracks(table, Append(h, x))
PROOF
<1> SUFFICES ASSUME NEW i \in DOMAIN table
             PROVE  /\ table[i].id < Len(Append(h, x))
                    /\ Matches(Append(h, x)[table[i].id + 1], table[i])
  BY DEF Tracks
<1>1. table[i].id \in Nat
  BY DEF TableOK, EntryOK, EntryType
<1>2. table[i].id < Len(h) /\ Matches(h[table[i].id + 1], table[i])
  BY DEF Tracks
<1>3. table[i].id + 1 \in DOMAIN h
  BY <1>1, <1>2, HistoryAppend
<1> QED BY <1>1, <1>2, <1>3, HistoryAppend

LEMMA RememberedAppend ==
  ASSUME NEW h, HistoryOK(h), NEW c, Remembered(h, c), NEW x, RecordOK(x),
         x.answers = 0 /\ x.polled => c # None /\ c.id = Len(h)
  PROVE  Remembered(Append(h, x), c)
  BY HistoryAppend DEF Remembered

(* Entering a request under the next identifier.                           *)
LEMMA EnterEntry ==
  ASSUME NEW table, TableOK(table), NEW other, TableOK(other), NEW h, HistoryOK(h),
         Tracks(table, h), Tracks(other, h), Distinct(table), Disjoint(table, other),
         Held(table, other, h),
         NEW e, EntryOK(e), e.id = Len(h), NEW x, RecordOK(x), Matches(x, e)
  PROVE  LET t == Append(table, e)
             g == Append(h, x)
         IN  /\ TableOK(t) /\ Distinct(t) /\ Disjoint(t, other) /\ Disjoint(other, t)
             /\ Tracks(t, g) /\ Tracks(other, g) /\ HistoryOK(g) /\ Held(t, other, g)
             /\ DOMAIN t = 1 .. (Len(table) + 1)
             /\ \A i \in DOMAIN table : i \in DOMAIN t /\ t[i] = table[i]
             /\ t[Len(table) + 1] = e
PROOF
<1> DEFINE t == Append(table, e)
           g == Append(h, x)
<1>1. Tracks(other, g) /\ Tracks(table, g) /\ HistoryOK(g)
  BY TracksAppend, HistoryAppend
<1>2. /\ table \in Seq(EntryType) /\ e \in EntryType /\ Len(table) \in Nat
      /\ DOMAIN table = 1 .. Len(table) /\ Len(h) \in Nat
  BY HistoryAppend DEF TableOK, EntryOK
<1>3. /\ t \in Seq(EntryType) /\ DOMAIN t = 1 .. (Len(table) + 1)
      /\ \A i \in DOMAIN table : i \in DOMAIN t /\ t[i] = table[i]
      /\ t[Len(table) + 1] = e /\ Len(table) + 1 \in DOMAIN t
  BY <1>2
<1>4. g[Len(h) + 1] = x /\ Len(g) = Len(h) + 1
  BY HistoryAppend
<1> HIDE DEF t
<1>5. \A i \in DOMAIN t : \/ i \in DOMAIN table /\ t[i] = table[i]
                          \/ i = Len(table) + 1 /\ t[i] = e
  <2> TAKE i \in DOMAIN t
  <2>1. CASE i \in DOMAIN table
    BY <1>3, <2>1
  <2>2. CASE i \notin DOMAIN table
    <3>1. i \in 1 .. (Len(table) + 1) /\ i \notin 1 .. Len(table)
      BY <1>2, <1>3, <2>2
    <3>2. i = Len(table) + 1
      BY <1>2, <3>1
    <3> QED BY <1>3, <3>2
  <2> QED BY <2>1, <2>2
<1>6. TableOK(t)
  BY <1>3, <1>5 DEF TableOK
<1>7. Held(t, other, g)
  <2> SUFFICES ASSUME NEW n \in DOMAIN g, g[n].answers = 0
               PROVE  Names(t, n) \/ Names(other, n)
    BY DEF Held
  <2>1. CASE n \in DOMAIN h
    <3>1. Names(table, n) \/ Names(other, n)
      BY <2>1, HistoryAppend DEF Held
    <3> QED BY <3>1, <1>3 DEF Names
  <2>2. CASE n = Len(h) + 1
    BY <2>2, <1>3 DEF Names
  <2> QED BY <2>1, <2>2, HistoryAppend
<1> HIDE DEF g
<1>8. Tracks(t, g)
  BY <1>1, <1>2, <1>4, <1>5 DEF Tracks
<1>9. \A i \in DOMAIN table : table[i].id # e.id
  BY <1>2 DEF Tracks, TableOK, EntryOK, EntryType
<1>10. \A i \in DOMAIN other : other[i].id # e.id
  BY <1>2 DEF Tracks, TableOK, EntryOK, EntryType
<1>11. Distinct(t)
  BY <1>5, <1>9 DEF Distinct
<1>12. Disjoint(t, other) /\ Disjoint(other, t)
  BY <1>5, <1>10 DEF Disjoint
<1> QED BY <1>1, <1>3, <1>6, <1>8, <1>11, <1>12, <1>7 DEF t, g

(* A response is taken only for a request that is complete.                *)
LEMMA FinishedIsComplete ==
  ASSUME NEW e, EntryOK(e), Finished(e), NEW x, x.request = e.request, x.executed = e.beat
  PROVE  Complete(x)
PROOF
<1>1. e.beat \in Nat /\ Beats(e.request) \in Nat /\ e.beat <= Beats(e.request)
  BY DEF EntryOK, EntryType, RequestType, Beats
<1>2. CASE e.phase.state = "Ready"
  BY <1>1, <1>2 DEF EntryOK, Complete
<1>3. CASE e.phase.state = "Failed"
  <2>1. e.beat # Beats(e.request) /\ Rejected(e)
    BY <1>3 DEF EntryOK
  <2> QED BY <1>1, <2>1 DEF Complete, Rejected, BeatAddr
<1> QED BY <1>2, <1>3 DEF Finished

(* Taking the response at position k of a table.                           *)
LEMMA RemoveEntry ==
  ASSUME NEW table, TableOK(table), NEW other, TableOK(other), NEW h, HistoryOK(h),
         Tracks(table, h), Tracks(other, h), Distinct(table), Disjoint(table, other),
         Held(table, other, h), NEW k \in DOMAIN table, Finished(table[k])
  PROVE  LET t == SwapRemove(table, k)
             g == Answered(h, table[k].id)
         IN  /\ TableOK(t) /\ Distinct(t) /\ Disjoint(t, other) /\ Disjoint(other, t)
             /\ Tracks(t, g) /\ Tracks(other, g) /\ HistoryOK(g) /\ Held(t, other, g)
             /\ DOMAIN g = DOMAIN h /\ g[table[k].id + 1].answers = 1
             /\ \A n \in DOMAIN h \ {table[k].id + 1} : g[n] = h[n]
             /\ \A i \in DOMAIN table \ {k} : \E j \in DOMAIN t : t[j] = table[i]
PROOF
<1> DEFINE t == SwapRemove(table, k)
           id == table[k].id
           g == Answered(h, id)
           from(j) == IF j = k THEN Len(table) ELSE j
<1>1. /\ table \in Seq(EntryType) /\ Len(table) \in Nat /\ DOMAIN table = 1 .. Len(table)
      /\ h \in HistoryType /\ Len(h) \in Nat /\ DOMAIN h = 1 .. Len(h)
      /\ id \in Nat /\ id + 1 \in DOMAIN h /\ Matches(h[id + 1], table[k])
  <2>1. table \in Seq(EntryType) /\ id \in Nat
    BY DEF TableOK, EntryOK, EntryType
  <2>2. h \in HistoryType /\ Len(h) \in Nat /\ DOMAIN h = 1 .. Len(h)
    BY DEF HistoryOK, HistoryType
  <2>3. id < Len(h) /\ Matches(h[id + 1], table[k])
    BY DEF Tracks
  <2> HIDE DEF id
  <2> QED BY <2>1, <2>2, <2>3
<1>2. /\ DOMAIN t = 1 .. (Len(table) - 1)
      /\ \A j \in DOMAIN t : from(j) \in DOMAIN table /\ from(j) # k /\ t[j] = table[from(j)]
  BY <1>1 DEF SwapRemove
<1>3. TableOK(t)
  <2>1. t = [j \in 1 .. (Len(table) - 1) |-> t[j]]
    BY <1>1 DEF SwapRemove
  <2>2. Len(table) - 1 \in Nat /\ \A j \in 1 .. (Len(table) - 1) : t[j] \in EntryType /\ EntryOK(t[j])
    <3>1. Len(table) - 1 \in Nat
      BY <1>1
    <3>2. \A i \in DOMAIN table : EntryOK(table[i]) /\ table[i] \in EntryType
      BY DEF TableOK, EntryOK
    <3> HIDE DEF t, from
    <3> QED BY <3>1, <3>2, <1>2
  <2> HIDE DEF t
  <2> QED BY <2>1, <2>2, <1>2 DEF TableOK
<1>4. Distinct(t)
  BY <1>2 DEF Distinct
<1>5. Disjoint(t, other) /\ Disjoint(other, t)
  BY <1>2 DEF Disjoint
<1>6. /\ g \in HistoryType /\ DOMAIN g = DOMAIN h /\ Len(g) = Len(h)
      /\ g[id + 1].answers = 1 /\ RecordOK(g[id + 1])
      /\ \A n \in DOMAIN h \ {id + 1} : g[n] = h[n]
  <2>1. h[id + 1] \in HistoryEntry /\ h[id + 1].answers = 0
    BY <1>1 DEF HistoryType, Matches
  <2>2. g = [h EXCEPT ![id + 1] = [h[id + 1] EXCEPT !.answers = h[id + 1].answers + 1]]
    BY DEF Answered
  <2> DEFINE y == [h[id + 1] EXCEPT !.answers = h[id + 1].answers + 1]
  <2>3. /\ y \in HistoryEntry
        /\ y.answers = 1 /\ y.executed = h[id + 1].executed /\ y.request = h[id + 1].request
    BY <2>1 DEF HistoryEntry
  <2>4. EntryOK(table[k])
    BY DEF TableOK
  <2> HIDE DEF y
  <2>5. y.request = table[k].request /\ y.executed = table[k].beat
    BY <1>1, <2>3 DEF Matches
  <2>6. RecordOK(y)
    BY <2>3, <2>4, <2>5, FinishedIsComplete DEF RecordOK
  <2>7. g = [h EXCEPT ![id + 1] = y]
    BY <2>2 DEF y
  <2> HIDE DEF id
  <2> QED BY <1>1, <2>3, <2>6, <2>7 DEF HistoryType
<1> HIDE DEF g, t
<1>7. HistoryOK(g)
  BY <1>1, <1>6 DEF HistoryOK
<1>8. Tracks(other, g)
  <2> SUFFICES ASSUME NEW i \in DOMAIN other
               PROVE  other[i].id < Len(g) /\ Matches(g[other[i].id + 1], other[i])
    BY DEF Tracks
  <2>1. other[i].id # id /\ other[i].id \in Nat
    BY DEF Disjoint, TableOK, EntryOK, EntryType
  <2>2. other[i].id < Len(h) /\ Matches(h[other[i].id + 1], other[i])
    BY DEF Tracks
  <2> QED BY <1>1, <1>6, <2>1, <2>2
<1>9. Tracks(t, g)
  <2> SUFFICES ASSUME NEW j \in DOMAIN t
               PROVE  t[j].id < Len(g) /\ Matches(g[t[j].id + 1], t[j])
    BY DEF Tracks
  <2>1. from(j) \in DOMAIN table /\ t[j] = table[from(j)] /\ from(j) # k
    BY <1>2
  <2> HIDE DEF from
  <2>2. t[j].id # id /\ t[j].id \in Nat
    BY <2>1 DEF Distinct, TableOK, EntryOK, EntryType
  <2>3. t[j].id < Len(h) /\ Matches(h[t[j].id + 1], t[j])
    BY <2>1 DEF Tracks
  <2> QED BY <1>1, <1>6, <2>2, <2>3
<1>10. ASSUME NEW i \in DOMAIN table \ {k}
       PROVE  \E j \in DOMAIN t : t[j] = table[i]
  <2>1. CASE i = Len(table)
    <3>1. k \in DOMAIN t /\ from(k) = i
      BY <2>1, <1>1, <1>2
    <3> QED BY <3>1, <1>2
  <2>2. CASE i # Len(table)
    <3>1. i \in DOMAIN t /\ from(i) = i
      BY <2>2, <1>1, <1>2
    <3> QED BY <3>1, <1>2
  <2> QED BY <2>1, <2>2
<1>11. Held(t, other, g)
  <2> SUFFICES ASSUME NEW n \in DOMAIN h, g[n].answers = 0
               PROVE  Names(t, n) \/ Names(other, n)
    BY <1>6 DEF Held
  <2>1. n # id + 1 /\ g[n] = h[n]
    BY <1>6
  <2>2. Names(table, n) \/ Names(other, n)
    BY <2>1 DEF Held
  <2>3. ASSUME Names(table, n) PROVE Names(t, n)
    <3>1. PICK i \in DOMAIN table : table[i].id + 1 = n
      BY <2>3 DEF Names
    <3>2. PICK j \in DOMAIN t : t[j] = table[i]
      BY <2>1, <3>1, <1>10
    <3> QED BY <3>1, <3>2 DEF Names
  <2> QED BY <2>2, <2>3
<1> QED BY <1>3, <1>4, <1>5, <1>6, <1>7, <1>8, <1>9, <1>10, <1>11 DEF g, t

(* The records after the devices were accessed for the identifiers of P.   *)
Counted(h, P) ==
  [n \in DOMAIN h |-> IF n \in P THEN [h[n] EXCEPT !.executed = @ + 1] ELSE h[n]]

Accessed(h, table, latency) ==
  {n \in DOMAIN h :
     \E i \in DOMAIN table : table[i].id = n - 1 /\ Executes(table[i], latency[i])}

LEMMA PerformedCounted ==
  ASSUME NEW h, NEW table, NEW latency
  PROVE  Performed(h, table, latency) = Counted(h, Accessed(h, table, latency))
  BY DEF Performed, Counted, Accessed

(* A protocol step of a table under unchanged identities, in which the     *)
(* devices are accessed for just the entries whose beat index moves.       *)
LEMMA StepTable ==
  ASSUME NEW table, TableOK(table), NEW other, TableOK(other), NEW h, HistoryOK(h),
         Tracks(table, h), Tracks(other, h), Distinct(table), Disjoint(table, other),
         Held(table, other, h),
         NEW t, TableOK(t), DOMAIN t = DOMAIN table,
         \A i \in DOMAIN table : t[i].id = table[i].id /\ t[i].request = table[i].request,
         NEW P, \A n \in P : Names(table, n),
         \A i \in DOMAIN table :
           t[i].beat = IF table[i].id + 1 \in P THEN table[i].beat + 1 ELSE table[i].beat
  PROVE  LET g == Counted(h, P)
         IN  /\ Distinct(t) /\ Disjoint(t, other) /\ Disjoint(other, t)
             /\ Tracks(t, g) /\ Tracks(other, g) /\ HistoryOK(g) /\ Held(t, other, g)
             /\ \A c : Remembered(h, c) => Remembered(g, c)
PROOF
<1> DEFINE g == Counted(h, P)
<1>1. Distinct(t) /\ Disjoint(t, other) /\ Disjoint(other, t)
  BY DEF Distinct, Disjoint
<1>2. /\ h \in HistoryType /\ Len(h) \in Nat /\ DOMAIN h = 1 .. Len(h) /\ DOMAIN g = DOMAIN h
      /\ g = [n \in 1 .. Len(h) |-> g[n]]
  BY DEF HistoryOK, HistoryType, Counted
<1>3. ASSUME NEW n \in DOMAIN h, n \in P
      PROVE  /\ g[n].request = h[n].request /\ g[n].answers = h[n].answers
             /\ g[n].polled = h[n].polled /\ g[n].executed = h[n].executed + 1
             /\ g[n] \in HistoryEntry
  <2>1. h[n] \in HistoryEntry
    BY <1>2 DEF HistoryType
  <2>2. g[n] = [h[n] EXCEPT !.executed = h[n].executed + 1]
    BY <1>3 DEF Counted
  <2> HIDE DEF g
  <2> QED BY <2>1, <2>2 DEF HistoryEntry
<1>4. ASSUME NEW n \in DOMAIN h, n \notin P
      PROVE  g[n] = h[n]
  BY <1>4 DEF Counted
<1> HIDE DEF g
<1>5. ASSUME NEW i \in DOMAIN t
      PROVE  /\ t[i].id \in Nat /\ t[i].id < Len(h) /\ t[i].id + 1 \in DOMAIN h
             /\ t[i].id = table[i].id
             /\ Matches(h[t[i].id + 1], table[i])
             /\ Matches(g[t[i].id + 1], t[i])
  <2>1. t[i].id \in Nat /\ t[i].id = table[i].id /\ t[i].request = table[i].request
    BY DEF TableOK, EntryOK, EntryType
  <2>2. t[i].id < Len(h) /\ Matches(h[t[i].id + 1], table[i])
    BY <2>1 DEF Tracks
  <2>3. t[i].id + 1 \in DOMAIN h
    BY <1>2, <2>1, <2>2
  <2>4. t[i].beat = IF t[i].id + 1 \in P THEN table[i].beat + 1 ELSE table[i].beat
    BY <2>1
  <2>5. Matches(g[t[i].id + 1], t[i])
    <3>1. CASE t[i].id + 1 \in P
      BY <3>1, <1>3, <2>1, <2>2, <2>3, <2>4 DEF Matches
    <3>2. CASE t[i].id + 1 \notin P
      BY <3>2, <1>4, <2>1, <2>2, <2>3, <2>4 DEF Matches
    <3> QED BY <3>1, <3>2
  <2> QED BY <2>1, <2>2, <2>3, <2>5
<1>6. ASSUME NEW n \in DOMAIN h
      PROVE  RecordOK(g[n]) /\ g[n].answers = h[n].answers /\ g[n].polled = h[n].polled
  <2>1. CASE n \in P
    <3>1. PICK i \in DOMAIN table : table[i].id + 1 = n
      BY <2>1 DEF Names
    <3>2. h[n].answers = 0
      BY <3>1, <1>5 DEF Matches
    <3> QED BY <2>1, <3>2, <1>3 DEF RecordOK
  <2>2. CASE n \notin P
    BY <2>2, <1>4 DEF HistoryOK
  <2> QED BY <2>1, <2>2
<1>7. HistoryOK(g) /\ Len(g) = Len(h)
  <2>1. \A n \in 1 .. Len(h) : g[n] \in HistoryEntry
    BY <1>2, <1>6 DEF RecordOK
  <2>2. g \in HistoryType /\ Len(g) = Len(h)
    BY <1>2, <2>1 DEF HistoryType
  <2> QED BY <1>2, <1>6, <2>2 DEF HistoryOK
<1>8. Tracks(t, g)
  BY <1>5, <1>7 DEF Tracks
<1>9. Tracks(other, g)
  <2> SUFFICES ASSUME NEW i \in DOMAIN other
               PROVE  other[i].id < Len(g) /\ Matches(g[other[i].id + 1], other[i])
    BY DEF Tracks
  <2>1. other[i].id \in Nat /\ \A j \in DOMAIN table : table[j].id # other[i].id /\ table[j].id \in Nat
    BY DEF Disjoint, TableOK, EntryOK, EntryType
  <2>2. other[i].id < Len(h) /\ Matches(h[other[i].id + 1], other[i])
    BY DEF Tracks
  <2>3. other[i].id + 1 \in DOMAIN h /\ \A j \in DOMAIN table : table[j].id + 1 # other[i].id + 1
    BY <1>2, <2>1, <2>2
  <2>4. other[i].id + 1 \notin P
    BY <2>3 DEF Names
  <2> QED BY <1>4, <1>7, <2>2, <2>3, <2>4
<1>10. Held(t, other, g)
  <2> SUFFICES ASSUME NEW n \in DOMAIN h, g[n].answers = 0
               PROVE  Names(t, n) \/ Names(other, n)
    BY <1>2 DEF Held
  <2>1. Names(table, n) \/ Names(other, n)
    BY <1>6 DEF Held
  <2> QED BY <2>1 DEF Names
<1>11. \A c : Remembered(h, c) => Remembered(g, c)
  BY <1>2, <1>6 DEF Remembered
<1> QED BY <1>1, <1>7, <1>8, <1>9, <1>10, <1>11 DEF g

(* One entry is a table by itself.                                         *)
LEMMA SingleEntry ==
  ASSUME NEW e, EntryOK(e)
  PROVE  TableOK(<<e>>) /\ Len(<<e>>) = 1 /\ DOMAIN <<e>> = 1 .. 1 /\ <<e>>[1] = e
PROOF
<1>1. <<e>> \in Seq(EntryType) /\ Len(<<e>>) = 1 /\ DOMAIN <<e>> = 1 .. 1 /\ <<e>>[1] = e
  BY DEF EntryOK
<1> QED BY <1>1 DEF TableOK

(* Which records count an access when a whole table, or one entry, steps.  *)
LEMMA AccessedAll ==
  ASSUME NEW table, TableOK(table), NEW h, HistoryOK(h), Tracks(table, h), Distinct(table),
         NEW latency
  PROVE  /\ \A n \in Accessed(h, table, latency) : Names(table, n)
         /\ \A i \in DOMAIN table :
              (table[i].id + 1 \in Accessed(h, table, latency)) <=> Executes(table[i], latency[i])
PROOF
<1>1. DOMAIN h = 1 .. Len(h) /\ Len(h) \in Nat
  BY DEF HistoryOK, HistoryType
<1>2. \A i \in DOMAIN table : table[i].id \in Nat /\ table[i].id < Len(h)
  BY DEF TableOK, EntryOK, EntryType, Tracks
<1>3. \A i \in DOMAIN table : table[i].id + 1 \in DOMAIN h /\ (table[i].id + 1) - 1 = table[i].id
  BY <1>1, <1>2
<1>4. \A n \in Accessed(h, table, latency) : Names(table, n)
  BY <1>1, <1>2 DEF Accessed, Names
<1>5. ASSUME NEW i \in DOMAIN table, table[i].id + 1 \in Accessed(h, table, latency)
      PROVE  Executes(table[i], latency[i])
  <2>1. PICK j \in DOMAIN table :
          table[j].id = (table[i].id + 1) - 1 /\ Executes(table[j], latency[j])
    BY <1>5 DEF Accessed
  <2>2. j = i
    BY <2>1, <1>3 DEF Distinct
  <2> QED BY <2>1, <2>2
<1>6. ASSUME NEW i \in DOMAIN table, Executes(table[i], latency[i])
      PROVE  table[i].id + 1 \in Accessed(h, table, latency)
  BY <1>3, <1>6 DEF Accessed
<1> QED BY <1>4, <1>5, <1>6

LEMMA AccessedOne ==
  ASSUME NEW table, TableOK(table), NEW h, HistoryOK(h), Tracks(table, h), Distinct(table),
         NEW k \in DOMAIN table, NEW latency
  PROVE  LET P == Accessed(h, <<table[k]>>, latency)
         IN  /\ \A n \in P : Names(table, n)
             /\ \A i \in DOMAIN table :
                  (table[i].id + 1 \in P) <=> (i = k /\ Executes(table[k], latency[1]))
PROOF
<1> DEFINE e == table[k]
           P == Accessed(h, <<e>>, latency)
<1>1. DOMAIN h = 1 .. Len(h) /\ Len(h) \in Nat
  BY DEF HistoryOK, HistoryType
<1>2. \A i \in DOMAIN table : table[i].id \in Nat /\ table[i].id < Len(h)
  BY DEF TableOK, EntryOK, EntryType, Tracks
<1>3. \A i \in DOMAIN table : table[i].id + 1 \in DOMAIN h /\ (table[i].id + 1) - 1 = table[i].id
  BY <1>1, <1>2
<1>4. P = {n \in DOMAIN h : e.id = n - 1 /\ Executes(e, latency[1])}
  BY DEF Accessed
<1> HIDE DEF P
<1>5. \A n \in P : Names(table, n)
  BY <1>1, <1>2, <1>4 DEF Names
<1>6. ASSUME NEW i \in DOMAIN table
      PROVE  (table[i].id + 1 \in P) <=> (i = k /\ Executes(e, latency[1]))
  <2>1. (table[i].id + 1 \in P) <=> (e.id = table[i].id /\ Executes(e, latency[1]))
    BY <1>3, <1>4
  <2>2. e.id = table[i].id <=> i = k
    BY DEF Distinct
  <2> QED BY <2>1, <2>2
<1> QED BY <1>5, <1>6 DEF P

(* One step of a single entry against the words m.                         *)
LEMMA AdvanceOne ==
  ASSUME NEW e, EntryOK(e), NEW latency \in LatencyChoices(<<e>>),
         NEW m \in [Words -> Values]
  PROVE  LET x == Advance(e, latency[1], m[BeatAddr(e)])
         IN  /\ EntryOK(x) /\ x.id = e.id /\ x.request = e.request
             /\ x.beat = IF Executes(e, latency[1]) THEN e.beat + 1 ELSE e.beat
             /\ MemAfter(<<e>>, latency, m, 1) \in [Words -> Values]
PROOF
<1>1. TableOK(<<e>>) /\ Len(<<e>>) = 1 /\ DOMAIN <<e>> = 1 .. 1
  BY SingleEntry
<1>2. latency \in [DOMAIN <<e>> -> Nat]
  BY LatencyType
<1>3. latency[1] \in Nat
  BY <1>1, <1>2
<1>4. ~Finished(e) => m[BeatAddr(e)] \in Values
  BY BeatAddrMapped
<1>5. MemAfter(<<e>>, latency, m, 1) \in [Words -> Values]
  <2>1. 1 \in 0 .. Len(<<e>>)
    BY <1>1
  <2> QED BY <1>1, <1>2, <2>1, MemAfterType
<1>6. Progressed(e, Advance(e, latency[1], m[BeatAddr(e)]), latency[1], m[BeatAddr(e)])
  BY <1>3, AdvanceProgress
<1> QED BY <1>3, <1>4, <1>5, <1>6, AdvanceOK DEF Progressed

(* A cycle moves the beat index of just the entries that are executed.     *)
LEMMA AdvanceAllBeats ==
  ASSUME NEW table, TableOK(table), NEW latency \in [DOMAIN table -> Nat], NEW m
  PROVE  \A i \in DOMAIN table :
           AdvanceAll(table, latency, m)[i].beat
             = IF Executes(table[i], latency[i]) THEN table[i].beat + 1 ELSE table[i].beat
PROOF
<1> TAKE i \in DOMAIN table
<1> DEFINE word == MemAfter(table, latency, m, i - 1)[BeatAddr(table[i])]
<1>1. AdvanceAll(table, latency, m)[i] = Advance(table[i], latency[i], word)
  BY DEF AdvanceAll
<1>2. EntryOK(table[i]) /\ latency[i] \in Nat
  BY DEF TableOK
<1> HIDE DEF word
<1>3. Progressed(table[i], Advance(table[i], latency[i], word), latency[i], word)
  BY <1>2, AdvanceProgress
<1> QED BY <1>1, <1>3 DEF Progressed

----------------------------------------------------------------------------
LEMMA InitIInv == Init => IInv
PROOF
<1> SUFFICES ASSUME Init PROVE IInv
  OBVIOUS
<1>1. << >> \in Seq(EntryType) /\ << >> \in HistoryType /\ DOMAIN << >> = {}
  BY DEF HistoryType
<1>2. /\ TableOK(<< >>) /\ HistoryOK(<< >>) /\ Tracks(<< >>, << >>)
      /\ Distinct(<< >>) /\ Disjoint(<< >>, << >>)
      /\ Held(<< >>, << >>, << >>) /\ Remembered(<< >>, None)
  BY <1>1 DEF TableOK, HistoryOK, Tracks, Distinct, Disjoint, Held, Remembered
<1> QED BY <1>2, RequestsAssumption DEF Init, IInv, CompatBacked

LEMMA SubmitTransactionIInv ==
  ASSUME IInv, NEW r \in AccessRequests, SubmitTransaction(r)
  PROVE  IInv'
PROOF
<1> DEFINE e == NewEntry(NextId, r)
           x == Opened(r, FALSE)
<1>1. Len(history) \in Nat
  BY DEF IInv, HistoryOK, HistoryType
<1>2. /\ EntryOK(e) /\ e.id = Len(history)
      /\ RecordOK(x) /\ Matches(x, e) /\ x.polled = FALSE
  <2>1. r \in RequestType
    BY RequestsAssumption
  <2>2. EntryOK(e) /\ e.id = Len(history)
    BY <1>1, <2>1, NewEntryOK DEF SubmitTransaction, NextId, NewEntry
  <2> QED BY <2>1, <2>2, OpenedOK
<1>3. /\ transactions' = Append(transactions, e)
      /\ history' = Append(history, x)
      /\ UNCHANGED <<mem, bursts, compat>>
  BY DEF SubmitTransaction
<1> HIDE DEF e, x
<1>4. /\ TableOK(transactions') /\ Distinct(transactions')
      /\ Disjoint(transactions', bursts)
      /\ Tracks(transactions', history') /\ Tracks(bursts, history') /\ HistoryOK(history')
      /\ Held(transactions', bursts, history')
      /\ \A i \in DOMAIN transactions :
           i \in DOMAIN transactions' /\ transactions'[i] = transactions[i]
  BY <1>2, <1>3, EnterEntry DEF IInv
<1>5. CompatBacked'
  BY <1>3, <1>4 DEF IInv, CompatBacked
<1>6. Remembered(history', compat')
  BY <1>2, <1>3, RememberedAppend DEF IInv
<1> QED BY <1>3, <1>4, <1>5, <1>6 DEF IInv

LEMMA SubmitBurstIInv ==
  ASSUME IInv, NEW r \in BurstRequests, SubmitBurst(r)
  PROVE  IInv'
PROOF
<1> DEFINE e == NewEntry(NextId, r)
           x == Opened(r, FALSE)
<1>1. Len(history) \in Nat
  BY DEF IInv, HistoryOK, HistoryType
<1>2. /\ EntryOK(e) /\ e.id = Len(history)
      /\ RecordOK(x) /\ Matches(x, e) /\ x.polled = FALSE
  <2>1. r \in RequestType
    BY RequestsAssumption
  <2>2. EntryOK(e) /\ e.id = Len(history)
    BY <1>1, <2>1, NewEntryOK DEF SubmitBurst, NextId, NewEntry
  <2> QED BY <2>1, <2>2, OpenedOK
<1>3. /\ bursts' = Append(bursts, e)
      /\ history' = Append(history, x)
      /\ UNCHANGED <<mem, transactions, compat>>
  BY DEF SubmitBurst
<1> HIDE DEF e, x
<1>4. Disjoint(bursts, transactions) /\ Held(bursts, transactions, history)
  BY HeldEitherWay DEF IInv, Disjoint
<1>5. /\ TableOK(bursts') /\ Distinct(bursts') /\ Disjoint(transactions, bursts')
      /\ Tracks(bursts', history') /\ Tracks(transactions, history') /\ HistoryOK(history')
      /\ Held(bursts', transactions, history')
  BY <1>2, <1>3, <1>4, EnterEntry DEF IInv
<1>6. Remembered(history', compat') /\ Held(transactions, bursts', history')
  BY <1>2, <1>3, <1>5, RememberedAppend, HeldEitherWay DEF IInv
<1> QED BY <1>3, <1>5, <1>6 DEF IInv, CompatBacked

LEMMA TakeTransactionIInv ==
  ASSUME IInv, NEW k \in DOMAIN transactions, TakeTransactionResponse(k)
  PROVE  IInv'
PROOF
<1>1. /\ transactions' = SwapRemove(transactions, k)
      /\ history' = Answered(history, transactions[k].id)
      /\ compat' = CompatWithout(transactions[k].id)
      /\ UNCHANGED <<mem, bursts>>
      /\ Finished(transactions[k])
  BY DEF TakeTransactionResponse
<1>2. /\ TableOK(transactions') /\ Distinct(transactions') /\ Disjoint(transactions', bursts)
      /\ Tracks(transactions', history') /\ Tracks(bursts, history') /\ HistoryOK(history')
      /\ Held(transactions', bursts, history')
      /\ DOMAIN history' = DOMAIN history /\ history'[transactions[k].id + 1].answers = 1
      /\ \A n \in DOMAIN history \ {transactions[k].id + 1} : history'[n] = history[n]
      /\ \A i \in DOMAIN transactions \ {k} :
           \E j \in DOMAIN transactions' : transactions'[j] = transactions[i]
  BY <1>1, RemoveEntry DEF IInv
<1>3. compat' \in {None} \cup [id : Nat, request : AccessRequests]
  BY <1>1 DEF IInv, CompatWithout
<1>4. CompatBacked'
  <2> SUFFICES ASSUME compat' # None
               PROVE  \E j \in DOMAIN transactions' :
                        /\ transactions'[j].id = compat'.id
                        /\ transactions'[j].request = compat'.request
    BY DEF CompatBacked
  <2>1. compat' = compat /\ compat.id # transactions[k].id
    BY <1>1 DEF CompatWithout
  <2>2. PICK i \in DOMAIN transactions :
          transactions[i].id = compat.id /\ transactions[i].request = compat.request
    BY <2>1 DEF IInv, CompatBacked
  <2>3. i \in DOMAIN transactions \ {k}
    BY <2>1, <2>2
  <2> QED BY <1>2, <2>1, <2>2, <2>3
<1>5. Remembered(history', compat')
  <2> SUFFICES ASSUME NEW n \in DOMAIN history', history'[n].answers = 0, history'[n].polled
               PROVE  compat' # None /\ compat'.id + 1 = n
    BY DEF Remembered
  <2>1. n \in DOMAIN history /\ n # transactions[k].id + 1 /\ history'[n] = history[n]
    BY <1>2
  <2>2. compat # None /\ compat.id + 1 = n
    BY <2>1 DEF IInv, Remembered
  <2>3. compat' = compat
    BY <1>1, <2>1, <2>2 DEF CompatWithout
  <2> QED BY <2>2, <2>3
<1> QED BY <1>1, <1>2, <1>3, <1>4, <1>5 DEF IInv

LEMMA TakeBurstIInv ==
  ASSUME IInv, NEW k \in DOMAIN bursts, TakeBurstResponse(k)
  PROVE  IInv'
PROOF
<1>1. /\ bursts' = SwapRemove(bursts, k)
      /\ history' = Answered(history, bursts[k].id)
      /\ UNCHANGED <<mem, transactions, compat>>
      /\ Finished(bursts[k])
  BY DEF TakeBurstResponse
<1>2. Disjoint(bursts, transactions) /\ Held(bursts, transactions, history)
  BY HeldEitherWay DEF IInv, Disjoint
<1>3. /\ TableOK(bursts') /\ Distinct(bursts') /\ Disjoint(transactions, bursts')
      /\ Tracks(bursts', history') /\ Tracks(transactions, history') /\ HistoryOK(history')
      /\ Held(bursts', transactions, history')
      /\ DOMAIN history' = DOMAIN history /\ history'[bursts[k].id + 1].answers = 1
      /\ \A n \in DOMAIN history \ {bursts[k].id + 1} : history'[n] = history[n]
  BY <1>1, <1>2, RemoveEntry DEF IInv
<1>4. Remembered(history', compat) /\ Held(transactions, bursts', history')
  <2>1. \A n \in DOMAIN history' : history'[n].answers = 0 => history'[n] = history[n]
    BY <1>3
  <2> QED BY <1>3, <2>1, HeldEitherWay DEF IInv, Remembered
<1> QED BY <1>1, <1>3, <1>4 DEF IInv, CompatBacked

(* Replacing one entry by its successor.                                   *)
LEMMA ReplaceEntry ==
  ASSUME NEW table, TableOK(table), NEW k \in DOMAIN table,
         NEW x, EntryOK(x), x.id = table[k].id, x.request = table[k].request
  PROVE  LET t == [table EXCEPT ![k] = x]
         IN  /\ TableOK(t) /\ DOMAIN t = DOMAIN table
             /\ \A i \in DOMAIN table :
                  /\ t[i].id = table[i].id /\ t[i].request = table[i].request
                  /\ t[i] = IF i = k THEN x ELSE table[i]
PROOF
<1> DEFINE t == [table EXCEPT ![k] = x]
<1>1. table \in Seq(EntryType) /\ x \in EntryType
  BY DEF TableOK, EntryOK
<1>2. t \in Seq(EntryType) /\ DOMAIN t = DOMAIN table
  BY <1>1
<1>3. \A i \in DOMAIN table : t[i] = IF i = k THEN x ELSE table[i]
  BY <1>1
<1> HIDE DEF t
<1>4. TableOK(t)
  BY <1>2, <1>3 DEF TableOK
<1> QED BY <1>2, <1>3, <1>4 DEF t

(* The same requests at the same positions.                                *)
SameRequests(t, table) ==
  /\ DOMAIN t = DOMAIN table
  /\ \A i \in DOMAIN table : t[i].id = table[i].id /\ t[i].request = table[i].request

(* Stepping one entry of a table by itself.                                *)
LEMMA StepEntry ==
  ASSUME NEW table, TableOK(table), NEW other, TableOK(other), NEW h, HistoryOK(h),
         Tracks(table, h), Tracks(other, h), Distinct(table), Disjoint(table, other),
         Held(table, other, h), NEW k \in DOMAIN table,
         NEW latency \in LatencyChoices(<<table[k]>>), NEW m \in [Words -> Values]
  PROVE  LET x == Advance(table[k], latency[1], m[BeatAddr(table[k])])
             t == [table EXCEPT ![k] = x]
             g == Performed(h, <<table[k]>>, latency)
         IN  /\ MemAfter(<<table[k]>>, latency, m, 1) \in [Words -> Values]
             /\ TableOK(t) /\ SameRequests(t, table)
             /\ Distinct(t) /\ Disjoint(t, other) /\ Disjoint(other, t)
             /\ Tracks(t, g) /\ Tracks(other, g) /\ HistoryOK(g) /\ Held(t, other, g)
             /\ \A c : Remembered(h, c) => Remembered(g, c)
PROOF
<1> DEFINE e == table[k]
           x == Advance(e, latency[1], m[BeatAddr(e)])
           t == [table EXCEPT ![k] = x]
           P == Accessed(h, <<e>>, latency)
<1>1. EntryOK(e)
  BY DEF TableOK
<1>2. /\ EntryOK(x) /\ x.id = e.id /\ x.request = e.request
      /\ x.beat = IF Executes(e, latency[1]) THEN e.beat + 1 ELSE e.beat
      /\ MemAfter(<<e>>, latency, m, 1) \in [Words -> Values]
  <2> HIDE DEF e
  <2> QED BY <1>1, AdvanceOne DEF e
<1> HIDE DEF x
<1>3. /\ TableOK(t) /\ DOMAIN t = DOMAIN table
      /\ \A i \in DOMAIN table :
           /\ t[i].id = table[i].id /\ t[i].request = table[i].request
           /\ t[i] = IF i = k THEN x ELSE table[i]
  BY <1>2, ReplaceEntry
<1>4. /\ \A n \in P : Names(table, n)
      /\ \A i \in DOMAIN table :
           (table[i].id + 1 \in P) <=> (i = k /\ Executes(e, latency[1]))
  BY AccessedOne
<1>5. Performed(h, <<e>>, latency) = Counted(h, P)
  BY PerformedCounted
<1> HIDE DEF t, P
<1>6. \A i \in DOMAIN table :
        t[i].beat = IF table[i].id + 1 \in P THEN table[i].beat + 1 ELSE table[i].beat
  BY <1>2, <1>3, <1>4
<1> HIDE DEF e
<1>7. /\ Distinct(t) /\ Disjoint(t, other) /\ Disjoint(other, t)
      /\ Tracks(t, Counted(h, P)) /\ Tracks(other, Counted(h, P))
      /\ HistoryOK(Counted(h, P)) /\ Held(t, other, Counted(h, P))
      /\ \A c : Remembered(h, c) => Remembered(Counted(h, P), c)
  BY <1>3, <1>4, <1>6, StepTable
<1>8. SameRequests(t, table)
  BY <1>3 DEF SameRequests
<1> QED BY <1>2, <1>3, <1>5, <1>7, <1>8 DEF e, x, t

(* The compatibility transaction survives a step that keeps identities.    *)
LEMMA CompatBackedStep ==
  ASSUME CompatBacked, UNCHANGED compat, DOMAIN transactions' = DOMAIN transactions,
         \A i \in DOMAIN transactions :
           /\ transactions'[i].id = transactions[i].id
           /\ transactions'[i].request = transactions[i].request
  PROVE  CompatBacked'
  BY DEF CompatBacked

LEMMA AdvanceTransactionIInv ==
  ASSUME IInv, NEW k \in DOMAIN transactions, AdvanceTransaction(k)
  PROVE  IInv'
PROOF
<1> DEFINE e == transactions[k]
<1>1. PICK latency \in LatencyChoices(<<e>>) :
        /\ transactions' = [transactions EXCEPT ![k] = Advance(e, latency[1], mem[BeatAddr(e)])]
        /\ history' = Performed(history, <<e>>, latency)
        /\ mem' = MemAfter(<<e>>, latency, mem, 1)
  BY DEF AdvanceTransaction
<1>2. UNCHANGED <<bursts, compat>>
  BY DEF AdvanceTransaction
<1>3. /\ TableOK(transactions) /\ TableOK(bursts) /\ HistoryOK(history)
      /\ Tracks(transactions, history) /\ Tracks(bursts, history) /\ Distinct(transactions)
      /\ Disjoint(transactions, bursts) /\ Held(transactions, bursts, history)
      /\ mem \in [Words -> Values]
  BY DEF IInv
<1>4. /\ mem' \in [Words -> Values]
      /\ TableOK(transactions') /\ SameRequests(transactions', transactions)
      /\ Distinct(transactions') /\ Disjoint(transactions', bursts)
      /\ Tracks(transactions', history') /\ Tracks(bursts, history') /\ HistoryOK(history')
      /\ Held(transactions', bursts, history')
      /\ \A c : Remembered(history, c) => Remembered(history', c)
  BY <1>1, <1>3, StepEntry
<1>5. CompatBacked'
  BY <1>2, <1>4, CompatBackedStep DEF IInv, SameRequests
<1> QED BY <1>2, <1>4, <1>5 DEF IInv

LEMMA AdvanceBurstIInv ==
  ASSUME IInv, NEW k \in DOMAIN bursts, AdvanceBurst(k)
  PROVE  IInv'
PROOF
<1> DEFINE e == bursts[k]
<1>1. PICK latency \in LatencyChoices(<<e>>) :
        /\ bursts' = [bursts EXCEPT ![k] = Advance(e, latency[1], mem[BeatAddr(e)])]
        /\ history' = Performed(history, <<e>>, latency)
        /\ mem' = MemAfter(<<e>>, latency, mem, 1)
  BY DEF AdvanceBurst
<1>2. UNCHANGED <<transactions, compat>>
  BY DEF AdvanceBurst
<1>3. /\ TableOK(bursts) /\ TableOK(transactions) /\ HistoryOK(history)
      /\ Tracks(bursts, history) /\ Tracks(transactions, history) /\ Distinct(bursts)
      /\ Disjoint(bursts, transactions) /\ Held(bursts, transactions, history)
      /\ mem \in [Words -> Values]
  BY HeldEitherWay DEF IInv, Disjoint
<1>4. /\ mem' \in [Words -> Values] /\ TableOK(bursts')
      /\ Distinct(bursts') /\ Disjoint(transactions, bursts')
      /\ Tracks(bursts', history') /\ Tracks(transactions, history') /\ HistoryOK(history')
      /\ Held(bursts', transactions, history')
      /\ \A c : Remembered(history, c) => Remembered(history', c)
  BY <1>1, <1>3, StepEntry
<1>5. Held(transactions, bursts', history')
  BY <1>4, HeldEitherWay
<1> QED BY <1>2, <1>4, <1>5 DEF IInv, CompatBacked

(* Removing the entry that was entered last.                               *)
LEMMA EnterThenRemove ==
  ASSUME NEW table, TableOK(table), NEW e
  PROVE  SwapRemove(Append(table, e), Len(table) + 1) = table
PROOF
<1>1. /\ table \in Seq(EntryType) /\ Len(table) \in Nat
      /\ table = [j \in 1 .. Len(table) |-> table[j]]
  BY DEF TableOK
<1>2. /\ Len(Append(table, e)) = Len(table) + 1 /\ (Len(table) + 1) - 1 = Len(table)
      /\ \A j \in 1 .. Len(table) : j # Len(table) + 1 /\ Append(table, e)[j] = table[j]
  BY <1>1
<1> QED BY <1>1, <1>2 DEF SwapRemove

LEMMA EnterThenReplace ==
  ASSUME NEW table, TableOK(table), NEW e \in EntryType, NEW x \in EntryType
  PROVE  [Append(table, e) EXCEPT ![Len(table) + 1] = x] = Append(table, x)
PROOF
<1> DEFINE a == Append(table, e)
           b == Append(table, x)
           last == Len(table) + 1
<1>1. table \in Seq(EntryType) /\ Len(table) \in Nat
  BY DEF TableOK
<1>2. ASSUME NEW y \in EntryType
      PROVE  /\ DOMAIN Append(table, y) = 1 .. last /\ Append(table, y)[last] = y
             /\ \A j \in 1 .. Len(table) : Append(table, y)[j] = table[j]
             /\ Append(table, y) \in Seq(EntryType)
  BY <1>1
<1>3. a \in Seq(EntryType) /\ b \in Seq(EntryType)
  BY <1>2
<1>4. \A j \in 1 .. last : j # last => j \in 1 .. Len(table)
  BY <1>1
<1>5. /\ DOMAIN a = 1 .. last /\ DOMAIN b = 1 .. last
      /\ a = [j \in DOMAIN a |-> a[j]] /\ b = [j \in DOMAIN b |-> b[j]]
      /\ a[last] = e /\ b[last] = x
      /\ \A j \in 1 .. last : j # last => a[j] = table[j] /\ b[j] = table[j]
  <2>1. DOMAIN a = 1 .. last /\ DOMAIN b = 1 .. last /\ a[last] = e /\ b[last] = x
    BY <1>2
  <2>2. \A j \in 1 .. last : j # last => a[j] = table[j] /\ b[j] = table[j]
    BY <1>2, <1>4
  <2>3. a = [j \in DOMAIN a |-> a[j]] /\ b = [j \in DOMAIN b |-> b[j]]
    <3> HIDE DEF a, b
    <3> QED BY <1>3
  <2> QED BY <2>1, <2>2, <2>3
<1> HIDE DEF a, b, last
<1>6. [a EXCEPT ![last] = x] = [j \in 1 .. last |-> b[j]]
  BY <1>5
<1> QED BY <1>5, <1>6 DEF a, b, last

LEMMA PerformFirstIInv ==
  ASSUME IInv, NEW r \in AccessRequests, PerformFirst(r)
  PROVE  IInv'
PROOF
<1> DEFINE fresh == NewEntry(NextId, r)
           x == Opened(r, TRUE)
           h == Append(history, x)
           last == Len(transactions) + 1
           entered == Append(transactions, fresh)
<1>1. Len(history) \in Nat /\ mem \in [Words -> Values] /\ Len(transactions) \in Nat
  BY DEF IInv, HistoryOK, HistoryType, TableOK
<1>2. /\ EntryOK(fresh) /\ fresh.id = Len(history) /\ BeatAddr(fresh) = r.addr
      /\ fresh.request = r /\ RecordOK(x) /\ Matches(x, fresh)
  <2>1. r \in RequestType
    BY RequestsAssumption
  <2>2. EntryOK(fresh)
    BY <1>1, <2>1, NewEntryOK DEF PerformFirst, PerformSubmit, NextId
  <2>3. RecordOK(x) /\ Matches(x, fresh)
    BY <2>1, OpenedOK
  <2>4. fresh.id = Len(history) /\ BeatAddr(fresh) = r.addr /\ fresh.request = r
    BY <2>1 DEF NextId, NewEntry, BeatAddr, RequestType
  <2> HIDE DEF fresh, x
  <2> QED BY <2>2, <2>3, <2>4
<1>3. PICK latency \in LatencyChoices(<<fresh>>) :
        LET entry == Advance(fresh, latency[1], mem[r.addr])
            g == Performed(h, <<fresh>>, latency)
        IN  /\ mem' = MemAfter(<<fresh>>, latency, mem, 1)
            /\ \/ /\ Finished(entry)
                  /\ history' = Answered(g, NextId)
                  /\ UNCHANGED <<transactions, compat>>
               \/ /\ ~Finished(entry)
                  /\ transactions' = Append(transactions, entry)
                  /\ compat' = [id |-> NextId, request |-> r]
                  /\ history' = g
  BY DEF PerformFirst, PerformSubmit
<1>4. compat = None /\ UNCHANGED bursts
  BY DEF PerformFirst, PerformSubmit
<1> DEFINE entry == Advance(fresh, latency[1], mem[r.addr])
           g == Performed(h, <<fresh>>, latency)
<1>5. /\ mem' = MemAfter(<<fresh>>, latency, mem, 1)
      /\ \/ /\ Finished(entry)
            /\ history' = Answered(g, NextId)
            /\ UNCHANGED <<transactions, compat>>
         \/ /\ transactions' = Append(transactions, entry)
            /\ compat' = [id |-> NextId, request |-> r]
            /\ history' = g
  BY <1>3
<1>6. entry = Advance(fresh, latency[1], mem[BeatAddr(fresh)])
  BY <1>2
<1> HIDE DEF fresh, x, entry
<1>7. /\ TableOK(entered) /\ Distinct(entered) /\ Disjoint(entered, bursts)
      /\ Tracks(entered, h) /\ Tracks(bursts, h) /\ HistoryOK(h) /\ Held(entered, bursts, h)
      /\ DOMAIN entered = 1 .. last /\ entered[last] = fresh
  BY <1>2, EnterEntry DEF IInv
<1>8. last \in DOMAIN entered
  BY <1>1, <1>7
<1>9. [entered EXCEPT ![last] = entry] = Append(transactions, entry)
  <2>1. fresh \in EntryType /\ EntryOK(entry) /\ TableOK(transactions)
    BY <1>1, <1>2, <1>3, <1>6, AdvanceOne DEF EntryOK, IInv
  <2> QED BY <2>1, EnterThenReplace DEF EntryOK
<1>10. Len(history) + 1 \in DOMAIN h /\ h[Len(history) + 1] = x
       /\ (\A n \in DOMAIN h : n \in DOMAIN history \/ n = Len(history) + 1)
       /\ \A n \in DOMAIN history : h[n] = history[n]
  BY <1>1, <1>2, HistoryAppend DEF IInv
<1> DEFINE held == Append(transactions, entry)
<1>11. /\ MemAfter(<<fresh>>, latency, mem, 1) \in [Words -> Values]
       /\ TableOK(held) /\ DOMAIN held = 1 .. last
       /\ held[last].id = fresh.id /\ held[last].request = fresh.request
       /\ Distinct(held) /\ Disjoint(held, bursts)
       /\ Tracks(held, g) /\ Tracks(bursts, g) /\ HistoryOK(g) /\ Held(held, bursts, g)
       /\ \A c : Remembered(h, c) => Remembered(g, c)
  <2> HIDE DEF h, entered, last, held, g
  <2>1. latency \in LatencyChoices(<<entered[last]>>) /\ TableOK(bursts)
    BY <1>3, <1>7 DEF IInv
  <2>2. held = [entered EXCEPT ![last]
                 = Advance(entered[last], latency[1], mem[BeatAddr(entered[last])])]
    BY <1>6, <1>7, <1>9 DEF held
  <2>3. g = Performed(h, <<entered[last]>>, latency)
    BY <1>7 DEF g
  <2>4. /\ MemAfter(<<entered[last]>>, latency, mem, 1) \in [Words -> Values]
        /\ TableOK(held) /\ SameRequests(held, entered)
        /\ Distinct(held) /\ Disjoint(held, bursts)
        /\ Tracks(held, g) /\ Tracks(bursts, g) /\ HistoryOK(g) /\ Held(held, bursts, g)
        /\ \A c : Remembered(h, c) => Remembered(g, c)
    BY <1>1, <1>7, <1>8, <2>1, <2>2, <2>3, StepEntry
  <2> QED BY <1>7, <1>8, <2>4 DEF SameRequests
<1>12. held[last] = entry /\ last \in DOMAIN held
  BY <1>1 DEF IInv, TableOK
<1>13. Remembered(history, None)
  BY <1>4 DEF IInv
<1> HIDE DEF h, g, entered
<1>14. CASE /\ Finished(entry)
            /\ history' = Answered(g, NextId)
            /\ UNCHANGED <<transactions, compat>>
  <2>1. SwapRemove(held, last) = transactions
    BY EnterThenRemove DEF IInv
  <2>2. held[last].id = Len(history) /\ NextId = Len(history)
    BY <1>2, <1>11 DEF NextId
  <2> HIDE DEF held, last
  <2>3. TableOK(bursts)
    BY DEF IInv
  <2>4. /\ Tracks(transactions, history') /\ Tracks(bursts, history') /\ HistoryOK(history')
        /\ Held(transactions, bursts, history')
        /\ DOMAIN history' = DOMAIN g /\ history'[Len(history) + 1].answers = 1
        /\ \A n \in DOMAIN g \ {Len(history) + 1} : history'[n] = g[n]
    BY <1>11, <1>12, <1>14, <2>1, <2>2, <2>3, RemoveEntry
  <2>5. Remembered(h, [id |-> Len(history), request |-> r])
    BY <1>10, <1>13, RequestsAssumption, <1>1 DEF Remembered
  <2>6. Remembered(g, [id |-> Len(history), request |-> r])
    BY <1>11, <2>5
  <2>7. Remembered(history', None)
    BY <2>4, <2>6 DEF Remembered
  <2> QED BY <1>4, <1>5, <1>11, <1>14, <2>4, <2>7 DEF IInv, CompatBacked
<1>15. CASE /\ transactions' = Append(transactions, entry)
            /\ compat' = [id |-> NextId, request |-> r]
            /\ history' = g
  <2>1. compat' \in [id : Nat, request : AccessRequests] /\ compat' # None
        /\ compat'.id = Len(history) /\ compat'.request = r
    BY <1>1, <1>15, RequestsAssumption DEF NextId
  <2>2. CompatBacked'
    <3>1. transactions' = held
      BY <1>15
    <3> HIDE DEF held, last
    <3> QED BY <1>2, <1>11, <1>12, <2>1, <3>1 DEF CompatBacked
  <2>3. Remembered(h, compat')
    BY <1>10, <1>13, <2>1 DEF Remembered
  <2>4. Remembered(history', compat')
    BY <1>11, <1>15, <2>3
  <2> HIDE DEF last
  <2> QED BY <1>4, <1>5, <1>11, <1>15, <2>1, <2>2, <2>4 DEF IInv
<1> QED BY <1>5, <1>14, <1>15

LEMMA TickIInv ==
  ASSUME IInv, Tick
  PROVE  IInv'
PROOF
<1>1. PICK lt \in LatencyChoices(transactions), lb \in LatencyChoices(bursts) :
        LET settled == MemAfter(transactions, lt, mem, Len(transactions))
        IN  /\ transactions' = AdvanceAll(transactions, lt, mem)
            /\ bursts' = AdvanceAll(bursts, lb, settled)
            /\ mem' = MemAfter(bursts, lb, settled, Len(bursts))
            /\ history' = Performed(Performed(history, transactions, lt), bursts, lb)
  BY DEF Tick
<1> DEFINE settled == MemAfter(transactions, lt, mem, Len(transactions))
           g == Performed(history, transactions, lt)
<1>2. /\ TableOK(transactions) /\ TableOK(bursts) /\ mem \in [Words -> Values]
      /\ Len(transactions) \in 0 .. Len(transactions) /\ Len(bursts) \in 0 .. Len(bursts)
  BY DEF IInv, TableOK
<1>3. lt \in [DOMAIN transactions -> Nat] /\ lb \in [DOMAIN bursts -> Nat]
  BY LatencyType
<1>4. settled \in [Words -> Values]
  BY <1>2, <1>3, MemAfterType
<1>5. /\ mem' = MemAfter(bursts, lb, settled, Len(bursts))
      /\ transactions' = AdvanceAll(transactions, lt, mem)
      /\ bursts' = AdvanceAll(bursts, lb, settled)
      /\ history' = Performed(g, bursts, lb)
  BY <1>1
<1> HIDE DEF settled
<1>6. mem' \in [Words -> Values]
  <2>1. MemAfter(bursts, lb, settled, Len(bursts)) \in [Words -> Values]
    BY <1>2, <1>3, <1>4, MemAfterType
  <2> QED BY <1>5, <2>1
<1>7. /\ TableOK(transactions') /\ DOMAIN transactions' = DOMAIN transactions
      /\ \A i \in DOMAIN transactions :
           /\ transactions'[i].id = transactions[i].id
           /\ transactions'[i].request = transactions[i].request
  BY <1>2, <1>3, <1>5, AdvanceAllOK
<1>8. /\ TableOK(bursts') /\ DOMAIN bursts' = DOMAIN bursts
      /\ \A i \in DOMAIN bursts :
           /\ bursts'[i].id = bursts[i].id
           /\ bursts'[i].request = bursts[i].request
  BY <1>2, <1>3, <1>4, <1>5, AdvanceAllOK
<1>9. /\ Distinct(transactions')
      /\ Disjoint(transactions', bursts) /\ Disjoint(bursts, transactions')
      /\ Tracks(transactions', g) /\ Tracks(bursts, g) /\ HistoryOK(g)
      /\ Held(transactions', bursts, g)
      /\ \A c : Remembered(history, c) => Remembered(g, c)
  <2> DEFINE P == Accessed(history, transactions, lt)
  <2>1. /\ \A n \in P : Names(transactions, n)
        /\ \A i \in DOMAIN transactions :
             (transactions[i].id + 1 \in P) <=> Executes(transactions[i], lt[i])
    BY AccessedAll DEF IInv
  <2>2. g = Counted(history, P)
    BY PerformedCounted
  <2>3. \A i \in DOMAIN transactions :
          transactions'[i].beat = IF Executes(transactions[i], lt[i])
                                  THEN transactions[i].beat + 1 ELSE transactions[i].beat
    BY <1>2, <1>3, <1>5, AdvanceAllBeats
  <2> HIDE DEF P, g
  <2>4. \A i \in DOMAIN transactions :
          transactions'[i].beat = IF transactions[i].id + 1 \in P
                                  THEN transactions[i].beat + 1 ELSE transactions[i].beat
    BY <2>1, <2>3
  <2> QED BY <1>7, <2>1, <2>2, <2>4, StepTable DEF IInv
<1> HIDE DEF g
<1>10. /\ Distinct(bursts') /\ Disjoint(transactions', bursts')
       /\ Tracks(bursts', history') /\ Tracks(transactions', history')
       /\ HistoryOK(history') /\ Held(transactions', bursts', history')
       /\ \A c : Remembered(g, c) => Remembered(history', c)
  <2> DEFINE P == Accessed(g, bursts, lb)
  <2>1. TableOK(bursts) /\ Distinct(bursts) /\ Held(bursts, transactions', g)
    BY <1>9, HeldEitherWay DEF IInv
  <2>2. /\ \A n \in P : Names(bursts, n)
        /\ \A i \in DOMAIN bursts :
             (bursts[i].id + 1 \in P) <=> Executes(bursts[i], lb[i])
    BY <1>9, <2>1, AccessedAll
  <2>3. history' = Counted(g, P)
    BY <1>5, PerformedCounted
  <2>4. \A i \in DOMAIN bursts :
          bursts'[i].beat = IF Executes(bursts[i], lb[i])
                            THEN bursts[i].beat + 1 ELSE bursts[i].beat
    BY <1>2, <1>3, <1>5, AdvanceAllBeats
  <2> HIDE DEF P
  <2>5. \A i \in DOMAIN bursts :
          bursts'[i].beat = IF bursts[i].id + 1 \in P
                            THEN bursts[i].beat + 1 ELSE bursts[i].beat
    BY <2>2, <2>4
  <2>6. /\ Distinct(bursts') /\ Disjoint(transactions', bursts')
        /\ Tracks(bursts', history') /\ Tracks(transactions', history')
        /\ HistoryOK(history') /\ Held(bursts', transactions', history')
        /\ \A c : Remembered(g, c) => Remembered(history', c)
    BY <1>7, <1>8, <1>9, <2>1, <2>2, <2>3, <2>5, StepTable
  <2> QED BY <2>6, HeldEitherWay
<1>11. UNCHANGED compat
  BY DEF Tick
<1>12. CompatBacked'
  BY <1>7, <1>11, CompatBackedStep DEF IInv
<1>13. Remembered(history', compat')
  BY <1>9, <1>10, <1>11 DEF IInv
<1> QED BY <1>6, <1>7, <1>8, <1>9, <1>10, <1>11, <1>12, <1>13 DEF IInv

LEMMA NextIInv == IInv /\ [Next]_vars => IInv'
PROOF
<1> SUFFICES ASSUME IInv, [Next]_vars PROVE IInv'
  OBVIOUS
<1>1. CASE Tick
  BY <1>1, TickIInv
<1>2. ASSUME NEW r \in AccessRequests, SubmitTransaction(r) PROVE IInv'
  BY <1>2, SubmitTransactionIInv
<1>3. ASSUME NEW r \in AccessRequests, PerformFirst(r) PROVE IInv'
  BY <1>3, PerformFirstIInv
<1>4. ASSUME NEW r \in AccessRequests, PerformRetry(r) PROVE IInv'
  <2>1. compat.id \in Ids(transactions)
    BY <1>4 DEF PerformRetry
  <2>2. IndexOf(transactions, compat.id) \in DOMAIN transactions
    BY <2>1 DEF Ids, IndexOf
  <2> QED BY <1>4, <2>2, TakeTransactionIInv DEF PerformRetry
<1>5. ASSUME NEW r \in BurstRequests, SubmitBurst(r) PROVE IInv'
  BY <1>5, SubmitBurstIInv
<1>6. ASSUME NEW k \in DOMAIN transactions, AdvanceTransaction(k) PROVE IInv'
  BY <1>6, AdvanceTransactionIInv
<1>7. ASSUME NEW k \in DOMAIN transactions, TakeTransactionResponse(k) PROVE IInv'
  BY <1>7, TakeTransactionIInv
<1>8. ASSUME NEW k \in DOMAIN bursts, AdvanceBurst(k) PROVE IInv'
  BY <1>8, AdvanceBurstIInv
<1>9. ASSUME NEW k \in DOMAIN bursts, TakeBurstResponse(k) PROVE IInv'
  BY <1>9, TakeBurstIInv
<1>10. CASE Reset
  <2>1. Init'
    BY <1>10 DEF Reset, Init
  <2>2. (Init => IInv)'
    BY InitIInv, PTL
  <2> QED BY <2>1, <2>2
<1>11. CASE UNCHANGED vars
  BY <1>11 DEF vars, IInv, CompatBacked
<1> QED
  BY <1>1, <1>2, <1>3, <1>4, <1>5, <1>6, <1>7, <1>8, <1>9, <1>10, <1>11 DEF Next

LEMMA IInvProperties == IInv => TypeOK /\ IdsDistinct /\ CompatBacked /\ ExactlyOnce
PROOF
<1> SUFFICES ASSUME IInv PROVE TypeOK /\ IdsDistinct /\ CompatBacked /\ ExactlyOnce
  OBVIOUS
<1>1. TypeOK
  BY DEF IInv, TypeOK, TableOK, HistoryOK, HistoryType, HistoryEntry
<1>2. IdsDistinct
  BY DEF IInv, IdsDistinct, Distinct, Disjoint, Tracks, NextId
<1>3. ASSUME NEW table, TableOK(table), Tracks(table, history)
      PROVE  \A i \in DOMAIN table : EntryOnce(table[i])
  BY <1>3 DEF EntryOnce, Tracks, Matches, TableOK, EntryOK
<1>4. ASSUME NEW n \in DOMAIN history
      PROVE  \/ /\ history[n].answers = 0
                /\ n - 1 \in Ids(transactions) \cup Ids(bursts)
                /\ history[n].polled => compat # None /\ compat.id = n - 1
             \/ /\ history[n].answers = 1
                /\ Complete(history[n])
  <2>1. CASE history[n].answers = 0
    <3>1. n \in Nat /\ DOMAIN history = 1 .. Len(history)
      BY DEF IInv, HistoryOK, HistoryType
    <3>2. \A i \in DOMAIN transactions : transactions[i].id \in Nat
      BY DEF IInv, TableOK, EntryOK, EntryType
    <3>3. \A i \in DOMAIN bursts : bursts[i].id \in Nat
      BY DEF IInv, TableOK, EntryOK, EntryType
    <3>4. Names(transactions, n) \/ Names(bursts, n)
      BY <2>1 DEF IInv, Held
    <3>5. n - 1 \in Ids(transactions) \cup Ids(bursts)
      BY <3>1, <3>2, <3>3, <3>4 DEF Names, Ids
    <3>6. history[n].polled => compat # None /\ compat.id = n - 1
      BY <2>1, <3>1 DEF IInv, Remembered
    <3> QED BY <2>1, <3>5, <3>6
  <2>2. CASE history[n].answers = 1 /\ Complete(history[n])
    BY <2>2
  <2> QED BY <2>1, <2>2 DEF IInv, HistoryOK, RecordOK
<1>5. ExactlyOnce
  BY <1>3, <1>4 DEF IInv, ExactlyOnce
<1> QED BY <1>1, <1>2, <1>5 DEF IInv

LEMMA Invariance == Spec => []IInv
  BY InitIInv, NextIInv, PTL DEF Spec

(* Type correctness of the tables, the words and the compatibility slot,   *)
(* for every device layout, every latency and every set of requests.       *)
THEOREM TypeCorrect == Spec => []TypeOK
  BY Invariance, IInvProperties, PTL

(* One counter serves both tables: an identifier held by an arbiter, a     *)
(* cache or the polling path always names the entry it was issued for.     *)
THEOREM IdentifiersDistinct == Spec => []IdsDistinct
  BY Invariance, IInvProperties, PTL

(* perform_request never finds its transaction gone, whatever responses    *)
(* other callers take in between.                                          *)
THEOREM CompatAlwaysBacked == Spec => []CompatBacked
  BY Invariance, IInvProperties, PTL

(* Every request reaches its device once for each of its beats, counted at *)
(* the device, and is answered once and complete, or with the error of the *)
(* word that refused it; a polled access repeated before its answer is     *)
(* never submitted a second time.                                          *)
THEOREM PerformedExactlyOnce == Spec => []ExactlyOnce
  BY Invariance, IInvProperties, PTL
=============================================================================
