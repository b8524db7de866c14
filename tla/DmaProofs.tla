----------------------------- MODULE DmaProofs -----------------------------
(***************************************************************************)
(* Safety of the DMA engine on the arbiter and the memory map, for every   *)
(* layout of the devices, latency, burst size, read-ahead, window, and     *)
(* whatever software writes to the registers.                              *)
(***************************************************************************)
EXTENDS DmaSystem, BusProtocolProofs, FiniteSetTheorems

-----------------------------------------------------------------------------
(* The invariant, of an engine d, a queue q of requests in flight, a burst *)
(* table t, words m and the job j that was started last.  A tick goes      *)
(* through several such states.                                            *)

(* The requests without an answer are those of the table.                  *)
Linked(q, t) ==
  /\ Distinct(q)
  /\ Distinct(t)
  /\ \A n \in DOMAIN t : \E i \in DOMAIN q : q[i].id = t[n].id /\ q[i].completion = None
  /\ \A i \in DOMAIN q : q[i].completion = None => \E n \in DOMAIN t : t[n].id = q[i].id

(* Word w of the destination is to hold v.                                 *)
Right(j, w, v) == ReadAheadSafe(j) => v = j.before[j.source + (w - j.destination)]

RightWords(j, w, words) == \A n \in DOMAIN words : Right(j, w + (n - 1), words[n])

Copied(j, m, w) == w \in Words /\ Right(j, w, m[w])

(* A transfer is cut in pieces on their way: writes on the bus (class 0),  *)
(* words read (1), reads on the bus (2), each in the order of its queue.   *)
Issued(d) == d.active.issued_requests

ReadyWrites(d) == d.active.ready_writes

IsPiece(d, c, i) ==
  IF c = 1 THEN i \in DOMAIN ReadyWrites(d)
  ELSE i \in DOMAIN Issued(d) /\ Issued(d)[i].kind = (IF c = 0 THEN "store" ELSE "load")

Lo(d, c, i) == IF c = 1 THEN ReadyWrites(d)[i].destination ELSE Issued(d)[i].destination

Hi(d, c, i) ==
  IF c = 1 THEN ReadyWrites(d)[i].destination + Len(ReadyWrites(d)[i].words)
  ELSE Issued(d)[i].destination + Issued(d)[i].beats

Before(c, i, e, k) == c < e \/ (c = e /\ i < k)

(* The words up to here are counted.                                       *)
Counted(d, j) == j.destination + d.transferred_words

(* A piece may begin at w: all before w is counted or in other pieces.     *)
Reached(d, j, w) ==
  w = Counted(d, j) \/ \E c \in 0 .. 2, i \in Nat : IsPiece(d, c, i) /\ Hi(d, c, i) = w

Ordered(d) ==
  \A c, e \in 0 .. 2, i, k \in Nat :
    IsPiece(d, c, i) /\ IsPiece(d, e, k) /\ Before(c, i, e, k) => Hi(d, c, i) <= Lo(d, e, k)

(* The pieces follow each other from the counted words to the words still  *)
(* to be read.                                                             *)
Layout(d, j) ==
  /\ d.active.next_source = j.source + (d.active.next_destination - j.destination)
  /\ d.active.next_destination + d.active.remaining_words = j.destination + j.length
  /\ Counted(d, j) <= d.active.next_destination
  /\ \A c \in 0 .. 2, i \in Nat : IsPiece(d, c, i) =>
       /\ Counted(d, j) <= Lo(d, c, i)
       /\ Hi(d, c, i) <= d.active.next_destination
       /\ Reached(d, j, Lo(d, c, i))
  /\ Reached(d, j, d.active.next_destination)
  /\ Ordered(d)

(* The request of entry e of the table is the one the engine noted as r.   *)
OnBus(j, r, e) ==
  /\ e.request.kind = r.kind
  /\ Beats(e.request) = r.beats
  /\ r.kind = "store" => /\ e.request.addr = r.destination
                         /\ RightWords(j, r.destination, e.request.data)
  /\ r.kind = "load" => /\ e.request.addr = j.source + (r.destination - j.destination)
                        /\ \A n \in 1 .. e.beat : Right(j, r.destination + (n - 1), e.data[n])

Answers(j, r, response) ==
  response.kind # "error" =>
    /\ response.kind = r.kind
    /\ Len(response.words) = r.beats
    /\ r.kind = "load" => RightWords(j, r.destination, response.words)

Matches(d, q, t, j) ==
  /\ Len(Issued(d)) = Len(q)
  /\ \A i \in DOMAIN q, n \in DOMAIN t : t[n].id = q[i].id => OnBus(j, Issued(d)[i], t[n])
  /\ \A i \in DOMAIN q : q[i].completion # None => Answers(j, Issued(d)[i], q[i].completion)

Buffered(d, j) ==
  \A i \in DOMAIN ReadyWrites(d) :
    RightWords(j, ReadyWrites(d)[i].destination, ReadyWrites(d)[i].words)

(* What the transfer has done to the words: all counted ones, the beats a  *)
(* write on the bus has performed and those of an answered write are       *)
(* copied; nothing but counted words and writes on the bus has changed.    *)
CountedCopied(d, m, j) ==
  \A w \in Nat : j.destination <= w /\ w < Counted(d, j) => Copied(j, m, w)

BeatsCopied(r, e, m, j) ==
  r.kind = "store" => \A k \in Nat : k < e.beat => Copied(j, m, r.destination + k)

AnswerCopied(r, response, m, j) ==
  r.kind = "store" /\ response.kind # "error" =>
    \A k \in Nat : k < r.beats => Copied(j, m, r.destination + k)

Touched(d, j, w) ==
  \/ j.destination <= w /\ w < Counted(d, j)
  \/ \E i \in DOMAIN Issued(d) : /\ Issued(d)[i].kind = "store"
                                 /\ Issued(d)[i].destination <= w
                                 /\ w < Issued(d)[i].destination + Issued(d)[i].beats

InMemory(d, q, t, m, j) ==
  /\ CountedCopied(d, m, j)
  /\ \A i \in DOMAIN q, n \in DOMAIN t : t[n].id = q[i].id => BeatsCopied(Issued(d)[i], t[n], m, j)
  /\ \A i \in DOMAIN q : q[i].completion # None =>
       AnswerCopied(Issued(d)[i], q[i].completion, m, j)
  /\ \A w \in Words : m[w] = j.before[w] \/ Touched(d, j, w)

Running(d, q, t, m, j) ==
  /\ Layout(d, j)
  /\ Matches(d, q, t, j)
  /\ Buffered(d, j)
  /\ InMemory(d, q, t, m, j)

(* Done, failed, or refused: what is left on the bus writes at most words  *)
(* of the destination that are not counted.                                *)
Stopped(d, t, m, j) ==
  /\ d.transferred_words <= j.length
  /\ d.done => d.transferred_words = j.length
  /\ CountedCopied(d, m, j)
  /\ \A n \in DOMAIN t : t[n].request.kind = "store" =>
       /\ Counted(d, j) <= t[n].request.addr
       /\ t[n].request.addr + Beats(t[n].request) <= j.destination + j.length
  /\ \A w \in Words : \/ m[w] = j.before[w]
                      \/ j.destination <= w /\ w < j.destination + j.length

Followed(d, q, t, m, j) ==
  IF IsBusy(d) THEN Running(d, q, t, m, j) ELSE Stopped(d, t, m, j)

Status(d, j) ==
  /\ ~(d.done /\ d.error)
  /\ IsBusy(d) => ~d.done /\ ~d.error /\ j # NoTransfer

Typed(d, q, t, m, j) ==
  /\ m \in [Words -> Values]
  /\ TableOK(t)
  /\ q \in Seq(FlightType)
  /\ d \in DmaType
  /\ j \in JobType \cup {NoTransfer}

Sound(d, q, t, m, j) ==
  /\ Typed(d, q, t, m, j)
  /\ Linked(q, t)
  /\ Status(d, j)
  /\ j # NoTransfer /\ j.fresh => Followed(d, q, t, m, j)

IInv ==
  /\ Sound(dma, in_flight, bursts, mem, job)
  /\ cpu_reserved \in BOOLEAN
  /\ started \in Nat

-----------------------------------------------------------------------------
(* What the types say.                                                     *)

LEMMA BusyType ==
  ASSUME NEW d \in DmaType, IsBusy(d)
  PROVE  /\ d.active \in TransferType
         /\ Issued(d) \in Seq(IssuedType)
         /\ ReadyWrites(d) \in Seq(WriteType)
         /\ d.transferred_words \in Nat
  BY DEF DmaType, TransferType, IsBusy, Issued, ReadyWrites

LEMMA IssuedIs ==
  ASSUME NEW d \in DmaType, IsBusy(d), NEW i \in DOMAIN Issued(d)
  PROVE  /\ Issued(d)[i].kind \in {"load", "store"}
         /\ Issued(d)[i].destination \in Nat
         /\ Issued(d)[i].beats \in Nat \ {0}
PROOF
<1>1. Issued(d) \in Seq(IssuedType)
  BY BusyType
<1>2. Issued(d)[i] \in IssuedType
  BY <1>1
<1> QED BY <1>2 DEF IssuedType

LEMMA ReadyIs ==
  ASSUME NEW d \in DmaType, IsBusy(d), NEW i \in DOMAIN ReadyWrites(d)
  PROVE  /\ ReadyWrites(d)[i].destination \in Nat
         /\ ReadyWrites(d)[i].words \in Seq(Values)
         /\ Len(ReadyWrites(d)[i].words) \in Nat \ {0}
PROOF
<1>1. ReadyWrites(d) \in Seq(WriteType)
  BY BusyType
<1>2. ReadyWrites(d)[i] \in WriteType
  BY <1>1
<1> QED BY <1>2 DEF WriteType

LEMMA JobIs ==
  ASSUME NEW j \in JobType
  PROVE  /\ j.source \in Nat /\ j.destination \in Nat /\ j.length \in Nat
         /\ j.before \in [Words -> Values] /\ j.fresh \in BOOLEAN
  BY DEF JobType

(* A piece is not empty and lies between the counted words and the words   *)
(* still to be read.                                                       *)
LEMMA PieceIs ==
  ASSUME NEW d \in DmaType, IsBusy(d), NEW c \in 0 .. 2, NEW i \in Nat, IsPiece(d, c, i)
  PROVE  Lo(d, c, i) \in Nat /\ Hi(d, c, i) \in Nat /\ Lo(d, c, i) < Hi(d, c, i)
PROOF
<1>1. CASE c = 1
  BY <1>1, ReadyIs DEF IsPiece, Lo, Hi
<1>2. CASE c # 1
  BY <1>2, IssuedIs DEF IsPiece, Lo, Hi
<1> QED BY <1>1, <1>2

-----------------------------------------------------------------------------
(* A clock cycle of the memory map. *)

(* The request in flight an entry of the table belongs to.                 *)
LEMMA EntryHasRequest ==
  ASSUME NEW d, NEW q, NEW t, NEW m, NEW j, Sound(d, q, t, m, j), IsBusy(d),
         Running(d, q, t, m, j), NEW n \in DOMAIN t
  PROVE  \E i \in DOMAIN q : /\ q[i].id = t[n].id
                             /\ i \in DOMAIN Issued(d)
                             /\ OnBus(j, Issued(d)[i], t[n])
PROOF
<1>1. PICK i \in DOMAIN q : q[i].id = t[n].id
  BY DEF Sound, Linked
<1>2. q \in Seq(FlightType) /\ Issued(d) \in Seq(IssuedType) /\ Len(Issued(d)) = Len(q)
  BY BusyType DEF Sound, Typed, Running, Matches
<1>3. i \in DOMAIN Issued(d)
  BY <1>2
<1>4. OnBus(j, Issued(d)[i], t[n])
  BY <1>1 DEF Running, Matches
<1> QED BY <1>1, <1>3, <1>4

(* A beat stored in this cycle is one of the transfer's.                   *)
Belongs(d, j, w, v) == Touched(d, j, w) /\ w \in Words /\ Right(j, w, v)

LEMMA StoredBelongs ==
  ASSUME NEW d, NEW q, NEW t, NEW m, NEW j, Sound(d, q, t, m, j), IsBusy(d),
         Running(d, q, t, m, j), j \in JobType,
         NEW latency, NEW n \in DOMAIN t, NEW w, StoresAt(t, latency, n, w)
  PROVE  Belongs(d, j, w, t[n].request.data[t[n].beat + 1])
PROOF
<1> DEFINE e == t[n]
<1>1. PICK i \in DOMAIN q : i \in DOMAIN Issued(d) /\ OnBus(j, Issued(d)[i], t[n])
  BY EntryHasRequest
<1> DEFINE r == Issued(d)[i]
<1>2. d \in DmaType /\ EntryOK(e)
  BY DEF Sound, Typed, TableOK
<1>3. r.destination \in Nat /\ r.beats \in Nat \ {0}
  BY <1>1, <1>2, IssuedIs
<1> HIDE DEF e, r
<1>4. /\ ~Finished(e) /\ e.request.kind = "store" /\ BeatAddr(e) = w
  BY DEF StoresAt, Writes, Executes, e
<1>5. w \in Words /\ e.beat + 1 \in 1 .. Beats(e.request) /\ e.beat \in Nat
  BY <1>2, <1>4, BeatAddrMapped DEF EntryOK, EntryType
<1>6. /\ r.kind = "store" /\ Beats(e.request) = r.beats /\ e.request.addr = r.destination
      /\ RightWords(j, r.destination, e.request.data)
  BY <1>1, <1>4 DEF OnBus, e, r
<1>7. w = r.destination + e.beat
  BY <1>4, <1>6 DEF BeatAddr
<1>8. r.destination <= w /\ w < r.destination + r.beats
  BY <1>3, <1>5, <1>6, <1>7
<1>9. Touched(d, j, w)
  BY <1>1, <1>6, <1>8 DEF Touched, r
<1>10. Right(j, w, e.request.data[e.beat + 1])
  <2>1. e.beat + 1 \in DOMAIN e.request.data
    BY <1>2, <1>5 DEF EntryOK, EntryType, RequestType, Beats
  <2>2. Right(j, r.destination + ((e.beat + 1) - 1), e.request.data[e.beat + 1])
    BY <1>6, <2>1 DEF RightWords
  <2>3. r.destination + ((e.beat + 1) - 1) = w
    BY <1>3, <1>5, <1>7
  <2> QED BY <2>2, <2>3
<1> QED BY <1>5, <1>9, <1>10 DEF Belongs, e

(* The words a read has still to take are none the transfer writes.        *)
LEMMA SourceUntouched ==
  ASSUME NEW d \in DmaType, IsBusy(d), NEW j \in JobType, Layout(d, j), ReadAheadSafe(j),
         NEW i \in DOMAIN Issued(d), Issued(d)[i].kind = "load",
         NEW x \in Nat, x < Issued(d)[i].beats
  PROVE  ~Touched(d, j, j.source + (Issued(d)[i].destination - j.destination) + x)
PROOF
<1> DEFINE r == Issued(d)[i]
           a == j.source + (r.destination - j.destination) + x
<1>1. i \in Nat /\ r.destination \in Nat /\ r.beats \in Nat
  BY IssuedIs, BusyType
<1>2. /\ j.source \in Nat /\ j.destination \in Nat /\ j.length \in Nat
      /\ d.transferred_words \in Nat
      /\ d.active.next_destination \in Nat /\ d.active.remaining_words \in Nat
  BY JobIs, BusyType DEF TransferType
<1>3. IsPiece(d, 2, i) /\ Lo(d, 2, i) = r.destination /\ Hi(d, 2, i) = r.destination + r.beats
  BY DEF IsPiece, Lo, Hi
<1>4. /\ Counted(d, j) <= r.destination
      /\ r.destination + r.beats <= d.active.next_destination
      /\ d.active.next_destination + d.active.remaining_words = j.destination + j.length
  BY <1>1, <1>3 DEF Layout
<1>5. j.destination <= Counted(d, j) /\ Counted(d, j) \in Nat
  BY <1>2 DEF Counted
<1>6. ASSUME NEW k \in DOMAIN Issued(d), Issued(d)[k].kind = "store"
      PROVE  /\ Issued(d)[k].destination + Issued(d)[k].beats <= r.destination
             /\ j.destination <= Issued(d)[k].destination
             /\ Issued(d)[k].destination \in Nat /\ Issued(d)[k].beats \in Nat
  <2>1. k \in Nat /\ Issued(d)[k].destination \in Nat /\ Issued(d)[k].beats \in Nat
    BY IssuedIs, BusyType
  <2>2. /\ IsPiece(d, 0, k) /\ Lo(d, 0, k) = Issued(d)[k].destination
        /\ Hi(d, 0, k) = Issued(d)[k].destination + Issued(d)[k].beats
    BY <1>6 DEF IsPiece, Lo, Hi
  <2>3. Counted(d, j) <= Lo(d, 0, k)
    BY <2>1, <2>2 DEF Layout
  <2>4. Before(0, k, 2, i)
    BY DEF Before
  <2>5. Hi(d, 0, k) <= Lo(d, 2, i)
    BY <1>1, <1>3, <2>1, <2>2, <2>4 DEF Layout, Ordered
  <2> QED BY <1>2, <1>3, <1>5, <2>1, <2>2, <2>3, <2>5
<1> SUFFICES ASSUME Touched(d, j, a) PROVE FALSE
  OBVIOUS
<1>7. PICK lo \in Nat, hi \in Nat : /\ lo <= a /\ a < hi
                                    /\ j.destination <= lo /\ hi <= r.destination
  <2> HIDE DEF a, r
  <2>1. CASE j.destination <= a /\ a < Counted(d, j)
    BY <1>2, <1>4, <1>5, <2>1
  <2>2. CASE ~(j.destination <= a /\ a < Counted(d, j))
    <3>1. PICK k \in DOMAIN Issued(d) : /\ Issued(d)[k].kind = "store"
                                        /\ Issued(d)[k].destination <= a
                                        /\ a < Issued(d)[k].destination + Issued(d)[k].beats
      BY <2>2 DEF Touched
    <3>2. /\ Issued(d)[k].destination \in Nat
          /\ Issued(d)[k].destination + Issued(d)[k].beats \in Nat
      BY <1>6, <3>1
    <3> QED BY <1>6, <3>1, <3>2
  <2> QED BY <2>1, <2>2
<1>8. r.destination + x < j.destination + j.length
  BY <1>1, <1>2, <1>4
<1>9. CASE j.destination <= j.source
  BY <1>1, <1>2, <1>7, <1>9
<1>10. CASE j.destination >= j.source + j.length
  BY <1>1, <1>2, <1>7, <1>8, <1>10
<1> QED BY <1>9, <1>10 DEF ReadAheadSafe

(* The words after a clock cycle: what was copied stays copied, and what   *)
(* the transfer does not touch stays as it is.                             *)
LEMMA CycleWords ==
  ASSUME NEW d, NEW q, NEW t, NEW m, NEW j, Sound(d, q, t, m, j), IsBusy(d),
         Running(d, q, t, m, j), j \in JobType,
         NEW latency, NEW n \in 0 .. Len(t), NEW w \in Words
  PROVE  LET v == MemAfter(t, latency, m, n)[w]
         IN  /\ Right(j, w, m[w]) => Right(j, w, v)
             /\ v = m[w] \/ Touched(d, j, w)
PROOF
<1> DEFINE v == MemAfter(t, latency, m, n)[w]
<1>1. t \in Seq(EntryType) /\ n \in Nat /\ 1 .. n \subseteq DOMAIN t
  BY DEF Sound, Typed, TableOK
<1>2. Changed(t, latency, m, n, w, v)
  BY <1>1, MemAfterChanges
<1> HIDE DEF v
<1>3. CASE v = m[w]
  BY <1>3 DEF v
<1>4. CASE v # m[w]
  <2>1. PICK i \in 1 .. n : /\ StoresAt(t, latency, i, w)
                            /\ v = t[i].request.data[t[i].beat + 1]
    BY <1>2, <1>4 DEF Changed
  <2>2. Belongs(d, j, w, v)
    BY <1>1, <2>1, StoredBelongs
  <2> QED BY <2>2 DEF Belongs, v
<1> QED BY <1>3, <1>4

(* A beat that a write performs in a cycle is there after it.              *)
LEMMA CycleStores ==
  ASSUME NEW d, NEW q, NEW t, NEW m, NEW j, Sound(d, q, t, m, j), IsBusy(d),
         Running(d, q, t, m, j), j \in JobType,
         NEW latency, NEW n \in DOMAIN t, NEW w, StoresAt(t, latency, n, w)
  PROVE  Copied(j, MemAfter(t, latency, m, Len(t)), w)
PROOF
<1> DEFINE v == MemAfter(t, latency, m, Len(t))[w]
<1>1. t \in Seq(EntryType) /\ Len(t) \in Nat /\ DOMAIN t = 1 .. Len(t)
  BY DEF Sound, Typed, TableOK
<1>2. w \in Words
  BY StoredBelongs DEF Belongs
<1>3. Changed(t, latency, m, Len(t), w, v)
  BY <1>1, <1>2, MemAfterChanges
<1> HIDE DEF v
<1>4. PICK i \in 1 .. Len(t) : /\ StoresAt(t, latency, i, w)
                               /\ v = t[i].request.data[t[i].beat + 1]
  BY <1>1, <1>3 DEF Changed
<1>5. Belongs(d, j, w, v)
  BY <1>1, <1>4, StoredBelongs
<1> QED BY <1>5 DEF Belongs, Copied, v

(* The requests on the bus stay what they were noted to be, and a read     *)
(* takes the words as the transfer found them.                             *)
LEMMA CycleOnBus ==
  ASSUME NEW d, NEW q, NEW t, NEW m, NEW j, Sound(d, q, t, m, j), IsBusy(d),
         Running(d, q, t, m, j), j \in JobType,
         NEW latency \in [DOMAIN t -> Nat],
         NEW i \in DOMAIN q, NEW n \in DOMAIN t, t[n].id = q[i].id
  PROVE  /\ OnBus(j, Issued(d)[i], AdvanceAll(t, latency, m)[n])
         /\ BeatsCopied(Issued(d)[i], AdvanceAll(t, latency, m)[n],
                        MemAfter(t, latency, m, Len(t)), j)
PROOF
<1> DEFINE e == t[n]
           r == Issued(d)[i]
           l == latency[n]
           v == MemAfter(t, latency, m, n - 1)[BeatAddr(e)]
           x == AdvanceAll(t, latency, m)[n]
           after == MemAfter(t, latency, m, Len(t))
<1>1. /\ TableOK(t) /\ EntryOK(e) /\ d \in DmaType /\ m \in [Words -> Values]
      /\ l \in Nat /\ n \in 1 .. Len(t) /\ n - 1 \in 0 .. Len(t)
  BY DEF Sound, Typed, TableOK
<1>2. i \in DOMAIN Issued(d) /\ OnBus(j, r, e) /\ BeatsCopied(r, e, m, j)
  <2>1. q \in Seq(FlightType) /\ Issued(d) \in Seq(IssuedType) /\ Len(Issued(d)) = Len(q)
    BY <1>1, BusyType DEF Sound, Typed, Running, Matches
  <2>2. i \in DOMAIN Issued(d)
    BY <2>1
  <2> QED BY <2>2 DEF Running, Matches, InMemory
<1>3. r.kind \in {"load", "store"} /\ r.destination \in Nat /\ r.beats \in Nat \ {0}
  BY <1>1, <1>2, IssuedIs
<1>4. x = Advance(e, l, v)
  BY DEF AdvanceAll
<1>5. Progressed(e, x, l, v) /\ x.request = e.request
  <2>1. x.request = e.request
    BY <1>1, AdvanceAllOK
  <2> HIDE DEF e, x, l, v
  <2> QED BY <1>1, <1>4, <2>1, AdvanceProgress
<1>6. e.beat \in Nat /\ e.data \in Seq(Values) /\ Len(e.data) = Beats(e.request)
  BY <1>1 DEF EntryOK, EntryType
<1>7. Executes(e, l) => /\ ~Finished(e) /\ BeatAddr(e) \in Words
                        /\ e.beat + 1 \in DOMAIN e.data /\ e.beat < r.beats
  <2> SUFFICES ASSUME Executes(e, l)
               PROVE  /\ ~Finished(e) /\ BeatAddr(e) \in Words
                      /\ e.beat + 1 \in DOMAIN e.data /\ e.beat < r.beats
    OBVIOUS
  <2>1. ~Finished(e)
    BY DEF Executes
  <2>2. BeatAddr(e) \in Words /\ e.beat + 1 \in 1 .. Beats(e.request)
    BY <1>1, <2>1, BeatAddrMapped
  <2>3. Beats(e.request) = r.beats
    BY <1>2 DEF OnBus
  <2> HIDE DEF e, r
  <2> QED BY <1>3, <1>6, <2>1, <2>2, <2>3
<1>8. ASSUME r.kind = "load", Executes(e, l) PROVE Right(j, r.destination + e.beat, v)
  <2> SUFFICES ASSUME ReadAheadSafe(j)
               PROVE  v = j.before[j.source + ((r.destination + e.beat) - j.destination)]
    BY DEF Right
  <2> DEFINE a == j.source + (r.destination - j.destination) + e.beat
  <2>1. BeatAddr(e) = a
    BY <1>2, <1>8 DEF OnBus, BeatAddr
  <2>2. ~Touched(d, j, a)
    BY <1>1, <1>2, <1>6, <1>7, <1>8, SourceUntouched DEF Running
  <2>3. a \in Words
    BY <1>7, <1>8, <2>1
  <2> HIDE DEF a, v
  <2>4. v = m[a]
    BY <1>1, <2>1, <2>2, <2>3, CycleWords DEF v
  <2>5. m[a] = j.before[a]
    BY <2>2, <2>3 DEF Running, InMemory
  <2>6. a = j.source + ((r.destination + e.beat) - j.destination)
    BY <1>3, <1>6, JobIs DEF a
  <2> QED BY <2>4, <2>5, <2>6
<1> HIDE DEF e, r, l, v, x, after
<1>9. OnBus(j, r, x)
  <2>1. CASE r.kind = "store"
    BY <1>2, <1>5, <2>1 DEF OnBus
  <2>2. CASE r.kind = "load"
    <3>1. ASSUME NEW k \in 1 .. x.beat PROVE Right(j, r.destination + (k - 1), x.data[k])
      <4>1. CASE Executes(e, l) /\ k = e.beat + 1
        <5>1. e.request.kind # "store"
          BY <1>2, <2>2 DEF OnBus
        <5>2. x.data[k] = v
          BY <1>5, <1>6, <1>7, <4>1, <5>1 DEF Progressed
        <5>3. r.destination + (k - 1) = r.destination + e.beat
          BY <1>3, <1>6, <4>1
        <5> QED BY <1>8, <2>2, <4>1, <5>2, <5>3
      <4>2. CASE ~(Executes(e, l) /\ k = e.beat + 1)
        <5>1. k \in 1 .. e.beat
          BY <1>5, <1>6, <3>1, <4>2 DEF Progressed
        <5>2. x.data[k] = e.data[k]
          BY <1>5, <1>6, <1>7, <4>2, <5>1 DEF Progressed
        <5> QED BY <1>2, <2>2, <5>1, <5>2 DEF OnBus
      <4> QED BY <4>1, <4>2
    <3> QED BY <1>2, <1>5, <2>2, <3>1 DEF OnBus
  <2> QED BY <1>3, <2>1, <2>2
<1>10. BeatsCopied(r, x, after, j)
  <2> SUFFICES ASSUME r.kind = "store", NEW k \in Nat, k < x.beat
               PROVE  Copied(j, after, r.destination + k)
    BY DEF BeatsCopied
  <2>1. CASE Executes(e, l) /\ k = e.beat
    <3>1. e.request.kind = "store" /\ e.request.addr = r.destination
      BY <1>2 DEF OnBus
    <3>2. StoresAt(t, latency, n, r.destination + k)
      BY <2>1, <3>1 DEF StoresAt, Writes, BeatAddr, e, l
    <3> QED BY <3>2, CycleStores DEF after
  <2>2. CASE ~(Executes(e, l) /\ k = e.beat)
    <3>1. k < e.beat
      BY <1>5, <1>6, <2>2 DEF Progressed
    <3>2. Copied(j, m, r.destination + k)
      BY <1>2, <3>1 DEF BeatsCopied
    <3>3. Len(t) \in 0 .. Len(t)
      BY <1>1
    <3> QED BY <3>2, <3>3, CycleWords DEF Copied, after
  <2> QED BY <2>1, <2>2
<1> QED BY <1>9, <1>10 DEF r, x, after

(* What is left of a stopped transfer stays within the destination.        *)
LEMMA CycleStopped ==
  ASSUME NEW d \in DmaType, NEW t, TableOK(t), NEW m, NEW j \in JobType, Stopped(d, t, m, j),
         NEW latency \in [DOMAIN t -> Nat], m \in [Words -> Values]
  PROVE  Stopped(d, AdvanceAll(t, latency, m), MemAfter(t, latency, m, Len(t)), j)
PROOF
<1> DEFINE u == AdvanceAll(t, latency, m)
           after == MemAfter(t, latency, m, Len(t))
<1>1. /\ DOMAIN u = DOMAIN t /\ \A n \in DOMAIN t : u[n].request = t[n].request
      /\ Len(t) \in Nat /\ DOMAIN t = 1 .. Len(t)
  BY AdvanceAllOK DEF TableOK
<1> HIDE DEF u
<1>2. /\ j.destination \in Nat /\ j.length \in Nat /\ d.transferred_words \in Nat
      /\ Counted(d, j) \in Nat
  BY JobIs DEF DmaType, Counted
<1>3. ASSUME NEW w \in Words
      PROVE  after[w] = m[w] \/ (Counted(d, j) <= w /\ w < j.destination + j.length)
  <2>1. Changed(t, latency, m, Len(t), w, after[w])
    BY <1>1, MemAfterChanges
  <2> HIDE DEF after
  <2>2. ASSUME NEW n \in 1 .. Len(t), StoresAt(t, latency, n, w)
        PROVE  Counted(d, j) <= w /\ w < j.destination + j.length
    <3> DEFINE e == t[n]
    <3>1. EntryOK(e) /\ n \in DOMAIN t
      BY <1>1 DEF TableOK
    <3>2. ~Finished(e) /\ e.request.kind = "store" /\ w = e.request.addr + e.beat
      BY <2>2 DEF StoresAt, Writes, Executes, BeatAddr
    <3>3. /\ Counted(d, j) <= e.request.addr
          /\ e.request.addr + Beats(e.request) <= j.destination + j.length
      BY <3>1, <3>2 DEF Stopped
    <3> HIDE DEF e
    <3>4. e.beat \in Nat /\ e.request.addr \in Nat /\ Beats(e.request) \in Nat
      BY <3>1 DEF EntryOK, EntryType, RequestType, Beats
    <3>5. e.beat + 1 \in 1 .. Beats(e.request)
      BY <3>1, <3>2, BeatAddrMapped
    <3>6. e.beat < Beats(e.request)
      BY <3>4, <3>5
    <3> DEFINE a == e.request.addr
               b == e.beat
               N == Beats(e.request)
    <3>7. a \in Nat /\ b \in Nat /\ N \in Nat /\ w = a + b /\ b < N
      BY <3>2, <3>4, <3>6
    <3>8. Counted(d, j) <= a /\ a + N <= j.destination + j.length
      BY <3>3
    <3> HIDE DEF a, b, N
    <3> QED BY <1>2, <3>7, <3>8
  <2> QED BY <2>1, <2>2 DEF Changed
<1> HIDE DEF after
<1>4. CountedCopied(d, after, j)
  <2> SUFFICES ASSUME NEW w \in Nat, j.destination <= w, w < Counted(d, j)
               PROVE  Copied(j, after, w)
    BY DEF CountedCopied
  <2>1. w \in Words /\ Right(j, w, m[w])
    BY DEF Stopped, CountedCopied, Copied
  <2>2. ~(Counted(d, j) <= w)
    BY <1>2
  <2> QED BY <1>3, <2>1, <2>2 DEF Copied
<1>5. \A w \in Words : \/ after[w] = j.before[w]
                       \/ j.destination <= w /\ w < j.destination + j.length
  <2> SUFFICES ASSUME NEW w \in Words, after[w] # j.before[w]
               PROVE  j.destination <= w /\ w < j.destination + j.length
    OBVIOUS
  <2>1. w \in Nat
    BY DevicesAssumption
  <2>2. CASE after[w] = m[w]
    BY <2>2 DEF Stopped
  <2>3. CASE after[w] # m[w]
    BY <1>2, <1>3, <2>1, <2>3 DEF Counted
  <2> QED BY <2>2, <2>3
<1>6. Stopped(d, u, after, j)
  BY <1>1, <1>4, <1>5 DEF Stopped
<1> QED BY <1>6 DEF u, after

(* A clock cycle of the memory map keeps the invariant.                    *)
LEMMA CycleSound ==
  ASSUME NEW d, NEW q, NEW t, NEW m, NEW j, Sound(d, q, t, m, j),
         NEW latency \in LatencyChoices(t)
  PROVE  Sound(d, q, AdvanceAll(t, latency, m), MemAfter(t, latency, m, Len(t)), j)
PROOF
<1> DEFINE u == AdvanceAll(t, latency, m)
           after == MemAfter(t, latency, m, Len(t))
<1>1. /\ TableOK(t) /\ m \in [Words -> Values] /\ latency \in [DOMAIN t -> Nat]
      /\ d \in DmaType /\ q \in Seq(FlightType)
  BY LatencyType DEF Sound, Typed
<1>2. /\ TableOK(u) /\ DOMAIN u = DOMAIN t
      /\ \A n \in DOMAIN t : u[n].id = t[n].id /\ u[n].request = t[n].request
  BY <1>1, AdvanceAllOK
<1>3. Len(t) \in 0 .. Len(t)
  BY <1>1 DEF TableOK
<1>4. after \in [Words -> Values]
  BY <1>1, <1>3, MemAfterType
<1>5. Typed(d, q, u, after, j)
  BY <1>2, <1>4 DEF Sound, Typed
<1>6. Linked(q, u)
  BY <1>2 DEF Sound, Linked, Distinct
<1>7. ASSUME j # NoTransfer, j.fresh, IsBusy(d) PROVE Running(d, q, u, after, j)
  <2>1. Running(d, q, t, m, j) /\ j \in JobType
    BY <1>7 DEF Sound, Followed, Typed
  <2>2. ASSUME NEW w, Copied(j, m, w) PROVE Copied(j, after, w)
    BY <1>3, <1>7, <2>1, <2>2, CycleWords DEF Copied
  <2>3. ASSUME NEW i \in DOMAIN q, NEW n \in DOMAIN t, t[n].id = q[i].id
        PROVE  OnBus(j, Issued(d)[i], u[n]) /\ BeatsCopied(Issued(d)[i], u[n], after, j)
    BY <1>1, <1>7, <2>1, <2>3, CycleOnBus
  <2>4. \A w \in Words : after[w] = m[w] \/ Touched(d, j, w)
    BY <1>3, <1>7, <2>1, CycleWords
  <2> HIDE DEF u, after
  <2>5. Matches(d, q, u, j)
    BY <1>2, <2>1, <2>3 DEF Running, Matches
  <2>6. CountedCopied(d, after, j)
    BY <2>1, <2>2 DEF Running, InMemory, CountedCopied
  <2>7. ASSUME NEW i \in DOMAIN q, q[i].completion # None
        PROVE  AnswerCopied(Issued(d)[i], q[i].completion, after, j)
    <3>1. AnswerCopied(Issued(d)[i], q[i].completion, m, j)
      BY <2>1, <2>7 DEF Running, InMemory
    <3> QED BY <2>2, <3>1 DEF AnswerCopied
  <2>8. \A w \in Words : after[w] = j.before[w] \/ Touched(d, j, w)
    BY <2>1, <2>4 DEF Running, InMemory
  <2>9. InMemory(d, q, u, after, j)
    BY <1>2, <2>3, <2>6, <2>7, <2>8 DEF InMemory
  <2> QED BY <2>1, <2>5, <2>9 DEF Running
<1>8. ASSUME j # NoTransfer, j.fresh, ~IsBusy(d) PROVE Stopped(d, u, after, j)
  <2>1. Stopped(d, t, m, j) /\ j \in JobType
    BY <1>8 DEF Sound, Followed, Typed
  <2> QED BY <1>1, <2>1, CycleStopped
<1> HIDE DEF u, after
<1>9. Sound(d, q, u, after, j)
  BY <1>5, <1>6, <1>7, <1>8 DEF Sound, Followed
<1> QED BY <1>9 DEF u, after

-----------------------------------------------------------------------------
(* Polling: the answers leave the table. *)

Entries(t) == {t[n] : n \in DOMAIN t}

(* take_burst_response answers the request e in flight with the entry y.   *)
Takes(e, y) == e.completion = None /\ y.id = e.id /\ Finished(y)

LEMMA TakeOne ==
  ASSUME NEW t, TableOK(t), Distinct(t), NEW e
  PROVE  /\ TableOK(Take(t, e)) /\ Distinct(Take(t, e))
         /\ Entries(Take(t, e)) = {y \in Entries(t) : ~Takes(e, y)}
PROOF
<1> DEFINE u == Take(t, e)
<1>1. t \in Seq(EntryType) /\ Len(t) \in Nat /\ DOMAIN t = 1 .. Len(t)
  BY DEF TableOK
<1>2. CASE e.completion = None /\ Answer(t, e) # {}
  <2> DEFINE i == CHOOSE n \in Answer(t, e) : TRUE
  <2>1. i \in DOMAIN t /\ t[i].id = e.id /\ Finished(t[i])
    BY <1>2 DEF Answer
  <2>2. u = SwapRemove(t, i)
    BY <1>2 DEF Take
  <2> HIDE DEF i
  <2>3. u = [k \in 1 .. (Len(t) - 1) |-> IF k = i THEN t[Len(t)] ELSE t[k]]
    BY <2>2 DEF SwapRemove
  <2> HIDE DEF u
  <2>4. i \in 1 .. Len(t) /\ Len(t) - 1 \in Nat /\ Len(t) \in DOMAIN t
    BY <1>1, <2>1
  <2> DEFINE at(k) == IF k = i THEN Len(t) ELSE k
  <2>5. ASSUME NEW k \in 1 .. (Len(t) - 1)
        PROVE  at(k) \in DOMAIN t /\ at(k) # i /\ u[k] = t[at(k)]
    <3>1. u[k] = IF k = i THEN t[Len(t)] ELSE t[k]
      BY <2>3
    <3>2. k \in DOMAIN t /\ k # Len(t)
      <4> DEFINE N == Len(t)
      <4>1. N \in Nat /\ DOMAIN t = 1 .. N /\ k \in 1 .. (N - 1)
        BY <1>1
      <4> HIDE DEF N
      <4>2. k \in 1 .. N /\ k # N
        BY <4>1
      <4> QED BY <4>1, <4>2 DEF N
    <3> QED BY <2>4, <3>1, <3>2
  <2>6. \A k, n \in 1 .. (Len(t) - 1) : at(k) = at(n) => k = n
    BY <2>4
  <2>7. DOMAIN u = 1 .. (Len(t) - 1)
    BY <2>3
  <2> HIDE DEF at
  <2>8. TableOK(u)
    <3>1. \A k \in 1 .. (Len(t) - 1) : u[k] \in EntryType /\ EntryOK(u[k])
      BY <2>5 DEF TableOK, EntryOK
    <3>2. u \in Seq(EntryType)
      BY <2>3, <2>4, <2>7, <3>1
    <3> QED BY <2>7, <3>1, <3>2 DEF TableOK
  <2>9. Distinct(u)
    BY <2>5, <2>6, <2>7 DEF Distinct
  <2>10. Entries(u) = {y \in Entries(t) : ~Takes(e, y)}
    <3>1. ASSUME NEW k \in DOMAIN u PROVE u[k] \in Entries(t) /\ ~Takes(e, u[k])
      BY <2>1, <2>5, <2>7 DEF Entries, Takes, Distinct
    <3>2. ASSUME NEW n \in DOMAIN t, ~Takes(e, t[n]) PROVE t[n] \in Entries(u)
      <4>1. n # i
        BY <1>2, <2>1, <3>2 DEF Takes
      <4>2. CASE n = Len(t)
        <5>1. i \in DOMAIN u /\ u[i] = t[n]
          BY <2>3, <2>4, <2>7, <4>1, <4>2
        <5> QED BY <5>1 DEF Entries
      <4>3. CASE n # Len(t)
        <5>1. n \in DOMAIN u /\ u[n] = t[n]
          BY <1>1, <2>3, <2>7, <4>1, <4>3
        <5> QED BY <5>1 DEF Entries
      <4> QED BY <4>2, <4>3
    <3> QED BY <3>1, <3>2 DEF Entries
  <2> QED BY <2>8, <2>9, <2>10 DEF u
<1>3. CASE ~(e.completion = None /\ Answer(t, e) # {})
  <2>1. u = t
    BY <1>3 DEF Take
  <2>2. \A y \in Entries(t) : ~Takes(e, y)
    BY <1>3 DEF Takes, Entries, Answer
  <2> HIDE DEF u
  <2>3. Entries(u) = {y \in Entries(t) : ~Takes(e, y)}
    BY <2>1, <2>2
  <2> QED BY <2>1, <2>3 DEF u
<1> QED BY <1>2, <1>3

(* The tables g[0] to g[N] of the loop over the first N requests.          *)
IsLeft(g, N, t) ==
  g = [n \in 0 .. N |-> IF n = 0 THEN t ELSE Take(g[n - 1], in_flight[n])]

LEMMA LeftExists ==
  ASSUME NEW t, NEW N \in Nat
  PROVE  \E g : IsLeft(g, N, t)
PROOF
<1> DEFINE Bad == {n \in Nat : ~\E g : IsLeft(g, n, t)}
           R == OpToRel(<, Nat)
<1> SUFFICES ASSUME Bad # {} PROVE FALSE
  OBVIOUS
<1>1. Bad \subseteq Nat
  OBVIOUS
<1>2. IsWellFoundedOn(R, Nat)
  BY NatLessThanWellFounded
<1>3. PICK x \in Bad : \A y \in Bad : ~(<<y, x>> \in R)
  <2> HIDE DEF R, Bad
  <2> QED BY <1>1, <1>2, WFMin
<1>4. CASE x = 0
  <2> DEFINE g == [n \in 0 .. 0 |-> t]
  <2>1. g = [n \in 0 .. 0 |-> IF n = 0 THEN t ELSE Take(g[n - 1], in_flight[n])]
    OBVIOUS
  <2>2. IsLeft(g, x, t)
    BY <1>4, <2>1 DEF IsLeft
  <2> QED BY <2>2
<1>5. CASE x # 0
  <2>1. x \in Nat /\ x - 1 \in Nat /\ x - 1 < x
    BY <1>5
  <2>2. PICK g : IsLeft(g, x - 1, t)
    <3>1. <<x - 1, x>> \in R
      BY <2>1 DEF OpToRel
    <3> QED BY <1>3, <2>1, <3>1
  <2> DEFINE h == [n \in 0 .. x |-> IF n = x THEN Take(g[x - 1], in_flight[x]) ELSE g[n]]
  <2>3. \A n \in 0 .. (x - 1) : g[n] = IF n = 0 THEN t ELSE Take(g[n - 1], in_flight[n])
    BY <2>2 DEF IsLeft
  <2>4. ASSUME NEW n \in 0 .. x
        PROVE  h[n] = IF n = 0 THEN t ELSE Take(h[n - 1], in_flight[n])
    <3>1. CASE n = x
      BY <1>5, <2>1, <3>1
    <3>2. CASE n # x
      <4>1. n \in 0 .. (x - 1) /\ (n # 0 => n - 1 \in 0 .. (x - 1))
        BY <2>1, <3>2
      <4>2. h[n] = g[n] /\ (n # 0 => h[n - 1] = g[n - 1])
        BY <2>1, <3>2, <4>1
      <4> HIDE DEF h
      <4> QED BY <2>3, <4>1, <4>2
    <3> QED BY <3>1, <3>2
  <2>5. h = [n \in 0 .. x |-> h[n]]
    OBVIOUS
  <2> HIDE DEF h
  <2>6. IsLeft(h, x, t)
    BY <2>4, <2>5 DEF IsLeft
  <2> QED BY <2>6
<1> QED BY <1>4, <1>5

(* After the loop the table holds the unfinished entries.                  *)
LEMMA UntakenIs ==
  ASSUME NEW t, TableOK(t), in_flight \in Seq(FlightType), Linked(in_flight, t)
  PROVE  /\ TableOK(Untaken(t)) /\ Distinct(Untaken(t))
         /\ Entries(Untaken(t)) = {y \in Entries(t) : ~Finished(y)}
PROOF
<1> DEFINE q == in_flight
           N == Len(q)
           g == CHOOSE f : IsLeft(f, N, t)
           Kept(n) == {y \in Entries(t) : \A k \in 1 .. n : ~Takes(q[k], y)}
           P(n) == TableOK(g[n]) /\ Distinct(g[n]) /\ Entries(g[n]) = Kept(n)
           Bad == {n \in 0 .. N : ~P(n)}
           R == OpToRel(<, Nat)
<1>1. N \in Nat /\ DOMAIN q = 1 .. N
  OBVIOUS
<1>2. IsLeft(g, N, t)
  BY <1>1, LeftExists
<1>3. Untaken(t) = g[N]
  BY DEF Untaken, IsLeft
<1> HIDE DEF g
<1>4. /\ g[0] = t
      /\ \A n \in 1 .. N : g[n] = Take(g[n - 1], q[n])
  BY <1>1, <1>2 DEF IsLeft
<1>5. Bad = {}
  <2> SUFFICES ASSUME Bad # {} PROVE FALSE
    OBVIOUS
  <2>1. Bad \subseteq Nat
    BY <1>1
  <2>2. IsWellFoundedOn(R, Nat)
    BY NatLessThanWellFounded
  <2>3. PICK x \in Bad : \A y \in Bad : ~(<<y, x>> \in R)
    <3> HIDE DEF R, Bad
    <3> QED BY <2>1, <2>2, WFMin
  <2>4. CASE x = 0
    <3>1. Kept(0) = Entries(t)
      OBVIOUS
    <3>2. P(0)
      BY <1>4, <3>1 DEF Linked
    <3> QED BY <2>4, <3>2
  <2>5. CASE x # 0
    <3>1. x \in 1 .. N /\ x - 1 \in 0 .. N
      BY <1>1, <2>5
    <3>2. P(x - 1)
      <4>1. <<x - 1, x>> \in R
        BY <1>1, <3>1 DEF OpToRel
      <4> HIDE DEF P
      <4> QED BY <2>3, <3>1, <4>1
    <3>3. g[x] = Take(g[x - 1], q[x])
      BY <1>4, <3>1
    <3>4. /\ TableOK(g[x]) /\ Distinct(g[x])
          /\ Entries(g[x]) = {y \in Entries(g[x - 1]) : ~Takes(q[x], y)}
      BY <3>2, <3>3, TakeOne
    <3>5. {y \in Kept(x - 1) : ~Takes(q[x], y)} = Kept(x)
      BY <3>1
    <3> QED BY <3>2, <3>4, <3>5
  <2> QED BY <2>4, <2>5
<1>6. P(N)
  BY <1>1, <1>5
<1>7. Kept(N) = {y \in Entries(t) : ~Finished(y)}
  <2>1. ASSUME NEW y \in Entries(t), Finished(y) PROVE \E k \in 1 .. N : Takes(q[k], y)
    <3>1. PICK n \in DOMAIN t : y = t[n]
      BY DEF Entries
    <3> QED BY <1>1, <2>1, <3>1 DEF Linked, Takes
  <2> QED BY <2>1 DEF Takes
<1> QED BY <1>3, <1>6, <1>7

(* What polling makes of the i-th request in flight.                       *)
StaysUnanswered(i, t, x) ==
  x = in_flight[i] /\ (x.completion = None => Answer(t, x) = {})

IsAnswered(i, t, x) ==
  /\ in_flight[i].completion = None
  /\ \E n \in DOMAIN t :
       /\ t[n].id = in_flight[i].id /\ Finished(t[n])
       /\ x = [master |-> 0, id |-> in_flight[i].id, completion |-> Completion(t[n])]

LEMMA PolledIs ==
  ASSUME in_flight \in Seq(FlightType), NEW t, NEW i \in DOMAIN in_flight
  PROVE  StaysUnanswered(i, t, Polled(t)[i]) \/ IsAnswered(i, t, Polled(t)[i])
PROOF
<1> DEFINE e == in_flight[i]
           x == Polled(t)[i]
           n == CHOOSE k \in Answer(t, e) : TRUE
<1>1. x = IF e.completion = None /\ Answer(t, e) # {}
          THEN [e EXCEPT !.completion = Completion(t[n])] ELSE e
  BY DEF Polled
<1>2. CASE e.completion = None /\ Answer(t, e) # {}
  <2>1. n \in DOMAIN t /\ t[n].id = e.id /\ Finished(t[n])
    BY <1>2 DEF Answer
  <2>2. e \in FlightType
    OBVIOUS
  <2> HIDE DEF n, e
  <2>3. [e EXCEPT !.completion = Completion(t[n])]
          = [master |-> 0, id |-> e.id, completion |-> Completion(t[n])]
    BY <2>2 DEF FlightType
  <2>4. x = [master |-> 0, id |-> e.id, completion |-> Completion(t[n])]
    BY <1>1, <1>2, <2>3
  <2> HIDE DEF x
  <2>5. IsAnswered(i, t, x)
    BY <1>2, <2>1, <2>4 DEF IsAnswered, e
  <2> QED BY <2>5 DEF x
<1>3. CASE ~(e.completion = None /\ Answer(t, e) # {})
  <2>1. x = e
    BY <1>1, <1>3
  <2> HIDE DEF x
  <2>2. StaysUnanswered(i, t, x)
    BY <1>3, <2>1 DEF StaysUnanswered
  <2> QED BY <2>2 DEF x
<1> QED BY <1>2, <1>3

LEMMA CompletionIs ==
  ASSUME NEW e, EntryOK(e), Finished(e)
  PROVE  /\ Completion(e) \in ResponseType
         /\ Completion(e).kind # "error" =>
              /\ e.beat = Beats(e.request)
              /\ Completion(e).kind = e.request.kind
              /\ Completion(e).words = e.data
PROOF
<1>1. e.request.kind \in Kinds /\ e.data \in Seq(Values)
  BY DEF EntryOK, EntryType, RequestType
<1>2. CASE e.phase.state = "Failed"
  <2>1. Completion(e) = [kind |-> "error", words |-> << >>]
    BY <1>2 DEF Completion
  <2> QED BY <2>1 DEF ResponseType
<1>3. CASE e.phase.state = "Ready"
  <2>1. Completion(e) = [kind |-> e.request.kind, words |-> e.data]
    BY <1>3 DEF Completion
  <2> QED BY <1>1, <1>3, <2>1 DEF ResponseType, EntryOK
<1> QED BY <1>2, <1>3 DEF Finished

LEMMA PolledType ==
  ASSUME in_flight \in Seq(FlightType), NEW t, TableOK(t)
  PROVE  /\ Polled(t) \in Seq(FlightType)
         /\ DOMAIN Polled(t) = DOMAIN in_flight
         /\ Len(Polled(t)) = Len(in_flight)
         /\ \A i \in DOMAIN in_flight : Polled(t)[i].id = in_flight[i].id
PROOF
<1> DEFINE q == in_flight
           p == Polled(t)
<1>1. Len(q) \in Nat /\ DOMAIN q = 1 .. Len(q)
  OBVIOUS
<1>2. p = [i \in 1 .. Len(q) |-> p[i]]
  BY <1>1 DEF Polled
<1> HIDE DEF p
<1>3. ASSUME NEW i \in DOMAIN q PROVE p[i] \in FlightType /\ p[i].id = q[i].id
  <2>1. q[i] \in FlightType
    OBVIOUS
  <2>2. CASE StaysUnanswered(i, t, p[i])
    BY <2>1, <2>2 DEF StaysUnanswered
  <2>3. CASE IsAnswered(i, t, p[i])
    <3>1. PICK n \in DOMAIN t :
            /\ Finished(t[n])
            /\ p[i] = [master |-> 0, id |-> q[i].id, completion |-> Completion(t[n])]
      BY <2>3 DEF IsAnswered
    <3>2. Completion(t[n]) \in ResponseType
      BY <3>1, CompletionIs DEF TableOK
    <3> QED BY <2>1, <3>1, <3>2 DEF FlightType
  <2> QED BY <2>2, <2>3, PolledIs DEF p
<1>4. p \in Seq(FlightType) /\ DOMAIN p = 1 .. Len(q)
  BY <1>1, <1>2, <1>3
<1>5. Len(p) = Len(q)
  BY <1>1, <1>4
<1> QED BY <1>1, <1>3, <1>4, <1>5 DEF p

LEMMA PolledLinked ==
  ASSUME in_flight \in Seq(FlightType), NEW t, TableOK(t), Linked(in_flight, t)
  PROVE  Linked(Polled(t), Untaken(t))
PROOF
<1> DEFINE q == in_flight
           p == Polled(t)
           u == Untaken(t)
<1>1. /\ DOMAIN p = DOMAIN q /\ \A i \in DOMAIN q : p[i].id = q[i].id
  BY PolledType
<1>2. Distinct(u) /\ Entries(u) = {y \in Entries(t) : ~Finished(y)}
  BY UntakenIs
<1>3. \A i \in DOMAIN q : StaysUnanswered(i, t, p[i]) \/ IsAnswered(i, t, p[i])
  BY PolledIs
<1> HIDE DEF p, u
<1>4. Distinct(p)
  BY <1>1 DEF Linked, Distinct
<1>5. ASSUME NEW n \in DOMAIN u
      PROVE  \E i \in DOMAIN p : p[i].id = u[n].id /\ p[i].completion = None
  <2>1. u[n] \in Entries(t) /\ ~Finished(u[n])
    BY <1>2 DEF Entries
  <2>2. PICK k \in DOMAIN t : u[n] = t[k]
    BY <2>1 DEF Entries
  <2>3. PICK i \in DOMAIN q : q[i].id = t[k].id /\ q[i].completion = None
    BY DEF Linked
  <2>4. ~IsAnswered(i, t, p[i])
    BY <2>1, <2>2, <2>3 DEF IsAnswered, Linked, Distinct
  <2>5. p[i] = q[i]
    BY <1>3, <2>4 DEF StaysUnanswered
  <2> QED BY <1>1, <2>2, <2>3, <2>5
<1>6. ASSUME NEW i \in DOMAIN p, p[i].completion = None
      PROVE  \E n \in DOMAIN u : u[n].id = p[i].id
  <2>1. ~IsAnswered(i, t, p[i])
    <3> SUFFICES ASSUME IsAnswered(i, t, p[i]) PROVE FALSE
      OBVIOUS
    <3>1. PICK n \in DOMAIN t :
            /\ Finished(t[n])
            /\ p[i] = [master |-> 0, id |-> q[i].id, completion |-> Completion(t[n])]
      BY DEF IsAnswered
    <3>2. Completion(t[n]) \in ResponseType
      BY <3>1, CompletionIs DEF TableOK
    <3>3. p[i].completion = Completion(t[n])
      BY <3>1
    <3> QED BY <1>6, <3>2, <3>3, SystemAssumption
  <2>2. p[i] = q[i] /\ Answer(t, q[i]) = {}
    BY <1>1, <1>3, <1>6, <2>1 DEF StaysUnanswered
  <2>3. PICK k \in DOMAIN t : t[k].id = q[i].id
    BY <1>1, <1>6, <2>2 DEF Linked
  <2>4. ~Finished(t[k])
    BY <2>2, <2>3 DEF Answer
  <2>5. t[k] \in Entries(u)
    BY <1>2, <2>4 DEF Entries
  <2> QED BY <2>2, <2>3, <2>5 DEF Entries
<1>7. Linked(p, u)
  BY <1>2, <1>4, <1>5, <1>6 DEF Linked
<1> QED BY <1>7 DEF p, u

(* An entry that has finished answers its request rightly.                 *)
LEMMA FinishedAnswers ==
  ASSUME NEW e, EntryOK(e), Finished(e), NEW j, NEW m, NEW r, r.kind \in {"load", "store"},
         OnBus(j, r, e), BeatsCopied(r, e, m, j)
  PROVE  Answers(j, r, Completion(e)) /\ AnswerCopied(r, Completion(e), m, j)
PROOF
<1> DEFINE x == Completion(e)
<1> SUFFICES ASSUME x.kind # "error"
             PROVE  Answers(j, r, x) /\ AnswerCopied(r, x, m, j)
  BY DEF Answers, AnswerCopied
<1>1. e.beat = Beats(e.request) /\ x.kind = e.request.kind /\ x.words = e.data
  BY CompletionIs
<1> HIDE DEF x
<1>2. /\ e.data \in Seq(Values) /\ Len(e.data) = Beats(e.request)
      /\ DOMAIN e.data = 1 .. Len(e.data)
  BY DEF EntryOK, EntryType
<1>3. Beats(e.request) = r.beats /\ e.request.kind = r.kind
  BY DEF OnBus
<1>4. r.kind = "load" => RightWords(j, r.destination, x.words)
  BY <1>1, <1>2 DEF OnBus, RightWords
<1>5. Answers(j, r, x)
  BY <1>1, <1>2, <1>3, <1>4 DEF Answers
<1>6. AnswerCopied(r, x, m, j)
  BY <1>1, <1>3 DEF AnswerCopied, BeatsCopied
<1> QED BY <1>5, <1>6

(* Taking the answers keeps the invariant.                                 *)
LEMMA PollSound ==
  ASSUME NEW d, NEW t, NEW m, NEW j, Sound(d, in_flight, t, m, j)
  PROVE  Sound(d, Polled(t), Untaken(t), m, j)
PROOF
<1> DEFINE q == in_flight
           p == Polled(t)
           u == Untaken(t)
<1>1. in_flight \in Seq(FlightType) /\ TableOK(t) /\ Linked(in_flight, t) /\ d \in DmaType
  BY DEF Sound, Typed
<1>2. /\ DOMAIN p = DOMAIN q /\ \A i \in DOMAIN q : p[i].id = q[i].id
      /\ p \in Seq(FlightType) /\ Len(p) = Len(q)
  BY <1>1, PolledType
<1>3. TableOK(u) /\ Distinct(u) /\ Entries(u) = {y \in Entries(t) : ~Finished(y)}
  BY <1>1, UntakenIs
<1>4. \A i \in DOMAIN q : StaysUnanswered(i, t, p[i]) \/ IsAnswered(i, t, p[i])
  BY <1>1, PolledIs
<1>5. Linked(p, u)
  BY <1>1, PolledLinked
<1> HIDE DEF p, u
<1>6. \A n \in DOMAIN u : \E k \in DOMAIN t : u[n] = t[k]
  BY <1>3 DEF Entries
<1>7. ASSUME IsBusy(d), Running(d, q, t, m, j) PROVE Running(d, p, u, m, j)
  <2>1. ASSUME NEW i \in DOMAIN p, p[i].completion # None
        PROVE  /\ Answers(j, Issued(d)[i], p[i].completion)
               /\ AnswerCopied(Issued(d)[i], p[i].completion, m, j)
    <3>1. CASE StaysUnanswered(i, t, p[i])
      BY <1>2, <1>7, <2>1, <3>1 DEF StaysUnanswered, Running, Matches, InMemory
    <3>2. CASE IsAnswered(i, t, p[i])
      <4>1. PICK n \in DOMAIN t :
              /\ t[n].id = q[i].id /\ Finished(t[n])
              /\ p[i] = [master |-> 0, id |-> q[i].id, completion |-> Completion(t[n])]
        BY <3>2 DEF IsAnswered
      <4>2. OnBus(j, Issued(d)[i], t[n]) /\ BeatsCopied(Issued(d)[i], t[n], m, j)
        BY <1>2, <1>7, <4>1 DEF Running, Matches, InMemory
      <4>3. i \in DOMAIN Issued(d)
        <5>1. Issued(d) \in Seq(IssuedType) /\ Len(Issued(d)) = Len(q)
          BY <1>1, <1>7, BusyType DEF Running, Matches
        <5> QED BY <1>1, <1>2, <5>1
      <4>4. Issued(d)[i].kind \in {"load", "store"}
        BY <1>1, <1>7, <4>3, IssuedIs
      <4>5. EntryOK(t[n])
        BY <1>1 DEF TableOK
      <4>6. p[i].completion = Completion(t[n])
        BY <4>1
      <4> QED BY <4>1, <4>2, <4>4, <4>5, <4>6, FinishedAnswers
    <3> QED BY <1>2, <1>4, <3>1, <3>2
  <2>2. ASSUME NEW i \in DOMAIN p, NEW n \in DOMAIN u, u[n].id = p[i].id
        PROVE  OnBus(j, Issued(d)[i], u[n]) /\ BeatsCopied(Issued(d)[i], u[n], m, j)
    <3>1. PICK k \in DOMAIN t : u[n] = t[k]
      BY <1>6
    <3> QED BY <1>2, <1>7, <2>2, <3>1 DEF Running, Matches, InMemory
  <2>3. Matches(d, p, u, j)
    BY <1>2, <1>7, <2>1, <2>2 DEF Running, Matches
  <2>4. InMemory(d, p, u, m, j)
    BY <1>7, <2>1, <2>2 DEF Running, InMemory
  <2> QED BY <1>7, <2>3, <2>4 DEF Running
<1>8. ASSUME Stopped(d, t, m, j) PROVE Stopped(d, u, m, j)
  BY <1>6, <1>8 DEF Stopped
<1>9. Sound(d, p, u, m, j)
  BY <1>2, <1>3, <1>5, <1>7, <1>8 DEF Sound, Typed, Followed
<1> QED BY <1>9 DEF p, u

-----------------------------------------------------------------------------
(* The pieces of a transfer change place. *)

(* Piece (c, i) of x is piece (C[c][i], I[c][i]) of d, in the same order.  *)
RenamedBy(d, x, C, I) ==
  /\ \A c \in 0 .. 2, i \in Nat : IsPiece(x, c, i) =>
       /\ C[c][i] \in 0 .. 2 /\ I[c][i] \in Nat
       /\ IsPiece(d, C[c][i], I[c][i])
       /\ Lo(x, c, i) = Lo(d, C[c][i], I[c][i])
       /\ Hi(x, c, i) = Hi(d, C[c][i], I[c][i])
  /\ \A c, e \in 0 .. 2, i, k \in Nat :
       IsPiece(x, c, i) /\ IsPiece(x, e, k) /\ Before(c, i, e, k) =>
         Before(C[c][i], I[c][i], C[e][k], I[e][k])

SamePlan(d, x) ==
  /\ x.active.next_source = d.active.next_source
  /\ x.active.next_destination = d.active.next_destination
  /\ x.active.remaining_words = d.active.remaining_words

LEMMA LayoutKept ==
  ASSUME NEW d, NEW x \in DmaType, IsBusy(x), NEW j, Layout(d, j),
         SamePlan(d, x), NEW C, NEW I, RenamedBy(d, x, C, I),
         Counted(x, j) <= x.active.next_destination,
         \A c \in 0 .. 2, i \in Nat : IsPiece(x, c, i) => Counted(x, j) <= Lo(x, c, i),
         \A w \in Nat : Counted(x, j) <= w /\ Reached(d, j, w) => Reached(x, j, w)
  PROVE  Layout(x, j)
PROOF
<1>1. Ordered(x)
  <2> SUFFICES ASSUME NEW c \in 0 .. 2, NEW e \in 0 .. 2, NEW i \in Nat, NEW k \in Nat,
                      IsPiece(x, c, i), IsPiece(x, e, k), Before(c, i, e, k)
               PROVE  Hi(x, c, i) <= Lo(x, e, k)
    BY DEF Ordered
  <2>1. /\ C[c][i] \in 0 .. 2 /\ I[c][i] \in Nat /\ C[e][k] \in 0 .. 2 /\ I[e][k] \in Nat
        /\ IsPiece(d, C[c][i], I[c][i]) /\ IsPiece(d, C[e][k], I[e][k])
        /\ Hi(x, c, i) = Hi(d, C[c][i], I[c][i]) /\ Lo(x, e, k) = Lo(d, C[e][k], I[e][k])
        /\ Before(C[c][i], I[c][i], C[e][k], I[e][k])
    BY DEF RenamedBy
  <2> QED BY <2>1 DEF Layout, Ordered
<1>2. x.active.next_destination \in Nat
  BY BusyType DEF TransferType
<1>3. ASSUME NEW c \in 0 .. 2, NEW i \in Nat, IsPiece(x, c, i)
      PROVE  /\ Counted(x, j) <= Lo(x, c, i)
             /\ Hi(x, c, i) <= x.active.next_destination
             /\ Reached(x, j, Lo(x, c, i))
  <2>1. /\ C[c][i] \in 0 .. 2 /\ I[c][i] \in Nat /\ IsPiece(d, C[c][i], I[c][i])
        /\ Lo(x, c, i) = Lo(d, C[c][i], I[c][i]) /\ Hi(x, c, i) = Hi(d, C[c][i], I[c][i])
    BY <1>3 DEF RenamedBy
  <2>2. Counted(x, j) <= Lo(x, c, i) /\ Lo(x, c, i) \in Nat
    BY <1>3, PieceIs
  <2>3. Hi(x, c, i) <= x.active.next_destination /\ Reached(d, j, Lo(x, c, i))
    BY <2>1 DEF Layout, SamePlan
  <2> QED BY <2>2, <2>3
<1>4. Reached(x, j, x.active.next_destination)
  BY <1>2 DEF Layout, SamePlan
<1> QED BY <1>1, <1>3, <1>4 DEF Layout, SamePlan

(* What is left of a queue whose front is taken.                           *)
LEMMA TailIs ==
  ASSUME NEW S, NEW s \in Seq(S), s # << >>
  PROVE  /\ 1 \in DOMAIN s
         /\ \A i \in Nat : i \in DOMAIN Tail(s) <=> i # 0 /\ i + 1 \in DOMAIN s
         /\ \A i \in DOMAIN Tail(s) : Tail(s)[i] = s[i + 1]
         /\ \A i \in DOMAIN s : i # 1 => i - 1 \in DOMAIN Tail(s) /\ i - 1 \in Nat
         /\ \A i \in DOMAIN s : i # 1 => Tail(s)[i - 1] = s[i]
PROOF
<1> DEFINE N == Len(s)
           r == Tail(s)
<1>1. N \in Nat \ {0} /\ DOMAIN s = 1 .. N /\ DOMAIN r = 1 .. (N - 1)
  OBVIOUS
<1>2. \A i \in DOMAIN r : r[i] = s[i + 1]
  OBVIOUS
<1> HIDE DEF N, r
<1>3. \A i \in 1 .. N : i # 1 => i - 1 \in 1 .. (N - 1) /\ i - 1 \in Nat /\ (i - 1) + 1 = i
  BY <1>1
<1>4. \A i \in Nat : i \in 1 .. (N - 1) <=> i # 0 /\ i + 1 \in 1 .. N
  BY <1>1
<1>5. 1 \in 1 .. N
  BY <1>1
<1>6. \A i \in DOMAIN s : i # 1 => r[i - 1] = s[i]
  BY <1>1, <1>2, <1>3
<1> QED BY <1>1, <1>2, <1>3, <1>4, <1>5, <1>6 DEF r

(* The oldest request was a read: its words wait to be written.            *)
LEMMA ReadAnsweredLayout ==
  ASSUME NEW d \in DmaType, IsBusy(d), NEW x \in DmaType, IsBusy(x), NEW j, Layout(d, j),
         SamePlan(d, x), Counted(x, j) = Counted(d, j),
         Issued(d) # << >>, Issued(d)[1].kind = "load", Issued(x) = Tail(Issued(d)),
         NEW write, write.destination = Issued(d)[1].destination,
         Len(write.words) = Issued(d)[1].beats,
         ReadyWrites(x) = Append(ReadyWrites(d), write)
  PROVE  Layout(x, j)
PROOF
<1> DEFINE N == Len(ReadyWrites(d))
           C == [c \in 0 .. 2 |-> [i \in Nat |-> IF c = 1 /\ i = N + 1 THEN 2 ELSE c]]
           I == [c \in 0 .. 2 |-> [i \in Nat |-> IF c = 1 THEN IF i = N + 1 THEN 1 ELSE i
                                                ELSE i + 1]]
<1>1. /\ Issued(d) \in Seq(IssuedType) /\ ReadyWrites(d) \in Seq(WriteType)
      /\ N \in Nat /\ DOMAIN ReadyWrites(d) = 1 .. N
      /\ ReadyWrites(x) \in Seq(WriteType)
  BY BusyType
<1>2. /\ DOMAIN ReadyWrites(x) = 1 .. (N + 1)
      /\ ReadyWrites(x)[N + 1] = write
      /\ \A i \in 1 .. N : ReadyWrites(x)[i] = ReadyWrites(d)[i]
  BY <1>1
<1>3. /\ \A i \in Nat : i \in DOMAIN Issued(x) <=> i # 0 /\ i + 1 \in DOMAIN Issued(d)
      /\ \A i \in DOMAIN Issued(x) : Issued(x)[i] = Issued(d)[i + 1]
      /\ 1 \in DOMAIN Issued(d)
      /\ \A i \in DOMAIN Issued(d) : i # 1 => i - 1 \in DOMAIN Issued(x) /\ i - 1 \in Nat
      /\ \A i \in DOMAIN Issued(d) : i # 1 => Issued(x)[i - 1] = Issued(d)[i]
  BY <1>1
<1> HIDE DEF N
<1>4. ASSUME NEW c \in 0 .. 2, NEW i \in Nat, IsPiece(x, c, i)
      PROVE  /\ C[c][i] \in 0 .. 2 /\ I[c][i] \in Nat
             /\ IsPiece(d, C[c][i], I[c][i])
             /\ Lo(x, c, i) = Lo(d, C[c][i], I[c][i])
             /\ Hi(x, c, i) = Hi(d, C[c][i], I[c][i])
  <2>1. CASE c = 1 /\ i = N + 1
    <3>1. C[c][i] = 2 /\ I[c][i] = 1
      BY <2>1
    <3>2. Lo(x, 1, N + 1) = Issued(d)[1].destination
      BY <1>2 DEF Lo
    <3>3. Hi(x, 1, N + 1) = Issued(d)[1].destination + Issued(d)[1].beats
      BY <1>2 DEF Hi
    <3>4. /\ IsPiece(d, 2, 1) /\ Lo(d, 2, 1) = Issued(d)[1].destination
          /\ Hi(d, 2, 1) = Issued(d)[1].destination + Issued(d)[1].beats
      BY <1>3 DEF IsPiece, Lo, Hi
    <3> HIDE DEF C, I
    <3> QED BY <2>1, <3>1, <3>2, <3>3, <3>4
  <2>2. CASE c = 1 /\ i # N + 1
    <3>1. C[c][i] = 1 /\ I[c][i] = i
      BY <2>2
    <3>2. i \in 1 .. N
      BY <1>1, <1>2, <1>4, <2>2 DEF IsPiece
    <3> QED BY <1>1, <1>2, <2>2, <3>1, <3>2 DEF IsPiece, Lo, Hi
  <2>3. CASE c # 1
    <3>1. C[c][i] = c /\ I[c][i] = i + 1
      BY <2>3
    <3>2. i \in DOMAIN Issued(x) /\ i + 1 \in DOMAIN Issued(d) /\ Issued(x)[i] = Issued(d)[i + 1]
      BY <1>3, <1>4, <2>3 DEF IsPiece
    <3>3. IsPiece(d, c, i + 1)
      BY <1>4, <2>3, <3>2 DEF IsPiece
    <3>4. Lo(x, c, i) = Lo(d, c, i + 1) /\ Hi(x, c, i) = Hi(d, c, i + 1)
      BY <2>3, <3>2 DEF Lo, Hi
    <3> HIDE DEF C, I
    <3> QED BY <3>1, <3>3, <3>4
  <2> QED BY <2>1, <2>2, <2>3
<1>5. ASSUME NEW c \in 0 .. 2, NEW e \in 0 .. 2, NEW i \in Nat, NEW k \in Nat,
             IsPiece(x, c, i), IsPiece(x, e, k), Before(c, i, e, k)
      PROVE  Before(C[c][i], I[c][i], C[e][k], I[e][k])
  <2>1. /\ c = 1 => i \in 1 .. (N + 1)
        /\ e = 1 => k \in 1 .. (N + 1)
        /\ c # 1 => i # 0
        /\ e # 1 => k # 0
    BY <1>2, <1>3, <1>5 DEF IsPiece
  <2>2. /\ C[c][i] = IF c = 1 /\ i = N + 1 THEN 2 ELSE c
        /\ C[e][k] = IF e = 1 /\ k = N + 1 THEN 2 ELSE e
        /\ I[c][i] = IF c = 1 THEN IF i = N + 1 THEN 1 ELSE i ELSE i + 1
        /\ I[e][k] = IF e = 1 THEN IF k = N + 1 THEN 1 ELSE k ELSE k + 1
    OBVIOUS
  <2> HIDE DEF C, I
  <2> QED BY <1>1, <1>5, <2>1, <2>2 DEF Before
<1>6. RenamedBy(d, x, C, I)
  <2> HIDE DEF C, I
  <2> QED BY <1>4, <1>5 DEF RenamedBy
<1>7. ASSUME NEW c \in 0 .. 2, NEW i \in Nat, IsPiece(d, c, i)
      PROVE  \E e \in 0 .. 2, k \in Nat : IsPiece(x, e, k) /\ Hi(x, e, k) = Hi(d, c, i)
  <2>1. CASE c = 1
    <3>1. i \in 1 .. N /\ i \in 1 .. (N + 1)
      BY <1>1, <1>7, <2>1 DEF IsPiece
    <3>2. IsPiece(x, 1, i) /\ Hi(x, 1, i) = Hi(d, 1, i)
      BY <1>2, <3>1 DEF IsPiece, Hi
    <3> QED BY <2>1, <3>2
  <2>2. CASE c # 1 /\ i = 1
    <3>1. IsPiece(x, 1, N + 1) /\ Hi(x, 1, N + 1) = Hi(d, c, i) /\ N + 1 \in Nat
      BY <1>1, <1>2, <2>2 DEF IsPiece, Hi
    <3> QED BY <3>1
  <2>3. CASE c # 1 /\ i # 1
    <3>1. i - 1 \in DOMAIN Issued(x) /\ i - 1 \in Nat /\ Issued(x)[i - 1] = Issued(d)[i]
      BY <1>3, <1>7, <2>3 DEF IsPiece
    <3>2. IsPiece(x, c, i - 1) /\ Hi(x, c, i - 1) = Hi(d, c, i)
      BY <1>7, <2>3, <3>1 DEF IsPiece, Hi
    <3> QED BY <3>1, <3>2
  <2> QED BY <2>1, <2>2, <2>3
<1>8. ASSUME NEW w \in Nat, Reached(d, j, w) PROVE Reached(x, j, w)
  <2>1. CASE w = Counted(d, j)
    BY <2>1 DEF Reached
  <2>2. CASE \E c \in 0 .. 2, i \in Nat : IsPiece(d, c, i) /\ Hi(d, c, i) = w
    BY <1>7, <2>2 DEF Reached
  <2> QED BY <1>8, <2>1, <2>2 DEF Reached
<1>9. /\ Counted(x, j) <= x.active.next_destination
      /\ \A c \in 0 .. 2, i \in Nat : IsPiece(x, c, i) => Counted(x, j) <= Lo(x, c, i)
  <2> HIDE DEF C, I
  <2> QED BY <1>4 DEF Layout, SamePlan
<1> HIDE DEF C, I
<1> QED BY <1>6, <1>8, <1>9, LayoutKept

(* The first write on the bus is where the counted words end.              *)
LEMMA FirstWrite ==
  ASSUME NEW d \in DmaType, IsBusy(d), NEW j \in JobType, Layout(d, j),
         Issued(d) # << >>, Issued(d)[1].kind = "store"
  PROVE  Issued(d)[1].destination = Counted(d, j)
PROOF
<1>1. Issued(d) \in Seq(IssuedType) /\ 1 \in DOMAIN Issued(d)
  BY BusyType
<1>2. IsPiece(d, 0, 1) /\ Lo(d, 0, 1) = Issued(d)[1].destination
  BY <1>1 DEF IsPiece, Lo
<1>3. Reached(d, j, Lo(d, 0, 1))
  BY <1>2 DEF Layout
<1>4. ASSUME NEW c \in 0 .. 2, NEW i \in Nat, IsPiece(d, c, i) PROVE Lo(d, 0, 1) < Hi(d, c, i)
  <2>1. /\ Lo(d, 0, 1) \in Nat /\ Hi(d, 0, 1) \in Nat /\ Lo(d, 0, 1) < Hi(d, 0, 1)
        /\ Lo(d, c, i) \in Nat /\ Hi(d, c, i) \in Nat /\ Lo(d, c, i) < Hi(d, c, i)
    BY <1>2, <1>4, PieceIs
  <2>2. CASE c = 0 /\ i = 1
    BY <2>1, <2>2
  <2>3. CASE ~(c = 0 /\ i = 1)
    <3>1. c # 1 => i # 0
      BY <1>1, <1>4 DEF IsPiece
    <3>2. Before(0, 1, c, i)
      BY <2>3, <3>1 DEF Before
    <3>3. Hi(d, 0, 1) <= Lo(d, c, i)
      BY <1>2, <1>4, <3>2 DEF Layout, Ordered
    <3> QED BY <2>1, <3>3
  <2> QED BY <2>2, <2>3
<1>5. Lo(d, 0, 1) \in Nat
  BY <1>2, PieceIs
<1>6. \A c \in 0 .. 2, i \in Nat : IsPiece(d, c, i) => Hi(d, c, i) # Lo(d, 0, 1)
  <2> SUFFICES ASSUME NEW c \in 0 .. 2, NEW i \in Nat, IsPiece(d, c, i)
               PROVE  Hi(d, c, i) # Lo(d, 0, 1)
    OBVIOUS
  <2>1. Lo(d, 0, 1) < Hi(d, c, i) /\ Hi(d, c, i) \in Nat
    BY <1>4, PieceIs
  <2> QED BY <1>5, <2>1
<1> QED BY <1>2, <1>3, <1>6 DEF Reached

(* The oldest request was a write: its words are counted.                  *)
LEMMA WriteAnsweredLayout ==
  ASSUME NEW d \in DmaType, IsBusy(d), NEW x \in DmaType, IsBusy(x), NEW j \in JobType,
         Layout(d, j), SamePlan(d, x),
         Issued(d) # << >>, Issued(d)[1].kind = "store", Issued(x) = Tail(Issued(d)),
         ReadyWrites(x) = ReadyWrites(d),
         Counted(x, j) = Counted(d, j) + Issued(d)[1].beats
  PROVE  Layout(x, j)
PROOF
<1> DEFINE C == [c \in 0 .. 2 |-> [i \in Nat |-> c]]
           I == [c \in 0 .. 2 |-> [i \in Nat |-> IF c = 1 THEN i ELSE i + 1]]
<1>1. /\ Issued(d) \in Seq(IssuedType) /\ 1 \in DOMAIN Issued(d)
  BY BusyType
<1>2. /\ \A i \in Nat : i \in DOMAIN Issued(x) <=> i # 0 /\ i + 1 \in DOMAIN Issued(d)
      /\ \A i \in DOMAIN Issued(x) : Issued(x)[i] = Issued(d)[i + 1]
      /\ \A i \in DOMAIN Issued(d) : i # 1 => i - 1 \in DOMAIN Issued(x) /\ i - 1 \in Nat
      /\ \A i \in DOMAIN Issued(d) : i # 1 => Issued(x)[i - 1] = Issued(d)[i]
  BY <1>1, TailIs
<1>3. Counted(x, j) = Hi(d, 0, 1) /\ IsPiece(d, 0, 1) /\ Lo(d, 0, 1) = Counted(d, j)
  BY <1>1, FirstWrite DEF Hi, Lo, IsPiece
<1>4. ASSUME NEW c \in 0 .. 2, NEW i \in Nat, IsPiece(x, c, i)
      PROVE  /\ C[c][i] = c /\ I[c][i] = IF c = 1 THEN i ELSE i + 1
             /\ IsPiece(d, C[c][i], I[c][i])
             /\ Lo(x, c, i) = Lo(d, C[c][i], I[c][i])
             /\ Hi(x, c, i) = Hi(d, C[c][i], I[c][i])
  <2>1. C[c][i] = c /\ I[c][i] = IF c = 1 THEN i ELSE i + 1
    OBVIOUS
  <2> HIDE DEF C, I
  <2>2. CASE c = 1
    BY <1>4, <2>1, <2>2 DEF IsPiece, Lo, Hi
  <2>3. CASE c # 1
    <3>1. i \in DOMAIN Issued(x) /\ i + 1 \in DOMAIN Issued(d) /\ Issued(x)[i] = Issued(d)[i + 1]
      BY <1>2, <1>4, <2>3 DEF IsPiece
    <3>2. IsPiece(d, c, i + 1)
      BY <1>4, <2>3, <3>1 DEF IsPiece
    <3>3. Lo(x, c, i) = Lo(d, c, i + 1) /\ Hi(x, c, i) = Hi(d, c, i + 1)
      BY <2>3, <3>1 DEF Lo, Hi
    <3> QED BY <2>1, <2>3, <3>2, <3>3
  <2> QED BY <2>2, <2>3
<1> HIDE DEF C, I
<1>5. ASSUME NEW c \in 0 .. 2, NEW i \in Nat, IsPiece(x, c, i)
      PROVE  /\ Before(0, 1, C[c][i], I[c][i])
             /\ Counted(x, j) <= Lo(x, c, i)
  <2>1. c # 1 => i # 0
    BY <1>2, <1>5 DEF IsPiece
  <2>2. /\ C[c][i] \in 0 .. 2 /\ I[c][i] \in Nat /\ IsPiece(d, C[c][i], I[c][i])
        /\ Lo(x, c, i) = Lo(d, C[c][i], I[c][i])
    BY <1>4, <1>5
  <2>3. Before(0, 1, C[c][i], I[c][i])
    BY <1>4, <1>5, <2>1 DEF Before
  <2>4. Hi(d, 0, 1) <= Lo(d, C[c][i], I[c][i])
    BY <1>3, <2>2, <2>3 DEF Layout, Ordered
  <2> QED BY <1>3, <2>2, <2>3, <2>4
<1>6. RenamedBy(d, x, C, I)
  <2>1. ASSUME NEW c \in 0 .. 2, NEW e \in 0 .. 2, NEW i \in Nat, NEW k \in Nat,
               IsPiece(x, c, i), IsPiece(x, e, k), Before(c, i, e, k)
        PROVE  Before(C[c][i], I[c][i], C[e][k], I[e][k])
    <3>1. /\ C[c][i] = c /\ I[c][i] = IF c = 1 THEN i ELSE i + 1
          /\ C[e][k] = e /\ I[e][k] = IF e = 1 THEN k ELSE k + 1
      BY <1>4, <2>1
    <3> QED BY <2>1, <3>1 DEF Before
  <2>2. ASSUME NEW c \in 0 .. 2, NEW i \in Nat, IsPiece(x, c, i)
        PROVE  C[c][i] \in 0 .. 2 /\ I[c][i] \in Nat
    BY <1>4, <2>2
  <2> QED BY <1>4, <2>1, <2>2 DEF RenamedBy
<1>7. ASSUME NEW c \in 0 .. 2, NEW i \in Nat, IsPiece(d, c, i), ~(c = 0 /\ i = 1)
      PROVE  \E e \in 0 .. 2, k \in Nat : IsPiece(x, e, k) /\ Hi(x, e, k) = Hi(d, c, i)
  <2>1. CASE c = 1
    BY <1>7, <2>1 DEF IsPiece, Hi
  <2>2. CASE c # 1
    <3>1. i # 1
      BY <1>7, <2>2 DEF IsPiece
    <3>2. i - 1 \in DOMAIN Issued(x) /\ i - 1 \in Nat /\ Issued(x)[i - 1] = Issued(d)[i]
      BY <1>2, <1>7, <2>2, <3>1 DEF IsPiece
    <3>3. IsPiece(x, c, i - 1) /\ Hi(x, c, i - 1) = Hi(d, c, i)
      BY <1>7, <2>2, <3>2 DEF IsPiece, Hi
    <3> QED BY <3>2, <3>3
  <2> QED BY <2>1, <2>2
<1>8. ASSUME NEW w \in Nat, Counted(x, j) <= w, Reached(d, j, w) PROVE Reached(x, j, w)
  <2>1. /\ Lo(d, 0, 1) \in Nat /\ Hi(d, 0, 1) \in Nat /\ Lo(d, 0, 1) < Hi(d, 0, 1)
    BY <1>3, PieceIs
  <2>2. w # Counted(d, j)
    BY <1>3, <1>8, <2>1
  <2>3. PICK c \in 0 .. 2, i \in Nat : IsPiece(d, c, i) /\ Hi(d, c, i) = w
    BY <1>8, <2>2 DEF Reached
  <2>4. CASE c = 0 /\ i = 1
    BY <1>3, <2>3, <2>4 DEF Reached
  <2>5. CASE ~(c = 0 /\ i = 1)
    BY <1>7, <2>3, <2>5 DEF Reached
  <2> QED BY <2>4, <2>5
<1>9. Counted(x, j) <= x.active.next_destination
  BY <1>3 DEF Layout, SamePlan
<1> QED BY <1>5, <1>6, <1>8, <1>9, LayoutKept

(* The words read first go on the bus.                                     *)
LEMMA WriteIssuedLayout ==
  ASSUME NEW d \in DmaType, IsBusy(d), NEW x \in DmaType, IsBusy(x), NEW j, Layout(d, j),
         SamePlan(d, x), Counted(x, j) = Counted(d, j),
         ReadyWrites(d) # << >>, ReadyWrites(x) = Tail(ReadyWrites(d)),
         NEW r, r.kind = "store", r.destination = ReadyWrites(d)[1].destination,
         r.beats = Len(ReadyWrites(d)[1].words),
         Issued(x) = Append(Issued(d), r)
  PROVE  Layout(x, j)
PROOF
<1> DEFINE N == Len(Issued(d))
           C == [c \in 0 .. 2 |-> [i \in Nat |-> IF c = 0 /\ i = N + 1 THEN 1 ELSE c]]
           I == [c \in 0 .. 2 |-> [i \in Nat |-> IF c = 1 THEN i + 1
                                                ELSE IF c = 0 /\ i = N + 1 THEN 1 ELSE i]]
<1>1. /\ Issued(d) \in Seq(IssuedType) /\ ReadyWrites(d) \in Seq(WriteType)
      /\ N \in Nat /\ DOMAIN Issued(d) = 1 .. N
      /\ Issued(x) \in Seq(IssuedType)
  BY BusyType
<1>2. /\ DOMAIN Issued(x) = 1 .. (N + 1)
      /\ Issued(x)[N + 1] = r
      /\ \A i \in 1 .. N : Issued(x)[i] = Issued(d)[i]
  BY <1>1
<1>3. /\ \A i \in Nat : i \in DOMAIN ReadyWrites(x) <=> i # 0 /\ i + 1 \in DOMAIN ReadyWrites(d)
      /\ \A i \in DOMAIN ReadyWrites(x) : ReadyWrites(x)[i] = ReadyWrites(d)[i + 1]
      /\ 1 \in DOMAIN ReadyWrites(d)
      /\ \A i \in DOMAIN ReadyWrites(d) :
           i # 1 => i - 1 \in DOMAIN ReadyWrites(x) /\ i - 1 \in Nat
      /\ \A i \in DOMAIN ReadyWrites(d) : i # 1 => ReadyWrites(x)[i - 1] = ReadyWrites(d)[i]
  BY <1>1, TailIs
<1> HIDE DEF N
<1>4. ASSUME NEW c \in 0 .. 2, NEW i \in Nat, IsPiece(x, c, i)
      PROVE  /\ C[c][i] = IF c = 0 /\ i = N + 1 THEN 1 ELSE c
             /\ I[c][i] = IF c = 1 THEN i + 1 ELSE IF c = 0 /\ i = N + 1 THEN 1 ELSE i
             /\ IsPiece(d, C[c][i], I[c][i])
             /\ Lo(x, c, i) = Lo(d, C[c][i], I[c][i])
             /\ Hi(x, c, i) = Hi(d, C[c][i], I[c][i])
             /\ c = 2 => i # N + 1
  <2>1. /\ C[c][i] = IF c = 0 /\ i = N + 1 THEN 1 ELSE c
        /\ I[c][i] = IF c = 1 THEN i + 1 ELSE IF c = 0 /\ i = N + 1 THEN 1 ELSE i
    OBVIOUS
  <2> HIDE DEF C, I
  <2>2. CASE c = 0 /\ i = N + 1
    <3>1. Lo(x, 0, N + 1) = r.destination /\ Hi(x, 0, N + 1) = r.destination + r.beats
      BY <1>2 DEF Lo, Hi
    <3>2. /\ IsPiece(d, 1, 1) /\ Lo(d, 1, 1) = r.destination
          /\ Hi(d, 1, 1) = r.destination + r.beats
      BY <1>3 DEF IsPiece, Lo, Hi
    <3> QED BY <2>1, <2>2, <3>1, <3>2
  <2>3. CASE c # 1 /\ ~(c = 0 /\ i = N + 1)
    <3>1. i \in 1 .. N
      BY <1>1, <1>2, <1>4, <2>3 DEF IsPiece
    <3>2. IsPiece(d, c, i) /\ Lo(x, c, i) = Lo(d, c, i) /\ Hi(x, c, i) = Hi(d, c, i)
      BY <1>1, <1>2, <1>4, <2>3, <3>1 DEF IsPiece, Lo, Hi
    <3>3. i # N + 1
      BY <1>1, <3>1
    <3> QED BY <2>1, <2>3, <3>2, <3>3
  <2>4. CASE c = 1
    <3>1. /\ i \in DOMAIN ReadyWrites(x) /\ i + 1 \in DOMAIN ReadyWrites(d)
          /\ ReadyWrites(x)[i] = ReadyWrites(d)[i + 1]
      BY <1>3, <1>4, <2>4 DEF IsPiece
    <3>2. IsPiece(d, 1, i + 1) /\ Lo(x, 1, i) = Lo(d, 1, i + 1) /\ Hi(x, 1, i) = Hi(d, 1, i + 1)
      BY <3>1 DEF IsPiece, Lo, Hi
    <3> QED BY <2>1, <2>4, <3>2
  <2> QED BY <2>2, <2>3, <2>4
<1> HIDE DEF C, I
<1>5. RenamedBy(d, x, C, I)
  <2>1. ASSUME NEW c \in 0 .. 2, NEW e \in 0 .. 2, NEW i \in Nat, NEW k \in Nat,
               IsPiece(x, c, i), IsPiece(x, e, k), Before(c, i, e, k)
        PROVE  Before(C[c][i], I[c][i], C[e][k], I[e][k])
    <3>1. /\ C[c][i] = IF c = 0 /\ i = N + 1 THEN 1 ELSE c
          /\ I[c][i] = IF c = 1 THEN i + 1 ELSE IF c = 0 /\ i = N + 1 THEN 1 ELSE i
          /\ C[e][k] = IF e = 0 /\ k = N + 1 THEN 1 ELSE e
          /\ I[e][k] = IF e = 1 THEN k + 1 ELSE IF e = 0 /\ k = N + 1 THEN 1 ELSE k
      BY <1>4, <2>1
    <3>2. /\ c # 1 => i \in 1 .. (N + 1)
          /\ e # 1 => k \in 1 .. (N + 1)
          /\ e = 1 => k # 0
      BY <1>2, <1>3, <2>1 DEF IsPiece
    <3>3. CASE c = 0
      BY <1>1, <2>1, <3>1, <3>2, <3>3 DEF Before
    <3>4. CASE c # 0
      BY <1>1, <2>1, <3>1, <3>2, <3>4 DEF Before
    <3> QED BY <3>3, <3>4
  <2>2. ASSUME NEW c \in 0 .. 2, NEW i \in Nat, IsPiece(x, c, i)
        PROVE  C[c][i] \in 0 .. 2 /\ I[c][i] \in Nat
    BY <1>4, <2>2
  <2> QED BY <1>4, <2>1, <2>2 DEF RenamedBy
<1>6. ASSUME NEW c \in 0 .. 2, NEW i \in Nat, IsPiece(d, c, i)
      PROVE  \E e \in 0 .. 2, k \in Nat : IsPiece(x, e, k) /\ Hi(x, e, k) = Hi(d, c, i)
  <2>1. CASE c # 1
    <3>1. i \in 1 .. N /\ i \in 1 .. (N + 1)
      BY <1>1, <1>6, <2>1 DEF IsPiece
    <3>2. IsPiece(x, c, i) /\ Hi(x, c, i) = Hi(d, c, i)
      BY <1>2, <1>6, <2>1, <3>1 DEF IsPiece, Hi
    <3> QED BY <3>2
  <2>2. CASE c = 1 /\ i = 1
    <3>1. IsPiece(x, 0, N + 1) /\ Hi(x, 0, N + 1) = Hi(d, c, i) /\ N + 1 \in Nat
      BY <1>1, <1>2, <2>2 DEF IsPiece, Hi
    <3> QED BY <3>1
  <2>3. CASE c = 1 /\ i # 1
    <3>1. /\ i - 1 \in DOMAIN ReadyWrites(x) /\ i - 1 \in Nat
          /\ ReadyWrites(x)[i - 1] = ReadyWrites(d)[i]
      BY <1>3, <1>6, <2>3 DEF IsPiece
    <3>2. IsPiece(x, 1, i - 1) /\ Hi(x, 1, i - 1) = Hi(d, 1, i)
      BY <3>1 DEF IsPiece, Hi
    <3> QED BY <2>3, <3>1, <3>2
  <2> QED BY <2>1, <2>2, <2>3
<1>7. ASSUME NEW w \in Nat, Reached(d, j, w) PROVE Reached(x, j, w)
  <2>1. CASE w = Counted(d, j)
    BY <2>1 DEF Reached
  <2>2. CASE w # Counted(d, j)
    <3>1. PICK c \in 0 .. 2, i \in Nat : IsPiece(d, c, i) /\ Hi(d, c, i) = w
      BY <1>7, <2>2 DEF Reached
    <3>2. PICK e \in 0 .. 2, k \in Nat : IsPiece(x, e, k) /\ Hi(x, e, k) = Hi(d, c, i)
      BY <1>6, <3>1
    <3> QED BY <3>1, <3>2 DEF Reached
  <2> QED BY <2>1, <2>2
<1>8. /\ Counted(x, j) <= x.active.next_destination
      /\ \A c \in 0 .. 2, i \in Nat : IsPiece(x, c, i) => Counted(x, j) <= Lo(x, c, i)
  <2>1. ASSUME NEW c \in 0 .. 2, NEW i \in Nat, IsPiece(x, c, i)
        PROVE  /\ C[c][i] \in 0 .. 2 /\ I[c][i] \in Nat
               /\ IsPiece(d, C[c][i], I[c][i])
               /\ Lo(x, c, i) = Lo(d, C[c][i], I[c][i])
    BY <1>5, <2>1 DEF RenamedBy
  <2> QED BY <2>1 DEF Layout, SamePlan
<1> QED BY <1>5, <1>7, <1>8, LayoutKept

(* The next words are read.                                                *)
LEMMA ReadIssuedLayout ==
  ASSUME NEW d \in DmaType, IsBusy(d), NEW x \in DmaType, IsBusy(x), NEW j \in JobType,
         Layout(d, j), Counted(x, j) = Counted(d, j), ReadyWrites(x) = ReadyWrites(d),
         NEW r, r.kind = "load", r.destination = d.active.next_destination,
         r.beats \in Nat \ {0}, r.beats <= d.active.remaining_words,
         Issued(x) = Append(Issued(d), r),
         x.active.next_source = d.active.next_source + r.beats,
         x.active.next_destination = d.active.next_destination + r.beats,
         x.active.remaining_words = d.active.remaining_words - r.beats
  PROVE  Layout(x, j)
PROOF
<1> DEFINE N == Len(Issued(d))
           next == d.active.next_destination
<1>1. /\ Issued(d) \in Seq(IssuedType) /\ N \in Nat /\ DOMAIN Issued(d) = 1 .. N
      /\ Issued(x) \in Seq(IssuedType)
  BY BusyType
<1>2. /\ DOMAIN Issued(x) = 1 .. (N + 1) /\ Issued(x)[N + 1] = r
      /\ \A i \in 1 .. N : Issued(x)[i] = Issued(d)[i]
  BY <1>1
<1>3. /\ next \in Nat /\ d.active.next_source \in Nat /\ d.active.remaining_words \in Nat
      /\ j.source \in Nat /\ j.destination \in Nat /\ j.length \in Nat
      /\ Counted(d, j) \in Nat
  <2>1. d.active \in TransferType /\ d.transferred_words \in Nat
    BY BusyType
  <2>2. next \in Nat /\ d.active.next_source \in Nat /\ d.active.remaining_words \in Nat
    BY <2>1 DEF TransferType
  <2>3. j.source \in Nat /\ j.destination \in Nat /\ j.length \in Nat
    BY JobIs
  <2>4. Counted(d, j) \in Nat
    BY <2>1, <2>3 DEF Counted
  <2> QED BY <2>2, <2>3, <2>4
<1> HIDE DEF N
<1>4. /\ IsPiece(x, 2, N + 1) /\ Lo(x, 2, N + 1) = next /\ Hi(x, 2, N + 1) = next + r.beats
      /\ N + 1 \in Nat
  BY <1>1, <1>2 DEF IsPiece, Lo, Hi
<1>5. ASSUME NEW c \in 0 .. 2, NEW i \in Nat, IsPiece(x, c, i), ~(c = 2 /\ i = N + 1)
      PROVE  IsPiece(d, c, i) /\ Lo(x, c, i) = Lo(d, c, i) /\ Hi(x, c, i) = Hi(d, c, i)
  <2>1. CASE c = 1
    BY <1>5, <2>1 DEF IsPiece, Lo, Hi
  <2>2. CASE c # 1
    <3>1. i \in 1 .. N
      BY <1>1, <1>2, <1>5, <2>2 DEF IsPiece
    <3> QED BY <1>1, <1>2, <1>5, <2>2, <3>1 DEF IsPiece, Lo, Hi
  <2> QED BY <2>1, <2>2
<1>6. ASSUME NEW c \in 0 .. 2, NEW i \in Nat, IsPiece(d, c, i)
      PROVE  IsPiece(x, c, i) /\ Hi(x, c, i) = Hi(d, c, i)
  <2>1. CASE c = 1
    BY <1>6, <2>1 DEF IsPiece, Hi
  <2>2. CASE c # 1
    <3>1. i \in 1 .. N /\ i \in 1 .. (N + 1)
      BY <1>1, <1>6, <2>2 DEF IsPiece
    <3> QED BY <1>2, <1>6, <2>2, <3>1 DEF IsPiece, Hi
  <2> QED BY <2>1, <2>2
<1>7. ASSUME NEW w, Reached(d, j, w) PROVE Reached(x, j, w)
  BY <1>6, <1>7 DEF Reached
<1>8. ASSUME NEW c \in 0 .. 2, NEW i \in Nat, IsPiece(x, c, i)
      PROVE  /\ Counted(x, j) <= Lo(x, c, i)
             /\ Hi(x, c, i) <= x.active.next_destination
             /\ Reached(x, j, Lo(x, c, i))
  <2>1. CASE c = 2 /\ i = N + 1
    <3>1. Counted(d, j) <= next /\ Reached(d, j, next)
      BY DEF Layout
    <3>2. Reached(x, j, next)
      BY <1>7, <3>1
    <3>3. Hi(x, c, i) = x.active.next_destination /\ Lo(x, c, i) = next
      BY <1>4, <2>1
    <3>4. x.active.next_destination \in Nat
      BY <1>3
    <3> QED BY <3>1, <3>2, <3>3, <3>4
  <2>2. CASE ~(c = 2 /\ i = N + 1)
    <3>1. IsPiece(d, c, i) /\ Lo(x, c, i) = Lo(d, c, i) /\ Hi(x, c, i) = Hi(d, c, i)
      BY <1>5, <1>8, <2>2
    <3>2. Counted(d, j) <= Lo(d, c, i) /\ Hi(d, c, i) <= next /\ Reached(d, j, Lo(d, c, i))
      BY <3>1 DEF Layout
    <3>3. Hi(d, c, i) \in Nat
      BY <3>1, PieceIs
    <3>4. Reached(x, j, Lo(d, c, i))
      BY <1>7, <3>2
    <3> QED BY <1>3, <3>1, <3>2, <3>3, <3>4
  <2> QED BY <2>1, <2>2
<1>9. Ordered(x)
  <2> SUFFICES ASSUME NEW c \in 0 .. 2, NEW e \in 0 .. 2, NEW i \in Nat, NEW k \in Nat,
                      IsPiece(x, c, i), IsPiece(x, e, k), Before(c, i, e, k)
               PROVE  Hi(x, c, i) <= Lo(x, e, k)
    BY DEF Ordered
  <2>1. ~(c = 2 /\ i = N + 1)
    <3> SUFFICES ASSUME c = 2, i = N + 1 PROVE FALSE
      OBVIOUS
    <3>1. e = 2 /\ k > N + 1
      BY DEF Before
    <3> QED BY <1>1, <1>2, <3>1 DEF IsPiece
  <2>2. IsPiece(d, c, i) /\ Hi(x, c, i) = Hi(d, c, i)
    BY <1>5, <2>1
  <2>3. CASE e = 2 /\ k = N + 1
    BY <1>4, <2>2, <2>3 DEF Layout
  <2>4. CASE ~(e = 2 /\ k = N + 1)
    <3>1. IsPiece(d, e, k) /\ Lo(x, e, k) = Lo(d, e, k)
      BY <1>5, <2>4
    <3> QED BY <2>2, <3>1 DEF Layout, Ordered
  <2> QED BY <2>3, <2>4
<1>10. Reached(x, j, x.active.next_destination)
  BY <1>4 DEF Reached
<1>11. /\ d.active.next_source = j.source + (next - j.destination)
       /\ next + d.active.remaining_words = j.destination + j.length
       /\ Counted(d, j) <= next
  BY DEF Layout
<1>12. /\ x.active.next_source = j.source + (x.active.next_destination - j.destination)
       /\ x.active.next_destination + x.active.remaining_words = j.destination + j.length
       /\ Counted(x, j) <= x.active.next_destination
  <2> DEFINE b == r.beats
             rem == d.active.remaining_words
             src == d.active.next_source
             C == Counted(d, j)
             D == j.destination
             S == j.source
             L == j.length
  <2>1. /\ next \in Nat /\ src \in Nat /\ rem \in Nat /\ b \in Nat /\ b <= rem
        /\ S \in Nat /\ D \in Nat /\ L \in Nat /\ C \in Nat
        /\ src = S + (next - D) /\ next + rem = D + L /\ C <= next
    BY <1>3, <1>11
  <2>2. /\ x.active.next_source = src + b /\ x.active.next_destination = next + b
        /\ x.active.remaining_words = rem - b /\ Counted(x, j) = C
    OBVIOUS
  <2> HIDE DEF b, rem, src, C, D, S, L, next
  <2>3. src + b = S + ((next + b) - D) /\ (next + b) + (rem - b) = D + L /\ C <= next + b
    BY <2>1
  <2> QED BY <2>2, <2>3 DEF D, S, L
<1> QED BY <1>8, <1>9, <1>10, <1>12 DEF Layout

-----------------------------------------------------------------------------
(* The engine takes an answer. *)

(* A transfer given up leaves what it counted, and its writes on the bus.  *)
LEMMA RunningStops ==
  ASSUME NEW d, NEW q, NEW t, NEW m, NEW j, Sound(d, q, t, m, j), IsBusy(d),
         j \in JobType, Running(d, q, t, m, j),
         NEW x \in DmaType, x.transferred_words = d.transferred_words, ~x.done
  PROVE  Stopped(x, t, m, j)
PROOF
<1>1. d \in DmaType /\ Layout(d, j) /\ Counted(x, j) = Counted(d, j)
  BY DEF Sound, Typed, Running, Counted
<1>2. /\ d.active.next_destination \in Nat /\ d.active.remaining_words \in Nat
      /\ d.transferred_words \in Nat /\ j.destination \in Nat /\ j.length \in Nat
  BY <1>1, BusyType, JobIs DEF TransferType
<1>3. /\ Counted(d, j) <= d.active.next_destination
      /\ d.active.next_destination + d.active.remaining_words = j.destination + j.length
      /\ j.destination <= Counted(d, j) /\ Counted(d, j) \in Nat
  BY <1>1, <1>2 DEF Layout, Counted
<1>4. ASSUME NEW i \in DOMAIN Issued(d), Issued(d)[i].kind = "store"
      PROVE  /\ Issued(d)[i].destination \in Nat /\ Issued(d)[i].beats \in Nat
             /\ Counted(d, j) <= Issued(d)[i].destination
             /\ Issued(d)[i].destination + Issued(d)[i].beats <= j.destination + j.length
  <2>1. i \in Nat /\ Issued(d)[i].destination \in Nat /\ Issued(d)[i].beats \in Nat
    BY <1>1, BusyType, IssuedIs
  <2>2. /\ IsPiece(d, 0, i) /\ Lo(d, 0, i) = Issued(d)[i].destination
        /\ Hi(d, 0, i) = Issued(d)[i].destination + Issued(d)[i].beats
    BY <1>4 DEF IsPiece, Lo, Hi
  <2>3. Counted(d, j) <= Lo(d, 0, i) /\ Hi(d, 0, i) <= d.active.next_destination
    BY <1>1, <2>1, <2>2 DEF Layout
  <2> QED BY <1>2, <1>3, <2>1, <2>2, <2>3
<1>5. ASSUME NEW n \in DOMAIN t, t[n].request.kind = "store"
      PROVE  /\ Counted(d, j) <= t[n].request.addr
             /\ t[n].request.addr + Beats(t[n].request) <= j.destination + j.length
  <2>1. PICK i \in DOMAIN q : i \in DOMAIN Issued(d) /\ OnBus(j, Issued(d)[i], t[n])
    BY EntryHasRequest
  <2> QED BY <1>4, <1>5, <2>1 DEF OnBus
<1>6. ASSUME NEW w \in Words, m[w] # j.before[w]
      PROVE  j.destination <= w /\ w < j.destination + j.length
  <2>1. Touched(d, j, w) /\ w \in Nat
    BY <1>6, DevicesAssumption DEF Running, InMemory
  <2>2. CASE j.destination <= w /\ w < Counted(d, j)
    BY <1>2, <1>3, <2>1, <2>2
  <2>3. CASE ~(j.destination <= w /\ w < Counted(d, j))
    <3>1. PICK i \in DOMAIN Issued(d) : /\ Issued(d)[i].kind = "store"
                                        /\ Issued(d)[i].destination <= w
                                        /\ w < Issued(d)[i].destination + Issued(d)[i].beats
      BY <2>1, <2>3 DEF Touched
    <3> QED BY <1>2, <1>3, <1>4, <2>1, <3>1
  <2> QED BY <2>2, <2>3
<1>7. CountedCopied(x, m, j)
  BY <1>1 DEF Running, InMemory, CountedCopied
<1>8. x.transferred_words <= j.length
  BY <1>2, <1>3 DEF Counted
<1> QED BY <1>1, <1>5, <1>6, <1>7, <1>8 DEF Stopped

LEMMA AbortIs ==
  ASSUME NEW d \in DmaType
  PROVE  /\ Abort(d) \in DmaType /\ ~IsBusy(Abort(d))
         /\ Abort(d).transferred_words = d.transferred_words
         /\ Abort(d).done = d.done /\ Abort(d).error = TRUE
  BY DEF Abort, DmaType, IsBusy

LEMMA AbortSound ==
  ASSUME NEW d, NEW q, NEW t, NEW m, NEW j, Sound(d, q, t, m, j), IsBusy(d),
         NEW p \in Seq(FlightType), Linked(p, t)
  PROVE  Sound(Abort(d), p, t, m, j)
PROOF
<1> DEFINE x == Abort(d)
<1>1. /\ d \in DmaType /\ d.done = FALSE
  BY DEF Sound, Typed, Status, DmaType
<1>2. /\ x \in DmaType /\ ~IsBusy(x) /\ x.transferred_words = d.transferred_words
      /\ x.done = FALSE /\ x.error = TRUE
  BY <1>1, AbortIs
<1> HIDE DEF x
<1>3. ASSUME j # NoTransfer, j.fresh PROVE Stopped(x, t, m, j)
  <2>1. Running(d, q, t, m, j) /\ j \in JobType
    BY <1>3 DEF Sound, Followed, Typed
  <2> QED BY <1>2, <2>1, RunningStops
<1>4. Sound(x, p, t, m, j)
  BY <1>2, <1>3 DEF Sound, Typed, Status, Followed
<1> QED BY <1>4 DEF x

(* The request at the front is answered: what the engine becomes.          *)
LoadTaken(d, response) ==
  [[d EXCEPT !.active.issued_requests = Tail(@)] EXCEPT !.active.ready_writes =
     Append(@, [destination |-> Head(d.active.issued_requests).destination,
                words |-> response.words])]

StoreTaken(d) ==
  [[d EXCEPT !.active.issued_requests = Tail(@)] EXCEPT !.transferred_words =
     @ + Head(d.active.issued_requests).beats]

Same(d, x) == x.done = d.done /\ x.error = d.error

LEMMA LoadTakenIs ==
  ASSUME NEW d \in DmaType, IsBusy(d), Issued(d) # << >>,
         NEW response \in ResponseType, Len(response.words) # 0
  PROVE  LET x == LoadTaken(d, response)
         IN  /\ x \in DmaType /\ IsBusy(x) /\ SamePlan(d, x) /\ Same(d, x)
             /\ Issued(x) = Tail(Issued(d))
             /\ ReadyWrites(x) = Append(ReadyWrites(d), [destination |-> Issued(d)[1].destination,
                                                         words |-> response.words])
             /\ x.transferred_words = d.transferred_words
PROOF
<1> DEFINE a == d.active
           w == [destination |-> Head(a.issued_requests).destination, words |-> response.words]
           b == [a EXCEPT !.issued_requests = Tail(@)]
           c == [b EXCEPT !.ready_writes = Append(@, w)]
           x == LoadTaken(d, response)
<1>1. /\ a \in TransferType /\ Issued(d) = a.issued_requests
      /\ ReadyWrites(d) = a.ready_writes
  BY BusyType DEF Issued, ReadyWrites
<1>2. Head(a.issued_requests) = Issued(d)[1] /\ Head(a.issued_requests) \in IssuedType
  BY <1>1 DEF TransferType
<1>3. response.words \in Seq(Values) /\ response.words # << >>
  BY DEF ResponseType
<1>4. w \in WriteType
  <2>1. Head(a.issued_requests).destination \in Nat
    BY <1>2 DEF IssuedType
  <2> QED BY <1>3, <2>1 DEF WriteType
<1>5. Tail(a.issued_requests) \in Seq(IssuedType)
  BY <1>1 DEF TransferType
<1>6. b \in TransferType /\ b.issued_requests = Tail(a.issued_requests)
      /\ b.ready_writes = a.ready_writes /\ b.next_source = a.next_source
      /\ b.next_destination = a.next_destination /\ b.remaining_words = a.remaining_words
  BY <1>1, <1>5 DEF TransferType
<1>7. x = [d EXCEPT !.active = c]
  BY DEF LoadTaken, DmaType
<1> HIDE DEF w, b, x
<1>7a. Append(b.ready_writes, w) \in Seq(WriteType)
  <2>1. b.ready_writes \in Seq(WriteType)
    BY <1>6 DEF TransferType
  <2> QED BY <1>4, <2>1
<1>8. c \in TransferType /\ c.issued_requests = b.issued_requests
      /\ c.ready_writes = Append(b.ready_writes, w) /\ c.next_source = b.next_source
      /\ c.next_destination = b.next_destination /\ c.remaining_words = b.remaining_words
  BY <1>6, <1>7a DEF TransferType
<1> HIDE DEF c
<1>9. x \in DmaType /\ x.active = c /\ x.done = d.done /\ x.error = d.error
      /\ x.transferred_words = d.transferred_words
  BY <1>7, <1>8 DEF DmaType
<1>10. IsBusy(x)
  BY <1>8, <1>9, SystemAssumption DEF IsBusy
<1>11. w = [destination |-> Issued(d)[1].destination, words |-> response.words]
  BY <1>2 DEF w
<1>12. SamePlan(d, x) /\ Same(d, x)
  BY <1>6, <1>8, <1>9 DEF SamePlan, Same
<1>13. /\ Issued(x) = Tail(Issued(d)) /\ ReadyWrites(x) = Append(ReadyWrites(d), w)
  BY <1>1, <1>6, <1>8, <1>9 DEF Issued, ReadyWrites
<1> QED BY <1>9, <1>10, <1>11, <1>12, <1>13 DEF x

LEMMA StoreTakenIs ==
  ASSUME NEW d \in DmaType, IsBusy(d), Issued(d) # << >>
  PROVE  LET x == StoreTaken(d)
         IN  /\ x \in DmaType /\ IsBusy(x) /\ SamePlan(d, x) /\ Same(d, x)
             /\ Issued(x) = Tail(Issued(d))
             /\ ReadyWrites(x) = ReadyWrites(d)
             /\ x.transferred_words = d.transferred_words + Issued(d)[1].beats
PROOF
<1> DEFINE a == d.active
           b == [a EXCEPT !.issued_requests = Tail(@)]
           x == StoreTaken(d)
<1>1. /\ a \in TransferType /\ Issued(d) = a.issued_requests
      /\ ReadyWrites(d) = a.ready_writes
  BY BusyType DEF Issued, ReadyWrites
<1>2. Head(a.issued_requests) = Issued(d)[1] /\ Head(a.issued_requests) \in IssuedType
  BY <1>1 DEF TransferType
<1>3. Issued(d)[1].beats \in Nat /\ Head(a.issued_requests).beats = Issued(d)[1].beats
  BY <1>2 DEF IssuedType
<1>5. Tail(a.issued_requests) \in Seq(IssuedType)
  BY <1>1 DEF TransferType
<1>6. b \in TransferType /\ b.issued_requests = Tail(a.issued_requests)
      /\ b.ready_writes = a.ready_writes /\ b.next_source = a.next_source
      /\ b.next_destination = a.next_destination /\ b.remaining_words = a.remaining_words
  BY <1>1, <1>5 DEF TransferType
<1> DEFINE n == d.transferred_words + Head(a.issued_requests).beats
<1>7. x = [d EXCEPT !.active = b, !.transferred_words = n]
  BY DEF StoreTaken, DmaType
<1>8. n = d.transferred_words + Issued(d)[1].beats /\ n \in Nat
  BY <1>2, <1>3 DEF DmaType
<1> HIDE DEF b, x, n
<1>9. x \in DmaType /\ x.active = b /\ x.done = d.done /\ x.error = d.error
      /\ x.transferred_words = d.transferred_words + Issued(d)[1].beats
  BY <1>6, <1>7, <1>8 DEF DmaType
<1>10. IsBusy(x)
  BY <1>6, <1>9, SystemAssumption DEF IsBusy
<1>12. SamePlan(d, x) /\ Same(d, x)
  BY <1>6, <1>9 DEF SamePlan, Same
<1>13. Issued(x) = Tail(Issued(d)) /\ ReadyWrites(x) = ReadyWrites(d)
  BY <1>1, <1>6, <1>9 DEF Issued, ReadyWrites
<1> QED BY <1>9, <1>10, <1>12, <1>13 DEF x

(* What the engine makes of an answer.                                     *)
LEMMA ResponseCases ==
  ASSUME NEW d \in DmaType, NEW response \in ResponseType
  PROVE  \/ ~IsBusy(d) /\ OnResponse(d, response) = d
         \/ IsBusy(d) /\ OnResponse(d, response) = Abort(d)
         \/ /\ IsBusy(d) /\ Issued(d) # << >> /\ Issued(d)[1].kind = "load"
            /\ Expected(Issued(d)[1], response)
            /\ OnResponse(d, response) = LoadTaken(d, response)
         \/ /\ IsBusy(d) /\ Issued(d) # << >> /\ Issued(d)[1].kind = "store"
            /\ Expected(Issued(d)[1], response)
            /\ OnResponse(d, response) = Settle(StoreTaken(d))
PROOF
<1>1. CASE ~IsBusy(d)
  BY <1>1 DEF OnResponse
<1>2. CASE IsBusy(d) /\ Issued(d) = << >>
  BY <1>2 DEF OnResponse, Issued
<1>3. CASE IsBusy(d) /\ Issued(d) # << >>
  <2> DEFINE r == Issued(d)[1]
  <2>1. /\ Issued(d) \in Seq(IssuedType) /\ d.active.issued_requests = Issued(d)
        /\ Head(d.active.issued_requests) = r /\ r \in IssuedType
    BY <1>3, BusyType DEF Issued
  <2>2. r.kind \in {"load", "store"} /\ r.beats # 0
    BY <2>1 DEF IssuedType
  <2> HIDE DEF r
  <2>3. OnResponse(d, response) =
          CASE ~Expected(r, response) -> Abort(d)
            [] Expected(r, response) /\ r.kind = "load" -> Settle(LoadTaken(d, response))
            [] Expected(r, response) /\ r.kind = "store" -> Settle(StoreTaken(d))
    BY <1>3, <2>1 DEF OnResponse, LoadTaken, StoreTaken
  <2>4. CASE ~Expected(r, response)
    BY <1>3, <2>3, <2>4
  <2>5. CASE Expected(r, response) /\ r.kind = "load"
    <3>1. OnResponse(d, response) = Settle(LoadTaken(d, response))
      BY <2>3, <2>5
    <3>2. Len(response.words) # 0
      BY <2>2, <2>5 DEF Expected
    <3>3. /\ ReadyWrites(d) \in Seq(WriteType)
          /\ ReadyWrites(LoadTaken(d, response)) =
               Append(ReadyWrites(d), [destination |-> Issued(d)[1].destination,
                                       words |-> response.words])
      BY <1>3, <3>2, LoadTakenIs, BusyType
    <3>4. ReadyWrites(LoadTaken(d, response)) # << >>
      BY <3>3
    <3>5. Settle(LoadTaken(d, response)) = LoadTaken(d, response)
      BY <3>4 DEF Settle, IsComplete, ReadyWrites
    <3> QED BY <1>3, <2>5, <3>1, <3>5 DEF r
  <2>6. CASE Expected(r, response) /\ r.kind = "store"
    BY <1>3, <2>3, <2>6 DEF r
  <2> QED BY <2>2, <2>4, <2>5, <2>6
<1> QED BY <1>1, <1>2, <1>3

(* The front of the queue leaves once it is answered.                      *)
LEMMA TailLinked ==
  ASSUME NEW q \in Seq(FlightType), q # << >>, q[1].completion # None, NEW t, Linked(q, t)
  PROVE  /\ Tail(q) \in Seq(FlightType) /\ Linked(Tail(q), t)
         /\ Len(Tail(q)) = Len(q) - 1 /\ Len(q) \in Nat \ {0}
         /\ \A i \in DOMAIN Tail(q) : i + 1 \in DOMAIN q /\ Tail(q)[i] = q[i + 1]
PROOF
<1> DEFINE p == Tail(q)
<1>1. p \in Seq(FlightType) /\ Len(p) = Len(q) - 1 /\ Len(q) \in Nat \ {0}
  OBVIOUS
<1>2. \A i \in DOMAIN p : i \in Nat /\ i + 1 \in DOMAIN q /\ p[i] = q[i + 1]
  OBVIOUS
<1>3. \A i \in DOMAIN q : i = 1 \/ (i - 1 \in DOMAIN p /\ p[i - 1] = q[i])
  BY <1>1
<1> HIDE DEF p
<1>4. Distinct(p)
  <2> SUFFICES ASSUME NEW i \in DOMAIN p, NEW k \in DOMAIN p, p[i].id = p[k].id PROVE i = k
    BY DEF Distinct
  <2>1. i + 1 = k + 1
    BY <1>2 DEF Linked, Distinct
  <2> QED BY <1>2, <2>1
<1>5. \A n \in DOMAIN t : \E i \in DOMAIN p : p[i].id = t[n].id /\ p[i].completion = None
  <2> SUFFICES ASSUME NEW n \in DOMAIN t
               PROVE  \E i \in DOMAIN p : p[i].id = t[n].id /\ p[i].completion = None
    OBVIOUS
  <2>1. PICK i \in DOMAIN q : q[i].id = t[n].id /\ q[i].completion = None
    BY DEF Linked
  <2> QED BY <1>3, <2>1
<1>6. \A i \in DOMAIN p : p[i].completion = None => \E n \in DOMAIN t : t[n].id = p[i].id
  BY <1>2 DEF Linked
<1> QED BY <1>1, <1>2, <1>4, <1>5, <1>6 DEF Linked, p

(* The other requests move up in both queues.                              *)
LEMMA Shifted ==
  ASSUME NEW d \in DmaType, IsBusy(d), NEW q, NEW t, NEW m, NEW j,
         Typed(d, q, t, m, j), Linked(q, t), q # << >>, q[1].completion # None,
         Running(d, q, t, m, j), NEW x \in DmaType, IsBusy(x), Issued(x) = Tail(Issued(d))
  PROVE  LET p == Tail(q)
         IN  /\ Matches(x, p, t, j)
             /\ \A i \in DOMAIN p, n \in DOMAIN t :
                  t[n].id = p[i].id => BeatsCopied(Issued(x)[i], t[n], m, j)
             /\ \A i \in DOMAIN p : p[i].completion # None =>
                  AnswerCopied(Issued(x)[i], p[i].completion, m, j)
PROOF
<1> DEFINE p == Tail(q)
<1>1. q \in Seq(FlightType)
  BY DEF Typed
<1>2. /\ p \in Seq(FlightType) /\ Len(p) = Len(q) - 1 /\ Len(q) \in Nat \ {0}
      /\ \A i \in DOMAIN p : i + 1 \in DOMAIN q /\ p[i] = q[i + 1]
  BY <1>1, TailLinked
<1> HIDE DEF p
<1>3. Issued(d) \in Seq(IssuedType) /\ Len(Issued(d)) = Len(q) /\ Issued(d) # << >>
  BY <1>1, <1>2, BusyType DEF Running, Matches
<1>4. Len(Issued(x)) = Len(p)
  BY <1>2, <1>3
<1>5. \A i \in DOMAIN p : Issued(x)[i] = Issued(d)[i + 1]
  BY <1>2, <1>3
<1>6. ASSUME NEW i \in DOMAIN p, NEW n \in DOMAIN t, t[n].id = p[i].id
      PROVE  OnBus(j, Issued(x)[i], t[n]) /\ BeatsCopied(Issued(x)[i], t[n], m, j)
  <2>1. i + 1 \in DOMAIN q /\ t[n].id = q[i + 1].id /\ Issued(x)[i] = Issued(d)[i + 1]
    BY <1>2, <1>5, <1>6
  <2> QED BY <2>1 DEF Running, Matches, InMemory
<1>7. ASSUME NEW i \in DOMAIN p, p[i].completion # None
      PROVE  /\ Answers(j, Issued(x)[i], p[i].completion)
             /\ AnswerCopied(Issued(x)[i], p[i].completion, m, j)
  <2>1. /\ i + 1 \in DOMAIN q /\ p[i] = q[i + 1] /\ Issued(x)[i] = Issued(d)[i + 1]
        /\ q[i + 1].completion # None
    BY <1>2, <1>5, <1>7
  <2>2. /\ Answers(j, Issued(d)[i + 1], q[i + 1].completion)
        /\ AnswerCopied(Issued(d)[i + 1], q[i + 1].completion, m, j)
    BY <2>1 DEF Running, Matches, InMemory
  <2> QED BY <2>1, <2>2
<1> QED BY <1>4, <1>6, <1>7 DEF Matches, p

(* A read comes back.                                                      *)
LEMMA LoadTakenSound ==
  ASSUME NEW d, NEW q, NEW t, NEW m, NEW j, Sound(d, q, t, m, j), IsBusy(d),
         q # << >>, NEW response \in ResponseType, q[1].completion = response,
         Issued(d) # << >>, Issued(d)[1].kind = "load", Expected(Issued(d)[1], response)
  PROVE  Sound(LoadTaken(d, response), Tail(q), t, m, j)
PROOF
<1> DEFINE x == LoadTaken(d, response)
           p == Tail(q)
           r == Issued(d)[1]
           write == [destination |-> r.destination, words |-> response.words]
<1>1. d \in DmaType /\ Typed(d, q, t, m, j) /\ Linked(q, t) /\ q \in Seq(FlightType)
  BY DEF Sound, Typed
<1>2. 1 \in DOMAIN Issued(d) /\ r.beats \in Nat \ {0} /\ r.destination \in Nat
  <2>1. Issued(d) \in Seq(IssuedType)
    BY <1>1, BusyType
  <2>2. 1 \in DOMAIN Issued(d)
    BY <2>1
  <2> QED BY <1>1, <2>2, IssuedIs
<1>3. Len(response.words) = r.beats /\ Len(response.words) # 0 /\ response.kind = "load"
  BY <1>2 DEF Expected
<1>4. /\ x \in DmaType /\ IsBusy(x) /\ SamePlan(d, x) /\ Same(d, x)
      /\ Issued(x) = Tail(Issued(d)) /\ ReadyWrites(x) = Append(ReadyWrites(d), write)
      /\ x.transferred_words = d.transferred_words
  BY <1>1, <1>3, LoadTakenIs
<1>5. q[1].completion # None
  BY SystemAssumption
<1>6. p \in Seq(FlightType) /\ Linked(p, t)
  BY <1>1, <1>5, TailLinked
<1> HIDE DEF x, p
<1>7. ASSUME j # NoTransfer, j.fresh PROVE Running(x, p, t, m, j)
  <2>1. j \in JobType /\ Running(d, q, t, m, j)
    BY <1>7 DEF Sound, Followed, Typed
  <2>2. Counted(x, j) = Counted(d, j)
    BY <1>4 DEF Counted
  <2>3. Layout(x, j)
    <3>1. Layout(d, j) /\ write.destination = r.destination /\ Len(write.words) = r.beats
      BY <1>3, <2>1 DEF Running
    <3> HIDE DEF write
    <3> QED BY <1>1, <1>4, <2>2, <3>1, ReadAnsweredLayout
  <2>4. /\ Matches(x, p, t, j)
        /\ \A i \in DOMAIN p, n \in DOMAIN t :
             t[n].id = p[i].id => BeatsCopied(Issued(x)[i], t[n], m, j)
        /\ \A i \in DOMAIN p : p[i].completion # None =>
             AnswerCopied(Issued(x)[i], p[i].completion, m, j)
    BY <1>1, <1>4, <1>5, <2>1, Shifted DEF p
  <2>5. Buffered(x, j)
    <3>1. RightWords(j, write.destination, write.words)
      <4>1. 1 \in DOMAIN q
        BY <1>1
      <4>2. Answers(j, r, response)
        BY <1>5, <2>1, <4>1 DEF Running, Matches
      <4> QED BY <1>3, <4>2 DEF Answers
    <3> HIDE DEF write
    <3>2. ReadyWrites(d) \in Seq(WriteType)
      BY <1>1, BusyType
    <3>3. ASSUME NEW i \in DOMAIN ReadyWrites(x)
          PROVE  ReadyWrites(x)[i] = write
                 \/ (i \in DOMAIN ReadyWrites(d) /\ ReadyWrites(x)[i] = ReadyWrites(d)[i])
      BY <1>4, <3>2
    <3> QED BY <2>1, <3>1, <3>3 DEF Running, Buffered
  <2>6. CountedCopied(x, m, j)
    BY <2>1, <2>2 DEF Running, InMemory, CountedCopied
  <2>7. ASSUME NEW w \in Words, Touched(d, j, w) PROVE Touched(x, j, w)
    <3>1. CASE j.destination <= w /\ w < Counted(d, j)
      BY <2>2, <3>1 DEF Touched
    <3>2. CASE ~(j.destination <= w /\ w < Counted(d, j))
      <4>1. PICK i \in DOMAIN Issued(d) : /\ Issued(d)[i].kind = "store"
                                          /\ Issued(d)[i].destination <= w
                                          /\ w < Issued(d)[i].destination + Issued(d)[i].beats
        BY <2>7, <3>2 DEF Touched
      <4>2. i # 1
        BY <4>1
      <4>3. Issued(d) \in Seq(IssuedType)
        BY <1>1, BusyType
      <4>4. i - 1 \in DOMAIN Issued(x) /\ Issued(x)[i - 1] = Issued(d)[i]
        BY <1>4, <4>2, <4>3
      <4> QED BY <4>1, <4>4 DEF Touched
    <3> QED BY <3>1, <3>2
  <2>8. InMemory(x, p, t, m, j)
    BY <2>1, <2>4, <2>6, <2>7 DEF Running, InMemory
  <2> QED BY <2>3, <2>4, <2>5, <2>8 DEF Running
<1>8. Status(x, j)
  BY <1>4 DEF Sound, Status, Same
<1>9. Typed(x, p, t, m, j)
  BY <1>1, <1>4, <1>6 DEF Typed
<1>10. Sound(x, p, t, m, j)
  BY <1>4, <1>6, <1>7, <1>8, <1>9 DEF Sound, Followed
<1> QED BY <1>10 DEF x, p

(* A write is answered: its words are counted.                             *)
LEMMA StoreTakenSound ==
  ASSUME NEW d, NEW q, NEW t, NEW m, NEW j, Sound(d, q, t, m, j), IsBusy(d),
         q # << >>, NEW response \in ResponseType, q[1].completion = response,
         Issued(d) # << >>, Issued(d)[1].kind = "store", Expected(Issued(d)[1], response)
  PROVE  Sound(StoreTaken(d), Tail(q), t, m, j)
PROOF
<1> DEFINE x == StoreTaken(d)
           p == Tail(q)
           r == Issued(d)[1]
<1>1. d \in DmaType /\ Typed(d, q, t, m, j) /\ Linked(q, t) /\ q \in Seq(FlightType)
  BY DEF Sound, Typed
<1>2. /\ Issued(d) \in Seq(IssuedType) /\ 1 \in DOMAIN Issued(d)
      /\ r.beats \in Nat \ {0} /\ r.destination \in Nat
  <2>1. Issued(d) \in Seq(IssuedType)
    BY <1>1, BusyType
  <2>2. 1 \in DOMAIN Issued(d)
    BY <2>1
  <2> QED BY <1>1, <2>1, <2>2, IssuedIs
<1>3. response.kind = "store"
  BY DEF Expected
<1>4. /\ x \in DmaType /\ IsBusy(x) /\ SamePlan(d, x) /\ Same(d, x)
      /\ Issued(x) = Tail(Issued(d)) /\ ReadyWrites(x) = ReadyWrites(d)
      /\ x.transferred_words = d.transferred_words + r.beats
  BY <1>1, StoreTakenIs
<1>5. q[1].completion # None
  BY SystemAssumption
<1>6. p \in Seq(FlightType) /\ Linked(p, t)
  BY <1>1, <1>5, TailLinked
<1> HIDE DEF x, p
<1>7. ASSUME j # NoTransfer, j.fresh PROVE Running(x, p, t, m, j)
  <2>1. j \in JobType /\ Running(d, q, t, m, j) /\ Layout(d, j)
    BY <1>7 DEF Sound, Followed, Typed, Running
  <2>2. d.transferred_words \in Nat /\ j.destination \in Nat
    BY <1>1, <2>1, BusyType, JobIs
  <2>3. /\ Counted(x, j) = Counted(d, j) + r.beats
        /\ Counted(d, j) \in Nat /\ j.destination <= Counted(d, j)
    <3> HIDE DEF r
    <3> QED BY <1>2, <1>4, <2>2 DEF Counted
  <2>4. Layout(x, j)
    BY <1>1, <1>4, <2>1, <2>3, WriteAnsweredLayout
  <2>5. /\ Matches(x, p, t, j)
        /\ \A i \in DOMAIN p, n \in DOMAIN t :
             t[n].id = p[i].id => BeatsCopied(Issued(x)[i], t[n], m, j)
        /\ \A i \in DOMAIN p : p[i].completion # None =>
             AnswerCopied(Issued(x)[i], p[i].completion, m, j)
    BY <1>1, <1>4, <1>5, <2>1, Shifted DEF p
  <2>6. Buffered(x, j)
    BY <1>4, <2>1 DEF Running, Buffered
  <2>7. r.destination = Counted(d, j)
    BY <1>1, <2>1, FirstWrite
  <2>8. CountedCopied(x, m, j)
    <3>1. 1 \in DOMAIN q
      BY <1>1
    <3>2. AnswerCopied(r, response, m, j)
      BY <1>5, <2>1, <3>1 DEF Running, InMemory
    <3>3. \A k \in Nat : k < r.beats => Copied(j, m, r.destination + k)
      BY <1>3, <3>2 DEF AnswerCopied
    <3> HIDE DEF r
    <3> SUFFICES ASSUME NEW w \in Nat, j.destination <= w, w < Counted(x, j)
                 PROVE  Copied(j, m, w)
      BY DEF CountedCopied
    <3>4. CASE w < Counted(d, j)
      BY <2>1, <3>4 DEF Running, InMemory, CountedCopied
    <3>5. CASE ~(w < Counted(d, j))
      <4>1. w - r.destination \in Nat /\ w - r.destination < r.beats
            /\ r.destination + (w - r.destination) = w
        BY <1>2, <2>3, <2>7, <3>5
      <4> QED BY <3>3, <4>1
    <3> QED BY <3>4, <3>5
  <2>9. ASSUME NEW w \in Words, Touched(d, j, w) PROVE Touched(x, j, w)
    <3>0. w \in Nat
      BY DevicesAssumption
    <3>1. CASE j.destination <= w /\ w < Counted(d, j)
      BY <1>2, <2>3, <3>0, <3>1 DEF Touched
    <3>2. CASE ~(j.destination <= w /\ w < Counted(d, j))
      <4>1. PICK i \in DOMAIN Issued(d) : /\ Issued(d)[i].kind = "store"
                                          /\ Issued(d)[i].destination <= w
                                          /\ w < Issued(d)[i].destination + Issued(d)[i].beats
        BY <2>9, <3>2 DEF Touched
      <4>2. CASE i = 1
        <5>1. r.destination <= w /\ w < r.destination + r.beats
          BY <4>1, <4>2
        <5> HIDE DEF r
        <5>2. j.destination <= w /\ w < Counted(x, j)
          BY <1>2, <2>2, <2>3, <2>7, <3>0, <5>1
        <5> QED BY <5>2 DEF Touched
      <4>3. CASE i # 1
        <5>1. i - 1 \in DOMAIN Issued(x) /\ Issued(x)[i - 1] = Issued(d)[i]
          BY <1>2, <1>4, <4>3
        <5> QED BY <4>1, <5>1 DEF Touched
      <4> QED BY <4>2, <4>3
    <3> QED BY <3>1, <3>2
  <2>10. InMemory(x, p, t, m, j)
    BY <2>1, <2>5, <2>8, <2>9 DEF Running, InMemory
  <2> QED BY <2>4, <2>5, <2>6, <2>10 DEF Running
<1>8. Status(x, j)
  BY <1>4 DEF Sound, Status, Same
<1>9. Typed(x, p, t, m, j)
  BY <1>1, <1>4, <1>6 DEF Typed
<1>10. Sound(x, p, t, m, j)
  BY <1>4, <1>6, <1>7, <1>8, <1>9 DEF Sound, Followed
<1> QED BY <1>10 DEF x, p

(* The transfer is over once nothing is left to read, write or wait for.   *)
LEMMA SettleSound ==
  ASSUME NEW x, NEW p, NEW t, NEW m, NEW j, Sound(x, p, t, m, j), IsBusy(x)
  PROVE  Sound(Settle(x), p, t, m, j)
PROOF
<1>1. CASE ~IsComplete(x.active)
  BY <1>1 DEF Settle
<1>2. CASE IsComplete(x.active)
  <2> DEFINE y == [x EXCEPT !.active = NoTransfer, !.done = TRUE]
  <2>1. x \in DmaType /\ x.error = FALSE
    BY DEF Sound, Typed, Status, DmaType
  <2>2. /\ y \in DmaType /\ y.active = NoTransfer /\ y.done = TRUE /\ y.error = FALSE
        /\ y.transferred_words = x.transferred_words
    BY <2>1 DEF DmaType
  <2>3. Settle(x) = y
    BY <1>2 DEF Settle
  <2> HIDE DEF y
  <2>4. ASSUME j # NoTransfer, j.fresh PROVE Stopped(y, t, m, j)
    <3>1. j \in JobType /\ Running(x, p, t, m, j) /\ Layout(x, j)
      BY <2>4 DEF Sound, Followed, Typed, Running
    <3>2. /\ x.active.remaining_words = 0 /\ ReadyWrites(x) = << >> /\ Issued(x) = << >>
      BY <1>2 DEF IsComplete, ReadyWrites, Issued
    <3>3. \A c \in 0 .. 2, i \in Nat : ~IsPiece(x, c, i)
      BY <3>2 DEF IsPiece
    <3>4. x.active.next_destination = Counted(x, j)
      BY <3>1, <3>3 DEF Layout, Reached
    <3>5. /\ j.destination \in Nat /\ j.length \in Nat /\ x.transferred_words \in Nat
      BY <2>1, <3>1, BusyType, JobIs
    <3>6. Counted(x, j) + 0 = j.destination + j.length
      BY <3>1, <3>2, <3>4 DEF Layout
    <3>7. x.transferred_words = j.length /\ Counted(x, j) = j.destination + j.length
      BY <3>5, <3>6 DEF Counted
    <3>8. Counted(y, j) = Counted(x, j)
      BY <2>2 DEF Counted
    <3>9. \A n \in DOMAIN t : FALSE
      <4>1. p \in Seq(FlightType) /\ Len(p) = 0
        BY <3>1, <3>2 DEF Sound, Typed, Running, Matches
      <4>2. \A i \in DOMAIN p : FALSE
        BY <4>1
      <4> QED BY <4>2 DEF Sound, Linked
    <3>10. CountedCopied(y, m, j)
      BY <3>1, <3>8 DEF Running, InMemory, CountedCopied
    <3>11. ASSUME NEW w \in Words, m[w] # j.before[w]
           PROVE  j.destination <= w /\ w < j.destination + j.length
      <4>1. Touched(x, j, w)
        BY <3>1, <3>11 DEF Running, InMemory
      <4> QED BY <3>2, <3>7, <4>1 DEF Touched
    <3>12. y.transferred_words = j.length
      BY <2>2, <3>7
    <3> QED BY <3>5, <3>10, <3>9, <3>11, <3>12 DEF Stopped
  <2>5. ~IsBusy(y)
    BY <2>2 DEF IsBusy
  <2>6. Sound(y, p, t, m, j)
    BY <2>2, <2>4, <2>5 DEF Sound, Typed, Status, Followed
  <2> QED BY <2>3, <2>6
<1> QED BY <1>1, <1>2

LEMMA ResponseSound ==
  ASSUME NEW d, NEW q, NEW t, NEW m, NEW j, Sound(d, q, t, m, j),
         q # << >>, q[1].completion # None
  PROVE  Sound(OnResponse(d, q[1].completion), Tail(q), t, m, j)
PROOF
<1> DEFINE response == q[1].completion
           p == Tail(q)
<1>1. d \in DmaType /\ q \in Seq(FlightType) /\ Linked(q, t)
  BY DEF Sound, Typed
<1>2. q[1] \in FlightType
  BY <1>1
<1>3. response \in ResponseType
  BY <1>2 DEF FlightType
<1>4. p \in Seq(FlightType) /\ Linked(p, t)
  BY <1>1, TailLinked
<1> HIDE DEF response
<1>5. CASE ~IsBusy(d) /\ OnResponse(d, response) = d
  <2> HIDE DEF p
  <2>1. Sound(d, p, t, m, j)
    BY <1>4, <1>5 DEF Sound, Typed, Followed
  <2> QED BY <1>5, <2>1 DEF p, response
<1>6. CASE IsBusy(d) /\ OnResponse(d, response) = Abort(d)
  <2>1. Sound(Abort(d), p, t, m, j)
    BY <1>4, <1>6, AbortSound
  <2> QED BY <1>6, <2>1 DEF response
<1>7. CASE /\ IsBusy(d) /\ Issued(d) # << >> /\ Issued(d)[1].kind = "load"
           /\ Expected(Issued(d)[1], response)
           /\ OnResponse(d, response) = LoadTaken(d, response)
  <2>1. q[1].completion = response
    BY DEF response
  <2>2. Sound(LoadTaken(d, response), p, t, m, j)
    BY <1>3, <1>7, <2>1, LoadTakenSound
  <2> QED BY <1>7, <2>2 DEF response
<1>8. CASE /\ IsBusy(d) /\ Issued(d) # << >> /\ Issued(d)[1].kind = "store"
           /\ Expected(Issued(d)[1], response)
           /\ OnResponse(d, response) = Settle(StoreTaken(d))
  <2>1. q[1].completion = response
    BY DEF response
  <2>2. Sound(StoreTaken(d), p, t, m, j)
    BY <1>3, <1>8, <2>1, StoreTakenSound
  <2>3. IsBusy(StoreTaken(d))
    BY <1>1, <1>8, StoreTakenIs
  <2>4. Sound(Settle(StoreTaken(d)), p, t, m, j)
    BY <2>2, <2>3, SettleSound
  <2> QED BY <1>8, <2>4 DEF response
<1> QED BY <1>1, <1>3, <1>5, <1>6, <1>7, <1>8, ResponseCases

-----------------------------------------------------------------------------
(* Delivery.  The engine is the only master, so the answers that are       *)
(* delivered are a prefix of the queue.                                    *)

Nth(S, n) == CHOOSE i \in S : Cardinality({k \in S : k <= i}) = n

LEMMA AtIs ==
  ASSUME NEW q, NEW S
  PROVE  At(q, S) = [n \in 1 .. Cardinality(S) |-> q[Nth(S, n)]]
  BY DEF At, Nth

LEMMA AtInterval ==
  ASSUME NEW a \in Nat, NEW b \in Nat, a <= b, NEW S, S = (a + 1) .. b
  PROVE  Cardinality(S) = b - a /\ \A n \in 1 .. (b - a) : Nth(S, n) = n + a
PROOF
<1>1. Cardinality(S) = b - a
  <2>1. Cardinality((a + 1) .. b) = IF a + 1 > b THEN 0 ELSE b - (a + 1) + 1
    BY FS_Interval
  <2> QED BY <2>1
<1>2. ASSUME NEW i \in S PROVE Cardinality({k \in S : k <= i}) = i - a
  <2>1. {k \in S : k <= i} = (a + 1) .. i
    OBVIOUS
  <2>2. Cardinality((a + 1) .. i) = IF a + 1 > i THEN 0 ELSE i - (a + 1) + 1
    BY FS_Interval
  <2>3. i \in Nat /\ i >= a + 1
    OBVIOUS
  <2>4. Cardinality((a + 1) .. i) = i - a
    BY <2>2, <2>3
  <2> QED BY <2>1, <2>4
<1>3. ASSUME NEW n \in 1 .. (b - a) PROVE Nth(S, n) = n + a
  <2>1. n + a \in S /\ (n + a) - a = n /\ \A i \in S : i \in Nat /\ (i - a = n => i = n + a)
    OBVIOUS
  <2> QED BY <1>2, <2>1 DEF Nth
<1> QED BY <1>1, <1>3

(* What is left of a queue without its first n entries.                    *)
Rest(q, n) == [i \in 1 .. (Len(q) - n) |-> q[i + n]]

LEMMA DeliveredPrefix ==
  ASSUME NEW q \in Seq(FlightType)
  PROVE  \E k \in 0 .. Len(q) : /\ \A i \in 1 .. k : q[i].completion # None
                                /\ Delivered(q) = [n \in 1 .. k |-> q[n]]
                                /\ Undelivered(q) = Rest(q, k)
PROOF
<1> DEFINE N == Len(q)
           S == Deliverable(q)
<1>1. N \in Nat /\ DOMAIN q = 1 .. N
  OBVIOUS
<1>2. \A i \in 1 .. N : q[i].master = 0
  <2> SUFFICES ASSUME NEW i \in 1 .. N PROVE q[i].master = 0
    OBVIOUS
  <2>1. q[i] \in FlightType
    BY <1>1
  <2> QED BY <2>1 DEF FlightType
<1> HIDE DEF N
<1>3. S = {i \in 1 .. N : \A k \in 1 .. i : q[k].completion # None}
  <2>1. \A i \in 1 .. N : \A k \in 1 .. i : k \in 1 .. N
    BY <1>1
  <2> QED BY <1>1, <1>2, <2>1 DEF Deliverable
<1> HIDE DEF S
<1>4. \E k \in 0 .. N : S = 1 .. k /\ \A i \in 1 .. k : q[i].completion # None
  <2>1. CASE S = {}
    <3>1. S = 1 .. 0 /\ 0 \in 0 .. N /\ \A i \in 1 .. 0 : q[i].completion # None
      BY <1>1, <2>1
    <3> QED BY <3>1
  <2>2. CASE S # {}
    <3> DEFINE k == Max(S)
    <3>1. S \in SUBSET (1 .. N)
      BY <1>3
    <3>2. k \in S /\ \A i \in S : k >= i
      BY <1>1, <2>2, <3>1, GreatestPosition
    <3> HIDE DEF k
    <3>3. k \in 1 .. N /\ \A i \in 1 .. k : q[i].completion # None
      BY <1>3, <3>2
    <3>4. ASSUME NEW i \in 1 .. k PROVE i \in S
      <4>1. i \in 1 .. N /\ \A l \in 1 .. i : l \in 1 .. k
        BY <1>1, <3>3
      <4> QED BY <1>3, <3>3, <4>1
    <3>5. ASSUME NEW i \in S PROVE i \in 1 .. k
      BY <1>1, <3>1, <3>2, <3>3
    <3>6. S = 1 .. k
      BY <3>4, <3>5
    <3>7. k \in 0 .. N
      BY <1>1, <3>3
    <3> QED BY <3>3, <3>6, <3>7
  <2> QED BY <2>1, <2>2
<1>5. PICK k \in 0 .. N : S = 1 .. k /\ \A i \in 1 .. k : q[i].completion # None
  BY <1>4
<1>6. Delivered(q) = [n \in 1 .. k |-> q[n]]
  <2> DEFINE a == 0
  <2>1. /\ k \in Nat /\ a \in Nat /\ a <= k /\ S = (a + 1) .. k
        /\ k - a = k /\ \A n \in 1 .. k : n + a = n
    BY <1>1, <1>5
  <2> HIDE DEF a
  <2>2. Cardinality(S) = k /\ \A n \in 1 .. k : Nth(S, n) = n
    <3>1. Cardinality(S) = k - a /\ \A n \in 1 .. (k - a) : Nth(S, n) = n + a
      BY <2>1, AtInterval, Zenon
    <3> QED BY <2>1, <3>1
  <2>3. At(q, S) = [n \in 1 .. Cardinality(S) |-> q[Nth(S, n)]]
    BY AtIs
  <2> QED BY <2>2, <2>3 DEF Delivered, S
<1>7. Undelivered(q) = Rest(q, k)
  <2>1. k \in Nat /\ N \in Nat /\ k <= N
    BY <1>1
  <2> DEFINE T == (k + 1) .. N
  <2>2. (1 .. N) \ (1 .. k) = T
    BY <2>1
  <2>3. T = (k + 1) .. N
    OBVIOUS
  <2> HIDE DEF T
  <2>4. Cardinality(T) = N - k /\ \A n \in 1 .. (N - k) : Nth(T, n) = n + k
    BY <2>1, <2>3, AtInterval
  <2>5. At(q, T) = [n \in 1 .. Cardinality(T) |-> q[Nth(T, n)]]
    BY AtIs
  <2>6. At(q, T) = [n \in 1 .. (N - k) |-> q[n + k]]
    BY <2>4, <2>5
  <2> QED BY <1>1, <1>5, <2>2, <2>6 DEF Undelivered, Rest, S, N
<1> QED BY <1>5, <1>6, <1>7 DEF N

LEMMA RestIs ==
  ASSUME NEW q \in Seq(FlightType)
  PROVE  /\ Rest(q, 0) = q
         /\ \A n \in 1 .. Len(q) : /\ Rest(q, n - 1) # << >> /\ Rest(q, n - 1)[1] = q[n]
                                   /\ Tail(Rest(q, n - 1)) = Rest(q, n)
PROOF
<1> DEFINE N == Len(q)
<1>1. N \in Nat /\ q = [i \in 1 .. N |-> q[i]] /\ \A i \in 1 .. N : q[i] \in FlightType
  OBVIOUS
<1>2. Rest(q, 0) = q
  <2>1. 1 .. (N - 0) = 1 .. N /\ \A i \in 1 .. N : i + 0 = i
    BY <1>1
  <2> HIDE DEF N
  <2>2. [i \in 1 .. (N - 0) |-> q[i + 0]] = [i \in 1 .. N |-> q[i]]
    BY <2>1
  <2> QED BY <1>1, <2>2 DEF Rest, N
<1> HIDE DEF N
<1>3. ASSUME NEW n \in 1 .. N
      PROVE  /\ Rest(q, n - 1) # << >> /\ Rest(q, n - 1)[1] = q[n]
             /\ Tail(Rest(q, n - 1)) = Rest(q, n)
  <2> DEFINE s == Rest(q, n - 1)
  <2> DEFINE K == N - (n - 1)
  <2>1. s = [i \in 1 .. K |-> q[i + (n - 1)]]
    BY DEF Rest, N
  <2>2. /\ K \in Nat \ {0} /\ \A i \in 1 .. K : i + (n - 1) \in 1 .. N
        /\ K - 1 = N - n /\ 1 + (n - 1) = n /\ n \in Nat
        /\ \A i \in 1 .. (K - 1) : i + 1 \in 1 .. K /\ (i + 1) + (n - 1) = i + n
    <3>1. N \in Nat /\ n \in Nat /\ 1 <= n /\ n <= N
      BY <1>1
    <3>2. K \in Nat \ {0} /\ K - 1 = N - n /\ 1 + (n - 1) = n
      BY <3>1
    <3>3. ASSUME NEW i \in 1 .. K PROVE i + (n - 1) \in 1 .. N
      BY <3>1
    <3> HIDE DEF K
    <3>4. ASSUME NEW i \in 1 .. (K - 1)
          PROVE  i + 1 \in 1 .. K /\ (i + 1) + (n - 1) = i + n
      BY <3>1, <3>2
    <3> QED BY <3>1, <3>2, <3>3, <3>4
  <2> HIDE DEF s, K
  <2>3. \A i \in 1 .. K : s[i] \in FlightType /\ s[i] = q[i + (n - 1)]
    BY <1>1, <2>1, <2>2
  <2>4. s \in Seq(FlightType) /\ Len(s) = K
    <3>1. s \in [1 .. K -> FlightType] /\ K \in Nat
      BY <2>1, <2>2, <2>3
    <3> QED BY <3>1
  <2>5. s # << >> /\ s[1] = q[n]
    <3>1. 1 \in 1 .. K
      BY <2>2
    <3> QED BY <2>2, <2>3, <2>4, <3>1
  <2>6. Tail(s) = [i \in 1 .. (K - 1) |-> s[i + 1]]
    <3>1. /\ Tail(s) \in Seq(FlightType) /\ Len(Tail(s)) = K - 1
          /\ \A i \in 1 .. (K - 1) : Tail(s)[i] = s[i + 1]
      BY <2>2, <2>4, <2>5
    <3> DEFINE u == Tail(s)
    <3> HIDE DEF u
    <3>2. u \in Seq(FlightType) /\ Len(u) = K - 1
      BY <3>1 DEF u
    <3>3. u = [i \in 1 .. Len(u) |-> u[i]]
      BY <3>2
    <3>4. \A i \in 1 .. (K - 1) : u[i] = s[i + 1]
      BY <3>1 DEF u
    <3> QED BY <3>2, <3>3, <3>4 DEF u
  <2>7. \A i \in 1 .. (K - 1) : s[i + 1] = q[i + n]
    BY <2>2, <2>3
  <2>8. Tail(s) = [i \in 1 .. (N - n) |-> q[i + n]]
    BY <2>2, <2>6, <2>7
  <2> QED BY <2>5, <2>8 DEF Rest, s, N
<1> QED BY <1>2, <1>3 DEF N

(* The engines g[0] to g[N] of the loop over N answers.                    *)
IsAfter(g, N, d, answers) ==
  g = [n \in 0 .. N |-> IF n = 0 THEN d ELSE OnResponse(g[n - 1], answers[n].completion)]

LEMMA AfterExists ==
  ASSUME NEW d, NEW answers, NEW N \in Nat
  PROVE  \E g : IsAfter(g, N, d, answers)
PROOF
<1> DEFINE Bad == {n \in Nat : ~\E g : IsAfter(g, n, d, answers)}
           R == OpToRel(<, Nat)
<1> SUFFICES ASSUME Bad # {} PROVE FALSE
  OBVIOUS
<1>1. Bad \subseteq Nat
  OBVIOUS
<1>2. IsWellFoundedOn(R, Nat)
  BY NatLessThanWellFounded
<1>3. PICK x \in Bad : \A y \in Bad : ~(<<y, x>> \in R)
  <2> HIDE DEF R, Bad
  <2> QED BY <1>1, <1>2, WFMin
<1>4. CASE x = 0
  <2> DEFINE g == [n \in 0 .. 0 |-> d]
  <2>1. g = [n \in 0 .. 0 |-> IF n = 0 THEN d ELSE OnResponse(g[n - 1], answers[n].completion)]
    OBVIOUS
  <2>2. IsAfter(g, x, d, answers)
    BY <1>4, <2>1 DEF IsAfter
  <2> QED BY <2>2
<1>5. CASE x # 0
  <2>1. x \in Nat /\ x - 1 \in Nat /\ x - 1 < x
    BY <1>5
  <2>2. PICK g : IsAfter(g, x - 1, d, answers)
    <3>1. <<x - 1, x>> \in R
      BY <2>1 DEF OpToRel
    <3> QED BY <1>3, <2>1, <3>1
  <2> DEFINE h == [n \in 0 .. x |-> IF n = x THEN OnResponse(g[x - 1], answers[x].completion)
                                   ELSE g[n]]
  <2>3. \A n \in 0 .. (x - 1) :
          g[n] = IF n = 0 THEN d ELSE OnResponse(g[n - 1], answers[n].completion)
    BY <2>2 DEF IsAfter
  <2>4. ASSUME NEW n \in 0 .. x
        PROVE  h[n] = IF n = 0 THEN d ELSE OnResponse(h[n - 1], answers[n].completion)
    <3>1. CASE n = x
      BY <1>5, <2>1, <3>1
    <3>2. CASE n # x
      <4>1. n \in 0 .. (x - 1) /\ (n # 0 => n - 1 \in 0 .. (x - 1))
        BY <2>1, <3>2
      <4>2. h[n] = g[n] /\ (n # 0 => h[n - 1] = g[n - 1])
        BY <2>1, <3>2, <4>1
      <4> HIDE DEF h
      <4> QED BY <2>3, <4>1, <4>2
    <3> QED BY <3>1, <3>2
  <2>5. h = [n \in 0 .. x |-> h[n]]
    OBVIOUS
  <2> HIDE DEF h
  <2>6. IsAfter(h, x, d, answers)
    BY <2>4, <2>5 DEF IsAfter
  <2> QED BY <2>6
<1> QED BY <1>4, <1>5

(* After the second loop of poll_in_flight_requests.                       *)
LEMMA DeliverSound ==
  ASSUME NEW q, NEW t, NEW m, NEW j, Sound(dma, q, t, m, j)
  PROVE  Sound(Responded(Delivered(q)), Undelivered(q), t, m, j)
PROOF
<1>1. q \in Seq(FlightType)
  BY DEF Sound, Typed
<1>2. PICK k \in 0 .. Len(q) : /\ \A i \in 1 .. k : q[i].completion # None
                               /\ Delivered(q) = [n \in 1 .. k |-> q[n]]
                               /\ Undelivered(q) = Rest(q, k)
  BY <1>1, DeliveredPrefix
<1> DEFINE s == Delivered(q)
           g == CHOOSE f : IsAfter(f, k, dma, s)
           P(n) == Sound(g[n], Rest(q, n), t, m, j)
           Bad == {n \in 0 .. k : ~P(n)}
           R == OpToRel(<, Nat)
<1>3. k \in Nat /\ k <= Len(q) /\ Len(q) \in Nat
  BY <1>1
<1>4. Len(s) = k /\ \A n \in 1 .. k : s[n] = q[n]
  <2>1. \A n \in 1 .. k : q[n] \in FlightType
    BY <1>1, <1>3
  <2>2. s \in [1 .. k -> FlightType]
    BY <1>2, <2>1
  <2> HIDE DEF s
  <2>3. Len(s) = k
    BY <1>3, <2>2
  <2> QED BY <1>2, <2>3 DEF s
<1> HIDE DEF s
<1>5. IsAfter(g, k, dma, s)
  BY <1>3, AfterExists
<1>6. Responded(s) = g[k]
  BY <1>4 DEF Responded, IsAfter
<1> HIDE DEF g
<1>7. g[0] = dma /\ \A n \in 1 .. k : g[n] = OnResponse(g[n - 1], q[n].completion)
  <2>1. \A n \in 0 .. k :
          g[n] = IF n = 0 THEN dma ELSE OnResponse(g[n - 1], s[n].completion)
    BY <1>5 DEF IsAfter
  <2>2. \A n \in 1 .. k : n \in 0 .. k /\ n # 0
    OBVIOUS
  <2>3. 0 \in 0 .. k
    BY <1>3
  <2> QED BY <1>4, <2>1, <2>2, <2>3
<1>8. Bad = {}
  <2> SUFFICES ASSUME Bad # {} PROVE FALSE
    OBVIOUS
  <2>1. Bad \subseteq Nat
    BY <1>3
  <2>2. IsWellFoundedOn(R, Nat)
    BY NatLessThanWellFounded
  <2>3. PICK x \in Bad : \A y \in Bad : ~(<<y, x>> \in R)
    <3> HIDE DEF R, Bad
    <3> QED BY <2>1, <2>2, WFMin
  <2>4. CASE x = 0
    <3>1. P(0)
      BY <1>1, <1>7, RestIs
    <3> QED BY <2>4, <3>1
  <2>5. CASE x # 0
    <3>1. x \in 1 .. k /\ x - 1 \in 0 .. k /\ x \in 1 .. Len(q)
      BY <1>3, <2>5
    <3>2. P(x - 1)
      <4>1. <<x - 1, x>> \in R
        BY <1>3, <3>1 DEF OpToRel
      <4> HIDE DEF P
      <4> QED BY <2>3, <3>1, <4>1
    <3> DEFINE p == Rest(q, x - 1)
    <3>3. p # << >> /\ p[1] = q[x] /\ Tail(p) = Rest(q, x) /\ q[x].completion # None
      BY <1>1, <1>2, <3>1, RestIs
    <3> HIDE DEF p
    <3>4. Sound(g[x - 1], p, t, m, j)
      BY <3>2 DEF p
    <3>5. Sound(OnResponse(g[x - 1], p[1].completion), Tail(p), t, m, j)
      BY <3>3, <3>4, ResponseSound
    <3>6. g[x] = OnResponse(g[x - 1], p[1].completion)
      BY <1>7, <3>1, <3>3
    <3> QED BY <3>3, <3>5, <3>6
  <2> QED BY <2>4, <2>5
<1>9. P(k)
  BY <1>3, <1>8
<1> QED BY <1>2, <1>6, <1>9 DEF s

-----------------------------------------------------------------------------
(* The engine issues a burst. *)

(* An identifier is found that no request in flight has.                   *)
LEMMA FreshIdIs ==
  ASSUME NEW q \in Seq(FlightType), NEW t, Linked(q, t)
  PROVE  /\ FreshId(t, q) \in Nat
         /\ \A i \in DOMAIN q : q[i].id # FreshId(t, q)
         /\ \A n \in DOMAIN t : t[n].id # FreshId(t, q)
PROOF
<1> DEFINE N == Len(q)
           Free(n) == \A i \in DOMAIN q : q[i].id # n
<1>1. N \in Nat /\ DOMAIN q = 1 .. N
  OBVIOUS
<1> HIDE DEF N
<1>2. \E n \in 1 .. (N + 1) : Free(n)
  <2> SUFFICES ASSUME \A n \in 1 .. (N + 1) : ~Free(n) PROVE FALSE
    OBVIOUS
  <2> DEFINE f == [n \in 1 .. (N + 1) |-> CHOOSE i \in 1 .. N : q[i].id = n]
  <2>1. \A n \in 1 .. (N + 1) : \E i \in 1 .. N : q[i].id = n
    BY <1>1
  <2>2. \A n \in 1 .. (N + 1) : f[n] \in 1 .. N /\ q[f[n]].id = n
    BY <2>1
  <2>3. f \in [1 .. (N + 1) -> 1 .. N]
    BY <2>2
  <2> HIDE DEF f
  <2>4. /\ IsFiniteSet(1 .. (N + 1)) /\ IsFiniteSet(1 .. N)
        /\ Cardinality(1 .. (N + 1)) = N + 1 /\ Cardinality(1 .. N) = N
    <3> DEFINE b == N + 1
    <3>1. b \in Int /\ 1 \in Int /\ b >= 1
      BY <1>1
    <3> HIDE DEF b
    <3>2. IsFiniteSet(1 .. b) /\ Cardinality(1 .. b) = IF 1 > b THEN 0 ELSE b - 1 + 1
      BY <3>1, FS_Interval
    <3>3. Cardinality(1 .. b) = b
      BY <3>1, <3>2
    <3>4. IsFiniteSet(1 .. N) /\ Cardinality(1 .. N) = IF 1 > N THEN 0 ELSE N - 1 + 1
      BY <1>1, <3>1, FS_Interval
    <3>5. Cardinality(1 .. N) = N
      BY <1>1, <3>4
    <3> QED BY <3>2, <3>3, <3>4, <3>5 DEF b
  <2>5. Cardinality(1 .. N) < Cardinality(1 .. (N + 1))
    BY <1>1, <2>4
  <2>6. PICK x, y \in 1 .. (N + 1) : x # y /\ f[x] = f[y]
    <3> DEFINE S == 1 .. (N + 1)
               T == 1 .. N
    <3>1. f \in [S -> T] /\ IsFiniteSet(S) /\ IsFiniteSet(T) /\ Cardinality(T) < Cardinality(S)
      BY <2>3, <2>4, <2>5
    <3> HIDE DEF S, T
    <3>2. \E x, y \in S : x # y /\ f[x] = f[y]
      BY <3>1, FS_PigeonHole
    <3> QED BY <3>2 DEF S
  <2> QED BY <2>2, <2>6
<1>3. FreshId(t, q) \in 1 .. (N + 1) /\ Free(FreshId(t, q))
  BY <1>2 DEF FreshId, N
<1>4. \A n \in DOMAIN t : t[n].id # FreshId(t, q)
  BY <1>3 DEF Linked
<1> QED BY <1>1, <1>3, <1>4

Flying(id) == [master |-> 0, id |-> id, completion |-> None]

(* A new request is the last of both the queue and the table.              *)
LEMMA AppendLinked ==
  ASSUME NEW q \in Seq(FlightType), NEW t, TableOK(t), Linked(q, t), NEW id \in Nat,
         \A i \in DOMAIN q : q[i].id # id, NEW e, EntryOK(e), e.id = id
  PROVE  LET p == Append(q, Flying(id))
             u == Append(t, e)
         IN  /\ p \in Seq(FlightType) /\ TableOK(u) /\ Linked(p, u)
             /\ Len(p) = Len(q) + 1 /\ Len(u) = Len(t) + 1
             /\ DOMAIN p = 1 .. (Len(q) + 1) /\ DOMAIN u = 1 .. (Len(t) + 1)
             /\ Len(q) \in Nat /\ Len(t) \in Nat
             /\ DOMAIN q = 1 .. Len(q) /\ DOMAIN t = 1 .. Len(t)
             /\ \A i \in DOMAIN q : p[i] = q[i]
             /\ \A n \in DOMAIN t : u[n] = t[n] /\ t[n].id # id
             /\ p[Len(q) + 1] = Flying(id) /\ u[Len(t) + 1] = e
PROOF
<1> DEFINE p == Append(q, Flying(id))
           u == Append(t, e)
           N == Len(q)
           M == Len(t)
<1>1. t \in Seq(EntryType) /\ e \in EntryType
  BY DEF TableOK, EntryOK
<1>2. Flying(id) \in FlightType
  BY DEF Flying, FlightType
<1>3. /\ p \in Seq(FlightType) /\ N \in Nat /\ DOMAIN q = 1 .. N /\ DOMAIN p = 1 .. (N + 1)
      /\ Len(p) = N + 1 /\ p[N + 1] = Flying(id) /\ \A i \in 1 .. N : p[i] = q[i]
  <2> HIDE DEF N
  <2>1. N \in Nat /\ DOMAIN q = 1 .. N /\ N = Len(q)
    BY DEF N
  <2> QED BY <1>2, <2>1
<1>4. /\ u \in Seq(EntryType) /\ M \in Nat /\ DOMAIN t = 1 .. M /\ DOMAIN u = 1 .. (M + 1)
      /\ Len(u) = M + 1 /\ u[M + 1] = e /\ \A n \in 1 .. M : u[n] = t[n]
  <2> HIDE DEF M
  <2>1. M \in Nat /\ DOMAIN t = 1 .. M /\ M = Len(t)
    BY <1>1 DEF M
  <2> QED BY <1>1, <2>1
<1> HIDE DEF p, u, N, M
<1>5. \A n \in 1 .. M : t[n].id # id
  <2> SUFFICES ASSUME NEW n \in DOMAIN t PROVE t[n].id # id
    BY <1>4
  <2>1. PICK i \in DOMAIN q : q[i].id = t[n].id
    BY DEF Linked
  <2> QED BY <2>1
<1>6. /\ \A i \in 1 .. (N + 1) : i \in 1 .. N \/ i = N + 1
      /\ \A n \in 1 .. (M + 1) : n \in 1 .. M \/ n = M + 1
      /\ N + 1 \in 1 .. (N + 1) /\ M + 1 \in 1 .. (M + 1)
      /\ \A i \in 1 .. N : i \in 1 .. (N + 1)
      /\ \A n \in 1 .. M : n \in 1 .. (M + 1)
  BY <1>3, <1>4
<1>7. Flying(id).id = id /\ Flying(id).completion = None
  BY DEF Flying
<1>8. TableOK(u)
  BY <1>4, <1>6 DEF TableOK
<1>9. Distinct(p)
  BY <1>3, <1>6, <1>7 DEF Linked, Distinct
<1>10. Distinct(u)
  BY <1>4, <1>5, <1>6 DEF Linked, Distinct
<1>11. \A n \in DOMAIN u : \E i \in DOMAIN p : p[i].id = u[n].id /\ p[i].completion = None
  <2> SUFFICES ASSUME NEW n \in DOMAIN u
               PROVE  \E i \in DOMAIN p : p[i].id = u[n].id /\ p[i].completion = None
    OBVIOUS
  <2>1. CASE n = M + 1
    BY <1>3, <1>4, <1>6, <1>7, <2>1
  <2>2. CASE n \in 1 .. M
    <3>1. PICK i \in DOMAIN q : q[i].id = t[n].id /\ q[i].completion = None
      BY <1>4, <2>2 DEF Linked
    <3> QED BY <1>3, <1>4, <1>6, <2>2, <3>1
  <2> QED BY <1>4, <1>6, <2>1, <2>2
<1>12. \A i \in DOMAIN p : p[i].completion = None => \E n \in DOMAIN u : u[n].id = p[i].id
  <2> SUFFICES ASSUME NEW i \in DOMAIN p, p[i].completion = None
               PROVE  \E n \in DOMAIN u : u[n].id = p[i].id
    OBVIOUS
  <2>1. CASE i = N + 1
    BY <1>3, <1>4, <1>6, <1>7, <2>1
  <2>2. CASE i \in 1 .. N
    <3>1. PICK n \in DOMAIN t : t[n].id = q[i].id
      BY <1>3, <2>2 DEF Linked
    <3> QED BY <1>3, <1>4, <1>6, <2>2, <3>1
  <2> QED BY <1>3, <1>6, <2>1, <2>2
<1>13. Linked(p, u)
  BY <1>9, <1>10, <1>11, <1>12 DEF Linked
<1> QED BY <1>3, <1>4, <1>5, <1>8, <1>13 DEF p, u, N, M

(* A burst the memory map takes.                                           *)
LEMMA IssueSound ==
  ASSUME NEW d, NEW q, NEW t, NEW m, NEW j, Sound(d, q, t, m, j), IsBusy(d),
         NEW x \in DmaType, IsBusy(x), Same(d, x), x.transferred_words = d.transferred_words,
         NEW r, Issued(x) = Append(Issued(d), r),
         NEW request \in RequestType, Routable(request),
         j # NoTransfer /\ j.fresh => /\ Layout(x, j) /\ Buffered(x, j)
                                      /\ OnBus(j, r, NewEntry(FreshId(t, q), request))
  PROVE  Sound(x, Append(q, Flying(FreshId(t, q))),
               Append(t, NewEntry(FreshId(t, q), request)), m, j)
PROOF
<1> DEFINE id == FreshId(t, q)
           e == NewEntry(id, request)
           p == Append(q, Flying(id))
           u == Append(t, e)
           N == Len(q)
           M == Len(t)
<1>1. /\ d \in DmaType /\ q \in Seq(FlightType) /\ TableOK(t) /\ Linked(q, t)
  BY DEF Sound, Typed
<1>2. id \in Nat /\ \A i \in DOMAIN q : q[i].id # id
  BY <1>1, FreshIdIs
<1> HIDE DEF id
<1>3. EntryOK(e) /\ e.id = id /\ e.beat = 0
  BY <1>2, NewEntryOK DEF NewEntry
<1>4. j # NoTransfer /\ j.fresh => Layout(x, j) /\ Buffered(x, j) /\ OnBus(j, r, e)
  BY DEF id
<1> HIDE DEF e
<1>5. /\ p \in Seq(FlightType) /\ TableOK(u) /\ Linked(p, u)
      /\ Len(p) = N + 1 /\ DOMAIN p = 1 .. (N + 1) /\ DOMAIN u = 1 .. (M + 1)
      /\ N \in Nat /\ M \in Nat /\ DOMAIN q = 1 .. N /\ DOMAIN t = 1 .. M
      /\ \A i \in DOMAIN q : p[i] = q[i]
      /\ \A n \in DOMAIN t : u[n] = t[n] /\ t[n].id # id
      /\ p[N + 1] = Flying(id) /\ u[M + 1] = e
  BY <1>1, <1>2, <1>3, AppendLinked
<1>6. Flying(id).id = id /\ Flying(id).completion = None
  BY DEF Flying
<1>7. Issued(d) \in Seq(IssuedType) /\ Issued(x) \in Seq(IssuedType)
  BY <1>1, BusyType
<1> HIDE DEF p, u, N, M
<1>8. ASSUME j # NoTransfer, j.fresh PROVE Running(x, p, u, m, j)
  <2>1. j \in JobType /\ Running(d, q, t, m, j)
    BY <1>8 DEF Sound, Followed, Typed
  <2>2. Counted(x, j) = Counted(d, j)
    BY DEF Counted
  <2>3. Len(Issued(d)) = N
    BY <2>1 DEF Running, Matches, N
  <2>4. /\ Len(Issued(x)) = N + 1 /\ Issued(x)[N + 1] = r
        /\ \A i \in 1 .. N : i \in DOMAIN Issued(d) /\ i \in DOMAIN Issued(x)
                             /\ Issued(x)[i] = Issued(d)[i]
        /\ DOMAIN Issued(d) = 1 .. N
    BY <1>5, <1>7, <2>3
  <2>5. ASSUME NEW i \in DOMAIN p, NEW n \in DOMAIN u, u[n].id = p[i].id
        PROVE  OnBus(j, Issued(x)[i], u[n]) /\ BeatsCopied(Issued(x)[i], u[n], m, j)
    <3>1. CASE i = N + 1 /\ n = M + 1
      <4>1. OnBus(j, Issued(x)[i], u[n])
        BY <1>4, <1>5, <1>8, <2>4, <3>1
      <4>2. \A k \in Nat : ~(k < u[n].beat)
        BY <1>3, <1>5, <3>1
      <4> QED BY <4>1, <4>2 DEF BeatsCopied
    <3>2. CASE i \in 1 .. N /\ n \in 1 .. M
      <4>1. t[n].id = q[i].id /\ u[n] = t[n] /\ Issued(x)[i] = Issued(d)[i]
        BY <1>5, <2>4, <2>5, <3>2
      <4>2. OnBus(j, Issued(d)[i], t[n]) /\ BeatsCopied(Issued(d)[i], t[n], m, j)
        BY <1>5, <2>1, <3>2, <4>1 DEF Running, Matches, InMemory
      <4> QED BY <4>1, <4>2
    <3>3. CASE i = N + 1 /\ n \in 1 .. M
      BY <1>5, <1>6, <2>5, <3>3
    <3>4. CASE i \in 1 .. N /\ n = M + 1
      BY <1>2, <1>3, <1>5, <2>5, <3>4
    <3>5. (i \in 1 .. N \/ i = N + 1) /\ (n \in 1 .. M \/ n = M + 1)
      BY <1>5
    <3> QED BY <3>1, <3>2, <3>3, <3>4, <3>5
  <2>6. ASSUME NEW i \in DOMAIN p, p[i].completion # None
        PROVE  /\ Answers(j, Issued(x)[i], p[i].completion)
               /\ AnswerCopied(Issued(x)[i], p[i].completion, m, j)
    <3>1. i # N + 1
      BY <1>5, <1>6, <2>6
    <3>2. i \in 1 .. N
      BY <1>5, <3>1
    <3>3. p[i] = q[i] /\ Issued(x)[i] = Issued(d)[i] /\ i \in DOMAIN q
      BY <1>5, <2>4, <3>2
    <3>4. q[i].completion # None
      BY <2>6, <3>3
    <3>5. /\ Answers(j, Issued(d)[i], q[i].completion)
          /\ AnswerCopied(Issued(d)[i], q[i].completion, m, j)
      BY <2>1, <3>3, <3>4 DEF Running, Matches, InMemory
    <3> QED BY <3>3, <3>5
  <2>7. Matches(x, p, u, j)
    BY <1>5, <2>4, <2>5, <2>6 DEF Matches
  <2>8. CountedCopied(x, m, j)
    BY <2>1, <2>2 DEF Running, InMemory, CountedCopied
  <2>9. ASSUME NEW w, Touched(d, j, w) PROVE Touched(x, j, w)
    BY <2>2, <2>4, <2>9 DEF Touched
  <2>10. InMemory(x, p, u, m, j)
    BY <2>1, <2>5, <2>6, <2>8, <2>9 DEF Running, InMemory
  <2> QED BY <1>4, <1>8, <2>7, <2>10 DEF Running
<1>9. Status(x, j)
  BY DEF Sound, Status, Same
<1>10. Typed(x, p, u, m, j)
  BY <1>5 DEF Sound, Typed
<1>11. Sound(x, p, u, m, j)
  BY <1>5, <1>8, <1>9, <1>10 DEF Sound, Followed
<1> QED BY <1>11 DEF p, u, e, id

ErrorResponse == [kind |-> "error", words |-> << >>]

(* A burst no device decodes: the transfer is given up.                    *)
LEMMA RefusedSound ==
  ASSUME NEW d, NEW q, NEW t, NEW m, NEW j, Sound(d, q, t, m, j), IsBusy(d),
         NEW x \in DmaType, IsBusy(x), Same(d, x), x.transferred_words = d.transferred_words
  PROVE  Sound(OnResponse(x, ErrorResponse), q, t, m, j)
PROOF
<1> DEFINE y == Abort(x)
<1>1. OnResponse(x, ErrorResponse) = y
  <2>1. ErrorResponse \in ResponseType /\ ErrorResponse.kind = "error"
    BY DEF ErrorResponse, ResponseType
  <2> QED BY <2>1, ResponseCases DEF Expected
<1>2. /\ y \in DmaType /\ ~IsBusy(y) /\ y.transferred_words = d.transferred_words
      /\ y.done = FALSE /\ y.error = TRUE
  <2>1. d \in DmaType /\ d.done = FALSE /\ x.done = FALSE
    BY DEF Sound, Typed, Status, Same, DmaType
  <2> QED BY <2>1, AbortIs
<1> HIDE DEF y
<1>3. ASSUME j # NoTransfer, j.fresh PROVE Stopped(y, t, m, j)
  <2>1. Running(d, q, t, m, j) /\ j \in JobType
    BY <1>3 DEF Sound, Followed, Typed
  <2> QED BY <1>2, <2>1, RunningStops
<1>4. Sound(y, q, t, m, j)
  BY <1>2, <1>3 DEF Sound, Typed, Status, Followed
<1> QED BY <1>1, <1>4

LEMMA NextKindIs ==
  ASSUME NEW d
  PROVE  /\ NextKind(d) \in {"load", "store", "nothing"}
         /\ NextKind(d) = "load" => IsBusy(d) /\ d.active.remaining_words > 0
         /\ NextKind(d) = "store" => IsBusy(d) /\ ReadyWrites(d) # << >>
  BY DEF NextKind, Room, ReadyWrites

ReadNote(d) ==
  [kind |-> "load", destination |-> d.active.next_destination, beats |-> ReadBurst(d).beats]

(* The words asked for next: at least one, and no more than are left.      *)
LEMMA ReadBurstIs ==
  ASSUME NEW d \in DmaType, IsBusy(d), d.active.remaining_words > 0
  PROVE  /\ ReadBurst(d).beats \in Nat \ {0}
         /\ ReadBurst(d).beats <= d.active.remaining_words
         /\ ReadBurst(d).addr = d.active.next_source /\ ReadBurst(d).kind = "load"
PROOF
<1>1. d.active.remaining_words \in Nat
  BY BusyType DEF TransferType
<1> QED BY <1>1, EngineAssumption DEF ReadBurst

LEMMA AfterReadIssuedIs ==
  ASSUME NEW d \in DmaType, IsBusy(d), d.active.remaining_words > 0
  PROVE  LET x == AfterReadIssued(d)
             b == ReadBurst(d).beats
         IN  /\ x \in DmaType /\ IsBusy(x) /\ Same(d, x)
             /\ Issued(x) = Append(Issued(d), ReadNote(d))
             /\ ReadyWrites(x) = ReadyWrites(d)
             /\ x.transferred_words = d.transferred_words
             /\ x.active.next_source = d.active.next_source + b
             /\ x.active.next_destination = d.active.next_destination + b
             /\ x.active.remaining_words = d.active.remaining_words - b
PROOF
<1> DEFINE a == d.active
           b == ReadBurst(d).beats
           r == ReadNote(d)
           c == [a EXCEPT !.next_source = @ + b, !.next_destination = @ + b,
                          !.remaining_words = @ - b, !.issued_requests = Append(@, r)]
           x == AfterReadIssued(d)
<1>1. b \in Nat \ {0} /\ b <= a.remaining_words
  BY ReadBurstIs
<1>2. a \in TransferType
  BY BusyType
<1>3. /\ a.next_source \in Nat /\ a.next_destination \in Nat /\ a.remaining_words \in Nat
      /\ a.issued_requests \in Seq(IssuedType)
  BY <1>2 DEF TransferType
<1>4. r \in IssuedType
  BY <1>1, <1>3 DEF ReadNote, IssuedType
<1>5. x = [d EXCEPT !.active = c]
  BY DEF AfterReadIssued, ReadNote, DmaType
<1> HIDE DEF b, r, x
<1>6. /\ a.next_source + b \in Nat /\ a.next_destination + b \in Nat
      /\ a.remaining_words - b \in Nat /\ Append(a.issued_requests, r) \in Seq(IssuedType)
  BY <1>1, <1>3, <1>4
<1>7. /\ c \in TransferType /\ c.next_source = a.next_source + b
      /\ c.next_destination = a.next_destination + b
      /\ c.remaining_words = a.remaining_words - b
      /\ c.issued_requests = Append(a.issued_requests, r) /\ c.ready_writes = a.ready_writes
  BY <1>2, <1>6 DEF TransferType
<1> HIDE DEF c
<1>8. /\ x \in DmaType /\ x.active = c /\ x.done = d.done /\ x.error = d.error
      /\ x.transferred_words = d.transferred_words
  BY <1>5, <1>7 DEF DmaType
<1>9. IsBusy(x)
  BY <1>7, <1>8, SystemAssumption DEF IsBusy
<1>10. Issued(x) = Append(Issued(d), r) /\ ReadyWrites(x) = ReadyWrites(d) /\ Same(d, x)
  BY <1>7, <1>8 DEF Issued, ReadyWrites, Same
<1> QED BY <1>7, <1>8, <1>9, <1>10 DEF b, r, x

WriteNote(d) ==
  [kind |-> "store", destination |-> ReadyWrites(d)[1].destination,
   beats |-> Len(ReadyWrites(d)[1].words)]

LEMMA AfterWriteIssuedIs ==
  ASSUME NEW d \in DmaType, IsBusy(d), ReadyWrites(d) # << >>
  PROVE  LET x == AfterWriteIssued(d)
         IN  /\ x \in DmaType /\ IsBusy(x) /\ Same(d, x) /\ SamePlan(d, x)
             /\ Issued(x) = Append(Issued(d), WriteNote(d))
             /\ ReadyWrites(x) = Tail(ReadyWrites(d))
             /\ x.transferred_words = d.transferred_words
PROOF
<1> DEFINE a == d.active
           r == WriteNote(d)
           c == [a EXCEPT !.ready_writes = Tail(@), !.issued_requests = Append(@, r)]
           x == AfterWriteIssued(d)
<1>1. a \in TransferType /\ a.ready_writes = ReadyWrites(d) /\ a.issued_requests = Issued(d)
  BY BusyType DEF Issued, ReadyWrites
<1>2. ReadyWrites(d) \in Seq(WriteType) /\ a.issued_requests \in Seq(IssuedType)
  BY BusyType DEF TransferType
<1>3. 1 \in DOMAIN ReadyWrites(d) /\ Head(a.ready_writes) = ReadyWrites(d)[1]
  BY <1>1, <1>2
<1>4. r \in IssuedType
  BY <1>3, ReadyIs DEF WriteNote, IssuedType
<1>5. x = [d EXCEPT !.active = c]
  BY <1>3 DEF AfterWriteIssued, WriteNote, DmaType
<1> HIDE DEF r, x
<1>6. /\ Tail(a.ready_writes) \in Seq(WriteType)
      /\ Append(a.issued_requests, r) \in Seq(IssuedType)
  BY <1>1, <1>2, <1>4
<1>7. /\ c \in TransferType /\ c.next_source = a.next_source
      /\ c.next_destination = a.next_destination /\ c.remaining_words = a.remaining_words
      /\ c.issued_requests = Append(a.issued_requests, r)
      /\ c.ready_writes = Tail(a.ready_writes)
  BY <1>1, <1>6 DEF TransferType
<1> HIDE DEF c
<1>8. /\ x \in DmaType /\ x.active = c /\ x.done = d.done /\ x.error = d.error
      /\ x.transferred_words = d.transferred_words
  BY <1>5, <1>7 DEF DmaType
<1>9. IsBusy(x)
  BY <1>7, <1>8, SystemAssumption DEF IsBusy
<1>10. /\ Issued(x) = Append(Issued(d), r) /\ ReadyWrites(x) = Tail(ReadyWrites(d))
       /\ Same(d, x) /\ SamePlan(d, x)
  BY <1>7, <1>8 DEF Issued, ReadyWrites, Same, SamePlan
<1> QED BY <1>8, <1>9, <1>10 DEF r, x

(* The request of a read and of a write.                                   *)
LEMMA ReadRequestIs ==
  ASSUME NEW d \in DmaType, IsBusy(d), d.active.remaining_words > 0
  PROVE  LET request == BurstRequest(ReadBurst(d))
         IN  /\ request \in RequestType /\ request.kind = "load"
             /\ request.addr = d.active.next_source /\ Beats(request) = ReadBurst(d).beats
PROOF
<1> DEFINE b == ReadBurst(d).beats
           zeros == [n \in 1 .. b |-> 0]
           request == BurstRequest(ReadBurst(d))
<1>1. /\ b \in Nat \ {0} /\ ReadBurst(d).addr = d.active.next_source
      /\ ReadBurst(d).kind = "load"
  BY ReadBurstIs
<1>2. d.active.next_source \in Nat
  BY BusyType DEF TransferType
<1>3. request = [kind |-> "load", addr |-> d.active.next_source, data |-> zeros]
  BY <1>1 DEF BurstRequest
<1> HIDE DEF b, request
<1>4. zeros \in [1 .. b -> Values]
  BY SystemAssumption
<1> HIDE DEF zeros
<1>5. zeros \in Seq(Values) /\ Len(zeros) = b /\ zeros # << >>
  BY <1>1, <1>4
<1>6. request \in RequestType
  BY <1>2, <1>3, <1>5 DEF RequestType, Kinds
<1>7. request.kind = "load" /\ request.addr = d.active.next_source /\ Beats(request) = b
  BY <1>3, <1>5 DEF Beats
<1> QED BY <1>6, <1>7 DEF b, request

LEMMA WriteRequestIs ==
  ASSUME NEW d \in DmaType, IsBusy(d), ReadyWrites(d) # << >>
  PROVE  LET request == BurstRequest(WriteBurst(d))
             write == ReadyWrites(d)[1]
         IN  /\ request \in RequestType /\ request.kind = "store"
             /\ request.addr = write.destination /\ request.data = write.words
             /\ 1 \in DOMAIN ReadyWrites(d)
PROOF
<1> DEFINE write == ReadyWrites(d)[1]
           request == BurstRequest(WriteBurst(d))
<1>1. ReadyWrites(d) \in Seq(WriteType)
  BY BusyType
<1>2. /\ write \in WriteType /\ 1 \in DOMAIN ReadyWrites(d)
      /\ Head(d.active.ready_writes) = write
  BY <1>1 DEF ReadyWrites
<1> HIDE DEF write
<1>3. write.destination \in Nat /\ write.words \in Seq(Values) \ {<< >>}
  BY <1>2 DEF WriteType
<1>4. request = [kind |-> "store", addr |-> write.destination, data |-> write.words]
  BY <1>2 DEF BurstRequest, WriteBurst
<1> HIDE DEF request
<1>5. request \in RequestType
  BY <1>3, <1>4 DEF RequestType, Kinds
<1> QED BY <1>2, <1>4, <1>5 DEF request, write

LEMMA ReadIssuedSound ==
  ASSUME NEW d, NEW q, NEW t, NEW m, NEW j, Sound(d, q, t, m, j), IsBusy(d),
         d.active.remaining_words > 0,
         Submit(BurstRequest(ReadBurst(d)), AfterReadIssued(d), t, q)
  PROVE  Sound(dma', in_flight', bursts', m, j)
PROOF
<1> DEFINE x == AfterReadIssued(d)
           b == ReadBurst(d).beats
           r == ReadNote(d)
           request == BurstRequest(ReadBurst(d))
           id == FreshId(t, q)
           e == NewEntry(id, request)
<1>1. d \in DmaType
  BY DEF Sound, Typed
<1>2. /\ x \in DmaType /\ IsBusy(x) /\ Same(d, x)
      /\ Issued(x) = Append(Issued(d), r) /\ ReadyWrites(x) = ReadyWrites(d)
      /\ x.transferred_words = d.transferred_words
      /\ x.active.next_source = d.active.next_source + b
      /\ x.active.next_destination = d.active.next_destination + b
      /\ x.active.remaining_words = d.active.remaining_words - b
  BY <1>1, AfterReadIssuedIs
<1>3. /\ request \in RequestType /\ request.kind = "load"
      /\ request.addr = d.active.next_source /\ Beats(request) = b
  BY <1>1, ReadRequestIs
<1>4. /\ r.kind = "load" /\ r.destination = d.active.next_destination /\ r.beats = b
      /\ b \in Nat \ {0} /\ b <= d.active.remaining_words
  BY <1>1, ReadBurstIs DEF ReadNote
<1> HIDE DEF x, b, r, request
<1>5. CASE Routable(request)
  <2>1. ASSUME j # NoTransfer, j.fresh
        PROVE  Layout(x, j) /\ Buffered(x, j) /\ OnBus(j, r, e)
    <3>1. j \in JobType /\ Layout(d, j) /\ Buffered(d, j)
      BY <2>1 DEF Sound, Followed, Typed, Running
    <3>2. Counted(x, j) = Counted(d, j)
      BY <1>2 DEF Counted
    <3>3. Layout(x, j)
      BY <1>1, <1>2, <1>4, <3>1, <3>2, ReadIssuedLayout
    <3>4. Buffered(x, j)
      BY <1>2, <3>1 DEF Buffered
    <3>5. e.request = request /\ e.beat = 0
      BY DEF NewEntry
    <3>6. request.addr = j.source + (r.destination - j.destination)
      BY <1>3, <1>4, <3>1 DEF Layout
    <3>7. \A n \in 1 .. 0 : Right(j, r.destination + (n - 1), e.data[n])
      OBVIOUS
    <3> HIDE DEF e
    <3>8. OnBus(j, r, e)
      BY <1>3, <1>4, <3>5, <3>6, <3>7 DEF OnBus
    <3> QED BY <3>3, <3>4, <3>8
  <2>2. Sound(x, Append(q, Flying(id)), Append(t, e), m, j)
    BY <1>2, <1>3, <1>5, <2>1, IssueSound
  <2>3. /\ bursts' = Append(t, e) /\ in_flight' = Append(q, Flying(id)) /\ dma' = x
    BY <1>5 DEF Submit, Flying, x, request
  <2> QED BY <2>2, <2>3
<1>6. CASE ~Routable(request)
  <2>1. Sound(OnResponse(x, ErrorResponse), q, t, m, j)
    BY <1>2, RefusedSound
  <2>2. bursts' = t /\ in_flight' = q /\ dma' = OnResponse(x, ErrorResponse)
    BY <1>6 DEF Submit, ErrorResponse, x, request
  <2> QED BY <2>1, <2>2
<1> QED BY <1>5, <1>6

LEMMA WriteIssuedSound ==
  ASSUME NEW d, NEW q, NEW t, NEW m, NEW j, Sound(d, q, t, m, j), IsBusy(d),
         ReadyWrites(d) # << >>,
         Submit(BurstRequest(WriteBurst(d)), AfterWriteIssued(d), t, q)
  PROVE  Sound(dma', in_flight', bursts', m, j)
PROOF
<1> DEFINE x == AfterWriteIssued(d)
           write == ReadyWrites(d)[1]
           r == WriteNote(d)
           request == BurstRequest(WriteBurst(d))
           id == FreshId(t, q)
           e == NewEntry(id, request)
<1>1. d \in DmaType
  BY DEF Sound, Typed
<1>2. /\ x \in DmaType /\ IsBusy(x) /\ Same(d, x) /\ SamePlan(d, x)
      /\ Issued(x) = Append(Issued(d), r) /\ ReadyWrites(x) = Tail(ReadyWrites(d))
      /\ x.transferred_words = d.transferred_words
  BY <1>1, AfterWriteIssuedIs
<1>3. /\ request \in RequestType /\ request.kind = "store"
      /\ request.addr = write.destination /\ request.data = write.words
      /\ 1 \in DOMAIN ReadyWrites(d)
  BY <1>1, WriteRequestIs
<1>4. /\ r.kind = "store" /\ r.destination = write.destination
      /\ r.beats = Len(write.words)
  BY DEF WriteNote
<1> HIDE DEF x, r, request
<1>5. CASE Routable(request)
  <2>1. ASSUME j # NoTransfer, j.fresh
        PROVE  Layout(x, j) /\ Buffered(x, j) /\ OnBus(j, r, e)
    <3>1. j \in JobType /\ Layout(d, j) /\ Buffered(d, j)
      BY <2>1 DEF Sound, Followed, Typed, Running
    <3>2. Counted(x, j) = Counted(d, j)
      BY <1>2 DEF Counted
    <3>3. Layout(x, j)
      BY <1>1, <1>2, <1>4, <3>1, <3>2, WriteIssuedLayout
    <3>4. Buffered(x, j)
      <4>1. ReadyWrites(d) \in Seq(WriteType)
        BY <1>1, BusyType
      <4>2. \A i \in DOMAIN ReadyWrites(x) :
              i + 1 \in DOMAIN ReadyWrites(d) /\ ReadyWrites(x)[i] = ReadyWrites(d)[i + 1]
        BY <1>2, <4>1
      <4> QED BY <3>1, <4>2 DEF Buffered
    <3>5. e.request = request
      BY DEF NewEntry
    <3>6. RightWords(j, write.destination, write.words)
      BY <1>3, <3>1 DEF Buffered
    <3> HIDE DEF e, write
    <3>7. OnBus(j, r, e)
      BY <1>3, <1>4, <3>5, <3>6 DEF OnBus, Beats
    <3> QED BY <3>3, <3>4, <3>7
  <2>2. Sound(x, Append(q, Flying(id)), Append(t, e), m, j)
    BY <1>2, <1>3, <1>5, <2>1, IssueSound
  <2>3. /\ bursts' = Append(t, e) /\ in_flight' = Append(q, Flying(id)) /\ dma' = x
    BY <1>5 DEF Submit, Flying, x, request
  <2> QED BY <2>2, <2>3
<1>6. CASE ~Routable(request)
  <2>1. Sound(OnResponse(x, ErrorResponse), q, t, m, j)
    BY <1>2, RefusedSound
  <2>2. bursts' = t /\ in_flight' = q /\ dma' = OnResponse(x, ErrorResponse)
    BY <1>6 DEF Submit, ErrorResponse, x, request
  <2> QED BY <2>1, <2>2
<1> QED BY <1>5, <1>6

LEMMA ArbitrateSound ==
  ASSUME NEW d, NEW q, NEW t, NEW m, NEW j, Sound(d, q, t, m, j), Arbitrate(d, t, q)
  PROVE  Sound(dma', in_flight', bursts', m, j) /\ cpu_reserved' \in BOOLEAN
PROOF
<1> DEFINE kind == IF Outstanding(0, None, q) < Window[0] THEN NextKind(d) ELSE "nothing"
<1>1. /\ kind = "load" => IsBusy(d) /\ d.active.remaining_words > 0
      /\ kind = "store" => IsBusy(d) /\ ReadyWrites(d) # << >>
  BY NextKindIs
<1>2. /\ cpu_reserved' = (kind # "nothing")
      /\ \/ /\ kind = "load"
            /\ Submit(BurstRequest(ReadBurst(d)), AfterReadIssued(d), t, q)
         \/ /\ kind = "store"
            /\ Submit(BurstRequest(WriteBurst(d)), AfterWriteIssued(d), t, q)
         \/ kind = "nothing" /\ bursts' = t /\ in_flight' = q /\ dma' = d
  BY DEF Arbitrate
<1> HIDE DEF kind
<1>3. CASE /\ kind = "load"
           /\ Submit(BurstRequest(ReadBurst(d)), AfterReadIssued(d), t, q)
  BY <1>1, <1>2, <1>3, ReadIssuedSound
<1>4. CASE /\ kind = "store"
           /\ Submit(BurstRequest(WriteBurst(d)), AfterWriteIssued(d), t, q)
  BY <1>1, <1>2, <1>4, WriteIssuedSound
<1>5. CASE kind = "nothing" /\ bursts' = t /\ in_flight' = q /\ dma' = d
  BY <1>2, <1>5
<1> QED BY <1>2, <1>3, <1>4, <1>5

-----------------------------------------------------------------------------
(* Software.                                                               *)

(* The registers and the status bits may change behind a transfer, as long *)
(* as no status bit is set.                                                *)
LEMMA RegisterSound ==
  ASSUME NEW d, NEW q, NEW t, NEW m, NEW j, Sound(d, q, t, m, j), NEW x \in DmaType,
         x.active = d.active, x.transferred_words = d.transferred_words,
         x.done => d.done, x.error => d.error
  PROVE  Sound(x, q, t, m, j)
PROOF
<1>1. /\ Issued(x) = Issued(d) /\ ReadyWrites(x) = ReadyWrites(d) /\ (IsBusy(x) <=> IsBusy(d))
  BY DEF Issued, ReadyWrites, IsBusy
<1>2. Counted(x, j) = Counted(d, j)
  BY DEF Counted
<1>3. ASSUME Running(d, q, t, m, j) PROVE Running(x, q, t, m, j)
  <2>1. \A c, i : /\ IsPiece(x, c, i) <=> IsPiece(d, c, i)
                  /\ Lo(x, c, i) = Lo(d, c, i) /\ Hi(x, c, i) = Hi(d, c, i)
    BY <1>1 DEF IsPiece, Lo, Hi
  <2>2. \A w : Reached(d, j, w) => Reached(x, j, w)
    BY <1>2, <2>1 DEF Reached
  <2>3. Layout(x, j)
    BY <1>2, <1>3, <2>1, <2>2 DEF Running, Layout, Ordered
  <2>4. Matches(x, q, t, j)
    BY <1>1, <1>3 DEF Running, Matches
  <2>5. Buffered(x, j)
    BY <1>1, <1>3 DEF Running, Buffered
  <2>6. CountedCopied(x, m, j)
    BY <1>2, <1>3 DEF Running, InMemory, CountedCopied
  <2>7. \A w : Touched(d, j, w) => Touched(x, j, w)
    BY <1>1, <1>2 DEF Touched
  <2>8. InMemory(x, q, t, m, j)
    BY <1>1, <1>3, <2>6, <2>7 DEF Running, InMemory
  <2> QED BY <2>3, <2>4, <2>5, <2>8 DEF Running
<1>4. ASSUME Stopped(d, t, m, j) PROVE Stopped(x, t, m, j)
  <2>1. CountedCopied(x, m, j)
    BY <1>2, <1>4 DEF Stopped, CountedCopied
  <2> QED BY <1>2, <1>4, <2>1 DEF Stopped
<1>5. Status(x, j)
  BY <1>1 DEF Sound, Status
<1> QED BY <1>1, <1>3, <1>4, <1>5 DEF Sound, Typed, Followed

(* Nothing is under way at power on.                                       *)
LEMMA PowerOnSound ==
  ASSUME NEW m \in [Words -> Values]
  PROVE  Sound(PowerOnDma, << >>, << >>, m, NoTransfer)
PROOF
<1>1. PowerOnDma \in DmaType /\ PowerOnDma.done = FALSE /\ ~IsBusy(PowerOnDma)
  BY DEF PowerOnDma, DmaType, IsBusy
<1>2. TableOK(<< >>) /\ << >> \in Seq(FlightType)
  BY DEF TableOK
<1>3. Linked(<< >>, << >>)
  BY DEF Linked, Distinct
<1>4. Status(PowerOnDma, NoTransfer)
  BY <1>1 DEF Status
<1> QED BY <1>1, <1>2, <1>3, <1>4 DEF Sound, Typed

Acknowledged(d, bits) ==
  [d EXCEPT !.irq_enabled = "irq" \in bits,
            !.done = @ /\ "done" \notin bits,
            !.error = @ /\ "error" \notin bits]

LEMMA AcknowledgedIs ==
  ASSUME NEW d \in DmaType, NEW bits
  PROVE  LET x == Acknowledged(d, bits)
         IN  /\ x \in DmaType /\ x.active = d.active
             /\ x.transferred_words = d.transferred_words
             /\ (x.done => d.done) /\ (x.error => d.error)
             /\ x.source = d.source /\ x.destination = d.destination
             /\ x.length_words = d.length_words
             /\ ApplyControlByte(d, bits) =
                  IF "start" \in bits THEN StartTransfer(x) ELSE x
PROOF
<1> DEFINE x == Acknowledged(d, bits)
           irq == "irq" \in bits
           done == d.done /\ "done" \notin bits
           error == d.error /\ "error" \notin bits
<1>1. irq \in BOOLEAN /\ done \in BOOLEAN /\ error \in BOOLEAN /\ (done => d.done)
      /\ (error => d.error)
  OBVIOUS
<1>2. x = [d EXCEPT !.irq_enabled = irq, !.done = done, !.error = error]
  BY DEF Acknowledged
<1>3. ApplyControlByte(d, bits) = IF "start" \in bits THEN StartTransfer(x) ELSE x
  BY DEF ApplyControlByte, Acknowledged
<1> HIDE DEF x, irq, done, error
<1>4. x \in DmaType
  BY <1>1, <1>2 DEF DmaType
<1>5. /\ x.active = d.active /\ x.transferred_words = d.transferred_words
      /\ x.done = done /\ x.error = error /\ x.source = d.source
      /\ x.destination = d.destination /\ x.length_words = d.length_words
  BY <1>2 DEF DmaType
<1> QED BY <1>1, <1>3, <1>4, <1>5 DEF x

Plan(d) ==
  [next_source |-> d.source, next_destination |-> d.destination,
   remaining_words |-> d.length_words, ready_writes |-> << >>, issued_requests |-> << >>]

LEMMA StartTransferIs ==
  ASSUME NEW d \in DmaType, ~IsBusy(d)
  PROVE  LET x == StartTransfer(d)
         IN  /\ x \in DmaType /\ x.transferred_words = 0 /\ x.done = FALSE
             /\ d.length_words = 0 => ~IsBusy(x)
             /\ d.length_words # 0 => IsBusy(x) /\ x.active = Plan(d) /\ x.error = FALSE
             /\ d.source \in Nat /\ d.destination \in Nat /\ d.length_words \in Nat
PROOF
<1> DEFINE x == StartTransfer(d)
           a == IF d.length_words = 0 THEN NoTransfer ELSE Plan(d)
           error == d.length_words = 0
<1>1. d.source \in Nat /\ d.destination \in Nat /\ d.length_words \in Nat
  BY DEF DmaType
<1>2. Plan(d) \in TransferType
  BY <1>1 DEF Plan, TransferType
<1>3. x = [d EXCEPT !.done = FALSE, !.error = error, !.transferred_words = 0, !.active = a]
  BY DEF StartTransfer, Plan
<1>4. /\ a \in TransferType \cup {NoTransfer} /\ error \in BOOLEAN
      /\ (d.length_words = 0 => a = NoTransfer)
      /\ (d.length_words # 0 => a = Plan(d) /\ error = FALSE)
  BY <1>2
<1> HIDE DEF x, a, error
<1>5. /\ x \in DmaType /\ x.active = a /\ x.error = error /\ x.done = FALSE
      /\ x.transferred_words = 0
  BY <1>3, <1>4 DEF DmaType
<1>6. /\ d.length_words = 0 => ~IsBusy(x)
      /\ d.length_words # 0 => IsBusy(x)
  BY <1>2, <1>4, <1>5, SystemAssumption DEF IsBusy
<1> QED BY <1>1, <1>4, <1>5, <1>6 DEF x

(* A transfer begins.                                                      *)
LEMMA StartSound ==
  ASSUME NEW d, NEW q, NEW t, NEW m, NEW k, Sound(d, q, t, m, k), ~IsBusy(d),
         NEW fresh \in BOOLEAN, fresh => q = << >>
  PROVE  LET j == [source |-> d.source, destination |-> d.destination,
                   length |-> d.length_words, before |-> m, fresh |-> fresh]
         IN  Sound(StartTransfer(d), q, t, m, j)
PROOF
<1> DEFINE j == [source |-> d.source, destination |-> d.destination,
                 length |-> d.length_words, before |-> m, fresh |-> fresh]
           x == StartTransfer(d)
<1>1. d \in DmaType /\ m \in [Words -> Values] /\ q \in Seq(FlightType) /\ Linked(q, t)
  BY DEF Sound, Typed
<1>2. /\ x \in DmaType /\ x.transferred_words = 0 /\ x.done = FALSE
      /\ d.length_words = 0 => ~IsBusy(x)
      /\ d.length_words # 0 => IsBusy(x) /\ x.active = Plan(d) /\ x.error = FALSE
      /\ d.source \in Nat /\ d.destination \in Nat /\ d.length_words \in Nat
  BY <1>1, StartTransferIs
<1>3. /\ j \in JobType /\ j.source = d.source /\ j.destination = d.destination
      /\ j.length = d.length_words /\ j.before = m /\ j.fresh = fresh
  BY <1>1, <1>2 DEF JobType
<1>4. j # NoTransfer
  BY <1>3, SystemAssumption
<1> HIDE DEF j, x
<1>5. ASSUME fresh PROVE \A n \in DOMAIN t : FALSE
  <2>1. \A i \in DOMAIN q : FALSE
    BY <1>5
  <2> QED BY <1>1, <2>1 DEF Linked
<1>6. Counted(x, j) = j.destination /\ j.destination \in Nat
  BY <1>2, <1>3 DEF Counted
<1>7. CountedCopied(x, m, j)
  BY <1>6 DEF CountedCopied
<1>8. CASE d.length_words # 0
  <2>1. /\ x.active.next_source = d.source /\ x.active.next_destination = d.destination
        /\ x.active.remaining_words = d.length_words
        /\ ReadyWrites(x) = << >> /\ Issued(x) = << >>
    BY <1>2, <1>8 DEF Plan, ReadyWrites, Issued
  <2>2. ASSUME fresh PROVE Running(x, q, t, m, j)
    <3>1. \A c \in 0 .. 2, i \in Nat : ~IsPiece(x, c, i)
      BY <2>1 DEF IsPiece
    <3>2. Layout(x, j)
      BY <1>2, <1>3, <1>6, <2>1, <3>1 DEF Layout, Reached, Ordered
    <3>3. \A i \in DOMAIN q : FALSE
      BY <2>2
    <3>4. Matches(x, q, t, j)
      <4>1. Len(Issued(x)) = Len(q)
        BY <2>1, <2>2
      <4> QED BY <3>3, <4>1 DEF Matches
    <3>5. Buffered(x, j)
      BY <2>1 DEF Buffered
    <3>6. InMemory(x, q, t, m, j)
      BY <1>3, <1>7, <3>3 DEF InMemory
    <3> QED BY <3>2, <3>4, <3>5, <3>6 DEF Running
  <2>3. Status(x, j)
    BY <1>2, <1>4, <1>8 DEF Status
  <2> QED BY <1>2, <1>3, <1>8, <2>2, <2>3 DEF Sound, Typed, Followed, x, j
<1>9. CASE d.length_words = 0
  <2>1. ASSUME fresh PROVE Stopped(x, t, m, j)
    BY <1>2, <1>3, <1>5, <1>7, <1>9, <2>1 DEF Stopped
  <2>2. Status(x, j)
    BY <1>2, <1>9 DEF Status
  <2> QED BY <1>2, <1>3, <1>9, <2>1, <2>2 DEF Sound, Typed, Followed, x, j
<1> QED BY <1>8, <1>9

-----------------------------------------------------------------------------
(* The invariant is inductive. *)

LEMMA InitIInv == Init => IInv
PROOF
<1> SUFFICES ASSUME Init PROVE IInv
  OBVIOUS
<1>1. Sound(PowerOnDma, << >>, << >>, Image, NoTransfer)
  BY PowerOnSound, SystemAssumption
<1> QED BY <1>1 DEF Init, IInv

LEMMA RegisterStep ==
  ASSUME IInv, NEW x \in DmaType, WriteRegister(x), x.active = dma.active,
         x.transferred_words = dma.transferred_words, x.done = dma.done, x.error = dma.error
  PROVE  IInv'
PROOF
<1>1. Sound(x, in_flight, bursts, mem, job)
  BY RegisterSound DEF IInv
<1>2. /\ dma' = x /\ in_flight' = in_flight /\ bursts' = bursts /\ mem' = mem /\ job' = job
      /\ cpu_reserved' = cpu_reserved /\ started' = started
  BY DEF WriteRegister
<1>3. Sound(dma', in_flight', bursts', mem', job')
  BY <1>1, <1>2
<1> QED BY <1>2, <1>3 DEF IInv

LEMMA WriteControlStep == ASSUME IInv, WriteControl PROVE IInv'
PROOF
<1>1. PICK bits \in ControlWrites :
        LET starts == "start" \in bits /\ ~IsBusy(dma)
        IN  /\ dma' = ApplyControlByte(dma, bits)
            /\ started' = started + (IF starts THEN 1 ELSE 0)
            /\ job' = IF starts
                      THEN [source |-> dma.source, destination |-> dma.destination,
                            length |-> dma.length_words, before |-> mem,
                            fresh |-> in_flight = << >>]
                      ELSE job
            /\ UNCHANGED <<mem, bursts, in_flight, cpu_reserved>>
  BY DEF WriteControl
<1> DEFINE a == Acknowledged(dma, bits)
           starts == "start" \in bits /\ ~IsBusy(dma)
           fresh == in_flight = << >>
<1>2. dma \in DmaType /\ started \in Nat /\ cpu_reserved \in BOOLEAN
  BY DEF IInv, Sound, Typed
<1>3. /\ a \in DmaType /\ a.active = dma.active /\ a.transferred_words = dma.transferred_words
      /\ (a.done => dma.done) /\ (a.error => dma.error)
      /\ a.source = dma.source /\ a.destination = dma.destination
      /\ a.length_words = dma.length_words
      /\ ApplyControlByte(dma, bits) = IF "start" \in bits THEN StartTransfer(a) ELSE a
  BY <1>2, AcknowledgedIs
<1> HIDE DEF a
<1>4. Sound(a, in_flight, bursts, mem, job)
  BY <1>3, RegisterSound DEF IInv
<1>5. IsBusy(a) <=> IsBusy(dma)
  BY <1>3 DEF IsBusy
<1>6. started' \in Nat
  BY <1>1, <1>2
<1>7. mem' = mem /\ bursts' = bursts /\ in_flight' = in_flight /\ cpu_reserved' = cpu_reserved
  BY <1>1
<1>8. Sound(dma', in_flight, bursts, mem, job')
  <2>1. CASE starts
    <3> DEFINE j == [source |-> a.source, destination |-> a.destination,
                     length |-> a.length_words, before |-> mem, fresh |-> fresh]
    <3>1. dma' = StartTransfer(a) /\ job' = j
      BY <1>1, <1>3, <2>1
    <3>2. fresh \in BOOLEAN /\ (fresh => in_flight = << >>) /\ ~IsBusy(a)
      BY <1>5, <2>1
    <3>3. Sound(StartTransfer(a), in_flight, bursts, mem, j)
      <4> HIDE DEF fresh
      <4> QED BY <1>4, <3>2, StartSound
    <3> QED BY <3>1, <3>3
  <2>2. CASE ~starts
    <3>1. dma' = a /\ job' = job
      BY <1>1, <1>3, <1>5, <2>2 DEF StartTransfer
    <3> QED BY <1>4, <3>1
  <2> QED BY <2>1, <2>2
<1>9. Sound(dma', in_flight', bursts', mem', job')
  BY <1>7, <1>8
<1> QED BY <1>2, <1>6, <1>7, <1>9 DEF IInv

LEMMA TickStep == ASSUME IInv, Tick PROVE IInv'
PROOF
<1>1. PICK latency \in LatencyChoices(bursts) :
        /\ mem' = MemAfter(bursts, latency, mem, Len(bursts))
        /\ \E advanced \in {AdvanceAll(bursts, latency, mem)} :
           \E polled \in {Polled(advanced)} :
           \E engine \in {Responded(Delivered(polled))}, queue \in {Undelivered(polled)} :
             Arbitrate(engine, Untaken(advanced), queue)
        /\ UNCHANGED <<job, started>>
  BY DEF Tick
<1> DEFINE t == AdvanceAll(bursts, latency, mem)
           p == Polled(t)
           u == Untaken(t)
           d == Responded(Delivered(p))
           q == Undelivered(p)
           m == MemAfter(bursts, latency, mem, Len(bursts))
<1>2. Arbitrate(d, u, q) /\ mem' = m /\ job' = job /\ started' = started
  BY <1>1
<1>3. Sound(dma, in_flight, bursts, mem, job)
  BY DEF IInv
<1>4. Sound(dma, in_flight, t, m, job)
  BY <1>3, CycleSound
<1> HIDE DEF t, m
<1>5. Sound(dma, p, u, m, job)
  BY <1>4, PollSound
<1> HIDE DEF p, u
<1>6. Sound(d, q, u, m, job)
  BY <1>5, DeliverSound
<1> HIDE DEF d, q
<1>7. Sound(dma', in_flight', bursts', m, job) /\ cpu_reserved' \in BOOLEAN
  BY <1>2, <1>6, ArbitrateSound
<1>8. Sound(dma', in_flight', bursts', mem', job')
  BY <1>2, <1>7
<1>9. started' \in Nat
  BY <1>2 DEF IInv
<1> QED BY <1>7, <1>8, <1>9 DEF IInv

LEMMA NextIInv == IInv /\ [Next]_vars => IInv'
PROOF
<1> SUFFICES ASSUME IInv, [Next]_vars PROVE IInv'
  OBVIOUS
<1>0. dma \in DmaType
  BY DEF IInv, Sound, Typed
<1>1. CASE WriteSource
  <2>1. PICK a \in Sources : WriteRegister([dma EXCEPT !.source = a])
    BY <1>1 DEF WriteSource
  <2> DEFINE x == [dma EXCEPT !.source = a]
  <2>2. a \in Nat
    BY SystemAssumption
  <2>3. /\ x \in DmaType /\ x.active = dma.active /\ x.done = dma.done
        /\ x.transferred_words = dma.transferred_words /\ x.error = dma.error
    BY <1>0, <2>2 DEF DmaType
  <2> HIDE DEF x
  <2> QED BY <2>1, <2>3, RegisterStep DEF x
<1>2. CASE WriteDestination
  <2>1. PICK a \in Destinations : WriteRegister([dma EXCEPT !.destination = a])
    BY <1>2 DEF WriteDestination
  <2> DEFINE x == [dma EXCEPT !.destination = a]
  <2>2. a \in Nat
    BY SystemAssumption
  <2>3. /\ x \in DmaType /\ x.active = dma.active /\ x.done = dma.done
        /\ x.transferred_words = dma.transferred_words /\ x.error = dma.error
    BY <1>0, <2>2 DEF DmaType
  <2> HIDE DEF x
  <2> QED BY <2>1, <2>3, RegisterStep DEF x
<1>3. CASE WriteLength
  <2>1. PICK n \in Lengths : WriteRegister([dma EXCEPT !.length_words = n])
    BY <1>3 DEF WriteLength
  <2> DEFINE x == [dma EXCEPT !.length_words = n]
  <2>2. n \in Nat
    BY SystemAssumption
  <2>3. /\ x \in DmaType /\ x.active = dma.active /\ x.done = dma.done
        /\ x.transferred_words = dma.transferred_words /\ x.error = dma.error
    BY <1>0, <2>2 DEF DmaType
  <2> HIDE DEF x
  <2> QED BY <2>1, <2>3, RegisterStep DEF x
<1>4. CASE WriteControl
  BY <1>4, WriteControlStep
<1>5. CASE Tick
  BY <1>5, TickStep
<1>6. CASE Reset
  <2>1. Sound(PowerOnDma, << >>, << >>, PowerOnWords, NoTransfer)
    BY PowerOnSound, SystemAssumption
  <2> QED BY <1>6, <2>1 DEF Reset, IInv
<1>7. CASE UNCHANGED vars
  BY <1>7 DEF vars, IInv
<1> QED BY <1>1, <1>2, <1>3, <1>4, <1>5, <1>6, <1>7 DEF Next

LEMMA AlwaysIInv == Spec => []IInv
  BY InitIInv, NextIInv, PTL DEF Spec

-----------------------------------------------------------------------------
(* What it says of the properties of DmaSystem. *)

(* A transfer under way satisfies what holds of a stopped one, too.        *)
LEMMA FreshIsStopped ==
  ASSUME IInv, Undisturbed
  PROVE  job \in JobType /\ dma \in DmaType /\ Stopped(dma, bursts, mem, job)
PROOF
<1>1. /\ Sound(dma, in_flight, bursts, mem, job) /\ job # NoTransfer /\ job.fresh
  BY DEF IInv, Undisturbed
<1>2. job \in JobType /\ dma \in DmaType /\ Followed(dma, in_flight, bursts, mem, job)
  BY <1>1 DEF Sound, Typed
<1>3. CASE IsBusy(dma)
  <2>1. Running(dma, in_flight, bursts, mem, job) /\ ~dma.done
    BY <1>1, <1>2, <1>3 DEF Followed, Sound, Status
  <2> QED BY <1>1, <1>2, <1>3, <2>1, RunningStops
<1>4. CASE ~IsBusy(dma)
  BY <1>2, <1>4 DEF Followed
<1> QED BY <1>2, <1>3, <1>4

(* Every variable keeps its type: the engine's counters never underflow,   *)
(* and no burst is ever empty.                                             *)
THEOREM TypeCorrect == Spec => []TypeOK
PROOF
<1>1. IInv => TypeOK
  BY DEF IInv, Sound, Typed, TableOK, TypeOK
<1> QED BY <1>1, AlwaysIInv, PTL

(* Busy, done and error exclude each other, whatever software writes to    *)
(* the control byte and whenever answers arrive.                           *)
THEOREM StatusExclusive == Spec => []OneStatus
PROOF
<1>1. IInv => OneStatus
  BY DEF IInv, Sound, Status, OneStatus
<1> QED BY <1>1, AlwaysIInv, PTL

(* on_response pops the request the response is for: the engine's queue    *)
(* and the arbiter's name the same bursts in the same order.               *)
THEOREM QueuesStayAligned == Spec => []QueuesAgree
PROOF
<1>1. IInv => QueuesAgree
  <2> SUFFICES ASSUME IInv, IsBusy(dma), job.fresh
               PROVE  /\ Len(dma.active.issued_requests) = Len(in_flight)
                      /\ \A i \in DOMAIN in_flight :
                           in_flight[i].completion = None =>
                             SameBurst(dma.active.issued_requests[i],
                                       bursts[IndexOf(bursts, in_flight[i].id)].request)
    BY DEF QueuesAgree
  <2>1. /\ Sound(dma, in_flight, bursts, mem, job) /\ job # NoTransfer
    BY DEF IInv, Sound, Status
  <2>2. job \in JobType /\ dma \in DmaType /\ Matches(dma, in_flight, bursts, job)
        /\ in_flight \in Seq(FlightType) /\ Linked(in_flight, bursts)
    BY <2>1 DEF Sound, Typed, Followed, Running
  <2>3. Len(Issued(dma)) = Len(in_flight)
    BY <2>2 DEF Matches
  <2>4. ASSUME NEW i \in DOMAIN in_flight, in_flight[i].completion = None
        PROVE  SameBurst(Issued(dma)[i], bursts[IndexOf(bursts, in_flight[i].id)].request)
    <3> DEFINE n == IndexOf(bursts, in_flight[i].id)
               r == Issued(dma)[i]
               request == bursts[n].request
    <3>1. n \in DOMAIN bursts /\ bursts[n].id = in_flight[i].id
      BY <2>2, <2>4 DEF Linked, IndexOf
    <3> HIDE DEF n
    <3>2. OnBus(job, r, bursts[n])
      BY <2>2, <3>1 DEF Matches
    <3>3. i \in DOMAIN Issued(dma)
      <4>1. Issued(dma) \in Seq(IssuedType)
        BY <2>2, BusyType
      <4> QED BY <2>2, <2>3, <4>1
    <3>4. r.kind \in {"load", "store"} /\ r.destination \in Nat
      BY <2>2, <3>3, IssuedIs
    <3>5. job.source \in Nat /\ job.destination \in Nat
      BY <2>2, JobIs
    <3> HIDE DEF r
    <3>6. /\ request.kind = r.kind /\ Beats(request) = r.beats
          /\ r.kind = "store" => request.addr = r.destination
          /\ r.kind = "load" => request.addr = job.source + (r.destination - job.destination)
      BY <3>2 DEF OnBus
    <3> HIDE DEF request
    <3>7. r.kind = "load" => request.addr - job.source = r.destination - job.destination
      BY <3>4, <3>5, <3>6
    <3>8. SameBurst(r, request)
      BY <3>4, <3>6, <3>7 DEF SameBurst
    <3> QED BY <3>8 DEF r, request, n
  <2> QED BY <2>3, <2>4 DEF Issued
<1> QED BY <1>1, AlwaysIInv, PTL

(* A transfer that nothing was left over for writes only the words it was  *)
(* asked to write, also when it fails half way.                            *)
THEOREM TransfersStayInTarget == Spec => []WritesOnlyTarget
PROOF
<1>1. IInv => WritesOnlyTarget
  <2> SUFFICES ASSUME IInv, Undisturbed, NEW w \in Words \ Target(job)
               PROVE  mem[w] = job.before[w]
    BY DEF WritesOnlyTarget
  <2>1. job \in JobType /\ Stopped(dma, bursts, mem, job)
    BY FreshIsStopped
  <2>2. job.destination \in Nat /\ job.length \in Nat /\ w \in Nat
    BY <2>1, JobIs, DevicesAssumption
  <2>3. ~(job.destination <= w /\ w < job.destination + job.length)
    <3> SUFFICES ASSUME job.destination <= w, w < job.destination + job.length PROVE FALSE
      OBVIOUS
    <3>1. /\ w - job.destination \in 0 .. (job.length - 1)
          /\ w = job.destination + (w - job.destination)
      BY <2>2
    <3> QED BY <3>1 DEF Target
  <2> QED BY <2>1, <2>3 DEF Stopped
<1> QED BY <1>1, AlwaysIInv, PTL

(* Every word that transferred_words counts is in place, and done is only  *)
(* set when all are: for any length, burst size, read-ahead and latency.   *)
THEOREM CountedWordsAreThere == Spec => []CountedWordsArrived
PROOF
<1>1. IInv => CountedWordsArrived
  <2> SUFFICES ASSUME IInv, Undisturbed, ReadAheadSafe(job)
               PROVE  /\ Arrived(job, dma.transferred_words)
                      /\ dma.done => dma.transferred_words = job.length
    BY DEF CountedWordsArrived
  <2>1. job \in JobType /\ dma \in DmaType /\ Stopped(dma, bursts, mem, job)
    BY FreshIsStopped
  <2>2. job.destination \in Nat /\ job.source \in Nat /\ dma.transferred_words \in Nat
    BY <2>1, JobIs DEF DmaType
  <2>3. ASSUME NEW i \in 0 .. (dma.transferred_words - 1)
        PROVE  mem[job.destination + i] = job.before[job.source + i]
    <3> DEFINE w == job.destination + i
    <3>1. w \in Nat /\ job.destination <= w /\ w < Counted(dma, job) /\ w - job.destination = i
      BY <2>2 DEF Counted
    <3> HIDE DEF w
    <3>2. Copied(job, mem, w)
      BY <2>1, <3>1 DEF Stopped, CountedCopied
    <3>3. mem[w] = job.before[job.source + (w - job.destination)]
      BY <3>2 DEF Copied, Right
    <3> QED BY <3>1, <3>3 DEF w
  <2>4. Arrived(job, dma.transferred_words)
    BY <2>3 DEF Arrived
  <2> QED BY <2>1, <2>4 DEF Stopped
<1> QED BY <1>1, AlwaysIInv, PTL
=============================================================================
