---------------------------- MODULE CacheProofs ----------------------------
(***************************************************************************)
(* Proofs about SplitL1, and through it about Cache.                       *)
(*                                                                         *)
(* A bank is seen through Held(s, line), the copy it has of a line.  The   *)
(* invariant has two layers: Struct says how the bank, the pending         *)
(* operation, the burst, the polled access and the caller fit together and *)
(* holds always; Data says what the copies, the burst and the lower level  *)
(* hold, and needs Reliable.  Bank is what both banks share.               *)
(***************************************************************************)
EXTENDS SplitL1, TLAPS, NaturalsInduction, WellFoundedInduction

(* The lower bus takes every request, and a discard drops no line beyond   *)
(* its range: the line after it, which line_bases_for_range also gives, is *)
(* not cached.  The runs cache_refused and cache_neighbour show that       *)
(* stored words are lost without these.                                    *)
Reliable ==
  /\ ~MayRefuse
  /\ \A r \in Discards : Range(LineBasesForRange(r.start, r.len)) \cap CachedLines \subseteq LinesIn(r)

Shape(s) ==
  s = [config |-> s.config, sets |-> s.sets, pending |-> s.pending,
       maintenance |-> s.maintenance, mem |-> s.mem, burst |-> s.burst,
       access |-> s.access, weather |-> s.weather]

LinesTyped(c, b) ==
  /\ c \in Configs
  /\ b \in BankType(c)
  /\ \A set \in Sets(c) : IsInjective(b[set].last_used)

LinesApart(c, b) ==
  /\ \A set \in Sets(c), way \in Ways(c) :
       b[set].lines[way] # None => LineForTag(c, set, b[set].lines[way].tag) \in CachedLines
  /\ \A set \in Sets(c) : \A a, o \in Ways(c) :
       b[set].lines[a] # None /\ b[set].lines[o] # None
         /\ b[set].lines[a].tag = b[set].lines[o].tag => a = o

LinesOK(s) == LinesTyped(s.config, s.sets) /\ LinesApart(s.config, s.sets)

PendingOK(s) ==
  s.pending # None =>
    /\ s.pending \in PendingLineOp
    /\ s.pending.way \in Ways(s.config)
    /\ s.sets[SetOf(s.config, s.pending.line)].lines[s.pending.way] = None
    /\ Held(s, s.pending.line) = None
    /\ s.maintenance = None
    /\ s.pending.write_back # None =>
         /\ s.config.write_back
         /\ s.pending.write_back.line # s.pending.line
         /\ Held(s, s.pending.write_back.line) = None

BurstOK(s) ==
  s.burst # None =>
    /\ s.burst \in Bursts
    /\ s.pending # None /\ s.pending.write_back = None =>
         /\ s.burst.kind = "read" /\ s.burst.line = s.pending.line
         /\ s.burst.left = 0 => s.burst.words \in LineData
    /\ s.pending # None /\ s.pending.write_back # None =>
         /\ s.burst.kind = "write" /\ s.burst.line = s.pending.write_back.line
         /\ s.burst.words = s.pending.write_back.words
    /\ s.pending = None =>
         /\ s.maintenance # None
         /\ s.burst.kind = "write" /\ s.burst.line = Head(s.maintenance)
         /\ s.burst.words = Held(s, s.burst.line).words

Bank(s) == Shape(s) /\ s.mem \in [Words -> Values] /\ LinesOK(s) /\ PendingOK(s) /\ BurstOK(s)

StoringBy(k, w) == k # None /\ k.op = "store" /\ k.word = w

CallOK(k, F) ==
  /\ F \subseteq 0 .. (LineCount - 1)
  /\ k # None =>
       \/ /\ k.op = "load" /\ k.word \in Words /\ LineOf(k.word) \notin F
       \/ /\ k.op = "store" /\ k.word \in Words /\ LineOf(k.word) \notin F /\ k.value \in Values
       \/ /\ k.op = "clean" /\ \E r \in Cleans : k.start = r.start /\ k.len = r.len
       \/ /\ k.op = "discard" /\ \E r \in Discards : k.start = r.start /\ k.len = r.len

MaintenanceOK(s, k) ==
  s.maintenance # None =>
    /\ s.maintenance \in Seq(0 .. LineCount) /\ s.maintenance # << >>
    /\ k # None /\ k.op = "clean"
    /\ Head(s.maintenance) \in CachedLines
    /\ Held(s, Head(s.maintenance)) # None /\ Held(s, Head(s.maintenance)).dirty

AccessOK(s, k) ==
  s.access # None =>
    /\ s.access \in Accesses
    /\ k # None /\ k.op = s.access.kind /\ k.word = s.access.word
    /\ k.op = "store" => k.value = s.access.value
    /\ LineOf(k.word) \in CachedLines =>
         /\ k.op = "store" /\ s.pending = None
         /\ Held(s, LineOf(k.word)) # None => ~s.config.write_back
         /\ s.config.write_allocate => Held(s, LineOf(k.word)) # None

DirtyOK(s, F) ==
  /\ \A line \in CachedLines :
       Held(s, line) # None /\ Held(s, line).dirty => s.config.write_back /\ line \notin F
  /\ s.pending # None /\ s.pending.write_back # None => s.pending.write_back.line \notin F

Struct(s, k, F) ==
  Bank(s) /\ CallOK(k, F) /\ MaintenanceOK(s, k) /\ AccessOK(s, k) /\ DirtyOK(s, F)

CleanData(s, k, F) ==
  \A w \in Words :
    LineOf(w) \in CachedLines /\ LineOf(w) \notin F /\ Held(s, LineOf(w)) # None
      /\ ~Held(s, LineOf(w)).dirty
    => Held(s, LineOf(w)).words[Offset(w)] = s.mem[w] \/ StoringBy(k, w)

BurstData(s, F) ==
  s.burst # None /\ s.burst.left = 0 /\ s.burst.line \notin F =>
    \A w \in Words : LineOf(w) = s.burst.line => s.burst.words[Offset(w)] = s.mem[w]

AccessData(s) ==
  s.access # None /\ s.access.kind = "store" /\ s.access.left = 0 =>
    s.mem[s.access.word] = s.access.value

VisibleIn(s, w) ==
  IF LineOf(w) \in CachedLines /\ Held(s, LineOf(w)) # None
  THEN Held(s, LineOf(w)).words[Offset(w)]
  ELSE IF s.pending # None /\ s.pending.write_back # None /\ s.pending.write_back.line = LineOf(w)
  THEN s.pending.write_back.words[Offset(w)]
  ELSE s.mem[w]

WordData(s, k, L, F) ==
  \A w \in Words :
    /\ LineOf(w) \in F => s.mem[w] = L[w]
    /\ LineOf(w) \notin F => \/ VisibleIn(s, w) = L[w]
                             \/ StoringBy(k, w) /\ VisibleIn(s, w) = k.value

IsDirty(s, line) == Held(s, line) # None /\ Held(s, line).dirty

MaintenanceData(s, k) ==
  s.maintenance # None =>
    \A line \in CachedLines :
      line \in Range(LineBasesForRange(k.start, k.len)) /\ IsDirty(s, line) =>
        line \in Range(s.maintenance)

Data(s, k, L, F) ==
  /\ CleanData(s, k, F) /\ BurstData(s, F) /\ AccessData(s)
  /\ WordData(s, k, L, F) /\ MaintenanceData(s, k)

Good(s, k, L, F) ==
  Struct(s, k, F) /\ L \in [Words -> Values] /\ (Reliable => Data(s, k, L, F))

(* The instruction bank: t is the bank, f the fetch.                       *)
InstructionStruct(t, f, F) ==
  /\ Bank(t)
  /\ \A line \in CachedLines : ~IsDirty(t, line)
  /\ t.pending # None => t.pending.write_back = None
  /\ t.burst # None => t.pending # None
  /\ f # None => /\ f \in [word : Fetches, older : 0 .. OlderAccesses, attempted : BOOLEAN]
                 /\ LineOf(f.word) \notin F

MemCurrent(s, k, L, line) ==
  \A w \in Words : LineOf(w) = line => s.mem[w] = L[w] \/ StoringBy(k, w)

InstructionData(t, f, k, L, F) ==
  /\ \A w \in Words :
       LineOf(w) \in CachedLines /\ LineOf(w) \notin F /\ Held(t, LineOf(w)) # None =>
         Held(t, LineOf(w)).words[Offset(w)] = L[w] \/ StoringBy(k, w)
  /\ t.burst # None /\ t.burst.left = 0 /\ t.burst.line \notin F =>
       \A w \in Words : LineOf(w) = t.burst.line =>
         t.burst.words[Offset(w)] = L[w] \/ StoringBy(k, w)
  /\ t.pending # None /\ t.pending.line \notin F => MemCurrent(t, k, L, t.pending.line)
  /\ f # None => /\ MemCurrent(t, k, L, LineOf(f.word))
                 /\ t.config.write_back => \A w \in Words : LineOf(w) = LineOf(f.word) => ~StoringBy(k, w)

GoodInstruction(t, f, k, L, F) ==
  InstructionStruct(t, f, F) /\ (Reliable => InstructionData(t, f, k, L, F))

BankRecord(b) == b = [sets |-> b.sets, pending |-> b.pending, burst |-> b.burst]

CacheInv ==
  /\ Good(Now(None), call, latest, foreign)
  /\ attempted \in BOOLEAN
  /\ BankRecord(instruction)
  /\ GoodInstruction(Instruction(None), fetch, call, latest, foreign)

-----------------------------------------------------------------------------
(* Lines, words, sets and tags.                                            *)

(* Division with remainder.                                                *)
LEMMA DivMod ==
  ASSUME NEW a \in Nat, NEW m \in Nat \ {0}
  PROVE  /\ a \div m \in Nat /\ a % m \in 0 .. (m - 1)
         /\ a = (a \div m) * m + (a % m)
         /\ a \div m <= a
PROOF
<1>1. a \div m \in Nat /\ a % m \in 0 .. (m - 1) /\ a = m * (a \div m) + (a % m)
  <2>1. a \div m \in Nat
    OBVIOUS
  <2>2. a % m \in 0 .. (m - 1)
    OBVIOUS
  <2>3. a % m = a - m * (a \div m)
    OBVIOUS
  <2> DEFINE x == m * (a \div m)
             r == a % m
  <2>4. x \in Int /\ r \in Int /\ r = a - x
    BY <2>1, <2>2, <2>3
  <2> HIDE DEF x, r
  <2>5. a = x + r
    BY <2>4
  <2>6. a = m * (a \div m) + (a % m)
    BY ONLY <2>5, Zenon DEF x, r
  <2> QED BY <2>1, <2>2, <2>6, Zenon
<1> DEFINE q == a \div m
           r == a % m
<1>2. q \in Nat /\ r \in Nat /\ a = q * m + r
  BY <1>1
<1> HIDE DEF q, r
<1>3. q <= q * m
  BY <1>2
<1>4. q <= a
  <2> DEFINE x == q * m
  <2>1. x \in Nat
    BY <1>2
  <2>2. a = x + r /\ q <= x
    BY <1>2, <1>3
  <2> HIDE DEF x
  <2> QED BY <1>2, <2>1, <2>2
<1> QED BY <1>1, <1>2, <1>4 DEF q, r

(* Quotient and remainder are unique.                                      *)
LEMMA DivUnique ==
  ASSUME NEW m \in Nat \ {0}, NEW q \in Nat, NEW r \in 0 .. (m - 1),
         NEW p \in Nat, NEW o \in 0 .. (m - 1), q * m + r = p * m + o
  PROVE  q = p /\ r = o
PROOF
<1>1. ASSUME NEW x \in Nat, NEW y \in Nat, x < y PROVE x * m + m <= y * m
  <2>1. PICK d \in Nat : y = x + 1 + d
    <3>1. y - x - 1 \in Nat
      BY <1>1
    <3> QED BY <3>1
  <2>2. y * m = x * m + m + d * m
    BY <2>1
  <2>3. d * m >= 0 /\ d * m \in Nat /\ x * m \in Nat
    OBVIOUS
  <2> DEFINE z == d * m
             u == x * m
             v == y * m
  <2>4. v = u + m + z /\ z \in Nat /\ u \in Nat
    BY <2>2, <2>3
  <2> HIDE DEF z, u, v
  <2>5. u + m <= v
    BY <2>4
  <2> QED BY <2>5 DEF u, v
<1> DEFINE u == q * m
           v == p * m
<1>2. u \in Nat /\ v \in Nat /\ u + r = v + o
  OBVIOUS
<1>3. (q < p => u + m <= v) /\ (p < q => v + m <= u)
  BY <1>1
<1> HIDE DEF u, v
<1>4. q = p
  BY <1>2, <1>3
<1>5. u = v
  BY <1>4 DEF u, v
<1> QED BY <1>2, <1>4, <1>5

(* decode and line_base_for_tag are inverse.                               *)
LEMMA DecodeIs ==
  ASSUME NEW c \in CacheConfig, NEW line \in Nat
  PROVE  /\ SetOf(c, line) \in Sets(c) /\ TagOf(c, line) \in 0 .. line
         /\ LineForTag(c, SetOf(c, line), TagOf(c, line)) = line
PROOF
<1> DEFINE m == c.set_count
<1>1. m \in Nat \ {0}
  BY DEF CacheConfig
<1> HIDE DEF m
<1>2. /\ line \div m \in Nat /\ line % m \in 0 .. (m - 1)
      /\ line = (line \div m) * m + (line % m)
      /\ line \div m <= line
  BY <1>1, DivMod
<1> DEFINE q == line \div m
           r == line % m
<1>3. SetOf(c, line) = r /\ TagOf(c, line) = q /\ LineForTag(c, r, q) = q * m + r
  BY DEF SetOf, TagOf, LineForTag, m
<1>4. q \in Nat /\ q <= line /\ r \in 0 .. (m - 1) /\ line = q * m + r
  BY <1>2, Zenon
<1> HIDE DEF q, r
<1>5. q \in 0 .. line /\ r \in Sets(c)
  BY <1>4 DEF Sets, m
<1> QED BY <1>3, <1>4, <1>5

LEMMA LineForTagIs ==
  ASSUME NEW c \in CacheConfig, NEW set \in Sets(c), NEW tag \in Nat
  PROVE  /\ LineForTag(c, set, tag) \in Nat
         /\ SetOf(c, LineForTag(c, set, tag)) = set
         /\ TagOf(c, LineForTag(c, set, tag)) = tag
PROOF
<1> DEFINE m == c.set_count
           line == tag * m + set
<1>1. m \in Nat \ {0} /\ set \in 0 .. (m - 1)
  BY DEF CacheConfig, Sets
<1> HIDE DEF m
<1>2. line \in Nat
  BY <1>1
<1> HIDE DEF line
<1>3. /\ line \div m \in Nat /\ line % m \in 0 .. (m - 1)
      /\ line = (line \div m) * m + (line % m)
  BY <1>1, <1>2, DivMod
<1>4. line = tag * m + set
  BY DEF line
<1>5. line \div m = tag /\ line % m = set
  BY <1>1, <1>3, <1>4, DivUnique
<1>6. LineForTag(c, set, tag) = line
  BY <1>4 DEF LineForTag, m
<1> QED BY <1>2, <1>5, <1>6 DEF SetOf, TagOf, m

(* Two lines of one set have different tags.                               *)
LEMMA SameSetAndTag ==
  ASSUME NEW c \in CacheConfig, NEW a \in Nat, NEW b \in Nat,
         SetOf(c, a) = SetOf(c, b), TagOf(c, a) = TagOf(c, b)
  PROVE  a = b
PROOF
<1>1. LineForTag(c, SetOf(c, a), TagOf(c, a)) = a
  BY DecodeIs
<1>2. LineForTag(c, SetOf(c, b), TagOf(c, b)) = b
  BY DecodeIs
<1> QED BY <1>1, <1>2

LEMMA WordIs ==
  ASSUME NEW w \in Words
  PROVE  /\ w \in Nat /\ LineOf(w) \in 0 .. (LineCount - 1) /\ Offset(w) \in Offsets
         /\ w = LineOf(w) * LineWords + Offset(w)
PROOF
<1>1. w \in Nat /\ LineWords \in Nat \ {0} /\ LineCount \in Nat \ {0} /\ w < LineCount * LineWords
  BY CacheAssumption DEF Words
<1> DEFINE m == LineWords
           q == w \div m
           r == w % m
<1>2. q \in Nat /\ r \in 0 .. (m - 1) /\ w = q * m + r
  BY <1>1, DivMod
<1> HIDE DEF q, r
<1>3. q < LineCount
  <2> SUFFICES ASSUME q >= LineCount PROVE FALSE
    BY <1>1, <1>2
  <2> DEFINE x == q * m
             y == LineCount * m
  <2>1. PICK d \in Nat : q = LineCount + d
    <3>1. q - LineCount \in Nat
      BY <1>1, <1>2
    <3> QED BY <1>1, <1>2, <3>1
  <2>2. x = y + d * m /\ d * m \in Nat
    BY <1>1, <2>1
  <2>3. x \in Nat /\ y \in Nat /\ w = x + r /\ w < y
    BY <1>1, <1>2
  <2> DEFINE z == d * m
  <2>4. x = y + z /\ z \in Nat
    BY <2>2
  <2> HIDE DEF x, y, z
  <2> QED BY <1>2, <2>3, <2>4
<1> QED BY <1>1, <1>2, <1>3 DEF LineOf, Offset, Offsets, q, r

LEMMA WordAt ==
  ASSUME NEW line \in 0 .. (LineCount - 1), NEW n \in Offsets
  PROVE  /\ line * LineWords + n \in Words
         /\ LineOf(line * LineWords + n) = line /\ Offset(line * LineWords + n) = n
PROOF
<1> DEFINE m == LineWords
           w == line * m + n
<1>1. m \in Nat \ {0} /\ LineCount \in Nat \ {0} /\ n \in 0 .. (m - 1) /\ line \in Nat
  BY CacheAssumption DEF Offsets
<1> HIDE DEF m
<1>2. w \in Nat
  BY <1>1
<1>3. w < LineCount * m
  <2>1. PICK d \in Nat : LineCount = line + 1 + d
    <3>1. LineCount - line - 1 \in Nat
      BY <1>1
    <3> QED BY <1>1, <3>1
  <2>2. LineCount * m = line * m + m + d * m /\ d * m \in Nat /\ line * m \in Nat
    BY <1>1, <2>1
  <2> DEFINE x == line * m
             y == LineCount * m
             z == d * m
  <2>3. y = x + m + z /\ z \in Nat /\ x \in Nat
    BY <2>2
  <2> HIDE DEF x, y, z
  <2>4. x + n < y
    BY <1>1, <2>3
  <2> QED BY <2>4 DEF x, y
<1>4. w = line * m + n
  OBVIOUS
<1> HIDE DEF w
<1>5. /\ w \div m \in Nat /\ w % m \in 0 .. (m - 1)
      /\ w = (w \div m) * m + (w % m)
  BY <1>1, <1>2, DivMod
<1>6. w \div m = line /\ w % m = n
  BY <1>1, <1>4, <1>5, DivUnique
<1>7. w \in Words
  <2> DEFINE y == LineCount * m
  <2>1. y \in Nat /\ w < y
    BY <1>1, <1>3
  <2> HIDE DEF y
  <2>2. w \in 0 .. (y - 1)
    BY <1>2, <2>1
  <2> QED BY <2>2 DEF Words, y, m
<1> QED BY <1>4, <1>6, <1>7 DEF LineOf, Offset, w, m

-----------------------------------------------------------------------------
(* What a bank holds of a line.                                            *)

LEMMA ConfigIs ==
  ASSUME NEW c \in Configs
  PROVE  /\ c \in CacheConfig
         /\ c.set_count \in Nat \ {0} /\ c.way_count \in Nat \ {0} /\ c.write_back \in BOOLEAN
         /\ c.write_allocate \in BOOLEAN /\ c.lru \in BOOLEAN
         /\ 0 \in Sets(c) /\ 0 \in Ways(c)
         /\ \A line \in CachedLines : line \in Nat /\ line \in 0 .. (LineCount - 1)
PROOF
<1>1. c \in CacheConfig
  BY CacheAssumption
<1>2. c.set_count \in Nat \ {0} /\ c.way_count \in Nat \ {0} /\ c.write_back \in BOOLEAN
         /\ c.write_allocate \in BOOLEAN /\ c.lru \in BOOLEAN
  BY <1>1 DEF CacheConfig
<1>3. \A line \in CachedLines : line \in Nat /\ line \in 0 .. (LineCount - 1)
  BY CacheAssumption
<1> QED BY <1>1, <1>2, <1>3 DEF Sets, Ways

(* The line of a set that a way holds.                                     *)
LEMMA WayIs ==
  ASSUME NEW c, NEW b, LinesTyped(c, b), NEW set \in Sets(c), NEW way \in Ways(c)
  PROVE  b[set].lines[way] \in CacheLine \cup {None}
PROOF
<1>1. b[set] \in [lines : [Ways(c) -> CacheLine \cup {None}], next_victim : Ways(c),
                  last_used : [Ways(c) -> Ways(c)]]
  BY DEF LinesTyped, BankType
<1>2. b[set].lines \in [Ways(c) -> CacheLine \cup {None}]
  BY <1>1
<1> QED BY <1>2

LEMMA HeldIs ==
  ASSUME NEW s, LinesOK(s), NEW line \in CachedLines
  PROVE  /\ Held(s, line) \in CacheLine \cup {None}
         /\ \A way \in Ways(s.config) :
              s.sets[SetOf(s.config, line)].lines[way] # None
                /\ s.sets[SetOf(s.config, line)].lines[way].tag = TagOf(s.config, line)
              => /\ Held(s, line) = s.sets[SetOf(s.config, line)].lines[way]
                 /\ LookupWay(s, line) = way
         /\ Held(s, line) # None =>
              /\ LookupWay(s, line) \in Ways(s.config)
              /\ Held(s, line) = s.sets[SetOf(s.config, line)].lines[LookupWay(s, line)]
              /\ Held(s, line).tag = TagOf(s.config, line)
         /\ Held(s, line) = None <=> Resident(s, line) = {}
         /\ \A a, o \in Resident(s, line) : a = o
PROOF
<1> DEFINE c == s.config
           set == SetOf(c, line)
           tag == TagOf(c, line)
           lines == s.sets[set].lines
           R == Resident(s, line)
<1>1. c \in Configs /\ c \in CacheConfig /\ line \in Nat
  BY ConfigIs DEF LinesOK, LinesTyped
<1>2. set \in Sets(c) /\ tag \in Nat
  BY <1>1, DecodeIs
<1>3. \A way \in Ways(c) : lines[way] \in CacheLine \cup {None}
  BY <1>2, WayIs DEF LinesOK
<1>4. R = {way \in Ways(c) : lines[way] # None /\ lines[way].tag = tag}
  BY DEF Resident
<1>5. \A a, o \in R : a = o
  BY <1>2, <1>4 DEF LinesOK, LinesApart
<1>6. R \subseteq Nat
  BY <1>1, <1>4, ConfigIs DEF Ways
<1>7. LookupWay(s, line) = CHOOSE way \in R : \A o \in R : way <= o
  BY DEF LookupWay
<1>8. Held(s, line) = IF R = {} THEN None ELSE lines[LookupWay(s, line)]
  BY DEF Held
<1> HIDE DEF R, lines, tag, set, c
<1>9. ASSUME NEW way \in R PROVE LookupWay(s, line) = way
  <2>1. \A o \in R : way <= o
    BY <1>5, <1>6
  <2>2. LookupWay(s, line) \in R
    BY <1>7, <2>1
  <2> QED BY <1>5, <2>2
<1>10. ASSUME NEW way \in R PROVE Held(s, line) = lines[way] /\ Held(s, line) # None
         /\ Held(s, line).tag = tag /\ way \in Ways(c) /\ Held(s, line) \in CacheLine
  BY <1>3, <1>4, <1>8, <1>9, <1>10
<1>11. R = {} => Held(s, line) = None
  BY <1>8
<1>12. Held(s, line) \in CacheLine \cup {None}
  BY <1>10, <1>11
<1>13. \A way \in Ways(c) : lines[way] # None /\ lines[way].tag = tag
         => Held(s, line) = lines[way] /\ LookupWay(s, line) = way
  BY <1>4, <1>9, <1>10
<1>14. Held(s, line) # None => /\ LookupWay(s, line) \in Ways(c)
                               /\ Held(s, line) = lines[LookupWay(s, line)]
                               /\ Held(s, line).tag = tag
  <2> SUFFICES ASSUME R # {} PROVE /\ LookupWay(s, line) \in Ways(c)
                               /\ Held(s, line) = lines[LookupWay(s, line)]
                               /\ Held(s, line).tag = tag
    BY <1>11
  <2>1. PICK way \in R : TRUE
    OBVIOUS
  <2> QED BY <1>9, <1>10, <2>1
<1> QED BY <1>5, <1>10, <1>11, <1>12, <1>13, <1>14 DEF R, lines, tag, set, c

LEMMA HeldWay ==
  ASSUME NEW s, LinesOK(s), NEW line \in CachedLines, NEW way \in Ways(s.config),
         s.sets[SetOf(s.config, line)].lines[way] # None,
         s.sets[SetOf(s.config, line)].lines[way].tag = TagOf(s.config, line)
  PROVE  /\ Held(s, line) = s.sets[SetOf(s.config, line)].lines[way]
         /\ LookupWay(s, line) = way
PROOF
  BY HeldIs

(* The line in a way is the copy of its line.                              *)
LEMMA HeldAt ==
  ASSUME NEW s, LinesOK(s), NEW set \in Sets(s.config), NEW way \in Ways(s.config),
         s.sets[set].lines[way] # None
  PROVE  LET x == s.sets[set].lines[way]
             line == LineForTag(s.config, set, x.tag)
         IN  /\ x \in CacheLine /\ line \in CachedLines
             /\ SetOf(s.config, line) = set /\ TagOf(s.config, line) = x.tag
             /\ Held(s, line) = x /\ LookupWay(s, line) = way
PROOF
<1> DEFINE c == s.config
           x == s.sets[set].lines[way]
           line == LineForTag(c, set, x.tag)
<1>1. c \in CacheConfig
  BY ConfigIs DEF LinesOK, LinesTyped
<1>2. x \in CacheLine
  BY WayIs DEF LinesOK
<1>3. line \in CachedLines
  BY DEF LinesOK, LinesApart
<1>4. x.tag \in Nat
  BY <1>2, CacheAssumption DEF CacheLine
<1> HIDE DEF x
<1>5. SetOf(c, line) = set /\ TagOf(c, line) = x.tag
  BY <1>1, <1>4, LineForTagIs
<1>6. Held(s, line) = x /\ LookupWay(s, line) = way
  <2> HIDE DEF line
  <2> QED BY <1>3, <1>5, HeldIs DEF x
<1> QED BY <1>2, <1>3, <1>5, <1>6 DEF x

(* What is held depends on the sets alone.                                 *)
LEMMA HeldSame ==
  ASSUME NEW s, NEW t, t.config = s.config, t.sets = s.sets, NEW line
  PROVE  Held(t, line) = Held(s, line) /\ LookupWay(t, line) = LookupWay(s, line)
PROOF
<1>1. Resident(t, line) = Resident(s, line)
  BY DEF Resident
<1>2. LookupWay(t, line) = LookupWay(s, line)
  BY <1>1 DEF LookupWay
<1> QED BY <1>1, <1>2 DEF Held

(* A bank whose lines are those of another has the same copies.            *)
LEMMA HeldSameLines ==
  ASSUME NEW s, NEW t, LinesOK(s), t.config = s.config,
         \A set \in Sets(s.config) : t.sets[set].lines = s.sets[set].lines,
         NEW line \in CachedLines
  PROVE  Held(t, line) = Held(s, line) /\ LookupWay(t, line) = LookupWay(s, line)
PROOF
<1>0. SetOf(s.config, line) \in Sets(s.config)
  BY ConfigIs, DecodeIs DEF LinesOK, LinesTyped
<1>1. Resident(t, line) = Resident(s, line)
  BY <1>0 DEF Resident
<1>2. LookupWay(t, line) = LookupWay(s, line)
  BY <1>1 DEF LookupWay
<1> QED BY <1>0, <1>1, <1>2 DEF Held

(* A bank that differs from another in one way.                            *)
Put(s, t, set, way, x) ==
  /\ t.config = s.config
  /\ \A st \in Sets(s.config), wy \in Ways(s.config) :
       t.sets[st].lines[wy] = IF st = set /\ wy = way THEN x ELSE s.sets[st].lines[wy]

Fits(s, set, way, x) ==
  x # None =>
    /\ LineForTag(s.config, set, x.tag) \in CachedLines
    /\ \A wy \in Ways(s.config) :
         wy # way /\ s.sets[set].lines[wy] # None => s.sets[set].lines[wy].tag # x.tag

LEMMA PutLinesOK ==
  ASSUME NEW s, LinesOK(s), NEW t, NEW set \in Sets(s.config), NEW way \in Ways(s.config),
         NEW x \in CacheLine \cup {None}, Put(s, t, set, way, x), Fits(s, set, way, x),
         LinesTyped(t.config, t.sets)
  PROVE  LinesOK(t)
PROOF
<1>1. t.config = s.config
  BY DEF Put
<1>2. ASSUME NEW st \in Sets(s.config), NEW wy \in Ways(s.config), t.sets[st].lines[wy] # None
      PROVE  LineForTag(s.config, st, t.sets[st].lines[wy].tag) \in CachedLines
  BY <1>2 DEF Put, Fits, LinesOK, LinesApart
<1>3. ASSUME NEW st \in Sets(s.config), NEW a \in Ways(s.config), NEW o \in Ways(s.config),
             t.sets[st].lines[a] # None, t.sets[st].lines[o] # None,
             t.sets[st].lines[a].tag = t.sets[st].lines[o].tag
      PROVE  a = o
  <2>1. CASE st # set \/ (a # way /\ o # way)
    <3>1. t.sets[st].lines[a] = s.sets[st].lines[a] /\ t.sets[st].lines[o] = s.sets[st].lines[o]
      BY <2>1 DEF Put
    <3> QED BY <1>3, <3>1 DEF LinesOK, LinesApart
  <2>2. CASE st = set /\ a = way
    BY <1>3, <2>2 DEF Put, Fits
  <2>3. CASE st = set /\ o = way
    BY <1>3, <2>3 DEF Put, Fits
  <2> QED BY <2>1, <2>2, <2>3
<1>4. LinesApart(t.config, t.sets)
  BY <1>1, <1>2, <1>3 DEF LinesApart
<1> QED BY <1>4 DEF LinesOK

LEMMA PutHeld ==
  ASSUME NEW s, LinesOK(s), NEW t, NEW set \in Sets(s.config), NEW way \in Ways(s.config),
         NEW x \in CacheLine \cup {None}, Put(s, t, set, way, x), LinesOK(t), NEW line \in CachedLines
  PROVE  /\ x # None /\ line = LineForTag(s.config, set, x.tag) => Held(t, line) = x
         /\ ~(x # None /\ line = LineForTag(s.config, set, x.tag)) =>
              Held(t, line) = IF /\ s.sets[set].lines[way] # None
                                 /\ line = LineForTag(s.config, set, s.sets[set].lines[way].tag)
                              THEN None ELSE Held(s, line)
PROOF
<1> DEFINE c == s.config
           old == s.sets[set].lines[way]
           st == SetOf(c, line)
<1>1. c \in CacheConfig /\ line \in Nat /\ t.config = c /\ st \in Sets(c)
      /\ LineForTag(c, st, TagOf(c, line)) = line
  BY ConfigIs, DecodeIs DEF LinesOK, LinesTyped, Put
<1>2. t.sets[set].lines[way] = x
  BY DEF Put
<1>3. ASSUME x # None, line = LineForTag(c, set, x.tag) PROVE Held(t, line) = x
  BY <1>1, <1>2, <1>3, HeldAt
<1>4. ASSUME ~(x # None /\ line = LineForTag(c, set, x.tag)), Held(t, line) # None
      PROVE  /\ Held(t, line) = Held(s, line)
             /\ ~(old # None /\ line = LineForTag(c, set, old.tag))
  <2> DEFINE wy == LookupWay(t, line)
  <2>1. wy \in Ways(c) /\ Held(t, line) = t.sets[st].lines[wy] /\ Held(t, line).tag = TagOf(c, line)
    BY <1>1, <1>4, HeldIs
  <2>2. ~(st = set /\ wy = way)
    BY <1>1, <1>2, <1>4, <2>1
  <2>3. t.sets[st].lines[wy] = s.sets[st].lines[wy]
    BY <1>1, <2>1, <2>2 DEF Put
  <2>4. Held(s, line) = s.sets[st].lines[wy] /\ LookupWay(s, line) = wy
    BY <1>1, <1>4, <2>1, <2>3, HeldWay
  <2>5. ASSUME old # None, line = LineForTag(c, set, old.tag) PROVE FALSE
    <3>1. SetOf(c, line) = set /\ LookupWay(s, line) = way
      BY <2>5, HeldAt
    <3> QED BY <2>2, <2>4, <3>1
  <2> QED BY <2>1, <2>3, <2>4, <2>5
<1>5. ASSUME ~(x # None /\ line = LineForTag(c, set, x.tag)), Held(t, line) = None,
             Held(s, line) # None
      PROVE  old # None /\ line = LineForTag(c, set, old.tag)
  <2> DEFINE wy == LookupWay(s, line)
  <2>1. wy \in Ways(c) /\ Held(s, line) = s.sets[st].lines[wy] /\ Held(s, line).tag = TagOf(c, line)
    BY <1>1, <1>5, HeldIs
  <2>2. CASE st = set /\ wy = way
    BY <1>1, <1>5, <2>1, <2>2
  <2>3. CASE ~(st = set /\ wy = way)
    <3>1. t.sets[st].lines[wy] = s.sets[st].lines[wy]
      BY <1>1, <2>1, <2>3 DEF Put
    <3>2. Held(t, line) = t.sets[st].lines[wy]
      BY <1>1, <1>5, <2>1, <3>1, HeldWay
    <3> QED BY <1>5, <2>1, <3>1, <3>2
  <2> QED BY <2>2, <2>3
<1> QED BY <1>3, <1>4, <1>5

-----------------------------------------------------------------------------
(* The steps of a bank, one by one.                                        *)

(* Banks that differ in their sets only.                                   *)
SameBeside(s, t) ==
  /\ Shape(t)
  /\ t.config = s.config /\ t.pending = s.pending /\ t.maintenance = s.maintenance
  /\ t.mem = s.mem /\ t.burst = s.burst /\ t.access = s.access /\ t.weather = s.weather

LEMMA SetsUpdated ==
  ASSUME NEW s, Shape(s), NEW b
  PROVE  SameBeside(s, [s EXCEPT !.sets = b]) /\ [s EXCEPT !.sets = b].sets = b
PROOF
  BY DEF Shape, SameBeside

(* One set is replaced.                                                    *)
LEMMA OneSet ==
  ASSUME NEW c, NEW b, LinesTyped(c, b), NEW set \in Sets(c),
         NEW lines \in [Ways(c) -> CacheLine \cup {None}], NEW next \in Ways(c),
         NEW used \in [Ways(c) -> Ways(c)], IsInjective(used)
  PROVE  LET r == [lines |-> lines, next_victim |-> next, last_used |-> used]
             d == [b EXCEPT ![set] = r]
         IN  /\ LinesTyped(c, d)
             /\ d[set].lines = lines
             /\ \A st \in Sets(c) : st # set => d[st] = b[st]
PROOF
<1> DEFINE r == [lines |-> lines, next_victim |-> next, last_used |-> used]
           T == [lines : [Ways(c) -> CacheLine \cup {None}], next_victim : Ways(c),
                 last_used : [Ways(c) -> Ways(c)]]
           d == [b EXCEPT ![set] = r]
<1>1. r \in T /\ b \in [Sets(c) -> T] /\ r.lines = lines /\ r.last_used = used
  BY DEF LinesTyped, BankType
<1> HIDE DEF T, r
<1>2. d \in [Sets(c) -> T] /\ d[set] = r /\ \A st \in Sets(c) : st # set => d[st] = b[st]
  BY <1>1
<1> HIDE DEF d
<1>3. \A st \in Sets(c) : IsInjective(d[st].last_used)
  BY <1>1, <1>2 DEF LinesTyped
<1>4. d \in BankType(c)
  BY <1>2 DEF BankType, T
<1>5. LinesTyped(c, d)
  BY <1>3, <1>4 DEF LinesTyped
<1> QED BY <1>1, <1>2, <1>5 DEF d, r

LEMMA SetIs ==
  ASSUME NEW c, NEW b, LinesTyped(c, b), NEW set \in Sets(c)
  PROVE  /\ b[set] \in [lines : [Ways(c) -> CacheLine \cup {None}], next_victim : Ways(c),
                        last_used : [Ways(c) -> Ways(c)]]
         /\ b[set] = [lines |-> b[set].lines, next_victim |-> b[set].next_victim,
                      last_used |-> b[set].last_used]
         /\ b[set].lines \in [Ways(c) -> CacheLine \cup {None}]
         /\ b[set].next_victim \in Ways(c)
         /\ b[set].last_used \in [Ways(c) -> Ways(c)]
         /\ IsInjective(b[set].last_used)
         /\ DOMAIN b = Sets(c) /\ b = [st \in Sets(c) |-> b[st]]
PROOF
<1>1. b[set] \in [lines : [Ways(c) -> CacheLine \cup {None}], next_victim : Ways(c),
                        last_used : [Ways(c) -> Ways(c)]]
  BY DEF LinesTyped, BankType
<1>2. DOMAIN b = Sets(c) /\ b = [st \in Sets(c) |-> b[st]]
  BY DEF LinesTyped, BankType
<1>3. IsInjective(b[set].last_used)
  BY DEF LinesTyped
<1> QED BY <1>1, <1>2, <1>3

(* The ranks of a set after a way has been touched.                        *)
LEMMA RanksKept ==
  ASSUME NEW N \in Nat \ {0}, NEW f \in [0 .. (N - 1) -> 0 .. (N - 1)], IsInjective(f),
         NEW way \in 0 .. (N - 1)
  PROVE  LET g == [o \in 0 .. (N - 1) |->
                     IF o = way THEN N - 1 ELSE IF f[o] > f[way] THEN f[o] - 1 ELSE f[o]]
         IN  g \in [0 .. (N - 1) -> 0 .. (N - 1)] /\ IsInjective(g)
PROOF
<1> DEFINE D == 0 .. (N - 1)
           g == [o \in D |-> IF o = way THEN N - 1 ELSE IF f[o] > f[way] THEN f[o] - 1 ELSE f[o]]
<1>1. \A o \in D : g[o] = IF o = way THEN N - 1 ELSE IF f[o] > f[way] THEN f[o] - 1 ELSE f[o]
  OBVIOUS
<1>2. \A o \in D : f[o] \in Nat /\ f[o] <= N - 1
  OBVIOUS
<1>3. \A a, b \in D : f[a] = f[b] => a = b
  BY DEF IsInjective
<1>4. ASSUME NEW o \in D PROVE g[o] \in D
  <2> DEFINE x == f[o]
             z == f[way]
  <2>1. x \in Nat /\ z \in Nat /\ x <= N - 1
    BY <1>2
  <2>2. g[o] = IF o = way THEN N - 1 ELSE IF x > z THEN x - 1 ELSE x
    BY <1>1
  <2> HIDE DEF x, z, g
  <2>3. CASE o = way
    BY <2>2, <2>3
  <2>4. CASE o # way /\ x > z
    BY <2>1, <2>2, <2>4
  <2>5. CASE o # way /\ ~(x > z)
    BY <2>1, <2>2, <2>5
  <2> QED BY <2>3, <2>4, <2>5
<1>5. ASSUME NEW a \in D, NEW b \in D, g[a] = g[b], a # b PROVE FALSE
  <2> DEFINE x == f[a]
             y == f[b]
             z == f[way]
  <2>1. /\ x \in Nat /\ y \in Nat /\ z \in Nat /\ x <= N - 1 /\ y <= N - 1 /\ z <= N - 1
        /\ x # y /\ (a # way => x # z) /\ (b # way => y # z)
    BY <1>2, <1>3, <1>5
  <2>2. /\ g[a] = IF a = way THEN N - 1 ELSE IF x > z THEN x - 1 ELSE x
        /\ g[b] = IF b = way THEN N - 1 ELSE IF y > z THEN y - 1 ELSE y
    BY <1>1
  <2> DEFINE p == g[a]
             q == g[b]
  <2>3. p = q /\ a # b /\ p \in Nat /\ q \in Nat
    BY <1>4, <1>5
  <2> HIDE DEF x, y, z, g, p, q
  <2>4. CASE a = way
    <3>1. p = N - 1 /\ b # way /\ (y > z => q = y - 1) /\ (~(y > z) => q = y)
      BY <2>2, <2>3, <2>4 DEF p, q
    <3> QED BY <2>1, <2>3, <3>1
  <2>5. CASE b = way
    <3>1. q = N - 1 /\ a # way /\ (x > z => p = x - 1) /\ (~(x > z) => p = x)
      BY <2>2, <2>3, <2>5 DEF p, q
    <3> QED BY <2>1, <2>3, <3>1
  <2>6. CASE a # way /\ b # way
    <3>1. /\ (x > z => p = x - 1) /\ (~(x > z) => p = x)
          /\ (y > z => q = y - 1) /\ (~(y > z) => q = y)
      BY <2>2, <2>6 DEF p, q
    <3> QED BY <2>1, <2>3, <2>6, <3>1
  <2> QED BY <2>4, <2>5, <2>6
<1>6. g \in [D -> D] /\ DOMAIN g = D
  BY <1>4
<1> HIDE DEF g
<1>7. IsInjective(g)
  BY <1>5, <1>6 DEF IsInjective
<1> QED BY <1>6, <1>7 DEF g

(* Touching a line changes the ranks of its set only.                      *)
LEMMA TouchIs ==
  ASSUME NEW s, Shape(s), LinesOK(s), NEW set \in Sets(s.config), NEW way \in Ways(s.config)
  PROVE  LET t == TouchLine(s, set, way)
         IN  /\ SameBeside(s, t) /\ LinesOK(t)
             /\ \A st \in Sets(s.config) : t.sets[st].lines = s.sets[st].lines
             /\ \A line \in CachedLines : Held(t, line) = Held(s, line)
PROOF
<1> DEFINE c == s.config
           N == c.way_count
           t == TouchLine(s, set, way)
           b == s.sets
           f == b[set].last_used
           g == [o \in Ways(c) |->
                     IF o = way THEN N - 1 ELSE IF f[o] > f[way] THEN f[o] - 1 ELSE f[o]]
           r == [lines |-> b[set].lines, next_victim |-> b[set].next_victim, last_used |-> g]
           d == [b EXCEPT ![set] = r]
<1>1. LinesTyped(c, b) /\ c \in Configs
  BY DEF LinesOK, LinesTyped
<1>2. /\ b[set] = [lines |-> b[set].lines, next_victim |-> b[set].next_victim,
                      last_used |-> b[set].last_used]
      /\ b[set].lines \in [Ways(c) -> CacheLine \cup {None}]
      /\ b[set].next_victim \in Ways(c)
      /\ f \in [Ways(c) -> Ways(c)] /\ IsInjective(f) /\ DOMAIN b = Sets(c)
  BY <1>1, SetIs
<1>3. g \in [Ways(c) -> Ways(c)] /\ IsInjective(g)
  <2>1. N \in Nat \ {0}
    BY <1>1, ConfigIs
  <2>2. Ways(c) = 0 .. (N - 1)
    BY DEF Ways
  <2> DEFINE D == 0 .. (N - 1)
             h == [o \in D |-> IF o = way THEN N - 1 ELSE IF f[o] > f[way] THEN f[o] - 1 ELSE f[o]]
  <2>3. g = h
    BY <2>2
  <2>4. f \in [D -> D] /\ way \in D /\ IsInjective(f)
    BY <1>2, <2>2
  <2> HIDE DEF N, f, c
  <2>5. h \in [D -> D] /\ IsInjective(h)
    BY <2>1, <2>4, RanksKept
  <2> HIDE DEF h, g, D
  <2>6. Ways(c) = D
    BY <2>2 DEF D
  <2> QED BY <2>3, <2>5, <2>6
<1>4. t = [s EXCEPT !.sets = d]
  <2>1. t = [s EXCEPT !.sets[set].last_used = g]
    BY DEF TouchLine
  <2>2. [b[set] EXCEPT !.last_used = g] = r
    BY <1>2
  <2>3. [s EXCEPT !.sets[set].last_used = g]
          = [s EXCEPT !.sets = [b EXCEPT ![set] = [b[set] EXCEPT !.last_used = g]]]
    BY DEF Shape
  <2> HIDE DEF g, r, t
  <2> QED BY <2>1, <2>2, <2>3
<1> HIDE DEF g
<1>5. /\ LinesTyped(c, d) /\ d[set].lines = b[set].lines
      /\ \A st \in Sets(c) : st # set => d[st] = b[st]
  BY <1>1, <1>2, <1>3, OneSet
<1>6. SameBeside(s, t) /\ t.sets = d
  <2> HIDE DEF d, t
  <2> QED BY <1>4, SetsUpdated
<1> HIDE DEF d, t
<1>7. \A st \in Sets(c) : t.sets[st].lines = s.sets[st].lines
  BY <1>5, <1>6
<1>8. LinesOK(t)
  <2>1. LinesApart(c, t.sets)
    BY <1>7 DEF LinesOK, LinesApart
  <2> QED BY <1>5, <1>6, <2>1 DEF LinesOK, SameBeside
<1>9. \A line \in CachedLines : Held(t, line) = Held(s, line)
  BY <1>6, <1>7, HeldSameLines DEF SameBeside
<1> QED BY <1>6, <1>7, <1>8, <1>9 DEF t

(* A nonempty set of naturals has a least element.                         *)
LEMMA LeastNat ==
  ASSUME NEW S, S \subseteq Nat, S # {}
  PROVE  \E x \in S : \A y \in S : x <= y
PROOF
<1> DEFINE R == OpToRel(<, Nat)
<1>1. IsWellFoundedOn(R, Nat)
  BY NatLessThanWellFounded
<1>2. PICK x \in S : \A y \in S : ~(<<y, x>> \in R)
  <2> HIDE DEF R
  <2> QED BY <1>1, WFMin
<1>3. ASSUME NEW y \in S PROVE x <= y
  <2>1. ~(<<y, x>> \in R)
    BY <1>2
  <2>2. y < x => <<y, x>> \in R
    BY DEF OpToRel
  <2>3. x \in Nat /\ y \in Nat
    OBVIOUS
  <2> HIDE DEF R
  <2> QED BY <2>1, <2>2, <2>3
<1> QED BY <1>3

(* select_victim picks a way of the set.                                   *)
LEMMA VictimIs ==
  ASSUME NEW s, LinesTyped(s.config, s.sets), NEW set \in Sets(s.config)
  PROVE  SelectVictim(s, set) \in Ways(s.config)
PROOF
<1> DEFINE ways == Ways(s.config)
           lines == s.sets[set].lines
           last_used == s.sets[set].last_used
           invalid == {way \in ways : lines[way] = None}
<1>1. ways \subseteq Nat /\ ways # {}
  BY ConfigIs DEF Ways, LinesTyped
<1>2. invalid # {} => (CHOOSE way \in invalid : \A o \in invalid : way <= o) \in ways
  <2> SUFFICES ASSUME invalid # {}
               PROVE  (CHOOSE way \in invalid : \A o \in invalid : way <= o) \in ways
    OBVIOUS
  <2>1. invalid \subseteq ways
    OBVIOUS
  <2> HIDE DEF invalid, ways
  <2>2. \E way \in invalid : \A o \in invalid : way <= o
    BY <1>1, <2>1, LeastNat
  <2> QED BY <2>1, <2>2
<1>3. (CHOOSE way \in ways : \A o \in ways : last_used[way] <= last_used[o]) \in ways
  <2>1. last_used \in [ways -> ways]
    BY SetIs
  <2> DEFINE S == {last_used[o] : o \in ways}
  <2> HIDE DEF ways, last_used
  <2>2. S \subseteq Nat /\ S # {}
    BY <1>1, <2>1
  <2>3. PICK x \in S : \A y \in S : x <= y
    <3> HIDE DEF S
    <3> QED BY <2>2, LeastNat
  <2>4. \E way \in ways : \A o \in ways : last_used[way] <= last_used[o]
    BY <2>3
  <2> QED BY <2>4
<1>4. s.sets[set].next_victim \in ways
  BY SetIs
<1> QED BY <1>2, <1>3, <1>4 DEF SelectVictim

(* start_pending empties the victim's way and remembers its dirty words.   *)
LEMMA StartPendingIs ==
  ASSUME NEW s, Shape(s), LinesOK(s), NEW line \in CachedLines
  PROVE  LET c == s.config
             set == SetOf(c, line)
             way == SelectVictim(s, set)
             victim == s.sets[set].lines[way]
             t == StartPending(s, line)
         IN  /\ set \in Sets(c) /\ way \in Ways(c) /\ victim \in CacheLine \cup {None}
             /\ Shape(t) /\ t.maintenance = s.maintenance /\ t.mem = s.mem
             /\ t.burst = s.burst /\ t.access = s.access /\ t.weather = s.weather
             /\ t.pending = [line |-> line, way |-> way,
                             write_back |-> IF NeedsWriteBack(c, victim)
                                            THEN [line |-> LineForTag(c, set, victim.tag),
                                                  words |-> victim.words]
                                            ELSE None]
             /\ LinesTyped(c, t.sets) /\ Put(s, t, set, way, None)
PROOF
<1> DEFINE c == s.config
           set == SetOf(c, line)
           way == SelectVictim(s, set)
           victim == s.sets[set].lines[way]
           b == s.sets
           p == [line |-> line, way |-> way,
                             write_back |-> IF NeedsWriteBack(c, victim)
                                            THEN [line |-> LineForTag(c, set, victim.tag),
                                                  words |-> victim.words]
                                            ELSE None]
           next == IF c.lru THEN b[set].next_victim ELSE NextVictim(c, way)
           lines == [b[set].lines EXCEPT ![way] = None]
           r == [lines |-> lines, next_victim |-> next, last_used |-> b[set].last_used]
           d == [b EXCEPT ![set] = r]
           t == StartPending(s, line)
<1>1. LinesTyped(c, b) /\ c \in Configs
  BY DEF LinesOK, LinesTyped
<1>2. set \in Sets(c) /\ line \in Nat
  BY <1>1, ConfigIs, DecodeIs
<1>3. way \in Ways(c)
  BY <1>1, <1>2, VictimIs
<1>4. victim \in CacheLine \cup {None}
  BY <1>1, <1>2, <1>3, WayIs
<1> HIDE DEF set, way
<1>5. /\ b[set] = [lines |-> b[set].lines, next_victim |-> b[set].next_victim,
                      last_used |-> b[set].last_used]
      /\ b[set].lines \in [Ways(c) -> CacheLine \cup {None}]
      /\ b[set].next_victim \in Ways(c)
      /\ b[set].last_used \in [Ways(c) -> Ways(c)] /\ IsInjective(b[set].last_used)
      /\ DOMAIN b = Sets(c)
  BY <1>1, <1>2, SetIs
<1>6. lines \in [Ways(c) -> CacheLine \cup {None}]
      /\ \A wy \in Ways(c) : lines[wy] = IF wy = way THEN None ELSE b[set].lines[wy]
  BY <1>3, <1>5
<1>7. next \in Ways(c)
  <2> DEFINE n == c.way_count
  <2>1. n \in Nat \ {0} /\ way \in Nat
    BY <1>1, <1>3, ConfigIs DEF Ways
  <2> HIDE DEF n
  <2>2. (way + 1) % n \in 0 .. (n - 1)
    BY <2>1, DivMod
  <2> QED BY <1>5, <2>2 DEF NextVictim, Ways, n
<1>8. t = [s EXCEPT !.sets = d, !.pending = p]
  <2>1. t = [s EXCEPT !.sets[set] = r, !.pending = p]
    BY DEF StartPending, set, way
  <2> HIDE DEF p, r, t
  <2> QED BY <2>1 DEF Shape
<1> HIDE DEF p, t, next, lines
<1>9. /\ LinesTyped(c, d) /\ d[set].lines = lines
      /\ \A st \in Sets(c) : st # set => d[st] = b[st]
  BY <1>1, <1>2, <1>5, <1>6, <1>7, OneSet
<1>10. /\ Shape(t) /\ t.config = c /\ t.maintenance = s.maintenance /\ t.mem = s.mem
       /\ t.burst = s.burst /\ t.access = s.access /\ t.weather = s.weather
       /\ t.pending = p /\ t.sets = d
  <2> HIDE DEF d
  <2> QED BY <1>8 DEF Shape
<1>11. Put(s, t, set, way, None)
  <2> HIDE DEF d
  <2> QED BY <1>6, <1>9, <1>10 DEF Put
<1> QED BY <1>2, <1>3, <1>4, <1>9, <1>10, <1>11 DEF p, t, set, way

(* A line is put into a way.                                               *)
LEMMA LinePutIs ==
  ASSUME NEW s, Shape(s), LinesOK(s), NEW set \in Sets(s.config), NEW way \in Ways(s.config),
         NEW x \in CacheLine \cup {None}
  PROVE  LET u == [s EXCEPT !.sets[set].lines[way] = x]
         IN  SameBeside(s, u) /\ LinesTyped(s.config, u.sets) /\ Put(s, u, set, way, x)
PROOF
<1> DEFINE c == s.config
           b == s.sets
           lines == [b[set].lines EXCEPT ![way] = x]
           r == [lines |-> lines, next_victim |-> b[set].next_victim, last_used |-> b[set].last_used]
           d == [b EXCEPT ![set] = r]
           u == [s EXCEPT !.sets[set].lines[way] = x]
<1>1. LinesTyped(c, b) /\ c \in Configs
  BY DEF LinesOK, LinesTyped
<1>2. /\ b[set] = [lines |-> b[set].lines, next_victim |-> b[set].next_victim,
                      last_used |-> b[set].last_used]
      /\ b[set].lines \in [Ways(c) -> CacheLine \cup {None}]
      /\ b[set].next_victim \in Ways(c)
      /\ b[set].last_used \in [Ways(c) -> Ways(c)] /\ IsInjective(b[set].last_used)
      /\ DOMAIN b = Sets(c)
  BY <1>1, SetIs
<1>3. lines \in [Ways(c) -> CacheLine \cup {None}]
      /\ \A wy \in Ways(c) : lines[wy] = IF wy = way THEN x ELSE b[set].lines[wy]
  BY <1>2
<1>4. u = [s EXCEPT !.sets = d]
  <2>1. u = [s EXCEPT !.sets = [b EXCEPT ![set] = [b[set] EXCEPT !.lines = lines]]]
    BY DEF Shape
  <2>2. [b[set] EXCEPT !.lines = lines] = r
    <3> HIDE DEF lines
    <3> QED BY <1>2
  <2> HIDE DEF r, u, lines
  <2> QED BY <2>1, <2>2
<1> HIDE DEF lines
<1>5. /\ LinesTyped(c, d) /\ d[set].lines = lines
      /\ \A st \in Sets(c) : st # set => d[st] = b[st]
  BY <1>1, <1>2, <1>3, OneSet
<1>6. SameBeside(s, u) /\ u.sets = d
  <2> HIDE DEF d, u
  <2> QED BY <1>4, SetsUpdated
<1> HIDE DEF d, u
<1>7. Put(s, u, set, way, x)
  BY <1>3, <1>5, <1>6 DEF Put, SameBeside
<1> QED BY <1>5, <1>6, <1>7 DEF u

(* A line that is in no other way fits into a way of its set.              *)
LEMMA FitsIs ==
  ASSUME NEW s, LinesOK(s), NEW line \in CachedLines, NEW way \in Ways(s.config), NEW x,
         x.tag = TagOf(s.config, line),
         Held(s, line) = None \/ LookupWay(s, line) = way
  PROVE  /\ Fits(s, SetOf(s.config, line), way, x)
         /\ LineForTag(s.config, SetOf(s.config, line), x.tag) = line
         /\ SetOf(s.config, line) \in Sets(s.config)
PROOF
<1> DEFINE c == s.config
           set == SetOf(c, line)
<1>1. c \in CacheConfig /\ line \in Nat
  BY ConfigIs DEF LinesOK, LinesTyped
<1>2. LineForTag(c, set, x.tag) = line /\ set \in Sets(c)
  BY <1>1, DecodeIs
<1>3. ASSUME NEW wy \in Ways(c), wy # way, s.sets[set].lines[wy] # None,
             s.sets[set].lines[wy].tag = x.tag
      PROVE  FALSE
  <2>1. Held(s, line) = s.sets[set].lines[wy] /\ LookupWay(s, line) = wy
    BY <1>3, HeldIs
  <2> QED BY <1>3, <2>1
<1> QED BY <1>2, <1>3 DEF Fits

(* A line is filled into an empty way, or replaces its own copy.           *)
Filled(s, u, set, way, x) == u = [s EXCEPT !.sets[set].lines[way] = x]

LEMMA FillIs ==
  ASSUME NEW s, Shape(s), LinesOK(s), NEW line \in CachedLines, NEW way \in Ways(s.config),
         NEW x \in CacheLine, x.tag = TagOf(s.config, line),
         \/ Held(s, line) = None /\ s.sets[SetOf(s.config, line)].lines[way] = None
         \/ Held(s, line) # None /\ LookupWay(s, line) = way,
         NEW u, Filled(s, u, SetOf(s.config, line), way, x)
  PROVE  /\ SameBeside(s, u) /\ LinesOK(u)
         /\ \A l \in CachedLines : Held(u, l) = IF l = line THEN x ELSE Held(s, l)
PROOF
<1> DEFINE c == s.config
           set == SetOf(c, line)
           old == s.sets[set].lines[way]
<1>1. Fits(s, set, way, x) /\ LineForTag(c, set, x.tag) = line /\ set \in Sets(c)
  BY FitsIs
<1>2. SameBeside(s, u) /\ LinesTyped(c, u.sets) /\ Put(s, u, set, way, x)
  BY <1>1, LinePutIs DEF Filled
<1>3. u.config = c
  BY <1>2 DEF SameBeside
<1>4. LinesOK(u)
  BY <1>1, <1>2, <1>3, PutLinesOK
<1>5. x # None
  BY NoneAssumption
<1>6. old # None => LineForTag(c, set, old.tag) = line
  <2> SUFFICES ASSUME old # None PROVE LineForTag(c, set, old.tag) = line
    OBVIOUS
  <2>1. Held(s, line) # None /\ LookupWay(s, line) = way
    OBVIOUS
  <2>2. Held(s, line) = old /\ Held(s, line).tag = TagOf(c, line)
    BY <2>1, HeldIs
  <2> QED BY <1>1, <2>2
<1>7. ASSUME NEW l \in CachedLines PROVE Held(u, l) = IF l = line THEN x ELSE Held(s, l)
  BY <1>1, <1>2, <1>4, <1>5, <1>6, PutHeld
<1> QED BY <1>2, <1>4, <1>7

(* What start_pending leaves in the bank.                                  *)
LEMMA StartPendingHeld ==
  ASSUME NEW s, Shape(s), LinesOK(s), NEW line \in CachedLines, Held(s, line) = None
  PROVE  LET c == s.config
             t == StartPending(s, line)
             p == t.pending
             set == SetOf(c, line)
             victim == s.sets[set].lines[p.way]
             gone == LineForTag(c, set, victim.tag)
         IN  /\ LinesOK(t) /\ t.config = c
             /\ p \in PendingLineOp /\ p.line = line /\ p.way \in Ways(c)
             /\ t.sets[set].lines[p.way] = None
             /\ \A l \in CachedLines :
                  Held(t, l) = IF victim # None /\ l = gone THEN None ELSE Held(s, l)
             /\ victim # None => /\ gone \in CachedLines /\ gone # line
                                 /\ Held(s, gone) = victim /\ victim \in CacheLine
             /\ p.write_back = IF victim # None /\ c.write_back /\ victim.dirty
                               THEN [line |-> gone, words |-> victim.words] ELSE None
PROOF
<1> DEFINE c == s.config
           t == StartPending(s, line)
           p == t.pending
           set == SetOf(c, line)
           way == SelectVictim(s, set)
           victim == s.sets[set].lines[way]
           gone == LineForTag(c, set, victim.tag)
           wb == IF NeedsWriteBack(c, victim) THEN [line |-> gone, words |-> victim.words] ELSE None
<1>1. /\ set \in Sets(c) /\ way \in Ways(c) /\ victim \in CacheLine \cup {None}
      /\ p = [line |-> line, way |-> way, write_back |-> wb]
      /\ LinesTyped(c, t.sets) /\ Put(s, t, set, way, None)
  BY StartPendingIs
<1> HIDE DEF t, way
<1>2. p.line = line /\ p.way = way /\ p.write_back = wb
  BY <1>1
<1>3. t.config = c /\ t.sets[set].lines[way] = None
  BY <1>1 DEF Put
<1>4. LinesOK(t)
  <2>1. Fits(s, set, way, None)
    BY DEF Fits
  <2> QED BY <1>1, <1>3, <2>1, PutLinesOK
<1>5. \A l \in CachedLines : Held(t, l) = IF victim # None /\ l = gone THEN None ELSE Held(s, l)
  BY <1>1, <1>4, PutHeld
<1>6. victim # None => /\ gone \in CachedLines /\ gone # line
                       /\ Held(s, gone) = victim /\ victim \in CacheLine
  <2> SUFFICES ASSUME victim # None
               PROVE  /\ gone \in CachedLines /\ gone # line
                      /\ Held(s, gone) = victim /\ victim \in CacheLine
    OBVIOUS
  <2>1. gone \in CachedLines /\ Held(s, gone) = victim /\ victim \in CacheLine
    BY <1>1, HeldAt
  <2> HIDE DEF gone, victim
  <2> QED BY <2>1
<1>7. wb \in PendingWriteBack \cup {None}
  <2> SUFFICES ASSUME victim # None PROVE [line |-> gone, words |-> victim.words] \in PendingWriteBack
    BY DEF NeedsWriteBack
  <2>1. victim.words \in LineData
    BY <1>6 DEF CacheLine
  <2> HIDE DEF victim, gone
  <2> QED BY <1>6, <2>1 DEF PendingWriteBack
<1>8. p \in PendingLineOp
  <2>1. way \in Nat
    BY <1>1, ConfigIs DEF Ways, LinesOK, LinesTyped
  <2> HIDE DEF wb, p
  <2> QED BY <1>1, <1>7, <2>1 DEF PendingLineOp
<1> QED BY <1>1, <1>2, <1>3, <1>4, <1>5, <1>6, <1>8 DEF t, NeedsWriteBack

(* The refilled line is installed.                                         *)
LEMMA InstallIs ==
  ASSUME NEW s, Shape(s), LinesOK(s), PendingOK(s), s.pending # None, NEW words \in LineData
  PROVE  LET t == Install(s, words)
             line == s.pending.line
         IN  /\ Shape(t) /\ LinesOK(t)
             /\ t.config = s.config /\ t.pending = None /\ t.maintenance = s.maintenance
             /\ t.mem = s.mem /\ t.burst = s.burst /\ t.access = s.access /\ t.weather = s.weather
             /\ \A l \in CachedLines :
                  Held(t, l) = IF l = line
                               THEN [dirty |-> FALSE, tag |-> TagOf(s.config, line), words |-> words]
                               ELSE Held(s, l)
PROOF
<1> DEFINE c == s.config
           line == s.pending.line
           set == SetOf(c, line)
           way == s.pending.way
           x == [dirty |-> FALSE, tag |-> TagOf(c, line), words |-> words]
           v == [s EXCEPT !.pending = None]
           u == [v EXCEPT !.sets[set].lines[way] = x]
           t == Install(s, words)
<1>1. line \in CachedLines /\ way \in Ways(c) /\ Held(s, line) = None /\ s.sets[set].lines[way] = None
  BY DEF PendingOK, PendingLineOp
<1>2. x \in CacheLine /\ x.tag = TagOf(c, line)
  <2>1. c \in CacheConfig /\ line \in Nat /\ line \in 0 .. (LineCount - 1)
    BY <1>1, ConfigIs DEF LinesOK, LinesTyped
  <2>2. TagOf(c, line) \in 0 .. (LineCount - 1)
    BY <2>1, DecodeIs, CacheAssumption
  <2> QED BY <2>2 DEF CacheLine
<1> HIDE DEF x
<1>3. /\ Shape(v) /\ v.config = c /\ v.sets = s.sets /\ v.pending = None /\ v.maintenance = s.maintenance
      /\ v.mem = s.mem /\ v.burst = s.burst /\ v.access = s.access /\ v.weather = s.weather
  BY DEF Shape
<1>4. t = TouchLine(u, set, way)
  <2>1. t = TouchLine([s EXCEPT !.sets[set].lines[way] = x, !.pending = None], set, way)
    BY DEF Install, x
  <2>2. [s EXCEPT !.sets[set].lines[way] = x, !.pending = None] = u
    BY DEF Shape
  <2> QED BY <2>1, <2>2
<1> HIDE DEF v, line, way, t
<1>5. LinesOK(v) /\ \A l \in CachedLines : Held(v, l) = Held(s, l)
  BY <1>3, HeldSame DEF LinesOK
<1>6. /\ SameBeside(v, u) /\ LinesOK(u)
      /\ \A l \in CachedLines : Held(u, l) = IF l = line THEN x ELSE Held(v, l)
  <2>1. Filled(v, u, SetOf(v.config, line), way, x)
    BY <1>3 DEF Filled
  <2> HIDE DEF u
  <2> QED BY <1>1, <1>2, <1>3, <1>5, <2>1, FillIs
<1> HIDE DEF u
<1>7. Shape(u) /\ u.config = c /\ set \in Sets(c)
  <2>1. c \in CacheConfig /\ line \in Nat
    BY <1>1, ConfigIs DEF LinesOK, LinesTyped
  <2> QED BY <1>3, <1>6, <2>1, DecodeIs DEF SameBeside
<1>8. SameBeside(u, t) /\ LinesOK(t) /\ \A l \in CachedLines : Held(t, l) = Held(u, l)
  BY <1>1, <1>4, <1>6, <1>7, TouchIs
<1>9. /\ Shape(t) /\ t.config = c /\ t.pending = None /\ t.maintenance = s.maintenance
      /\ t.mem = s.mem /\ t.burst = s.burst /\ t.access = s.access /\ t.weather = s.weather
  BY <1>3, <1>6, <1>8 DEF SameBeside
<1>10. \A l \in CachedLines : Held(t, l) = IF l = line THEN x ELSE Held(s, l)
  BY <1>5, <1>6, <1>8
<1> QED BY <1>8, <1>9, <1>10 DEF t, line, x

(* A store to a copy.                                                      *)
LEMMA UpdateIs ==
  ASSUME NEW s, Shape(s), LinesOK(s), NEW w \in Words, LineOf(w) \in CachedLines,
         Held(s, LineOf(w)) # None, NEW value \in Values, NEW dirty \in BOOLEAN
  PROVE  LET t == UpdateCachedStore(s, w, value, dirty)
             line == LineOf(w)
         IN  /\ SameBeside(s, t) /\ LinesOK(t)
             /\ \A l \in CachedLines : l # line => Held(t, l) = Held(s, l)
             /\ Held(t, line) \in CacheLine /\ Held(t, line) # None
             /\ Held(t, line).dirty = dirty
             /\ Held(t, line).words = [Held(s, line).words EXCEPT ![Offset(w)] = value]
PROOF
<1> DEFINE c == s.config
           line == LineOf(w)
           set == SetOf(c, line)
           way == LookupWay(s, line)
           words == [Held(s, line).words EXCEPT ![Offset(w)] = value]
           x == [dirty |-> dirty, tag |-> TagOf(c, line), words |-> words]
           u == [s EXCEPT !.sets[set].lines[way] = x]
           t == UpdateCachedStore(s, w, value, dirty)
<1>1. way \in Ways(c) /\ Held(s, line) \in CacheLine
  BY HeldIs
<1>2. c \in CacheConfig /\ line \in Nat /\ line \in 0 .. (LineCount - 1) /\ set \in Sets(c)
  BY ConfigIs, DecodeIs DEF LinesOK, LinesTyped
<1>3. words \in LineData
  <2>1. Held(s, line).words \in LineData /\ Offset(w) \in Offsets
    BY <1>1, WordIs DEF CacheLine
  <2> QED BY <2>1 DEF LineData
<1> HIDE DEF words
<1>4. x \in CacheLine /\ x.tag = TagOf(c, line) /\ x.dirty = dirty /\ x.words = words
  <2>1. TagOf(c, line) \in 0 .. (LineCount - 1)
    BY <1>2, DecodeIs, CacheAssumption
  <2> QED BY <1>3, <2>1 DEF CacheLine
<1>5. t = TouchLine(u, set, way)
  BY DEF UpdateCachedStore, words
<1> HIDE DEF x, t
<1>6. /\ SameBeside(s, u) /\ LinesOK(u)
      /\ \A l \in CachedLines : Held(u, l) = IF l = line THEN x ELSE Held(s, l)
  <2>1. Filled(s, u, SetOf(s.config, line), way, x)
    BY DEF Filled
  <2> HIDE DEF u
  <2> QED BY <1>1, <1>4, <2>1, FillIs
<1> HIDE DEF u
<1>7. Shape(u) /\ u.config = c
  BY <1>6 DEF SameBeside
<1>8. SameBeside(u, t) /\ LinesOK(t) /\ \A l \in CachedLines : Held(t, l) = Held(u, l)
  BY <1>1, <1>2, <1>5, <1>6, <1>7, TouchIs
<1>9. SameBeside(s, t)
  BY <1>6, <1>8 DEF SameBeside
<1>10. x # None
  BY <1>4, NoneAssumption
<1> QED BY <1>4, <1>6, <1>8, <1>9, <1>10 DEF t, words

(* A copy is marked clean.                                                 *)
MarkedClean(s, t, set, way) == t = [s EXCEPT !.sets[set].lines[way].dirty = FALSE]

LEMMA CleanedIs ==
  ASSUME NEW s, Shape(s), LinesOK(s), NEW line \in CachedLines, Held(s, line) # None,
         NEW t, MarkedClean(s, t, SetOf(s.config, line), LookupWay(s, line))
  PROVE  /\ SameBeside(s, t) /\ LinesOK(t)
         /\ \A l \in CachedLines : l # line => Held(t, l) = Held(s, l)
         /\ Held(t, line) # None /\ ~Held(t, line).dirty
         /\ Held(t, line).words = Held(s, line).words
PROOF
<1> DEFINE c == s.config
           set == SetOf(c, line)
           way == LookupWay(s, line)
           h == Held(s, line)
           x == [h EXCEPT !.dirty = FALSE]
<1>1. way \in Ways(c) /\ h \in CacheLine /\ h = s.sets[set].lines[way] /\ h.tag = TagOf(c, line)
  BY HeldIs
<1>2. t = [s EXCEPT !.sets[set].lines[way] = x]
  <2>1. t = [s EXCEPT !.sets[set].lines[way] = [s.sets[set].lines[way] EXCEPT !.dirty = FALSE]]
    BY DEF Shape, MarkedClean
  <2> QED BY <1>1, <2>1
<1> HIDE DEF h
<1>3. x \in CacheLine /\ x.tag = TagOf(c, line) /\ ~x.dirty /\ x.words = h.words
  BY <1>1 DEF CacheLine
<1> HIDE DEF x
<1>4. /\ SameBeside(s, t) /\ LinesOK(t)
      /\ \A l \in CachedLines : Held(t, l) = IF l = line THEN x ELSE Held(s, l)
  <2>1. Filled(s, t, SetOf(s.config, line), way, x)
    BY <1>2 DEF Filled
  <2> QED BY <1>1, <1>3, <2>1, FillIs DEF h
<1>5. x # None
  BY <1>3, NoneAssumption
<1> QED BY <1>3, <1>4, <1>5 DEF h

(* Ways that were free stay free.                                          *)
Thinned(s, t) ==
  \A set \in Sets(s.config), way \in Ways(s.config) :
    s.sets[set].lines[way] = None => t.sets[set].lines[way] = None

(* Lines are invalidated.                                                  *)
LEMMA InvalidatedIs ==
  ASSUME NEW s, LinesOK(s), NEW t, NEW gone, t.config = s.config,
         t.sets = Invalidated(s.config, s.sets, gone)
  PROVE  /\ LinesOK(t)
         /\ \A l \in CachedLines : Held(t, l) = IF l \in gone THEN None ELSE Held(s, l)
         /\ Thinned(s, t)
PROOF
<1> DEFINE c == s.config
           b == s.sets
           d == t.sets
           Gone(set, held) == held # None /\ LineForTag(c, set, held.tag) \in gone \cap CachedLines
           L(set) == [way \in Ways(c) |-> IF Gone(set, b[set].lines[way]) THEN None ELSE b[set].lines[way]]
<1>1. LinesTyped(c, b) /\ c \in Configs /\ c \in CacheConfig
  BY ConfigIs DEF LinesOK, LinesTyped
<1>2. d = [set \in Sets(c) |-> [b[set] EXCEPT !.lines = L(set)]]
  BY DEF Invalidated
<1>3. ASSUME NEW set \in Sets(c)
      PROVE  /\ d[set] \in [lines : [Ways(c) -> CacheLine \cup {None}], next_victim : Ways(c),
                            last_used : [Ways(c) -> Ways(c)]]
             /\ d[set].lines = L(set) /\ IsInjective(d[set].last_used)
  <2> DEFINE u == b[set]
             x == L(set)
  <2>1. /\ u \in [lines : [Ways(c) -> CacheLine \cup {None}], next_victim : Ways(c),
                            last_used : [Ways(c) -> Ways(c)]]
        /\ IsInjective(u.last_used) /\ u.lines \in [Ways(c) -> CacheLine \cup {None}]
    BY <1>1, SetIs
  <2>2. x \in [Ways(c) -> CacheLine \cup {None}]
    BY <2>1
  <2>3. d[set] = [u EXCEPT !.lines = x]
    BY <1>2
  <2> HIDE DEF u, x
  <2>4. d[set].lines = x /\ d[set].last_used = u.last_used
        /\ d[set] \in [lines : [Ways(c) -> CacheLine \cup {None}], next_victim : Ways(c),
                            last_used : [Ways(c) -> Ways(c)]]
    BY <2>1, <2>2, <2>3
  <2> QED BY <2>1, <2>4 DEF x
<1>4. LinesTyped(c, d)
  <2>1. DOMAIN d = Sets(c) /\ d = [set \in Sets(c) |-> d[set]]
    BY <1>2
  <2> HIDE DEF L, d
  <2>2. d \in BankType(c)
    BY <1>3, <2>1 DEF BankType
  <2> QED BY <1>1, <1>3, <2>2 DEF LinesTyped
<1>5. ASSUME NEW set \in Sets(c), NEW way \in Ways(c)
      PROVE  d[set].lines[way] = IF Gone(set, b[set].lines[way]) THEN None ELSE b[set].lines[way]
  BY <1>3
<1> HIDE DEF L
<1>6. LinesApart(c, d)
  <2>1. LinesApart(c, b)
    BY DEF LinesOK
  <2> HIDE DEF d, b, Gone
  <2> QED BY <1>5, <2>1 DEF LinesApart
<1>7. LinesOK(t)
  BY <1>4, <1>6 DEF LinesOK
<1>8. ASSUME NEW l \in CachedLines PROVE Held(t, l) = IF l \in gone THEN None ELSE Held(s, l)
  <2> DEFINE set == SetOf(c, l)
  <2>1. l \in Nat /\ set \in Sets(c) /\ LineForTag(c, set, TagOf(c, l)) = l
    BY <1>1, ConfigIs, DecodeIs
  <2>2. ASSUME Held(t, l) # None PROVE l \notin gone /\ Held(t, l) = Held(s, l)
    <3> DEFINE way == LookupWay(t, l)
    <3>1. way \in Ways(c) /\ Held(t, l) = d[set].lines[way] /\ Held(t, l).tag = TagOf(c, l)
      BY <1>7, <2>2, HeldIs
    <3>2. d[set].lines[way] = b[set].lines[way] /\ ~Gone(set, b[set].lines[way])
      BY <1>5, <2>1, <2>2, <3>1
    <3>3. Held(s, l) = b[set].lines[way]
      <4>1. b[set].lines[way] # None /\ b[set].lines[way].tag = TagOf(c, l)
        BY <2>2, <3>1, <3>2
      <4> HIDE DEF way
      <4> QED BY <3>1, <4>1, HeldWay
    <3> QED BY <2>1, <2>2, <3>1, <3>2, <3>3
  <2>3. ASSUME Held(s, l) # None, l \notin gone PROVE Held(t, l) # None
    <3> DEFINE way == LookupWay(s, l)
    <3>1. way \in Ways(c) /\ Held(s, l) = b[set].lines[way] /\ Held(s, l).tag = TagOf(c, l)
      BY <2>3, HeldIs
    <3>2. ~Gone(set, b[set].lines[way])
      BY <2>1, <2>3, <3>1
    <3>3. d[set].lines[way] = b[set].lines[way]
      BY <1>5, <2>1, <3>1, <3>2
    <3>4. Held(t, l) = d[set].lines[way]
      BY <1>7, <2>3, <3>1, <3>3, HeldWay
    <3> QED BY <2>3, <3>1, <3>3, <3>4
  <2> QED BY <2>2, <2>3
<1>9. Thinned(s, t)
  BY <1>5 DEF Thinned
<1> QED BY <1>7, <1>8, <1>9

-----------------------------------------------------------------------------
(* The steps of a pending operation keep the invariant.                    *)

(* Banks that differ in the pending operation, the burst and the words.    *)
SameSets(s, t) ==
  /\ Shape(t)
  /\ t.config = s.config /\ t.sets = s.sets /\ t.maintenance = s.maintenance
  /\ t.access = s.access /\ t.weather = s.weather

LEMMA SameSetsHeld ==
  ASSUME NEW s, NEW t, LinesOK(s), SameSets(s, t)
  PROVE  LinesOK(t) /\ \A l : Held(t, l) = Held(s, l)
PROOF
<1>1. LinesOK(t)
  BY DEF LinesOK, SameSets
<1>2. \A l : Held(t, l) = Held(s, l)
  BY HeldSame DEF SameSets
<1> QED BY <1>1, <1>2

(* A state in the course of an access: i tells the instruction bank from   *)
(* the data bank.                                                          *)
Fine(i, s, f, k, L, F) ==
  IF i THEN GoodInstruction(s, f, k, L, F) ELSE Good(s, k, L, F)

Chain(i, s, f, k, L, F) ==
  /\ i \in BOOLEAN /\ Fine(i, s, f, k, L, F)
  /\ s.weather \in Weathers /\ s.maintenance = None
  /\ ~i => s.access = None
  /\ i => f # None

(* A burst is submitted for the pending operation.                         *)
Matches(s, r) ==
  /\ r \in Bursts /\ r.left # 0
  /\ s.pending.write_back = None => r.kind = "read" /\ r.line = s.pending.line
  /\ s.pending.write_back # None => /\ r.kind = "write" /\ r.line = s.pending.write_back.line
                                    /\ r.words = s.pending.write_back.words

LEMMA Submitted ==
  ASSUME NEW i, NEW s, NEW f, NEW k, NEW L, NEW F, Chain(i, s, f, k, L, F),
         s.pending # None, NEW t, SameSets(s, t), t.pending = s.pending, t.mem = s.mem,
         t.burst = None \/ Matches(s, t.burst)
  PROVE  Chain(i, t, f, k, L, F)
PROOF
<1>1. Bank(s)
  BY DEF Chain, Fine, Good, Struct, GoodInstruction, InstructionStruct
<1>2. LinesOK(t) /\ \A l : Held(t, l) = Held(s, l)
  BY <1>1, SameSetsHeld DEF Bank
<1>3. PendingOK(t)
  <2>1. PendingOK(s)
    BY <1>1 DEF Bank
  <2> QED BY <1>2, <2>1 DEF PendingOK, SameSets
<1>4. BurstOK(t)
  BY DEF BurstOK, Matches
<1>5. Bank(t)
  BY <1>1, <1>2, <1>3, <1>4 DEF Bank, SameSets
<1>6. CASE i
  <2>1. GoodInstruction(s, f, k, L, F)
    BY <1>6 DEF Chain, Fine
  <2>2. InstructionStruct(t, f, F)
    BY <1>2, <1>5, <2>1 DEF GoodInstruction, InstructionStruct, IsDirty
  <2>3. ASSUME Reliable PROVE InstructionData(t, f, k, L, F)
    <3>1. InstructionData(s, f, k, L, F)
      BY <2>1, <2>3 DEF GoodInstruction
    <3> QED BY <1>2, <3>1 DEF InstructionData, MemCurrent, SameSets, Matches
  <2> QED BY <1>6, <2>2, <2>3 DEF GoodInstruction, Chain, Fine, SameSets
<1>7. CASE ~i
  <2>1. Good(s, k, L, F) /\ s.access = None /\ s.maintenance = None
    BY <1>7 DEF Chain, Fine
  <2>2. t.access = None /\ t.maintenance = None
    BY <2>1 DEF SameSets
  <2>3. DirtyOK(t, F)
    BY <1>2, <2>1 DEF Good, Struct, DirtyOK, SameSets
  <2>4. Struct(t, k, F)
    BY <1>5, <2>1, <2>2, <2>3 DEF Good, Struct, MaintenanceOK, AccessOK
  <2>5. ASSUME Reliable PROVE Data(t, k, L, F)
    <3>1. Data(s, k, L, F)
      BY <2>1, <2>5 DEF Good
    <3>2. CleanData(t, k, F)
      BY <1>2, <3>1 DEF Data, CleanData
    <3>3. BurstData(t, F) /\ AccessData(t) /\ MaintenanceData(t, k)
      BY <2>2 DEF BurstData, Matches, AccessData, MaintenanceData
    <3>4. WordData(t, k, L, F)
      BY <1>2, <3>1 DEF Data, WordData, VisibleIn
    <3> QED BY <3>2, <3>3, <3>4 DEF Data
  <2> QED BY <1>7, <2>1, <2>2, <2>4, <2>5 DEF Good, Chain, Fine, SameSets
<1> QED BY <1>6, <1>7 DEF Chain

(* The lower bus refuses: the pending operation is forgotten.              *)
LEMMA Forgotten ==
  ASSUME NEW i, NEW s, NEW f, NEW k, NEW L, NEW F, Chain(i, s, f, k, L, F), MayRefuse,
         s.burst = None, NEW t, SameSets(s, t), t.pending = None, t.mem = s.mem, t.burst = None
  PROVE  Chain(i, t, f, k, L, F)
PROOF
<1>1. Bank(s) /\ ~Reliable
  BY DEF Chain, Fine, Good, Struct, GoodInstruction, InstructionStruct, Reliable
<1>2. LinesOK(t) /\ \A l : Held(t, l) = Held(s, l)
  BY <1>1, SameSetsHeld DEF Bank
<1>3. Bank(t)
  BY <1>1, <1>2 DEF Bank, SameSets, PendingOK, BurstOK
<1>4. CASE i
  <2>1. GoodInstruction(s, f, k, L, F)
    BY <1>4 DEF Chain, Fine
  <2>2. InstructionStruct(t, f, F)
    BY <1>2, <1>3, <2>1 DEF GoodInstruction, InstructionStruct, IsDirty
  <2> QED BY <1>1, <1>4, <2>2 DEF GoodInstruction, Chain, Fine, SameSets
<1>5. CASE ~i
  <2>1. Good(s, k, L, F) /\ s.access = None /\ s.maintenance = None
    BY <1>5 DEF Chain, Fine
  <2>2. t.access = None /\ t.maintenance = None
    BY <2>1 DEF SameSets
  <2>3. DirtyOK(t, F)
    BY <1>2, <2>1 DEF Good, Struct, DirtyOK, SameSets
  <2>4. Struct(t, k, F)
    BY <1>3, <2>1, <2>2, <2>3 DEF Good, Struct, MaintenanceOK, AccessOK
  <2> QED BY <1>1, <1>5, <2>1, <2>2, <2>4 DEF Good, Chain, Fine, SameSets
<1> QED BY <1>4, <1>5 DEF Chain

(* The words of a line after its write-back.                               *)
Written(m, n, line, words) ==
  \A w \in Words : n[w] = IF LineOf(w) = line THEN words[Offset(w)] ELSE m[w]

(* The victim's words have reached the lower level.                        *)
LEMMA Drained ==
  ASSUME NEW i, NEW s, NEW f, NEW k, NEW L, NEW F, Chain(i, s, f, k, L, F),
         s.pending # None, s.pending.write_back # None,
         NEW t, SameSets(s, t), t.pending = [s.pending EXCEPT !.write_back = None],
         t.burst = None, t.mem \in [Words -> Values],
         Reliable => Written(s.mem, t.mem, s.pending.write_back.line, s.pending.write_back.words)
  PROVE  Chain(i, t, f, k, L, F) /\ ~i
PROOF
<1>0. ~i
  BY DEF Chain, Fine, GoodInstruction, InstructionStruct
<1>1. Bank(s) /\ Good(s, k, L, F) /\ s.access = None /\ s.maintenance = None
  BY <1>0 DEF Chain, Fine, Good, Struct
<1>2. LinesOK(t) /\ \A l : Held(t, l) = Held(s, l)
  BY <1>1, SameSetsHeld DEF Bank
<1> DEFINE p == s.pending
           q == t.pending
           wb == p.write_back
<1>3. PendingOK(s)
  BY <1>1 DEF Bank
<1>4. /\ p \in PendingLineOp /\ q \in PendingLineOp /\ q.line = p.line /\ q.way = p.way
      /\ q.write_back = None
  <2>1. p \in PendingLineOp
    BY <1>3 DEF PendingOK
  <2> HIDE DEF p
  <2> QED BY <2>1 DEF PendingLineOp, p
<1>5. PendingOK(t)
  BY <1>2, <1>3, <1>4 DEF PendingOK, SameSets
<1>6. Bank(t)
  BY <1>1, <1>2, <1>5 DEF Bank, SameSets, BurstOK
<1>7. t.access = None /\ t.maintenance = None
  BY <1>1 DEF SameSets
<1>8. DirtyOK(t, F)
  BY <1>1, <1>2, <1>4 DEF Good, Struct, DirtyOK, SameSets
<1>9. Struct(t, k, F)
  BY <1>1, <1>6, <1>7, <1>8 DEF Good, Struct, MaintenanceOK, AccessOK
<1>10. ASSUME Reliable PROVE Data(t, k, L, F)
  <2>1. Data(s, k, L, F) /\ Written(s.mem, t.mem, wb.line, wb.words)
    BY <1>1, <1>10 DEF Good
  <2>2. wb.line \notin F /\ Held(s, wb.line) = None /\ Held(t, wb.line) = None
    BY <1>1, <1>2, <1>3 DEF PendingOK, Good, Struct, DirtyOK
  <2>3. CleanData(t, k, F)
    BY <1>2, <2>1, <2>2 DEF Data, CleanData, Written
  <2>4. BurstData(t, F) /\ AccessData(t) /\ MaintenanceData(t, k)
    BY <1>7 DEF BurstData, AccessData, MaintenanceData
  <2>5. ASSUME NEW w \in Words
        PROVE  /\ LineOf(w) \in F => t.mem[w] = s.mem[w]
               /\ VisibleIn(t, w) = VisibleIn(s, w)
    BY <1>2, <1>4, <2>1, <2>2 DEF Written, VisibleIn
  <2>6. WordData(t, k, L, F)
    BY <2>1, <2>5 DEF Data, WordData
  <2> QED BY <2>3, <2>4, <2>6 DEF Data
<1> QED BY <1>0, <1>1, <1>7, <1>9, <1>10 DEF Good, Chain, Fine, SameSets

(* The refilled line is installed.                                         *)
LEMMA Installed ==
  ASSUME NEW i, NEW s, NEW f, NEW k, NEW L, NEW F, Chain(i, s, f, k, L, F),
         s.pending # None, s.pending.write_back = None, s.burst = None,
         NEW words \in LineData,
         Reliable /\ s.pending.line \notin F =>
           \A w \in Words : LineOf(w) = s.pending.line =>
             \/ words[Offset(w)] = s.mem[w]
             \/ i /\ (words[Offset(w)] = L[w] \/ StoringBy(k, w))
  PROVE  LET t == Install(s, words)
         IN  /\ Chain(i, t, f, k, L, F) /\ t.pending = None /\ t.burst = None
             /\ Held(t, s.pending.line) # None
             /\ t.config = s.config /\ t.mem = s.mem /\ t.access = s.access
             /\ t.weather = s.weather
PROOF
<1> DEFINE t == Install(s, words)
           line == s.pending.line
           x == [dirty |-> FALSE, tag |-> TagOf(s.config, line), words |-> words]
<1>1. Bank(s)
  BY DEF Chain, Fine, Good, Struct, GoodInstruction, InstructionStruct
<1>2. Shape(s) /\ LinesOK(s) /\ PendingOK(s)
  BY <1>1 DEF Bank
<1>3. /\ Shape(t) /\ LinesOK(t)
      /\ t.config = s.config /\ t.pending = None /\ t.maintenance = s.maintenance
      /\ t.mem = s.mem /\ t.burst = s.burst /\ t.access = s.access /\ t.weather = s.weather
      /\ \A l \in CachedLines : Held(t, l) = IF l = line THEN x ELSE Held(s, l)
  BY <1>2, InstallIs
<1> HIDE DEF t
<1>4. line \in CachedLines /\ Held(s, line) = None
  BY <1>2 DEF PendingOK, PendingLineOp
<1>5. x # None /\ x.dirty = FALSE /\ x.words = words
  <2>1. TagOf(s.config, line) \in 0 .. (LineCount - 1)
    <3>1. s.config \in CacheConfig /\ line \in Nat /\ line \in 0 .. (LineCount - 1)
      BY <1>2, <1>4, ConfigIs DEF LinesOK, LinesTyped
    <3> QED BY <3>1, DecodeIs, CacheAssumption
  <2>2. x \in CacheLine
    BY <2>1 DEF CacheLine
  <2> QED BY <2>2, NoneAssumption
<1> HIDE DEF x
<1>6. Bank(t)
  BY <1>1, <1>3 DEF Bank, PendingOK, BurstOK
<1>7. CASE i
  <2>1. GoodInstruction(s, f, k, L, F)
    BY <1>7 DEF Chain, Fine
  <2>2. InstructionStruct(t, f, F)
    BY <1>3, <1>5, <1>6, <2>1 DEF GoodInstruction, InstructionStruct, IsDirty
  <2>3. ASSUME Reliable PROVE InstructionData(t, f, k, L, F)
    <3>1. InstructionData(s, f, k, L, F)
      BY <2>1, <2>3 DEF GoodInstruction
    <3>2. ASSUME NEW w \in Words, LineOf(w) = line, line \notin F
          PROVE  words[Offset(w)] = L[w] \/ StoringBy(k, w)
      BY <2>3, <3>1, <3>2 DEF InstructionData, MemCurrent
    <3>3. \A w \in Words :
             LineOf(w) \in CachedLines /\ LineOf(w) \notin F /\ Held(t, LineOf(w)) # None =>
               Held(t, LineOf(w)).words[Offset(w)] = L[w] \/ StoringBy(k, w)
      BY <1>3, <1>5, <3>1, <3>2 DEF InstructionData
    <3> QED BY <1>3, <3>1, <3>3 DEF InstructionData, MemCurrent
  <2> QED BY <1>3, <1>4, <1>5, <1>7, <2>2, <2>3 DEF GoodInstruction, Chain, Fine, t
<1>8. CASE ~i
  <2>1. Good(s, k, L, F) /\ s.access = None /\ s.maintenance = None
    BY <1>8 DEF Chain, Fine
  <2>2. t.access = None /\ t.maintenance = None /\ t.burst = None
    BY <1>3, <2>1
  <2>3. DirtyOK(t, F)
    BY <1>3, <1>5, <2>1 DEF Good, Struct, DirtyOK
  <2>4. Struct(t, k, F)
    BY <1>6, <2>1, <2>2, <2>3 DEF Good, Struct, MaintenanceOK, AccessOK
  <2>5. ASSUME Reliable PROVE Data(t, k, L, F)
    <3>1. Data(s, k, L, F)
      BY <2>1, <2>5 DEF Good
    <3>2. ASSUME NEW w \in Words, LineOf(w) = line, line \notin F
          PROVE  words[Offset(w)] = s.mem[w]
      BY <1>8, <2>5, <3>2
    <3>3. CleanData(t, k, F)
      BY <1>3, <1>5, <3>1, <3>2 DEF Data, CleanData
    <3>4. BurstData(t, F) /\ AccessData(t) /\ MaintenanceData(t, k)
      BY <2>2 DEF BurstData, AccessData, MaintenanceData
    <3>5. ASSUME NEW w \in Words, LineOf(w) \notin F
          PROVE  VisibleIn(t, w) = VisibleIn(s, w)
      BY <1>3, <1>4, <1>5, <3>2, <3>5 DEF VisibleIn
    <3>6. WordData(t, k, L, F)
      BY <1>3, <3>1, <3>5 DEF Data, WordData
    <3> QED BY <3>3, <3>4, <3>6 DEF Data
  <2> QED BY <1>3, <1>4, <1>5, <1>8, <2>1, <2>2, <2>4, <2>5 DEF Good, Chain, Fine, t
<1> QED BY <1>7, <1>8 DEF Chain

LEMMA ChainIdle ==
  ASSUME NEW i, NEW s, NEW f, NEW k, NEW L, NEW F, Chain(i, s, f, k, L, F), s.pending = None
  PROVE  s.burst = None
PROOF
  BY DEF Chain, Fine, Good, Struct, GoodInstruction, InstructionStruct, Bank, BurstOK

(* A miss starts: the victim leaves, its dirty words become the            *)
(* write-back.                                                             *)
LEMMA Started ==
  ASSUME NEW i, NEW s, NEW f, NEW k, NEW L, NEW F, Chain(i, s, f, k, L, F),
         s.pending = None, NEW line \in CachedLines, Held(s, line) = None,
         IF i THEN line = LineOf(f.word) ELSE k # None /\ line = LineOf(k.word)
  PROVE  LET t == StartPending(s, line)
         IN  /\ Chain(i, t, f, k, L, F) /\ t.pending # None /\ t.pending.line = line
             /\ t.config = s.config /\ t.mem = s.mem /\ t.access = s.access
             /\ t.weather = s.weather
PROOF
<1> DEFINE c == s.config
           t == StartPending(s, line)
           p == t.pending
           set == SetOf(c, line)
           victim == s.sets[set].lines[p.way]
           gone == LineForTag(c, set, victim.tag)
<1>1. Bank(s) /\ s.maintenance = None /\ s.burst = None
  BY ChainIdle DEF Chain, Fine, Good, Struct, GoodInstruction, InstructionStruct
<1>2. Shape(s) /\ LinesOK(s)
  BY <1>1 DEF Bank
<1>3. /\ Shape(t) /\ t.maintenance = s.maintenance /\ t.mem = s.mem
      /\ t.burst = s.burst /\ t.access = s.access /\ t.weather = s.weather
  BY <1>2, StartPendingIs
<1>4. /\ LinesOK(t) /\ t.config = c
      /\ p \in PendingLineOp /\ p.line = line /\ p.way \in Ways(c)
      /\ t.sets[set].lines[p.way] = None
      /\ \A l \in CachedLines :
           Held(t, l) = IF victim # None /\ l = gone THEN None ELSE Held(s, l)
      /\ victim # None => /\ gone \in CachedLines /\ gone # line
                          /\ Held(s, gone) = victim /\ victim \in CacheLine
      /\ p.write_back = IF victim # None /\ c.write_back /\ victim.dirty
                        THEN [line |-> gone, words |-> victim.words] ELSE None
  BY <1>2, StartPendingHeld
<1> HIDE DEF t, gone, victim
<1>5. p # None
  BY <1>4, NoneAssumption
<1>6. ASSUME p.write_back # None
      PROVE  /\ victim # None /\ c.write_back /\ victim.dirty
             /\ p.write_back.line = gone /\ p.write_back.words = victim.words
  BY <1>4, <1>6
<1>7. PendingOK(t)
  BY <1>1, <1>3, <1>4, <1>6 DEF PendingOK
<1>8. Bank(t)
  BY <1>1, <1>3, <1>4, <1>7 DEF Bank, BurstOK
<1>9. CASE i
  <2>1. GoodInstruction(s, f, k, L, F)
    BY <1>9 DEF Chain, Fine
  <2>2. p.write_back = None
    <3> SUFFICES ASSUME p.write_back # None PROVE FALSE
      OBVIOUS
    <3> QED BY <1>4, <1>6, <2>1 DEF GoodInstruction, InstructionStruct, IsDirty
  <2>3. InstructionStruct(t, f, F)
    BY <1>1, <1>3, <1>4, <1>8, <2>1, <2>2 DEF GoodInstruction, InstructionStruct, IsDirty
  <2>4. ASSUME Reliable PROVE InstructionData(t, f, k, L, F)
    <3>1. InstructionData(s, f, k, L, F) /\ f # None /\ line = LineOf(f.word)
      BY <1>9, <2>1, <2>4 DEF GoodInstruction, Chain
    <3>2. \A w \in Words :
             LineOf(w) \in CachedLines /\ LineOf(w) \notin F /\ Held(t, LineOf(w)) # None =>
               Held(t, LineOf(w)).words[Offset(w)] = L[w] \/ StoringBy(k, w)
      BY <1>4, <3>1 DEF InstructionData
    <3>3. MemCurrent(t, k, L, line)
      BY <1>3, <3>1 DEF InstructionData, MemCurrent
    <3> QED BY <1>1, <1>3, <1>4, <3>1, <3>2, <3>3 DEF InstructionData
  <2> QED BY <1>3, <1>4, <1>5, <1>9, <2>3, <2>4 DEF GoodInstruction, Chain, Fine, t
<1>10. CASE ~i
  <2>1. Good(s, k, L, F) /\ s.access = None /\ s.maintenance = None
    BY <1>10 DEF Chain, Fine
  <2>2. t.access = None /\ t.maintenance = None /\ t.burst = None
    BY <1>1, <1>3, <2>1
  <2>3. DirtyOK(t, F)
    <3>1. DirtyOK(s, F)
      BY <2>1 DEF Good, Struct
    <3>2. \A l \in CachedLines : Held(t, l) # None => Held(t, l) = Held(s, l)
      BY <1>4
    <3>3. p.write_back # None => p.write_back.line \notin F
      BY <1>4, <1>6, <3>1 DEF DirtyOK
    <3> QED BY <1>4, <3>1, <3>2, <3>3 DEF DirtyOK
  <2>4. Struct(t, k, F)
    BY <1>8, <2>1, <2>2, <2>3 DEF Good, Struct, MaintenanceOK, AccessOK
  <2>5. ASSUME Reliable PROVE Data(t, k, L, F)
    <3>1. Data(s, k, L, F) /\ DirtyOK(s, F)
      BY <2>1, <2>5 DEF Good, Struct
    <3>2. CleanData(t, k, F)
      BY <1>3, <1>4, <3>1 DEF Data, CleanData
    <3>3. BurstData(t, F) /\ AccessData(t) /\ MaintenanceData(t, k)
      BY <2>2 DEF BurstData, AccessData, MaintenanceData
    <3>4. ASSUME NEW w \in Words, LineOf(w) \notin F
          PROVE  VisibleIn(t, w) = VisibleIn(s, w)
      <4>1. CASE victim # None /\ LineOf(w) = gone
        <5>1. /\ gone \in CachedLines /\ gone # line /\ Held(s, gone) = victim /\ Held(t, gone) = None
              /\ victim # None
          BY <1>4, <4>1
        <5>2. VisibleIn(s, w) = victim.words[Offset(w)]
          BY <4>1, <5>1 DEF VisibleIn
        <5>3. CASE victim.dirty
          <6>1. p.write_back = [line |-> gone, words |-> victim.words] /\ p.write_back # None
            <7>1. c.write_back
              BY <3>1, <5>1, <5>3 DEF DirtyOK
            <7>2. p.write_back = [line |-> gone, words |-> victim.words]
              BY <1>4, <5>1, <5>3, <7>1
            <7>3. victim.words \in LineData
              BY <1>4, <5>1 DEF CacheLine
            <7>4. [line |-> gone, words |-> victim.words] \in PendingWriteBack
              BY <5>1, <7>3 DEF PendingWriteBack
            <7> QED BY <7>2, <7>4, NoneAssumption
          <6> QED BY <1>5, <4>1, <5>1, <5>2, <6>1 DEF VisibleIn
        <5>4. CASE ~victim.dirty
          <6>1. p.write_back = None
            BY <1>4, <5>4
          <6>2. ~StoringBy(k, w)
            BY <1>10, <4>1, <5>1 DEF StoringBy
          <6>3. victim.words[Offset(w)] = s.mem[w]
            BY <3>1, <3>4, <4>1, <5>1, <5>4, <6>2 DEF Data, CleanData
          <6> QED BY <1>3, <4>1, <5>1, <5>2, <6>1, <6>3 DEF VisibleIn
        <5> QED BY <5>3, <5>4
      <4>2. CASE ~(victim # None /\ LineOf(w) = gone)
        <5>1. p.write_back # None => p.write_back.line # LineOf(w)
          BY <1>6, <4>2
        <5>2. LineOf(w) \in CachedLines => Held(t, LineOf(w)) = Held(s, LineOf(w))
          BY <1>4, <4>2
        <5> QED BY <1>3, <1>5, <5>1, <5>2 DEF VisibleIn
      <4> QED BY <4>1, <4>2
    <3>5. WordData(t, k, L, F)
      BY <1>3, <3>1, <3>4 DEF Data, WordData
    <3> QED BY <3>2, <3>3, <3>5 DEF Data
  <2> QED BY <1>3, <1>4, <1>5, <1>10, <2>1, <2>2, <2>4, <2>5 DEF Good, Chain, Fine, t
<1> QED BY <1>9, <1>10 DEF Chain

-----------------------------------------------------------------------------
(* drive_burst_until_blocked and what is built from it.                    *)

Request(kind, line, words, n) == [kind |-> kind, line |-> line, words |-> words, left |-> n]

LEMMA DriveCases ==
  ASSUME NEW s, s.weather \in Weathers, s.burst = None \/ s.burst \in Bursts,
         NEW kind \in {"read", "write"}, NEW line, NEW words
  PROVE  LET d == DriveBurst(s, kind, line, words)
         IN  \/ /\ s.burst # None /\ s.burst.left # 0
                /\ d.answer = "Busy" /\ d.s = s
             \/ /\ s.burst # None /\ s.burst.left = 0
                /\ d.answer = "Ready" /\ d.s = [s EXCEPT !.burst = None] /\ d.words = s.burst.words
             \/ /\ s.burst = None /\ MayRefuse
                /\ d.answer = "Refused" /\ d.s = s
             \/ /\ s.burst = None /\ d.answer = "Ready"
                /\ d.s = [s EXCEPT !.mem = Perform(s.mem, Request(kind, line, words, 0))]
                /\ d.words = Carried(s.mem, Request(kind, line, words, 0))
             \/ /\ s.burst = None /\ d.answer = "Busy"
                /\ \E n \in Nat \ {0} : d.s = [s EXCEPT !.burst = Request(kind, line, words, n)]
PROOF
<1> DEFINE d == DriveBurst(s, kind, line, words)
           latency == s.weather[kind]
           request == [kind |-> kind, line |-> line, words |-> words, left |-> latency]
<1>1. latency \in Nat \/ (latency = None /\ MayRefuse)
  BY CacheAssumption DEF Weathers
<1>2. None \notin Nat
  BY NoneAssumption
<1>3. CASE s.burst # None
  <2>1. s.burst.left \in Nat
    BY <1>3 DEF Bursts
  <2>2. CASE s.burst.left = 0
    BY <1>3, <2>2 DEF DriveBurst, Outcome
  <2>3. CASE s.burst.left # 0
    <3>1. s.burst.left > 0
      BY <2>1, <2>3
    <3> QED BY <1>3, <2>3, <3>1 DEF DriveBurst, Outcome
  <2> QED BY <2>2, <2>3
<1>4. CASE s.burst = None /\ latency = None
  <2>1. MayRefuse
    BY <1>1, <1>2, <1>4
  <2>2. d = Outcome("Refused", s)
    <3>1. latency # 0
      BY <1>2, <1>4
    <3> QED BY <1>4, <3>1 DEF DriveBurst
  <2> QED BY <1>4, <2>1, <2>2 DEF Outcome
<1>5. CASE s.burst = None /\ latency = 0
  <2>1. 0 # None
    BY <1>2
  <2>2. request = Request(kind, line, words, 0)
    BY <1>5 DEF Request
  <2>3. d = [answer |-> "Ready", s |-> [s EXCEPT !.mem = Perform(@, request)],
              words |-> Carried(s.mem, request)]
    BY <1>5, <2>1 DEF DriveBurst
  <2> QED BY <1>5, <2>2, <2>3
<1>6. CASE s.burst = None /\ latency # None /\ latency # 0
  <2>1. d = Outcome("Busy", [s EXCEPT !.burst = request])
    BY <1>6 DEF DriveBurst
  <2>2. latency \in Nat \ {0}
    BY <1>1, <1>6
  <2>3. request = Request(kind, line, words, latency)
    BY DEF Request
  <2> HIDE DEF request, latency, d
  <2> QED BY <1>6, <2>1, <2>2, <2>3 DEF Outcome, d
<1> QED BY <1>3, <1>4, <1>5, <1>6

(* What a write-back does to the words, and what a refill reads.           *)
LEMMA PerformIs ==
  ASSUME NEW m \in [Words -> Values], NEW line \in CachedLines, NEW words, NEW n
  PROVE  /\ words \in LineData =>
              /\ Perform(m, Request("write", line, words, n)) \in [Words -> Values]
              /\ Written(m, Perform(m, Request("write", line, words, n)), line, words)
         /\ Perform(m, Request("read", line, words, n)) = m
         /\ Carried(m, Request("read", line, words, n)) \in LineData
         /\ \A w \in Words : LineOf(w) = line =>
              Carried(m, Request("read", line, words, n))[Offset(w)] = m[w]
PROOF
<1> DEFINE q == Request("write", line, words, n)
           r == Request("read", line, words, n)
<1>1. q.kind = "write" /\ q.line = line /\ q.words = words /\ r.kind = "read" /\ r.line = line
  BY DEF Request
<1> HIDE DEF q, r
<1>2. Perform(m, q) = [w \in Words |-> IF LineOf(w) = line THEN words[Offset(w)] ELSE m[w]]
  BY <1>1 DEF Perform
<1>3. Perform(m, r) = m
  BY <1>1 DEF Perform
<1>4. Carried(m, r) = [o \in Offsets |-> m[line * LineWords + o]]
  BY <1>1 DEF Carried
<1>5. ASSUME words \in LineData
      PROVE  Perform(m, q) \in [Words -> Values] /\ Written(m, Perform(m, q), line, words)
  <2>1. \A w \in Words : Offset(w) \in Offsets
    BY WordIs
  <2> QED BY <1>2, <1>5, <2>1 DEF LineData, Written
<1>6. line \in 0 .. (LineCount - 1)
  BY CacheAssumption
<1>7. \A o \in Offsets : line * LineWords + o \in Words
  BY <1>6, WordAt
<1>8. Carried(m, r) \in LineData
  BY <1>4, <1>7 DEF LineData
<1>9. ASSUME NEW w \in Words, LineOf(w) = line PROVE Carried(m, r)[Offset(w)] = m[w]
  <2>1. Offset(w) \in Offsets /\ w = line * LineWords + Offset(w)
    BY <1>9, WordIs
  <2> QED BY <1>4, <2>1
<1> QED BY <1>3, <1>5, <1>8, <1>9 DEF q, r

(* What an access leaves alone while it works on a line.                   *)
Kept(i, s, t, k, L, F) ==
  /\ t.config = s.config /\ t.weather = s.weather /\ t.access = s.access /\ (i => t.mem = s.mem)
  /\ Reliable => \A w \in Words : LineOf(w) \notin F =>
       t.mem[w] = s.mem[w] \/ t.mem[w] = L[w] \/ StoringBy(k, w)

LEMMA KeptChain ==
  ASSUME NEW i, NEW s, NEW t, NEW u, NEW k, NEW L, NEW F, Kept(i, s, t, k, L, F), Kept(i, t, u, k, L, F)
  PROVE  Kept(i, s, u, k, L, F)
PROOF
  BY DEF Kept

LEMMA ChainIs ==
  ASSUME NEW i, NEW s, NEW f, NEW k, NEW L, NEW F, Chain(i, s, f, k, L, F)
  PROVE  /\ Shape(s) /\ LinesOK(s) /\ PendingOK(s) /\ BurstOK(s) /\ s.mem \in [Words -> Values]
         /\ s.weather \in Weathers /\ s.maintenance = None /\ i \in BOOLEAN
         /\ s.burst = None \/ s.burst \in Bursts
         /\ i => s.pending = None \/ s.pending.write_back = None
PROOF
<1>1. Bank(s)
  BY DEF Chain, Fine, Good, Struct, GoodInstruction, InstructionStruct
<1>2. i => s.pending = None \/ s.pending.write_back = None
  BY DEF Chain, Fine, GoodInstruction, InstructionStruct
<1> QED BY <1>1, <1>2 DEF Bank, Chain, BurstOK

(* progress_write_back.                                                    *)
LEMMA DrainStep ==
  ASSUME NEW i, NEW s, NEW f, NEW k, NEW L, NEW F, Chain(i, s, f, k, L, F),
         s.pending # None, s.pending.write_back # None
  PROVE  LET d == Progress(s, "write", s.pending.write_back.line, s.pending.write_back.words)
             t == [d.s EXCEPT !.pending.write_back = None]
         IN  \/ d.answer = "Busy" /\ Chain(i, d.s, f, k, L, F) /\ Kept(i, s, d.s, k, L, F)
             \/ /\ d.answer = "Ready" /\ Chain(i, t, f, k, L, F) /\ Kept(i, s, t, k, L, F)
                /\ t.pending # None /\ t.pending.line = s.pending.line
                /\ t.pending.write_back = None /\ t.burst = None
PROOF
<1> DEFINE p == s.pending
           wb == p.write_back
           e == DriveBurst(s, "write", wb.line, wb.words)
           d == Progress(s, "write", wb.line, wb.words)
           t == [d.s EXCEPT !.pending.write_back = None]
<1>1. /\ Shape(s) /\ LinesOK(s) /\ PendingOK(s) /\ BurstOK(s) /\ s.mem \in [Words -> Values]
      /\ s.weather \in Weathers /\ s.maintenance = None /\ i \in BOOLEAN
      /\ s.burst = None \/ s.burst \in Bursts
      /\ ~i
  BY ChainIs
<1>2. wb \in PendingWriteBack /\ wb.line \in CachedLines /\ wb.words \in LineData /\ p \in PendingLineOp
  <2>1. p \in PendingLineOp
    BY <1>1 DEF PendingOK
  <2>2. wb \in PendingWriteBack
    BY <2>1 DEF PendingLineOp
  <2> QED BY <2>1, <2>2 DEF PendingWriteBack
<1>3. \/ /\ s.burst # None /\ s.burst.left # 0
         /\ e.answer = "Busy" /\ e.s = s
      \/ /\ s.burst # None /\ s.burst.left = 0
         /\ e.answer = "Ready" /\ e.s = [s EXCEPT !.burst = None] /\ e.words = s.burst.words
      \/ /\ s.burst = None /\ MayRefuse
         /\ e.answer = "Refused" /\ e.s = s
      \/ /\ s.burst = None /\ e.answer = "Ready"
         /\ e.s = [s EXCEPT !.mem = Perform(s.mem, Request("write", wb.line, wb.words, 0))]
         /\ e.words = Carried(s.mem, Request("write", wb.line, wb.words, 0))
      \/ /\ s.burst = None /\ e.answer = "Busy"
         /\ \E n \in Nat \ {0} : e.s = [s EXCEPT !.burst = Request("write", wb.line, wb.words, n)]
  BY <1>1, DriveCases
<1>4. d = IF e.answer = "Refused" THEN Outcome("Busy", [s EXCEPT !.pending = None]) ELSE e
  BY DEF Progress
<1> HIDE DEF wb, e, d
<1>5. ASSUME NEW m, d.answer = "Ready", Shape(d.s), SameSets(s, d.s), d.s.pending = p,
             d.s.burst = None, d.s.mem \in [Words -> Values],
             Reliable => Written(s.mem, d.s.mem, wb.line, wb.words)
      PROVE  /\ Chain(i, t, f, k, L, F) /\ Kept(i, s, t, k, L, F)
             /\ t.pending # None /\ t.pending.line = p.line
             /\ t.pending.write_back = None /\ t.burst = None
  <2>1. /\ Shape(t) /\ t.config = d.s.config /\ t.sets = d.s.sets /\ t.maintenance = d.s.maintenance
        /\ t.access = d.s.access /\ t.weather = d.s.weather /\ t.mem = d.s.mem
        /\ t.burst = d.s.burst /\ t.pending = [p EXCEPT !.write_back = None]
    BY <1>5 DEF Shape
  <2> HIDE DEF t
  <2>2. SameSets(s, t)
    BY <1>5, <2>1 DEF SameSets
  <2>3. Chain(i, t, f, k, L, F)
    BY <1>5, <2>1, <2>2, Drained DEF wb
  <2>4. t.pending.line = p.line /\ t.pending.write_back = None /\ t.pending \in PendingLineOp
    <3> HIDE DEF p
    <3> QED BY <1>2, <2>1 DEF PendingLineOp
  <2>5. t.pending # None
    BY <2>4, NoneAssumption
  <2>6. ASSUME Reliable, NEW w \in Words, LineOf(w) \notin F
        PROVE  t.mem[w] = s.mem[w] \/ t.mem[w] = L[w] \/ StoringBy(k, w)
    <3>1. Data(s, k, L, F)
      BY <1>1, <2>6 DEF Chain, Fine, Good
    <3>2. CASE LineOf(w) # wb.line
      BY <1>5, <2>1, <2>6, <3>2 DEF Written
    <3>3. CASE LineOf(w) = wb.line
      <4>1. t.mem[w] = wb.words[Offset(w)]
        BY <1>5, <2>1, <2>6, <3>3 DEF Written
      <4>2. VisibleIn(s, w) = wb.words[Offset(w)]
        BY <1>1, <3>3 DEF VisibleIn, PendingOK, wb
      <4> QED BY <2>6, <3>1, <4>1, <4>2 DEF Data, WordData
    <3> QED BY <3>2, <3>3
  <2> QED BY <1>1, <1>5, <2>1, <2>2, <2>3, <2>4, <2>5, <2>6 DEF Kept, SameSets
<1>6. CASE s.burst # None /\ s.burst.left # 0
  <2>1. d.answer = "Busy" /\ d.s = s
    BY <1>3, <1>4, <1>6
  <2> QED BY <1>1, <2>1 DEF Kept, d, wb
<1>7. CASE s.burst # None /\ s.burst.left = 0
  <2>1. d.answer = "Ready" /\ d.s = [s EXCEPT !.burst = None]
    BY <1>3, <1>4, <1>7
  <2>2. Shape(d.s) /\ SameSets(s, d.s) /\ d.s.pending = p /\ d.s.burst = None /\ d.s.mem = s.mem
    BY <1>1, <2>1 DEF Shape, SameSets
  <2>3. Reliable => Written(s.mem, d.s.mem, wb.line, wb.words)
    <3> SUFFICES ASSUME Reliable PROVE Written(s.mem, s.mem, wb.line, wb.words)
      BY <2>2
    <3>1. Good(s, k, L, F)
      BY <1>1 DEF Chain, Fine
    <3>2. BurstData(s, F) /\ wb.line \notin F
      BY <3>1 DEF Good, Data, Struct, DirtyOK, wb
    <3>3. s.burst.line = wb.line /\ s.burst.words = wb.words
      BY <1>1, <1>7 DEF BurstOK, wb
    <3> QED BY <1>7, <3>2, <3>3 DEF BurstData, Written
  <2> QED BY <1>1, <1>5, <2>1, <2>2, <2>3 DEF d, wb
<1>8. CASE s.burst = None /\ e.answer = "Refused"
  <2> DEFINE u == [s EXCEPT !.pending = None]
  <2>1. d.answer = "Busy" /\ d.s = u /\ MayRefuse
    BY <1>3, <1>4, <1>8 DEF Outcome
  <2>2. SameSets(s, u) /\ u.pending = None /\ u.burst = None /\ u.mem = s.mem
    BY <1>1, <1>8 DEF Shape, SameSets
  <2> HIDE DEF u
  <2>3. Chain(i, u, f, k, L, F)
    BY <1>8, <2>1, <2>2, Forgotten
  <2>4. Kept(i, s, u, k, L, F)
    BY <2>2 DEF Kept, SameSets
  <2> QED BY <2>1, <2>3, <2>4 DEF d, wb
<1>9. CASE s.burst = None /\ e.answer = "Ready"
  <2> DEFINE m == Perform(s.mem, Request("write", wb.line, wb.words, 0))
  <2>1. d.answer = "Ready" /\ d.s = [s EXCEPT !.mem = m]
    BY <1>3, <1>4, <1>9
  <2>2. m \in [Words -> Values] /\ Written(s.mem, m, wb.line, wb.words)
    BY <1>1, <1>2, PerformIs
  <2> HIDE DEF m
  <2>3. Shape(d.s) /\ SameSets(s, d.s) /\ d.s.pending = p /\ d.s.burst = None /\ d.s.mem = m
    BY <1>1, <1>9, <2>1 DEF Shape, SameSets
  <2> QED BY <1>5, <2>1, <2>2, <2>3 DEF d, wb
<1>10. CASE s.burst = None /\ e.answer = "Busy"
  <2>1. PICK n \in Nat \ {0} : e.s = [s EXCEPT !.burst = Request("write", wb.line, wb.words, n)]
    BY <1>3, <1>10
  <2> DEFINE r == Request("write", wb.line, wb.words, n)
             u == [s EXCEPT !.burst = r]
  <2>2. d.answer = "Busy" /\ d.s = u
    BY <1>4, <1>10, <2>1
  <2>3. Matches(s, r)
    BY <1>2 DEF Matches, Request, Bursts, wb
  <2> HIDE DEF r
  <2>4. SameSets(s, u) /\ u.pending = p /\ u.burst = r /\ u.mem = s.mem
    BY <1>1 DEF Shape, SameSets
  <2> HIDE DEF u
  <2>5. Chain(i, u, f, k, L, F)
    BY <2>3, <2>4, Submitted
  <2>6. Kept(i, s, u, k, L, F)
    BY <2>4 DEF Kept, SameSets
  <2> QED BY <2>2, <2>5, <2>6 DEF d, wb
<1> QED BY <1>3, <1>6, <1>7, <1>8, <1>9, <1>10

(* progress_refill.                                                        *)
LEMMA FillStep ==
  ASSUME NEW i, NEW s, NEW f, NEW k, NEW L, NEW F, Chain(i, s, f, k, L, F),
         s.pending # None, s.pending.write_back = None
  PROVE  LET d == Progress(s, "read", s.pending.line, None)
             t == Install(d.s, d.words)
         IN  \/ d.answer = "Busy" /\ Chain(i, d.s, f, k, L, F) /\ Kept(i, s, d.s, k, L, F)
             \/ /\ d.answer = "Ready" /\ Chain(i, t, f, k, L, F) /\ Kept(i, s, t, k, L, F)
                /\ t.pending = None /\ Held(t, s.pending.line) # None
PROOF
<1> DEFINE p == s.pending
           line == p.line
           e == DriveBurst(s, "read", line, None)
           d == Progress(s, "read", line, None)
           t == Install(d.s, d.words)
<1>1. /\ Shape(s) /\ LinesOK(s) /\ PendingOK(s) /\ BurstOK(s) /\ s.mem \in [Words -> Values]
      /\ s.weather \in Weathers /\ s.maintenance = None /\ i \in BOOLEAN
      /\ s.burst = None \/ s.burst \in Bursts
  BY ChainIs
<1>2. line \in CachedLines /\ p \in PendingLineOp
  BY <1>1 DEF PendingOK, PendingLineOp
<1>3. \/ /\ s.burst # None /\ s.burst.left # 0
         /\ e.answer = "Busy" /\ e.s = s
      \/ /\ s.burst # None /\ s.burst.left = 0
         /\ e.answer = "Ready" /\ e.s = [s EXCEPT !.burst = None] /\ e.words = s.burst.words
      \/ /\ s.burst = None /\ MayRefuse
         /\ e.answer = "Refused" /\ e.s = s
      \/ /\ s.burst = None /\ e.answer = "Ready"
         /\ e.s = [s EXCEPT !.mem = Perform(s.mem, Request("read", line, None, 0))]
         /\ e.words = Carried(s.mem, Request("read", line, None, 0))
      \/ /\ s.burst = None /\ e.answer = "Busy"
         /\ \E n \in Nat \ {0} : e.s = [s EXCEPT !.burst = Request("read", line, None, n)]
  BY <1>1, DriveCases, SMTT(20)
<1>4. d = IF e.answer = "Refused" THEN Outcome("Busy", [s EXCEPT !.pending = None]) ELSE e
  BY DEF Progress
<1> HIDE DEF e, d
<1>5. ASSUME d.answer = "Ready", SameSets(s, d.s), d.s.pending = p,
             d.s.burst = None, d.s.mem = s.mem, d.words \in LineData,
             Reliable /\ line \notin F =>
               \A w \in Words : LineOf(w) = line =>
                 \/ d.words[Offset(w)] = s.mem[w]
                 \/ i /\ (d.words[Offset(w)] = L[w] \/ StoringBy(k, w))
      PROVE  /\ Chain(i, t, f, k, L, F) /\ Kept(i, s, t, k, L, F)
             /\ t.pending = None /\ Held(t, line) # None
  <2>1. Chain(i, d.s, f, k, L, F)
    BY <1>5, Submitted
  <2>2. /\ Chain(i, t, f, k, L, F) /\ t.pending = None /\ t.burst = None
        /\ Held(t, d.s.pending.line) # None
        /\ t.config = d.s.config /\ t.mem = d.s.mem /\ t.access = d.s.access
        /\ t.weather = d.s.weather
    BY <1>5, <2>1, Installed
  <2> QED BY <1>5, <2>2 DEF Kept, SameSets
<1>6. CASE s.burst # None /\ s.burst.left # 0
  <2>1. d.answer = "Busy" /\ d.s = s
    BY <1>3, <1>4, <1>6
  <2> QED BY <1>1, <2>1 DEF Kept, d
<1>7. CASE s.burst # None /\ s.burst.left = 0
  <2>1. d.answer = "Ready" /\ d.s = [s EXCEPT !.burst = None] /\ d.words = s.burst.words
    BY <1>3, <1>4, <1>7
  <2>2. SameSets(s, d.s) /\ d.s.pending = p /\ d.s.burst = None /\ d.s.mem = s.mem
    BY <1>1, <2>1 DEF Shape, SameSets
  <2>3. s.burst.line = line /\ s.burst.words \in LineData
    BY <1>1, <1>7 DEF BurstOK
  <2>4. ASSUME Reliable, line \notin F, NEW w \in Words, LineOf(w) = line
        PROVE  \/ d.words[Offset(w)] = s.mem[w]
               \/ i /\ (d.words[Offset(w)] = L[w] \/ StoringBy(k, w))
    <3>1. CASE i
      BY <1>7, <2>1, <2>3, <2>4, <3>1 DEF Chain, Fine, GoodInstruction, InstructionData
    <3>2. CASE ~i
      <4>1. BurstData(s, F)
        BY <2>4, <3>2 DEF Chain, Fine, Good, Data
      <4> QED BY <1>7, <2>1, <2>3, <2>4, <4>1 DEF BurstData
    <3> QED BY <3>1, <3>2
  <2> QED BY <1>5, <2>1, <2>2, <2>3, <2>4 DEF d
<1>8. CASE s.burst = None /\ e.answer = "Refused"
  <2> DEFINE u == [s EXCEPT !.pending = None]
  <2>1. d.answer = "Busy" /\ d.s = u /\ MayRefuse
    BY <1>3, <1>4, <1>8 DEF Outcome
  <2>2. SameSets(s, u) /\ u.pending = None /\ u.burst = None /\ u.mem = s.mem
    BY <1>1, <1>8 DEF Shape, SameSets
  <2> HIDE DEF u
  <2>3. Chain(i, u, f, k, L, F)
    BY <1>8, <2>1, <2>2, Forgotten
  <2>4. Kept(i, s, u, k, L, F)
    BY <2>2 DEF Kept, SameSets
  <2> QED BY <2>1, <2>3, <2>4 DEF d
<1>9. CASE s.burst = None /\ e.answer = "Ready"
  <2> DEFINE r == Request("read", line, None, 0)
             m == Perform(s.mem, r)
             got == Carried(s.mem, r)
  <2>1. d.answer = "Ready" /\ d.s = [s EXCEPT !.mem = m] /\ d.words = got
    BY <1>3, <1>4, <1>9
  <2>2. m = s.mem /\ got \in LineData /\ \A w \in Words : LineOf(w) = line => got[Offset(w)] = s.mem[w]
    BY <1>1, <1>2, PerformIs
  <2> HIDE DEF m, got
  <2>3. SameSets(s, d.s) /\ d.s.pending = p /\ d.s.burst = None /\ d.s.mem = s.mem
    BY <1>1, <1>9, <2>1, <2>2 DEF Shape, SameSets
  <2> QED BY <1>5, <2>1, <2>2, <2>3 DEF d
<1>10. CASE s.burst = None /\ e.answer = "Busy"
  <2>1. PICK n \in Nat \ {0} : e.s = [s EXCEPT !.burst = Request("read", line, None, n)]
    BY <1>3, <1>10
  <2> DEFINE r == Request("read", line, None, n)
             u == [s EXCEPT !.burst = r]
  <2>2. d.answer = "Busy" /\ d.s = u
    BY <1>4, <1>10, <2>1
  <2>3. Matches(s, r)
    BY <1>2 DEF Matches, Request, Bursts
  <2> HIDE DEF r
  <2>4. SameSets(s, u) /\ u.pending = p /\ u.burst = r /\ u.mem = s.mem
    BY <1>1 DEF Shape, SameSets
  <2> HIDE DEF u
  <2>5. Chain(i, u, f, k, L, F)
    BY <2>3, <2>4, Submitted
  <2>6. Kept(i, s, u, k, L, F)
    BY <2>4 DEF Kept, SameSets
  <2> QED BY <2>2, <2>5, <2>6 DEF d
<1> QED BY <1>3, <1>6, <1>7, <1>8, <1>9, <1>10

(* What an operation on a bank has done when it is answered.               *)
Answered(o, i, s, f, k, L, F) ==
  /\ Chain(i, o.s, f, k, L, F) /\ Kept(i, s, o.s, k, L, F)
  /\ o.answer = "Busy" \/ (o.answer = "Ok" /\ o.s.pending = None)

LEMMA ContinuePendingIs ==
  ASSUME NEW i, NEW s, NEW f, NEW k, NEW L, NEW F, Chain(i, s, f, k, L, F), s.pending # None
  PROVE  LET o == ContinuePending(s)
         IN  /\ Answered(o, i, s, f, k, L, F)
             /\ o.answer = "Ok" => Held(o.s, s.pending.line) # None
PROOF
<1> DEFINE o == ContinuePending(s)
           p == s.pending
           victim == p.write_back
           drained == IF victim = None THEN Outcome("Ready", s)
                      ELSE Progress(s, "write", victim.line, victim.words)
           u == [drained.s EXCEPT !.pending.write_back = None]
           filled == Progress(u, "read", p.line, None)
           t == Install(filled.s, filled.words)
<1>1. o = CASE drained.answer = "Busy" -> drained
            [] drained.answer = "Ready" /\ filled.answer = "Busy" -> filled
            [] drained.answer = "Ready" /\ filled.answer = "Ready" -> Outcome("Ok", t)
  BY DEF ContinuePending
<1>2. \/ drained.answer = "Busy" /\ Chain(i, drained.s, f, k, L, F) /\ Kept(i, s, drained.s, k, L, F)
      \/ /\ drained.answer = "Ready" /\ Chain(i, u, f, k, L, F) /\ Kept(i, s, u, k, L, F)
         /\ u.pending # None /\ u.pending.line = p.line /\ u.pending.write_back = None
  <2>1. CASE victim = None
    <3>1. drained.answer = "Ready" /\ drained.s = s
      BY <2>1 DEF Outcome
    <3>2. Shape(s) /\ PendingOK(s)
      BY ChainIs
    <3>3. p \in PendingLineOp
      BY <3>2 DEF PendingOK
    <3>4. [p EXCEPT !.write_back = None] = p
      <4> HIDE DEF p
      <4> QED BY <2>1, <3>3 DEF PendingLineOp
    <3>5. u = [s EXCEPT !.pending = [p EXCEPT !.write_back = None]]
      BY <3>1
    <3>6. u = s
      BY <3>2, <3>4, <3>5 DEF Shape
    <3> HIDE DEF u, drained
    <3> QED BY <2>1, <3>1, <3>6 DEF Kept
  <2>2. CASE victim # None
    <3>1. drained = Progress(s, "write", victim.line, victim.words)
      BY <2>2
    <3> QED BY <2>2, <3>1, DrainStep
  <2> QED BY <2>1, <2>2
<1> HIDE DEF drained, u, o
<1>3. CASE drained.answer = "Busy"
  <2>1. o = drained
    BY <1>1, <1>3
  <2> QED BY <1>2, <1>3, <2>1 DEF Answered, o
<1>4. CASE drained.answer = "Ready"
  <2>1. /\ Chain(i, u, f, k, L, F) /\ Kept(i, s, u, k, L, F)
        /\ u.pending # None /\ u.pending.line = p.line /\ u.pending.write_back = None
    BY <1>2, <1>4
  <2>2. \/ filled.answer = "Busy" /\ Chain(i, filled.s, f, k, L, F) /\ Kept(i, u, filled.s, k, L, F)
        \/ /\ filled.answer = "Ready" /\ Chain(i, t, f, k, L, F) /\ Kept(i, u, t, k, L, F)
           /\ t.pending = None /\ Held(t, p.line) # None
    BY <2>1, FillStep
  <2> HIDE DEF filled, t
  <2>3. CASE filled.answer = "Busy"
    <3>1. o = filled
      BY <1>1, <1>4, <2>3
    <3>2. Chain(i, filled.s, f, k, L, F) /\ Kept(i, s, filled.s, k, L, F)
      BY <2>1, <2>2, <2>3, KeptChain
    <3> QED BY <2>3, <3>1, <3>2 DEF Answered, o
  <2>4. CASE filled.answer = "Ready"
    <3>1. o = Outcome("Ok", t)
      BY <1>1, <1>4, <2>4
    <3>2. Chain(i, t, f, k, L, F) /\ Kept(i, s, t, k, L, F) /\ t.pending = None /\ Held(t, p.line) # None
      BY <2>1, <2>2, <2>4, KeptChain
    <3> QED BY <3>1, <3>2 DEF Answered, Outcome, o
  <2> QED BY <2>2, <2>3, <2>4
<1> QED BY <1>2, <1>3, <1>4

LEMMA ResumeIs ==
  ASSUME NEW i, NEW s, NEW f, NEW k, NEW L, NEW F, Chain(i, s, f, k, L, F), NEW line
  PROVE  Answered(Resume(s, line), i, s, f, k, L, F)
PROOF
<1>1. CASE s.pending = None
  BY <1>1 DEF Resume, Answered, Outcome, Kept
<1>2. CASE s.pending # None /\ s.pending.line # line
  BY <1>2 DEF Resume, Answered, Outcome, Kept
<1>3. CASE s.pending # None /\ s.pending.line = line
  <2>1. Resume(s, line) = ContinuePending(s)
    BY <1>3 DEF Resume
  <2> QED BY <1>3, <2>1, ContinuePendingIs
<1> QED BY <1>1, <1>2, <1>3

(* ensure_line: when it answers Ok, the bank holds the line.               *)
LEMMA EnsureLineIs ==
  ASSUME NEW i, NEW s, NEW f, NEW k, NEW L, NEW F, Chain(i, s, f, k, L, F),
         NEW line \in CachedLines,
         IF i THEN line = LineOf(f.word) ELSE k # None /\ line = LineOf(k.word)
  PROVE  LET o == EnsureLine(s, line)
         IN  /\ Answered(o, i, s, f, k, L, F)
             /\ o.answer = "Ok" => Held(o.s, line) # None
PROOF
<1> DEFINE o == EnsureLine(s, line)
           r == Resume(s, line)
           u == StartPending(r.s, line)
<1>1. Answered(r, i, s, f, k, L, F)
  BY ResumeIs
<1>2. o = IF r.answer = "Ok" /\ Resident(r.s, line) = {} THEN ContinuePending(u) ELSE r
  BY DEF EnsureLine
<1> HIDE DEF r, o
<1>3. Chain(i, r.s, f, k, L, F) /\ Kept(i, s, r.s, k, L, F)
  BY <1>1 DEF Answered
<1>4. Held(r.s, line) = None <=> Resident(r.s, line) = {}
  <2>1. LinesOK(r.s)
    BY <1>3, ChainIs
  <2> QED BY <2>1, HeldIs
<1>5. CASE r.answer = "Ok" /\ Resident(r.s, line) = {}
  <2>1. r.s.pending = None
    BY <1>1, <1>5 DEF Answered
  <2>2. /\ Chain(i, u, f, k, L, F) /\ u.pending # None /\ u.pending.line = line
        /\ u.config = r.s.config /\ u.mem = r.s.mem /\ u.access = r.s.access
        /\ u.weather = r.s.weather
    BY <1>3, <1>4, <1>5, <2>1, Started
  <2> HIDE DEF u
  <2>3. Kept(i, s, u, k, L, F)
    BY <1>3, <2>2 DEF Kept
  <2>4. o = ContinuePending(u)
    BY <1>2, <1>5
  <2>5. Answered(o, i, u, f, k, L, F) /\ (o.answer = "Ok" => Held(o.s, line) # None)
    BY <2>2, <2>4, ContinuePendingIs
  <2>6. Answered(o, i, s, f, k, L, F)
    BY <2>3, <2>5, KeptChain DEF Answered
  <2> QED BY <2>5, <2>6 DEF o
<1>6. CASE ~(r.answer = "Ok" /\ Resident(r.s, line) = {})
  <2>1. o = r
    BY <1>2, <1>6
  <2> QED BY <1>1, <1>4, <1>6, <2>1 DEF o
<1> QED BY <1>5, <1>6

-----------------------------------------------------------------------------
(* Loads, stores and fetches.                                              *)

(* An attempt at the call k leaves the bank good, for the call while it is *)
(* answered Busy, and without it once it is answered Ok.                   *)
Attempted(o, s, k, L, F, N, G) ==
  /\ o.s.config = s.config
  /\ \/ o.answer = "Busy" /\ Good(o.s, k, L, F)
     \/ o.answer = "Ok" /\ Good(o.s, None, N, G)
  /\ Reliable => \A w \in Words : LineOf(w) \notin F =>
       o.s.mem[w] = s.mem[w] \/ o.s.mem[w] = L[w] \/ StoringBy(k, w)

LEMMA GoodIs ==
  ASSUME NEW s, NEW k, NEW L, NEW F, Good(s, k, L, F)
  PROVE  /\ Shape(s) /\ LinesOK(s) /\ PendingOK(s) /\ BurstOK(s) /\ s.mem \in [Words -> Values]
         /\ s.config \in CacheConfig /\ s.config.write_back \in BOOLEAN
         /\ s.config.write_allocate \in BOOLEAN
         /\ CallOK(k, F) /\ MaintenanceOK(s, k) /\ AccessOK(s, k) /\ DirtyOK(s, F)
         /\ L \in [Words -> Values] /\ (Reliable => Data(s, k, L, F))
PROOF
<1>1. /\ Shape(s) /\ LinesOK(s) /\ PendingOK(s) /\ BurstOK(s) /\ s.mem \in [Words -> Values]
      /\ CallOK(k, F) /\ MaintenanceOK(s, k) /\ AccessOK(s, k) /\ DirtyOK(s, F)
      /\ L \in [Words -> Values] /\ (Reliable => Data(s, k, L, F))
  BY DEF Good, Struct, Bank
<1>2. s.config \in Configs
  BY <1>1 DEF LinesOK, LinesTyped
<1> QED BY <1>1, <1>2, ConfigIs

(* A call that stores nothing ends.                                        *)
LEMMA CallEnds ==
  ASSUME NEW s, NEW k, NEW L, NEW F, Good(s, k, L, F), s.access = None, s.maintenance = None,
         k # None => k.op # "store"
  PROVE  Good(s, None, L, F)
PROOF
<1>1. \A w : ~StoringBy(k, w) /\ ~StoringBy(None, w)
  BY DEF StoringBy
<1>2. Struct(s, None, F)
  BY DEF Good, Struct, CallOK, MaintenanceOK, AccessOK
<1>3. ASSUME Reliable PROVE Data(s, None, L, F)
  <2>1. Data(s, k, L, F)
    BY <1>3 DEF Good
  <2>2. CleanData(s, None, F) /\ WordData(s, None, L, F) /\ MaintenanceData(s, None)
    BY <1>1, <2>1 DEF Data, CleanData, WordData, MaintenanceData
  <2> QED BY <2>1, <2>2 DEF Data
<1> QED BY <1>2, <1>3 DEF Good

(* touch_line changes no line.                                             *)
LEMMA Touched ==
  ASSUME NEW i, NEW s, NEW f, NEW k, NEW L, NEW F, Chain(i, s, f, k, L, F), s.pending = None,
         NEW t, SameBeside(s, t), LinesOK(t), \A l \in CachedLines : Held(t, l) = Held(s, l)
  PROVE  Chain(i, t, f, k, L, F)
PROOF
<1>1. Bank(s) /\ s.burst = None
  BY ChainIdle DEF Chain, Fine, Good, Struct, GoodInstruction, InstructionStruct
<1>2. Bank(t) /\ t.pending = None /\ t.burst = None
  BY <1>1 DEF Bank, SameBeside, PendingOK, BurstOK
<1>4. CASE i
  <2>1. GoodInstruction(s, f, k, L, F)
    BY <1>4 DEF Chain, Fine
  <2>2. InstructionStruct(t, f, F)
    BY <1>2, <2>1 DEF GoodInstruction, InstructionStruct, IsDirty
  <2>3. ASSUME Reliable PROVE InstructionData(t, f, k, L, F)
    <3>1. InstructionData(s, f, k, L, F)
      BY <2>1, <2>3 DEF GoodInstruction
    <3> QED BY <1>2, <3>1 DEF InstructionData, MemCurrent, SameBeside
  <2> QED BY <1>4, <2>2, <2>3 DEF GoodInstruction, Chain, Fine, SameBeside
<1>5. CASE ~i
  <2>1. Good(s, k, L, F) /\ s.access = None /\ s.maintenance = None
    BY <1>5 DEF Chain, Fine
  <2>2. t.access = None /\ t.maintenance = None
    BY <2>1 DEF SameBeside
  <2>3. DirtyOK(t, F)
    BY <1>2, <2>1 DEF Good, Struct, DirtyOK, SameBeside
  <2>4. Struct(t, k, F)
    BY <1>2, <2>1, <2>2, <2>3 DEF Good, Struct, MaintenanceOK, AccessOK
  <2>5. ASSUME Reliable PROVE Data(t, k, L, F)
    <3>1. Data(s, k, L, F)
      BY <2>1, <2>5 DEF Good
    <3>2. CleanData(t, k, F)
      BY <3>1 DEF Data, CleanData, SameBeside
    <3>3. BurstData(t, F) /\ AccessData(t) /\ MaintenanceData(t, k)
      BY <1>2, <2>2 DEF BurstData, AccessData, MaintenanceData
    <3>4. WordData(t, k, L, F)
      BY <1>2, <3>1 DEF Data, WordData, VisibleIn, SameBeside
    <3> QED BY <3>2, <3>3, <3>4 DEF Data
  <2> QED BY <1>5, <2>1, <2>2, <2>4, <2>5 DEF Good, Chain, Fine, SameBeside
<1> QED BY <1>4, <1>5 DEF Chain

(* A cached load, of either bank.                                          *)
LEMMA CachedLoadIs ==
  ASSUME NEW i, NEW s, NEW f, NEW k, NEW L, NEW F, Chain(i, s, f, k, L, F),
         NEW w, LineOf(w) \in CachedLines,
         IF i THEN w = f.word ELSE k # None /\ w = k.word
  PROVE  Answered(Load(s, w), i, s, f, k, L, F)
PROOF
<1> DEFINE line == LineOf(w)
           o == EnsureLine(s, line)
           set == SetOf(s.config, line)
           t == TouchLine(o.s, set, LookupWay(o.s, line))
<1>1. Answered(o, i, s, f, k, L, F) /\ (o.answer = "Ok" => Held(o.s, line) # None)
  BY EnsureLineIs
<1>2. s.maintenance = None
  BY DEF Chain
<1>3. Load(s, w) = IF o.answer # "Ok" THEN o ELSE Outcome("Ok", t)
  BY <1>2 DEF Load
<1> HIDE DEF o
<1>4. ASSUME o.answer = "Ok" PROVE Answered(Outcome("Ok", t), i, s, f, k, L, F)
  <2>1. Chain(i, o.s, f, k, L, F) /\ Kept(i, s, o.s, k, L, F) /\ o.s.pending = None
    BY <1>1, <1>4 DEF Answered
  <2>2. Shape(o.s) /\ LinesOK(o.s) /\ o.s.config = s.config
    BY <2>1, ChainIs DEF Kept
  <2>3. LookupWay(o.s, line) \in Ways(o.s.config)
    BY <1>1, <1>4, <2>2, HeldIs
  <2>4. set \in Sets(o.s.config)
    <3>1. o.s.config \in CacheConfig /\ line \in Nat
      BY <2>2, ConfigIs DEF LinesOK, LinesTyped
    <3> QED BY <2>2, <3>1, DecodeIs
  <2> HIDE DEF set
  <2>5. SameBeside(o.s, t) /\ LinesOK(t) /\ \A l \in CachedLines : Held(t, l) = Held(o.s, l)
    BY <2>2, <2>3, <2>4, TouchIs
  <2> HIDE DEF t
  <2>6. Chain(i, t, f, k, L, F)
    BY <2>1, <2>5, Touched
  <2>7. Kept(i, s, t, k, L, F) /\ t.pending = None
    BY <2>1, <2>5 DEF Kept, SameBeside
  <2> QED BY <2>6, <2>7 DEF Answered, Outcome
<1> QED BY <1>1, <1>3, <1>4

(* A single access below the cache changes at most its own word there.     *)
Below(s, t, k) ==
  /\ Shape(t)
  /\ t.config = s.config /\ t.sets = s.sets /\ t.pending = s.pending
  /\ t.maintenance = s.maintenance /\ t.burst = s.burst /\ t.weather = s.weather
  /\ t.mem \in [Words -> Values]
  /\ t.mem = s.mem \/ k.op = "store"
  /\ \A v \in Words : v # k.word => t.mem[v] = s.mem[v]

(* What the bank asks of an access that it sends below.                    *)
MaySend(s, k) ==
  /\ k # None /\ k.op \in {"load", "store"}
  /\ LineOf(k.word) \in CachedLines =>
       /\ k.op = "store" /\ s.pending = None
       /\ Held(s, LineOf(k.word)) # None => ~s.config.write_back
       /\ s.config.write_allocate => Held(s, LineOf(k.word)) # None

LEMMA SentBelow ==
  ASSUME NEW s, NEW k, NEW L, NEW F, Good(s, k, L, F), s.maintenance = None, MaySend(s, k),
         NEW t, Below(s, t, k),
         \/ t.access = None
         \/ /\ t.access \in Accesses
            /\ t.access.left = 0 /\ k.op = "store" => t.mem[k.word] = k.value
            /\ k.op = t.access.kind /\ k.word = t.access.word
            /\ k.op = "store" => k.value = t.access.value,
         t.mem = s.mem \/ t.mem[k.word] = k.value
  PROVE  Good(t, k, L, F)
PROOF
<1>1. /\ Shape(s) /\ LinesOK(s) /\ PendingOK(s) /\ BurstOK(s) /\ s.mem \in [Words -> Values]
      /\ CallOK(k, F) /\ MaintenanceOK(s, k) /\ AccessOK(s, k) /\ DirtyOK(s, F)
      /\ L \in [Words -> Values] /\ (Reliable => Data(s, k, L, F))
  BY GoodIs
<1>2. LinesOK(t) /\ (\A l : Held(t, l) = Held(s, l))
  BY <1>1, HeldSame DEF Below, LinesOK
<1>3. PendingOK(t) /\ BurstOK(t)
  BY <1>1, <1>2 DEF PendingOK, BurstOK, Below
<1>4. Bank(t)
  BY <1>2, <1>3 DEF Bank, Below
<1>5. DirtyOK(t, F) /\ MaintenanceOK(t, k)
  BY <1>1, <1>2 DEF DirtyOK, MaintenanceOK, Below
<1>6. AccessOK(t, k)
  BY <1>2 DEF AccessOK, MaySend, Below
<1>7. Struct(t, k, F)
  BY <1>1, <1>4, <1>5, <1>6 DEF Struct
<1>8. ASSUME Reliable PROVE Data(t, k, L, F)
  <2>1. Data(s, k, L, F)
    BY <1>1, <1>8
  <2>2. k.word \in Words /\ LineOf(k.word) \notin F
    BY <1>1 DEF CallOK, MaySend
  <2>3. AccessData(t)
    BY DEF AccessData
  <2>4. MaintenanceData(t, k)
    BY DEF MaintenanceData, Below
  <2>5. ASSUME NEW w \in Words
        PROVE  t.mem[w] = s.mem[w] \/ (StoringBy(k, w) /\ t.mem[w] = k.value)
    BY <2>5 DEF Below, StoringBy, MaySend
  <2>6. CleanData(t, k, F)
    BY <1>2, <2>1, <2>5 DEF Data, CleanData
  <2>7. BurstData(t, F)
    <3> SUFFICES ASSUME t.burst # None, t.burst.left = 0, t.burst.line \notin F,
                        NEW w \in Words, LineOf(w) = t.burst.line
                 PROVE  t.burst.words[Offset(w)] = t.mem[w]
      BY DEF BurstData
    <3>1. s.burst = t.burst /\ s.burst.words[Offset(w)] = s.mem[w]
      BY <2>1 DEF Below, BurstData, Data
    <3>2. t.burst.line \in CachedLines /\ s.pending # None
      BY <1>1, <3>1 DEF BurstOK, Bursts
    <3>3. w # k.word
      BY <3>2 DEF MaySend
    <3> QED BY <3>1, <3>3 DEF Below
  <2>8. WordData(t, k, L, F)
    <3> SUFFICES ASSUME NEW w \in Words
                 PROVE  /\ LineOf(w) \in F => t.mem[w] = L[w]
                        /\ LineOf(w) \notin F => \/ VisibleIn(t, w) = L[w]
                                                 \/ StoringBy(k, w) /\ VisibleIn(t, w) = k.value
      BY DEF WordData
    <3>1. CASE LineOf(w) \in F
      BY <2>1, <2>2, <3>1 DEF Data, WordData, Below
    <3>2. CASE LineOf(w) \notin F
      <4>1. VisibleIn(s, w) = L[w] \/ (StoringBy(k, w) /\ VisibleIn(s, w) = k.value)
        BY <2>1, <3>2 DEF Data, WordData
      <4>2. \/ VisibleIn(t, w) = VisibleIn(s, w)
            \/ VisibleIn(t, w) = t.mem[w] /\ VisibleIn(s, w) = s.mem[w]
        BY <1>2 DEF VisibleIn, Below
      <4> QED BY <2>5, <3>2, <4>1, <4>2
    <3> QED BY <3>1, <3>2
  <2> QED BY <2>3, <2>4, <2>6, <2>7, <2>8 DEF Data
<1> QED BY <1>1, <1>7, <1>8 DEF Good

LEMMA LowerAccessIs ==
  ASSUME NEW s, NEW k, NEW L, NEW F, Good(s, k, L, F), s.maintenance = None, MaySend(s, k),
         s.weather \in Weathers, NEW value, k.op = "store" => value = k.value,
         k.op = "load" => value = None
  PROVE  LET o == LowerAccess(s, k.op, k.word, value)
         IN  /\ Good(o.s, k, L, F) /\ Below(s, o.s, k)
             /\ o.answer = "Busy" \/ /\ o.answer = "Ok" /\ o.s.access = None
                                     /\ Reliable /\ k.op = "store" => o.s.mem[k.word] = k.value
PROOF
<1> DEFINE kind == k.op
           latency == s.weather[IF kind = "load" THEN "read" ELSE "write"]
           request == [kind |-> kind, word |-> k.word, value |-> value, left |-> latency]
           o == LowerAccess(s, kind, k.word, value)
           m == Perform(s.mem, request)
<1>1. /\ Shape(s) /\ LinesOK(s) /\ PendingOK(s) /\ BurstOK(s) /\ s.mem \in [Words -> Values]
      /\ CallOK(k, F) /\ AccessOK(s, k) /\ (Reliable => Data(s, k, L, F))
  BY GoodIs
<1>2. k.word \in Words /\ (k.op = "store" => k.value \in Values) /\ k.op \in {"load", "store"}
  BY <1>1 DEF CallOK, MaySend
<1>3. latency \in Nat \/ latency = None
  BY CacheAssumption DEF Weathers
<1>4. None \notin Nat
  BY NoneAssumption
<1>5. Below(s, s, k)
  BY <1>1 DEF Below
<1>6. CASE latency = None
  <2>1. o = Outcome("Busy", s)
    BY <1>6 DEF LowerAccess
  <2> QED BY <1>5, <2>1 DEF Outcome
<1>7. CASE latency # None /\ s.access = None /\ latency = 0
  <2> DEFINE t == [s EXCEPT !.mem = m]
  <2>1. o = Outcome("Ok", t)
    BY <1>7 DEF LowerAccess
  <2>2. /\ k.op = "load" => m = s.mem
        /\ k.op = "store" => m = [s.mem EXCEPT ![k.word] = k.value]
    BY DEF Perform
  <2> HIDE DEF m
  <2>3. /\ m \in [Words -> Values]
        /\ m = s.mem \/ k.op = "store"
        /\ \A v \in Words : v # k.word => m[v] = s.mem[v]
        /\ m = s.mem \/ m[k.word] = k.value
        /\ k.op = "store" => m[k.word] = k.value
    BY <1>1, <1>2, <2>2
  <2>4. /\ Shape(t) /\ t.config = s.config /\ t.sets = s.sets /\ t.pending = s.pending
        /\ t.maintenance = s.maintenance /\ t.burst = s.burst /\ t.weather = s.weather
        /\ t.access = None /\ t.mem = m
    BY <1>1, <1>7 DEF Shape
  <2> HIDE DEF t
  <2>5. Below(s, t, k)
    BY <2>3, <2>4 DEF Below
  <2>6. Good(t, k, L, F)
    BY <2>3, <2>4, <2>5, SentBelow
  <2> QED BY <2>1, <2>3, <2>4, <2>5, <2>6 DEF Outcome
<1>8. CASE latency # None /\ s.access = None /\ latency # 0
  <2> DEFINE t == [s EXCEPT !.access = request]
  <2>1. o = Outcome("Busy", t)
    BY <1>8 DEF LowerAccess
  <2>2. /\ request \in Accesses /\ request.left # 0 /\ k.op = request.kind
        /\ k.word = request.word /\ (k.op = "store" => k.value = request.value)
    <3>1. latency \in Nat /\ latency # 0
      BY <1>3, <1>8
    <3> HIDE DEF latency
    <3> QED BY <1>2, <3>1 DEF Accesses
  <2> HIDE DEF request
  <2>3. /\ Shape(t) /\ t.config = s.config /\ t.sets = s.sets /\ t.pending = s.pending
        /\ t.maintenance = s.maintenance /\ t.burst = s.burst /\ t.weather = s.weather
        /\ t.access = request /\ t.mem = s.mem
    BY <1>1 DEF Shape
  <2> HIDE DEF t
  <2>4. Below(s, t, k)
    BY <1>1, <2>3 DEF Below
  <2>5. Good(t, k, L, F)
    BY <2>2, <2>3, <2>4, SentBelow
  <2> QED BY <2>1, <2>4, <2>5 DEF Outcome
<1>9. CASE latency # None /\ s.access # None /\ s.access.left = 0
  <2> DEFINE t == [s EXCEPT !.access = None]
  <2>1. o = Outcome("Ok", t)
    BY <1>9 DEF LowerAccess
  <2>2. /\ Shape(t) /\ t.config = s.config /\ t.sets = s.sets /\ t.pending = s.pending
        /\ t.maintenance = s.maintenance /\ t.burst = s.burst /\ t.weather = s.weather
        /\ t.access = None /\ t.mem = s.mem
    BY <1>1 DEF Shape
  <2> HIDE DEF t
  <2>3. Below(s, t, k)
    BY <1>1, <2>2 DEF Below
  <2>4. Good(t, k, L, F)
    BY <2>2, <2>3, SentBelow
  <2>5. Reliable /\ k.op = "store" => t.mem[k.word] = k.value
    BY <1>1, <1>9, <2>2 DEF AccessOK, Data, AccessData
  <2> QED BY <2>1, <2>2, <2>3, <2>4, <2>5 DEF Outcome
<1>10. CASE latency # None /\ s.access # None /\ s.access.left # 0
  <2>1. o = Outcome("Busy", s)
    BY <1>10 DEF LowerAccess
  <2> QED BY <1>5, <2>1 DEF Outcome
<1> QED BY <1>6, <1>7, <1>8, <1>9, <1>10

LEMMA NothingActive ==
  ASSUME NEW s, NEW k, NEW L, NEW F, Good(s, k, L, F), k # None, k.op # "clean"
  PROVE  /\ s.maintenance = None
         /\ s.pending = None => s.burst = None
         /\ LineOf(k.word) \in CachedLines /\ k.op = "load" => s.access = None
PROOF
  BY GoodIs DEF MaintenanceOK, BurstOK, AccessOK

LEMMA LoadIs ==
  ASSUME NEW s, NEW k, NEW L, NEW F, Good(s, k, L, F), k # None, k.op = "load",
         s.weather \in Weathers
  PROVE  LET o == Load(s, k.word)
         IN  Attempted(o, s, k, L, F, L, F) /\ o.s.maintenance = s.maintenance
PROOF
<1> DEFINE o == Load(s, k.word)
<1>1. s.maintenance = None
  BY NothingActive
<1>2. \A w : ~StoringBy(k, w)
  BY DEF StoringBy
<1>3. CASE LineOf(k.word) \notin CachedLines
  <2>1. o = LowerAccess(s, k.op, k.word, None)
    BY <1>1, <1>3 DEF Load
  <2>2. /\ Good(o.s, k, L, F) /\ Below(s, o.s, k)
        /\ o.answer = "Busy" \/ (o.answer = "Ok" /\ o.s.access = None)
    <3>1. MaySend(s, k)
      BY <1>3 DEF MaySend
    <3> QED BY <1>1, <2>1, <3>1, LowerAccessIs
  <2> HIDE DEF o
  <2>3. o.s.maintenance = None /\ o.s.mem = s.mem /\ o.s.config = s.config
    BY <1>1, <2>2 DEF Below
  <2>4. o.answer = "Ok" => Good(o.s, None, L, F)
    BY <2>2, <2>3, CallEnds
  <2> QED BY <1>1, <2>2, <2>3, <2>4 DEF Attempted, o
<1>4. CASE LineOf(k.word) \in CachedLines
  <2>1. s.access = None
    BY <1>4, NothingActive
  <2>2. Chain(FALSE, s, None, k, L, F)
    BY <1>1, <2>1 DEF Chain, Fine
  <2>3. Answered(o, FALSE, s, None, k, L, F)
    BY <1>4, <2>2, CachedLoadIs
  <2> HIDE DEF o
  <2>4. /\ Good(o.s, k, L, F) /\ o.s.access = None /\ o.s.maintenance = None
        /\ o.answer \in {"Busy", "Ok"} /\ o.s.config = s.config
        /\ Reliable => \A w \in Words : LineOf(w) \notin F =>
             o.s.mem[w] = s.mem[w] \/ o.s.mem[w] = L[w] \/ StoringBy(k, w)
    BY <2>3 DEF Answered, Chain, Fine, Kept
  <2>5. Good(o.s, None, L, F)
    BY <2>4, CallEnds
  <2> QED BY <1>1, <2>4, <2>5 DEF Attempted, o
<1> QED BY <1>3, <1>4

(* A fetch works on the instruction bank only.                             *)
LEMMA FetchIs ==
  ASSUME NEW t, NEW f, NEW k, NEW L, NEW F, GoodInstruction(t, f, k, L, F), f # None,
         t.weather \in Weathers
  PROVE  LET o == Load(t, f.word)
         IN  /\ GoodInstruction(o.s, f, k, L, F)
             /\ o.s.config = t.config /\ o.s.maintenance = t.maintenance /\ o.s.mem = t.mem
             /\ o.s.access = t.access /\ o.s.weather = t.weather
PROOF
<1> DEFINE o == Load(t, f.word)
<1>1. CASE t.maintenance # None
  BY <1>1 DEF Load, Outcome
<1>2. CASE t.maintenance = None
  <2>1. Chain(TRUE, t, f, k, L, F)
    BY <1>2 DEF Chain, Fine
  <2>2. LineOf(f.word) \in CachedLines
    BY FetchesAssumption DEF GoodInstruction, InstructionStruct
  <2>3. Answered(o, TRUE, t, f, k, L, F)
    BY <2>1, <2>2, CachedLoadIs
  <2> HIDE DEF o
  <2> QED BY <1>2, <2>3 DEF Answered, Chain, Fine, Kept, o
<1> QED BY <1>1, <1>2

(* A store has been performed.                                             *)
LEMMA StoreEnds ==
  ASSUME NEW t, NEW k, NEW L, NEW F, Good(t, k, L, F), t.access = None, t.maintenance = None,
         k # None, k.op = "store", NEW N, N = [L EXCEPT ![k.word] = k.value],
         Reliable => /\ VisibleIn(t, k.word) = k.value
                     /\ LineOf(k.word) \in CachedLines /\ Held(t, LineOf(k.word)) # None
                          /\ ~Held(t, LineOf(k.word)).dirty
                        => Held(t, LineOf(k.word)).words[Offset(k.word)] = t.mem[k.word]
  PROVE  Good(t, None, N, F)
PROOF
<1>1. CallOK(k, F) /\ L \in [Words -> Values] /\ (Reliable => Data(t, k, L, F))
  BY GoodIs
<1>2. k.word \in Words /\ k.value \in Values /\ LineOf(k.word) \notin F
  BY <1>1 DEF CallOK
<1>3. N \in [Words -> Values] /\ N[k.word] = k.value /\ \A w \in Words : w # k.word => N[w] = L[w]
  BY <1>1, <1>2
<1>4. Struct(t, None, F)
  BY DEF Good, Struct, CallOK, MaintenanceOK, AccessOK
<1>5. ASSUME Reliable PROVE Data(t, None, N, F)
  <2>1. Data(t, k, L, F)
    BY <1>1, <1>5
  <2>2. \A w \in Words : StoringBy(k, w) <=> w = k.word
    BY DEF StoringBy
  <2>3. CleanData(t, None, F)
    BY <1>5, <2>1, <2>2 DEF Data, CleanData
  <2>4. WordData(t, None, N, F)
    <3> SUFFICES ASSUME NEW w \in Words
                 PROVE  /\ LineOf(w) \in F => t.mem[w] = N[w]
                        /\ LineOf(w) \notin F => VisibleIn(t, w) = N[w]
      BY DEF WordData
    <3>1. CASE w = k.word
      BY <1>2, <1>3, <1>5, <3>1
    <3>2. CASE w # k.word
      BY <1>3, <2>1, <2>2, <3>2 DEF Data, WordData
    <3> QED BY <3>1, <3>2
  <2>5. MaintenanceData(t, None)
    BY DEF MaintenanceData
  <2> QED BY <2>1, <2>3, <2>4, <2>5 DEF Data
<1> QED BY <1>3, <1>4, <1>5 DEF Good

LEMMA UpdateEnds ==
  ASSUME NEW s, NEW k, NEW L, NEW F, Good(s, k, L, F), k # None, k.op = "store",
         LineOf(k.word) \in CachedLines, Held(s, LineOf(k.word)) # None,
         s.pending = None, s.maintenance = None, s.access = None,
         NEW N, N = [L EXCEPT ![k.word] = k.value],
         Reliable /\ ~s.config.write_back => s.mem[k.word] = k.value
  PROVE  LET t == UpdateCachedStore(s, k.word, k.value, s.config.write_back)
         IN  /\ Good(t, None, N, F) /\ t.config = s.config /\ t.mem = s.mem
             /\ t.maintenance = s.maintenance
PROOF
<1> DEFINE w == k.word
           line == LineOf(w)
           dirty == s.config.write_back
           t == UpdateCachedStore(s, w, k.value, dirty)
<1>1. /\ Shape(s) /\ LinesOK(s) /\ PendingOK(s) /\ BurstOK(s) /\ s.mem \in [Words -> Values]
      /\ s.config.write_back \in BOOLEAN
      /\ CallOK(k, F) /\ DirtyOK(s, F)
      /\ L \in [Words -> Values] /\ (Reliable => Data(s, k, L, F))
  BY GoodIs
<1>2. w \in Words /\ k.value \in Values /\ line \notin F
  BY <1>1 DEF CallOK
<1>3. /\ SameBeside(s, t) /\ LinesOK(t)
      /\ \A l \in CachedLines : l # line => Held(t, l) = Held(s, l)
      /\ Held(t, line) \in CacheLine /\ Held(t, line) # None
      /\ Held(t, line).dirty = dirty
      /\ Held(t, line).words = [Held(s, line).words EXCEPT ![Offset(w)] = k.value]
  BY <1>1, <1>2, UpdateIs
<1> HIDE DEF t
<1>4. s.burst = None
  BY <1>1 DEF BurstOK
<1>5. /\ t.pending = None /\ t.maintenance = None /\ t.access = None /\ t.burst = None
      /\ t.config = s.config /\ t.mem = s.mem
  BY <1>3, <1>4 DEF SameBeside
<1>6. Bank(t)
  BY <1>1, <1>3, <1>5 DEF Bank, SameBeside, PendingOK, BurstOK
<1>7. DirtyOK(t, F)
  BY <1>1, <1>2, <1>3, <1>5 DEF DirtyOK
<1>8. Struct(t, k, F)
  BY <1>1, <1>5, <1>6, <1>7 DEF Struct, MaintenanceOK, AccessOK
<1>9. \A v \in Words : LineOf(v) = line =>
        Held(t, line).words[Offset(v)] = IF v = w THEN k.value ELSE Held(s, line).words[Offset(v)]
  <2> SUFFICES ASSUME NEW v \in Words, LineOf(v) = line
               PROVE  Held(t, line).words[Offset(v)] =
                        IF v = w THEN k.value ELSE Held(s, line).words[Offset(v)]
    OBVIOUS
  <2>1. Held(s, line).words \in LineData
    <3>1. Held(s, line) \in CacheLine
      BY <1>1, HeldIs
    <3> QED BY <3>1 DEF CacheLine
  <2>2. Offset(v) \in Offsets /\ Offset(w) \in Offsets /\ (Offset(v) = Offset(w) => v = w)
    BY <1>2, WordIs
  <2> QED BY <1>3, <2>1, <2>2 DEF LineData
<1>10. ASSUME Reliable PROVE Data(t, k, L, F)
  <2>1. Data(s, k, L, F)
    BY <1>1, <1>10
  <2>2. BurstData(t, F) /\ AccessData(t) /\ MaintenanceData(t, k)
    BY <1>5 DEF BurstData, AccessData, MaintenanceData
  <2>3. \A v \in Words : StoringBy(k, v) <=> v = w
    BY DEF StoringBy
  <2>4. CleanData(t, k, F)
    <3> SUFFICES ASSUME NEW v \in Words, LineOf(v) \in CachedLines, LineOf(v) \notin F,
                        Held(t, LineOf(v)) # None, ~Held(t, LineOf(v)).dirty, v # w
                 PROVE  Held(t, LineOf(v)).words[Offset(v)] = t.mem[v]
      BY <2>3 DEF CleanData
    <3>1. CASE LineOf(v) # line
      BY <1>3, <1>5, <2>1, <2>3, <3>1 DEF Data, CleanData
    <3>2. CASE LineOf(v) = line
      <4>1. ~dirty /\ ~Held(s, line).dirty
        BY <1>1, <1>3, <3>2 DEF DirtyOK
      <4>2. Held(s, line).words[Offset(v)] = s.mem[v]
        BY <2>1, <2>3, <3>2, <4>1 DEF Data, CleanData
      <4> QED BY <1>5, <1>9, <3>2, <4>2
    <3> QED BY <3>1, <3>2
  <2>5. \A v \in Words : v # w => VisibleIn(t, v) = VisibleIn(s, v)
    <3> SUFFICES ASSUME NEW v \in Words, v # w PROVE VisibleIn(t, v) = VisibleIn(s, v)
      OBVIOUS
    <3>1. CASE LineOf(v) # line
      BY <1>3, <1>5, <3>1 DEF VisibleIn
    <3>2. CASE LineOf(v) = line
      BY <1>3, <1>5, <1>9, <3>2 DEF VisibleIn
    <3> QED BY <3>1, <3>2
  <2>6. VisibleIn(t, w) = k.value
    BY <1>2, <1>3, <1>9 DEF VisibleIn
  <2>7. WordData(t, k, L, F)
    BY <1>2, <1>5, <2>1, <2>3, <2>5, <2>6 DEF Data, WordData
  <2> QED BY <2>2, <2>4, <2>7 DEF Data
<1>11. Good(t, k, L, F)
  BY <1>1, <1>8, <1>10 DEF Good
<1>12. ASSUME Reliable
       PROVE  /\ VisibleIn(t, w) = k.value
              /\ ~Held(t, line).dirty => Held(t, line).words[Offset(w)] = t.mem[w]
  BY <1>2, <1>3, <1>5, <1>9, <1>12 DEF VisibleIn
<1>13. Good(t, None, N, F)
  BY <1>5, <1>11, <1>12, StoreEnds
<1> QED BY <1>5, <1>13 DEF t

(* The line of a store, looked for or brought in.                          *)
LEMMA FoundIs ==
  ASSUME NEW s, NEW k, NEW L, NEW F, Good(s, k, L, F), k # None, k.op = "store",
         LineOf(k.word) \in CachedLines, s.weather \in Weathers
  PROVE  LET line == LineOf(k.word)
             o == IF s.config.write_allocate THEN EnsureLine(s, line) ELSE Resume(s, line)
         IN  /\ Good(o.s, k, L, F) /\ Kept(FALSE, s, o.s, k, L, F) /\ o.s.maintenance = None
             /\ o.answer = "Busy" \/ /\ o.answer = "Ok" /\ o.s.pending = None
                                     /\ s.config.write_allocate => Held(o.s, line) # None
                                     /\ s.config.write_back /\ Held(o.s, line) # None => o.s.access = None
PROOF
<1> DEFINE line == LineOf(k.word)
           o == IF s.config.write_allocate THEN EnsureLine(s, line) ELSE Resume(s, line)
<1>1. /\ LinesOK(s) /\ AccessOK(s, k) /\ s.config.write_allocate \in BOOLEAN
      /\ s.config.write_back \in BOOLEAN /\ s.maintenance = None
  BY GoodIs, NothingActive
<1>2. CASE s.access # None
  <2>1. /\ s.pending = None /\ (Held(s, line) # None => ~s.config.write_back)
        /\ s.config.write_allocate => Held(s, line) # None
    BY <1>1, <1>2 DEF AccessOK
  <2>2. Resume(s, line) = Outcome("Ok", s)
    BY <2>1 DEF Resume
  <2>3. s.config.write_allocate => EnsureLine(s, line) = Outcome("Ok", s)
    <3> SUFFICES ASSUME s.config.write_allocate PROVE EnsureLine(s, line) = Outcome("Ok", s)
      OBVIOUS
    <3>1. Resident(s, line) # {}
      BY <1>1, <2>1, HeldIs
    <3> QED BY <2>2, <3>1 DEF EnsureLine, Outcome
  <2>4. o = Outcome("Ok", s)
    BY <2>2, <2>3
  <2>6. Kept(FALSE, s, s, k, L, F)
    BY DEF Kept
  <2>7. o.s = s /\ o.answer = "Ok"
    BY <2>4 DEF Outcome
  <2> HIDE DEF o
  <2> QED BY <1>1, <2>1, <2>6, <2>7 DEF o
<1>3. CASE s.access = None
  <2>1. Chain(FALSE, s, None, k, L, F)
    BY <1>1, <1>3 DEF Chain, Fine
  <2>2. /\ Answered(o, FALSE, s, None, k, L, F)
        /\ o.answer = "Ok" /\ s.config.write_allocate => Held(o.s, line) # None
    <3>1. CASE s.config.write_allocate
      BY <2>1, <3>1, EnsureLineIs
    <3>2. CASE ~s.config.write_allocate
      BY <2>1, <3>2, ResumeIs
    <3> QED BY <1>1, <3>1, <3>2
  <2> HIDE DEF o
  <2>3. /\ Good(o.s, k, L, F) /\ Kept(FALSE, s, o.s, k, L, F) /\ o.s.maintenance = None
        /\ o.s.access = None /\ o.s.config = s.config
        /\ o.answer = "Busy" \/ (o.answer = "Ok" /\ o.s.pending = None)
    BY <2>2 DEF Answered, Chain, Fine, Kept
  <2> QED BY <2>2, <2>3 DEF o
<1> QED BY <1>2, <1>3

LEMMA StoreIs ==
  ASSUME NEW s, NEW k, NEW L, NEW F, Good(s, k, L, F), k # None, k.op = "store",
         s.weather \in Weathers, NEW N, N = [L EXCEPT ![k.word] = k.value]
  PROVE  LET o == Store(s, k.word, k.value)
         IN  Attempted(o, s, k, L, F, N, F) /\ o.s.maintenance = s.maintenance
PROOF
<1> DEFINE w == k.word
           line == LineOf(w)
           o == Store(s, w, k.value)
           found == IF s.config.write_allocate THEN EnsureLine(s, line) ELSE Resume(s, line)
<1>1. /\ s.maintenance = None /\ CallOK(k, F) /\ s.config.write_back \in BOOLEAN
      /\ L \in [Words -> Values]
  BY NothingActive, GoodIs
<1>2. w \in Words /\ k.value \in Values /\ line \notin F
  BY <1>1 DEF CallOK
<1>3. ASSUME NEW u, Good(u, k, L, F), u.maintenance = None, MaySend(u, k), u.weather \in Weathers,
             Held(u, line) = None \/ line \notin CachedLines,
             NEW p, p = LowerAccess(u, "store", w, k.value)
      PROVE  /\ p.s.config = u.config /\ p.s.maintenance = None
             /\ \/ p.answer = "Busy" /\ Good(p.s, k, L, F)
                \/ p.answer = "Ok" /\ Good(p.s, None, N, F)
             /\ \A v \in Words : p.s.mem[v] = u.mem[v] \/ StoringBy(k, v)
  <2>1. /\ Good(p.s, k, L, F) /\ Below(u, p.s, k)
        /\ p.answer = "Busy" \/ /\ p.answer = "Ok" /\ p.s.access = None
                                /\ Reliable => p.s.mem[k.word] = k.value
    BY <1>3, LowerAccessIs
  <2>2. p.s.config = u.config /\ p.s.maintenance = None
    BY <1>3, <2>1 DEF Below
  <2>3. \A v \in Words : p.s.mem[v] = u.mem[v] \/ StoringBy(k, v)
    BY <2>1 DEF Below, StoringBy
  <2>4. ASSUME p.answer = "Ok" PROVE Good(p.s, None, N, F)
    <3>1. line \in CachedLines => Held(p.s, line) = None
      BY <1>3, <2>1, HeldSame DEF Below
    <3>2. line \in CachedLines => u.pending = None
      BY <1>3 DEF MaySend
    <3>3. p.s.pending = None \/ p.s.pending.write_back = None \/ p.s.pending.write_back.line # line
      <4>1. PendingOK(p.s)
        BY <2>1, GoodIs
      <4> QED BY <2>1, <3>2, <4>1 DEF Below, PendingOK, PendingLineOp, PendingWriteBack
    <3>4. VisibleIn(p.s, w) = p.s.mem[w]
      BY <3>1, <3>3 DEF VisibleIn
    <3> QED BY <2>1, <2>2, <2>4, <3>1, <3>4, StoreEnds
  <2> QED BY <2>1, <2>2, <2>3, <2>4
<1>4. CASE line \notin CachedLines
  <2>1. o = LowerAccess(s, "store", w, k.value)
    BY <1>1, <1>4 DEF Store
  <2>2. MaySend(s, k)
    BY <1>4 DEF MaySend
  <2> HIDE DEF o
  <2>3. /\ o.s.config = s.config /\ o.s.maintenance = None
        /\ \/ o.answer = "Busy" /\ Good(o.s, k, L, F)
           \/ o.answer = "Ok" /\ Good(o.s, None, N, F)
        /\ \A v \in Words : o.s.mem[v] = s.mem[v] \/ StoringBy(k, v)
    BY <1>1, <1>3, <1>4, <2>1, <2>2
  <2> QED BY <1>1, <2>3 DEF Attempted, o
<1>5. CASE line \in CachedLines
  <2> DEFINE u == found.s
  <2>1. /\ Good(u, k, L, F) /\ Kept(FALSE, s, u, k, L, F) /\ u.maintenance = None
        /\ found.answer = "Busy" \/
             /\ found.answer = "Ok" /\ u.pending = None
             /\ s.config.write_allocate => Held(u, line) # None
             /\ s.config.write_back /\ Held(u, line) # None => u.access = None
    BY <1>5, FoundIs
  <2>2. o = IF found.answer # "Ok" THEN found
            ELSE IF Resident(u, line) # {} THEN StoreHit(u, w, k.value)
            ELSE LowerAccess(u, "store", w, k.value)
    BY <1>1, <1>5 DEF Store
  <2> HIDE DEF o, found
  <2>3. u.config = s.config /\ u.weather \in Weathers
        /\ (Reliable => \A v \in Words : LineOf(v) \notin F =>
              u.mem[v] = s.mem[v] \/ u.mem[v] = L[v] \/ StoringBy(k, v))
    BY <2>1 DEF Kept
  <2>4. Held(u, line) = None <=> Resident(u, line) = {}
    BY <1>5, <2>1, GoodIs, HeldIs
  <2>5. CASE found.answer # "Ok"
    <3>1. o = found /\ found.answer = "Busy"
      BY <2>1, <2>2, <2>5
    <3> QED BY <1>1, <2>1, <2>3, <3>1 DEF Attempted, o
  <2>6. CASE found.answer = "Ok" /\ Held(u, line) = None
    <3>1. o = LowerAccess(u, "store", w, k.value)
      BY <2>2, <2>4, <2>6
    <3>2. MaySend(u, k)
      BY <2>1, <2>3, <2>6 DEF MaySend
    <3>3. /\ o.s.config = u.config /\ o.s.maintenance = None
          /\ \/ o.answer = "Busy" /\ Good(o.s, k, L, F)
             \/ o.answer = "Ok" /\ Good(o.s, None, N, F)
          /\ \A v \in Words : o.s.mem[v] = u.mem[v] \/ StoringBy(k, v)
      BY <1>3, <2>1, <2>3, <2>6, <3>1, <3>2, ZenonT(30)
    <3> QED BY <1>1, <2>3, <3>3 DEF Attempted, o
  <2>7. CASE found.answer = "Ok" /\ Held(u, line) # None /\ s.config.write_back
    <3> DEFINE t == UpdateCachedStore(u, w, k.value, TRUE)
    <3>1. o = Outcome("Ok", t)
      BY <2>2, <2>3, <2>4, <2>7 DEF StoreHit
    <3>2. Good(t, None, N, F) /\ t.config = u.config /\ t.mem = u.mem /\ t.maintenance = u.maintenance
      <4>1. u.config.write_back = TRUE /\ u.access = None /\ u.pending = None
        BY <1>1, <2>1, <2>3, <2>7
      <4>2. t = UpdateCachedStore(u, w, k.value, u.config.write_back)
        BY <4>1
      <4> HIDE DEF t
      <4>3. ~(Reliable /\ ~u.config.write_back)
        BY <4>1
      <4> QED BY <1>5, <2>1, <2>7, <4>1, <4>2, <4>3, UpdateEnds, ZenonT(30)
    <3> HIDE DEF t
    <3> QED BY <1>1, <2>1, <2>3, <3>1, <3>2 DEF Attempted, Outcome, o
  <2>8. CASE found.answer = "Ok" /\ Held(u, line) # None /\ ~s.config.write_back
    <3> DEFINE p == LowerAccess(u, "store", w, k.value)
               t == UpdateCachedStore(p.s, w, k.value, FALSE)
    <3>1. o = IF p.answer # "Ok" THEN p ELSE Outcome("Ok", t)
      BY <2>2, <2>3, <2>4, <2>8 DEF StoreHit
    <3>2. MaySend(u, k)
      BY <2>1, <2>3, <2>8 DEF MaySend
    <3>3. /\ Good(p.s, k, L, F) /\ Below(u, p.s, k)
          /\ p.answer = "Busy" \/ /\ p.answer = "Ok" /\ p.s.access = None
                                  /\ Reliable => p.s.mem[k.word] = k.value
      BY <2>1, <2>3, <3>2, LowerAccessIs
    <3> HIDE DEF p
    <3>4. /\ p.s.config = u.config /\ p.s.maintenance = None /\ p.s.pending = None
          /\ \A v \in Words : p.s.mem[v] = u.mem[v] \/ StoringBy(k, v)
      BY <2>1, <2>8, <3>3 DEF Below, StoringBy
    <3>5. CASE p.answer # "Ok"
      BY <1>1, <2>3, <3>1, <3>3, <3>4, <3>5 DEF Attempted, o
    <3>6. CASE p.answer = "Ok"
      <4>1. Held(p.s, line) # None
        BY <2>8, <3>3, HeldSame DEF Below
      <4>2. p.s.config.write_back = FALSE
        BY <1>1, <2>3, <2>8, <3>4
      <4>3. Good(t, None, N, F) /\ t.config = p.s.config /\ t.mem = p.s.mem
            /\ t.maintenance = p.s.maintenance
        <5>1. t = UpdateCachedStore(p.s, w, k.value, p.s.config.write_back)
          BY <4>2
        <5> HIDE DEF t
        <5> QED BY <1>5, <3>3, <3>4, <3>6, <4>1, <5>1, UpdateEnds
      <4> HIDE DEF t
      <4> QED BY <1>1, <2>3, <3>1, <3>4, <3>6, <4>3 DEF Attempted, Outcome, o
    <3> QED BY <3>5, <3>6
  <2> QED BY <1>1, <2>1, <2>5, <2>6, <2>7, <2>8
<1> QED BY <1>4, <1>5

-----------------------------------------------------------------------------
(* write_back_range and invalidate_range.                                  *)

LEMMA UpTo ==
  ASSUME NEW N \in Nat, NEW S, 0 \in S, \A n \in 1 .. N : n - 1 \in S => n \in S
  PROVE  \A n \in 0 .. N : n \in S
PROOF
<1> DEFINE Bad == {n \in 0 .. N : n \notin S}
<1> SUFFICES ASSUME Bad # {} PROVE FALSE
  OBVIOUS
<1>1. PICK x \in Bad : \A y \in Bad : x <= y
  <2>1. Bad \subseteq Nat
    OBVIOUS
  <2> HIDE DEF Bad
  <2> QED BY <2>1, LeastNat
<1>2. x \in 0 .. N /\ x \notin S /\ x # 0
  BY <1>1
<1>3. x \in 1 .. N /\ x - 1 \in 0 .. N /\ ~(x <= x - 1)
  BY <1>2
<1>4. x - 1 \in S
  BY <1>1, <1>3
<1> QED BY <1>2, <1>3, <1>4

(* The bank during the loop over the lines: everything but the lines that  *)
(* are left.                                                               *)
Cleaning(u, k, L, F) ==
  /\ Shape(u) /\ u.mem \in [Words -> Values] /\ LinesOK(u)
  /\ u.pending = None /\ u.access = None /\ u.weather \in Weathers
  /\ DirtyOK(u, F)
  /\ u.burst = None \/ u.burst \in Bursts
  /\ Reliable => CleanData(u, k, F) /\ WordData(u, k, L, F) /\ BurstData(u, F)

Sent(u, line) ==
  /\ line \in CachedLines /\ IsDirty(u, line)
  /\ u.burst # None => /\ u.burst.kind = "write" /\ u.burst.line = line
                       /\ u.burst.words = Held(u, line).words

(* No line becomes dirty, and only what is current is written.             *)
Cleaner(s, u, k, L, F) ==
  /\ u.config = s.config /\ u.maintenance = s.maintenance
  /\ \A l \in CachedLines : IsDirty(u, l) => IsDirty(s, l)
  /\ Reliable => \A w \in Words : LineOf(w) \notin F =>
       u.mem[w] = s.mem[w] \/ u.mem[w] = L[w] \/ StoringBy(k, w)

(* The burst of a dirty line is on its way.                                *)
LEMMA CleaningSent ==
  ASSUME NEW u, NEW k, NEW L, NEW F, Cleaning(u, k, L, F), NEW line \in CachedLines, IsDirty(u, line),
         NEW n \in Nat \ {0}, u.burst = None
  PROVE  LET t == [u EXCEPT !.burst = Request("write", line, Held(u, line).words, n)]
         IN  Cleaning(t, k, L, F) /\ Sent(t, line) /\ Cleaner(u, t, k, L, F)
PROOF
<1> DEFINE r == Request("write", line, Held(u, line).words, n)
           t == [u EXCEPT !.burst = r]
<1>1. Shape(u) /\ LinesOK(u)
  BY DEF Cleaning
<1>2. /\ Shape(t) /\ t.config = u.config /\ t.sets = u.sets /\ t.pending = u.pending
      /\ t.maintenance = u.maintenance /\ t.mem = u.mem /\ t.access = u.access
      /\ t.weather = u.weather /\ t.burst = r
  <2> HIDE DEF r
  <2> QED BY <1>1 DEF Shape
<1> HIDE DEF t
<1>3. r \in Bursts /\ r.left # 0 /\ r.kind = "write" /\ r.line = line /\ r.words = Held(u, line).words
  <2>1. Held(u, line) \in CacheLine
    BY <1>1, HeldIs DEF IsDirty
  <2> HIDE DEF Held
  <2> QED BY <2>1 DEF Request, Bursts, CacheLine
<1> HIDE DEF r
<1>4. LinesOK(t) /\ \A l : Held(t, l) = Held(u, l)
  BY <1>1, <1>2, HeldSame DEF LinesOK
<1>5. DirtyOK(t, F)
  BY <1>2, <1>4 DEF Cleaning, DirtyOK
<1>6. ASSUME Reliable PROVE CleanData(t, k, F) /\ WordData(t, k, L, F) /\ BurstData(t, F)
  <2>1. CleanData(u, k, F) /\ WordData(u, k, L, F)
    BY <1>6 DEF Cleaning
  <2>2. CleanData(t, k, F)
    BY <1>2, <1>4, <2>1 DEF CleanData
  <2>3. WordData(t, k, L, F)
    BY <1>2, <1>4, <2>1 DEF WordData, VisibleIn
  <2> QED BY <1>2, <1>3, <2>2, <2>3 DEF BurstData
<1>7. Cleaning(t, k, L, F)
  BY <1>2, <1>3, <1>4, <1>5, <1>6 DEF Cleaning
<1>8. Sent(t, line)
  BY <1>2, <1>3, <1>4 DEF Sent, IsDirty
<1>9. Cleaner(u, t, k, L, F)
  BY <1>2, <1>4 DEF Cleaner, IsDirty
<1> QED BY <1>7, <1>8, <1>9 DEF t, r

(* The words of a dirty line are below, and the line is marked clean.      *)
LEMMA CleaningDone ==
  ASSUME NEW u, NEW k, NEW L, NEW F, Cleaning(u, k, L, F), NEW line \in CachedLines, IsDirty(u, line),
         NEW d, SameSets(u, d), d.pending = u.pending, d.burst = None, d.mem \in [Words -> Values],
         Reliable => Written(u.mem, d.mem, line, Held(u, line).words),
         NEW t, MarkedClean(d, t, SetOf(u.config, line), LookupWay(u, line))
  PROVE  /\ Cleaning(t, k, L, F) /\ Cleaner(u, t, k, L, F)
         /\ t.burst = None /\ ~IsDirty(t, line)
PROOF
<1>1. Shape(d) /\ LinesOK(d) /\ (\A l : Held(d, l) = Held(u, l)) /\ d.config = u.config
  BY SameSetsHeld DEF Cleaning, SameSets
<1>2. LookupWay(d, line) = LookupWay(u, line)
  BY HeldSame DEF SameSets
<1>3. /\ SameBeside(d, t) /\ LinesOK(t)
      /\ \A l \in CachedLines : l # line => Held(t, l) = Held(d, l)
      /\ Held(t, line) # None /\ ~Held(t, line).dirty
      /\ Held(t, line).words = Held(d, line).words
  BY <1>1, <1>2, CleanedIs DEF IsDirty
<1>4. /\ Shape(t) /\ t.config = u.config /\ t.pending = None /\ t.maintenance = u.maintenance
      /\ t.access = None /\ t.weather = u.weather /\ t.burst = None /\ t.mem = d.mem
  BY <1>3 DEF SameBeside, SameSets, Cleaning
<1>5. /\ \A l \in CachedLines : l # line => Held(t, l) = Held(u, l)
      /\ Held(t, line).words = Held(u, line).words /\ Held(u, line) # None /\ Held(u, line).dirty
  BY <1>1, <1>3 DEF IsDirty
<1>6. line \notin F /\ DirtyOK(t, F)
  BY <1>3, <1>4, <1>5 DEF Cleaning, DirtyOK
<1>7. ASSUME Reliable PROVE CleanData(t, k, F) /\ WordData(t, k, L, F) /\ BurstData(t, F)
  <2>1. CleanData(u, k, F) /\ WordData(u, k, L, F) /\ Written(u.mem, d.mem, line, Held(u, line).words)
    BY <1>7 DEF Cleaning
  <2>2. CleanData(t, k, F)
    BY <1>3, <1>4, <1>5, <2>1 DEF CleanData, Written
  <2>3. \A w \in Words : VisibleIn(t, w) = VisibleIn(u, w)
    BY <1>3, <1>4, <1>5, <2>1 DEF VisibleIn, Written, Cleaning
  <2>4. \A w \in Words : LineOf(w) \in F => t.mem[w] = u.mem[w]
    BY <1>4, <1>6, <2>1 DEF Written
  <2>5. WordData(t, k, L, F)
    BY <2>1, <2>3, <2>4 DEF WordData
  <2> QED BY <1>4, <2>2, <2>5 DEF BurstData
<1>8. Cleaning(t, k, L, F)
  BY <1>3, <1>4, <1>6, <1>7 DEF Cleaning
<1>9. Cleaner(u, t, k, L, F)
  <2>1. \A l \in CachedLines : IsDirty(t, l) => IsDirty(u, l)
    BY <1>3, <1>5 DEF IsDirty
  <2>2. ASSUME Reliable, NEW w \in Words, LineOf(w) \notin F
        PROVE  t.mem[w] = u.mem[w] \/ t.mem[w] = L[w] \/ StoringBy(k, w)
    <3>1. Written(u.mem, t.mem, line, Held(u, line).words) /\ WordData(u, k, L, F)
      BY <1>4, <2>2 DEF Cleaning
    <3>2. LineOf(w) = line => VisibleIn(u, w) = Held(u, line).words[Offset(w)]
      BY <1>5 DEF VisibleIn
    <3> QED BY <2>2, <3>1, <3>2 DEF Written, WordData
  <2> QED BY <1>4, <2>1, <2>2 DEF Cleaner
<1> QED BY <1>3, <1>4, <1>8, <1>9 DEF IsDirty

(* One round: the line is clean now, or its burst is on its way.           *)
LEMMA WriteBackLineIs ==
  ASSUME NEW u, NEW k, NEW L, NEW F, Cleaning(u, k, L, F), NEW line,
         u.burst # None => Sent(u, line)
  PROVE  LET acc == [answer |-> "Ok", s |-> u, left |-> << >>]
             r == WriteBackLine(acc, line)
         IN  /\ Cleaning(r.s, k, L, F) /\ Cleaner(u, r.s, k, L, F)
             /\ r = [answer |-> r.answer, s |-> r.s, left |-> r.left]
             /\ \/ /\ r.answer = "Ok" /\ r.left = << >> /\ r.s.burst = None
                   /\ line \in CachedLines => ~IsDirty(r.s, line)
                \/ r.answer = "Busy" /\ r.left = <<line>> /\ Sent(r.s, line)
PROOF
<1> DEFINE acc == [answer |-> "Ok", s |-> u, left |-> << >>]
           r == WriteBackLine(acc, line)
           held == Held(u, line)
           dirty == line \in CachedLines /\ held # None /\ held.dirty
           e == DriveBurst(u, "write", line, held.words)
           t == [e.s EXCEPT !.sets[SetOf(u.config, line)].lines[LookupWay(u, line)].dirty = FALSE]
<1>1. acc.answer = "Ok" /\ acc.s = u /\ acc.left = << >>
  OBVIOUS
<1>2. r = IF ~dirty THEN acc
          ELSE IF e.answer = "Ready" THEN [acc EXCEPT !.s = t]
          ELSE [answer |-> "Busy", s |-> e.s, left |-> <<line>>]
  <2>1. r = CASE acc.answer = "Busy" -> [acc EXCEPT !.left = Append(@, line)]
              [] acc.answer = "Ok" /\ ~dirty -> acc
              [] acc.answer = "Ok" /\ dirty ->
                   IF e.answer = "Ready" THEN [acc EXCEPT !.s = t]
                   ELSE [answer |-> "Busy", s |-> e.s, left |-> <<line>>]
    BY <1>1 DEF WriteBackLine
  <2> HIDE DEF r, acc, e, t, held
  <2>2. dirty \in BOOLEAN
    OBVIOUS
  <2> HIDE DEF dirty
  <2>3. CASE dirty
    BY <1>1, <2>1, <2>3
  <2>4. CASE ~dirty
    BY <1>1, <2>1, <2>4
  <2> QED BY <2>2, <2>3, <2>4
<1>3. [acc EXCEPT !.s = t] = [answer |-> "Ok", s |-> t, left |-> << >>]
  <2> HIDE DEF t
  <2> QED OBVIOUS
<1>4. Cleaner(u, u, k, L, F)
  BY DEF Cleaner
<1>5. Shape(u) /\ LinesOK(u) /\ u.weather \in Weathers /\ (u.burst = None \/ u.burst \in Bursts)
  BY DEF Cleaning
<1> HIDE DEF r, acc
<1>6. CASE ~dirty
  <2>1. r = acc
    BY <1>2, <1>6
  <2>2. u.burst = None
    BY <1>6 DEF Sent, IsDirty
  <2>3. r.s = u /\ r.answer = "Ok" /\ r.left = << >> /\ r = [answer |-> r.answer, s |-> r.s, left |-> r.left]
    BY <2>1 DEF acc
  <2> QED BY <1>4, <1>6, <2>2, <2>3 DEF IsDirty, r, acc
<1>7. CASE dirty
  <2>1. line \in CachedLines /\ IsDirty(u, line)
    BY <1>7 DEF IsDirty
  <2>2. r = IF e.answer = "Ready" THEN [answer |-> "Ok", s |-> t, left |-> << >>]
            ELSE [answer |-> "Busy", s |-> e.s, left |-> <<line>>]
    BY <1>2, <1>3, <1>7
  <2>3. held \in CacheLine /\ held.words \in LineData
    <3>1. held \in CacheLine
      BY <1>5, <2>1, HeldIs DEF IsDirty
    <3> HIDE DEF held
    <3> QED BY <3>1 DEF CacheLine
  <2>4. \/ /\ u.burst # None /\ u.burst.left # 0
           /\ e.answer = "Busy" /\ e.s = u
        \/ /\ u.burst # None /\ u.burst.left = 0
           /\ e.answer = "Ready" /\ e.s = [u EXCEPT !.burst = None] /\ e.words = u.burst.words
        \/ /\ u.burst = None /\ MayRefuse
           /\ e.answer = "Refused" /\ e.s = u
        \/ /\ u.burst = None /\ e.answer = "Ready"
           /\ e.s = [u EXCEPT !.mem = Perform(u.mem, Request("write", line, held.words, 0))]
           /\ e.words = Carried(u.mem, Request("write", line, held.words, 0))
        \/ /\ u.burst = None /\ e.answer = "Busy"
           /\ \E n \in Nat \ {0} : e.s = [u EXCEPT !.burst = Request("write", line, held.words, n)]
    <3> HIDE DEF held
    <3> QED BY <1>5, DriveCases
  <2> HIDE DEF e
  <2>5. ASSUME e.answer # "Ready", Cleaning(e.s, k, L, F), Sent(e.s, line), Cleaner(u, e.s, k, L, F)
        PROVE  /\ Cleaning(r.s, k, L, F) /\ Cleaner(u, r.s, k, L, F)
               /\ r = [answer |-> r.answer, s |-> r.s, left |-> r.left]
               /\ r.answer = "Busy" /\ r.left = <<line>> /\ Sent(r.s, line)
    <3>1. r = [answer |-> "Busy", s |-> e.s, left |-> <<line>>]
      BY <2>2, <2>5
    <3>2. r.answer = "Busy" /\ r.s = e.s /\ r.left = <<line>>
      BY <3>1
    <3> QED BY <2>5, <3>1, <3>2
  <2>6. ASSUME e.answer = "Ready", SameSets(u, e.s), e.s.pending = u.pending, e.s.burst = None,
               e.s.mem \in [Words -> Values],
               Reliable => Written(u.mem, e.s.mem, line, held.words)
        PROVE  /\ Cleaning(r.s, k, L, F) /\ Cleaner(u, r.s, k, L, F)
               /\ r = [answer |-> r.answer, s |-> r.s, left |-> r.left]
               /\ r.answer = "Ok" /\ r.left = << >> /\ r.s.burst = None /\ ~IsDirty(r.s, line)
    <3>1. r = [answer |-> "Ok", s |-> t, left |-> << >>]
      BY <2>2, <2>6
    <3>2. r.answer = "Ok" /\ r.s = t /\ r.left = << >>
      <4> HIDE DEF t
      <4> QED BY <3>1
    <3>3. Cleaning(t, k, L, F) /\ Cleaner(u, t, k, L, F) /\ t.burst = None /\ ~IsDirty(t, line)
      <4>1. MarkedClean(e.s, t, SetOf(u.config, line), LookupWay(u, line))
        BY DEF MarkedClean
      <4> HIDE DEF t
      <4> QED BY <2>1, <2>6, <4>1, CleaningDone
    <3> HIDE DEF t
    <3> QED BY <3>1, <3>2, <3>3
  <2>7. CASE u.burst # None /\ u.burst.left # 0
    BY <1>4, <2>4, <2>5, <2>7 DEF r, acc
  <2>8. CASE u.burst # None /\ u.burst.left = 0
    <3>1. e.answer = "Ready" /\ e.s = [u EXCEPT !.burst = None]
      BY <2>4, <2>8
    <3>2. SameSets(u, e.s) /\ e.s.pending = u.pending /\ e.s.burst = None /\ e.s.mem = u.mem
      BY <1>5, <3>1 DEF Shape, SameSets
    <3>3. u.mem \in [Words -> Values] /\ (Reliable => Written(u.mem, u.mem, line, held.words))
      <4>1. u.burst.line = line /\ u.burst.words = held.words
        BY <2>8 DEF Sent
      <4>2. line \notin F
        BY <2>1 DEF Cleaning, DirtyOK, IsDirty
      <4> QED BY <2>8, <4>1, <4>2 DEF Cleaning, BurstData, Written
    <3> QED BY <2>6, <3>1, <3>2, <3>3 DEF r, acc
  <2>9. CASE u.burst = None /\ e.answer = "Refused"
    <3>1. e.s = u /\ Sent(u, line)
      BY <2>1, <2>4, <2>9 DEF Sent
    <3> QED BY <1>4, <2>5, <2>9, <3>1 DEF r, acc
  <2>10. CASE u.burst = None /\ e.answer = "Ready"
    <3> DEFINE m == Perform(u.mem, Request("write", line, held.words, 0))
    <3>1. e.s = [u EXCEPT !.mem = m]
      BY <2>4, <2>10
    <3>2. m \in [Words -> Values] /\ Written(u.mem, m, line, held.words)
      BY <2>1, <2>3, PerformIs DEF Cleaning
    <3> HIDE DEF m
    <3>3. SameSets(u, e.s) /\ e.s.pending = u.pending /\ e.s.burst = None /\ e.s.mem = m
      BY <1>5, <2>10, <3>1 DEF Shape, SameSets
    <3> QED BY <2>6, <2>10, <3>2, <3>3 DEF r, acc
  <2>11. CASE u.burst = None /\ e.answer = "Busy"
    <3>1. PICK n \in Nat \ {0} : e.s = [u EXCEPT !.burst = Request("write", line, held.words, n)]
      BY <2>4, <2>11
    <3>2. Cleaning(e.s, k, L, F) /\ Sent(e.s, line) /\ Cleaner(u, e.s, k, L, F)
      BY <2>1, <2>11, <3>1, CleaningSent
    <3> QED BY <2>5, <2>11, <3>2 DEF r, acc
  <2> QED BY <2>4, <2>7, <2>8, <2>9, <2>10, <2>11
<1> QED BY <1>6, <1>7

IsDone(g, N, s, lines) ==
  g = [n \in 0 .. N |-> IF n = 0 THEN [answer |-> "Ok", s |-> s, left |-> << >>]
                        ELSE WriteBackLine(g[n - 1], lines[n])]

LEMMA DoneExists ==
  ASSUME NEW s, NEW lines, NEW N \in Nat
  PROVE  \E g : IsDone(g, N, s, lines)
PROOF
<1> DEFINE first == [answer |-> "Ok", s |-> s, left |-> << >>]
           S == {n \in Nat : \E g : IsDone(g, n, s, lines)}
<1>1. 0 \in S
  <2> DEFINE g == [n \in 0 .. 0 |-> first]
  <2>1. g = [n \in 0 .. 0 |-> IF n = 0 THEN first ELSE WriteBackLine(g[n - 1], lines[n])]
    OBVIOUS
  <2> QED BY <2>1 DEF IsDone
<1>2. ASSUME NEW x \in 1 .. N, x - 1 \in S PROVE x \in S
  <2>1. x \in Nat /\ x # 0 /\ x - 1 \in Nat
    OBVIOUS
  <2>2. PICK g : IsDone(g, x - 1, s, lines)
    BY <1>2
  <2> DEFINE h == [n \in 0 .. x |-> IF n = x THEN WriteBackLine(g[x - 1], lines[x]) ELSE g[n]]
  <2> HIDE DEF first
  <2>3. \A n \in 0 .. (x - 1) : g[n] = IF n = 0 THEN first ELSE WriteBackLine(g[n - 1], lines[n])
    BY <2>2 DEF IsDone, first
  <2>4. ASSUME NEW n \in 0 .. x
        PROVE  h[n] = IF n = 0 THEN first ELSE WriteBackLine(h[n - 1], lines[n])
    <3>1. CASE n = x
      BY <2>1, <3>1
    <3>2. CASE n # x
      <4>1. n \in 0 .. (x - 1) /\ (n # 0 => n - 1 \in 0 .. (x - 1))
        BY <2>1, <3>2
      <4>2. h[n] = g[n] /\ (n # 0 => h[n - 1] = g[n - 1])
        BY <2>1, <3>2, <4>1
      <4> HIDE DEF h
      <4> QED BY <2>3, <4>1, <4>2
    <3> QED BY <3>1, <3>2
  <2>5. h = [n \in 0 .. x |-> h[n]]
    OBVIOUS
  <2> HIDE DEF h
  <2>6. IsDone(h, x, s, lines)
    BY <2>4, <2>5 DEF IsDone, first
  <2> QED BY <2>1, <2>6
<1>3. \A n \in 1 .. N : n - 1 \in S => n \in S
  BY <1>2
<1> HIDE DEF S
<1>4. \A n \in 0 .. N : n \in S
  BY <1>1, <1>3, UpTo
<1>5. N \in S
  BY <1>4
<1> QED BY <1>5 DEF S

LEMMA ElementIs ==
  ASSUME NEW T, NEW q \in Seq(T), NEW n \in 1 .. Len(q)
  PROVE  q[n] \in T
PROOF
  OBVIOUS

LEMMA LeftGrows ==
  ASSUME NEW left \in Seq(0 .. LineCount), NEW line \in 0 .. LineCount
  PROVE  /\ Append(left, line) \in Seq(0 .. LineCount) /\ Append(left, line) # << >>
         /\ left # << >> => Head(Append(left, line)) = Head(left)
         /\ line \in Range(Append(left, line))
         /\ \A l \in Range(left) : l \in Range(Append(left, line))
PROOF
<1> DEFINE new == Append(left, line)
<1>1. /\ new \in Seq(0 .. LineCount) /\ Len(new) = Len(left) + 1 /\ Len(left) \in Nat
      /\ new[Len(left) + 1] = line /\ \A n \in 1 .. Len(left) : new[n] = left[n]
  OBVIOUS
<1>4. DOMAIN new = 1 .. Len(new) /\ DOMAIN left = 1 .. Len(left)
  OBVIOUS
<1>2. new # << >> /\ (left # << >> => Head(new) = Head(left))
  <2>1. new # << >>
    OBVIOUS
  <2>2. ASSUME left # << >> PROVE Head(new) = Head(left)
    <3>1. 1 \in 1 .. Len(left)
      BY <2>2
    <3>2. new[1] = left[1]
      BY <1>1, <3>1
    <3>3. Head(new) = new[1] /\ Head(left) = left[1]
      BY <1>1, <2>1, <2>2
    <3> QED BY <3>2, <3>3
  <2> QED BY <2>1, <2>2
<1> HIDE DEF new
<1>3. line \in Range(new) /\ \A l \in Range(left) : l \in Range(new)
  BY <1>1, <1>4 DEF Range
<1> QED BY <1>1, <1>2, <1>3 DEF new

LEMMA CleanerChain ==
  ASSUME NEW s, NEW t, NEW u, NEW k, NEW L, NEW F, Cleaner(s, t, k, L, F), Cleaner(t, u, k, L, F)
  PROVE  Cleaner(s, u, k, L, F)
PROOF
  BY DEF Cleaner

(* The whole loop: every line it went over is clean, or left.              *)
LEMMA WriteBackLinesIs ==
  ASSUME NEW s, NEW k, NEW L, NEW F, Cleaning(s, k, L, F), NEW lines \in Seq(0 .. LineCount),
         s.burst # None => lines # << >> /\ Sent(s, lines[1])
  PROVE  LET o == WriteBackLines(s, lines)
         IN  /\ Cleaning(o.s, k, L, F) /\ Cleaner(s, o.s, k, L, F)
             /\ \/ /\ o.answer = "Ok" /\ o.s.burst = None
                   /\ \A l \in Range(lines) \cap CachedLines : ~IsDirty(o.s, l)
                \/ /\ o.answer = "Busy" /\ o.left \in Seq(0 .. LineCount) /\ o.left # << >>
                   /\ Sent(o.s, Head(o.left))
                   /\ \A l \in Range(lines) \cap CachedLines :
                        IsDirty(o.s, l) => l \in Range(o.left)
PROOF
<1>1. /\ Len(lines) \in Nat /\ DOMAIN lines = 1 .. Len(lines)
      /\ \A n \in 1 .. Len(lines) : lines[n] \in 0 .. LineCount
  <2>1. Len(lines) \in Nat
    OBVIOUS
  <2>2. DOMAIN lines = 1 .. Len(lines)
    OBVIOUS
  <2>3. \A n \in 1 .. Len(lines) : lines[n] \in 0 .. LineCount
    BY ElementIs
  <2> QED BY <2>1, <2>2, <2>3
<1> DEFINE N == Len(lines)
           g == CHOOSE h : IsDone(h, N, s, lines)
           Going(n) == /\ g[n].answer = "Ok" /\ g[n].left = << >>
                       /\ g[n].s.burst = None \/ (n = 0 /\ g[n].s = s)
                       /\ \A m \in 1 .. n : lines[m] \in CachedLines => ~IsDirty(g[n].s, lines[m])
           Stopped(n) == /\ g[n].answer = "Busy" /\ g[n].left \in Seq(0 .. LineCount)
                         /\ g[n].left # << >> /\ Sent(g[n].s, Head(g[n].left))
                         /\ \A m \in 1 .. n : lines[m] \in CachedLines /\ IsDirty(g[n].s, lines[m]) =>
                              lines[m] \in Range(g[n].left)
           P(n) == /\ Cleaning(g[n].s, k, L, F) /\ Cleaner(s, g[n].s, k, L, F)
                   /\ g[n] = [answer |-> g[n].answer, s |-> g[n].s, left |-> g[n].left]
                   /\ Going(n) \/ Stopped(n)
           S == {n \in 0 .. N : P(n)}
<1>2. IsDone(g, N, s, lines)
  BY <1>1, DoneExists
<1>3. WriteBackLines(s, lines) = g[N]
  BY DEF WriteBackLines, IsDone
<1> HIDE DEF g
<1>4. /\ g[0] = [answer |-> "Ok", s |-> s, left |-> << >>]
      /\ \A n \in 1 .. N : g[n] = WriteBackLine(g[n - 1], lines[n])
  BY <1>1, <1>2 DEF IsDone
<1>5. 0 \in S
  <2>1. g[0].answer = "Ok" /\ g[0].s = s /\ g[0].left = << >>
        /\ g[0] = [answer |-> g[0].answer, s |-> g[0].s, left |-> g[0].left]
    BY <1>4
  <2>2. Cleaner(s, s, k, L, F)
    BY DEF Cleaner
  <2> QED BY <1>1, <2>1, <2>2
<1>6. ASSUME NEW x \in 1 .. N, x - 1 \in S PROVE x \in S
  <2> DEFINE a == g[x - 1]
             b == g[x]
             line == lines[x]
  <2>1. x \in Nat /\ x - 1 \in 0 .. N /\ line \in 0 .. LineCount
    BY <1>1
  <2>2. b = WriteBackLine(a, line)
    BY <1>4
  <2>3. /\ Cleaning(a.s, k, L, F) /\ Cleaner(s, a.s, k, L, F)
        /\ a = [answer |-> a.answer, s |-> a.s, left |-> a.left]
        /\ Going(x - 1) \/ Stopped(x - 1)
    BY <1>6
  <2>4. \A m \in 1 .. x : m = x \/ m \in 1 .. (x - 1)
    BY <2>1
  <2>5. CASE Going(x - 1)
    <3>1. a = [answer |-> "Ok", s |-> a.s, left |-> << >>]
      BY <2>3, <2>5
    <3>2. a.s.burst # None => Sent(a.s, line)
      <4>1. ASSUME a.s.burst # None PROVE x = 1 /\ a.s = s
        BY <2>1, <2>5, <4>1
      <4> QED BY <4>1
    <3>3. /\ Cleaning(b.s, k, L, F) /\ Cleaner(a.s, b.s, k, L, F)
          /\ b = [answer |-> b.answer, s |-> b.s, left |-> b.left]
          /\ \/ /\ b.answer = "Ok" /\ b.left = << >> /\ b.s.burst = None
                /\ line \in CachedLines => ~IsDirty(b.s, line)
             \/ b.answer = "Busy" /\ b.left = <<line>> /\ Sent(b.s, line)
      BY <2>2, <2>3, <3>1, <3>2, WriteBackLineIs
    <3>4. Cleaner(s, b.s, k, L, F)
      BY <2>3, <3>3, CleanerChain
    <3>5. \A m \in 1 .. (x - 1) : lines[m] \in CachedLines => ~IsDirty(b.s, lines[m])
      BY <2>5, <3>3 DEF Cleaner
    <3>6. CASE b.answer = "Ok"
      <4>1. Going(x)
        BY <2>4, <3>3, <3>5, <3>6
      <4> QED BY <2>1, <3>3, <3>4, <4>1
    <3>7. CASE b.answer = "Busy"
      <4>1. b.left = <<line>> /\ Sent(b.s, line)
        BY <3>3, <3>7
      <4>2. <<line>> \in Seq(0 .. LineCount) /\ <<line>> # << >> /\ Head(<<line>>) = line
        BY <2>1
      <4>3. line \in Range(<<line>>)
        BY DEF Range
      <4>4. Stopped(x)
        BY <2>4, <3>5, <3>7, <4>1, <4>2, <4>3
      <4> QED BY <2>1, <3>3, <3>4, <4>4
    <3> QED BY <3>3, <3>6, <3>7
  <2>6. CASE Stopped(x - 1)
    <3>1. b = [a EXCEPT !.left = Append(@, line)]
      BY <2>2, <2>6 DEF WriteBackLine
    <3>2. b.answer = a.answer /\ b.s = a.s /\ b.left = Append(a.left, line)
          /\ b = [answer |-> b.answer, s |-> b.s, left |-> b.left]
      <4> HIDE DEF a, b
      <4> QED BY <2>3, <3>1
    <3>3. /\ b.left \in Seq(0 .. LineCount) /\ b.left # << >> /\ Head(b.left) = Head(a.left)
          /\ line \in Range(b.left) /\ \A l \in Range(a.left) : l \in Range(b.left)
      BY <2>1, <2>6, <3>2, LeftGrows
    <3>4. Stopped(x)
      BY <2>4, <2>6, <3>2, <3>3
    <3>5. Cleaning(b.s, k, L, F) /\ Cleaner(s, b.s, k, L, F)
      BY <2>3, <3>2
    <3> HIDE DEF Going, Stopped
    <3> QED BY <2>1, <3>2, <3>4, <3>5
  <2> QED BY <2>3, <2>5, <2>6
<1>7. \A n \in 1 .. N : n - 1 \in S => n \in S
  BY <1>6
<1>8. P(N)
  <2> HIDE DEF S
  <2>1. \A n \in 0 .. N : n \in S
    BY <1>1, <1>5, <1>7, UpTo
  <2>2. N \in S
    BY <1>1, <2>1
  <2> QED BY <2>2 DEF S
<1>9. \A l \in Range(lines) : \E m \in 1 .. N : l = lines[m]
  BY <1>1 DEF Range
<1> QED BY <1>3, <1>8, <1>9

LEMMA DivMono ==
  ASSUME NEW a \in Nat, NEW b \in Nat, a <= b, NEW m \in Nat \ {0}
  PROVE  a \div m <= b \div m
PROOF
<1> DEFINE q == a \div m
           p == b \div m
           r == a % m
           o == b % m
<1>1. q \in Nat /\ p \in Nat /\ r \in 0 .. (m - 1) /\ o \in 0 .. (m - 1)
      /\ a = q * m + r /\ b = p * m + o
  BY DivMod
<1> HIDE DEF q, p, r, o
<1> SUFFICES ASSUME ~(q <= p) PROVE FALSE
  BY DEF q, p
<1>2. PICK d \in Nat : q = p + 1 + d
  <2>1. q - p - 1 \in Nat /\ q = p + 1 + (q - p - 1)
    BY <1>1
  <2> QED BY <2>1
<1>3. q * m = p * m + m + d * m /\ d * m \in Nat /\ p * m \in Nat
  BY <1>1, <1>2
<1> QED BY <1>1, <1>3

(* line_bases_for_range: the lines of the range, and perhaps one more.     *)
LEMMA LineBasesIs ==
  ASSUME NEW start \in Nat, NEW len \in Nat, start + len <= LineCount * LineWords
  PROVE  LET bases == LineBasesForRange(start, len)
         IN  /\ bases \in Seq(0 .. LineCount)
             /\ \A w \in start .. (start + len - 1) : LineOf(w) \in Range(bases)
PROOF
<1> DEFINE bases == LineBasesForRange(start, len)
           first == LineOf(start)
           last == (start + len + LineWords - 1) \div LineWords
           N == last - first + 1
<1>1. LineWords \in Nat \ {0} /\ LineCount \in Nat \ {0}
  BY CacheAssumption
<1>2. first \in Nat /\ last \in Nat /\ first <= last
  <2>1. start + len + LineWords - 1 \in Nat /\ start <= start + len + LineWords - 1
    BY <1>1
  <2> QED BY <1>1, <2>1, DivMod, DivMono DEF LineOf
<1>3. last <= LineCount
  <2> DEFINE top == LineCount * LineWords + (LineWords - 1)
  <2>1. top \in Nat /\ start + len + LineWords - 1 \in Nat /\ start + len + LineWords - 1 <= top
        /\ LineCount * LineWords \in Nat
    BY <1>1
  <2>2. last <= top \div LineWords
    BY <1>1, <2>1, DivMono
  <2>3. top \div LineWords = LineCount
    <3>1. /\ top \div LineWords \in Nat /\ top % LineWords \in 0 .. (LineWords - 1)
          /\ top = (top \div LineWords) * LineWords + (top % LineWords)
      BY <1>1, <2>1, DivMod
    <3>2. LineWords - 1 \in 0 .. (LineWords - 1)
      BY <1>1
    <3> QED BY <1>1, <3>1, <3>2, DivUnique
  <2> HIDE DEF last, top
  <2> QED BY <2>2, <2>3
<1> HIDE DEF first, last
<1>4. CASE len = 0
  BY <1>4 DEF LineBasesForRange
<1>5. CASE len # 0
  <2>1. bases = [i \in 1 .. N |-> first + i - 1]
    BY <1>5 DEF LineBasesForRange, first, last
  <2>2. N \in Nat
    BY <1>2
  <2>3. \A i \in 1 .. N : first + i - 1 \in 0 .. LineCount
    BY <1>1, <1>2, <1>3
  <2>4. bases \in Seq(0 .. LineCount)
    <3> HIDE DEF N
    <3> QED BY <2>1, <2>2, <2>3
  <2>5. ASSUME NEW w \in start .. (start + len - 1) PROVE LineOf(w) \in Range(bases)
    <3> DEFINE l == LineOf(w)
    <3>1. l \in Nat /\ first <= l /\ l <= last
      <4>1. w \in Nat /\ start <= w /\ w <= start + len + LineWords - 1 /\ start + len + LineWords - 1 \in Nat
        BY <1>1
      <4> QED BY <1>1, <4>1, DivMod, DivMono DEF LineOf, first, last
    <3> HIDE DEF l
    <3>2. l - first + 1 \in 1 .. N /\ first + (l - first + 1) - 1 = l
      BY <1>2, <3>1
    <3>3. DOMAIN bases = 1 .. N /\ bases[l - first + 1] = l
      BY <2>1, <3>2
    <3> QED BY <3>2, <3>3 DEF Range, l
  <2> QED BY <2>4, <2>5
<1> QED BY <1>4, <1>5

LEMMA WriteBackRangeIs ==
  ASSUME NEW s, NEW k, NEW L, NEW F, Good(s, k, L, F), k # None, k.op = "clean",
         s.weather \in Weathers
  PROVE  LET o == WriteBackRange(s, k.start, k.len)
         IN  /\ Attempted(o, s, k, L, F, L, F)
             /\ o.answer = "Ok" /\ Reliable =>
                  \A w \in Words : LineOf(w) \in LinesIn(k) => o.s.mem[w] = L[w]
PROOF
<1> DEFINE o == WriteBackRange(s, k.start, k.len)
           bases == LineBasesForRange(k.start, k.len)
           lines == IF s.maintenance = None THEN bases ELSE s.maintenance
           done == WriteBackLines(s, lines)
           left == IF done.answer = "Ok" THEN None ELSE done.left
           t == [done.s EXCEPT !.maintenance = left]
<1>1. /\ Shape(s) /\ LinesOK(s) /\ PendingOK(s) /\ BurstOK(s) /\ s.mem \in [Words -> Values]
      /\ CallOK(k, F) /\ MaintenanceOK(s, k) /\ AccessOK(s, k) /\ DirtyOK(s, F)
      /\ L \in [Words -> Values] /\ (Reliable => Data(s, k, L, F))
  BY GoodIs
<1>2. /\ bases \in Seq(0 .. LineCount)
      /\ \A w \in k.start .. (k.start + k.len - 1) : LineOf(w) \in Range(bases)
  <2>1. k.start \in Nat /\ k.len \in Nat /\ k.start + k.len <= LineCount * LineWords
    BY <1>1, CacheAssumption DEF CallOK
  <2> QED BY <2>1, LineBasesIs
<1>3. o = IF s.maintenance = None /\ s.pending # None THEN Outcome("Busy", s)
          ELSE Outcome(done.answer, t)
  BY DEF WriteBackRange
<1> HIDE DEF o, bases
<1>4. CASE s.maintenance = None /\ s.pending # None
  <2>1. o.answer = "Busy" /\ o.s = s
    BY <1>3, <1>4 DEF Outcome
  <2> QED BY <2>1 DEF Attempted, o
<1>5. CASE ~(s.maintenance = None /\ s.pending # None)
  <2>1. s.pending = None
    BY <1>1, <1>5 DEF PendingOK
  <2>2. s.access = None
    BY <1>1 DEF AccessOK, Accesses
  <2>3. lines \in Seq(0 .. LineCount)
    BY <1>1, <1>2 DEF MaintenanceOK
  <2>4. Cleaning(s, k, L, F)
    BY <1>1, <2>1, <2>2 DEF Cleaning, BurstOK, Data
  <2>5. ASSUME s.burst # None PROVE lines # << >> /\ Sent(s, lines[1])
    <3>1. /\ s.maintenance # None /\ s.burst.kind = "write" /\ s.burst.line = Head(s.maintenance)
          /\ s.burst.words = Held(s, s.burst.line).words
      BY <1>1, <2>1, <2>5 DEF BurstOK
    <3>2. /\ s.maintenance # << >> /\ Head(s.maintenance) \in CachedLines
          /\ IsDirty(s, Head(s.maintenance))
      BY <1>1, <3>1 DEF MaintenanceOK, IsDirty
    <3>3. lines = s.maintenance /\ lines[1] = Head(lines)
      BY <2>3, <3>1, <3>2
    <3> QED BY <3>1, <3>2, <3>3 DEF Sent
  <2> HIDE DEF lines
  <2>6. /\ Cleaning(done.s, k, L, F) /\ Cleaner(s, done.s, k, L, F)
        /\ \/ /\ done.answer = "Ok" /\ done.s.burst = None
              /\ \A l \in Range(lines) \cap CachedLines : ~IsDirty(done.s, l)
           \/ /\ done.answer = "Busy" /\ done.left \in Seq(0 .. LineCount) /\ done.left # << >>
              /\ Sent(done.s, Head(done.left))
              /\ \A l \in Range(lines) \cap CachedLines :
                   IsDirty(done.s, l) => l \in Range(done.left)
    BY <2>3, <2>4, <2>5, WriteBackLinesIs
  <2> HIDE DEF done
  <2>7. o.answer = done.answer /\ o.s = t
    BY <1>3, <1>5 DEF Outcome
  <2>8. /\ Shape(t) /\ t.config = done.s.config /\ t.sets = done.s.sets /\ t.pending = done.s.pending
        /\ t.maintenance = left /\ t.mem = done.s.mem /\ t.access = done.s.access
        /\ t.weather = done.s.weather /\ t.burst = done.s.burst
    <3>1. Shape(done.s)
      BY <2>6 DEF Cleaning
    <3> HIDE DEF left
    <3> QED BY <3>1 DEF Shape
  <2> HIDE DEF t
  <2>9. t.pending = None /\ t.access = None /\ t.mem \in [Words -> Values] /\ t.config = s.config
    BY <2>6, <2>8 DEF Cleaning, Cleaner
  <2>10. LinesOK(t) /\ \A l : Held(t, l) = Held(done.s, l)
    BY <2>6, <2>8, HeldSame DEF Cleaning, LinesOK
  <2>11. DirtyOK(t, F)
    BY <2>6, <2>8, <2>10 DEF Cleaning, DirtyOK
  <2>12. done.answer = "Busy" => left = done.left /\ left # None
    BY <2>6, NoneAssumption
  <2>13. Bank(t)
    <3>1. PendingOK(t)
      BY <2>9 DEF PendingOK
    <3>2. BurstOK(t)
      <4>1. ASSUME t.burst # None
            PROVE  /\ t.maintenance # None /\ t.burst \in Bursts /\ t.burst.kind = "write"
                   /\ t.burst.line = Head(t.maintenance)
                   /\ t.burst.words = Held(t, t.burst.line).words
        BY <2>6, <2>8, <2>10, <2>12, <4>1 DEF Cleaning, Sent
      <4> QED BY <2>9, <4>1 DEF BurstOK
    <3> QED BY <2>8, <2>9, <2>10, <3>1, <3>2 DEF Bank
  <2>14. MaintenanceOK(t, k)
    BY <2>6, <2>8, <2>10, <2>12 DEF MaintenanceOK, Sent, IsDirty
  <2>15. Struct(t, k, F)
    BY <1>1, <2>9, <2>11, <2>13, <2>14 DEF Struct, AccessOK
  <2>16. ASSUME Reliable, NEW l \in CachedLines, l \in Range(bases), IsDirty(t, l)
         PROVE  l \in Range(lines) /\ IsDirty(done.s, l)
    <3>1. IsDirty(done.s, l) /\ IsDirty(s, l)
      BY <2>6, <2>10, <2>16 DEF IsDirty, Cleaner
    <3> QED BY <1>1, <2>16, <3>1 DEF lines, Data, MaintenanceData, bases
  <2>17. ASSUME Reliable PROVE Data(t, k, L, F)
    <3>1. CleanData(done.s, k, F) /\ WordData(done.s, k, L, F) /\ BurstData(done.s, F)
      BY <2>6, <2>17 DEF Cleaning
    <3>2. CleanData(t, k, F)
      BY <2>8, <2>10, <3>1 DEF CleanData
    <3>3. WordData(t, k, L, F)
      BY <2>8, <2>10, <3>1 DEF WordData, VisibleIn
    <3>4. BurstData(t, F) /\ AccessData(t)
      BY <2>8, <2>9, <3>1 DEF BurstData, AccessData
    <3>5. MaintenanceData(t, k)
      <4> SUFFICES ASSUME t.maintenance # None, NEW l \in CachedLines, l \in Range(bases), IsDirty(t, l)
                   PROVE  l \in Range(t.maintenance)
        BY DEF MaintenanceData, bases
      <4>1. l \in Range(lines) /\ IsDirty(done.s, l)
        BY <2>16, <2>17
      <4> QED BY <2>6, <2>8, <2>12, <4>1
    <3> QED BY <3>2, <3>3, <3>4, <3>5 DEF Data
  <2>18. Good(t, k, L, F)
    BY <1>1, <2>15, <2>17 DEF Good
  <2>19. done.answer = "Ok" => Good(t, None, L, F)
    BY <2>8, <2>9, <2>18, CallEnds
  <2>20. ASSUME Reliable, done.answer = "Ok", NEW w \in Words, LineOf(w) \in LinesIn(k)
         PROVE  t.mem[w] = L[w]
    <3>1. LineOf(w) \in Range(bases)
      BY <1>2, <2>20 DEF LinesIn
    <3>2. LineOf(w) \in CachedLines => ~IsDirty(t, LineOf(w))
      BY <2>6, <2>16, <2>20, <3>1
    <3>3. CleanData(t, k, F) /\ WordData(t, k, L, F) /\ ~StoringBy(k, w)
      BY <2>17, <2>20 DEF Data, StoringBy
    <3>4. CASE LineOf(w) \in F
      BY <3>3, <3>4 DEF WordData
    <3>5. CASE LineOf(w) \notin F
      <4>1. VisibleIn(t, w) = t.mem[w]
        BY <2>9, <3>2, <3>3, <3>5 DEF VisibleIn, CleanData, IsDirty
      <4> QED BY <3>3, <3>5, <4>1 DEF WordData
    <3> QED BY <3>4, <3>5
  <2>21. Attempted(o, s, k, L, F, L, F)
    BY <2>6, <2>7, <2>8, <2>9, <2>18, <2>19 DEF Attempted, Cleaner
  <2> QED BY <2>7, <2>20, <2>21 DEF o
<1> QED BY <1>4, <1>5

LEMMA InvalidateRangeIs ==
  ASSUME NEW s, NEW k, NEW L, NEW F, Good(s, k, L, F), k # None, k.op = "discard",
         s.weather \in Weathers, NEW N, NEW G, G = F \ LinesIn(k),
         N = [w \in Words |-> IF LineOf(w) \in LinesIn(k) THEN s.mem[w] ELSE L[w]]
  PROVE  LET o == InvalidateRange(s, k.start, k.len)
         IN  /\ Attempted(o, s, k, L, F, N, G)
             /\ o.s.maintenance = None /\ o.s.mem = s.mem
PROOF
<1> DEFINE o == InvalidateRange(s, k.start, k.len)
           gone == Range(LineBasesForRange(k.start, k.len))
           b == Invalidated(s.config, s.sets, gone)
           t == [s EXCEPT !.sets = b]
<1>1. /\ Shape(s) /\ LinesOK(s) /\ PendingOK(s) /\ BurstOK(s) /\ s.mem \in [Words -> Values]
      /\ CallOK(k, F) /\ MaintenanceOK(s, k) /\ AccessOK(s, k) /\ DirtyOK(s, F)
      /\ L \in [Words -> Values] /\ (Reliable => Data(s, k, L, F))
  BY GoodIs
<1>2. s.maintenance = None /\ s.access = None
  BY <1>1 DEF MaintenanceOK, AccessOK, Accesses
<1>3. \A l \in LinesIn(k) : l \in gone
  <2>1. k.start \in Nat /\ k.len \in Nat /\ k.start + k.len <= LineCount * LineWords
    BY <1>1, CacheAssumption DEF CallOK
  <2> QED BY <2>1, LineBasesIs DEF LinesIn
<1>4. Reliable => \A l \in CachedLines : l \in gone => l \in LinesIn(k)
  <2> SUFFICES ASSUME Reliable PROVE \A l \in CachedLines : l \in gone => l \in LinesIn(k)
    OBVIOUS
  <2>1. PICK r \in Discards : k.start = r.start /\ k.len = r.len
    BY <1>1 DEF CallOK
  <2>2. gone \cap CachedLines \subseteq LinesIn(r)
    BY <2>1 DEF Reliable
  <2>3. LinesIn(r) = LinesIn(k)
    BY <2>1 DEF LinesIn
  <2> QED BY <2>2, <2>3
<1>5. o = IF s.pending # None THEN Outcome("Busy", s) ELSE Outcome("Ok", t)
  BY <1>2 DEF InvalidateRange
<1> HIDE DEF o, gone
<1>6. CASE s.pending # None
  <2>1. o.answer = "Busy" /\ o.s = s
    BY <1>5, <1>6 DEF Outcome
  <2> QED BY <1>2, <2>1 DEF Attempted, o
<1>7. CASE s.pending = None
  <2>1. o.answer = "Ok" /\ o.s = t
    BY <1>5, <1>7 DEF Outcome
  <2>2. SameBeside(s, t) /\ t.sets = b
    BY <1>1, SetsUpdated
  <2> HIDE DEF t
  <2>3. LinesOK(t) /\ \A l \in CachedLines : Held(t, l) = IF l \in gone THEN None ELSE Held(s, l)
    <3>1. t.config = s.config /\ t.sets = Invalidated(s.config, s.sets, gone)
      BY <2>2 DEF SameBeside
    <3> QED BY <1>1, <3>1, InvalidatedIs
  <2> HIDE DEF b
  <2>4. /\ Shape(t) /\ t.config = s.config /\ t.pending = None /\ t.maintenance = None
        /\ t.mem = s.mem /\ t.burst = None /\ t.access = None
    BY <1>1, <1>2, <1>7, <2>2 DEF SameBeside, BurstOK
  <2>5. Bank(t)
    BY <1>1, <2>3, <2>4 DEF Bank, PendingOK, BurstOK
  <2>6. DirtyOK(t, G)
    BY <1>1, <2>3, <2>4 DEF DirtyOK
  <2>7. Struct(t, None, G)
    BY <1>1, <2>4, <2>5, <2>6 DEF Struct, CallOK, MaintenanceOK, AccessOK
  <2>8. N \in [Words -> Values]
    BY <1>1
  <2>9. ASSUME Reliable PROVE Data(t, None, N, G)
    <3>1. Data(s, k, L, F) /\ \A w : ~StoringBy(k, w)
      BY <1>1, <2>9 DEF StoringBy
    <3>2. CleanData(t, None, G)
      BY <1>3, <2>3, <2>4, <3>1 DEF Data, CleanData
    <3>3. BurstData(t, G) /\ AccessData(t) /\ MaintenanceData(t, None)
      BY <2>4 DEF BurstData, AccessData, MaintenanceData
    <3>4. ASSUME NEW w \in Words
          PROVE  /\ LineOf(w) \in G => t.mem[w] = N[w]
                 /\ LineOf(w) \notin G => VisibleIn(t, w) = N[w]
      <4>1. CASE LineOf(w) \in LinesIn(k)
        <5>1. N[w] = s.mem[w] /\ LineOf(w) \notin G
          BY <4>1
        <5>2. VisibleIn(t, w) = t.mem[w]
          BY <1>3, <2>3, <2>4, <4>1 DEF VisibleIn
        <5> QED BY <2>4, <5>1, <5>2
      <4>2. CASE LineOf(w) \notin LinesIn(k)
        <5>1. N[w] = L[w] /\ (LineOf(w) \in G <=> LineOf(w) \in F)
          BY <4>2
        <5>2. LineOf(w) \in CachedLines => Held(t, LineOf(w)) = Held(s, LineOf(w))
          BY <1>4, <2>3, <2>9, <4>2
        <5>3. VisibleIn(t, w) = VisibleIn(s, w)
          BY <1>7, <2>4, <5>2 DEF VisibleIn
        <5> QED BY <2>4, <3>1, <5>1, <5>3 DEF Data, WordData
      <4> QED BY <4>1, <4>2
    <3>5. WordData(t, None, N, G)
      BY <3>4 DEF WordData
    <3> QED BY <3>2, <3>3, <3>5 DEF Data
  <2>10. Good(t, None, N, G)
    BY <2>7, <2>8, <2>9 DEF Good
  <2> QED BY <2>1, <2>4, <2>10 DEF Attempted, o
<1> QED BY <1>6, <1>7

-----------------------------------------------------------------------------
(* The instruction bank beside an access of the load/store side.           *)

(* The weather is not part of the invariant.                               *)
LEMMA GoodSame ==
  ASSUME NEW s, NEW k, NEW L, NEW F, Good(s, k, L, F), NEW t, Shape(t),
         t.config = s.config, t.sets = s.sets, t.pending = s.pending,
         t.maintenance = s.maintenance, t.mem = s.mem, t.burst = s.burst, t.access = s.access
  PROVE  Good(t, k, L, F)
PROOF
<1>1. /\ Shape(s) /\ LinesOK(s) /\ PendingOK(s) /\ BurstOK(s) /\ s.mem \in [Words -> Values]
      /\ CallOK(k, F) /\ MaintenanceOK(s, k) /\ AccessOK(s, k) /\ DirtyOK(s, F)
      /\ L \in [Words -> Values] /\ (Reliable => Data(s, k, L, F))
  BY GoodIs
<1>2. LinesOK(t) /\ \A l : Held(t, l) = Held(s, l)
  BY <1>1, HeldSame DEF LinesOK
<1>3. Bank(t)
  BY <1>1, <1>2 DEF Bank, PendingOK, BurstOK
<1>4. MaintenanceOK(t, k) /\ DirtyOK(t, F)
  BY <1>1, <1>2 DEF MaintenanceOK, DirtyOK
<1>5. AccessOK(t, k)
  BY <1>1, <1>2 DEF AccessOK
<1>6. ASSUME Reliable PROVE Data(t, k, L, F)
  <2>1. Data(s, k, L, F)
    BY <1>1, <1>6
  <2>2. CleanData(t, k, F) /\ BurstData(t, F) /\ AccessData(t)
    BY <1>2, <2>1 DEF Data, CleanData, BurstData, AccessData
  <2>3. WordData(t, k, L, F)
    BY <1>2, <2>1 DEF Data, WordData, VisibleIn
  <2>4. MaintenanceData(t, k)
    BY <1>2, <2>1 DEF Data, MaintenanceData, IsDirty
  <2> QED BY <2>2, <2>3, <2>4 DEF Data
<1> QED BY <1>1, <1>3, <1>4, <1>5, <1>6 DEF Good, Struct

(* Over a write-through bank the lower level is current.                   *)
LEMMA MemFromData ==
  ASSUME NEW s, NEW k, NEW L, NEW F, Good(s, k, L, F), Reliable, ~s.config.write_back,
         NEW line, line \notin F
  PROVE  MemCurrent(s, k, L, line)
PROOF
<1>1. PendingOK(s) /\ DirtyOK(s, F) /\ Data(s, k, L, F)
  BY GoodIs
<1> SUFFICES ASSUME NEW w \in Words, LineOf(w) = line PROVE s.mem[w] = L[w] \/ StoringBy(k, w)
  BY DEF MemCurrent
<1>2. s.pending # None => s.pending.write_back = None
  BY <1>1 DEF PendingOK
<1>3. VisibleIn(s, w) = L[w] \/ StoringBy(k, w)
  BY <1>1 DEF Data, WordData
<1>4. VisibleIn(s, w) = s.mem[w] \/ StoringBy(k, w)
  BY <1>1, <1>2 DEF VisibleIn, Data, CleanData, DirtyOK
<1> QED BY <1>3, <1>4

(* The instruction bank and its fetch, when neither is what the step is    *)
(* about: k is the call before it and j after it, L and M what was last    *)
(* stored, F and G the lines of the bus master.                            *)
LEMMA InstructionKept ==
  ASSUME NEW t, NEW f, NEW k, NEW L, NEW F, GoodInstruction(t, f, k, L, F),
         NEW u, Shape(u), u.config = t.config, u.sets = t.sets, u.pending = t.pending,
         u.burst = t.burst, u.mem \in [Words -> Values], u.pending # None => u.maintenance = None,
         NEW h, h # None => /\ f # None /\ h.word = f.word
                            /\ h \in [word : Fetches, older : 0 .. OlderAccesses, attempted : BOOLEAN],
         NEW j, NEW M, NEW G, F \subseteq G, h # None => LineOf(h.word) \notin G,
         \A w \in Words : LineOf(w) \notin G => /\ M[w] = L[w]
                                                /\ StoringBy(k, w) => StoringBy(j, w),
         Reliable => \A w \in Words : LineOf(w) \notin G =>
           u.mem[w] = t.mem[w] \/ u.mem[w] = L[w] \/ StoringBy(j, w),
         Reliable /\ t.config.write_back /\ h # None =>
           \A w \in Words : LineOf(w) = LineOf(h.word) => ~StoringBy(j, w)
  PROVE  GoodInstruction(u, h, j, M, G)
PROOF
<1>1. Bank(t) /\ InstructionStruct(t, f, F)
  BY DEF GoodInstruction, InstructionStruct
<1>2. LinesOK(u) /\ \A l : Held(u, l) = Held(t, l)
  BY <1>1, HeldSame DEF LinesOK, Bank
<1>3. PendingOK(u)
  BY <1>1, <1>2 DEF Bank, PendingOK
<1>4. BurstOK(u)
  BY <1>1 DEF Bank, BurstOK, InstructionStruct
<1>5. InstructionStruct(u, h, G)
  BY <1>1, <1>2, <1>3, <1>4 DEF InstructionStruct, Bank, IsDirty
<1>6. ASSUME Reliable PROVE InstructionData(u, h, j, M, G)
  <2>1. InstructionData(t, f, k, L, F)
    BY <1>6 DEF GoodInstruction
  <2>2. ASSUME NEW line, line \notin G, MemCurrent(t, k, L, line) PROVE MemCurrent(u, j, M, line)
    BY <1>6, <2>2 DEF MemCurrent
  <2>3. \A w \in Words :
          LineOf(w) \in CachedLines /\ LineOf(w) \notin G /\ Held(u, LineOf(w)) # None =>
            Held(u, LineOf(w)).words[Offset(w)] = M[w] \/ StoringBy(j, w)
    BY <1>2, <2>1 DEF InstructionData
  <2>4. u.burst # None /\ u.burst.left = 0 /\ u.burst.line \notin G =>
          \A w \in Words : LineOf(w) = u.burst.line =>
            u.burst.words[Offset(w)] = M[w] \/ StoringBy(j, w)
    BY <2>1 DEF InstructionData
  <2>5. u.pending # None /\ u.pending.line \notin G => MemCurrent(u, j, M, u.pending.line)
    BY <2>1, <2>2 DEF InstructionData
  <2>6. h # None => MemCurrent(u, j, M, LineOf(h.word))
    BY <2>1, <2>2 DEF InstructionData
  <2> QED BY <1>6, <2>3, <2>4, <2>5, <2>6 DEF InstructionData
<1> QED BY <1>5, <1>6 DEF GoodInstruction

(* The data bank, now s, has taken a store: what the instruction bank had  *)
(* of the line is gone.                                                    *)
StoreTaken(s, t, u, gone, k, L, N, F) ==
  /\ k # None /\ k.op = "store" /\ k.word \in Words
  /\ Shape(u) /\ u.config = t.config /\ u.maintenance = t.maintenance
  /\ \A l : l \in gone <=> l = LineOf(k.word)
  /\ u.sets = Invalidated(t.config, t.sets, gone)
  /\ t.pending # None /\ t.pending.line = LineOf(k.word) => u.pending = None /\ u.burst = None
  /\ t.pending = None \/ t.pending.line # LineOf(k.word) =>
       u.pending = t.pending /\ u.burst = t.burst
  /\ u.mem \in [Words -> Values]
  /\ \A w \in Words : w # k.word => N[w] = L[w]
  /\ Good(s, None, N, F) /\ s.config = u.config /\ s.mem = u.mem
  /\ Reliable => \A w \in Words : LineOf(w) \notin F =>
       u.mem[w] = t.mem[w] \/ u.mem[w] = L[w] \/ StoringBy(k, w)

LEMMA InstructionStored ==
  ASSUME NEW t, NEW f, NEW k, NEW L, NEW F, GoodInstruction(t, f, k, L, F),
         NEW s, NEW u, NEW gone, NEW N, StoreTaken(s, t, u, gone, k, L, N, F)
  PROVE  GoodInstruction(u, f, None, N, F)
PROOF
<1> USE DEF StoreTaken
<1> DEFINE line == LineOf(k.word)
<1>1. Bank(t) /\ InstructionStruct(t, f, F) /\ LinesOK(t)
  BY DEF GoodInstruction, InstructionStruct, Bank
<1>2. /\ LinesOK(u)
      /\ \A l \in CachedLines : Held(u, l) = IF l = line THEN None ELSE Held(t, l)
      /\ Thinned(t, u)
  <2>1. /\ LinesOK(u) /\ Thinned(t, u)
        /\ \A l \in CachedLines : Held(u, l) = IF l \in gone THEN None ELSE Held(t, l)
    BY <1>1, InvalidatedIs
  <2> QED BY <2>1
<1>3. PendingOK(u)
  <2> SUFFICES ASSUME u.pending # None PROVE PendingOK(u)
    BY DEF PendingOK
  <2>1. u.pending = t.pending /\ PendingOK(t) /\ t.pending.write_back = None
    BY <1>1 DEF Bank, InstructionStruct
  <2>2. SetOf(t.config, t.pending.line) \in Sets(t.config) /\ t.pending.line \in CachedLines
    <3>1. t.pending.line \in CachedLines
      BY <2>1 DEF PendingOK, PendingLineOp
    <3>2. t.config \in CacheConfig /\ t.pending.line \in Nat
      BY <1>1, <3>1, ConfigIs DEF LinesOK, LinesTyped
    <3> QED BY <3>1, <3>2, DecodeIs
  <2> QED BY <1>2, <2>1, <2>2 DEF PendingOK, Thinned
<1>4. u.burst # None => u.burst = t.burst /\ u.pending = t.pending
  OBVIOUS
<1>5. BurstOK(u)
  BY <1>1, <1>4 DEF Bank, BurstOK, InstructionStruct
<1>6. InstructionStruct(u, f, F)
  <2>1. \A l \in CachedLines : ~IsDirty(u, l)
    BY <1>1, <1>2 DEF InstructionStruct, IsDirty
  <2> QED BY <1>1, <1>2, <1>3, <1>4, <1>5, <2>1 DEF InstructionStruct, Bank
<1>7. ASSUME Reliable PROVE InstructionData(u, f, None, N, F)
  <2>1. InstructionData(t, f, k, L, F)
    BY <1>7 DEF GoodInstruction
  <2>2. \A w \in Words : LineOf(w) # line => ~StoringBy(k, w) /\ N[w] = L[w]
    BY DEF StoringBy
  <2>3. ASSUME NEW l, l # line, l \notin F, MemCurrent(t, k, L, l) PROVE MemCurrent(u, None, N, l)
    BY <1>7, <2>2, <2>3 DEF MemCurrent
  <2>4. \A w \in Words :
          LineOf(w) \in CachedLines /\ LineOf(w) \notin F /\ Held(u, LineOf(w)) # None =>
            Held(u, LineOf(w)).words[Offset(w)] = N[w] \/ StoringBy(None, w)
    BY <1>2, <2>1, <2>2 DEF InstructionData
  <2>5. u.pending # None => u.pending = t.pending /\ u.pending.line # line
    OBVIOUS
  <2>6. u.burst # None => u.burst = t.burst /\ u.burst.line # line
    BY <1>1, <1>4, <1>5, <2>5 DEF BurstOK, InstructionStruct
  <2>7. u.burst # None /\ u.burst.left = 0 /\ u.burst.line \notin F =>
          \A w \in Words : LineOf(w) = u.burst.line =>
            u.burst.words[Offset(w)] = N[w] \/ StoringBy(None, w)
    BY <2>1, <2>2, <2>6 DEF InstructionData
  <2>8. u.pending # None /\ u.pending.line \notin F => MemCurrent(u, None, N, u.pending.line)
    BY <2>1, <2>3, <2>5 DEF InstructionData
  <2>9. ASSUME f # None PROVE MemCurrent(u, None, N, LineOf(f.word))
    <3>1. LineOf(f.word) \notin F
      BY <1>1, <2>9 DEF InstructionStruct
    <3>2. CASE u.config.write_back
      <4>1. LineOf(f.word) # line
        <5>1. StoringBy(k, k.word)
          BY DEF StoringBy
        <5> QED BY <2>1, <2>9, <3>2, <5>1 DEF InstructionData
      <4> QED BY <2>1, <2>3, <2>9, <3>1, <4>1 DEF InstructionData
    <3>3. CASE ~u.config.write_back
      <4>1. MemCurrent(s, None, N, LineOf(f.word))
        BY <1>7, <3>1, <3>3, MemFromData
      <4> QED BY <4>1 DEF MemCurrent
    <3> QED BY <3>2, <3>3
  <2>10. \A w : ~StoringBy(None, w)
    BY DEF StoringBy
  <2> QED BY <2>4, <2>7, <2>8, <2>9, <2>10 DEF InstructionData
<1> QED BY <1>6, <1>7 DEF GoodInstruction

(* A discard drops the lines of its range from both banks.                 *)
LEMMA InstructionDropped ==
  ASSUME NEW t, NEW f, NEW k, NEW L, NEW F, GoodInstruction(t, f, k, L, F), t.pending = None,
         k # None, k.op = "discard", NEW gone, \A l \in LinesIn(k) : l \in gone,
         NEW u, Shape(u), u.config = t.config, u.sets = Invalidated(t.config, t.sets, gone),
         u.mem = t.mem, u.pending = t.pending, u.burst = t.burst,
         NEW N, NEW G, G = F \ LinesIn(k),
         N = [w \in Words |-> IF LineOf(w) \in LinesIn(k) THEN t.mem[w] ELSE L[w]]
  PROVE  GoodInstruction(u, f, None, N, G)
PROOF
<1>1. Bank(t) /\ InstructionStruct(t, f, F) /\ LinesOK(t) /\ t.burst = None
  BY DEF GoodInstruction, InstructionStruct, Bank
<1>2. /\ LinesOK(u)
      /\ \A l \in CachedLines : Held(u, l) = IF l \in gone THEN None ELSE Held(t, l)
  BY <1>1, InvalidatedIs
<1>3. InstructionStruct(u, f, G)
  BY <1>1, <1>2 DEF InstructionStruct, Bank, PendingOK, BurstOK, IsDirty
<1>4. ASSUME Reliable PROVE InstructionData(u, f, None, N, G)
  <2>1. InstructionData(t, f, k, L, F) /\ \A w : ~StoringBy(k, w) /\ ~StoringBy(None, w)
    BY <1>4 DEF GoodInstruction, StoringBy
  <2>2. \A w \in Words :
          LineOf(w) \in CachedLines /\ LineOf(w) \notin G /\ Held(u, LineOf(w)) # None =>
            Held(u, LineOf(w)).words[Offset(w)] = N[w]
    BY <1>2, <2>1 DEF InstructionData
  <2>3. f # None => MemCurrent(u, None, N, LineOf(f.word))
    BY <2>1 DEF InstructionData, MemCurrent
  <2> QED BY <1>1, <2>1, <2>2, <2>3 DEF InstructionData
<1> QED BY <1>3, <1>4 DEF GoodInstruction

-----------------------------------------------------------------------------
(* The steps of the specification.                                         *)

LEMMA NowIs ==
  ASSUME NEW x
  PROVE  /\ Shape(Now(x)) /\ Now(x).config = config /\ Now(x).sets = sets /\ Now(x).pending = pending
         /\ Now(x).maintenance = maintenance /\ Now(x).mem = mem /\ Now(x).burst = burst
         /\ Now(x).access = access /\ Now(x).weather = x
PROOF
  BY DEF Now, Shape

LEMMA InstructionIs ==
  ASSUME NEW x
  PROVE  /\ Shape(Instruction(x)) /\ Instruction(x).config = config
         /\ Instruction(x).sets = instruction.sets /\ Instruction(x).pending = instruction.pending
         /\ Instruction(x).maintenance = maintenance /\ Instruction(x).mem = mem
         /\ Instruction(x).burst = instruction.burst
         /\ Instruction(x).access = access /\ Instruction(x).weather = x
PROOF
  BY DEF Instruction, Shape

(* The banks after a step.                                                 *)
LEMMA NextIs ==
  LET n == Now(None)'
      u == Instruction(None)'
  IN  /\ Shape(n) /\ n.config = config' /\ n.sets = sets' /\ n.pending = pending'
      /\ n.maintenance = maintenance' /\ n.mem = mem' /\ n.burst = burst'
      /\ n.access = access' /\ n.weather = None
      /\ Shape(u) /\ u.config = config' /\ u.sets = instruction'.sets
      /\ u.pending = instruction'.pending /\ u.maintenance = maintenance'
      /\ u.mem = mem' /\ u.burst = instruction'.burst
      /\ u.access = access' /\ u.weather = None
PROOF
  BY DEF Now, Instruction, Shape

LEMMA InvNext ==
  ASSUME Good(Now(None)', call', latest', foreign'), attempted' \in BOOLEAN, BankRecord(instruction'),
         GoodInstruction(Instruction(None)', fetch', call', latest', foreign')
  PROVE  CacheInv'
PROOF
  BY DEF CacheInv

LEMMA EmptyIs ==
  ASSUME NEW c \in Configs, NEW s, s.config = c, s.sets = EmptySets(c)
  PROVE  LinesOK(s) /\ \A line \in CachedLines : Held(s, line) = None
PROOF
<1>1. /\ c \in CacheConfig /\ c.way_count \in Nat \ {0} /\ c.set_count \in Nat \ {0} /\ 0 \in Ways(c)
      /\ \A line \in CachedLines : line \in Nat
  BY ConfigIs
<1>2. EmptySet(c) \in [lines : [Ways(c) -> CacheLine \cup {None}], next_victim : Ways(c),
                       last_used : [Ways(c) -> Ways(c)]]
  BY <1>1 DEF EmptySet
<1>3. IsInjective(EmptySet(c).last_used) /\ \A way \in Ways(c) : EmptySet(c).lines[way] = None
  BY DEF EmptySet, IsInjective
<1>4. EmptySets(c) = [set \in Sets(c) |-> EmptySet(c)]
  BY DEF EmptySets
<1>5. LinesTyped(c, EmptySets(c))
  BY <1>2, <1>3, <1>4 DEF LinesTyped, BankType
<1>6. \A set \in Sets(c), way \in Ways(c) : EmptySets(c)[set].lines[way] = None
  BY <1>3, <1>4
<1>7. LinesOK(s)
  BY <1>5, <1>6 DEF LinesOK, LinesApart
<1>8. ASSUME NEW line \in CachedLines PROVE Held(s, line) = None
  <2>1. SetOf(c, line) \in Sets(c)
    BY <1>1, DecodeIs
  <2>2. Resident(s, line) = {}
    BY <1>6, <2>1 DEF Resident
  <2> QED BY <2>2 DEF Held
<1> QED BY <1>7, <1>8

(* The empty banks over a cleared memory.                                  *)
LEMMA EmptyGood ==
  ASSUME NEW s, Shape(s), s.config \in Configs, s.sets = EmptySets(s.config), s.pending = None,
         s.maintenance = None, s.mem = [w \in Words |-> 0], s.burst = None, s.access = None
  PROVE  Good(s, None, s.mem, {}) /\ GoodInstruction(s, None, None, s.mem, {})
PROOF
<1>1. LinesOK(s) /\ \A line \in CachedLines : Held(s, line) = None
  BY EmptyIs
<1>2. s.mem \in [Words -> Values]
  BY DEF Values
<1>3. Bank(s)
  BY <1>1, <1>2 DEF Bank, PendingOK, BurstOK
<1>4. Struct(s, None, {})
  BY <1>1, <1>3 DEF Struct, CallOK, MaintenanceOK, AccessOK, DirtyOK
<1>5. Data(s, None, s.mem, {})
  BY <1>1 DEF Data, CleanData, BurstData, AccessData, WordData, VisibleIn, MaintenanceData
<1>6. GoodInstruction(s, None, None, s.mem, {})
  BY <1>1, <1>3 DEF GoodInstruction, InstructionStruct, InstructionData, IsDirty
<1> QED BY <1>2, <1>4, <1>5, <1>6 DEF Good

LEMMA InitInv == SplitInit => CacheInv
PROOF
<1> SUFFICES ASSUME SplitInit PROVE CacheInv
  OBVIOUS
<1> DEFINE s == Now(None)
           t == Instruction(None)
<1>1. /\ config \in Configs /\ sets = EmptySets(config) /\ pending = None /\ maintenance = None
      /\ mem = [w \in Words |-> 0] /\ burst = None /\ access = None /\ call = None
      /\ attempted = FALSE /\ latest = mem /\ foreign = {} /\ fetch = None
      /\ instruction = EmptyBank(config)
  BY DEF SplitInit, Init
<1>2. instruction.sets = EmptySets(config) /\ instruction.pending = None /\ instruction.burst = None
  BY <1>1 DEF EmptyBank
<1>3. Good(s, None, mem, {})
  BY <1>1, NowIs, EmptyGood
<1>4. GoodInstruction(t, None, None, mem, {})
  BY <1>1, <1>2, InstructionIs, EmptyGood
<1>5. BankRecord(instruction)
  BY <1>1 DEF BankRecord, EmptyBank
<1> QED BY <1>1, <1>3, <1>4, <1>5 DEF CacheInv

LEMMA ResetInv == CacheInv /\ SplitReset => CacheInv'
PROOF
<1> SUFFICES ASSUME CacheInv, SplitReset PROVE CacheInv'
  OBVIOUS
<1> DEFINE n == Now(None)'
           u == Instruction(None)'
<1>1. /\ sets' = EmptySets(config) /\ pending' = None /\ maintenance' = None
      /\ mem' = [w \in Words |-> 0] /\ burst' = None /\ access' = None /\ call' = None
      /\ attempted' = FALSE /\ latest' = mem' /\ foreign' = {} /\ fetch' = None
      /\ instruction' = EmptyBank(config) /\ config' = config
  BY DEF SplitReset, Reset
<1>2. config \in Configs
  <2>1. Good(Now(None), call, latest, foreign)
    BY DEF CacheInv
  <2>2. LinesOK(Now(None))
    BY <2>1, GoodIs
  <2> QED BY <2>2, NowIs DEF LinesOK, LinesTyped
<1>3. instruction'.sets = EmptySets(config) /\ instruction'.pending = None /\ instruction'.burst = None
  BY <1>1 DEF EmptyBank
<1>4. Good(n, None, mem', {})
  BY <1>1, <1>2, NextIs, EmptyGood
<1>5. GoodInstruction(u, None, None, mem', {})
  BY <1>1, <1>2, <1>3, NextIs, EmptyGood
<1>6. BankRecord(instruction')
  BY <1>1 DEF BankRecord, EmptyBank
<1> QED BY <1>1, <1>4, <1>5, <1>6, InvNext

LEMMA InvIs ==
  ASSUME CacheInv, NEW x
  PROVE  /\ Good(Now(x), call, latest, foreign) /\ attempted \in BOOLEAN /\ BankRecord(instruction)
         /\ GoodInstruction(Instruction(x), fetch, call, latest, foreign)
PROOF
<1> DEFINE s == Now(None)
           t == Instruction(None)
<1>1. /\ Good(s, call, latest, foreign) /\ attempted \in BOOLEAN /\ BankRecord(instruction)
      /\ GoodInstruction(t, fetch, call, latest, foreign)
  BY DEF CacheInv
<1>2. Good(Now(x), call, latest, foreign)
  BY <1>1, NowIs, GoodSame
<1>3. InstructionStruct(t, fetch, foreign) /\ Bank(t) /\ t.mem \in [Words -> Values]
      /\ (t.pending # None => t.maintenance = None)
  BY <1>1 DEF GoodInstruction, InstructionStruct, Bank, PendingOK
<1>4. t.config.write_back /\ fetch # None /\ Reliable =>
        \A w \in Words : LineOf(w) = LineOf(fetch.word) => ~StoringBy(call, w)
  BY <1>1 DEF GoodInstruction, InstructionData
<1>5. GoodInstruction(Instruction(x), fetch, call, latest, foreign)
  BY <1>1, <1>3, <1>4, InstructionIs, InstructionKept DEF InstructionStruct
<1> QED BY <1>1, <1>2, <1>5

(* A call begins.                                                          *)
LEMMA CallBegins ==
  ASSUME NEW s, NEW L, NEW F, Good(s, None, L, F), NEW k, CallOK(k, F)
  PROVE  Good(s, k, L, F)
PROOF
<1>1. /\ MaintenanceOK(s, None) /\ AccessOK(s, None) /\ L \in [Words -> Values]
      /\ (Reliable => Data(s, None, L, F)) /\ Bank(s) /\ DirtyOK(s, F)
  BY DEF Good, Struct
<1>2. s.maintenance = None /\ s.access = None
  BY <1>1 DEF MaintenanceOK, AccessOK
<1>3. Struct(s, k, F)
  BY <1>1, <1>2 DEF Struct, MaintenanceOK, AccessOK
<1>4. ASSUME Reliable PROVE Data(s, k, L, F)
  <2>1. Data(s, None, L, F) /\ \A w : ~StoringBy(None, w)
    BY <1>1, <1>4 DEF StoringBy
  <2>2. CleanData(s, k, F)
    BY <2>1 DEF Data, CleanData
  <2>3. WordData(s, k, L, F)
    BY <2>1 DEF Data, WordData
  <2>4. MaintenanceData(s, k)
    BY <1>2 DEF MaintenanceData
  <2> QED BY <2>1, <2>2, <2>3, <2>4 DEF Data
<1> QED BY <1>1, <1>3, <1>4 DEF Good

LEMMA CallsAre ==
  ASSUME NEW k \in Calls, foreign \subseteq 0 .. (LineCount - 1)
  PROVE  CallOK(k, foreign)
PROOF
<1>1. CASE k \in {[op |-> "load", word |-> w] : w \in {v \in Loads : LineOf(v) \notin foreign}}
  BY <1>1, CacheAssumption DEF CallOK
<1>2. CASE k \in {[op |-> "store", word |-> st.word, value |-> st.value] :
                    st \in {r \in Stores : LineOf(r.word) \notin foreign}}
  BY <1>2, CacheAssumption DEF CallOK, Values
<1>3. CASE k \in {[op |-> "clean", start |-> r.start, len |-> r.len] : r \in Cleans}
  BY <1>3 DEF CallOK
<1>4. CASE k \in {[op |-> "discard", start |-> r.start, len |-> r.len] : r \in Discards}
  BY <1>4 DEF CallOK
<1> QED BY <1>1, <1>2, <1>3, <1>4 DEF Calls

LEMMA IssueInv == CacheInv /\ SplitIssue => CacheInv'
PROOF
<1> SUFFICES ASSUME CacheInv, SplitIssue PROVE CacheInv'
  OBVIOUS
<1> DEFINE s == Now(None)
           t == Instruction(None)
           n == Now(None)'
           u == Instruction(None)'
<1>1. /\ call = None /\ call' \in Calls
      /\ config' = config /\ sets' = sets /\ pending' = pending /\ maintenance' = maintenance
      /\ mem' = mem /\ burst' = burst /\ access' = access /\ attempted' = attempted
      /\ latest' = latest /\ foreign' = foreign /\ instruction' = instruction
  BY DEF SplitIssue, Issue
<1>2. /\ config.write_back /\ fetch # None /\ call'.op = "store" =>
           LineOf(call'.word) # LineOf(fetch.word)
      /\ IF fetch = None THEN UNCHANGED fetch
         ELSE fetch.older > 0 /\ fetch' = [fetch EXCEPT !.older = @ - 1]
  BY DEF SplitIssue
<1>3. /\ Good(s, call, latest, foreign) /\ attempted \in BOOLEAN /\ BankRecord(instruction)
      /\ GoodInstruction(t, fetch, call, latest, foreign)
  BY InvIs
<1>4. CallOK(call', foreign)
  <2>1. foreign \subseteq 0 .. (LineCount - 1)
    BY <1>3 DEF Good, Struct, CallOK
  <2> QED BY <1>1, <2>1, CallsAre
<1>5. Good(s, call', latest, foreign)
  BY <1>1, <1>3, <1>4, CallBegins
<1>6. Good(n, call', latest, foreign)
  BY <1>1, <1>5, NowIs, NextIs, GoodSame
<1>7. InstructionStruct(t, fetch, foreign) /\ t.mem \in [Words -> Values]
      /\ (t.pending # None => t.maintenance = None)
  BY <1>3 DEF GoodInstruction, InstructionStruct, Bank, PendingOK
<1>8. ASSUME fetch' # None
      PROVE  /\ fetch # None /\ fetch'.word = fetch.word /\ LineOf(fetch'.word) \notin foreign
             /\ fetch' \in [word : Fetches, older : 0 .. OlderAccesses, attempted : BOOLEAN]
  <2>1. fetch # None
    BY <1>2, <1>8
  <2>2. /\ fetch \in [word : Fetches, older : 0 .. OlderAccesses, attempted : BOOLEAN]
        /\ LineOf(fetch.word) \notin foreign
    BY <1>7, <2>1 DEF InstructionStruct
  <2>3. fetch' = [fetch EXCEPT !.older = fetch.older - 1] /\ fetch.older > 0
    BY <1>2, <2>1
  <2>4. fetch.older - 1 \in 0 .. OlderAccesses
    BY <2>2, <2>3, FetchesAssumption
  <2> QED BY <2>1, <2>2, <2>3, <2>4
<1>9. \A w : ~StoringBy(None, w)
  BY DEF StoringBy
<1>10. config.write_back /\ fetch' # None =>
         \A w \in Words : LineOf(w) = LineOf(fetch'.word) => ~StoringBy(call', w)
  BY <1>2, <1>8 DEF StoringBy
<1>11. GoodInstruction(u, fetch', call', latest, foreign)
  <2>1. /\ Shape(u) /\ u.config = t.config /\ u.sets = t.sets /\ u.pending = t.pending
        /\ u.burst = t.burst /\ u.mem = t.mem /\ u.maintenance = t.maintenance /\ t.config = config
    BY <1>1, InstructionIs, NextIs
  <2> HIDE DEF t, u
  <2> QED BY <1>1, <1>3, <1>7, <1>8, <1>9, <1>10, <2>1, InstructionKept
<1> QED BY <1>1, <1>3, <1>6, <1>11, InvNext

(* Steps that change neither the banks nor the memory.                     *)
LEMMA IdleInv ==
  ASSUME CacheInv, NEW j, call' = j, latest' = latest, foreign' = foreign,
         config' = config, sets' = sets, pending' = pending, maintenance' = maintenance,
         mem' = mem, burst' = burst, access' = access, attempted' \in BOOLEAN,
         instruction' = instruction, fetch' = fetch \/ fetch' = None,
         Good(Now(None), j, latest, foreign), \A w : StoringBy(j, w) <=> StoringBy(call, w)
  PROVE  CacheInv'
PROOF
<1> DEFINE t == Instruction(None)
           n == Now(None)'
           u == Instruction(None)'
<1>1. GoodInstruction(t, fetch, call, latest, foreign) /\ BankRecord(instruction)
  BY InvIs
<1>2. Good(n, j, latest, foreign)
  BY NowIs, NextIs, GoodSame
<1>3. InstructionStruct(t, fetch, foreign) /\ t.mem \in [Words -> Values]
      /\ (t.pending # None => t.maintenance = None)
  BY <1>1 DEF GoodInstruction, InstructionStruct, Bank, PendingOK
<1>4. GoodInstruction(u, fetch', j, latest, foreign)
  <2>1. /\ Shape(u) /\ u.config = t.config /\ u.sets = t.sets /\ u.pending = t.pending
        /\ u.burst = t.burst /\ u.mem = t.mem /\ u.maintenance = t.maintenance
    BY InstructionIs, NextIs
  <2>2. fetch' # None => fetch' = fetch
    OBVIOUS
  <2>3. Reliable /\ t.config.write_back /\ fetch # None =>
          \A w \in Words : LineOf(w) = LineOf(fetch.word) => ~StoringBy(call, w)
    BY <1>1 DEF GoodInstruction, InstructionData
  <2> HIDE DEF t, u
  <2> QED BY <1>1, <1>3, <2>1, <2>2, <2>3, InstructionKept DEF InstructionStruct
<1> QED BY <1>1, <1>2, <1>4, InvNext

LEMMA WaitInv == CacheInv /\ Wait => CacheInv'
PROOF
<1> SUFFICES ASSUME CacheInv, Wait PROVE CacheInv'
  OBVIOUS
<1>1. Good(Now(None), call, latest, foreign)
  BY InvIs
<1> QED BY <1>1, IdleInv DEF Wait

LEMMA AbandonInv == CacheInv /\ SplitAbandon => CacheInv'
PROOF
<1> SUFFICES ASSUME CacheInv, SplitAbandon PROVE CacheInv'
  OBVIOUS
<1>1. Good(Now(None), call, latest, foreign)
  BY InvIs
<1>2. call # None /\ call.op = "load" /\ LineOf(call.word) \in CachedLines
  BY DEF SplitAbandon, Abandon
<1>3. Now(None).maintenance = None /\ Now(None).access = None
  BY <1>1, <1>2, NothingActive
<1>4. Good(Now(None), None, latest, foreign)
  BY <1>1, <1>2, <1>3, CallEnds
<1>5. \A w : StoringBy(None, w) <=> StoringBy(call, w)
  BY <1>2 DEF StoringBy
<1> QED BY <1>4, <1>5, IdleInv DEF SplitAbandon, Abandon

LEMMA AbandonFetchInv == CacheInv /\ AbandonFetch => CacheInv'
PROOF
<1> SUFFICES ASSUME CacheInv, AbandonFetch PROVE CacheInv'
  OBVIOUS
<1>1. Good(Now(None), call, latest, foreign) /\ attempted \in BOOLEAN
  BY InvIs
<1> QED BY <1>1, IdleInv DEF AbandonFetch, vars

LEMMA IssueFetchInv == CacheInv /\ IssueFetch => CacheInv'
PROOF
<1> SUFFICES ASSUME CacheInv, IssueFetch PROVE CacheInv'
  OBVIOUS
<1> DEFINE s == Now(None)
           t == Instruction(None)
           n == Now(None)'
           u == Instruction(None)'
<1>1. /\ config' = config /\ sets' = sets /\ pending' = pending /\ maintenance' = maintenance
      /\ mem' = mem /\ burst' = burst /\ access' = access /\ attempted' = attempted
      /\ latest' = latest /\ foreign' = foreign /\ instruction' = instruction /\ call' = call
      /\ fetch = None
  BY DEF IssueFetch, vars
<1>2. PICK w \in Fetches :
        /\ LineOf(w) \notin foreign
        /\ config.write_back => InMemory(LineOf(w))
        /\ fetch' = [word |-> w, older |-> OlderAccesses, attempted |-> FALSE]
  BY DEF IssueFetch
<1>3. /\ Good(s, call, latest, foreign) /\ attempted \in BOOLEAN /\ BankRecord(instruction)
      /\ GoodInstruction(t, fetch, call, latest, foreign)
  BY InvIs
<1>4. Good(n, call, latest, foreign)
  BY <1>1, <1>3, NowIs, NextIs, GoodSame
<1>5. /\ fetch' \in [word : Fetches, older : 0 .. OlderAccesses, attempted : BOOLEAN]
      /\ fetch'.word = w
  BY <1>2, FetchesAssumption
<1>6. /\ Shape(u) /\ u.config = t.config /\ u.sets = t.sets /\ u.pending = t.pending
      /\ u.burst = t.burst /\ u.mem = t.mem /\ u.maintenance = t.maintenance
      /\ t.mem = mem /\ t.config = config /\ s.mem = mem /\ s.config = config
  BY <1>1, NowIs, InstructionIs, NextIs
<1>7. config.write_back \in BOOLEAN
  BY <1>3, <1>6, GoodIs
<1> HIDE DEF t, u, s
<1>8. GoodInstruction(u, None, call, latest, foreign)
  <2>1. t.mem \in [Words -> Values] /\ (t.pending # None => t.maintenance = None)
    BY <1>3 DEF GoodInstruction, InstructionStruct, Bank, PendingOK
  <2> QED BY <1>3, <1>6, <2>1, InstructionKept
<1>9. InstructionStruct(u, fetch', foreign)
  BY <1>2, <1>5, <1>8 DEF GoodInstruction, InstructionStruct
<1>10. ASSUME Reliable PROVE InstructionData(u, fetch', call, latest, foreign)
  <2>1. InstructionData(u, None, call, latest, foreign)
    BY <1>8, <1>10 DEF GoodInstruction
  <2>2. CASE config.write_back
    <3>1. \A v \in Words : LineOf(v) = LineOf(w) => mem[v] = latest[v] /\ ~StoringBy(call, v)
      BY <1>2, <2>2 DEF InMemory, Storing, StoringBy
    <3>2. MemCurrent(u, call, latest, LineOf(w))
      BY <1>6, <3>1 DEF MemCurrent
    <3> QED BY <1>5, <2>1, <3>1, <3>2 DEF InstructionData
  <2>3. CASE ~config.write_back
    <3>1. MemCurrent(s, call, latest, LineOf(w))
      BY <1>2, <1>3, <1>6, <1>10, <2>3, MemFromData
    <3>2. MemCurrent(u, call, latest, LineOf(w))
      BY <1>6, <3>1 DEF MemCurrent
    <3>3. ~u.config.write_back
      BY <1>6, <2>3
    <3> QED BY <1>5, <2>1, <3>2, <3>3 DEF InstructionData
  <2> QED BY <1>7, <2>2, <2>3
<1>11. GoodInstruction(u, fetch', call, latest, foreign)
  BY <1>9, <1>10 DEF GoodInstruction
<1> QED BY <1>1, <1>3, <1>4, <1>11, InvNext DEF u

LEMMA AttemptFetchInv == CacheInv /\ AttemptFetch => CacheInv'
PROOF
<1> SUFFICES ASSUME CacheInv, AttemptFetch PROVE CacheInv'
  OBVIOUS
<1> DEFINE s == Now(None)
           n == Now(None)'
           u == Instruction(None)'
<1>1. /\ config' = config /\ sets' = sets /\ pending' = pending /\ maintenance' = maintenance
      /\ mem' = mem /\ burst' = burst /\ access' = access /\ attempted' = attempted
      /\ latest' = latest /\ foreign' = foreign /\ call' = call /\ fetch # None
  BY DEF AttemptFetch, vars
<1>2. PICK weather \in Weathers :
        \E outcome \in {Load(Instruction(weather), fetch.word)} :
          /\ instruction' = [sets |-> outcome.s.sets, pending |-> outcome.s.pending,
                             burst |-> outcome.s.burst]
          /\ fetch' = IF outcome.answer = "Ok" THEN None ELSE [fetch EXCEPT !.attempted = TRUE]
  BY DEF AttemptFetch
<1> DEFINE t == Instruction(weather)
           o == Load(t, fetch.word)
<1>3. /\ instruction' = [sets |-> o.s.sets, pending |-> o.s.pending, burst |-> o.s.burst]
      /\ fetch' = IF o.answer = "Ok" THEN None ELSE [fetch EXCEPT !.attempted = TRUE]
  BY <1>2
<1>4. /\ Good(s, call, latest, foreign) /\ attempted \in BOOLEAN
      /\ GoodInstruction(t, fetch, call, latest, foreign)
  BY InvIs
<1>5. Good(n, call, latest, foreign)
  BY <1>1, <1>4, NowIs, NextIs, GoodSame
<1>6. t.config = config /\ t.maintenance = maintenance /\ t.mem = mem /\ t.weather = weather
  BY InstructionIs
<1> HIDE DEF t
<1>7. /\ GoodInstruction(o.s, fetch, call, latest, foreign)
      /\ o.s.config = t.config /\ o.s.maintenance = t.maintenance /\ o.s.mem = t.mem
  BY <1>1, <1>4, <1>6, FetchIs
<1> HIDE DEF o
<1>8. /\ Shape(u) /\ u.config = o.s.config /\ u.sets = o.s.sets /\ u.pending = o.s.pending
      /\ u.burst = o.s.burst /\ u.mem = o.s.mem /\ u.maintenance = o.s.maintenance
  BY <1>1, <1>3, <1>6, <1>7, NextIs
<1>9. /\ o.s.mem \in [Words -> Values] /\ (o.s.pending # None => o.s.maintenance = None)
      /\ fetch \in [word : Fetches, older : 0 .. OlderAccesses, attempted : BOOLEAN]
      /\ LineOf(fetch.word) \notin foreign
  BY <1>1, <1>7 DEF GoodInstruction, InstructionStruct, Bank, PendingOK
<1>10. fetch' # None =>
         /\ fetch' \in [word : Fetches, older : 0 .. OlderAccesses, attempted : BOOLEAN]
         /\ fetch'.word = fetch.word
  BY <1>3, <1>9
<1>11. Reliable /\ o.s.config.write_back =>
         \A w \in Words : LineOf(w) = LineOf(fetch.word) => ~StoringBy(call, w)
  BY <1>1, <1>7 DEF GoodInstruction, InstructionData
<1> HIDE DEF u
<1>12. GoodInstruction(u, fetch', call, latest, foreign)
  BY <1>1, <1>7, <1>8, <1>9, <1>10, <1>11, InstructionKept
<1>13. BankRecord(instruction')
  BY <1>3 DEF BankRecord
<1> QED BY <1>1, <1>4, <1>5, <1>12, <1>13, InvNext DEF u


(* A bus master writes a word of a line that has no dirty copy.            *)
LEMMA DeviceWritten ==
  ASSUME NEW s, NEW L, NEW F, Good(s, None, L, F), NEW v \in Words, NEW value \in Values,
         LineOf(v) \in CachedLines => ~IsDirty(s, LineOf(v)),
         s.pending # None /\ s.pending.write_back # None => s.pending.write_back.line # LineOf(v),
         NEW t, Shape(t), t.config = s.config, t.sets = s.sets, t.pending = s.pending,
         t.maintenance = s.maintenance, t.burst = s.burst, t.access = s.access,
         t.mem = [s.mem EXCEPT ![v] = value],
         NEW N, N = [L EXCEPT ![v] = value], NEW G, G = F \cup {LineOf(v)}
  PROVE  Good(t, None, N, G)
PROOF
<1>1. /\ Shape(s) /\ LinesOK(s) /\ PendingOK(s) /\ BurstOK(s) /\ s.mem \in [Words -> Values]
      /\ CallOK(None, F) /\ MaintenanceOK(s, None) /\ AccessOK(s, None) /\ DirtyOK(s, F)
      /\ L \in [Words -> Values] /\ (Reliable => Data(s, None, L, F))
  BY GoodIs
<1>2. LinesOK(t) /\ \A l : Held(t, l) = Held(s, l)
  BY <1>1, HeldSame DEF LinesOK
<1>3. t.mem \in [Words -> Values] /\ N \in [Words -> Values]
  BY <1>1
<1>4. /\ \A w \in Words : w # v => t.mem[w] = s.mem[w] /\ N[w] = L[w]
      /\ t.mem[v] = value /\ N[v] = value
      /\ \A l : l \in G <=> l \in F \/ l = LineOf(v)
  BY <1>1
<1>5. Bank(t)
  BY <1>1, <1>2, <1>3 DEF Bank, PendingOK, BurstOK
<1>6. s.maintenance = None /\ s.access = None
  BY <1>1 DEF MaintenanceOK, AccessOK
<1>7. CallOK(None, G)
  BY <1>1, WordIs DEF CallOK
<1>8. DirtyOK(t, G)
  BY <1>1, <1>2, <1>4 DEF DirtyOK, IsDirty
<1>9. Struct(t, None, G)
  BY <1>5, <1>6, <1>7, <1>8 DEF Struct, MaintenanceOK, AccessOK
<1>10. ASSUME Reliable PROVE Data(t, None, N, G)
  <2>1. Data(s, None, L, F) /\ \A w : ~StoringBy(None, w)
    BY <1>1, <1>10 DEF StoringBy
  <2>2. CleanData(t, None, G)
    BY <1>2, <1>4, <2>1 DEF Data, CleanData
  <2>3. BurstData(t, G)
    BY <1>4, <2>1 DEF Data, BurstData
  <2>4. AccessData(t) /\ MaintenanceData(t, None)
    BY <1>6 DEF AccessData, MaintenanceData
  <2>5. ASSUME NEW w \in Words PROVE LineOf(w) \in G => t.mem[w] = N[w]
    <3>1. CASE w = v
      BY <1>4, <3>1
    <3>2. CASE w # v /\ LineOf(w) \in F
      BY <1>4, <2>1, <3>2 DEF Data, WordData
    <3>3. CASE w # v /\ LineOf(w) \notin F /\ LineOf(w) = LineOf(v)
      <4>1. VisibleIn(s, w) = L[w]
        BY <2>1, <3>3 DEF Data, WordData
      <4>2. VisibleIn(s, w) = s.mem[w]
        BY <2>1, <3>3 DEF VisibleIn, Data, CleanData, IsDirty
      <4> QED BY <1>4, <3>3, <4>1, <4>2
    <3> QED BY <1>4, <3>1, <3>2, <3>3
  <2>6. ASSUME NEW w \in Words, LineOf(w) \notin G PROVE VisibleIn(t, w) = N[w]
    <3>1. LineOf(w) \notin F /\ w # v
      BY <1>4, <2>6
    <3>2. VisibleIn(s, w) = L[w]
      BY <2>1, <3>1 DEF Data, WordData
    <3>3. VisibleIn(t, w) = VisibleIn(s, w)
      BY <1>2, <1>4, <3>1 DEF VisibleIn
    <3> QED BY <1>4, <3>1, <3>2, <3>3
  <2>7. WordData(t, None, N, G)
    BY <2>5, <2>6 DEF WordData
  <2> QED BY <2>2, <2>3, <2>4, <2>7 DEF Data
<1> QED BY <1>3, <1>9, <1>10 DEF Good

LEMMA DeviceWriteInv == CacheInv /\ SplitDeviceWrite => CacheInv'
PROOF
<1> SUFFICES ASSUME CacheInv, SplitDeviceWrite PROVE CacheInv'
  OBVIOUS
<1> DEFINE s == Now(None)
           t == Instruction(None)
           n == Now(None)'
           u == Instruction(None)'
<1>1. /\ config' = config /\ sets' = sets /\ pending' = pending /\ maintenance' = maintenance
      /\ burst' = burst /\ access' = access /\ attempted' = attempted /\ call = None
      /\ call' = call /\ instruction' = instruction /\ fetch' = fetch
      /\ (fetch # None => LineOf(fetch.word) \notin foreign')
  BY DEF SplitDeviceWrite, DeviceWrite
<1>2. PICK st \in DeviceWrites :
        /\ Held(s, LineOf(st.word)) # None => ~Held(s, LineOf(st.word)).dirty
        /\ pending # None /\ pending.write_back # None =>
             pending.write_back.line # LineOf(st.word)
        /\ mem' = [mem EXCEPT ![st.word] = st.value]
        /\ latest' = [latest EXCEPT ![st.word] = st.value]
        /\ foreign' = foreign \cup {LineOf(st.word)}
  BY DEF SplitDeviceWrite, DeviceWrite
<1>3. /\ Good(s, None, latest, foreign) /\ attempted \in BOOLEAN /\ BankRecord(instruction)
      /\ GoodInstruction(t, fetch, None, latest, foreign)
  BY <1>1, InvIs
<1>4. st.word \in Words /\ st.value \in Values
  BY CacheAssumption DEF Values
<1>5. /\ Shape(n) /\ n.config = s.config /\ n.sets = s.sets /\ n.pending = s.pending
      /\ n.maintenance = s.maintenance /\ n.burst = s.burst /\ n.access = s.access
      /\ n.mem = mem' /\ s.mem = mem /\ s.pending = pending
  BY <1>1, NowIs, NextIs
<1>6. /\ Shape(u) /\ u.config = t.config /\ u.sets = t.sets /\ u.pending = t.pending
      /\ u.burst = t.burst /\ u.maintenance = t.maintenance
      /\ u.mem = mem' /\ t.mem = mem
  BY <1>1, InstructionIs, NextIs
<1> HIDE DEF s, t, n, u
<1>7. Good(n, None, latest', foreign')
  <2>1. ~IsDirty(s, LineOf(st.word))
    BY <1>2 DEF IsDirty
  <2>2. n.mem = [s.mem EXCEPT ![st.word] = st.value]
    BY <1>2, <1>5
  <2>3. s.pending # None /\ s.pending.write_back # None => s.pending.write_back.line # LineOf(st.word)
    BY <1>2, <1>5
  <2> DEFINE v == st.word
             value == st.value
             N == latest'
             G == foreign'
  <2>4. N = [latest EXCEPT ![v] = value] /\ G = foreign \cup {LineOf(v)}
    BY <1>2
  <2>5. v \in Words /\ value \in Values
    BY <1>4
  <2> HIDE DEF v, value, N, G
  <2>6. Good(n, None, N, G)
    BY <1>3, <1>5, <2>1, <2>2, <2>3, <2>4, <2>5, DeviceWritten DEF v, value
  <2> QED BY <2>6 DEF N, G
<1>8. GoodInstruction(u, fetch, None, latest', foreign')
  <2>1. InstructionStruct(t, fetch, foreign) /\ (t.pending # None => t.maintenance = None)
        /\ mem \in [Words -> Values]
    BY <1>3, <1>6 DEF GoodInstruction, InstructionStruct, Bank, PendingOK
  <2>2. mem' \in [Words -> Values]
    BY <1>2, <1>4, <2>1
  <2>3. latest \in [Words -> Values]
    BY <1>3, GoodIs
  <2>4. \A w \in Words : LineOf(w) \notin foreign' =>
          latest'[w] = latest[w] /\ mem'[w] = mem[w]
    BY <1>2, <2>1, <2>3
  <2>5. foreign \subseteq foreign'
    BY <1>2
  <2>6. \A w : ~StoringBy(None, w)
    BY DEF StoringBy
  <2> QED BY <1>1, <1>3, <1>6, <2>1, <2>2, <2>4, <2>5, <2>6, InstructionKept DEF InstructionStruct
<1> QED BY <1>1, <1>3, <1>7, <1>8, InvNext DEF n, u

(* A cycle of the lower bus.                                               *)

(* What happens to the words of the lower level when something ends there. *)
MemKept(m, n, k, L, F) ==
  Reliable => \A w \in Words : LineOf(w) \notin F => n[w] = m[w] \/ n[w] = L[w] \/ StoringBy(k, w)

BurstCounted(a, b) == b \in Bursts /\ b.kind = a.kind /\ b.line = a.line

LEMMA BurstIs ==
  ASSUME NEW b \in Bursts
  PROVE  /\ b = Request(b.kind, b.line, b.words, b.left) /\ b.left \in Nat
         /\ b.line \in CachedLines /\ b.kind \in {"read", "write"}
PROOF
  BY DEF Bursts, Request

(* What the bank's burst writes is in no clean line, and visible.          *)
LEMMA WriteIs ==
  ASSUME NEW s, NEW k, NEW L, NEW F, Good(s, k, L, F), s.burst # None, s.burst.kind = "write"
  PROVE  /\ s.burst.words \in LineData /\ s.burst.line \notin F /\ s.burst.line \in CachedLines
         /\ Held(s, s.burst.line) # None => Held(s, s.burst.line).dirty
         /\ \A w \in Words : LineOf(w) = s.burst.line => VisibleIn(s, w) = s.burst.words[Offset(w)]
PROOF
<1>1. LinesOK(s) /\ PendingOK(s) /\ BurstOK(s) /\ MaintenanceOK(s, k) /\ DirtyOK(s, F)
  BY GoodIs
<1>2. s.burst.line \in CachedLines
  BY <1>1 DEF BurstOK, Bursts
<1>3. CASE s.pending # None
  <2>1. /\ s.pending.write_back # None /\ s.burst.line = s.pending.write_back.line
        /\ s.burst.words = s.pending.write_back.words
    BY <1>1, <1>3 DEF BurstOK
  <2>2. s.pending.write_back \in PendingWriteBack /\ Held(s, s.pending.write_back.line) = None
    BY <1>1, <1>3, <2>1 DEF PendingOK, PendingLineOp
  <2>3. s.burst.words \in LineData
    BY <2>1, <2>2 DEF PendingWriteBack
  <2> QED BY <1>1, <1>2, <1>3, <2>1, <2>2, <2>3 DEF VisibleIn, DirtyOK
<1>4. CASE s.pending = None
  <2>1. /\ s.maintenance # None /\ s.burst.line = Head(s.maintenance)
        /\ s.burst.words = Held(s, s.burst.line).words
    BY <1>1, <1>4 DEF BurstOK
  <2>2. Held(s, s.burst.line) # None /\ Held(s, s.burst.line).dirty
    BY <1>1, <2>1 DEF MaintenanceOK
  <2>3. Held(s, s.burst.line) \in CacheLine
    BY <1>1, <1>2, <2>2, HeldIs
  <2>4. s.burst.words \in LineData
    BY <2>1, <2>3 DEF CacheLine
  <2> QED BY <1>1, <1>2, <2>1, <2>2, <2>4 DEF VisibleIn, DirtyOK
<1> QED BY <1>3, <1>4

(* The burst of a bank is on its way.                                      *)
LEMMA BurstWaits ==
  ASSUME NEW s, NEW k, NEW L, NEW F, Good(s, k, L, F), s.burst # None,
         NEW t, Shape(t), t.config = s.config, t.sets = s.sets, t.pending = s.pending,
         t.maintenance = s.maintenance, t.access = s.access, t.mem = s.mem,
         BurstCounted(s.burst, t.burst), t.burst.words = s.burst.words, t.burst.left # 0
  PROVE  Good(t, k, L, F)
PROOF
<1>1. /\ Shape(s) /\ LinesOK(s) /\ PendingOK(s) /\ BurstOK(s) /\ s.mem \in [Words -> Values]
      /\ CallOK(k, F) /\ MaintenanceOK(s, k) /\ AccessOK(s, k) /\ DirtyOK(s, F)
      /\ L \in [Words -> Values] /\ (Reliable => Data(s, k, L, F))
  BY GoodIs
<1>2. LinesOK(t) /\ \A l : Held(t, l) = Held(s, l)
  BY <1>1, HeldSame DEF LinesOK
<1>3. PendingOK(t)
  BY <1>1, <1>2 DEF PendingOK
<1>4. BurstOK(t)
  BY <1>1, <1>2 DEF BurstOK, BurstCounted
<1>5. MaintenanceOK(t, k) /\ DirtyOK(t, F)
  BY <1>1, <1>2 DEF MaintenanceOK, DirtyOK
<1>6. AccessOK(t, k)
  BY <1>1, <1>2 DEF AccessOK
<1>7. ASSUME Reliable PROVE Data(t, k, L, F)
  <2>1. Data(s, k, L, F)
    BY <1>1, <1>7
  <2>2. CleanData(t, k, F) /\ BurstData(t, F) /\ AccessData(t)
    BY <1>2, <2>1 DEF Data, CleanData, BurstData, AccessData
  <2>3. WordData(t, k, L, F)
    BY <1>2, <2>1 DEF Data, WordData, VisibleIn
  <2>4. MaintenanceData(t, k)
    BY <1>2, <2>1 DEF Data, MaintenanceData, IsDirty
  <2> QED BY <2>2, <2>3, <2>4 DEF Data
<1> QED BY <1>1, <1>2, <1>3, <1>4, <1>5, <1>6, <1>7 DEF Good, Struct, Bank

(* The burst of a bank is performed.                                       *)
LEMMA BurstEnds ==
  ASSUME NEW s, NEW k, NEW L, NEW F, Good(s, k, L, F), s.burst # None,
         NEW t, Shape(t), t.config = s.config, t.sets = s.sets, t.pending = s.pending,
         t.maintenance = s.maintenance, t.access = s.access,
         t.mem = Perform(s.mem, s.burst), BurstCounted(s.burst, t.burst), t.burst.left = 0,
         t.burst.words = Carried(s.mem, s.burst)
  PROVE  Good(t, k, L, F) /\ MemKept(s.mem, t.mem, k, L, F)
PROOF
<1>1. /\ Shape(s) /\ LinesOK(s) /\ PendingOK(s) /\ BurstOK(s) /\ s.mem \in [Words -> Values]
      /\ CallOK(k, F) /\ MaintenanceOK(s, k) /\ AccessOK(s, k) /\ DirtyOK(s, F)
      /\ L \in [Words -> Values] /\ (Reliable => Data(s, k, L, F))
  BY GoodIs
<1>2. LinesOK(t) /\ \A l : Held(t, l) = Held(s, l)
  BY <1>1, HeldSame DEF LinesOK
<1> DEFINE b == s.burst
           line == b.line
<1>3. /\ b = Request(b.kind, line, b.words, b.left) /\ line \in CachedLines
      /\ b.kind \in {"read", "write"}
  BY <1>1, BurstIs DEF BurstOK
<1>4. CASE b.kind = "read"
  <2>1. /\ t.mem = s.mem /\ t.burst.words \in LineData
        /\ \A w \in Words : LineOf(w) = line => t.burst.words[Offset(w)] = s.mem[w]
    <3>1. b = Request("read", line, b.words, b.left)
      BY <1>3, <1>4
    <3> HIDE DEF line
    <3> QED BY <1>1, <1>3, <3>1, PerformIs
  <2>2. PendingOK(t)
    BY <1>1, <1>2 DEF PendingOK
  <2>3. BurstOK(t)
    BY <1>1, <1>2, <1>4, <2>1 DEF BurstOK, BurstCounted
  <2>4. MaintenanceOK(t, k) /\ DirtyOK(t, F)
    BY <1>1, <1>2 DEF MaintenanceOK, DirtyOK
  <2>5. AccessOK(t, k)
    BY <1>1, <1>2 DEF AccessOK
  <2>6. ASSUME Reliable PROVE Data(t, k, L, F)
    <3>1. Data(s, k, L, F)
      BY <1>1, <2>6
    <3>2. CleanData(t, k, F) /\ AccessData(t)
      BY <1>2, <2>1, <3>1 DEF Data, CleanData, AccessData
    <3>3. BurstData(t, F)
      BY <2>1 DEF BurstData, BurstCounted
    <3>4. WordData(t, k, L, F)
      BY <1>2, <2>1, <3>1 DEF Data, WordData, VisibleIn
    <3>5. MaintenanceData(t, k)
      BY <1>2, <3>1 DEF Data, MaintenanceData, IsDirty
    <3> QED BY <3>2, <3>3, <3>4, <3>5 DEF Data
  <2>7. Good(t, k, L, F)
    BY <1>1, <1>2, <2>1, <2>2, <2>3, <2>4, <2>5, <2>6 DEF Good, Struct, Bank
  <2> QED BY <2>1, <2>7 DEF MemKept
<1>5. CASE b.kind = "write"
  <2>1. /\ b.words \in LineData /\ line \notin F
        /\ (Held(s, line) # None => Held(s, line).dirty)
        /\ \A w \in Words : LineOf(w) = line => VisibleIn(s, w) = b.words[Offset(w)]
    BY <1>5, WriteIs
  <2>2. t.mem \in [Words -> Values] /\ Written(s.mem, t.mem, line, b.words)
    <3>1. b = Request("write", line, b.words, b.left)
      BY <1>3, <1>5
    <3> HIDE DEF line
    <3> QED BY <1>1, <1>3, <2>1, <3>1, PerformIs
  <2>3. t.burst.words = b.words
    BY <1>5 DEF Carried
  <2>4. PendingOK(t)
    BY <1>1, <1>2 DEF PendingOK
  <2>5. BurstOK(t)
    BY <1>1, <1>2, <1>5, <2>3 DEF BurstOK, BurstCounted
  <2>6. MaintenanceOK(t, k) /\ DirtyOK(t, F)
    BY <1>1, <1>2 DEF MaintenanceOK, DirtyOK
  <2>7. AccessOK(t, k)
    BY <1>1, <1>2 DEF AccessOK
  <2>8. ASSUME Reliable PROVE Data(t, k, L, F) /\ MemKept(s.mem, t.mem, k, L, F)
    <3>1. Data(s, k, L, F)
      BY <1>1, <2>8
    <3>2. CleanData(t, k, F)
      BY <1>2, <2>1, <2>2, <3>1 DEF Data, CleanData, Written
    <3>3. BurstData(t, F)
      BY <2>2, <2>3 DEF BurstData, BurstCounted, Written
    <3>4. AccessData(t)
      <4> SUFFICES ASSUME s.access # None, s.access.kind = "store", s.access.left = 0
                   PROVE  t.mem[s.access.word] = s.access.value
        BY DEF AccessData
      <4>1. s.access.word \in Words /\ k # None /\ k.op = "store" /\ k.word = s.access.word
        BY <1>1 DEF AccessOK, Accesses
      <4>2. LineOf(s.access.word) # line
        BY <1>1, <1>3, <4>1 DEF AccessOK, BurstOK, MaintenanceOK
      <4>3. s.mem[s.access.word] = s.access.value
        BY <3>1 DEF Data, AccessData
      <4> QED BY <2>2, <4>1, <4>2, <4>3 DEF Written
    <3>5. \A w \in Words : VisibleIn(t, w) = VisibleIn(s, w)
      <4> SUFFICES ASSUME NEW w \in Words PROVE VisibleIn(t, w) = VisibleIn(s, w)
        OBVIOUS
      <4>1. CASE LineOf(w) = line
        BY <1>2, <2>1, <2>2, <4>1 DEF VisibleIn, Written
      <4>2. CASE LineOf(w) # line
        BY <1>2, <2>2, <4>2 DEF VisibleIn, Written
      <4> QED BY <4>1, <4>2
    <3>6. WordData(t, k, L, F)
      <4>1. \A w \in Words : LineOf(w) \in F => t.mem[w] = s.mem[w]
        BY <2>1, <2>2 DEF Written
      <4> QED BY <3>1, <3>5, <4>1 DEF Data, WordData
    <3>7. MaintenanceData(t, k)
      BY <1>2, <3>1 DEF Data, MaintenanceData, IsDirty
    <3>8. MemKept(s.mem, t.mem, k, L, F)
      <4> SUFFICES ASSUME NEW w \in Words, LineOf(w) \notin F
                   PROVE  t.mem[w] = s.mem[w] \/ t.mem[w] = L[w] \/ StoringBy(k, w)
        BY DEF MemKept
      <4>1. LineOf(w) = line => t.mem[w] = VisibleIn(s, w)
        BY <2>1, <2>2 DEF Written
      <4>2. LineOf(w) # line => t.mem[w] = s.mem[w]
        BY <2>2 DEF Written
      <4>3. VisibleIn(s, w) = L[w] \/ StoringBy(k, w)
        BY <3>1 DEF Data, WordData
      <4> QED BY <4>1, <4>2, <4>3
    <3> QED BY <3>2, <3>3, <3>4, <3>6, <3>7, <3>8 DEF Data
  <2>9. Good(t, k, L, F)
    BY <1>1, <1>2, <2>2, <2>4, <2>5, <2>6, <2>7, <2>8 DEF Good, Struct, Bank
  <2> QED BY <2>8, <2>9 DEF MemKept
<1> QED BY <1>3, <1>4, <1>5

(* The polled access is on its way, or performed.                          *)
LEMMA AccessTicked ==
  ASSUME NEW s, NEW k, NEW L, NEW F, Good(s, k, L, F),
         NEW t, Shape(t), t.config = s.config, t.sets = s.sets, t.pending = s.pending,
         t.maintenance = s.maintenance, t.burst = s.burst, t.weather = s.weather,
         t.access = Ticked(s.access), t.mem = AfterTick(s.mem, s.access)
  PROVE  Good(t, k, L, F) /\ MemKept(s.mem, t.mem, k, L, F)
PROOF
<1>1. s.mem \in [Words -> Values] /\ AccessOK(s, k) /\ MaintenanceOK(s, k) /\ CallOK(k, F)
  BY GoodIs
<1>2. CASE s.access = None \/ s.access.left = 0
  <2>1. t.access = s.access /\ t.mem = s.mem
    BY <1>2 DEF Ticked, AfterTick
  <2> QED BY <2>1, GoodSame DEF MemKept
<1>3. CASE s.access # None /\ s.access.left # 0
  <2> DEFINE a == s.access
  <2>1. a \in Accesses /\ k # None /\ k.op = a.kind /\ k.word = a.word
        /\ (k.op = "store" => k.value = a.value)
    BY <1>1, <1>3 DEF AccessOK
  <2>2. a.left \in Nat \ {0} /\ a.kind \in {"load", "store"} /\ a.word \in Words
        /\ a.value \in Values \cup {None}
    BY <1>3, <2>1 DEF Accesses
  <2>3. MaySend(s, k)
    BY <1>1, <1>3, <2>1, <2>2 DEF MaySend, AccessOK
  <2>4. s.maintenance = None
    BY <1>1, <2>1, <2>2 DEF MaintenanceOK
  <2>5. /\ t.access \in Accesses /\ t.access.kind = a.kind /\ t.access.word = a.word
        /\ t.access.value = a.value /\ t.access.left = a.left - 1
    <3>1. t.access = [a EXCEPT !.left = a.left - 1]
      BY <1>3 DEF Ticked
    <3>2. a.left - 1 \in Nat
      BY <2>2
    <3> QED BY <2>1, <3>1, <3>2 DEF Accesses
  <2>6. CASE a.kind = "store" /\ a.left = 1
    <3>1. t.mem = [s.mem EXCEPT ![k.word] = k.value]
      BY <1>3, <2>1, <2>6 DEF AfterTick, Perform
    <3>2. k.value \in Values
      BY <1>1, <2>1, <2>6 DEF CallOK
    <3>3. t.mem \in [Words -> Values] /\ t.mem[k.word] = k.value
          /\ \A v \in Words : v # k.word => t.mem[v] = s.mem[v]
      BY <1>1, <2>1, <2>2, <3>1, <3>2
    <3>4. Below(s, t, k)
      BY <2>1, <2>6, <3>3 DEF Below
    <3>5. Good(t, k, L, F)
      BY <2>1, <2>3, <2>4, <2>5, <3>3, <3>4, SentBelow
    <3>6. \A w \in Words : t.mem[w] = s.mem[w] \/ StoringBy(k, w)
      BY <2>1, <2>6, <3>3 DEF StoringBy
    <3> QED BY <3>5, <3>6 DEF MemKept
  <2>7. CASE a.kind = "load" \/ a.left # 1
    <3>1. t.mem = s.mem
      BY <2>2, <2>7 DEF AfterTick, Perform
    <3>2. Below(s, t, k)
      BY <1>1, <3>1 DEF Below
    <3>3. t.access.left = 0 => k.op # "store"
      BY <2>1, <2>2, <2>5, <2>7
    <3>4. Good(t, k, L, F)
      BY <2>1, <2>3, <2>4, <2>5, <3>1, <3>2, <3>3, SentBelow
    <3> QED BY <3>1, <3>4 DEF MemKept
  <2> QED BY <2>2, <2>6, <2>7
<1> QED BY <1>2, <1>3

(* The data bank after a cycle.                                            *)
LEMMA BurstTicked ==
  ASSUME NEW s, NEW k, NEW L, NEW F, Good(s, k, L, F),
         NEW t, Shape(t), t.config = s.config, t.sets = s.sets, t.pending = s.pending,
         t.maintenance = s.maintenance, t.access = s.access,
         t.burst = IF s.burst # None /\ s.burst.left = 1
                   THEN [s.burst EXCEPT !.left = 0, !.words = Carried(s.mem, s.burst)]
                   ELSE Ticked(s.burst),
         t.mem = AfterTick(s.mem, s.burst)
  PROVE  Good(t, k, L, F) /\ MemKept(s.mem, t.mem, k, L, F)
PROOF
<1>1. BurstOK(s) /\ s.mem \in [Words -> Values]
  BY GoodIs
<1> DEFINE b == s.burst
<1>2. CASE b = None \/ b.left = 0
  <2>1. t.burst = b /\ t.mem = s.mem
    BY <1>2 DEF Ticked, AfterTick
  <2> QED BY <2>1, GoodSame DEF MemKept
<1>3. b # None => b \in Bursts
  BY <1>1 DEF BurstOK
<1>4. CASE b # None /\ b.left = 1
  <2>1. /\ b.kind \in {"read", "write"} /\ b.line \in CachedLines /\ b.words \in LineData \cup {None}
        /\ b = Request(b.kind, b.line, b.words, b.left)
    BY <1>3, <1>4 DEF Bursts, Request
  <2> DEFINE x == Carried(s.mem, b)
  <2>2. x \in LineData \cup {None}
    <3>1. b.kind = "read" => x \in LineData
      BY <1>1, <2>1, PerformIs
    <3>2. b.kind = "write" => x = b.words
      BY DEF Carried
    <3> QED BY <2>1, <3>1, <3>2
  <2>3. t.burst = [b EXCEPT !.left = 0, !.words = x]
    BY <1>4
  <2> HIDE DEF x
  <2>4. t.burst.kind = b.kind /\ t.burst.line = b.line /\ t.burst.words = x /\ t.burst.left = 0
    BY <1>3, <1>4, <2>3 DEF Bursts
  <2>5. t.burst = [kind |-> b.kind, line |-> b.line, words |-> x, left |-> 0]
    BY <1>3, <1>4, <2>3 DEF Bursts
  <2>6. BurstCounted(b, t.burst)
    <3>1. [kind |-> b.kind, line |-> b.line, words |-> x, left |-> 0] \in Bursts
      BY <2>1, <2>2 DEF Bursts
    <3> QED BY <2>4, <2>5, <3>1 DEF BurstCounted
  <2>7. t.mem = Perform(s.mem, b)
    BY <1>4 DEF AfterTick
  <2> QED BY <1>4, <2>4, <2>6, <2>7, BurstEnds DEF x
<1>5. CASE b # None /\ b.left # 0 /\ b.left # 1
  <2>1. t.burst = [b EXCEPT !.left = b.left - 1] /\ t.mem = s.mem
    BY <1>5 DEF Ticked, AfterTick
  <2>2. b.left - 1 \in Nat \ {0}
    BY <1>3, <1>5 DEF Bursts
  <2>3. BurstCounted(b, t.burst) /\ t.burst.words = b.words /\ t.burst.left # 0
    BY <1>3, <1>5, <2>1, <2>2 DEF BurstCounted, Bursts
  <2> QED BY <1>5, <2>1, <2>3, BurstWaits DEF MemKept
<1> QED BY <1>2, <1>4, <1>5

(* The instruction bank's burst in a cycle: m is what a refill that ends   *)
(* has read.                                                               *)
LEMMA ReadTicked ==
  ASSUME NEW t, NEW f, NEW k, NEW L, NEW F, GoodInstruction(t, f, k, L, F),
         t.burst # None, NEW u, Shape(u), u.config = t.config, u.sets = t.sets,
         u.pending = t.pending, u.maintenance = t.maintenance, u.mem = t.mem,
         BurstCounted(t.burst, u.burst), NEW m \in [Words -> Values],
         \/ u.burst.left # 0
         \/ u.burst.left = 0 /\ u.burst.words = Carried(m, t.burst),
         Reliable /\ t.pending.line \notin F => \A w \in Words : LineOf(w) = t.pending.line =>
           m[w] = L[w] \/ StoringBy(k, w)
  PROVE  GoodInstruction(u, f, k, L, F)
PROOF
<1>1. Bank(t) /\ InstructionStruct(t, f, F) /\ t.pending # None /\ t.pending.write_back = None
  BY DEF GoodInstruction, InstructionStruct
<1>2. LinesOK(u) /\ \A l : Held(u, l) = Held(t, l)
  BY <1>1, HeldSame DEF LinesOK, Bank
<1>3. PendingOK(u)
  BY <1>1, <1>2 DEF Bank, PendingOK
<1>4. t.burst.kind = "read" /\ t.burst.line = t.pending.line /\ t.burst \in Bursts
  BY <1>1 DEF Bank, BurstOK
<1>5. ASSUME u.burst.left = 0
      PROVE  /\ u.burst.words \in LineData
             /\ \A w \in Words : LineOf(w) = t.pending.line => u.burst.words[Offset(w)] = m[w]
  <2>1. t.burst = Request("read", t.burst.line, t.burst.words, t.burst.left)
        /\ t.burst.line \in CachedLines
    BY <1>4, BurstIs
  <2>2. u.burst.words = Carried(m, t.burst)
    BY <1>5
  <2> QED BY <1>4, <2>1, <2>2, PerformIs
<1>6. BurstOK(u)
  BY <1>1, <1>4, <1>5 DEF BurstOK, BurstCounted
<1>7. InstructionStruct(u, f, F)
  BY <1>1, <1>2, <1>3, <1>6 DEF InstructionStruct, Bank, IsDirty
<1>8. ASSUME Reliable PROVE InstructionData(u, f, k, L, F)
  <2>1. InstructionData(t, f, k, L, F)
    BY <1>8 DEF GoodInstruction
  <2>2. u.burst.left = 0 /\ u.burst.line \notin F =>
          \A w \in Words : LineOf(w) = u.burst.line =>
            u.burst.words[Offset(w)] = L[w] \/ StoringBy(k, w)
    BY <1>4, <1>5, <1>8 DEF BurstCounted
  <2>3. \A l : MemCurrent(t, k, L, l) => MemCurrent(u, k, L, l)
    BY DEF MemCurrent
  <2> QED BY <1>2, <2>1, <2>2, <2>3 DEF InstructionData
<1> QED BY <1>7, <1>8 DEF GoodInstruction

LEMMA TickInv == CacheInv /\ SplitTick => CacheInv'
PROOF
<1> SUFFICES ASSUME CacheInv, SplitTick PROVE CacheInv'
  OBVIOUS
<1> DEFINE s == Now(None)
           t == Instruction(None)
           n == Now(None)'
           u == Instruction(None)'
           half == [config |-> config, sets |-> sets, pending |-> pending,
                    maintenance |-> maintenance, mem |-> AfterTick(mem, burst), burst |-> burst',
                    access |-> access, weather |-> None]
           v == [config |-> config, sets |-> instruction.sets, pending |-> instruction.pending,
                 maintenance |-> maintenance, mem |-> mem', burst |-> instruction.burst,
                 access |-> access', weather |-> None]
<1>1. /\ config' = config /\ sets' = sets /\ pending' = pending /\ maintenance' = maintenance
      /\ call' = call /\ latest' = latest /\ foreign' = foreign /\ attempted' = FALSE
      /\ access' = Ticked(access) /\ mem' = AfterTick(AfterTick(mem, burst), access)
      /\ burst' = IF burst # None /\ burst.left = 1
                  THEN [burst EXCEPT !.left = 0, !.words = Carried(mem, burst)]
                  ELSE Ticked(burst)
      /\ fetch' = IF fetch = None THEN None ELSE [fetch EXCEPT !.attempted = FALSE]
  BY DEF SplitTick, Advance
<1>2. /\ Good(s, call, latest, foreign) /\ BankRecord(instruction)
      /\ GoodInstruction(t, fetch, call, latest, foreign)
  BY InvIs
<1>3. /\ s.config = config /\ s.sets = sets /\ s.pending = pending /\ s.maintenance = maintenance
      /\ s.mem = mem /\ s.burst = burst /\ s.access = access /\ s.weather = None
  BY NowIs
<1>4. /\ half.config = config /\ half.sets = sets /\ half.pending = pending
      /\ half.maintenance = maintenance /\ half.mem = AfterTick(mem, burst) /\ half.burst = burst'
      /\ half.access = access /\ half.weather = None /\ Shape(half)
  BY DEF Shape
<1>5. /\ Shape(n) /\ n.config = config /\ n.sets = sets /\ n.pending = pending
      /\ n.maintenance = maintenance /\ n.mem = mem' /\ n.burst = burst' /\ n.access = access'
      /\ n.weather = None
  BY <1>1, NextIs
<1>6. /\ t.config = config /\ t.sets = instruction.sets /\ t.pending = instruction.pending
      /\ t.maintenance = maintenance /\ t.mem = mem /\ t.burst = instruction.burst
  BY InstructionIs
<1>7. /\ Shape(v) /\ v.config = config /\ v.sets = instruction.sets
      /\ v.pending = instruction.pending /\ v.maintenance = maintenance /\ v.mem = mem'
      /\ v.burst = instruction.burst
  BY DEF Shape
<1>8. /\ Shape(u) /\ u.config = config /\ u.sets = instruction'.sets
      /\ u.pending = instruction'.pending /\ u.maintenance = maintenance /\ u.mem = mem'
      /\ u.burst = instruction'.burst
  BY <1>1, NextIs
<1> HIDE DEF s, t, n, u, half, v
<1>9. Good(half, call, latest, foreign) /\ MemKept(mem, half.mem, call, latest, foreign)
  BY <1>1, <1>2, <1>3, <1>4, BurstTicked
<1>10. Good(n, call, latest, foreign) /\ MemKept(half.mem, mem', call, latest, foreign)
  BY <1>1, <1>4, <1>5, <1>9, AccessTicked
<1>11. MemKept(mem, mem', call, latest, foreign)
  BY <1>9, <1>10 DEF MemKept
<1>12. mem' \in [Words -> Values] /\ mem \in [Words -> Values]
  BY <1>2, <1>3, <1>5, <1>10, GoodIs
<1>13. GoodInstruction(v, fetch', call, latest, foreign)
  <2>1. InstructionStruct(t, fetch, foreign) /\ (t.pending # None => t.maintenance = None)
    BY <1>2 DEF GoodInstruction, InstructionStruct, Bank, PendingOK
  <2>2. ASSUME fetch' # None
        PROVE  /\ fetch # None /\ fetch'.word = fetch.word /\ LineOf(fetch'.word) \notin foreign
               /\ fetch' \in [word : Fetches, older : 0 .. OlderAccesses, attempted : BOOLEAN]
    <3>1. fetch # None
      BY <1>1, <2>2
    <3>2. /\ fetch \in [word : Fetches, older : 0 .. OlderAccesses, attempted : BOOLEAN]
          /\ LineOf(fetch.word) \notin foreign
      BY <2>1, <3>1 DEF InstructionStruct
    <3> QED BY <1>1, <3>1, <3>2
  <2>3. Reliable /\ t.config.write_back /\ fetch # None =>
          \A w \in Words : LineOf(w) = LineOf(fetch.word) => ~StoringBy(call, w)
    BY <1>2 DEF GoodInstruction, InstructionData
  <2>4. Reliable => \A w \in Words : LineOf(w) \notin foreign =>
          v.mem[w] = t.mem[w] \/ v.mem[w] = latest[w] \/ StoringBy(call, w)
    BY <1>6, <1>7, <1>11 DEF MemKept
  <2> QED BY <1>2, <1>6, <1>7, <1>12, <2>1, <2>2, <2>3, <2>4, InstructionKept
<1>14. ASSUME Reliable, instruction.pending # None, instruction.pending.line \notin foreign,
              NEW m \in {mem, mem'}, NEW w \in Words, LineOf(w) = instruction.pending.line
       PROVE  m[w] = latest[w] \/ StoringBy(call, w)
  <2>1. MemCurrent(t, call, latest, instruction.pending.line)
    BY <1>2, <1>6, <1>14 DEF GoodInstruction, InstructionData
  <2>2. MemCurrent(v, call, latest, instruction.pending.line)
    BY <1>7, <1>13, <1>14 DEF GoodInstruction, InstructionData
  <2> QED BY <1>6, <1>7, <1>14, <2>1, <2>2 DEF MemCurrent
<1>15. instruction.burst # None =>
         instruction.burst \in Bursts /\ instruction.pending # None
  BY <1>2, <1>6 DEF GoodInstruction, InstructionStruct, Bank, BurstOK
<1>16. GoodInstruction(u, fetch', call, latest, foreign) /\ BankRecord(instruction')
  <2> DEFINE read == instruction.burst
  <2>1. CASE read # None /\ read.left = 1
    <3>1. PICK m \in {mem, mem'} :
            instruction' = [instruction EXCEPT !.burst.left = 0, !.burst.words = Carried(m, read)]
      BY <2>1 DEF SplitTick
    <3> DEFINE x == Carried(m, read)
               b == [kind |-> read.kind, line |-> read.line, words |-> x, left |-> 0]
    <3>2. read \in Bursts /\ read.kind \in {"read", "write"} /\ read.line \in CachedLines
          /\ read.words \in LineData \cup {None} /\ read = Request(read.kind, read.line, read.words, read.left)
      BY <1>15, <2>1 DEF Bursts, Request
    <3>3. x \in LineData \cup {None}
      <4>1. read.kind = "read" => x \in LineData
        BY <1>12, <3>2, PerformIs
      <4>2. read.kind = "write" => x = read.words
        BY DEF Carried
      <4> QED BY <3>2, <4>1, <4>2
    <3> HIDE DEF x
    <3>4. b \in Bursts /\ b.kind = read.kind /\ b.line = read.line /\ b.words = x /\ b.left = 0
      BY <3>2, <3>3 DEF Bursts
    <3>5. instruction' = [sets |-> instruction.sets, pending |-> instruction.pending, burst |-> b]
      <4>1. instruction' = [[instruction EXCEPT !.burst.left = 0] EXCEPT !.burst.words = x]
        BY <3>1 DEF x
      <4> DEFINE one == [read EXCEPT !.left = 0]
                 two == [one EXCEPT !.words = x]
      <4>2. instruction = [sets |-> instruction.sets, pending |-> instruction.pending, burst |-> read]
        BY <1>2 DEF BankRecord
      <4>3. [instruction EXCEPT !.burst.left = 0]
              = [sets |-> instruction.sets, pending |-> instruction.pending, burst |-> one]
        BY <4>2
      <4>4. instruction' = [sets |-> instruction.sets, pending |-> instruction.pending, burst |-> two]
        BY <4>1, <4>3
      <4>5. two = b
        <5>1. one = [kind |-> read.kind, line |-> read.line, words |-> read.words, left |-> 0]
          BY <3>2 DEF Bursts
        <5> HIDE DEF one
        <5> QED BY <5>1
      <4> QED BY <4>4, <4>5
    <3> HIDE DEF b
    <3>6. /\ instruction'.sets = instruction.sets /\ instruction'.pending = instruction.pending
          /\ instruction'.burst = b /\ BankRecord(instruction')
      BY <3>5 DEF BankRecord
    <3>7. BurstCounted(read, b)
      BY <3>4 DEF BurstCounted
    <3>8. m \in [Words -> Values]
      BY <1>12
    <3>9. GoodInstruction(u, fetch', call, latest, foreign)
      BY <1>7, <1>8, <1>13, <1>14, <1>15, <2>1, <3>4, <3>6, <3>7, <3>8, ReadTicked DEF x
    <3> QED BY <3>6, <3>9
  <2>2. CASE ~(read # None /\ read.left = 1)
    <3>1. instruction' = [instruction EXCEPT !.burst = Ticked(read)]
      BY <2>2 DEF SplitTick
    <3>2. instruction = [sets |-> instruction.sets, pending |-> instruction.pending, burst |-> read]
      BY <1>2 DEF BankRecord
    <3> DEFINE b == Ticked(read)
    <3>3. instruction' = [sets |-> instruction.sets, pending |-> instruction.pending, burst |-> b]
      BY <3>1, <3>2
    <3> HIDE DEF b
    <3>4. /\ instruction'.sets = instruction.sets /\ instruction'.pending = instruction.pending
          /\ instruction'.burst = b /\ BankRecord(instruction')
      BY <3>3 DEF BankRecord
    <3>5. CASE read = None \/ read.left = 0
      <4>1. b = read
        BY <3>5 DEF b, Ticked
      <4>2. InstructionStruct(v, fetch', foreign) /\ (v.pending # None => v.maintenance = None)
        BY <1>13 DEF GoodInstruction, InstructionStruct, Bank, PendingOK
      <4>3. Reliable /\ v.config.write_back /\ fetch' # None =>
              \A w \in Words : LineOf(w) = LineOf(fetch'.word) => ~StoringBy(call, w)
        BY <1>13 DEF GoodInstruction, InstructionData
      <4>4. GoodInstruction(u, fetch', call, latest, foreign)
        BY <1>7, <1>8, <1>12, <1>13, <3>4, <4>1, <4>2, <4>3, InstructionKept DEF InstructionStruct
      <4> QED BY <3>4, <4>4
    <3>6. CASE read # None /\ read.left # 0 /\ read.left # 1
      <4>1. b = [read EXCEPT !.left = read.left - 1] /\ read \in Bursts
        BY <1>15, <3>6 DEF b, Ticked
      <4>2. read.left - 1 \in Nat \ {0}
        BY <3>6, <4>1 DEF Bursts
      <4>3. BurstCounted(read, b) /\ b.left # 0
        BY <4>1, <4>2 DEF BurstCounted, Bursts
      <4>4. GoodInstruction(u, fetch', call, latest, foreign)
        BY <1>7, <1>8, <1>12, <1>13, <1>14, <1>15, <3>4, <3>6, <4>3, ReadTicked
      <4> QED BY <3>4, <4>4
    <3> QED BY <2>2, <3>5, <3>6
  <2> QED BY <2>1, <2>2
<1> QED BY <1>1, <1>10, <1>16, InvNext DEF n, u

(* The instruction bank after a store, and after a discard.                *)
LEMMA AfterStore ==
  ASSUME BankRecord(instruction), NEW line
  PROVE  LET b == InvalidateLine(instruction, line)
         IN  /\ BankRecord(b) /\ b.sets = Invalidated(config, instruction.sets, {line})
             /\ IF instruction.pending # None /\ instruction.pending.line = line
                THEN b.pending = None /\ b.burst = None
                ELSE b.pending = instruction.pending /\ b.burst = instruction.burst
PROOF
<1> DEFINE b == InvalidateLine(instruction, line)
           i == instruction
           x == Invalidated(config, i.sets, {line})
<1>1. i = [sets |-> i.sets, pending |-> i.pending, burst |-> i.burst]
  BY DEF BankRecord
<1>2. CASE i.pending # None /\ i.pending.line = line
  <2> DEFINE e == [i EXCEPT !.pending = None]
             g == [e EXCEPT !.burst = None]
  <2>1. e = [sets |-> i.sets, pending |-> None, burst |-> i.burst]
    BY <1>1
  <2>2. g = [sets |-> i.sets, pending |-> None, burst |-> None]
    <3> HIDE DEF e
    <3> QED BY <2>1
  <2>3. b = [g EXCEPT !.sets = Invalidated(config, g.sets, {line})]
    BY <1>2 DEF InvalidateLine, Dropped
  <2> HIDE DEF g
  <2>4. g.sets = i.sets
    BY <2>2
  <2>5. b = [g EXCEPT !.sets = x]
    BY <2>3, <2>4
  <2> HIDE DEF x, b
  <2>6. b = [sets |-> x, pending |-> None, burst |-> None]
    BY <2>2, <2>5
  <2>7. b.sets = x /\ b.pending = None /\ b.burst = None /\ BankRecord(b)
    BY <2>6 DEF BankRecord
  <2> QED BY <1>2, <2>7 DEF b, x
<1>3. CASE ~(i.pending # None /\ i.pending.line = line)
  <2>1. b = [i EXCEPT !.sets = x]
    BY <1>3 DEF InvalidateLine, Dropped
  <2> HIDE DEF x, b
  <2>2. b = [sets |-> x, pending |-> i.pending, burst |-> i.burst]
    BY <1>1, <2>1
  <2>3. b.sets = x /\ b.pending = i.pending /\ b.burst = i.burst /\ BankRecord(b)
    BY <2>2 DEF BankRecord
  <2> QED BY <1>3, <2>3 DEF b, x
<1> QED BY <1>2, <1>3

LEMMA AfterDiscard ==
  ASSUME BankRecord(instruction), NEW gone
  PROVE  LET b == Dropped(instruction, gone)
         IN  /\ BankRecord(b) /\ b.sets = Invalidated(config, instruction.sets, gone)
             /\ b.pending = instruction.pending /\ b.burst = instruction.burst
PROOF
<1> DEFINE b == Dropped(instruction, gone)
           i == instruction
           x == Invalidated(config, i.sets, gone)
<1>1. i = [sets |-> i.sets, pending |-> i.pending, burst |-> i.burst]
  BY DEF BankRecord
<1>2. b = [i EXCEPT !.sets = x]
  BY DEF Dropped
<1> HIDE DEF x, b
<1>3. b = [sets |-> x, pending |-> i.pending, burst |-> i.burst]
  BY <1>1, <1>2
<1>4. b.sets = x /\ b.pending = i.pending /\ b.burst = i.burst /\ BankRecord(b)
  BY <1>3 DEF BankRecord
<1> QED BY <1>4 DEF b, x

(* What an attempt assigns.                                                *)
Assigned(o) ==
  /\ sets' = o.s.sets /\ pending' = o.s.pending /\ maintenance' = o.s.maintenance
  /\ mem' = o.s.mem /\ burst' = o.s.burst /\ access' = o.s.access /\ config' = config
  /\ fetch' = fetch /\ attempted' = (o.answer # "Ok")
  /\ call' = (IF o.answer = "Ok" THEN None ELSE call)
  /\ instruction' = (IF o.answer = "Ok" THEN InstructionAfter ELSE instruction)
  /\ latest' = [w \in Words |->
       IF o.answer = "Ok" /\ call.op = "store" /\ call.word = w THEN call.value
       ELSE IF o.answer = "Ok" /\ call.op = "discard" /\ LineOf(w) \in LinesIn(call)
       THEN o.s.mem[w] ELSE latest[w]]
  /\ foreign' = (IF o.answer = "Ok" /\ call.op = "discard" THEN foreign \ LinesIn(call) ELSE foreign)

LEMMA AttemptIs ==
  ASSUME SplitAttempt
  PROVE  /\ call # None /\ ~MustWait
         /\ \E weather \in Weathers : Assigned(Do(call, Now(weather)))
PROOF
<1>1. call # None /\ ~MustWait
  BY DEF SplitAttempt, Attempt
<1>2. PICK weather \in Weathers : \E outcome \in {Do(call, Now(weather))} :
        LET s == outcome.s
            ok == outcome.answer = "Ok"
        IN  /\ sets' = s.sets
            /\ pending' = s.pending
            /\ maintenance' = s.maintenance
            /\ mem' = s.mem
            /\ burst' = s.burst
            /\ access' = s.access
            /\ call' = IF ok THEN None ELSE call
            /\ attempted' = ~ok
            /\ latest' = [w \in Words |->
                 IF ok /\ call.op = "store" /\ call.word = w THEN call.value
                 ELSE IF ok /\ call.op = "discard" /\ LineOf(w) \in LinesIn(call)
                 THEN s.mem[w] ELSE latest[w]]
            /\ foreign' = IF ok /\ call.op = "discard" THEN foreign \ LinesIn(call) ELSE foreign
  BY DEF SplitAttempt, Attempt
<1> DEFINE o == Do(call, Now(weather))
<1>3. /\ sets' = o.s.sets /\ pending' = o.s.pending /\ maintenance' = o.s.maintenance
      /\ mem' = o.s.mem /\ burst' = o.s.burst /\ access' = o.s.access
      /\ attempted' = (o.answer # "Ok")
      /\ call' = (IF o.answer = "Ok" THEN None ELSE call)
  BY <1>2
<1>4. latest' = [w \in Words |->
        IF o.answer = "Ok" /\ call.op = "store" /\ call.word = w THEN call.value
        ELSE IF o.answer = "Ok" /\ call.op = "discard" /\ LineOf(w) \in LinesIn(call)
        THEN o.s.mem[w] ELSE latest[w]]
  BY <1>2
<1>5. foreign' = (IF o.answer = "Ok" /\ call.op = "discard" THEN foreign \ LinesIn(call) ELSE foreign)
  BY <1>2
<1>6. /\ config' = config /\ fetch' = fetch
      /\ instruction' = IF call' = None THEN InstructionAfter ELSE instruction
  BY DEF SplitAttempt, Attempt
<1>7. instruction' = (IF o.answer = "Ok" THEN InstructionAfter ELSE instruction)
  BY <1>1, <1>3, <1>6
<1>8. Assigned(o)
  BY <1>3, <1>4, <1>5, <1>6, <1>7 DEF Assigned
<1> QED BY <1>1, <1>8

(* The banks after an attempt that leaves the instruction bank alone.      *)
LEMMA AttemptKept ==
  ASSUME CacheInv, NEW o, Assigned(o), instruction' = instruction, o.s.config = config,
         Good(o.s, call', latest, foreign), latest' = latest, foreign' = foreign,
         call' = call \/ (call' = None /\ call # None /\ call.op # "store"),
         instruction.pending # None => o.s.maintenance = None,
         Reliable => \A w \in Words : LineOf(w) \notin foreign =>
           o.s.mem[w] = mem[w] \/ o.s.mem[w] = latest[w] \/ StoringBy(call, w)
  PROVE  CacheInv'
PROOF
<1> DEFINE t == Instruction(None)
           n == Now(None)'
           u == Instruction(None)'
<1>1. GoodInstruction(t, fetch, call, latest, foreign) /\ BankRecord(instruction)
  BY InvIs
<1>2. attempted' \in BOOLEAN /\ fetch' = fetch
  BY DEF Assigned
<1>3. /\ Shape(n) /\ n.config = o.s.config /\ n.sets = o.s.sets /\ n.pending = o.s.pending
      /\ n.maintenance = o.s.maintenance /\ n.mem = o.s.mem /\ n.burst = o.s.burst
      /\ n.access = o.s.access
  BY NextIs DEF Assigned
<1>4. /\ Shape(u) /\ u.config = t.config /\ u.sets = t.sets /\ u.pending = t.pending
      /\ u.burst = t.burst /\ u.mem = o.s.mem /\ u.maintenance = o.s.maintenance /\ t.mem = mem
      /\ t.pending = instruction.pending
  BY InstructionIs, NextIs DEF Assigned
<1> HIDE DEF t, n, u
<1>5. Good(n, call', latest, foreign)
  BY <1>3, GoodSame
<1>6. \A w : StoringBy(call', w) <=> StoringBy(call, w)
  BY DEF StoringBy
<1>7. o.s.mem \in [Words -> Values]
  BY GoodIs
<1>8. InstructionStruct(t, fetch, foreign)
  BY <1>1 DEF GoodInstruction
<1>9. Reliable /\ t.config.write_back /\ fetch # None =>
        \A w \in Words : LineOf(w) = LineOf(fetch.word) => ~StoringBy(call, w)
  BY <1>1 DEF GoodInstruction, InstructionData
<1>10. GoodInstruction(u, fetch, call', latest, foreign)
  <2>1. fetch # None => /\ LineOf(fetch.word) \notin foreign
                        /\ fetch \in [word : Fetches, older : 0 .. OlderAccesses, attempted : BOOLEAN]
    BY <1>8 DEF InstructionStruct
  <2> QED BY <1>1, <1>4, <1>6, <1>7, <1>9, <2>1, InstructionKept
<1> QED BY <1>1, <1>2, <1>5, <1>10, InvNext DEF n, u

(* A store has been taken.                                                 *)
LEMMA AttemptStored ==
  ASSUME CacheInv, NEW o, Assigned(o), o.answer = "Ok", call # None, call.op = "store",
         o.s.config = config, o.s.maintenance = maintenance,
         NEW N, N = [latest EXCEPT ![call.word] = call.value], Good(o.s, None, N, foreign),
         Reliable => \A w \in Words : LineOf(w) \notin foreign =>
           o.s.mem[w] = mem[w] \/ o.s.mem[w] = latest[w] \/ StoringBy(call, w)
  PROVE  CacheInv'
PROOF
<1> DEFINE t == Instruction(None)
           n == Now(None)'
           u == Instruction(None)'
<1>1. /\ GoodInstruction(t, fetch, call, latest, foreign) /\ BankRecord(instruction)
      /\ Good(Now(None), call, latest, foreign)
  BY InvIs
<1>2. /\ attempted' \in BOOLEAN /\ fetch' = fetch /\ call' = None /\ foreign' = foreign
      /\ instruction' = InvalidateLine(instruction, LineOf(call.word))
  BY DEF Assigned, InstructionAfter
<1>3. latest \in [Words -> Values] /\ call.word \in Words
  BY <1>1, GoodIs DEF CallOK
<1>4. latest' = N
  <2>1. latest' = [w \in Words |-> IF call.word = w THEN call.value ELSE latest[w]]
    BY DEF Assigned
  <2> QED BY <1>3, <2>1
<1>5. /\ Shape(n) /\ n.config = o.s.config /\ n.sets = o.s.sets /\ n.pending = o.s.pending
      /\ n.maintenance = o.s.maintenance /\ n.mem = o.s.mem /\ n.burst = o.s.burst
      /\ n.access = o.s.access
  BY NextIs DEF Assigned
<1>6. /\ Shape(u) /\ u.config = t.config /\ u.sets = instruction'.sets
      /\ u.pending = instruction'.pending /\ u.burst = instruction'.burst /\ u.mem = o.s.mem
      /\ u.maintenance = t.maintenance /\ t.mem = mem /\ t.pending = instruction.pending
      /\ t.sets = instruction.sets /\ t.burst = instruction.burst /\ t.config = config
  BY InstructionIs, NextIs DEF Assigned
<1>7. /\ BankRecord(instruction')
      /\ instruction'.sets = Invalidated(config, instruction.sets, {LineOf(call.word)})
      /\ IF instruction.pending # None /\ instruction.pending.line = LineOf(call.word)
         THEN instruction'.pending = None /\ instruction'.burst = None
         ELSE instruction'.pending = instruction.pending /\ instruction'.burst = instruction.burst
  BY <1>1, <1>2, AfterStore
<1> HIDE DEF t, n, u
<1>8. Good(n, None, N, foreign)
  BY <1>5, GoodSame
<1>9. u.mem \in [Words -> Values]
  BY <1>6, GoodIs
<1>10. GoodInstruction(u, fetch, None, N, foreign)
  <2>1. IF t.pending # None /\ t.pending.line = LineOf(call.word)
        THEN u.pending = None /\ u.burst = None ELSE u.pending = t.pending /\ u.burst = t.burst
    BY <1>6, <1>7
  <2>2. u.sets = Invalidated(t.config, t.sets, {LineOf(call.word)})
    BY <1>6, <1>7
  <2>3. n.config = u.config /\ n.mem = u.mem
    BY <1>5, <1>6
  <2>4. Reliable => \A w \in Words : LineOf(w) \notin foreign =>
          u.mem[w] = t.mem[w] \/ u.mem[w] = latest[w] \/ StoringBy(call, w)
    BY <1>6
  <2> DEFINE gone == {LineOf(call.word)}
  <2>5. /\ \A l : l \in gone <=> l = LineOf(call.word)
        /\ \A w \in Words : w # call.word => N[w] = latest[w]
    BY <1>3
  <2> HIDE DEF gone
  <2>6. u.sets = Invalidated(t.config, t.sets, gone)
    BY <2>2 DEF gone
  <2>7. StoreTaken(n, t, u, gone, call, latest, N, foreign)
    BY <1>3, <1>6, <1>8, <1>9, <2>1, <2>3, <2>4, <2>5, <2>6 DEF StoreTaken
  <2> QED BY <1>1, <2>7, InstructionStored
<1> QED BY <1>2, <1>4, <1>7, <1>8, <1>10, InvNext DEF n, u

(* A range has been discarded.                                             *)
LEMMA AttemptDiscarded ==
  ASSUME CacheInv, NEW o, Assigned(o), o.answer = "Ok", call # None, call.op = "discard",
         o.s.config = config, o.s.mem = mem, instruction.pending = None,
         NEW G, G = foreign \ LinesIn(call),
         NEW N, N = [w \in Words |-> IF LineOf(w) \in LinesIn(call) THEN mem[w] ELSE latest[w]],
         Good(o.s, None, N, G)
  PROVE  CacheInv'
PROOF
<1> DEFINE t == Instruction(None)
           n == Now(None)'
           u == Instruction(None)'
           gone == Range(LineBasesForRange(call.start, call.len))
<1>1. /\ GoodInstruction(t, fetch, call, latest, foreign) /\ BankRecord(instruction)
      /\ Good(Now(None), call, latest, foreign)
  BY InvIs
<1>2. /\ attempted' \in BOOLEAN /\ fetch' = fetch /\ call' = None /\ foreign' = G
      /\ instruction' = Dropped(instruction, gone)
  BY DEF Assigned, InstructionAfter
<1>3. latest' = N
  <2>1. latest' = [w \in Words |-> IF LineOf(w) \in LinesIn(call) THEN o.s.mem[w] ELSE latest[w]]
    BY DEF Assigned
  <2> QED BY <2>1
<1>4. /\ Shape(n) /\ n.config = o.s.config /\ n.sets = o.s.sets /\ n.pending = o.s.pending
      /\ n.maintenance = o.s.maintenance /\ n.mem = o.s.mem /\ n.burst = o.s.burst
      /\ n.access = o.s.access
  BY NextIs DEF Assigned
<1>5. \A l \in LinesIn(call) : l \in gone
  <2>1. PICK r \in Discards : call.start = r.start /\ call.len = r.len
    BY <1>1, GoodIs DEF CallOK
  <2>2. r.start \in Nat /\ r.len \in Nat /\ r.start + r.len <= LineCount * LineWords
    BY CacheAssumption
  <2>3. \A w \in call.start .. (call.start + call.len - 1) : LineOf(w) \in gone
    BY <2>1, <2>2, LineBasesIs
  <2> HIDE DEF gone
  <2> QED BY <2>3 DEF LinesIn
<1> HIDE DEF gone
<1>6. /\ BankRecord(instruction') /\ instruction'.sets = Invalidated(config, instruction.sets, gone)
      /\ instruction'.pending = instruction.pending /\ instruction'.burst = instruction.burst
  BY <1>1, <1>2, AfterDiscard
<1>7. /\ Shape(u) /\ u.config = t.config /\ u.sets = Invalidated(t.config, t.sets, gone)
      /\ u.pending = t.pending /\ u.burst = t.burst /\ u.mem = t.mem /\ t.pending = None /\ t.mem = mem
  BY <1>6, InstructionIs, NextIs DEF Assigned
<1> HIDE DEF t, n, u
<1>8. Good(n, None, N, G)
  BY <1>4, GoodSame
<1>9. GoodInstruction(u, fetch, None, N, G)
  <2>1. N = [w \in Words |-> IF LineOf(w) \in LinesIn(call) THEN t.mem[w] ELSE latest[w]]
    BY <1>7
  <2> QED BY <1>1, <1>5, <1>7, <2>1, InstructionDropped
<1> QED BY <1>2, <1>3, <1>6, <1>8, <1>9, InvNext DEF n, u

LEMMA AttemptInv == CacheInv /\ SplitAttempt => CacheInv'
PROOF
<1> SUFFICES ASSUME CacheInv, SplitAttempt PROVE CacheInv'
  OBVIOUS
<1>1. call # None /\ ~MustWait
  BY AttemptIs
<1>2. PICK weather \in Weathers : Assigned(Do(call, Now(weather)))
  BY AttemptIs
<1> DEFINE s == Now(weather)
           o == Do(call, s)
<1>3. Good(s, call, latest, foreign) /\ GoodInstruction(Instruction(None), fetch, call, latest, foreign)
  BY InvIs
<1>4. s.config = config /\ s.mem = mem /\ s.maintenance = maintenance /\ s.weather = weather
  BY NowIs
<1> HIDE DEF s
<1>5. instruction.pending # None =>
        maintenance = None /\ call.op \notin {"clean", "discard"}
  <2>1. instruction.pending # None => maintenance = None
    <3>1. PendingOK(Instruction(None))
      BY <1>3 DEF GoodInstruction, InstructionStruct, Bank
    <3> QED BY <3>1, InstructionIs DEF PendingOK
  <2> QED BY <1>1, <2>1 DEF MustWait
<1>6. latest \in [Words -> Values] /\ CallOK(call, foreign)
  BY <1>3, GoodIs
<1>7. ASSUME NEW N, NEW G, Attempted(o, s, call, latest, foreign, N, G), o.answer # "Ok",
             instruction.pending # None => o.s.maintenance = None
      PROVE  CacheInv'
  <2>1. o.answer = "Busy" /\ Good(o.s, call, latest, foreign) /\ o.s.config = config
    BY <1>4, <1>7 DEF Attempted
  <2>2. Assigned(o)
    BY <1>2 DEF s
  <2> HIDE DEF o
  <2>3. /\ call' = call /\ instruction' = instruction /\ foreign' = foreign
    BY <1>7, <2>2 DEF Assigned
  <2>4. latest' = latest
    <3>1. latest' = [w \in Words |-> latest[w]]
      BY <1>7, <2>2 DEF Assigned
    <3> QED BY <1>6, <3>1
  <2> QED BY <1>4, <1>7, <2>1, <2>2, <2>3, <2>4, AttemptKept DEF Attempted
<1>8. ASSUME Attempted(o, s, call, latest, foreign, latest, foreign), o.answer = "Ok",
             call.op \in {"load", "clean"}, instruction.pending # None => o.s.maintenance = None
      PROVE  CacheInv'
  <2>1. Good(o.s, None, latest, foreign) /\ o.s.config = config
    BY <1>4, <1>8 DEF Attempted
  <2>2. Assigned(o)
    BY <1>2 DEF s
  <2> HIDE DEF o
  <2>3. /\ call' = None /\ instruction' = instruction /\ foreign' = foreign
    BY <1>8, <2>2 DEF Assigned, InstructionAfter
  <2>4. latest' = latest
    <3>1. latest' = [w \in Words |-> latest[w]]
      BY <1>8, <2>2 DEF Assigned
    <3> QED BY <1>6, <3>1
  <2> QED BY <1>1, <1>4, <1>8, <2>1, <2>2, <2>3, <2>4, AttemptKept DEF Attempted
<1>9. CASE call.op = "load"
  <2>1. o = Load(s, call.word)
    BY <1>9 DEF Do
  <2>2. Attempted(o, s, call, latest, foreign, latest, foreign) /\ o.s.maintenance = s.maintenance
    BY <1>1, <1>3, <1>4, <1>9, <2>1, LoadIs
  <2> HIDE DEF o
  <2> QED BY <1>4, <1>5, <1>7, <1>8, <1>9, <2>2
<1>10. CASE call.op = "clean"
  <2>1. o = WriteBackRange(s, call.start, call.len)
    BY <1>10 DEF Do
  <2>2. Attempted(o, s, call, latest, foreign, latest, foreign)
    BY <1>1, <1>3, <1>4, <1>10, <2>1, WriteBackRangeIs
  <2> HIDE DEF o
  <2> QED BY <1>5, <1>7, <1>8, <1>10, <2>2
<1>11. CASE call.op = "store"
  <2> DEFINE N == [latest EXCEPT ![call.word] = call.value]
  <2>1. o = Store(s, call.word, call.value)
    BY <1>11 DEF Do
  <2>2. Attempted(o, s, call, latest, foreign, N, foreign) /\ o.s.maintenance = s.maintenance
    BY <1>1, <1>3, <1>4, <1>11, <2>1, StoreIs
  <2>3. Assigned(o)
    BY <1>2 DEF s
  <2>4. N = [latest EXCEPT ![call.word] = call.value]
    OBVIOUS
  <2> HIDE DEF o, N
  <2>5. ASSUME o.answer = "Ok" PROVE CacheInv'
    <3>1. Good(o.s, None, N, foreign) /\ o.s.config = config
      BY <1>4, <2>2, <2>5 DEF Attempted
    <3> QED BY <1>1, <1>4, <1>11, <2>2, <2>3, <2>4, <2>5, <3>1, AttemptStored DEF Attempted
  <2> QED BY <1>4, <1>5, <1>7, <2>2, <2>5
<1>12. CASE call.op = "discard"
  <2> DEFINE N == [w \in Words |-> IF LineOf(w) \in LinesIn(call) THEN mem[w] ELSE latest[w]]
             G == foreign \ LinesIn(call)
  <2>1. o = InvalidateRange(s, call.start, call.len)
    BY <1>12 DEF Do
  <2>2. /\ Attempted(o, s, call, latest, foreign, N, G)
        /\ o.s.maintenance = None /\ o.s.mem = s.mem
    BY <1>1, <1>3, <1>4, <1>12, <2>1, InvalidateRangeIs
  <2>3. Assigned(o)
    BY <1>2 DEF s
  <2>4. /\ N = [w \in Words |-> IF LineOf(w) \in LinesIn(call) THEN mem[w] ELSE latest[w]]
        /\ G = foreign \ LinesIn(call)
    OBVIOUS
  <2> HIDE DEF o, N, G
  <2>5. ASSUME o.answer = "Ok" PROVE CacheInv'
    <3>1. Good(o.s, None, N, G) /\ o.s.config = config
      BY <1>4, <2>2, <2>5 DEF Attempted
    <3>2. instruction.pending = None
      BY <1>5, <1>12
    <3> QED BY <1>1, <1>4, <1>12, <2>2, <2>3, <2>4, <2>5, <3>1, <3>2, AttemptDiscarded
  <2> QED BY <1>7, <2>2, <2>5
<1>13. call.op \in {"load", "store", "clean", "discard"}
  BY <1>1, <1>6 DEF CallOK
<1> QED BY <1>9, <1>10, <1>11, <1>12, <1>13

LEMMA StutterInv == CacheInv /\ UNCHANGED splitVars => CacheInv'
PROOF
<1> SUFFICES ASSUME CacheInv, UNCHANGED splitVars PROVE CacheInv'
  OBVIOUS
<1>1. Good(Now(None), call, latest, foreign) /\ attempted \in BOOLEAN
  BY InvIs
<1> QED BY <1>1, IdleInv DEF splitVars, vars

LEMMA StepInv == CacheInv /\ [SplitNext]_splitVars => CacheInv'
PROOF
<1>1. CacheInv /\ SplitIssue => CacheInv'
  BY IssueInv
<1>2. CacheInv /\ SplitAttempt => CacheInv'
  BY AttemptInv
<1>3. CacheInv /\ (Wait \/ SplitAbandon \/ SplitDeviceWrite) => CacheInv'
  BY WaitInv, AbandonInv, DeviceWriteInv
<1>4. CacheInv /\ (IssueFetch \/ AttemptFetch \/ AbandonFetch) => CacheInv'
  BY IssueFetchInv, AttemptFetchInv, AbandonFetchInv
<1>5. CacheInv /\ (SplitTick \/ SplitReset) => CacheInv'
  BY TickInv, ResetInv
<1> QED BY <1>1, <1>2, <1>3, <1>4, <1>5, StutterInv DEF SplitNext

-----------------------------------------------------------------------------
(* What the invariant says in the terms of Cache and SplitL1.              *)

(* Only lines of cached_ranges are in a bank.                              *)
LEMMA UncachedNotHeld ==
  ASSUME NEW s, LinesOK(s), NEW line \in Nat, line \notin CachedLines
  PROVE  Held(s, line) = None
PROOF
<1> DEFINE c == s.config
           set == SetOf(c, line)
<1>1. c \in CacheConfig
  BY ConfigIs DEF LinesOK, LinesTyped
<1>2. set \in Sets(c) /\ LineForTag(c, set, TagOf(c, line)) = line
  BY <1>1, DecodeIs
<1>3. ASSUME NEW way \in Resident(s, line) PROVE FALSE
  <2>1. /\ way \in Ways(c) /\ s.sets[set].lines[way] # None
        /\ s.sets[set].lines[way].tag = TagOf(c, line)
    BY <1>3 DEF Resident
  <2> HIDE DEF set
  <2>2. LineForTag(c, set, s.sets[set].lines[way].tag) \in CachedLines
    BY <1>2, <2>1 DEF LinesOK, LinesApart
  <2> QED BY <1>2, <2>1, <2>2
<1>4. Resident(s, line) = {}
  BY <1>3
<1> QED BY <1>4 DEF Held

LEMMA VisibleIs ==
  ASSUME CacheInv, NEW w \in Words
  PROVE  Visible(w) = VisibleIn(Now(None), w)
PROOF
<1> DEFINE s == Now(None)
<1>1. LinesOK(s)
  BY InvIs, GoodIs
<1>2. s.pending = pending /\ s.mem = mem
  BY NowIs
<1>3. LineOf(w) \notin CachedLines => Held(s, LineOf(w)) = None
  BY <1>1, WordIs, UncachedNotHeld
<1> HIDE DEF s
<1> QED BY <1>2, <1>3 DEF Visible, VisibleIn, s

LEMMA TypeFromInv == CacheInv => SplitTypeOK
PROOF
<1> SUFFICES ASSUME CacheInv PROVE SplitTypeOK
  OBVIOUS
<1> DEFINE s == Now(None)
           t == Instruction(None)
<1>1. /\ Good(s, call, latest, foreign) /\ attempted \in BOOLEAN /\ BankRecord(instruction)
      /\ GoodInstruction(t, fetch, call, latest, foreign)
  BY InvIs
<1>2. /\ s.config = config /\ s.sets = sets /\ s.pending = pending /\ s.maintenance = maintenance
      /\ s.mem = mem /\ s.burst = burst /\ s.access = access
  BY NowIs
<1>3. /\ t.config = config /\ t.sets = instruction.sets /\ t.pending = instruction.pending
      /\ t.burst = instruction.burst
  BY InstructionIs
<1> HIDE DEF s, t
<1>4. TypeOK
  <2>1. /\ LinesOK(s) /\ PendingOK(s) /\ BurstOK(s) /\ s.mem \in [Words -> Values]
        /\ CallOK(call, foreign) /\ MaintenanceOK(s, call) /\ AccessOK(s, call)
        /\ latest \in [Words -> Values]
    BY <1>1, GoodIs
  <2>2. /\ config \in Configs /\ sets \in BankType(config)
        /\ \A set \in Sets(config) : IsInjective(sets[set].last_used)
    BY <1>2, <2>1 DEF LinesOK, LinesTyped
  <2>3. pending \in PendingLineOp \cup {None}
    BY <1>2, <2>1 DEF PendingOK
  <2>4. maintenance \in Seq(0 .. LineCount) \cup {None}
    BY <1>2, <2>1 DEF MaintenanceOK
  <2>5. burst \in Bursts \cup {None} /\ access \in Accesses \cup {None}
    BY <1>2, <2>1 DEF BurstOK, AccessOK
  <2>6. foreign \subseteq 0 .. (LineCount - 1)
    BY <2>1 DEF CallOK
  <2> QED BY <1>1, <1>2, <2>1, <2>2, <2>3, <2>4, <2>5, <2>6 DEF TypeOK
<1>5. Bank(t) /\ InstructionStruct(t, fetch, foreign) /\ LinesOK(t)
  BY <1>1 DEF GoodInstruction, InstructionStruct, Bank
<1>6. instruction \in [sets : BankType(config), pending : PendingLineOp \cup {None},
                       burst : Bursts \cup {None}]
  <2>1. instruction.sets \in BankType(config)
    BY <1>3, <1>5 DEF LinesOK, LinesTyped
  <2>2. instruction.pending \in PendingLineOp \cup {None}
    BY <1>3, <1>5 DEF Bank, PendingOK
  <2>3. instruction.burst \in Bursts \cup {None}
    BY <1>3, <1>5 DEF Bank, BurstOK
  <2> QED BY <1>1, <2>1, <2>2, <2>3 DEF BankRecord
<1>7. ASSUME NEW set \in Sets(config), NEW way \in Ways(config),
             instruction.sets[set].lines[way] # None
      PROVE  ~instruction.sets[set].lines[way].dirty
  <2> DEFINE x == t.sets[set].lines[way]
             line == LineForTag(t.config, set, x.tag)
  <2>1. line \in CachedLines /\ Held(t, line) = x /\ x # None
    BY <1>3, <1>5, <1>7, HeldAt
  <2>2. ~IsDirty(t, line)
    BY <1>5, <2>1 DEF InstructionStruct
  <2> HIDE DEF line
  <2> QED BY <1>3, <2>1, <2>2 DEF IsDirty
<1>8. instruction.burst # None => instruction.pending # None
  BY <1>3, <1>5 DEF InstructionStruct
<1>9. fetch # None => fetch.word \in Fetches /\ fetch.older \in 0 .. OlderAccesses
  BY <1>5 DEF InstructionStruct
<1> QED BY <1>4, <1>6, <1>7, <1>8, <1>9 DEF SplitTypeOK

LEMMA SingleFromInv == CacheInv => SingleCopy
PROOF
<1> SUFFICES ASSUME CacheInv PROVE SingleCopy
  OBVIOUS
<1> DEFINE s == Now(None)
<1>1. LinesOK(s) /\ PendingOK(s)
  BY InvIs, GoodIs
<1>2. s.config = config /\ s.sets = sets /\ s.pending = pending
  BY NowIs
<1> HIDE DEF s
<1>3. \A line \in CachedLines : \A a, b \in Resident(s, line) : a = b
  BY <1>1, HeldIs
<1>4. ASSUME pending # None
      PROVE  /\ Resident(s, pending.line) = {}
             /\ sets[SetOf(config, pending.line)].lines[pending.way] = None
             /\ pending.write_back # None => Resident(s, pending.write_back.line) = {}
  <2>1. pending \in PendingLineOp /\ Held(s, pending.line) = None
    BY <1>1, <1>2, <1>4 DEF PendingOK
  <2>2. pending.line \in CachedLines
    BY <2>1 DEF PendingLineOp
  <2>3. Resident(s, pending.line) = {}
    BY <1>1, <2>1, <2>2, HeldIs
  <2>4. sets[SetOf(config, pending.line)].lines[pending.way] = None
    BY <1>1, <1>2, <1>4 DEF PendingOK
  <2>5. ASSUME pending.write_back # None PROVE Resident(s, pending.write_back.line) = {}
    <3>1. pending.write_back.line \in CachedLines
      BY <2>1, <2>5 DEF PendingLineOp, PendingWriteBack
    <3>2. Held(s, pending.write_back.line) = None
      BY <1>1, <1>2, <1>4, <2>5 DEF PendingOK
    <3> QED BY <1>1, <3>1, <3>2, HeldIs
  <2> QED BY <2>3, <2>4, <2>5
<1> QED BY <1>3, <1>4 DEF SingleCopy, s

LEMMA CoherentFromInv == Reliable /\ CacheInv => Coherent
PROOF
<1> SUFFICES ASSUME Reliable, CacheInv, NEW w \in Words
             PROVE  IF LineOf(w) \in foreign THEN mem[w] = latest[w]
                    ELSE \/ Visible(w) = latest[w]
                         \/ Storing(w) /\ Visible(w) = call.value
  BY DEF Coherent
<1>1. WordData(Now(None), call, latest, foreign)
  BY InvIs, GoodIs DEF Data
<1>2. Now(None).mem = mem /\ Visible(w) = VisibleIn(Now(None), w)
  BY NowIs, VisibleIs
<1>3. Storing(w) <=> StoringBy(call, w)
  BY DEF Storing, StoringBy
<1>4. LineOf(w) \in foreign => mem[w] = latest[w]
  BY <1>1, <1>2 DEF WordData
<1>5. LineOf(w) \notin foreign => \/ Visible(w) = latest[w]
                                  \/ Storing(w) /\ Visible(w) = call.value
  BY <1>1, <1>2, <1>3 DEF WordData
<1> QED BY <1>4, <1>5

LEMMA CleanFromInv == Reliable /\ CacheInv => CleanLinesMatchMemory
PROOF
<1> SUFFICES ASSUME Reliable, CacheInv PROVE CleanLinesMatchMemory
  OBVIOUS
<1> DEFINE s == Now(None)
<1>1. LinesOK(s) /\ DirtyOK(s, foreign) /\ CleanData(s, call, foreign)
  BY InvIs, GoodIs DEF Data
<1>2. s.config = config /\ s.sets = sets /\ s.mem = mem
  BY NowIs
<1> HIDE DEF s
<1>3. ASSUME NEW set \in Sets(config), NEW way \in Ways(config), sets[set].lines[way] # None
      PROVE  LET held == sets[set].lines[way]
                 line == LineForTag(config, set, held.tag)
             IN  /\ held.dirty => config.write_back
                 /\ ~held.dirty /\ line \notin foreign =>
                      \A n \in Offsets : \/ held.words[n] = mem[line * LineWords + n]
                                         \/ Storing(line * LineWords + n)
  <2> DEFINE held == sets[set].lines[way]
             line == LineForTag(config, set, held.tag)
  <2>1. line \in CachedLines /\ Held(s, line) = held /\ held # None
    BY <1>1, <1>2, <1>3, HeldAt
  <2> HIDE DEF held, line
  <2>2. held.dirty => config.write_back
    BY <1>1, <1>2, <2>1 DEF DirtyOK
  <2>3. ASSUME ~held.dirty, line \notin foreign, NEW n \in Offsets
        PROVE  held.words[n] = mem[line * LineWords + n] \/ Storing(line * LineWords + n)
    <3> DEFINE w == line * LineWords + n
    <3>1. line \in 0 .. (LineCount - 1)
      BY <2>1, CacheAssumption
    <3>2. w \in Words /\ LineOf(w) = line /\ Offset(w) = n
      BY <3>1, WordAt
    <3> HIDE DEF w
    <3>3. held.words[n] = mem[w] \/ StoringBy(call, w)
      BY <1>1, <1>2, <2>1, <2>3, <3>2 DEF CleanData
    <3> QED BY <3>3 DEF w, Storing, StoringBy
  <2> QED BY <2>2, <2>3 DEF held, line
<1> QED BY <1>3 DEF CleanLinesMatchMemory

LEMMA InstructionsFromInv == Reliable /\ CacheInv => InstructionsFollowStores
PROOF
<1> SUFFICES ASSUME Reliable, CacheInv PROVE InstructionsFollowStores
  OBVIOUS
<1> DEFINE t == Instruction(None)
<1>1. LinesOK(t) /\ InstructionData(t, fetch, call, latest, foreign)
  BY InvIs DEF GoodInstruction, InstructionStruct, Bank
<1>2. t.config = config /\ t.sets = instruction.sets
  BY InstructionIs
<1> HIDE DEF t
<1>3. ASSUME NEW set \in Sets(config), NEW way \in Ways(config),
             instruction.sets[set].lines[way] # None
      PROVE  LET held == instruction.sets[set].lines[way]
                 line == LineForTag(config, set, held.tag)
             IN  line \notin foreign =>
                   \A n \in Offsets : LET w == line * LineWords + n
                                      IN  held.words[n] = latest[w] \/ Storing(w)
  <2> DEFINE held == instruction.sets[set].lines[way]
             line == LineForTag(config, set, held.tag)
  <2>1. line \in CachedLines /\ Held(t, line) = held /\ held # None
    BY <1>1, <1>2, <1>3, HeldAt
  <2> HIDE DEF held, line
  <2>2. ASSUME line \notin foreign, NEW n \in Offsets
        PROVE  held.words[n] = latest[line * LineWords + n] \/ Storing(line * LineWords + n)
    <3> DEFINE w == line * LineWords + n
    <3>1. line \in 0 .. (LineCount - 1)
      BY <2>1, CacheAssumption
    <3>2. w \in Words /\ LineOf(w) = line /\ Offset(w) = n
      BY <3>1, WordAt
    <3> HIDE DEF w
    <3>3. held.words[n] = latest[w] \/ StoringBy(call, w)
      BY <1>1, <2>1, <2>2, <3>2 DEF InstructionData
    <3> QED BY <3>3 DEF w, Storing, StoringBy
  <2> QED BY <2>2 DEF held, line
<1> QED BY <1>3 DEF InstructionsFollowStores

(* A step that ends a write_back_range.                                    *)
LEMMA CleanStep ==
  ASSUME Reliable, CacheInv, [SplitNext]_splitVars, call # None, call.op = "clean", call' = None
  PROVE  \A w \in Words : LineOf(w) \in LinesIn(call) => mem'[w] = latest'[w]
PROOF
<1>1. CASE SplitAttempt
  <2>1. PICK weather \in Weathers : Assigned(Do(call, Now(weather)))
    BY <1>1, AttemptIs
  <2> DEFINE s == Now(weather)
             o == Do(call, s)
  <2>2. Good(s, call, latest, foreign) /\ s.weather = weather
    BY InvIs, NowIs
  <2> HIDE DEF s
  <2>3. o = WriteBackRange(s, call.start, call.len)
    BY DEF Do
  <2>4. o.answer = "Ok" => \A w \in Words : LineOf(w) \in LinesIn(call) => o.s.mem[w] = latest[w]
    BY <2>2, <2>3, WriteBackRangeIs
  <2>5. Assigned(o)
    BY <2>1 DEF s
  <2> HIDE DEF o
  <2>6. o.answer = "Ok" /\ mem' = o.s.mem
    BY <2>5 DEF Assigned
  <2>7. latest' = [w \in Words |-> latest[w]]
    BY <2>5, <2>6 DEF Assigned
  <2> QED BY <2>4, <2>6, <2>7
<1>2. CASE SplitReset
  BY <1>2 DEF SplitReset, Reset
<1>3. CASE SplitAbandon
  BY <1>3 DEF SplitAbandon, Abandon
<1>4. CASE SplitIssue \/ Wait \/ SplitDeviceWrite
  BY <1>4 DEF SplitIssue, Issue, Wait, SplitDeviceWrite, DeviceWrite
<1>5. CASE IssueFetch \/ AttemptFetch \/ AbandonFetch \/ UNCHANGED splitVars
  BY <1>5 DEF IssueFetch, AttemptFetch, AbandonFetch, splitVars, vars
<1>6. CASE SplitTick
  BY <1>6 DEF SplitTick, Advance
<1> QED BY <1>1, <1>2, <1>3, <1>4, <1>5, <1>6 DEF SplitNext

-----------------------------------------------------------------------------
(* The inductive invariant holds in every reachable state.                 *)
THEOREM InvariantHolds == SplitSpec => []CacheInv
  BY InitInv, StepInv, PTL DEF SplitSpec

(* The state of both banks, their bursts, the polled access, a maintenance *)
(* request and the callers stays well typed, and instruction lines are     *)
(* never dirty (cache.rs CacheBank, SplitL1Cache).                         *)
THEOREM TypeCorrect == SplitSpec => []SplitTypeOK
  BY InvariantHolds, TypeFromInv, PTL

(* A line is in at most one place, whatever the lower bus answers          *)
(* (CacheBank::lookup_way, start_pending, continue_pending).               *)
THEOREM OneCopyOfALine == SplitSpec => []SingleCopy
  BY InvariantHolds, SingleFromInv, PTL

(* No store is lost or undone in the cache, on its way out of it or below  *)
(* it, over a lower bus that takes every request (CacheBank::store,        *)
(* start_pending, continue_pending, continue_write_back_range,             *)
(* invalidate_range).                                                      *)
THEOREM StoresAreKept ==
  ASSUME Reliable
  PROVE  SplitSpec => []Coherent
PROOF
<1>1. CacheInv => Coherent
  BY CoherentFromInv
<1> QED BY <1>1, InvariantHolds, PTL

(* A line that is dropped without a write-back equals the lower level, and *)
(* write-through lines are never dirty (CacheBank::start_pending,          *)
(* update_cached_store).                                                   *)
THEOREM DirtyBitIsTrue ==
  ASSUME Reliable
  PROVE  SplitSpec => []CleanLinesMatchMemory
PROOF
<1>1. CacheInv => CleanLinesMatchMemory
  BY CleanFromInv
<1> QED BY <1>1, InvariantHolds, PTL

(* No instruction outlives a store to its line: what the instruction bank  *)
(* has of it, installed or still being read, is forgotten with the store   *)
(* (SplitL1Cache::store8, store16, store32, CacheBank::invalidate_line).   *)
THEOREM FetchesSeeStores ==
  ASSUME Reliable
  PROVE  SplitSpec => []InstructionsFollowStores
PROOF
<1>1. CacheInv => InstructionsFollowStores
  BY InstructionsFromInv
<1> QED BY <1>1, InvariantHolds, PTL

(* When write_back_range answers Ok, its range has reached the lower level *)
(* (CacheBank::write_back_range, continue_write_back_range).               *)
THEOREM CleaningCompletes ==
  ASSUME Reliable
  PROVE  SplitSpec => CleanReachesMemory
PROOF
<1>1. CacheInv /\ [SplitNext]_splitVars =>
        [call # None /\ call.op = "clean" /\ call' = None =>
           \A w \in Words : LineOf(w) \in LinesIn(call) => mem'[w] = latest'[w]]_vars
  BY CleanStep
<1> QED BY <1>1, InvariantHolds, PTL DEF SplitSpec, CleanReachesMemory
=============================================================================
