------------------------------- MODULE Cache -------------------------------
(***************************************************************************)
(* DirectMappedCache and its CacheBank over a lower bus, for one caller    *)
(* that repeats each access while it is answered Busy, and a bus master    *)
(* that writes memory behind the cache.                                    *)
(*                                                                         *)
(* Addresses count words.  A way is None (not valid) or a record [dirty,   *)
(* tag, words].  last_used is kept as a rank: the ways of a set are        *)
(* numbered from the least to the most recently touched.                   *)
(*                                                                         *)
(* The lower bus (an arbiter over a memory map, or another cache) holds    *)
(* the words, one burst of the cache and one polled single access.  It     *)
(* performs an accepted request when its latency has passed.  When it      *)
(* refuses, it answers Busy to a new request (ArbiterBus::ensure_cpu_slot, *)
(* or submit_burst of a cache that is busy).  A burst it has accepted does *)
(* not fail: cached lines are memory that can be read and written, so the  *)
(* Failed branch of drive_burst_until_blocked is not reached.              *)
(***************************************************************************)
EXTENDS Naturals, Sequences, Functions

CONSTANTS
  None,
  LineCount,     \* lines of the address space; line n is words n*LineWords ...
  LineWords,     \* line_size in words
  CachedLines,   \* lines inside cached_ranges
  Configs,       \* the configurations a behaviour may have
  Latencies,     \* cycles the lower bus may take, 0: at once
  MayRefuse,     \* may the lower bus be refusing
  MayAbandon,    \* words of cached lines whose loads the caller may give up
  Loads,         \* words the caller loads
  Stores,        \* [word, value] the caller stores
  Cleans,        \* [start, len] the caller passes to write_back_range
  Discards,      \* [start, len] the caller passes to invalidate_range
  DeviceWrites   \* [word, value] a bus master writes

Words == 0 .. (LineCount * LineWords - 1)
Offsets == 0 .. (LineWords - 1)
Values == {0} \cup {st.value : st \in Stores \cup DeviceWrites}

CacheConfig ==
  [set_count : Nat \ {0}, way_count : Nat \ {0}, write_back : BOOLEAN,
   write_allocate : BOOLEAN, lru : BOOLEAN, split : BOOLEAN]

LineData == [Offsets -> Values]
CacheLine == [dirty : BOOLEAN, tag : 0 .. (LineCount - 1), words : LineData]
PendingWriteBack == [line : CachedLines, words : LineData]
PendingLineOp == [line : CachedLines, way : Nat, write_back : PendingWriteBack \cup {None}]
Bursts == [kind : {"read", "write"}, line : CachedLines, words : LineData \cup {None}, left : Nat]
Accesses == [kind : {"load", "store"}, word : Words, value : Values \cup {None}, left : Nat]

ASSUME CacheAssumption ==
  /\ LineCount \in Nat \ {0} /\ LineWords \in Nat \ {0}
  /\ CachedLines \subseteq 0 .. (LineCount - 1)
  /\ Configs \subseteq CacheConfig
  /\ Latencies \subseteq Nat /\ Latencies # {}
  /\ MayRefuse \in BOOLEAN /\ MayAbandon \subseteq Loads
  /\ Loads \subseteq Words
  /\ \A st \in Stores \cup DeviceWrites : st.word \in Words /\ st.value \in Nat
  /\ \A r \in Cleans \cup Discards :
       r.start \in Nat /\ r.len \in Nat /\ r.start + r.len <= LineCount * LineWords

ASSUME NoneAssumption ==
  /\ None \notin Nat /\ None \notin Seq(0 .. LineCount)
  /\ None \notin CacheLine /\ None \notin PendingWriteBack /\ None \notin PendingLineOp
  /\ None \notin Bursts /\ None \notin Accesses

VARIABLES
  config,       \* fixed
  sets,         \* [lines, next_victim, last_used] of each set
  pending,      \* PendingLineOp: None or [line, way, write_back]
  maintenance,  \* None, or the lines a write_back_range has left, the active one first
  mem,          \* the words of the lower level
  burst,        \* its burst: None or [kind, line, words, left]
  access,       \* its polled access: None or [kind, word, value, left]
  call,         \* what the caller is trying to do, or None
  attempted,    \* has it been answered Busy in this cycle
  latest,       \* ghost: the value last stored to each word
  foreign       \* ghost: lines a bus master wrote and the caller has not discarded

vars == <<config, sets, pending, maintenance, mem, burst, access, call, attempted,
          latest, foreign>>

Sets(c) == 0 .. (c.set_count - 1)
Ways(c) == 0 .. (c.way_count - 1)

-----------------------------------------------------------------------------
(* decode and its inverse.                                                 *)
LineOf(w) == w \div LineWords
Offset(w) == w % LineWords
SetOf(c, line) == line % c.set_count
TagOf(c, line) == line \div c.set_count
LineForTag(c, set, tag) == tag * c.set_count + set

(* line_bases_for_range: lines are taken up to the first whose base is not *)
(* below the end of the range.                                             *)
LineBasesForRange(start, len) ==
  LET first == LineOf(start)
      last  == (start + len + LineWords - 1) \div LineWords
  IN  IF len = 0 THEN << >> ELSE [i \in 1 .. (last - first + 1) |-> first + i - 1]

(* What the operators below work on: the bank, the lower level, and what   *)
(* the lower level answers to a new read or write now: its latency, or     *)
(* None if it refuses.                                                     *)
Now(weather) ==
  [config |-> config, sets |-> sets, pending |-> pending, maintenance |-> maintenance,
   mem |-> mem, burst |-> burst, access |-> access, weather |-> weather]

Weathers ==
  [{"read", "write"} -> Latencies \cup (IF MayRefuse THEN {None} ELSE {})]

Outcome(answer, s) == [answer |-> answer, s |-> s]

Resident(s, line) ==
  LET lines == s.sets[SetOf(s.config, line)].lines
  IN  {way \in Ways(s.config) : lines[way] # None /\ lines[way].tag = TagOf(s.config, line)}

(* lookup_way: the first matching way.                                     *)
LookupWay(s, line) == CHOOSE way \in Resident(s, line) : \A o \in Resident(s, line) : way <= o

(* The line that lookup_way finds, or None.                                *)
Held(s, line) ==
  IF Resident(s, line) = {} THEN None
  ELSE s.sets[SetOf(s.config, line)].lines[LookupWay(s, line)]

TouchLine(s, set, way) ==
  LET Rank(o, last_used) ==
        IF o = way THEN s.config.way_count - 1
        ELSE IF last_used[o] > last_used[way] THEN last_used[o] - 1 ELSE last_used[o]
  IN  [s EXCEPT !.sets[set].last_used = [o \in Ways(s.config) |-> Rank(o, @)]]

-----------------------------------------------------------------------------
(* The lower bus.                                                          *)

(* Its words after a burst or an access has been performed.                *)
Perform(m, request) ==
  CASE request.kind = "write" ->
         [w \in Words |-> IF LineOf(w) = request.line THEN request.words[Offset(w)] ELSE m[w]]
    [] request.kind = "store" -> [m EXCEPT ![request.word] = request.value]
    [] request.kind \in {"read", "load"} -> m

(* The words a finished burst carries: a read has what it found.           *)
Carried(m, request) ==
  IF request.kind = "read" THEN [n \in Offsets |-> m[request.line * LineWords + n]]
  ELSE request.words

(* drive_burst_until_blocked: a burst that is not sent yet is submitted,   *)
(* one that is sent is taken once it is ready.                             *)
DriveBurst(s, kind, line, words) ==
  LET latency == s.weather[kind]
      request == [kind |-> kind, line |-> line, words |-> words, left |-> latency]
  IN  CASE s.burst # None /\ s.burst.left > 0 -> Outcome("Busy", s)
        [] s.burst # None /\ s.burst.left = 0 ->
             [answer |-> "Ready", s |-> [s EXCEPT !.burst = None], words |-> s.burst.words]
        [] s.burst = None /\ latency = None -> Outcome("Refused", s)
        [] s.burst = None /\ latency = 0 ->
             [answer |-> "Ready", s |-> [s EXCEPT !.mem = Perform(@, request)],
              words |-> Carried(s.mem, request)]
        [] s.burst = None /\ latency \notin {None, 0} ->
             Outcome("Busy", [s EXCEPT !.burst = request])

(* A single access of the lower bus, polled until it is performed.         *)
LowerAccess(s, kind, word, value) ==
  LET latency == s.weather[IF kind = "load" THEN "read" ELSE "write"]
      request == [kind |-> kind, word |-> word, value |-> value, left |-> latency]
  IN  CASE latency = None -> Outcome("Busy", s)
        [] latency # None /\ s.access = None ->
             IF latency = 0 THEN Outcome("Ok", [s EXCEPT !.mem = Perform(@, request)])
             ELSE Outcome("Busy", [s EXCEPT !.access = request])
        [] latency # None /\ s.access # None ->
             IF s.access.left = 0 THEN Outcome("Ok", [s EXCEPT !.access = None])
             ELSE Outcome("Busy", s)

-----------------------------------------------------------------------------
(* Misses.                                                                 *)

(* select_victim: a way that is not valid, else by the policy.             *)
SelectVictim(s, set) ==
  LET ways == Ways(s.config)
      lines == s.sets[set].lines
      last_used == s.sets[set].last_used
      invalid == {way \in ways : lines[way] = None}
  IN  IF invalid # {} THEN CHOOSE way \in invalid : \A o \in invalid : way <= o
      ELSE IF s.config.lru THEN CHOOSE way \in ways : \A o \in ways : last_used[way] <= last_used[o]
      ELSE s.sets[set].next_victim

NextVictimUnwrapped(c, way) == way + 1

NextVictim(c, way) == (way + 1) % c.way_count

NeedsWriteBack(c, victim) == victim # None /\ c.write_back /\ victim.dirty

(* start_pending: the victim is invalid at once; its dirty words are only  *)
(* in the pending write-back from here on.                                 *)
StartPendingKeepingVictim(s, line) ==
  [s EXCEPT !.pending = [line |-> line, way |-> SelectVictim(s, SetOf(s.config, line)),
                         write_back |-> None]]

StartPendingForgettingDirty(s, line) ==
  LET set == SetOf(s.config, line)
      way == SelectVictim(s, set)
  IN  [s EXCEPT !.sets[set].lines[way] = None,
                !.pending = [line |-> line, way |-> way, write_back |-> None]]

StartPending(s, line) ==
  LET set == SetOf(s.config, line)
      way == SelectVictim(s, set)
      victim == s.sets[set].lines[way]
  IN  [s EXCEPT
         !.sets[set] = [lines |-> [@.lines EXCEPT ![way] = None],
                        next_victim |-> IF s.config.lru THEN @.next_victim
                                        ELSE NextVictim(s.config, way),
                        last_used |-> @.last_used],
         !.pending = [line |-> line, way |-> way,
                      write_back |-> IF NeedsWriteBack(s.config, victim)
                                     THEN [line |-> LineForTag(s.config, set, victim.tag),
                                           words |-> victim.words]
                                     ELSE None]]

(* The refilled line takes its way.                                        *)
Install(s, words) ==
  LET set == SetOf(s.config, s.pending.line)
      way == s.pending.way
      line == [dirty |-> FALSE, tag |-> TagOf(s.config, s.pending.line), words |-> words]
  IN  TouchLine([s EXCEPT !.sets[set].lines[way] = line, !.pending = None], set, way)

(* progress_write_back and progress_refill of a pending operation.  It was *)
(* taken out of the bank, and goes back only when the burst is in flight.  *)
Progress(s, kind, line, words) ==
  LET drive == DriveBurst(s, kind, line, words)
  IN  IF drive.answer = "Refused" THEN Outcome("Busy", [s EXCEPT !.pending = None]) ELSE drive

ContinuePending(s) ==
  LET victim  == s.pending.write_back
      drained == IF victim = None THEN Outcome("Ready", s)
                 ELSE Progress(s, "write", victim.line, victim.words)
      filled  == Progress([drained.s EXCEPT !.pending.write_back = None],
                          "read", s.pending.line, None)
  IN  CASE drained.answer = "Busy" -> drained
        [] drained.answer = "Ready" /\ filled.answer = "Busy" -> filled
        [] drained.answer = "Ready" /\ filled.answer = "Ready" ->
             Outcome("Ok", Install(filled.s, filled.words))

(* The prologue of ensure_line and of store.                               *)
Resume(s, line) ==
  CASE s.pending = None -> Outcome("Ok", s)
    [] s.pending # None /\ s.pending.line # line -> Outcome("Busy", s)
    [] s.pending # None /\ s.pending.line = line -> ContinuePending(s)

EnsureLine(s, line) ==
  LET resumed == Resume(s, line)
  IN  IF resumed.answer = "Ok" /\ Resident(resumed.s, line) = {}
      THEN ContinuePending(StartPending(resumed.s, line))
      ELSE resumed

-----------------------------------------------------------------------------
(* The operations of the cache.                                            *)

(* load8 ... fetch32: a cached word is read from its line.                 *)
Load(s, w) ==
  LET line == LineOf(w)
      found == EnsureLine(s, line)
  IN  CASE s.maintenance # None -> Outcome("Busy", s)
        [] s.maintenance = None /\ line \notin CachedLines -> LowerAccess(s, "load", w, None)
        [] s.maintenance = None /\ line \in CachedLines ->
             IF found.answer # "Ok" THEN found
             ELSE Outcome("Ok", TouchLine(found.s, SetOf(s.config, line), LookupWay(found.s, line)))

UpdateCachedStore(s, w, value, dirty) ==
  LET set == SetOf(s.config, LineOf(w))
      way == LookupWay(s, LineOf(w))
      line == [dirty |-> dirty, tag |-> TagOf(s.config, LineOf(w)),
               words |-> [Held(s, LineOf(w)).words EXCEPT ![Offset(w)] = value]]
  IN  TouchLine([s EXCEPT !.sets[set].lines[way] = line], set, way)

(* A store to a line that is in the cache.                                 *)
StoreHitClean(s, w, value) == Outcome("Ok", UpdateCachedStore(s, w, value, FALSE))

StoreHit(s, w, value) ==
  LET committed == LowerAccess(s, "store", w, value)
  IN  CASE s.config.write_back -> Outcome("Ok", UpdateCachedStore(s, w, value, TRUE))
        [] ~s.config.write_back /\ committed.answer # "Ok" -> committed
        [] ~s.config.write_back /\ committed.answer = "Ok" ->
             Outcome("Ok", UpdateCachedStore(committed.s, w, value, FALSE))

Store(s, w, value) ==
  LET line == LineOf(w)
      found == IF s.config.write_allocate THEN EnsureLine(s, line) ELSE Resume(s, line)
  IN  CASE s.maintenance # None -> Outcome("Busy", s)
        [] s.maintenance = None /\ line \notin CachedLines -> LowerAccess(s, "store", w, value)
        [] s.maintenance = None /\ line \in CachedLines ->
             IF found.answer # "Ok" THEN found
             ELSE IF Resident(found.s, line) # {} THEN StoreHit(found.s, w, value)
             ELSE LowerAccess(found.s, "store", w, value)

(* One round of continue_write_back_range.                                 *)
WriteBackLineDropped(acc, line) ==
  [acc EXCEPT !.left = IF acc.answer = "Busy" THEN Append(@, line) ELSE @]

WriteBackLine(acc, line) ==
  LET s == acc.s
      held == Held(s, line)
      dirty == line \in CachedLines /\ held # None /\ held.dirty
      drive == DriveBurst(s, "write", line, held.words)
      cleaned == [drive.s EXCEPT
                    !.sets[SetOf(s.config, line)].lines[LookupWay(s, line)].dirty = FALSE]
  IN  CASE acc.answer = "Busy" -> [acc EXCEPT !.left = Append(@, line)]
        [] acc.answer = "Ok" /\ ~dirty -> acc
        [] acc.answer = "Ok" /\ dirty ->
             IF drive.answer = "Ready" THEN [acc EXCEPT !.s = cleaned]
             ELSE [answer |-> "Busy", s |-> drive.s, left |-> <<line>>]

(* write_back_range: the lines left are kept while a burst is on its way   *)
(* or cannot be submitted.                                                 *)
WriteBackLines(s, lines) ==
  LET done[n \in 0 .. Len(lines)] ==
        IF n = 0 THEN [answer |-> "Ok", s |-> s, left |-> << >>]
        ELSE WriteBackLine(done[n - 1], lines[n])
  IN  done[Len(lines)]

WriteBackRangeOnce(s, start, len) ==
  LET done == WriteBackLines(s, LineBasesForRange(start, len))
  IN  IF s.maintenance # None \/ s.pending # None THEN Outcome("Busy", s)
      ELSE Outcome(done.answer,
                   [done.s EXCEPT !.maintenance = IF done.answer = "Ok" THEN None ELSE done.left])

WriteBackRange(s, start, len) ==
  LET lines == IF s.maintenance = None THEN LineBasesForRange(start, len) ELSE s.maintenance
      done  == WriteBackLines(s, lines)
  IN  IF s.maintenance = None /\ s.pending # None THEN Outcome("Busy", s)
      ELSE Outcome(done.answer,
                   [done.s EXCEPT !.maintenance = IF done.answer = "Ok" THEN None ELSE done.left])

(* The sets of a bank without the lines gone.                              *)
Invalidated(c, bank, gone) ==
  LET Gone(set, held) == held # None /\ LineForTag(c, set, held.tag) \in gone \cap CachedLines
  IN  [set \in Sets(c) |->
         [bank[set] EXCEPT
            !.lines = [way \in Ways(c) |-> IF Gone(set, @[way]) THEN None ELSE @[way]]]]

(* invalidate_range.                                                       *)
InvalidateRange(s, start, len) ==
  IF s.maintenance # None \/ s.pending # None THEN Outcome("Busy", s)
  ELSE Outcome("Ok", [s EXCEPT !.sets = Invalidated(s.config, @, Range(LineBasesForRange(start, len)))])

Do(c, s) ==
  CASE c.op = "load" -> Load(s, c.word)
    [] c.op = "store" -> Store(s, c.word, c.value)
    [] c.op = "clean" -> WriteBackRange(s, c.start, c.len)
    [] c.op = "discard" -> InvalidateRange(s, c.start, c.len)

-----------------------------------------------------------------------------
(* The caller, the bus master and the clock.                               *)

EmptySet(c) ==
  [lines |-> [way \in Ways(c) |-> None], next_victim |-> 0, last_used |-> [way \in Ways(c) |-> way]]

EmptySets(c) == [set \in Sets(c) |-> EmptySet(c)]

Init ==
  /\ config \in Configs
  /\ sets = EmptySets(config)
  /\ pending = None
  /\ maintenance = None
  /\ mem = [w \in Words |-> 0]
  /\ burst = None
  /\ access = None
  /\ call = None
  /\ attempted = FALSE
  /\ latest = mem
  /\ foreign = {}

LinesIn(range) == {LineOf(w) : w \in range.start .. (range.start + range.len - 1)}

Calls ==
  {[op |-> "load", word |-> w] : w \in {v \in Loads : LineOf(v) \notin foreign}}
  \cup {[op |-> "store", word |-> st.word, value |-> st.value] :
          st \in {r \in Stores : LineOf(r.word) \notin foreign}}
  \cup {[op |-> "clean", start |-> r.start, len |-> r.len] : r \in Cleans}
  \cup {[op |-> "discard", start |-> r.start, len |-> r.len] : r \in Discards}

(* Software leaves the lines that a bus master owns alone until it has     *)
(* discarded them.                                                         *)
Issue ==
  /\ call = None
  /\ call' \in Calls
  /\ UNCHANGED <<config, sets, pending, maintenance, mem, burst, access, attempted,
                 latest, foreign>>

(* One attempt at the current call, once a cycle; a store counts when it   *)
(* is answered Ok, and a discard gives up what was stored in its range.    *)
Attempt ==
  /\ call # None
  /\ ~attempted
  /\ \E weather \in Weathers : \E outcome \in {Do(call, Now(weather))} :
       LET s == outcome.s
           ok == outcome.answer = "Ok"
       IN  /\ sets' = s.sets
           /\ pending' = s.pending
           /\ maintenance' = s.maintenance
           /\ mem' = s.mem
           /\ burst' = s.burst
           /\ access' = s.access
           /\ call' = IF ok THEN None ELSE call
           /\ attempted' = ~ok
           /\ latest' = [w \in Words |->
                IF ok /\ call.op = "store" /\ call.word = w THEN call.value
                ELSE IF ok /\ call.op = "discard" /\ LineOf(w) \in LinesIn(call)
                THEN s.mem[w] ELSE latest[w]]
           /\ foreign' = IF ok /\ call.op = "discard" THEN foreign \ LinesIn(call) ELSE foreign
  /\ UNCHANGED config

(* The core is redirected while a load of a cached line is answered Busy.  *)
Abandon ==
  /\ call # None
  /\ call.op = "load" /\ call.word \in MayAbandon
  /\ LineOf(call.word) \in CachedLines
  /\ pending # None
  /\ call' = None
  /\ attempted' = FALSE
  /\ UNCHANGED <<config, sets, pending, maintenance, mem, burst, access, latest, foreign>>

(* A bus master writes a word of a line of which software has cleaned the  *)
(* cached copy.                                                            *)
DeviceWrite ==
  /\ call = None
  /\ \E st \in DeviceWrites :
       /\ Held(Now(None), LineOf(st.word)) # None => ~Held(Now(None), LineOf(st.word)).dirty
       /\ pending # None /\ pending.write_back # None =>
            pending.write_back.line # LineOf(st.word)
       /\ mem' = [mem EXCEPT ![st.word] = st.value]
       /\ latest' = [latest EXCEPT ![st.word] = st.value]
       /\ foreign' = foreign \cup {LineOf(st.word)}
  /\ UNCHANGED <<config, sets, pending, maintenance, burst, access, call, attempted>>

(* One cycle of the lower bus.                                             *)
Ticked(request) == IF request = None \/ request.left = 0 THEN request
                   ELSE [request EXCEPT !.left = @ - 1]

AfterTick(m, request) ==
  IF request # None /\ request.left = 1 THEN Perform(m, request) ELSE m

Advance ==
  /\ attempted' = FALSE
  /\ burst' = IF burst # None /\ burst.left = 1
              THEN [burst EXCEPT !.left = 0, !.words = Carried(mem, burst)]
              ELSE Ticked(burst)
  /\ access' = Ticked(access)
  /\ mem' = AfterTick(AfterTick(mem, burst), access)
  /\ UNCHANGED <<config, sets, pending, maintenance, call, latest, foreign>>

Tick == (burst # None \/ access # None \/ attempted) /\ Advance

(* The cache and everything below it are reset.                            *)
Reset ==
  /\ sets' = EmptySets(config)
  /\ pending' = None
  /\ maintenance' = None
  /\ mem' = [w \in Words |-> 0]
  /\ burst' = None
  /\ access' = None
  /\ call' = None
  /\ attempted' = FALSE
  /\ latest' = [w \in Words |-> 0]
  /\ foreign' = {}
  /\ UNCHANGED config

Next == Issue \/ Attempt \/ Abandon \/ DeviceWrite \/ Tick \/ Reset

(* A caller makes its attempt in every cycle, and the clock runs.  Only an *)
(* attempt can leave call # None /\ ~attempted, so the first conjunct is    *)
(* weak fairness of Attempt.                                               *)
Fairness == []<>(call = None \/ attempted) /\ WF_vars(Tick)

Spec == Init /\ [][Next]_vars /\ Fairness

-----------------------------------------------------------------------------
BankType(c) ==
  [Sets(c) -> [lines : [Ways(c) -> CacheLine \cup {None}], next_victim : Ways(c),
               last_used : [Ways(c) -> Ways(c)]]]

(* The types of the variables; no two ways of a set are equally recent.    *)
TypeOK ==
  /\ config \in Configs
  /\ sets \in BankType(config)
  /\ \A set \in Sets(config) : IsInjective(sets[set].last_used)
  /\ pending \in PendingLineOp \cup {None}
  /\ maintenance \in Seq(0 .. LineCount) \cup {None}
  /\ mem \in [Words -> Values] /\ latest \in [Words -> Values]
  /\ burst \in Bursts \cup {None}
  /\ access \in Accesses \cup {None}
  /\ attempted \in BOOLEAN
  /\ foreign \subseteq 0 .. (LineCount - 1)

(* What a load would find: the cached copy, the copy of a victim on its    *)
(* way out, or the lower level.                                            *)
Visible(w) ==
  LET line == LineOf(w)
      held == Held(Now(None), line)
  IN  IF held # None THEN held.words[Offset(w)]
      ELSE IF pending # None /\ pending.write_back # None /\ pending.write_back.line = line
      THEN pending.write_back.words[Offset(w)]
      ELSE mem[w]

Storing(w) == call # None /\ call.op = "store" /\ call.word = w

(* No store is lost or undone: every word reads as it was last stored,     *)
(* through hits, evictions, refills and cache maintenance, in the cache,   *)
(* on its way out of it, or below it (CacheBank::store, start_pending,     *)
(* continue_pending).  A store that is still being tried may have been     *)
(* performed; lines that a bus master wrote are never written over by a    *)
(* stale copy.                                                             *)
Coherent ==
  \A w \in Words :
    IF LineOf(w) \in foreign THEN mem[w] = latest[w]
    ELSE \/ Visible(w) = latest[w]
         \/ Storing(w) /\ Visible(w) = call.value

(* A line is in at most one place: in one way, or being refilled into a    *)
(* way that is free, or on its way out (lookup_way takes the first match,  *)
(* so a second copy would go stale unseen).                                *)
SingleCopy ==
  /\ \A line \in CachedLines : \A a, b \in Resident(Now(None), line) : a = b
  /\ pending # None =>
       /\ Resident(Now(None), pending.line) = {}
       /\ sets[SetOf(config, pending.line)].lines[pending.way] = None
       /\ pending.write_back # None => Resident(Now(None), pending.write_back.line) = {}

(* The dirty bit never lies: a line that is not dirty, and so is dropped   *)
(* without a write-back, equals the lower level word for word, unless a    *)
(* bus master wrote there or the store being tried has been performed      *)
(* below; write-through lines are never dirty.                             *)
CleanLinesMatchMemory ==
  \A set \in Sets(config), way \in Ways(config) :
    sets[set].lines[way] # None =>
      LET held == sets[set].lines[way]
          line == LineForTag(config, set, held.tag)
      IN  /\ held.dirty => config.write_back
          /\ ~held.dirty /\ line \notin foreign =>
               \A n \in Offsets : \/ held.words[n] = mem[line * LineWords + n]
                                  \/ Storing(line * LineWords + n)

(* When write_back_range answers Ok, every word of the range has reached   *)
(* the lower level, where a bus master will read it.                       *)
CleanReachesMemory ==
  [][call # None /\ call.op = "clean" /\ call' = None =>
       \A w \in Words : LineOf(w) \in LinesIn(call) => mem'[w] = latest'[w]]_vars

(* The caller waits for a line while the refill of another is pending that *)
(* only its own, abandoned caller would continue.                          *)
BlockedByAbandoned ==
  /\ pending # None
  /\ call # None /\ call.op \in {"load", "store"} => LineOf(call.word) # pending.line

(* Every access and every maintenance request is answered in the end, if   *)
(* the caller repeats it while it is answered Busy, the clock runs, and no *)
(* abandoned refill of another line is in the way.                         *)
AccessCompletes == call # None ~> (call = None \/ BlockedByAbandoned)

(* The same with nothing excepted: a caller that repeats an access is      *)
(* answered Busy only until the access completes.                          *)
BusyUntilComplete == call # None ~> call = None
=============================================================================
