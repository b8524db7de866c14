------------------------------ MODULE SplitL1 ------------------------------
(***************************************************************************)
(* SplitL1Cache: the bank of Cache holds the data, and a second bank holds *)
(* instructions.  Both are over one lower bus, which carries a burst of    *)
(* each.  Stores and maintenance go to the data bank and drop what the     *)
(* instruction bank has of the line; fetches go to the instruction bank    *)
(* and never look at the data bank.                                        *)
(*                                                                         *)
(* With config.split the caller of Cache is the core's load/store side,    *)
(* and a second caller fetches; without it the fetch side stays idle and   *)
(* the behaviours are those of Cache.                                      *)
(***************************************************************************)
EXTENDS Cache

CONSTANTS
  Fetches,        \* words of cached lines that the core fetches
  SplitWords,     \* bound: words that are loaded or stored when there are two banks
  OlderAccesses   \* accesses that the instructions older than a fetch may still make

ASSUME FetchesAssumption ==
  /\ \A w \in Fetches : LineOf(w) \in CachedLines
  /\ OlderAccesses \in Nat

VARIABLES
  instruction,  \* the instruction bank and its burst: [sets, pending, burst]
  fetch         \* what the core is fetching: None or [word, older, attempted]

splitVars == <<vars, instruction, fetch>>

EmptyBank(c) == [sets |-> EmptySets(c), pending |-> None, burst |-> None]

(* The instruction bank as the operators of Cache take a bank.             *)
Instruction(weather) ==
  [config |-> config, sets |-> instruction.sets, pending |-> instruction.pending,
   maintenance |-> maintenance, mem |-> mem, burst |-> instruction.burst, access |-> access,
   weather |-> weather]

(* invalidate_line: a pending refill of the line is forgotten.  The code   *)
(* leaves its burst with the lower bus, where nobody will take the         *)
(* response; since nothing can see it there, the model forgets it too.     *)
Dropped(bank, gone) == [bank EXCEPT !.sets = Invalidated(config, @, gone)]

InvalidateLineKeepingPending(bank, line) == Dropped(bank, {line})

InvalidateLine(bank, line) ==
  IF bank.pending # None /\ bank.pending.line = line
  THEN Dropped([bank EXCEPT !.pending = None, !.burst = None], {line})
  ELSE Dropped(bank, {line})

SplitInit == Init /\ instruction = EmptyBank(config) /\ fetch = None

-----------------------------------------------------------------------------
(* The load/store side.                                                    *)

InMemory(line) == \A w \in Words : LineOf(w) = line => mem[w] = latest[w] /\ ~Storing(w)

(* While a fetch is unanswered, accesses come from the instructions that   *)
(* are in the pipeline.  Over a write-back data bank software cleans a     *)
(* line before it fetches from it, and does not store to a line that is    *)
(* being fetched.                                                          *)
SplitIssue ==
  /\ Issue
  /\ config.split /\ call'.op \in {"load", "store"} => call'.word \in SplitWords
  /\ config.write_back /\ fetch # None /\ call'.op = "store" =>
       LineOf(call'.word) # LineOf(fetch.word)
  /\ IF fetch = None THEN UNCHANGED fetch
     ELSE fetch.older > 0 /\ fetch' = [fetch EXCEPT !.older = @ - 1]
  /\ UNCHANGED instruction

(* ensure_maintenance_request waits for both banks.                        *)
MustWait == call.op \in {"clean", "discard"} /\ maintenance = None /\ instruction.pending # None

Wait ==
  /\ call # None /\ ~attempted /\ MustWait
  /\ attempted' = TRUE
  /\ UNCHANGED <<config, sets, pending, maintenance, mem, burst, access, call, latest, foreign,
                 instruction, fetch>>

(* What the instruction bank keeps when the call has been answered Ok.     *)
InstructionAfter ==
  CASE call.op = "store" -> InvalidateLine(instruction, LineOf(call.word))
    [] call.op = "discard" ->
         Dropped(instruction, Range(LineBasesForRange(call.start, call.len)))
    [] call.op \in {"load", "clean"} -> instruction

SplitAttempt ==
  /\ Attempt
  /\ ~MustWait
  /\ instruction' = IF call' = None THEN InstructionAfter ELSE instruction
  /\ UNCHANGED fetch

SplitAbandon == Abandon /\ UNCHANGED <<instruction, fetch>>

SplitDeviceWrite ==
  /\ DeviceWrite
  /\ fetch # None => LineOf(fetch.word) \notin foreign'
  /\ UNCHANGED <<instruction, fetch>>

-----------------------------------------------------------------------------
(* The fetch side.                                                         *)

IssueFetch ==
  /\ config.split
  /\ fetch = None
  /\ \E w \in Fetches :
       /\ LineOf(w) \notin foreign
       /\ config.write_back => InMemory(LineOf(w))
       /\ fetch' = [word |-> w, older |-> OlderAccesses, attempted |-> FALSE]
  /\ UNCHANGED <<vars, instruction>>

AttemptFetch ==
  /\ fetch # None
  /\ ~fetch.attempted
  /\ \E weather \in Weathers : \E outcome \in {Load(Instruction(weather), fetch.word)} :
       /\ instruction' = [sets |-> outcome.s.sets, pending |-> outcome.s.pending,
                          burst |-> outcome.s.burst]
       /\ fetch' = IF outcome.answer = "Ok" THEN None ELSE [fetch EXCEPT !.attempted = TRUE]
  /\ UNCHANGED vars

(* The core is redirected while the fetch is answered Busy.                *)
AbandonFetch ==
  /\ fetch # None
  /\ fetch.word \in MayAbandon
  /\ instruction.pending # None
  /\ fetch' = None
  /\ UNCHANGED <<vars, instruction>>

-----------------------------------------------------------------------------
(* A cycle of the lower bus: of what ends in it, a refill may be first or  *)
(* last.                                                                   *)
SplitTick ==
  /\ \/ burst # None \/ access # None \/ attempted
     \/ instruction.burst # None
     \/ fetch # None /\ fetch.attempted
  /\ Advance
  /\ LET read == instruction.burst
     IN  IF read # None /\ read.left = 1
         THEN \E m \in {mem, mem'} :
                instruction' = [instruction EXCEPT !.burst.left = 0,
                                                   !.burst.words = Carried(m, read)]
         ELSE instruction' = [instruction EXCEPT !.burst = Ticked(@)]
  /\ fetch' = IF fetch = None THEN None ELSE [fetch EXCEPT !.attempted = FALSE]

SplitReset == Reset /\ instruction' = EmptyBank(config) /\ fetch' = None

SplitNext ==
  \/ SplitIssue \/ SplitAttempt \/ Wait \/ SplitAbandon \/ SplitDeviceWrite
  \/ IssueFetch \/ AttemptFetch \/ AbandonFetch
  \/ SplitTick \/ SplitReset

(* Both sides make their attempt in every cycle, and the clock runs.       *)
SplitFairness ==
  /\ []<>(call = None \/ attempted)
  /\ []<>(fetch = None \/ fetch.attempted)
  /\ WF_splitVars(SplitTick)

SplitSpec == SplitInit /\ [][SplitNext]_splitVars /\ SplitFairness

-----------------------------------------------------------------------------
(* The types of the variables.  Instruction lines are never dirty.         *)
SplitTypeOK ==
  /\ TypeOK
  /\ instruction \in [sets : BankType(config), pending : PendingLineOp \cup {None},
                      burst : Bursts \cup {None}]
  /\ \A set \in Sets(config), way \in Ways(config) :
       LET held == instruction.sets[set].lines[way]
       IN  held # None => ~held.dirty
  /\ instruction.burst # None => instruction.pending # None
  /\ fetch # None => fetch.word \in Fetches /\ fetch.older \in 0 .. OlderAccesses

(* No instruction outlives a store to its line: whatever the order of      *)
(* fetches, refills, stores and maintenance, a line of the instruction     *)
(* bank holds what was last stored, so a refill that was read before a     *)
(* store is never installed after it (SplitL1Cache::store8, store16,       *)
(* store32 and CacheBank::invalidate_line).  Over a write-back data bank   *)
(* this needs the cleaning that SplitIssue and IssueFetch ask of software. *)
InstructionsFollowStores ==
  \A set \in Sets(config), way \in Ways(config) :
    instruction.sets[set].lines[way] # None =>
      LET held == instruction.sets[set].lines[way]
          line == LineForTag(config, set, held.tag)
      IN  line \notin foreign =>
            \A n \in Offsets : LET w == line * LineWords + n
                               IN  held.words[n] = latest[w] \/ Storing(w)

(* A caller waits for a refill that only an abandoned one would continue.  *)
SplitBlocked ==
  \/ BlockedByAbandoned
  \/ instruction.pending # None /\ (fetch # None => LineOf(fetch.word) # instruction.pending.line)

(* Every access, fetch and maintenance request is answered in the end, if  *)
(* its caller repeats it while it is answered Busy, the clock runs, and no *)
(* abandoned refill is in the way.                                         *)
SplitAccessCompletes ==
  /\ call # None ~> (call = None \/ SplitBlocked)
  /\ fetch # None ~> (fetch = None \/ SplitBlocked)
=============================================================================
