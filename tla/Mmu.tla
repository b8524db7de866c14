-------------------------------- MODULE Mmu --------------------------------
(***************************************************************************)
(* The page walker and its TLB (cpu/src/mmu.rs).                           *)
(*                                                                         *)
(* A core presents one request at a time and repeats it until it is        *)
(* answered, but may turn to another one meanwhile: the pipeline's memory  *)
(* stage takes the walker over from its fetch stage.  The loop of          *)
(* translate is taken apart at its bus accesses: one action is one step of *)
(* the walk, and a call that makes several steps is several actions in a   *)
(* row.  An access may be held by the bus (Issue) before it is answered.   *)
(*                                                                         *)
(* Page tables are the function pt from <<table, index>> to entries        *)
(* [flags, ppn]; a page number is the pair <<ppn1, ppn0>>, and addresses   *)
(* are kept to the page.  Software changes entries with stores of the core *)
(* (CpuStore) and of the DMA engine (DmaStore), and fences.                *)
(***************************************************************************)
EXTENDS Sv32, Sequences

CONSTANTS
    Tables,          \* initial page tables: [slots -> entries]
    ReadOnlySlots,   \* slots that lie in ROM
    Workloads,       \* what software does: [requests, fences, cpu_stores, dma_stores]
    TlbEntryCount,   \* 8 in the code
    MaxStores        \* bound: stores to the tables in one behaviour

VARIABLES
    active,          \* the walk in progress, or None
    tlb,             \* [0..TlbEntryCount-1 -> entry or None]
    next_tlb_entry,
    bus,             \* the access the bus holds, or None
    pt,              \* the page tables in memory
    work,            \* the workload, which stays
    request,         \* what the core presents
    answer,          \* what the last step answered, or None
    stores,          \* how many stores were made
    written,         \* ghost: each slot as software last wrote it
    stale,           \* ghost: translations changed and not fenced since
    unseen           \* ghost: of those, changed by a store the core has not seen

\* A request is [satp, status, privilege, vpn, access] and a fence
\* [vpn, asid], of which either may be None; a store is <<slot, entry>>.
walker == <<active, tlb, next_tlb_entry>>
ghosts == <<stores, written, stale, unseen>>
vars == <<walker, bus, pt, work, request, answer, ghosts>>

Slots == DOMAIN Tables
Satps == {r.satp : r \in work.requests}
Vpns == {r.vpn : r \in work.requests}
NoTlb == [k \in 0..(TlbEntryCount - 1) |-> None]

\* satp holds the mode bit, the ASID and the root.
Pages == Nat \X Nat
SatpType == [mode : BOOLEAN, asid : Nat, root : Pages]
PteType == [flags : SUBSET PteFlags, ppn : Pages]
RequestType == [satp : SatpType, status : SUBSET Nat, privilege : PrivilegeMode,
                vpn : Pages, access : Accesses]
FenceType == [vpn : Pages \cup {None}, asid : Nat \cup {None}]

Translated(r) == r.privilege # Machine /\ r.satp.mode

ASSUME MmuAssumption ==
    /\ None \notin Pages
    /\ Slots \subseteq Pages \X Nat
    /\ Tables \in [Slots -> PteType]
    /\ ReadOnlySlots \subseteq Slots
    /\ TlbEntryCount \in Nat \ {0}
    /\ MaxStores \in Nat
    /\ \A w \in Workloads :
           /\ w.requests \subseteq RequestType
           /\ w.fences \subseteq FenceType
           /\ w.cpu_stores \cup w.dma_stores \subseteq Slots \X PteType

-----------------------------------------------------------------------------
(* Entries. *)

IsLeaf(flags) == flags \cap {"R", "X"} # {}
EntryInvalid(flags) == "V" \notin flags \/ ("R" \notin flags /\ "W" \in flags)
NonleafFlagsValid(flags) == flags \cap {"U", "A", "D"} = {}

AccessBitsFor(r) == {"A"} \cup (IF r.access = "Store" THEN {"D"} ELSE {})
NeedsAccessBitUpdate(r, flags) == ~(AccessBitsFor(r) \subseteq flags)

RootPteAddress(r) == <<r.satp.root, r.vpn[1]>>

\* What software keeps to.  The DMA engine stores no leaves: a walk that
\* writes A and D back would undo its store.
DmaKeepsToTables(w) ==
    /\ \A s \in w.dma_stores : ~IsLeaf(Tables[s[1]].flags)
    /\ \A s, d \in w.cpu_stores \cup w.dma_stores :
           d \in w.dma_stores /\ s[1] = d[1] => ~IsLeaf(s[2].flags)

\* Global mappings are marked at the root, in every address space alike, and
\* stay: an entry of the TLB made in one space answers in all of them, and a
\* fence for one space spares it.
GlobalSlots == {s \in Slots : "G" \in Tables[s].flags}
GlobalsAreShared(w) ==
    /\ \A s \in w.cpu_stores \cup w.dma_stores :
           s[1] \notin GlobalSlots /\ "G" \notin s[2].flags
    /\ \A s \in GlobalSlots :
           /\ ~IsLeaf(Tables[s].flags)
           /\ \A q, r \in {x \in w.requests : Translated(x)} :
                  q.satp.root = s[1] =>
                      /\ <<r.satp.root, s[2]>> \in Slots
                      /\ Tables[<<r.satp.root, s[2]>>] = Tables[s]

ASSUME SoftwareAssumption ==
    \A w \in Workloads : DmaKeepsToTables(w) /\ GlobalsAreShared(w)

\* The page a leaf maps the request to; a misaligned superpage maps nothing.
TranslateLeaf(level, pte, vpn) ==
    IF level = 0 THEN pte.ppn
    ELSE IF pte.ppn[2] # 0 THEN None ELSE <<pte.ppn[1], vpn[2]>>

PageAddress(page) == [kind |-> "address", page |-> page]
Fault(kind) == [kind |-> kind, page |-> None]

-----------------------------------------------------------------------------
(* The TLB.  base is the virtual page of an entry, of which a superpage    *)
(* keeps the upper index only.                                             *)

Base(level, vpn) == IF level = 1 THEN <<vpn[1], 0>> ELSE vpn

Matches(e, r) ==
    /\ e.global_mapping \/ e.satp = r.satp
    /\ Base(e.level, r.vpn) = e.base

EntryTranslate(e, r) == IF e.level = 1 THEN <<e.page[1], r.vpn[2]>> ELSE e.page

\* The first entry that matches, permits and needs no update of the access
\* bits; a page fault if one matched that does not permit; else None.
LookupTlb(r) ==
    LET Match == {k \in DOMAIN tlb : tlb[k] # None /\ Matches(tlb[k], r)}
        Usable == {k \in Match : /\ PermissionsAllow(r, tlb[k].flags)
                                 /\ ~NeedsAccessBitUpdate(r, tlb[k].flags)}
    IN  CASE Usable # {} -> PageAddress(EntryTranslate(tlb[Min(Usable)], r))
          [] Usable = {} /\ (\E k \in Match : ~PermissionsAllow(r, tlb[k].flags)) ->
                 Fault("PageFault")
          [] OTHER -> None

InsertTlbUnwrapped(walk, flags, page) ==
    /\ next_tlb_entry' = next_tlb_entry + 1
    /\ UNCHANGED tlb

InsertTlb(walk, flags, page) ==
    /\ tlb' = [tlb EXCEPT ![next_tlb_entry] =
                  [satp |-> walk.request.satp, base |-> Base(walk.level, walk.request.vpn),
                   page |-> IF walk.level = 1 THEN <<page[1], 0>> ELSE page,
                   level |-> walk.level, flags |-> flags,
                   global_mapping |-> walk.global_mapping \/ "G" \in flags]]
    /\ next_tlb_entry' = (next_tlb_entry + 1) % TlbEntryCount

\* A fence for one ASID spares the global entries.
FenceMatches(f, e) ==
    /\ f.asid # None => ~e.global_mapping /\ e.satp.asid = f.asid
    /\ f.vpn # None => Base(e.level, f.vpn) = e.base

-----------------------------------------------------------------------------
(* Ghosts: which translations of (satp, vpn) a change of a slot touches.   *)

\* Whether a slot leads to a table of the next level.
PointsDown(t, slot) ==
    slot \in Slots /\ ~EntryInvalid(t[slot].flags) /\ ~IsLeaf(t[slot].flags)

\* The slots a walk reads with tables t.
Path(t, satp, vpn) ==
    LET root == <<satp.root, vpn[1]>>
    IN  {root} \cup (IF PointsDown(t, root) THEN {<<t[root].ppn, vpn[2]>>} ELSE {})

Touched(slot, t, u) ==
    {p \in Satps \X Vpns : slot \in Path(t, p[1], p[2]) \cup Path(u, p[1], p[2])}

\* Whether some table on the path marks the translation global.
Global(t, p) == \E s \in Path(t, p[1], p[2]) \cap Slots : "G" \in t[s].flags

Fenced(f) ==
    {p \in stale \ unseen :
        /\ f.asid # None => ~Global(pt, p) /\ p[1].asid = f.asid
        /\ f.vpn # None => p[2] = f.vpn}

-----------------------------------------------------------------------------
(* The walk. *)

Init ==
    /\ active = None
    /\ tlb = NoTlb
    /\ next_tlb_entry = 0
    /\ bus = None
    /\ pt = Tables
    /\ work \in Workloads
    /\ request \in work.requests
    /\ answer = None
    /\ stores = 0
    /\ written = Tables
    /\ stale = {}
    /\ unseen = {}

\* The core turns to another request.
Turn(r) ==
    /\ r # request
    /\ request' = r
    /\ answer' = None
    /\ UNCHANGED <<walker, bus, pt, ghosts>>

\* A data access that is answered with an address is made at once, so the
\* core has seen what the DMA engine stored before.
Answer(result) ==
    /\ answer' = result
    /\ unseen' = IF result.kind = "address" /\ request.access # "Instruction"
                 THEN {} ELSE unseen
    /\ UNCHANGED <<request, stores, written, stale>>

NoAnswer == answer' = None /\ UNCHANGED <<request, ghosts>>

BypassUndrained ==
    /\ ~Translated(request)
    /\ Answer(PageAddress(request.vpn))
    /\ UNCHANGED <<walker, bus, pt>>

\* Translation off: the address passes through, once any walk is drained.
Bypass ==
    /\ active = None
    /\ ~Translated(request)
    /\ Answer(PageAddress(request.vpn))
    /\ UNCHANGED <<walker, bus, pt>>

Hit ==
    /\ active = None
    /\ Translated(request)
    /\ LookupTlb(request) # None
    /\ Answer(LookupTlb(request))
    /\ UNCHANGED <<walker, bus, pt>>

StartWalkOver ==
    /\ IF active = None THEN TRUE ELSE active.request # request
    /\ Translated(request)
    /\ LookupTlb(request) = None
    /\ active' = [request |-> request, level |-> 1, pte_address |-> RootPteAddress(request),
                  global_mapping |-> FALSE, phase |-> "ReadPte", page |-> None, value |-> None]
    /\ NoAnswer
    /\ UNCHANGED <<tlb, next_tlb_entry, bus, pt>>

StartWalk ==
    /\ active = None
    /\ Translated(request)
    /\ LookupTlb(request) = None
    /\ active' = [request |-> request, level |-> 1, pte_address |-> RootPteAddress(request),
                  global_mapping |-> FALSE, phase |-> "ReadPte", page |-> None, value |-> None]
    /\ NoAnswer
    /\ UNCHANGED <<tlb, next_tlb_entry, bus, pt>>

\* The access the walk makes next.
NextAccess(walk) ==
    [op |-> IF walk.phase = "ReadPte" THEN "load" ELSE "store",
     slot |-> walk.pte_address, value |-> walk.value]

\* A walk goes on for its own request, and is drained for any other.
Draining == active.request # request

\* The bus holds the access.
Issue ==
    /\ active # None
    /\ bus = None
    /\ active.pte_address \in Slots
    /\ bus' = NextAccess(active)
    /\ NoAnswer
    /\ UNCHANGED <<walker, pt>>

\* The bus answers the access of the walk: at once or as the one it held.
Accepted == active # None /\ bus \in {None, NextAccess(active)}

EndWalkForAnyRequest(result) == active' = None /\ bus' = None /\ Answer(result)

EndWalkKeepingDrained(result) ==
    /\ active' = IF Draining THEN active ELSE None
    /\ bus' = None
    /\ IF Draining THEN NoAnswer ELSE Answer(result)

EndWalk(result) ==
    /\ active' = None
    /\ bus' = None
    /\ IF Draining THEN NoAnswer ELSE Answer(result)

FailedWalk(result) == EndWalk(result) /\ UNCHANGED <<tlb, next_tlb_entry, pt>>

FinishWalk(flags, page) ==
    /\ EndWalk(PageAddress(page))
    /\ IF Draining THEN UNCHANGED <<tlb, next_tlb_entry>> ELSE InsertTlb(active, flags, page)

\* Read an entry: fault, go down a level, finish, or go on to set A and D.
ReadPte ==
    LET r == active.request
        pte == pt[active.pte_address]
        page == TranslateLeaf(active.level, pte, r.vpn)
        Bad == \/ EntryInvalid(pte.flags)
               \/ IsLeaf(pte.flags) /\ (page = None \/ ~PermissionsAllow(r, pte.flags))
               \/ ~IsLeaf(pte.flags) /\ (~NonleafFlagsValid(pte.flags) \/ active.level = 0)
    IN  /\ Accepted
        /\ active.phase = "ReadPte"
        /\ \/ active.pte_address \notin Slots /\ FailedWalk(Fault("AccessFault"))
           \/ active.pte_address \in Slots /\ Bad /\ FailedWalk(Fault("PageFault"))
           \/ /\ active.pte_address \in Slots /\ ~Bad
              /\ IsLeaf(pte.flags)
              /\ IF NeedsAccessBitUpdate(r, pte.flags)
                 THEN /\ active' = [active EXCEPT
                             !.phase = "WriteLeaf", !.page = page,
                             !.value = [pte EXCEPT !.flags = @ \cup AccessBitsFor(r)]]
                      /\ bus' = None
                      /\ NoAnswer
                      /\ UNCHANGED <<tlb, next_tlb_entry>>
                 ELSE FinishWalk(pte.flags, page)
              /\ UNCHANGED pt
           \/ /\ active.pte_address \in Slots /\ ~Bad
              /\ ~IsLeaf(pte.flags)
              /\ active' = [active EXCEPT !.level = 0, !.pte_address = <<pte.ppn, r.vpn[2]>>,
                                          !.global_mapping = @ \/ "G" \in pte.flags]
              /\ bus' = None
              /\ NoAnswer
              /\ UNCHANGED <<tlb, next_tlb_entry, pt>>

\* finish_leaf_update: store the entry with its access bits.
FinishLeafUpdate ==
    /\ Accepted
    /\ active.phase = "WriteLeaf"
    /\ \/ /\ active.pte_address \in ReadOnlySlots
          /\ FailedWalk(Fault("AccessFault"))
       \/ /\ active.pte_address \notin ReadOnlySlots
          /\ pt' = [pt EXCEPT ![active.pte_address] = active.value]
          /\ FinishWalk(active.value.flags, active.page)

\* flush_fence, whatever the walker is doing.
FlushFence(f) ==
    /\ tlb' = [k \in DOMAIN tlb |->
                  IF tlb[k] # None /\ FenceMatches(f, tlb[k]) THEN None ELSE tlb[k]]
    /\ stale' = stale \ Fenced(f)
    /\ answer' = None
    /\ UNCHANGED <<active, next_tlb_entry, bus, pt, request, stores, written, unseen>>

\* Reset of the machine, in the middle of a walk too: the core starts again
\* untranslated, and software builds its tables before it turns them on.
Reset ==
    /\ active' = None
    /\ tlb' = NoTlb
    /\ next_tlb_entry' = 0
    /\ bus' = None
    /\ answer' = None
    /\ request' \in {r \in work.requests : ~Translated(r)}
    /\ pt' = Tables
    /\ written' = Tables
    /\ stale' = {}
    /\ unseen' = {}
    /\ UNCHANGED stores

-----------------------------------------------------------------------------
(* Software. *)

Store(slot, pte) ==
    LET new == [pt EXCEPT ![slot] = pte]
    IN  /\ stores < MaxStores
        /\ stores' = stores + 1
        /\ pt' = new
        /\ written' = [written EXCEPT ![slot] = pte]
        /\ stale' = stale \cup Touched(slot, pt, new)
        /\ answer' = None

\* A store instruction: made in the cycle its translation is answered.
CpuStore ==
    /\ answer # None /\ answer.kind = "address" /\ request.access = "Store"
    /\ \E s \in work.cpu_stores : Store(s[1], s[2])
    /\ UNCHANGED <<walker, bus, request, unseen>>

\* The DMA engine stores at any time.
DmaStore ==
    \E s \in work.dma_stores :
        /\ Store(s[1], s[2])
        /\ unseen' = unseen \cup Touched(s[1], pt, [pt EXCEPT ![s[1]] = s[2]])
        /\ UNCHANGED <<walker, bus, request>>

Translate == Bypass \/ Hit \/ StartWalk \/ ReadPte \/ FinishLeafUpdate \/ Issue

Next ==
    /\ UNCHANGED work
    /\ \/ Translate
       \/ \E r \in work.requests : Turn(r)
       \/ \E f \in work.fences : FlushFence(f)
       \/ Reset
       \/ CpuStore
       \/ DmaStore

\* The core keeps calling translate, and the bus answers what it holds.
Spec == Init /\ [][Next]_vars /\ WF_vars(UNCHANGED work /\ Translate)

-----------------------------------------------------------------------------
(* What a request should be answered, from the tables t alone. *)

EntryResult(t, r, slot, level) ==
    LET flags == t[slot].flags
        page == TranslateLeaf(level, t[slot], r.vpn)
    IN  IF slot \notin Slots THEN Fault("AccessFault")
        ELSE IF \/ EntryInvalid(flags) \/ ~IsLeaf(flags)
                \/ page = None \/ ~PermissionsAllow(r, flags) THEN Fault("PageFault")
        ELSE IF NeedsAccessBitUpdate(r, flags) /\ slot \in ReadOnlySlots
             THEN Fault("AccessFault") ELSE PageAddress(page)

TableResult(t, r) ==
    LET root == RootPteAddress(r)
    IN  IF ~Translated(r) THEN PageAddress(r.vpn)
        ELSE IF ~PointsDown(t, root) THEN EntryResult(t, r, root, 1)
        ELSE IF ~NonleafFlagsValid(t[root].flags) THEN Fault("PageFault")
        ELSE EntryResult(t, r, <<t[root].ppn, r.vpn[2]>>, 0)

\* The leaf that translates the request says that it was used.
AccessRecorded(t, r) ==
    \E s \in Path(t, r.satp, r.vpn) :
        /\ IsLeaf(t[s].flags)
        /\ "A" \in t[s].flags
        /\ r.access = "Store" => "D" \in t[s].flags

-----------------------------------------------------------------------------
(* Properties. *)

WalkType ==
    [request : work.requests, level : {0, 1}, pte_address : Pages \X Nat,
     global_mapping : BOOLEAN, phase : {"ReadPte", "WriteLeaf"},
     page : Pages \cup {None}, value : PteType \cup {None}]

AccessType == [op : {"load", "store"}, slot : Pages \X Nat, value : PteType \cup {None}]

AnswerType == [kind : {"address", "PageFault", "AccessFault"}, page : Pages \cup {None}]

TlbEntryType ==
    [satp : Satps, base : Pages, page : Pages, level : {0, 1},
     flags : SUBSET PteFlags, global_mapping : BOOLEAN]

\* The walker stays well typed, and its ghosts stay in step.
TypeOK ==
    /\ work \in Workloads
    /\ request \in work.requests
    /\ active \in WalkType \cup {None}
    /\ tlb \in [0..(TlbEntryCount - 1) -> TlbEntryType \cup {None}]
    /\ next_tlb_entry \in 0..(TlbEntryCount - 1)
    /\ bus \in AccessType \cup {None}
    /\ answer \in AnswerType \cup {None}
    /\ pt \in [Slots -> PteType]
    /\ written \in [Slots -> PteType]
    /\ stale \subseteq Satps \X Vpns
    /\ unseen \subseteq stale
    /\ stores \in 0..MaxStores

\* Every answer is the one the page tables give, from the TLB or from a walk,
\* for the request presented and not one that was abandoned, unless software
\* changed the translation and has not fenced it since; a store that is let
\* through has left A and D in memory (mmu.rs translate, step, lookup_tlb).
AnswersFollowTables ==
    LET p == <<request.satp, request.vpn>>
    IN  answer # None /\ p \notin stale =>
            /\ answer = TableResult(pt, request)
            /\ Translated(request) /\ answer.kind = "address" => AccessRecorded(pt, request)

\* What software stored in the tables stays, but for the A and D bits the
\* walker adds: its read and its write-back of an entry have no store of the
\* core between them (mmu.rs finish_leaf_update, translate drains first).
StoresSurviveWalks ==
    \A s \in Slots :
        /\ pt[s].ppn = written[s].ppn
        /\ written[s].flags \subseteq pt[s].flags
        /\ pt[s].flags \ written[s].flags \subseteq {"A", "D"}

\* The access the bus holds is always the next one of the walk in progress:
\* no walk is dropped with an access in flight, which the bus would hold
\* against every later one (mmu.rs translate, the drain loop).
NoAccessAbandoned == bus # None => active # None /\ bus = NextAccess(active)

\* A core that goes on presenting one request is answered, even if the walker
\* has another walk to drain first and fences and stores go on (mmu.rs
\* translate: the loop ends).
RequestIsAnswered == <>[][request' = request]_vars => []<>(answer # None)
=============================================================================
