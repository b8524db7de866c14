----------------------------- MODULE MmuProofs -----------------------------
(***************************************************************************)
(* Safety of the page walker and its TLB for every page table, every set   *)
(* of requests, fences and stores that keeps to SoftwareAssumption, and    *)
(* every size of the TLB.                                                  *)
(***************************************************************************)
EXTENDS Mmu, TLAPS, WellFoundedInduction, NaturalsInduction

-----------------------------------------------------------------------------
(* The inductive invariant. *)

(* The core makes no store while a walk is in progress.                    *)
AnsweredIsIdle == answer # None => active = None

(* What the DMA engine stores to is never a leaf, and the marks of global  *)
(* mappings are the ones of the start.                                     *)
TablesOK ==
  /\ \A s \in work.dma_stores : ~IsLeaf(pt[s[1]].flags)
  /\ \A s \in GlobalSlots : pt[s] = Tables[s]
  /\ \A s \in Slots : "G" \in pt[s].flags => s \in GlobalSlots

(* A walk below the root got there by the entry that is in the root now,   *)
(* unless the DMA engine changed it behind the walk's back.                *)
BelowRoot(t, walk) ==
  LET root == RootPteAddress(walk.request)
  IN  /\ PointsDown(t, root)
      /\ NonleafFlagsValid(t[root].flags)
      /\ walk.pte_address = <<t[root].ppn, walk.request.vpn[2]>>
      /\ walk.global_mapping = ("G" \in t[root].flags)

(* What a walk is about to write is the entry as it stands, with the bits  *)
(* of the access added.                                                    *)
LeafToWrite(t, walk) ==
  LET slot == walk.pte_address
  IN  /\ slot \in Slots
      /\ ~EntryInvalid(t[slot].flags)
      /\ IsLeaf(t[slot].flags)
      /\ walk.page = TranslateLeaf(walk.level, t[slot], walk.request.vpn)
      /\ walk.page # None
      /\ PermissionsAllow(walk.request, t[slot].flags)
      /\ NeedsAccessBitUpdate(walk.request, t[slot].flags)
      /\ walk.value = [t[slot] EXCEPT !.flags = @ \cup AccessBitsFor(walk.request)]

Translation(r) == <<r.satp, r.vpn>>

WalkOK(walk) ==
  /\ Translated(walk.request)
  /\ walk.level = 1 =>
       walk.pte_address = RootPteAddress(walk.request) /\ ~walk.global_mapping
  /\ walk.level = 0 /\ (Translation(walk.request) \notin unseen \/ walk.global_mapping) =>
       BelowRoot(pt, walk)
  /\ walk.phase = "WriteLeaf" => LeafToWrite(pt, walk)

(* The slot holds the leaf an entry of the TLB was made of: only A and D   *)
(* may have been set since.                                                *)
HoldsLeaf(t, e, slot) ==
  /\ slot \in Slots
  /\ ~EntryInvalid(t[slot].flags)
  /\ IsLeaf(t[slot].flags)
  /\ e.flags \subseteq t[slot].flags
  /\ t[slot].flags \subseteq e.flags \cup {"A", "D"}
  /\ e.level = 0 => e.page = t[slot].ppn
  /\ e.level = 1 => t[slot].ppn[2] = 0 /\ e.page[1] = t[slot].ppn[1]

(* The tables translate the request by the leaf the entry was made of.     *)
Agrees(t, e, r) ==
  LET root == RootPteAddress(r)
  IN  IF e.level = 1 THEN HoldsLeaf(t, e, root)
      ELSE /\ PointsDown(t, root)
           /\ NonleafFlagsValid(t[root].flags)
           /\ HoldsLeaf(t, e, <<t[root].ppn, r.vpn[2]>>)

(* An entry agrees with the tables for every request it answers, unless    *)
(* software owes a fence for it; a global one is made of a global mapping. *)
EntryOK(e) ==
  /\ e.global_mapping => /\ e.level = 0
                         /\ <<e.satp.root, e.base[1]>> \in GlobalSlots
  /\ \E r \in work.requests : Translated(r) /\ e.satp = r.satp
  /\ \A r \in work.requests :
       Translated(r) /\ Translation(r) \notin stale /\ Matches(e, r) => Agrees(pt, e, r)

WalkerOK == active # None => WalkOK(active)
TlbOK == \A k \in DOMAIN tlb : tlb[k] # None => EntryOK(tlb[k])

Inv ==
  /\ TypeOK
  /\ AnsweredIsIdle
  /\ NoAccessAbandoned
  /\ TablesOK
  /\ StoresSurviveWalks
  /\ WalkerOK
  /\ TlbOK
  /\ AnswersFollowTables

-----------------------------------------------------------------------------
(* Entries and tables. *)

(* A non-empty set of positions of the TLB has a least one.                *)
LEMMA LeastPosition ==
  ASSUME NEW S \in SUBSET Nat, S # {}
  PROVE  Min(S) \in S
PROOF
<1> DEFINE R == OpToRel(<, Nat)
<1>1. IsWellFoundedOn(R, Nat)
  BY NatLessThanWellFounded
<1>2. PICK x \in S : \A y \in S : ~(<<y, x>> \in R)
  <2> HIDE DEF R
  <2> QED BY <1>1, WFMin
<1>3. \A y \in S : x <= y
  <2> SUFFICES ASSUME NEW y \in S, ~(x <= y) PROVE FALSE
    OBVIOUS
  <2>1. <<y, x>> \in R
    BY DEF OpToRel
  <2> QED BY <1>2, <2>1
<1> QED
  BY <1>3 DEF Min

(* The A and D bits decide neither validity, nor kind, nor permission.     *)
LEMMA AccessBitsDecideNothing ==
  ASSUME NEW f, NEW g, f \subseteq g, g \subseteq f \cup {"A", "D"}
  PROVE  /\ EntryInvalid(g) <=> EntryInvalid(f)
         /\ IsLeaf(g) <=> IsLeaf(f)
         /\ "G" \in g <=> "G" \in f
         /\ \A r \in RequestType : PermissionsAllow(r, g) <=> PermissionsAllow(r, f)
PROOF
<1>1. /\ "V" \in g <=> "V" \in f
      /\ "R" \in g <=> "R" \in f
      /\ "W" \in g <=> "W" \in f
      /\ "X" \in g <=> "X" \in f
      /\ "U" \in g <=> "U" \in f
      /\ "G" \in g <=> "G" \in f
  OBVIOUS
<1>2. IsLeaf(g) <=> IsLeaf(f)
  BY <1>1 DEF IsLeaf
<1>3. EntryInvalid(g) <=> EntryInvalid(f)
  BY <1>1 DEF EntryInvalid
<1>4. ASSUME NEW r \in RequestType
      PROVE  PermissionsAllow(r, g) <=> PermissionsAllow(r, f)
  <2>1. r.access \in {"Instruction", "Load", "Store"}
    BY DEF RequestType, Accesses
  <2> QED BY <1>1, <2>1 DEF PermissionsAllow
<1> QED BY <1>1, <1>2, <1>3, <1>4

(* Tables u are t, but for A and D set in leaves.                          *)
OnlyMarked(t, u) ==
  \A s \in Slots : /\ u[s].ppn = t[s].ppn
                   /\ t[s].flags \subseteq u[s].flags
                   /\ u[s].flags \subseteq t[s].flags \cup {"A", "D"}
                   /\ ~IsLeaf(t[s].flags) => u[s] = t[s]

(* An entry goes on agreeing with tables the walker only marked.           *)
LEMMA AgreesWhenMarked ==
  ASSUME NEW t, NEW u, OnlyMarked(t, u), NEW e, NEW r, Agrees(t, e, r)
  PROVE  Agrees(u, e, r)
PROOF
<1> DEFINE root == RootPteAddress(r)
<1>1. ASSUME NEW slot, HoldsLeaf(t, e, slot)
      PROVE  HoldsLeaf(u, e, slot)
  <2>1. /\ slot \in Slots
        /\ u[slot].ppn = t[slot].ppn
        /\ t[slot].flags \subseteq u[slot].flags
        /\ u[slot].flags \subseteq t[slot].flags \cup {"A", "D"}
    BY <1>1 DEF HoldsLeaf, OnlyMarked
  <2>2. /\ EntryInvalid(u[slot].flags) <=> EntryInvalid(t[slot].flags)
        /\ IsLeaf(u[slot].flags) <=> IsLeaf(t[slot].flags)
    BY <2>1, AccessBitsDecideNothing
  <2>3. /\ e.flags \subseteq u[slot].flags
        /\ u[slot].flags \subseteq e.flags \cup {"A", "D"}
    BY <1>1, <2>1 DEF HoldsLeaf
  <2> QED BY <1>1, <2>1, <2>2, <2>3 DEF HoldsLeaf
<1>2. CASE e.level = 1
  BY <1>1, <1>2 DEF Agrees
<1>3. CASE e.level # 1
  <2>1. PointsDown(t, root) /\ u[root] = t[root]
    BY <1>3 DEF Agrees, PointsDown, OnlyMarked
  <2> QED BY <1>1, <1>3, <2>1 DEF Agrees, PointsDown
<1> QED BY <1>2, <1>3

(* A store off the path of a request changes nothing of it.                *)
LEMMA StoreOffPath ==
  ASSUME NEW t, DOMAIN t = Slots, NEW slot, NEW pte, NEW r,
         slot \notin Path(t, r.satp, r.vpn)
  PROVE  LET u == [t EXCEPT ![slot] = pte]
         IN  /\ \A e : Agrees(t, e, r) => Agrees(u, e, r)
             /\ \A walk : walk.request = r /\ BelowRoot(t, walk) => BelowRoot(u, walk)
PROOF
<1> DEFINE u == [t EXCEPT ![slot] = pte]
           root == RootPteAddress(r)
<1>1. \A s \in Slots : s # slot => u[s] = t[s]
  OBVIOUS
<1> HIDE DEF u
<1>2. root # slot
  BY DEF Path, RootPteAddress
<1>3. PointsDown(t, root) => <<t[root].ppn, r.vpn[2]>> # slot
  BY DEF Path, RootPteAddress
<1>4. \A e, s : s # slot /\ HoldsLeaf(t, e, s) => HoldsLeaf(u, e, s)
  BY <1>1 DEF HoldsLeaf
<1>5. ASSUME PointsDown(t, root) PROVE PointsDown(u, root) /\ u[root] = t[root]
  BY <1>1, <1>2, <1>5 DEF PointsDown
<1>6. ASSUME NEW e, Agrees(t, e, r) PROVE Agrees(u, e, r)
  BY <1>2, <1>3, <1>4, <1>5, <1>6 DEF Agrees
<1>7. ASSUME NEW walk, walk.request = r, BelowRoot(t, walk) PROVE BelowRoot(u, walk)
  BY <1>2, <1>5, <1>7 DEF BelowRoot
<1> QED BY <1>6, <1>7 DEF u

-----------------------------------------------------------------------------
(* What is answered is what the tables give. *)

(* A hit answers what the tables give, and a leaf that lets the access     *)
(* through is marked as used.                                              *)
LEMMA HitFollowsTables ==
  ASSUME NEW t \in [Slots -> PteType], NEW r \in RequestType, Translated(r),
         NEW e, e.level \in {0, 1}, e.page \in Pages, Agrees(t, e, r)
  PROVE  /\ ~PermissionsAllow(r, e.flags) => TableResult(t, r) = Fault("PageFault")
         /\ PermissionsAllow(r, e.flags) /\ ~NeedsAccessBitUpdate(r, e.flags) =>
              /\ TableResult(t, r) = PageAddress(EntryTranslate(e, r))
              /\ AccessRecorded(t, r)
PROOF
<1> DEFINE root == RootPteAddress(r)
           slot == IF e.level = 1 THEN root ELSE <<t[root].ppn, r.vpn[2]>>
           page == TranslateLeaf(e.level, t[slot], r.vpn)
<1>1. HoldsLeaf(t, e, slot)
  BY DEF Agrees
<1>2. /\ slot \in Slots
      /\ ~EntryInvalid(t[slot].flags)
      /\ IsLeaf(t[slot].flags)
      /\ e.flags \subseteq t[slot].flags
  BY <1>1 DEF HoldsLeaf
<1>3. PermissionsAllow(r, t[slot].flags) <=> PermissionsAllow(r, e.flags)
  <2>1. t[slot].flags \subseteq e.flags \cup {"A", "D"}
    BY <1>1 DEF HoldsLeaf
  <2> QED BY <1>2, <2>1, AccessBitsDecideNothing
<1>4. TableResult(t, r) = EntryResult(t, r, slot, e.level) /\ slot \in Path(t, r.satp, r.vpn)
  <2>1. CASE e.level = 1
    <3>1. ~PointsDown(t, root)
      BY <1>2, <2>1 DEF PointsDown
    <3> QED BY <2>1, <3>1 DEF TableResult, Path, RootPteAddress
  <2>2. CASE e.level = 0
    <3>1. PointsDown(t, root) /\ NonleafFlagsValid(t[root].flags)
      BY <2>2 DEF Agrees
    <3> QED BY <2>2, <3>1 DEF TableResult, Path, RootPteAddress
  <2> QED BY <2>1, <2>2
<1>5. page = EntryTranslate(e, r) /\ page \in Pages
  <2>1. t[slot].ppn \in Nat \X Nat /\ r.vpn \in Nat \X Nat
    BY <1>2 DEF PteType, RequestType, Pages
  <2>2. CASE e.level = 1
    <3>1. page = <<t[slot].ppn[1], r.vpn[2]>> /\ e.page[1] = t[slot].ppn[1]
      BY <1>1, <2>2 DEF HoldsLeaf, TranslateLeaf
    <3> QED BY <2>1, <2>2, <3>1 DEF EntryTranslate, Pages
  <2>3. CASE e.level = 0
    BY <1>1, <2>3 DEF HoldsLeaf, TranslateLeaf, EntryTranslate
  <2> QED BY <2>2, <2>3
<1>6. page # None
  BY <1>5, MmuAssumption
<1> HIDE DEF slot
<1>7. ASSUME ~PermissionsAllow(r, e.flags)
      PROVE  TableResult(t, r) = Fault("PageFault")
  BY <1>2, <1>3, <1>4, <1>7 DEF EntryResult
<1>8. ASSUME PermissionsAllow(r, e.flags), ~NeedsAccessBitUpdate(r, e.flags)
      PROVE  /\ TableResult(t, r) = PageAddress(EntryTranslate(e, r))
             /\ AccessRecorded(t, r)
  <2>1. AccessBitsFor(r) \subseteq t[slot].flags
    BY <1>2, <1>8 DEF NeedsAccessBitUpdate
  <2>2. TableResult(t, r) = PageAddress(page)
    BY <1>2, <1>3, <1>4, <1>6, <1>8, <2>1 DEF EntryResult, NeedsAccessBitUpdate
  <2>3. AccessRecorded(t, r)
    BY <1>2, <1>4, <2>1 DEF AccessRecorded, AccessBitsFor
  <2> QED BY <1>5, <2>2, <2>3
<1> QED BY <1>7, <1>8

(* The walk is at a slot of the path of its request.                       *)
OnPath(t, walk) ==
  \/ walk.level = 1 /\ walk.pte_address = RootPteAddress(walk.request)
  \/ walk.level = 0 /\ BelowRoot(t, walk)

(* At its last slot a walk ends with what the tables give.                 *)
LEMMA WalkFollowsTables ==
  ASSUME NEW t, NEW walk, Translated(walk.request), OnPath(t, walk),
         walk.level = 1 => ~PointsDown(t, walk.pte_address)
  PROVE  /\ TableResult(t, walk.request) =
              EntryResult(t, walk.request, walk.pte_address, walk.level)
         /\ walk.pte_address \in Path(t, walk.request.satp, walk.request.vpn)
PROOF
<1>1. CASE walk.level = 1
  <2>1. walk.pte_address = RootPteAddress(walk.request)
    BY <1>1 DEF OnPath
  <2> QED BY <1>1, <2>1 DEF TableResult, Path, RootPteAddress
<1>2. CASE walk.level = 0
  BY <1>2 DEF OnPath, BelowRoot, TableResult, Path, RootPteAddress
<1> QED BY <1>1, <1>2 DEF OnPath

(* The entry a walk leaves in the TLB.                                     *)
Installed(walk, flags, page) ==
  [satp |-> walk.request.satp, base |-> Base(walk.level, walk.request.vpn),
   page |-> IF walk.level = 1 THEN <<page[1], 0>> ELSE page,
   level |-> walk.level, flags |-> flags,
   global_mapping |-> walk.global_mapping \/ "G" \in flags]

(* An entry made of the leaf a walk ended at agrees for every request of   *)
(* the walk's address space that it matches.                               *)
LEMMA InstalledAgrees ==
  ASSUME NEW t \in [Slots -> PteType], NEW walk, walk.request \in RequestType,
         walk.level \in {0, 1}, OnPath(t, walk), NEW r \in RequestType,
         walk.pte_address \in Slots,
         ~EntryInvalid(t[walk.pte_address].flags), IsLeaf(t[walk.pte_address].flags),
         TranslateLeaf(walk.level, t[walk.pte_address], walk.request.vpn) # None,
         Base(walk.level, r.vpn) = Base(walk.level, walk.request.vpn),
         t[RootPteAddress(r)] = t[RootPteAddress(walk.request)],
         RootPteAddress(r) \in Slots,
         walk.level = 1 => r.satp = walk.request.satp
  PROVE  Agrees(t, Installed(walk, t[walk.pte_address].flags,
                   TranslateLeaf(walk.level, t[walk.pte_address], walk.request.vpn)), r)
PROOF
<1> DEFINE q == walk.request
           slot == walk.pte_address
           page == TranslateLeaf(walk.level, t[slot], q.vpn)
           e == Installed(walk, t[slot].flags, page)
<1>1. r.vpn \in Nat \X Nat /\ q.vpn \in Nat \X Nat /\ t[slot].ppn \in Nat \X Nat
  BY DEF RequestType, PteType, Pages
<1>2. e.flags = t[slot].flags /\ e.level = walk.level
  BY DEF Installed
<1>3. CASE walk.level = 1
  <2>1. t[slot].ppn[2] = 0 /\ page = <<t[slot].ppn[1], q.vpn[2]>>
    BY <1>3 DEF TranslateLeaf
  <2>2. e.page[1] = t[slot].ppn[1]
    BY <1>3, <2>1 DEF Installed
  <2>3. HoldsLeaf(t, e, slot)
    BY <1>2, <1>3, <2>1, <2>2 DEF HoldsLeaf
  <2>4. r.vpn[1] = q.vpn[1]
    BY <1>1, <1>3 DEF Base
  <2>5. slot = RootPteAddress(r)
    BY <1>3, <2>4 DEF OnPath, RootPteAddress
  <2> QED BY <1>2, <1>3, <2>3, <2>5 DEF Agrees
<1>4. CASE walk.level = 0
  <2>1. page = t[slot].ppn /\ e.page = page
    BY <1>4 DEF TranslateLeaf, Installed
  <2>2. HoldsLeaf(t, e, slot)
    BY <1>2, <1>4, <2>1 DEF HoldsLeaf
  <2>3. r.vpn = q.vpn
    BY <1>4 DEF Base
  <2>4. /\ slot = <<t[RootPteAddress(r)].ppn, r.vpn[2]>>
        /\ PointsDown(t, RootPteAddress(r))
        /\ NonleafFlagsValid(t[RootPteAddress(r)].flags)
    BY <1>4, <2>3 DEF OnPath, BelowRoot, PointsDown
  <2> HIDE DEF e, slot
  <2>5. e.level = 0 /\ HoldsLeaf(t, e, <<t[RootPteAddress(r)].ppn, r.vpn[2]>>)
    BY <1>2, <1>4, <2>2, <2>4
  <2>6. Agrees(t, e, r)
    BY <2>4, <2>5 DEF Agrees
  <2> QED BY <2>6 DEF e, slot
<1> QED BY <1>3, <1>4

-----------------------------------------------------------------------------
(* The steps. *)

(* What the types and the assumptions say of the workload.                 *)
LEMMA WorkloadFacts ==
  ASSUME TypeOK
  PROVE  /\ work.requests \subseteq RequestType
         /\ work.fences \subseteq FenceType
         /\ work.cpu_stores \cup work.dma_stores \subseteq Slots \X PteType
         /\ request \in RequestType
         /\ DmaKeepsToTables(work)
         /\ GlobalsAreShared(work)
  BY MmuAssumption, SoftwareAssumption DEF TypeOK

(* The types depend on the workload alone, which stays.                    *)
LEMMA TypesStay ==
  ASSUME UNCHANGED work
  PROVE  WalkType' = WalkType /\ TlbEntryType' = TlbEntryType /\ Satps' = Satps /\ Vpns' = Vpns
  BY DEF WalkType, TlbEntryType, Satps, Vpns

(* The parts of the invariant that are about the tables and the TLB stay   *)
(* while these do.                                                         *)
LEMMA TablesStay ==
  ASSUME Inv, UNCHANGED <<work, pt, written>>
  PROVE  TablesOK' /\ StoresSurviveWalks'
  BY DEF Inv, TablesOK, StoresSurviveWalks

(* The TLB stays right while it, the tables and the fences owed stay.      *)
LEMMA TlbStays ==
  ASSUME Inv, UNCHANGED <<work, pt, tlb, stale>>
  PROVE  TlbOK'
  BY DEF Inv, TlbOK, EntryOK

(* What the TLB answers is what the tables give.                           *)
LEMMA LookupFollowsTables ==
  ASSUME Inv, Translated(request), LookupTlb(request) # None
  PROVE  /\ LookupTlb(request) \in AnswerType
         /\ Translation(request) \notin stale =>
              /\ LookupTlb(request) = TableResult(pt, request)
              /\ LookupTlb(request).kind = "address" => AccessRecorded(pt, request)
PROOF
<1> DEFINE r == request
           Match == {k \in DOMAIN tlb : tlb[k] # None /\ Matches(tlb[k], r)}
           Usable == {k \in Match : /\ PermissionsAllow(r, tlb[k].flags)
                                    /\ ~NeedsAccessBitUpdate(r, tlb[k].flags)}
<1>1. /\ r \in RequestType /\ r \in work.requests /\ pt \in [Slots -> PteType]
      /\ r.vpn \in Pages
  BY WorkloadFacts DEF Inv, TypeOK, RequestType
<1>2. ASSUME NEW k \in Match
      PROVE  /\ k \in DOMAIN tlb /\ tlb[k] # None /\ Matches(tlb[k], r)
             /\ tlb[k] \in TlbEntryType /\ tlb[k].level \in {0, 1} /\ tlb[k].page \in Pages
             /\ Translation(r) \notin stale => Agrees(pt, tlb[k], r)
  <2>1. tlb[k] \in TlbEntryType /\ EntryOK(tlb[k])
    BY <1>2 DEF Inv, TypeOK, TlbOK
  <2> QED BY <1>1, <1>2, <2>1 DEF TlbEntryType, EntryOK
<1> HIDE DEF Match
<1>3. ASSUME NEW k \in Match, Translation(r) \notin stale
      PROVE  /\ ~PermissionsAllow(r, tlb[k].flags) => TableResult(pt, r) = Fault("PageFault")
             /\ PermissionsAllow(r, tlb[k].flags) /\ ~NeedsAccessBitUpdate(r, tlb[k].flags) =>
                  /\ TableResult(pt, r) = PageAddress(EntryTranslate(tlb[k], r))
                  /\ AccessRecorded(pt, r)
  <2>1. tlb[k].level \in {0, 1} /\ tlb[k].page \in Pages /\ Agrees(pt, tlb[k], r)
    BY <1>2, <1>3
  <2> QED BY <1>1, <2>1, HitFollowsTables
<1>4. CASE Usable # {}
  <2> DEFINE k == Min(Usable)
  <2>1. k \in Usable
    <3>1. Usable \subseteq Nat
      <4>1. Match \subseteq 0 .. (TlbEntryCount - 1)
        BY <1>2 DEF Inv, TypeOK
      <4>2. Match \subseteq Nat
        BY <4>1, MmuAssumption
      <4> QED BY <4>2
    <3> QED BY <1>4, <3>1, LeastPosition
  <2>2. LookupTlb(r) = PageAddress(EntryTranslate(tlb[k], r))
    BY <1>4 DEF LookupTlb, Match
  <2> HIDE DEF k
  <2>3. LookupTlb(r) \in AnswerType
    <3>1. EntryTranslate(tlb[k], r) \in Pages
      BY <1>1, <1>2, <2>1 DEF EntryTranslate, Pages
    <3> QED BY <2>2, <3>1 DEF PageAddress, AnswerType
  <2>4. ASSUME Translation(r) \notin stale
        PROVE  LookupTlb(r) = TableResult(pt, r) /\ AccessRecorded(pt, r)
    BY <1>3, <2>1, <2>2, <2>4
  <2> QED BY <2>3, <2>4
<1>5. CASE Usable = {}
  <2>1. PICK k \in Match : ~PermissionsAllow(r, tlb[k].flags)
    BY <1>5 DEF LookupTlb, Match
  <2>2. LookupTlb(r) = Fault("PageFault")
    BY <1>5, <2>1 DEF LookupTlb, Match
  <2>3. Translation(r) \notin stale => LookupTlb(r) = TableResult(pt, r)
    BY <1>3, <2>1, <2>2
  <2>4. Fault("PageFault") \in AnswerType /\ Fault("PageFault").kind # "address"
    BY DEF Fault, AnswerType
  <2> QED BY <2>2, <2>3, <2>4
<1> QED BY <1>4, <1>5

(* The walk in progress stays right while it and the tables stay and the   *)
(* core has not seen more.                                                 *)
LEMMA WalkStays ==
  ASSUME Inv, UNCHANGED <<active, pt, unseen>>
  PROVE  WalkerOK'
  BY DEF Inv, WalkerOK, WalkOK

(* The core turns to another request: the walk goes on, for nobody.        *)
LEMMA TurnKeepsInv ==
  ASSUME Inv, UNCHANGED work, NEW r \in work.requests, Turn(r)
  PROVE  Inv'
PROOF
<1> USE DEF Turn, walker, ghosts
<1>1. TypeOK'
  BY TypesStay DEF Inv, TypeOK
<1>2. AnsweredIsIdle' /\ AnswersFollowTables'
  BY DEF AnsweredIsIdle, AnswersFollowTables
<1>3. NoAccessAbandoned'
  BY DEF Inv, NoAccessAbandoned, NextAccess
<1> QED BY <1>1, <1>2, <1>3, TablesStay, TlbStays, WalkStays DEF Inv

(* An answer given while no walk is in progress.                           *)
LEMMA AnswerKeepsInv ==
  ASSUME Inv, active = None, UNCHANGED <<work, walker, bus, pt>>,
         NEW result \in AnswerType, Answer(result),
         Translation(request) \notin stale =>
           /\ result = TableResult(pt, request)
           /\ Translated(request) /\ result.kind = "address" => AccessRecorded(pt, request)
  PROVE  Inv'
PROOF
<1> USE DEF Answer, walker
<1>1. TypeOK'
  BY TypesStay DEF Inv, TypeOK
<1>2. AnsweredIsIdle' /\ AnswersFollowTables'
  BY DEF AnsweredIsIdle, AnswersFollowTables, Translation
<1>3. NoAccessAbandoned' /\ WalkerOK'
  BY DEF Inv, NoAccessAbandoned, WalkerOK
<1> QED BY <1>1, <1>2, <1>3, TablesStay, TlbStays DEF Inv

(* With translation off the page passes through.                           *)
LEMMA BypassKeepsInv ==
  ASSUME Inv, UNCHANGED work, Bypass
  PROVE  Inv'
PROOF
<1> DEFINE result == PageAddress(request.vpn)
<1>1. result \in AnswerType
  BY WorkloadFacts DEF Inv, PageAddress, AnswerType, RequestType
<1>2. result = TableResult(pt, request)
  BY DEF TableResult, Bypass
<1> HIDE DEF result
<1> QED BY <1>1, <1>2, AnswerKeepsInv DEF Bypass, result

(* The TLB answers.                                                        *)
LEMMA HitKeepsInv ==
  ASSUME Inv, UNCHANGED work, Hit
  PROVE  Inv'
PROOF
<1> DEFINE result == LookupTlb(request)
<1>1. Translated(request) /\ result # None
  BY DEF Hit
<1>2. /\ result \in AnswerType
      /\ Translation(request) \notin stale =>
           /\ result = TableResult(pt, request)
           /\ result.kind = "address" => AccessRecorded(pt, request)
  BY <1>1, LookupFollowsTables
<1>3. active = None /\ UNCHANGED <<work, walker, bus, pt>> /\ Answer(result)
  BY DEF Hit
<1> HIDE DEF result
<1> QED BY <1>2, <1>3, AnswerKeepsInv

(* A walk starts at the root, with the bus free.                           *)
LEMMA StartWalkKeepsInv ==
  ASSUME Inv, UNCHANGED work, StartWalk
  PROVE  Inv'
PROOF
<1> USE DEF NoAnswer, ghosts
<1> DEFINE walk == [request |-> request, level |-> 1, pte_address |-> RootPteAddress(request),
                    global_mapping |-> FALSE, phase |-> "ReadPte", page |-> None, value |-> None]
<1>1. active' = walk /\ active = None /\ Translated(request)
  BY DEF StartWalk
<1>2. walk \in WalkType
  <2>1. request \in work.requests /\ request \in RequestType
    BY WorkloadFacts DEF Inv, TypeOK
  <2>2. RootPteAddress(request) \in Pages \X Nat
    BY <2>1 DEF RootPteAddress, RequestType, SatpType, Pages
  <2> QED BY <2>1, <2>2 DEF WalkType
<1>3. TypeOK'
  BY <1>1, <1>2, TypesStay DEF Inv, TypeOK, StartWalk
<1>4. AnsweredIsIdle' /\ AnswersFollowTables'
  BY DEF AnsweredIsIdle, AnswersFollowTables, StartWalk
<1>5. NoAccessAbandoned'
  BY <1>1 DEF Inv, NoAccessAbandoned, StartWalk
<1>6. WalkerOK'
  <2> SUFFICES WalkOK(active)'
    BY DEF WalkerOK
  <2>1. /\ active'.request = request /\ active'.level = 1
        /\ active'.pte_address = RootPteAddress(request)
        /\ ~active'.global_mapping /\ active'.phase = "ReadPte"
    BY <1>1
  <2> QED BY <1>1, <2>1 DEF WalkOK, RootPteAddress, Translated
<1>7. UNCHANGED <<work, pt, tlb, written, stale>>
  BY DEF StartWalk
<1> QED BY <1>3, <1>4, <1>5, <1>6, <1>7, TablesStay, TlbStays DEF Inv

(* The bus takes the next access of the walk.                              *)
LEMMA IssueKeepsInv ==
  ASSUME Inv, UNCHANGED work, Issue
  PROVE  Inv'
PROOF
<1> USE DEF NoAnswer, ghosts, walker
<1>1. NextAccess(active) \in AccessType
  <2>1. active \in WalkType
    BY DEF Inv, TypeOK, Issue
  <2> QED BY <2>1 DEF WalkType, NextAccess, AccessType
<1>2. TypeOK'
  BY <1>1, TypesStay DEF Inv, TypeOK, Issue
<1>3. AnsweredIsIdle' /\ AnswersFollowTables'
  BY DEF AnsweredIsIdle, AnswersFollowTables, Issue
<1>4. NoAccessAbandoned'
  BY DEF Inv, NoAccessAbandoned, NextAccess, Issue
<1>5. UNCHANGED <<work, active, pt, tlb, written, stale, unseen>>
  BY DEF Issue
<1> QED BY <1>2, <1>3, <1>4, <1>5, TablesStay, TlbStays, WalkStays DEF Inv

(* A walk on its path stays on it when leaves are marked.                  *)
LEMMA OnPathWhenMarked ==
  ASSUME NEW t, NEW u, OnlyMarked(t, u), NEW walk, OnPath(t, walk)
  PROVE  OnPath(u, walk)
PROOF
<1> DEFINE root == RootPteAddress(walk.request)
<1>1. CASE walk.level = 0 /\ BelowRoot(t, walk)
  <2>1. PointsDown(t, root) /\ u[root] = t[root]
    BY <1>1 DEF BelowRoot, PointsDown, OnlyMarked
  <2>2. BelowRoot(u, walk)
    BY <1>1, <2>1 DEF BelowRoot, PointsDown
  <2> QED BY <1>1, <2>2 DEF OnPath
<1> QED BY <1>1 DEF OnPath

(* The entry a walk makes of the leaf it ended at is right, and what was   *)
(* in the TLB stays right.                                                 *)
LEMMA InsertKeepsTlb ==
  ASSUME Inv, UNCHANGED <<work, stale>>, active # None,
         pt' \in [Slots -> PteType], OnlyMarked(pt, pt'), TablesOK',
         active.pte_address \in Slots,
         ~EntryInvalid(pt'[active.pte_address].flags), IsLeaf(pt'[active.pte_address].flags),
         NEW page, page # None,
         page = TranslateLeaf(active.level, pt'[active.pte_address], active.request.vpn),
         InsertTlb(active, pt'[active.pte_address].flags, page)
  PROVE  /\ tlb' \in [0..(TlbEntryCount - 1) -> TlbEntryType \cup {None}]
         /\ next_tlb_entry' \in 0..(TlbEntryCount - 1)
         /\ TlbOK'
PROOF
<1> DEFINE q == active.request
           slot == active.pte_address
           root == RootPteAddress(q)
           e == Installed(active, pt'[slot].flags, page)
<1>1. /\ active \in WalkType /\ q \in work.requests /\ q \in RequestType
      /\ active.level \in {0, 1} /\ active.global_mapping \in BOOLEAN
      /\ q.vpn \in Nat \X Nat /\ q.satp \in Satps
  BY WorkloadFacts DEF Inv, TypeOK, WalkType, RequestType, Pages, Satps
<1>2. /\ tlb \in [0..(TlbEntryCount - 1) -> TlbEntryType \cup {None}]
      /\ next_tlb_entry \in 0..(TlbEntryCount - 1)
      /\ TlbEntryCount \in Nat \ {0}
  BY MmuAssumption DEF Inv, TypeOK
<1>3. /\ tlb' = [tlb EXCEPT ![next_tlb_entry] = e]
      /\ next_tlb_entry' = (next_tlb_entry + 1) % TlbEntryCount
  BY DEF InsertTlb, Installed
<1>4. e \in TlbEntryType
  <2>1. pt'[slot] \in PteType /\ pt'[slot].ppn \in Nat \X Nat
    BY DEF PteType, Pages
  <2>2. page \in Nat \X Nat
    <3>1. CASE active.level = 0
      BY <2>1, <3>1 DEF TranslateLeaf
    <3>2. CASE active.level = 1
      BY <1>1, <2>1, <3>2 DEF TranslateLeaf
    <3> QED BY <1>1, <3>1, <3>2
  <2>3. (IF active.level = 1 THEN <<page[1], 0>> ELSE page) \in Nat \X Nat
    BY <2>2
  <2>4. Base(active.level, q.vpn) \in Nat \X Nat
    BY <1>1 DEF Base
  <2> QED BY <1>1, <2>1, <2>3, <2>4 DEF Installed, TlbEntryType, PteType, Pages
<1>5. next_tlb_entry' \in 0..(TlbEntryCount - 1)
  BY <1>2, <1>3
<1>6. WalkOK(active)
  BY DEF Inv, WalkerOK
<1>7. "G" \notin pt'[slot].flags
  <2>1. GlobalsAreShared(work)
    BY WorkloadFacts DEF Inv
  <2> QED BY <2>1 DEF TablesOK, GlobalsAreShared
<1>8. ASSUME active.global_mapping
      PROVE  active.level = 0 /\ BelowRoot(pt, active) /\ root \in GlobalSlots
  <2>1. active.level = 0 /\ BelowRoot(pt, active)
    BY <1>1, <1>6, <1>8 DEF WalkOK
  <2>2. root \in Slots /\ "G" \in pt[root].flags
    BY <1>8, <2>1 DEF BelowRoot, PointsDown
  <2> QED BY <2>1, <2>2 DEF Inv, TablesOK
<1>9. e.global_mapping = active.global_mapping /\ e.level = active.level
      /\ e.satp = q.satp /\ e.base = Base(active.level, q.vpn)
  BY <1>1, <1>7 DEF Installed
<1>10. ASSUME NEW r \in work.requests, Translated(r), Translation(r) \notin stale, Matches(e, r)
       PROVE  Agrees(pt', e, r)
  <2>1. r \in RequestType
    BY WorkloadFacts DEF Inv
  <2>2. Base(active.level, r.vpn) = Base(active.level, q.vpn)
    BY <1>9, <1>10 DEF Matches
  <2>3. CASE ~active.global_mapping
    <3>1. r.satp = q.satp
      BY <1>9, <1>10, <2>3 DEF Matches
    <3>2. RootPteAddress(r) = root
      BY <1>1, <2>1, <2>2, <3>1 DEF RootPteAddress, Base, RequestType, Pages
    <3>3. OnPath(pt, active)
      <4>1. CASE active.level = 1
        BY <1>6, <4>1 DEF WalkOK, OnPath
      <4>2. CASE active.level = 0
        <5>1. r.vpn = q.vpn
          BY <2>2, <4>2 DEF Base
        <5>2. Translation(q) \notin unseen
          BY <1>10, <3>1, <5>1 DEF Translation, Inv, TypeOK
        <5> QED BY <1>6, <4>2, <5>2 DEF WalkOK, OnPath
      <4> QED BY <1>1, <4>1, <4>2
    <3>4. OnPath(pt', active)
      BY <3>3, OnPathWhenMarked
    <3>5. root \in Slots
      BY <3>4 DEF OnPath, BelowRoot, PointsDown
    <3> QED BY <1>1, <2>1, <2>2, <3>1, <3>2, <3>4, <3>5, InstalledAgrees
  <2>4. CASE active.global_mapping
    <3>1. active.level = 0 /\ BelowRoot(pt, active) /\ root \in GlobalSlots
      BY <1>8, <2>4
    <3>2. OnPath(pt', active)
      BY <3>1, OnPathWhenMarked DEF OnPath
    <3>3. r.vpn = q.vpn
      BY <2>2, <3>1 DEF Base
    <3>4. RootPteAddress(r) \in Slots /\ Tables[RootPteAddress(r)] = Tables[root]
      <4>1. Translated(q) /\ q.satp.root = root[1] /\ q.vpn[1] = root[2]
        BY <1>6 DEF WalkOK, RootPteAddress
      <4>2. GlobalsAreShared(work)
        BY WorkloadFacts DEF Inv
      <4>3. /\ <<r.satp.root, root[2]>> \in Slots
            /\ Tables[<<r.satp.root, root[2]>>] = Tables[root]
        BY <1>1, <1>10, <3>1, <4>1, <4>2 DEF GlobalsAreShared
      <4> QED BY <3>3, <4>1, <4>3 DEF RootPteAddress
    <3>5. pt'[RootPteAddress(r)] = pt'[root]
      BY <3>1, <3>4 DEF TablesOK, GlobalSlots
    <3> QED BY <1>1, <2>1, <2>2, <3>1, <3>2, <3>4, <3>5, InstalledAgrees
  <2> QED BY <2>3, <2>4
<1>11. /\ e.global_mapping => e.level = 0 /\ <<e.satp.root, e.base[1]>> \in GlobalSlots
       /\ Translated(q)
  BY <1>6, <1>8, <1>9 DEF Base, RootPteAddress, WalkOK
<1> HIDE DEF e
<1>12. TlbOK'
  <2> SUFFICES ASSUME NEW k \in DOMAIN tlb, tlb'[k] # None
               PROVE  EntryOK(tlb[k])'
    BY <1>2, <1>3 DEF TlbOK
  <2>1. CASE k = next_tlb_entry
    <3>1. tlb'[k] = e
      BY <1>2, <1>3, <2>1
    <3> QED BY <1>1, <1>9, <1>10, <1>11, <3>1 DEF EntryOK
  <2>2. CASE k # next_tlb_entry
    <3>1. tlb'[k] = tlb[k] /\ EntryOK(tlb[k])
      BY <1>2, <1>3, <2>2 DEF Inv, TlbOK
    <3> QED BY <3>1, AgreesWhenMarked DEF EntryOK
  <2> QED BY <2>1, <2>2
<1> QED BY <1>2, <1>3, <1>4, <1>5, <1>12

(* A walk that ends in a fault.                                            *)
LEMMA FailedWalkKeepsInv ==
  ASSUME Inv, UNCHANGED work, active # None,
         NEW result \in AnswerType, result.kind # "address", FailedWalk(result),
         active.request = request /\ Translation(request) \notin stale =>
           result = TableResult(pt, request)
  PROVE  Inv'
PROOF
<1>1. /\ active' = None /\ bus' = None /\ UNCHANGED <<work, tlb, next_tlb_entry, pt>>
      /\ IF Draining THEN NoAnswer ELSE Answer(result)
  BY DEF FailedWalk, EndWalk
<1>2. /\ UNCHANGED <<request, stores, written, stale>>
      /\ unseen' \subseteq unseen
      /\ answer' \in AnswerType \cup {None}
      /\ answer' # None => active.request = request /\ answer' = result
  BY <1>1 DEF Draining, NoAnswer, Answer, ghosts
<1>3. TypeOK'
  BY <1>1, <1>2, TypesStay DEF Inv, TypeOK
<1>4. AnsweredIsIdle' /\ NoAccessAbandoned' /\ WalkerOK'
  BY <1>1 DEF AnsweredIsIdle, NoAccessAbandoned, WalkerOK
<1>5. AnswersFollowTables'
  BY <1>1, <1>2 DEF AnswersFollowTables, Translation
<1> QED BY <1>1, <1>2, <1>3, <1>4, <1>5, TablesStay, TlbStays DEF Inv

(* A walk that ends with an address, in tables it marked or left alone.    *)
LEMMA FinishWalkKeepsInv ==
  ASSUME Inv, UNCHANGED work, active # None,
         pt' \in [Slots -> PteType], OnlyMarked(pt, pt'), TablesOK', StoresSurviveWalks',
         active.pte_address \in Slots,
         ~EntryInvalid(pt'[active.pte_address].flags), IsLeaf(pt'[active.pte_address].flags),
         PermissionsAllow(active.request, pt'[active.pte_address].flags),
         ~NeedsAccessBitUpdate(active.request, pt'[active.pte_address].flags),
         NEW page, page # None,
         page = TranslateLeaf(active.level, pt'[active.pte_address], active.request.vpn),
         FinishWalk(pt'[active.pte_address].flags, page)
  PROVE  Inv'
PROOF
<1> DEFINE q == active.request
           slot == active.pte_address
           result == PageAddress(page)
<1>1. /\ active' = None /\ bus' = None
      /\ IF Draining THEN NoAnswer ELSE Answer(result)
      /\ IF Draining THEN UNCHANGED <<tlb, next_tlb_entry>>
                     ELSE InsertTlb(active, pt'[slot].flags, page)
  BY DEF FinishWalk, EndWalk
<1>2. /\ UNCHANGED <<request, stores, written, stale>>
      /\ unseen' \subseteq unseen
      /\ answer' # None => ~Draining /\ answer' = result
      /\ answer' \in {None, result}
  BY <1>1 DEF NoAnswer, Answer, ghosts
<1>3. /\ active \in WalkType /\ q \in RequestType /\ active.level \in {0, 1}
      /\ q.vpn \in Nat \X Nat
  BY WorkloadFacts DEF Inv, TypeOK, WalkType, RequestType, Pages
<1>4. result \in AnswerType /\ result.kind = "address"
  <2>1. pt'[slot].ppn \in Nat \X Nat
    BY DEF PteType, Pages
  <2>2. page \in Pages
    BY <1>3, <2>1 DEF TranslateLeaf, Pages
  <2> QED BY <2>2 DEF PageAddress, AnswerType
<1>5. /\ tlb' \in [0..(TlbEntryCount - 1) -> TlbEntryType \cup {None}]
      /\ next_tlb_entry' \in 0..(TlbEntryCount - 1)
      /\ TlbOK'
  <2>1. CASE Draining
    <3>1. TlbOK'
      <4> SUFFICES ASSUME NEW k \in DOMAIN tlb, tlb[k] # None
                   PROVE  EntryOK(tlb[k])'
        BY <1>1, <2>1 DEF TlbOK
      <4>1. EntryOK(tlb[k]) /\ tlb' = tlb
        BY <1>1, <2>1 DEF Inv, TlbOK
      <4> QED BY <1>2, <4>1, AgreesWhenMarked DEF EntryOK
    <3> QED BY <1>1, <2>1, <3>1 DEF Inv, TypeOK
  <2>2. CASE ~Draining
    BY <1>1, <1>2, <2>2, InsertKeepsTlb
  <2> QED BY <2>1, <2>2
<1>6. TypeOK'
  BY <1>1, <1>2, <1>4, <1>5, TypesStay DEF Inv, TypeOK
<1>7. AnsweredIsIdle' /\ NoAccessAbandoned' /\ WalkerOK'
  BY <1>1 DEF AnsweredIsIdle, NoAccessAbandoned, WalkerOK
<1>8. AnswersFollowTables'
  <2> SUFFICES ASSUME answer' # None, Translation(request) \notin stale
               PROVE  /\ answer' = TableResult(pt', request)
                      /\ AccessRecorded(pt', request)
    BY <1>2 DEF AnswersFollowTables, Translation
  <2>1. q = request /\ answer' = result
    BY <1>2 DEF Draining
  <2>2. OnPath(pt, active) /\ Translated(q)
    <3>1. WalkOK(active) /\ Translation(q) \notin unseen
      BY <2>1 DEF Inv, WalkerOK, TypeOK
    <3> QED BY <1>3, <3>1 DEF WalkOK, OnPath
  <2>3. OnPath(pt', active)
    BY <2>2, OnPathWhenMarked
  <2>4. /\ TableResult(pt', q) = EntryResult(pt', q, slot, active.level)
        /\ slot \in Path(pt', q.satp, q.vpn)
    <3>1. ~PointsDown(pt', slot)
      BY DEF PointsDown
    <3> QED BY <2>2, <2>3, <3>1, WalkFollowsTables
  <2>5. TableResult(pt', q) = result
    BY <2>4 DEF EntryResult
  <2>6. AccessRecorded(pt', q)
    <3>1. AccessBitsFor(q) \subseteq pt'[slot].flags
      BY DEF NeedsAccessBitUpdate
    <3> QED BY <2>4, <3>1 DEF AccessRecorded, AccessBitsFor
  <2> QED BY <2>1, <2>5, <2>6
<1> QED BY <1>5, <1>6, <1>7, <1>8 DEF Inv

(* The walk reads an entry: it fails, marks a leaf, ends or goes down.     *)
LEMMA ReadPteKeepsInv ==
  ASSUME Inv, UNCHANGED work, ReadPte
  PROVE  Inv'
PROOF
<1> DEFINE r == active.request
           slot == active.pte_address
           pte == pt[slot]
           page == TranslateLeaf(active.level, pte, r.vpn)
           Bad == \/ EntryInvalid(pte.flags)
                  \/ IsLeaf(pte.flags) /\ (page = None \/ ~PermissionsAllow(r, pte.flags))
                  \/ ~IsLeaf(pte.flags) /\ (~NonleafFlagsValid(pte.flags) \/ active.level = 0)
<1>1. active # None /\ active \in WalkType /\ WalkOK(active) /\ active.phase = "ReadPte"
  BY DEF ReadPte, Accepted, Inv, TypeOK, WalkerOK
<1>2. /\ r \in work.requests /\ r \in RequestType /\ active.level \in {0, 1}
      /\ active.global_mapping \in BOOLEAN /\ r.vpn \in Nat \X Nat /\ Translated(r)
  BY <1>1, WorkloadFacts DEF Inv, WalkType, RequestType, Pages, WalkOK
<1>3. r = request /\ Translation(request) \notin stale => OnPath(pt, active)
  <2> SUFFICES ASSUME r = request, Translation(request) \notin stale
               PROVE  OnPath(pt, active)
    OBVIOUS
  <2>1. Translation(r) \notin unseen
    BY DEF Inv, TypeOK
  <2> QED BY <1>1, <1>2, <2>1 DEF WalkOK, OnPath
<1>4. Fault("AccessFault") \in AnswerType /\ Fault("AccessFault").kind # "address"
  BY DEF Fault, AnswerType
<1>5. Fault("PageFault") \in AnswerType /\ Fault("PageFault").kind # "address"
  BY DEF Fault, AnswerType
<1>6. CASE slot \notin Slots /\ FailedWalk(Fault("AccessFault"))
  <2>1. r = request /\ Translation(request) \notin stale =>
          TableResult(pt, r) = EntryResult(pt, r, slot, active.level)
    BY <1>2, <1>3, <1>6, WalkFollowsTables DEF PointsDown
  <2>2. EntryResult(pt, r, slot, active.level) = Fault("AccessFault")
    BY <1>6 DEF EntryResult
  <2>3. r = request /\ Translation(request) \notin stale =>
          Fault("AccessFault") = TableResult(pt, request)
    BY <2>1, <2>2
  <2> QED BY <1>1, <1>4, <1>6, <2>3, FailedWalkKeepsInv
<1>7. CASE slot \in Slots /\ Bad /\ FailedWalk(Fault("PageFault"))
  <2>1. ASSUME r = request, Translation(request) \notin stale
        PROVE  Fault("PageFault") = TableResult(pt, request)
    <3>1. OnPath(pt, active)
      BY <1>3, <2>1
    <3>2. CASE active.level = 1 /\ PointsDown(pt, slot)
      <4>1. slot = RootPteAddress(r) /\ ~NonleafFlagsValid(pte.flags)
        BY <1>7, <3>1, <3>2 DEF OnPath, PointsDown
      <4> QED BY <1>2, <2>1, <3>2, <4>1 DEF TableResult
    <3>3. CASE ~(active.level = 1 /\ PointsDown(pt, slot))
      <4>1. TableResult(pt, r) = EntryResult(pt, r, slot, active.level)
        BY <1>2, <3>1, <3>3, WalkFollowsTables
      <4>2. \/ EntryInvalid(pte.flags) \/ ~IsLeaf(pte.flags)
            \/ page = None \/ ~PermissionsAllow(r, pte.flags)
        BY <1>7
      <4> HIDE DEF page
      <4>3. EntryResult(pt, r, slot, active.level) = Fault("PageFault")
        BY <1>7, <4>2 DEF EntryResult, page
      <4> QED BY <2>1, <4>1, <4>3
    <3> QED BY <3>2, <3>3
  <2> QED BY <1>1, <1>5, <1>7, <2>1, FailedWalkKeepsInv
<1>8. CASE /\ slot \in Slots /\ ~Bad /\ IsLeaf(pte.flags)
           /\ NeedsAccessBitUpdate(r, pte.flags)
           /\ active' = [active EXCEPT
                  !.phase = "WriteLeaf", !.page = page,
                  !.value = [pte EXCEPT !.flags = @ \cup AccessBitsFor(r)]]
           /\ bus' = None /\ NoAnswer
           /\ UNCHANGED <<tlb, next_tlb_entry, pt>>
  <2> USE DEF NoAnswer, ghosts
  <2> DEFINE value == [pte EXCEPT !.flags = @ \cup AccessBitsFor(r)]
  <2>1. pte \in PteType /\ pte.ppn \in Nat \X Nat /\ pte.flags \subseteq PteFlags
    BY <1>8 DEF Inv, TypeOK, PteType, Pages
  <2>2. value \in PteType
    BY <2>1 DEF PteType, PteFlags, AccessBitsFor
  <2>3. page \in Pages
    <3>1. page # None
      BY <1>8
    <3> QED BY <1>2, <2>1, <3>1 DEF TranslateLeaf, Pages
  <2> HIDE DEF page, value
  <2>4. /\ active' \in WalkType
        /\ active'.request = r /\ active'.level = active.level
        /\ active'.pte_address = slot /\ active'.global_mapping = active.global_mapping
        /\ active'.page = page /\ active'.value = value
    BY <1>1, <1>8, <2>2, <2>3 DEF WalkType, value
  <2>5. TypeOK'
    BY <1>8, <2>4, TypesStay DEF Inv, TypeOK
  <2>6. AnsweredIsIdle' /\ AnswersFollowTables' /\ NoAccessAbandoned'
    BY <1>8 DEF AnsweredIsIdle, AnswersFollowTables, NoAccessAbandoned
  <2>7. WalkerOK'
    <3> SUFFICES WalkOK(active)'
      BY DEF WalkerOK
    <3>1. LeafToWrite(pt', active')
      <4>1. page = TranslateLeaf(active.level, pte, r.vpn) /\ page # None
        BY <1>8 DEF page
      <4>2. value = [pte EXCEPT !.flags = @ \cup AccessBitsFor(r)]
        BY DEF value
      <4>3. PermissionsAllow(r, pte.flags) /\ ~EntryInvalid(pte.flags)
        BY <1>8
      <4> QED BY <1>8, <2>4, <4>1, <4>2, <4>3 DEF LeafToWrite
    <3>2. BelowRoot(pt, active) => BelowRoot(pt', active')
      BY <1>8, <2>4 DEF BelowRoot
    <3> QED BY <1>1, <1>8, <2>4, <3>1, <3>2 DEF WalkOK
  <2> QED BY <1>8, <2>5, <2>6, <2>7, TablesStay, TlbStays DEF Inv
<1>9. CASE /\ slot \in Slots /\ ~Bad /\ IsLeaf(pte.flags)
           /\ ~NeedsAccessBitUpdate(r, pte.flags)
           /\ FinishWalk(pte.flags, page) /\ UNCHANGED pt
  <2>1. pt' \in [Slots -> PteType] /\ OnlyMarked(pt, pt')
    BY <1>9 DEF Inv, TypeOK, OnlyMarked
  <2>2. UNCHANGED written
    BY <1>9 DEF FinishWalk, EndWalk, NoAnswer, Answer, ghosts
  <2>3. PermissionsAllow(r, pte.flags) /\ ~EntryInvalid(pte.flags) /\ page # None
    BY <1>9
  <2>4. pt'[slot] = pte
    BY <1>9
  <2>5. TablesOK' /\ StoresSurviveWalks'
    BY <1>9, <2>2, TablesStay
  <2> QED BY <1>1, <1>9, <2>1, <2>3, <2>4, <2>5, FinishWalkKeepsInv
<1>10. CASE /\ slot \in Slots /\ ~Bad /\ ~IsLeaf(pte.flags)
            /\ active' = [active EXCEPT !.level = 0, !.pte_address = <<pte.ppn, r.vpn[2]>>,
                                        !.global_mapping = @ \/ "G" \in pte.flags]
            /\ bus' = None /\ NoAnswer
            /\ UNCHANGED <<tlb, next_tlb_entry, pt>>
  <2> USE DEF NoAnswer, ghosts
  <2>1. active.level = 1 /\ slot = RootPteAddress(r) /\ ~active.global_mapping
    BY <1>1, <1>2, <1>10 DEF WalkOK
  <2>2. pte \in PteType /\ pte.ppn \in Nat \X Nat
    BY <1>10 DEF Inv, TypeOK, PteType, Pages
  <2>3. /\ active' \in WalkType
        /\ active'.request = r /\ active'.level = 0 /\ active'.phase = "ReadPte"
        /\ active'.pte_address = <<pte.ppn, r.vpn[2]>>
        /\ active'.global_mapping = ("G" \in pte.flags)
    <3> DEFINE g == active.global_mapping \/ "G" \in pte.flags
    <3>1. g \in BOOLEAN /\ g = ("G" \in pte.flags)
      BY <2>1
    <3>2. active' = [active EXCEPT !.level = 0, !.pte_address = <<pte.ppn, r.vpn[2]>>,
                                   !.global_mapping = g]
      BY <1>10
    <3> HIDE DEF g
    <3>3. <<pte.ppn, r.vpn[2]>> \in Pages \X Nat
      BY <1>2, <2>2 DEF Pages
    <3>4. /\ active' \in WalkType
          /\ active'.request = r /\ active'.level = 0 /\ active'.phase = "ReadPte"
          /\ active'.pte_address = <<pte.ppn, r.vpn[2]>>
          /\ active'.global_mapping = g
      BY <1>1, <3>1, <3>2, <3>3 DEF WalkType
    <3> QED BY <3>1, <3>4
  <2>4. TypeOK'
    BY <1>10, <2>3, TypesStay DEF Inv, TypeOK
  <2>5. AnsweredIsIdle' /\ AnswersFollowTables' /\ NoAccessAbandoned'
    BY <1>10 DEF AnsweredIsIdle, AnswersFollowTables, NoAccessAbandoned
  <2>6. WalkerOK'
    <3> SUFFICES WalkOK(active)'
      BY DEF WalkerOK
    <3>1. BelowRoot(pt', active')
      BY <1>10, <2>1, <2>3 DEF BelowRoot, PointsDown
    <3> QED BY <1>2, <2>3, <3>1 DEF WalkOK
  <2> QED BY <1>10, <2>4, <2>5, <2>6, TablesStay, TlbStays DEF Inv
<1> HIDE DEF Bad, page
<1> QED BY <1>6, <1>7, <1>8, <1>9, <1>10 DEF ReadPte, Bad, page

(* The walk writes its leaf back.                                          *)
LEMMA FinishLeafUpdateKeepsInv ==
  ASSUME Inv, UNCHANGED work, FinishLeafUpdate
  PROVE  Inv'
PROOF
<1> DEFINE q == active.request
           slot == active.pte_address
<1>1. active # None /\ active \in WalkType /\ WalkOK(active) /\ LeafToWrite(pt, active)
  BY DEF FinishLeafUpdate, Accepted, Inv, TypeOK, WalkerOK, WalkOK
<1>2. /\ q \in RequestType /\ active.level \in {0, 1} /\ Translated(q)
      /\ pt \in [Slots -> PteType] /\ slot \in Slots
  BY <1>1, WorkloadFacts DEF Inv, TypeOK, WalkType, WalkOK, LeafToWrite
<1>3. CASE slot \in ReadOnlySlots /\ FailedWalk(Fault("AccessFault"))
  <2>1. ASSUME q = request, Translation(request) \notin stale
        PROVE  Fault("AccessFault") = TableResult(pt, request)
    <3>1. OnPath(pt, active)
      <4>1. Translation(q) \notin unseen
        BY <2>1 DEF Inv, TypeOK
      <4> QED BY <1>1, <1>2, <4>1 DEF WalkOK, OnPath
    <3>2. TableResult(pt, q) = EntryResult(pt, q, slot, active.level)
      BY <1>1, <1>2, <3>1, WalkFollowsTables DEF LeafToWrite, PointsDown
    <3>3. EntryResult(pt, q, slot, active.level) = Fault("AccessFault")
      BY <1>1, <1>3 DEF EntryResult, LeafToWrite
    <3> QED BY <2>1, <3>2, <3>3
  <2>2. Fault("AccessFault") \in AnswerType /\ Fault("AccessFault").kind # "address"
    BY DEF Fault, AnswerType
  <2> QED BY <1>1, <1>3, <2>1, <2>2, FailedWalkKeepsInv
<1>4. CASE /\ pt' = [pt EXCEPT ![slot] = active.value]
           /\ FinishWalk(active.value.flags, active.page)
  <2> DEFINE bits == AccessBitsFor(q)
             page == active.page
  <2>1. bits \subseteq {"A", "D"}
    BY DEF AccessBitsFor
  <2>2. pt[slot] \in PteType /\ pt[slot].flags \subseteq PteFlags
    BY <1>2 DEF PteType
  <2>3. active.value = [pt[slot] EXCEPT !.flags = @ \cup bits]
    BY <1>1 DEF LeafToWrite
  <2> HIDE DEF bits
  <2>4. /\ pt'[slot].flags = pt[slot].flags \cup bits
        /\ pt'[slot].ppn = pt[slot].ppn
        /\ pt'[slot] \in PteType
        /\ active.value.flags = pt'[slot].flags
    <3>1. pt'[slot] = active.value
      BY <1>2, <1>4
    <3>2. pt[slot].flags \cup bits \in SUBSET PteFlags
      BY <2>1, <2>2 DEF PteFlags
    <3>3. /\ active.value.flags = pt[slot].flags \cup bits
          /\ active.value.ppn = pt[slot].ppn
          /\ active.value \in PteType
      BY <2>2, <2>3, <3>2 DEF PteType
    <3> QED BY <3>1, <3>3
  <2>5. pt' \in [Slots -> PteType] /\ \A s \in Slots : s # slot => pt'[s] = pt[s]
    <3>1. active.value \in PteType
      BY <1>2, <1>4, <2>4
    <3> QED BY <1>2, <1>4, <3>1
  <2>6. OnlyMarked(pt, pt')
    BY <1>1, <2>1, <2>4, <2>5 DEF OnlyMarked, LeafToWrite
  <2>7. /\ EntryInvalid(pt'[slot].flags) <=> EntryInvalid(pt[slot].flags)
        /\ IsLeaf(pt'[slot].flags) <=> IsLeaf(pt[slot].flags)
        /\ "G" \in pt'[slot].flags <=> "G" \in pt[slot].flags
        /\ PermissionsAllow(q, pt'[slot].flags) <=> PermissionsAllow(q, pt[slot].flags)
    <3> DEFINE f == pt[slot].flags
               g == pt'[slot].flags
    <3>1. f \subseteq g /\ g \subseteq f \cup {"A", "D"}
      BY <2>1, <2>4
    <3> HIDE DEF f, g
    <3>2. /\ EntryInvalid(g) <=> EntryInvalid(f)
          /\ IsLeaf(g) <=> IsLeaf(f)
          /\ "G" \in g <=> "G" \in f
          /\ PermissionsAllow(q, g) <=> PermissionsAllow(q, f)
      BY <1>2, <3>1, AccessBitsDecideNothing
    <3> QED BY <3>2 DEF f, g
  <2>8. TablesOK'
    <3>1. slot \notin GlobalSlots
      <4>1. GlobalsAreShared(work)
        BY WorkloadFacts DEF Inv
      <4> QED BY <1>1, <4>1 DEF Inv, TablesOK, GlobalsAreShared, LeafToWrite
    <3>2. \A s \in GlobalSlots : pt'[s] = Tables[s]
      BY <2>5, <3>1 DEF Inv, TablesOK, GlobalSlots
    <3>3. \A s \in Slots : "G" \in pt'[s].flags => s \in GlobalSlots
      BY <2>5, <2>7 DEF Inv, TablesOK
    <3>4. \A s \in work.dma_stores : ~IsLeaf(pt'[s[1]].flags)
      <4> SUFFICES ASSUME NEW s \in work.dma_stores PROVE ~IsLeaf(pt'[s[1]].flags)
        OBVIOUS
      <4>1. s[1] \in Slots /\ ~IsLeaf(pt[s[1]].flags)
        BY WorkloadFacts DEF Inv, TablesOK
      <4> QED BY <1>1, <2>5, <4>1 DEF LeafToWrite
    <3> QED BY <3>2, <3>3, <3>4 DEF TablesOK
  <2>9. StoresSurviveWalks'
    <3>1. UNCHANGED written
      BY <1>4 DEF FinishWalk, EndWalk, NoAnswer, Answer, ghosts
    <3> QED BY <2>1, <2>4, <2>5, <3>1 DEF Inv, StoresSurviveWalks
  <2>10. /\ ~NeedsAccessBitUpdate(q, pt'[slot].flags)
         /\ PermissionsAllow(q, pt'[slot].flags)
         /\ ~EntryInvalid(pt'[slot].flags) /\ IsLeaf(pt'[slot].flags)
    BY <1>1, <2>4, <2>7 DEF NeedsAccessBitUpdate, LeafToWrite, bits
  <2>11. page # None /\ page = TranslateLeaf(active.level, pt'[slot], q.vpn)
    BY <1>1, <2>4 DEF LeafToWrite, TranslateLeaf
  <2>12. FinishWalk(pt'[slot].flags, page)
    BY <1>4, <2>4
  <2> QED BY <1>1, <1>2, <2>5, <2>6, <2>8, <2>9, <2>10, <2>11, <2>12, FinishWalkKeepsInv
<1> QED BY <1>3, <1>4 DEF FinishLeafUpdate

(* A fence throws out every entry of the translations it declares fresh,   *)
(* but for global ones when it is for one address space: for these it      *)
(* declares nothing.                                                       *)
LEMMA FlushFenceKeepsInv ==
  ASSUME Inv, UNCHANGED work, NEW f \in work.fences, FlushFence(f)
  PROVE  Inv'
PROOF
<1>1. /\ UNCHANGED <<active, next_tlb_entry, bus, pt, request, stores, written, unseen>>
      /\ tlb' = [k \in DOMAIN tlb |->
                    IF tlb[k] # None /\ FenceMatches(f, tlb[k]) THEN None ELSE tlb[k]]
      /\ stale' = stale \ Fenced(f)
      /\ answer' = None
  BY DEF FlushFence
<1>2. TypeOK'
  <2>1. unseen \subseteq stale' /\ stale' \subseteq stale
    BY <1>1 DEF Fenced, Inv, TypeOK
  <2>2. tlb' \in [0..(TlbEntryCount - 1) -> TlbEntryType \cup {None}]
    BY <1>1 DEF Inv, TypeOK
  <2> QED BY <1>1, <2>1, <2>2, TypesStay DEF Inv, TypeOK
<1>3. AnsweredIsIdle' /\ AnswersFollowTables'
  BY <1>1 DEF AnsweredIsIdle, AnswersFollowTables
<1>4. NoAccessAbandoned'
  BY <1>1 DEF Inv, NoAccessAbandoned, NextAccess
<1>5. TlbOK'
  <2> SUFFICES ASSUME NEW k \in DOMAIN tlb, tlb'[k] # None
               PROVE  EntryOK(tlb[k])'
    BY <1>1 DEF TlbOK
  <2> DEFINE e == tlb[k]
  <2>1. tlb'[k] = e /\ e # None /\ ~FenceMatches(f, e) /\ EntryOK(e)
    BY <1>1 DEF Inv, TlbOK
  <2>2. e \in TlbEntryType /\ e.level \in {0, 1} /\ e.global_mapping \in BOOLEAN
    BY <2>1 DEF Inv, TypeOK, TlbEntryType
  <2>3. ASSUME NEW r \in work.requests, Translated(r), Translation(r) \notin stale',
               Matches(e, r)
        PROVE  Translation(r) \notin stale
    <3> SUFFICES ASSUME Translation(r) \in stale PROVE FALSE
      OBVIOUS
    <3>1. Translation(r) \in Fenced(f)
      BY <1>1, <2>3
    <3>2. /\ f.asid # None => ~Global(pt, Translation(r)) /\ r.satp.asid = f.asid
          /\ f.vpn # None => r.vpn = f.vpn
      BY <3>1 DEF Fenced, Translation
    <3>3. f.vpn # None => Base(e.level, f.vpn) = e.base
      BY <2>3, <3>2 DEF Matches
    <3>4. f.asid # None /\ ~(~e.global_mapping /\ e.satp.asid = f.asid)
      BY <2>1, <3>3 DEF FenceMatches
    <3>5. CASE ~e.global_mapping
      BY <2>3, <3>2, <3>4, <3>5 DEF Matches
    <3>6. CASE e.global_mapping
      <4>1. e.level = 0 /\ <<e.satp.root, e.base[1]>> \in GlobalSlots
        BY <2>1, <3>6 DEF EntryOK
      <4>2. r.vpn = e.base
        BY <2>3, <4>1 DEF Matches, Base
      <4>3. PICK q \in work.requests : Translated(q) /\ e.satp = q.satp
        BY <2>1 DEF EntryOK
      <4> DEFINE s == <<e.satp.root, e.base[1]>>
      <4>4. q.satp.root = s[1] /\ e.base[1] = s[2]
        BY <4>3
      <4>5. <<r.satp.root, s[2]>> \in Slots /\ Tables[<<r.satp.root, s[2]>>] = Tables[s]
        <5>1. GlobalsAreShared(work)
          BY WorkloadFacts DEF Inv
        <5> HIDE DEF s
        <5> QED BY <2>3, <4>1, <4>3, <4>4, <5>1 DEF GlobalsAreShared, s
      <4>6. RootPteAddress(r) \in Slots /\ Tables[RootPteAddress(r)] = Tables[s]
        BY <4>2, <4>5 DEF RootPteAddress
      <4>7. RootPteAddress(r) \in GlobalSlots
        BY <4>1, <4>6 DEF GlobalSlots
      <4>8. "G" \in pt[RootPteAddress(r)].flags
        BY <4>7 DEF Inv, TablesOK, GlobalSlots
      <4>9. Global(pt, Translation(r))
        BY <4>6, <4>8 DEF Global, Path, Translation, RootPteAddress
      <4> QED BY <3>2, <3>4, <4>9
    <3> QED BY <2>2, <3>5, <3>6
  <2> HIDE DEF e
  <2>4. EntryOK(tlb[k])'
    BY <1>1, <2>1, <2>3 DEF EntryOK
  <2> QED BY <2>4
<1> QED BY <1>1, <1>2, <1>3, <1>4, <1>5, TablesStay, WalkStays DEF Inv

(* Reset starts over.                                                      *)
LEMMA ResetKeepsInv ==
  ASSUME Inv, UNCHANGED work, Reset
  PROVE  Inv'
PROOF
<1> USE DEF Reset
<1>1. TypeOK'
  <2>1. NoTlb \in [0..(TlbEntryCount - 1) -> TlbEntryType \cup {None}]
    BY DEF NoTlb
  <2>2. 0 \in 0..(TlbEntryCount - 1) /\ Tables \in [Slots -> PteType]
    BY MmuAssumption
  <2> QED BY <2>1, <2>2, TypesStay DEF Inv, TypeOK
<1>2. AnsweredIsIdle' /\ NoAccessAbandoned' /\ WalkerOK' /\ AnswersFollowTables'
  BY DEF AnsweredIsIdle, NoAccessAbandoned, WalkerOK, AnswersFollowTables
<1>3. TablesOK'
  <2>1. DmaKeepsToTables(work)
    BY WorkloadFacts DEF Inv
  <2> QED BY <2>1 DEF TablesOK, DmaKeepsToTables, GlobalSlots
<1>4. StoresSurviveWalks'
  BY DEF StoresSurviveWalks
<1>5. TlbOK'
  BY DEF TlbOK, NoTlb
<1> QED BY <1>1, <1>2, <1>3, <1>4, <1>5 DEF Inv

(* A store of software makes stale what it touches, and nothing else in    *)
(* the TLB depends on it.                                                  *)
LEMMA StoreKeepsTables ==
  ASSUME Inv, UNCHANGED <<work, tlb>>,
         NEW s \in work.cpu_stores \cup work.dma_stores, Store(s[1], s[2])
  PROVE  /\ pt' \in [Slots -> PteType] /\ written' \in [Slots -> PteType]
         /\ stale \subseteq stale' /\ stale' \subseteq Satps \X Vpns
         /\ stores' \in 0..MaxStores /\ answer' = None
         /\ TablesOK' /\ StoresSurviveWalks' /\ TlbOK'
PROOF
<1> DEFINE slot == s[1]
           new == [pt EXCEPT ![slot] = s[2]]
<1>1. slot \in Slots /\ s[2] \in PteType
  BY WorkloadFacts DEF Inv
<1>2. /\ pt \in [Slots -> PteType] /\ written \in [Slots -> PteType]
      /\ stores \in 0..MaxStores /\ MaxStores \in Nat /\ stale \subseteq Satps \X Vpns
  BY MmuAssumption DEF Inv, TypeOK
<1>3. /\ stores < MaxStores /\ stores' = stores + 1 /\ pt' = new
      /\ written' = [written EXCEPT ![slot] = s[2]]
      /\ stale' = stale \cup Touched(slot, pt, new)
      /\ answer' = None
  BY DEF Store
<1>4. Touched(slot, pt, new) \subseteq Satps \X Vpns
  BY DEF Touched
<1>5. /\ pt' \in [Slots -> PteType] /\ written' \in [Slots -> PteType]
      /\ stale \subseteq stale' /\ stale' \subseteq Satps \X Vpns
      /\ stores' \in 0..MaxStores /\ answer' = None
  <2>1. stores + 1 \in 0..MaxStores
    BY <1>2, <1>3
  <2>2. new \in [Slots -> PteType] /\ [written EXCEPT ![slot] = s[2]] \in [Slots -> PteType]
    BY <1>1, <1>2
  <2> QED BY <1>2, <1>3, <1>4, <2>1, <2>2
<1>6. /\ pt'[slot] = s[2] /\ written'[slot] = s[2]
      /\ \A x \in Slots : x # slot => pt'[x] = pt[x] /\ written'[x] = written[x]
  BY <1>1, <1>2, <1>3
<1>7. TablesOK'
  <2>1. GlobalsAreShared(work) /\ DmaKeepsToTables(work)
    BY WorkloadFacts DEF Inv
  <2>2. slot \notin GlobalSlots /\ "G" \notin s[2].flags
    BY <2>1 DEF GlobalsAreShared
  <2>3. \A x \in GlobalSlots : pt'[x] = Tables[x]
    BY <1>6, <2>2 DEF Inv, TablesOK, GlobalSlots
  <2>4. \A x \in Slots : "G" \in pt'[x].flags => x \in GlobalSlots
    BY <1>6, <2>2 DEF Inv, TablesOK
  <2>5. ASSUME NEW d \in work.dma_stores PROVE ~IsLeaf(pt'[d[1]].flags)
    <3>1. d[1] \in Slots /\ ~IsLeaf(pt[d[1]].flags)
      BY WorkloadFacts DEF Inv, TablesOK
    <3>2. d[1] = slot => ~IsLeaf(s[2].flags)
      BY <2>1 DEF DmaKeepsToTables
    <3> QED BY <1>6, <3>1, <3>2
  <2> QED BY <2>3, <2>4, <2>5 DEF TablesOK
<1>8. StoresSurviveWalks'
  BY <1>6 DEF Inv, StoresSurviveWalks
<1>9. TlbOK'
  <2> SUFFICES ASSUME NEW k \in DOMAIN tlb, tlb[k] # None
               PROVE  EntryOK(tlb[k])'
    BY DEF TlbOK
  <2>1. EntryOK(tlb[k]) /\ tlb' = tlb
    BY DEF Inv, TlbOK
  <2>2. ASSUME NEW r \in work.requests, Translation(r) \notin stale', Agrees(pt, tlb[k], r)
        PROVE  Agrees(pt', tlb[k], r)
    <3>1. Translation(r) \in Satps \X Vpns
      BY DEF Translation, Satps, Vpns
    <3>2. slot \notin Path(pt, r.satp, r.vpn)
      BY <1>3, <2>2, <3>1 DEF Touched, Translation
    <3> QED BY <1>2, <1>3, <2>2, <3>2, StoreOffPath
  <2>3. ASSUME NEW p, p \notin stale' PROVE p \notin stale
    BY <1>5, <2>3
  <2> QED BY <2>1, <2>2, <2>3 DEF EntryOK
<1> QED BY <1>5, <1>7, <1>8, <1>9

(* A store of the core finds no walk in progress.                          *)
LEMMA CpuStoreKeepsInv ==
  ASSUME Inv, UNCHANGED work, CpuStore
  PROVE  Inv'
PROOF
<1> USE DEF walker
<1>1. PICK s \in work.cpu_stores : Store(s[1], s[2])
  BY DEF CpuStore
<1>2. UNCHANGED <<walker, bus, request, unseen>> /\ active = None
  BY DEF CpuStore, Inv, AnsweredIsIdle
<1>3. /\ pt' \in [Slots -> PteType] /\ written' \in [Slots -> PteType]
      /\ stale \subseteq stale' /\ stale' \subseteq Satps \X Vpns
      /\ stores' \in 0..MaxStores /\ answer' = None
      /\ TablesOK' /\ StoresSurviveWalks' /\ TlbOK'
  BY <1>1, <1>2, StoreKeepsTables
<1>4. TypeOK'
  BY <1>2, <1>3, TypesStay DEF Inv, TypeOK
<1>5. AnsweredIsIdle' /\ AnswersFollowTables' /\ WalkerOK' /\ NoAccessAbandoned'
  BY <1>2, <1>3 DEF AnsweredIsIdle, AnswersFollowTables, WalkerOK, NoAccessAbandoned, Inv
<1> QED BY <1>3, <1>4, <1>5 DEF Inv

(* A store of the DMA engine may find one, which it leads astray unseen.   *)
LEMMA DmaStoreKeepsInv ==
  ASSUME Inv, UNCHANGED work, DmaStore
  PROVE  Inv'
PROOF
<1> USE DEF walker
<1>1. PICK s \in work.dma_stores :
        /\ Store(s[1], s[2])
        /\ unseen' = unseen \cup Touched(s[1], pt, [pt EXCEPT ![s[1]] = s[2]])
        /\ UNCHANGED <<walker, bus, request>>
  BY DEF DmaStore
<1> DEFINE slot == s[1]
<1>2. /\ pt' \in [Slots -> PteType] /\ written' \in [Slots -> PteType]
      /\ stale \subseteq stale' /\ stale' \subseteq Satps \X Vpns
      /\ stores' \in 0..MaxStores /\ answer' = None
      /\ TablesOK' /\ StoresSurviveWalks' /\ TlbOK'
  BY <1>1, StoreKeepsTables
<1>3. pt' = [pt EXCEPT ![slot] = s[2]] /\ stale' = stale \cup Touched(slot, pt, pt')
      /\ unseen' = unseen \cup Touched(slot, pt, pt')
  BY <1>1 DEF Store
<1>4. TypeOK'
  BY <1>1, <1>2, <1>3, TypesStay DEF Inv, TypeOK
<1>5. AnsweredIsIdle' /\ AnswersFollowTables' /\ NoAccessAbandoned'
  BY <1>1, <1>2 DEF AnsweredIsIdle, AnswersFollowTables, NoAccessAbandoned, NextAccess, Inv
<1>6. WalkerOK'
  <2> SUFFICES ASSUME active # None PROVE WalkOK(active)'
    BY <1>1 DEF WalkerOK
  <2> DEFINE r == active.request
             root == RootPteAddress(r)
  <2>1. WalkOK(active) /\ active \in WalkType /\ r \in work.requests /\ pt \in [Slots -> PteType]
    BY DEF Inv, WalkerOK, TypeOK, WalkType
  <2>2. ~IsLeaf(pt[slot].flags) /\ slot \notin GlobalSlots /\ DOMAIN pt = Slots
    <3>1. GlobalsAreShared(work)
      BY WorkloadFacts DEF Inv
    <3> QED BY <2>1, <3>1 DEF GlobalsAreShared, Inv, TablesOK
  <2>3. \A x \in Slots : x # slot => pt'[x] = pt[x]
    BY <1>3, <2>1
  <2>4. LeafToWrite(pt, active) => LeafToWrite(pt', active)
    BY <2>2, <2>3 DEF LeafToWrite
  <2>5. ASSUME active.level = 0, Translation(r) \notin unseen'
        PROVE  BelowRoot(pt', active)
    <3>1. Translation(r) \notin unseen /\ Translation(r) \notin Touched(slot, pt, pt')
      BY <1>3, <2>5
    <3>2. slot \notin Path(pt, r.satp, r.vpn)
      BY <2>1, <3>1 DEF Touched, Translation, Satps, Vpns
    <3>3. BelowRoot(pt, active)
      BY <2>1, <2>5, <3>1 DEF WalkOK
    <3> QED BY <1>3, <2>2, <3>2, <3>3, StoreOffPath
  <2>6. ASSUME active.level = 0, active.global_mapping
        PROVE  BelowRoot(pt', active)
    <3>1. BelowRoot(pt, active)
      BY <2>1, <2>6 DEF WalkOK
    <3>2. root \in Slots /\ "G" \in pt[root].flags
      BY <2>6, <3>1 DEF BelowRoot, PointsDown
    <3>3. root # slot
      BY <2>2, <3>2 DEF Inv, TablesOK
    <3> QED BY <2>3, <3>1, <3>2, <3>3 DEF BelowRoot, PointsDown
  <2>7. active' = active
    BY <1>1
  <2> QED BY <2>1, <2>4, <2>5, <2>6, <2>7 DEF WalkOK
<1> QED BY <1>2, <1>4, <1>5, <1>6 DEF Inv

-----------------------------------------------------------------------------
(* The theorems. *)

(* The invariant holds at the start,                                       *)
LEMMA InitEstablishesInv == Init => Inv
PROOF
<1> SUFFICES ASSUME Init PROVE Inv
  OBVIOUS
<1> USE DEF Init
<1>1. TypeOK
  <2>1. NoTlb \in [0..(TlbEntryCount - 1) -> TlbEntryType \cup {None}]
    BY DEF NoTlb
  <2>2. 0 \in 0..(TlbEntryCount - 1) /\ 0 \in 0..MaxStores /\ Tables \in [Slots -> PteType]
    BY MmuAssumption
  <2> QED BY <2>1, <2>2 DEF TypeOK
<1>2. AnsweredIsIdle /\ NoAccessAbandoned /\ WalkerOK /\ AnswersFollowTables
  BY DEF AnsweredIsIdle, NoAccessAbandoned, WalkerOK, AnswersFollowTables
<1>3. TablesOK
  <2>1. DmaKeepsToTables(work)
    BY <1>1, WorkloadFacts
  <2> QED BY <2>1 DEF TablesOK, DmaKeepsToTables, GlobalSlots
<1>4. StoresSurviveWalks /\ TlbOK
  BY DEF StoresSurviveWalks, TlbOK, NoTlb
<1> QED BY <1>1, <1>2, <1>3, <1>4 DEF Inv

(* and every step keeps it.                                                *)
LEMMA StepKeepsInv == Inv /\ [Next]_vars => Inv'
PROOF
<1> SUFFICES ASSUME Inv, [Next]_vars PROVE Inv'
  OBVIOUS
<1>1. CASE UNCHANGED vars
  <2> USE <1>1 DEF vars, walker, ghosts
  <2>1. TypeOK'
    BY TypesStay DEF Inv, TypeOK
  <2>2. AnsweredIsIdle' /\ AnswersFollowTables' /\ NoAccessAbandoned'
    BY DEF AnsweredIsIdle, AnswersFollowTables, NoAccessAbandoned, NextAccess, Inv
  <2> QED BY <2>1, <2>2, TablesStay, TlbStays, WalkStays DEF Inv
<1>2. CASE Next
  <2>1. UNCHANGED work
    BY <1>2 DEF Next
  <2>2. CASE Translate
    BY <2>1, <2>2, BypassKeepsInv, HitKeepsInv, StartWalkKeepsInv, ReadPteKeepsInv,
       FinishLeafUpdateKeepsInv, IssueKeepsInv DEF Translate
  <2>3. CASE \E r \in work.requests : Turn(r)
    BY <2>1, <2>3, TurnKeepsInv
  <2>4. CASE \E f \in work.fences : FlushFence(f)
    BY <2>1, <2>4, FlushFenceKeepsInv
  <2>5. CASE Reset
    BY <2>1, <2>5, ResetKeepsInv
  <2>6. CASE CpuStore
    BY <2>1, <2>6, CpuStoreKeepsInv
  <2>7. CASE DmaStore
    BY <2>1, <2>7, DmaStoreKeepsInv
  <2> QED BY <1>2, <2>2, <2>3, <2>4, <2>5, <2>6, <2>7 DEF Next
<1> QED BY <1>1, <1>2

(* The inductive invariant holds in every reachable state.                 *)
THEOREM InvariantHolds == Spec => []Inv
  BY InitEstablishesInv, StepKeepsInv, PTL DEF Spec

(* The state of the walker, the TLB and the ghosts stays well typed        *)
(* (mmu.rs).                                                               *)
THEOREM TypeCorrect == Spec => []TypeOK
  BY InvariantHolds, PTL DEF Inv

(* Every answer, from the TLB or from a walk, is the one the page tables   *)
(* give the request presented, unless software owes a fence for it         *)
(* (mmu.rs translate, lookup_tlb, step).                                   *)
THEOREM AnswersAreFaithful == Spec => []AnswersFollowTables
  BY InvariantHolds, PTL DEF Inv

(* The walker's write-backs of A and D lose nothing software stored        *)
(* (mmu.rs finish_leaf_update, and the drain loop of translate).           *)
THEOREM WalksLoseNoStore == Spec => []StoresSurviveWalks
  BY InvariantHolds, PTL DEF Inv

(* The bus never holds an access of a walk that is no longer there         *)
(* (mmu.rs translate).                                                     *)
THEOREM WalksKeepTheirAccess == Spec => []NoAccessAbandoned
  BY InvariantHolds, PTL DEF Inv
=============================================================================
