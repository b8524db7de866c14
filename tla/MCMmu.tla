------------------------------- MODULE MCMmu -------------------------------
(***************************************************************************)
(* Two address spaces for Mmu.  Space A maps its first region through a    *)
(* table, space B as a superpage; both map their second region through one *)
(* global table.                                                           *)
(***************************************************************************)
EXTENDS Mmu, TLC

SpaceA == [mode |-> TRUE, asid |-> 0, root |-> <<0, 0>>]
SpaceB == [mode |-> TRUE, asid |-> 1, root |-> <<0, 1>>]
Off    == [mode |-> FALSE, asid |-> 0, root |-> <<0, 0>>]

TableT == <<0, 2>>
TableU == <<0, 3>>    \* a second table for A's first region
TableG == <<0, 4>>
Nowhere == <<3, 3>>   \* no memory there

Pte(flags, ppn) == [flags |-> flags, ppn |-> ppn]
Leaf == {"V", "R", "W", "U"}
Invalid == Pte({}, <<0, 0>>)

MCTables ==
    (<<SpaceA.root, 0>> :> Pte({"V"}, TableT)) @@
    (<<SpaceA.root, 1>> :> Pte({"V", "G"}, TableG)) @@
    (<<SpaceB.root, 0>> :> Pte(Leaf \cup {"A"}, <<2, 0>>)) @@
    (<<SpaceB.root, 1>> :> Pte({"V", "G"}, TableG)) @@
    (<<TableT, 0>> :> Pte(Leaf, <<1, 0>>)) @@
    (<<TableT, 1>> :> Pte({"V", "X", "A"}, <<1, 1>>)) @@
    (<<TableU, 0>> :> Pte(Leaf \cup {"A", "D"}, <<1, 2>>)) @@
    (<<TableU, 1>> :> Invalid) @@
    (<<TableG, 0>> :> Pte(Leaf \cup {"A"}, <<1, 3>>)) @@
    (<<TableG, 1>> :> Pte({"V", "R"}, <<1, 3>>))

MCReadOnlySlots == {<<TableG, 1>>}

Ask(satp, privilege, vpn, access) ==
    [satp |-> satp, status |-> {}, privilege |-> privilege, vpn |-> vpn, access |-> access]

LoadA   == Ask(SpaceA, User, <<0, 0>>, "Load")
StoreA  == Ask(SpaceA, User, <<0, 0>>, "Store")
FetchA  == Ask(SpaceA, Supervisor, <<0, 1>>, "Instruction")
LoadB   == Ask(SpaceB, User, <<0, 0>>, "Load")
GlobalA == [Ask(SpaceA, Supervisor, <<1, 0>>, "Load") EXCEPT !.status = {SUM}]
GlobalB == Ask(SpaceB, User, <<1, 0>>, "Load")
RomA    == Ask(SpaceA, Supervisor, <<1, 1>>, "Load")
Untranslated == Ask(Off, Machine, <<0, 0>>, "Store")

Fence(vpn, asid) == [vpn |-> vpn, asid |-> asid]

Work(requests, fences, cpu_stores, dma_stores) ==
    [requests |-> requests \cup {Untranslated}, fences |-> fences \cup {Fence(None, None)},
     cpu_stores |-> cpu_stores, dma_stores |-> dma_stores]

T0 == <<TableT, 0>>
G0 == <<TableG, 0>>

MCWorkloads ==
    { \* one page, loaded and stored, that software unmaps and maps elsewhere
      Work({LoadA, StoreA}, {Fence(<<0, 0>>, None), Fence(None, 0)},
           {<<T0, Invalid>>, <<T0, Pte(Leaf, <<1, 3>>)>>}, {}),
      \* a page and a superpage at one address in two spaces, and a fetch
      Work({LoadA, LoadB, FetchA}, {Fence(<<0, 0>>, 1)},
           {<< <<SpaceB.root, 0>>, Pte(Leaf \cup {"A"}, <<2, 1>>)>>,
            << <<SpaceB.root, 0>>, Pte({"V", "R", "X", "U"}, <<3, 0>>)>>}, {}),
      \* a mapping both spaces share
      Work({GlobalA, GlobalB, RomA}, {Fence(<<1, 0>>, None), Fence(None, 0)},
           {<<G0, Pte({"V", "W"}, <<1, 3>>)>>, <<G0, Pte(Leaf \cup {"A"}, <<1, 0>>)>>}, {}),
      \* tables that the DMA engine switches
      Work({StoreA, FetchA}, {Fence(None, 0)},
           {<< <<SpaceA.root, 0>>, Pte({"V", "A"}, TableT)>>},
           {<< <<SpaceA.root, 0>>, Pte({"V"}, TableU)>>, << <<SpaceA.root, 0>>, Pte({"V"}, Nowhere)>>}) }
=============================================================================
