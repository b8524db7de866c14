---------------------------- MODULE MCMemoryMap ----------------------------
(***************************************************************************)
(* Bounded instance of MemoryMap: two RAM words and one ROM word behind    *)
(* it, so that a burst over words 0..1 is routable, one over 1..2 crosses  *)
(* a device boundary, word 2 rejects stores and word 3 is unmapped.        *)
(***************************************************************************)
EXTENDS MemoryMap

MCDeviceOf == [w \in 0 .. 2 |-> IF w = 2 THEN "rom" ELSE "ram"]

MCLatencies == [w \in 0 .. 2 |-> IF w = 0 THEN {0, 2} ELSE {1}]

MCPowerOnWords == [w \in 0 .. 2 |-> 0]

Request(kind, addr, data) == [kind |-> kind, addr |-> addr, data |-> data]

MCAccessRequests ==
  { Request("load", 0, <<0>>), Request("store", 0, <<1>>),
    Request("store", 2, <<1>>), Request("fetch", 3, <<0>>) }

MCBurstRequests ==
  { Request("load", 0, <<0, 0>>), Request("store", 0, <<2, 2>>),
    Request("load", 1, <<0, 0>>) }
=============================================================================
