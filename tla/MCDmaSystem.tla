---------------------------- MODULE MCDmaSystem ----------------------------
(***************************************************************************)
(* Bounded instance of DmaSystem: seven words of RAM and two of ROM, with  *)
(* bursts of two words and a window of two requests, so that a transfer of *)
(* five words is split in three, fills the read-ahead buffer, overlaps its *)
(* own reads and writes, and can run into the ROM or be refused there.     *)
(***************************************************************************)
EXTENDS DmaSystem

MCDeviceOf == [w \in 0 .. 8 |-> IF w >= 7 THEN "rom" ELSE "ram"]

MCLatencies == [w \in 0 .. 8 |-> IF w \in {0, 1, 4} THEN {0, 3} ELSE {0}]

MCImage == [w \in 0 .. 8 |-> w + 1]

MCPowerOnWords == [w \in 0 .. 8 |-> IF w >= 7 THEN w + 1 ELSE 0]

MCWindow == [m \in {0} |-> MaxOutstandingRequests]

MCControlWrites == { {"start", "irq"}, {"done", "error"} }
=============================================================================
