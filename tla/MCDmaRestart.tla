---------------------------- MODULE MCDmaRestart ----------------------------
(***************************************************************************)
(* A transfer that runs off the end of a five-word RAM with a window of    *)
(* three one-word requests, and a one-word transfer started after it has   *)
(* failed.  The controller's own window of four bursts of eight words      *)
(* behaves in the same way with more words.                                *)
(***************************************************************************)
EXTENDS DmaSystem

MCDeviceOf == [w \in 0 .. 4 |-> "ram"]

MCLatencies == [w \in 0 .. 4 |-> IF w \in {1, 4} THEN {4} ELSE {0}]

MCImage == [w \in 0 .. 4 |-> w + 1]

MCPowerOnWords == [w \in 0 .. 4 |-> 0]

MCWindow == [m \in {0} |-> MaxOutstandingRequests]

MCControlWrites == { {"start"} }
=============================================================================
