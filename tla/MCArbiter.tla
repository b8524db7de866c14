----------------------------- MODULE MCArbiter -----------------------------
(***************************************************************************)
(* Bounded instance of Arbiter: a master with a window of two and one with *)
(* a window of one, the latter the default of BusMaster.                   *)
(***************************************************************************)
EXTENDS Arbiter

MCWindow == [m \in Masters |-> IF m = 0 THEN 2 ELSE 1]
=============================================================================
