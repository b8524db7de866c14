----------------------------- MODULE MCSplitL1 -----------------------------
(***************************************************************************)
(* The instance of MCCache with two split configurations: an instruction   *)
(* and a data bank of one way each.                                        *)
(***************************************************************************)
EXTENDS SplitL1, MCCache

Split(policy) == [policy EXCEPT !.split = TRUE]

MCSplitConfigs ==
  MCConfigs \cup {Split(Policy(1, 1, FALSE, FALSE, TRUE)), Split(Policy(1, 1, TRUE, TRUE, FALSE))}
=============================================================================
