------------------------------ MODULE MCCache ------------------------------
(***************************************************************************)
(* Bounded instance of Cache: three cached lines of two words that compete *)
(* for two ways, and one line that is not cached.                          *)
(***************************************************************************)
EXTENDS Cache

Policy(set_count, way_count, write_back, write_allocate, lru) ==
  [set_count |-> set_count, way_count |-> way_count, write_back |-> write_back,
   write_allocate |-> write_allocate, lru |-> lru, split |-> FALSE]

MCConfigs == {Policy(1, 2, TRUE, TRUE, TRUE), Policy(2, 1, TRUE, FALSE, FALSE),
              Policy(1, 2, FALSE, TRUE, FALSE), Policy(1, 1, FALSE, FALSE, TRUE)}

MCWriteBackConfig == {Policy(1, 2, TRUE, TRUE, TRUE)}

MCStores == {[word |-> 0, value |-> 1], [word |-> 2, value |-> 1], [word |-> 5, value |-> 1],
             [word |-> 6, value |-> 1]}

MCCleans == {[start |-> 0, len |-> 4]}

MCDiscards == {[start |-> 4, len |-> 2]}

MCNeighbourDiscards == {[start |-> 0, len |-> 2]}

MCDeviceWrites == {[word |-> 4, value |-> 2]}
============================================================================
