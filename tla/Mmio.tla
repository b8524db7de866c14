------------------------------- MODULE Mmio -------------------------------
(***************************************************************************)
(* Registers behind byte accesses (system/src/bus.rs): a device answers    *)
(* load8 and store8, and a wider access of a core is its bytes, lowest     *)
(* address first, in one cycle.  The bytes are those of Isa: four to a     *)
(* word.                                                                   *)
(***************************************************************************)
EXTENDS Isa

ByteOf(word, k) == (word \div BYTE^k) % BYTE
WithByte(word, k, value) == word + ((value - ByteOf(word, k)) * BYTE^k)
=============================================================================
