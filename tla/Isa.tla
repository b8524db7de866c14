------------------------------- MODULE Isa -------------------------------
(***************************************************************************)
(* The instruction set (crates/isa): words, CSR addresses, traps and the   *)
(* decoder.                                                                *)
(*                                                                         *)
(* A word has XLEN = 24 bits and a byte 6, so that four bytes make a word  *)
(* and every word is an integer of TLC; the code has 32 and 8.  An         *)
(* instruction word is the record of its fields, the immediates already    *)
(* assembled; a signed immediate is an integer.                            *)
(***************************************************************************)
EXTENDS Integers, FiniteSets, FiniteSetsExt

CONSTANT None      \* no instruction, no register value, no trap

ASSUME NoneAssumption == None \notin Int

XLEN == 24
BYTE == 2^6
WORD == 2^XLEN
TOP == 2^(XLEN - 1)   \* the interrupt bit of a cause, the mode bit of satp

Word(n) == n % WORD
Signed(w) == IF w >= TOP THEN w - WORD ELSE w
Bits(w) == {b \in 0..(XLEN - 1) : (w \div 2^b) % 2 = 1}
OfBits(S) == MapThenSumSet(LAMBDA b : 2^b, S)

-----------------------------------------------------------------------------
(* CSR addresses. *)

Sstatus == \h100
Sie == \h104
Stvec == \h105
Scounteren == \h106
Sepc == \h141
Scause == \h142
Stval == \h143
Sip == \h144
Satp == \h180
Mstatus == \h300
Medeleg == \h302
Mideleg == \h303
Mie == \h304
Mtvec == \h305
Mcounteren == \h306
Mepc == \h341
Mcause == \h342
Mtval == \h343
Mip == \h344
Cycle == \hC00
Time == \hC01
Instret == \hC02

\* The modelled addresses; of the counters only the user views, which are
\* read-only and guarded by the counter-enable registers.
CsrAddress ==
    {Sstatus, Sie, Stvec, Scounteren, Sepc, Scause, Stval, Sip, Satp, Mstatus,
     Medeleg, Mideleg, Mie, Mtvec, Mcounteren, Mepc, Mcause, Mtval, Mip,
     Cycle, Time, Instret}

MinPrivilegeLevel(csr) == (csr \div 256) % 4
IsReadOnly(csr) == (csr \div 1024) % 4 = 3
CounterenBit(csr) == CASE csr = Cycle -> 0 [] csr = Time -> 1
                       [] csr = Instret -> 2 [] OTHER -> None

-----------------------------------------------------------------------------
(* Traps: an exception or an interrupt, its cause code and trap value. *)

SupervisorSoftware == 1
MachineSoftware == 3
SupervisorTimer == 5
MachineTimer == 7
SupervisorExternal == 9
MachineExternal == 11
Interrupts == {1, 3, 5, 7, 9, 11}
IsSupervisor(interrupt) == interrupt \in {1, 5, 9}

Exception(code, tval) == [interrupt |-> FALSE, code |-> code, tval |-> tval]
Interrupt(code) == [interrupt |-> TRUE, code |-> code, tval |-> 0]

\* The instruction word is the trap value of an illegal instruction: it
\* stands here by its opcode.
IllegalInstruction(raw) == Exception(2, raw.opcode)
Breakpoint == Exception(3, 0)

Misaligned(access, address) ==
    Exception([Instruction |-> 0, Load |-> 4, Store |-> 6][access], address)
AccessFault(access, address) ==
    Exception([Instruction |-> 1, Load |-> 5, Store |-> 7][access], address)
PageFault(access, address) ==
    Exception([Instruction |-> 12, Load |-> 13, Store |-> 15][access], address)

CauseBits(trap) == trap.code + (IF trap.interrupt THEN TOP ELSE 0)

-----------------------------------------------------------------------------
(* decode. *)

DecodeBranch(f3) ==
    CASE f3 = 0 -> "Beq" [] f3 = 1 -> "Bne" [] f3 = 4 -> "Blt"
      [] f3 = 5 -> "Bge" [] f3 = 6 -> "Bltu" [] f3 = 7 -> "Bgeu"
      [] OTHER -> None

DecodeLoad(f3) ==
    CASE f3 = 0 -> "Byte" [] f3 = 1 -> "Half" [] f3 = 2 -> "Word"
      [] f3 = 4 -> "ByteUnsigned" [] f3 = 5 -> "HalfUnsigned"
      [] OTHER -> None

DecodeStore(f3) ==
    CASE f3 = 0 -> "Byte" [] f3 = 1 -> "Half" [] f3 = 2 -> "Word"
      [] OTHER -> None

DecodeOp(f3, f7) ==
    CASE f7 = 0 -> [f \in 0..7 |-> CASE f = 0 -> "Add" [] f = 1 -> "Sll"
                                     [] f = 2 -> "Slt" [] f = 3 -> "Sltu"
                                     [] f = 4 -> "Xor" [] f = 5 -> "Srl"
                                     [] f = 6 -> "Or" [] f = 7 -> "And"][f3]
      [] f7 = 32 /\ f3 = 0 -> "Sub"
      [] f7 = 32 /\ f3 = 5 -> "Sra"
      [] OTHER -> None

\* The upper immediate bits select only between the right shifts.
DecodeOpImm(f3, f7) ==
    IF f3 \in {1, 5} THEN DecodeOp(f3, f7) ELSE DecodeOp(f3, 0)

\* raw.imm stands for bits 20 to 31 of the word; registers must be zero.
DecodeSystem(raw) ==
    CASE raw.rd = 0 /\ raw.rs1 = 0 /\ raw.imm = 0 -> "Ecall"
      [] raw.rd = 0 /\ raw.rs1 = 0 /\ raw.imm = 1 -> "Ebreak"
      [] raw.rd = 0 /\ raw.rs1 = 0 /\ raw.imm = \h105 -> "Wfi"
      [] raw.rd = 0 /\ raw.rs1 = 0 /\ raw.imm = \h102 -> "Sret"
      [] raw.rd = 0 /\ raw.rs1 = 0 /\ raw.imm = \h302 -> "Mret"
      [] raw.rd = 0 /\ raw.funct7 = 9 -> "SfenceVma"
      [] OTHER -> None

DecodeCsrOp(f3) ==
    CASE f3 = 1 -> "ReadWrite" [] f3 = 2 -> "ReadSet" [] f3 = 3 -> "ReadClear"
      [] f3 = 5 -> "ReadWriteImmediate" [] f3 = 6 -> "ReadSetImmediate"
      [] f3 = 7 -> "ReadClearImmediate" [] OTHER -> None

\* A decoded instruction.  A register field the format lacks is x0: no
\* instruction reads or writes state through it.
DecodedInstruction(raw, pc, kind, op, rd, rs1, rs2, imm, csr) ==
    [raw |-> raw, pc |-> pc, kind |-> kind, op |-> op, rd |-> rd,
     rs1 |-> rs1, rs2 |-> rs2, imm |-> imm, csr |-> csr]

\* The decoded instruction, or None for a DecodeError.
Decode(raw, pc) ==
    LET Of(kind, op, rd, rs1, rs2, imm, csr) ==
            IF op = None THEN None
            ELSE DecodedInstruction(raw, pc, kind, op, rd, rs1, rs2, imm, csr)
        f3 == raw.funct3
        f7 == raw.funct7
        sys == DecodeSystem(raw)
        fence == sys = "SfenceVma"
    IN  CASE raw.opcode = \h37 -> Of("Lui", "", raw.rd, 0, 0, raw.imm, None)
          [] raw.opcode = \h17 -> Of("Auipc", "", raw.rd, 0, 0, raw.imm, None)
          [] raw.opcode = \h6F -> Of("Jal", "", raw.rd, 0, 0, raw.imm, None)
          [] raw.opcode = \h67 /\ f3 = 0
                -> Of("Jalr", "", raw.rd, raw.rs1, 0, raw.imm, None)
          [] raw.opcode = \h63
                -> Of("Branch", DecodeBranch(f3), 0, raw.rs1, raw.rs2, raw.imm, None)
          [] raw.opcode = \h03
                -> Of("Load", DecodeLoad(f3), raw.rd, raw.rs1, 0, raw.imm, None)
          [] raw.opcode = \h23
                -> Of("Store", DecodeStore(f3), 0, raw.rs1, raw.rs2, raw.imm, None)
          [] raw.opcode = \h13
                -> Of("OpImm", DecodeOpImm(f3, f7), raw.rd, raw.rs1, 0, raw.imm, None)
          [] raw.opcode = \h33
                -> Of("Op", DecodeOp(f3, f7), raw.rd, raw.rs1, raw.rs2, 0, None)
          [] raw.opcode = \h73 /\ f3 = 0
                -> Of("System", sys, 0, IF fence THEN raw.rs1 ELSE 0,
                      IF fence THEN raw.rs2 ELSE 0, 0, None)
          [] raw.opcode = \h73 /\ f3 # 0 /\ raw.imm \in CsrAddress
                -> Of("Csr", DecodeCsrOp(f3), raw.rd, raw.rs1, 0, 0, raw.imm)
          [] OTHER -> None
=============================================================================
