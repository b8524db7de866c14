----------------------------- MODULE Assembler -----------------------------
(***************************************************************************)
(* Instruction words by their mnemonics, for the programs of the instances.*)
(* Loads and stores are addressed from x0.                                 *)
(***************************************************************************)
EXTENDS Isa

Raw(opcode, f3, rd, rs1, rs2, imm) ==
    [opcode |-> opcode, funct3 |-> f3, funct7 |-> 0, rd |-> rd, rs1 |-> rs1, rs2 |-> rs2,
     imm |-> imm]
Addi(rd, rs1, imm) == Raw(\h13, 0, rd, rs1, 0, imm)
Andi(rd, rs1, imm) == Raw(\h13, 7, rd, rs1, 0, imm)
Add(rd, rs1, rs2) == Raw(\h33, 0, rd, rs1, rs2, 0)
Lw(rd, address) == Raw(\h03, 2, rd, 0, 0, address)
Lb(rd, address) == Raw(\h03, 0, rd, 0, 0, address)
Sw(rs2, address) == Raw(\h23, 2, 0, 0, rs2, address)
Sb(rs2, address) == Raw(\h23, 0, 0, 0, rs2, address)
Beq(rs1, rs2, offset) == Raw(\h63, 0, 0, rs1, rs2, offset)
Bne(rs1, rs2, offset) == Raw(\h63, 1, 0, rs1, rs2, offset)
Jal(rd, offset) == Raw(\h6F, 0, rd, 0, 0, offset)
Jalr(rd, rs1, imm) == Raw(\h67, 0, rd, rs1, 0, imm)
Csrrw(rd, csr, rs1) == Raw(\h73, 1, rd, rs1, 0, csr)
Csrrs(rd, csr, rs1) == Raw(\h73, 2, rd, rs1, 0, csr)
Csrrci(rd, csr, uimm) == Raw(\h73, 7, rd, uimm, 0, csr)
Ecall == Raw(\h73, 0, 0, 0, 0, 0)
Ebreak == Raw(\h73, 0, 0, 0, 0, 1)
Wfi == Raw(\h73, 0, 0, 0, 0, \h105)
Sret == Raw(\h73, 0, 0, 0, 0, \h102)
Mret == Raw(\h73, 0, 0, 0, 0, \h302)
SfenceVma == [Raw(\h73, 0, 0, 0, 0, \h120) EXCEPT !.funct7 = 9]
Illegal == Raw(0, 0, 0, 0, 0, 0)
=============================================================================
