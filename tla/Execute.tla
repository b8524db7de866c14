------------------------------ MODULE Execute ------------------------------
(***************************************************************************)
(* execute_decoded (cpu/src/exec/mod.rs): one decoded instruction against  *)
(* the hart, the meaning of an instruction for the reference core and for  *)
(* the architecture.                                                       *)
(***************************************************************************)
EXTENDS Hart

Retire(h, rd, value, pc) == [WriteReg(h, rd, value) EXCEPT !.pc = pc]

\* execute_decoded: mem is the outcome of the data access of a load or
\* store.  The result is the hart that follows; a stalled access leaves it.
ExecuteDecoded(h, d, mem) ==
    LET next_pc == Word(d.pc + 4)
        rs1 == ReadReg(h, d.rs1)
        rs2 == ReadReg(h, d.rs2)
        target == Word(d.pc + d.imm)
        Trap(trap) == ApplyTrap(h, trap, d.pc)
    IN  CASE d.kind = "Lui" -> Retire(h, d.rd, Word(d.imm), next_pc)
          [] d.kind = "Auipc" -> Retire(h, d.rd, target, next_pc)
          [] d.kind = "Jal" -> Retire(h, d.rd, next_pc, target)
          [] d.kind = "Jalr" ->
                 LET t == EffectiveAddress(rs1, d.imm)
                 IN  Retire(h, d.rd, next_pc, t - (t % 2))
          [] d.kind = "Branch" ->
                 [h EXCEPT !.pc = IF BranchTaken(d.op, rs1, rs2) THEN target ELSE next_pc]
          [] d.kind \in {"Load", "Store"} ->
                 (CASE mem.kind = "done" -> Retire(h, d.rd, mem.value, next_pc)
                    [] mem.kind = "stall" -> h
                    [] mem.kind = "trap" -> Trap(mem.value))
          [] d.kind = "OpImm" ->
                 Retire(h, d.rd, ExecuteAlu(d.op, rs1, ImmediateRhs(d)), next_pc)
          [] d.kind = "Op" -> Retire(h, d.rd, ExecuteAlu(d.op, rs1, rs2), next_pc)
          [] d.kind = "Csr" ->
                 IF CsrRefused(d, h.csrs, h.privilege, rs1) THEN Trap(IllegalInstruction(d.raw))
                 ELSE LET o == ExecuteCsr(d, h.csrs, rs1)
                          r == Retire(h, d.rd, o.read_value, next_pc)
                      IN  IF o.write = None THEN r
                          ELSE [r EXCEPT !.csrs = WriteCsr(@, d.csr, o.write)]
          [] d.kind = "System" ->
                 CASE SystemRefused(d.op, h.csrs, h.privilege) -> Trap(IllegalInstruction(d.raw))
                   [] d.op = "Ecall" -> Trap(EcallException(h.privilege))
                   [] d.op = "Ebreak" -> Trap(Breakpoint)
                   [] d.op \in {"Mret", "Sret"} -> ReturnFromTrap(h, d.op)
                   [] d.op = "Wfi" -> [h EXCEPT !.pc = next_pc, !.halted = TRUE]
                   [] d.op = "SfenceVma" -> [h EXCEPT !.pc = next_pc]

\* The data access of d, if it has one, at the given latency.
DataAccess(env, h, d, latency) ==
    IF d.kind \in {"Load", "Store"}
    THEN AccessData(env, h.csrs, h.privilege, d,
                    EffectiveAddress(ReadReg(h, d.rs1), d.imm), ReadReg(h, d.rs2), latency)
    ELSE [kind |-> "done", value |-> 0, env |-> env]
=============================================================================
