--------------------------- MODULE PipelineCore ---------------------------
(***************************************************************************)
(* The five-stage in-order pipeline (cpu/src/core/pipeline.rs with         *)
(* cpu/src/pipeline, cpu/src/hazard and cpu/src/predictor).                *)
(*                                                                         *)
(* step_cycle runs the stages from write-back to fetch on the latches of   *)
(* the previous cycle.  A cycle is a record that the stages hand on:       *)
(*                                                                         *)
(*   hart, env                 committed state, and the bus with memory    *)
(*   if_id .. mem_wb           the latches of the next cycle               *)
(*   front_end_pc, barrier     next_front_end_pc and translation_barrier   *)
(*   flushed, memory_wait, fetch_stalled, decode_stalled                   *)
(*   early                     see below                                   *)
(*                                                                         *)
(* The current latches are the variable latches.  Statistics and the trace *)
(* are left out.                                                           *)
(*                                                                         *)
(* A trap found in ID or IF changes the hart at once, while instructions   *)
(* older than it are still in EX and MEM.  The auxiliary variable early    *)
(* remembers such a trap until they have left MEM: where it was taken and  *)
(* where it went, how many older instructions are left, and the CSRs and   *)
(* the privilege those were to run with.  No step depends on it.           *)
(***************************************************************************)
EXTENDS Hart

VARIABLES program, hart, ram, bus, front_end_pc, translation_barrier, predictor, latches, early

vars == <<program, hart, ram, bus, front_end_pc, translation_barrier, predictor, latches, early>>

NoLatches == [if_id |-> None, id_ex |-> None, ex_mem |-> None, mem_wb |-> None]

Init ==
    /\ hart = program.hart
    /\ ram = program.ram
    /\ bus = None
    /\ front_end_pc = program.hart.pc
    /\ translation_barrier = FALSE
    /\ predictor = [pc \in {a \in DOMAIN program.text : program.text[a].opcode = \h63} |-> 1]
    /\ latches = NoLatches
    /\ early = None

-----------------------------------------------------------------------------
(* Branch prediction: two-bit counters.  The table has 64 entries, so the  *)
(* branches of a short program do not share one.                           *)

PredictBranch(pc, fallthrough, target) == IF predictor[pc] >= 2 THEN target ELSE fallthrough

UpdatePredictorUnsaturated(table, pc, taken) ==
    [table EXCEPT ![pc] = IF taken THEN @ + 1 ELSE Max({@ - 1, 0})]

UpdatePredictor(table, pc, taken) ==
    [table EXCEPT ![pc] = IF taken THEN Min({@ + 1, 3}) ELSE Max({@ - 1, 0})]

\* The raw word tells a branch or a jump; jumps are predicted taken.
PredictFromRaw(pc, raw) ==
    CASE raw.opcode = \h63 -> PredictBranch(pc, Word(pc + 4), Word(pc + raw.imm))
      [] raw.opcode = \h6F -> Word(pc + raw.imm)
      [] OTHER -> Word(pc + 4)

-----------------------------------------------------------------------------
(* Classes of instructions. *)

UsesMemory(d) == d.kind \in {"Load", "Store"}

WritesBack(d) ==
    /\ d.kind \in {"Lui", "Auipc", "Jal", "Jalr", "Load", "OpImm", "Op", "Csr"}
    /\ d.rd # 0

IsTranslationBarrier(d, csr_write) ==
    \/ d.kind = "System" /\ d.op = "SfenceVma"
    \/ csr_write # None /\ d.csr = Satp

RequiresCsrSerialization(d) ==
    d.kind = "Csr" \/ (d.kind = "System" /\ d.op \in {"Mret", "Sret"})

HasInFlightCsr ==
    \E stage \in {"id_ex", "ex_mem", "mem_wb"} :
        latches[stage] # None /\ latches[stage].decoded.kind = "Csr"

\* A load in EX whose result the instruction in ID reads.
LoadUseHazard(d) ==
    LET producer == latches.id_ex
    IN  /\ producer # None
        /\ producer.decoded.kind = "Load"
        /\ producer.decoded.rd # 0
        /\ producer.decoded.rd \in {d.rs1, d.rs2}

-----------------------------------------------------------------------------
(* WB: commit the oldest instruction to a hart. *)

WriteBack(h, payload) ==
    LET d == payload.decoded
        csrs == IF payload.csr_write = None THEN h.csrs
                ELSE WriteCsr(h.csrs, d.csr, payload.csr_write)
        r == IF payload.writeback_value = None THEN h
             ELSE WriteReg(h, d.rd, payload.writeback_value)
    IN  IF d.kind = "System" /\ d.op \in {"Mret", "Sret"} THEN ReturnFromTrap(h, d.op)
        ELSE [r EXCEPT !.csrs = csrs, !.pc = payload.next_pc,
                       !.halted = @ \/ (d.kind = "System" /\ d.op = "Wfi")]

WriteBackStageHoldingBarrier(c) ==
    IF latches.mem_wb = None THEN c
    ELSE [c EXCEPT !.hart = WriteBack(@, latches.mem_wb)]

WriteBackStage(c) ==
    LET payload == latches.mem_wb
    IN  IF payload = None THEN c
        ELSE [c EXCEPT !.hart = WriteBack(@, payload),
                       !.barrier = @ /\ ~IsTranslationBarrier(payload.decoded, payload.csr_write)]

\* The instructions older than one that traps in this cycle and not yet
\* through MEM: EX has handed on one when ID traps, ID another when IF does.
Older(c) == Cardinality({stage \in {"ex_mem", "id_ex"} : c[stage] # None})

\* A trap taken in this cycle: the front end restarts at the handler.
TrapFlush(c, trap, pc) ==
    LET h == ApplyTrap(c.hart, trap, pc)
    IN  [c EXCEPT !.hart = h, !.front_end_pc = h.pc, !.flushed = TRUE,
                  !.early = IF Older(c) = 0 THEN None
                            ELSE [csrs |-> c.hart.csrs, privilege |-> c.hart.privilege,
                                  pc |-> pc, handler |-> h.pc, older |-> Older(c)]]

InterruptStage(c) ==
    LET interrupt == PendingInterrupt(c.hart.csrs, c.hart.privilege)
    IN  IF c.barrier \/ BusBusy(c.env) \/ interrupt = None THEN c
        ELSE TrapFlush(c, Interrupt(interrupt), c.hart.pc)

-----------------------------------------------------------------------------
(* MEM. *)

ToWriteBack(payload, value) ==
    [decoded |-> payload.decoded, writeback_value |-> value,
     csr_write |-> payload.csr_write, next_pc |-> payload.next_pc]

\* What the instruction in MEM gets; None if there is none to run.
MemoryAccess(c, latency) ==
    LET payload == latches.ex_mem
    IN  CASE c.flushed \/ payload = None -> None
          [] ~c.flushed /\ payload # None /\ UsesMemory(payload.decoded) ->
                 AccessData(c.env, c.hart.csrs, c.hart.privilege, payload.decoded,
                            payload.memory_address, payload.store_value, latency)
          [] OTHER -> [kind |-> "done", value |-> payload.writeback_value, env |-> c.env]

\* Memory is unified: an access of MEM keeps the fetch of the cycle off the
\* bus, whether it is answered or not.
FetchBlockedByMemoryAccess(payload) == UsesMemory(payload.decoded)

\* One of the instructions older than an early trap has left MEM.
OneOlderLeft(trap) ==
    IF trap = None \/ trap.older = 1 THEN None ELSE [trap EXCEPT !.older = @ - 1]

\* An access that is not answered holds the younger instructions where they
\* are.
MemoryStage(c, m) ==
    LET payload == latches.ex_mem
        s == [c EXCEPT !.env = m.env, !.fetch_stalled = FetchBlockedByMemoryAccess(payload)]
    IN  IF m = None THEN c
        ELSE CASE m.kind = "done" ->
                      [s EXCEPT !.mem_wb = ToWriteBack(payload,
                                    IF payload.decoded.kind = "Store" THEN None ELSE m.value),
                                !.early = OneOlderLeft(@)]
               [] m.kind = "stall" ->
                      [s EXCEPT !.memory_wait = TRUE, !.fetch_stalled = TRUE,
                                !.decode_stalled = latches.if_id # None,
                                !.ex_mem = payload, !.id_ex = latches.id_ex,
                                !.if_id = latches.if_id]
               [] m.kind = "trap" -> TrapFlush(s, m.value, payload.decoded.pc)

-----------------------------------------------------------------------------
(* EX. *)

ForwardedOperandOldest(source, latched) ==
    LET FromMem == /\ latches.ex_mem # None
                   /\ latches.ex_mem.decoded.rd = source
                   /\ WritesBack(latches.ex_mem.decoded)
                   /\ latches.ex_mem.writeback_value # None
        FromWb == /\ latches.mem_wb # None
                  /\ latches.mem_wb.decoded.rd = source
                  /\ latches.mem_wb.writeback_value # None
    IN  CASE source = 0 -> 0
          [] source # 0 /\ FromWb -> latches.mem_wb.writeback_value
          [] source # 0 /\ ~FromWb /\ FromMem -> latches.ex_mem.writeback_value
          [] OTHER -> latched

\* The newest value of a source register: of the instruction in MEM, else of
\* the one in WB, else what ID read.
ForwardedOperand(source, latched) ==
    LET ex_mem == latches.ex_mem
        mem_wb == latches.mem_wb
        FromMem == /\ ex_mem # None
                   /\ ex_mem.decoded.rd = source
                   /\ WritesBack(ex_mem.decoded) /\ ex_mem.writeback_value # None
        FromWb == /\ mem_wb # None
                  /\ mem_wb.decoded.rd = source
                  /\ mem_wb.writeback_value # None
    IN  CASE source = 0 -> 0
          [] source # 0 /\ FromMem -> ex_mem.writeback_value
          [] source # 0 /\ ~FromMem /\ FromWb -> mem_wb.writeback_value
          [] OTHER -> latched

\* The outcome handed to MEM, or the trap.
Advance(value, write, pc) ==
    [kind |-> "advance", writeback_value |-> value, csr_write |-> write, next_pc |-> pc]
Trap(trap) == [kind |-> "trap", trap |-> trap]

\* The system instructions of ex_stage::execute.
ExecuteSystem(d, privilege, csrs) ==
    CASE SystemRefused(d.op, csrs, privilege) -> Trap(IllegalInstruction(d.raw))
      [] d.op = "Ecall" -> Trap(EcallException(privilege))
      [] d.op = "Ebreak" -> Trap(Breakpoint)
      [] d.op = "Mret" -> Advance(None, None, csrs.mepc)
      [] d.op = "Sret" -> Advance(None, None, csrs.sepc)
      [] d.op \in {"SfenceVma", "Wfi"} -> Advance(None, None, Word(d.pc + 4))

\* ex_stage::execute.
ExecuteEvent(d, rs1, rs2, privilege, csrs) ==
    LET next_pc == Word(d.pc + 4)
        target == Word(d.pc + d.imm)
        address == EffectiveAddress(rs1, d.imm)
    IN  CASE d.kind = "Lui" -> Advance(Word(d.imm), None, next_pc)
          [] d.kind = "Auipc" -> Advance(target, None, next_pc)
          [] d.kind = "Jal" -> Advance(next_pc, None, target)
          [] d.kind = "Jalr" -> Advance(next_pc, None, address - (address % 2))
          [] d.kind = "Branch" ->
                 Advance(None, None, IF BranchTaken(d.op, rs1, rs2) THEN target ELSE next_pc)
          [] d.kind \in {"Load", "Store"} -> Advance(None, None, next_pc)
          [] d.kind = "OpImm" -> Advance(ExecuteAlu(d.op, rs1, ImmediateRhs(d)), None, next_pc)
          [] d.kind = "Op" -> Advance(ExecuteAlu(d.op, rs1, rs2), None, next_pc)
          [] d.kind = "Csr" ->
                 IF CsrRefused(d, csrs, privilege, rs1) THEN Trap(IllegalInstruction(d.raw))
                 ELSE LET o == ExecuteCsr(d, csrs, rs1)
                      IN  Advance(o.read_value, o.write, next_pc)
          [] d.kind = "System" -> ExecuteSystem(d, privilege, csrs)

ToMemory(d, rs1, rs2, outcome) ==
    [decoded |-> d, writeback_value |-> outcome.writeback_value,
     csr_write |-> outcome.csr_write, next_pc |-> outcome.next_pc,
     memory_address |-> EffectiveAddress(rs1, d.imm), store_value |-> rs2]

DetectBranchFlush(predicted_pc, actual_pc) == predicted_pc # actual_pc

\* A wrong prediction or a translation barrier restarts the front end at the
\* instruction's successor; a trap restarts it at the handler at once.
ExecuteStage(c) ==
    LET payload == latches.id_ex
        d == payload.decoded
        rs1 == ForwardedOperand(d.rs1, payload.rs1_value)
        rs2 == ForwardedOperand(d.rs2, payload.rs2_value)
        e == ExecuteEvent(d, rs1, rs2, c.hart.privilege, c.hart.csrs)
        serializing == IsTranslationBarrier(d, e.csr_write)
        redirect == serializing \/ DetectBranchFlush(payload.predicted_pc, e.next_pc)
    IN  IF c.flushed \/ c.memory_wait \/ c.barrier \/ payload = None THEN c
        ELSE IF e.kind = "trap" THEN TrapFlush(c, e.trap, d.pc)
        ELSE [c EXCEPT
                !.ex_mem = ToMemory(d, rs1, rs2, e),
                !.predictor = IF d.kind = "Branch"
                              THEN UpdatePredictor(@, d.pc, e.next_pc # Word(d.pc + 4)) ELSE @,
                !.flushed = redirect,
                !.barrier = serializing,
                !.front_end_pc = IF redirect THEN e.next_pc ELSE @]

-----------------------------------------------------------------------------
(* ID. *)

DecodeStage(c) ==
    LET payload == latches.if_id
        d == Decode(payload.raw, payload.pc)
        stall == LoadUseHazard(d) \/ (RequiresCsrSerialization(d) /\ HasInFlightCsr)
    IN  CASE c.flushed \/ c.memory_wait -> c
          [] ~c.flushed /\ ~c.memory_wait /\ c.barrier ->
                 [c EXCEPT !.fetch_stalled = TRUE, !.decode_stalled = payload # None,
                           !.if_id = payload, !.id_ex = latches.id_ex]
          [] ~c.flushed /\ ~c.memory_wait /\ ~c.barrier ->
                 IF payload = None THEN c
                 ELSE IF d = None THEN TrapFlush(c, IllegalInstruction(payload.raw), payload.pc)
                 ELSE IF stall THEN [c EXCEPT !.decode_stalled = TRUE, !.if_id = payload]
                 ELSE [c EXCEPT !.id_ex = [decoded |-> d,
                                           rs1_value |-> ReadReg(c.hart, d.rs1),
                                           rs2_value |-> ReadReg(c.hart, d.rs2),
                                           predicted_pc |-> payload.predicted_pc]]

-----------------------------------------------------------------------------
(* IF.  A flush drops what the cycle put into the two front latches; a     *)
(* fetch that traps does not, its flush comes after.                       *)

\* What IF gets; None if it is held.
FetchAccess(c, latency) ==
    IF c.flushed \/ c.memory_wait \/ c.decode_stalled \/ c.fetch_stalled \/ c.barrier THEN None
    ELSE Fetch(c.env, c.hart.csrs, c.hart.privilege, c.front_end_pc, latency)

FetchStage(c, f) ==
    LET pc == c.front_end_pc
        s == [c EXCEPT !.env = f.env]
    IN  IF c.flushed THEN [c EXCEPT !.if_id = None, !.id_ex = None]
        ELSE IF f = None THEN c
        ELSE CASE f.kind = "done" ->
                      LET next == PredictFromRaw(pc, f.value)
                      IN  [s EXCEPT !.if_id = [pc |-> pc, raw |-> f.value,
                                               predicted_pc |-> next],
                                    !.front_end_pc = next]
               [] f.kind = "stall" -> s
               [] f.kind = "trap" -> TrapFlush(s, f.value, pc)

-----------------------------------------------------------------------------
(* The cycle. *)

\* A hart, or the early trap, shown the interrupt lines.
Sync(h, lines) == IF h = None THEN None ELSE [h EXCEPT !.csrs = SyncInterrupts(@, lines)]

StartCycle(lines) ==
    [hart |-> Sync(hart, lines),
     env |-> TickBus([program |-> program, ram |-> ram, bus |-> bus]),
     if_id |-> None, id_ex |-> None, ex_mem |-> None, mem_wb |-> None,
     front_end_pc |-> front_end_pc, barrier |-> translation_barrier, predictor |-> predictor,
     flushed |-> FALSE, memory_wait |-> FALSE, fetch_stalled |-> FALSE, decode_stalled |-> FALSE,
     early |-> Sync(early, lines)]

EndCycleDroppingStalled(c) ==
    /\ hart' = c.hart
    /\ ram' = c.env.ram
    /\ bus' = c.env.bus
    /\ front_end_pc' = c.front_end_pc
    /\ translation_barrier' = c.barrier
    /\ predictor' = c.predictor
    /\ early' = c.early
    /\ latches' = [if_id |-> IF c.decode_stalled THEN None ELSE c.if_id, id_ex |-> c.id_ex,
                   ex_mem |-> c.ex_mem, mem_wb |-> c.mem_wb]
    /\ UNCHANGED program

EndCycle(c) ==
    /\ hart' = c.hart
    /\ ram' = c.env.ram
    /\ bus' = c.env.bus
    /\ front_end_pc' = c.front_end_pc
    /\ translation_barrier' = c.barrier
    /\ predictor' = c.predictor
    /\ early' = c.early
    /\ latches' = [if_id |-> c.if_id, id_ex |-> c.id_ex, ex_mem |-> c.ex_mem, mem_wb |-> c.mem_wb]
    /\ UNCHANGED program

\* A halted hart only waits for an interrupt, which drops the latches.
HaltedCycle(lines) ==
    LET c == StartCycle(lines)
        interrupt == PendingInterrupt(c.hart.csrs, c.hart.privilege)
        Kept == [c EXCEPT !.if_id = latches.if_id, !.id_ex = latches.id_ex,
                          !.ex_mem = latches.ex_mem, !.mem_wb = latches.mem_wb]
    IN  /\ hart.halted
        /\ IF BusBusy(c.env) \/ interrupt = None THEN EndCycle(Kept)
           ELSE EndCycle(TrapFlush(c, Interrupt(interrupt), c.hart.pc))

RunCycle(lines, fetch_latency, data_latency) ==
    /\ ~hart.halted
    /\ \E w \in {InterruptStage(WriteBackStage(StartCycle(lines)))} :
       \E access \in {MemoryAccess(w, data_latency)} :
       \E m \in {MemoryStage(w, access)} :
       \E e \in {ExecuteStage(m)} :
       \E d \in {DecodeStage(e)} :
       \E fetched \in {FetchAccess(d, fetch_latency)} :
           EndCycle(FetchStage(d, fetched))

StepCycle ==
    \E lines \in program.lines :
        \/ HaltedCycle(lines)
        \/ \E fetch_latency \in program.fetch_latency, data_latency \in program.data_latency :
               RunCycle(lines, fetch_latency, data_latency)
=============================================================================
