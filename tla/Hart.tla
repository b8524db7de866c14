------------------------------- MODULE Hart -------------------------------
(***************************************************************************)
(* What the two cores share: the architectural state of the hart           *)
(* (cpu/src/state), the operators that compute instruction results         *)
(* (cpu/src/exec), and the bus as a core sees it.                          *)
(*                                                                         *)
(* The bus is the memory map of the system crate as one blocking port: an  *)
(* access is answered at once or is held, Busy, until its latency has      *)
(* passed and the same access is presented again; every other access is    *)
(* Busy meanwhile.  A program is a record                                  *)
(*                                                                         *)
(*   [text, hart, ram, pages, fetch_latency, data_latency, lines]          *)
(*                                                                         *)
(* with its instructions, the hart and memory it starts from, the pages an *)
(* enabled translation maps (each to its frame and flags), and what the    *)
(* environment may do: the latencies an access may take and the sets of    *)
(* interrupt lines that may be raised.                                     *)
(***************************************************************************)
EXTENDS Sv32, Sequences

CONSTANTS TextWords,   \* the bytes of the text region, a ROM
          PageSize     \* bytes of a page

ASSUME HartAssumption == TextWords \in Nat /\ PageSize \in Nat \ {0}

NewHart(reset_vector) ==
    [pc |-> reset_vector, privilege |-> Machine, halted |-> FALSE,
     registers |-> [r \in 1..3 |-> 0],
     csrs |-> [DefaultCsrs EXCEPT !.mtvec = reset_vector, !.stvec = reset_vector]]

HartType == [pc : 0..(WORD - 1), privilege : PrivilegeMode, halted : BOOLEAN,
             registers : [1..3 -> 0..(WORD - 1)], csrs : CsrFileType]

\* x0 reads as zero, and so does a register no program of the model writes.
ReadReg(h, r) == IF r \in DOMAIN h.registers THEN h.registers[r] ELSE 0
WriteReg(h, r, value) ==
    IF r \in DOMAIN h.registers THEN [h EXCEPT !.registers[r] = value] ELSE h

-----------------------------------------------------------------------------
(* exec: results. *)

ExecuteAlu(op, lhs, rhs) ==
    LET shift == rhs % 32
        right == Signed(lhs) \div 2^shift
    IN  CASE op = "Add" -> Word(lhs + rhs)
          [] op = "Sub" -> Word(lhs - rhs)
          [] op = "And" -> OfBits(Bits(lhs) \cap Bits(rhs))
          [] op = "Or" -> OfBits(Bits(lhs) \cup Bits(rhs))
          [] op = "Xor" -> OfBits(SymDiff(Bits(lhs), Bits(rhs)))
          [] op = "Slt" -> IF Signed(lhs) < Signed(rhs) THEN 1 ELSE 0
          [] op = "Sltu" -> IF lhs < rhs THEN 1 ELSE 0
          [] op = "Sll" -> IF shift >= XLEN THEN 0 ELSE (lhs % 2^(XLEN - shift)) * 2^shift
          [] op = "Srl" -> lhs \div 2^shift
          [] op = "Sra" -> Word(right)

BranchTaken(kind, lhs, rhs) ==
    CASE kind = "Beq" -> lhs = rhs
      [] kind = "Bne" -> lhs # rhs
      [] kind = "Blt" -> Signed(lhs) < Signed(rhs)
      [] kind = "Bge" -> Signed(lhs) >= Signed(rhs)
      [] kind = "Bltu" -> lhs < rhs
      [] kind = "Bgeu" -> lhs >= rhs

EffectiveAddress(base, offset) == Word(base + offset)

\* A shift by an immediate takes the amount from the upper bits of the word.
ImmediateRhs(d) ==
    IF d.op \in {"Sll", "Srl", "Sra"} THEN d.raw.rs2 + (32 * d.raw.funct7)
                                      ELSE Word(d.imm)

\* The value a CSR instruction writes, None when it only reads.
CsrWriteValue(op, current, source) ==
    CASE op \in {"ReadWrite", "ReadWriteImmediate"} -> source
      [] op \in {"ReadSet", "ReadSetImmediate"} ->
             IF source = 0 THEN None ELSE OfBits(Bits(current) \cup Bits(source))
      [] op \in {"ReadClear", "ReadClearImmediate"} ->
             IF source = 0 THEN None ELSE OfBits(Bits(current) \ Bits(source))

ExecuteCsr(d, c, rs1_value) ==
    LET source == IF d.op \in {"ReadWrite", "ReadSet", "ReadClear"} THEN rs1_value ELSE d.rs1
        current == ReadCsr(c, d.csr)
    IN  [read_value |-> current, write |-> CsrWriteValue(d.op, current, source)]

\* Whether a CSR instruction is refused: privilege, virtualised satp, or a
\* write to a read-only register.
CsrRefused(d, c, privilege, rs1_value) ==
    \/ ~AllowsCsrAccess(c, privilege, d.csr)
    \/ privilege = Supervisor /\ TVM \in c.mstatus /\ d.csr = Satp
    \/ IsReadOnly(d.csr) /\ \/ d.op \in {"ReadWrite", "ReadWriteImmediate"}
                            \/ d.op \in {"ReadSet", "ReadClear"} /\ rs1_value # 0
                            \/ d.op \in {"ReadSetImmediate", "ReadClearImmediate"} /\ d.rs1 # 0

\* Whether a system instruction is refused at this privilege.
SystemRefused(op, c, privilege) ==
    CASE op = "SfenceVma" -> privilege = User \/ (privilege = Supervisor /\ TVM \in c.mstatus)
      [] op = "Wfi" -> privilege # Machine /\ TW \in c.mstatus
      [] op = "Mret" -> privilege # Machine
      [] op = "Sret" -> privilege # Supervisor \/ TSR \in c.mstatus
      [] OTHER -> FALSE

EcallException(privilege) == Exception(8 + privilege, 0)

-----------------------------------------------------------------------------
(* Traps. *)

ApplyTrap(h, trap, pc) ==
    LET e == EnterTrap(h.csrs, trap, pc, h.privilege)
    IN  [h EXCEPT !.csrs = e.csrs, !.privilege = e.privilege, !.pc = e.pc, !.halted = FALSE]

ReturnFromTrap(h, op) ==
    LET r == IF op = "Mret" THEN ReturnFromMachineTrap(h.csrs)
                            ELSE ReturnFromSupervisorTrap(h.csrs)
    IN  [h EXCEPT !.csrs = r.csrs, !.privilege = r.privilege, !.pc = r.pc, !.halted = FALSE]

MapBusErrorToTrap(error, address, access) ==
    IF error = "misaligned" THEN Misaligned(access, address) ELSE AccessFault(access, address)

-----------------------------------------------------------------------------
(* The bus.  env holds what lies outside the core: [program, ram, bus],    *)
(* where bus is None or the access in flight with the cycles it has left.  *)

Nop == [opcode |-> \h13, funct3 |-> 0, funct7 |-> 0, rd |-> 0, rs1 |-> 0, rs2 |-> 0, imm |-> 0]

Aligned(address) == address - (address % 4)

BusError(env, request) ==
    CASE request.address % request.width # 0 -> "misaligned"
      [] request.address < TextWords /\ request.op = "store" -> "read only"
      [] /\ request.address >= TextWords
         /\ Aligned(request.address) \notin DOMAIN env.ram -> "unmapped"
      [] OTHER -> None

\* The word at an address; an instruction read as data stands by its opcode.
Cell(env, address) ==
    IF address < TextWords
    THEN IF address \in DOMAIN env.program.text THEN env.program.text[address] ELSE Nop
    ELSE env.ram[address]

\* A store replaces the bytes from the one at low on by those of value.
StoreCell(ram, at, low, size, value) ==
    [ram EXCEPT ![at] = @ + (((value % size) - ((@ \div low) % size)) * low)]

\* What an access that is due answers, and the environment it leaves.
Perform(env, request) ==
    LET at == Aligned(request.address)
        low == BYTE^(request.address % 4)
        size == BYTE^request.width
        cell == IF at < TextWords THEN Cell(env, at).opcode ELSE Cell(env, at)
    IN  CASE request.op = "fetch" -> [value |-> Cell(env, at), ram |-> env.ram]
          [] request.op = "load" -> [value |-> (cell \div low) % size, ram |-> env.ram]
          [] request.op = "store" ->
                 [value |-> 0, ram |-> StoreCell(env.ram, at, low, size, request.value)]

\* One access presented by the core: kind is ok, busy or the bus error.
Present(env, request, latency) ==
    LET error == BusError(env, request)
        Answered == LET p == Perform(env, request)
                    IN  [kind |-> "ok", value |-> p.value,
                         env |-> [env EXCEPT !.ram = p.ram, !.bus = None]]
        Refused(kind, e) == [kind |-> kind, value |-> 0, env |-> e]
    IN  CASE env.bus = None /\ error # None -> Refused(error, env)
          [] env.bus = None /\ error = None ->
                 IF latency = 0 THEN Answered
                 ELSE Refused("busy", [env EXCEPT !.bus = [request |-> request,
                                                           left |-> latency]])
          [] env.bus # None ->
                 IF env.bus.request = request /\ env.bus.left = 0 THEN Answered
                 ELSE Refused("busy", env)

\* bus.tick, at the start of every machine cycle.
TickBus(env) ==
    IF env.bus = None \/ env.bus.left = 0 THEN env ELSE [env EXCEPT !.bus.left = @ - 1]

BusBusy(env) == env.bus # None

-----------------------------------------------------------------------------
(* Translated accesses.  PageWalker::translate is taken at its outcome: a  *)
(* walk's waiting is part of the latency of the access (Mmu models it).    *)

\* The physical address of an access, as a set that is empty if it faults.
Translate(env, c, privilege, address, access) ==
    LET effective == EffectivePrivilege(c, privilege, access)
        request == [status |-> c.mstatus, privilege |-> effective, access |-> access]
        page == address \div PageSize
        Mapped == page \in DOMAIN env.program.pages
    IN  IF ~TranslationEnabled(c.satp, effective) THEN {address}
        ELSE {(env.program.pages[p].frame * PageSize) + (address % PageSize) :
                 p \in {q \in {page} : Mapped /\ PermissionsAllow(request,
                                                        env.program.pages[q].flags)}}

Width(op) == CASE op \in {"Byte", "ByteUnsigned"} -> 1
               [] op \in {"Half", "HalfUnsigned"} -> 2 [] OTHER -> 4

LoadValue(op, value) ==
    CASE op = "Byte" /\ value >= BYTE \div 2 -> Word(value - BYTE)
      [] op = "Half" /\ value >= BYTE^2 \div 2 -> Word(value - BYTE^2)
      [] OTHER -> value

\* What the core makes of an answer of the bus: kind is "done" with the value
\* read, "stall", or "trap" with the trap, which names the virtual address.
Outcome(answer, address, access) ==
    CASE answer.kind = "ok" -> [kind |-> "done", value |-> answer.value, env |-> answer.env]
      [] answer.kind = "busy" -> [kind |-> "stall", value |-> 0, env |-> answer.env]
      [] OTHER -> [kind |-> "trap", value |-> MapBusErrorToTrap(answer.kind, address, access),
                   env |-> answer.env]

\* Translate an access and put it on the bus.
Access(env, c, privilege, address, access, request, latency) ==
    LET answers == {Present(env, [request EXCEPT !.address = physical], latency) :
                       physical \in Translate(env, c, privilege, address, access)}
        outcomes == {Outcome(answer, address, access) : answer \in answers}
    IN  IF outcomes = {}
        THEN [kind |-> "trap", value |-> PageFault(access, address), env |-> env]
        ELSE CHOOSE outcome \in outcomes : TRUE

Fetch(env, c, privilege, pc, latency) ==
    Access(env, c, privilege, pc, "Instruction",
           [op |-> "fetch", address |-> pc, width |-> 4, value |-> 0], latency)

\* The data access of a load or store.
AccessData(env, c, privilege, d, address, store_value, latency) ==
    IF d.kind = "Load"
    THEN LET a == Access(env, c, privilege, address, "Load",
                         [op |-> "load", address |-> address, width |-> Width(d.op),
                          value |-> 0], latency)
         IN  IF a.kind = "done" THEN [a EXCEPT !.value = LoadValue(d.op, @)] ELSE a
    ELSE Access(env, c, privilege, address, "Store",
                [op |-> "store", address |-> address, width |-> Width(d.op),
                 value |-> store_value], latency)
=============================================================================
