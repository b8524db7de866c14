------------------------------ MODULE MCCores ------------------------------
(***************************************************************************)
(* Programs for Cores: every sequence of four instructions of a palette,  *)
(* and the scenarios for traps, interrupts and translation.                *)
(***************************************************************************)
EXTENDS Cores, Assembler, TLC

-----------------------------------------------------------------------------
\* The text: code from address 0, a handler from address 64.
Text(code, handler) ==
    [a \in {4 * (k - 1) : k \in 1..Len(code)} \cup {60 + (4 * k) : k \in 1..Len(handler)} |->
        IF a < 64 THEN code[(a \div 4) + 1] ELSE handler[((a - 64) \div 4) + 1]]

D == 256                            \* the data word; its neighbour follows
Ram == (D :> 5) @@ (D + 4 :> WORD - 3)
Booted == [NewHart(0) EXCEPT !.csrs.mtvec = 64, !.csrs.stvec = 64]

Program(code, handler) ==
    [text |-> Text(code, handler), hart |-> Booted, ram |-> Ram, pages |-> << >>,
     fetch_latency |-> {0}, data_latency |-> {0}, lines |-> {{}}]

-----------------------------------------------------------------------------
(* Every sequence of four instructions (three for the reference core). *)

Palette ==
    {Addi(1, 1, 1), Add(2, 1, 1), Lw(1, D), Sw(2, D), Beq(1, 0, 8), Bne(1, 2, 8), Jal(1, 8),
     Jalr(2, 0, 16), Csrrw(2, Mepc, 1), SfenceVma}

IsMemory(raw) == raw.opcode \in {\h03, \h23}
Redirects(raw) == raw.opcode \in {\h63, \h67, \h6F} \/ raw = SfenceVma

\* Three consecutive instructions of which the last reads a register the
\* first writes, across a memory access that does not write it.
Caught(p, m, c) ==
    /\ IsMemory(m)
    /\ p.opcode \notin {\h23, \h63} /\ p.rd # 0 /\ p.rd # m.rd
    /\ p.rd \in {c.rs1, c.rs2}

\* The triples that can follow each other, a jump over one included.
StallSafe(s) == \A t \in {<<1, 2, 3>>, <<2, 3, 4>>, <<1, 3, 4>>} :
                    t[3] <= Len(s) => ~Caught(s[t[1]], s[t[2]], s[t[3]])

Sequence(s) == Program(s \o <<Wfi, Wfi>>, << >>)

\* The pipeline runs a sequence with waits on the data side if no operand is
\* caught between two stages by one, and on the fetch side if no instruction
\* takes the bus or turns the front end away from a fetch in flight.
PipelineSequences ==
    {[Sequence(s) EXCEPT
        !.data_latency = IF StallSafe(s) THEN {0, 2} ELSE {0},
        !.fetch_latency = IF \A k \in 1..4 : ~IsMemory(s[k]) /\ ~Redirects(s[k])
                          THEN {0, 1} ELSE {0}] : s \in [1..4 -> Palette]}

ReferenceSequences ==
    {[Sequence(s) EXCEPT !.data_latency = {0, 1}, !.fetch_latency = {0, 1}] :
        s \in [1..3 -> Palette]}

-----------------------------------------------------------------------------
(* Scenarios. *)

Loop == Program(<<Addi(1, 0, 4), Addi(1, 1, -1), Bne(1, 0, -4), Wfi>>, << >>)

Bytes == Program(<<Lb(1, D + 4), Sb(1, D + 1), Lw(2, D), Wfi>>, << >>)

\* Machine interrupts: the handler counts, masks and returns; the second WFI
\* is reached after the wake-up.
Ticked(p) == [p EXCEPT !.lines = {{}, {MachineTimer}}]

Timer ==
    Ticked([Program(<<Lw(1, D), Sw(1, D + 4), Wfi, Wfi>>,
                    <<Addi(3, 3, 1), Csrrw(0, Mie, 0), Mret>>) EXCEPT
               !.hart.csrs.mstatus = {MIE}, !.hart.csrs.mie = {MachineTimer},
               !.data_latency = {0, 1}])

\* A supervisor interrupt delegated to supervisor mode.
Delegated ==
    [Program(<<Addi(1, 1, 1), Csrrs(2, Sstatus, 0), Wfi, Wfi>>,
             <<Addi(3, 3, 1), Csrrw(0, Sie, 0), Sret>>) EXCEPT
        !.hart.privilege = Supervisor, !.hart.csrs.mstatus = {SIE},
        !.hart.csrs.mie = {SupervisorExternal}, !.hart.csrs.mideleg = {SupervisorExternal},
        !.lines = {{}, {SupervisorExternal}}]

\* One exception each; the handler reads where it was taken and stops.
Faulting(code) == [Program(code, <<Csrrs(1, Mepc, 0), Wfi>>) EXCEPT !.hart.csrs.mstatus = {MIE}]

Exceptions ==
    {Faulting(<<Addi(1, 1, 1), Lw(2, D + 8), Addi(1, 1, 1), Wfi>>),     \* unmapped
     Faulting(<<Addi(1, 1, 1), Sw(1, 0), Addi(1, 1, 1), Wfi>>),         \* read only
     Faulting(<<Addi(1, 1, 1), Lw(2, D + 1), Addi(1, 1, 1), Wfi>>),     \* misaligned
     Faulting(<<Addi(1, 1, 1), Ecall, Addi(1, 1, 1), Wfi>>),
     Faulting(<<Lw(1, D), Ebreak, Addi(1, 1, 1), Wfi>>),
     Faulting(<<Addi(1, 1, 1), Jalr(2, 0, 1024), Wfi>>),                    \* fetch fault
     Faulting(<<Addi(1, 1, 1), Jalr(2, 0, 10), Wfi>>),                      \* misaligned fetch
     Faulting(<<Beq(0, 0, 8), Wfi, Illegal, Wfi>>)}

\* An instruction ID cannot decode, behind up to three that are still in EX
\* and MEM or turn away from it.  A CSR write among them would be undone or
\* would undo the trap's own (EarlyCsr).
EarlyTraps ==
    {[Faulting(s \o <<Illegal, Wfi>>) EXCEPT
        !.data_latency = IF StallSafe(s) THEN {0, 2} ELSE {0}] :
        s \in UNION {[1..n -> Palette \ {Csrrw(2, Mepc, 1)}] : n \in 1..3}}

\* The same with the timer's interrupt enabled and accesses that wait: the
\* interrupt comes before the exception, or the exception masks it.
Interrupted ==
    {Ticked([p EXCEPT !.hart.csrs.mie = {MachineTimer}, !.data_latency = {0, 1}]) :
        p \in Exceptions}

InUser(p) == [p EXCEPT !.hart.privilege = 0]
Supervised(p) == [p EXCEPT !.hart.privilege = Supervisor]

Refusals ==
    {InUser(Faulting(<<Addi(1, 1, 1), Csrrs(2, Mstatus, 0), Wfi>>)),
     InUser(Faulting(<<Addi(1, 1, 1), Csrrs(2, Cycle, 0), Wfi>>)),
     InUser(Faulting(<<Addi(1, 1, 1), SfenceVma, Wfi>>)),
     InUser(Faulting(<<Addi(1, 1, 1), Mret, Wfi>>)),
     Supervised([Faulting(<<Addi(1, 1, 1), Csrrw(0, Satp, 1), Wfi>>) EXCEPT
                    !.hart.csrs.mstatus = {TVM}]),
     Supervised([Faulting(<<Addi(1, 1, 1), Sret, Wfi>>) EXCEPT !.hart.csrs.mstatus = {TSR}]),
     InUser([Faulting(<<Addi(1, 1, 1), Wfi>>) EXCEPT !.hart.csrs.mstatus = {TW}])}

\* An environment call from user mode, delegated; the handler steps over it.
Call ==
    InUser([Program(<<Addi(1, 1, 1), Ecall, Addi(1, 1, 1), Wfi>>,
                  <<Addi(2, 2, 8), Csrrw(0, Sepc, 2), Sret>>) EXCEPT
             !.hart.csrs.medeleg = {8}])

\* Supervisor code that turns translation on: from then on page 0 may be
\* executed, and the data lies in page 6, which may only be read.
Virtual == D + (2 * PageSize)
Mapped(code) ==
    Supervised([Faulting(code) EXCEPT
        !.pages = (0 :> [frame |-> 0, flags |-> {"V", "R", "X", "A"}])
                  @@ (6 :> [frame |-> 4, flags |-> {"V", "R", "A", "D"}]),
        !.hart.registers[1] = TOP])

Translated ==
    {Mapped(<<Csrrw(0, Satp, 1), Lw(2, Virtual), Wfi>>),
     Mapped(<<Csrrw(0, Satp, 1), Sw(2, Virtual), Wfi>>),
     Mapped(<<Csrrw(0, Satp, 1), Lw(2, D), Wfi>>),
     [Mapped(<<Csrrw(0, Satp, 1), Wfi>>) EXCEPT
         !.pages = (6 :> [frame |-> 4, flags |-> {"V", "R", "A"}])]}

\* Translated code at the end of page 0: the fetch of what follows faults
\* with older instructions in EX and MEM.
EndOfPage == 52
PastPage(code) ==
    [Mapped([k \in 1..(EndOfPage \div 4) |-> Nop] \o code) EXCEPT
        !.hart.pc = EndOfPage, !.hart.csrs.satp = TOP, !.hart.registers[1] = 0]

Straight == {Addi(1, 1, 1), Add(2, 1, 1)}
Branches == {Beq(1, 0, 8), Bne(1, 2, 8)}

\* A load or a store is let through MEM before the fetch that faults, and the
\* instruction in ID at that fetch does not turn away from it.
FetchesPastPage ==
    {PastPage(<<i, j, k>>) : i \in Straight \cup Branches \cup {Jal(1, 8)},
                             j \in Straight \cup Branches \cup {Jal(1, 8)},
                             k \in Straight \cup {Jal(1, 8)}}
    \cup {[PastPage(<<i, j, k>>) EXCEPT !.data_latency = {0, 2}] :
            i \in {Lw(1, Virtual), Lw(2, Virtual), Sw(2, Virtual)},
            j \in Straight \cup Branches, k \in Straight \cup {Jal(1, 8)}}

Scenarios ==
    {Loop, Bytes, Timer, Delegated, Call} \cup Exceptions \cup Interrupted \cup EarlyTraps
    \cup Refusals \cup Translated \cup FetchesPastPage

Agreeing ==
    [reference |-> ReferenceSequences \cup Scenarios, pipeline |-> PipelineSequences \cup Scenarios]

-----------------------------------------------------------------------------
(* Programs on which the pipeline and the architecture part, one for each  *)
(* way found.                                                              *)

\* A sum whose operand is two instructions old when a load waits.
Waiting ==
    [Program(<<Addi(1, 0, 1), Lw(2, D), Add(3, 1, 1), Wfi>>, << >>) EXCEPT
        !.data_latency = {0, 1}]

\* A load that faults, followed by an illegal instruction: the second trap is
\* taken first, and then the first one.
TwoTraps == Faulting(<<Lw(2, D + 8), Illegal, Wfi>>)

\* A write of mepc is written back behind the trap that follows it.
EarlyCsr == Faulting(<<Csrrw(2, Mepc, 1), Ecall, Wfi>>)

\* The fetch behind a taken branch traps, though nothing goes there.
WrongPath == [PastPage(<<Wfi, Nop, Beq(0, 0, -8)>>) EXCEPT !.hart.pc = EndOfPage + 8]

\* A load is still in ID when the fetch behind it traps, and accesses memory
\* with the privilege of the handler.
EarlyLoad == PastPage(<<Addi(1, 1, 1), Addi(1, 1, 1), Lw(2, Virtual)>>)

\* A machine interrupt in the cycle behind a delegated trap is taken at the
\* program counter the instruction before the trap has just written back.
BehindATrap ==
    [pipeline |-> {Ticked([Call EXCEPT !.hart.csrs.mie = {MachineTimer}])}]

Disagreeing == [pipeline |-> {Waiting, TwoTraps, EarlyCsr, WrongPath, EarlyLoad}]
=============================================================================
