----------------------------- MODULE MCPlatform -----------------------------
(***************************************************************************)
(* Programs for Platform.  Boot code sets up traps and devices and returns *)
(* into the main program; the main program raises sources, arms the timer, *)
(* sends itself software interrupts and starts block commands, then waits  *)
(* for interrupts; handlers are entered through vector tables.  x1 belongs *)
(* to the main program, x2 to machine handlers, x3 to supervisor handlers. *)
(***************************************************************************)
EXTENDS Platform, Assembler

Li(rd, value) == Addi(rd, 0, value)

MainAt == 96
MachineVectors == 192
SupervisorVectors == 256
HandlersAt == 304

Place(base, code) ==
    [a \in {base + (4 * (k - 1)) : k \in 1..Len(code)} |-> code[((a - base) \div 4) + 1]]

\* The registers of the devices.
Claim == IcBase + IC!CLAIM_COMPLETE
SetPending == IcBase + IC!SET_PENDING
Control == BlockBase + BD!CONTROL
Deadline == TimerBase + MTIMECMP_LOW
DeadlineHigh == TimerBase + MTIMECMP_HIGH

-----------------------------------------------------------------------------
(* Boot.  setup is [level, mideleg, ic_route, block_route]. *)

Boot(setup) ==
    <<Li(1, MachineVectors + 1), Csrrw(0, Mtvec, 1), Li(1, SupervisorVectors + 1), Csrrw(0, Stvec, 1),
      Li(1, OfBits(setup.mideleg)), Csrrw(0, Mideleg, 1), Li(1, OfBits(Interrupts)), Csrrw(0, Mie, 1),
      Li(1, MainAt), Csrrw(0, Mepc, 1),
      Li(1, OfBits({SIE} \cup (IF setup.level = User THEN {} ELSE {11}))), Csrrw(0, Mstatus, 1),
      Li(1, 7), Sw(1, IcBase + IC!ENABLE), Li(1, setup.ic_route), Sw(1, IcBase + IC!ROUTE),
      Li(1, setup.block_route), Sw(1, BlockBase + BD!RouteOffset),
      Li(1, 2^BD!IRQ_ENABLE), Sb(1, Control), Mret>>

-----------------------------------------------------------------------------
(* Handlers, of 32 bytes each: r is the handler's register. *)

Slot(k) == HandlersAt + (32 * k)

\* Claim a source, serve it and complete it; with none to claim, look at the
\* block device and write its status back, which acknowledges what was read.
External(r, serve, return) ==
    <<Lw(r, Claim), Beq(r, 0, 16)>> \o serve \o <<Sw(r, Claim), return>>
    \o <<Lb(r, Control), Sb(r, Control), return>>

\* Forward a machine software interrupt to the first source.
MachineSoft == <<Sw(0, MsipBase), Csrrci(0, Mip, 8), Li(2, 1), Sw(2, SetPending), Mret>>
MachineTime == <<Li(2, -1), Sw(2, DeadlineHigh), Mret>>
Skip == <<Csrrs(2, Mepc, 0), Addi(2, 2, 4), Csrrw(0, Mepc, 2), Mret>>
SupervisorSoft == <<Sw(0, SsipBase), Csrrci(0, Sip, 2), Sret>>
UndelegatedSoft == <<Sw(0, SsipBase), Csrrci(0, Mip, 2), Mret>>

\* serve holds one instruction: what a supervisor handler does for a source.
Handlers(serve) ==
    Place(Slot(0), Skip) @@ Place(Slot(1), MachineSoft) @@ Place(Slot(2), MachineTime)
    @@ Place(Slot(3), External(2, <<Addi(2, 2, 0)>>, Mret))
    @@ Place(Slot(4), SupervisorSoft) @@ Place(Slot(5), External(3, serve, Sret))
    @@ Place(Slot(6), UndelegatedSoft)

Vector(base, cause, k) == Place(base + (4 * cause), <<Jal(0, Slot(k) - (base + (4 * cause)))>>)

Vectors ==
    Vector(MachineVectors, 0, 0) @@ Vector(MachineVectors, SupervisorSoftware, 6)
    @@ Vector(MachineVectors, MachineSoftware, 1)
    @@ Vector(MachineVectors, MachineTimer, 2) @@ Vector(MachineVectors, MachineExternal, 3)
    @@ Vector(SupervisorVectors, SupervisorSoftware, 4)
    @@ Vector(SupervisorVectors, SupervisorExternal, 5)

-----------------------------------------------------------------------------
(* Main programs. *)

Wait == <<Wfi, Jal(0, -4)>>
Raise(mask) == <<Li(1, mask), Sw(1, SetPending)>>
Arm(deadline) == <<Li(1, deadline), Sw(1, Deadline), Sw(0, DeadlineHigh)>>
Poke(base) == <<Li(1, 1), Sw(1, base)>>
BadStore == <<Sw(1, IcBase + IC!PENDING)>>

\* The window and the block index are left alone while a command is active.
Idle == <<Lb(1, Control), Andi(1, 1, 2^BD!BUSY), Bne(1, 0, -8)>>
Start(bits) == <<Li(1, OfBits({BD!IRQ_ENABLE} \cup bits)), Sb(1, Control)>>
WriteBlock(value) ==
    Idle \o <<Li(1, value), Sw(1, BlockBase + BD!DATA_WINDOW)>> \o Start({BD!START_WRITE})
ReadBlock(block) == Idle \o <<Li(1, block), Sw(1, BlockBase)>> \o Start({BD!START_READ})

Mains ==
    [sources |-> Raise(3) \o Poke(SsipBase) \o Raise(4),
     transfer |-> WriteBlock(9) \o ReadBlock(1),
     refused |-> WriteBlock(9) \o Start({BD!START_READ}) \o Raise(1),
     faults |-> Poke(MsipBase) \o BadStore \o Raise(6) \o <<Illegal>>,
     errors |-> ReadBlock(7) \o Start({BD!START_READ, BD!START_WRITE})]

Setups ==
    [machine |-> [level |-> User, mideleg |-> {}, ic_route |-> 0, block_route |-> 0],
     split |-> [level |-> User, mideleg |-> {1, 9}, ic_route |-> 1, block_route |-> 0],
     supervisor |-> [level |-> Supervisor, mideleg |-> {1, 9}, ic_route |-> 1, block_route |-> 1]]

\* What the supervisor handler does for a source: nothing, or ask machine
\* mode, which raises the first source again.
Serves == [nothing |-> Addi(3, 3, 0), asks |-> Sw(3, MsipBase)]

Name(setup, main, serve, deadline, latency) ==
    [setup |-> setup, main |-> main, serve |-> serve, deadline |-> deadline, latency |-> latency]

Names ==
    {Name(setup, main, "nothing", deadline, latency) :
        setup \in DOMAIN Setups, main \in DOMAIN Mains, deadline \in 24..40, latency \in {0, 1, 4, 9}}
    \cup {Name("split", main, "asks", deadline, 5) :
        main \in {"sources", "refused"}, deadline \in {24, 30, 36}}

Workload(n) ==
    [name |-> n,
     text |-> Place(0, Boot(Setups[n.setup]))
              @@ Place(MainAt, Arm(n.deadline) \o Mains[n.main] \o Wait)
              @@ Vectors @@ Handlers(<<Serves[n.serve]>>),
     operation_latency |-> n.latency]

MCWorkloads == {Workload(n) : n \in Names}
=============================================================================
