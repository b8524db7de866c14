--------------------------- MODULE ReferenceCore ---------------------------
(***************************************************************************)
(* The reference core (cpu/src/core/reference.rs): one instruction at a    *)
(* time, held over in pending_decoded while its data access waits.         *)
(*                                                                         *)
(* Every action is one way through step_cycle, after the bus tick of       *)
(* Machine::step_cycle and the sampling of the interrupt lines.            *)
(***************************************************************************)
EXTENDS Execute

VARIABLES program, hart, ram, bus, pending_decoded

vars == <<program, hart, ram, bus, pending_decoded>>

Sync(h, lines) == [h EXCEPT !.csrs = SyncInterrupts(@, lines)]

Env == TickBus([program |-> program, ram |-> ram, bus |-> bus])

Leave(h, env, decoded) ==
    /\ hart' = h
    /\ ram' = env.ram
    /\ bus' = env.bus
    /\ pending_decoded' = decoded
    /\ UNCHANGED program

Init ==
    /\ hart = program.hart
    /\ ram = program.ram
    /\ bus = None
    /\ pending_decoded = None

\* An interrupt is taken only between instructions and with the bus idle.
Admitted(h) ==
    /\ pending_decoded = None
    /\ ~BusBusy(Env)
    /\ PendingInterrupt(h.csrs, h.privilege) # None

TakeInterrupt(lines) ==
    LET h == Sync(hart, lines)
    IN  /\ Admitted(h)
        /\ Leave(ApplyTrap(h, Interrupt(PendingInterrupt(h.csrs, h.privilege)), h.pc),
                 Env, pending_decoded)

StayHalted(lines) ==
    LET h == Sync(hart, lines)
    IN  /\ h.halted /\ ~Admitted(h)
        /\ Leave(h, Env, pending_decoded)

\* Execute d; it is kept for the next cycle if its access is not answered.
Execute(h, env, d, latency) ==
    LET m == DataAccess(env, h, d, latency)
    IN  Leave(ExecuteDecoded(h, d, m), m.env, IF m.kind = "stall" THEN d ELSE None)

Resume(lines, data_latency) ==
    LET h == Sync(hart, lines)
    IN  /\ ~h.halted
        /\ pending_decoded # None
        /\ Execute(h, Env, pending_decoded, data_latency)

FetchAndExecute(lines, fetch_latency, data_latency) ==
    LET h == Sync(hart, lines)
        f == Fetch(Env, h.csrs, h.privilege, h.pc, fetch_latency)
        d == Decode(f.value, h.pc)
    IN  /\ ~h.halted /\ ~Admitted(h)
        /\ pending_decoded = None
        /\ \/ f.kind = "stall" /\ Leave(h, f.env, None)
           \/ f.kind = "trap" /\ Leave(ApplyTrap(h, f.value, h.pc), f.env, None)
           \/ /\ f.kind = "done" /\ d = None
              /\ Leave(ApplyTrap(h, IllegalInstruction(f.value), h.pc), f.env, None)
           \/ /\ f.kind = "done" /\ d # None
              /\ Execute(h, f.env, d, data_latency)

StepCycle ==
    \E lines \in program.lines :
        \/ TakeInterrupt(lines)
        \/ StayHalted(lines)
        \/ \E data_latency \in program.data_latency :
               \/ Resume(lines, data_latency)
               \/ \E fetch_latency \in program.fetch_latency :
                      FetchAndExecute(lines, fetch_latency, data_latency)
=============================================================================
