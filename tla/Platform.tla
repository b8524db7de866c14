------------------------------ MODULE Platform ------------------------------
(***************************************************************************)
(* The machine (system/src/machine.rs) around the reference core: every    *)
(* cycle ticks the devices, shows the hart their interrupt lines, and lets *)
(* it take an interrupt or execute one instruction of a program whose      *)
(* loads and stores reach the interrupt controller, the timer, the         *)
(* software interrupt sources and the block device.                        *)
(*                                                                         *)
(* A workload is [name, text, operation_latency]: the program, boot code   *)
(* and handlers included, and the latency of the block device.  The        *)
(* devices answer in the cycle of the access, so the hart is a reference   *)
(* core that never waits; the program is read from a ROM.                  *)
(*                                                                         *)
(* Three variables record what the properties compare the state with:      *)
(* frames, the contexts that were interrupted, innermost last; serving,    *)
(* the sources each level has claimed and not completed; and command, what *)
(* the block device was last asked to do and has not yet been acknowledged.*)
(***************************************************************************)
EXTENDS Execute, Timers, SequencesExt

CONSTANTS Workloads, BlockCount, BlockBytes

ASSUME PlatformAssumption ==
    /\ TimeBound \in 0..(WORD - 1)
    /\ BlockCount \in Nat \ {0}
    /\ BlockBytes \in Nat \ {0} /\ BlockBytes % 4 = 0

IC == INSTANCE InterruptController
BD == INSTANCE BlockDevice

VARIABLES cycle,    \* the parity of the clock: every cycle changes it
          work, hart, devices, restarted, frames, serving, command

vars == <<cycle, work, hart, devices, restarted, frames, serving, command>>

Levels == {Machine, Supervisor}

-----------------------------------------------------------------------------
(* The devices on the bus. *)

NewDevices(latency) ==
    [ic |-> IC!New, timer |-> NewTimer, msip |-> 0, ssip |-> 0, block |-> BD!New(latency)]

TickDevices(d) == [d EXCEPT !.timer = TickTimer(@), !.block = BD!Tick(@)]

Lines(d) ==
    IC!PendingInterrupts(d.ic) \cup TimerInterrupts(d.timer) \cup BD!PendingInterrupts(d.block)
    \cup SipInterrupts(d.msip, MachineSoftware) \cup SipInterrupts(d.ssip, SupervisorSoftware)

Window(base, size) == base..(base + size - 1)

IcBase == \h400
TimerBase == \h420
MsipBase == \h430
SsipBase == \h434
BlockBase == \h440

Windows == [ic |-> Window(IcBase, IC!Size), timer |-> Window(TimerBase, TimerSize),
            msip |-> Window(MsipBase, SipSize), ssip |-> Window(SsipBase, SipSize),
            block |-> Window(BlockBase, BD!Size)]

DeviceAt(address) ==
    LET hits == {name \in DOMAIN Windows : address \in Windows[name]}
    IN  IF hits = {} THEN None ELSE CHOOSE name \in hits : TRUE

\* One byte of a device: the device that follows, with the byte read; or None
\* if the register is read-only.
Load8(name, device, offset) ==
    CASE name = "ic" -> IC!Load8(device, offset)
      [] name = "timer" -> TimerLoad8(device, offset)
      [] name \in {"msip", "ssip"} -> SipLoad8(device, offset)
      [] name = "block" -> BD!Load8(device, offset)

Store8(name, device, offset, value) ==
    CASE name = "ic" -> IC!Store8(device, offset, value)
      [] name = "timer" -> TimerStore8(device, offset, value)
      [] name \in {"msip", "ssip"} -> SipStore8(device, offset, value)
      [] name = "block" -> BD!Store8(device, offset, value)

\* The bytes of an access, lowest address first.
ByteOrder(width) == [k \in 1..width |-> k - 1]

LoadBytes(d, name, offset, width) ==
    FoldLeft(LAMBDA acc, k :
                 LET r == Load8(name, acc.device, offset + k)
                 IN  [device |-> r.device, value |-> acc.value + (r.value * BYTE^k)],
             [device |-> d[name], value |-> 0], ByteOrder(width))

\* The first byte of a read-only register is refused.
StoreBytes(d, name, offset, width, value) ==
    FoldLeft(LAMBDA device, k :
                 IF device = None THEN None ELSE Store8(name, device, offset + k, ByteOf(value, k)),
             d[name], ByteOrder(width))

\* The access of a load or store: its outcome as ExecuteDecoded takes it, and
\* the devices that follow.
DeviceAccess(d, devs, address, value) ==
    LET name == DeviceAt(address)
        width == Width(d.op)
        Fault(trap) == [kind |-> "trap", value |-> trap, devices |-> devs]
        Done(device, v) == [kind |-> "done", value |-> v, devices |-> [devs EXCEPT ![name] = device]]
    IN  IF address % width # 0 THEN Fault(MapBusErrorToTrap("misaligned", address, d.kind))
        ELSE IF name = None THEN Fault(MapBusErrorToTrap("unmapped", address, d.kind))
        ELSE LET offset == address - Min(Windows[name])
             IN  IF d.kind = "Load"
                 THEN LET r == LoadBytes(devs, name, offset, width)
                      IN  Done(r.device, LoadValue(d.op, r.value))
                 ELSE LET s == StoreBytes(devs, name, offset, width, value)
                      IN  IF s = None THEN Fault(MapBusErrorToTrap("read only", address, d.kind))
                                      ELSE Done(s, 0)

-----------------------------------------------------------------------------
(* What the recording variables make of a step. *)

Frame(h, level) == [level |-> level, pc |-> h.pc, privilege |-> h.privilege,
                    mie |-> MIE \in h.csrs.mstatus, sie |-> SIE \in h.csrs.mstatus]

\* h executed d and became g: returned from a trap, or wrote the address it
\* will return to.
FramesAfter(h, d, g) ==
    CASE frames # << >> /\ d.op \in {"Mret", "Sret"} -> Front(frames)
      [] frames # << >> /\ d.csr \in {Mepc, Sepc} ->
             [frames EXCEPT ![Len(frames)].pc =
                 IF h.privilege = Machine THEN g.csrs.mepc ELSE g.csrs.sepc]
      [] OTHER -> frames

\* Word accesses to the claim register by a handler of some level.
ServingAfter(d, level, address, value, loaded) ==
    IF address # IcBase + IC!CLAIM_COMPLETE THEN serving
    ELSE IF d.kind = "Load" THEN [serving EXCEPT ![level] = @ \cup ({loaded} \ {0})]
    ELSE [serving EXCEPT ![level] = @ \ {value}]

\* A store to the control register that acknowledges the end of a command,
\* successful or failed, or starts one: a start is accepted when no command
\* is active.
CommandAfter(d, before, address, value) ==
    IF d.kind = "Load" \/ address # BlockBase + BD!CONTROL THEN command
    ELSE LET bits == Bits(ByteOf(value, 0))
             starts == bits \cap {BD!START_READ, BD!START_WRITE}
         IN  CASE Cardinality(starts) = 1 /\ before.active = None ->
                      [kind |-> IF BD!START_READ \in starts THEN "read" ELSE "write",
                       block |-> before.selected_block, data |-> before.staging]
               [] BD!DONE \in bits -> None
               [] BD!ERROR \in bits /\ before.active = None /\ ~before.done -> None
               [] OTHER -> command

-----------------------------------------------------------------------------
(* The actions: one machine cycle each. *)

Init ==
    /\ cycle = 0
    /\ work \in Workloads
    /\ hart = NewHart(0)
    /\ devices = NewDevices(work.operation_latency)
    /\ restarted = FALSE
    /\ frames = << >>
    /\ serving = [level \in Levels |-> {}]
    /\ command = None

Ticked == TickDevices(devices)
Synced == [hart EXCEPT !.csrs = SyncInterrupts(@, Lines(Ticked))]
Taken == PendingInterrupt(Synced.csrs, Synced.privilege)

TakeInterrupt ==
    /\ Taken # None
    /\ hart' = ApplyTrap(Synced, Interrupt(Taken), Synced.pc)
    /\ devices' = Ticked
    /\ frames' = Append(frames, Frame(Synced, hart'.privilege))
    /\ UNCHANGED <<work, restarted, serving, command>>

StayHalted ==
    /\ Taken = None
    /\ hart.halted
    /\ hart' = Synced
    /\ devices' = Ticked
    /\ UNCHANGED <<work, restarted, frames, serving, command>>

\* A synchronous trap of the instruction at pc.
RaiseException(trap) ==
    /\ hart' = ApplyTrap(Synced, trap, Synced.pc)
    /\ devices' = Ticked
    /\ frames' = Append(frames, Frame(Synced, hart'.privilege))
    /\ UNCHANGED <<serving, command>>

ExecuteAccess(d, address, value) ==
    \E m \in {DeviceAccess(d, Ticked, address, value)} :
        IF m.kind = "trap" THEN RaiseException(m.value)
        ELSE /\ hart' = ExecuteDecoded(Synced, d, m)
             /\ devices' = m.devices
             /\ serving' = ServingAfter(d, Synced.privilege, address, value, m.value)
             /\ command' = CommandAfter(d, Ticked.block, address, value)
             /\ UNCHANGED frames

ExecuteOther(d) ==
    /\ hart' = ExecuteDecoded(Synced, d, None)
    /\ devices' = Ticked
    /\ frames' = FramesAfter(Synced, d, hart')
    /\ UNCHANGED <<serving, command>>

\* Fetch, decode and execute.
ExecuteInstruction ==
    /\ Taken = None
    /\ ~hart.halted
    /\ \E f \in {Fetch([program |-> work, ram |-> << >>, bus |-> None],
                       Synced.csrs, Synced.privilege, Synced.pc, 0)} :
         IF f.kind = "trap" THEN RaiseException(f.value)
         ELSE \E d \in {Decode(f.value, Synced.pc)} :
                IF d = None THEN RaiseException(IllegalInstruction(f.value))
                ELSE IF d.kind \in {"Load", "Store"}
                THEN ExecuteAccess(d, EffectiveAddress(ReadReg(Synced, d.rs1), d.imm),
                                   ReadReg(Synced, d.rs2))
                ELSE ExecuteOther(d)
    /\ UNCHANGED <<work, restarted>>

StepCycle == cycle' = 1 - cycle /\ (TakeInterrupt \/ StayHalted \/ ExecuteInstruction)

\* Machine::reset, at most once in a behaviour.
Reset ==
    /\ ~restarted
    /\ cycle' = 0
    /\ hart' = NewHart(0)
    /\ devices' = NewDevices(work.operation_latency)
    /\ restarted' = TRUE
    /\ frames' = << >>
    /\ serving' = [level \in Levels |-> {}]
    /\ command' = None
    /\ UNCHANGED work

Next == StepCycle \/ Reset

\* Machine::run_cycles goes on stepping the machine.  Only StepCycle changes
\* cycle back and forth, so this is WF_vars(StepCycle) in a form TLC can
\* check without evaluating ENABLED.
ClockRuns == []<>(cycle = 0) /\ []<>(cycle = 1)

Spec == Init /\ [][Next]_vars /\ ClockRuns

-----------------------------------------------------------------------------
(* Properties. *)

\* Every variable has its type; registers of devices hold words.
TypeOK ==
    /\ hart.privilege \in PrivilegeMode /\ hart.csrs \in CsrFileType
    /\ devices.ic \in IC!Type
    /\ devices.timer \in TimerType
    /\ {devices.msip, devices.ssip} \subseteq {0, 1}
    /\ devices.block \in BD!Type

\* Through any nesting of traps, interrupts on top of exceptions and machine
\* handlers on top of supervisor handlers included, the CSRs of each level
\* hold the place, privilege and interrupt enable its return goes back to
\* (CsrFile::enter_trap and the two returns).
InterruptedContextKept ==
    /\ \A j, k \in DOMAIN frames : j < k => frames[j].level < frames[k].level
    /\ frames # << >> => hart.privilege = Last(frames).level
    /\ \A k \in DOMAIN frames :
         LET f == frames[k]
             c == hart.csrs
         IN  IF f.level = Machine
             THEN /\ c.mepc = f.pc
                  /\ f.mie = (MPIE \in c.mstatus)
                  /\ ReturnFromMachineTrap(c).privilege = f.privilege
             ELSE /\ c.sepc = f.pc
                  /\ f.sie = (SPIE \in c.mstatus)
                  /\ ReturnFromSupervisorTrap(c).privilege = f.privilege

\* The controller's claimed mask is what the handlers have claimed and not
\* completed, no source is with two handlers, and none is pending while it
\* is with one (InterruptController::load8 and store8, four bytes a word).
SourcesServedOnce ==
    /\ devices.ic.claimed = serving[Machine] \cup serving[Supervisor]
    /\ serving[Machine] \cap serving[Supervisor] = {}
    /\ devices.ic.pending \cap devices.ic.claimed = {}

\* What a command transfers is what it was started for: a refused start, a
\* handler or the end of another command never change its direction or lose
\* it, and nothing but a command changes the storage
\* (BlockDevice::start_command, finish_command).
CommandsKeepTheirMeaning ==
    [][ LET b == devices.block
            c == IF b.active # None THEN command ELSE command'
            ends == b.active # None /\ devices'.block.active = None
            written == [b.storage EXCEPT ![c.block] = c.data]
        IN  restarted' = restarted =>
            /\ devices'.block.storage # b.storage =>
                 c # None /\ c.kind = "write" /\ devices'.block.storage = written
            /\ ends /\ c.block \in DOMAIN b.storage =>
                 IF c.kind = "read" THEN devices'.block.staging = b.storage[c.block]
                                    ELSE devices'.block.storage = written ]_vars

\* A command that was accepted stays visible, as busy, done or error, until a
\* handler has acknowledged its end: writing back the status it read never
\* wipes out an end it has not seen (BlockDevice::apply_control_byte).
CompletionStaysVisible ==
    command # None => \/ devices.block.active # None
                      \/ devices.block.done
                      \/ devices.block.error

\* Every interrupt is served and every handler returns: in the end no line is
\* raised, no source is claimed and the main program has the hart.
EverythingServed ==
    <>[]( /\ Lines(devices) = {}
          /\ frames = << >>
          /\ devices.ic.claimed = {}
          /\ hart.privilege # Machine )
=============================================================================
