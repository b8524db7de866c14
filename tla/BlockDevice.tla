---------------------------- MODULE BlockDevice ----------------------------
(***************************************************************************)
(* The block device (devices/src/block_device.rs): blocks behind a staging *)
(* window, one command at a time.  operation_latency is part of the record *)
(* because each behaviour of the platform has its own.                     *)
(***************************************************************************)
EXTENDS Mmio

CONSTANTS BlockCount, BlockBytes

BLOCK_INDEX == 0
CONTROL == 4
BLOCK_COUNT == 8
BLOCK_BYTES == 12
DATA_WINDOW == 16
RouteOffset == DATA_WINDOW + BlockBytes
Size == RouteOffset + 4

\* The bits of the control register.
START_READ == 0
START_WRITE == 1
BUSY == 2
DONE == 3
IRQ_ENABLE == 4
ERROR == 5

Blocks == 0..(BlockCount - 1)
Block == [0..(BlockBytes - 1) -> 0..(BYTE - 1)]
ZeroBlock == [i \in 0..(BlockBytes - 1) |-> 0]

New(latency) ==
    [operation_latency |-> latency, selected_block |-> 0, irq_enabled |-> FALSE,
     done |-> FALSE, error |-> FALSE, interrupt_route |-> 0,
     staging |-> ZeroBlock, storage |-> [b \in Blocks |-> ZeroBlock], active |-> None]

Type ==
    [operation_latency : Nat, selected_block : 0..(WORD - 1), irq_enabled : BOOLEAN,
     done : BOOLEAN, error : BOOLEAN, interrupt_route : {0, 1},
     staging : Block, storage : [Blocks -> Block],
     active : {None} \cup [kind : {"read", "write"}, remaining_cycles : Nat \ {0}]]

InterruptLine(route) == IF route = 0 THEN MachineExternal ELSE SupervisorExternal

PendingInterrupts(d) ==
    IF d.irq_enabled /\ (d.done \/ d.error) THEN {InterruptLine(d.interrupt_route)} ELSE {}

ControlWord(d) ==
    OfBits({b \in {BUSY, DONE, IRQ_ENABLE, ERROR} :
        CASE b = BUSY -> d.active # None [] b = DONE -> d.done
          [] b = IRQ_ENABLE -> d.irq_enabled [] b = ERROR -> d.error})

\* The block and the window are those of the moment the command ends.
FinishCommand(d, kind) ==
    IF d.selected_block \notin Blocks THEN [d EXCEPT !.error = TRUE, !.done = FALSE]
    ELSE IF kind = "read" THEN [d EXCEPT !.staging = d.storage[d.selected_block], !.done = TRUE]
    ELSE [d EXCEPT !.storage[d.selected_block] = d.staging, !.done = TRUE]

\* A start while a command is active replaces the command.
StartCommandOver(d, kind) ==
    [d EXCEPT !.done = FALSE, !.error = d.active # None,
              !.active = [kind |-> kind, remaining_cycles |-> d.operation_latency]]

\* A start while a command is active only reports an error.
StartCommand(d, kind) ==
    LET cleared == [d EXCEPT !.done = FALSE, !.error = FALSE]
    IN  IF d.active # None THEN [cleared EXCEPT !.error = TRUE]
        ELSE IF d.operation_latency = 0 THEN FinishCommand(cleared, kind)
        ELSE [cleared EXCEPT !.active = [kind |-> kind,
                                         remaining_cycles |-> d.operation_latency]]

\* Acknowledging one status bit acknowledges both.
ApplyControlByteClearingBoth(d, value) ==
    LET bits == Bits(value)
        acked == [d EXCEPT !.irq_enabled = IRQ_ENABLE \in bits,
                           !.done = @ /\ bits \cap {DONE, ERROR} = {},
                           !.error = @ /\ bits \cap {DONE, ERROR} = {}]
        starts == bits \cap {START_READ, START_WRITE}
    IN  CASE starts = {} -> acked
          [] starts = {START_READ} -> StartCommand(acked, "read")
          [] starts = {START_WRITE} -> StartCommand(acked, "write")
          [] OTHER -> [acked EXCEPT !.done = FALSE, !.error = TRUE]

ApplyControlByte(d, value) ==
    LET bits == Bits(value)
        acked == [d EXCEPT !.irq_enabled = IRQ_ENABLE \in bits,
                           !.done = @ /\ DONE \notin bits, !.error = @ /\ ERROR \notin bits]
        starts == bits \cap {START_READ, START_WRITE}
    IN  CASE starts = {} -> acked
          [] starts = {START_READ} -> StartCommand(acked, "read")
          [] starts = {START_WRITE} -> StartCommand(acked, "write")
          [] OTHER -> [acked EXCEPT !.done = FALSE, !.error = TRUE]

Tick(d) ==
    IF d.active = None THEN d
    ELSE IF d.active.remaining_cycles > 1 THEN [d EXCEPT !.active.remaining_cycles = @ - 1]
    ELSE FinishCommand([d EXCEPT !.active = None], d.active.kind)

Load8(d, offset) ==
    LET value == CASE offset < CONTROL -> ByteOf(d.selected_block, offset)
                   [] offset \in CONTROL..7 -> ByteOf(ControlWord(d), offset - CONTROL)
                   [] offset \in BLOCK_COUNT..11 -> ByteOf(BlockCount, offset - BLOCK_COUNT)
                   [] offset \in BLOCK_BYTES..15 -> ByteOf(BlockBytes, offset - BLOCK_BYTES)
                   [] offset >= RouteOffset -> ByteOf(d.interrupt_route, offset - RouteOffset)
                   [] OTHER -> d.staging[offset - DATA_WINDOW]
    IN  [device |-> d, value |-> value]

Store8(d, offset, value) ==
    CASE offset < CONTROL -> [d EXCEPT !.selected_block = WithByte(@, offset, value)]
      [] offset = CONTROL -> ApplyControlByte(d, value)
      [] offset \in (CONTROL + 1)..7 -> d
      [] offset \in BLOCK_COUNT..15 -> None
      [] offset >= RouteOffset ->
             [d EXCEPT !.interrupt_route = WithByte(@, offset - RouteOffset, value) % 2]
      [] OTHER -> [d EXCEPT !.staging[offset - DATA_WINDOW] = value]
=============================================================================
