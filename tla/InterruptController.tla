------------------------ MODULE InterruptController ------------------------
(***************************************************************************)
(* The external interrupt controller (devices/src/interrupt_controller.rs).*)
(* Masks are sets of sources, numbered from 1; source s is bit s - 1.      *)
(***************************************************************************)
EXTENDS Mmio

PENDING == 0
ENABLE == 4
SET_PENDING == 8
CLAIM_COMPLETE == 12
ROUTE == 16
Size == 20

Sources == 1..XLEN
SourcesOf(word) == {b + 1 : b \in Bits(word)}
MaskOf(sources) == OfBits({s - 1 : s \in sources})

New == [pending |-> {}, enable |-> {}, claimed |-> {}, route |-> 0,
        claim_latch |-> None, complete_staging |-> 0]

Type == [pending : SUBSET Sources, enable : SUBSET Sources, claimed : SUBSET Sources,
         route : {0, 1}, claim_latch : {None} \cup {0} \cup Sources,
         complete_staging : 0..(WORD - 1)]

InterruptLine(route) == IF route = 0 THEN MachineExternal ELSE SupervisorExternal

EnabledPending(ic) == ic.pending \cap ic.enable

PendingInterrupts(ic) == IF EnabledPending(ic) = {} THEN {} ELSE {InterruptLine(ic.route)}

\* The lowest enabled pending source, 0 if there is none.
HighestPriorityPendingSource(ic) ==
    IF EnabledPending(ic) = {} THEN 0 ELSE Min(EnabledPending(ic))

ClaimNext(ic) ==
    LET s == HighestPriorityPendingSource(ic)
    IN  [ic EXCEPT !.pending = @ \ {s}, !.claimed = @ \cup ({s} \ {0}), !.claim_latch = s]

ReadRegisterByte(ic, offset) ==
    LET value == CASE offset < ENABLE -> MaskOf(ic.pending)
                   [] offset \in ENABLE..7 -> MaskOf(ic.enable)
                   [] offset \in SET_PENDING..11 -> 0
                   [] offset \in CLAIM_COMPLETE..15 ->
                          IF ic.claim_latch = None THEN 0 ELSE ic.claim_latch
                   [] OTHER -> ic.route
    IN  ByteOf(value, offset % 4)

\* Every byte of the register makes a claim of its own.
Load8ClaimingEachByte(ic, offset) ==
    LET latched == IF offset \in CLAIM_COMPLETE..15 THEN ClaimNext(ic) ELSE ic
    IN  [device |-> latched, value |-> ReadRegisterByte(latched, offset)]

\* The first byte of the claim register claims, the last forgets the latch.
Load8(ic, offset) ==
    LET latched == IF offset = CLAIM_COMPLETE THEN ClaimNext(ic) ELSE ic
    IN  [device |-> IF offset = CLAIM_COMPLETE + 3 THEN [latched EXCEPT !.claim_latch = None]
                                                   ELSE latched,
         value |-> ReadRegisterByte(latched, offset)]

\* A source raised while it is claimed is dropped; a completion takes effect
\* with the last byte of the register.
Store8(ic, offset, value) ==
    LET k == offset % 4
        staged == WithByte(ic.complete_staging, k, value)
    IN  CASE offset < ENABLE -> None
          [] offset \in ENABLE..7 ->
                 [ic EXCEPT !.enable = SourcesOf(WithByte(MaskOf(@), k, value))]
          [] offset \in SET_PENDING..11 ->
                 [ic EXCEPT !.pending = @ \cup (SourcesOf(value * BYTE^k) \ ic.claimed)]
          [] offset \in CLAIM_COMPLETE..15 ->
                 IF k = 3 THEN [ic EXCEPT !.claimed = @ \ {staged}, !.complete_staging = 0]
                          ELSE [ic EXCEPT !.complete_staging = staged]
          [] OTHER -> [ic EXCEPT !.route = WithByte(@, k, value) % 2]
=============================================================================
