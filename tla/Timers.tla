------------------------------- MODULE Timers -------------------------------
(***************************************************************************)
(* The machine timer (devices/src/machine_timer.rs) and the two software   *)
(* interrupt sources (machine_software_interrupt.rs,                       *)
(* supervisor_software_interrupt.rs).                                      *)
(*                                                                         *)
(* The 64-bit registers of the timer are pairs <<high, low>> of words.     *)
(* Time stands still at TimeBound: no deadline of the instance lies beyond *)
(* it, so nothing the hart can observe changes afterwards.                 *)
(***************************************************************************)
EXTENDS Mmio

CONSTANT TimeBound

MTIME_LOW == 0
MTIME_HIGH == 4
MTIMECMP_LOW == 8
MTIMECMP_HIGH == 12
TimerSize == 16

NewTimer == [mtime |-> <<0, 0>>, mtimecmp |-> <<WORD - 1, WORD - 1>>]

TimerType == LET Register == (0..(WORD - 1)) \X (0..(WORD - 1))
             IN  [mtime : Register, mtimecmp : Register]

AtLeast(a, b) == a[1] > b[1] \/ (a[1] = b[1] /\ a[2] >= b[2])

TickTimer(t) == IF AtLeast(t.mtime, <<0, TimeBound>>) THEN t ELSE [t EXCEPT !.mtime[2] = @ + 1]

TimerInterrupts(t) == IF AtLeast(t.mtime, t.mtimecmp) THEN {MachineTimer} ELSE {}

\* The register of an offset and the half of it, 1 for the high word.
Half(offset) == IF (offset \div 4) % 2 = 1 THEN 1 ELSE 2

TimerLoad8(t, offset) ==
    LET register == IF offset < MTIMECMP_LOW THEN t.mtime ELSE t.mtimecmp
    IN  [device |-> t, value |-> ByteOf(register[Half(offset)], offset % 4)]

TimerStore8(t, offset, value) ==
    LET Written(register) == [register EXCEPT ![Half(offset)] = WithByte(@, offset % 4, value)]
    IN  IF offset < MTIMECMP_LOW THEN [t EXCEPT !.mtime = Written(@)]
                                 ELSE [t EXCEPT !.mtimecmp = Written(@)]

-----------------------------------------------------------------------------
(* msip and ssip: one bit each. *)

SipSize == 4
SipLoad8(sip, offset) == [device |-> sip, value |-> ByteOf(sip, offset)]

\* The whole word is kept.
SipStore8Unmasked(sip, offset, value) == WithByte(sip, offset, value)

SipStore8(sip, offset, value) == WithByte(sip, offset, value) % 2
SipInterrupts(sip, line) == IF sip = 1 THEN {line} ELSE {}
=============================================================================
