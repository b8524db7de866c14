----------------------------- MODULE CsrFile -----------------------------
(***************************************************************************)
(* The CSR file of the hart (cpu/src/state/csr_file.rs): masked reads and  *)
(* writes, interrupt pending bits, delegation, trap entry and return.      *)
(*                                                                         *)
(* The file is a record.  Registers of flags (mstatus, mie, mip, medeleg,  *)
(* mideleg, the counter enables and the two halves of mip) are the sets of *)
(* their bits; the others are words.  The counters are left out: their     *)
(* values change every cycle and decide no control flow.                   *)
(***************************************************************************)
EXTENDS Isa

\* Privilege modes by their csr_level.
User == 0
Supervisor == 1
Machine == 3
PrivilegeMode == {User, Supervisor, Machine}

SIE == 1
MIE == 3
SPIE == 5
MPIE == 7
SPP == 8
MPP == {11, 12}
SUM == 18
MXR == 19
TVM == 20
TW == 21
TSR == 22

SstatusMask == {SIE, SPIE, SPP, SUM, MXR}
SieMask == {1, 5, 9}
SipMask == {1, 5, 9}
MipWritable == {1, 3}
SipWritable == {1}
MidelegMask == {1, 5, 9}
MedelegMask == (0..9) \cup {12, 13, 15}
CounterenMask == {0, 1, 2}

DefaultCsrs ==
    [mstatus |-> {}, medeleg |-> {}, mideleg |-> {}, mie |-> {}, mip |-> {},
     software_pending |-> {}, external_pending |-> {},
     mcounteren |-> {}, scounteren |-> {},
     mtvec |-> 0, mepc |-> 0, mcause |-> 0, mtval |-> 0,
     stvec |-> 0, sepc |-> 0, scause |-> 0, stval |-> 0, satp |-> 0]

CsrFileType ==
    [mstatus : SUBSET (0..(XLEN - 1)), medeleg : SUBSET MedelegMask,
     mideleg : SUBSET MidelegMask, mie : SUBSET Interrupts,
     mip : SUBSET Interrupts, software_pending : SUBSET MipWritable,
     external_pending : SUBSET Interrupts,
     mcounteren : SUBSET CounterenMask, scounteren : SUBSET CounterenMask,
     mtvec : 0..(WORD - 1), mepc : 0..(WORD - 1), mcause : 0..(WORD - 1),
     mtval : 0..(WORD - 1), stvec : 0..(WORD - 1), sepc : 0..(WORD - 1),
     scause : 0..(WORD - 1), stval : 0..(WORD - 1), satp : 0..(WORD - 1)]

\* mip shows the bits software wrote and the lines the devices hold.
RefreshMip(c) ==
    [c EXCEPT !.mip = (c.software_pending \cap MipWritable) \cup c.external_pending]

ReadCsr(c, csr) ==
    CASE csr = Sstatus -> OfBits(c.mstatus \cap SstatusMask)
      [] csr = Sie -> OfBits(c.mie \cap SieMask)
      [] csr = Sip -> OfBits(c.mip \cap SipMask)
      [] csr = Mstatus -> OfBits(c.mstatus)
      [] csr = Medeleg -> OfBits(c.medeleg)
      [] csr = Mideleg -> OfBits(c.mideleg)
      [] csr = Mie -> OfBits(c.mie)
      [] csr = Mip -> OfBits(c.mip)
      [] csr = Mcounteren -> OfBits(c.mcounteren)
      [] csr = Scounteren -> OfBits(c.scounteren)
      [] csr = Mtvec -> c.mtvec
      [] csr = Mepc -> c.mepc
      [] csr = Mcause -> c.mcause
      [] csr = Mtval -> c.mtval
      [] csr = Stvec -> c.stvec
      [] csr = Sepc -> c.sepc
      [] csr = Scause -> c.scause
      [] csr = Stval -> c.stval
      [] csr = Satp -> c.satp

WriteCsr(c, csr, value) ==
    LET v == Bits(value)
        Merge(old, mask) == (old \ mask) \cup (v \cap mask)
    IN  CASE csr = Sstatus -> [c EXCEPT !.mstatus = Merge(@, SstatusMask)]
          [] csr = Sie -> [c EXCEPT !.mie = Merge(@, SieMask)]
          [] csr = Sip -> RefreshMip([c EXCEPT !.software_pending = Merge(@, SipWritable)])
          [] csr = Mip -> RefreshMip([c EXCEPT !.software_pending = Merge(@, MipWritable)])
          [] csr = Mstatus -> [c EXCEPT !.mstatus = v]
          [] csr = Medeleg -> [c EXCEPT !.medeleg = v \cap MedelegMask]
          [] csr = Mideleg -> [c EXCEPT !.mideleg = v \cap MidelegMask]
          [] csr = Mie -> [c EXCEPT !.mie = v \cap Interrupts]
          [] csr = Mcounteren -> [c EXCEPT !.mcounteren = v \cap CounterenMask]
          [] csr = Scounteren -> [c EXCEPT !.scounteren = v \cap CounterenMask]
          [] csr = Mtvec -> [c EXCEPT !.mtvec = value]
          [] csr = Mepc -> [c EXCEPT !.mepc = value]
          [] csr = Mcause -> [c EXCEPT !.mcause = value]
          [] csr = Mtval -> [c EXCEPT !.mtval = value]
          [] csr = Stvec -> [c EXCEPT !.stvec = value]
          [] csr = Sepc -> [c EXCEPT !.sepc = value]
          [] csr = Scause -> [c EXCEPT !.scause = value]
          [] csr = Stval -> [c EXCEPT !.stval = value]
          [] csr = Satp -> [c EXCEPT !.satp = value]

\* A line that was raised once stays pending.
SyncInterruptsSticky(c, lines) == RefreshMip([c EXCEPT !.external_pending = @ \cup lines])

\* lines: the interrupt lines the bus reports this cycle.
SyncInterrupts(c, lines) == RefreshMip([c EXCEPT !.external_pending = lines])

-----------------------------------------------------------------------------
(* Which interrupt is taken. *)

DelegatesInterrupt(c, interrupt) == IsSupervisor(interrupt) /\ interrupt \in c.mideleg

\* A delegated interrupt is not taken in machine mode at all.
InterruptTarget(c, interrupt, privilege) ==
    IF ~DelegatesInterrupt(c, interrupt) THEN Machine
    ELSE IF privilege = Machine THEN None
    ELSE Supervisor

\* Machine interrupts are admitted whatever MIE says.
InterruptGloballyEnabledAlways(c, target, privilege) ==
    \/ target = Machine
    \/ target = Supervisor /\ \/ privilege = User
                              \/ privilege = Supervisor /\ SIE \in c.mstatus

InterruptGloballyEnabled(c, target, privilege) ==
    \/ target = Machine /\ (privilege # Machine \/ MIE \in c.mstatus)
    \/ target = Supervisor /\ \/ privilege = User
                              \/ privilege = Supervisor /\ SIE \in c.mstatus

InterruptPriority ==
    <<MachineExternal, MachineSoftware, MachineTimer,
      SupervisorExternal, SupervisorSoftware, SupervisorTimer>>

\* The first in the order of priority that is pending, enabled and admitted.
PendingInterrupt(c, privilege) ==
    LET Taken == {k \in 1..6 :
            LET i == InterruptPriority[k]
            IN  /\ i \in c.mip \cap c.mie
                /\ InterruptGloballyEnabled(c, InterruptTarget(c, i, privilege), privilege)}
    IN  IF Taken = {} THEN None ELSE InterruptPriority[Min(Taken)]

-----------------------------------------------------------------------------
(* Trap entry and return.  Each gives the CSR file, the privilege and the  *)
(* program counter that follow.                                            *)

DelegatesTrap(c, trap, privilege) ==
    /\ privilege # Machine
    /\ IF trap.interrupt THEN DelegatesInterrupt(c, trap.code)
                         ELSE trap.code \in c.medeleg

\* A vectored handler takes interrupts at its own slot; exceptions never are.
TrapVector(tvec, trap) ==
    IF trap.interrupt /\ tvec % 4 = 1 THEN Word(tvec - 1 + (4 * trap.code))
                                      ELSE tvec - (tvec % 4)

If(flag, present) == IF present THEN {flag} ELSE {}

EnterMachineTrap(c, trap, pc, privilege) ==
    [csrs |-> [c EXCEPT
         !.mepc = pc, !.mcause = CauseBits(trap), !.mtval = trap.tval,
         !.mstatus = (@ \ ({MPIE, MIE} \cup MPP)) \cup If(MPIE, MIE \in @)
                     \cup (CASE privilege = User -> {}
                             [] privilege = Supervisor -> {11}
                             [] privilege = Machine -> MPP)],
     privilege |-> Machine, pc |-> TrapVector(c.mtvec, trap)]

EnterSupervisorTrap(c, trap, pc, privilege) ==
    [csrs |-> [c EXCEPT
         !.sepc = pc, !.scause = CauseBits(trap), !.stval = trap.tval,
         !.mstatus = (@ \ {SPIE, SIE, SPP}) \cup If(SPIE, SIE \in @)
                     \cup If(SPP, privilege = Supervisor)],
     privilege |-> Supervisor, pc |-> TrapVector(c.stvec, trap)]

EnterTrap(c, trap, pc, privilege) ==
    IF DelegatesTrap(c, trap, privilege)
    THEN EnterSupervisorTrap(c, trap, pc, privilege)
    ELSE EnterMachineTrap(c, trap, pc, privilege)

ReturnFromMachineTrap(c) ==
    [csrs |-> [c EXCEPT !.mstatus =
                  ((@ \ ({MIE} \cup MPP)) \cup {MPIE}) \cup If(MIE, MPIE \in @)],
     privilege |-> CASE c.mstatus \cap MPP = {} -> User
                     [] c.mstatus \cap MPP = {11} -> Supervisor
                     [] OTHER -> Machine,
     pc |-> c.mepc]

ReturnFromSupervisorTrap(c) ==
    [csrs |-> [c EXCEPT !.mstatus =
                  ((@ \ {SIE, SPP}) \cup {SPIE}) \cup If(SIE, SPIE \in @)],
     privilege |-> IF SPP \in c.mstatus THEN Supervisor ELSE User,
     pc |-> c.sepc]

-----------------------------------------------------------------------------
(* Access control of CSR instructions. *)

AllowsCsrAccess(c, privilege, csr) ==
    LET bit == CounterenBit(csr)
    IN  /\ privilege >= MinPrivilegeLevel(csr)
        /\ bit # None =>
             /\ privilege # Machine => bit \in c.mcounteren
             /\ privilege = User => bit \in c.scounteren
=============================================================================
