--------------------------- MODULE CsrFileProofs ---------------------------
(***************************************************************************)
(* Traps, for every CSR file, cause and program counter: what entry and    *)
(* return keep for each other, alone and nested, and which interrupts a    *)
(* handler has to expect.                                                  *)
(***************************************************************************)
EXTENDS CsrFile, TLAPS, WellFoundedInduction

TrapType ==
    [interrupt : BOOLEAN, code : 0..15, tval : 0..(WORD - 1)]

(* The values of the constants that the provers need.                      *)
LEMMA WordSize ==
  /\ 0..(XLEN - 1) = 0..23
  /\ WORD \in Nat /\ TOP \in Nat /\ WORD = TOP + TOP /\ TOP > 15
  BY SMT DEF XLEN, WORD, TOP

-----------------------------------------------------------------------------
(* The CSR file keeps its type. *)

(* refresh_mip.                                                            *)
LEMMA RefreshKeepsType ==
  ASSUME NEW c \in CsrFileType
  PROVE  RefreshMip(c) \in CsrFileType
PROOF
<1>1. MipWritable \subseteq Interrupts
  BY DEF MipWritable, Interrupts
<1> QED BY <1>1 DEF RefreshMip, CsrFileType

(* Software writes any value to any CSR: the masks of write_csr keep every *)
(* register within the bits it has.                                        *)
THEOREM WritesKeepType ==
  ASSUME NEW c \in CsrFileType, NEW csr \in CsrAddress \ {Cycle, Time, Instret},
         NEW value \in 0..(WORD - 1)
  PROVE  WriteCsr(c, csr, value) \in CsrFileType
PROOF
<1>1. Bits(value) \subseteq 0..(XLEN - 1)
  BY DEF Bits
<1>2. MidelegMask \subseteq 0..(XLEN - 1) /\ SieMask \subseteq Interrupts
      /\ SstatusMask \subseteq 0..(XLEN - 1) /\ SipWritable \subseteq MipWritable
      /\ MipWritable \subseteq Interrupts
  BY DEF MidelegMask, SieMask, SstatusMask, SipWritable, MipWritable, Interrupts, XLEN,
         SIE, SPIE, SPP, SUM, MXR
<1> USE DEF WriteCsr,
           Sstatus, Sie, Stvec, Scounteren, Sepc, Scause, Stval, Sip, Satp, Mstatus, Medeleg,
           Mideleg, Mie, Mtvec, Mcounteren, Mepc, Mcause, Mtval, Mip
<1>3. CASE csr = Sstatus
  BY <1>1, <1>2, <1>3 DEF CsrFileType
<1>4. CASE csr = Sie
  BY <1>1, <1>2, <1>4 DEF CsrFileType
<1>5. CASE csr = Stvec
  BY <1>1, <1>2, <1>5 DEF CsrFileType
<1>6. CASE csr = Scounteren
  BY <1>1, <1>2, <1>6 DEF CsrFileType
<1>7. CASE csr = Sepc
  BY <1>1, <1>2, <1>7 DEF CsrFileType
<1>8. CASE csr = Scause
  BY <1>1, <1>2, <1>8 DEF CsrFileType
<1>9. CASE csr = Stval
  BY <1>1, <1>2, <1>9 DEF CsrFileType
<1>10. CASE csr = Sip
  <2> DEFINE d == [c EXCEPT !.software_pending = (@ \ SipWritable) \cup (Bits(value) \cap SipWritable)]
  <2>1. d \in CsrFileType
    BY <1>2 DEF CsrFileType
  <2>2. WriteCsr(c, csr, value) = RefreshMip(d)
    BY <1>10
  <2> HIDE DEF d, WriteCsr
  <2> QED BY <2>1, <2>2, RefreshKeepsType
<1>11. CASE csr = Satp
  BY <1>1, <1>2, <1>11 DEF CsrFileType
<1>12. CASE csr = Mstatus
  BY <1>1, <1>2, <1>12 DEF CsrFileType
<1>13. CASE csr = Medeleg
  BY <1>1, <1>2, <1>13 DEF CsrFileType
<1>14. CASE csr = Mideleg
  BY <1>1, <1>2, <1>14 DEF CsrFileType
<1>15. CASE csr = Mie
  BY <1>1, <1>2, <1>15 DEF CsrFileType
<1>16. CASE csr = Mtvec
  BY <1>1, <1>2, <1>16 DEF CsrFileType
<1>17. CASE csr = Mcounteren
  BY <1>1, <1>2, <1>17 DEF CsrFileType
<1>18. CASE csr = Mepc
  BY <1>1, <1>2, <1>18 DEF CsrFileType
<1>19. CASE csr = Mcause
  BY <1>1, <1>2, <1>19 DEF CsrFileType
<1>20. CASE csr = Mtval
  BY <1>1, <1>2, <1>20 DEF CsrFileType
<1>21. CASE csr = Mip
  <2> DEFINE d == [c EXCEPT !.software_pending = (@ \ MipWritable) \cup (Bits(value) \cap MipWritable)]
  <2>1. d \in CsrFileType
    BY <1>2 DEF CsrFileType
  <2>2. WriteCsr(c, csr, value) = RefreshMip(d)
    BY <1>21
  <2> HIDE DEF d, WriteCsr
  <2> QED BY <2>1, <2>2, RefreshKeepsType
<1> QED BY <1>3, <1>4, <1>5, <1>6, <1>7, <1>8, <1>9, <1>10, <1>11, <1>12, <1>13, <1>14, <1>15, <1>16, <1>17, <1>18, <1>19, <1>20, <1>21 DEF CsrAddress

-----------------------------------------------------------------------------
(* Entry and return. *)

(* What one entry into machine mode changes.  The context of the           *)
(* supervisor, sepc, scause, stval, SIE, SPIE and SPP, is not touched.     *)
LEMMA MachineEntry ==
  ASSUME NEW c \in CsrFileType, NEW trap \in TrapType, NEW pc \in 0..(WORD - 1),
         NEW privilege \in PrivilegeMode
  PROVE  LET d == EnterMachineTrap(c, trap, pc, privilege).csrs
         IN  /\ d \in CsrFileType
             /\ d.mepc = pc
             /\ MIE \notin d.mstatus /\ (MPIE \in d.mstatus <=> MIE \in c.mstatus)
             /\ 11 \in d.mstatus <=> privilege # User
             /\ 12 \in d.mstatus <=> privilege = Machine
             /\ d.sepc = c.sepc /\ d.scause = c.scause /\ d.stval = c.stval
             /\ \A b \in {SIE, SPIE, SPP, SUM, MXR} : b \in d.mstatus <=> b \in c.mstatus
             /\ d.mideleg = c.mideleg /\ d.mie = c.mie /\ d.mip = c.mip
PROOF
<1> DEFINE saved == CASE privilege = User -> {}
                      [] privilege = Supervisor -> {11}
                      [] privilege = Machine -> MPP
           status == (c.mstatus \ ({MPIE, MIE} \cup MPP)) \cup If(MPIE, MIE \in c.mstatus)
                     \cup saved
           d == EnterMachineTrap(c, trap, pc, privilege).csrs
<1>1. /\ saved \subseteq 0..23 /\ (11 \in saved <=> privilege # User)
      /\ (12 \in saved <=> privilege = Machine) /\ saved \subseteq {11, 12}
  BY DEF PrivilegeMode, User, Supervisor, Machine, MPP
<1> HIDE DEF saved
<1>2. c.mstatus \subseteq 0..23
  BY WordSize DEF CsrFileType
<1>3. /\ status \subseteq 0..23
      /\ MIE \notin status /\ (MPIE \in status <=> MIE \in c.mstatus)
      /\ 11 \in status <=> privilege # User
      /\ 12 \in status <=> privilege = Machine
      /\ \A b \in {SIE, SPIE, SPP, SUM, MXR} : b \in status <=> b \in c.mstatus
  <2>1. \A b : b \in status <=> \/ (b \in c.mstatus /\ b \notin {3, 7, 11, 12})
                                \/ (b = 7 /\ 3 \in c.mstatus)
                                \/ b \in saved
    BY DEF If, MIE, MPIE, MPP
  <2> HIDE DEF status
  <2>2. 3 \notin saved /\ 7 \notin saved
    BY <1>1
  <2>3. status \subseteq 0..23
    <3>1. ASSUME NEW b \in status PROVE b \in c.mstatus \/ b = 7 \/ b \in saved
      BY <2>1
    <3>2. saved \subseteq 0..23
      BY <1>1
    <3>3. 7 \in 0..23
      OBVIOUS
    <3> QED BY <1>2, <3>1, <3>2, <3>3, Zenon
  <2>4. MIE \notin status /\ (MPIE \in status <=> MIE \in c.mstatus)
    BY <2>1, <2>2 DEF MIE, MPIE
  <2>5. (11 \in status <=> privilege # User) /\ (12 \in status <=> privilege = Machine)
    BY <1>1, <2>1
  <2>6. ASSUME NEW b \in {SIE, SPIE, SPP, SUM, MXR} PROVE b \in status <=> b \in c.mstatus
    BY <1>1, <2>1 DEF SIE, SPIE, SPP, SUM, MXR
  <2> QED BY <2>3, <2>4, <2>5, <2>6
<1>4. CauseBits(trap) \in 0..(WORD - 1)
  <2>1. trap.code \in 0..15 /\ trap.interrupt \in BOOLEAN
    BY DEF TrapType
  <2> QED BY <2>1, WordSize DEF CauseBits
<1>5. trap.tval \in 0..(WORD - 1)
  BY DEF TrapType
<1>6. d = [c EXCEPT !.mepc = pc, !.mcause = CauseBits(trap), !.mtval = trap.tval,
                    !.mstatus = status]
  BY DEF EnterMachineTrap, saved
<1> HIDE DEF status, d
<1>7. d \in CsrFileType
  <2>1. status \in SUBSET (0..(XLEN - 1))
    BY <1>3, WordSize
  <2> QED BY <1>4, <1>5, <1>6, <2>1 DEF CsrFileType
<1>8. /\ d.mepc = pc /\ d.mstatus = status
      /\ d.sepc = c.sepc /\ d.scause = c.scause /\ d.stval = c.stval
      /\ d.mideleg = c.mideleg /\ d.mie = c.mie /\ d.mip = c.mip
  BY <1>6 DEF CsrFileType
<1> QED BY <1>3, <1>7, <1>8 DEF d

(* The same one level down: mepc, MIE, MPIE and MPP stay as they are.      *)
LEMMA SupervisorEntry ==
  ASSUME NEW c \in CsrFileType, NEW trap \in TrapType, NEW pc \in 0..(WORD - 1),
         NEW privilege \in PrivilegeMode
  PROVE  LET d == EnterSupervisorTrap(c, trap, pc, privilege).csrs
         IN  /\ d \in CsrFileType
             /\ d.sepc = pc
             /\ SIE \notin d.mstatus /\ (SPIE \in d.mstatus <=> SIE \in c.mstatus)
             /\ SPP \in d.mstatus <=> privilege = Supervisor
             /\ d.mepc = c.mepc /\ d.mcause = c.mcause /\ d.mtval = c.mtval
             /\ \A b \in {MIE, MPIE, 11, 12, SUM, MXR} : b \in d.mstatus <=> b \in c.mstatus
             /\ d.mideleg = c.mideleg /\ d.mie = c.mie /\ d.mip = c.mip
PROOF
<1> DEFINE status == (c.mstatus \ {SPIE, SIE, SPP}) \cup If(SPIE, SIE \in c.mstatus)
                     \cup If(SPP, privilege = Supervisor)
           d == EnterSupervisorTrap(c, trap, pc, privilege).csrs
<1>1. c.mstatus \subseteq 0..23
  BY WordSize DEF CsrFileType
<1>2. /\ status \subseteq 0..23
      /\ SIE \notin status /\ (SPIE \in status <=> SIE \in c.mstatus)
      /\ SPP \in status <=> privilege = Supervisor
      /\ \A b \in {MIE, MPIE, 11, 12, SUM, MXR} : b \in status <=> b \in c.mstatus
  BY <1>1 DEF If, MIE, MPIE, SIE, SPIE, SPP, SUM, MXR
<1>3. CauseBits(trap) \in 0..(WORD - 1)
  <2>1. trap.code \in 0..15 /\ trap.interrupt \in BOOLEAN
    BY DEF TrapType
  <2> QED BY <2>1, WordSize DEF CauseBits
<1>4. trap.tval \in 0..(WORD - 1)
  BY DEF TrapType
<1>5. d = [c EXCEPT !.sepc = pc, !.scause = CauseBits(trap), !.stval = trap.tval,
                    !.mstatus = status]
  BY DEF EnterSupervisorTrap
<1> HIDE DEF status, d
<1>6. d \in CsrFileType
  <2>1. status \in SUBSET (0..(XLEN - 1))
    BY <1>2, WordSize
  <2> QED BY <1>3, <1>4, <1>5, <2>1 DEF CsrFileType
<1>7. /\ d.sepc = pc /\ d.mstatus = status
      /\ d.mepc = c.mepc /\ d.mcause = c.mcause /\ d.mtval = c.mtval
      /\ d.mideleg = c.mideleg /\ d.mie = c.mie /\ d.mip = c.mip
  BY <1>5 DEF CsrFileType
<1> QED BY <1>2, <1>6, <1>7 DEF d

(* mret resumes what the entry saved, from any file that still has it.     *)
LEMMA MachineReturn ==
  ASSUME NEW c \in CsrFileType, NEW privilege \in PrivilegeMode,
         11 \in c.mstatus <=> privilege # User,
         12 \in c.mstatus <=> privilege = Machine
  PROVE  LET r == ReturnFromMachineTrap(c)
         IN  /\ r.csrs \in CsrFileType
             /\ r.pc = c.mepc /\ r.privilege = privilege
             /\ MIE \in r.csrs.mstatus <=> MPIE \in c.mstatus
             /\ \A b \in {SIE, SPIE, SPP, SUM, MXR} : b \in r.csrs.mstatus <=> b \in c.mstatus
             /\ r.csrs.sepc = c.sepc /\ r.csrs.mideleg = c.mideleg
             /\ r.csrs.mie = c.mie /\ r.csrs.mip = c.mip
PROOF
<1> DEFINE status == ((c.mstatus \ ({MIE} \cup MPP)) \cup {MPIE}) \cup If(MIE, MPIE \in c.mstatus)
           d == ReturnFromMachineTrap(c).csrs
           mode == ReturnFromMachineTrap(c).privilege
<1>1. c.mstatus \subseteq 0..23
  BY WordSize DEF CsrFileType
<1>2. \A b : b \in status <=> \/ (b \in c.mstatus /\ b \notin {3, 11, 12})
                              \/ b = 7
                              \/ (b = 3 /\ 7 \in c.mstatus)
  BY DEF If, MIE, MPIE, MPP
<1>3. d = [c EXCEPT !.mstatus = status] /\ ReturnFromMachineTrap(c).pc = c.mepc
  BY DEF ReturnFromMachineTrap
<1>4. mode = privilege
  <2>1. c.mstatus \cap MPP = IF privilege = User THEN {}
                             ELSE IF privilege = Machine THEN {11, 12} ELSE {11}
    BY DEF MPP, PrivilegeMode, User, Supervisor, Machine
  <2>2. {11} # {} /\ {11, 12} # {} /\ {11, 12} # {11}
    OBVIOUS
  <2>3. mode = IF c.mstatus \cap MPP = {} THEN User
               ELSE IF c.mstatus \cap MPP = {11} THEN Supervisor ELSE Machine
    BY <2>2 DEF ReturnFromMachineTrap
  <2> QED BY <2>1, <2>2, <2>3 DEF PrivilegeMode, User, Supervisor, Machine
<1> HIDE DEF status, d, mode
<1>5. d \in CsrFileType
  <2>1. ASSUME NEW b \in status PROVE b \in c.mstatus \/ b = 7 \/ b = 3
    BY <1>2
  <2>2. ASSUME NEW b \in status PROVE b \in 0..23
    BY <1>1, <2>1
  <2>3. status \in SUBSET (0..(XLEN - 1))
    BY <2>2, WordSize
  <2> QED BY <1>3, <2>3 DEF CsrFileType
<1>6. /\ d.mstatus = status
      /\ d.sepc = c.sepc /\ d.mideleg = c.mideleg /\ d.mie = c.mie /\ d.mip = c.mip
  BY <1>3 DEF CsrFileType
<1>7. MIE \in status <=> MPIE \in c.mstatus
  BY <1>2 DEF MIE, MPIE
<1>8. ASSUME NEW b \in {SIE, SPIE, SPP, SUM, MXR} PROVE b \in status <=> b \in c.mstatus
  BY <1>2 DEF SIE, SPIE, SPP, SUM, MXR
<1> QED BY <1>3, <1>4, <1>5, <1>6, <1>7, <1>8 DEF d, mode

(* And sret.                                                               *)
LEMMA SupervisorReturn ==
  ASSUME NEW c \in CsrFileType, NEW privilege \in {User, Supervisor},
         SPP \in c.mstatus <=> privilege = Supervisor
  PROVE  LET r == ReturnFromSupervisorTrap(c)
         IN  /\ r.csrs \in CsrFileType
             /\ r.pc = c.sepc /\ r.privilege = privilege
             /\ SIE \in r.csrs.mstatus <=> SPIE \in c.mstatus
             /\ \A b \in {MIE, MPIE, 11, 12, SUM, MXR} :
                  b \in r.csrs.mstatus <=> b \in c.mstatus
             /\ r.csrs.mepc = c.mepc
PROOF
<1> DEFINE status == ((c.mstatus \ {SIE, SPP}) \cup {SPIE}) \cup If(SIE, SPIE \in c.mstatus)
           d == ReturnFromSupervisorTrap(c).csrs
<1>1. c.mstatus \subseteq 0..23
  BY WordSize DEF CsrFileType
<1>2. \A b : b \in status <=> \/ (b \in c.mstatus /\ b \notin {1, 8})
                              \/ b = 5
                              \/ (b = 1 /\ 5 \in c.mstatus)
  BY DEF If, SIE, SPIE, SPP
<1>3. /\ d = [c EXCEPT !.mstatus = status] /\ ReturnFromSupervisorTrap(c).pc = c.sepc
      /\ ReturnFromSupervisorTrap(c).privilege = privilege
  BY DEF ReturnFromSupervisorTrap, User, Supervisor
<1> HIDE DEF status, d
<1>4. d \in CsrFileType
  <2>1. ASSUME NEW b \in status PROVE b \in c.mstatus \/ b = 5 \/ b = 1
    BY <1>2
  <2>2. ASSUME NEW b \in status PROVE b \in 0..23
    BY <1>1, <2>1
  <2>3. status \in SUBSET (0..(XLEN - 1))
    BY <2>2, WordSize
  <2> QED BY <1>3, <2>3 DEF CsrFileType
<1>5. d.mstatus = status /\ d.mepc = c.mepc
  BY <1>3 DEF CsrFileType
<1>6. SIE \in status <=> SPIE \in c.mstatus
  BY <1>2 DEF SIE, SPIE
<1>7. ASSUME NEW b \in {MIE, MPIE, 11, 12, SUM, MXR} PROVE b \in status <=> b \in c.mstatus
  BY <1>2 DEF MIE, MPIE, SUM, MXR
<1> QED BY <1>3, <1>4, <1>5, <1>6, <1>7 DEF d

-----------------------------------------------------------------------------
(* The program counter, the privilege and the interrupt enable a trap      *)
(* interrupts are resumed by the return of the level that took it          *)
(* (enter_trap, return_from_machine_trap, return_from_supervisor_trap).    *)
THEOREM TrapsResume ==
  ASSUME NEW c \in CsrFileType, NEW trap \in TrapType, NEW pc \in 0..(WORD - 1),
         NEW privilege \in PrivilegeMode
  PROVE  LET e == EnterTrap(c, trap, pc, privilege)
             level == e.privilege
             r == IF level = Machine THEN ReturnFromMachineTrap(e.csrs)
                                     ELSE ReturnFromSupervisorTrap(e.csrs)
             enable == IF level = Machine THEN MIE ELSE SIE
         IN  /\ level \in {Supervisor, Machine} /\ level >= privilege
             /\ r.pc = pc /\ r.privilege = privilege
             /\ enable \in r.csrs.mstatus <=> enable \in c.mstatus
             /\ r.csrs \in CsrFileType
PROOF
<1> DEFINE m == EnterMachineTrap(c, trap, pc, privilege)
           s == EnterSupervisorTrap(c, trap, pc, privilege)
<1>1. m.privilege = Machine /\ s.privilege = Supervisor
  BY DEF EnterMachineTrap, EnterSupervisorTrap
<1>2. privilege \in {0, 1, 3}
  BY DEF PrivilegeMode, User, Supervisor, Machine
<1>3. /\ m.csrs \in CsrFileType /\ m.csrs.mepc = pc
      /\ MPIE \in m.csrs.mstatus <=> MIE \in c.mstatus
      /\ 11 \in m.csrs.mstatus <=> privilege # User
      /\ 12 \in m.csrs.mstatus <=> privilege = Machine
  BY MachineEntry
<1>4. /\ s.csrs \in CsrFileType /\ s.csrs.sepc = pc
      /\ SPIE \in s.csrs.mstatus <=> SIE \in c.mstatus
      /\ SPP \in s.csrs.mstatus <=> privilege = Supervisor
  BY SupervisorEntry
<1> HIDE DEF m, s
<1>5. CASE ~DelegatesTrap(c, trap, privilege)
  <2>1. EnterTrap(c, trap, pc, privilege) = m
    BY <1>5 DEF EnterTrap, m
  <2>2. /\ ReturnFromMachineTrap(m.csrs).pc = pc
        /\ ReturnFromMachineTrap(m.csrs).privilege = privilege
        /\ MIE \in ReturnFromMachineTrap(m.csrs).csrs.mstatus <=> MIE \in c.mstatus
        /\ ReturnFromMachineTrap(m.csrs).csrs \in CsrFileType
    BY <1>3, MachineReturn
  <2>3. Machine \in {Supervisor, Machine} /\ Machine >= privilege
    BY <1>2 DEF Supervisor, Machine
  <2> QED BY <1>1, <2>1, <2>2, <2>3
<1>6. CASE DelegatesTrap(c, trap, privilege)
  <2>1. EnterTrap(c, trap, pc, privilege) = s
    BY <1>6 DEF EnterTrap, s
  <2>2. privilege \in {User, Supervisor}
    BY <1>6 DEF DelegatesTrap, PrivilegeMode
  <2>3. /\ ReturnFromSupervisorTrap(s.csrs).pc = pc
        /\ ReturnFromSupervisorTrap(s.csrs).privilege = privilege
        /\ SIE \in ReturnFromSupervisorTrap(s.csrs).csrs.mstatus <=> SIE \in c.mstatus
        /\ ReturnFromSupervisorTrap(s.csrs).csrs \in CsrFileType
    BY <1>4, <2>2, SupervisorReturn
  <2>4. /\ Supervisor \in {Supervisor, Machine} /\ Supervisor >= privilege
        /\ Supervisor # Machine
    BY <2>2 DEF User, Supervisor, Machine
  <2> QED BY <1>1, <2>1, <2>3, <2>4
<1> QED BY <1>5, <1>6

(* Traps nest: a machine trap taken inside a supervisor handler, at any    *)
(* point before its sret, returns to the handler and leaves it the context *)
(* it was entered with, so that its own return still resumes the           *)
(* interrupted program, with its privilege and its interrupt enable.       *)
THEOREM TrapsNest ==
  ASSUME NEW c \in CsrFileType,
         NEW outer \in TrapType, NEW pc \in 0..(WORD - 1), NEW privilege \in {User, Supervisor},
         NEW inner \in TrapType, NEW handler \in 0..(WORD - 1)
  PROVE  LET entered == EnterSupervisorTrap(c, outer, pc, privilege)
             nested == EnterMachineTrap(entered.csrs, inner, handler, entered.privilege)
             back == ReturnFromMachineTrap(nested.csrs)
             resumed == ReturnFromSupervisorTrap(back.csrs)
         IN  /\ back.pc = handler /\ back.privilege = Supervisor
             /\ resumed.pc = pc /\ resumed.privilege = privilege
             /\ SIE \in resumed.csrs.mstatus <=> SIE \in c.mstatus
             /\ MIE \in resumed.csrs.mstatus <=> MIE \in c.mstatus
PROOF
<1> DEFINE e == EnterSupervisorTrap(c, outer, pc, privilege)
           n == EnterMachineTrap(e.csrs, inner, handler, e.privilege)
           b == ReturnFromMachineTrap(n.csrs)
           r == ReturnFromSupervisorTrap(b.csrs)
<1>1. privilege \in PrivilegeMode /\ Supervisor \in PrivilegeMode
  BY DEF PrivilegeMode
<1>2. e.privilege = Supervisor
  BY DEF EnterSupervisorTrap
<1>3. /\ e.csrs \in CsrFileType /\ e.csrs.sepc = pc
      /\ SPIE \in e.csrs.mstatus <=> SIE \in c.mstatus
      /\ SPP \in e.csrs.mstatus <=> privilege = Supervisor
      /\ MIE \in e.csrs.mstatus <=> MIE \in c.mstatus
  BY <1>1, SupervisorEntry
<1> HIDE DEF e
<1>4. /\ n.csrs \in CsrFileType /\ n.csrs.mepc = handler
      /\ MPIE \in n.csrs.mstatus <=> MIE \in e.csrs.mstatus
      /\ 11 \in n.csrs.mstatus <=> Supervisor # User
      /\ 12 \in n.csrs.mstatus <=> Supervisor = Machine
      /\ n.csrs.sepc = e.csrs.sepc
      /\ SPIE \in n.csrs.mstatus <=> SPIE \in e.csrs.mstatus
      /\ SPP \in n.csrs.mstatus <=> SPP \in e.csrs.mstatus
  BY <1>1, <1>2, <1>3, MachineEntry
<1> HIDE DEF n
<1>5. /\ b.csrs \in CsrFileType /\ b.pc = handler /\ b.privilege = Supervisor
      /\ MIE \in b.csrs.mstatus <=> MIE \in c.mstatus
      /\ b.csrs.sepc = pc
      /\ SPIE \in b.csrs.mstatus <=> SIE \in c.mstatus
      /\ SPP \in b.csrs.mstatus <=> privilege = Supervisor
  BY <1>1, <1>3, <1>4, MachineReturn
<1> HIDE DEF b
<1>6. /\ r.pc = pc /\ r.privilege = privilege
      /\ SIE \in r.csrs.mstatus <=> SIE \in c.mstatus
      /\ MIE \in r.csrs.mstatus <=> MIE \in c.mstatus
  BY <1>5, SupervisorReturn
<1> QED BY <1>5, <1>6 DEF e, n, b, r

-----------------------------------------------------------------------------
(* Which interrupt is taken. *)

(* A set of positions has a first one.                                     *)
LEMMA FirstPosition ==
  ASSUME NEW S \in SUBSET (1..6), S # {}
  PROVE  Min(S) \in S
PROOF
<1> DEFINE R == OpToRel(<, Nat)
<1>1. IsWellFoundedOn(R, Nat)
  BY NatLessThanWellFounded
<1>2. S \subseteq Nat
  OBVIOUS
<1>3. PICK x \in S : \A y \in S : ~(<<y, x>> \in R)
  <2> HIDE DEF R
  <2> QED BY <1>1, <1>2, WFMin
<1>4. ASSUME NEW y \in S PROVE x <= y
  <2>1. x \in Nat /\ y \in Nat /\ ~(<<y, x>> \in R)
    BY <1>2, <1>3
  <2>2. ~(y < x)
    BY <2>1 DEF OpToRel
  <2> HIDE DEF R
  <2> QED BY <2>1, <2>2
<1> QED BY <1>4 DEF Min

(* pending_interrupt answers an interrupt that is pending, enabled and     *)
(* admitted at its target.                                                 *)
LEMMA PendingIsAdmitted ==
  ASSUME NEW c \in CsrFileType, NEW privilege \in PrivilegeMode,
         PendingInterrupt(c, privilege) # None
  PROVE  LET i == PendingInterrupt(c, privilege)
         IN  /\ i \in c.mip \cap c.mie
             /\ InterruptGloballyEnabled(c, InterruptTarget(c, i, privilege), privilege)
PROOF
<1> DEFINE Admitted(i) ==
             /\ i \in c.mip \cap c.mie
             /\ InterruptGloballyEnabled(c, InterruptTarget(c, i, privilege), privilege)
           Taken == {k \in 1..6 : Admitted(InterruptPriority[k])}
<1>1. PendingInterrupt(c, privilege) =
        IF Taken = {} THEN None ELSE InterruptPriority[Min(Taken)]
  BY DEF PendingInterrupt
<1> HIDE DEF Admitted
<1>2. Taken # {}
  BY <1>1
<1>3. Min(Taken) \in Taken
  BY <1>2, FirstPosition
<1>4. Admitted(InterruptPriority[Min(Taken)])
  BY <1>3
<1> QED BY <1>1, <1>2, <1>4 DEF Admitted

(* No handler is interrupted by its own level before it allows it, so that *)
(* nothing overwrites the context it was entered with: with any interrupt  *)
(* lines, a machine handler that has just been entered is interrupted by   *)
(* nothing, and a supervisor handler only by an interrupt that is taken in *)
(* machine mode (pending_interrupt, interrupt_globally_enabled).           *)
THEOREM HandlersNotReentered ==
  ASSUME NEW c \in CsrFileType, NEW trap \in TrapType, NEW pc \in 0..(WORD - 1),
         NEW privilege \in PrivilegeMode, NEW lines \in SUBSET Interrupts
  PROVE  LET m == SyncInterrupts(EnterMachineTrap(c, trap, pc, privilege).csrs, lines)
             s == SyncInterrupts(EnterSupervisorTrap(c, trap, pc, privilege).csrs, lines)
             i == PendingInterrupt(s, Supervisor)
         IN  /\ PendingInterrupt(m, Machine) = None
             /\ i # None => EnterTrap(s, Interrupt(i), pc, Supervisor).privilege = Machine
PROOF
<1> DEFINE entered == EnterMachineTrap(c, trap, pc, privilege).csrs
           delegated == EnterSupervisorTrap(c, trap, pc, privilege).csrs
           m == SyncInterrupts(entered, lines)
           s == SyncInterrupts(delegated, lines)
           i == PendingInterrupt(s, Supervisor)
<1>1. ASSUME NEW d \in CsrFileType
      PROVE  /\ SyncInterrupts(d, lines) \in CsrFileType
             /\ SyncInterrupts(d, lines).mstatus = d.mstatus
  <2> DEFINE held == [d EXCEPT !.external_pending = lines]
  <2>1. held \in CsrFileType /\ held.mstatus = d.mstatus
    BY DEF CsrFileType
  <2>2. SyncInterrupts(d, lines) = RefreshMip(held)
    BY DEF SyncInterrupts
  <2> HIDE DEF held
  <2>3. RefreshMip(held).mstatus = held.mstatus
    BY <2>1 DEF RefreshMip, CsrFileType
  <2> QED BY <2>1, <2>2, <2>3, RefreshKeepsType
<1>2. entered \in CsrFileType /\ MIE \notin entered.mstatus
  BY MachineEntry
<1>3. delegated \in CsrFileType /\ SIE \notin delegated.mstatus
  BY SupervisorEntry
<1> HIDE DEF entered, delegated
<1>4. m \in CsrFileType /\ MIE \notin m.mstatus
  BY <1>1, <1>2
<1>5. s \in CsrFileType /\ SIE \notin s.mstatus
  BY <1>1, <1>3
<1> HIDE DEF m, s
<1>6. /\ User = 0 /\ Supervisor = 1 /\ Machine = 3
      /\ Supervisor \in PrivilegeMode /\ Machine \in PrivilegeMode
      /\ None # Machine /\ None # Supervisor
  BY NoneAssumption DEF User, Supervisor, Machine, PrivilegeMode
<1>7. PendingInterrupt(m, Machine) = None
  <2> SUFFICES ASSUME PendingInterrupt(m, Machine) # None PROVE FALSE
    OBVIOUS
  <2> DEFINE j == PendingInterrupt(m, Machine)
  <2>1. InterruptGloballyEnabled(m, InterruptTarget(m, j, Machine), Machine)
    BY <1>4, <1>6, PendingIsAdmitted
  <2>2. InterruptTarget(m, j, Machine) \in {Machine, None}
    BY DEF InterruptTarget
  <2> HIDE DEF j
  <2> QED BY <1>4, <1>6, <2>1, <2>2 DEF InterruptGloballyEnabled
<1>8. ASSUME i # None PROVE EnterTrap(s, Interrupt(i), pc, Supervisor).privilege = Machine
  <2>1. InterruptGloballyEnabled(s, InterruptTarget(s, i, Supervisor), Supervisor)
    BY <1>5, <1>6, <1>8, PendingIsAdmitted
  <2>2. InterruptTarget(s, i, Supervisor) =
          IF DelegatesInterrupt(s, i) THEN Supervisor ELSE Machine
    BY <1>6 DEF InterruptTarget
  <2> HIDE DEF i
  <2>3. ~DelegatesInterrupt(s, i)
    BY <1>5, <1>6, <2>1, <2>2 DEF InterruptGloballyEnabled
  <2>4. ~DelegatesTrap(s, Interrupt(i), Supervisor)
    BY <2>3 DEF DelegatesTrap, Interrupt
  <2> QED BY <2>4 DEF EnterTrap, EnterMachineTrap
<1> QED BY <1>7, <1>8 DEF m, s, i, entered, delegated
=============================================================================
