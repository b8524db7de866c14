--------------------------- MODULE Architecture ---------------------------
(***************************************************************************)
(* What a core promises: instructions take effect one at a time, in        *)
(* program order, each completely or not at all.  The meaning of one       *)
(* instruction is execute_decoded (cpu/src/exec/mod.rs), here with a bus   *)
(* that answers at once; interrupts are taken between instructions, at any *)
(* point where the CSR file admits one; WFI waits for that.                *)
(*                                                                         *)
(* Both cores are shown to implement this specification: what they commit  *)
(* in a cycle is at most two of its steps.                                 *)
(***************************************************************************)
EXTENDS Execute

VARIABLES program, hart, ram

vars == <<program, hart, ram>>

\* The next instruction of a hart, from its fetch on, as a pair of the hart
\* and the memory that follow.
Instruction(h, env) ==
    LET f == Fetch(env, h.csrs, h.privilege, h.pc, 0)
        d == Decode(f.value, h.pc)
        m == DataAccess(env, h, d, 0)
    IN  CASE f.kind = "trap" -> <<ApplyTrap(h, f.value, h.pc), env.ram>>
          [] f.kind = "done" ->
                 IF d = None THEN <<ApplyTrap(h, IllegalInstruction(f.value), h.pc), env.ram>>
                 ELSE <<ExecuteDecoded(h, d, m), m.env.ram>>

\* The steps a hart may take: an instruction unless it waits, an interrupt
\* if one is admitted.
Steps(h, m) ==
    LET env == [program |-> program, ram |-> m, bus |-> None]
        interrupt == PendingInterrupt(h.csrs, h.privilege)
    IN  (IF h.halted THEN {} ELSE {Instruction(h, env)})
        \cup (IF interrupt = None THEN {}
              ELSE {<<ApplyTrap(h, Interrupt(interrupt), h.pc), m>>})

Sync(h, lines) == [h EXCEPT !.csrs = SyncInterrupts(@, lines)]

Init == hart = program.hart /\ ram = program.ram

\* One cycle: the interrupt lines are sampled, and nothing, one step or two
\* steps are committed.
Next ==
    /\ UNCHANGED program
    /\ \E h \in {Sync(hart, lines) : lines \in program.lines}, now \in {<<hart', ram'>>} :
           \/ now = <<h, ram>>
           \/ \E s \in Steps(h, ram) : now = s \/ now \in Steps(s[1], s[2])

Spec == Init /\ [][Next]_vars
=============================================================================
