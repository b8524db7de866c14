------------------------------- MODULE Cores -------------------------------
(***************************************************************************)
(* The machine with either of its processors: Machine::step_cycle          *)
(* (system/src/machine.rs) ticks the bus and steps the core.  The core and *)
(* its program are chosen at the start and stay.                           *)
(***************************************************************************)
EXTENDS Hart

CONSTANTS Programs    \* [{"reference", "pipeline"} -> set of programs]

VARIABLES cycle,      \* the parity of the cycle counter: every step changes it
          core, program, hart, ram, bus,
          pending_decoded,                                   \* the reference core's
          front_end_pc, translation_barrier, predictor, latches,  \* the pipeline's
          early                                              \* its auxiliary variable

shared == <<program, hart, ram, bus>>
pipeline == <<front_end_pc, translation_barrier, predictor, latches, early>>
vars == <<cycle, core, shared, pending_decoded, pipeline>>

R == INSTANCE ReferenceCore
P == INSTANCE PipelineCore

Init ==
    /\ cycle = 0
    /\ core \in DOMAIN Programs
    /\ program \in Programs[core]
    /\ R!Init
    /\ P!Init

ReferenceCycle ==
    /\ core = "reference"
    /\ R!StepCycle
    /\ UNCHANGED <<core, pipeline>>

PipelineCycle ==
    /\ core = "pipeline"
    /\ P!StepCycle
    /\ UNCHANGED <<core, pending_decoded>>

Next == cycle' = 1 - cycle /\ (ReferenceCycle \/ PipelineCycle)

\* The clock does not stop: the machine is stepped for as long as it runs.
\* A step always changes cycle, so this is WF_vars(Next) in a form TLC
\* evaluates without trying the step.
ClockRuns == []<>(cycle = 0) /\ []<>(cycle = 1)

Spec == Init /\ [][Next]_vars /\ ClockRuns

-----------------------------------------------------------------------------
(* What a core has committed. *)

\* The program counter of the oldest instruction the pipeline has not
\* committed.
OldestPc ==
    CASE latches.ex_mem # None -> latches.ex_mem.decoded.pc
      [] latches.ex_mem = None /\ latches.id_ex # None -> latches.id_ex.decoded.pc
      [] /\ latches.ex_mem = None /\ latches.id_ex = None
         /\ latches.if_id # None -> latches.if_id.pc
      [] OTHER -> front_end_pc

\* An instruction that has left MEM will be written back, so it counts as
\* committed; a halted hart never looks at its latches again.  An early trap
\* is committed after the last instruction that is older than it.
CommittedHart ==
    IF core = "reference" \/ hart.halted THEN hart
    ELSE LET before == IF early = None THEN hart
                       ELSE [hart EXCEPT !.csrs = early.csrs, !.privilege = early.privilege]
             h == IF latches.mem_wb = None THEN before ELSE P!WriteBack(before, latches.mem_wb)
         IN  IF h.halted THEN h ELSE [h EXCEPT !.pc = OldestPc]

A == INSTANCE Architecture WITH hart <- CommittedHart

-----------------------------------------------------------------------------
(* Properties. *)

\* The hart is well typed at every cycle boundary and a request on the bus
\* has a bounded wait (state/mod.rs, csr_file.rs: every write is masked).
TypeOK ==
    /\ cycle \in {0, 1}
    /\ core \in DOMAIN Programs
    /\ hart \in HartType
    /\ DOMAIN ram = DOMAIN program.ram
    /\ bus # None => bus.left \in 0..Max(program.fetch_latency \cup program.data_latency)
    /\ front_end_pc \in 0..(WORD - 1)
    /\ translation_barrier \in BOOLEAN
    /\ \A pc \in DOMAIN predictor : predictor[pc] \in 0..3

\* Both cores commit what the architecture allows: every cycle commits
\* nothing, one or two architectural steps, each instruction once, in program
\* order, with the operands and the privilege its predecessors left, and a
\* trap behind everything older and before everything younger, the traps of
\* ID and IF included, which change the hart before the older instructions
\* have left EX and MEM (pipeline.rs step_cycle, reference.rs step_cycle).
\* It is a property of the programs a run gives it: StopsInAgreement is where
\* the two cores part.
ImplementsArchitecture == A!Spec

\* The instructions in flight are consecutive on the path the pipeline has
\* predicted, or on either side of the one early trap, which leads from the
\* instruction it was taken at to its handler: no stall, flush, barrier, trap
\* or wrong prediction drops one of them or leaves a stale one behind
\* (pipeline.rs step_cycle, the latch updates).
InFlightIsOnePath ==
    LET path == (IF latches.ex_mem = None THEN << >>
                 ELSE << <<latches.ex_mem.decoded.pc, latches.ex_mem.next_pc>> >>)
                \o (IF latches.id_ex = None THEN << >>
                    ELSE << <<latches.id_ex.decoded.pc, latches.id_ex.predicted_pc>> >>)
                \o (IF latches.if_id = None THEN << >>
                    ELSE << <<latches.if_id.pc, latches.if_id.predicted_pc>> >>)
                \o << <<front_end_pc, 0>> >>
        Trapped(k) == early # None /\ early.older = k
    IN  core = "pipeline" /\ ~hart.halted =>
            \A k \in 1..(Len(path) - 1) :
                IF Trapped(k) THEN path[k][2] = early.pc /\ path[k + 1][1] = early.handler
                              ELSE path[k][2] = path[k + 1][1]

\* The architecture's hart and memory after at most n instructions.
Run[n \in Nat] ==
    IF n = 0 THEN <<program.hart, program.ram>>
    ELSE LET s == Run[n - 1]
         IN  IF s[1].halted THEN s
             ELSE A!Instruction(s[1], [program |-> program, ram |-> s[2], bus |-> None])

StepLimit == 16   \* no program of the runs executes more instructions

\* A core that has stopped holds the registers, CSRs and memory of the
\* architecture run of the same program (cpu/src/core/README.md: both cores
\* agree on committed state).
StopsInAgreement ==
    hart.halted /\ program.lines = {{}} => <<hart, ram>> = Run[StepLimit]

\* Every program of the runs ends in WFI: with a bus that answers, each core
\* gets there and stays (no request is abandoned on the bus, no stage waits
\* for another for ever).
ProgramEnds == <>[]hart.halted
=============================================================================
