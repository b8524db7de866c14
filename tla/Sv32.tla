------------------------------- MODULE Sv32 -------------------------------
(***************************************************************************)
(* The rules of Sv32 translation the page walker and the cores share       *)
(* (cpu/src/mmu.rs): whether an access is translated, at which privilege,  *)
(* and what the flags of a page allow.  A page's flags are a set of        *)
(* letters.                                                                *)
(***************************************************************************)
EXTENDS CsrFile

MPRV == 17
PteFlags == {"V", "R", "W", "X", "U", "G", "A", "D"}
Accesses == {"Instruction", "Load", "Store"}

\* Machine-mode data accesses take the privilege in MPP when MPRV is set.
EffectivePrivilege(c, privilege, access) ==
    IF access # "Instruction" /\ privilege = Machine /\ MPRV \in c.mstatus
    THEN ReturnFromMachineTrap(c).privilege
    ELSE privilege

TranslationEnabled(satp, privilege) == privilege # Machine /\ satp >= TOP

\* request: [status, privilege, access]; status holds SUM and MXR.
PermissionsAllow(request, flags) ==
    /\ request.privilege = Supervisor /\ "U" \in flags =>
           request.access # "Instruction" /\ SUM \in request.status
    /\ request.privilege = User => "U" \in flags
    /\ request.privilege # Machine =>
           CASE request.access = "Instruction" -> "X" \in flags
             [] request.access = "Load" ->
                    "R" \in flags \/ (MXR \in request.status /\ "X" \in flags)
             [] request.access = "Store" -> "W" \in flags
=============================================================================
