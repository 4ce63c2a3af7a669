---------------------------- MODULE ExcelRegister ------------------------------
(***************************************************************************)
(* The register dp-lookups.xlsx that every lookup of an output directory     *)
(* appends one row to, from a worker thread: the workbook is loaded, changed  *)
(* and replaced under a process lock and a sidecar lock.                     *)
(***************************************************************************)
EXTENDS Sequences, ResultCache

VARIABLES
    register,       \* the rows below the header, by the lookup that wrote them
    registerLock,   \* the run inside update_excel_register
    sheet           \* the rows it loaded

registerVars == <<register, registerLock, sheet>>

RegisterInit == register = <<>> /\ registerLock = Nobody /\ sheet = <<>>

StartAnew(r) ==
    /\ registerLock = Nobody
    /\ registerLock' = r /\ sheet' = <<>>
    /\ UNCHANGED register
LoadRegister(r) ==
    /\ registerLock = Nobody
    /\ registerLock' = r /\ sheet' = register
    /\ UNCHANGED register

AppendRow(r, row) ==
    /\ registerLock = r
    /\ register' = Append(sheet, row)
    /\ registerLock' = Nobody /\ sheet' = <<>>

\* The temporary file is dropped, the register stays as it was.
AppendFails(r) ==
    /\ registerLock = r
    /\ registerLock' = Nobody /\ sheet' = <<>>
    /\ UNCHANGED register

LockStays(p) == UNCHANGED <<register, registerLock, sheet>>
ForgetRegister(p) ==
    LET mine == registerLock \in Runs /\ host[registerLock] = p
    IN  /\ registerLock' = IF mine THEN Nobody ELSE registerLock
        /\ sheet' = IF mine THEN <<>> ELSE sheet
        /\ UNCHANGED register
================================================================================
