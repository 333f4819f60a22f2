------------------------------ MODULE ZenaSsu ------------------------------
(***************************************************************************)
(* The zena_ssu component: the safety state of the island.  Its two fault  *)
(* inputs are callbacks that act on a rising value only; software moves    *)
(* the state through registers that need the key.                          *)
(*                                                                         *)
(* The callbacks of one emission run one after the other, so the handlers  *)
(* are written as functions of the whole state.  ERR_STATUS.OF is never    *)
(* set; the APB enables and STATUS_DETAIL are storage.                     *)
(***************************************************************************)
EXTENDS Integers

CONSTANTS
  SsuEnforceKey,     \* p_enforce_sys_key
  SysCtrlValues,     \* the states software asks for through SYS_CTRL
  ImpdefValues,      \* the ERR_IMPDEF words software writes
  ErrStatusValues    \* the ERR_STATUS words software writes

VARIABLE ssu

SysStates == {"TEST", "SAFE", "ERRN", "ERRC"}
ErrorStates == {"ERRN", "ERRC"}
ImpdefBits == {"CR_EN", "NCR_EN", "INC_SEQ"}
ErrCauses == {"INC_SEQ", "ERR_IN"}
ErrBits == {"V"} \cup ErrCauses

ASSUME SsuAssumption ==
  /\ SsuEnforceKey \in BOOLEAN
  /\ SysCtrlValues \subseteq SysStates
  /\ ImpdefValues \subseteq SUBSET ImpdefBits
  /\ ErrStatusValues \subseteq SUBSET ErrBits

\* ed: ERR_CTRL.ED; err: m_err_status; impdef: m_err_impdef; sys:
\* m_sys_status; unlocked: m_unlocked; out: m_safety_status, the output.
Ssus == [ed : BOOLEAN, err : SUBSET ErrBits, impdef : SUBSET ImpdefBits,
         sys : SysStates, unlocked : BOOLEAN, out : BOOLEAN]

-----------------------------------------------------------------------------
(* Handlers                                                                *)

\* update_output
Updated(s) == [s EXCEPT !.out = s.sys \in ErrorStates]

\* set_sequence_error: the record is valid, the safety state stays.
SequenceError(s) ==
  Updated([s EXCEPT !.err = IF "INC_SEQ" \in s.impdef
                            THEN @ \cup {"V", "INC_SEQ"} ELSE @])

\* Mutant: the record is made but the safety state stays.
FaultUnreported(s, critical) ==
  IF s.ed /\ (IF critical THEN "CR_EN" ELSE "NCR_EN") \in s.impdef
  THEN Updated([s EXCEPT !.err = @ \cup {"V", "ERR_IN"}])
  ELSE s

\* set_fault: the latest fault decides the state.
Fault(s, critical) ==
  IF s.ed /\ (IF critical THEN "CR_EN" ELSE "NCR_EN") \in s.impdef
  THEN Updated([s EXCEPT !.err = @ \cup {"V", "ERR_IN"},
                         !.sys = IF critical THEN "ERRC" ELSE "ERRN"])
  ELSE s

\* Mutant: the error state outlives the record.
StatusWrittenKeepsState(s, v) ==
  LET c == s.err \ (v \cap {"V"})
      e == IF "V" \in c THEN (c \ ErrCauses) \cup (v \cap ErrCauses) ELSE c
  IN  Updated([s EXCEPT !.err = e])

\* write_status: once V is clear, an error state ends in SAFE.
StatusWritten(s, v) ==
  LET c == s.err \ (v \cap {"V"})
      e == IF "V" \in c THEN (c \ ErrCauses) \cup (v \cap ErrCauses) ELSE c
  IN  Updated([s EXCEPT !.err = e,
                        !.sys = IF "V" \notin e /\ @ \in ErrorStates
                                THEN "SAFE" ELSE @])

-----------------------------------------------------------------------------
(* Register writes: write32                                                *)

SsuWriteKey ==
  \/ ssu' = [ssu EXCEPT !.unlocked = TRUE]
  \/ ssu' = SequenceError([ssu EXCEPT !.unlocked = FALSE])

\* require_unlock
SsuMayWrite == SsuEnforceKey => ssu.unlocked
Spent == [ssu EXCEPT !.unlocked = @ /\ ~SsuEnforceKey]

SsuLockedWrite ==
  /\ ~SsuMayWrite
  /\ ssu' = SequenceError(ssu)

WriteErrCtrl ==
  /\ SsuMayWrite
  /\ \E v \in BOOLEAN : ssu' = Updated([Spent EXCEPT !.ed = v])
WriteErrStatus ==
  /\ SsuMayWrite
  /\ \E v \in ErrStatusValues : ssu' = StatusWritten(Spent, v)
WriteErrImpdef ==
  /\ SsuMayWrite
  /\ \E v \in ImpdefValues : ssu' = Updated([Spent EXCEPT !.impdef = v])
WriteSysCtrl ==
  /\ SsuMayWrite
  /\ \E v \in SysCtrlValues : ssu' = Updated([Spent EXCEPT !.sys = v])
\* STATUS_DETAIL and the registers that do not exist.
SsuWriteOther ==
  /\ SsuMayWrite
  /\ ssu' = Spent

SsuWrite ==
  \/ SsuWriteKey \/ SsuLockedWrite \/ WriteErrCtrl \/ WriteErrStatus
  \/ WriteErrImpdef \/ WriteSysCtrl \/ SsuWriteOther

\* reset_registers
SsuInit ==
  ssu = [ed |-> TRUE, err |-> {}, impdef |-> {"CR_EN", "INC_SEQ"},
         sys |-> "TEST", unlocked |-> FALSE, out |-> FALSE]
=============================================================================
