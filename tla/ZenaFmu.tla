------------------------------ MODULE ZenaFmu ------------------------------
(***************************************************************************)
(* The zena_fmu component: a fault management unit.  Banks of fault        *)
(* records, each with a control and a status word; a key register per      *)
(* bank whose right value allows the next write to that bank; a critical   *)
(* and a non-critical line that follow the valid records.                  *)
(*                                                                         *)
(* A word is the set of its 1 bits, as far as the code acts on them.  The  *)
(* three enables of a non-critical interrupt (FI, UE, CFI) are always      *)
(* tested together: "NC" is that any of them is set.  SERR is set together *)
(* with the cause and never looked at; OF and CE are never set.            *)
(***************************************************************************)
EXTENDS Integers

CONSTANTS
  Banks,           \* the banks, p_bank_count of them
  RecordCount,     \* p_record_count
  Critical,        \* the records of p_critical_mask
  NonCritical,     \* the records of p_non_critical_mask, and those past it
  FmuEnforceKey,   \* p_enforce_sys_key
  DefaultCtlr,     \* p_default_ctlr
  CtlrValues,      \* the control words software writes
  StatusValues     \* the status words software writes

Records == 0 .. RecordCount - 1
CtlrBits == {"ED", "CI", "NC"}
FaultCauses == {"INC_SEQ", "ERR_IN"}         \* IERR, writable while V is set
W1C == {"V", "CI", "UE"}
StatusBits == W1C \cup FaultCauses

ASSUME FmuAssumption ==
  /\ RecordCount \in Nat \ {0}
  /\ Critical \subseteq Records /\ NonCritical \subseteq Records
  /\ FmuEnforceKey \in BOOLEAN
  /\ DefaultCtlr \subseteq CtlrBits
  /\ CtlrValues \subseteq SUBSET CtlrBits
  /\ StatusValues \subseteq SUBSET StatusBits

VARIABLES
  ctlr,        \* Bank::ctlr
  status,      \* Bank::status
  unlocked,    \* the banks with Bank::unlocked set
  criticalLine,      \* m_critical_irq, the value of both critical outputs
  nonCriticalLine    \* m_non_critical_irq, the value of both other outputs

fmuVars == <<ctlr, status, unlocked, criticalLine, nonCriticalLine>>

FmuTypeOK ==
  /\ ctlr \in [Banks -> [Records -> SUBSET CtlrBits]]
  /\ status \in [Banks -> [Records -> SUBSET StatusBits]]
  /\ unlocked \in SUBSET Banks
  /\ criticalLine \in BOOLEAN
  /\ nonCriticalLine \in BOOLEAN

-----------------------------------------------------------------------------
(* The lines                                                               *)

\* A record counts as non-critical only when it is not critical.
CriticalFault(st, ct) ==
  \E b \in Banks, r \in Critical : "V" \in st[b][r] /\ "CI" \in ct[b][r]
NonCriticalFault(st, ct) ==
  \E b \in Banks, r \in NonCritical \ Critical :
    "V" \in st[b][r] /\ "NC" \in ct[b][r]

\* Mutant: the lines stay high once they are.
UpdateIrqsSticky ==
  /\ criticalLine' = (criticalLine \/ CriticalFault(status', ctlr'))
  /\ nonCriticalLine' = (nonCriticalLine \/ NonCriticalFault(status', ctlr'))

\* update_irqs: a scan of every bank and record.
UpdateIrqs ==
  /\ criticalLine' = CriticalFault(status', ctlr')
  /\ nonCriticalLine' = NonCriticalFault(status', ctlr')

-----------------------------------------------------------------------------
(* Register writes                                                         *)

LastRecord == RecordCount - 1

\* set_sequence_error
SetSequenceError(b) ==
  /\ status' = [status EXCEPT ![b][LastRecord] = @ \cup {"V", "INC_SEQ"}]
  /\ UNCHANGED ctlr
  /\ UpdateIrqs

\* SYS_KEY
FmuWriteKey(b) ==
  \/ /\ unlocked' = unlocked \cup {b}
     /\ UNCHANGED <<ctlr, status, criticalLine, nonCriticalLine>>
  \/ /\ unlocked' = unlocked \ {b}
     /\ SetSequenceError(b)

\* Mutant: the key is not spent.
FmuUnlockKept(b) ==
  /\ FmuEnforceKey => b \in unlocked
  /\ UNCHANGED unlocked

\* require_unlock returning true: the key is good for one write.
FmuUnlock(b) ==
  /\ FmuEnforceKey => b \in unlocked
  /\ unlocked' = IF FmuEnforceKey THEN unlocked \ {b} ELSE unlocked

\* require_unlock returning false, whatever register of the bank is written.
FmuLockedWrite(b) ==
  /\ FmuEnforceKey /\ b \notin unlocked
  /\ SetSequenceError(b)
  /\ UNCHANGED unlocked

\* write_ctlr
WriteCtlr(b, r, v) ==
  /\ FmuUnlock(b)
  /\ ctlr' = [ctlr EXCEPT ![b][r] = v]
  /\ UNCHANGED status
  /\ UpdateIrqs

\* clear_record_status: write-one-to-clear, and the cause is rewritten while
\* the record stays valid.
ClearedStatus(s, v) ==
  LET c == s \ (v \cap W1C)
  IN  IF "V" \in c THEN (c \ FaultCauses) \cup (v \cap FaultCauses) ELSE c

WriteStatus(b, r, v) ==
  /\ FmuUnlock(b)
  /\ status' = [status EXCEPT ![b][r] = ClearedStatus(@, v)]
  /\ UNCHANGED ctlr
  /\ UpdateIrqs

\* write_impdef: ic clears the record, then ie injects an error into a record
\* whose detection is enabled.
InjectedStatus(s, r, ed, ic, ie) ==
  LET c == IF ic THEN {} ELSE s
  IN  IF ie /\ ed
      THEN c \cup {"V", "ERR_IN", IF r \in Critical THEN "CI" ELSE "UE"}
      ELSE c

WriteImpdef(b, r, ic, ie) ==
  /\ FmuUnlock(b)
  /\ status' = [status EXCEPT ![b][r] =
                  InjectedStatus(@, r, "ED" \in ctlr[b][r], ic, ie)]
  /\ UNCHANGED ctlr
  /\ UpdateIrqs

\* A read-only or undefined register of the bank: only the key is spent.
FmuWriteOther(b) ==
  /\ FmuUnlock(b)
  /\ UNCHANGED <<ctlr, status, criticalLine, nonCriticalLine>>

-----------------------------------------------------------------------------
\* reset_registers
FmuInit ==
  /\ ctlr = [b \in Banks |-> [r \in Records |-> DefaultCtlr]]
  /\ status = [b \in Banks |-> [r \in Records |-> {}]]
  /\ unlocked = {}
  /\ criticalLine = FALSE
  /\ nonCriticalLine = FALSE

\* write32
FmuWrite ==
  \E b \in Banks :
    \/ FmuWriteKey(b) \/ FmuLockedWrite(b) \/ FmuWriteOther(b)
    \/ \E r \in Records :
         \/ \E v \in CtlrValues : WriteCtlr(b, r, v)
         \/ \E v \in StatusValues : WriteStatus(b, r, v)
         \/ \E ic, ie \in BOOLEAN : WriteImpdef(b, r, ic, ie)

-----------------------------------------------------------------------------
(* Properties                                                              *)

\* The lines say whether some record of some bank is valid and enabled:
\* clearing, disabling or injecting in one bank never hides another bank.
FmuLinesExact ==
  /\ criticalLine = CriticalFault(status, ctlr)
  /\ nonCriticalLine = NonCriticalFault(status, ctlr)

\* A record loses its fault, or its control word changes, only by a write
\* to its own bank that had the bank's key and has spent it.
OneKeyOneWrite ==
  [][FmuEnforceKey =>
       \A b \in Banks :
         \/ /\ ctlr'[b] = ctlr[b]
            /\ \A r \in Records : status[b][r] \subseteq status'[b][r]
         \/ b \in unlocked /\ b \notin unlocked']_fmuVars
=============================================================================
