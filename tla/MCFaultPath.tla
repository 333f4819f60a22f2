---------------------------- MODULE MCFaultPath ----------------------------
(* An instance of FaultPath for TLC.                                       *)
EXTENDS FaultPath, TLC

CONSTANTS b0, b1

\* No step tells one bank from the other.
MCBankSymmetry == Permutations({b0, b1})

MCAllCtlr == {"ED", "CI", "NC"}
\* A record that is switched off stays so.
MCCtlrValues == {{}}
MCStatusValues == {{"V", "CI", "UE"}}
\* At first the SSU accepts critical faults only.
MCImpdefValues == {{"CR_EN", "NCR_EN", "INC_SEQ"}}
MCErrStatusValues == {{"V"}}
=============================================================================
