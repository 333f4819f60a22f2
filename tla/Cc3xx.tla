------------------------------- MODULE Cc3xx -------------------------------
(***************************************************************************)
(* The cc3xx core behind its register file, the public-key engine and the  *)
(* symmetric engines, and the path to memory of the backend that runs it   *)
(* inside QEMU.  They share the reset and nothing else that the properties *)
(* tell apart, so one of them is taken to be used throughout.              *)
(***************************************************************************)
EXTENDS Cc3xxPka, Cc3xxDma, Cc3xxMemory

VARIABLE use   \* the part that is used

engines == <<pkaVars, dmaVars>>
vars == <<engines, memoryVars, use>>

Uses == {"pka", "hash", "cipher", "mac", "memory"}

Init == PkaInit /\ DmaInit /\ MemoryInit /\ use \in Uses

\* doreset(true): the pointers of the native backend stay, as they must while
\* their targets have not taken them back.  It comes between two accesses.
Reset == /\ PkaReset /\ DmaReset
         /\ use # "memory" \/ pc = "idle"
         /\ UNCHANGED <<memoryVars, use>>

EngineStep ==
  \/ use = "pka" /\ PkaWrite /\ UNCHANGED dmaVars
  \/ use = "hash" /\ HashWrite /\ UNCHANGED pkaVars
  \/ use = "cipher" /\ CipherWrite /\ UNCHANGED pkaVars
  \/ use = "mac" /\ MacWrite /\ UNCHANGED pkaVars
  \/ use \notin {"pka", "memory"} /\ Transfer /\ UNCHANGED pkaVars

Next ==
  \/ EngineStep /\ UNCHANGED <<memoryVars, use>>
  \/ use = "memory" /\ MemoryNext /\ UNCHANGED <<engines, use>>
  \/ Reset

Spec == Init /\ [][Next]_vars
=============================================================================
