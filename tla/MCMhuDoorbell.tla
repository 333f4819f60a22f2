--------------------------- MODULE MCMhuDoorbell ---------------------------
(* Instances of MhuDoorbell for TLC.                                       *)
EXTENDS MhuDoorbell

CONSTANTS b1, b2

MCWords == (SUBSET Bits) \ {{}}
MCTrigger == {b1}
MCAck == {b2}
MCNs == {b1}
MCNotify == {b1, b2}
MCReplies == {[c \in DataCh |-> {b1}], [c \in DataCh |-> {}]}
=============================================================================
