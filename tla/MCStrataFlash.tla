--------------------------- MODULE MCStrataFlash ---------------------------
(* Instances of StrataFlash for TLC.                                       *)
EXTENDS StrataFlash

CONSTANTS f1, f2, b1, b2

MCBlank == {[o \in Offsets |-> Erased]}
\* The last byte of the deployed image is already programmed.
MCImages == {[o \in Offsets |-> IF o = Size - 1 THEN {} ELSE Erased]}
\* One-byte writes of 0xff and of a byte with a 0 bit, and a word of both.
MCOneBit == {<<{b1}>>, <<{}>>, <<{}, {b1}>>}
\* With two bits: a byte that clears one of them as well.
MCTwoBits == {<<{b1, b2}>>, <<{}>>, <<{b1}>>, <<{b2}, {b1}>>}
MCCovers == [f \in Files |-> Size]
MCShort == [f \in Files |-> Size - 1]
MCWhole == {Offsets}
MCFirst == {{0}}
MCPathEnv == {"enable_dmi", "defer", "backing_file", "load"}
MCSectorEnv == {"compat", "sector_size"}
MCDurableEnv == {"defer", "interval", "sector_size", "crash", "destroy"}
MCNoRange == {}
=============================================================================
