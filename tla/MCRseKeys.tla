----------------------------- MODULE MCRseKeys -----------------------------
(* An instance of RseKeys for TLC.                                         *)
EXTENDS RseKeys

CONSTANT b

\* A key of two words, and one word more.
MCOtpOffset == [s \in {1} |-> 0]
Burn(ws, whole) == [words |-> ws, whole |-> whole, bits |-> {b}]
\* A word, half a word, and both configuration words at once; a write of 0.
MCOtpWrites ==
  {Burn({0}, TRUE), Burn({1}, FALSE), Burn({2}, TRUE), Burn({1, 2}, TRUE),
   [words |-> {0, 1}, whole |-> TRUE, bits |-> {}]}
Image(n, ws) ==
  [there |-> n > 0, len |-> n, data |-> [w \in Words |-> IF w \in ws THEN Bits ELSE {}]]
MCOneKeyWord == {{b}}
MCImages == {Image(0, {}), Image(1, {0}), Image(3, {})}
=============================================================================
