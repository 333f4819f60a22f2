----------------------------- MODULE MCCc3xx -----------------------------
(* An instance of Cc3xx for TLC: registers of one-bit words, short blocks. *)
EXTENDS Cc3xx, TLC

MCLayouts == {b \in [Regs -> Bases] : Apart(b)}
Reg(r) == [imm |-> FALSE, id |-> r]
Imm(v) == [imm |-> TRUE, id |-> v]
MCMaps == {<<0, 0>>, <<0, 3>>, <<1, 0>>, <<1, 3>>, <<2, 4>>}
\* Register with register, stored into an operand and into N, and register
\* with an immediate on either side.
MCOpcodes ==
  {[op |-> p, size |-> 0, lhs |-> Reg(1), rhs |-> x, discard |-> FALSE,
    res |-> 1] : p \in Ops, x \in {Reg(2), Imm(1)}}
  \cup {[op |-> p, size |-> 0, lhs |-> Reg(2), rhs |-> Reg(1),
         discard |-> FALSE, res |-> 0] : p \in Ops}
  \cup {[op |-> p, size |-> 0, lhs |-> Imm(1), rhs |-> Reg(0),
         discard |-> TRUE, res |-> 1] : p \in Ops}

\* Byte 3 stops answering: the second chunk of the transfer of four bytes.
MCMappings == {Memory, Memory \ {3}}
MCSources == {<<0, 0>>, <<0, 1>>, <<0, 3>>, <<1, 4>>}
MCControls == {<<"ECB", TRUE>>, <<"CTR", FALSE>>, <<"CMAC", FALSE>>}
\* In place, overlapping from below, and elsewhere, shorter than the input.
MCTargets == {<<1, 4>>, <<0, 4>>, <<5, 2>>}

CONSTANTS win1, win2

MCFirst == (win1 :> 0 @@ win2 :> 2)
MCLast == (win1 :> 1 @@ win2 :> 3)
MCRights == {<<TRUE, FALSE>>, <<TRUE, TRUE>>}
Access(wr, a, n) == [write |-> wr, addr |-> a, len |-> n]
\* Inside a window, across two of them, and where QEMU's memory answers.
MCAccesses ==
  {Access(TRUE, 0, 1), Access(FALSE, 0, 2), Access(FALSE, 1, 2),
   Access(TRUE, 2, 1), Access(FALSE, 3, 1)}
=============================================================================
