------------------------------ MODULE NorArray ------------------------------
(***************************************************************************)
(* What a NOR flash promises the software that drives it, without command  *)
(* bytes, buffers, sector maps or files: the array changes only in the     *)
(* step that completes an operation the software asked for.  A program     *)
(* operation clears bits and never sets one; an erase operation sets every *)
(* bit of one block, and nothing else.  The two compatibility switches     *)
(* relax programming, and only for the byte or the block that is named.    *)
(***************************************************************************)
CONSTANTS Offsets, Bytes, Ones

VARIABLES
  array,   \* the bytes a read in array mode returns
  asked,   \* the operation asked for: "none", "program" or "erase"
  blockOf, \* the block each byte is in
  lax      \* what programming 0xff may do besides: set a "byte" or a "block"

vars == <<array, asked, blockOf, lax>>

Init ==
  /\ array \in [Offsets -> Bytes]
  /\ asked = "none"

\* A block is a block of the size in force; the size and the switches are
\* changed between operations or during one, never by completing one.
Ask ==
  /\ asked' \in {"none", "program", "erase"}
  /\ UNCHANGED <<array, blockOf, lax>>

Configure == UNCHANGED <<array, asked>>

EraseBlock ==
  \E s \in {blockOf[o] : o \in Offsets} :
    array' = [o \in Offsets |-> IF blockOf[o] = s THEN Ones ELSE array[o]]

ProgramBytes ==
  /\ array' \in [Offsets -> Bytes]
  /\ \A o \in Offsets : \/ array'[o] \subseteq array[o]
                        \/ "byte" \in lax /\ array'[o] = Ones

Complete ==
  /\ \/ asked = "program" /\ ProgramBytes
     \/ asked = "program" /\ "block" \in lax /\ EraseBlock
     \/ asked = "erase" /\ EraseBlock
  /\ asked' = "none"
  /\ UNCHANGED <<blockOf, lax>>

Next == Ask \/ Configure \/ Complete

Spec == Init /\ [][Next]_vars
=============================================================================
