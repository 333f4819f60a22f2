------------------------------- MODULE RseKmu -------------------------------
(***************************************************************************)
(* rse_kmu: the key slots.  The hardware slots are read from the OTP image *)
(* at a reset; a write of a slot's control register exports its key, word  *)
(* by word, to an address on the bus.                                      *)
(*                                                                         *)
(* The bits of a control register that ask for something turn into the     *)
(* bits that say it is done within the same write; the lock bits stop      *)
(* nothing.  Neither is kept here, nor is KMUIS.KEC, which every export    *)
(* sets whether its writes succeeded or not.                               *)
(***************************************************************************)
EXTENDS Integers

CONSTANTS
  Slots,       \* the slots in use
  KeyWords,    \* SLOT_WORDS: the words of a key
  OtpOffset,   \* the OTP word where the key of each hardware slot begins
  KeyBits,     \* the bits of a key word
  Ports,       \* the addresses keys are exported to; DefaultPort is one
  DefaultPort, \* p_hw_slot_export_address
  KeyWrites    \* what software stores in a key word

\* Slot 0 is a hardware slot whose key is not in the OTP.
OtpSlots == DOMAIN OtpOffset
HwSlots == OtpSlots \cup (Slots \cap {0})
Key == [1 .. KeyWords -> SUBSET KeyBits]
NoKey == [i \in 1 .. KeyWords |-> {}]
NoPort == 0

ASSUME KmuAssumption ==
  /\ KeyWords \in Nat
  /\ OtpOffset \in [OtpSlots -> Nat]
  /\ OtpSlots \subseteq Slots /\ Slots \subseteq Nat
  /\ DefaultPort \in Ports /\ NoPort \notin Ports
  /\ KeyWrites \subseteq SUBSET KeyBits

VARIABLES
  key,    \* KMUKSK: the key of each slot
  port,   \* KMUDKPA: where each slot is exported to; NoPort is 0
  dest,   \* the key words at each port
  clean,  \* history: slots software has not written since the reset
  fouled  \* history: ports that were given a key software had written

kmuVars == <<key, port, dest, clean, fouled>>

KmuTypeOK ==
  /\ key \in [Slots -> Key]
  /\ port \in [Slots -> Ports \cup {NoPort}]
  /\ dest \in [Ports -> Key]
  /\ clean \subseteq Slots /\ fouled \subseteq Ports

\* load_otp_hardware_keys from an image of len words: the slots in order, and
\* no further than the first that is cut short, whose words stay.
Fits(len, s) == OtpOffset[s] + KeyWords <= len
load_otp_hardware_keys(len, data) ==
  [s \in Slots |->
     IF s \in OtpSlots /\ \A t \in OtpSlots : t < s => Fits(len, t)
     THEN [i \in 1 .. KeyWords |->
             IF OtpOffset[s] + i <= len THEN data[OtpOffset[s] + i - 1] ELSE {}]
     ELSE NoKey]

\* reset_registers, at the start and at a rising edge of the reset; without an
\* image no key is loaded.
KmuReset(there, len, data) ==
  /\ key' = IF there THEN load_otp_hardware_keys(len, data)
            ELSE [s \in Slots |-> NoKey]
  /\ port' = [s \in Slots |-> IF s \in HwSlots THEN DefaultPort ELSE NoPort]
  /\ clean' = Slots

\* export_key: the words whose write fails are left out, and nobody is told.
Port(s) == IF port[s] = NoPort THEN DefaultPort ELSE port[s]
Exported(s, ok) ==
  [i \in 1 .. KeyWords |-> IF i \in ok THEN key[s][i] ELSE dest[Port(s)][i]]
export_key(s) ==
  \E ok \in SUBSET (1 .. KeyWords) :
    dest' = [dest EXCEPT ![Port(s)] = Exported(s, ok)]

\* KMUKSC with EK set.
write_kmuksc(s) ==
  /\ export_key(s)
  /\ fouled' = IF s \in OtpSlots \cap clean THEN fouled
               ELSE fouled \cup {Port(s)}
  /\ UNCHANGED <<key, port, clean>>

write_KMUDKPA(s, p) ==
  /\ port' = [port EXCEPT ![s] = p]
  /\ UNCHANGED <<key, dest, clean, fouled>>

\* A word or any other store into a key.
write_KMUKSK(s, i, v) ==
  /\ key' = [key EXCEPT ![s][i] = v]
  /\ clean' = clean \ {s}
  /\ UNCHANGED <<port, dest, fouled>>

KmuWrite ==
  \/ \E s \in Slots : write_kmuksc(s)
  \/ \E s \in Slots, p \in Ports \cup {NoPort} : write_KMUDKPA(s, p)
  \/ \E s \in Slots, i \in 1 .. KeyWords, v \in KeyWrites : write_KMUKSK(s, i, v)
=============================================================================
