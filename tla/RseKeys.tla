------------------------------ MODULE RseKeys ------------------------------
(***************************************************************************)
(* The keys of the RSE over several simulations: rse_lcm burns them into   *)
(* the OTP image, a later start of the simulation has rse_kmu load them    *)
(* from it, and software exports them.  The simulation may end or crash    *)
(* after any write, in the middle of a write-back too.                     *)
(***************************************************************************)
EXTENDS RseLcm, RseKmu

ASSUME KeysAssumption ==
  /\ KeyBits = Bits
  /\ \A s \in OtpSlots : OtpOffset[s] + KeyWords <= Size

VARIABLES
  up,      \* the simulation runs
  burnt    \* history: every bit the image has held, by word

vars == <<lcmVars, kmuVars, up, burnt>>

TypeOK ==
  /\ LcmTypeOK /\ KmuTypeOK
  /\ up \in BOOLEAN
  /\ burnt \in [Words -> Word]

Init ==
  /\ file \in Images
  /\ otp = file.data /\ lcs \in StartLcs /\ locked = FALSE
  /\ torn = {} /\ exempt = {}
  /\ key = load_otp_hardware_keys(file.len, file.data)
  /\ port = [s \in Slots |-> IF s \in HwSlots THEN DefaultPort ELSE NoPort]
  /\ dest = [p \in Ports |-> NoKey] /\ clean = Slots
  /\ up = TRUE /\ burnt = file.data /\ fouled = {}

\* A write to the LCM, with what of it reaches the image.
UseLcm ==
  /\ up /\ LcmWrite
  /\ burnt' = [w \in Words |-> burnt[w] \cup file'.data[w]]
  /\ UNCHANGED <<kmuVars, up>>

UseKmu ==
  /\ up /\ KmuWrite
  /\ UNCHANGED <<lcmVars, up, burnt>>

\* A rising edge of the KMU's reset.
ResetKmu ==
  /\ up /\ KmuReset(file.there, file.len, file.data)
  /\ UNCHANGED <<lcmVars, dest, fouled, up, burnt>>

\* Nothing but the image outlives the process.
Stop ==
  /\ up /\ up' = FALSE
  /\ otp' = [w \in Words |-> {}] /\ lcs' = "CM" /\ locked' = FALSE
  /\ key' = [s \in Slots |-> NoKey] /\ port' = [s \in Slots |-> NoPort]
  /\ dest' = [p \in Ports |-> NoKey] /\ clean' = Slots /\ fouled' = {}
  /\ UNCHANGED <<file, torn, exempt, burnt>>

\* Both models are constructed again and open the image, each for itself.
Start ==
  /\ ~ up /\ up' = TRUE
  /\ LcmStart
  /\ \E readable \in BOOLEAN :
       KmuReset(file.there /\ readable, file.len, file.data)
  /\ UNCHANGED <<dest, burnt, fouled>>

Next == UseLcm \/ UseKmu \/ ResetKmu \/ Stop \/ Start

Spec == Init /\ [][Next]_vars

-----------------------------------------------------------------------------
(* Properties                                                              *)

\* What has once reached a word of the image stays in the window of this and
\* every later simulation, and in the image, whatever software burns, however a
\* write-back is cut short and whenever the simulation ends.  A write-back that
\* truncated the image first and was cut short costs the image the words it did
\* not come to (torn): the running simulation still has them, and the write-back
\* that next comes so far puts them back.  The window loses words only as
\* exempt says.  A hardware key in the KMU, and one that was exported, is made
\* of bits that were burnt.
BurntIsKept ==
  /\ \A w \in Words \ exempt : /\ burnt[w] \subseteq file.data[w] \/ w \in torn
                               /\ up => burnt[w] \subseteq otp[w]
  /\ \A s \in OtpSlots \cap clean : \A i \in 1 .. KeyWords :
       key[s][i] \subseteq burnt[OtpOffset[s] + i - 1]
  /\ \A p \in Ports \ fouled : \A i \in 1 .. KeyWords :
       dest[p][i] \subseteq UNION {burnt[OtpOffset[s] + i - 1] : s \in OtpSlots}
=============================================================================
