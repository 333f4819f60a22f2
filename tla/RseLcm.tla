------------------------------- MODULE RseLcm -------------------------------
(***************************************************************************)
(* rse_lcm: the lifecycle state and the window of one-time-programmable    *)
(* words, with the image file that keeps them between simulations.         *)
(*                                                                         *)
(* The OTP is a row of words, each the set of its 1 bits.  Registers that  *)
(* are only stored and read back (SP_ENABLE, FATAL_ERR, DCU_EN, DCU_LOCK)  *)
(* are left out.  otp_size is the whole window, as on the platform.        *)
(***************************************************************************)
EXTENDS Integers

CONSTANTS
  Size,        \* the words of the OTP window
  Bits,        \* the bits of a word
  CmConfig2,   \* OTP_CM_CONFIG_2: the word that ends the CM state
  DmConfig,    \* OTP_DM_CONFIG: the word that ends the DM state
  StartLcs,    \* p_lcs: the values the lifecycle state may start with
  Writeback,   \* p_otp_writeback
  LockAfter,   \* p_otp_lock_after_provision
  OtpWrites,   \* the writes software makes: [words, whole, bits]
  Images       \* the image files a first start may find

Words == 0 .. Size - 1
Lcs == {"CM", "DM", "SE"}
Word == SUBSET Bits
\* A file of the first len words; the rest reads as 0.
File == [there : BOOLEAN, len : 0 .. Size, data : [Words -> Word]]

ASSUME LcmAssumption ==
  /\ Size \in Nat /\ CmConfig2 \in Words /\ DmConfig \in Words
  /\ StartLcs \subseteq Lcs
  /\ Writeback \in BOOLEAN /\ LockAfter \in BOOLEAN
  /\ OtpWrites \subseteq [words : SUBSET Words, whole : BOOLEAN, bits : Word]
  /\ Images \subseteq File
  /\ \A f \in Images : \A w \in Words : w >= f.len => f.data[w] = {}

VARIABLES
  otp,     \* m_regs from OTP_WINDOW on
  lcs,     \* LCS_VALUE
  locked,  \* m_otp_locked
  file,    \* the image file
  torn,    \* history: the words of the window that the image has lost, by a
           \* write-back that truncated it and was cut short
  exempt   \* history: the words of which the window has lost bits, by a raw
           \* store or by a start that could not read them from the image

lcmVars == <<otp, lcs, locked, file, torn, exempt>>

LcmTypeOK ==
  /\ otp \in [Words -> Word]
  /\ lcs \in Lcs
  /\ locked \in BOOLEAN
  /\ torn \subseteq Words /\ exempt \subseteq Words
  /\ file \in File

\* The words of which bits are lost when new takes the place of old.
Lost(old, new) == {w \in Words : ~ (old[w] \subseteq new[w])}

\* reset_registers, which the constructor calls: the lifecycle state is a
\* parameter and the lock is open, whatever the image says.  An image that
\* cannot be opened leaves the window empty, and what a write-back has torn off
\* the image is nowhere any more.
LcmStart ==
  /\ otp' \in {file.data, [w \in Words |-> {}]}
  /\ exempt' = exempt \cup torn \cup Lost(file.data, otp')
  /\ torn' = {}
  /\ lcs' \in StartLcs
  /\ locked' = FALSE
  /\ UNCHANGED file

-----------------------------------------------------------------------------

\* update_lcs_from_otp_write: a write that covers both words makes both steps.
AfterCm(ws, whole) ==
  IF whole /\ CmConfig2 \in ws /\ lcs = "CM" THEN "DM" ELSE lcs
update_lcs_from_otp_write(ws, whole) ==
  LET dm   == AfterCm(ws, whole)
      done == whole /\ DmConfig \in ws /\ dm = "DM"
  IN  /\ lcs' = IF done THEN "SE" ELSE dm
      /\ locked' = (locked \/ (done /\ LockAfter))

\* The image opened in place: its first n words are written, the others stay.
Flushed(f, n, window) ==
  [there |-> TRUE, len |-> IF f.len < n THEN n ELSE f.len,
   data |-> [w \in Words |-> IF w < n THEN window[w] ELSE f.data[w]]]

\* The image created, which truncates one that is there: it has n words.
Created(n, window) ==
  [there |-> TRUE, len |-> n,
   data |-> [w \in Words |-> IF w < n THEN window[w] ELSE {}]]

\* flush_otp_image: an image that cannot be opened in place (a missing one
\* cannot) is created, and when that fails too nothing is written.  A write
\* may stop anywhere.  Only the log tells which of these happened.
flush_otp_image(window) ==
  \/ UNCHANGED <<file, torn>>
  \/ \E n \in 0 .. Size :
       /\ Writeback
       /\ \/ /\ file.there
             /\ file' = Flushed(file, n, window)
             /\ torn' = {w \in torn : w >= n}
          \/ /\ file' = Created(n, window)
             /\ torn' = {w \in Words : w >= n /\ window[w] # {}}

\* Mutant: the window is written like any memory.
Mut_overwrite(o) ==
  [w \in Words |-> IF w \in o.words THEN o.bits ELSE otp[w]]

\* The bits of a write are added to the words.
Programmed(o) ==
  [w \in Words |-> IF w \in o.words THEN otp[w] \cup o.bits ELSE otp[w]]

\* A locked window takes writes and does nothing.
write_otp(o) ==
  IF locked THEN UNCHANGED lcmVars
  ELSE /\ otp' = Programmed(o)
       /\ update_lcs_from_otp_write(o.words, o.whole)
       /\ flush_otp_image(otp')
       /\ UNCHANGED exempt

\* SP_ENABLE with the magic value.
write_SP_ENABLE ==
  /\ locked' = (locked \/ LockAfter)
  /\ UNCHANGED <<otp, lcs, file, torn, exempt>>

\* An eight-byte store at the word before the window is no OTP access and no
\* word write: it is copied into the registers, the first OTP word included.
raw_store_first_word(bits) ==
  /\ otp' = [otp EXCEPT ![0] = bits]
  /\ exempt' = exempt \cup Lost(otp, otp')
  /\ UNCHANGED <<lcs, locked, file, torn>>

\* A store of another size than a word is copied over LCS_VALUE as well.
raw_store_LCS_VALUE(s) ==
  /\ lcs' = s
  /\ UNCHANGED <<otp, locked, file, torn, exempt>>

LcmWrite ==
  \/ \E o \in OtpWrites : write_otp(o)
  \/ write_SP_ENABLE
  \/ \E b \in Word : raw_store_first_word(b)
  \/ \E s \in Lcs : raw_store_LCS_VALUE(s)
=============================================================================
