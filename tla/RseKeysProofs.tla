--------------------------- MODULE RseKeysProofs ---------------------------
(***************************************************************************)
(* Proofs about RseKeys, for every size of the OTP window and of a key,    *)
(* every layout of the keys in it, and every image file.                   *)
(***************************************************************************)
EXTENDS RseKeys, TLAPS

\* The history is what it says: the image holds nothing else.
ImageIsBurnt == \A w \in Words : file.data[w] \subseteq burnt[w]

\* What was burnt is in the image, if it was not torn off, and in a running
\* simulation in the window that the next write-back copies.
BurntStays ==
  \A w \in Words \ exempt : /\ burnt[w] \subseteq file.data[w] \/ w \in torn
                            /\ up => burnt[w] \subseteq otp[w]

\* The word of the window a key word comes from.
At(s, i) == OtpOffset[s] + i - 1

KeysAreBurnt ==
  \A s \in OtpSlots \cap clean : \A i \in 1 .. KeyWords :
    key[s][i] \subseteq burnt[At(s, i)]

BurntFor(i) == UNION {burnt[At(s, i)] : s \in OtpSlots}

ExportsAreBurnt ==
  \A p \in Ports \ fouled : \A i \in 1 .. KeyWords : dest[p][i] \subseteq BurntFor(i)

IInv == TypeOK /\ ImageIsBurnt /\ BurntStays /\ KeysAreBurnt /\ ExportsAreBurnt

-----------------------------------------------------------------------------
\* A key lies in the window.
LEMMA KeyInWindow ==
  ASSUME NEW s \in OtpSlots, NEW i \in 1 .. KeyWords
  PROVE  At(s, i) \in Words
  <1>1. OtpOffset[s] \in Nat /\ KeyWords \in Nat /\ Size \in Nat
    BY KmuAssumption, LcmAssumption
  <1>2. OtpOffset[s] + KeyWords <= Size  BY KeysAssumption
  <1> QED  BY <1>1, <1>2 DEF At, Words

\* load_otp_hardware_keys gives every slot a key, made of bits of the image.
LEMMA LoadedKeys ==
  ASSUME NEW len \in Nat, NEW data \in [Words -> Word]
  PROVE  /\ load_otp_hardware_keys(len, data) \in [Slots -> Key]
         /\ \A s \in OtpSlots : \A i \in 1 .. KeyWords :
              load_otp_hardware_keys(len, data)[s][i] \subseteq data[At(s, i)]
  <1> DEFINE loaded == load_otp_hardware_keys(len, data)
             full(s) == [i \in 1 .. KeyWords |->
                           IF OtpOffset[s] + i <= len THEN data[At(s, i)] ELSE {}]
  <1>1. \A s \in OtpSlots : full(s) \in Key
    <2> SUFFICES ASSUME NEW s \in OtpSlots, NEW i \in 1 .. KeyWords
                 PROVE  data[At(s, i)] \in SUBSET KeyBits
      BY DEF Key
    <2>1. At(s, i) \in Words  BY KeyInWindow
    <2> QED  BY <2>1, KeysAssumption DEF Word
  <1>2. NoKey \in Key  BY DEF NoKey, Key
  <1>3. \A s \in Slots : loaded[s] = NoKey \/ (s \in OtpSlots /\ loaded[s] = full(s))
    BY DEF load_otp_hardware_keys, At
  <1>4. loaded \in [Slots -> Key]
    <2>1. loaded = [s \in Slots |-> loaded[s]]  BY DEF load_otp_hardware_keys
    <2>2. \A s \in Slots : loaded[s] \in Key  BY <1>1, <1>2, <1>3
    <2> HIDE DEF loaded
    <2> QED  BY <2>1, <2>2
  <1>5. ASSUME NEW s \in OtpSlots, NEW i \in 1 .. KeyWords
        PROVE  loaded[s][i] \subseteq data[At(s, i)]
    <2>1. s \in Slots  BY KmuAssumption
    <2>2. CASE loaded[s] = NoKey  BY <2>2 DEF NoKey
    <2>3. CASE loaded[s] = full(s)  BY <2>3
    <2> QED  BY <1>3, <2>1, <2>2, <2>3
  <1> QED  BY <1>4, <1>5

LEMMA PortType ==
  [s \in Slots |-> IF s \in HwSlots THEN DefaultPort ELSE NoPort]
    \in [Slots -> Ports \cup {NoPort}]
  BY KmuAssumption

\* A reset of the KMU, with or without an image, leaves slots whose keys are
\* in the image.
LEMMA ResetKeys ==
  ASSUME TypeOK, ImageIsBurnt, NEW there \in BOOLEAN,
         KmuReset(there, file.len, file.data)
  PROVE  /\ key' \in [Slots -> Key]
         /\ port' \in [Slots -> Ports \cup {NoPort}]
         /\ clean' = Slots
         /\ \A s \in OtpSlots : \A i \in 1 .. KeyWords :
              key'[s][i] \subseteq burnt[At(s, i)]
  <1>1. file.len \in Nat /\ file.data \in [Words -> Word]
    <2>1. file \in File /\ Size \in Nat  BY LcmAssumption DEF TypeOK, LcmTypeOK
    <2> QED  BY <2>1 DEF File
  <1>2. [s \in Slots |-> NoKey] \in [Slots -> Key]  BY DEF NoKey, Key
  <1>3. key' \in [Slots -> Key]
    BY <1>1, <1>2, LoadedKeys DEF KmuReset
  <1>4. ASSUME NEW s \in OtpSlots, NEW i \in 1 .. KeyWords
        PROVE  key'[s][i] \subseteq burnt[At(s, i)]
    <2>1. s \in Slots /\ At(s, i) \in Words  BY KmuAssumption, KeyInWindow
    <2>2. file.data[At(s, i)] \subseteq burnt[At(s, i)]
      BY <2>1 DEF ImageIsBurnt
    <2>3. CASE there
      <3>1. key' = load_otp_hardware_keys(file.len, file.data)
        BY <2>3 DEF KmuReset
      <3>2. key'[s][i] \subseteq file.data[At(s, i)]
        BY <1>1, <3>1, LoadedKeys
      <3> QED  BY <2>2, <3>2
    <2>4. CASE ~ there
      <3>1. key'[s][i] = {}  BY <2>1, <2>4 DEF KmuReset, NoKey
      <3> QED  BY <3>1
    <2> QED  BY <2>3, <2>4
  <1> QED  BY <1>3, <1>4, PortType DEF KmuReset

-----------------------------------------------------------------------------
LEMMA InitIInv == Init => IInv
  <1> SUFFICES ASSUME Init PROVE IInv  OBVIOUS
  <1>1. file \in File  BY LcmAssumption DEF Init
  <1>2. file.len \in Nat /\ file.data \in [Words -> Word]
    BY <1>1, LcmAssumption DEF File
  <1>3. LcmTypeOK
    <2>1. otp \in [Words -> Word]  BY <1>2 DEF Init
    <2>2. lcs \in Lcs  BY LcmAssumption DEF Init
    <2>3. locked \in BOOLEAN /\ torn \subseteq Words /\ exempt \subseteq Words
      BY DEF Init
    <2> QED  BY <1>1, <2>1, <2>2, <2>3 DEF LcmTypeOK
  <1>4. KmuTypeOK
    <2>1. key \in [Slots -> Key]  BY <1>2, LoadedKeys DEF Init
    <2>2. port \in [Slots -> Ports \cup {NoPort}]  BY PortType DEF Init
    <2>3. dest \in [Ports -> Key]  BY DEF Init, NoKey, Key
    <2>4. clean \subseteq Slots /\ fouled \subseteq Ports  BY DEF Init
    <2> QED  BY <2>1, <2>2, <2>3, <2>4 DEF KmuTypeOK
  <1>5. TypeOK
    <2>1. burnt \in [Words -> Word]  BY <1>2 DEF Init
    <2>2. up \in BOOLEAN  BY DEF Init
    <2> QED  BY <1>3, <1>4, <2>1, <2>2 DEF TypeOK
  <1>6. ImageIsBurnt /\ BurntStays  BY DEF Init, ImageIsBurnt, BurntStays
  <1>7. KeysAreBurnt  BY <1>2, LoadedKeys DEF Init, KeysAreBurnt
  <1>8. ExportsAreBurnt
    BY DEF Init, ExportsAreBurnt, NoKey
  <1> QED  BY <1>5, <1>6, <1>7, <1>8 DEF IInv

-----------------------------------------------------------------------------
(* The LCM                                                                 *)

\* What a write to the LCM must establish, with the image it leaves: then the
\* history grows and the keys, which it does not touch, stay burnt.
LEMMA LcmStepIInv ==
  ASSUME IInv, LcmTypeOK', BurntStays',
         burnt' = [w \in Words |-> burnt[w] \cup file'.data[w]],
         UNCHANGED <<kmuVars, up>>
  PROVE  IInv'
  <1>1. file'.data \in [Words -> Word]  BY DEF LcmTypeOK, File
  <1>2. burnt \in [Words -> Word]  BY DEF IInv, TypeOK
  <1>3. burnt' \in [Words -> Word]  BY <1>1, <1>2 DEF Word
  <1>4. \A w \in Words : burnt[w] \subseteq burnt'[w] /\ file'.data[w] \subseteq burnt'[w]
    OBVIOUS
  <1>5. TypeOK'
    <2>1. KmuTypeOK'  BY DEF IInv, TypeOK, KmuTypeOK, kmuVars
    <2>2. up' \in BOOLEAN  BY DEF IInv, TypeOK
    <2> QED  BY <1>3, <2>1, <2>2 DEF TypeOK
  <1>6. ImageIsBurnt'  BY <1>4 DEF ImageIsBurnt
  <1>7. \A s \in OtpSlots, i \in 1 .. KeyWords : burnt[At(s, i)] \subseteq burnt'[At(s, i)]
    BY <1>4, KeyInWindow
  <1>8. KeysAreBurnt'
    BY <1>7 DEF IInv, KeysAreBurnt, kmuVars, At
  <1>9. ExportsAreBurnt'
    <2> SUFFICES ASSUME NEW p \in Ports \ fouled, NEW i \in 1 .. KeyWords
                 PROVE  dest[p][i] \subseteq BurntFor(i)'
      BY DEF ExportsAreBurnt, kmuVars, BurntFor, At
    <2>1. dest[p][i] \subseteq BurntFor(i)  BY DEF IInv, ExportsAreBurnt
    <2>2. BurntFor(i) \subseteq BurntFor(i)'
      BY <1>7 DEF BurntFor, At
    <2> QED  BY <2>1, <2>2
  <1> QED  BY <1>5, <1>6, <1>8, <1>9 DEF IInv

\* What a write-back does to each word: the image has it from the window; or
\* keeps it, and does not stop to count as torn; or loses it, and then counts as
\* torn unless the window has nothing there.
Settled(w, window) ==
  \/ file'.data[w] = window[w]
  \/ file'.data[w] = file.data[w] /\ (w \in torn => w \in torn')
  \/ file'.data[w] = {} /\ (window[w] # {} => w \in torn')

\* flush_otp_image settles every word, whether the image is written in place or
\* truncated first and however far the write comes.
LEMMA FlushSettles ==
  ASSUME LcmTypeOK, NEW window \in [Words -> Word], flush_otp_image(window)
  PROVE  /\ file' \in File /\ torn' \subseteq Words
         /\ \A w \in Words : Settled(w, window)
  <1>1. file \in File /\ torn \subseteq Words  BY DEF LcmTypeOK
  <1>2. file.data \in [Words -> Word] /\ file.len \in 0 .. Size
    BY <1>1 DEF File
  <1>3. CASE UNCHANGED <<file, torn>>  BY <1>1, <1>3 DEF Settled
  <1>4. ASSUME NEW n \in 0 .. Size, file' = Flushed(file, n, window),
               torn' = {w \in torn : w >= n}
        PROVE  /\ file' \in File /\ torn' \subseteq Words
               /\ \A w \in Words : Settled(w, window)
    <2> DEFINE mixed == [w \in Words |-> IF w < n THEN window[w] ELSE file.data[w]]
               longer == IF file.len < n THEN n ELSE file.len
    <2>1. mixed \in [Words -> Word]  BY <1>2
    <2>2. longer \in 0 .. Size  BY <1>2
    <2>3. file' = [there |-> TRUE, len |-> longer, data |-> mixed]
      BY <1>4 DEF Flushed
    <2>4. \A w \in Words : mixed[w] = IF w < n THEN window[w] ELSE file.data[w]
      OBVIOUS
    <2> HIDE DEF mixed, longer
    <2>5. file' \in File  BY <2>1, <2>2, <2>3 DEF File
    <2>6. file'.data = mixed  BY <2>3
    <2>7. \A w \in Words : ~ (w < n) => w >= n  BY LcmAssumption DEF Words
    <2>8. \A w \in Words : Settled(w, window)
      BY <1>4, <2>4, <2>6, <2>7 DEF Settled
    <2> QED  BY <1>1, <1>4, <2>5, <2>8
  <1>5. ASSUME NEW n \in 0 .. Size, file' = Created(n, window),
               torn' = {w \in Words : w >= n /\ window[w] # {}}
        PROVE  /\ file' \in File /\ torn' \subseteq Words
               /\ \A w \in Words : Settled(w, window)
    <2> DEFINE cut == [w \in Words |-> IF w < n THEN window[w] ELSE {}]
    <2>1. cut \in [Words -> Word]  BY DEF Word
    <2>2. file' = [there |-> TRUE, len |-> n, data |-> cut]
      BY <1>5 DEF Created
    <2>3. \A w \in Words : cut[w] = IF w < n THEN window[w] ELSE {}  OBVIOUS
    <2> HIDE DEF cut
    <2>4. file' \in File  BY <2>1, <2>2 DEF File
    <2>5. file'.data = cut  BY <2>2
    <2>6. \A w \in Words : ~ (w < n) => w >= n  BY LcmAssumption DEF Words
    <2>7. \A w \in Words : Settled(w, window)
      BY <1>5, <2>3, <2>5, <2>6 DEF Settled
    <2> QED  BY <1>5, <2>4, <2>7
  <1> QED  BY <1>3, <1>4, <1>5 DEF flush_otp_image

LEMMA WriteOtpIInv ==
  ASSUME IInv, up, NEW o \in OtpWrites, write_otp(o),
         burnt' = [w \in Words |-> burnt[w] \cup file'.data[w]],
         UNCHANGED <<kmuVars, up>>
  PROVE  IInv'
  <1>t. LcmTypeOK /\ burnt \in [Words -> Word]  BY DEF IInv, TypeOK
  <1>1. CASE locked
    <2>1. UNCHANGED lcmVars  BY <1>1 DEF write_otp
    <2>2. LcmTypeOK'  BY <1>t, <2>1 DEF lcmVars, LcmTypeOK
    <2>3. \A w \in Words : burnt'[w] = burnt[w]
      BY <2>1 DEF IInv, ImageIsBurnt, lcmVars
    <2>4. BurntStays'  BY <2>1, <2>3 DEF IInv, BurntStays, lcmVars
    <2> QED  BY <2>2, <2>4, LcmStepIInv
  <1>2. CASE ~ locked
    <2>1. /\ otp' = Programmed(o) /\ flush_otp_image(otp') /\ exempt' = exempt
          /\ update_lcs_from_otp_write(o.words, o.whole)
      BY <1>2 DEF write_otp
    <2>2. o.bits \in Word  BY LcmAssumption
    <2>3. otp \in [Words -> Word]  BY <1>t DEF LcmTypeOK
    <2>4. otp' \in [Words -> Word]  BY <2>1, <2>2, <2>3 DEF Programmed, Word
    <2>5. \A w \in Words : otp[w] \subseteq otp'[w]  BY <2>1 DEF Programmed
    <2>6. /\ file' \in File /\ torn' \subseteq Words
          /\ \A w \in Words : Settled(w, otp')
      BY <1>t, <2>1, <2>4, FlushSettles
    <2>7. lcs' \in Lcs
      BY <1>t, <2>1 DEF update_lcs_from_otp_write, AfterCm, LcmTypeOK, Lcs
    <2>8. locked' \in BOOLEAN /\ exempt' \subseteq Words
      BY <1>t, <2>1 DEF update_lcs_from_otp_write, LcmTypeOK
    <2>9. LcmTypeOK'  BY <2>4, <2>6, <2>7, <2>8 DEF LcmTypeOK
    <2>10. BurntStays'
      <3> SUFFICES ASSUME NEW w \in Words \ exempt
                   PROVE  /\ burnt'[w] \subseteq file'.data[w] \/ w \in torn'
                          /\ burnt'[w] \subseteq otp'[w]
        BY <2>1 DEF BurntStays
      <3>1. /\ burnt[w] \subseteq file.data[w] \/ w \in torn
            /\ burnt[w] \subseteq otp'[w]
        BY <2>5 DEF IInv, BurntStays
      <3>2. file.data[w] \subseteq burnt[w]  BY DEF IInv, ImageIsBurnt
      <3>3. burnt'[w] = burnt[w] \cup file'.data[w]  OBVIOUS
      <3>4. CASE file'.data[w] = otp'[w]  BY <3>1, <3>3, <3>4
      <3>5. CASE file'.data[w] = file.data[w] /\ (w \in torn => w \in torn')
        BY <3>1, <3>2, <3>3, <3>5
      <3>6. CASE file'.data[w] = {} /\ (otp'[w] # {} => w \in torn')
        BY <3>1, <3>3, <3>6
      <3> QED  BY <2>6, <3>4, <3>5, <3>6 DEF Settled
    <2> QED  BY <2>9, <2>10, LcmStepIInv
  <1> QED  BY <1>1, <1>2

\* The other writes leave the image alone; a word of the window that loses bits
\* by a raw one is exempt.
LEMMA RegisterWriteIInv ==
  ASSUME IInv, LcmTypeOK', UNCHANGED <<file, torn>>,
         \A w \in Words \ exempt' : w \notin exempt /\ otp[w] \subseteq otp'[w],
         burnt' = [w \in Words |-> burnt[w] \cup file'.data[w]],
         UNCHANGED <<kmuVars, up>>
  PROVE  IInv'
  <1>1. \A w \in Words : burnt'[w] = burnt[w]  BY DEF IInv, ImageIsBurnt
  <1>2. BurntStays'  BY <1>1 DEF IInv, BurntStays
  <1> QED  BY <1>2, LcmStepIInv

LEMMA UseLcmIInv == ASSUME IInv, UseLcm PROVE IInv'
  <1>u. /\ up /\ LcmWrite /\ UNCHANGED <<kmuVars, up>>
        /\ burnt' = [w \in Words |-> burnt[w] \cup file'.data[w]]
    BY DEF UseLcm
  <1>t. LcmTypeOK  BY DEF IInv, TypeOK
  <1>1. ASSUME NEW o \in OtpWrites, write_otp(o) PROVE IInv'
    BY <1>u, <1>1, WriteOtpIInv
  <1>2. CASE write_SP_ENABLE
    <2>1. locked' \in BOOLEAN  BY <1>2 DEF write_SP_ENABLE
    <2>2. LcmTypeOK'  BY <1>2, <1>t, <2>1 DEF write_SP_ENABLE, LcmTypeOK
    <2> QED  BY <1>u, <1>2, <2>2, RegisterWriteIInv DEF write_SP_ENABLE
  <1>3. ASSUME NEW b \in Word, raw_store_first_word(b) PROVE IInv'
    <2>1. exempt' \subseteq Words
      BY <1>3, <1>t DEF raw_store_first_word, Lost, LcmTypeOK
    <2>2. otp' \in [Words -> Word]  BY <1>3, <1>t DEF raw_store_first_word, LcmTypeOK
    <2>3. LcmTypeOK'  BY <1>3, <1>t, <2>1, <2>2 DEF raw_store_first_word, LcmTypeOK
    <2>4. \A w \in Words \ exempt' : w \notin exempt /\ otp[w] \subseteq otp'[w]
      BY <1>3 DEF raw_store_first_word, Lost
    <2> QED  BY <1>u, <1>3, <2>3, <2>4, RegisterWriteIInv DEF raw_store_first_word
  <1>4. ASSUME NEW l \in Lcs, raw_store_LCS_VALUE(l) PROVE IInv'
    <2>1. LcmTypeOK'  BY <1>4, <1>t DEF raw_store_LCS_VALUE, LcmTypeOK
    <2> QED  BY <1>u, <1>4, <2>1, RegisterWriteIInv DEF raw_store_LCS_VALUE
  <1> QED  BY <1>u, <1>1, <1>2, <1>3, <1>4 DEF LcmWrite

-----------------------------------------------------------------------------
(* The KMU                                                                 *)

\* The export of a clean hardware key reaches its port with burnt bits, or
\* with what was there for each word that failed; any other fouls the port.
LEMMA ExportIInv ==
  ASSUME IInv, NEW s \in Slots, write_kmuksc(s), UNCHANGED <<lcmVars, up, burnt>>
  PROVE  IInv'
  <1>t. KmuTypeOK  BY DEF IInv, TypeOK
  <1>u. /\ UNCHANGED <<key, port, clean>>
        /\ fouled' = IF s \in OtpSlots \cap clean THEN fouled ELSE fouled \cup {Port(s)}
    BY DEF write_kmuksc
  <1>1. PICK ok \in SUBSET (1 .. KeyWords) :
          dest' = [dest EXCEPT ![Port(s)] = Exported(s, ok)]
    BY DEF write_kmuksc, export_key
  <1>2. Port(s) \in Ports  BY <1>t, KmuAssumption DEF Port, KmuTypeOK
  <1>3. key[s] \in Key /\ dest[Port(s)] \in Key  BY <1>t, <1>2 DEF KmuTypeOK
  <1>4. Exported(s, ok) \in Key  BY <1>3 DEF Exported, Key
  <1>5. KmuTypeOK'
    <2>1. dest' \in [Ports -> Key]  BY <1>t, <1>1, <1>4 DEF KmuTypeOK
    <2>2. fouled' \subseteq Ports  BY <1>t, <1>u, <1>2 DEF KmuTypeOK
    <2> QED  BY <1>t, <1>u, <2>1, <2>2 DEF KmuTypeOK
  <1>6. TypeOK'  BY <1>5 DEF IInv, TypeOK, LcmTypeOK, lcmVars
  <1>7. ImageIsBurnt' /\ BurntStays'
    BY DEF IInv, ImageIsBurnt, BurntStays, lcmVars
  <1>8. KeysAreBurnt'  BY <1>u DEF IInv, KeysAreBurnt, At
  <1>9. ExportsAreBurnt'
    <2> SUFFICES ASSUME NEW p \in Ports \ fouled', NEW i \in 1 .. KeyWords
                 PROVE  dest'[p][i] \subseteq BurntFor(i)
      BY DEF ExportsAreBurnt, BurntFor, At
    <2>1. p \notin fouled  BY <1>u
    <2>2. dest[p][i] \subseteq BurntFor(i)  BY <2>1 DEF IInv, ExportsAreBurnt
    <2>3. CASE p # Port(s)  BY <1>t, <1>1, <2>2, <2>3 DEF KmuTypeOK
    <2>4. CASE p = Port(s)
      <3>1. s \in OtpSlots \cap clean  BY <1>u, <2>4
      <3>2. key[s][i] \subseteq burnt[At(s, i)]  BY <3>1 DEF IInv, KeysAreBurnt
      <3>3. burnt[At(s, i)] \subseteq BurntFor(i)  BY <3>1 DEF BurntFor
      <3>4. dest'[p] = Exported(s, ok)  BY <1>t, <1>1, <2>4 DEF KmuTypeOK
      <3>5. dest'[p][i] = key[s][i] \/ dest'[p][i] = dest[p][i]
        BY <2>4, <3>4 DEF Exported
      <3> QED  BY <2>2, <3>2, <3>3, <3>5
    <2> QED  BY <2>3, <2>4
  <1> QED  BY <1>6, <1>7, <1>8, <1>9 DEF IInv

LEMMA UseKmuIInv == ASSUME IInv, UseKmu PROVE IInv'
  <1>u. KmuWrite /\ UNCHANGED <<lcmVars, up, burnt>>  BY DEF UseKmu
  <1>t. KmuTypeOK  BY DEF IInv, TypeOK
  <1>1. ASSUME NEW s \in Slots, write_kmuksc(s) PROVE IInv'
    BY <1>u, <1>1, ExportIInv
  <1>2. ImageIsBurnt' /\ BurntStays'
    BY <1>u DEF IInv, ImageIsBurnt, BurntStays, lcmVars
  <1>3. ASSUME NEW s \in Slots, NEW p \in Ports \cup {NoPort}, write_KMUDKPA(s, p)
        PROVE  IInv'
    <2>1. KmuTypeOK'  BY <1>t, <1>3 DEF write_KMUDKPA, KmuTypeOK
    <2>2. TypeOK'  BY <1>u, <2>1 DEF IInv, TypeOK, LcmTypeOK, lcmVars
    <2>3. KeysAreBurnt' /\ ExportsAreBurnt'
      BY <1>u, <1>3 DEF IInv, KeysAreBurnt, ExportsAreBurnt, BurntFor, At, write_KMUDKPA
    <2> QED  BY <1>2, <2>2, <2>3 DEF IInv
  <1>4. ASSUME NEW s \in Slots, NEW i \in 1 .. KeyWords, NEW v \in KeyWrites,
               write_KMUKSK(s, i, v)
        PROVE  IInv'
    <2>1. v \in SUBSET KeyBits  BY KmuAssumption
    <2>2. key' \in [Slots -> Key]
      BY <1>t, <1>4, <2>1 DEF write_KMUKSK, KmuTypeOK, Key
    <2>3. KmuTypeOK'  BY <1>t, <1>4, <2>2 DEF write_KMUKSK, KmuTypeOK
    <2>4. TypeOK'  BY <1>u, <2>3 DEF IInv, TypeOK, LcmTypeOK, lcmVars
    <2>5. KeysAreBurnt'
      BY <1>t, <1>u, <1>4 DEF IInv, KeysAreBurnt, At, write_KMUKSK, KmuTypeOK
    <2>6. ExportsAreBurnt'
      BY <1>u, <1>4 DEF IInv, ExportsAreBurnt, BurntFor, At, write_KMUKSK
    <2> QED  BY <1>2, <2>4, <2>5, <2>6 DEF IInv
  <1> QED  BY <1>u, <1>1, <1>3, <1>4 DEF KmuWrite

LEMMA ResetKmuIInv == ASSUME IInv, ResetKmu PROVE IInv'
  <1>u. /\ KmuReset(file.there, file.len, file.data)
        /\ UNCHANGED <<lcmVars, dest, fouled, up, burnt>>
    BY DEF ResetKmu
  <1>1. file.there \in BOOLEAN  BY DEF IInv, TypeOK, LcmTypeOK, File
  <1>2. /\ key' \in [Slots -> Key] /\ port' \in [Slots -> Ports \cup {NoPort}]
        /\ clean' = Slots
        /\ \A s \in OtpSlots : \A i \in 1 .. KeyWords : key'[s][i] \subseteq burnt[At(s, i)]
    BY <1>u, <1>1, ResetKeys DEF IInv
  <1>3. TypeOK'
    BY <1>u, <1>2 DEF IInv, TypeOK, LcmTypeOK, KmuTypeOK, lcmVars
  <1>4. ImageIsBurnt' /\ BurntStays'
    BY <1>u DEF IInv, ImageIsBurnt, BurntStays, lcmVars
  <1>5. KeysAreBurnt'  BY <1>u, <1>2 DEF KeysAreBurnt, At
  <1>6. ExportsAreBurnt'  BY <1>u DEF IInv, ExportsAreBurnt, BurntFor, At
  <1> QED  BY <1>3, <1>4, <1>5, <1>6 DEF IInv

-----------------------------------------------------------------------------
(* The simulation                                                          *)

LEMMA StopIInv == ASSUME IInv, Stop PROVE IInv'
  <1>1. TypeOK'
    <2>1. LcmTypeOK'
      BY DEF IInv, TypeOK, LcmTypeOK, Stop, Word, Lcs
    <2>2. [s \in Slots |-> NoKey] \in [Slots -> Key] /\ [p \in Ports |-> NoKey] \in [Ports -> Key]
      BY DEF NoKey, Key
    <2>3. KmuTypeOK'  BY <2>2 DEF KmuTypeOK, Stop
    <2> QED  BY <2>1, <2>3 DEF IInv, TypeOK, Stop
  <1>2. ImageIsBurnt' /\ BurntStays'  BY DEF IInv, ImageIsBurnt, BurntStays, Stop
  <1>3. KeysAreBurnt'
    <2> SUFFICES ASSUME NEW s \in OtpSlots, NEW i \in 1 .. KeyWords
                 PROVE  key'[s][i] = {}
      BY DEF KeysAreBurnt
    <2>1. s \in Slots  BY KmuAssumption
    <2> QED  BY <2>1 DEF Stop, NoKey
  <1>4. ExportsAreBurnt'  BY DEF ExportsAreBurnt, Stop, NoKey
  <1> QED  BY <1>1, <1>2, <1>3, <1>4 DEF IInv

LEMMA StartIInv == ASSUME IInv, Start PROVE IInv'
  <1>u. LcmStart /\ up' = TRUE /\ UNCHANGED <<dest, burnt, fouled>>  BY DEF Start
  <1>1. PICK readable \in BOOLEAN :
          KmuReset(file.there /\ readable, file.len, file.data)
    BY DEF Start
  <1>f. /\ file \in File /\ file.there \in BOOLEAN /\ file.data \in [Words -> Word]
        /\ file' = file
    BY <1>u DEF IInv, TypeOK, LcmTypeOK, File, LcmStart
  <1>2. /\ key' \in [Slots -> Key] /\ port' \in [Slots -> Ports \cup {NoPort}]
        /\ clean' = Slots
        /\ \A s \in OtpSlots : \A i \in 1 .. KeyWords : key'[s][i] \subseteq burnt[At(s, i)]
    <2>1. (file.there /\ readable) \in BOOLEAN  OBVIOUS
    <2> QED  BY <1>1, <2>1, ResetKeys DEF IInv
  <1>3. LcmTypeOK'
    <2>1. otp' \in [Words -> Word]  BY <1>u, <1>f DEF LcmStart, Word
    <2>2. lcs' \in Lcs  BY <1>u, LcmAssumption DEF LcmStart
    <2>3. locked' \in BOOLEAN /\ torn' \subseteq Words /\ exempt' \subseteq Words
      BY <1>u DEF LcmStart, Lost, IInv, TypeOK, LcmTypeOK
    <2> QED  BY <1>f, <2>1, <2>2, <2>3 DEF LcmTypeOK
  <1>4. TypeOK'
    BY <1>u, <1>2, <1>3 DEF IInv, TypeOK, KmuTypeOK
  <1>5. ImageIsBurnt'  BY <1>u, <1>f DEF IInv, ImageIsBurnt
  <1>6. BurntStays'
    <2> SUFFICES ASSUME NEW w \in Words, w \notin exempt'
                 PROVE  burnt[w] \subseteq file.data[w] /\ burnt[w] \subseteq otp'[w]
      BY <1>u, <1>f DEF BurntStays
    <2>1. w \notin exempt /\ w \notin torn /\ file.data[w] \subseteq otp'[w]
      BY <1>u DEF LcmStart, Lost
    <2>2. burnt[w] \subseteq file.data[w]  BY <2>1 DEF IInv, BurntStays
    <2> QED  BY <2>1, <2>2
  <1>7. KeysAreBurnt'  BY <1>u, <1>2 DEF KeysAreBurnt, At
  <1>8. ExportsAreBurnt'  BY <1>u DEF IInv, ExportsAreBurnt, BurntFor, At
  <1> QED  BY <1>4, <1>5, <1>6, <1>7, <1>8 DEF IInv

LEMMA NextIInv == IInv /\ [Next]_vars => IInv'
  <1> SUFFICES ASSUME IInv, [Next]_vars PROVE IInv'  OBVIOUS
  <1>1. CASE UseLcm  BY <1>1, UseLcmIInv
  <1>2. CASE UseKmu  BY <1>2, UseKmuIInv
  <1>3. CASE ResetKmu  BY <1>3, ResetKmuIInv
  <1>4. CASE Stop  BY <1>4, StopIInv
  <1>5. CASE Start  BY <1>5, StartIInv
  <1>6. CASE UNCHANGED vars
    BY <1>6 DEF vars, lcmVars, kmuVars, IInv, TypeOK, LcmTypeOK, KmuTypeOK,
                ImageIsBurnt, BurntStays, KeysAreBurnt, ExportsAreBurnt, BurntFor, At
  <1> QED  BY <1>1, <1>2, <1>3, <1>4, <1>5, <1>6 DEF Next

\* The inductive invariant: what the image, the window, the keys and the
\* exports hold together, over every write of the LCM and the KMU, every stop
\* and every start.
THEOREM Invariance == Spec => []IInv
  <1> QED  BY InitIInv, NextIInv, PTL DEF Spec

\* Every variable of rse_lcm, rse_kmu and the image keeps its type.
THEOREM TypeCorrect == Spec => []TypeOK
  <1>1. IInv => TypeOK  BY DEF IInv
  <1> QED  BY <1>1, Invariance, PTL

\* No bit that reached the OTP image is lost by burning or by a restart.  A
\* write-back that stops anywhere costs the image nothing when it was made in
\* place, and when it truncated the image first only words that the window
\* still has.  The window loses words by a raw store, or at a start that finds
\* the image unreadable or torn.  A hardware key in the KMU or exported by it
\* holds only bits that were burnt.
THEOREM BurntBitsAreKept == Spec => []BurntIsKept
  <1>1. IInv => BurntIsKept
    BY DEF IInv, BurntIsKept, BurntStays, KeysAreBurnt, ExportsAreBurnt, BurntFor, At
  <1> QED  BY <1>1, Invariance, PTL
=============================================================================
