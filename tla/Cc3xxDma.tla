------------------------------ MODULE Cc3xxDma ------------------------------
(***************************************************************************)
(* The symmetric engines of the cc3xx core and the DMA that feeds them:    *)
(* SHA-256 with its state in registers, AES in the modes ECB and CTR from  *)
(* memory to memory, and CMAC over collected input.                        *)
(*                                                                         *)
(* A byte is a set of terms and exclusive or is symmetric difference, so   *)
(* that two values are equal only if the algorithms make them equal.  The  *)
(* compression function and the block cipher are free constructors: a      *)
(* chaining value is the sequence of the blocks it has absorbed.           *)
(***************************************************************************)
EXTENDS Integers, Sequences

CONSTANTS
  BlockLen,    \* the bytes of a hash block (64)
  LenBytes,    \* the bytes of the length field that ends a message (8)
  AesLen,      \* the bytes of a cipher block (16)
  ChunkLen,    \* DMA_CHUNK_BYTES
  CtrValues,   \* the values of the counter block: 0 .. CtrValues - 1
  Memory,      \* the addresses software uses
  Mappings,    \* the sets of addresses that answer, one at a time
  Sources,     \* the transfers in, as <<address, length>>
  Targets,     \* the transfers out, as <<address, length>>
  Engines,     \* the engines software selects
  Controls,    \* the modes and directions software selects
  Keys,        \* the keys software loads
  Counters,    \* the counter blocks software starts a stream with
  MaxMessage,  \* bound: the bytes of one hashed message
  MaxStream    \* bound: the bytes of one cipher stream or CMAC

ASSUME DmaAssumption ==
  /\ BlockLen \in Nat /\ LenBytes \in 1 .. BlockLen - 1
  /\ AesLen \in Nat \ {0} /\ ChunkLen \in Nat \ {0} /\ ChunkLen % AesLen = 0
  /\ CtrValues \in Nat \ {0} /\ Counters \subseteq 0 .. CtrValues - 1
  /\ Memory \subseteq Nat
  /\ Mappings \subseteq SUBSET Memory /\ Memory \in Mappings
  /\ Sources \cup Targets \subseteq Memory \X Nat
  /\ \A t \in Sources \cup Targets : t[1] .. t[1] + t[2] - 1 \subseteq Memory
  /\ MaxMessage \in Nat /\ MaxStream \in Nat

VARIABLES
  mem,     \* the memory behind the initiator socket
  mapped,  \* the addresses that answer now
  engine,  \* m_engine
  dout,    \* DOUT_DST_LLI_WORD0 and _WORD1
  autoPad, \* AUTO_HW_PADDING
  sha,     \* m_sha256 with the registers HASH_H and HASH_CUR_LEN
  saved,   \* the hash state a driver has read out, or NoState
  aes,     \* the mode, direction, key and counter registers
  cmac,    \* m_cmac_active, m_cmac_data and the tag in AES_IV_0
  asked    \* history: what software has asked for, see below

dmaVars == <<mem, mapped, engine, dout, autoPad, sha, saved, aes, cmac, asked>>

Xor(x, y) == (x \ y) \cup (y \ x)
Plain(a) == {<<"memory", a>>}
NoTransfer == <<0, 0>>
NoState == [h |-> <<>>, len |-> 0, msg |-> <<>>, taken |-> FALSE]
\* msg: the bytes read for the hash; tagged and tagKey: those read for CMAC,
\* and the key it ended with; ctr0, pos: the counter block software loaded
\* and the bytes of the stream done since; last: the last transfer through
\* the cipher, with the input it found.
NoCipher == [ok |-> FALSE, at |-> 0, in |-> <<>>, mode |-> "ECB",
             decrypt |-> FALSE, key |-> 0, ctr0 |-> 0, pos |-> 0]
NothingAsked == [msg |-> <<>>, tagged |-> <<>>, tagKey |-> 0,
                 ctr0 |-> 0, pos |-> 0, last |-> NoCipher]
IdleSha == [h |-> <<>>, block |-> <<>>, bytes |-> 0, active |-> FALSE,
            finalized |-> FALSE, regH |-> <<>>, curLen |-> 0]
NoTag == <<"none">>

AesEngines == {"AES", "AES_AND_HASH", "AES_TO_HASH_AND_DOUT"}

DmaInit ==
  /\ mem = [a \in Memory |-> Plain(a)]
  /\ mapped = Memory
  /\ engine = "NONE" /\ dout = NoTransfer /\ autoPad = FALSE
  /\ sha = IdleSha /\ saved = NoState
  /\ aes = [mode |-> "ECB", decrypt |-> FALSE, key |-> 0, ctr |-> 0]
  /\ cmac = [active |-> FALSE, data |-> <<>>, tag |-> NoTag]
  /\ asked = NothingAsked

-----------------------------------------------------------------------------
(* SHA-256                                                                 *)

Slice(s, from, n) == SubSeq(s, from + 1, from + n)
\* The whole blocks of a string, and what is left over.
Blocks(s, n) == [k \in 1 .. Len(s) \div n |-> Slice(s, (k - 1) * n, n)]
Rest(s, n) == Slice(s, (Len(s) \div n) * n, Len(s) % n)

sha256_reset ==
  [IdleSha EXCEPT !.active = TRUE]

\* Full blocks are compressed, each time with the registers stored.
sha256_update(s, d) ==
  LET buffer == s.block \o d
      h      == s.h \o Blocks(buffer, BlockLen)
  IN  IF ~ s.active \/ s.finalized THEN s
      ELSE [s EXCEPT !.h = h, !.block = Rest(buffer, BlockLen),
                     !.bytes = @ + Len(d), !.curLen = s.bytes + Len(d),
                     !.regH = IF Len(buffer) >= BlockLen THEN h ELSE @]

LenField(n) == [i \in 1 .. LenBytes |-> {<<"length", n, i>>}]
Marked(n) == [i \in 1 .. n |-> IF i = 1 THEN {<<"0x80">>} ELSE {}]

\* Mutant: a message that ends just before the length field gets no block
\* more.
Mut_pad_boundary(s) ==
  LET room == BlockLen - LenBytes
      pad  == IF Len(s.block) <= room THEN room - Len(s.block)
              ELSE room + BlockLen - Len(s.block)
      end  == sha256_update(sha256_update(s, Marked(pad)), LenField(s.bytes))
  IN  IF ~ s.active \/ s.finalized THEN s
      ELSE [end EXCEPT !.regH = end.h, !.curLen = s.bytes, !.finalized = TRUE]

sha256_finish(s) ==
  LET room == BlockLen - LenBytes
      pad  == IF Len(s.block) < room THEN room - Len(s.block)
              ELSE room + BlockLen - Len(s.block)
      end  == sha256_update(sha256_update(s, Marked(pad)), LenField(s.bytes))
  IN  IF ~ s.active \/ s.finalized THEN s
      ELSE [end EXCEPT !.regH = end.h, !.curLen = s.bytes, !.finalized = TRUE]

\* update_hash_after_write of HASH_H and of HASH_CUR_LEN: the registers always,
\* the state only while a hash is running.  The length drops a partial block.
write_HASH_H(s, h) ==
  [s EXCEPT !.regH = h, !.h = IF s.active /\ ~ s.finalized THEN h ELSE @]
write_HASH_CUR_LEN(s, n) ==
  IF s.active /\ ~ s.finalized
  THEN [s EXCEPT !.curLen = n, !.bytes = n, !.block = <<>>]
  ELSE [s EXCEPT !.curLen = n]

-----------------------------------------------------------------------------
(* AES                                                                     *)

\* aes_encrypt_block and aes_decrypt_block: byte i of a block under a key.
aes_block(decrypt, k, b) ==
  [i \in 1 .. AesLen |->
     {<<IF decrypt THEN "decrypted" ELSE "encrypted", k, b, i>>}]
CounterBlock(c) == [i \in 1 .. AesLen |-> {<<"counter", c, i>>}]
\* The counter block after n increments; it wraps.
aes_increment_counter(c, n) == (c + n) % CtrValues

XorBlock(x, y) == [i \in 1 .. AesLen |-> Xor(x[i], y[i])]
ZeroBlock == [i \in 1 .. AesLen |-> {}]
\* K1 and K2 of CMAC are derived from the cipher of the zero block.
SubKey(k, j) == [i \in 1 .. AesLen |->
                   {<<"subkey", j, aes_block(FALSE, k, ZeroBlock), i>>}]

\* The last block is masked with K1 when it is whole, and otherwise marked,
\* filled up and masked with K2; an empty message is one block of mark.
aes_cmac(k, d) ==
  LET count    == IF d = <<>> THEN 1 ELSE (Len(d) + AesLen - 1) \div AesLen
      complete == d # <<>> /\ Len(d) % AesLen = 0
      Part(j)  == [i \in 1 .. AesLen |->
                     LET p == (j - 1) * AesLen + i
                     IN  IF p <= Len(d) THEN d[p]
                         ELSE IF j = count /\ p = Len(d) + 1 THEN {<<"0x80">>}
                         ELSE {}]
      Mask(j)  == IF j < count THEN ZeroBlock
                  ELSE SubKey(k, IF complete THEN 1 ELSE 2)
      state[j \in 0 .. count] ==
        IF j = 0 THEN ZeroBlock
        ELSE aes_block(FALSE, k, XorBlock(XorBlock(Part(j), Mask(j)),
                                          state[j - 1]))
  IN  state[count]

-----------------------------------------------------------------------------
(* Memory                                                                  *)

Span(a, n) == a .. a + n - 1
\* The bytes read chunk by chunk until one fails, and whether all were read.
Chunks(n) == (n + ChunkLen - 1) \div ChunkLen
ChunkSize(n, j) ==
  IF j * ChunkLen <= n THEN ChunkLen ELSE n - (j - 1) * ChunkLen
ChunkAt(a, j) == a + (j - 1) * ChunkLen
mem_read(a, n) ==
  LET bad == {j \in 1 .. Chunks(n) :
                ~ Span(ChunkAt(a, j), ChunkSize(n, j)) \subseteq mapped}
      got == IF bad = {} THEN n
             ELSE ((CHOOSE j \in bad : \A i \in bad : j <= i) - 1) * ChunkLen
  IN  [data |-> [i \in 1 .. got |-> mem[a + i - 1]], ok |-> bad = {}]

\* Byte p of the key stream that starts at counter c.
KeyStream(k, c, p) ==
  LET b == aes_block(FALSE, k, CounterBlock(
                                 aes_increment_counter(c, p \div AesLen)))
  IN  b[(p % AesLen) + 1]

\* Mutant: every chunk starts again from the counter register.
Mut_counter_per_transfer(d, c) ==
  [out |-> [i \in 1 .. Len(d) |-> Xor(d[i], KeyStream(aes.key, aes.ctr, i - 1))],
   ctr |-> aes_increment_counter(c, (Len(d) + AesLen - 1) \div AesLen)]

\* One chunk of input through the cipher, and the counter after it: a block
\* that is used in part counts as used.
aes_ctr_chunk(d, c) ==
  [out |-> [i \in 1 .. Len(d) |-> Xor(d[i], KeyStream(aes.key, c, i - 1))],
   ctr |-> aes_increment_counter(c, (Len(d) + AesLen - 1) \div AesLen)]
aes_ecb_chunk(d, c) ==
  [out |-> [i \in 1 .. Len(d) |->
              LET b == aes_block(aes.decrypt, aes.key,
                         Slice(d, ((i - 1) \div AesLen) * AesLen, AesLen))
              IN  b[((i - 1) % AesLen) + 1]],
   ctr |-> c]

\* A chunk of aes_ctr_xcrypt and aes_ecb_xcrypt: read, transform and write,
\* unless this access or an earlier one fails.
xcrypt_chunk(s, a, d, n, j) ==
  LET len  == ChunkSize(n, j)
      from == ChunkAt(a, j)
      to   == ChunkAt(d, j)
      in   == [i \in 1 .. len |-> s.mem[from + i - 1]]
      done == IF aes.mode = "CTR" THEN aes_ctr_chunk(in, s.ctr)
              ELSE aes_ecb_chunk(in, s.ctr)
  IN  IF ~ s.ok \/ ~ (Span(from, len) \cup Span(to, len)) \subseteq mapped
      THEN [s EXCEPT !.ok = FALSE]
      ELSE [mem |-> [x \in Memory |->
                       IF x \in Span(to, len) THEN done.out[x - to + 1]
                       ELSE s.mem[x]],
            ctr |-> done.ctr, ok |-> TRUE]
xcrypt(a, d, n) ==
  LET after[j \in 0 .. Chunks(n)] ==
        IF j = 0 THEN [mem |-> mem, ctr |-> aes.ctr, ok |-> TRUE]
        ELSE xcrypt_chunk(after[j - 1], a, d, n, j)
  IN  after[Chunks(n)]

-----------------------------------------------------------------------------
(* The handlers of a DMA trigger.  The completion interrupts are raised and *)
(* the busy registers cleared by every trigger, so that they tell nothing  *)
(* apart and are left out.                                                 *)

hash_dma_input(a, n) ==
  LET r == mem_read(a, n)
      s == sha256_update(sha, r.data)
  IN  /\ Len(asked.msg) + n <= MaxMessage
      /\ sha' = IF r.ok /\ autoPad THEN sha256_finish(s) ELSE s
      /\ asked' = [asked EXCEPT !.msg = @ \o r.data]
      /\ UNCHANGED <<mem, aes, cmac>>

\* The counter register is only written back by a transfer that succeeds.
aes_dma_output(a, n) ==
  LET r == xcrypt(a, dout[1], n)
  IN  /\ asked.pos + n <= MaxStream
      /\ mem' = r.mem
      /\ aes' = IF r.ok THEN [aes EXCEPT !.ctr = r.ctr] ELSE aes
      /\ asked' = [asked EXCEPT
           !.pos = IF r.ok /\ aes.mode = "CTR" THEN @ + n ELSE @,
           !.last = [ok |-> r.ok, at |-> dout[1],
                     in |-> [i \in 1 .. n |-> mem[a + i - 1]],
                     mode |-> aes.mode, decrypt |-> aes.decrypt,
                     key |-> aes.key, ctr0 |-> asked.ctr0, pos |-> asked.pos]]
      /\ UNCHANGED <<sha, cmac>>

cmac_dma_input(a, n) ==
  LET r == mem_read(a, n)
  IN  /\ Len(asked.tagged) + n <= MaxStream
      /\ cmac' = [cmac EXCEPT !.data = @ \o r.data]
      /\ asked' = [asked EXCEPT !.tagged = @ \o r.data]
      /\ UNCHANGED <<mem, aes, sha>>

\* Software goes on with a counter stream only from a whole block, has
\* prepared its memory except where the output goes, and has no output start
\* inside its input: a chunk would overwrite what the next one reads.
GoodInput(a, n) ==
  /\ aes.mode = "CTR" => asked.pos % AesLen = 0
  /\ \A x \in Span(a, n) \cup (Memory \ Span(dout[1], n)) : mem[x] = Plain(x)
  /\ dout[1] \notin Span(a, n) \ {a}

Least(x, y) == IF x <= y THEN x ELSE y

\* DIN_SRC_LLI_WORD0, then _WORD1: complete_dma_transfer.
write_DIN_SRC_LLI(a, n) ==
  LET hashes == engine = "HASH" /\ sha.active /\ ~ sha.finalized
      len    == Least(n, dout[2])
      crypts == /\ engine \in AesEngines /\ len # 0
                /\ \/ aes.mode = "CTR"
                   \/ aes.mode = "ECB" /\ len % AesLen = 0
      macs   == cmac.active /\ engine = "AES" /\ aes.mode = "CMAC"
  IN  /\ \/ hashes /\ hash_dma_input(a, n)
         \/ crypts /\ GoodInput(a, len) /\ aes_dma_output(a, len)
         \/ macs /\ cmac_dma_input(a, n)
         \/ /\ ~ hashes /\ ~ crypts /\ ~ macs
            /\ UNCHANGED <<mem, sha, aes, cmac, asked>>
      /\ UNCHANGED <<mapped, engine, dout, autoPad, saved>>

-----------------------------------------------------------------------------
(* The other writes                                                        *)

write_CRYPTO_CTL(e) ==
  /\ engine' = e
  /\ UNCHANGED <<mem, mapped, dout, autoPad, sha, saved, aes, cmac, asked>>

\* DOUT_DST_LLI_WORD0 and _WORD1: a trigger that moves nothing itself.
write_DOUT_DST_LLI(t) ==
  /\ dout' = t
  /\ UNCHANGED <<mem, mapped, engine, autoPad, sha, saved, aes, cmac, asked>>

HashOnly == UNCHANGED <<mem, mapped, engine, dout, aes, cmac>>

write_HASH_CONTROL(sha256) ==
  /\ sha' = IF sha256 THEN sha256_reset
            ELSE [sha EXCEPT !.active = FALSE, !.finalized = FALSE]
  /\ asked' = [asked EXCEPT !.msg = <<>>]
  /\ HashOnly /\ UNCHANGED <<autoPad, saved>>

write_HASH_PAD_CFG ==
  /\ sha' = sha256_finish(sha)
  /\ HashOnly /\ UNCHANGED <<autoPad, saved, asked>>

write_AUTO_HW_PADDING(b) ==
  /\ autoPad' = b
  /\ HashOnly /\ UNCHANGED <<sha, saved, asked>>

\* A driver reads HASH_H and HASH_CUR_LEN between two blocks to go on with
\* this message later.
Save ==
  /\ sha.active /\ ~ sha.finalized /\ sha.curLen % BlockLen = 0
  /\ saved' = [h |-> sha.regH, len |-> sha.curLen, msg |-> asked.msg,
               taken |-> TRUE]
  /\ HashOnly /\ UNCHANGED <<autoPad, sha, asked>>

\* It writes them back, before it has given the hash a byte or while no hash
\* runs.
Restore ==
  /\ saved.taken /\ ~ sha.finalized /\ asked.msg = <<>>
  /\ sha' = write_HASH_CUR_LEN(write_HASH_H(sha, saved.h), saved.len)
  /\ asked' = IF sha.active THEN [asked EXCEPT !.msg = saved.msg] ELSE asked
  /\ HashOnly /\ UNCHANGED <<autoPad, saved>>

AesOnly == UNCHANGED <<mem, mapped, engine, dout, autoPad, sha, saved>>

write_AES_CONTROL(mode, decrypt) ==
  /\ aes' = [aes EXCEPT !.mode = mode, !.decrypt = decrypt]
  /\ AesOnly /\ UNCHANGED <<cmac, asked>>
write_AES_KEY(k) ==
  /\ aes' = [aes EXCEPT !.key = k]
  /\ AesOnly /\ UNCHANGED <<cmac, asked>>
write_AES_CTR(c) ==
  /\ aes' = [aes EXCEPT !.ctr = c]
  /\ asked' = [asked EXCEPT !.ctr0 = c, !.pos = 0]
  /\ AesOnly /\ UNCHANGED cmac

\* cmac_reset
write_AES_CMAC_INIT ==
  /\ cmac' = [cmac EXCEPT !.active = TRUE, !.data = <<>>]
  /\ asked' = [asked EXCEPT !.tagged = <<>>]
  /\ AesOnly /\ UNCHANGED aes

\* AES_REMAINING_BYTES = 0: cmac_finish, with the key of that moment.
write_AES_REMAINING_BYTES ==
  /\ IF cmac.active /\ aes.mode = "CMAC"
     THEN /\ cmac' = [cmac EXCEPT !.tag = aes_cmac(aes.key, cmac.data),
                                  !.active = FALSE]
          /\ asked' = [asked EXCEPT !.tagKey = aes.key]
     ELSE UNCHANGED <<cmac, asked>>
  /\ AesOnly /\ UNCHANGED aes

\* The memory: regions that stop and start to answer, and software that
\* prepares its buffers again.
Remap(m) ==
  /\ mapped' = m
  /\ UNCHANGED <<mem, engine, dout, autoPad, sha, saved, aes, cmac, asked>>
Refill ==
  /\ mem' = [a \in Memory |-> Plain(a)]
  /\ asked' = [asked EXCEPT !.last = NoCipher]
  /\ UNCHANGED <<mapped, engine, dout, autoPad, sha, saved, aes, cmac>>

\* reset_registers; the memory and what the driver has saved stay.
DmaReset ==
  /\ engine' = "NONE" /\ dout' = NoTransfer /\ autoPad' = FALSE
  /\ sha' = IdleSha
  /\ aes' = [mode |-> "ECB", decrypt |-> FALSE, key |-> 0, ctr |-> 0]
  /\ cmac' = [active |-> FALSE, data |-> <<>>, tag |-> NoTag]
  /\ asked' = [NothingAsked EXCEPT !.last = asked.last]
  /\ UNCHANGED <<mem, mapped, saved>>

HashWrite ==
  \/ \E b \in BOOLEAN : write_HASH_CONTROL(b) \/ write_AUTO_HW_PADDING(b)
  \/ write_HASH_PAD_CFG
  \/ Save
  \/ Restore

CipherWrite ==
  \/ \E m \in Controls : write_AES_CONTROL(m[1], m[2])
  \/ \E k \in Keys : write_AES_KEY(k)
  \/ \E c \in Counters : write_AES_CTR(c)
  \/ \E t \in Targets : write_DOUT_DST_LLI(t)
  \/ Refill

MacWrite ==
  \/ \E m \in Controls : write_AES_CONTROL(m[1], m[2])
  \/ \E k \in Keys : write_AES_KEY(k)
  \/ write_AES_CMAC_INIT
  \/ write_AES_REMAINING_BYTES

Transfer ==
  \/ \E e \in Engines : write_CRYPTO_CTL(e)
  \/ \E t \in Sources : write_DIN_SRC_LLI(t[1], t[2])
  \/ \E m \in Mappings : Remap(m)

-----------------------------------------------------------------------------
(* Properties                                                              *)

\* A message as FIPS 180-4 pads it: a mark, the fewest zeros that fill whole
\* blocks, and the length.
Padded(m) ==
  LET zeros == CHOOSE k \in 0 .. BlockLen - 1 :
                 (Len(m) + 1 + k + LenBytes) % BlockLen = 0
  IN  m \o Marked(1 + zeros) \o LenField(Len(m))

\* While a hash runs its state is that of the bytes read so far, and the
\* registers a driver saves agree with it between blocks; once it has ended
\* the registers hold the digest of the whole message.  That holds however
\* the message was cut into transfers, wherever it ended in a block, whether
\* software or the automatic padding ended it, and across a hash that was
\* put aside and resumed.
DigestIsOfMessage ==
  /\ sha.active /\ ~ sha.finalized =>
       /\ sha.h = Blocks(asked.msg, BlockLen)
       /\ sha.block = Rest(asked.msg, BlockLen)
       /\ sha.regH = sha.h /\ sha.curLen = Len(asked.msg)
  /\ sha.finalized =>
       /\ sha.regH = Blocks(Padded(asked.msg), BlockLen)
       /\ sha.curLen = Len(asked.msg)

\* CMAC as RFC 4493 defines it, over the padded message.
Cmac(k, m) ==
  LET whole == m # <<>> /\ Len(m) % AesLen = 0
      text  == IF whole THEN m ELSE m \o Marked(AesLen - (Len(m) % AesLen))
      b     == Blocks(text, AesLen)
      x[j \in 0 .. Len(b)] ==
        IF j = 0 THEN ZeroBlock
        ELSE aes_block(FALSE, k,
               XorBlock(x[j - 1],
                 IF j = Len(b) THEN XorBlock(b[j], SubKey(k, IF whole THEN 1 ELSE 2))
                 ELSE b[j]))
  IN  x[Len(b)]

\* What a transfer through the cipher leaves in memory is its input under
\* the key: in counter mode with the key stream at the place that the bytes
\* have in the whole stream, whatever transfers came before, failed ones and
\* repeated ones among them.  A tag is that of the bytes collected since the
\* start.
CipherIsOfStream ==
  /\ asked.last.ok =>
       LET t == asked.last
       IN  \A i \in 1 .. Len(t.in) :
             mem[t.at + i - 1] =
               IF t.mode = "CTR"
               THEN Xor(t.in[i], KeyStream(t.key, t.ctr0, t.pos + i - 1))
               ELSE LET k == (i - 1) \div AesLen
                    IN  aes_block(t.decrypt, t.key,
                          Blocks(t.in, AesLen)[k + 1])[i - k * AesLen]
  /\ cmac.active => cmac.data = asked.tagged
  /\ ~ cmac.active /\ cmac.tag # NoTag =>
       cmac.tag = Cmac(asked.tagKey, asked.tagged)
=============================================================================
