------------------------------ MODULE Cc3xxPka ------------------------------
(***************************************************************************)
(* The public-key engine of the cc3xx core: an SRAM of words, a map of     *)
(* physical registers into it, the operand lengths, and the opcodes, of    *)
(* which the modular ones take the modulus from register 0 through a       *)
(* cache of its value.                                                     *)
(*                                                                         *)
(* A word has WordBits bits (32 in the code) and an immediate operand      *)
(* ImmBits (5).  An operand is the sequence of its words, least            *)
(* significant first, as in the code.  The two cursors into the SRAM are   *)
(* left out: software can set them, so a data write reaches any word.      *)
(* PKA_STATUS is left out too: it holds the flags of the last operation,   *)
(* which the results below carry.                                          *)
(***************************************************************************)
EXTENDS Integers, Sequences

CONSTANTS
  WordBits,   \* the bits of an SRAM word
  ImmBits,    \* the bits of an immediate operand
  SramWords,  \* PKA_SRAM_WORDS
  Regs,       \* the physical registers in use; register 0 is N
  Sizes,      \* the operand-size identifiers in use
  LenBits,    \* the lengths, in bits, software gives an operand size
  Bases,      \* the addresses registers are mapped to
  Maps,       \* the entries of the map software writes: <<register, base>>
  Layouts,    \* the maps of registers under which software runs opcodes
  Cursors,    \* the words software writes through the write cursor
  Opcodes     \* the opcodes software writes to PKA_OPCODE

\* pka_int(1) << n
Pow2(n) == LET p[k \in 0 .. n] == IF k = 0 THEN 1 ELSE 2 * p[k - 1] IN p[n]

pka_word_modulus(words) == Pow2(words * WordBits)
Radix == Pow2(WordBits)
Word == 0 .. Radix - 1
Addrs == 0 .. SramWords - 1
NBase == 0

Ops == {"NOP", "ADD", "SUB", "MODADD", "MODSUB", "AND", "OR", "XOR", "SHR0",
        "SHR1", "SHL0", "SHL1", "MULLOW", "MULHIGH", "DIV", "MODMUL",
        "MODEXP", "MODINV", "REDUCTION", "OTHER"}
Operand == [imm : {TRUE}, id : 0 .. Pow2(ImmBits) - 1]
             \cup [imm : {FALSE}, id : Regs]
Opcode == [op : Ops, size : Sizes, lhs : Operand, rhs : Operand,
           discard : BOOLEAN, res : Regs]

\* pka_len_words: a length of 0 bits counts as one word.
pka_len_words(bits) ==
  LET words == (bits + WordBits - 1) \div WordBits
  IN  IF bits = 0 THEN 1 ELSE IF words < SramWords THEN words ELSE SramWords

\* No register lies in the words of the longest N.
Apart(b) ==
  \A r \in Regs \ {NBase} : \A x \in LenBits :
    \/ b[NBase] + pka_len_words(x) <= b[r]
    \/ b[r] + pka_len_words(x) <= b[NBase]

ASSUME PkaAssumption ==
  /\ WordBits \in Nat \ {0} /\ ImmBits \in 1 .. WordBits
  /\ SramWords \in Nat \ {0}
  /\ Regs \subseteq Nat /\ NBase \in Regs /\ Sizes # {}
  /\ LenBits \subseteq Nat /\ 0 \in LenBits
  /\ Bases \subseteq Nat /\ 0 \in Bases
  /\ Maps \subseteq Regs \X Bases
  /\ Layouts \subseteq [Regs -> Bases]
  /\ \A b \in Layouts : Apart(b)
  /\ Cursors \subseteq Nat
  /\ Opcodes \subseteq Opcode

VARIABLES
  sram,    \* m_pka_sram
  base,    \* the memory map: where each physical register begins
  len,     \* PKA_L: the length of each operand size, in bits
  cache,   \* m_pka_modulus_cache_valid, _words and the value
  stale    \* history: register 0 was moved by a store that is no word write

pkaVars == <<sram, base, len, cache, stale>>

NoModulus == [valid |-> FALSE, words |-> 0, value |-> 0]

PkaInit ==
  /\ sram = [a \in Addrs |-> 0]
  /\ base = [r \in Regs |-> 0]
  /\ len = [z \in Sizes |-> 0]
  /\ cache = NoModulus
  /\ stale = FALSE

-----------------------------------------------------------------------------
(* Operands and conversions                                                *)

pka_sram_read(a) == IF a \in Addrs THEN sram[a] ELSE 0

\* sign_extend_5, as words: an immediate with its top bit set is negative in
\* the operations that take signed immediates.
Immediate(id, words, signed) ==
  LET neg == signed /\ id >= Pow2(ImmBits - 1)
  IN  [i \in 1 .. words |->
         IF i = 1 THEN (IF neg THEN Radix + id - Pow2(ImmBits) ELSE id)
         ELSE (IF neg THEN Radix - 1 ELSE 0)]

pka_load_operand(o, words, signed) ==
  IF o.imm THEN Immediate(o.id, words, signed)
  ELSE [i \in 1 .. words |-> pka_sram_read(base[o.id] + i - 1)]

\* The number of these digits: a shift and an addition for each of them, the
\* most significant first.
Number(d, radix) ==
  LET v[i \in 0 .. Len(d)] ==
        IF i = 0 THEN 0 ELSE v[i - 1] * radix + d[Len(d) - i + 1]
  IN  v[Len(d)]

pka_words_to_int(d) == Number(d, Radix)

\* The value modulo the width, then word by word.
pka_int_to_words(v, words) ==
  LET rest[i \in 0 .. words] ==
        IF i = 0 THEN v % pka_word_modulus(words) ELSE rest[i - 1] \div Radix
  IN  [i \in 1 .. words |-> rest[i - 1] % Radix]

N(words) == pka_words_to_int(
              pka_load_operand([imm |-> FALSE, id |-> NBase], words, FALSE))

\* Mutant: the cache answers whatever length it was filled for.
Mut_any_length(words) == IF cache.valid THEN cache.value ELSE N(words)

\* pka_modulus_value: the cache answers when it was filled for this length.
pka_modulus_value(words) ==
  IF cache.valid /\ cache.words = words THEN cache.value ELSE N(words)

-----------------------------------------------------------------------------
(* The algorithms                                                          *)

pka_add_words(l, r) ==
  LET c[i \in 0 .. Len(l)] ==
        IF i = 0 THEN 0 ELSE (l[i] + r[i] + c[i - 1]) \div Radix
  IN  [words |-> [i \in 1 .. Len(l) |-> (l[i] + r[i] + c[i - 1]) % Radix],
       carry |-> c[Len(l)] # 0]

pka_sub_words(l, r) ==
  LET b[i \in 0 .. Len(l)] ==
        IF i = 0 THEN 0 ELSE IF l[i] < r[i] + b[i - 1] THEN 1 ELSE 0
  IN  [words |-> [i \in 1 .. Len(l) |-> (l[i] - r[i] - b[i - 1]) % Radix],
       carry |-> b[Len(l)] # 0]

pka_positive_mod(v, m) == IF m <= 0 THEN 0 ELSE v % m

\* Square and multiply, pass by pass: the exponent halves in each, so that e
\* passes are enough, and those after the last change nothing.
PowPass(s, m) ==
  IF s.exp = 0 THEN s
  ELSE [exp |-> s.exp \div 2,
        acc |-> IF s.exp % 2 = 1 THEN (s.acc * s.sq) % m ELSE s.acc,
        sq  |-> (s.sq * s.sq) % m]

pka_pow_mod(b, e, m) ==
  LET first == [exp |-> e, acc |-> 1 % m, sq |-> pka_positive_mod(b, m)]
      pass[i \in 0 .. e] == IF i = 0 THEN first ELSE PowPass(pass[i - 1], m)
  IN  IF m <= 0 THEN 0 ELSE pass[e].acc

\* The extended algorithm of Euclid, whose remainder shrinks in each pass; ok
\* when the value is invertible.
EuclidPass(s) ==
  LET q == s.r \div s.nr
  IN  IF s.nr = 0 THEN s
      ELSE [t |-> s.nt, nt |-> s.t - q * s.nt,
            r |-> s.nr, nr |-> s.r - q * s.nr]

pka_mod_inverse(v, m) ==
  LET first == [t |-> 0, nt |-> 1, r |-> m, nr |-> pka_positive_mod(v, m)]
      pass[i \in 0 .. m] == IF i = 0 THEN first ELSE EuclidPass(pass[i - 1])
      end == pass[m]
  IN  IF m <= 1 THEN [value |-> 0, ok |-> FALSE]
      ELSE IF end.r # 1 THEN [value |-> 0, ok |-> FALSE]
      ELSE [value |-> IF end.t < 0 THEN end.t + m ELSE end.t, ok |-> TRUE]

pka_shift_words(d, amount, left, fill) ==
  LET words == Len(d)
      width == words * WordBits
      v     == pka_words_to_int(d)
      ones  == IF fill THEN Pow2(amount) - 1 ELSE 0
  IN  IF amount >= width
      THEN pka_int_to_words(IF fill THEN pka_word_modulus(words) - 1 ELSE 0,
                            words)
      ELSE pka_int_to_words(
             IF left THEN v * Pow2(amount) + ones
             ELSE v \div Pow2(amount) + ones * Pow2(width - amount), words)

\* A bit of a number, and an operation on words, bit by bit.
Bit(v, k) == (v \div Pow2(k)) % 2
Bitwise(op, x, y) ==
  LET Of(a, b) == CASE op = "AND" -> a * b
                    [] op = "OR"  -> a + b - a * b
                    [] op = "XOR" -> (a + b) % 2
  IN  Number([k \in 1 .. WordBits |-> Of(Bit(x, k - 1), Bit(y, k - 1))], 2)

-----------------------------------------------------------------------------
(* execute_pka_opcode                                                      *)

Words(o) == pka_len_words(len[o.size])
Signed(op) == op \in {"ADD", "SUB", "MODADD", "MODSUB"}
Shifts == {"SHR0", "SHR1", "SHL0", "SHL1"}
UsesModulus(op) ==
  op \in {"MODADD", "MODSUB", "MODMUL", "MODEXP", "MODINV", "REDUCTION"}

\* The result of an operation: its words and the flags; for a division also
\* what goes back to the left operand (None when nothing does).
None == <<>>
Answer(words, flags) == [words |-> words, flags |-> flags, back |-> None]
If(c, f) == IF c THEN {f} ELSE {}

\* The switch over the operation, given the modulus it is to use.
Result(o, m) ==
  LET w  == Words(o)
      lw == pka_load_operand(o.lhs, w, Signed(o.op))
      rw == IF o.op \in Shifts THEN [i \in 1 .. w |-> 0]
            ELSE pka_load_operand(o.rhs, w, Signed(o.op))
      l  == pka_words_to_int(lw)
      r  == pka_words_to_int(rw)
      sum  == pka_add_words(lw, rw)
      diff == pka_sub_words(lw, rw)
      high == (l * r) \div pka_word_modulus(w)
      inv  == pka_mod_inverse(r, m)
      Int2W(v) == pka_int_to_words(v, w)
      NoMod == If(m <= 0, "div_by_zero")
  IN  CASE o.op = "ADD" -> Answer(sum.words, If(sum.carry, "carry"))
        [] o.op = "MODADD" ->
             IF m > 0
             THEN Answer(Int2W(pka_positive_mod(l + r, m)),
                         If(l + r >= m, "carry"))
             ELSE Answer(sum.words, If(sum.carry, "carry"))
        [] o.op = "SUB" ->
             Answer(diff.words, IF diff.carry THEN {"carry", "sign"} ELSE {})
        [] o.op = "MODSUB" ->
             Answer(IF m > 0 THEN Int2W(pka_positive_mod(l - r, m))
                    ELSE diff.words,
                    IF l < r THEN {"carry", "sign"} ELSE {})
        [] o.op \in {"AND", "OR", "XOR"} ->
             Answer([i \in 1 .. w |-> Bitwise(o.op, lw[i], rw[i])], {})
        [] o.op \in Shifts ->
             Answer(pka_shift_words(lw, o.rhs.id + 1, o.op \in {"SHL0", "SHL1"},
                                    o.op \in {"SHR1", "SHL1"}), {})
        [] o.op = "MULLOW" ->
             Answer(Int2W(l * r), If(high # 0, "carry"))
        [] o.op = "MULHIGH" -> Answer(Int2W(high), {})
        [] o.op = "DIV" ->
             IF r = 0
             THEN [words |-> Int2W(0), flags |-> {"div_by_zero"}, back |-> lw]
             ELSE [words |-> Int2W(l \div r), flags |-> {},
                   back |-> Int2W(l % r)]
        [] o.op = "MODMUL" -> Answer(Int2W(pka_positive_mod(l * r, m)), NoMod)
        [] o.op = "MODEXP" -> Answer(Int2W(pka_pow_mod(l, r, m)), NoMod)
        [] o.op = "MODINV" ->
             Answer(Int2W(inv.value), If(~ inv.ok, "div_by_zero"))
        [] o.op = "REDUCTION" -> Answer(Int2W(pka_positive_mod(l, m)), NoMod)
        [] OTHER -> Answer(Int2W(0), {})

\* pka_store_operand on an SRAM and its cache.  The cache is dropped when the
\* words written meet as many words from the start of N.
pka_store_operand(mem, r, d) ==
  LET hit == base[r] < base[NBase] + Len(d) /\ base[NBase] < base[r] + Len(d)
      to  == {a \in Addrs : a \in base[r] .. base[r] + Len(d) - 1}
  IN  [sram  |-> [a \in Addrs |-> IF a \in to THEN d[a - base[r] + 1]
                                  ELSE mem.sram[a]],
       cache |-> IF hit /\ to # {} THEN NoModulus ELSE mem.cache]

StoreIf(c, mem, r, d) == IF c THEN pka_store_operand(mem, r, d) ELSE mem

\* A write of PKA_OPCODE.  An operation the engine does not know stores
\* nothing.
execute_pka_opcode(o) ==
  LET w   == Words(o)
      m   == pka_modulus_value(w)
      res == Result(o, m)
      mem == [sram |-> sram,
              cache |-> IF UsesModulus(o.op)
                        THEN [valid |-> TRUE, words |-> w, value |-> m]
                        ELSE cache]
      div == StoreIf(res.back # None /\ ~ o.lhs.imm, mem, o.lhs.id, res.back)
      end == StoreIf(~ o.discard /\ o.op \notin {"NOP", "OTHER"}, div,
                     o.res, res.words)
  IN  /\ sram' = end.sram
      /\ cache' = end.cache
      /\ stale' = (stale /\ end.cache = cache)
      /\ UNCHANGED <<base, len>>

-----------------------------------------------------------------------------
(* The other writes                                                        *)

\* PKA_SRAM_ADDR and PKA_SRAM_WDATA: a word past the end is dropped, and only
\* a word that is stored drops the cache.
write_PKA_SRAM_WDATA(a, v) ==
  /\ sram' = IF a \in Addrs THEN [sram EXCEPT ![a] = v] ELSE sram
  /\ cache' = IF a \in Addrs THEN NoModulus ELSE cache
  /\ stale' = (stale /\ a \notin Addrs)
  /\ UNCHANGED <<base, len>>

write_PKA_SW_RESET ==
  /\ sram' = [a \in Addrs |-> 0]
  /\ cache' = NoModulus
  /\ stale' = FALSE
  /\ UNCHANGED <<base, len>>

\* A word write of the memory map; the entry of N drops the cache.
write_map(r, b) ==
  /\ base' = [base EXCEPT ![r] = b]
  /\ cache' = IF r = NBase THEN NoModulus ELSE cache
  /\ stale' = (stale /\ r # NBase)
  /\ UNCHANGED <<sram, len>>

\* A store of any other size is copied into the registers and does nothing
\* else.
store_map(r, b) ==
  /\ base' = [base EXCEPT ![r] = b]
  /\ stale' = (stale \/ (r = NBase /\ b # base[r] /\ cache.valid))
  /\ UNCHANGED <<sram, len, cache>>

write_PKA_L(z, b) ==
  /\ len' = [len EXCEPT ![z] = b]
  /\ UNCHANGED <<sram, base, cache, stale>>

\* reset_registers
PkaReset ==
  /\ sram' = [a \in Addrs |-> 0]
  /\ base' = [r \in Regs |-> 0]
  /\ len' = [z \in Sizes |-> 0]
  /\ cache' = NoModulus
  /\ stale' = FALSE

\* Software lays the registers out before it computes with them.
RunOpcode == base \in Layouts /\ \E o \in Opcodes : execute_pka_opcode(o)

PkaWrite ==
  \/ RunOpcode
  \/ \E a \in Cursors, v \in Word : write_PKA_SRAM_WDATA(a, v)
  \/ write_PKA_SW_RESET
  \/ \E m \in Maps : write_map(m[1], m[2]) \/ store_map(m[1], m[2])
  \/ \E z \in Sizes, b \in LenBits : write_PKA_L(z, b)

-----------------------------------------------------------------------------
(* Properties                                                              *)

\* What each operation is meant to compute: arithmetic on the numbers that
\* the registers hold now, modulo the N that the SRAM holds now.
Product(b, e, n) ==
  LET p[k \in 0 .. e] == IF k = 0 THEN 1 % n ELSE (p[k - 1] * b) % n IN p[e]
Inverses(v, n) == {x \in 1 .. n - 1 : (x * v) % n = 1}
Shifted(v, width, left, fill, amount) ==
  Number([k \in 1 .. width |->
            LET from == IF left THEN k - amount ELSE k + amount
            IN  IF from \in 1 .. width THEN Bit(v, from - 1)
                ELSE IF fill THEN 1 ELSE 0], 2)

Meaning(o) ==
  LET w == Words(o)
      M == pka_word_modulus(w)
      l == pka_words_to_int(pka_load_operand(o.lhs, w, Signed(o.op)))
      r == pka_words_to_int(pka_load_operand(o.rhs, w, Signed(o.op)))
      n == N(w)
      A(v, flags) == [value |-> v, flags |-> flags, back |-> l]
      Borrow == IF l < r THEN {"carry", "sign"} ELSE {}
      ZeroN == If(n = 0, "div_by_zero")
      Mod(v) == IF n = 0 THEN 0 ELSE v % n
  IN  CASE o.op = "ADD" -> A((l + r) % M, If(l + r >= M, "carry"))
        [] o.op = "MODADD" ->
             IF n = 0 THEN A((l + r) % M, If(l + r >= M, "carry"))
             ELSE A((l + r) % n, If(l + r >= n, "carry"))
        [] o.op = "SUB" -> A((l - r) % M, Borrow)
        [] o.op = "MODSUB" -> A((l - r) % (IF n = 0 THEN M ELSE n), Borrow)
        [] o.op \in Shifts ->
             A(Shifted(l, w * WordBits, o.op \in {"SHL0", "SHL1"},
                       o.op \in {"SHR1", "SHL1"}, o.rhs.id + 1), {})
        [] o.op = "MULLOW" -> A((l * r) % M, If(l * r >= M, "carry"))
        [] o.op = "MULHIGH" -> A((l * r) \div M, {})
        [] o.op = "DIV" ->
             IF r = 0 THEN A(0, {"div_by_zero"})
             ELSE [value |-> l \div r, flags |-> {}, back |-> l % r]
        [] o.op = "MODMUL" -> A(Mod(l * r), ZeroN)
        [] o.op = "MODEXP" -> A(IF n = 0 THEN 0 ELSE Product(l, r, n), ZeroN)
        [] o.op = "MODINV" ->
             IF Inverses(r, n) = {} THEN A(0, {"div_by_zero"})
             ELSE A(CHOOSE x \in Inverses(r, n) : TRUE, {})
        [] o.op = "REDUCTION" -> A(Mod(l), ZeroN)
        [] OTHER -> A(0, {})

\* The modulus that the next opcode would take, from the cache or not, is the
\* number that N holds now in as many words: after opcodes of other lengths,
\* results stored over N, host writes, and registers that were moved.
ModulusIsCurrent ==
  ~ stale /\ base \in Layouts =>
    \A o \in Opcodes : pka_modulus_value(Words(o)) = N(Words(o))

\* Every opcode software could write next computes what it is meant to: the
\* carry chains, square-and-multiply and Euclid's algorithm are right, and
\* above all the cached modulus is the one in the SRAM, after any mixture of
\* opcodes, host writes, new lengths and moved registers.
OpcodeComputes ==
  ~ stale /\ base \in Layouts =>
    \A o \in {x \in Opcodes : x.op \notin {"AND", "OR", "XOR"}} :
      LET res  == Result(o, pka_modulus_value(Words(o)))
          want == Meaning(o)
      IN  /\ pka_words_to_int(res.words) = want.value
          /\ res.flags = want.flags
          /\ res.back # None => pka_words_to_int(res.back) = want.back
=============================================================================
