------------------------------- MODULE RseAtu -------------------------------
(***************************************************************************)
(* The address translation unit rse_atu: a table of regions that software  *)
(* programs word by word, the translation of the accesses that go through  *)
(* it, and the DMI pointers it hands to the initiators in front of it.     *)
(*                                                                         *)
(* A pointer lets an initiator reach memory without asking again, so that  *)
(* it must never outlive the table it was computed from, nor what the      *)
(* memory behind the unit (external) said when it was given.               *)
(*                                                                         *)
(* The 64-bit bus is 0 .. Space - 1 and a register word is 0 .. Word - 1   *)
(* with Space = Word * Word.  ATUBC is read-only to word accesses: its     *)
(* page size and region count are constants.                               *)
(***************************************************************************)
EXTENDS Integers, FiniteSets

CONSTANTS
  Word,          \* 2^32
  PageSize,      \* 2^ATUBC.PS
  Count,         \* supported_region_count: 2^ATUBC.RC, at most 32
  Permitted,     \* p_permitted_security_domains
  Words,         \* per region and register, what software writes to it
  Memories,      \* the memory maps that may be behind the unit
  Addresses,     \* addresses and lengths of the requests
  Lengths,
  EnableDmi,     \* p_enable_dmi
  MaxGrants      \* bound: the ranges that initiators hold at a time

Space == Word * Word
Top == Space - 1
Regions == 0 .. Count - 1

\* The six register arrays.  Of ATUROBA, the two fields that are decoded.
Fields == {"rsla", "rela", "rav_l", "rav_m", "roba", "rgpv"}
Roba == [nse : 0 .. 3, prot1 : 0 .. 3]
Zero == [nse |-> 0, prot1 |-> 0]
Entry == [rsla : 0 .. Word - 1, rela : 0 .. Word - 1, rav_l : 0 .. Word - 1,
          rav_m : 0 .. Word - 1, roba : Roba, rgpv : 0 .. Word - 1]

\* A range of bus addresses and where its first byte is in the host.
Range == [lo : 0 .. Top, hi : 0 .. Top, host : Nat]

ASSUME ConstAssumption ==
  /\ Word \in Nat \ {0}
  /\ PageSize \in Nat \ {0}
  /\ Count \in Nat \ {0}
  /\ Permitted \subseteq 0 .. 3
  /\ \A r \in Regions :
       /\ \A f \in Fields \ {"roba"} : Words[r][f] \subseteq 0 .. Word - 1
       /\ Words[r]["roba"] \subseteq Roba
  /\ Memories \subseteq SUBSET Range
  /\ Addresses \subseteq 0 .. Top
  /\ Lengths \subseteq Nat
  /\ EnableDmi \in BOOLEAN
  /\ MaxGrants \in Nat

VARIABLES
  table,    \* the six registers of every region
  atuc,     \* ATUC: the enabled regions
  atuis,    \* ATUIS.MISMATCH_ERROR
  atuma,    \* ATUMA: the address of the last mismatch, truncated to a word
  memory,   \* the memory behind the unit
  grants,   \* the DMI ranges that initiators hold
  stale     \* history: the mapping was stored to without an invalidation

vars == <<table, atuc, atuis, atuma, memory, grants, stale>>

-----------------------------------------------------------------------------
(* The table of regions.                                                   *)

region_configured(r) ==
  \/ table[r].roba # Zero
  \/ \E f \in Fields \ {"roba"} : table[r][f] # 0

Start(r) == table[r].rsla * PageSize
End(r) == (table[r].rela + 1) * PageSize      \* the first address behind it
Contains(r, a) == Start(r) <= a /\ a < End(r)

\* The offset in bytes, a two's complement number of the width of the bus.
region_offset_pages(r) == table[r].rav_m * Word + table[r].rav_l
Offset(r) == region_offset_pages(r) * PageSize
Delta(o) == Space - o
offset_is_negative(o) == 2 * o >= Space

\* apply_region_offset: whether it succeeds, and what it returns.
Applies(a, o) ==
  IF offset_is_negative(o) THEN Delta(o) <= a ELSE a <= Top - o
Physical(a, o) == IF offset_is_negative(o) THEN a - Delta(o) ELSE a + o

\* A field of ATUROBA passes the bit through as 0, sets it to 0 or 1, or is
\* reserved.
RobaBit(f) == IF f = 3 THEN 1 ELSE 0
region_security_allowed(r) ==
  LET q == table[r].roba
  IN  /\ q.nse # 1 /\ q.prot1 # 1
      /\ 2 * RobaBit(q.nse) + RobaBit(q.prot1) \in Permitted

\* The regions translate_range does not pass over; it takes the first.
Hits(r, a, len) ==
  /\ region_configured(r) /\ r \in atuc
  /\ Contains(r, a)
  /\ (IF len = 0 THEN 1 ELSE len) <= End(r) - a

\* Region r carries address a: no overflow, and the output is permitted.
Carries(r, a) ==
  /\ Offset(r) <= Top
  /\ Applies(a, Offset(r))
  /\ region_security_allowed(r)

translate_range(r, a, len) ==
  /\ Hits(r, a, len) /\ \A q \in Regions : Hits(q, a, len) => r <= q
  /\ Carries(r, a)

-----------------------------------------------------------------------------
(* Register writes.  Only aligned words go through write32.                *)

invalidate_translation_dmi ==
  IF EnableDmi THEN grants' = {} /\ stale' = FALSE ELSE UNCHANGED <<grants, stale>>

WriteRegion(r, f, v) ==
  /\ table' = [table EXCEPT ![r] = [@ EXCEPT ![f] = v]]
  /\ invalidate_translation_dmi
  /\ UNCHANGED <<atuc, atuis, atuma, memory>>

WriteAtuc(s) ==
  /\ atuc' = s
  /\ invalidate_translation_dmi
  /\ UNCHANGED <<table, atuis, atuma, memory>>

\* Write one to clear.  ATUBC, ATUIS and ATUMA ignore words, and nothing
\* reads ATUIE or what is stored at ATUIC.
WriteAtuic ==
  /\ atuis' = FALSE
  /\ UNCHANGED <<table, atuc, atuma, memory, grants, stale>>

\* access: any other size or alignment is copied into the register file as it
\* is, with no invalidation; two words reach the next region too.
StoreRegion(r, f, v) ==
  /\ \E s \in {{r}, {r, r + 1} \cap Regions} :
       table' = [q \in Regions |->
                   IF q \in s THEN [table[q] EXCEPT ![f] = v] ELSE table[q]]
  /\ stale' = (grants # {})
  /\ UNCHANGED <<atuc, atuis, atuma, memory, grants>>

StoreAtuc(s) ==
  /\ atuc' = s
  /\ stale' = (grants # {})
  /\ UNCHANGED <<table, atuis, atuma, memory, grants>>

\* ATUIS and ATUMA are writable this way, each alone or with its neighbour.
StoreStatus(a) ==
  /\ \/ atuis' \in BOOLEAN /\ atuma' = atuma
     \/ atuma' = a % Word /\ atuis' = atuis
  /\ UNCHANGED <<table, atuc, memory, grants, stale>>

-----------------------------------------------------------------------------
(* Accesses through the unit.                                              *)

latch_translation_fault(a) ==
  /\ atuis' = TRUE
  /\ atuma' = a % Word
  /\ UNCHANGED <<table, atuc, memory, grants, stale>>

\* A debug access takes the same path.  An access without data is refused
\* before the table is searched.
forward_translation(a, len) ==
  IF len = 0 \/ \E r \in Regions : translate_range(r, a, len)
  THEN UNCHANGED vars
  ELSE latch_translation_fault(a)

\* What the range d of the memory is in front of the unit, under offset o.
InvertedLo(d, o) ==
  IF offset_is_negative(o) THEN d.lo + Delta(o)
  ELSE IF d.lo < o THEN 0 ELSE d.lo - o
InvertedHi(d, o) ==
  IF offset_is_negative(o)
  THEN IF d.hi > Top - Delta(o) THEN Top ELSE d.hi + Delta(o)
  ELSE d.hi - o
Invertible(d, o) ==
  /\ IF offset_is_negative(o) THEN d.lo <= Top - Delta(o) ELSE d.hi >= o
  /\ InvertedLo(d, o) <= InvertedHi(d, o)

\* The range granted in region r, when the memory granted d for the request.
ClampUnclamped(r, d) ==              \* Mutant: not cut to the region.
  [lo |-> InvertedLo(d, Offset(r)), hi |-> InvertedHi(d, Offset(r))]
Clamp(r, d) ==
  LET lo == InvertedLo(d, Offset(r))
      hi == InvertedHi(d, Offset(r))
  IN  [lo |-> IF lo >= Start(r) THEN lo ELSE Start(r),
       hi |-> IF hi <= End(r) - 1 THEN hi ELSE End(r) - 1]

range_end(a, len) ==
  IF len = 0 THEN a ELSE IF a > Top - (len - 1) THEN Top ELSE a + len - 1

\* A grant of the region's translation r for the request a, len, by way of
\* the range d that the memory granted.  The host pointer moves with the start.
Grant(r, d, a, len) ==
  LET o == Offset(r)
      c == Clamp(r, d)
      p == Physical(c.lo, o)
  IN  /\ Invertible(d, o)
      /\ c.lo <= c.hi /\ c.lo <= a /\ range_end(a, len) <= c.hi
      /\ Applies(c.lo, o)
      /\ d.lo <= p
      /\ grants' = grants \cup {[lo |-> c.lo, hi |-> c.hi, host |-> d.host + (p - d.lo)]}

\* A refused request changes nothing, and latches nothing.
translation_get_direct_mem_ptr(a, len) ==
  /\ EnableDmi
  /\ Cardinality(grants) < MaxGrants
  /\ \E r \in Regions :
       /\ translate_range(r, a, len)
       /\ \E d \in memory :
            /\ d.lo <= Physical(a, Offset(r)) /\ Physical(a, Offset(r)) <= d.hi
            /\ Grant(r, d, a, len)
  /\ UNCHANGED <<table, atuc, atuis, atuma, memory, stale>>

\* The memory changes and says so; the unit drops every grant, whatever the
\* range it was told.
invalidate_direct_mem_ptr ==
  /\ memory' \in Memories
  /\ invalidate_translation_dmi
  /\ UNCHANGED <<table, atuc, atuis, atuma>>

-----------------------------------------------------------------------------
Init ==
  /\ table = [r \in Regions |-> [rsla |-> 0, rela |-> 0, rav_l |-> 0,
                                 rav_m |-> 0, roba |-> Zero, rgpv |-> 0]]
  /\ atuc = {}
  /\ atuis = FALSE
  /\ atuma = 0
  /\ memory \in Memories
  /\ grants = {}
  /\ stale = FALSE

Registers ==
  \/ \E r \in Regions, f \in Fields : \E v \in Words[r][f] :
       WriteRegion(r, f, v) \/ StoreRegion(r, f, v)
  \/ \E s \in SUBSET Regions : WriteAtuc(s) \/ StoreAtuc(s)
  \/ WriteAtuic
  \/ \E a \in Addresses : StoreStatus(a)

Bus ==
  \/ \E a \in Addresses, len \in Lengths :
       forward_translation(a, len) \/ translation_get_direct_mem_ptr(a, len)
  \/ invalidate_direct_mem_ptr

Next == Registers \/ Bus

Spec == Init /\ [][Next]_vars

-----------------------------------------------------------------------------
TypeOK ==
  /\ table \in [Regions -> Entry]
  /\ atuc \subseteq Regions
  /\ atuis \in BOOLEAN
  /\ atuma \in 0 .. Word - 1
  /\ memory \in Memories
  /\ grants \subseteq [lo : Nat, hi : Nat, host : Nat]
  /\ stale \in BOOLEAN

\* Address x of grant g is the byte that region r takes it to.
Backs(r, g, x) ==
  /\ Hits(r, x, 1) /\ Carries(r, x)
  /\ \E d \in memory :
       LET p == Physical(x, Offset(r))
       IN  d.lo <= p /\ p <= d.hi /\ g.host + (x - g.lo) = d.host + (p - d.lo)

\* Every byte of a DMI range that an initiator holds is where the present
\* table and the present memory put it: some enabled region that may use its
\* output takes the address to that very byte, and if no other enabled region
\* contains the address then this is what an access would reach.  Only a
\* store that is not an aligned word breaks it, until the next invalidation
\* (translation_get_direct_mem_ptr, write32, invalidate_translation_dmi).
DmiAgrees ==
  ~stale =>
    \A g \in grants : \A x \in g.lo .. g.hi :
      \E r \in Regions :
        /\ Backs(r, g, x)
        /\ (\A q \in Regions : Hits(q, x, 1) => q = r) => translate_range(r, x, 1)

=============================================================================
