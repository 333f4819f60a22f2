---------------------------- MODULE RseAtuProofs ----------------------------
(***************************************************************************)
(* Proofs about RseAtu, for every width of the bus, page size, number of   *)
(* regions, memory and order of requests.                                  *)
(***************************************************************************)
EXTENDS RseAtu, TLAPS

\* Every byte of a grant is backed by some region, whatever the overlaps.
Backed ==
  ~stale => \A g \in grants : \A x \in g.lo .. g.hi : \E r \in Regions : Backs(r, g, x)

\* invalidate_translation_dmi does nothing when DMI is off, as nothing was given.
NoneWithoutDmi == EnableDmi \/ grants = {}

IInv == TypeOK /\ Backed /\ NoneWithoutDmi

-----------------------------------------------------------------------------
LEMMA ProductIsNat == ASSUME NEW m \in Nat, NEW n \in Nat PROVE m * n \in Nat
  OBVIOUS

\* The quantities that translate_range and the DMI path compute are numbers.
LEMMA NumberType ==
  ASSUME TypeOK, NEW r \in Regions
  PROVE  /\ Space \in Nat /\ Top \in Int
         /\ Start(r) \in Nat /\ End(r) \in Nat /\ Offset(r) \in Nat
  <1>1. table[r] \in Entry  BY DEF TypeOK
  <1>2. /\ Word \in Nat /\ PageSize \in Nat /\ table[r].rsla \in Nat
        /\ table[r].rela + 1 \in Nat /\ table[r].rav_m \in Nat
        /\ table[r].rav_l \in Nat
    BY <1>1, ConstAssumption DEF Entry
  <1>3. Space \in Nat  BY <1>2, ProductIsNat DEF Space
  <1>4. Top \in Int  BY <1>3 DEF Top
  <1>5. Start(r) \in Nat /\ End(r) \in Nat  BY <1>2, ProductIsNat DEF Start, End
  <1>6. table[r].rav_m * Word \in Nat  BY <1>2, ProductIsNat
  <1>7. region_offset_pages(r) \in Nat  BY <1>2, <1>6 DEF region_offset_pages
  <1>8. Offset(r) \in Nat  BY <1>2, <1>7, ProductIsNat DEF Offset
  <1> QED  BY <1>3, <1>4, <1>5, <1>8

\* A register keeps its type whichever word software writes to it.
LEMMA EntryType ==
  ASSUME NEW e \in Entry, NEW r \in Regions, NEW f \in Fields, NEW v \in Words[r][f]
  PROVE  [e EXCEPT ![f] = v] \in Entry
  <1>1. CASE f = "roba"  BY <1>1, ConstAssumption DEF Entry
  <1>2. CASE f # "roba"
    <2>1. v \in 0 .. Word - 1  BY <1>2, ConstAssumption
    <2> QED  BY <1>2, <2>1 DEF Entry, Fields
  <1> QED  BY <1>1, <1>2

\* Inverting the offset over the memory's range and cutting to the region
\* leaves addresses that the offset takes into the memory's range, and the
\* host pointer moves with the start of the range.
LEMMA GrantReaches ==
  ASSUME NEW o \in Nat, o <= Top, Space \in Nat, NEW d \in Range,
         NEW lo \in Nat, NEW hi \in Int, NEW x \in lo .. hi,
         InvertedLo(d, o) <= lo, hi <= InvertedHi(d, o),
         Invertible(d, o), Applies(lo, o), d.lo <= Physical(lo, o)
  PROVE  /\ Applies(x, o)
         /\ Physical(x, o) \in Int
         /\ d.lo <= Physical(x, o) /\ Physical(x, o) <= d.hi
         /\ (d.host + (Physical(lo, o) - d.lo)) + (x - lo) = d.host + (Physical(x, o) - d.lo)
         /\ d.host + (Physical(lo, o) - d.lo) \in Nat
  <1>1. /\ d.lo \in Int /\ d.hi \in Int /\ d.host \in Nat /\ d.hi <= Top /\ 0 <= d.lo
        /\ Top \in Int
    BY DEF Range, Top
  <1>2. CASE offset_is_negative(o)
    BY <1>1, <1>2 DEF InvertedLo, InvertedHi, Applies, Physical, Delta, Top, Invertible
  <1>3. CASE ~offset_is_negative(o)
    BY <1>1, <1>3 DEF InvertedLo, InvertedHi, Applies, Physical, Delta, Top, Invertible
  <1> QED  BY <1>2, <1>3

-----------------------------------------------------------------------------
LEMMA InitIInv == Init => IInv
  <1> SUFFICES ASSUME Init PROVE IInv  OBVIOUS
  <1>1. Word \in Nat \ {0}  BY ConstAssumption
  <1>2. table \in [Regions -> Entry]
    BY <1>1 DEF Init, Entry, Zero, Roba
  <1>3. TypeOK
    <2>1. atuma \in 0 .. Word - 1  BY <1>1 DEF Init
    <2>2. atuis \in BOOLEAN /\ stale \in BOOLEAN  BY DEF Init
    <2>3. /\ atuc \subseteq Regions /\ memory \in Memories
          /\ grants \subseteq [lo : Nat, hi : Nat, host : Nat]
      BY DEF Init
    <2> QED  BY <1>2, <2>1, <2>2, <2>3 DEF TypeOK
  <1>4. Backed /\ NoneWithoutDmi  BY DEF Init, Backed, NoneWithoutDmi
  <1> QED  BY <1>3, <1>4 DEF IInv

\* The invariant survives what leaves the mapping and the grants alone.
LEMMA SameMapping ==
  ASSUME IInv, UNCHANGED <<table, atuc, memory, grants, stale>>
  PROVE  Backed' /\ NoneWithoutDmi'
  BY DEF IInv, Backed, NoneWithoutDmi, Backs, Hits, Carries, Contains, Start, End,
     Offset, region_offset_pages, region_configured, region_security_allowed

\* It survives what drops the grants, and what marks them as stale.
LEMMA Dropped ==
  ASSUME IInv, invalidate_translation_dmi
  PROVE  /\ Backed' /\ NoneWithoutDmi' /\ grants' \subseteq grants /\ stale' \in BOOLEAN
         /\ grants' = {}
  BY DEF IInv, Backed, NoneWithoutDmi, invalidate_translation_dmi, TypeOK

LEMMA Marked ==
  ASSUME IInv, stale' = (grants # {}), grants' = grants
  PROVE  Backed' /\ NoneWithoutDmi'
  BY DEF IInv, Backed, NoneWithoutDmi

-----------------------------------------------------------------------------
LEMMA GrantStep ==
  ASSUME IInv, NEW a \in Addresses, NEW len \in Lengths,
         translation_get_direct_mem_ptr(a, len)
  PROVE  IInv'
  <1>1. PICK r \in Regions, d \in memory :
          translate_range(r, a, len) /\ Grant(r, d, a, len)
    BY DEF translation_get_direct_mem_ptr
  <1> DEFINE o == Offset(r)
             c == Clamp(r, d)
             p == Physical(c.lo, o)
             new == [lo |-> c.lo, hi |-> c.hi, host |-> d.host + (p - d.lo)]
  <1>u. UNCHANGED <<table, atuc, atuis, atuma, memory, stale>> /\ EnableDmi
    BY DEF translation_get_direct_mem_ptr
  <1>g. /\ grants' = grants \cup {new}
        /\ Invertible(d, o) /\ c.lo <= c.hi /\ Applies(c.lo, o) /\ d.lo <= p
    BY <1>1 DEF Grant
  <1>t. TypeOK  BY DEF IInv
  <1>d. d \in Range  BY <1>t, ConstAssumption DEF TypeOK
  <1>n. /\ Space \in Nat /\ Top \in Int
        /\ Start(r) \in Nat /\ End(r) \in Nat /\ o \in Nat
    BY <1>t, NumberType
  <1>h. /\ region_configured(r) /\ r \in atuc /\ o <= Top /\ region_security_allowed(r)
    BY <1>1 DEF translate_range, Hits, Carries
  <1>i. InvertedLo(d, o) \in Int /\ InvertedHi(d, o) \in Int
    BY <1>d, <1>n DEF InvertedLo, InvertedHi, Range, Delta, Top
  <1>c. /\ c.lo \in Nat /\ c.hi \in Int
        /\ InvertedLo(d, o) <= c.lo /\ c.hi <= InvertedHi(d, o)
        /\ Start(r) <= c.lo /\ c.hi < End(r)
    BY <1>i, <1>n DEF Clamp
  <1> HIDE DEF c
  <1>2. ASSUME NEW x \in c.lo .. c.hi
        PROVE  /\ Applies(x, o)
               /\ d.lo <= Physical(x, o) /\ Physical(x, o) <= d.hi
               /\ new.host + (x - new.lo) = d.host + (Physical(x, o) - d.lo)
               /\ new.host \in Nat
    <2> HIDE DEF o
    <2>1. /\ Applies(x, o)
          /\ d.lo <= Physical(x, o) /\ Physical(x, o) <= d.hi
          /\ (d.host + (p - d.lo)) + (x - c.lo) = d.host + (Physical(x, o) - d.lo)
          /\ d.host + (p - d.lo) \in Nat
      BY <1>c, <1>d, <1>g, <1>h, <1>n, GrantReaches
    <2> QED  BY <2>1
  <1>3. new \in [lo : Nat, hi : Nat, host : Nat]
    <2>1. c.lo \in c.lo .. c.hi /\ c.hi \in Nat  BY <1>c, <1>g
    <2>2. new.host \in Nat  BY <1>2, <2>1
    <2> QED  BY <1>c, <2>1, <2>2
  <1>4. ASSUME NEW x \in c.lo .. c.hi PROVE Backs(r, new, x)
    <2>1. x \in Int /\ Start(r) <= x /\ x < End(r)  BY <1>c, <1>n
    <2>2. Hits(r, x, 1)  BY <1>h, <1>n, <2>1 DEF Hits, Contains
    <2>3. Carries(r, x)  BY <1>h, <1>2 DEF Carries
    <2> HIDE DEF new
    <2> QED  BY <1>2, <2>2, <2>3 DEF Backs
  <1> HIDE DEF new
  <1>5. TypeOK'  BY <1>t, <1>u, <1>g, <1>3 DEF TypeOK
  <1>6. ~stale => \A g \in grants' : \A x \in g.lo .. g.hi : \E q \in Regions : Backs(q, g, x)
    <2> SUFFICES ASSUME ~stale, NEW g \in grants', NEW x \in g.lo .. g.hi
                 PROVE  \E q \in Regions : Backs(q, g, x)
      OBVIOUS
    <2>1. CASE g \in grants  BY <2>1 DEF IInv, Backed
    <2>2. CASE g = new
      <3>1. new.lo = c.lo /\ new.hi = c.hi  BY DEF new
      <3> QED  BY <1>4, <2>2, <3>1
    <2> QED  BY <1>g, <2>1, <2>2
  <1>7. \A q, g, x : Backs(q, g, x)' = Backs(q, g, x)
    BY <1>u DEF Backs, Hits, Carries, Contains, Start, End,
       Offset, region_offset_pages, region_configured, region_security_allowed
  <1>8. Backed'  BY <1>6, <1>7, <1>u DEF Backed
  <1> QED  BY <1>5, <1>8, <1>u DEF IInv, NoneWithoutDmi

LEMMA NextIInv == IInv /\ [Next]_vars => IInv'
  <1> SUFFICES ASSUME IInv, [Next]_vars PROVE IInv'  OBVIOUS
  <1>t. TypeOK  BY DEF IInv
  <1>w. \A a \in Addresses : a % Word \in 0 .. Word - 1
    <2>1. Word \in Nat \ {0}  BY ConstAssumption
    <2>2. \A a \in Addresses : a \in Int
      BY ConstAssumption
    <2> QED  BY <2>1, <2>2
  <1>1. ASSUME NEW r \in Regions, NEW f \in Fields, NEW v \in Words[r][f],
               WriteRegion(r, f, v)
        PROVE  IInv'
    <2>1. table' \in [Regions -> Entry]
      BY <1>t, <1>1, EntryType DEF WriteRegion, TypeOK
    <2>2. invalidate_translation_dmi  BY <1>1 DEF WriteRegion
    <2> QED  BY <1>t, <1>1, <2>1, <2>2, Dropped DEF WriteRegion, TypeOK, IInv
  <1>2. ASSUME NEW r \in Regions, NEW f \in Fields, NEW v \in Words[r][f],
               StoreRegion(r, f, v)
        PROVE  IInv'
    <2>1. table' \in [Regions -> Entry]
      BY <1>t, <1>2, EntryType DEF StoreRegion, TypeOK
    <2> QED  BY <1>t, <1>2, <2>1, Marked DEF StoreRegion, TypeOK, IInv
  <1>3. ASSUME NEW s \in SUBSET Regions, WriteAtuc(s) PROVE IInv'
    BY <1>t, <1>3, Dropped DEF WriteAtuc, TypeOK, IInv
  <1>4. ASSUME NEW s \in SUBSET Regions, StoreAtuc(s) PROVE IInv'
    BY <1>t, <1>4, Marked DEF StoreAtuc, TypeOK, IInv
  <1>5. ASSUME WriteAtuic PROVE IInv'
    BY <1>t, <1>5, SameMapping DEF WriteAtuic, TypeOK, IInv
  <1>6. ASSUME NEW a \in Addresses, StoreStatus(a) PROVE IInv'
    BY <1>t, <1>6, <1>w, SameMapping DEF StoreStatus, TypeOK, IInv
  <1>7. ASSUME UNCHANGED vars PROVE IInv'
    BY <1>t, <1>7, SameMapping DEF vars, TypeOK, IInv
  <1>8. ASSUME NEW a \in Addresses, NEW len \in Lengths, forward_translation(a, len)
        PROVE  IInv'
    <2>1. CASE UNCHANGED vars  BY <2>1, <1>7
    <2>2. CASE latch_translation_fault(a)
      BY <1>t, <2>2, <1>w, SameMapping DEF latch_translation_fault, TypeOK, IInv
    <2> QED  BY <1>8, <2>1, <2>2 DEF forward_translation
  <1>9. ASSUME invalidate_direct_mem_ptr PROVE IInv'
    BY <1>t, <1>9, Dropped DEF invalidate_direct_mem_ptr, TypeOK, IInv
  <1>10. CASE Registers
    BY <1>10, <1>1, <1>2, <1>3, <1>4, <1>5, <1>6 DEF Registers
  <1>11. CASE Bus
    BY <1>11, <1>8, <1>9, GrantStep DEF Bus
  <1> QED  BY <1>7, <1>10, <1>11 DEF Next

-----------------------------------------------------------------------------
\* A region that backs an address and has it to itself is the one that
\* translate_range takes for it.
LEMMA BackedAgrees == IInv => DmiAgrees
  <1> SUFFICES ASSUME IInv, ~stale, NEW g \in grants, NEW x \in g.lo .. g.hi
               PROVE  \E r \in Regions :
                        /\ Backs(r, g, x)
                        /\ (\A q \in Regions : Hits(q, x, 1) => q = r)
                             => translate_range(r, x, 1)
    BY DEF DmiAgrees
  <1>1. PICK r \in Regions : Backs(r, g, x)  BY DEF IInv, Backed
  <1>2. r \in Int  BY ConstAssumption DEF Regions
  <1>3. Hits(r, x, 1) /\ Carries(r, x)  BY <1>1 DEF Backs
  <1>4. (\A q \in Regions : Hits(q, x, 1) => q = r) => translate_range(r, x, 1)
    BY <1>2, <1>3 DEF translate_range
  <1> QED  BY <1>1, <1>4

\* Every DMI range that rse_atu has handed out agrees, byte by byte, with the
\* present table and the present memory.
THEOREM DmiRangesAgree == Spec => []DmiAgrees
  <1>1. Init => IInv  BY InitIInv
  <1>2. IInv /\ [Next]_vars => IInv'  BY NextIInv
  <1>3. IInv => DmiAgrees  BY BackedAgrees
  <1> QED  BY <1>1, <1>2, <1>3, PTL DEF Spec

=============================================================================
