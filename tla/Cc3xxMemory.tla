---------------------------- MODULE Cc3xxMemory ----------------------------
(***************************************************************************)
(* How qemu_cc3xx reaches memory for the engines of its core: first        *)
(* through QEMU's own address space, then through a cache of DMI pointers  *)
(* that it fills on demand, at last by a TLM transaction.                  *)
(*                                                                         *)
(* An access runs on the processor's thread, a step at a time.  A target   *)
(* is remapped on the kernel's thread: the flash selects another file or   *)
(* mode, or the ATU another region, and the target then takes back the     *)
(* pointers into its window.  The mutex of the cache makes one lookup, one *)
(* insertion and one invalidation atomic, and nothing more.                *)
(***************************************************************************)
EXTENDS Integers

CONSTANTS
  Windows,    \* the targets that grant DMI
  First,      \* the first address of each window
  Last,       \* and the last
  Backings,   \* what a window can be backed by
  Rights,     \* what a grant can allow: <<read, write>>
  AsAddrs,    \* the addresses QEMU's address space answers
  Accesses    \* the accesses of the engines: [write, addr, len]

Window(w) == First[w] .. Last[w]

ASSUME MemoryAssumption ==
  /\ First \in [Windows -> Nat] /\ Last \in [Windows -> Nat]
  /\ \A w \in Windows : First[w] <= Last[w]
  /\ \A v, w \in Windows :
       v # w => Last[v] < First[w] \/ Last[w] < First[v]
  /\ Windows # {} /\ Backings # {} /\ Accesses # {}
  /\ Rights \subseteq BOOLEAN \X BOOLEAN /\ AsAddrs \subseteq Nat
  /\ Accesses \subseteq [write : BOOLEAN, addr : Nat, len : Nat]

VARIABLES
  back,     \* the backing of each window
  revoking, \* windows remapped whose pointers are not yet taken back
  before,   \* what a window in revoking was backed by, and others are
  dmiCache, \* m_dmi_cache
  pc,       \* where the access is
  access,   \* the access
  ptr,      \* the pointer looked up, or the one just granted
  seen,     \* history: the backings of ptr's window since the access began
  late      \* history: an invalidation met the grant before its insertion

memoryVars == <<back, revoking, before, dmiCache, pc, access, ptr, seen, late>>

\* A pointer: its window and backing, the range and what it allows, and
\* (history) whether it was inserted after its invalidation.
Entry == [window : Windows, back : Backings, start : Nat, end : Nat,
          read : BOOLEAN, write : BOOLEAN, late : BOOLEAN]

Steps == {"idle", "system", "lookup1", "use1", "request", "insert", "lookup2",
          "use2", "tlm"}

MemoryTypeOK ==
  /\ back \in [Windows -> Backings] /\ before \in [Windows -> Backings]
  /\ revoking \subseteq Windows
  /\ dmiCache \subseteq Entry
  /\ pc \in Steps
  /\ access \in Accesses
  /\ pc \in {"use1", "insert", "use2"} => ptr \in Entry
  /\ seen \in [Windows -> SUBSET Backings]
  /\ late \in BOOLEAN

\* While a target is being remapped either backing is its present one.
Current(w) == {back[w]} \cup (IF w \in revoking THEN {before[w]} ELSE {})

\* What the targets are backed by at the start, and no pointer.
Start == CHOOSE b \in Backings : TRUE
NoAccess == CHOOSE a \in Accesses : TRUE
NoPointer ==
  [window |-> CHOOSE w \in Windows : TRUE, start |-> 0, end |-> 0,
   back |-> Start, read |-> FALSE, write |-> FALSE, late |-> FALSE]

MemoryInit ==
  /\ back = [w \in Windows |-> Start] /\ before = back
  /\ revoking = {} /\ dmiCache = {}
  /\ pc = "idle" /\ access = NoAccess
  /\ ptr = NoPointer
  /\ seen = [w \in Windows |-> {}]
  /\ late = FALSE

-----------------------------------------------------------------------------
(* The processor's thread: memory_read and memory_write                    *)

KernelSide == <<back, revoking, before>>
End(o) == o.addr + o.len - 1

\* The engine asks for a chunk.
Begin ==
  /\ pc = "idle"
  /\ access' \in Accesses
  /\ pc' = "system"
  /\ seen' = [w \in Windows |-> Current(w)]
  /\ UNCHANGED <<KernelSide, dmiCache, ptr, late>>

Return ==
  /\ pc' = "idle"
  /\ ptr' = NoPointer /\ seen' = [w \in Windows |-> {}] /\ late' = FALSE
  /\ access' = NoAccess

\* m_system_as: an access it answers needs nothing else.
SystemAccess ==
  /\ pc = "system"
  /\ IF access.addr .. End(access) \subseteq AsAddrs THEN Return
     ELSE pc' = "lookup1" /\ UNCHANGED <<access, ptr, seen, late>>
  /\ UNCHANGED <<KernelSide, dmiCache>>

\* The entry with the greatest start that is not above an address: the one
\* before upper_bound.
AtOrBelow(a) ==
  {e \in dmiCache :
     /\ e.start <= a
     /\ \A f \in dmiCache : f.start <= a => f.start <= e.start}

\* The entry that serves the access, if there is one.
dmi_cache_lookup ==
  IF access.len = 0 THEN {}
  ELSE {e \in AtOrBelow(access.addr) : End(access) <= e.end}

\* dmi_cache_access, up to the end of the lookup; the entry is copied.
Lookup(from, hit, miss) ==
  /\ pc = from
  /\ \/ \E e \in dmi_cache_lookup :
          /\ IF access.write THEN e.write ELSE e.read
          /\ ptr' = e /\ pc' = hit
     \/ /\ \A e \in dmi_cache_lookup :
             IF access.write THEN ~ e.write ELSE ~ e.read
        /\ pc' = miss /\ UNCHANGED ptr
  /\ UNCHANGED <<KernelSide, dmiCache, access, seen, late>>

\* The copy that dmi_cache_access makes through the pointer, the mutex free.
Use ==
  /\ pc \in {"use1", "use2"}
  /\ Return
  /\ UNCHANGED <<KernelSide, dmiCache>>

\* What a target may grant for an address: any range around it in its window,
\* into its backing of the moment.
Grants(a) ==
  {e \in [window : {w \in Windows : a \in Window(w)}, back : Backings,
          start : UNION {Window(w) : w \in Windows},
          end : UNION {Window(w) : w \in Windows},
          read : BOOLEAN, write : BOOLEAN, late : {FALSE}] :
     /\ e.back = back[e.window]
     /\ First[e.window] <= e.start /\ e.start <= a
     /\ a <= e.end /\ e.end <= Last[e.window]
     /\ <<e.read, e.write>> \in Rights /\ (e.read \/ e.write)}

\* request_dmi_cache, up to the answer of get_direct_mem_ptr.
RequestDmi ==
  /\ pc = "request"
  /\ \/ /\ access.len # 0
        /\ \E e \in Grants(access.addr) : ptr' = e
        /\ pc' = "insert" /\ late' = FALSE
     \/ pc' = "lookup2" /\ UNCHANGED <<ptr, late>>
  /\ UNCHANGED <<KernelSide, dmiCache, access, seen>>

\* The same range is kept as it is, another one with the same start replaced.
InsertDmi ==
  /\ pc = "insert"
  /\ dmiCache' =
       IF \E e \in dmiCache : e.start = ptr.start /\ e.end = ptr.end
       THEN dmiCache
       ELSE {e \in dmiCache : e.start # ptr.start}
              \cup {[ptr EXCEPT !.late = late]}
  /\ pc' = "lookup2" /\ ptr' = NoPointer /\ late' = FALSE
  /\ UNCHANGED <<KernelSide, access, seen>>

\* tlm_memory_access: the target itself serves it, or fails it.
TlmAccess ==
  /\ pc = "tlm"
  /\ Return
  /\ UNCHANGED <<KernelSide, dmiCache>>

Processor ==
  \/ Begin
  \/ SystemAccess
  \/ Lookup("lookup1", "use1", "request")
  \/ RequestDmi
  \/ InsertDmi
  \/ Lookup("lookup2", "use2", "tlm")
  \/ Use
  \/ TlmAccess

-----------------------------------------------------------------------------
(* The kernel's thread                                                     *)

Retarget(w, b) ==
  /\ w \notin revoking /\ b # back[w]
  /\ back' = [back EXCEPT ![w] = b]
  /\ before' = [before EXCEPT ![w] = back[w]]
  /\ revoking' = revoking \cup {w}
  /\ seen' = IF pc = "idle" THEN seen ELSE [seen EXCEPT ![w] = @ \cup {b}]
  /\ UNCHANGED <<dmiCache, pc, access, ptr, late>>

\* Mutant: the walk starts above the first address.
Mut_from_upper_bound(start, end) ==
  {e \in dmiCache : e.start > start /\ e.start <= end /\ e.end >= start}

\* The entries the walk erases.  It starts at the entry at or below the first
\* address and ends at the first entry above the last one.
Erased(start, end) ==
  {e \in dmiCache :
     /\ \A f \in AtOrBelow(start) : f.start <= e.start
     /\ e.start <= end
     /\ e.end >= start}

invalidate_direct_mem_ptr(w) ==
  /\ w \in revoking
  /\ dmiCache' = dmiCache \ Erased(First[w], Last[w])
  /\ revoking' = revoking \ {w} /\ before' = [before EXCEPT ![w] = back[w]]
  /\ late' = (late \/ (pc = "insert" /\ ptr.window = w))
  /\ UNCHANGED <<back, pc, access, ptr, seen>>

Kernel ==
  \E w \in Windows :
    invalidate_direct_mem_ptr(w) \/ \E b \in Backings : Retarget(w, b)

MemoryNext == Processor \/ Kernel

-----------------------------------------------------------------------------
(* Properties                                                              *)

\* An entry of the cache lies in one window and points into what backs it
\* now, or did until a revocation that is still under way.  The one exception
\* is an entry whose invalidation came between the grant and the insertion.
CachedIsCurrent ==
  \A e \in dmiCache :
    /\ First[e.window] <= e.start /\ e.end <= Last[e.window]
    /\ e.late \/ e.back \in Current(e.window)

\* The pointer an access goes through covers all of it, and was the right one
\* at some moment of that access, with the same exception: remapping during
\* the access may come before or after it, never long before.
AccessIsCurrent ==
  pc \in {"use1", "use2"} =>
    /\ \A a \in access.addr .. End(access) : a \in Window(ptr.window)
    /\ ptr.late \/ ptr.back \in seen[ptr.window]
=============================================================================
