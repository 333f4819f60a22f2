-------------------------- MODULE EventQueueProofs --------------------------
(* Theorems about EventQueue, for every size of the queue and every event. *)
EXTENDS EventQueue, Sequences, TLAPS

(* Facts about pointers.  A pointer runs over twice the size, so that an   *)
(* empty and a full queue differ.                                          *)

LEMMA DistanceRange ==
  ASSUME NEW n \in Nat \ {0, 1}, NEW p \in Pointers(n), NEW q \in Pointers(n)
  PROVE  /\ Distance(n, p, q) \in 0 .. 2 * n - 1
         /\ Distance(n, p, q) = 0 <=> p = q
         /\ At(n, p, Distance(n, p, q)) = q
  BY DEF Distance, Pointers, At

LEMMA DistanceSplit ==
  ASSUME NEW n \in Nat \ {0, 1}, NEW p \in Pointers(n), NEW q \in Pointers(n),
         NEW r \in Pointers(n), Distance(n, p, q) <= Distance(n, p, r)
  PROVE  Distance(n, q, r) = Distance(n, p, r) - Distance(n, p, q)
  BY DEF Distance, Pointers

LEMMA NextPointerFacts ==
  ASSUME NEW n \in Nat \ {0, 1}, NEW p \in Pointers(n)
  PROVE  /\ NextPointer(n, p) \in Pointers(n)
         /\ NextPointer(n, p) = At(n, p, 1)
         /\ \A q \in Pointers(n) :
              Distance(n, q, p) < 2 * n - 1 =>
                Distance(n, q, NextPointer(n, p)) = Distance(n, q, p) + 1
  BY DEF Distance, Pointers, NextPointer, Index, Wrap, At

LEMMA FullDistance ==
  ASSUME NEW n \in Nat \ {0, 1}, NEW p \in Pointers(n), NEW q \in Pointers(n)
  PROVE  (Index(n, p) = Index(n, q) /\ Wrap(n, p) # Wrap(n, q))
           <=> Distance(n, q, p) = n
  BY DEF Distance, Pointers, Index, Wrap

LEMMA AtFacts ==
  ASSUME NEW n \in Nat \ {0, 1}, NEW p \in Pointers(n), NEW k \in 0 .. 2 * n - 1
  PROVE  /\ At(n, p, k) \in Pointers(n)
         /\ Index(n, At(n, p, k)) \in 0 .. n - 1
         /\ k + 1 < 2 * n => At(n, NextPointer(n, p), k) = At(n, p, k + 1)
  BY DEF Pointers, At, Index, NextPointer, Wrap

\* In a queue that is not full, the slot PROD names is not an unread one.
LEMMA FreshSlot ==
  ASSUME NEW n \in Nat \ {0, 1}, NEW p \in Pointers(n), NEW q \in Pointers(n),
         Distance(n, p, q) < n, NEW k \in 0 .. Distance(n, p, q) - 1
  PROVE  Index(n, At(n, p, k)) # Index(n, q)
  BY DEF Pointers, At, Index, Distance

-----------------------------------------------------------------------------
(* The order of the pointers of a queue in use: CONS, the place where the  *)
(* driver reads, the PROD it saw, and PROD, within one size.               *)

Ordered ==
  /\ prod \in Pointers(size) /\ cons \in Pointers(size)
  /\ drv.pos \in Pointers(size) /\ drv.seen \in Pointers(size)
  /\ Distance(size, cons, drv.pos) <= Distance(size, cons, drv.seen)
  /\ Distance(size, cons, drv.seen) <= Distance(size, cons, prod)
  /\ Distance(size, cons, prod) <= size

QueueInv == TypeOK /\ (Configured => Ordered)

LEMMA QueueInit == Init => QueueInv
<1> SUFFICES ASSUME Init PROVE QueueInv
  OBVIOUS
<1>1. drv \in [pos : Nat, seen : Nat, last : Events \cup {NoEvent}]
  BY DEF Init
<1>2. ring \in [Slots -> Events \cup {NoEvent}]
  BY DEF Init
<1>3. TypeOK
  BY <1>1, <1>2 DEF Init, TypeOK
<1> QED
  BY <1>3 DEF Init, QueueInv, Configured

LEMMA SizeFacts ==
  ASSUME TypeOK, Configured
  PROVE  size \in Nat \ {0, 1} /\ 0 .. size - 1 \subseteq Slots
  BY ConstAssumption DEF TypeOK, Configured, Slots

\* The records of a queue in use, split where the driver is.
LEMMA OrderedFacts ==
  ASSUME TypeOK, Configured, Ordered
  PROVE  /\ Distance(size, drv.pos, prod) =
              Distance(size, cons, prod) - Distance(size, cons, drv.pos)
         /\ Distance(size, drv.pos, prod) \in 0 .. size
         /\ Distance(size, drv.pos, drv.seen) <= Distance(size, drv.pos, prod)
         /\ ~Full <=> Distance(size, cons, prod) < size
<1>1. size \in Nat \ {0, 1}
  BY SizeFacts
<1>2. /\ Distance(size, cons, prod) \in Nat
      /\ Distance(size, cons, drv.pos) \in Nat
      /\ Distance(size, cons, drv.seen) \in Nat
  BY <1>1, DistanceRange DEF Ordered
<1>3. /\ Distance(size, drv.pos, prod) =
           Distance(size, cons, prod) - Distance(size, cons, drv.pos)
      /\ Distance(size, drv.pos, drv.seen) =
           Distance(size, cons, drv.seen) - Distance(size, cons, drv.pos)
  BY <1>1, <1>2, DistanceSplit DEF Ordered
<1>4. Full <=> Distance(size, cons, prod) = size
  BY <1>1, FullDistance DEF Full, Ordered
<1> QED
  BY <1>1, <1>2, <1>3, <1>4 DEF Ordered

LEMMA CompleteQueue ==
  ASSUME QueueInv, ~Full, NEW e \in Events, complete_event_queue_write(e),
         UNCHANGED drv
  PROVE  QueueInv'
<1>1. Configured /\ TypeOK /\ Ordered /\ size \in Nat \ {0, 1}
  BY SizeFacts DEF QueueInv, Full
<1>2. /\ Distance(size, cons, prod) \in Nat
      /\ Distance(size, cons, drv.seen) \in Nat
      /\ Distance(size, cons, prod) < size
  BY <1>1, OrderedFacts, DistanceRange DEF Ordered
<1>3. /\ prod' \in Pointers(size)
      /\ Distance(size, cons, prod') = Distance(size, cons, prod) + 1
  BY <1>1, <1>2, NextPointerFacts
     DEF complete_event_queue_write, event_queue_next_prod, Ordered
<1>4. UNCHANGED <<cr0, size, cons, irqCtrl, gerror, drv, why>>
  BY DEF complete_event_queue_write
<1>5. Ordered'
  BY <1>1, <1>2, <1>3, <1>4 DEF Ordered
<1>6. prod' \in Nat
  BY <1>3, <1>1 DEF Pointers
<1>7. ring' \in [Slots -> Events \cup {NoEvent}]
  BY <1>1 DEF TypeOK, complete_event_queue_write
<1>8. irq' \in BOOLEAN
  BY DEF complete_event_queue_write, UpdateIrq, Level
<1>9. TypeOK'
  BY <1>1, <1>4, <1>6, <1>7, <1>8 DEF TypeOK
<1> QED
  BY <1>5, <1>9 DEF QueueInv

LEMMA QueueStep == QueueInv /\ [Next]_vars => QueueInv'
<1> SUFFICES ASSUME QueueInv, [Next]_vars PROVE QueueInv'
  OBVIOUS
<1>t. TypeOK
  BY DEF QueueInv
<1>1. ASSUME NEW e \in Events, tbu_b_transport(e) PROVE QueueInv'
  <2>1. ASSUME NEW c \in {"room", "memory"}, record_event_queue_abort(c),
               UNCHANGED drv
        PROVE  QueueInv'
    <3>1. irq' \in BOOLEAN
      BY <2>1 DEF record_event_queue_abort, UpdateIrq, Level
    <3>2. TypeOK'
      BY <1>t, <2>1, <3>1 DEF TypeOK, record_event_queue_abort
    <3> QED
      BY <2>1, <3>2 DEF QueueInv, Configured, Ordered, record_event_queue_abort
  <2> QED
    BY <1>1, <2>1, CompleteQueue DEF tbu_b_transport
<1>2. ASSUME NEW n \in Sizes \cup {0}, WriteBase(n) PROVE QueueInv'
  BY <1>2, <1>t DEF WriteBase, QueueInv, TypeOK, Configured, Enabled
<1>3. ASSUME NEW p \in Starts, WriteProd(p) PROVE QueueInv'
  BY <1>3, <1>t, ConstAssumption
     DEF WriteProd, QueueInv, TypeOK, Configured, Enabled
<1>4. ASSUME NEW p \in Starts, SetCons(p) PROVE QueueInv'
  <2>1. irq' \in BOOLEAN
    BY <1>4 DEF SetCons, UpdateIrq, Level
  <2> QED
    BY <1>4, <2>1, <1>t, ConstAssumption
       DEF SetCons, QueueInv, TypeOK, Configured, Enabled
<1>5. ASSUME NEW v \in SUBSET {"EVTQEN", "SMMUEN"}, WriteCr0(v)
      PROVE  QueueInv'
  <2>1. TypeOK'
    BY <1>5, <1>t DEF WriteCr0, TypeOK
  <2>2. ASSUME Configured', ~Configured PROVE Ordered'
    <3>1. /\ prod = cons /\ drv.pos = cons /\ drv.seen = cons
          /\ cons \in Pointers(size) /\ size \in Nat \ {0, 1}
      BY <1>5, <2>2, <1>t, ConstAssumption
         DEF WriteCr0, Configured, Enabled, TypeOK
    <3>2. Distance(size, cons, cons) = 0
      BY <3>1, DistanceRange
    <3> QED
      BY <1>5, <3>1, <3>2 DEF WriteCr0, Ordered
  <2>3. ASSUME Configured', Configured PROVE Ordered'
    BY <1>5, <2>3 DEF WriteCr0, Ordered, QueueInv
  <2> QED
    BY <2>1, <2>2, <2>3 DEF QueueInv
<1>6. ASSUME NEW v \in SUBSET {"EVTQ", "GERROR"}, WriteIrqCtrl(v)
      PROVE  QueueInv'
  <2>1. irq' \in BOOLEAN
    BY <1>6 DEF WriteIrqCtrl, UpdateIrq, Level
  <2> QED
    BY <1>6, <2>1, <1>t DEF WriteIrqCtrl, QueueInv, TypeOK, Configured, Ordered
<1>7. CASE WriteGerrorn
  <2>1. irq' \in BOOLEAN
    BY <1>7 DEF WriteGerrorn, UpdateIrq, Level
  <2> QED
    BY <1>7, <2>1, <1>t DEF WriteGerrorn, QueueInv, TypeOK, Configured, Ordered
<1>8. CASE ReadProd
  <2>1. Configured /\ Ordered /\ size \in Nat \ {0, 1}
    BY <1>8, <1>t, SizeFacts DEF ReadProd, QueueInv
  <2>2. drv' = [drv EXCEPT !.seen = prod] /\ UNCHANGED <<regs, irq, ring, why>>
    BY <1>8 DEF ReadProd
  <2>3. TypeOK'
    BY <2>2, <1>t DEF TypeOK, regs
  <2>4. /\ Distance(size, cons, prod) \in Nat
        /\ Distance(size, cons, drv.pos) \in Nat
        /\ Distance(size, cons, drv.seen) \in Nat
    BY <2>1, DistanceRange DEF Ordered
  <2>5. drv'.pos = drv.pos /\ drv'.seen = prod
    BY <2>2, <1>t DEF TypeOK
  <2>6. Ordered'
    BY <2>1, <2>2, <2>4, <2>5 DEF Ordered, regs
  <2> QED
    BY <2>3, <2>6 DEF QueueInv
<1>9. CASE ReadEntry
  <2>1. Configured /\ Ordered /\ size \in Nat \ {0, 1}
    BY <1>9, <1>t, SizeFacts DEF ReadEntry, QueueInv
  <2>2. /\ drv.pos # drv.seen
        /\ drv' = [drv EXCEPT !.pos = NextPointer(size, drv.pos),
                              !.last = ring[Index(size, drv.pos)]]
        /\ UNCHANGED <<regs, irq, ring, why>>
    BY <1>9 DEF ReadEntry
  <2>3. NextPointer(size, drv.pos) \in Pointers(size)
    BY <2>1, NextPointerFacts DEF Ordered
  <2>4. Index(size, drv.pos) \in Slots
    BY <2>1, <1>t, SizeFacts DEF Ordered, Index, Pointers
  <2>5. /\ drv'.pos = NextPointer(size, drv.pos) /\ drv'.seen = drv.seen
        /\ drv' \in [pos : Nat, seen : Nat, last : Events \cup {NoEvent}]
    <3>1. NextPointer(size, drv.pos) \in Nat
      BY <2>1, <2>3 DEF Pointers
    <3>2. ring[Index(size, drv.pos)] \in Events \cup {NoEvent}
      BY <2>4, <1>t DEF TypeOK
    <3> QED
      BY <2>2, <3>1, <3>2, <1>t DEF TypeOK
  <2>6. TypeOK'
    BY <2>2, <2>5, <1>t DEF TypeOK, regs
  <2>7. /\ Distance(size, cons, prod) \in Nat
        /\ Distance(size, cons, drv.pos) \in Nat
        /\ Distance(size, cons, drv.seen) \in Nat
    BY <2>1, DistanceRange DEF Ordered
  <2>8. Distance(size, cons, drv.pos) # Distance(size, cons, drv.seen)
    <3>1. /\ At(size, cons, Distance(size, cons, drv.pos)) = drv.pos
          /\ At(size, cons, Distance(size, cons, drv.seen)) = drv.seen
      BY <2>1, DistanceRange DEF Ordered
    <3> QED
      BY <2>2, <3>1
  <2>9. Distance(size, cons, drv'.pos) = Distance(size, cons, drv.pos) + 1
    BY <2>1, <2>5, <2>7, <2>8, NextPointerFacts DEF Ordered
  <2>10. Ordered'
    BY <2>1, <2>2, <2>3, <2>5, <2>7, <2>8, <2>9 DEF Ordered, regs
  <2> QED
    BY <2>6, <2>10 DEF QueueInv
<1>10. CASE WriteCons
  <2>1. Configured /\ Ordered /\ size \in Nat \ {0, 1}
    BY <1>10, <1>t, SizeFacts DEF WriteCons, QueueInv
  <2>2. /\ cons' = drv.pos
        /\ UNCHANGED <<cr0, size, prod, irqCtrl, gerror, ring, drv, why>>
    BY <1>10 DEF WriteCons
  <2>3. irq' \in BOOLEAN
    BY <1>10 DEF WriteCons, UpdateIrq, Level
  <2>4. TypeOK'
    BY <2>1, <2>2, <2>3, <1>t DEF TypeOK
  <2>5. /\ Distance(size, cons, prod) \in Nat
        /\ Distance(size, cons, drv.pos) \in Nat
        /\ Distance(size, cons, drv.seen) \in Nat
        /\ Distance(size, drv.pos, drv.pos) = 0
        /\ Distance(size, drv.pos, drv.seen) \in Nat
    BY <2>1, DistanceRange DEF Ordered
  <2>6. /\ Distance(size, drv.pos, prod) \in 0 .. size
        /\ Distance(size, drv.pos, drv.seen) <= Distance(size, drv.pos, prod)
    BY <2>1, <1>t, OrderedFacts
  <2>7. Ordered'
    BY <2>1, <2>2, <2>5, <2>6 DEF Ordered
  <2> QED
    BY <2>4, <2>7 DEF QueueInv
<1>11. CASE doreset
  BY <1>11, <1>t DEF doreset, QueueInv, TypeOK, Configured
<1>12. CASE UNCHANGED vars
  BY <1>12 DEF vars, QueueInv, TypeOK, Configured, Ordered
<1> QED
  BY <1>1, <1>2, <1>3, <1>4, <1>5, <1>6, <1>7, <1>8, <1>9, <1>10, <1>11, <1>12
     DEF Next, Device, Software

\* The pointers of a queue in use stay in order and within one size, whatever
\* the interleaving of requests, handler and register writes.
THEOREM QueueIsOrdered == Spec => []QueueInv
  BY QueueInit, QueueStep, PTL DEF Spec

-----------------------------------------------------------------------------
(* The interrupt line.                                                     *)

LEMMA IrqStep ==
  ASSUME TypeOK, IrqNotMissed, [Next]_vars
  PROVE  IrqNotMissed'
<1>1. ASSUME UpdateIrq PROVE IrqNotMissed'
  BY <1>1 DEF UpdateIrq, IrqNotMissed
<1>2. ASSUME NEW e \in Events, tbu_b_transport(e) PROVE IrqNotMissed'
  BY <1>1, <1>2 DEF tbu_b_transport, record_event_queue_abort,
                    complete_event_queue_write
<1>3. ASSUME NEW n \in Sizes \cup {0}, WriteBase(n) PROVE IrqNotMissed'
  BY <1>3 DEF WriteBase, IrqNotMissed, Level, Enabled
<1>4. ASSUME NEW p \in Starts, WriteProd(p) PROVE IrqNotMissed'
  BY <1>4 DEF WriteProd, IrqNotMissed, Level, Enabled
<1>5. ASSUME NEW p \in Starts, SetCons(p) PROVE IrqNotMissed'
  BY <1>1, <1>5 DEF SetCons
<1>6. ASSUME NEW v \in SUBSET {"EVTQEN", "SMMUEN"}, WriteCr0(v)
      PROVE  IrqNotMissed'
  BY <1>6 DEF WriteCr0, IrqNotMissed, Level, Enabled
<1>7. ASSUME NEW v \in SUBSET {"EVTQ", "GERROR"}, WriteIrqCtrl(v)
      PROVE  IrqNotMissed'
  BY <1>1, <1>7 DEF WriteIrqCtrl
<1>8. CASE WriteGerrorn
  BY <1>1, <1>8 DEF WriteGerrorn
<1>9. CASE ReadProd \/ ReadEntry
  BY <1>9 DEF ReadProd, ReadEntry, regs, IrqNotMissed
<1>10. CASE WriteCons
  BY <1>1, <1>10 DEF WriteCons
<1>11. CASE doreset
  BY <1>11 DEF doreset, IrqNotMissed, Level
<1>12. CASE UNCHANGED vars
  BY <1>12 DEF vars, IrqNotMissed
<1> QED
  BY <1>2, <1>3, <1>4, <1>5, <1>6, <1>7, <1>8, <1>9, <1>10, <1>11, <1>12
     DEF Next, Device, Software

\* The combined interrupt is high whenever an enabled cause is present, also
\* after the register writes that do not call update_irq.
THEOREM IrqIsNotMissed == Spec => []IrqNotMissed
<1>1. Init => IrqNotMissed
  BY DEF Init, IrqNotMissed, Level
<1>2. QueueInv /\ IrqNotMissed /\ [Next]_vars => IrqNotMissed'
  BY IrqStep DEF QueueInv
<1> QED
  BY <1>1, <1>2, QueueIsOrdered, PTL DEF Spec

-----------------------------------------------------------------------------
(* No record is overwritten before it is read.                             *)

LEMMA KeptStep ==
  ASSUME QueueInv, [Next]_vars, NEW i \in Unread
  PROVE  ring'[i] = ring[i]
<1>1. /\ Configured /\ TypeOK /\ Ordered /\ size \in Nat \ {0, 1}
      /\ i \in Slots
  BY SizeFacts DEF Unread, QueueInv
<1>2. PICK k \in 0 .. Distance(size, drv.pos, prod) - 1 :
        i = Index(size, At(size, drv.pos, k))
  BY DEF Unread
<1>3. ASSUME NEW e \in Events, ~Full, complete_event_queue_write(e)
      PROVE  ring'[i] = ring[i]
  <2>1. Distance(size, drv.pos, prod) < size
    BY <1>1, <1>3, OrderedFacts, DistanceRange DEF Ordered
  <2>2. i # Index(size, prod)
    BY <1>1, <1>2, <2>1, FreshSlot DEF Ordered
  <2> QED
    BY <1>1, <1>3, <2>2 DEF complete_event_queue_write, TypeOK
<1>4. ASSUME NEW e \in Events, tbu_b_transport(e) PROVE ring'[i] = ring[i]
  BY <1>3, <1>4 DEF tbu_b_transport, record_event_queue_abort
<1>5. CASE Software
  BY <1>5 DEF Software, WriteBase, WriteProd, SetCons, WriteCr0, WriteIrqCtrl,
              WriteGerrorn
<1>6. CASE ReadProd \/ ReadEntry \/ WriteCons \/ doreset \/ UNCHANGED vars
  BY <1>6 DEF ReadProd, ReadEntry, WriteCons, doreset, vars
<1> QED
  BY <1>4, <1>5, <1>6 DEF Next, Device

\* A record that the driver has not read is never overwritten: event_queue_full
\* is decided on CONS, which the driver writes after it has read.
THEOREM UnreadRecordsAreKept == Spec => UnreadIsKept
<1>1. QueueInv /\ [Next]_vars
        => [\A i \in Unread : Configured' => ring'[i] = ring[i]]_vars
  BY KeptStep
<1> QED
  BY <1>1, QueueIsOrdered, PTL DEF Spec, UnreadIsKept

-----------------------------------------------------------------------------
(* The queue implements the FIFO.                                          *)

LEMMA CountFacts ==
  ASSUME QueueInv
  PROVE  /\ Count \in Nat /\ Len(UnreadRecords) = Count
         /\ Held \in Nat /\ Room \in Nat
         /\ Full <=> Count + Held = Room
         /\ Count + Held <= Room
<1>1. CASE ~Configured
  BY <1>1 DEF Count, Held, Room, Full, UnreadRecords
<1>2. CASE Configured
  <2>1. TypeOK /\ Ordered /\ size \in Nat \ {0, 1}
    BY <1>2, SizeFacts DEF QueueInv
  <2>2. /\ Distance(size, cons, prod) \in Nat
        /\ Distance(size, cons, drv.pos) \in Nat
        /\ Distance(size, cons, prod) <= size
    BY <2>1, DistanceRange DEF Ordered
  <2>3. /\ Count = Distance(size, cons, prod) - Held
        /\ Count \in 0 .. size /\ Held \in Nat /\ Room = size
        /\ ~Full <=> Distance(size, cons, prod) < size
    BY <1>2, <2>1, <2>2, OrderedFacts DEF Count, Held, Room
  <2>4. Len(UnreadRecords) = Count
    BY <2>3 DEF UnreadRecords
  <2> QED
    BY <2>1, <2>2, <2>3, <2>4
<1> QED
  BY <1>1, <1>2

LEMMA EmptyRecords ==
  ASSUME Count = 0 PROVE UnreadRecords = << >>
  BY DEF UnreadRecords

\* A record is appended.
LEMMA RecordStep ==
  ASSUME QueueInv, QueueInv', NEW e \in Events, ~Full,
         complete_event_queue_write(e), UNCHANGED drv
  PROVE  Fifo!Record(e)
<1>1. Configured /\ TypeOK /\ Ordered /\ size \in Nat \ {0, 1}
  BY SizeFacts DEF QueueInv, Full
<1>2. UNCHANGED <<cr0, size, cons, gerror, drv, why>>
  BY DEF complete_event_queue_write
<1>3. Configured'
  BY <1>1, <1>2 DEF Configured
<1>4. UNCHANGED <<Room, Held, drv.last, Lost>>
  BY <1>1, <1>2, <1>3 DEF Room, Held, Lost
<1>5. Count + Held < Room /\ Count \in Nat /\ Len(UnreadRecords) = Count
  BY CountFacts
<1>6. Distance(size, drv.pos, prod) < size /\ Count = Distance(size, drv.pos, prod)
  BY <1>1, OrderedFacts, DistanceRange DEF Ordered, Count
<1>7. Count' = Count + 1
  <2>1. Distance(size, drv.pos, prod') = Distance(size, drv.pos, prod) + 1
    BY <1>1, <1>6, <1>5, NextPointerFacts
       DEF complete_event_queue_write, event_queue_next_prod, Ordered
  <2> QED
    BY <1>2, <1>3, <1>6, <2>1 DEF Count
<1>8. ring' = [ring EXCEPT ![Index(size, prod)] = e]
  BY DEF complete_event_queue_write
<1>9. At(size, drv.pos, Count) = prod
  BY <1>1, <1>6, DistanceRange DEF Ordered
<1>10. ASSUME NEW k \in 1 .. Count + 1
       PROVE  /\ k - 1 \in 0 .. 2 * size - 1
              /\ Index(size, At(size, drv.pos, k - 1)) \in Slots
  <2>1. k - 1 \in 0 .. 2 * size - 1
    BY <1>1, <1>5, <1>6
  <2> QED
    BY <1>1, <2>1, AtFacts, SizeFacts DEF Ordered
<1>11. ASSUME NEW k \in 1 .. Count + 1
       PROVE  UnreadRecords'[k] = IF k <= Count THEN UnreadRecords[k] ELSE e
  <2>1. UnreadRecords'[k] = ring'[Index(size, At(size, drv.pos, k - 1))]
    BY <1>2, <1>7, <1>5 DEF UnreadRecords
  <2>2. CASE k <= Count
    <3>1. k - 1 \in 0 .. Distance(size, drv.pos, prod) - 1
      BY <2>2, <1>5, <1>6
    <3>2. Index(size, At(size, drv.pos, k - 1)) # Index(size, prod)
      BY <3>1, <1>1, <1>6, FreshSlot DEF Ordered
    <3>3. ring'[Index(size, At(size, drv.pos, k - 1))]
            = ring[Index(size, At(size, drv.pos, k - 1))]
      BY <3>2, <1>1, <1>8, <1>10 DEF TypeOK
    <3> QED
      BY <2>1, <2>2, <3>3, <1>5 DEF UnreadRecords
  <2>3. CASE k = Count + 1
    <3>1. Index(size, At(size, drv.pos, k - 1)) = Index(size, prod)
      BY <2>3, <1>5, <1>9
    <3>2. Index(size, prod) \in Slots
      BY <1>10, <3>1
    <3>3. ring'[Index(size, prod)] = e
      BY <3>2, <1>1, <1>8 DEF TypeOK
    <3>4. ~(k <= Count)
      BY <2>3, <1>5
    <3> QED
      BY <2>1, <3>1, <3>3, <3>4
  <2> QED
    BY <2>2, <2>3, <1>5
<1>12. UnreadRecords' = Append(UnreadRecords, e)
  <2>1. UnreadRecords' = [k \in 1 .. Count + 1 |-> UnreadRecords'[k]]
    BY <1>7 DEF UnreadRecords
  <2>2. UnreadRecords' = [k \in 1 .. Count + 1 |->
                            IF k <= Count THEN UnreadRecords[k] ELSE e]
    BY <2>1, <1>11
  <2>3. UnreadRecords = [k \in 1 .. Count |-> UnreadRecords[k]]
    BY DEF UnreadRecords
  <2> QED
    BY <2>2, <2>3, <1>5
<1> QED
  BY <1>4, <1>5, <1>12 DEF Fifo!Record

\* The driver takes the oldest record.
LEMMA TakeStep ==
  ASSUME QueueInv, QueueInv', ReadEntry
  PROVE  Fifo!Take
<1>1. Configured /\ TypeOK /\ Ordered /\ size \in Nat \ {0, 1}
  BY SizeFacts DEF QueueInv, ReadEntry
<1>2. UNCHANGED <<cr0, size, prod, cons, gerror, ring, why>>
  BY DEF ReadEntry, regs
<1>3. Configured' /\ Ordered'
  BY <1>1, <1>2 DEF Configured, QueueInv
<1>4. UNCHANGED <<Room, Lost>>
  BY <1>1, <1>2, <1>3 DEF Room, Lost
<1>5. /\ Count \in Nat /\ Len(UnreadRecords) = Count /\ Held \in Nat
      /\ Count + Held <= Room /\ Room = size
  BY <1>1, CountFacts DEF Room
<1>6. /\ drv.pos # drv.seen
      /\ drv'.pos = NextPointer(size, drv.pos)
      /\ drv'.last = ring[Index(size, drv.pos)]
  BY <1>1 DEF ReadEntry, TypeOK
<1>7. Count # 0
  <2>1. Distance(size, drv.pos, drv.seen) <= Distance(size, drv.pos, prod)
    BY <1>1, OrderedFacts
  <2>2. /\ Distance(size, drv.pos, drv.seen) \in Nat
        /\ Distance(size, drv.pos, drv.seen) # 0
    BY <1>1, <1>6, DistanceRange DEF Ordered
  <2> QED
    BY <1>1, <2>1, <2>2, <1>5 DEF Count
<1>8. Held' = Held + 1
  <2>1. Held = Distance(size, cons, drv.pos) /\ Held <= size
    BY <1>1, <1>5 DEF Held
  <2>2. Distance(size, cons, drv'.pos) = Distance(size, cons, drv.pos) + 1
    BY <1>1, <1>5, <1>6, <2>1, NextPointerFacts DEF Ordered
  <2> QED
    BY <1>2, <1>3, <2>1, <2>2 DEF Held
<1>9. Count' = Count - 1
  <2>1. Count = Distance(size, cons, prod) - Held
    BY <1>1, OrderedFacts DEF Count, Held
  <2>2. Count' = Distance(size, cons, prod) - Held'
    <3>1. /\ drv'.pos \in Pointers(size) /\ drv'.seen \in Pointers(size)
          /\ Distance(size, cons, drv'.pos) <= Distance(size, cons, drv'.seen)
          /\ Distance(size, cons, drv'.seen) <= Distance(size, cons, prod)
      BY <1>2, <1>3 DEF Ordered
    <3>2. /\ Distance(size, cons, drv'.pos) \in Nat
          /\ Distance(size, cons, drv'.seen) \in Nat
          /\ Distance(size, cons, prod) \in Nat
      BY <1>1, <3>1, DistanceRange DEF Ordered
    <3>3. Distance(size, drv'.pos, prod) =
            Distance(size, cons, prod) - Distance(size, cons, drv'.pos)
      BY <1>1, <3>1, <3>2, DistanceSplit DEF Ordered
    <3> QED
      BY <1>2, <1>3, <3>3 DEF Count, Held
  <2>3. Distance(size, cons, prod) \in Nat
    BY <1>1, DistanceRange DEF Ordered
  <2> QED
    BY <2>1, <2>2, <2>3, <1>5, <1>8
<1>10. ASSUME NEW k \in 1 .. Count - 1
       PROVE  UnreadRecords'[k] = UnreadRecords[k + 1]
  <2>1. UnreadRecords'[k] = ring[Index(size, At(size, drv'.pos, k - 1))]
    BY <1>2, <1>9 DEF UnreadRecords
  <2>2. k - 1 \in 0 .. 2 * size - 1 /\ (k - 1) + 1 < 2 * size
    BY <1>1, <1>5
  <2>3. At(size, drv'.pos, k - 1) = At(size, drv.pos, (k - 1) + 1)
    <3>1. drv.pos \in Pointers(size)
      BY <1>1 DEF Ordered
    <3>2. At(size, NextPointer(size, drv.pos), k - 1)
            = At(size, drv.pos, (k - 1) + 1)
      BY <1>1, <3>1, <2>2, AtFacts
    <3> QED
      BY <1>6, <3>2
  <2>4. (k - 1) + 1 = (k + 1) - 1 /\ k + 1 \in 1 .. Count
    BY <1>5
  <2> QED
    BY <2>1, <2>3, <2>4 DEF UnreadRecords
<1>11. UnreadRecords' = Tail(UnreadRecords)
  <2>1. UnreadRecords' = [k \in 1 .. Count - 1 |-> UnreadRecords'[k]]
    BY <1>9 DEF UnreadRecords
  <2>2. UnreadRecords' = [k \in 1 .. Count - 1 |-> UnreadRecords[k + 1]]
    BY <2>1, <1>10
  <2> QED
    <3>1. UnreadRecords = [k \in 1 .. Count |-> UnreadRecords[k]]
      BY DEF UnreadRecords
    <3>2. Tail(UnreadRecords) = [k \in 1 .. Count - 1 |-> UnreadRecords[k + 1]]
      BY <3>1, <1>5, <1>7
    <3> QED
      BY <2>2, <3>2
<1>12. drv'.last = Head(UnreadRecords)
  <2>1. At(size, drv.pos, 0) = drv.pos
    <3>1. drv.pos \in 0 .. 2 * size - 1
      BY <1>1 DEF Ordered, Pointers
    <3> QED
      BY <1>1, <3>1 DEF At
  <2>2. 1 \in 1 .. Count
    BY <1>5, <1>7
  <2>3. UnreadRecords[1] = ring[Index(size, At(size, drv.pos, 1 - 1))]
    BY <2>2 DEF UnreadRecords
  <2> QED
    BY <2>1, <2>3, <1>6
<1>13. UnreadRecords # << >>
  BY <1>5, <1>7
<1> QED
  BY <1>4, <1>8, <1>11, <1>12, <1>13 DEF Fifo!Take

\* The steps that leave every part of the FIFO alone.
LEMMA FifoStutter ==
  ASSUME UNCHANGED <<Configured, gerror, why, drv.last>>,
         Configured => UNCHANGED <<size, prod, cons, ring, drv.pos>>
  PROVE  UNCHANGED Fifo!vars
<1>1. UNCHANGED <<Room, Held, Count, Lost>>
  BY DEF Room, Held, Count, Lost
<1>2. UnreadRecords' = UnreadRecords
  BY <1>1 DEF UnreadRecords, Count
<1> QED
  BY <1>1, <1>2 DEF Fifo!vars

LEMMA FifoStep ==
  ASSUME QueueInv, QueueInv', [Next]_vars
  PROVE  [Fifo!Next]_Fifo!vars
<1>1. ASSUME NEW e \in Events, tbu_b_transport(e) PROVE Fifo!Next
  <2>1. ASSUME NEW c \in {"room", "memory"}, record_event_queue_abort(c),
               UNCHANGED drv, c = "room" <=> Full
        PROVE  Fifo!Lose
    <3>1. /\ UNCHANGED <<cr0, size, prod, cons, ring, drv>>
          /\ gerror' = TRUE /\ why' = c
      BY <2>1 DEF record_event_queue_abort
    <3>2. UNCHANGED <<Room, Held, Count, drv.last>> /\ Lost' = c
      BY <3>1 DEF Room, Held, Count, Lost, Configured
    <3>3. UnreadRecords' = UnreadRecords
      BY <3>1, <3>2 DEF UnreadRecords
    <3>4. /\ Full <=> Len(UnreadRecords) + Held = Room
          /\ Len(UnreadRecords) + Held <= Room
          /\ Len(UnreadRecords) + Held \in Nat /\ Room \in Nat
      BY CountFacts
    <3> QED
      BY <2>1, <3>2, <3>3, <3>4 DEF Fifo!Lose
  <2>2. ASSUME ~Full, complete_event_queue_write(e), UNCHANGED drv
        PROVE  Fifo!Record(e)
    BY <2>2, RecordStep
  <2>3. UNCHANGED drv
    BY <1>1 DEF tbu_b_transport
  <2>4. CASE Full /\ record_event_queue_abort("room")
    BY <2>1, <2>3, <2>4 DEF Fifo!Next
  <2>5. CASE ~Full /\ record_event_queue_abort("memory")
    BY <2>1, <2>3, <2>5 DEF Fifo!Next
  <2>6. CASE ~Full /\ complete_event_queue_write(e)
    BY <2>2, <2>3, <2>6 DEF Fifo!Next
  <2> QED
    BY <1>1, <2>4, <2>5, <2>6 DEF tbu_b_transport
<1>2. ASSUME NEW n \in Sizes \cup {0}, WriteBase(n) PROVE UNCHANGED Fifo!vars
  BY <1>2, FifoStutter DEF WriteBase, Configured, Enabled
<1>3. ASSUME NEW p \in Starts, WriteProd(p) PROVE UNCHANGED Fifo!vars
  BY <1>3, FifoStutter DEF WriteProd, Configured, Enabled
<1>4. ASSUME NEW p \in Starts, SetCons(p) PROVE UNCHANGED Fifo!vars
  <2>1. drv'.last = drv.last
    BY <1>4 DEF SetCons, QueueInv, TypeOK
  <2> QED
    BY <1>4, <2>1, FifoStutter DEF SetCons, Configured, Enabled
<1>5. ASSUME NEW v \in SUBSET {"EVTQEN", "SMMUEN"}, WriteCr0(v)
      PROVE  [Fifo!Next]_Fifo!vars
  <2>1. UNCHANGED <<size, prod, cons, gerror, ring, drv, why>>
    BY <1>5 DEF WriteCr0
  <2>2. CASE Configured <=> Configured'
    <3>1. UNCHANGED Configured
      BY <2>2 DEF Configured
    <3> QED
      BY <2>1, <3>1, FifoStutter
  <2>3. CASE ~Configured /\ Configured'
    <3>1. /\ prod = cons /\ drv.pos = cons /\ cons \in Pointers(size)
          /\ size \in Nat \ {0, 1}
      BY <1>5, <2>3, ConstAssumption
         DEF WriteCr0, Configured, Enabled, QueueInv, TypeOK
    <3>2. Distance(size, cons, cons) = 0
      BY <3>1, DistanceRange
    <3>3. Count = 0 /\ Held = 0 /\ Room = 0
      BY <2>3 DEF Count, Held, Room
    <3>4. Count' = 0 /\ Held' = 0 /\ Room' = size /\ Lost' = Lost
      BY <2>1, <2>3, <3>1, <3>2 DEF Count, Held, Room, Lost
    <3>5. UnreadRecords = << >> /\ UnreadRecords' = << >>
      BY <3>3, <3>4, EmptyRecords DEF UnreadRecords
    <3>6. Fifo!Open
      BY <2>1, <3>1, <3>3, <3>4, <3>5 DEF Fifo!Open
    <3> QED
      BY <3>6 DEF Fifo!Next
  <2>4. CASE Configured /\ ~Configured'
    <3>1. Count' = 0 /\ Held' = 0 /\ Room' = 0 /\ Lost' = Lost
      BY <2>1, <2>4 DEF Count, Held, Room, Lost
    <3>2. UnreadRecords' = << >>
      BY <3>1 DEF UnreadRecords
    <3>3. Fifo!Close
      BY <2>1, <3>1, <3>2 DEF Fifo!Close
    <3> QED
      BY <3>3 DEF Fifo!Next
  <2> QED
    BY <2>2, <2>3, <2>4
<1>6. ASSUME NEW v \in SUBSET {"EVTQ", "GERROR"}, WriteIrqCtrl(v)
      PROVE  UNCHANGED Fifo!vars
  BY <1>6, FifoStutter DEF WriteIrqCtrl, Configured
<1>7. CASE WriteGerrorn
  <2>1. UNCHANGED <<cr0, size, prod, cons, ring, drv>> /\ gerror' = FALSE
    BY <1>7 DEF WriteGerrorn
  <2>2. UNCHANGED <<Room, Held, Count, drv.last>> /\ Lost' = "none"
    BY <2>1 DEF Room, Held, Count, Lost, Configured
  <2>3. UnreadRecords' = UnreadRecords
    BY <2>1, <2>2 DEF UnreadRecords
  <2>4. Fifo!Acknowledge
    BY <2>2, <2>3 DEF Fifo!Acknowledge
  <2> QED
    BY <2>4 DEF Fifo!Next
<1>8. CASE ReadProd
  <2>1. drv'.last = drv.last /\ drv'.pos = drv.pos
    BY <1>8 DEF ReadProd, QueueInv, TypeOK
  <2> QED
    BY <1>8, <2>1, FifoStutter DEF ReadProd, regs, Configured
<1>9. CASE ReadEntry
  BY <1>9, TakeStep DEF Fifo!Next
<1>10. CASE WriteCons
  <2>1. /\ UNCHANGED <<cr0, size, prod, gerror, ring, drv, why>>
        /\ cons' = drv.pos /\ Configured
    BY <1>10 DEF WriteCons
  <2>2. UNCHANGED <<Room, Count, drv.last, Lost>>
    BY <2>1 DEF Room, Count, Lost, Configured
  <2>3. UnreadRecords' = UnreadRecords
    BY <2>1, <2>2 DEF UnreadRecords
  <2>4. Held' = 0
    <3>1. size \in Nat \ {0, 1} /\ drv.pos \in Pointers(size)
      BY <2>1, SizeFacts DEF QueueInv, Ordered
    <3>2. Distance(size, drv.pos, drv.pos) = 0
      BY <3>1, DistanceRange
    <3> QED
      BY <2>1, <3>2 DEF Held, Configured
  <2>5. Fifo!GiveBack
    BY <2>2, <2>3, <2>4 DEF Fifo!GiveBack
  <2> QED
    BY <2>5 DEF Fifo!Next
<1>11. CASE doreset
  <2>1. ~Configured' /\ gerror' = FALSE /\ drv'.last = drv.last
    BY <1>11 DEF doreset, Configured, QueueInv, TypeOK
  <2>2. Count' = 0 /\ Held' = 0 /\ Room' = 0 /\ Lost' = "none"
    BY <2>1 DEF Count, Held, Room, Lost
  <2>3. UnreadRecords' = << >>
    BY <2>2 DEF UnreadRecords
  <2>4. Fifo!Reset
    BY <2>1, <2>2, <2>3 DEF Fifo!Reset
  <2> QED
    BY <2>4 DEF Fifo!Next
<1>12. CASE UNCHANGED vars
  BY <1>12, FifoStutter DEF vars, Configured
<1> QED
  BY <1>1, <1>2, <1>3, <1>4, <1>5, <1>6, <1>7, <1>8, <1>9, <1>10, <1>11, <1>12
     DEF Next, Device, Software

\* The queue in memory, with its two pointers and their wrap bits, is a FIFO
\* of its size, whatever the interleaving of requests and handler.
THEOREM QueueImplementsFifo == Spec => ImplementsEventFifo
<1>1. Init => Fifo!Init
  <2> SUFFICES ASSUME Init PROVE Fifo!Init
    OBVIOUS
  <2>1. ~Configured /\ gerror = FALSE /\ drv.last = NoEvent
    BY DEF Init, Configured
  <2>2. Count = 0 /\ Held = 0 /\ Room = 0 /\ Lost = "none"
    BY <2>1 DEF Count, Held, Room, Lost
  <2>3. UnreadRecords = << >>
    BY <2>2, EmptyRecords
  <2> QED
    BY <2>1, <2>2, <2>3 DEF Fifo!Init
<1>2. QueueInv /\ QueueInv' /\ [Next]_vars => [Fifo!Next]_Fifo!vars
  BY FifoStep
<1> QED
  BY <1>1, <1>2, QueueIsOrdered, PTL DEF Spec, ImplementsEventFifo, Fifo!Spec
=============================================================================
