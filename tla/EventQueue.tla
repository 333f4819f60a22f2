----------------------------- MODULE EventQueue -----------------------------
(***************************************************************************)
(* The event queue of mmu720ae: a ring of records in memory with a         *)
(* producer and a consumer pointer in registers, each an index and a wrap  *)
(* bit.  Once the SMMU is enabled, every request of a TBU is refused and   *)
(* recorded (no table walk is implemented).  The combined interrupt is a   *)
(* level that the device recomputes in some of its register writes, not in *)
(* all of them.                                                            *)
(*                                                                         *)
(* The driver is external: it sets the queue up while the queue is         *)
(* disabled, and its interrupt handler reads PROD, then the records, and   *)
(* then gives them back by writing CONS, while requests keep arriving.     *)
(***************************************************************************)
EXTENDS Integers

CONSTANTS
  Sizes,          \* numbers of entries that software configures
  Starts,         \* what software initialises the pointers to
  Events,         \* the contents of a record: stream, address, direction
  NoEvent,
  MemoryMayFail   \* whether the write of a record may be refused

ASSUME ConstAssumption ==
  /\ Sizes \subseteq Nat \ {0, 1}
  /\ Starts \subseteq Nat
  /\ NoEvent \notin Events
  /\ MemoryMayFail \in BOOLEAN

VARIABLES
  cr0,      \* CR0 and CR0ACK, which are written together
  size,     \* entries by EVTQ_BASE; 0: no size or no address
  prod,     \* EVTQ_PROD
  cons,     \* EVTQ_CONS
  irqCtrl,  \* IRQ_CTRL
  gerror,   \* GERROR.EVTQ_ABT_ERR
  irq,      \* m_combined_irq and the output that follows it
  ring,     \* the queue in memory
  drv,      \* the driver: where it reads next, the PROD it saw, its last record
  why       \* history: why the record was lost that gerror reports

regs == <<cr0, size, prod, cons, irqCtrl, gerror>>
vars == <<cr0, size, prod, cons, irqCtrl, gerror, irq, ring, drv, why>>

\* event_queue_index and event_queue_wrap, for the pointers below twice the
\* size that the device and the driver keep.
Index(n, p) == IF p < n THEN p ELSE p - n
Wrap(n, p) == p >= n

Pointers(n) == 0 .. 2 * n - 1

\* The pointer after p; its wrap bit is toggled after the last entry.
NextPointer(n, p) ==
  IF Index(n, p) + 1 = n THEN (IF Wrap(n, p) THEN 0 ELSE n) ELSE p + 1

EventQueueNextProdUnwrapped ==       \* Mutant: the wrap bit is kept.
  IF Index(size, prod) + 1 = size
  THEN (IF Wrap(size, prod) THEN size ELSE 0) ELSE prod + 1
event_queue_next_prod == NextPointer(size, prod)

Configured == "EVTQEN" \in cr0 /\ size > 0

FullByIndex ==                      \* Mutant: full only at the last entry.
  \/ ~Configured
  \/ Index(size, prod) + 1 = size /\ Index(size, cons) = 0
Full ==
  \/ ~Configured
  \/ /\ Index(size, prod) = Index(size, cons)
     /\ Wrap(size, prod) # Wrap(size, cons)

-----------------------------------------------------------------------------
(* The level update_irq computes from the registers.                       *)

Level(c, n, p, q, ctrl, err) ==
  \/ "GERROR" \in ctrl /\ err
  \/ "EVTQ" \in ctrl /\ "EVTQEN" \in c /\ n > 0 /\ p # q

UpdateIrqErrorsOnly ==              \* Mutant: pending records are left out.
  irq' = ("GERROR" \in irqCtrl' /\ gerror')
UpdateIrq == irq' = Level(cr0', size', prod', cons', irqCtrl', gerror')

-----------------------------------------------------------------------------
(* Requests of a TBU while the SMMU is enabled.  With SMMUEN clear they    *)
(* bypass it and change nothing here.                                      *)

record_event_queue_abort(cause) ==
  /\ gerror' = TRUE /\ why' = cause
  /\ UNCHANGED <<cr0, size, prod, cons, irqCtrl, ring>>
  /\ UpdateIrq

CompleteEventQueueWriteQuiet(e) ==  \* Mutant: update_irq is not called.
  /\ ring' = [ring EXCEPT ![Index(size, prod)] = e]
  /\ prod' = event_queue_next_prod
  /\ UNCHANGED <<cr0, size, cons, irqCtrl, gerror, irq, why>>
complete_event_queue_write(e) ==
  /\ ring' = [ring EXCEPT ![Index(size, prod)] = e]
  /\ prod' = event_queue_next_prod
  /\ UNCHANGED <<cr0, size, cons, irqCtrl, gerror, why>>
  /\ UpdateIrq

tbu_b_transport(e) ==
  /\ "SMMUEN" \in cr0
  /\ \/ Full /\ record_event_queue_abort("room")
     \/ ~Full /\ MemoryMayFail /\ record_event_queue_abort("memory")
     \/ ~Full /\ complete_event_queue_write(e)
  /\ UNCHANGED drv

-----------------------------------------------------------------------------
(* Register writes.  The driver sets size and pointers only while the      *)
(* queue is disabled, and enables a queue that it has made empty.          *)

Enabled == "EVTQEN" \in cr0

WriteBase(n) ==
  /\ ~Enabled
  /\ size' = n
  /\ UNCHANGED <<cr0, prod, cons, irqCtrl, gerror, irq, ring, drv, why>>

WriteProd(p) ==
  /\ ~Enabled
  /\ prod' = p
  /\ UNCHANGED <<cr0, size, cons, irqCtrl, gerror, irq, ring, drv, why>>

SetCons(p) ==
  /\ ~Enabled
  /\ cons' = p
  /\ drv' = [drv EXCEPT !.pos = p, !.seen = p]
  /\ UNCHANGED <<cr0, size, prod, irqCtrl, gerror, ring, why>>
  /\ UpdateIrq

WriteCr0(v) ==
  /\ ("EVTQEN" \in v /\ ~Enabled) =>
        /\ size # 0 => cons \in Pointers(size)
        /\ prod = cons /\ drv.pos = cons /\ drv.seen = cons
  /\ cr0' = v
  /\ UNCHANGED <<size, prod, cons, irqCtrl, gerror, irq, ring, drv, why>>

WriteIrqCtrl(v) ==
  /\ irqCtrl' = v
  /\ UNCHANGED <<cr0, size, prod, cons, gerror, ring, drv, why>>
  /\ UpdateIrq

WriteGerrorn ==
  /\ gerror' = FALSE /\ why' = "none"
  /\ UNCHANGED <<cr0, size, prod, cons, irqCtrl, ring, drv>>
  /\ UpdateIrq

-----------------------------------------------------------------------------
(* The driver's interrupt handler.                                         *)

ReadProd ==
  /\ Configured /\ irq /\ drv.pos = drv.seen
  /\ drv' = [drv EXCEPT !.seen = prod]
  /\ UNCHANGED <<regs, irq, ring, why>>

ReadEntry ==
  /\ Configured /\ drv.pos # drv.seen
  /\ drv' = [drv EXCEPT !.pos = NextPointer(size, drv.pos),
                        !.last = ring[Index(size, drv.pos)]]
  /\ UNCHANGED <<regs, irq, ring, why>>

\* The write of EVTQ_CONS, for what was read so far.
WriteCons ==
  /\ Configured /\ drv.pos # cons
  /\ cons' = drv.pos
  /\ UNCHANGED <<cr0, size, prod, irqCtrl, gerror, ring, drv, why>>
  /\ UpdateIrq

\* The reset input goes high; the driver starts over.
doreset ==
  /\ cr0' = {} /\ size' = 0 /\ prod' = 0 /\ cons' = 0
  /\ irqCtrl' = {} /\ gerror' = FALSE /\ irq' = FALSE /\ why' = "none"
  /\ drv' = [drv EXCEPT !.pos = 0, !.seen = 0]
  /\ UNCHANGED ring

-----------------------------------------------------------------------------

Positions == UNION {Pointers(n) : n \in Sizes}
Slots == UNION {0 .. n - 1 : n \in Sizes}

Init ==
  /\ cr0 = {} /\ size = 0 /\ prod = 0 /\ cons = 0
  /\ irqCtrl = {} /\ gerror = FALSE /\ irq = FALSE /\ why = "none"
  /\ ring = [i \in Slots |-> NoEvent]
  /\ drv = [pos |-> 0, seen |-> 0, last |-> NoEvent]

Device == \E e \in Events : tbu_b_transport(e)

Software ==
  \/ \E n \in Sizes \cup {0} : WriteBase(n)
  \/ \E p \in Starts : WriteProd(p) \/ SetCons(p)
  \/ \E v \in SUBSET {"EVTQEN", "SMMUEN"} : WriteCr0(v)
  \/ \E v \in SUBSET {"EVTQ", "GERROR"} : WriteIrqCtrl(v)
  \/ WriteGerrorn

Next == Device \/ Software \/ ReadProd \/ ReadEntry \/ WriteCons \/ doreset

Spec == Init /\ [][Next]_vars

\* The processor takes the interrupt while the line is high, and the handler
\* goes on; nobody else has to act.
Fairness == WF_vars(ReadProd) /\ WF_vars(ReadEntry)
FairSpec == Spec /\ Fairness

-----------------------------------------------------------------------------
(* Properties.                                                             *)

TypeOK ==
  /\ cr0 \subseteq {"EVTQEN", "SMMUEN"} /\ irqCtrl \subseteq {"EVTQ", "GERROR"}
  /\ size \in Sizes \cup {0}
  /\ prod \in Nat /\ cons \in Nat
  /\ gerror \in BOOLEAN /\ irq \in BOOLEAN
  /\ why \in {"none", "room", "memory"}
  /\ ring \in [Slots -> Events \cup {NoEvent}]
  /\ drv \in [pos : Nat, seen : Nat, last : Events \cup {NoEvent}]

\* How many records lie from pointer p to pointer q.
Distance(n, p, q) == IF p <= q THEN q - p ELSE q - p + 2 * n

\* The pointer k records after p.
At(n, p, k) == IF p + k < 2 * n THEN p + k ELSE p + k - 2 * n

\* The slots between the place where the driver reads next and PROD.
Unread == {i \in Slots :
             /\ Configured
             /\ \E k \in 0 .. Distance(size, drv.pos, prod) - 1 :
                  i = Index(size, At(size, drv.pos, k))}

\* While the queue stays enabled, no record is overwritten before the driver
\* has read it, wherever its handler is (event_queue_full before
\* event_queue_prod_entry_address, and the wrap bits of both pointers).
UnreadIsKept ==
  [][\A i \in Unread : Configured' => ring'[i] = ring[i]]_vars

\* The line is high while there is something to handle, although CR0, BASE
\* and PROD are written without update_irq.
IrqNotMissed == Level(cr0, size, prod, cons, irqCtrl, gerror) => irq

\* A record is read, as long as the queue and its interrupt stay enabled.
EventIsRead ==
  \A p \in Positions :
    (Configured /\ "EVTQ" \in irqCtrl /\ drv.pos = p /\ prod # p)
      ~> (drv.pos # p \/ ~Configured \/ "EVTQ" \notin irqCtrl)

\* The queue is a FIFO of its size: records reach the driver in order, once
\* and unchanged, and a loss happens only without room or when the memory
\* refuses the record, and is reported.
Room == IF Configured THEN size ELSE 0
Count == IF Configured THEN Distance(size, drv.pos, prod) ELSE 0
Held == IF Configured THEN Distance(size, cons, drv.pos) ELSE 0
UnreadRecords ==
  [k \in 1 .. Count |-> ring[Index(size, At(size, drv.pos, k - 1))]]
Lost == IF gerror THEN why ELSE "none"

Fifo == INSTANCE EventFifo WITH
  room <- Room, fifo <- UnreadRecords, held <- Held, last <- drv.last,
  lost <- Lost
ImplementsEventFifo == Fifo!Spec
=============================================================================
