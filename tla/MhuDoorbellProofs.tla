------------------------ MODULE MhuDoorbellProofs ------------------------
(***************************************************************************)
(* Proofs about the frames of mhu320ae.  First the doorbell pair, for      *)
(* every number of channels, every protocol and every configuration; then  *)
(* the RSE proxy, for every number of channels and every set of requests:  *)
(* it implements the service without channels.                             *)
(***************************************************************************)
EXTENDS MhuDoorbell, RsePsProxy, WellFoundedInduction, TLAPS

-----------------------------------------------------------------------------
(* Type correctness                                                        *)

\* Helpers of the frames keep a status or mask array well typed.
LEMMA BitsType ==
  ASSUME NEW st \in [Ch -> Words], NEW c, NEW v \in Words
  PROVE  /\ c \in Ch => SetBits(st, c, v) \in [Ch -> Words]
         /\ c \in Ch => ClearBits(st, c, v) \in [Ch -> Words]
         /\ Signalled(st, c, v) \in [Ch -> Words]
  BY DEF SetBits, ClearBits, Signalled, Words

\* The interrupts an acknowledgement raises are on its channel.
LEMMA AckType ==
  ASSUME NEW st, NEW c, NEW v
  PROVE  AckInterrupts(st, c, v) \subseteq {c}
  BY DEF AckInterrupts

\* The combined status of a frame is a Boolean.
LEMMA AssertedType ==
  ASSUME NEW a, NEW b
  PROVE  PbxAsserted(a, b) \in BOOLEAN /\ MbxAsserted(a, b) \in BOOLEAN
  BY DEF PbxAsserted, MbxAsserted

\* What load_mbx_message and clear_postbox_transfer leave is well typed.
LEMMA ReplyType ==
  ASSUME TypeOK, Reply
  PROVE  pst' \in [Ch -> Words] /\ pint' \in SUBSET Ch /\ mst' \in [Ch -> Words]
<1>1. pst' \in [Ch -> Words] /\ pint' \in SUBSET Ch
  BY ConstAssumption DEF Reply, TypeOK, Words, Ch, notify_channel
<1>2. CASE MbxPresent
  <2>1. PICK r \in Replies :
          mst' = [c \in Ch |-> IF c = notify_channel THEN NotifyValue ELSE r[c]]
    BY <1>2 DEF Reply
  <2>2. r \in [DataCh -> Words] /\ NotifyValue \in Words
    BY ConstAssumption
  <2>3. \A c \in Ch : c # notify_channel => c \in DataCh
    BY ConstAssumption DEF Ch, DataCh, notify_channel
  <2> QED BY <1>1, <2>1, <2>2, <2>3
<1>3. CASE ~MbxPresent
  BY <1>1, <1>3 DEF Reply, TypeOK
<1> QED BY <1>2, <1>3

\* Queueing a completion keeps the queue well typed.
LEMMA CompleteType ==
  ASSUME TypeOK, NEW c \in Ch, NEW v \in Words, Complete(c, v)
  PROVE  done' \in SUBSET Completions /\ doneEvent' \in BOOLEAN
  BY DEF Complete, TypeOK, Completions

\* The changes rpmsg_ns_worker makes to its own state keep it well typed.
LEMMA WorkerType ==
  ASSUME NEW n \in Workers
  PROVE  /\ \A l \in 0 .. MaxPosted : \A p \in {"event", "poll", "signal"} :
              [n EXCEPT !.last = l, !.sent = TRUE, !.polls = 0, !.pc = p] \in Workers
         /\ n.polls < MaxPolls =>
              [n EXCEPT !.pc = "poll", !.polls = @ + 1] \in Workers
         /\ [n EXCEPT !.event = FALSE, !.pending = FALSE, !.polls = 0] \in Workers
         /\ [n EXCEPT !.pending = FALSE, !.polls = 0] \in Workers
         /\ [n EXCEPT !.pc = "event", !.polls = 0] \in Workers
<1>1. 0 \in 0 .. MaxPolls
  BY ConstAssumption
<1>2. ASSUME NEW l \in 0 .. MaxPosted, NEW p \in {"event", "poll", "signal"}
      PROVE  [n EXCEPT !.last = l, !.sent = TRUE, !.polls = 0, !.pc = p] \in Workers
  BY <1>1 DEF Workers
<1>3. n.polls < MaxPolls => n.polls + 1 \in 0 .. MaxPolls
  BY ConstAssumption DEF Workers
<1>4. n.polls < MaxPolls => [n EXCEPT !.pc = "poll", !.polls = @ + 1] \in Workers
  BY <1>3 DEF Workers
<1>5. [n EXCEPT !.event = FALSE, !.pending = FALSE, !.polls = 0] \in Workers
  BY <1>1 DEF Workers
<1>6. [n EXCEPT !.pending = FALSE, !.polls = 0] \in Workers
  BY <1>1 DEF Workers
<1>7. [n EXCEPT !.pc = "event", !.polls = 0] \in Workers
  BY <1>1 DEF Workers
<1> QED BY <1>2, <1>4, <1>5, <1>6, <1>7

\* A poll leaves the worker and the ring well typed.
LEMMA PollType ==
  ASSUME TypeOK, NEW n \in Workers, n.polls < MaxPolls, Poll(n)
  PROVE  /\ ns' \in Workers
         /\ ring' \in Rings
         /\ mst' \in [Ch -> Words]
         /\ mirq' \in BOOLEAN
<1>1. ring.avail \in 0 .. MaxPosted
  BY DEF TypeOK, Rings
<1>2. ns' \in Workers
  <2>1. CASE BufferReady
    <3> DEFINE p == IF MbxPresent /\ NsSignalDelayed THEN "signal" ELSE "event"
    <3>1. ns' = [n EXCEPT !.last = ring.avail, !.sent = TRUE, !.polls = 0, !.pc = p]
      BY <2>1 DEF Poll
    <3>2. p \in {"event", "poll", "signal"}
      OBVIOUS
    <3> HIDE DEF p
    <3> QED BY <1>1, <3>1, <3>2, WorkerType
  <2>2. CASE ~BufferReady
    BY <2>2, WorkerType DEF Poll
  <2> QED BY <2>1, <2>2
<1>3. ring' \in Rings
  BY DEF Poll, Rings, IdxWrap, TypeOK
<1>4. mst' \in [Ch -> Words] /\ mirq' \in BOOLEAN
  BY ConstAssumption, BitsType, AssertedType
  DEF Poll, SignalNs, NoSignal, TypeOK
<1> QED BY <1>2, <1>3, <1>4

\* Ringing the postbox keeps the types, whatever the protocol.
LEMMA RingType ==
  ASSUME TypeOK, protocol' = protocol, NEW c \in Ch, NEW v \in Values, Ring(c, v)
  PROVE  TypeOK'
<1> USE ConstAssumption
<1>1. v \in Words OBVIOUS
<1>2. pirq' \in BOOLEAN /\ mirq' \in BOOLEAN /\ pen' = pen /\ mmask' = mmask
  BY AssertedType DEF Ring, UpdatePbxIrq, UpdateMbxIrq
<1>3. pst' \in [Ch -> Words] /\ mst' \in [Ch -> Words] /\ pint' \in SUBSET Ch
  <2>1. CASE Bridge(c, v) BY <1>1, <2>1, BitsType DEF Bridge, TypeOK
  <2>2. CASE Proxy(c, v) BY <1>1, <2>2, BitsType, ReplyType DEF Proxy, TypeOK
  <2>3. CASE AutoAck(c, v)
    BY <1>1, <2>3, BitsType, ReplyType DEF AutoAck, TypeOK
  <2>4. CASE Kick(c, v) BY <1>1, <2>4, BitsType, ReplyType DEF Kick, TypeOK
  <2> QED BY <2>1, <2>2, <2>3, <2>4 DEF Ring
<1>4. done' \in SUBSET Completions /\ doneEvent' \in BOOLEAN
  BY <1>1, CompleteType DEF Ring, Bridge, Proxy, AutoAck, Kick, worker, TypeOK
<1>5. ns' \in Workers /\ ring' \in Rings
  BY DEF Ring, Bridge, Proxy, AutoAck, Kick, ScheduleNs, worker, TypeOK, Workers
<1> QED BY <1>2, <1>3, <1>4, <1>5 DEF TypeOK

\* The kernel's processes keep the types.
LEMMA ProcessType ==
  ASSUME TypeOK, protocol' = protocol, EmitCompletions \/ NsEvent \/ NsResume \/ NsSignal
  PROVE  TypeOK'
<1> USE ConstAssumption
<1>1. CASE EmitCompletions
  <2>1. pint' \in SUBSET Ch
    <3>1. \A d \in done : d.channel \in Ch BY DEF TypeOK, Completions
    <3>2. \A d \in done : AckInterrupts(pst, d.channel, d.mask) \subseteq Ch
      BY <3>1, AckType
    <3> QED BY <1>1, <3>2 DEF EmitCompletions, TypeOK
  <2>2. pst' \in [Ch -> Words]
    BY <1>1 DEF EmitCompletions, TypeOK, Words
  <2> QED BY <1>1, <2>1, <2>2, AssertedType DEF EmitCompletions, UpdatePbxIrq, TypeOK
<1>2. CASE NsEvent
  <2>1. CASE ns.pc = "event" /\ ns.pending /\ ~ns.sent
    <3> DEFINE n == [ns EXCEPT !.event = FALSE, !.pending = FALSE, !.polls = 0]
    <3>1. n \in Workers BY WorkerType DEF TypeOK
    <3>2. n.polls < MaxPolls BY DEF TypeOK, Workers
    <3>3. Poll(n) BY <1>2, <2>1 DEF NsEvent
    <3> QED BY <1>2, <3>1, <3>2, <3>3, PollType DEF NsEvent, unpolled, TypeOK
  <2>2. CASE ~ (ns.pc = "event" /\ ns.pending /\ ~ns.sent)
    BY <1>2, <2>2 DEF NsEvent, unpolled, NoSignal, TypeOK, Workers
  <2> QED BY <2>1, <2>2
<1>3. CASE NsResume
  <2>1. CASE ns.polls < MaxPolls
    BY <1>3, <2>1, PollType DEF NsResume, unpolled, TypeOK
  <2>2. CASE ~ (ns.polls < MaxPolls) /\ ns.pending
    <3> DEFINE n == [ns EXCEPT !.pending = FALSE, !.polls = 0]
    <3>1. n \in Workers BY WorkerType DEF TypeOK
    <3>2. n.polls < MaxPolls BY DEF TypeOK, Workers
    <3>3. Poll(n) BY <1>3, <2>2 DEF NsResume
    <3> QED BY <1>3, <3>1, <3>2, <3>3, PollType DEF NsResume, unpolled, TypeOK
  <2>3. CASE ~ (ns.polls < MaxPolls) /\ ~ns.pending
    BY <1>3, <2>3, WorkerType DEF NsResume, unpolled, NoSignal, TypeOK
  <2> QED BY <2>1, <2>2, <2>3
<1>4. CASE NsSignal
  <2>1. mst' \in [Ch -> Words] /\ mirq' \in BOOLEAN
    BY <1>4, BitsType, AssertedType DEF NsSignal, SignalNs, NoSignal, TypeOK
  <2> QED BY <1>4, <2>1 DEF NsSignal, unpolled, TypeOK, Workers
<1> QED BY <1>1, <1>2, <1>3, <1>4

\* The mailbox's registers keep the types.
LEMMA MbxType ==
  ASSUME TypeOK, protocol' = protocol, NEW c \in Ch, NEW v \in Values,
         MbxClear(c, v) \/ MbxMask(c, v) \/ MbxUnmask(c, v)
  PROVE  TypeOK'
<1>1. v \in Words BY ConstAssumption
<1>2. CASE MbxClear(c, v)
  BY <1>1, <1>2, BitsType, AckType, AssertedType
  DEF MbxClear, UpdatePbxIrq, UpdateMbxIrq, worker, TypeOK
<1>3. CASE MbxMask(c, v)
  BY <1>1, <1>3, BitsType, AssertedType DEF MbxMask, UpdateMbxIrq, worker, TypeOK
<1>4. CASE MbxUnmask(c, v)
  BY <1>1, <1>4, BitsType, AssertedType DEF MbxUnmask, UpdateMbxIrq, worker, TypeOK
<1> QED BY <1>2, <1>3, <1>4

\* The postbox's interrupt registers and the host keep the types.
LEMMA PbxHostType ==
  ASSUME TypeOK, protocol' = protocol,
         \/ \E c \in Ch : ClearPbxInt(c) \/ EnablePbxInt(c)
         \/ HostPost \/ HostMakeReady
  PROVE  TypeOK'
<1>1. ASSUME NEW c \in Ch, ClearPbxInt(c) PROVE TypeOK'
  BY <1>1, AssertedType DEF ClearPbxInt, UpdatePbxIrq, worker, TypeOK
<1>2. ASSUME NEW c \in Ch, EnablePbxInt(c) PROVE TypeOK'
  BY <1>2, AssertedType DEF EnablePbxInt, UpdatePbxIrq, worker, TypeOK
<1>3. CASE HostPost
  BY <1>3, ConstAssumption DEF HostPost, frames, TypeOK, Rings
<1>4. CASE HostMakeReady
  BY <1>4 DEF HostMakeReady, frames, TypeOK, Rings
<1> QED BY <1>1, <1>2, <1>3, <1>4

\* Type correctness of the pair of frames, the completion queue and the
\* name-service worker (mhu320ae's members).
THEOREM TypeCorrect == Spec => []TypeOK
<1>1. Init => TypeOK
  <2> SUFFICES ASSUME Init PROVE TypeOK
    OBVIOUS
  <2>1. 0 \in 0 .. MaxPolls /\ 0 \in 0 .. MaxPosted
    BY ConstAssumption
  <2>2. ns \in Workers
    BY <2>1 DEF Init, Workers
  <2>3. ring \in Rings
    BY <2>1 DEF Init, Rings
  <2> QED BY <2>2, <2>3 DEF Init, TypeOK, Words
<1>2. TypeOK /\ [Next]_vars => TypeOK'
  <2> SUFFICES ASSUME TypeOK, [Next]_vars PROVE TypeOK'
    OBVIOUS
  <2>0. protocol' = protocol
    BY DEF Next, vars
  <2>1. CASE Software
    BY <2>0, <2>1, RingType, MbxType, PbxHostType DEF Software
  <2>2. CASE HostPost \/ HostMakeReady
    BY <2>0, <2>2, PbxHostType
  <2>3. CASE EmitCompletions \/ NsEvent \/ NsResume \/ NsSignal
    BY <2>0, <2>3, ProcessType
  <2>4. CASE UNCHANGED vars
    BY <2>4 DEF vars, TypeOK
  <2> QED BY <2>1, <2>2, <2>3, <2>4 DEF Next, Process
<1> QED BY <1>1, <1>2, PTL DEF Spec

-----------------------------------------------------------------------------
(* The interrupt lines.  The invariant is inductive as it stands, because  *)
(* every operation ends with update_combined_irq of the frames it changed. *)

\* The interrupt outputs of both frames are exact after every handler and
\* process of the pair (update_combined_irq).
THEOREM IrqLinesAreExact == Spec => []IrqLinesExact
<1>1. Init => IrqLinesExact
  BY DEF Init, IrqLinesExact, PbxAsserted, MbxAsserted
<1>2. IrqLinesExact /\ [Next]_vars => IrqLinesExact'
  <2> SUFFICES ASSUME IrqLinesExact, [Next]_vars PROVE IrqLinesExact'
    OBVIOUS
  <2>1. ASSUME NEW c \in Ch, NEW v \in Values, Ring(c, v) PROVE IrqLinesExact'
    BY <2>1 DEF Ring, UpdatePbxIrq, UpdateMbxIrq, IrqLinesExact
  <2>2. ASSUME NEW c \in Ch, NEW v \in Values,
               MbxClear(c, v) \/ MbxMask(c, v) \/ MbxUnmask(c, v)
        PROVE  IrqLinesExact'
    BY <2>2 DEF MbxClear, MbxMask, MbxUnmask, UpdatePbxIrq, UpdateMbxIrq, IrqLinesExact
  <2>3. ASSUME NEW c \in Ch, ClearPbxInt(c) \/ EnablePbxInt(c)
        PROVE  IrqLinesExact'
    BY <2>3 DEF ClearPbxInt, EnablePbxInt, UpdatePbxIrq, IrqLinesExact
  <2>4. CASE HostPost \/ HostMakeReady
    BY <2>4 DEF HostPost, HostMakeReady, frames, IrqLinesExact
  <2>5. CASE EmitCompletions
    BY <2>5 DEF EmitCompletions, UpdatePbxIrq, IrqLinesExact
  <2>6. CASE NsEvent \/ NsResume \/ NsSignal
    BY <2>6 DEF NsEvent, NsResume, NsSignal, Poll, SignalNs, NoSignal,
                unpolled, IrqLinesExact
  <2>7. CASE UNCHANGED vars
    BY <2>7 DEF vars, IrqLinesExact
  <2> QED BY <2>1, <2>2, <2>3, <2>4, <2>5, <2>6, <2>7 DEF Next, Process, Software
<1> QED BY <1>1, <1>2, PTL DEF Spec

-----------------------------------------------------------------------------
(* The completion queue of the synthetic pair                              *)

\* Bits rung are queued with them, and bits only leave the postbox
\* otherwise.
LEMMA OwnedStep ==
  ASSUME TypeOK, TransferIsOwned, [Next]_vars
  PROVE  TransferIsOwned'
<1>p. protocol' = protocol
  BY DEF Next, vars
<1> USE <1>p
<1>1. ASSUME NEW c \in Ch, NEW v \in Values, Ring(c, v) PROVE TransferIsOwned'
  <2>1. CASE Bridge(c, v)
    BY <2>1 DEF Bridge, worker, TransferIsOwned, Synthetic
  <2>2. CASE Proxy(c, v)
    BY <2>2 DEF Proxy, worker, TransferIsOwned, Synthetic
  <2>3. ASSUME Complete(c, v),
               pst' = SetBits(pst, c, v) \/ pst' = [x \in Ch |-> {}]
        PROVE  TransferIsOwned'
    <3>1. done' # {} => doneEvent'
      BY <2>3 DEF Complete, TransferIsOwned
    <3>2. ASSUME Synthetic, NEW x \in Ch, NEW b \in pst'[x]
          PROVE  \E d \in done' : d.channel = x /\ b \in d.mask
      <4>1. CASE b \in pst[x]
        BY <2>3, <3>2, <4>1 DEF Complete, TransferIsOwned
      <4>2. CASE b \notin pst[x]
        <5>1. x = c /\ b \in v
          BY <2>3, <3>2, <4>2 DEF SetBits, TypeOK
        <5>2. [channel |-> c, mask |-> v] \in done'
          BY <2>3, <5>1 DEF Complete
        <5> QED BY <5>1, <5>2
      <4> QED BY <4>1, <4>2
    <3> QED BY <3>1, <3>2 DEF TransferIsOwned, Synthetic
  <2>4. CASE AutoAck(c, v)
    <3>1. pst' = SetBits(pst, c, v) \/ pst' = [x \in Ch |-> {}]
      BY <2>4 DEF AutoAck, Reply
    <3>2. CASE MbxPresent
      BY <2>3, <2>4, <3>1, <3>2 DEF AutoAck
    <3>3. CASE ~MbxPresent
      BY <2>4, <3>3 DEF AutoAck, TransferIsOwned, Synthetic
    <3> QED BY <3>2, <3>3
  <2>5. CASE Kick(c, v)
    <3>1. pst' = SetBits(pst, c, v) \/ pst' = [x \in Ch |-> {}]
      BY <2>5 DEF Kick, Reply
    <3>2. CASE NsEnable
      BY <2>3, <2>5, <3>1, <3>2 DEF Kick
    <3>3. CASE ~NsEnable
      BY <2>5, <3>3 DEF Kick, TransferIsOwned, Synthetic
    <3> QED BY <3>2, <3>3
  <2> QED BY <1>1, <2>1, <2>2, <2>4, <2>5 DEF Ring
<1>2. ASSUME NEW c \in Ch, NEW v \in Values, MbxClear(c, v)
      PROVE  TransferIsOwned'
  BY <1>2 DEF MbxClear, ClearBits, worker, TransferIsOwned, Synthetic, TypeOK
<1>3. ASSUME pst' = pst, done' = done, doneEvent' = doneEvent
      PROVE  TransferIsOwned'
  BY <1>3 DEF TransferIsOwned, Synthetic
<1>4. ASSUME NEW c \in Ch, NEW v \in Values, MbxMask(c, v) \/ MbxUnmask(c, v)
      PROVE  TransferIsOwned'
  BY <1>3, <1>4 DEF MbxMask, MbxUnmask, worker
<1>5. ASSUME NEW c \in Ch, ClearPbxInt(c) \/ EnablePbxInt(c)
      PROVE  TransferIsOwned'
  BY <1>3, <1>5 DEF ClearPbxInt, EnablePbxInt, worker
<1>6. CASE EmitCompletions
  <2>1. Synthetic => \A c \in Ch : pst'[c] = {}
    BY <1>6 DEF EmitCompletions, TransferIsOwned, Synthetic
  <2> QED BY <1>6, <2>1 DEF EmitCompletions, TransferIsOwned, Synthetic
<1>7. CASE HostPost \/ HostMakeReady \/ NsEvent \/ NsResume \/ NsSignal \/ UNCHANGED vars
  BY <1>3, <1>7 DEF HostPost, HostMakeReady, frames, NsEvent, NsResume, NsSignal,
                    unpolled, vars
<1> QED BY <1>1, <1>2, <1>4, <1>5, <1>6, <1>7 DEF Next, Process, Software

\* Every transfer a synthetic pair shows as pending has a completion whose
\* event is notified (complete_synthetic_postbox_transfer).
THEOREM TransfersAreOwned == Spec => []TransferIsOwned
<1>1. Init => TransferIsOwned
  BY DEF Init, TransferIsOwned
<1>2. TypeOK /\ TransferIsOwned /\ [Next]_vars => TransferIsOwned'
  BY OwnedStep
<1> QED BY <1>1, <1>2, TypeCorrect, PTL DEF Spec

-----------------------------------------------------------------------------
(* The name-service worker                                                 *)

\* The strengthening that makes NsOnce and KickIsKept inductive: where the
\* worker is tells whether the announcement is out.
WorkerInv ==
  /\ KickIsKept
  /\ ns.pc = "poll" => ~ns.sent
  /\ ns.pc = "signal" => ns.sent
  /\ ring.used = IF ns.sent THEN 1 ELSE 0

\* A poll by a worker that has not announced keeps the invariant.
LEMMA PollWorker ==
  ASSUME TypeOK, NEW n \in Workers, Poll(n), ~n.sent, ~ns.sent, ring.used = 0
  PROVE  /\ ns'.pc = "poll" => ~ns'.sent
         /\ ns'.pc = "signal" => ns'.sent
         /\ ns'.pc = "poll" \/ ns'.sent
         /\ ring'.used = IF ns'.sent THEN 1 ELSE 0
<1>1. CASE BufferReady
  <2>1. ns'.sent = TRUE /\ ns'.pc \in {"signal", "event"}
    BY <1>1 DEF Poll, Workers
  <2>2. ring'.used = 1
    BY <1>1 DEF Poll, Rings, TypeOK, IdxWrap
  <2> QED BY <2>1, <2>2
<1>2. CASE ~BufferReady
  <2>1. ns'.sent = FALSE /\ ns'.pc = "poll"
    BY <1>2 DEF Poll, Workers
  <2> QED BY <1>2, <2>1 DEF Poll
<1> QED BY <1>1, <1>2

LEMMA WorkerStep ==
  ASSUME TypeOK, WorkerInv, [Next]_vars
  PROVE  WorkerInv'
<1>1. ASSUME ns' = ns, ring'.used = ring.used PROVE WorkerInv'
  BY <1>1 DEF WorkerInv, KickIsKept
<1>2. ASSUME NEW c \in Ch, NEW v \in Values, Ring(c, v) PROVE WorkerInv'
  <2>1. ring' = ring /\ ns' \in {ns, ScheduleNs}
    BY <1>2 DEF Ring, Bridge, Proxy, AutoAck, Kick, worker
  <2>2. CASE NsEnable /\ ~ns.sent /\ ns' = ScheduleNs
    <3>1. ns'.pc = ns.pc /\ ns'.sent = ns.sent /\ ns'.event = TRUE
      BY <2>2 DEF ScheduleNs, TypeOK, Workers
    <3> QED BY <2>1, <3>1 DEF WorkerInv, KickIsKept
  <2> QED BY <1>1, <2>1, <2>2 DEF ScheduleNs
<1>3. CASE \/ \E c \in Ch : ClearPbxInt(c) \/ EnablePbxInt(c)
           \/ \E c \in Ch, v \in Values : MbxClear(c, v) \/ MbxMask(c, v) \/ MbxUnmask(c, v)
           \/ EmitCompletions \/ UNCHANGED vars
  BY <1>1, <1>3 DEF ClearPbxInt, EnablePbxInt, MbxClear, MbxMask, MbxUnmask,
                    EmitCompletions, worker, vars
<1>4. CASE HostPost \/ HostMakeReady
  BY <1>1, <1>4 DEF HostPost, HostMakeReady, TypeOK, Rings
<1>5. CASE NsEvent
  <2>1. CASE ns.pc = "event" /\ ns.pending /\ ~ns.sent
    <3> DEFINE n == [ns EXCEPT !.event = FALSE, !.pending = FALSE, !.polls = 0]
    <3>1. n \in Workers BY WorkerType DEF TypeOK
    <3>2. n.sent = ns.sent BY DEF TypeOK, Workers
    <3>3. Poll(n) BY <1>5, <2>1 DEF NsEvent
    <3>4. ring.used = 0 BY <2>1 DEF WorkerInv
    <3> HIDE DEF n
    <3> QED BY <2>1, <3>1, <3>2, <3>3, <3>4, PollWorker DEF WorkerInv, KickIsKept
  <2>2. CASE ~ (ns.pc = "event" /\ ns.pending /\ ~ns.sent)
    <3>1. ns' = [ns EXCEPT !.event = FALSE] /\ ring' = ring
      BY <1>5, <2>2 DEF NsEvent
    <3>2. ns'.pc = ns.pc /\ ns'.sent = ns.sent /\ ns'.pending = ns.pending
      BY <3>1 DEF TypeOK, Workers
    <3>3. ns.pc \in {"event", "poll", "signal"}
      BY DEF TypeOK, Workers
    <3> QED BY <2>2, <3>1, <3>2, <3>3 DEF WorkerInv, KickIsKept
  <2> QED BY <2>1, <2>2
<1>6. CASE NsResume
  <2>0. ~ns.sent /\ ring.used = 0
    BY <1>6 DEF NsResume, WorkerInv
  <2>1. CASE ns.polls < MaxPolls
    <3>1. Poll(ns) /\ ns \in Workers BY <1>6, <2>1 DEF NsResume, TypeOK
    <3> QED BY <2>0, <3>1, PollWorker DEF WorkerInv, KickIsKept
  <2>2. CASE ~ (ns.polls < MaxPolls) /\ ns.pending
    <3> DEFINE n == [ns EXCEPT !.pending = FALSE, !.polls = 0]
    <3>1. n \in Workers BY WorkerType DEF TypeOK
    <3>2. n.sent = ns.sent BY DEF TypeOK, Workers
    <3>3. Poll(n) BY <1>6, <2>2 DEF NsResume
    <3> HIDE DEF n
    <3> QED BY <2>0, <3>1, <3>2, <3>3, PollWorker DEF WorkerInv, KickIsKept
  <2>3. CASE ~ (ns.polls < MaxPolls) /\ ~ns.pending
    <3>1. ns' = [ns EXCEPT !.pc = "event", !.polls = 0] /\ ring' = ring
      BY <1>6, <2>3 DEF NsResume
    <3>2. ns'.pc = "event" /\ ns'.sent = ns.sent /\ ns'.pending = ns.pending
      BY <3>1 DEF TypeOK, Workers
    <3> QED BY <2>0, <2>3, <3>1, <3>2 DEF WorkerInv, KickIsKept
  <2> QED BY <2>1, <2>2, <2>3
<1>7. CASE NsSignal
  <2>1. ns' = [ns EXCEPT !.pc = "event"] /\ ring' = ring /\ ns.sent
    BY <1>7 DEF NsSignal, WorkerInv
  <2>2. ns'.pc = "event" /\ ns'.sent = ns.sent
    BY <2>1 DEF TypeOK, Workers
  <2> QED BY <2>1, <2>2 DEF WorkerInv, KickIsKept
<1> QED BY <1>2, <1>3, <1>4, <1>5, <1>6, <1>7 DEF Next, Process, Software

LEMMA WorkerCorrect == Spec => []WorkerInv
<1>1. Init => WorkerInv
  BY DEF Init, WorkerInv, KickIsKept
<1>2. TypeOK /\ WorkerInv /\ [Next]_vars => WorkerInv'
  BY WorkerStep
<1> QED BY <1>1, <1>2, TypeCorrect, PTL DEF Spec

\* No kick is lost between schedule_rpmsg_ns_injection and rpmsg_ns_worker.
THEOREM KicksAreKept == Spec => []KickIsKept
<1>1. WorkerInv => KickIsKept BY DEF WorkerInv
<1> QED BY <1>1, WorkerCorrect, PTL

\* inject_rpmsg_ns_once publishes at most one announcement.
THEOREM NsIsSentOnce == Spec => []NsOnce
<1>1. WorkerInv => NsOnce BY DEF WorkerInv, NsOnce
<1> QED BY <1>1, WorkerCorrect, PTL

\* The name-service bit shows in the mailbox only after the announcement,
\* when nothing else of the pair rings it.
NsBitInv ==
  (/\ AckChannel # NsChannel \/ AckValue \cap NsValue = {}
   /\ Synthetic /\ ~DirectBoot /\ NsChannel \in Ch
   /\ mst[NsChannel] \cap NsValue # {}) => ns.sent

LEMMA NsBitStep ==
  ASSUME TypeOK, WorkerInv, NsBitInv, [Next]_vars
  PROVE  NsBitInv'
<1>p. protocol' = protocol
  BY DEF Next, vars
<1> USE <1>p
<1> SUFFICES ASSUME AckChannel # NsChannel \/ AckValue \cap NsValue = {},
                    Synthetic, ~DirectBoot, NsChannel \in Ch,
                    mst'[NsChannel] \cap NsValue # {}, ~ns'.sent
             PROVE  FALSE
  BY DEF NsBitInv, Synthetic
<1>0. ASSUME ns.sent PROVE FALSE
  <2>1. ns'.sent
    BY <1>0 DEF Next, Process, Software, Ring, Bridge, Proxy, AutoAck, Kick, ScheduleNs, MbxClear,
         MbxMask, MbxUnmask, ClearPbxInt, EnablePbxInt, HostPost, HostMakeReady,
         EmitCompletions, NsEvent, NsResume, NsSignal, Poll, worker, vars, TypeOK, Workers,
         WorkerInv
  <2> QED BY <2>1
<1>1. mst[NsChannel] \cap NsValue = {}
  BY <1>0 DEF NsBitInv
<1>2. ASSUME mst' = mst PROVE FALSE
  BY <1>1, <1>2
<1>3. ASSUME NEW c \in Ch, NEW v \in Values, Ring(c, v) PROVE FALSE
  <2>1. mst' = mst \/ mst' = Signalled(mst, AckChannel, AckValue)
    BY <1>3 DEF Ring, Bridge, Proxy, AutoAck, Kick, DirectReply, Synthetic
  <2> QED BY <1>1, <1>2, <2>1 DEF Signalled, SetBits, TypeOK
<1>4. ASSUME NEW c \in Ch, NEW v \in Values, MbxClear(c, v) PROVE FALSE
  BY <1>1, <1>4 DEF MbxClear, ClearBits, TypeOK
<1>5. CASE NsEvent \/ NsResume
  <2>1. ASSUME NEW n \in Workers, Poll(n) PROVE mst' = mst
    <3>1. CASE BufferReady
      <4>1. ns'.sent BY <2>1, <3>1 DEF Poll, Workers
      <4> QED BY <4>1
    <3>2. CASE ~BufferReady
      BY <2>1, <3>2 DEF Poll, NoSignal
    <3> QED BY <3>1, <3>2
  <2>2. ns \in Workers
    BY DEF TypeOK
  <2>3. mst' = mst
    BY <1>5, <2>1, <2>2, WorkerType DEF NsEvent, NsResume, NoSignal
  <2> QED BY <1>2, <2>3
<1>6. CASE NsSignal
  BY <1>0, <1>6 DEF NsSignal, WorkerInv
<1>7. CASE HostPost \/ HostMakeReady \/ EmitCompletions \/ UNCHANGED vars
  BY <1>2, <1>7 DEF HostPost, HostMakeReady, EmitCompletions, frames, vars
<1>8. ASSUME NEW c \in Ch, ClearPbxInt(c) \/ EnablePbxInt(c) PROVE FALSE
  BY <1>2, <1>8 DEF ClearPbxInt, EnablePbxInt
<1>9. ASSUME NEW c \in Ch, NEW v \in Values, MbxMask(c, v) \/ MbxUnmask(c, v) PROVE FALSE
  BY <1>2, <1>9 DEF MbxMask, MbxUnmask
<1> QED BY <1>3, <1>4, <1>5, <1>6, <1>7, <1>8, <1>9 DEF Next, Process, Software

\* The announcement is in the used ring before the host is rung for it
\* (inject_rpmsg_ns_once).
THEOREM NsIsPublishedFirst == Spec => []NsPublishedFirst
<1>1. Init => NsBitInv
  BY DEF Init, NsBitInv
<1>2. TypeOK /\ WorkerInv /\ NsBitInv /\ [Next]_vars => NsBitInv'
  BY NsBitStep
<1>3. WorkerInv /\ NsBitInv => NsPublishedFirst
  BY DEF WorkerInv, NsBitInv, NsPublishedFirst
<1> QED BY <1>1, <1>2, <1>3, TypeCorrect, WorkerCorrect, PTL DEF Spec

-----------------------------------------------------------------------------
(* The bridge                                                              *)

\* In a bridge neither the completion process nor the name-service worker
\* ever has anything to do.
BridgeInv ==
  (protocol = "doorbell-bridge" /\ MbxPresent) =>
    mst = pst /\ ~doneEvent /\ ~ns.event /\ ns.pc = "event"

\* The two frames of a bridge agree (write_postbox_doorbell and
\* clear_mbx_doorbell_channel).
THEOREM BridgeAlwaysAgrees == Spec => []BridgeAgrees
<1>1. Init => BridgeInv
  BY DEF Init, BridgeInv
<1>2. TypeOK /\ BridgeInv /\ [Next]_vars => BridgeInv'
  <2>p. ASSUME [Next]_vars PROVE protocol' = protocol
    BY <2>p DEF Next, vars
  <2> SUFFICES ASSUME TypeOK, BridgeInv, [Next]_vars,
                      protocol = "doorbell-bridge", MbxPresent
               PROVE  mst' = pst' /\ ~doneEvent' /\ ~ns'.event /\ ns'.pc = "event"
    BY <2>p DEF BridgeInv
  <2>0. mst = pst /\ ~doneEvent /\ ~ns.event /\ ns.pc = "event"
    BY DEF BridgeInv
  <2>1. ASSUME NEW c \in Ch, NEW v \in Values, Ring(c, v)
        PROVE  mst' = pst' /\ ns' = ns /\ doneEvent' = doneEvent
    <3>1. Bridge(c, v)
      BY <2>1 DEF Ring, Proxy, AutoAck, Kick
    <3> QED BY <2>0, <3>1 DEF Bridge, Signalled, worker
  <2>2. ASSUME NEW c \in Ch, NEW v \in Values,
               MbxClear(c, v) \/ MbxMask(c, v) \/ MbxUnmask(c, v)
        PROVE  mst' = pst' /\ ns' = ns /\ doneEvent' = doneEvent
    BY <2>0, <2>2 DEF MbxClear, MbxMask, MbxUnmask, worker
  <2>3. ASSUME NEW c \in Ch, ClearPbxInt(c) \/ EnablePbxInt(c)
        PROVE  mst' = pst' /\ ns' = ns /\ doneEvent' = doneEvent
    BY <2>0, <2>3 DEF ClearPbxInt, EnablePbxInt, worker
  <2>4. CASE HostPost \/ HostMakeReady \/ UNCHANGED vars
    BY <2>0, <2>4 DEF HostPost, HostMakeReady, frames, vars
  <2>5. ~ (EmitCompletions \/ NsEvent \/ NsResume \/ NsSignal)
    BY <2>0 DEF EmitCompletions, NsEvent, NsResume, NsSignal
  <2> QED BY <2>0, <2>1, <2>2, <2>3, <2>4, <2>5 DEF Next, Process, Software
<1>3. BridgeInv => BridgeAgrees
  BY DEF BridgeInv, BridgeAgrees
<1> QED BY <1>1, <1>2, <1>3, TypeCorrect, PTL DEF Spec

-----------------------------------------------------------------------------
(* The sender's interrupt                                                  *)

\* One step of the strict pair: a channel is interrupted only by a reply to a
\* notification in a direct boot, or by clearing bits that were pending.
LEMMA TxDoneStep ==
  ASSUME TypeOK, Next, StrictAck, protocol = "doorbell", NEW c \in pint' \ pint
  PROVE  pst[c] # pst'[c] \/ DirectReply(c, NotifyValue)
<1>1. ASSUME NEW ch \in Ch, NEW v \in Values, Ring(ch, v)
      PROVE  DirectReply(c, NotifyValue)
  BY <1>1 DEF Ring, Bridge, Proxy, AutoAck, Kick, Reply, DirectReply
<1>2. ASSUME NEW ch \in Ch, NEW v \in Values, MbxClear(ch, v)
      PROVE  pst[c] # pst'[c]
  <2>1. c = ch /\ pst[c] \cap v # {}
    BY <1>2 DEF MbxClear, AckInterrupts
  <2>2. pst'[c] = pst[c] \ v
    BY <1>2, <2>1 DEF MbxClear, ClearBits, TypeOK
  <2> QED BY <2>1, <2>2
<1>3. CASE EmitCompletions
  <2>1. PICK d \in done : c \in AckInterrupts(pst, d.channel, d.mask)
    BY <1>3 DEF EmitCompletions
  <2>2. c = d.channel /\ pst[c] \cap d.mask # {} /\ c \in Ch
    BY <2>1 DEF AckInterrupts, TypeOK, Completions
  <2>3. pst'[c] = pst[c] \ UNION {e.mask : e \in {f \in done : f.channel = c}}
    BY <1>3, <2>2 DEF EmitCompletions
  <2>4. d.mask \subseteq UNION {e.mask : e \in {f \in done : f.channel = c}}
    BY <2>1, <2>2
  <2> QED BY <2>2, <2>3, <2>4
<1>4. CASE \/ HostPost \/ HostMakeReady \/ NsEvent \/ NsResume \/ NsSignal
           \/ \E ch \in Ch, v \in Values : MbxMask(ch, v) \/ MbxUnmask(ch, v)
           \/ \E ch \in Ch : ClearPbxInt(ch) \/ EnablePbxInt(ch)
  BY <1>4 DEF HostPost, HostMakeReady, NsEvent, NsResume, NsSignal, MbxMask,
              MbxUnmask, ClearPbxInt, EnablePbxInt, frames, unpolled
<1> QED
  BY <1>1, <1>2, <1>3, <1>4 DEF Next, Software, Process

\* The strict pair never tells the sender that a transfer is done when none
\* was pending on that channel, however acknowledgements, synthetic
\* completions and replies interleave.
THEOREM TxDoneIsAlwaysReal == Spec => TxDoneIsReal
<1>1. TypeOK /\ [Next]_vars =>
        [(StrictAck /\ protocol = "doorbell") =>
           \A c \in pint' \ pint :
             pst[c] # pst'[c] \/ DirectReply(c, NotifyValue)]_vars
  BY TxDoneStep
<1> QED BY <1>1, TypeCorrect, PTL DEF Spec, TxDoneIsReal

-----------------------------------------------------------------------------
(* The RSE proxy: sequences of bytes                                       *)

\* The smaller of two numbers, in the two copies of Min.
LEMMA MinOfTwo ==
  ASSUME NEW a \in Int, NEW b \in Int
  PROVE  /\ Min({a, b}) = IF a <= b THEN a ELSE b
         /\ Service!Min({a, b}) = IF a <= b THEN a ELSE b
  BY DEF Min, Service!Min

\* Facts about byte sequences: the empty one, one with an input in it, the
\* start of one (bounded_bytes).
LEMMA OfEmpty == <<>> \in Bytes /\ Len(<<>>) = 0 /\ DOMAIN <<>> = {}
  BY DEF Bytes

LEMMA OfInput ==
  ASSUME NEW s \in Bytes, s # <<>>
  PROVE  Len(s) \in Nat \ {0} /\ s[1] \in Nat
  BY DEF Bytes

LEMMA OfFirst ==
  ASSUME NEW S, NEW s \in Seq(S), NEW n \in Nat
  PROVE  /\ First(s, n) \in Seq(S)
         /\ Len(First(s, n)) = IF n <= Len(s) THEN n ELSE Len(s)
         /\ \A i \in 1 .. Len(First(s, n)) : First(s, n)[i] = s[i]
  BY MinOfTwo DEF First

-----------------------------------------------------------------------------
(* The RSE proxy: the handlers                                             *)

\* What m_ps_store and m_measurements hold, whatever their keys.
StoreTyped(s) == \A u \in DOMAIN s : s[u] \in [data : Bytes, flags : Nat]
MeasTyped(m) ==
  \A k \in DOMAIN m :
    m[k] \in [locked : Nat, sw_type : Nat, signer_id : Bytes, version : Bytes,
              measurement : Bytes]

\* What a handler promises of its result h for request r in store s and
\* measurements m: an output for each vector, no larger than it was allowed,
\* no change unless it succeeds, changes only by the operations that make
\* them and at their key, and the storage operations do what they say.
Sound(r, s, m, h) ==
  /\ h.outs \in [1 .. Len(r.caps) -> Bytes]
  /\ h.status # "SUCCESS" => h.store = s /\ h.meas = m
  /\ h.status # "COMMUNICATION_FAILURE"
  /\ StoreTyped(h.store) /\ MeasTyped(h.meas)
  /\ h.store # s => /\ r.handle = "storage" /\ r.type \in {"set", "remove"}
                    /\ Service!SameBut(r.ins[1][1], s, h.store)
  /\ h.meas # m => /\ r.handle = "boot" /\ r.type = "extend"
                   /\ Service!SameBut(r.ins[1][1], m, h.meas)
  /\ h.status = "SUCCESS" => \A i \in 1 .. Len(r.caps) : Len(h.outs[i]) <= r.caps[i]
  /\ h.status = "SUCCESS" /\ r.handle = "storage" =>
       /\ r.type = "set" =>
            /\ r.ins[1][1] \in DOMAIN h.store
            /\ h.store[r.ins[1][1]] = [data |-> r.ins[2], flags |-> r.ins[3][1]]
       /\ r.type = "remove" => r.ins[1][1] \in DOMAIN s \ DOMAIN h.store
       /\ r.type = "get" =>
            /\ Len(r.caps) >= 1
            /\ \A i \in 2 .. Len(r.caps) : h.outs[i] = <<>>
            /\ Len(h.outs[1]) =
                 Min({r.caps[1], Len(s[r.ins[1][1]].data) - r.ins[2][1]})
            /\ \A i \in 1 .. Len(h.outs[1]) :
                 h.outs[1][i] = s[r.ins[1][1]].data[r.ins[2][1] + i]

\* A set of naturals that is not empty has a least member.
LEMMA LeastOf ==
  ASSUME NEW S \in SUBSET Nat, S # {}
  PROVE  Min(S) \in S
<1> DEFINE R == {ss \in Nat \X Nat : ss[1] < ss[2]}
<1>1. IsWellFoundedOn(R, Nat)  BY NatLessThanWellFounded DEF OpToRel
<1>2. \A x, y \in Nat : <<y, x>> \notin R => x <= y  OBVIOUS
<1> HIDE DEF R
<1>3. PICK x \in S : \A y \in S : ~ (<<y, x>> \in R)  BY <1>1, WFMin
<1>4. \A y \in S : x <= y  BY <1>2, <1>3
<1> QED  BY <1>4 DEF Min

\* A refusal promises little and keeps it.
LEMMA RefusedIsSound ==
  ASSUME NEW r, NEW status, NEW s, NEW m, StoreTyped(s), MeasTyped(m),
         status \notin {"SUCCESS", "COMMUNICATION_FAILURE"}
  PROVE  Sound(r, s, m, Refused(r, status, s, m))
<1>1. PICK h : h = Refused(r, status, s, m)  OBVIOUS
<1>2. /\ h.status = status /\ h.store = s /\ h.meas = m
      /\ h.outs \in [1 .. Len(r.caps) -> Bytes]
  BY <1>1, OfEmpty DEF Refused, NoOutputs
<1>3. Sound(r, s, m, h)  BY <1>2 DEF Sound
<1> QED BY <1>1, <1>3

\* What set_ps_output leaves: the values, whole, if all of them fit.
Given(r, values, s, m, h) ==
  /\ h.status \in {"SUCCESS", "INVALID_ARGUMENT"}
  /\ h.store = s /\ h.meas = m
  /\ h.outs \in [1 .. Len(r.caps) -> Bytes]
  /\ h.status = "SUCCESS" => \A i \in 1 .. Len(r.caps) :
       /\ Len(h.outs[i]) <= r.caps[i]
       /\ h.outs[i] = IF i <= Len(values) THEN values[i] ELSE <<>>

\* set_ps_output refuses what does not fit and keeps what came before it.
LEMMA AnsweredIs ==
  ASSUME NEW r \in Requests, NEW values \in Seq(Bytes), NEW s, NEW m,
         Len(values) <= Len(r.caps)
  PROVE  Given(r, values, s, m, Answered(r, values, s, m))
<1>0. PICK h : h = Answered(r, values, s, m)  OBVIOUS
<1> DEFINE misfit == {i \in 1 .. Len(values) : Len(values[i]) > r.caps[i]}
           given == IF misfit = {} THEN Len(values) ELSE Min(misfit) - 1
<1>1. /\ h.status = IF misfit = {} THEN "SUCCESS" ELSE "INVALID_ARGUMENT"
      /\ h.outs = [i \in 1 .. Len(r.caps) |-> IF i <= given THEN values[i] ELSE <<>>]
      /\ h.store = s /\ h.meas = m
  BY <1>0 DEF Answered
<1>2. Len(r.caps) \in Nat /\ \A i \in 1 .. Len(r.caps) : r.caps[i] \in Nat
  BY DEF Requests
<1>3. misfit # {} => Min(misfit) \in misfit
  <2> misfit \in SUBSET Nat  OBVIOUS
  <2> HIDE DEF misfit
  <2> QED BY LeastOf
<1>4. given \in 0 .. Len(values)
  BY <1>3
<1>5. \A i \in 1 .. given : values[i] \in Bytes
  BY <1>4
<1>6. h.outs \in [1 .. Len(r.caps) -> Bytes]
  <2> HIDE DEF misfit, given
  <2>1. \A i \in 1 .. Len(r.caps) :
          (IF i <= given THEN values[i] ELSE <<>>) \in Bytes
    BY <1>2, <1>4, <1>5, OfEmpty
  <2> QED BY <1>1, <2>1
<1>7. ASSUME misfit = {}, NEW i \in 1 .. Len(r.caps)
      PROVE  /\ h.outs[i] = IF i <= Len(values) THEN values[i] ELSE <<>>
             /\ Len(h.outs[i]) <= r.caps[i]
  <2>1. h.outs[i] = IF i <= Len(values) THEN values[i] ELSE <<>>
    BY <1>1, <1>7
  <2>2. i <= Len(values) => Len(values[i]) <= r.caps[i]
    BY <1>2, <1>7
  <2> QED BY <1>2, <2>1, <2>2, OfEmpty
<1>8. Given(r, values, s, m, h)
  <2> HIDE DEF misfit, given
  <2> QED BY <1>1, <1>6, <1>7 DEF Given
<1> QED BY <1>0, <1>8

\* So an answer that changes nothing is sound.
LEMMA AnsweredIsSound ==
  ASSUME NEW r \in Requests, NEW values \in Seq(Bytes), NEW s, NEW m,
         StoreTyped(s), MeasTyped(m), Len(values) <= Len(r.caps),
         r.handle # "storage" \/ r.type \notin {"set", "remove", "get"}
  PROVE  Sound(r, s, m, Answered(r, values, s, m))
<1>1. PICK h : h = Answered(r, values, s, m)  OBVIOUS
<1>2. Given(r, values, s, m, h)  BY <1>1, AnsweredIs
<1>3. Sound(r, s, m, h)  BY <1>2 DEF Sound, Given
<1> QED BY <1>1, <1>3

\* Each of the handlers is sound.
LEMMA SetIsSound ==
  ASSUME NEW r \in Requests, NEW s, NEW m, StoreTyped(s), MeasTyped(m),
         r.handle = "storage", r.type = "set"
  PROVE  Sound(r, s, m, ps_set(r, s, m))
<1>1. CASE ~ HasInputs(r, 3, {1, 3})
  BY <1>1, RefusedIsSound DEF ps_set
<1>2. CASE HasInputs(r, 3, {1, 3})
  <2> DEFINE e == [data |-> r.ins[2], flags |-> r.ins[3][1]]
             k == r.ins[1][1]
             t == Put(s, k, e)
  <2>1. Len(r.ins) >= 3 /\ r.ins[1] # <<>> /\ r.ins[3] # <<>> /\ r.ins \in Seq(Bytes)
    BY <1>2 DEF HasInputs, Requests
  <2>2. e \in [data : Bytes, flags : Nat]
    BY <2>1, OfInput
  <2> HIDE DEF e, k
  <2>3. k \in DOMAIN t /\ t[k] = e /\ Service!SameBut(k, s, t)
    BY DEF Put, Service!SameBut
  <2>4. StoreTyped(t)
    BY <2>2 DEF StoreTyped, Put
  <2> HIDE DEF t
  <2>5. PICK h : h = Refused(r, "SUCCESS", t, m)  OBVIOUS
  <2>6. h = ps_set(r, s, m)
    BY <1>2, <2>5 DEF ps_set, Accepted, t, e, k
  <2>7. \A i \in 1 .. Len(r.caps) : Len(h.outs[i]) <= r.caps[i]
    BY <2>5, OfEmpty DEF Requests, Refused, NoOutputs
  <2>8. /\ h.status = "SUCCESS" /\ h.store = t /\ h.meas = m
        /\ h.outs \in [1 .. Len(r.caps) -> Bytes]
    BY <2>5, OfEmpty DEF Refused, NoOutputs
  <2>9. Sound(r, s, m, h)
    BY <2>3, <2>4, <2>7, <2>8 DEF Sound, k, e
  <2> QED BY <2>6, <2>9
<1> QED BY <1>1, <1>2

LEMMA RemoveIsSound ==
  ASSUME NEW r \in Requests, NEW s, NEW m, StoreTyped(s), MeasTyped(m),
         r.handle = "storage", r.type = "remove"
  PROVE  Sound(r, s, m, ps_remove(r, s, m))
<1> DEFINE k == r.ins[1][1]
           t == Without(s, k)
<1>1. CASE ~ (HasInputs(r, 1, {1}) /\ k \in DOMAIN s)
  BY <1>1, RefusedIsSound DEF ps_remove
<1>2. CASE HasInputs(r, 1, {1}) /\ k \in DOMAIN s
  <2>1. k \notin DOMAIN t /\ Service!SameBut(k, s, t)
    BY DEF Without, Service!SameBut
  <2>2. StoreTyped(t)
    BY DEF StoreTyped, Without
  <2>3. PICK h : h = Refused(r, "SUCCESS", t, m)  OBVIOUS
  <2>4. h = ps_remove(r, s, m)
    BY <1>2, <2>3 DEF ps_remove, Accepted
  <2>5. \A i \in 1 .. Len(r.caps) : Len(h.outs[i]) <= r.caps[i]
    BY <2>3, OfEmpty DEF Requests, Refused, NoOutputs
  <2>6. /\ h.status = "SUCCESS" /\ h.store = t /\ h.meas = m
        /\ h.outs \in [1 .. Len(r.caps) -> Bytes]
    BY <2>3, OfEmpty DEF Refused, NoOutputs
  <2> HIDE DEF t
  <2>7. Sound(r, s, m, h)
    BY <1>2, <2>1, <2>2, <2>5, <2>6 DEF Sound
  <2> QED BY <2>4, <2>7
<1> QED BY <1>1, <1>2

\* The part of the stored data from an offset on.
LEMMA OfRest ==
  ASSUME NEW data \in Seq(Nat), NEW from \in 0 .. Len(data)
  PROVE  LET rest == SubSeq(data, from + 1, Len(data)) IN
         /\ rest \in Seq(Nat) /\ Len(rest) = Len(data) - from
         /\ \A i \in 1 .. Len(rest) : rest[i] = data[from + i]
  OBVIOUS

LEMMA GetIsSound ==
  ASSUME NEW r \in Requests, NEW s, NEW m, StoreTyped(s), MeasTyped(m),
         r.handle = "storage", r.type = "get"
  PROVE  Sound(r, s, m, ps_get(r, s, m))
<1> DEFINE k == r.ins[1][1]
           from == r.ins[2][1]
           data == s[k].data
           rest == SubSeq(data, from + 1, Len(data))
           values == <<First(rest, r.caps[1])>>
           can == /\ HasInputs(r, 2, {1, 2}) /\ r.caps # <<>>
                  /\ k \in DOMAIN s /\ from <= Len(data)
<1>0. r.caps \in Seq(Nat) /\ r.ins \in Seq(Bytes)
  BY DEF Requests
<1>1. HasInputs(r, 2, {1, 2}) => k \in Nat /\ from \in Nat
  BY <1>0, OfInput DEF HasInputs
<1>2. HasInputs(r, 2, {1, 2}) /\ k \in DOMAIN s => data \in Seq(Nat)
  BY <1>1 DEF StoreTyped, Bytes
<1>3. CASE ~ can
  <2>1. ps_get(r, s, m) \in {Refused(r, st, s, m) : st \in {"INVALID_ARGUMENT", "DOES_NOT_EXIST"}}
    BY <1>1, <1>2, <1>3 DEF ps_get
  <2> QED BY <2>1, RefusedIsSound
<1>4. CASE can
  <2>1. Len(r.caps) \in Nat \ {0} /\ r.caps[1] \in Nat
    BY <1>0, <1>4
  <2>2. /\ rest \in Seq(Nat) /\ Len(rest) = Len(data) - from
        /\ \A i \in 1 .. Len(rest) : rest[i] = data[from + i]
    <3>1. data \in Seq(Nat) /\ from \in 0 .. Len(data)
      BY <1>1, <1>2, <1>4
    <3> HIDE DEF data, from
    <3> QED BY <3>1, OfRest
  <2>3. PICK v : v = First(rest, r.caps[1])  OBVIOUS
  <2>4. /\ v \in Bytes
        /\ Len(v) = IF r.caps[1] <= Len(data) - from THEN r.caps[1] ELSE Len(data) - from
        /\ \A i \in 1 .. Len(v) : v[i] = data[from + i]
    <3> HIDE DEF rest, data, from
    <3>1. Len(data) \in Nat /\ from \in Nat /\ from <= Len(data)
      BY <1>1, <1>2, <1>4
    <3>2. /\ v \in Seq(Nat)
          /\ Len(v) = IF r.caps[1] <= Len(rest) THEN r.caps[1] ELSE Len(rest)
          /\ \A i \in 1 .. Len(v) : v[i] = rest[i]
      BY <2>1, <2>2, <2>3, OfFirst
    <3>3. \A i \in 1 .. Len(v) : i \in 1 .. Len(rest)
      BY <2>1, <2>2, <3>1, <3>2
    <3> QED BY <2>2, <3>2, <3>3 DEF Bytes
  <2>5. Len(v) = Min({r.caps[1], Len(data) - from})
    <3>1. Len(data) \in Nat /\ from \in Nat
      BY <1>1, <1>2, <1>4
    <3> HIDE DEF data, from
    <3> QED BY <2>1, <2>4, <3>1, MinOfTwo
  <2>6. PICK h : h = Answered(r, <<v>>, s, m)  OBVIOUS
  <2>7. h = ps_get(r, s, m)
    BY <1>1, <1>2, <1>4, <2>3, <2>6 DEF ps_get
  <2>8. <<v>> \in Seq(Bytes) /\ Len(<<v>>) = 1 /\ <<v>>[1] = v
    BY <2>4
  <2>9. Given(r, <<v>>, s, m, h)
    <3>1. Len(<<v>>) <= Len(r.caps)  BY <2>1, <2>8
    <3> HIDE DEF data, from, k
    <3> QED BY <2>6, <2>8, <3>1, AnsweredIs
  <2>10. h.status = "SUCCESS" => h.outs[1] = v /\ \A i \in 2 .. Len(r.caps) : h.outs[i] = <<>>
    BY <2>1, <2>8, <2>9 DEF Given
  <2> HIDE DEF data, from, k
  <2>11. h.status = "SUCCESS" =>
           /\ Len(h.outs[1]) = Min({r.caps[1], Len(data) - from})
           /\ \A i \in 1 .. Len(h.outs[1]) : h.outs[1][i] = data[from + i]
    BY <2>4, <2>5, <2>10
  <2>12. Sound(r, s, m, h)
    <3>1. /\ h.outs \in [1 .. Len(r.caps) -> Bytes]
          /\ h.status # "COMMUNICATION_FAILURE"
          /\ h.store = s /\ h.meas = m
          /\ h.status = "SUCCESS" =>
               \A i \in 1 .. Len(r.caps) : Len(h.outs[i]) <= r.caps[i]
      BY <2>9 DEF Given
    <3> QED BY <2>1, <2>10, <2>11, <3>1 DEF Sound, data, from, k
  <2> QED BY <2>7, <2>12
<1> QED BY <1>3, <1>4

LEMMA InfoIsSound ==
  ASSUME NEW r \in Requests, NEW s, NEW m, StoreTyped(s), MeasTyped(m),
         r.handle = "storage", r.type = "info"
  PROVE  Sound(r, s, m, ps_get_info(r, s, m))
<1> DEFINE k == r.ins[1][1]
           v == <<Len(s[k].data), Len(s[k].data), s[k].flags>>
           can == HasInputs(r, 1, {1}) /\ r.caps # <<>> /\ k \in DOMAIN s
<1>0. r.caps \in Seq(Nat)
  BY DEF Requests
<1>1. CASE ~ can
  <2>1. ps_get_info(r, s, m) \in {Refused(r, st, s, m) : st \in {"INVALID_ARGUMENT", "DOES_NOT_EXIST"}}
    BY <1>1 DEF ps_get_info
  <2> QED BY <2>1, RefusedIsSound
<1>2. CASE can
  <2>1. <<v>> \in Seq(Bytes) /\ Len(<<v>>) = 1
    BY <1>2 DEF StoreTyped, Bytes
  <2>2. Len(r.caps) >= 1
    BY <1>0, <1>2
  <2>3. Sound(r, s, m, Answered(r, <<v>>, s, m))
    <3> HIDE DEF v
    <3> QED BY <2>1, <2>2, AnsweredIsSound
  <2> QED BY <1>2, <2>3 DEF ps_get_info
<1> QED BY <1>1, <1>2

LEMMA SupportIsSound ==
  ASSUME NEW r \in Requests, NEW s, NEW m, StoreTyped(s), MeasTyped(m),
         r.handle = "storage", r.type = "support"
  PROVE  Sound(r, s, m, ps_get_support(r, s, m))
<1>1. CASE r.caps = <<>>
  BY <1>1, RefusedIsSound DEF ps_get_support
<1>2. CASE r.caps # <<>>
  <2>1. <<<<0>>>> \in Seq(Bytes) /\ Len(<<<<0>>>>) = 1
    BY DEF Bytes
  <2>2. Len(r.caps) >= 1
    BY <1>2 DEF Requests
  <2>3. Sound(r, s, m, Answered(r, <<<<0>>>>, s, m))
    BY <2>1, <2>2, AnsweredIsSound
  <2> QED BY <1>2, <2>3 DEF ps_get_support
<1> QED BY <1>1, <1>2

LEMMA ExtendIsSound ==
  ASSUME NEW r \in Requests, NEW s, NEW m, StoreTyped(s), MeasTyped(m),
         r.handle = "boot", r.type = "extend"
  PROVE  Sound(r, s, m, boot_extend(r, s, m))
<1> DEFINE k == r.ins[1][1]
           can == Len(r.ins) >= 4 /\ Len(r.ins[1]) >= 3 /\ k < Slots
<1>0. r.ins \in Seq(Bytes) /\ Len(r.ins) \in Nat
  BY DEF Requests
<1>1. Len(r.ins) >= 4 => \A i \in 1 .. 4 : r.ins[i] \in Seq(Nat)
  BY <1>0 DEF Bytes
<1>2. CASE ~ can
  <2>1. boot_extend(r, s, m) = Refused(r, "INVALID_ARGUMENT", s, m)
    BY <1>0, <1>1, <1>2, HandlerAssumption DEF boot_extend, Flag
  <2> QED BY <2>1, RefusedIsSound
<1>3. CASE can
  <2> DEFINE e == [locked |-> Flag(r.ins[1][2]), sw_type |-> r.ins[1][3],
                   signer_id |-> First(r.ins[2], MaxField),
                   version |-> First(r.ins[3], MaxField),
                   measurement |-> First(r.ins[4], MaxField)]
             t == Put(m, k, e)
  <2>1. \A i \in 2 .. 4 : First(r.ins[i], MaxField) \in Bytes
    <3> SUFFICES ASSUME NEW i \in 2 .. 4
                 PROVE  First(r.ins[i], MaxField) \in Bytes
      OBVIOUS
    <3>1. r.ins[i] \in Seq(Nat)  BY <1>1, <1>3
    <3>2. MaxField \in Nat  BY HandlerAssumption
    <3> QED BY <3>1, <3>2, OfFirst DEF Bytes
  <2>2. r.ins[1][2] \in Nat /\ r.ins[1][3] \in Nat
    <3>1. r.ins[1] \in Seq(Nat) /\ Len(r.ins[1]) >= 3  BY <1>1, <1>3
    <3>2. \A q \in Seq(Nat) : Len(q) >= 3 => q[2] \in Nat /\ q[3] \in Nat  OBVIOUS
    <3> QED BY <3>1, <3>2
  <2>3. e \in [locked : Nat, sw_type : Nat, signer_id : Bytes, version : Bytes,
               measurement : Bytes]
    BY <2>1, <2>2 DEF Flag
  <2>4. PICK h : h = Refused(r, "SUCCESS", s, t)  OBVIOUS
  <2>5. h = boot_extend(r, s, m)
    <3>1. r.ins[1] \in Seq(Nat) /\ Len(r.ins[1]) >= 3  BY <1>1, <1>3
    <3>2. k \in Nat  BY <3>1
    <3>3. ~ (Len(r.ins) < 4 \/ (Len(r.ins) >= 4 /\ Len(r.ins[1]) < 3)) /\ ~ (k >= Slots)
      BY <1>0, <1>3, <3>1, <3>2, HandlerAssumption
    <3> QED BY <2>4, <3>3 DEF boot_extend, Accepted
  <2> HIDE DEF e, k
  <2>6. Service!SameBut(k, m, t)
    BY DEF Put, Service!SameBut
  <2>7. MeasTyped(t)
    BY <2>3 DEF MeasTyped, Put
  <2>8. /\ h.status = "SUCCESS" /\ h.store = s /\ h.meas = t
        /\ h.outs \in [1 .. Len(r.caps) -> Bytes]
    BY <2>4, OfEmpty DEF Refused, NoOutputs
  <2>9. \A i \in 1 .. Len(r.caps) : Len(h.outs[i]) <= r.caps[i]
    BY <2>4, OfEmpty DEF Requests, Refused, NoOutputs
  <2> HIDE DEF t
  <2>10. Sound(r, s, m, h)
    BY <2>6, <2>7, <2>8, <2>9 DEF Sound, k
  <2> QED BY <2>5, <2>10
<1> QED BY <1>2, <1>3

\* The metadata of a measurement, padded, is a sequence of bytes.
LEMMA OfMetadata ==
  ASSUME NEW e \in [locked : Nat, sw_type : Nat, signer_id : Bytes,
                    version : Bytes, measurement : Bytes]
  PROVE  Metadata(e) \in Bytes
<1> DEFINE pad == [i \in 1 .. MaxField |->
                     IF i <= Len(e.version) THEN e.version[i] ELSE 0]
<1>1. e.version \in Seq(Nat)  BY DEF Bytes
<1>2. pad \in Seq(Nat)
  <2>1. \A i \in 1 .. MaxField :
          (IF i <= Len(e.version) THEN e.version[i] ELSE 0) \in Nat
    BY <1>1, HandlerAssumption
  <2> QED BY <2>1, HandlerAssumption
<1>3. <<e.locked, e.sw_type>> \in Seq(Nat) /\ <<Len(e.version)>> \in Seq(Nat)
  BY <1>1
<1> HIDE DEF pad
<1>4. <<e.locked, e.sw_type>> \o pad \o <<Len(e.version)>> \in Seq(Nat)
  BY <1>2, <1>3
<1> QED BY <1>4 DEF Metadata, Bytes, pad

LEMMA ReadIsSound ==
  ASSUME NEW r \in Requests, NEW s, NEW m, StoreTyped(s), MeasTyped(m),
         r.handle = "boot", r.type = "read"
  PROVE  Sound(r, s, m, boot_read(r, s, m))
<1> DEFINE k == r.ins[1][1]
           e == m[k]
           all == <<Metadata(e), e.measurement, e.signer_id>>
           values == First(all, Len(r.caps))
           can == HasInputs(r, 1, {1}) /\ r.caps # <<>> /\ k \in DOMAIN m
<1>0. r.caps \in Seq(Nat) /\ Len(r.caps) \in Nat
  BY DEF Requests
<1>1. CASE ~ can
  <2>1. boot_read(r, s, m) \in {Refused(r, st, s, m) : st \in {"INVALID_ARGUMENT", "DOES_NOT_EXIST"}}
    BY <1>1 DEF boot_read
  <2> QED BY <2>1, RefusedIsSound
<1>2. CASE can
  <2>1. e \in [locked : Nat, sw_type : Nat, signer_id : Bytes, version : Bytes,
               measurement : Bytes]
    BY <1>2 DEF MeasTyped
  <2>2. boot_read(r, s, m) = Answered(r, values, s, m)
    BY <1>2 DEF boot_read
  <2> HIDE DEF e
  <2>3. all \in Seq(Bytes)
    BY <2>1, OfMetadata
  <2> HIDE DEF all
  <2>4. values \in Seq(Bytes) /\ Len(values) <= Len(r.caps)
    BY <1>0, <2>3, OfFirst
  <2> HIDE DEF values
  <2>5. Sound(r, s, m, Answered(r, values, s, m))
    BY <2>4, AnsweredIsSound
  <2> QED BY <2>2, <2>5
<1> QED BY <1>1, <1>2

LEMMA QueryIsSound ==
  ASSUME NEW r \in Requests, NEW s, NEW m, StoreTyped(s), MeasTyped(m),
         r.handle = "update", r.type = "query"
  PROVE  Sound(r, s, m, fwu_query(r, s, m))
<1> DEFINE k == r.ins[1][1]
           v == fwu_component_info(k)
           can == HasInputs(r, 1, {1}) /\ r.caps # <<>> /\ k < ComponentCount
<1>0. r.caps \in Seq(Nat) /\ r.ins \in Seq(Bytes)
  BY DEF Requests
<1>1. HasInputs(r, 1, {1}) => k \in Nat
  BY <1>0, OfInput DEF HasInputs
<1>2. CASE ~ can
  <2>1. fwu_query(r, s, m) \in {Refused(r, st, s, m) : st \in {"INVALID_ARGUMENT", "DOES_NOT_EXIST"}}
    BY <1>1, <1>2 DEF fwu_query, ComponentCount
  <2> QED BY <2>1, RefusedIsSound
<1>3. CASE can
  <2>1. k \in 0 .. 4
    BY <1>1, <1>3 DEF ComponentCount
  <2>2. fwu_query(r, s, m) = Answered(r, <<v>>, s, m)
    BY <1>1, <1>3 DEF fwu_query, ComponentCount
  <2> HIDE DEF k
  <2>3. v \in Bytes
    BY <2>1 DEF fwu_component_info, Bytes
  <2>4. <<v>> \in Seq(Bytes) /\ Len(<<v>>) = 1
    BY <2>3
  <2>5. Len(r.caps) >= 1
    BY <1>0, <1>3
  <2> HIDE DEF v
  <2>6. Sound(r, s, m, Answered(r, <<v>>, s, m))
    BY <2>4, <2>5, AnsweredIsSound
  <2> QED BY <2>2, <2>6
<1> QED BY <1>2, <1>3

\* handle_rse_ps_request is sound for every handle and type.
LEMMA HandlerIsSound ==
  ASSUME NEW r \in Requests, NEW s, NEW m, StoreTyped(s), MeasTyped(m)
  PROVE  Sound(r, s, m, handle_rse_ps_request(r, s, m))
<1> DEFINE h == handle_rse_ps_request(r, s, m)
           is(a, b) == r.handle = a /\ r.type = b
<1>1. CASE is("storage", "set")     BY <1>1, SetIsSound DEF handle_rse_ps_request
<1>2. CASE is("storage", "get")     BY <1>2, GetIsSound DEF handle_rse_ps_request
<1>3. CASE is("storage", "info")    BY <1>3, InfoIsSound DEF handle_rse_ps_request
<1>4. CASE is("storage", "remove")  BY <1>4, RemoveIsSound DEF handle_rse_ps_request
<1>5. CASE is("storage", "support") BY <1>5, SupportIsSound DEF handle_rse_ps_request
<1>6. CASE is("boot", "extend")     BY <1>6, ExtendIsSound DEF handle_rse_ps_request
<1>7. CASE is("boot", "read")       BY <1>7, ReadIsSound DEF handle_rse_ps_request
<1>8. CASE is("update", "query")    BY <1>8, QueryIsSound DEF handle_rse_ps_request
<1>9. CASE /\ ~ is("storage", "set") /\ ~ is("storage", "get")
           /\ ~ is("storage", "info") /\ ~ is("storage", "remove")
           /\ ~ is("storage", "support") /\ ~ is("boot", "extend")
           /\ ~ is("boot", "read") /\ ~ is("update", "query")
  <2>1. h = Refused(r, "NOT_SUPPORTED", s, m)
    BY <1>9 DEF handle_rse_ps_request
  <2> QED BY <2>1, RefusedIsSound
<1> QED BY <1>1, <1>2, <1>3, <1>4, <1>5, <1>6, <1>7, <1>8, <1>9

-----------------------------------------------------------------------------
(* The RSE proxy: the reply                                                *)

\* The outputs follow each other in the message: w joins the at most four
\* sequences of q, and starts with the first.
Part(q, i) == IF i <= Len(q) THEN q[i] ELSE <<>>
Joined(q, w) ==
  /\ w \in Bytes
  /\ Len(w) = Len(Part(q, 1)) + Len(Part(q, 2)) + Len(Part(q, 3)) + Len(Part(q, 4))
  /\ \A i \in 1 .. Len(Part(q, 1)) : w[i] = q[1][i]

\* Concatenation keeps what is in front.
LEMMA OfConcat ==
  ASSUME NEW a \in Bytes, NEW b \in Bytes
  PROVE  /\ a \o b \in Bytes /\ Len(a \o b) = Len(a) + Len(b)
         /\ \A i \in 1 .. Len(a) : (a \o b)[i] = a[i]
  BY DEF Bytes

Prefixed(a, w, n) == w \in Bytes /\ Len(w) = n /\ \A i \in 1 .. Len(a) : w[i] = a[i]

LEMMA PrefixedConcat ==
  ASSUME NEW a \in Bytes, NEW n \in Nat, NEW w, Prefixed(a, w, n), Len(a) <= n,
         NEW b \in Bytes
  PROVE  Prefixed(a, w \o b, n + Len(b))
<1>1. w \in Bytes /\ Len(w) = n /\ \A i \in 1 .. Len(a) : w[i] = a[i]
  BY DEF Prefixed
<1>2. /\ w \o b \in Bytes /\ Len(w \o b) = n + Len(b)
      /\ \A i \in 1 .. n : (w \o b)[i] = w[i]
  BY <1>1, OfConcat
<1>3. Len(a) \in Nat
  BY DEF Bytes
<1>4. \A i \in 1 .. Len(a) : i \in 1 .. n
  BY <1>3
<1> QED BY <1>1, <1>2, <1>4 DEF Prefixed

\* F is the loop of FlattenSeq over q.
IsJoin(q, F) ==
  \A i \in 1 .. Len(q) : F[i] = IF i = 1 THEN q[i] ELSE F[i - 1] \o q[i]

\* What the loop ends with joins the sequences,
LEMMA JoinIs ==
  ASSUME NEW q \in Seq(Bytes), Len(q) \in 1 .. 4, NEW F,
         IsJoin(q, F)
  PROVE  Joined(q, F[Len(q)])
<1> DEFINE l(i) == Len(q[i])
<1>0. /\ \A i \in 1 .. Len(q) : q[i] \in Bytes /\ l(i) \in Nat
      /\ Len(<<>>) = 0
  BY OfEmpty DEF Bytes
<1>1. /\ F[1] = q[1]
      /\ Len(q) >= 2 => F[2] = F[1] \o q[2]
      /\ Len(q) >= 3 => F[3] = F[2] \o q[3]
      /\ Len(q) >= 4 => F[4] = F[3] \o q[4]
  <2> DEFINE G(i) == F[i - 1] \o q[i]
  <2>1. \A i \in 1 .. Len(q) : F[i] = IF i = 1 THEN q[i] ELSE G(i)
    BY DEF IsJoin
  <2>2. G(2) = F[1] \o q[2] /\ G(3) = F[2] \o q[3] /\ G(4) = F[3] \o q[4]
    OBVIOUS
  <2> HIDE DEF G
  <2>3. /\ F[1] = q[1]
        /\ Len(q) >= 2 => F[2] = G(2)
        /\ Len(q) >= 3 => F[3] = G(3)
        /\ Len(q) >= 4 => F[4] = G(4)
    BY <2>1
  <2> QED BY <2>2, <2>3, Zenon
<1>2. Prefixed(q[1], F[1], l(1))
  BY <1>0, <1>1 DEF Prefixed
<1>3. ASSUME Len(q) >= 2 PROVE Prefixed(q[1], F[2], l(1) + l(2))
  <2>1. F[2] = F[1] \o q[2]  BY <1>1, <1>3, Zenon
  <2>2. q[2] \in Bytes /\ q[1] \in Bytes /\ l(1) \in Nat /\ l(1) <= l(1)
    BY <1>0, <1>3
  <2>3. Prefixed(q[1], F[1] \o q[2], l(1) + l(2))
    BY <1>2, <2>2, PrefixedConcat
  <2> QED BY <2>1, <2>3, Zenon
<1>4. ASSUME Len(q) >= 3 PROVE Prefixed(q[1], F[3], l(1) + l(2) + l(3))
  <2>1. F[3] = F[2] \o q[3]  BY <1>1, <1>4, Zenon
  <2>2. /\ q[3] \in Bytes /\ q[1] \in Bytes
        /\ l(1) + l(2) \in Nat /\ l(1) <= l(1) + l(2) /\ Len(q) >= 2
    <3>1. 1 \in 1 .. Len(q) /\ 2 \in 1 .. Len(q) /\ 3 \in 1 .. Len(q)  BY <1>4
    <3>2. q[1] \in Bytes /\ q[3] \in Bytes /\ l(1) \in Nat /\ l(2) \in Nat
      BY <1>0, <3>1
    <3>3. Len(q) >= 2  BY <1>4
    <3> HIDE DEF l
    <3> QED BY <3>2, <3>3
  <2>3. Prefixed(q[1], F[2] \o q[3], l(1) + l(2) + l(3))
    BY <1>3, <2>2, PrefixedConcat
  <2> QED BY <2>1, <2>3, Zenon
<1>5. ASSUME Len(q) >= 4 PROVE Prefixed(q[1], F[4], l(1) + l(2) + l(3) + l(4))
  <2>1. F[4] = F[3] \o q[4]  BY <1>1, <1>5, Zenon
  <2>2. /\ q[4] \in Bytes /\ q[1] \in Bytes
        /\ l(1) + l(2) + l(3) \in Nat /\ l(1) <= l(1) + l(2) + l(3) /\ Len(q) >= 3
    <3>1. /\ 1 \in 1 .. Len(q) /\ 2 \in 1 .. Len(q)
          /\ 3 \in 1 .. Len(q) /\ 4 \in 1 .. Len(q)
      BY <1>5
    <3>2. /\ q[1] \in Bytes /\ q[4] \in Bytes
          /\ l(1) \in Nat /\ l(2) \in Nat /\ l(3) \in Nat
      BY <1>0, <3>1
    <3>3. Len(q) >= 3  BY <1>5
    <3> HIDE DEF l
    <3> QED BY <3>2, <3>3
  <2>3. Prefixed(q[1], F[3] \o q[4], l(1) + l(2) + l(3) + l(4))
    BY <1>4, <2>2, PrefixedConcat
  <2> QED BY <2>1, <2>3, Zenon
<1>6. Len(q) = 1 \/ Len(q) = 2 \/ Len(q) = 3 \/ Len(q) = 4
  OBVIOUS
<1>7. CASE Len(q) = 1
  BY <1>0, <1>2, <1>7 DEF Joined, Part, Prefixed
<1>8. CASE Len(q) = 2
  BY <1>0, <1>3, <1>8 DEF Joined, Part, Prefixed
<1>9. CASE Len(q) = 3
  BY <1>0, <1>4, <1>9 DEF Joined, Part, Prefixed
<1>10. CASE Len(q) = 4
  BY <1>0, <1>5, <1>10 DEF Joined, Part, Prefixed
<1> QED BY <1>6, <1>7, <1>8, <1>9, <1>10

\* there is such a loop,
LEMMA JoinExists ==
  ASSUME NEW q \in Seq(Bytes), Len(q) \in 1 .. 4
  PROVE  \E F : F = [i \in 1 .. Len(q) |-> IF i = 1 THEN q[i] ELSE F[i - 1] \o q[i]]
<1> DEFINE a == q[1]
           b == a \o q[2]
           c == b \o q[3]
           F == [i \in 1 .. Len(q) |->
                   IF i = 1 THEN a ELSE IF i = 2 THEN b ELSE IF i = 3 THEN c
                   ELSE c \o q[4]]
<1>1. ASSUME NEW i \in 1 .. Len(q)
      PROVE  F[i] = IF i = 1 THEN q[i] ELSE F[i - 1] \o q[i]
  <2> HIDE DEF a, b, c
  <2>1. i = 1 \/ i = 2 \/ i = 3 \/ i = 4
    <3>1. PICK n \in 1 .. 4 : n = Len(q)  OBVIOUS
    <3>2. i \in 1 .. n  BY <3>1
    <3> QED BY <3>2
  <2>2. i = 1 => F[i] = a  OBVIOUS
  <2>3. i = 2 => F[i] = b /\ F[i - 1] = a  OBVIOUS
  <2>4. i = 3 => F[i] = c /\ F[i - 1] = b  OBVIOUS
  <2>5. i = 4 => F[i] = c \o q[4] /\ F[i - 1] = c  OBVIOUS
  <2> QED BY <2>1, <2>2, <2>3, <2>4, <2>5 DEF a, b, c
<1>2. F = [i \in 1 .. Len(q) |-> F[i]]  OBVIOUS
<1>3. F = [i \in 1 .. Len(q) |-> IF i = 1 THEN q[i] ELSE F[i - 1] \o q[i]]
  <2> HIDE DEF F
  <2> QED BY <1>1, <1>2
<1> QED BY <1>3

\* and so FlattenSeq joins them.
LEMMA FlattenIs ==
  ASSUME NEW q \in Seq(Bytes), Len(q) \in 0 .. 4
  PROVE  Joined(q, FlattenSeq(q)) /\ Joined(q, Service!FlattenSeq(q))
<1>1. CASE Len(q) = 0
  <2>1. q = <<>>  BY <1>1
  <2>2. FlattenSeq(q) = <<>> /\ Service!FlattenSeq(q) = <<>>
    BY <1>1, <2>1 DEF FlattenSeq, Service!FlattenSeq
  <2> QED BY <1>1, <2>2, OfEmpty DEF Joined, Part
<1>2. CASE Len(q) \in 1 .. 4
  <2> DEFINE Is(F) == F = [i \in 1 .. Len(q) |-> IF i = 1 THEN q[i] ELSE F[i - 1] \o q[i]]
             F0 == CHOOSE F : Is(F)
  <2>1. Is(F0)  BY <1>2, JoinExists
  <2>2. FlattenSeq(q) = F0[Len(q)] /\ Service!FlattenSeq(q) = F0[Len(q)]
    BY <1>2 DEF FlattenSeq, Service!FlattenSeq
  <2> HIDE DEF F0
  <2>3. IsJoin(q, F0)
    BY <2>1 DEF IsJoin
  <2> HIDE DEF Is
  <2>4. Joined(q, F0[Len(q)])  BY <1>2, <2>3, JoinIs
  <2> QED BY <2>2, <2>4
<1> QED BY <1>1, <1>2

\* What build_rse_ps_reply puts after the header, and what the reply says.
Contents(r, h) ==
  IF (IF Arrived(r) > 0 THEN r.protocol ELSE "embed") # "pointer" /\ h.status = "SUCCESS"
  THEN FlattenSeq(h.outs) ELSE <<>>

Says(r, h, fail, reply) ==
  /\ \E T : reply \in Seq(T)
  /\ Len(reply) = 1 + Len(Contents(r, h))
  /\ reply[1].tag = IF Arrived(r) > 0 THEN r.tag ELSE 0
  /\ reply[1].status = IF fail = 0 THEN h.status ELSE "COMMUNICATION_FAILURE"
  /\ reply[1].sizes = [i \in 1 .. 4 |-> IF fail = 0 THEN Len(Part(h.outs, i)) ELSE 0]
  /\ [i \in 1 .. Len(reply) - 1 |-> reply[i + 1].value] = Contents(r, h)

\* build_rse_ps_reply: the header comes first and the outputs follow it.
LEMMA ReplyIs ==
  ASSUME NEW r, NEW h, NEW fail, h.outs \in Seq(Bytes), Len(h.outs) \in 0 .. 4
  PROVE  /\ Contents(r, h) \in Bytes
         /\ Says(r, h, fail, ReplyUnits(r, h, fail))
<1> DEFINE data == Contents(r, h)
           sizes == [i \in 1 .. PSA_MAX_IOVEC |->
                       IF fail = 0 /\ i <= Len(h.outs) THEN Len(h.outs[i]) ELSE 0]
           head == [kind |-> "head",
                    protocol |-> IF Arrived(r) > 0 THEN r.protocol ELSE "embed",
                    tag |-> IF Arrived(r) > 0 THEN r.tag ELSE 0,
                    status |-> IF fail = 0 THEN h.status ELSE "COMMUNICATION_FAILURE",
                    sizes |-> sizes]
           units == [i \in 1 .. Len(data) |-> [kind |-> "data", value |-> data[i]]]
           reply == <<head>> \o units
           T == {head} \cup [kind : {"data"}, value : Nat]
<1>1. reply = ReplyUnits(r, h, fail)
  BY DEF ReplyUnits, Contents
<1>2. data \in Seq(Nat)
  BY FlattenIs, OfEmpty DEF Contents, Joined, Bytes
<1>3. sizes = [i \in 1 .. 4 |-> IF fail = 0 THEN Len(Part(h.outs, i)) ELSE 0]
  BY OfEmpty DEF PSA_MAX_IOVEC, Part
<1> HIDE DEF data, sizes
<1>4. /\ head.tag = IF Arrived(r) > 0 THEN r.tag ELSE 0
      /\ head.status = IF fail = 0 THEN h.status ELSE "COMMUNICATION_FAILURE"
      /\ head.sizes = sizes
  OBVIOUS
<1> HIDE DEF head
<1>5. \A i \in 1 .. Len(data) : [kind |-> "data", value |-> data[i]] \in T
  BY <1>2
<1>6. units \in Seq(T) /\ Len(units) = Len(data)
  BY <1>2, <1>5
<1>7. \A i \in 1 .. Len(data) : units[i].value = data[i]
  OBVIOUS
<1>8. <<head>> \in Seq(T) /\ Len(<<head>>) = 1 /\ <<head>>[1] = head
  OBVIOUS
<1> HIDE DEF units, T
<1>9. /\ reply \in Seq(T) /\ Len(reply) = 1 + Len(data) /\ reply[1] = head
      /\ \A i \in 1 .. Len(data) : reply[i + 1] = units[i]
  BY <1>2, <1>6, <1>8
<1> HIDE DEF reply
<1>10. [i \in 1 .. Len(reply) - 1 |-> reply[i + 1].value] = data
  <2>1. Len(reply) - 1 = Len(data)
    BY <1>2, <1>9
  <2>2. data = [i \in 1 .. Len(data) |-> data[i]]
    BY <1>2
  <2> QED BY <1>7, <1>9, <2>1, <2>2
<1>11. Says(r, h, fail, reply)
  BY <1>3, <1>4, <1>9, <1>10 DEF Says, data
<1> QED BY <1>1, <1>2, <1>11 DEF data, Bytes

\* A request that parses has arrived with a header, at most four vectors and
\* a protocol with a parser.
LEMMA Parsed ==
  ASSUME NEW r \in Requests, NEW parsed \in ParseStatuses(r)
  PROVE  /\ parsed \in {"SUCCESS", "INVALID_ARGUMENT", "COMMUNICATION_FAILURE",
                        "NOT_SUPPORTED"}
         /\ parsed = "SUCCESS" =>
              /\ Arrived(r) > 0
              /\ Len(r.caps) \in 0 .. 4
              /\ r.protocol \in {"embed", "pointer"}
<1>1. r.sent \in Nat /\ r.protocol \in {"embed", "pointer", "other"}
      /\ Len(r.ins) \in Nat /\ Len(r.caps) \in Nat
  BY DEF Requests
<1>2. Arrived(r) \in Nat
  BY <1>1, MinOfTwo, HandlerAssumption DEF Arrived
<1>3. ~ TooManyVectors(r) => Len(r.caps) \in 0 .. 4
  <2>1. PICK a \in Nat, b \in Nat : a = Len(r.ins) /\ b = Len(r.caps)
    BY <1>1
  <2>2. ~ (a + b > 4) => b \in 0 .. 4
    OBVIOUS
  <2> QED BY <2>1, <2>2 DEF TooManyVectors, PSA_MAX_IOVEC
<1>4. CASE Arrived(r) = 0
  BY <1>4 DEF ParseStatuses
<1>5. CASE Arrived(r) > 0 /\ r.protocol = "embed"
  <2>1. parsed = EmbedStatus(r)
    BY <1>2, <1>5 DEF ParseStatuses
  <2> QED BY <1>3, <1>5, <2>1 DEF EmbedStatus
<1>6. CASE Arrived(r) > 0 /\ r.protocol = "pointer"
  <2>1. parsed \in PointerStatuses(r)
    BY <1>2, <1>6 DEF ParseStatuses
  <2> QED BY <1>3, <1>6, <2>1 DEF PointerStatuses
<1>7. CASE Arrived(r) > 0 /\ r.protocol = "other"
  BY <1>2, <1>7 DEF ParseStatuses
<1> QED BY <1>1, <1>2, <1>4, <1>5, <1>6, <1>7

\* The outcome o of a result h whose output number fail could not be written.
Outcome(r, h, fail, o) ==
  /\ Says(r, h, fail, o.reply)
  /\ o.buffers = Buffers(r, h, fail)
  /\ o.store = h.store /\ o.meas = h.meas

\* A request that does not parse is refused as the service promises.
LEMMA RefusalIsHonoured ==
  ASSUME NEW r, NEW h, NEW o, h.outs = <<>>, h.store = store, h.meas = meas,
         h.status # "SUCCESS", Outcome(r, h, 0, o)
  PROVE  Service!Honoured(r, o)
<1>1. Contents(r, h) = <<>>
  BY DEF Contents
<1>2. Service!Status(o) = h.status /\ Service!InReply(o) = <<>>
  BY <1>1 DEF Service!Status, Service!InReply, Outcome, Says
<1>3. o.store = store /\ o.meas = meas
  BY DEF Outcome
<1>4. o.buffers = Service!Untouched
  BY DEF Outcome, Buffers, Untouched, PSA_MAX_IOVEC, Service!Untouched
<1> QED BY <1>2, <1>3, <1>4
        DEF Service!Honoured, Service!RefusalIsClean, Service!EffectIsLocal,
            Service!OutputsFit, Service!StorageIsTrue

\* A request that parses is served as the service promises, in the reply or
\* in the buffers of the sender, whether or not a buffer is lost.
LEMMA ServedIsHonoured ==
  ASSUME NEW r \in Requests, NEW h, NEW o, NEW fail,
         Arrived(r) > 0, Len(r.caps) \in 0 .. 4, r.protocol \in {"embed", "pointer"},
         Sound(r, store, meas, h), Outcome(r, h, fail, o)
  PROVE  Service!Honoured(r, o)
<1>1. h.outs \in Seq(Bytes) /\ Len(h.outs) = Len(r.caps)
  BY DEF Sound
<1>2. Service!Status(o) = IF fail = 0 THEN h.status ELSE "COMMUNICATION_FAILURE"
  BY DEF Service!Status, Outcome, Says
<1>3. Service!InReply(o) = Contents(r, h)
  BY DEF Service!InReply, Outcome, Says
<1>4. o.store = h.store /\ o.meas = h.meas
  BY DEF Outcome
<1>5. Service!EffectIsLocal(r, o)
  BY <1>4 DEF Service!EffectIsLocal, Sound
<1>6. Service!RefusalIsClean(o)
  <2> SUFFICES ASSUME Service!Status(o) \notin {"SUCCESS", "COMMUNICATION_FAILURE"}
               PROVE  /\ o.store = store /\ o.meas = meas
                      /\ Service!InReply(o) = <<>> /\ o.buffers = Service!Untouched
    BY DEF Service!RefusalIsClean
  <2>1. h.status # "SUCCESS"
    BY <1>2
  <2>2. Contents(r, h) = <<>>
    BY <2>1 DEF Contents
  <2>3. o.buffers = Service!Untouched
    BY <2>1 DEF Outcome, Buffers, Untouched, PSA_MAX_IOVEC, Service!Untouched
  <2>4. h.store = store /\ h.meas = meas
    BY <2>1 DEF Sound
  <2> QED BY <1>3, <1>4, <2>2, <2>3, <2>4
<1>7. ASSUME Service!Status(o) = "SUCCESS"
      PROVE  fail = 0 /\ h.status = "SUCCESS"
  BY <1>2, <1>7
<1>8. ASSUME Service!Status(o) = "SUCCESS"
      PROVE  Joined(h.outs, Service!Delivered(r, o))
  <2>1. CASE r.protocol = "embed"
    <3>1. Service!Delivered(r, o) = FlattenSeq(h.outs)
      BY <1>3, <1>7, <1>8, <2>1 DEF Service!Delivered, Contents
    <3> QED BY <1>1, <3>1, FlattenIs
  <2>2. CASE r.protocol = "pointer"
    <3> DEFINE b == [i \in 1 .. 4 |-> Part(h.outs, i)]
    <3>1. o.buffers = b
      BY <1>7, <1>8, <2>2 DEF Outcome, Buffers, PSA_MAX_IOVEC, Part
    <3>2. \A i \in 1 .. 4 : Part(h.outs, i) \in Bytes
      BY <1>1, OfEmpty DEF Part
    <3>3. b \in Seq(Bytes) /\ Len(b) = 4 /\ \A i \in 1 .. 4 : Part(b, i) = Part(h.outs, i)
      <4>1. b \in Seq(Bytes) /\ Len(b) = 4 /\ \A i \in 1 .. 4 : b[i] = Part(h.outs, i)
        BY <3>2
      <4> QED BY <4>1 DEF Part
    <3> HIDE DEF b
    <3>4. Joined(b, Service!FlattenSeq(b))
      BY <3>3, FlattenIs
    <3>5. Service!Delivered(r, o) = Service!FlattenSeq(b)
      BY <2>2, <3>1 DEF Service!Delivered
    <3>6. Part(h.outs, 1) = b[1] /\ (Len(Part(h.outs, 1)) > 0 => Part(h.outs, 1) = h.outs[1])
      BY <1>1, <3>3, OfEmpty DEF Part
    <3>7. \A i \in 1 .. Len(Part(h.outs, 1)) : b[1][i] = h.outs[1][i]
      BY <3>2, <3>6 DEF Bytes
    <3> QED BY <3>3, <3>4, <3>5, <3>7 DEF Joined
  <2> QED BY <2>1, <2>2
<1>9. Service!OutputsFit(r, o)
  <2> SUFFICES ASSUME Service!Status(o) = "SUCCESS"
               PROVE  /\ o.reply[1].tag = r.tag
                      /\ Len(Service!Delivered(r, o)) =
                           Service!Sizes(o)[1] + Service!Sizes(o)[2]
                             + Service!Sizes(o)[3] + Service!Sizes(o)[4]
                      /\ \A i \in 1 .. Len(r.caps) : Service!Sizes(o)[i] <= r.caps[i]
    BY DEF Service!OutputsFit
  <2>1. o.reply[1].tag = r.tag
    BY DEF Outcome, Says
  <2>2. Service!Sizes(o) = [i \in 1 .. 4 |-> Len(Part(h.outs, i))]
    BY <1>7 DEF Outcome, Says, Service!Sizes
  <2>3. \A i \in 1 .. Len(r.caps) : Len(h.outs[i]) <= r.caps[i]
    BY <1>7 DEF Sound
  <2>4. \A i \in 1 .. Len(r.caps) : i \in 1 .. 4 /\ Part(h.outs, i) = h.outs[i]
    <3>1. PICK n \in 0 .. 4 : n = Len(r.caps)  OBVIOUS
    <3>2. \A i \in 1 .. n : i \in 1 .. 4 /\ i <= n  OBVIOUS
    <3> QED BY <1>1, <3>1, <3>2 DEF Part
  <2>5. \A i \in 1 .. Len(r.caps) : Service!Sizes(o)[i] <= r.caps[i]
    BY <2>2, <2>3, <2>4
  <2>6. /\ Service!Sizes(o)[1] = Len(Part(h.outs, 1))
        /\ Service!Sizes(o)[2] = Len(Part(h.outs, 2))
        /\ Service!Sizes(o)[3] = Len(Part(h.outs, 3))
        /\ Service!Sizes(o)[4] = Len(Part(h.outs, 4))
    BY <2>2
  <2> QED BY <1>8, <2>1, <2>5, <2>6 DEF Joined
<1>10. Service!StorageIsTrue(r, o)
  <2> SUFFICES ASSUME Service!Status(o) = "SUCCESS", r.handle = "storage"
               PROVE  Service!StorageIsTrue(r, o)
    BY DEF Service!StorageIsTrue
  <2>1. CASE r.type \in {"set", "remove"}
    BY <1>4, <1>7, <2>1 DEF Service!StorageIsTrue, Sound
  <2>2. CASE r.type = "get"
    <3> DEFINE stored == store[r.ins[1][1]].data
               from == r.ins[2][1]
               d == Service!Delivered(r, o)
    <3>1. /\ Len(r.caps) >= 1
          /\ \A i \in 2 .. Len(r.caps) : h.outs[i] = <<>>
          /\ Len(h.outs[1]) = Min({r.caps[1], Len(stored) - from})
          /\ \A i \in 1 .. Len(h.outs[1]) : h.outs[1][i] = stored[from + i]
      BY <1>7, <2>2 DEF Sound
    <3> HIDE DEF stored, from, d
    <3>2. Part(h.outs, 1) = h.outs[1] /\ \A i \in 2 .. 4 : Part(h.outs, i) = <<>>
      BY <1>1, <3>1 DEF Part
    <3>3. Len(h.outs[1]) \in Nat
      BY <1>1, <3>1 DEF Bytes
    <3>4. Len(d) = Len(h.outs[1]) /\ \A i \in 1 .. Len(d) : d[i] = h.outs[1][i]
      BY <1>8, <3>2, <3>3, OfEmpty DEF Joined, d
    <3>5. Len(d) = Service!Min({r.caps[1], Len(stored) - from})
      BY <3>1, <3>4 DEF Min, Service!Min
    <3>6. \A i \in 1 .. Len(d) : d[i] = stored[from + i]
      BY <3>1, <3>4
    <3> QED BY <2>2, <3>5, <3>6 DEF Service!StorageIsTrue, d, stored, from
  <2>3. CASE r.type \notin {"set", "remove", "get"}
    BY <2>3 DEF Service!StorageIsTrue
  <2> QED BY <2>1, <2>2, <2>3
<1> QED BY <1>5, <1>6, <1>9, <1>10 DEF Service!Honoured

\* Every outcome of build_rse_ps_reply is one the service may have.
LEMMA OutcomesAreHonoured ==
  ASSUME NEW r \in Requests, StoreTyped(store), MeasTyped(meas),
         NEW o \in build_rse_ps_reply(r, store, meas)
  PROVE  /\ Service!Honoured(r, o)
         /\ StoreTyped(o.store) /\ MeasTyped(o.meas)
         /\ \E T : o.reply \in Seq(T)
         /\ Len(o.reply) \in Nat \ {0}
<1>1. PICK parsed \in ParseStatuses(r) :
        LET h == IF parsed = "SUCCESS" THEN handle_rse_ps_request(r, store, meas)
                 ELSE [Refused(r, parsed, store, meas) EXCEPT !.outs = <<>>]
        IN \E fail \in WriteFailures(r, h) :
             o = [reply |-> ReplyUnits(r, h, fail), buffers |-> Buffers(r, h, fail),
                  store |-> h.store, meas |-> h.meas]
  BY DEF build_rse_ps_reply
<1>2. PICK h : h = IF parsed = "SUCCESS" THEN handle_rse_ps_request(r, store, meas)
                   ELSE [Refused(r, parsed, store, meas) EXCEPT !.outs = <<>>]
  OBVIOUS
<1>3. PICK fail \in WriteFailures(r, h) :
        o = [reply |-> ReplyUnits(r, h, fail), buffers |-> Buffers(r, h, fail),
             store |-> h.store, meas |-> h.meas]
  BY <1>1, <1>2
<1>4. /\ o.reply = ReplyUnits(r, h, fail) /\ o.buffers = Buffers(r, h, fail)
      /\ o.store = h.store /\ o.meas = h.meas
  BY <1>3
<1>5. ASSUME h.outs \in Seq(Bytes), Len(h.outs) \in 0 .. 4
      PROVE  /\ Outcome(r, h, fail, o)
             /\ \E T : o.reply \in Seq(T)
             /\ Len(o.reply) \in Nat \ {0}
  <2>1. Contents(r, h) \in Bytes /\ Says(r, h, fail, o.reply)
    BY <1>4, <1>5, ReplyIs
  <2>2. (\E T : o.reply \in Seq(T)) /\ Len(o.reply) = 1 + Len(Contents(r, h))
    BY <2>1 DEF Says
  <2>3. Len(Contents(r, h)) \in Nat
    BY <2>1 DEF Bytes
  <2> QED BY <1>4, <2>1, <2>2, <2>3 DEF Outcome
<1>6. CASE parsed = "SUCCESS"
  <2>1. Sound(r, store, meas, h)
    BY <1>2, <1>6, HandlerIsSound
  <2>2. Arrived(r) > 0 /\ Len(r.caps) \in 0 .. 4 /\ r.protocol \in {"embed", "pointer"}
    BY <1>6, Parsed
  <2>3. h.outs \in Seq(Bytes) /\ Len(h.outs) \in 0 .. 4
    BY <2>1, <2>2 DEF Sound
  <2>4. StoreTyped(o.store) /\ MeasTyped(o.meas)
    BY <1>4, <2>1 DEF Sound
  <2> QED BY <1>5, <2>1, <2>2, <2>3, <2>4, ServedIsHonoured
<1>7. CASE parsed # "SUCCESS"
  <2>1. h.outs = <<>> /\ h.store = store /\ h.meas = meas /\ h.status = parsed
    BY <1>2, <1>7 DEF Refused
  <2>2. fail = 0
    BY <1>7, <2>1 DEF WriteFailures
  <2>3. h.outs \in Seq(Bytes) /\ Len(h.outs) \in 0 .. 4
    BY <2>1
  <2> QED BY <1>4, <1>5, <1>7, <2>1, <2>2, <2>3, RefusalIsHonoured
<1> QED BY <1>6, <1>7

-----------------------------------------------------------------------------
(* The RSE proxy: the channels                                             *)

\* The states of the client; the words a client that is at channel n of
\* request r has put into the postbox, which hold nothing else; and the
\* invariant: between two messages, and while an answer waits, the postbox
\* is clear, after a restart as far as it was drained.
Clients == {Idle} \cup [pc : {"write"}, request : Calls, next : Nat]
                  \cup [pc : {"wait"}, request : Calls]
                  \cup [pc : {"drain"}, next : ProxyCh]

Written(r, n, st) ==
  /\ n <= Arrived(r) + 1
  /\ st = [c \in ProxyCh |-> IF c < n THEN {Word(r, c)} ELSE {}]

ProxyInv ==
  /\ client \in Clients
  /\ StoreTyped(store) /\ MeasTyped(meas)
  /\ post = [c \in ProxyCh |-> post[c]]
  /\ client.pc # "wait" => buffers = Untouched
  /\ client.pc \in {"idle", "wait"} => post = Cleared
  /\ client.pc = "write" => Written(client.request, client.next, post)
  /\ client.pc = "drain" => \A c \in ProxyCh : c < client.next => post[c] = {}

\* A message arrives in the payload channels.
LEMMA OfArrived ==
  ASSUME NEW r \in Requests
  PROVE  /\ r.sent \in Nat /\ Capacity \in Nat \ {0}
         /\ Arrived(r) = IF r.sent <= Capacity THEN r.sent ELSE Capacity
         /\ Arrived(r) \in Nat /\ 0 .. Arrived(r) \subseteq 0 .. Capacity
<1>1. r.sent \in Nat /\ Capacity \in Nat \ {0}
  BY HandlerAssumption DEF Requests
<1>2. Arrived(r) = IF r.sent <= Capacity THEN r.sent ELSE Capacity
  BY <1>1, MinOfTwo DEF Arrived
<1> QED BY <1>1, <1>2

\* Of a message of length 0 nothing is read, so that all are served alike.
LEMMA RequestsNotRead ==
  ASSUME NEW r \in Requests, NEW x \in Requests, Arrived(r) = 0, Arrived(x) = 0,
         NEW s, NEW m
  PROVE  build_rse_ps_reply(x, s, m) = build_rse_ps_reply(r, s, m)
<1> DEFINE hx == [Refused(x, "INVALID_ARGUMENT", s, m) EXCEPT !.outs = <<>>]
           hr == [Refused(r, "INVALID_ARGUMENT", s, m) EXCEPT !.outs = <<>>]
           o(q, h) == [reply |-> ReplyUnits(q, h, 0), buffers |-> Buffers(q, h, 0),
                       store |-> h.store, meas |-> h.meas]
<1>1. ParseStatuses(x) = {"INVALID_ARGUMENT"} /\ ParseStatuses(r) = {"INVALID_ARGUMENT"}
  BY DEF ParseStatuses
<1>2. hx = hr /\ hr.status = "INVALID_ARGUMENT"
  BY DEF Refused
<1>3. WriteFailures(x, hx) = {0} /\ WriteFailures(r, hr) = {0}
  BY <1>2 DEF WriteFailures
<1>4. build_rse_ps_reply(x, s, m) = {o(x, hx)}
  BY <1>1, <1>3 DEF build_rse_ps_reply
<1>5. build_rse_ps_reply(r, s, m) = {o(r, hr)}
  BY <1>1, <1>3 DEF build_rse_ps_reply
<1> HIDE DEF hx, hr
<1>6. ReplyUnits(x, hr, 0) = ReplyUnits(r, hr, 0)
  BY DEF ReplyUnits
<1>7. Buffers(x, hr, 0) = Buffers(r, hr, 0)
  BY <1>2 DEF Buffers
<1> QED BY <1>2, <1>4, <1>5, <1>6, <1>7

\* When the client notifies, the message that is read is the one that was
\* sent, or is served alike.
LEMMA ReadIsSent ==
  ASSUME ProxyInv, client.pc = "write", client.next > Arrived(client.request),
         NEW set, set = [post EXCEPT ![NotifyCh] = @ \cup {[kind |-> "notify"]}],
         NEW x \in read_doorbell_message(set), NEW s, NEW m
  PROVE  /\ client.request \in Calls
         /\ build_rse_ps_reply(x, s, m) = build_rse_ps_reply(client.request, s, m)
<1>0. PICK r : r = client.request  OBVIOUS
<1>1. r \in Calls /\ client.next \in Nat
  BY <1>0 DEF ProxyInv, Clients, Idle
<1>2. r \in Requests /\ Calls \subseteq Requests
  BY <1>1, CallsAssumption
<1>3. /\ client.next = Arrived(r) + 1
      /\ post = [c \in ProxyCh |-> IF c < client.next THEN {Word(r, c)} ELSE {}]
  BY <1>0, <1>1, <1>2, OfArrived DEF ProxyInv, Written
<1>4. \A c \in 0 .. Arrived(r) : c \in ProxyCh /\ c # NotifyCh /\ set[c] = {Word(r, c)}
  BY <1>2, <1>3, OfArrived DEF ProxyCh, NotifyCh
<1>5. Intact(set, r)
  BY <1>4 DEF Intact
<1>6. x \in Calls /\ Intact(set, x)
  BY <1>1, <1>5 DEF read_doorbell_message
<1>7. x \in Requests
  BY <1>2, <1>6
<1>8. set[0] = {Word(r, 0)} /\ set[0] = {Word(x, 0)}
  BY <1>2, <1>5, <1>6, <1>7, OfArrived DEF Intact
<1>9. r.sent = x.sent
  <2>1. Word(r, 0).length = Word(x, 0).length
    BY <1>8
  <2> QED BY <2>1 DEF Word
<1>10. Arrived(r) = Arrived(x)
  BY <1>9 DEF Arrived
<1>11. CASE Arrived(r) = 0
  <2>0. Arrived(x) = 0 /\ r \in Requests
    BY <1>2, <1>10, <1>11
  <2>1. build_rse_ps_reply(x, s, m) = build_rse_ps_reply(r, s, m)
    BY ONLY <1>7, <1>11, <2>0, RequestsNotRead
  <2> QED BY <1>0, <1>1, <2>1
<1>12. CASE Arrived(r) > 0
  <2>1. set[1] = {Word(r, 1)} /\ set[1] = {Word(x, 1)}
    BY <1>2, <1>5, <1>6, <1>10, <1>12, OfArrived DEF Intact
  <2>2. Word(r, 1).of = Word(x, 1).of
    BY <2>1
  <2>3. r = x
    BY <2>2 DEF Word
  <2> QED BY <1>0, <1>1, <2>3
<1> QED BY <1>2, <1>11, <1>12, OfArrived

\* The client finds the reply that load_mbx_message put into the channels.
LEMMA FoundIsVisible ==
  ASSUME NEW T, NEW reply \in Seq(T), mail' = load_mbx_message(reply)
  PROVE  Found' = Service!Visible(reply)
<1>0. Len(reply) \in Nat /\ Capacity \in Nat \ {0}
  BY HandlerAssumption
<1> DEFINE n == IF Len(reply) <= Capacity THEN Len(reply) ELSE Capacity
<1>1. /\ Min({Len(reply), Capacity}) = n
      /\ Service!Min({Len(reply), Capacity}) = n
  BY <1>0, MinOfTwo
<1>2. n \in 0 .. Len(reply) /\ 1 .. n \subseteq ProxyCh /\ 0 \in ProxyCh /\ 0 \notin 1 .. n
  BY <1>0 DEF ProxyCh, NotifyCh
<1> HIDE DEF n
<1>3. mail'[0] = {[kind |-> "length", length |-> Len(reply)]}
  <2> DEFINE word(c) == CASE c = 0 -> {[kind |-> "length", length |-> Len(reply)]}
                          [] c \in 1 .. Min({Len(reply), Capacity}) -> {reply[c]}
                          [] c = NotifyCh -> {[kind |-> "notify"]}
                          [] OTHER -> {}
  <2>1. mail' = [c \in ProxyCh |-> word(c)]
    BY DEF load_mbx_message
  <2>2. word(0) = {[kind |-> "length", length |-> Len(reply)]}
    BY <1>0, <1>1, <1>2 DEF NotifyCh
  <2> HIDE DEF word
  <2> QED BY <1>2, <2>1, <2>2
<1>4. \A c \in 1 .. n : mail'[c] = {reply[c]}
  BY <1>1, <1>2 DEF load_mbx_message
<1>5. TheWord(0)'.length = Len(reply)
  <2>1. TheWord(0)' = [kind |-> "length", length |-> Len(reply)]
    BY <1>3 DEF TheWord
  <2> QED BY <2>1
<1>6. \A c \in 1 .. n : TheWord(c)' = reply[c]
  BY <1>4 DEF TheWord
<1>7. Found' = [length |-> Len(reply), units |-> [c \in 1 .. n |-> reply[c]]]
  BY <1>1, <1>5, <1>6 DEF Found
<1>8. SubSeq(reply, 1, n) = [c \in 1 .. n |-> reply[c]]
  BY <1>2
<1> QED BY <1>1, <1>7, <1>8 DEF Service!Visible

\* The invariant holds initially and every step keeps it.
LEMMA ProxyStarts == ProxyInit => ProxyInv
<1> SUFFICES ASSUME ProxyInit PROVE ProxyInv  OBVIOUS
<1>1. client = Idle /\ client.pc = "idle" /\ client \in Clients
  BY DEF ProxyInit, Idle, Clients
<1>2. StoreTyped(store) /\ MeasTyped(meas)
  BY OfEmpty DEF ProxyInit, StoreTyped, MeasTyped
<1> QED BY <1>1, <1>2 DEF ProxyInit, ProxyInv, Cleared

LEMMA ProxyKeeps ==
  ASSUME ProxyInv, [ProxyNext]_proxyVars
  PROVE  ProxyInv'
<1>0. \/ client = Idle /\ client.pc = "idle"
      \/ /\ client \in [pc : {"write"}, request : Calls, next : Nat]
         /\ client.pc = "write" /\ client.request \in Calls /\ client.next \in Nat
         /\ client = [pc |-> "write", request |-> client.request, next |-> client.next]
      \/ client \in [pc : {"wait"}, request : Calls] /\ client.pc = "wait"
      \/ /\ client \in [pc : {"drain"}, next : ProxyCh]
         /\ client.pc = "drain" /\ client.next \in ProxyCh
         /\ client = [pc |-> "drain", next |-> client.next]
  BY DEF ProxyInv, Clients, Idle
<1>1. ASSUME NEW r \in Calls, Begin(r) PROVE ProxyInv'
  <2>1. /\ client.pc = "idle" /\ client' = [pc |-> "write", request |-> r, next |-> 0]
        /\ post' = Cleared
    BY <1>1 DEF Begin, ProxyInv
  <2>2. client' \in Clients /\ client'.pc = "write" /\ client'.request = r /\ client'.next = 0
    BY <2>1 DEF Clients
  <2>3. Written(r, 0, Cleared)
    BY OfArrived, CallsAssumption, HandlerAssumption
       DEF Written, Cleared, ProxyCh, NotifyCh
  <2> QED BY <1>1, <2>1, <2>2, <2>3 DEF Begin, ProxyInv, Cleared
<1>2. ASSUME WriteWord PROVE ProxyInv'
  <2> DEFINE r == client.request
             n == client.next
  <2>1. /\ client.pc = "write" /\ r \in Calls /\ n \in Nat /\ n <= Arrived(r)
        /\ client = [pc |-> "write", request |-> r, next |-> n]
        /\ post = [c \in ProxyCh |-> IF c < n THEN {Word(r, c)} ELSE {}]
    BY <1>0, <1>2 DEF WriteWord, ProxyInv, Written
  <2>2. client' = [pc |-> "write", request |-> r, next |-> n + 1]
    BY <1>2, <2>1 DEF WriteWord
  <2>3. post' = [post EXCEPT ![n] = @ \cup {Word(r, n)}]
    BY <1>2 DEF WriteWord
  <2> HIDE DEF r, n
  <2>4. client' \in Clients /\ client'.pc = "write" /\ client'.request = r /\ client'.next = n + 1
    BY <2>1, <2>2 DEF Clients
  <2>5. post' = [c \in ProxyCh |-> IF c < n + 1 THEN {Word(r, c)} ELSE {}]
    <3>1. \A c \in ProxyCh : c \in Nat
      BY HandlerAssumption DEF ProxyCh, NotifyCh
    <3>2. n \in ProxyCh
      BY <2>1, OfArrived, CallsAssumption DEF ProxyCh, NotifyCh
    <3>3. ~ (n < n) /\ n < n + 1 /\ \A c \in ProxyCh : c # n => (c < n <=> c < n + 1)
      BY <2>1, <3>1
    <3>4. post[n] = {}
      BY <2>1, <3>2, <3>3
    <3>5. \A c \in ProxyCh : post'[c] = IF c < n + 1 THEN {Word(r, c)} ELSE {}
      BY <2>1, <2>3, <3>2, <3>3, <3>4
    <3>6. post' = [c \in ProxyCh |-> post'[c]]
      BY <2>1, <2>3
    <3> QED BY <3>5, <3>6
  <2>6. Written(r, n + 1, post')
    BY <2>1, <2>5, OfArrived, CallsAssumption DEF Written
  <2> QED BY <1>2, <2>1, <2>4, <2>5, <2>6 DEF WriteWord, ProxyInv
<1>3. ASSUME Notify PROVE ProxyInv'
  <2> DEFINE set == [post EXCEPT ![NotifyCh] = @ \cup {[kind |-> "notify"]}]
             r == client.request
  <2>1. PICK x \in read_doorbell_message(set) :
          \E o \in build_rse_ps_reply(x, store, meas) :
            /\ store' = o.store /\ meas' = o.meas
            /\ buffers' = o.buffers
            /\ mail' = load_mbx_message(o.reply)
    BY <1>3 DEF Notify
  <2>2. /\ client.pc = "write" /\ client.next > Arrived(r) /\ post' = Cleared
        /\ client' = [pc |-> "wait", request |-> r]
    BY <1>3 DEF Notify, clear_postbox_transfer
  <2>3. r \in Calls
    BY <1>0, <2>2
  <2>4. build_rse_ps_reply(x, store, meas) = build_rse_ps_reply(r, store, meas)
    <3>1. PICK st : st = set  OBVIOUS
    <3> QED BY <2>1, <2>2, <3>1, ReadIsSent
  <2> HIDE DEF set, r
  <2>5. PICK o \in build_rse_ps_reply(r, store, meas) :
            store' = o.store /\ meas' = o.meas
    BY <2>1, <2>4
  <2>6. StoreTyped(store') /\ MeasTyped(meas')
    BY <2>3, <2>5, CallsAssumption, OutcomesAreHonoured DEF ProxyInv
  <2>7. client' \in Clients /\ client'.pc = "wait"
    BY <2>2, <2>3 DEF Clients
  <2> QED BY <2>2, <2>6, <2>7 DEF ProxyInv, Cleared, StoreTyped, MeasTyped
<1>4. ASSUME TakeReply PROVE ProxyInv'
  <2>1. client' \in Clients /\ client'.pc = "idle"
    BY <1>4 DEF TakeReply, Clients, Idle
  <2> QED BY <1>4, <2>1 DEF TakeReply, ProxyInv, StoreTyped, MeasTyped
<1>5. ASSUME NEW c \in ProxyCh, ClearChannel(c) PROVE ProxyInv'
  <2>1. client.pc # "drain" /\ client.pc # "wait" => post' = post
    <3>1. CASE client.pc = "idle"
      BY <1>5, <3>1 DEF ClearChannel, clear_mbx_doorbell_channel, ProxyInv, Cleared
    <3>2. CASE client.pc = "write"
      <4>1. client.next \in Nat /\ c >= client.next /\ c \in Int
        BY <1>0, <1>5, <3>2, HandlerAssumption DEF ClearChannel, ProxyCh, NotifyCh
      <4>2. post[c] = {}
        BY <3>2, <4>1 DEF ProxyInv, Written
      <4> QED BY <1>5, <4>2 DEF ClearChannel, clear_mbx_doorbell_channel, ProxyInv
    <3> QED BY <1>5, <3>1, <3>2 DEF ClearChannel
  <2>2. post' = post
    BY <1>5, <2>1 DEF ClearChannel
  <2> QED BY <1>5, <2>2 DEF ClearChannel, ProxyInv, StoreTyped, MeasTyped
<1>6. ASSUME Restart PROVE ProxyInv'
  <2>1. client' \in Clients /\ client'.pc = "drain" /\ client'.next = 0
    BY <1>6, HandlerAssumption DEF Restart, Clients, ProxyCh, NotifyCh
  <2>2. \A c \in ProxyCh : ~ (c < 0)
    BY DEF ProxyCh
  <2> QED BY <1>6, <2>1, <2>2 DEF Restart, ProxyInv, StoreTyped, MeasTyped
<1>7. ASSUME Drain PROVE ProxyInv'
  <2>1. /\ client.pc = "drain" /\ client.next \in ProxyCh
        /\ client = [pc |-> "drain", next |-> client.next]
    BY <1>0, <1>7 DEF Drain
  <2>2. /\ post' = [post EXCEPT ![client.next] = {}]
        /\ store' = store /\ meas' = meas /\ buffers' = buffers
    BY <1>7 DEF Drain, clear_mbx_doorbell_channel
  <2>3. post' = [c \in ProxyCh |-> post'[c]]
    BY <2>2 DEF ProxyInv
  <2>4. \A c \in ProxyCh : c <= client.next => post'[c] = {}
    BY <2>1, <2>2 DEF ProxyInv, ProxyCh
  <2>5. CASE client.next = NotifyCh
    <3>1. client' = Idle /\ client' \in Clients /\ client'.pc = "idle"
      BY <1>7, <2>5 DEF Drain, Clients, Idle
    <3>2. \A c \in ProxyCh : c <= NotifyCh
      BY DEF ProxyCh
    <3>3. post' = Cleared
      BY <2>3, <2>4, <2>5, <3>2 DEF Cleared
    <3> QED BY <2>1, <2>2, <2>3, <3>1, <3>3 DEF ProxyInv, StoreTyped, MeasTyped
  <2>6. CASE client.next # NotifyCh
    <3>1. client' = [pc |-> "drain", next |-> client.next + 1]
      BY <1>7, <2>1, <2>6 DEF Drain
    <3>2. client.next + 1 \in ProxyCh
      BY <2>1, <2>6, HandlerAssumption DEF ProxyCh, NotifyCh
    <3>3. client' \in Clients /\ client'.pc = "drain" /\ client'.next = client.next + 1
      BY <3>1, <3>2 DEF Clients
    <3>4. \A c \in ProxyCh : c < client'.next => post'[c] = {}
      BY <2>1, <2>4, <3>3 DEF ProxyCh
    <3> QED BY <2>1, <2>2, <2>3, <3>3, <3>4 DEF ProxyInv, StoreTyped, MeasTyped
  <2> QED BY <2>5, <2>6
<1>8. CASE UNCHANGED proxyVars
  BY <1>8 DEF proxyVars, ProxyInv, StoreTyped, MeasTyped
<1> QED BY <1>1, <1>2, <1>3, <1>4, <1>5, <1>6, <1>7, <1>8 DEF ProxyNext

\* The call and the answer that the client and the channels stand for.
Call == IF client.pc \in {"write", "wait"} THEN {client.request} ELSE {}
Answer == IF client.pc = "wait" THEN {Found} ELSE {}

\* The initial state is one of the service, and every step of the client and
\* the frames is a step of the service or none at all.
LEMMA ProxyStartsService == ProxyInit => Service!ServiceInit
<1> SUFFICES ASSUME ProxyInit PROVE Service!ServiceInit  OBVIOUS
<1>1. client.pc = "idle" /\ store = <<>> /\ meas = <<>> /\ buffers = Untouched
  BY DEF ProxyInit, Idle
<1>2. Untouched = Service!Untouched
  BY DEF Untouched, PSA_MAX_IOVEC, Service!Untouched
<1> QED BY <1>1, <1>2 DEF Service!ServiceInit

LEMMA ProxyStepServes ==
  ASSUME ProxyInv, ProxyInv', [ProxyNext]_proxyVars
  PROVE  [Service!ServiceNext]_(Service!serviceVars)
<1>0. Untouched = Service!Untouched
  BY DEF Untouched, PSA_MAX_IOVEC, Service!Untouched
<1>a. ASSUME UNCHANGED <<store, meas, buffers>>, Call' = Call, Answer' = Answer
      PROVE  UNCHANGED Service!serviceVars
  BY <1>a DEF Service!serviceVars, Call, Answer
<1>b. ASSUME Call # {}, Call' = {}, Answer' = {}, buffers' = Untouched,
             UNCHANGED <<store, meas>>
      PROVE  Service!Leave
  BY <1>0, <1>b DEF Service!Leave, Call, Answer
<1>1. ASSUME NEW r \in Calls, Begin(r) PROVE Service!Call(r)
  <2>1. client.pc = "idle" /\ client'.pc = "write" /\ client'.request = r
    BY <1>1 DEF Begin
  <2> QED BY <1>1, <2>1 DEF Begin, Service!Call
<1>2. ASSUME WriteWord PROVE UNCHANGED Service!serviceVars
  <2>1. client.pc = "write" /\ client'.pc = "write" /\ client'.request = client.request
    BY <1>2 DEF WriteWord, ProxyInv, Clients, Idle
  <2>2. Call' = Call /\ Answer' = Answer
    BY <2>1 DEF Call, Answer
  <2> QED BY <1>2, <1>a, <2>2 DEF WriteWord
<1>3. ASSUME Notify PROVE \E r \in Calls : Service!Serve(r)
  <2>1. PICK r : r = client.request  OBVIOUS
  <2>2. PICK set : set = [post EXCEPT ![NotifyCh] = @ \cup {[kind |-> "notify"]}]
    OBVIOUS
  <2>3. PICK x \in read_doorbell_message(set) :
          \E o \in build_rse_ps_reply(x, store, meas) :
            /\ store' = o.store /\ meas' = o.meas
            /\ buffers' = o.buffers
            /\ mail' = load_mbx_message(o.reply)
    BY <1>3, <2>2 DEF Notify
  <2>4. /\ client.pc = "write" /\ client.next > Arrived(r)
        /\ client' = [pc |-> "wait", request |-> r]
    BY <1>3, <2>1 DEF Notify
  <2>5. /\ r \in Calls
        /\ build_rse_ps_reply(x, store, meas) = build_rse_ps_reply(r, store, meas)
    BY <2>1, <2>2, <2>3, <2>4, ReadIsSent
  <2>6. PICK o \in build_rse_ps_reply(r, store, meas) :
            /\ store' = o.store /\ meas' = o.meas
            /\ buffers' = o.buffers
            /\ mail' = load_mbx_message(o.reply)
    BY <2>3, <2>5
  <2>7. Service!Honoured(r, o) /\ \E T : o.reply \in Seq(T)
    BY <2>5, CallsAssumption, OutcomesAreHonoured DEF ProxyInv
  <2>8. Found' = Service!Visible(o.reply)
    BY <2>6, <2>7, FoundIsVisible
  <2>9. client.pc = "write" /\ client.request = r /\ client'.pc = "wait" /\ client'.request = r
    BY <2>1, <2>4
  <2>10. Service!Serve(r)
    BY <2>6, <2>7, <2>8, <2>9 DEF Service!Serve
  <2> QED BY <2>5, <2>10
<1>4. ASSUME TakeReply PROVE Service!Leave
  <2>1. client.pc = "wait" /\ client'.pc = "idle"
    BY <1>4 DEF TakeReply, Idle
  <2>2. Call # {} /\ Call' = {} /\ Answer' = {}
    BY <2>1 DEF Call, Answer
  <2> QED BY <1>4, <1>b, <2>2 DEF TakeReply
<1>5. ASSUME NEW c \in ProxyCh, ClearChannel(c) PROVE UNCHANGED Service!serviceVars
  <2>1. client.pc # "wait" /\ client' = client
    BY <1>5 DEF ClearChannel
  <2>2. Call' = Call /\ Answer' = Answer
    BY <2>1 DEF Call, Answer
  <2> QED BY <1>5, <1>a, <2>2 DEF ClearChannel
<1>6. ASSUME Restart PROVE Service!Leave \/ UNCHANGED Service!serviceVars
  <2>1. client'.pc = "drain" /\ Call' = {} /\ Answer' = {}
    BY <1>6 DEF Restart, Call, Answer
  <2>2. CASE client.pc \in {"write", "wait"}
    <3>1. Call # {}
      BY <2>2 DEF Call
    <3> QED BY <1>6, <1>b, <2>1, <3>1 DEF Restart
  <2>3. CASE client.pc \notin {"write", "wait"}
    <3>1. Call = {} /\ Answer = {} /\ buffers = Untouched
      BY <2>3 DEF Call, Answer, ProxyInv
    <3> QED BY <1>6, <1>a, <2>1, <3>1 DEF Restart
  <2> QED BY <2>2, <2>3
<1>7. ASSUME Drain PROVE UNCHANGED Service!serviceVars
  <2>1. client.pc = "drain" /\ client'.pc \in {"drain", "idle"}
    BY <1>7 DEF Drain, Idle, ProxyInv, Clients
  <2>2. Call' = Call /\ Answer' = Answer
    BY <2>1 DEF Call, Answer
  <2> QED BY <1>7, <1>a, <2>2 DEF Drain
<1>8. CASE UNCHANGED proxyVars
  <2>1. Call' = Call /\ Answer' = Answer
    BY <1>8 DEF proxyVars, Call, Answer, Found, TheWord
  <2> QED BY <1>8, <1>a, <2>1 DEF proxyVars
<1> QED BY <1>1, <1>2, <1>3, <1>4, <1>5, <1>6, <1>7, <1>8
        DEF ProxyNext, Service!ServiceNext

\* The proxy implements the service without channels, for every number of
\* channels and every set of requests: each is served at most once, as it was
\* sent, whatever was left in the channels before, what serving it does is
\* what the service promises, and the client finds its own reply.
THEOREM ProxyImplementsService == ProxySpec => ImplementsPsService
<1>1. ProxyInv /\ [ProxyNext]_proxyVars => ProxyInv'  BY ProxyKeeps
<1>2. ProxyInv /\ ProxyInv' /\ [ProxyNext]_proxyVars
        => [Service!ServiceNext]_(Service!serviceVars)
  BY ProxyStepServes
<1> QED BY <1>1, <1>2, ProxyStarts, ProxyStartsService, PTL
        DEF ProxySpec, ImplementsPsService, Service!ServiceSpec
=============================================================================
