---------------------------- MODULE MhuDoorbell ----------------------------
(***************************************************************************)
(* One pair of mhu320ae frames: a postbox (PBX) the sender rings and a     *)
(* mailbox (MBX) the receiver is interrupted by.  What ringing does        *)
(* depends on the postbox's protocol: the bridge passes the bits to the    *)
(* mailbox, "doorbell" acknowledges on behalf of an absent receiver and    *)
(* announces an rpmsg name service once, "rse-ps-proxy" answers a message  *)
(* with a reply in the mailbox.                                            *)
(*                                                                         *)
(* A transaction runs to completion in the SystemC kernel: each register   *)
(* write is one action.  So is each run of a SystemC process up to its     *)
(* next wait().                                                            *)
(***************************************************************************)
EXTENDS Integers, FiniteSets

CONSTANTS
  Channels,      \* the number of doorbell channels
  Bits,          \* the bits of a channel's status word
  Values,        \* the words the two sides write
  Protocols,     \* what p_protocol of the postbox may be
  DirectBoot,    \* p_direct_boot_compat
  MbxPresent,    \* whether the pair has a mailbox frame
  StrictAck,     \* the pair is "ap_si_cl1"
  TriggerChannel, TriggerValue,   \* p_doorbell_ack_trigger_*; {}: none
  AckChannel, AckValue,           \* p_doorbell_ack_channel, _value
  NotifyValue,   \* MHU_NOTIFY_VALUE
  Replies,       \* the words of the replies of the RSE service
  NsEnable,      \* p_rpmsg_ns_enable, with a ring that is not empty
  NsChannel, NsValue,             \* p_rpmsg_ns_signal_channel, _value
  NsSignalDelayed,                \* p_rpmsg_ns_signal_delay_ns # 0
  MaxPolls,      \* p_rpmsg_ns_max_polls
  MaxPosted      \* bound: receive buffers the host posts

Ch == 0 .. Channels - 1
Words == SUBSET Bits
notify_channel == Channels - 1
DataCh == 0 .. Channels - 2           \* length and payload of a message

ASSUME ConstAssumption ==
  /\ Channels \in Nat \ {0}
  /\ Values \subseteq Words
  /\ Protocols \subseteq {"doorbell-bridge", "doorbell", "rse-ps-proxy"}
  /\ DirectBoot \in BOOLEAN /\ MbxPresent \in BOOLEAN /\ StrictAck \in BOOLEAN
  /\ TriggerChannel \in Nat /\ TriggerValue \in Words
  /\ AckChannel \in Nat /\ AckValue \in Words
  /\ NotifyValue \in Words
  /\ Replies \subseteq [DataCh -> Words]
  /\ NsEnable \in BOOLEAN /\ NsSignalDelayed \in BOOLEAN
  /\ NsChannel \in Nat /\ NsValue \in Words
  /\ MaxPolls \in Nat \ {0}
  /\ MaxPosted \in Nat

VARIABLES
  pst,       \* the postbox's m_db_status
  pint,      \* channels with bit 0 of m_db_int_status set; no other bit is
  pen,       \* channels with bit 0 of m_db_int_enable set
  mst,       \* the mailbox's m_db_status
  mmask,     \* the mailbox's m_db_mask
  pirq,      \* the postbox's irq output
  mirq,      \* the mailbox's irq output
  done,      \* m_synthetic_postbox_completions, as a set: see Complete
  doneEvent, \* m_synthetic_postbox_completion_event is notified
  ns,        \* the rpmsg name-service worker and its flags
  ring,      \* the host's receive ring, in shared memory
  protocol   \* p_protocol, which only the construction sets

vars == <<pst, pint, pen, mst, mmask, pirq, mirq, done, doneEvent, ns, ring,
          protocol>>
frames == <<pst, pint, pen, mst, mmask, pirq, mirq>>
worker == <<done, doneEvent, ns, ring>>

Completions == [channel : Ch, mask : Words]
\* pc is where rpmsg_ns_worker waits: for its event, between two polls, or
\* in inject_rpmsg_ns_once before it rings.  polls: polls made this round.
Workers == [pc : {"event", "poll", "signal"}, pending : BOOLEAN,
            event : BOOLEAN, sent : BOOLEAN, polls : 0 .. MaxPolls,
            last : 0 .. MaxPosted]
\* avail: avail->idx; ready: the descriptor in the next slot is valid, writable
\* and long enough, and its buffer accepts the message; used: used->idx.
Rings == [avail : 0 .. MaxPosted, ready : BOOLEAN, used : Nat]

TypeOK ==
  /\ pst \in [Ch -> Words] /\ mst \in [Ch -> Words] /\ mmask \in [Ch -> Words]
  /\ pint \in SUBSET Ch /\ pen \in SUBSET Ch
  /\ pirq \in BOOLEAN /\ mirq \in BOOLEAN
  /\ done \in SUBSET Completions
  /\ doneEvent \in BOOLEAN
  /\ ns \in Workers
  /\ ring \in Rings
  /\ protocol \in Protocols

-----------------------------------------------------------------------------
(* The frames                                                              *)

\* any_combined_irq of each frame.
PbxAsserted(int, en) == int \cap en # {}
MbxAsserted(st, mask) == \E c \in Ch : st[c] \ mask[c] # {}

\* update_combined_irq, called last by every operation on a frame.
UpdatePbxIrq == pirq' = PbxAsserted(pint', pen')
UpdateMbxIrq == mirq' = MbxAsserted(mst', mmask')

SetBits(st, c, v) == [st EXCEPT ![c] = @ \cup v]
ClearBits(st, c, v) == [st EXCEPT ![c] = @ \ v]

\* signal_doorbell_channel: a channel the mailbox lacks is ignored.
Signalled(st, c, v) == IF c \in Ch THEN SetBits(st, c, v) ELSE st

\* Mutant: an acknowledgement of nothing also interrupts the sender.
AckInterruptsAlways(st, c, v) == {c}

\* clear_postbox_doorbell_channel: the sender's interrupt, which the strict
\* pair raises only for a transfer that was pending.
AckInterrupts(st, c, v) ==
  IF (StrictAck /\ protocol = "doorbell") => st[c] \cap v # {}
  THEN {c} ELSE {}

-----------------------------------------------------------------------------
(* Synthetic completions                                                   *)

\* Mutant: the completion is queued but its event is not notified.
CompleteUnscheduled(c, v) ==
  /\ done' = done \cup (IF v # {} THEN {[channel |-> c, mask |-> v]} ELSE {})
  /\ doneEvent' = doneEvent

\* complete_synthetic_postbox_transfer.  The event keeps the earlier of two
\* notifications, and the queue is emptied when it fires.  The order in the
\* queue does not matter: the bits cleared are the union of the masks, and
\* a channel is interrupted iff one of its masks met a pending bit.
Complete(c, v) ==
  /\ done' = done \cup (IF v # {} THEN {[channel |-> c, mask |-> v]} ELSE {})
  /\ doneEvent' = (doneEvent \/ v # {})

\* Mutant: completions wait until the sender has cleared the interrupt of an
\* earlier one.
EmitCompletionsWait ==
  /\ doneEvent /\ pint = {}
  /\ doneEvent' = FALSE
  /\ done' = {}
  /\ pst' = [c \in Ch |-> pst[c] \ UNION {d.mask : d \in {e \in done : e.channel = c}}]
  /\ pint' = pint \cup UNION {AckInterrupts(pst, d.channel, d.mask) : d \in done}
  /\ UNCHANGED <<pen, mst, mmask, mirq, ns, ring>>
  /\ UpdatePbxIrq

\* emit_synthetic_postbox_completions
EmitCompletions ==
  /\ doneEvent
  /\ doneEvent' = FALSE
  /\ done' = {}
  /\ pst' = [c \in Ch |-> pst[c] \ UNION {d.mask : d \in {e \in done : e.channel = c}}]
  /\ pint' = pint \cup UNION {AckInterrupts(pst, d.channel, d.mask) : d \in done}
  /\ UNCHANGED <<pen, mst, mmask, mirq, ns, ring>>
  /\ UpdatePbxIrq

-----------------------------------------------------------------------------
(* Ringing the postbox: write32 at DBCW_SET                                *)

\* The doorbell-bridge: the paired mailbox gets the same bits.
Bridge(c, v) ==
  /\ protocol = "doorbell-bridge"
  /\ pst' = SetBits(pst, c, v)
  /\ mst' = IF MbxPresent THEN Signalled(mst, c, v) ELSE mst
  /\ UNCHANGED <<pint, worker>>

\* clear_postbox_transfer and load_mbx_message: the postbox is emptied, the
\* sender interrupted, and the mailbox holds the reply and the notification.
Reply ==
  /\ pst' = [c \in Ch |-> {}]
  /\ pint' = pint \cup {notify_channel}
  /\ IF MbxPresent
     THEN \E r \in Replies :
            mst' = [c \in Ch |-> IF c = notify_channel THEN NotifyValue ELSE r[c]]
     ELSE UNCHANGED mst

\* The rse-ps-proxy collects words until the notification.
Proxy(c, v) ==
  /\ protocol = "rse-ps-proxy"
  /\ IF c = notify_channel /\ v = NotifyValue
     THEN Reply
     ELSE pst' = SetBits(pst, c, v) /\ UNCHANGED <<pint, mst>>
  /\ UNCHANGED worker

\* respond_rse_doorbell ends the write in a direct boot.
DirectReply(c, v) ==
  DirectBoot /\ protocol = "doorbell" /\ c = notify_channel /\ v = NotifyValue

\* The acknowledgement on behalf of the receiver.
Triggers(c, v) ==
  TriggerValue # {} /\ c = TriggerChannel /\ TriggerValue \subseteq v
AutoAck(c, v) ==
  /\ protocol = "doorbell" /\ Triggers(c, v)
  /\ IF DirectReply(c, v) THEN Reply
     ELSE /\ pst' = SetBits(pst, c, v)
          /\ mst' = IF MbxPresent THEN Signalled(mst, AckChannel, AckValue) ELSE mst
          /\ UNCHANGED pint
  /\ IF MbxPresent THEN Complete(c, v) ELSE UNCHANGED <<done, doneEvent>>
  /\ UNCHANGED <<ns, ring>>

\* schedule_rpmsg_ns_injection
ScheduleNs ==
  IF NsEnable /\ ~ns.sent
  THEN [ns EXCEPT !.pending = TRUE, !.event = TRUE]
  ELSE ns

\* Any other doorbell is a kick of the host's; without the name service the
\* bits stay until the mailbox side clears them.
Kick(c, v) ==
  /\ protocol = "doorbell" /\ ~Triggers(c, v)
  /\ IF DirectReply(c, v)
     THEN Reply
     ELSE pst' = SetBits(pst, c, v) /\ UNCHANGED <<pint, mst>>
  /\ ns' = ScheduleNs
  /\ IF NsEnable THEN Complete(c, v) ELSE UNCHANGED <<done, doneEvent>>
  /\ UNCHANGED ring

Ring(c, v) ==
  /\ Bridge(c, v) \/ Proxy(c, v) \/ AutoAck(c, v) \/ Kick(c, v)
  /\ UNCHANGED <<pen, mmask>>
  /\ UpdatePbxIrq
  /\ UpdateMbxIrq

-----------------------------------------------------------------------------
(* The other registers                                                     *)

\* clear_postbox_interrupt with bit 0 set.
ClearPbxInt(c) ==
  /\ pint' = pint \ {c}
  /\ UNCHANGED <<pst, pen, mst, mmask, mirq, worker>>
  /\ UpdatePbxIrq

\* DBCW_INT_EN of the postbox.
EnablePbxInt(c) ==
  /\ pen' \in {pen \cup {c}, pen \ {c}}
  /\ UNCHANGED <<pst, pint, mst, mmask, mirq, worker>>
  /\ UpdatePbxIrq

\* Mutant: the bits stay set in the postbox.
MbxClearOneSide(c, v) ==
  /\ mst' = ClearBits(mst, c, v)
  /\ pint' = pint \cup AckInterrupts(pst, c, v)
  /\ UNCHANGED <<pst, pen, mmask, worker>>
  /\ UpdateMbxIrq
  /\ UpdatePbxIrq

\* clear_mbx_doorbell_channel, then clear_postbox_doorbell_channel of the
\* paired postbox.
MbxClear(c, v) ==
  /\ MbxPresent
  /\ mst' = ClearBits(mst, c, v)
  /\ pst' = ClearBits(pst, c, v)
  /\ pint' = pint \cup AckInterrupts(pst, c, v)
  /\ UNCHANGED <<pen, mmask, worker>>
  /\ UpdateMbxIrq
  /\ UpdatePbxIrq

\* set_mbx_mask
MbxMask(c, v) ==
  /\ MbxPresent
  /\ mmask' = SetBits(mmask, c, v)
  /\ UNCHANGED <<pst, pint, pen, mst, pirq, worker>>
  /\ UpdateMbxIrq

\* Mutant: a doorbell that was already rung does not raise the line.
MbxUnmaskQuiet(c, v) ==
  /\ MbxPresent
  /\ mmask' = ClearBits(mmask, c, v)
  /\ UNCHANGED <<pst, pint, pen, mst, pirq, mirq, worker>>

\* clear_mbx_mask
MbxUnmask(c, v) ==
  /\ MbxPresent
  /\ mmask' = ClearBits(mmask, c, v)
  /\ UNCHANGED <<pst, pint, pen, mst, pirq, worker>>
  /\ UpdateMbxIrq

-----------------------------------------------------------------------------
(* rpmsg_ns_worker                                                         *)

NoSignal == UNCHANGED <<mst, mirq>>

SignalNs ==
  IF MbxPresent
  THEN /\ mst' = Signalled(mst, NsChannel, NsValue)
       /\ mirq' = MbxAsserted(mst', mmask)
  ELSE NoSignal

IdxWrap == 65536                      \* ring indices are uint16_t
BufferReady == ring.avail # ns.last /\ ring.ready

\* Mutant: the mailbox is rung although used->idx was not advanced.
PollUnpublished(n) ==
  IF BufferReady
  THEN /\ ns' = [n EXCEPT !.last = ring.avail, !.sent = TRUE, !.polls = 0,
                   !.pc = "event"]
       /\ UNCHANGED ring
       /\ SignalNs
  ELSE /\ ns' = [n EXCEPT !.pc = "poll", !.polls = @ + 1]
       /\ UNCHANGED ring
       /\ NoSignal

\* Mutant: that the announcement is out is not recorded.
PollUnrecorded(n) ==
  IF BufferReady
  THEN /\ ring' = [ring EXCEPT !.used = (@ + 1) % IdxWrap]
       /\ ns' = [n EXCEPT !.polls = 0, !.pc = "event"]
       /\ SignalNs
  ELSE /\ ns' = [n EXCEPT !.pc = "poll", !.polls = @ + 1]
       /\ UNCHANGED ring
       /\ NoSignal

\* One poll of a round, inject_rpmsg_ns_once, made by the worker n: the
\* message and the used element are written, used->idx advanced, and the
\* mailbox rung, after a delay or at once.
Poll(n) ==
  IF BufferReady
  THEN /\ ring' = [ring EXCEPT !.used = (@ + 1) % IdxWrap]
       /\ ns' = [n EXCEPT !.last = ring.avail, !.sent = TRUE, !.polls = 0,
                   !.pc = IF MbxPresent /\ NsSignalDelayed
                          THEN "signal" ELSE "event"]
       /\ IF NsSignalDelayed THEN NoSignal ELSE SignalNs
  ELSE /\ ns' = [n EXCEPT !.pc = "poll", !.polls = @ + 1]
       /\ UNCHANGED ring
       /\ NoSignal

unpolled == <<pst, pint, pen, mmask, pirq, done, doneEvent>>

\* Mutant: the worker takes up the kick and waits for the next one.
NsEventDrops ==
  /\ ns.event
  /\ ns' = [ns EXCEPT !.event = FALSE, !.pending = FALSE]
  /\ UNCHANGED <<unpolled, ring>> /\ NoSignal

\* m_rpmsg_ns_event fires.  A worker that is not waiting for it misses it.
NsEvent ==
  /\ ns.event
  /\ IF ns.pc = "event" /\ ns.pending /\ ~ns.sent
     THEN Poll([ns EXCEPT !.event = FALSE, !.pending = FALSE, !.polls = 0])
     ELSE ns' = [ns EXCEPT !.event = FALSE] /\ UNCHANGED ring /\ NoSignal
  /\ UNCHANGED unpolled

\* Mutant: a kick during the round is not looked at when it ends.
NsResumeOneRound ==
  /\ ns.pc = "poll"
  /\ IF ns.polls < MaxPolls THEN Poll(ns)
     ELSE ns' = [ns EXCEPT !.pc = "event", !.polls = 0] /\ UNCHANGED ring /\ NoSignal
  /\ UNCHANGED unpolled

\* The poll period is over: the next poll, or the next round if the host
\* kicked during this one.
NsResume ==
  /\ ns.pc = "poll"
  /\ IF ns.polls < MaxPolls THEN Poll(ns)
     ELSE IF ns.pending THEN Poll([ns EXCEPT !.pending = FALSE, !.polls = 0])
     ELSE ns' = [ns EXCEPT !.pc = "event", !.polls = 0] /\ UNCHANGED ring /\ NoSignal
  /\ UNCHANGED unpolled

\* The delay before the doorbell is over.
NsSignal ==
  /\ ns.pc = "signal"
  /\ ns' = [ns EXCEPT !.pc = "event"]
  /\ SignalNs
  /\ UNCHANGED <<unpolled, ring>>

\* The host adds a buffer to its receive ring.
HostPost ==
  /\ ring.avail < MaxPosted
  /\ ring' = [ring EXCEPT !.avail = @ + 1]
  /\ UNCHANGED <<frames, done, doneEvent, ns>>
HostMakeReady ==
  /\ ~ring.ready
  /\ ring' = [ring EXCEPT !.ready = TRUE]
  /\ UNCHANGED <<frames, done, doneEvent, ns>>

-----------------------------------------------------------------------------
\* After configure() and update_combined_irq of end_of_elaboration.
Init ==
  /\ pst = [c \in Ch |-> {}] /\ mst = [c \in Ch |-> {}]
  /\ mmask = [c \in Ch |-> Bits]
  /\ pint = {} /\ pen = {}
  /\ pirq = FALSE /\ mirq = FALSE
  /\ done = {} /\ doneEvent = FALSE
  /\ ns = [pc |-> "event", pending |-> FALSE, event |-> FALSE, sent |-> FALSE,
           polls |-> 0, last |-> 0]
  /\ ring = [avail |-> 0, ready |-> FALSE, used |-> 0]
  /\ protocol \in Protocols

Software ==
  \E c \in Ch :
    \/ \E v \in Values : \/ Ring(c, v)
                         \/ MbxClear(c, v) \/ MbxMask(c, v) \/ MbxUnmask(c, v)
    \/ ClearPbxInt(c) \/ EnablePbxInt(c)

Process == EmitCompletions \/ NsEvent \/ NsResume \/ NsSignal

Next ==
  /\ Software \/ HostPost \/ HostMakeReady \/ Process
  /\ UNCHANGED protocol

Spec == Init /\ [][Next]_vars

\* The SystemC kernel dispatches every notified event and every process
\* whose wait is over; nothing makes the software or the host act.
Fairness ==
  /\ WF_vars(EmitCompletions /\ UNCHANGED protocol)
  /\ WF_vars(NsEvent /\ UNCHANGED protocol)
  /\ WF_vars(NsResume /\ UNCHANGED protocol)
  /\ WF_vars(NsSignal /\ UNCHANGED protocol)

FairSpec == Spec /\ Fairness

-----------------------------------------------------------------------------
(* Properties                                                              *)

\* Each interrupt output is the combined status of its frame: no handler
\* that rings, clears, masks, replies or completes leaves a line stale.
IrqLinesExact ==
  /\ pirq = PbxAsserted(pint, pen)
  /\ mirq = MbxAsserted(mst, mmask)

\* The two frames of a bridge are one doorbell: a bit the sender rang is
\* pending at both ends until the receiver clears it.
BridgeAgrees ==
  (protocol = "doorbell-bridge" /\ MbxPresent) => mst = pst

\* Where transfers are completed synthetically, every bit the sender still
\* sees pending has a completion in the queue, and the queue's event is
\* notified: no transfer is left to nobody.
Synthetic == protocol = "doorbell" /\ NsEnable /\ MbxPresent
TransferIsOwned ==
  /\ done # {} => doneEvent
  /\ Synthetic => \A c \in Ch : \A b \in pst[c] :
                    \E d \in done : d.channel = c /\ b \in d.mask

\* A kick the worker has not taken up yet is not forgotten: its event is
\* still to fire, or the worker will look at the flag after this round.
KickIsKept ==
  (ns.pending /\ ~ns.sent) => (ns.pc = "poll" \/ ns.event)

\* The strict pair interrupts the sender only for a transfer that was
\* pending on that channel and that this step has ended.
TxDoneIsReal ==
  [][(StrictAck /\ protocol = "doorbell") =>
       \A c \in pint' \ pint :
         pst[c] # pst'[c] \/ DirectReply(c, NotifyValue)]_vars

\* The name-service doorbell reaches the host only after the message is in
\* the used ring (given that nothing else rings that bit).
NsPublishedFirst ==
  (AckChannel # NsChannel \/ AckValue \cap NsValue = {}) =>
    (Synthetic /\ ~DirectBoot /\ NsChannel \in Ch /\ mst[NsChannel] \cap NsValue # {}
       => ring.used >= 1)

\* The name service is announced at most once, however often the host kicks.
NsOnce == ring.used <= 1

\* Every transfer of such a pair ends.
TransferEnds ==
  Synthetic => \A c \in Ch : (pst[c] # {}) ~> (pst[c] = {})

\* A kick made while a receive buffer is ready gets the announcement, and
\* the worker rings for it.
KickIsAnswered ==
  (ns.pending /\ BufferReady) ~> (ns.sent /\ ns.pc = "event")
=============================================================================
