---------------------------- MODULE RsePsProxy ----------------------------
(***************************************************************************)
(* The rse-ps-proxy protocol of mhu320ae over the doorbell channels of one *)
(* pair.  Channel 0 carries the length of a message, the next ones a unit  *)
(* each, the last one the notification.  Writing to the postbox can only   *)
(* set bits; what clears its words is the answer, or the client clearing   *)
(* the words of the mailbox.                                               *)
(*                                                                         *)
(* The client (external) is a driver that writes a message channel by      *)
(* channel, notifies, reads the reply when it pleases, and clears mailbox  *)
(* words between two messages, even of a channel the next message has yet  *)
(* to reach.  It may restart at any moment; then it first clears every     *)
(* channel of the mailbox.                                                 *)
(***************************************************************************)
EXTENDS RsePsHandlers

CONSTANT Calls     \* the requests the client makes

ASSUME CallsAssumption == Calls \subseteq Requests

VARIABLES
  post,       \* the postbox's m_db_status: the words set in each channel
  mail,       \* the mailbox's m_db_status: the word in each channel, or none
  store,     \* m_ps_store
  meas,      \* m_measurements
  buffers,   \* the client's output buffers
  client     \* where the client is, its request and the next channel

proxyVars == <<post, mail, store, meas, buffers, client>>

NotifyCh == Capacity + 1
ProxyCh == 0 .. NotifyCh
Cleared == [c \in ProxyCh |-> {}]

-----------------------------------------------------------------------------
(* Words and messages                                                      *)

\* The word a request has in channel c, the length in channel 0.
Word(r, c) == IF c = 0 THEN [kind |-> "length", length |-> r.sent]
              ELSE [kind |-> "unit", of |-> r, unit |-> c]

\* read_doorbell_message: words that were ORed with others, or that are
\* missing, make a message that may be anything.
Intact(st, r) == \A c \in 0 .. Arrived(r) : st[c] = {Word(r, c)}
read_doorbell_message(st) ==
  IF \E r \in Calls : Intact(st, r) THEN {r \in Calls : Intact(st, r)} ELSE Calls

\* Mutant: only the notification is cleared, as if the words were consumed
\* by being read.
Mut_clear_notify_only(st) == [st EXCEPT ![NotifyCh] = {}]

\* clear_postbox_transfer: clear_all_status
clear_postbox_transfer(st) == Cleared

\* load_mbx_message: every channel is cleared first, the length is that of
\* the whole reply, and what does not fit is left out.
load_mbx_message(reply) ==
  [c \in ProxyCh |-> CASE c = 0 -> {[kind |-> "length", length |-> Len(reply)]}
                  [] c \in 1 .. Min({Len(reply), Capacity}) -> {reply[c]}
                  [] c = NotifyCh -> {[kind |-> "notify"]}
                  [] OTHER -> {}]

\* What the client finds in the mailbox.
TheWord(c) == CHOOSE w \in mail[c] : TRUE
Found ==
  [length |-> TheWord(0).length,
   units |-> [c \in 1 .. Min({TheWord(0).length, Capacity}) |-> TheWord(c)]]

-----------------------------------------------------------------------------
(* The client and the frames                                               *)

Idle == [pc |-> "idle"]

ProxyInit ==
  /\ post = Cleared /\ mail = Cleared
  /\ store = <<>> /\ meas = <<>>
  /\ buffers = Untouched
  /\ client = Idle

Begin(r) ==
  /\ client.pc = "idle"
  /\ client' = [pc |-> "write", request |-> r, next |-> 0]
  /\ UNCHANGED <<post, mail, store, meas, buffers>>

\* write_postbox_doorbell on a channel that is not the last.
WriteWord ==
  /\ client.pc = "write"
  /\ client.next <= Arrived(client.request)
  /\ post' = [post EXCEPT ![client.next] = @ \cup {Word(client.request, client.next)}]
  /\ client' = [client EXCEPT !.next = @ + 1]
  /\ UNCHANGED <<mail, store, meas, buffers>>

\* write_postbox_doorbell on the notify channel: the request is read, served
\* and answered before the write completes.
Notify ==
  /\ client.pc = "write"
  /\ client.next > Arrived(client.request)
  /\ LET set == [post EXCEPT ![NotifyCh] = @ \cup {[kind |-> "notify"]}]
     IN /\ \E r \in read_doorbell_message(set) :
             \E o \in build_rse_ps_reply(r, store, meas) :
               /\ store' = o.store /\ meas' = o.meas
               /\ buffers' = o.buffers
               /\ mail' = load_mbx_message(o.reply)
        /\ post' = clear_postbox_transfer(set)
  /\ client' = [pc |-> "wait", request |-> client.request]

TakeReply ==
  /\ client.pc = "wait"
  /\ client' = Idle
  /\ buffers' = Untouched
  /\ UNCHANGED <<post, mail, store, meas>>

\* clear_mbx_doorbell_channel: the postbox's word goes with the mailbox's.
clear_mbx_doorbell_channel(c) ==
  /\ mail' = [mail EXCEPT ![c] = {}]
  /\ post' = [post EXCEPT ![c] = {}]

ClearChannel(c) ==
  /\ client.pc = "idle" \/ (client.pc = "write" /\ c >= client.next)
  /\ clear_mbx_doorbell_channel(c)
  /\ UNCHANGED <<store, meas, buffers, client>>

Restart ==
  /\ client' = [pc |-> "drain", next |-> 0]
  /\ buffers' = Untouched
  /\ UNCHANGED <<post, mail, store, meas>>

Drain ==
  /\ client.pc = "drain"
  /\ clear_mbx_doorbell_channel(client.next)
  /\ client' = IF client.next = NotifyCh THEN Idle
               ELSE [client EXCEPT !.next = @ + 1]
  /\ UNCHANGED <<store, meas, buffers>>

ProxyNext ==
  \/ \E r \in Calls : Begin(r)
  \/ WriteWord
  \/ Notify
  \/ TakeReply
  \/ \E c \in ProxyCh : ClearChannel(c)
  \/ Restart
  \/ Drain

ProxySpec == ProxyInit /\ [][ProxyNext]_proxyVars

-----------------------------------------------------------------------------
(* Refinement                                                              *)

Service == INSTANCE PsService WITH
  Outcomes <- build_rse_ps_reply,
  call <- IF client.pc \in {"write", "wait"} THEN {client.request} ELSE {},
  answer <- IF client.pc = "wait" THEN {Found} ELSE {}

\* The proxy implements the service without channels: whatever words earlier
\* messages, their replies and abandoned transfers left behind, a request is
\* served once, as it was sent, and the client finds its own whole reply, cut
\* only where the channels end (build_rse_ps_reply, load_mbx_message).
ImplementsPsService == Service!ServiceSpec
=============================================================================
