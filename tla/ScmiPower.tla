----------------------------- MODULE ScmiPower -----------------------------
(***************************************************************************)
(* The SCMI server of an mhu320ae postbox.  An agent writes a request into *)
(* its channel's slot of shared memory and rings the channel's doorbell;   *)
(* respond_scmi() answers inside that register write.  Requests that       *)
(* change power leave a pending reset which a SystemC thread drives later. *)
(*                                                                         *)
(* The register writes and the two threads exclude each other in the       *)
(* SystemC kernel.  The processors do not wait for it: they reach shared   *)
(* memory through DMI, so that a polling agent sees the response grow one  *)
(* mem_write at a time.  Each mem_write is therefore an action.            *)
(***************************************************************************)
EXTENDS Naturals, FiniteSets

CONSTANTS
  Channels,     \* the channels of scmi_channel_in_range, one slot each
  Requests,     \* the requests the agents make
  TableDomains, \* the indices of m_power_domain_states
  Lines,        \* the domains whose power_domain_reset output is bound
  Transport,    \* p_scmi_transport
  AssertOnOff,  \* p_power_domain_reset_assert_on_power_off
  PulseOnOn,    \* p_power_domain_reset_pulse_on_power_on
  ResetDelay,   \* p_power_domain_reset_delay_ns
  SysDelay,     \* p_system_power_reset_delay_ns
  BootReset     \* p_assert_power_on_reset

Protocols == {"base", "power", "sys", "perf", "pfdi", "unknown"}

\* arg and val are the arguments the message looks at: a domain, a message id
\* or a system state, and the power state or the performance level.
RequestType == [proto : Protocols, msg : Nat, arg : Nat, val : Nat]

ASSUME ConstAssumption ==
  /\ Channels # {}
  /\ Requests # {} /\ Requests \subseteq RequestType
  /\ TableDomains \subseteq Nat
  /\ Lines \subseteq TableDomains
  /\ Transport \in {"mailbox", "rse-bl2", "pfdi-monitor"}
  /\ AssertOnOff \in BOOLEAN /\ PulseOnOn \in BOOLEAN /\ BootReset \in BOOLEAN
  /\ ResetDelay \in Nat /\ SysDelay \in Nat

VARIABLES
  slot,      \* shared memory, one slot per channel
  agent,     \* where each channel's agent is: "idle", "posted" or "rung"
  task,      \* respond_scmi(): what it still has to write, and where it is
  ack,       \* the mailbox's status bit ack_bit
  scan,      \* the mailbox's handler cleared the bit and has not looked yet
  table,     \* m_power_domain_states
  last,      \* m_power_domain_state
  level,     \* m_performance_levels[0]
  pend,      \* m_pending_power_domain_reset_*
  event,     \* the notification of m_power_domain_reset_event
  core,      \* per line, the core whose reset input it drives
  por,       \* the power_on_reset output
  sys,       \* emit_system_power_reset, its pending request and its output
  fate,      \* history: what became of the last state set for each domain
  told       \* history: the messages an agent was told are supported

vars == <<slot, agent, task, ack, scan, table, last, level, pend, event, core,
          por, sys, fate, told>>
power == <<table, last, pend, event, core, por, sys, fate>>

\* chan: the channel status word.  len, status and data say whose words the
\* length, the first and the other payload words are: the request's, or the
\* response's; len is "short" for a response without data.
Slots == [chan : {"free", "busy"}, req : RequestType,
          len : {"request", "short", "long"},
          status : {"request", "ok", "support", "param"},
          data : {"request", "response"}]
\* long: the response has data; get: the request is a POWER_STATE_GET.
Stages == {"idle", "length", "status", "data", "free", "ack"}
Tasks == [stage : Stages, ch : Channels, status : {"ok", "support", "param"},
          long : BOOLEAN, get : BOOLEAN]
Pendings == [valid : BOOLEAN, id : Nat, state : Nat]
\* A pending notification of an sc_event: none, for a later time, or for the
\* next delta cycle.
Notifications == {"none", "timed", "delta"}
\* fresh: the core came out of reset since its domain's state was last set.
Cores == [held : BOOLEAN, fresh : BOOLEAN]
Systems == [valid : BOOLEAN, event : Notifications, line : BOOLEAN]
Fates == {"none", "pending", "driven", "overwritten"}

TypeOK ==
  /\ slot \in [Channels -> Slots]
  /\ agent \in [Channels -> {"idle", "posted", "rung"}]
  /\ task \in Tasks
  /\ ack \in BOOLEAN /\ scan \in BOOLEAN
  /\ table \in [TableDomains -> Nat] /\ last \in Nat /\ level \in Nat
  /\ pend \in Pendings /\ event \in Notifications
  /\ core \in [Lines -> Cores] /\ por \in BOOLEAN
  /\ sys \in Systems
  /\ fate \in [Lines -> Fates]
  /\ told \in SUBSET (Protocols \X Nat)

-----------------------------------------------------------------------------
(* What each message is answered                                           *)

PerfDomains == {0}
MaxLevel == 2000
DiscoverProtocols == 6        \* of the base protocol
MessageAttributes == 2
PowerSet == 4
PowerGet == 5
SysSet == 3
SysNotify == 5
LevelSet == 7
PerfReads == {3, 4, 6, 8}

\* Mutant: the list names the PFDI monitor whatever the transport is.
ProtocolsWithPfdi == {"base", "power", "sys", "perf", "pfdi"}

\* The protocols of the base protocol's list.
scmi_supported_protocols ==
  IF Transport = "pfdi-monitor" THEN {"base", "pfdi"}
  ELSE {"base", "power", "sys", "perf"}

Rsp(status, data) == [status |-> status, data |-> data]
Refused == Rsp("support", FALSE)
Attribute(supported) == Rsp(IF supported THEN "ok" ELSE "support", TRUE)

\* The base protocol's MESSAGE_ATTRIBUTES answers for any message.
respond_scmi_base(r) == IF r.msg \in 0 .. 8 THEN Rsp("ok", r.msg # 8) ELSE Refused

respond_scmi_power_domain(r) ==
  CASE r.msg \in {0, 3, PowerGet}   -> Rsp("ok", TRUE)
    [] r.msg = PowerSet             -> Rsp("ok", FALSE)
    [] r.msg = MessageAttributes    -> Attribute(r.arg \in {PowerSet, PowerGet})
    [] OTHER                        -> Refused

respond_scmi_sys_power(r) ==
  CASE r.msg = 0                    -> Rsp("ok", TRUE)
    [] r.msg \in {SysSet, SysNotify} -> Rsp("ok", FALSE)
    [] r.msg = MessageAttributes    -> Attribute(r.arg \in {SysSet, SysNotify})
    [] OTHER                        -> Refused

\* The messages 3 to 10 name a domain; those of PerfReads return data.
respond_scmi_performance(r) ==
  CASE r.msg \in {0, 1}             -> Rsp("ok", TRUE)
    [] r.msg = MessageAttributes    -> Attribute(r.arg \in 0 .. 10)
    [] r.msg \in 3 .. 10            -> IF r.arg \in PerfDomains
                                       THEN Rsp("ok", r.msg \in PerfReads)
                                       ELSE Rsp("param", FALSE)
    [] OTHER                        -> Refused

respond_scmi_pfdi_monitor(r) ==
  CASE r.msg = 0                    -> Rsp("ok", TRUE)
    [] r.msg \in {3, 4}             -> Rsp("ok", FALSE)
    [] OTHER                        -> Refused

Response(r) ==
  CASE r.proto = "base"             -> respond_scmi_base(r)
    [] r.proto = "power"            -> respond_scmi_power_domain(r)
    [] r.proto = "sys"              -> respond_scmi_sys_power(r)
    [] r.proto = "perf"             -> respond_scmi_performance(r)
    [] r.proto = "pfdi" /\ Transport = "pfdi-monitor" ->
         respond_scmi_pfdi_monitor(r)
    [] OTHER                        -> Refused

Status(r) == Response(r).status
HasData(r) == Response(r).data

\* What an agent learns of a response: the messages it may use.
Told(r) ==
  CASE r.proto = "base" /\ r.msg = DiscoverProtocols ->
         {<<p, 0>> : p \in scmi_supported_protocols}
    [] /\ r.proto # "base"
       /\ r.msg = MessageAttributes
       /\ Status(r) = "ok" -> {<<r.proto, r.arg>>}
    [] OTHER -> {}

-----------------------------------------------------------------------------
(* Power                                                                   *)

power_state_is_on(s) == s % 16 = 1
power_state_is_off(s) == s % 16 = 0
sys_power_state_is_reset(s) == s \in {1, 2}

\* sc_event::notify: of two notifications the earlier one stays.
Notified(e, delay) ==
  IF delay = 0 \/ e = "delta" THEN "delta" ELSE "timed"

\* Mutant: a request does not replace a pending one.
PendingKept(d, s) ==
  IF pend.valid THEN pend ELSE [valid |-> TRUE, id |-> d, state |-> s]

Pending(d, s) == [valid |-> TRUE, id |-> d, state |-> s]

\* A second request replaces the first one's pending reset: there is one.
apply_power_domain_state(d, s) ==
  /\ table' = [i \in TableDomains |-> IF i = d THEN s ELSE table[i]]
  /\ last' = s
  /\ pend' = Pending(d, s)
  /\ event' = Notified(event, ResetDelay)
  /\ core' = [i \in Lines |->
                [core[i] EXCEPT !.fresh = IF i = d THEN FALSE ELSE @]]
  /\ fate' = [i \in Lines |->
                IF i = d THEN "pending"
                ELSE IF fate[i] = "pending" THEN "overwritten"
                ELSE fate[i]]
  /\ UNCHANGED <<por, sys>>

schedule_system_power_reset(s) ==
  /\ sys' = IF sys_power_state_is_reset(s)
            THEN [sys EXCEPT !.valid = TRUE,
                             !.event = Notified(@, SysDelay)]
            ELSE sys
  /\ UNCHANGED <<table, last, pend, event, core, por, fate>>

Leveled(v) == IF v # 0 THEN v ELSE MaxLevel

\* What a request changes besides its response.
Effect(r) ==
  /\ level' = IF r.proto = "perf" /\ r.msg = LevelSet /\ Status(r) = "ok"
              THEN Leveled(r.val) ELSE level
  /\ CASE r.proto = "power" /\ r.msg = PowerSet ->
            apply_power_domain_state(r.arg, r.val)
       [] r.proto = "sys" /\ r.msg = SysSet ->
            schedule_system_power_reset(r.arg)
       [] OTHER -> UNCHANGED power

-----------------------------------------------------------------------------
(* respond_scmi                                                            *)

AnyChannel == CHOOSE c \in Channels : TRUE
IdleTask == [stage |-> "idle", ch |-> AnyChannel, status |-> "ok",
             long |-> FALSE, get |-> FALSE]

\* The write of DBCW_SET: the request is read and carried out.
Ring(c) ==
  LET r == slot[c].req IN
  /\ task.stage = "idle"
  /\ agent[c] = "posted"
  /\ agent' = [agent EXCEPT ![c] = "rung"]
  /\ task' = [stage |-> "length", ch |-> c, status |-> Status(r),
              long |-> HasData(r),
              get |-> r.proto = "power" /\ r.msg = PowerGet]
  /\ told' = told \cup Told(r)
  /\ Effect(r)
  /\ UNCHANGED <<slot, ack, scan>>

\* Mutant: the channel is freed before the payload is written.
AfterFreeEarly(stage) ==
  CASE stage = "length" -> "free"
    [] stage = "free"   -> "status"
    [] stage = "status" -> IF task.long THEN "data" ELSE "ack"
    [] stage = "data"   -> "ack"
    [] OTHER            -> "idle"

\* write_scmi_response: the order of its mem_writes.
After(stage) ==
  CASE stage = "length" -> "status"
    [] stage = "status" -> IF task.long THEN "data" ELSE "free"
    [] stage = "data"   -> "free"
    [] stage = "free"   -> "ack"
    [] OTHER            -> "idle"

Written(s) ==
  CASE task.stage = "length" ->
         [s EXCEPT !.len = IF task.long THEN "long" ELSE "short"]
    [] task.stage = "status" -> [s EXCEPT !.status = task.status]
    [] task.stage = "data"   -> [s EXCEPT !.data = "response"]
    [] OTHER                 -> [s EXCEPT !.chan = "free"]

WriteResponse ==
  /\ task.stage \in {"length", "status", "data", "free"}
  /\ slot' = [slot EXCEPT ![task.ch] = Written(@)]
  /\ task' = [task EXCEPT !.stage = After(@)]
  /\ UNCHANGED <<agent, ack, scan, level, told>>
  /\ UNCHANGED power

\* The ack to the mailbox, which every SCMI pair of the platform has; after a
\* GET, a pending reset comes forward.
Renotified == IF task.get /\ pend.valid THEN Notified(event, 0) ELSE event

\* Mutant: the status bit is toggled, not set.
AcknowledgeToggles ==
  /\ task.stage = "ack"
  /\ ack' = ~ack
  /\ event' = Renotified
  /\ task' = IdleTask
  /\ UNCHANGED <<slot, agent, scan, table, last, level, pend, core, por, sys,
                 fate, told>>

\* Mutant: an error response is not acknowledged.
AcknowledgeOnlyOk ==
  /\ task.stage = "ack"
  /\ ack' = (ack \/ task.status = "ok")
  /\ event' = Renotified
  /\ task' = IdleTask
  /\ UNCHANGED <<slot, agent, scan, table, last, level, pend, core, por, sys,
                 fate, told>>

Acknowledge ==
  /\ task.stage = "ack"
  /\ ack' = TRUE
  /\ event' = Renotified
  /\ task' = IdleTask
  /\ UNCHANGED <<slot, agent, scan, table, last, level, pend, core, por, sys,
                 fate, told>>

-----------------------------------------------------------------------------
(* The threads.  A timed notification fires when no delta cycle is due.    *)

MayFire(e) ==
  /\ task.stage = "idle"
  /\ e # "none"
  /\ e = "timed" => "delta" \notin {event, sys.event}

\* Mutant: the pulse ends with the line high.
DrivenSwapped(k, s) ==
  CASE s % 16 = 1 -> [held |-> PulseOnOn, fresh |-> TRUE]
    [] s % 16 = 0 /\ AssertOnOff -> [k EXCEPT !.held = TRUE]
    [] OTHER -> k

\* drive_power_domain_reset on one line: a pulse is two writes in a row.
Driven(k, s) ==
  CASE power_state_is_on(s) ->
         [held |-> FALSE, fresh |-> k.fresh \/ k.held \/ PulseOnOn]
    [] power_state_is_off(s) /\ AssertOnOff -> [k EXCEPT !.held = TRUE]
    [] OTHER -> k

DrivenPor(s) ==
  CASE power_state_is_on(s) -> FALSE
    [] power_state_is_off(s) /\ AssertOnOff -> TRUE
    [] OTHER -> por

\* Mutant: the thread waits until the response was taken.
EmitDomainResetWaits ==
  /\ MayFire(event) /\ ~ack
  /\ event' = "none"
  /\ pend' = [pend EXCEPT !.valid = FALSE]
  /\ core' = [d \in Lines |-> IF d = pend.id THEN Driven(core[d], pend.state)
                                             ELSE core[d]]
  /\ por' = DrivenPor(pend.state)
  /\ fate' = [d \in Lines |-> IF d = pend.id THEN "driven" ELSE fate[d]]
  /\ UNCHANGED <<slot, agent, task, ack, scan, table, last, level, sys, told>>

emit_power_domain_reset ==
  /\ MayFire(event)
  /\ event' = "none"
  /\ IF pend.valid
     THEN /\ pend' = [pend EXCEPT !.valid = FALSE]
          /\ core' = [d \in Lines |->
                        IF d = pend.id THEN Driven(core[d], pend.state)
                        ELSE core[d]]
          /\ por' = DrivenPor(pend.state)
          /\ fate' = [d \in Lines |->
                        IF d = pend.id THEN "driven" ELSE fate[d]]
     ELSE UNCHANGED <<pend, core, por, fate>>
  /\ UNCHANGED <<slot, agent, task, ack, scan, table, last, level, sys, told>>

\* Mutant: the thread forgets the request before it looks at it.
EmitSystemResetForgets ==
  /\ MayFire(sys.event)
  /\ sys' = [sys EXCEPT !.event = "none", !.valid = FALSE]
  /\ UNCHANGED <<slot, agent, task, ack, scan, table, last, level, pend, event,
                 core, por, fate, told>>

\* The thread waits for the event only while its output is low: a
\* notification that fires during the pulse is missed.
emit_system_power_reset ==
  /\ MayFire(sys.event)
  /\ sys' = IF sys.valid /\ ~sys.line
            THEN [valid |-> FALSE, event |-> "none", line |-> TRUE]
            ELSE [sys EXCEPT !.event = "none"]
  /\ UNCHANGED <<slot, agent, task, ack, scan, table, last, level, pend, event,
                 core, por, fate, told>>

end_system_power_reset ==
  /\ task.stage = "idle"
  /\ sys.line
  /\ sys' = [sys EXCEPT !.line = FALSE]
  /\ UNCHANGED <<slot, agent, task, ack, scan, table, last, level, pend, event,
                 core, por, fate, told>>

-----------------------------------------------------------------------------
(* The agents.  One that owns its slot writes a request and marks the      *)
(* channel busy; it takes the response when it sees the channel free, by   *)
(* polling or in the handler of the mailbox's interrupt.                   *)

Posted(r) == [chan |-> "busy", req |-> r, len |-> "request",
              status |-> "request", data |-> "request"]

Post(c, r) ==
  /\ agent[c] = "idle"
  /\ slot[c].chan = "free"
  /\ slot' = [slot EXCEPT ![c] = Posted(r)]
  /\ agent' = [agent EXCEPT ![c] = "posted"]
  /\ UNCHANGED <<task, ack, scan, level, told>>
  /\ UNCHANGED power

Poll(c) ==
  /\ agent[c] = "rung"
  /\ slot[c].chan = "free"
  /\ agent' = [agent EXCEPT ![c] = "idle"]
  /\ UNCHANGED <<slot, task, ack, scan, level, told>>
  /\ UNCHANGED power

\* The handler's write of the mailbox's clear register.
ClearAck ==
  /\ task.stage = "idle"
  /\ ack /\ ~scan
  /\ ack' = FALSE
  /\ scan' = TRUE
  /\ UNCHANGED <<slot, agent, task, level, told>>
  /\ UNCHANGED power

Complete(c) == agent[c] = "rung" /\ slot[c].chan = "free"

Scan ==
  /\ scan
  /\ scan' = FALSE
  /\ agent' = [c \in Channels |-> IF Complete(c) THEN "idle" ELSE agent[c]]
  /\ UNCHANGED <<slot, task, ack, level, told>>
  /\ UNCHANGED power

-----------------------------------------------------------------------------
\* start_of_simulation frees the channels; emit_power_on_reset raises
\* power_on_reset in the first delta cycle, before any agent runs.
Init ==
  /\ slot = [c \in Channels |->
               [Posted(CHOOSE r \in Requests : TRUE) EXCEPT !.chan = "free"]]
  /\ agent = [c \in Channels |-> "idle"]
  /\ task = IdleTask
  /\ ack = FALSE /\ scan = FALSE
  /\ table = [d \in TableDomains |-> 0] /\ last = 0 /\ level = 0
  /\ pend = [valid |-> FALSE, id |-> 0, state |-> 0]
  /\ event = "none"
  /\ core = [d \in Lines |-> [held |-> FALSE, fresh |-> FALSE]]
  /\ por = BootReset
  /\ sys = [valid |-> FALSE, event |-> "none", line |-> FALSE]
  /\ fate = [d \in Lines |-> "none"]
  /\ told = {}

Next ==
  \/ \E c \in Channels, r \in Requests : Post(c, r)
  \/ \E c \in Channels : Ring(c)
  \/ WriteResponse
  \/ Acknowledge
  \/ \E c \in Channels : Poll(c)
  \/ ClearAck
  \/ Scan
  \/ emit_power_domain_reset
  \/ emit_system_power_reset
  \/ end_system_power_reset

Spec == Init /\ [][Next]_vars

-----------------------------------------------------------------------------
(* Properties                                                              *)

\* An agent that sees its channel free sees the whole response, however far
\* respond_scmi has got: no word within the length is the request's.
FreeMeansComplete ==
  \A c \in Channels : Complete(c) =>
    /\ slot[c].len # "request"
    /\ slot[c].status # "request"
    /\ slot[c].len = "long" => slot[c].data = "response"

\* No response is missed by an agent that sleeps until the mailbox's
\* interrupt: the ack bit is set, or the handler has yet to look, or the ack
\* comes next.  All channels share that one bit.
CompletionIsSignalled ==
  \A c \in Channels : Complete(c) =>
    ack \/ scan \/ (task.stage = "ack" /\ task.ch = c)

\* What the discovery messages announce (the protocols of the list, the
\* messages of MESSAGE_ATTRIBUTES) is never refused as unsupported.  The base
\* protocol's MESSAGE_ATTRIBUTES, which answers for any id, is left out.
AdvertisedIsServed ==
  \A c \in Channels :
    /\ slot[c].status = "support"
    /\ slot[c].req.msg # MessageAttributes
    => <<slot[c].req.proto, slot[c].req.msg>> \notin told

\* The one pending reset is that of the last domain set, has a notification,
\* and still agrees with the table; nothing else is called pending.
PendingIsArmed ==
  /\ pend.valid <=> event # "none"
  /\ pend.valid => last = pend.state
  /\ \A d \in TableDomains :
       pend.valid /\ pend.id = d => table[d] = pend.state
  /\ \A d \in Lines : fate[d] = "pending" <=> pend.valid /\ pend.id = d

\* Once the thread has driven a domain's last request the line agrees with
\* the state GET reports: on means released, and restarted since the request
\* if the platform asks for a pulse; off means held, if it asks for that.
LinesFollowTable ==
  \A d \in Lines : fate[d] = "driven" =>
    /\ power_state_is_on(table[d]) =>
         /\ ~core[d].held
         /\ PulseOnOn => core[d].fresh
         /\ ~AssertOnOff => ~por
    /\ power_state_is_off(table[d]) /\ AssertOnOff => core[d].held

\* The kernel resumes a process whose event has fired, and a register write
\* that is under way ends.  The threads need strong fairness because they
\* wait while a register write runs.
Fairness ==
  /\ WF_vars(WriteResponse) /\ WF_vars(Acknowledge)
  /\ SF_vars(emit_power_domain_reset)
  /\ SF_vars(emit_system_power_reset)
  /\ SF_vars(end_system_power_reset)

FairSpec == Spec /\ Fairness

\* A power state set is driven to its line, unless the state of another
\* domain is set before the thread runs.
SetIsDriven ==
  \A d \in Lines : fate[d] = "pending" ~> fate[d] # "pending"

\* A system reset asked for while the line is low is a whole pulse.
SystemResetPulses ==
  /\ sys.valid /\ sys.event # "none" /\ ~sys.line ~> sys.line
  /\ sys.line ~> ~sys.line

\* The mailbox's interrupt is a level: while the ack bit is set its handler is
\* entered, and the handler's write waits for no more than the register write
\* under way.  Nobody has to poll.
SleeperSpec == FairSpec /\ SF_vars(ClearAck) /\ WF_vars(Scan)

\* An agent that rings and then sleeps until the mailbox's interrupt gets its
\* response, although every channel shares the one ack bit and the handler may
\* clear it while the response of another channel is half written.
SleeperIsWoken ==
  \A c \in Channels : agent[c] = "rung" ~> agent[c] = "idle"
=============================================================================
