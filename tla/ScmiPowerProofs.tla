-------------------------- MODULE ScmiPowerProofs --------------------------
(***************************************************************************)
(* Proofs about ScmiPower, for any channels, requests, tables, lines and   *)
(* parameters.                                                             *)
(***************************************************************************)
EXTENDS ScmiPower, TLAPS

-----------------------------------------------------------------------------
(* What the requests are answered                                          *)

\* A response is a status and whether there is data.
LEMMA ResponseType ==
  ASSUME NEW r \in RequestType
  PROVE  /\ Status(r) \in {"ok", "support", "param"}
         /\ HasData(r) \in BOOLEAN
<1> DEFINE R == [status : {"ok", "support", "param"}, data : BOOLEAN]
<1>1. /\ \A b \in BOOLEAN : Rsp("ok", b) \in R /\ Rsp("param", b) \in R
      /\ \A b : Attribute(b) \in R
      /\ Refused \in R
  BY DEF Rsp, Refused, Attribute
<1> HIDE DEF R
<1>2. respond_scmi_base(r) \in R
  BY <1>1 DEF respond_scmi_base
<1>3. respond_scmi_power_domain(r) \in R
  BY <1>1 DEF respond_scmi_power_domain
<1>4. respond_scmi_sys_power(r) \in R
  BY <1>1 DEF respond_scmi_sys_power
<1>5. respond_scmi_performance(r) \in R
  <2>1. (r.msg \in PerfReads) \in BOOLEAN
    OBVIOUS
  <2>2. Rsp("ok", r.msg \in PerfReads) \in R
    BY <1>1, <2>1
  <2> QED
    BY <1>1, <2>2 DEF respond_scmi_performance
<1>6. respond_scmi_pfdi_monitor(r) \in R
  BY <1>1 DEF respond_scmi_pfdi_monitor
<1>7. Response(r) \in R
  BY <1>1, <1>2, <1>3, <1>4, <1>5, <1>6 DEF Response
<1> QED
  BY <1>7 DEF Status, HasData, R

\* What an agent learns are messages.
LEMMA ToldType ==
  ASSUME NEW r \in RequestType
  PROVE  Told(r) \subseteq Protocols \X Nat
BY DEF Told, scmi_supported_protocols, Protocols, RequestType

\* A message that was told is not refused: each case of MESSAGE_ATTRIBUTES
\* that answers SCMI_SUCCESS has a case of its own, and every protocol of the
\* list answers message 0.
Served(m) ==
  \A q \in RequestType :
    <<q.proto, q.msg>> = m /\ q.msg # MessageAttributes =>
      Status(q) # "support"

LEMMA ToldIsServed ==
  ASSUME NEW r \in RequestType, NEW m \in Told(r)
  PROVE  Served(m)
<1> SUFFICES ASSUME NEW q \in RequestType, <<q.proto, q.msg>> = m,
                    q.msg # MessageAttributes
             PROVE  Status(q) # "support"
  BY DEF Served
<1> USE DEF Status, Rsp, Attribute, Refused
<1>0. /\ q.msg \in Nat /\ r.arg \in Nat
      /\ r.proto \in Protocols /\ q.proto \in Protocols
  BY DEF RequestType
<1>1. CASE r.proto = "base" /\ r.msg = DiscoverProtocols
  <2>1. q.proto \in scmi_supported_protocols /\ q.msg = 0
    BY <1>1 DEF Told
  <2> QED
    BY <2>1, ConstAssumption
       DEF Response, scmi_supported_protocols, respond_scmi_base,
           respond_scmi_power_domain, respond_scmi_sys_power,
           respond_scmi_performance, respond_scmi_pfdi_monitor, PowerGet,
           PowerSet, SysSet, SysNotify, MessageAttributes
<1>2. CASE /\ r.proto # "base" /\ r.msg = MessageAttributes
           /\ Status(r) = "ok"
  <2>1. q.proto = r.proto /\ q.msg = r.arg
    BY <1>2 DEF Told
  <2>2. CASE r.proto = "power"
    <3>1. r.arg \in {PowerSet, PowerGet}
      BY <1>2, <2>2 DEF Response, respond_scmi_power_domain, PowerSet,
                        PowerGet, MessageAttributes
    <3> QED
      BY <2>1, <2>2, <3>1
         DEF Response, respond_scmi_power_domain, PowerSet, PowerGet
  <2>3. CASE r.proto = "sys"
    <3>1. r.arg \in {SysSet, SysNotify}
      BY <1>2, <2>3 DEF Response, respond_scmi_sys_power, SysSet, SysNotify,
                        MessageAttributes
    <3> QED
      BY <2>1, <2>3, <3>1
         DEF Response, respond_scmi_sys_power, SysSet, SysNotify
  <2>4. CASE r.proto = "perf"
    <3>1. r.arg \in 0 .. 10
      BY <1>2, <2>4 DEF Response, respond_scmi_performance, MessageAttributes
    <3>2. q.msg \in {0, 1} \/ q.msg \in 3 .. 10
      BY <2>1, <3>1 DEF MessageAttributes
    <3> QED
      BY <2>1, <2>4, <3>2
         DEF Response, respond_scmi_performance, MessageAttributes
  <2>5. r.proto \in {"power", "sys", "perf"}
    <3>1. Status(r) = "support" \/ r.proto \in {"base", "power", "sys", "perf"}
      BY <1>0, <1>2 DEF Response, respond_scmi_pfdi_monitor, Protocols,
                        MessageAttributes
    <3> QED
      BY <1>2, <3>1
  <2> QED
    BY <2>2, <2>3, <2>4, <2>5
<1>3. ~(r.proto = "base" /\ r.msg = DiscoverProtocols)
      /\ ~(r.proto # "base" /\ r.msg = MessageAttributes /\ Status(r) = "ok")
      => Told(r) = {}
  BY DEF Told
<1> QED
  BY <1>1, <1>2, <1>3

-----------------------------------------------------------------------------
(* Types                                                                   *)

LEMMA NotifiedType ==
  ASSUME NEW e, NEW n
  PROVE  Notified(e, n) \in {"timed", "delta"}
BY DEF Notified

LEMMA IdleTaskType == IdleTask \in Tasks
<1>1. AnyChannel \in Channels
  BY ConstAssumption DEF AnyChannel
<1> QED
  BY <1>1 DEF IdleTask, Tasks, Stages

LEMMA PostedType ==
  ASSUME NEW r \in RequestType
  PROVE  Posted(r) \in Slots
BY DEF Posted, Slots

LEMMA InitType == Init => TypeOK
<1> SUFFICES ASSUME Init PROVE TypeOK
  OBVIOUS
<1> DEFINE r0 == CHOOSE r \in Requests : TRUE
<1>1. r0 \in RequestType
  BY ConstAssumption
<1> HIDE DEF r0
<1>2. [Posted(r0) EXCEPT !.chan = "free"] \in Slots
  BY <1>1 DEF Posted, Slots
<1>3. slot \in [Channels -> Slots]
  BY <1>2 DEF Init, r0
<1>4. core \in [Lines -> Cores] /\ sys \in Systems /\ pend \in Pendings
  BY DEF Init, Cores, Systems, Notifications, Pendings
<1>5. por \in BOOLEAN
  BY ConstAssumption DEF Init
<1> QED
  BY <1>3, <1>4, <1>5, IdleTaskType DEF Init, TypeOK, Notifications, Fates

LEMMA EffectType ==
  ASSUME TypeOK, NEW r \in RequestType, Effect(r)
  PROVE  /\ table' \in [TableDomains -> Nat] /\ last' \in Nat /\ level' \in Nat
         /\ pend' \in Pendings /\ event' \in Notifications
         /\ core' \in [Lines -> Cores] /\ por' \in BOOLEAN
         /\ sys' \in Systems
         /\ fate' \in [Lines -> Fates]
<1>1. level' \in Nat
  BY DEF Effect, TypeOK, Leveled, MaxLevel, RequestType
<1>2. CASE apply_power_domain_state(r.arg, r.val)
  <2>1. r.arg \in Nat /\ r.val \in Nat
    BY DEF RequestType
  <2>2. pend' \in Pendings /\ last' \in Nat /\ table' \in [TableDomains -> Nat]
    BY <1>2, <2>1 DEF apply_power_domain_state, Pending, Pendings, TypeOK
  <2>3. event' \in Notifications
    BY <1>2, NotifiedType DEF apply_power_domain_state, Notifications
  <2>4. \A i \in Lines :
          [core[i] EXCEPT !.fresh = IF i = r.arg THEN FALSE ELSE @] \in Cores
    BY DEF TypeOK, Cores
  <2>5. core' \in [Lines -> Cores]
    BY <1>2, <2>4 DEF apply_power_domain_state
  <2>6. fate' \in [Lines -> Fates]
    BY <1>2 DEF apply_power_domain_state, TypeOK, Fates
  <2> QED
    BY <1>1, <1>2, <2>2, <2>3, <2>5, <2>6 DEF apply_power_domain_state, TypeOK
<1>3. CASE schedule_system_power_reset(r.arg)
  <2>1. [sys EXCEPT !.valid = TRUE, !.event = Notified(@, SysDelay)] \in Systems
    BY NotifiedType DEF TypeOK, Systems, Notifications
  <2>2. sys' \in Systems
    BY <1>3, <2>1 DEF schedule_system_power_reset, TypeOK
  <2> QED
    BY <1>1, <1>3, <2>2 DEF schedule_system_power_reset, TypeOK
<1>4. CASE UNCHANGED power
  BY <1>1, <1>4 DEF power, TypeOK
<1> QED
  BY <1>2, <1>3, <1>4 DEF Effect

LEMMA DrivenType ==
  ASSUME NEW k \in Cores, NEW s \in Nat
  PROVE  Driven(k, s) \in Cores
<1>1. [held |-> FALSE, fresh |-> k.fresh \/ k.held \/ PulseOnOn] \in Cores
  BY ConstAssumption DEF Cores
<1>2. [k EXCEPT !.held = TRUE] \in Cores
  BY DEF Cores
<1> QED
  BY <1>1, <1>2 DEF Driven

\* The type invariant is inductive: one step per action.
LEMMA NextType == TypeOK /\ [Next]_vars => TypeOK'
<1> SUFFICES ASSUME TypeOK, [Next]_vars PROVE TypeOK'
  OBVIOUS
<1>1. ASSUME NEW c \in Channels, NEW r \in Requests, Post(c, r)
      PROVE  TypeOK'
  BY <1>1, PostedType, ConstAssumption DEF Post, TypeOK, power
<1>2. ASSUME NEW c \in Channels, Ring(c)
      PROVE  TypeOK'
  <2> DEFINE r == slot[c].req
  <2>1. r \in RequestType
    BY DEF TypeOK, Slots
  <2>2. Effect(r) /\ told' = told \cup Told(r) /\ UNCHANGED <<slot, ack, scan>>
        /\ agent' = [agent EXCEPT ![c] = "rung"]
    BY <1>2 DEF Ring
  <2>3. (r.proto = "power" /\ r.msg = PowerGet) \in BOOLEAN
    OBVIOUS
  <2>4. task' \in Tasks
    BY <1>2, <2>1, <2>3, ResponseType DEF Ring, Tasks, Stages
  <2> HIDE DEF r
  <2> QED
    BY <2>1, <2>2, <2>4, EffectType, ToldType DEF TypeOK
<1>3. CASE WriteResponse
  <2>1. task.ch \in Channels /\ task.long \in BOOLEAN
        /\ task.status \in {"ok", "support", "param"}
    BY DEF TypeOK, Tasks
  <2>2. Written(slot[task.ch]) \in Slots
    BY <2>1 DEF Written, TypeOK, Slots
  <2>3. After(task.stage) \in Stages
    BY DEF After, Stages
  <2>4. task' \in Tasks
    BY <1>3, <2>3 DEF WriteResponse, TypeOK, Tasks
  <2> QED
    BY <1>3, <2>1, <2>2, <2>4 DEF WriteResponse, TypeOK, power
<1>4. CASE Acknowledge
  <2>1. event' \in Notifications
    BY <1>4, NotifiedType
       DEF Acknowledge, Renotified, TypeOK, Notifications
  <2> QED
    BY <1>4, <2>1, IdleTaskType DEF Acknowledge, TypeOK
<1>5. ASSUME NEW c \in Channels, Poll(c)
      PROVE  TypeOK'
  BY <1>5 DEF Poll, TypeOK, power
<1>6. CASE ClearAck
  BY <1>6 DEF ClearAck, TypeOK, power
<1>7. CASE Scan
  BY <1>7 DEF Scan, TypeOK, power
<1>8. CASE emit_power_domain_reset
  <2>1. pend.state \in Nat /\ [pend EXCEPT !.valid = FALSE] \in Pendings
    BY DEF TypeOK, Pendings
  <2>2. \A d \in Lines : Driven(core[d], pend.state) \in Cores
    BY <2>1, DrivenType DEF TypeOK
  <2>3. core' \in [Lines -> Cores]
    BY <1>8, <2>2 DEF emit_power_domain_reset, TypeOK
  <2>4. por' \in BOOLEAN
    BY <1>8 DEF emit_power_domain_reset, DrivenPor, TypeOK
  <2>5. fate' \in [Lines -> Fates]
    BY <1>8 DEF emit_power_domain_reset, TypeOK, Fates
  <2>6. pend' \in Pendings
    BY <1>8, <2>1 DEF emit_power_domain_reset, TypeOK
  <2> QED
    BY <1>8, <2>3, <2>4, <2>5, <2>6
       DEF emit_power_domain_reset, TypeOK, Notifications
<1>9. CASE emit_system_power_reset
  <2>1. sys' \in Systems
    BY <1>9 DEF emit_system_power_reset, TypeOK, Systems, Notifications
  <2> QED
    BY <1>9, <2>1 DEF emit_system_power_reset, TypeOK
<1>10. CASE end_system_power_reset
  <2>1. sys' \in Systems
    BY <1>10 DEF end_system_power_reset, TypeOK, Systems
  <2> QED
    BY <1>10, <2>1 DEF end_system_power_reset, TypeOK
<1>11. CASE UNCHANGED vars
  BY <1>11 DEF vars, TypeOK
<1> QED
  BY <1>1, <1>2, <1>3, <1>4, <1>5, <1>6, <1>7, <1>8, <1>9, <1>10, <1>11
     DEF Next

\* Every variable keeps its type; the table never grows past its size, also
\* when a request names a domain beyond it (apply_power_domain_state).
THEOREM TypeCorrect == Spec => []TypeOK
<1> QED
  BY InitType, NextType, PTL DEF Spec

-----------------------------------------------------------------------------
(* Responses                                                               *)

\* How far the response under way has got in its slot.  Until the channel is
\* freed the agent waits, so that nobody else writes there.
StageInv ==
  LET s == slot[task.ch] IN
  /\ task.stage \in {"length", "status", "data", "free"} =>
       agent[task.ch] = "rung" /\ s.chan = "busy"
  /\ task.stage \in {"status", "data", "free"} =>
       s.len = IF task.long THEN "long" ELSE "short"
  /\ task.stage \in {"data", "free"} => s.status # "request"
  /\ task.stage = "free" /\ task.long => s.data = "response"
PostedInv == \A c \in Channels : agent[c] = "posted" => slot[c].chan = "busy"
ResponseInv ==
  TypeOK /\ StageInv /\ PostedInv /\ FreeMeansComplete
  /\ CompletionIsSignalled

\* The slots other than the one of the response under way stay.
LEMMA WriteResponseSlots ==
  ASSUME TypeOK, WriteResponse
  PROVE  /\ task.ch \in Channels /\ task'.ch = task.ch
         /\ task'.stage = After(task.stage) /\ task'.long = task.long
         /\ task'.status = task.status /\ task'.get = task.get
         /\ slot'[task.ch] = Written(slot[task.ch])
         /\ \A c \in Channels : c # task.ch => slot'[c] = slot[c]
         /\ agent' = agent /\ ack' = ack /\ scan' = scan
BY DEF WriteResponse, TypeOK, Tasks

LEMMA WriteResponseKeeps ==
  ASSUME ResponseInv, WriteResponse
  PROVE  /\ StageInv' /\ PostedInv' /\ FreeMeansComplete'
         /\ CompletionIsSignalled'
<1> DEFINE c0 == task.ch
           s0 == slot[c0]
<1>0. TypeOK /\ StageInv /\ PostedInv /\ FreeMeansComplete
      /\ CompletionIsSignalled
  BY DEF ResponseInv
<1>1. c0 \in Channels /\ s0 \in Slots /\ task.status # "request"
      /\ task.long \in BOOLEAN /\ agent[c0] = "rung" /\ s0.chan = "busy"
  BY <1>0 DEF TypeOK, Tasks, StageInv, WriteResponse
<1>2. CASE task.stage = "length"
  <2>1. task'.stage = "status" /\ slot'[c0].chan = "busy"
        /\ slot'[c0].len = IF task.long THEN "long" ELSE "short"
    BY <1>0, <1>1, <1>2, WriteResponseSlots DEF After, Written, Slots
  <2> QED
    BY <1>0, <1>1, <1>2, <2>1, WriteResponseSlots
       DEF StageInv, PostedInv, FreeMeansComplete, CompletionIsSignalled,
           Complete
<1>3. CASE task.stage = "status"
  <2>1. task'.stage = (IF task.long THEN "data" ELSE "free")
        /\ slot'[c0].chan = "busy" /\ slot'[c0].len = s0.len
        /\ slot'[c0].status = task.status
    BY <1>0, <1>1, <1>3, WriteResponseSlots DEF After, Written, Slots
  <2> QED
    BY <1>0, <1>1, <1>3, <2>1, WriteResponseSlots
       DEF StageInv, PostedInv, FreeMeansComplete, CompletionIsSignalled,
           Complete
<1>4. CASE task.stage = "data"
  <2>1. task'.stage = "free" /\ slot'[c0].chan = "busy"
        /\ slot'[c0].len = s0.len /\ slot'[c0].status = s0.status
        /\ slot'[c0].data = "response"
    BY <1>0, <1>1, <1>4, WriteResponseSlots DEF After, Written, Slots
  <2> QED
    BY <1>0, <1>1, <1>4, <2>1, WriteResponseSlots
       DEF StageInv, PostedInv, FreeMeansComplete, CompletionIsSignalled,
           Complete
<1>5. CASE task.stage = "free"
  <2>1. task'.stage = "ack"
        /\ slot'[c0].len = s0.len /\ slot'[c0].status = s0.status
        /\ slot'[c0].data = s0.data
    BY <1>0, <1>1, <1>5, WriteResponseSlots DEF After, Written, Slots
  <2> QED
    BY <1>0, <1>1, <1>5, <2>1, WriteResponseSlots
       DEF StageInv, PostedInv, FreeMeansComplete, CompletionIsSignalled,
           Complete
<1> QED
  BY <1>2, <1>3, <1>4, <1>5 DEF WriteResponse

\* One step per action; the threads touch none of it.
LEMMA NextResponse == ResponseInv /\ [Next]_vars => ResponseInv'
<1> SUFFICES ASSUME ResponseInv, [Next]_vars PROVE ResponseInv'
  OBVIOUS
<1> USE DEF ResponseInv
<1>0. TypeOK'
  BY NextType
<1>1. ASSUME NEW c \in Channels, NEW r \in Requests, Post(c, r)
      PROVE  ResponseInv'
  <2>1. /\ slot'[c] = Posted(r) /\ agent'[c] = "posted"
        /\ \A x \in Channels : x # c => slot'[x] = slot[x] /\ agent'[x] = agent[x]
        /\ UNCHANGED <<task, ack, scan>> /\ agent[c] = "idle"
    BY <1>1 DEF Post, TypeOK
  <2>2. slot'[c].chan = "busy"
    BY <2>1 DEF Posted
  <2>3. task.ch \in Channels
    BY DEF TypeOK, Tasks
  <2>4. StageInv'
    BY <2>1, <2>3 DEF StageInv
  <2>5. PostedInv' /\ FreeMeansComplete' /\ CompletionIsSignalled'
    BY <2>1, <2>2 DEF PostedInv, FreeMeansComplete, CompletionIsSignalled,
                      Complete
  <2> QED
    BY <1>0, <2>4, <2>5
<1>2. ASSUME NEW c \in Channels, Ring(c)
      PROVE  ResponseInv'
  <2>1. /\ slot' = slot /\ UNCHANGED <<ack, scan>> /\ agent[c] = "posted"
        /\ agent' = [agent EXCEPT ![c] = "rung"]
        /\ task'.stage = "length" /\ task'.ch = c /\ task.stage = "idle"
    BY <1>2 DEF Ring
  <2>2. slot[c].chan = "busy"
    BY <2>1 DEF PostedInv
  <2>3. StageInv'
    BY <2>1, <2>2 DEF StageInv, TypeOK
  <2>4. PostedInv' /\ FreeMeansComplete' /\ CompletionIsSignalled'
    BY <2>1, <2>2 DEF PostedInv, FreeMeansComplete, CompletionIsSignalled,
                      Complete, TypeOK
  <2> QED
    BY <1>0, <2>3, <2>4
<1>3. CASE WriteResponse
  BY <1>0, <1>3, WriteResponseKeeps
<1>4. CASE Acknowledge
  <2>1. /\ slot' = slot /\ agent' = agent /\ ack' = TRUE
        /\ task'.stage = "idle"
    BY <1>4 DEF Acknowledge, IdleTask
  <2> QED
    BY <1>0, <2>1 DEF StageInv, PostedInv, FreeMeansComplete,
                      CompletionIsSignalled, Complete
<1>5. ASSUME NEW c \in Channels, Poll(c)
      PROVE  ResponseInv'
  <2>1. /\ slot' = slot /\ UNCHANGED <<ack, scan, task>>
        /\ agent' = [agent EXCEPT ![c] = "idle"] /\ slot[c].chan = "free"
    BY <1>5 DEF Poll
  <2>2. task.ch \in Channels
    BY DEF TypeOK, Tasks
  <2>3. StageInv'
    BY <2>1, <2>2 DEF StageInv, TypeOK
  <2>4. PostedInv' /\ FreeMeansComplete' /\ CompletionIsSignalled'
    BY <2>1 DEF PostedInv, FreeMeansComplete, CompletionIsSignalled, Complete,
                TypeOK
  <2> QED
    BY <1>0, <2>3, <2>4
<1>6. CASE ClearAck
  BY <1>0, <1>6 DEF ClearAck, StageInv, PostedInv, FreeMeansComplete,
                    CompletionIsSignalled, Complete
<1>7. CASE Scan
  <2>1. /\ slot' = slot /\ UNCHANGED <<ack, task>>
        /\ \A c \in Channels :
             agent'[c] = IF Complete(c) THEN "idle" ELSE agent[c]
    BY <1>7 DEF Scan
  <2>2. task.ch \in Channels
    BY DEF TypeOK, Tasks
  <2>3. StageInv'
    BY <2>1, <2>2 DEF StageInv, Complete
  <2>4. PostedInv' /\ FreeMeansComplete' /\ CompletionIsSignalled'
    BY <2>1 DEF PostedInv, FreeMeansComplete, CompletionIsSignalled, Complete
  <2> QED
    BY <1>0, <2>3, <2>4
<1>8. CASE UNCHANGED <<slot, agent, task, ack, scan>>
  BY <1>0, <1>8 DEF StageInv, PostedInv, FreeMeansComplete,
                    CompletionIsSignalled, Complete
<1>9. CASE \/ emit_power_domain_reset \/ emit_system_power_reset
           \/ end_system_power_reset \/ UNCHANGED vars
  BY <1>8, <1>9 DEF emit_power_domain_reset, emit_system_power_reset,
                    end_system_power_reset, vars
<1> QED
  BY <1>1, <1>2, <1>3, <1>4, <1>5, <1>6, <1>7, <1>9 DEF Next

LEMMA InitResponse == Init => ResponseInv
<1> SUFFICES ASSUME Init PROVE ResponseInv
  OBVIOUS
<1>1. TypeOK
  BY InitType
<1> QED
  BY <1>1 DEF ResponseInv, Init, IdleTask, StageInv, PostedInv,
              FreeMeansComplete, CompletionIsSignalled, Complete

\* A polling agent never sees part of a response: write_scmi_response frees
\* the channel last.
THEOREM ResponsesAreComplete == Spec => []FreeMeansComplete
<1>1. ResponseInv => FreeMeansComplete
  BY DEF ResponseInv
<1> QED
  BY <1>1, InitResponse, NextResponse, PTL DEF Spec

\* A sleeping agent's response is always announced by the mailbox's bit, for
\* any number of channels that share it.
THEOREM CompletionsAreSignalled == Spec => []CompletionIsSignalled
<1>1. ResponseInv => CompletionIsSignalled
  BY DEF ResponseInv
<1> QED
  BY <1>1, InitResponse, NextResponse, PTL DEF Spec

-----------------------------------------------------------------------------
(* Resets                                                                  *)

ResetInv == TypeOK /\ PendingIsArmed /\ LinesFollowTable

LEMMA InitReset == Init => ResetInv
<1> SUFFICES ASSUME Init PROVE ResetInv
  OBVIOUS
<1>1. TypeOK
  BY InitType
<1>2. PendingIsArmed
  BY DEF Init, PendingIsArmed
<1>3. LinesFollowTable
  BY DEF Init, LinesFollowTable
<1> QED
  BY <1>1, <1>2, <1>3 DEF ResetInv

\* A state that is set becomes the pending reset, in place of another's.
LEMMA ApplyKeeps ==
  ASSUME ResetInv, NEW d \in Nat, NEW s \in Nat,
         apply_power_domain_state(d, s)
  PROVE  PendingIsArmed' /\ LinesFollowTable'
<1> USE DEF ResetInv
<1>1. /\ event' # "none" /\ last' = s /\ pend'.valid = TRUE
      /\ pend'.id = d /\ pend'.state = s /\ por' = por
  BY NotifiedType DEF apply_power_domain_state, Pending
<1>2. \A i \in TableDomains : table'[i] = IF i = d THEN s ELSE table[i]
  BY DEF apply_power_domain_state
<1>3. \A i \in Lines :
        fate'[i] = IF i = d THEN "pending"
                   ELSE IF fate[i] = "pending" THEN "overwritten" ELSE fate[i]
  BY DEF apply_power_domain_state
<1>4. \A i \in Lines : i # d => core'[i] = core[i]
  BY DEF apply_power_domain_state, TypeOK, Cores
<1>5. PendingIsArmed'
  BY <1>1, <1>2, <1>3 DEF PendingIsArmed
<1>6. LinesFollowTable'
  <2> SUFFICES ASSUME NEW i \in Lines, fate'[i] = "driven"
               PROVE  /\ power_state_is_on(table'[i]) =>
                           /\ ~core'[i].held
                           /\ PulseOnOn => core'[i].fresh
                           /\ ~AssertOnOff => ~por'
                      /\ power_state_is_off(table'[i]) /\ AssertOnOff =>
                           core'[i].held
    BY DEF LinesFollowTable, power_state_is_on, power_state_is_off
  <2>1. i # d /\ fate[i] = "driven"
    BY <1>3
  <2>2. table'[i] = table[i] /\ core'[i] = core[i]
    BY <1>2, <1>4, <2>1, ConstAssumption
  <2> QED
    BY <1>1, <2>1, <2>2 DEF LinesFollowTable
<1> QED
  BY <1>5, <1>6

\* What the thread drives is what the table says.
LEMMA EmitKeeps ==
  ASSUME ResetInv, emit_power_domain_reset
  PROVE  PendingIsArmed' /\ LinesFollowTable'
<1> USE DEF ResetInv
<1>1. pend.valid
  BY DEF emit_power_domain_reset, MayFire, PendingIsArmed
<1>2. /\ event' = "none" /\ pend' = [pend EXCEPT !.valid = FALSE]
      /\ por' = DrivenPor(pend.state) /\ table' = table /\ last' = last
      /\ core' = [d \in Lines |-> IF d = pend.id
                                  THEN Driven(core[d], pend.state)
                                  ELSE core[d]]
      /\ fate' = [d \in Lines |-> IF d = pend.id THEN "driven" ELSE fate[d]]
  BY <1>1 DEF emit_power_domain_reset
<1>3. pend'.valid = FALSE
  BY <1>2 DEF TypeOK, Pendings
<1>4. PendingIsArmed'
  <2>1. \A d \in Lines : fate'[d] # "pending"
    BY <1>1, <1>2 DEF PendingIsArmed
  <2> QED
    BY <1>2, <1>3, <2>1 DEF PendingIsArmed
<1>5. ~AssertOnOff /\ ~por => ~por'
  BY <1>2 DEF DrivenPor
<1>6. LinesFollowTable'
  <2> SUFFICES ASSUME NEW i \in Lines, fate'[i] = "driven"
               PROVE  /\ power_state_is_on(table[i]) =>
                           /\ ~core'[i].held
                           /\ PulseOnOn => core'[i].fresh
                           /\ ~AssertOnOff => ~por'
                      /\ power_state_is_off(table[i]) /\ AssertOnOff =>
                           core'[i].held
    BY <1>2 DEF LinesFollowTable, power_state_is_on, power_state_is_off
  <2>1. CASE i = pend.id
    <3> DEFINE k == core[i]
               t == Driven(k, pend.state)
               e == k.fresh \/ k.held \/ PulseOnOn
    <3>1. table[i] = pend.state /\ core'[i] = t
      BY <1>1, <1>2, <2>1, ConstAssumption DEF PendingIsArmed
    <3>2. pend.state \in Nat /\ k \in Cores
      BY DEF TypeOK, Pendings
    <3>3. ~(power_state_is_on(pend.state) /\ power_state_is_off(pend.state))
      BY DEF power_state_is_on, power_state_is_off
    <3>4. power_state_is_on(pend.state) =>
            t = [held |-> FALSE, fresh |-> e]
      BY <3>3 DEF Driven
    <3>5. power_state_is_on(pend.state) => ~por'
      BY <1>2, <3>3 DEF DrivenPor
    <3>8. power_state_is_on(pend.state) => ~t.held /\ (PulseOnOn => t.fresh)
      <4>1. PulseOnOn => e = TRUE
        BY ConstAssumption
      <4> HIDE DEF t, e
      <4> QED
        BY <3>4, <4>1
    <3>6. power_state_is_off(pend.state) /\ AssertOnOff =>
            t = [k EXCEPT !.held = TRUE]
      BY <3>3 DEF Driven
    <3>7. power_state_is_off(pend.state) /\ AssertOnOff => t.held
      BY <3>2, <3>6 DEF Cores
    <3> HIDE DEF t
    <3> QED
      BY <3>1, <3>5, <3>7, <3>8
  <2>2. CASE i # pend.id
    <3>1. core'[i] = core[i] /\ fate[i] = "driven"
      BY <1>2, <2>2
    <3> QED
      BY <1>5, <3>1 DEF LinesFollowTable
  <2> QED
    BY <2>1, <2>2
<1> QED
  BY <1>4, <1>6

LEMMA NextReset == ResetInv /\ [Next]_vars => ResetInv'
<1> SUFFICES ASSUME ResetInv, [Next]_vars PROVE ResetInv'
  OBVIOUS
<1>0. TypeOK'
  BY NextType DEF ResetInv
<1>1. CASE UNCHANGED <<table, last, pend, event, core, por, fate>>
  BY <1>0, <1>1 DEF ResetInv, PendingIsArmed, LinesFollowTable,
                    power_state_is_on, power_state_is_off
<1>2. ASSUME NEW c \in Channels, NEW r \in Requests, Post(c, r)
      PROVE  ResetInv'
  BY <1>1, <1>2 DEF Post, power
<1>3. ASSUME NEW c \in Channels, Ring(c)
      PROVE  ResetInv'
  <2> DEFINE r == slot[c].req
  <2>1. r.arg \in Nat /\ r.val \in Nat
    BY DEF ResetInv, TypeOK, Slots, RequestType
  <2>2. Effect(r)
    BY <1>3 DEF Ring
  <2> HIDE DEF r
  <2>3. CASE apply_power_domain_state(r.arg, r.val)
    BY <1>0, <2>1, <2>3, ApplyKeeps DEF ResetInv
  <2>4. CASE schedule_system_power_reset(r.arg)
    BY <1>1, <2>4 DEF schedule_system_power_reset
  <2>5. CASE UNCHANGED power
    BY <1>1, <2>5 DEF power
  <2> QED
    BY <2>2, <2>3, <2>4, <2>5 DEF Effect
<1>4. CASE WriteResponse
  BY <1>1, <1>4 DEF WriteResponse, power
<1>5. CASE Acknowledge
  <2>1. UNCHANGED <<table, last, pend, core, por, fate>>
    BY <1>5 DEF Acknowledge
  <2>2. event' = event \/ (pend.valid /\ event' # "none")
    BY <1>5, NotifiedType DEF Acknowledge, Renotified
  <2>3. PendingIsArmed'
    BY <2>1, <2>2 DEF PendingIsArmed, ResetInv
  <2>4. LinesFollowTable'
    BY <2>1 DEF LinesFollowTable, ResetInv, power_state_is_on,
                power_state_is_off
  <2> QED
    BY <1>0, <2>3, <2>4 DEF ResetInv
<1>6. ASSUME NEW c \in Channels, Poll(c)
      PROVE  ResetInv'
  BY <1>1, <1>6 DEF Poll, power
<1>7. CASE ClearAck \/ Scan
  BY <1>1, <1>7 DEF ClearAck, Scan, power
<1>8. CASE emit_power_domain_reset
  BY <1>0, <1>8, EmitKeeps DEF ResetInv
<1>9. CASE emit_system_power_reset \/ end_system_power_reset
           \/ UNCHANGED vars
  BY <1>1, <1>9 DEF emit_system_power_reset, end_system_power_reset, vars
<1> QED
  BY <1>2, <1>3, <1>4, <1>5, <1>6, <1>7, <1>8, <1>9 DEF Next

\* The thread's event and the pending reset never part: a reset that is
\* pending will be driven, and with the state the table holds.
THEOREM PendingIsAlwaysArmed == Spec => []PendingIsArmed
<1>1. ResetInv => PendingIsArmed
  BY DEF ResetInv
<1> QED
  BY <1>1, InitReset, NextReset, PTL DEF Spec

\* A line that has been driven agrees with what POWER_STATE_GET reports, for
\* every choice of the two reset parameters.
THEOREM LinesFollowTheTable == Spec => []LinesFollowTable
<1>1. ResetInv => LinesFollowTable
  BY DEF ResetInv
<1> QED
  BY <1>1, InitReset, NextReset, PTL DEF Spec

-----------------------------------------------------------------------------
(* Discovery                                                               *)

\* What was told is served; a status in a slot, or on its way there, is
\* the answer to the request in that slot.
ToldInv == \A m \in told : Served(m)
AnswerInv ==
  /\ \A c \in Channels :
       slot[c].status # "request" => slot[c].status = Status(slot[c].req)
  /\ task.stage \in {"length", "status"} =>
       task.status = Status(slot[task.ch].req)
DiscoveryInv == ResponseInv /\ ToldInv /\ AnswerInv

LEMMA NextDiscovery == DiscoveryInv /\ [Next]_vars => DiscoveryInv'
<1> SUFFICES ASSUME DiscoveryInv, [Next]_vars PROVE DiscoveryInv'
  OBVIOUS
<1>0. ResponseInv' /\ TypeOK /\ StageInv /\ task.ch \in Channels
  BY NextResponse DEF DiscoveryInv, ResponseInv, TypeOK, Tasks
<1>1. ASSUME NEW c \in Channels, NEW r \in Requests, Post(c, r)
      PROVE  DiscoveryInv'
  <2>1. /\ slot'[c] = Posted(r) /\ agent[c] = "idle"
        /\ \A x \in Channels : x # c => slot'[x] = slot[x]
        /\ UNCHANGED <<task, told>>
    BY <1>0, <1>1 DEF Post, TypeOK
  <2>2. slot'[c].status = "request"
    BY <2>1 DEF Posted
  <2>3. task.stage \in {"length", "status"} => task.ch # c
    BY <1>0, <2>1 DEF StageInv
  <2> QED
    BY <1>0, <2>1, <2>2, <2>3 DEF DiscoveryInv, ToldInv, AnswerInv
<1>2. ASSUME NEW c \in Channels, Ring(c)
      PROVE  DiscoveryInv'
  <2>1. /\ slot' = slot /\ told' = told \cup Told(slot[c].req)
        /\ task'.ch = c /\ task'.status = Status(slot[c].req)
    BY <1>2 DEF Ring
  <2>2. slot[c].req \in RequestType
    BY <1>0 DEF TypeOK, Slots
  <2>3. ToldInv'
    BY <2>1, <2>2, ToldIsServed DEF DiscoveryInv, ToldInv
  <2>4. AnswerInv'
    BY <2>1 DEF DiscoveryInv, AnswerInv
  <2> QED
    BY <1>0, <2>3, <2>4 DEF DiscoveryInv
<1>3. CASE WriteResponse
  <2>1. slot'[task.ch].req = slot[task.ch].req
    BY <1>0, <1>3, WriteResponseSlots DEF Written, TypeOK, Slots
  <2>2. slot'[task.ch].status = IF task.stage = "status" THEN task.status
                                ELSE slot[task.ch].status
    BY <1>0, <1>3, WriteResponseSlots DEF Written, TypeOK, Slots
  <2>3. task'.stage \in {"length", "status"} => task.stage = "length"
    BY <1>0, <1>3, WriteResponseSlots DEF After, WriteResponse
  <2>4. AnswerInv'
    BY <1>0, <1>3, <2>1, <2>2, <2>3, WriteResponseSlots
       DEF DiscoveryInv, AnswerInv
  <2>5. told' = told
    BY <1>3 DEF WriteResponse
  <2> QED
    BY <1>0, <2>4, <2>5 DEF DiscoveryInv, ToldInv
<1>4. CASE UNCHANGED <<slot, told>> /\ (task' = task \/ task'.stage = "idle")
  BY <1>0, <1>4 DEF DiscoveryInv, ToldInv, AnswerInv
<1>5. CASE Acknowledge
  <2>1. task'.stage = "idle" /\ UNCHANGED <<slot, told>>
    BY <1>5 DEF Acknowledge, IdleTask
  <2> QED
    BY <1>4, <2>1
<1>6. ASSUME NEW c \in Channels, Poll(c)
      PROVE  DiscoveryInv'
  BY <1>4, <1>6 DEF Poll
<1>7. CASE ClearAck \/ Scan
  BY <1>4, <1>7 DEF ClearAck, Scan
<1>8. CASE \/ emit_power_domain_reset \/ emit_system_power_reset
           \/ end_system_power_reset \/ UNCHANGED vars
  BY <1>4, <1>8 DEF emit_power_domain_reset, emit_system_power_reset,
                    end_system_power_reset, vars
<1> QED
  BY <1>1, <1>2, <1>3, <1>5, <1>6, <1>7, <1>8 DEF Next

LEMMA InitDiscovery == Init => DiscoveryInv
<1> SUFFICES ASSUME Init PROVE DiscoveryInv
  OBVIOUS
<1>1. \A c \in Channels : slot[c].status = "request"
  BY DEF Init, Posted
<1> QED
  BY <1>1, InitResponse
     DEF DiscoveryInv, Init, ToldInv, AnswerInv, IdleTask

\* No agent that keeps to what discovery told it is refused with
\* SCMI_ERR_SUPPORT, whatever the transport.
THEOREM AnnouncedIsServed == Spec => []AdvertisedIsServed
<1>1. DiscoveryInv => AdvertisedIsServed
  <2> SUFFICES ASSUME DiscoveryInv, NEW c \in Channels,
                      slot[c].status = "support",
                      slot[c].req.msg # MessageAttributes
               PROVE  <<slot[c].req.proto, slot[c].req.msg>> \notin told
    BY DEF AdvertisedIsServed
  <2>1. slot[c].req \in RequestType
    BY DEF DiscoveryInv, ResponseInv, TypeOK, Slots
  <2>2. Status(slot[c].req) = "support"
    BY DEF DiscoveryInv, AnswerInv
  <2> QED
    BY <2>1, <2>2 DEF DiscoveryInv, ToldInv, Served
<1> QED
  BY <1>1, InitDiscovery, NextDiscovery, PTL DEF Spec
=============================================================================
