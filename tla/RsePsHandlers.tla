--------------------------- MODULE RsePsHandlers ---------------------------
(***************************************************************************)
(* What the RSE service proxy of mhu320ae does with one request: parse it, *)
(* apply it to the protected storage, the boot measurements or the table   *)
(* of firmware components, and build the reply.  No state is kept here.    *)
(*                                                                         *)
(* A message is a sequence of units: the first two hold the header, then   *)
(* come the inputs, one unit for each field or datum.  Every datum is a    *)
(* number, and an input that is too short for its field is empty.          *)
(***************************************************************************)
EXTENDS Integers, Sequences, FiniteSetsExt, SequencesExt

CONSTANTS
  Capacity,        \* the payload channels: units of a message that arrive
  Slots,           \* TFM_MEASUREMENT_SLOT_COUNT
  MaxField         \* TFM_VERSION_MAX_SIZE, TFM_MEASUREMENT_VALUE_MAX_SIZE, ...

PSA_MAX_IOVEC == 4
ComponentCount == 5                     \* TFM_FWU_COMPONENT_COUNT
HeaderUnits == 2      \* protocol and sequence number; handle, ctrl and sizes

ASSUME HandlerAssumption ==
  /\ Capacity \in Nat \ {0}
  /\ Slots \in Nat \ {0}
  /\ MaxField \in Nat \ {0}

\* rse_ps_request: tag is the sequence number and the client, sent the units
\* the sender announces, which may be fewer than the header promises.
Bytes == Seq(Nat)
Requests ==
  [protocol : {"embed", "pointer", "other"}, tag : Nat, sent : Nat,
   handle : {"storage", "boot", "update", "other"},
   type : {"set", "get", "info", "remove", "support", "extend", "read",
           "query"},
   ins : Seq(Bytes), caps : Seq(Nat)]

Total(seqs) == FoldLeft(LAMBDA n, s : n + Len(s), 0, seqs)
First(s, n) == SubSeq(s, 1, Min({n, Len(s)}))

-----------------------------------------------------------------------------
(* Parsing: parse_rse_ps_request and its two formats                       *)

\* The units that arrive: read_doorbell_message stops at the notify channel.
Arrived(r) == Min({r.sent, Capacity})

TooManyVectors(r) == Len(r.ins) + Len(r.caps) > PSA_MAX_IOVEC

\* parse_rse_ps_embed_request: the inputs follow the header in the message.
EmbedStatus(r) ==
  IF \/ Arrived(r) < HeaderUnits
     \/ TooManyVectors(r)
     \/ HeaderUnits + Total(r.ins) > Arrived(r)
  THEN "INVALID_ARGUMENT" ELSE "SUCCESS"

\* parse_rse_ps_pointer_request: the inputs are read from the sender's
\* memory, and any of the reads may fail unless it is empty (external).
PointerStatuses(r) ==
  IF Arrived(r) < HeaderUnits \/ TooManyVectors(r) THEN {"INVALID_ARGUMENT"}
  ELSE {"SUCCESS"} \cup (IF Total(r.ins) = 0 THEN {}
                         ELSE {"COMMUNICATION_FAILURE"})

\* parse_rse_ps_request
ParseStatuses(r) ==
  CASE Arrived(r) = 0 -> {"INVALID_ARGUMENT"}
    [] Arrived(r) > 0 /\ r.protocol = "embed" -> {EmbedStatus(r)}
    [] Arrived(r) > 0 /\ r.protocol = "pointer" -> PointerStatuses(r)
    [] Arrived(r) > 0 /\ r.protocol = "other" -> {"NOT_SUPPORTED"}

-----------------------------------------------------------------------------
(* The handlers.  Each gives the status, the outputs and the new state.    *)

NoOutputs(r) == [i \in 1 .. Len(r.caps) |-> <<>>]

Refused(r, status, store, meas) ==
  [status |-> status, outs |-> NoOutputs(r), store |-> store, meas |-> meas]

Accepted(r, store, meas) == Refused(r, "SUCCESS", store, meas)

\* set_ps_output for the outputs in values, one after the other until one of
\* them does not fit: those before it stay set.
Answered(r, values, store, meas) ==
  LET misfit == {i \in 1 .. Len(values) : Len(values[i]) > r.caps[i]}
      given == IF misfit = {} THEN Len(values) ELSE Min(misfit) - 1
  IN [status |-> IF misfit = {} THEN "SUCCESS" ELSE "INVALID_ARGUMENT",
      outs |-> [i \in 1 .. Len(r.caps) |-> IF i <= given THEN values[i] ELSE <<>>],
      store |-> store, meas |-> meas]

\* Whether the request has these inputs, none of the needed ones too short.
HasInputs(r, n, needed) ==
  Len(r.ins) >= n /\ \A i \in needed : r.ins[i] # <<>>

\* m_ps_store, m_measurements: functions on the keys that have an entry.
Put(f, k, e) == [x \in DOMAIN f \cup {k} |-> IF x = k THEN e ELSE f[x]]
Without(f, k) == [x \in DOMAIN f \ {k} |-> f[x]]

ps_set(r, store, meas) ==
  IF ~ HasInputs(r, 3, {1, 3}) THEN Refused(r, "INVALID_ARGUMENT", store, meas)
  ELSE Accepted(r, Put(store, r.ins[1][1],
                       [data |-> r.ins[2], flags |-> r.ins[3][1]]), meas)

ps_get(r, store, meas) ==
  LET uid == r.ins[1][1]
      offset == r.ins[2][1]
  IN CASE ~ HasInputs(r, 2, {1, 2}) \/ r.caps = <<>> ->
            Refused(r, "INVALID_ARGUMENT", store, meas)
       [] OTHER ->
            IF uid \notin DOMAIN store
            THEN Refused(r, "DOES_NOT_EXIST", store, meas)
            ELSE IF offset > Len(store[uid].data)
            THEN Refused(r, "INVALID_ARGUMENT", store, meas)
            ELSE Answered(r, <<First(SubSeq(store[uid].data, offset + 1,
                                            Len(store[uid].data)), r.caps[1])>>,
                          store, meas)

ps_get_info(r, store, meas) ==
  LET uid == r.ins[1][1]
  IN IF ~ HasInputs(r, 1, {1}) \/ r.caps = <<>>
     THEN Refused(r, "INVALID_ARGUMENT", store, meas)
     ELSE IF uid \notin DOMAIN store
     THEN Refused(r, "DOES_NOT_EXIST", store, meas)
     ELSE Answered(r, <<<<Len(store[uid].data), Len(store[uid].data),
                          store[uid].flags>>>>, store, meas)

ps_remove(r, store, meas) ==
  IF ~ HasInputs(r, 1, {1}) THEN Refused(r, "INVALID_ARGUMENT", store, meas)
  ELSE IF r.ins[1][1] \notin DOMAIN store
  THEN Refused(r, "DOES_NOT_EXIST", store, meas)
  ELSE Accepted(r, Without(store, r.ins[1][1]), meas)

ps_get_support(r, store, meas) ==
  IF r.caps = <<>> THEN Refused(r, "INVALID_ARGUMENT", store, meas)
  ELSE Answered(r, <<<<0>>>>, store, meas)

\* A flag: any value but 0 sets it, and it reads back as 1.
Flag(v) == IF v = 0 THEN 0 ELSE 1

\* TFM_MEASURED_BOOT_EXTEND: the first input is the slot, the lock, the
\* algorithm with the software type.  The slot is replaced whatever it held,
\* locked or not.
boot_extend(r, store, meas) ==
  IF Len(r.ins) < 4 \/ (Len(r.ins) >= 4 /\ Len(r.ins[1]) < 3)
  THEN Refused(r, "INVALID_ARGUMENT", store, meas)
  ELSE IF r.ins[1][1] >= Slots THEN Refused(r, "INVALID_ARGUMENT", store, meas)
  ELSE Accepted(r, store,
                Put(meas, r.ins[1][1],
                    [locked |-> Flag(r.ins[1][2]), sw_type |-> r.ins[1][3],
                     signer_id |-> First(r.ins[2], MaxField),
                     version |-> First(r.ins[3], MaxField),
                     measurement |-> First(r.ins[4], MaxField)]))

\* The metadata has a fixed size: the version is padded and its size added.
Metadata(e) ==
  <<e.locked, e.sw_type>>
    \o [i \in 1 .. MaxField |-> IF i <= Len(e.version) THEN e.version[i] ELSE 0]
    \o <<Len(e.version)>>

\* TFM_MEASURED_BOOT_READ: as many of the three outputs as were asked for.
boot_read(r, store, meas) ==
  IF ~ HasInputs(r, 1, {1}) \/ r.caps = <<>>
  THEN Refused(r, "INVALID_ARGUMENT", store, meas)
  ELSE IF r.ins[1][1] \notin DOMAIN meas
  THEN Refused(r, "DOES_NOT_EXIST", store, meas)
  ELSE LET e == meas[r.ins[1][1]]
       IN Answered(r, First(<<Metadata(e), e.measurement, e.signer_id>>,
                            Len(r.caps)), store, meas)

\* fwu_component_info: what differs between the components, the largest
\* image and where it is staged.
fwu_component_info(component) ==
  <<<<131072, 262144, 1048576, 2359296, 1048576>>[component + 1],
    <<28672, 159744, 421888, 28672, 1470464>>[component + 1]>>

\* handle_rse_fwu_request
fwu_query(r, store, meas) ==
  IF ~ HasInputs(r, 1, {1}) \/ r.caps = <<>>
  THEN Refused(r, "INVALID_ARGUMENT", store, meas)
  ELSE IF r.ins[1][1] >= ComponentCount
  THEN Refused(r, "DOES_NOT_EXIST", store, meas)
  ELSE Answered(r, <<fwu_component_info(r.ins[1][1])>>, store, meas)

\* handle_rse_ps_request
handle_rse_ps_request(r, store, meas) ==
  CASE <<r.handle, r.type>> = <<"storage", "set">> -> ps_set(r, store, meas)
    [] <<r.handle, r.type>> = <<"storage", "get">> -> ps_get(r, store, meas)
    [] <<r.handle, r.type>> = <<"storage", "info">> -> ps_get_info(r, store, meas)
    [] <<r.handle, r.type>> = <<"storage", "remove">> -> ps_remove(r, store, meas)
    [] <<r.handle, r.type>> = <<"storage", "support">> -> ps_get_support(r, store, meas)
    [] <<r.handle, r.type>> = <<"boot", "extend">> -> boot_extend(r, store, meas)
    [] <<r.handle, r.type>> = <<"boot", "read">> -> boot_read(r, store, meas)
    [] <<r.handle, r.type>> = <<"update", "query">> -> fwu_query(r, store, meas)
    [] OTHER -> Refused(r, "NOT_SUPPORTED", store, meas)

-----------------------------------------------------------------------------
(* The reply: build_rse_ps_reply                                           *)

\* The sender's output buffers, which a pointer request names.
Untouched == [i \in 1 .. PSA_MAX_IOVEC |-> <<>>]

\* The outputs of a pointer request are written in order until a write fails
\* (external); an empty one is not written and cannot fail.  0: none fails.
WriteFailures(r, h) ==
  IF h.status = "SUCCESS" /\ r.protocol = "pointer"
  THEN {0} \cup {i \in 1 .. Len(h.outs) : h.outs[i] # <<>>}
  ELSE {0}

Buffers(r, h, fail) ==
  IF h.status # "SUCCESS" \/ r.protocol # "pointer" THEN Untouched
  ELSE [i \in 1 .. PSA_MAX_IOVEC |->
          IF i <= Len(h.outs) /\ (fail = 0 \/ i < fail) THEN h.outs[i] ELSE <<>>]

\* The reply's units: the header with the status and the sizes, then, in an
\* embedded reply to a request that succeeded, the outputs.  The sizes of
\* outputs set before a later one did not fit stay in the header.
ReplyUnits(r, h, fail) ==
  LET known == Arrived(r) > 0
      protocol == IF known THEN r.protocol ELSE "embed"
      sizes == [i \in 1 .. PSA_MAX_IOVEC |->
                  IF fail = 0 /\ i <= Len(h.outs) THEN Len(h.outs[i]) ELSE 0]
      head == [kind |-> "head", protocol |-> protocol,
               tag |-> IF known THEN r.tag ELSE 0,
               status |-> IF fail = 0 THEN h.status ELSE "COMMUNICATION_FAILURE",
               sizes |-> sizes]
      data == IF protocol # "pointer" /\ h.status = "SUCCESS"
              THEN FlattenSeq(h.outs) ELSE <<>>
  IN <<head>> \o [i \in 1 .. Len(data) |-> [kind |-> "data", value |-> data[i]]]

\* build_rse_ps_reply: every outcome of serving r, the faults of the
\* sender's memory included.
build_rse_ps_reply(r, store, meas) ==
  UNION {LET h == IF parsed = "SUCCESS"
                  THEN handle_rse_ps_request(r, store, meas)
                  ELSE [Refused(r, parsed, store, meas) EXCEPT !.outs = <<>>]
         IN {[reply |-> ReplyUnits(r, h, fail), buffers |-> Buffers(r, h, fail),
              store |-> h.store, meas |-> h.meas] : fail \in WriteFailures(r, h)}
         : parsed \in ParseStatuses(r)}
=============================================================================
