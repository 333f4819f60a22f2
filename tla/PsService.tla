----------------------------- MODULE PsService -----------------------------
(***************************************************************************)
(* What a client of the RSE services may rely on, with no channels: it has *)
(* one call outstanding, the call takes effect at most once and in one     *)
(* step, on what the client sent, and the answer is the whole answer to    *)
(* that call, or as much of it as the channels hold under its true length. *)
(* A client that restarts gives its call up, and it is never served later. *)
(* What serving may do is a parameter, and must be Honoured whatever it is.*)
(***************************************************************************)
EXTENDS Integers, SequencesExt

CONSTANTS
  Capacity,            \* the units of an answer that the channels hold
  Calls,               \* the requests clients make
  Outcomes(_, _, _)    \* what serving a request may do to store and meas

VARIABLES
  store,     \* the protected storage
  meas,      \* the boot measurements
  buffers,   \* the client's output buffers, for a pointer request
  call,      \* the outstanding call: one request, or none
  answer     \* its answer: one, or none yet

serviceVars == <<store, meas, buffers, call, answer>>

\* What arrives of a reply.
Visible(reply) ==
  [length |-> Len(reply), units |-> SubSeq(reply, 1, Min({Len(reply), Capacity}))]

\* The four output buffers of a client, before anything is written to them.
Untouched == [i \in 1 .. 4 |-> <<>>]

\* An outcome o has the reply, the buffers, store and meas that it leaves.
Status(o) == o.reply[1].status
Sizes(o) == o.reply[1].sizes
InReply(o) == [i \in 1 .. Len(o.reply) - 1 |-> o.reply[i + 1].value]
Delivered(r, o) ==
  IF r.protocol = "pointer" THEN FlattenSeq(o.buffers) ELSE InReply(o)

SameBut(k, f, g) == /\ DOMAIN f \ {k} = DOMAIN g \ {k}
                    /\ \A x \in DOMAIN f \ {k} : f[x] = g[x]

\* A refusal changes nothing and carries no data.  (A lost buffer may follow
\* an effect.)
RefusalIsClean(o) ==
  Status(o) \notin {"SUCCESS", "COMMUNICATION_FAILURE"} =>
    /\ o.store = store /\ o.meas = meas
    /\ InReply(o) = <<>> /\ o.buffers = Untouched

\* Only a set or a remove changes the storage, at its uid; only an extend
\* changes the measurements, at its slot.
EffectIsLocal(r, o) ==
  /\ o.store # store => /\ r.handle = "storage" /\ r.type \in {"set", "remove"}
                        /\ SameBut(r.ins[1][1], store, o.store)
  /\ o.meas # meas => /\ r.handle = "boot" /\ r.type = "extend"
                      /\ SameBut(r.ins[1][1], meas, o.meas)

\* The sizes say where the outputs are, none is larger than the client
\* allowed, and the header carries the tag of the request.
OutputsFit(r, o) ==
  Status(o) = "SUCCESS" =>
    /\ o.reply[1].tag = r.tag
    /\ Len(Delivered(r, o)) = Sizes(o)[1] + Sizes(o)[2] + Sizes(o)[3] + Sizes(o)[4]
    /\ \A i \in 1 .. Len(r.caps) : Sizes(o)[i] <= r.caps[i]

\* A set stores what it was given, a remove removes, and a get delivers what
\* is stored.
StorageIsTrue(r, o) ==
  Status(o) = "SUCCESS" /\ r.handle = "storage" =>
    /\ r.type = "set" =>
         /\ r.ins[1][1] \in DOMAIN o.store
         /\ o.store[r.ins[1][1]] = [data |-> r.ins[2], flags |-> r.ins[3][1]]
    /\ r.type = "remove" => r.ins[1][1] \in DOMAIN store \ DOMAIN o.store
    /\ r.type = "get" =>
         LET stored == store[r.ins[1][1]].data
             from == r.ins[2][1]
         IN /\ Len(Delivered(r, o)) = Min({r.caps[1], Len(stored) - from})
            /\ \A i \in 1 .. Len(Delivered(r, o)) :
                 Delivered(r, o)[i] = stored[from + i]

\* What every outcome of serving r must keep to.
Honoured(r, o) == /\ RefusalIsClean(o)
                  /\ EffectIsLocal(r, o)
                  /\ OutputsFit(r, o)
                  /\ StorageIsTrue(r, o)

ServiceInit ==
  /\ store = <<>> /\ meas = <<>>
  /\ buffers = Untouched
  /\ call = {} /\ answer = {}

Call(r) ==
  /\ call = {}
  /\ call' = {r}
  /\ UNCHANGED <<store, meas, buffers, answer>>

Serve(r) ==
  /\ call = {r} /\ answer = {}
  /\ \E o \in Outcomes(r, store, meas) :
       /\ Honoured(r, o)
       /\ store' = o.store /\ meas' = o.meas
       /\ buffers' = o.buffers
       /\ answer' = {Visible(o.reply)}
  /\ UNCHANGED call

\* The client reads the answer, or restarts.
Leave ==
  /\ call # {}
  /\ call' = {} /\ answer' = {}
  /\ buffers' = Untouched
  /\ UNCHANGED <<store, meas>>

ServiceNext == (\E r \in Calls : Call(r) \/ Serve(r)) \/ Leave

ServiceSpec == ServiceInit /\ [][ServiceNext]_serviceVars
=============================================================================
