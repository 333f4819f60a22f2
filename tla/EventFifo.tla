----------------------------- MODULE EventFifo -----------------------------
(***************************************************************************)
(* What the SMMU's event queue promises the driver that reads it, without  *)
(* pointers, wrap bits or memory: records come out in the order they went  *)
(* in, none twice and none changed; one is lost only when there is no room *)
(* for it or the memory refuses it, and then the loss is reported.         *)
(***************************************************************************)
EXTENDS Naturals, Sequences

CONSTANTS Events, NoEvent

VARIABLES
  room,   \* how many records the queue holds; 0: there is no queue
  fifo,   \* the records that were not read yet
  held,   \* how many were read but still occupy the queue
  last,   \* the record that was read last
  lost    \* why a record was lost; "none" once the loss is acknowledged

vars == <<room, fifo, held, last, lost>>

Init ==
  room = 0 /\ fifo = <<>> /\ held = 0 /\ last = NoEvent /\ lost = "none"

Open ==
  /\ room = 0
  /\ room' \in Nat
  /\ UNCHANGED <<fifo, held, last, lost>>

Close ==
  /\ room' = 0 /\ fifo' = <<>> /\ held' = 0
  /\ UNCHANGED <<last, lost>>

Record(e) ==
  /\ Len(fifo) + held < room
  /\ fifo' = Append(fifo, e)
  /\ UNCHANGED <<room, held, last, lost>>

Lose ==
  /\ \/ lost' = "room" /\ Len(fifo) + held = room
     \/ lost' = "memory" /\ Len(fifo) + held < room
  /\ UNCHANGED <<room, fifo, held, last>>

Take ==
  /\ fifo # <<>>
  /\ last' = Head(fifo) /\ fifo' = Tail(fifo) /\ held' = held + 1
  /\ UNCHANGED <<room, lost>>

GiveBack ==
  /\ held' = 0
  /\ UNCHANGED <<room, fifo, last, lost>>

Acknowledge ==
  /\ lost' = "none"
  /\ UNCHANGED <<room, fifo, held, last>>

Reset ==
  room' = 0 /\ fifo' = <<>> /\ held' = 0 /\ last' = last /\ lost' = "none"

Next ==
  \/ Open \/ Close \/ Lose \/ Take \/ GiveBack \/ Acknowledge \/ Reset
  \/ \E e \in Events : Record(e)

Spec == Init /\ [][Next]_vars
=============================================================================
