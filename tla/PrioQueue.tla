----------------------------- MODULE PrioQueue -----------------------------
(***************************************************************************)
(* What framework/rpc/queue.c promises its callers: a queue shared by any  *)
(* number of threads, in which one operation is one indivisible step.      *)
(* llq_add puts a message at the head (priority) or at the tail, a receive *)
(* hands out the message at the head or, when it has a deadline, gives up. *)
(* A receive never returns without a message for any other reason.         *)
(***************************************************************************)
EXTENDS Sequences

CONSTANTS
  Consumers,  (* the threads that call llq_receive / llq_timedreceive *)
  Messages,   (* the messages carried                                 *)
  Urgent,     (* those added with priority                            *)
  Pending,    (* result of a receive that has not returned yet        *)
  TimedOut    (* result of a receive that gave up: rLength = -1       *)

VARIABLES
  items,      (* the messages queued, the next one to hand out first  *)
  got         (* got[c]: the result of the last receive of c          *)

vars == <<items, got>>

Init ==
  /\ items = <<>>
  /\ got = [c \in Consumers |-> TimedOut]

AddHead(m) ==
  /\ items' = <<m>> \o items
  /\ UNCHANGED got

AddTail(m) ==
  /\ items' = Append(items, m)
  /\ UNCHANGED got

Call(c) ==
  /\ got' = [got EXCEPT ![c] = Pending]
  /\ UNCHANGED items

Receive(c) ==
  /\ got[c] = Pending
  /\ items # <<>>
  /\ got' = [got EXCEPT ![c] = Head(items)]
  /\ items' = Tail(items)

GiveUp(c) ==
  /\ got[c] = Pending
  /\ got' = [got EXCEPT ![c] = TimedOut]
  /\ UNCHANGED items

Next ==
  \/ \E m \in Urgent : AddHead(m)
  \/ \E m \in Messages \ Urgent : AddTail(m)
  \/ \E c \in Consumers : Call(c) \/ Receive(c) \/ GiveUp(c)

Spec == Init /\ [][Next]_vars
=============================================================================
