-------------------------------- MODULE Llq --------------------------------
(***************************************************************************)
(* The message queue between the RPC Rx thread and the application threads *)
(* (framework/rpc/queue.c), at the granularity of its two semaphores:      *)
(* llqAccessSem guards the list, llqCountSem counts the messages that may  *)
(* be received.  llq_add posts llqCountSem only after it has released      *)
(* llqAccessSem, and llq_timedreceive looks at hndl->head before it takes  *)
(* llqAccessSem, so between the token and the message there are several    *)
(* steps in which other threads run.                                       *)
(*                                                                         *)
(* The linked list is abstracted to the sequence of its messages.          *)
(***************************************************************************)
EXTENDS Integers, Sequences, FiniteSets

CONSTANTS
  Producers,  (* threads that call llq_add                            *)
  Consumers,  (* threads that call llq_receive or llq_timedreceive    *)
  Messages,   (* the messages carried                                 *)
  Urgent,     (* those llq_add is given with prio = 1: the SRSPs      *)
  Pending,    (* the receive has not returned                         *)
  TimedOut,   (* the receive returned -1                              *)
  NoMessage,  (* the receive returned 0 without a message             *)
  MaxLen      (* bound: llq_add is called while fewer are queued      *)

ASSUME ThreadAssumption ==
  /\ IsFiniteSet(Producers)
  /\ IsFiniteSet(Consumers)
  /\ Producers \cap Consumers = {}

ASSUME ResultAssumption ==
  /\ MaxLen \in Nat
  /\ Urgent \subseteq Messages
  /\ {Pending, TimedOut, NoMessage} \cap Messages = {}
  /\ Pending # TimedOut /\ Pending # NoMessage /\ TimedOut # NoMessage

VARIABLES
  items,      (* the list from hndl->head to hndl->tail               *)
  access,     (* value of llqAccessSem                                *)
  count,      (* value of llqCountSem                                 *)
  pc,         (* where each thread is in llq_add / llq_timedreceive   *)
  arg,        (* arg[p]: the message of the add of p                  *)
  timed,      (* timed[c]: the receive of c has a deadline            *)
  got         (* got[c]: what the last receive of c returned          *)

vars == <<items, access, count, pc, arg, timed, got>>

Threads == Producers \cup Consumers

AddSteps  == {"idle", "addLock", "insert", "addUnlock", "post"}
RecvSteps == {"idle", "token", "peek", "recvLock", "take", "recvUnlock",
              "crashed"}

(* Steps at which the thread holds llqAccessSem.                           *)
InSection(t) ==
  pc[t] \in {"insert", "addUnlock", "take", "recvUnlock", "crashed"}

(* Receivers that have taken a token and not yet their message.            *)
TokenHolders == {c \in Consumers : pc[c] \in {"peek", "recvLock", "take"}}

(* Adders whose message is in the list and whose token is not yet posted.  *)
Unposted == {p \in Producers : pc[p] \in {"addUnlock", "post"}}

Goto(t, step) == pc' = [pc EXCEPT ![t] = step]

Init ==
  /\ items = <<>>
  /\ access = 1
  /\ count = 0
  /\ pc = [t \in Threads |-> "idle"]
  /\ arg \in [Producers -> Messages]
  /\ timed = [c \in Consumers |-> FALSE]
  /\ got = [c \in Consumers |-> TimedOut]

-----------------------------------------------------------------------------
(* Faults that would break the queue; no specification uses them.          *)

(* prio is ignored.                                                        *)
AddInsertAlwaysTail(p) ==
  /\ pc[p] = "insert"
  /\ items' = Append(items, arg[p])
  /\ Goto(p, "addUnlock")
  /\ UNCHANGED <<access, count, arg, timed, got>>

(* llqAccessSem is not released after the insertion.                       *)
AddUnlockForgotten(p) ==
  /\ pc[p] = "addUnlock"
  /\ Goto(p, "post")
  /\ UNCHANGED <<items, access, count, arg, timed, got>>

(* llqCountSem is not posted.                                              *)
AddPostForgotten(p) ==
  /\ pc[p] = "post"
  /\ Goto(p, "idle")
  /\ UNCHANGED <<items, access, count, arg, timed, got>>

(* The token is also posted before the message is in the list.             *)
AddLockPostsEarly(p) ==
  /\ pc[p] = "addLock"
  /\ access = 1
  /\ access' = 0
  /\ count' = count + 1
  /\ Goto(p, "insert")
  /\ UNCHANGED <<items, arg, timed, got>>

(* The result of sem_timedwait is not looked at.                           *)
RecvTokenUnchecked(c) ==
  /\ pc[c] = "token"
  /\ count' = count - 1
  /\ Goto(c, "peek")
  /\ UNCHANGED <<items, access, arg, timed, got>>

(* The head is taken off without llqAccessSem.                             *)
RecvLockSkipped(c) ==
  /\ pc[c] = "recvLock"
  /\ Goto(c, "take")
  /\ UNCHANGED <<items, access, count, arg, timed, got>>

-----------------------------------------------------------------------------
(* llq_add *)

AddCall(p, m) ==
  /\ pc[p] = "idle"
  /\ Len(items) < MaxLen
  /\ Goto(p, "addLock")
  /\ arg' = [arg EXCEPT ![p] = m]
  /\ UNCHANGED <<items, access, count, timed, got>>

AddLock(p) ==
  /\ pc[p] = "addLock"
  /\ access = 1
  /\ access' = 0
  /\ Goto(p, "insert")
  /\ UNCHANGED <<items, count, arg, timed, got>>

AddInsert(p) ==
  /\ pc[p] = "insert"
  /\ items' = IF arg[p] \in Urgent THEN <<arg[p]>> \o items
                                   ELSE Append(items, arg[p])
  /\ Goto(p, "addUnlock")
  /\ UNCHANGED <<access, count, arg, timed, got>>

AddUnlock(p) ==
  /\ pc[p] = "addUnlock"
  /\ access' = access + 1
  /\ Goto(p, "post")
  /\ UNCHANGED <<items, count, arg, timed, got>>

AddPost(p) ==
  /\ pc[p] = "post"
  /\ count' = count + 1
  /\ Goto(p, "idle")
  /\ UNCHANGED <<items, access, arg, timed, got>>

-----------------------------------------------------------------------------
(* llq_timedreceive, and llq_receive when withDeadline is FALSE *)

RecvCall(c, withDeadline) ==
  /\ pc[c] = "idle"
  /\ Goto(c, "token")
  /\ timed' = [timed EXCEPT ![c] = withDeadline]
  /\ got' = [got EXCEPT ![c] = Pending]
  /\ UNCHANGED <<items, access, count, arg>>

RecvToken(c) ==
  /\ pc[c] = "token"
  /\ count > 0
  /\ count' = count - 1
  /\ Goto(c, "peek")
  /\ UNCHANGED <<items, access, arg, timed, got>>

(* sem_timedwait gives up only when it cannot decrement at its deadline.   *)
RecvTimeout(c) ==
  /\ pc[c] = "token"
  /\ timed[c]
  /\ count = 0
  /\ got' = [got EXCEPT ![c] = TimedOut]
  /\ Goto(c, "idle")
  /\ UNCHANGED <<items, access, count, arg, timed>>

(* hndl->head is compared with NULL without the access semaphore.          *)
RecvPeek(c) ==
  /\ pc[c] = "peek"
  /\ got' = IF items = <<>> THEN [got EXCEPT ![c] = NoMessage] ELSE got
  /\ Goto(c, IF items = <<>> THEN "idle" ELSE "recvLock")
  /\ UNCHANGED <<items, access, count, arg, timed>>

RecvLock(c) ==
  /\ pc[c] = "recvLock"
  /\ access = 1
  /\ access' = 0
  /\ Goto(c, "take")
  /\ UNCHANGED <<items, count, arg, timed, got>>

(* hndl->head is dereferenced: with an empty list the program crashes.     *)
RecvTake(c) ==
  /\ pc[c] = "take"
  /\ IF items = <<>>
       THEN Goto(c, "crashed") /\ UNCHANGED <<items, got>>
       ELSE /\ got' = [got EXCEPT ![c] = Head(items)]
            /\ items' = Tail(items)
            /\ Goto(c, "recvUnlock")
  /\ UNCHANGED <<access, count, arg, timed>>

RecvUnlock(c) ==
  /\ pc[c] = "recvUnlock"
  /\ access' = access + 1
  /\ Goto(c, "idle")
  /\ UNCHANGED <<items, count, arg, timed, got>>

-----------------------------------------------------------------------------
Add(p) ==
  \/ \E m \in Messages : AddCall(p, m)
  \/ AddLock(p) \/ AddInsert(p) \/ AddUnlock(p) \/ AddPost(p)

RecvStep(c) ==
  \/ RecvToken(c) \/ RecvTimeout(c) \/ RecvPeek(c)
  \/ RecvLock(c) \/ RecvTake(c) \/ RecvUnlock(c)

Recv(c) == RecvStep(c) \/ \E d \in BOOLEAN : RecvCall(c, d)

Next == (\E p \in Producers : Add(p)) \/ (\E c \in Consumers : Recv(c))

Spec == Init /\ [][Next]_vars

(* A thread inside llq_add or a timed llq_timedreceive keeps running; the  *)
(* access semaphore is granted to a waiter that keeps asking.  No thread   *)
(* is obliged to start another operation.                                  *)
Fairness ==
  /\ \A p \in Producers :
       /\ WF_vars(AddInsert(p) \/ AddUnlock(p) \/ AddPost(p))
       /\ SF_vars(AddLock(p))
  /\ \A c \in Consumers :
       /\ WF_vars(RecvTimeout(c) \/ RecvPeek(c) \/ RecvTake(c) \/ RecvUnlock(c))
       /\ SF_vars(RecvLock(c))
       /\ SF_vars(RecvToken(c))

FairSpec == Spec /\ Fairness

-----------------------------------------------------------------------------
TypeOK ==
  /\ items \in Seq(Messages)
  /\ access \in Nat
  /\ count \in Nat
  /\ pc \in [Threads -> AddSteps \cup RecvSteps]
  /\ \A p \in Producers : pc[p] \in AddSteps
  /\ \A c \in Consumers : pc[c] \in RecvSteps
  /\ arg \in [Producers -> Messages]
  /\ timed \in [Consumers -> BOOLEAN]
  /\ got \in [Consumers -> Messages \cup {Pending, TimedOut, NoMessage}]

(* The list is only touched by one thread at a time, and llqAccessSem is   *)
(* free exactly when no thread is inside (queue.c:150-174 and 218-230).    *)
AccessExclusion ==
  /\ access = IF \E t \in Threads : InSection(t) THEN 0 ELSE 1
  /\ \A t, u \in Threads : InSection(t) /\ InSection(u) => t = u

(* Every token stands for a message: the list holds one for each token     *)
(* still in llqCountSem, for each one taken by a receiver that has not got *)
(* its message yet, and for each one an adder is about to post.            *)
TokensBacked ==
  Len(items) = count + Cardinality(TokenHolders) + Cardinality(Unposted)

(* A receiver that took a token finds a message at both looks, so the      *)
(* unguarded hndl->head test of queue.c:147 never fails, the dereference   *)
(* of queue.c:152 is safe, and rpcWaitMqClientMsg never hands an empty     *)
(* frame to mtProcess.                                                     *)
TokenFindsMessage ==
  \A c \in Consumers :
    /\ pc[c] \in {"peek", "recvLock", "take"} => items # <<>>
    /\ pc[c] # "crashed"
    /\ got[c] # NoMessage

(* A receive has no result before it returns.                              *)
PendingInside ==
  \A c \in Consumers :
    pc[c] \in {"token", "peek", "recvLock", "take"} => got[c] = Pending

(* The inductive invariant behind the two above.                           *)
QueueInv == TypeOK /\ TokensBacked /\ TokenFindsMessage

(* Each operation takes effect at one instant between its call and its     *)
(* return: the semaphore protocol implements the queue of PrioQueue.       *)
PQ == INSTANCE PrioQueue
ImplementsPrioQueue == PQ!Spec

(* A receive with a deadline always comes back, and so does every add,     *)
(* whatever the other threads do with the two semaphores.                  *)
OperationsReturn ==
  /\ \A p \in Producers : pc[p] # "idle" ~> pc[p] = "idle"
  /\ \A c \in Consumers : pc[c] # "idle" /\ timed[c] ~> pc[c] = "idle"
=============================================================================
