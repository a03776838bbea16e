----------------------------- MODULE LlqProofs -----------------------------
(***************************************************************************)
(* Proofs about the RPC message queue (module Llq) for any number of       *)
(* threads and any length of the queue.                                    *)
(***************************************************************************)
EXTENDS Llq, FiniteSetTheorems, TLAPS

(* Type correctness of the queue model. *)
THEOREM LlqTypeOK == Spec => []TypeOK
<1>1. Init => TypeOK
  BY DEF Init, TypeOK, Threads, AddSteps, RecvSteps
<1>2. TypeOK /\ [Next]_vars => TypeOK'
  <2> SUFFICES ASSUME TypeOK, [Next]_vars PROVE TypeOK'
    OBVIOUS
  <2> USE ThreadAssumption, ResultAssumption
          DEF TypeOK, Threads, AddSteps, RecvSteps, Goto
  <2>1. ASSUME NEW p \in Producers, Add(p) PROVE TypeOK'
    <3>1. CASE \E m \in Messages : AddCall(p, m)
      BY <3>1 DEF AddCall
    <3>2. CASE AddLock(p)
      BY <3>2 DEF AddLock
    <3>3. CASE AddInsert(p)
      BY <3>3 DEF AddInsert
    <3>4. CASE AddUnlock(p)
      BY <3>4 DEF AddUnlock
    <3>5. CASE AddPost(p)
      BY <3>5 DEF AddPost
    <3> QED BY <2>1, <3>1, <3>2, <3>3, <3>4, <3>5 DEF Add
  <2>2. ASSUME NEW c \in Consumers, Recv(c) PROVE TypeOK'
    <3>1. CASE \E d \in BOOLEAN : RecvCall(c, d)
      BY <3>1 DEF RecvCall
    <3>2. CASE RecvToken(c)
      BY <3>2 DEF RecvToken
    <3>3. CASE RecvTimeout(c)
      BY <3>3 DEF RecvTimeout
    <3>4. CASE RecvPeek(c)
      BY <3>4 DEF RecvPeek
    <3>5. CASE RecvLock(c)
      BY <3>5 DEF RecvLock
    <3>6. CASE RecvTake(c)
      <4>1. CASE items = <<>>
        BY <3>6, <4>1 DEF RecvTake
      <4>2. CASE items # <<>>
        <5>1. Head(items) \in Messages /\ Tail(items) \in Seq(Messages)
          BY <4>2
        <5>2. /\ pc' = [pc EXCEPT ![c] = "recvUnlock"]
              /\ items' = Tail(items)
              /\ got' = [got EXCEPT ![c] = Head(items)]
              /\ UNCHANGED <<access, count, arg, timed>>
          BY <3>6, <4>2 DEF RecvTake
        <5> QED BY <5>1, <5>2
      <4> QED BY <4>1, <4>2
    <3>7. CASE RecvUnlock(c)
      BY <3>7 DEF RecvUnlock
    <3> QED BY <2>2, <3>1, <3>2, <3>3, <3>4, <3>5, <3>6, <3>7
            DEF Recv, RecvStep
  <2>3. CASE UNCHANGED vars
    BY <2>3 DEF vars
  <2> QED BY <2>1, <2>2, <2>3 DEF Next
<1> QED BY <1>1, <1>2, PTL DEF Spec

(* Only one thread is ever inside llqAccessSem. *)
THEOREM LlqAccessExclusion == Spec => []AccessExclusion
<1>1. Init => AccessExclusion
  BY DEF Init, AccessExclusion, InSection, Threads
<1>2. TypeOK /\ AccessExclusion /\ [Next]_vars => AccessExclusion'
  <2> SUFFICES ASSUME TypeOK, AccessExclusion, [Next]_vars
               PROVE  AccessExclusion'
    OBVIOUS
  <2> USE DEF AccessExclusion, InSection, Goto
  <2>0. pc \in [Threads -> AddSteps \cup RecvSteps]
        /\ Producers \subseteq Threads /\ Consumers \subseteq Threads
    BY DEF TypeOK, Threads
  <2>1. ASSUME NEW p \in Producers, Add(p) PROVE AccessExclusion'
    <3>1. CASE \E m \in Messages : AddCall(p, m)
      BY <2>0, <3>1 DEF AddCall
    <3>2. CASE AddLock(p)
      BY <2>0, <3>2 DEF AddLock
    <3>3. CASE AddInsert(p)
      BY <2>0, <3>3 DEF AddInsert
    <3>4. CASE AddUnlock(p)
      BY <2>0, <3>4 DEF AddUnlock
    <3>5. CASE AddPost(p)
      BY <2>0, <3>5 DEF AddPost
    <3> QED BY <2>1, <3>1, <3>2, <3>3, <3>4, <3>5 DEF Add
  <2>2. ASSUME NEW c \in Consumers, Recv(c) PROVE AccessExclusion'
    <3>1. CASE \E d \in BOOLEAN : RecvCall(c, d)
      BY <2>0, <3>1 DEF RecvCall
    <3>2. CASE RecvToken(c)
      BY <2>0, <3>2 DEF RecvToken
    <3>3. CASE RecvTimeout(c)
      BY <2>0, <3>3 DEF RecvTimeout
    <3>4. CASE RecvPeek(c)
      BY <2>0, <3>4 DEF RecvPeek
    <3>5. CASE RecvLock(c)
      BY <2>0, <3>5 DEF RecvLock
    <3>6. CASE RecvTake(c)
      BY <2>0, <3>6 DEF RecvTake
    <3>7. CASE RecvUnlock(c)
      BY <2>0, <3>7 DEF RecvUnlock
    <3> QED BY <2>2, <3>1, <3>2, <3>3, <3>4, <3>5, <3>6, <3>7
            DEF Recv, RecvStep
  <2>3. CASE UNCHANGED vars
    BY <2>3 DEF vars
  <2> QED BY <2>1, <2>2, <2>3 DEF Next
<1> QED BY <1>1, <1>2, LlqTypeOK, PTL DEF Spec

-----------------------------------------------------------------------------
(* The two sets of threads that TokensBacked counts are finite. *)
LEMMA CountedSetsFinite ==
  ASSUME TypeOK
  PROVE  /\ IsFiniteSet(TokenHolders) /\ IsFiniteSet(Unposted)
         /\ Cardinality(TokenHolders) \in Nat /\ Cardinality(Unposted) \in Nat
<1>1. TokenHolders \subseteq Consumers /\ Unposted \subseteq Producers
  BY DEF TokenHolders, Unposted
<1>2. IsFiniteSet(TokenHolders) /\ IsFiniteSet(Unposted)
  BY <1>1, FS_Subset, ThreadAssumption
<1> QED BY <1>2, FS_CardinalityType

(* A receiver that holds a token finds the list nonempty. *)
LEMMA HolderSeesMessage ==
  ASSUME TypeOK, TokensBacked, NEW c \in TokenHolders
  PROVE  items # <<>>
<1>1. Cardinality(TokenHolders) # 0
  BY CountedSetsFinite, FS_EmptySet
<1>2. Len(items) # 0
  BY <1>1, CountedSetsFinite DEF TokensBacked, TypeOK
<1> QED BY <1>2

(* The counting that each kind of step preserves, apart from the queue. *)
LEMMA AddOne ==
  ASSUME NEW S, IsFiniteSet(S), NEW x, x \notin S
  PROVE  Cardinality(S \cup {x}) = Cardinality(S) + 1
BY FS_AddElement

LEMMA DropOne ==
  ASSUME NEW S, IsFiniteSet(S), NEW x, x \in S
  PROVE  Cardinality(S \ {x}) = Cardinality(S) - 1
BY FS_RemoveElement

(* Every token stands for a message, and whoever takes one finds one. *)
THEOREM LlqQueueInv == Spec => []QueueInv
<1>1. Init => QueueInv
  <2> SUFFICES ASSUME Init PROVE QueueInv
    OBVIOUS
  <2>1. TypeOK
    BY DEF Init, TypeOK, Threads, AddSteps, RecvSteps
  <2>2. TokenHolders = {} /\ Unposted = {}
    BY DEF Init, TokenHolders, Unposted, Threads
  <2>3. TokensBacked
    BY <2>2, FS_EmptySet DEF Init, TokensBacked
  <2>4. TokenFindsMessage
    BY ResultAssumption DEF Init, TokenFindsMessage, Threads
  <2> QED BY <2>1, <2>3, <2>4 DEF QueueInv
<1>2. QueueInv /\ TypeOK' /\ [Next]_vars => QueueInv'
  <2> SUFFICES ASSUME QueueInv, TypeOK', [Next]_vars PROVE QueueInv'
    OBVIOUS
  <2>0. /\ pc \in [Threads -> AddSteps \cup RecvSteps]
        /\ Producers \subseteq Threads /\ Consumers \subseteq Threads
        /\ Producers \cap Consumers = {}
        /\ items \in Seq(Messages) /\ count \in Nat
        /\ got \in [Consumers -> Messages \cup {Pending, TimedOut, NoMessage}]
    BY ThreadAssumption DEF QueueInv, TypeOK, Threads
  <2>1. /\ IsFiniteSet(TokenHolders) /\ IsFiniteSet(Unposted)
        /\ Cardinality(TokenHolders) \in Nat /\ Cardinality(Unposted) \in Nat
    BY CountedSetsFinite DEF QueueInv
  <2>2. \A c \in Consumers : pc[c] \in {"peek", "recvLock", "take"}
                              => items # <<>>
    BY HolderSeesMessage DEF QueueInv, TokenHolders
  <2>3. \A c \in Consumers : pc[c] # "crashed" /\ got[c] # NoMessage
    BY DEF QueueInv, TokenFindsMessage
  \* It is enough that the counts agree and that nobody crashes.
  <2>4. ASSUME TokensBacked',
               \A c \in Consumers : pc'[c] # "crashed" /\ got'[c] # NoMessage
        PROVE  QueueInv'
    <3>1. IsFiniteSet(TokenHolders')
      <4>1. TokenHolders' \subseteq Consumers
        BY DEF TokenHolders
      <4> QED BY <4>1, FS_Subset, ThreadAssumption
    <3>2. IsFiniteSet(Unposted')
      <4>1. Unposted' \subseteq Producers
        BY DEF Unposted
      <4> QED BY <4>1, FS_Subset, ThreadAssumption
    <3>3. ASSUME NEW c \in Consumers, pc'[c] \in {"peek", "recvLock", "take"}
          PROVE  items' # <<>>
      <4>1. c \in TokenHolders'
        BY <3>3 DEF TokenHolders
      <4>2. Cardinality(TokenHolders') # 0
        BY <4>1, <3>1, FS_EmptySet
      <4>3. Cardinality(TokenHolders') \in Nat /\ Cardinality(Unposted') \in Nat
        BY <3>1, <3>2, FS_CardinalityType
      <4>4. Len(items') # 0
        BY <4>2, <4>3, <2>4 DEF TokensBacked, TypeOK
      <4> QED BY <4>4
    <3> QED BY <3>3, <2>4 DEF QueueInv, TokenFindsMessage
  <2>5. ASSUME NEW p \in Producers, Add(p) PROVE QueueInv'
    <3>0. /\ \A t \in Consumers : pc'[t] = pc[t]
          /\ got' = got
          /\ pc[p] \in AddSteps
      BY <2>0, <2>5 DEF Add, AddCall, AddLock, AddInsert, AddUnlock, AddPost,
                        Goto, QueueInv, TypeOK
    <3>1. TokenHolders' = TokenHolders
      BY <3>0 DEF TokenHolders
    <3>2. \A c \in Consumers : pc'[c] # "crashed" /\ got'[c] # NoMessage
      BY <3>0, <2>3
    <3>3. CASE \E m \in Messages : AddCall(p, m)
      <4>1. Unposted' = Unposted
        BY <2>0, <3>3 DEF AddCall, Goto, Unposted
      <4> QED BY <2>4, <3>1, <3>2, <3>3, <4>1
              DEF AddCall, TokensBacked, QueueInv
    <3>4. CASE AddLock(p)
      <4>1. Unposted' = Unposted
        BY <2>0, <3>4 DEF AddLock, Goto, Unposted
      <4> QED BY <2>4, <3>1, <3>2, <3>4, <4>1
              DEF AddLock, TokensBacked, QueueInv
    <3>5. CASE AddInsert(p)
      <4>1. Unposted' = Unposted \cup {p} /\ p \notin Unposted
        BY <2>0, <3>5 DEF AddInsert, Goto, Unposted
      <4>2. Cardinality(Unposted') = Cardinality(Unposted) + 1
        BY <4>1, <2>1, AddOne
      <4>3. arg[p] \in Messages
        BY DEF QueueInv, TypeOK
      <4>4. Len(items') = Len(items) + 1
        BY <2>0, <3>5, <4>3 DEF AddInsert
      <4>5. count' = count
        BY <3>5 DEF AddInsert
      <4>6. TokensBacked'
        BY <2>0, <2>1, <3>1, <4>2, <4>4, <4>5 DEF TokensBacked, QueueInv
      <4> QED BY <2>4, <3>2, <4>6
    <3>6. CASE AddUnlock(p)
      <4>1. Unposted' = Unposted
        BY <2>0, <3>6 DEF AddUnlock, Goto, Unposted
      <4> QED BY <2>4, <3>1, <3>2, <3>6, <4>1
              DEF AddUnlock, TokensBacked, QueueInv
    <3>7. CASE AddPost(p)
      <4>1. Unposted' = Unposted \ {p} /\ p \in Unposted
        BY <2>0, <3>7 DEF AddPost, Goto, Unposted
      <4>2. Cardinality(Unposted') = Cardinality(Unposted) - 1
        BY <4>1, <2>1, DropOne
      <4>3. count' = count + 1 /\ items' = items
        BY <3>7 DEF AddPost
      <4>4. TokensBacked'
        BY <2>0, <2>1, <3>1, <4>2, <4>3 DEF TokensBacked, QueueInv
      <4> QED BY <2>4, <3>2, <4>4
    <3> QED BY <2>5, <3>3, <3>4, <3>5, <3>6, <3>7 DEF Add
  <2>6. ASSUME NEW c \in Consumers, Recv(c) PROVE QueueInv'
    <3>1. Unposted' = Unposted
      BY <2>0, <2>6 DEF Recv, RecvStep, RecvCall, RecvToken, RecvTimeout,
         RecvPeek, RecvLock, RecvTake, RecvUnlock, Goto, Unposted
    <3>2. CASE \E d \in BOOLEAN : RecvCall(c, d)
      <4>1. TokenHolders' = TokenHolders
        BY <2>0, <3>2 DEF RecvCall, Goto, TokenHolders
      <4>2. \A k \in Consumers : pc'[k] # "crashed" /\ got'[k] # NoMessage
        BY <2>0, <2>3, <3>2, ResultAssumption DEF RecvCall, Goto
      <4> QED BY <2>4, <3>1, <3>2, <4>1, <4>2
              DEF RecvCall, TokensBacked, QueueInv
    <3>3. CASE RecvToken(c)
      <4>1. TokenHolders' = TokenHolders \cup {c} /\ c \notin TokenHolders
        BY <2>0, <3>3 DEF RecvToken, Goto, TokenHolders
      <4>2. Cardinality(TokenHolders') = Cardinality(TokenHolders) + 1
        BY <4>1, <2>1, AddOne
      <4>3. count' = count - 1 /\ items' = items
        BY <3>3 DEF RecvToken
      <4>4. TokensBacked'
        BY <2>0, <2>1, <3>1, <4>2, <4>3 DEF TokensBacked, QueueInv
      <4>5. \A k \in Consumers : pc'[k] # "crashed" /\ got'[k] # NoMessage
        BY <2>0, <2>3, <3>3 DEF RecvToken, Goto
      <4> QED BY <2>4, <4>4, <4>5
    <3>4. CASE RecvTimeout(c)
      <4>1. TokenHolders' = TokenHolders
        BY <2>0, <3>4 DEF RecvTimeout, Goto, TokenHolders
      <4>2. \A k \in Consumers : pc'[k] # "crashed" /\ got'[k] # NoMessage
        BY <2>0, <2>3, <3>4, ResultAssumption DEF RecvTimeout, Goto
      <4> QED BY <2>4, <3>1, <3>4, <4>1, <4>2
              DEF RecvTimeout, TokensBacked, QueueInv
    <3>5. CASE RecvPeek(c)
      <4>0. items # <<>>
        BY <2>2, <3>5 DEF RecvPeek
      <4>1. /\ pc' = [pc EXCEPT ![c] = "recvLock"] /\ got' = got
            /\ UNCHANGED <<items, count>> /\ pc[c] = "peek"
        BY <4>0, <3>5 DEF RecvPeek, Goto
      <4>2. TokenHolders' = TokenHolders
        BY <2>0, <4>1 DEF TokenHolders
      <4>3. \A k \in Consumers : pc'[k] # "crashed" /\ got'[k] # NoMessage
        BY <2>0, <2>3, <4>1
      <4> QED BY <2>4, <3>1, <4>1, <4>2, <4>3 DEF TokensBacked, QueueInv
    <3>6. CASE RecvLock(c)
      <4>1. TokenHolders' = TokenHolders
        BY <2>0, <3>6 DEF RecvLock, Goto, TokenHolders
      <4>2. \A k \in Consumers : pc'[k] # "crashed" /\ got'[k] # NoMessage
        BY <2>0, <2>3, <3>6 DEF RecvLock, Goto
      <4> QED BY <2>4, <3>1, <3>6, <4>1, <4>2
              DEF RecvLock, TokensBacked, QueueInv
    <3>7. CASE RecvTake(c)
      <4>0. items # <<>>
        BY <2>2, <3>7 DEF RecvTake
      <4>1. /\ pc' = [pc EXCEPT ![c] = "recvUnlock"] /\ pc[c] = "take"
            /\ items' = Tail(items)
            /\ got' = [got EXCEPT ![c] = Head(items)]
            /\ count' = count
        BY <4>0, <3>7 DEF RecvTake, Goto
      <4>2. TokenHolders' = TokenHolders \ {c} /\ c \in TokenHolders
        BY <2>0, <4>1 DEF TokenHolders
      <4>3. Cardinality(TokenHolders') = Cardinality(TokenHolders) - 1
        BY <4>2, <2>1, DropOne
      <4>4. Len(items') = Len(items) - 1 /\ Head(items) \in Messages
        BY <2>0, <4>0, <4>1
      <4>5. TokensBacked'
        BY <2>0, <2>1, <3>1, <4>1, <4>3, <4>4 DEF TokensBacked, QueueInv
      <4>6. \A k \in Consumers : pc'[k] # "crashed" /\ got'[k] # NoMessage
        BY <2>0, <2>3, <4>1, <4>4, ResultAssumption
      <4> QED BY <2>4, <4>5, <4>6
    <3>8. CASE RecvUnlock(c)
      <4>1. TokenHolders' = TokenHolders
        BY <2>0, <3>8 DEF RecvUnlock, Goto, TokenHolders
      <4>2. \A k \in Consumers : pc'[k] # "crashed" /\ got'[k] # NoMessage
        BY <2>0, <2>3, <3>8 DEF RecvUnlock, Goto
      <4> QED BY <2>4, <3>1, <3>8, <4>1, <4>2
              DEF RecvUnlock, TokensBacked, QueueInv
    <3> QED BY <2>6, <3>2, <3>3, <3>4, <3>5, <3>6, <3>7, <3>8
            DEF Recv, RecvStep
  <2>7. CASE UNCHANGED vars
    <3>1. TokenHolders' = TokenHolders /\ Unposted' = Unposted
      BY <2>7 DEF vars, TokenHolders, Unposted
    <3> QED BY <2>3, <2>4, <2>7, <3>1 DEF vars, TokensBacked, QueueInv
  <2> QED BY <2>5, <2>6, <2>7 DEF Next
<1> QED BY <1>1, <1>2, LlqTypeOK, PTL DEF Spec

(* The counts of tokens and messages always agree. *)
THEOREM LlqTokensBacked == Spec => []TokensBacked
BY LlqQueueInv, PTL DEF QueueInv

(* No receiver ever finds the list empty. *)
THEOREM LlqTokenFindsMessage == Spec => []TokenFindsMessage
BY LlqQueueInv, PTL DEF QueueInv

-----------------------------------------------------------------------------
(* A receive that has not returned has no result. *)
LEMMA LlqPendingInside == Spec => []PendingInside
<1>1. Init => PendingInside
  BY DEF Init, PendingInside, Threads
<1>2. TypeOK /\ PendingInside /\ [Next]_vars => PendingInside'
  <2> SUFFICES ASSUME TypeOK, PendingInside, [Next]_vars
               PROVE  PendingInside'
    OBVIOUS
  <2> USE DEF PendingInside, Goto
  <2>0. /\ pc \in [Threads -> AddSteps \cup RecvSteps]
        /\ got \in [Consumers -> Messages \cup {Pending, TimedOut, NoMessage}]
        /\ Consumers \subseteq Threads /\ Producers \subseteq Threads
        /\ Producers \cap Consumers = {}
    BY ThreadAssumption DEF TypeOK, Threads
  <2>1. ASSUME NEW p \in Producers, Add(p) PROVE PendingInside'
    BY <2>0, <2>1 DEF Add, AddCall, AddLock, AddInsert, AddUnlock, AddPost
  <2>2. ASSUME NEW c \in Consumers, Recv(c) PROVE PendingInside'
    <3>1. CASE \E d \in BOOLEAN : RecvCall(c, d)
      BY <2>0, <3>1 DEF RecvCall
    <3>2. CASE RecvToken(c) \/ RecvTimeout(c)
      BY <2>0, <3>2 DEF RecvToken, RecvTimeout
    <3>3. CASE RecvPeek(c)
      <4>1. CASE items = <<>>
        BY <2>0, <3>3, <4>1 DEF RecvPeek
      <4>2. CASE items # <<>>
        BY <2>0, <3>3, <4>2 DEF RecvPeek
      <4> QED BY <4>1, <4>2
    <3>4. CASE RecvTake(c)
      <4>1. CASE items = <<>>
        BY <2>0, <3>4, <4>1 DEF RecvTake
      <4>2. CASE items # <<>>
        <5>1. /\ pc' = [pc EXCEPT ![c] = "recvUnlock"]
              /\ got' = [got EXCEPT ![c] = Head(items)]
          BY <3>4, <4>2 DEF RecvTake
        <5> QED BY <2>0, <5>1
      <4> QED BY <4>1, <4>2
    <3>5. CASE RecvLock(c) \/ RecvUnlock(c)
      BY <2>0, <3>5 DEF RecvLock, RecvUnlock
    <3> QED BY <2>2, <3>1, <3>2, <3>3, <3>4, <3>5 DEF Recv, RecvStep
  <2>3. CASE UNCHANGED vars
    BY <2>3 DEF vars
  <2> QED BY <2>1, <2>2, <2>3 DEF Next
<1> QED BY <1>1, <1>2, LlqTypeOK, PTL DEF Spec

(* The semaphore protocol implements the atomic priority queue: an add     *)
(* takes effect when the list is written, a receive when the head is taken *)
(* off or when the deadline passes, and every other step is a stutter.     *)
THEOREM LlqRefinesPrioQueue == Spec => ImplementsPrioQueue
<1>1. Init => PQ!Init
  BY DEF Init, PQ!Init
<1>2. TypeOK /\ QueueInv /\ PendingInside /\ [Next]_vars
        => [PQ!Next]_(PQ!vars)
  <2> SUFFICES ASSUME TypeOK, QueueInv, PendingInside, [Next]_vars
               PROVE  [PQ!Next]_(PQ!vars)
    OBVIOUS
  <2> USE DEF PQ!vars, PQ!Next
  <2>0. \A c \in Consumers : pc[c] \in {"peek", "recvLock", "take"}
                              => items # <<>>
    BY DEF QueueInv, TokenFindsMessage
  <2>1. ASSUME NEW p \in Producers, Add(p) PROVE [PQ!Next]_(PQ!vars)
    <3>1. CASE AddInsert(p)
      <4>1. arg[p] \in Messages
        BY DEF TypeOK
      <4>2. CASE arg[p] \in Urgent
        <5>1. PQ!AddHead(arg[p])
          BY <3>1, <4>2 DEF AddInsert, PQ!AddHead
        <5> QED BY <4>2, <5>1
      <4>3. CASE arg[p] \notin Urgent
        <5>1. PQ!AddTail(arg[p])
          BY <3>1, <4>3 DEF AddInsert, PQ!AddTail
        <5> QED BY <4>1, <4>3, <5>1
      <4> QED BY <4>2, <4>3
    <3>2. CASE ~AddInsert(p)
      BY <2>1, <3>2 DEF Add, AddCall, AddLock, AddUnlock, AddPost
    <3> QED BY <3>1, <3>2
  <2>2. ASSUME NEW c \in Consumers, Recv(c) PROVE [PQ!Next]_(PQ!vars)
    <3>1. CASE \E d \in BOOLEAN : RecvCall(c, d)
      <4>1. PQ!Call(c)
        BY <3>1 DEF RecvCall, PQ!Call
      <4> QED BY <4>1
    <3>2. CASE RecvTimeout(c)
      <4>1. PQ!GiveUp(c)
        BY <3>2 DEF RecvTimeout, PQ!GiveUp, PendingInside
      <4> QED BY <4>1
    <3>3. CASE RecvTake(c)
      <4>1. items # <<>> /\ got[c] = Pending
        BY <2>0, <3>3 DEF RecvTake, PendingInside
      <4>2. PQ!Receive(c)
        BY <3>3, <4>1 DEF RecvTake, PQ!Receive
      <4> QED BY <4>2
    <3>4. CASE RecvPeek(c)
      <4>1. items # <<>>
        BY <2>0, <3>4 DEF RecvPeek
      <4> QED BY <3>4, <4>1 DEF RecvPeek
    <3>5. CASE RecvToken(c) \/ RecvLock(c) \/ RecvUnlock(c)
      BY <3>5 DEF RecvToken, RecvLock, RecvUnlock
    <3> QED BY <2>2, <3>1, <3>2, <3>3, <3>4, <3>5 DEF Recv, RecvStep
  <2>3. CASE UNCHANGED vars
    BY <2>3 DEF vars
  <2> QED BY <2>1, <2>2, <2>3 DEF Next
<1> QED BY <1>1, <1>2, LlqTypeOK, LlqQueueInv, LlqPendingInside, PTL
        DEF Spec, ImplementsPrioQueue, PQ!Spec
=============================================================================
