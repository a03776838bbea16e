------------------------------ MODULE RpcProofs ------------------------------
(***************************************************************************)
(* Proofs about Rpc: the exchange with the ZNP is exclusive, the Rx thread *)
(* expects exactly the SRSP of the request in flight, SRSPs overtake AREQs,*)
(* AREQs keep their order on the way to the queue, and a sender is woken by*)
(* its own response as long as none came too late, for any number of       *)
(* requests, indications and losses.                                       *)
(***************************************************************************)
EXTENDS Rpc, TLAPS

LEMMA TypeInit == Init => TypeOK
<1> SUFFICES ASSUME Init PROVE TypeOK
  OBVIOUS
<1>1. Blank \in Frame
  BY DEF Blank, Frame
<1>2. Poll \in Request
  BY DEF Poll, Request
<1>3. "idle" \in Steps
  BY DEF Steps
<1>4. <<>> \in Seq(Frame) /\ <<>> \in Seq(Request)
  OBVIOUS
<1> QED
  BY <1>1, <1>2, <1>3, <1>4 DEF Init, TypeOK

LEMMA TypeStart ==
  ASSUME TypeOK, NEW t \in Threads, Start(t)
  PROVE  TypeOK'
<1>1. ASSUME NEW type \in {"SREQ", "AREQ"}, NEW s \in Subsystems,
             CallStart(t, type, s)
      PROVE  TypeOK'
  <2>1. NewRequest(type, s) \in Request
    BY DEF NewRequest, Request, TypeOK
  <2> QED
    BY <1>1, <2>1 DEF CallStart, Begin, Goto, Steps, TypeOK, semVars, queueVars,
                      rxVars, znpVars
<1>2. CASE PollStart(t)
  BY <1>2 DEF PollStart, Goto, Steps, Poll, Request, TypeOK, semVars, queueVars,
              rxVars, znpVars
<1> QED
  BY <1>1, <1>2 DEF Start

(* Returning leaves the thread state well typed.                           *)
LEMMA ReturnOK ==
  ASSUME TypeOK, NEW t \in Threads, Return(t)
  PROVE  /\ pc' \in [Threads -> Steps]
         /\ req' \in [Threads -> Request]
         /\ outer' \in [Threads -> Seq(Request)]
<1>1. CASE outer[t] = <<>>
  BY <1>1 DEF Return, Goto, Steps, TypeOK
<1>2. CASE outer[t] # <<>>
  <2>1. outer[t] \in Seq(Request)
    BY DEF TypeOK
  <2>2. Head(outer[t]) \in Request /\ Tail(outer[t]) \in Seq(Request)
    BY <1>2, <2>1
  <2> QED
    BY <1>2, <2>2 DEF Return, Goto, Steps, TypeOK
<1> QED
  BY <1>1, <1>2

LEMMA TypeSend ==
  ASSUME TypeOK, NEW t \in Threads, Send(t)
  PROVE  TypeOK'
<1> USE DEF Goto, Steps, TypeOK, semVars, queueVars, rxVars, znpVars
<1>1. CASE Lock(t)
  BY <1>1 DEF Lock
<1>2. CASE Expect(t)
  BY <1>2 DEF Expect, Request
<1>3. CASE Write(t)
  <2>1. req[t] \in Request
    OBVIOUS
  <2>2. Append(downlink, req[t]) \in Seq(Request)
    BY <2>1
  <2>3. downlink' \in Seq(Request) /\ lost' \in Nat
    <3>1. CASE downlink' = Append(downlink, req[t]) /\ UNCHANGED lost
      BY <2>2, <3>1
    <3>2. CASE lost' = lost + 1 /\ UNCHANGED downlink
      BY <3>2
    <3> QED
      BY <1>3, <3>1, <3>2 DEF Write
  <2>4. pc' \in [Threads -> Steps]
    BY <1>3 DEF Write
  <2> QED
    BY <1>3, <2>3, <2>4 DEF Write
<1>4. CASE Wake(t)
  BY <1>4 DEF Wake
<1>5. CASE SrspTimeout(t)
  BY <1>5 DEF SrspTimeout, Request
<1>6. CASE Clear(t)
  BY <1>6 DEF Clear
<1>7. CASE Unlock(t)
  <2>1. /\ pc' \in [Threads -> Steps]
        /\ req' \in [Threads -> Request]
        /\ outer' \in [Threads -> Seq(Request)]
    <3>1. CASE status[t] = "SUCCESS"
      BY <1>7, <3>1 DEF Unlock
    <3>2. CASE status[t] # "SUCCESS"
      <4>1. Return(t)
        BY <1>7, <3>2 DEF Unlock
      <4> QED
        BY <4>1, ReturnOK
    <3> QED
      BY <3>1, <3>2
  <2> QED
    BY <1>7, <2>1 DEF Unlock
<1> QED
  BY <1>1, <1>2, <1>3, <1>4, <1>5, <1>6, <1>7 DEF Send

LEMMA TypeReceive ==
  ASSUME TypeOK, NEW t \in Threads, Receive(t)
  PROVE  TypeOK'
<1> USE DEF Goto, Steps, TypeOK, semVars, queueVars, rxVars, znpVars
<1>1. CASE RecvToken(t)
  BY <1>1 DEF RecvToken
<1>2. CASE RecvTimeout(t)
  BY <1>2 DEF RecvTimeout
<1>3. CASE ProcessSrsp(t)
  BY <1>3 DEF ProcessSrsp
<1>4. CASE ProcessAreq(t)
  BY <1>4 DEF ProcessAreq
<1>5. ASSUME NEW s \in Subsystems, ProcessAreqNested(t, s)
      PROVE  TypeOK'
  <2>1. NewRequest("SREQ", s) \in Request
    BY DEF NewRequest, Request
  <2>2. <<req[t]>> \o outer[t] \in Seq(Request)
    OBVIOUS
  <2> QED
    BY <1>5, <2>1, <2>2 DEF ProcessAreqNested, Begin
<1>6. CASE ReadStatus(t)
  BY <1>6, ReturnOK DEF ReadStatus
<1> QED
  BY <1>1, <1>2, <1>3, <1>4, <1>5, <1>6 DEF Receive

LEMMA TypeRest ==
  ASSUME TypeOK, InitDone \/ Rx \/ Znp
  PROVE  TypeOK'
<1> USE DEF TypeOK, semVars, queueVars, rxVars, znpVars, threadVars
<1>1. CASE InitDone
  BY <1>1 DEF InitDone
<1>2. CASE RxFrame
  BY <1>2 DEF RxFrame
<1>3. CASE RxPost
  BY <1>3 DEF RxPost
<1>4. CASE RxInsert
  BY <1>4 DEF RxInsert
<1>5. CASE RxCount
  BY <1>5 DEF RxCount
<1>6. CASE RxDamaged
  BY <1>6 DEF RxDamaged
<1>7. CASE ZnpAnswer
  <2>1. Head(downlink) \in Request /\ Tail(downlink) \in Seq(Request)
    BY <1>7 DEF ZnpAnswer
  <2>2. [type |-> "SRSP", id |-> Head(downlink).id,
         sys |-> Head(downlink).sys] \in Frame
    BY <2>1 DEF Frame, Request
  <2>3. uplink' \in Seq(Frame)
    BY <1>7, <2>2 DEF ZnpAnswer
  <2> QED
    BY <1>7, <2>1, <2>3 DEF ZnpAnswer
<1>8. CASE ZnpIndicate
  BY <1>8 DEF ZnpIndicate, Frame
<1> QED
  BY <1>1, <1>2, <1>3, <1>4, <1>5, <1>6, <1>7, <1>8 DEF Rx, Znp

LEMMA TypeNext == TypeOK /\ [Next]_vars => TypeOK'
<1> SUFFICES ASSUME TypeOK, [Next]_vars PROVE TypeOK'
  OBVIOUS
<1>1. CASE UNCHANGED vars
  BY <1>1 DEF vars, TypeOK
<1> QED
  BY <1>1, TypeStart, TypeSend, TypeReceive, TypeRest DEF Next

(* Type correctness of the request / response protocol.                    *)
THEOREM RpcTypeOK == Spec => []TypeOK
  BY TypeInit, TypeNext, PTL DEF Spec
-----------------------------------------------------------------------------
(* The steps between Expect and Clear belong to an SREQ.                   *)
SreqSteps ==
  \A t \in Threads :
    pc[t] \in {"expect", "await", "clear"} => req[t].type = "SREQ"

ExchangeInv == SendExclusion /\ ExpectedMatchesFlight /\ SreqSteps

LEMMA ExchangeInit == Init => ExchangeInv
  BY DEF Init, ExchangeInv, SendExclusion, ExpectedMatchesFlight, SreqSteps,
         InSection, InFlight

(* What a step of a thread outside the section has to leave alone.         *)
LEMMA ExchangeFrame ==
  ASSUME TypeOK, ExchangeInv, NEW t \in Threads, ~InSection(t),
         UNCHANGED <<rpcSem, expectedSrspCmdId>>,
         \A u \in Threads \ {t} : pc'[u] = pc[u] /\ req'[u] = req[u],
         pc'[t] \in {"idle", "lock", "recv", "take", "status"}
  PROVE  ExchangeInv'
  BY DEF TypeOK, ExchangeInv, SendExclusion, ExpectedMatchesFlight, SreqSteps,
         InSection, InFlight

(* Return goes to "idle" or to "status" and touches only its own thread.   *)
LEMMA ReturnFrame ==
  ASSUME TypeOK, NEW t \in Threads, Return(t)
  PROVE  /\ \A u \in Threads \ {t} : pc'[u] = pc[u] /\ req'[u] = req[u]
         /\ pc'[t] \in {"idle", "status"}
<1>1. CASE outer[t] = <<>>
  BY <1>1 DEF Return, Goto, TypeOK
<1>2. CASE outer[t] # <<>>
  BY <1>2 DEF Return, Goto, TypeOK
<1> QED
  BY <1>1, <1>2

LEMMA ExchangeSend ==
  ASSUME TypeOK, ExchangeInv, NEW t \in Threads, Send(t)
  PROVE  ExchangeInv'
<1> USE DEF TypeOK, ExchangeInv, SendExclusion, ExpectedMatchesFlight, SreqSteps,
            InSection, InFlight, Goto, semVars
<1>1. CASE Lock(t)
  BY <1>1 DEF Lock
<1>2. CASE Expect(t)
  BY <1>2 DEF Expect
<1>3. CASE Write(t)
  BY <1>3 DEF Write
<1>4. CASE Wake(t)
  BY <1>4 DEF Wake
<1>5. CASE SrspTimeout(t)
  BY <1>5 DEF SrspTimeout
<1>6. CASE Clear(t)
  BY <1>6 DEF Clear
<1>7. CASE Unlock(t)
  <2>1. /\ \A u \in Threads \ {t} : pc'[u] = pc[u] /\ req'[u] = req[u]
        /\ pc'[t] \in {"idle", "recv", "status"}
    <3>1. CASE status[t] = "SUCCESS"
      BY <1>7, <3>1 DEF Unlock
    <3>2. CASE status[t] # "SUCCESS"
      <4>1. Return(t)
        BY <1>7, <3>2 DEF Unlock
      <4> QED
        BY <4>1, ReturnFrame
    <3> QED
      BY <3>1, <3>2
  <2>2. /\ pc[t] = "unlock" /\ rpcSem' = 1
        /\ expectedSrspCmdId' = expectedSrspCmdId
    BY <1>7 DEF Unlock
  <2>3. \A u \in Threads : pc'[u] \notin {"expect", "write", "await", "clear",
                                         "unlock"}
    BY <2>1, <2>2
  <2>4. \A u \in Threads : ~InFlight(u) /\ ~InFlight(u)'
    BY <2>2, <2>3
  <2>5. SendExclusion'
    BY <2>2, <2>3
  <2>6. ExpectedMatchesFlight'
    BY <2>2, <2>4
  <2> QED
    BY <2>3, <2>5, <2>6
<1> QED
  BY <1>1, <1>2, <1>3, <1>4, <1>5, <1>6, <1>7 DEF Send

LEMMA ExchangeReceive ==
  ASSUME TypeOK, ExchangeInv, NEW t \in Threads, Receive(t) \/ Start(t)
  PROVE  ExchangeInv'
<1> USE DEF TypeOK, Goto, semVars, InSection
<1>1. CASE RecvToken(t)
  BY <1>1, ExchangeFrame DEF RecvToken
<1>2. CASE RecvTimeout(t)
  BY <1>2, ExchangeFrame DEF RecvTimeout
<1>3. CASE ProcessSrsp(t)
  BY <1>3, ExchangeFrame DEF ProcessSrsp
<1>4. CASE ProcessAreq(t)
  BY <1>4, ExchangeFrame DEF ProcessAreq
<1>5. ASSUME NEW s \in Subsystems, ProcessAreqNested(t, s)
      PROVE  ExchangeInv'
  BY <1>5, ExchangeFrame DEF ProcessAreqNested, Begin
<1>6. CASE ReadStatus(t)
  BY <1>6, ReturnFrame, ExchangeFrame DEF ReadStatus
<1>7. ASSUME NEW type \in {"SREQ", "AREQ"}, NEW s \in Subsystems,
             CallStart(t, type, s)
      PROVE  ExchangeInv'
  BY <1>7, ExchangeFrame DEF CallStart, Begin
<1>8. CASE PollStart(t)
  BY <1>8, ExchangeFrame DEF PollStart
<1> QED
  BY <1>1, <1>2, <1>3, <1>4, <1>5, <1>6, <1>7, <1>8 DEF Receive, Start

LEMMA ExchangeNext == TypeOK /\ ExchangeInv /\ [Next]_vars => ExchangeInv'
<1> SUFFICES ASSUME TypeOK, ExchangeInv, [Next]_vars PROVE ExchangeInv'
  OBVIOUS
<1>1. CASE InitDone \/ Rx \/ Znp \/ UNCHANGED vars
  <2>1. UNCHANGED <<rpcSem, expectedSrspCmdId, pc, req>>
    BY <1>1 DEF InitDone, Rx, Znp, RxFrame, RxPost, RxInsert, RxCount, RxDamaged,
                ZnpAnswer, ZnpIndicate, vars, semVars, threadVars
  <2>2. SendExclusion'
    BY <2>1 DEF ExchangeInv, SendExclusion, InSection
  <2>3. ExpectedMatchesFlight'
    BY <2>1 DEF ExchangeInv, ExpectedMatchesFlight, InFlight
  <2>4. SreqSteps'
    BY <2>1 DEF ExchangeInv, SreqSteps
  <2> QED
    BY <2>2, <2>3, <2>4 DEF ExchangeInv
<1> QED
  BY <1>1, ExchangeSend, ExchangeReceive DEF Next

(* At most one thread is between sem_wait(&rpcSem) and sem_post(&rpcSem),  *)
(* and the semaphore is free exactly when there is none.                   *)
THEOREM RpcSendExclusion == Spec => []SendExclusion
<1>1. Spec => []ExchangeInv
  BY ExchangeInit, ExchangeNext, RpcTypeOK, PTL DEF Spec
<1>2. ExchangeInv => SendExclusion
  BY DEF ExchangeInv
<1> QED
  BY <1>1, <1>2, PTL

(* The Rx thread accepts SRSPs of the subsystem of the request in flight   *)
(* and of no other, and none while nothing is in flight.                   *)
THEOREM RpcExpectedMatchesFlight == Spec => []ExpectedMatchesFlight
<1>1. Spec => []ExchangeInv
  BY ExchangeInit, ExchangeNext, RpcTypeOK, PTL DEF Spec
<1>2. ExchangeInv => ExpectedMatchesFlight
  BY DEF ExchangeInv
<1> QED
  BY <1>1, <1>2, PTL

-----------------------------------------------------------------------------
(* An SRSP overtakes every AREQ that waits in the queue.                   *)
AnswersFirst ==
  \A i, j \in 1..Len(queue) :
    queue[i].type = "AREQ" /\ queue[j].type = "SRSP" => j < i

LEMMA AnswersFirstNext == TypeOK /\ AnswersFirst /\ [Next]_vars => AnswersFirst'
<1> SUFFICES ASSUME TypeOK, AnswersFirst, [Next]_vars PROVE AnswersFirst'
  OBVIOUS
<1>1. queue \in Seq(Frame)
  BY DEF TypeOK
<1>2. CASE UNCHANGED queue
  BY <1>2 DEF AnswersFirst
<1>3. CASE queue # <<>> /\ queue' = Tail(queue)
  BY <1>1, <1>3 DEF AnswersFirst
<1>4. CASE RxInsert
  <2>1. CASE rxMsg.type = "SRSP"
    <3>1. queue' = <<rxMsg>> \o queue
      BY <1>4, <2>1 DEF RxInsert
    <3>2. /\ Len(queue') = Len(queue) + 1
          /\ queue'[1] = rxMsg
          /\ \A i \in 2..Len(queue') : queue'[i] = queue[i - 1]
      BY <1>1, <3>1
    <3>3. ASSUME NEW i \in 1..Len(queue'), NEW j \in 1..Len(queue'),
                 queue'[i].type = "AREQ", queue'[j].type = "SRSP"
          PROVE  j < i
      <4>1. i # 1
        BY <2>1, <3>2, <3>3
      <4>2. CASE j = 1
        BY <4>1, <4>2
      <4>3. CASE j # 1
        <5>1. /\ i - 1 \in 1..Len(queue) /\ queue[i - 1].type = "AREQ"
              /\ j - 1 \in 1..Len(queue) /\ queue[j - 1].type = "SRSP"
          BY <1>1, <3>2, <3>3, <4>1, <4>3
        <5>2. j - 1 < i - 1
          BY <5>1 DEF AnswersFirst
        <5> QED
          BY <5>2
      <4> QED
        BY <4>2, <4>3
    <3> QED
      BY <3>3 DEF AnswersFirst
  <2>2. CASE rxMsg.type # "SRSP"
    BY <1>1, <1>4, <2>2 DEF RxInsert, AnswersFirst, TypeOK
  <2> QED
    BY <2>1, <2>2
<1>5. UNCHANGED queue \/ (queue # <<>> /\ queue' = Tail(queue)) \/ RxInsert
  BY DEF Next, Send, Receive, Start, Rx, Znp, vars, queueVars,
         Lock, Expect, Write, Wake, SrspTimeout, Clear, Unlock,
         RecvToken, RecvTimeout, ProcessSrsp, ProcessAreq, ProcessAreqNested,
         ReadStatus, CallStart, PollStart, InitDone,
         RxFrame, RxPost, RxCount, RxDamaged, ZnpAnswer, ZnpIndicate
<1> QED
  BY <1>2, <1>3, <1>4, <1>5

(* In the queue every SRSP is in front of every AREQ.                      *)
THEOREM RpcAnswersFirst == Spec => []AnswersFirst
<1>1. Init => AnswersFirst
  BY DEF Init, AnswersFirst
<1> QED
  BY <1>1, AnswersFirstNext, RpcTypeOK, PTL DEF Spec

-----------------------------------------------------------------------------
(* What follows needs the contents of the UART: indications keep their     *)
(* order on the way to the queue, and a sender is woken by its own response*)
(* as long as none came too late.                                          *)

(* The AREQs under way carry the numbers of those that were sent, and the  *)
(* Rx thread posts srspSem for nothing but an SRSP.                        *)
Numbered ==
  /\ AllBelow(queue, inds + 1) /\ AllBelow(uplink, inds + 1)
  /\ rxPc = "insert" /\ rxMsg.type = "AREQ" => rxMsg.id < inds + 1
  /\ rxPc = "post" => rxMsg.type = "SRSP"

OrderInv == IndicationsInOrder /\ Numbered

LEMMA OrderInit == Init => OrderInv
  BY DEF Init, OrderInv, IndicationsInOrder, Numbered, Rising, AllBelow, AllAbove

(* The steps that touch neither the queue nor the UART.                    *)
LEMMA OrderFrame ==
  ASSUME OrderInv, UNCHANGED <<queue, uplink, rxPc, rxMsg, inds>>
  PROVE  OrderInv'
  BY DEF OrderInv, IndicationsInOrder, Numbered, Rising, AllBelow, AllAbove

(* A thread takes the first message.                                       *)
LEMMA OrderTake ==
  ASSUME TypeOK, OrderInv, queue # <<>>, queue' = Tail(queue),
         UNCHANGED <<uplink, rxPc, rxMsg, inds>>
  PROVE  OrderInv'
<1>1. /\ queue \in Seq(Frame)
      /\ Len(queue') = Len(queue) - 1
      /\ \A i \in 1..Len(queue') : i + 1 \in 1..Len(queue) /\ queue'[i] = queue[i + 1]
  BY DEF TypeOK
<1> HIDE DEF TypeOK
<1>2. Rising(queue)'
  <2> SUFFICES ASSUME NEW i \in 1..Len(queue'), NEW j \in 1..Len(queue'), i < j,
                      queue'[i].type = "AREQ", queue'[j].type = "AREQ"
               PROVE  queue'[i].id < queue'[j].id
    BY DEF Rising
  <2>1. /\ i + 1 \in 1..Len(queue) /\ queue'[i] = queue[i + 1]
        /\ j + 1 \in 1..Len(queue) /\ queue'[j] = queue[j + 1]
        /\ i + 1 < j + 1
    BY <1>1
  <2> QED
    BY <2>1 DEF OrderInv, IndicationsInOrder, Rising
<1>3. \A n : AllBelow(queue, n) => AllBelow(queue', n)
  BY <1>1 DEF AllBelow
<1>4. \A i \in 1..Len(queue') : queue'[i].type = "AREQ" => AllAbove(uplink, queue'[i].id)
  BY <1>1 DEF OrderInv, IndicationsInOrder
<1>5. UNCHANGED <<uplink, rxPc, rxMsg, inds>>
  OBVIOUS
<1>6. Numbered'
  BY <1>3, <1>5 DEF OrderInv, Numbered
<1>7. IndicationsInOrder'
  BY <1>2, <1>3, <1>4, <1>5 DEF OrderInv, IndicationsInOrder
<1> QED
  BY <1>6, <1>7 DEF OrderInv

LEMMA OrderRxFrame ==
  ASSUME TypeOK, OrderInv, uplink # <<>>, uplink' = Tail(uplink),
         UNCHANGED <<queue, inds>>,
         \/ rxMsg' = Head(uplink) /\ rxPc' \in {"read", "post", "insert"}
            /\ (rxPc' = "post" => Head(uplink).type = "SRSP")
         \/ rxPc' = "read"
  PROVE  OrderInv'
<1>1. /\ uplink \in Seq(Frame)
      /\ Len(uplink') = Len(uplink) - 1
      /\ \A i \in 1..Len(uplink') : i + 1 \in 1..Len(uplink) /\ uplink'[i] = uplink[i + 1]
      /\ 1 \in 1..Len(uplink) /\ Head(uplink) = uplink[1]
  BY DEF TypeOK
<1>2. /\ Rising(uplink)
      /\ \A i \in 1..Len(queue) : queue[i].type = "AREQ" => AllAbove(uplink, queue[i].id)
      /\ Rising(queue)
      /\ AllBelow(queue, inds + 1) /\ AllBelow(uplink, inds + 1)
  BY DEF OrderInv, IndicationsInOrder, Numbered
<1>3. Rising(uplink)'
  <2> SUFFICES ASSUME NEW i \in 1..Len(uplink'), NEW j \in 1..Len(uplink'), i < j,
                      uplink'[i].type = "AREQ", uplink'[j].type = "AREQ"
               PROVE  uplink'[i].id < uplink'[j].id
    BY DEF Rising
  <2>1. /\ i + 1 \in 1..Len(uplink) /\ uplink'[i] = uplink[i + 1]
        /\ j + 1 \in 1..Len(uplink) /\ uplink'[j] = uplink[j + 1]
        /\ i + 1 < j + 1
    BY <1>1
  <2> QED
    BY <1>2, <2>1 DEF Rising
<1>4. \A n : AllBelow(uplink, n) => AllBelow(uplink', n)
  BY <1>1 DEF AllBelow
<1>5. \A n : AllAbove(uplink, n) => AllAbove(uplink', n)
  BY <1>1 DEF AllAbove
<1>6. Head(uplink).type = "AREQ" =>
        /\ AllBelow(queue, Head(uplink).id)
        /\ AllAbove(uplink', Head(uplink).id)
        /\ Head(uplink).id < inds + 1
  <2> SUFFICES ASSUME Head(uplink).type = "AREQ"
               PROVE  /\ AllBelow(queue, Head(uplink).id)
                      /\ AllAbove(uplink', Head(uplink).id)
                      /\ Head(uplink).id < inds + 1
    OBVIOUS
  <2>1. AllBelow(queue, Head(uplink).id)
    BY <1>1, <1>2 DEF AllBelow, AllAbove
  <2>2. AllAbove(uplink', Head(uplink).id)
    <3> SUFFICES ASSUME NEW i \in 1..Len(uplink'), uplink'[i].type = "AREQ"
                 PROVE  Head(uplink).id < uplink'[i].id
      BY DEF AllAbove
    <3>1. i + 1 \in 1..Len(uplink) /\ uplink'[i] = uplink[i + 1] /\ 1 < i + 1
      BY <1>1
    <3> QED
      BY <1>1, <1>2, <3>1 DEF Rising
  <2>3. Head(uplink).id < inds + 1
    BY <1>1, <1>2 DEF AllBelow
  <2> QED
    BY <2>1, <2>2, <2>3
<1>7. /\ rxPc' = "insert" /\ rxMsg'.type = "AREQ" =>
           /\ AllBelow(queue, rxMsg'.id) /\ AllAbove(uplink', rxMsg'.id)
           /\ rxMsg'.id < inds + 1
      /\ rxPc' = "post" => rxMsg'.type = "SRSP"
  BY <1>6
<1>8. UNCHANGED <<queue, inds>>
  OBVIOUS
<1>9. IndicationsInOrder'
  BY <1>2, <1>3, <1>5, <1>7, <1>8 DEF IndicationsInOrder
<1>10. Numbered'
  BY <1>2, <1>4, <1>7, <1>8 DEF Numbered
<1> QED
  BY <1>9, <1>10 DEF OrderInv

LEMMA OrderRxInsert ==
  ASSUME TypeOK, OrderInv, RxInsert
  PROVE  OrderInv'
<1>1. queue \in Seq(Frame) /\ rxMsg \in Frame
  BY DEF TypeOK
<1>2. /\ Rising(queue) /\ Rising(uplink)
      /\ \A i \in 1..Len(queue) : queue[i].type = "AREQ" => AllAbove(uplink, queue[i].id)
      /\ rxMsg.type = "AREQ" => /\ AllBelow(queue, rxMsg.id)
                                /\ AllAbove(uplink, rxMsg.id)
                                /\ rxMsg.id < inds + 1
      /\ AllBelow(queue, inds + 1) /\ AllBelow(uplink, inds + 1)
  BY DEF RxInsert, OrderInv, IndicationsInOrder, Numbered
<1>3. UNCHANGED <<uplink, inds>> /\ rxPc' = "count"
  BY DEF RxInsert, znpVars
<1>4. /\ Rising(queue')
      /\ \A i \in 1..Len(queue') : queue'[i].type = "AREQ" => AllAbove(uplink, queue'[i].id)
      /\ AllBelow(queue', inds + 1)
  <2>1. CASE rxMsg.type = "SRSP"
    <3>1. /\ Len(queue') = Len(queue) + 1 /\ queue'[1] = rxMsg
          /\ \A i \in 2..Len(queue') : i - 1 \in 1..Len(queue) /\ queue'[i] = queue[i - 1]
      BY <1>1, <2>1 DEF RxInsert
    <3>2. \A i \in 1..Len(queue') : queue'[i].type = "AREQ" =>
             i - 1 \in 1..Len(queue) /\ queue'[i] = queue[i - 1]
      BY <1>1, <2>1, <3>1
    <3>3. Rising(queue')
      <4> SUFFICES ASSUME NEW i \in 1..Len(queue'), NEW j \in 1..Len(queue'), i < j,
                          queue'[i].type = "AREQ", queue'[j].type = "AREQ"
                   PROVE  queue'[i].id < queue'[j].id
        BY DEF Rising
      <4>1. i - 1 < j - 1
        BY <1>1, <3>1
      <4> QED
        BY <1>2, <3>2, <4>1 DEF Rising
    <3> QED
      BY <1>2, <3>2, <3>3 DEF AllBelow
  <2>2. CASE rxMsg.type # "SRSP"
    <3>1. rxMsg.type = "AREQ"
      BY <1>1, <2>2 DEF Frame
    <3>2. /\ Len(queue') = Len(queue) + 1 /\ queue'[Len(queue) + 1] = rxMsg
          /\ \A i \in 1..Len(queue) : queue'[i] = queue[i]
      BY <1>1, <2>2 DEF RxInsert
    <3>3. \A i \in 1..Len(queue') : i \in 1..Len(queue) \/ i = Len(queue) + 1
      BY <1>1, <3>2
    <3>4. Rising(queue')
      <4> SUFFICES ASSUME NEW i \in 1..Len(queue'), NEW j \in 1..Len(queue'), i < j,
                          queue'[i].type = "AREQ", queue'[j].type = "AREQ"
                   PROVE  queue'[i].id < queue'[j].id
        BY DEF Rising
      <4>1. i \in 1..Len(queue)
        BY <1>1, <3>2, <3>3
      <4> QED
        BY <1>2, <3>1, <3>2, <3>3, <4>1 DEF Rising, AllBelow
    <3> QED
      BY <1>2, <3>1, <3>2, <3>3, <3>4 DEF AllBelow
  <2> QED
    BY <2>1, <2>2
<1> QED
  BY <1>2, <1>3, <1>4 DEF OrderInv, IndicationsInOrder, Numbered

(* The ZNP adds an SRSP, or the next AREQ, behind what is on the UART.     *)
LEMMA OrderZnp ==
  ASSUME TypeOK, OrderInv, NEW f \in Frame, uplink' = Append(uplink, f),
         \/ f.type = "SRSP" /\ inds' = inds
         \/ f.type = "AREQ" /\ f.id = inds + 1 /\ inds' = inds + 1,
         UNCHANGED <<queue, rxPc, rxMsg>>
  PROVE  OrderInv'
<1>1. uplink \in Seq(Frame) /\ queue \in Seq(Frame) /\ rxMsg \in Frame /\ inds \in Nat
  BY DEF TypeOK
<1>2. /\ Len(uplink') = Len(uplink) + 1 /\ uplink'[Len(uplink) + 1] = f
      /\ \A i \in 1..Len(uplink) : uplink'[i] = uplink[i] /\ uplink[i].id \in Nat
      /\ \A i \in 1..Len(uplink') : i \in 1..Len(uplink) \/ i = Len(uplink) + 1
      /\ \A i \in 1..Len(queue) : queue[i].id \in Nat
      /\ rxMsg.id \in Nat
  <2>1. \A g \in Frame : g.id \in Nat
    BY DEF Frame
  <2>2. \A i \in 1..Len(uplink) : uplink[i] \in Frame
    BY <1>1
  <2>3. \A i \in 1..Len(queue) : queue[i] \in Frame
    BY <1>1
  <2>4. /\ Len(uplink') = Len(uplink) + 1 /\ uplink'[Len(uplink) + 1] = f
        /\ \A i \in 1..Len(uplink) : uplink'[i] = uplink[i]
        /\ \A i \in 1..Len(uplink') : i \in 1..Len(uplink) \/ i = Len(uplink) + 1
    BY <1>1
  <2> QED
    BY <1>1, <2>1, <2>2, <2>3, <2>4
<1>3. UNCHANGED <<queue, rxPc, rxMsg>> /\ inds' \in {inds, inds + 1}
  OBVIOUS
<1>4. \A n \in Nat : n < inds + 1 /\ AllAbove(uplink, n) => AllAbove(uplink', n)
  BY <1>1, <1>2 DEF AllAbove
<1>5. Rising(uplink')
  <2> SUFFICES ASSUME NEW i \in 1..Len(uplink'), NEW j \in 1..Len(uplink'), i < j,
                      uplink'[i].type = "AREQ", uplink'[j].type = "AREQ"
               PROVE  uplink'[i].id < uplink'[j].id
    BY DEF Rising
  <2>1. i \in 1..Len(uplink) /\ uplink'[i] = uplink[i]
    BY <1>1, <1>2
  <2>2. uplink[i].id < inds + 1
    BY <2>1 DEF OrderInv, Numbered, AllBelow
  <2>3. CASE j \in 1..Len(uplink)
    BY <1>2, <2>1, <2>3 DEF OrderInv, IndicationsInOrder, Rising
  <2>4. CASE j = Len(uplink) + 1
    BY <1>2, <2>1, <2>2, <2>4
  <2> QED
    BY <1>2, <2>3, <2>4
<1>6. AllBelow(uplink', inds' + 1) /\ AllBelow(queue, inds' + 1)
  BY <1>1, <1>2, <1>3 DEF OrderInv, Numbered, AllBelow
<1>7. \A i \in 1..Len(queue) : queue[i].type = "AREQ" => AllAbove(uplink', queue[i].id)
  BY <1>2, <1>4 DEF OrderInv, IndicationsInOrder, Numbered, AllBelow
<1>8. rxPc = "insert" /\ rxMsg.type = "AREQ" =>
         AllBelow(queue, rxMsg.id) /\ AllAbove(uplink', rxMsg.id)
  BY <1>2, <1>4 DEF OrderInv, IndicationsInOrder, Numbered
<1>9. IndicationsInOrder'
  BY <1>3, <1>5, <1>7, <1>8 DEF OrderInv, IndicationsInOrder
<1>10. Numbered'
  BY <1>1, <1>2, <1>3, <1>6 DEF OrderInv, Numbered
<1> QED
  BY <1>9, <1>10 DEF OrderInv

LEMMA OrderNext == TypeOK /\ OrderInv /\ [Next]_vars => OrderInv'
<1> SUFFICES ASSUME TypeOK, OrderInv, [Next]_vars PROVE OrderInv'
  OBVIOUS
<1>1. CASE UNCHANGED vars
  BY <1>1, OrderFrame DEF vars
<1>2. ASSUME NEW t \in Threads, Send(t) \/ Receive(t) \/ Start(t)
      PROVE  OrderInv'
  <2>1. \/ UNCHANGED <<queue, uplink, rxPc, rxMsg, inds>>
        \/ /\ queue # <<>> /\ queue' = Tail(queue)
           /\ UNCHANGED <<uplink, rxPc, rxMsg, inds>>
    BY <1>2 DEF Send, Receive, Start, Lock, Expect, Write, Wake, SrspTimeout,
                Clear, Unlock, RecvToken, RecvTimeout, ProcessSrsp, ProcessAreq,
                ProcessAreqNested, ReadStatus, CallStart, PollStart, queueVars,
                rxVars, znpVars
  <2> QED
    BY <2>1, OrderFrame, OrderTake
<1>3. CASE InitDone
  BY <1>3, OrderFrame DEF InitDone, queueVars, rxVars, znpVars
<1>4. CASE RxFrame
  <2>1. Head(uplink) \in Frame
    BY <1>4 DEF RxFrame, TypeOK
  <2>2. Head(uplink).type \in {"SRSP", "AREQ"}
    BY <2>1 DEF Frame
  <2> QED
    BY <1>4, <2>2, OrderRxFrame DEF RxFrame, queueVars
<1>5. CASE RxDamaged
  BY <1>5, OrderRxFrame DEF RxDamaged, queueVars, rxVars
<1>6. CASE RxPost
  <2>1. rxMsg.type = "SRSP"
    BY <1>6 DEF RxPost, OrderInv, Numbered
  <2> QED
    BY <1>6, <2>1 DEF RxPost, queueVars, znpVars, OrderInv, IndicationsInOrder,
                     Numbered, Rising, AllBelow, AllAbove
<1>7. CASE RxInsert
  BY <1>7, OrderRxInsert
<1>8. CASE RxCount
  BY <1>8 DEF RxCount, znpVars, OrderInv, IndicationsInOrder, Numbered,
              Rising, AllBelow, AllAbove
<1>9. CASE ZnpAnswer
  <2>1. CASE Head(downlink).type = "SREQ"
    <3> DEFINE f == [type |-> "SRSP", id |-> Head(downlink).id,
                     sys |-> Head(downlink).sys]
    <3>1. Head(downlink) \in Request
      BY <1>9 DEF ZnpAnswer, TypeOK
    <3>2. f \in Frame /\ f.type = "SRSP"
      BY <3>1 DEF Frame, Request
    <3>3. uplink' = Append(uplink, f) /\ UNCHANGED <<queue, rxPc, rxMsg, inds>>
      BY <1>9, <2>1 DEF ZnpAnswer, queueVars, rxVars
    <3> HIDE DEF f
    <3> QED
      BY <3>2, <3>3, OrderZnp
  <2>2. CASE Head(downlink).type # "SREQ"
    BY <1>9, <2>2, OrderFrame DEF ZnpAnswer, queueVars, rxVars
  <2> QED
    BY <2>1, <2>2
<1>10. CASE ZnpIndicate
  <2> DEFINE f == [type |-> "AREQ", sys |-> NoSys, id |-> inds + 1]
  <2>1. f \in Frame /\ f.type = "AREQ" /\ f.id = inds + 1
    BY DEF Frame, TypeOK
  <2>2. uplink' = Append(uplink, f) /\ UNCHANGED <<queue, rxPc, rxMsg>>
        /\ inds' = inds + 1
    BY <1>10 DEF ZnpIndicate, queueVars, rxVars
  <2> HIDE DEF f
  <2> QED
    BY <2>1, <2>2, OrderZnp
<1> QED
  BY <1>1, <1>2, <1>3, <1>4, <1>5, <1>6, <1>7, <1>8, <1>9, <1>10 DEF Next, Rx, Znp

(* AREQs reach the queue in the order they were sent, each once, for any   *)
(* number of them and whatever else is sent and lost in between.           *)
THEOREM RpcIndicationsInOrder == Spec => []IndicationsInOrder
<1>1. Spec => []OrderInv
  BY OrderInit, OrderNext, RpcTypeOK, PTL DEF Spec
<1>2. OrderInv => IndicationsInOrder
  BY DEF OrderInv
<1> QED
  BY <1>1, <1>2, PTL
-----------------------------------------------------------------------------
(* No two calls share a number, as far as it matters: that of a call which *)
(* is still being sent is nobody else's, suspended calls included.         *)
Sending(t) == pc[t] \in {"lock", "expect", "write", "await"}
Fresh ==
  /\ \A t \in Threads : req[t].id <= calls
  /\ \A t \in Threads : \A i \in 1..Len(outer[t]) : outer[t][i].id <= calls
  /\ \A t, u \in Threads : Sending(t) /\ u # t =>
       /\ 0 < req[t].id /\ req[u].id # req[t].id
       /\ \A i \in 1..Len(outer[u]) : outer[u][i].id # req[t].id

LEMMA FreshInit == Init => Fresh
  BY DEF Init, Fresh, Sending, Poll

(* A thread that does not begin to send only changes its step.             *)
LEMMA FreshFrame ==
  ASSUME Fresh, UNCHANGED <<req, outer, calls>>,
         \A t \in Threads : Sending(t)' => Sending(t)
  PROVE  Fresh'
  BY DEF Fresh

LEMMA FreshReturn ==
  ASSUME TypeOK, Fresh, NEW t \in Threads, Return(t), UNCHANGED calls
  PROVE  Fresh'
<1>1. CASE outer[t] = <<>>
  <2>1. UNCHANGED <<req, outer, calls>> /\ \A u \in Threads : Sending(u)' => Sending(u)
    BY <1>1 DEF Return, Goto, Sending, TypeOK
  <2> QED
    BY <2>1, FreshFrame
<1>2. CASE outer[t] # <<>>
  <2>1. outer[t] \in Seq(Request)
    BY DEF TypeOK
  <2>2. /\ 1 \in 1..Len(outer[t]) /\ req'[t] = outer[t][1]
        /\ \A u \in Threads \ {t} : req'[u] = req[u] /\ outer'[u] = outer[u]
                                    /\ pc'[u] = pc[u]
        /\ pc'[t] = "status" /\ outer'[t] = Tail(outer[t])
    BY <1>2, <2>1 DEF Return, Goto, TypeOK
  <2>3. \A i \in 1..Len(outer'[t]) :
          i + 1 \in 1..Len(outer[t]) /\ outer'[t][i] = outer[t][i + 1]
    BY <1>2, <2>1, <2>2
  <2>4. \A u \in Threads : Sending(u)' => u # t /\ Sending(u)
    BY <2>2 DEF Sending
  <2>5. ASSUME NEW u \in Threads
        PROVE  /\ req'[u].id <= calls
               /\ \A i \in 1..Len(outer'[u]) : outer'[u][i].id <= calls
    <3>1. CASE u = t
      BY <2>2, <2>3, <3>1 DEF Fresh
    <3>2. CASE u # t
      BY <2>2, <3>2 DEF Fresh
    <3> QED
      BY <3>1, <3>2
  <2>6. ASSUME NEW v \in Threads, NEW u \in Threads, Sending(v)', u # v
        PROVE  /\ 0 < req'[v].id /\ req'[u].id # req'[v].id
               /\ \A i \in 1..Len(outer'[u]) : outer'[u][i].id # req'[v].id
    <3>1. v # t /\ Sending(v) /\ req'[v] = req[v]
      BY <2>2, <2>4, <2>6
    <3>2. /\ 0 < req[v].id /\ req[u].id # req[v].id
          /\ \A i \in 1..Len(outer[u]) : outer[u][i].id # req[v].id
      BY <2>6, <3>1 DEF Fresh
    <3>3. CASE u = t
      BY <2>2, <2>3, <3>1, <3>2, <3>3
    <3>4. CASE u # t
      BY <2>2, <3>1, <3>2, <3>4
    <3> QED
      BY <3>3, <3>4
  <2>7. UNCHANGED calls
    OBVIOUS
  <2> QED
    BY <2>5, <2>6, <2>7 DEF Fresh
<1> QED
  BY <1>1, <1>2

(* A new call, whether or not it suspends another.                         *)
LEMMA FreshBegin ==
  ASSUME TypeOK, Fresh, NEW t \in Threads, NEW type, NEW s,
         Begin(t, NewRequest(type, s)), ~Sending(t),
         outer' \in {outer, [outer EXCEPT ![t] = <<req[t]>> \o outer[t]]}
  PROVE  Fresh'
<1>1. /\ calls \in Nat /\ calls' = calls + 1
      /\ req'[t].id = calls + 1
      /\ \A u \in Threads \ {t} : req'[u] = req[u] /\ outer'[u] = outer[u]
                                  /\ pc'[u] = pc[u]
  BY DEF Begin, NewRequest, Goto, TypeOK
<1>2. \A u \in Threads : req[u].id \in Nat
  BY DEF TypeOK, Request
<1>3. \A u \in Threads : \A i \in 1..Len(outer[u]) : outer[u][i].id \in Nat
  <2> SUFFICES ASSUME NEW u \in Threads, NEW i \in 1..Len(outer[u])
               PROVE  outer[u][i].id \in Nat
    OBVIOUS
  <2>1. outer[u] \in Seq(Request)
    BY DEF TypeOK
  <2>2. outer[u][i] \in Request
    BY <2>1
  <2> QED
    BY <2>2 DEF Request
<1>4. \A i \in 1..Len(outer'[t]) :
        outer'[t][i] = req[t]
        \/ \E j \in 1..Len(outer[t]) : outer'[t][i] = outer[t][j]
  <2>1. outer[t] \in Seq(Request) /\ t \in DOMAIN outer
    BY DEF TypeOK
  <2>2. CASE outer' = outer
    BY <2>2
  <2>3. CASE outer' = [outer EXCEPT ![t] = <<req[t]>> \o outer[t]]
    <3>1. outer'[t] = <<req[t]>> \o outer[t]
      BY <2>1, <2>3
    <3>2. \A i \in 1..Len(outer'[t]) :
            \/ i = 1 /\ outer'[t][i] = req[t]
            \/ i - 1 \in 1..Len(outer[t]) /\ outer'[t][i] = outer[t][i - 1]
      BY <2>1, <3>1
    <3> QED
      BY <3>2
  <2> QED
    BY <2>2, <2>3
<1>5. /\ \A u \in Threads : req'[u].id <= calls'
      /\ \A u \in Threads : \A i \in 1..Len(outer'[u]) : outer'[u][i].id <= calls'
  <2>1. \A u \in Threads : req[u].id <= calls
    BY DEF Fresh
  <2>2. \A u \in Threads : \A i \in 1..Len(outer[u]) : outer[u][i].id <= calls
    BY DEF Fresh
  <2>3. \A u \in Threads : req'[u].id <= calls'
    BY <1>1, <1>2, <2>1
  <2>4. ASSUME NEW u \in Threads, NEW i \in 1..Len(outer'[u])
        PROVE  outer'[u][i].id <= calls /\ outer'[u][i].id \in Nat
    <3>1. CASE u = t
      BY <1>2, <1>3, <1>4, <2>1, <2>2, <2>4, <3>1
    <3>2. CASE u # t
      BY <1>1, <1>3, <2>2, <2>4, <3>2
    <3> QED
      BY <3>1, <3>2
  <2> QED
    BY <1>1, <2>3, <2>4
<1>6. ASSUME NEW v \in Threads, NEW u \in Threads, Sending(v)', u # v
      PROVE  /\ 0 < req'[v].id /\ req'[u].id # req'[v].id
             /\ \A i \in 1..Len(outer'[u]) : outer'[u][i].id # req'[v].id
  <2>1. CASE v = t
    <3>1. req'[u].id <= calls /\ \A i \in 1..Len(outer'[u]) : outer'[u][i].id <= calls
      BY <1>1, <1>6, <2>1 DEF Fresh
    <3> QED
      BY <1>1, <1>2, <1>3, <1>6, <2>1, <3>1
  <2>2. CASE v # t
    <3>1. Sending(v) /\ req'[v] = req[v]
      BY <1>1, <1>6, <2>2 DEF Sending
    <3>2. 0 < req[v].id /\ req[u].id # req[v].id /\ req[v].id <= calls
          /\ \A i \in 1..Len(outer[u]) : outer[u][i].id # req[v].id
      BY <1>6, <3>1 DEF Fresh
    <3>3. CASE u = t
      <4>1. req'[u].id # req'[v].id
        BY <1>1, <1>2, <3>1, <3>2, <3>3
      <4>2. \A i \in 1..Len(outer'[u]) : outer'[u][i].id # req'[v].id
        BY <1>4, <3>1, <3>2, <3>3
      <4> QED
        BY <3>1, <3>2, <4>1, <4>2
    <3>4. CASE u # t
      BY <1>1, <3>1, <3>2, <3>4
    <3> QED
      BY <3>3, <3>4
  <2> QED
    BY <2>1, <2>2
<1> QED
  BY <1>5, <1>6 DEF Fresh

LEMMA FreshNext == TypeOK /\ Fresh /\ [Next]_vars => Fresh'
<1> SUFFICES ASSUME TypeOK, Fresh, [Next]_vars PROVE Fresh'
  OBVIOUS
<1>1. CASE InitDone \/ Rx \/ Znp \/ UNCHANGED vars
  BY <1>1, FreshFrame DEF InitDone, Rx, Znp, RxFrame, RxPost, RxInsert, RxCount,
     RxDamaged, ZnpAnswer, ZnpIndicate, vars, threadVars, Sending
<1>2. ASSUME NEW t \in Threads, Send(t) PROVE Fresh'
  <2>1. CASE ~Unlock(t)
    <3>1. /\ UNCHANGED <<req, outer, calls>>
          /\ Sending(t) \/ pc'[t] = "unlock"
          /\ \A u \in Threads \ {t} : pc'[u] = pc[u]
      BY <1>2, <2>1 DEF Send, Lock, Expect, Write, Wake, SrspTimeout, Clear, Goto,
                        Sending, TypeOK
    <3> QED
      BY <3>1, FreshFrame DEF Sending
  <2>2. CASE Unlock(t)
    <3>1. CASE status[t] = "SUCCESS"
      BY <2>2, <3>1, FreshFrame DEF Unlock, Goto, Sending, TypeOK
    <3>2. CASE status[t] # "SUCCESS"
      BY <2>2, <3>2, FreshReturn DEF Unlock
    <3> QED
      BY <3>1, <3>2
  <2> QED
    BY <2>1, <2>2
<1>3. ASSUME NEW t \in Threads, Receive(t) \/ Start(t) PROVE Fresh'
  <2>1. CASE RecvToken(t) \/ RecvTimeout(t) \/ ProcessSrsp(t) \/ ProcessAreq(t)
    BY <2>1, FreshFrame DEF RecvToken, RecvTimeout, ProcessSrsp, ProcessAreq,
                            Goto, Sending, TypeOK
  <2>2. ASSUME NEW s \in Subsystems, ProcessAreqNested(t, s) PROVE Fresh'
    <3>1. Begin(t, NewRequest("SREQ", s)) /\ ~Sending(t)
          /\ outer' = [outer EXCEPT ![t] = <<req[t]>> \o outer[t]]
      BY <2>2 DEF ProcessAreqNested, Sending
    <3> QED
      BY <3>1, FreshBegin
  <2>3. CASE ReadStatus(t)
    BY <2>3, FreshReturn DEF ReadStatus
  <2>4. ASSUME NEW type \in {"SREQ", "AREQ"}, NEW s \in Subsystems,
               CallStart(t, type, s)
        PROVE  Fresh'
    <3>1. Begin(t, NewRequest(type, s)) /\ ~Sending(t) /\ outer' = outer
      BY <2>4 DEF CallStart, Sending
    <3> QED
      BY <3>1, FreshBegin
  <2>5. CASE PollStart(t)
    <3>1. /\ req' = [req EXCEPT ![t] = Poll] /\ UNCHANGED <<outer, calls>>
          /\ pc' = [pc EXCEPT ![t] = "recv"] /\ Poll.id = 0 /\ calls \in Nat
      BY <2>5 DEF PollStart, Goto, Poll, TypeOK
    <3>2. /\ req'[t].id = 0 /\ ~Sending(t)'
          /\ \A u \in Threads \ {t} : req'[u] = req[u] /\ (Sending(u)' <=> Sending(u))
      BY <3>1 DEF Sending, TypeOK
    <3>3. \A u \in Threads : req[u].id \in Nat
      BY DEF TypeOK, Request
    <3> QED
      BY <3>1, <3>2, <3>3 DEF Fresh
  <2> QED
    BY <1>3, <2>1, <2>2, <2>3, <2>4, <2>5 DEF Receive, Start
<1> QED
  BY <1>1, <1>2, <1>3 DEF Next

-----------------------------------------------------------------------------
(* A request that has not been answered, or an answer that has not been    *)
(* announced, is that of the thread that waits for it, and there is never  *)
(* more than one of them; an announced answer is that of a waiting thread. *)
SreqAt(i) == i \in 1..Len(downlink) /\ downlink[i].type = "SREQ"
SrspAt(i) == i \in 1..Len(uplink) /\ uplink[i].type = "SRSP"
Awaited(id) == \E t \in Threads : pc[t] = "await" /\ req[t].id = id
Quiet == (\A i \in Nat : ~SreqAt(i) /\ ~SrspAt(i)) /\ rxPc # "post"

OwnTokens ==
  /\ \A i \in Nat : SreqAt(i) => Awaited(downlink[i].id)
  /\ \A i \in Nat : SrspAt(i) => Awaited(uplink[i].id)
  /\ rxPc = "post" => Awaited(rxMsg.id)
OneToken ==
  /\ \A i, j \in Nat : SreqAt(i) /\ SreqAt(j) => i = j
  /\ \A i, j \in Nat : SrspAt(i) /\ SrspAt(j) => i = j
  /\ \A i, j \in Nat : ~(SreqAt(i) /\ SrspAt(j))
  /\ rxPc = "post" => \A i \in Nat : ~SreqAt(i) /\ ~SrspAt(i)
OneCredit ==
  srspSem # 0 => srspSem = 1 /\ Quiet /\ \E t \in Threads : pc[t] = "await"

WakeInv == timedOut = {} => OwnTokens /\ OneToken /\ OneCredit

LEMMA WakeInit == Init => WakeInv
  BY DEF Init, WakeInv, OwnTokens, OneToken, OneCredit, SreqAt, SrspAt, Quiet

(* The steps after which as many threads wait, for the same answers.       *)
LEMMA WakeFrame ==
  ASSUME WakeInv, UNCHANGED <<downlink, uplink, rxMsg, srspSem, timedOut>>,
         rxPc' = rxPc \/ (rxPc # "post" /\ rxPc' # "post"),
         \A t \in Threads : pc[t] = "await" => pc'[t] = "await" /\ req'[t] = req[t]
  PROVE  WakeInv'
<1>1. \A id : Awaited(id) => Awaited(id)'
  BY DEF Awaited
<1>2. UNCHANGED timedOut /\ \A i : (SreqAt(i)' <=> SreqAt(i)) /\ (SrspAt(i)' <=> SrspAt(i))
  BY DEF SreqAt, SrspAt
<1>3. rxPc' = "post" <=> rxPc = "post"
  OBVIOUS
<1>4. OwnTokens => OwnTokens'
  BY <1>1, <1>2, <1>3 DEF OwnTokens
<1>5. OneToken => OneToken'
  BY <1>2, <1>3 DEF OneToken
<1>6. OneCredit => OneCredit'
  BY <1>2, <1>3 DEF OneCredit, Quiet
<1> QED
  BY <1>2, <1>4, <1>5, <1>6 DEF WakeInv

(* What a step on the UART does to the tokens.                             *)
LEMMA TailAt ==
  ASSUME NEW s, s \in Seq(Request) \/ s \in Seq(Frame), s # <<>>
  PROVE  /\ Len(s) \in Nat /\ 1 \in 1..Len(s) /\ Head(s) = s[1]
         /\ \A i \in Nat : i \in 1..Len(Tail(s)) =>
              i + 1 \in 1..Len(s) /\ Tail(s)[i] = s[i + 1]
  OBVIOUS

LEMMA AppendAt ==
  ASSUME NEW s, NEW f, \/ s \in Seq(Request) /\ f \in Request
                       \/ s \in Seq(Frame) /\ f \in Frame
  PROVE  \A i \in Nat : i \in 1..Len(Append(s, f)) =>
           \/ i \in 1..Len(s) /\ Append(s, f)[i] = s[i]
           \/ i = Len(s) + 1 /\ Append(s, f)[i] = f
  OBVIOUS

(* The waiting threads stay as they are.                                   *)
LEMMA WakeRx ==
  ASSUME TypeOK, ExchangeInv, WakeInv, Rx \/ Znp \/ InitDone
  PROVE  WakeInv'
<1>1. /\ UNCHANGED <<pc, req, timedOut>>
      /\ \A id : Awaited(id)' <=> Awaited(id)
  BY DEF InitDone, Rx, Znp, RxFrame, RxPost, RxInsert, RxCount, RxDamaged,
         ZnpAnswer, ZnpIndicate, threadVars, Awaited
<1>2. CASE InitDone \/ RxInsert \/ RxCount
  BY <1>1, <1>2, WakeFrame DEF InitDone, RxInsert, RxCount, znpVars, rxVars, semVars
<1> SUFFICES ASSUME timedOut = {}, Rx \/ Znp
             PROVE  OwnTokens' /\ OneToken' /\ OneCredit'
  BY <1>1, <1>2 DEF WakeInv
<1>3. OwnTokens /\ OneToken /\ OneCredit
  BY DEF WakeInv
<1>4. uplink \in Seq(Frame) /\ downlink \in Seq(Request) /\ rxMsg \in Frame
  BY DEF TypeOK
<1>5. CASE RxFrame \/ RxDamaged
  <2>1. /\ uplink # <<>> /\ uplink' = Tail(uplink) /\ UNCHANGED <<downlink, srspSem>>
        /\ rxPc = "read"
        /\ rxPc' = "post" => rxMsg' = Head(uplink) /\ Head(uplink).type # "AREQ"
    BY <1>5 DEF RxFrame, RxDamaged, rxVars, semVars
  <2>2. /\ 1 \in 1..Len(uplink) /\ Head(uplink) = uplink[1]
        /\ \A i \in Nat : i \in 1..Len(uplink') =>
             i + 1 \in 1..Len(uplink) /\ uplink'[i] = uplink[i + 1]
    BY <1>4, <2>1, TailAt
  <2>3. uplink[1].type \in {"SRSP", "AREQ"}
    <3>1. uplink[1] \in Frame
      BY <1>4, <2>2
    <3> QED
      BY <3>1 DEF Frame
  <2>4. /\ \A i \in Nat : SreqAt(i)' <=> SreqAt(i)
        /\ \A i \in Nat : SrspAt(i)' => SrspAt(i + 1) /\ uplink'[i] = uplink[i + 1]
        /\ rxPc' = "post" => SrspAt(1) /\ rxMsg' = uplink[1]
    BY <2>1, <2>2, <2>3 DEF SreqAt, SrspAt
  <2>5. OwnTokens'
    <3>1. \A i \in Nat : SrspAt(i)' => i + 1 \in Nat /\ SrspAt(i + 1)
      BY <2>4
    <3>2. \A i \in Nat : SrspAt(i)' => Awaited(uplink[i + 1].id)
      BY <1>3, <3>1 DEF OwnTokens
    <3>3. rxPc' = "post" => Awaited(uplink[1].id)
      BY <1>3, <2>4 DEF OwnTokens
    <3> QED
      <4>1. \A i \in Nat : SrspAt(i)' => \E u \in Threads :
              pc'[u] = "await" /\ req'[u].id = uplink'[i].id
        BY <1>1, <2>4, <3>2 DEF Awaited
      <4>2. \A i \in Nat : SreqAt(i)' => \E u \in Threads :
              pc'[u] = "await" /\ req'[u].id = downlink'[i].id
        BY <1>1, <1>3, <2>1, <2>4 DEF OwnTokens, Awaited
      <4>3. rxPc' = "post" => \E u \in Threads :
              pc'[u] = "await" /\ req'[u].id = rxMsg'.id
        BY <1>1, <2>4, <3>3 DEF Awaited
      <4> QED
        BY <4>1, <4>2, <4>3 DEF OwnTokens, Awaited
  <2>6. OneToken'
    <3>1. \A i, j \in Nat : SreqAt(i)' /\ SreqAt(j)' => i = j
      BY <1>3, <2>4 DEF OneToken
    <3>2. \A i, j \in Nat : SrspAt(i)' /\ SrspAt(j)' => i = j
      <4> SUFFICES ASSUME NEW i \in Nat, NEW j \in Nat, SrspAt(i)', SrspAt(j)'
                   PROVE  i = j
        OBVIOUS
      <4>1. i + 1 \in Nat /\ j + 1 \in Nat /\ SrspAt(i + 1) /\ SrspAt(j + 1)
        BY <2>4
      <4>2. i + 1 = j + 1
        BY <1>3, <4>1 DEF OneToken
      <4> QED
        BY <4>2
    <3>3. \A i, j \in Nat : ~(SreqAt(i)' /\ SrspAt(j)')
      BY <1>3, <2>4 DEF OneToken
    <3>4. rxPc' = "post" => \A i \in Nat : ~SreqAt(i)' /\ ~SrspAt(i)'
      <4> SUFFICES ASSUME rxPc' = "post", NEW i \in Nat
                   PROVE  ~SreqAt(i)' /\ ~SrspAt(i)'
        OBVIOUS
      <4>1. SrspAt(1)
        BY <2>4
      <4>2. ~SreqAt(i)
        BY <1>3, <4>1 DEF OneToken
      <4>3. SrspAt(i)' => i # 0
        BY DEF SrspAt
      <4>4. i # 0 => i + 1 \in Nat /\ i + 1 # 1
        OBVIOUS
      <4>5. i # 0 => ~SrspAt(i + 1)
        BY <1>3, <4>1, <4>4 DEF OneToken
      <4> QED
        BY <2>4, <4>2, <4>3, <4>5
    <3> QED
      BY <3>1, <3>2, <3>3, <3>4 DEF OneToken
  <2>7. OneCredit'
    <3> SUFFICES ASSUME srspSem' # 0
                 PROVE  srspSem' = 1 /\ Quiet' /\ \E t \in Threads : pc'[t] = "await"
      BY DEF OneCredit
    <3>1. srspSem = 1 /\ Quiet /\ \E t \in Threads : pc'[t] = "await"
      BY <1>1, <1>3, <2>1 DEF OneCredit
    <3>2. Quiet'
      BY <2>4, <3>1 DEF Quiet
    <3> QED
      BY <2>1, <3>1, <3>2
  <2> QED
    BY <2>5, <2>6, <2>7
<1>6. CASE RxPost
  <2>1. /\ rxPc = "post" /\ rxPc' = "insert" /\ srspSem' = srspSem + 1
        /\ UNCHANGED <<downlink, uplink>>
    BY <1>6 DEF RxPost, znpVars
  <2>2. \A i \in Nat : (SreqAt(i)' <=> SreqAt(i)) /\ (SrspAt(i)' <=> SrspAt(i))
    BY <2>1 DEF SreqAt, SrspAt
  <2>3. srspSem = 0 /\ Awaited(rxMsg.id)
    BY <1>3, <2>1 DEF OneCredit, Quiet, OwnTokens
  <2>4. \A i \in Nat : ~SreqAt(i) /\ ~SrspAt(i)
    BY <1>3, <2>1 DEF OneToken
  <2>5. \E t \in Threads : pc'[t] = "await"
    BY <1>1, <2>3 DEF Awaited
  <2> QED
    BY <2>1, <2>2, <2>3, <2>4, <2>5 DEF OwnTokens, OneToken, OneCredit, Quiet
<1>7. CASE ZnpIndicate
  <2> DEFINE f == [type |-> "AREQ", sys |-> NoSys, id |-> inds + 1]
  <2>1. f \in Frame /\ f.type # "SRSP"
    BY DEF Frame, TypeOK
  <2>2. uplink' = Append(uplink, f) /\ UNCHANGED <<downlink, rxPc, rxMsg, srspSem>>
    BY <1>7 DEF ZnpIndicate, rxVars, semVars
  <2> HIDE DEF f
  <2>3. /\ \A i \in Nat : SreqAt(i)' <=> SreqAt(i)
        /\ \A i \in Nat : SrspAt(i)' => SrspAt(i) /\ uplink'[i] = uplink[i]
    BY <1>4, <2>1, <2>2, AppendAt DEF SreqAt, SrspAt
  <2> QED
    BY <1>1, <1>3, <2>2, <2>3 DEF OwnTokens, OneToken, OneCredit, Quiet
<1>8. CASE ZnpAnswer
  <2>1. /\ downlink # <<>> /\ downlink' = Tail(downlink)
        /\ UNCHANGED <<rxPc, rxMsg, srspSem>>
    BY <1>8 DEF ZnpAnswer, rxVars, semVars
  <2>2. /\ 1 \in 1..Len(downlink) /\ Head(downlink) = downlink[1]
        /\ \A i \in Nat : SreqAt(i)' => SreqAt(i + 1) /\ downlink'[i] = downlink[i + 1]
    BY <1>4, <2>1, TailAt DEF SreqAt
  <2>3. CASE Head(downlink).type # "SREQ"
    <3>1. \A i \in Nat : SrspAt(i)' <=> SrspAt(i)
      BY <1>8, <2>3 DEF ZnpAnswer, SrspAt
    <3>2. uplink' = uplink
      BY <1>8, <2>3 DEF ZnpAnswer
    <3>3. ASSUME NEW i \in Nat, NEW j \in Nat, SreqAt(i)', SreqAt(j)' PROVE i = j
      <4>1. i + 1 \in Nat /\ j + 1 \in Nat /\ SreqAt(i + 1) /\ SreqAt(j + 1)
        BY <2>2, <3>3
      <4>2. i + 1 = j + 1
        BY <1>3, <4>1 DEF OneToken
      <4> QED
        BY <4>2
    <3>4. OneToken'
      BY <1>3, <2>1, <2>2, <3>1, <3>3 DEF OneToken
    <3>5. OwnTokens'
      <4>1. \A i \in Nat : SreqAt(i)' => i + 1 \in Nat /\ SreqAt(i + 1)
        BY <2>2
      <4>2. \A i \in Nat : SreqAt(i)' => Awaited(downlink[i + 1].id)
        BY <1>3, <4>1 DEF OwnTokens
      <4> QED
        <5>1. \A i \in Nat : SrspAt(i)' => \E u \in Threads :
                pc'[u] = "await" /\ req'[u].id = uplink'[i].id
          BY <1>1, <1>3, <3>1, <3>2 DEF OwnTokens, Awaited
        <5>2. \A i \in Nat : SreqAt(i)' => \E u \in Threads :
                pc'[u] = "await" /\ req'[u].id = downlink'[i].id
          BY <1>1, <2>2, <4>2 DEF Awaited
        <5>3. rxPc' = "post" => \E u \in Threads :
                pc'[u] = "await" /\ req'[u].id = rxMsg'.id
          BY <1>1, <1>3, <2>1 DEF OwnTokens, Awaited
        <5> QED
          BY <5>1, <5>2, <5>3 DEF OwnTokens, Awaited
    <3>6. OneCredit'
      BY <1>1, <1>3, <2>1, <2>2, <3>1 DEF OneCredit, Quiet
    <3> QED
      BY <3>4, <3>5, <3>6
  <2>4. CASE Head(downlink).type = "SREQ"
    <3> DEFINE f == [type |-> "SRSP", id |-> Head(downlink).id,
                     sys |-> Head(downlink).sys]
    <3>1. SreqAt(1) /\ f.id = downlink[1].id
      BY <2>2, <2>4 DEF SreqAt
    <3>2. f \in Frame
      <4>1. Head(downlink) \in Request
        BY <1>4, <2>2
      <4> QED
        BY <4>1 DEF Frame, Request
    <3>3. uplink' = Append(uplink, f)
      BY <1>8, <2>4 DEF ZnpAnswer
    <3> HIDE DEF f
    <3>4. \A i \in Nat : ~SrspAt(i)
      BY <1>3, <3>1 DEF OneToken
    <3>5. \A i \in Nat : SrspAt(i)' => i = Len(uplink) + 1 /\ uplink'[i] = f
      BY <1>4, <3>2, <3>3, <3>4, AppendAt DEF SrspAt
    <3>6. \A i \in Nat : ~SreqAt(i)'
      <4> SUFFICES ASSUME NEW i \in Nat, SreqAt(i)' PROVE FALSE
        OBVIOUS
      <4>1. i # 0 /\ SreqAt(i + 1)
        BY <2>2 DEF SreqAt
      <4>2. i + 1 \in Nat /\ i + 1 # 1
        BY <4>1
      <4> QED
        BY <1>3, <3>1, <4>1, <4>2 DEF OneToken
    <3>7. rxPc # "post" /\ srspSem = 0 /\ Awaited(f.id)
      BY <1>3, <3>1 DEF OneToken, OneCredit, Quiet, OwnTokens
    <3>8. \A i, j \in Nat : SrspAt(i)' /\ SrspAt(j)' => i = j
      BY <3>5
    <3>9. OwnTokens'
      BY <1>1, <2>1, <3>5, <3>6, <3>7 DEF OwnTokens
    <3>10. OneToken'
      BY <2>1, <3>6, <3>7, <3>8 DEF OneToken
    <3>11. OneCredit'
      BY <2>1, <3>7 DEF OneCredit
    <3> QED
      BY <3>9, <3>10, <3>11
  <2> QED
    BY <2>3, <2>4
<1> QED
  BY <1>1, <1>2, <1>5, <1>6, <1>7, <1>8 DEF Rx, Znp, WakeInv

LEMMA WakeSend ==
  ASSUME TypeOK, ExchangeInv, WakeInv, NEW t \in Threads, Send(t)
  PROVE  WakeInv'
<1>1. CASE Lock(t)
  BY <1>1, WakeFrame DEF Lock, Goto, TypeOK, znpVars, rxVars
<1>2. CASE Expect(t)
  BY <1>2, WakeFrame DEF Expect, Goto, TypeOK, znpVars, rxVars
<1>3. CASE Clear(t)
  BY <1>3, WakeFrame DEF Clear, Goto, TypeOK, znpVars, rxVars
<1>4. CASE Unlock(t)
  <2>1. \A u \in Threads \ {t} : pc'[u] = pc[u] /\ req'[u] = req[u]
    <3>1. CASE status[t] = "SUCCESS"
      BY <1>4, <3>1 DEF Unlock, Goto, TypeOK
    <3>2. CASE status[t] # "SUCCESS"
      BY <1>4, <3>2, ReturnFrame DEF Unlock
    <3> QED
      BY <3>1, <3>2
  <2> QED
    BY <1>4, <2>1, WakeFrame DEF Unlock, znpVars, rxVars
<1>5. CASE SrspTimeout(t)
  <2>1. timedOut' # {}
    BY <1>5 DEF SrspTimeout
  <2> QED
    BY <2>1 DEF WakeInv
<1>6. CASE Wake(t)
  <2> SUFFICES ASSUME timedOut = {} PROVE OwnTokens' /\ OneToken' /\ OneCredit'
    BY <1>6 DEF Wake, WakeInv
  <2>1. /\ UNCHANGED <<downlink, uplink, rxPc>> /\ srspSem' = srspSem - 1
        /\ srspSem > 0 /\ srspSem \in Nat
    BY <1>6 DEF Wake, znpVars, rxVars, TypeOK
  <2>2. OneCredit
    BY DEF WakeInv
  <2>3. srspSem = 1 /\ Quiet
    BY <2>1, <2>2 DEF OneCredit
  <2>4. srspSem' = 0 /\ Quiet'
    BY <2>1, <2>3 DEF Quiet, SreqAt, SrspAt
  <2> QED
    BY <2>4 DEF OwnTokens, OneToken, OneCredit, Quiet
<1>7. CASE Write(t)
  <2>1. /\ UNCHANGED <<uplink, rxPc, rxMsg, srspSem, req, timedOut>>
        /\ pc[t] = "write"
        /\ \A u \in Threads \ {t} : pc'[u] = pc[u]
        /\ pc'[t] = IF req[t].type = "SREQ" THEN "await" ELSE "unlock"
        /\ downlink' = Append(downlink, req[t]) \/ downlink' = downlink
    BY <1>7 DEF Write, Goto, rxVars, semVars, TypeOK
  <2>2. \A u \in Threads : pc[u] # "await"
    BY <2>1 DEF ExchangeInv, SendExclusion, InSection
  <2> SUFFICES ASSUME timedOut = {} PROVE OwnTokens' /\ OneToken' /\ OneCredit'
    BY <2>1 DEF WakeInv
  <2>3. OwnTokens /\ OneCredit /\ \A id : ~Awaited(id)
    BY <2>2 DEF WakeInv, Awaited
  <2>4. Quiet /\ srspSem = 0
    BY <2>2, <2>3 DEF Quiet, OwnTokens, OneCredit
  <2>5. downlink \in Seq(Request) /\ req[t] \in Request
    BY DEF TypeOK
  <2>6. /\ \A i \in Nat : ~SrspAt(i)' /\ rxPc' # "post" /\ srspSem' = 0
        /\ \A i \in Nat : SreqAt(i)' =>
             i = Len(downlink) + 1 /\ downlink'[i] = req[t] /\ req[t].type = "SREQ"
    BY <2>1, <2>4, <2>5, AppendAt DEF Quiet, SrspAt, SreqAt
  <2>7. \A i, j \in Nat : SreqAt(i)' /\ SreqAt(j)' => i = j
    BY <2>6
  <2>8. OneToken' /\ OneCredit'
    BY <2>6, <2>7 DEF OneToken, OneCredit
  <2>9. \A i \in Nat : SreqAt(i)' => \E u \in Threads :
               pc'[u] = "await" /\ req'[u].id = downlink'[i].id
    BY <2>1, <2>6
  <2>10. rxPc' # "post"
    BY <2>6
  <2>11. OwnTokens'
    BY <2>6, <2>9, <2>10 DEF OwnTokens, Awaited
  <2> QED
    BY <2>8, <2>11
<1> QED
  BY <1>1, <1>2, <1>3, <1>4, <1>5, <1>6, <1>7 DEF Send

LEMMA WakeReceive ==
  ASSUME TypeOK, WakeInv, NEW t \in Threads, Receive(t) \/ Start(t)
  PROVE  WakeInv'
<1>1. /\ UNCHANGED <<downlink, uplink, rxPc, rxMsg, srspSem, timedOut>>
      /\ pc[t] # "await"
      /\ \A u \in Threads \ {t} : pc'[u] = pc[u] /\ req'[u] = req[u]
  BY ReturnFrame DEF Receive, Start, RecvToken, RecvTimeout, ProcessSrsp, ProcessAreq,
     ProcessAreqNested, ReadStatus, CallStart, PollStart, Begin, Goto, TypeOK,
     rxVars, znpVars, semVars
<1> QED
  BY <1>1, WakeFrame

LEMMA WakeNext == TypeOK /\ ExchangeInv /\ WakeInv /\ [Next]_vars => WakeInv'
<1> SUFFICES ASSUME TypeOK, ExchangeInv, WakeInv, [Next]_vars PROVE WakeInv'
  OBVIOUS
<1>1. CASE UNCHANGED vars
  BY <1>1, WakeFrame DEF vars
<1> QED
  BY <1>1, WakeRx, WakeSend, WakeReceive DEF Next

(* What the invariants mean for a thread that has been woken.              *)
LEMMA WakeMeans == TypeOK /\ ExchangeInv /\ Fresh /\ WakeInv => NoFalseWake
<1> SUFFICES ASSUME TypeOK, ExchangeInv, Fresh, WakeInv, timedOut = {}
             PROVE  /\ \A t \in Threads : Woken(t) => ~Unanswered(req[t].id)
                    /\ srspSem > 0 =>
                         /\ srspSem = 1
                         /\ \E t \in Threads : pc[t] = "await" /\ ~Unanswered(req[t].id)
  BY DEF NoFalseWake
<1>1. OwnTokens /\ OneCredit
  BY DEF WakeInv
<1>2. downlink \in Seq(Request) /\ uplink \in Seq(Frame) /\ srspSem \in Nat
  BY DEF TypeOK
<1>3. \A id : Unanswered(id) => Awaited(id) /\ ~Quiet
  BY <1>1, <1>2 DEF Unanswered, OwnTokens, SreqAt, SrspAt, Quiet
<1>4. ASSUME NEW t \in Threads, Woken(t) PROVE ~Unanswered(req[t].id)
  <2> SUFFICES ASSUME NEW u \in Threads, pc[u] = "await", req[u].id = req[t].id
               PROVE  FALSE
    BY <1>3 DEF Awaited
  <2>1. u # t
    BY <1>4 DEF Woken
  <2> QED
    BY <2>1 DEF Fresh, Sending
<1>5. srspSem > 0 => /\ srspSem = 1
                     /\ \E t \in Threads : pc[t] = "await" /\ ~Unanswered(req[t].id)
  BY <1>1, <1>2, <1>3 DEF OneCredit
<1> QED
  BY <1>4, <1>5

(* As long as no SREQ has timed out, a sender is only woken by the answer  *)
(* to its own request, for any number of threads' requests and losses.     *)
THEOREM RpcNoFalseWake == Spec => []NoFalseWake
<1>1. Spec => [](TypeOK /\ ExchangeInv)
  BY ExchangeInit, ExchangeNext, RpcTypeOK, PTL DEF Spec
<1>2. Spec => []Fresh
  BY FreshInit, FreshNext, RpcTypeOK, PTL DEF Spec
<1>3. Spec => []WakeInv
  BY WakeInit, WakeNext, <1>1, PTL DEF Spec
<1> QED
  BY <1>1, <1>2, <1>3, WakeMeans, PTL
=============================================================================
