-------------------------------- MODULE Rpc --------------------------------
(***************************************************************************)
(* The request / response protocol with the ZNP coprocessor                *)
(* (framework/rpc/rpc.c) as the application threads use it through the     *)
(* request functions of framework/mt.                                      *)
(*                                                                         *)
(* A request function calls rpcSendFrame, which serialises senders with    *)
(* rpcSem, announces the subsystem whose SRSP it expects, writes the frame *)
(* and, for an SREQ, waits at most SRSP_TIMEOUT_MS on srspSem.  Once it    *)
(* has been woken, and after rpcSem is free again, the request function    *)
(* takes ONE message off the shared queue (rpcWaitMqClientMsg), which      *)
(* mtProcess dispatches: an SRSP is copied to the global srspRpcBuff, an   *)
(* AREQ runs a callback, and the callback may itself issue a request.      *)
(* ZDO functions then return the status byte found in srspRpcBuff.         *)
(*                                                                         *)
(* The Rx thread matches an SRSP by subsystem only, posts srspSem, and     *)
(* then puts the message in the queue: an SRSP at the head, an AREQ at the *)
(* tail.  The queue appears here with its two semaphores' effects: a       *)
(* message is in the list before its token is posted, and a receiver has   *)
(* the token before it has the message (module Llq has the finer steps).   *)
(*                                                                         *)
(* The UART and the ZNP are the environment: frames may be lost or damaged *)
(* in both directions and a response may come late or not at all.          *)
(***************************************************************************)
EXTENDS Integers, Sequences, FiniteSets

CONSTANTS
  App,        (* the thread of appProcess, which also starts the network *)
  Inm,        (* the thread of appinmessagetask, which only polls        *)
  Key,        (* the thread of keypresstask                              *)
  Threads,    (* those that run in this instance                         *)
  Subsystems, (* MT subsystems requests are addressed to                 *)
  Reading,    (* those whose functions return srspRpcBuff[2] (ZDO)       *)
  NoSys,      (* expectedSrspCmdId is 0xFF, or 0 as it is at start: no   *)
              (* request is of subsystem 0, so that neither is waited for*)
  MaxCalls,   (* bound: requests issued                                  *)
  MaxInd,     (* bound: AREQs the ZNP sends on its own                   *)
  MaxLost     (* bound: frames lost or damaged on the UART               *)

ASSUME RpcAssumption ==
  /\ App \in Threads /\ Threads \subseteq {App, Inm, Key}
  /\ App # Inm /\ Key # Inm /\ App # Key
  /\ IsFiniteSet(Threads)
  /\ Reading \subseteq Subsystems /\ NoSys \notin Subsystems
  /\ MaxCalls \in Nat /\ MaxInd \in Nat /\ MaxLost \in Nat

VARIABLES
  initDone,   (* set by appProcess once the network is up                *)
  rpcSem, srspSem, expectedSrspCmdId, srspRpcBuff,  (* globals of rpc.c  *)
  queue,      (* the messages in rpcLlq                                  *)
  count,      (* rpcLlq's llqCountSem                                    *)
  pc,         (* pc[t]: the next step of thread t's current call         *)
  req,        (* req[t]: the request of that call                        *)
  status,     (* status[t]: what rpcSendFrame is about to return         *)
  outer,      (* outer[t]: calls of t suspended in callbacks, inner first*)
  rxPc, rxMsg,(* the Rx thread in rpcProcess and the frame it has read   *)
  downlink,   (* requests on their way to, or inside, the ZNP            *)
  uplink,     (* frames on their way from the ZNP                        *)
  calls, inds, lost,  (* how much of each bound is used                  *)
  timedOut    (* history: requests whose SRSP did not come in time       *)

vars == <<initDone, rpcSem, srspSem, expectedSrspCmdId, srspRpcBuff, queue,
          count, pc, req, status, outer, rxPc, rxMsg, downlink, uplink,
          calls, inds, lost, timedOut>>

threadVars == <<pc, req, status, outer>>
rxVars     == <<rxPc, rxMsg>>
znpVars    == <<downlink, uplink, inds, lost>>
queueVars  == <<queue, count>>
semVars    == <<rpcSem, srspSem, expectedSrspCmdId>>

(* A frame of the ZNP.  id says which request an SRSP answers and numbers  *)
(* the AREQs; the protocol itself carries no such number.                  *)
Frame   == [type : {"SRSP", "AREQ"}, sys : Subsystems \cup {NoSys}, id : Nat]
Request == [type : {"SREQ", "AREQ", "POLL"}, sys : Subsystems \cup {NoSys},
            id : Nat]

Poll  == [type |-> "POLL", sys |-> NoSys, id |-> 0]
Blank == [type |-> "SRSP", sys |-> NoSys, id |-> 0]

Steps == {"idle", "lock", "expect", "write", "await", "clear", "unlock",
          "recv", "take", "status"}

Goto(t, step) == pc' = [pc EXCEPT ![t] = step]

(* Between sem_wait(&rpcSem) and sem_post(&rpcSem).                        *)
InSection(t) == pc[t] \in {"expect", "write", "await", "clear", "unlock"}

(* Between setting expectedSrspCmdId and resetting it to 0xFF.             *)
InFlight(t) == pc[t] \in {"write", "await", "clear"} /\ req[t].type = "SREQ"

Init ==
  /\ initDone = FALSE
  /\ rpcSem = 1 /\ srspSem = 0
  /\ expectedSrspCmdId = NoSys /\ srspRpcBuff = Blank
  /\ queue = <<>> /\ count = 0
  /\ pc = [t \in Threads |-> "idle"]
  /\ req = [t \in Threads |-> Poll]
  /\ status = [t \in Threads |-> "SUCCESS"]
  /\ outer = [t \in Threads |-> <<>>]
  /\ rxPc = "read" /\ rxMsg = Blank
  /\ downlink = <<>> /\ uplink = <<>>
  /\ calls = 0 /\ inds = 0 /\ lost = 0
  /\ timedOut = {}

(* The call returns; one that was made by a callback returns into the      *)
(* rpcWaitMqClientMsg of the call it interrupted.                          *)
Return(t) ==
  IF outer[t] = <<>>
    THEN /\ Goto(t, "idle")
         /\ UNCHANGED <<req, outer>>
    ELSE /\ Goto(t, "status")
         /\ req' = [req EXCEPT ![t] = Head(outer[t])]
         /\ outer' = [outer EXCEPT ![t] = Tail(outer[t])]

-----------------------------------------------------------------------------
(* Faults that would break the protocol; no specification uses them.       *)

(* rpcSem is not waited for.                                               *)
LockSkipped(t) ==
  /\ pc[t] = "lock"
  /\ Goto(t, IF req[t].type = "SREQ" THEN "expect" ELSE "write")
  /\ UNCHANGED <<initDone, semVars, srspRpcBuff, queueVars, req, status,
                 outer, rxVars, znpVars, calls, timedOut>>

(* The result of sem_timedwait is not looked at.                           *)
WakeUnchecked(t) ==
  /\ pc[t] = "await"
  /\ srspSem' = srspSem - 1
  /\ Goto(t, "clear")
  /\ UNCHANGED <<initDone, rpcSem, expectedSrspCmdId, srspRpcBuff, queueVars,
                 req, status, outer, rxVars, znpVars, calls, timedOut>>

(* expectedSrspCmdId keeps its value after the exchange.                   *)
ClearForgotten(t) ==
  /\ pc[t] = "clear"
  /\ Goto(t, "unlock")
  /\ UNCHANGED <<initDone, semVars, srspRpcBuff, queueVars, req, status,
                 outer, rxVars, znpVars, calls, timedOut>>

(* The error path returns without posting rpcSem.                          *)
UnlockForgotten(t) ==
  /\ pc[t] = "unlock"
  /\ rpcSem' = IF status[t] = "SUCCESS" THEN rpcSem + 1 ELSE rpcSem
  /\ IF status[t] = "SUCCESS"
       THEN Goto(t, "recv") /\ UNCHANGED <<req, outer>>
       ELSE Return(t)
  /\ UNCHANGED <<initDone, srspSem, expectedSrspCmdId, srspRpcBuff, queueVars,
                 status, rxVars, znpVars, calls, timedOut>>

(* appMsgProcess tests initDone the wrong way round.                       *)
PollStartInverted(t) ==
  /\ pc[t] = "idle"
  /\ ~initDone
  /\ req' = [req EXCEPT ![t] = Poll]
  /\ Goto(t, "recv")
  /\ UNCHANGED <<initDone, semVars, srspRpcBuff, queueVars, status, outer,
                 rxVars, znpVars, calls, timedOut>>

(* An AREQ also wakes the sender.                                          *)
RxFrameTypeUnchecked ==
  /\ rxPc = "read"
  /\ uplink # <<>>
  /\ uplink' = Tail(uplink)
  /\ rxMsg' = Head(uplink)
  /\ rxPc' = IF \/ Head(uplink).type = "AREQ"
                \/ Head(uplink).sys = expectedSrspCmdId
               THEN "post" ELSE "read"
  /\ UNCHANGED <<initDone, semVars, srspRpcBuff, queueVars, threadVars,
                 downlink, inds, lost, calls, timedOut>>

(* Every message goes to the head.                                         *)
RxInsertAlwaysHead ==
  /\ rxPc = "insert"
  /\ queue' = <<rxMsg>> \o queue
  /\ rxPc' = "count"
  /\ UNCHANGED <<initDone, semVars, srspRpcBuff, count, threadVars, rxMsg,
                 znpVars, calls, timedOut>>

-----------------------------------------------------------------------------
(* Starting a call *)

NewRequest(type, s) == [type |-> type, sys |-> s, id |-> calls + 1]

(* A request function: rpcSendFrame((MT_RPC_CMD_xREQ | sys), ...).         *)
Begin(t, r) ==
  /\ calls < MaxCalls
  /\ calls' = calls + 1
  /\ req' = [req EXCEPT ![t] = r]
  /\ status' = [status EXCEPT ![t] = "SUCCESS"]
  /\ Goto(t, "lock")

(* appProcess issues requests while it starts the network and then one for *)
(* each command it reads from the pipe; the key thread, created with       *)
(* initDone, issues the permit-joining request.                            *)
CallStart(t, type, s) ==
  /\ pc[t] = "idle"
  /\ t = App \/ (t = Key /\ initDone)
  /\ Begin(t, NewRequest(type, s))
  /\ UNCHANGED <<initDone, semVars, srspRpcBuff, queueVars, outer, rxVars,
                 znpVars, timedOut>>

(* appMsgProcess polls the queue after initDone, appProcess before it.     *)
PollStart(t) ==
  /\ pc[t] = "idle"
  /\ \/ t = Inm /\ initDone
     \/ t = App /\ ~initDone
  /\ req' = [req EXCEPT ![t] = Poll]
  /\ Goto(t, "recv")
  /\ UNCHANGED <<initDone, semVars, srspRpcBuff, queueVars, status, outer,
                 rxVars, znpVars, calls, timedOut>>

InitDone ==
  /\ ~initDone
  /\ pc[App] = "idle"
  /\ initDone' = TRUE
  /\ UNCHANGED <<semVars, srspRpcBuff, queueVars, threadVars, rxVars, znpVars,
                 calls, timedOut>>

-----------------------------------------------------------------------------
(* rpcSendFrame *)

Lock(t) ==
  /\ pc[t] = "lock"
  /\ rpcSem > 0
  /\ rpcSem' = rpcSem - 1
  /\ Goto(t, IF req[t].type = "SREQ" THEN "expect" ELSE "write")
  /\ UNCHANGED <<initDone, srspSem, expectedSrspCmdId, srspRpcBuff, queueVars,
                 req, status, outer, rxVars, znpVars, calls, timedOut>>

Expect(t) ==
  /\ pc[t] = "expect"
  /\ expectedSrspCmdId' = req[t].sys
  /\ Goto(t, "write")
  /\ UNCHANGED <<initDone, rpcSem, srspSem, srspRpcBuff, queueVars, req,
                 status, outer, rxVars, znpVars, calls, timedOut>>

(* rpcTransportWrite; tcflush(TCOFLUSH) may throw the bytes away.          *)
Write(t) ==
  /\ pc[t] = "write"
  /\ \/ downlink' = Append(downlink, req[t]) /\ UNCHANGED lost
     \/ lost < MaxLost /\ lost' = lost + 1 /\ UNCHANGED downlink
  /\ Goto(t, IF req[t].type = "SREQ" THEN "await" ELSE "unlock")
  /\ UNCHANGED <<initDone, semVars, srspRpcBuff, queueVars, req, status,
                 outer, rxVars, uplink, inds, calls, timedOut>>

(* sem_timedwait(&srspSem): the post may be that of another response.      *)
Wake(t) ==
  /\ pc[t] = "await"
  /\ srspSem > 0
  /\ srspSem' = srspSem - 1
  /\ Goto(t, "clear")
  /\ UNCHANGED <<initDone, rpcSem, expectedSrspCmdId, srspRpcBuff, queueVars,
                 req, status, outer, rxVars, znpVars, calls, timedOut>>

SrspTimeout(t) ==
  /\ pc[t] = "await"
  /\ srspSem = 0
  /\ status' = [status EXCEPT ![t] = "ERR_SUBSYSTEM"]
  /\ timedOut' = timedOut \cup {req[t].id}
  /\ Goto(t, "clear")
  /\ UNCHANGED <<initDone, semVars, srspRpcBuff, queueVars, req, outer,
                 rxVars, znpVars, calls>>

Clear(t) ==
  /\ pc[t] = "clear"
  /\ expectedSrspCmdId' = NoSys
  /\ Goto(t, "unlock")
  /\ UNCHANGED <<initDone, rpcSem, srspSem, srspRpcBuff, queueVars, req,
                 status, outer, rxVars, znpVars, calls, timedOut>>

(* After a failure the request function returns at once, after success it  *)
(* goes on to rpcWaitMqClientMsg(50).                                      *)
Unlock(t) ==
  /\ pc[t] = "unlock"
  /\ rpcSem' = rpcSem + 1
  /\ IF status[t] = "SUCCESS"
       THEN Goto(t, "recv") /\ UNCHANGED <<req, outer>>
       ELSE Return(t)
  /\ UNCHANGED <<initDone, srspSem, expectedSrspCmdId, srspRpcBuff, queueVars,
                 status, rxVars, znpVars, calls, timedOut>>

-----------------------------------------------------------------------------
(* rpcWaitMqClientMsg and mtProcess *)

RecvToken(t) ==
  /\ pc[t] = "recv"
  /\ count > 0
  /\ count' = count - 1
  /\ Goto(t, "take")
  /\ UNCHANGED <<initDone, semVars, srspRpcBuff, queue, req, status, outer,
                 rxVars, znpVars, calls, timedOut>>

(* The deadline is the start of the current second plus 50 ms: most often  *)
(* it has passed before the wait begins.                                   *)
RecvTimeout(t) ==
  /\ pc[t] = "recv"
  /\ count = 0
  /\ Goto(t, "status")
  /\ UNCHANGED <<initDone, semVars, srspRpcBuff, queueVars, req, status,
                 outer, rxVars, znpVars, calls, timedOut>>

ProcessSrsp(t) ==
  /\ pc[t] = "take"
  /\ queue # <<>> /\ Head(queue).type = "SRSP"
  /\ queue' = Tail(queue)
  /\ srspRpcBuff' = Head(queue)
  /\ Goto(t, "status")
  /\ UNCHANGED <<initDone, semVars, count, req, status, outer, rxVars,
                 znpVars, calls, timedOut>>

(* The callback of an AREQ that sends nothing.                             *)
ProcessAreq(t) ==
  /\ pc[t] = "take"
  /\ queue # <<>> /\ Head(queue).type = "AREQ"
  /\ queue' = Tail(queue)
  /\ Goto(t, "status")
  /\ UNCHANGED <<initDone, semVars, srspRpcBuff, count, req, status, outer,
                 rxVars, znpVars, calls, timedOut>>

(* The callback of an AREQ that issues a request of its own, such as the   *)
(* active endpoint request after a device announcement.                    *)
ProcessAreqNested(t, s) ==
  /\ pc[t] = "take"
  /\ queue # <<>> /\ Head(queue).type = "AREQ"
  /\ queue' = Tail(queue)
  /\ outer' = [outer EXCEPT ![t] = <<req[t]>> \o outer[t]]
  /\ Begin(t, NewRequest("SREQ", s))
  /\ UNCHANGED <<initDone, semVars, srspRpcBuff, count, rxVars, znpVars,
                 timedOut>>

(* The request function reads srspRpcBuff, if it does, and returns.        *)
ReadStatus(t) ==
  /\ pc[t] = "status"
  /\ Return(t)
  /\ UNCHANGED <<initDone, semVars, srspRpcBuff, queueVars, status, rxVars,
                 znpVars, calls, timedOut>>

-----------------------------------------------------------------------------
(* The Rx thread: rpcProcess *)

(* A whole frame with a correct FCS has been read.  An SRSP is compared    *)
(* with expectedSrspCmdId; if it is not the expected one it is dropped.    *)
RxFrame ==
  /\ rxPc = "read"
  /\ uplink # <<>>
  /\ uplink' = Tail(uplink)
  /\ rxMsg' = Head(uplink)
  /\ rxPc' = IF Head(uplink).type = "AREQ" THEN "insert"
             ELSE IF Head(uplink).sys = expectedSrspCmdId THEN "post"
             ELSE "read"
  /\ UNCHANGED <<initDone, semVars, srspRpcBuff, queueVars, threadVars,
                 downlink, inds, lost, calls, timedOut>>

RxPost ==
  /\ rxPc = "post"
  /\ srspSem' = srspSem + 1
  /\ rxPc' = "insert"
  /\ UNCHANGED <<initDone, rpcSem, expectedSrspCmdId, srspRpcBuff, queueVars,
                 threadVars, rxMsg, znpVars, calls, timedOut>>

RxInsert ==
  /\ rxPc = "insert"
  /\ queue' = IF rxMsg.type = "SRSP" THEN <<rxMsg>> \o queue
                                     ELSE Append(queue, rxMsg)
  /\ rxPc' = "count"
  /\ UNCHANGED <<initDone, semVars, srspRpcBuff, count, threadVars, rxMsg,
                 znpVars, calls, timedOut>>

RxCount ==
  /\ rxPc = "count"
  /\ count' = count + 1
  /\ rxPc' = "read"
  /\ UNCHANGED <<initDone, semVars, srspRpcBuff, queue, threadVars, rxMsg,
                 znpVars, calls, timedOut>>

(* A frame without SOF, cut short, or with a wrong FCS is dropped.         *)
RxDamaged ==
  /\ rxPc = "read"
  /\ uplink # <<>>
  /\ lost < MaxLost
  /\ uplink' = Tail(uplink)
  /\ lost' = lost + 1
  /\ UNCHANGED <<initDone, semVars, srspRpcBuff, queueVars, threadVars,
                 rxVars, downlink, inds, calls, timedOut>>

-----------------------------------------------------------------------------
(* The ZNP *)

(* It takes requests in order and answers an SREQ with one SRSP.           *)
ZnpAnswer ==
  /\ downlink # <<>>
  /\ downlink' = Tail(downlink)
  /\ uplink' = IF Head(downlink).type = "SREQ"
                 THEN Append(uplink, [type |-> "SRSP", id |-> Head(downlink).id,
                                      sys |-> Head(downlink).sys])
                 ELSE uplink
  /\ UNCHANGED <<initDone, semVars, srspRpcBuff, queueVars, threadVars, rxVars,
                 inds, lost, calls, timedOut>>

ZnpIndicate ==
  /\ inds < MaxInd
  /\ inds' = inds + 1
  /\ uplink' = Append(uplink, [type |-> "AREQ", sys |-> NoSys, id |-> inds + 1])
  /\ UNCHANGED <<initDone, semVars, srspRpcBuff, queueVars, threadVars, rxVars,
                 downlink, lost, calls, timedOut>>

-----------------------------------------------------------------------------
Send(t) ==
  \/ Lock(t) \/ Expect(t) \/ Write(t) \/ Wake(t) \/ SrspTimeout(t)
  \/ Clear(t) \/ Unlock(t)

Receive(t) ==
  \/ RecvToken(t) \/ RecvTimeout(t) \/ ProcessSrsp(t) \/ ProcessAreq(t)
  \/ \E s \in Subsystems : ProcessAreqNested(t, s)
  \/ ReadStatus(t)

Start(t) ==
  \/ \E type \in {"SREQ", "AREQ"}, s \in Subsystems : CallStart(t, type, s)
  \/ PollStart(t)

Rx  == RxFrame \/ RxPost \/ RxInsert \/ RxCount \/ RxDamaged
Znp == ZnpAnswer \/ ZnpIndicate

Next ==
  \/ \E t \in Threads : Send(t) \/ Receive(t) \/ Start(t)
  \/ InitDone \/ Rx \/ Znp

Spec == Init /\ [][Next]_vars

(* Every thread inside a call keeps running, the Rx thread keeps reading   *)
(* and appinmessagetask polls in an endless loop; nothing is assumed of    *)
(* the ZNP or of who starts new requests.                                  *)
Fairness ==
  /\ \A t \in Threads : WF_vars(Send(t) \/ Receive(t))
  /\ WF_vars(Rx)
  /\ Inm \in Threads => WF_vars(PollStart(Inm))

FairSpec == Spec /\ Fairness

-----------------------------------------------------------------------------
TypeOK ==
  /\ initDone \in BOOLEAN
  /\ rpcSem \in Nat /\ srspSem \in Nat /\ count \in Nat
  /\ expectedSrspCmdId \in Subsystems \cup {NoSys}
  /\ srspRpcBuff \in Frame
  /\ queue \in Seq(Frame)
  /\ pc \in [Threads -> Steps]
  /\ req \in [Threads -> Request]
  /\ status \in [Threads -> {"SUCCESS", "ERR_SUBSYSTEM"}]
  /\ outer \in [Threads -> Seq(Request)]
  /\ rxPc \in {"read", "post", "insert", "count"} /\ rxMsg \in Frame
  /\ downlink \in Seq(Request) /\ uplink \in Seq(Frame)
  /\ calls \in Nat /\ inds \in Nat /\ lost \in Nat
  /\ timedOut \subseteq Nat

(* rpcSem is free exactly when no thread is between its wait and its post, *)
(* and at most one is: a frame is never written into the middle of another *)
(* sender's exchange, even when a callback sends from inside a call.       *)
SendExclusion ==
  /\ rpcSem = IF \E t \in Threads : InSection(t) THEN 0 ELSE 1
  /\ \A t, u \in Threads : InSection(t) /\ InSection(u) => t = u

(* expectedSrspCmdId names the subsystem of the request in flight, and is  *)
(* 0xFF when there is none: an SRSP that arrives outside any exchange is   *)
(* always discarded, and one of another subsystem never wakes the sender.  *)
ExpectedMatchesFlight ==
  /\ \A t \in Threads : InFlight(t) => expectedSrspCmdId = req[t].sys
  /\ (\A t \in Threads : ~InFlight(t)) => expectedSrspCmdId = NoSys

(* AREQs reach the queue in the order the ZNP sent them, none of them      *)
(* twice, although SRSPs are put in front of them; so does the one that    *)
(* the Rx thread has read and not yet put in the queue.                    *)
Rising(s) ==
  \A i, j \in 1..Len(s) :
    i < j /\ s[i].type = "AREQ" /\ s[j].type = "AREQ" => s[i].id < s[j].id
AllBelow(s, n) == \A i \in 1..Len(s) : s[i].type = "AREQ" => s[i].id < n
AllAbove(s, n) == \A i \in 1..Len(s) : s[i].type = "AREQ" => n < s[i].id
IndicationsInOrder ==
  /\ Rising(queue) /\ Rising(uplink)
  /\ \A i \in 1..Len(queue) :
       queue[i].type = "AREQ" => AllAbove(uplink, queue[i].id)
  /\ rxPc = "insert" /\ rxMsg.type = "AREQ" =>
       AllBelow(queue, rxMsg.id) /\ AllAbove(uplink, rxMsg.id)

(* As long as no SREQ has timed out, a sender is only ever woken by the    *)
(* answer to its own request, and srspSem holds no credit for a later one. *)
Unanswered(id) ==
  \/ \E i \in 1..Len(downlink) : downlink[i].type = "SREQ" /\ downlink[i].id = id
  \/ \E i \in 1..Len(uplink) : uplink[i].type = "SRSP" /\ uplink[i].id = id
  \/ rxPc = "post" /\ rxMsg.id = id
Woken(t) ==
  /\ req[t].type = "SREQ" /\ status[t] = "SUCCESS"
  /\ pc[t] \in {"clear", "unlock", "recv", "take", "status"}
NoFalseWake ==
  timedOut = {} =>
    /\ \A t \in Threads : Woken(t) => ~Unanswered(req[t].id)
    /\ srspSem > 0 =>
         /\ srspSem = 1
         /\ \E t \in Threads : pc[t] = "await" /\ ~Unanswered(req[t].id)

(* Every call comes back, whatever the ZNP does: no thread waits for ever  *)
(* for rpcSem, for an SRSP or for a message.                               *)
CallsReturn == \A t \in Threads : pc[t] # "idle" ~> pc[t] = "idle"

(* Once the network is up, an AREQ that is in the queue is processed: the  *)
(* SRSPs put in front of it and the threads that send do not starve it.    *)
Queued(n) ==
  \E i \in 1..Len(queue) : queue[i].type = "AREQ" /\ queue[i].id = n
IndicationsServed == \A n \in 1..MaxInd : Queued(n) /\ initDone ~> ~Queued(n)

(* What zdoInit says of the status it returns (mtZdo.c:2804-2809).         *)
StatusIsOfSrsp ==
  \A t \in Threads :
    pc[t] = "status" /\ req[t].type = "SREQ" /\ req[t].sys \in Reading
      => srspRpcBuff.id = req[t].id
=============================================================================
