-------------------------- MODULE NetStartProofs --------------------------
(***************************************************************************)
(* Proofs about NetStart: the key thread and the state of the network, for *)
(* any number of reports and any joining times.                            *)
(***************************************************************************)
EXTENDS NetStart, TLAPS

(* Nobody sleeps, or is about to, behind a callback that will assign       *)
(* DEV_ZB_COORD without another signal.                                    *)
Asleep == keyPc \in {"call", "wait"} /\ ~missed
Unsignalled ==
  Asleep => /\ devState # "coord"
            /\ \A t \in Threads : ~(cb[t] = "set" /\ cbState[t] = "coord")

CbType ==
  /\ cb \in [Threads -> {"none", "signal", "set"}]
  /\ cbState \in [Threads -> DevStates]
  /\ missed \in BOOLEAN

SleepInv == CbType /\ Unsignalled

(* Before initDone only the app thread runs callbacks.                     *)
OneRunner ==
  ~InitDone =>
    /\ cb["Inm"] = "none" /\ cb["Key"] = "none" /\ keyPc = "none"
    /\ cb["App"] = "none" => devState = taken
    /\ cb["App"] # "none" => cbState["App"] = taken
KeyCreated == appPc = "create" => keyPc = "none"

OrderInv == CbType /\ OneRunner /\ KeyCreated

(* What taking a report does to its thread, and to no other.               *)
LEMMA TakeFrame ==
  ASSUME CbType, NEW t \in Threads, Take(t),
         queue # <<>> => Head(queue) \in DevStates
  PROVE  /\ devState' = devState
         /\ cb'[t] # "none" /\ (cb'[t] = "set" => cbState'[t] # "coord")
         /\ cbState'[t] = taken'
         /\ \A u \in Threads \ {t} : cb'[u] = cb[u] /\ cbState'[u] = cbState[u]
         /\ cb' \in [Threads -> {"none", "signal", "set"}]
         /\ cbState' \in [Threads -> DevStates]
  BY DEF Take, Begin, CbType

(* The queue holds reports.                                                *)
Reports == queue \in Seq(DevStates)

LEMMA HeadIsReport == Reports => (queue # <<>> => Head(queue) \in DevStates)
  BY DEF Reports

LEMMA ReportsNext == Reports /\ [Next]_vars => Reports'
<1> SUFFICES ASSUME Reports, [Next]_vars PROVE Reports'
  OBVIOUS
<1>1. \A t : Take(t) => Reports'
  BY DEF Take, Reports
<1>2. UNCHANGED queue => Reports'
  BY DEF Reports
<1>3. ASSUME NEW s \in {"starting", "coord"}, ZnpReport(s) PROVE Reports'
  BY <1>3 DEF ZnpReport, Reports, DevStates
<1>4. CASE App \/ AppCommand \/ Key \/ KeyPress \/ KeySpurious \/ Monitor \/ InmPoll
  BY <1>1, <1>2, <1>4 DEF App, AppFlush, AppHold, AppRequest, AppLoop, AppLoopTest,
     AppCreate, AppCommand, PermitCount, PermitSend, Key, KeyLock, KeyTest,
     KeyWait, KeyWoken, KeyUp, KeyMonitor, KeyLed, KeySend, KeyPress, KeySpurious,
     Monitor, LedTest, LedTestZero, LedOff, LedLoad, LedStore, LedGoto, InmPoll,
     MayTake, netVars
<1>5. ASSUME NEW d \in Durations, PermitLed(d) PROVE Reports'
  BY <1>2, <1>5 DEF PermitLed, netVars
<1>6. ASSUME NEW t \in Threads, Callback(t) PROVE Reports'
  BY <1>2, <1>6 DEF Callback, CbSignal, CbSet
<1>7. CASE UNCHANGED vars
  BY <1>2, <1>7 DEF vars, netVars
<1> QED
  BY <1>3, <1>4, <1>5, <1>6, <1>7 DEF Next
-----------------------------------------------------------------------------
(* The key thread *)

LEMMA SleepFrame ==
  ASSUME SleepInv, UNCHANGED <<devState, cb, cbState, missed>>,
         keyPc' \in {"call", "wait"} => keyPc \in {"call", "wait"}
  PROVE  SleepInv'
  BY DEF SleepInv, CbType, Unsignalled, Asleep

LEMMA SleepTake ==
  ASSUME Reports, SleepInv, NEW t \in Threads, Take(t), UNCHANGED missed,
         keyPc' \in {"call", "wait"} => keyPc \in {"call", "wait"}
  PROVE  SleepInv'
<1>1. /\ devState' = devState /\ (cb'[t] = "set" => cbState'[t] # "coord")
      /\ \A u \in Threads \ {t} : cb'[u] = cb[u] /\ cbState'[u] = cbState[u]
      /\ cb' \in [Threads -> {"none", "signal", "set"}]
      /\ cbState' \in [Threads -> DevStates]
  BY TakeFrame, HeadIsReport DEF SleepInv
<1>2. CbType'
  BY <1>1 DEF CbType, SleepInv
<1>3. Unsignalled'
  BY <1>1 DEF SleepInv, Unsignalled, Asleep
<1> QED
  BY <1>2, <1>3 DEF SleepInv

LEMMA SleepApp ==
  ASSUME Reports, SleepInv, App \/ AppCommand \/ InmPoll
  PROVE  SleepInv'
<1> USE DEF Threads
<1>1. CASE AppHold
  BY <1>1 DEF AppHold, AppGoto, SleepInv, CbType, Unsignalled, Asleep
<1>2. CASE AppCreate
  BY <1>2, SleepFrame DEF AppCreate, netVars
<1>3. CASE PermitCount
  BY <1>3, SleepFrame DEF PermitCount, netVars
<1>4. CASE AppFlush \/ AppRequest \/ AppLoop \/ AppLoopTest \/ PermitSend
           \/ AppCommand
  <2>1. UNCHANGED <<keyPc, missed>> /\ (UNCHANGED netVars \/ Take("App"))
    BY <1>4 DEF AppFlush, AppRequest, AppLoop, AppLoopTest, PermitSend, AppCommand,
                AppGoto, MayTake
  <2>2. CASE UNCHANGED netVars
    BY <2>1, <2>2, SleepFrame DEF netVars
  <2>3. CASE Take("App")
    BY <2>1, <2>3, SleepTake
  <2> QED
    BY <2>1, <2>2, <2>3
<1>5. CASE InmPoll
  BY <1>5, SleepTake DEF InmPoll
<1> QED
  BY <1>1, <1>2, <1>3, <1>4, <1>5 DEF App

LEMMA SleepKey ==
  ASSUME Reports, SleepInv, Key \/ KeyPress \/ KeySpurious
  PROVE  SleepInv'
<1>1. CASE KeyTest
  BY <1>1 DEF KeyTest, KeyGoto, netVars, SleepInv, CbType, Unsignalled, Asleep
<1>2. CASE KeySend
  <2>1. UNCHANGED missed /\ keyPc' = "read" /\ (UNCHANGED netVars \/ Take("Key"))
    BY <1>2 DEF KeySend, KeyGoto, MayTake
  <2>2. CASE UNCHANGED netVars
    BY <2>1, <2>2, SleepFrame DEF netVars
  <2>3. CASE Take("Key")
    BY <2>1, <2>3, SleepTake DEF Threads
  <2> QED
    BY <2>1, <2>2, <2>3
<1>3. CASE KeyLock \/ KeyWait \/ KeyWoken \/ KeyUp \/ KeyMonitor \/ KeyLed \/ KeyPress
           \/ KeySpurious
  BY <1>3, SleepFrame DEF KeyLock, KeyWait, KeyWoken, KeyUp, KeyMonitor, KeyLed,
     KeyPress, KeySpurious, KeyGoto, netVars
<1> QED
  BY <1>1, <1>2, <1>3 DEF Key

LEMMA SleepRest ==
  ASSUME SleepInv, \/ Monitor \/ \E t \in Threads : Callback(t)
                   \/ \E d \in Durations : PermitLed(d)
                   \/ \E s \in {"starting", "coord"} : ZnpReport(s)
                   \/ UNCHANGED vars
  PROVE  SleepInv'
<1>1. CASE Monitor \/ UNCHANGED vars
  BY <1>1, SleepFrame DEF Monitor, LedTest, LedTestZero, LedOff, LedLoad, LedStore,
     LedGoto, vars, netVars
<1>2. ASSUME NEW d \in Durations, PermitLed(d) PROVE SleepInv'
  BY <1>2, SleepFrame DEF PermitLed, netVars
<1>3. ASSUME NEW s \in {"starting", "coord"}, ZnpReport(s) PROVE SleepInv'
  BY <1>3, SleepFrame DEF ZnpReport
<1>4. ASSUME NEW t \in Threads, CbSignal(t) PROVE SleepInv'
  <2>1. ~(keyPc' \in {"call", "wait"})
    BY <1>4 DEF CbSignal, Locked
  <2>2. CbType'
    BY <1>4 DEF CbSignal, SleepInv, CbType
  <2> QED
    BY <2>1, <2>2 DEF SleepInv, Unsignalled, Asleep
<1>5. ASSUME NEW t \in Threads, CbSet(t) PROVE SleepInv'
  BY <1>5 DEF CbSet, SleepInv, CbType, Unsignalled, Asleep
<1> QED
  BY <1>1, <1>2, <1>3, <1>4, <1>5 DEF Callback

(* The key thread sleeps while the network is up only if it decided to     *)
(* wait between a callback's signal and that callback's assignment.        *)
THEOREM NetStartKeyNotForgotten == Spec => []KeyNotForgotten
<1>1. Init => Reports /\ SleepInv
  <2>1. Init => Reports
    BY DEF Init, Reports
  <2>2. Init => CbType
    BY DEF Init, CbType, DevStates
  <2> QED
    BY <2>1, <2>2 DEF Init, SleepInv, Unsignalled, Asleep
<1>2. Reports /\ SleepInv /\ [Next]_vars => SleepInv'
  BY SleepApp, SleepKey, SleepRest DEF Next
<1>3. SleepInv => KeyNotForgotten
  BY DEF SleepInv, CbType, Unsignalled, Asleep, KeyNotForgotten
<1> QED
  BY <1>1, <1>2, <1>3, ReportsNext, PTL DEF Spec
-----------------------------------------------------------------------------
(* The order of the reports *)

LEMMA OrderFrame ==
  ASSUME OrderInv, UNCHANGED <<devState, cb, cbState, missed, taken, appPc>>,
         keyPc = "none" => keyPc' = "none"
  PROVE  OrderInv'
  BY DEF OrderInv, CbType, OneRunner, KeyCreated, InitDone

LEMMA OrderApp ==
  ASSUME Reports, OrderInv, App \/ AppCommand
  PROVE  OrderInv'
<1> USE DEF Threads
<1>1. CASE AppHold
  BY <1>1 DEF AppHold, AppGoto, OrderInv, CbType, OneRunner, KeyCreated, InitDone
<1>2. CASE AppCreate
  BY <1>2 DEF AppCreate, netVars, OrderInv, CbType, OneRunner, KeyCreated, InitDone
<1>3. CASE PermitCount
  BY <1>3 DEF PermitCount, netVars, OrderInv, CbType, OneRunner, KeyCreated, InitDone
<1>4. CASE AppFlush \/ AppRequest \/ AppLoop \/ AppLoopTest \/ PermitSend
           \/ AppCommand
  <2>1. /\ UNCHANGED <<keyPc, missed>> /\ (UNCHANGED netVars \/ Take("App"))
        /\ cb["App"] = "none"
        /\ InitDone => appPc \in {"send", "command"} /\ appPc' = "command"
    BY <1>4 DEF AppFlush, AppRequest, AppLoop, AppLoopTest, PermitSend, AppCommand,
                AppGoto, MayTake, InitDone, Requests, After
  <2>2. CASE UNCHANGED netVars
    BY <2>1, <2>2 DEF netVars, OrderInv, CbType, OneRunner, KeyCreated, InitDone
  <2>3. CASE Take("App")
    <3>1. /\ devState' = devState /\ cb'["App"] # "none"
          /\ cbState'["App"] = taken'
          /\ cb'["Inm"] = cb["Inm"] /\ cb'["Key"] = cb["Key"]
          /\ cb' \in [Threads -> {"none", "signal", "set"}]
          /\ cbState' \in [Threads -> DevStates]
      BY <2>3, TakeFrame, HeadIsReport DEF OrderInv
    <3>2. CbType'
      BY <2>1, <3>1 DEF CbType, OrderInv
    <3>3. OneRunner' /\ KeyCreated'
      BY <2>1, <3>1 DEF OrderInv, OneRunner, KeyCreated, InitDone
    <3> QED
      BY <3>2, <3>3 DEF OrderInv
  <2> QED
    BY <2>1, <2>2, <2>3
<1> QED
  BY <1>1, <1>2, <1>3, <1>4 DEF App

(* Once initDone is set the order is not claimed any more.                 *)
LEMMA OrderAfter ==
  ASSUME Reports, OrderInv, NEW t \in Threads, MayTake(t), InitDone,
         UNCHANGED <<appPc, missed>>, keyPc = "none" => keyPc' = "none"
  PROVE  OrderInv'
<1>1. CbType'
  <2>1. CASE UNCHANGED netVars
    BY <2>1 DEF netVars, OrderInv, CbType
  <2>2. CASE Take(t)
    BY <2>2, TakeFrame, HeadIsReport DEF OrderInv, CbType
  <2> QED
    BY <2>1, <2>2 DEF MayTake
<1> QED
  BY <1>1 DEF OrderInv, OneRunner, KeyCreated, InitDone

LEMMA OrderKey ==
  ASSUME Reports, OrderInv, Key \/ KeyPress \/ KeySpurious \/ InmPoll
  PROVE  OrderInv'
<1>1. CASE InmPoll
  BY <1>1, OrderAfter DEF InmPoll, MayTake, Threads
<1>2. CASE Key \/ KeyPress \/ KeySpurious
  <2>1. InitDone /\ keyPc # "none" /\ UNCHANGED appPc /\ appPc # "create"
    BY <1>2 DEF Key, KeyLock, KeyTest, KeyWait, KeyWoken, KeyUp, KeyMonitor, KeyLed,
       KeySend, KeyPress, KeySpurious, KeyGoto, OrderInv, OneRunner, KeyCreated
  <2>2. CbType'
    <3>1. CASE KeySend
      BY <2>1, <3>1, TakeFrame, HeadIsReport DEF KeySend, MayTake, netVars, OrderInv,
         CbType, Threads
    <3>2. CASE KeyTest
      BY <3>2 DEF KeyTest, netVars, OrderInv, CbType
    <3>3. CASE ~KeySend /\ ~KeyTest
      BY <1>2, <3>3 DEF Key, KeyLock, KeyWait, KeyWoken, KeyUp, KeyMonitor, KeyLed,
         KeyPress, KeySpurious, netVars, OrderInv, CbType
    <3> QED
      BY <3>1, <3>2, <3>3
  <2> QED
    BY <2>1, <2>2 DEF OrderInv, OneRunner, KeyCreated, InitDone
<1> QED
  BY <1>1, <1>2

LEMMA OrderRest ==
  ASSUME OrderInv, \/ Monitor \/ \E t \in Threads : Callback(t)
                   \/ \E d \in Durations : PermitLed(d)
                   \/ \E s \in {"starting", "coord"} : ZnpReport(s)
                   \/ UNCHANGED vars
  PROVE  OrderInv'
<1>1. CASE Monitor \/ UNCHANGED vars
  BY <1>1, OrderFrame DEF Monitor, LedTest, LedTestZero, LedOff, LedLoad, LedStore,
     LedGoto, vars, netVars
<1>2. ASSUME NEW d \in Durations, PermitLed(d) PROVE OrderInv'
  BY <1>2 DEF PermitLed, netVars, OrderInv, CbType, OneRunner, KeyCreated, InitDone
<1>3. ASSUME NEW s \in {"starting", "coord"}, ZnpReport(s) PROVE OrderInv'
  BY <1>3, OrderFrame DEF ZnpReport
<1>4. ASSUME NEW t \in Threads, CbSignal(t) PROVE OrderInv'
  <2>1. CbType'
    BY <1>4 DEF CbSignal, OrderInv, CbType
  <2>2. ~InitDone => t = "App"
    BY <1>4 DEF CbSignal, OrderInv, OneRunner, Threads
  <2>3. OneRunner' /\ KeyCreated'
    BY <1>4, <2>2 DEF CbSignal, OrderInv, CbType, OneRunner, KeyCreated, InitDone,
                      Threads
  <2> QED
    BY <2>1, <2>3 DEF OrderInv
<1>5. ASSUME NEW t \in Threads, CbSet(t) PROVE OrderInv'
  <2>1. CbType'
    BY <1>5 DEF CbSet, OrderInv, CbType
  <2>2. ~InitDone => t = "App"
    BY <1>5 DEF CbSet, OrderInv, OneRunner, Threads
  <2>3. OneRunner' /\ KeyCreated'
    BY <1>5, <2>2 DEF CbSet, OrderInv, CbType, OneRunner, KeyCreated, InitDone,
                      Threads
  <2> QED
    BY <2>1, <2>3 DEF OrderInv
<1> QED
  BY <1>1, <1>2, <1>3, <1>4, <1>5 DEF Callback

(* While the network starts, devState is what the ZNP reported last.       *)
THEOREM NetStartStateInOrder == Spec => []StateInOrder
<1>1. Init => Reports /\ OrderInv
  <2>1. Init => Reports
    BY DEF Init, Reports
  <2>2. Init => CbType
    BY DEF Init, CbType, DevStates
  <2> QED
    BY <2>1, <2>2 DEF Init, OrderInv, OneRunner, KeyCreated, Threads
<1>2. Reports /\ OrderInv /\ [Next]_vars => OrderInv'
  BY OrderApp, OrderKey, OrderRest DEF Next
<1>3. OrderInv => StateInOrder
  BY DEF OrderInv, OneRunner, StateInOrder, Threads
<1> QED
  BY <1>1, <1>2, <1>3, ReportsNext, PTL DEF Spec
-----------------------------------------------------------------------------
(* Types *)

(* The countdown decrements only what is not negative: its thread starts   *)
(* once, after the key thread, whose part of the start resets the counter. *)
Waiting == keyPc \in {"none", "lock", "test", "call", "wait", "woken", "up", "monitor"}

CountInv ==
  /\ appPc \notin {"command", "count", "send"} => keyPc = "none"
  /\ Waiting => ledPc = "none"
  /\ ledPc \in {"off", "load"} => led_cnt >= 0
  /\ ledPc = "store" => ledReg >= 0

TypeInv == TypeOK /\ CountInv

(* A step that at most takes a report.                                     *)
LEMMA TakeTypes ==
  ASSUME TypeOK, NEW t \in Threads, MayTake(t)
  PROVE  /\ queue' \in Seq(DevStates) /\ devState' \in DevStates
         /\ cb' \in [Threads -> {"none", "signal", "set"}]
         /\ cbState' \in [Threads -> DevStates]
         /\ reports' \in Nat /\ taken' \in DevStates
<1>1. CASE UNCHANGED netVars
  BY <1>1 DEF netVars, TypeOK
<1>2. CASE Take(t)
  <2>1. Head(queue) \in DevStates /\ Tail(queue) \in Seq(DevStates)
    BY <1>2 DEF Take, TypeOK
  <2> QED
    BY <1>2, <2>1 DEF Take, Begin, TypeOK
<1> QED
  BY <1>1, <1>2 DEF MayTake

LEMMA TypeApp ==
  ASSUME TypeInv, App \/ AppCommand \/ \E d \in Durations : PermitLed(d)
  PROVE  TypeInv'
<1> USE DEF TypeInv, CountInv, Waiting, AppGoto, timerVars, Requests, After
<1> "App" \in Threads
  BY DEF Threads
<1>1. CASE AppFlush \/ AppLoop \/ AppCommand \/ PermitSend \/ AppRequest \/ AppLoopTest
  <2>1. MayTake("App") /\ UNCHANGED <<timerVars, keyPc, permits, missed, duration>>
    BY <1>1 DEF AppFlush, AppLoop, AppCommand, PermitSend, AppRequest, AppLoopTest,
       MayTake, netVars
  <2>2. /\ appPc' \in Requests \cup {"flush", "hold", "loop", "test", "create", "command"}
        /\ appPc \in {"command", "count", "send"} <=> appPc' \in {"command", "count", "send"}
    BY <1>1 DEF AppFlush, AppLoop, AppCommand, PermitSend, AppRequest, AppLoopTest,
       AfterFailure
  <2> QED
    BY <2>1, <2>2, TakeTypes DEF TypeOK
<1>2. CASE AppHold
  BY <1>2 DEF AppHold, TypeOK, DevStates
<1>3. CASE AppCreate
  BY <1>3 DEF AppCreate, TypeOK, netVars
<1>4. CASE PermitCount
  BY <1>4 DEF PermitCount, TypeOK, netVars
<1>5. ASSUME NEW d \in Durations, PermitLed(d) PROVE TypeInv'
  BY <1>5, NetStartAssumption DEF PermitLed, TypeOK, netVars
<1> QED
  BY <1>1, <1>2, <1>3, <1>4, <1>5 DEF App

LEMMA TypeKey ==
  ASSUME TypeInv, Key \/ KeyPress \/ KeySpurious
  PROVE  TypeInv'
<1> USE DEF TypeInv, CountInv, Waiting, KeyGoto, timerVars
<1>1. CASE KeySend
  <2>1. MayTake("Key") /\ "Key" \in Threads
    BY <1>1 DEF KeySend, Threads
  <2> QED
    BY <1>1, <2>1, TakeTypes DEF KeySend, TypeOK
<1>2. CASE KeyTest
  BY <1>2 DEF KeyTest, TypeOK, netVars
<1>3. CASE KeyMonitor
  BY <1>3 DEF KeyMonitor, TypeOK, netVars
<1>4. CASE KeyPress
  BY <1>4, NetStartAssumption DEF KeyPress, TypeOK, netVars
<1>5. CASE KeyLock \/ KeyWait \/ KeySpurious \/ KeyWoken \/ KeyUp
  BY <1>5 DEF KeyLock, KeyWait, KeySpurious, KeyWoken, KeyUp, TypeOK, netVars
<1>6. CASE KeyLed
  BY <1>6 DEF KeyLed, TypeOK, netVars
<1> QED
  BY <1>1, <1>2, <1>3, <1>4, <1>5, <1>6 DEF Key

LEMMA TypeRest ==
  ASSUME TypeInv, \/ Monitor \/ InmPoll \/ \E t \in Threads : Callback(t)
                  \/ \E s \in {"starting", "coord"} : ZnpReport(s)
                  \/ UNCHANGED vars
  PROVE  TypeInv'
<1> USE DEF TypeInv, CountInv, Waiting, timerVars
<1>1. CASE Monitor
  <2>1. /\ ledPc # "none" /\ ledPc' # "none" /\ ~Waiting'
        /\ UNCHANGED <<netVars, appPc, keyPc, duration, permits, missed>>
    BY <1>1 DEF Monitor, LedTest, LedTestZero, LedOff, LedLoad, LedStore, LedGoto
  <2>2. /\ led' \in BOOLEAN /\ disturbed' \in BOOLEAN
        /\ ledPc' \in {"none", "sleep", "test0", "off", "load", "store"}
    BY <1>1 DEF Monitor, LedTest, LedTestZero, LedOff, LedLoad, LedStore, LedGoto, TypeOK
  <2>3. /\ led_cnt' \in Nat \cup {-1} /\ ledReg' \in Nat \cup {-1}
        /\ ledPc' \in {"off", "load"} => led_cnt' >= 0
        /\ ledPc' = "store" => ledReg' >= 0
    <3>1. CASE LedTest \/ LedTestZero
      BY <3>1 DEF LedTest, LedTestZero, LedGoto, TypeOK
    <3>2. CASE LedOff \/ LedLoad
      BY <3>2 DEF LedOff, LedLoad, LedGoto, TypeOK
    <3>3. CASE LedStore
      BY <3>3 DEF LedStore, LedGoto, TypeOK
    <3> QED
      BY <1>1, <3>1, <3>2, <3>3 DEF Monitor
  <2>4. TypeOK'
    BY <2>1, <2>2, <2>3 DEF TypeOK, netVars
  <2> QED
    BY <2>1, <2>3, <2>4 DEF TypeOK
<1>2. CASE InmPoll
  <2>1. MayTake("Inm") /\ "Inm" \in Threads
    BY <1>2 DEF InmPoll, MayTake, Threads
  <2> QED
    BY <1>2, <2>1, TakeTypes DEF InmPoll, TypeOK
<1>3. ASSUME NEW t \in Threads, CbSignal(t) PROVE TypeInv'
  BY <1>3 DEF CbSignal, TypeOK
<1>4. ASSUME NEW t \in Threads, CbSet(t) PROVE TypeInv'
  BY <1>4 DEF CbSet, TypeOK
<1>5. ASSUME NEW s \in {"starting", "coord"}, ZnpReport(s) PROVE TypeInv'
  BY <1>5 DEF ZnpReport, TypeOK, DevStates
<1>6. CASE UNCHANGED vars
  BY <1>6 DEF vars, netVars, TypeOK
<1> QED
  BY <1>1, <1>2, <1>3, <1>4, <1>5, <1>6 DEF Callback

(* Every variable keeps its type; in particular the counter of the LED     *)
(* never falls below -1, at which the countdown stands still.              *)
THEOREM NetStartTypeOK == Spec => []TypeOK
<1>1. Init => TypeInv
  <2> SUFFICES ASSUME Init PROVE TypeInv
    OBVIOUS
  <2>1. queue \in Seq(DevStates) /\ devState \in DevStates /\ taken \in DevStates
    BY DEF Init, DevStates
  <2>2. /\ cb \in [Threads -> {"none", "signal", "set"}]
        /\ cbState \in [Threads -> DevStates]
    BY DEF Init, DevStates
  <2>3. /\ led_cnt \in Nat \cup {-1} /\ ledReg \in Nat \cup {-1}
        /\ duration \in Nat /\ reports \in Nat /\ permits \in Nat
    BY DEF Init
  <2>4. TypeOK
    BY <2>1, <2>2, <2>3 DEF Init, TypeOK
  <2>5. CountInv
    BY DEF Init, CountInv, Waiting
  <2> QED
    BY <2>4, <2>5 DEF TypeInv
<1>2. TypeInv /\ [Next]_vars => TypeInv'
  BY TypeApp, TypeKey, TypeRest DEF Next
<1>3. TypeInv => TypeOK
  BY DEF TypeInv
<1> QED
  BY <1>1, <1>2, <1>3, PTL DEF Spec
=============================================================================
