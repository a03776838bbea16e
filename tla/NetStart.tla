------------------------------ MODULE NetStart ------------------------------
(***************************************************************************)
(* The start of the network (startNetwork and appProcess in znp/appinit.c),*)
(* the thread that waits for it (key_event_process in key.c) and the LED   *)
(* that shows how long joining is open.                                    *)
(*                                                                         *)
(* The ZNP reports its state in AREQs; mtZdoStateChangeIndCb runs on       *)
(* whichever thread takes the report off the queue: the app thread alone   *)
(* before initDone, the app, message and key threads after it.  For        *)
(* DEV_ZB_COORD it signals state_wait under state_lock, and only after the *)
(* lock has been released does it assign devState.  The key thread tests   *)
(* devState once, under the lock, and waits.                               *)
(*                                                                         *)
(* The count of seconds the LED stays on is set by the app thread (a       *)
(* command from the phone) and by the key thread, and counted down by a    *)
(* third thread, without a lock.                                           *)
(***************************************************************************)
EXTENDS Integers, Sequences

CONSTANTS
  Durations,   (* joining times a phone asks for                          *)
  KeyDuration, (* PERMIT_JOINING_DURATION                                 *)
  MaxReports,  (* bound: state reports of the ZNP                         *)
  MaxPermits   (* bound: times joining is opened                          *)

ASSUME NetStartAssumption ==
  /\ Durations \subseteq Nat /\ KeyDuration \in Nat
  /\ MaxReports \in Nat /\ MaxPermits \in Nat

VARIABLES
  queue,     (* state reports not yet taken, oldest first                 *)
  devState,
  cb,        (* cb[t]: the next step of the callback t runs               *)
  cbState,   (* cbState[t]: its argument newDevState                      *)
  appPc,     (* the app thread                                            *)
  keyPc,     (* the key thread                                            *)
  led, led_cnt,  (* LED_set and its counter                               *)
  ledPc, ledReg, (* the thread wait_led_off and the value it has loaded   *)
  duration,  (* the argument of start_led_timer                           *)
  reports, permits,  (* how much of each bound is used                    *)
  taken,     (* history: the report taken last, "hold" after appProcess   *)
  missed,    (* history: the key thread decided to wait between a         *)
             (* callback's signal and its assignment                      *)
  disturbed  (* history: led_cnt was set where the countdown overwrites it*)

netVars   == <<queue, devState, cb, cbState, reports, taken>>
timerVars == <<led, led_cnt, ledPc, ledReg, disturbed>>
vars == <<netVars, timerVars, appPc, keyPc, duration, permits, missed>>

Threads == {"App", "Inm", "Key"}
DevStates == {"hold", "starting", "coord"}

(* Requests of startNetwork and appProcess in their order, each followed   *)
(* by a wait for one message.                                              *)
After ==
  [nvStartup |-> "reset", reset |-> "devType", devType |-> "panId",
   panId |-> "chanList", chanList |-> "registerSs",
   registerSs |-> "registerClosures", registerClosures |-> "zdoInit",
   zdoInit |-> "loop", nvBack |-> "extAddr", extAddr |-> "directCb",
   directCb |-> "create"]
Requests == DOMAIN After

(* startNetwork returns early; after zdoInit it only skips the loop.       *)
AfterFailure(step) ==
  CASE step \in {"nvStartup", "devType", "panId", "chanList"} -> "extAddr"
    [] step = "zdoInit" -> "nvBack"
    [] OTHER -> After[step]

(* Faults that would break the start, here and below; no specification     *)
(* uses them.  The callback does not take state_lock.                      *)
NotLocked == FALSE

InitDone == appPc \in {"create", "command", "count", "send"}

(* state_lock is held: a callback holds it only while it signals.          *)
Locked == keyPc \in {"test", "call"}

Init ==
  /\ queue = <<>> /\ devState = "hold"
  /\ cb = [t \in Threads |-> "none"] /\ cbState = [t \in Threads |-> "hold"]
  /\ appPc = "flush" /\ keyPc = "none"
  /\ led = FALSE /\ led_cnt = -1 /\ ledPc = "none" /\ ledReg = 0
  /\ duration = 0 /\ reports = 0 /\ permits = 0
  /\ taken = "hold" /\ missed = FALSE /\ disturbed = FALSE

-----------------------------------------------------------------------------
(* mtZdoStateChangeIndCb *)

Begin(t, s) ==
  /\ cb' = [cb EXCEPT ![t] = IF s = "coord" THEN "signal" ELSE "set"]
  /\ cbState' = [cbState EXCEPT ![t] = s]
  /\ taken' = s

(* Thread t takes a report off the queue.                                  *)
Take(t) ==
  /\ queue # <<>>
  /\ queue' = Tail(queue)
  /\ Begin(t, Head(queue))
  /\ UNCHANGED <<devState, reports>>

MayTake(t) == Take(t) \/ UNCHANGED netVars

CbSignal(t) ==
  /\ cb[t] = "signal"
  /\ ~Locked
  /\ keyPc' = IF keyPc = "wait" THEN "woken" ELSE keyPc
  /\ cb' = [cb EXCEPT ![t] = "set"]
  /\ UNCHANGED <<queue, devState, cbState, reports, taken, timerVars, appPc,
                 duration, permits, missed>>

CbSet(t) ==
  /\ cb[t] = "set"
  /\ devState' = cbState[t]
  /\ cb' = [cb EXCEPT ![t] = "none"]
  /\ UNCHANGED <<queue, cbState, reports, taken, timerVars, appPc, keyPc,
                 duration, permits, missed>>

(* The ZNP reports a state; after a reset of its own it starts again.      *)
ZnpReport(s) ==
  /\ reports < MaxReports
  /\ reports' = reports + 1
  /\ queue' = Append(queue, s)
  /\ UNCHANGED <<devState, cb, cbState, taken, timerVars, appPc, keyPc, duration,
                 permits, missed>>

(* Fault: appMsgProcess does not look at initDone.                         *)
InmPollEarly ==
  /\ cb["Inm"] = "none"
  /\ Take("Inm")
  /\ UNCHANGED <<timerVars, appPc, keyPc, duration, permits, missed>>

(* appMsgProcess *)
InmPoll ==
  /\ InitDone
  /\ cb["Inm"] = "none"
  /\ Take("Inm")
  /\ UNCHANGED <<timerVars, appPc, keyPc, duration, permits, missed>>

-----------------------------------------------------------------------------
(* appProcess *)

AppGoto(step) ==
  /\ cb["App"] = "none"
  /\ appPc' = step
  /\ UNCHANGED <<timerVars, keyPc, permits, missed>>

(* Faults: the loop ignores that rpcWaitMqClientMsg timed out; the counter *)
(* goes on below -1; the LED is never switched off.                        *)
AppLoopForever ==
  /\ appPc = "loop"
  /\ AppGoto("test")
  /\ MayTake("App")
  /\ UNCHANGED duration

LedTestAlways ==
  /\ ledPc = "sleep"
  /\ ledPc' = IF led_cnt # 0 THEN "load" ELSE "test0"
  /\ UNCHANGED <<netVars, appPc, keyPc, led, led_cnt, ledReg, duration, permits,
                 missed, disturbed>>

LedTestNever ==
  /\ ledPc = "test0"
  /\ ledPc' = "sleep"
  /\ UNCHANGED <<netVars, appPc, keyPc, led, led_cnt, ledReg, duration, permits,
                 missed, disturbed>>

(* Flush all messages from the queue.                                      *)
AppFlush ==
  /\ appPc = "flush"
  /\ IF queue # <<>> THEN AppGoto("flush") /\ Take("App")
                     ELSE AppGoto("hold") /\ UNCHANGED netVars
  /\ UNCHANGED duration

AppHold ==
  /\ appPc = "hold"
  /\ AppGoto("nvStartup")
  /\ devState' = "hold" /\ taken' = "hold"
  /\ UNCHANGED <<queue, cb, cbState, reports, duration>>

(* A request, and the message it takes if it was sent.                     *)
AppRequest ==
  /\ appPc \in Requests
  /\ \/ AppGoto(After[appPc]) /\ MayTake("App")
     \/ AppGoto(AfterFailure(appPc))
        /\ IF appPc = "zdoInit" THEN MayTake("App") ELSE UNCHANGED netVars
  /\ UNCHANGED duration

(* "flush AREQ ZDO State Change messages": until there is none, or         *)
(* DEV_ZB_COORD has been reported.                                         *)
AppLoop ==
  /\ appPc = "loop"
  /\ IF queue # <<>> THEN AppGoto("test") /\ Take("App")
                     ELSE AppGoto("nvBack") /\ UNCHANGED netVars
  /\ UNCHANGED duration

AppLoopTest ==
  /\ appPc = "test"
  /\ AppGoto(IF devState = "coord" THEN "nvBack" ELSE "loop")
  /\ UNCHANGED <<netVars, duration>>

(* initDone is set; the key thread is created.                             *)
AppCreate ==
  /\ appPc = "create" /\ cb["App"] = "none"
  /\ appPc' = "command"
  /\ keyPc' = "lock"
  /\ UNCHANGED <<netVars, timerVars, duration, permits, missed>>

(* A command whose request takes a report.                                 *)
AppCommand ==
  /\ appPc = "command"
  /\ AppGoto("command")
  /\ Take("App")
  /\ UNCHANGED duration

(* zcl_down_cmd_permit_joining: the LED first, then the counter.           *)
PermitLed(d) ==
  /\ appPc = "command" /\ cb["App"] = "none"
  /\ permits < MaxPermits
  /\ permits' = permits + 1
  /\ led' = TRUE
  /\ duration' = d
  /\ appPc' = "count"
  /\ UNCHANGED <<netVars, keyPc, led_cnt, ledPc, ledReg, missed, disturbed>>

(* wait_led_off is about to store what it has loaded, or about to load     *)
(* what it took for a number of seconds.                                   *)
Counting == ledPc \in {"load", "store"}

PermitCount ==
  /\ appPc = "count"
  /\ led_cnt' = duration
  /\ disturbed' = (disturbed \/ Counting)
  /\ appPc' = "send"
  /\ UNCHANGED <<netVars, keyPc, led, ledPc, ledReg, duration, permits, missed>>

PermitSend ==
  /\ appPc = "send"
  /\ AppGoto("command")
  /\ MayTake("App")
  /\ UNCHANGED duration

-----------------------------------------------------------------------------
(* key_event_process *)

KeyGoto(step) ==
  /\ keyPc' = step
  /\ UNCHANGED <<appPc, duration>>

KeyLock ==
  /\ keyPc = "lock"
  /\ KeyGoto("test")
  /\ UNCHANGED <<netVars, timerVars, permits, missed>>

KeyTest ==
  /\ keyPc = "test"
  /\ KeyGoto(IF devState = "coord" THEN "up" ELSE "call")
  /\ missed' = (missed \/ /\ devState # "coord"
                          /\ \E t \in Threads : cb[t] = "set" /\ cbState[t] = "coord")
  /\ UNCHANGED <<netVars, timerVars, permits>>

(* pthread_cond_wait releases state_lock as it begins to wait.             *)
KeyWait ==
  /\ keyPc = "call"
  /\ KeyGoto("wait")
  /\ UNCHANGED <<netVars, timerVars, permits, missed>>

(* POSIX allows the wait to end without a signal; the code tests nothing.  *)
KeySpurious ==
  /\ keyPc = "wait"
  /\ KeyGoto("woken")
  /\ UNCHANGED <<netVars, timerVars, permits, missed>>

(* It has the lock again, and gives it back.                               *)
KeyWoken ==
  /\ keyPc = "woken"
  /\ KeyGoto("up")
  /\ UNCHANGED <<netVars, timerVars, permits, missed>>

(* LED_Z goes on; without a key device the thread ends.                    *)
KeyUp ==
  /\ keyPc = "up"
  /\ KeyGoto("monitor") \/ KeyGoto("end")
  /\ UNCHANGED <<netVars, timerVars, permits, missed>>

(* led_monitor_start                                                       *)
KeyMonitor ==
  /\ keyPc = "monitor"
  /\ KeyGoto("read")
  /\ led_cnt' = -1
  /\ ledPc' = "sleep"
  /\ disturbed' = (disturbed \/ led)
  /\ UNCHANGED <<netVars, led, ledReg, permits, missed>>

(* Key 258 is pressed: the counter first, then the LED.                    *)
KeyPress ==
  /\ keyPc = "read" /\ cb["Key"] = "none"
  /\ permits < MaxPermits
  /\ permits' = permits + 1
  /\ KeyGoto("led")
  /\ led_cnt' = KeyDuration
  /\ disturbed' = (disturbed \/ Counting)
  /\ UNCHANGED <<netVars, led, ledPc, ledReg, missed>>

KeyLed ==
  /\ keyPc = "led"
  /\ KeyGoto("send")
  /\ led' = TRUE
  /\ UNCHANGED <<netVars, led_cnt, ledPc, ledReg, permits, missed, disturbed>>

KeySend ==
  /\ keyPc = "send"
  /\ KeyGoto("read")
  /\ MayTake("Key")
  /\ UNCHANGED <<timerVars, permits, missed>>

-----------------------------------------------------------------------------
(* wait_led_off: one turn of the loop each second *)

LedGoto(step) ==
  /\ ledPc' = step
  /\ UNCHANGED <<netVars, appPc, keyPc, duration, permits, missed>>

(* The counter is read once for each comparison, and once more to be       *)
(* decremented.                                                            *)
LedTest ==
  /\ ledPc = "sleep"
  /\ LedGoto(IF led_cnt > 0 THEN "load" ELSE "test0")
  /\ UNCHANGED <<led, led_cnt, ledReg, disturbed>>

LedTestZero ==
  /\ ledPc = "test0"
  /\ LedGoto(IF led_cnt = 0 THEN "off" ELSE "sleep")
  /\ UNCHANGED <<led, led_cnt, ledReg, disturbed>>

LedOff ==
  /\ ledPc = "off"
  /\ LedGoto("load")
  /\ led' = FALSE
  /\ disturbed' = (disturbed \/ keyPc = "led")
  /\ UNCHANGED <<led_cnt, ledReg>>

LedLoad ==
  /\ ledPc = "load"
  /\ LedGoto("store")
  /\ ledReg' = led_cnt
  /\ UNCHANGED <<led, led_cnt, disturbed>>

LedStore ==
  /\ ledPc = "store"
  /\ LedGoto("sleep")
  /\ led_cnt' = ledReg - 1
  /\ UNCHANGED <<led, ledReg, disturbed>>

-----------------------------------------------------------------------------
App ==
  \/ AppFlush \/ AppHold \/ AppRequest \/ AppLoop \/ AppLoopTest \/ AppCreate
  \/ PermitCount \/ PermitSend
Key ==
  \/ KeyLock \/ KeyTest \/ KeyWait \/ KeyWoken \/ KeyUp \/ KeyMonitor
  \/ KeyLed \/ KeySend
Monitor == LedTest \/ LedTestZero \/ LedOff \/ LedLoad \/ LedStore
Callback(t) == CbSignal(t) \/ CbSet(t)

Next ==
  \/ App \/ AppCommand \/ \E d \in Durations : PermitLed(d)
  \/ Key \/ KeyPress \/ KeySpurious
  \/ Monitor
  \/ InmPoll
  \/ \E t \in Threads : Callback(t)
  \/ \E s \in {"starting", "coord"} : ZnpReport(s)

Spec == Init /\ [][Next]_vars

(* Each thread keeps running; nothing is assumed of the ZNP, the phone or  *)
(* whoever presses the key.                                                *)
Fairness ==
  /\ WF_vars(App) /\ WF_vars(Key) /\ WF_vars(Monitor)
  /\ \A t \in Threads : WF_vars(Callback(t))
FairSpec == Spec /\ Fairness

-----------------------------------------------------------------------------
TypeOK ==
  /\ queue \in Seq(DevStates) /\ devState \in DevStates
  /\ cb \in [Threads -> {"none", "signal", "set"}]
  /\ cbState \in [Threads -> DevStates]
  /\ appPc \in Requests \cup {"flush", "hold", "loop", "test", "create",
                              "command", "count", "send"}
  /\ keyPc \in {"none", "lock", "test", "call", "wait", "woken", "up", "monitor",
                "end", "read", "led", "send"}
  /\ led \in BOOLEAN /\ led_cnt \in Nat \cup {-1}
  /\ ledPc \in {"none", "sleep", "test0", "off", "load", "store"}
  /\ ledReg \in Nat \cup {-1} /\ duration \in Nat
  /\ reports \in Nat /\ permits \in Nat
  /\ taken \in DevStates /\ missed \in BOOLEAN /\ disturbed \in BOOLEAN

(* The key thread never sleeps while the network is up, unless it decided  *)
(* to wait after a callback had signalled and before that callback         *)
(* assigned devState: state_lock does not cover the assignment.            *)
KeyNotForgotten ==
  keyPc = "wait" /\ devState = "coord" => missed

(* Until initDone, devState is the report taken last: no second thread     *)
(* runs a callback that could assign an older one over it.                 *)
StateInOrder ==
  ~InitDone /\ (\A t \in Threads : cb[t] = "none") => devState = taken

(* The start comes to an end, whichever requests fail and whether or not   *)
(* the ZNP reports anything.                                               *)
StartEnds == <>InitDone

(* Once the countdown runs, the LED does not stay on for ever, unless the  *)
(* counter was set, or the countdown started, at the wrong moment.         *)
LedGoesOff ==
  led /\ ledPc # "none" /\ ~disturbed ~> ~led \/ disturbed
=============================================================================
