------------------------------ MODULE Reports ------------------------------
(***************************************************************************)
(* What a sensor reports, from the radio to the phones: a callback thread  *)
(* (appinit.c, zcl.c, zcl_ss.c) looks the sender up and writes a record to *)
(* the pipe g_znpwfd, the main thread (event_recvznp of event.c) takes it  *)
(* from there, looks the device up again, drops what seq_after takes for   *)
(* old, and broadcasts an alarm if the endpoint is armed.                  *)
(*                                                                         *)
(* Nothing locks the device list.  The number of the last notification is  *)
(* in memory and in the blob of the device's row; the main thread writes   *)
(* both after an accepted one, callbacks set them to 0 when the device     *)
(* leaves and, for one maker, memory only when it announces itself.        *)
(*                                                                         *)
(* One sensor is followed, with one endpoint.  It numbers what it sends    *)
(* modulo M (256) and starts again at 0 when its battery is changed; the   *)
(* model also keeps the unreduced number, and how often it has started.    *)
(* The radio loses, repeats and reorders messages.                         *)
(***************************************************************************)
EXTENDS Integers, Sequences, SequencesExt

CONSTANTS
  M,          (* transaction numbers (256)                                 *)
  Window,     (* how far back seq_after still calls a number old (64)      *)
  Day,        (* minutes of a day (24 * 60)                                *)
  Threads,    (* threads that run callbacks                                *)
  Armings,    (* what DEVICE_SETARM brings                                 *)
  Starts,     (* the number before the sensor's first                      *)
  Gaps,       (* how far its number moves from one report to the next      *)
  MaxReports, (* bound: reports sent                                       *)
  MaxEvents   (* bound: repeated deliveries, starts of the sensor, leaves, *)
              (* sirens, deletions, new armings, busy databases, restarts  *)

Minutes == 0..(Day - 1)
Arming == [model : {"ARM", "DISARM", "ARMTIME"}, start : Minutes, end : Minutes]
Zeroed == [model |-> "ARM", start |-> 0, end |-> 0]  (* what memset leaves *)

ASSUME ReportsAssumption ==
  /\ Window \in Nat \ {0} /\ M = 4 * Window /\ Day \in Nat \ {0}
  /\ Armings \subseteq Arming /\ Starts \subseteq Int /\ Gaps \subseteq Nat \ {0}
  /\ MaxReports \in Nat /\ MaxEvents \in Nat

VARIABLES
  charMin, feibit,  (* whether char is signed, and the sensor of this make *)
  sensor,           (* how often it has started, and its unreduced number  *)
  air,              (* messages the radio may still deliver                *)
  listed,           (* the sensor's entry of the device list               *)
  siren,            (* the list holds a warning device with its endpoint   *)
  arm, mem, row,    (* the endpoint's arm, zcl_transnum, and the number in *)
                    (* the blob                                            *)
  hand,             (* what each callback thread holds                     *)
  pipe,             (* g_znpwfd                                            *)
  main,             (* event_recvznp: its next step and its locals         *)
  used,             (* how much of each bound is used                      *)
  wreck,            (* why the process is dead: "excused" or "plain"       *)
  memFrom, rowFrom, (* history: the report mem and row come from           *)
  reset,            (* history: how the numbers were last set to 0 since   *)
                    (* the sensor started                                  *)
  alarms, raised,   (* history: alarms broadcast, and for which reports    *)
  high, calm,       (* history: the highest report accepted, and whether   *)
                    (* mem has only moved up to it                         *)
  second, missed    (* history: the report last handled, if it alarmed     *)
                    (* again or was dropped                                *)

fixed == <<charMin, feibit>>
device == <<listed, siren, arm>>
numbers == <<mem, row, memFrom, rowFrom, reset>>
verdicts == <<alarms, raised, high, calm, second, missed>>
vars == <<fixed, sensor, air, device, numbers, hand, pipe, main, used, wreck, verdicts>>

Numbers == 0..(M - 1)
Notifications == {"alarm", "beat"}
Answers == {"onoff", "enrol"}
Report(k, i, n) == [kind |-> k, inc |-> i, n |-> n, stale |-> FALSE, known |-> TRUE]
Count == [inc : Nat, n : Int]
Zero == [inc |-> 0, n |-> 0]    (* the number was set to 0                 *)
Nothing == Report("none", 0, 0)
Message == [kind : Notifications \cup Answers \cup {"annce", "leave", "none"},
            inc : Nat, n : Int, stale : BOOLEAN, known : BOOLEAN]
Locals == [pc : {"idle", "judge", "note", "store"}, rep : Message, at : Minutes,
           wd : BOOLEAN, joined : BOOLEAN]
Idle == [pc |-> "idle", rep |-> Nothing, at |-> 0, wd |-> FALSE, joined |-> FALSE]

Up == wreck = "none"
(* Something but a report happens.                                         *)
Event == used.events < MaxEvents /\ used' = [used EXCEPT !.events = @ + 1]

(* A byte taken as char, which is signed or unsigned as the compiler has   *)
(* it.                                                                     *)
Char(x) == IF charMin < 0 /\ x >= M \div 2 THEN x - M ELSE x

(* As a mutant: what is far behind is old too.                             *)
seq_after_simple(a, b) == Char(b) - Char(a) < 0
(* As a mutant: one step behind counts as new.                             *)
seq_after_short(a, b) == Char(b) - Char(a) < 0 \/ Char(b) - Char(a) >= Window

(* The macro of event.c: is the number a new after b?                      *)
seq_after(a, b) == Char(b) - Char(a) < 0 \/ Char(b) - Char(a) > Window

(* As a mutant: a period does not pass midnight.                           *)
toolkit_in_day(p, t) == p.start <= t /\ t <= p.end

(* Both ends are counted from the start of the period, modulo the day.     *)
toolkit_in_period(p, t) ==
  LET Past(x) == IF x < p.start THEN x - p.start + Day ELSE x - p.start
  IN  Past(t) <= Past(p.end)

endpoint_check_arm(a, t) ==
  a.model = "ARM" \/ (a.model = "ARMTIME" /\ toolkit_in_period(a, t))

Init ==
  /\ charMin \in {0, -(M \div 2)} /\ feibit \in BOOLEAN
  /\ sensor \in [inc : {1}, n : Starts] /\ air = {}
  /\ listed = "known" /\ siren = FALSE /\ arm = Zeroed
  /\ mem = 0 /\ row = 0 /\ memFrom = Zero /\ rowFrom = Zero /\ reset = "none"
  /\ hand = [t \in Threads |-> Nothing] /\ pipe = <<>> /\ main = Idle
  /\ used = [reports |-> 0, events |-> 0] /\ wreck = "none"
  /\ alarms = 0 /\ raised = {} /\ high = Zero /\ calm = TRUE
  /\ second = {} /\ missed = {}

-----------------------------------------------------------------------------
(* The sensor.                                                             *)

Sense(k, g) ==
  /\ used.reports < MaxReports /\ used' = [used EXCEPT !.reports = @ + 1]
  /\ sensor' = [sensor EXCEPT !.n = @ + g]
  /\ air' = air \cup {Report(k, sensor.inc, sensor.n + g)}
  /\ UNCHANGED <<fixed, device, numbers, hand, pipe, main, wreck, verdicts>>

(* What it asks and answers: nobody looks at the number.                   *)
Answer(k) ==
  /\ used.reports < MaxReports /\ used' = [used EXCEPT !.reports = @ + 1]
  /\ air' = air \cup {Report(k, sensor.inc, 0)}
  /\ UNCHANGED <<fixed, sensor, device, numbers, hand, pipe, main, wreck, verdicts>>

(* It starts again with number 0 and announces itself.                     *)
SensorStarts ==
  /\ Event
  /\ sensor' = [inc |-> sensor.inc + 1, n |-> -1]
  /\ air' = air \cup {Report("annce", sensor.inc + 1, -1)}
  /\ reset' = "none"
  /\ UNCHANGED <<fixed, device, mem, row, memFrom, rowFrom, hand, pipe, main,
                 wreck, verdicts>>

SensorLeaves ==
  /\ Event
  /\ air' = air \cup {Report("leave", sensor.inc, sensor.n)}
  /\ UNCHANGED <<fixed, sensor, device, numbers, hand, pipe, main, wreck, verdicts>>

(* The radio hands a message over, and may do so once more.                *)
Deliver(m) ==
  \/ air' = air \ {m} /\ UNCHANGED used
  \/ Event /\ UNCHANGED air

-----------------------------------------------------------------------------
(* Callback threads.                                                       *)

(* Reports the gateway has not finished with.                              *)
InGateway == {hand[t] : t \in Threads} \cup ToSet(pipe) \cup {main.rep}

(* Memory is set to 0: "dirty" if reports from before the sensor's last    *)
(* start are still on their way.                                           *)
Reset ==
  /\ mem' = 0 /\ memFrom' = Zero
  /\ reset' = IF \E r \in air \cup InGateway : r.kind \in Notifications /\ r.inc < sensor.inc
              THEN "dirty" ELSE "clean"
  /\ calm' = FALSE
  /\ UNCHANGED <<alarms, raised, high, second, missed>>

(* As a mutant: the sender is not looked up before the message is parsed.  *)
IncomingUnchecked(t, m) ==
  /\ Up /\ hand[t] = Nothing /\ m \in air /\ m.kind \in Notifications \cup Answers
  /\ Deliver(m)
  /\ hand' = [hand EXCEPT ![t] = m]
  /\ UNCHANGED <<fixed, sensor, device, numbers, pipe, main, wreck, verdicts>>

(* mtAfIncomingMsgCb, which zcl_proccessincomingmessage repeats.           *)
Incoming(t, m) ==
  /\ Up /\ hand[t] = Nothing /\ m \in air /\ m.kind \in Notifications \cup Answers
  /\ Deliver(m)
  /\ hand' = IF listed = "absent" THEN hand ELSE [hand EXCEPT ![t] = m]
  /\ UNCHANGED <<fixed, sensor, device, numbers, pipe, main, wreck, verdicts>>

(* A change notification is dropped if its device is gone by now.          *)
ChangeNotification(t) ==
  /\ Up /\ hand[t].kind \in Notifications
  /\ pipe' = IF listed = "absent" THEN pipe ELSE Append(pipe, hand[t])
  /\ hand' = [hand EXCEPT ![t] = Nothing]
  /\ UNCHANGED <<fixed, sensor, air, device, numbers, main, used, wreck, verdicts>>

(* An enroll request asserts that it is still there.                       *)
EnrollRequest(t) ==
  /\ Up /\ hand[t].kind = "enrol"
  /\ IF listed = "absent"
     THEN /\ wreck' = IF hand[t].stale THEN "excused" ELSE "plain"
          /\ UNCHANGED pipe
     ELSE pipe' = Append(pipe, hand[t]) /\ UNCHANGED wreck
  /\ hand' = [hand EXCEPT ![t] = Nothing]
  /\ UNCHANGED <<fixed, sensor, air, device, numbers, main, used, verdicts>>

(* The response to an on/off command is written in any case: without a     *)
(* device its address is what lay on the stack.                            *)
OnOffResponse(t) ==
  /\ Up /\ hand[t].kind = "onoff"
  /\ \E k \in IF listed = "absent" THEN BOOLEAN ELSE {TRUE} :
       pipe' = Append(pipe, [hand[t] EXCEPT !.known = k])
  /\ hand' = [hand EXCEPT ![t] = Nothing]
  /\ UNCHANGED <<fixed, sensor, air, device, numbers, main, used, wreck, verdicts>>

(* mtZdoEndDeviceAnnceIndCb: an unknown device is added, of a known one of *)
(* this make the number is set to 0, though not in its row.                *)
Annce(t, m) ==
  /\ Up /\ hand[t] = Nothing /\ m \in air /\ m.kind = "annce"
  /\ Deliver(m)
  /\ listed' = IF listed = "absent" THEN "bare" ELSE listed
  /\ IF feibit /\ listed = "known"
     THEN Reset /\ UNCHANGED <<row, rowFrom>>
     ELSE UNCHANGED <<numbers, verdicts>>
  /\ UNCHANGED <<fixed, sensor, siren, arm, hand, pipe, main, wreck>>

(* The interview ends: the new endpoint is in memory and in the row.       *)
SimpleDesc ==
  /\ Up /\ listed = "bare" /\ listed' = "known" /\ arm' = Zeroed
  /\ Reset /\ row' = 0 /\ rowFrom' = Zero
  /\ UNCHANGED <<fixed, sensor, air, siren, hand, pipe, main, used, wreck>>

(* The interview of a warning device ends.                                 *)
SirenJoins ==
  /\ Up /\ ~siren /\ siren' = TRUE /\ Event
  /\ main' = IF main = Idle THEN main ELSE [main EXCEPT !.joined = TRUE]
  /\ UNCHANGED <<fixed, sensor, air, listed, arm, numbers, hand, pipe, wreck, verdicts>>

(* mtZdoLeaveIndCb: memory first, and then the row.                        *)
Leave(t, m) ==
  /\ Up /\ hand[t] = Nothing /\ m \in air /\ m.kind = "leave"
  /\ Deliver(m)
  /\ IF listed = "known"
     THEN /\ Reset /\ UNCHANGED <<row, rowFrom>>
          /\ hand' = [hand EXCEPT ![t] = m]
     ELSE UNCHANGED <<numbers, verdicts, hand>>
  /\ UNCHANGED <<fixed, sensor, device, pipe, main, wreck>>

(* sqlitedb_update_device_seq looks the device up again, without a test.   *)
LeaveRow(t) ==
  /\ Up /\ hand[t].kind = "leave"
  /\ IF listed = "absent"
     THEN /\ wreck' = IF hand[t].stale THEN "excused" ELSE "plain"
          /\ UNCHANGED <<row, rowFrom, used>>
     ELSE /\ UNCHANGED wreck
          /\ \/ row' = 0 /\ rowFrom' = Zero /\ UNCHANGED used
             \/ Event /\ UNCHANGED <<row, rowFrom>>
  /\ hand' = [hand EXCEPT ![t] = Nothing]
  /\ UNCHANGED <<fixed, sensor, air, device, mem, memFrom, reset, pipe, main, verdicts>>

-----------------------------------------------------------------------------
(* The main thread.                                                        *)

MainFree == Up /\ main = Idle

(* event_recvznp takes the next record from the pipe.  Of a notification   *)
(* the warning device's endpoint is looked up first.                       *)
TakeNotification ==
  /\ MainFree /\ pipe # <<>> /\ Head(pipe).kind \in Notifications
  /\ pipe' = Tail(pipe)
  /\ IF listed = "absent"
     THEN UNCHANGED main
     ELSE main' = [Idle EXCEPT !.pc = "judge", !.rep = Head(pipe), !.wd = siren]
  /\ second' = {} /\ missed' = {}
  /\ UNCHANGED <<fixed, sensor, air, device, numbers, hand, used, wreck, alarms, raised,
                 high, calm>>

(* An enrolled device is named; one that is gone is forgotten.             *)
TakeEnroll ==
  /\ MainFree /\ pipe # <<>> /\ Head(pipe).kind = "enrol"
  /\ pipe' = Tail(pipe)
  /\ UNCHANGED <<fixed, sensor, air, device, numbers, hand, main, used, wreck, verdicts>>

(* The state of an on/off response goes to the row of its device, which    *)
(* sqlitedb_update_device_state looks up without a test.                   *)
TakeOnOff ==
  /\ MainFree /\ pipe # <<>> /\ Head(pipe).kind = "onoff"
  /\ pipe' = Tail(pipe)
  /\ wreck' = IF Head(pipe).known /\ listed # "absent" THEN "none"
              ELSE IF Head(pipe).stale THEN "excused" ELSE "plain"
  /\ UNCHANGED <<fixed, sensor, air, device, numbers, hand, main, used, verdicts>>

(* Of a later start than all before, the count only rises so far.          *)
Accept(c) ==
  LET newer == c.inc > high.inc
      above == c.inc = high.inc /\ c.n >= high.n
  IN  /\ high' = IF newer \/ above THEN c ELSE high
      /\ calm' = (newer \/ (calm /\ above))

(* The endpoint is looked up, and the number compared with its last one.   *)
(* A new one that is no heartbeat raises an alarm if the endpoint is armed *)
(* at this minute; if it reports alarm1 or alarm2 the siren is started     *)
(* first, with the endpoint found earlier.                                 *)
Judge(at) ==
  /\ Up /\ main.pc = "judge"
  /\ LET r == main.rep
         new == listed = "known" /\ seq_after(r.n % M, mem)
         alarm == r.kind = "alarm" /\ endpoint_check_arm(arm, at)
         count == [inc |-> r.inc, n |-> r.n]
     IN  \/ /\ ~new /\ main' = Idle
            /\ missed' = IF listed = "known"
                         THEN {[rep |-> count, from |-> memFrom, reset |-> reset]}
                         ELSE {}
            /\ UNCHANGED <<wreck, alarms, raised, high, calm, second>>
         \/ /\ new /\ alarm /\ siren /\ ~main.wd
            /\ wreck' = IF main.joined THEN "excused" ELSE "plain"
            /\ UNCHANGED <<main, verdicts>>
         \/ /\ new
            /\ main' = [Idle EXCEPT !.pc = "note", !.rep = r, !.at = at]
            /\ IF alarm
               THEN /\ alarms' = alarms + 1 /\ raised' = raised \cup {count}
                    /\ second' = IF count \in raised
                                 THEN {[rep |-> count, high |-> high, calm |-> calm]}
                                 ELSE {}
               ELSE UNCHANGED <<alarms, raised, second>>
            /\ Accept(count)
            /\ UNCHANGED <<wreck, missed>>
  /\ UNCHANGED <<fixed, sensor, air, device, numbers, hand, pipe, used>>

(* Armed or not, the number is noted in memory.                            *)
Note ==
  /\ Up /\ main.pc = "note"
  /\ mem' = main.rep.n % M
  /\ memFrom' = [inc |-> main.rep.inc, n |-> main.rep.n]
  /\ main' = [Idle EXCEPT !.pc = "store", !.rep = main.rep]
  /\ UNCHANGED <<fixed, sensor, air, device, row, rowFrom, reset, hand, pipe, used,
                 wreck, verdicts>>

(* And in the row, unless another thread is writing.                       *)
Store ==
  /\ Up /\ main.pc = "store" /\ main' = Idle
  /\ \/ row' = main.rep.n % M /\ UNCHANGED used
        /\ rowFrom' = [inc |-> main.rep.inc, n |-> main.rep.n]
     \/ Event /\ UNCHANGED <<row, rowFrom>>
  /\ UNCHANGED <<fixed, sensor, air, device, mem, memFrom, reset, hand, pipe, wreck,
                 verdicts>>

(* As a mutant: commands have a thread of their own.                       *)
DeleteAnytime ==
  /\ Up /\ listed # "absent" /\ Event
  /\ listed' = "absent"
  /\ UNCHANGED <<fixed, sensor, air, siren, arm, numbers, hand, pipe, main, wreck,
                 verdicts>>

(* DEVICE_DEL frees the device.                                            *)
Delete ==
  /\ MainFree /\ listed # "absent" /\ Event
  /\ listed' = "absent"
  /\ hand' = [t \in Threads |-> IF hand[t] = Nothing THEN Nothing
                                ELSE [hand[t] EXCEPT !.stale = TRUE]]
  /\ pipe' = [i \in DOMAIN pipe |-> [pipe[i] EXCEPT !.stale = TRUE]]
  /\ UNCHANGED <<fixed, sensor, air, siren, arm, numbers, main, wreck, verdicts>>

(* DEVICE_SETARM.  A write that fails leaves everything as it was.         *)
SetArm(a) ==
  /\ MainFree /\ listed = "known" /\ Event
  /\ arm' = a
  /\ UNCHANGED <<fixed, sensor, air, listed, siren, numbers, hand, pipe, main, wreck,
                 verdicts>>

(* The process dies, or has died, and is started again: memory is read     *)
(* from the rows, the threads and the pipe are new.                        *)
Restart ==
  /\ Event
  /\ hand' = [t \in Threads |-> Nothing] /\ pipe' = <<>> /\ main' = Idle
  /\ wreck' = "none" /\ mem' = row /\ memFrom' = rowFrom
  /\ reset' = IF rowFrom = memFrom THEN reset ELSE "none"
  /\ calm' = (calm /\ rowFrom = memFrom /\ main.pc # "note")
  /\ second' = {} /\ missed' = {}
  /\ UNCHANGED <<fixed, sensor, air, device, row, rowFrom, alarms, raised, high>>

Next ==
  \/ \E k \in Notifications, g \in Gaps : Sense(k, g)
  \/ \E k \in Answers : Answer(k)
  \/ SensorStarts \/ SensorLeaves
  \/ \E t \in Threads : \/ \E m \in air : Incoming(t, m) \/ Annce(t, m) \/ Leave(t, m)
                        \/ ChangeNotification(t) \/ EnrollRequest(t) \/ OnOffResponse(t)
                        \/ LeaveRow(t)
  \/ SimpleDesc \/ SirenJoins
  \/ TakeNotification \/ TakeEnroll \/ TakeOnOff \/ Note \/ Store
  \/ \E at \in Minutes : Judge(at)
  \/ Delete \/ \E a \in Armings : SetArm(a)
  \/ Restart

Spec == Init /\ [][Next]_vars

-----------------------------------------------------------------------------
(* Every variable keeps its type, and the main thread's device is listed   *)
(* for as long as it works on it.                                          *)
TypeOK ==
  /\ charMin \in {0, -(M \div 2)} /\ feibit \in BOOLEAN /\ sensor \in Count
  /\ listed \in {"known", "bare", "absent"} /\ siren \in BOOLEAN /\ arm \in Arming
  /\ mem \in Numbers /\ row \in Numbers /\ memFrom \in Count /\ rowFrom \in Count
  /\ reset \in {"none", "clean", "dirty"}
  /\ air \subseteq Message /\ hand \in [Threads -> Message] /\ pipe \in Seq(Message)
  /\ main \in Locals /\ (main # Idle => listed # "absent")
  /\ used \in [reports : Nat, events : Nat] /\ wreck \in {"none", "excused", "plain"}
  /\ alarms \in Nat /\ raised \subseteq Count /\ high \in Count /\ calm \in BOOLEAN
  /\ second \subseteq [rep : Count, high : Count, calm : BOOLEAN]
  /\ missed \subseteq [rep : Count, from : Count, reset : {"none", "clean", "dirty"}]

(* A report alarms a second time only if the numbers were set or rolled    *)
(* back in between (the process dying before they were stored is one way), *)
(* or if it comes so late that its number is more than Window behind, or   *)
(* from across the edge where char jumps.                                  *)
Lap(n) == (n - charMin) \div M
NoSecondAlarm ==
  \A s \in second : \/ ~s.calm \/ s.high.inc # s.rep.inc
                    \/ s.high.n - s.rep.n > Window
                    \/ Lap(s.high.n) # Lap(s.rep.n)

(* A notification that the gateway compares with the number it has is      *)
(* dropped only if it or a later one was accepted, if                      *)
(* 3 * Window numbers were skipped, if it lies within Window before a      *)
(* number set to 0 or is 0 itself, or if the number is left from before    *)
(* the sensor's last start: then it is a latecomer, or nothing set the     *)
(* number to 0, or a report from before the start was still on its way.    *)
(* What is given up before that, because its device is not in the list or  *)
(* because the process died, is not counted.                               *)
DroppedOnlyIfOld ==
  \A d \in missed :
    LET r == d.rep
        f == d.from
    IN  \/ f = Zero /\ (-r.n) % M <= Window
        \/ f.inc = r.inc /\ (f.n >= r.n \/ r.n - f.n >= 3 * Window)
        \/ f.inc > r.inc
        \/ f.inc < r.inc /\ f # Zero /\ (d.reset # "clean" \/ r.inc < sensor.inc)

(* The process dies by a report only if the list changed while the report  *)
(* was inside the gateway: the device was deleted, or a siren joined       *)
(* between the two walks that look for its endpoint and for itself.        *)
DiesOnlyInRace == wreck # "plain"

(* An accepted notification that is no heartbeat raises an alarm exactly   *)
(* when the endpoint is armed at the minute it was taken: always, or from  *)
(* the start to the end of a period that may pass midnight.                *)
Guarded(a) ==
  CASE a.model = "ARM" -> Minutes
    [] a.model = "DISARM" -> {}
    [] a.model = "ARMTIME" ->
         IF a.start <= a.end THEN a.start..a.end
         ELSE (a.start..(Day - 1)) \cup (0..a.end)
AlarmIffGuarded ==
  [][main.pc = "judge" /\ main'.pc = "note" =>
       (alarms' # alarms <=> main.rep.kind = "alarm" /\ main'.at \in Guarded(arm))]_vars
=============================================================================
