--------------------------- MODULE ReportsProofs ---------------------------
(***************************************************************************)
(* Proofs about Reports, for any day, any numbers and any number of        *)
(* threads: types, arming periods, what may kill the process; what         *)
(* seq_after decides for numbers modulo M, taken as signed or as unsigned  *)
(* char; and that no alarm comes twice and no report is dropped without    *)
(* the reasons given in NoSecondAlarm and DroppedOnlyIfOld.                *)
(***************************************************************************)
EXTENDS Reports, SequenceTheorems, TLAPS

-----------------------------------------------------------------------------
(* Operators.                                                              *)

(* toolkit_in_period counts both ends from the start of the period; it     *)
(* finds the minutes from the start to the end, over midnight if need be.  *)
LEMMA InPeriod ==
  ASSUME NEW p \in Arming, NEW t \in Minutes
  PROVE  toolkit_in_period(p, t) <=>
           t \in (IF p.start <= p.end THEN p.start..p.end
                  ELSE (p.start..(Day - 1)) \cup (0..p.end))
  BY ReportsAssumption DEF Arming, Minutes, toolkit_in_period

(* An endpoint counts as armed exactly in the minutes its arming guards.   *)
LEMMA CheckArm ==
  ASSUME NEW a \in Arming, NEW t \in Minutes
  PROVE  endpoint_check_arm(a, t) <=> t \in Guarded(a)
<1>1. CASE a.model = "ARM"
  BY <1>1 DEF endpoint_check_arm, Guarded
<1>2. CASE a.model = "DISARM"
  BY <1>2 DEF endpoint_check_arm, Guarded
<1>3. CASE a.model = "ARMTIME"
  <2>1. Guarded(a) = (IF a.start <= a.end THEN a.start..a.end
                      ELSE (a.start..(Day - 1)) \cup (0..a.end))
    BY <1>3 DEF Guarded
  <2> QED
    BY <1>3, <2>1, InPeriod DEF endpoint_check_arm
<1>4. a.model \in {"ARM", "DISARM", "ARMTIME"}
  BY DEF Arming
<1> QED
  BY <1>1, <1>2, <1>3, <1>4

(* A number reduced modulo M is a transaction number.                      *)
LEMMA Reduced == ASSUME NEW n \in Int PROVE n % M \in Numbers
<1>1. M \in Nat \ {0}
  BY ReportsAssumption
<1> QED
  BY <1>1 DEF Numbers

LEMMA Constants ==
  /\ Zeroed \in Arming /\ 0 \in Numbers /\ Zero \in Count
  /\ Nothing \in Message /\ Idle \in Locals
<1>1. M \in Nat \ {0} /\ Day \in Nat \ {0}
  BY ReportsAssumption
<1>2. 0 \in Minutes /\ 0 \in Numbers
  BY <1>1 DEF Minutes, Numbers
<1>3. Nothing \in Message
  BY DEF Nothing, Message, Report
<1>4. Zeroed \in Arming /\ Zero \in Count
  BY <1>2 DEF Zeroed, Arming, Zero, Count
<1> QED
  BY <1>2, <1>3, <1>4 DEF Idle, Locals

-----------------------------------------------------------------------------
(* Types.                                                                  *)

LEMMA ReportIsMessage ==
  ASSUME NEW k \in Notifications \cup Answers \cup {"annce", "leave"}, NEW i \in Nat,
         NEW n \in Int
  PROVE  Report(k, i, n) \in Message
  BY DEF Report, Message

LEMMA EventType ==
  ASSUME used \in [reports : Nat, events : Nat], Event
  PROVE  used' \in [reports : Nat, events : Nat]
  BY DEF Event

LEMMA DeliverType ==
  ASSUME TypeOK, NEW m \in air, Deliver(m)
  PROVE  /\ m \in Message
         /\ air' \subseteq Message /\ used' \in [reports : Nat, events : Nat]
  BY EventType DEF TypeOK, Deliver

LEMMA ResetType ==
  ASSUME TypeOK, Reset
  PROVE  /\ mem' \in Numbers /\ memFrom' \in Count /\ reset' \in {"none", "clean", "dirty"}
         /\ alarms' \in Nat /\ raised' \subseteq Count /\ high' \in Count /\ calm' \in BOOLEAN
         /\ second' \subseteq [rep : Count, high : Count, calm : BOOLEAN]
         /\ missed' \subseteq [rep : Count, from : Count, reset : {"none", "clean", "dirty"}]
  BY Constants DEF TypeOK, Reset

LEMMA CountType ==
  ASSUME TypeOK
  PROVE  /\ [inc |-> main.rep.inc, n |-> main.rep.n] \in Count
         /\ main.rep.n % M \in Numbers
  BY Reduced DEF TypeOK, Locals, Message, Count

LEMMA AcceptType ==
  ASSUME NEW c \in Count, high \in Count, calm \in BOOLEAN, Accept(c)
  PROVE  high' \in Count /\ calm' \in BOOLEAN
  BY DEF Accept

(* TypeOK, for every value of the constants.                               *)
LEMMA TypeStep == TypeOK /\ [Next]_vars => TypeOK'
<1> SUFFICES ASSUME TypeOK, [Next]_vars PROVE TypeOK'
  OBVIOUS
<1> USE DEF fixed, device, numbers, verdicts
<1>1. ASSUME NEW k \in Notifications, NEW g \in Gaps, Sense(k, g) PROVE TypeOK'
  <2>0. g \in Nat
    BY ReportsAssumption
  <2>1. sensor' \in Count /\ sensor.n + g \in Int /\ sensor.inc \in Nat
    <3>1. sensor \in Count /\ sensor' = [sensor EXCEPT !.n = @ + g]
      BY <1>1 DEF Sense, TypeOK
    <3> QED
      BY <3>1, <2>0 DEF Count
  <2>2. air' \subseteq Message
    BY <1>1, <2>1, ReportIsMessage DEF Sense, TypeOK
  <2> QED
    BY <1>1, <2>1, <2>2 DEF Sense, TypeOK
<1>2. ASSUME NEW k \in Answers, Answer(k) PROVE TypeOK'
  <2>1. air' \subseteq Message
    BY <1>2, ReportIsMessage DEF Answer, TypeOK, Count
  <2> QED
    BY <1>2, <2>1 DEF Answer, TypeOK
<1>3. CASE SensorStarts
  <2>1. sensor' \in Count /\ sensor.inc + 1 \in Nat /\ -1 \in Int
    BY <1>3 DEF SensorStarts, TypeOK, Count
  <2>2. Report("annce", sensor.inc + 1, -1) \in Message
    BY <2>1 DEF Report, Message
  <2>3. air' \subseteq Message
    BY <1>3, <2>2 DEF SensorStarts, TypeOK
  <2> QED
    BY <1>3, <2>1, <2>3, EventType DEF SensorStarts, TypeOK
<1>4. CASE SensorLeaves
  <2>1. sensor.inc \in Nat /\ sensor.n \in Int
    BY DEF TypeOK, Count
  <2>2. Report("leave", sensor.inc, sensor.n) \in Message
    BY <2>1 DEF Report, Message
  <2>3. air' \subseteq Message
    BY <1>4, <2>2 DEF SensorLeaves, TypeOK
  <2> QED
    BY <1>4, <2>3, EventType DEF SensorLeaves, TypeOK
<1>5. ASSUME NEW t \in Threads, NEW m \in air, Incoming(t, m) PROVE TypeOK'
  <2>1. m \in Message /\ air' \subseteq Message /\ used' \in [reports : Nat, events : Nat]
    BY <1>5, DeliverType DEF Incoming
  <2> QED
    BY <1>5, <2>1 DEF Incoming, TypeOK
<1>6. ASSUME NEW t \in Threads, NEW m \in air, Annce(t, m) PROVE TypeOK'
  <2>1. m \in Message /\ air' \subseteq Message /\ used' \in [reports : Nat, events : Nat]
    BY <1>6, DeliverType DEF Annce
  <2>2. CASE Reset /\ UNCHANGED <<row, rowFrom>>
    BY <1>6, <2>1, <2>2, ResetType DEF Annce, TypeOK
  <2>3. CASE UNCHANGED <<numbers, verdicts>>
    BY <1>6, <2>1, <2>3 DEF Annce, TypeOK
  <2> QED
    BY <1>6, <2>2, <2>3 DEF Annce
<1>7. ASSUME NEW t \in Threads, NEW m \in air, Leave(t, m) PROVE TypeOK'
  <2>1. m \in Message /\ air' \subseteq Message /\ used' \in [reports : Nat, events : Nat]
    BY <1>7, DeliverType DEF Leave
  <2>2. CASE Reset /\ UNCHANGED <<row, rowFrom>> /\ hand' = [hand EXCEPT ![t] = m]
    BY <1>7, <2>1, <2>2, ResetType DEF Leave, TypeOK
  <2>3. CASE UNCHANGED <<numbers, verdicts, hand>>
    BY <1>7, <2>1, <2>3 DEF Leave, TypeOK
  <2> QED
    BY <1>7, <2>2, <2>3 DEF Leave
<1>8. ASSUME NEW t \in Threads,
             ChangeNotification(t) \/ EnrollRequest(t) \/ OnOffResponse(t) \/ LeaveRow(t)
      PROVE  TypeOK'
  <2>1. CASE ChangeNotification(t)
    BY <2>1, Constants DEF ChangeNotification, TypeOK
  <2>2. CASE EnrollRequest(t)
    <3>1. pipe' \in Seq(Message) /\ wreck' \in {"none", "excused", "plain"}
      <4>1. Append(pipe, hand[t]) \in Seq(Message)
        BY DEF TypeOK
      <4> QED
        BY <2>2, <4>1 DEF EnrollRequest, TypeOK
    <3>2. hand' \in [Threads -> Message]
      BY <2>2, Constants DEF EnrollRequest, TypeOK
    <3> QED
      BY <2>2, <3>1, <3>2 DEF EnrollRequest, TypeOK
  <2>3. CASE OnOffResponse(t)
    <3>1. PICK k \in BOOLEAN : pipe' = Append(pipe, [hand[t] EXCEPT !.known = k])
      BY <2>3 DEF OnOffResponse
    <3>2. [hand[t] EXCEPT !.known = k] \in Message
      BY DEF TypeOK, Message
    <3>3. pipe' \in Seq(Message)
      BY <3>1, <3>2 DEF TypeOK
    <3> QED
      BY <2>3, <3>3, Constants DEF OnOffResponse, TypeOK
  <2>4. CASE LeaveRow(t)
    BY <2>4, Constants, EventType DEF LeaveRow, TypeOK
  <2> QED
    BY <1>8, <2>1, <2>2, <2>3, <2>4
<1>9. CASE SimpleDesc
  BY <1>9, Constants, ResetType DEF SimpleDesc, TypeOK
<1>10. CASE SirenJoins
  <2>1. main' \in Locals /\ (main' # Idle => main # Idle)
    BY <1>10 DEF SirenJoins, TypeOK, Locals
  <2> QED
    BY <1>10, <2>1, EventType DEF SirenJoins, TypeOK
<1>11. CASE TakeNotification
  <2>1. Head(pipe) \in Message /\ Tail(pipe) \in Seq(Message)
    BY <1>11 DEF TakeNotification, TypeOK
  <2>2. main' \in Locals /\ (main' # Idle => listed # "absent")
    BY <1>11, <2>1, Constants DEF TakeNotification, TypeOK, MainFree, Locals
  <2> QED
    BY <1>11, <2>1, <2>2 DEF TakeNotification, TypeOK
<1>12. CASE TakeEnroll \/ TakeOnOff
  <2>1. pipe # <<>> /\ pipe' = Tail(pipe)
    BY <1>12 DEF TakeEnroll, TakeOnOff
  <2>2. pipe' \in Seq(Message)
    BY <2>1 DEF TypeOK
  <2> QED
    BY <1>12, <2>2 DEF TakeEnroll, TakeOnOff, TypeOK
<1>13. ASSUME NEW at \in Minutes, Judge(at) PROVE TypeOK'
  <2> DEFINE c == [inc |-> main.rep.inc, n |-> main.rep.n]
  <2>1. c \in Count
    BY CountType
  <2> HIDE DEF c
  <2>2. main' \in Locals /\ (main' # Idle => main # Idle)
    BY <1>13, Constants DEF Judge, TypeOK, Locals, Idle
  <2>3. high' \in Count /\ calm' \in BOOLEAN
    BY <1>13, <2>1, AcceptType DEF Judge, TypeOK, c
  <2>4. /\ alarms' \in Nat /\ raised' \subseteq Count
        /\ second' \subseteq [rep : Count, high : Count, calm : BOOLEAN]
        /\ missed' \subseteq [rep : Count, from : Count, reset : {"none", "clean", "dirty"}]
    BY <1>13, <2>1 DEF Judge, TypeOK, c
  <2> QED
    BY <1>13, <2>2, <2>3, <2>4 DEF Judge, TypeOK
<1>14. CASE Note
  <2>1. main' \in Locals /\ (main' # Idle => main # Idle)
    BY <1>14, Constants DEF Note, TypeOK, Locals, Idle
  <2> QED
    BY <1>14, <2>1, CountType DEF Note, TypeOK
<1>15. CASE Store
  BY <1>15, Constants, CountType, EventType DEF Store, TypeOK
<1>16. CASE Delete
  <2>1. ASSUME NEW m \in Message PROVE [m EXCEPT !.stale = TRUE] \in Message
    BY DEF Message
  <2>2. hand' \in [Threads -> Message]
    BY <1>16, <2>1, Constants DEF Delete, TypeOK
  <2>3. pipe' \in Seq(Message)
    <3>1. Len(pipe) \in Nat /\ DOMAIN pipe = 1..Len(pipe)
          /\ \A i \in 1..Len(pipe) : pipe[i] \in Message
      BY DEF TypeOK
    <3>2. pipe' \in [1..Len(pipe) -> Message]
      BY <1>16, <2>1, <3>1 DEF Delete
    <3> QED
      BY <3>1, <3>2, SeqDef
  <2> QED
    BY <1>16, <2>2, <2>3, EventType DEF Delete, TypeOK, MainFree
<1>17. ASSUME NEW a \in Armings, SetArm(a) PROVE TypeOK'
  BY <1>17, ReportsAssumption, EventType DEF SetArm, TypeOK
<1>18. CASE Restart
  BY <1>18, Constants, EventType DEF Restart, TypeOK
<1>19. CASE UNCHANGED vars
  BY <1>19 DEF vars, TypeOK
<1> QED
  BY <1>1, <1>2, <1>3, <1>4, <1>5, <1>6, <1>7, <1>8, <1>9, <1>10, <1>11, <1>12, <1>13,
     <1>14, <1>15, <1>16, <1>17, <1>18, <1>19 DEF Next

LEMMA TypeInit == Init => TypeOK
<1> SUFFICES ASSUME Init PROVE TypeOK
  OBVIOUS
<1>1. sensor \in Count
  <2>1. Starts \subseteq Int
    BY ReportsAssumption
  <2>2. PICK x \in Starts : sensor = [inc |-> 1, n |-> x]
    BY DEF Init
  <2> QED
    BY <2>1, <2>2 DEF Count
<1>2. hand \in [Threads -> Message] /\ pipe \in Seq(Message) /\ main \in Locals
  BY Constants DEF Init
<1>3. mem \in Numbers /\ row \in Numbers /\ arm \in Arming
  BY Constants DEF Init
<1>4. memFrom \in Count /\ rowFrom \in Count /\ high \in Count
  BY Constants DEF Init
<1> QED
  BY <1>1, <1>2, <1>3, <1>4 DEF Init, TypeOK

(* Every variable keeps its type (TypeOK of Reports).                      *)
THEOREM ReportsTypeOK == Spec => []TypeOK
  BY TypeInit, TypeStep, PTL DEF Spec

-----------------------------------------------------------------------------
(* Arming.                                                                 *)

(* What Judge leaves the main thread with.                                 *)
LEMMA JudgeMain ==
  ASSUME NEW at \in Minutes, Judge(at)
  PROVE  \/ main' = Idle \/ main' = main
         \/ main'.pc = "note" /\ main'.at = at /\ main'.rep = main.rep
<1>1. \/ main' = Idle \/ main' = main
      \/ main' = [Idle EXCEPT !.pc = "note", !.rep = main.rep, !.at = at]
  BY DEF Judge
<1> QED
  BY <1>1 DEF Idle

(* Only Judge turns a notification that is looked at into one to be noted. *)
LEMMA OnlyJudge ==
  ASSUME TypeOK, [Next]_vars, main.pc = "judge", main'.pc = "note"
  PROVE  \E at \in Minutes : Judge(at)
<1>1. main # Idle
  BY DEF Idle
<1>2. \A k, g : ~Sense(k, g) /\ ~Answer(k)
  BY DEF Sense, Answer
<1>3. ~SensorStarts /\ ~SensorLeaves /\ ~SimpleDesc /\ ~Note /\ ~Store
  BY DEF SensorStarts, SensorLeaves, SimpleDesc, Note, Store
<1>4. \A t, m : ~Incoming(t, m) /\ ~Annce(t, m) /\ ~Leave(t, m)
  BY DEF Incoming, Annce, Leave
<1>5. \A t : ~ChangeNotification(t) /\ ~EnrollRequest(t) /\ ~OnOffResponse(t) /\ ~LeaveRow(t)
  BY DEF ChangeNotification, EnrollRequest, OnOffResponse, LeaveRow
<1>6. ~SirenJoins
  <2>1. SirenJoins => main'.pc = main.pc
    BY <1>1 DEF SirenJoins, TypeOK, Locals
  <2> QED
    BY <2>1
<1>7. /\ ~TakeNotification /\ ~TakeEnroll /\ ~TakeOnOff /\ ~Delete
      /\ \A a : ~SetArm(a)
  BY <1>1 DEF TakeNotification, TakeEnroll, TakeOnOff, Delete, SetArm, MainFree
<1>8. ~Restart /\ ~UNCHANGED vars
  BY DEF Restart, Idle, vars
<1> QED
  BY <1>2, <1>3, <1>4, <1>5, <1>6, <1>7, <1>8 DEF Next

(* An accepted notification raises an alarm exactly if it is no heartbeat  *)
(* and comes in a minute the arming guards (AlarmIffGuarded of Reports),   *)
(* whatever the period and the length of the day.                          *)
THEOREM ReportsAlarmIffGuarded == Spec => AlarmIffGuarded
<1> DEFINE A == main.pc = "judge" /\ main'.pc = "note" =>
                  (alarms' # alarms <=>
                     main.rep.kind = "alarm" /\ main'.at \in Guarded(arm))
<1>1. TypeOK /\ [Next]_vars => A
  <2> SUFFICES ASSUME TypeOK, [Next]_vars, main.pc = "judge", main'.pc = "note"
               PROVE  alarms' # alarms <=>
                        main.rep.kind = "alarm" /\ main'.at \in Guarded(arm)
    OBVIOUS
  <2>1. PICK at \in Minutes : Judge(at)
    BY OnlyJudge
  <2>2. alarms \in Nat /\ arm \in Arming
    BY DEF TypeOK
  <2>3. main'.at = at /\ main' # Idle /\ main' # main
    BY <2>1, JudgeMain DEF Idle
  <2>4. alarms' # alarms <=> main.rep.kind = "alarm" /\ endpoint_check_arm(arm, at)
    BY <2>1, <2>2, <2>3 DEF Judge, verdicts
  <2> QED
    BY <2>2, <2>3, <2>4, CheckArm
<1>2. TypeOK /\ [Next]_vars => [A]_vars
  BY <1>1
<1> QED
  BY <1>2, ReportsTypeOK, PTL DEF Spec, AlarmIffGuarded

-----------------------------------------------------------------------------
(* What kills the process.                                                 *)

(* What the gateway holds comes from a device that is still listed, unless *)
(* a deletion marked it; and a siren that is in the list while its         *)
(* endpoint was not found has joined since.                                *)
HandsListed ==
  \A t \in Threads : ~hand[t].stale =>
    hand[t].known /\ (hand[t].kind # "none" => listed # "absent")
PipeListed ==
  \A i \in DOMAIN pipe : ~pipe[i].stale => pipe[i].known /\ listed # "absent"
AirKnown == \A m \in air : m.known
WalkInv == main.pc = "judge" /\ siren /\ ~main.wd => main.joined

RaceInv ==
  TypeOK /\ HandsListed /\ PipeListed /\ AirKnown /\ WalkInv /\ DiesOnlyInRace

LEMMA AppendListed ==
  ASSUME RaceInv, NEW t \in Threads, NEW m \in Message, listed' = listed,
         m.stale = hand[t].stale, ~m.stale => m.known /\ listed # "absent",
         pipe' = Append(pipe, m)
  PROVE  PipeListed'
<1>1. pipe \in Seq(Message)
  BY DEF RaceInv, TypeOK
<1>2. ASSUME NEW i \in DOMAIN pipe', ~pipe'[i].stale
      PROVE  pipe'[i].known /\ listed' # "absent"
  <2>1. CASE i \in DOMAIN pipe
    BY <1>1, <1>2, <2>1 DEF RaceInv, PipeListed
  <2>2. CASE i = Len(pipe) + 1
    BY <1>1, <1>2, <2>2
  <2> QED
    BY <1>1, <1>2, <2>1, <2>2
<1> QED
  BY <1>2 DEF PipeListed

LEMMA TailListed ==
  ASSUME RaceInv, pipe # <<>>, pipe' = Tail(pipe), listed' = listed
  PROVE  PipeListed' /\ (~Head(pipe).stale => Head(pipe).known /\ listed # "absent")
<1>1. pipe \in Seq(Message) /\ 1 \in DOMAIN pipe /\ Head(pipe) = pipe[1]
  BY DEF RaceInv, TypeOK
<1>2. ASSUME NEW i \in DOMAIN pipe'
      PROVE  i + 1 \in DOMAIN pipe /\ pipe'[i] = pipe[i + 1]
  BY <1>1, <1>2
<1> QED
  BY <1>1, <1>2 DEF RaceInv, PipeListed

LEMMA DeliverKnown ==
  ASSUME AirKnown, NEW m \in air, Deliver(m) PROVE AirKnown' /\ m.known
  BY DEF AirKnown, Deliver

LEMMA RaceStep == RaceInv /\ [Next]_vars => RaceInv'
<1> SUFFICES ASSUME RaceInv, [Next]_vars PROVE RaceInv'
  OBVIOUS
<1> USE DEF fixed, device, numbers, verdicts
<1>0. TypeOK /\ TypeOK'
  BY TypeStep DEF RaceInv
<1>1. ASSUME NEW k \in Notifications \cup Answers, \/ \E g \in Gaps : Sense(k, g)
                                                   \/ Answer(k)
      PROVE  RaceInv'
  BY <1>0, <1>1 DEF Sense, Answer, Report, RaceInv, HandsListed, PipeListed, AirKnown,
                    WalkInv, DiesOnlyInRace
<1>2. CASE SensorStarts \/ SensorLeaves
  BY <1>0, <1>2 DEF SensorStarts, SensorLeaves, Report, RaceInv, HandsListed, PipeListed,
                    AirKnown, WalkInv, DiesOnlyInRace
<1>3. ASSUME NEW t \in Threads, NEW m \in air, Incoming(t, m) PROVE RaceInv'
  <2>1. AirKnown' /\ m.known
    BY <1>3, DeliverKnown DEF Incoming, RaceInv
  <2>2. HandsListed'
    BY <1>0, <1>3, <2>1 DEF Incoming, RaceInv, HandsListed, TypeOK
  <2> QED
    BY <1>0, <1>3, <2>1, <2>2 DEF Incoming, RaceInv, PipeListed, WalkInv, DiesOnlyInRace
<1>4. ASSUME NEW t \in Threads, NEW m \in air, Annce(t, m) PROVE RaceInv'
  <2>1. AirKnown'
    BY <1>4, DeliverKnown DEF Annce, RaceInv
  <2> QED
    BY <1>0, <1>4, <2>1 DEF Annce, Reset, RaceInv, HandsListed, PipeListed, WalkInv,
                            DiesOnlyInRace
<1>5. ASSUME NEW t \in Threads, NEW m \in air, Leave(t, m) PROVE RaceInv'
  <2>1. AirKnown' /\ m.known
    BY <1>5, DeliverKnown DEF Leave, RaceInv
  <2>2. HandsListed'
    BY <1>0, <1>5, <2>1 DEF Leave, RaceInv, HandsListed, TypeOK
  <2> QED
    BY <1>0, <1>5, <2>1, <2>2 DEF Leave, Reset, RaceInv, PipeListed, WalkInv,
                                  DiesOnlyInRace
<1>6. ASSUME NEW t \in Threads, ChangeNotification(t) PROVE RaceInv'
  <2>1. HandsListed'
    BY <1>0, <1>6 DEF ChangeNotification, RaceInv, HandsListed, TypeOK, Nothing, Report
  <2>2. PipeListed'
    <3>1. CASE listed = "absent"
      BY <1>6, <3>1 DEF ChangeNotification, RaceInv, PipeListed
    <3>2. CASE listed # "absent"
      BY <1>0, <1>6, <3>2, AppendListed
         DEF ChangeNotification, RaceInv, HandsListed, TypeOK
    <3> QED
      BY <3>1, <3>2
  <2> QED
    BY <1>0, <1>6, <2>1, <2>2 DEF ChangeNotification, RaceInv, AirKnown, WalkInv,
                                  DiesOnlyInRace
<1>7. ASSUME NEW t \in Threads, EnrollRequest(t) PROVE RaceInv'
  <2>1. HandsListed'
    BY <1>0, <1>7 DEF EnrollRequest, RaceInv, HandsListed, TypeOK, Nothing, Report
  <2>2. PipeListed' /\ DiesOnlyInRace'
    <3>1. CASE listed = "absent"
      BY <1>7, <3>1 DEF EnrollRequest, RaceInv, HandsListed, PipeListed, DiesOnlyInRace
    <3>2. CASE listed # "absent"
      <4>1. PipeListed'
        BY <1>0, <1>7, <3>2, AppendListed DEF EnrollRequest, RaceInv, HandsListed, TypeOK
      <4> QED
        BY <1>7, <3>2, <4>1 DEF EnrollRequest, RaceInv, DiesOnlyInRace
    <3> QED
      BY <3>1, <3>2
  <2> QED
    BY <1>0, <1>7, <2>1, <2>2 DEF EnrollRequest, RaceInv, AirKnown, WalkInv
<1>8. ASSUME NEW t \in Threads, OnOffResponse(t) PROVE RaceInv'
  <2>1. HandsListed'
    BY <1>0, <1>8 DEF OnOffResponse, RaceInv, HandsListed, TypeOK, Nothing, Report
  <2>2. PICK k \in (IF listed = "absent" THEN BOOLEAN ELSE {TRUE}) :
          pipe' = Append(pipe, [hand[t] EXCEPT !.known = k])
    BY <1>8 DEF OnOffResponse
  <2> DEFINE m == [hand[t] EXCEPT !.known = k]
  <2>3. m \in Message /\ m.stale = hand[t].stale /\ m.known = k
    BY <1>0, <2>2 DEF TypeOK, Message
  <2>4. ~m.stale => m.known /\ listed # "absent"
    BY <1>8, <2>2, <2>3 DEF OnOffResponse, RaceInv, HandsListed
  <2> HIDE DEF m
  <2>5. PipeListed'
    BY <1>8, <2>2, <2>3, <2>4, AppendListed DEF OnOffResponse, m
  <2> QED
    BY <1>0, <1>8, <2>1, <2>5 DEF OnOffResponse, RaceInv, AirKnown, WalkInv, DiesOnlyInRace
<1>9. ASSUME NEW t \in Threads, LeaveRow(t) PROVE RaceInv'
  <2>1. HandsListed'
    BY <1>0, <1>9 DEF LeaveRow, RaceInv, HandsListed, TypeOK, Nothing, Report
  <2>2. DiesOnlyInRace'
    BY <1>9 DEF LeaveRow, RaceInv, HandsListed, DiesOnlyInRace
  <2> QED
    BY <1>0, <1>9, <2>1, <2>2 DEF LeaveRow, RaceInv, PipeListed, AirKnown, WalkInv
<1>10. CASE SimpleDesc
  BY <1>0, <1>10 DEF SimpleDesc, Reset, RaceInv, HandsListed, PipeListed, AirKnown,
                     WalkInv, DiesOnlyInRace
<1>11. CASE SirenJoins
  <2>1. WalkInv'
    BY <1>0, <1>11 DEF SirenJoins, WalkInv, TypeOK, Locals, Idle
  <2> QED
    BY <1>0, <1>11, <2>1 DEF SirenJoins, RaceInv, HandsListed, PipeListed, AirKnown,
                             DiesOnlyInRace
<1>12. CASE TakeNotification
  <2>1. PipeListed'
    BY <1>12, TailListed DEF TakeNotification
  <2>2. WalkInv'
    <3>1. CASE UNCHANGED main
      BY <1>12, <3>1 DEF TakeNotification, MainFree, WalkInv, Idle
    <3>2. CASE main' = [Idle EXCEPT !.pc = "judge", !.rep = Head(pipe), !.wd = siren]
      <4>1. main'.wd = siren
        BY <3>2 DEF Idle
      <4> QED
        BY <1>12, <4>1 DEF TakeNotification, WalkInv
    <3> QED
      BY <1>12, <3>1, <3>2 DEF TakeNotification
  <2> QED
    BY <1>0, <1>12, <2>1, <2>2 DEF TakeNotification, RaceInv, HandsListed, AirKnown,
                                   DiesOnlyInRace
<1>13. CASE TakeEnroll \/ TakeOnOff
  <2>1. PipeListed' /\ (~Head(pipe).stale => Head(pipe).known /\ listed # "absent")
    BY <1>13, TailListed DEF TakeEnroll, TakeOnOff
  <2>2. DiesOnlyInRace'
    BY <1>13, <2>1 DEF TakeEnroll, TakeOnOff, RaceInv, DiesOnlyInRace
  <2> QED
    BY <1>0, <1>13, <2>1, <2>2 DEF TakeEnroll, TakeOnOff, RaceInv, HandsListed, AirKnown,
                                   WalkInv
<1>14. ASSUME NEW at \in Minutes, Judge(at) PROVE RaceInv'
  <2>1. DiesOnlyInRace'
    BY <1>14 DEF Judge, RaceInv, WalkInv, DiesOnlyInRace
  <2>2. UNCHANGED <<air, hand, pipe, listed, siren>>
    BY <1>14 DEF Judge
  <2>3. WalkInv'
    BY <1>14, <2>2, JudgeMain DEF Idle, RaceInv, WalkInv
  <2> QED
    BY <1>0, <2>1, <2>2, <2>3 DEF RaceInv, HandsListed, PipeListed, AirKnown
<1>15. CASE Note \/ Store
  <2>1. main'.pc \in {"idle", "store"}
    <3>1. CASE Note
      <4>1. main' = [Idle EXCEPT !.pc = "store", !.rep = main.rep]
        BY <3>1 DEF Note
      <4> QED
        BY <4>1 DEF Idle
    <3>2. CASE Store
      BY <3>2 DEF Store, Idle
    <3> QED
      BY <1>15, <3>1, <3>2
  <2>2. UNCHANGED <<air, hand, pipe, listed, siren, wreck>>
    BY <1>15 DEF Note, Store
  <2> QED
    BY <1>0, <2>1, <2>2 DEF RaceInv, HandsListed, PipeListed, AirKnown, WalkInv,
                            DiesOnlyInRace
<1>16. CASE Delete
  <2>1. HandsListed'
    BY <1>0, <1>16 DEF Delete, RaceInv, HandsListed, TypeOK, Message, Nothing, Report
  <2>2. PipeListed'
    <3>1. /\ DOMAIN pipe' = DOMAIN pipe
          /\ \A i \in DOMAIN pipe : pipe'[i] = [pipe[i] EXCEPT !.stale = TRUE]
                                   /\ pipe[i] \in Message
      BY <1>0, <1>16 DEF Delete, TypeOK
    <3>2. \A i \in DOMAIN pipe' : pipe'[i].stale
      BY <3>1 DEF Message
    <3> QED
      BY <3>2 DEF PipeListed
  <2> QED
    BY <1>0, <1>16, <2>1, <2>2 DEF Delete, RaceInv, AirKnown, WalkInv, DiesOnlyInRace
<1>17. ASSUME NEW a \in Armings, SetArm(a) PROVE RaceInv'
  BY <1>0, <1>17 DEF SetArm, RaceInv, HandsListed, PipeListed, AirKnown, WalkInv,
                     DiesOnlyInRace
<1>18. CASE Restart
  BY <1>0, <1>18 DEF Restart, Idle, Nothing, Report, RaceInv, HandsListed, PipeListed,
                     AirKnown, WalkInv, DiesOnlyInRace
<1>19. CASE UNCHANGED vars
  BY <1>0, <1>19 DEF vars, RaceInv, HandsListed, PipeListed, AirKnown, WalkInv,
                     DiesOnlyInRace
<1> QED
  BY <1>1, <1>2, <1>3, <1>4, <1>5, <1>6, <1>7, <1>8, <1>9, <1>10, <1>11, <1>12, <1>13,
     <1>14, <1>15, <1>16, <1>17, <1>18, <1>19 DEF Next

(* A report kills the process only if the device list changed while the    *)
(* report was inside the gateway (DiesOnlyInRace of Reports), however many *)
(* threads run callbacks and whatever comes.                               *)
THEOREM ReportsDiesOnlyInRace == Spec => []DiesOnlyInRace
<1>2. Init => RaceInv
  BY TypeInit DEF Init, RaceInv, HandsListed, PipeListed, AirKnown, WalkInv, DiesOnlyInRace,
              Nothing, Report, Idle
<1>3. RaceInv => DiesOnlyInRace
  BY DEF RaceInv
<1> QED
  BY <1>2, <1>3, RaceStep, PTL DEF Spec

-----------------------------------------------------------------------------
(* Numbers modulo M.                                                       *)

CharMinOK == charMin \in {0, -(M \div 2)}

(* Quotient and remainder, as the steps below need them.                   *)
LEMMA DivMod ==
  ASSUME NEW b \in Nat \ {0}, NEW a \in Int
  PROVE  a \div b \in Int /\ a % b \in 0..(b - 1) /\ a % b = a - b * (a \div b)
<1>1. a \div b \in Int
  OBVIOUS
<1>2. a % b \in 0..(b - 1)
  OBVIOUS
<1>3. a % b = a - b * (a \div b)
  OBVIOUS
<1> QED
  BY <1>1, <1>2, <1>3

LEMMA DivUnique ==
  ASSUME NEW b \in Nat \ {0}, NEW q \in Int, NEW r \in 0..(b - 1)
  PROVE  (b * q + r) \div b = q /\ (b * q + r) % b = r
  OBVIOUS

LEMMA MLarge == M \in Nat \ {0} /\ Window \in Nat \ {0} /\ M = 4 * Window /\ M \div 2 = 2 * Window
<1>1. Window \in Nat \ {0} /\ M = 4 * Window
  BY ReportsAssumption
<1>2. (4 * Window) \div 2 = 2 * Window
  BY <1>1
<1> QED
  BY <1>1, <1>2

(* A number taken as char is the number less the laps before it.           *)
LEMMA CharLap ==
  ASSUME CharMinOK, NEW n \in Int
  PROVE  /\ Lap(n) \in Int
         /\ Char(n % M) = n - M * Lap(n)
         /\ Char(n % M) \in charMin..(charMin + M - 1)
<1> DEFINE q == n \div M
           r == n % M
<1>1. q \in Int /\ r \in 0..(M - 1) /\ r = n - M * q
  BY DivMod, MLarge
<1>2. M * q \in Int /\ M * (q + 1) = M * q + M
  BY <1>1, MLarge
<1> HIDE DEF q, r
<1>3. n = M * q + r
  BY <1>1, <1>2
<1>4. CASE charMin = 0
  <2>1. Lap(n) = q
    BY <1>4, <1>1 DEF Lap, q
  <2> QED
    BY <1>1, <1>2, <1>4, <2>1, MLarge DEF Char, r
<1>5. CASE charMin = -(2 * Window)
  <2>1. charMin < 0 /\ n - charMin = n + 2 * Window
    BY <1>5, MLarge
  <2>2. CASE r < 2 * Window
    <3>1. r + 2 * Window \in 0..(M - 1) /\ n - charMin = M * q + (r + 2 * Window)
      BY <1>1, <1>2, <1>3, <2>1, <2>2, MLarge
    <3>2. Lap(n) = q
      <4>1. (M * q + (r + 2 * Window)) \div M = q
        BY <1>1, <3>1, DivUnique, MLarge
      <4> QED
        BY <3>1, <4>1 DEF Lap
    <3>3. Char(n % M) = r
      BY <1>1, <2>2, MLarge DEF Char, r
    <3> QED
      BY <1>1, <1>2, <1>5, <2>2, <3>2, <3>3, MLarge
  <2>3. CASE r >= 2 * Window
    <3>1. r - 2 * Window \in 0..(M - 1) /\ n - charMin = M * (q + 1) + (r - 2 * Window)
      BY <1>1, <1>2, <1>3, <2>1, <2>3, MLarge
    <3>2. Lap(n) = q + 1
      BY <1>1, <3>1, DivUnique, MLarge DEF Lap
    <3>3. Char(n % M) = r - M
      BY <1>1, <2>1, <2>3, MLarge DEF Char, r
    <3> QED
      BY <1>1, <1>2, <1>5, <2>3, <3>2, <3>3, MLarge
  <2> QED
    BY <1>1, <2>2, <2>3, MLarge
<1> QED
  BY <1>4, <1>5, MLarge DEF CharMinOK

(* A number that is not beyond the last one, on the same lap and not far   *)
(* behind, is old.                                                         *)
LEMMA OldIsOld ==
  ASSUME CharMinOK, NEW a \in Int, NEW b \in Int, a <= b, b - a <= Window,
         Lap(a) = Lap(b)
  PROVE  ~seq_after(a % M, b % M)
<1>1. Char(a % M) = a - M * Lap(a) /\ Char(b % M) = b - M * Lap(a) /\ M * Lap(a) \in Int
  BY CharLap, MLarge
<1>2. Char(b % M) - Char(a % M) = b - a
  BY <1>1
<1> QED
  BY <1>2, MLarge DEF seq_after

(* A number beyond the last one, by less than three windows, is new.       *)
LEMMA NewIsNew ==
  ASSUME CharMinOK, NEW a \in Int, NEW b \in Int, a > b, a - b < 3 * Window
  PROVE  seq_after(a % M, b % M)
<1> DEFINE p == Lap(a)
           q == Lap(b)
           ca == Char(a % M)
           cb == Char(b % M)
<1>1. /\ p \in Int /\ q \in Int /\ ca = a - M * p /\ cb = b - M * q
      /\ ca \in charMin..(charMin + M - 1) /\ cb \in charMin..(charMin + M - 1)
  BY CharLap
<1> HIDE DEF p, q, ca, cb
<1>2. M * p \in Int /\ M * q \in Int /\ charMin \in Int
  BY <1>1, MLarge DEF CharMinOK
<1>3. CASE p = q
  <2>1. cb - ca < 0
    BY <1>1, <1>2, <1>3
  <2> QED
    BY <2>1 DEF seq_after, ca, cb
<1>4. CASE p > q
  <2>1. M * q + M <= M * p
    BY <1>1, <1>4, MLarge
  <2>2. cb - ca > Window
    BY <1>1, <1>2, <2>1, MLarge
  <2> QED
    BY <2>2 DEF seq_after, ca, cb
<1>5. CASE p < q
  <2>1. M * p + M <= M * q
    BY <1>1, <1>5, MLarge
  <2>2. FALSE
    BY <1>1, <1>2, <2>1, MLarge
  <2> QED
    BY <2>2
<1> QED
  BY <1>1, <1>3, <1>4, <1>5

(* Of the numbers that are not after 0 none is further before it than      *)
(* Window.                                                                 *)
LEMMA NotAfterZero ==
  ASSUME CharMinOK, NEW a \in Int, ~seq_after(a % M, 0)
  PROVE  (-a) % M <= Window
<1> DEFINE p == Lap(a)
           c == Char(a % M)
<1>1. p \in Int /\ c = a - M * p /\ c \in charMin..(charMin + M - 1)
  BY CharLap
<1>2. Char(0) = 0
  BY MLarge DEF Char
<1>3. 0 - c >= 0 /\ 0 - c <= Window
  <2>1. ~(0 - c < 0) /\ ~(0 - c > Window)
    BY <1>2 DEF seq_after
  <2>2. c \in Int
    BY <1>1, MLarge DEF CharMinOK
  <2> HIDE DEF c
  <2> QED
    BY <2>1, <2>2, MLarge
<1> HIDE DEF c, p
<1>4. -p \in Int /\ M * (-p) = -(M * p) /\ M * p \in Int
  BY <1>1, MLarge
<1>5. -c \in 0..(M - 1) /\ -a = M * (-p) + (-c)
  BY <1>1, <1>3, <1>4, MLarge DEF CharMinOK
<1>6. (-a) % M = -c
  <2>1. (M * (-p) + (-c)) % M = -c
    BY <1>4, <1>5, DivUnique, MLarge
  <2> QED
    BY <1>5, <2>1
<1> QED
  BY <1>1, <1>3, <1>6, MLarge DEF CharMinOK

-----------------------------------------------------------------------------
(* What is stored is what it comes from.                                   *)

MemReduced == mem = memFrom.n % M /\ row = rowFrom.n % M

LEMMA ZeroReduced == Zero.n % M = 0
<1>1. 0 \in 0..(M - 1) /\ M * 0 + 0 = 0
  BY MLarge
<1>2. (M * 0 + 0) % M = 0
  BY <1>1, DivUnique, MLarge
<1> QED
  BY <1>1, <1>2 DEF Zero

(* The actions that leave numbers and verdicts alone.                      *)
Silent ==
  \/ \E k \in Notifications, g \in Gaps : Sense(k, g)
  \/ \E k \in Answers : Answer(k)
  \/ SensorLeaves
  \/ \E t \in Threads : \/ \E m \in air : Incoming(t, m)
                        \/ ChangeNotification(t) \/ EnrollRequest(t) \/ OnOffResponse(t)
  \/ SirenJoins \/ TakeEnroll \/ TakeOnOff
  \/ Delete \/ \E a \in Armings : SetArm(a)
  \/ UNCHANGED vars

LEMMA SilentFrame ==
  ASSUME TypeOK, Silent
  PROVE  UNCHANGED <<numbers, verdicts>> /\ sensor'.inc = sensor.inc
         /\ main'.pc = main.pc /\ main'.rep = main.rep
<1> USE DEF numbers, verdicts
<1>1. CASE \E k \in Notifications, g \in Gaps : Sense(k, g)
  <2>1. sensor'.inc = sensor.inc
    BY <1>1 DEF Sense, TypeOK, Count
  <2> QED
    BY <1>1, <2>1 DEF Sense
<1>2. CASE \E k \in Answers : Answer(k)
  BY <1>2 DEF Answer
<1>3. CASE SensorLeaves \/ TakeEnroll \/ TakeOnOff \/ Delete
  BY <1>3 DEF SensorLeaves, TakeEnroll, TakeOnOff, Delete
<1>4. ASSUME NEW t \in Threads,
             \/ \E m \in air : Incoming(t, m)
             \/ ChangeNotification(t) \/ EnrollRequest(t) \/ OnOffResponse(t)
      PROVE  UNCHANGED <<numbers, verdicts>> /\ UNCHANGED <<sensor, main>>
  BY <1>4 DEF Incoming, ChangeNotification, EnrollRequest, OnOffResponse
<1>5. CASE SirenJoins
  <2>1. main'.pc = main.pc /\ main'.rep = main.rep
    BY <1>5 DEF SirenJoins, TypeOK, Locals
  <2> QED
    BY <1>5, <2>1 DEF SirenJoins
<1>6. CASE \E a \in Armings : SetArm(a)
  BY <1>6 DEF SetArm
<1>7. CASE UNCHANGED vars
  BY <1>7 DEF vars
<1> QED
  BY <1>1, <1>2, <1>3, <1>4, <1>5, <1>6, <1>7 DEF Silent

(* The others, by what they do to the numbers.                             *)
LEMMA Loud ==
  ASSUME [Next]_vars
  PROVE  \/ Silent \/ SensorStarts \/ TakeNotification \/ Note \/ Store \/ Restart
         \/ \E at \in Minutes : Judge(at)
         \/ SimpleDesc
         \/ \E t \in Threads : \/ \E m \in air : Annce(t, m) \/ Leave(t, m)
                               \/ LeaveRow(t)
  BY DEF Next, Silent

LEMMA FixedStep == ASSUME [Next]_vars PROVE charMin' = charMin
  BY DEF Next, vars, fixed, Sense, Answer, SensorStarts, SensorLeaves, Incoming, Annce,
         Leave, ChangeNotification, EnrollRequest, OnOffResponse, LeaveRow, SimpleDesc,
         SirenJoins, TakeNotification, TakeEnroll, TakeOnOff, Judge, Note, Store, Delete,
         SetArm, Restart

LEMMA MemStep == TypeOK /\ MemReduced /\ [Next]_vars => MemReduced'
<1> SUFFICES ASSUME TypeOK, MemReduced, [Next]_vars PROVE MemReduced'
  OBVIOUS
<1> USE DEF numbers, verdicts
<1>1. CASE Silent
  BY <1>1, SilentFrame DEF MemReduced
<1>2. CASE SensorStarts \/ TakeNotification \/ Restart
  BY <1>2 DEF SensorStarts, TakeNotification, Restart, MemReduced
<1>3. CASE Note
  BY <1>3 DEF Note, MemReduced
<1>4. CASE Store
  BY <1>4 DEF Store, MemReduced
<1>5. CASE \E at \in Minutes : Judge(at)
  BY <1>5 DEF Judge, MemReduced
<1>6. CASE SimpleDesc
  BY <1>6, ZeroReduced DEF SimpleDesc, Reset, MemReduced
<1>7. ASSUME NEW t \in Threads, NEW m \in air, Annce(t, m) \/ Leave(t, m)
      PROVE  MemReduced'
  BY <1>7, ZeroReduced DEF Annce, Leave, Reset, MemReduced
<1>8. ASSUME NEW t \in Threads, LeaveRow(t) PROVE MemReduced'
  BY <1>8, ZeroReduced DEF LeaveRow, MemReduced
<1> QED
  BY <1>1, <1>2, <1>3, <1>4, <1>5, <1>6, <1>7, <1>8, Loud

-----------------------------------------------------------------------------
(* No alarm twice.                                                         *)

Judged == [inc |-> main.rep.inc, n |-> main.rep.n]

(* No alarm is above the highest report accepted; and as long as mem has   *)
(* only risen, it is that report, or is about to be.                       *)
RaisedBelow ==
  \A c \in raised : c.inc < high.inc \/ (c.inc = high.inc /\ c.n <= high.n)
CalmAtHigh ==
  calm => /\ main.pc = "note" => high = Judged
          /\ main.pc # "note" => memFrom = high

OnceInv == TypeOK /\ MemReduced /\ RaisedBelow /\ CalmAtHigh /\ NoSecondAlarm

LEMMA AcceptBelow ==
  ASSUME TypeOK, RaisedBelow, NEW c \in Count, Accept(c), raised' \subseteq raised \cup {c}
  PROVE  RaisedBelow' /\ (calm' => high' = c)
<1>1. /\ high.inc \in Nat /\ high.n \in Int /\ c.inc \in Nat /\ c.n \in Int
      /\ \A d \in raised : d.inc \in Nat /\ d.n \in Int
  BY DEF TypeOK, Count
<1>2. calm' => high' = c
  BY DEF Accept
<1>3. high' = c \/ (high' = high /\ (c.inc < high.inc \/ (c.inc = high.inc /\ c.n <= high.n)))
  BY <1>1 DEF Accept
<1>4. high' = c => (high.inc < c.inc \/ (high.inc = c.inc /\ high.n <= c.n) \/ high' = high)
  BY <1>1 DEF Accept
<1>5. ASSUME NEW d \in raised'
      PROVE  d.inc < high'.inc \/ (d.inc = high'.inc /\ d.n <= high'.n)
  BY <1>1, <1>3, <1>4 DEF RaisedBelow
<1> QED
  BY <1>2, <1>5 DEF RaisedBelow

(* What Judge does to the history.                                         *)
LEMMA JudgeOnce ==
  ASSUME OnceInv, NEW at \in Minutes, Judge(at), charMin' = charMin
  PROVE  OnceInv' \/ ~TypeOK' \/ ~MemReduced'
<1> SUFFICES ASSUME TypeOK', MemReduced' PROVE RaisedBelow' /\ CalmAtHigh' /\ NoSecondAlarm'
  BY DEF OnceInv
<1>1. Judged \in Count /\ main.pc = "judge"
  BY CountType DEF OnceInv, Judged, Judge
<1>2. CASE UNCHANGED <<raised, high, calm, second>> /\ (main' = Idle \/ main' = main)
  <2>1. main'.pc # "note" /\ memFrom' = memFrom
    BY <1>1, <1>2 DEF Judge, Idle, numbers
  <2>2. CalmAtHigh'
    BY <1>1, <1>2, <2>1 DEF OnceInv, CalmAtHigh
  <2>3. NoSecondAlarm'
    BY <1>2 DEF OnceInv, NoSecondAlarm, Lap
  <2> QED
    BY <1>2, <2>2, <2>3 DEF OnceInv, RaisedBelow
<1>3. CASE /\ seq_after(main.rep.n % M, mem)
           /\ main' = [Idle EXCEPT !.pc = "note", !.rep = main.rep, !.at = at]
           /\ raised' \subseteq raised \cup {Judged}
           /\ \/ second' = {} \/ second' = second
              \/ second' = {[rep |-> Judged, high |-> high, calm |-> calm]} /\ Judged \in raised
           /\ Accept(Judged)
  <2>1. RaisedBelow' /\ (calm' => high' = Judged)
    BY <1>1, <1>3, AcceptBelow DEF OnceInv
  <2>2. main'.pc = "note" /\ main'.rep = main.rep
    BY <1>3 DEF Idle
  <2>3. CalmAtHigh'
    BY <2>1, <2>2 DEF CalmAtHigh, Judged
  <2>4. CASE second' = {} \/ second' = second
    BY <2>4, <2>1, <2>3 DEF OnceInv, NoSecondAlarm, Lap
  <2>5. CASE second' = {[rep |-> Judged, high |-> high, calm |-> calm]} /\ Judged \in raised
    <3>1. SUFFICES ASSUME calm, high.inc = Judged.inc, ~(high.n - Judged.n > Window),
                          Lap(high.n) = Lap(Judged.n)
                   PROVE  FALSE
      BY <2>1, <2>3, <2>5 DEF NoSecondAlarm, Lap
    <3>2. mem = high.n % M
      BY <1>1, <3>1 DEF OnceInv, CalmAtHigh, MemReduced
    <3>3. Judged.n = main.rep.n /\ Judged.n \in Int /\ high.n \in Int
      BY <1>1 DEF Judged, OnceInv, TypeOK, Count
    <3>4. Judged.n <= high.n
      <4>1. \/ Judged.inc < high.inc
            \/ Judged.inc = high.inc /\ Judged.n <= high.n
        BY <2>5 DEF OnceInv, RaisedBelow
      <4>2. high.inc \in Nat
        BY DEF OnceInv, TypeOK, Count
      <4> QED
        BY <3>1, <4>1, <4>2
    <3>5. high.n - Judged.n <= Window
      BY <3>1, <3>3, MLarge
    <3>6. CharMinOK
      BY DEF OnceInv, TypeOK, CharMinOK
    <3> QED
      BY <1>3, <3>1, <3>2, <3>3, <3>4, <3>5, <3>6, OldIsOld
  <2> QED
    BY <1>3, <2>1, <2>3, <2>4, <2>5
<1> QED
  BY <1>2, <1>3 DEF Judge, Judged, verdicts

LEMMA OnceStep == OnceInv /\ [Next]_vars => OnceInv'
<1> SUFFICES ASSUME OnceInv, [Next]_vars PROVE OnceInv'
  OBVIOUS
<1> USE DEF numbers, verdicts
<1>0. TypeOK' /\ MemReduced' /\ charMin' = charMin /\ TypeOK
  BY TypeStep, MemStep, FixedStep DEF OnceInv
<1>1. CASE Silent
  BY <1>0, <1>1, SilentFrame
     DEF OnceInv, RaisedBelow, CalmAtHigh, Judged, NoSecondAlarm, Lap
<1>2. CASE SensorStarts
  BY <1>0, <1>2 DEF SensorStarts, OnceInv, RaisedBelow, CalmAtHigh, Judged, NoSecondAlarm, Lap
<1>3. CASE TakeNotification
  <2>1. main.pc # "note" /\ main'.pc # "note"
    <3>1. CASE UNCHANGED main
      BY <1>3, <3>1 DEF TakeNotification, MainFree, Idle
    <3>2. CASE main' = [Idle EXCEPT !.pc = "judge", !.rep = Head(pipe), !.wd = siren]
      BY <1>3, <3>2 DEF TakeNotification, MainFree, Idle
    <3> QED
      BY <1>3, <3>1, <3>2 DEF TakeNotification
  <2> QED
    BY <1>0, <1>3, <2>1 DEF TakeNotification, OnceInv, RaisedBelow, CalmAtHigh, NoSecondAlarm
<1>4. CASE Note
  <2>1. main' = [Idle EXCEPT !.pc = "store", !.rep = main.rep]
    BY <1>4 DEF Note
  <2>2. main'.pc = "store"
    BY <2>1 DEF Idle
  <2> QED
    BY <1>0, <1>4, <2>2 DEF Note, OnceInv, RaisedBelow, CalmAtHigh, Judged, NoSecondAlarm, Lap
<1>5. CASE Store
  BY <1>0, <1>5 DEF Store, Idle, OnceInv, RaisedBelow, CalmAtHigh, NoSecondAlarm, Lap
<1>6. CASE Restart
  BY <1>0, <1>6 DEF Restart, Idle, OnceInv, RaisedBelow, CalmAtHigh, NoSecondAlarm
<1>7. CASE \E at \in Minutes : Judge(at)
  BY <1>0, <1>7, JudgeOnce
<1>8. CASE SimpleDesc
  BY <1>0, <1>8 DEF SimpleDesc, Reset, OnceInv, RaisedBelow, CalmAtHigh, NoSecondAlarm, Lap
<1>9. ASSUME NEW t \in Threads, NEW m \in air, Annce(t, m) \/ Leave(t, m)
      PROVE  OnceInv'
  BY <1>0, <1>9
     DEF Annce, Leave, Reset, OnceInv, RaisedBelow, CalmAtHigh, Judged, NoSecondAlarm, Lap
<1>10. ASSUME NEW t \in Threads, LeaveRow(t) PROVE OnceInv'
  BY <1>0, <1>10
     DEF LeaveRow, OnceInv, RaisedBelow, CalmAtHigh, Judged, NoSecondAlarm, Lap
<1> QED
  BY <1>1, <1>2, <1>3, <1>4, <1>5, <1>6, <1>7, <1>8, <1>9, <1>10, Loud

(* A report raises a second alarm only if the numbers were set or rolled   *)
(* back in between, or it is more than Window behind, or the edge of char  *)
(* lies between (NoSecondAlarm of Reports), for every Window, every number *)
(* of repeats and every order of delivery.                                 *)
THEOREM ReportsNoSecondAlarm == Spec => []NoSecondAlarm
<1>1. Init => OnceInv
  BY TypeInit, ZeroReduced
     DEF Init, OnceInv, MemReduced, RaisedBelow, CalmAtHigh, NoSecondAlarm, Idle
<1>2. OnceInv => NoSecondAlarm
  BY DEF OnceInv
<1> QED
  BY <1>1, <1>2, OnceStep, PTL DEF Spec

-----------------------------------------------------------------------------
(* Nothing dropped without a reason.                                       *)

(* A notification is of one of the starts of the sensor in S.              *)
Among(S, r) == r.kind \in Notifications => r.inc \in S
AirAmong(S) == \A m \in air : Among(S, m)
HandAmong(S) == \A t \in Threads : Among(S, hand[t])
PipeAmong(S) == \A i \in DOMAIN pipe : Among(S, pipe[i])
AllAmong(S) == AirAmong(S) /\ HandAmong(S) /\ PipeAmong(S) /\ Among(S, main.rep)

LEMMA AppendAmong ==
  ASSUME TypeOK, NEW S, PipeAmong(S), NEW m \in Message, Among(S, m), pipe' = Append(pipe, m)
  PROVE  PipeAmong(S)'
<1>1. pipe \in Seq(Message)
  BY DEF TypeOK
<1>2. ASSUME NEW i \in DOMAIN pipe' PROVE Among(S, pipe'[i])
  <2>1. CASE i \in DOMAIN pipe
    <3>1. pipe'[i] = pipe[i]
      BY <1>1, <2>1
    <3> QED
      BY <2>1, <3>1 DEF PipeAmong
  <2>2. CASE i = Len(pipe) + 1
    BY <1>1, <2>2
  <2>3. i \in DOMAIN pipe \/ i = Len(pipe) + 1
    BY <1>1, <1>2
  <2> QED
    BY <2>1, <2>2, <2>3
<1> QED
  BY <1>2 DEF PipeAmong

LEMMA TailAmong ==
  ASSUME TypeOK, NEW S, PipeAmong(S), pipe # <<>>, pipe' = Tail(pipe)
  PROVE  Among(S, Head(pipe)) /\ PipeAmong(S)'
<1>1. pipe \in Seq(Message) /\ 1 \in DOMAIN pipe /\ Head(pipe) = pipe[1]
  BY DEF TypeOK
<1>2. ASSUME NEW i \in DOMAIN pipe'
      PROVE  i + 1 \in DOMAIN pipe /\ pipe'[i] = pipe[i + 1]
  BY <1>1, <1>2
<1>3. PipeAmong(S)'
  BY <1>2 DEF PipeAmong
<1> QED
  BY <1>1, <1>3 DEF PipeAmong

LEMMA AmongNothing == ASSUME NEW S PROVE Among(S, Nothing)
  BY DEF Among, Nothing, Report, Notifications

(* A step brings in notifications of the current start of the sensor only. *)
LEMMA AmongStep ==
  ASSUME TypeOK, [Next]_vars, NEW S, sensor.inc \in S, AllAmong(S)
  PROVE  AllAmong(S)'
<1>0. /\ \A m \in air : Among(S, m)
      /\ \A t \in Threads : Among(S, hand[t]) /\ hand[t] \in Message
      /\ hand \in [Threads -> Message]
      /\ PipeAmong(S)
      /\ Among(S, main.rep)
  BY DEF AllAmong, AirAmong, HandAmong, TypeOK
<1>1. ASSUME NEW r, air' \subseteq air \cup {r}, Among(S, r), UNCHANGED <<hand, pipe, main>>
      PROVE  AllAmong(S)'
  <2>1. AirAmong(S)'
    BY <1>0, <1>1 DEF AirAmong
  <2> QED
    BY <1>0, <1>1, <2>1 DEF AllAmong, HandAmong, PipeAmong
<1>2. ASSUME UNCHANGED <<air, hand, pipe>>, main'.rep \in {Nothing, main.rep}
      PROVE  AllAmong(S)'
  BY <1>0, <1>2, AmongNothing DEF AllAmong, AirAmong, HandAmong, PipeAmong
<1>3. ASSUME NEW k \in Notifications, NEW g \in Gaps, Sense(k, g) PROVE AllAmong(S)'
  <2>1. Among(S, Report(k, sensor.inc, sensor.n + g))
    BY DEF Among, Report
  <2> QED
    BY <1>1, <1>3, <2>1 DEF Sense
<1>4. ASSUME NEW k \in Answers, Answer(k) PROVE AllAmong(S)'
  <2>1. Among(S, Report(k, sensor.inc, 0))
    BY DEF Among, Report
  <2> QED
    BY <1>1, <1>4, <2>1 DEF Answer
<1>5. CASE SensorStarts
  <2>1. Among(S, Report("annce", sensor.inc + 1, -1))
    BY DEF Among, Report, Notifications
  <2> QED
    BY <1>1, <1>5, <2>1 DEF SensorStarts
<1>6. CASE SensorLeaves
  <2>1. Among(S, Report("leave", sensor.inc, sensor.n))
    BY DEF Among, Report, Notifications
  <2> QED
    BY <1>1, <1>6, <2>1 DEF SensorLeaves
<1>7. ASSUME NEW t \in Threads, NEW m \in air,
             Incoming(t, m) \/ Annce(t, m) \/ Leave(t, m)
      PROVE  AllAmong(S)'
  <2>1. air' \subseteq air
    BY <1>7 DEF Incoming, Annce, Leave, Deliver
  <2>2. UNCHANGED <<pipe, main>> /\ (hand' = hand \/ hand' = [hand EXCEPT ![t] = m])
    BY <1>7 DEF Incoming, Annce, Leave
  <2>3. \A u \in Threads : Among(S, hand'[u])
    BY <1>0, <1>7, <2>2
  <2> QED
    BY <1>0, <2>1, <2>2, <2>3 DEF AllAmong, AirAmong, HandAmong, PipeAmong
<1>8. ASSUME NEW t \in Threads,
             \/ ChangeNotification(t) \/ EnrollRequest(t) \/ OnOffResponse(t) \/ LeaveRow(t)
      PROVE  AllAmong(S)'
  <2>1. UNCHANGED <<air, main>> /\ hand' = [hand EXCEPT ![t] = Nothing]
    BY <1>8 DEF ChangeNotification, EnrollRequest, OnOffResponse, LeaveRow
  <2>2. \A u \in Threads : Among(S, hand'[u])
    BY <1>0, <2>1, AmongNothing
  <2>3. \/ pipe' = pipe \/ pipe' = Append(pipe, hand[t])
        \/ \E k \in BOOLEAN : pipe' = Append(pipe, [hand[t] EXCEPT !.known = k])
    BY <1>8 DEF ChangeNotification, EnrollRequest, OnOffResponse, LeaveRow
  <2>4. hand[t] \in Message /\ Among(S, hand[t])
    BY <1>0
  <2>5. \A k \in BOOLEAN : /\ [hand[t] EXCEPT !.known = k] \in Message
                           /\ Among(S, [hand[t] EXCEPT !.known = k])
    BY <2>4 DEF Message, Among
  <2>6. PipeAmong(S)'
    <3>1. CASE pipe' = pipe
      BY <1>0, <3>1 DEF PipeAmong
    <3>2. CASE pipe' # pipe
      BY <1>0, <2>3, <2>4, <2>5, <3>2, AppendAmong
    <3> QED
      BY <3>1, <3>2
  <2> QED
    BY <1>0, <2>1, <2>2, <2>6 DEF AllAmong, AirAmong, HandAmong
<1>9. CASE SimpleDesc \/ SirenJoins
  <2>1. main'.rep = main.rep
    BY <1>9 DEF SimpleDesc, SirenJoins, TypeOK, Locals
  <2> QED
    BY <1>2, <1>9, <2>1 DEF SimpleDesc, SirenJoins
<1>10. CASE TakeNotification \/ TakeEnroll \/ TakeOnOff
  <2>1. pipe # <<>> /\ pipe' = Tail(pipe) /\ UNCHANGED <<air, hand>>
    BY <1>10 DEF TakeNotification, TakeEnroll, TakeOnOff
  <2>2. Among(S, Head(pipe)) /\ PipeAmong(S)'
    BY <1>0, <2>1, TailAmong
  <2>3. main'.rep \in {main.rep, Head(pipe)}
    <3>1. \/ main' = main
          \/ main' = [Idle EXCEPT !.pc = "judge", !.rep = Head(pipe), !.wd = siren]
      BY <1>10 DEF TakeNotification, TakeEnroll, TakeOnOff
    <3> QED
      BY <3>1 DEF Idle
  <2> QED
    BY <1>0, <2>1, <2>2, <2>3 DEF AllAmong, AirAmong, HandAmong
<1>11. ASSUME NEW at \in Minutes, Judge(at) PROVE AllAmong(S)'
  <2>1. main'.rep \in {Nothing, main.rep}
    BY <1>11, JudgeMain DEF Idle
  <2> QED
    BY <1>2, <1>11, <2>1 DEF Judge
<1>12. CASE Note \/ Store
  <2>1. main'.rep \in {Nothing, main.rep}
    <3>1. CASE main' = Idle
      BY <3>1 DEF Idle
    <3>2. CASE main' = [Idle EXCEPT !.pc = "store", !.rep = main.rep]
      BY <3>2 DEF Idle
    <3> QED
      BY <1>12, <3>1, <3>2 DEF Note, Store
  <2> QED
    BY <1>2, <1>12, <2>1 DEF Note, Store
<1>13. CASE Delete
  <2>1. UNCHANGED <<air, main>>
    BY <1>13 DEF Delete
  <2>2. \A t \in Threads : hand'[t] = Nothing \/ hand'[t] = [hand[t] EXCEPT !.stale = TRUE]
    BY <1>13 DEF Delete
  <2>3. DOMAIN pipe' = DOMAIN pipe
        /\ \A i \in DOMAIN pipe : pipe'[i] = [pipe[i] EXCEPT !.stale = TRUE]
    BY <1>13 DEF Delete
  <2>4. \A m \in Message : Among(S, m) => Among(S, [m EXCEPT !.stale = TRUE])
    BY DEF Among, Message
  <2>5. \A t \in Threads : Among(S, hand'[t])
    BY <1>0, <2>2, <2>4, AmongNothing
  <2>6. \A i \in DOMAIN pipe : pipe[i] \in Message
    BY DEF TypeOK
  <2>7. \A i \in DOMAIN pipe' : Among(S, pipe'[i])
    BY <1>0, <2>3, <2>4, <2>6 DEF PipeAmong
  <2> QED
    BY <1>0, <2>1, <2>5, <2>7 DEF AllAmong, AirAmong, HandAmong, PipeAmong
<1>14. ASSUME NEW a \in Armings, SetArm(a) PROVE AllAmong(S)'
  BY <1>2, <1>14 DEF SetArm
<1>15. CASE Restart
  <2>1. UNCHANGED air /\ pipe' = <<>> /\ main'.rep = Nothing
        /\ hand' = [t \in Threads |-> Nothing]
    BY <1>15 DEF Restart, Idle
  <2>2. HandAmong(S)' /\ PipeAmong(S)' /\ AirAmong(S)' /\ Among(S, main.rep)'
    BY <1>0, <2>1, AmongNothing DEF HandAmong, PipeAmong, AirAmong
  <2> QED
    BY <2>2 DEF AllAmong
<1>16. CASE UNCHANGED vars
  BY <1>2, <1>16 DEF vars
<1> QED
  BY <1>3, <1>4, <1>5, <1>6, <1>7, <1>8, <1>9, <1>10, <1>11, <1>12, <1>13, <1>14, <1>15,
     <1>16 DEF Next

(* What is judged is a notification; none is of a start yet to come.       *)
Judging == main.pc # "idle" => main.rep.kind \in Notifications
UpTo == 0..sensor.inc
(* Once the numbers were cleanly set to 0, what came before is forgotten.  *)
Since == {i \in Nat : i >= sensor.inc}
CleanInv ==
  reset = "clean" => AllAmong(Since) /\ (memFrom = Zero \/ memFrom.inc \in Since)

DropInv ==
  TypeOK /\ MemReduced /\ Judging /\ AllAmong(UpTo) /\ CleanInv /\ DroppedOnlyIfOld

LEMMA AmongWider ==
  ASSUME NEW S, NEW T, S \subseteq T, AllAmong(S) PROVE AllAmong(T)
  BY DEF AllAmong, AirAmong, HandAmong, PipeAmong, Among

LEMMA SensorStep ==
  ASSUME TypeOK, [Next]_vars
  PROVE  \/ sensor'.inc = sensor.inc
         \/ SensorStarts /\ sensor'.inc = sensor.inc + 1
<1> USE DEF numbers, verdicts
<1>1. CASE Silent
  BY <1>1, SilentFrame
<1>2. CASE SensorStarts
  BY <1>2 DEF SensorStarts
<1>3. ASSUME \/ TakeNotification \/ Note \/ Store \/ Restart
             \/ \E at \in Minutes : Judge(at)
             \/ SimpleDesc
             \/ \E t \in Threads : \/ \E m \in air : Annce(t, m) \/ Leave(t, m)
                                   \/ LeaveRow(t)
      PROVE  UNCHANGED sensor
  BY <1>3 DEF TakeNotification, Note, Store, Restart, Judge, SimpleDesc, Annce, Leave,
              LeaveRow
<1> QED
  BY <1>1, <1>2, <1>3, Loud

LEMMA JudgingStep ==
  ASSUME TypeOK, Judging, [Next]_vars PROVE Judging'
<1>1. CASE Silent
  BY <1>1, SilentFrame DEF Judging
<1>2. CASE SensorStarts \/ SimpleDesc
  BY <1>2 DEF SensorStarts, SimpleDesc, Judging
<1>3. CASE TakeNotification
  <2>1. CASE UNCHANGED main
    BY <2>1 DEF Judging
  <2>2. CASE main' = [Idle EXCEPT !.pc = "judge", !.rep = Head(pipe), !.wd = siren]
    <3>1. main'.rep = Head(pipe)
      BY <2>2 DEF Idle
    <3> QED
      BY <1>3, <3>1 DEF TakeNotification, Judging
  <2> QED
    BY <1>3, <2>1, <2>2 DEF TakeNotification
<1>4. CASE Note
  <2>1. main' = [Idle EXCEPT !.pc = "store", !.rep = main.rep]
    BY <1>4 DEF Note
  <2>2. main'.rep = main.rep /\ main.pc = "note"
    BY <1>4, <2>1 DEF Idle, Note
  <2> QED
    BY <2>2 DEF Judging
<1>5. CASE Store \/ Restart
  BY <1>5 DEF Store, Restart, Idle, Judging
<1>6. ASSUME NEW at \in Minutes, Judge(at) PROVE Judging'
  <2>1. main.pc = "judge"
    BY <1>6 DEF Judge
  <2>2. main'.pc = "idle" \/ main'.rep = main.rep
    BY <1>6, JudgeMain DEF Idle
  <2> QED
    BY <2>1, <2>2 DEF Judging
<1>7. ASSUME NEW t \in Threads,
             (\E m \in air : Annce(t, m) \/ Leave(t, m)) \/ LeaveRow(t)
      PROVE  Judging'
  BY <1>7 DEF Annce, Leave, LeaveRow, Judging
<1> QED
  BY <1>1, <1>2, <1>3, <1>4, <1>5, <1>6, <1>7, Loud

(* Setting the numbers to 0 cleanly: nothing older is on its way.          *)
LEMMA ResetClean ==
  ASSUME TypeOK, AllAmong(UpTo), Reset, reset' = "clean"
  PROVE  AllAmong(Since) /\ memFrom' = Zero
<1>1. \A r \in air \cup InGateway : ~(r.kind \in Notifications /\ r.inc < sensor.inc)
  BY DEF Reset
<1>2. /\ \A m \in air : Among(UpTo, m) /\ m \in air \cup InGateway
      /\ \A t \in Threads : Among(UpTo, hand[t]) /\ hand[t] \in air \cup InGateway
      /\ \A i \in DOMAIN pipe : Among(UpTo, pipe[i]) /\ pipe[i] \in air \cup InGateway
      /\ Among(UpTo, main.rep) /\ main.rep \in air \cup InGateway
  BY DEF AllAmong, AirAmong, HandAmong, PipeAmong, InGateway, ToSet
<1>3. sensor.inc \in Nat
  BY DEF TypeOK, Count
<1>4. ASSUME NEW r \in air \cup InGateway, Among(UpTo, r) PROVE Among(Since, r)
  BY <1>1, <1>3, <1>4 DEF Among, UpTo, Since
<1>5. AllAmong(Since)
  BY <1>2, <1>4 DEF AllAmong, AirAmong, HandAmong, PipeAmong
<1> QED
  BY <1>5 DEF Reset

(* Where the number in memory comes from after a step.                     *)
LEMMA FromStep ==
  ASSUME TypeOK, Judging, [Next]_vars, reset' = "clean"
  PROVE  \/ Reset
         \/ reset = "clean" /\ memFrom' = memFrom
         \/ /\ reset = "clean" /\ main.rep.kind \in Notifications
            /\ memFrom' = [inc |-> main.rep.inc, n |-> main.rep.n]
<1> USE DEF numbers, verdicts
<1>1. CASE Silent
  BY <1>1, SilentFrame
<1>2. CASE SensorStarts
  BY <1>2 DEF SensorStarts
<1>3. CASE TakeNotification \/ Store \/ \E at \in Minutes : Judge(at)
  BY <1>3 DEF TakeNotification, Store, Judge
<1>4. CASE Note
  BY <1>4 DEF Note, Judging
<1>5. CASE Restart
  BY <1>5 DEF Restart
<1>6. CASE SimpleDesc
  BY <1>6 DEF SimpleDesc
<1>7. ASSUME NEW t \in Threads, (\E m \in air : Annce(t, m) \/ Leave(t, m)) \/ LeaveRow(t)
      PROVE  Reset \/ (reset = reset' /\ memFrom' = memFrom)
  BY <1>7 DEF Annce, Leave, LeaveRow
<1> QED
  BY <1>1, <1>2, <1>3, <1>4, <1>5, <1>6, <1>7, Loud

(* A notification is dropped for one of the reasons.                       *)
LEMMA DropReason ==
  ASSUME DropInv, main.pc = "judge", ~seq_after(main.rep.n % M, mem),
         NEW d, d = [rep |-> Judged, from |-> memFrom, reset |-> reset]
  PROVE  \/ d.from = Zero /\ (-d.rep.n) % M <= Window
         \/ d.from.inc = d.rep.inc
            /\ (d.from.n >= d.rep.n \/ d.rep.n - d.from.n >= 3 * Window)
         \/ d.from.inc > d.rep.inc
         \/ d.from.inc < d.rep.inc /\ d.from # Zero
            /\ (d.reset # "clean" \/ d.rep.inc < sensor.inc)
<1>1. /\ main.rep.inc \in Nat /\ main.rep.n \in Int
      /\ memFrom.inc \in Nat /\ memFrom.n \in Int /\ sensor.inc \in Nat
      /\ CharMinOK /\ mem = memFrom.n % M
  BY DEF DropInv, TypeOK, CharMinOK, MemReduced, Locals, Message, Count
<1>2. main.rep.inc <= sensor.inc
  <2>1. main.rep.kind \in Notifications /\ Among(UpTo, main.rep)
    BY DEF DropInv, Judging, AllAmong
  <2> QED
    BY <1>1, <2>1 DEF Among, UpTo
<1>3. d.rep.inc = main.rep.inc /\ d.rep.n = main.rep.n /\ d.from = memFrom /\ d.reset = reset
  BY DEF Judged
<1>4. CASE memFrom = Zero
  <2>1. mem = 0
    BY <1>1, <1>4, ZeroReduced
  <2>2. (-main.rep.n) % M <= Window
    BY <1>1, <2>1, NotAfterZero
  <2> QED
    BY <1>3, <1>4, <2>2
<1>5. CASE memFrom.inc = main.rep.inc
  <2>1. memFrom.n >= main.rep.n \/ main.rep.n - memFrom.n >= 3 * Window
    <3>1. SUFFICES ASSUME main.rep.n > memFrom.n, main.rep.n - memFrom.n < 3 * Window
                   PROVE  FALSE
      BY <1>1, MLarge
    <3> QED
      BY <1>1, <3>1, NewIsNew
  <2> QED
    BY <1>3, <1>5, <2>1
<1>6. CASE memFrom # Zero /\ memFrom.inc < main.rep.inc
  <2>1. reset # "clean"
    BY <1>1, <1>2, <1>6 DEF DropInv, CleanInv, Since
  <2> QED
    BY <1>3, <1>6, <2>1
<1> QED
  BY <1>1, <1>3, <1>4, <1>5, <1>6

LEMMA JudgeDrop ==
  ASSUME DropInv, NEW at \in Minutes, Judge(at), charMin' = charMin
  PROVE  DroppedOnlyIfOld'
<1>1. UNCHANGED sensor /\ main.pc = "judge"
  BY DEF Judge
<1>2. CASE missed' = {} \/ UNCHANGED missed
  BY <1>1, <1>2 DEF DropInv, DroppedOnlyIfOld
<1>3. CASE /\ ~seq_after(main.rep.n % M, mem)
           /\ missed' = {[rep |-> Judged, from |-> memFrom, reset |-> reset]}
  BY <1>1, <1>3, DropReason DEF DroppedOnlyIfOld
<1> QED
  BY <1>2, <1>3 DEF Judge, Judged, verdicts

LEMMA DropStep == DropInv /\ [Next]_vars => DropInv'
<1> SUFFICES ASSUME DropInv, [Next]_vars PROVE DropInv'
  OBVIOUS
<1> USE DEF numbers, verdicts
<1>0. /\ TypeOK /\ Judging /\ AllAmong(UpTo)
      /\ TypeOK' /\ MemReduced' /\ Judging' /\ charMin' = charMin
      /\ sensor.inc \in Nat /\ sensor'.inc \in Nat
  BY TypeStep, MemStep, JudgingStep, FixedStep DEF DropInv, TypeOK, Count
<1>1. sensor'.inc = sensor.inc \/ (SensorStarts /\ sensor'.inc = sensor.inc + 1)
  BY <1>0, SensorStep
<1>2. AllAmong(UpTo)'
  <2>1. PICK S : S = 0..sensor.inc
    OBVIOUS
  <2>2. PICK T : T = 0..sensor'.inc
    OBVIOUS
  <2>3. AllAmong(S) /\ sensor.inc \in S
    BY <1>0, <2>1 DEF UpTo
  <2>4. AllAmong(S)'
    BY <1>0, <2>3, AmongStep
  <2>5. S \subseteq T
    BY <1>0, <1>1, <2>1, <2>2
  <2>6. AllAmong(T)'
    BY <2>4, <2>5 DEF AllAmong, AirAmong, HandAmong, PipeAmong, Among
  <2> QED
    BY <2>2, <2>6 DEF AllAmong, AirAmong, HandAmong, PipeAmong, Among, UpTo
<1>3. CleanInv'
  <2>1. SUFFICES ASSUME reset' = "clean"
                 PROVE  AllAmong(Since)' /\ (memFrom' = Zero \/ memFrom'.inc \in Since')
    BY DEF CleanInv
  <2>2. sensor'.inc = sensor.inc /\ Since' = Since
    <3>1. ~SensorStarts
      BY <2>1 DEF SensorStarts
    <3> QED
      BY <1>1, <3>1 DEF Since
  <2>3. /\ AllAmong(Since)
        /\ \/ memFrom' = Zero
           \/ memFrom' = memFrom /\ (memFrom = Zero \/ memFrom.inc \in Since)
           \/ main.rep.kind \in Notifications
              /\ memFrom' = [inc |-> main.rep.inc, n |-> main.rep.n]
    BY <1>0, <2>1, FromStep, ResetClean DEF DropInv, CleanInv
  <2>4. memFrom' = Zero \/ memFrom'.inc \in Since
    BY <2>3 DEF AllAmong, Among
  <2>5. PICK S : S = {i \in Nat : i >= sensor.inc}
    OBVIOUS
  <2>6. AllAmong(S) /\ sensor.inc \in S
    BY <1>0, <2>3, <2>5 DEF Since
  <2>7. AllAmong(S)'
    BY <1>0, <2>6, AmongStep
  <2>8. S = {i \in Nat : i >= sensor'.inc}
    BY <2>2, <2>5
  <2>9. AllAmong(Since)'
    BY <2>7, <2>8 DEF AllAmong, AirAmong, HandAmong, PipeAmong, Among, Since
  <2> QED
    BY <2>2, <2>4, <2>9
<1>4. DroppedOnlyIfOld'
  <2>1. CASE Silent
    BY <1>1, <2>1, SilentFrame DEF DropInv, DroppedOnlyIfOld, SensorStarts
  <2>2. CASE SensorStarts
    <3>1. UNCHANGED missed
      BY <2>2 DEF SensorStarts
    <3>2. \A d \in missed : d.rep.inc \in Nat
      BY <1>0 DEF TypeOK, Count
    <3>3. \A d \in missed : d.rep.inc < sensor.inc => d.rep.inc < sensor'.inc
      BY <1>0, <1>1, <3>2
    <3> QED
      BY <3>1, <3>3 DEF DropInv, DroppedOnlyIfOld
  <2>3. CASE TakeNotification \/ Restart
    BY <2>3 DEF TakeNotification, Restart, DroppedOnlyIfOld
  <2>4. CASE Note \/ Store \/ SimpleDesc
    BY <2>4 DEF Note, Store, SimpleDesc, Reset, DropInv, DroppedOnlyIfOld
  <2>5. ASSUME NEW t \in Threads, (\E m \in air : Annce(t, m) \/ Leave(t, m)) \/ LeaveRow(t)
        PROVE  DroppedOnlyIfOld'
    BY <2>5 DEF Annce, Leave, LeaveRow, Reset, DropInv, DroppedOnlyIfOld
  <2>6. ASSUME NEW at \in Minutes, Judge(at) PROVE DroppedOnlyIfOld'
    BY <1>0, <2>6, JudgeDrop
  <2> QED
    BY <2>1, <2>2, <2>3, <2>4, <2>5, <2>6, Loud
<1> QED
  BY <1>0, <1>2, <1>3, <1>4 DEF DropInv

(* A notification is dropped only for one of the reasons DroppedOnlyIfOld  *)
(* of Reports names, for every Window, every number of sensor starts and   *)
(* every order of delivery.                                                *)
THEOREM ReportsDroppedOnlyIfOld == Spec => []DroppedOnlyIfOld
<1>1. Init => DropInv
  <2> SUFFICES ASSUME Init PROVE DropInv
    OBVIOUS
  <2>1. TypeOK /\ MemReduced /\ Judging /\ CleanInv /\ DroppedOnlyIfOld
    BY TypeInit, ZeroReduced
       DEF Init, MemReduced, Judging, Idle, CleanInv, DroppedOnlyIfOld
  <2>2. AllAmong(UpTo)
    BY AmongNothing DEF Init, Idle, AllAmong, AirAmong, HandAmong, PipeAmong
  <2> QED
    BY <2>1, <2>2 DEF DropInv
<1>2. DropInv => DroppedOnlyIfOld
  BY DEF DropInv
<1> QED
  BY <1>1, <1>2, DropStep, PTL DEF Spec
=============================================================================
