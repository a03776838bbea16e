------------------------------ MODULE Registry ------------------------------
(***************************************************************************)
(* Devices and their endpoints: the list in memory (gateway.c), the rows   *)
(* of the device table (sqlitedb.c), the interview of a device that        *)
(* announces itself (callbacks of appinit.c) and the commands that delete  *)
(* a device or arm one of its endpoints (event.c).                         *)
(*                                                                         *)
(* The interview asks for the list of active endpoints, then for the       *)
(* simple descriptor of one endpoint after the other, and writes all of    *)
(* them to the blob of the device's row after the last.  Callbacks run on  *)
(* whichever thread takes the message off the rpc queue, the commands on   *)
(* the main thread, and neither takes a lock: a command may free a device  *)
(* between two steps of a callback that holds a pointer to it.             *)
(*                                                                         *)
(* A step is at most one statement on the database with the accesses to    *)
(* memory next to it.  Every statement opens a connection of its own       *)
(* without a busy handler, so that it fails when another thread is         *)
(* writing; most callers do not look.  SQLite itself, the network and the  *)
(* devices are the environment.                                            *)
(*                                                                         *)
(* Each device has the endpoints 1..NumEps and one short address.  Of the  *)
(* status bits only those that decide something here are kept.             *)
(***************************************************************************)
EXTENDS Integers, Sequences, FiniteSets, SequencesExt

CONSTANTS
  Devices,    (* IEEE addresses                                            *)
  Objs,       (* blocks malloc can return for a struct device              *)
  NoObj,      (* NULL                                                      *)
  NoRow,      (* a device without a row                                    *)
  Main,       (* the thread of eventhub_start                              *)
  MsgThreads, (* threads that run callbacks                                *)
  NumEps,     (* active endpoints of a device                              *)
  Armings,    (* values of an endpoint's arm field                         *)
  Zeroed,     (* the one memset leaves                                     *)
  Slots,      (* simple descriptors a blob has room for (77)               *)
  MaxEps,     (* bound: endpoints a device gathers, repeated ones included *)
  MaxAnnces, MaxDels, MaxArms, MaxLost, MaxBusy, MaxCrashes  (* bounds     *)

ASSUME RegistryAssumption ==
  /\ IsFiniteSet(Devices) /\ Devices # {}
  /\ NoObj \notin Objs /\ Main \notin MsgThreads /\ Zeroed \in Armings
  /\ NumEps \in Nat \ {0} /\ Slots \in Nat /\ NumEps <= Slots
  /\ {MaxEps, MaxAnnces, MaxDels, MaxArms, MaxLost, MaxBusy, MaxCrashes} \subseteq Nat

VARIABLES
  heap,    (* heap[o]: the struct device last kept in block o              *)
  list,    (* gatewayinstance.head, as blocks                              *)
  row,     (* row[d]: d's row in the device table                          *)
  pc, arg, (* each thread's next step and the locals it needs for it       *)
  air,     (* air[m]: how many copies of the response m are on their way   *)
  used,    (* how much of each bound is used                               *)
  stray,   (* history: a simple descriptor came that the interview did not *)
           (* ask for, or asked for twice                                  *)
  dangling,(* history: a device was freed while a callback was using it    *)
  acked    (* history: acked[d][e]: the arming confirmed to the app        *)

vars == <<heap, list, row, pc, arg, air, used, stray, dangling, acked>>

Threads == MsgThreads \cup {Main}
Eps == 1..NumEps
Endpoint == [ep : 0..NumEps, arm : Armings]
Blank == [ep |-> 0, arm |-> Zeroed]
Bits == {"SEND_ACTIVEEP", "SEND_SIMPLEDESC", "ACTIVE"}
Device == [dev : Devices, status : SUBSET Bits, eps : Seq(Endpoint),
           cursor : Nat, count : {0, NumEps}]
Row == [status : SUBSET Bits, count : {0, NumEps}, slots : [1..Slots -> Endpoint]]
ASSUME NoRowAssumption == NoRow \notin Row
Responses == [type : {"ACTIVE_EP"}, dev : Devices, ep : {0}]
             \cup [type : {"SIMPLE_DESC"}, dev : Devices, ep : Eps]
ActiveEpRsp(d) == [type |-> "ACTIVE_EP", dev |-> d, ep |-> 0]
SimpleDescRsp(d, e) == [type |-> "SIMPLE_DESC", dev |-> d, ep |-> e]
Bounds == {"annces", "dels", "arms", "lost", "busy", "crashes"}

NoArg == [dev |-> CHOOSE d \in Devices : TRUE, obj |-> NoObj, ep |-> 0,
          arm |-> Zeroed, over |-> FALSE]
Unset == "unset"

device_create(d) ==
  [dev |-> d, status |-> {}, eps |-> <<>>, cursor |-> 0, count |-> 0]

(* The first object of the list that is device d, or NULL.                 *)
gateway_getdevice(d) ==
  LET at == {i \in DOMAIN list : heap[list[i]].dev = d}
  IN  IF at = {} THEN NoObj
      ELSE list[CHOOSE i \in at : \A j \in at : i <= j]

device_has_endpoint(o, e) == \E i \in DOMAIN heap[o].eps : heap[o].eps[i].ep = e
device_get_index(o, e) ==
  CHOOSE i \in DOMAIN heap[o].eps :
    heap[o].eps[i].ep = e /\ \A j \in 1..(i - 1) : heap[o].eps[j].ep # e

Use(b) == used' = [used EXCEPT ![b] = @ + 1]
At(t, step) == pc[t] = step
Goto(t, step) == pc' = [pc EXCEPT ![t] = step]
Call(t, step, a) == Goto(t, step) /\ arg' = [arg EXCEPT ![t] = a]
Return(t) == Call(t, "idle", NoArg)
Send(m) == air' = [air EXCEPT ![m] = @ + 1]

(* A statement that turns d's row into r: without effect if there is no    *)
(* such row, and lost if another thread is writing.                        *)
Update(d, r) ==
  \/ row' = (IF row[d] = NoRow THEN row ELSE [row EXCEPT ![d] = r]) /\ UNCHANGED used
  \/ used.busy < MaxBusy /\ Use("busy") /\ UNCHANGED row
UpdateStatus(d, s) == Update(d, [row[d] EXCEPT !.status = s])

Init ==
  /\ heap = [o \in Objs |-> device_create(NoArg.dev)]
  /\ list = <<>> /\ row = [d \in Devices |-> NoRow]
  /\ pc = [t \in Threads |-> "idle"] /\ arg = [t \in Threads |-> NoArg]
  /\ air = [m \in Responses |-> 0] /\ used = [b \in Bounds |-> 0]
  /\ stray = FALSE /\ dangling = FALSE
  /\ acked = [d \in Devices |-> [e \in Eps |-> Unset]]

-----------------------------------------------------------------------------
(* A device announces itself: mtZdoEndDeviceAnnceIndCb.                    *)

(* As a mutant: without "if(!d)", NULL is used.                            *)
AnnceUnchecked(t, d) ==
  /\ At(t, "idle") /\ used.annces < MaxAnnces
  /\ Call(t, "refresh", [NoArg EXCEPT !.dev = d, !.obj = gateway_getdevice(d)])
  /\ Use("annces")
  /\ UNCHANGED <<heap, list, row, air, stray, dangling, acked>>

Annce(t, d) ==
  /\ At(t, "idle") /\ used.annces < MaxAnnces
  /\ LET o == gateway_getdevice(d)
     IN  Call(t, IF o = NoObj THEN "create" ELSE "refresh",
              [NoArg EXCEPT !.dev = d, !.obj = o])
  /\ Use("annces")
  /\ UNCHANGED <<heap, list, row, air, stray, dangling, acked>>

(* Any free block may be returned, also one another thread still uses.     *)
AnnceCreate(t) ==
  /\ At(t, "create")
  /\ \E o \in Objs \ ToSet(list) :
       /\ heap' = [heap EXCEPT ![o] = device_create(arg[t].dev)]
       /\ list' = Append(list, o)
       /\ Call(t, "insert", [arg[t] EXCEPT !.obj = o])
  /\ UNCHANGED <<row, air, used, stray, dangling, acked>>

(* An existing row keeps its key: the insertion fails.                     *)
AnnceInsert(t) ==
  /\ At(t, "insert")
  /\ LET d == arg[t].dev
     IN  \/ /\ row' = IF row[d] # NoRow THEN row
                      ELSE [row EXCEPT ![d] = [status |-> {}, count |-> 0,
                                               slots |-> [i \in 1..Slots |-> Blank]]]
            /\ UNCHANGED used
         \/ used.busy < MaxBusy /\ Use("busy") /\ UNCHANGED row
  /\ Goto(t, "refresh")
  /\ UNCHANGED <<heap, list, arg, air, stray, dangling, acked>>

(* APP_DEL and LEAVE_NET are cleared, the status is written.               *)
AnnceRefresh(t) ==
  /\ At(t, "refresh")
  /\ UpdateStatus(heap[arg[t].obj].dev, heap[arg[t].obj].status)
  /\ Goto(t, "ask")
  /\ UNCHANGED <<heap, list, arg, air, stray, dangling, acked>>

(* The interview begins, again if it has brought no endpoint so far.       *)
AnnceAsk(t) ==
  /\ At(t, "ask")
  /\ LET o == arg[t].obj
         status == (heap[o].status \cup {"SEND_ACTIVEEP"}) \ {"SEND_SIMPLEDESC"}
     IN  IF "SEND_ACTIVEEP" \notin heap[o].status \/ heap[o].eps = <<>>
         THEN /\ heap' = [heap EXCEPT ![o].status = status]
              /\ UpdateStatus(heap[o].dev, status)
              /\ Send(ActiveEpRsp(arg[t].dev))
         ELSE UNCHANGED <<heap, row, used, air>>
  /\ Return(t)
  /\ UNCHANGED <<list, stray, dangling, acked>>

-----------------------------------------------------------------------------
(* Responses.  A request is answered once; the answer may be lost, and     *)
(* come in any order, also after a restart.                                *)

Lose(m) ==
  /\ air[m] > 0 /\ used.lost < MaxLost /\ Use("lost")
  /\ air' = [air EXCEPT ![m] = @ - 1]
  /\ UNCHANGED <<heap, list, row, pc, arg, stray, dangling, acked>>

(* The callback finds the device, or returns; an interview that is in its  *)
(* second part ignores a list of active endpoints.  (After a restart       *)
(* epcursor is 0 again: a late descriptor then sets off an endless chain   *)
(* of requests for the same endpoint, which MaxEps cuts off.)              *)
Respond(t, m) ==
  /\ At(t, "idle") /\ air[m] > 0
  /\ m.type = "SIMPLE_DESC" => \A o \in Objs : Len(heap[o].eps) < MaxEps
  /\ air' = [air EXCEPT ![m] = @ - 1]
  /\ LET o == gateway_getdevice(m.dev)
         found == [NoArg EXCEPT !.dev = m.dev, !.obj = o, !.ep = m.ep]
     IN  CASE o = NoObj -> UNCHANGED <<pc, arg>>
           [] o # NoObj /\ m.type = "SIMPLE_DESC" -> Call(t, "simple_desc", found)
           [] o # NoObj /\ m.type = "ACTIVE_EP" ->
                IF "SEND_SIMPLEDESC" \in heap[o].status THEN UNCHANGED <<pc, arg>>
                ELSE Call(t, "active_ep", found)
  /\ UNCHANGED <<heap, list, row, used, stray, dangling, acked>>

(* mtZdoActiveEpRspCb: the list is kept, its first endpoint asked for.     *)
ActiveEp(t) ==
  /\ At(t, "active_ep")
  /\ LET o == arg[t].obj
         status == heap[o].status \cup {"SEND_SIMPLEDESC"}
     IN  /\ heap' = [heap EXCEPT ![o].status = status, ![o].count = NumEps]
         /\ UpdateStatus(heap[o].dev, status)
  /\ Send(SimpleDescRsp(arg[t].dev, 1))
  /\ Return(t)
  /\ UNCHANGED <<list, stray, dangling, acked>>

NextEndpoint(cursor) == cursor + 1
AtEndEarly(o, cursor) == cursor + 1 >= heap[o].count
AtEnd(o, cursor) == cursor = heap[o].count

(* mtZdoSimpleDescRspCb: epcursor counts the endpoints that have come; the *)
(* endpoint is added whether it is new or not.                             *)
SimpleDesc(t) ==
  /\ At(t, "simple_desc")
  /\ LET o == arg[t].obj
         has == device_has_endpoint(o, arg[t].ep)
         cursor == heap[o].cursor + IF has THEN 0 ELSE 1
         added == Append(heap[o].eps, [ep |-> arg[t].ep, arm |-> Zeroed])
     IN  /\ heap' = [heap EXCEPT ![o].cursor = cursor,
                       ![o].eps = IF cursor <= heap[o].count THEN added ELSE @]
         /\ \/ /\ cursor < heap[o].count
               /\ Send(SimpleDescRsp(arg[t].dev, NextEndpoint(cursor))) /\ Return(t)
            \/ /\ AtEnd(o, cursor)
               /\ Goto(t, "save") /\ UNCHANGED <<arg, air>>
            \/ /\ cursor > heap[o].count
               /\ Return(t) /\ UNCHANGED air
         /\ stray' = (stray \/ has \/ cursor > heap[o].count)
  /\ UNCHANGED <<list, row, used, dangling, acked>>

(* sqlitedb_update_device_endpoint: from the start of the blob, as far as  *)
(* it goes; what lies behind the last endpoint stays.                      *)
Save(t) ==
  /\ At(t, "save")
  /\ LET o == arg[t].obj
         d == heap[o].dev
         eps == heap[o].eps
     IN  Update(d, [row[d] EXCEPT !.count = heap[o].count,
                      !.slots = [i \in 1..Slots |-> IF i <= Len(eps) THEN eps[i] ELSE @[i]]])
  /\ Goto(t, "activate")
  /\ UNCHANGED <<heap, list, arg, air, stray, dangling, acked>>

(* The device is reported to the apps, then DEVICE_ACTIVE.                 *)
Activate(t) ==
  /\ At(t, "activate")
  /\ LET o == arg[t].obj
         status == heap[o].status \cup {"ACTIVE"}
     IN  /\ heap' = [heap EXCEPT ![o].status = status]
         /\ UpdateStatus(heap[o].dev, status)
  /\ Return(t)
  /\ UNCHANGED <<list, air, stray, dangling, acked>>

-----------------------------------------------------------------------------
(* Commands of an app, on the main thread.                                 *)

(* DEVICE_DEL: the status, with DEVICE_APP_DEL, then the row, then the     *)
(* device.  That bit is never read.                                        *)
Del(d) ==
  /\ At(Main, "idle") /\ used.dels < MaxDels /\ Use("dels")
  /\ gateway_getdevice(d) # NoObj
  /\ Call(Main, "del_mark", [NoArg EXCEPT !.dev = d, !.obj = gateway_getdevice(d)])
  /\ acked' = [acked EXCEPT ![d] = [e \in Eps |-> Unset]]
  /\ UNCHANGED <<heap, list, row, air, stray, dangling>>

(* device_set_status stores the status that is in memory.                  *)
DelMark ==
  /\ At(Main, "del_mark")
  /\ LET o == arg[Main].obj IN UpdateStatus(heap[o].dev, heap[o].status)
  /\ Goto(Main, "del_row")
  /\ UNCHANGED <<heap, list, arg, air, stray, dangling, acked>>

DelRow ==
  /\ At(Main, "del_row")
  /\ Update(arg[Main].dev, NoRow)
  /\ Goto(Main, "del_free")
  /\ UNCHANGED <<heap, list, arg, air, stray, dangling, acked>>

(* The struct leaves the list and is freed; its block keeps what is in it. *)
DelFree ==
  /\ At(Main, "del_free")
  /\ \E i \in DOMAIN list : list[i] = arg[Main].obj /\ list' = RemoveAt(list, i)
  /\ dangling' = (dangling \/ \E t \in MsgThreads : arg[t].obj = arg[Main].obj)
  /\ Return(Main)
  /\ UNCHANGED <<heap, row, air, used, stray, acked>>

(* The interview has brought every endpoint and has saved them: the row has*)
(* them in the order of the list in memory.  (If the save failed, the row  *)
(* may have those of an interview before a deletion that failed as well,   *)
(* in another order; an arming is then written to another endpoint.)       *)
InterviewOver(o) ==
  LET r == row[heap[o].dev]
      eps == heap[o].eps
  IN  /\ r # NoRow /\ r.count > 0 /\ Len(eps) >= r.count
      /\ \A i \in 1..r.count : eps[i].ep = r.slots[i].ep
      /\ \A t \in MsgThreads : ~(At(t, "save") /\ arg[t].obj = o)

(* Where sqlitedb_update_device_arm writes.  As a mutant: one slot further.*)
ArmSlotShifted(o, e) == (device_get_index(o, e) % Slots) + 1
ArmSlot(o, e) == device_get_index(o, e)

(* DEVICE_SETARM: the arm field of the endpoint's slot in the blob, found  *)
(* by its place in the list.  A failure is reported and nothing else done. *)
SetArm(d, e, a) ==
  /\ At(Main, "idle") /\ used.arms < MaxArms
  /\ LET o == gateway_getdevice(d)
     IN  /\ o # NoObj /\ device_has_endpoint(o, e)
         /\ LET i == ArmSlot(o, e)
            IN  \/ /\ row[d] # NoRow /\ i <= Slots
                   /\ row' = [row EXCEPT ![d].slots[i].arm = a]
                   /\ acked' = [acked EXCEPT ![d][e] = Unset]
                   /\ Call(Main, "set_arm", [dev |-> d, obj |-> o, ep |-> e, arm |-> a,
                                             over |-> InterviewOver(o)])
                   /\ used' = [used EXCEPT !.arms = @ + 1]
                \/ /\ \/ row[d] = NoRow \/ i > Slots
                      \/ used.busy < MaxBusy
                   /\ used' = [used EXCEPT !.arms = @ + 1,
                        !.busy = IF row[d] = NoRow \/ i > Slots THEN @ ELSE @ + 1]
                   /\ UNCHANGED <<row, acked, pc, arg>>
  /\ UNCHANGED <<heap, list, air, stray, dangling>>

(* Then the field in memory, and the feedback to the app.                  *)
SetArmInMemory ==
  /\ At(Main, "set_arm")
  /\ LET a == arg[Main]
     IN  /\ heap' = [heap EXCEPT ![a.obj].eps[device_get_index(a.obj, a.ep)].arm = a.arm]
         /\ acked' = IF a.over THEN [acked EXCEPT ![a.dev][a.ep] = a.arm] ELSE acked
  /\ Return(Main)
  /\ UNCHANGED <<list, row, air, used, stray, dangling>>

-----------------------------------------------------------------------------
(* The process dies, at any point (a use of freed memory may be the cause) *)
(* and is started again: sqlitedb_load_device makes a device of each row   *)
(* and gives it as many endpoints as its list of active endpoints names.   *)

Loaded(d) ==
  [device_create(d) EXCEPT !.status = row[d].status, !.count = row[d].count,
                           !.eps = [i \in 1..row[d].count |-> row[d].slots[i]]]

Crash ==
  /\ used.crashes < MaxCrashes /\ Use("crashes")
  /\ \E s \in SetToSeqs({d \in Devices : row[d] # NoRow}) :
       \E b \in Injection(DOMAIN s, Objs) :
         /\ list' = b
         /\ heap' = [o \in Objs |-> IF o \in ToSet(b)
                                    THEN Loaded(s[CHOOSE i \in DOMAIN s : b[i] = o])
                                    ELSE device_create(NoArg.dev)]
  /\ pc' = [t \in Threads |-> "idle"] /\ arg' = [t \in Threads |-> NoArg]
  /\ UNCHANGED <<row, air, stray, dangling, acked>>

-----------------------------------------------------------------------------
MsgStep(t) ==
  \/ AnnceCreate(t) \/ AnnceInsert(t) \/ AnnceRefresh(t) \/ AnnceAsk(t)
  \/ ActiveEp(t) \/ SimpleDesc(t) \/ Save(t) \/ Activate(t)

MainStep == DelMark \/ DelRow \/ DelFree \/ SetArmInMemory

Next ==
  \/ \E t \in MsgThreads : MsgStep(t) \/ (\E d \in Devices : Annce(t, d))
                                    \/ (\E m \in Responses : Respond(t, m))
  \/ MainStep
  \/ \E d \in Devices : Del(d) \/ \E e \in Eps, a \in Armings : SetArm(d, e, a)
  \/ \E m \in Responses : Lose(m)
  \/ Crash

Spec == Init /\ [][Next]_vars

(* Threads go on, and a thread that is idle takes what is in the queue.    *)
FairSpec ==
  /\ Spec
  /\ WF_vars(MainStep)
  /\ \A t \in MsgThreads : WF_vars(MsgStep(t))
  /\ \A m \in Responses : WF_vars(\E t \in MsgThreads : Respond(t, m))

-----------------------------------------------------------------------------
(* Type correctness.  A thread that uses an object has one: every NULL     *)
(* check of the callbacks is there.                                        *)
TypeOK ==
  /\ heap \in [Objs -> Device] /\ list \in Seq(Objs)
  /\ row \in [Devices -> Row \cup {NoRow}]
  /\ pc \in [Threads -> {"idle", "create", "insert", "refresh", "ask", "active_ep",
                         "simple_desc", "save", "activate", "del_mark", "del_row", "del_free",
                         "set_arm"}]
  /\ arg \in [Threads -> [dev : Devices, obj : Objs \cup {NoObj}, ep : 0..NumEps,
                         arm : Armings, over : BOOLEAN]]
  /\ \A t \in Threads : arg[t].obj = NoObj <=> pc[t] \in {"idle", "create"}
  /\ air \in [Responses -> Nat] /\ used \in [Bounds -> Nat] /\ stray \in BOOLEAN /\ dangling \in BOOLEAN
  /\ acked \in [Devices -> [Eps -> Armings \cup {Unset}]]

(* What a restart would read of a device is nothing, so that the device is *)
(* interviewed again, or all of its endpoints.  A part of them would stay  *)
(* a part for ever: a device with an endpoint is not interviewed again.    *)
(* This is the order in which the callbacks of appinit.c collect, count    *)
(* and save endpoints, across deletions, restarts and statements that      *)
(* fail; it needs each simple descriptor to come once per interview, and   *)
(* no deletion in the middle of a callback.                                *)
StoredWhole ==
  ~stray /\ ~dangling => \A d \in Devices :
    row[d] # NoRow /\ row[d].count > 0 =>
      {row[d].slots[i].ep : i \in 1..row[d].count} = Eps

(* An arming that was confirmed to the app is the one the device's row     *)
(* holds, in a slot that a restart reads, and the one alarms are checked   *)
(* against, until the app sets another or deletes the device (DEVICE_SETARM*)
(* of event.c, sqlitedb_update_device_arm and the saving of an interview). *)
ArmKept ==
  ~stray /\ ~dangling => \A d \in Devices, e \in Eps :
    acked[d][e] # Unset =>
      LET kept == [ep |-> e, arm |-> acked[d][e]]
          o == gateway_getdevice(d)
      IN  /\ row[d] # NoRow /\ \E i \in 1..row[d].count : row[d].slots[i] = kept
          /\ o # NoObj /\ heap[o].eps[device_get_index(o, e)] = kept

(* A device that has announced itself becomes active, however often it     *)
(* does so during its interview, unless a response is lost, the device is  *)
(* deleted or the gateway restarts (the request chain of appinit.c).       *)
Disturbed == used.lost + used.dels + used.crashes > 0
Active(d) == LET o == gateway_getdevice(d) IN o # NoObj /\ "ACTIVE" \in heap[o].status
=============================================================================
