--------------------------- MODULE RegistryProofs ---------------------------
(***************************************************************************)
(* Proofs about Registry, for any finite set of devices, any threads and   *)
(* blocks, any number of endpoints, announcements, deletions, armings,     *)
(* lost responses, failed statements and restarts.                         *)
(***************************************************************************)
EXTENDS Registry, FiniteSetTheorems, SequenceTheorems, WellFoundedInduction, TLAPS

-----------------------------------------------------------------------------
(* Operators *)

LEMMA Least ==
  ASSUME NEW S, S \subseteq Nat, S # {}
  PROVE  \E m \in S : \A k \in S : m <= k
<1>1. PICK m \in S : \A k \in S : ~(<<k, m>> \in OpToRel(<, Nat))
  BY NatLessThanWellFounded, WFMin
<1>2. \A k \in S : m <= k
  <2> TAKE k \in S
  <2>1. k \in Nat /\ m \in Nat /\ <<k, m>> \in Nat \X Nat
    OBVIOUS
  <2>2. ~(k < m)
    BY <1>1, <2>1 DEF OpToRel
  <2> QED
    BY <2>1, <2>2
<1> QED
  BY <1>2

(* One element less: what lies behind it moves up.                         *)
LEMMA RemoveAtIs ==
  ASSUME NEW T, NEW s \in Seq(T), NEW i \in 1..Len(s)
  PROVE  /\ RemoveAt(s, i) \in Seq(T) /\ Len(RemoveAt(s, i)) = Len(s) - 1
         /\ \A j \in 1..Len(s)-1 : RemoveAt(s, i)[j] = IF j < i THEN s[j] ELSE s[j + 1]
<1> DEFINE a == SubSeq(s, 1, i - 1)
           b == SubSeq(s, i + 1, Len(s))
<1>1. PICK n \in Nat : n = Len(s)
  BY LenProperties
<1>2. /\ a \in Seq(T) /\ Len(a) = i - 1
      /\ \A j \in 1..i-1 : a[j] = s[j]
  BY SubSeqProperties
<1>3. /\ b \in Seq(T) /\ Len(b) = n - i
      /\ \A j \in 1..n-i : b[j] = s[i + j]
  BY <1>1, SubSeqProperties
<1>4. RemoveAt(s, i) = a \o b
  BY DEF RemoveAt
<1> HIDE DEF a, b
<1>5. /\ a \o b \in Seq(T) /\ Len(a \o b) = n - 1
      /\ \A j \in 1..n-1 : (a \o b)[j] = IF j < i THEN a[j] ELSE b[j - i + 1]
  <2>1. /\ a \o b \in Seq(T) /\ Len(a \o b) = Len(a) + Len(b)
        /\ \A j \in 1..Len(a)+Len(b) :
             (a \o b)[j] = IF j <= Len(a) THEN a[j] ELSE b[j - Len(a)]
    BY <1>2, <1>3, ConcatProperties
  <2>2. Len(a) + Len(b) = n - 1 /\ i \in 1..n
    BY <1>1, <1>2, <1>3
  <2>3. ASSUME NEW j \in 1..n-1
        PROVE  (a \o b)[j] = IF j < i THEN a[j] ELSE b[j - i + 1]
    <3>1. (a \o b)[j] = IF j <= Len(a) THEN a[j] ELSE b[j - Len(a)]
      BY <2>1, <2>2
    <3>2. (j <= Len(a) <=> j < i) /\ j - Len(a) = j - i + 1
      BY <1>2, <2>2
    <3> QED
      BY <3>1, <3>2
  <2> QED
    BY <2>1, <2>2, <2>3
<1>6. ASSUME NEW j \in 1..n-1
      PROVE  (a \o b)[j] = IF j < i THEN s[j] ELSE s[j + 1]
  <2>1. CASE j < i
    BY <1>1, <1>2, <1>5, <2>1
  <2>2. CASE ~(j < i)
    <3>1. j - i + 1 \in 1..n-i /\ i + (j - i + 1) = j + 1
      BY <1>1, <2>2
    <3> QED
      BY <1>3, <1>5, <2>2, <3>1
  <2> QED
    BY <2>1, <2>2
<1> QED
  BY <1>1, <1>4, <1>5, <1>6

(* gateway_getdevice finds the first entry of the list, or there is none.  *)
Lookup(l, h, d) ==
  LET at == {i \in DOMAIN l : h[l[i]].dev = d}
  IN  IF at = {} THEN NoObj
      ELSE l[CHOOSE i \in at : \A j \in at : i <= j]

FirstIn(l, h, d, o) ==
  \E i \in DOMAIN l : /\ l[i] = o /\ h[o].dev = d
                      /\ \A j \in DOMAIN l : j < i => h[l[j]].dev # d

LEMMA LookupIs ==
  ASSUME NEW l \in Seq(Objs), NEW h, NEW d
  PROVE  \/ Lookup(l, h, d) = NoObj /\ \A i \in DOMAIN l : h[l[i]].dev # d
         \/ FirstIn(l, h, d, Lookup(l, h, d)) /\ Lookup(l, h, d) \in Objs
<1> DEFINE at == {i \in DOMAIN l : h[l[i]].dev = d}
           i == CHOOSE i \in at : \A j \in at : i <= j
<1>1. CASE at = {}
  BY <1>1 DEF Lookup
<1>2. CASE at # {}
  <2>1. at \subseteq Nat /\ at \subseteq DOMAIN l
    OBVIOUS
  <2>2. \E m \in at : \A j \in at : m <= j
    BY <1>2, <2>1, Least
  <2>3. i \in at /\ \A j \in at : i <= j
    BY <2>2
  <2>4. Lookup(l, h, d) = l[i]
    BY <1>2 DEF Lookup
  <2>5. l[i] \in Objs
    BY <2>1, <2>3, ElementOfSeq
  <2>6. \A j \in DOMAIN l : j < i => h[l[j]].dev # d
    BY <2>1, <2>3
  <2> QED
    BY <2>3, <2>4, <2>5, <2>6 DEF FirstIn
<1> QED
  BY <1>1, <1>2

LEMMA LookupFirst ==
  ASSUME NEW l \in Seq(Objs), NEW h, NEW d, NEW o, FirstIn(l, h, d, o)
  PROVE  Lookup(l, h, d) = o /\ o \in Objs
<1>1. PICK i \in DOMAIN l : /\ l[i] = o /\ h[o].dev = d
                            /\ \A j \in DOMAIN l : j < i => h[l[j]].dev # d
  BY DEF FirstIn
<1>2. o \in Objs /\ i \in Nat /\ DOMAIN l \subseteq Nat
  BY <1>1, ElementOfSeq
<1>3. FirstIn(l, h, d, Lookup(l, h, d))
  BY <1>1, LookupIs
<1>4. PICK k \in DOMAIN l :
        /\ l[k] = Lookup(l, h, d) /\ h[Lookup(l, h, d)].dev = d
        /\ \A j \in DOMAIN l : j < k => h[l[j]].dev # d
  BY <1>3 DEF FirstIn
<1>5. i = k
  BY <1>1, <1>2, <1>4
<1> QED
  BY <1>1, <1>2, <1>4, <1>5

LEMMA GetDeviceIs ==
  /\ \A d : gateway_getdevice(d) = Lookup(list, heap, d)
  /\ \A d : gateway_getdevice(d)' = Lookup(list', heap', d)
BY DEF gateway_getdevice, Lookup

(* device_get_index gives the place of the first entry for an endpoint.    *)
IndexIn(eps, e) ==
  CHOOSE i \in DOMAIN eps : eps[i].ep = e /\ \A j \in 1..(i - 1) : eps[j].ep # e

LEMMA IndexIs ==
  ASSUME NEW T, NEW eps \in Seq(T), NEW e, \E i \in DOMAIN eps : eps[i].ep = e
  PROVE  /\ IndexIn(eps, e) \in DOMAIN eps /\ eps[IndexIn(eps, e)].ep = e
         /\ \A j \in DOMAIN eps : eps[j].ep = e => IndexIn(eps, e) <= j
<1> DEFINE at == {i \in DOMAIN eps : eps[i].ep = e}
<1>1. at \subseteq Nat /\ at # {} /\ DOMAIN eps = 1..Len(eps) /\ Len(eps) \in Nat
  OBVIOUS
<1>2. PICK m \in at : \A j \in at : m <= j
  BY <1>1, Least
<1>3. m \in DOMAIN eps /\ eps[m].ep = e /\ \A j \in 1..(m - 1) : eps[j].ep # e
  BY <1>1, <1>2
<1>4. /\ IndexIn(eps, e) \in DOMAIN eps /\ eps[IndexIn(eps, e)].ep = e
      /\ \A j \in 1..(IndexIn(eps, e) - 1) : eps[j].ep # e
  BY <1>3 DEF IndexIn
<1> QED
  BY <1>1, <1>4

(* It depends on the endpoints' numbers only.                              *)
LEMMA IndexSame ==
  ASSUME NEW T, NEW a \in Seq(T), NEW b \in Seq(T), NEW e,
         \E i \in DOMAIN a : a[i].ep = e,
         DOMAIN a = DOMAIN b, \A i \in DOMAIN a : a[i].ep = b[i].ep
  PROVE  IndexIn(a, e) = IndexIn(b, e)
<1>1. /\ IndexIn(a, e) \in DOMAIN a /\ a[IndexIn(a, e)].ep = e
      /\ \A j \in DOMAIN a : a[j].ep = e => IndexIn(a, e) <= j
  BY IndexIs
<1>2. /\ IndexIn(b, e) \in DOMAIN b /\ b[IndexIn(b, e)].ep = e
      /\ \A j \in DOMAIN b : b[j].ep = e => IndexIn(b, e) <= j
  <2>1. \E i \in DOMAIN b : b[i].ep = e
    OBVIOUS
  <2> QED
    BY <2>1, IndexIs
<1>3. IndexIn(a, e) <= IndexIn(b, e) /\ IndexIn(b, e) <= IndexIn(a, e)
  BY <1>1, <1>2
<1>4. DOMAIN a \subseteq Int
  OBVIOUS
<1> QED
  BY <1>1, <1>2, <1>3, <1>4

LEMMA GetIndexIs ==
  /\ \A o, e : device_get_index(o, e) = IndexIn(heap[o].eps, e)
  /\ \A o, e : device_get_index(o, e)' = IndexIn(heap'[o].eps, e)
BY DEF device_get_index, IndexIn

-----------------------------------------------------------------------------
(* Types *)

Steps == {"idle", "create", "insert", "refresh", "ask", "active_ep", "simple_desc",
          "save", "activate", "del_mark", "del_row", "del_free", "set_arm"}
Args == [dev : Devices, obj : Objs \cup {NoObj}, ep : 0..NumEps, arm : Armings,
         over : BOOLEAN]
Fits(step, a) == a.obj = NoObj <=> step \in {"idle", "create"}

ThreadTypes ==
  /\ pc \in [Threads -> Steps] /\ arg \in [Threads -> Args]
  /\ \A t \in Threads : Fits(pc[t], arg[t])
DataTypes ==
  /\ heap \in [Objs -> Device] /\ list \in Seq(Objs)
  /\ row \in [Devices -> Row \cup {NoRow}]
  /\ air \in [Responses -> Nat] /\ used \in [Bounds -> Nat]
  /\ stray \in BOOLEAN /\ dangling \in BOOLEAN
  /\ acked \in [Devices -> [Eps -> Armings \cup {Unset}]]

LEMMA TypeParts == (TypeOK <=> ThreadTypes /\ DataTypes)
BY DEF TypeOK, ThreadTypes, DataTypes, Steps, Args, Fits

LEMMA TypePartsNext == (TypeOK' <=> ThreadTypes' /\ DataTypes')
BY DEF TypeOK, ThreadTypes, DataTypes, Steps, Args, Fits

LEMMA CallTypes ==
  ASSUME ThreadTypes, NEW t \in Threads, NEW step \in Steps, NEW a \in Args,
         Fits(step, a), Call(t, step, a)
  PROVE  ThreadTypes'
BY DEF ThreadTypes, Call, Goto

LEMMA GotoTypes ==
  ASSUME ThreadTypes, NEW t \in Threads, NEW step \in Steps \ {"idle", "create"},
         pc[t] \notin {"idle", "create"}, Goto(t, step), UNCHANGED arg
  PROVE  ThreadTypes'
BY DEF ThreadTypes, Goto, Fits

LEMMA NoArgType == NoArg \in Args /\ NoArg.dev \in Devices /\ NoArg.obj = NoObj
BY RegistryAssumption DEF NoArg, Args

LEMMA ReturnTypes ==
  ASSUME ThreadTypes, NEW t \in Threads, Return(t)
  PROVE  ThreadTypes'
<1>1. Call(t, "idle", NoArg) /\ "idle" \in Steps /\ Fits("idle", NoArg)
  BY NoArgType DEF Return, Steps, Fits
<1> QED
  BY <1>1, NoArgType, CallTypes

LEMMA FoundTypes ==
  ASSUME NEW d \in Devices, NEW o \in Objs \cup {NoObj}, NEW e \in 0..NumEps
  PROVE  /\ [NoArg EXCEPT !.dev = d, !.obj = o] \in Args
         /\ [NoArg EXCEPT !.dev = d, !.obj = o].obj = o
         /\ [NoArg EXCEPT !.dev = d, !.obj = o, !.ep = e] \in Args
         /\ [NoArg EXCEPT !.dev = d, !.obj = o, !.ep = e].obj = o
<1>1. NoArg \in Args
  BY NoArgType
<1> QED
  BY <1>1 DEF Args

LEMMA GetDeviceTypes ==
  ASSUME DataTypes, NEW d
  PROVE  gateway_getdevice(d) \in Objs \cup {NoObj}
BY LookupIs, GetDeviceIs DEF DataTypes

(* A row stays one, and a device a device.                                 *)
LEMMA UpdateTypes ==
  ASSUME DataTypes, NEW d \in Devices, NEW r, Update(d, r),
         row[d] # NoRow => r \in Row \cup {NoRow}
  PROVE  row' \in [Devices -> Row \cup {NoRow}] /\ used' \in [Bounds -> Nat]
BY DEF DataTypes, Update, Use, Bounds

LEMMA StatusTypes ==
  ASSUME DataTypes, NEW d \in Devices, NEW s \in SUBSET Bits, UpdateStatus(d, s)
  PROVE  row' \in [Devices -> Row \cup {NoRow}] /\ used' \in [Bounds -> Nat]
<1>1. row[d] # NoRow => [row[d] EXCEPT !.status = s] \in Row
  BY DEF DataTypes, Row
<1> QED
  BY <1>1, UpdateTypes DEF UpdateStatus

LEMMA DeviceCreateType == \A d \in Devices : device_create(d) \in Device
BY DEF device_create, Device, Bits

LEMMA SendTypes ==
  ASSUME DataTypes, NEW m \in Responses, Send(m)
  PROVE  air' \in [Responses -> Nat]
BY DEF DataTypes, Send

LEMMA UseTypes ==
  ASSUME DataTypes, NEW b \in Bounds, Use(b)
  PROVE  used' \in [Bounds -> Nat]
BY DEF DataTypes, Use

LEMMA MsgIsThread == Main \in Threads /\ \A t \in MsgThreads : t \in Threads /\ t # Main
BY RegistryAssumption DEF Threads

(* What a callback finds in its argument.                                  *)
LEMMA HeldTypes ==
  ASSUME TypeOK, NEW t \in Threads, pc[t] \notin {"idle", "create"}
  PROVE  /\ arg[t] \in Args /\ arg[t].obj \in Objs /\ arg[t].dev \in Devices
         /\ arg[t].ep \in 0..NumEps /\ arg[t].arm \in Armings
         /\ heap[arg[t].obj] \in Device /\ heap[arg[t].obj].dev \in Devices
         /\ heap[arg[t].obj].eps \in Seq(Endpoint)
BY DEF TypeOK, Args, Device

LEMMA TypeAnnce ==
  ASSUME TypeOK, NEW t \in MsgThreads, NEW d \in Devices, Annce(t, d)
  PROVE  TypeOK'
<1> USE MsgIsThread
<1> DEFINE o == gateway_getdevice(d)
           step == IF o = NoObj THEN "create" ELSE "refresh"
           a == [NoArg EXCEPT !.dev = d, !.obj = o]
<1>1. ThreadTypes /\ DataTypes
  BY TypeParts
<1>2. o \in Objs \cup {NoObj}
  BY <1>1, GetDeviceTypes
<1>3. a \in Args /\ a.obj = o
  BY <1>2, NoArgType DEF Args
<1>4. Call(t, step, a)
  BY DEF Annce
<1>5. step \in Steps /\ Fits(step, a)
  BY <1>3 DEF Steps, Fits
<1> HIDE DEF o, step, a
<1>6. ThreadTypes'
  BY <1>1, <1>3, <1>4, <1>5, CallTypes
<1>7. DataTypes'
  BY <1>1, UseTypes DEF Annce, DataTypes, Bounds
<1> QED
  BY <1>6, <1>7, TypePartsNext

LEMMA TypeAnnceCreate ==
  ASSUME TypeOK, NEW t \in MsgThreads, AnnceCreate(t)
  PROVE  TypeOK'
<1> USE MsgIsThread
<1>1. ThreadTypes /\ DataTypes
  BY TypeParts
<1>2. PICK o \in Objs \ ToSet(list) :
        /\ heap' = [heap EXCEPT ![o] = device_create(arg[t].dev)]
        /\ list' = Append(list, o)
        /\ Call(t, "insert", [arg[t] EXCEPT !.obj = o])
  BY DEF AnnceCreate
<1>3. arg[t].dev \in Devices /\ [arg[t] EXCEPT !.obj = o] \in Args
      /\ [arg[t] EXCEPT !.obj = o].obj = o
  BY <1>1 DEF ThreadTypes, Args
<1>4. ThreadTypes'
  <2>1. "insert" \in Steps /\ Fits("insert", [arg[t] EXCEPT !.obj = o])
    BY <1>3, RegistryAssumption DEF Steps, Fits
  <2> QED
    BY <1>1, <1>2, <1>3, <2>1, CallTypes
<1>5. heap' \in [Objs -> Device] /\ list' \in Seq(Objs)
  BY <1>1, <1>2, <1>3, DeviceCreateType DEF DataTypes
<1>6. DataTypes'
  BY <1>1, <1>5 DEF AnnceCreate, DataTypes
<1> QED
  BY <1>4, <1>6, TypePartsNext

LEMMA TypeAnnceInsert ==
  ASSUME TypeOK, NEW t \in MsgThreads, AnnceInsert(t)
  PROVE  TypeOK'
<1> USE MsgIsThread
<1>1. ThreadTypes /\ DataTypes
  BY TypeParts
<1>2. ThreadTypes'
  BY <1>1, GotoTypes DEF AnnceInsert, At, Steps
<1> DEFINE new == [status |-> {}, count |-> 0, slots |-> [i \in 1..Slots |-> Blank]]
<1>3. new \in Row
  BY RegistryAssumption DEF Row, Blank, Endpoint, Bits
<1> HIDE DEF new
<1>4. row' \in [Devices -> Row \cup {NoRow}] /\ used' \in [Bounds -> Nat]
  <2>1. \/ row' = row /\ UNCHANGED used
        \/ row' = [row EXCEPT ![arg[t].dev] = new] /\ UNCHANGED used
        \/ Use("busy") /\ UNCHANGED row
    BY DEF AnnceInsert, new
  <2> QED
    BY <1>1, <1>3, <2>1 DEF DataTypes, Use, Bounds
<1>5. DataTypes'
  BY <1>1, <1>4 DEF AnnceInsert, DataTypes
<1> QED
  BY <1>2, <1>5, TypePartsNext

LEMMA TypeAnnceRefresh ==
  ASSUME TypeOK, NEW t \in MsgThreads, AnnceRefresh(t)
  PROVE  TypeOK'
<1> USE MsgIsThread
<1>1. ThreadTypes /\ DataTypes /\ pc[t] = "refresh"
  BY TypeParts DEF AnnceRefresh, At
<1>2. ThreadTypes'
  BY <1>1, GotoTypes DEF AnnceRefresh, Steps
<1>3. heap[arg[t].obj] \in Device
  BY <1>1, HeldTypes
<1>4. row' \in [Devices -> Row \cup {NoRow}] /\ used' \in [Bounds -> Nat]
  BY <1>1, <1>3, StatusTypes DEF AnnceRefresh, Device
<1>5. DataTypes'
  BY <1>1, <1>4 DEF AnnceRefresh, DataTypes
<1> QED
  BY <1>2, <1>5, TypePartsNext

LEMMA TypeAnnceAsk ==
  ASSUME TypeOK, NEW t \in MsgThreads, AnnceAsk(t)
  PROVE  TypeOK'
<1> USE MsgIsThread
<1>1. ThreadTypes /\ DataTypes /\ pc[t] = "ask"
  BY TypeParts DEF AnnceAsk, At
<1>2. ThreadTypes'
  BY <1>1, ReturnTypes DEF AnnceAsk
<1> DEFINE o == arg[t].obj
           status == (heap[o].status \cup {"SEND_ACTIVEEP"}) \ {"SEND_SIMPLEDESC"}
<1>3. heap[o] \in Device /\ o \in Objs /\ arg[t].dev \in Devices
  BY <1>1, HeldTypes
<1>4. status \in SUBSET Bits /\ heap[o].dev \in Devices
  BY <1>3 DEF Device, Bits
<1>5. [heap[o] EXCEPT !.status = status] \in Device
  BY <1>3, <1>4 DEF Device
<1>6. ActiveEpRsp(arg[t].dev) \in Responses
  BY <1>3 DEF Responses, ActiveEpRsp
<1>7. \/ UNCHANGED <<heap, row, used, air>>
      \/ /\ heap' = [heap EXCEPT ![o] = [heap[o] EXCEPT !.status = status]]
         /\ UpdateStatus(heap[o].dev, status) /\ Send(ActiveEpRsp(arg[t].dev))
  BY DEF AnnceAsk
<1>8. UNCHANGED <<list, stray, dangling, acked>>
  BY DEF AnnceAsk
<1> HIDE DEF o, status
<1>9. DataTypes'
  <2>1. CASE UNCHANGED <<heap, row, used, air>>
    BY <1>1, <1>8, <2>1 DEF DataTypes
  <2>2. CASE /\ heap' = [heap EXCEPT ![o] = [heap[o] EXCEPT !.status = status]]
             /\ UpdateStatus(heap[o].dev, status) /\ Send(ActiveEpRsp(arg[t].dev))
    <3>1. row' \in [Devices -> Row \cup {NoRow}] /\ used' \in [Bounds -> Nat]
      BY <1>1, <1>4, <2>2, StatusTypes
    <3>2. air' \in [Responses -> Nat]
      BY <1>1, <1>6, <2>2, SendTypes
    <3>3. heap' \in [Objs -> Device]
      BY <1>1, <1>3, <1>5, <2>2 DEF DataTypes
    <3> QED
      BY <1>1, <1>8, <3>1, <3>2, <3>3 DEF DataTypes
  <2> QED
    BY <1>7, <2>1, <2>2
<1> QED
  BY <1>2, <1>9, TypePartsNext

LEMMA TypeLose ==
  ASSUME TypeOK, NEW m \in Responses, Lose(m)
  PROVE  TypeOK'
<1>1. ThreadTypes /\ DataTypes
  BY TypeParts
<1>2. used' \in [Bounds -> Nat]
  BY <1>1, UseTypes DEF Lose, Bounds
<1>3. air' \in [Responses -> Nat]
  BY <1>1 DEF Lose, DataTypes
<1>4. ThreadTypes' /\ DataTypes'
  BY <1>1, <1>2, <1>3 DEF Lose, DataTypes, ThreadTypes
<1> QED
  BY <1>4, TypePartsNext

LEMMA TypeRespond ==
  ASSUME TypeOK, NEW t \in MsgThreads, NEW m \in Responses, Respond(t, m)
  PROVE  TypeOK'
<1> USE MsgIsThread
<1> DEFINE o == gateway_getdevice(m.dev)
           found == [NoArg EXCEPT !.dev = m.dev, !.obj = o, !.ep = m.ep]
<1>1. ThreadTypes /\ DataTypes
  BY TypeParts
<1>2. m.dev \in Devices /\ m.ep \in 0..NumEps
  BY RegistryAssumption DEF Responses, Eps
<1>3. o \in Objs \cup {NoObj}
  BY <1>1, GetDeviceTypes
<1>4. found \in Args /\ found.obj = o
  BY <1>2, <1>3, FoundTypes
<1>5. \/ UNCHANGED <<pc, arg>>
      \/ o # NoObj /\ \E step \in {"active_ep", "simple_desc"} : Call(t, step, found)
  <2>1. m.type \in {"ACTIVE_EP", "SIMPLE_DESC"}
    BY DEF Responses
  <2> QED
    BY <2>1 DEF Respond
<1> HIDE DEF o, found
<1>6. ThreadTypes'
  <2>1. CASE UNCHANGED <<pc, arg>>
    BY <1>1, <2>1 DEF ThreadTypes
  <2>2. ASSUME o # NoObj, NEW step \in {"active_ep", "simple_desc"}, Call(t, step, found)
        PROVE  ThreadTypes'
    <3>1. step \in Steps /\ Fits(step, found)
      BY <1>4, <2>2 DEF Steps, Fits
    <3> QED
      BY <1>1, <1>4, <2>2, <3>1, CallTypes
  <2> QED
    BY <1>5, <2>1, <2>2
<1>7. DataTypes'
  <2>1. air' \in [Responses -> Nat]
    BY <1>1 DEF Respond, DataTypes
  <2> QED
    BY <1>1, <2>1 DEF Respond, DataTypes
<1> QED
  BY <1>6, <1>7, TypePartsNext

LEMMA TypeActiveEp ==
  ASSUME TypeOK, NEW t \in MsgThreads, ActiveEp(t)
  PROVE  TypeOK'
<1> USE MsgIsThread
<1> DEFINE o == arg[t].obj
           status == heap[o].status \cup {"SEND_SIMPLEDESC"}
<1>1. ThreadTypes /\ DataTypes /\ pc[t] = "active_ep"
  BY TypeParts DEF ActiveEp, At
<1>2. ThreadTypes'
  BY <1>1, ReturnTypes DEF ActiveEp
<1>3. heap[o] \in Device /\ o \in Objs /\ arg[t].dev \in Devices
  BY <1>1, HeldTypes
<1>4. status \in SUBSET Bits /\ heap[o].dev \in Devices
  BY <1>3 DEF Device, Bits
<1>5. [heap[o] EXCEPT !.status = status, !.count = NumEps] \in Device
  BY <1>3, <1>4 DEF Device
<1>6. heap' = [heap EXCEPT ![o] = [heap[o] EXCEPT !.status = status, !.count = NumEps]]
  BY <1>1, <1>3 DEF ActiveEp, DataTypes
<1>7. SimpleDescRsp(arg[t].dev, 1) \in Responses
  BY <1>3, RegistryAssumption DEF Responses, SimpleDescRsp, Eps
<1>8. /\ UpdateStatus(heap[o].dev, status) /\ Send(SimpleDescRsp(arg[t].dev, 1))
      /\ UNCHANGED <<list, stray, dangling, acked>>
  BY DEF ActiveEp
<1> HIDE DEF o, status
<1>9. DataTypes'
  <2>1. row' \in [Devices -> Row \cup {NoRow}] /\ used' \in [Bounds -> Nat]
    BY <1>1, <1>4, <1>8, StatusTypes
  <2>2. air' \in [Responses -> Nat]
    BY <1>1, <1>7, <1>8, SendTypes
  <2>3. heap' \in [Objs -> Device]
    BY <1>1, <1>3, <1>5, <1>6 DEF DataTypes
  <2> QED
    BY <1>1, <1>8, <2>1, <2>2, <2>3 DEF DataTypes
<1> QED
  BY <1>2, <1>9, TypePartsNext

(* The part of SimpleDesc that the list of active endpoints decides.       *)
Cursor(t) == heap[arg[t].obj].cursor
             + IF device_has_endpoint(arg[t].obj, arg[t].ep) THEN 0 ELSE 1
Gathered(t) ==
  IF Cursor(t) <= heap[arg[t].obj].count
    THEN Append(heap[arg[t].obj].eps, [ep |-> arg[t].ep, arm |-> Zeroed])
    ELSE heap[arg[t].obj].eps

LEMMA SimpleDescIs ==
  ASSUME TypeOK, NEW t \in MsgThreads, SimpleDesc(t)
  PROVE  /\ pc[t] = "simple_desc"
         /\ heap' = [heap EXCEPT ![arg[t].obj] =
                      [heap[arg[t].obj] EXCEPT !.cursor = Cursor(t), !.eps = Gathered(t)]]
         /\ \/ /\ Cursor(t) < heap[arg[t].obj].count
               /\ Send(SimpleDescRsp(arg[t].dev, Cursor(t) + 1)) /\ Return(t)
            \/ /\ Cursor(t) = heap[arg[t].obj].count
               /\ Goto(t, "save") /\ UNCHANGED <<arg, air>>
            \/ /\ Cursor(t) > heap[arg[t].obj].count
               /\ Return(t) /\ UNCHANGED air
         /\ stray' = (stray \/ device_has_endpoint(arg[t].obj, arg[t].ep)
                            \/ Cursor(t) > heap[arg[t].obj].count)
         /\ UNCHANGED <<list, row, used, dangling, acked>>
         /\ Cursor(t) \in Nat /\ Gathered(t) \in Seq(Endpoint)
<1> USE MsgIsThread
<1>1. pc[t] = "simple_desc"
  BY DEF SimpleDesc, At
<1>2. /\ arg[t].obj \in Objs /\ heap[arg[t].obj] \in Device /\ arg[t].ep \in 0..NumEps
  BY <1>1, HeldTypes
<1>3. heap \in [Objs -> Device]
  BY DEF TypeOK
<1>4. heap' = [heap EXCEPT ![arg[t].obj] =
                [heap[arg[t].obj] EXCEPT !.cursor = Cursor(t), !.eps = Gathered(t)]]
  BY <1>2, <1>3 DEF SimpleDesc, Cursor, Gathered
<1>5. Cursor(t) \in Nat /\ Gathered(t) \in Seq(Endpoint)
  <2>1. heap[arg[t].obj].cursor \in Nat /\ heap[arg[t].obj].eps \in Seq(Endpoint)
    BY <1>2 DEF Device
  <2>2. [ep |-> arg[t].ep, arm |-> Zeroed] \in Endpoint
    BY <1>2, RegistryAssumption DEF Endpoint
  <2>3. Append(heap[arg[t].obj].eps, [ep |-> arg[t].ep, arm |-> Zeroed]) \in Seq(Endpoint)
    BY <2>1, <2>2, AppendProperties
  <2> QED
    BY <2>1, <2>3 DEF Cursor, Gathered
<1> QED
  BY <1>1, <1>4, <1>5 DEF SimpleDesc, NextEndpoint, AtEnd, Cursor

LEMMA TypeSimpleDesc ==
  ASSUME TypeOK, NEW t \in MsgThreads, SimpleDesc(t)
  PROVE  TypeOK'
<1> USE MsgIsThread
<1> DEFINE o == arg[t].obj
           device == [heap[o] EXCEPT !.cursor = Cursor(t), !.eps = Gathered(t)]
<1>1. ThreadTypes /\ DataTypes /\ pc[t] = "simple_desc"
  BY TypeParts, SimpleDescIs
<1>2. heap[o] \in Device /\ o \in Objs /\ arg[t].dev \in Devices
  BY <1>1, HeldTypes
<1>3. Cursor(t) \in Nat /\ device \in Device
  BY <1>2, SimpleDescIs DEF Device
<1>4. ThreadTypes'
  BY <1>1, ReturnTypes, GotoTypes, SimpleDescIs DEF Steps
<1>5. air' \in [Responses -> Nat]
  <2>1. CASE UNCHANGED air
    BY <1>1, <2>1 DEF DataTypes
  <2>2. CASE Cursor(t) < heap[o].count /\ Send(SimpleDescRsp(arg[t].dev, Cursor(t) + 1))
    <3>1. Cursor(t) + 1 \in Eps
      <4>1. heap[o].count \in {0, NumEps}
        BY <1>2 DEF Device
      <4> HIDE DEF o
      <4> QED
        BY <1>3, <2>2, <4>1, RegistryAssumption DEF Eps
    <3>2. SimpleDescRsp(arg[t].dev, Cursor(t) + 1) \in Responses
      BY <1>2, <3>1 DEF Responses, SimpleDescRsp
    <3> QED
      BY <1>1, <2>2, <3>2, SendTypes
  <2> QED
    BY <2>1, <2>2, SimpleDescIs
<1>6. heap' \in [Objs -> Device]
  <2>1. heap' = [heap EXCEPT ![o] = device]
    BY SimpleDescIs
  <2> HIDE DEF o, device
  <2> QED
    BY <1>1, <1>2, <1>3, <2>1 DEF DataTypes
<1>7. DataTypes'
  <2>1. stray' \in BOOLEAN /\ UNCHANGED <<list, row, used, dangling, acked>>
    BY <1>1, SimpleDescIs DEF DataTypes
  <2> QED
    BY <1>1, <1>5, <1>6, <2>1 DEF DataTypes
<1> QED
  BY <1>4, <1>7, TypePartsNext

LEMMA TypeSave ==
  ASSUME TypeOK, NEW t \in MsgThreads, Save(t)
  PROVE  TypeOK'
<1> USE MsgIsThread
<1> DEFINE o == arg[t].obj
           d == heap[o].dev
           eps == heap[o].eps
           slots == [i \in 1..Slots |-> IF i <= Len(eps) THEN eps[i] ELSE row[d].slots[i]]
           saved == [row[d] EXCEPT !.count = heap[o].count, !.slots = slots]
<1>1. ThreadTypes /\ DataTypes /\ pc[t] = "save"
  BY TypeParts DEF Save, At
<1>2. ThreadTypes'
  BY <1>1, GotoTypes DEF Save, Steps
<1>3. /\ d \in Devices /\ eps \in Seq(Endpoint) /\ heap[o].count \in {0, NumEps}
  BY <1>1, HeldTypes DEF Device
<1>4. Update(d, saved)
  BY DEF Save
<1>5. row[d] # NoRow => saved \in Row
  <2> SUFFICES ASSUME row[d] # NoRow PROVE saved \in Row
    OBVIOUS
  <2>1. row[d] \in Row
    BY <1>1, <1>3 DEF DataTypes
  <2>2. ASSUME NEW i \in 1..Slots PROVE slots[i] \in Endpoint
    <3>1. CASE i <= Len(eps)
      <4>1. i \in 1..Len(eps)
        BY <1>3, <3>1
      <4> QED
        BY <1>3, <3>1, <4>1, ElementOfSeq
    <3>2. CASE ~(i <= Len(eps))
      BY <2>1, <3>2 DEF Row
    <3> QED
      BY <3>1, <3>2
  <2>3. slots \in [1..Slots -> Endpoint]
    BY <2>2
  <2> HIDE DEF slots
  <2> QED
    BY <1>3, <2>1, <2>3 DEF Row
<1> HIDE DEF d, saved
<1>6. row' \in [Devices -> Row \cup {NoRow}] /\ used' \in [Bounds -> Nat]
  BY <1>1, <1>3, <1>4, <1>5, UpdateTypes
<1>7. DataTypes'
  BY <1>1, <1>6 DEF Save, DataTypes
<1> QED
  BY <1>2, <1>7, TypePartsNext

LEMMA TypeActivate ==
  ASSUME TypeOK, NEW t \in MsgThreads, Activate(t)
  PROVE  TypeOK'
<1> USE MsgIsThread
<1> DEFINE o == arg[t].obj
           status == heap[o].status \cup {"ACTIVE"}
<1>1. ThreadTypes /\ DataTypes /\ pc[t] = "activate"
  BY TypeParts DEF Activate, At
<1>2. ThreadTypes'
  BY <1>1, ReturnTypes DEF Activate
<1>3. heap[o] \in Device /\ o \in Objs
  BY <1>1, HeldTypes
<1>4. status \in SUBSET Bits /\ heap[o].dev \in Devices
  BY <1>3 DEF Device, Bits
<1>5. [heap[o] EXCEPT !.status = status] \in Device
  BY <1>3, <1>4 DEF Device
<1>6. /\ heap' = [heap EXCEPT ![o] = [heap[o] EXCEPT !.status = status]]
      /\ UpdateStatus(heap[o].dev, status)
      /\ UNCHANGED <<list, air, stray, dangling, acked>>
  BY DEF Activate
<1> HIDE DEF o, status
<1>7. DataTypes'
  <2>1. row' \in [Devices -> Row \cup {NoRow}] /\ used' \in [Bounds -> Nat]
    BY <1>1, <1>4, <1>6, StatusTypes
  <2>2. heap' \in [Objs -> Device]
    BY <1>1, <1>3, <1>5, <1>6 DEF DataTypes
  <2> QED
    BY <1>1, <1>6, <2>1, <2>2 DEF DataTypes
<1> QED
  BY <1>2, <1>7, TypePartsNext

LEMMA TypeDel ==
  ASSUME TypeOK, NEW d \in Devices, Del(d)
  PROVE  TypeOK'
<1> USE MsgIsThread
<1> DEFINE o == gateway_getdevice(d)
           a == [NoArg EXCEPT !.dev = d, !.obj = o]
<1>1. ThreadTypes /\ DataTypes
  BY TypeParts
<1>2. o \in Objs
  BY <1>1, GetDeviceTypes DEF Del
<1>3. a \in Args /\ a.obj = o
  BY <1>2, NoArgType DEF Args
<1>4. Call(Main, "del_mark", a)
  BY DEF Del
<1> HIDE DEF o, a
<1>5. "del_mark" \in Steps /\ Fits("del_mark", a)
  BY <1>2, <1>3, RegistryAssumption DEF Steps, Fits
<1>6. ThreadTypes'
  BY <1>1, <1>3, <1>4, <1>5, CallTypes
<1>7. used' \in [Bounds -> Nat]
  BY <1>1, UseTypes DEF Del, Bounds
<1>8. DataTypes'
  BY <1>1, <1>7 DEF Del, DataTypes
<1> QED
  BY <1>6, <1>8, TypePartsNext

LEMMA TypeDelMark ==
  ASSUME TypeOK, DelMark
  PROVE  TypeOK'
<1> USE MsgIsThread
<1>1. ThreadTypes /\ DataTypes /\ pc[Main] = "del_mark"
  BY TypeParts DEF DelMark, At
<1>2. ThreadTypes'
  BY <1>1, GotoTypes DEF DelMark, Steps
<1>3. arg[Main].obj \in Objs
  BY <1>1, HeldTypes
<1>4. heap[arg[Main].obj] \in Device
  BY <1>1, <1>3 DEF DataTypes
<1>5. heap[arg[Main].obj].dev \in Devices /\ heap[arg[Main].obj].status \in SUBSET Bits
  BY <1>4 DEF Device
<1>6. row' \in [Devices -> Row \cup {NoRow}] /\ used' \in [Bounds -> Nat]
  BY <1>1, <1>5, StatusTypes DEF DelMark
<1>7. DataTypes'
  BY <1>1, <1>6 DEF DelMark, DataTypes
<1> QED
  BY <1>2, <1>7, TypePartsNext

LEMMA TypeDelRow ==
  ASSUME TypeOK, DelRow
  PROVE  TypeOK'
<1> USE MsgIsThread
<1>1. ThreadTypes /\ DataTypes /\ pc[Main] = "del_row"
  BY TypeParts DEF DelRow, At
<1>2. ThreadTypes'
  BY <1>1, GotoTypes DEF DelRow, Steps
<1>3. arg[Main].dev \in Devices
  BY <1>1, HeldTypes
<1>4. row' \in [Devices -> Row \cup {NoRow}] /\ used' \in [Bounds -> Nat]
  BY <1>1, <1>3, UpdateTypes DEF DelRow
<1>5. DataTypes'
  BY <1>1, <1>4 DEF DelRow, DataTypes
<1> QED
  BY <1>2, <1>5, TypePartsNext

LEMMA TypeDelFree ==
  ASSUME TypeOK, DelFree
  PROVE  TypeOK'
<1> USE MsgIsThread
<1>1. ThreadTypes /\ DataTypes
  BY TypeParts
<1>2. ThreadTypes'
  BY <1>1, ReturnTypes DEF DelFree
<1>3. list' \in Seq(Objs)
  <2>1. PICK i \in DOMAIN list : list' = RemoveAt(list, i)
    BY DEF DelFree
  <2>2. list \in Seq(Objs) /\ i \in 1..Len(list)
    BY <1>1 DEF DataTypes
  <2> QED
    BY <2>1, <2>2, RemoveAtIs
<1>4. DataTypes'
  BY <1>1, <1>3 DEF DelFree, DataTypes
<1> QED
  BY <1>2, <1>4, TypePartsNext

(* The slot that is armed exists.                                          *)
ArmRow(d, i, a) ==
  [row[d] EXCEPT !.slots = [row[d].slots EXCEPT ![i] = [row[d].slots[i] EXCEPT !.arm = a]]]

LEMMA HasIndex ==
  ASSUME DataTypes, NEW o \in Objs, NEW e, device_has_endpoint(o, e)
  PROVE  /\ device_get_index(o, e) \in DOMAIN heap[o].eps
         /\ heap[o].eps[device_get_index(o, e)].ep = e
         /\ device_get_index(o, e) \in Nat \ {0}
<1>1. heap[o].eps \in Seq(Endpoint) /\ \E i \in DOMAIN heap[o].eps : heap[o].eps[i].ep = e
  BY DEF DataTypes, Device, device_has_endpoint
<1>2. /\ IndexIn(heap[o].eps, e) \in DOMAIN heap[o].eps
      /\ heap[o].eps[IndexIn(heap[o].eps, e)].ep = e
  BY <1>1, IndexIs
<1>3. DOMAIN heap[o].eps \subseteq Nat \ {0}
  BY <1>1
<1> QED
  BY <1>2, <1>3, GetIndexIs

LEMMA SetArmIs ==
  ASSUME DataTypes, NEW d \in Devices, NEW e \in Eps, NEW a \in Armings, SetArm(d, e, a)
  PROVE  LET o == gateway_getdevice(d)
             i == device_get_index(o, e)
         IN  /\ pc[Main] = "idle" /\ o \in Objs /\ device_has_endpoint(o, e)
             /\ UNCHANGED <<heap, list, air, stray, dangling>>
             /\ used' \in [Bounds -> Nat]
             /\ \/ /\ row[d] # NoRow /\ i \in 1..Slots
                   /\ row' = [row EXCEPT ![d] = ArmRow(d, i, a)]
                   /\ acked' = [acked EXCEPT ![d] = [acked[d] EXCEPT ![e] = Unset]]
                   /\ Call(Main, "set_arm", [dev |-> d, obj |-> o, ep |-> e, arm |-> a,
                                             over |-> InterviewOver(o)])
                \/ UNCHANGED <<row, acked, pc, arg>>
<1> DEFINE o == gateway_getdevice(d)
           i == device_get_index(o, e)
<1>1. /\ pc[Main] = "idle" /\ o \in Objs /\ device_has_endpoint(o, e)
      /\ UNCHANGED <<heap, list, air, stray, dangling>>
  BY GetDeviceTypes DEF SetArm, At
<1>2. i \in Nat \ {0}
  BY <1>1, HasIndex
<1>3. \/ /\ row[d] # NoRow /\ i <= Slots
         /\ row' = [row EXCEPT ![d].slots[i].arm = a]
         /\ acked' = [acked EXCEPT ![d][e] = Unset]
         /\ Call(Main, "set_arm", [dev |-> d, obj |-> o, ep |-> e, arm |-> a,
                                   over |-> InterviewOver(o)])
      \/ UNCHANGED <<row, acked, pc, arg>>
  BY DEF SetArm, ArmSlot
<1>4. used' \in [Bounds -> Nat]
  <2> DEFINE m == used["arms"] + 1
             n == used["busy"]
             f == [used EXCEPT !["arms"] = m]
  <2>1. "arms" \in Bounds /\ "busy" \in Bounds /\ used \in [Bounds -> Nat]
    BY DEF DataTypes, Bounds
  <2>2. m \in Nat /\ n \in Nat /\ n + 1 \in Nat
    BY <2>1
  <2>3. f \in [Bounds -> Nat] /\ \A k \in Nat : [f EXCEPT !["busy"] = k] \in [Bounds -> Nat]
    BY <2>1, <2>2
  <2>4. \/ used' = f
        \/ used' = [f EXCEPT !["busy"] = n] \/ used' = [f EXCEPT !["busy"] = n + 1]
    BY <2>1 DEF SetArm
  <2> HIDE DEF n, f
  <2> QED
    BY <2>2, <2>3, <2>4 DEF n
<1> HIDE DEF o, i
<1>5. row[d] # NoRow /\ i <= Slots => i \in 1..Slots
  BY <1>2, RegistryAssumption
<1>6. \/ /\ row[d] # NoRow /\ i \in 1..Slots
         /\ row' = [row EXCEPT ![d] = ArmRow(d, i, a)]
         /\ acked' = [acked EXCEPT ![d] = [acked[d] EXCEPT ![e] = Unset]]
         /\ Call(Main, "set_arm", [dev |-> d, obj |-> o, ep |-> e, arm |-> a,
                                   over |-> InterviewOver(o)])
      \/ UNCHANGED <<row, acked, pc, arg>>
  BY <1>3, <1>5 DEF ArmRow
<1> QED
  BY <1>1, <1>4, <1>6 DEF o, i

LEMMA ArmRowType ==
  ASSUME DataTypes, NEW d \in Devices, NEW i \in 1..Slots, NEW a \in Armings, row[d] # NoRow
  PROVE  /\ ArmRow(d, i, a) \in Row
         /\ ArmRow(d, i, a).count = row[d].count
         /\ \A j \in 1..Slots : /\ ArmRow(d, i, a).slots[j].ep = row[d].slots[j].ep
                                /\ ArmRow(d, i, a).slots[j].arm =
                                     IF j = i THEN a ELSE row[d].slots[j].arm
<1>1. row[d] \in Row
  BY DEF DataTypes
<1>2. row[d].slots \in [1..Slots -> Endpoint] /\ row[d].count \in {0, NumEps}
  BY <1>1 DEF Row
<1>3. row[d].slots[i] \in Endpoint
  BY <1>2
<1> DEFINE s == [row[d].slots EXCEPT ![i] = [row[d].slots[i] EXCEPT !.arm = a]]
<1>4. [row[d].slots[i] EXCEPT !.arm = a] \in Endpoint
      /\ [row[d].slots[i] EXCEPT !.arm = a].ep = row[d].slots[i].ep
      /\ [row[d].slots[i] EXCEPT !.arm = a].arm = a
  BY <1>3 DEF Endpoint
<1>5. s \in [1..Slots -> Endpoint]
  BY <1>2, <1>4
<1>6. \A j \in 1..Slots : s[j].ep = row[d].slots[j].ep
                          /\ s[j].arm = IF j = i THEN a ELSE row[d].slots[j].arm
  BY <1>2, <1>4
<1> HIDE DEF s
<1>7. [row[d] EXCEPT !.slots = s] \in Row /\ [row[d] EXCEPT !.slots = s].slots = s
      /\ [row[d] EXCEPT !.slots = s].count = row[d].count
  BY <1>1, <1>5 DEF Row
<1> QED
  BY <1>6, <1>7 DEF ArmRow, s

LEMMA TypeSetArm ==
  ASSUME TypeOK, NEW d \in Devices, NEW e \in Eps, NEW a \in Armings, SetArm(d, e, a)
  PROVE  TypeOK'
<1> USE MsgIsThread
<1> DEFINE o == gateway_getdevice(d)
           i == device_get_index(o, e)
           x == [dev |-> d, obj |-> o, ep |-> e, arm |-> a, over |-> InterviewOver(o)]
<1>1. ThreadTypes /\ DataTypes
  BY TypeParts
<1>2. /\ pc[Main] = "idle" /\ o \in Objs
      /\ UNCHANGED <<heap, list, air, stray, dangling>>
      /\ used' \in [Bounds -> Nat]
      /\ \/ /\ row[d] # NoRow /\ i \in 1..Slots
            /\ row' = [row EXCEPT ![d] = ArmRow(d, i, a)]
            /\ acked' = [acked EXCEPT ![d] = [acked[d] EXCEPT ![e] = Unset]]
            /\ Call(Main, "set_arm", x)
         \/ UNCHANGED <<row, acked, pc, arg>>
  BY <1>1, SetArmIs
<1>3. InterviewOver(o) \in BOOLEAN /\ e \in 0..NumEps
  BY RegistryAssumption DEF InterviewOver, Eps
<1>4. x \in Args /\ Fits("set_arm", x) /\ "set_arm" \in Steps
  BY <1>2, <1>3, RegistryAssumption DEF Args, Fits, Steps
<1> HIDE DEF o, i, x
<1>5. CASE UNCHANGED <<row, acked, pc, arg>>
  <2>1. ThreadTypes' /\ DataTypes'
    BY <1>1, <1>2, <1>5 DEF ThreadTypes, DataTypes
  <2> QED
    BY <2>1, TypePartsNext
<1>6. CASE /\ row[d] # NoRow /\ i \in 1..Slots
           /\ row' = [row EXCEPT ![d] = ArmRow(d, i, a)]
           /\ acked' = [acked EXCEPT ![d] = [acked[d] EXCEPT ![e] = Unset]]
           /\ Call(Main, "set_arm", x)
  <2>1. ThreadTypes'
    BY <1>1, <1>4, <1>6, CallTypes
  <2>2. ArmRow(d, i, a) \in Row
    BY <1>1, <1>6, ArmRowType
  <2>3. row' \in [Devices -> Row \cup {NoRow}]
    BY <1>1, <1>6, <2>2 DEF DataTypes
  <2>4. acked' \in [Devices -> [Eps -> Armings \cup {Unset}]]
    BY <1>1, <1>6 DEF DataTypes
  <2>5. DataTypes'
    BY <1>1, <1>2, <2>3, <2>4 DEF DataTypes
  <2> QED
    BY <2>1, <2>5, TypePartsNext
<1> QED
  BY <1>2, <1>5, <1>6

(* The arm field of one entry.                                             *)
ArmAt(eps, k, a) == [eps EXCEPT ![k] = [eps[k] EXCEPT !.arm = a]]

LEMMA ArmAtIs ==
  ASSUME NEW eps \in Seq(Endpoint), NEW k, NEW a \in Armings
  PROVE  /\ ArmAt(eps, k, a) \in Seq(Endpoint) /\ Len(ArmAt(eps, k, a)) = Len(eps)
         /\ \A i \in DOMAIN eps : /\ ArmAt(eps, k, a)[i].ep = eps[i].ep
                                 /\ ArmAt(eps, k, a)[i].arm = IF i = k THEN a ELSE eps[i].arm
<1> DEFINE f == ArmAt(eps, k, a)
<1>1. DOMAIN f = 1..Len(eps) /\ DOMAIN eps = 1..Len(eps) /\ Len(eps) \in Nat
  BY DEF ArmAt
<1>2. ASSUME NEW i \in DOMAIN eps
      PROVE  f[i] \in Endpoint /\ f[i].ep = eps[i].ep /\ f[i].arm = IF i = k THEN a ELSE eps[i].arm
  <2>1. eps[i] \in Endpoint
    OBVIOUS
  <2>2. f[i] = IF i = k THEN [eps[i] EXCEPT !.arm = a] ELSE eps[i]
    BY DEF ArmAt
  <2> HIDE DEF f
  <2> QED
    BY <2>1, <2>2 DEF Endpoint
<1>3. f = [i \in 1..Len(eps) |-> f[i]]
  BY <1>1 DEF ArmAt
<1> HIDE DEF f
<1>4. f \in [1..Len(eps) -> Endpoint]
  BY <1>1, <1>2, <1>3
<1>5. f \in Seq(Endpoint) /\ Len(f) = Len(eps)
  BY <1>1, <1>4
<1> QED
  BY <1>2, <1>5 DEF f

LEMMA SetArmInMemoryIs ==
  ASSUME TypeOK, SetArmInMemory
  PROVE  LET a == arg[Main]
             k == device_get_index(a.obj, a.ep)
         IN  /\ pc[Main] = "set_arm" /\ a.obj \in Objs /\ a.arm \in Armings
             /\ heap' = [heap EXCEPT ![a.obj] =
                           [heap[a.obj] EXCEPT !.eps = ArmAt(heap[a.obj].eps, k, a.arm)]]
             /\ \/ a.over /\ acked' = [acked EXCEPT ![a.dev] = [acked[a.dev] EXCEPT ![a.ep] = a.arm]]
                \/ ~a.over /\ UNCHANGED acked
             /\ Return(Main) /\ UNCHANGED <<list, row, air, used, stray, dangling>>
<1>1. pc[Main] = "set_arm"
  BY DEF SetArmInMemory, At
<1>2. arg[Main].obj \in Objs /\ arg[Main].arm \in Armings
  BY <1>1, HeldTypes, MsgIsThread
<1> QED
  BY <1>1, <1>2 DEF SetArmInMemory, ArmAt

LEMMA TypeSetArmInMemory ==
  ASSUME TypeOK, SetArmInMemory
  PROVE  TypeOK'
<1> USE MsgIsThread
<1> DEFINE o == arg[Main].obj
           device == [heap[o] EXCEPT !.eps =
                        ArmAt(heap[o].eps, device_get_index(o, arg[Main].ep), arg[Main].arm)]
<1>1. ThreadTypes /\ DataTypes /\ pc[Main] = "set_arm"
  BY TypeParts, SetArmInMemoryIs
<1>2. ThreadTypes'
  BY <1>1, ReturnTypes, SetArmInMemoryIs
<1>3. heap[o] \in Device /\ o \in Objs /\ heap[o].eps \in Seq(Endpoint) /\ arg[Main].arm \in Armings
  BY <1>1, HeldTypes
<1>4. ArmAt(heap[o].eps, device_get_index(o, arg[Main].ep), arg[Main].arm) \in Seq(Endpoint)
  BY <1>3, ArmAtIs
<1>5. device \in Device
  BY <1>3, <1>4 DEF Device
<1>6. heap' = [heap EXCEPT ![o] = device] /\ UNCHANGED <<list, row, air, used, stray, dangling>>
  BY SetArmInMemoryIs
<1> HIDE DEF o, device
<1>7. heap' \in [Objs -> Device]
  BY <1>1, <1>3, <1>5, <1>6 DEF DataTypes
<1>8. acked' \in [Devices -> [Eps -> Armings \cup {Unset}]]
  <2>1. \/ acked' = acked
        \/ acked' = [acked EXCEPT ![arg[Main].dev] = [acked[arg[Main].dev] EXCEPT ![arg[Main].ep] = arg[Main].arm]]
    BY SetArmInMemoryIs
  <2>2. acked \in [Devices -> [Eps -> Armings \cup {Unset}]]
    BY <1>1 DEF DataTypes
  <2> DEFINE d == arg[Main].dev
             now == [acked[d] EXCEPT ![arg[Main].ep] = arg[Main].arm]
  <2>3. d \in Devices
    BY <1>1, HeldTypes
  <2>4. now \in [Eps -> Armings \cup {Unset}]
    BY <1>3, <2>2, <2>3
  <2> HIDE DEF now, d
  <2> QED
    BY <2>1, <2>2, <2>4 DEF now, d
<1>9. DataTypes'
  BY <1>1, <1>6, <1>7, <1>8 DEF DataTypes
<1> QED
  BY <1>2, <1>9, TypePartsNext

(* sqlitedb_load_device brings the rows back in some order, each once.     *)
Stored == {d \in Devices : row[d] # NoRow}
Restarted(s, b) ==
  /\ list' = b
  /\ heap' = [o \in Objs |-> IF o \in ToSet(b)
                              THEN Loaded(s[CHOOSE i \in DOMAIN s : b[i] = o])
                              ELSE device_create(NoArg.dev)]

LEMMA CrashIs ==
  ASSUME TypeOK, Crash
  PROVE  /\ pc' = [t \in Threads |-> "idle"] /\ arg' = [t \in Threads |-> NoArg]
         /\ UNCHANGED <<row, air, stray, dangling, acked>>
         /\ used' \in [Bounds -> Nat]
         /\ \E s \in Seq(Stored), b \in Seq(Objs) :
              /\ Restarted(s, b) /\ DOMAIN b = DOMAIN s
              /\ \A i, j \in DOMAIN b : b[i] = b[j] => i = j
              /\ \A i, j \in DOMAIN s : s[i] = s[j] => i = j
              /\ \A d \in Stored : \E i \in DOMAIN s : s[i] = d
<1> DEFINE n == Cardinality(Stored)
<1>1. IsFiniteSet(Stored) /\ n \in Nat
  BY RegistryAssumption, FS_Subset, FS_CardinalityType DEF Stored
<1>2. PICK s \in SetToSeqs(Stored) : \E b \in Injection(DOMAIN s, Objs) : Restarted(s, b)
  BY DEF Crash, Restarted, Stored
<1>3. PICK b \in Injection(DOMAIN s, Objs) : Restarted(s, b)
  BY <1>2
<1>4. s \in [1..n -> Stored] /\ \A i, j \in 1..n : i # j => s[i] # s[j]
  BY DEF SetToSeqs
<1>5. b \in [DOMAIN s -> Objs] /\ \A i, j \in DOMAIN b : b[i] = b[j] => i = j
  BY DEF Injection, IsInjective
<1>6. s \in Seq(Stored) /\ b \in Seq(Objs) /\ DOMAIN b = DOMAIN s
  BY <1>1, <1>4, <1>5
<1>7. \A d \in Stored : \E i \in DOMAIN s : s[i] = d
  <2>1. s \in Injection(1..n, Stored)
    BY <1>4 DEF Injection, IsInjective
  <2>2. Cardinality(1..n) = n
    BY <1>1, FS_Interval
  <2>3. s \in Surjection(1..n, Stored)
    BY <1>1, <2>1, <2>2, FS_Injection
  <2> QED
    BY <1>4, <2>3 DEF Surjection
<1>8. used' \in [Bounds -> Nat]
  BY UseTypes, TypeParts DEF Crash, Bounds
<1>9. /\ pc' = [t \in Threads |-> "idle"] /\ arg' = [t \in Threads |-> NoArg]
      /\ UNCHANGED <<row, air, stray, dangling, acked>>
  BY DEF Crash
<1> QED
  BY <1>3, <1>4, <1>5, <1>6, <1>7, <1>8, <1>9

LEMMA LoadedIs ==
  ASSUME DataTypes, NEW d \in Stored
  PROVE  /\ Loaded(d) \in Device /\ Loaded(d).dev = d /\ Loaded(d).cursor = 0
         /\ Loaded(d).count = row[d].count /\ Len(Loaded(d).eps) = row[d].count
         /\ \A i \in 1..row[d].count : Loaded(d).eps[i] = row[d].slots[i]
<1>1. d \in Devices /\ row[d] \in Row
  BY DEF Stored, DataTypes
<1>2. /\ row[d].count \in {0, NumEps} /\ row[d].slots \in [1..Slots -> Endpoint]
      /\ row[d].status \in SUBSET Bits
  BY <1>1 DEF Row
<1> DEFINE eps == [i \in 1..row[d].count |-> row[d].slots[i]]
<1>3. row[d].count \in Nat /\ 1..row[d].count \subseteq 1..Slots
  BY <1>2, RegistryAssumption
<1>4. eps \in [1..row[d].count -> Endpoint]
  BY <1>2, <1>3
<1>5. eps \in Seq(Endpoint) /\ Len(eps) = row[d].count
  BY <1>3, <1>4
<1>6. \A i \in 1..row[d].count : eps[i] = row[d].slots[i]
  OBVIOUS
<1>7. Loaded(d) = [dev |-> d, status |-> row[d].status, eps |-> eps, cursor |-> 0,
                   count |-> row[d].count]
  <2> DEFINE c == device_create(d)
  <2>1. c = [dev |-> d, status |-> {}, eps |-> <<>>, cursor |-> 0, count |-> 0]
    BY DEF device_create
  <2>2. Loaded(d) = [c EXCEPT !.status = row[d].status, !.count = row[d].count, !.eps = eps]
    BY DEF Loaded
  <2> HIDE DEF c, eps
  <2> QED
    BY <2>1, <2>2
<1> HIDE DEF eps
<1> QED
  BY <1>1, <1>2, <1>5, <1>6, <1>7 DEF Device

(* Which device a block holds after a restart.                             *)
LEMMA RestartedIs ==
  ASSUME DataTypes, NEW s \in Seq(Stored), NEW b \in Seq(Objs), Restarted(s, b),
         DOMAIN b = DOMAIN s, \A i, j \in DOMAIN b : b[i] = b[j] => i = j
  PROVE  /\ heap' \in [Objs -> Device]
         /\ \A i \in DOMAIN b : heap'[b[i]] = Loaded(s[i]) /\ s[i] \in Stored
<1>1. ASSUME NEW i \in DOMAIN b PROVE heap'[b[i]] = Loaded(s[i]) /\ s[i] \in Stored
  <2>1. b[i] \in Objs /\ b[i] \in ToSet(b) /\ s[i] \in Stored
    BY DEF ToSet
  <2>2. (CHOOSE k \in DOMAIN s : b[k] = b[i]) = i
    OBVIOUS
  <2> QED
    BY <2>1, <2>2 DEF Restarted
<1>2. ASSUME NEW o \in Objs PROVE heap'[o] \in Device
  <2>1. CASE o \in ToSet(b)
    BY <1>1, <2>1, LoadedIs DEF ToSet
  <2>2. CASE o \notin ToSet(b)
    BY <2>2, DeviceCreateType, NoArgType DEF Restarted
  <2> QED
    BY <2>1, <2>2
<1>3. heap' = [o \in Objs |-> heap'[o]]
  BY DEF Restarted
<1>4. heap' \in [Objs -> Device]
  BY <1>2, <1>3
<1> QED
  BY <1>1, <1>4

LEMMA TypeCrash ==
  ASSUME TypeOK, Crash
  PROVE  TypeOK'
<1>1. ThreadTypes /\ DataTypes
  BY TypeParts
<1>2. PICK s \in Seq(Stored), b \in Seq(Objs) :
        /\ Restarted(s, b) /\ DOMAIN b = DOMAIN s
        /\ \A i, j \in DOMAIN b : b[i] = b[j] => i = j
  BY CrashIs
<1>3. heap' \in [Objs -> Device] /\ list' \in Seq(Objs)
  BY <1>1, <1>2, RestartedIs DEF Restarted
<1>4. DataTypes'
  BY <1>1, <1>3, CrashIs DEF DataTypes
<1>5. ThreadTypes'
  BY NoArgType, CrashIs DEF ThreadTypes, Fits, Steps
<1> QED
  BY <1>4, <1>5, TypePartsNext

LEMMA TypeInit == Init => TypeOK
<1> SUFFICES ASSUME Init PROVE TypeOK
  OBVIOUS
<1>1. ThreadTypes
  BY NoArgType DEF Init, ThreadTypes, Fits, Steps
<1>2. device_create(NoArg.dev) \in Device /\ Unset \in Armings \cup {Unset}
  BY DeviceCreateType, NoArgType
<1>3. DataTypes
  <2>1. heap \in [Objs -> Device] /\ list \in Seq(Objs)
    BY <1>2 DEF Init
  <2>2. /\ row \in [Devices -> Row \cup {NoRow}] /\ air \in [Responses -> Nat]
        /\ used \in [Bounds -> Nat] /\ stray \in BOOLEAN /\ dangling \in BOOLEAN
    BY DEF Init
  <2>3. acked \in [Devices -> [Eps -> Armings \cup {Unset}]]
    BY <1>2 DEF Init
  <2> QED
    BY <2>1, <2>2, <2>3 DEF DataTypes
<1> QED
  BY <1>1, <1>3, TypeParts

LEMMA TypeNext == TypeOK /\ [Next]_vars => TypeOK'
<1> SUFFICES ASSUME TypeOK, [Next]_vars PROVE TypeOK'
  OBVIOUS
<1>1. CASE UNCHANGED vars
  BY <1>1 DEF TypeOK, vars
<1>2. ASSUME NEW t \in MsgThreads, MsgStep(t) PROVE TypeOK'
  BY <1>2, TypeAnnceCreate, TypeAnnceInsert, TypeAnnceRefresh, TypeAnnceAsk, TypeActiveEp,
     TypeSimpleDesc, TypeSave, TypeActivate DEF MsgStep
<1>3. CASE MainStep
  BY <1>3, TypeDelMark, TypeDelRow, TypeDelFree, TypeSetArmInMemory DEF MainStep
<1> QED
  BY <1>1, <1>2, <1>3, TypeAnnce, TypeRespond, TypeDel, TypeSetArm, TypeLose, TypeCrash
     DEF Next

(* Every variable keeps its type, and a thread that uses a device has one: *)
(* none of the NULL checks in the callbacks and commands is missing.       *)
THEOREM RegistryTypeOK == Spec => []TypeOK
<1>1. Init => TypeOK
  BY TypeInit
<1>2. TypeOK /\ [Next]_vars => TypeOK'
  BY TypeNext
<1> QED
  BY <1>1, <1>2, PTL DEF Spec

-----------------------------------------------------------------------------
(* The invariant.  The threads take turns on the list only in ways that    *)
(* keep the first entry of every device first: an entry is added behind    *)
(* the others, and only the main thread removes one.                       *)

First(d, o) == FirstIn(list, heap, d, o)
InList(o) == \E i \in DOMAIN list : list[i] = o
MainOnly == {"del_mark", "del_row", "del_free", "set_arm"}
Announcing == {"insert", "refresh", "ask"}
Interviewing == {"active_ep", "simple_desc", "save", "activate"}

ListInv == \A i, j \in DOMAIN list : list[i] = list[j] => i = j

MainInv ==
  /\ pc[Main] \in MainOnly \cup {"idle"}
  /\ pc[Main] # "idle" => First(arg[Main].dev, arg[Main].obj)
  /\ pc[Main] = "set_arm" => /\ arg[Main].ep \in Eps
                             /\ device_has_endpoint(arg[Main].obj, arg[Main].ep)
MsgInv(t) == pc[t] \notin MainOnly /\ (pc[t] = "simple_desc" => arg[t].ep \in Eps)
ThreadInv == MainInv /\ \A t \in MsgThreads : MsgInv(t)

(* A callback's object is in the list, and one of the interview is the one *)
(* that a lookup would return.                                             *)
Ref(t) ==
  /\ pc[t] \in Announcing => InList(arg[t].obj) /\ heap[arg[t].obj].dev = arg[t].dev
  /\ pc[t] \in Interviewing => First(arg[t].dev, arg[t].obj)
RefInv == \A t \in MsgThreads : Ref(t)

LEMMA FirstInList ==
  ASSUME NEW l \in Seq(Objs), NEW h, NEW d, NEW o, FirstIn(l, h, d, o)
  PROVE  o \in Objs /\ h[o].dev = d /\ \E i \in DOMAIN l : l[i] = o
BY LookupFirst DEF FirstIn

LEMMA FirstOnce ==
  ASSUME NEW l \in Seq(Objs), NEW h, NEW d, NEW o, NEW p,
         FirstIn(l, h, d, o), FirstIn(l, h, d, p)
  PROVE  o = p
BY LookupFirst

LEMMA FirstSame ==
  ASSUME NEW l \in Seq(Objs), NEW h, NEW h2, NEW d, NEW o,
         FirstIn(l, h, d, o), \A i \in DOMAIN l : h2[l[i]].dev = h[l[i]].dev
  PROVE  FirstIn(l, h2, d, o)
BY DEF FirstIn

LEMMA FirstAppend ==
  ASSUME NEW l \in Seq(Objs), NEW h, NEW h2, NEW d, NEW o, NEW new \in Objs,
         FirstIn(l, h, d, o), \A i \in DOMAIN l : h2[l[i]].dev = h[l[i]].dev
  PROVE  FirstIn(Append(l, new), h2, d, o)
<1>1. PICK i \in DOMAIN l : /\ l[i] = o /\ h[o].dev = d
                            /\ \A j \in DOMAIN l : j < i => h[l[j]].dev # d
  BY DEF FirstIn
<1>2. /\ Append(l, new) \in Seq(Objs) /\ DOMAIN Append(l, new) = 1..(Len(l) + 1)
      /\ \A j \in DOMAIN l : Append(l, new)[j] = l[j]
  BY AppendProperties
<1>3. DOMAIN l = 1..Len(l) /\ Len(l) \in Nat
  OBVIOUS
<1> DEFINE a == Append(l, new)
<1> HIDE DEF a
<1>4. i \in DOMAIN a /\ a[i] = o /\ h2[o].dev = d
  BY <1>1, <1>2, <1>3 DEF a
<1>5. ASSUME NEW j \in DOMAIN a, j < i PROVE h2[a[j]].dev # d
  <2>1. j \in DOMAIN l
    BY <1>2, <1>3, <1>5 DEF a
  <2> QED
    BY <1>1, <1>2, <1>5, <2>1 DEF a
<1> QED
  BY <1>4, <1>5 DEF FirstIn, a

LEMMA FirstRemove ==
  ASSUME NEW l \in Seq(Objs), NEW h, NEW d, NEW o, NEW k \in DOMAIN l,
         FirstIn(l, h, d, o), l[k] # o
  PROVE  FirstIn(RemoveAt(l, k), h, d, o)
<1> DEFINE r == RemoveAt(l, k)
<1>1. PICK i \in DOMAIN l : /\ l[i] = o /\ h[o].dev = d
                            /\ \A j \in DOMAIN l : j < i => h[l[j]].dev # d
  BY DEF FirstIn
<1>2. PICK n \in Nat : n = Len(l) /\ DOMAIN l = 1..n
  OBVIOUS
<1>3. /\ DOMAIN r = 1..(n - 1)
      /\ \A j \in 1..(n - 1) : r[j] = IF j < k THEN l[j] ELSE l[j + 1]
  BY <1>2, RemoveAtIs
<1> HIDE DEF r
<1> DEFINE m == IF i < k THEN i ELSE i - 1
<1>4. k \in 1..n /\ i \in 1..n /\ i # k
  BY <1>1, <1>2
<1>5. m \in DOMAIN r /\ r[m] = o
  <2>1. CASE i < k
    BY <1>1, <1>3, <1>4, <2>1
  <2>2. CASE k < i
    BY <1>1, <1>3, <1>4, <2>2
  <2> QED
    BY <1>4, <2>1, <2>2
<1>6. ASSUME NEW j \in DOMAIN r, j < m PROVE h[r[j]].dev # d
  <2>1. j \in 1..(n - 1) /\ j < i /\ j \in 1..n
    BY <1>2, <1>3, <1>4, <1>6
  <2>2. CASE j < k
    <3>1. r[j] = l[j]
      BY <1>3, <2>1, <2>2
    <3> QED
      BY <1>1, <1>2, <2>1, <3>1
  <2>3. CASE ~(j < k)
    <3>1. r[j] = l[j + 1] /\ j + 1 \in 1..n /\ j + 1 < i
      BY <1>2, <1>3, <1>4, <1>6, <2>1, <2>3
    <3> QED
      BY <1>1, <1>2, <3>1
  <2> QED
    BY <2>2, <2>3
<1> QED
  BY <1>1, <1>5, <1>6 DEF FirstIn, r

(* What a step that leaves the list alone keeps of a device: its address,  *)
(* and its endpoints, to which some may be added.                          *)
Kept(o) ==
  /\ heap'[o].dev = heap[o].dev
  /\ \A i \in DOMAIN heap[o].eps :
       i \in DOMAIN heap'[o].eps /\ heap'[o].eps[i].ep = heap[o].eps[i].ep
Alone(t) == \A u \in Threads \ {t} : pc'[u] = pc[u] /\ arg'[u] = arg[u]
ListKept == list' = list /\ \A o \in Objs : Kept(o)

LEMMA KeptFirst ==
  ASSUME DataTypes, ListKept
  PROVE  \A d, o : /\ First(d, o) => First(d, o)'
                   /\ InList(o) => InList(o)' /\ o \in Objs
<1>1. list \in Seq(Objs) /\ list' = list /\ \A i \in DOMAIN list : list[i] \in Objs
  BY DEF DataTypes, ListKept
<1>2. \A i \in DOMAIN list : heap'[list[i]].dev = heap[list[i]].dev
  BY <1>1 DEF ListKept, Kept
<1>3. \A d, o : FirstIn(list, heap, d, o) => FirstIn(list', heap', d, o)
  BY <1>1, <1>2, FirstSame
<1> QED
  BY <1>1, <1>3 DEF First, InList

LEMMA KeptHas ==
  ASSUME NEW o, Kept(o), NEW e, device_has_endpoint(o, e)
  PROVE  device_has_endpoint(o, e)'
BY DEF Kept, device_has_endpoint

(* A quiet step leaves what the interview has gathered and saved alone.    *)
Calm(o) ==
  /\ heap'[o].dev = heap[o].dev /\ heap'[o].eps = heap[o].eps
  /\ heap'[o].cursor = heap[o].cursor /\ heap'[o].count \in {heap[o].count, NumEps}
RowKept(d) ==
  /\ row[d] = NoRow /\ row'[d] # NoRow => row'[d].count = 0
  /\ row[d] # NoRow => /\ row'[d] # NoRow /\ row'[d].count = row[d].count
                       /\ row'[d].slots = row[d].slots
Quiet ==
  /\ list' = list /\ \A o \in Objs : Calm(o)
  /\ \A d \in Devices : RowKept(d)
  /\ UNCHANGED <<stray, dangling>>

LEMMA QuietKeeps == ASSUME Quiet PROVE ListKept
BY DEF Quiet, Calm, ListKept, Kept

LEMMA StatusKeeps ==
  ASSUME DataTypes, NEW d \in Devices, NEW s \in SUBSET Bits, UpdateStatus(d, s)
  PROVE  \A x \in Devices : RowKept(x)
<1>1. row \in [Devices -> Row \cup {NoRow}]
  BY DEF DataTypes
<1> DEFINE r == [row[d] EXCEPT !.status = s]
<1>2. row[d] # NoRow => r \in Row /\ r # NoRow /\ r.count = row[d].count /\ r.slots = row[d].slots
  <2>1. row[d] # NoRow => row[d] \in Row
    BY <1>1
  <2>2. row[d] # NoRow => r \in Row /\ r.count = row[d].count /\ r.slots = row[d].slots
    BY <2>1 DEF Row
  <2> QED
    BY <2>2, NoRowAssumption
<1>3. \/ row' = row
      \/ row[d] # NoRow /\ row' = [row EXCEPT ![d] = r]
  BY DEF UpdateStatus, Update
<1> HIDE DEF r
<1> QED
  BY <1>1, <1>2, <1>3 DEF RowKept

(* A thread that only goes on keeps its object.                            *)
LEMMA RefIdle ==
  ASSUME NEW t, pc'[t] \in {"idle", "create"}
  PROVE  Ref(t)'
BY DEF Ref, Announcing, Interviewing

LEMMA RefGoto ==
  ASSUME DataTypes, ListKept, NEW t, Ref(t), arg'[t] = arg[t],
         \/ pc[t] \in Announcing /\ pc'[t] \in Announcing
         \/ pc[t] \in Interviewing /\ pc'[t] \in Interviewing
  PROVE  Ref(t)'
<1>1. CASE pc[t] \in Announcing /\ pc'[t] \in Announcing
  <2>1. InList(arg[t].obj)' /\ arg[t].obj \in Objs
    BY <1>1, KeptFirst DEF Ref
  <2>2. heap'[arg[t].obj].dev = arg[t].dev
    BY <1>1, <2>1 DEF Ref, ListKept, Kept
  <2>3. pc'[t] \notin Interviewing
    BY <1>1 DEF Announcing, Interviewing
  <2> QED
    BY <2>1, <2>2, <2>3 DEF Ref, InList
<1>2. CASE pc[t] \in Interviewing /\ pc'[t] \in Interviewing
  <2>1. First(arg[t].dev, arg[t].obj)'
    BY <1>2, KeptFirst DEF Ref
  <2>2. pc'[t] \notin Announcing
    BY <1>2 DEF Announcing, Interviewing
  <2> QED
    BY <2>1, <2>2 DEF Ref, First
<1> QED
  BY <1>1, <1>2

LEMMA RefSame ==
  ASSUME DataTypes, ListKept, NEW t, Ref(t), arg'[t] = arg[t], pc'[t] = pc[t]
  PROVE  Ref(t)'
<1>1. CASE pc[t] \in Announcing \/ pc[t] \in Interviewing
  BY <1>1, RefGoto
<1>2. CASE ~(pc[t] \in Announcing \/ pc[t] \in Interviewing)
  BY <1>2 DEF Ref
<1> QED
  BY <1>1, <1>2

(* What the invariants of the threads ask of a step of a callback.         *)
Good(t) ==
  /\ Alone(t) /\ MsgInv(t)' /\ (Ref(t) => Ref(t)')
  /\ acked' = acked
  /\ pc'[t] = "save" => SimpleDesc(t) /\ arg'[t] = arg[t]

LEMMA ReturnGood ==
  ASSUME ThreadTypes, NEW t \in MsgThreads, Return(t), acked' = acked
  PROVE  Good(t)
<1>1. Alone(t) /\ pc'[t] = "idle"
  BY MsgIsThread DEF Return, Call, Goto, Alone, ThreadTypes
<1> QED
  BY <1>1, RefIdle DEF Good, MsgInv, MainOnly

LEMMA GotoGood ==
  ASSUME TypeOK, NEW t \in MsgThreads, NEW step, Goto(t, step), UNCHANGED <<arg, acked>>,
         ListKept,
         \/ pc[t] \in Announcing /\ step \in Announcing
         \/ pc[t] \in Interviewing /\ step \in {"save", "activate"},
         step = "save" => SimpleDesc(t)
  PROVE  Good(t)
<1>1. ThreadTypes /\ DataTypes
  BY TypeParts
<1>2. Alone(t) /\ pc'[t] = step
  BY <1>1, MsgIsThread DEF Goto, Alone, ThreadTypes
<1>3. Ref(t) => Ref(t)'
  BY <1>1, <1>2, RefGoto DEF Interviewing
<1> QED
  BY <1>2, <1>3 DEF Good, MsgInv, MainOnly, Announcing

LEMMA FoundIs ==
  ASSUME DataTypes, NEW d, gateway_getdevice(d) # NoObj
  PROVE  First(d, gateway_getdevice(d)) /\ gateway_getdevice(d) \in Objs
BY GetDeviceIs, LookupIs DEF First, DataTypes

LEMMA AnnceGood ==
  ASSUME TypeOK, NEW t \in MsgThreads, NEW d \in Devices, Annce(t, d)
  PROVE  Quiet /\ Good(t)
<1> USE MsgIsThread
<1> DEFINE o == gateway_getdevice(d)
           a == [NoArg EXCEPT !.dev = d, !.obj = o]
           step == IF o = NoObj THEN "create" ELSE "refresh"
<1>1. ThreadTypes /\ DataTypes
  BY TypeParts
<1>2. Quiet
  BY DEF Annce, Quiet, Calm, RowKept
<1>3. Call(t, step, a) /\ acked' = acked /\ UNCHANGED <<heap, list>>
  BY DEF Annce
<1>4. a.dev = d /\ a.obj = o
  BY NoArgType DEF Args
<1>5. o # NoObj => First(d, o) /\ o \in Objs
  BY <1>1, FoundIs
<1>6. step \in {"create", "refresh"} /\ (step = "refresh" => o # NoObj)
  OBVIOUS
<1> HIDE DEF a, o, step
<1>7. Alone(t) /\ pc'[t] = step /\ arg'[t] = a
  BY <1>1, <1>3 DEF Call, Goto, Alone, ThreadTypes
<1>8. Ref(t)'
  <2>1. CASE step = "create"
    BY <1>7, <2>1, RefIdle
  <2>2. CASE step = "refresh"
    <3>1. InList(o) /\ heap[o].dev = d
      <4>1. FirstIn(list, heap, d, o) /\ list \in Seq(Objs)
        BY <1>1, <1>5, <1>6, <2>2 DEF First, DataTypes
      <4> QED
        BY <4>1, FirstInList DEF InList
    <3> QED
      BY <1>3, <1>4, <1>7, <2>2, <3>1 DEF Ref, InList, Interviewing
  <2> QED
    BY <1>6, <2>1, <2>2
<1> QED
  BY <1>2, <1>3, <1>6, <1>7, <1>8 DEF Good, MsgInv, MainOnly

LEMMA AnnceInsertGood ==
  ASSUME TypeOK, NEW t \in MsgThreads, AnnceInsert(t)
  PROVE  Quiet /\ Good(t)
<1>1. ThreadTypes /\ DataTypes /\ pc[t] = "insert"
  BY TypeParts DEF AnnceInsert, At
<1> DEFINE d == arg[t].dev
           new == [status |-> {}, count |-> 0, slots |-> [i \in 1..Slots |-> Blank]]
<1>2. \/ row' = IF row[d] # NoRow THEN row ELSE [row EXCEPT ![d] = new]
      \/ row' = row
  BY DEF AnnceInsert
<1>3. new.count = 0 /\ UNCHANGED <<heap, list, arg, stray, dangling, acked>> /\ Goto(t, "refresh")
  BY DEF AnnceInsert
<1> HIDE DEF new, d
<1>4. \A x \in Devices : RowKept(x)
  BY <1>1, <1>2, <1>3 DEF RowKept, DataTypes
<1>5. Quiet
  BY <1>3, <1>4 DEF Quiet, Calm
<1> QED
  BY <1>1, <1>3, <1>5, QuietKeeps, GotoGood DEF Announcing

LEMMA AnnceRefreshGood ==
  ASSUME TypeOK, NEW t \in MsgThreads, AnnceRefresh(t)
  PROVE  Quiet /\ Good(t)
<1>1. ThreadTypes /\ DataTypes /\ pc[t] = "refresh"
  BY TypeParts DEF AnnceRefresh, At
<1>2. heap[arg[t].obj] \in Device
  BY <1>1, MsgIsThread, HeldTypes
<1>3. Quiet
  BY <1>1, <1>2, StatusKeeps DEF AnnceRefresh, Device, Quiet, Calm
<1> QED
  BY <1>1, <1>3, QuietKeeps, GotoGood DEF AnnceRefresh, Announcing

LEMMA AnnceAskGood ==
  ASSUME TypeOK, NEW t \in MsgThreads, AnnceAsk(t)
  PROVE  Quiet /\ Good(t)
<1> DEFINE o == arg[t].obj
           status == (heap[o].status \cup {"SEND_ACTIVEEP"}) \ {"SEND_SIMPLEDESC"}
<1>1. ThreadTypes /\ DataTypes /\ pc[t] = "ask"
  BY TypeParts DEF AnnceAsk, At
<1>2. heap[o] \in Device /\ o \in Objs
  BY <1>1, MsgIsThread, HeldTypes
<1>3. status \in SUBSET Bits /\ heap[o].dev \in Devices
  BY <1>2 DEF Device, Bits
<1>4. \/ UNCHANGED <<heap, row>>
      \/ heap' = [heap EXCEPT ![o].status = status] /\ UpdateStatus(heap[o].dev, status)
  BY DEF AnnceAsk
<1>5. Return(t) /\ UNCHANGED <<list, stray, dangling, acked>>
  BY DEF AnnceAsk
<1> HIDE DEF o, status
<1>6. \A x \in Devices : RowKept(x)
  BY <1>1, <1>3, <1>4, StatusKeeps DEF RowKept
<1>7. \A x \in Objs : Calm(x)
  <2>1. CASE heap' = heap
    BY <2>1 DEF Calm
  <2>2. CASE heap' = [heap EXCEPT ![o].status = status]
    BY <1>1, <1>2, <2>2 DEF Calm, DataTypes, Device
  <2> QED
    BY <1>4, <2>1, <2>2
<1> QED
  BY <1>1, <1>5, <1>6, <1>7, ReturnGood DEF Quiet

LEMMA ActivateGood ==
  ASSUME TypeOK, NEW t \in MsgThreads, Activate(t)
  PROVE  Quiet /\ Good(t)
<1> DEFINE o == arg[t].obj
           status == heap[o].status \cup {"ACTIVE"}
<1>1. ThreadTypes /\ DataTypes /\ pc[t] = "activate"
  BY TypeParts DEF Activate, At
<1>2. heap[o] \in Device /\ o \in Objs
  BY <1>1, MsgIsThread, HeldTypes
<1>3. status \in SUBSET Bits /\ heap[o].dev \in Devices
  BY <1>2 DEF Device, Bits
<1>4. heap' = [heap EXCEPT ![o].status = status] /\ UpdateStatus(heap[o].dev, status)
  BY DEF Activate
<1>5. Return(t) /\ UNCHANGED <<list, stray, dangling, acked>>
  BY DEF Activate
<1> HIDE DEF o, status
<1>6. \A x \in Devices : RowKept(x)
  BY <1>1, <1>3, <1>4, StatusKeeps
<1>7. \A x \in Objs : Calm(x)
  BY <1>1, <1>2, <1>4 DEF Calm, DataTypes, Device
<1> QED
  BY <1>1, <1>5, <1>6, <1>7, ReturnGood DEF Quiet

LEMMA ActiveEpGood ==
  ASSUME TypeOK, NEW t \in MsgThreads, ActiveEp(t)
  PROVE  Quiet /\ Good(t)
<1> DEFINE o == arg[t].obj
           status == heap[o].status \cup {"SEND_SIMPLEDESC"}
           device == [heap[o] EXCEPT !.status = status, !.count = NumEps]
<1>1. ThreadTypes /\ DataTypes /\ pc[t] = "active_ep"
  BY TypeParts DEF ActiveEp, At
<1>2. heap[o] \in Device /\ o \in Objs
  BY <1>1, MsgIsThread, HeldTypes
<1>3. status \in SUBSET Bits /\ heap[o].dev \in Devices
  BY <1>2 DEF Device, Bits
<1>4. UpdateStatus(heap[o].dev, status) /\ Return(t) /\ UNCHANGED <<list, stray, dangling, acked>>
  BY DEF ActiveEp
<1>5. heap' = [heap EXCEPT ![o] = device]
  BY <1>1, <1>2 DEF ActiveEp, DataTypes
<1>6. /\ device.dev = heap[o].dev /\ device.eps = heap[o].eps
      /\ device.cursor = heap[o].cursor /\ device.count = NumEps
  BY <1>2 DEF Device
<1> HIDE DEF o, status, device
<1>7. \A x \in Devices : RowKept(x)
  BY <1>1, <1>3, <1>4, StatusKeeps
<1>8. \A x \in Objs : Calm(x)
  BY <1>1, <1>2, <1>5, <1>6 DEF Calm, DataTypes
<1> QED
  BY <1>1, <1>4, <1>7, <1>8, ReturnGood DEF Quiet

LEMMA RespondGood ==
  ASSUME TypeOK, NEW t \in MsgThreads, NEW m \in Responses, Respond(t, m)
  PROVE  Quiet /\ Good(t)
<1> USE MsgIsThread
<1> DEFINE o == gateway_getdevice(m.dev)
           found == [NoArg EXCEPT !.dev = m.dev, !.obj = o, !.ep = m.ep]
<1>1. ThreadTypes /\ DataTypes /\ pc[t] = "idle"
  BY TypeParts DEF Respond, At
<1>2. Quiet /\ acked' = acked /\ UNCHANGED <<heap, list>>
  BY DEF Respond, Quiet, Calm, RowKept
<1>3. \/ UNCHANGED <<pc, arg>>
      \/ o # NoObj /\ m.type = "SIMPLE_DESC" /\ Call(t, "simple_desc", found)
      \/ o # NoObj /\ m.type = "ACTIVE_EP" /\ Call(t, "active_ep", found)
  BY DEF Respond, Responses
<1>4. found.dev = m.dev /\ found.obj = o /\ found.ep = m.ep
  BY NoArgType DEF Args
<1>5. m.type = "SIMPLE_DESC" => m.ep \in Eps
  BY DEF Responses
<1>6. o # NoObj => First(m.dev, o)
  BY <1>1, FoundIs
<1> HIDE DEF o, found
<1>7. CASE UNCHANGED <<pc, arg>>
  BY <1>1, <1>2, <1>7, RefIdle DEF Good, Alone, MsgInv, MainOnly
<1>8. ASSUME NEW step \in {"simple_desc", "active_ep"}, Call(t, step, found), o # NoObj,
             step = "simple_desc" => m.type = "SIMPLE_DESC"
      PROVE  Good(t)
  <2>1. Alone(t) /\ pc'[t] = step /\ arg'[t] = found
    BY <1>1, <1>8 DEF Call, Goto, Alone, ThreadTypes
  <2>2. Ref(t)'
    BY <1>2, <1>4, <1>6, <1>8, <2>1 DEF Ref, First, Announcing
  <2> QED
    BY <1>2, <1>4, <1>5, <1>8, <2>1, <2>2 DEF Good, MsgInv, MainOnly
<1> QED
  BY <1>2, <1>3, <1>7, <1>8

LEMMA CreateIs ==
  ASSUME TypeOK, NEW t \in MsgThreads, AnnceCreate(t)
  PROVE  \E o \in Objs :
           /\ ~InList(o) /\ list' = Append(list, o)
           /\ heap' = [heap EXCEPT ![o] = device_create(arg[t].dev)]
           /\ heap'[o] = device_create(arg[t].dev)
           /\ \A p \in Objs : p # o => heap'[p] = heap[p]
           /\ \A i \in DOMAIN list : list[i] # o /\ heap'[list[i]] = heap[list[i]]
           /\ pc[t] = "create" /\ pc'[t] = "insert" /\ Alone(t)
           /\ arg'[t] = [arg[t] EXCEPT !.obj = o]
           /\ UNCHANGED <<row, stray, dangling, acked>>
<1>1. PICK o \in Objs \ ToSet(list) :
        /\ heap' = [heap EXCEPT ![o] = device_create(arg[t].dev)]
        /\ list' = Append(list, o)
        /\ Call(t, "insert", [arg[t] EXCEPT !.obj = o])
  BY DEF AnnceCreate
<1>2. ThreadTypes /\ heap \in [Objs -> Device] /\ list \in Seq(Objs)
  BY TypeParts DEF DataTypes
<1>3. ~InList(o)
  BY DEF InList, ToSet
<1>4. heap'[o] = device_create(arg[t].dev) /\ \A p \in Objs : p # o => heap'[p] = heap[p]
  BY <1>1, <1>2
<1>5. \A i \in DOMAIN list : list[i] \in Objs /\ list[i] # o
  BY <1>2, <1>3 DEF InList
<1>6. /\ pc'[t] = "insert" /\ Alone(t) /\ arg'[t] = [arg[t] EXCEPT !.obj = o]
  BY <1>1, <1>2, MsgIsThread DEF Call, Goto, Alone, ThreadTypes
<1>7. pc[t] = "create" /\ UNCHANGED <<row, stray, dangling, acked>>
  BY DEF AnnceCreate, At
<1> QED
  BY <1>1, <1>3, <1>4, <1>5, <1>6, <1>7

(* The list grows by a block that was not in it.                           *)
LEMMA CreateKeeps ==
  ASSUME TypeOK, NEW t \in MsgThreads, AnnceCreate(t)
  PROVE  \A d, o : /\ First(d, o) => First(d, o)' /\ Kept(o) /\ heap'[o] = heap[o]
                   /\ InList(o) => InList(o)' /\ heap'[o] = heap[o] /\ o \in Objs
<1>1. PICK new \in Objs :
        /\ list' = Append(list, new)
        /\ \A i \in DOMAIN list : heap'[list[i]] = heap[list[i]]
  BY CreateIs
<1>2. list \in Seq(Objs)
  BY DEF TypeOK
<1>3. ASSUME NEW o, InList(o) PROVE InList(o)' /\ heap'[o] = heap[o] /\ o \in Objs
  <2>1. PICK i \in DOMAIN list : list[i] = o
    BY <1>3 DEF InList
  <2>2. i \in DOMAIN Append(list, new) /\ Append(list, new)[i] = list[i] /\ list[i] \in Objs
    BY <1>2, AppendProperties
  <2> QED
    BY <1>1, <2>1, <2>2 DEF InList
<1>4. ASSUME NEW d, NEW o, First(d, o)
      PROVE  First(d, o)' /\ Kept(o) /\ heap'[o] = heap[o]
  <2>1. FirstIn(list', heap', d, o)
    BY <1>1, <1>2, <1>4, FirstAppend DEF First
  <2>2. InList(o)
    BY <1>2, <1>4, FirstInList DEF First, InList
  <2>3. heap'[o] = heap[o]
    BY <1>3, <2>2
  <2> QED
    BY <2>1, <2>3 DEF First, Kept
<1> QED
  BY <1>3, <1>4

LEMMA CreateGood ==
  ASSUME TypeOK, NEW t \in MsgThreads, AnnceCreate(t)
  PROVE  Good(t)
<1>1. PICK o \in Objs :
           /\ list' = Append(list, o) /\ heap'[o] = device_create(arg[t].dev)
           /\ pc'[t] = "insert" /\ Alone(t) /\ acked' = acked
           /\ arg'[t] = [arg[t] EXCEPT !.obj = o]
  BY CreateIs
<1>2. arg[t] \in Args /\ list \in Seq(Objs)
  BY TypeParts, MsgIsThread DEF ThreadTypes, DataTypes
<1>3. arg'[t].obj = o /\ arg'[t].dev = arg[t].dev
  BY <1>1, <1>2 DEF Args
<1>4. \E i \in DOMAIN list' : list'[i] = o
  <2>1. Len(list) \in Nat /\ list' \in Seq(Objs) /\ Len(list') = Len(list) + 1
        /\ list'[Len(list) + 1] = o
    BY <1>1, <1>2, AppendProperties
  <2> QED
    BY <2>1
<1>5. Ref(t)'
  BY <1>1, <1>3, <1>4 DEF Ref, InList, Interviewing, device_create
<1> QED
  BY <1>1, <1>5 DEF Good, MsgInv, MainOnly

LEMMA SaveGood ==
  ASSUME TypeOK, NEW t \in MsgThreads, Save(t)
  PROVE  ListKept /\ Good(t)
<1>1. pc[t] = "save" /\ UNCHANGED <<heap, list>>
  BY DEF Save, At
<1>2. ListKept
  BY <1>1 DEF ListKept, Kept
<1> QED
  BY <1>1, <1>2, GotoGood DEF Save, Interviewing

LEMMA SimpleDescKeeps ==
  ASSUME TypeOK, NEW t \in MsgThreads, SimpleDesc(t)
  PROVE  /\ ListKept
         /\ \A p \in Objs : p # arg[t].obj => heap'[p] = heap[p]
         /\ heap'[arg[t].obj].eps = Gathered(t) /\ heap'[arg[t].obj].cursor = Cursor(t)
         /\ heap'[arg[t].obj].count = heap[arg[t].obj].count
         /\ heap'[arg[t].obj].dev = heap[arg[t].obj].dev
<1> DEFINE o == arg[t].obj
           device == [heap[o] EXCEPT !.cursor = Cursor(t), !.eps = Gathered(t)]
<1>1. /\ pc[t] = "simple_desc" /\ heap' = [heap EXCEPT ![o] = device] /\ list' = list
      /\ Gathered(t) \in Seq(Endpoint)
  BY SimpleDescIs
<1>2. heap[o] \in Device /\ o \in Objs /\ heap[o].eps \in Seq(Endpoint)
  BY <1>1, MsgIsThread, HeldTypes
<1>3. heap \in [Objs -> Device]
  BY DEF TypeOK
<1>4. /\ device.eps = Gathered(t) /\ device.cursor = Cursor(t)
      /\ device.count = heap[o].count /\ device.dev = heap[o].dev
  BY <1>2 DEF Device
<1>5. \A i \in DOMAIN heap[o].eps : i \in DOMAIN Gathered(t) /\ Gathered(t)[i] = heap[o].eps[i]
  <2> DEFINE new == [ep |-> arg[t].ep, arm |-> Zeroed]
             eps == heap[o].eps
  <2>1. Gathered(t) = eps \/ Gathered(t) = Append(eps, new)
    BY DEF Gathered
  <2>2. \A i \in DOMAIN eps : i \in DOMAIN Append(eps, new) /\ Append(eps, new)[i] = eps[i]
    <3> HIDE DEF new, eps
    <3>1. eps \in Seq(Endpoint)
      BY <1>2 DEF eps
    <3> QED
      BY <3>1
  <2> HIDE DEF new, eps
  <2> QED
    BY <2>1, <2>2 DEF eps
<1> HIDE DEF o, device
<1>6. heap'[o] = device /\ \A p \in Objs : p # o => heap'[p] = heap[p]
  BY <1>1, <1>2, <1>3
<1>7. ASSUME NEW p \in Objs PROVE Kept(p)
  <2>1. CASE p = o
    BY <1>4, <1>5, <1>6, <2>1 DEF Kept
  <2>2. CASE p # o
    BY <1>6, <2>2 DEF Kept
  <2> QED
    BY <2>1, <2>2
<1> QED
  BY <1>1, <1>4, <1>6, <1>7 DEF ListKept, o

LEMMA SimpleDescGood ==
  ASSUME TypeOK, NEW t \in MsgThreads, SimpleDesc(t)
  PROVE  Good(t)
<1>1. pc[t] = "simple_desc" /\ acked' = acked /\ ThreadTypes
  BY SimpleDescIs, TypeParts
<1>2. Return(t) \/ (Goto(t, "save") /\ UNCHANGED <<arg, air>>)
  BY SimpleDescIs
<1> QED
  BY <1>1, <1>2, SimpleDescKeeps, ReturnGood, GotoGood DEF Interviewing

(* The steps of callbacks.                                                 *)
MsgAct(t) == /\ Good(t)
             /\ Quiet \/ AnnceCreate(t) \/ SimpleDesc(t) \/ Save(t)

LEMMA MsgActs ==
  ASSUME TypeOK, NEW t \in MsgThreads,
         \/ MsgStep(t) \/ (\E d \in Devices : Annce(t, d))
         \/ (\E m \in Responses : Respond(t, m))
  PROVE  MsgAct(t)
<1>1. CASE MsgStep(t)
  BY <1>1, CreateGood, AnnceInsertGood, AnnceRefreshGood, AnnceAskGood, ActiveEpGood,
     SimpleDescGood, SaveGood, ActivateGood DEF MsgAct, MsgStep
<1> QED
  BY <1>1, AnnceGood, RespondGood DEF MsgAct

(* What every step but a deletion and a restart leaves in place.           *)
Persist ==
  /\ \A d, o : First(d, o) => First(d, o)' /\ Kept(o)
  /\ \A o : InList(o) => InList(o)' /\ o \in Objs /\ heap'[o].dev = heap[o].dev

LEMMA KeptPersists ==
  ASSUME DataTypes, ListKept
  PROVE  Persist
<1>1. \A d, o : /\ First(d, o) => First(d, o)'
                /\ InList(o) => InList(o)' /\ o \in Objs
  BY KeptFirst
<1>2. \A o : InList(o) => heap'[o].dev = heap[o].dev
  BY <1>1 DEF ListKept, Kept
<1>3. ASSUME NEW d, NEW o, First(d, o) PROVE Kept(o)
  <2>1. o \in Objs
    BY <1>3, FirstInList DEF First, DataTypes
  <2> QED
    BY <2>1 DEF ListKept
<1> QED
  BY <1>1, <1>2, <1>3 DEF Persist

LEMMA MsgPersists ==
  ASSUME TypeOK, NEW t \in MsgThreads, MsgAct(t)
  PROVE  Persist
<1>1. DataTypes
  BY TypeParts
<1>2. CASE AnnceCreate(t)
  BY <1>2, CreateKeeps DEF Persist
<1>3. CASE Quiet \/ SimpleDesc(t) \/ Save(t)
  BY <1>1, <1>3, QuietKeeps, SimpleDescKeeps, SaveGood, KeptPersists
<1> QED
  BY <1>2, <1>3 DEF MsgAct

(* A thread that does nothing keeps its object.                            *)
LEMMA RefStays ==
  ASSUME Persist, NEW t, Ref(t), arg'[t] = arg[t], pc'[t] = pc[t]
  PROVE  Ref(t)'
<1>1. pc[t] \in Announcing => InList(arg[t].obj)' /\ heap'[arg[t].obj].dev = arg[t].dev
  BY DEF Ref, Persist
<1>2. pc[t] \in Interviewing => First(arg[t].dev, arg[t].obj)'
  BY DEF Ref, Persist
<1> QED
  BY <1>1, <1>2 DEF Ref, InList, First

(* The invariants of the threads and of the list.                          *)
BaseInv == TypeOK /\ ListInv /\ ThreadInv /\ (~dangling => RefInv)

LEMMA BaseMsg ==
  ASSUME BaseInv, NEW t \in MsgThreads, MsgAct(t)
  PROVE  ListInv' /\ ThreadInv' /\ (~dangling' => RefInv')
<1>1. TypeOK /\ Persist /\ Good(t) /\ t # Main
  BY MsgPersists, MsgIsThread DEF BaseInv, MsgAct
<1>2. \A u \in Threads \ {t} : pc'[u] = pc[u] /\ arg'[u] = arg[u]
  BY <1>1 DEF Good, Alone
<1>3. ListInv'
  <2>1. CASE AnnceCreate(t)
    <3>1. PICK o \in Objs : list' = Append(list, o) /\ ~InList(o)
      BY <1>1, <2>1, CreateIs
    <3>2. list \in Seq(Objs)
      BY <1>1 DEF TypeOK
    <3>3. /\ DOMAIN list' = 1..(Len(list) + 1) /\ DOMAIN list = 1..Len(list) /\ Len(list) \in Nat
          /\ list'[Len(list) + 1] = o /\ \A i \in DOMAIN list : list'[i] = list[i] /\ list[i] # o
      BY <3>1, <3>2, AppendProperties DEF InList
    <3>4. ASSUME NEW i \in DOMAIN list', NEW j \in DOMAIN list', list'[i] = list'[j]
          PROVE  i = j
      <4>1. (i \in DOMAIN list \/ i = Len(list) + 1) /\ (j \in DOMAIN list \/ j = Len(list) + 1)
        BY <3>3
      <4> QED
        BY <3>3, <3>4, <4>1 DEF BaseInv, ListInv
    <3> QED
      BY <3>4 DEF ListInv
  <2>2. CASE list' = list
    BY <2>2 DEF BaseInv, ListInv
  <2>3. AnnceCreate(t) \/ list' = list
    BY <1>1, SimpleDescKeeps, SaveGood DEF MsgAct, Quiet, ListKept
  <2> QED
    BY <2>1, <2>2, <2>3
<1>4. MainInv'
  <2>1. pc'[Main] = pc[Main] /\ arg'[Main] = arg[Main]
    BY <1>1, <1>2, MsgIsThread
  <2> DEFINE d == arg[Main].dev
             o == arg[Main].obj
  <2>2. pc[Main] # "idle" => FirstIn(list', heap', d, o) /\ Kept(o)
    <3>1. \A x, y : First(x, y) => FirstIn(list', heap', x, y) /\ Kept(y)
      BY <1>1 DEF Persist, First
    <3> QED
      BY <3>1 DEF BaseInv, ThreadInv, MainInv
  <2>3. pc[Main] = "set_arm" => \E i \in DOMAIN heap'[o].eps : heap'[o].eps[i].ep = arg[Main].ep
    BY <2>2 DEF BaseInv, ThreadInv, MainInv, device_has_endpoint, Kept
  <2> QED
    BY <2>1, <2>2, <2>3 DEF BaseInv, ThreadInv, MainInv, First, device_has_endpoint
<1>5. ThreadInv'
  <2>1. ASSUME NEW u \in MsgThreads PROVE MsgInv(u)'
    <3>1. CASE u = t
      BY <1>1, <3>1 DEF Good
    <3>2. CASE u # t
      BY <1>2, <3>2, MsgIsThread DEF BaseInv, ThreadInv, MsgInv
    <3> QED
      BY <3>1, <3>2
  <2> QED
    BY <1>4, <2>1 DEF ThreadInv
<1>6. ASSUME ~dangling' PROVE RefInv'
  <2>1. dangling' = dangling
    BY <1>1, CreateIs, SimpleDescIs DEF MsgAct, Quiet, Save
  <2>2. RefInv
    BY <1>6, <2>1 DEF BaseInv
  <2>3. ASSUME NEW u \in MsgThreads PROVE Ref(u)'
    <3>1. CASE u = t
      BY <1>1, <2>2, <3>1 DEF RefInv, Good
    <3>2. CASE u # t
      BY <1>1, <1>2, <2>2, <3>2, MsgIsThread, RefStays DEF RefInv
    <3> QED
      BY <3>1, <3>2
  <2> QED
    BY <2>3 DEF RefInv
<1> QED
  BY <1>3, <1>5, <1>6

(* The steps of the main thread that leave the list alone.                 *)
LEMMA BaseMain ==
  ASSUME BaseInv, ListKept, Alone(Main), dangling' = dangling, MainInv'
  PROVE  ListInv' /\ ThreadInv' /\ (~dangling' => RefInv')
<1>1. TypeOK /\ DataTypes /\ Persist
  BY TypeParts, KeptPersists DEF BaseInv
<1>2. \A u \in MsgThreads : pc'[u] = pc[u] /\ arg'[u] = arg[u]
  BY MsgIsThread DEF Alone
<1>3. ThreadInv'
  BY <1>2 DEF BaseInv, ThreadInv, MsgInv
<1>4. RefInv => RefInv'
  BY <1>1, <1>2, RefStays DEF RefInv
<1> QED
  BY <1>3, <1>4 DEF BaseInv, ListInv, ListKept

LEMMA MainIdle ==
  ASSUME pc'[Main] = "idle"
  PROVE  MainInv'
BY DEF MainInv

LEMMA BaseDel ==
  ASSUME BaseInv, NEW d \in Devices, Del(d)
  PROVE  /\ ListInv' /\ ThreadInv' /\ (~dangling' => RefInv')
         /\ Quiet /\ Alone(Main) /\ pc'[Main] = "del_mark" /\ arg'[Main].dev = d
         /\ acked' = [acked EXCEPT ![d] = [e \in Eps |-> Unset]]
<1> DEFINE o == gateway_getdevice(d)
           a == [NoArg EXCEPT !.dev = d, !.obj = o]
<1>1. ThreadTypes /\ DataTypes
  BY TypeParts DEF BaseInv
<1>2. Quiet
  BY DEF Del, Quiet, Calm, RowKept
<1>3. /\ Call(Main, "del_mark", a) /\ o # NoObj /\ UNCHANGED <<heap, list, dangling>>
      /\ acked' = [acked EXCEPT ![d] = [e \in Eps |-> Unset]]
  BY DEF Del
<1>4. a.dev = d /\ a.obj = o
  BY NoArgType DEF Args
<1>5. First(d, o)
  BY <1>1, <1>3, FoundIs
<1> HIDE DEF a, o
<1>6. Alone(Main) /\ pc'[Main] = "del_mark" /\ arg'[Main] = a
  BY <1>1, <1>3, MsgIsThread DEF Call, Goto, Alone, ThreadTypes
<1>7. MainInv'
  BY <1>3, <1>4, <1>5, <1>6 DEF MainInv, MainOnly, First
<1> QED
  BY <1>2, <1>3, <1>4, <1>6, <1>7, QuietKeeps, BaseMain

LEMMA BaseDelMark ==
  ASSUME BaseInv, DelMark
  PROVE  /\ ListInv' /\ ThreadInv' /\ (~dangling' => RefInv')
         /\ Alone(Main) /\ pc[Main] = "del_mark" /\ pc'[Main] = "del_row" /\ arg' = arg
<1>1. ThreadTypes /\ DataTypes
  BY TypeParts DEF BaseInv
<1>2. pc[Main] = "del_mark" /\ Goto(Main, "del_row") /\ UNCHANGED <<heap, list, arg, dangling>>
  BY DEF DelMark, At
<1>3. Alone(Main) /\ pc'[Main] = "del_row"
  BY <1>1, <1>2, MsgIsThread DEF Goto, Alone, ThreadTypes
<1>4. MainInv'
  BY <1>2, <1>3 DEF BaseInv, ThreadInv, MainInv, MainOnly, First
<1>5. ListKept
  BY <1>2 DEF ListKept, Kept
<1> QED
  BY <1>2, <1>3, <1>4, <1>5, BaseMain

LEMMA BaseDelRow ==
  ASSUME BaseInv, DelRow
  PROVE  /\ ListInv' /\ ThreadInv' /\ (~dangling' => RefInv')
         /\ Alone(Main) /\ pc[Main] = "del_row" /\ pc'[Main] = "del_free" /\ arg' = arg
<1>1. ThreadTypes /\ DataTypes
  BY TypeParts DEF BaseInv
<1>2. pc[Main] = "del_row" /\ Goto(Main, "del_free") /\ UNCHANGED <<heap, list, arg, dangling>>
  BY DEF DelRow, At
<1>3. Alone(Main) /\ pc'[Main] = "del_free"
  BY <1>1, <1>2, MsgIsThread DEF Goto, Alone, ThreadTypes
<1>4. MainInv'
  BY <1>2, <1>3 DEF BaseInv, ThreadInv, MainInv, MainOnly, First
<1>5. ListKept
  BY <1>2 DEF ListKept, Kept
<1> QED
  BY <1>2, <1>3, <1>4, <1>5, BaseMain

LEMMA BaseSetArm ==
  ASSUME BaseInv, NEW d \in Devices, NEW e \in Eps, NEW a \in Armings, SetArm(d, e, a)
  PROVE  /\ ListInv' /\ ThreadInv' /\ (~dangling' => RefInv')
         /\ First(d, gateway_getdevice(d)) /\ Alone(Main)
<1> DEFINE o == gateway_getdevice(d)
           x == [dev |-> d, obj |-> o, ep |-> e, arm |-> a, over |-> InterviewOver(o)]
<1>1. ThreadTypes /\ DataTypes
  BY TypeParts DEF BaseInv
<1>2. /\ pc[Main] = "idle" /\ o \in Objs /\ device_has_endpoint(o, e)
      /\ UNCHANGED <<heap, list, dangling>>
      /\ Call(Main, "set_arm", x) \/ UNCHANGED <<pc, arg>>
  BY <1>1, SetArmIs
<1>3. o # NoObj
  BY <1>2, RegistryAssumption
<1>4. First(d, o)
  BY <1>1, <1>3, FoundIs
<1>5. x.dev = d /\ x.obj = o /\ x.ep = e
  OBVIOUS
<1> HIDE DEF x, o
<1>6. Alone(Main)
  BY <1>1, <1>2, MsgIsThread DEF Call, Goto, Alone, ThreadTypes
<1>7. MainInv'
  <2>1. CASE UNCHANGED <<pc, arg>>
    BY <1>2, <2>1, MainIdle
  <2>2. CASE Call(Main, "set_arm", x)
    <3>1. pc'[Main] = "set_arm" /\ arg'[Main] = x
      BY <1>1, <2>2, MsgIsThread DEF Call, Goto, ThreadTypes
    <3> QED
      BY <1>2, <1>4, <1>5, <3>1 DEF MainInv, MainOnly, First, device_has_endpoint
  <2> QED
    BY <1>2, <2>1, <2>2
<1>8. ListKept
  BY <1>2 DEF ListKept, Kept
<1>9. ListInv' /\ ThreadInv' /\ (~dangling' => RefInv')
  BY <1>2, <1>6, <1>7, <1>8, BaseMain
<1> QED
  BY <1>4, <1>6, <1>9 DEF o

LEMMA MainReturns ==
  ASSUME ThreadTypes, Return(Main)
  PROVE  Alone(Main) /\ pc'[Main] = "idle" /\ MainInv'
<1>1. Alone(Main) /\ pc'[Main] = "idle"
  BY MsgIsThread DEF Return, Call, Goto, Alone, ThreadTypes
<1> QED
  BY <1>1, MainIdle

(* The arming in memory changes no number.                                 *)
LEMMA ArmedIs ==
  ASSUME BaseInv, SetArmInMemory
  PROVE  LET o == arg[Main].obj
             e == arg[Main].ep
             k == device_get_index(o, e)
         IN  /\ pc[Main] = "set_arm" /\ o \in Objs /\ list' = list
             /\ heap'[o].eps = ArmAt(heap[o].eps, k, arg[Main].arm)
             /\ heap'[o].dev = heap[o].dev /\ heap'[o].count = heap[o].count
             /\ heap'[o].cursor = heap[o].cursor
             /\ \A p \in Objs : p # o => heap'[p] = heap[p]
             /\ k \in DOMAIN heap[o].eps /\ heap[o].eps[k].ep = e
             /\ \A p \in Objs :
                  /\ DOMAIN heap'[p].eps = DOMAIN heap[p].eps
                  /\ Len(heap'[p].eps) = Len(heap[p].eps)
                  /\ \A i \in DOMAIN heap[p].eps : heap'[p].eps[i].ep = heap[p].eps[i].ep
<1> DEFINE o == arg[Main].obj
           k == device_get_index(o, arg[Main].ep)
           armed == ArmAt(heap[o].eps, k, arg[Main].arm)
           device == [heap[o] EXCEPT !.eps = armed]
<1>1. TypeOK /\ DataTypes /\ heap \in [Objs -> Device]
  BY TypeParts DEF BaseInv, DataTypes
<1>2. /\ pc[Main] = "set_arm" /\ o \in Objs /\ arg[Main].arm \in Armings /\ list' = list
      /\ heap' = [heap EXCEPT ![o] = device]
  BY <1>1, SetArmInMemoryIs
<1>3. heap[o] \in Device /\ heap[o].eps \in Seq(Endpoint)
  BY <1>1, <1>2, MsgIsThread, HeldTypes
<1>4. /\ armed \in Seq(Endpoint) /\ Len(armed) = Len(heap[o].eps)
      /\ \A i \in DOMAIN heap[o].eps : armed[i].ep = heap[o].eps[i].ep
  BY <1>2, <1>3, ArmAtIs
<1>5. device_has_endpoint(o, arg[Main].ep)
  BY <1>2 DEF BaseInv, ThreadInv, MainInv
<1>6. k \in DOMAIN heap[o].eps /\ heap[o].eps[k].ep = arg[Main].ep
  BY <1>1, <1>2, <1>5, HasIndex
<1>7. /\ device.eps = armed /\ device.dev = heap[o].dev /\ device.count = heap[o].count
      /\ device.cursor = heap[o].cursor
  BY <1>3 DEF Device
<1> HIDE DEF device
<1>8. heap'[o] = device /\ \A p \in Objs : p # o => heap'[p] = heap[p]
  BY <1>1, <1>2
<1>9. DOMAIN armed = DOMAIN heap[o].eps
  BY DEF ArmAt
<1> HIDE DEF armed
<1>10. ASSUME NEW p \in Objs
       PROVE  /\ DOMAIN heap'[p].eps = DOMAIN heap[p].eps
              /\ Len(heap'[p].eps) = Len(heap[p].eps)
              /\ \A i \in DOMAIN heap[p].eps : heap'[p].eps[i].ep = heap[p].eps[i].ep
  <2>1. CASE p = o
    BY <1>4, <1>7, <1>8, <1>9, <2>1
  <2>2. CASE p # o
    BY <1>8, <2>2
  <2> QED
    BY <2>1, <2>2
<1> QED
  BY <1>2, <1>6, <1>7, <1>8, <1>10 DEF armed

LEMMA BaseSetArmInMemory ==
  ASSUME BaseInv, SetArmInMemory
  PROVE  ListInv' /\ ThreadInv' /\ (~dangling' => RefInv')
<1>1. ThreadTypes /\ TypeOK
  BY TypeParts DEF BaseInv
<1>2. Return(Main) /\ dangling' = dangling
  BY <1>1, SetArmInMemoryIs
<1>3. ListKept
  <2>1. ASSUME NEW p \in Objs PROVE Kept(p)
    <3>1. CASE p = arg[Main].obj
      BY <3>1, ArmedIs DEF Kept
    <3>2. CASE p # arg[Main].obj
      BY <3>2, ArmedIs DEF Kept
    <3> QED
      BY <3>1, <3>2
  <2> QED
    BY <2>1, ArmedIs DEF ListKept
<1> QED
  BY <1>1, <1>2, <1>3, MainReturns, BaseMain

LEMMA BaseLose ==
  ASSUME BaseInv, NEW m \in Responses, Lose(m)
  PROVE  /\ ListInv' /\ ThreadInv' /\ (~dangling' => RefInv')
         /\ Quiet /\ UNCHANGED <<pc, arg, acked>>
<1>1. UNCHANGED <<heap, list, row, pc, arg, stray, dangling, acked>>
  BY DEF Lose
<1>2. Quiet
  BY <1>1 DEF Quiet, Calm, RowKept
<1>3. MainInv' /\ Alone(Main)
  BY <1>1 DEF BaseInv, ThreadInv, MainInv, First, device_has_endpoint, Alone
<1> QED
  BY <1>1, <1>2, <1>3, QuietKeeps, BaseMain

(* A deletion takes one entry away, which no callback holds unless the     *)
(* device is freed while it is used.                                       *)
LEMMA FreeKeeps ==
  ASSUME BaseInv, DelFree
  PROVE  /\ \A d, o : First(d, o) /\ o # arg[Main].obj => FirstIn(list', heap', d, o)
         /\ \A o : InList(o) /\ o # arg[Main].obj => \E i \in DOMAIN list' : list'[i] = o
         /\ \A j \in DOMAIN list' : InList(list'[j])
         /\ ListInv' /\ UNCHANGED <<heap, row, stray, acked>>
         /\ pc[Main] = "del_free" /\ Return(Main)
<1>1. list \in Seq(Objs)
  BY DEF BaseInv, TypeOK
<1>2. PICK k \in DOMAIN list : list[k] = arg[Main].obj /\ list' = RemoveAt(list, k)
  BY DEF DelFree
<1>3. PICK n \in Nat : n = Len(list) /\ DOMAIN list = 1..n /\ k \in 1..n
  BY <1>1
<1>4. /\ list' \in Seq(Objs) /\ DOMAIN list' = 1..(n - 1)
      /\ \A j \in 1..(n - 1) : list'[j] = IF j < k THEN list[j] ELSE list[j + 1]
  <2>1. list \in Seq(Objs) /\ k \in 1..Len(list)
    BY <1>1, <1>3
  <2>2. /\ RemoveAt(list, k) \in Seq(Objs) /\ Len(RemoveAt(list, k)) = Len(list) - 1
        /\ \A j \in 1..Len(list)-1 : RemoveAt(list, k)[j] = IF j < k THEN list[j] ELSE list[j + 1]
    BY <2>1, RemoveAtIs
  <2> QED
    BY <1>2, <1>3, <2>2
<1>5. heap' = heap /\ UNCHANGED <<row, stray, acked>> /\ pc[Main] = "del_free" /\ Return(Main)
  BY DEF DelFree, At
<1>6. \A d, o : First(d, o) /\ o # arg[Main].obj => FirstIn(list', heap', d, o)
  BY <1>1, <1>2, <1>5, FirstRemove DEF First
<1>7. ASSUME NEW o, InList(o), o # arg[Main].obj PROVE \E i \in DOMAIN list' : list'[i] = o
  <2>1. PICK i \in 1..n : list[i] = o /\ i # k
    BY <1>2, <1>3, <1>7 DEF InList
  <2>2. CASE i < k
    <3>1. i \in DOMAIN list' /\ list'[i] = o
      BY <1>3, <1>4, <2>1, <2>2
    <3> QED
      BY <3>1
  <2>3. CASE k < i
    <3>1. i - 1 \in DOMAIN list' /\ list'[i - 1] = list[(i - 1) + 1]
      BY <1>3, <1>4, <2>1, <2>3
    <3>2. (i - 1) + 1 = i
      OBVIOUS
    <3> QED
      BY <2>1, <3>1, <3>2
  <2> QED
    BY <1>3, <2>1, <2>2, <2>3
<1> DEFINE at(j) == IF j < k THEN j ELSE j + 1
<1>8. \A j \in DOMAIN list' : at(j) \in DOMAIN list /\ list'[j] = list[at(j)]
  BY <1>3, <1>4
<1>9. \A i, j \in DOMAIN list' : at(i) = at(j) => i = j
  BY <1>3, <1>4
<1> HIDE DEF at
<1>10. ListInv'
  BY <1>8, <1>9 DEF BaseInv, ListInv
<1>11. \A j \in DOMAIN list' : InList(list'[j])
  BY <1>8 DEF InList
<1> QED
  BY <1>5, <1>6, <1>7, <1>10, <1>11

LEMMA BaseDelFree ==
  ASSUME BaseInv, DelFree
  PROVE  /\ ListInv' /\ ThreadInv' /\ (~dangling' => RefInv')
         /\ Alone(Main) /\ pc'[Main] = "idle"
<1>1. ThreadTypes /\ TypeOK
  BY TypeParts DEF BaseInv
<1>2. Alone(Main) /\ pc'[Main] = "idle" /\ MainInv'
  BY <1>1, FreeKeeps, MainReturns
<1>3. \A u \in MsgThreads : pc'[u] = pc[u] /\ arg'[u] = arg[u]
  BY <1>2, MsgIsThread DEF Alone
<1>4. ThreadInv'
  BY <1>2, <1>3 DEF BaseInv, ThreadInv, MsgInv
<1>5. ASSUME ~dangling' PROVE RefInv'
  <2>1. RefInv /\ \A u \in MsgThreads : arg[u].obj # arg[Main].obj
    BY <1>5 DEF DelFree, BaseInv
  <2>2. ASSUME NEW u \in MsgThreads PROVE Ref(u)'
    <3>1. Ref(u) /\ arg[u].obj # arg[Main].obj /\ pc'[u] = pc[u] /\ arg'[u] = arg[u] /\ heap' = heap
      BY <1>3, <2>1, FreeKeeps DEF RefInv
    <3>2. pc[u] \in Announcing => \E i \in DOMAIN list' : list'[i] = arg[u].obj
      BY <3>1, FreeKeeps DEF Ref
    <3>3. pc[u] \in Interviewing => FirstIn(list', heap', arg[u].dev, arg[u].obj)
      BY <3>1, FreeKeeps DEF Ref
    <3> QED
      BY <3>1, <3>2, <3>3 DEF Ref, First, InList
  <2> QED
    BY <2>2 DEF RefInv
<1> QED
  BY <1>2, <1>4, <1>5, FreeKeeps

LEMMA BaseCrash ==
  ASSUME BaseInv, Crash
  PROVE  ListInv' /\ ThreadInv' /\ (~dangling' => RefInv')
<1>1. TypeOK
  BY DEF BaseInv
<1>2. \A t \in Threads : pc'[t] = "idle"
  BY <1>1, CrashIs
<1>3. ListInv'
  BY <1>1, CrashIs DEF Restarted, ListInv
<1>4. ThreadInv'
  BY <1>2, MsgIsThread, MainIdle DEF ThreadInv, MsgInv, MainOnly
<1>5. RefInv'
  BY <1>2, MsgIsThread, RefIdle DEF RefInv
<1> QED
  BY <1>3, <1>4, <1>5

LEMMA BaseInit == Init => BaseInv
<1> SUFFICES ASSUME Init PROVE BaseInv
  OBVIOUS
<1>1. TypeOK
  BY TypeInit
<1>2. ListInv
  BY DEF Init, ListInv
<1>3. ThreadInv /\ RefInv
  BY MsgIsThread DEF Init, ThreadInv, MainInv, MsgInv, MainOnly, RefInv, Ref, Announcing, Interviewing
<1> QED
  BY <1>1, <1>2, <1>3 DEF BaseInv

LEMMA BaseNext == BaseInv /\ [Next]_vars => BaseInv'
<1> SUFFICES ASSUME BaseInv, [Next]_vars PROVE BaseInv'
  OBVIOUS
<1>1. TypeOK /\ TypeOK'
  BY TypeNext DEF BaseInv
<1>2. CASE UNCHANGED vars
  BY <1>1, <1>2 DEF vars, BaseInv, ListInv, ThreadInv, MainInv, MsgInv, RefInv, Ref, First, InList,
     device_has_endpoint
<1>3. ASSUME NEW t \in MsgThreads,
             \/ MsgStep(t) \/ (\E d \in Devices : Annce(t, d))
             \/ (\E m \in Responses : Respond(t, m))
      PROVE  BaseInv'
  BY <1>1, <1>3, MsgActs, BaseMsg DEF BaseInv
<1>4. CASE MainStep
  BY <1>1, <1>4, BaseDelMark, BaseDelRow, BaseDelFree, BaseSetArmInMemory DEF MainStep, BaseInv
<1>5. ASSUME NEW d \in Devices, Del(d) \/ \E e \in Eps, a \in Armings : SetArm(d, e, a)
      PROVE  BaseInv'
  BY <1>1, <1>5, BaseDel, BaseSetArm DEF BaseInv
<1>6. ASSUME NEW m \in Responses, Lose(m) PROVE BaseInv'
  BY <1>1, <1>6, BaseLose DEF BaseInv
<1>7. CASE Crash
  BY <1>1, <1>7, BaseCrash DEF BaseInv
<1> QED
  BY <1>2, <1>3, <1>4, <1>5, <1>6, <1>7 DEF Next

-----------------------------------------------------------------------------
(* What is gathered and stored, as long as no device is freed under a      *)
(* callback and every simple descriptor comes once.                        *)

Whole(eps) == Len(eps) = NumEps /\ {eps[i].ep : i \in 1..NumEps} = Eps

(* An interview under way: the endpoints so far, each once.                *)
Growing(v) ==
  /\ v.cursor = Len(v.eps) /\ v.cursor <= v.count
  /\ \A i \in DOMAIN v.eps : v.eps[i].ep \in Eps
  /\ \A i, j \in DOMAIN v.eps : v.eps[i].ep = v.eps[j].ep => i = j

RowWhole(d) ==
  row[d] # NoRow /\ row[d].count > 0 => {row[d].slots[i].ep : i \in 1..NumEps} = Eps

EpsInv ==
  /\ \A i \in DOMAIN list : Whole(heap[list[i]].eps) \/ Growing(heap[list[i]])
  /\ \A t \in MsgThreads : pc[t] = "save" => Whole(heap[arg[t].obj].eps)
  /\ \A d \in Devices : RowWhole(d)

LEMMA EpsFinite == IsFiniteSet(Eps) /\ Cardinality(Eps) = NumEps
<1>1. 1 \in Int /\ NumEps \in Int /\ ~(1 > NumEps) /\ NumEps - 1 + 1 = NumEps
  BY RegistryAssumption
<1>2. IsFiniteSet(1..NumEps) /\ Cardinality(1..NumEps) = IF 1 > NumEps THEN 0 ELSE NumEps - 1 + 1
  BY <1>1, FS_Interval
<1> QED
  BY <1>1, <1>2 DEF Eps

LEMMA WholeHas ==
  ASSUME NEW eps \in Seq(Endpoint), Whole(eps), NEW e \in Eps
  PROVE  \E i \in DOMAIN eps : eps[i].ep = e
<1>1. PICK i \in 1..NumEps : e = eps[i].ep
  BY DEF Whole
<1>2. DOMAIN eps = 1..NumEps
  BY DEF Whole
<1> QED
  BY <1>1, <1>2

(* As many entries as endpoints: none of them twice.                       *)
LEMMA WholeOnce ==
  ASSUME NEW eps \in Seq(Endpoint), Whole(eps)
  PROVE  \A i, j \in 1..NumEps : eps[i].ep = eps[j].ep => i = j
<1> DEFINE f == [i \in 1..NumEps |-> eps[i].ep]
<1>1. f \in [1..NumEps -> Eps] /\ \A e \in Eps : \E i \in 1..NumEps : f[i] = e
  BY DEF Whole
<1>2. f \in Surjection(1..NumEps, Eps)
  BY <1>1 DEF Surjection
<1>3. IsFiniteSet(1..NumEps) /\ Cardinality(1..NumEps) = NumEps
  BY EpsFinite DEF Eps
<1>4. f \in Injection(1..NumEps, Eps)
  BY <1>2, <1>3, EpsFinite, FS_Surjection
<1>5. \A i, j \in 1..NumEps : f[i] = f[j] => i = j
  BY <1>4 DEF Injection, IsInjective
<1> QED
  BY <1>5

(* And the other way round: a full list without repetition has them all.   *)
LEMMA GrownWhole ==
  ASSUME NEW eps \in Seq(Endpoint), Len(eps) = NumEps,
         \A i \in DOMAIN eps : eps[i].ep \in Eps,
         \A i, j \in DOMAIN eps : eps[i].ep = eps[j].ep => i = j
  PROVE  Whole(eps)
<1> DEFINE f == [i \in 1..NumEps |-> eps[i].ep]
<1>1. DOMAIN eps = 1..NumEps
  OBVIOUS
<1>2. f \in [1..NumEps -> Eps] /\ \A i, j \in 1..NumEps : f[i] = f[j] => i = j
  BY <1>1
<1>3. f \in Injection(1..NumEps, Eps)
  BY <1>2 DEF Injection, IsInjective
<1>4. Cardinality(1..NumEps) = NumEps
  BY EpsFinite DEF Eps
<1>5. f \in Surjection(1..NumEps, Eps)
  BY <1>3, <1>4, EpsFinite, FS_Injection
<1>6. \A e \in Eps : \E i \in 1..NumEps : f[i] = e
  BY <1>5 DEF Surjection
<1>7. {eps[i].ep : i \in 1..NumEps} = Eps
  BY <1>2, <1>6
<1> QED
  BY <1>7 DEF Whole

(* Only the numbers and the places count.                                  *)
LEMMA WholeSame ==
  ASSUME NEW a \in Seq(Endpoint), NEW b, Whole(a), Len(b) = Len(a),
         \A i \in DOMAIN a : b[i].ep = a[i].ep
  PROVE  Whole(b)
<1>1. DOMAIN a = 1..NumEps
  BY DEF Whole
<1>2. {b[i].ep : i \in 1..NumEps} = {a[i].ep : i \in 1..NumEps}
  BY <1>1
<1> QED
  BY <1>2 DEF Whole

LEMMA DeviceOf ==
  ASSUME TypeOK, NEW o \in Objs
  PROVE  /\ heap[o].eps \in Seq(Endpoint) /\ heap[o].count \in {0, NumEps}
         /\ heap[o].cursor \in Nat /\ heap[o].dev \in Devices
BY DEF TypeOK, Device

LEMMA ListedIs ==
  ASSUME TypeOK, NEW i \in DOMAIN list
  PROVE  list[i] \in Objs
BY DEF TypeOK

LEMMA CalmOk ==
  ASSUME TypeOK, NEW o \in Objs, Calm(o), Whole(heap[o].eps) \/ Growing(heap[o])
  PROVE  Whole(heap'[o].eps) \/ Growing(heap'[o])
<1>1. CASE Whole(heap[o].eps)
  BY <1>1 DEF Calm
<1>2. CASE Growing(heap[o])
  <2>1. heap[o].cursor <= heap'[o].count
    BY <1>2, DeviceOf, RegistryAssumption DEF Calm, Growing
  <2> QED
    BY <1>2, <2>1 DEF Calm, Growing
<1> QED
  BY <1>1, <1>2

LEMMA RowKeptWhole ==
  ASSUME NEW d \in Devices, RowKept(d), RowWhole(d)
  PROVE  RowWhole(d)'
BY DEF RowKept, RowWhole

(* A simple descriptor that was asked for brings a new endpoint.           *)
LEMMA DescGrows ==
  ASSUME BaseInv, EpsInv, ~dangling, NEW t \in MsgThreads, SimpleDesc(t), ~stray'
  PROVE  /\ InList(arg[t].obj) /\ ~Whole(heap[arg[t].obj].eps)
         /\ Growing(heap'[arg[t].obj])
         /\ pc'[t] = "save" => Whole(heap'[arg[t].obj].eps)
<1> DEFINE o == arg[t].obj
           e == arg[t].ep
           eps == heap[o].eps
           new == [ep |-> e, arm |-> Zeroed]
<1>1. TypeOK /\ ThreadTypes /\ pc[t] = "simple_desc" /\ o \in Objs
  BY TypeParts, SimpleDescIs, HeldTypes, MsgIsThread DEF BaseInv
<1>2. InList(o)
  <2>1. First(arg[t].dev, o) /\ list \in Seq(Objs)
    BY <1>1 DEF BaseInv, RefInv, Ref, Interviewing, TypeOK
  <2> QED
    BY <2>1, FirstInList DEF First, InList
<1>3. e \in Eps /\ eps \in Seq(Endpoint) /\ heap[o].count \in {0, NumEps} /\ Len(eps) \in Nat
  BY <1>1, DeviceOf DEF BaseInv, ThreadInv, MsgInv
<1>4. ~device_has_endpoint(o, e) /\ ~(Cursor(t) > heap[o].count)
  BY <1>1, SimpleDescIs
<1>5. ~\E i \in DOMAIN eps : eps[i].ep = e
  BY <1>4 DEF device_has_endpoint
<1>6. ~Whole(eps)
  BY <1>3, <1>5, WholeHas
<1>7. Growing(heap[o])
  BY <1>2, <1>6 DEF EpsInv, InList
<1>8. Cursor(t) = Len(eps) + 1 /\ Cursor(t) <= heap[o].count
  BY <1>3, <1>4, <1>7, RegistryAssumption DEF Cursor, Growing
<1>9. /\ heap'[o].eps = Append(eps, new) /\ heap'[o].cursor = Len(eps) + 1
      /\ heap'[o].count = heap[o].count
  BY <1>1, <1>8, SimpleDescKeeps DEF Gathered
<1>10. new \in Endpoint /\ new.ep = e
  BY <1>3, RegistryAssumption DEF Endpoint, Eps
<1> HIDE DEF new, eps, o, e
<1>11. /\ Append(eps, new) \in Seq(Endpoint) /\ Len(Append(eps, new)) = Len(eps) + 1
       /\ DOMAIN Append(eps, new) = 1..(Len(eps) + 1) /\ DOMAIN eps = 1..Len(eps)
       /\ Append(eps, new)[Len(eps) + 1] = new
       /\ \A i \in DOMAIN eps : Append(eps, new)[i] = eps[i]
  BY <1>3, <1>10, AppendProperties
<1> DEFINE more == Append(eps, new)
<1> HIDE DEF more
<1>12. \A i \in DOMAIN more : /\ more[i].ep \in Eps
                              /\ i \in DOMAIN eps \/ (i = Len(eps) + 1 /\ more[i].ep = e)
  BY <1>3, <1>7, <1>10, <1>11 DEF Growing, more, eps
<1>13. \A i, j \in DOMAIN more : more[i].ep = more[j].ep => i = j
  BY <1>3, <1>5, <1>7, <1>11, <1>12 DEF Growing, more, eps
<1>14. Growing(heap'[o])
  BY <1>8, <1>9, <1>11, <1>12, <1>13 DEF Growing, more
<1>15. ASSUME pc'[t] = "save" PROVE Whole(heap'[o].eps)
  <2>1. Cursor(t) = heap[o].count
    <3>1. Return(t) => pc'[t] = "idle"
      BY <1>1, MsgIsThread DEF Return, Call, Goto, ThreadTypes
    <3> QED
      BY <1>1, <1>15, <3>1, SimpleDescIs DEF o
  <2>2. Len(more) = NumEps
    BY <1>3, <1>8, <1>11, <2>1, RegistryAssumption DEF more
  <2> QED
    BY <1>9, <1>11, <1>12, <1>13, <2>2, GrownWhole DEF more
<1> QED
  BY <1>2, <1>6, <1>14, <1>15 DEF o, eps

(* Where a callback of the interview is.                                   *)
LEMMA SaveHolds ==
  ASSUME BaseInv, ~dangling, NEW t \in MsgThreads, pc[t] \in Interviewing
  PROVE  /\ First(arg[t].dev, arg[t].obj) /\ arg[t].obj \in Objs /\ InList(arg[t].obj)
         /\ heap[arg[t].obj].dev = arg[t].dev /\ First(heap[arg[t].obj].dev, arg[t].obj)
<1>1. First(arg[t].dev, arg[t].obj) /\ list \in Seq(Objs)
  BY DEF BaseInv, RefInv, Ref, TypeOK
<1> QED
  BY <1>1, FirstInList DEF First, InList

(* Save writes what was gathered, all of it.                               *)
LEMMA SaveWrites ==
  ASSUME BaseInv, EpsInv, ~dangling, NEW t \in MsgThreads, Save(t), NEW d \in Devices
  PROVE  /\ RowWhole(d)'
         /\ d # heap[arg[t].obj].dev => row'[d] = row[d]
<1> DEFINE o == arg[t].obj
           eps == heap[o].eps
           slots == [i \in 1..Slots |-> IF i <= Len(eps) THEN eps[i] ELSE row[heap[o].dev].slots[i]]
           saved == [row[heap[o].dev] EXCEPT !.count = heap[o].count, !.slots = slots]
<1>1. TypeOK /\ pc[t] = "save" /\ row \in [Devices -> Row \cup {NoRow}]
  BY DEF BaseInv, TypeOK, Save, At
<1>2. Whole(eps) /\ o \in Objs
  BY <1>1, SaveHolds DEF EpsInv, Interviewing
<1>3. heap[o].dev \in Devices
  BY <1>1, <1>2, DeviceOf
<1>4. \/ row' = IF row[heap[o].dev] = NoRow THEN row ELSE [row EXCEPT ![heap[o].dev] = saved]
      \/ row' = row
  BY DEF Save, Update
<1>5. RowWhole(d)
  BY DEF EpsInv
<1>6. CASE row' = row
  BY <1>5, <1>6 DEF RowWhole
<1>7. CASE row[heap[o].dev] # NoRow /\ row' = [row EXCEPT ![heap[o].dev] = saved]
  <2>1. row[heap[o].dev] \in Row
    BY <1>1, <1>3, <1>7
  <2>2. saved.slots = slots
    <3> HIDE DEF slots, o
    <3> QED
      BY <2>1 DEF Row
  <2>3. 1..NumEps \subseteq 1..Slots /\ Len(eps) = NumEps
    BY <1>2, RegistryAssumption DEF Whole
  <2>4. \A i \in 1..NumEps : slots[i] = eps[i]
    BY <2>3
  <2>5. {saved.slots[i].ep : i \in 1..NumEps} = Eps
    <3>1. \A i \in 1..NumEps : saved.slots[i].ep = eps[i].ep
      BY <2>2, <2>4
    <3>2. {saved.slots[i].ep : i \in 1..NumEps} = {eps[i].ep : i \in 1..NumEps}
      <4> HIDE DEF saved, eps
      <4> QED
        BY <3>1
    <3> QED
      BY <1>2, <3>2 DEF Whole
  <2> HIDE DEF saved, eps, o
  <2>6. CASE d = heap[o].dev
    <3>1. row'[d] = saved
      BY <1>1, <1>7, <2>6
    <3> QED
      BY <2>5, <2>6, <3>1 DEF RowWhole, o
  <2>7. CASE d # heap[o].dev
    <3>1. row'[d] = row[d]
      BY <1>1, <1>7, <2>7
    <3> QED
      BY <1>5, <3>1 DEF RowWhole
  <2> QED
    BY <2>6, <2>7
<1> HIDE DEF saved
<1>8. d # heap[o].dev => row'[d] = row[d]
  BY <1>1, <1>4
<1> QED
  BY <1>4, <1>6, <1>7, <1>8

LEMMA EpsMsg ==
  ASSUME BaseInv, EpsInv, ~dangling, NEW t \in MsgThreads, MsgAct(t), ~stray'
  PROVE  EpsInv'
<1>1. TypeOK /\ RefInv /\ Persist /\ Good(t) /\ list \in Seq(Objs)
  BY MsgPersists DEF BaseInv, MsgAct, TypeOK
<1>2. \A d \in Devices : RowWhole(d)'
  <2>1. CASE Save(t)
    BY <2>1, SaveWrites
  <2>2. CASE Quiet
    BY <2>2, RowKeptWhole DEF Quiet, EpsInv
  <2>3. CASE row' = row
    BY <2>3 DEF RowWhole, EpsInv
  <2> QED
    BY <1>1, <2>1, <2>2, <2>3, SimpleDescIs, CreateIs DEF MsgAct
<1>3. \A o \in Objs : InList(o) => Whole(heap[o].eps) \/ Growing(heap[o])
  BY DEF EpsInv, InList
<1>4. ASSUME NEW i \in DOMAIN list'
      PROVE  Whole(heap'[list'[i]].eps) \/ Growing(heap'[list'[i]])
  <2>1. CASE Quiet
    <3>1. list' = list /\ list[i] \in Objs /\ InList(list[i])
      BY <1>1, <2>1 DEF Quiet, InList
    <3> QED
      BY <1>1, <1>3, <2>1, <3>1, CalmOk DEF Quiet
  <2>2. CASE Save(t)
    BY <1>4, <2>2 DEF Save, EpsInv
  <2>3. CASE SimpleDesc(t)
    <3>1. list' = list /\ list[i] \in Objs /\ InList(list[i])
      <4>1. list' = list
        BY <1>1, <2>3, SimpleDescIs
      <4> QED
        BY <1>1, <4>1 DEF InList
    <3>2. CASE list[i] = arg[t].obj
      BY <2>3, <3>1, <3>2, DescGrows
    <3>3. CASE list[i] # arg[t].obj
      BY <1>1, <1>3, <2>3, <3>1, <3>3, SimpleDescKeeps
    <3> QED
      BY <3>2, <3>3
  <2>4. CASE AnnceCreate(t)
    <3>1. PICK o \in Objs : list' = Append(list, o) /\ heap'[o] = device_create(arg[t].dev)
      BY <1>1, <2>4, CreateIs
    <3>2. list'[i] = o \/ \E j \in DOMAIN list : list'[i] = list[j]
      BY <1>1, <3>1
    <3>3. CASE list'[i] = o
      BY <3>1, <3>3 DEF Growing, device_create
    <3>4. CASE \E j \in DOMAIN list : list'[i] = list[j]
      <4>1. InList(list'[i])
        BY <3>4 DEF InList
      <4>2. list'[i] \in Objs /\ heap'[list'[i]] = heap[list'[i]]
        BY <1>1, <2>4, <4>1, CreateKeeps
      <4> QED
        BY <1>3, <4>1, <4>2
    <3> QED
      BY <3>2, <3>3, <3>4
  <2> QED
    BY <2>1, <2>2, <2>3, <2>4 DEF MsgAct
<1>5. ASSUME NEW u \in MsgThreads, pc'[u] = "save" PROVE Whole(heap'[arg'[u].obj].eps)
  <2>1. CASE u = t
    BY <1>1, <1>5, <2>1, DescGrows DEF Good
  <2>2. CASE u # t
    <3>1. pc[u] = "save" /\ arg'[u] = arg[u]
      BY <1>1, <1>5, <2>2, MsgIsThread DEF Good, Alone
    <3>2. Whole(heap[arg[u].obj].eps) /\ InList(arg[u].obj) /\ arg[u].obj \in Objs
      BY <3>1, SaveHolds DEF EpsInv, Interviewing
    <3>3. heap'[arg[u].obj].eps = heap[arg[u].obj].eps
      <4>1. CASE SimpleDesc(t)
        <5>1. arg[u].obj # arg[t].obj
          BY <3>2, <4>1, DescGrows
        <5> QED
          BY <1>1, <3>2, <4>1, <5>1, SimpleDescKeeps
      <4>2. CASE AnnceCreate(t)
        BY <1>1, <3>2, <4>2, CreateKeeps
      <4>3. CASE Quiet
        BY <3>2, <4>3 DEF Quiet, Calm
      <4>4. CASE Save(t)
        BY <4>4 DEF Save
      <4> QED
        BY <4>1, <4>2, <4>3, <4>4 DEF MsgAct
    <3> QED
      BY <3>1, <3>2, <3>3
  <2> QED
    BY <2>1, <2>2
<1> QED
  BY <1>2, <1>4, <1>5 DEF EpsInv

(* Main's steps: the numbers stay.                                         *)
LEMMA EpsMain ==
  ASSUME BaseInv, EpsInv, ~dangling, Alone(Main), ListKept,
         \A o \in Objs :
           /\ Len(heap'[o].eps) = Len(heap[o].eps) /\ DOMAIN heap'[o].eps = DOMAIN heap[o].eps
           /\ heap'[o].cursor = heap[o].cursor /\ heap'[o].count = heap[o].count,
         \A d \in Devices : RowWhole(d)'
  PROVE  EpsInv'
<1>1. TypeOK
  BY DEF BaseInv
<1>2. ASSUME NEW o \in Objs, Whole(heap[o].eps) PROVE Whole(heap'[o].eps)
  BY <1>1, <1>2, DeviceOf, WholeSame DEF ListKept, Kept
<1>3. ASSUME NEW o \in Objs, Growing(heap[o]) PROVE Growing(heap'[o])
  <2>1. \A i \in DOMAIN heap[o].eps : heap'[o].eps[i].ep = heap[o].eps[i].ep
    BY DEF ListKept, Kept
  <2> QED
    BY <1>3, <2>1 DEF Growing
<1>4. \A i \in DOMAIN list' : Whole(heap'[list'[i]].eps) \/ Growing(heap'[list'[i]])
  BY <1>1, <1>2, <1>3, ListedIs DEF EpsInv, ListKept
<1>5. ASSUME NEW u \in MsgThreads, pc'[u] = "save" PROVE Whole(heap'[arg'[u].obj].eps)
  <2>1. pc[u] = "save" /\ arg'[u] = arg[u]
    BY <1>5, MsgIsThread DEF Alone
  <2>2. Whole(heap[arg[u].obj].eps) /\ arg[u].obj \in Objs
    BY <2>1, SaveHolds DEF EpsInv, Interviewing
  <2> QED
    BY <1>2, <2>1, <2>2
<1> QED
  BY <1>4, <1>5 DEF EpsInv

LEMMA EpsSame ==
  ASSUME BaseInv, EpsInv, ~dangling, Alone(Main), UNCHANGED <<heap, list>>,
         \A d \in Devices : RowWhole(d)'
  PROVE  EpsInv'
<1>1. ListKept
  BY DEF ListKept, Kept
<1> QED
  BY <1>1, EpsMain

LEMMA EpsDelMark ==
  ASSUME BaseInv, EpsInv, ~dangling, DelMark
  PROVE  EpsInv' /\ \A d \in Devices : RowKept(d)
<1>1. TypeOK /\ ThreadTypes /\ DataTypes /\ pc[Main] = "del_mark"
  BY TypeParts, BaseDelMark DEF BaseInv
<1>2. \A d \in Devices : RowKept(d)
  <2>1. arg[Main].obj \in Objs
    BY <1>1, HeldTypes, MsgIsThread
  <2>2. heap[arg[Main].obj].dev \in Devices /\ heap[arg[Main].obj].status \in SUBSET Bits
    BY <1>1, <2>1 DEF DataTypes, Device
  <2> QED
    BY <1>1, <2>2, StatusKeeps DEF DelMark
<1>3. \A d \in Devices : RowWhole(d)'
  BY <1>2, RowKeptWhole DEF EpsInv
<1> QED
  BY <1>2, <1>3, BaseDelMark, EpsSame DEF DelMark

LEMMA EpsDelRow ==
  ASSUME BaseInv, EpsInv, ~dangling, DelRow
  PROVE  EpsInv' /\ \A d \in Devices : d # arg[Main].dev => row'[d] = row[d]
<1>1. UNCHANGED <<heap, list>> /\ row \in [Devices -> Row \cup {NoRow}]
  BY DEF DelRow, BaseInv, TypeOK
<1>2. \/ row' = IF row[arg[Main].dev] = NoRow THEN row ELSE [row EXCEPT ![arg[Main].dev] = NoRow]
      \/ row' = row
  BY DEF DelRow, Update
<1>3. ASSUME NEW d \in Devices PROVE row'[d] = row[d] \/ (d = arg[Main].dev /\ row'[d] = NoRow)
  BY <1>1, <1>2
<1>4. \A d \in Devices : RowWhole(d)'
  BY <1>3 DEF RowWhole, EpsInv
<1> QED
  BY <1>1, <1>3, <1>4, BaseDelRow, EpsSame

LEMMA EpsSetArm ==
  ASSUME BaseInv, EpsInv, ~dangling,
         NEW d \in Devices, NEW e \in Eps, NEW a \in Armings, SetArm(d, e, a)
  PROVE  EpsInv'
<1>1. DataTypes /\ row \in [Devices -> Row \cup {NoRow}]
  BY TypeParts DEF BaseInv, DataTypes
<1> DEFINE i == device_get_index(gateway_getdevice(d), e)
<1>2. /\ UNCHANGED <<heap, list>>
      /\ \/ row[d] # NoRow /\ i \in 1..Slots /\ row' = [row EXCEPT ![d] = ArmRow(d, i, a)]
         \/ row' = row
  BY <1>1, SetArmIs
<1> HIDE DEF i
<1>3. ASSUME NEW x \in Devices PROVE RowWhole(x)'
  <2>1. RowWhole(x)
    BY DEF EpsInv
  <2>2. CASE row'[x] = row[x]
    BY <2>1, <2>2 DEF RowWhole
  <2>3. CASE row[d] # NoRow /\ i \in 1..Slots /\ x = d /\ row'[d] = ArmRow(d, i, a)
    <3>1. /\ ArmRow(d, i, a).count = row[d].count
          /\ \A j \in 1..Slots : ArmRow(d, i, a).slots[j].ep = row[d].slots[j].ep
      BY <1>1, <2>3, ArmRowType
    <3>2. 1..NumEps \subseteq 1..Slots
      BY RegistryAssumption
    <3> DEFINE r == row'[x]
    <3>3. r.count = row[x].count /\ \A j \in 1..NumEps : r.slots[j].ep = row[x].slots[j].ep
      BY <2>3, <3>1, <3>2
    <3> HIDE DEF r
    <3>4. {r.slots[j].ep : j \in 1..NumEps} = {row[x].slots[j].ep : j \in 1..NumEps}
      BY <3>3
    <3>5. r.count > 0 => {r.slots[j].ep : j \in 1..NumEps} = Eps
      BY <2>1, <2>3, <3>3, <3>4 DEF RowWhole
    <3> QED
      BY <3>5 DEF RowWhole, r
  <2>4. row'[x] = row[x] \/ (row[d] # NoRow /\ i \in 1..Slots /\ x = d /\ row'[d] = ArmRow(d, i, a))
    BY <1>1, <1>2
  <2> QED
    BY <2>2, <2>3, <2>4
<1> QED
  BY <1>2, <1>3, BaseSetArm, EpsSame

LEMMA EpsSetArmInMemory ==
  ASSUME BaseInv, EpsInv, ~dangling, SetArmInMemory
  PROVE  EpsInv' /\ Alone(Main) /\ row' = row
<1>1. TypeOK /\ ThreadTypes
  BY TypeParts DEF BaseInv
<1>2. row' = row /\ Alone(Main)
  BY <1>1, SetArmInMemoryIs, MainReturns
<1>3. ASSUME NEW o \in Objs
      PROVE  /\ Len(heap'[o].eps) = Len(heap[o].eps) /\ DOMAIN heap'[o].eps = DOMAIN heap[o].eps
             /\ heap'[o].cursor = heap[o].cursor /\ heap'[o].count = heap[o].count /\ Kept(o)
  <2>1. /\ Len(heap'[o].eps) = Len(heap[o].eps) /\ DOMAIN heap'[o].eps = DOMAIN heap[o].eps
        /\ \A i \in DOMAIN heap[o].eps : heap'[o].eps[i].ep = heap[o].eps[i].ep
    BY ArmedIs
  <2>2. /\ heap'[o].cursor = heap[o].cursor /\ heap'[o].count = heap[o].count
        /\ heap'[o].dev = heap[o].dev
    <3>1. CASE o = arg[Main].obj
      BY <3>1, ArmedIs
    <3>2. CASE o # arg[Main].obj
      BY <3>2, ArmedIs
    <3> QED
      BY <3>1, <3>2
  <2> QED
    BY <2>1, <2>2 DEF Kept
<1>4. ListKept
  BY <1>3, ArmedIs DEF ListKept
<1>5. \A d \in Devices : RowWhole(d)'
  BY <1>2 DEF EpsInv, RowWhole
<1> QED
  BY <1>2, <1>3, <1>4, <1>5, EpsMain

LEMMA EpsDelFree ==
  ASSUME BaseInv, EpsInv, ~dangling, DelFree
  PROVE  EpsInv'
<1>1. Alone(Main) /\ UNCHANGED <<heap, row>> /\ \A j \in DOMAIN list' : InList(list'[j])
  BY BaseDelFree, FreeKeeps
<1>2. \A i \in DOMAIN list' : Whole(heap'[list'[i]].eps) \/ Growing(heap'[list'[i]])
  BY <1>1 DEF EpsInv, InList
<1>3. \A u \in MsgThreads : pc'[u] = "save" => Whole(heap'[arg'[u].obj].eps)
  BY <1>1, MsgIsThread DEF Alone, EpsInv
<1> QED
  BY <1>1, <1>2, <1>3 DEF EpsInv, RowWhole

(* What is loaded is what was stored.                                      *)
LEMMA LoadedWhole ==
  ASSUME BaseInv, EpsInv, NEW d \in Stored
  PROVE  /\ row[d].count > 0 => Whole(Loaded(d).eps)
         /\ Whole(Loaded(d).eps) \/ Growing(Loaded(d))
<1>1. DataTypes /\ d \in Devices /\ row[d] # NoRow
  BY TypeParts DEF BaseInv, Stored
<1>2. row[d].count \in {0, NumEps}
  BY <1>1 DEF DataTypes, Row
<1>3. /\ Loaded(d) \in Device /\ Loaded(d).cursor = 0 /\ Loaded(d).count = row[d].count
      /\ Len(Loaded(d).eps) = row[d].count
      /\ \A i \in 1..row[d].count : Loaded(d).eps[i] = row[d].slots[i]
  BY <1>1, LoadedIs
<1>4. CASE row[d].count = 0
  <2>1. Loaded(d).eps \in Seq(Endpoint) /\ Len(Loaded(d).eps) = 0
    BY <1>3, <1>4 DEF Device
  <2>2. DOMAIN Loaded(d).eps = {}
    BY <2>1
  <2> QED
    BY <1>3, <1>4, <2>1, <2>2 DEF Growing
<1>5. CASE row[d].count = NumEps
  <2>1. {row[d].slots[i].ep : i \in 1..NumEps} = Eps
    BY <1>1, <1>5, RegistryAssumption DEF EpsInv, RowWhole
  <2>2. {Loaded(d).eps[i].ep : i \in 1..NumEps} = {row[d].slots[i].ep : i \in 1..NumEps}
    BY <1>3, <1>5
  <2> QED
    BY <1>3, <1>5, <2>1, <2>2 DEF Whole
<1> QED
  BY <1>2, <1>4, <1>5

LEMMA EpsCrash ==
  ASSUME BaseInv, EpsInv, Crash
  PROVE  EpsInv'
<1>1. TypeOK /\ DataTypes
  BY TypeParts DEF BaseInv
<1>2. PICK s \in Seq(Stored), b \in Seq(Objs) :
        /\ Restarted(s, b) /\ DOMAIN b = DOMAIN s
        /\ \A i, j \in DOMAIN b : b[i] = b[j] => i = j
  BY <1>1, CrashIs
<1>3. list' = b /\ \A i \in DOMAIN b : heap'[b[i]] = Loaded(s[i]) /\ s[i] \in Stored
  BY <1>1, <1>2, RestartedIs DEF Restarted
<1>4. \A i \in DOMAIN list' : Whole(heap'[list'[i]].eps) \/ Growing(heap'[list'[i]])
  BY <1>3, LoadedWhole
<1>5. row' = row /\ \A t \in Threads : pc'[t] = "idle"
  BY <1>1, CrashIs
<1> QED
  BY <1>4, <1>5, MsgIsThread DEF EpsInv, RowWhole

LEMMA EpsInit == Init => EpsInv
<1> SUFFICES ASSUME Init PROVE EpsInv
  OBVIOUS
<1>1. DOMAIN list = {} /\ \A d \in Devices : row[d] = NoRow
  BY DEF Init
<1>2. \A t \in MsgThreads : pc[t] = "idle"
  BY MsgIsThread DEF Init
<1> QED
  BY <1>1, <1>2 DEF EpsInv, RowWhole

LEMMA EpsNext ==
  ASSUME BaseInv, [Next]_vars, EpsInv, ~dangling', ~stray'
  PROVE  EpsInv'
<1>1. TypeOK
  BY DEF BaseInv
<1>2. CASE UNCHANGED vars
  BY <1>2 DEF vars, EpsInv, RowWhole
<1>3. CASE \E t \in MsgThreads :
            \/ MsgStep(t) \/ (\E d \in Devices : Annce(t, d))
            \/ (\E m \in Responses : Respond(t, m))
  <2>1. PICK t \in MsgThreads : MsgAct(t)
    BY <1>1, <1>3, MsgActs
  <2>2. dangling' = dangling
    BY <1>1, <2>1, CreateIs, SimpleDescIs DEF MsgAct, Quiet, Save
  <2> QED
    BY <2>1, <2>2, EpsMsg
<1>4. CASE DelMark \/ DelRow
  BY <1>4, EpsDelMark, EpsDelRow DEF DelMark, DelRow
<1>5. CASE DelFree
  BY <1>5, EpsDelFree DEF DelFree
<1>6. CASE SetArmInMemory
  BY <1>6, EpsSetArmInMemory DEF SetArmInMemory
<1>7. ASSUME NEW d \in Devices, Del(d) PROVE EpsInv'
  <2>1. UNCHANGED <<heap, list, row, dangling>> /\ Alone(Main)
    BY <1>7, BaseDel DEF Del
  <2>2. \A x \in Devices : RowWhole(x)'
    BY <2>1 DEF EpsInv, RowWhole
  <2> QED
    BY <2>1, <2>2, EpsSame
<1>8. ASSUME NEW d \in Devices, NEW e \in Eps, NEW a \in Armings, SetArm(d, e, a) PROVE EpsInv'
  BY <1>8, EpsSetArm DEF SetArm
<1>9. ASSUME NEW m \in Responses, Lose(m) PROVE EpsInv'
  BY <1>9 DEF Lose, EpsInv, RowWhole
<1>10. CASE Crash
  BY <1>10, EpsCrash
<1> QED
  BY <1>2, <1>3, <1>4, <1>5, <1>6, <1>7, <1>8, <1>9, <1>10 DEF Next, MainStep

HistoryKept == (stray => stray') /\ (dangling => dangling')

(* Once stray or dangling, always.                                         *)
LEMMA HistoryGrows ==
  ASSUME BaseInv, [Next]_vars
  PROVE  HistoryKept
<1>1. TypeOK
  BY DEF BaseInv
<1>2. UNCHANGED <<stray, dangling>> => HistoryKept
  BY DEF HistoryKept
<1>3. ASSUME NEW t \in MsgThreads, MsgAct(t) PROVE HistoryKept
  <2>1. CASE SimpleDesc(t)
    <3>1. /\ stray' = (stray \/ device_has_endpoint(arg[t].obj, arg[t].ep)
                             \/ Cursor(t) > heap[arg[t].obj].count)
          /\ dangling' = dangling
      BY <1>1, <2>1, SimpleDescIs
    <3> QED
      BY <3>1 DEF HistoryKept
  <2>2. CASE AnnceCreate(t)
    BY <1>1, <2>2, CreateIs DEF HistoryKept
  <2>3. CASE Quiet \/ Save(t)
    BY <2>3 DEF Quiet, Save, HistoryKept
  <2> QED
    BY <1>3, <2>1, <2>2, <2>3 DEF MsgAct
<1>4. CASE MainStep
  <2>1. CASE DelFree
    <3>1. /\ dangling' = (dangling \/ \E t \in MsgThreads : arg[t].obj = arg[Main].obj)
          /\ stray' = stray
      BY <2>1 DEF DelFree
    <3> QED
      BY <3>1, Zenon DEF HistoryKept
  <2>2. CASE DelMark \/ DelRow \/ SetArmInMemory
    BY <2>2 DEF DelMark, DelRow, SetArmInMemory, HistoryKept
  <2> QED
    BY <1>4, <2>1, <2>2 DEF MainStep
<1>5. CASE Crash
  BY <1>5 DEF Crash, HistoryKept
<1>6. ASSUME NEW d \in Devices, NEW e \in Eps, NEW a \in Armings, SetArm(d, e, a) PROVE HistoryKept
  BY <1>6 DEF SetArm, HistoryKept
<1>7. ASSUME NEW d \in Devices, Del(d) PROVE HistoryKept
  BY <1>7 DEF Del, HistoryKept
<1>8. ASSUME NEW m \in Responses, Lose(m) PROVE HistoryKept
  BY <1>8 DEF Lose, HistoryKept
<1>9. CASE UNCHANGED vars
  BY <1>9 DEF vars, HistoryKept
<1>10. CASE \E t \in MsgThreads :
             \/ MsgStep(t) \/ (\E d \in Devices : Annce(t, d))
             \/ (\E m \in Responses : Respond(t, m))
  <2>1. PICK t \in MsgThreads : MsgAct(t)
    BY <1>1, <1>10, MsgActs
  <2> QED
    BY <1>3, <2>1
<1> QED
  BY <1>4, <1>5, <1>6, <1>7, <1>8, <1>9, <1>10 DEF Next

(* What a restart would read is nothing or every endpoint.                 *)
StoreInv == BaseInv /\ (~dangling /\ ~stray => EpsInv)

LEMMA StoreNext == StoreInv /\ [Next]_vars => StoreInv'
BY BaseNext, EpsNext, HistoryGrows DEF StoreInv, HistoryKept

(* The device table never holds a part of a device's endpoints, whatever   *)
(* is deleted, lost, restarted, or fails between the steps of an interview *)
(* (the callbacks of appinit.c, sqlitedb_update_device_endpoint).          *)
THEOREM RegistryStoredWhole == Spec => []StoredWhole
<1>1. Init => StoreInv
  BY BaseInit, EpsInit DEF StoreInv
<1>2. StoreInv /\ [Next]_vars => StoreInv'
  BY StoreNext
<1>3. StoreInv => StoredWhole
  <2> SUFFICES ASSUME StoreInv, ~stray, ~dangling, NEW d \in Devices, row[d] # NoRow,
                      row[d].count > 0
               PROVE  {row[d].slots[i].ep : i \in 1..row[d].count} = Eps
    BY DEF StoredWhole
  <2>1. RowWhole(d) /\ row[d] \in Row
    BY DEF StoreInv, EpsInv, BaseInv, TypeOK
  <2>2. row[d].count = NumEps
    BY <2>1 DEF Row
  <2> QED
    BY <2>1, <2>2 DEF RowWhole
<1> QED
  BY <1>1, <1>2, <1>3, PTL DEF Spec

-----------------------------------------------------------------------------
(* Armings.  A device is settled when its row has, in the order of memory, *)
(* all of its endpoints, and no callback is about to save.                 *)

Settled(d, o) ==
  /\ First(d, o) /\ row[d] # NoRow /\ row[d].count = NumEps /\ Whole(heap[o].eps)
  /\ \A i \in 1..NumEps : heap[o].eps[i].ep = row[d].slots[i].ep
  /\ \A t \in MsgThreads : pc[t] = "save" => arg[t].obj # o
RowHas(d, e, a) == \A i \in 1..NumEps : row[d].slots[i].ep = e => row[d].slots[i].arm = a
MemHas(o, e, a) == \A i \in 1..NumEps : heap[o].eps[i].ep = e => heap[o].eps[i].arm = a

AckInv == \A d \in Devices, e \in Eps :
  acked[d][e] # Unset =>
    \E o \in Objs : Settled(d, o) /\ RowHas(d, e, acked[d][e]) /\ MemHas(o, e, acked[d][e])

(* While a device is deleted, and while an arming is between the database  *)
(* and memory, nothing is promised of it.                                  *)
MainArm ==
  /\ pc[Main] \in {"del_mark", "del_row", "del_free"} => \A e \in Eps : acked[arg[Main].dev][e] = Unset
  /\ pc[Main] = "set_arm" =>
       /\ acked[arg[Main].dev][arg[Main].ep] = Unset
       /\ arg[Main].over => /\ Settled(arg[Main].dev, arg[Main].obj)
                            /\ RowHas(arg[Main].dev, arg[Main].ep, arg[Main].arm)

ArmInv == AckInv /\ MainArm

(* What leaves row and memory of a settled device alone.                   *)
Same(d, o) == /\ Settled(d, o)' /\ row'[d].slots = row[d].slots
              /\ heap'[o].eps = heap[o].eps

LEMMA SettledStays ==
  ASSUME NEW d \in Devices, NEW o, Settled(d, o), FirstIn(list', heap', d, o), RowKept(d),
         heap'[o].eps = heap[o].eps,
         \A t \in MsgThreads : pc'[t] = "save" => arg'[t].obj # o
  PROVE  Same(d, o)
BY DEF Same, Settled, First, RowKept

LEMMA AckStays ==
  ASSUME AckInv,
         \A d \in Devices, e \in Eps : acked'[d][e] # Unset => acked[d][e] = acked'[d][e],
         \A d \in Devices, e \in Eps, o \in Objs :
           acked'[d][e] # Unset /\ Settled(d, o) => Same(d, o)
  PROVE  AckInv'
<1> SUFFICES ASSUME NEW d \in Devices, NEW e \in Eps, acked'[d][e] # Unset
             PROVE  \E o \in Objs : /\ Settled(d, o)' /\ RowHas(d, e, acked[d][e])'
                                    /\ MemHas(o, e, acked[d][e])'
  BY DEF AckInv
<1>1. PICK o \in Objs : /\ Settled(d, o) /\ RowHas(d, e, acked'[d][e])
                        /\ MemHas(o, e, acked'[d][e])
  BY DEF AckInv
<1>2. Same(d, o)
  BY <1>1
<1>3. RowHas(d, e, acked[d][e])' /\ MemHas(o, e, acked[d][e])'
  BY <1>1, <1>2 DEF Same, RowHas, MemHas
<1> QED
  BY <1>2, <1>3 DEF Same

LEMMA SettledIs ==
  ASSUME TypeOK, NEW d, NEW o, Settled(d, o)
  PROVE  /\ o \in Objs /\ InList(o) /\ heap[o].dev = d /\ heap[o].eps \in Seq(Endpoint)
         /\ DOMAIN heap[o].eps = 1..NumEps
<1>1. o \in Objs /\ InList(o) /\ heap[o].dev = d
  BY FirstInList DEF Settled, First, InList, TypeOK
<1>2. heap[o].eps \in Seq(Endpoint) /\ Len(heap[o].eps) = NumEps
  BY <1>1, DeviceOf DEF Settled, Whole
<1> QED
  BY <1>1, <1>2

LEMMA SettledMsg ==
  ASSUME BaseInv, EpsInv, ~dangling, NEW t \in MsgThreads, MsgAct(t), ~stray',
         NEW d \in Devices, NEW o, Settled(d, o)
  PROVE  Same(d, o)
<1>1. TypeOK /\ Persist /\ Good(t) /\ list \in Seq(Objs)
  BY MsgPersists DEF BaseInv, MsgAct, TypeOK
<1>2. o \in Objs /\ InList(o)
  BY <1>1, SettledIs
<1>3. FirstIn(list', heap', d, o)
  BY <1>1 DEF Settled, Persist, First
<1>4. SimpleDesc(t) => arg[t].obj # o
  BY DescGrows DEF Settled
<1>5. heap'[o].eps = heap[o].eps
  <2>1. CASE SimpleDesc(t)
    BY <1>1, <1>2, <1>4, <2>1, SimpleDescKeeps
  <2>2. CASE AnnceCreate(t)
    BY <1>1, <1>2, <2>2, CreateKeeps
  <2>3. CASE Quiet
    BY <1>2, <2>3 DEF Quiet, Calm
  <2>4. CASE Save(t)
    BY <2>4 DEF Save
  <2> QED
    BY <2>1, <2>2, <2>3, <2>4 DEF MsgAct
<1>6. RowKept(d)
  <2>1. CASE Save(t)
    <3>1. pc[t] = "save" /\ arg[t].obj # o
      BY <2>1 DEF Save, At, Settled
    <3>2. First(heap[arg[t].obj].dev, arg[t].obj)
      BY <3>1, SaveHolds DEF Interviewing
    <3>3. heap[arg[t].obj].dev # d
      BY <1>1, <3>1, <3>2, FirstOnce DEF Settled, First
    <3>4. row'[d] = row[d]
      BY <2>1, <3>3, SaveWrites
    <3> QED
      BY <3>4 DEF RowKept, Settled
  <2>2. CASE Quiet
    BY <2>2 DEF Quiet
  <2>3. CASE row' = row
    BY <2>3 DEF RowKept, Settled
  <2> QED
    BY <1>1, <2>1, <2>2, <2>3, SimpleDescIs, CreateIs DEF MsgAct
<1>7. ASSUME NEW u \in MsgThreads, pc'[u] = "save" PROVE arg'[u].obj # o
  <2>1. CASE u = t
    BY <1>1, <1>4, <1>7, <2>1 DEF Good
  <2>2. CASE u # t
    BY <1>1, <1>7, <2>2, MsgIsThread DEF Good, Alone, Settled
  <2> QED
    BY <2>1, <2>2
<1> QED
  BY <1>3, <1>5, <1>6, <1>7, SettledStays

LEMMA ArmMsg ==
  ASSUME BaseInv, EpsInv, ArmInv, ~dangling, NEW t \in MsgThreads, MsgAct(t), ~stray'
  PROVE  ArmInv'
<1>1. acked' = acked /\ pc'[Main] = pc[Main] /\ arg'[Main] = arg[Main]
  BY MsgIsThread DEF MsgAct, Good, Alone
<1>2. \A d \in Devices, o \in Objs : Settled(d, o) => Same(d, o)
  BY SettledMsg
<1>3. AckInv'
  BY <1>1, <1>2, AckStays DEF ArmInv
<1>4. ASSUME pc[Main] = "set_arm", arg[Main].over
      PROVE  Settled(arg[Main].dev, arg[Main].obj)' /\ RowHas(arg[Main].dev, arg[Main].ep, arg[Main].arm)'
  <2>1. arg[Main].dev \in Devices /\ arg[Main].obj \in Objs
    BY <1>4, HeldTypes, MsgIsThread DEF BaseInv
  <2>2. PICK d \in Devices, o \in Objs : d = arg[Main].dev /\ o = arg[Main].obj
    BY <2>1
  <2>3. Settled(d, o) /\ RowHas(d, arg[Main].ep, arg[Main].arm)
    BY <1>4, <2>2 DEF ArmInv, MainArm
  <2>4. Settled(d, o)' /\ row'[d].slots = row[d].slots
    BY <1>2, <2>3 DEF Same
  <2> QED
    BY <1>1, <2>2, <2>3, <2>4 DEF Settled, First, RowHas
<1>5. MainArm'
  BY <1>1, <1>4 DEF ArmInv, MainArm
<1> QED
  BY <1>3, <1>5 DEF ArmInv

LEMMA ArmLose ==
  ASSUME ArmInv, UNCHANGED <<heap, list, row, pc, arg, acked>>
  PROVE  ArmInv'
BY DEF ArmInv, AckInv, MainArm, Settled, First, RowHas, MemHas

(* A deletion: nothing is promised of the device from its start.           *)
LEMMA MainStays ==
  ASSUME TypeOK, UNCHANGED <<heap, list>>, Alone(Main), NEW d \in Devices, NEW o, Settled(d, o),
         row'[d] = row[d]
  PROVE  Same(d, o)
<1>1. FirstIn(list', heap', d, o) /\ RowKept(d)
  BY DEF Settled, First, RowKept
<1>2. \A t \in MsgThreads : pc'[t] = "save" => arg'[t].obj # o
  BY MsgIsThread DEF Alone, Settled
<1> QED
  BY <1>1, <1>2, SettledStays

LEMMA ArmDel ==
  ASSUME BaseInv, ArmInv, NEW d \in Devices, Del(d)
  PROVE  ArmInv'
<1>1. /\ TypeOK /\ UNCHANGED <<heap, list, row>> /\ Alone(Main) /\ pc'[Main] = "del_mark"
      /\ arg'[Main].dev = d /\ acked' = [acked EXCEPT ![d] = [e \in Eps |-> Unset]]
      /\ acked \in [Devices -> [Eps -> Armings \cup {Unset}]]
  BY BaseDel DEF Del, BaseInv, TypeOK
<1>2. acked'[d] = [e \in Eps |-> Unset] /\ \A x \in Devices : x # d => acked'[x] = acked[x]
  BY <1>1
<1>3. \A x \in Devices, e \in Eps : acked'[x][e] # Unset => acked[x][e] = acked'[x][e]
  BY <1>2
<1>4. AckInv'
  BY <1>1, <1>3, MainStays, AckStays DEF ArmInv
<1>5. MainArm'
  BY <1>1, <1>2 DEF MainArm
<1> QED
  BY <1>4, <1>5 DEF ArmInv

LEMMA ArmDelMark ==
  ASSUME BaseInv, EpsInv, ArmInv, ~dangling, DelMark
  PROVE  ArmInv'
<1>1. /\ TypeOK /\ UNCHANGED <<heap, list, acked, arg>> /\ Alone(Main)
      /\ pc[Main] = "del_mark" /\ pc'[Main] = "del_row"
      /\ \A d \in Devices : RowKept(d)
  BY BaseDelMark, EpsDelMark DEF DelMark, BaseInv
<1>2. \A e \in Eps : acked[arg[Main].dev][e] = Unset
  BY <1>1 DEF ArmInv, MainArm
<1>3. ASSUME NEW d \in Devices, NEW o, Settled(d, o) PROVE Same(d, o)
  <2>1. FirstIn(list', heap', d, o)
    BY <1>1, <1>3 DEF Settled, First
  <2>2. \A t \in MsgThreads : pc'[t] = "save" => arg'[t].obj # o
    BY <1>1, <1>3, MsgIsThread DEF Alone, Settled
  <2> QED
    BY <1>1, <1>3, <2>1, <2>2, SettledStays
<1>4. AckInv'
  BY <1>1, <1>3, AckStays DEF ArmInv
<1>5. MainArm'
  BY <1>1, <1>2 DEF MainArm
<1> QED
  BY <1>4, <1>5 DEF ArmInv

LEMMA ArmDelRow ==
  ASSUME BaseInv, EpsInv, ArmInv, ~dangling, DelRow
  PROVE  ArmInv'
<1>1. /\ TypeOK /\ UNCHANGED <<heap, list, acked, arg>> /\ Alone(Main)
      /\ pc[Main] = "del_row" /\ pc'[Main] = "del_free"
      /\ \A d \in Devices : d # arg[Main].dev => row'[d] = row[d]
  BY BaseDelRow, EpsDelRow DEF DelRow, BaseInv
<1>2. \A e \in Eps : acked[arg[Main].dev][e] = Unset
  BY <1>1 DEF ArmInv, MainArm
<1>3. \A d \in Devices, e \in Eps, o \in Objs :
        acked'[d][e] # Unset /\ Settled(d, o) => Same(d, o)
  BY <1>1, <1>2, MainStays
<1>4. AckInv'
  BY <1>1, <1>3, AckStays DEF ArmInv
<1>5. MainArm'
  BY <1>1, <1>2 DEF MainArm
<1> QED
  BY <1>4, <1>5 DEF ArmInv

LEMMA ArmDelFree ==
  ASSUME BaseInv, ArmInv, DelFree
  PROVE  ArmInv'
<1>1. /\ TypeOK /\ UNCHANGED <<heap, row, acked>> /\ Alone(Main)
      /\ pc[Main] = "del_free" /\ pc'[Main] = "idle"
      /\ \A d, o : First(d, o) /\ o # arg[Main].obj => FirstIn(list', heap', d, o)
  BY BaseDelFree, FreeKeeps DEF BaseInv
<1>2. \A e \in Eps : acked[arg[Main].dev][e] = Unset
  BY <1>1 DEF ArmInv, MainArm
<1>3. heap[arg[Main].obj].dev = arg[Main].dev
  <2>1. First(arg[Main].dev, arg[Main].obj) /\ list \in Seq(Objs)
    BY <1>1 DEF BaseInv, ThreadInv, MainInv, TypeOK
  <2> QED
    BY <2>1, FirstInList DEF First
<1>4. ASSUME NEW d \in Devices, NEW e \in Eps, NEW o \in Objs, acked'[d][e] # Unset, Settled(d, o)
      PROVE  Same(d, o)
  <2>1. heap[o].dev = d /\ First(d, o)
    BY <1>1, <1>4, SettledIs DEF Settled
  <2>2. d # arg[Main].dev
    BY <1>1, <1>2, <1>4
  <2>3. FirstIn(list', heap', d, o)
    BY <1>1, <1>3, <2>1, <2>2
  <2>4. RowKept(d) /\ heap'[o].eps = heap[o].eps
    BY <1>1, <1>4 DEF RowKept, Settled
  <2>5. \A t \in MsgThreads : pc'[t] = "save" => arg'[t].obj # o
    BY <1>1, <1>4, MsgIsThread DEF Alone, Settled
  <2> QED
    BY <1>4, <2>3, <2>4, <2>5, SettledStays
<1>5. AckInv'
  BY <1>1, <1>4, AckStays DEF ArmInv
<1>6. MainArm'
  BY <1>1 DEF MainArm
<1> QED
  BY <1>5, <1>6 DEF ArmInv

(* The row that is armed keeps its numbers.                                *)
LEMMA ArmedRowSettled ==
  ASSUME BaseInv, NEW d \in Devices, NEW o, Settled(d, o), UNCHANGED <<heap, list>>, Alone(Main),
         NEW i \in 1..Slots, NEW a \in Armings, row'[d] = ArmRow(d, i, a)
  PROVE  /\ Settled(d, o)' /\ row'[d] # NoRow
         /\ \A j \in 1..NumEps : /\ row'[d].slots[j].ep = row[d].slots[j].ep
                                 /\ row'[d].slots[j].arm = IF j = i THEN a ELSE row[d].slots[j].arm
<1>1. DataTypes /\ row[d] # NoRow
  BY TypeParts DEF BaseInv, Settled
<1>2. /\ row'[d] \in Row /\ row'[d].count = row[d].count
      /\ \A j \in 1..Slots : /\ row'[d].slots[j].ep = row[d].slots[j].ep
                             /\ row'[d].slots[j].arm = IF j = i THEN a ELSE row[d].slots[j].arm
  BY <1>1, ArmRowType
<1>3. row'[d] # NoRow /\ 1..NumEps \subseteq 1..Slots
  BY <1>2, NoRowAssumption, RegistryAssumption
<1>4. \A t \in MsgThreads : pc'[t] = "save" => arg'[t].obj # o
  BY MsgIsThread DEF Alone, Settled
<1> HIDE DEF ArmRow
<1>5. Settled(d, o)'
  BY <1>2, <1>3, <1>4 DEF Settled, First
<1> QED
  BY <1>2, <1>3, <1>5

LEMMA OverSettled ==
  ASSUME BaseInv, EpsInv, NEW d \in Devices, NEW o, First(d, o), InterviewOver(o)
  PROVE  Settled(d, o)
<1>1. o \in Objs /\ heap[o].dev = d /\ InList(o) /\ TypeOK
  BY FirstInList DEF First, InList, BaseInv, TypeOK
<1>2. /\ row[d] # NoRow /\ row[d].count > 0 /\ Len(heap[o].eps) >= row[d].count
      /\ \A i \in 1..row[d].count : heap[o].eps[i].ep = row[d].slots[i].ep
      /\ \A t \in MsgThreads : pc[t] = "save" => arg[t].obj # o
  BY <1>1 DEF InterviewOver, At
<1>3. row[d].count = NumEps
  <2>1. row[d] \in Row
    BY <1>1, <1>2 DEF TypeOK
  <2> QED
    BY <1>2, <2>1 DEF Row
<1>4. {row[d].slots[i].ep : i \in 1..NumEps} = Eps
  BY <1>2 DEF EpsInv, RowWhole
<1>5. {heap[o].eps[i].ep : i \in 1..NumEps} = Eps
  <2>1. {heap[o].eps[i].ep : i \in 1..NumEps} = {row[d].slots[i].ep : i \in 1..NumEps}
    BY <1>2, <1>3
  <2> QED
    BY <1>4, <2>1
<1>6. Len(heap[o].eps) = NumEps
  <2>1. Whole(heap[o].eps) \/ Growing(heap[o])
    BY <1>1 DEF EpsInv, InList
  <2>2. heap[o].eps \in Seq(Endpoint) /\ heap[o].count \in {0, NumEps}
    BY <1>1, DeviceOf
  <2> QED
    BY <1>2, <1>3, <2>1, <2>2, RegistryAssumption DEF Whole, Growing
<1> QED
  BY <1>2, <1>3, <1>5, <1>6 DEF Settled, Whole

LEMMA ArmSetArm ==
  ASSUME BaseInv, EpsInv, ArmInv, NEW d \in Devices, NEW e \in Eps, NEW a \in Armings,
         SetArm(d, e, a)
  PROVE  ArmInv'
<1>1. TypeOK /\ DataTypes /\ ThreadTypes /\ acked \in [Devices -> [Eps -> Armings \cup {Unset}]]
  BY TypeParts DEF BaseInv, DataTypes
<1>2. PICK o \in Objs : o = gateway_getdevice(d)
  BY <1>1, SetArmIs
<1>3. PICK i : i = device_get_index(o, e)
  OBVIOUS
<1>4. PICK over \in BOOLEAN : over = InterviewOver(o)
  BY DEF InterviewOver
<1>5. /\ device_has_endpoint(o, e) /\ UNCHANGED <<heap, list>> /\ First(d, o) /\ Alone(Main)
      /\ \/ /\ row[d] # NoRow /\ i \in 1..Slots
            /\ row' = [row EXCEPT ![d] = ArmRow(d, i, a)]
            /\ acked' = [acked EXCEPT ![d] = [acked[d] EXCEPT ![e] = Unset]]
            /\ Call(Main, "set_arm", [dev |-> d, obj |-> o, ep |-> e, arm |-> a, over |-> over])
         \/ UNCHANGED <<row, acked, pc, arg>>
  BY <1>1, <1>2, <1>3, <1>4, SetArmIs, BaseSetArm
<1>6. CASE UNCHANGED <<row, acked, pc, arg>>
  BY <1>5, <1>6, ArmLose
<1>7. CASE /\ row[d] # NoRow /\ i \in 1..Slots
           /\ row' = [row EXCEPT ![d] = ArmRow(d, i, a)]
           /\ acked' = [acked EXCEPT ![d] = [acked[d] EXCEPT ![e] = Unset]]
           /\ Call(Main, "set_arm", [dev |-> d, obj |-> o, ep |-> e, arm |-> a, over |-> over])
  <2>1. row'[d] = ArmRow(d, i, a) /\ \A x \in Devices : x # d => row'[x] = row[x]
    BY <1>1, <1>7 DEF DataTypes
  <2>2. /\ acked'[d][e] = Unset
        /\ \A x \in Devices, y \in Eps : ~(x = d /\ y = e) => acked'[x][y] = acked[x][y]
    BY <1>1, <1>7
  <2>3. /\ pc'[Main] = "set_arm" /\ arg'[Main].dev = d /\ arg'[Main].obj = o
        /\ arg'[Main].ep = e /\ arg'[Main].arm = a /\ arg'[Main].over = over
    BY <1>1, <1>7, MsgIsThread DEF Call, Goto, ThreadTypes
  <2>4. i \in DOMAIN heap[o].eps /\ heap[o].eps[i].ep = e
    BY <1>1, <1>3, <1>5, HasIndex
  <2>5. ASSUME Settled(d, o)
        PROVE  /\ Settled(d, o)' /\ row[d].slots[i].ep = e /\ i \in 1..NumEps
               /\ \A j \in 1..NumEps :
                    /\ row'[d].slots[j].ep = row[d].slots[j].ep
                    /\ row'[d].slots[j].arm = IF j = i THEN a ELSE row[d].slots[j].arm
    <3>1. i \in 1..NumEps
      BY <1>1, <2>4, <2>5, SettledIs
    <3>2. row[d].slots[i].ep = e
      BY <2>4, <2>5, <3>1 DEF Settled
    <3> QED
      BY <1>5, <1>7, <2>1, <2>5, <3>1, <3>2, ArmedRowSettled
  <2>6. AckInv'
    <3>1. SUFFICES ASSUME NEW x \in Devices, NEW y \in Eps, acked'[x][y] # Unset
                   PROVE  \E p \in Objs : /\ Settled(x, p)' /\ RowHas(x, y, acked[x][y])'
                                          /\ MemHas(p, y, acked[x][y])'
      BY DEF AckInv
    <3>2. acked'[x][y] = acked[x][y] /\ ~(x = d /\ y = e)
      BY <2>2, <3>1
    <3>3. PICK p \in Objs : Settled(x, p) /\ RowHas(x, y, acked[x][y]) /\ MemHas(p, y, acked[x][y])
      BY <3>1, <3>2 DEF ArmInv, AckInv
    <3>4. CASE x # d
      <4>1. Same(x, p)
        BY <1>1, <1>5, <2>1, <3>3, <3>4, MainStays
      <4> QED
        BY <3>2, <3>3, <4>1 DEF Same, RowHas, MemHas
    <3>5. CASE x = d
      <4>1. p = o /\ y # e
        <5>1. FirstIn(list, heap, d, p) /\ FirstIn(list, heap, d, o) /\ list \in Seq(Objs)
          BY <1>1, <1>5, <3>3, <3>5 DEF Settled, First, DataTypes
        <5> QED
          BY <3>2, <3>5, <5>1, FirstOnce
      <4>2. Settled(d, o)' /\ MemHas(o, y, acked[d][y])'
        BY <1>5, <2>5, <3>2, <3>3, <3>5, <4>1 DEF MemHas
      <4>3. RowHas(d, y, acked[d][y])'
        BY <2>5, <3>2, <3>3, <3>5, <4>1 DEF RowHas
      <4> QED
        BY <3>5, <4>2, <4>3
    <3> QED
      BY <3>4, <3>5
  <2>7. over => Settled(d, o)
    BY <1>4, <1>5, OverSettled
  <2>8. over => Settled(d, o)' /\ \A j \in 1..NumEps :
                  row'[d].slots[j].ep = e => row'[d].slots[j].arm = a
    <3> SUFFICES ASSUME over, NEW j \in 1..NumEps
                 PROVE  Settled(d, o)' /\ (row'[d].slots[j].ep = e => row'[d].slots[j].arm = a)
      BY RegistryAssumption
    <3>1. heap[o].eps[j].ep = row[d].slots[j].ep /\ Whole(heap[o].eps) /\ heap[o].eps \in Seq(Endpoint)
      BY <1>1, <2>7, SettledIs DEF Settled
    <3>2. row[d].slots[j].ep = e => j = i
      BY <2>4, <2>5, <2>7, <3>1, WholeOnce
    <3> QED
      BY <2>5, <2>7, <3>2
  <2>9. MainArm'
    BY <2>2, <2>3, <2>8 DEF MainArm, RowHas, Settled, First
  <2> QED
    BY <2>6, <2>9 DEF ArmInv
<1> QED
  BY <1>5, <1>6, <1>7

LEMMA ArmedSettled ==
  ASSUME BaseInv, SetArmInMemory, NEW d, NEW o, Settled(d, o)
  PROVE  Settled(d, o)'
<1>1. TypeOK /\ ThreadTypes /\ list \in Seq(Objs)
  BY TypeParts DEF BaseInv, TypeOK
<1>2. o \in Objs /\ heap[o].eps \in Seq(Endpoint) /\ DOMAIN heap[o].eps = 1..NumEps
  BY <1>1, SettledIs
<1>3. /\ list' = list /\ Len(heap'[o].eps) = Len(heap[o].eps)
      /\ \A i \in 1..NumEps : heap'[o].eps[i].ep = heap[o].eps[i].ep
  BY <1>2, ArmedIs
<1>4. Whole(heap'[o].eps)
  BY <1>2, <1>3, WholeSame DEF Settled
<1>5. First(d, o)'
  <2>1. ListKept
    <3>1. \A p \in Objs : heap'[p].dev = heap[p].dev
      BY ArmedIs
    <3> QED
      BY <1>3, <3>1, ArmedIs DEF ListKept, Kept
  <2> QED
    BY <1>1, <2>1, KeptFirst, TypeParts DEF Settled
<1>6. row' = row /\ Alone(Main)
  BY <1>1, SetArmInMemoryIs, MainReturns
<1>7. \A t \in MsgThreads : pc'[t] = "save" => arg'[t].obj # o
  BY <1>6, MsgIsThread DEF Alone, Settled
<1> QED
  BY <1>3, <1>4, <1>5, <1>6, <1>7 DEF Settled

LEMMA ArmSetArmInMemory ==
  ASSUME BaseInv, ArmInv, SetArmInMemory
  PROVE  ArmInv'
<1>1. TypeOK /\ ThreadTypes /\ list \in Seq(Objs) /\ acked \in [Devices -> [Eps -> Armings \cup {Unset}]]
  BY TypeParts DEF BaseInv, TypeOK
<1>2. pc[Main] = "set_arm" /\ row' = row /\ Return(Main)
  BY <1>1, SetArmInMemoryIs
<1>3. /\ arg[Main].obj \in Objs /\ arg[Main].dev \in Devices /\ arg[Main].ep \in Eps
      /\ arg[Main].arm \in Armings /\ First(arg[Main].dev, arg[Main].obj)
  BY <1>1, <1>2, HeldTypes, MsgIsThread DEF BaseInv, ThreadInv, MainInv
<1>4. PICK d \in Devices, o \in Objs, e \in Eps, a \in Armings :
        d = arg[Main].dev /\ o = arg[Main].obj /\ e = arg[Main].ep /\ a = arg[Main].arm
  BY <1>3
<1>5. PICK k : k = device_get_index(o, e)
  OBVIOUS
<1>6. /\ heap'[o].eps = ArmAt(heap[o].eps, k, a) /\ \A p \in Objs : p # o => heap'[p] = heap[p]
      /\ k \in DOMAIN heap[o].eps /\ heap[o].eps[k].ep = e /\ heap[o].eps \in Seq(Endpoint)
  BY <1>1, <1>4, <1>5, ArmedIs, DeviceOf
<1>7. \A i \in DOMAIN heap[o].eps : /\ heap'[o].eps[i].ep = heap[o].eps[i].ep
                                   /\ heap'[o].eps[i].arm = IF i = k THEN a ELSE heap[o].eps[i].arm
  BY <1>6, ArmAtIs
<1>8. pc'[Main] = "idle"
  BY <1>1, <1>2, MainReturns
<1>9. /\ acked[d][e] = Unset
      /\ arg[Main].over => Settled(d, o) /\ RowHas(d, e, a)
  BY <1>2, <1>4 DEF ArmInv, MainArm
<1>10. \/ arg[Main].over /\ acked' = [acked EXCEPT ![d] = [acked[d] EXCEPT ![e] = a]]
       \/ ~arg[Main].over /\ acked' = acked
  BY <1>1, <1>4, SetArmInMemoryIs
<1>11. \A x \in Devices, y \in Eps :
         \/ acked'[x][y] = acked[x][y] /\ ((x = d /\ y = e) => acked'[x][y] = Unset)
         \/ x = d /\ y = e /\ arg[Main].over /\ acked'[d][e] = a
  BY <1>1, <1>9, <1>10
<1>12. AckInv'
  <2>1. SUFFICES ASSUME NEW x \in Devices, NEW y \in Eps, acked'[x][y] # Unset
                 PROVE  \E p \in Objs : /\ Settled(x, p)' /\ RowHas(x, y, acked[x][y])'
                                        /\ MemHas(p, y, acked[x][y])'
    BY DEF AckInv
  <2>2. CASE acked'[x][y] = acked[x][y] /\ ~(x = d /\ y = e)
    <3>1. PICK p \in Objs : Settled(x, p) /\ RowHas(x, y, acked[x][y]) /\ MemHas(p, y, acked[x][y])
      BY <2>1, <2>2 DEF ArmInv, AckInv
    <3>2. Settled(x, p)' /\ RowHas(x, y, acked[x][y])'
      BY <1>2, <2>2, <3>1, ArmedSettled DEF RowHas
    <3>3. MemHas(p, y, acked[x][y])'
      <4>1. CASE p # o
        BY <1>6, <2>2, <3>1, <4>1 DEF MemHas
      <4>2. CASE p = o
        <5>1. y # e
          <6>1. heap[p].dev = x /\ heap[o].dev = d
            BY <1>1, <1>3, <1>4, <3>1, SettledIs, FirstInList DEF First
          <6> QED
            BY <2>2, <4>2, <6>1
        <5>2. DOMAIN heap[o].eps = 1..NumEps
          BY <1>1, <3>1, <4>2, SettledIs
        <5>3. ASSUME NEW j \in 1..NumEps, heap'[o].eps[j].ep = y
              PROVE  heap'[o].eps[j].arm = acked'[x][y]
          <6>1. j # k /\ heap[o].eps[j].ep = y
            BY <1>6, <1>7, <5>1, <5>2, <5>3
          <6> QED
            BY <1>7, <2>2, <3>1, <4>2, <5>2, <6>1 DEF MemHas
        <5> QED
          BY <4>2, <5>3 DEF MemHas
      <4> QED
        BY <4>1, <4>2
    <3> QED
      BY <3>2, <3>3
  <2>3. CASE x = d /\ y = e /\ arg[Main].over /\ acked'[d][e] = a
    <3>1. Settled(d, o) /\ RowHas(d, e, a)
      BY <1>9, <2>3
    <3>2. Settled(d, o)' /\ RowHas(d, e, acked[d][e])'
      BY <1>2, <2>3, <3>1, ArmedSettled DEF RowHas
    <3>3. DOMAIN heap[o].eps = 1..NumEps /\ Whole(heap[o].eps)
      BY <1>1, <3>1, SettledIs DEF Settled
    <3>4. ASSUME NEW j \in 1..NumEps, heap'[o].eps[j].ep = e PROVE heap'[o].eps[j].arm = a
      <4>1. heap[o].eps[j].ep = e
        BY <1>7, <3>3, <3>4
      <4>2. j = k
        BY <1>6, <3>3, <4>1, WholeOnce
      <4> QED
        BY <1>7, <3>3, <4>2
    <3>5. MemHas(o, e, acked[d][e])'
      BY <2>3, <3>4 DEF MemHas
    <3> QED
      BY <2>3, <3>2, <3>5
  <2> QED
    BY <1>11, <2>1, <2>2, <2>3
<1>13. MainArm'
  BY <1>8 DEF MainArm
<1> QED
  BY <1>12, <1>13 DEF ArmInv

(* A restart brings a settled device back as its row has it.               *)
LEMMA ArmCrash ==
  ASSUME BaseInv, EpsInv, ArmInv, Crash
  PROVE  ArmInv'
<1>1. TypeOK /\ DataTypes
  BY TypeParts DEF BaseInv
<1>2. PICK s \in Seq(Stored), b \in Seq(Objs) :
        /\ Restarted(s, b) /\ DOMAIN b = DOMAIN s
        /\ \A i, j \in DOMAIN b : b[i] = b[j] => i = j
        /\ \A i, j \in DOMAIN s : s[i] = s[j] => i = j
        /\ \A d \in Stored : \E i \in DOMAIN s : s[i] = d
  BY <1>1, CrashIs
<1>3. list' = b /\ \A i \in DOMAIN b : heap'[b[i]] = Loaded(s[i]) /\ s[i] \in Stored
  BY <1>1, <1>2, RestartedIs DEF Restarted
<1>4. row' = row /\ acked' = acked /\ \A t \in Threads : pc'[t] = "idle"
  BY <1>1, CrashIs
<1>5. AckInv'
  <2>1. SUFFICES ASSUME NEW d \in Devices, NEW e \in Eps, acked'[d][e] # Unset
                 PROVE  \E p \in Objs : /\ Settled(d, p)' /\ RowHas(d, e, acked[d][e])'
                                        /\ MemHas(p, e, acked[d][e])'
    BY DEF AckInv
  <2>2. PICK o \in Objs : Settled(d, o) /\ RowHas(d, e, acked[d][e])
    BY <1>4, <2>1 DEF ArmInv, AckInv
  <2>3. d \in Stored /\ row[d] # NoRow /\ row[d].count = NumEps
    BY <2>2 DEF Settled, Stored
  <2>4. PICK i \in DOMAIN b : s[i] = d
    BY <1>2, <2>3
  <2> DEFINE p == b[i]
  <2>5. p \in Objs /\ heap'[p] = Loaded(d)
    BY <1>3, <2>4
  <2>6. Whole(Loaded(d).eps)
    BY <2>3, LoadedWhole, RegistryAssumption
  <2>7. /\ Loaded(d).dev = d
        /\ \A j \in 1..NumEps : Loaded(d).eps[j] = row[d].slots[j]
    BY <1>1, <2>3, LoadedIs
  <2>8. FirstIn(list', heap', d, p)
    <3>1. \A j \in DOMAIN b : j < i => heap'[b[j]].dev # d
      <4> SUFFICES ASSUME NEW j \in DOMAIN b, j < i PROVE heap'[b[j]].dev # d
        OBVIOUS
      <4>1. s[j] # d
        BY <1>2, <2>4
      <4>2. Loaded(s[j]).dev = s[j]
        BY <1>1, <1>3, LoadedIs
      <4> QED
        BY <1>3, <4>1, <4>2
    <3> QED
      BY <1>3, <2>4, <2>5, <2>7, <3>1 DEF FirstIn
  <2> HIDE DEF p
  <2>9. Settled(d, p)'
    BY <1>4, <2>3, <2>5, <2>6, <2>7, <2>8, MsgIsThread DEF Settled, First
  <2>10. RowHas(d, e, acked[d][e])'
    BY <1>4, <2>2 DEF RowHas
  <2>11. MemHas(p, e, acked[d][e])'
    BY <1>4, <2>2, <2>5, <2>7 DEF RowHas, MemHas
  <2> QED
    BY <2>5, <2>9, <2>10, <2>11
<1>6. MainArm'
  BY <1>4, MsgIsThread DEF MainArm
<1> QED
  BY <1>5, <1>6 DEF ArmInv

LEMMA ArmInit == Init => ArmInv
<1> SUFFICES ASSUME Init PROVE ArmInv
  OBVIOUS
<1>1. \A d \in Devices, e \in Eps : acked[d][e] = Unset
  BY DEF Init
<1>2. pc[Main] = "idle"
  BY MsgIsThread DEF Init
<1> QED
  BY <1>1, <1>2 DEF ArmInv, AckInv, MainArm

LEMMA ArmNext ==
  ASSUME BaseInv, [Next]_vars, EpsInv, ArmInv, ~dangling, ~stray'
  PROVE  ArmInv'
<1>1. TypeOK
  BY DEF BaseInv
<1>2. CASE UNCHANGED vars
  BY <1>2, ArmLose DEF vars
<1>3. CASE \E t \in MsgThreads :
            \/ MsgStep(t) \/ (\E d \in Devices : Annce(t, d))
            \/ (\E m \in Responses : Respond(t, m))
  <2>1. PICK t \in MsgThreads : MsgAct(t)
    BY <1>1, <1>3, MsgActs
  <2> QED
    BY <2>1, ArmMsg
<1>4. CASE MainStep
  BY <1>4, ArmDelMark, ArmDelRow, ArmDelFree, ArmSetArmInMemory DEF MainStep
<1>5. ASSUME NEW d \in Devices, Del(d) PROVE ArmInv'
  BY <1>5, ArmDel
<1>6. ASSUME NEW d \in Devices, NEW e \in Eps, NEW a \in Armings, SetArm(d, e, a) PROVE ArmInv'
  BY <1>6, ArmSetArm
<1>7. ASSUME NEW m \in Responses, Lose(m) PROVE ArmInv'
  BY <1>7, ArmLose DEF Lose
<1>8. CASE Crash
  BY <1>8, ArmCrash
<1> QED
  BY <1>2, <1>3, <1>4, <1>5, <1>6, <1>7, <1>8 DEF Next

(* The inductive invariant.                                                *)
IInv == BaseInv /\ (~dangling /\ ~stray => EpsInv /\ ArmInv)

LEMMA InvNext == IInv /\ [Next]_vars => IInv'
BY BaseNext, EpsNext, ArmNext, HistoryGrows DEF IInv, HistoryKept

(* An arming that was confirmed to the app is the one the device's row     *)
(* holds and the one in memory, until the next arming or the deletion of   *)
(* the device, over interviews, restarts and statements that fail          *)
(* (DEVICE_SETARM of event.c, sqlitedb_update_device_arm).                 *)
THEOREM RegistryArmKept == Spec => []ArmKept
<1>1. Init => IInv
  BY BaseInit, EpsInit, ArmInit DEF IInv
<1>2. IInv /\ [Next]_vars => IInv'
  BY InvNext
<1>3. IInv => ArmKept
  <2>1. SUFFICES ASSUME IInv, ~stray, ~dangling, NEW d \in Devices, NEW e \in Eps, acked[d][e] # Unset
                 PROVE  LET kept == [ep |-> e, arm |-> acked[d][e]]
                            o == gateway_getdevice(d)
                        IN  /\ row[d] # NoRow /\ \E i \in 1..row[d].count : row[d].slots[i] = kept
                            /\ o # NoObj /\ heap[o].eps[device_get_index(o, e)] = kept
    BY DEF ArmKept
  <2>2. TypeOK /\ list \in Seq(Objs) /\ DataTypes
    BY <2>1, TypeParts DEF IInv, BaseInv, TypeOK
  <2>3. PICK o \in Objs : /\ Settled(d, o) /\ RowHas(d, e, acked[d][e])
                          /\ MemHas(o, e, acked[d][e])
    BY <2>1 DEF IInv, ArmInv, AckInv
  <2>4. gateway_getdevice(d) = o /\ o # NoObj
    BY <2>2, <2>3, GetDeviceIs, LookupFirst, RegistryAssumption DEF Settled, First
  <2>5. heap[o].eps \in Seq(Endpoint) /\ DOMAIN heap[o].eps = 1..NumEps /\ Whole(heap[o].eps)
    BY <2>2, <2>3, SettledIs DEF Settled
  <2>6. device_has_endpoint(o, e)
    BY <2>5, WholeHas DEF device_has_endpoint
  <2>7. PICK k \in 1..NumEps : k = device_get_index(o, e) /\ heap[o].eps[k].ep = e
    BY <2>2, <2>5, <2>6, HasIndex
  <2>8. heap[o].eps[k] = [ep |-> e, arm |-> acked[d][e]]
    <3>1. heap[o].eps[k] \in Endpoint /\ heap[o].eps[k].arm = acked[d][e]
      <4>1. heap[o].eps[k].arm = acked[d][e]
        BY <2>3, <2>7 DEF MemHas
      <4>2. heap[o].eps[k] \in Endpoint
        <5>1. k \in 1..Len(heap[o].eps)
          BY <2>5, <2>7 DEF Whole
        <5> QED
          BY <2>5, <5>1, ElementOfSeq
      <4> QED
        BY <4>1, <4>2
    <3> QED
      BY <2>7, <3>1 DEF Endpoint
  <2>9. row[d] # NoRow /\ row[d].count = NumEps /\ row[d].slots[k] = [ep |-> e, arm |-> acked[d][e]]
    <3>1. row[d] # NoRow /\ row[d].count = NumEps /\ row[d].slots[k].ep = e
      BY <2>3, <2>7 DEF Settled
    <3>2. row[d].slots[k].arm = acked[d][e]
      BY <2>3, <3>1 DEF RowHas
    <3>3. row[d].slots[k] \in Endpoint
      <4>1. row[d] \in Row /\ k \in 1..Slots
        BY <2>2, <3>1, RegistryAssumption DEF TypeOK
      <4> QED
        BY <4>1 DEF Row
    <3> QED
      BY <3>1, <3>2, <3>3 DEF Endpoint
  <2> QED
    BY <2>4, <2>7, <2>8, <2>9
<1> QED
  BY <1>1, <1>2, <1>3, PTL DEF Spec

=============================================================================
