------------------------- MODULE ConnectionsProofs -------------------------
(***************************************************************************)
(* Proofs about Connections, for any set of descriptors, any number of     *)
(* phones, ends, silences and failed attempts, and with or without         *)
(* overlapping accesses to the table.                                      *)
(***************************************************************************)
EXTENDS Connections, FiniteSetTheorems, TLAPS

(* Types; a thread at work on a connection has one.                        *)
Bringing == rpc \in {"connect", "insert", "link", "register"}
Deleting == mpc \in {"hupDel", "timeoutDel"}

ConnType ==
  /\ TypeOK
  /\ mpc \in TreeSteps \cup ListSteps \cup {"eofClose"} => mfd \in Fds
  /\ mpc \in Unlinks \cup {"timeoutDel"} => mtype \in Types
  /\ Bringing => rfd \in Fds

(* The table, as long as no race is lost: tree and list agree but for what *)
(* is halfway, which is where the program counters say; there is at most   *)
(* one connection to the server, and none from the reconn thread's look    *)
(* until it has inserted the next.                                         *)
Agree ==
  \A fd \in Fds, type \in Types :
    (tree[fd] = type <=> <<fd, type>> \in list) \/ Halfway(<<fd, type>>)

Steps ==
  /\ rpc \in {"socket", "connect", "insert"} => AnyServers = {}
  /\ rpc = "link" =>
       tree[rfd] = CONNSOCKETSERVER /\ <<rfd, CONNSOCKETSERVER>> \notin list
  /\ mpc = "acceptLink" =>
       tree[mfd] = CONNSOCKETCLIENT /\ <<mfd, CONNSOCKETCLIENT>> \notin list
  /\ mpc = "timeoutDel" => tree[mfd] = mtype /\ <<mfd, mtype>> \in list
  /\ mpc \in Unlinks => tree[mfd] # mtype /\ <<mfd, mtype>> \in list

Unique == \A f, g \in AnyServers \cup Brought : f = g

TableInv == ~torn => Agree /\ Unique /\ (~crashed => Steps)

(* Only a socket with a peer hangs up, the reconn thread's not before it   *)
(* is connected, and what that thread leaks is no longer in its hands.     *)
KernelInv ==
  /\ \A fd \in Fds : cond[fd] = "hup" => sock[fd] \in {"phone", "server"}
  /\ rpc = "connect" /\ sock[rfd] = "server" => cond[rfd] # "hup"
  /\ Bringing => sock[rfd] # "leaked"

(* What the two properties say, once nothing has gone astray.              *)
Polled(fd) == fd \in epoll => tree[fd] # NoConn \/ MainHolds(fd)
Kept(fd) ==
  sock[fd] # "closed" =>
    \/ tree[fd] # NoConn
    \/ sock[fd] = "server" /\ fd = rfd /\ rpc \in {"connect", "insert"}
    \/ MainHolds(fd)
    \/ sock[fd] = "leaked"
Owners == \A fd \in Fds : Polled(fd) /\ Kept(fd)

(* Between the close of a descriptor and the deletion of its entry: the    *)
(* entry is there, or the reconn thread is about to make it; if the        *)
(* descriptor has been given out again, the reconn thread holds it, or     *)
(* forgot it, and has not registered it.                                   *)
DeleteInv ==
  Deleting =>
    /\ mfd \notin epoll
    /\ tree[mfd] # NoConn \/ (rpc = "insert" /\ rfd = mfd /\ sock[mfd] = "closed")
    /\ sock[mfd] # "closed" =>
         \/ sock[mfd] = "server" /\ mfd = rfd /\ rpc \in {"connect", "insert"}
         \/ sock[mfd] = "leaked"

OwnInv == ~Astray => Owners /\ (~crashed => DeleteInv)

Inv == ConnType /\ TableInv /\ KernelInv /\ OwnInv

-----------------------------------------------------------------------------
(* Types *)

LEMMA ChangeTreeType ==
  ASSUME ConnType, NEW fd \in Fds, NEW type \in Types \cup {NoConn},
         ChangeTree(fd, type) \/ Insert(fd, type)
  PROVE  /\ tree' \in [Fds -> Types \cup {NoConn}]
         /\ torn' \in BOOLEAN /\ crashed' \in BOOLEAN
<1>1. CASE UNCHANGED tree /\ crashed' = TRUE /\ UNCHANGED torn
  BY <1>1 DEF ConnType, TypeOK
<1>2. CASE ChangeTree(fd, type)
  <2>1. tree' \in [Fds -> Types \cup {NoConn}]
    BY <1>2 DEF ChangeTree, ConnType, TypeOK
  <2>2. torn' \in BOOLEAN /\ crashed' \in BOOLEAN
    BY <1>2 DEF ChangeTree, ConnType, TypeOK
  <2> QED
    BY <2>1, <2>2
<1> QED
  BY <1>1, <1>2 DEF Insert

LEMMA ChangeListType ==
  ASSUME ConnType, NEW changed \in SUBSET Entries, ChangeList(changed)
  PROVE  list' \subseteq Entries /\ torn' \in BOOLEAN /\ crashed' \in BOOLEAN
  BY DEF ChangeList, wreck, ConnType, TypeOK

LEMMA ConnTypeMain ==
  ASSUME ConnType, Main
  PROVE  ConnType'
<1> USE DEF ConnType, TypeOK, Bringing, MainAt, MainDone, TreeSteps, ListSteps, Unlinks,
        kernel, signals, main, reconn, wreck
<1>1. CASE EpollWait
  BY <1>1 DEF EpollWait, Ready
<1>2. CASE SocketErrorDel
  <2>1. mfd \in Fds /\ mpc = "hupDel" /\ NoConn \in Types \cup {NoConn}
    BY <1>2 DEF SocketErrorDel
  <2>2. CASE tree[mfd] # NoConn /\ ChangeTree(mfd, NoConn)
             /\ mpc' = "hupUnlink" /\ mtype' = tree[mfd] /\ UNCHANGED mfd
    <3>1. tree' \in [Fds -> Types \cup {NoConn}] /\ torn' \in BOOLEAN /\ crashed' \in BOOLEAN
      BY <2>1, <2>2, ChangeTreeType
    <3>2. mtype' \in Types
      BY <2>1, <2>2
    <3> QED
      BY <1>2, <2>1, <2>2, <3>1, <3>2 DEF SocketErrorDel
  <2>3. CASE NotFound(mfd) /\ MainDone("dispatch") /\ UNCHANGED <<tree, crashed>>
    BY <1>2, <2>1, <2>3 DEF SocketErrorDel, NotFound
  <2> QED
    BY <1>2, <2>2, <2>3 DEF SocketErrorDel
<1>3. CASE SocketEnd
  <2>1. mfd \in Fds /\ mpc = "eofDel" /\ NoConn \in Types \cup {NoConn}
    BY <1>3 DEF SocketEnd
  <2>2. CASE tree[mfd] # NoConn /\ ChangeTree(mfd, NoConn)
             /\ mpc' = "eofUnlink" /\ mtype' = tree[mfd]
    <3>1. tree' \in [Fds -> Types \cup {NoConn}] /\ torn' \in BOOLEAN /\ crashed' \in BOOLEAN
      BY <2>1, <2>2, ChangeTreeType
    <3>2. mtype' \in Types
      BY <2>1, <2>2
    <3> QED
      BY <1>3, <2>1, <2>2, <3>1, <3>2 DEF SocketEnd
  <2>3. CASE NotFound(mfd) /\ mpc' = "eofClose" /\ UNCHANGED <<mtype, tree, crashed>>
    BY <1>3, <2>1, <2>3 DEF SocketEnd, NotFound
  <2> QED
    BY <1>3, <2>2, <2>3 DEF SocketEnd
<1>4. CASE SocketEndClose
  BY <1>4 DEF SocketEndClose, Close
<1>5. CASE Unlink
  <2>1. list' \subseteq Entries /\ torn' \in BOOLEAN /\ crashed' \in BOOLEAN
    BY <1>5, ChangeListType DEF Unlink
  <2> QED
    BY <1>5, <2>1 DEF Unlink
<1>6. CASE Listen
  BY <1>6 DEF Listen
<1>7. CASE Accept
  <2>1. CASE pending > 0 /\ Closed # {}
    <3>1. PICK fd \in Fds : Open(fd, "phone") /\ mfd' = fd
      BY <1>7, <2>1 DEF Accept
    <3>2. pending' = pending - 1 /\ pending' \in 0..MaxPending
      BY <1>7, <2>1, ConnAssumption DEF Accept
    <3>3. sock' = [sock EXCEPT ![fd] = "phone"] /\ mpc' = "acceptInsert"
      BY <1>7, <2>1, <3>1 DEF Accept, Open
    <3> QED
      BY <1>7, <3>1, <3>2, <3>3 DEF Accept
  <2>2. CASE ~(pending > 0 /\ Closed # {})
    BY <1>7, <2>2 DEF Accept
  <2> QED
    BY <2>1, <2>2
<1>8. CASE AcceptInsert
  <2>1. mfd \in Fds /\ CONNSOCKETCLIENT \in Types \cup {NoConn}
    BY <1>8 DEF AcceptInsert, Types
  <2>2. tree' \in [Fds -> Types \cup {NoConn}] /\ torn' \in BOOLEAN /\ crashed' \in BOOLEAN
    BY <1>8, <2>1, ChangeTreeType DEF AcceptInsert
  <2> QED
    BY <1>8, <2>1, <2>2 DEF AcceptInsert, Register
<1>9. CASE AcceptLink
  <2>1. <<mfd, CONNSOCKETCLIENT>> \in Entries
    BY <1>9 DEF AcceptLink, Types, Entries
  <2>2. list' \subseteq Entries /\ torn' \in BOOLEAN /\ crashed' \in BOOLEAN
    BY <1>9, <2>1, ChangeListType DEF AcceptLink, Link
  <2> QED
    BY <1>9, <2>2 DEF AcceptLink, Link
<1>10. CASE Check
  BY <1>10 DEF Check
<1>11. CASE Timeout
  BY <1>11 DEF Timeout, Close, Entries
<1>12. CASE TimeoutDel
  <2>1. mfd \in Fds /\ NoConn \in Types \cup {NoConn}
    BY <1>12 DEF TimeoutDel
  <2>2. tree' \in [Fds -> Types \cup {NoConn}] /\ torn' \in BOOLEAN /\ crashed' \in BOOLEAN
    BY <1>12, <2>1, ChangeTreeType DEF TimeoutDel
  <2> QED
    BY <1>12, <2>1, <2>2 DEF TimeoutDel
<1>13. CASE Login
  <2>1. login' \subseteq Fds
    BY <1>13 DEF Login, ListedServers
  <2>2. batch' \subseteq batch /\ send' = FALSE
    BY <1>13 DEF Login
  <2> QED
    BY <1>13, <2>1, <2>2 DEF Login
<1>14. ASSUME NEW fd \in Fds, SocketError(fd) PROVE ConnType'
  BY <1>14 DEF SocketError, Close
<1>15. ASSUME NEW fd \in Fds, SocketRead(fd) PROVE ConnType'
  <2>1. cond' = cond \/ cond' = [cond EXCEPT ![fd] = "quiet"]
    BY <1>15 DEF SocketRead
  <2>2. silent' \subseteq silent /\ batch' \subseteq batch /\ torn' \in BOOLEAN
    BY <1>15 DEF SocketRead, NotFound
  <2>3. UNCHANGED <<mpc, mfd>> \/ (mpc' = "eofDel" /\ mfd' = fd)
    BY <1>15 DEF SocketRead
  <2> QED
    BY <1>15, <2>1, <2>2, <2>3 DEF SocketRead
<1> QED
  BY <1>1, <1>2, <1>3, <1>4, <1>5, <1>6, <1>7, <1>8, <1>9, <1>10, <1>11, <1>12,
     <1>13, <1>14, <1>15 DEF Main

LEMMA ConnTypeReconn ==
  ASSUME ConnType, Reconn
  PROVE  ConnType'
<1> USE DEF ConnType, TypeOK, Bringing, ReconnAt, ReconnDone, kernel, signals, main,
        reconn, wreck
<1>1. CASE ReconnRead
  BY <1>1 DEF ReconnRead
<1>2. CASE ReconnCheck
  <2>1. rpc' \in {"read", "socket", "hung"} /\ torn' \in BOOLEAN
    BY <1>2 DEF ReconnCheck
  <2> QED
    BY <1>2, <2>1 DEF ReconnCheck
<1>3. CASE ReconnSocket
  BY <1>3 DEF ReconnSocket, Open
<1>4. CASE ReconnNoName
  BY <1>4 DEF ReconnNoName
<1>5. CASE ReconnConnect
  BY <1>5 DEF ReconnConnect
<1>6. CASE ReconnRefused
  BY <1>6 DEF ReconnRefused, Close
<1>7. CASE ReconnInsert
  <2>1. rfd \in Fds /\ CONNSOCKETSERVER \in Types \cup {NoConn}
    BY <1>7 DEF ReconnInsert, Types
  <2>2. tree' \in [Fds -> Types \cup {NoConn}] /\ torn' \in BOOLEAN /\ crashed' \in BOOLEAN
    BY <1>7, <2>1, ChangeTreeType DEF ReconnInsert
  <2> QED
    BY <1>7, <2>1, <2>2 DEF ReconnInsert
<1>8. CASE ReconnLink
  <2>1. <<rfd, CONNSOCKETSERVER>> \in Entries
    BY <1>8 DEF ReconnLink, Types, Entries
  <2>2. list' \subseteq Entries /\ torn' \in BOOLEAN /\ crashed' \in BOOLEAN
    BY <1>8, <2>1, ChangeListType DEF ReconnLink, Link
  <2> QED
    BY <1>8, <2>2 DEF ReconnLink, Link
<1>9. CASE ReconnRegister
  BY <1>9 DEF ReconnRegister, Register
<1>10. CASE ReconnSend
  BY <1>10 DEF ReconnSend
<1> QED
  BY <1>1, <1>2, <1>3, <1>4, <1>5, <1>6, <1>7, <1>8, <1>9, <1>10 DEF Reconn

LEMMA ConnTypeEnvironment ==
  ASSUME ConnType, Environment
  PROVE  ConnType'
<1> USE DEF ConnType, TypeOK, Bringing, kernel, signals, main, reconn, wreck
<1>1. CASE Tick
  BY <1>1 DEF Tick
<1>2. CASE Phone
  BY <1>2, ConnAssumption DEF Phone
<1>3. ASSUME NEW fd \in Fds, Data(fd) PROVE ConnType'
  BY <1>3 DEF Data
<1>4. ASSUME NEW fd \in Fds, End(fd) PROVE ConnType'
  BY <1>4, ConnAssumption DEF End
<1>5. ASSUME NEW fd \in Fds, Silence(fd) \/ DeadSilence(fd) PROVE ConnType'
  BY <1>5 DEF Silence, DeadSilence, FallsSilent
<1> QED
  BY <1>1, <1>2, <1>3, <1>4, <1>5 DEF Environment

LEMMA ConnTypeStutter ==
  ASSUME ConnType, UNCHANGED vars
  PROVE  ConnType'
  BY DEF ConnType, TypeOK, Bringing, vars, kernel, signals, main, reconn, wreck

LEMMA ConnTypeInit == Init => ConnType
<1> SUFFICES ASSUME Init PROVE ConnType
  OBVIOUS
<1>1. /\ sock \in [Fds -> {"closed", "phone", "server", "leaked"}]
      /\ cond \in [Fds -> {"quiet", "data", "eof", "hup"}]
      /\ tree \in [Fds -> Types \cup {NoConn}]
  BY DEF Init
<1>2. batch = {} /\ epoll = {} /\ silent = {} /\ login = {} /\ list = {}
  BY DEF Init
<1>3. /\ mpc = "dispatch" /\ rpc = "read" /\ mfd = 0 /\ rfd = 0 /\ mtype = NoConn
      /\ pending \in 0..MaxPending
      /\ check = FALSE /\ send = FALSE /\ tick = FALSE
      /\ crashed = FALSE /\ torn = FALSE /\ stale = FALSE
  BY ConnAssumption DEF Init
<1> QED
  BY <1>1, <1>2, <1>3 DEF ConnType, TypeOK, Bringing, TreeSteps, ListSteps, Unlinks

(* Every variable keeps its type; sockets get descriptors of Fds.          *)
THEOREM ConnectionsTypeOK == Spec => []TypeOK
<1>1. ConnType /\ [Next]_vars => ConnType'
  BY ConnTypeMain, ConnTypeReconn, ConnTypeEnvironment, ConnTypeStutter DEF Next
<1>2. ConnType => TypeOK
  BY DEF ConnType
<1> QED
  BY ConnTypeInit, <1>1, <1>2, PTL DEF Spec

-----------------------------------------------------------------------------
(* Tree and list *)

(* Steps of the main thread that leave both alone.                         *)
LEMMA MainAside ==
  ASSUME TableInv, UNCHANGED <<tree, list, crashed, reconn>>, (torn => torn'),
         mpc \notin ListSteps, mpc' \notin ListSteps \cup {"timeoutDel"}
  PROVE  TableInv'
<1> SUFFICES ASSUME ~torn' PROVE TableInv'
  BY DEF TableInv
<1>1. ~torn /\ Agree /\ Unique
  BY DEF TableInv
<1>2. AnyServers' = AnyServers /\ Brought' = Brought
  BY DEF AnyServers, ListedServers, Brought, reconn
<1>3. Agree'
  BY <1>1 DEF Agree, Halfway, ListSteps, reconn
<1>4. ~crashed' => Steps'
  BY <1>1, <1>2 DEF TableInv, Steps, ListSteps, reconn
<1> QED
  BY <1>1, <1>2, <1>3, <1>4 DEF TableInv, Unique

(* The first step of a deletion, when no race is lost.                     *)
LEMMA MainErases ==
  ASSUME ConnType, TableInv, ~crashed, mpc \notin ListSteps, mfd \in Fds,
         tree[mfd] # NoConn, ChangeTree(mfd, NoConn),
         mpc' \in Unlinks, mfd' = mfd, mtype' = tree[mfd], UNCHANGED <<list, reconn>>
  PROVE  TableInv'
<1> SUFFICES ASSUME ~torn' PROVE TableInv'
  BY DEF TableInv
<1>1. /\ tree' = [tree EXCEPT ![mfd] = NoConn] /\ ~torn /\ ~(rpc = "link" /\ mfd = rfd)
      /\ UNCHANGED crashed
  BY DEF ChangeTree
<1>2. Agree /\ Unique /\ Steps
  BY <1>1 DEF TableInv
<1>3. tree'[mfd] = NoConn /\ \A f \in Fds \ {mfd} : tree'[f] = tree[f]
  BY <1>1 DEF ConnType, TypeOK
<1>4. mtype' \in Types /\ NoConn \notin Types
  BY ConnAssumption DEF ConnType, TypeOK, Types
<1>5. mpc \notin Unlinks /\ mpc # "acceptLink" /\ mpc' # "acceptLink" /\ mpc' # "timeoutDel"
  BY DEF ListSteps, Unlinks
<1>6. \A t \in Types : Halfway(<<mfd, t>>) <=> FALSE
  BY <1>1, <1>5 DEF Halfway
<1>7. Agree'
  <2> SUFFICES ASSUME NEW f \in Fds, NEW t \in Types
               PROVE  (tree'[f] = t <=> <<f, t>> \in list) \/ Halfway(<<f, t>>)'
    BY DEF Agree
  <2>1. CASE f = mfd
    BY <1>2, <1>3, <1>4, <1>6, <2>1 DEF Agree, Halfway
  <2>2. CASE f # mfd
    <3>1. Halfway(<<f, t>>) => Halfway(<<f, t>>)'
      BY <1>5 DEF Halfway, reconn
    <3> QED
      BY <1>2, <1>3, <2>2, <3>1 DEF Agree
  <2> QED
    BY <2>1, <2>2
<1>8. AnyServers' \subseteq AnyServers /\ Brought' = Brought
  BY <1>3, <1>4 DEF AnyServers, ListedServers, Brought, Types, reconn
<1>9. Steps'
  <2>1. tree'[mfd] # mtype' /\ <<mfd, mtype'>> \in list
    BY <1>2, <1>3, <1>4, <1>6 DEF Agree
  <2>2. rpc = "link" => rfd \in Fds \ {mfd}
    BY <1>1 DEF ConnType, Bringing
  <2> QED
    BY <1>2, <1>3, <1>5, <1>8, <2>1, <2>2 DEF Steps, reconn
<1> QED
  BY <1>2, <1>7, <1>8, <1>9 DEF TableInv, Unique

LEMMA TableDelete ==
  ASSUME ConnType, TableInv, SocketErrorDel \/ SocketEnd \/ TimeoutDel
  PROVE  TableInv'
<1> USE DEF MainAt, MainDone, ListSteps, Unlinks, TreeSteps, kernel, reconn
<1>1. CASE SocketErrorDel
  <2>1. mpc = "hupDel" /\ mfd \in Fds /\ ~crashed
    BY <1>1 DEF SocketErrorDel, ConnType
  <2>2. CASE tree[mfd] # NoConn /\ ChangeTree(mfd, NoConn)
             /\ mpc' = "hupUnlink" /\ mtype' = tree[mfd] /\ UNCHANGED mfd
    BY <1>1, <2>1, <2>2, MainErases DEF SocketErrorDel
  <2>3. CASE NotFound(mfd) /\ MainDone("dispatch") /\ UNCHANGED <<tree, crashed>>
    BY <1>1, <2>1, <2>3, MainAside DEF SocketErrorDel, NotFound
  <2> QED
    BY <1>1, <2>2, <2>3 DEF SocketErrorDel
<1>2. CASE SocketEnd
  <2>1. mpc = "eofDel" /\ mfd \in Fds /\ ~crashed
    BY <1>2 DEF SocketEnd, ConnType
  <2>2. CASE tree[mfd] # NoConn /\ ChangeTree(mfd, NoConn)
             /\ mpc' = "eofUnlink" /\ mtype' = tree[mfd]
    BY <1>2, <2>1, <2>2, MainErases DEF SocketEnd
  <2>3. CASE NotFound(mfd) /\ mpc' = "eofClose" /\ UNCHANGED <<mtype, tree, crashed>>
    BY <1>2, <2>1, <2>3, MainAside DEF SocketEnd, NotFound
  <2> QED
    BY <1>2, <2>2, <2>3 DEF SocketEnd
<1>3. CASE TimeoutDel
  <2>1. mpc = "timeoutDel" /\ mfd \in Fds /\ mtype \in Types /\ ~crashed
    BY <1>3 DEF TimeoutDel, ConnType
  <2>2. CASE tree[mfd] = mtype
    <3>1. tree[mfd] # NoConn
      BY <2>1, <2>2, ConnAssumption DEF Types
    <3> QED
      BY <1>3, <2>1, <2>2, <3>1, MainErases DEF TimeoutDel
  <2>3. CASE tree[mfd] # mtype
    BY <1>3, <2>3 DEF TimeoutDel, TableInv
  <2> QED
    BY <2>2, <2>3
<1> QED
  BY <1>1, <1>2, <1>3

LEMMA TableUnlink ==
  ASSUME ConnType, TableInv, Unlink
  PROVE  TableInv'
<1> SUFFICES ASSUME ~torn' PROVE TableInv'
  BY DEF TableInv
<1>1. /\ list' = list \ {<<mfd, mtype>>} /\ ~torn /\ ~crashed
      /\ UNCHANGED <<crashed, tree, reconn>>
      /\ mpc \in Unlinks /\ mpc' \in {"dispatch", "eofClose", "timeouts"}
  BY DEF Unlink, ChangeList, wreck, MainAt, MainDone, kernel
<1>2. Agree /\ Unique /\ Steps
  BY <1>1 DEF TableInv
<1>3. mfd \in Fds /\ mtype \in Types /\ tree[mfd] # mtype
  BY <1>1, <1>2 DEF ConnType, Steps, ListSteps
<1>4. Agree'
  BY <1>1, <1>2, <1>3 DEF Agree, Halfway, reconn, Unlinks
<1>5. AnyServers' \subseteq AnyServers /\ Brought' = Brought
  BY <1>1 DEF AnyServers, ListedServers, Brought, reconn
<1>6. Steps'
  BY <1>1, <1>2, <1>5 DEF Steps, reconn, Unlinks
<1> QED
  BY <1>2, <1>4, <1>5, <1>6 DEF TableInv, Unique

LEMMA TableAccept ==
  ASSUME ConnType, TableInv, AcceptInsert \/ AcceptLink
  PROVE  TableInv'
<1> SUFFICES ASSUME ~torn' PROVE TableInv'
  BY DEF TableInv
<1>1. CASE AcceptInsert
  <2>1. /\ mpc = "acceptInsert" /\ mfd \in Fds /\ ~crashed /\ mpc' = "acceptLink"
        /\ UNCHANGED <<list, mfd, reconn>>
    BY <1>1 DEF AcceptInsert, MainAt, ConnType, TreeSteps
  <2>2. CASE tree[mfd] # NoConn
    <3>1. crashed' = TRUE /\ UNCHANGED <<tree, torn>>
      BY <1>1, <2>2 DEF AcceptInsert, Insert
    <3>2. Agree /\ Unique /\ mpc \notin Unlinks
      BY <2>1, <3>1 DEF TableInv, Unlinks
    <3>3. Agree'
      BY <2>1, <3>1, <3>2 DEF Agree, Halfway, reconn
    <3>4. Unique'
      BY <2>1, <3>1, <3>2 DEF Unique, AnyServers, ListedServers, Brought, reconn
    <3> QED
      BY <3>1, <3>3, <3>4 DEF TableInv
  <2>3. CASE tree[mfd] = NoConn
    <3>1. /\ tree' = [tree EXCEPT ![mfd] = CONNSOCKETCLIENT] /\ ~torn
          /\ ~(rpc = "link" /\ mfd = rfd) /\ UNCHANGED crashed
      BY <1>1, <2>3 DEF AcceptInsert, Insert, ChangeTree
    <3>2. Agree /\ Unique /\ Steps /\ mpc \notin Unlinks
      BY <2>1, <3>1 DEF TableInv, Unlinks
    <3>3. /\ tree'[mfd] = CONNSOCKETCLIENT /\ \A f \in Fds \ {mfd} : tree'[f] = tree[f]
          /\ CONNSOCKETCLIENT # CONNSOCKETSERVER
      BY <2>1, <3>1, ConnAssumption DEF ConnType, TypeOK
    <3>4. \A t \in Types : <<mfd, t>> \notin list
      BY <2>1, <2>3, <3>1, <3>2, ConnAssumption DEF Agree, Halfway, Unlinks, Types
    <3>5. Agree'
      <4> SUFFICES ASSUME NEW f \in Fds, NEW t \in Types
                   PROVE  (tree'[f] = t <=> <<f, t>> \in list) \/ Halfway(<<f, t>>)'
        BY <2>1 DEF Agree
      <4>1. CASE f = mfd
        BY <2>1, <3>3, <3>4, <4>1 DEF Halfway
      <4>2. CASE f # mfd
        <5>1. Halfway(<<f, t>>) => Halfway(<<f, t>>)'
          BY <2>1, <3>2, <4>2 DEF Halfway, reconn
        <5> QED
          BY <3>2, <3>3, <4>2, <5>1 DEF Agree
      <4> QED
        BY <4>1, <4>2
    <3>6. AnyServers' \subseteq AnyServers /\ Brought' = Brought
      BY <2>1, <3>3 DEF AnyServers, ListedServers, Brought, reconn
    <3>7. Steps'
      <4>1. rpc = "link" => rfd \in Fds \ {mfd}
        BY <3>1 DEF ConnType, Bringing
      <4>2. CONNSOCKETCLIENT \in Types
        BY DEF Types
      <4> QED
        BY <2>1, <3>2, <3>3, <3>4, <3>6, <4>1, <4>2 DEF Steps, reconn, Unlinks
    <3> QED
      BY <3>2, <3>5, <3>6, <3>7 DEF TableInv, Unique
  <2> QED
    BY <2>2, <2>3
<1>2. CASE AcceptLink
  <2>1. /\ mpc = "acceptLink" /\ mfd \in Fds /\ ~crashed /\ mpc' = "accept"
        /\ UNCHANGED <<tree, reconn, crashed>> /\ ~torn
        /\ list' = list \cup {<<mfd, CONNSOCKETCLIENT>>}
    BY <1>2 DEF AcceptLink, Link, ChangeList, wreck, MainAt, MainDone, ConnType, ListSteps
  <2>2. Agree /\ Unique /\ Steps /\ mpc \notin Unlinks
    BY <2>1 DEF TableInv, Unlinks
  <2>3. tree[mfd] = CONNSOCKETCLIENT /\ CONNSOCKETCLIENT # CONNSOCKETSERVER
    BY <2>1, <2>2, ConnAssumption DEF Steps
  <2>4. Agree'
    BY <2>1, <2>2, <2>3 DEF Agree, Halfway, reconn
  <2>5. AnyServers' = AnyServers /\ Brought' = Brought
    BY <2>1, <2>3 DEF AnyServers, ListedServers, Brought, reconn
  <2>6. Steps'
    BY <2>1, <2>2, <2>3, <2>5 DEF Steps, reconn, Unlinks
  <2> QED
    BY <2>2, <2>4, <2>5, <2>6 DEF TableInv, Unique
<1> QED
  BY <1>1, <1>2

LEMMA TableMain ==
  ASSUME ConnType, TableInv, Main
  PROVE  TableInv'
<1>1. CASE EpollWait \/ SocketEndClose \/ Listen \/ Accept \/ Check \/ Login
  BY <1>1, MainAside DEF EpollWait, SocketEndClose, Listen, Accept, Check, Login, MainAt,
     MainDone, ListSteps, Unlinks, wreck
<1>2. ASSUME NEW fd \in Fds, SocketError(fd) \/ SocketRead(fd) PROVE TableInv'
  <2>1. /\ UNCHANGED <<tree, list, crashed, reconn>> /\ (torn => torn')
        /\ mpc = "dispatch" /\ mpc' \in {"dispatch", "hupDel", "eofDel"}
    BY <1>2 DEF SocketError, SocketRead, NotFound, MainAt, wreck
  <2> QED
    BY <2>1, MainAside DEF ListSteps, Unlinks
<1>3. CASE Timeout
  <2>1. mpc = "timeouts" /\ ~crashed /\ UNCHANGED <<tree, list, crashed, torn, reconn>>
    BY <1>3 DEF Timeout, MainAt, wreck
  <2>2. CASE mpc' = "dispatch"
    BY <2>1, <2>2, MainAside DEF ListSteps, Unlinks
  <2>3. ASSUME NEW entry \in list, mpc' = "timeoutDel", mfd' = entry[1], mtype' = entry[2],
               ~torn
        PROVE  TableInv'
    <3>1. /\ Agree /\ Unique /\ Steps /\ mpc \notin Unlinks /\ mpc # "acceptLink"
          /\ mpc' \notin Unlinks /\ mpc' # "acceptLink"
      BY <2>1, <2>3 DEF TableInv, Unlinks
    <3>2. entry[1] \in Fds /\ entry[2] \in Types /\ entry = <<entry[1], entry[2]>>
      BY DEF ConnType, TypeOK, Entries
    <3>3. tree[entry[1]] = entry[2]
      BY <3>1, <3>2 DEF Agree, Halfway, Steps
    <3>4. Agree' /\ Unique'
      BY <2>1, <2>3, <3>1
         DEF Agree, Unique, Halfway, AnyServers, ListedServers, Brought, reconn
    <3>5. Steps'
      BY <2>1, <2>3, <3>1, <3>2, <3>3 DEF Steps, AnyServers, ListedServers, reconn
    <3> QED
      BY <3>4, <3>5 DEF TableInv
  <2> QED
    BY <1>3, <2>1, <2>2, <2>3 DEF Timeout, TableInv
<1> QED
  BY <1>1, <1>2, <1>3, TableDelete, TableUnlink, TableAccept DEF Main

(* Steps of the reconn thread that leave both alone.                       *)
LEMMA ReconnAside ==
  ASSUME TableInv, UNCHANGED <<tree, list, crashed, main>>, (torn => torn'),
         rpc # "link", rpc' # "link",
         ~torn' /\ rpc' \in {"socket", "connect", "insert"} => AnyServers = {}
  PROVE  TableInv'
<1> SUFFICES ASSUME ~torn' PROVE TableInv'
  BY DEF TableInv
<1>1. ~torn /\ Agree /\ Unique
  BY DEF TableInv
<1>2. AnyServers' = AnyServers
  BY DEF AnyServers, ListedServers
<1>3. Agree'
  BY <1>1 DEF Agree, Halfway, main
<1>4. Unique'
  BY <1>1, <1>2 DEF Unique, Brought
<1>5. ~crashed' => Steps'
  BY <1>1, <1>2 DEF TableInv, Steps, main
<1> QED
  BY <1>3, <1>4, <1>5 DEF TableInv

(* With none on the list there is none in the tree: what the main thread   *)
(* has begun to delete is on the list still.                               *)
LEMMA LookIsRight ==
  ASSUME ConnType, Agree, Steps, rpc # "link", ListedServers = {}
  PROVE  AnyServers = {}
<1> SUFFICES ASSUME NEW fd \in Fds, tree[fd] = CONNSOCKETSERVER PROVE FALSE
  BY DEF AnyServers
<1>1. <<fd, CONNSOCKETSERVER>> \notin list /\ CONNSOCKETSERVER \in Types
  BY DEF ListedServers, Types
<1>2. Halfway(<<fd, CONNSOCKETSERVER>>)
  BY <1>1 DEF Agree
<1>3. mpc \in Unlinks /\ <<fd, CONNSOCKETSERVER>> = <<mfd, mtype>>
  BY <1>2, ConnAssumption DEF Halfway
<1> QED
  BY <1>1, <1>3 DEF Steps

LEMMA TableReconn ==
  ASSUME ConnType, TableInv, Reconn
  PROVE  TableInv'
<1> USE DEF ReconnAt, ReconnDone, kernel
<1>1. CASE ReconnRead \/ ReconnNoName \/ ReconnRefused \/ ReconnRegister \/ ReconnSend
  BY <1>1, ReconnAside DEF ReconnRead, ReconnNoName, ReconnRefused, ReconnRegister,
     ReconnSend, wreck
<1>2. CASE ReconnCheck
  <2>1. rpc = "check" /\ ~crashed /\ rpc' \in {"read", "socket", "hung"}
        /\ UNCHANGED <<tree, list, crashed, main>> /\ (torn => torn')
    BY <1>2 DEF ReconnCheck
  <2>2. ~torn' /\ rpc' = "socket" => ~torn /\ ListedServers = {}
    BY <1>2 DEF ReconnCheck
  <2>3. ~torn' /\ rpc' = "socket" => AnyServers = {}
    BY <2>1, <2>2, LookIsRight DEF TableInv
  <2> QED
    BY <2>1, <2>3, ReconnAside
<1>3. CASE ReconnSocket \/ ReconnConnect
  <2>1. rpc \in {"socket", "connect"} /\ ~crashed /\ rpc' \in {"read", "connect", "insert"}
        /\ UNCHANGED <<tree, list, crashed, torn, main>>
    BY <1>3 DEF ReconnSocket, ReconnConnect, wreck
  <2>2. ~torn => AnyServers = {}
    BY <2>1 DEF TableInv, Steps
  <2> QED
    BY <2>1, <2>2, ReconnAside
<1>4. ASSUME ReconnInsert, ~torn' PROVE TableInv'
  <2>1. /\ rpc = "insert" /\ rfd \in Fds /\ ~crashed /\ rpc' = "link"
        /\ UNCHANGED <<list, main, rfd>>
    BY <1>4 DEF ReconnInsert, ConnType, Bringing
  <2>2. CASE tree[rfd] # NoConn
    <3>1. crashed' = TRUE /\ UNCHANGED <<tree, torn>>
      BY <1>4, <2>2 DEF ReconnInsert, Insert
    <3>2. Agree /\ Unique
      BY <1>4, <3>1 DEF TableInv
    <3>3. Agree' /\ Unique'
      BY <2>1, <3>1, <3>2
         DEF Agree, Unique, Halfway, AnyServers, ListedServers, Brought, main
    <3> QED
      BY <3>1, <3>3 DEF TableInv
  <2>3. CASE tree[rfd] = NoConn
    <3>1. /\ tree' = [tree EXCEPT ![rfd] = CONNSOCKETSERVER] /\ ~torn /\ UNCHANGED crashed
      BY <1>4, <2>1, <2>3 DEF ReconnInsert, Insert, ChangeTree
    <3>2. Agree /\ Steps /\ AnyServers = {}
      BY <2>1, <3>1 DEF TableInv, Steps
    <3>3. /\ tree'[rfd] = CONNSOCKETSERVER /\ \A f \in Fds \ {rfd} : tree'[f] = tree[f]
          /\ CONNSOCKETCLIENT # CONNSOCKETSERVER /\ NoConn \notin Types
      BY <2>1, <3>1, ConnAssumption DEF ConnType, TypeOK, Types
    <3>4. \A f \in Fds : <<f, CONNSOCKETSERVER>> \notin list
      BY <3>2 DEF AnyServers, ListedServers
    <3>5. mpc = "acceptLink" => mfd \in Fds \ {rfd}
      BY <2>3, <3>2, ConnAssumption DEF Steps, ConnType, ListSteps
    <3>6. Agree'
      <4> SUFFICES ASSUME NEW f \in Fds, NEW t \in Types
                   PROVE  (tree'[f] = t <=> <<f, t>> \in list) \/ Halfway(<<f, t>>)'
        BY <2>1 DEF Agree
      <4>1. CASE f = rfd /\ t = CONNSOCKETSERVER
        BY <2>1, <4>1 DEF Halfway
      <4>2. CASE f # rfd \/ t # CONNSOCKETSERVER
        <5>1. Halfway(<<f, t>>) => Halfway(<<f, t>>)'
          BY <2>1 DEF Halfway, main
        <5>2. tree'[f] = t <=> tree[f] = t
          BY <2>3, <3>3, <4>2
        <5> QED
          BY <3>2, <5>1, <5>2 DEF Agree
      <4> QED
        BY <4>1, <4>2
    <3>7. AnyServers' \cup Brought' \subseteq {rfd}
      BY <2>1, <3>2, <3>3, <3>4 DEF AnyServers, ListedServers, Brought
    <3>8. Steps'
      <4>1. mpc = "timeoutDel" => mfd \in Fds \ {rfd}
        BY <2>3, <3>2, <3>3 DEF Steps, ConnType, TreeSteps
      <4>2. mpc \in Unlinks => mfd \in Fds /\ mtype # CONNSOCKETSERVER
        BY <3>2, <3>4 DEF Steps, ConnType, ListSteps
      <4> QED
        BY <2>1, <3>2, <3>3, <3>4, <3>5, <4>1, <4>2 DEF Steps, main
    <3> QED
      BY <3>6, <3>7, <3>8 DEF TableInv, Unique
  <2> QED
    BY <2>2, <2>3
<1>5. ASSUME ReconnLink, ~torn' PROVE TableInv'
  <2>1. /\ rpc = "link" /\ rfd \in Fds /\ ~crashed /\ rpc' = "register" /\ ~torn
        /\ list' = list \cup {<<rfd, CONNSOCKETSERVER>>}
        /\ UNCHANGED <<tree, crashed, main, rfd>>
    BY <1>5 DEF ReconnLink, Link, ChangeList, wreck, ConnType, Bringing
  <2>2. Agree /\ Unique /\ Steps
    BY <2>1 DEF TableInv
  <2>3. tree[rfd] = CONNSOCKETSERVER /\ CONNSOCKETCLIENT # CONNSOCKETSERVER
    BY <2>1, <2>2, ConnAssumption DEF Steps
  <2>4. Agree'
    BY <2>1, <2>2, <2>3 DEF Agree, Halfway, main
  <2>5. AnyServers' = AnyServers /\ Brought' = {} /\ Brought = {}
    BY <2>1, <2>3 DEF AnyServers, ListedServers, Brought
  <2>6. Steps'
    BY <2>1, <2>2, <2>3, <2>5 DEF Steps, main
  <2> QED
    BY <2>2, <2>4, <2>5, <2>6 DEF TableInv, Unique
<1> QED
  BY <1>1, <1>2, <1>3, <1>4, <1>5 DEF Reconn, TableInv

LEMMA TableEnvironment ==
  ASSUME TableInv, Environment \/ UNCHANGED vars
  PROVE  TableInv'
<1>1. UNCHANGED <<tree, list, main, reconn, wreck>>
  BY DEF Environment, Tick, Phone, Data, End, Silence, DeadSilence, FallsSilent, vars
<1> QED
  BY <1>1 DEF TableInv, Agree, Unique, Steps, Halfway, AnyServers, ListedServers, Brought,
     main, reconn, wreck

LEMMA TableInit == Init => TableInv
  BY ConnAssumption DEF Init, TableInv, Agree, Unique, Steps, Halfway, AnyServers,
     ListedServers, Brought, Types, Unlinks

LEMMA TableAlways == Spec => [](ConnType /\ TableInv)
<1>1. ConnType /\ TableInv /\ [Next]_vars => (ConnType /\ TableInv)'
  BY ConnTypeMain, ConnTypeReconn, ConnTypeEnvironment, ConnTypeStutter, TableMain,
     TableReconn, TableEnvironment DEF Next
<1> QED
  BY ConnTypeInit, TableInit, <1>1, PTL DEF Spec

(* As long as no race is lost there is at most one connection to the       *)
(* server: only the reconn thread makes one, it looks at the list first,   *)
(* and what the main thread has begun to delete is on the list until the   *)
(* end.  A lost race breaks it, as the README says.                        *)
THEOREM ConnectionsOneServer == Spec => []OneServer
<1>1. TableInv => OneServer
  <2> SUFFICES ASSUME Unique PROVE Cardinality(AnyServers \cup Brought) <= 1
    BY DEF TableInv, OneServer
  <2>1. CASE AnyServers \cup Brought = {}
    BY <2>1, FS_EmptySet
  <2>2. CASE AnyServers \cup Brought # {}
    <3>1. PICK f \in AnyServers \cup Brought : TRUE
      BY <2>2
    <3>2. AnyServers \cup Brought = {f}
      BY <3>1 DEF Unique
    <3> QED
      BY <3>2, FS_Singleton
  <2> QED
    BY <2>1, <2>2
<1> QED
  BY TableAlways, <1>1, PTL

(* As long, the tree and the list have the same connections but for those  *)
(* between the two steps of an insertion or a deletion; so a walk of the   *)
(* list at any other time misses no connection a look-up would find.       *)
THEOREM ConnectionsTreeIsList == Spec => []TreeIsList
<1>1. TableInv => TreeIsList
  <2> SUFFICES ASSUME Agree, NEW entry \in Entries
               PROVE  (tree[entry[1]] = entry[2] <=> entry \in list) \/ Halfway(entry)
    BY DEF TableInv, TreeIsList
  <2>1. entry[1] \in Fds /\ entry[2] \in Types /\ entry = <<entry[1], entry[2]>>
    BY DEF Entries
  <2> QED
    BY <2>1 DEF Agree
<1> QED
  BY TableAlways, <1>1, PTL

-----------------------------------------------------------------------------
(* Descriptors and sockets *)

LEMMA KernelSame ==
  ASSUME KernelInv, UNCHANGED <<sock, rpc, rfd>>,
         \A fd \in Fds : cond'[fd] = "hup" => cond[fd] = "hup", ConnType
  PROVE  KernelInv'
  BY DEF KernelInv, Bringing, ConnType

LEMMA KernelClose ==
  ASSUME ConnType, KernelInv, NEW fd \in Fds, Close(fd), UNCHANGED reconn
  PROVE  KernelInv'
  BY DEF KernelInv, Bringing, Close, ConnType, TypeOK, reconn

LEMMA KernelMain ==
  ASSUME ConnType, KernelInv, Main
  PROVE  KernelInv'
<1> USE DEF kernel, reconn
<1>1. CASE EpollWait \/ SocketErrorDel \/ SocketEnd \/ Unlink \/ Listen \/ AcceptInsert
           \/ AcceptLink \/ Check \/ TimeoutDel \/ Login
  <2>1. UNCHANGED <<sock, cond, rpc, rfd>>
    BY <1>1 DEF EpollWait, SocketErrorDel, SocketEnd, Unlink, Listen, AcceptInsert,
       AcceptLink, Check, TimeoutDel, Login
  <2> QED
    BY <2>1, KernelSame
<1>2. CASE SocketEndClose
  BY <1>2, KernelClose DEF SocketEndClose, MainAt, ConnType
<1>3. CASE Accept
  <2>1. CASE UNCHANGED sock
    BY <1>3, <2>1, KernelSame DEF Accept
  <2>2. ASSUME NEW fd \in Fds, Open(fd, "phone") PROVE KernelInv'
    <3>1. sock' = [sock EXCEPT ![fd] = "phone"] /\ UNCHANGED <<cond, rpc, rfd>>
      BY <1>3, <2>2 DEF Accept, Open
    <3> QED
      BY <3>1 DEF KernelInv, Bringing, ConnType, TypeOK
  <2> QED
    BY <1>3, <2>1, <2>2 DEF Accept
<1>4. CASE Timeout
  <2>1. CASE UNCHANGED kernel
    BY <1>4, <2>1, KernelSame DEF Timeout
  <2>2. ASSUME NEW entry \in Entries, Close(entry[1]) PROVE KernelInv'
    BY <1>4, <2>2, KernelClose DEF Timeout, Entries
  <2> QED
    BY <1>4, <2>1, <2>2 DEF Timeout, ConnType, TypeOK
<1>5. ASSUME NEW fd \in Fds, SocketError(fd) PROVE KernelInv'
  BY <1>5, KernelClose DEF SocketError
<1>6. ASSUME NEW fd \in Fds, SocketRead(fd) PROVE KernelInv'
  <2>1. cond' = cond \/ cond' = [cond EXCEPT ![fd] = "quiet"]
    BY <1>6 DEF SocketRead
  <2>2. \A f \in Fds : cond'[f] = "hup" => cond[f] = "hup"
    BY <2>1 DEF ConnType, TypeOK
  <2> QED
    BY <1>6, <2>2, KernelSame DEF SocketRead
<1> QED
  BY <1>1, <1>2, <1>3, <1>4, <1>5, <1>6 DEF Main

LEMMA KernelReconn ==
  ASSUME ConnType, KernelInv, Reconn
  PROVE  KernelInv'
<1> USE DEF KernelInv, Bringing, ReconnAt, ReconnDone, kernel, ConnType, TypeOK
<1>1. CASE ReconnRead \/ ReconnCheck \/ ReconnSend
  <2>1. ~Bringing' /\ UNCHANGED <<sock, cond>>
    BY <1>1 DEF ReconnRead, ReconnCheck, ReconnSend
  <2> QED
    BY <2>1
<1>2. CASE ReconnSocket
  <2>1. CASE UNCHANGED <<sock, rfd>> /\ rpc' = "read"
    BY <1>2, <2>1 DEF ReconnSocket
  <2>2. ASSUME NEW fd \in Fds, Open(fd, "server"), rfd' = fd, rpc' = "connect"
        PROVE  KernelInv'
    <3>1. sock[fd] = "closed" /\ cond[fd] # "hup"
      BY <2>2 DEF Open, Closed
    <3>2. sock' = [sock EXCEPT ![fd] = "server"] /\ cond' = cond
      BY <1>2, <2>2 DEF ReconnSocket, Open
    <3> QED
      BY <2>2, <3>1, <3>2
  <2> QED
    BY <1>2, <2>1, <2>2 DEF ReconnSocket
<1>3. CASE ReconnNoName
  BY <1>3 DEF ReconnNoName
<1>4. CASE ReconnConnect
  BY <1>4 DEF ReconnConnect
<1>5. CASE ReconnRefused
  BY <1>5 DEF ReconnRefused, Close
<1>6. CASE ReconnInsert
  BY <1>6 DEF ReconnInsert
<1>7. CASE ReconnLink
  BY <1>7 DEF ReconnLink
<1>8. CASE ReconnRegister
  BY <1>8 DEF ReconnRegister
<1> QED
  BY <1>1, <1>2, <1>3, <1>4, <1>5, <1>6, <1>7, <1>8 DEF Reconn

LEMMA KernelEnvironment ==
  ASSUME ConnType, KernelInv, Environment \/ UNCHANGED vars
  PROVE  KernelInv'
<1> USE DEF kernel, reconn
<1>1. CASE Tick \/ Phone \/ UNCHANGED vars
  BY <1>1, KernelSame DEF Tick, Phone, vars
<1>2. ASSUME NEW fd \in Fds, Silence(fd) \/ DeadSilence(fd) PROVE KernelInv'
  BY <1>2, KernelSame DEF Silence, DeadSilence, FallsSilent
<1>3. ASSUME NEW fd \in Fds, Data(fd) PROVE KernelInv'
  <2>1. \A f \in Fds : cond'[f] = "hup" => cond[f] = "hup"
    BY <1>3 DEF Data, ConnType, TypeOK
  <2> QED
    BY <1>3, <2>1, KernelSame DEF Data
<1>4. ASSUME NEW fd \in Fds, End(fd) PROVE KernelInv'
  <2>1. UNCHANGED <<sock, rpc, rfd>>
    BY <1>4 DEF End
  <2>2. \A f \in Fds : cond'[f] = "hup" => cond[f] = "hup" \/ f = fd
    BY <1>4 DEF End, ConnType, TypeOK
  <2>3. /\ sock[fd] \in {"phone", "server"}
        /\ ~(sock[fd] = "server" /\ rpc = "connect" /\ fd = rfd)
    BY <1>4 DEF End, Alive
  <2> QED
    BY <2>1, <2>2, <2>3 DEF KernelInv, Bringing, ConnType
<1> QED
  BY <1>1, <1>2, <1>3, <1>4 DEF Environment

-----------------------------------------------------------------------------
(* Owners of sockets and of polled descriptors *)

ownVars == <<sock, epoll, tree, rpc, rfd, crashed>>

(* Neither thread runs after a crash, and what has gone astray stays so.   *)
LEMMA AstrayStays ==
  ASSUME ConnType, Main \/ Reconn
  PROVE  ~crashed /\ (torn => torn') /\ (stale => stale')
<1> torn \in BOOLEAN /\ stale \in BOOLEAN
  BY DEF ConnType, TypeOK
<1> USE DEF MainAt, ReconnAt, wreck
<1>1. CASE SocketErrorDel \/ SocketEnd \/ TimeoutDel \/ Unlink
  BY <1>1 DEF SocketErrorDel, SocketEnd, TimeoutDel, Unlink, ChangeTree, ChangeList, NotFound
<1>2. CASE AcceptInsert \/ AcceptLink \/ ReconnInsert \/ ReconnLink
  BY <1>2 DEF AcceptInsert, AcceptLink, ReconnInsert, ReconnLink, Insert, Link, ChangeTree,
     ChangeList
<1>3. CASE EpollWait \/ SocketEndClose \/ Listen \/ Accept \/ Check \/ Timeout \/ Login
  BY <1>3 DEF EpollWait, SocketEndClose, Listen, Accept, Check, Timeout, Login
<1>4. ASSUME NEW fd \in Fds, SocketError(fd) \/ SocketRead(fd)
      PROVE  ~crashed /\ (torn => torn') /\ (stale => stale')
  BY <1>4 DEF SocketError, SocketRead, NotFound
<1>5. CASE ReconnRead \/ ReconnCheck \/ ReconnSocket \/ ReconnNoName \/ ReconnConnect
           \/ ReconnRefused \/ ReconnRegister \/ ReconnSend
  BY <1>5 DEF ReconnRead, ReconnCheck, ReconnSocket, ReconnNoName, ReconnConnect,
     ReconnRefused, ReconnRegister, ReconnSend
<1> QED
  BY <1>1, <1>2, <1>3, <1>4, <1>5 DEF Main, Reconn

(* Steps of the main thread that move nothing, and hold nothing.           *)
LEMMA OwnSame ==
  ASSUME OwnInv, ~crashed, UNCHANGED ownVars, Astray => Astray',
         mpc \notin {"hupDel", "timeoutDel", "acceptInsert", "eofUnlink", "eofClose"},
         mpc' \notin {"hupDel", "timeoutDel"}
  PROVE  OwnInv'
  BY DEF OwnInv, Owners, ownVars, Polled, Kept, MainHolds, DeleteInv, Deleting

LEMMA OwnMainSame ==
  ASSUME ConnType, OwnInv,
         EpollWait \/ Listen \/ Check \/ Login \/ AcceptLink
           \/ \E fd \in Fds : SocketRead(fd)
  PROVE  OwnInv'
<1> SUFFICES ASSUME ~Astray' PROVE OwnInv'
  BY DEF OwnInv
<1> USE DEF EpollWait, Listen, Check, Login, AcceptLink, SocketRead
<1>1. /\ mpc \in {"dispatch", "acceptLink"}
      /\ mpc' \in {"dispatch", "accept", "timeouts", "eofDel"}
  BY DEF MainAt, MainDone
<1>2. ~crashed /\ ~Astray
  BY AstrayStays DEF Main, Astray
<1>3. UNCHANGED ownVars
  BY DEF ownVars, Link, ChangeList, Astray, kernel, reconn, wreck
<1> QED
  BY <1>1, <1>2, <1>3, OwnSame

(* A hang-up is handled: its socket has not been closed yet, so somebody   *)
(* owns it; without an entry it is the reconn thread's.                    *)
LEMMA OwnSocketError ==
  ASSUME ConnType, KernelInv, OwnInv, NEW fd \in Fds, SocketError(fd)
  PROVE  OwnInv'
<1> SUFFICES ASSUME ~Astray' PROVE OwnInv'
  BY DEF OwnInv
<1>1. ~Astray /\ cond[fd] = "hup" /\ mpc = "dispatch" /\ ~crashed
  BY DEF SocketError, MainAt, Astray, wreck
<1>2. Owners
  BY <1>1 DEF OwnInv
<1>3. /\ sock' = [sock EXCEPT ![fd] = "closed"] /\ epoll' = epoll \ {fd}
      /\ mpc' = "hupDel" /\ mfd' = fd /\ UNCHANGED <<tree, rpc, rfd, crashed>>
  BY DEF SocketError, Close, reconn, wreck
<1>4. sock[fd] \in {"phone", "server"}
      /\ ~(sock[fd] = "server" /\ rpc = "connect" /\ fd = rfd)
  BY <1>1 DEF KernelInv
<1>5. tree[fd] # NoConn \/ (rpc = "insert" /\ rfd = fd)
  BY <1>1, <1>2, <1>4 DEF Owners, Kept, MainHolds
<1>6. Owners'
  BY <1>1, <1>2, <1>3 DEF Owners, Polled, Kept, MainHolds, ConnType, TypeOK
<1>7. DeleteInv'
  BY <1>3, <1>5 DEF DeleteInv, Deleting, ConnType, TypeOK
<1> QED
  BY <1>6, <1>7 DEF OwnInv

LEMMA OwnTimeout ==
  ASSUME ConnType, TableInv, OwnInv, Timeout
  PROVE  OwnInv'
<1> SUFFICES ASSUME ~Astray' PROVE OwnInv'
  BY DEF OwnInv
<1>1. /\ mpc = "timeouts" /\ ~crashed /\ ~Astray /\ ~torn
      /\ UNCHANGED <<tree, rpc, rfd, crashed>>
  BY DEF Timeout, MainAt, Astray, reconn, wreck
<1>2. CASE silent \cap list = {}
  BY <1>1, <1>2, OwnSame DEF Timeout, ownVars, kernel
<1>3. ASSUME NEW entry \in list, mpc' = "timeoutDel", mfd' = entry[1], Close(entry[1])
      PROVE  OwnInv'
  <2>1. entry[1] \in Fds /\ entry[2] \in Types /\ entry = <<entry[1], entry[2]>>
    BY DEF ConnType, TypeOK, Entries
  <2>2. tree[entry[1]] # NoConn
    <3>1. tree[entry[1]] = entry[2]
      BY <1>1, <2>1 DEF TableInv, Agree, Steps, Halfway, Unlinks
    <3> QED
      BY <2>1, <3>1, ConnAssumption DEF Types
  <2>3. /\ sock' = [sock EXCEPT ![entry[1]] = "closed"] /\ epoll' = epoll \ {entry[1]}
    BY <1>3 DEF Close
  <2>4. Owners
    BY <1>1 DEF OwnInv
  <2>5. Owners'
    BY <1>1, <1>3, <2>1, <2>3, <2>4 DEF Owners, Polled, Kept, MainHolds, ConnType, TypeOK
  <2>6. DeleteInv'
    BY <1>1, <1>3, <2>1, <2>2, <2>3 DEF DeleteInv, Deleting, ConnType, TypeOK
  <2> QED
    BY <2>5, <2>6 DEF OwnInv
<1> QED
  BY <1>2, <1>3 DEF Timeout

(* The deletion of an entry leaves nothing that was owned by it alone.     *)
LEMMA OwnDelete ==
  ASSUME ConnType, TableInv, OwnInv, SocketErrorDel \/ TimeoutDel
  PROVE  OwnInv'
<1> SUFFICES ASSUME ~Astray' PROVE OwnInv'
  BY DEF OwnInv
<1> USE DEF MainAt, MainDone
<1>1. /\ ~crashed /\ Deleting /\ mfd \in Fds
      /\ mpc' \in {"hupUnlink", "dispatch", "timeoutUnlink"}
      /\ UNCHANGED <<sock, epoll, rpc, rfd>>
  BY DEF SocketErrorDel, TimeoutDel, Deleting, ConnType, TreeSteps, kernel, reconn
<1>2. tree' = [tree EXCEPT ![mfd] = NoConn] \/ (UNCHANGED tree /\ tree[mfd] = NoConn)
  BY DEF SocketErrorDel, TimeoutDel, ChangeTree, NotFound, Astray
<1>3. Owners /\ DeleteInv
  BY <1>1, AstrayStays DEF OwnInv, Astray, Main
<1>4. tree'[mfd] = NoConn /\ \A f \in Fds \ {mfd} : tree'[f] = tree[f]
  BY <1>1, <1>2 DEF ConnType, TypeOK
<1>5. \A f \in Fds : ~MainHolds(f)
  BY <1>1 DEF MainHolds, Deleting
<1>6. \A f \in Fds \ {mfd} : Polled(f)' /\ Kept(f)'
  BY <1>1, <1>3, <1>4, <1>5 DEF Owners, Polled, Kept
<1>7. ASSUME NEW f \in Fds, f = mfd PROVE Polled(f)' /\ Kept(f)'
  <2>1. /\ f \notin epoll
        /\ sock[f] # "closed" =>
             \/ sock[f] = "server" /\ f = rfd /\ rpc \in {"connect", "insert"}
             \/ sock[f] = "leaked"
    BY <1>1, <1>3, <1>7 DEF DeleteInv
  <2> QED
    BY <1>1, <2>1 DEF Polled, Kept
<1>8. ~Deleting'
  BY <1>1 DEF Deleting
<1> QED
  BY <1>6, <1>7, <1>8 DEF OwnInv, Owners, DeleteInv

LEMMA OwnMainMoves ==
  ASSUME ConnType, OwnInv,
         SocketEnd \/ Unlink \/ SocketEndClose \/ Accept \/ AcceptInsert
  PROVE  OwnInv'
<1> SUFFICES ASSUME ~Astray' PROVE OwnInv'
  BY DEF OwnInv
<1> USE DEF kernel, reconn, MainAt, MainDone
<1>1. UNCHANGED <<rpc, rfd>>
  BY DEF SocketEnd, Unlink, SocketEndClose, Accept, AcceptInsert
<1>2. Owners
  BY AstrayStays DEF OwnInv, Astray, Main
<1>3. ~Deleting'
  BY DEF SocketEnd, Unlink, SocketEndClose, Accept, AcceptInsert, Deleting
<1>4. CASE SocketEnd
  <2>1. mfd \in Fds /\ mpc = "eofDel" /\ mpc' \in {"eofUnlink", "eofClose"} /\ UNCHANGED mfd
    BY <1>4 DEF SocketEnd, ConnType, TreeSteps
  <2>2. tree' = [tree EXCEPT ![mfd] = NoConn] \/ UNCHANGED tree
    BY <1>4 DEF SocketEnd, ChangeTree, Astray
  <2>3. epoll' = epoll \ {mfd} /\ UNCHANGED sock
    BY <1>4 DEF SocketEnd
  <2>4. Owners'
    BY <1>1, <1>2, <2>1, <2>2, <2>3 DEF Owners, Polled, Kept, MainHolds, ConnType, TypeOK
  <2> QED
    BY <1>3, <2>4 DEF OwnInv, DeleteInv
<1>5. CASE Unlink
  <2>1. /\ mpc \in Unlinks /\ UNCHANGED <<sock, epoll, tree>>
        /\ mpc = "eofUnlink" => mpc' = "eofClose" /\ mfd' = mfd
    BY <1>5 DEF Unlink
  <2>2. Owners'
    BY <1>1, <1>2, <2>1 DEF Owners, Polled, Kept, MainHolds, Unlinks
  <2> QED
    BY <1>3, <2>2 DEF OwnInv, DeleteInv
<1>6. CASE SocketEndClose
  <2>1. mfd \in Fds /\ mpc = "eofClose" /\ mpc' = "dispatch"
    BY <1>6 DEF SocketEndClose, ConnType
  <2>2. Close(mfd) /\ UNCHANGED tree
    BY <1>6 DEF SocketEndClose
  <2>3. Owners'
    BY <1>1, <1>2, <2>1, <2>2 DEF Owners, Polled, Kept, MainHolds, Close, ConnType, TypeOK
  <2> QED
    BY <1>3, <2>3 DEF OwnInv, DeleteInv
<1>7. CASE Accept
  <2>1. mpc = "accept" /\ UNCHANGED <<epoll, tree>>
    BY <1>7 DEF Accept
  <2>2. CASE UNCHANGED sock
    BY <1>1, <1>2, <1>3, <2>1, <2>2 DEF Owners, Polled, Kept, MainHolds, OwnInv, DeleteInv
  <2>3. ASSUME NEW fd \in Fds, Open(fd, "phone"), mpc' = "acceptInsert", mfd' = fd
        PROVE  OwnInv'
    <3>1. sock' = [sock EXCEPT ![fd] = "phone"]
      BY <2>3 DEF Open
    <3>2. Owners'
      BY <1>1, <1>2, <2>1, <2>3, <3>1
         DEF Owners, Polled, Kept, MainHolds, ConnType, TypeOK
    <3> QED
      BY <1>3, <3>2 DEF OwnInv, DeleteInv
  <2> QED
    BY <1>7, <2>2, <2>3 DEF Accept
<1>8. CASE AcceptInsert
  <2>1. /\ mfd \in Fds /\ mpc = "acceptInsert" /\ mpc' = "acceptLink"
        /\ UNCHANGED <<sock, mfd>>
    BY <1>8 DEF AcceptInsert, ConnType, TreeSteps
  <2>2. epoll' = epoll \cup {mfd} \/ UNCHANGED epoll
    BY <1>8 DEF AcceptInsert, Register
  <2>3. \/ tree[mfd] # NoConn /\ UNCHANGED tree
        \/ tree' = [tree EXCEPT ![mfd] = CONNSOCKETCLIENT]
    BY <1>8 DEF AcceptInsert, Insert, ChangeTree, Astray
  <2>4. tree'[mfd] # NoConn /\ \A f \in Fds \ {mfd} : tree'[f] = tree[f]
    BY <2>1, <2>3, ConnAssumption DEF ConnType, TypeOK
  <2>5. Owners'
    BY <1>1, <1>2, <2>1, <2>2, <2>4 DEF Owners, Polled, Kept, MainHolds
  <2> QED
    BY <1>3, <2>5 DEF OwnInv, DeleteInv
<1> QED
  BY <1>4, <1>5, <1>6, <1>7, <1>8

(* Steps of the reconn thread while it holds no socket.                    *)
LEMMA OwnReconnIdle ==
  ASSUME OwnInv, UNCHANGED <<sock, epoll, tree, rfd, crashed, mpc, mfd>>,
         Astray => Astray',
         rpc \notin {"connect", "insert"}, rpc' \notin {"connect", "insert"}
  PROVE  OwnInv'
  BY DEF OwnInv, Owners, Polled, Kept, MainHolds, DeleteInv, Deleting

LEMMA OwnReconn ==
  ASSUME ConnType, KernelInv, OwnInv, Reconn
  PROVE  OwnInv'
<1> SUFFICES ASSUME ~Astray' PROVE OwnInv'
  BY DEF OwnInv
<1> USE DEF kernel, main, ReconnAt, ReconnDone
<1>1. ~crashed /\ ~Astray /\ UNCHANGED <<mpc, mfd>>
  <2>1. UNCHANGED <<mpc, mfd>>
    BY DEF Reconn, ReconnRead, ReconnCheck, ReconnSocket, ReconnNoName, ReconnConnect,
       ReconnRefused, ReconnInsert, ReconnLink, ReconnRegister, ReconnSend
  <2> QED
    BY <2>1, AstrayStays DEF Astray
<1>2. Owners /\ DeleteInv
  BY <1>1 DEF OwnInv
<1>3. CASE ReconnRead \/ ReconnCheck \/ ReconnLink \/ ReconnSend
  <2>1. /\ UNCHANGED <<sock, epoll, tree, rfd, crashed>>
        /\ rpc \notin {"connect", "insert"} /\ rpc' \notin {"connect", "insert"}
    BY <1>3 DEF ReconnRead, ReconnCheck, ReconnLink, ReconnSend, Link, ChangeList, wreck,
       Astray
  <2> QED
    BY <1>1, <2>1, OwnReconnIdle
<1>4. CASE ReconnSocket
  <2>1. rpc = "socket" /\ UNCHANGED <<epoll, tree, crashed>>
    BY <1>4 DEF ReconnSocket, wreck
  <2>2. CASE UNCHANGED <<sock, rfd>> /\ rpc' = "read"
    BY <1>1, <2>1, <2>2, OwnReconnIdle
  <2>3. ASSUME NEW fd \in Fds, Open(fd, "server"), rfd' = fd, rpc' = "connect"
        PROVE  OwnInv'
    <3>1. sock' = [sock EXCEPT ![fd] = "server"]
      BY <2>3 DEF Open
    <3>2. Owners'
      BY <1>1, <1>2, <2>1, <2>3, <3>1
         DEF Owners, Polled, Kept, MainHolds, ConnType, TypeOK
    <3>3. DeleteInv'
      BY <1>1, <1>2, <2>1, <2>3, <3>1 DEF DeleteInv, Deleting, ConnType, TypeOK
    <3> QED
      BY <3>2, <3>3 DEF OwnInv
  <2> QED
    BY <1>4, <2>2, <2>3 DEF ReconnSocket
<1>5. CASE ReconnNoName
  <2>1. /\ rpc = "connect" /\ rpc' = "read" /\ rfd \in Fds
        /\ sock' = IF sock[rfd] = "server" THEN [sock EXCEPT ![rfd] = "leaked"] ELSE sock
        /\ UNCHANGED <<epoll, tree, crashed>>
    BY <1>5 DEF ReconnNoName, ConnType, Bringing, wreck
  <2>2. Owners'
    BY <1>1, <1>2, <2>1 DEF Owners, Polled, Kept, MainHolds, ConnType, TypeOK
  <2>3. DeleteInv'
    BY <1>1, <1>2, <2>1 DEF DeleteInv, Deleting, ConnType, TypeOK
  <2> QED
    BY <2>2, <2>3 DEF OwnInv
<1>6. CASE ReconnConnect
  <2>1. rpc = "connect" /\ rpc' = "insert" /\ UNCHANGED <<sock, epoll, tree, rfd, crashed>>
    BY <1>6 DEF ReconnConnect, wreck
  <2>2. Owners' /\ DeleteInv'
    BY <1>1, <1>2, <2>1 DEF Owners, Polled, Kept, MainHolds, DeleteInv, Deleting
  <2> QED
    BY <2>2 DEF OwnInv
<1>7. CASE ReconnRefused
  <2>1. /\ rpc = "connect" /\ rpc' = "read" /\ rfd \in Fds
        /\ sock' = [sock EXCEPT ![rfd] = "closed"] /\ epoll' = epoll \ {rfd}
        /\ UNCHANGED <<tree, crashed>>
    BY <1>7 DEF ReconnRefused, Close, ConnType, Bringing, wreck
  <2>2. Owners'
    BY <1>1, <1>2, <2>1 DEF Owners, Polled, Kept, MainHolds, ConnType, TypeOK
  <2>3. DeleteInv'
    BY <1>1, <1>2, <2>1 DEF DeleteInv, Deleting, ConnType, TypeOK
  <2> QED
    BY <2>2, <2>3 DEF OwnInv
<1>8. CASE ReconnRegister
  <2>1. /\ rpc = "register" /\ rpc' = "send" /\ rfd \in Fds /\ sock[rfd] # "leaked"
        /\ UNCHANGED <<sock, tree, crashed>>
    BY <1>8 DEF ReconnRegister, ConnType, Bringing, KernelInv, wreck
  <2>2. UNCHANGED epoll \/ (sock[rfd] # "closed" /\ epoll' = epoll \cup {rfd})
    BY <1>8 DEF ReconnRegister, Register
  <2>3. Owners'
    BY <1>1, <1>2, <2>1, <2>2 DEF Owners, Polled, Kept, MainHolds
  <2>4. DeleteInv'
    BY <1>1, <1>2, <2>1, <2>2 DEF DeleteInv, Deleting
  <2> QED
    BY <2>3, <2>4 DEF OwnInv
<1>9. CASE ReconnInsert
  <2>1. /\ rpc = "insert" /\ rpc' = "link" /\ rfd \in Fds /\ sock[rfd] # "leaked"
        /\ UNCHANGED <<sock, epoll, rfd>>
    BY <1>9 DEF ReconnInsert, ConnType, Bringing, KernelInv
  <2>2. CASE tree[rfd] # NoConn
    <3>1. crashed' = TRUE /\ UNCHANGED tree
      BY <1>9, <2>2 DEF ReconnInsert, Insert
    <3>2. Owners'
      BY <1>1, <1>2, <2>1, <2>2, <3>1 DEF Owners, Polled, Kept, MainHolds
    <3> QED
      BY <3>1, <3>2 DEF OwnInv
  <2>3. CASE tree[rfd] = NoConn
    <3>1. tree' = [tree EXCEPT ![rfd] = CONNSOCKETSERVER] /\ UNCHANGED crashed
      BY <1>9, <2>3 DEF ReconnInsert, Insert, ChangeTree, Astray
    <3>2. tree'[rfd] # NoConn /\ \A f \in Fds \ {rfd} : tree'[f] = tree[f]
      BY <2>1, <3>1, ConnAssumption DEF ConnType, TypeOK
    <3>3. Owners'
      BY <1>1, <1>2, <2>1, <3>2 DEF Owners, Polled, Kept, MainHolds
    <3>4. Deleting => mfd \in Fds
      BY DEF Deleting, ConnType, TreeSteps
    <3>5. DeleteInv'
      BY <1>1, <1>2, <2>1, <2>3, <3>2, <3>4 DEF DeleteInv, Deleting
    <3> QED
      BY <3>3, <3>5 DEF OwnInv
  <2> QED
    BY <2>2, <2>3
<1> QED
  BY <1>3, <1>4, <1>5, <1>6, <1>7, <1>8, <1>9 DEF Reconn

LEMMA OwnEnvironment ==
  ASSUME OwnInv, Environment \/ UNCHANGED vars
  PROVE  OwnInv'
<1> USE DEF kernel, main, reconn, wreck
<1>1. UNCHANGED <<sock, epoll, tree, rpc, rfd, mpc, mfd, crashed, torn, stale>>
  BY DEF Environment, Tick, Phone, Data, End, Silence, DeadSilence, FallsSilent, vars
<1> QED
  BY <1>1 DEF OwnInv, Astray, Owners, Polled, Kept, MainHolds, DeleteInv, Deleting

LEMMA InvNext == Inv /\ [Next]_vars => Inv'
<1> SUFFICES ASSUME Inv, [Next]_vars PROVE Inv'
  OBVIOUS
<1> USE DEF Inv
<1>1. CASE Main
  <2>1. OwnInv'
    BY <1>1, OwnMainSame, OwnSocketError, OwnTimeout, OwnDelete, OwnMainMoves DEF Main
  <2> QED
    BY <1>1, <2>1, ConnTypeMain, TableMain, KernelMain
<1>2. CASE Reconn
  BY <1>2, ConnTypeReconn, TableReconn, KernelReconn, OwnReconn
<1>3. CASE Environment
  BY <1>3, ConnTypeEnvironment, TableEnvironment, KernelEnvironment, OwnEnvironment
<1>4. CASE UNCHANGED vars
  BY <1>4, ConnTypeStutter, TableEnvironment, KernelEnvironment, OwnEnvironment
<1> QED
  BY <1>1, <1>2, <1>3, <1>4 DEF Next

LEMMA InvInit == Init => Inv
<1> SUFFICES ASSUME Init PROVE Inv
  OBVIOUS
<1>1. KernelInv
  BY DEF Init, KernelInv, Bringing
<1>2. OwnInv
  BY DEF Init, OwnInv, Owners, Polled, Kept, DeleteInv, Deleting
<1> QED
  BY ConnTypeInit, TableInit, <1>1, <1>2 DEF Inv

LEMMA InvAlways == Spec => []Inv
  BY InvInit, InvNext, PTL DEF Spec

(* Until a race is lost or a stale hang-up is handled, epoll watches no    *)
(* descriptor without a connection: a hang-up that is handled in time      *)
(* closes a socket somebody owns, and a descriptor that was closed before  *)
(* its entry is deleted cannot be registered in between.                   *)
THEOREM ConnectionsPolledIsOwned == Spec => []PolledIsOwned
<1>1. Inv => PolledIsOwned
  BY DEF Inv, OwnInv, Owners, PolledIsOwned, Polled, ConnType, TypeOK
<1> QED
  BY InvAlways, <1>1, PTL

(* As long, no socket is lost but by the failed look-up of a name.         *)
THEOREM ConnectionsSocketsOwned == Spec => []SocketsOwned
<1>1. Inv => SocketsOwned
  BY DEF Inv, OwnInv, Owners, SocketsOwned, Kept
<1> QED
  BY InvAlways, <1>1, PTL

-----------------------------------------------------------------------------
(* The assertion.  With the server alone, only the reconn thread inserts,  *)
(* and only while the table is empty.                                      *)
ServerOnly ==
  /\ pending = 0 /\ mpc \notin {"acceptInsert", "acceptLink"} /\ ~crashed /\ ~torn
  /\ \A fd \in Fds : tree[fd] # CONNSOCKETCLIENT

LEMMA ServerOnlyMain ==
  ASSUME ~Races, Inv, ServerOnly, Main
  PROVE  ServerOnly'
<1> USE DEF kernel, wreck, MainAt, MainDone
<1>1. CASE SocketErrorDel \/ SocketEnd \/ TimeoutDel
  <2>1. Steps /\ rpc # "link" /\ mfd \in Fds
    BY <1>1 DEF SocketErrorDel, SocketEnd, TimeoutDel, Inv, TableInv, ConnType, ServerOnly,
       TreeSteps
  <2>2. /\ UNCHANGED pending /\ mpc' \notin {"acceptInsert", "acceptLink"}
        /\ ChangeTree(mfd, NoConn) \/ UNCHANGED <<tree, wreck>>
    BY <1>1, <2>1 DEF SocketErrorDel, SocketEnd, TimeoutDel, NotFound, Steps
  <2>3. /\ ~crashed' /\ ~torn'
        /\ tree' = tree \/ tree' = [tree EXCEPT ![mfd] = NoConn]
    <3>1. CASE ChangeTree(mfd, NoConn)
      <4>1. ~Overlap
        BY DEF Overlap
      <4>2. tree' = [tree EXCEPT ![mfd] = NoConn] /\ UNCHANGED crashed
            /\ torn' = (torn \/ (rpc = "link" /\ mfd = rfd))
        BY <3>1, <4>1 DEF ChangeTree
      <4>3. ~(torn \/ (rpc = "link" /\ mfd = rfd)) /\ ~crashed
        BY <2>1 DEF ServerOnly
      <4> QED
        BY <4>2, <4>3
    <3>2. CASE UNCHANGED <<tree, wreck>>
      BY <3>2 DEF ServerOnly
    <3> QED
      BY <2>2, <3>1, <3>2
  <2> QED
    BY <2>1, <2>2, <2>3, ConnAssumption DEF ServerOnly, Inv, ConnType, TypeOK
<1>2. CASE Unlink
  BY <1>2 DEF Unlink, ChangeList, Overlap, ServerOnly
<1>3. CASE EpollWait \/ SocketEndClose \/ Listen \/ Check \/ Login \/ Timeout
  BY <1>3 DEF EpollWait, SocketEndClose, Listen, Check, Login, Timeout, ServerOnly
<1>4. CASE Accept
  BY <1>4 DEF Accept, ServerOnly
<1>5. CASE AcceptInsert \/ AcceptLink
  BY <1>5 DEF AcceptInsert, AcceptLink, ServerOnly
<1>6. ASSUME NEW fd \in Fds, SocketError(fd) \/ SocketRead(fd) PROVE ServerOnly'
  <2>1. /\ UNCHANGED <<pending, crashed, tree, torn>>
        /\ mpc' \notin {"acceptInsert", "acceptLink"}
    BY <1>6 DEF SocketError, SocketRead, NotFound, ServerOnly
  <2> QED
    BY <2>1 DEF ServerOnly
<1> QED
  BY <1>1, <1>2, <1>3, <1>4, <1>5, <1>6 DEF Main

LEMMA ServerOnlyReconn ==
  ASSUME ~Races, Inv, ServerOnly, Reconn
  PROVE  ServerOnly'
<1> USE DEF kernel, main, wreck, ReconnAt
<1>1. CASE ReconnInsert
  <2>1. rpc = "insert" /\ rfd \in Fds /\ AnyServers = {}
    BY <1>1 DEF ReconnInsert, Inv, ConnType, Bringing, TableInv, Steps, ServerOnly
  <2>2. tree[rfd] = NoConn
    BY <2>1 DEF AnyServers, ServerOnly, Inv, ConnType, TypeOK, Types
  <2>3. /\ tree' = [tree EXCEPT ![rfd] = CONNSOCKETSERVER] /\ UNCHANGED crashed
        /\ torn' = (torn \/ FALSE) /\ UNCHANGED <<pending, mpc>>
    BY <1>1, <2>1, <2>2 DEF ReconnInsert, Insert, ChangeTree, Overlap
  <2> QED
    BY <2>1, <2>3, ConnAssumption DEF ServerOnly, Inv, ConnType, TypeOK
<1>2. CASE ReconnLink
  BY <1>2 DEF ReconnLink, Link, ChangeList, Overlap, ServerOnly
<1>3. CASE ReconnRead \/ ReconnCheck \/ ReconnSocket \/ ReconnNoName \/ ReconnConnect
           \/ ReconnRefused \/ ReconnRegister \/ ReconnSend
  <2>1. UNCHANGED <<pending, mpc, wreck, tree>>
    BY <1>3 DEF ReconnRead, ReconnCheck, ReconnSocket, ReconnNoName, ReconnConnect,
       ReconnRefused, ReconnRegister, ReconnSend
  <2> QED
    BY <2>1 DEF ServerOnly
<1> QED
  BY <1>1, <1>2, <1>3 DEF Reconn

LEMMA ServerOnlyEnvironment ==
  ASSUME MaxPending = 0, ServerOnly, Environment \/ UNCHANGED vars
  PROVE  ServerOnly'
<1> USE DEF main, wreck
<1>1. ~Phone
  BY DEF Phone, ServerOnly
<1>2. UNCHANGED <<pending, mpc, wreck, tree>>
  BY <1>1 DEF Environment, Tick, Data, End, Silence, DeadSilence, FallsSilent, vars
<1> QED
  BY <1>2 DEF ServerOnly

(* As long as no phone connects and no two accesses to the table overlap,  *)
(* the assertion of connrbtree_insert holds, however the connection to the *)
(* server ends: reconn.c inserts only a descriptor that is in no entry.    *)
(* With a phone it fails, as MCConnectionsAssert shows; and an access that *)
(* is torn may end the process too, which ~Races leaves out.               *)
THEOREM ConnectionsNoAssertionFails ==
  ASSUME MaxPending = 0, ~Races
  PROVE  Spec => []NoAssertionFails
<1>1. Init => Inv /\ ServerOnly
  BY InvInit, ConnAssumption DEF Init, ServerOnly
<1>2. Inv /\ ServerOnly /\ [Next]_vars => (Inv /\ ServerOnly)'
  <2> SUFFICES ASSUME Inv, ServerOnly, [Next]_vars PROVE (Inv /\ ServerOnly)'
    OBVIOUS
  <2>1. Inv'
    BY InvNext
  <2>2. ServerOnly'
    BY ServerOnlyMain, ServerOnlyReconn, ServerOnlyEnvironment DEF Next
  <2> QED
    BY <2>1, <2>2
<1>3. ServerOnly => NoAssertionFails
  BY DEF ServerOnly, NoAssertionFails
<1> QED
  BY <1>1, <1>2, <1>3, PTL DEF Spec
=============================================================================
