----------------------------- MODULE Connections -----------------------------
(***************************************************************************)
(* The TCP connections of the gateway: the main thread's epoll loop        *)
(* (eventhub.c) accepts phones, reads commands and drops connections that  *)
(* end, fail or go silent; the reconn thread (reconn.c, socket.c) opens    *)
(* the connection to the server whenever the timer (cetimer.c) asks and    *)
(* the table (connection.c) has none.                                      *)
(*                                                                         *)
(* The table is a red-black tree, which look-ups by descriptor use, and a  *)
(* list, which walks use.  An insertion changes the tree and then the      *)
(* list, a deletion too, each in two steps here.  Both threads do it and   *)
(* neither takes a lock.  A descriptor is a small number that the kernel   *)
(* gives out again, lowest first, as soon as it was closed.                *)
(*                                                                         *)
(* The pipes between the threads are never closed, so their connections    *)
(* stand outside the table here; what they carry is one bit each, since    *)
(* event_recvmsg only asks whether a command byte is in what it read.      *)
(***************************************************************************)
EXTENDS Integers, FiniteSets

CONSTANTS
  Fds,         (* descriptors for sockets, numbers                        *)
  NoConn, CONNSOCKETCLIENT, CONNSOCKETSERVER,  (* no entry, and types     *)
  Races,       (* FALSE: the threads' operations on the table take turns  *)
  Endings,     (* how sockets end: "eof" the peer closes, "hup" an error  *)
  MaxPending   (* bound: phones that wait to be accepted                  *)

ASSUME ConnAssumption ==
  /\ Fds \subseteq Nat /\ IsFiniteSet(Fds)
  /\ Races \in BOOLEAN
  /\ NoConn # CONNSOCKETCLIENT /\ NoConn # CONNSOCKETSERVER
  /\ CONNSOCKETCLIENT # CONNSOCKETSERVER
  /\ Endings \subseteq {"eof", "hup"}
  /\ MaxPending \in Nat

VARIABLES
  sock,     (* sock[fd]: "closed", or the socket of a "phone" or to the    *)
            (* "server", or one that openclient forgot to close: "leaked"  *)
  cond,     (* cond[fd]: what epoll and read have to say of it             *)
  epoll,    (* descriptors in the epoll set                                *)
  login,    (* descriptors whose socket the login message was sent to      *)
  tree,     (* tree[fd]: type of the connection with that descriptor       *)
  list,     (* the connections on the list, as descriptor and type         *)
  silent,   (* those whose timestamp is older than the timeout             *)
  pending,  (* connections not yet accepted                                *)
  check, send,     (* CECHECK, CESEND is in a pipe to the main thread      *)
  tick,            (* CERECONN is in the pipe to the reconn thread         *)
  mpc, mfd, mtype, (* main thread: step and connection it works on         *)
  batch,           (* and the events it has to deal with                   *)
  rpc, rfd,        (* reconn thread: step, its descriptor                  *)
  crashed,         (* an assertion failed or a pointer led nowhere         *)
  torn,            (* history: a race on the table was lost                *)
  stale            (* history: a hang-up closed another socket             *)

kernel == <<sock, cond, epoll, login>>
signals == <<check, send, tick>>
main == <<mpc, mfd, mtype, batch>>
reconn == <<rpc, rfd>>
wreck == <<crashed, torn>>
vars == <<kernel, tree, list, silent, pending, signals, main, reconn, wreck, stale>>

Types == {CONNSOCKETCLIENT, CONNSOCKETSERVER}
Entries == Fds \X Types
ListedServers == {fd \in Fds : <<fd, CONNSOCKETSERVER>> \in list}
Closed == {fd \in Fds : sock[fd] = "closed"}

(* Where the threads change the tree and where they change the list; an    *)
(* insertion takes its entry from the free list first, a deletion gives it *)
(* back last.                                                              *)
TreeSteps == {"hupDel", "eofDel", "timeoutDel", "acceptInsert"}
Unlinks   == {"hupUnlink", "eofUnlink", "timeoutUnlink"}
ListSteps == Unlinks \cup {"acceptLink"}

(* The program counters; after a crash no thread runs, and without races   *)
(* none runs while the other is between the tree and the list.             *)
MainAt(step) == ~crashed /\ mpc = step /\ (Races \/ rpc # "link")
ReconnAt(step) == ~crashed /\ rpc = step /\ (Races \/ mpc \notin ListSteps)

(* A thread is done with a connection.                                     *)
MainDone(step) == mpc' = step /\ mfd' = 0 /\ mtype' = NoConn
ReconnDone(step) == rpc' = step /\ rfd' = 0

(* What epoll_wait reports.                                                *)
Ready ==
  {<<IF cond[fd] = "hup" THEN "hup" ELSE "in", fd>> :
     fd \in {f \in epoll : cond[f] # "quiet"}}
    \cup (IF pending > 0 THEN {<<"listen", 0>>} ELSE {})
    \cup (IF check THEN {<<"timer", 0>>} ELSE {})
    \cup (IF send THEN {<<"reconn", 0>>} ELSE {})

Init ==
  /\ sock = [fd \in Fds |-> "closed"]
  /\ cond = [fd \in Fds |-> "quiet"]
  /\ epoll = {} /\ login = {}
  /\ tree = [fd \in Fds |-> NoConn] /\ list = {} /\ silent = {}
  /\ pending = 0 /\ check = FALSE /\ send = FALSE /\ tick = FALSE
  /\ mpc = "dispatch" /\ mfd = 0 /\ mtype = NoConn /\ batch = {}
  /\ rpc = "read" /\ rfd = 0
  /\ crashed = FALSE /\ torn = FALSE /\ stale = FALSE

-----------------------------------------------------------------------------
(* The kernel: close(fd), and the lowest descriptor for a new socket.      *)
Close(fd) ==
  /\ sock' = [sock EXCEPT ![fd] = "closed"]
  /\ cond' = [cond EXCEPT ![fd] = "quiet"]
  /\ epoll' = epoll \ {fd}
  /\ login' = login \ {fd}

Open(fd, peer) ==
  /\ fd \in Closed /\ \A f \in Closed : fd <= f
  /\ sock' = [sock EXCEPT ![fd] = peer]

(* eventhub_register: epoll_ctl fails on a closed descriptor.              *)
Register(fd) == epoll' = IF sock[fd] # "closed" THEN epoll \cup {fd} ELSE epoll

(* Accesses of the two threads overlap if they are at a change of the tree *)
(* or of the free list, or both at a change of the list.                   *)
Overlap ==
  /\ Races
  /\ \/ rpc = "insert" /\ mpc \in TreeSteps \cup Unlinks
     \/ rpc = "link" /\ mpc \in ListSteps

(* The tree gets or loses an entry.  An overlapping change may be lost, or *)
(* take other entries with it, or leave pointers on which the process      *)
(* fails.  Deleting an entry that the reconn thread has not put on the     *)
(* list yet leaves it on that list and on the free list.                   *)
ChangeTree(fd, type) ==
  \/ /\ tree' = [tree EXCEPT ![fd] = type]
     /\ torn' = (torn \/ (rpc = "link" /\ fd = rfd))
     /\ UNCHANGED crashed
  \/ /\ Overlap
     /\ torn' = TRUE /\ crashed' \in BOOLEAN
     /\ tree' \in [Fds -> Types \cup {NoConn}]
     /\ \A f \in Fds : tree'[f] \in {tree[f], NoConn} \/ (f = fd /\ tree'[f] = type)

(* The same of the list.                                                   *)
ChangeList(changed) ==
  \/ list' = changed /\ UNCHANGED wreck
  \/ Overlap /\ torn' = TRUE /\ crashed' \in BOOLEAN /\ list' \in SUBSET (list \cup changed)

(* connrbtree_insert asserts that the tree has no node with the same fd.   *)
Insert(fd, type) ==
  IF tree[fd] # NoConn
    THEN crashed' = TRUE /\ UNCHANGED <<tree, torn>>
    ELSE ChangeTree(fd, type)

Link(entry) == ChangeList(list \cup {entry}) /\ silent' = silent \ {entry}

(* connrbtree_getconn finds nothing: there is nothing, or the reconn       *)
(* thread is turning the tree.                                             *)
NotFound(fd) ==
  \/ tree[fd] = NoConn /\ UNCHANGED torn
  \/ Races /\ rpc = "insert" /\ torn' = TRUE

-----------------------------------------------------------------------------
(* Faults that would break it; no specification uses them.                 *)

(* The reconn thread passes over an entry whose descriptor is closed.      *)
ReconnCheckOpen ==
  /\ ReconnAt("check")
  /\ rpc' = IF ListedServers \ Closed # {} THEN "read" ELSE "socket"
  /\ UNCHANGED <<kernel, tree, list, silent, pending, signals, main, rfd, wreck, stale>>

(* The reconn thread looks in the tree for a server connection.            *)
ReconnCheckInTree ==
  /\ ReconnAt("check")
  /\ rpc' = IF \E fd \in Fds : tree[fd] = CONNSOCKETSERVER THEN "read" ELSE "socket"
  /\ UNCHANGED <<kernel, tree, list, silent, pending, signals, main, rfd, wreck, stale>>

(* The new server connection is not announced to the main thread.          *)
ReconnSendForgotten ==
  /\ ReconnAt("send")
  /\ rpc' = "read"
  /\ UNCHANGED <<kernel, tree, list, silent, pending, signals, main, rfd, wreck, stale>>

(* A connection that timed out is only deleted from the table.             *)
TimeoutUnclosed ==
  /\ MainAt("timeouts")
  /\ IF silent \cap list = {}
       THEN mpc' = "dispatch" /\ UNCHANGED <<mfd, mtype>>
       ELSE \E entry \in silent \cap list :
              mpc' = "timeoutDel" /\ mfd' = entry[1] /\ mtype' = entry[2]
  /\ UNCHANGED <<kernel, tree, list, silent, pending, signals, batch, reconn, wreck, stale>>

(* The descriptor of an ended connection is not closed.                    *)
SocketEndUnclosed ==
  /\ MainAt("eofClose")
  /\ MainDone("dispatch")
  /\ UNCHANGED <<kernel, tree, list, silent, pending, signals, batch, reconn, wreck, stale>>

(* accept does not notice that nothing is waiting.                         *)
AcceptUnchecked ==
  /\ MainAt("accept")
  /\ IF Closed # {}
       THEN /\ \E fd \in Fds : Open(fd, "phone") /\ mfd' = fd
            /\ pending' = pending - 1
            /\ mpc' = "acceptInsert"
       ELSE mpc' = "dispatch" /\ UNCHANGED <<sock, pending, mfd>>
  /\ UNCHANGED <<cond, epoll, login, tree, list, silent, signals, mtype, batch, reconn,
                 wreck, stale>>

(* The entry of a connection that ended leaves the tree, not the list.     *)
SocketEndUnlisted ==
  /\ MainAt("eofDel")
  /\ tree' = [tree EXCEPT ![mfd] = NoConn]
  /\ epoll' = epoll \ {mfd}
  /\ mpc' = "eofClose"
  /\ UNCHANGED <<sock, cond, login, list, silent, pending, signals, mfd, mtype, batch,
                 reconn, wreck, stale>>

-----------------------------------------------------------------------------
(* The main thread: eventhub_start *)

(* With no event left to deal with, epoll_wait returns the next.           *)
EpollWait ==
  /\ MainAt("dispatch") /\ batch = {} /\ Ready # {}
  /\ batch' = Ready
  /\ UNCHANGED <<kernel, tree, list, silent, pending, signals, mpc, mfd, mtype, reconn,
                 wreck, stale>>

(* EPOLLERR or EPOLLHUP: close(fd), then event_close(fd).  The event is    *)
(* the one epoll_wait returned; the descriptor is whatever it is by now,   *)
(* and the hang-up stale if that socket has not hung up itself.            *)
SocketError(fd) ==
  /\ MainAt("dispatch") /\ <<"hup", fd>> \in batch
  /\ Close(fd)
  /\ batch' = batch \ {<<"hup", fd>>}
  /\ mpc' = "hupDel" /\ mfd' = fd
  /\ stale' = (stale \/ cond[fd] # "hup")
  /\ UNCHANGED <<tree, list, silent, pending, signals, mtype, reconn, wreck>>

SocketErrorDel ==
  /\ MainAt("hupDel")
  /\ \/ /\ tree[mfd] # NoConn /\ ChangeTree(mfd, NoConn)
        /\ mpc' = "hupUnlink" /\ mtype' = tree[mfd] /\ UNCHANGED mfd
     \/ NotFound(mfd) /\ MainDone("dispatch") /\ UNCHANGED <<tree, crashed>>
  /\ UNCHANGED <<kernel, list, silent, pending, signals, batch, reconn, stale>>

(* list_del_init and freeconnlist_add, the end of each deletion.           *)
Unlink ==
  /\ \E step \in Unlinks : MainAt(step)
  /\ ChangeList(list \ {<<mfd, mtype>>})
  /\ silent' = silent \ {<<mfd, mtype>>}
  /\ \/ mpc = "hupUnlink" /\ MainDone("dispatch")
     \/ mpc = "eofUnlink" /\ mpc' = "eofClose" /\ UNCHANGED <<mfd, mtype>>
     \/ mpc = "timeoutUnlink" /\ MainDone("timeouts")
  /\ UNCHANGED <<kernel, tree, pending, signals, batch, reconn, stale>>

(* EPOLLIN: read() until it has no more, or the end of the stream, or an   *)
(* error because the descriptor was closed.  event_recvmsg refreshes the   *)
(* timestamp.                                                              *)
SocketRead(fd) ==
  /\ MainAt("dispatch") /\ <<"in", fd>> \in batch
  /\ batch' = batch \ {<<"in", fd>>}
  /\ \/ NotFound(fd) /\ UNCHANGED <<cond, silent, mpc, mfd>>
     \/ /\ tree[fd] # NoConn
        /\ sock[fd] = "closed" \/ cond[fd] \in {"eof", "hup"}
        /\ mpc' = "eofDel" /\ mfd' = fd /\ UNCHANGED <<cond, silent, torn>>
     \/ /\ tree[fd] # NoConn
        /\ sock[fd] # "closed" /\ cond[fd] \in {"quiet", "data"}
        /\ cond' = [cond EXCEPT ![fd] = "quiet"]
        /\ silent' = IF cond[fd] = "data" THEN silent \ {<<fd, tree[fd]>>} ELSE silent
        /\ UNCHANGED <<mpc, mfd, torn>>
  /\ UNCHANGED <<sock, epoll, login, tree, list, pending, signals, mtype, reconn, crashed,
                 stale>>

SocketEnd ==
  /\ MainAt("eofDel")
  /\ epoll' = epoll \ {mfd}
  /\ \/ /\ tree[mfd] # NoConn /\ ChangeTree(mfd, NoConn)
        /\ mpc' = "eofUnlink" /\ mtype' = tree[mfd]
     \/ NotFound(mfd) /\ mpc' = "eofClose" /\ UNCHANGED <<mtype, tree, crashed>>
  /\ UNCHANGED <<sock, cond, login, list, silent, pending, signals, mfd, batch, reconn,
                 stale>>

SocketEndClose ==
  /\ MainAt("eofClose")
  /\ Close(mfd)
  /\ MainDone("dispatch")
  /\ UNCHANGED <<tree, list, silent, pending, signals, batch, reconn, wreck, stale>>

(* accept() until it would block or there is no descriptor left.           *)
Listen ==
  /\ MainAt("dispatch") /\ <<"listen", 0>> \in batch
  /\ batch' = batch \ {<<"listen", 0>>}
  /\ mpc' = "accept"
  /\ UNCHANGED <<kernel, tree, list, silent, pending, signals, mfd, mtype, reconn, wreck,
                 stale>>

Accept ==
  /\ MainAt("accept")
  /\ IF pending > 0 /\ Closed # {}
       THEN /\ \E fd \in Fds : Open(fd, "phone") /\ mfd' = fd
            /\ pending' = pending - 1
            /\ mpc' = "acceptInsert"
       ELSE mpc' = "dispatch" /\ UNCHANGED <<sock, pending, mfd>>
  /\ UNCHANGED <<cond, epoll, login, tree, list, silent, signals, mtype, batch, reconn,
                 wreck, stale>>

AcceptInsert ==
  /\ MainAt("acceptInsert")
  /\ Register(mfd)
  /\ Insert(mfd, CONNSOCKETCLIENT)
  /\ mpc' = "acceptLink"
  /\ UNCHANGED <<sock, cond, login, list, silent, pending, signals, mfd, mtype, batch,
                 reconn, stale>>

AcceptLink ==
  /\ MainAt("acceptLink")
  /\ Link(<<mfd, CONNSOCKETCLIENT>>)
  /\ MainDone("accept")
  /\ UNCHANGED <<kernel, tree, pending, signals, batch, reconn, stale>>

(* CECHECK: connlist_checkstatus walks the list and deregisters, closes    *)
(* and deletes every connection that has been silent for too long.         *)
Check ==
  /\ MainAt("dispatch") /\ <<"timer", 0>> \in batch
  /\ batch' = batch \ {<<"timer", 0>>}
  /\ check' = FALSE
  /\ mpc' = "timeouts"
  /\ UNCHANGED <<kernel, tree, list, silent, pending, send, tick, mfd, mtype, reconn,
                 wreck, stale>>

Timeout ==
  /\ MainAt("timeouts")
  /\ IF silent \cap list = {}
       THEN mpc' = "dispatch" /\ UNCHANGED <<mfd, mtype, kernel>>
       ELSE \E entry \in silent \cap list :
              /\ mpc' = "timeoutDel" /\ mfd' = entry[1] /\ mtype' = entry[2]
              /\ Close(entry[1])
  /\ UNCHANGED <<tree, list, silent, pending, signals, batch, reconn, wreck, stale>>

(* The entry comes from the list; if a race has taken it from the tree,    *)
(* rb_erase follows the pointers it has, to nothing or to its death.       *)
TimeoutDel ==
  /\ MainAt("timeoutDel")
  /\ IF tree[mfd] = mtype
       THEN ChangeTree(mfd, NoConn)
       ELSE torn' = TRUE /\ crashed' \in BOOLEAN /\ UNCHANGED tree
  /\ mpc' = "timeoutUnlink"
  /\ UNCHANGED <<kernel, list, silent, pending, signals, mfd, mtype, batch, reconn, stale>>

(* CESEND: the login message goes to the first server connection.          *)
Login ==
  /\ MainAt("dispatch") /\ <<"reconn", 0>> \in batch
  /\ batch' = batch \ {<<"reconn", 0>>}
  /\ send' = FALSE
  /\ IF ListedServers = {}
       THEN UNCHANGED login
       ELSE \E fd \in ListedServers : login' = login \cup ({fd} \ Closed)
  /\ UNCHANGED <<sock, cond, epoll, tree, list, silent, pending, check, tick, mpc, mfd,
                 mtype, reconn, wreck, stale>>

-----------------------------------------------------------------------------
(* The reconn thread: ceconnect, event_reconnect, connectserver, openclient *)

ReconnRead ==
  /\ ReconnAt("read") /\ tick
  /\ tick' = FALSE
  /\ rpc' = "check"
  /\ UNCHANGED <<kernel, tree, list, silent, pending, check, send, main, rfd, wreck, stale>>

(* connlist_check walks the list, one entry ahead.  If that entry is       *)
(* deleted and inserted again meanwhile, the walk goes on from the list's  *)
(* end and misses what it has not seen; if it is only deleted, the walk    *)
(* goes round the free list, and stops at a free entry that was a server's *)
(* or never.                                                               *)
ReconnCheck ==
  /\ ReconnAt("check")
  /\ \/ rpc' = (IF ListedServers # {} THEN "read" ELSE "socket") /\ UNCHANGED torn
     \/ Races /\ mpc \in ListSteps /\ torn' = TRUE /\ rpc' \in {"read", "socket", "hung"}
  /\ UNCHANGED <<kernel, tree, list, silent, pending, signals, main, rfd, crashed, stale>>

ReconnSocket ==
  /\ ReconnAt("socket")
  /\ IF Closed = {}
       THEN rpc' = "read" /\ UNCHANGED <<sock, rfd>>
       ELSE rpc' = "connect" /\ \E fd \in Fds : Open(fd, "server") /\ rfd' = fd
  /\ UNCHANGED <<cond, epoll, login, tree, list, silent, pending, signals, main, wreck,
                 stale>>

(* gethostbyname_r fails: openclient returns without closing the socket.   *)
ReconnNoName ==
  /\ ReconnAt("connect")
  /\ sock' = IF sock[rfd] = "server" THEN [sock EXCEPT ![rfd] = "leaked"] ELSE sock
  /\ ReconnDone("read")
  /\ UNCHANGED <<cond, epoll, login, tree, list, silent, pending, signals, main, wreck,
                 stale>>

ReconnConnect ==
  /\ ReconnAt("connect") /\ sock[rfd] = "server"
  /\ rpc' = "insert"
  /\ UNCHANGED <<kernel, tree, list, silent, pending, signals, main, rfd, wreck, stale>>

(* connect fails, for want of a server or because the descriptor has been  *)
(* closed or given to another socket meanwhile; close(sockfd).             *)
ReconnRefused ==
  /\ ReconnAt("connect")
  /\ Close(rfd)
  /\ ReconnDone("read")
  /\ UNCHANGED <<tree, list, silent, pending, signals, main, wreck, stale>>

ReconnInsert ==
  /\ ReconnAt("insert")
  /\ Insert(rfd, CONNSOCKETSERVER)
  /\ rpc' = "link"
  /\ UNCHANGED <<kernel, list, silent, pending, signals, main, rfd, stale>>

ReconnLink ==
  /\ ReconnAt("link")
  /\ Link(<<rfd, CONNSOCKETSERVER>>)
  /\ rpc' = "register"
  /\ UNCHANGED <<kernel, tree, pending, signals, main, rfd, stale>>

ReconnRegister ==
  /\ ReconnAt("register")
  /\ Register(rfd)
  /\ ReconnDone("send")
  /\ UNCHANGED <<sock, cond, login, tree, list, silent, pending, signals, main, wreck,
                 stale>>

ReconnSend ==
  /\ ReconnAt("send")
  /\ send' = TRUE
  /\ rpc' = "read"
  /\ UNCHANGED <<kernel, tree, list, silent, pending, check, tick, main, rfd, wreck, stale>>

-----------------------------------------------------------------------------
(* The environment *)

(* SIGALRM: checkstatus writes to both pipes.                              *)
Tick ==
  /\ ~crashed
  /\ ~check \/ ~tick
  /\ check' = TRUE /\ tick' = TRUE
  /\ UNCHANGED <<kernel, tree, list, silent, pending, send, main, reconn, wreck, stale>>

Phone ==
  /\ ~crashed
  /\ pending < MaxPending
  /\ pending' = pending + 1
  /\ UNCHANGED <<kernel, tree, list, silent, signals, main, reconn, wreck, stale>>

(* Something arrives on a socket, or it ends.  A socket that is still      *)
(* connecting has no peer yet, and a leaked one will never have one.       *)
Alive(fd) ==
  /\ ~crashed
  /\ sock[fd] \in {"phone", "server"}
  /\ ~(sock[fd] = "server" /\ rpc = "connect" /\ fd = rfd)

Data(fd) ==
  /\ Alive(fd) /\ cond[fd] = "quiet"
  /\ cond' = [cond EXCEPT ![fd] = "data"]
  /\ UNCHANGED <<sock, epoll, login, tree, list, silent, pending, signals, main, reconn,
                 wreck, stale>>

End(fd) ==
  /\ Alive(fd) /\ cond[fd] \in {"quiet", "data"}
  /\ \E e \in Endings : cond' = [cond EXCEPT ![fd] = e]
  /\ UNCHANGED <<sock, epoll, login, tree, list, silent, pending, signals, main, reconn,
                 wreck, stale>>

(* A live connection falls silent; one whose descriptor is closed always   *)
(* does in the end.  It takes three minutes: the reconn thread registers a *)
(* connection it has inserted sooner than that.                            *)
FallsSilent(fd) ==
  /\ ~crashed /\ ~(rpc = "register" /\ fd = rfd)
  /\ \E entry \in list \ silent : entry[1] = fd /\ silent' = silent \cup {entry}
  /\ UNCHANGED <<kernel, tree, list, pending, signals, main, reconn, wreck, stale>>

Silence(fd)     == fd \notin Closed /\ FallsSilent(fd)
DeadSilence(fd) == fd \in Closed /\ FallsSilent(fd)

-----------------------------------------------------------------------------
Main ==
  \/ EpollWait \/ SocketErrorDel \/ SocketEnd \/ SocketEndClose \/ Unlink
  \/ Listen \/ Accept \/ AcceptInsert \/ AcceptLink \/ Check \/ Timeout \/ TimeoutDel
  \/ Login
  \/ \E fd \in Fds : SocketError(fd) \/ SocketRead(fd)

Reconn ==
  \/ ReconnRead \/ ReconnCheck \/ ReconnSocket \/ ReconnNoName \/ ReconnConnect
  \/ ReconnRefused \/ ReconnInsert \/ ReconnLink \/ ReconnRegister \/ ReconnSend

Environment ==
  \/ Tick \/ Phone
  \/ \E fd \in Fds : Data(fd) \/ End(fd) \/ Silence(fd) \/ DeadSilence(fd)

Next == Main \/ Reconn \/ Environment

Spec == Init /\ [][Next]_vars

(* Both threads run, the timer goes off, a connection that can receive     *)
(* nothing is silent in the end, and a server that is tried over and over  *)
(* answers again.                                                          *)
Fairness ==
  /\ WF_vars(Main)
  /\ WF_vars(Reconn)
  /\ WF_vars(Tick)
  /\ \A fd \in Fds : WF_vars(DeadSilence(fd))
  /\ SF_vars(ReconnConnect)

FairSpec == Spec /\ Fairness

-----------------------------------------------------------------------------
TypeOK ==
  /\ sock \in [Fds -> {"closed", "phone", "server", "leaked"}]
  /\ cond \in [Fds -> {"quiet", "data", "eof", "hup"}]
  /\ epoll \subseteq Fds /\ login \subseteq Fds
  /\ tree \in [Fds -> Types \cup {NoConn}]
  /\ list \subseteq Entries /\ silent \subseteq Entries
  /\ pending \in 0..MaxPending
  /\ check \in BOOLEAN /\ send \in BOOLEAN /\ tick \in BOOLEAN
  /\ mpc \in {"dispatch", "eofClose", "accept", "timeouts"}
             \cup TreeSteps \cup ListSteps
  /\ mfd \in Fds \cup {0} /\ mtype \in Types \cup {NoConn}
  /\ batch \subseteq {"hup", "in"} \X Fds \cup {"listen", "timer", "reconn"} \X {0}
  /\ rpc \in {"read", "check", "socket", "connect", "insert", "link", "register", "send",
              "hung"}
  /\ rfd \in Fds \cup {0}
  /\ crashed \in BOOLEAN /\ torn \in BOOLEAN /\ stale \in BOOLEAN

(* There is at most one connection to the server, in the tree, on the list *)
(* or about to be inserted, although the thread that looks for one and the *)
(* thread that deletes it share no lock.  A walk or a change that another  *)
(* thread's change overlaps may break this, and nothing else: neither the  *)
(* two steps of an insertion or deletion, nor a stale hang-up.             *)
AnyServers ==
  ListedServers \cup {fd \in Fds : tree[fd] = CONNSOCKETSERVER}
Brought == IF rpc \in {"connect", "insert"} THEN {rfd} ELSE {}
OneServer == ~torn => Cardinality(AnyServers \cup Brought) <= 1

(* Look-ups in the tree and walks of the list see the same connections,    *)
(* but for those that a thread has put into the tree and not on the list   *)
(* yet, or taken out of the tree and not off the list, again until a race  *)
(* is lost.                                                                *)
Halfway(entry) ==
  \/ rpc = "link" /\ entry = <<rfd, CONNSOCKETSERVER>>
  \/ mpc = "acceptLink" /\ entry = <<mfd, CONNSOCKETCLIENT>>
  \/ mpc \in Unlinks /\ entry = <<mfd, mtype>>
TreeIsList ==
  ~torn => \A entry \in Entries :
    (tree[entry[1]] = entry[2] <=> entry \in list) \/ Halfway(entry)

(* Every descriptor that epoll watches has a connection, unless the main   *)
(* thread is about to insert it or to close it: with level triggering, an  *)
(* event nobody handles would keep it spinning in epoll_wait for ever.     *)
(* A lost race, or a hang-up whose descriptor the time-out has closed and  *)
(* another socket got since, may break this; nothing else does.            *)
Astray == torn \/ stale
MainHolds(fd) == fd = mfd /\ mpc \in {"acceptInsert", "eofUnlink", "eofClose"}
PolledIsOwned ==
  ~Astray => \A fd \in epoll : tree[fd] # NoConn \/ MainHolds(fd)

(* Every open socket is in the tree, or in the hands of a thread between   *)
(* opening it and inserting it or between deleting and closing it; only    *)
(* the failed look-up of the server's name loses one.  Stated, as above,   *)
(* up to a lost race or a stale hang-up.                                   *)
SocketsOwned ==
  ~Astray => \A fd \in Fds :
    sock[fd] # "closed" =>
      \/ tree[fd] # NoConn
      \/ sock[fd] = "server" /\ fd = rfd /\ rpc \in {"connect", "insert"}
      \/ MainHolds(fd)
      \/ sock[fd] = "leaked"

(* The assertion of connrbtree_insert (connection.c:193): the tree never   *)
(* has a node with the descriptor that is being inserted.                  *)
NoAssertionFails == ~crashed

(* However often the connection to the server is lost or refused, there is *)
(* one again that epoll watches, as long as the server can be reached now  *)
(* and then.  Two things can end that, both by a loss of descriptors: name *)
(* look-ups that fail (socket.c:110) until they have cost all of them, and *)
(* a stale hang-up, after which the entry of a connection just made may be *)
(* deleted and its socket stay open (eventhub.c:80).  Nothing else does.   *)
ServerUp ==
  \E fd \in epoll : sock[fd] = "server" /\ tree[fd] = CONNSOCKETSERVER
Exhausted == \A fd \in Fds : sock[fd] = "leaked"
ServerComesBack == []<>(ServerUp \/ Exhausted \/ stale)

(* A connection to the server that stays is announced with a login.        *)
LoginFollows ==
  \A fd \in Fds :
    fd \in ListedServers \ Closed ~> fd \in login \/ fd \notin ListedServers
=============================================================================
