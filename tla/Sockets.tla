------------------------------ MODULE Sockets ------------------------------
(***************************************************************************)
(* Sockets and descriptors (src/src/net/socket.cpp, the descriptor table   *)
(* of src/src/manager/handle.cpp) in the daemon of src/src/boot/           *)
(* command.cpp: it binds, listens, starts an io_schedule, and accepts and  *)
(* closes clients for ever.  The users are threads of the io_schedule,     *)
(* which take no task before start() has returned: each has a Socket of    *)
(* its own at a time, to connect to others.                                *)
(*                                                                         *)
(* A Socket is its m_socket and m_isconnected: close() believes the flag,  *)
(* forgets neither the number nor, in the table, the entry, and what is    *)
(* not connected is never closed.  The kernel gives out the lowest number  *)
(* that is free, and makes connections in its own time: a connect() that   *)
(* waits is told of it, one that does not has returned by then.  Whatever  *)
(* is sent, received or written changes nothing here, a peer that closes   *)
(* leaves the descriptor, and a call that fails without an effect is no    *)
(* step.                                                                   *)
(***************************************************************************)
EXTENDS Naturals, Integers, Sequences, SequencesExt, FiniteSets, FiniteSetsExt

CONSTANTS
  Users,          (* the threads that connect                              *)
  Kinds,          (* which Sockets each makes: tcp that waits, or not, udp *)
  Clients,        (* those who connect to the daemon                       *)
  Limit,          (* how many descriptors a process may have               *)
  SchedulerFds,   (* how many of them an io_schedule has                   *)
  TableSize       (* of the descriptor table in the beginning              *)

ASSUME SocketAssumption ==
  /\ {Limit, SchedulerFds, TableSize} \subseteq Nat \ {0} /\ Limit > SchedulerFds + 1
  /\ Users \intersect {"server", "accepted", "none"} = {}
  /\ Kinds \in [Users -> SUBSET {"block", "noblock", "udp"}]

VARIABLES
  desc,           (* the kernel's: what each descriptor is                 *)
  maker,          (* history: which Socket each was made for, or "none"    *)
  reused,         (* history: the numbers a Socket has called connect()    *)
                  (* with after they had become another's                  *)
  m_socket, m_isconnected,
  alive,          (* the users that have a Socket                          *)
  calling,        (* where each user is in connect()                       *)
  m_fds, size,    (* the entries and the size of the descriptor table      *)
  pc,             (* where the daemon is                                   *)
  fd,             (* the descriptor Accept() has got                       *)
  bound,          (* is its address the one the clients know?              *)
  queue           (* the clients that wait, in order                       *)

kernel == <<desc, maker, calling>>
sockets == <<m_socket, m_isconnected>>
users == <<alive, reused>>
table == <<m_fds, size>>
daemon == <<fd, bound, queue>>
vars == <<kernel, sockets, users, table, pc, daemon>>

Fds == 0..Limit - 1

(* The daemon's Socket, and the one that Accept() returns.                 *)
Objects == {"server", "accepted"} \union Users

Free == {f \in Fds : desc[f] = "free"}

NoFds == [f \in Fds |-> "free"]

NoMakers == [f \in Fds |-> "none"]

NoCalls == [u \in Users |-> "no"]

NoNumbers == [o \in Objects |-> -1]

NoFlags == [o \in Objects |-> FALSE]

Init ==
  /\ desc = NoFds /\ maker = NoMakers /\ calling = NoCalls
  /\ m_socket = NoNumbers /\ m_isconnected = NoFlags
  /\ alive = {} /\ reused = {} /\ m_fds = {} /\ size = TableSize
  /\ pc = "create" /\ fd = -1 /\ bound = FALSE /\ queue = <<>>

-----------------------------------------------------------------------------
(* Socket                                                                  *)

(* Socket::Socket; socket() may fail.                                      *)
NewSocket(o, kind) ==
  LET new == IF Free = {} THEN -1 ELSE Min(Free) IN
  /\ m_socket' = [m_socket EXCEPT ![o] = new]
  /\ m_isconnected' = [m_isconnected EXCEPT ![o] = FALSE]
  /\ desc' = [f \in Fds |-> IF f = new THEN kind ELSE desc[f]]
  /\ maker' = [f \in Fds |-> IF f = new THEN o ELSE maker[f]]
  /\ UNCHANGED calling

(* ::close().  A connect() that waits keeps its socket without a number.   *)
Freed(f) ==
  /\ desc' = [desc EXCEPT ![f] = "free"]
  /\ maker' = [maker EXCEPT ![f] = "none"]
  /\ calling' = [u \in Users |->
       IF calling[u] = "waits" /\ m_socket[u] = f THEN "waits for none" ELSE calling[u]]

(* Mutant: m_isconnected is not reset.                                     *)
CloseAndStayConnected(o) ==
  /\ IF m_isconnected[o] THEN Freed(m_socket[o]) ELSE UNCHANGED kernel
  /\ UNCHANGED m_isconnected

(* Socket::close, which its destructor calls too.                          *)
Close(o) ==
  /\ IF m_isconnected[o] THEN Freed(m_socket[o]) ELSE UNCHANGED kernel
  /\ m_isconnected' = [m_isconnected EXCEPT ![o] = FALSE]

(* With the object its number is gone.                                     *)
Delete(o) == Close(o) /\ m_socket' = [m_socket EXCEPT ![o] = -1]

(* What connect() makes of a socket, and where it leaves the caller: it    *)
(* begins a connection, and waits for it or fails; it waits for the one    *)
(* that another call has begun; or it succeeds, as with every udp socket.  *)
Outcome(kind) ==
  CASE kind \in {"block", "trying"}     -> <<"trying", "waits">>
    [] kind = "noblock"                 -> <<"pending", "no">>
    [] kind = "made"                    -> <<"connected", "returned">>
    [] kind \in {"udp", "udp connected"} -> <<"udp connected", "returned">>

(* With whatever the number stands for by now.                             *)
ConnectCall(u) ==
  LET f == m_socket[u] IN
  /\ u \in alive /\ f # -1
  /\ desc[f] \in {"block", "noblock", "udp", "trying", "made", "udp connected"}
  /\ desc' = [desc EXCEPT ![f] = Outcome(desc[f])[1]]
  /\ calling' = [calling EXCEPT ![u] = Outcome(desc[f])[2]]
  /\ reused' = IF maker[f] # u THEN reused \union {f} ELSE reused
  /\ UNCHANGED <<maker, sockets, alive>>

(* A connect() that waited comes back, with a connection or without.       *)
Return(u, to) ==
  /\ calling' = [calling EXCEPT ![u] = to]
  /\ UNCHANGED <<maker, sockets, alive, reused>>

ConnectReturn(u) ==
  LET f == m_socket[u] IN
  \/ /\ calling[u] = "waits" /\ desc[f] \in {"made", "connected"}
     /\ desc' = [desc EXCEPT ![f] = "connected"] /\ Return(u, "returned")
  \/ calling[u] = "waits" /\ desc[f] = "block" /\ Return(u, "no") /\ UNCHANGED desc
  \/ /\ calling[u] = "waits for none" /\ UNCHANGED desc
     /\ \E to \in {"returned", "no"} : Return(u, to)

(* The rest of Connect().                                                  *)
Connected(u) ==
  /\ calling[u] = "returned"
  /\ calling' = [calling EXCEPT ![u] = "no"]
  /\ m_isconnected' = [m_isconnected EXCEPT ![u] = TRUE]
  /\ UNCHANGED <<desc, maker, m_socket, alive, reused>>

Make(u) ==
  /\ u \notin alive /\ alive' = alive \union {u}
  /\ \E kind \in Kinds[u] : NewSocket(u, kind)
  /\ UNCHANGED reused

close(u) == m_isconnected[u] /\ Close(u) /\ UNCHANGED <<m_socket, alive, reused>>

Destroy(u) == u \in alive /\ Delete(u) /\ alive' = alive \ {u} /\ UNCHANGED reused

User(u) ==
  /\ pc \in {"accept", "make", "init", "close"}
  /\ \/ calling[u] = "no" /\ (Make(u) \/ ConnectCall(u) \/ close(u) \/ Destroy(u))
     \/ ConnectReturn(u) \/ Connected(u)
  /\ UNCHANGED <<table, pc, daemon>>

(* The kernel makes a connection that is asked for, or gives up.           *)
Kernel(f) ==
  /\ \/ desc[f] = "trying" /\ \E to \in {"made", "block"} : desc' = [desc EXCEPT ![f] = to]
     \/ desc[f] = "pending" /\ \E to \in {"made", "noblock"} : desc' = [desc EXCEPT ![f] = to]
  /\ UNCHANGED <<maker, calling, sockets, users, table, pc, daemon>>

-----------------------------------------------------------------------------
(* The daemon                                                              *)

Go(from, to) == pc = from /\ pc' = to

Create ==
  /\ Go("create", "bind") /\ NewSocket("server", "block")
  /\ UNCHANGED <<users, table, daemon>>

(* Nobody looks at the result, and the address may be in use, by another   *)
(* process or still by the one before.                                     *)
Bind ==
  /\ Go("bind", "listen") /\ bound' \in BOOLEAN
  /\ UNCHANGED <<kernel, sockets, users, table, fd, queue>>

Listen ==
  /\ Go("listen", "start")
  /\ desc' = [desc EXCEPT ![m_socket["server"]] = "listening"]
  /\ UNCHANGED <<maker, calling, sockets, users, table, daemon>>

(* new io_schedule: a pipe and an epoll instance.  Its start() may wait    *)
(* for a notification that has been given before (thread.cpp:27).          *)
StartScheduler ==
  /\ \E to \in {"accept", "hung"} : Go("start", to)
  /\ \E taken \in kSubset(SchedulerFds, Free) :
       /\ \A f \in taken, g \in Free \ taken : f < g
       /\ desc' = [f \in Fds |-> IF f \in taken THEN "other" ELSE desc[f]]
  /\ UNCHANGED <<maker, calling, sockets, users, table, daemon>>

(* int fd=accept(...), which fails if no descriptor is free.               *)
AcceptCall ==
  /\ Go("accept", "make")
  /\ bound /\ queue # <<>> /\ Free # {}
  /\ queue' = Tail(queue)
  /\ fd' = Min(Free)
  /\ desc' = [desc EXCEPT ![Min(Free)] = "connected"]
  /\ maker' = [maker EXCEPT ![Min(Free)] = "accepted"]
  /\ UNCHANGED <<calling, sockets, users, table, bound>>

(* new Socket(m_type,m_family)                                             *)
MakeAccepted ==
  /\ Go("make", "init") /\ NewSocket("accepted", "noblock")
  /\ UNCHANGED <<users, table, daemon>>

(* Mutant: a descriptor of just the size is taken to fit.                  *)
GrownLate(f) == IF f > size THEN f * 2 ELSE size

Grown(f) == IF f >= size THEN f * 2 ELSE size

(* What fstat() tells.                                                     *)
IsSocket(f) == desc[f] \notin {"free", "other"}

(* handle::AddFd for a socket                                              *)
AddFd(f) ==
  /\ size' = Grown(f)
  /\ m_fds' = IF IsSocket(f) THEN m_fds \union {f} ELSE m_fds

(* Mutant: the socket that is returned does not know it is connected.      *)
InitUnconnected(f) ==
  /\ m_socket' = [m_socket EXCEPT !["accepted"] = f]
  /\ m_isconnected' = [m_isconnected EXCEPT !["server"] = TRUE]

(* InitSocket(fd) gives the new Socket the accepted descriptor instead of  *)
(* its own, and Accept() sets a flag of the listening one.                 *)
InitSocket(f) ==
  /\ m_socket' = [m_socket EXCEPT !["accepted"] = f]
  /\ m_isconnected' = [m_isconnected EXCEPT !["accepted"] = TRUE, !["server"] = TRUE]

Accepted ==
  /\ pc = "init" /\ AddFd(fd)
  /\ IF IsSocket(fd) THEN Go("init", "close") /\ InitSocket(fd) /\ UNCHANGED kernel
     ELSE Go("init", "accept") /\ Delete("accepted")
  /\ fd' = -1
  /\ UNCHANGED <<users, bound, queue>>

(* test->close(), and its destructor.                                      *)
CloseAccepted ==
  /\ Go("close", "accept") /\ Delete("accepted")
  /\ UNCHANGED <<users, table, daemon>>

Daemon ==
  \/ Create \/ Bind \/ Listen \/ StartScheduler
  \/ AcceptCall \/ MakeAccepted \/ Accepted \/ CloseAccepted

(* The process ends and is started once more; who waited tries again.      *)
Restart ==
  /\ desc' = NoFds /\ maker' = NoMakers /\ calling' = NoCalls
  /\ m_socket' = NoNumbers /\ m_isconnected' = NoFlags
  /\ alive' = {} /\ reused' = {} /\ m_fds' = {} /\ size' = TableSize
  /\ pc' = "create" /\ fd' = -1 /\ bound' = FALSE
  /\ UNCHANGED queue

Arrive(c) ==
  /\ c \notin ToSet(queue)
  /\ queue' = Append(queue, c)
  /\ UNCHANGED <<kernel, sockets, users, table, pc, fd, bound>>

Next ==
  \/ Daemon
  \/ Restart
  \/ \E u \in Users : User(u)
  \/ \E f \in Fds : Kernel(f)
  \/ \E c \in Clients : Arrive(c)

Spec == Init /\ [][Next]_vars /\ WF_vars(Daemon)

-----------------------------------------------------------------------------
(* Properties                                                              *)

TypeOK ==
  /\ desc \in [Fds -> {"free", "other", "block", "noblock", "udp", "trying", "pending", "made",
                      "connected", "udp connected", "listening"}]
  /\ maker \in [Fds -> Objects \union {"none"}] /\ \A f \in Free : maker[f] = "none"
  /\ m_socket \in [Objects -> Fds \union {-1}] /\ m_isconnected \in [Objects -> BOOLEAN]
  /\ calling \in [Users -> {"no", "waits", "waits for none", "returned"}]
  /\ alive \subseteq Users /\ reused \subseteq Fds
  /\ m_fds \subseteq Fds /\ size \in Nat
  /\ pc \in {"create", "bind", "listen", "start", "hung", "accept", "make", "init", "close"}
  /\ fd \in Fds \union {-1} /\ bound \in BOOLEAN
  /\ queue \in Seq(Clients)

(* The Sockets that believe to be connected.                               *)
Believers == {o \in Objects \ {"server"} : m_isconnected[o]}

(* The connections that a connect() or accept() has reported.              *)
Reported == {f \in Fds : desc[f] \in {"connected", "udp connected"}}

(* A Socket that believes to be connected is the only one to have its      *)
(* connection, so that nobody closes another's (socket.cpp:167-175): this  *)
(* is only so for a number that no Socket has connected again after        *)
(* close(), when it stood for another's socket, since close() does not     *)
(* forget the number.                                                      *)
ConnectedIsOwn ==
  /\ TypeOK
  /\ \A o \in Believers : m_socket[o] \notin reused =>
       /\ m_socket[o] \in Reported
       /\ \A p \in Believers \ {o} : m_socket[p] # m_socket[o]

(* The descriptors that are lost (socket.cpp:31, 76, 157) are those of     *)
(* sockets that no call has reported to be connected: a reported           *)
(* connection has a Socket that will close it, or Connect() or Accept() is *)
(* about to note it, for all numbers but the same ones.  What a connect()  *)
(* that did not wait has begun is not reported before connect() is called  *)
(* once more, and it is lost with a Socket that has not done so.           *)
NoReportedLost ==
  \A f \in Reported \ reused :
    \/ \E o \in Believers : m_socket[o] = f
    \/ \E u \in Users : calling[u] = "returned" /\ m_socket[u] = f
    \/ pc \in {"make", "init"} /\ f = fd

(* What Accept() returns is in the descriptor table, and the entries are   *)
(* within the table, which has grown before (handle.cpp:86-94).            *)
AcceptedIsRegistered ==
  /\ m_isconnected["accepted"] => m_socket["accepted"] \in m_fds
  /\ \A f \in m_fds : f < size

(* The daemon loses a descriptor with nearly every client, and yet never   *)
(* the last one: every client is served, unless the process crashes again  *)
(* and again, the address was in use when it tried to bind                 *)
(* (command.cpp:62), start() has hung (command.cpp:65), or no descriptor   *)
(* is left because users of sockets have, or have lost, some.              *)
EveryClientServed ==
  <>[][~Restart]_vars =>
    \A c \in Clients :
      c \in ToSet(queue) ~> \/ c \notin ToSet(queue)
                            \/ pc = "accept" /\ ~bound
                            \/ pc = "hung"
                            \/ Free = {} /\ \E f \in Fds : maker[f] \in Users

=============================================================================
