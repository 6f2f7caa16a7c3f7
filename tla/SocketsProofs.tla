---------------------------- MODULE SocketsProofs ----------------------------
(***************************************************************************)
(* Proofs about Sockets, for any number of users, clients and descriptors. *)
(***************************************************************************)
EXTENDS Sockets, SequenceTheorems, WellFoundedInduction, TLAPS

(* The lowest number of a set is in it.                                    *)
LEMMA MinIsIn ==
  ASSUME NEW S \in SUBSET Nat, S # {}
  PROVE  Min(S) \in S /\ \A y \in S : Min(S) <= y
<1> DEFINE R == OpToRel(<, Nat)
<1>1. IsWellFoundedOn(R, Nat)
  BY NatLessThanWellFounded
<1>2. \A x, y \in Nat : <<y, x>> \in R <=> y < x
  BY DEF OpToRel
<1> HIDE DEF R
<1>3. \E x \in S : \A y \in S : ~(<<y, x>> \in R)
  BY <1>1, WFMin
<1>4. \E x \in S : \A y \in S : x <= y
  <2>1. PICK x \in S : \A y \in S : ~(<<y, x>> \in R)
    BY <1>3
  <2>2. ASSUME NEW y \in S PROVE x <= y
    <3>1. x \in Nat /\ y \in Nat
      OBVIOUS
    <3>2. ~(y < x)
      BY <1>2, <2>1, <3>1
    <3>3. QED
      BY <3>1, <3>2
  <2>3. QED
    BY <2>2
<1>5. QED
  BY <1>4 DEF Min

States == {"free", "other", "block", "noblock", "udp", "trying", "pending", "made", "connected",
           "udp connected", "listening"}

(* A Socket has its number for itself, and with it a reported connection,  *)
(* unless the number is a reused one.                                      *)
Holds(o) ==
  /\ m_socket[o] \in Fds
  /\ m_socket[o] \notin reused => maker[m_socket[o]] = o /\ m_socket[o] \in Reported

(* Likewise for a connect() that waits.                                    *)
Waits(u) ==
  /\ m_socket[u] \in Fds
  /\ m_socket[u] \notin reused =>
       maker[m_socket[u]] = u /\ desc[m_socket[u]] \in {"block", "trying", "made", "connected"}

(* What Accept() has just got is nobody else's.                            *)
Got ==
  fd \in Fds /\ (fd \notin reused => maker[fd] = "accepted" /\ desc[fd] = "connected")

(* Only who has a Socket can be connected, or in connect().                *)
Lives == \A u \in Users : m_isconnected[u] \/ calling[u] # "no" => u \in alive

Owned ==
  /\ Lives
  /\ m_isconnected["accepted"] => pc = "close"
  /\ \A o \in Objects : o \in Believers => Holds(o)
  /\ \A u \in Users : calling[u] = "returned" => Holds(u)
  /\ \A u \in Users : calling[u] = "waits" => Waits(u)
  /\ \A u \in Users : calling[u] = "waits for none" => m_socket[u] \in Fds \intersect reused
  /\ pc \in {"make", "init"} => Got

(* Before the daemon accepts nothing is connected.                         *)
Starting == pc \in {"create", "bind", "listen", "start", "hung"}

Unconnected ==
  Starting => /\ \A o \in Objects : m_isconnected[o] = FALSE
              /\ \A u \in Users : calling[u] = "no"
              /\ Reported = {}

Fits == size # 0 /\ AcceptedIsRegistered

SocketInv == TypeOK /\ Owned /\ Unconnected /\ NoReportedLost /\ Fits

LEMMA ObjectsApart ==
  /\ "server" \in Objects /\ "accepted" \in Objects /\ Users \subseteq Objects
  /\ "server" \notin Users /\ "accepted" \notin Users /\ "none" \notin Objects
  /\ Objects \ {"server"} = {"accepted"} \union Users
  /\ TableSize \in Nat /\ TableSize # 0 /\ Limit \in Nat
  /\ Fds \subseteq Nat /\ -1 \notin Fds /\ 0 \in Fds
  /\ \A u \in Users : Kinds[u] \subseteq {"block", "noblock", "udp"}
BY SocketAssumption DEF Objects, Fds

LEMMA StillFalse ==
  ASSUME NEW f, f \in [Objects -> BOOLEAN], NEW o \in Objects, ~f[o]
  PROVE  [f EXCEPT ![o] = FALSE] = f
<1>1. \A p \in Objects : [f EXCEPT ![o] = FALSE][p] = f[p]
  OBVIOUS
<1>2. QED
  BY <1>1

LEMMA SocketInit == Init => SocketInv
<1> SUFFICES ASSUME Init PROVE SocketInv
  OBVIOUS
<1>1. TypeOK
  <2>1. queue \in Seq(Clients)
    BY EmptySeq DEF Init
  <2>2. /\ desc \in [Fds -> States] /\ maker \in [Fds -> Objects \union {"none"}]
        /\ \A f \in Free : maker[f] = "none"
        /\ m_socket \in [Objects -> Fds \union {-1}]
        /\ m_isconnected \in [Objects -> BOOLEAN]
        /\ calling \in [Users -> {"no", "waits", "waits for none", "returned"}]
    BY DEF Init, NoFds, NoMakers, NoNumbers, NoFlags, NoCalls, States, Free
  <2>3. QED
    BY <2>1, <2>2, ObjectsApart DEF Init, TypeOK, States
<1>2. Believers = {} /\ Reported = {} /\ \A u \in Users : calling[u] = "no"
  BY DEF Init, Believers, Reported, NoFlags, NoFds, NoCalls
<1>3. Owned
  BY <1>2, ObjectsApart DEF Init, Owned, Lives, NoFlags
<1>4. Unconnected /\ NoReportedLost
  BY <1>2 DEF Init, Unconnected, NoReportedLost, NoFlags
<1>5. Fits
  BY ObjectsApart DEF Init, Fits, AcceptedIsRegistered, NoFlags
<1>6. QED
  BY <1>1, <1>3, <1>4, <1>5 DEF SocketInv

-----------------------------------------------------------------------------
(* The operations of a Socket.                                             *)

(* socket() changes nothing but a free descriptor.                         *)
LEMMA NewSocketFacts ==
  ASSUME TypeOK, NEW o \in Objects, NEW kind \in {"block", "noblock", "udp"}, NewSocket(o, kind)
  PROVE  /\ desc' \in [Fds -> States]
         /\ maker' \in [Fds -> Objects \union {"none"}] /\ \A f \in Free' : maker'[f] = "none"
         /\ m_socket' \in [Objects -> Fds \union {-1}]
         /\ m_isconnected' = [m_isconnected EXCEPT ![o] = FALSE]
         /\ calling' = calling
         /\ \A p \in Objects \ {o} : m_socket'[p] = m_socket[p]
         /\ Reported' = Reported
         /\ \A f \in Fds : desc[f] # "free" => desc'[f] = desc[f] /\ maker'[f] = maker[f]
<1> DEFINE new == IF Free = {} THEN -1 ELSE Min(Free)
<1>1. new \in Fds \union {-1} /\ (new # -1 => desc[new] = "free")
  <2>1. CASE Free = {}
    BY <2>1, ObjectsApart
  <2>2. CASE Free # {}
    <3>1. Free \subseteq Nat /\ Free \subseteq Fds
      BY ObjectsApart DEF Free
    <3>2. Min(Free) \in Free
      BY <2>2, <3>1, MinIsIn
    <3>3. QED
      BY <2>2, <3>2 DEF Free
  <2>3. QED
    BY <2>1, <2>2
<1>2. /\ m_socket' = [m_socket EXCEPT ![o] = new]
      /\ m_isconnected' = [m_isconnected EXCEPT ![o] = FALSE]
      /\ desc' = [f \in Fds |-> IF f = new THEN kind ELSE desc[f]]
      /\ maker' = [f \in Fds |-> IF f = new THEN o ELSE maker[f]]
      /\ calling' = calling
  BY DEF NewSocket
<1> HIDE DEF new
<1>3. desc' \in [Fds -> States]
  BY <1>2 DEF TypeOK, States
<1>4. maker' \in [Fds -> Objects \union {"none"}] /\ \A f \in Free' : maker'[f] = "none"
  BY <1>2 DEF TypeOK, Free
<1>5. m_socket' \in [Objects -> Fds \union {-1}]
  BY <1>1, <1>2 DEF TypeOK
<1>6. \A p \in Objects \ {o} : m_socket'[p] = m_socket[p]
  BY <1>2 DEF TypeOK
<1>7. \A f \in Fds : desc[f] # "free" => desc'[f] = desc[f] /\ maker'[f] = maker[f]
  BY <1>1, <1>2, ObjectsApart
<1>8. \A f \in Fds : desc'[f] \in {"connected", "udp connected"}
                       <=> desc[f] \in {"connected", "udp connected"}
  BY <1>1, <1>2, ObjectsApart
<1>9. Reported' = Reported
  BY <1>8 DEF Reported
<1>10. QED
  BY <1>2, <1>3, <1>4, <1>5, <1>6, <1>7, <1>9

(* Close() frees the number of a Socket that believes to be connected, and *)
(* leaves who waits with it without one.                                   *)
LEMMA CloseFacts ==
  ASSUME TypeOK, Owned, NEW o \in Objects \ {"server"}, Close(o)
  PROVE  /\ desc' \in [Fds -> States]
         /\ maker' \in [Fds -> Objects \union {"none"}] /\ \A f \in Free' : maker'[f] = "none"
         /\ m_isconnected' = [m_isconnected EXCEPT ![o] = FALSE]
         /\ Believers' = Believers \ {o}
         /\ \A f \in Fds : ~(o \in Believers /\ f = m_socket[o]) =>
              desc'[f] = desc[f] /\ maker'[f] = maker[f]
         /\ o \in Believers => desc'[m_socket[o]] = "free"
         /\ calling' \in [Users -> {"no", "waits", "waits for none", "returned"}]
         /\ \A u \in Users :
              \/ calling'[u] = calling[u]
                   /\ ~(calling[u] = "waits" /\ o \in Believers /\ m_socket[u] = m_socket[o])
              \/ /\ calling[u] = "waits" /\ calling'[u] = "waits for none"
                 /\ o \in Believers /\ m_socket[u] = m_socket[o]
<1>1. m_isconnected' = [m_isconnected EXCEPT ![o] = FALSE]
  BY DEF Close
<1>2. Believers' = Believers \ {o}
  BY <1>1 DEF Believers, TypeOK
<1>3. CASE m_isconnected[o]
  <2>1. o \in Believers /\ m_socket[o] \in Fds
    BY <1>3 DEF Owned, Believers, Holds
  <2>2. /\ desc' = [desc EXCEPT ![m_socket[o]] = "free"]
        /\ maker' = [maker EXCEPT ![m_socket[o]] = "none"]
        /\ calling' = [u \in Users |->
             IF calling[u] = "waits" /\ m_socket[u] = m_socket[o] THEN "waits for none"
             ELSE calling[u]]
    BY <1>3 DEF Close, Freed
  <2>3. /\ desc' \in [Fds -> States]
        /\ maker' \in [Fds -> Objects \union {"none"}] /\ \A f \in Free' : maker'[f] = "none"
    BY <2>1, <2>2 DEF TypeOK, States, Free
  <2>4. calling' \in [Users -> {"no", "waits", "waits for none", "returned"}]
    BY <2>2 DEF TypeOK
  <2>5. \A u \in Users :
          \/ calling'[u] = calling[u]
               /\ ~(calling[u] = "waits" /\ o \in Believers /\ m_socket[u] = m_socket[o])
          \/ /\ calling[u] = "waits" /\ calling'[u] = "waits for none"
             /\ o \in Believers /\ m_socket[u] = m_socket[o]
    BY <2>1, <2>2
  <2>6. /\ \A f \in Fds : f # m_socket[o] => desc'[f] = desc[f] /\ maker'[f] = maker[f]
        /\ desc'[m_socket[o]] = "free"
    BY <2>1, <2>2 DEF TypeOK
  <2>7. QED
    BY <1>1, <1>2, <2>1, <2>3, <2>4, <2>5, <2>6
<1>4. CASE ~m_isconnected[o]
  <2>1. desc' = desc /\ maker' = maker /\ calling' = calling /\ o \notin Believers
    BY <1>4 DEF Close, Believers, kernel
  <2>2. QED
    BY <1>1, <1>2, <2>1 DEF TypeOK, States, Free
<1>5. QED
  BY <1>3, <1>4

(* What is left of the numbers is what it was.                             *)
LEMMA CloseKeeps ==
  ASSUME SocketInv, NEW o \in Objects \ {"server"}, Close(o), reused' = reused,
         o \in Users => calling[o] = "no",
         \A p \in Objects \ {o} : m_socket'[p] = m_socket[p],
         \A u \in Users : calling[u] # "no" => m_socket'[u] = m_socket[u],
         pc' \in {"make", "init"} => pc \in {"make", "init"} /\ fd' = fd
  PROVE  /\ \A p \in Objects : p \in Believers' => Holds(p)'
         /\ \A u \in Users : calling'[u] = "returned" => Holds(u)'
         /\ \A u \in Users : calling'[u] = "waits" => Waits(u)'
         /\ \A u \in Users : calling'[u] = "waits for none" => m_socket'[u] \in Fds \intersect reused'
         /\ pc' \in {"make", "init"} => Got'
         /\ \A f \in Reported' \ reused' :
              \/ \E p \in Believers' : m_socket'[p] = f
              \/ \E u \in Users : calling'[u] = "returned" /\ m_socket'[u] = f
              \/ pc \in {"make", "init"} /\ f = fd
<1> USE DEF SocketInv
<1>1. /\ Believers' = Believers \ {o}
      /\ \A f \in Fds : ~(o \in Believers /\ f = m_socket[o]) =>
           desc'[f] = desc[f] /\ maker'[f] = maker[f]
      /\ o \in Believers => desc'[m_socket[o]] = "free"
      /\ \A u \in Users :
           \/ calling'[u] = calling[u]
                /\ ~(calling[u] = "waits" /\ o \in Believers /\ m_socket[u] = m_socket[o])
           \/ /\ calling[u] = "waits" /\ calling'[u] = "waits for none"
              /\ o \in Believers /\ m_socket[u] = m_socket[o]
  BY CloseFacts
<1>2. /\ o \in Believers => Holds(o)
      /\ Users \subseteq Objects \ {"server"}
  BY ObjectsApart DEF Owned
<1>3. \A f \in Fds : f \notin reused /\ maker[f] # o => desc'[f] = desc[f] /\ maker'[f] = maker[f]
  BY <1>1, <1>2 DEF Holds
<1>4. ASSUME NEW p \in Objects, p # o, Holds(p), m_socket'[p] = m_socket[p] PROVE Holds(p)'
  BY <1>3, <1>4 DEF Holds, Reported
<1>5. \A p \in Objects : p \in Believers' => Holds(p)'
  <2>1. ASSUME NEW p \in Objects, p \in Believers' PROVE Holds(p)'
    <3>1. p # o /\ p \in Believers
      BY <1>1, <2>1
    <3>2. QED
      BY <1>4, <3>1 DEF Owned
  <2>2. QED
    BY <2>1
<1>6. \A u \in Users : calling'[u] = "returned" => Holds(u)'
  <2>1. ASSUME NEW u \in Users, calling'[u] = "returned" PROVE Holds(u)'
    <3>1. u # o /\ calling[u] = "returned" /\ u \in Objects
      BY <1>1, <1>2, <2>1
    <3>2. QED
      BY <1>4, <3>1 DEF Owned
  <2>2. QED
    BY <2>1
<1>7. \A u \in Users : calling'[u] = "waits" => Waits(u)'
  <2>1. ASSUME NEW u \in Users, calling'[u] = "waits" PROVE Waits(u)'
    <3>1. u # o /\ calling[u] = "waits" /\ u \in Objects
      BY <1>1, <1>2, <2>1
    <3>2. Waits(u) /\ m_socket'[u] = m_socket[u]
      BY <3>1 DEF Owned
    <3>3. QED
      BY <1>3, <3>1, <3>2 DEF Waits
  <2>2. QED
    BY <2>1
<1>8. ASSUME NEW u \in Users, calling'[u] = "waits for none"
      PROVE  m_socket'[u] \in Fds \intersect reused'
  <2>1. CASE calling[u] = "waits for none"
    BY <2>1 DEF Owned
  <2>2. CASE calling[u] # "waits for none"
    <3>1. calling[u] = "waits" /\ o \in Believers /\ m_socket[u] = m_socket[o]
      BY <1>1, <1>8, <2>2
    <3>2. u # o /\ Waits(u) /\ Holds(o) /\ m_socket'[u] = m_socket[u]
      BY <1>2, <3>1 DEF Owned
    <3>3. QED
      BY <3>1, <3>2 DEF Waits, Holds
  <2>3. QED
    BY <2>1, <2>2
<1>9. pc' \in {"make", "init"} => Got'
  <2>1. SUFFICES ASSUME pc' \in {"make", "init"} PROVE Got'
    OBVIOUS
  <2>2. Got /\ ~m_isconnected["accepted"] /\ fd' = fd
    BY <2>1 DEF Owned
  <2>3. o \in Believers => o # "accepted"
    BY <2>2 DEF Believers
  <2>4. fd \in Fds /\ (fd \notin reused => ~(o \in Believers /\ fd = m_socket[o]))
    BY <1>2, <2>2, <2>3 DEF Got, Holds
  <2>5. QED
    BY <1>1, <2>2, <2>4 DEF Got
<1>10. ASSUME NEW f \in Reported' \ reused'
       PROVE  \/ \E p \in Believers' : m_socket'[p] = f
              \/ \E u \in Users : calling'[u] = "returned" /\ m_socket'[u] = f
              \/ pc \in {"make", "init"} /\ f = fd
  <2>1. f \in Fds /\ ~(o \in Believers /\ f = m_socket[o])
    BY <1>1 DEF Reported
  <2>2. f \in Reported \ reused
    BY <1>1, <2>1 DEF Reported
  <2>3. CASE \E p \in Believers : m_socket[p] = f
    <3>1. PICK p \in Believers : m_socket[p] = f
      BY <2>3
    <3>2. p \in Objects \ {o} /\ p \in Believers'
      BY <1>1, <2>1, <3>1 DEF Believers
    <3>3. QED
      BY <3>1, <3>2
  <2>4. CASE \E u \in Users : calling[u] = "returned" /\ m_socket[u] = f
    <3>1. PICK u \in Users : calling[u] = "returned" /\ m_socket[u] = f
      BY <2>4
    <3>2. calling'[u] = "returned" /\ m_socket'[u] = f
      BY <1>1, <3>1
    <3>3. QED
      BY <3>2
  <2>5. QED
    BY <2>2, <2>3, <2>4 DEF NoReportedLost
<1>11. QED
  BY <1>5, <1>6, <1>7, <1>8, <1>9, <1>10

-----------------------------------------------------------------------------
(* The users.                                                              *)

UserActs == pc \in {"accept", "make", "init", "close"}

LEMMA UserFrame ==
  ASSUME NEW u \in Users, User(u)
  PROVE  UserActs /\ UNCHANGED <<m_fds, size, pc, fd, bound, queue>>
BY DEF User, UserActs, table, daemon

(* A step of a user leaves the daemon and the table alone.                 *)
LEMMA UserKeepsTypes ==
  ASSUME TypeOK, NEW u \in Users, User(u),
         desc' \in [Fds -> States], maker' \in [Fds -> Objects \union {"none"}],
         \A f \in Free' : maker'[f] = "none",
         alive' \subseteq Users, reused' \subseteq Fds,
         m_socket' \in [Objects -> Fds \union {-1}],
         m_isconnected' \in [Objects -> BOOLEAN],
         calling' \in [Users -> {"no", "waits", "waits for none", "returned"}]
  PROVE  TypeOK'
BY UserFrame DEF TypeOK, States

LEMMA UserKeepsRest ==
  ASSUME SocketInv, NEW u \in Users, User(u),
         m_isconnected'["accepted"] = m_isconnected["accepted"],
         m_socket'["accepted"] = m_socket["accepted"]
  PROVE  Unconnected' /\ Fits'
BY UserFrame DEF SocketInv, Unconnected, UserActs, Starting, Fits, AcceptedIsRegistered

LEMMA MakeStep ==
  ASSUME SocketInv, NEW u \in Users, User(u), calling[u] = "no", Make(u)
  PROVE  SocketInv'
<1> USE DEF SocketInv
<1>1. /\ u \notin alive /\ alive' = alive \union {u} /\ reused' = reused
      /\ UNCHANGED <<pc, fd>> /\ u \in Objects
  BY UserFrame, ObjectsApart DEF Make
<1>2. PICK kind \in {"block", "noblock", "udp"} : NewSocket(u, kind)
  BY ObjectsApart DEF Make
<1>3. /\ desc' \in [Fds -> States]
      /\ maker' \in [Fds -> Objects \union {"none"}] /\ \A f \in Free' : maker'[f] = "none"
      /\ m_socket' \in [Objects -> Fds \union {-1}]
      /\ m_isconnected' = [m_isconnected EXCEPT ![u] = FALSE]
      /\ calling' = calling
      /\ \A p \in Objects \ {u} : m_socket'[p] = m_socket[p]
      /\ Reported' = Reported
      /\ \A f \in Fds : desc[f] # "free" => desc'[f] = desc[f] /\ maker'[f] = maker[f]
  BY <1>1, <1>2, NewSocketFacts
<1>4. ~m_isconnected[u]
  <2>1. Lives
    BY DEF Owned
  <2>2. QED
    BY <1>1, <2>1, Zenon DEF Lives
<1>5. m_isconnected' = m_isconnected
  BY <1>1, <1>3, <1>4, StillFalse DEF TypeOK
<1>6. /\ Believers' = Believers /\ u \notin Believers
      /\ \A o \in Believers : m_socket'[o] = m_socket[o]
      /\ \A v \in Users : calling[v] # "no" => m_socket'[v] = m_socket[v]
  BY <1>3, <1>4, <1>5, ObjectsApart DEF Believers
<1>7. TypeOK'
  BY <1>1, <1>3, <1>5, UserKeepsTypes DEF TypeOK
<1>8. \A o \in Objects : Holds(o) /\ m_socket'[o] = m_socket[o] => Holds(o)'
  BY <1>1, <1>3 DEF Holds, Reported
<1>9. \A v \in Users : Waits(v) /\ m_socket'[v] = m_socket[v] => Waits(v)'
  BY <1>1, <1>3 DEF Waits
<1>10. Got => Got'
  BY <1>1, <1>3 DEF Got
<1>11. Owned'
  <2>1. /\ Lives'
        /\ m_isconnected'["accepted"] => pc' = "close"
        /\ pc' \in {"make", "init"} => Got'
    BY <1>1, <1>3, <1>5, <1>10 DEF Owned, Lives
  <2>2. /\ \A o \in Objects : o \in Believers' => Holds(o)'
        /\ \A v \in Users : calling'[v] = "returned" => Holds(v)'
    BY <1>3, <1>6, <1>8, ObjectsApart DEF Owned
  <2>3. \A v \in Users : calling'[v] = "waits" => Waits(v)'
    BY <1>3, <1>6, <1>9 DEF Owned
  <2>4. \A v \in Users : calling'[v] = "waits for none" => m_socket'[v] \in Fds \intersect reused'
    BY <1>1, <1>3, <1>6 DEF Owned
  <2>5. QED
    BY <2>1, <2>2, <2>3, <2>4 DEF Owned
<1>12. NoReportedLost'
  BY <1>1, <1>3, <1>6 DEF NoReportedLost
<1>13. Unconnected' /\ Fits'
  BY <1>1, <1>3, <1>5, UserKeepsRest, ObjectsApart
<1>14. QED
  BY <1>7, <1>11, <1>12, <1>13

(* A connect() changes what its number stands for, which is another's only *)
(* if the number is a reused one by then.                                  *)
LEMMA CallStep ==
  ASSUME SocketInv, NEW u \in Users, User(u), calling[u] = "no", ConnectCall(u)
  PROVE  SocketInv'
<1> USE DEF SocketInv
<1> DEFINE f == m_socket[u]
           to == Outcome(desc[f])[1]
           where == Outcome(desc[f])[2]
<1>1. /\ u \in alive /\ f # -1
      /\ desc[f] \in {"block", "noblock", "udp", "trying", "made", "udp connected"}
      /\ desc' = [desc EXCEPT ![f] = to] /\ calling' = [calling EXCEPT ![u] = where]
      /\ reused' = IF maker[f] # u THEN reused \union {f} ELSE reused
      /\ UNCHANGED <<maker, m_socket, m_isconnected, alive, pc, fd>>
  BY UserFrame DEF ConnectCall, sockets
<1>2. u \in Objects /\ f \in Fds /\ Users \subseteq Objects
  BY <1>1, ObjectsApart DEF TypeOK
<1>3. /\ to \in {"trying", "pending", "connected", "udp connected"}
      /\ where \in {"waits", "no", "returned"}
      /\ where = "waits" => to = "trying" /\ desc[f] \in {"block", "trying"}
      /\ where = "no" => to = "pending" /\ desc[f] = "noblock"
      /\ where = "returned" => to \in {"connected", "udp connected"}
      /\ desc[f] = "udp connected" => where = "returned"
  BY <1>1 DEF Outcome
<1> HIDE DEF f, to, where
<1>4. /\ desc' \in [Fds -> States] /\ desc'[f] = to
      /\ \A g \in Fds \ {f} : desc'[g] = desc[g]
  BY <1>1, <1>2, <1>3 DEF TypeOK, States
<1>5. /\ calling' \in [Users -> {"no", "waits", "waits for none", "returned"}]
      /\ calling'[u] = where /\ \A v \in Users \ {u} : calling'[v] = calling[v]
  BY <1>1, <1>3 DEF TypeOK
<1>6. /\ reused' \subseteq Fds /\ reused \subseteq reused' /\ (f \notin reused' => maker[f] = u)
  BY <1>1, <1>2 DEF TypeOK
<1>7. TypeOK'
  <2>1. \A g \in Free' : maker'[g] = "none"
    BY <1>1, <1>3, <1>4 DEF TypeOK, Free
  <2>2. QED
    BY <1>1, <1>4, <1>5, <1>6, <2>1, UserKeepsTypes DEF TypeOK
<1>8. Believers' = Believers
  BY <1>1 DEF Believers
<1>9. \A o \in Objects : Holds(o) => Holds(o)'
  <2>1. ASSUME NEW o \in Objects, Holds(o), m_socket[o] \notin reused'
        PROVE  m_socket[o] \in Reported'
    <3>1. m_socket[o] \notin reused /\ maker[m_socket[o]] = o /\ m_socket[o] \in Reported
      BY <1>6, <2>1 DEF Holds
    <3>2. CASE m_socket[o] = f
      <4>1. desc[f] \in {"connected", "udp connected"}
        BY <3>1, <3>2 DEF Reported
      <4>2. where = "returned"
        BY <1>1, <1>3, <4>1
      <4>3. QED
        BY <1>2, <1>3, <1>4, <3>2, <4>2 DEF Reported
    <3>3. CASE m_socket[o] # f
      BY <1>4, <3>1, <3>3 DEF Reported
    <3>4. QED
      BY <3>2, <3>3
  <2>2. QED
    BY <1>1, <1>6, <2>1 DEF Holds
<1>10. \A v \in Users \ {u} : Waits(v) => Waits(v)'
  <2>1. ASSUME NEW v \in Users \ {u}, Waits(v), m_socket[v] \notin reused'
        PROVE  m_socket[v] # f
    BY <1>6, <2>1 DEF Waits
  <2>2. QED
    BY <1>1, <1>4, <1>6, <2>1 DEF Waits
<1>11. Got => Got'
  <2>1. ASSUME Got, fd \notin reused' PROVE fd # f
    BY <1>1, <1>6, <2>1, ObjectsApart DEF Got
  <2>2. QED
    BY <1>1, <1>4, <1>6, <2>1 DEF Got
<1>12. Owned'
  <2>1. /\ Lives'
        /\ m_isconnected'["accepted"] => pc' = "close"
        /\ pc' \in {"make", "init"} => Got'
    BY <1>1, <1>5, <1>11 DEF Owned, Lives
  <2>2. \A o \in Objects : o \in Believers' => Holds(o)'
    BY <1>8, <1>9 DEF Owned
  <2>3. ASSUME NEW v \in Users, calling'[v] = "returned" PROVE Holds(v)'
    <3>1. CASE v = u
      <4>1. to \in {"connected", "udp connected"}
        BY <1>3, <1>5, <2>3, <3>1
      <4>2. f \in Reported'
        BY <1>2, <1>4, <4>1 DEF Reported
      <4>3. QED
        BY <1>1, <1>2, <1>6, <3>1, <4>2 DEF Holds, f
    <3>2. CASE v # u
      BY <1>2, <1>5, <1>9, <2>3, <3>2 DEF Owned
    <3>3. QED
      BY <3>1, <3>2
  <2>4. ASSUME NEW v \in Users, calling'[v] = "waits" PROVE Waits(v)'
    <3>1. CASE v = u
      <4>1. desc'[f] = "trying"
        BY <1>3, <1>4, <1>5, <2>4, <3>1
      <4>2. QED
        BY <1>1, <1>2, <1>6, <3>1, <4>1 DEF Waits, f
    <3>2. CASE v # u
      BY <1>5, <1>10, <2>4, <3>2 DEF Owned
    <3>3. QED
      BY <3>1, <3>2
  <2>5. ASSUME NEW v \in Users, calling'[v] = "waits for none"
        PROVE  m_socket'[v] \in Fds \intersect reused'
    <3>1. calling[v] = "waits for none"
      BY <1>3, <1>5, <2>5
    <3>2. QED
      BY <1>1, <1>6, <3>1 DEF Owned
  <2>6. QED
    BY <2>1, <2>2, <2>3, <2>4, <2>5 DEF Owned
<1>13. NoReportedLost'
  <2>1. SUFFICES ASSUME NEW g \in Reported' \ reused'
                 PROVE  \/ \E o \in Believers' : m_socket'[o] = g
                        \/ \E v \in Users : calling'[v] = "returned" /\ m_socket'[v] = g
                        \/ pc' \in {"make", "init"} /\ g = fd'
    BY DEF NoReportedLost
  <2>2. CASE g = f
    <3>1. to \in {"connected", "udp connected"}
      BY <1>2, <1>4, <2>2 DEF Reported
    <3>2. calling'[u] = "returned" /\ m_socket'[u] = g
      BY <1>1, <1>3, <1>5, <2>2, <3>1 DEF f
    <3>3. QED
      BY <3>2
  <2>3. CASE g # f
    <3>1. g \in Reported \ reused
      BY <1>4, <1>6, <2>3 DEF Reported
    <3>2. CASE \E v \in Users : calling[v] = "returned" /\ m_socket[v] = g
      BY <1>1, <1>5, <3>2
    <3>3. QED
      BY <1>1, <1>8, <3>1, <3>2 DEF NoReportedLost
  <2>4. QED
    BY <2>2, <2>3
<1>14. Unconnected' /\ Fits'
  BY <1>1, UserKeepsRest
<1>15. QED
  BY <1>7, <1>12, <1>13, <1>14

(* A connect() that has waited has its connection, or none.                *)
LEMMA ReturnStep ==
  ASSUME SocketInv, NEW u \in Users, User(u), ConnectReturn(u)
  PROVE  SocketInv'
<1> USE DEF SocketInv
<1> DEFINE f == m_socket[u]
<1>1. /\ calling[u] \in {"waits", "waits for none"}
      /\ UNCHANGED <<maker, m_socket, m_isconnected, alive, reused, pc, fd>>
  BY UserFrame DEF ConnectReturn, Return, sockets
<1>2. u \in Objects /\ f \in Fds /\ Users \subseteq Objects
  BY <1>1, ObjectsApart DEF Owned, Waits
<1>3. PICK to \in {"returned", "no"} : calling' = [calling EXCEPT ![u] = to]
  BY DEF ConnectReturn, Return
<1>4. /\ \/ desc' = desc
         \/ desc[f] \in {"made", "connected"} /\ desc' = [desc EXCEPT ![f] = "connected"]
      /\ to = "returned" => \/ f \in reused
                            \/ desc'[f] = "connected" /\ calling[u] = "waits"
  <2>1. CASE /\ calling[u] = "waits" /\ desc[f] \in {"made", "connected"}
             /\ desc' = [desc EXCEPT ![f] = "connected"]
    BY <1>2, <2>1 DEF TypeOK
  <2>2. CASE calling[u] = "waits" /\ Return(u, "no") /\ UNCHANGED desc
    <3>1. calling'[u] = "no" /\ calling'[u] = to
      BY <1>3, <2>2 DEF TypeOK, Return
    <3>2. QED
      BY <2>2, <3>1
  <2>3. CASE calling[u] = "waits for none" /\ UNCHANGED desc
    BY <2>3 DEF Owned
  <2>4. QED
    BY <2>1, <2>2, <2>3 DEF ConnectReturn
<1> HIDE DEF f
<1>5. /\ desc' \in [Fds -> States]
      /\ \A g \in Fds : desc'[g] = desc[g] \/ (g = f /\ desc[g] = "made" /\ desc'[g] = "connected")
  BY <1>2, <1>4 DEF TypeOK, States
<1>6. /\ calling' \in [Users -> {"no", "waits", "waits for none", "returned"}]
      /\ calling'[u] = to /\ \A v \in Users \ {u} : calling'[v] = calling[v]
  BY <1>3 DEF TypeOK
<1>7. TypeOK'
  <2>1. \A g \in Free' : maker'[g] = "none"
    BY <1>1, <1>5 DEF TypeOK, Free
  <2>2. QED
    BY <1>1, <1>5, <1>6, <2>1, UserKeepsTypes DEF TypeOK
<1>8. Believers' = Believers
  BY <1>1 DEF Believers
<1>9. \A o \in Objects : Holds(o) => Holds(o)'
  BY <1>1, <1>5 DEF Holds, Reported
<1>10. \A v \in Users : Waits(v) => Waits(v)'
  BY <1>1, <1>5 DEF Waits
<1>11. Got => Got'
  BY <1>1, <1>5 DEF Got
<1>12. Owned'
  <2>1. /\ Lives'
        /\ m_isconnected'["accepted"] => pc' = "close"
        /\ pc' \in {"make", "init"} => Got'
    BY <1>1, <1>6, <1>11 DEF Owned, Lives
  <2>2. \A o \in Objects : o \in Believers' => Holds(o)'
    BY <1>8, <1>9 DEF Owned
  <2>3. ASSUME NEW v \in Users, calling'[v] = "returned" PROVE Holds(v)'
    <3>1. CASE v = u
      <4>1. f \in reused \/ (desc'[f] = "connected" /\ Waits(u))
        BY <1>4, <1>6, <2>3, <3>1 DEF Owned
      <4>2. f \notin reused' => maker'[f] = u /\ f \in Reported'
        BY <1>1, <1>2, <4>1 DEF Reported, Waits, f
      <4>3. QED
        BY <1>1, <1>2, <3>1, <4>2 DEF Holds, f
    <3>2. CASE v # u
      BY <1>2, <1>6, <1>9, <2>3, <3>2 DEF Owned
    <3>3. QED
      BY <3>1, <3>2
  <2>4. \A v \in Users : calling'[v] = "waits" => Waits(v)'
    BY <1>6, <1>10 DEF Owned
  <2>5. \A v \in Users : calling'[v] = "waits for none" => m_socket'[v] \in Fds \intersect reused'
    BY <1>1, <1>6 DEF Owned
  <2>6. QED
    BY <2>1, <2>2, <2>3, <2>4, <2>5 DEF Owned
<1>13. NoReportedLost'
  <2>1. SUFFICES ASSUME NEW g \in Reported' \ reused'
                 PROVE  \/ \E o \in Believers' : m_socket'[o] = g
                        \/ \E v \in Users : calling'[v] = "returned" /\ m_socket'[v] = g
                        \/ pc' \in {"make", "init"} /\ g = fd'
    BY DEF NoReportedLost
  <2>2. CASE desc'[g] = desc[g]
    <3>1. g \in Reported \ reused
      BY <1>1, <2>2 DEF Reported
    <3>2. CASE \E v \in Users : calling[v] = "returned" /\ m_socket[v] = g
      <4>1. PICK v \in Users : calling[v] = "returned" /\ m_socket[v] = g
        BY <3>2
      <4>2. v # u /\ calling'[v] = "returned" /\ m_socket'[v] = g
        BY <1>1, <1>6, <4>1
      <4>3. QED
        BY <4>2
    <3>3. QED
      BY <1>1, <1>8, <3>1, <3>2 DEF NoReportedLost
  <2>3. CASE desc'[g] # desc[g]
    <3>1. g \in Fds /\ g = f /\ desc[f] = "made" /\ desc'[f] = "connected"
      BY <1>5, <2>3 DEF Reported
    <3>2. calling[u] = "waits" /\ desc[f] # "block"
      <4>1. calling[u] # "waits for none"
        BY <1>1, <2>1, <3>1 DEF Owned, f
      <4>2. QED
        BY <1>1, <3>1, <4>1
    <3>3. Return(u, "returned")
      BY <3>1, <3>2 DEF ConnectReturn, f
    <3>4. calling'[u] = "returned" /\ m_socket'[u] = g
      BY <1>1, <3>1, <3>3 DEF Return, TypeOK, f
    <3>5. QED
      BY <3>4
  <2>4. QED
    BY <2>2, <2>3
<1>14. Unconnected' /\ Fits'
  BY <1>1, UserKeepsRest
<1>15. QED
  BY <1>7, <1>12, <1>13, <1>14

LEMMA ConnectedStep ==
  ASSUME SocketInv, NEW u \in Users, User(u), Connected(u)
  PROVE  SocketInv'
<1> USE DEF SocketInv
<1>1. /\ calling[u] = "returned" /\ calling' = [calling EXCEPT ![u] = "no"]
      /\ m_isconnected' = [m_isconnected EXCEPT ![u] = TRUE]
      /\ UNCHANGED <<desc, maker, m_socket, alive, reused, pc, fd>>
  BY UserFrame DEF Connected
<1>2. u \in Objects \ {"server", "accepted"} /\ Users \subseteq Objects
  BY ObjectsApart
<1>3. /\ calling' \in [Users -> {"no", "waits", "waits for none", "returned"}]
      /\ calling'[u] = "no" /\ \A v \in Users \ {u} : calling'[v] = calling[v]
      /\ m_isconnected' \in [Objects -> BOOLEAN]
      /\ m_isconnected'["accepted"] = m_isconnected["accepted"]
  BY <1>1, <1>2, ObjectsApart DEF TypeOK
<1>4. TypeOK'
  <2>1. \A g \in Free' : maker'[g] = "none"
    BY <1>1 DEF TypeOK, Free
  <2>2. QED
    BY <1>1, <1>3, <2>1, UserKeepsTypes DEF TypeOK, States
<1>5. Believers' = Believers \union {u} /\ Reported' = Reported
  BY <1>1, <1>2 DEF Believers, TypeOK, Reported
<1>6. /\ \A o \in Objects : Holds(o)' <=> Holds(o)
      /\ \A v \in Users : Waits(v)' <=> Waits(v)
      /\ Got' <=> Got
  BY <1>1, <1>5 DEF Holds, Waits, Got
<1>7. u \in alive
  <2>1. Lives
    BY DEF Owned
  <2>2. QED
    BY <1>1, <2>1 DEF Lives
<1>8. Owned'
  <2>1. /\ Lives'
        /\ m_isconnected'["accepted"] => pc' = "close"
        /\ pc' \in {"make", "init"} => Got'
    BY <1>1, <1>2, <1>3, <1>6, <1>7 DEF Owned, Lives, TypeOK
  <2>2. \A o \in Objects : o \in Believers' => Holds(o)'
    BY <1>1, <1>5, <1>6 DEF Owned
  <2>3. \A v \in Users : calling'[v] = "returned" => Holds(v)'
    BY <1>2, <1>3, <1>6 DEF Owned
  <2>4. /\ \A v \in Users : calling'[v] = "waits" => Waits(v)'
        /\ \A v \in Users : calling'[v] = "waits for none" => m_socket'[v] \in Fds \intersect reused'
    BY <1>1, <1>3, <1>6 DEF Owned
  <2>5. QED
    BY <2>1, <2>2, <2>3, <2>4 DEF Owned
<1>9. NoReportedLost'
  <2>1. ASSUME NEW g \in Reported \ reused
        PROVE  \/ \E o \in Believers' : m_socket'[o] = g
               \/ \E v \in Users : calling'[v] = "returned" /\ m_socket'[v] = g
               \/ pc' \in {"make", "init"} /\ g = fd'
    <3>1. CASE \E v \in Users : calling[v] = "returned" /\ m_socket[v] = g
      <4>1. PICK v \in Users : calling[v] = "returned" /\ m_socket[v] = g
        BY <3>1
      <4>2. CASE v = u
        BY <1>1, <1>5, <4>1, <4>2
      <4>3. CASE v # u
        BY <1>1, <1>3, <4>1, <4>3
      <4>4. QED
        BY <4>2, <4>3
    <3>2. CASE \E o \in Believers : m_socket[o] = g
      BY <1>1, <1>5, <3>2
    <3>3. QED
      BY <1>1, <3>1, <3>2 DEF NoReportedLost
  <2>2. QED
    BY <1>1, <1>5, <2>1 DEF NoReportedLost
<1>10. Unconnected' /\ Fits'
  BY <1>1, <1>3, UserKeepsRest
<1>11. QED
  BY <1>4, <1>8, <1>9, <1>10

LEMMA UserCloseStep ==
  ASSUME SocketInv, NEW u \in Users, User(u), calling[u] = "no", close(u) \/ Destroy(u)
  PROVE  SocketInv'
<1> USE DEF SocketInv
<1>1. /\ Close(u) /\ UNCHANGED <<pc, fd, reused>>
      /\ \/ m_socket' = m_socket /\ alive' = alive
         \/ m_socket' = [m_socket EXCEPT ![u] = -1] /\ alive' = alive \ {u}
  BY UserFrame DEF close, Destroy, Delete
<1>2. u \in Objects \ {"server", "accepted"}
  BY ObjectsApart
<1>3. /\ desc' \in [Fds -> States]
      /\ maker' \in [Fds -> Objects \union {"none"}] /\ \A f \in Free' : maker'[f] = "none"
      /\ m_isconnected' = [m_isconnected EXCEPT ![u] = FALSE]
      /\ calling' \in [Users -> {"no", "waits", "waits for none", "returned"}]
      /\ \A v \in Users : calling'[v] # "no" => calling[v] # "no"
  BY <1>1, <1>2, CloseFacts
<1>4. /\ m_socket' \in [Objects -> Fds \union {-1}]
      /\ \A p \in Objects \ {u} : m_socket'[p] = m_socket[p]
      /\ m_isconnected' \in [Objects -> BOOLEAN]
      /\ m_isconnected'["accepted"] = m_isconnected["accepted"]
      /\ m_socket'["accepted"] = m_socket["accepted"]
      /\ \A v \in Users : calling[v] # "no" => m_socket'[v] = m_socket[v]
  <2>1. /\ m_socket' \in [Objects -> Fds \union {-1}]
        /\ \A p \in Objects \ {u} : m_socket'[p] = m_socket[p]
    BY <1>1, <1>2 DEF TypeOK
  <2>2. /\ m_isconnected' \in [Objects -> BOOLEAN]
        /\ \A p \in Objects \ {u} : m_isconnected'[p] = m_isconnected[p]
    BY <1>2, <1>3 DEF TypeOK
  <2>3. \A v \in Users : calling[v] # "no" => v \in Objects \ {u}
    BY ObjectsApart
  <2>4. QED
    BY <1>2, <2>1, <2>2, <2>3, ObjectsApart
<1>5. TypeOK'
  <2>1. alive' \subseteq Users
    BY <1>1 DEF TypeOK
  <2>2. QED
    BY <1>1, <1>3, <1>4, <2>1, UserKeepsTypes DEF TypeOK
<1>6. /\ \A p \in Objects : p \in Believers' => Holds(p)'
      /\ \A v \in Users : calling'[v] = "returned" => Holds(v)'
      /\ \A v \in Users : calling'[v] = "waits" => Waits(v)'
      /\ \A v \in Users : calling'[v] = "waits for none" => m_socket'[v] \in Fds \intersect reused'
      /\ pc' \in {"make", "init"} => Got'
      /\ \A f \in Reported' \ reused' :
           \/ \E p \in Believers' : m_socket'[p] = f
           \/ \E v \in Users : calling'[v] = "returned" /\ m_socket'[v] = f
           \/ pc \in {"make", "init"} /\ f = fd
  BY <1>1, <1>2, <1>4, CloseKeeps
<1>7. /\ Lives'
      /\ m_isconnected'["accepted"] => pc' = "close"
  <2>1. \A v \in Users : m_isconnected'[v] \/ calling'[v] # "no" => v \in alive /\ v # u
    <3>1. \A v \in Users : v \in Objects /\ (m_isconnected'[v] => m_isconnected[v] /\ v # u)
      BY <1>2, <1>3, ObjectsApart DEF TypeOK
    <3>2. \A v \in Users : calling'[v] # "no" => calling[v] # "no" /\ v # u
      BY <1>3
    <3>3. Lives
      BY DEF Owned
    <3>4. QED
      BY <3>1, <3>2, <3>3 DEF Lives
  <2>2. m_isconnected'["accepted"] => pc' = "close"
    BY <1>1, <1>4 DEF Owned
  <2>3. QED
    BY <1>1, <2>1, <2>2 DEF Lives
<1>8. Owned' /\ NoReportedLost'
  BY <1>1, <1>6, <1>7 DEF Owned, NoReportedLost
<1>9. Unconnected' /\ Fits'
  BY <1>4, UserKeepsRest
<1>10. QED
  BY <1>5, <1>8, <1>9

LEMMA UserStep ==
  ASSUME SocketInv, NEW u \in Users, User(u)
  PROVE  SocketInv'
BY MakeStep, CallStep, ReturnStep, ConnectedStep, UserCloseStep DEF User

(* A connection of which no call has reported yet comes, or does not.      *)
LEMMA KernelStep ==
  ASSUME SocketInv, NEW f \in Fds, Kernel(f)
  PROVE  SocketInv'
<1> USE DEF SocketInv
<1>1. PICK to \in {"made", "block", "noblock"} :
        /\ desc' = [desc EXCEPT ![f] = to]
        /\ \/ desc[f] = "trying" /\ to \in {"made", "block"}
           \/ desc[f] = "pending"
  BY DEF Kernel
<1>2. /\ UNCHANGED <<maker, calling, m_socket, m_isconnected, alive, reused, m_fds, size, pc, fd>>
      /\ UNCHANGED <<bound, queue>>
  BY DEF Kernel, sockets, users, table, daemon
<1>3. /\ desc' \in [Fds -> States] /\ desc'[f] = to
      /\ \A g \in Fds \ {f} : desc'[g] = desc[g]
  BY <1>1 DEF TypeOK, States
<1>4. Reported' = Reported /\ Free' = Free /\ Believers' = Believers
  BY <1>1, <1>2, <1>3 DEF Reported, Free, Believers
<1>5. TypeOK'
  BY <1>2, <1>3, <1>4 DEF TypeOK, States
<1>6. \A o \in Objects : Holds(o)' <=> Holds(o)
  BY <1>2, <1>4 DEF Holds
<1>7. \A v \in Users : Waits(v) => Waits(v)'
  BY <1>1, <1>2, <1>3 DEF Waits
<1>8. Got => Got'
  BY <1>1, <1>2, <1>3 DEF Got
<1>9. Owned'
  <2>1. \A v \in Users : calling'[v] = "waits" => Waits(v)'
    BY <1>2, <1>7 DEF Owned
  <2>2. \A o \in Objects : o \in Believers' => Holds(o)'
    BY <1>4, <1>6 DEF Owned
  <2>3. \A v \in Users : calling'[v] = "returned" => Holds(v)'
    BY <1>2, <1>6, ObjectsApart DEF Owned
  <2>4. QED
    BY <1>2, <1>8, <2>1, <2>2, <2>3 DEF Owned, Lives
<1>10. NoReportedLost' /\ Unconnected' /\ Fits'
  BY <1>2, <1>4 DEF NoReportedLost, Unconnected, Starting, Fits, AcceptedIsRegistered
<1>11. QED
  BY <1>5, <1>9, <1>10

-----------------------------------------------------------------------------
(* The daemon.                                                             *)

LEMMA StartingStep ==
  ASSUME SocketInv, Create \/ Bind \/ Listen \/ StartScheduler
  PROVE  SocketInv'
<1> USE DEF SocketInv
<1>1. /\ Starting
      /\ pc' \in {"bind", "listen", "start", "accept", "hung"}
      /\ UNCHANGED <<alive, reused, m_fds, size, fd, queue>>
  BY DEF Create, Bind, Listen, StartScheduler, Go, Starting, table, users, daemon
<1>2. /\ Reported = {} /\ \A u \in Users : calling[u] = "no"
      /\ \A o \in Objects : m_isconnected[o] = FALSE
  BY <1>1 DEF Unconnected
<1>3. /\ desc' \in [Fds -> States] /\ Reported' = {}
      /\ maker' \in [Fds -> Objects \union {"none"}] /\ \A f \in Free' : maker'[f] = "none"
      /\ m_socket' \in [Objects -> Fds \union {-1}]
      /\ m_isconnected' = m_isconnected /\ calling' = calling
      /\ bound' \in BOOLEAN
  <2>1. CASE Create
    <3>1. NewSocket("server", "block")
      BY <2>1 DEF Create
    <3>2. [m_isconnected EXCEPT !["server"] = FALSE] = m_isconnected
      BY <1>2, ObjectsApart DEF TypeOK
    <3>3. QED
      BY <1>2, <2>1, <3>1, <3>2, NewSocketFacts, ObjectsApart DEF Create, TypeOK, daemon
  <2>2. CASE Bind
    BY <1>2, <2>2 DEF Bind, TypeOK, States, kernel, sockets, Free, Reported
  <2>3. CASE Listen
    <3>1. /\ desc' = [desc EXCEPT ![m_socket["server"]] = "listening"]
          /\ UNCHANGED <<maker, calling, m_socket, m_isconnected, bound>>
      BY <2>3 DEF Listen, sockets, daemon
    <3>2. desc' \in [Fds -> States] /\ \A f \in Fds : desc'[f] \in {desc[f], "listening"}
      BY <3>1 DEF TypeOK, States
    <3>3. Reported' = {} /\ Free' \subseteq Free
      BY <1>2, <3>2 DEF Reported, Free
    <3>4. QED
      BY <3>1, <3>2, <3>3 DEF TypeOK
  <2>4. CASE StartScheduler
    <3>1. PICK taken \in SUBSET Free :
            desc' = [f \in Fds |-> IF f \in taken THEN "other" ELSE desc[f]]
      BY <2>4 DEF StartScheduler, kSubset
    <3>2. UNCHANGED <<maker, calling, m_socket, m_isconnected, bound>>
      BY <2>4 DEF StartScheduler, sockets, daemon
    <3>3. desc' \in [Fds -> States] /\ \A f \in Fds : desc'[f] \in {desc[f], "other"}
      BY <3>1 DEF TypeOK, States
    <3>4. Reported' = {} /\ Free' \subseteq Free
      BY <1>2, <3>3 DEF Reported, Free
    <3>5. QED
      BY <3>2, <3>3, <3>4 DEF TypeOK
  <2>5. QED
    BY <2>1, <2>2, <2>3, <2>4
<1>4. TypeOK'
  BY <1>1, <1>3 DEF TypeOK, States
<1>5. Believers' = {}
  BY <1>2, <1>3 DEF Believers
<1>6. Owned' /\ NoReportedLost'
  BY <1>1, <1>2, <1>3, <1>5, ObjectsApart DEF Owned, Lives, NoReportedLost
<1>7. Unconnected' /\ Fits'
  BY <1>1, <1>2, <1>3, ObjectsApart DEF Unconnected, Fits, AcceptedIsRegistered
<1>8. QED
  BY <1>4, <1>6, <1>7

(* accept() gets a descriptor that was free, so it is nobody's.            *)
LEMMA AcceptStep ==
  ASSUME SocketInv, AcceptCall
  PROVE  SocketInv'
<1> USE DEF SocketInv
<1>1. /\ pc = "accept" /\ pc' = "make" /\ Free # {} /\ queue # <<>>
      /\ queue' = Tail(queue) /\ fd' = Min(Free)
      /\ desc' = [desc EXCEPT ![Min(Free)] = "connected"]
      /\ maker' = [maker EXCEPT ![Min(Free)] = "accepted"]
      /\ UNCHANGED <<calling, m_socket, m_isconnected, alive, reused, m_fds, size, bound>>
  BY DEF AcceptCall, Go, table, sockets, users
<1>2. fd' \in Fds /\ desc[fd'] = "free"
  <2>1. Free \subseteq Nat
    BY ObjectsApart DEF Free
  <2>2. Min(Free) \in Free
    BY <1>1, <2>1, MinIsIn
  <2>3. QED
    BY <1>1, <2>2 DEF Free
<1>3. /\ desc' \in [Fds -> States] /\ desc'[fd'] = "connected" /\ maker'[fd'] = "accepted"
      /\ maker' \in [Fds -> Objects \union {"none"}]
      /\ \A f \in Fds \ {fd'} : desc'[f] = desc[f] /\ maker'[f] = maker[f]
  BY <1>1, <1>2, ObjectsApart DEF TypeOK, States
<1>4. TypeOK'
  <2>1. queue' \in Seq(Clients)
    BY <1>1, HeadTailProperties DEF TypeOK
  <2>2. \A f \in Free' : maker'[f] = "none"
    BY <1>3 DEF TypeOK, Free
  <2>3. QED
    BY <1>1, <1>2, <1>3, <2>1, <2>2 DEF TypeOK, States
<1>5. Believers' = Believers
  BY <1>1 DEF Believers
<1>6. \A o \in Objects : Holds(o) => Holds(o)'
  BY <1>1, <1>2, <1>3 DEF Holds, Reported
<1>7. \A u \in Users : Waits(u) => Waits(u)'
  BY <1>1, <1>2, <1>3 DEF Waits
<1>8. Got'
  BY <1>2, <1>3 DEF Got
<1>9. Owned'
  <2>1. /\ Lives'
        /\ m_isconnected'["accepted"] => pc' = "close"
    BY <1>1 DEF Owned, Lives
  <2>2. \A o \in Objects : o \in Believers' => Holds(o)'
    BY <1>5, <1>6 DEF Owned
  <2>3. \A u \in Users : calling'[u] = "returned" => Holds(u)'
    BY <1>1, <1>6, ObjectsApart DEF Owned
  <2>4. /\ \A u \in Users : calling'[u] = "waits" => Waits(u)'
        /\ \A u \in Users : calling'[u] = "waits for none" => m_socket'[u] \in Fds \intersect reused'
    BY <1>1, <1>7 DEF Owned
  <2>5. QED
    BY <1>8, <2>1, <2>2, <2>3, <2>4 DEF Owned
<1>10. NoReportedLost'
  <2>1. \A f \in Reported' : f = fd' \/ f \in Reported
    BY <1>3 DEF Reported
  <2>2. \A f \in Reported \ reused :
          \/ \E o \in Believers : m_socket[o] = f
          \/ \E u \in Users : calling[u] = "returned" /\ m_socket[u] = f
    BY <1>1 DEF NoReportedLost
  <2>3. QED
    BY <1>1, <1>5, <2>1, <2>2 DEF NoReportedLost
<1>11. Unconnected' /\ Fits'
  BY <1>1 DEF Unconnected, Starting, Fits, AcceptedIsRegistered
<1>12. QED
  BY <1>4, <1>9, <1>10, <1>11

(* The new Socket opens one more descriptor, and is not connected yet.     *)
LEMMA MakeAcceptedStep ==
  ASSUME SocketInv, MakeAccepted
  PROVE  SocketInv'
<1> USE DEF SocketInv
<1>1. /\ pc = "make" /\ pc' = "init"
      /\ UNCHANGED <<alive, reused, m_fds, size, fd, bound, queue>>
  BY DEF MakeAccepted, Go, table, users, daemon
<1>2. /\ desc' \in [Fds -> States]
      /\ maker' \in [Fds -> Objects \union {"none"}] /\ \A f \in Free' : maker'[f] = "none"
      /\ m_socket' \in [Objects -> Fds \union {-1}]
      /\ m_isconnected' = [m_isconnected EXCEPT !["accepted"] = FALSE]
      /\ calling' = calling
      /\ \A p \in Objects \ {"accepted"} : m_socket'[p] = m_socket[p]
      /\ Reported' = Reported
      /\ \A f \in Fds : desc[f] # "free" => desc'[f] = desc[f] /\ maker'[f] = maker[f]
  BY NewSocketFacts, ObjectsApart DEF MakeAccepted
<1>3. ~m_isconnected["accepted"] /\ m_isconnected' = m_isconnected
  <2>1. ~m_isconnected["accepted"]
    BY <1>1 DEF Owned
  <2>2. QED
    BY <1>2, <2>1, StillFalse, ObjectsApart DEF TypeOK
<1>4. /\ Believers' = Believers /\ "accepted" \notin Believers
      /\ \A o \in Believers : m_socket'[o] = m_socket[o]
      /\ \A u \in Users : m_socket'[u] = m_socket[u]
  BY <1>2, <1>3, ObjectsApart DEF Believers
<1>5. TypeOK'
  <2>1. queue' \in Seq(Clients) /\ alive' \subseteq Users /\ reused' \subseteq Fds
    BY <1>1 DEF TypeOK
  <2>2. m_isconnected' \in [Objects -> BOOLEAN]
    BY <1>3 DEF TypeOK
  <2>3. QED
    BY <1>1, <1>2, <2>1, <2>2 DEF TypeOK, States
<1>6. \A o \in Objects : Holds(o) /\ m_socket'[o] = m_socket[o] => Holds(o)'
  BY <1>1, <1>2 DEF Holds, Reported
<1>7. \A u \in Users : Waits(u) => Waits(u)'
  BY <1>1, <1>2, <1>4 DEF Waits
<1>8. Got'
  BY <1>1, <1>2 DEF Got, Owned
<1>9. Owned'
  <2>1. /\ Lives'
        /\ m_isconnected'["accepted"] => pc' = "close"
    BY <1>1, <1>2, <1>3 DEF Owned, Lives
  <2>2. \A o \in Objects : o \in Believers' => Holds(o)'
    BY <1>4, <1>6 DEF Owned
  <2>3. \A u \in Users : calling'[u] = "returned" => Holds(u)'
    BY <1>2, <1>4, <1>6, ObjectsApart DEF Owned
  <2>4. \A u \in Users : calling'[u] = "waits" => Waits(u)'
    BY <1>2, <1>7 DEF Owned
  <2>5. \A u \in Users : calling'[u] = "waits for none" => m_socket'[u] \in Fds \intersect reused'
    BY <1>1, <1>2, <1>4 DEF Owned
  <2>6. QED
    BY <1>8, <2>1, <2>2, <2>3, <2>4, <2>5 DEF Owned
<1>10. NoReportedLost'
  BY <1>1, <1>2, <1>4 DEF NoReportedLost
<1>11. Unconnected' /\ Fits'
  BY <1>1, <1>3 DEF Unconnected, Starting, Fits, AcceptedIsRegistered
<1>12. QED
  BY <1>5, <1>9, <1>10, <1>11

(* The entries that AddFd() makes are within the table, which grows first. *)
LEMMA AddFdFacts ==
  ASSUME TypeOK, Fits, NEW f \in Fds, AddFd(f)
  PROVE  /\ size' \in Nat /\ size' # 0 /\ m_fds' \subseteq Fds
         /\ IsSocket(f) => f \in m_fds'
         /\ m_fds \subseteq m_fds' /\ \A g \in m_fds' : g < size'
<1>1. size \in Nat /\ size # 0 /\ f \in Nat /\ m_fds \subseteq Fds
  BY ObjectsApart DEF TypeOK, Fits
<1>2. \A g \in m_fds : g \in Nat /\ g < size
  BY <1>1, ObjectsApart DEF Fits, AcceptedIsRegistered
<1>3. /\ m_fds' = (IF IsSocket(f) THEN m_fds \union {f} ELSE m_fds)
      /\ size' = IF f >= size THEN f * 2 ELSE size
  BY DEF AddFd, Grown
<1>4. size' \in Nat /\ size' >= size /\ f < size'
  BY <1>1, <1>3
<1>5. \A g \in m_fds' : g < size'
  BY <1>1, <1>2, <1>3, <1>4
<1>6. QED
  BY <1>1, <1>3, <1>4, <1>5

(* Without the connection in place of its own number the new Socket is     *)
(* given up.                                                               *)
LEMMA GivenUpStep ==
  ASSUME SocketInv, pc = "init" \/ pc = "close", pc' = "accept", Delete("accepted"),
         size' \in Nat, size' # 0, m_fds' \subseteq Fds, \A g \in m_fds' : g < size',
         fd' \in Fds \union {-1}, UNCHANGED <<alive, reused, bound, queue>>,
         pc = "init" => fd \in reused
  PROVE  SocketInv'
<1> USE DEF SocketInv
<1>1. /\ Close("accepted") /\ m_socket' = [m_socket EXCEPT !["accepted"] = -1]
      /\ "accepted" \in Objects \ {"server"} /\ "accepted" \notin Users
  BY ObjectsApart DEF Delete
<1>2. /\ desc' \in [Fds -> States]
      /\ maker' \in [Fds -> Objects \union {"none"}] /\ \A f \in Free' : maker'[f] = "none"
      /\ m_isconnected' = [m_isconnected EXCEPT !["accepted"] = FALSE]
      /\ calling' \in [Users -> {"no", "waits", "waits for none", "returned"}]
  BY <1>1, CloseFacts
<1>3. /\ m_socket' \in [Objects -> Fds \union {-1}]
      /\ \A p \in Objects \ {"accepted"} : m_socket'[p] = m_socket[p]
      /\ m_isconnected' \in [Objects -> BOOLEAN] /\ ~m_isconnected'["accepted"]
      /\ \A u \in Users : m_isconnected'[u] = m_isconnected[u] /\ m_socket'[u] = m_socket[u]
  BY <1>1, <1>2, ObjectsApart DEF TypeOK
<1>4. TypeOK'
  <2>1. queue' \in Seq(Clients) /\ alive' \subseteq Users /\ reused' \subseteq Fds
    BY DEF TypeOK
  <2>2. QED
    BY <1>2, <1>3, <2>1 DEF TypeOK, States
<1>5. /\ \A p \in Objects : p \in Believers' => Holds(p)'
      /\ \A u \in Users : calling'[u] = "returned" => Holds(u)'
      /\ \A u \in Users : calling'[u] = "waits" => Waits(u)'
      /\ \A u \in Users : calling'[u] = "waits for none" => m_socket'[u] \in Fds \intersect reused'
      /\ \A f \in Reported' \ reused' :
           \/ \E p \in Believers' : m_socket'[p] = f
           \/ \E u \in Users : calling'[u] = "returned" /\ m_socket'[u] = f
           \/ pc \in {"make", "init"} /\ f = fd
  BY <1>1, <1>3, CloseKeeps
<1>6. Owned'
  <2>1. \A u \in Users : calling'[u] # "no" => calling[u] # "no"
    BY <1>1, CloseFacts
  <2>2. Lives'
    BY <1>3, <2>1 DEF Owned, Lives
  <2>3. QED
    BY <1>3, <1>5, <2>2 DEF Owned
<1>7. NoReportedLost'
  BY <1>5 DEF NoReportedLost
<1>8. Unconnected' /\ Fits'
  BY <1>3 DEF Unconnected, Starting, Fits, AcceptedIsRegistered
<1>9. QED
  BY <1>4, <1>6, <1>7, <1>8

(* The new Socket takes the connection over, if it is still there.         *)
LEMMA AcceptedStep ==
  ASSUME SocketInv, Accepted
  PROVE  SocketInv'
<1> USE DEF SocketInv
<1>1. /\ pc = "init" /\ AddFd(fd) /\ Got /\ fd \in Fds
      /\ fd' = -1 /\ UNCHANGED <<alive, reused, bound, queue>>
  BY DEF Accepted, Owned, Got, users
<1>2. /\ size' \in Nat /\ size' # 0 /\ m_fds' \subseteq Fds
      /\ IsSocket(fd) => fd \in m_fds'
      /\ \A f \in m_fds' : f < size'
  BY <1>1, AddFdFacts
<1>3. CASE ~IsSocket(fd)
  <2>1. Delete("accepted") /\ pc' = "accept"
    BY <1>3 DEF Accepted, Go
  <2>2. fd \in reused
    BY <1>1, <1>3 DEF Got, IsSocket
  <2>3. QED
    BY <1>1, <1>2, <2>1, <2>2, GivenUpStep
<1>4. CASE IsSocket(fd)
  <2>1. /\ pc' = "close" /\ UNCHANGED <<desc, maker, calling>>
        /\ m_socket' = [m_socket EXCEPT !["accepted"] = fd]
        /\ m_isconnected' = [m_isconnected EXCEPT !["accepted"] = TRUE, !["server"] = TRUE]
    BY <1>4 DEF Accepted, Go, InitSocket, kernel
  <2>2. /\ m_socket' \in [Objects -> Fds \union {-1}] /\ m_socket'["accepted"] = fd
        /\ \A o \in Objects \ {"accepted"} : m_socket'[o] = m_socket[o]
        /\ m_isconnected' \in [Objects -> BOOLEAN] /\ m_isconnected'["accepted"]
        /\ \A u \in Users : m_isconnected'[u] = m_isconnected[u] /\ m_socket'[u] = m_socket[u]
    BY <1>1, <2>1, ObjectsApart DEF TypeOK
  <2>3. /\ Believers' = Believers \union {"accepted"} /\ "accepted" \notin Believers
        /\ Reported' = Reported
    BY <1>1, <2>1, <2>2, ObjectsApart DEF Believers, Owned, Reported
  <2>4. TypeOK'
    <3>1. queue' \in Seq(Clients) /\ alive' \subseteq Users /\ reused' \subseteq Fds
          /\ \A f \in Free' : maker'[f] = "none"
      BY <1>1, <2>1 DEF TypeOK, Free
    <3>2. QED
      BY <1>1, <1>2, <2>1, <2>2, <3>1 DEF TypeOK, States
  <2>5. \A o \in Objects \ {"accepted"} : Holds(o)' <=> Holds(o)
    <3>1. maker' = maker /\ reused' = reused
      BY <1>1, <2>1
    <3>2. ASSUME NEW o \in Objects \ {"accepted"} PROVE Holds(o)' <=> Holds(o)
      <4>1. m_socket'[o] = m_socket[o]
        BY <2>2
      <4>2. QED
        BY <2>3, <3>1, <4>1 DEF Holds
    <3>3. QED
      BY <3>2
  <2>6. \A u \in Users : Waits(u)' <=> Waits(u)
    <3>1. maker' = maker /\ reused' = reused /\ desc' = desc
      BY <1>1, <2>1
    <3>2. ASSUME NEW u \in Users PROVE Waits(u)' <=> Waits(u)
      <4>1. m_socket'[u] = m_socket[u]
        BY <2>2
      <4>2. QED
        BY <3>1, <4>1 DEF Waits
    <3>3. QED
      BY <3>2
  <2>7. Holds("accepted")'
    <3>1. maker' = maker /\ reused' = reused
      BY <1>1, <2>1
    <3>2. fd \notin reused => maker[fd] = "accepted" /\ fd \in Reported'
      BY <1>1, <2>3 DEF Got, Reported
    <3>3. QED
      BY <1>1, <2>2, <3>1, <3>2 DEF Holds
  <2>8. Owned'
    <3>1. Lives'
      BY <1>1, <2>1, <2>2 DEF Owned, Lives
    <3>2. \A o \in Objects : o \in Believers' => Holds(o)'
      BY <2>3, <2>5, <2>7 DEF Owned
    <3>3. \A u \in Users : calling'[u] = "returned" => Holds(u)'
      BY <2>1, <2>5, ObjectsApart DEF Owned
    <3>4. /\ \A u \in Users : calling'[u] = "waits" => Waits(u)'
          /\ \A u \in Users : calling'[u] = "waits for none" => m_socket'[u] \in Fds \intersect reused'
      BY <1>1, <2>1, <2>2, <2>6 DEF Owned
    <3>5. QED
      BY <2>1, <3>1, <3>2, <3>3, <3>4 DEF Owned
  <2>9. NoReportedLost'
    <3>1. ASSUME NEW f \in Reported \ reused
          PROVE  \/ \E o \in Believers' : m_socket'[o] = f
                 \/ \E u \in Users : calling'[u] = "returned" /\ m_socket'[u] = f
      <4>1. CASE \E o \in Believers : m_socket[o] = f
        <5>1. PICK o \in Believers : m_socket[o] = f
          BY <4>1
        <5>2. o \in Objects \ {"accepted"} /\ o \in Believers'
          BY <2>3, <5>1 DEF Believers
        <5>3. QED
          BY <2>2, <5>1, <5>2
      <4>2. CASE f = fd
        BY <2>2, <2>3, <4>2
      <4>3. CASE \E u \in Users : calling[u] = "returned" /\ m_socket[u] = f
        BY <2>1, <2>2, <4>3
      <4>4. QED
        BY <4>1, <4>2, <4>3 DEF NoReportedLost
    <3>2. QED
      BY <1>1, <2>3, <3>1 DEF NoReportedLost
  <2>10. Unconnected' /\ Fits'
    BY <1>2, <1>4, <2>1, <2>2 DEF Unconnected, Starting, Fits, AcceptedIsRegistered
  <2>11. QED
    BY <2>4, <2>8, <2>9, <2>10
<1>5. QED
  BY <1>3, <1>4

LEMMA CloseAcceptedStep ==
  ASSUME SocketInv, CloseAccepted
  PROVE  SocketInv'
<1>1. /\ pc = "close" /\ pc' = "accept" /\ Delete("accepted")
      /\ UNCHANGED <<alive, reused, m_fds, size, fd, bound, queue>>
  BY DEF CloseAccepted, Go, table, users, daemon
<1>2. /\ size' \in Nat /\ size' # 0 /\ m_fds' \subseteq Fds /\ \A g \in m_fds' : g < size'
      /\ fd' \in Fds \union {-1}
  BY <1>1 DEF SocketInv, TypeOK, Fits, AcceptedIsRegistered
<1>3. QED
  BY <1>1, <1>2, GivenUpStep

LEMMA RestartStep ==
  ASSUME SocketInv, Restart
  PROVE  SocketInv'
<1>1. /\ desc' = NoFds /\ maker' = NoMakers /\ calling' = NoCalls
      /\ m_socket' = NoNumbers /\ m_isconnected' = NoFlags
      /\ alive' = {} /\ reused' = {} /\ m_fds' = {} /\ size' = TableSize
      /\ pc' = "create" /\ fd' = -1 /\ bound' = FALSE /\ queue' = queue
  BY DEF Restart
<1>2. TypeOK'
  <2>1. /\ desc' \in [Fds -> States] /\ maker' \in [Fds -> Objects \union {"none"}]
        /\ \A f \in Free' : maker'[f] = "none"
        /\ m_socket' \in [Objects -> Fds \union {-1}]
        /\ m_isconnected' \in [Objects -> BOOLEAN]
        /\ calling' \in [Users -> {"no", "waits", "waits for none", "returned"}]
    BY <1>1 DEF NoFds, NoMakers, NoNumbers, NoFlags, NoCalls, States, Free
  <2>2. QED
    BY <1>1, <2>1, ObjectsApart DEF SocketInv, TypeOK, States
<1>3. Believers' = {} /\ Reported' = {} /\ \A u \in Users : calling'[u] = "no"
  BY <1>1 DEF Believers, Reported, NoFlags, NoFds, NoCalls
<1>4. Owned'
  BY <1>1, <1>3, ObjectsApart DEF Owned, Lives, NoFlags
<1>5. Unconnected' /\ NoReportedLost'
  BY <1>1, <1>3 DEF Unconnected, NoReportedLost, NoFlags
<1>6. Fits'
  BY <1>1, ObjectsApart DEF Fits, AcceptedIsRegistered, NoFlags
<1>7. QED
  BY <1>2, <1>4, <1>5, <1>6 DEF SocketInv

LEMMA Unchanged ==
  ASSUME SocketInv, queue' \in Seq(Clients),
         UNCHANGED <<kernel, sockets, users, table, pc, fd, bound>>
  PROVE  SocketInv'
<1> USE DEF SocketInv
<1>1. UNCHANGED <<desc, maker, calling, m_socket, m_isconnected, alive, reused, m_fds, size, pc, fd,
                  bound>>
  BY DEF kernel, sockets, users, table
<1>2. Believers' = Believers /\ Reported' = Reported /\ Free' = Free
  BY <1>1 DEF Believers, Reported, Free
<1>3. TypeOK'
  BY <1>1, <1>2 DEF TypeOK
<1>4. /\ \A o \in Objects : Holds(o)' <=> Holds(o)
      /\ \A u \in Users : Waits(u)' <=> Waits(u)
      /\ Got' <=> Got
  BY <1>1, <1>2 DEF Holds, Waits, Got
<1>5. Owned'
  BY <1>1, <1>2, <1>4, ObjectsApart DEF Owned, Lives
<1>6. NoReportedLost' /\ Unconnected' /\ Fits'
  BY <1>1, <1>2 DEF NoReportedLost, Unconnected, Starting, Fits, AcceptedIsRegistered
<1>7. QED
  BY <1>3, <1>5, <1>6

LEMMA SocketStep == SocketInv /\ [Next]_vars => SocketInv'
<1> SUFFICES ASSUME SocketInv, [Next]_vars PROVE SocketInv'
  OBVIOUS
<1>1. ASSUME NEW c \in Clients, Arrive(c) PROVE SocketInv'
  <2>1. queue' \in Seq(Clients)
    BY <1>1, AppendProperties DEF Arrive, SocketInv, TypeOK
  <2>2. QED
    BY <1>1, <2>1, Unchanged DEF Arrive
<1>2. ASSUME UNCHANGED vars PROVE SocketInv'
  <2>1. queue' \in Seq(Clients)
    BY <1>2 DEF vars, daemon, SocketInv, TypeOK
  <2>2. QED
    BY <1>2, <2>1, Unchanged DEF vars, daemon
<1>3. QED
  BY <1>1, <1>2, UserStep, KernelStep, StartingStep, AcceptStep, MakeAcceptedStep, AcceptedStep,
     CloseAcceptedStep, RestartStep
     DEF Next, Daemon

-----------------------------------------------------------------------------
(* The theorems.                                                           *)

(* ConnectedIsOwn: a Socket that believes to be connected is the only one  *)
(* to have its connection, unless its number is one that a Socket has      *)
(* connected again when it stood for another's.                            *)
THEOREM ConnectionsAreOwn == Spec => []ConnectedIsOwn
<1>1. SocketInv => ConnectedIsOwn
  <2> SUFFICES ASSUME SocketInv, NEW o \in Believers, m_socket[o] \notin reused
               PROVE  /\ m_socket[o] \in Reported
                      /\ \A p \in Believers \ {o} : m_socket[p] # m_socket[o]
    BY DEF ConnectedIsOwn, SocketInv
  <2>1. \A p \in Believers : Holds(p)
    BY DEF SocketInv, Owned, Believers
  <2>2. QED
    BY <2>1 DEF Holds
<1>2. QED
  BY <1>1, SocketInit, SocketStep, PTL DEF Spec

(* NoReportedLost: a connection that a call has reported has a Socket that *)
(* will close it, or is about to have one, for the same numbers.           *)
THEOREM ConnectionsHaveSockets == Spec => []NoReportedLost
<1>1. SocketInv => NoReportedLost
  BY DEF SocketInv
<1>2. QED
  BY <1>1, SocketInit, SocketStep, PTL DEF Spec

(* AcceptedIsRegistered: what Accept() returns is in the descriptor table, *)
(* whose entries are within it, although it only grows by doubling.        *)
THEOREM TableHasAccepted == Spec => []AcceptedIsRegistered
<1>1. SocketInv => AcceptedIsRegistered
  BY DEF SocketInv, Fits
<1>2. QED
  BY <1>1, SocketInit, SocketStep, PTL DEF Spec

=============================================================================
