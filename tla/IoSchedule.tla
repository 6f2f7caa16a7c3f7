----------------------------- MODULE IoSchedule -----------------------------
(***************************************************************************)
(* Class io_schedule (src/include/io.h, src/src/io/io.cpp) on top of the   *)
(* loop of schedule::run: how workers fall asleep in epoll_wait, how       *)
(* dispatch() wakes them through a pipe, when they leave for good, and     *)
(* what stop() waits for.                                                  *)
(*                                                                         *)
(* Coroutines are those of Schedule.tla; a task is here a callback that    *)
(* runs once to its end.  Timers are those of TimerManager.tla without     *)
(* their times: any timer of the set may be due in any pass.  The event    *)
(* table is the subject of EventTable.tla; the only event here is the one  *)
(* of the pipe.  The pipe was registered with the data word that           *)
(* m_pipefds[0] held before pipe() had filled it in (io.cpp:22-26).        *)
(***************************************************************************)
EXTENDS Naturals, Sequences, FiniteSets, SequencesExt, FiniteSetsExt

CONSTANTS
  Workers, Tasks, Timers,
  Early,        (* the timers a client may add before start()              *)
  Cyclic,       (* the timers with m_cyclic                                *)
  Pin,          (* the thread_id each task is dispatched with              *)
  AnyThread,    (* thread_id -1                                            *)
  Client,       (* the threads outside the pool, one call at a time        *)
  None,         (* no task; nobody                                         *)
  Tags,         (* what the data word of the pipe may be: "null" or "pipe" *)
  TimersAlive,  (* bound: no timer is added to as many that are not done   *)
  PipeSize,     (* bound: the messages that fit into the pipe              *)
  QueueSize     (* bound: no cyclic timer expires if the queue is as long  *)

Items == Tasks \cup Timers

ASSUME IoAssumption ==
  /\ Cyclic \subseteq Timers /\ Early \subseteq Timers /\ Tasks \cap Timers = {}
  /\ Pin \in [Items -> Workers \cup {AnyThread}]
  /\ AnyThread \notin Workers /\ Client \notin Workers
  /\ None \notin Items \cup Workers \cup {Client}
  /\ Tags \subseteq {"null", "pipe"}
  /\ TimersAlive \in Nat /\ PipeSize \in Nat \ {0} /\ QueueSize \in Nat

VARIABLES
  m_coroutines,      (* the task queue                                     *)
  m_mutex,           (* who holds m_mutex beyond one step                  *)
  m_freethreadnum,   (* the threads believed to be idle                    *)
  m_activethreadnum, (* the threads believed to run a task                 *)
  m_autostop,        (* has stop() been called?                            *)
  m_timers,          (* the timers in the set, as GetSize() sees them      *)
  timers_lock,       (* who holds the write lock of the set                *)
  pipe,              (* the messages in the pipe                           *)
  edge,              (* has epoll an event of the pipe to deliver?         *)
  tag,               (* the data word the pipe is registered with          *)
  pc, temp,          (* each worker in run(), and the task it took         *)
  idle_terminated,   (* has its idle coroutine the state terminate?        *)
  events,            (* has it still got its epoll_event buffer?           *)
  number,            (* did its epoll_wait deliver the event?              *)
  functions,         (* the timer functions it collected                   *)
  call,              (* each thread in the notify() it has called          *)
  client,            (* the client in its life                             *)
  notifies,          (* the calls of notify() stop() has still to make     *)
  dispatched, ran    (* history: the tasks handed in, the tasks run        *)

runVars == <<pc, temp, idle_terminated, events, number, functions>>
timerVars == <<m_timers, timers_lock>>
pipeVars == <<pipe, edge, tag>>
counters == <<m_freethreadnum, m_activethreadnum>>
clientVars == <<m_autostop, client, notifies, dispatched>>
vars == <<m_coroutines, m_mutex, counters, timerVars, pipeVars, runVars, call,
          clientVars, ran>>

(* In run(): scan, next, run, exited.  In idle(): idle is the top of its   *)
(* loop, poll epoll_wait, expire and putback the two halves of             *)
(* GetExpiredList, hand batch_dispatch, drain the read loop of the pipe,   *)
(* close the end of the pass.                                              *)
IdlePc == {"idle", "poll", "expire", "putback", "hand", "drain", "close"}
WorkerPc == IdlePc \cup {"scan", "next", "run", "exited"}

(* none: not in notify().  check: about to ask has_freethread().  lock,    *)
(* write: about to do that.  crashed: in the hooked write() of a thread    *)
(* that has a current scheduler, which dereferences the empty slots of the *)
(* descriptor table (hook.cpp:83-86, handle.cpp:109-112).                  *)
CallPc == {"none", "check", "lock", "write", "crashed"}

TypeOK ==
  /\ m_coroutines \in Seq(Items)
  /\ m_mutex \in Workers \cup {Client, None}
  /\ m_freethreadnum \in 0..Cardinality(Workers)
  /\ m_activethreadnum \in 0..Cardinality(Workers)
  /\ m_autostop \in BOOLEAN
  /\ m_timers \subseteq Timers /\ timers_lock \in Workers \cup {None}
  /\ pipe \in 0..PipeSize /\ edge \in BOOLEAN /\ tag \in Tags
  /\ pc \in [Workers -> WorkerPc]
  /\ temp \in [Workers -> Items \cup {None}]
  /\ idle_terminated \in [Workers -> BOOLEAN]
  /\ events \in [Workers -> BOOLEAN] /\ number \in [Workers -> BOOLEAN]
  /\ functions \in [Workers -> SUBSET Timers]
  /\ call \in [Workers \cup {Client} -> CallPc]
  /\ client \in {"running", "stopping", "stopped"}
  /\ notifies \in 0..Cardinality(Workers)
  /\ dispatched \subseteq Tasks /\ ran \subseteq dispatched

Init ==
  /\ m_coroutines = <<>> /\ m_mutex = None
  /\ m_freethreadnum = 0 /\ m_activethreadnum = 0
  /\ m_autostop = FALSE
  /\ m_timers \in SUBSET Early /\ timers_lock = None
  /\ pipe = 0 /\ edge = FALSE /\ tag \in Tags
  /\ pc = [w \in Workers |-> "scan"]
  /\ temp = [w \in Workers |-> None]
  /\ idle_terminated = [w \in Workers |-> FALSE]
  /\ events = [w \in Workers |-> TRUE]
  /\ number = [w \in Workers |-> FALSE]
  /\ functions = [w \in Workers |-> {}]
  /\ call = [c \in Workers \cup {Client} |-> "none"]
  /\ client = "running" /\ notifies = 0
  /\ dispatched = {} /\ ran = {}

Goto(w, label) == pc' = [pc EXCEPT ![w] = label]

Calls(c, label) == call' = [call EXCEPT ![c] = label]

-----------------------------------------------------------------------------
(* dispatch(): under m_mutex, append; notify if the queue was empty.       *)

Dispatch(c, item) ==
  /\ call[c] = "none"
  /\ m_mutex = None
  /\ m_coroutines' = Append(m_coroutines, item)
  /\ IF m_coroutines = <<>> THEN Calls(c, "check") ELSE UNCHANGED call

(* notify() gives up unless some thread is counted as idle.                *)
HasFreeThread(c) ==
  /\ call[c] = "check"
  /\ Calls(c, IF m_freethreadnum = 0 THEN "none" ELSE "lock")
  /\ UNCHANGED <<m_coroutines, m_mutex, counters, timerVars, pipeVars, runVars,
                 clientVars, ran>>

Lock(c) ==
  /\ call[c] = "lock"
  /\ m_mutex = None
  /\ m_mutex' = c
  /\ Calls(c, "write")
  /\ UNCHANGED <<m_coroutines, counters, timerVars, pipeVars, runVars,
                 clientVars, ran>>

(* write() under m_mutex.  The descriptor was meant to be non-blocking,    *)
(* but fcntl is given the result of pipe(), so a full pipe blocks.         *)
Room == pipe < PipeSize

Write(c) ==
  /\ call[c] = "write"
  /\ Room
  /\ pipe' = pipe + 1
  /\ edge' = TRUE
  /\ m_mutex' = None
  /\ Calls(c, "none")
  /\ UNCHANGED <<m_coroutines, counters, timerVars, tag, runVars,
                 clientVars, ran>>

(* Of the threads outside the pool, the one that called start() is the one *)
(* with a current scheduler (schedule.cpp:61).                             *)
HookedWrite(c) ==
  /\ call[c] = "write"
  /\ c = Client
  /\ Calls(c, "crashed")
  /\ UNCHANGED <<m_coroutines, m_mutex, counters, timerVars, pipeVars, runVars,
                 clientVars, ran>>

Notify(c) == HasFreeThread(c) \/ Lock(c) \/ Write(c) \/ HookedWrite(c)

-----------------------------------------------------------------------------
(* schedule::run.                                                          *)

Mine(w) == {i \in 1..Len(m_coroutines) : Pin[m_coroutines[i]] \in {AnyThread, w}}

(* need_notify: the scan has passed over a task bound to another thread.   *)
PassedOver(w) ==
  \E j \in 1..Len(m_coroutines) : j \notin Mine(w) /\ \A i \in Mine(w) : j < i

Scan(w) ==
  /\ pc[w] = "scan"
  /\ m_mutex = None
  /\ IF Mine(w) = {}
     THEN UNCHANGED <<m_coroutines, temp>>
     ELSE /\ temp' = [temp EXCEPT ![w] = m_coroutines[Min(Mine(w))]]
          /\ m_coroutines' = RemoveAt(m_coroutines, Min(Mine(w)))
  /\ IF PassedOver(w) THEN Calls(w, "check") ELSE UNCHANGED call
  /\ Goto(w, "next")
  /\ UNCHANGED <<m_mutex, counters, timerVars, pipeVars, idle_terminated,
                 events, number, functions, clientVars, ran>>

Run(w) ==
  /\ pc[w] = "next" /\ call[w] = "none" /\ temp[w] # None
  /\ m_activethreadnum' = m_activethreadnum + 1
  /\ Goto(w, "run")
  /\ UNCHANGED <<m_coroutines, m_mutex, m_freethreadnum, timerVars, pipeVars,
                 temp, idle_terminated, events, number, functions, call,
                 clientVars, ran>>

Finish(w) ==
  /\ pc[w] = "run"
  /\ m_activethreadnum' = m_activethreadnum - 1
  /\ ran' = ran \cup ({temp[w]} \cap Tasks)
  /\ temp' = [temp EXCEPT ![w] = None]
  /\ Goto(w, "scan")
  /\ UNCHANGED <<m_coroutines, m_mutex, m_freethreadnum, timerVars, pipeVars,
                 idle_terminated, events, number, functions, call, clientVars>>

Exit(w) ==
  /\ pc[w] = "next" /\ call[w] = "none" /\ temp[w] = None
  /\ idle_terminated[w]
  /\ Goto(w, "exited")
  /\ UNCHANGED <<m_coroutines, m_mutex, counters, timerVars, pipeVars, temp,
                 idle_terminated, events, number, functions, call, clientVars, ran>>

EnterIdle(w) ==
  /\ pc[w] = "next" /\ call[w] = "none" /\ temp[w] = None
  /\ ~idle_terminated[w]
  /\ m_freethreadnum' = m_freethreadnum + 1
  /\ Goto(w, "idle")
  /\ UNCHANGED <<m_coroutines, m_mutex, m_activethreadnum, timerVars, pipeVars,
                 temp, idle_terminated, events, number, functions, call,
                 clientVars, ran>>

-----------------------------------------------------------------------------
(* io_schedule::idle, one pass of its loop.                                *)

(* can_stop() as it is written: it asks for an active thread and a timer.  *)
CanStop ==
  /\ m_activethreadnum # 0
  /\ m_coroutines = <<>>
  /\ m_timers # {}
  /\ m_autostop

TopOfLoop(w) ==
  /\ pc[w] = "idle"
  /\ IF CanStop
     THEN /\ idle_terminated' = [idle_terminated EXCEPT ![w] = TRUE]
          /\ m_freethreadnum' = m_freethreadnum - 1
          /\ Goto(w, "scan")
     ELSE /\ Goto(w, "poll")
          /\ UNCHANGED <<idle_terminated, m_freethreadnum>>
  /\ UNCHANGED <<m_coroutines, m_mutex, m_activethreadnum, timerVars, pipeVars,
                 temp, events, number, functions, call, clientVars, ran>>

(* Faulty: no time-out if there is no timer.                               *)
PollForEver(w) ==
  /\ pc[w] = "poll"
  /\ m_timers # {} \/ edge
  /\ number' = [number EXCEPT ![w] = edge /\ events[w]]
  /\ edge' = (edge /\ ~events[w])
  /\ Goto(w, "expire")
  /\ UNCHANGED <<m_coroutines, m_mutex, counters, timerVars, pipe, tag, temp,
                 idle_terminated, events, functions, call, clientVars, ran>>

(* epoll_wait, for at most 3 seconds.  The events array was deleted at the *)
(* end of the first pass: from then on delivering an event fails and       *)
(* leaves it to be delivered.                                              *)
Poll(w) ==
  /\ pc[w] = "poll"
  /\ number' = [number EXCEPT ![w] = edge /\ events[w]]
  /\ edge' = (edge /\ ~events[w])
  /\ Goto(w, "expire")
  /\ UNCHANGED <<m_coroutines, m_mutex, counters, timerVars, pipe, tag, temp,
                 idle_terminated, events, functions, call, clientVars, ran>>

(* GetExpiredList erases what is due and puts the cyclic timers back,      *)
(* under its lock; GetSize() does not take it.                             *)
Expire(w) ==
  /\ pc[w] = "expire"
  /\ timers_lock = None
  /\ \E due \in SUBSET m_timers :
       /\ due \cap Cyclic # {} => Len(m_coroutines) < QueueSize
       /\ m_timers' = m_timers \ due
       /\ functions' = [functions EXCEPT ![w] = due]
  /\ timers_lock' = w
  /\ Goto(w, "putback")
  /\ UNCHANGED <<m_coroutines, m_mutex, counters, pipeVars, temp,
                 idle_terminated, events, number, call, clientVars, ran>>

PutBack(w) ==
  /\ pc[w] = "putback"
  /\ m_timers' = m_timers \cup (functions[w] \cap Cyclic)
  /\ timers_lock' = None
  /\ Goto(w, "hand")
  /\ UNCHANGED <<m_coroutines, m_mutex, counters, pipeVars, temp,
                 idle_terminated, events, number, functions, call, clientVars, ran>>

(* batch_dispatch, one function at a time, each with its own notify().     *)
Hand(w) ==
  /\ pc[w] = "hand"
  /\ \E t \in functions[w] :
       /\ Dispatch(w, t)
       /\ functions' = [functions EXCEPT ![w] = @ \ {t}]
  /\ UNCHANGED <<m_mutex, counters, timerVars, pipeVars, pc, temp,
                 idle_terminated, events, number, clientVars, ran>>

(* The event of the pipe is recognised by its data word; a null word is    *)
(* passed over.                                                            *)
Handle(w) ==
  /\ pc[w] = "hand" /\ call[w] = "none" /\ functions[w] = {}
  /\ Goto(w, IF number[w] /\ tag = "pipe" THEN "drain" ELSE "close")
  /\ UNCHANGED <<m_coroutines, m_mutex, counters, timerVars, pipeVars, temp,
                 idle_terminated, events, number, functions, call, clientVars, ran>>

(* while(read(..)==6): only a non-blocking read of an empty pipe would end *)
(* the loop.                                                               *)
Drain(w) ==
  /\ pc[w] = "drain"
  /\ pipe > 0
  /\ pipe' = pipe - 1
  /\ UNCHANGED <<m_coroutines, m_mutex, counters, timerVars, edge, tag,
                 runVars, call, clientVars, ran>>

(* Faulty: m_freethreadnum is not decremented on the way out of idle().    *)
CloseAndStayFree(w) ==
  /\ pc[w] = "close"
  /\ events' = [events EXCEPT ![w] = FALSE]
  /\ number' = [number EXCEPT ![w] = FALSE]
  /\ idle_terminated' = [idle_terminated EXCEPT ![w] = (m_timers = {})]
  /\ Goto(w, "scan")
  /\ UNCHANGED <<m_coroutines, m_mutex, counters, timerVars,
                 pipeVars, temp, functions, call, clientVars, ran>>

(* Faulty: the idle coroutine always goes back to init.                    *)
CloseAndStay(w) ==
  /\ pc[w] = "close"
  /\ events' = [events EXCEPT ![w] = FALSE]
  /\ number' = [number EXCEPT ![w] = FALSE]
  /\ m_freethreadnum' = m_freethreadnum - 1
  /\ Goto(w, "scan")
  /\ UNCHANGED <<m_coroutines, m_mutex, m_activethreadnum, timerVars,
                 pipeVars, temp, idle_terminated, functions, call, clientVars, ran>>

(* Faulty: the timers do not keep the worker.                              *)
CloseAndLeave(w) ==
  /\ pc[w] = "close"
  /\ events' = [events EXCEPT ![w] = FALSE]
  /\ number' = [number EXCEPT ![w] = FALSE]
  /\ m_freethreadnum' = m_freethreadnum - 1
  /\ idle_terminated' = [idle_terminated EXCEPT ![w] = TRUE]
  /\ Goto(w, "scan")
  /\ UNCHANGED <<m_coroutines, m_mutex, m_activethreadnum, timerVars,
                 pipeVars, temp, functions, call, clientVars, ran>>

(* The pass ends: delete the buffer, and stay only if there are timers     *)
(* (m_running is never TRUE).                                              *)
Close(w) ==
  /\ pc[w] = "close"
  /\ events' = [events EXCEPT ![w] = FALSE]
  /\ number' = [number EXCEPT ![w] = FALSE]
  /\ idle_terminated' = [idle_terminated EXCEPT ![w] = (m_timers = {})]
  /\ m_freethreadnum' = m_freethreadnum - 1
  /\ Goto(w, "scan")
  /\ UNCHANGED <<m_coroutines, m_mutex, m_activethreadnum, timerVars,
                 pipeVars, temp, functions, call, clientVars, ran>>

-----------------------------------------------------------------------------
ClientDispatch(t) ==
  /\ client = "running"
  /\ t \notin dispatched
  /\ dispatched' = dispatched \cup {t}
  /\ Dispatch(Client, t)
  /\ UNCHANGED <<m_mutex, counters, timerVars, pipeVars, runVars, m_autostop,
                 client, notifies, ran>>

(* AddTimer(): under m_mutex and the lock of the set.  The other timers    *)
(* were added before start().                                              *)
Waiting(t) ==
  \/ t \in m_timers \cup ToSet(m_coroutines)
  \/ \E w \in Workers : t \in functions[w] \/ temp[w] = t

AddTimer(t) ==
  /\ client = "running" /\ call[Client] = "none"
  /\ t \notin Early /\ ~Waiting(t)
  /\ Cardinality({u \in Timers : Waiting(u)}) < TimersAlive
  /\ m_mutex = None /\ timers_lock = None
  /\ m_timers' = m_timers \cup {t}
  /\ UNCHANGED <<m_coroutines, m_mutex, counters, timers_lock, pipeVars, runVars,
                 call, clientVars, ran>>

(* DelteTimer(): find() finds no timer (DeleteFindsNothing in              *)
(* TimerManager.tla), so nothing is erased.                                *)
DelteTimer(t) ==
  /\ client = "running" /\ call[Client] = "none"
  /\ t \in m_timers
  /\ m_mutex = None /\ timers_lock = None
  /\ UNCHANGED vars

(* stop(): set m_autostop, call notify() as often as there are threads,    *)
(* and then join the threads.                                              *)
Stop ==
  /\ client = "running" /\ call[Client] = "none"
  /\ m_autostop' = TRUE
  /\ client' = "stopping"
  /\ notifies' = Cardinality(Workers)
  /\ UNCHANGED <<m_coroutines, m_mutex, counters, timerVars, pipeVars, runVars,
                 call, dispatched, ran>>

StopNotify ==
  /\ client = "stopping" /\ call[Client] = "none"
  /\ notifies > 0
  /\ notifies' = notifies - 1
  /\ Calls(Client, "check")
  /\ UNCHANGED <<m_coroutines, m_mutex, counters, timerVars, pipeVars, runVars,
                 m_autostop, client, dispatched, ran>>

Join ==
  /\ client = "stopping" /\ call[Client] = "none"
  /\ notifies = 0
  /\ \A w \in Workers : pc[w] = "exited"
  /\ client' = "stopped"
  /\ UNCHANGED <<m_coroutines, m_mutex, counters, timerVars, pipeVars, runVars,
                 call, m_autostop, notifies, dispatched, ran>>

WorkerStep(w) ==
  \/ Scan(w) \/ Run(w) \/ Finish(w) \/ Exit(w) \/ EnterIdle(w)
  \/ TopOfLoop(w) \/ Poll(w) \/ Expire(w) \/ PutBack(w) \/ Hand(w)
  \/ Handle(w) \/ Drain(w) \/ Close(w)
  \/ Notify(w)

Next ==
  \/ \E w \in Workers : WorkerStep(w)
  \/ Notify(Client)
  \/ \E t \in Tasks : ClientDispatch(t)
  \/ \E t \in Timers : AddTimer(t) \/ DelteTimer(t)
  \/ Stop \/ StopNotify \/ Join

Spec == Init /\ [][Next]_vars

(* Threads run, bodies end, epoll_wait returns when its time is over, and  *)
(* a one-shot timer comes due: whoever then calls GetExpiredList takes it. *)
FairSpec ==
  /\ Spec
  /\ \A w \in Workers : WF_vars(WorkerStep(w))
  /\ \A t \in Timers \ Cyclic :
       SF_vars(\E w \in Workers : Expire(w) /\ t \in functions'[w])
  /\ WF_vars(Notify(Client) \/ StopNotify \/ Join)

-----------------------------------------------------------------------------
(* m_freethreadnum and m_activethreadnum, which notify() and can_stop()    *)
(* decide by, count the threads that are in idle() and in a task.          *)
CountersAgree ==
  /\ TypeOK
  /\ m_freethreadnum = Cardinality({w \in Workers : pc[w] \in IdlePc})
  /\ m_activethreadnum = Cardinality({w \in Workers : pc[w] = "run"})

(* A cyclic timer is in the set, or out of it between the two halves of    *)
(* GetExpiredList.                                                         *)
HasCyclic(timers) ==
  \E t \in timers \cap Cyclic :
     t \in m_timers \/ \E w \in Workers : pc[w] = "putback" /\ t \in functions[w]

(* With a cyclic timer from the beginning, and before stop(), the pool     *)
(* never dies out, although each worker reads the size of the set while    *)
(* another may be between erasing the timer and putting it back            *)
(* (io.cpp:249, timer.cpp:104-111).                                        *)
SomebodyStays ==
  HasCyclic(Early) /\ ~m_autostop => \E w \in Workers : pc[w] # "exited"

(* The ways in which a worker, or all of them, can be lost for good: it    *)
(* has left run(), it sits in the read of the pipe, which ought to be      *)
(* non-blocking, or m_mutex is held by a thread that blocks or has crashed *)
(* in write().                                                             *)
OutOfService(w) == pc[w] \in {"exited", "drain"}

Jammed ==
  \E c \in Workers \cup {Client} :
     call[c] = "crashed" \/ (call[c] = "write" /\ ~Room)

(* A dispatched task runs, however its wake-up was lost: the time-out of   *)
(* epoll_wait makes up for it (io.cpp:197).  The only exception is that in *)
(* the end every worker that may take it is lost for good.                 *)
TaskRuns ==
  \A t \in Tasks :
     t \in ToSet(m_coroutines) ~>
       \/ t \in ran
       \/ [](Jammed \/ \A w \in Workers : Pin[t] \in {AnyThread, w} => OutOfService(w))

(* stop() returns (schedule.cpp:199) if no cyclic timer keeps the workers, *)
(* because each of them leaves after a pass that finds the set empty       *)
(* (io.cpp:249-252), unless one is lost for good.                          *)
StopReturns ==
  client = "stopping" ~>
    \/ client = "stopped"
    \/ HasCyclic(Timers)
    \/ [](Jammed \/ \E w \in Workers : pc[w] = "drain")

=============================================================================
