----------------------------- MODULE ThreadPool -----------------------------
(***************************************************************************)
(* How a scheduler gets and gives up its threads: class Thread and class   *)
(* Semaphore (src/include/thread.h, src/src/concurrent/thread.cpp) with    *)
(* schedule::start, stop and the destructor (schedule.cpp).                *)
(*                                                                         *)
(* One client thread creates the pool.  start() holds m_mutex throughout,  *)
(* and the constructor of each Thread waits on a Semaphore until the new   *)
(* thread has stored its id.  release() changes m_count and notifies       *)
(* without the lock that wait() holds while it looks at m_count, so the    *)
(* model takes every one of these as a step of its own.                    *)
(*                                                                         *)
(* ScheduleProofs.tla extends Schedule and this module, so names that      *)
(* every specification has, like Init, are PoolInit here.                  *)
(***************************************************************************)
EXTENDS Naturals, Sequences, FiniteSets, SequencesExt

CONSTANT m_threadsnum   (* the number of threads of the pool               *)

ASSUME ThreadPoolAssumption == m_threadsnum \in Nat \ {0}

VARIABLES
  client,        (* where the client is in start(), stop() or ~schedule()  *)
  created,       (* the number of Thread objects start() has made          *)
  m_mutex,       (* is m_mutex of the scheduler held by start()?           *)
  m_count,       (* m_count of the semaphore of each thread                *)
  m_id,          (* m_id of each thread, 0 until the thread stores it      *)
  m_threads_id,  (* the ids start() has recorded                           *)
  thread,        (* where each thread is in Thread::run                    *)
  joined         (* the number of threads stop() has joined                *)

poolvars == <<client, created, m_mutex, m_count, m_id, m_threads_id, thread, joined>>

Threads == 1..m_threadsnum

(* new: before start().  create: top of its loop.  check: in wait(), about *)
(* to look at m_count.  block: has seen 0 and will sleep.  asleep: on the  *)
(* condition variable.  record: wait() is over.  started: start() has      *)
(* returned.  joining: in stop().  stopped, destroyed.                     *)
ClientAt == {"new", "create", "check", "block", "asleep", "record", "started",
             "joining", "stopped", "destroyed"}

(* none: not created.  setid, count, notify: in Thread::run, about to do   *)
(* that.  enter: about to call run() and lock m_mutex.  running: in the    *)
(* loop of run().  exited.                                                 *)
ThreadAt == {"none", "setid", "count", "notify", "enter", "running", "exited"}

PoolTypeOK ==
  /\ client \in ClientAt
  /\ created \in 0..m_threadsnum
  /\ m_mutex \in BOOLEAN
  /\ m_count \in [Threads -> {0, 1}]
  /\ m_id \in [Threads -> 0..m_threadsnum]
  /\ m_threads_id \in Seq(0..m_threadsnum)
  /\ thread \in [Threads -> ThreadAt]
  /\ joined \in 0..m_threadsnum

PoolInit ==
  /\ client = "new"
  /\ created = 0
  /\ m_mutex = FALSE
  /\ m_count = [t \in Threads |-> 0]
  /\ m_id = [t \in Threads |-> 0]
  /\ m_threads_id = <<>>
  /\ thread = [t \in Threads |-> "none"]
  /\ joined = 0

-----------------------------------------------------------------------------
(* Faulty: start() does not take m_mutex.                                  *)
StartUnlocked ==
  /\ client = "new"
  /\ client' = "create"
  /\ UNCHANGED <<created, m_mutex, m_count, m_id, m_threads_id, thread, joined>>

Start ==
  /\ client = "new"
  /\ client' = "create"
  /\ m_mutex' = TRUE
  /\ UNCHANGED <<created, m_count, m_id, m_threads_id, thread, joined>>

(* Thread::Thread: pthread_create, then wait on the new semaphore.         *)
Create ==
  /\ client = "create"
  /\ created < m_threadsnum
  /\ created' = created + 1
  /\ thread' = [thread EXCEPT ![created + 1] = "setid"]
  /\ client' = "check"
  /\ UNCHANGED <<m_mutex, m_count, m_id, m_threads_id, joined>>

(* Semaphore::wait: the predicate is evaluated, and only then does         *)
(* condition_variable::wait go to sleep.                                   *)
Check ==
  /\ client = "check"
  /\ \/ m_count[created] > 0
        /\ m_count' = [m_count EXCEPT ![created] = @ - 1]
        /\ client' = "record"
     \/ m_count[created] = 0
        /\ client' = "block"
        /\ UNCHANGED m_count
  /\ UNCHANGED <<created, m_mutex, m_id, m_threads_id, thread, joined>>

Block ==
  /\ client = "block"
  /\ client' = "asleep"
  /\ UNCHANGED <<created, m_mutex, m_count, m_id, m_threads_id, thread, joined>>

(* The operating system may end a condition wait early; nothing makes it.  *)
SpuriousWake ==
  /\ client = "asleep"
  /\ client' = "check"
  /\ UNCHANGED <<created, m_mutex, m_count, m_id, m_threads_id, thread, joined>>

(* start() records the id the constructor has waited for.                  *)
Record ==
  /\ client = "record"
  /\ m_threads_id' = Append(m_threads_id, m_id[created])
  /\ client' = "create"
  /\ UNCHANGED <<created, m_mutex, m_count, m_id, thread, joined>>

(* Faulty: m_mutex is not released on one way out of start().              *)
StartedLocked ==
  /\ client = "create"
  /\ created = m_threadsnum
  /\ client' = "started"
  /\ UNCHANGED <<created, m_mutex, m_count, m_id, m_threads_id, thread, joined>>

Started ==
  /\ client = "create"
  /\ created = m_threadsnum
  /\ client' = "started"
  /\ m_mutex' = FALSE
  /\ UNCHANGED <<created, m_count, m_id, m_threads_id, thread, joined>>

-----------------------------------------------------------------------------
SetId(t) ==
  /\ thread[t] = "setid"
  /\ m_id' = [m_id EXCEPT ![t] = t]
  /\ thread' = [thread EXCEPT ![t] = "count"]
  /\ UNCHANGED <<client, created, m_mutex, m_count, m_threads_id, joined>>

(* Faulty: the semaphore is released twice.                                *)
CountTwice(t) ==
  /\ thread[t] = "count"
  /\ m_count' = [m_count EXCEPT ![t] = @ + 2]
  /\ thread' = [thread EXCEPT ![t] = "notify"]
  /\ UNCHANGED <<client, created, m_mutex, m_id, m_threads_id, joined>>

(* Semaphore::release: m_count++ and notify_one, without the lock.         *)
Count(t) ==
  /\ thread[t] = "count"
  /\ m_count' = [m_count EXCEPT ![t] = @ + 1]
  /\ thread' = [thread EXCEPT ![t] = "notify"]
  /\ UNCHANGED <<client, created, m_mutex, m_id, m_threads_id, joined>>

(* notify_one wakes a sleeping waiter and is lost on any other.            *)
Notify(t) ==
  /\ thread[t] = "notify"
  /\ thread' = [thread EXCEPT ![t] = "enter"]
  /\ client' = IF client = "asleep" /\ created = t THEN "check" ELSE client
  /\ UNCHANGED <<created, m_mutex, m_count, m_id, m_threads_id, joined>>

(* func() is schedule::run; its first lock of m_mutex waits for start().   *)
EnterRun(t) ==
  /\ thread[t] = "enter"
  /\ ~m_mutex
  /\ thread' = [thread EXCEPT ![t] = "running"]
  /\ UNCHANGED <<client, created, m_mutex, m_count, m_id, m_threads_id, joined>>

(* run() returns, which it need not ever do: its loop goes on as long as a *)
(* timer is there (io.cpp:249), and a worker may stay in the read of the   *)
(* pipe (io.cpp:207).  Schedule.tla and IoSchedule.tla have that loop.     *)
LeaveRun(t) ==
  /\ thread[t] = "running"
  /\ thread' = [thread EXCEPT ![t] = "exited"]
  /\ UNCHANGED <<client, created, m_mutex, m_count, m_id, m_threads_id, joined>>

-----------------------------------------------------------------------------
Stop ==
  /\ client = "started"
  /\ client' = "joining"
  /\ UNCHANGED <<created, m_mutex, m_count, m_id, m_threads_id, thread, joined>>

(* Faulty: stop() detaches the threads and does not wait for them.         *)
DetachAll ==
  /\ client = "joining"
  /\ joined < m_threadsnum
  /\ joined' = joined + 1
  /\ UNCHANGED <<client, created, m_mutex, m_count, m_id, m_threads_id, thread>>

(* m_threads[i]->join(), in the order of creation.                         *)
Join ==
  /\ client = "joining"
  /\ joined < m_threadsnum
  /\ thread[joined + 1] = "exited"
  /\ joined' = joined + 1
  /\ UNCHANGED <<client, created, m_mutex, m_count, m_id, m_threads_id, thread>>

Stopped ==
  /\ client = "joining"
  /\ joined = m_threadsnum
  /\ client' = "stopped"
  /\ UNCHANGED <<created, m_mutex, m_count, m_id, m_threads_id, thread, joined>>

(* ~schedule() would stop a running scheduler, but asks m_running, which   *)
(* start() leaves FALSE: that the scheduler is stopped first is up to the  *)
(* client.                                                                 *)
Destroy ==
  /\ client = "stopped"
  /\ client' = "destroyed"
  /\ UNCHANGED <<created, m_mutex, m_count, m_id, m_threads_id, thread, joined>>

-----------------------------------------------------------------------------
ClientStep ==
  \/ Start \/ Create \/ Check \/ Block \/ Record \/ Started
  \/ Join \/ Stopped

(* What a thread does on its way into run().                               *)
ThreadStep(t) == SetId(t) \/ Count(t) \/ Notify(t) \/ EnterRun(t)

PoolNext ==
  \/ ClientStep
  \/ SpuriousWake
  \/ Stop
  \/ Destroy
  \/ \E t \in Threads : ThreadStep(t) \/ LeaveRun(t)

PoolSpec == PoolInit /\ [][PoolNext]_poolvars

(* Every thread runs.  Nobody is obliged to call stop(), to destroy the    *)
(* scheduler, to be woken without a reason, or to leave run().             *)
PoolFairSpec ==
  /\ PoolSpec
  /\ WF_poolvars(ClientStep)
  /\ \A t \in Threads : WF_poolvars(ThreadStep(t))

-----------------------------------------------------------------------------
(* No worker is in the loop of run() before the pool is complete and the   *)
(* id of every thread is known, so that a task can be bound to any of them *)
(* (schedule.cpp:59-69, thread.cpp:54-61).                                 *)
PoolComplete ==
  (\E t \in Threads : thread[t] \notin {"none", "setid", "count", "notify", "enter"})
    => m_threads_id = [t \in Threads |-> t]

(* When stop() has returned, and so when the scheduler is destroyed, every *)
(* thread has left run() (schedule.cpp:199 waits for all to finish).       *)
StopWaitsForAll ==
  client \in {"stopped", "destroyed"} => \A t \in Threads : thread[t] = "exited"

(* The thread start() waits for has notified before start() was asleep.    *)
Missed == client = "asleep" /\ thread[created] \notin {"setid", "count", "notify"}

(* start() builds the pool and returns (schedule.cpp:69), unless a         *)
(* notification has fallen between the test and the sleep of wait()        *)
(* (thread.cpp:21-30).  Once it has returned every worker gets to run(),   *)
(* and a stop() that was called returns if all of them leave it again      *)
(* (schedule.cpp:199), whatever the order in which they do; whether they   *)
(* leave is StopReturns of IoSchedule.                                     *)
PoolRunsAndStops ==
  /\ client = "create" ~> client = "started" \/ Missed
  /\ client = "started" ~> \A t \in Threads : thread[t] \in {"running", "exited"}
  /\ client = "joining" /\ (\A t \in Threads : thread[t] = "exited")
       ~> client \in {"stopped", "destroyed"}

-----------------------------------------------------------------------------
(* What makes PoolComplete and StopWaitsForAll inductive.                  *)

InConstructor == client \in {"check", "block", "asleep", "record"}

(* start() holds m_mutex from its first step to its last, and the threads  *)
(* there are the ones it has created.                                      *)
StartHoldsMutex ==
  /\ m_mutex <=> client = "create" \/ InConstructor
  /\ client = "new" => created = 0
  /\ InConstructor => created > 0
  /\ client \in {"started", "joining", "stopped", "destroyed"} => created = m_threadsnum
  /\ \A t \in Threads : thread[t] = "none" <=> t > created

(* A semaphore is released after the id is stored, and only once.          *)
IdBeforeCount ==
  /\ \A t \in Threads : thread[t] \notin {"none", "setid"} => m_id[t] = t
  /\ \A t \in Threads : m_count[t] > 0 => thread[t] \notin {"none", "setid", "count"}
  /\ client = "record" => m_id[created] = created

(* start() has recorded the ids of the threads whose constructor is over.  *)
Recorded ==
  /\ Len(m_threads_id) = IF InConstructor THEN created - 1 ELSE created
  /\ \A i \in 1..Len(m_threads_id) : m_threads_id[i] = i

(* A thread is in the loop of run() only behind start(), and what stop()   *)
(* has joined is over.                                                     *)
RunsBehindStart ==
  /\ \A t \in Threads : thread[t] \in {"running", "exited"} =>
        client \in {"started", "joining", "stopped", "destroyed"}
  /\ \A t \in 1..joined : thread[t] = "exited"
  /\ client \in {"stopped", "destroyed"} => joined = m_threadsnum

(* All of it: what start(), the constructors and stop() rely on at each of *)
(* their steps (schedule.cpp:59-69, 180-205, thread.cpp:34-69).            *)
PoolInv ==
  PoolTypeOK /\ StartHoldsMutex /\ IdBeforeCount /\ Recorded /\ RunsBehindStart

=============================================================================
