------------------------------ MODULE Schedule ------------------------------
(***************************************************************************)
(* The core of the program: class schedule (src/include/schedule.h,        *)
(* src/src/concurrent/schedule.cpp) and the coroutines it runs             *)
(* (src/include/coroutine.h, src/src/concurrent/coroutine.cpp).            *)
(*                                                                         *)
(* Each pool thread executes schedule::run: take the first eligible task   *)
(* of m_coroutines under m_mutex, switch into its coroutine, and after it  *)
(* has switched out look at its m_state to decide what becomes of it.  The *)
(* model keeps the two things the code keeps separately and that can       *)
(* disagree: the flag m_state and where the machine context really is.     *)
(*                                                                         *)
(* A task and the coroutine object made for it share one name, because a   *)
(* callback is wrapped in exactly one coroutine.  The virtual members      *)
(* notify, idle and can_stop are those of the subclass; here notify has no *)
(* effect (schedule::notify returns at once) and a pass of idle ends in    *)
(* one of IdleEnds.  IoSchedule.tla gives them the bodies of io_schedule.  *)
(***************************************************************************)
EXTENDS Naturals, Sequences, SequencesExt

CONSTANTS
  Workers,    (* the pool threads, each executing schedule::run            *)
  Tasks,      (* the callbacks and coroutines clients dispatch, once each  *)
  AnyThread,  (* thread_id -1: any thread may execute the task             *)
  NoTask,     (* an empty coroutine_s                                      *)
  Pins,       (* the thread_id values clients pass to dispatch             *)
  IdleEnds,   (* the states a pass of idle() may leave its coroutine in    *)
  Client      (* the ways in which clients are undisciplined, see below    *)

(***************************************************************************)
(* run() is not safe for every client.  Each name permits one use of the   *)
(* public interface that the code accepts:                                 *)
(*   "eager"      a suspended coroutine is dispatched by whoever holds it  *)
(*                (an event context) before run() has finished with it;    *)
(*   "leak"       a body ends while somebody still holds its coroutine;    *)
(*   "anonymous"  a body pauses although nobody holds its coroutine, as    *)
(*                the sleep and usleep hooks do (hook.cpp:46-48);          *)
(*   "construct"  a body constructs a coroutine object and dispatches it.  *)
(***************************************************************************)
ClientHabits == {"eager", "leak", "anonymous", "construct"}

(* coroutine_s: a callback (s_function) or a coroutine (s_coroutine).      *)
Kinds == {"function", "coroutine"}

Entry == [task : Tasks, kind : Kinds, thread_id : Workers \cup {AnyThread}]

ASSUME ScheduleAssumption ==
  /\ AnyThread \notin Workers
  /\ NoTask \notin Workers \cup {AnyThread} \cup Entry
  /\ Tasks \cap {"main", "idle"} = {}
  /\ Pins \subseteq Workers \cup {AnyThread}
  /\ IdleEnds \subseteq {"init", "terminate"}
  /\ Client \subseteq ClientHabits

VARIABLES
  m_coroutines,  (* the task queue, guarded by m_mutex                     *)
  pc,            (* where each thread is in run() or in the task it runs   *)
  temp,          (* the coroutine_s a thread took from the queue           *)
  cur_fiber,     (* thread_local: the coroutine believed to be running     *)
  idle_state,    (* m_state of the thread's idle_coroutine                 *)
  m_state,       (* m_state of a task's coroutine                          *)
  m_context,     (* where the task's execution really is                   *)
  holders,       (* tasks whose coroutine somebody outside run() refers    *)
                 (* to: an event context, or a client with a shared_ptr    *)
  pin            (* history: the thread_id the task was dispatched with    *)

vars == <<m_coroutines, pc, temp, cur_fiber, idle_state, m_state, m_context,
          holders, pin>>

CoroutineStates == {"init", "ready", "running", "pause", "terminate", "error"}

(* none: no coroutine object yet.  fresh: made by makecontext.  blank: the *)
(* same, with an empty m_function.  live: executing, or switched out only  *)
(* in part.  saved: swapcontext has stored it.  foreign: it stores the     *)
(* execution of another task.  done: the entry function has switched out   *)
(* for the last time.  freed, lost: the object was destroyed after its     *)
(* body had ended, or before.                                              *)
Contexts == {"none", "fresh", "blank", "live", "saved", "foreign", "done",
             "freed", "lost"}

(* start: before run().  scan: top of the loop.  picked: holds a task.     *)
(* empty: found none.  body: in the task.  yielding, returning: m_state is *)
(* set and swapcontext not yet done.  settle: back in run() behind         *)
(* swap_enter.  idle: in idle().  exited: run() has returned.  undefined:  *)
(* switched into a context that was not there to be resumed.               *)
Control == {"start", "scan", "picked", "empty", "body", "yielding",
            "returning", "settle", "idle", "exited", "undefined"}

OnStack == {"body", "yielding", "returning", "undefined"}

Fibers == Tasks \cup {"main", "idle"}

TypeOK ==
  /\ m_coroutines \in Seq(Entry)
  /\ pc \in [Workers -> Control]
  /\ temp \in [Workers -> Entry \cup {NoTask}]
  /\ cur_fiber \in [Workers -> Fibers]
  /\ idle_state \in [Workers -> {"init", "running", "pause", "terminate"}]
  /\ m_state \in [Tasks -> CoroutineStates]
  /\ m_context \in [Tasks -> Contexts]
  /\ holders \in SUBSET Tasks
  /\ pin \in [Tasks -> Workers \cup {AnyThread, NoTask}]

-----------------------------------------------------------------------------
Init ==
  /\ m_coroutines = <<>>
  /\ pc = [w \in Workers |-> "start"]
  /\ temp = [w \in Workers |-> NoTask]
  /\ cur_fiber = [w \in Workers |-> "main"]
  /\ idle_state = [w \in Workers |-> "init"]
  /\ m_state = [t \in Tasks |-> "init"]
  /\ m_context = [t \in Tasks |-> "none"]
  /\ holders = {}
  /\ pin = [t \in Tasks |-> NoTask]

Queued(t) == \E i \in 1..Len(m_coroutines) : m_coroutines[i].task = t

Holding(w, t) == temp[w] # NoTask /\ temp[w].task = t

InHand(t) == \E w \in Workers : Holding(w, t)

Goto(w, label) == pc' = [pc EXCEPT ![w] = label]

(* Faulty: thread_id is left unset.  Faulty: push_front for push_back.      *)
PushUnbound(t, kind, tid) ==
  m_coroutines' = Append(m_coroutines,
                         [task |-> t, kind |-> kind, thread_id |-> NoTask])

PushFront(t, kind, tid) ==
  m_coroutines' = <<[task |-> t, kind |-> kind, thread_id |-> tid]>>
                    \o m_coroutines

(* dispatch(): append under m_mutex; the wake-up belongs to the subclass.  *)
Push(t, kind, tid) ==
  m_coroutines' = Append(m_coroutines,
                         [task |-> t, kind |-> kind, thread_id |-> tid])

(* A client hands in a callback, or a coroutine it has constructed on a    *)
(* thread of its own.                                                      *)
Dispatch(t, kind, tid) ==
  /\ pin[t] = NoTask
  /\ Push(t, kind, tid)
  /\ pin' = [pin EXCEPT ![t] = tid]
  /\ m_context' = [m_context EXCEPT ![t] =
                     IF kind = "coroutine" THEN "fresh" ELSE "none"]
  /\ UNCHANGED <<pc, temp, cur_fiber, idle_state, m_state, holders>>

(* Whoever refers to a coroutine lets go of it by dispatching it, like     *)
(* TriggerEvent, which moves the pointer out of s_coroutine.               *)
Resume(t) ==
  /\ t \in holders
  /\ \/ "eager" \in Client
     \/ m_context[t] # "live" /\ ~InHand(t) /\ ~Queued(t)
  /\ holders' = holders \ {t}
  /\ Push(t, "coroutine", AnyThread)
  /\ UNCHANGED <<pc, temp, cur_fiber, idle_state, m_state, m_context, pin>>

-----------------------------------------------------------------------------
(* run(): enter the thread's main coroutine and construct the idle one,    *)
(* whose constructor declares itself the running coroutine.                *)
Begin(w) ==
  /\ pc[w] = "start"
  /\ Goto(w, "scan")
  /\ cur_fiber' = [cur_fiber EXCEPT ![w] = "idle"]
  /\ UNCHANGED <<m_coroutines, temp, idle_state, m_state, m_context, holders,
                 pin>>

(* A task bound to another thread is passed over, and so is a coroutine    *)
(* that is already executing.                                              *)
Eligible(e, w) ==
  /\ e.thread_id \in {AnyThread, w}
  /\ e.kind = "coroutine" => m_state[e.task] # "running"

EligibleAt(w) ==
  {i \in 1..Len(m_coroutines) : Eligible(m_coroutines[i], w)}

(* Faulty: the task is copied and stays in the queue.                       *)
TakeAndKeep(w) ==
  /\ pc[w] = "scan"
  /\ \E i \in EligibleAt(w) :
       /\ \A j \in EligibleAt(w) : i <= j
       /\ temp' = [temp EXCEPT ![w] = m_coroutines[i]]
  /\ Goto(w, "picked")
  /\ UNCHANGED <<m_coroutines, cur_fiber, idle_state, m_state, m_context,
                 holders, pin>>

Take(w) ==
  /\ pc[w] = "scan"
  /\ \E i \in EligibleAt(w) :
       /\ \A j \in EligibleAt(w) : i <= j
       /\ temp' = [temp EXCEPT ![w] = m_coroutines[i]]
       /\ m_coroutines' = RemoveAt(m_coroutines, i)
  /\ Goto(w, "picked")
  /\ UNCHANGED <<cur_fiber, idle_state, m_state, m_context, holders, pin>>

FindNothing(w) ==
  /\ pc[w] = "scan"
  /\ EligibleAt(w) = {}
  /\ Goto(w, "empty")
  /\ UNCHANGED <<m_coroutines, temp, cur_fiber, idle_state, m_state,
                 m_context, holders, pin>>

-----------------------------------------------------------------------------
(* Faulty: a terminated coroutine is entered as well.                       *)
EnterableAlways(c) == TRUE

(* What run() asks of a coroutine before it enters it.                     *)
Enterable(c) == m_state[c] # "terminate"

(* swap_enter(): declare the coroutine running and jump to its context.  A *)
(* context that is not there to be resumed takes the thread with it.       *)
RunCoroutine(w) ==
  /\ pc[w] = "picked"
  /\ temp[w].kind = "coroutine"
  /\ LET c == temp[w].task IN
     /\ Enterable(c)
     /\ cur_fiber' = [cur_fiber EXCEPT ![w] = c]
     /\ \/ /\ m_context[c] \in {"fresh", "saved"}
           /\ m_state' = [m_state EXCEPT ![c] = "running"]
           /\ m_context' = [m_context EXCEPT ![c] = "live"]
           /\ Goto(w, "body")
        \/ /\ m_context[c] = "blank"
           /\ m_state' = [m_state EXCEPT ![c] = "terminate"]
           /\ m_context' = [m_context EXCEPT ![c] = "live"]
           /\ Goto(w, "returning")
        \/ /\ m_context[c] \in {"live", "done", "foreign", "freed", "lost"}
           /\ m_state' = [m_state EXCEPT ![c] = "running"]
           /\ UNCHANGED m_context
           /\ Goto(w, "undefined")
  /\ UNCHANGED <<m_coroutines, temp, idle_state, holders, pin>>

(* A callback gets a coroutine of its own and is entered at once.          *)
RunFunction(w) ==
  /\ pc[w] = "picked"
  /\ temp[w].kind = "function"
  /\ LET c == temp[w].task IN
     /\ cur_fiber' = [cur_fiber EXCEPT ![w] = c]
     /\ m_state' = [m_state EXCEPT ![c] = "running"]
     /\ m_context' = [m_context EXCEPT ![c] = "live"]
  /\ Goto(w, "body")
  /\ UNCHANGED <<m_coroutines, temp, idle_state, holders, pin>>

-----------------------------------------------------------------------------
(* The last reference to a coroutine goes when run() lets go of it and     *)
(* neither the queue, another thread nor a holder refers to it.            *)
LetGo(c, ctx, stillReferred) ==
  IF stillReferred THEN ctx
  ELSE [ctx EXCEPT ![c] = IF @ \in {"done", "blank"} THEN "freed" ELSE "lost"]

(* Faulty: an event context does not keep its coroutine alive.              *)
ReferredByOthers(c, w) ==
  \/ Queued(c)
  \/ \E v \in Workers \ {w} : Holding(v, c)

ReferredElsewhere(c, w) ==
  \/ Queued(c)
  \/ c \in holders
  \/ \E v \in Workers \ {w} : Holding(v, c)

(* A coroutine already terminated is not entered: the branch falls through *)
(* to the idle one.                                                        *)
SkipTerminated(w) ==
  /\ pc[w] = "picked"
  /\ temp[w].kind = "coroutine"
  /\ ~Enterable(temp[w].task)
  /\ m_context' = LetGo(temp[w].task, m_context,
                        ReferredElsewhere(temp[w].task, w))
  /\ temp' = [temp EXCEPT ![w] = NoTask]
  /\ Goto(w, "empty")
  /\ UNCHANGED <<m_coroutines, cur_fiber, idle_state, m_state, holders, pin>>

(* Faulty: whatever has not terminated is dispatched again.                 *)
GoesBackUnlessTerminated(c) == m_state[c] # "terminate"

(* What run() asks of a coroutine that has come back, to dispatch it again. *)
GoesBack(c) == m_state[c] = "ready"

(* Behind swap_enter, in the branch for coroutines: ready is dispatched    *)
(* again, for any thread; terminate and error are left alone; anything     *)
(* else becomes pause.                                                     *)
SettleCoroutine(w) ==
  /\ pc[w] = "settle"
  /\ temp[w].kind = "coroutine"
  /\ LET c == temp[w].task IN
     \/ /\ GoesBack(c)
        /\ Push(c, "coroutine", AnyThread)
        /\ UNCHANGED <<m_state, m_context>>
     \/ /\ ~GoesBack(c)
        /\ m_state' = [m_state EXCEPT ![c] =
                         IF @ \in {"terminate", "error"} THEN @ ELSE "pause"]
        /\ m_context' = LetGo(c, m_context, ReferredElsewhere(c, w))
        /\ UNCHANGED m_coroutines
  /\ temp' = [temp EXCEPT ![w] = NoTask]
  /\ Goto(w, "scan")
  /\ UNCHANGED <<cur_fiber, idle_state, holders, pin>>

(* The same in the branch for callbacks, which compares the state with     *)
(* (error | terminate), that is with 5: only error matches, and gets an    *)
(* empty function and a new context.  terminate becomes pause.             *)
SettleFunction(w) ==
  /\ pc[w] = "settle"
  /\ temp[w].kind = "function"
  /\ LET c == temp[w].task IN
     \/ /\ m_state[c] = "error"
        /\ m_context' = LetGo(c, [m_context EXCEPT ![c] = "blank"],
                              ReferredElsewhere(c, w))
        /\ UNCHANGED <<m_coroutines, m_state>>
     \/ /\ m_state[c] # "error" /\ GoesBack(c)
        /\ Push(c, "coroutine", AnyThread)
        /\ UNCHANGED <<m_state, m_context>>
     \/ /\ m_state[c] # "error" /\ ~GoesBack(c)
        /\ m_state' = [m_state EXCEPT ![c] = "pause"]
        /\ m_context' = LetGo(c, m_context, ReferredElsewhere(c, w))
        /\ UNCHANGED m_coroutines
  /\ temp' = [temp EXCEPT ![w] = NoTask]
  /\ Goto(w, "scan")
  /\ UNCHANGED <<cur_fiber, idle_state, holders, pin>>

-----------------------------------------------------------------------------
(* Nothing to run: leave run() once the idle coroutine has terminated,     *)
(* otherwise switch into it.                                               *)
Exit(w) ==
  /\ pc[w] = "empty"
  /\ idle_state[w] = "terminate"
  /\ Goto(w, "exited")
  /\ UNCHANGED <<m_coroutines, temp, cur_fiber, idle_state, m_state,
                 m_context, holders, pin>>

EnterIdle(w) ==
  /\ pc[w] = "empty"
  /\ idle_state[w] # "terminate"
  /\ idle_state' = [idle_state EXCEPT ![w] = "running"]
  /\ cur_fiber' = [cur_fiber EXCEPT ![w] = "idle"]
  /\ Goto(w, "idle")
  /\ UNCHANGED <<m_coroutines, temp, m_state, m_context, holders, pin>>

(* A pass of idle() ends; run() turns every state but terminate to pause.  *)
LeaveIdle(w) ==
  /\ pc[w] = "idle"
  /\ \E s \in IdleEnds :
       idle_state' = [idle_state EXCEPT ![w] =
                        IF s = "terminate" THEN s ELSE "pause"]
  /\ cur_fiber' = [cur_fiber EXCEPT ![w] = "main"]
  /\ Goto(w, "scan")
  /\ UNCHANGED <<m_coroutines, temp, m_state, m_context, holders, pin>>

-----------------------------------------------------------------------------
(* cur_fiber is a plain pointer: it does not keep the coroutine alive.     *)
Destroyed(c) == m_context[c] \in {"freed", "lost"}

UseAfterFree(w) ==
  /\ pc[w] = "body"
  /\ Destroyed(cur_fiber[w])
  /\ Goto(w, "undefined")
  /\ UNCHANGED <<m_coroutines, temp, cur_fiber, idle_state, m_state,
                 m_context, holders, pin>>

(* The body hands out a reference to its own coroutine: RegisterEvent      *)
(* without a callback stores get_this_coroutine() in an event context.     *)
Publish(w) ==
  /\ pc[w] = "body"
  /\ ~Destroyed(cur_fiber[w])
  /\ holders' = holders \cup {cur_fiber[w]}
  /\ UNCHANGED <<m_coroutines, pc, temp, cur_fiber, idle_state, m_state,
                 m_context, pin>>

(* The constructor of a coroutine declares the new object the running one. *)
ConstructAndDispatch(w, t, tid) ==
  /\ "construct" \in Client
  /\ pc[w] = "body"
  /\ pin[t] = NoTask
  /\ cur_fiber' = [cur_fiber EXCEPT ![w] = t]
  /\ Push(t, "coroutine", tid)
  /\ pin' = [pin EXCEPT ![t] = tid]
  /\ m_context' = [m_context EXCEPT ![t] = "fresh"]
  /\ UNCHANGED <<pc, temp, idle_state, m_state, holders>>

(* yieldtoready and yieldtopause set the state of the coroutine believed   *)
(* to be running first and switch out afterwards.                          *)
Yield(w, s) ==
  /\ pc[w] = "body"
  /\ ~Destroyed(cur_fiber[w])
  /\ s = "pause" => \/ cur_fiber[w] \in holders
                    \/ "anonymous" \in Client
  /\ s = "ready" => cur_fiber[w] \notin holders \/ "eager" \in Client
  /\ m_state' = [m_state EXCEPT ![cur_fiber[w]] = s]
  /\ Goto(w, "yielding")
  /\ UNCHANGED <<m_coroutines, temp, cur_fiber, idle_state, m_context,
                 holders, pin>>

(* The body returns, or an std::exception leaves it: schedule_function and *)
(* MainThread_function set the state of the coroutine they were entered    *)
(* with, and switch out.                                                   *)
Finish(w, s) ==
  /\ pc[w] = "body"
  /\ temp[w].task \notin holders \/ "leak" \in Client
  /\ m_state' = [m_state EXCEPT ![temp[w].task] = s]
  /\ Goto(w, "returning")
  /\ UNCHANGED <<m_coroutines, temp, cur_fiber, idle_state, m_context,
                 holders, pin>>

(* swap_out() / back(): store the execution in the object it is called on. *)
SwapOut(w) ==
  /\ \/ /\ pc[w] = "yielding"
        /\ m_context' = [m_context EXCEPT ![cur_fiber[w]] =
                           IF cur_fiber[w] = temp[w].task
                           THEN "saved" ELSE "foreign"]
     \/ /\ pc[w] = "returning"
        /\ m_context' = [m_context EXCEPT ![temp[w].task] = "done"]
  /\ cur_fiber' = [cur_fiber EXCEPT ![w] = "main"]
  /\ Goto(w, "settle")
  /\ UNCHANGED <<m_coroutines, temp, idle_state, m_state, holders, pin>>

-----------------------------------------------------------------------------
RunLoop(w) ==
  \/ Begin(w) \/ Take(w) \/ FindNothing(w)
  \/ RunCoroutine(w) \/ RunFunction(w) \/ SkipTerminated(w)
  \/ SettleCoroutine(w) \/ SettleFunction(w)
  \/ Exit(w) \/ EnterIdle(w) \/ LeaveIdle(w)

Body(w) ==
  \/ Publish(w)
  \/ UseAfterFree(w)
  \/ \E t \in Tasks, tid \in Pins : ConstructAndDispatch(w, t, tid)
  \/ \E s \in {"ready", "pause"} : Yield(w, s)
  \/ \E s \in {"terminate", "error"} : Finish(w, s)
  \/ SwapOut(w)

Clients ==
  \E t \in Tasks :
     \/ \E kind \in Kinds, tid \in Pins : Dispatch(t, kind, tid)
     \/ Resume(t)

Next == Clients \/ \E w \in Workers : RunLoop(w) \/ Body(w)

Spec == Init /\ [][Next]_vars

(* The operating system runs every thread, and no body runs forever: the   *)
(* scheduler is cooperative and promises nothing against one that does.    *)
(* For the same reason every pass of idle() is assumed to end (LeaveIdle   *)
(* of RunLoop).  schedule::idle ends at once; that of io_schedule may stay *)
(* in the read of its pipe (io.cpp:207), which is a matter of IoSchedule.  *)
FairSpec == Spec /\ \A w \in Workers : WF_vars(RunLoop(w)) /\ WF_vars(Body(w))

-----------------------------------------------------------------------------
(* Properties.                                                             *)

Executing(w, t) == pc[w] \in OnStack /\ Holding(w, t)

(* A coroutine executes on at most one thread at a time.  run() relies on  *)
(* it: the stack and the saved context of a coroutine exist once, and the  *)
(* only check is the one of m_state in the scan (schedule.cpp:92-95).      *)
ExclusiveRun ==
  \A t \in Tasks, v, w \in Workers :
     Executing(v, t) /\ Executing(w, t) => v = w

(* A task is in one place: at most once in the queue, in the hands of at   *)
(* most one thread, and never both.                                        *)
QueueDistinct ==
  \A i, j \in 1..Len(m_coroutines) :
     m_coroutines[i].task = m_coroutines[j].task => i = j

HandsDistinct ==
  \A t \in Tasks, v, w \in Workers :
     Holding(v, t) /\ Holding(w, t) => v = w

QueueOrHand == \A t \in Tasks : InHand(t) => ~Queued(t)

OnePlace == QueueDistinct /\ HandsDistinct /\ QueueOrHand

(* Nobody jumps into a coroutine whose entry function has already switched *)
(* out for the last time, which would return from the entry function and   *)
(* end the thread, uc_link being NULL (coroutine.cpp:35).                  *)
NoDeadResume ==
  \A t \in Tasks, w \in Workers :
     pc[w] = "undefined" /\ Holding(w, t) => m_context[t] # "done"

(* A task whose body has not ended is never destroyed: each coroutine that *)
(* run() lets go of is still referred to by somebody who can resume it.    *)
NoLostTask == \A t \in Tasks : m_context[t] # "lost"

(* A thread is in a task, or has just come back out of it.                 *)
Runs(w, t) ==
  Holding(w, t) /\ pc[w] \in OnStack \cup {"settle"}

(* The thread that constructed a coroutine takes itself for it.            *)
MistakenFor(t) == \E w \in Workers : cur_fiber[w] = t /\ ~Holding(w, t)

(* Once run() is through with a coroutine that has terminated, nobody      *)
(* enters it again, though it be dispatched again from an event context    *)
(* (schedule.cpp:106): its state can only be changed by a thread that      *)
(* yields in its name by mistake.                                          *)
TerminatedIsFinal ==
  [][\A t \in Tasks :
       m_state[t] = "terminate"
       /\ ~MistakenFor(t) /\ ~(\E w \in Workers : Runs(w, t))
         => m_state'[t] = "terminate"]_vars

(* The threads that may take the entry of t have all returned from run(),  *)
(* as each does when idle() has terminated and it finds nothing to do: the *)
(* idle of io_schedule terminates whenever there is no timer, since        *)
(* m_running is never set (io.cpp:249).                                    *)
NobodyLeft(t) ==
  \A i \in 1..Len(m_coroutines), w \in Workers :
     m_coroutines[i].task = t /\ m_coroutines[i].thread_id \in {AnyThread, w}
       => pc[w] = "exited"

(* Every task in the queue gets its turn, also when others yield forever,  *)
(* and though the idle of any thread terminates while the task waits, as   *)
(* long as a thread that may take it is still in run() (schedule.cpp:84,   *)
(* 161).  A thread leaves after a scan that has found nothing, and a task  *)
(* dispatched after the last scan of the last of them stays in the queue.  *)
(* The passes of idle() have to end, see FairSpec.                         *)
EveryTurnComes ==
  \A t \in Tasks :
     Queued(t) ~>
       \/ \E w \in Workers : Executing(w, t)
       \/ Queued(t) /\ NobodyLeft(t)

-----------------------------------------------------------------------------
(* What makes the properties inductive.                                    *)

(* A thread past the scan has a task in its hands, and inside a body the   *)
(* coroutine believed to be running is that of a task.                     *)
HandsFull ==
  \A w \in Workers :
     /\ pc[w] \in OnStack \cup {"picked", "settle"} => temp[w] \in Entry
     /\ pc[w] \in {"body", "yielding"} => cur_fiber[w] \in Tasks

(* Nothing refers to a task before it is dispatched.                       *)
NewIsNowhere ==
  \A t \in Tasks : pin[t] = NoTask =>
     /\ ~Queued(t) /\ ~InHand(t) /\ t \notin holders
     /\ \A w \in Workers : cur_fiber[w] # t

(* Where tasks are: the part of the state ExclusiveRun rests on.           *)
Placement == OnePlace /\ HandsFull /\ NewIsNowhere

-----------------------------------------------------------------------------
(* What the clients of dispatch() may count on (TaskPool.tla): the pool    *)
(* runs a task while a thread is in it or has just come back out of it.    *)

StatusOf(t) ==
  IF pin[t] = NoTask THEN "new"
  ELSE IF \E w \in Workers : Runs(w, t) THEN "running"
  ELSE IF Queued(t) \/ InHand(t) THEN "queued"
  ELSE IF m_context[t] = "freed" THEN "finished"
  ELSE "suspended"

RunnerOf(t) ==
  IF \E w \in Workers : Runs(w, t) THEN CHOOSE w \in Workers : Runs(w, t)
  ELSE AnyThread

Pool == INSTANCE TaskPool WITH
          NoWorker <- AnyThread,
          status <- [t \in Tasks |-> StatusOf(t)],
          runner <- [t \in Tasks |-> RunnerOf(t)]

(* run() implements the abstract pool: no task is run twice at once, comes *)
(* back after it has finished, or is queued without being submitted or     *)
(* resumed.                                                                *)
ImplementsPool == Pool!PoolSpec

=============================================================================
