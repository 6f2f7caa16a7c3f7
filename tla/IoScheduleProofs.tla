--------------------------- MODULE IoScheduleProofs ---------------------------
(***************************************************************************)
(* Proofs about IoSchedule, for any finite pool and any tasks and timers.  *)
(***************************************************************************)
EXTENDS IoSchedule, SequenceTheorems, FiniteSetTheorems, WellFoundedInduction, TLAPS

(* begin() of what a scan may take.                                        *)
LEMMA MinIsIn ==
  ASSUME NEW S \in SUBSET Nat, S # {}
  PROVE  Min(S) \in S
<1> DEFINE R == OpToRel(<, Nat)
<1>1. IsWellFoundedOn(R, Nat)
  BY NatLessThanWellFounded
<1>2. \A x, y \in Nat : <<y, x>> \in R <=> y < x
  BY DEF OpToRel
<1> HIDE DEF R
<1>3. \E x \in S : \A y \in S : ~(<<y, x>> \in R)
  BY <1>1, WFMin
<1>4. \E x \in S : \A y \in S : x <= y
  <2>1. PICK x \in S : \A y \in S : ~(<<y, x>> \in R)
    BY <1>3
  <2>2. ASSUME NEW y \in S PROVE x <= y
    <3>1. x \in Nat /\ y \in Nat
      OBVIOUS
    <3>2. ~(y < x)
      BY <1>2, <2>1, <3>1
    <3>3. QED
      BY <3>1, <3>2
  <2>3. QED
    BY <2>2
<1>5. QED
  BY <1>4 DEF Min

LEMMA RemoveAtType ==
  ASSUME NEW S, NEW s \in Seq(S), NEW i \in 1..Len(s)
  PROVE  RemoveAt(s, i) \in Seq(S)
<1> DEFINE front == SubSeq(s, 1, i - 1)
           back == SubSeq(s, i + 1, Len(s))
<1>1. Len(s) \in Nat /\ i \in Nat
  OBVIOUS
<1>2. front \in Seq(S) /\ back \in Seq(S)
  BY <1>1
<1>3. RemoveAt(s, i) = front \o back
  BY DEF RemoveAt
<1> HIDE DEF front, back
<1>4. QED
  BY <1>2, <1>3

LEMMA LargerSeq ==
  ASSUME NEW S, NEW T, S \subseteq T, NEW s \in Seq(S)
  PROVE  s \in Seq(T)
  OBVIOUS

-----------------------------------------------------------------------------
(* Counting threads.                                                       *)

Free == {w \in Workers : pc[w] \in IdlePc}
Active == {w \in Workers : pc[w] = "run"}

(* A thread that comes to a place, or leaves it, changes their number by   *)
(* one.                                                                    *)
LEMMA CountStep ==
  ASSUME NEW S, NEW T, NEW w, IsFiniteSet(S)
  PROVE  /\ w \notin S /\ T = S \cup {w} => Cardinality(T) = Cardinality(S) + 1
         /\ w \in S /\ T = S \ {w} => Cardinality(T) = Cardinality(S) - 1
BY FS_AddElement, FS_RemoveElement

LEMMA CountBound ==
  ASSUME IsFiniteSet(Workers), NEW S \in SUBSET Workers
  PROVE  IsFiniteSet(S) /\ Cardinality(S) \in 0..Cardinality(Workers)
BY FS_Subset, FS_CardinalityType

-----------------------------------------------------------------------------
(* The counters.  What is in the queue or taken from it has been handed    *)
(* in; of the counters themselves nothing need be known here.              *)

Typed ==
  /\ m_coroutines \in Seq(Timers \cup dispatched)
  /\ temp \in [Workers -> Timers \cup dispatched \cup {None}]
  /\ m_mutex \in Workers \cup {Client, None}
  /\ m_autostop \in BOOLEAN
  /\ m_timers \subseteq Timers /\ timers_lock \in Workers \cup {None}
  /\ pipe \in 0..PipeSize /\ edge \in BOOLEAN /\ tag \in Tags
  /\ pc \in [Workers -> WorkerPc]
  /\ idle_terminated \in [Workers -> BOOLEAN]
  /\ events \in [Workers -> BOOLEAN] /\ number \in [Workers -> BOOLEAN]
  /\ functions \in [Workers -> SUBSET Timers]
  /\ call \in [Workers \cup {Client} -> CallPc]
  /\ client \in {"running", "stopping", "stopped"}
  /\ dispatched \subseteq Tasks /\ ran \subseteq dispatched

Counted ==
  /\ m_freethreadnum = Cardinality(Free)
  /\ m_activethreadnum = Cardinality(Active)

(* stop() has at most as many calls of notify() to make as there are threads. *)
Owed == notifies \in 0..Cardinality(Workers)

LEMMA CountersFollow ==
  ASSUME IsFiniteSet(Workers)
  PROVE  Typed /\ Counted /\ Owed => CountersAgree
<1> SUFFICES ASSUME Typed, Counted, Owed PROVE CountersAgree
  OBVIOUS
<1>1. /\ m_freethreadnum \in 0..Cardinality(Workers)
      /\ m_activethreadnum \in 0..Cardinality(Workers)
  <2>1. Free \in SUBSET Workers /\ Active \in SUBSET Workers
    BY DEF Free, Active
  <2>2. QED
    BY <2>1, CountBound DEF Counted
<1>2. m_coroutines \in Seq(Items)
  BY LargerSeq DEF Typed, Items
<1>3. temp \in [Workers -> Items \cup {None}]
  BY DEF Typed, Items
<1>4. TypeOK
  BY <1>1, <1>2, <1>3 DEF Typed, Owed, TypeOK
<1>5. QED
  BY <1>4 DEF Counted, CountersAgree, Free, Active

LEMMA TypedInit == Init => Typed
<1> SUFFICES ASSUME Init PROVE Typed
  OBVIOUS
<1>1. m_coroutines \in Seq(Timers \cup dispatched)
  BY DEF Init
<1>2. /\ m_timers \subseteq Timers /\ pipe \in 0..PipeSize
      /\ functions \in [Workers -> SUBSET Timers]
  BY IoAssumption DEF Init
<1>3. QED
  BY <1>1, <1>2 DEF Init, Typed, WorkerPc, CallPc

LEMMA CountedInit == Init => Counted
<1> SUFFICES ASSUME Init PROVE Counted
  OBVIOUS
<1>1. Free = {} /\ Active = {}
  BY DEF Init, IdlePc, Free, Active
<1>2. QED
  BY <1>1, FS_EmptySet DEF Init, Counted

LEMMA TypedStep == Typed /\ [Next]_vars => Typed'
<1> SUFFICES ASSUME Typed, [Next]_vars PROVE Typed'
  OBVIOUS
<1> USE IoAssumption
<1> USE DEF runVars, timerVars, pipeVars, counters, clientVars
<1>1. ASSUME NEW c \in Workers \cup {Client}, NEW item \in Timers \cup dispatched',
             dispatched \subseteq dispatched', Dispatch(c, item)
      PROVE  /\ m_coroutines' \in Seq(Timers \cup dispatched')
             /\ call' \in [Workers \cup {Client} -> CallPc]
  <2>1. m_coroutines \in Seq(Timers \cup dispatched')
    BY <1>1, LargerSeq DEF Typed
  <2>2. m_coroutines' = Append(m_coroutines, item)
    BY <1>1 DEF Dispatch
  <2>3. m_coroutines' \in Seq(Timers \cup dispatched')
    BY <2>1, <2>2, AppendProperties
  <2>4. QED
    BY <1>1, <2>3 DEF Dispatch, Calls, Typed, CallPc
<1>2. ASSUME NEW c \in Workers \cup {Client}, Notify(c)
      PROVE  Typed'
  <2>1. CASE HasFreeThread(c)
    BY <2>1 DEF HasFreeThread, Calls, Typed, CallPc
  <2>2. CASE Lock(c)
    BY <2>2 DEF Lock, Calls, Typed, CallPc
  <2>3. CASE Write(c)
    BY <2>3 DEF Write, Room, Calls, Typed, CallPc
  <2>4. CASE HookedWrite(c)
    BY <2>4 DEF HookedWrite, Calls, Typed, CallPc
  <2>5. QED
    BY <1>2, <2>1, <2>2, <2>3, <2>4 DEF Notify
<1>3. ASSUME NEW w \in Workers, WorkerStep(w)
      PROVE  Typed'
  <2>1. CASE Scan(w)
    <3>1. /\ m_coroutines' \in Seq(Timers \cup dispatched)
          /\ temp' \in [Workers -> Timers \cup dispatched \cup {None}]
      <4>1. CASE Mine(w) = {}
        BY <2>1, <4>1 DEF Scan, Typed
      <4>2. CASE Mine(w) # {}
        <5>1. Min(Mine(w)) \in 1..Len(m_coroutines)
          BY <4>2, MinIsIn DEF Mine
        <5>2. /\ temp' = [temp EXCEPT ![w] = m_coroutines[Min(Mine(w))]]
              /\ m_coroutines' = RemoveAt(m_coroutines, Min(Mine(w)))
          BY <2>1, <4>2 DEF Scan
        <5>3. m_coroutines[Min(Mine(w))] \in Timers \cup dispatched
          BY <5>1 DEF Typed
        <5>4. QED
          BY <5>1, <5>2, <5>3, RemoveAtType DEF Typed
      <4>3. QED
        BY <4>1, <4>2
    <3>2. /\ pc' \in [Workers -> WorkerPc]
          /\ call' \in [Workers \cup {Client} -> CallPc]
      BY <2>1 DEF Scan, Goto, Calls, Typed, WorkerPc, CallPc
    <3>3. UNCHANGED <<m_mutex, counters, timerVars, pipeVars, idle_terminated,
                      events, number, functions, clientVars, ran>>
      BY <2>1 DEF Scan
    <3>4. QED
      BY <3>1, <3>2, <3>3 DEF Typed
  <2>2. CASE Run(w)
    BY <2>2 DEF Run, Goto, Typed, WorkerPc
  <2>3. CASE Finish(w)
    <3>1. ran' \subseteq dispatched
      BY <2>3 DEF Finish, Typed, Items
    <3>2. /\ temp' \in [Workers -> Timers \cup dispatched \cup {None}]
          /\ pc' \in [Workers -> WorkerPc]
      BY <2>3 DEF Finish, Goto, Typed, WorkerPc
    <3>3. QED
      BY <2>3, <3>1, <3>2 DEF Finish, Typed
  <2>4. CASE Exit(w)
    BY <2>4 DEF Exit, Goto, Typed, WorkerPc
  <2>5. CASE EnterIdle(w)
    BY <2>5 DEF EnterIdle, Goto, Typed, WorkerPc, IdlePc
  <2>6. CASE TopOfLoop(w)
    BY <2>6 DEF TopOfLoop, Goto, Typed, WorkerPc, IdlePc
  <2>7. CASE Poll(w)
    BY <2>7 DEF Poll, Goto, Typed, WorkerPc, IdlePc
  <2>8. CASE Expire(w)
    BY <2>8 DEF Expire, Goto, Typed, WorkerPc, IdlePc
  <2>9. CASE PutBack(w)
    BY <2>9 DEF PutBack, Goto, Typed, WorkerPc, IdlePc
  <2>10. CASE Hand(w)
    <3>1. /\ m_coroutines' \in Seq(Timers \cup dispatched')
          /\ call' \in [Workers \cup {Client} -> CallPc]
          /\ functions' \in [Workers -> SUBSET Timers]
      BY <1>1, <2>10 DEF Hand, Typed
    <3>2. QED
      BY <2>10, <3>1 DEF Hand, Typed
  <2>11. CASE Handle(w)
    BY <2>11 DEF Handle, Goto, Typed, WorkerPc, IdlePc
  <2>12. CASE Drain(w)
    BY <2>12 DEF Drain, Typed
  <2>13. CASE Close(w)
    BY <2>13 DEF Close, Goto, Typed, WorkerPc
  <2>14. QED
    BY <1>2, <1>3, <2>1, <2>2, <2>3, <2>4, <2>5, <2>6, <2>7, <2>8, <2>9,
       <2>10, <2>11, <2>12, <2>13 DEF WorkerStep
<1>4. ASSUME NEW t \in Tasks, ClientDispatch(t)
      PROVE  Typed'
  <2>1. dispatched' = dispatched \cup {t} /\ Dispatch(Client, t)
    BY <1>4 DEF ClientDispatch
  <2>2. /\ m_coroutines' \in Seq(Timers \cup dispatched')
        /\ call' \in [Workers \cup {Client} -> CallPc]
    BY <1>1, <2>1
  <2>3. QED
    BY <1>4, <2>1, <2>2 DEF ClientDispatch, Typed
<1>5. ASSUME NEW t \in Timers, AddTimer(t) \/ DelteTimer(t)
      PROVE  Typed'
  <2>1. CASE AddTimer(t)
    BY <2>1 DEF AddTimer, Typed
  <2>2. CASE DelteTimer(t)
    BY <2>2 DEF DelteTimer, vars, Typed
  <2>3. QED
    BY <1>5, <2>1, <2>2
<1>6. CASE Stop \/ StopNotify \/ Join
  BY <1>6 DEF Stop, StopNotify, Join, Calls, Typed, CallPc
<1>7. CASE UNCHANGED vars
  BY <1>7 DEF vars, Typed
<1>8. QED
  BY <1>2, <1>3, <1>4, <1>5, <1>6, <1>7 DEF Next

(* Each way in and out of idle() and of a task has its count.              *)
LEMMA CountedStep ==
  ASSUME IsFiniteSet(Workers)
  PROVE  Typed /\ Counted /\ [Next]_vars => Counted'
<1> SUFFICES ASSUME Typed, Counted, [Next]_vars PROVE Counted'
  OBVIOUS
<1> USE DEF runVars, timerVars, pipeVars, counters, clientVars
<1>1. pc \in [Workers -> WorkerPc]
  BY DEF Typed
<1>2. ASSUME UNCHANGED <<pc, m_freethreadnum, m_activethreadnum>>
      PROVE  Counted'
  BY <1>2 DEF Counted, Free, Active
<1>3. ASSUME NEW w \in Workers, NEW to, Goto(w, to),
             \/ (to \in IdlePc <=> pc[w] \in IdlePc) /\ UNCHANGED m_freethreadnum
             \/ to \in IdlePc /\ pc[w] \notin IdlePc /\ m_freethreadnum' = m_freethreadnum + 1
             \/ to \notin IdlePc /\ pc[w] \in IdlePc /\ m_freethreadnum' = m_freethreadnum - 1,
             \/ (to = "run" <=> pc[w] = "run") /\ UNCHANGED m_activethreadnum
             \/ to = "run" /\ pc[w] # "run" /\ m_activethreadnum' = m_activethreadnum + 1
             \/ to # "run" /\ pc[w] = "run" /\ m_activethreadnum' = m_activethreadnum - 1
      PROVE  Counted'
  <2>1. pc' = [pc EXCEPT ![w] = to]
    BY <1>3 DEF Goto
  <2>2. IsFiniteSet(Free) /\ IsFiniteSet(Active)
    BY CountBound DEF Free, Active
  <2>3. m_freethreadnum' = Cardinality(Free')
    <3>1. /\ (to \in IdlePc <=> pc[w] \in IdlePc) => Free' = Free
          /\ to \in IdlePc /\ pc[w] \notin IdlePc => Free' = Free \cup {w} /\ w \notin Free
          /\ to \notin IdlePc /\ pc[w] \in IdlePc => Free' = Free \ {w} /\ w \in Free
      BY <1>1, <2>1 DEF Free
    <3>2. QED
      BY <1>3, <2>2, <3>1, CountStep DEF Counted
  <2>4. m_activethreadnum' = Cardinality(Active')
    <3>1. /\ (to = "run" <=> pc[w] = "run") => Active' = Active
          /\ to = "run" /\ pc[w] # "run" => Active' = Active \cup {w} /\ w \notin Active
          /\ to # "run" /\ pc[w] = "run" => Active' = Active \ {w} /\ w \in Active
      BY <1>1, <2>1 DEF Active
    <3>2. QED
      BY <1>3, <2>2, <3>1, CountStep DEF Counted
  <2>5. QED
    BY <2>3, <2>4 DEF Counted
<1>4. ASSUME NEW c \in Workers \cup {Client}, Notify(c)
      PROVE  Counted'
  BY <1>2, <1>4 DEF Notify, HasFreeThread, Lock, Write, HookedWrite
<1>5. ASSUME NEW w \in Workers, WorkerStep(w)
      PROVE  Counted'
  <2>1. CASE Scan(w)
    BY <1>3, <2>1 DEF Scan, IdlePc
  <2>2. CASE Run(w)
    BY <1>3, <2>2 DEF Run, IdlePc
  <2>3. CASE Finish(w)
    BY <1>3, <2>3 DEF Finish, IdlePc
  <2>4. CASE Exit(w)
    BY <1>3, <2>4 DEF Exit, IdlePc
  <2>5. CASE EnterIdle(w)
    BY <1>3, <2>5 DEF EnterIdle, IdlePc
  <2>6. CASE TopOfLoop(w)
    BY <1>3, <2>6 DEF TopOfLoop, IdlePc
  <2>7. CASE Poll(w)
    BY <1>3, <2>7 DEF Poll, IdlePc
  <2>8. CASE Expire(w)
    BY <1>3, <2>8 DEF Expire, IdlePc
  <2>9. CASE PutBack(w)
    BY <1>3, <2>9 DEF PutBack, IdlePc
  <2>10. CASE Hand(w)
    BY <1>2, <2>10 DEF Hand
  <2>11. CASE Handle(w)
    BY <1>3, <2>11 DEF Handle, IdlePc
  <2>12. CASE Drain(w)
    BY <1>2, <2>12 DEF Drain
  <2>13. CASE Close(w)
    BY <1>3, <2>13 DEF Close, IdlePc
  <2>14. QED
    BY <1>4, <1>5, <2>1, <2>2, <2>3, <2>4, <2>5, <2>6, <2>7, <2>8, <2>9,
       <2>10, <2>11, <2>12, <2>13 DEF WorkerStep
<1>6. ASSUME NEW t \in Tasks, ClientDispatch(t)
      PROVE  Counted'
  BY <1>2, <1>6 DEF ClientDispatch
<1>7. ASSUME NEW t \in Timers, AddTimer(t) \/ DelteTimer(t)
      PROVE  Counted'
  BY <1>2, <1>7 DEF AddTimer, DelteTimer, vars
<1>8. CASE Stop \/ StopNotify \/ Join \/ UNCHANGED vars
  BY <1>2, <1>8 DEF Stop, StopNotify, Join, vars
<1>9. QED
  BY <1>4, <1>5, <1>6, <1>7, <1>8 DEF Next

LEMMA OwedStep ==
  ASSUME IsFiniteSet(Workers)
  PROVE  Owed /\ [Next]_vars => Owed'
<1> SUFFICES ASSUME Owed, [Next]_vars PROVE Owed'
  OBVIOUS
<1> USE DEF runVars, timerVars, pipeVars, counters, clientVars
<1>1. Cardinality(Workers) \in Nat
  BY FS_CardinalityType
<1>2. CASE Stop
  BY <1>1, <1>2 DEF Stop, Owed
<1>3. CASE StopNotify
  BY <1>1, <1>3 DEF StopNotify, Owed
<1>4. ASSUME UNCHANGED notifies
      PROVE  Owed'
  BY <1>4 DEF Owed
<1>5. ASSUME NEW c \in Workers \cup {Client}, Notify(c)
      PROVE  Owed'
  BY <1>4, <1>5 DEF Notify, HasFreeThread, Lock, Write, HookedWrite
<1>6. ASSUME NEW w \in Workers, WorkerStep(w)
      PROVE  Owed'
  BY <1>4, <1>5, <1>6 DEF WorkerStep, Scan, Run, Finish, Exit, EnterIdle, TopOfLoop, Poll,
     Expire, PutBack, Hand, Handle, Drain, Close
<1>7. CASE \/ \E t \in Tasks : ClientDispatch(t)
           \/ \E t \in Timers : AddTimer(t) \/ DelteTimer(t)
           \/ Join \/ UNCHANGED vars
  BY <1>4, <1>7 DEF ClientDispatch, AddTimer, DelteTimer, Join, vars
<1>8. QED
  BY <1>2, <1>3, <1>5, <1>6, <1>7 DEF Next

(* m_freethreadnum and m_activethreadnum never drift from the number of    *)
(* threads that are in idle() and in a task: each way into one of them and *)
(* each way out, of which idle() has two, has its count.                   *)
THEOREM CountersAreRight ==
  ASSUME IsFiniteSet(Workers)
  PROVE  Spec => []CountersAgree
<1>1. Typed /\ Counted /\ [Next]_vars => Counted'
  BY CountedStep
<1>2. Spec => [](Typed /\ Counted)
  BY <1>1, TypedInit, TypedStep, CountedInit, PTL DEF Spec
<1>3. Init => Owed
  BY FS_CardinalityType DEF Init, Owed
<1>4. Owed /\ [Next]_vars => Owed'
  BY OwedStep
<1>5. Spec => []Owed
  BY <1>3, <1>4, PTL DEF Spec
<1>6. Typed /\ Counted /\ Owed => CountersAgree
  BY CountersFollow
<1>7. QED
  BY <1>2, <1>5, <1>6, PTL

-----------------------------------------------------------------------------
(* Who stays.  An idle coroutine terminates at the end of a pass only, so  *)
(* a worker inside a pass has one that has not; and one that finds the set *)
(* of timers empty while there is a cyclic timer owes it to another that   *)
(* has taken the timer out and not yet put it back.                        *)

Staying ==
  /\ \A w \in Workers : pc[w] \in IdlePc => ~idle_terminated[w]
  /\ \A w \in Workers : pc[w] = "exited" => idle_terminated[w]
  /\ HasCyclic(Early) /\ ~m_autostop => \E w \in Workers : ~idle_terminated[w]

LEMMA StayingInit ==
  ASSUME Workers # {}
  PROVE  Init => Staying
BY DEF Init, Staying, IdlePc

(* The early cyclic timers that are there were there before.               *)
LEMMA CyclicWasThere ==
  ASSUME Typed, [Next]_vars, HasCyclic(Early)'
  PROVE  HasCyclic(Early)
<1> USE DEF runVars, timerVars, pipeVars, counters, clientVars
<1>1. PICK t \in Early \cap Cyclic :
        t \in m_timers' \/ \E w \in Workers : pc'[w] = "putback" /\ t \in functions'[w]
  BY DEF HasCyclic
<1>2. ASSUME NEW w \in Workers, Expire(w)
      PROVE  HasCyclic(Early)
  BY <1>1, <1>2 DEF Expire, Goto, HasCyclic, Typed
<1>3. ASSUME NEW w \in Workers, PutBack(w)
      PROVE  HasCyclic(Early)
  BY <1>1, <1>3 DEF PutBack, Goto, HasCyclic, Typed
<1>4. ASSUME NEW w \in Workers, Hand(w)
      PROVE  HasCyclic(Early)
  BY <1>1, <1>4 DEF Hand, HasCyclic, Typed
<1>5. ASSUME NEW u \in Timers, AddTimer(u)
      PROVE  HasCyclic(Early)
  BY <1>1, <1>5 DEF AddTimer, HasCyclic
<1>6. ASSUME UNCHANGED <<m_timers, functions>>,
             \A v \in Workers : pc'[v] = "putback" => pc[v] = "putback"
      PROVE  HasCyclic(Early)
  BY <1>1, <1>6 DEF HasCyclic
<1>7. ASSUME NEW w \in Workers,
             \/ Scan(w) \/ Run(w) \/ Finish(w) \/ Exit(w) \/ EnterIdle(w)
             \/ TopOfLoop(w) \/ Poll(w) \/ Handle(w) \/ Drain(w) \/ Close(w)
      PROVE  HasCyclic(Early)
  <2>1. UNCHANGED <<m_timers, functions>>
    BY <1>7 DEF Scan, Run, Finish, Exit, EnterIdle, TopOfLoop, Poll, Handle, Drain, Close
  <2>2. \A v \in Workers : pc'[v] = "putback" => pc[v] = "putback"
    BY <1>7 DEF Scan, Run, Finish, Exit, EnterIdle, TopOfLoop, Poll, Handle, Drain, Close,
       Goto, Typed
  <2>3. QED
    BY <1>6, <2>1, <2>2
<1>8. ASSUME NEW c \in Workers \cup {Client}, Notify(c)
      PROVE  HasCyclic(Early)
  BY <1>6, <1>8 DEF Notify, HasFreeThread, Lock, Write, HookedWrite
<1>9. CASE (\E u \in Tasks : ClientDispatch(u)) \/ (\E u \in Timers : DelteTimer(u))
           \/ Stop \/ StopNotify \/ Join \/ UNCHANGED vars
  BY <1>6, <1>9 DEF ClientDispatch, DelteTimer, Stop, StopNotify, Join, vars
<1>10. QED
  BY <1>2, <1>3, <1>4, <1>5, <1>7, <1>8, <1>9 DEF Next, WorkerStep

LEMMA StayingStep == Typed /\ Staying /\ [Next]_vars => Staying'
<1> SUFFICES ASSUME Typed, Staying, [Next]_vars PROVE Staying'
  OBVIOUS
<1> USE DEF runVars, timerVars, pipeVars, counters, clientVars
<1>1. HasCyclic(Early)' => HasCyclic(Early)
  BY CyclicWasThere
<1>2. ASSUME UNCHANGED idle_terminated, m_autostop => m_autostop',
             \A v \in Workers : /\ pc'[v] \in IdlePc => ~idle_terminated[v]
                                /\ pc'[v] = "exited" => idle_terminated[v]
      PROVE  Staying'
  BY <1>1, <1>2 DEF Staying
<1>3. ASSUME NEW w \in Workers, TopOfLoop(w)
      PROVE  Staying'
  <2>1. CASE CanStop
    <3>1. /\ idle_terminated' = [idle_terminated EXCEPT ![w] = TRUE]
          /\ pc' = [pc EXCEPT ![w] = "scan"]
          /\ m_autostop /\ m_autostop' = m_autostop
      BY <1>3, <2>1 DEF TopOfLoop, CanStop, Goto
    <3>2. QED
      BY <3>1 DEF Staying, Typed, IdlePc
  <2>2. CASE ~CanStop
    BY <1>2, <1>3, <2>2 DEF TopOfLoop, Goto, Staying, Typed, IdlePc
  <2>3. QED
    BY <2>1, <2>2
<1>4. ASSUME NEW w \in Workers, Close(w)
      PROVE  Staying'
  <2>1. /\ idle_terminated' = [idle_terminated EXCEPT ![w] = (m_timers = {})]
        /\ pc[w] = "close" /\ pc' = [pc EXCEPT ![w] = "scan"]
        /\ m_autostop' = m_autostop
    BY <1>4 DEF Close, Goto
  <2>2. /\ \A v \in Workers : pc'[v] \in IdlePc => ~idle_terminated'[v]
        /\ \A v \in Workers : pc'[v] = "exited" => idle_terminated'[v]
    BY <2>1 DEF Staying, Typed, IdlePc
  <2>3. ASSUME HasCyclic(Early), ~m_autostop
        PROVE  \E v \in Workers : ~idle_terminated'[v]
    <3>1. CASE m_timers # {}
      BY <2>1, <3>1 DEF Typed
    <3>2. CASE m_timers = {}
      <4>1. PICK v \in Workers : pc[v] = "putback"
        BY <2>3, <3>2 DEF HasCyclic
      <4>2. ~idle_terminated[v] /\ v # w
        BY <2>1, <4>1 DEF Staying, IdlePc
      <4>3. QED
        BY <2>1, <4>2 DEF Typed
    <3>3. QED
      BY <3>1, <3>2
  <2>4. QED
    BY <1>1, <2>1, <2>2, <2>3 DEF Staying
<1>5. ASSUME NEW w \in Workers,
             \/ Scan(w) \/ Run(w) \/ Finish(w) \/ Exit(w) \/ EnterIdle(w)
             \/ Poll(w) \/ Expire(w) \/ PutBack(w) \/ Handle(w)
      PROVE  Staying'
  <2>1. UNCHANGED <<idle_terminated, m_autostop>>
    BY <1>5 DEF Scan, Run, Finish, Exit, EnterIdle, Poll, Expire, PutBack, Handle
  <2>2. PICK to \in WorkerPc :
          /\ pc' = [pc EXCEPT ![w] = to]
          /\ to \in IdlePc => ~idle_terminated[w]
          /\ to = "exited" => idle_terminated[w]
    BY <1>5 DEF Scan, Run, Finish, Exit, EnterIdle, Poll, Expire, PutBack, Handle, Goto,
       Staying, WorkerPc, IdlePc
  <2>3. \A v \in Workers : /\ pc'[v] \in IdlePc => ~idle_terminated[v]
                           /\ pc'[v] = "exited" => idle_terminated[v]
    BY <2>2 DEF Staying, Typed
  <2>4. QED
    BY <1>2, <2>1, <2>3
<1>6. ASSUME NEW w \in Workers, Hand(w) \/ Drain(w)
      PROVE  Staying'
  BY <1>2, <1>6 DEF Hand, Drain, Staying
<1>7. ASSUME NEW c \in Workers \cup {Client}, Notify(c)
      PROVE  Staying'
  BY <1>2, <1>7 DEF Notify, HasFreeThread, Lock, Write, HookedWrite, Staying
<1>8. CASE \/ \E t \in Tasks : ClientDispatch(t)
           \/ \E t \in Timers : AddTimer(t) \/ DelteTimer(t)
           \/ Stop \/ StopNotify \/ Join \/ UNCHANGED vars
  <2>1. UNCHANGED <<idle_terminated, pc>>
    BY <1>8 DEF ClientDispatch, AddTimer, DelteTimer, Stop, StopNotify, Join, vars
  <2>2. m_autostop' = m_autostop \/ m_autostop' = TRUE
    BY <1>8 DEF ClientDispatch, AddTimer, DelteTimer, Stop, StopNotify, Join, vars
  <2>3. QED
    BY <1>2, <2>1, <2>2 DEF Staying
<1>9. QED
  BY <1>3, <1>4, <1>5, <1>6, <1>7, <1>8 DEF Next, WorkerStep

(* With a cyclic timer added before start(), and before stop(), the pool   *)
(* never dies out, however the workers' looks at the size of the set fall  *)
(* between the two halves of GetExpiredList.                               *)
THEOREM PoolStays ==
  ASSUME Workers # {}
  PROVE  Spec => []SomebodyStays
<1>1. Init => Staying
  BY StayingInit
<1>2. Spec => [](Typed /\ Staying)
  BY <1>1, TypedInit, TypedStep, StayingStep, PTL DEF Spec
<1>3. Typed /\ Staying => SomebodyStays
  BY DEF Staying, SomebodyStays
<1>4. QED
  BY <1>2, <1>3, PTL

=============================================================================
