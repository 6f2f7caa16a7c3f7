--------------------------- MODULE ScheduleProofs ---------------------------
(***************************************************************************)
(* Proofs about Schedule, for any number of threads and tasks, and about   *)
(* ThreadPool, which gives it its threads.                                 *)
(***************************************************************************)
EXTENDS Schedule, ThreadPool, SequenceTheorems, TLAPS

(* list::erase(i): one element less, the order of the others kept.         *)
LEMMA RemoveAtFacts ==
  ASSUME NEW S, NEW s \in Seq(S), NEW i \in 1..Len(s)
  PROVE  /\ RemoveAt(s, i) \in Seq(S)
         /\ Len(RemoveAt(s, i)) = Len(s) - 1
         /\ \A j \in 1..(Len(s) - 1) :
              RemoveAt(s, i)[j] = s[IF j < i THEN j ELSE j + 1]
<1> DEFINE front == SubSeq(s, 1, i - 1)
           back == SubSeq(s, i + 1, Len(s))
<1>1. Len(s) \in Nat /\ i \in Nat
  OBVIOUS
<1>2. /\ front \in Seq(S) /\ Len(front) = i - 1
      /\ \A j \in 1..(i - 1) : front[j] = s[j]
  BY <1>1
<1>3. /\ back \in Seq(S) /\ Len(back) = Len(s) - i
      /\ \A j \in 1..(Len(s) - i) : back[j] = s[j + i]
  BY <1>1
<1>4. RemoveAt(s, i) = front \o back
  BY DEF RemoveAt
<1> HIDE DEF front, back
<1>5. /\ front \o back \in Seq(S)
      /\ Len(front \o back) = Len(s) - 1
      /\ \A j \in 1..(Len(s) - 1) :
           (front \o back)[j] = IF j <= i - 1 THEN front[j] ELSE back[j - (i - 1)]
  <2>1. Len(front) + Len(back) = Len(s) - 1
    BY <1>1, <1>2, <1>3
  <2>2. /\ front \o back \in Seq(S)
        /\ Len(front \o back) = Len(front) + Len(back)
        /\ \A j \in 1..(Len(front) + Len(back)) :
             (front \o back)[j] = IF j <= Len(front) THEN front[j]
                                 ELSE back[j - Len(front)]
    BY <1>2, <1>3, ConcatProperties, Zenon
  <2>3. QED
    BY <2>1, <2>2, <1>2
<1>6. ASSUME NEW j \in 1..(Len(s) - 1)
      PROVE  (front \o back)[j] = s[IF j < i THEN j ELSE j + 1]
  <2>1. CASE j < i
    BY <1>1, <1>2, <1>5, <2>1
  <2>2. CASE ~(j < i)
    <3>1. j - (i - 1) \in 1..(Len(s) - i) /\ (j - (i - 1)) + i = j + 1
      BY <1>1, <2>2
    <3>2. (front \o back)[j] = back[j - (i - 1)]
      BY <1>1, <1>5, <2>2
    <3>3. QED
      BY <1>3, <2>2, <3>1, <3>2
  <2>3. QED
    BY <2>1, <2>2
<1>7. QED
  BY <1>4, <1>5, <1>6

-----------------------------------------------------------------------------
(* Type correctness.  HandsFull is needed because the body operations      *)
(* index m_state by what temp and cur_fiber hold.                          *)

Typed == TypeOK /\ HandsFull

LEMMA TypedInit == Init => Typed
  BY ScheduleAssumption DEF Init, Typed, TypeOK, HandsFull, Control, Fibers,
     CoroutineStates, Contexts, OnStack

LEMMA PushTyped ==
  ASSUME m_coroutines \in Seq(Entry),
         NEW t \in Tasks, NEW kind \in Kinds,
         NEW tid \in Workers \cup {AnyThread}, Push(t, kind, tid)
  PROVE  m_coroutines' \in Seq(Entry)
  BY DEF Push, Entry

LEMMA LetGoTyped ==
  ASSUME NEW c \in Tasks, NEW ctx \in [Tasks -> Contexts], NEW b
  PROVE  LetGo(c, ctx, b) \in [Tasks -> Contexts]
  BY DEF LetGo, Contexts

LEMMA TypedStep == Typed /\ [Next]_vars => Typed'
<1> SUFFICES ASSUME Typed, [Next]_vars PROVE Typed'
  OBVIOUS
<1> USE ScheduleAssumption DEF Typed
<1>1. ASSUME NEW t \in Tasks, NEW kind \in Kinds, NEW tid \in Pins,
             Dispatch(t, kind, tid)
      PROVE  Typed'
  <2>1. m_coroutines' \in Seq(Entry)
    BY <1>1, PushTyped DEF Dispatch, TypeOK
  <2>2. QED
    BY <1>1, <2>1 DEF Dispatch, TypeOK, HandsFull, Contexts
<1>2. ASSUME NEW t \in Tasks, Resume(t)
      PROVE  Typed'
  <2>1. m_coroutines' \in Seq(Entry)
    BY <1>2, PushTyped DEF Resume, TypeOK, Kinds
  <2>2. QED
    BY <1>2, <2>1 DEF Resume, TypeOK, HandsFull
<1>3. ASSUME NEW w \in Workers, RunLoop(w)
      PROVE  Typed'
  <2>1. CASE Begin(w)
    BY <2>1 DEF Begin, Goto, TypeOK, HandsFull, Control, Fibers, OnStack
  <2>2. CASE Take(w)
    <3>1. PICK i \in 1..Len(m_coroutines) :
            /\ temp' = [temp EXCEPT ![w] = m_coroutines[i]]
            /\ m_coroutines' = RemoveAt(m_coroutines, i)
      BY <2>2 DEF Take, EligibleAt
    <3>2. m_coroutines' \in Seq(Entry) /\ m_coroutines[i] \in Entry
      BY <3>1, RemoveAtFacts DEF TypeOK
    <3>3. QED
      BY <2>2, <3>1, <3>2 DEF Take, Goto, TypeOK, HandsFull, Control, OnStack
  <2>3. CASE FindNothing(w)
    BY <2>3 DEF FindNothing, Goto, TypeOK, HandsFull, Control, OnStack
  <2>4. CASE RunCoroutine(w)
    <3>1. temp[w] \in Entry /\ temp[w].task \in Tasks
      BY <2>4 DEF RunCoroutine, HandsFull, Entry
    <3>2. /\ m_state' \in [Tasks -> CoroutineStates]
          /\ m_context' \in [Tasks -> Contexts]
          /\ cur_fiber' = [cur_fiber EXCEPT ![w] = temp[w].task]
          /\ \E label \in {"body", "returning", "undefined"} : Goto(w, label)
      BY <2>4, <3>1 DEF RunCoroutine, TypeOK, CoroutineStates, Contexts
    <3>3. QED
      BY <2>4, <3>1, <3>2
      DEF RunCoroutine, Goto, TypeOK, HandsFull, Control, OnStack, Fibers
  <2>5. CASE RunFunction(w)
    <3>1. temp[w] \in Entry /\ temp[w].task \in Tasks
      BY <2>5 DEF RunFunction, HandsFull, Entry
    <3>2. QED
      BY <2>5, <3>1 DEF RunFunction, Goto, TypeOK, HandsFull, Control, OnStack,
         Fibers, CoroutineStates, Contexts
  <2>6. CASE SkipTerminated(w)
    <3>1. temp[w] \in Entry /\ temp[w].task \in Tasks
      BY <2>6 DEF SkipTerminated, HandsFull, Entry
    <3>2. m_context' \in [Tasks -> Contexts]
      BY <2>6, <3>1, LetGoTyped DEF SkipTerminated, TypeOK
    <3>3. QED
      BY <2>6, <3>2 DEF SkipTerminated, Goto, TypeOK, HandsFull, Control, OnStack
  <2>7. CASE SettleCoroutine(w)
    <3>1. temp[w] \in Entry /\ temp[w].task \in Tasks
      BY <2>7 DEF SettleCoroutine, HandsFull, Entry
    <3>2. /\ m_coroutines' \in Seq(Entry)
          /\ m_state' \in [Tasks -> CoroutineStates]
          /\ m_context' \in [Tasks -> Contexts]
      BY <2>7, <3>1, LetGoTyped, PushTyped
      DEF SettleCoroutine, TypeOK, CoroutineStates, Kinds
    <3>3. QED
      BY <2>7, <3>2 DEF SettleCoroutine, Goto, TypeOK, HandsFull, Control, OnStack
  <2>8. CASE SettleFunction(w)
    <3>1. temp[w] \in Entry /\ temp[w].task \in Tasks
      BY <2>8 DEF SettleFunction, HandsFull, Entry
    <3>2. [m_context EXCEPT ![temp[w].task] = "blank"] \in [Tasks -> Contexts]
      BY <3>1 DEF TypeOK, Contexts
    <3> DEFINE c == temp[w].task
               blank == [m_context EXCEPT ![c] = "blank"]
               b == ReferredElsewhere(c, w)
    <3>3. /\ LetGo(c, blank, b) \in [Tasks -> Contexts]
          /\ LetGo(c, m_context, b) \in [Tasks -> Contexts]
      BY <3>1, <3>2, LetGoTyped DEF TypeOK
    <3>4. m_coroutines' \in Seq(Entry)
      BY <2>8, <3>1, PushTyped DEF SettleFunction, TypeOK, Kinds
    <3>5. m_context' \in {m_context, LetGo(c, blank, b), LetGo(c, m_context, b)}
      BY <2>8 DEF SettleFunction
    <3>6. m_state' \in [Tasks -> CoroutineStates]
      BY <2>8, <3>1 DEF SettleFunction, TypeOK, CoroutineStates
    <3>7. m_context' \in [Tasks -> Contexts]
      BY <3>3, <3>5 DEF TypeOK
    <3>8. QED
      BY <2>8, <3>4, <3>6, <3>7 DEF SettleFunction, Goto, TypeOK, HandsFull, Control, OnStack
  <2>9. CASE Exit(w)
    BY <2>9 DEF Exit, Goto, TypeOK, HandsFull, Control, OnStack
  <2>10. CASE EnterIdle(w)
    BY <2>10 DEF EnterIdle, Goto, TypeOK, HandsFull, Control, OnStack, Fibers
  <2>11. CASE LeaveIdle(w)
    BY <2>11 DEF LeaveIdle, Goto, TypeOK, HandsFull, Control, OnStack, Fibers
  <2>12. QED
    BY <1>3, <2>1, <2>2, <2>3, <2>4, <2>5, <2>6, <2>7, <2>8, <2>9, <2>10,
       <2>11 DEF RunLoop
<1>4. ASSUME NEW w \in Workers, Body(w)
      PROVE  Typed'
  <2>1. CASE Publish(w)
    BY <2>1 DEF Publish, TypeOK, HandsFull
  <2>2. CASE UseAfterFree(w)
    BY <2>2 DEF UseAfterFree, Goto, TypeOK, HandsFull, Control, OnStack
  <2>3. ASSUME NEW t \in Tasks, NEW tid \in Pins, ConstructAndDispatch(w, t, tid)
        PROVE  Typed'
    <3>1. m_coroutines' \in Seq(Entry)
      BY <2>3, PushTyped DEF ConstructAndDispatch, TypeOK, Kinds
    <3>2. QED
      BY <2>3, <3>1 DEF ConstructAndDispatch, TypeOK, HandsFull, Fibers, Contexts
  <2>4. ASSUME NEW s \in {"ready", "pause"}, Yield(w, s)
        PROVE  Typed'
    BY <2>4 DEF Yield, Goto, TypeOK, HandsFull, Control, OnStack, CoroutineStates
  <2>5. ASSUME NEW s \in {"terminate", "error"}, Finish(w, s)
        PROVE  Typed'
    BY <2>5 DEF Finish, Goto, TypeOK, HandsFull, Control, OnStack, CoroutineStates
  <2>6. CASE SwapOut(w)
    BY <2>6 DEF SwapOut, Goto, TypeOK, HandsFull, Control, OnStack, Contexts,
       Fibers
  <2>7. QED
    BY <1>4, <2>1, <2>2, <2>3, <2>4, <2>5, <2>6 DEF Body
<1>5. CASE UNCHANGED vars
  BY <1>5 DEF vars, TypeOK, HandsFull
<1>6. QED
  BY <1>1, <1>2, <1>3, <1>4, <1>5 DEF Next, Clients

(* Whatever the clients do, every variable keeps its type.                 *)
THEOREM TypeCorrect == Spec => []TypeOK
<1>1. Spec => []Typed
  BY TypedInit, TypedStep, PTL DEF Spec
<1>2. Typed => TypeOK
  BY DEF Typed
<1>3. QED
  BY <1>1, <1>2, PTL

-----------------------------------------------------------------------------
(* Exclusive execution.  A client that resumes a coroutine only after      *)
(* run() is through with it keeps every task in one place, and a task in   *)
(* one place is in the hands of one thread.                                *)

Placed == Typed /\ Placement

(* push_back of a task that is not in the queue.                           *)
LEMMA PushPlaced ==
  ASSUME Placed, NEW t \in Tasks, NEW kind \in Kinds,
         NEW tid \in Workers \cup {AnyThread},
         Push(t, kind, tid), ~Queued(t)
  PROVE  /\ QueueDistinct'
         /\ \A u \in Tasks : Queued(u)' => Queued(u) \/ u = t
<1> DEFINE e == [task |-> t, kind |-> kind, thread_id |-> tid]
<1>1. m_coroutines \in Seq(Entry) /\ e \in Entry /\ e.task = t
  BY DEF Placed, Typed, TypeOK, Entry
<1>2. m_coroutines' = Append(m_coroutines, e)
  BY DEF Push
<1> HIDE DEF e
<1>3. /\ Len(m_coroutines') = Len(m_coroutines) + 1
      /\ \A i \in 1..Len(m_coroutines) : m_coroutines'[i] = m_coroutines[i]
      /\ m_coroutines'[Len(m_coroutines) + 1] = e
  BY <1>1, <1>2, AppendProperties
<1>4. \A i \in 1..Len(m_coroutines) : m_coroutines[i].task # t
  BY DEF Queued
<1>5. Len(m_coroutines) \in Nat
  BY <1>1
<1>6. QueueDistinct'
  BY <1>1, <1>3, <1>4, <1>5 DEF QueueDistinct, Placed, Placement, OnePlace
<1>7. ASSUME NEW u \in Tasks, Queued(u)' PROVE Queued(u) \/ u = t
  BY <1>1, <1>3, <1>5, <1>7 DEF Queued
<1>8. QED
  BY <1>6, <1>7

(* erase of one element: it is gone, and nothing else is new.              *)
LEMMA RemovePlaced ==
  ASSUME Placed, NEW i \in 1..Len(m_coroutines),
         m_coroutines' = RemoveAt(m_coroutines, i)
  PROVE  /\ QueueDistinct'
         /\ \A u \in Tasks : Queued(u)' =>
              Queued(u) /\ u # m_coroutines[i].task
<1>1. m_coroutines \in Seq(Entry)
  BY DEF Placed, Typed, TypeOK
<1>2. Len(m_coroutines) \in Nat
  BY <1>1
<1>3. /\ Len(m_coroutines') = Len(m_coroutines) - 1
      /\ \A j \in 1..(Len(m_coroutines) - 1) :
           m_coroutines'[j] = m_coroutines[IF j < i THEN j ELSE j + 1]
  BY <1>1, RemoveAtFacts
<1>4. QueueDistinct
  BY DEF Placed, Placement, OnePlace
<1>5. QueueDistinct'
  <2> SUFFICES ASSUME NEW j \in 1..(Len(m_coroutines) - 1),
                      NEW k \in 1..(Len(m_coroutines) - 1),
                      m_coroutines'[j].task = m_coroutines'[k].task
               PROVE  j = k
    BY <1>3 DEF QueueDistinct
  <2> DEFINE jj == IF j < i THEN j ELSE j + 1
             kk == IF k < i THEN k ELSE k + 1
  <2>1. jj \in 1..Len(m_coroutines) /\ kk \in 1..Len(m_coroutines)
    BY <1>2
  <2>2. m_coroutines[jj].task = m_coroutines[kk].task
    BY <1>3
  <2>3. jj = kk
    BY <1>4, <2>1, <2>2 DEF QueueDistinct
  <2>4. QED
    BY <1>2, <2>3
<1>6. ASSUME NEW u \in Tasks, Queued(u)'
      PROVE  Queued(u) /\ u # m_coroutines[i].task
  <2>1. PICK j \in 1..(Len(m_coroutines) - 1) : m_coroutines'[j].task = u
    BY <1>3, <1>6 DEF Queued
  <2> DEFINE jj == IF j < i THEN j ELSE j + 1
  <2>2. jj \in 1..Len(m_coroutines) /\ jj # i
    BY <1>2
  <2>3. m_coroutines[jj].task = u
    BY <1>3, <2>1
  <2> HIDE DEF jj
  <2>4. QED
    BY <1>4, <2>2, <2>3 DEF QueueDistinct, Queued
<1>7. QED
  BY <1>5, <1>6

(* A task in hand or in the queue has been dispatched.                     *)
LEMMA PlacedIsDispatched ==
  ASSUME Placed, NEW t \in Tasks, Queued(t) \/ InHand(t)
  PROVE  pin[t] # NoTask
  BY DEF Placed, Placement, NewIsNowhere

LEMMA PlacedInit == Init => Placed
<1> SUFFICES ASSUME Init PROVE Placed
  OBVIOUS
<1>1. Len(m_coroutines) = 0 /\ \A t \in Tasks : ~Queued(t)
  BY DEF Init, Queued
<1>2. \A w \in Workers, t \in Tasks : ~Holding(w, t) /\ cur_fiber[w] # t
  BY ScheduleAssumption DEF Init, Holding
<1>3. OnePlace
  BY <1>1, <1>2 DEF OnePlace, QueueDistinct, HandsDistinct, QueueOrHand
<1>4. NewIsNowhere
  BY <1>1, <1>2 DEF Init, NewIsNowhere, InHand
<1>5. QED
  BY <1>3, <1>4, TypedInit DEF Placed, Placement, Typed

(* An action that leaves the queue, the hands, the holders and the history *)
(* alone and moves cur_fiber only to a dispatched task.                    *)
LEMMA UntouchedPlaced ==
  ASSUME Placed, Typed', UNCHANGED <<m_coroutines, temp, holders, pin>>,
         \A w \in Workers, t \in Tasks :
           cur_fiber'[w] = t => cur_fiber[w] = t \/ pin[t] # NoTask
  PROVE  Placed'
<1>1. OnePlace'
  BY DEF Placed, Placement, OnePlace, QueueDistinct, HandsDistinct,
     QueueOrHand, InHand, Holding, Queued
<1>2. NewIsNowhere'
  BY DEF Placed, Placement, NewIsNowhere, InHand, Holding, Queued
<1>3. QED
  BY <1>1, <1>2 DEF Placed, Placement, Typed

(* A thread lets go of its task and at most puts that task back.           *)
LEMMA SettledPlaced ==
  ASSUME Placed, Typed', NEW w \in Workers, temp[w] \in Entry,
         temp' = [temp EXCEPT ![w] = NoTask],
         \/ UNCHANGED m_coroutines
         \/ Push(temp[w].task, "coroutine", AnyThread),
         UNCHANGED <<cur_fiber, holders, pin>>
  PROVE  Placed'
<1> USE ScheduleAssumption
<1>0. PICK c \in Tasks : c = temp[w].task
  BY DEF Entry
<1>1. Holding(w, c)
  BY <1>0 DEF Entry, Holding
<1>2. InHand(c) /\ ~Queued(c) /\ pin[c] # NoTask
  BY <1>1, PlacedIsDispatched
  DEF InHand, Placed, Placement, OnePlace, QueueOrHand
<1>3. /\ QueueDistinct'
      /\ \A u \in Tasks : Queued(u)' => Queued(u) \/ u = c
  <2>1. CASE UNCHANGED m_coroutines
    BY <2>1 DEF QueueDistinct, Queued, Placed, Placement, OnePlace
  <2>2. CASE Push(c, "coroutine", AnyThread)
    BY <1>1, <1>2, <2>2, PushPlaced DEF Kinds
  <2>3. QED
    BY <1>0, <2>1, <2>2
<1>4. \A v \in Workers, u \in Tasks :
        Holding(v, u)' => Holding(v, u) /\ v # w
  BY DEF Holding, Placed, Typed, TypeOK
<1>5. ~InHand(c)'
  BY <1>1, <1>4 DEF InHand, Placed, Placement, OnePlace, HandsDistinct
<1>6. \A u \in Tasks : InHand(u)' => InHand(u)
  BY <1>4 DEF InHand
<1>7. HandsDistinct'
  BY <1>4 DEF HandsDistinct, Placed, Placement, OnePlace
<1>8. QueueOrHand'
  BY <1>3, <1>5, <1>6 DEF QueueOrHand, Placed, Placement, OnePlace
<1>9. NewIsNowhere'
  BY <1>2, <1>3, <1>6 DEF NewIsNowhere, Placed, Placement
<1>10. QED
  BY <1>3, <1>7, <1>8, <1>9 DEF Placed, Placement, OnePlace, Typed

(* A new task enters the queue, from outside or from a body.               *)
LEMMA DispatchedPlaced ==
  ASSUME Placed, Typed', NEW t \in Tasks, NEW kind \in Kinds, NEW tid \in Pins,
         pin[t] = NoTask, Push(t, kind, tid), pin' = [pin EXCEPT ![t] = tid],
         UNCHANGED <<temp, holders>>,
         \A w \in Workers, u \in Tasks : cur_fiber'[w] = u =>
           cur_fiber[w] = u \/ u = t
  PROVE  Placed'
<1> USE ScheduleAssumption
<1>1. ~Queued(t) /\ ~InHand(t)
  BY DEF Placed, Placement, NewIsNowhere
<1>2. /\ QueueDistinct'
      /\ \A u \in Tasks : Queued(u)' => Queued(u) \/ u = t
  BY <1>1, PushPlaced
<1>3. \A v \in Workers, u \in Tasks : Holding(v, u)' <=> Holding(v, u)
  BY DEF Holding
<1>4. \A u \in Tasks : InHand(u)' <=> InHand(u)
  BY <1>3 DEF InHand
<1>5. HandsDistinct'
  BY <1>3 DEF HandsDistinct, Placed, Placement, OnePlace
<1>6. QueueOrHand'
  BY <1>1, <1>2, <1>4 DEF QueueOrHand, Placed, Placement, OnePlace
<1>7. \A u \in Tasks : pin'[u] = NoTask => pin[u] = NoTask /\ u # t
  BY DEF Placed, Typed, TypeOK
<1>8. NewIsNowhere'
  BY <1>2, <1>4, <1>7 DEF NewIsNowhere, Placed, Placement
<1>9. QED
  BY <1>2, <1>5, <1>6, <1>8 DEF Placed, Placement, OnePlace, Typed

LEMMA TakePlaced ==
  ASSUME Placed, Typed', NEW w \in Workers, Take(w)
  PROVE  Placed'
<1> USE ScheduleAssumption
<1>1. PICK i \in 1..Len(m_coroutines) :
        /\ temp' = [temp EXCEPT ![w] = m_coroutines[i]]
        /\ m_coroutines' = RemoveAt(m_coroutines, i)
  BY DEF Take, EligibleAt
<1> DEFINE c == m_coroutines[i].task
<1>2. m_coroutines[i] \in Entry /\ c \in Tasks /\ m_coroutines[i] # NoTask
  <2>1. m_coroutines \in Seq(Entry)
    BY DEF Placed, Typed, TypeOK
  <2>2. m_coroutines[i] \in Entry
    BY <2>1
  <2>3. QED
    BY <2>2 DEF Entry
<1>3. Queued(c) /\ ~InHand(c)
  BY <1>2 DEF Queued, Placed, Placement, OnePlace, QueueOrHand
<1>4. /\ QueueDistinct'
      /\ \A u \in Tasks : Queued(u)' => Queued(u) /\ u # c
  BY <1>1, RemovePlaced
<1>5. \A v \in Workers, u \in Tasks : Holding(v, u)' =>
        (Holding(v, u) /\ v # w) \/ (v = w /\ u = c)
  BY <1>1 DEF Holding, Placed, Typed, TypeOK
<1> HIDE DEF c
<1>6. HandsDistinct'
  BY <1>3, <1>5 DEF HandsDistinct, InHand, Placed, Placement, OnePlace
<1>7. \A u \in Tasks : InHand(u)' => InHand(u) \/ u = c
  BY <1>5 DEF InHand
<1>8. QueueOrHand'
  BY <1>4, <1>7 DEF QueueOrHand, Placed, Placement, OnePlace
<1>9. UNCHANGED <<cur_fiber, holders, pin>>
  BY DEF Take
<1>10. NewIsNowhere'
  BY <1>2, <1>3, <1>4, <1>7, <1>9 DEF NewIsNowhere, Placed, Placement
<1>11. QED
  BY <1>4, <1>6, <1>8, <1>10 DEF Placed, Placement, OnePlace, Typed

LEMMA PlacedStep ==
  ASSUME "eager" \notin Client
  PROVE  Placed /\ [Next]_vars => Placed'
<1> SUFFICES ASSUME Placed, [Next]_vars PROVE Placed'
  OBVIOUS
<1> USE ScheduleAssumption
<1>1. Typed'
  BY TypedStep DEF Placed
<1>2. ASSUME NEW t \in Tasks, NEW kind \in Kinds, NEW tid \in Pins,
             Dispatch(t, kind, tid)
      PROVE  Placed'
  BY <1>1, <1>2, DispatchedPlaced DEF Dispatch
<1>3. ASSUME NEW t \in Tasks, Resume(t)
      PROVE  Placed'
  <2>1. ~InHand(t) /\ ~Queued(t) /\ pin[t] # NoTask
    BY <1>3 DEF Resume, Placed, Placement, NewIsNowhere
  <2>2. /\ QueueDistinct'
        /\ \A u \in Tasks : Queued(u)' => Queued(u) \/ u = t
    BY <1>3, <2>1, PushPlaced DEF Resume, Kinds
  <2>3. \A v \in Workers, u \in Tasks : Holding(v, u)' <=> Holding(v, u)
    BY <1>3 DEF Resume, Holding
  <2>4. \A u \in Tasks : InHand(u)' <=> InHand(u)
    BY <2>3 DEF InHand
  <2>5. HandsDistinct' /\ QueueOrHand'
    BY <2>1, <2>2, <2>3, <2>4
    DEF HandsDistinct, QueueOrHand, Placed, Placement, OnePlace
  <2>6. NewIsNowhere'
    BY <1>3, <2>1, <2>2, <2>4 DEF Resume, NewIsNowhere, Placed, Placement
  <2>7. QED
    BY <1>1, <2>2, <2>5, <2>6 DEF Placed, Placement, OnePlace, Typed
<1>4. ASSUME NEW w \in Workers, RunLoop(w)
      PROVE  Placed'
  <2>1. CASE Begin(w) \/ FindNothing(w) \/ Exit(w) \/ EnterIdle(w) \/ LeaveIdle(w)
    <3>1. UNCHANGED <<m_coroutines, temp, holders, pin>>
      BY <2>1 DEF Begin, FindNothing, Exit, EnterIdle, LeaveIdle
    <3>2. \A v \in Workers : cur_fiber'[v] \in {cur_fiber[v], "main", "idle"}
      BY <2>1 DEF Begin, FindNothing, Exit, EnterIdle, LeaveIdle, Placed,
         Typed, TypeOK
    <3>3. QED
      BY <1>1, <3>1, <3>2, UntouchedPlaced
  <2>2. CASE Take(w)
    BY <1>1, <2>2, TakePlaced
  <2>3. CASE RunCoroutine(w) \/ RunFunction(w)
    <3>1. /\ temp[w] \in Entry /\ temp[w].task \in Tasks
          /\ Holding(w, temp[w].task)
      BY <2>3 DEF RunCoroutine, RunFunction, Placed, Typed, HandsFull, Entry,
         Holding
    <3>2. pin[temp[w].task] # NoTask
      BY <3>1, PlacedIsDispatched DEF InHand
    <3>3. /\ UNCHANGED <<m_coroutines, temp, holders, pin>>
          /\ cur_fiber' = [cur_fiber EXCEPT ![w] = temp[w].task]
      BY <2>3 DEF RunCoroutine, RunFunction
    <3>4. \A v \in Workers : cur_fiber'[v] \in {cur_fiber[v], temp[w].task}
      BY <3>3 DEF Placed, Typed, TypeOK
    <3>5. QED
      BY <1>1, <3>2, <3>3, <3>4, UntouchedPlaced
  <2>4. CASE SkipTerminated(w) \/ SettleCoroutine(w) \/ SettleFunction(w)
    <3>1. temp[w] \in Entry
      BY <2>4 DEF SkipTerminated, SettleCoroutine, SettleFunction, Placed,
         Typed, HandsFull
    <3>2. /\ temp' = [temp EXCEPT ![w] = NoTask]
          /\ \/ UNCHANGED m_coroutines
             \/ Push(temp[w].task, "coroutine", AnyThread)
          /\ UNCHANGED <<cur_fiber, holders, pin>>
      BY <2>4 DEF SkipTerminated, SettleCoroutine, SettleFunction
    <3>3. QED
      BY <1>1, <3>1, <3>2, SettledPlaced
  <2>5. QED
    BY <1>4, <2>1, <2>2, <2>3, <2>4 DEF RunLoop
<1>5. ASSUME NEW w \in Workers, Body(w)
      PROVE  Placed'
  <2>1. CASE Publish(w)
    <3>1. cur_fiber[w] \in Tasks /\ pin[cur_fiber[w]] # NoTask
      BY <2>1 DEF Publish, Placed, Typed, Placement, HandsFull, NewIsNowhere
    <3>2. UNCHANGED <<m_coroutines, temp, cur_fiber, pin>>
      BY <2>1 DEF Publish
    <3>3. OnePlace'
      BY <3>2 DEF Placed, Placement, OnePlace, QueueDistinct, HandsDistinct,
         QueueOrHand, InHand, Holding, Queued
    <3>4. NewIsNowhere'
      BY <2>1, <3>1, <3>2 DEF Publish, Placed, Placement, NewIsNowhere, InHand,
         Holding, Queued
    <3>5. QED
      BY <1>1, <3>3, <3>4 DEF Placed, Placement, Typed
  <2>2. CASE UseAfterFree(w)
    BY <1>1, <2>2, UntouchedPlaced DEF UseAfterFree
  <2>3. ASSUME NEW t \in Tasks, NEW tid \in Pins, ConstructAndDispatch(w, t, tid)
        PROVE  Placed'
    <3>1. \A v \in Workers : cur_fiber'[v] \in {cur_fiber[v], t}
      BY <2>3 DEF ConstructAndDispatch, Placed, Typed, TypeOK
    <3>2. QED
      BY <1>1, <2>3, <3>1, DispatchedPlaced DEF ConstructAndDispatch, Kinds
  <2>4. ASSUME NEW s \in {"ready", "pause"}, Yield(w, s)
        PROVE  Placed'
    BY <1>1, <2>4, UntouchedPlaced DEF Yield
  <2>5. ASSUME NEW s \in {"terminate", "error"}, Finish(w, s)
        PROVE  Placed'
    BY <1>1, <2>5, UntouchedPlaced DEF Finish
  <2>6. CASE SwapOut(w)
    <3>1. \A v \in Workers : cur_fiber'[v] \in {cur_fiber[v], "main"}
      BY <2>6 DEF SwapOut, Placed, Typed, TypeOK
    <3>2. QED
      BY <1>1, <2>6, <3>1, UntouchedPlaced DEF SwapOut
  <2>7. QED
    BY <1>5, <2>1, <2>2, <2>3, <2>4, <2>5, <2>6 DEF Body
<1>6. CASE UNCHANGED vars
  BY <1>1, <1>6, UntouchedPlaced DEF vars
<1>7. QED
  BY <1>2, <1>3, <1>4, <1>5, <1>6 DEF Next, Clients

(* Every task is in one place, for every client but the eager one.         *)
THEOREM PlacementHolds ==
  ASSUME "eager" \notin Client
  PROVE  Spec => []Placement
<1>1. Placed /\ [Next]_vars => Placed'
  BY PlacedStep
<1>2. Spec => []Placed
  BY <1>1, PlacedInit, PTL DEF Spec
<1>3. Placed => Placement
  BY DEF Placed
<1>4. QED
  BY <1>2, <1>3, PTL

(* No coroutine executes on two threads at once, for any number of threads *)
(* and tasks: the scan's own check of m_state is not even needed for it.   *)
THEOREM Exclusive ==
  ASSUME "eager" \notin Client
  PROVE  Spec => []ExclusiveRun
<1>1. Placement => ExclusiveRun
  BY DEF Placement, OnePlace, HandsDistinct, ExclusiveRun, Executing
<1>2. QED
  BY <1>1, PlacementHolds, PTL

-----------------------------------------------------------------------------
(* More about the queue.                                                   *)

(* push_back, by what is in the queue afterwards.                          *)
LEMMA PushEntries ==
  ASSUME TypeOK, NEW t \in Tasks, NEW kind \in Kinds,
         NEW tid \in Workers \cup {AnyThread}, Push(t, kind, tid)
  PROVE  /\ \A j \in 1..Len(m_coroutines') :
              \/ \E i \in 1..Len(m_coroutines) : m_coroutines'[j] = m_coroutines[i]
              \/ m_coroutines'[j] = [task |-> t, kind |-> kind, thread_id |-> tid]
         /\ \A u \in Tasks : Queued(u)' <=> Queued(u) \/ u = t
<1> DEFINE e == [task |-> t, kind |-> kind, thread_id |-> tid]
<1>1. m_coroutines \in Seq(Entry) /\ e \in Entry /\ e.task = t
  BY DEF TypeOK, Entry
<1>2. m_coroutines' = Append(m_coroutines, e)
  BY DEF Push
<1> HIDE DEF e
<1>3. /\ Len(m_coroutines') = Len(m_coroutines) + 1
      /\ \A i \in 1..Len(m_coroutines) : m_coroutines'[i] = m_coroutines[i]
      /\ m_coroutines'[Len(m_coroutines) + 1] = e
  BY <1>1, <1>2, AppendProperties
<1>4. Len(m_coroutines) \in Nat
  BY <1>1
<1>5. \A j \in 1..Len(m_coroutines') : j \in 1..Len(m_coroutines) \/ j = Len(m_coroutines) + 1
  BY <1>3, <1>4
<1>6. \A j \in 1..Len(m_coroutines') :
        (\E i \in 1..Len(m_coroutines) : m_coroutines'[j] = m_coroutines[i]) \/ m_coroutines'[j] = e
  BY <1>3, <1>5
<1>7. \A u \in Tasks : Queued(u)' <=> Queued(u) \/ u = t
  BY <1>1, <1>3, <1>4 DEF Queued
<1>8. QED
  BY <1>6, <1>7 DEF e

(* erase, likewise: nothing new, and nobody else is gone.                  *)
LEMMA RemoveEntries ==
  ASSUME TypeOK, NEW i \in 1..Len(m_coroutines),
         m_coroutines' = RemoveAt(m_coroutines, i)
  PROVE  /\ \A j \in 1..Len(m_coroutines') :
              \E k \in 1..Len(m_coroutines) : m_coroutines'[j] = m_coroutines[k]
         /\ \A u \in Tasks : Queued(u) => Queued(u)' \/ u = m_coroutines[i].task
<1>1. m_coroutines \in Seq(Entry) /\ Len(m_coroutines) \in Nat
  BY DEF TypeOK
<1>2. /\ Len(m_coroutines') = Len(m_coroutines) - 1
      /\ \A j \in 1..(Len(m_coroutines) - 1) :
           m_coroutines'[j] = m_coroutines[IF j < i THEN j ELSE j + 1]
  BY <1>1, RemoveAtFacts
<1>3. ASSUME NEW j \in 1..Len(m_coroutines')
      PROVE  \E k \in 1..Len(m_coroutines) : m_coroutines'[j] = m_coroutines[k]
  <2>1. (IF j < i THEN j ELSE j + 1) \in 1..Len(m_coroutines)
    BY <1>1, <1>2
  <2>2. QED
    BY <1>2, <2>1
<1>4. ASSUME NEW u \in Tasks, Queued(u), u # m_coroutines[i].task
      PROVE  Queued(u)'
  <2>1. PICK k \in 1..Len(m_coroutines) : m_coroutines[k].task = u
    BY <1>4 DEF Queued
  <2>2. k # i
    BY <1>4, <2>1
  <2> DEFINE j == IF k < i THEN k ELSE k - 1
  <2>3. j \in 1..(Len(m_coroutines) - 1) /\ (IF j < i THEN j ELSE j + 1) = k
    BY <1>1, <2>2
  <2> HIDE DEF j
  <2>4. m_coroutines'[j] = m_coroutines[k]
    BY <1>2, <2>3
  <2>5. QED
    BY <1>2, <2>1, <2>3, <2>4 DEF Queued
<1>5. QED
  BY <1>3, <1>4

LEMMA EntryFacts ==
  ASSUME TypeOK
  PROVE  /\ \A e \in Entry : e.task \in Tasks /\ e.kind \in Kinds /\ e # NoTask
         /\ \A i \in 1..Len(m_coroutines) : m_coroutines[i] \in Entry
<1>1. m_coroutines \in Seq(Entry)
  BY DEF TypeOK
<1>2. \A i \in 1..Len(m_coroutines) : m_coroutines[i] \in Entry
  BY <1>1
<1>3. QED
  BY <1>2, ScheduleAssumption DEF Entry

-----------------------------------------------------------------------------
(* Whose doing a change of m_state is: of a thread that is in the task or  *)
(* behind it, of one that takes itself for it, or of one that enters it.   *)
LEMMA StateChange ==
  ASSUME Placed, [Next]_vars, NEW t \in Tasks, m_state'[t] # m_state[t]
  PROVE  \E w \in Workers :
           \/ Holding(w, t) /\ pc[w] \in {"body", "settle"}
           \/ cur_fiber[w] = t /\ pc[w] = "body"
           \/ /\ Holding(w, t) /\ pc[w] = "picked" /\ pc'[w] # "picked"
              /\ temp[w].kind = "coroutine" => Enterable(t)
<1>0. TypeOK
  BY DEF Placed, Typed
<1>1. m_state' # m_state
  OBVIOUS
<1>2. ASSUME NEW w \in Workers, pc[w] \in OnStack \cup {"picked", "settle"}
      PROVE  temp[w] \in Entry /\ temp[w].task \in Tasks /\ Holding(w, temp[w].task)
  BY <1>0, <1>2, EntryFacts DEF Placed, Typed, HandsFull, Holding
<1>3. ASSUME NEW w \in Workers, RunCoroutine(w) \/ RunFunction(w)
      PROVE  /\ Holding(w, t) /\ pc[w] = "picked" /\ pc'[w] # "picked"
             /\ temp[w].kind = "coroutine" => Enterable(t)
  <2>1. pc[w] = "picked" /\ pc'[w] # "picked"
    BY <1>0, <1>3 DEF RunCoroutine, RunFunction, Goto, TypeOK
  <2>2. \A u \in Tasks : u # temp[w].task => m_state'[u] = m_state[u]
    BY <1>0, <1>3 DEF RunCoroutine, RunFunction, TypeOK
  <2>3. t = temp[w].task
    BY <2>2
  <2>4. Holding(w, t)
    BY <1>2, <2>1, <2>3
  <2>5. temp[w].kind = "coroutine" => Enterable(t)
    BY <1>3, <2>3 DEF RunCoroutine, RunFunction
  <2>6. QED
    BY <2>1, <2>4, <2>5
<1>4. ASSUME NEW w \in Workers, SettleCoroutine(w) \/ SettleFunction(w)
      PROVE  Holding(w, t) /\ pc[w] = "settle"
  <2>1. pc[w] = "settle"
    BY <1>4 DEF SettleCoroutine, SettleFunction
  <2>2. \A u \in Tasks : u # temp[w].task => m_state'[u] = m_state[u]
    BY <1>0, <1>4 DEF SettleCoroutine, SettleFunction, TypeOK
  <2>3. t = temp[w].task
    BY <2>2
  <2>4. QED
    BY <1>2, <2>1, <2>3
<1>5. ASSUME NEW w \in Workers, NEW s \in {"ready", "pause"}, Yield(w, s)
      PROVE  cur_fiber[w] = t /\ pc[w] = "body"
  BY <1>0, <1>5 DEF Yield, TypeOK
<1>6. ASSUME NEW w \in Workers, NEW s \in {"terminate", "error"}, Finish(w, s)
      PROVE  Holding(w, t) /\ pc[w] = "body"
  <2>1. pc[w] = "body"
    BY <1>6 DEF Finish
  <2>2. \A u \in Tasks : u # temp[w].task => m_state'[u] = m_state[u]
    BY <1>0, <1>6 DEF Finish, TypeOK
  <2>3. t = temp[w].task
    BY <2>2
  <2>4. QED
    BY <1>2, <2>1, <2>3 DEF OnStack
<1>7. \/ \E w \in Workers : RunCoroutine(w) \/ RunFunction(w)
      \/ \E w \in Workers : SettleCoroutine(w) \/ SettleFunction(w)
      \/ \E w \in Workers, s \in {"ready", "pause"} : Yield(w, s)
      \/ \E w \in Workers, s \in {"terminate", "error"} : Finish(w, s)
  BY <1>1
     DEF Next, Clients, RunLoop, Body, Dispatch, Resume, Begin, Take, FindNothing,
         SkipTerminated, Exit, EnterIdle, LeaveIdle, Publish, UseAfterFree,
         ConstructAndDispatch, SwapOut, vars
<1>8. QED
  BY <1>3, <1>4, <1>5, <1>6, <1>7

(* Who comes to take itself for a task: the thread that enters it, or that *)
(* constructs it.                                                          *)
LEMMA FiberChange ==
  ASSUME Placed, [Next]_vars, NEW t \in Tasks, NEW w \in Workers, cur_fiber'[w] = t
  PROVE  \/ cur_fiber[w] = t
         \/ Holding(w, t) /\ pc[w] = "picked" /\ pc'[w] # "picked"
         \/ /\ pin[t] = NoTask /\ pc' = pc /\ temp' = temp
            /\ \E tid \in Pins : Push(t, "coroutine", tid)
<1>0. TypeOK /\ t \notin {"main", "idle"}
  BY ScheduleAssumption DEF Placed, Typed
<1> SUFFICES ASSUME cur_fiber[w] # t
             PROVE  \/ Holding(w, t) /\ pc[w] = "picked" /\ pc'[w] # "picked"
                    \/ /\ pin[t] = NoTask /\ pc' = pc /\ temp' = temp
                       /\ \E tid \in Pins : Push(t, "coroutine", tid)
  OBVIOUS
<1>1. ASSUME NEW v \in Workers, RunCoroutine(v) \/ RunFunction(v)
      PROVE  Holding(w, t) /\ pc[w] = "picked" /\ pc'[w] # "picked"
  <2>1. /\ cur_fiber' = [cur_fiber EXCEPT ![v] = temp[v].task]
        /\ pc[v] = "picked" /\ pc'[v] # "picked"
    BY <1>0, <1>1 DEF RunCoroutine, RunFunction, Goto, TypeOK
  <2>2. v = w /\ temp[w].task = t
    BY <1>0, <2>1 DEF TypeOK
  <2>3. temp[w] \in Entry
    BY <2>1, <2>2 DEF Placed, Typed, HandsFull
  <2>4. QED
    BY <1>0, <2>1, <2>2, <2>3, EntryFacts DEF Holding
<1>2. ASSUME NEW v \in Workers, NEW u \in Tasks, NEW tid \in Pins,
             ConstructAndDispatch(v, u, tid)
      PROVE  pin[t] = NoTask /\ pc' = pc /\ temp' = temp /\ Push(t, "coroutine", tid)
  <2>1. cur_fiber' = [cur_fiber EXCEPT ![v] = u]
    BY <1>2 DEF ConstructAndDispatch
  <2>2. u = t
    BY <1>0, <2>1 DEF TypeOK
  <2>3. QED
    BY <1>2, <2>2 DEF ConstructAndDispatch
<1>3. ASSUME NEW v \in Workers, Begin(v) \/ EnterIdle(v) \/ LeaveIdle(v) \/ SwapOut(v)
      PROVE  FALSE
  <2>1. \/ cur_fiber' = [cur_fiber EXCEPT ![v] = "main"]
        \/ cur_fiber' = [cur_fiber EXCEPT ![v] = "idle"]
    BY <1>3 DEF Begin, EnterIdle, LeaveIdle, SwapOut
  <2>2. QED
    BY <1>0, <2>1 DEF TypeOK
<1>4. \/ \E v \in Workers : RunCoroutine(v) \/ RunFunction(v)
      \/ \E v \in Workers, u \in Tasks, tid \in Pins : ConstructAndDispatch(v, u, tid)
      \/ \E v \in Workers : Begin(v) \/ EnterIdle(v) \/ LeaveIdle(v) \/ SwapOut(v)
      \/ cur_fiber' = cur_fiber
  BY DEF Next, Clients, RunLoop, Body, Dispatch, Resume, Take, FindNothing,
         SkipTerminated, SettleCoroutine, SettleFunction, Exit, Publish, UseAfterFree,
         Yield, Finish, vars
<1>5. QED
  BY <1>1, <1>2, <1>3, <1>4

-----------------------------------------------------------------------------
(* A callback that has not been run yet has a coroutine in its first       *)
(* state, and nobody takes itself for it.                                  *)

Unstarted(t) ==
  \/ \E i \in 1..Len(m_coroutines) :
       m_coroutines[i].kind = "function" /\ m_coroutines[i].task = t
  \/ \E w \in Workers : pc[w] = "picked" /\ temp[w].kind = "function" /\ temp[w].task = t

FunctionIsNew ==
  \A t \in Tasks :
    /\ pin[t] = NoTask => m_state[t] = "init"
    /\ Unstarted(t) => m_state[t] = "init" /\ \A w \in Workers : cur_fiber[w] # t

LEMMA UnstartedStep ==
  ASSUME Placed, [Next]_vars, NEW t \in Tasks, Unstarted(t)'
  PROVE  \/ /\ Unstarted(t)
            /\ \A w \in Workers : Holding(w, t) /\ pc[w] = "picked" => pc'[w] = "picked"
         \/ pin[t] = NoTask /\ UNCHANGED <<m_state, cur_fiber>>
<1>0. TypeOK
  BY DEF Placed, Typed
<1> DEFINE InQueue(q) == \E i \in 1..Len(q) : q[i].kind = "function" /\ q[i].task = t
           Old == /\ Unstarted(t)
                  /\ \A w \in Workers : Holding(w, t) /\ pc[w] = "picked" => pc'[w] = "picked"
<1>1. ASSUME NEW u \in Tasks, NEW kind \in Kinds, NEW tid \in Workers \cup {AnyThread},
             Push(u, kind, tid), InQueue(m_coroutines')
      PROVE  InQueue(m_coroutines) \/ (kind = "function" /\ u = t)
  <2> DEFINE e == [task |-> u, kind |-> kind, thread_id |-> tid]
  <2>1. PICK j \in 1..Len(m_coroutines') :
          m_coroutines'[j].kind = "function" /\ m_coroutines'[j].task = t
    BY <1>1
  <2>2. \/ \E i \in 1..Len(m_coroutines) : m_coroutines'[j] = m_coroutines[i]
        \/ m_coroutines'[j] = e
    BY <1>0, <1>1, PushEntries
  <2>3. e.kind = kind /\ e.task = u
    OBVIOUS
  <2> HIDE DEF e
  <2>4. QED
    BY <2>1, <2>2, <2>3
<1>2. ASSUME NEW u \in Tasks, NEW kind \in Kinds, NEW tid \in Pins, Dispatch(u, kind, tid)
      PROVE  Old \/ (pin[t] = NoTask /\ UNCHANGED <<m_state, cur_fiber>>)
  <2>1. Push(u, kind, tid) /\ tid \in Workers \cup {AnyThread} /\ pin[u] = NoTask
        /\ UNCHANGED <<pc, temp, m_state, cur_fiber>>
    BY <1>2, ScheduleAssumption DEF Dispatch
  <2>2. CASE u = t
    BY <2>1, <2>2
  <2>3. CASE u # t
    BY <1>1, <2>1, <2>3 DEF Unstarted
  <2>4. QED
    BY <2>2, <2>3
<1>3. ASSUME NEW u \in Tasks, NEW tid \in Workers \cup {AnyThread},
             Push(u, "coroutine", tid), UNCHANGED <<pc, temp>>
      PROVE  Old
  BY <1>1, <1>3 DEF Unstarted, Kinds
<1>4. ASSUME NEW w \in Workers, Take(w)
      PROVE  Old
  <2>1. PICK i \in 1..Len(m_coroutines) :
          /\ temp' = [temp EXCEPT ![w] = m_coroutines[i]]
          /\ m_coroutines' = RemoveAt(m_coroutines, i)
    BY <1>4 DEF Take, EligibleAt
  <2>2. /\ pc[w] = "scan" /\ temp'[w] = m_coroutines[i]
        /\ \A v \in Workers \ {w} : pc'[v] = pc[v] /\ temp'[v] = temp[v]
    BY <1>0, <1>4, <2>1 DEF Take, Goto, TypeOK
  <2>3. InQueue(m_coroutines') => InQueue(m_coroutines)
    BY <1>0, <2>1, RemoveEntries
  <2>4. QED
    BY <2>2, <2>3 DEF Unstarted
<1>5. ASSUME NEW w \in Workers, SettleCoroutine(w) \/ SettleFunction(w)
      PROVE  Old
  <2>1. temp[w] \in Entry /\ temp[w].task \in Tasks
    BY <1>0, <1>5, EntryFacts
       DEF SettleCoroutine, SettleFunction, Placed, Typed, HandsFull
  <2>2. /\ pc[w] = "settle" /\ pc'[w] = "scan"
        /\ \A v \in Workers \ {w} : pc'[v] = pc[v] /\ temp'[v] = temp[v]
        /\ m_coroutines' = m_coroutines \/ Push(temp[w].task, "coroutine", AnyThread)
    BY <1>0, <1>5 DEF SettleCoroutine, SettleFunction, Goto, TypeOK
  <2>3. InQueue(m_coroutines') => InQueue(m_coroutines)
    BY <1>1, <2>1, <2>2 DEF Kinds
  <2>4. QED
    BY <2>2, <2>3 DEF Unstarted
<1>6. ASSUME NEW w \in Workers, RunCoroutine(w) \/ RunFunction(w) \/ SkipTerminated(w)
      PROVE  Old
  <2>1. temp[w] \in Entry /\ temp[w].task \in Tasks /\ Holding(w, temp[w].task)
    BY <1>0, <1>6, EntryFacts
       DEF RunCoroutine, RunFunction, SkipTerminated, Placed, Typed, HandsFull, Holding
  <2>2. /\ pc[w] = "picked" /\ pc'[w] # "picked" /\ m_coroutines' = m_coroutines
        /\ \A v \in Workers \ {w} : pc'[v] = pc[v] /\ temp'[v] = temp[v]
    BY <1>0, <1>6 DEF RunCoroutine, RunFunction, SkipTerminated, Goto, TypeOK
  <2>3. \A v \in Workers \ {w} : pc[v] = "picked" => temp[v] \in Entry
    BY DEF Placed, Typed, HandsFull
  <2>4. Unstarted(t) /\ ~Holding(w, t)
    <3>1. CASE InQueue(m_coroutines)
      BY <3>1 DEF Unstarted, Queued, InHand, Placed, Placement, OnePlace, QueueOrHand
    <3>2. CASE ~InQueue(m_coroutines)
      <4>1. PICK v \in Workers \ {w} :
              pc[v] = "picked" /\ temp[v].kind = "function" /\ temp[v].task = t
        BY <2>2, <3>2 DEF Unstarted
      <4>2. Holding(v, t)
        BY <1>0, <2>3, <4>1, EntryFacts DEF Holding
      <4>3. QED
        BY <4>1, <4>2 DEF Unstarted, Placed, Placement, OnePlace, HandsDistinct
    <3>3. QED
      BY <3>1, <3>2
  <2>5. QED
    BY <2>2, <2>4
<1>7. ASSUME UNCHANGED <<m_coroutines, temp>>,
             \A v \in Workers : pc'[v] = "picked" <=> pc[v] = "picked"
      PROVE  Old
  BY <1>7 DEF Unstarted
<1>8. ASSUME NEW w \in Workers,
             Begin(w) \/ FindNothing(w) \/ Exit(w) \/ EnterIdle(w) \/ LeaveIdle(w)
             \/ Publish(w) \/ UseAfterFree(w) \/ SwapOut(w)
             \/ (\E s \in {"ready", "pause"} : Yield(w, s))
             \/ (\E s \in {"terminate", "error"} : Finish(w, s))
      PROVE  Old
  <2>1. /\ UNCHANGED <<m_coroutines, temp>>
        /\ \A v \in Workers : pc'[v] = "picked" <=> pc[v] = "picked"
    BY <1>0, <1>8 DEF Begin, FindNothing, Exit, EnterIdle, LeaveIdle, Publish, UseAfterFree,
       SwapOut, Yield, Finish, Goto, TypeOK
  <2>2. QED
    BY <2>1, <1>7
<1>9. ASSUME NEW u \in Tasks, Resume(u) PROVE Old
  BY <1>3, <1>9 DEF Resume
<1>10. ASSUME NEW w \in Workers, NEW u \in Tasks, NEW tid \in Pins,
              ConstructAndDispatch(w, u, tid)
       PROVE  Old
  BY <1>3, <1>10, ScheduleAssumption DEF ConstructAndDispatch
<1>11. CASE UNCHANGED vars
  BY <1>7, <1>11 DEF vars
<1>12. QED
  BY <1>2, <1>4, <1>5, <1>6, <1>8, <1>9, <1>10, <1>11 DEF Next, Clients, RunLoop, Body

LEMMA UnstartedIsPlaced ==
  ASSUME Placed, NEW t \in Tasks, Unstarted(t)
  PROVE  /\ Queued(t) \/ InHand(t)
         /\ \A w \in Workers : Holding(w, t) => pc[w] = "picked"
<1>1. CASE \E i \in 1..Len(m_coroutines) :
             m_coroutines[i].kind = "function" /\ m_coroutines[i].task = t
  BY <1>1 DEF Queued, InHand, Placed, Placement, OnePlace, QueueOrHand
<1>2. ASSUME NEW w \in Workers,
             pc[w] = "picked" /\ temp[w].kind = "function" /\ temp[w].task = t
      PROVE  InHand(t) /\ \A v \in Workers : Holding(v, t) => pc[v] = "picked"
  <2>1. Holding(w, t)
    BY <1>2, EntryFacts DEF Placed, Typed, HandsFull, Holding
  <2>2. QED
    BY <1>2, <2>1 DEF InHand, Placed, Placement, OnePlace, HandsDistinct
<1>3. QED
  BY <1>1, <1>2 DEF Unstarted

LEMMA FunctionIsNewInit == Init => FunctionIsNew
<1> SUFFICES ASSUME Init PROVE FunctionIsNew
  OBVIOUS
<1>1. Len(m_coroutines) = 0 /\ \A w \in Workers : pc[w] = "start"
  BY DEF Init
<1>2. \A t \in Tasks : ~Unstarted(t)
  BY <1>1 DEF Unstarted
<1>3. QED
  BY <1>2 DEF Init, FunctionIsNew

LEMMA FunctionIsNewStep ==
  ASSUME Placed, FunctionIsNew, [Next]_vars
  PROVE  FunctionIsNew'
<1>1. ASSUME NEW t \in Tasks, pin'[t] = NoTask
      PROVE  m_state'[t] = "init"
  <2>1. pin[t] = NoTask
    BY <1>1 DEF Next, Clients, RunLoop, Body, Dispatch, Resume, Begin, Take, FindNothing,
       RunCoroutine, RunFunction, SkipTerminated, SettleCoroutine, SettleFunction, Exit,
       EnterIdle, LeaveIdle, Publish, UseAfterFree, ConstructAndDispatch, Yield, Finish,
       SwapOut, vars, Placed, Typed, TypeOK
  <2>2. m_state[t] = "init" /\ \A w \in Workers : ~Holding(w, t) /\ cur_fiber[w] # t
    BY <2>1 DEF FunctionIsNew, Placed, Placement, NewIsNowhere, InHand
  <2>3. QED
    BY <2>2, StateChange
<1>2. ASSUME NEW t \in Tasks, Unstarted(t)'
      PROVE  m_state'[t] = "init" /\ \A w \in Workers : cur_fiber'[w] # t
  <2>1. CASE pin[t] = NoTask /\ UNCHANGED <<m_state, cur_fiber>>
    BY <2>1 DEF FunctionIsNew, Placed, Placement, NewIsNowhere
  <2>2. CASE /\ Unstarted(t)
             /\ \A w \in Workers : Holding(w, t) /\ pc[w] = "picked" => pc'[w] = "picked"
    <3>1. /\ m_state[t] = "init"
          /\ \A w \in Workers : cur_fiber[w] # t
      BY <2>2 DEF FunctionIsNew
    <3>2. pin[t] # NoTask /\ \A w \in Workers : Holding(w, t) => pc[w] = "picked"
      BY <2>2, UnstartedIsPlaced, PlacedIsDispatched
    <3>3. m_state'[t] = m_state[t]
      BY <2>2, <3>1, <3>2, StateChange
    <3>4. \A w \in Workers : cur_fiber'[w] # t
      BY <2>2, <3>1, <3>2, FiberChange
    <3>5. QED
      BY <3>1, <3>3, <3>4
  <2>3. QED
    BY <1>2, <2>1, <2>2, UnstartedStep
<1>3. QED
  BY <1>1, <1>2 DEF FunctionIsNew

(* Once run() is through with a coroutine that has terminated, nothing     *)
(* sets its state again but a thread that takes itself for it: a second    *)
(* dispatch of it from an event context finds it terminated, and a         *)
(* callback in the queue has never been run.                               *)
THEOREM TerminatedFinal ==
  ASSUME "eager" \notin Client
  PROVE  Spec => TerminatedIsFinal
<1> DEFINE A == \A t \in Tasks :
                  m_state[t] = "terminate"
                  /\ ~MistakenFor(t) /\ ~(\E w \in Workers : Runs(w, t))
                    => m_state'[t] = "terminate"
<1>1. Placed /\ [Next]_vars => Placed'
  BY PlacedStep
<1>2. Placed /\ FunctionIsNew /\ [Next]_vars => FunctionIsNew'
  BY FunctionIsNewStep
<1>3. Placed /\ FunctionIsNew /\ [Next]_vars => A
  <2> SUFFICES ASSUME Placed, FunctionIsNew, [Next]_vars, NEW t \in Tasks,
                      m_state[t] = "terminate", ~MistakenFor(t),
                      ~(\E w \in Workers : Runs(w, t)),
                      m_state'[t] # "terminate"
               PROVE  FALSE
    OBVIOUS
  <2>1. PICK w \in Workers :
          \/ Holding(w, t) /\ pc[w] \in {"body", "settle"}
          \/ cur_fiber[w] = t /\ pc[w] = "body"
          \/ /\ Holding(w, t) /\ pc[w] = "picked" /\ pc'[w] # "picked"
             /\ temp[w].kind = "coroutine" => Enterable(t)
    BY StateChange
  <2>2. ~Holding(w, t) \/ pc[w] \notin {"body", "settle"}
    BY DEF Runs, OnStack
  <2>3. ~(cur_fiber[w] = t /\ pc[w] = "body")
    BY <2>2 DEF MistakenFor
  <2>4. Holding(w, t) /\ pc[w] = "picked" /\ (temp[w].kind = "coroutine" => Enterable(t))
    BY <2>1, <2>2, <2>3
  <2>5. temp[w] \in Entry /\ temp[w].kind \in Kinds /\ temp[w].task = t
    BY <2>4, EntryFacts DEF Placed, Typed, HandsFull, Holding
  <2>6. CASE temp[w].kind = "coroutine"
    BY <2>4, <2>6 DEF Enterable
  <2>7. CASE temp[w].kind = "function"
    BY <2>4, <2>5, <2>7 DEF FunctionIsNew, Unstarted
  <2>8. QED
    BY <2>5, <2>6, <2>7 DEF Kinds
<1>4. Spec => [](Placed /\ FunctionIsNew)
  BY <1>1, <1>2, PlacedInit, FunctionIsNewInit, PTL DEF Spec
<1>5. Placed /\ FunctionIsNew /\ [Next]_vars => [A]_vars
  BY <1>3
<1>6. Spec => [][A]_vars
  BY <1>4, <1>5, PTL DEF Spec
<1>7. QED
  BY <1>6 DEF TerminatedIsFinal

-----------------------------------------------------------------------------
(* The life of a coroutine, as a disciplined client sees it.               *)

(* What is to be resumed can be: it was made, or saved by swapcontext, and *)
(* has not terminated.                                                     *)
Resumable(e) ==
  e.kind = "coroutine" => /\ m_context[e.task] \in {"fresh", "saved"}
                          /\ m_state[e.task] # "terminate"

(* Behind a yield: whoever holds the coroutine may resume it, or it will   *)
(* be dispatched again.  Behind the end of a body: nobody holds it.        *)
YieldedAs(t) == m_state[t] = "ready" \/ (m_state[t] = "pause" /\ t \in holders)

EndedAs(t) == m_state[t] \in {"terminate", "error"} /\ t \notin holders

InBody(w) ==
  LET t == temp[w].task IN
  /\ pc[w] # "undefined"
  /\ pc[w] \in {"start", "scan", "empty", "idle", "exited"} => temp[w] = NoTask
  /\ pc[w] = "picked" => Resumable(temp[w])
  /\ pc[w] \in {"body", "yielding"} => cur_fiber[w] = t
  /\ pc[w] \in {"body", "yielding", "returning"} => m_context[t] = "live"
  /\ pc[w] = "yielding" => YieldedAs(t)
  /\ pc[w] = "returning" => EndedAs(t)
  /\ pc[w] = "settle" => \/ m_context[t] = "saved" /\ YieldedAs(t)
                         \/ m_context[t] = "done" /\ EndedAs(t)

Elsewhere(t) == pin[t] # NoTask /\ ~Queued(t) /\ ~InHand(t)

Lifecycle ==
  /\ \A i \in 1..Len(m_coroutines) : Resumable(m_coroutines[i])
  /\ \A w \in Workers : InBody(w)
  /\ \A t \in Tasks : Elsewhere(t) =>
       \/ t \in holders /\ m_context[t] = "saved" /\ m_state[t] = "pause"
       \/ t \notin holders /\ m_context[t] = "freed"
  /\ NoLostTask

LEMMA LifecycleInit == Init => Lifecycle
<1> SUFFICES ASSUME Init PROVE Lifecycle
  OBVIOUS
<1>1. Len(m_coroutines) = 0
  BY DEF Init
<1>2. \A w \in Workers : InBody(w)
  BY DEF Init, InBody
<1>3. QED
  BY <1>1, <1>2 DEF Init, Lifecycle, Elsewhere, NoLostTask

(* Another thread, another task.                                           *)
LEMMA OtherInBody ==
  ASSUME Placed, NEW v \in Workers, InBody(v), NEW c \in Tasks, ~Holding(v, c),
         pc'[v] = pc[v], temp'[v] = temp[v], cur_fiber'[v] = cur_fiber[v],
         \A u \in Tasks \ {c} : /\ m_state'[u] = m_state[u]
                                /\ m_context'[u] = m_context[u]
                                /\ u \in holders => u \in holders'
                                /\ u \in holders' => u \in holders
  PROVE  InBody(v)'
<1>1. CASE pc[v] \in {"start", "scan", "empty", "idle", "exited"}
  BY <1>1 DEF InBody
<1>2. CASE pc[v] \notin {"start", "scan", "empty", "idle", "exited"}
  <2>1. pc[v] \in OnStack \cup {"picked", "settle"}
    BY <1>2 DEF Placed, Typed, TypeOK, Control, OnStack
  <2>2. temp[v] \in Entry /\ temp[v].task \in Tasks /\ temp[v].task # c
    BY <2>1, EntryFacts DEF Placed, Typed, HandsFull, Holding
  <2>3. QED
    BY <1>2, <2>2 DEF InBody, Resumable, YieldedAs, EndedAs
<1>3. QED
  BY <1>1, <1>2

(* What a thread does with the task in its hands, c, touches nothing else. *)
LEMMA HandStep ==
  ASSUME Placed, Lifecycle, NEW w \in Workers, temp[w] \in Entry, NEW c \in Tasks,
         c = temp[w].task,
         \A v \in Workers \ {w} : /\ pc'[v] = pc[v] /\ temp'[v] = temp[v]
                                  /\ cur_fiber'[v] = cur_fiber[v],
         \A u \in Tasks \ {c} : /\ m_state'[u] = m_state[u]
                                /\ m_context'[u] = m_context[u]
                                /\ u \in holders => u \in holders'
                                /\ u \in holders' => u \in holders,
         pin' = pin, InBody(w)', m_context'[c] # "lost",
         \/ m_coroutines' = m_coroutines /\ temp'[w] = temp[w]
         \/ /\ Push(c, "coroutine", AnyThread) /\ temp'[w] = NoTask
            /\ m_context'[c] \in {"fresh", "saved"} /\ m_state'[c] # "terminate"
         \/ /\ m_coroutines' = m_coroutines /\ temp'[w] = NoTask
            /\ \/ c \in holders' /\ m_context'[c] = "saved" /\ m_state'[c] = "pause"
               \/ c \notin holders' /\ m_context'[c] = "freed"
  PROVE  Lifecycle'
<1>1. TypeOK
  BY DEF Placed, Typed
<1>2. Holding(w, c) /\ InHand(c) /\ ~Queued(c) /\ pin[c] # NoTask
  <2>1. Holding(w, c)
    BY <1>1, EntryFacts DEF Holding
  <2>2. QED
    BY <2>1, PlacedIsDispatched DEF InHand, Placed, Placement, OnePlace, QueueOrHand
<1>3. \A v \in Workers \ {w} : ~Holding(v, c)
  BY <1>2 DEF Placed, Placement, OnePlace, HandsDistinct
<1>4. \A v \in Workers : InBody(v)'
  BY <1>3, OtherInBody DEF Lifecycle
<1> DEFINE ResumableNext(e) ==
             e.kind = "coroutine" => /\ m_context'[e.task] \in {"fresh", "saved"}
                                     /\ m_state'[e.task] # "terminate"
<1>5. ASSUME NEW i \in 1..Len(m_coroutines) PROVE ResumableNext(m_coroutines[i])
  <2>1. m_coroutines[i].task \in Tasks \ {c}
    BY <1>1, <1>2, EntryFacts DEF Queued
  <2>2. Resumable(m_coroutines[i])
    BY DEF Lifecycle
  <2>3. QED
    BY <2>1, <2>2 DEF Resumable
<1>6. \A j \in 1..Len(m_coroutines') : ResumableNext(m_coroutines'[j])
  <2>1. CASE m_coroutines' = m_coroutines
    BY <1>5, <2>1
  <2>2. CASE /\ Push(c, "coroutine", AnyThread)
             /\ m_context'[c] \in {"fresh", "saved"} /\ m_state'[c] # "terminate"
    <3> DEFINE e == [task |-> c, kind |-> "coroutine", thread_id |-> AnyThread]
    <3>1. ResumableNext(e)
      BY <2>2
    <3>2. \A j \in 1..Len(m_coroutines') :
            \/ \E i \in 1..Len(m_coroutines) : m_coroutines'[j] = m_coroutines[i]
            \/ m_coroutines'[j] = e
      BY <1>1, <2>2, PushEntries DEF Kinds
    <3> HIDE DEF e, ResumableNext
    <3>3. QED
      BY <1>5, <3>1, <3>2
  <2>3. QED
    BY <2>1, <2>2
<1>7. ASSUME NEW u \in Tasks, Elsewhere(u)'
      PROVE  \/ u \in holders' /\ m_context'[u] = "saved" /\ m_state'[u] = "pause"
             \/ u \notin holders' /\ m_context'[u] = "freed"
  <2>1. Queued(u) => Queued(u)'
    <3>1. CASE m_coroutines' = m_coroutines
      BY <3>1 DEF Queued
    <3>2. CASE Push(c, "coroutine", AnyThread)
      BY <1>1, <3>2, PushEntries DEF Kinds
    <3>3. QED
      BY <3>1, <3>2
  <2>2. CASE u = c
    <3>1. temp'[w] # temp[w]
      BY <1>2, <1>7, <2>2 DEF Elsewhere, InHand, Holding
    <3>2. ~Push(c, "coroutine", AnyThread)
      BY <1>1, <1>7, <2>2, PushEntries DEF Elsewhere, Kinds
    <3>3. QED
      BY <2>2, <3>1, <3>2
  <2>3. CASE u # c
    <3>1. ~Queued(u) /\ pin[u] # NoTask
      BY <1>7, <2>1 DEF Elsewhere
    <3>2. ASSUME NEW v \in Workers PROVE ~Holding(v, u)
      <4>1. CASE v = w
        BY <1>2, <2>3, <4>1 DEF Holding
      <4>2. CASE v # w
        BY <1>7, <4>2 DEF Elsewhere, InHand, Holding
      <4>3. QED
        BY <4>1, <4>2
    <3>3. Elsewhere(u)
      BY <3>1, <3>2 DEF Elsewhere, InHand
    <3>4. QED
      BY <2>3, <3>3 DEF Lifecycle
  <2>4. QED
    BY <2>2, <2>3
<1>8. NoLostTask'
  BY DEF Lifecycle, NoLostTask
<1>9. QED
  BY <1>4, <1>6, <1>7, <1>8 DEF Lifecycle, Resumable

(* A thread with empty hands: only its pc and cur_fiber change.            *)
LEMMA LoopStep ==
  ASSUME Placed, Lifecycle, NEW w \in Workers,
         Begin(w) \/ FindNothing(w) \/ Exit(w) \/ EnterIdle(w) \/ LeaveIdle(w)
  PROVE  Lifecycle'
<1>1. /\ UNCHANGED <<m_coroutines, temp, m_state, m_context, holders, pin>>
      /\ \A v \in Workers \ {w} : pc'[v] = pc[v] /\ cur_fiber'[v] = cur_fiber[v]
      /\ pc[w] \in {"start", "scan", "empty", "idle", "exited"}
      /\ pc'[w] \in {"start", "scan", "empty", "idle", "exited"}
  BY DEF Begin, FindNothing, Exit, EnterIdle, LeaveIdle, Goto, Placed, Typed, TypeOK
<1>2. ASSUME NEW v \in Workers PROVE InBody(v)'
  <2>1. CASE v = w
    BY <1>1, <2>1 DEF Lifecycle, InBody
  <2>2. CASE v # w
    BY <1>1, <2>2 DEF Lifecycle, InBody, Resumable, YieldedAs, EndedAs
  <2>3. QED
    BY <2>1, <2>2
<1>3. QED
  BY <1>1, <1>2
     DEF Lifecycle, Resumable, Elsewhere, NoLostTask, Queued, InHand, Holding

LEMMA TakeStep ==
  ASSUME Placed, Lifecycle, NEW w \in Workers, Take(w)
  PROVE  Lifecycle'
<1>1. PICK i \in 1..Len(m_coroutines) :
        /\ temp' = [temp EXCEPT ![w] = m_coroutines[i]]
        /\ m_coroutines' = RemoveAt(m_coroutines, i)
  BY DEF Take, EligibleAt
<1>2. /\ UNCHANGED <<cur_fiber, m_state, m_context, holders, pin>>
      /\ \A v \in Workers \ {w} : pc'[v] = pc[v] /\ temp'[v] = temp[v]
      /\ pc'[w] = "picked" /\ temp'[w] = m_coroutines[i] /\ temp[w] = NoTask
  BY <1>1 DEF Take, Goto, Placed, Typed, TypeOK, Lifecycle, InBody
<1>3. m_coroutines[i] \in Entry /\ Resumable(m_coroutines[i])
  BY EntryFacts DEF Placed, Typed, Lifecycle
<1>4. ASSUME NEW v \in Workers PROVE InBody(v)'
  <2>1. CASE v = w
    BY <1>2, <1>3, <2>1 DEF InBody, Resumable
  <2>2. CASE v # w
    BY <1>2, <2>2 DEF Lifecycle, InBody, Resumable, YieldedAs, EndedAs
  <2>3. QED
    BY <2>1, <2>2
<1>5. \A j \in 1..Len(m_coroutines') : Resumable(m_coroutines[j])'
  <2>1. \A j \in 1..Len(m_coroutines') :
          \E k \in 1..Len(m_coroutines) : m_coroutines'[j] = m_coroutines[k]
    BY <1>1, RemoveEntries DEF Placed, Typed
  <2>2. QED
    BY <1>2, <2>1 DEF Lifecycle, Resumable
<1>6. ASSUME NEW u \in Tasks, Elsewhere(u)' PROVE Elsewhere(u)
  <2>1. u # m_coroutines[i].task
    BY <1>2, <1>3, <1>6, EntryFacts DEF Elsewhere, InHand, Holding, Placed, Typed
  <2>2. ~Queued(u)
    BY <1>1, <1>6, <2>1, RemoveEntries DEF Elsewhere, Placed, Typed
  <2>3. ~InHand(u)
    BY <1>2, <1>6 DEF Elsewhere, InHand, Holding
  <2>4. QED
    BY <1>2, <1>6, <2>2, <2>3 DEF Elsewhere
<1>7. QED
  BY <1>2, <1>4, <1>5, <1>6 DEF Lifecycle, NoLostTask

LEMMA DispatchStep ==
  ASSUME Placed, FunctionIsNew, Lifecycle, NEW t \in Tasks, NEW kind \in Kinds,
         NEW tid \in Pins, Dispatch(t, kind, tid)
  PROVE  Lifecycle'
<1>1. /\ pin[t] = NoTask /\ Push(t, kind, tid) /\ pin' = [pin EXCEPT ![t] = tid]
      /\ UNCHANGED <<pc, temp, cur_fiber, m_state, holders>>
      /\ tid \in Workers \cup {AnyThread}
  BY ScheduleAssumption DEF Dispatch
<1>2. /\ \A u \in Tasks \ {t} : m_context'[u] = m_context[u] /\ pin'[u] = pin[u]
      /\ m_context'[t] = IF kind = "coroutine" THEN "fresh" ELSE "none"
  BY DEF Dispatch, Placed, Typed, TypeOK
<1>3. ~Queued(t) /\ ~InHand(t)
  BY <1>1 DEF Placed, Placement, NewIsNowhere
<1>4. ASSUME NEW v \in Workers PROVE InBody(v)'
  BY <1>1, <1>2, <1>3, OtherInBody DEF Lifecycle, InHand
<1>5. m_state'[t] = "init"
  BY <1>1 DEF FunctionIsNew
<1> DEFINE e == [task |-> t, kind |-> kind, thread_id |-> tid]
<1>6. /\ \A j \in 1..Len(m_coroutines') :
           \/ \E i \in 1..Len(m_coroutines) : m_coroutines'[j] = m_coroutines[i]
           \/ m_coroutines'[j] = e
      /\ \A u \in Tasks : Queued(u)' <=> Queued(u) \/ u = t
  BY <1>1, PushEntries DEF Placed, Typed
<1> DEFINE ResumableNext(f) ==
             f.kind = "coroutine" => /\ m_context'[f.task] \in {"fresh", "saved"}
                                     /\ m_state'[f.task] # "terminate"
<1>7. ASSUME NEW i \in 1..Len(m_coroutines) PROVE ResumableNext(m_coroutines[i])
  <2>1. m_coroutines[i].task \in Tasks \ {t}
    BY <1>3, EntryFacts DEF Queued, Placed, Typed
  <2>2. Resumable(m_coroutines[i])
    BY DEF Lifecycle
  <2>3. QED
    BY <1>1, <1>2, <2>1, <2>2 DEF Resumable
<1>8. ResumableNext(e)
  BY <1>2, <1>5
<1>9. \A j \in 1..Len(m_coroutines') : ResumableNext(m_coroutines'[j])
  <2> HIDE DEF e, ResumableNext
  <2>1. QED
    BY <1>6, <1>7, <1>8
<1>10. ASSUME NEW u \in Tasks, Elsewhere(u)' PROVE u # t /\ Elsewhere(u)
  BY <1>1, <1>2, <1>6, <1>10 DEF Elsewhere, InHand, Holding
<1>11. NoLostTask'
  BY <1>2 DEF Lifecycle, NoLostTask
<1>12. QED
  BY <1>1, <1>2, <1>4, <1>9, <1>10, <1>11 DEF Lifecycle, Resumable

LEMMA ResumeStep ==
  ASSUME "eager" \notin Client, Placed, Lifecycle, NEW t \in Tasks, Resume(t)
  PROVE  Lifecycle'
<1>1. /\ Push(t, "coroutine", AnyThread) /\ holders' = holders \ {t} /\ t \in holders
      /\ UNCHANGED <<pc, temp, cur_fiber, m_state, m_context, pin>>
      /\ ~Queued(t) /\ ~InHand(t)
  BY DEF Resume
<1>2. m_context[t] = "saved" /\ m_state[t] = "pause"
  BY <1>1 DEF Lifecycle, Elsewhere, Placed, Placement, NewIsNowhere
<1>3. ASSUME NEW v \in Workers PROVE InBody(v)'
  BY <1>1, OtherInBody DEF Lifecycle, InHand
<1> DEFINE e == [task |-> t, kind |-> "coroutine", thread_id |-> AnyThread]
<1>4. /\ \A j \in 1..Len(m_coroutines') :
           \/ \E i \in 1..Len(m_coroutines) : m_coroutines'[j] = m_coroutines[i]
           \/ m_coroutines'[j] = e
      /\ \A u \in Tasks : Queued(u)' <=> Queued(u) \/ u = t
  BY <1>1, PushEntries DEF Placed, Typed, Kinds
<1>5. \A j \in 1..Len(m_coroutines') : Resumable(m_coroutines'[j])
  <2>1. Resumable(e)
    BY <1>2 DEF Resumable
  <2> HIDE DEF e
  <2>2. QED
    BY <1>4, <2>1 DEF Lifecycle
<1>6. ASSUME NEW u \in Tasks, Elsewhere(u)' PROVE u # t /\ Elsewhere(u)
  BY <1>1, <1>4, <1>6 DEF Elsewhere, InHand, Holding
<1>7. QED
  BY <1>1, <1>3, <1>5, <1>6 DEF Lifecycle, Resumable, NoLostTask

(* run() lets go of a task: it goes back into the queue, or stays with     *)
(* whoever holds it, or is over.                                           *)
LEMMA SettleStep ==
  ASSUME Placed, Lifecycle, NEW w \in Workers, SettleCoroutine(w) \/ SettleFunction(w)
  PROVE  Lifecycle'
<1>1. TypeOK /\ temp[w] \in Entry /\ pc[w] = "settle"
  BY DEF SettleCoroutine, SettleFunction, Placed, Typed, HandsFull
<1>2. PICK c \in Tasks : c = temp[w].task
  BY <1>1, EntryFacts
<1>3. ~Queued(c) /\ \A v \in Workers \ {w} : ~Holding(v, c)
  BY <1>1, <1>2, EntryFacts
     DEF Holding, InHand, Placed, Placement, OnePlace, QueueOrHand, HandsDistinct
<1>4. \/ m_context[c] = "saved" /\ YieldedAs(c)
      \/ m_context[c] = "done" /\ EndedAs(c)
  BY <1>1, <1>2 DEF Lifecycle, InBody
<1>5. /\ temp' = [temp EXCEPT ![w] = NoTask] /\ pc' = [pc EXCEPT ![w] = "scan"]
      /\ UNCHANGED <<cur_fiber, holders, pin>>
  BY DEF SettleCoroutine, SettleFunction, Goto
<1>6. /\ temp'[w] = NoTask /\ pc'[w] = "scan"
      /\ \A v \in Workers \ {w} : pc'[v] = pc[v] /\ temp'[v] = temp[v]
  BY <1>1, <1>5 DEF TypeOK
<1>7. /\ \A u \in Tasks \ {c} : m_state'[u] = m_state[u] /\ m_context'[u] = m_context[u]
      /\ \/ /\ Push(c, "coroutine", AnyThread)
            /\ m_context'[c] \in {"fresh", "saved"} /\ m_state'[c] # "terminate"
         \/ /\ m_coroutines' = m_coroutines
            /\ \/ c \in holders' /\ m_context'[c] = "saved" /\ m_state'[c] = "pause"
               \/ c \notin holders' /\ m_context'[c] = "freed"
  <2>1. ReferredElsewhere(c, w) <=> c \in holders
    BY <1>3 DEF ReferredElsewhere
  <2>2. CASE SettleCoroutine(w)
    <3>1. CASE m_state[c] = "ready"
      BY <1>1, <1>2, <1>4, <2>2, <3>1 DEF SettleCoroutine, GoesBack, EndedAs, TypeOK
    <3>2. CASE m_state[c] # "ready" /\ YieldedAs(c)
      <4>1. m_state[c] = "pause" /\ c \in holders /\ m_context[c] = "saved"
        BY <1>4, <3>2 DEF YieldedAs, EndedAs
      <4>2. /\ m_state' = [m_state EXCEPT ![c] = "pause"] /\ m_context' = m_context
            /\ m_coroutines' = m_coroutines
        BY <1>2, <2>1, <2>2, <4>1 DEF SettleCoroutine, GoesBack, LetGo
      <4>3. QED
        BY <1>1, <1>5, <4>1, <4>2 DEF TypeOK
    <3>3. CASE m_state[c] # "ready" /\ EndedAs(c)
      <4>1. m_state[c] \in {"terminate", "error"} /\ c \notin holders /\ m_context[c] = "done"
        BY <1>4, <3>3 DEF YieldedAs, EndedAs
      <4>2. /\ m_state' = m_state \/ m_state' = [m_state EXCEPT ![c] = m_state[c]]
            /\ m_context' = [m_context EXCEPT ![c] = "freed"]
            /\ m_coroutines' = m_coroutines
        BY <1>1, <1>2, <2>1, <2>2, <4>1 DEF SettleCoroutine, GoesBack, LetGo, TypeOK
      <4>3. QED
        BY <1>1, <1>5, <4>1, <4>2 DEF TypeOK
    <3>4. QED
      BY <1>4, <3>1, <3>2, <3>3
  <2>3. CASE SettleFunction(w)
    <3>1. CASE m_state[c] = "ready"
      BY <1>1, <1>2, <1>4, <2>3, <3>1 DEF SettleFunction, GoesBack, EndedAs, TypeOK
    <3>2. CASE m_state[c] # "ready" /\ YieldedAs(c)
      <4>1. m_state[c] = "pause" /\ c \in holders /\ m_context[c] = "saved"
        BY <1>4, <3>2 DEF YieldedAs, EndedAs
      <4>2. /\ m_state' = [m_state EXCEPT ![c] = "pause"] /\ m_context' = m_context
            /\ m_coroutines' = m_coroutines
        BY <1>2, <2>1, <2>3, <4>1 DEF SettleFunction, GoesBack, LetGo
      <4>3. QED
        BY <1>1, <1>5, <4>1, <4>2 DEF TypeOK
    <3>3. CASE m_state[c] # "ready" /\ EndedAs(c)
      <4>1. m_state[c] \in {"terminate", "error"} /\ c \notin holders /\ m_context[c] = "done"
        BY <1>4, <3>3 DEF YieldedAs, EndedAs
      <4>2. /\ m_state' = m_state \/ m_state' = [m_state EXCEPT ![c] = "pause"]
            /\ m_context' = [m_context EXCEPT ![c] = "freed"]
            /\ m_coroutines' = m_coroutines
        BY <1>1, <1>2, <2>1, <2>3, <4>1 DEF SettleFunction, GoesBack, LetGo, TypeOK
      <4>3. QED
        BY <1>1, <1>5, <4>1, <4>2 DEF TypeOK
    <3>4. QED
      BY <1>4, <3>1, <3>2, <3>3
  <2>4. QED
    BY <2>2, <2>3
<1>8. InBody(w)'
  BY <1>6 DEF InBody
<1>9. m_context'[c] # "lost"
  BY <1>7
<1>10. QED
  BY <1>1, <1>2, <1>5, <1>6, <1>7, <1>8, <1>9, HandStep

(* The steps a thread takes with a task in its hands.                      *)
LEMMA BodyStep ==
  ASSUME Client = {}, Placed, Lifecycle, NEW w \in Workers,
         Body(w) \/ RunCoroutine(w) \/ RunFunction(w) \/ SkipTerminated(w)
  PROVE  Lifecycle'
<1>0. TypeOK
  BY DEF Placed, Typed
<1>1. pc[w] \in {"picked", "body", "yielding", "returning"}
  BY DEF Body, RunCoroutine, RunFunction, SkipTerminated, Publish, UseAfterFree,
     ConstructAndDispatch, Yield, Finish, SwapOut
<1>2. temp[w] \in Entry
  BY <1>1 DEF Placed, Typed, HandsFull, OnStack
<1>3. PICK c \in Tasks : c = temp[w].task
  BY <1>2, <1>0, EntryFacts
<1>4. /\ pc[w] = "picked" => Resumable(temp[w])
      /\ pc[w] \in {"body", "yielding"} => cur_fiber[w] = c
      /\ pc[w] \in {"body", "yielding", "returning"} => m_context[c] = "live"
      /\ pc[w] = "yielding" => YieldedAs(c)
      /\ pc[w] = "returning" => EndedAs(c)
  BY <1>3 DEF Lifecycle, InBody
<1> DEFINE Alone ==
             /\ \A v \in Workers \ {w} : /\ pc'[v] = pc[v] /\ temp'[v] = temp[v]
                                         /\ cur_fiber'[v] = cur_fiber[v]
             /\ \A u \in Tasks \ {c} : /\ m_state'[u] = m_state[u]
                                       /\ m_context'[u] = m_context[u]
                                       /\ u \in holders => u \in holders'
                                       /\ u \in holders' => u \in holders
             /\ pin' = pin /\ m_coroutines' = m_coroutines /\ temp'[w] = temp[w]
<1>5. ASSUME Alone, InBody(w)', m_context'[c] # "lost" PROVE Lifecycle'
  BY <1>2, <1>3, <1>5, HandStep
<1>6. CASE RunCoroutine(w) \/ RunFunction(w)
  <2>1. RunCoroutine(w) => Resumable(temp[w]) /\ temp[w].kind = "coroutine"
    BY <1>4 DEF RunCoroutine
  <2>2. /\ m_state' = [m_state EXCEPT ![c] = "running"]
        /\ m_context' = [m_context EXCEPT ![c] = "live"]
        /\ cur_fiber' = [cur_fiber EXCEPT ![w] = c]
        /\ pc' = [pc EXCEPT ![w] = "body"]
        /\ UNCHANGED <<m_coroutines, temp, holders, pin>>
    BY <1>3, <1>6, <2>1 DEF RunCoroutine, RunFunction, Resumable, Goto
  <2>3. Alone
    BY <1>0, <2>2 DEF TypeOK
  <2>4. pc'[w] = "body" /\ cur_fiber'[w] = c /\ m_context'[c] = "live" /\ temp'[w] = temp[w]
    BY <1>0, <2>2 DEF TypeOK
  <2>5. InBody(w)'
    BY <1>3, <2>4 DEF InBody
  <2>6. QED
    BY <1>5, <2>3, <2>4, <2>5
<1>7. CASE SkipTerminated(w)
  BY <1>3, <1>4, <1>7 DEF SkipTerminated, Enterable, Resumable
<1>8. CASE Publish(w)
  <2>1. /\ pc[w] = "body" /\ holders' = holders \cup {c}
        /\ UNCHANGED <<m_coroutines, pc, temp, cur_fiber, m_state, m_context, pin>>
    BY <1>4, <1>8 DEF Publish
  <2>2. Alone
    BY <2>1
  <2>3. InBody(w)'
    BY <1>3, <1>4, <2>1 DEF InBody
  <2>4. QED
    BY <1>4, <1>5, <2>1, <2>2, <2>3
<1>9. CASE UseAfterFree(w)
  BY <1>4, <1>9 DEF UseAfterFree, Destroyed
<1>10. ASSUME NEW t \in Tasks, NEW tid \in Pins, ConstructAndDispatch(w, t, tid)
       PROVE  Lifecycle'
  BY <1>10 DEF ConstructAndDispatch
<1>11. ASSUME NEW s \in {"ready", "pause"}, Yield(w, s)
       PROVE  Lifecycle'
  <2>1. /\ pc[w] = "body" /\ pc' = [pc EXCEPT ![w] = "yielding"]
        /\ m_state' = [m_state EXCEPT ![c] = s]
        /\ s = "pause" => c \in holders
        /\ UNCHANGED <<m_coroutines, temp, cur_fiber, m_context, holders, pin>>
    BY <1>4, <1>11 DEF Yield, Goto
  <2>2. Alone
    BY <1>0, <2>1 DEF TypeOK
  <2>3. pc'[w] = "yielding" /\ m_state'[c] = s
    BY <1>0, <2>1 DEF TypeOK
  <2>4. InBody(w)'
    BY <1>3, <1>4, <2>1, <2>3 DEF InBody, YieldedAs
  <2>5. QED
    BY <1>4, <1>5, <2>1, <2>2, <2>4
<1>12. ASSUME NEW s \in {"terminate", "error"}, Finish(w, s)
       PROVE  Lifecycle'
  <2>1. /\ pc[w] = "body" /\ pc' = [pc EXCEPT ![w] = "returning"]
        /\ m_state' = [m_state EXCEPT ![c] = s] /\ c \notin holders
        /\ UNCHANGED <<m_coroutines, temp, cur_fiber, m_context, holders, pin>>
    BY <1>3, <1>12 DEF Finish, Goto
  <2>2. Alone
    BY <1>0, <2>1 DEF TypeOK
  <2>3. pc'[w] = "returning" /\ m_state'[c] = s
    BY <1>0, <2>1 DEF TypeOK
  <2>4. InBody(w)'
    BY <1>3, <1>4, <2>1, <2>3 DEF InBody, EndedAs
  <2>5. QED
    BY <1>4, <1>5, <2>1, <2>2, <2>4
<1>13. CASE SwapOut(w)
  <2>1. PICK s \in {"saved", "done"} :
          /\ m_context' = [m_context EXCEPT ![c] = s]
          /\ s = "saved" => YieldedAs(c)
          /\ s = "done" => EndedAs(c)
    BY <1>3, <1>4, <1>13 DEF SwapOut
  <2>2. /\ pc' = [pc EXCEPT ![w] = "settle"] /\ cur_fiber' = [cur_fiber EXCEPT ![w] = "main"]
        /\ UNCHANGED <<m_coroutines, temp, m_state, holders, pin>>
    BY <1>13 DEF SwapOut, Goto
  <2>3. Alone
    BY <1>0, <2>1, <2>2 DEF TypeOK
  <2>4. pc'[w] = "settle" /\ m_context'[c] = s
    BY <1>0, <2>1, <2>2 DEF TypeOK
  <2>5. InBody(w)'
    BY <1>3, <2>1, <2>2, <2>4 DEF InBody, YieldedAs, EndedAs
  <2>6. QED
    BY <1>5, <2>3, <2>4, <2>5
<1>14. QED
  BY <1>6, <1>7, <1>8, <1>9, <1>10, <1>11, <1>12, <1>13 DEF Body

LEMMA LifecycleStep ==
  ASSUME Client = {}, Placed, FunctionIsNew, Lifecycle, [Next]_vars
  PROVE  Lifecycle'
<1>1. CASE Clients
  BY <1>1, DispatchStep, ResumeStep DEF Clients
<1>2. ASSUME NEW w \in Workers, RunLoop(w) PROVE Lifecycle'
  BY <1>2, LoopStep, TakeStep, SettleStep, BodyStep DEF RunLoop
<1>3. ASSUME NEW w \in Workers, Body(w) PROVE Lifecycle'
  BY <1>3, BodyStep
<1>4. CASE UNCHANGED vars
  <2>1. UNCHANGED <<m_coroutines, pc, temp, cur_fiber, m_state, m_context, holders, pin>>
    BY <1>4 DEF vars
  <2>2. QED
    BY <2>1 DEF Lifecycle, Resumable, InBody, YieldedAs, EndedAs, Elsewhere, NoLostTask,
       Queued, InHand, Holding
<1>5. QED
  BY <1>1, <1>2, <1>3, <1>4 DEF Next

LEMMA LifecycleHolds ==
  ASSUME Client = {}
  PROVE  Spec => [](Placed /\ FunctionIsNew /\ Lifecycle)
<1>1. Placed /\ [Next]_vars => Placed'
  BY PlacedStep
<1>2. Placed /\ FunctionIsNew /\ [Next]_vars => FunctionIsNew'
  BY FunctionIsNewStep
<1>3. Placed /\ FunctionIsNew /\ Lifecycle /\ [Next]_vars => Lifecycle'
  BY LifecycleStep
<1>4. QED
  BY <1>1, <1>2, <1>3, PlacedInit, FunctionIsNewInit, LifecycleInit, PTL DEF Spec

(* With disciplined clients no thread ever jumps into a context that has   *)
(* switched out for the last time: it jumps into no wrong context at all.  *)
THEOREM DeadAreNotResumed ==
  ASSUME Client = {}
  PROVE  Spec => []NoDeadResume
<1>1. Lifecycle => NoDeadResume
  BY DEF Lifecycle, InBody, NoDeadResume
<1>2. QED
  BY <1>1, LifecycleHolds, PTL

(* With disciplined clients every coroutine run() lets go of before its    *)
(* body has ended is in the queue or with somebody who can resume it.      *)
THEOREM TasksAreKept ==
  ASSUME Client = {}
  PROVE  Spec => []NoLostTask
<1>1. Lifecycle => NoLostTask
  BY DEF Lifecycle
<1>2. QED
  BY <1>1, LifecycleHolds, PTL

-----------------------------------------------------------------------------
(* With disciplined clients run() implements the abstract pool.            *)

Status == [t \in Tasks |-> StatusOf(t)]
Runner == [t \in Tasks |-> RunnerOf(t)]

(* The thread a task runs on is the one that holds it: nobody else does.   *)
LEMMA RunnerIs ==
  ASSUME HandsDistinct, NEW t \in Tasks, NEW w \in Workers, Runs(w, t)
  PROVE  RunnerOf(t) = w
<1>1. RunnerOf(t) \in Workers /\ Runs(RunnerOf(t), t)
  BY DEF RunnerOf
<1>2. QED
  BY <1>1 DEF HandsDistinct, Runs

LEMMA RunnerIsNext ==
  ASSUME HandsDistinct', NEW t \in Tasks, NEW w \in Workers, Runs(w, t)'
  PROVE  RunnerOf(t)' = w
<1>1. RunnerOf(t)' \in Workers /\ Runs(RunnerOf(t), t)'
  BY DEF RunnerOf
<1>2. QED
  BY <1>1 DEF HandsDistinct, Runs

(* A task that stays where it is keeps its status and its thread.          *)
LEMMA StatusKept ==
  ASSUME HandsDistinct, HandsDistinct', NEW u \in Tasks, pin'[u] = pin[u],
         \A w \in Workers : Runs(w, u)' <=> Runs(w, u),
         Queued(u)' \/ InHand(u)' <=> Queued(u) \/ InHand(u),
         (\E w \in Workers : Runs(w, u)) \/ m_context'[u] = m_context[u]
  PROVE  StatusOf(u)' = StatusOf(u) /\ RunnerOf(u)' = RunnerOf(u)
<1>1. StatusOf(u)' = StatusOf(u)
  BY DEF StatusOf
<1>2. CASE \E w \in Workers : Runs(w, u)
  <2>1. PICK w \in Workers : Runs(w, u)
    BY <1>2
  <2>2. RunnerOf(u) = w /\ RunnerOf(u)' = w
    BY <2>1, RunnerIs, RunnerIsNext
  <2>3. QED
    BY <1>1, <2>2
<1>3. CASE ~ \E w \in Workers : Runs(w, u)
  <2>1. ~ \E w \in Workers : Runs(w, u)'
    BY <1>3
  <2>2. RunnerOf(u) = AnyThread /\ RunnerOf(u)' = AnyThread
    BY <1>3, <2>1 DEF RunnerOf
  <2>3. QED
    BY <1>1, <2>2
<1>4. QED
  BY <1>2, <1>3

(* A step that changes the status of one task at most.                     *)
LEMMA OneChanges ==
  ASSUME NEW c \in Tasks,
         \A u \in Tasks \ {c} : StatusOf(u)' = StatusOf(u) /\ RunnerOf(u)' = RunnerOf(u)
  PROVE  /\ Status' = [Status EXCEPT ![c] = StatusOf(c)']
         /\ Runner' = [Runner EXCEPT ![c] = RunnerOf(c)']
  BY DEF Status, Runner

LEMMA NoneChanges ==
  ASSUME \A u \in Tasks : StatusOf(u)' = StatusOf(u) /\ RunnerOf(u)' = RunnerOf(u)
  PROVE  Status' = Status /\ Runner' = Runner
  BY DEF Status, Runner

LEMMA PoolInitial == Init => Pool!PoolInit
<1> SUFFICES ASSUME Init PROVE Pool!PoolInit
  OBVIOUS
<1>1. ASSUME NEW t \in Tasks PROVE StatusOf(t) = "new" /\ RunnerOf(t) = AnyThread
  BY <1>1 DEF Init, StatusOf, RunnerOf, Runs, Holding
<1>2. QED
  BY <1>1 DEF Pool!PoolInit

(* The steps that hand a task in or resume it.                             *)
LEMMA ClientRefines ==
  ASSUME "eager" \notin Client, Placed, Placed', Lifecycle, Clients
  PROVE  Pool!PoolNext
<1>0. TypeOK /\ HandsDistinct /\ HandsDistinct'
  BY DEF Placed, Typed, Placement, OnePlace
<1>1. PICK c \in Tasks, kind \in Kinds, tid \in Workers \cup {AnyThread} :
        \/ Dispatch(c, kind, tid)
        \/ Resume(c) /\ kind = "coroutine" /\ tid = AnyThread
  BY ScheduleAssumption DEF Clients, Kinds
<1>2. /\ Push(c, kind, tid)
      /\ UNCHANGED <<pc, temp>>
      /\ \A u \in Tasks \ {c} : pin'[u] = pin[u] /\ m_context'[u] = m_context[u]
  BY <1>0, <1>1 DEF Dispatch, Resume, TypeOK
<1>3. \A u \in Tasks : Queued(u)' <=> Queued(u) \/ u = c
  BY <1>0, <1>2, PushEntries
<1>4. \A u \in Tasks, w \in Workers : /\ Runs(w, u)' <=> Runs(w, u)
                                      /\ Holding(w, u)' <=> Holding(w, u)
  BY <1>2 DEF Runs, Holding
<1>5. \A u \in Tasks \ {c} : StatusOf(u)' = StatusOf(u) /\ RunnerOf(u)' = RunnerOf(u)
  BY <1>0, <1>2, <1>3, <1>4, StatusKept DEF InHand
<1>6. ~InHand(c) /\ ~Queued(c) /\ pin'[c] # NoTask
  BY <1>0, <1>1, ScheduleAssumption
     DEF Dispatch, Resume, Placed, Placement, NewIsNowhere, TypeOK
<1>7. \A w \in Workers : ~Runs(w, c)
  BY <1>6 DEF Runs, InHand
<1>8. StatusOf(c)' = "queued" /\ RunnerOf(c)' = RunnerOf(c)
  BY <1>3, <1>4, <1>6, <1>7 DEF StatusOf, RunnerOf
<1>9. /\ Status' = [Status EXCEPT ![c] = "queued"]
      /\ Runner' = [Runner EXCEPT ![c] = RunnerOf(c)]
  BY <1>5, <1>8, OneChanges
<1>10. Runner' = Runner
  BY <1>9 DEF Runner
<1>11. CASE Dispatch(c, kind, tid)
  <2>1. Status[c] = "new"
    BY <1>11 DEF Dispatch, Status, StatusOf
  <2>2. Pool!Submit(c)
    BY <1>9, <1>10, <2>1 DEF Pool!Submit, Status, Runner
  <2>3. QED
    BY <2>2 DEF Pool!PoolNext
<1>12. CASE Resume(c)
  <2>1. Elsewhere(c) /\ c \in holders
    BY <1>6, <1>12 DEF Resume, Elsewhere
  <2>2. Status[c] = "suspended"
    BY <1>7, <2>1 DEF Lifecycle, Elsewhere, Status, StatusOf
  <2>3. Pool!Resume(c)
    BY <1>9, <1>10, <2>2 DEF Pool!Resume, Status, Runner
  <2>4. QED
    BY <2>3 DEF Pool!PoolNext
<1>13. QED
  BY <1>1, <1>11, <1>12

(* The steps of a thread that has no task in its hands, and the scan.      *)
LEMMA LoopRefines ==
  ASSUME Placed, Placed', Lifecycle, NEW w \in Workers,
         \/ Begin(w) \/ FindNothing(w) \/ Exit(w) \/ EnterIdle(w) \/ LeaveIdle(w)
         \/ Take(w)
  PROVE  Status' = Status /\ Runner' = Runner
<1>0. TypeOK /\ HandsDistinct /\ HandsDistinct'
  BY DEF Placed, Typed, Placement, OnePlace
<1>1. /\ UNCHANGED <<m_context, pin>>
      /\ \A v \in Workers \ {w} : pc'[v] = pc[v] /\ temp'[v] = temp[v]
      /\ pc[w] \notin OnStack \cup {"settle"}
      /\ pc'[w] \notin OnStack \cup {"settle"}
  BY <1>0 DEF Begin, FindNothing, Exit, EnterIdle, LeaveIdle, Take, Goto, TypeOK, OnStack
<1>2. \A u \in Tasks, v \in Workers : Runs(v, u)' <=> Runs(v, u)
  BY <1>1 DEF Runs, Holding
<1>3. ASSUME NEW u \in Tasks
      PROVE  Queued(u)' \/ InHand(u)' <=> Queued(u) \/ InHand(u)
  <2>1. CASE Take(w)
    <3>1. PICK i \in 1..Len(m_coroutines) :
            /\ temp' = [temp EXCEPT ![w] = m_coroutines[i]]
            /\ m_coroutines' = RemoveAt(m_coroutines, i)
      BY <2>1 DEF Take, EligibleAt
    <3>2. /\ temp[w] = NoTask /\ temp'[w] = m_coroutines[i]
          /\ m_coroutines[i] \in Entry
      BY <1>0, <2>1, <3>1, EntryFacts DEF Take, Lifecycle, InBody, TypeOK
    <3>3. InHand(u)' <=> InHand(u) \/ u = m_coroutines[i].task
      BY <1>0, <1>1, <3>2, EntryFacts DEF InHand, Holding
    <3>4. Queued(u) <=> Queued(u)' \/ u = m_coroutines[i].task
      <4>1. Queued(u) => Queued(u)' \/ u = m_coroutines[i].task
        BY <1>0, <3>1, RemoveEntries
      <4>2. Queued(u)' => Queued(u)
        BY <3>1, RemovePlaced
      <4>3. QED
        BY <4>1, <4>2 DEF Queued
    <3>5. QED
      BY <3>3, <3>4
  <2>2. CASE ~Take(w)
    <3>1. UNCHANGED <<m_coroutines, temp>>
      BY <2>2 DEF Begin, FindNothing, Exit, EnterIdle, LeaveIdle
    <3>2. QED
      BY <3>1 DEF Queued, InHand, Holding
  <2>3. QED
    BY <2>1, <2>2
<1>4. QED
  BY <1>0, <1>1, <1>2, <1>3, StatusKept, NoneChanges

(* The steps of a thread with a task in its hands: entering it starts it,  *)
(* looking at its state afterwards lets go of it, and between the two the  *)
(* abstract pool sees nothing.                                             *)
LEMMA HandRefines ==
  ASSUME Client = {}, Placed, Placed', Lifecycle, NEW w \in Workers,
         \/ Body(w) \/ RunCoroutine(w) \/ RunFunction(w) \/ SkipTerminated(w)
         \/ SettleCoroutine(w) \/ SettleFunction(w)
  PROVE  Pool!PoolNext \/ (Status' = Status /\ Runner' = Runner)
<1>0. TypeOK /\ HandsDistinct /\ HandsDistinct'
  BY DEF Placed, Typed, Placement, OnePlace
<1>1. pc[w] \in {"picked", "body", "yielding", "returning", "settle"}
  BY DEF Body, RunCoroutine, RunFunction, SkipTerminated, Publish, UseAfterFree,
     ConstructAndDispatch, Yield, Finish, SwapOut, SettleCoroutine, SettleFunction
<1>2. temp[w] \in Entry
  BY <1>1 DEF Placed, Typed, HandsFull, OnStack
<1>3. PICK c \in Tasks : c = temp[w].task
  BY <1>0, <1>2, EntryFacts
<1>4. /\ Holding(w, c) /\ InHand(c) /\ ~Queued(c) /\ pin[c] # NoTask
      /\ \A v \in Workers \ {w} : ~Holding(v, c)
      /\ \A u \in Tasks \ {c} : ~Holding(w, u)
  <2>1. Holding(w, c) /\ \A u \in Tasks \ {c} : ~Holding(w, u)
    BY <1>0, <1>2, <1>3, EntryFacts DEF Holding
  <2>2. QED
    BY <2>1, PlacedIsDispatched
       DEF InHand, Placed, Placement, OnePlace, QueueOrHand, HandsDistinct
<1>5. /\ pc[w] = "picked" => Resumable(temp[w])
      /\ pc[w] \in {"body", "yielding"} => cur_fiber[w] = c
      /\ pc[w] \in {"body", "yielding", "returning"} => m_context[c] = "live"
  BY <1>3 DEF Lifecycle, InBody
<1> DEFINE Others ==
             /\ \A v \in Workers \ {w} : pc'[v] = pc[v] /\ temp'[v] = temp[v]
             /\ \A u \in Tasks \ {c} : ~Holding(w, u)' /\ m_context'[u] = m_context[u]
             /\ \A u \in Tasks \ {c} : Queued(u)' <=> Queued(u)
             /\ pin' = pin
<1>6. ASSUME Others
      PROVE  \A u \in Tasks \ {c} : StatusOf(u)' = StatusOf(u) /\ RunnerOf(u)' = RunnerOf(u)
  <2>1. \A u \in Tasks \ {c}, v \in Workers : /\ Runs(v, u)' <=> Runs(v, u)
                                              /\ Holding(v, u)' <=> Holding(v, u)
    BY <1>4, <1>6 DEF Runs, Holding
  <2>2. QED
    BY <1>0, <1>6, <2>1, StatusKept DEF InHand
<1>7. ASSUME UNCHANGED <<m_coroutines, temp, pin>>,
             \A v \in Workers \ {w} : pc'[v] = pc[v],
             \A u \in Tasks \ {c} : m_context'[u] = m_context[u]
      PROVE  Others /\ Holding(w, c)'
  BY <1>4, <1>7 DEF Queued, Holding
<1>8. CASE RunCoroutine(w) \/ RunFunction(w)
  <2>1. RunCoroutine(w) => Resumable(temp[w]) /\ temp[w].kind = "coroutine"
    BY <1>5 DEF RunCoroutine
  <2>2. /\ m_context' = [m_context EXCEPT ![c] = "live"]
        /\ pc[w] = "picked" /\ pc' = [pc EXCEPT ![w] = "body"]
        /\ UNCHANGED <<m_coroutines, temp, pin>>
    BY <1>3, <1>8, <2>1 DEF RunCoroutine, RunFunction, Resumable, Goto
  <2>3. /\ pc'[w] = "body"
        /\ \A v \in Workers \ {w} : pc'[v] = pc[v]
        /\ \A u \in Tasks \ {c} : m_context'[u] = m_context[u]
    BY <1>0, <2>2 DEF TypeOK
  <2>4. Others /\ Holding(w, c)'
    BY <1>7, <2>2, <2>3
  <2>5. \A v \in Workers : ~Runs(v, c)
    BY <1>4, <2>2 DEF Runs, OnStack
  <2>6. Runs(w, c)'
    BY <2>3, <2>4 DEF Runs, OnStack
  <2>7. Status[c] = "queued"
    BY <1>4, <2>5 DEF Status, StatusOf
  <2>8. StatusOf(c)' = "running" /\ RunnerOf(c)' = w
    BY <1>0, <1>4, <2>4, <2>6, RunnerIsNext DEF StatusOf
  <2>9. ASSUME NEW u \in Tasks PROVE Runner[u] # w
    <3>1. ~Runs(w, u)
      BY <2>2 DEF Runs, OnStack
    <3>2. CASE \E v \in Workers : Runs(v, u)
      BY <1>0, <3>1, <3>2, RunnerIs DEF Runner
    <3>3. CASE ~ \E v \in Workers : Runs(v, u)
      BY <3>3, ScheduleAssumption DEF Runner, RunnerOf
    <3>4. QED
      BY <3>2, <3>3
  <2>10. /\ Status' = [Status EXCEPT ![c] = "running"]
         /\ Runner' = [Runner EXCEPT ![c] = w]
    BY <1>6, <2>4, <2>8, OneChanges
  <2>11. Pool!Start(c, w)
    BY <2>7, <2>9, <2>10 DEF Pool!Start, Status, Runner
  <2>12. QED
    BY <2>11 DEF Pool!PoolNext
<1>9. CASE SettleCoroutine(w) \/ SettleFunction(w)
  <2>1. /\ pc[w] = "settle" /\ pc' = [pc EXCEPT ![w] = "scan"]
        /\ temp' = [temp EXCEPT ![w] = NoTask] /\ pin' = pin
        /\ m_coroutines' = m_coroutines \/ Push(c, "coroutine", AnyThread)
    BY <1>3, <1>9 DEF SettleCoroutine, SettleFunction, Goto
  <2>2. \A u \in Tasks \ {c} : m_context'[u] = m_context[u]
    BY <1>0, <1>3, <1>9 DEF SettleCoroutine, SettleFunction, LetGo, TypeOK
  <2>3. \A u \in Tasks \ {c} : Queued(u)' <=> Queued(u)
    <3>1. CASE m_coroutines' = m_coroutines
      BY <3>1 DEF Queued
    <3>2. CASE Push(c, "coroutine", AnyThread)
      BY <1>0, <3>2, PushEntries DEF Kinds
    <3>3. QED
      BY <2>1, <3>1, <3>2
  <2>4. /\ pc'[w] = "scan" /\ temp'[w] = NoTask
        /\ \A v \in Workers \ {w} : pc'[v] = pc[v] /\ temp'[v] = temp[v]
    BY <1>0, <2>1 DEF TypeOK
  <2>5. Others
    BY <2>1, <2>2, <2>3, <2>4 DEF Holding
  <2>6. Runs(w, c)
    BY <1>4, <2>1 DEF Runs
  <2>7. Status[c] = "running"
    BY <1>4, <2>6 DEF Status, StatusOf
  <2>8. \A v \in Workers : ~Runs(v, c)'
    BY <1>4, <2>4 DEF Runs, Holding
  <2>9. /\ StatusOf(c)' \in {"queued", "suspended", "finished"}
        /\ RunnerOf(c)' = AnyThread
    BY <1>4, <2>1, <2>8 DEF StatusOf, RunnerOf
  <2>10. /\ Status' = [Status EXCEPT ![c] = StatusOf(c)']
         /\ Runner' = [Runner EXCEPT ![c] = AnyThread]
    BY <1>6, <2>5, <2>9, OneChanges
  <2>11. Pool!Leave(c)
    BY <2>7, <2>9, <2>10 DEF Pool!Leave, Status, Runner
  <2>12. QED
    BY <2>11 DEF Pool!PoolNext
<1>10. ASSUME UNCHANGED <<m_coroutines, temp, pin>>,
              \A v \in Workers \ {w} : pc'[v] = pc[v],
              \A u \in Tasks \ {c} : m_context'[u] = m_context[u],
              pc[w] \in OnStack, pc'[w] \in OnStack \cup {"settle"}
       PROVE  Status' = Status /\ Runner' = Runner
  <2>1. Others /\ Holding(w, c)'
    BY <1>7, <1>10
  <2>2. Runs(w, c) /\ Runs(w, c)'
    BY <1>4, <1>10, <2>1 DEF Runs
  <2>3. StatusOf(c)' = StatusOf(c) /\ RunnerOf(c)' = RunnerOf(c)
    BY <1>0, <1>4, <2>1, <2>2, RunnerIs, RunnerIsNext DEF StatusOf
  <2>4. QED
    BY <1>6, <2>1, <2>3, NoneChanges
<1>11. ASSUME NEW label \in OnStack \cup {"settle"},
              \/ Publish(w) /\ label = "body"
              \/ \E s \in {"ready", "pause"} : Yield(w, s) /\ label = "yielding"
              \/ \E s \in {"terminate", "error"} : Finish(w, s) /\ label = "returning"
              \/ SwapOut(w) /\ label = "settle"
       PROVE  Status' = Status /\ Runner' = Runner
  <2>1. /\ UNCHANGED <<m_coroutines, temp, pin>>
        /\ pc[w] \in OnStack
        /\ pc' = [pc EXCEPT ![w] = label]
    BY <1>0, <1>11 DEF Publish, Yield, Finish, SwapOut, Goto, OnStack, TypeOK
  <2>2. \A u \in Tasks \ {c} : m_context'[u] = m_context[u]
    BY <1>0, <1>3, <1>5, <1>11 DEF Publish, Yield, Finish, SwapOut, TypeOK
  <2>3. pc'[w] = label /\ \A v \in Workers \ {w} : pc'[v] = pc[v]
    BY <1>0, <2>1 DEF TypeOK
  <2>4. QED
    BY <1>10, <2>1, <2>2, <2>3
<1>12. ~SkipTerminated(w) /\ ~UseAfterFree(w)
  BY <1>3, <1>5
     DEF SkipTerminated, Enterable, Resumable, UseAfterFree, Destroyed
<1>13. ASSUME NEW t \in Tasks, NEW tid \in Pins PROVE ~ConstructAndDispatch(w, t, tid)
  BY DEF ConstructAndDispatch
<1>14. QED
  BY <1>8, <1>9, <1>11, <1>12, <1>13 DEF Body, OnStack

(* The scheduler keeps the promise TaskPool makes: no task is run by two   *)
(* threads at once, comes back after it is over, or is queued without      *)
(* having been submitted, suspended and resumed, or sent back by its own   *)
(* yield; a thread runs one task at a time.                                *)
THEOREM PoolImplemented ==
  ASSUME Client = {}
  PROVE  Spec => ImplementsPool
<1> DEFINE Inv == Placed /\ FunctionIsNew /\ Lifecycle
<1>1. Spec => []Inv
  BY LifecycleHolds
<1>2. Inv /\ Inv' /\ [Next]_vars => [Pool!PoolNext]_(Pool!poolVars)
  <2> SUFFICES ASSUME Inv, Inv', [Next]_vars
               PROVE  Pool!PoolNext \/ (Status' = Status /\ Runner' = Runner)
    BY DEF Pool!poolVars, Status, Runner
  <2>1. CASE Clients
    BY <2>1, ClientRefines
  <2>2. ASSUME NEW w \in Workers, RunLoop(w)
        PROVE  Pool!PoolNext \/ (Status' = Status /\ Runner' = Runner)
    BY <2>2, LoopRefines, HandRefines DEF RunLoop
  <2>3. ASSUME NEW w \in Workers, Body(w)
        PROVE  Pool!PoolNext \/ (Status' = Status /\ Runner' = Runner)
    BY <2>3, HandRefines
  <2>4. CASE UNCHANGED vars
    <3>1. UNCHANGED <<m_coroutines, pc, temp, m_context, pin>>
      BY <2>4 DEF vars
    <3>2. QED
      BY <3>1 DEF Status, Runner, StatusOf, RunnerOf, Runs, Queued, InHand, Holding
  <2>5. QED
    BY <2>1, <2>2, <2>3, <2>4 DEF Next
<1>3. Spec => [][Pool!PoolNext]_(Pool!poolVars)
  BY <1>1, <1>2, PTL DEF Spec
<1>4. Spec => Pool!PoolInit
  BY PoolInitial DEF Spec
<1>5. QED
  BY <1>3, <1>4 DEF ImplementsPool, Pool!PoolSpec

-----------------------------------------------------------------------------
(* ThreadPool: how the threads that execute run() are made and given up.   *)

(* The states between which start() and stop() move: initially nothing is  *)
(* created, recorded or joined.                                            *)
LEMMA PoolInvInit == PoolInit => PoolInv
<1> SUFFICES ASSUME PoolInit PROVE PoolInv
  OBVIOUS
<1> USE DEF PoolInit, Threads
<1>1. m_threadsnum \in Nat \ {0}
  BY ThreadPoolAssumption
<1>2. PoolTypeOK
  <2>1. m_threads_id \in Seq(0..m_threadsnum)
    BY EmptySeq
  <2>2. client \in ClientAt /\ m_mutex \in BOOLEAN
    BY DEF ClientAt
  <2>3. /\ m_count \in [Threads -> {0, 1}]
        /\ m_id \in [Threads -> 0..m_threadsnum]
        /\ thread \in [Threads -> ThreadAt]
    BY <1>1 DEF ThreadAt
  <2>4. created \in 0..m_threadsnum /\ joined \in 0..m_threadsnum
    BY <1>1
  <2>5. QED
    BY <2>1, <2>2, <2>3, <2>4 DEF PoolTypeOK
<1>3. StartHoldsMutex
  <2>1. m_mutex = FALSE /\ client = "new" /\ created = 0
    OBVIOUS
  <2>2. \A t \in Threads : thread[t] = "none" /\ t > created
    BY <1>1
  <2>3. m_mutex <=> client = "create" \/ InConstructor
    BY <2>1 DEF InConstructor
  <2>4. QED
    BY <1>1, <2>1, <2>2, <2>3 DEF StartHoldsMutex, InConstructor
<1>4. IdBeforeCount
  BY <1>1 DEF IdBeforeCount
<1>5. Recorded
  BY <1>1 DEF Recorded, InConstructor
<1>6. RunsBehindStart
  BY <1>1 DEF RunsBehindStart
<1>7. QED
  BY <1>2, <1>3, <1>4, <1>5, <1>6 DEF PoolInv

(* Each step of the client: start(), the constructor of Thread, stop() and *)
(* the destructor.                                                         *)
LEMMA PoolInvClient ==
  ASSUME PoolInv, ClientStep \/ SpuriousWake \/ Stop \/ Destroy
  PROVE  PoolInv'
<1> USE DEF Threads
<1>1. m_threadsnum \in Nat \ {0}
  BY ThreadPoolAssumption
<1> DEFINE All == /\ StartHoldsMutex /\ IdBeforeCount /\ RunsBehindStart
<1>2. PoolTypeOK /\ All /\ Recorded
  BY DEF PoolInv
<1>3. CASE Start
  <2>1. PoolTypeOK'
    BY <1>1, <1>2, <1>3 DEF Start, PoolTypeOK, ClientAt
  <2>2. All'
    BY <1>1, <1>2, <1>3
       DEF Start, PoolTypeOK, StartHoldsMutex, IdBeforeCount, RunsBehindStart, InConstructor
  <2>3. Recorded'
    BY <1>1, <1>2, <1>3 DEF Start, Recorded, InConstructor
  <2>4. QED
    BY <2>1, <2>2, <2>3 DEF PoolInv
<1>4. CASE Create
  <2>1. PoolTypeOK'
    BY <1>1, <1>2, <1>4 DEF Create, PoolTypeOK, ClientAt, ThreadAt
  <2>2. All'
    BY <1>1, <1>2, <1>4
       DEF Create, PoolTypeOK, StartHoldsMutex, IdBeforeCount, RunsBehindStart, InConstructor
  <2>3. Recorded'
    BY <1>1, <1>2, <1>4 DEF Create, PoolTypeOK, Recorded, InConstructor
  <2>4. QED
    BY <2>1, <2>2, <2>3 DEF PoolInv
<1>5. CASE Check
  <2>1. created \in 1..m_threadsnum
    BY <1>1, <1>2, <1>5 DEF Check, PoolTypeOK, StartHoldsMutex, InConstructor
  <2>2. PoolTypeOK'
    BY <1>1, <1>2, <1>5, <2>1 DEF Check, PoolTypeOK, ClientAt
  <2>3. All'
    BY <1>1, <1>2, <1>5, <2>1
       DEF Check, PoolTypeOK, StartHoldsMutex, IdBeforeCount, RunsBehindStart, InConstructor
  <2>4. Recorded'
    BY <1>1, <1>2, <1>5 DEF Check, Recorded, InConstructor
  <2>5. QED
    BY <2>2, <2>3, <2>4 DEF PoolInv
<1>6. CASE Block \/ SpuriousWake
  <2>1. PoolTypeOK'
    BY <1>1, <1>2, <1>6 DEF Block, SpuriousWake, PoolTypeOK, ClientAt
  <2>2. All'
    BY <1>1, <1>2, <1>6
       DEF Block, SpuriousWake, PoolTypeOK, StartHoldsMutex, IdBeforeCount,
           RunsBehindStart, InConstructor
  <2>3. Recorded'
    BY <1>1, <1>2, <1>6 DEF Block, SpuriousWake, Recorded, InConstructor
  <2>4. QED
    BY <2>1, <2>2, <2>3 DEF PoolInv
<1>7. CASE Record
  <2>1. created \in 1..m_threadsnum /\ m_id[created] = created
    BY <1>1, <1>2, <1>7
       DEF Record, PoolTypeOK, StartHoldsMutex, IdBeforeCount, InConstructor
  <2>2. /\ m_threads_id \in Seq(0..m_threadsnum)
        /\ Len(m_threads_id) = created - 1
        /\ m_threads_id' = Append(m_threads_id, created)
    BY <1>2, <1>7, <2>1 DEF Record, PoolTypeOK, Recorded, InConstructor
  <2>3. /\ m_threads_id' \in Seq(0..m_threadsnum)
        /\ Len(m_threads_id') = created
        /\ \A i \in 1..created :
             m_threads_id'[i] = IF i < created THEN m_threads_id[i] ELSE created
    BY <1>1, <2>1, <2>2
  <2>4. PoolTypeOK'
    BY <1>1, <1>2, <1>7, <2>3 DEF Record, PoolTypeOK, ClientAt
  <2>5. All'
    BY <1>1, <1>2, <1>7
       DEF Record, PoolTypeOK, StartHoldsMutex, IdBeforeCount, RunsBehindStart, InConstructor
  <2>6. Recorded'
    BY <1>1, <1>2, <1>7, <2>1, <2>2, <2>3 DEF Record, Recorded, InConstructor
  <2>7. QED
    BY <2>4, <2>5, <2>6 DEF PoolInv
<1>8. CASE Started
  <2>1. PoolTypeOK'
    BY <1>1, <1>2, <1>8 DEF Started, PoolTypeOK, ClientAt
  <2>2. All'
    BY <1>1, <1>2, <1>8
       DEF Started, PoolTypeOK, StartHoldsMutex, IdBeforeCount, RunsBehindStart, InConstructor
  <2>3. Recorded'
    BY <1>1, <1>2, <1>8 DEF Started, Recorded, InConstructor
  <2>4. QED
    BY <2>1, <2>2, <2>3 DEF PoolInv
<1>9. CASE Join
  <2>1. PoolTypeOK'
    BY <1>1, <1>2, <1>9 DEF Join, PoolTypeOK
  <2>2. All'
    BY <1>1, <1>2, <1>9
       DEF Join, PoolTypeOK, StartHoldsMutex, IdBeforeCount, RunsBehindStart, InConstructor
  <2>3. Recorded'
    BY <1>1, <1>2, <1>9 DEF Join, Recorded, InConstructor
  <2>4. QED
    BY <2>1, <2>2, <2>3 DEF PoolInv
<1>10. CASE Stopped \/ Stop \/ Destroy
  <2>1. PoolTypeOK'
    BY <1>1, <1>2, <1>10 DEF Stopped, Stop, Destroy, PoolTypeOK, ClientAt
  <2>2. All'
    BY <1>1, <1>2, <1>10
       DEF Stopped, Stop, Destroy, PoolTypeOK, StartHoldsMutex, IdBeforeCount,
           RunsBehindStart, InConstructor
  <2>3. Recorded'
    BY <1>1, <1>2, <1>10 DEF Stopped, Stop, Destroy, Recorded, InConstructor
  <2>4. QED
    BY <2>1, <2>2, <2>3 DEF PoolInv
<1>11. QED
  BY <1>3, <1>4, <1>5, <1>6, <1>7, <1>8, <1>9, <1>10 DEF ClientStep

(* Each step of a thread.  That a thread leaves EnterRun only behind       *)
(* start() is where m_mutex comes in: a thread exists, so that start() has *)
(* begun, and does not hold m_mutex, so that it is over.                   *)
LEMMA PoolInvThread ==
  ASSUME PoolInv, NEW t \in Threads, ThreadStep(t) \/ LeaveRun(t)
  PROVE  PoolInv'
<1> USE DEF Threads
<1>1. m_threadsnum \in Nat \ {0}
  BY ThreadPoolAssumption
<1>2. PoolTypeOK /\ StartHoldsMutex /\ IdBeforeCount /\ Recorded /\ RunsBehindStart
  BY DEF PoolInv
<1>3. CASE SetId(t)
  <2>1. PoolTypeOK'
    BY <1>1, <1>2, <1>3 DEF SetId, PoolTypeOK, ThreadAt
  <2>2. StartHoldsMutex' /\ IdBeforeCount' /\ RunsBehindStart'
    BY <1>1, <1>2, <1>3
       DEF SetId, PoolTypeOK, StartHoldsMutex, IdBeforeCount, RunsBehindStart, InConstructor
  <2>3. Recorded'
    BY <1>2, <1>3 DEF SetId, Recorded, InConstructor
  <2>4. QED
    BY <2>1, <2>2, <2>3 DEF PoolInv
<1>4. CASE Count(t)
  <2>1. m_count[t] = 0
    BY <1>1, <1>2, <1>4 DEF Count, PoolTypeOK, IdBeforeCount
  <2>2. PoolTypeOK'
    BY <1>1, <1>2, <1>4, <2>1 DEF Count, PoolTypeOK, ThreadAt
  <2>3. StartHoldsMutex' /\ IdBeforeCount' /\ RunsBehindStart'
    BY <1>1, <1>2, <1>4, <2>1
       DEF Count, PoolTypeOK, StartHoldsMutex, IdBeforeCount, RunsBehindStart, InConstructor
  <2>4. Recorded'
    BY <1>2, <1>4 DEF Count, Recorded, InConstructor
  <2>5. QED
    BY <2>2, <2>3, <2>4 DEF PoolInv
<1>5. CASE Notify(t)
  <2>1. PoolTypeOK'
    BY <1>1, <1>2, <1>5 DEF Notify, PoolTypeOK, ClientAt, ThreadAt
  <2>2. StartHoldsMutex' /\ IdBeforeCount' /\ RunsBehindStart'
    <3>1. StartHoldsMutex'
      BY <1>1, <1>2, <1>5 DEF Notify, PoolTypeOK, StartHoldsMutex, InConstructor
    <3>2. IdBeforeCount'
      BY <1>1, <1>2, <1>5 DEF Notify, PoolTypeOK, IdBeforeCount
    <3>3. RunsBehindStart'
      BY <1>1, <1>2, <1>5 DEF Notify, PoolTypeOK, RunsBehindStart
    <3>4. QED
      BY <3>1, <3>2, <3>3
  <2>3. Recorded'
    BY <1>2, <1>5 DEF Notify, Recorded, InConstructor
  <2>4. QED
    BY <2>1, <2>2, <2>3 DEF PoolInv
<1>6. CASE EnterRun(t)
  <2>1. client \in {"started", "joining", "stopped", "destroyed"}
    <3>1. thread[t] # "none" /\ client \in ClientAt
      BY <1>2, <1>6 DEF EnterRun, PoolTypeOK
    <3>2. created # 0
      BY <1>1, <1>2, <3>1 DEF PoolTypeOK, StartHoldsMutex
    <3>3. client # "new" /\ client # "create" /\ ~InConstructor
      BY <1>2, <1>6, <3>2 DEF EnterRun, StartHoldsMutex
    <3>4. QED
      BY <3>1, <3>3 DEF ClientAt, InConstructor
  <2>2. PoolTypeOK'
    BY <1>1, <1>2, <1>6 DEF EnterRun, PoolTypeOK, ThreadAt
  <2>3. StartHoldsMutex' /\ IdBeforeCount' /\ RunsBehindStart'
    BY <1>1, <1>2, <1>6, <2>1
       DEF EnterRun, PoolTypeOK, StartHoldsMutex, IdBeforeCount, RunsBehindStart, InConstructor
  <2>4. Recorded'
    BY <1>2, <1>6 DEF EnterRun, Recorded, InConstructor
  <2>5. QED
    BY <2>2, <2>3, <2>4 DEF PoolInv
<1>7. CASE LeaveRun(t)
  <2>1. PoolTypeOK'
    BY <1>1, <1>2, <1>7 DEF LeaveRun, PoolTypeOK, ThreadAt
  <2>2. StartHoldsMutex' /\ IdBeforeCount' /\ RunsBehindStart'
    BY <1>1, <1>2, <1>7
       DEF LeaveRun, PoolTypeOK, StartHoldsMutex, IdBeforeCount, RunsBehindStart, InConstructor
  <2>3. Recorded'
    BY <1>2, <1>7 DEF LeaveRun, Recorded, InConstructor
  <2>4. QED
    BY <2>1, <2>2, <2>3 DEF PoolInv
<1>8. QED
  BY <1>3, <1>4, <1>5, <1>6, <1>7 DEF ThreadStep

(* The inductive invariant holds in every reachable state.                 *)
THEOREM PoolInvHolds == PoolSpec => []PoolInv
<1>1. PoolInit => PoolInv
  BY PoolInvInit
<1>2. PoolInv /\ [PoolNext]_poolvars => PoolInv'
  <2> SUFFICES ASSUME PoolInv, [PoolNext]_poolvars PROVE PoolInv'
    OBVIOUS
  <2>1. CASE ClientStep \/ SpuriousWake \/ Stop \/ Destroy
    BY <2>1, PoolInvClient
  <2>2. CASE \E t \in Threads : ThreadStep(t) \/ LeaveRun(t)
    BY <2>2, PoolInvThread
  <2>3. CASE UNCHANGED poolvars
    BY <2>3 DEF poolvars, PoolInv, PoolTypeOK, StartHoldsMutex, IdBeforeCount, Recorded,
                RunsBehindStart, InConstructor, Threads
  <2>4. QED
    BY <2>1, <2>2, <2>3 DEF PoolNext
<1>3. QED
  BY <1>1, <1>2, PTL DEF PoolSpec

-----------------------------------------------------------------------------
(* The variables keep their types; above all no semaphore counts above 1.  *)
THEOREM PoolTypeCorrect == PoolSpec => []PoolTypeOK
<1>1. PoolInv => PoolTypeOK
  BY DEF PoolInv
<1>2. QED
  BY <1>1, PoolInvHolds, PTL

(* For any number of threads: no worker is in the loop of run() before     *)
(* start() has recorded the id of every thread.                            *)
THEOREM CompleteBeforeRun == PoolSpec => []PoolComplete
<1>1. PoolInv => PoolComplete
  <2> SUFFICES ASSUME PoolInv, NEW t \in Threads,
                      thread[t] \notin {"none", "setid", "count", "notify", "enter"}
               PROVE  m_threads_id = [i \in Threads |-> i]
    BY DEF PoolComplete
  <2>1. m_threadsnum \in Nat
    BY ThreadPoolAssumption
  <2>2. thread[t] \in {"running", "exited"}
    BY DEF PoolInv, PoolTypeOK, ThreadAt
  <2>3. client \in {"started", "joining", "stopped", "destroyed"}
    BY <2>2 DEF PoolInv, RunsBehindStart
  <2>4. created = m_threadsnum /\ ~InConstructor
    BY <2>3 DEF PoolInv, StartHoldsMutex, InConstructor
  <2>5. /\ m_threads_id \in Seq(0..m_threadsnum)
        /\ Len(m_threads_id) = m_threadsnum
        /\ \A i \in 1..m_threadsnum : m_threads_id[i] = i
    BY <2>4 DEF PoolInv, PoolTypeOK, Recorded
  <2>6. m_threads_id = [i \in 1..m_threadsnum |-> m_threads_id[i]]
    BY <2>1, <2>5
  <2>7. QED
    BY <2>5, <2>6 DEF Threads
<1>2. QED
  BY <1>1, PoolInvHolds, PTL

(* For any number of threads: when stop() has returned, all have exited.   *)
THEOREM AllExitedAfterStop == PoolSpec => []StopWaitsForAll
<1>1. PoolInv => StopWaitsForAll
  BY DEF PoolInv, RunsBehindStart, StopWaitsForAll, Threads
<1>2. QED
  BY <1>1, PoolInvHolds, PTL

=============================================================================
