-------------------------- MODULE EventTableProofs --------------------------
(***************************************************************************)
(* Proofs about EventTable, for any descriptors, registrations and         *)
(* threads.                                                                *)
(***************************************************************************)
EXTENDS EventTable, FiniteSetTheorems, TLAPS

(* A set of types has at most two members.                                 *)
LEMMA TypesCounted ==
  ASSUME NEW types \in SUBSET Types
  PROVE  IsFiniteSet(types) /\ Cardinality(types) \in Nat
<1>1. IsFiniteSet({}) /\ IsFiniteSet({"READ"})
  BY FS_EmptySet, FS_AddElement
<1>2. IsFiniteSet({"READ"} \cup {"WRITE"})
  BY <1>1, FS_AddElement
<1>3. types \subseteq {"READ"} \cup {"WRITE"}
  BY DEF Types
<1>4. QED
  BY <1>2, <1>3, FS_Subset, FS_CardinalityType

LEMMA ContextType ==
  ASSUME NEW r \in Regs
  PROVE  FdOf[r] \in Fds /\ TypeOf[r] \in Types /\ Context(r) \in Fds \X Types
BY EventAssumption DEF Context

LEMMA TypeInit == Init => TypeOK
<1> SUFFICES ASSUME Init PROVE TypeOK
  OBVIOUS
<1>1. UintMod \in Nat \ {0} /\ 0 \in 0..(UintMod - 1)
  BY EventAssumption
<1>2. QED
  BY <1>1 DEF Init, TypeOK, HandedBound

LEMMA TypeStep == TypeOK /\ [Next]_vars => TypeOK'
<1> SUFFICES ASSUME TypeOK, [Next]_vars PROVE TypeOK'
  OBVIOUS
<1>0. UintMod \in Nat \ {0} /\ None \notin Regs /\ Pollable \subseteq Fds /\ Fds \subseteq Nat
  BY EventAssumption
<1>1. ASSUME NEW r \in Regs, RegisterEvent(r) PROVE TypeOK'
  <2> DEFINE f == FdOf[r]
  <2>1. f \in Fds /\ TypeOf[r] \in Types /\ Context(r) \in Fds \X Types
    BY ContextType
  <2>2. size' \in Nat /\ m_current' \in [Fds -> SUBSET Types]
    <3>1. /\ size' = IF size > f THEN size ELSE Resized(2 * f)
          /\ m_current' = [m_current EXCEPT ![f] = m_current[f] \cup {TypeOf[r]}]
      BY <1>1 DEF RegisterEvent
    <3>2. f \in Nat /\ size \in Nat
      BY <1>0, <2>1 DEF TypeOK
    <3>3. QED
      BY <2>1, <3>1, <3>2 DEF Resized, TypeOK
  <2>3. /\ called' \subseteq Regs
        /\ ready' = ready /\ pc' = pc /\ buffer' = buffer /\ batch' = batch
        /\ cancelling' = cancelling /\ handed' = handed /\ cancelled' = cancelled
    BY <1>1 DEF RegisterEvent, TypeOK, workerVars
  <2>4. CASE ~Accepted(f)
    BY <1>1, <2>2, <2>3, <2>4 DEF RegisterEvent, TypeOK
  <2>5. CASE Accepted(f)
    <3>1. /\ Monitor(f, m_current[f] \cup {TypeOf[r]}, FALSE)
          /\ m_waitingevents' = (m_waitingevents + 1) % UintMod
          /\ s_scheduler' = [s_scheduler EXCEPT ![Context(r)] = r \in Scheduled]
          /\ Store(r, Context(r))
      BY <1>1, <2>5 DEF RegisterEvent
    <3>2. /\ inEpoll' \subseteq Pollable /\ junk' \subseteq inEpoll'
          /\ edge' \subseteq inEpoll' /\ interest' \in [Fds -> SUBSET Types]
      BY <2>1, <2>5, <3>1 DEF Monitor, Accepted, TypeOK
    <3>3. m_waitingevents' \in 0..(UintMod - 1)
      BY <1>0, <3>1 DEF TypeOK
    <3>4. /\ s_function' \in [Fds \X Types -> Callbacks \cup {None}]
          /\ s_coroutine' \in [Fds \X Types -> (Regs \ Callbacks) \cup {None}]
      BY <2>1, <3>1 DEF Store, TypeOK
    <3>5. s_scheduler' \in [Fds \X Types -> BOOLEAN]
      BY <2>1, <3>1 DEF TypeOK
    <3>6. QED
      BY <2>2, <2>3, <3>2, <3>3, <3>4, <3>5 DEF TypeOK
  <2>6. QED
    BY <2>4, <2>5
<1>2. ASSUME NEW f \in Cancels, CancelCheck(f) \/ CancelEvent(f) PROVE TypeOK'
  <2>1. CASE CancelCheck(f)
    BY <2>1 DEF CancelCheck, TypeOK, contextVars, kernelVars, workerVars, historyVars
  <2>2. CASE CancelEvent(f)
    BY <2>2 DEF CancelEvent, Forget, TypeOK, contextVars, workerVars
  <2>3. QED
    BY <1>2, <2>1, <2>2
<1>3. ASSUME NEW f \in Fds, NEW type \in Types, Arrive(f, type) \/ Consume(f, type)
      PROVE  TypeOK'
  <2>1. ready' \in [Fds -> SUBSET Types] /\ edge' \subseteq inEpoll
    BY <1>3 DEF Arrive, Consume, TypeOK
  <2>2. UNCHANGED <<size, contextVars, m_waitingevents, inEpoll, interest, junk,
                    workerVars, cancelling, historyVars>>
    BY <1>3 DEF Arrive, Consume
  <2>3. QED
    BY <2>1, <2>2 DEF TypeOK, contextVars, workerVars, historyVars
<1>4. ASSUME NEW w \in Workers, Poll(w) \/ EndPass(w) PROVE TypeOK'
  <2>1. pc' \in [Workers -> {"poll", "handle", "undefined"}]
    BY <1>4 DEF Poll, EndPass, TypeOK
  <2>2. buffer' \in [Workers -> BOOLEAN]
    BY <1>4 DEF Poll, EndPass, TypeOK
  <2>3. batch' \in [Workers -> [Fds -> SUBSET Types]] /\ edge' \subseteq inEpoll
    <3>1. \A f \in Fds : interest[f] \cap ready[f] \in SUBSET Types
      BY DEF TypeOK
    <3> DEFINE got == [f \in Fds |-> IF f \in Delivered \ junk
                                     THEN interest[f] \cap ready[f] ELSE {}]
    <3>2. got \in [Fds -> SUBSET Types]
      BY <3>1
    <3>3. \/ batch' = batch /\ edge' = edge
          \/ batch' = [batch EXCEPT ![w] = got] /\ edge' = {}
      BY <1>4 DEF Poll, EndPass, kernelVars
    <3> HIDE DEF got
    <3>4. QED
      BY <3>2, <3>3 DEF TypeOK
  <2>4. UNCHANGED <<size, contextVars, m_waitingevents, inEpoll, interest, junk,
                    ready, cancelling, historyVars>>
    BY <1>4 DEF Poll, EndPass, kernelVars
  <2>5. QED
    BY <2>1, <2>2, <2>3, <2>4 DEF TypeOK, contextVars, historyVars
<1>5. ASSUME NEW w \in Workers, NEW f \in Fds, PassOver(w, f) \/ HandleWithoutScheduler(w, f)
      PROVE  TypeOK'
  <2>1. /\ pc' \in [Workers -> {"poll", "handle", "undefined"}]
        /\ batch' \in [Workers -> [Fds -> SUBSET Types]]
    <3>1. CASE PassOver(w, f)
      BY <3>1 DEF PassOver, TypeOK
    <3>2. CASE HandleWithoutScheduler(w, f)
      BY <3>2 DEF HandleWithoutScheduler, TypeOK
    <3>3. QED
      BY <1>5, <3>1, <3>2
  <2>2. UNCHANGED <<size, contextVars, m_waitingevents, kernelVars, buffer,
                    cancelling, historyVars>>
    BY <1>5 DEF PassOver, HandleWithoutScheduler
  <2>3. QED
    BY <2>1, <2>2 DEF TypeOK, contextVars, kernelVars, historyVars
<1>6. ASSUME NEW w \in Workers, NEW f \in Fds, Handle(w, f) PROVE TypeOK'
  <2> DEFINE types == batch[w][f]
  <2>1. types \in SUBSET Types
    BY DEF TypeOK
  <2>2. /\ inEpoll' \subseteq Pollable /\ junk' \subseteq inEpoll'
        /\ edge' \subseteq inEpoll' /\ interest' \in [Fds -> SUBSET Types]
    BY <1>6 DEF Handle, Monitor, Forget, TypeOK
  <2>3. m_waitingevents' \in 0..(UintMod - 1)
    <3>1. Cardinality(types) \in Nat
      BY <2>1, TypesCounted
    <3>2. m_waitingevents' = (m_waitingevents + UintMod - Cardinality(types)) % UintMod
      BY <1>6 DEF Handle
    <3>3. QED
      BY <1>0, <3>1, <3>2 DEF TypeOK
  <2>4. TriggerEvent(f, types)
    BY <1>6 DEF Handle
  <2>5. /\ m_current' \in [Fds -> SUBSET Types]
        /\ s_function' \in [Fds \X Types -> Callbacks \cup {None}]
        /\ s_coroutine' \in [Fds \X Types -> (Regs \ Callbacks) \cup {None}]
        /\ s_scheduler' \in [Fds \X Types -> BOOLEAN]
    BY <2>4 DEF TriggerEvent, TypeOK
  <2>6. handed' \in [Regs -> 0..HandedBound]
    <3>1. \A r \in Regs : /\ handed[r] \in 0..HandedBound
                          /\ handed[r] < HandedBound => handed[r] + 1 \in 0..HandedBound
      BY DEF TypeOK, HandedBound
    <3>2. QED
      BY <2>4, <3>1 DEF TriggerEvent, HandOver
  <2>7. QED
    BY <1>6, <2>2, <2>3, <2>5, <2>6 DEF Handle, TypeOK
<1>7. ASSUME UNCHANGED vars PROVE TypeOK'
  BY <1>7 DEF TypeOK, vars, contextVars, kernelVars, workerVars, historyVars
<1>8. QED
  BY <1>1, <1>2, <1>3, <1>4, <1>5, <1>6, <1>7
     DEF Next, Clients, Kernel, WorkerStep, DeleteEvent

-----------------------------------------------------------------------------
(* Which steps touch the contexts, and how.                                *)

(* Nothing is registered, handed over or removed; what epoll_wait delivers *)
(* was monitored.                                                          *)
Still ==
  /\ UNCHANGED <<contextVars, m_waitingevents, inEpoll, interest, called, handed,
                 cancelled>>
  /\ \A w \in Workers, f \in Fds : batch'[w][f] \subseteq batch[w][f] \cup interest[f]

LEMMA StepCases ==
  ASSUME TypeOK, [Next]_vars
  PROVE  \/ \E r \in Regs : RegisterEvent(r)
         \/ \E f \in Fds : CancelEvent(f)
         \/ \E w \in Workers, f \in Fds : Handle(w, f)
         \/ Still
<1>1. ASSUME NEW f \in Cancels, CancelEvent(f) PROVE f \in Fds
  BY <1>1 DEF CancelEvent, TypeOK
<1>2. ASSUME NEW f \in Cancels, CancelCheck(f) PROVE Still
  BY <1>2 DEF CancelCheck, Still, kernelVars, workerVars, historyVars
<1>3. ASSUME NEW f \in Fds, NEW type \in Types, Arrive(f, type) \/ Consume(f, type)
      PROVE  Still
  BY <1>3 DEF Arrive, Consume, Still, workerVars, historyVars
<1>4. ASSUME NEW w \in Workers, Poll(w) PROVE Still
  <2>1. UNCHANGED <<contextVars, m_waitingevents, inEpoll, interest, called, handed,
                    cancelled>>
    BY <1>4 DEF Poll, historyVars
  <2>2. \/ batch' = batch
        \/ batch' = [batch EXCEPT ![w] = [f \in Fds |-> IF f \in Delivered \ junk
                                                        THEN interest[f] \cap ready[f]
                                                        ELSE {}]]
    BY <1>4 DEF Poll
  <2>3. ASSUME NEW v \in Workers, NEW f \in Fds
        PROVE  batch'[v][f] \subseteq batch[v][f] \cup interest[f]
    BY <2>2 DEF TypeOK
  <2>4. QED
    BY <2>1, <2>3 DEF Still
<1>5. ASSUME NEW w \in Workers, EndPass(w) PROVE Still
  BY <1>5 DEF EndPass, Still, kernelVars, historyVars
<1>6. ASSUME NEW w \in Workers, NEW f \in Fds, PassOver(w, f) PROVE Still
  <2>1. UNCHANGED <<contextVars, m_waitingevents, inEpoll, interest, called, handed,
                    cancelled>>
    BY <1>6 DEF PassOver, historyVars, kernelVars
  <2>2. batch' = [batch EXCEPT ![w][f] = {}]
    BY <1>6 DEF PassOver
  <2>3. ASSUME NEW v \in Workers, NEW g \in Fds
        PROVE  batch'[v][g] \subseteq batch[v][g] \cup interest[g]
    BY <2>2 DEF TypeOK
  <2>4. QED
    BY <2>1, <2>3 DEF Still
<1>7. ASSUME NEW w \in Workers, NEW f \in Fds, HandleWithoutScheduler(w, f) PROVE Still
  BY <1>7 DEF HandleWithoutScheduler, Still, kernelVars, historyVars
<1>8. ASSUME UNCHANGED vars PROVE Still
  BY <1>8 DEF vars, Still, kernelVars, workerVars, historyVars
<1>9. QED
  BY <1>1, <1>2, <1>3, <1>4, <1>5, <1>6, <1>7, <1>8
     DEF Next, Clients, Kernel, WorkerStep, DeleteEvent

(* A registration that succeeds waits from now on, and may have replaced   *)
(* another one of its context.                                             *)
LEMMA RegisterWaiting ==
  ASSUME TypeOK, NEW r \in Regs, RegisterEvent(r)
  PROVE  \/ /\ ~Accepted(FdOf[r])
            /\ \A q \in Regs : Waiting(q)' = Waiting(q)
         \/ /\ Accepted(FdOf[r])
            /\ Waiting(r)'
            /\ \A q \in Regs \ {r} : /\ Waiting(q)' => Waiting(q)
                                     /\ Context(q) # Context(r) => Waiting(q)' = Waiting(q)
<1>1. CASE ~Accepted(FdOf[r])
  BY <1>1 DEF RegisterEvent, Waiting
<1>2. CASE Accepted(FdOf[r])
  <2>1. Store(r, Context(r))
    BY <1>2 DEF RegisterEvent
  <2>2. /\ Context(r) \in Fds \X Types
        /\ \A q \in Regs : Context(q) \in Fds \X Types
    BY ContextType
  <2>3. \A q \in Regs : Waiting(q)' <=> \/ s_function'[Context(q)] = q
                                       \/ s_coroutine'[Context(q)] = q
    BY DEF Waiting, Context
  <2>4. CASE /\ s_function' = [s_function EXCEPT ![Context(r)] = r]
             /\ s_coroutine' = s_coroutine
    BY <1>2, <2>2, <2>3, <2>4 DEF Waiting, TypeOK
  <2>5. CASE /\ s_coroutine' = [s_coroutine EXCEPT ![Context(r)] = r]
             /\ s_function' = s_function
    BY <1>2, <2>2, <2>3, <2>5 DEF Waiting, TypeOK
  <2>6. QED
    BY <2>1, <2>4, <2>5 DEF Store
<1>3. QED
  BY <1>1, <1>2

(* An event that is handled leaves nobody behind.                          *)
LEMMA TriggerWaiting ==
  ASSUME TypeOK, NEW f \in Fds, NEW types \in SUBSET Types, TriggerEvent(f, types),
         NEW q \in Regs
  PROVE  /\ FdOf[q] = f /\ TypeOf[q] \in types => ~Waiting(q)'
         /\ ~(FdOf[q] = f /\ TypeOf[q] \in types) =>
              /\ Waiting(q)' = Waiting(q)
              /\ s_scheduler'[Context(q)] = s_scheduler[Context(q)]
<1>1. /\ Context(q) = <<FdOf[q], TypeOf[q]>> /\ Context(q) \in Fds \X Types
      /\ q # None
  BY ContextType, EventAssumption DEF Context
<1>2. FdOf[q] = f /\ TypeOf[q] \in types <=> Context(q) \in {f} \X types
  BY <1>1
<1>3. CASE Context(q) \in {f} \X types
  <2>1. s_function'[Context(q)] = None /\ s_coroutine'[Context(q)] = None
    BY <1>1, <1>3 DEF TriggerEvent
  <2>2. QED
    BY <1>1, <1>2, <1>3, <2>1 DEF Waiting, Context
<1>4. CASE Context(q) \notin {f} \X types
  <2>1. /\ s_function'[Context(q)] = s_function[Context(q)]
        /\ s_coroutine'[Context(q)] = s_coroutine[Context(q)]
    BY <1>1, <1>4 DEF TriggerEvent
  <2>2. s_scheduler'[Context(q)] = s_scheduler[Context(q)]
    <3>1. s_scheduler[Context(q)] \in BOOLEAN
      BY <1>1 DEF TypeOK
    <3>2. s_scheduler'[Context(q)] <=> s_scheduler[Context(q)]
      BY <1>1, <1>4 DEF TriggerEvent
    <3>3. s_scheduler'[Context(q)] \in BOOLEAN
      BY <1>1 DEF TriggerEvent
    <3>4. QED
      BY <3>1, <3>2, <3>3
  <2>3. QED
    BY <1>1, <1>2, <1>4, <2>1, <2>2 DEF Waiting, Context
<1>5. QED
  BY <1>3, <1>4

-----------------------------------------------------------------------------
(* TypeOK: every state is one the types allow.                             *)
THEOREM TypeCorrect == Spec => []TypeOK
<1>1. QED
  BY TypeInit, TypeStep, PTL DEF Spec

(* What waits was registered and was not handed over yet, and nothing is   *)
(* handed over before it is registered.                                    *)
HandedInv ==
  \A r \in Regs : /\ Waiting(r) => r \in called /\ handed[r] = 0
                  /\ r \notin called => handed[r] = 0
                  /\ handed[r] <= 1

LEMMA HandedInvInit == Init => HandedInv
<1> SUFFICES ASSUME Init, NEW r \in Regs
             PROVE  ~Waiting(r) /\ handed[r] = 0
  BY DEF HandedInv
<1>1. Context(r) \in Fds \X Types /\ r # None
  BY ContextType, EventAssumption
<1>2. QED
  BY <1>1 DEF Init, Waiting

LEMMA HandedInvStep == TypeOK /\ HandedInv /\ [Next]_vars => HandedInv'
<1> SUFFICES ASSUME TypeOK, HandedInv, [Next]_vars PROVE HandedInv'
  OBVIOUS
<1>1. ASSUME NEW r \in Regs, RegisterEvent(r) PROVE HandedInv'
  <2>1. called' = called \cup {r} /\ handed' = handed /\ r \notin called
    BY <1>1 DEF RegisterEvent
  <2>2. \A q \in Regs : Waiting(q)' => Waiting(q) \/ q = r
    BY <1>1, RegisterWaiting
  <2>3. QED
    BY <2>1, <2>2 DEF HandedInv
<1>2. ASSUME NEW w \in Workers, NEW f \in Fds, Handle(w, f) PROVE HandedInv'
  <2> DEFINE types == batch[w][f]
  <2>1. TriggerEvent(f, types) /\ types \in SUBSET Types /\ called' = called
    BY <1>2 DEF Handle, TypeOK
  <2>2. ASSUME NEW q \in Regs
        PROVE  /\ Waiting(q)' => q \in called' /\ handed'[q] = 0
               /\ q \notin called' => handed'[q] = 0
               /\ handed'[q] <= 1
    <3>1. CASE FdOf[q] = f /\ TypeOf[q] \in types
      <4>1. ~Waiting(q)'
        BY <2>1, <3>1, TriggerWaiting
      <4>2. handed'[q] = IF Waiting(q) /\ handed[q] < HandedBound THEN handed[q] + 1
                         ELSE handed[q]
        BY <2>1, <3>1 DEF TriggerEvent, HandOver
      <4>3. QED
        BY <2>1, <4>1, <4>2 DEF HandedInv
    <3>2. CASE ~(FdOf[q] = f /\ TypeOf[q] \in types)
      <4>1. Waiting(q)' = Waiting(q)
        BY <2>1, <3>2, TriggerWaiting
      <4>2. handed'[q] = handed[q]
        BY <2>1, <3>2 DEF TriggerEvent, HandOver
      <4>3. QED
        BY <2>1, <4>1, <4>2 DEF HandedInv
    <3>3. QED
      BY <3>1, <3>2
  <2>3. QED
    BY <2>2 DEF HandedInv
<1>3. ASSUME NEW f \in Fds, CancelEvent(f) PROVE HandedInv'
  BY <1>3 DEF CancelEvent, HandedInv, Waiting, Context, contextVars
<1>4. ASSUME Still PROVE HandedInv'
  BY <1>4 DEF Still, HandedInv, Waiting, Context, contextVars
<1>5. QED
  BY <1>1, <1>2, <1>3, <1>4, StepCases

(* HandedOnce: each registration is handed to the pool at most once.       *)
THEOREM OneHandOver == Spec => []HandedOnce
<1>1. HandedInv => HandedOnce
  BY DEF HandedInv, HandedOnce
<1>2. QED
  BY <1>1, TypeCorrect, HandedInvInit, HandedInvStep, PTL DEF Spec

(* What waits in a context is believed to be monitored.                    *)
CurrentInv == \A r \in Regs : Waiting(r) => TypeOf[r] \in m_current[FdOf[r]]

LEMMA CurrentInvInit == Init => CurrentInv
<1> SUFFICES ASSUME Init, NEW r \in Regs PROVE ~Waiting(r)
  BY DEF CurrentInv
<1>1. Context(r) \in Fds \X Types /\ r # None
  BY ContextType, EventAssumption
<1>2. QED
  BY <1>1 DEF Init, Waiting

LEMMA CurrentInvStep == TypeOK /\ CurrentInv /\ [Next]_vars => CurrentInv'
<1> SUFFICES ASSUME TypeOK, CurrentInv, [Next]_vars,
                    NEW q \in Regs, Waiting(q)'
             PROVE  TypeOf[q] \in m_current'[FdOf[q]]
  BY DEF CurrentInv
<1>0. FdOf[q] \in Fds /\ TypeOf[q] \in Types
  BY ContextType
<1>1. ASSUME NEW r \in Regs, RegisterEvent(r) PROVE TypeOf[q] \in m_current'[FdOf[q]]
  <2>1. m_current' = [m_current EXCEPT ![FdOf[r]] = m_current[FdOf[r]] \cup {TypeOf[r]}]
    BY <1>1 DEF RegisterEvent
  <2>2. Waiting(q) \/ q = r
    BY <1>1, RegisterWaiting
  <2>3. QED
    BY <1>0, <2>1, <2>2 DEF CurrentInv, TypeOK
<1>2. ASSUME NEW w \in Workers, NEW f \in Fds, Handle(w, f)
      PROVE  TypeOf[q] \in m_current'[FdOf[q]]
  <2> DEFINE types == batch[w][f]
  <2>1. TriggerEvent(f, types) /\ types \in SUBSET Types
    BY <1>2 DEF Handle, TypeOK
  <2>2. Waiting(q) /\ ~(FdOf[q] = f /\ TypeOf[q] \in types)
    BY <2>1, TriggerWaiting
  <2>3. m_current' = [m_current EXCEPT ![f] = m_current[f] \ types]
    BY <2>1 DEF TriggerEvent
  <2>4. QED
    BY <1>0, <2>2, <2>3 DEF CurrentInv, TypeOK
<1>3. ASSUME (\E f \in Fds : CancelEvent(f)) \/ Still
      PROVE  TypeOf[q] \in m_current'[FdOf[q]]
  BY <1>3 DEF Still, CancelEvent, CurrentInv, Waiting, Context, contextVars
<1>4. QED
  BY <1>1, <1>2, <1>3, StepCases

(* WaitingIsCurrent: a later event does not pass over what waits.          *)
THEOREM WaitingStaysCurrent == Spec => []WaitingIsCurrent
<1>1. TypeOK /\ CurrentInv => WaitingIsCurrent
  BY DEF CurrentInv, WaitingIsCurrent
<1>2. QED
  BY <1>1, TypeCorrect, CurrentInvInit, CurrentInvStep, PTL DEF Spec

-----------------------------------------------------------------------------
LEMMA SchedulerInit == Init => SchedulerIsThere
<1> SUFFICES ASSUME Init, NEW r \in Regs PROVE ~Waiting(r)
  BY DEF SchedulerIsThere
<1>1. Context(r) \in Fds \X Types /\ r # None
  BY ContextType, EventAssumption
<1>2. QED
  BY <1>1 DEF Init, Waiting

LEMMA SchedulerStep == TypeOK /\ SchedulerIsThere /\ [Next]_vars => SchedulerIsThere'
<1> DEFINE Rivals(q) == {p \in called : FdOf[p] = FdOf[q] /\ TypeOf[p] = TypeOf[q]}
<1> SUFFICES ASSUME TypeOK, SchedulerIsThere, [Next]_vars,
                    NEW q \in Regs, Waiting(q)', Rivals(q)' \subseteq Scheduled
             PROVE  s_scheduler'[Context(q)]
  BY DEF SchedulerIsThere, Context
<1>0. Context(q) \in Fds \X Types /\ Context(q) = <<FdOf[q], TypeOf[q]>>
  BY ContextType DEF Context
<1>1. ASSUME Waiting(q), called \subseteq called' PROVE s_scheduler[Context(q)]
  BY <1>1 DEF SchedulerIsThere, Context
<1>2. ASSUME NEW r \in Regs, RegisterEvent(r) PROVE s_scheduler'[Context(q)]
  <2>1. called' = called \cup {r} /\ Context(r) \in Fds \X Types
    BY <1>2, ContextType DEF RegisterEvent
  <2>2. CASE Context(r) = Context(q) /\ Accepted(FdOf[r])
    <3>1. r \in Scheduled
      BY <2>1, <2>2 DEF Context
    <3>2. s_scheduler' = [s_scheduler EXCEPT ![Context(r)] = r \in Scheduled]
      BY <1>2, <2>2 DEF RegisterEvent
    <3>3. QED
      BY <1>0, <2>2, <3>1, <3>2 DEF TypeOK
  <2>3. CASE Context(r) # Context(q) \/ ~Accepted(FdOf[r])
    <3>1. Waiting(q)
      BY <1>2, <2>3, RegisterWaiting
    <3>2. \/ s_scheduler' = s_scheduler
          \/ /\ s_scheduler' = [s_scheduler EXCEPT ![Context(r)] = r \in Scheduled]
             /\ Context(r) # Context(q)
      BY <1>2, <2>3 DEF RegisterEvent
    <3>3. QED
      BY <1>0, <1>1, <2>1, <3>1, <3>2 DEF TypeOK
  <2>4. QED
    BY <2>2, <2>3
<1>3. ASSUME NEW w \in Workers, NEW f \in Fds, Handle(w, f) PROVE s_scheduler'[Context(q)]
  <2> DEFINE types == batch[w][f]
  <2>1. TriggerEvent(f, types) /\ types \in SUBSET Types /\ called' = called
    BY <1>3 DEF Handle, TypeOK
  <2>2. ~(FdOf[q] = f /\ TypeOf[q] \in types)
    BY <2>1, TriggerWaiting
  <2>3. Waiting(q) /\ s_scheduler'[Context(q)] = s_scheduler[Context(q)]
    BY <2>1, <2>2, TriggerWaiting
  <2>4. QED
    BY <1>1, <2>1, <2>3
<1>4. ASSUME (\E f \in Fds : CancelEvent(f)) \/ Still PROVE s_scheduler'[Context(q)]
  <2>1. UNCHANGED contextVars /\ called' = called
    BY <1>4 DEF Still, CancelEvent
  <2>2. QED
    BY <1>1, <2>1 DEF contextVars, Waiting, Context
<1>5. QED
  BY <1>2, <1>3, <1>4, StepCases

(* SchedulerIsThere: under a scheduler, no event finds something to hand   *)
(* over and no scheduler to hand it to.                                    *)
THEOREM HandOverHasScheduler == Spec => []SchedulerIsThere
<1>1. QED
  BY TypeCorrect, SchedulerInit, SchedulerStep, PTL DEF Spec

LEMMA KernelInit == Init => KnownToKernel
BY EventAssumption DEF Init, KnownToKernel

LEMMA KernelStep == TypeOK /\ KnownToKernel /\ [Next]_vars => KnownToKernel'
<1> SUFFICES ASSUME TypeOK, KnownToKernel, [Next]_vars, NEW f \in Pollable
             PROVE  /\ f \in inEpoll' => m_current'[f] # {}
                    /\ f \notin cancelled' /\ m_current'[f] # {} => f \in inEpoll'
  BY DEF KnownToKernel
<1> DEFINE Goal == /\ f \in inEpoll' => m_current'[f] # {}
                   /\ f \notin cancelled' /\ m_current'[f] # {} => f \in inEpoll'
<1>0. f \in Fds
  BY EventAssumption
<1>1. ASSUME NEW r \in Regs, RegisterEvent(r) PROVE Goal
  <2> DEFINE g == FdOf[r]
  <2>1. /\ m_current' = [m_current EXCEPT ![g] = m_current[g] \cup {TypeOf[r]}]
        /\ cancelled' = cancelled /\ g \in Fds
    BY <1>1, ContextType DEF RegisterEvent
  <2>2. CASE g # f
    <3>1. m_current'[f] = m_current[f]
      BY <1>0, <2>1, <2>2 DEF TypeOK
    <3>2. f \in inEpoll' <=> f \in inEpoll
      BY <1>1, <2>2 DEF RegisterEvent, Monitor
    <3>3. QED
      BY <2>1, <3>1, <3>2 DEF KnownToKernel
  <2>3. CASE g = f /\ Accepted(f)
    <3>1. inEpoll' = inEpoll \cup {f} /\ m_current'[f] # {}
      BY <1>0, <1>1, <2>1, <2>3 DEF RegisterEvent, Monitor, TypeOK
    <3>2. QED
      BY <3>1
  <2>4. CASE g = f /\ ~Accepted(f)
    <3>1. inEpoll' = inEpoll /\ m_current'[f] # {}
      BY <1>0, <1>1, <2>1, <2>4 DEF RegisterEvent, TypeOK
    <3>2. ~((m_current[f] # {}) = (f \in inEpoll))
      BY <2>4 DEF Accepted
    <3>3. QED
      BY <2>1, <3>1, <3>2 DEF KnownToKernel
  <2>5. QED
    BY <2>2, <2>3, <2>4
<1>2. ASSUME NEW w \in Workers, NEW g \in Fds, Handle(w, g) PROVE Goal
  <2> DEFINE types == batch[w][g]
  <2>1. /\ m_current' = [m_current EXCEPT ![g] = m_current[g] \ types]
        /\ cancelled' = cancelled
    BY <1>2 DEF Handle, TriggerEvent
  <2>2. CASE g # f
    <3>1. m_current'[f] = m_current[f]
      BY <1>0, <2>1, <2>2 DEF TypeOK
    <3>2. f \in inEpoll' <=> f \in inEpoll
      BY <1>2, <2>2 DEF Handle, Monitor, Forget
    <3>3. QED
      BY <2>1, <3>1, <3>2 DEF KnownToKernel
  <2>3. CASE g = f
    <3>1. m_current'[f] = Left(f, types) /\ Left(f, types) \subseteq m_current[f]
      BY <1>0, <2>1, <2>3 DEF Left, TypeOK
    <3>2. \/ Left(f, types) # {} /\ f \in inEpoll'
          \/ (Left(f, types) = {} \/ f \notin inEpoll) /\ f \notin inEpoll'
      BY <1>2, <2>3 DEF Handle, Monitor, Forget
    <3>3. QED
      BY <2>1, <3>1, <3>2 DEF KnownToKernel
  <2>4. QED
    BY <2>2, <2>3
<1>3. ASSUME NEW g \in Fds, CancelEvent(g) PROVE Goal
  BY <1>3 DEF CancelEvent, Forget, KnownToKernel, contextVars
<1>4. ASSUME Still PROVE Goal
  BY <1>4 DEF Still, KnownToKernel, contextVars
<1>5. QED
  BY <1>1, <1>2, <1>3, <1>4, StepCases

(* KnownToKernel: without a cancellation m_current tells ADD from MOD      *)
(* rightly, and the kernel knows no descriptor that it has forgotten.      *)
THEOREM CurrentMatchesKernel == Spec => []KnownToKernel
<1>1. QED
  BY TypeCorrect, KernelInit, KernelStep, PTL DEF Spec

-----------------------------------------------------------------------------
(* The count of the events that wait.                                      *)

NoneTwice == \A q, r \in called : q # r => FdOf[q] # FdOf[r]

WaitingRegs == {r \in Regs : Waiting(r)}

(* What is monitored, or was delivered, is a registration that waits, or   *)
(* the event is stale.                                                     *)
Accurate ==
  \A f \in Fds, type \in Types :
    /\ type \in m_current[f] => \E r \in called : FdOf[r] = f /\ TypeOf[r] = type
    /\ type \in interest[f] \/ (\E w \in Workers : type \in batch[w][f]) =>
         \E r \in called : /\ FdOf[r] = f /\ TypeOf[r] = type
                           /\ Waiting(r) \/ type \notin m_current[f]

CountInv ==
  NoneTwice => /\ Accurate
               /\ m_waitingevents = Cardinality(WaitingRegs)

LEMMA CountInit == Init => CountInv
<1> SUFFICES ASSUME Init PROVE Accurate /\ m_waitingevents = Cardinality(WaitingRegs)
  BY DEF CountInv
<1>1. Accurate
  BY DEF Init, Accurate
<1>2. ASSUME NEW r \in Regs PROVE ~Waiting(r)
  <2>1. Context(r) \in Fds \X Types /\ r # None
    BY ContextType, EventAssumption
  <2>2. QED
    BY <2>1 DEF Init, Waiting
<1>3. WaitingRegs = {}
  BY <1>2 DEF WaitingRegs
<1>4. QED
  BY <1>1, <1>3, FS_EmptySet DEF Init

LEMMA CountRegister ==
  ASSUME IsFiniteSet(Regs), Cardinality(Regs) < UintMod,
         TypeOK, HandedInv, Accurate, m_waitingevents = Cardinality(WaitingRegs),
         NEW r \in Regs, RegisterEvent(r), NoneTwice'
  PROVE  Accurate' /\ m_waitingevents' = Cardinality(WaitingRegs')
<1> DEFINE f == FdOf[r]
<1>1. /\ r \notin called /\ called' = called \cup {r} /\ batch' = batch
      /\ m_current' = [m_current EXCEPT ![f] = m_current[f] \cup {TypeOf[r]}]
      /\ f \in Fds /\ TypeOf[r] \in Types
  BY ContextType DEF RegisterEvent, workerVars
<1>2. \A q \in called : q \in Regs /\ FdOf[q] # f
  BY <1>1 DEF NoneTwice, TypeOK
<1>3. /\ m_current[f] = {} /\ interest[f] = {}
      /\ \A w \in Workers : batch[w][f] = {}
  <2>1. /\ m_current[f] \subseteq Types /\ interest[f] \subseteq Types
        /\ \A w \in Workers : batch[w][f] \subseteq Types
    BY <1>1 DEF TypeOK
  <2>2. ASSUME NEW type \in Types
        PROVE  /\ type \notin m_current[f] /\ type \notin interest[f]
               /\ \A w \in Workers : type \notin batch[w][f]
    BY <1>1, <1>2 DEF Accurate
  <2>3. QED
    BY <2>1, <2>2
<1>4. ~Waiting(r) /\ \A q \in Regs : Waiting(q) => FdOf[q] # f
  BY <1>1, <1>2 DEF HandedInv
<1>5. /\ \A g \in Fds \ {f} : m_current'[g] = m_current[g] /\ interest'[g] = interest[g]
      /\ m_current'[f] = {TypeOf[r]}
      /\ interest'[f] # {} => interest'[f] = {TypeOf[r]} /\ Accepted(f)
  <2>1. \/ Monitor(f, m_current[f] \cup {TypeOf[r]}, FALSE) /\ Accepted(f)
        \/ interest' = interest
    BY DEF RegisterEvent
  <2>2. QED
    BY <1>1, <1>3, <2>1 DEF Monitor, TypeOK
<1>6. /\ \A q \in Regs \ {r} : FdOf[q] # f => Waiting(q)' = Waiting(q)
      /\ \A q \in Regs \ {r} : Waiting(q)' => Waiting(q)
      /\ Accepted(f) => Waiting(r)'
      /\ ~Accepted(f) => \A q \in Regs : Waiting(q)' = Waiting(q)
  BY RegisterWaiting DEF Context
<1>7. Accurate'
  <2> SUFFICES ASSUME NEW g \in Fds, NEW type \in Types
               PROVE  /\ type \in m_current'[g] =>
                           \E q \in called' : FdOf[q] = g /\ TypeOf[q] = type
                      /\ type \in interest'[g] \/ (\E w \in Workers : type \in batch'[w][g]) =>
                           \E q \in called' : /\ FdOf[q] = g /\ TypeOf[q] = type
                                              /\ Waiting(q)' \/ type \notin m_current'[g]
    BY DEF Accurate
  <2>1. CASE g # f
    BY <1>1, <1>2, <1>5, <1>6, <2>1 DEF Accurate
  <2>2. CASE g = f
    BY <1>1, <1>3, <1>5, <1>6, <2>2
  <2>3. QED
    BY <2>1, <2>2
<1>8. m_waitingevents' = Cardinality(WaitingRegs')
  <2>1. CASE ~Accepted(f)
    <3>1. m_waitingevents' = m_waitingevents
      BY <2>1 DEF RegisterEvent
    <3>2. WaitingRegs' = WaitingRegs
      BY <1>6, <2>1 DEF WaitingRegs
    <3>3. QED
      BY <3>1, <3>2
  <2>2. CASE Accepted(f)
    <3>1. WaitingRegs' = WaitingRegs \cup {r} /\ r \notin WaitingRegs
      BY <1>4, <1>6, <2>2 DEF WaitingRegs
    <3>2. WaitingRegs' \subseteq Regs /\ WaitingRegs \subseteq Regs
      BY DEF WaitingRegs
    <3>3. /\ IsFiniteSet(WaitingRegs) /\ Cardinality(WaitingRegs) \in Nat
          /\ Cardinality(WaitingRegs') <= Cardinality(Regs)
          /\ Cardinality(Regs) \in Nat
      BY <3>2, FS_Subset, FS_CardinalityType
    <3>4. Cardinality(WaitingRegs') = Cardinality(WaitingRegs) + 1
      BY <3>1, <3>3, FS_AddElement
    <3>5. m_waitingevents' = (m_waitingevents + 1) % UintMod
      BY <2>2 DEF RegisterEvent
    <3>6. QED
      BY <3>3, <3>4, <3>5, EventAssumption
  <2>3. QED
    BY <2>1, <2>2
<1>9. QED
  BY <1>7, <1>8

LEMMA CountHandle ==
  ASSUME IsFiniteSet(Regs),
         TypeOK, HandedInv, NoneTwice, Accurate,
         m_waitingevents = Cardinality(WaitingRegs),
         NEW w \in Workers, NEW f \in Fds, Handle(w, f)
  PROVE  Accurate' /\ m_waitingevents' = Cardinality(WaitingRegs')
<1> DEFINE types == batch[w][f]
<1>1. /\ types \in SUBSET Types /\ types \cap m_current[f] # {}
      /\ TriggerEvent(f, types) /\ called' = called
      /\ m_current' = [m_current EXCEPT ![f] = m_current[f] \ types]
      /\ batch' = [batch EXCEPT ![w][f] = {}]
      /\ m_waitingevents' = (m_waitingevents + UintMod - Cardinality(types)) % UintMod
  BY DEF Handle, Stale, TypeOK, TriggerEvent
<1>2. PICK r \in called : FdOf[r] = f /\ TypeOf[r] \in types /\ Waiting(r)
  <2>1. PICK type \in types : type \in m_current[f] /\ type \in Types
    BY <1>1
  <2>2. QED
    BY <2>1 DEF Accurate
<1>3. \A q \in called : FdOf[q] = f => q = r
  BY <1>2 DEF NoneTwice
<1>4. types = {TypeOf[r]} /\ m_current'[f] = {}
  <2>1. \A type \in types : type = TypeOf[r]
    BY <1>1, <1>3 DEF Accurate
  <2>2. \A type \in m_current[f] : type = TypeOf[r]
    BY <1>1, <1>3 DEF Accurate, TypeOK
  <2>3. QED
    BY <1>1, <1>2, <2>1, <2>2 DEF TypeOK
<1>5. interest'[f] = {} /\ \A g \in Fds \ {f} : interest'[g] = interest[g]
  <2>1. Left(f, types) = {}
    BY <1>1, <1>4 DEF Left, TypeOK
  <2>2. Forget(f)
    BY <2>1 DEF Handle
  <2>3. QED
    BY <2>2 DEF Forget, TypeOK
<1>6. /\ \A g \in Fds \ {f} : m_current'[g] = m_current[g]
      /\ \A v \in Workers, g \in Fds : batch'[v][g] \subseteq batch[v][g]
  BY <1>1 DEF TypeOK
<1>7. /\ ~Waiting(r)'
      /\ \A q \in Regs \ {r} : Waiting(q)' = Waiting(q)
  <2>1. ~Waiting(r)'
    BY <1>1, <1>2, TriggerWaiting DEF TypeOK
  <2>2. ASSUME NEW q \in Regs \ {r} PROVE Waiting(q)' = Waiting(q)
    <3>1. CASE FdOf[q] = f /\ TypeOf[q] \in types
      <4>1. q \notin called /\ ~Waiting(q)
        BY <1>3, <2>2, <3>1 DEF HandedInv
      <4>2. ~Waiting(q)'
        BY <1>1, <3>1, TriggerWaiting
      <4>3. QED
        BY <4>1, <4>2 DEF Waiting
    <3>2. CASE ~(FdOf[q] = f /\ TypeOf[q] \in types)
      BY <1>1, <3>2, TriggerWaiting
    <3>3. QED
      BY <3>1, <3>2
  <2>3. QED
    BY <2>1, <2>2
<1>8. Accurate'
  <2> SUFFICES ASSUME NEW g \in Fds, NEW type \in Types
               PROVE  /\ type \in m_current'[g] =>
                           \E q \in called : FdOf[q] = g /\ TypeOf[q] = type
                      /\ type \in interest'[g] \/ (\E v \in Workers : type \in batch'[v][g]) =>
                           \E q \in called : /\ FdOf[q] = g /\ TypeOf[q] = type
                                             /\ Waiting(q)' \/ type \notin m_current'[g]
    BY <1>1 DEF Accurate
  <2>1. CASE g # f
    <3>1. type \in interest'[g] \/ (\E v \in Workers : type \in batch'[v][g])
            => type \in interest[g] \/ (\E v \in Workers : type \in batch[v][g])
      BY <1>5, <1>6, <2>1
    <3>2. \A q \in called : FdOf[q] = g => Waiting(q)' = Waiting(q)
      BY <1>2, <1>7, <2>1 DEF TypeOK
    <3>3. QED
      BY <1>6, <2>1, <3>1, <3>2 DEF Accurate
  <2>2. CASE g = f
    <3>1. \A v \in Workers : type \in batch'[v][f] =>
            \E q \in called : FdOf[q] = f /\ TypeOf[q] = type
      BY <1>6 DEF Accurate
    <3>2. QED
      BY <1>4, <1>5, <2>2, <3>1
  <2>3. QED
    BY <2>1, <2>2
<1>9. m_waitingevents' = Cardinality(WaitingRegs')
  <2>1. WaitingRegs' = WaitingRegs \ {r} /\ r \in WaitingRegs
    BY <1>2, <1>7 DEF WaitingRegs, TypeOK
  <2>2. IsFiniteSet(WaitingRegs) /\ Cardinality(WaitingRegs) \in Nat
    <3>1. WaitingRegs \subseteq Regs
      BY DEF WaitingRegs
    <3>2. QED
      BY <3>1, FS_Subset, FS_CardinalityType
  <2>3. /\ IsFiniteSet(WaitingRegs') /\ Cardinality(WaitingRegs') \in Nat
        /\ Cardinality(WaitingRegs') = Cardinality(WaitingRegs) - 1
    BY <2>1, <2>2, FS_RemoveElement, FS_CardinalityType
  <2>4. Cardinality(types) = 1
    BY <1>4, FS_Singleton
  <2>5. UintMod \in Nat \ {0} /\ m_waitingevents < UintMod
    BY EventAssumption DEF TypeOK
  <2>6. QED
    BY <1>1, <2>2, <2>3, <2>4, <2>5
<1>10. QED
  BY <1>8, <1>9

LEMMA CountStep ==
  ASSUME IsFiniteSet(Regs), Cardinality(Regs) < UintMod,
         TypeOK, HandedInv, CountInv, [Next]_vars
  PROVE  CountInv'
<1> SUFFICES ASSUME NoneTwice' PROVE Accurate' /\ m_waitingevents' = Cardinality(WaitingRegs')
  BY DEF CountInv
<1>1. called \subseteq called'
  BY StepCases DEF RegisterEvent, Handle, CancelEvent, Still
<1>2. NoneTwice /\ Accurate /\ m_waitingevents = Cardinality(WaitingRegs)
  BY <1>1 DEF NoneTwice, CountInv
<1>3. ASSUME NEW g \in Fds, CancelEvent(g)
      PROVE  Accurate' /\ m_waitingevents' = Cardinality(WaitingRegs')
  <2>1. /\ UNCHANGED <<contextVars, called, m_waitingevents, batch>>
        /\ \A f \in Fds : interest'[f] \subseteq interest[f]
    BY <1>3 DEF CancelEvent, Forget, TypeOK, workerVars
  <2>2. \A r \in Regs : Waiting(r)' = Waiting(r)
    BY <2>1 DEF Waiting, Context, contextVars
  <2>3. Accurate'
    BY <1>2, <2>1, <2>2 DEF Accurate, TypeOK, contextVars
  <2>4. QED
    BY <1>2, <2>1, <2>2, <2>3 DEF WaitingRegs
<1>4. ASSUME Still
      PROVE  Accurate' /\ m_waitingevents' = Cardinality(WaitingRegs')
  <2>1. \A r \in Regs : Waiting(r)' = Waiting(r)
    BY <1>4 DEF Still, Waiting, Context, contextVars
  <2>2. Accurate'
    BY <1>2, <1>4, <2>1 DEF Accurate, Still, TypeOK, contextVars
  <2>3. QED
    BY <1>2, <1>4, <2>1, <2>2 DEF WaitingRegs, Still
<1>5. QED
  BY <1>2, <1>3, <1>4, CountRegister, CountHandle, StepCases

(* WaitingEventsCount: where no descriptor is registered twice,            *)
(* m_waitingevents is the number of events that wait, if the registrations *)
(* are fewer than the counter counts.                                      *)
THEOREM CounterCounts ==
  ASSUME IsFiniteSet(Regs), Cardinality(Regs) < UintMod
  PROVE  Spec => []WaitingEventsCount
<1>1. CountInv => WaitingEventsCount
  BY DEF CountInv, WaitingEventsCount, NoneTwice, WaitingRegs
<1>2. TypeOK /\ HandedInv /\ CountInv /\ [Next]_vars => CountInv'
  BY CountStep
<1>3. QED
  BY <1>1, <1>2, TypeCorrect, CountInit, HandedInvInit, HandedInvStep, PTL DEF Spec

=============================================================================
