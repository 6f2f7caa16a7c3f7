---------------------------- MODULE TimerManager ----------------------------
(***************************************************************************)
(* Class Timer_manager (src/include/timer.h, src/src/concurrent/timer.cpp) *)
(* as the workers use it from io_schedule::idle: a std::set of timers      *)
(* whose comparator is <= on m_start, collected by several threads, under  *)
(* a clock that may be set back.                                           *)
(*                                                                         *)
(* With <= for an ordering, two equal elements are each "less" than the    *)
(* other: the set keeps them both, the newer one first, and find() never   *)
(* finds anything.  The model computes insert, lower_bound and find from   *)
(* the comparator the way the red-black tree does.  Not modelled: refresh  *)
(* and reset, whose shared_from_this() throws because timer inherits       *)
(* enable_shared_from_this privately.                                      *)
(***************************************************************************)
EXTENDS Naturals, Sequences, FiniteSets, SequencesExt

CONSTANTS
  Timers,      (* the timers clients add, once each                        *)
  Workers,     (* the threads that call GetExpiredList                     *)
  Cyclic,      (* the timers with m_cyclic                                 *)
  m_delay,     (* the delay of each timer                                  *)
  Hour,        (* how far back the clock must go to count as adjusted      *)
  LastTime     (* bound: the clock stops here                              *)

ASSUME TimerAssumption ==
  /\ Cyclic \subseteq Timers
  /\ m_delay \in [Timers -> Nat]
  /\ Hour \in Nat \ {0} /\ LastTime \in Nat /\ Hour <= LastTime

VARIABLES
  m_timers,    (* the set, in the order of its iterator                    *)
  m_start,     (* when each timer is due                                   *)
  m_previous,  (* the time GetExpiredList saw last                         *)
  now,         (* GetCurrentMs()                                           *)
  added,       (* the timers that have been added                          *)
  refused,     (* has DeleteTimer answered false?                          *)
  deleted,     (* those it has found and erased, returning true            *)
  pc,          (* where each worker is in GetExpiredList                   *)
  tasks,       (* the functions each worker has collected                  *)
  handed       (* how often each timer's function was dispatched (0, 1, 2) *)

vars == <<m_timers, m_start, m_previous, now, added, refused, deleted, pc, tasks, handed>>

TypeOK ==
  /\ m_timers \in Seq(Timers)
  /\ m_start \in [Timers -> 0..(2 * LastTime)]
  /\ m_previous \in 0..LastTime /\ now \in 0..LastTime
  /\ added \subseteq Timers /\ deleted \subseteq added /\ refused \in BOOLEAN
  /\ pc \in [Workers -> {"idle", "collect", "dispatch"}]
  /\ tasks \in [Workers -> SUBSET Timers]
  /\ handed \in [Timers -> 0..2]

Init ==
  /\ m_timers = <<>>
  /\ m_start = [t \in Timers |-> 0]
  /\ now \in {0, Hour}
  /\ m_previous = now
  /\ added = {} /\ refused = FALSE /\ deleted = {}
  /\ pc = [w \in Workers |-> "idle"]
  /\ tasks = [w \in Workers |-> {}]
  /\ handed = [t \in Timers |-> 0]

-----------------------------------------------------------------------------
(* timer::comparator.                                                      *)
Before(a, b) == a <= b

(* lower_bound: the first position whose element does not come before the  *)
(* key.  The set is sorted, so the search down the tree finds the same.    *)
LowerBound(set, start, key) ==
  CHOOSE i \in 1..(Len(set) + 1) :
     /\ \A j \in 1..(i - 1) : Before(start[set[j]], key)
     /\ i <= Len(set) => ~Before(start[set[i]], key)

(* Faulty: insert at the end.                                              *)
InsertLast(set, start, t) == Append(set, t)

(* insert: the tree goes left when the key comes before an element, so the *)
(* new timer is placed in front of the first one it comes before.          *)
InsertTimer(set, start, t) ==
  LET i == CHOOSE k \in 1..(Len(set) + 1) :
             /\ \A j \in 1..(k - 1) : ~Before(start[t], start[set[j]])
             /\ k <= Len(set) => Before(start[t], start[set[k]])
  IN InsertAt(set, i, t)

(* find: lower_bound, and end() if the key comes before what is there.     *)
Find(set, start, t) ==
  LET i == LowerBound(set, start, start[t])
  IN IF i <= Len(set) /\ ~Before(start[t], start[set[i]]) THEN i ELSE 0

AddTimer(t) ==
  /\ t \notin added
  /\ now + m_delay[t] <= LastTime
  /\ m_start' = [m_start EXCEPT ![t] = now + m_delay[t]]
  /\ m_timers' = InsertTimer(m_timers, m_start', t)
  /\ added' = added \cup {t}
  /\ UNCHANGED <<m_previous, now, refused, deleted, pc, tasks, handed>>

DeleteTimer(t) ==
  /\ t \in added
  /\ LET i == Find(m_timers, m_start, t) IN
       \/ i = 0 /\ refused' = TRUE /\ UNCHANGED <<m_timers, deleted>>
       \/ i # 0 /\ m_timers' = RemoveAt(m_timers, i)
                /\ deleted' = deleted \cup {t}
                /\ UNCHANGED refused
  /\ UNCHANGED <<m_start, m_previous, now, added, pc, tasks, handed>>

-----------------------------------------------------------------------------
(* GetExpiredList looks at the set under the read lock, and goes on under  *)
(* the write lock only if it was not empty.                                *)
Look(w) ==
  /\ pc[w] = "idle"
  /\ m_timers # <<>>
  /\ pc' = [pc EXCEPT ![w] = "collect"]
  /\ UNCHANGED <<m_timers, m_start, m_previous, now, added, refused, deleted, tasks, handed>>

(* DetectClockAdjust; its second call compares now with itself.            *)
Adjusted == now + Hour < m_previous

(* Faulty: a timer due right now is still to come.                         *)
NothingDueYet == m_timers # <<>> /\ now <= m_start[m_timers[1]]

(* The earliest timer is still to come.  Another worker may have emptied   *)
(* the set in between: *begin() is then the header of the tree, whose      *)
(* first word past the node is the element count, 0, a null timer.         *)
NothingDue == m_timers # <<>> /\ now < m_start[m_timers[1]]

(* Faulty: the timers due now are left for the next round.                 *)
ExpiredBefore == {i \in 1..Len(m_timers) : m_start[m_timers[i]] < now}

(* The timers in front of lower_bound(now).                                *)
Expired == 1..(LowerBound(m_timers, m_start, now) - 1)

(* Faulty: a cyclic timer is not put back.                                 *)
PutNothingBack(due, start, set) == set

(* A timer that is collected is inserted again if it is cyclic.            *)
Again(set, start, t) == IF t \in Cyclic THEN InsertTimer(set, start, t) ELSE set

(* One after the other, in their order.                                    *)
PutBack(due, start, set) ==
  LET put[k \in 0..Len(due)] == IF k = 0 THEN set ELSE Again(put[k - 1], start, due[k])
  IN put[Len(due)]

Rest(n) == SubSeq(m_timers, n + 1, Len(m_timers))

Collect(w) ==
  /\ pc[w] = "collect"
  /\ m_previous' = now
  /\ \/ /\ ~Adjusted /\ NothingDue
        /\ pc' = [pc EXCEPT ![w] = "idle"]
        /\ UNCHANGED <<m_timers, m_start, tasks>>
     \/ /\ Adjusted \/ ~NothingDue
        /\ LET n == Cardinality(Expired)
               due == SubSeq(m_timers, 1, n)
           IN /\ m_start' = [t \in Timers |->
                               IF t \in ToSet(due) \cap Cyclic
                               THEN now + m_delay[t] ELSE m_start[t]]
              /\ m_timers' = PutBack(due, m_start', Rest(n))
              /\ tasks' = [tasks EXCEPT ![w] = ToSet(due)]
        /\ pc' = [pc EXCEPT ![w] = "dispatch"]
  /\ UNCHANGED <<now, added, refused, deleted, handed>>

(* idle() dispatches the functions it was given.                           *)
Dispatch(w) ==
  /\ pc[w] = "dispatch"
  /\ handed' = [t \in Timers |-> IF t \in tasks[w] /\ handed[t] < 2
                                 THEN handed[t] + 1 ELSE handed[t]]
  /\ tasks' = [tasks EXCEPT ![w] = {}]
  /\ pc' = [pc EXCEPT ![w] = "idle"]
  /\ UNCHANGED <<m_timers, m_start, m_previous, now, added, refused, deleted>>

-----------------------------------------------------------------------------
Tick ==
  /\ now < LastTime
  /\ now' = now + 1
  /\ UNCHANGED <<m_timers, m_start, m_previous, added, refused, deleted, pc, tasks, handed>>

(* gettimeofday() may go back.                                             *)
SetBack ==
  /\ \E time \in 0..LastTime : time < now /\ now' = time
  /\ UNCHANGED <<m_timers, m_start, m_previous, added, refused, deleted, pc, tasks, handed>>

Next ==
  \/ \E t \in Timers : AddTimer(t) \/ DeleteTimer(t)
  \/ \E w \in Workers : Look(w) \/ Collect(w) \/ Dispatch(w)
  \/ Tick
  \/ SetBack

Spec == Init /\ [][Next]_vars

(* Time passes, and the workers keep calling GetExpiredList.               *)
FairSpec ==
  /\ Spec
  /\ WF_vars(Tick)
  /\ \A w \in Workers : WF_vars(Look(w) \/ Collect(w) \/ Dispatch(w))

-----------------------------------------------------------------------------
(* The set stays sorted by due time, which every search in it and the test *)
(* for "nothing due" rely on (timer.cpp:92), and holds a timer once,       *)
(* although its ordering does not know equality (timer.h:39); for which    *)
(* reason DeleteTimer finds nothing, and no timer goes but by expiring.    *)
SortedOnce ==
  /\ TypeOK /\ deleted = {}
  /\ \A i, j \in 1..Len(m_timers) : i < j =>
       /\ m_start[m_timers[i]] <= m_start[m_timers[j]]
       /\ m_timers[i] # m_timers[j]

(* However many workers collect, and wherever the clock goes, a timer that *)
(* is not cyclic hands in its function once, and a cyclic one is missing   *)
(* from the set only while the write lock is held (timer.cpp:103-115).     *)
OnceOrCyclic ==
  /\ \A t \in Timers \ Cyclic :
       handed[t] + Cardinality({w \in Workers : t \in tasks[w]}) <= 1
  /\ \A t \in (Cyclic \cap added) \ deleted : t \in ToSet(m_timers)

(* What is collected is due, and everything due is collected: no timer due *)
(* now is left behind by a worker that got past the test (timer.cpp:92-104)*)
CollectsExactlyDue ==
  [][\A w \in Workers : pc[w] = "collect" /\ pc'[w] = "dispatch" =>
       /\ tasks'[w] = {t \in ToSet(m_timers) : m_start[t] <= now}
       /\ \A t \in ToSet(m_timers') : m_start'[t] > now]_vars

(* Unless the clock is set back for ever, every timer fires.               *)
EveryTimerFires ==
  <>[][now' >= now]_vars => \A t \in Timers : t \in added ~> handed[t] > 0

=============================================================================
