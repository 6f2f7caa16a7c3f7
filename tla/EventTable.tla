----------------------------- MODULE EventTable -----------------------------
(***************************************************************************)
(* The event table of io_schedule: RegisterEvent, CancelEvent, DeleteEvent *)
(* and the loop of idle() over what epoll_wait delivered (src/src/io/      *)
(* io.cpp), on class event (src/include/event.h, event.cpp).               *)
(*                                                                         *)
(* The kernel's side is modelled as the code uses it: an edge-triggered    *)
(* interest per descriptor, EEXIST for adding twice, ENOENT for changing   *)
(* what is not there, EFAULT for delivering into a null buffer.            *)
(*                                                                         *)
(* RegisterEvent and the handling of one event hold the write lock of the  *)
(* event from beginning to end, and are one step each.  epoll_wait is a    *)
(* step of its own, so what it delivered may be out of date when handled.  *)
(***************************************************************************)
EXTENDS Naturals, FiniteSets

CONSTANTS
  Fds,          (* descriptor numbers; not 0, for which resize(2*0) makes  *)
                (* no room                                                 *)
  Pollable,     (* those epoll accepts: it refuses a regular file          *)
  Workers,      (* the threads in idle()                                   *)
  Regs,         (* the calls of RegisterEvent                              *)
  FdOf, TypeOf, (* their first two arguments                               *)
  Callbacks,    (* those with a callback; the others wait as a coroutine   *)
  Scheduled,    (* those called where get_this_schedule() is not null: on  *)
                (* the thread that called start(), not on a pool thread    *)
  Cancels,      (* the descriptors CancelEvent and DeleteEvent get         *)
  None,
  UintMod       (* bound: m_waitingevents counts modulo this, not 2^32     *)

Types == {"READ", "WRITE"}

ASSUME EventAssumption ==
  /\ Fds \subseteq Nat \ {0} /\ Pollable \subseteq Fds /\ Cancels \subseteq Nat
  /\ FdOf \in [Regs -> Fds] /\ TypeOf \in [Regs -> Types]
  /\ Callbacks \subseteq Regs /\ Scheduled \subseteq Regs
  /\ None \notin Regs
  /\ UintMod \in Nat \ {0}

VARIABLES
  size,             (* m_fds.size()                                        *)
  m_current,        (* per descriptor: the types believed to be monitored  *)
  s_function,       (* per descriptor and type: the callback waiting,      *)
  s_coroutine,      (*   the coroutine waiting,                            *)
  s_scheduler,      (*   and is there a scheduler to hand it to?           *)
  m_waitingevents,
  inEpoll,          (* the kernel: the descriptors it knows,               *)
  interest,         (*   the types it monitors,                            *)
  junk,             (*   those whose data word is not their event,         *)
  ready,            (*   the types ready,                                  *)
  edge,             (*   those with an event to deliver                    *)
  pc,               (* each thread: in epoll_wait, handling, or wrecked    *)
  buffer,           (* has it still got its epoll_event buffer?            *)
  batch,            (* what epoll_wait delivered to it                     *)
  cancelling,       (* the descriptors between the two locks of CancelEvent*)
  called,           (* history: the registrations made,                    *)
  handed,           (*   how often each was handed to the pool,            *)
  cancelled         (*   the descriptors CancelEvent returned true for     *)

contextVars == <<m_current, s_function, s_coroutine, s_scheduler>>
kernelVars == <<inEpoll, interest, junk, ready, edge>>
workerVars == <<pc, buffer, batch>>
historyVars == <<called, handed, cancelled>>
vars == <<size, contextVars, m_waitingevents, kernelVars, workerVars,
          cancelling, historyVars>>

HandedBound == 2     (* bound: handed counts no further                    *)

TypeOK ==
  /\ size \in Nat
  /\ m_current \in [Fds -> SUBSET Types]
  /\ s_function \in [Fds \X Types -> Callbacks \cup {None}]
  /\ s_coroutine \in [Fds \X Types -> (Regs \ Callbacks) \cup {None}]
  /\ s_scheduler \in [Fds \X Types -> BOOLEAN]
  /\ m_waitingevents \in 0..(UintMod - 1)
  /\ inEpoll \subseteq Pollable /\ junk \subseteq inEpoll /\ edge \subseteq inEpoll
  /\ interest \in [Fds -> SUBSET Types] /\ ready \in [Fds -> SUBSET Types]
  /\ pc \in [Workers -> {"poll", "handle", "undefined"}]
  /\ buffer \in [Workers -> BOOLEAN]
  /\ batch \in [Workers -> [Fds -> SUBSET Types]]
  /\ cancelling \subseteq Fds
  /\ called \subseteq Regs /\ cancelled \subseteq Fds
  /\ handed \in [Regs -> 0..HandedBound]

Init ==
  /\ size = 0
  /\ m_current = [f \in Fds |-> {}]
  /\ s_function = [x \in Fds \X Types |-> None]
  /\ s_coroutine = [x \in Fds \X Types |-> None]
  /\ s_scheduler = [x \in Fds \X Types |-> FALSE]
  /\ m_waitingevents = 0
  /\ inEpoll = {} /\ junk = {} /\ edge = {}
  /\ interest = [f \in Fds |-> {}] /\ ready = [f \in Fds |-> {}]
  /\ pc = [w \in Workers |-> "poll"]
  /\ buffer = [w \in Workers |-> TRUE]
  /\ batch = [w \in Workers |-> [f \in Fds |-> {}]]
  /\ cancelling = {}
  /\ called = {} /\ cancelled = {}
  /\ handed = [r \in Regs |-> 0]

(* GetContext(): a context of its own for reading and for writing.         *)
Context(r) == <<FdOf[r], TypeOf[r]>>

Waiting(r) == s_function[Context(r)] = r \/ s_coroutine[Context(r)] = r

-----------------------------------------------------------------------------
(* The kernel.  A descriptor gets an event when something arrives that it  *)
(* monitors, or when it is added or changed while ready.                   *)

Arrive(f, type) ==
  /\ ready' = [ready EXCEPT ![f] = @ \cup {type}]
  /\ edge' = IF f \in inEpoll /\ type \in interest[f] THEN edge \cup {f} ELSE edge
  /\ UNCHANGED <<size, contextVars, m_waitingevents, inEpoll, interest, junk,
                 workerVars, cancelling, historyVars>>

(* Somebody reads what is there, or fills the buffer.                      *)
Consume(f, type) ==
  /\ type \in ready[f]
  /\ ready' = [ready EXCEPT ![f] = @ \ {type}]
  /\ UNCHANGED <<size, contextVars, m_waitingevents, inEpoll, interest, junk,
                 edge, workerVars, cancelling, historyVars>>

(* Adding or changing: the new interest, and a data word that is the event *)
(* or is not.                                                              *)
Monitor(f, types, isJunk) ==
  /\ inEpoll' = inEpoll \cup {f}
  /\ interest' = [interest EXCEPT ![f] = types]
  /\ junk' = IF isJunk THEN junk \cup {f} ELSE junk \ {f}
  /\ edge' = IF types \cap ready[f] # {} THEN edge \cup {f} ELSE edge \ {f}

Forget(f) ==
  /\ inEpoll' = inEpoll \ {f}
  /\ interest' = [interest EXCEPT ![f] = {}]
  /\ junk' = junk \ {f}
  /\ edge' = edge \ {f}

-----------------------------------------------------------------------------
(* epoll_ctl succeeds: MOD if something is believed to be monitored, else  *)
(* ADD, and that has to agree with the kernel.                             *)
Accepted(f) == f \in Pollable /\ (m_current[f] # {}) = (f \in inEpoll)

(* A callback replaces the callback stored before, a coroutine the         *)
(* coroutine: one context may come to hold both.                           *)
Store(r, x) ==
  \/ /\ r \in Callbacks
     /\ s_function' = [s_function EXCEPT ![x] = r]
     /\ UNCHANGED s_coroutine
  \/ /\ r \notin Callbacks
     /\ s_coroutine' = [s_coroutine EXCEPT ![x] = r]
     /\ UNCHANGED s_function

(* resize() only ever adds entries.                                        *)
Resized(wanted) == IF wanted < size THEN size ELSE wanted

(* m_current is changed before epoll_ctl, and is not changed back when it  *)
(* fails; the caller is not told.                                          *)
RegisterEvent(r) ==
  LET f == FdOf[r]
      x == Context(r)
      types == m_current[f] \cup {TypeOf[r]}
  IN
  /\ r \notin called
  /\ called' = called \cup {r}
  /\ size' = IF size > f THEN size ELSE Resized(2 * f)
  /\ m_current' = [m_current EXCEPT ![f] = types]
  /\ \/ /\ Accepted(f)
        /\ Monitor(f, types, FALSE)
        /\ m_waitingevents' = (m_waitingevents + 1) % UintMod
        /\ s_scheduler' = [s_scheduler EXCEPT ![x] = r \in Scheduled]
        /\ Store(r, x)
     \/ /\ ~Accepted(f)
        /\ UNCHANGED <<m_waitingevents, s_function, s_coroutine, s_scheduler,
                       inEpoll, interest, junk, edge>>
  /\ UNCHANGED <<ready, workerVars, cancelling, handed, cancelled>>

(* CancelEvent asks under the read lock and acts under the write lock.     *)
CancelCheck(f) ==
  /\ f \in Fds /\ f < size /\ m_current[f] # {}
  /\ f \notin cancelling
  /\ cancelling' = cancelling \cup {f}
  /\ UNCHANGED <<size, contextVars, m_waitingevents, kernelVars, workerVars,
                 historyVars>>

(* Faulty: m_current is cleared and the contexts are not.                  *)
CancelAndClear(f) ==
  /\ f \in cancelling
  /\ cancelling' = cancelling \ {f}
  /\ Forget(f)
  /\ m_current' = [m_current EXCEPT ![f] = {}]
  /\ cancelled' = cancelled \cup {f}
  /\ UNCHANGED <<size, s_function, s_coroutine, s_scheduler, m_waitingevents,
                 ready, workerVars, called, handed>>

(* Only the kernel is told.                                                *)
CancelEvent(f) ==
  /\ f \in cancelling
  /\ cancelling' = cancelling \ {f}
  /\ Forget(f)
  /\ cancelled' = cancelled \cup {f}
  /\ UNCHANGED <<size, contextVars, m_waitingevents, ready, workerVars, called,
                 handed>>

(* DeleteEvent returns false for every descriptor of the table and for the *)
(* one behind its end.  Larger ones, for which it would read outside of    *)
(* the vector, are not in Cancels.                                         *)
DeleteEvent(f, type) ==
  /\ f <= size
  /\ UNCHANGED vars

-----------------------------------------------------------------------------
(* epoll_wait.  Without a buffer it fails if there is an event, and leaves *)
(* it.  An event with a wrong data word is taken for one of the pipe or    *)
(* passed over if it is null, or leads anywhere.                           *)
Delivered == {f \in edge : interest[f] \cap ready[f] # {}}

Poll(w) ==
  /\ pc[w] = "poll"
  /\ IF buffer[w]
     THEN /\ batch' = [batch EXCEPT ![w] =
                         [f \in Fds |-> IF f \in Delivered \ junk
                                        THEN interest[f] \cap ready[f] ELSE {}]]
          /\ edge' = {}
          /\ \E wrecked \in BOOLEAN :
               /\ wrecked => Delivered \cap junk # {}
               /\ pc' = [pc EXCEPT ![w] = IF wrecked THEN "undefined" ELSE "handle"]
     ELSE /\ pc' = [pc EXCEPT ![w] = "handle"]
          /\ UNCHANGED <<batch, edge>>
  /\ UNCHANGED <<size, contextVars, m_waitingevents, inEpoll, interest, junk,
                 ready, buffer, cancelling, historyVars>>

(* TriggerEvent: clear the bits, hand the callback and the coroutine to    *)
(* the scheduler, which moves them out of the context, and forget it.      *)
HandOver(f, types) ==
  handed' = [r \in Regs |->
    IF FdOf[r] = f /\ TypeOf[r] \in types /\ Waiting(r) /\ handed[r] < HandedBound
    THEN handed[r] + 1 ELSE handed[r]]

(* Faulty: the callback is copied into the task.                           *)
TriggerByCopy(f, types) ==
  LET xs == {f} \X types IN
  /\ m_current' = [m_current EXCEPT ![f] = @ \ types]
  /\ HandOver(f, types)
  /\ s_coroutine' = [x \in Fds \X Types |-> IF x \in xs THEN None ELSE s_coroutine[x]]
  /\ s_scheduler' = [x \in Fds \X Types |-> x \notin xs /\ s_scheduler[x]]
  /\ UNCHANGED s_function

TriggerEvent(f, types) ==
  LET xs == {f} \X types IN
  /\ m_current' = [m_current EXCEPT ![f] = @ \ types]
  /\ HandOver(f, types)
  /\ s_function' = [x \in Fds \X Types |-> IF x \in xs THEN None ELSE s_function[x]]
  /\ s_coroutine' = [x \in Fds \X Types |-> IF x \in xs THEN None ELSE s_coroutine[x]]
  /\ s_scheduler' = [x \in Fds \X Types |-> x \notin xs /\ s_scheduler[x]]

(* Is there a waiting callback or coroutine and no scheduler to take it?   *)
Unschedulable(f, types) ==
  \E r \in Regs : /\ FdOf[r] = f /\ TypeOf[r] \in types /\ Waiting(r)
                  /\ ~s_scheduler[Context(r)]

(* Faulty: the type that is left is worked out from what was delivered.    *)
LeftOfDelivered(f, types) == {"READ", "WRITE"} \ types

Left(f, types) == m_current[f] \ types

(* Faulty: a stale event that finds nothing monitored is handled as well.  *)
NeverStale(f, types) == FALSE

Stale(f, types) == types \cap m_current[f] = {}

PassOver(w, f) ==
  /\ pc[w] = "handle" /\ batch[w][f] # {}
  /\ Stale(f, batch[w][f])
  /\ batch' = [batch EXCEPT ![w][f] = {}]
  /\ UNCHANGED <<size, contextVars, m_waitingevents, kernelVars, pc, buffer,
                 cancelling, historyVars>>

(* What is left to be monitored is given to epoll_ctl in an epoll_event    *)
(* nobody has initialised; if nothing is left the descriptor is removed.   *)
(* The delivered types are not restricted to m_current.                    *)
Handle(w, f) ==
  LET types == batch[w][f] IN
  /\ pc[w] = "handle" /\ types # {}
  /\ ~Stale(f, types)
  /\ ~Unschedulable(f, types)
  /\ \/ /\ Left(f, types) # {} /\ f \in inEpoll
        /\ \/ \E garbage \in SUBSET Types, isJunk \in BOOLEAN : Monitor(f, garbage, isJunk)
           \/ UNCHANGED <<inEpoll, interest, junk, edge>>
     \/ /\ Left(f, types) = {} \/ f \notin inEpoll
        /\ Forget(f)
  /\ TriggerEvent(f, types)
  /\ m_waitingevents' = (m_waitingevents + UintMod - Cardinality(types)) % UintMod
  /\ batch' = [batch EXCEPT ![w][f] = {}]
  /\ UNCHANGED <<size, ready, pc, buffer, cancelling, called, cancelled>>

(* The same with a null s_scheduler, which dispatch is called on.          *)
HandleWithoutScheduler(w, f) ==
  /\ pc[w] = "handle" /\ batch[w][f] # {}
  /\ ~Stale(f, batch[w][f])
  /\ Unschedulable(f, batch[w][f])
  /\ pc' = [pc EXCEPT ![w] = "undefined"]
  /\ UNCHANGED <<size, contextVars, m_waitingevents, kernelVars, buffer, batch,
                 cancelling, historyVars>>

(* The pass ends and the buffer is deleted; the next pass polls without.   *)
EndPass(w) ==
  /\ pc[w] = "handle" /\ \A f \in Fds : batch[w][f] = {}
  /\ buffer' = [buffer EXCEPT ![w] = FALSE]
  /\ pc' = [pc EXCEPT ![w] = "poll"]
  /\ UNCHANGED <<size, contextVars, m_waitingevents, kernelVars, batch,
                 cancelling, historyVars>>

-----------------------------------------------------------------------------
WorkerStep(w) ==
  \/ Poll(w)
  \/ \E f \in Fds : PassOver(w, f) \/ Handle(w, f) \/ HandleWithoutScheduler(w, f)
  \/ EndPass(w)

Clients ==
  \/ \E r \in Regs : RegisterEvent(r)
  \/ \E f \in Cancels : CancelCheck(f) \/ CancelEvent(f)
  \/ \E f \in Cancels, type \in Types : DeleteEvent(f, type)

Kernel == \E f \in Fds, type \in Types : Arrive(f, type) \/ Consume(f, type)

Next == Clients \/ Kernel \/ \E w \in Workers : WorkerStep(w)

Spec == Init /\ [][Next]_vars

-----------------------------------------------------------------------------
(* However many threads hold a delivered event of one descriptor, each     *)
(* registration is handed to the pool at most once (io.cpp:214-218).       *)
HandedOnce == \A r \in Regs : handed[r] <= 1

(* What waits in a context is believed to be monitored, so that a later    *)
(* event does not pass it over (io.cpp:215).                               *)
WaitingIsCurrent ==
  /\ TypeOK
  /\ \A r \in Regs : Waiting(r) => TypeOf[r] \in m_current[FdOf[r]]

(* Where every registration of an event was made under a scheduler, no     *)
(* event finds something to hand over and no scheduler to hand it to,      *)
(* although each trigger sets s_scheduler to null (event.cpp:44).          *)
SchedulerIsThere ==
  \A r \in Regs :
     Waiting(r) /\ {q \in called : FdOf[q] = FdOf[r] /\ TypeOf[q] = TypeOf[r]}
                     \subseteq Scheduled
     => s_scheduler[<<FdOf[r], TypeOf[r]>>]

(* The kernel knows no descriptor that m_current has forgotten, and as     *)
(* long as nobody cancels m_current tells ADD from MOD rightly, so that no *)
(* registration is lost without a word (io.cpp:81, 93-99).                 *)
KnownToKernel ==
  \A f \in Pollable :
     /\ f \in inEpoll => m_current[f] # {}
     /\ f \notin cancelled /\ m_current[f] # {} => f \in inEpoll

(* m_waitingevents, which can_stop() asks for, is the number of events     *)
(* waiting for execution (io.h:30), as long as no descriptor is registered *)
(* twice: an event that two threads got is counted down once.              *)
WaitingEventsCount ==
  (\A q, r \in called : q # r => FdOf[q] # FdOf[r])
    => m_waitingevents = Cardinality({r \in Regs : Waiting(r)})

=============================================================================
