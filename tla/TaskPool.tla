------------------------------ MODULE TaskPool ------------------------------
(***************************************************************************)
(* What a scheduler promises the clients of dispatch(), with no queue, no  *)
(* coroutine object and no machine context: a task is handed in once, it   *)
(* runs on at most one thread at a time, a thread runs at most one task,   *)
(* a task that gives the thread back is either waiting for its next turn   *)
(* or suspended until somebody resumes it, and a task is over only when    *)
(* its body has ended.  Schedule.tla is shown to implement this.           *)
(***************************************************************************)

CONSTANTS
  Workers,   (* the threads of the pool                                    *)
  Tasks,     (* the tasks clients hand to the scheduler                    *)
  NoWorker   (* "no thread is running this task": not one of Workers       *)

VARIABLES
  status,    (* where each task is in its life                             *)
  runner     (* the thread running it                                      *)

poolVars == <<status, runner>>

TaskStatus == {"new", "queued", "running", "suspended", "finished"}

PoolTypeOK ==
  /\ status \in [Tasks -> TaskStatus]
  /\ runner \in [Tasks -> Workers \cup {NoWorker}]

PoolInit ==
  /\ status = [t \in Tasks |-> "new"]
  /\ runner = [t \in Tasks |-> NoWorker]

Submit(t) ==
  /\ status[t] = "new"
  /\ status' = [status EXCEPT ![t] = "queued"]
  /\ UNCHANGED runner

Start(t, w) ==
  /\ status[t] = "queued"
  /\ \A u \in Tasks : runner[u] # w
  /\ status' = [status EXCEPT ![t] = "running"]
  /\ runner' = [runner EXCEPT ![t] = w]

(* A running task gives its thread back: for another turn, until somebody  *)
(* resumes it, or for good.                                                *)
Leave(t) ==
  /\ status[t] = "running"
  /\ \E s \in {"queued", "suspended", "finished"} :
       status' = [status EXCEPT ![t] = s]
  /\ runner' = [runner EXCEPT ![t] = NoWorker]

Resume(t) ==
  /\ status[t] = "suspended"
  /\ status' = [status EXCEPT ![t] = "queued"]
  /\ UNCHANGED runner

PoolNext ==
  \E t \in Tasks :
     \/ Submit(t)
     \/ \E w \in Workers : Start(t, w)
     \/ Leave(t)
     \/ Resume(t)

PoolSpec == PoolInit /\ [][PoolNext]_poolVars

=============================================================================
