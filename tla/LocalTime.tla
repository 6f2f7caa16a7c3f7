------------------------------ MODULE LocalTime ------------------------------
(***************************************************************************)
(* Class Time (src/include/times.h, src/src/manager/times.cpp): getters    *)
(* that refresh the one m_local_date of the process under m_mutex and read *)
(* it after they have let go of the mutex.  update() turns the system's    *)
(* local time into another time zone by adding hours.                      *)
(*                                                                         *)
(* The clock counts hours; minutes, seconds and the year are left out, and *)
(* so is m_computer_time, which nothing refreshes.                         *)
(*                                                                         *)
(* TimerManagerProofs.tla extends TimerManager and this module, so names   *)
(* that both would have, like Init, are TimeInit here, and pc is at.       *)
(***************************************************************************)
EXTENDS Naturals, Sequences, FiniteSets

CONSTANTS
  Threads,
  Hours,       (* the hours of a day                                       *)
  Offset,      (* the hours update() adds                                  *)
  DaysIn,      (* the days of each month                                   *)
  Weekdays,    (* the days of a week                                       *)
  none,        (* no thread                                                *)
  FirstHour,   (* bounds: the hours the clock                              *)
  LastHour     (*   goes through                                           *)

ASSUME TimeAssumption ==
  /\ Hours \in Nat \ {0} /\ Offset \in 0..Hours
  /\ DaysIn \in Seq(Nat \ {0}) /\ Weekdays \in Nat \ {0}
  /\ FirstHour \in Nat /\ LastHour \in Nat /\ FirstHour <= LastHour
  /\ none \notin Threads

VARIABLES
  clock,         (* the system's local time                                *)
  m_local_date,
  m_mutex,       (* the thread that holds it, or none                      *)
  at,            (* where each thread is in a getter                       *)
  asked,         (* when it called update()                                *)
  result         (* what it has read last                                  *)

timevars == <<clock, m_local_date, m_mutex, at, asked, result>>

-----------------------------------------------------------------------------
(* localtime(): the date of an hour.                                       *)

(* The days before each month.                                             *)
DaysBefore[m \in 1..Len(DaysIn)] == IF m = 1 THEN 0 ELSE DaysBefore[m - 1] + DaysIn[m - 1]

localtime(hour) ==
  LET day == hour \div Hours
      month == CHOOSE m \in 1..Len(DaysIn) : DaysBefore[m] <= day /\ day < DaysBefore[m] + DaysIn[m]
  IN [hour |-> hour % Hours, weekday |-> day % Weekdays,
      monthday |-> day - DaysBefore[month] + 1, month |-> month]

-----------------------------------------------------------------------------
(* The constructor's now_time(), one hour further and without a carry.     *)
TimeInit ==
  /\ clock = FirstHour
  /\ m_local_date = [localtime(FirstHour) EXCEPT !.hour = @ + Offset + 1]
  /\ m_mutex = none
  /\ at = [t \in Threads |-> "idle"]
  /\ asked = [t \in Threads |-> FirstHour]
  /\ result = [t \in Threads |-> localtime(FirstHour + Offset)]

Lock(t) ==
  /\ at[t] = "idle" /\ m_mutex = none
  /\ m_mutex' = t
  /\ at' = [at EXCEPT ![t] = "set"]
  /\ UNCHANGED <<clock, m_local_date, asked, result>>

(* update(): the fields of localtime(), with the hours added.              *)
SetDate(t) ==
  /\ at[t] = "set"
  /\ m_local_date' = [localtime(clock) EXCEPT !.hour = @ + Offset]
  /\ asked' = [asked EXCEPT ![t] = clock]
  /\ at' = [at EXCEPT ![t] = "carry"]
  /\ UNCHANGED <<clock, m_mutex, result>>

(* Mutant: the test for the next day is off by one.                        *)
NextDayLate(date) ==
  IF date.hour > Hours
  THEN [date EXCEPT !.hour = @ - Hours, !.weekday = @ + 1, !.monthday = @ + 1]
  ELSE date

(* The hours may lead into the next day.                                   *)
NextDay(date) ==
  IF date.hour >= Hours
  THEN [date EXCEPT !.hour = @ - Hours, !.weekday = @ + 1, !.monthday = @ + 1]
  ELSE date

(* The carry, and the end of update().                                     *)
Carry(t) ==
  /\ at[t] = "carry"
  /\ m_local_date' = NextDay(m_local_date)
  /\ m_mutex' = none
  /\ at' = [at EXCEPT ![t] = "read"]
  /\ UNCHANGED <<clock, asked, result>>

(* The getter's return.                                                    *)
Read(t) ==
  /\ at[t] = "read"
  /\ result' = [result EXCEPT ![t] = m_local_date]
  /\ at' = [at EXCEPT ![t] = "idle"]
  /\ UNCHANGED <<clock, m_local_date, m_mutex, asked>>

HourPasses ==
  /\ clock < LastHour
  /\ clock' = clock + 1
  /\ UNCHANGED <<m_local_date, m_mutex, at, asked, result>>

Step(t) == Lock(t) \/ SetDate(t) \/ Carry(t) \/ Read(t)

TimeNext == HourPasses \/ \E t \in Threads : Step(t)

TimeSpec == TimeInit /\ [][TimeNext]_timevars

-----------------------------------------------------------------------------
(* Properties                                                              *)

(* What a getter reads while no update() is under way is the date in the   *)
(* other time zone at some moment of its call, although it reads after it  *)
(* has let go of the mutex and others may have called update() since       *)
(* (times.cpp): neither a date half computed nor an old one.               *)
ReadsTheTime ==
  [][\A t \in Threads :
       at[t] = "read" /\ at'[t] = "idle" /\ m_mutex = none =>
         result'[t] \in {localtime(hour + Offset) : hour \in asked[t]..clock}]_timevars

==============================================================================
