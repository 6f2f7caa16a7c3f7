---------------------------- MODULE LoggerProofs ----------------------------
(***************************************************************************)
(* Proofs about Logger, and about LogEvents and LogFormat in it: for any   *)
(* statements, appenders and days, one thread that logs, and any patterns. *)
(*                                                                         *)
(* The events come first, with the invariant EventInv; then explain(),     *)
(* with OrderInv for every pattern and PlainInv for those the loggers are  *)
(* built with; then both together.                                         *)
(***************************************************************************)
EXTENDS Logger, SequenceTheorems, FiniteSetTheorems, WellFoundedInduction, TLAPS

(* The inductive invariant of the log statements, for one thread that      *)
(* logs.  There is one wrap, and who is behind GetLogeventWrap() has it.   *)
Wrapping == {"wrap", "updata", "push", "stream", "write"}

OneWrap ==
  /\ made = m_wrap /\ m_wrap \in {0, 1}
  /\ m_wrap = 0 => m_event[1] = null /\ m_events[1] = <<>> /\ m_recordings[1] = <<>>
  /\ \A t \in Threads :
       /\ pc[t] = "create" => m_wrap = 0
       /\ pc[t] \in Wrapping => m_wrap = 1 /\ this[t] = 1

(* A statement is begun once, and the one that is executed was begun last. *)
LastBegun ==
  /\ \A p, q \in DOMAIN begun : begun[p] = begun[q] => p = q
  /\ \A t \in Threads :
       IF pc[t] \in {"idle", "undefined"} THEN own[t] = null
       ELSE begun # <<>> /\ own[t] = begun[Len(begun)]

(* Only a statement that has been begun has a date: from updata() on.      *)
Dates ==
  /\ \A s \in Statements : dayOf[s] # 0 => s \in ToSet(begun)
  /\ \A t \in Threads :
       /\ pc[t] \in {"get", "create", "wrap", "updata"} => dayOf[own[t]] = 0
       /\ pc[t] \in {"push", "stream", "write"} => dayOf[own[t]] # 0

(* e is the last statement that has not been left out.                     *)
LastDated(e) == dayOf[e] # 0 /\ \A s \in Statements : dayOf[s] # 0 => Begun(s, e)

(* The current event is that of the statement which is executed, from      *)
(* wrap() on, and otherwise the last that has not been left out.           *)
CurrentEvent ==
  \A t \in Threads :
    /\ pc[t] \in Wrapping \ {"wrap"} => m_event[1] = own[t]
    /\ pc[t] = "write" => stream[t] = own[t]
    /\ pc[t] = "console" /\ dayOf[own[t]] # 0 => m_event[1] = own[t]
    /\ pc[t] \notin Wrapping \ {"wrap"} =>
         IF m_event[1] = null THEN \A s \in Statements : dayOf[s] = 0
         ELSE LastDated(m_event[1])

(* An event has its own message and nothing else, once it is written.      *)
Contents ==
  \A s \in Statements :
    content[s] = IF \/ dayOf[s] = 0
                    \/ \E t \in Threads : own[t] = s /\ pc[t] \in {"push", "stream", "write"}
                 THEN <<>> ELSE <<s>>

(* What has been logged: whole events, in the order they were begun, ...   *)
Logged ==
  /\ \A n \in DOMAIN output :
       dayOf[output[n].event] # 0 /\ output[n].text = <<output[n].event>>
  /\ \A m, n \in DOMAIN output : m < n => Begun(output[m].event, output[n].event)

(* ... and all but the one that is executed, by each steady appender.      *)
AllLogged ==
  \A a \in steady, s \in Statements : dayOf[s] # 0 =>
    \/ \E n \in DOMAIN output : output[n].event = s /\ output[n].by = a
    \/ \E t \in Threads : own[t] = s

(* The events of one list are of the same day of a month.                  *)
SameMonthDay(list) == \A e, f \in ToSet(list) : MonthDayOf[dayOf[e]] = MonthDayOf[dayOf[f]]

Lists ==
  /\ \A e \in ToSet(m_events[1]) :
       dayOf[e] # 0 /\ m_day[1] # 0 /\ MonthDayOf[dayOf[e]] = MonthDayOf[m_day[1]]
  /\ \A k \in DOMAIN m_recordings[1] :
       /\ \A e \in ToSet(m_recordings[1][k]) : dayOf[e] # 0
       /\ SameMonthDay(m_recordings[1][k])
  /\ \A t \in Threads : pc[t] = "push" => m_day[1] # 0 /\ dayOf[own[t]] = m_day[1]

EventInv ==
  /\ TypeOK
  /\ OneWrap /\ LastBegun /\ Dates /\ CurrentEvent /\ Contents /\ Logged /\ AllLogged /\ Lists

-----------------------------------------------------------------------------
LEMMA LeastOf ==
  ASSUME NEW T \in SUBSET Nat, T # {}
  PROVE  \E m \in T : \A n \in T : m <= n
<1> DEFINE R == OpToRel(<, Nat)
<1>1. IsWellFoundedOn(R, Nat)
  BY NatLessThanWellFounded
<1>2. \A x, y \in Nat : <<y, x>> \in R <=> y < x
  BY DEF OpToRel
<1> HIDE DEF R
<1>3. PICK m \in T : \A n \in T : ~(<<n, m>> \in R)
  BY <1>1, WFMin
<1>4. ASSUME NEW n \in T PROVE m <= n
  <2>1. m \in Nat /\ n \in Nat
    OBVIOUS
  <2>2. ~(n < m)
    BY <1>2, <1>3, <2>1
  <2>3. QED
    BY <2>1, <2>2
<1>5. QED
  BY <1>4

LEMMA Members ==
  ASSUME NEW S, NEW s \in Seq(S)
  PROVE  /\ \A k \in 1..Len(s) : s[k] \in ToSet(s) /\ s[k] \in S
         /\ \A x \in ToSet(s) : x \in S /\ \E k \in 1..Len(s) : s[k] = x
<1>1. DOMAIN s = 1..Len(s)
  OBVIOUS
<1>2. \A k \in 1..Len(s) : s[k] \in S
  BY ElementOfSeq
<1>3. QED
  BY <1>1, <1>2 DEF ToSet

LEMMA Appended ==
  ASSUME NEW S, NEW s \in Seq(S), NEW e \in S
  PROVE  /\ Append(s, e) \in Seq(S)
         /\ Len(Append(s, e)) = Len(s) + 1
         /\ \A k \in 1..Len(s) : Append(s, e)[k] = s[k]
         /\ Append(s, e)[Len(s) + 1] = e
         /\ ToSet(Append(s, e)) = ToSet(s) \union {e}
<1>1. /\ Append(s, e) \in Seq(S)
      /\ Len(Append(s, e)) = Len(s) + 1
      /\ \A k \in 1..Len(s) : Append(s, e)[k] = s[k]
      /\ Append(s, e)[Len(s) + 1] = e
  BY AppendProperties
<1> DEFINE r == Append(s, e)
<1>2. Len(s) \in Nat /\ \A k \in 1..Len(r) : k \in 1..Len(s) \/ k = Len(s) + 1
  BY <1>1
<1> HIDE DEF r
<1>3. ASSUME NEW x \in ToSet(r) PROVE x \in ToSet(s) \union {e}
  <2>1. PICK k \in 1..Len(r) : r[k] = x
    BY <1>1, Members DEF r
  <2>2. (r[k] = s[k] /\ k \in 1..Len(s)) \/ r[k] = e
    BY <1>1, <1>2 DEF r
  <2>3. QED
    BY <2>1, <2>2, Members
<1>4. ASSUME NEW x \in ToSet(s) \union {e} PROVE x \in ToSet(r)
  <2>1. CASE x = e
    <3>1. r[Len(s) + 1] = x /\ Len(s) + 1 \in 1..Len(r)
      BY <1>1, <1>2, <2>1 DEF r
    <3>2. r \in Seq(S)
      BY <1>1 DEF r
    <3>3. QED
      BY <3>1, <3>2, Members
  <2>2. CASE x \in ToSet(s)
    <3>1. PICK k \in 1..Len(s) : s[k] = x
      BY <2>2, Members
    <3>2. r[k] = x /\ k \in 1..Len(r) /\ r \in Seq(S)
      BY <1>1, <1>2, <3>1 DEF r
    <3>3. QED
      BY <3>2, Members
  <2>3. QED
    BY <2>1, <2>2
<1>5. ToSet(r) = ToSet(s) \union {e}
  BY <1>3, <1>4
<1>6. QED
  BY <1>1, <1>5 DEF r

(* There is one place for a wrap if there is one thread.                   *)
LEMMA OnePlace ==
  ASSUME NEW t, Threads = {t}
  PROVE  Wraps = {1} /\ Cardinality(Threads) = 1
<1>1. Cardinality({t}) = 1
  BY FS_Singleton
<1>2. QED
  BY <1>1 DEF Wraps

LEMMA EventInvInit ==
  ASSUME NEW t, Threads = {t}, Init
  PROVE  EventInv
<1> USE DEF Init
<1>1. Wraps = {1} /\ Cardinality(Threads) = 1
  BY OnePlace
<1>2. ToSet(<<console>>) = {console} /\ <<console>> \in Seq(Appenders)
  BY LogAssumption, Members DEF ToSet
<1>3. TypeOK
  <2>1. /\ begun \in Seq(Statements)
        /\ output \in Seq([event : Statements, text : Seq(Statements), by : Appenders])
        /\ m_events \in [Wraps -> Seq(Statements)]
        /\ m_recordings \in [Wraps -> Seq(Seq(Statements))]
        /\ content \in [Statements -> Seq(Statements)]
    OBVIOUS
  <2>2. /\ m_appender \in Seq(Appenders) /\ changed \in 0..Changes
        /\ steady \subseteq ToSet(m_appender)
    <3>1. m_appender = <<console>> /\ changed = 0 /\ steady = {console}
      OBVIOUS
    <3> HIDE DEF Init
    <3>2. 0 \in 0..Changes
      BY LogAssumption
    <3>3. QED
      BY <1>2, <3>1, <3>2
  <2>3. /\ m_wrap \in 0..made /\ made \in 0..Cardinality(Threads)
        /\ m_day \in [Wraps -> 0..LastDay]
        /\ this \in [Threads -> 0..made] /\ dayOf \in [Statements -> 0..LastDay]
    BY <1>1, LogAssumption
  <2>6. today \in 1..LastDay
    BY LogAssumption
  <2>4. /\ m_event \in [Wraps -> Statements \union {null}]
        /\ pc \in [Threads -> {"idle", "get", "create", "wrap", "updata", "push",
                           "stream", "write", "console", "undefined"}]
        /\ own \in [Threads -> Statements \union {null}]
        /\ stream \in [Threads -> Statements \union {null}]
    OBVIOUS
  <2>5. QED
    BY <2>1, <2>2, <2>3, <2>4, <2>6 DEF TypeOK
<1>4. OneWrap /\ LastBegun /\ Dates /\ CurrentEvent
  BY <1>1 DEF OneWrap, LastBegun, Dates, CurrentEvent, Wrapping
<1>5. Contents /\ Logged /\ AllLogged
  BY DEF Contents, Logged, AllLogged
<1>6. Lists
  BY <1>1 DEF Lists, ToSet
<1>7. QED
  BY <1>3, <1>4, <1>5, <1>6 DEF EventInv

(* The statement that is executed is the last that was begun.              *)
LEMMA Busy ==
  ASSUME EventInv, NEW t \in Threads, pc[t] \notin {"idle", "undefined"}
  PROVE  /\ own[t] \in Statements /\ own[t] # null
         /\ own[t] \in ToSet(begun)
         /\ \A s \in ToSet(begun) : Begun(s, own[t])
<1>1. begun \in Seq(Statements) /\ begun # <<>> /\ own[t] = begun[Len(begun)]
  BY DEF EventInv, TypeOK, LastBegun
<1>2. Len(begun) \in Nat /\ Len(begun) \in 1..Len(begun) /\ DOMAIN begun = 1..Len(begun)
  BY <1>1
<1>3. own[t] \in Statements /\ own[t] \in ToSet(begun)
  BY <1>1, <1>2, Members
<1>4. ASSUME NEW s \in ToSet(begun) PROVE Begun(s, own[t])
  <2>1. PICK p \in 1..Len(begun) : begun[p] = s
    BY <1>1, Members
  <2>2. p <= Len(begun)
    BY <1>2
  <2>3. QED
    BY <1>1, <1>2, <2>1, <2>2 DEF Begun
<1>5. QED
  BY <1>3, <1>4, LogAssumption

LEMMA OutputLines ==
  ASSUME TypeOK
  PROVE  /\ DOMAIN output = 1..Len(output) /\ Len(output) \in Nat
         /\ \A n \in DOMAIN output :
              /\ output[n] \in [event : Statements, text : Seq(Statements), by : Appenders]
              /\ output[n].event \in Statements /\ output[n].by \in Appenders
<1>1. output \in Seq([event : Statements, text : Seq(Statements), by : Appenders])
  BY DEF TypeOK
<1>2. DOMAIN output = 1..Len(output) /\ Len(output) \in Nat
  BY <1>1
<1>3. \A n \in DOMAIN output : output[n] \in [event : Statements, text : Seq(Statements), by : Appenders]
  BY <1>1, <1>2, ElementOfSeq
<1>4. QED
  BY <1>2, <1>3

LEMMA LoggedKept ==
  ASSUME Logged, UNCHANGED <<output, dayOf, begun>>
  PROVE  Logged'
<1>1. output' = output /\ dayOf' = dayOf /\ begun' = begun
  OBVIOUS
<1>2. QED
  BY <1>1 DEF Logged, Begun

LEMMA AllLoggedKept ==
  ASSUME AllLogged, UNCHANGED <<output, own, steady, dayOf>>
  PROVE  AllLogged'
<1>1. output' = output /\ own' = own /\ steady' = steady /\ dayOf' = dayOf
  OBVIOUS
<1>2. QED
  BY <1>1 DEF AllLogged

(* GetLogeventWrap() looks for the wrap.                                   *)
LEMMA FindWrapStep ==
  ASSUME NEW t, Threads = {t}, EventInv, FindWrap(t)
  PROVE  EventInv'
<1> USE DEF Go, wraps, appenders, threads
<1>1. /\ Wraps = {1} /\ Cardinality(Threads) = 1
      /\ t \in Threads /\ LogAssumption
  BY OnePlace, LogAssumption
<1>2. /\ TypeOK /\ OneWrap /\ LastBegun /\ Dates /\ CurrentEvent
      /\ Contents /\ Logged /\ AllLogged /\ Lists
  BY DEF EventInv
<1>10. TypeOK'
  BY <1>1, <1>2 DEF FindWrap, TypeOK
<1>11. OneWrap'
  BY <1>1, <1>2 DEF FindWrap, OneWrap, Wrapping, TypeOK
<1>12. LastBegun'
  BY <1>1, <1>2 DEF FindWrap, LastBegun, TypeOK
<1>13. Dates'
  BY <1>1, <1>2 DEF FindWrap, Dates, TypeOK
<1>14. CurrentEvent'
  BY <1>1, <1>2 DEF FindWrap, CurrentEvent, Wrapping, LastDated, Begun, TypeOK
<1>15. Contents'
  BY <1>1, <1>2 DEF FindWrap, Contents, TypeOK
<1>16. Logged'
  BY <1>2, LoggedKept DEF FindWrap
<1>17. AllLogged'
  BY <1>2, AllLoggedKept DEF FindWrap
<1>18. Lists'
  BY <1>1, <1>2 DEF FindWrap, Lists, SameMonthDay, TypeOK
<1>99. QED
  BY <1>10, <1>11, <1>12, <1>13, <1>14, <1>15, <1>16, <1>17, <1>18 DEF EventInv

(* GetLogeventWrap() makes the wrap.                                       *)
LEMMA CreateWrapStep ==
  ASSUME NEW t, Threads = {t}, EventInv, CreateWrap(t)
  PROVE  EventInv'
<1> USE DEF Go, wraps, appenders, threads
<1>1. /\ Wraps = {1} /\ Cardinality(Threads) = 1
      /\ t \in Threads /\ LogAssumption
  BY OnePlace, LogAssumption
<1>2. /\ TypeOK /\ OneWrap /\ LastBegun /\ Dates /\ CurrentEvent
      /\ Contents /\ Logged /\ AllLogged /\ Lists
  BY DEF EventInv
<1>10. TypeOK'
  <2>1. made = 0 /\ m_wrap = 0 /\ made' = 1 /\ m_wrap' = 1
    BY <1>1, <1>2 DEF CreateWrap, NewWrap, NewWrap, OneWrap
  <2>2. this' \in [Threads -> {0, 1}] /\ m_day' \in [Wraps -> 0..LastDay]
    BY <1>1, <1>2, <2>1 DEF CreateWrap, NewWrap, NewWrap, TypeOK
  <2>3. 0..made' = {0, 1} /\ 0..Cardinality(Threads) = {0, 1}
    BY <1>1, <2>1
  <2>4. QED
    BY <1>1, <1>2, <2>1, <2>2, <2>3 DEF CreateWrap, NewWrap, TypeOK
<1>11. OneWrap'
  BY <1>1, <1>2 DEF CreateWrap, NewWrap, OneWrap, Wrapping, TypeOK
<1>12. LastBegun'
  BY <1>1, <1>2 DEF CreateWrap, NewWrap, LastBegun, TypeOK
<1>13. Dates'
  BY <1>1, <1>2 DEF CreateWrap, NewWrap, Dates, TypeOK
<1>14. CurrentEvent'
  BY <1>1, <1>2 DEF CreateWrap, NewWrap, CurrentEvent, Wrapping, LastDated, Begun, TypeOK
<1>15. Contents'
  BY <1>1, <1>2 DEF CreateWrap, NewWrap, Contents, TypeOK
<1>16. Logged'
  BY <1>2, LoggedKept DEF CreateWrap
<1>17. AllLogged'
  BY <1>2, AllLoggedKept DEF CreateWrap
<1>18. Lists'
  <2>1. m_events[1] = <<>> /\ m_recordings[1] = <<>>
    BY <1>1, <1>2 DEF CreateWrap, NewWrap, OneWrap
  <2>2. /\ m_events' = m_events /\ m_recordings' = m_recordings
        /\ pc' = [pc EXCEPT ![t] = "wrap"]
    BY DEF CreateWrap
  <2>3. ToSet(<<>>) = {} /\ DOMAIN <<>> = {}
    BY DEF ToSet
  <2>4. m_events'[1] = <<>> /\ m_recordings'[1] = <<>>
    BY <2>1, <2>2
  <2>5. pc'[t] # "push"
    BY <1>1, <1>2, <2>2 DEF TypeOK
  <2>6. QED
    BY <1>1, <2>3, <2>4, <2>5 DEF Lists
<1>99. QED
  BY <1>10, <1>11, <1>12, <1>13, <1>14, <1>15, <1>16, <1>17, <1>18 DEF EventInv

(* wrap() sets the current event.                                          *)
LEMMA WrapStep ==
  ASSUME NEW t, Threads = {t}, EventInv, Wrap(t)
  PROVE  EventInv'
<1> USE DEF Go, wraps, appenders, threads
<1>1. /\ Wraps = {1} /\ Cardinality(Threads) = 1
      /\ t \in Threads /\ LogAssumption
  BY OnePlace, LogAssumption
<1>2. /\ TypeOK /\ OneWrap /\ LastBegun /\ Dates /\ CurrentEvent
      /\ Contents /\ Logged /\ AllLogged /\ Lists
  BY DEF EventInv
<1>3. own[t] \in Statements /\ own[t] # null /\ own[t] \in ToSet(begun)
  <2>1. pc[t] = "wrap"
    BY DEF Wrap
  <2>2. QED
    BY <1>1, <2>1, Busy
<1>4. m_wrap = 1 /\ this[t] = 1 /\ m_event' = [m_event EXCEPT ![1] = own[t]]
  BY <1>1, <1>2, <1>3 DEF Wrap, TypeOK, OneWrap, CurrentEvent, Wrapping
<1>10. TypeOK'
  BY <1>1, <1>2, <1>3, <1>4 DEF Wrap, TypeOK
<1>11. OneWrap'
  BY <1>1, <1>2, <1>3, <1>4 DEF Wrap, OneWrap, Wrapping, TypeOK
<1>12. LastBegun'
  BY <1>1, <1>2, <1>3, <1>4 DEF Wrap, LastBegun, TypeOK
<1>13. Dates'
  BY <1>1, <1>2, <1>3, <1>4 DEF Wrap, Dates, TypeOK
<1>14. CurrentEvent'
  BY <1>1, <1>2, <1>3, <1>4 DEF Wrap, CurrentEvent, Wrapping, LastDated, Begun, TypeOK
<1>15. Contents'
  BY <1>1, <1>2, <1>3, <1>4 DEF Wrap, Contents, TypeOK
<1>16. Logged'
  BY <1>2, LoggedKept DEF Wrap
<1>17. AllLogged'
  BY <1>2, AllLoggedKept DEF Wrap
<1>18. Lists'
  BY <1>1, <1>2, <1>3, <1>4 DEF Wrap, Lists, SameMonthDay, TypeOK
<1>99. QED
  BY <1>10, <1>11, <1>12, <1>13, <1>14, <1>15, <1>16, <1>17, <1>18 DEF EventInv

(* wrap() keeps the event for the day.                                     *)
LEMMA PushBackStep ==
  ASSUME NEW t, Threads = {t}, EventInv, PushBack(t)
  PROVE  EventInv'
<1> USE DEF Go, wraps, appenders, threads
<1>1. /\ Wraps = {1} /\ Cardinality(Threads) = 1
      /\ t \in Threads /\ LogAssumption
  BY OnePlace, LogAssumption
<1>2. /\ TypeOK /\ OneWrap /\ LastBegun /\ Dates /\ CurrentEvent
      /\ Contents /\ Logged /\ AllLogged /\ Lists
  BY DEF EventInv
<1>3. own[t] \in Statements /\ own[t] # null /\ own[t] \in ToSet(begun)
  <2>1. pc[t] = "push"
    BY DEF PushBack
  <2>2. QED
    BY <1>1, <2>1, Busy
<1>4. m_wrap = 1 /\ this[t] = 1 /\ m_events' = [m_events EXCEPT ![1] = Append(@, own[t])]
  BY <1>1, <1>2, <1>3 DEF PushBack, TypeOK, OneWrap, CurrentEvent, Wrapping
<1>10. TypeOK'
  <2>1. m_events \in [Wraps -> Seq(Statements)] /\ m_events[1] \in Seq(Statements)
    BY <1>1, <1>2 DEF TypeOK
  <2>2. Append(m_events[1], own[t]) \in Seq(Statements)
    BY <1>3, <2>1, Appended
  <2>3. m_events' \in [Wraps -> Seq(Statements)]
    BY <1>4, <2>1, <2>2
  <2>4. QED
    BY <1>1, <1>2, <2>3 DEF PushBack, TypeOK
<1>11. OneWrap'
  BY <1>1, <1>2, <1>3, <1>4 DEF PushBack, OneWrap, Wrapping, TypeOK
<1>12. LastBegun'
  BY <1>1, <1>2, <1>3, <1>4 DEF PushBack, LastBegun, TypeOK
<1>13. Dates'
  BY <1>1, <1>2, <1>3, <1>4 DEF PushBack, Dates, TypeOK
<1>14. CurrentEvent'
  BY <1>1, <1>2, <1>3, <1>4 DEF PushBack, CurrentEvent, Wrapping, LastDated, Begun, TypeOK
<1>15. Contents'
  BY <1>1, <1>2, <1>3, <1>4 DEF PushBack, Contents, TypeOK
<1>16. Logged'
  BY <1>2, LoggedKept DEF PushBack
<1>17. AllLogged'
  BY <1>2, AllLoggedKept DEF PushBack
<1>18. Lists'
  <2>1. m_events[1] \in Seq(Statements) /\ 1 \in Wraps /\ m_events \in [Wraps -> Seq(Statements)]
    BY <1>1, <1>2 DEF TypeOK
  <2>2. m_events'[1] = Append(m_events[1], own[t])
    BY <1>4, <2>1
  <2>3. ToSet(m_events'[1]) = ToSet(m_events[1]) \union {own[t]}
    BY <1>3, <2>1, <2>2, Appended
  <2>4. /\ dayOf[own[t]] # 0 /\ m_day[1] # 0 /\ MonthDayOf[dayOf[own[t]]] = MonthDayOf[m_day[1]]
        /\ \A e \in ToSet(m_events[1]) :
             dayOf[e] # 0 /\ m_day[1] # 0 /\ MonthDayOf[dayOf[e]] = MonthDayOf[m_day[1]]
    BY <1>1, <1>2 DEF PushBack, Dates, Lists
  <2>5. pc'[t] # "push" /\ m_recordings' = m_recordings /\ dayOf' = dayOf /\ m_day' = m_day
    BY <1>1, <1>2 DEF PushBack, TypeOK
  <2>6. \A e \in ToSet(m_events'[1]) :
          dayOf'[e] # 0 /\ m_day'[1] # 0 /\ MonthDayOf[dayOf'[e]] = MonthDayOf[m_day'[1]]
    BY <2>3, <2>4, <2>5
  <2>7. \A n \in DOMAIN m_recordings'[1] :
          /\ \A e \in ToSet(m_recordings'[1][n]) : dayOf'[e] # 0
          /\ SameMonthDay(m_recordings[1][n])'
    BY <1>2, <2>5 DEF Lists, SameMonthDay
  <2>8. QED
    BY <1>1, <2>5, <2>6, <2>7 DEF Lists, SameMonthDay
<1>99. QED
  BY <1>10, <1>11, <1>12, <1>13, <1>14, <1>15, <1>16, <1>17, <1>18 DEF EventInv

(* The stream is that of the current event, which is the statement's own.  *)
LEMMA get_streamStep ==
  ASSUME NEW t, Threads = {t}, EventInv, get_stream(t)
  PROVE  EventInv'
<1> USE DEF Go, wraps, appenders, threads
<1>1. /\ Wraps = {1} /\ Cardinality(Threads) = 1
      /\ t \in Threads /\ LogAssumption
  BY OnePlace, LogAssumption
<1>2. /\ TypeOK /\ OneWrap /\ LastBegun /\ Dates /\ CurrentEvent
      /\ Contents /\ Logged /\ AllLogged /\ Lists
  BY DEF EventInv
<1>3. own[t] \in Statements /\ own[t] # null /\ own[t] \in ToSet(begun)
  <2>1. pc[t] = "stream"
    BY DEF get_stream
  <2>2. QED
    BY <1>1, <2>1, Busy
<1>4. m_wrap = 1 /\ stream' = [stream EXCEPT ![t] = own[t]]
  BY <1>1, <1>2, <1>3 DEF get_stream, TypeOK, OneWrap, CurrentEvent, Wrapping
<1>10. TypeOK'
  BY <1>1, <1>2, <1>3, <1>4 DEF get_stream, TypeOK
<1>11. OneWrap'
  BY <1>1, <1>2, <1>3, <1>4 DEF get_stream, OneWrap, Wrapping, TypeOK
<1>12. LastBegun'
  BY <1>1, <1>2, <1>3, <1>4 DEF get_stream, LastBegun, TypeOK
<1>13. Dates'
  BY <1>1, <1>2, <1>3, <1>4 DEF get_stream, Dates, TypeOK
<1>14. CurrentEvent'
  <2>1. /\ pc'[t] = "write" /\ stream'[t] = own[t] /\ m_event[1] = own[t]
        /\ m_event' = m_event /\ own' = own
    BY <1>1, <1>2, <1>4 DEF get_stream, TypeOK, CurrentEvent, Wrapping
  <2>2. QED
    BY <1>1, <2>1 DEF CurrentEvent, Wrapping
<1>15. Contents'
  BY <1>1, <1>2, <1>3, <1>4 DEF get_stream, Contents, TypeOK
<1>16. Logged'
  BY <1>2, LoggedKept DEF get_stream
<1>17. AllLogged'
  BY <1>2, AllLoggedKept DEF get_stream
<1>18. Lists'
  BY <1>1, <1>2, <1>3, <1>4 DEF get_stream, Lists, SameMonthDay, TypeOK
<1>99. QED
  BY <1>10, <1>11, <1>12, <1>13, <1>14, <1>15, <1>16, <1>17, <1>18 DEF EventInv

(* The message goes into the statement's own event.                        *)
LEMMA WriteStep ==
  ASSUME NEW t, Threads = {t}, EventInv, Write(t)
  PROVE  EventInv'
<1> USE DEF Go, wraps, appenders, threads
<1>1. /\ Wraps = {1} /\ Cardinality(Threads) = 1
      /\ t \in Threads /\ LogAssumption
  BY OnePlace, LogAssumption
<1>2. /\ TypeOK /\ OneWrap /\ LastBegun /\ Dates /\ CurrentEvent
      /\ Contents /\ Logged /\ AllLogged /\ Lists
  BY DEF EventInv
<1>3. own[t] \in Statements /\ own[t] # null /\ own[t] \in ToSet(begun)
  <2>1. pc[t] = "write"
    BY DEF Write
  <2>2. QED
    BY <1>1, <2>1, Busy
<1>4. content[own[t]] = <<>> /\ content' = [content EXCEPT ![own[t]] = <<own[t]>>]
  <2>1. stream[t] = own[t] /\ content[own[t]] = <<>>
    BY <1>1, <1>2, <1>3 DEF Write, CurrentEvent, Contents
  <2>2. Append(<<>>, own[t]) = <<own[t]>>
    BY <1>3
  <2>3. content' = [content EXCEPT ![stream[t]] = Append(content[stream[t]], own[t])]
    BY DEF Write
  <2>4. QED
    BY <2>1, <2>2, <2>3
<1>5. \A s \in ToSet(begun) : Begun(s, own[t])
  <2>1. pc[t] = "write"
    BY DEF Write
  <2>2. QED
    BY <1>1, <2>1, Busy
<1>10. TypeOK'
  <2>1. content' \in [Statements -> Seq(Statements)]
    BY <1>2, <1>3, <1>4 DEF TypeOK
  <2>2. QED
    BY <1>2, <2>1 DEF Write, TypeOK
<1>11. OneWrap'
  BY <1>1, <1>2, <1>3, <1>4 DEF Write, OneWrap, Wrapping, TypeOK
<1>12. LastBegun'
  BY <1>1, <1>2, <1>3, <1>4 DEF Write, LastBegun, TypeOK
<1>13. Dates'
  BY <1>1, <1>2, <1>3, <1>4 DEF Write, Dates, TypeOK
<1>14. CurrentEvent'
  <2>1. m_event[1] = own[t] /\ dayOf[own[t]] # 0
    BY <1>1, <1>2 DEF Write, CurrentEvent, Dates, Wrapping
  <2>2. LastDated(own[t])
    BY <1>2, <1>5, <2>1 DEF LastDated, Dates
  <2>3. /\ m_event' = m_event /\ own' = own /\ dayOf' = dayOf /\ begun' = begun
        /\ pc'[t] = "console"
    BY <1>1, <1>2 DEF Write, TypeOK
  <2>4. LastDated(own[t])'
    BY <2>2, <2>3 DEF LastDated, Begun
  <2>5. QED
    BY <1>1, <1>3, <2>1, <2>3, <2>4 DEF CurrentEvent, Wrapping
<1>15. Contents'
  <2>1. pc'[t] = "console" /\ own' = own /\ dayOf' = dayOf /\ dayOf[own[t]] # 0
    BY <1>1, <1>2 DEF Write, TypeOK, Dates
  <2>2. \A s \in Statements : content'[s] = IF s = own[t] THEN <<s>> ELSE content[s]
    BY <1>2, <1>3, <1>4 DEF TypeOK
  <2>3. \A s \in Statements : s # own[t] => content[s] = IF dayOf[s] = 0 THEN <<>> ELSE <<s>>
    BY <1>1, <1>2 DEF Contents
  <2>4. QED
    BY <1>1, <2>1, <2>2, <2>3 DEF Contents
<1>16. Logged'
  BY <1>2, LoggedKept DEF Write
<1>17. AllLogged'
  BY <1>2, AllLoggedKept DEF Write
<1>18. Lists'
  BY <1>1, <1>2, <1>3, <1>4 DEF Write, Lists, SameMonthDay, TypeOK
<1>99. QED
  BY <1>10, <1>11, <1>12, <1>13, <1>14, <1>15, <1>16, <1>17, <1>18 DEF EventInv

(* updata() moves the events of the day if it is over.                     *)
LEMMA updataStep ==
  ASSUME NEW t, Threads = {t}, EventInv, updata(t)
  PROVE  EventInv'
<1> USE DEF Go, wraps, appenders, threads
<1>1. /\ Wraps = {1} /\ Cardinality(Threads) = 1
      /\ t \in Threads /\ LogAssumption
  BY OnePlace, LogAssumption
<1>2. /\ TypeOK /\ OneWrap /\ LastBegun /\ Dates /\ CurrentEvent
      /\ Contents /\ Logged /\ AllLogged /\ Lists
  BY DEF EventInv
<1>3. own[t] \in Statements /\ own[t] # null /\ own[t] \in ToSet(begun)
  <2>1. pc[t] = "updata"
    BY DEF updata
  <2>2. QED
    BY <1>1, <2>1, Busy
<1>4. /\ this[t] = 1 /\ m_wrap = 1
      /\ m_recordings' = [m_recordings EXCEPT ![1] = Recorded(1)]
      /\ m_events' = [m_events EXCEPT ![1] = EventsLeft(1)]
      /\ m_day' = [m_day EXCEPT ![1] = today]
      /\ dayOf' = [dayOf EXCEPT ![own[t]] = today]
  BY <1>1, <1>2, <1>3 DEF updata, OneWrap, Wrapping
<1>5. today # 0
  BY <1>1, <1>2 DEF TypeOK
<1>10. TypeOK'
  <2>1. m_events[1] \in Seq(Statements) /\ m_recordings[1] \in Seq(Seq(Statements)) /\ today \in 0..LastDay
    BY <1>1, <1>2 DEF TypeOK
  <2>2. <<>> \in Seq(Statements) /\ <<>> \in Seq(Seq(Statements)) /\ <<m_events[1]>> \in Seq(Seq(Statements))
    BY <2>1
  <2>3. EventsLeft(1) \in Seq(Statements)
    BY <2>1, <2>2 DEF EventsLeft
  <2>4. Recorded(1) \in Seq(Seq(Statements))
    BY <2>1, <2>2 DEF Recorded
  <2>5. /\ m_events' \in [Wraps -> Seq(Statements)] /\ m_recordings' \in [Wraps -> Seq(Seq(Statements))]
        /\ m_day' \in [Wraps -> 0..LastDay] /\ dayOf' \in [Statements -> 0..LastDay]
    BY <1>2, <1>4, <2>1, <2>3, <2>4 DEF TypeOK
  <2>6. QED
    BY <1>2, <2>5 DEF updata, TypeOK
<1>11. OneWrap'
  BY <1>1, <1>2, <1>4 DEF updata, OneWrap, Wrapping, TypeOK
<1>12. LastBegun'
  BY <1>1, <1>2, <1>3, <1>4 DEF updata, LastBegun, TypeOK
<1>13. Dates'
  <2>1. pc'[t] = "push" /\ own' = own /\ begun' = begun /\ dayOf'[own[t]] # 0
    BY <1>1, <1>2, <1>3, <1>4, <1>5 DEF updata, TypeOK
  <2>2. \A s \in Statements : s # own[t] => dayOf'[s] = dayOf[s]
    BY <1>2, <1>4 DEF TypeOK
  <2>3. QED
    BY <1>1, <1>2, <1>3, <2>1, <2>2 DEF Dates
<1>14. CurrentEvent'
  BY <1>1, <1>2, <1>3, <1>4 DEF updata, CurrentEvent, Wrapping, LastDated, Begun, TypeOK
<1>15. Contents'
  <2>1. pc'[t] = "push" /\ own' = own /\ content' = content /\ dayOf[own[t]] = 0 /\ dayOf'[own[t]] # 0
    BY <1>1, <1>2, <1>3, <1>4, <1>5 DEF updata, TypeOK, Dates
  <2>2. \A s \in Statements : s # own[t] => dayOf'[s] = dayOf[s]
    BY <1>2, <1>4 DEF TypeOK
  <2>3. /\ content[own[t]] = <<>>
        /\ \A s \in Statements : s # own[t] => content[s] = IF dayOf[s] = 0 THEN <<>> ELSE <<s>>
    BY <1>1, <1>2, <1>3, <2>1 DEF Contents
  <2>4. QED
    BY <1>1, <2>1, <2>2, <2>3 DEF Contents
<1>16. Logged'
  <2>1. /\ output' = output /\ begun' = begun
        /\ \A s \in Statements : dayOf[s] # 0 => dayOf'[s] # 0
    BY <1>2, <1>3, <1>4, <1>5 DEF updata, TypeOK
  <2>2. \A n \in DOMAIN output : output[n].event \in Statements
    BY <1>2, OutputLines
  <2>3. QED
    BY <1>2, <2>1, <2>2 DEF Logged, Begun
<1>17. AllLogged'
  <2>1. /\ output' = output /\ own' = own /\ steady' = steady
        /\ \A s \in Statements : s # own[t] => dayOf'[s] = dayOf[s]
    BY <1>2, <1>4 DEF updata, TypeOK
  <2>2. QED
    BY <1>1, <1>2, <2>1 DEF AllLogged
<1>18. Lists'
  <2>1. dayOf[own[t]] = 0 /\ pc'[t] = "push"
    BY <1>1, <1>2 DEF updata, Dates, TypeOK
  <2>2. /\ m_events[1] \in Seq(Statements) /\ 1 \in Wraps /\ m_recordings[1] \in Seq(Seq(Statements))
        /\ m_events \in [Wraps -> Seq(Statements)] /\ m_day \in [Wraps -> 0..LastDay]
        /\ m_recordings \in [Wraps -> Seq(Seq(Statements))] /\ dayOf \in [Statements -> 0..LastDay]
    BY <1>1, <1>2 DEF TypeOK
  <2>3. /\ m_events'[1] = EventsLeft(1) /\ m_recordings'[1] = Recorded(1)
        /\ m_day'[1] = today /\ dayOf'[own[t]] = today
        /\ \A e \in Statements : dayOf[e] # 0 => dayOf'[e] = dayOf[e]
    BY <1>3, <1>4, <2>1, <2>2
  <2>4. ToSet(m_events[1]) \subseteq Statements /\ ToSet(<<>>) = {}
    BY <2>2, Members DEF ToSet
  <2>5. ASSUME NEW e \in ToSet(m_events'[1])
        PROVE  dayOf'[e] # 0 /\ m_day'[1] # 0 /\ MonthDayOf[dayOf'[e]] = MonthDayOf[m_day'[1]]
    <3>1. ~IsNewDay(1) /\ e \in ToSet(m_events[1])
      BY <2>3, <2>4 DEF EventsLeft
    <3>2. dayOf[e] # 0 /\ MonthDayOf[dayOf[e]] = MonthDayOf[m_day[1]] /\ dayOf'[e] = dayOf[e]
      BY <1>2, <2>3, <2>4, <3>1 DEF Lists
    <3>3. MonthDayOf[today] = MonthDayOf[m_day[1]]
      BY <3>1 DEF IsNewDay
    <3>4. QED
      BY <1>5, <2>3, <3>2, <3>3
  <2>6. ASSUME NEW n \in DOMAIN m_recordings'[1]
        PROVE  /\ \A e \in ToSet(m_recordings'[1][n]) : dayOf'[e] # 0
               /\ SameMonthDay(m_recordings[1][n])'
    <3> DEFINE list == m_recordings'[1][n]
    <3>1. \/ list = m_events[1]
          \/ n \in DOMAIN m_recordings[1] /\ list = m_recordings[1][n]
      BY <2>2, <2>3 DEF Recorded
    <3>2. /\ \A e \in ToSet(list) : dayOf[e] # 0
          /\ \A e, f \in ToSet(list) : MonthDayOf[dayOf[e]] = MonthDayOf[dayOf[f]]
      BY <1>2, <3>1 DEF Lists, SameMonthDay
    <3>3. ToSet(list) \subseteq Statements
      <4>1. m_recordings[1] \in Seq(Seq(Statements)) /\ DOMAIN m_recordings[1] = 1..Len(m_recordings[1])
        BY <2>2
      <4>2. list \in Seq(Statements)
        BY <2>2, <3>1, <4>1, ElementOfSeq
      <4> HIDE DEF list
      <4>3. QED
        BY <4>2, Members
    <3>4. \A e \in ToSet(list) : dayOf'[e] = dayOf[e]
      BY <2>3, <3>2, <3>3
    <3>5. QED
      BY <3>2, <3>4 DEF SameMonthDay
  <2>7. QED
    BY <1>1, <1>5, <2>1, <2>3, <2>5, <2>6 DEF Lists, updata
<1>99. QED
  BY <1>10, <1>11, <1>12, <1>13, <1>14, <1>15, <1>16, <1>17, <1>18 DEF EventInv

(* A statement is begun: it is the last, and no event is there for it yet. *)
LEMMA BeginStep ==
  ASSUME NEW t, Threads = {t}, EventInv, NEW s \in Statements, Begin(t, s)
  PROVE  EventInv'
<1> USE DEF Go, wraps, appenders, threads
<1>1. /\ Wraps = {1} /\ Cardinality(Threads) = 1
      /\ t \in Threads /\ LogAssumption
  BY OnePlace, LogAssumption
<1>2. /\ TypeOK /\ OneWrap /\ LastBegun /\ Dates /\ CurrentEvent
      /\ Contents /\ Logged /\ AllLogged /\ Lists
  BY DEF EventInv
<1>3. /\ s \notin ToSet(begun) /\ begun' = Append(begun, s)
      /\ own' = [own EXCEPT ![t] = s] /\ pc[t] = "idle" /\ pc'[t] \in {"get", "console"}
      /\ own[t] = null /\ own'[t] = s /\ s # null
  BY <1>1, <1>2 DEF Begin, TypeOK, LastBegun
<1>4. begun \in Seq(Statements) /\ Len(begun) \in Nat
  BY <1>2 DEF TypeOK
<1>5. /\ begun' \in Seq(Statements) /\ Len(begun') = Len(begun) + 1
      /\ \A p \in 1..Len(begun) : begun'[p] = begun[p]
      /\ begun'[Len(begun) + 1] = s
      /\ ToSet(begun') = ToSet(begun) \union {s}
  BY <1>3, <1>4, Appended
<1>6. DOMAIN begun = 1..Len(begun) /\ DOMAIN begun' = 1..(Len(begun) + 1)
  BY <1>4, <1>5
<1>7. \A e, f : Begun(e, f) => Begun(e, f)'
  BY <1>4, <1>5, <1>6 DEF Begun
<1>8. dayOf' = dayOf /\ dayOf[s] = 0 /\ output' = output
  BY <1>2, <1>3 DEF Begin, Dates, TypeOK
<1>10. TypeOK'
  <2>1. /\ pc' \in [Threads -> {"idle", "get", "create", "wrap", "updata", "push",
                            "stream", "write", "console", "undefined"}]
        /\ own' \in [Threads -> Statements \union {null}]
    BY <1>2, <1>3 DEF Begin, TypeOK
  <2>2. UNCHANGED <<m_wrap, made, m_event, m_events, m_recordings, m_day, m_appender, changed, steady,
                    today, this, stream, dayOf, content, output>>
    BY DEF Begin
  <2>3. QED
    BY <1>2, <1>5, <2>1, <2>2 DEF TypeOK
<1>11. OneWrap'
  BY <1>1, <1>2, <1>3 DEF Begin, OneWrap, Wrapping
<1>12. LastBegun'
  <2>1. \A p \in 1..Len(begun) : begun[p] # s
    BY <1>3, <1>4, Members
  <2>2. \A p, q \in DOMAIN begun' : begun'[p] = begun'[q] => p = q
    BY <1>2, <1>4, <1>5, <1>6, <2>1 DEF LastBegun
  <2>3. begun' # <<>> /\ own'[t] = begun'[Len(begun')]
    BY <1>3, <1>4, <1>5, <1>6
  <2>4. QED
    BY <1>1, <1>3, <2>2, <2>3 DEF LastBegun
<1>13. Dates'
  BY <1>1, <1>2, <1>3, <1>5, <1>8 DEF Dates
<1>14. CurrentEvent'
  <2>1. m_event' = m_event
    BY DEF Begin
  <2>2. IF m_event[1] = null THEN \A e \in Statements : dayOf[e] = 0 ELSE LastDated(m_event[1])
    BY <1>1, <1>2, <1>3 DEF CurrentEvent, Wrapping
  <2>3. IF m_event[1] = null THEN \A e \in Statements : dayOf'[e] = 0 ELSE LastDated(m_event[1])'
    BY <1>7, <1>8, <2>1, <2>2 DEF LastDated
  <2>4. QED
    BY <1>1, <1>3, <1>8, <2>1, <2>3 DEF CurrentEvent, Wrapping
<1>15. Contents'
  <2>1. content' = content /\ pc'[t] \notin {"push", "stream", "write"}
    BY <1>3 DEF Begin
  <2>2. \A e \in Statements : content[e] = IF dayOf[e] = 0 THEN <<>> ELSE <<e>>
    BY <1>1, <1>2, <1>3 DEF Contents
  <2>3. QED
    BY <1>1, <1>8, <2>1, <2>2 DEF Contents
<1>16. Logged'
  BY <1>2, <1>7, <1>8 DEF Logged
<1>17. AllLogged'
  <2>1. steady' = steady /\ \A e \in Statements : own[t] # e
    BY <1>1, <1>3, LogAssumption DEF Begin
  <2>2. QED
    BY <1>1, <1>2, <1>8, <2>1 DEF AllLogged
<1>18. Lists'
  <2>1. m_events' = m_events /\ m_recordings' = m_recordings /\ m_day' = m_day
    BY DEF Begin
  <2>2. QED
    BY <1>1, <1>2, <1>3, <1>8, <2>1 DEF Lists, SameMonthDay
<1>99. QED
  BY <1>10, <1>11, <1>12, <1>13, <1>14, <1>15, <1>16, <1>17, <1>18 DEF EventInv

(* ConsoleLog() logs the current event with every appender.                *)
LEMMA ConsoleLogStep ==
  ASSUME NEW t, Threads = {t}, EventInv, ConsoleLog(t)
  PROVE  EventInv'
<1> USE DEF Go, wraps, appenders, threads
<1> DEFINE Lines == [event : Statements, text : Seq(Statements), by : Appenders]
<1>1. /\ Wraps = {1} /\ Cardinality(Threads) = 1
      /\ t \in Threads /\ LogAssumption
  BY OnePlace, LogAssumption
<1>2. /\ TypeOK /\ OneWrap /\ LastBegun /\ Dates /\ CurrentEvent
      /\ Contents /\ Logged /\ AllLogged /\ Lists
  BY DEF EventInv
<1>3. /\ pc[t] = "console" /\ pc'[t] \in {"idle", "undefined"}
      /\ own' = [own EXCEPT ![t] = null] /\ own'[t] = null
  BY <1>1, <1>2 DEF ConsoleLog, Leave, TypeOK
<1>4. /\ own[t] \in Statements /\ own[t] # null /\ own[t] \in ToSet(begun)
      /\ \A s \in ToSet(begun) : Begun(s, own[t])
  BY <1>1, <1>3, Busy
<1>5. Current = m_event[1] /\ m_event[1] \in Statements \union {null}
  BY <1>1, <1>2 DEF Current, OneWrap, TypeOK
<1>6. UNCHANGED <<m_appender, changed, steady, m_event, m_events, m_recordings, today, begun, dayOf, content>>
  BY DEF ConsoleLog
<1>7. IF m_event[1] = null THEN \A e \in Statements : dayOf[e] = 0 ELSE LastDated(m_event[1])
  BY <1>1, <1>2, <1>3 DEF CurrentEvent, Wrapping
<1> DEFINE new == log(m_event[1])
<1>8. m_event[1] # null =>
        /\ new \in Seq(Lines) /\ Len(new) = Len(m_appender)
        /\ \A k \in 1..Len(m_appender) :
             new[k] = [event |-> m_event[1], text |-> content[m_event[1]], by |-> m_appender[k]]
  <2> SUFFICES ASSUME m_event[1] # null
               PROVE  /\ new \in Seq(Lines) /\ Len(new) = Len(m_appender)
                      /\ \A k \in 1..Len(m_appender) :
                           new[k] = [event |-> m_event[1], text |-> content[m_event[1]], by |-> m_appender[k]]
    OBVIOUS
  <2>1. m_appender \in Seq(Appenders) /\ Len(m_appender) \in Nat /\ DOMAIN m_appender = 1..Len(m_appender)
    BY <1>2 DEF TypeOK
  <2>2. m_event[1] \in Statements /\ content[m_event[1]] \in Seq(Statements)
    BY <1>2, <1>5 DEF TypeOK
  <2>3. new = [k \in 1..Len(m_appender) |-> [event |-> m_event[1], text |-> content[m_event[1]], by |-> m_appender[k]]]
    BY <2>1 DEF log, Line
  <2> HIDE DEF new
  <2>4. \A k \in 1..Len(m_appender) : m_appender[k] \in Appenders
    BY <2>1, ElementOfSeq
  <2>5. new \in [1..Len(m_appender) -> Lines]
    BY <2>2, <2>3, <2>4
  <2>6. QED
    BY <2>1, <2>3, <2>5
<1>9. m_event[1] # null =>
        /\ output' \in Seq(Lines) /\ Len(output') = Len(output) + Len(m_appender)
        /\ \A n \in 1..Len(output') :
             output'[n] = IF n <= Len(output) THEN output[n] ELSE new[n - Len(output)]
  <2> SUFFICES ASSUME m_event[1] # null
               PROVE  /\ output' \in Seq(Lines) /\ Len(output') = Len(output) + Len(m_appender)
                      /\ \A n \in 1..Len(output') :
                           output'[n] = IF n <= Len(output) THEN output[n] ELSE new[n - Len(output)]
    OBVIOUS
  <2>1. output \in Seq(Lines) /\ new \in Seq(Lines) /\ Len(new) = Len(m_appender)
    BY <1>2, <1>8 DEF TypeOK
  <2>2. output' = output \o new
    BY <1>5 DEF ConsoleLog
  <2> HIDE DEF new, Lines
  <2>3. /\ output \o new \in Seq(Lines) /\ Len(output \o new) = Len(output) + Len(new)
        /\ \A n \in 1..(Len(output) + Len(new)) :
             (output \o new)[n] = IF n <= Len(output) THEN output[n] ELSE new[n - Len(output)]
    BY <2>1, ConcatProperties, ZenonT(60)
  <2>4. QED
    BY <2>1, <2>2, <2>3
<1>10. m_event[1] = null => output' = output
  BY <1>5 DEF ConsoleLog
<1> HIDE DEF new
<1>11. TypeOK'
  <2>1. output' \in Seq(Lines)
    BY <1>2, <1>9, <1>10 DEF TypeOK
  <2>2. /\ m_wrap' \in 0..made' /\ made' \in 0..Cardinality(Threads)
        /\ m_day' \in [Wraps -> 0..LastDay]
    <3>1. CASE m_wrap = 0
      <4>1. made = 0 /\ made' = 1 /\ m_wrap' = 1 /\ m_day' = [m_day EXCEPT ![1] = today]
        BY <1>2, <3>1 DEF ConsoleLog, NewWrap, OneWrap
      <4>2. today \in 0..LastDay /\ m_day \in [Wraps -> 0..LastDay]
        BY <1>2 DEF TypeOK
      <4>3. QED
        BY <1>1, <4>1, <4>2
    <3>2. CASE m_wrap # 0
      BY <1>2, <3>2 DEF ConsoleLog, TypeOK
    <3>3. QED
      BY <3>1, <3>2
  <2>3. made' = 1
    BY <1>2 DEF ConsoleLog, NewWrap, OneWrap
  <2>4. /\ pc' \in [Threads -> {"idle", "get", "create", "wrap", "updata", "push",
                            "stream", "write", "console", "undefined"}]
        /\ own' \in [Threads -> Statements \union {null}]
        /\ this' = [this EXCEPT ![t] = 0]
        /\ stream' \in [Threads -> Statements \union {null}]
    BY <1>2 DEF ConsoleLog, Leave, TypeOK
  <2>5. this' \in [Threads -> 0..made']
    <3>1. this'[t] = 0 /\ this' = [u \in {t} |-> this'[u]]
      BY <1>1, <1>2, <2>4 DEF TypeOK
    <3>2. QED
      BY <2>3, <3>1
  <2>6. QED
    BY <1>2, <1>6, <2>1, <2>2, <2>4, <2>5 DEF TypeOK
<1>12. OneWrap'
  <2>1. made' = m_wrap' /\ m_wrap' = 1
    BY <1>2 DEF ConsoleLog, NewWrap, OneWrap
  <2>2. QED
    BY <1>1, <1>3, <2>1 DEF OneWrap, Wrapping
<1>13. LastBegun' /\ Dates'
  BY <1>1, <1>2, <1>3, <1>6 DEF LastBegun, Dates
<1>14. CurrentEvent'
  BY <1>1, <1>3, <1>6, <1>7 DEF CurrentEvent, Wrapping, LastDated, Begun
<1>15. Contents'
  <2>1. \A s \in Statements : content[s] = IF dayOf[s] = 0 THEN <<>> ELSE <<s>>
    BY <1>1, <1>2, <1>3 DEF Contents
  <2>2. QED
    BY <1>1, <1>3, <1>6, <2>1 DEF Contents
<1>16. DOMAIN output = 1..Len(output) /\ Len(output) \in Nat /\ Len(m_appender) \in Nat
  <2>1. m_appender \in Seq(Appenders)
    BY <1>2 DEF TypeOK
  <2>2. Len(m_appender) \in Nat
    BY <2>1
  <2>3. QED
    BY <1>2, <2>2, OutputLines
<1>17. Logged' /\ AllLogged'
  <2>1. CASE m_event[1] = null
    <3>1. Logged'
      BY <1>2, <1>6, <1>10, <2>1, LoggedKept
    <3>2. AllLogged'
      BY <1>6, <1>7, <2>1 DEF AllLogged
    <3>3. QED
      BY <3>1, <3>2
  <2>2. CASE m_event[1] # null
    <3> DEFINE e == m_event[1]
    <3>1. e \in Statements /\ dayOf[e] # 0 /\ (\A s \in Statements : dayOf[s] # 0 => Begun(s, e))
      BY <1>5, <1>7, <2>2 DEF LastDated
    <3>2. content[e] = <<e>>
      BY <1>1, <1>2, <1>3, <3>1 DEF Contents
    <3>3. /\ DOMAIN output' = 1..(Len(output) + Len(m_appender))
          /\ \A n \in DOMAIN output' : n \in 1..Len(output) \/ n - Len(output) \in 1..Len(m_appender)
          /\ \A n \in DOMAIN output' :
               output'[n] = IF n <= Len(output) THEN output[n] ELSE new[n - Len(output)]
      <4>1. /\ output' \in Seq(Lines) /\ Len(output') = Len(output) + Len(m_appender)
            /\ \A n \in 1..Len(output') :
                 output'[n] = IF n <= Len(output) THEN output[n] ELSE new[n - Len(output)]
        BY <1>9, <2>2
      <4>2. DOMAIN output' = 1..(Len(output) + Len(m_appender))
        BY <4>1
      <4>3. QED
        BY <1>16, <4>1, <4>2
    <3>4. \A n \in 1..Len(output) : n \in DOMAIN output' /\ output'[n] = output[n]
      BY <1>16, <3>3
    <3>5. \A n \in DOMAIN output' : n \notin 1..Len(output) =>
             output'[n] = [event |-> e, text |-> <<e>>, by |-> m_appender[n - Len(output)]]
      <4>1. \A k \in 1..Len(m_appender) : new[k] = [event |-> e, text |-> <<e>>, by |-> m_appender[k]]
        BY <1>8, <2>2, <3>2
      <4> HIDE DEF e
      <4>2. ASSUME NEW n \in DOMAIN output', n \notin 1..Len(output)
            PROVE  output'[n] = [event |-> e, text |-> <<e>>, by |-> m_appender[n - Len(output)]]
        <5>1. n - Len(output) \in 1..Len(m_appender) /\ ~(n <= Len(output))
          BY <1>16, <3>3, <4>2
        <5>2. output'[n] = new[n - Len(output)]
          BY <3>3, <5>1
        <5>3. QED
          BY <4>1, <5>1, <5>2
      <4>3. QED
        BY <4>2
    <3>6. \A k \in 1..Len(m_appender) :
             /\ k + Len(output) \in DOMAIN output' /\ k + Len(output) \notin 1..Len(output)
             /\ (k + Len(output)) - Len(output) = k
      BY <1>16, <3>3
    <3> HIDE DEF e
    <3>7. Logged'
      <4>1. ASSUME NEW n \in DOMAIN output'
            PROVE  dayOf'[output'[n].event] # 0 /\ output'[n].text = <<output'[n].event>>
        <5>1. CASE n \in 1..Len(output)
          BY <1>2, <1>6, <1>16, <3>4, <5>1 DEF Logged
        <5>2. CASE n \notin 1..Len(output)
          BY <1>6, <3>1, <3>5, <5>2
        <5>3. QED
          BY <5>1, <5>2
      <4>2. ASSUME NEW m \in DOMAIN output', NEW n \in DOMAIN output', m < n
            PROVE  Begun(output'[m].event, output'[n].event)
        <5>1. CASE n \in 1..Len(output)
          <6>1. m \in 1..Len(output)
            BY <1>16, <3>3, <4>2, <5>1
          <6>2. QED
            BY <1>2, <1>16, <3>4, <4>2, <5>1, <6>1 DEF Logged
        <5>2. CASE n \notin 1..Len(output)
          <6>1. output'[m].event \in Statements
            <7>1. CASE m \in 1..Len(output)
              <8>1. output[m].event \in Statements
                BY <1>2, <1>16, <7>1, OutputLines
              <8>2. QED
                BY <3>4, <7>1, <8>1
            <7>2. CASE m \notin 1..Len(output)
              BY <3>1, <3>5, <7>2
            <7>3. QED
              BY <7>1, <7>2
          <6>2. QED
            BY <1>6, <3>1, <3>5, <4>1, <5>2, <6>1
        <5>3. QED
          BY <5>1, <5>2
      <4>3. \A f, g : Begun(f, g) => Begun(f, g)'
        BY <1>6 DEF Begun
      <4>4. QED
        BY <4>1, <4>2, <4>3 DEF Logged
    <3>8. AllLogged'
      <4> SUFFICES ASSUME NEW a \in steady, NEW s \in Statements, dayOf[s] # 0
                   PROVE  \E n \in DOMAIN output' : output'[n].event = s /\ output'[n].by = a
        BY <1>6 DEF AllLogged
      <4>1. CASE \E n \in DOMAIN output : output[n].event = s /\ output[n].by = a
        BY <1>16, <3>4, <4>1
      <4>2. CASE own[t] = s
        <5>1. s = e
          BY <1>1, <1>2, <1>3, <4>2 DEF CurrentEvent, e
        <5>2. m_appender \in Seq(Appenders) /\ a \in ToSet(m_appender)
          BY <1>2 DEF TypeOK
        <5>3. PICK k \in 1..Len(m_appender) : m_appender[k] = a
          BY <5>2, Members
        <5>4. output'[k + Len(output)] = [event |-> e, text |-> <<e>>, by |-> a]
          BY <3>5, <3>6, <5>3
        <5>5. QED
          BY <3>6, <5>1, <5>4
      <4>3. QED
        BY <1>1, <1>2, <4>1, <4>2 DEF AllLogged
    <3>9. QED
      BY <3>7, <3>8
  <2>3. QED
    BY <2>1, <2>2
<1>18. Lists'
  <2>1. CASE m_wrap = 0
    <3>1. m_events'[1] = <<>> /\ m_recordings'[1] = <<>> /\ ToSet(<<>>) = {} /\ DOMAIN <<>> = {}
      BY <1>2, <1>6, <2>1 DEF OneWrap, ToSet
    <3>2. QED
      BY <1>1, <1>3, <3>1 DEF Lists
  <2>2. CASE m_wrap # 0
    <3>1. m_day' = m_day
      BY <2>2 DEF ConsoleLog
    <3>2. QED
      BY <1>1, <1>2, <1>3, <1>6, <3>1 DEF Lists, SameMonthDay
  <2>3. QED
    BY <2>1, <2>2
<1>99. QED
  BY <1>11, <1>12, <1>13, <1>14, <1>15, <1>17, <1>18 DEF EventInv

(* Whatever is done to the appenders, the steady ones stay.                *)
LEMMA AppendersStep ==
  ASSUME EventInv, NEW to \in Seq(Appenders), NEW gone, ChangeAppenders(to, gone),
         steady \ gone \subseteq ToSet(to)
  PROVE  EventInv'
<1> USE DEF wraps, threads
<1>1. /\ TypeOK /\ OneWrap /\ LastBegun /\ Dates /\ CurrentEvent
      /\ Contents /\ Logged /\ AllLogged /\ Lists
  BY DEF EventInv
<1>2. /\ UNCHANGED <<m_wrap, made, m_event, m_events, m_recordings, m_day, today, pc, own, this,
                     stream, begun, dayOf, content, output>>
      /\ m_appender' = to /\ steady' = steady \ gone /\ changed < Changes /\ changed' = changed + 1
  BY DEF ChangeAppenders
<1>3. TypeOK'
  <2>1. changed' \in 0..Changes
    BY <1>1, <1>2, LogAssumption DEF TypeOK
  <2>2. QED
    BY <1>1, <1>2, <2>1 DEF TypeOK
<1>4. OneWrap' /\ LastBegun' /\ Dates'
  BY <1>1, <1>2 DEF OneWrap, LastBegun, Dates
<1>5. CurrentEvent'
  BY <1>1, <1>2 DEF CurrentEvent, LastDated, Begun
<1>6. Contents' /\ AllLogged'
  BY <1>1, <1>2 DEF Contents, AllLogged
<1>7. Logged'
  BY <1>1, <1>2, LoggedKept
<1>8. Lists'
  BY <1>1, <1>2 DEF Lists, SameMonthDay
<1>9. QED
  BY <1>3, <1>4, <1>5, <1>6, <1>7, <1>8 DEF EventInv

(* vector::erase of one element leaves the others.                         *)
LEMMA RemoveAtKeeps ==
  ASSUME NEW S, NEW s \in Seq(S), NEW p \in 1..Len(s)
  PROVE  /\ RemoveAt(s, p) \in Seq(S)
         /\ ToSet(s) \ {s[p]} \subseteq ToSet(RemoveAt(s, p))
<1> DEFINE front == SubSeq(s, 1, p - 1)
           back == SubSeq(s, p + 1, Len(s))
<1>1. Len(s) \in Nat /\ p \in Nat
  OBVIOUS
<1>2. /\ front \in Seq(S) /\ Len(front) = p - 1
      /\ \A k \in 1..(p - 1) : front[k] = s[k]
  BY <1>1
<1>3. /\ back \in Seq(S) /\ Len(back) = Len(s) - p
      /\ \A k \in 1..(Len(s) - p) : back[k] = s[k + p]
  BY <1>1
<1>4. RemoveAt(s, p) = front \o back
  BY DEF RemoveAt
<1> HIDE DEF front, back
<1>5. /\ front \o back \in Seq(S)
      /\ Len(front \o back) = Len(front) + Len(back)
      /\ \A k \in 1..(Len(front) + Len(back)) :
           (front \o back)[k] = IF k <= Len(front) THEN front[k] ELSE back[k - Len(front)]
  BY <1>2, <1>3, ConcatProperties, Zenon
<1> DEFINE r == front \o back
<1> HIDE DEF r
<1>6. ASSUME NEW x \in ToSet(s), x # s[p] PROVE x \in ToSet(r)
  <2>1. PICK k \in 1..Len(s) : s[k] = x
    BY Members
  <2>2. r \in Seq(S) /\ Len(r) = Len(s) - 1
    BY <1>1, <1>2, <1>3, <1>5 DEF r
  <2>3. \E n \in 1..Len(r) : r[n] = x
    <3>1. CASE k < p
      <4>1. k \in 1..(p - 1) /\ k \in 1..Len(r) /\ k <= Len(front) /\ k \in 1..(Len(front) + Len(back))
        BY <1>1, <1>2, <1>3, <2>1, <2>2, <3>1
      <4>2. r[k] = front[k]
        BY <1>5, <4>1 DEF r
      <4>3. QED
        BY <1>2, <2>1, <4>1, <4>2
    <3>2. CASE ~(k < p)
      <4>1. k # p
        BY <1>6, <2>1
      <4>2. /\ k - 1 \in 1..Len(r) /\ ~(k - 1 <= Len(front)) /\ k - 1 \in 1..(Len(front) + Len(back))
            /\ (k - 1) - Len(front) = k - p /\ k - p \in 1..(Len(s) - p) /\ (k - p) + p = k
        BY <1>1, <1>2, <1>3, <2>1, <2>2, <3>2, <4>1
      <4>3. r[k - 1] = back[k - p]
        BY <1>5, <4>2 DEF r
      <4>4. QED
        BY <1>3, <2>1, <4>2, <4>3
    <3>3. QED
      BY <3>1, <3>2
  <2>4. QED
    BY <2>2, <2>3, Members
<1>7. QED
  BY <1>4, <1>5, <1>6 DEF r

LEMMA DeleteStep ==
  ASSUME EventInv, NEW a \in Appenders, delete_appender(a)
  PROVE  EventInv'
<1> DEFINE p == SelectInSeq(m_appender, LAMBDA b : b = a)
           to == RemoveAt(m_appender, p)
<1>1. m_appender \in Seq(Appenders) /\ a \in ToSet(m_appender) /\ ChangeAppenders(to, {a})
      /\ steady \subseteq ToSet(m_appender)
  BY DEF EventInv, TypeOK, delete_appender
<1>2. p \in 1..Len(m_appender) /\ m_appender[p] = a
  <2> DEFINE I == {k \in 1..Len(m_appender) : m_appender[k] = a}
  <2>1. I # {} /\ I \in SUBSET Nat
    BY <1>1, Members
  <2>2. p = Min(I)
    BY <2>1 DEF SelectInSeq
  <2>3. \E m \in I : \A n \in I : m <= n
    BY <2>1, LeastOf
  <2>4. Min(I) \in I
    BY <2>3 DEF Min
  <2>5. QED
    BY <2>2, <2>4
<1> HIDE DEF p
<1>3. to \in Seq(Appenders) /\ ToSet(m_appender) \ {a} \subseteq ToSet(to)
  BY <1>1, <1>2, RemoveAtKeeps
<1> HIDE DEF to
<1>4. steady \ {a} \subseteq ToSet(to)
  BY <1>1, <1>3
<1>5. QED
  BY <1>1, <1>3, <1>4, AppendersStep

LEMMA EventInvStep ==
  ASSUME NEW t, Threads = {t}, EventInv, [Next]_vars
  PROVE  EventInv'
<1>1. ASSUME Step(t) PROVE EventInv'
  BY <1>1, BeginStep, FindWrapStep, CreateWrapStep, WrapStep, updataStep, PushBackStep,
     get_streamStep, WriteStep, ConsoleLogStep DEF Step
<1>2. ASSUME NEW a \in Appenders, add_appender(a) PROVE EventInv'
  <2> DEFINE to == Append(m_appender, a)
  <2>1. m_appender \in Seq(Appenders) /\ steady \subseteq ToSet(m_appender)
    BY DEF EventInv, TypeOK
  <2>2. to \in Seq(Appenders) /\ ToSet(to) = ToSet(m_appender) \union {a}
    BY <2>1, Appended
  <2>3. ChangeAppenders(to, {})
    BY <1>2 DEF add_appender
  <2> HIDE DEF to
  <2>4. steady \ {} \subseteq ToSet(to)
    BY <2>1, <2>2
  <2>5. QED
    BY <2>2, <2>3, <2>4, AppendersStep
<1>3. ASSUME clean_appender PROVE EventInv'
  <2>1. steady \subseteq ToSet(m_appender) /\ <<>> \in Seq(Appenders)
    BY DEF EventInv, TypeOK
  <2>2. ChangeAppenders(<<>>, ToSet(m_appender))
    BY <1>3 DEF clean_appender
  <2>3. steady \ ToSet(m_appender) \subseteq ToSet(<<>>)
    BY <2>1
  <2>4. QED
    BY <2>1, <2>2, <2>3, AppendersStep
<1>4. ASSUME Tomorrow \/ UNCHANGED vars PROVE EventInv'
  <2> USE DEF wraps, threads, appenders
  <2>1. /\ TypeOK /\ OneWrap /\ LastBegun /\ Dates /\ CurrentEvent
        /\ Contents /\ Logged /\ AllLogged /\ Lists
    BY DEF EventInv
  <2>2. /\ UNCHANGED <<m_wrap, made, m_event, m_events, m_recordings, m_day, pc, own, this,
                       stream, begun, dayOf, content, output, m_appender, steady, changed>>
    BY <1>4 DEF Tomorrow, vars
  <2>3. TypeOK'
    <3>1. /\ today \in 1..LastDay
          /\ today' = today \/ (today < LastDay /\ today' = today + 1)
      BY <1>4, <2>1 DEF Tomorrow, vars, TypeOK
    <3>2. today' \in 1..LastDay
      BY <3>1, LogAssumption
    <3>3. QED
      BY <2>1, <2>2, <3>2 DEF TypeOK
  <2>4. OneWrap' /\ LastBegun' /\ Dates'
    BY <2>1, <2>2 DEF OneWrap, LastBegun, Dates
  <2>5. CurrentEvent'
    BY <2>1, <2>2 DEF CurrentEvent, LastDated, Begun
  <2>6. Contents' /\ AllLogged'
    BY <2>1, <2>2 DEF Contents, AllLogged
  <2>7. Logged'
    BY <2>1, <2>2, LoggedKept
  <2>8. Lists'
    BY <2>1, <2>2 DEF Lists, SameMonthDay
  <2>9. QED
    BY <2>3, <2>4, <2>5, <2>6, <2>7, <2>8 DEF EventInv
<1>5. QED
  BY <1>1, <1>2, <1>3, <1>4, DeleteStep DEF Next

-----------------------------------------------------------------------------
(* The inductive invariant of the log statements holds, if one thread logs.*)
THEOREM EventInvHolds ==
  ASSUME NEW t, Threads = {t}
  PROVE  Spec => []EventInv
<1>1. Init => EventInv
  BY EventInvInit
<1>2. EventInv /\ [Next]_vars => EventInv'
  BY EventInvStep
<1>3. QED
  BY <1>1, <1>2, PTL DEF Spec

(* The root logger logs as LogEvents says, whatever its format is.         *)
THEOREM LogsEvents == LoggerSpec => Spec
<1>1. LoggerInit => Init
  BY DEF LoggerInit
<1>2. [LoggerNext]_allvars => [Next]_vars
  BY DEF LoggerNext, allvars, Explain, Log
<1>3. QED
  BY <1>1, <1>2, PTL DEF LoggerSpec, Spec

(* With one thread that logs, the shared objects keep their types.         *)
THEOREM LogTypeCorrect ==
  ASSUME NEW t, Threads = {t}
  PROVE  LoggerSpec => []TypeOK
<1>1. EventInv => TypeOK
  BY DEF EventInv
<1>2. QED
  BY <1>1, LogsEvents, EventInvHolds, PTL

(* For any statements, appenders and changes of the appenders: with one    *)
(* thread that logs, each steady appender has logged all statements that   *)
(* were not left out, and only those, in the order of their execution.     *)
THEOREM EachLoggedOnce ==
  ASSUME NEW t, Threads = {t}
  PROVE  LoggerSpec => []LoggedOnce
<1>1. EventInv => LoggedOnce
  <2> SUFFICES ASSUME EventInv, \A u \in Threads : pc[u] = "idle", NEW a \in steady
               PROVE  /\ {output[n].event : n \in LinesOf(a)} = {s \in ToSet(begun) : dayOf[s] # 0}
                      /\ \A m, n \in LinesOf(a) : m < n => Begun(output[m].event, output[n].event)
    BY DEF LoggedOnce
  <2>1. TypeOK /\ LastBegun /\ Dates /\ Logged /\ AllLogged
    BY DEF EventInv
  <2>2. own[t] = null /\ \A s \in Statements : s # null
    BY <2>1, LogAssumption DEF LastBegun
  <2>3. ASSUME NEW n \in LinesOf(a)
        PROVE  output[n].event \in ToSet(begun) /\ dayOf[output[n].event] # 0
    BY <2>1, <2>3, OutputLines DEF LinesOf, Logged, Dates
  <2>4. ASSUME NEW s \in ToSet(begun), dayOf[s] # 0
        PROVE  \E n \in LinesOf(a) : output[n].event = s
    <3>1. s \in Statements
      BY <2>1, Members DEF TypeOK
    <3>2. QED
      BY <2>1, <2>2, <2>4, <3>1 DEF AllLogged, LinesOf
  <2>5. \A m, n \in LinesOf(a) : m < n => Begun(output[m].event, output[n].event)
    BY <2>1 DEF Logged, LinesOf
  <2>6. QED
    BY <2>3, <2>4, <2>5
<1>2. QED
  BY <1>1, LogsEvents, EventInvHolds, PTL

(* The lists are runs: whatever was logged after an event of the day is    *)
(* there too, or is just about to be pushed, and in a recorded list        *)
(* nothing is missing between two of its events.                           *)
Whole(list) ==
  \A e, f \in ToSet(list), g \in Statements :
    dayOf[g] # 0 /\ Begun(e, g) /\ Begun(g, f) => g \in ToSet(list)

NothingMissing ==
  /\ \A e \in ToSet(m_events[1]), g \in Statements :
       dayOf[g] # 0 /\ Begun(e, g) =>
         \/ g \in ToSet(m_events[1])
         \/ \E t \in Threads : pc[t] = "push" /\ own[t] = g
  /\ \A k \in DOMAIN m_recordings[1] : Whole(m_recordings[1][k])

(* Nothing was begun after the statement that is executed.                 *)
LEMMA NothingLater ==
  ASSUME EventInv, NEW t \in Threads, pc[t] \notin {"idle", "undefined"},
         NEW f, Begun(own[t], f)
  PROVE  f = own[t]
<1>1. begun \in Seq(Statements) /\ begun # <<>> /\ own[t] = begun[Len(begun)]
  BY DEF EventInv, TypeOK, LastBegun
<1>2. Len(begun) \in Nat /\ Len(begun) \in 1..Len(begun) /\ DOMAIN begun = 1..Len(begun)
  BY <1>1
<1>3. PICK p, q \in DOMAIN begun : p <= q /\ begun[p] = own[t] /\ begun[q] = f
  BY DEF Begun
<1>4. p = Len(begun)
  BY <1>1, <1>2, <1>3 DEF EventInv, LastBegun
<1>5. q = Len(begun)
  BY <1>2, <1>3, <1>4
<1>6. QED
  BY <1>1, <1>3, <1>5

(* The events in the lists are statements with a date.                     *)
LEMMA ListedAreDated ==
  ASSUME NEW t, Threads = {t}, EventInv
  PROVE  /\ \A e \in ToSet(m_events[1]) : e \in Statements /\ dayOf[e] # 0
         /\ \A k \in DOMAIN m_recordings[1] : \A e \in ToSet(m_recordings[1][k]) :
              e \in Statements /\ dayOf[e] # 0
<1>1. TypeOK /\ Lists /\ Wraps = {1}
  BY OnePlace DEF EventInv
<1>2. m_recordings[1] \in Seq(Seq(Statements)) /\ m_events[1] \in Seq(Statements)
  BY <1>1 DEF TypeOK
<1>3. ASSUME NEW k \in DOMAIN m_recordings[1] PROVE m_recordings[1][k] \in Seq(Statements)
  <2> DEFINE S == Seq(Statements)
             r == m_recordings[1]
  <2>1. r \in Seq(S) /\ k \in DOMAIN r
    BY <1>2
  <2> HIDE DEF S, r
  <2>2. r[k] \in S
    BY <2>1, ElementOfSeq
  <2>3. QED
    BY <2>2 DEF S, r
<1>4. QED
  BY <1>1, <1>2, <1>3, Members DEF Lists

LEMMA NothingMissingKept ==
  ASSUME NothingMissing, UNCHANGED <<m_events, m_recordings, dayOf, begun>>,
         \A t \in Threads : pc[t] = "push" => pc'[t] = "push" /\ own'[t] = own[t]
  PROVE  NothingMissing'
<1>1. m_events' = m_events /\ m_recordings' = m_recordings /\ dayOf' = dayOf /\ begun' = begun
  OBVIOUS
<1>2. \A e, g : Begun(e, g)' <=> Begun(e, g)
  BY <1>1 DEF Begun
<1>3. ASSUME NEW list, Whole(list) PROVE Whole(list)'
  BY <1>1, <1>2, <1>3 DEF Whole
<1>4. \A k \in DOMAIN m_recordings[1] : Whole(m_recordings[1][k])'
  BY <1>1, <1>3 DEF NothingMissing
<1>5. \A e \in ToSet(m_events[1]), g \in Statements :
        dayOf[g] # 0 /\ Begun(e, g) =>
          \/ g \in ToSet(m_events[1])
          \/ \E t \in Threads : pc'[t] = "push" /\ own'[t] = g
  BY DEF NothingMissing
<1>6. QED
  BY <1>1, <1>2, <1>4, <1>5 DEF NothingMissing

(* A statement that is begun has no date yet and is behind all others.     *)
LEMMA NothingMissingBegin ==
  ASSUME NEW t, Threads = {t}, EventInv, NothingMissing, NEW s \in Statements, Begin(t, s)
  PROVE  NothingMissing'
<1> USE DEF wraps, appenders
<1>1. begun \in Seq(Statements) /\ s \notin ToSet(begun) /\ begun' = Append(begun, s)
  BY DEF EventInv, TypeOK, Begin
<1>2. /\ m_events' = m_events /\ m_recordings' = m_recordings /\ dayOf' = dayOf
      /\ pc[t] = "idle" /\ dayOf[s] = 0
  BY <1>1 DEF Begin, Go, EventInv, Dates
<1>3. /\ begun' \in Seq(Statements) /\ Len(begun') = Len(begun) + 1 /\ Len(begun) \in Nat
      /\ \A p \in 1..Len(begun) : begun'[p] = begun[p]
      /\ begun'[Len(begun) + 1] = s
  BY <1>1, Appended
<1>4. ASSUME NEW e, NEW g, e # s, g # s, Begun(e, g)' PROVE Begun(e, g)
  <2>1. PICK p, q \in DOMAIN begun' : p <= q /\ begun'[p] = e /\ begun'[q] = g
    BY <1>4 DEF Begun
  <2>2. DOMAIN begun' = 1..(Len(begun) + 1) /\ DOMAIN begun = 1..Len(begun)
    BY <1>1, <1>3
  <2>3. p \in 1..Len(begun) /\ q \in 1..Len(begun)
    BY <1>3, <1>4, <2>1, <2>2
  <2>4. QED
    BY <1>3, <2>1, <2>2, <2>3 DEF Begun
<1>5. ASSUME NEW list, \A e \in ToSet(list) : dayOf[e] # 0, Whole(list) PROVE Whole(list)'
  <2>1. \A e \in ToSet(list) : e # s
    BY <1>2, <1>5
  <2>2. \A g \in Statements : dayOf'[g] # 0 => g # s /\ dayOf[g] # 0
    BY <1>2
  <2>3. QED
    BY <1>4, <1>5, <2>1, <2>2 DEF Whole
<1>6. \A k \in DOMAIN m_recordings[1] : Whole(m_recordings[1][k])'
  BY <1>2, <1>5, ListedAreDated DEF NothingMissing
<1>7. ASSUME NEW e \in ToSet(m_events[1]), NEW g \in Statements, dayOf[g] # 0, Begun(e, g)'
      PROVE  g \in ToSet(m_events[1])
  <2>1. e # s /\ g # s
    BY <1>2, <1>7, ListedAreDated
  <2>2. Begun(e, g)
    BY <1>4, <1>7, <2>1
  <2>3. QED
    BY <1>2, <1>7, <2>2 DEF NothingMissing
<1>8. QED
  BY <1>2, <1>6, <1>7 DEF NothingMissing

(* updata() gives the statement its date: it is about to be pushed.  If    *)
(* the day is over, what is recorded is a run because it was the list of   *)
(* the day.                                                                *)
LEMMA NothingMissingUpdata ==
  ASSUME NEW t, Threads = {t}, EventInv, NothingMissing, updata(t)
  PROVE  NothingMissing'
<1> USE DEF wraps, appenders
<1>1. /\ Wraps = {1} /\ TypeOK /\ Lists /\ pc[t] = "updata" /\ this[t] = 1
      /\ own[t] \in Statements /\ dayOf[own[t]] = 0
  <2>1. pc[t] = "updata" /\ t \in Threads
    BY DEF updata, Go
  <2>2. own[t] \in Statements
    BY <2>1, Busy
  <2>3. QED
    BY <2>1, <2>2, OnePlace DEF EventInv, OneWrap, Wrapping, Dates
<1>2. /\ m_recordings'[1] = Recorded(1) /\ m_events'[1] = EventsLeft(1)
      /\ begun' = begun /\ own' = own /\ pc'[t] = "push"
      /\ \A g \in Statements : g # own[t] => dayOf'[g] = dayOf[g]
  BY <1>1 DEF updata, Go, TypeOK
<1>3. \A e, g : Begun(e, g)' <=> Begun(e, g)
  BY <1>2 DEF Begun
<1>4. ASSUME NEW f, dayOf[f] # 0 PROVE ~Begun(own[t], f)
  <2>1. SUFFICES ASSUME Begun(own[t], f) PROVE FALSE
    OBVIOUS
  <2>2. f = own[t]
    BY <1>1, <2>1, NothingLater
  <2>3. QED
    BY <1>1, <1>4, <2>2
<1>5. ASSUME NEW list, \A e \in ToSet(list) : dayOf[e] # 0,
             \A e, f \in ToSet(list), g \in Statements :
               dayOf[g] # 0 /\ Begun(e, g) /\ Begun(g, f) => g \in ToSet(list)
      PROVE  Whole(list)'
  <2> SUFFICES ASSUME NEW e \in ToSet(list), NEW f \in ToSet(list), NEW g \in Statements,
                      dayOf'[g] # 0, Begun(e, g)', Begun(g, f)'
               PROVE  g \in ToSet(list)
    BY DEF Whole
  <2>1. Begun(e, g) /\ Begun(g, f) /\ dayOf[f] # 0
    BY <1>3, <1>5
  <2>2. g # own[t]
    BY <1>4, <2>1
  <2>3. dayOf[g] # 0
    BY <1>2, <2>2
  <2>4. QED
    BY <1>5, <2>1, <2>3
<1>6. ASSUME NEW list, list = m_events[1] PROVE Whole(list)'
  <2>1. \A e \in ToSet(list), g \in Statements :
          dayOf[g] # 0 /\ Begun(e, g) => g \in ToSet(list)
    BY <1>1, <1>6 DEF NothingMissing
  <2>2. \A e \in ToSet(list) : dayOf[e] # 0
    BY <1>6, ListedAreDated
  <2>3. QED
    BY <1>5, <2>1, <2>2
<1>7. ASSUME NEW list, NEW k \in DOMAIN m_recordings[1], list = m_recordings[1][k]
      PROVE  Whole(list)'
  <2>1. /\ \A e \in ToSet(list) : dayOf[e] # 0
        /\ Whole(list)
    BY <1>7, ListedAreDated DEF NothingMissing
  <2>2. QED
    BY <1>5, <2>1 DEF Whole
<1>8. ASSUME NEW k \in DOMAIN m_recordings'[1] PROVE Whole(m_recordings[1][k])'
  <2>1. \/ m_recordings'[1][k] = m_events[1]
        \/ k \in DOMAIN m_recordings[1] /\ m_recordings'[1][k] = m_recordings[1][k]
    <3>1. m_recordings[1] \in Seq(Seq(Statements)) /\ m_events[1] \in Seq(Statements)
      BY <1>1 DEF TypeOK
    <3>2. QED
      BY <1>2, <3>1 DEF Recorded
  <2>2. QED
    BY <1>6, <1>7, <2>1
<1>9. ASSUME NEW e \in ToSet(m_events'[1]), NEW g \in Statements, dayOf'[g] # 0, Begun(e, g)'
      PROVE  g \in ToSet(m_events'[1]) \/ g = own[t]
  <2>1. m_events'[1] = m_events[1]
    <3>1. ToSet(<<>>) = {}
      BY DEF ToSet
    <3>2. QED
      BY <1>2, <1>9, <3>1 DEF EventsLeft
  <2>2. CASE g # own[t]
    BY <1>1, <1>2, <1>3, <1>9, <2>1, <2>2 DEF NothingMissing
  <2>3. QED
    BY <2>2
<1>10. QED
  BY <1>2, <1>8, <1>9 DEF NothingMissing

(* The statement that is pushed is the last.                               *)
LEMMA NothingMissingPush ==
  ASSUME NEW t, Threads = {t}, EventInv, NothingMissing, PushBack(t)
  PROVE  NothingMissing'
<1> USE DEF wraps, appenders
<1>1. Wraps = {1} /\ TypeOK /\ pc[t] = "push" /\ this[t] = 1 /\ own[t] \in Statements
  <2>1. pc[t] = "push" /\ t \in Threads
    BY DEF PushBack, Go
  <2>2. own[t] \in Statements
    BY <2>1, Busy
  <2>3. QED
    BY <2>1, <2>2, OnePlace DEF EventInv, OneWrap, Wrapping
<1>2. /\ m_recordings' = m_recordings /\ dayOf' = dayOf /\ begun' = begun
      /\ m_events'[1] = Append(m_events[1], own[t]) /\ m_events[1] \in Seq(Statements)
  BY <1>1 DEF PushBack, TypeOK
<1>3. ToSet(m_events'[1]) = ToSet(m_events[1]) \union {own[t]}
  BY <1>1, <1>2, Appended
<1>4. \A e, g : Begun(e, g)' <=> Begun(e, g)
  BY <1>2 DEF Begun
<1>5. \A k \in DOMAIN m_recordings'[1] : Whole(m_recordings[1][k])'
  BY <1>2, <1>4 DEF NothingMissing, Whole
<1>6. ASSUME NEW e \in ToSet(m_events'[1]), NEW g \in Statements, dayOf'[g] # 0, Begun(e, g)'
      PROVE  g \in ToSet(m_events'[1])
  <2>1. Begun(e, g) /\ dayOf[g] # 0
    BY <1>2, <1>4, <1>6
  <2>2. CASE e = own[t]
    <3>1. g = own[t]
      BY <1>1, <2>1, <2>2, NothingLater
    <3>2. QED
      BY <1>3, <3>1
  <2>3. CASE e \in ToSet(m_events[1])
    BY <1>3, <2>1, <2>3 DEF NothingMissing
  <2>4. QED
    BY <1>3, <1>6, <2>2, <2>3
<1>7. QED
  BY <1>5, <1>6 DEF NothingMissing

LEMMA NothingMissingStep ==
  ASSUME NEW t, Threads = {t}, EventInv, NothingMissing, [Next]_vars
  PROVE  NothingMissing'
<1> USE DEF wraps, appenders, threads
<1>1. t \in Threads /\ pc \in [Threads -> {"idle", "get", "create", "wrap", "updata", "push",
                                           "stream", "write", "console", "undefined"}]
  BY DEF EventInv, TypeOK
<1>2. CASE FindWrap(t) \/ CreateWrap(t) \/ Wrap(t) \/ get_stream(t) \/ Write(t)
  BY <1>1, <1>2, NothingMissingKept DEF FindWrap, CreateWrap, NewWrap, Wrap, get_stream, Write, Go
<1>3. CASE ConsoleLog(t)
  BY <1>1, <1>3, NothingMissingKept DEF ConsoleLog, Leave, Go
<1>4. CASE \/ \E a \in Appenders : add_appender(a) \/ delete_appender(a)
           \/ clean_appender
  BY <1>4, NothingMissingKept DEF add_appender, delete_appender, clean_appender, ChangeAppenders
<1>5. CASE Tomorrow \/ UNCHANGED vars
  BY <1>5, NothingMissingKept DEF Tomorrow, vars
<1>6. QED
  BY <1>2, <1>3, <1>4, <1>5, NothingMissingBegin, NothingMissingUpdata, NothingMissingPush
     DEF Next, Step

LEMMA NothingMissingHolds ==
  ASSUME NEW t, Threads = {t}
  PROVE  Spec => []NothingMissing
<1>1. Init => NothingMissing
  <2>1. ToSet(<<>>) = {} /\ DOMAIN <<>> = {} /\ Wraps = {1}
    BY OnePlace DEF ToSet
  <2>2. QED
    BY <2>1 DEF Init, NothingMissing
<1>2. EventInv /\ NothingMissing /\ [Next]_vars => NothingMissing'
  BY NothingMissingStep
<1>3. Spec => []EventInv
  BY EventInvHolds
<1>4. QED
  BY <1>1, <1>2, <1>3, PTL DEF Spec

(* For any days and months, those included that share a day of the month:  *)
(* with one thread that logs, every list of events is a run of what was    *)
(* logged, all of the same day of a month.                                 *)
THEOREM ListsAreRuns ==
  ASSUME NEW t, Threads = {t}
  PROVE  LoggerSpec => []RunsOfOneMonthDay
<1>1. EventInv /\ NothingMissing => RunsOfOneMonthDay
  <2> SUFFICES ASSUME EventInv, NothingMissing PROVE RunsOfOneMonthDay
    OBVIOUS
  <2>1. TypeOK /\ Lists /\ Wraps = {1} /\ Dates
    BY OnePlace DEF EventInv
  <2>2. /\ m_recordings[1] \in Seq(Seq(Statements)) /\ m_events[1] \in Seq(Statements)
        /\ begun \in Seq(Statements)
    BY <2>1 DEF TypeOK
  <2>3. \A g \in ToSet(begun) : g \in Statements
    BY <2>2, Members
  <2>4. ASSUME NEW list \in ToSet(m_recordings[1])
        PROVE  SameMonthDay(list) /\ Whole(list)
    <3>1. PICK k \in DOMAIN m_recordings[1] : m_recordings[1][k] = list
      BY DEF ToSet
    <3>2. QED
      BY <2>1, <3>1 DEF Lists, NothingMissing
  <2>5. SameMonthDay(m_events[1])
    BY <2>1 DEF Lists, SameMonthDay
  <2>6. ASSUME NEW e \in ToSet(m_events[1]), NEW f \in ToSet(m_events[1]), NEW g \in Statements,
               dayOf[g] # 0, Begun(e, g), Begun(g, f)
        PROVE  g \in ToSet(m_events[1])
    <3>1. CASE pc[t] = "push" /\ own[t] = g
      <4>1. f = g
        BY <2>6, <3>1, NothingLater
      <4>2. QED
        BY <4>1
    <3>2. QED
      BY <2>6, <3>1 DEF NothingMissing
  <2>7. Whole(m_events[1])
    BY <2>6 DEF Whole
  <2>8. QED
    BY <2>1, <2>3, <2>4, <2>5, <2>7 DEF RunsOfOneMonthDay, SameMonthDay, Whole
<1>2. QED
  BY <1>1, LogsEvents, EventInvHolds, NothingMissingHolds, PTL

-----------------------------------------------------------------------------
(* The inductive invariant of explain().                                   *)
Characters == ToSet(m_pattern) \union {"null"}

ParserTypeOK ==
  /\ m_pattern \in Patterns
  /\ parser \in {"outer", "skip", "scan", "settle", "done"}
  /\ i \in 0..(Format!size + 1) /\ j \in 0..Format!size /\ begin \in Nat
  /\ match \in BOOLEAN
  /\ unlegal \in Seq(Characters) /\ temp_str \in Seq(Characters) /\ effect_str \in Seq(Characters)
  /\ m_items \in Seq(Known \union {"error"})

(* A group begins with its % and reaches to j.                             *)
InGroup ==
  /\ parser = "outer" => i <= Format!size
  /\ parser \in {"scan", "settle"} => i < j /\ m_pattern[i + 1] = "%"

(* What is kept of the group while it is scanned.                          *)
Kept ==
  parser = "scan" =>
    /\ match => /\ temp_str = <<>>
                /\ effect_str = IF j = Format!size THEN Format!substr(i + 1, Format!size - i - 1) ELSE <<>>
    /\ ~match => /\ begin \in (i + 2)..j
                 /\ temp_str = Format!substr(i + 1, begin - i - 2)
                 /\ j < Format!size => effect_str = <<>>

(* The commands in str are found in the pattern, from left to right,       *)
(* behind position m and up to n.                                          *)
Found(str, m, n) ==
  LET commands == {k \in DOMAIN str : str[k] \in Known} IN
  \E place \in [commands -> {q \in DOMAIN m_pattern : m < q /\ q <= n}] :
    /\ Format!LeftToRight(place)
    /\ \A k \in commands : str[k] = m_pattern[place[k]]

(* Those of the group in it, and those of all groups before it.            *)
OrderInv ==
  /\ ParserTypeOK /\ InGroup /\ Kept
  /\ parser = "settle" /\ match => Found(Format!Effect, i, j)
  /\ Found(m_items, 0, i)

(* In a plain pattern the loops meet nothing but groups of letters, ...    *)
NothingElse ==
  /\ match /\ unlegal = <<>>
  /\ parser = "skip" => i < Format!size
  /\ parser \in {"outer", "skip"} => i = Format!size \/ m_pattern[i + 1] = "%"
  /\ parser = "scan" => \A k \in (i + 2)..j : m_pattern[k] \in Letters
  /\ parser = "settle" =>
       LET last == IF j = Format!size THEN Format!size ELSE j - 1 IN
       /\ i < last
       /\ Format!Effect = Format!substr(i + 1, last - i - 1)
       /\ \A k \in (i + 2)..last : m_pattern[k] \in Letters
       /\ j # Format!size => m_pattern[j] \notin Letters /\ m_pattern[j + 1] = "%"
  /\ parser = "done" => i = Format!size

(* ... and str has the items of all letters behind m and up to n.          *)
LettersIn(m, n) == {q \in Format!LetterPlaces : m < q /\ q <= n}

Spelled(str, m, n) ==
  \E place \in [DOMAIN str -> LettersIn(m, n)] :
    /\ Format!LeftToRight(place)
    /\ \A q \in LettersIn(m, n) : \E k \in DOMAIN str : place[k] = q
    /\ \A k \in DOMAIN str : str[k] = Format!Item(m_pattern[place[k]])

PlainInv == Format!Plain(m_pattern) => NothingElse /\ Spelled(m_items, 0, i)

-----------------------------------------------------------------------------
LEMMA PatternFacts ==
  ASSUME m_pattern \in Patterns
  PROVE  /\ m_pattern \in Seq(ToSet(m_pattern)) /\ Format!size = Len(m_pattern) /\ Format!size \in Nat
         /\ DOMAIN m_pattern = 1..Format!size
         /\ \A k \in 1..Format!size : m_pattern[k] \in Characters
         /\ \A k \in Nat : k < Format!size => Format!CharAt(k) = m_pattern[k + 1]
<1>1. m_pattern \in Seq(ToSet(m_pattern)) /\ Format!size = Len(m_pattern)
  BY LoggerAssumption DEF Format!size
<1>2. Len(m_pattern) \in Nat /\ DOMAIN m_pattern = 1..Len(m_pattern)
  BY <1>1
<1>3. \A k \in 1..Len(m_pattern) : m_pattern[k] \in ToSet(m_pattern)
  BY <1>1, ElementOfSeq
<1>4. QED
  BY <1>1, <1>2, <1>3 DEF Characters, Format!CharAt

(* std::string::substr within the string.                                  *)
LEMMA Substr ==
  ASSUME m_pattern \in Patterns, NEW a \in Nat, NEW c \in Nat, a + c <= Format!size
  PROVE  /\ Format!substr(a, c) \in Seq(Characters)
         /\ Len(Format!substr(a, c)) = c
         /\ \A k \in 1..c : Format!substr(a, c)[k] = m_pattern[a + k]
<1> DEFINE C == ToSet(m_pattern)
           n == Len(m_pattern)
<1>1. m_pattern \in Seq(C) /\ Format!size = n /\ n \in Nat /\ a + c <= n /\ C \subseteq Characters
  BY PatternFacts DEF Characters
<1> HIDE DEF C, n
<1>2. Format!substr(a, c) = SubSeq(m_pattern, a + 1, a + c)
  BY DEF Format!substr
<1>3. /\ SubSeq(m_pattern, a + 1, a + c) \in Seq(C)
      /\ Len(SubSeq(m_pattern, a + 1, a + c)) = c
      /\ \A k \in 1..c : SubSeq(m_pattern, a + 1, a + c)[k] = m_pattern[a + k]
  <2>1. \A k \in (a + 1)..(a + c) : m_pattern[k] \in C
    BY <1>1, PatternFacts, ElementOfSeq DEF n
  <2>2. /\ SubSeq(m_pattern, a + 1, a + c) \in Seq(C)
        /\ Len(SubSeq(m_pattern, a + 1, a + c)) =
             IF a + 1 <= a + c THEN (a + c) - (a + 1) + 1 ELSE 0
        /\ \A k \in 1..((a + c) - (a + 1) + 1) :
             SubSeq(m_pattern, a + 1, a + c)[k] = m_pattern[(a + 1) + k - 1]
    <3>1. a + 1 \in Int /\ a + c \in Int
      OBVIOUS
    <3>2. QED
      BY <2>1, <3>1, SubSeqProperties
  <2>3. (a + c) - (a + 1) + 1 = c /\ \A k \in 1..c : (a + 1) + k - 1 = a + k
    OBVIOUS
  <2>4. (IF a + 1 <= a + c THEN (a + c) - (a + 1) + 1 ELSE 0) = c
    OBVIOUS
  <2>5. QED
    BY <2>2, <2>3, <2>4
<1>4. Seq(C) \subseteq Seq(Characters)
  BY <1>1
<1>5. QED
  BY <1>2, <1>3, <1>4

LEMMA Joined ==
  ASSUME NEW S, NEW s \in Seq(S), NEW r \in Seq(S)
  PROVE  /\ s \o r \in Seq(S) /\ Len(s) \in Nat /\ Len(r) \in Nat
         /\ Len(s \o r) = Len(s) + Len(r)
         /\ DOMAIN s = 1..Len(s) /\ DOMAIN r = 1..Len(r) /\ DOMAIN (s \o r) = 1..(Len(s) + Len(r))
         /\ \A k \in 1..Len(s) : k \in DOMAIN (s \o r) /\ (s \o r)[k] = s[k]
         /\ \A k \in DOMAIN (s \o r) : k \notin 1..Len(s) =>
              k - Len(s) \in 1..Len(r) /\ (s \o r)[k] = r[k - Len(s)]
         /\ \A k \in 1..Len(r) : k + Len(s) \in DOMAIN (s \o r) /\ (s \o r)[k + Len(s)] = r[k]
<1> DEFINE u == s \o r
<1>1. u \in Seq(S) /\ Len(u) = Len(s) + Len(r)
      /\ \A k \in 1..(Len(s) + Len(r)) : u[k] = IF k <= Len(s) THEN s[k] ELSE r[k - Len(s)]
  BY ConcatProperties, Zenon
<1> HIDE DEF u
<1>2. Len(s) \in Nat /\ Len(r) \in Nat
  OBVIOUS
<1>3. DOMAIN s = 1..Len(s) /\ DOMAIN r = 1..Len(r) /\ DOMAIN u = 1..(Len(s) + Len(r))
  BY <1>1
<1>4. \A k \in 1..Len(s) : k \in DOMAIN u /\ u[k] = s[k]
  BY <1>1, <1>2, <1>3
<1>5. ASSUME NEW k \in DOMAIN u, k \notin 1..Len(s)
      PROVE  k - Len(s) \in 1..Len(r) /\ u[k] = r[k - Len(s)]
  <2>1. k \in 1..(Len(s) + Len(r)) /\ ~(k <= Len(s))
    BY <1>2, <1>3, <1>5
  <2>2. QED
    BY <1>1, <1>2, <2>1
<1>6. ASSUME NEW k \in 1..Len(r)
      PROVE  k + Len(s) \in DOMAIN u /\ u[k + Len(s)] = r[k]
  <2>1. k + Len(s) \in 1..(Len(s) + Len(r)) /\ ~(k + Len(s) <= Len(s)) /\ (k + Len(s)) - Len(s) = k
    BY <1>2
  <2>2. QED
    BY <1>1, <1>3, <2>1
<1>7. QED
  BY <1>1, <1>2, <1>3, <1>4, <1>5, <1>6 DEF u

(* What is found behind one another is found together.                     *)
LEMMA FoundJoined ==
  ASSUME m_pattern \in Patterns, NEW S, NEW s \in Seq(S), NEW r \in Seq(S),
         NEW m \in Nat, NEW x \in Nat, NEW n \in Nat, m <= x, x <= n,
         Found(s, m, x), Found(r, x, n)
  PROVE  Found(s \o r, m, n)
<1> DEFINE u == s \o r
           Ks == {k \in DOMAIN s : s[k] \in Known}
           Kr == {k \in DOMAIN r : r[k] \in Known}
           Ku == {k \in DOMAIN u : u[k] \in Known}
           P(a, b) == {q \in DOMAIN m_pattern : a < q /\ q <= b}
           l == Len(s)
<1>1. /\ l \in Nat /\ DOMAIN s = 1..l
      /\ \A k \in 1..l : k \in DOMAIN u /\ u[k] = s[k]
      /\ \A k \in DOMAIN u : k \notin 1..l => k - l \in DOMAIN r /\ u[k] = r[k - l]
      /\ DOMAIN u \subseteq Nat
  BY Joined
<1>2. PICK ps \in [Ks -> P(m, x)] :
        Format!LeftToRight(ps) /\ \A k \in Ks : s[k] = m_pattern[ps[k]]
  BY DEF Found
<1>3. PICK pr \in [Kr -> P(x, n)] :
        Format!LeftToRight(pr) /\ \A k \in Kr : r[k] = m_pattern[pr[k]]
  BY DEF Found
<1> DEFINE place == [k \in Ku |-> IF k \in 1..l THEN ps[k] ELSE pr[k - l]]
<1>4. DOMAIN m_pattern \subseteq Nat
  BY PatternFacts
<1>5. \A k \in Ku : IF k \in 1..l THEN k \in Ks ELSE k - l \in Kr
  BY <1>1
<1>6. P(m, x) \subseteq P(m, n) /\ P(x, n) \subseteq P(m, n) /\ \A a \in P(m, x), b \in P(x, n) : a < b
  BY <1>4
<1> HIDE DEF u, Ks, Kr, P, l
<1>7. place \in [Ku -> P(m, n)]
  BY <1>2, <1>3, <1>5, <1>6
<1>8. ASSUME NEW k \in Ku PROVE u[k] = m_pattern[place[k]]
  <2>1. CASE k \in 1..l
    BY <1>1, <1>2, <1>5, <2>1
  <2>2. CASE k \notin 1..l
    BY <1>1, <1>3, <1>5, <2>2
  <2>3. QED
    BY <2>1, <2>2
<1>9. ASSUME NEW k \in Ku, NEW h \in Ku, k < h PROVE place[k] < place[h]
  <2>1. k \in Nat /\ h \in Nat
    BY <1>1
  <2>2. CASE h \in 1..l
    <3>1. k \in 1..l
      <4>1. k # 0
        BY <1>1, <1>5 DEF Kr
      <4>2. QED
        BY <1>1, <1>9, <2>1, <2>2, <4>1
    <3>2. QED
      BY <1>2, <1>5, <1>9, <2>2, <3>1 DEF Format!LeftToRight
  <2>3. CASE k \in 1..l /\ h \notin 1..l
    BY <1>2, <1>3, <1>5, <1>6, <2>3
  <2>4. CASE k \notin 1..l /\ h \notin 1..l
    <3>1. k - l \in Kr /\ h - l \in Kr /\ k - l < h - l
      <4>1. k - l \in Kr /\ h - l \in Kr
        BY <1>1, <1>5, <2>4
      <4>2. QED
        BY <1>1, <1>9, <2>1, <4>1
    <3>2. pr[k - l] < pr[h - l]
      BY <1>3, <3>1 DEF Format!LeftToRight
    <3>3. QED
      BY <2>4, <3>2
  <2>5. QED
    BY <2>2, <2>3, <2>4
<1>10. Format!LeftToRight(place)
  BY <1>7, <1>9 DEF Format!LeftToRight
<1> HIDE DEF place
<1>11. QED
  BY <1>7, <1>8, <1>10 DEF Found, u, P

LEMMA FoundSubstr ==
  ASSUME m_pattern \in Patterns, NEW a \in Nat, NEW c \in Nat, a + c <= Format!size,
         NEW m \in Nat, NEW n \in Nat, m <= a, a + c <= n
  PROVE  Found(Format!substr(a, c), m, n)
<1> DEFINE s == Format!substr(a, c)
           Ks == {k \in DOMAIN s : s[k] \in Known}
           place == [k \in Ks |-> a + k]
<1>1. /\ s \in Seq(Characters) /\ Len(s) = c
      /\ \A k \in 1..c : s[k] = m_pattern[a + k]
  BY Substr
<1> HIDE DEF s
<1>2. DOMAIN s = 1..c
  BY <1>1
<1>3. DOMAIN m_pattern = 1..Format!size /\ Format!size \in Nat
  BY PatternFacts
<1>4. place \in [Ks -> {q \in DOMAIN m_pattern : m < q /\ q <= n}]
  BY <1>2, <1>3
<1>5. Format!LeftToRight(place)
  BY <1>2 DEF Format!LeftToRight
<1>6. \A k \in Ks : s[k] = m_pattern[place[k]]
  BY <1>1, <1>2
<1>7. QED
  BY <1>4, <1>5, <1>6 DEF Found, s

LEMMA FoundWider ==
  ASSUME m_pattern \in Patterns, NEW s, NEW m \in Nat, NEW n \in Nat, NEW k \in Nat, NEW h \in Nat,
         k <= m, n <= h, Found(s, m, n)
  PROVE  Found(s, k, h)
<1>1. {q \in DOMAIN m_pattern : m < q /\ q <= n} \subseteq {q \in DOMAIN m_pattern : k < q /\ q <= h}
  BY PatternFacts
<1>2. QED
  BY <1>1 DEF Found

LEMMA NothingFound ==
  ASSUME NEW s, \A k \in DOMAIN s : s[k] \notin Known, NEW m, NEW n
  PROVE  Found(s, m, n)
<1> DEFINE place == [k \in {} |-> 0]
<1>1. {k \in DOMAIN s : s[k] \in Known} = {}
  OBVIOUS
<1>2. place \in [{} -> {q \in DOMAIN m_pattern : m < q /\ q <= n}]
  OBVIOUS
<1>3. Format!LeftToRight(place)
  BY DEF Format!LeftToRight
<1>4. QED
  BY <1>1, <1>2, <1>3 DEF Found

(* The items made of some characters.                                      *)
LEMMA ItemsFacts ==
  ASSUME NEW S, NEW s \in Seq(S)
  PROVE  /\ Format!Items(s) \in Seq(Known \union {"error"})
         /\ Len(Format!Items(s)) = Len(s) /\ DOMAIN Format!Items(s) = DOMAIN s /\ DOMAIN s = 1..Len(s)
         /\ \A k \in DOMAIN s : Format!Items(s)[k] = Format!Item(s[k])
<1>1. \A c : Format!Item(c) \in Known \union {"error"}
  BY DEF Format!Item
<1>2. Len(s) \in Nat /\ DOMAIN s = 1..Len(s)
  OBVIOUS
<1>3. Format!Items(s) = [k \in 1..Len(s) |-> Format!Item(s[k])]
  BY <1>2 DEF Format!Items
<1>4. QED
  BY <1>1, <1>2, <1>3

LEMMA ItemsFound ==
  ASSUME NEW S, NEW s \in Seq(S), NEW m, NEW n, Found(s, m, n)
  PROVE  Found(Format!Items(s), m, n)
<1> DEFINE r == Format!Items(s)
<1>1. DOMAIN r = DOMAIN s /\ \A k \in DOMAIN s : r[k] = Format!Item(s[k])
  BY ItemsFacts
<1> HIDE DEF r
<1>2. "error" \notin Known
  BY LoggerAssumption
<1>3. {k \in DOMAIN r : r[k] \in Known} = {k \in DOMAIN s : s[k] \in Known}
  BY <1>1, <1>2 DEF Format!Item
<1>4. \A k \in DOMAIN s : s[k] \in Known => r[k] = s[k]
  BY <1>1 DEF Format!Item
<1> DEFINE K == {k \in DOMAIN s : s[k] \in Known}
           Q == {q \in DOMAIN m_pattern : m < q /\ q <= n}
<1>5. PICK place \in [K -> Q] :
        Format!LeftToRight(place) /\ \A k \in K : s[k] = m_pattern[place[k]]
  BY DEF Found
<1>6. \A k \in K : r[k] = m_pattern[place[k]]
  BY <1>4, <1>5
<1>7. Found(r, m, n)
  BY <1>3, <1>5, <1>6 DEF Found
<1>8. QED
  BY <1>7 DEF r

LEMMA ErrorsFacts ==
  ASSUME NEW S, NEW s \in Seq(S)
  PROVE  /\ Format!Errors(s) \in Seq(Known \union {"error"})
         /\ \A k \in DOMAIN Format!Errors(s) : Format!Errors(s)[k] \notin Known
<1>1. Len(s) \in Nat /\ DOMAIN s = 1..Len(s) /\ "error" \notin Known
  BY LoggerAssumption
<1>2. Format!Errors(s) = [k \in 1..Len(s) |-> "error"]
  BY <1>1 DEF Format!Errors
<1>3. QED
  BY <1>1, <1>2

(* The next group, or the end of the pattern.                              *)
LEMMA OuterOrder ==
  ASSUME OrderInv, Format!Outer
  PROVE  OrderInv'
<1>1. /\ ParserTypeOK /\ InGroup /\ Kept /\ Found(m_items, 0, i)
      /\ parser = "settle" /\ match => Found(Format!Effect, i, j)
      /\ m_pattern \in Patterns
  BY DEF OrderInv, ParserTypeOK
<1> DEFINE n == Format!size
<1>2. /\ n \in Nat /\ DOMAIN m_pattern = 1..n
      /\ \A k \in 1..n : m_pattern[k] \in Characters
      /\ \A k \in Nat : k < n => Format!CharAt(k) = m_pattern[k + 1]
  BY <1>1, PatternFacts
<1>3. i \in Nat /\ j \in Nat /\ begin \in Nat /\ j <= n /\ i <= n + 1
  BY <1>1, <1>2 DEF ParserTypeOK
<1>4. m_pattern' = m_pattern /\ Characters' = Characters /\ Format!size' = n
  BY DEF Format!Outer, Characters, Format!size
<1> HIDE DEF n
<1>10. ParserTypeOK'
  BY <1>1, <1>2, <1>3, <1>4 DEF Format!Outer, ParserTypeOK, n
<1>11. InGroup'
  BY <1>1, <1>2, <1>3, <1>4 DEF Format!Outer, InGroup, n
<1>12. Kept'
  BY <1>1, <1>2, <1>3, <1>4 DEF Format!Outer, Kept, n
<1>13. parser' = "settle" /\ match' => Found(Format!Effect, i, j)'
  BY <1>1 DEF Format!Outer
<1>14. Found(m_items, 0, i)'
  <2>1. m_items' = m_items /\ i' = i
    BY DEF Format!Outer
  <2>2. QED
    BY <1>1, <1>4, <2>1 DEF Found
<1>15. QED
  BY <1>10, <1>11, <1>12, <1>13, <1>14 DEF OrderInv

(* A character outside of the groups.                                      *)
LEMMA SkipOrder ==
  ASSUME OrderInv, Format!Skip
  PROVE  OrderInv'
<1>1. /\ ParserTypeOK /\ InGroup /\ Kept /\ Found(m_items, 0, i)
      /\ parser = "settle" /\ match => Found(Format!Effect, i, j)
      /\ m_pattern \in Patterns
  BY DEF OrderInv, ParserTypeOK
<1> DEFINE n == Format!size
<1>2. /\ n \in Nat /\ DOMAIN m_pattern = 1..n
      /\ \A k \in 1..n : m_pattern[k] \in Characters
      /\ \A k \in Nat : k < n => Format!CharAt(k) = m_pattern[k + 1]
  BY <1>1, PatternFacts
<1>3. i \in Nat /\ j \in Nat /\ begin \in Nat /\ j <= n /\ i <= n + 1
  BY <1>1, <1>2 DEF ParserTypeOK
<1>4. m_pattern' = m_pattern /\ Characters' = Characters /\ Format!size' = n
  BY DEF Format!Skip, Characters, Format!size
<1> HIDE DEF n
<1>10. ParserTypeOK'
  <2>1. Format!CharAt(i) \in Characters
    BY <1>2, <1>3 DEF Format!CharAt, Characters, n
  <2>2. unlegal' \in Seq(Characters)
    BY <1>1, <2>1 DEF Format!Skip, ParserTypeOK
  <2>3. i' \in 0..(n + 1)
    BY <1>2, <1>3 DEF Format!Skip, n
  <2>4. QED
    BY <1>1, <1>4, <2>2, <2>3 DEF Format!Skip, ParserTypeOK, n
<1>11. InGroup'
  BY <1>1, <1>2, <1>3, <1>4 DEF Format!Skip, InGroup, n
<1>12. Kept'
  BY <1>1, <1>2, <1>3, <1>4 DEF Format!Skip, Kept, n
<1>13. parser' = "settle" /\ match' => Found(Format!Effect, i, j)'
  BY <1>1 DEF Format!Skip
<1>14. Found(m_items, 0, i)'
  <2>1. m_items' = m_items /\ i' = i + 1
    BY DEF Format!Skip
  <2>2. Found(m_items, 0, i + 1)
    BY <1>1, <1>3, FoundWider
  <2>3. QED
    BY <1>4, <2>1, <2>2 DEF Found
<1>15. QED
  BY <1>10, <1>11, <1>12, <1>13, <1>14 DEF OrderInv

(* A group begins.                                                         *)
LEMMA OpenGroupOrder ==
  ASSUME OrderInv, Format!OpenGroup
  PROVE  OrderInv'
<1>1. /\ ParserTypeOK /\ InGroup /\ Kept /\ Found(m_items, 0, i)
      /\ parser = "settle" /\ match => Found(Format!Effect, i, j)
      /\ m_pattern \in Patterns
  BY DEF OrderInv, ParserTypeOK
<1> DEFINE n == Format!size
<1>2. /\ n \in Nat /\ DOMAIN m_pattern = 1..n
      /\ \A k \in 1..n : m_pattern[k] \in Characters
      /\ \A k \in Nat : k < n => Format!CharAt(k) = m_pattern[k + 1]
  BY <1>1, PatternFacts
<1>3. i \in Nat /\ j \in Nat /\ begin \in Nat /\ j <= n /\ i <= n + 1
  BY <1>1, <1>2 DEF ParserTypeOK
<1>4. m_pattern' = m_pattern /\ Characters' = Characters /\ Format!size' = n
  BY DEF Format!OpenGroup, Characters, Format!size
<1> HIDE DEF n
<1>5. i < n /\ m_pattern[i + 1] = "%"
  <2>1. Format!CharAt(i) = "%"
    BY DEF Format!OpenGroup
  <2>2. i < n
    BY <2>1 DEF Format!CharAt, n
  <2>3. QED
    BY <1>2, <1>3, <2>1, <2>2
<1>10. ParserTypeOK'
  BY <1>1, <1>2, <1>3, <1>4, <1>5 DEF Format!OpenGroup, ParserTypeOK, n
<1>11. InGroup'
  BY <1>1, <1>4, <1>5, <1>3 DEF Format!OpenGroup, InGroup
<1>12. Kept'
  <2>1. temp_str' = <<>> /\ effect_str' = <<>> /\ match' = TRUE /\ j' = i + 1 /\ i' = i
    BY DEF Format!OpenGroup
  <2>2. Format!substr(i + 1, 0) = <<>>
    <3>1. Format!substr(i + 1, 0) \in Seq(Characters) /\ Len(Format!substr(i + 1, 0)) = 0
      BY <1>1, <1>2, <1>3, <1>5, Substr DEF n
    <3>2. QED
      BY <3>1
  <2>3. j' = n => Format!size' - i' - 1 = 0
    BY <1>2, <1>3, <1>4, <2>1
  <2>4. Format!substr(i + 1, 0)' = Format!substr(i + 1, 0)
    BY <1>4, <2>1 DEF Format!substr
  <2>5. j' = n => Format!substr(i + 1, Format!size - i - 1)' = <<>>
    BY <2>2, <2>3, <2>4
  <2>6. QED
    BY <1>4, <2>1, <2>5 DEF Kept
<1>13. parser' = "settle" /\ match' => Found(Format!Effect, i, j)'
  BY <1>1 DEF Format!OpenGroup
<1>14. Found(m_items, 0, i)'
  <2>1. m_items' = m_items /\ i' = i
    BY DEF Format!OpenGroup
  <2>2. QED
    BY <1>1, <1>4, <2>1 DEF Found
<1>15. QED
  BY <1>10, <1>11, <1>12, <1>13, <1>14 DEF OrderInv

(* A separator ends the group.                                             *)
LEMMA SeparatorOrder ==
  ASSUME OrderInv, Format!Separator
  PROVE  OrderInv'
<1>1. /\ ParserTypeOK /\ InGroup /\ Kept /\ Found(m_items, 0, i)
      /\ parser = "settle" /\ match => Found(Format!Effect, i, j)
      /\ m_pattern \in Patterns
  BY DEF OrderInv, ParserTypeOK
<1> DEFINE n == Format!size
<1>2. /\ n \in Nat /\ DOMAIN m_pattern = 1..n
      /\ \A k \in 1..n : m_pattern[k] \in Characters
      /\ \A k \in Nat : k < n => Format!CharAt(k) = m_pattern[k + 1]
  BY <1>1, PatternFacts
<1>3. i \in Nat /\ j \in Nat /\ begin \in Nat /\ j <= n /\ i <= n + 1
  BY <1>1, <1>2 DEF ParserTypeOK
<1>4. m_pattern' = m_pattern /\ Characters' = Characters /\ Format!size' = n
  BY DEF Format!Separator, Characters, Format!size
<1> HIDE DEF n
<1>5. parser = "scan" /\ j < n /\ i < j /\ m_pattern[i + 1] = "%" /\ i' = i /\ j' = j + 1
  BY <1>1 DEF Format!Separator, InGroup, n
<1>6. /\ match => temp_str = <<>> /\ effect_str = <<>>
      /\ ~match => begin \in (i + 2)..j /\ temp_str = Format!substr(i + 1, begin - i - 2) /\ effect_str = <<>>
  BY <1>1, <1>3, <1>5 DEF Kept, n
<1> DEFINE s == Format!substr(i + 1, j - i - 1)
<1>7. s \in Seq(Characters) /\ Found(s, i, j + 1)
  <2>1. i + 1 \in Nat /\ j - i - 1 \in Nat /\ (i + 1) + (j - i - 1) = j /\ j <= Format!size
    BY <1>3, <1>5 DEF n
  <2>2. QED
    BY <1>1, <1>3, <2>1, Substr, FoundSubstr
<1> HIDE DEF s
<1>10. ParserTypeOK'
  <2>1. temp_str' \in Seq(Characters)
    <3>1. temp_str \in Seq(Characters) /\ temp_str' = temp_str \o s
      BY <1>1 DEF Format!Separator, ParserTypeOK, s
    <3>2. QED
      BY <1>7, <3>1, Joined
  <2>2. j' \in 0..n
    BY <1>2, <1>3, <1>5
  <2>3. QED
    BY <1>1, <1>4, <2>1, <2>2 DEF Format!Separator, ParserTypeOK, n
<1>11. InGroup'
  BY <1>3, <1>4, <1>5 DEF Format!Separator, InGroup
<1>12. Kept'
  BY DEF Format!Separator, Kept
<1>13. parser' = "settle" /\ match' => Found(Format!Effect, i, j)'
  <2> SUFFICES ASSUME match' PROVE Found(Format!Effect, i, j)'
    OBVIOUS
  <2>1. match /\ match' /\ effect_str' = <<>> /\ temp_str' = <<>> \o s
    BY <1>6 DEF Format!Separator, s
  <2>2. <<>> \o s = s /\ <<>> \o (<<>> \o s) = s
    BY <1>7
  <2>3. Format!Effect' = IF j + 1 # n THEN s ELSE <<>>
    BY <1>4, <1>5, <2>1, <2>2 DEF Format!Effect
  <2>4. Found(<<>>, i, j + 1)
    BY NothingFound
  <2>5. Found(Format!Effect', i, j + 1)
    BY <1>7, <2>3, <2>4
  <2>6. QED
    BY <1>4, <1>5, <2>5 DEF Found
<1>14. Found(m_items, 0, i)'
  <2>1. m_items' = m_items /\ i' = i
    BY DEF Format!Separator
  <2>2. QED
    BY <1>1, <1>4, <2>1 DEF Found
<1>15. QED
  BY <1>10, <1>11, <1>12, <1>13, <1>14 DEF OrderInv

(* A character of the group, outside of parentheses.                       *)
LEMMA CharacterOrder ==
  ASSUME OrderInv, Format!Character
  PROVE  OrderInv'
<1>1. /\ ParserTypeOK /\ InGroup /\ Kept /\ Found(m_items, 0, i)
      /\ parser = "settle" /\ match => Found(Format!Effect, i, j)
      /\ m_pattern \in Patterns
  BY DEF OrderInv, ParserTypeOK
<1> DEFINE n == Format!size
<1>2. /\ n \in Nat /\ DOMAIN m_pattern = 1..n
      /\ \A k \in 1..n : m_pattern[k] \in Characters
      /\ \A k \in Nat : k < n => Format!CharAt(k) = m_pattern[k + 1]
  BY <1>1, PatternFacts
<1>3. i \in Nat /\ j \in Nat /\ begin \in Nat /\ j <= n /\ i <= n + 1
  BY <1>1, <1>2 DEF ParserTypeOK
<1>4. m_pattern' = m_pattern /\ Characters' = Characters /\ Format!size' = n
  BY DEF Format!Character, Characters, Format!size
<1> HIDE DEF n
<1>5. parser = "scan" /\ j < n /\ i < j /\ m_pattern[i + 1] = "%" /\ i' = i /\ j' = j + 1
  BY <1>1 DEF Format!Character, InGroup, n
<1>6. /\ match => temp_str = <<>> /\ effect_str = <<>>
      /\ ~match => begin \in (i + 2)..j /\ temp_str = Format!substr(i + 1, begin - i - 2) /\ effect_str = <<>>
  BY <1>1, <1>3, <1>5 DEF Kept, n
<1> DEFINE s == Format!substr(i + 1, j - i - 1)
<1>7. s \in Seq(Characters) /\ Found(s, i, j + 1)
  <2>1. i + 1 \in Nat /\ j - i - 1 \in Nat /\ (i + 1) + (j - i - 1) = j /\ j <= Format!size
    BY <1>3, <1>5 DEF n
  <2>2. QED
    BY <1>1, <1>3, <2>1, Substr, FoundSubstr
<1> HIDE DEF s
<1>8. IF Format!CharAt(j) = "("
      THEN match' = FALSE /\ temp_str' = s /\ begin' = j + 1
      ELSE match' = TRUE /\ temp_str' = <<>> /\ begin' = begin
  <2>1. <<>> \o s = s
    BY <1>7
  <2>2. QED
    BY <1>6, <2>1 DEF Format!Character, s
<1>9. /\ effect_str' = IF j' = n THEN Format!substr(i + 1, n - i - 1) ELSE <<>>
      /\ effect_str' \in Seq(Characters)
  <2>1. j' = n <=> j = n - 1
    BY <1>2, <1>3, <1>5
  <2>2. effect_str' = IF j' = n THEN Format!substr(i + 1, n - i - 1) ELSE <<>>
    BY <1>6, <2>1 DEF Format!Character, n
  <2>3. Format!substr(i + 1, n - i - 1) \in Seq(Characters)
    <3>1. i + 1 \in Nat /\ n - i - 1 \in Nat /\ (i + 1) + (n - i - 1) <= Format!size
      BY <1>2, <1>3, <1>5 DEF n
    <3>2. QED
      BY <1>1, <3>1, Substr
  <2>4. QED
    BY <2>2, <2>3, EmptySeq
<1>10. ParserTypeOK'
  <2>1. /\ temp_str' \in Seq(Characters) /\ effect_str' \in Seq(Characters)
    BY <1>7, <1>8, <1>9, EmptySeq
  <2>2. j' \in 0..n /\ begin' \in Nat /\ match' \in BOOLEAN
    <3>1. begin' = j + 1 \/ begin' = begin
      BY <1>8
    <3>2. begin' \in Nat
      BY <1>3, <3>1
    <3>3. j' \in 0..n
      BY <1>2, <1>3, <1>5
    <3>4. match' \in BOOLEAN
      BY <1>8
    <3>5. QED
      BY <3>2, <3>3, <3>4
  <2>3. QED
    BY <1>1, <1>4, <2>1, <2>2 DEF Format!Character, ParserTypeOK, n
<1>11. InGroup'
  BY <1>3, <1>4, <1>5 DEF Format!Character, InGroup
<1>12. Kept'
  <2>1. Format!substr(i + 1, Format!size - i - 1)' = Format!substr(i + 1, n - i - 1)
    BY <1>4, <1>5 DEF Format!substr
  <2>2. match' => temp_str' = <<>> /\ effect_str' = IF j' = n THEN Format!substr(i + 1, n - i - 1) ELSE <<>>
    BY <1>8, <1>9
  <2>3. ~match' => /\ begin' \in (i' + 2)..j'
                   /\ temp_str' = Format!substr(i + 1, begin - i - 2)'
                   /\ j' < n => effect_str' = <<>>
    <3> SUFFICES ASSUME ~match'
                 PROVE  /\ begin' \in (i' + 2)..j'
                        /\ temp_str' = Format!substr(i + 1, begin - i - 2)'
                        /\ j' < n => effect_str' = <<>>
      OBVIOUS
    <3>1. begin' = j + 1 /\ temp_str' = s
      BY <1>8
    <3>2. begin' - i' - 2 = j - i - 1
      BY <1>3, <1>5, <3>1
    <3>3. Format!substr(i + 1, begin - i - 2)' = Format!substr(i + 1, j - i - 1)
      BY <1>4, <1>5, <3>2 DEF Format!substr
    <3>4. QED
      BY <1>3, <1>5, <1>9, <3>1, <3>3 DEF s
  <2>4. QED
    BY <1>4, <2>1, <2>2, <2>3 DEF Kept
<1>13. parser' = "settle" /\ match' => Found(Format!Effect, i, j)'
  BY <1>5 DEF Format!Character
<1>14. Found(m_items, 0, i)'
  <2>1. m_items' = m_items /\ i' = i
    BY DEF Format!Character
  <2>2. QED
    BY <1>1, <1>4, <2>1 DEF Found
<1>15. QED
  BY <1>10, <1>11, <1>12, <1>13, <1>14 DEF OrderInv

(* A character of the group, inside of parentheses.                        *)
LEMMA InParenthesesOrder ==
  ASSUME OrderInv, Format!InParentheses
  PROVE  OrderInv'
<1>1. /\ ParserTypeOK /\ InGroup /\ Kept /\ Found(m_items, 0, i)
      /\ parser = "settle" /\ match => Found(Format!Effect, i, j)
      /\ m_pattern \in Patterns
  BY DEF OrderInv, ParserTypeOK
<1> DEFINE n == Format!size
<1>2. /\ n \in Nat /\ DOMAIN m_pattern = 1..n
      /\ \A k \in 1..n : m_pattern[k] \in Characters
      /\ \A k \in Nat : k < n => Format!CharAt(k) = m_pattern[k + 1]
  BY <1>1, PatternFacts
<1>3. i \in Nat /\ j \in Nat /\ begin \in Nat /\ j <= n /\ i <= n + 1
  BY <1>1, <1>2 DEF ParserTypeOK
<1>4. m_pattern' = m_pattern /\ Characters' = Characters /\ Format!size' = n
  BY DEF Format!InParentheses, Characters, Format!size
<1> HIDE DEF n
<1>5. parser = "scan" /\ j < n /\ i < j /\ m_pattern[i + 1] = "%" /\ i' = i /\ j' = j + 1
  BY <1>1 DEF Format!InParentheses, InGroup, n
<1>6. /\ match => temp_str = <<>> /\ effect_str = <<>>
      /\ ~match => begin \in (i + 2)..j /\ temp_str = Format!substr(i + 1, begin - i - 2) /\ effect_str = <<>>
  BY <1>1, <1>3, <1>5 DEF Kept, n
<1> DEFINE s == Format!substr(i + 1, j - i - 1)
<1>7. s \in Seq(Characters) /\ Found(s, i, j + 1)
  <2>1. i + 1 \in Nat /\ j - i - 1 \in Nat /\ (i + 1) + (j - i - 1) = j /\ j <= Format!size
    BY <1>3, <1>5 DEF n
  <2>2. QED
    BY <1>1, <1>3, <2>1, Substr, FoundSubstr
<1> HIDE DEF s
<1> DEFINE u == Format!substr(begin, j - begin)
<1>8. /\ begin \in (i + 2)..j /\ temp_str = Format!substr(i + 1, begin - i - 2)
      /\ temp_str \in Seq(Characters) /\ u \in Seq(Characters) /\ temp_str \o u \in Seq(Characters)
      /\ Found(temp_str, i, begin) /\ Found(u, begin, j + 1)
  <2>1. begin \in (i + 2)..j /\ temp_str = Format!substr(i + 1, begin - i - 2)
    BY <1>6 DEF Format!InParentheses
  <2>2. /\ i + 1 \in Nat /\ begin - i - 2 \in Nat /\ (i + 1) + (begin - i - 2) <= Format!size
        /\ (i + 1) + (begin - i - 2) <= begin /\ i <= i + 1
        /\ j - begin \in Nat /\ begin + (j - begin) <= Format!size /\ begin + (j - begin) <= j + 1
    <3>1. i + 2 <= begin /\ begin <= j /\ j <= n /\ n \in Nat
      BY <1>2, <1>3, <2>1
    <3>2. (i + 1) + (begin - i - 2) = begin - 1 /\ begin + (j - begin) = j
      BY <1>3
    <3>3. i + 1 \in Nat /\ begin - i - 2 \in Nat /\ j - begin \in Nat /\ begin - 1 <= n
      BY <1>3, <3>1
    <3>4. begin - 1 <= begin /\ i <= i + 1 /\ j <= j + 1
      BY <1>3
    <3>5. QED
      BY <3>1, <3>2, <3>3, <3>4 DEF n
  <2>3. temp_str \in Seq(Characters) /\ u \in Seq(Characters)
    BY <1>1, <1>3, <2>1, <2>2, Substr
  <2>4. Found(temp_str, i, begin)
    BY <1>1, <1>3, <2>1, <2>2, FoundSubstr
  <2>5. Found(u, begin, j + 1)
    BY <1>1, <1>3, <2>2, FoundSubstr
  <2> HIDE DEF u
  <2>6. temp_str \o u \in Seq(Characters)
    BY <2>3, Joined
  <2>7. QED
    BY <2>1, <2>3, <2>4, <2>5, <2>6
<1>9. \/ match' = TRUE /\ parser' = "settle" /\ temp_str' = temp_str \o u
      \/ match' = FALSE /\ parser' = "scan" /\ temp_str' = temp_str
  BY <1>5 DEF Format!InParentheses
<1> HIDE DEF u
<1>10. ParserTypeOK'
  <2>1. temp_str' \in Seq(Characters)
    BY <1>8, <1>9
  <2>2. j' \in 0..n /\ match' \in BOOLEAN /\ parser' \in {"scan", "settle"}
    <3>1. j' \in 0..n
      BY <1>2, <1>3, <1>5
    <3>2. match' \in BOOLEAN /\ parser' \in {"scan", "settle"}
      BY <1>9
    <3>3. QED
      BY <3>1, <3>2
  <2>3. QED
    BY <1>1, <1>4, <2>1, <2>2 DEF Format!InParentheses, ParserTypeOK, n
<1>11. InGroup'
  BY <1>3, <1>4, <1>5 DEF Format!InParentheses, InGroup
<1>12. Kept'
  <2> SUFFICES ASSUME parser' = "scan" PROVE Kept'
    BY DEF Kept
  <2>1. ~match' /\ temp_str' = temp_str
    BY <1>9
  <2>2. begin' = begin /\ effect_str' = <<>>
    BY <1>6 DEF Format!InParentheses
  <2>3. Format!substr(i + 1, begin - i - 2)' = Format!substr(i + 1, begin - i - 2)
    BY <1>4, <1>5, <2>2 DEF Format!substr
  <2>4. begin' \in (i' + 2)..j'
    BY <1>3, <1>5, <1>8, <2>2
  <2>5. QED
    BY <1>8, <2>1, <2>2, <2>3, <2>4 DEF Kept
<1>13. parser' = "settle" /\ match' => Found(Format!Effect, i, j)'
  <2> SUFFICES ASSUME parser' = "settle" PROVE Found(Format!Effect, i, j)'
    OBVIOUS
  <2>1. match' /\ temp_str' = temp_str \o u /\ effect_str' = <<>>
    BY <1>6, <1>9 DEF Format!InParentheses
  <2>2. Found(temp_str \o u, i, j + 1)
    <3>1. begin \in Nat /\ i <= begin /\ begin <= j + 1 /\ j + 1 \in Nat
      BY <1>3, <1>8
    <3>2. QED
      BY <1>1, <1>3, <1>8, <3>1, FoundJoined
  <2>3. temp_str \o u \in Seq(Characters)
    BY <1>8, Joined
  <2> DEFINE r == temp_str \o u
  <2> HIDE DEF r
  <2>4. <<>> \o r = r
    BY <2>3 DEF r
  <2>5. Format!Effect' = IF j + 1 # n THEN r ELSE <<>>
    BY <1>4, <1>5, <2>1, <2>4 DEF Format!Effect, r
  <2>6. Found(Format!Effect', i, j + 1)
    BY <2>2, <2>5, NothingFound DEF r
  <2>7. QED
    BY <1>4, <1>5, <2>6 DEF Found
<1>14. Found(m_items, 0, i)'
  <2>1. m_items' = m_items /\ i' = i
    BY DEF Format!InParentheses
  <2>2. QED
    BY <1>1, <1>4, <2>1 DEF Found
<1>15. QED
  BY <1>10, <1>11, <1>12, <1>13, <1>14 DEF OrderInv

(* The pattern ends, and so does the group.                                *)
LEMMA EndOfPatternOrder ==
  ASSUME OrderInv, Format!EndOfPattern
  PROVE  OrderInv'
<1>1. /\ ParserTypeOK /\ InGroup /\ Kept /\ Found(m_items, 0, i)
      /\ parser = "settle" /\ match => Found(Format!Effect, i, j)
      /\ m_pattern \in Patterns
  BY DEF OrderInv, ParserTypeOK
<1> DEFINE n == Format!size
<1>2. /\ n \in Nat /\ DOMAIN m_pattern = 1..n
      /\ \A k \in 1..n : m_pattern[k] \in Characters
      /\ \A k \in Nat : k < n => Format!CharAt(k) = m_pattern[k + 1]
  BY <1>1, PatternFacts
<1>3. i \in Nat /\ j \in Nat /\ begin \in Nat /\ j <= n /\ i <= n + 1
  BY <1>1, <1>2 DEF ParserTypeOK
<1>4. m_pattern' = m_pattern /\ Characters' = Characters /\ Format!size' = n
  BY DEF Format!EndOfPattern, Characters, Format!size
<1> HIDE DEF n
<1>10. ParserTypeOK'
  BY <1>1, <1>2, <1>3, <1>4 DEF Format!EndOfPattern, ParserTypeOK, n
<1>11. InGroup'
  BY <1>1, <1>2, <1>3, <1>4 DEF Format!EndOfPattern, InGroup, n
<1>12. Kept'
  BY <1>1 DEF Kept, Format!EndOfPattern
<1>13. parser' = "settle" /\ match' => Found(Format!Effect, i, j)'
  <2> SUFFICES ASSUME match' PROVE Found(Format!Effect, i, j)'
    OBVIOUS
  <2>1. j = n /\ i < j /\ match /\ effect_str = Format!substr(i + 1, n - i - 1)
    <3>1. j >= n /\ match /\ parser = "scan"
      BY DEF Format!EndOfPattern, n
    <3>2. j = n /\ i < j
      BY <1>1, <1>2, <1>3, <3>1 DEF InGroup
    <3>3. effect_str = IF j = Format!size THEN Format!substr(i + 1, Format!size - i - 1) ELSE <<>>
      BY <1>1, <3>1 DEF Kept
    <3>4. QED
      BY <3>1, <3>2, <3>3 DEF n
  <2>2. UNCHANGED <<m_pattern, i, j, temp_str, effect_str, match>>
    BY DEF Format!EndOfPattern
  <2>3. Format!Effect' = effect_str
    BY <1>4, <2>1, <2>2 DEF Format!Effect
  <2>4. Found(effect_str, i, j)
    <3>1. i + 1 \in Nat /\ n - i - 1 \in Nat /\ (i + 1) + (n - i - 1) <= Format!size
      BY <1>2, <1>3, <2>1 DEF n
    <3>2. i <= i + 1 /\ (i + 1) + (n - i - 1) <= j
      BY <1>2, <1>3, <2>1
    <3>3. QED
      BY <1>1, <1>3, <2>1, <3>1, <3>2, FoundSubstr
  <2>5. QED
    BY <2>2, <2>3, <2>4 DEF Found
<1>14. Found(m_items, 0, i)'
  <2>1. m_items' = m_items /\ i' = i
    BY DEF Format!EndOfPattern
  <2>2. QED
    BY <1>1, <1>4, <2>1 DEF Found
<1>15. QED
  BY <1>10, <1>11, <1>12, <1>13, <1>14 DEF OrderInv

(* An open parenthesis, or characters outside of groups: only errors.      *)
LEMMA GiveUpOrder ==
  ASSUME OrderInv, Format!GiveUp
  PROVE  OrderInv'
<1>1. /\ ParserTypeOK /\ InGroup /\ Kept /\ Found(m_items, 0, i)
      /\ parser = "settle" /\ match => Found(Format!Effect, i, j)
      /\ m_pattern \in Patterns
  BY DEF OrderInv, ParserTypeOK
<1> DEFINE n == Format!size
<1>2. /\ n \in Nat /\ DOMAIN m_pattern = 1..n
      /\ \A k \in 1..n : m_pattern[k] \in Characters
      /\ \A k \in Nat : k < n => Format!CharAt(k) = m_pattern[k + 1]
  BY <1>1, PatternFacts
<1>3. i \in Nat /\ j \in Nat /\ begin \in Nat /\ j <= n /\ i <= n + 1
  BY <1>1, <1>2 DEF ParserTypeOK
<1>4. m_pattern' = m_pattern /\ Characters' = Characters /\ Format!size' = n
  BY DEF Format!GiveUp, Characters, Format!size
<1> HIDE DEF n
<1> DEFINE S == Known \union {"error"}
           u == Format!Errors(unlegal)
           v == IF match THEN <<>> ELSE Format!Errors(temp_str)
<1>5. /\ m_items \in Seq(S) /\ u \in Seq(S) /\ v \in Seq(S)
      /\ Found(u, i, i) /\ Found(v, i, i)
      /\ m_items' = (m_items \o u) \o v
  <2>1. /\ unlegal \in Seq(Characters) /\ temp_str \in Seq(Characters) /\ m_items \in Seq(S)
    BY <1>1 DEF ParserTypeOK
  <2>2. u \in Seq(S) /\ \A k \in DOMAIN u : u[k] \notin Known
    BY <2>1, ErrorsFacts
  <2>3. v \in Seq(S) /\ \A k \in DOMAIN v : v[k] \notin Known
    <3>1. CASE match
      BY <3>1, EmptySeq
    <3>2. CASE ~match
      BY <2>1, <3>2, ErrorsFacts
    <3>3. QED
      BY <3>1, <3>2
  <2>4. m_items' = (m_items \o u) \o v
    BY DEF Format!GiveUp
  <2> HIDE DEF u, v, S
  <2>5. Found(u, i, i) /\ Found(v, i, i)
    BY <2>2, <2>3, NothingFound
  <2>6. QED
    BY <2>1, <2>2, <2>3, <2>4, <2>5
<1> HIDE DEF u, v, S
<1>6. m_items' \in Seq(Known \union {"error"}) /\ Found(m_items', 0, i)
  <2>1. m_items \o u \in Seq(S) /\ (m_items \o u) \o v \in Seq(S)
    BY <1>5, Joined
  <2>2. 0 <= i /\ i <= i /\ 0 \in Nat
    BY <1>3
  <2>3. Found(m_items \o u, 0, i)
    BY <1>1, <1>3, <1>5, <2>2, FoundJoined
  <2>4. Found((m_items \o u) \o v, 0, i)
    BY <1>1, <1>3, <1>5, <2>1, <2>2, <2>3, FoundJoined
  <2>5. QED
    BY <1>5, <2>1, <2>4 DEF S
<1>10. ParserTypeOK'
  BY <1>1, <1>4, <1>6, EmptySeq DEF Format!GiveUp, ParserTypeOK, n
<1>11. InGroup'
  BY <1>1 DEF InGroup, Format!GiveUp
<1>12. Kept'
  BY <1>1 DEF Kept, Format!GiveUp
<1>13. parser' = "settle" /\ match' => Found(Format!Effect, i, j)'
  BY <1>1 DEF Format!GiveUp
<1>14. Found(m_items, 0, i)'
  <2>1. i' = i
    BY DEF Format!GiveUp
  <2>2. QED
    BY <1>4, <1>6, <2>1 DEF Found
<1>15. QED
  BY <1>10, <1>11, <1>12, <1>13, <1>14 DEF OrderInv

(* The items of the group are made.                                        *)
LEMMA CloseGroupOrder ==
  ASSUME OrderInv, Format!CloseGroup
  PROVE  OrderInv'
<1>1. /\ ParserTypeOK /\ InGroup /\ Kept /\ Found(m_items, 0, i)
      /\ parser = "settle" /\ match => Found(Format!Effect, i, j)
      /\ m_pattern \in Patterns
  BY DEF OrderInv, ParserTypeOK
<1> DEFINE n == Format!size
<1>2. /\ n \in Nat /\ DOMAIN m_pattern = 1..n
      /\ \A k \in 1..n : m_pattern[k] \in Characters
      /\ \A k \in Nat : k < n => Format!CharAt(k) = m_pattern[k + 1]
  BY <1>1, PatternFacts
<1>3. i \in Nat /\ j \in Nat /\ begin \in Nat /\ j <= n /\ i <= n + 1
  BY <1>1, <1>2 DEF ParserTypeOK
<1>4. m_pattern' = m_pattern /\ Characters' = Characters /\ Format!size' = n
  BY DEF Format!CloseGroup, Characters, Format!size
<1> HIDE DEF n
<1>5. i < j /\ i' = j /\ j' = j /\ m_items' = m_items \o Format!Items(Format!Effect)
  BY <1>1 DEF Format!CloseGroup, InGroup
<1>6. m_items' \in Seq(Known \union {"error"}) /\ Found(m_items', 0, j)
  <2> DEFINE S == Known \union {"error"}
             e == Format!Effect
  <2>1. e \in Seq(Characters) /\ Found(e, i, j)
    <3>1. temp_str \in Seq(Characters) /\ effect_str \in Seq(Characters)
      BY <1>1 DEF ParserTypeOK
    <3>2. effect_str \o temp_str \in Seq(Characters)
      BY <3>1, Joined
    <3>3. QED
      BY <1>1, <3>1, <3>2 DEF Format!CloseGroup, Format!Effect
  <2> HIDE DEF e
  <2> DEFINE r == Format!Items(e)
  <2>2. r \in Seq(S) /\ Found(r, i, j)
    BY <2>1, ItemsFacts, ItemsFound
  <2>3. m_items \in Seq(S) /\ m_items' = m_items \o r
    BY <1>1, <1>5 DEF ParserTypeOK, e
  <2> HIDE DEF r, S
  <2>4. m_items \o r \in Seq(S)
    BY <2>2, <2>3, Joined
  <2>5. 0 \in Nat /\ 0 <= i /\ i <= j
    BY <1>3, <1>5
  <2>6. Found(m_items \o r, 0, j)
    BY <1>1, <1>3, <2>2, <2>3, <2>5, FoundJoined
  <2>7. QED
    BY <2>3, <2>4, <2>6 DEF S
<1>10. ParserTypeOK'
  <2>1. i' \in 0..(n + 1)
    BY <1>2, <1>3, <1>5
  <2>2. QED
    BY <1>1, <1>4, <1>6, <2>1, EmptySeq DEF Format!CloseGroup, ParserTypeOK, n
<1>11. InGroup'
  BY <1>2, <1>3, <1>4, <1>5 DEF Format!CloseGroup, InGroup
<1>12. Kept'
  BY <1>1 DEF Kept, Format!CloseGroup
<1>13. parser' = "settle" /\ match' => Found(Format!Effect, i, j)'
  BY <1>1 DEF Format!CloseGroup
<1>14. Found(m_items, 0, i)'
  BY <1>4, <1>5, <1>6 DEF Found
<1>15. QED
  BY <1>10, <1>11, <1>12, <1>13, <1>14 DEF OrderInv

(* Explaining a pattern, or anything else that leaves the format alone.    *)
LEMMA OrderInvStep ==
  ASSUME OrderInv, [LoggerNext]_allvars
  PROVE  OrderInv'
<1>1. CASE Format!Next
  BY <1>1, OuterOrder, SkipOrder, OpenGroupOrder, SeparatorOrder, CharacterOrder,
     InParenthesesOrder, EndOfPatternOrder, GiveUpOrder, CloseGroupOrder DEF Format!Next
<1>2. CASE UNCHANGED format
  <2>1. /\ m_pattern' = m_pattern /\ parser' = parser /\ i' = i /\ j' = j /\ unlegal' = unlegal
        /\ temp_str' = temp_str /\ effect_str' = effect_str /\ match' = match /\ begin' = begin
        /\ m_items' = m_items
    BY <1>2 DEF format
  <2>2. ParserTypeOK' /\ InGroup' /\ Kept'
    BY <2>1 DEF OrderInv, ParserTypeOK, InGroup, Kept, Characters, Format!size, Format!substr
  <2>3. Found(m_items, 0, i)'
    BY <2>1 DEF OrderInv, Found
  <2>4. parser' = "settle" /\ match' => Found(Format!Effect, i, j)'
    <3>1. Format!Effect' = Format!Effect
      BY <2>1 DEF Format!Effect, Format!size
    <3>2. Found(Format!Effect, i, j)' <=> Found(Format!Effect, i, j)
      BY <2>1, <3>1 DEF Found
    <3>3. QED
      BY <2>1, <3>2 DEF OrderInv
  <2>5. QED
    BY <2>2, <2>3, <2>4 DEF OrderInv
<1>3. QED
  BY <1>1, <1>2 DEF LoggerNext, Explain, Log, allvars

LEMMA OrderInvInit ==
  ASSUME LoggerInit
  PROVE  OrderInv
<1>1. /\ m_pattern \in Patterns /\ parser = "outer" /\ i = 0 /\ j = 0 /\ begin = 0
      /\ unlegal = <<>> /\ temp_str = <<>> /\ effect_str = <<>> /\ m_items = <<>> /\ match = TRUE
  BY DEF LoggerInit, Format!Init
<1>2. Format!size \in Nat
  BY <1>1, PatternFacts
<1>3. i \in 0..(Format!size + 1) /\ j \in 0..Format!size /\ begin \in Nat /\ i <= Format!size
  BY <1>1, <1>2
<1>4. ParserTypeOK
  BY <1>1, <1>3, EmptySeq DEF ParserTypeOK
<1>5. Found(m_items, 0, i)
  <2>1. \A k \in DOMAIN m_items : m_items[k] \notin Known
    BY <1>1
  <2>2. QED
    BY <2>1, NothingFound
<1>6. InGroup /\ Kept /\ parser # "settle"
  BY <1>1, <1>3 DEF InGroup, Kept
<1>7. QED
  BY <1>4, <1>5, <1>6 DEF OrderInv

LEMMA OrderInvHolds == LoggerSpec => []OrderInv
<1>1. QED
  BY OrderInvInit, OrderInvStep, PTL DEF LoggerSpec

LEMMA OrderInvInOrder ==
  ASSUME OrderInv
  PROVE  Format!InOrder
<1> DEFINE K == {k \in DOMAIN m_items : m_items[k] \in Known}
           Q == {q \in DOMAIN m_pattern : 0 < q /\ q <= i}
<1>1. PICK place \in [K -> Q] :
        Format!LeftToRight(place) /\ \A k \in K : m_items[k] = m_pattern[place[k]]
  BY DEF OrderInv, Found
<1>2. place \in [K -> DOMAIN m_pattern]
  BY <1>1
<1>3. QED
  BY <1>1, <1>2 DEF Format!InOrder

-----------------------------------------------------------------------------
(* Plain patterns.                                                         *)
LEMMA PlainFacts ==
  ASSUME m_pattern \in Patterns, Format!Plain(m_pattern)
  PROVE  /\ Format!size >= 1 /\ m_pattern[Format!size] \in Letters /\ m_pattern[1] = "%"
         /\ \A k \in 1..Format!size : m_pattern[k] \notin {"(", ")"}
         /\ \A k \in 2..Format!size : m_pattern[k] = "%" <=> m_pattern[k - 1] \notin Letters \union {"%"}
         /\ "%" \notin Letters
<1> DEFINE n == Format!size
<1>1. n = Len(m_pattern) /\ n \in Nat /\ DOMAIN m_pattern = 1..n
  BY PatternFacts
<1>2. n # 0
  <2>1. m_pattern # <<>> /\ m_pattern \in Seq(ToSet(m_pattern))
    BY PatternFacts DEF Format!Plain
  <2>2. QED
    BY <1>1, <2>1
<1> HIDE DEF n
<1>3. n >= 1 /\ 1 \in 1..n /\ (2..n) \subseteq (1..n) /\ 1 \notin 2..n
  BY <1>1, <1>2
<1>4. m_pattern[n] \in Letters
  BY <1>1 DEF Format!Plain
<1>5. \A k \in 1..n : /\ m_pattern[k] \notin {"(", ")"}
                      /\ m_pattern[k] = "%" <=> k = 1 \/ m_pattern[k - 1] \notin Letters \union {"%"}
  BY <1>1 DEF Format!Plain
<1>6. \A k \in 2..n : m_pattern[k] = "%" <=> m_pattern[k - 1] \notin Letters \union {"%"}
  BY <1>3, <1>5
<1>7. m_pattern[1] = "%"
  BY <1>3, <1>5
<1>8. QED
  BY <1>3, <1>4, <1>5, <1>6, <1>7, LoggerAssumption DEF n

(* What is spelled by one part of the pattern and by the next is spelled   *)
(* by both.                                                                *)
LEMMA SpelledJoined ==
  ASSUME m_pattern \in Patterns, NEW S, NEW s \in Seq(S), NEW r \in Seq(S),
         NEW m \in Nat, NEW x \in Nat, NEW n \in Nat, m <= x, x <= n,
         Spelled(s, m, x), Spelled(r, x, n)
  PROVE  Spelled(s \o r, m, n)
<1> DEFINE u == s \o r
           l == Len(s)
<1>1. /\ l \in Nat /\ DOMAIN s = 1..l /\ DOMAIN r \subseteq Nat \ {0}
      /\ \A k \in 1..l : k \in DOMAIN u /\ u[k] = s[k]
      /\ \A k \in DOMAIN u : k \notin 1..l => k - l \in DOMAIN r /\ u[k] = r[k - l]
      /\ \A k \in DOMAIN r : k + l \in DOMAIN u /\ u[k + l] = r[k]
      /\ DOMAIN u \subseteq Nat \ {0}
  <2>1. /\ l \in Nat /\ DOMAIN s = 1..l /\ Len(r) \in Nat /\ DOMAIN r = 1..Len(r)
        /\ DOMAIN u = 1..(l + Len(r))
    BY Joined
  <2>2. /\ \A k \in 1..l : k \in DOMAIN u /\ u[k] = s[k]
        /\ \A k \in DOMAIN u : k \notin 1..l => k - l \in DOMAIN r /\ u[k] = r[k - l]
        /\ \A k \in DOMAIN r : k + l \in DOMAIN u /\ u[k + l] = r[k]
    BY Joined
  <2> HIDE DEF u, l
  <2>3. DOMAIN r \subseteq Nat \ {0} /\ DOMAIN u \subseteq Nat \ {0}
    BY <2>1
  <2>4. QED
    BY <2>1, <2>2, <2>3
<1> DEFINE A == LettersIn(m, x)
           B == LettersIn(x, n)
           C == LettersIn(m, n)
<1>2. PICK ps \in [DOMAIN s -> A] :
        /\ Format!LeftToRight(ps)
        /\ \A q \in A : \E k \in DOMAIN s : ps[k] = q
        /\ \A k \in DOMAIN s : s[k] = Format!Item(m_pattern[ps[k]])
  BY DEF Spelled
<1>3. PICK pr \in [DOMAIN r -> B] :
        /\ Format!LeftToRight(pr)
        /\ \A q \in B : \E k \in DOMAIN r : pr[k] = q
        /\ \A k \in DOMAIN r : r[k] = Format!Item(m_pattern[pr[k]])
  BY DEF Spelled
<1>4. A \subseteq C /\ B \subseteq C /\ C \subseteq A \union B /\ \A a \in A, b \in B : a < b
  <2>1. \A q \in Format!LetterPlaces : q \in Nat
    BY PatternFacts DEF Format!LetterPlaces
  <2>2. QED
    BY <2>1 DEF LettersIn
<1> DEFINE place == [k \in DOMAIN u |-> IF k \in 1..l THEN ps[k] ELSE pr[k - l]]
<1> HIDE DEF u, l, A, B, C
<1>5. place \in [DOMAIN u -> C]
  BY <1>1, <1>2, <1>3, <1>4
<1>6. ASSUME NEW k \in DOMAIN u PROVE u[k] = Format!Item(m_pattern[place[k]])
  <2>1. CASE k \in 1..l
    BY <1>1, <1>2, <2>1
  <2>2. CASE k \notin 1..l
    BY <1>1, <1>3, <2>2
  <2>3. QED
    BY <2>1, <2>2
<1>7. ASSUME NEW k \in DOMAIN u, NEW h \in DOMAIN u, k < h PROVE place[k] < place[h]
  <2>1. k \in Nat \ {0} /\ h \in Nat \ {0}
    BY <1>1
  <2>2. CASE h \in 1..l
    <3>1. k \in 1..l
      BY <1>1, <1>7, <2>1, <2>2
    <3>2. ps[k] < ps[h]
      BY <1>1, <1>2, <1>7, <2>2, <3>1 DEF Format!LeftToRight
    <3>3. QED
      BY <2>2, <3>1, <3>2
  <2>3. CASE k \in 1..l /\ h \notin 1..l
    BY <1>1, <1>2, <1>3, <1>4, <2>3
  <2>4. CASE k \notin 1..l /\ h \notin 1..l
    <3>1. k - l \in DOMAIN r /\ h - l \in DOMAIN r /\ k - l < h - l
      BY <1>1, <1>7, <2>1, <2>4
    <3>2. pr[k - l] < pr[h - l]
      BY <1>3, <3>1 DEF Format!LeftToRight
    <3>3. QED
      BY <2>4, <3>2
  <2>5. QED
    BY <2>2, <2>3, <2>4
<1>8. ASSUME NEW q \in C PROVE \E k \in DOMAIN u : place[k] = q
  <2>1. CASE q \in A
    BY <1>1, <1>2, <2>1
  <2>2. CASE q \in B
    <3>1. PICK k \in DOMAIN r : pr[k] = q
      BY <1>3, <2>2
    <3>2. k + l \in DOMAIN u /\ k + l \notin 1..l /\ (k + l) - l = k
      BY <1>1
    <3>3. place[k + l] = q
      BY <3>1, <3>2
    <3>4. QED
      BY <3>2, <3>3
  <2>3. QED
    BY <1>4, <2>1, <2>2
<1>9. Format!LeftToRight(place)
  BY <1>5, <1>7 DEF Format!LeftToRight
<1> HIDE DEF place
<1>10. QED
  BY <1>5, <1>6, <1>8, <1>9 DEF Spelled, u, C

(* A group of letters is spelled by its items.                             *)
LEMMA SpelledGroup ==
  ASSUME m_pattern \in Patterns, NEW a \in Nat, NEW c \in Nat, a + c <= Format!size,
         NEW m \in Nat, NEW n \in Nat, m <= a, a + c <= n,
         \A k \in (a + 1)..(a + c) : m_pattern[k] \in Letters,
         \A q \in LettersIn(m, n) : a < q /\ q <= a + c
  PROVE  Spelled(Format!Items(Format!substr(a, c)), m, n)
<1> DEFINE s == Format!substr(a, c)
           r == Format!Items(s)
           place == [k \in 1..c |-> a + k]
<1>1. /\ s \in Seq(Characters) /\ Len(s) = c
      /\ \A k \in 1..c : s[k] = m_pattern[a + k]
  BY Substr
<1>2. DOMAIN r = 1..c /\ \A k \in 1..c : r[k] = Format!Item(s[k])
  BY <1>1, ItemsFacts
<1> HIDE DEF r, s
<1>3. DOMAIN m_pattern = 1..Format!size /\ Format!size \in Nat
  BY PatternFacts
<1>4. place \in [1..c -> LettersIn(m, n)]
  <2>1. ASSUME NEW k \in 1..c PROVE a + k \in LettersIn(m, n)
    <3>1. a + k \in (a + 1)..(a + c) /\ a + k \in 1..Format!size /\ m < a + k /\ a + k <= n
      BY <1>3
    <3>2. QED
      BY <1>3, <3>1 DEF LettersIn, Format!LetterPlaces
  <2>2. QED
    BY <2>1
<1>5. Format!LeftToRight(place)
  BY DEF Format!LeftToRight
<1>6. \A q \in LettersIn(m, n) : \E k \in 1..c : place[k] = q
  <2>1. ASSUME NEW q \in LettersIn(m, n) PROVE q - a \in 1..c /\ a + (q - a) = q
    <3>1. q \in Nat /\ a < q /\ q <= a + c
      BY <1>3 DEF LettersIn, Format!LetterPlaces
    <3>2. QED
      BY <3>1
  <2>2. QED
    BY <2>1
<1>7. \A k \in 1..c : r[k] = Format!Item(m_pattern[place[k]])
  BY <1>1, <1>2
<1> HIDE DEF place
<1>8. Spelled(r, m, n)
  <2>1. place \in [DOMAIN r -> LettersIn(m, n)]
    BY <1>2, <1>4
  <2>2. /\ Format!LeftToRight(place)
        /\ \A q \in LettersIn(m, n) : \E k \in DOMAIN r : place[k] = q
        /\ \A k \in DOMAIN r : r[k] = Format!Item(m_pattern[place[k]])
    BY <1>2, <1>5, <1>6, <1>7
  <2>3. QED
    BY <2>1, <2>2 DEF Spelled
<1>9. QED
  BY <1>8 DEF r, s

(* The next group begins where the loop stands.                            *)
LEMMA OuterPlain ==
  ASSUME OrderInv, PlainInv, Format!Outer
  PROVE  PlainInv'
<1> SUFFICES ASSUME Format!Plain(m_pattern)
             PROVE  NothingElse' /\ Spelled(m_items, 0, i)'
  BY DEF PlainInv, Format!Plain, Format!Outer
<1> DEFINE n == Format!size
<1>1. /\ ParserTypeOK /\ InGroup /\ Kept /\ NothingElse /\ Spelled(m_items, 0, i)
      /\ m_pattern \in Patterns
  BY DEF OrderInv, PlainInv, ParserTypeOK
<1>2. /\ n \in Nat /\ \A k \in Nat : k < n => Format!CharAt(k) = m_pattern[k + 1]
      /\ i \in Nat /\ j \in Nat /\ j <= n /\ i <= n + 1
  <2>1. n \in Nat /\ \A k \in Nat : k < n => Format!CharAt(k) = m_pattern[k + 1]
    BY <1>1, PatternFacts
  <2>2. i \in 0..(n + 1) /\ j \in 0..n
    BY <1>1 DEF ParserTypeOK
  <2>3. QED
    BY <2>1, <2>2
<1>3. m_pattern' = m_pattern /\ Format!size' = n
  BY DEF Format!Outer, Format!size
<1>4. /\ n >= 1 /\ m_pattern[n] \in Letters /\ m_pattern[1] = "%"
      /\ \A k \in 1..n : m_pattern[k] \notin {"(", ")"}
      /\ \A k \in 2..n : m_pattern[k] = "%" <=> m_pattern[k - 1] \notin Letters \union {"%"}
      /\ "%" \notin Letters
  BY <1>1, PlainFacts
<1> HIDE DEF n
<1>5. NothingElse'
  <2>1. /\ match' = TRUE /\ unlegal' = <<>> /\ i' = i
        /\ parser' = IF i < n THEN "skip" ELSE "done"
    BY <1>1 DEF Format!Outer, NothingElse, ParserTypeOK, n
  <2>2. i <= n /\ (i = n \/ m_pattern[i + 1] = "%")
    BY <1>1 DEF Format!Outer, NothingElse, InGroup, n
  <2>3. i < n \/ i = n
    BY <1>2, <2>2
  <2>4. i < n => i # n
    BY <1>2
  <2>5. QED
    BY <1>3, <2>1, <2>2, <2>3, <2>4 DEF NothingElse
<1>6. Spelled(m_items, 0, i)'
  <2>1. m_items' = m_items /\ i' = i
    BY DEF Format!Outer
  <2>2. QED
    BY <1>1, <1>3, <2>1 DEF Spelled, LettersIn, Format!LetterPlaces
<1>7. QED
  BY <1>5, <1>6

(* There is nothing to skip.                                               *)
LEMMA SkipPlain ==
  ASSUME OrderInv, PlainInv, Format!Skip
  PROVE  PlainInv'
<1> SUFFICES ASSUME Format!Plain(m_pattern)
             PROVE  NothingElse' /\ Spelled(m_items, 0, i)'
  BY DEF PlainInv, Format!Plain, Format!Skip
<1> DEFINE n == Format!size
<1>1. /\ ParserTypeOK /\ InGroup /\ Kept /\ NothingElse /\ Spelled(m_items, 0, i)
      /\ m_pattern \in Patterns
  BY DEF OrderInv, PlainInv, ParserTypeOK
<1>2. /\ n \in Nat /\ \A k \in Nat : k < n => Format!CharAt(k) = m_pattern[k + 1]
      /\ i \in Nat /\ j \in Nat /\ j <= n /\ i <= n + 1
  <2>1. n \in Nat /\ \A k \in Nat : k < n => Format!CharAt(k) = m_pattern[k + 1]
    BY <1>1, PatternFacts
  <2>2. i \in 0..(n + 1) /\ j \in 0..n
    BY <1>1 DEF ParserTypeOK
  <2>3. QED
    BY <2>1, <2>2
<1>3. m_pattern' = m_pattern /\ Format!size' = n
  BY DEF Format!Skip, Format!size
<1>4. /\ n >= 1 /\ m_pattern[n] \in Letters /\ m_pattern[1] = "%"
      /\ \A k \in 1..n : m_pattern[k] \notin {"(", ")"}
      /\ \A k \in 2..n : m_pattern[k] = "%" <=> m_pattern[k - 1] \notin Letters \union {"%"}
      /\ "%" \notin Letters
  BY <1>1, PlainFacts
<1> HIDE DEF n
<1>5. QED
  BY <1>1, <1>2 DEF Format!Skip, NothingElse, n

(* The group has no character yet.                                         *)
LEMMA OpenGroupPlain ==
  ASSUME OrderInv, PlainInv, Format!OpenGroup
  PROVE  PlainInv'
<1> SUFFICES ASSUME Format!Plain(m_pattern)
             PROVE  NothingElse' /\ Spelled(m_items, 0, i)'
  BY DEF PlainInv, Format!Plain, Format!OpenGroup
<1> DEFINE n == Format!size
<1>1. /\ ParserTypeOK /\ InGroup /\ Kept /\ NothingElse /\ Spelled(m_items, 0, i)
      /\ m_pattern \in Patterns
  BY DEF OrderInv, PlainInv, ParserTypeOK
<1>2. /\ n \in Nat /\ \A k \in Nat : k < n => Format!CharAt(k) = m_pattern[k + 1]
      /\ i \in Nat /\ j \in Nat /\ j <= n /\ i <= n + 1
  <2>1. n \in Nat /\ \A k \in Nat : k < n => Format!CharAt(k) = m_pattern[k + 1]
    BY <1>1, PatternFacts
  <2>2. i \in 0..(n + 1) /\ j \in 0..n
    BY <1>1 DEF ParserTypeOK
  <2>3. QED
    BY <2>1, <2>2
<1>3. m_pattern' = m_pattern /\ Format!size' = n
  BY DEF Format!OpenGroup, Format!size
<1>4. /\ n >= 1 /\ m_pattern[n] \in Letters /\ m_pattern[1] = "%"
      /\ \A k \in 1..n : m_pattern[k] \notin {"(", ")"}
      /\ \A k \in 2..n : m_pattern[k] = "%" <=> m_pattern[k - 1] \notin Letters \union {"%"}
      /\ "%" \notin Letters
  BY <1>1, PlainFacts
<1> HIDE DEF n
<1>5. NothingElse'
  <2>1. match' = TRUE /\ unlegal' = <<>> /\ i' = i /\ j' = i + 1 /\ parser' = "scan"
    BY <1>1 DEF Format!OpenGroup, NothingElse
  <2>2. (i' + 2)..j' = {}
    BY <1>2, <2>1
  <2>3. QED
    BY <2>1, <2>2 DEF NothingElse
<1>6. Spelled(m_items, 0, i)'
  <2>1. m_items' = m_items /\ i' = i
    BY DEF Format!OpenGroup
  <2>2. QED
    BY <1>1, <1>3, <2>1 DEF Spelled, LettersIn, Format!LetterPlaces
<1>7. QED
  BY <1>5, <1>6

(* A % follows on the separator.                                           *)
LEMMA SeparatorPlain ==
  ASSUME OrderInv, PlainInv, Format!Separator
  PROVE  PlainInv'
<1> SUFFICES ASSUME Format!Plain(m_pattern)
             PROVE  NothingElse' /\ Spelled(m_items, 0, i)'
  BY DEF PlainInv, Format!Plain, Format!Separator
<1> DEFINE n == Format!size
<1>1. /\ ParserTypeOK /\ InGroup /\ Kept /\ NothingElse /\ Spelled(m_items, 0, i)
      /\ m_pattern \in Patterns
  BY DEF OrderInv, PlainInv, ParserTypeOK
<1>2. /\ n \in Nat /\ \A k \in Nat : k < n => Format!CharAt(k) = m_pattern[k + 1]
      /\ i \in Nat /\ j \in Nat /\ j <= n /\ i <= n + 1
  <2>1. n \in Nat /\ \A k \in Nat : k < n => Format!CharAt(k) = m_pattern[k + 1]
    BY <1>1, PatternFacts
  <2>2. i \in 0..(n + 1) /\ j \in 0..n
    BY <1>1 DEF ParserTypeOK
  <2>3. QED
    BY <2>1, <2>2
<1>3. m_pattern' = m_pattern /\ Format!size' = n
  BY DEF Format!Separator, Format!size
<1>4. /\ n >= 1 /\ m_pattern[n] \in Letters /\ m_pattern[1] = "%"
      /\ \A k \in 1..n : m_pattern[k] \notin {"(", ")"}
      /\ \A k \in 2..n : m_pattern[k] = "%" <=> m_pattern[k - 1] \notin Letters \union {"%"}
      /\ "%" \notin Letters
  BY <1>1, PlainFacts
<1> HIDE DEF n
<1>5. /\ parser = "scan" /\ j < n /\ i < j /\ m_pattern[i + 1] = "%"
      /\ match' = TRUE /\ unlegal' = <<>> /\ i' = i /\ j' = j + 1 /\ parser' = "settle"
      /\ \A k \in (i + 2)..j : m_pattern[k] \in Letters
  BY <1>1 DEF Format!Separator, NothingElse, InGroup, ParserTypeOK, n
<1>6. m_pattern[j + 1] \notin Letters
  BY <1>2, <1>5 DEF Format!Separator, Format!Separates
<1>7. j + 1 # n
  BY <1>4, <1>6
<1>8. m_pattern[j + 1] # "%" /\ m_pattern[j + 2] = "%"
  <2>1. m_pattern[j] \in Letters \union {"%"}
    <3>1. j = i + 1 \/ j \in (i + 2)..j
      BY <1>2, <1>5
    <3>2. QED
      BY <1>5, <3>1
  <2>2. j + 1 \in 2..n /\ j + 2 \in 2..n /\ (j + 1) - 1 = j /\ (j + 2) - 1 = j + 1
    BY <1>2, <1>5, <1>7
  <2>3. QED
    BY <1>4, <1>6, <2>1, <2>2
<1>9. Format!Effect' = Format!substr(i + 1, j - i - 1)
  <2> DEFINE s == Format!substr(i + 1, j - i - 1)
  <2>1. temp_str = <<>> /\ effect_str = <<>>
    <3>1. j # n
      BY <1>2, <1>5
    <3>2. QED
      BY <1>1, <1>5, <3>1 DEF Kept, NothingElse, n
  <2>2. s \in Seq(Characters)
    <3>1. i + 1 \in Nat /\ j - i - 1 \in Nat /\ (i + 1) + (j - i - 1) <= Format!size
      BY <1>2, <1>5 DEF n
    <3>2. QED
      BY <1>1, <3>1, Substr
  <2>3. effect_str' = <<>> /\ temp_str' = <<>> \o s
    BY <2>1 DEF Format!Separator, s
  <2> HIDE DEF s
  <2>4. <<>> \o s = s /\ <<>> \o (<<>> \o s) = s
    BY <2>2
  <2>5. QED
    BY <1>3, <1>5, <1>7, <2>3, <2>4 DEF Format!Effect, s
<1>10. NothingElse'
  <2>1. j' # n /\ j' - 1 = j /\ j' + 1 = j + 2
    BY <1>2, <1>5, <1>7
  <2>2. Format!substr(i + 1, (j - 1) - i - 1)' = Format!substr(i + 1, j - i - 1)
    BY <1>3, <1>5, <2>1 DEF Format!substr
  <2>3. /\ i' < j' - 1
        /\ \A k \in (i' + 2)..(j' - 1) : m_pattern'[k] \in Letters
        /\ m_pattern'[j'] \notin Letters /\ m_pattern'[j' + 1] = "%"
    BY <1>3, <1>5, <1>6, <1>8, <2>1
  <2>4. Format!Effect' = Format!substr(i + 1, (j - 1) - i - 1)'
    BY <1>9, <2>2
  <2>5. QED
    BY <1>3, <1>5, <2>1, <2>3, <2>4 DEF NothingElse
<1>11. Spelled(m_items, 0, i)'
  <2>1. m_items' = m_items /\ i' = i
    BY DEF Format!Separator
  <2>2. QED
    BY <1>1, <1>3, <2>1 DEF Spelled, LettersIn, Format!LetterPlaces
<1>12. QED
  BY <1>10, <1>11

(* A letter of the group.                                                  *)
LEMMA CharacterPlain ==
  ASSUME OrderInv, PlainInv, Format!Character
  PROVE  PlainInv'
<1> SUFFICES ASSUME Format!Plain(m_pattern)
             PROVE  NothingElse' /\ Spelled(m_items, 0, i)'
  BY DEF PlainInv, Format!Plain, Format!Character
<1> DEFINE n == Format!size
<1>1. /\ ParserTypeOK /\ InGroup /\ Kept /\ NothingElse /\ Spelled(m_items, 0, i)
      /\ m_pattern \in Patterns
  BY DEF OrderInv, PlainInv, ParserTypeOK
<1>2. /\ n \in Nat /\ \A k \in Nat : k < n => Format!CharAt(k) = m_pattern[k + 1]
      /\ i \in Nat /\ j \in Nat /\ j <= n /\ i <= n + 1
  <2>1. n \in Nat /\ \A k \in Nat : k < n => Format!CharAt(k) = m_pattern[k + 1]
    BY <1>1, PatternFacts
  <2>2. i \in 0..(n + 1) /\ j \in 0..n
    BY <1>1 DEF ParserTypeOK
  <2>3. QED
    BY <2>1, <2>2
<1>3. m_pattern' = m_pattern /\ Format!size' = n
  BY DEF Format!Character, Format!size
<1>4. /\ n >= 1 /\ m_pattern[n] \in Letters /\ m_pattern[1] = "%"
      /\ \A k \in 1..n : m_pattern[k] \notin {"(", ")"}
      /\ \A k \in 2..n : m_pattern[k] = "%" <=> m_pattern[k - 1] \notin Letters \union {"%"}
      /\ "%" \notin Letters
  BY <1>1, PlainFacts
<1> HIDE DEF n
<1>5. /\ parser = "scan" /\ j < n /\ unlegal' = <<>> /\ i' = i /\ j' = j + 1 /\ parser' = "scan"
      /\ \A k \in (i + 2)..j : m_pattern[k] \in Letters
  BY <1>1 DEF Format!Character, NothingElse, n
<1>6. m_pattern[j + 1] \in Letters /\ m_pattern[j + 1] # "("
  <2>1. j + 1 \in 1..n /\ Format!CharAt(j) = m_pattern[j + 1]
    BY <1>2, <1>5
  <2>2. m_pattern[j + 1] \notin {"(", ")"}
    BY <1>4, <2>1
  <2>3. QED
    BY <2>1, <2>2 DEF Format!Character, Format!Separates
<1>7. match'
  <2>1. Format!CharAt(j) # "("
    BY <1>2, <1>5, <1>6
  <2>2. QED
    BY <2>1 DEF Format!Character
<1>8. \A k \in (i + 2)..(j + 1) : m_pattern[k] \in Letters
  <2>1. \A k \in (i + 2)..(j + 1) : k \in (i + 2)..j \/ k = j + 1
    BY <1>2
  <2>2. QED
    BY <1>5, <1>6, <2>1
<1>9. NothingElse'
  BY <1>3, <1>5, <1>7, <1>8 DEF NothingElse
<1>10. Spelled(m_items, 0, i)'
  <2>1. m_items' = m_items /\ i' = i
    BY DEF Format!Character
  <2>2. QED
    BY <1>1, <1>3, <2>1 DEF Spelled, LettersIn, Format!LetterPlaces
<1>11. QED
  BY <1>9, <1>10

(* There are no parentheses.                                               *)
LEMMA InParenthesesPlain ==
  ASSUME OrderInv, PlainInv, Format!InParentheses
  PROVE  PlainInv'
<1> SUFFICES ASSUME Format!Plain(m_pattern)
             PROVE  NothingElse' /\ Spelled(m_items, 0, i)'
  BY DEF PlainInv, Format!Plain, Format!InParentheses
<1> DEFINE n == Format!size
<1>1. /\ ParserTypeOK /\ InGroup /\ Kept /\ NothingElse /\ Spelled(m_items, 0, i)
      /\ m_pattern \in Patterns
  BY DEF OrderInv, PlainInv, ParserTypeOK
<1>2. /\ n \in Nat /\ \A k \in Nat : k < n => Format!CharAt(k) = m_pattern[k + 1]
      /\ i \in Nat /\ j \in Nat /\ j <= n /\ i <= n + 1
  <2>1. n \in Nat /\ \A k \in Nat : k < n => Format!CharAt(k) = m_pattern[k + 1]
    BY <1>1, PatternFacts
  <2>2. i \in 0..(n + 1) /\ j \in 0..n
    BY <1>1 DEF ParserTypeOK
  <2>3. QED
    BY <2>1, <2>2
<1>3. m_pattern' = m_pattern /\ Format!size' = n
  BY DEF Format!InParentheses, Format!size
<1>4. /\ n >= 1 /\ m_pattern[n] \in Letters /\ m_pattern[1] = "%"
      /\ \A k \in 1..n : m_pattern[k] \notin {"(", ")"}
      /\ \A k \in 2..n : m_pattern[k] = "%" <=> m_pattern[k - 1] \notin Letters \union {"%"}
      /\ "%" \notin Letters
  BY <1>1, PlainFacts
<1> HIDE DEF n
<1>5. QED
  BY <1>1 DEF Format!InParentheses, NothingElse

(* The last group reaches to the end.                                      *)
LEMMA EndOfPatternPlain ==
  ASSUME OrderInv, PlainInv, Format!EndOfPattern
  PROVE  PlainInv'
<1> SUFFICES ASSUME Format!Plain(m_pattern)
             PROVE  NothingElse' /\ Spelled(m_items, 0, i)'
  BY DEF PlainInv, Format!Plain, Format!EndOfPattern
<1> DEFINE n == Format!size
<1>1. /\ ParserTypeOK /\ InGroup /\ Kept /\ NothingElse /\ Spelled(m_items, 0, i)
      /\ m_pattern \in Patterns
  BY DEF OrderInv, PlainInv, ParserTypeOK
<1>2. /\ n \in Nat /\ \A k \in Nat : k < n => Format!CharAt(k) = m_pattern[k + 1]
      /\ i \in Nat /\ j \in Nat /\ j <= n /\ i <= n + 1
  <2>1. n \in Nat /\ \A k \in Nat : k < n => Format!CharAt(k) = m_pattern[k + 1]
    BY <1>1, PatternFacts
  <2>2. i \in 0..(n + 1) /\ j \in 0..n
    BY <1>1 DEF ParserTypeOK
  <2>3. QED
    BY <2>1, <2>2
<1>3. m_pattern' = m_pattern /\ Format!size' = n
  BY DEF Format!EndOfPattern, Format!size
<1>4. /\ n >= 1 /\ m_pattern[n] \in Letters /\ m_pattern[1] = "%"
      /\ \A k \in 1..n : m_pattern[k] \notin {"(", ")"}
      /\ \A k \in 2..n : m_pattern[k] = "%" <=> m_pattern[k - 1] \notin Letters \union {"%"}
      /\ "%" \notin Letters
  BY <1>1, PlainFacts
<1> HIDE DEF n
<1>5. /\ parser = "scan" /\ i < j /\ j = n /\ match /\ match' = match
      /\ unlegal' = <<>> /\ i' = i /\ j' = j /\ parser' = "settle"
      /\ \A k \in (i + 2)..j : m_pattern[k] \in Letters
  <2>1. /\ parser = "scan" /\ i < j /\ j >= n /\ match /\ match' = match
        /\ unlegal' = <<>> /\ i' = i /\ j' = j /\ parser' = "settle"
        /\ \A k \in (i + 2)..j : m_pattern[k] \in Letters
    BY <1>1 DEF Format!EndOfPattern, NothingElse, InGroup, n
  <2>2. j = n
    BY <1>2, <2>1
  <2>3. QED
    BY <2>1, <2>2
<1>6. Format!Effect' = Format!substr(i + 1, n - i - 1)'
  <2>1. effect_str' = effect_str /\ effect_str = Format!substr(i + 1, n - i - 1)
    BY <1>1, <1>5 DEF Format!EndOfPattern, Kept, n
  <2>2. Format!substr(i + 1, n - i - 1)' = Format!substr(i + 1, n - i - 1)
    <3>1. n' = n
      BY <1>3 DEF n
    <3>2. QED
      BY <1>3, <1>5, <3>1 DEF Format!substr
  <2>3. QED
    BY <1>3, <1>5, <2>1, <2>2 DEF Format!Effect
<1>7. NothingElse'
  BY <1>3, <1>5, <1>6 DEF NothingElse, n
<1>8. Spelled(m_items, 0, i)'
  <2>1. m_items' = m_items /\ i' = i
    BY DEF Format!EndOfPattern
  <2>2. QED
    BY <1>1, <1>3, <2>1 DEF Spelled, LettersIn, Format!LetterPlaces
<1>9. QED
  BY <1>7, <1>8

(* There is nothing to give up for.                                        *)
LEMMA GiveUpPlain ==
  ASSUME OrderInv, PlainInv, Format!GiveUp
  PROVE  PlainInv'
<1> SUFFICES ASSUME Format!Plain(m_pattern)
             PROVE  NothingElse' /\ Spelled(m_items, 0, i)'
  BY DEF PlainInv, Format!Plain, Format!GiveUp
<1> DEFINE n == Format!size
<1>1. /\ ParserTypeOK /\ InGroup /\ Kept /\ NothingElse /\ Spelled(m_items, 0, i)
      /\ m_pattern \in Patterns
  BY DEF OrderInv, PlainInv, ParserTypeOK
<1>2. /\ n \in Nat /\ \A k \in Nat : k < n => Format!CharAt(k) = m_pattern[k + 1]
      /\ i \in Nat /\ j \in Nat /\ j <= n /\ i <= n + 1
  <2>1. n \in Nat /\ \A k \in Nat : k < n => Format!CharAt(k) = m_pattern[k + 1]
    BY <1>1, PatternFacts
  <2>2. i \in 0..(n + 1) /\ j \in 0..n
    BY <1>1 DEF ParserTypeOK
  <2>3. QED
    BY <2>1, <2>2
<1>3. m_pattern' = m_pattern /\ Format!size' = n
  BY DEF Format!GiveUp, Format!size
<1>4. /\ n >= 1 /\ m_pattern[n] \in Letters /\ m_pattern[1] = "%"
      /\ \A k \in 1..n : m_pattern[k] \notin {"(", ")"}
      /\ \A k \in 2..n : m_pattern[k] = "%" <=> m_pattern[k - 1] \notin Letters \union {"%"}
      /\ "%" \notin Letters
  BY <1>1, PlainFacts
<1> HIDE DEF n
<1>5. QED
  BY <1>1 DEF Format!GiveUp, NothingElse

(* The items of the group are those of its letters.                        *)
LEMMA CloseGroupPlain ==
  ASSUME OrderInv, PlainInv, Format!CloseGroup
  PROVE  PlainInv'
<1> SUFFICES ASSUME Format!Plain(m_pattern)
             PROVE  NothingElse' /\ Spelled(m_items, 0, i)'
  BY DEF PlainInv, Format!Plain, Format!CloseGroup
<1> DEFINE n == Format!size
<1>1. /\ ParserTypeOK /\ InGroup /\ Kept /\ NothingElse /\ Spelled(m_items, 0, i)
      /\ m_pattern \in Patterns
  BY DEF OrderInv, PlainInv, ParserTypeOK
<1>2. /\ n \in Nat /\ \A k \in Nat : k < n => Format!CharAt(k) = m_pattern[k + 1]
      /\ i \in Nat /\ j \in Nat /\ j <= n /\ i <= n + 1
  <2>1. n \in Nat /\ \A k \in Nat : k < n => Format!CharAt(k) = m_pattern[k + 1]
    BY <1>1, PatternFacts
  <2>2. i \in 0..(n + 1) /\ j \in 0..n
    BY <1>1 DEF ParserTypeOK
  <2>3. QED
    BY <2>1, <2>2
<1>3. m_pattern' = m_pattern /\ Format!size' = n
  BY DEF Format!CloseGroup, Format!size
<1>4. /\ n >= 1 /\ m_pattern[n] \in Letters /\ m_pattern[1] = "%"
      /\ \A k \in 1..n : m_pattern[k] \notin {"(", ")"}
      /\ \A k \in 2..n : m_pattern[k] = "%" <=> m_pattern[k - 1] \notin Letters \union {"%"}
      /\ "%" \notin Letters
  BY <1>1, PlainFacts
<1> HIDE DEF n
<1> DEFINE last == IF j = n THEN n ELSE j - 1
<1>5. /\ i < j /\ m_pattern[i + 1] = "%" /\ i < last
      /\ match' = TRUE /\ unlegal' = <<>> /\ i' = j /\ parser' = "outer"
      /\ Format!Effect = Format!substr(i + 1, last - i - 1)
      /\ \A k \in (i + 2)..last : m_pattern[k] \in Letters
      /\ j # n => m_pattern[j] \notin Letters /\ m_pattern[j + 1] = "%"
      /\ m_items' = m_items \o Format!Items(Format!Effect)
  BY <1>1 DEF Format!CloseGroup, NothingElse, InGroup, ParserTypeOK, n
<1>6. last \in Nat /\ last <= j /\ last <= n /\ (last = j \/ (last = j - 1 /\ j # n))
  <2>1. i < j /\ i \in Nat /\ j \in Nat /\ n \in Nat /\ j <= n
    BY <1>2, <1>5
  <2>2. (last = n /\ j = n) \/ (last = j - 1 /\ j # n)
    OBVIOUS
  <2> HIDE DEF last
  <2>3. QED
    BY <2>1, <2>2
<1> HIDE DEF last
<1>7. NothingElse'
  BY <1>3, <1>5 DEF NothingElse
<1> DEFINE c == last - i - 1
           r == Format!Items(Format!substr(i + 1, c))
<1>8. /\ i + 1 \in Nat /\ c \in Nat /\ (i + 1) + c = last /\ (i + 1) + 1 = i + 2 /\ i <= i + 1
  BY <1>2, <1>5, <1>6
<1>9. Spelled(r, i, j)
  <2>1. (i + 1) + c <= Format!size /\ (i + 1) + c <= j
    BY <1>6, <1>8 DEF n
  <2>2. \A k \in ((i + 1) + 1)..((i + 1) + c) : m_pattern[k] \in Letters
    BY <1>5, <1>8
  <2>3. ASSUME NEW q \in LettersIn(i, j) PROVE i + 1 < q /\ q <= (i + 1) + c
    <3>1. q \in Nat /\ i < q /\ q <= j /\ m_pattern[q] \in Letters
      BY <1>1, PatternFacts DEF LettersIn, Format!LetterPlaces
    <3>2. q # i + 1 /\ (j # n => q # j)
      BY <1>4, <1>5, <3>1
    <3>3. i + 1 < q /\ q <= last
      BY <1>2, <1>6, <3>1, <3>2
    <3>4. QED
      BY <1>8, <3>3
  <2> HIDE DEF c
  <2>4. QED
    BY <1>1, <1>2, <1>8, <2>1, <2>2, <2>3, SpelledGroup
<1>10. m_items \in Seq(Known \union {"error"}) /\ r \in Seq(Known \union {"error"})
  <2>1. Format!substr(i + 1, c) \in Seq(Characters)
    <3>1. (i + 1) + c <= Format!size
      BY <1>6, <1>8 DEF n
    <3>2. QED
      BY <1>1, <1>8, <3>1, Substr
  <2>2. QED
    BY <1>1, <2>1, ItemsFacts DEF ParserTypeOK
<1>11. m_items' = m_items \o r
  BY <1>5
<1> HIDE DEF r
<1>12. Spelled(m_items', 0, j)
  <2>1. 0 \in Nat /\ 0 <= i /\ i <= j
    BY <1>2, <1>5
  <2> DEFINE S == Known \union {"error"}
  <2> HIDE DEF S
  <2>2. m_items \in Seq(S) /\ r \in Seq(S)
    BY <1>10 DEF S
  <2>3. QED
    BY <1>1, <1>2, <1>9, <1>11, <2>1, <2>2, SpelledJoined
<1>13. Spelled(m_items, 0, i)'
  BY <1>3, <1>5, <1>12 DEF Spelled, LettersIn, Format!LetterPlaces
<1>14. QED
  BY <1>7, <1>13

LEMMA PlainInvStep ==
  ASSUME OrderInv, PlainInv, [LoggerNext]_allvars
  PROVE  PlainInv'
<1>1. CASE Format!Next
  BY <1>1, OuterPlain, SkipPlain, OpenGroupPlain, SeparatorPlain, CharacterPlain,
     InParenthesesPlain, EndOfPatternPlain, GiveUpPlain, CloseGroupPlain DEF Format!Next
<1>2. CASE UNCHANGED format
  <2>1. /\ m_pattern' = m_pattern /\ parser' = parser /\ i' = i /\ j' = j /\ unlegal' = unlegal
        /\ temp_str' = temp_str /\ effect_str' = effect_str /\ match' = match /\ m_items' = m_items
    BY <1>2 DEF format
  <2>2. Format!size' = Format!size /\ Format!Effect' = Format!Effect
    BY <2>1 DEF Format!size, Format!Effect
  <2>3. NothingElse => NothingElse'
    BY <2>1, <2>2 DEF NothingElse, Format!substr
  <2>4. Spelled(m_items, 0, i) => Spelled(m_items, 0, i)'
    BY <2>1 DEF Spelled, LettersIn, Format!LetterPlaces
  <2>5. Format!Plain(m_pattern)' => Format!Plain(m_pattern)
    BY <2>1 DEF Format!Plain
  <2>6. QED
    BY <2>3, <2>4, <2>5 DEF PlainInv
<1>3. QED
  BY <1>1, <1>2 DEF LoggerNext, Explain, Log, allvars

LEMMA PlainInvInit ==
  ASSUME LoggerInit
  PROVE  PlainInv
<1> SUFFICES ASSUME Format!Plain(m_pattern)
             PROVE  NothingElse /\ Spelled(m_items, 0, i)
  BY DEF PlainInv
<1>1. /\ m_pattern \in Patterns /\ parser = "outer" /\ i = 0 /\ unlegal = <<>>
      /\ m_items = <<>> /\ match = TRUE
  BY DEF LoggerInit, Format!Init
<1>2. m_pattern[i + 1] = "%"
  BY <1>1, PlainFacts
<1>3. NothingElse
  BY <1>1, <1>2 DEF NothingElse
<1>4. Spelled(m_items, 0, i)
  <2> DEFINE place == [k \in {} |-> 0]
  <2>1. LettersIn(0, 0) = {}
    BY <1>1, PatternFacts DEF LettersIn, Format!LetterPlaces
  <2>2. DOMAIN m_items = {}
    BY <1>1
  <2>3. place \in [DOMAIN m_items -> LettersIn(0, 0)]
    BY <2>2
  <2>4. Format!LeftToRight(place)
    BY DEF Format!LeftToRight
  <2>5. QED
    BY <1>1, <2>1, <2>2, <2>3, <2>4 DEF Spelled
<1>5. QED
  BY <1>3, <1>4

LEMMA PlainInvHolds == LoggerSpec => []PlainInv
<1>1. OrderInv /\ PlainInv /\ [LoggerNext]_allvars => PlainInv'
  BY PlainInvStep
<1>2. LoggerInit => PlainInv
  BY PlainInvInit
<1>3. QED
  BY OrderInvHolds, <1>1, <1>2, PTL DEF LoggerSpec

LEMMA PlainInvRead ==
  ASSUME OrderInv, PlainInv
  PROVE  Format!EverythingRead
<1> SUFFICES ASSUME parser = "done", Format!Plain(m_pattern)
             PROVE  \E place \in [DOMAIN m_items -> Format!LetterPlaces] :
                      /\ Format!LetterByLetter(place)
                      /\ \A k \in DOMAIN m_items : m_items[k] = Format!Item(m_pattern[place[k]])
  BY DEF Format!EverythingRead
<1>1. i = Format!size /\ Spelled(m_items, 0, i) /\ m_pattern \in Patterns
  BY DEF PlainInv, NothingElse, OrderInv, ParserTypeOK
<1>2. LettersIn(0, i) = Format!LetterPlaces
  <2>1. \A q \in Format!LetterPlaces : 0 < q /\ q <= i
    BY <1>1, PatternFacts DEF Format!LetterPlaces
  <2>2. QED
    BY <2>1 DEF LettersIn
<1> DEFINE L == Format!LetterPlaces
<1> HIDE DEF L
<1>3. PICK place \in [DOMAIN m_items -> L] :
        /\ Format!LeftToRight(place)
        /\ \A q \in L : \E k \in DOMAIN m_items : place[k] = q
        /\ \A k \in DOMAIN m_items : m_items[k] = Format!Item(m_pattern[place[k]])
  BY <1>1, <1>2 DEF Spelled, L
<1>4. DOMAIN place = DOMAIN m_items /\ {place[k] : k \in DOMAIN place} = L
  BY <1>3
<1>5. QED
  BY <1>3, <1>4 DEF Format!LetterByLetter, L

(* What explain() makes of any pattern: the commands from left to right,   *)
(* none of them twice; and of a pattern of groups with separators between  *)
(* them, as the loggers are built with, all items in the order of their    *)
(* letters (logger.cpp:465-543, logger.h:268, 274).                        *)
THEOREM PatternsExplained == LoggerSpec => []ItemsInOrder
<1>1. OrderInv /\ PlainInv => ItemsInOrder
  BY OrderInvInOrder, PlainInvRead DEF ItemsInOrder
<1>2. QED
  BY OrderInvHolds, PlainInvHolds, <1>1, PTL

-----------------------------------------------------------------------------
(* The lines.                                                              *)

(* Nothing is logged before the format is there.                           *)
FormatFirst == output # <<>> => parser = "done"

LEMMA FormatFirstHolds == LoggerSpec => []FormatFirst
<1>1. LoggerInit => FormatFirst
  BY DEF LoggerInit, Init, FormatFirst
<1>2. FormatFirst /\ [LoggerNext]_allvars => FormatFirst'
  <2> SUFFICES ASSUME FormatFirst, [LoggerNext]_allvars PROVE FormatFirst'
    OBVIOUS
  <2>1. CASE Explain
    <3>1. parser # "done"
      BY <2>1 DEF Explain, Format!Next, Format!Outer, Format!Skip, Format!OpenGroup,
         Format!Separator, Format!Character, Format!InParentheses, Format!EndOfPattern,
         Format!GiveUp, Format!CloseGroup
    <3>2. output' = output
      BY <2>1 DEF Explain, vars
    <3>3. QED
      BY <3>1, <3>2 DEF FormatFirst
  <2>2. CASE Log
    <3>1. parser' = "done"
      BY <2>2 DEF Log, format
    <3>2. QED
      BY <3>1 DEF FormatFirst
  <2>3. CASE UNCHANGED allvars
    BY <2>3 DEF allvars, vars, format, FormatFirst
  <2>4. QED
    BY <2>1, <2>2, <2>3 DEF LoggerNext
<1>3. QED
  BY <1>1, <1>2, PTL DEF LoggerSpec

(* With one thread that logs, a line has the fields of one statement: for  *)
(* every letter of the pattern that of its item, in the order of the       *)
(* pattern, and for the message that of this statement and no other        *)
(* (logger.h:34-38, 163-174, logger.cpp:545-552).                          *)
THEOREM LinesOfOneStatement ==
  ASSUME NEW t, Threads = {t}
  PROVE  LoggerSpec => []LinesAsWritten
<1>1. EventInv /\ FormatFirst /\ ItemsInOrder => LinesAsWritten
  <2> SUFFICES ASSUME EventInv, FormatFirst, ItemsInOrder,
                      Format!Plain(m_pattern), NEW n \in DOMAIN output
               PROVE  \E place \in [DOMAIN m_items -> Format!LetterPlaces] :
                        /\ Format!LetterByLetter(place)
                        /\ \A k \in DOMAIN m_items :
                             LET item == Format!Item(m_pattern[place[k]]) IN
                             Written(output[n])[k] =
                               IF item = content_item THEN <<output[n].event>>
                               ELSE <<item, output[n].event>>
    BY DEF LinesAsWritten
  <2>1. output # <<>>
    OBVIOUS
  <2>2. PICK place \in [DOMAIN m_items -> Format!LetterPlaces] :
          /\ Format!LetterByLetter(place)
          /\ \A k \in DOMAIN m_items : m_items[k] = Format!Item(m_pattern[place[k]])
    BY <2>1 DEF FormatFirst, ItemsInOrder, Format!EverythingRead
  <2>3. output[n].text = <<output[n].event>>
    BY DEF EventInv, Logged
  <2>4. ASSUME NEW k \in DOMAIN m_items
        PROVE  Written(output[n])[k] = IF m_items[k] = content_item THEN <<output[n].event>>
                                       ELSE <<m_items[k], output[n].event>>
    BY <2>3 DEF Written, Field
  <2>5. QED
    BY <2>2, <2>4
<1>2. QED
  BY <1>1, LogsEvents, EventInvHolds, FormatFirstHolds, PatternsExplained, PTL

=============================================================================
