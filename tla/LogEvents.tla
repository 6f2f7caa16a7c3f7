----------------------------- MODULE LogEvents -----------------------------
(***************************************************************************)
(* How a log statement becomes a line (src/include/logger.h,               *)
(* src/src/manager/logger.cpp): the macro logger_eventwrap puts the new    *)
(* event into the one logevent_wrap of the process and writes the message  *)
(* into the stream of whatever event is there by then; ConsoleLog() logs   *)
(* the event that is there when it is called.  wrap() also keeps the       *)
(* events of the day, and updata() moves them to m_recordings.  Nothing of *)
(* this is locked: every access to the shared object is a step.            *)
(*                                                                         *)
(* A statement, its event and its message have the same name.  m_listnum   *)
(* is always 0, so m_recordings has one list or none; it is modelled as a  *)
(* sequence of lists.  The stream's text is the sequence of messages put   *)
(* into it.  logger::log is one step, under the mutex of the root logger,  *)
(* and so is every change of its appenders.  What an appender makes of an  *)
(* event is the subject of LogFormat.tla.                                  *)
(*                                                                         *)
(* Two threads that log at once race for the shared vectors, of which this *)
(* model knows nothing: it is meant for one thread that logs.              *)
(***************************************************************************)
EXTENDS Naturals, Sequences, FiniteSets, SequencesExt

CONSTANTS
  Threads,
  Statements,   (* the log statements that are executed, once each         *)
  MaySuppress,  (* may a statement be of a level its logger leaves out?    *)
  Appenders,    (* the appenders; one of them is                           *)
  console,      (*   that of the root logger                               *)
  Changes,      (* bound: how often the appenders are changed              *)
  MonthOf,      (* the month of each day                                   *)
  MonthDayOf,   (* which day of the month it is                            *)
  LastDay,      (* bound: the days on which something may be logged        *)
  null          (* no event                                                *)

ASSUME LogAssumption ==
  /\ MaySuppress \in BOOLEAN
  /\ LastDay \in Nat \ {0} /\ MonthOf \in [1..LastDay -> Nat \ {0}]
  /\ MonthDayOf \in [1..LastDay -> Nat \ {0}]
  /\ null \notin Statements /\ console \in Appenders /\ Changes \in Nat

VARIABLES
  m_wrap,        (* the singleton: 0 is null                               *)
  made,          (* how many logevent_wraps have been made                 *)
  m_event,       (* per wrap: the current event                            *)
  m_events,      (* per wrap: the events of the day                        *)
  m_recordings,  (* per wrap: the events of earlier days                   *)
  m_day,         (* per wrap: the day of the last updata(); m_month is its
                    month, and the code's m_day its day of the month       *)
  m_appender,    (* the appenders of the root logger                       *)
  changed,       (* how often they were changed                            *)
  today,
  pc,            (* where each thread is in its statement                  *)
  own,           (* the statement it executes                              *)
  this,          (* the wrap it has got                                    *)
  stream,        (* the event whose stream it has got                      *)
  begun,         (* the statements begun, in order                         *)
  dayOf,         (* on what day updata() was called for each               *)
  content,       (* the messages in each event                             *)
  output,        (* what has been logged, and by which appender            *)
  steady         (* history: the appenders nobody has taken away           *)

wraps == <<m_wrap, made, m_event, m_events, m_recordings, m_day>>
threads == <<pc, own, this, stream>>
appenders == <<m_appender, changed, steady>>
vars == <<wraps, appenders, today, threads, begun, dayOf, content, output>>

Wraps == 1..Cardinality(Threads)

Init ==
  /\ m_wrap = 0 /\ made = 0
  /\ m_event = [w \in Wraps |-> null]
  /\ m_events = [w \in Wraps |-> <<>>]
  /\ m_recordings = [w \in Wraps |-> <<>>]
  /\ m_day = [w \in Wraps |-> 0]
  /\ m_appender = <<console>> /\ changed = 0 /\ steady = {console}
  /\ today = 1
  /\ pc = [t \in Threads |-> "idle"]
  /\ own = [t \in Threads |-> null]
  /\ this = [t \in Threads |-> 0]
  /\ stream = [t \in Threads |-> null]
  /\ begun = <<>>
  /\ dayOf = [s \in Statements |-> 0]
  /\ content = [s \in Statements |-> <<>>]
  /\ output = <<>>

Go(t, from, to) == pc[t] = from /\ pc' = [pc EXCEPT ![t] = to]

-----------------------------------------------------------------------------
(* A statement whose level is too low goes on to ConsoleLog() directly.    *)
Begin(t, s) ==
  /\ s \notin ToSet(begun)
  /\ \/ Go(t, "idle", "get")
     \/ MaySuppress /\ Go(t, "idle", "console")
  /\ own' = [own EXCEPT ![t] = s]
  /\ begun' = Append(begun, s)
  /\ UNCHANGED <<wraps, appenders, today, this, stream, dayOf, content, output>>

(* GetLogeventWrap(): if(!m_wrap) ...                                      *)
FindWrap(t) ==
  /\ Go(t, "get", IF m_wrap = 0 THEN "create" ELSE "wrap")
  /\ this' = [this EXCEPT ![t] = m_wrap]
  /\ UNCHANGED <<wraps, appenders, today, own, stream, begun, dayOf, content, output>>

(* ... m_wrap=new logevent_wrap(), whose constructor calls updata().       *)
NewWrap ==
  /\ made' = made + 1 /\ m_wrap' = made + 1
  /\ m_day' = [m_day EXCEPT ![made + 1] = today]

CreateWrap(t) ==
  /\ Go(t, "create", "wrap")
  /\ NewWrap
  /\ this' = [this EXCEPT ![t] = m_wrap']
  /\ UNCHANGED <<appenders, m_event, m_events, m_recordings, today, own, stream, begun, dayOf, content, output>>

(* Mutant: a wrap that has an event keeps it.                              *)
WrapFirst(t) ==
  /\ Go(t, "wrap", "updata")
  /\ m_event' = [m_event EXCEPT ![this[t]] = IF @ = null THEN own[t] ELSE @]
  /\ UNCHANGED <<appenders, m_wrap, made, m_events, m_recordings, m_day, today, own, this, stream, begun, dayOf, content, output>>

Wrap(t) ==
  /\ Go(t, "wrap", "updata")
  /\ m_event' = [m_event EXCEPT ![this[t]] = own[t]]
  /\ UNCHANGED <<appenders, m_wrap, made, m_events, m_recordings, m_day, today, own, this, stream, begun, dayOf, content, output>>

Month(day) == IF day = 0 THEN 0 ELSE MonthOf[day]

(* Two days are the same for updata() if their days of the month are.      *)
IsNewDay(w) == m_day[w] = 0 \/ MonthDayOf[today] # MonthDayOf[m_day[w]]

(* The recordings after updata(): a new month empties them, a new day adds *)
(* the events kept, unless there is a list with number m_listnum already.  *)
Recorded(w) ==
  LET left == IF Month(today) # Month(m_day[w]) THEN <<>> ELSE m_recordings[w]
  IN IF IsNewDay(w) /\ m_events[w] # <<>> /\ left = <<>> THEN <<m_events[w]>> ELSE left

(* Mutant: the events of the day are recorded and kept.                    *)
EventsKept(w) == m_events[w]

(* The events of the day after updata().                                   *)
EventsLeft(w) == IF IsNewDay(w) THEN <<>> ELSE m_events[w]

updata(t) ==
  LET w == this[t] IN
  /\ Go(t, "updata", "push")
  /\ m_recordings' = [m_recordings EXCEPT ![w] = Recorded(w)]
  /\ m_events' = [m_events EXCEPT ![w] = EventsLeft(w)]
  /\ m_day' = [m_day EXCEPT ![w] = today]
  /\ dayOf' = [dayOf EXCEPT ![own[t]] = today]
  /\ UNCHANGED <<appenders, m_wrap, made, m_event, today, own, this, stream, begun, content, output>>

PushBack(t) ==
  /\ Go(t, "push", "stream")
  /\ m_events' = [m_events EXCEPT ![this[t]] = Append(@, own[t])]
  /\ UNCHANGED <<appenders, m_wrap, made, m_event, m_recordings, m_day, today, own, this, stream, begun, dayOf, content, output>>

get_stream(t) ==
  /\ Go(t, "stream", "write")
  /\ stream' = [stream EXCEPT ![t] = m_event[this[t]]]
  /\ UNCHANGED <<wraps, appenders, today, own, this, begun, dayOf, content, output>>

(* The client's <<, and the end of the expression, which holds its event.  *)
Write(t) ==
  /\ Go(t, "write", "console")
  /\ content' = [content EXCEPT ![stream[t]] = Append(@, own[t])]
  /\ UNCHANGED <<wraps, appenders, today, own, this, stream, begun, dayOf, output>>

Line(e, a) == [event |-> e, text |-> content[e], by |-> a]

(* logger::log: every appender logs; the level is that of the root logger  *)
(* and of the appenders, whatever the event's is.                          *)
log(e) == [k \in DOMAIN m_appender |-> Line(e, m_appender[k])]

Leave(t, to) ==
  /\ Go(t, "console", to)
  /\ own' = [own EXCEPT ![t] = null]
  /\ this' = [this EXCEPT ![t] = 0]
  /\ stream' = [stream EXCEPT ![t] = null]

Current == IF m_wrap = 0 THEN null ELSE m_event[m_wrap]

(* The current event, of whatever statement it is, or none: an appender    *)
(* that is given none dereferences it.                                     *)
ConsoleLog(t) ==
  /\ Leave(t, IF Current = null /\ m_appender # <<>> THEN "undefined" ELSE "idle")
  /\ \/ m_wrap = 0 /\ NewWrap
     \/ m_wrap # 0 /\ UNCHANGED <<m_wrap, made, m_day>>
  /\ output' = IF Current = null THEN output ELSE output \o log(Current)
  /\ UNCHANGED <<appenders, m_event, m_events, m_recordings, today, begun, dayOf, content>>

-----------------------------------------------------------------------------
(* The appenders, under the mutex of the logger.                           *)

ChangeAppenders(to, gone) ==
  /\ changed < Changes
  /\ m_appender' = to
  /\ changed' = changed + 1
  /\ steady' = steady \ gone
  /\ UNCHANGED <<wraps, threads, today, begun, dayOf, content, output>>

add_appender(a) == ChangeAppenders(Append(m_appender, a), {})

(* Mutant: what is left begins at the deleted appender's place.            *)
DeleteUpTo(a) ==
  /\ a \in ToSet(m_appender)
  /\ ChangeAppenders(SubSeq(m_appender, SelectInSeq(m_appender, LAMBDA b : b = a) + 1,
                            Len(m_appender)), {a})

(* Only the first of several.                                              *)
delete_appender(a) ==
  /\ a \in ToSet(m_appender)
  /\ ChangeAppenders(RemoveAt(m_appender, SelectInSeq(m_appender, LAMBDA b : b = a)), {a})

clean_appender ==
  /\ m_appender # <<>>
  /\ ChangeAppenders(<<>>, ToSet(m_appender))

Tomorrow ==
  /\ today < LastDay
  /\ today' = today + 1
  /\ UNCHANGED <<wraps, appenders, threads, begun, dayOf, content, output>>

Step(t) ==
  \/ \E s \in Statements : Begin(t, s)
  \/ FindWrap(t) \/ CreateWrap(t) \/ Wrap(t) \/ updata(t) \/ PushBack(t)
  \/ get_stream(t) \/ Write(t) \/ ConsoleLog(t)

Next ==
  \/ Tomorrow
  \/ \E t \in Threads : Step(t)
  \/ \E a \in Appenders : add_appender(a) \/ delete_appender(a)
  \/ clean_appender

Spec == Init /\ [][Next]_vars

-----------------------------------------------------------------------------
(* Properties                                                              *)

TypeOK ==
  LET Events == Statements \union {null} IN
  /\ m_wrap \in 0..made /\ made \in 0..Cardinality(Threads)
  /\ m_event \in [Wraps -> Events]
  /\ m_events \in [Wraps -> Seq(Statements)]
  /\ m_recordings \in [Wraps -> Seq(Seq(Statements))]
  /\ m_day \in [Wraps -> 0..LastDay] /\ today \in 1..LastDay
  /\ pc \in [Threads -> {"idle", "get", "create", "wrap", "updata", "push", "stream", "write", "console", "undefined"}]
  /\ own \in [Threads -> Events] /\ this \in [Threads -> 0..made]
  /\ stream \in [Threads -> Events]
  /\ begun \in Seq(Statements) /\ dayOf \in [Statements -> 0..LastDay]
  /\ content \in [Statements -> Seq(Statements)]
  /\ m_appender \in Seq(Appenders) /\ changed \in 0..Changes
  /\ steady \subseteq ToSet(m_appender)
  /\ output \in Seq([event : Statements, text : Seq(Statements), by : Appenders])

(* The lines of an appender.                                               *)
LinesOf(a) == {n \in DOMAIN output : output[n].by = a}

Begun(e, f) == \E p, q \in DOMAIN begun : p <= q /\ begun[p] = e /\ begun[q] = f

(* The statements that were not left out are logged in the order they were *)
(* executed, each once before the next (logger.h:34-38), by every appender *)
(* that was there from the beginning and that nobody has taken away,       *)
(* whatever was done to others.  The lines of one statement may repeat,    *)
(* one behind the other: ConsoleLog() logs the last event again when the   *)
(* next statement was left out.                                            *)
LoggedOnce ==
  (\A t \in Threads : pc[t] = "idle") =>
    \A a \in steady :
      /\ {output[n].event : n \in LinesOf(a)} = {s \in ToSet(begun) : dayOf[s] # 0}
      /\ \A m, n \in LinesOf(a) : m < n => Begun(output[m].event, output[n].event)

(* The list of the day, and a list of recorded events, is a run of what    *)
(* was logged: all of the same day of a month, and nothing that was logged *)
(* in between is missing.  It may be of two days, if they are the same day *)
(* of different months and nothing was logged between them (1 January and  *)
(* 1 February): the day of the month is all that updata() compares         *)
(* (logger.cpp:74), and the change of the month empties the recordings but *)
(* not the list of the day (logger.cpp:69-72).                             *)
RunsOfOneMonthDay ==
  \A w \in Wraps : \A list \in ToSet(m_recordings[w]) \union {m_events[w]} :
    \A e, f \in ToSet(list) :
      /\ MonthDayOf[dayOf[e]] = MonthDayOf[dayOf[f]]
      /\ \A g \in ToSet(begun) :
           dayOf[g] # 0 /\ Begun(e, g) /\ Begun(g, f) => g \in ToSet(list)

=============================================================================
