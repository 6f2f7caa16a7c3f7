---------------------------- MODULE FileManager ----------------------------
(***************************************************************************)
(* The file manager (src/src/manager/file.cpp) and the file appenders of   *)
(* the loggers (src/src/manager/logger.cpp), which share its streams: a    *)
(* file has one fstream, for everybody.  What is done under m_mutex is one *)
(* step; rw_file() takes the mutex only to close, so it has as many steps  *)
(* as it has calls of the stream.  Slots count from 1.                     *)
(*                                                                         *)
(* A stream is modelled as the standard library has it: opening an open    *)
(* one, or closing a closed one, fails; opening a closed one clears its    *)
(* state, which otherwise stays "fail" or "eof".  A file is a sequence of  *)
(* lines of one length, each with its end of line, also the last.  Two     *)
(* threads inside of one call of a stream are not modelled, and a file has *)
(* one name.                                                               *)
(***************************************************************************)
EXTENDS Naturals, Sequences, FiniteSets

CONSTANTS
  Threads, Files,
  old,         (* the line of a file that is there from the beginning      *)
  blank,       (* the empty line                                           *)
  Present,     (* which files may be there from the beginning              *)
  m_maxnum,    (* the size of the table, 64 in the code                    *)
  MaxCalls     (* bound: how many calls each thread makes                  *)

ASSUME FileAssumption ==
  m_maxnum \in Nat \ {0} /\ MaxCalls \in [Threads -> Nat] /\ Present \subseteq SUBSET Files

VARIABLES
  m_catalogue, (* the slot of each file, or 0                              *)
  m_files,     (* per slot: name and opened                                *)
  deleted,     (* has delete_file() taken the table away?                  *)
  streams,     (* the stream of each slot, which outlives it               *)
  existing,    (* the files that exist                                     *)
  disk,        (* their lines                                              *)
  m_filestream,(* the files with an appender that has got their stream     *)
  pc, file,    (* where each thread is, and with which file                *)
  type,        (* what it asks rw_file() for                               *)
  calls,       (* how many calls it has made                               *)
  buffer,      (* the string that its rw_file() reads into                 *)
  given,       (* history: what was in it when rw_file() was called        *)
  disturbed,   (* history: has somebody else used the stream meanwhile?    *)
  asked        (* history: the files add_file() was called for             *)

tables == <<m_catalogue, m_files, deleted, asked>>
contents == <<existing, disk>>
threads == <<file, type, calls, buffer, given>>
vars == <<tables, contents, streams, m_filestream, pc, threads, disturbed>>

m_filenum == Len(m_files)

Init ==
  /\ m_catalogue = [f \in Files |-> 0]
  /\ m_files = <<>> /\ deleted = FALSE /\ streams = <<>> /\ asked = {}
  /\ existing \in Present
  /\ disk = [f \in Files |-> IF f \in existing THEN <<old>> ELSE <<>>]
  /\ m_filestream = {}
  /\ pc = [t \in Threads |-> "idle"]
  /\ file \in [Threads -> {CHOOSE f \in Files : TRUE}]
  /\ type = [t \in Threads |-> "read"]
  /\ calls = [t \in Threads |-> 0]
  /\ buffer = [t \in Threads |-> <<>>] /\ given = [t \in Threads |-> <<>>]
  /\ disturbed = [t \in Threads |-> FALSE]

-----------------------------------------------------------------------------
(* std::fstream.                                                           *)

Access == {"r", "w", "rw", "e"}

Failed(stream) == [stream EXCEPT !.state = IF @ = "eof" THEN "eof" ELSE "fail"]

Advanced(stream) == [stream EXCEPT !.state = "good", !.pos = @ + 1]

Opened(mode) == [open |-> TRUE, mode |-> mode, state |-> "good", pos |-> 0]

(* new std::fstream(name) opens for both what exists.                      *)
NewStream(f) ==
  IF f \in existing THEN Opened("rw")
  ELSE [open |-> FALSE, mode |-> "rw", state |-> "fail", pos |-> 0]

(* Only std::ios::out alone creates a file, and it truncates one.          *)
Open(k, mode) ==
  LET f == m_files[k].name
      works == ~streams[k].open /\ (mode = "w" \/ f \in existing)
  IN /\ streams' = [streams EXCEPT ![k] = IF works THEN Opened(mode) ELSE Failed(@)]
     /\ existing' = IF works THEN existing \union {f} ELSE existing
     /\ disk' = IF works /\ mode = "w" THEN [disk EXCEPT ![f] = <<>>] ELSE disk

Close(k) ==
  streams' = [streams EXCEPT ![k] = IF @.open THEN [@ EXCEPT !.open = FALSE] ELSE Failed(@)]

Overwritten(lines, pos, line) ==
  IF pos < Len(lines) THEN [lines EXCEPT ![pos + 1] = line] ELSE Append(lines, line)

(* Write a line through the stream, as it would be after clear() if that   *)
(* was called.                                                             *)
Put(k, line, cleared) ==
  LET f == m_files[k].name
      works == streams[k].open /\ streams[k].mode # "r" /\ (cleared \/ streams[k].state = "good")
  IN /\ streams' = [streams EXCEPT ![k] =
           IF works THEN Advanced(@)
           ELSE IF cleared THEN [@ EXCEPT !.state = "fail"] ELSE Failed(@)]
     /\ disk' = IF works THEN [disk EXCEPT ![f] = Overwritten(@, streams[k].pos, line)] ELSE disk
     /\ UNCHANGED existing

(* The lines between the stream's place and the end.                       *)
Rest(k) ==
  LET lines == disk[m_files[k].name]
  IN IF streams[k].open /\ streams[k].mode # "w" THEN SubSeq(lines, streams[k].pos + 1, Len(lines))
     ELSE <<>>

-----------------------------------------------------------------------------
(* A thread's line is told by the thread and its call.                     *)
LineOf(t) == <<t, calls[t]>>

InRw(t) == pc[t] \in {"close", "open", "check", "transfer", "closing", "return"}

(* A thread uses the stream of a file, which disturbs the others.          *)
Use(t, f) ==
  disturbed' = [u \in Threads |-> disturbed[u] \/ (u # t /\ InRw(u) /\ file[u] = f)]

Begin(t, f) ==
  /\ pc[t] = "idle" /\ calls[t] < MaxCalls[t]
  /\ calls' = [calls EXCEPT ![t] = @ + 1]
  /\ file' = [file EXCEPT ![t] = f]

Call(t, f) == Begin(t, f) /\ UNCHANGED <<type, buffer, given>>

Go(t, from, to) == pc[t] = from /\ pc' = [pc EXCEPT ![t] = to]

Slot(t) == m_catalogue[file[t]]

(* m_files is null, and a thread goes through it.                          *)
Crash(t, from) ==
  /\ deleted /\ Go(t, from, "undefined")
  /\ UNCHANGED <<tables, streams, contents, m_filestream, disturbed>>

-----------------------------------------------------------------------------
(* Mutant: the catalogue is not asked.                                     *)
NeverThere(f) == FALSE

exist(f) == m_catalogue[f] # 0

(* A file that is not there yet gets the next slot.                        *)
Add(f) ==
  /\ ~exist(f) /\ m_filenum < m_maxnum /\ ~deleted
  /\ m_files' = Append(m_files, [name |-> f, opened |-> FALSE])
  /\ streams' = Append(streams, NewStream(f))
  /\ m_catalogue' = [m_catalogue EXCEPT ![f] = m_filenum + 1]

NoSlot(f) == ~exist(f) /\ (m_filenum = m_maxnum \/ deleted)

(* add_file(), called by a client or as the first of file_appender().      *)
add_file(t, f) ==
  /\ Call(t, f)
  /\ asked' = asked \union {f}
  /\ \/ Add(f) /\ \E to \in {"idle", "appender"} : Go(t, "idle", to)
     \/ /\ exist(f) /\ \E to \in {"idle", "appender"} : Go(t, "idle", to)
        /\ UNCHANGED <<m_catalogue, m_files, streams>>
     \/ NoSlot(f) /\ Go(t, "idle", "undefined") /\ UNCHANGED <<m_catalogue, m_files, streams>>
  /\ UNCHANGED <<deleted, contents, m_filestream, disturbed>>

(* The private open_file(): the accesses e and rwe open nothing, and a     *)
(* stream that was open before is as good as one that is now.              *)
OpenSlot(t, k, access) ==
  /\ ~deleted
  /\ IF access = "e" THEN UNCHANGED <<streams, contents>> ELSE Open(k, access)
  /\ m_files' = [m_files EXCEPT ![k].opened = @ \/ streams'[k].open]
  /\ Use(t, m_files[k].name)
  /\ UNCHANGED <<m_catalogue, deleted, asked, m_filestream>>

open_file(t, f, access) ==
  /\ Call(t, f) /\ m_catalogue[f] # 0
  /\ Crash(t, "idle") \/ (OpenSlot(t, m_catalogue[f], access) /\ UNCHANGED pc)

(* The private close_file(): opened is not reset.                          *)
CloseSlot(t, k) ==
  /\ ~deleted
  /\ IF m_files[k].opened THEN Close(k) /\ Use(t, m_files[k].name)
     ELSE UNCHANGED <<streams, disturbed>>
  /\ UNCHANGED <<tables, contents, m_filestream>>

close_file(t, f) ==
  /\ Call(t, f) /\ m_catalogue[f] # 0
  /\ Crash(t, "idle") \/ (CloseSlot(t, m_catalogue[f]) /\ UNCHANGED pc)

delete_file(t) ==
  /\ ~deleted /\ deleted' = TRUE
  /\ Call(t, file[t])
  /\ UNCHANGED <<m_catalogue, m_files, asked, contents, streams, m_filestream, pc, disturbed>>

-----------------------------------------------------------------------------
(* file_appender(): open() asks for reading; then get_stream().            *)

AppenderOpen(t) ==
  /\ \/ Crash(t, "appender")
     \/ Go(t, "appender", "stream") /\ OpenSlot(t, Slot(t), "r")
  /\ UNCHANGED threads

get_stream(t) ==
  /\ \/ Crash(t, "stream")
     \/ /\ ~deleted /\ Go(t, "stream", "idle")
        /\ m_filestream' = m_filestream \union {file[t]}
        /\ UNCHANGED <<tables, streams, contents, disturbed>>
  /\ UNCHANGED threads

(* file_appender::log, in the stream as it is.                             *)
log(t, f) ==
  /\ Call(t, f) /\ f \in m_filestream
  /\ Put(m_catalogue[f], LineOf(t)', FALSE)
  /\ Use(t, f)
  /\ UNCHANGED <<tables, m_filestream, pc>>

-----------------------------------------------------------------------------
(* rw_file()                                                               *)

(* Mutant: an open stream is not closed.                                   *)
NeedsNoClosing(f) == FALSE

NeedsClosing(f) == m_files[m_catalogue[f]].opened

(* To read, the caller passes an empty string or one with a line in it,    *)
(* which is not emptied; to write, the line.                               *)
rw_file(t, f, what, string) ==
  /\ Begin(t, f) /\ m_catalogue[f] # 0
  /\ type' = [type EXCEPT ![t] = what]
  /\ buffer' = [buffer EXCEPT ![t] = string] /\ given' = [given EXCEPT ![t] = string]
  /\ \/ Crash(t, "idle")
     \/ /\ ~deleted /\ Go(t, "idle", IF NeedsClosing(f) THEN "close" ELSE "open")
        /\ disturbed' = [disturbed EXCEPT ![t] = \E u \in Threads \ {t} : InRw(u) /\ file[u] = f]
        /\ UNCHANGED <<tables, streams, contents, m_filestream>>

CloseBefore(t) ==
  \/ Crash(t, "close")
  \/ Go(t, "close", "open") /\ CloseSlot(t, Slot(t))

OpenForBoth(t) ==
  \/ Crash(t, "open")
  \/ Go(t, "open", "check") /\ OpenSlot(t, Slot(t), "rw")

Quiet == UNCHANGED <<tables, streams, contents, m_filestream, disturbed>>

(* The string is the caller's again.                                       *)
Leave(t) ==
  /\ buffer' = [buffer EXCEPT ![t] = <<>>] /\ given' = [given EXCEPT ![t] = <<>>]
  /\ type' = [type EXCEPT ![t] = "read"]
  /\ UNCHANGED <<file, calls>>

IsOpen(t) ==
  /\ \/ Go(t, "check", "transfer") /\ streams[Slot(t)].open /\ UNCHANGED threads
     \/ Go(t, "check", "idle") /\ ~streams[Slot(t)].open /\ Leave(t)
  /\ Quiet

(* A turn of while(!stream.eof()): getline() and append.  That the file is *)
(* at its end is seen by the getline() that finds no line any more, whose  *)
(* empty one is appended like the others.  On a stream that has failed the *)
(* loop appends the same line for ever, which is no step here.             *)
Getline(t) ==
  LET k == Slot(t) IN
  /\ type[t] = "read" /\ streams[k].state = "good"
  /\ \/ /\ Rest(k) # <<>>
        /\ buffer' = [buffer EXCEPT ![t] = Append(@, Head(Rest(k)))]
        /\ streams' = [streams EXCEPT ![k].pos = @ + 1]
     \/ /\ Rest(k) = <<>>
        /\ buffer' = [buffer EXCEPT ![t] = Append(@, blank)]
        /\ streams' = [streams EXCEPT ![k].state = "eof"]
  /\ Use(t, file[t])
  /\ UNCHANGED <<pc, tables, contents, m_filestream>>

AtEnd(t) ==
  /\ type[t] = "read" /\ streams[Slot(t)].state = "eof"
  /\ Go(t, "transfer", "closing")
  /\ Quiet /\ UNCHANGED buffer

(* clear(), write(), flush(), of which nobody looks at the result.         *)
WriteBuffer(t) ==
  /\ type[t] = "write"
  /\ Go(t, "transfer", "closing")
  /\ Put(Slot(t), LineOf(t), TRUE)
  /\ Use(t, file[t])
  /\ UNCHANGED <<tables, m_filestream, buffer>>

Transfer(t) ==
  /\ pc[t] = "transfer"
  /\ Getline(t) \/ AtEnd(t) \/ WriteBuffer(t)

CloseAfter(t) ==
  /\ Go(t, "closing", "return")
  /\ Close(Slot(t)) /\ Use(t, file[t])
  /\ UNCHANGED <<tables, contents, m_filestream>>

(* return close_file(index), which closes once more.                       *)
Return(t) ==
  \/ Crash(t, "return") /\ UNCHANGED threads
  \/ Go(t, "return", "idle") /\ CloseSlot(t, Slot(t)) /\ Leave(t)

InFile(t) ==
  \/ Transfer(t) /\ UNCHANGED <<file, type, calls, given>>
  \/ IsOpen(t) \/ Return(t)
  \/ (CloseBefore(t) \/ OpenForBoth(t) \/ CloseAfter(t)) /\ UNCHANGED threads

Calls(t) ==
  \E f \in Files :
    \/ add_file(t, f) \/ close_file(t, f) \/ log(t, f)
    \/ \E access \in Access : open_file(t, f, access)
    \/ \E string \in {<<>>, <<old>>} : rw_file(t, f, "read", string)
    \/ rw_file(t, f, "write", <<>>)

Next ==
  \E t \in Threads : Calls(t) \/ delete_file(t) \/ AppenderOpen(t) \/ get_stream(t) \/ InFile(t)

Spec == Init /\ [][Next]_vars /\ \A t \in Threads : WF_vars(InFile(t))

-----------------------------------------------------------------------------
(* Properties                                                              *)

Lines == {old} \union UNION {{t} \X (1..MaxCalls[t]) : t \in Threads}

TypeOK ==
  /\ m_catalogue \in [Files -> 0..m_maxnum]
  /\ m_files \in Seq([name : Files, opened : BOOLEAN]) /\ m_filenum <= m_maxnum
  /\ Len(streams) = m_filenum
  /\ \A k \in DOMAIN streams :
       /\ streams[k].mode \in Access \ {"e"} /\ streams[k].state \in {"good", "fail", "eof"}
       /\ streams[k].pos <= Len(disk[m_files[k].name])
       /\ streams[k].open => m_files[k].name \in existing
  /\ disk \in [Files -> Seq(Lines)] /\ \A f \in Files \ existing : disk[f] = <<>>
  /\ m_filestream \subseteq {f \in Files : m_catalogue[f] # 0}
  /\ \A t \in Threads : InRw(t) => Slot(t) # 0

(* However many threads add the same files at once, a file has one slot    *)
(* and one stream, and the table, which grows without a look at its size   *)
(* (file.cpp:36), overflows only if more files than it holds were asked    *)
(* for.                                                                    *)
OneSlotPerFile ==
  /\ TypeOK
  /\ \A k \in DOMAIN m_files : m_catalogue[m_files[k].name] = k
  /\ \A t \in Threads : pc[t] = "undefined" => deleted \/ Cardinality(asked) > m_maxnum

(* Whatever was done to the stream before: an rw_file() during which no    *)
(* other thread uses the stream does the whole of it.  What it has read is *)
(* in the string, behind what was there: the lines of the file, none       *)
(* twice, and the empty line of the last turn (file.cpp:117-123).  What it *)
(* has written is at the beginning of the file (file.cpp:125-128).  An     *)
(* rw_file() that others disturb gives no such promise.                    *)
RwIsWhole ==
  \A t \in Threads : pc[t] = "return" /\ ~disturbed[t] =>
    IF type[t] = "read" THEN buffer[t] = Append(given[t] \o disk[file[t]], blank)
    ELSE disk[file[t]] # <<>> /\ Head(disk[file[t]]) = LineOf(t)

(* rw_file() returns, if nobody uses the stream meanwhile, unless it found *)
(* the stream open and opened false: then the second open fails and the    *)
(* loop of file.cpp:120 has no end.  The streams of add_file() are so.     *)
RwReturns ==
  \A t \in Threads :
    (pc[t] \in {"close", "open"} /\ (m_files[Slot(t)].opened \/ ~streams[Slot(t)].open))
      ~> (disturbed[t] \/ pc[t] \in {"idle", "undefined"})

=============================================================================
