-------------------------- MODULE FileManagerProofs --------------------------
(***************************************************************************)
(* Proofs about FileManager: a file has one slot and one stream, and an    *)
(* rw_file() that nobody disturbs does the whole of what it is called for, *)
(* for any threads, files, calls and size of the table.                    *)
(***************************************************************************)
EXTENDS FileManager, FiniteSetTheorems, SequenceTheorems, TLAPS

Stream == [open : BOOLEAN, mode : {"r", "w", "rw"}, state : {"good", "fail", "eof"}, pos : Nat]

(* The files that are in the table.                                        *)
Known == {f \in Files : m_catalogue[f] # 0}

(* m_catalogue and m_files are inverse to one another, and only what was   *)
(* asked for is in them.                                                   *)
Tables ==
  /\ m_files \in Seq([name : Files, opened : BOOLEAN]) /\ m_filenum <= m_maxnum
  /\ m_catalogue \in [Files -> 0..m_filenum]
  /\ \A k \in 1..m_filenum : m_catalogue[m_files[k].name] = k
  /\ \A f \in Known : m_files[m_catalogue[f]].name = f
  /\ asked \subseteq Files /\ IsFiniteSet(asked)
  /\ Known \subseteq asked /\ Cardinality(Known) = m_filenum

(* A stream is at a place its file has, and one that add_file() made and   *)
(* nobody has opened since is as new.                                      *)
Streams ==
  /\ streams \in Seq(Stream) /\ Len(streams) = m_filenum
  /\ existing \subseteq Files
  /\ disk \in [Files -> Seq(Lines)] /\ \A f \in Files \ existing : disk[f] = <<>>
  /\ \A k \in 1..m_filenum :
       /\ streams[k].pos <= Len(disk[m_files[k].name])
       /\ streams[k].open => m_files[k].name \in existing
       /\ streams[k].open /\ ~m_files[k].opened => streams[k] = Opened("rw")

(* Where the threads are: in a call with a file of the table, and past an  *)
(* open_file() with a stream that is open only if the table says so.       *)
Places == {"idle", "appender", "stream", "close", "open", "check", "transfer", "closing", "return",
           "undefined"}

StreamOf(f) == streams[m_catalogue[f]]

SaidOpen(f) == m_files[m_catalogue[f]].opened

NoSurprise(f) == StreamOf(f).open => SaidOpen(f)

Here(t) ==
  /\ pc[t] \notin {"idle", "undefined"} => file[t] \in Known
  /\ InRw(t) => calls[t] \in 1..MaxCalls[t]
  /\ pc[t] \in {"stream", "check"} => NoSurprise(file[t])
  /\ pc[t] \in {"transfer", "closing", "return"} => SaidOpen(file[t])
  /\ pc[t] = "undefined" => deleted \/ Cardinality(asked) > m_maxnum

Said == Lines \union {blank}

Typed ==
  /\ pc \in [Threads -> Places]
  /\ file \in [Threads -> Files \union {CHOOSE f \in Files : TRUE}]
  /\ type \in [Threads -> {"read", "write"}]
  /\ calls \in [Threads -> Nat]
  /\ buffer \in [Threads -> Seq(Said)] /\ given \in [Threads -> Seq(Said)]
  /\ disturbed \in [Threads -> BOOLEAN]

Whereabouts ==
  /\ Typed /\ deleted \in BOOLEAN
  /\ \A t \in Threads : Here(t)
  /\ m_filestream \subseteq Known /\ \A f \in m_filestream : NoSurprise(f)

(* What has been done of an rw_file() that nobody has disturbed: in a      *)
(* stream that has come to its end everything is read, and before that the *)
(* lines up to the place of the stream.                                    *)
Done(t) ==
  IF type[t] = "read" THEN buffer[t] = Append(given[t] \o disk[file[t]], blank)
  ELSE disk[file[t]] # <<>> /\ Head(disk[file[t]]) = LineOf(t)

Got(t, pos) ==
  /\ Len(buffer[t]) = Len(given[t]) + pos
  /\ \A i \in 1..Len(given[t]) : buffer[t][i] = given[t][i]
  /\ \A i \in 1..pos : buffer[t][Len(given[t]) + i] = disk[file[t]][i]

SoFar(t) ==
  LET stream == StreamOf(file[t])
  IN /\ pc[t] \in {"close", "open", "check"} => buffer[t] = given[t]
     /\ pc[t] = "close" => SaidOpen(file[t])
     /\ pc[t] = "open" => ~stream.open \/ ~SaidOpen(file[t])
     /\ pc[t] = "check" /\ stream.open =>
          stream.mode = "rw" /\ stream.pos = 0 /\ stream.state # "eof"
     /\ pc[t] = "transfer" =>
          /\ stream.open /\ stream.mode = "rw"
          /\ stream.state = "good" /\ type[t] = "read" => Got(t, stream.pos)
          /\ type[t] = "write" => stream.pos = 0
          /\ stream.state = "eof" => type[t] = "read" /\ Done(t)
     /\ pc[t] \in {"closing", "return"} => Done(t)

Undisturbed == \A t \in Threads : InRw(t) /\ ~disturbed[t] => SoFar(t)

FileInv == Tables /\ Streams /\ Whereabouts /\ Undisturbed

-----------------------------------------------------------------------------
(* The slot of a file, which is no other file's.                           *)
LEMMA SlotFacts ==
  ASSUME Tables, NEW f \in Known
  PROVE  /\ f \in Files /\ m_filenum \in Nat
         /\ m_catalogue[f] \in 1..m_filenum
         /\ m_files[m_catalogue[f]] \in [name : Files, opened : BOOLEAN]
         /\ m_files[m_catalogue[f]].name = f
         /\ \A g \in Known : m_catalogue[g] = m_catalogue[f] => g = f
<1>1. f \in Files /\ m_catalogue[f] # 0
  BY DEF Known
<1>2. m_files \in Seq([name : Files, opened : BOOLEAN]) /\ m_catalogue \in [Files -> 0..m_filenum]
  BY DEF Tables
<1>3. m_filenum \in Nat
  BY <1>2 DEF m_filenum
<1>4. m_catalogue[f] \in 1..m_filenum
  BY <1>1, <1>2, <1>3
<1>5. m_files[m_catalogue[f]] \in [name : Files, opened : BOOLEAN]
  BY <1>2, <1>4, ElementOfSeq DEF m_filenum
<1>6. \A g \in Known : m_files[m_catalogue[g]].name = g
  BY DEF Tables
<1>7. QED
  BY <1>1, <1>3, <1>4, <1>5, <1>6

LEMMA RowFacts ==
  ASSUME Tables, NEW n \in 1..m_filenum
  PROVE  /\ m_files[n] \in [name : Files, opened : BOOLEAN]
         /\ m_files[n].name \in Files /\ m_catalogue[m_files[n].name] = n
<1>1. m_files \in Seq([name : Files, opened : BOOLEAN])
  BY DEF Tables
<1>2. m_files[n] \in [name : Files, opened : BOOLEAN]
  BY <1>1, ElementOfSeq DEF m_filenum
<1>3. QED
  BY <1>2 DEF Tables

(* What a step may do to the table and the streams as a thread other than  *)
(* its own sees it.                                                        *)
Kept ==
  /\ \A g \in Known : g \in Known' /\ m_catalogue'[g] = m_catalogue[g]
  /\ \A g \in Known : SaidOpen(g) => SaidOpen(g)'
  /\ \A g \in Known : NoSurprise(g) => NoSurprise(g)'
  /\ deleted' \in BOOLEAN /\ (deleted => deleted')
  /\ Cardinality(asked) > m_maxnum => Cardinality(asked') > m_maxnum

Untouched(g) == StreamOf(g)' = StreamOf(g) /\ SaidOpen(g)' = SaidOpen(g) /\ disk'[g] = disk[g]

Effect(t) ==
  /\ Tables' /\ Streams' /\ Kept
  /\ disturbed' \in [Threads -> BOOLEAN]
  /\ \A u \in Threads \ {t} : InRw(u) /\ ~disturbed'[u] /\ file[u] \in Known =>
       ~disturbed[u] /\ Untouched(file[u])

Moves(t) ==
  /\ Typed'
  /\ \A u \in Threads \ {t} :
       /\ pc'[u] = pc[u] /\ file'[u] = file[u] /\ type'[u] = type[u]
       /\ calls'[u] = calls[u] /\ buffer'[u] = buffer[u] /\ given'[u] = given[u]

(* With such an effect a step needs to be looked at only for its thread.   *)
LEMMA Step ==
  ASSUME FileInv, NEW t \in Threads, Effect(t), Moves(t),
         m_filestream' \subseteq Known', \A f \in m_filestream' : NoSurprise(f)',
         Here(t)', InRw(t)' /\ ~disturbed'[t] => SoFar(t)'
  PROVE  FileInv'
<1> USE DEF FileInv
<1>1. Tables' /\ Streams' /\ Kept /\ Typed' /\ deleted' \in BOOLEAN
  BY DEF Effect, Moves, Kept
<1>2. ASSUME NEW u \in Threads \ {t} PROVE Here(u)'
  <2>1. Here(u) /\ pc'[u] = pc[u] /\ file'[u] = file[u] /\ calls'[u] = calls[u]
    BY DEF Whereabouts, Moves
  <2>2. InRw(u)' <=> InRw(u)
    BY <2>1 DEF InRw
  <2>3. pc[u] \notin {"idle", "undefined"} => file[u] \in Known
    BY <2>1 DEF Here
  <2>4. pc'[u] \notin {"idle", "undefined"} => file'[u] \in Known'
    BY <1>1, <2>1, <2>3 DEF Kept
  <2>5. pc'[u] \in {"stream", "check"} => NoSurprise(file[u])'
    BY <1>1, <2>1, <2>3 DEF Kept, Here
  <2>6. pc'[u] \in {"transfer", "closing", "return"} => SaidOpen(file[u])'
    BY <1>1, <2>1, <2>3 DEF Kept, Here
  <2>7. pc'[u] = "undefined" => deleted' \/ Cardinality(asked') > m_maxnum
    BY <1>1, <2>1 DEF Kept, Here
  <2>8. QED
    BY <2>1, <2>2, <2>4, <2>5, <2>6, <2>7 DEF Here
<1>3. ASSUME NEW u \in Threads \ {t}, InRw(u)', ~disturbed'[u] PROVE SoFar(u)'
  <2>1. /\ Here(u) /\ pc'[u] = pc[u] /\ file'[u] = file[u] /\ calls'[u] = calls[u]
        /\ type'[u] = type[u] /\ buffer'[u] = buffer[u] /\ given'[u] = given[u]
    BY DEF Whereabouts, Moves
  <2>2. InRw(u) /\ file[u] \in Known
    BY <1>3, <2>1 DEF InRw, Here
  <2>3. ~disturbed[u] /\ Untouched(file[u])
    BY <1>3, <2>2 DEF Effect
  <2>4. SoFar(u)
    BY <2>2, <2>3 DEF Undisturbed
  <2>5. /\ StreamOf(file[u])' = StreamOf(file[u]) /\ SaidOpen(file[u])' = SaidOpen(file[u])
        /\ disk'[file'[u]] = disk[file[u]]
    BY <2>1, <2>3 DEF Untouched, StreamOf, SaidOpen
  <2>6. Done(u)' <=> Done(u)
    BY <2>1, <2>5 DEF Done, LineOf
  <2>7. Got(u, StreamOf(file[u]).pos)' <=> Got(u, StreamOf(file[u]).pos)
    BY <2>1, <2>5 DEF Got
  <2>8. QED
    BY <2>1, <2>4, <2>5, <2>6, <2>7 DEF SoFar
<1>4. \A u \in Threads : u = t \/ u \in Threads \ {t}
  OBVIOUS
<1>5. Whereabouts'
  BY <1>1, <1>2, <1>4 DEF Whereabouts
<1>6. Undisturbed'
  BY <1>3, <1>4 DEF Undisturbed
<1>7. QED
  BY <1>1, <1>5, <1>6

-----------------------------------------------------------------------------
(* The effects a step can have.                                            *)

LEMMA AskedFacts ==
  ASSUME Tables, asked' = asked \/ \E f \in Files : asked' = asked \union {f}
  PROVE  /\ asked \subseteq asked' /\ asked' \subseteq Files /\ IsFiniteSet(asked')
         /\ Cardinality(asked) \in Nat /\ Cardinality(asked') \in Nat
         /\ Cardinality(asked) <= Cardinality(asked')
<1>1. asked \subseteq Files /\ IsFiniteSet(asked)
  BY DEF Tables
<1>2. IsFiniteSet(asked')
  BY <1>1, FS_AddElement
<1>3. Cardinality(asked) \in Nat /\ Cardinality(asked') \in Nat
  BY <1>1, <1>2, FS_CardinalityType
<1>4. Cardinality(asked) <= Cardinality(asked')
  BY <1>1, <1>2, FS_Subset
<1>5. QED
  BY <1>1, <1>2, <1>3, <1>4

(* Nothing is done to a stream or a slot.                                  *)
LEMMA QuietEffect ==
  ASSUME FileInv, NEW t \in Threads,
         UNCHANGED <<m_catalogue, m_files, streams, existing, disk>>,
         asked' = asked \/ \E f \in Files : asked' = asked \union {f},
         deleted' = deleted \/ deleted' = TRUE,
         disturbed' \in [Threads -> BOOLEAN],
         \A u \in Threads \ {t} : disturbed'[u] = disturbed[u]
  PROVE  Effect(t) /\ Known' = Known
<1>1. /\ m_catalogue' = m_catalogue /\ m_files' = m_files /\ streams' = streams
      /\ existing' = existing /\ disk' = disk
  OBVIOUS
<1>2. Tables /\ Streams /\ Known' = Known /\ deleted \in BOOLEAN
  BY DEF FileInv, Known, Whereabouts
<1>3. /\ asked \subseteq asked' /\ asked' \subseteq Files /\ IsFiniteSet(asked')
      /\ Cardinality(asked) \in Nat /\ Cardinality(asked') \in Nat
      /\ Cardinality(asked) <= Cardinality(asked')
  BY <1>2, AskedFacts
<1>4. m_maxnum \in Nat
  BY FileAssumption
<1>5. Tables'
  BY <1>1, <1>2, <1>3 DEF Tables, m_filenum
<1>6. Streams'
  BY <1>1, <1>2 DEF Streams, m_filenum
<1>7. \A g : SaidOpen(g)' = SaidOpen(g) /\ StreamOf(g)' = StreamOf(g) /\ disk'[g] = disk[g]
  BY <1>1 DEF SaidOpen, StreamOf
<1>8. Kept /\ (\A g : Untouched(g))
  <2>1. \A g \in Known : g \in Known' /\ m_catalogue'[g] = m_catalogue[g]
    BY <1>1, <1>2
  <2>2. \A g : (SaidOpen(g) => SaidOpen(g)') /\ (NoSurprise(g) => NoSurprise(g)')
    BY <1>7 DEF NoSurprise
  <2>3. deleted' \in BOOLEAN /\ (deleted => deleted')
    BY <1>2
  <2>4. Cardinality(asked) > m_maxnum => Cardinality(asked') > m_maxnum
    BY <1>3, <1>4
  <2>5. Kept
    BY <2>1, <2>2, <2>3, <2>4 DEF Kept
  <2>6. QED
    BY <1>7, <2>5 DEF Untouched
<1>9. QED
  BY <1>2, <1>5, <1>6, <1>8 DEF Effect

(* A file gets a slot, at the end of the table.                            *)
LEMMA AddEffect ==
  ASSUME FileInv, NEW t \in Threads, NEW f \in Files, Add(f),
         asked' = asked \union {f}, UNCHANGED <<deleted, existing, disk, disturbed>>
  PROVE  Effect(t) /\ f \in Known' /\ Known \subseteq Known'
<1> DEFINE k == m_filenum + 1
           row == [name |-> f, opened |-> FALSE]
           stream == NewStream(f)
<1>1. /\ m_catalogue[f] = 0 /\ m_filenum < m_maxnum
      /\ m_files' = Append(m_files, row) /\ streams' = Append(streams, stream)
      /\ m_catalogue' = [m_catalogue EXCEPT ![f] = k]
      /\ deleted' = deleted /\ existing' = existing /\ disk' = disk /\ disturbed' = disturbed
  BY DEF Add, exist
<1>2. Tables /\ Streams /\ disturbed \in [Threads -> BOOLEAN] /\ deleted \in BOOLEAN
  BY DEF FileInv, Whereabouts, Typed
<1>3. /\ m_files \in Seq([name : Files, opened : BOOLEAN]) /\ streams \in Seq(Stream)
      /\ Len(streams) = m_filenum /\ m_filenum \in Nat /\ m_maxnum \in Nat
      /\ m_catalogue \in [Files -> 0..m_filenum]
  BY <1>2, FileAssumption DEF Tables, Streams, m_filenum
<1>4. row \in [name : Files, opened : BOOLEAN] /\ row.name = f /\ row.opened = FALSE
  OBVIOUS
<1>5. /\ stream \in Stream /\ stream.pos = 0 /\ (stream.open => f \in existing)
      /\ (stream.open => stream = Opened("rw"))
  BY DEF NewStream, Opened, Stream
<1> HIDE DEF row, stream
<1>6. /\ m_files' \in Seq([name : Files, opened : BOOLEAN]) /\ Len(m_files') = k
      /\ m_files'[k] = row
      /\ \A n \in 1..m_filenum : m_files'[n] = m_files[n]
  BY <1>1, <1>3, <1>4, AppendProperties DEF m_filenum
<1>7. /\ streams' \in Seq(Stream) /\ Len(streams') = k /\ streams'[k] = stream
      /\ \A n \in 1..m_filenum : streams'[n] = streams[n]
  BY <1>1, <1>3, <1>5, AppendProperties
<1>8. /\ m_catalogue' \in [Files -> 0..k] /\ m_catalogue'[f] = k
      /\ \A g \in Files \ {f} : m_catalogue'[g] = m_catalogue[g]
  BY <1>1, <1>3
<1>9. m_filenum' = k /\ \A n \in 1..k : n = k \/ n \in 1..m_filenum
  BY <1>3, <1>6 DEF m_filenum
<1>10. Known' = Known \union {f} /\ f \notin Known
  BY <1>1, <1>3, <1>8 DEF Known
<1>11. /\ asked \subseteq asked' /\ asked' \subseteq Files /\ IsFiniteSet(asked')
       /\ Cardinality(asked) \in Nat /\ Cardinality(asked') \in Nat
       /\ Cardinality(asked) <= Cardinality(asked')
  BY <1>2, AskedFacts
<1>12. \A g \in Known : m_catalogue[g] \in 1..m_filenum /\ g \in Files \ {f}
  BY <1>2, <1>10, SlotFacts
<1>13. Tables'
  <2>1. \A n \in 1..m_filenum' : m_catalogue'[m_files'[n].name] = n
    <3>1. \A n \in 1..m_filenum : m_catalogue[m_files[n].name] = n /\ m_files[n].name \in Files
      BY <1>2, RowFacts
    <3>2. \A n \in 1..m_filenum : m_files[n].name # f
      BY <1>1, <3>1
    <3>3. \A n \in 1..m_filenum : m_catalogue'[m_files'[n].name] = n
      BY <1>6, <1>8, <3>1, <3>2
    <3>4. QED
      BY <1>4, <1>6, <1>8, <1>9, <3>3
  <2>2. \A g \in Known' : m_files'[m_catalogue'[g]].name = g
    <3>1. \A g \in Known : m_files'[m_catalogue'[g]].name = g
      BY <1>2, <1>6, <1>8, <1>12, SlotFacts
    <3>2. QED
      BY <1>4, <1>6, <1>8, <1>10, <3>1
  <2>3. Known' \subseteq asked' /\ Cardinality(Known') = m_filenum'
    <3>1. Known \subseteq asked /\ IsFiniteSet(asked) /\ Cardinality(Known) = m_filenum
      BY <1>2 DEF Tables
    <3>2. IsFiniteSet(Known)
      BY <3>1, FS_Subset
    <3>3. Cardinality(Known \union {f}) = Cardinality(Known) + 1
      BY <1>10, <3>2, FS_AddElement
    <3>4. QED
      BY <1>9, <1>10, <1>11, <3>1, <3>3
  <2>4. m_filenum' <= m_maxnum
    BY <1>1, <1>3, <1>9
  <2>5. QED
    BY <1>6, <1>8, <1>9, <1>11, <2>1, <2>2, <2>3, <2>4 DEF Tables
<1>14. Streams'
  <2>1. ASSUME NEW n \in 1..k
        PROVE  /\ streams'[n].pos <= Len(disk[m_files'[n].name])
               /\ streams'[n].open => m_files'[n].name \in existing
               /\ streams'[n].open /\ ~m_files'[n].opened => streams'[n] = Opened("rw")
    <3>1. CASE n \in 1..m_filenum
      BY <1>2, <1>6, <1>7, <3>1 DEF Streams
    <3>2. CASE n = k
      <4>1. Len(disk[f]) \in Nat
        BY <1>2 DEF Streams
      <4>2. QED
        BY <1>4, <1>5, <1>6, <1>7, <3>2, <4>1
    <3>3. QED
      BY <1>9, <3>1, <3>2
  <2>2. QED
    BY <1>1, <1>2, <1>7, <1>9, <2>1 DEF Streams
<1>15. ASSUME NEW g \in Known
       PROVE  /\ g \in Known' /\ m_catalogue'[g] = m_catalogue[g]
              /\ StreamOf(g)' = StreamOf(g) /\ SaidOpen(g)' = SaidOpen(g)
  BY <1>6, <1>7, <1>8, <1>10, <1>12 DEF StreamOf, SaidOpen
<1>16. Kept
  BY <1>1, <1>2, <1>3, <1>11, <1>15 DEF Kept, NoSurprise
<1>17. \A g \in Known : Untouched(g)
  BY <1>1, <1>15 DEF Untouched
<1>18. QED
  BY <1>1, <1>2, <1>10, <1>13, <1>14, <1>16, <1>17 DEF Effect

(* A thread uses the stream of a file, and with it the file.               *)
Touch(t, f, stream, lines, opened) ==
  /\ f \in Known
  /\ streams' = [streams EXCEPT ![m_catalogue[f]] = stream]
  /\ disk' = [disk EXCEPT ![f] = lines]
  /\ existing' = existing \/ existing' = existing \union {f}
  /\ m_files' = [m_files EXCEPT ![m_catalogue[f]].opened = opened]
  /\ m_catalogue' = m_catalogue /\ deleted' = deleted /\ asked' = asked
  /\ Use(t, f)
  /\ stream \in Stream /\ lines \in Seq(Lines) /\ opened \in BOOLEAN
  /\ stream.pos <= Len(lines)
  /\ stream.open => f \in existing'
  /\ f \notin existing' => lines = <<>>
  /\ SaidOpen(f) => opened
  /\ stream.open => opened \/ stream = StreamOf(f)

LEMMA TouchEffect ==
  ASSUME FileInv, NEW t \in Threads, NEW f, NEW stream, NEW lines, NEW opened,
         Touch(t, f, stream, lines, opened)
  PROVE  /\ Effect(t) /\ Known' = Known
         /\ StreamOf(f)' = stream /\ SaidOpen(f)' = opened /\ disk'[f] = lines
         /\ disturbed'[t] = disturbed[t]
<1> DEFINE k == m_catalogue[f]
<1>1. /\ f \in Known
      /\ streams' = [streams EXCEPT ![k] = stream] /\ disk' = [disk EXCEPT ![f] = lines]
      /\ existing' = existing \/ existing' = existing \union {f}
      /\ m_files' = [m_files EXCEPT ![k].opened = opened]
      /\ m_catalogue' = m_catalogue /\ deleted' = deleted /\ asked' = asked
      /\ stream \in Stream /\ lines \in Seq(Lines) /\ opened \in BOOLEAN
      /\ stream.pos <= Len(lines) /\ (stream.open => f \in existing')
      /\ (f \notin existing' => lines = <<>>)
      /\ (SaidOpen(f) => opened) /\ (stream.open => opened \/ stream = StreamOf(f))
  BY DEF Touch
<1>2. /\ disturbed' \in [Threads -> BOOLEAN] /\ disturbed'[t] = disturbed[t]
      /\ \A u \in Threads \ {t} : disturbed'[u] = (disturbed[u] \/ (InRw(u) /\ file[u] = f))
  <2>1. disturbed \in [Threads -> BOOLEAN]
    BY DEF FileInv, Whereabouts, Typed
  <2>2. \A u \in Threads : (disturbed[u] \/ (u # t /\ InRw(u) /\ file[u] = f)) \in BOOLEAN
    BY <2>1 DEF InRw
  <2>3. disturbed' = [u \in Threads |-> disturbed[u] \/ (u # t /\ InRw(u) /\ file[u] = f)]
    BY DEF Touch, Use
  <2>4. QED
    BY <2>1, <2>2, <2>3
<1>3. Tables /\ Streams /\ Known' = Known /\ deleted \in BOOLEAN
  BY <1>1 DEF FileInv, Known, Whereabouts
<1>4. /\ m_files \in Seq([name : Files, opened : BOOLEAN]) /\ streams \in Seq(Stream)
      /\ Len(streams) = m_filenum /\ m_filenum \in Nat /\ disk \in [Files -> Seq(Lines)]
  BY <1>3 DEF Tables, Streams, m_filenum
<1>5. /\ f \in Files /\ k \in 1..m_filenum /\ m_files[k] \in [name : Files, opened : BOOLEAN]
      /\ m_files[k].name = f
      /\ \A g \in Known : m_catalogue[g] \in 1..m_filenum /\ (m_catalogue[g] = k => g = f)
  BY <1>1, <1>3, SlotFacts
<1> DEFINE row == [m_files[k] EXCEPT !.opened = opened]
<1>6. m_files' = [m_files EXCEPT ![k] = row] /\ row \in [name : Files, opened : BOOLEAN]
      /\ row.name = f /\ row.opened = opened
  BY <1>1, <1>5
<1> HIDE DEF row, k
<1>7. /\ m_files' \in Seq([name : Files, opened : BOOLEAN]) /\ m_filenum' = m_filenum
      /\ m_files'[k] = row /\ \A n \in 1..m_filenum : n # k => m_files'[n] = m_files[n]
  BY <1>4, <1>5, <1>6, ExceptSeq DEF m_filenum
<1>8. /\ streams' \in Seq(Stream) /\ Len(streams') = m_filenum
      /\ streams'[k] = stream /\ \A n \in 1..m_filenum : n # k => streams'[n] = streams[n]
  BY <1>1, <1>4, <1>5, ExceptSeq
<1>9. /\ disk' \in [Files -> Seq(Lines)] /\ disk'[f] = lines
      /\ \A g \in Files \ {f} : disk'[g] = disk[g]
  BY <1>1, <1>4, <1>5
<1>10. \A n \in 1..m_filenum : m_files'[n].name = m_files[n].name
  BY <1>5, <1>6, <1>7
<1>11. Tables'
  BY <1>1, <1>3, <1>5, <1>7, <1>10 DEF Tables
<1>12. Streams'
  <2>1. ASSUME NEW n \in 1..m_filenum
        PROVE  /\ streams'[n].pos <= Len(disk'[m_files'[n].name])
               /\ streams'[n].open => m_files'[n].name \in existing'
               /\ streams'[n].open /\ ~m_files'[n].opened => streams'[n] = Opened("rw")
    <3>1. CASE n = k
      <4>1. streams[k].open /\ ~m_files[k].opened => streams[k] = Opened("rw")
        BY <1>3, <1>5 DEF Streams
      <4>2. SaidOpen(f) = m_files[k].opened /\ StreamOf(f) = streams[k]
        BY DEF SaidOpen, StreamOf, k
      <4>3. stream.open /\ ~opened => stream = Opened("rw")
        BY <1>1, <4>1, <4>2
      <4>4. QED
        BY <1>1, <1>6, <1>7, <1>8, <1>9, <3>1, <4>3
    <3>2. CASE n # k
      <4>1. m_files[n].name \in Files /\ m_catalogue[m_files[n].name] = n
        BY <1>3, RowFacts
      <4>2. m_files[n].name # f
        BY <3>2, <4>1 DEF k
      <4>3. QED
        BY <1>1, <1>3, <1>7, <1>8, <1>9, <3>2, <4>1, <4>2 DEF Streams
    <3>3. QED
      BY <3>1, <3>2
  <2>2. existing' \subseteq Files
    BY <1>1, <1>3, <1>5 DEF Streams
  <2>3. \A g \in Files \ existing' : disk'[g] = <<>>
    BY <1>1, <1>3, <1>9 DEF Streams
  <2>4. QED
    BY <1>7, <1>8, <1>9, <2>1, <2>2, <2>3 DEF Streams
<1>13. StreamOf(f)' = stream /\ SaidOpen(f)' = opened
  BY <1>1, <1>6, <1>7, <1>8 DEF StreamOf, SaidOpen, k
<1>14. \A g \in Known : g # f => Untouched(g)
  <2>1. SUFFICES ASSUME NEW g \in Known, g # f PROVE Untouched(g)
    OBVIOUS
  <2>2. m_catalogue[g] \in 1..m_filenum /\ m_catalogue[g] # k /\ g \in Files \ {f}
    BY <1>5, <2>1 DEF Known
  <2>3. QED
    BY <1>1, <1>7, <1>8, <1>9, <2>2 DEF Untouched, StreamOf, SaidOpen
<1>15. Kept
  <2>1. \A g \in Known : SaidOpen(g) => SaidOpen(g)'
    BY <1>1, <1>13, <1>14 DEF Untouched
  <2>2. \A g \in Known : NoSurprise(g) => NoSurprise(g)'
    <3>1. NoSurprise(f) => NoSurprise(f)'
      BY <1>1, <1>13 DEF NoSurprise
    <3>2. QED
      BY <1>14, <3>1 DEF Untouched, NoSurprise
  <2>3. QED
    BY <1>1, <1>3, <2>1, <2>2 DEF Kept
<1>16. QED
  BY <1>2, <1>3, <1>9, <1>11, <1>12, <1>13, <1>14, <1>15 DEF Effect

-----------------------------------------------------------------------------
(* The calls of a stream are such uses.                                    *)

LEMMA StreamFacts ==
  ASSUME FileInv, NEW f \in Known
  PROVE  /\ StreamOf(f) \in Stream /\ StreamOf(f).pos <= Len(disk[f])
         /\ StreamOf(f).open => f \in existing
         /\ StreamOf(f).open /\ ~SaidOpen(f) => StreamOf(f) = Opened("rw")
         /\ disk[f] \in Seq(Lines) /\ SaidOpen(f) \in BOOLEAN
         /\ f \notin existing => disk[f] = <<>>
<1>1. Tables /\ Streams
  BY DEF FileInv
<1>2. /\ f \in Files /\ m_catalogue[f] \in 1..m_filenum
      /\ m_files[m_catalogue[f]] \in [name : Files, opened : BOOLEAN]
      /\ m_files[m_catalogue[f]].name = f
  BY <1>1, SlotFacts
<1>3. streams \in Seq(Stream) /\ Len(streams) = m_filenum
  BY <1>1 DEF Streams
<1>4. streams[m_catalogue[f]] \in Stream
  BY <1>2, <1>3, ElementOfSeq
<1>5. QED
  BY <1>1, <1>2, <1>4 DEF Streams, StreamOf, SaidOpen

(* An update that changes nothing.                                         *)
LEMMA SameRow ==
  ASSUME FileInv, NEW f \in Known
  PROVE  /\ m_files = [m_files EXCEPT ![m_catalogue[f]].opened = SaidOpen(f)]
         /\ disk = [disk EXCEPT ![f] = disk[f]]
         /\ streams = [streams EXCEPT ![m_catalogue[f]] = StreamOf(f)]
<1>1. Tables /\ Streams
  BY DEF FileInv
<1>2. /\ f \in Files /\ m_catalogue[f] \in 1..m_filenum
      /\ m_files[m_catalogue[f]] \in [name : Files, opened : BOOLEAN]
  BY <1>1, SlotFacts
<1>3. m_files \in Seq([name : Files, opened : BOOLEAN]) /\ streams \in Seq(Stream)
      /\ disk \in [Files -> Seq(Lines)]
  BY <1>1 DEF Tables, Streams
<1>4. [m_files[m_catalogue[f]] EXCEPT !.opened = SaidOpen(f)] = m_files[m_catalogue[f]]
  BY <1>2 DEF SaidOpen
<1>5. m_files = [m_files EXCEPT ![m_catalogue[f]] = m_files[m_catalogue[f]]]
  BY <1>3
<1>6. QED
  BY <1>3, <1>4, <1>5 DEF StreamOf

(* A stream after a call that it may have moved.                           *)
Moved(stream, state, pos) == [stream EXCEPT !.state = state, !.pos = pos]

LEMMA MovedFacts ==
  ASSUME NEW stream \in Stream, NEW state \in {"good", "fail", "eof"}, NEW pos \in Nat
  PROVE  /\ Moved(stream, state, pos) \in Stream
         /\ Moved(stream, state, pos).open <=> stream.open
         /\ Moved(stream, state, pos).mode = stream.mode
         /\ Moved(stream, state, pos).state = state
         /\ Moved(stream, state, pos).pos = pos
BY DEF Stream, Moved

LEMMA MovedOf ==
  ASSUME NEW f, StreamOf(f) \in Stream, NEW state \in {"good", "fail", "eof"}, NEW pos \in Nat
  PROVE  /\ Moved(StreamOf(f), state, pos) \in Stream
         /\ Moved(StreamOf(f), state, pos).open <=> StreamOf(f).open
         /\ Moved(StreamOf(f), state, pos).mode = StreamOf(f).mode
         /\ Moved(StreamOf(f), state, pos).state = state
         /\ Moved(StreamOf(f), state, pos).pos = pos
<1>1. \A s \in Stream : Moved(s, state, pos).open <=> s.open
  BY MovedFacts
<1>2. Moved(StreamOf(f), state, pos).open <=> StreamOf(f).open
  BY <1>1
<1>3. /\ Moved(StreamOf(f), state, pos) \in Stream
      /\ Moved(StreamOf(f), state, pos).mode = StreamOf(f).mode
      /\ Moved(StreamOf(f), state, pos).state = state
  BY MovedFacts
<1>4. Moved(StreamOf(f), state, pos).pos = pos
  BY MovedFacts
<1>5. QED
  BY <1>2, <1>3, <1>4

LEMMA OpenTouch ==
  ASSUME FileInv, NEW t \in Threads, NEW f \in Known, NEW access \in Access,
         OpenSlot(t, m_catalogue[f], access)
  PROVE  /\ Touch(t, f, StreamOf(f)', disk'[f], SaidOpen(f)')
         /\ NoSurprise(f)'
         /\ access = "rw" =>
              StreamOf(f)' = IF ~StreamOf(f).open /\ f \in existing THEN Opened("rw")
                             ELSE Failed(StreamOf(f))
<1> DEFINE k == m_catalogue[f]
           works == ~StreamOf(f).open /\ (access = "w" \/ f \in existing)
           new == IF access = "e" THEN StreamOf(f)
                  ELSE IF works THEN Opened(access) ELSE Failed(StreamOf(f))
           lines == IF access = "w" /\ works THEN <<>> ELSE disk[f]
           opened == SaidOpen(f) \/ new.open
<1>1. /\ f \in Files /\ k \in 1..m_filenum /\ m_files[k].name = f
      /\ m_files[k] \in [name : Files, opened : BOOLEAN]
  BY SlotFacts DEF FileInv
<1>2. /\ m_files \in Seq([name : Files, opened : BOOLEAN]) /\ streams \in Seq(Stream)
      /\ Len(streams) = m_filenum /\ disk \in [Files -> Seq(Lines)]
  BY DEF FileInv, Tables, Streams
<1>3. /\ StreamOf(f) \in Stream /\ StreamOf(f).pos <= Len(disk[f])
      /\ StreamOf(f).open => f \in existing
      /\ disk[f] \in Seq(Lines) /\ SaidOpen(f) \in BOOLEAN
      /\ f \notin existing => disk[f] = <<>>
  BY StreamFacts
<1>4. StreamOf(f) = streams[k] /\ SaidOpen(f) = m_files[k].opened
  BY DEF StreamOf, SaidOpen
<1>5. /\ m_catalogue' = m_catalogue /\ deleted' = deleted /\ asked' = asked /\ Use(t, f)
      /\ m_files' = [m_files EXCEPT ![k].opened = @ \/ streams'[k].open]
  BY <1>1 DEF OpenSlot
<1>6. /\ streams' = [streams EXCEPT ![k] = new] /\ disk' = [disk EXCEPT ![f] = lines]
      /\ existing' = IF access # "e" /\ works THEN existing \union {f} ELSE existing
  <2>1. CASE access = "e"
    BY <2>1, SameRow DEF OpenSlot, contents
  <2>2. CASE access # "e"
    <3>1. Open(k, access)
      BY <2>2 DEF OpenSlot
    <3>2. /\ streams' = [streams EXCEPT ![k] = IF works THEN Opened(access) ELSE Failed(@)]
          /\ existing' = IF works THEN existing \union {f} ELSE existing
          /\ disk' = IF works /\ access = "w" THEN [disk EXCEPT ![f] = <<>>] ELSE disk
      BY <1>1, <1>4, <3>1 DEF Open
    <3>3. streams' = [streams EXCEPT ![k] = new]
      BY <1>4, <2>2, <3>2
    <3>4. disk' = [disk EXCEPT ![f] = lines]
      BY <3>2, SameRow
    <3>5. QED
      BY <2>2, <3>2, <3>3, <3>4
  <2>3. QED
    BY <2>1, <2>2
<1>7. /\ new \in Stream /\ lines \in Seq(Lines) /\ opened \in BOOLEAN
      /\ new.pos <= Len(lines) /\ (new.open => f \in existing')
      /\ (f \notin existing' => lines = <<>>)
  <2>1. Failed(StreamOf(f)) \in Stream /\ Failed(StreamOf(f)).pos = StreamOf(f).pos
        /\ Failed(StreamOf(f)).open = StreamOf(f).open
    BY <1>3 DEF Failed, Stream
  <2>2. access # "e" => Opened(access) \in Stream /\ Opened(access).pos = 0 /\ Opened(access).open
    BY DEF Opened, Stream, Access
  <2>3. Len(disk[f]) \in Nat /\ <<>> \in Seq(Lines) /\ Len(<<>>) = 0
    BY <1>3
  <2>4. new \in Stream
    BY <1>3, <2>1, <2>2
  <2>5. lines \in Seq(Lines)
    BY <1>3, <2>3
  <2>6. opened \in BOOLEAN
    BY <1>3, <2>4 DEF Stream
  <2>7. new.pos <= Len(lines)
    BY <1>3, <2>1, <2>2, <2>3
  <2>8. new.open => f \in existing'
    BY <1>3, <1>6, <2>1, <2>2
  <2>9. f \notin existing' => lines = <<>>
    BY <1>3, <1>6
  <2>10. QED
    BY <2>4, <2>5, <2>6, <2>7, <2>8, <2>9
<1> HIDE DEF new, lines, opened
<1>8. streams'[k] = new /\ disk'[f] = lines
  BY <1>1, <1>2, <1>6
<1>9. m_files' = [m_files EXCEPT ![k].opened = opened]
  BY <1>4, <1>5, <1>8 DEF opened
<1>10. m_files'[k].opened = opened
  BY <1>1, <1>2, <1>9 DEF m_filenum
<1>11. StreamOf(f)' = new /\ SaidOpen(f)' = opened
  BY <1>5, <1>8, <1>10 DEF StreamOf, SaidOpen
<1>12. new.open => opened
  BY DEF opened
<1>13. SaidOpen(f) => opened
  BY DEF opened
<1>14. Touch(t, f, new, lines, opened)
  BY <1>5, <1>6, <1>7, <1>9, <1>12, <1>13 DEF Touch
<1>15. access = "rw" => new = IF ~StreamOf(f).open /\ f \in existing THEN Opened("rw")
                              ELSE Failed(StreamOf(f))
  BY DEF new
<1>16. QED
  BY <1>8, <1>11, <1>12, <1>14, <1>15 DEF NoSurprise

LEMMA CloseTouch ==
  ASSUME FileInv, NEW t \in Threads, NEW f \in Known, Close(m_catalogue[f]), Use(t, f),
         UNCHANGED <<tables, contents>>
  PROVE  /\ Touch(t, f, StreamOf(f)', disk[f], SaidOpen(f))
         /\ ~StreamOf(f)'.open
<1> DEFINE k == m_catalogue[f]
           new == IF StreamOf(f).open THEN [StreamOf(f) EXCEPT !.open = FALSE]
                  ELSE Failed(StreamOf(f))
<1>1. /\ m_catalogue' = m_catalogue /\ m_files' = m_files /\ deleted' = deleted /\ asked' = asked
      /\ existing' = existing /\ disk' = disk
  BY DEF tables, contents
<1>2. k \in 1..m_filenum /\ streams \in Seq(Stream) /\ Len(streams) = m_filenum
  BY SlotFacts DEF FileInv, Streams
<1>3. /\ StreamOf(f) \in Stream /\ StreamOf(f).pos <= Len(disk[f])
      /\ disk[f] \in Seq(Lines) /\ SaidOpen(f) \in BOOLEAN
      /\ f \notin existing => disk[f] = <<>>
  BY StreamFacts
<1>4. streams' = [streams EXCEPT ![k] = new]
  BY DEF Close, StreamOf
<1>5. new \in Stream /\ new.pos = StreamOf(f).pos /\ new.open = FALSE
  BY <1>3 DEF Failed, Stream
<1> HIDE DEF new
<1>6. StreamOf(f)' = new
  BY <1>1, <1>2, <1>4 DEF StreamOf
<1>7. Touch(t, f, new, disk[f], SaidOpen(f))
  BY <1>1, <1>3, <1>4, <1>5, SameRow DEF Touch
<1>8. QED
  BY <1>5, <1>6, <1>7

LEMMA PutTouch ==
  ASSUME FileInv, NEW t \in Threads, NEW f \in Known, NEW line \in Lines, NEW cleared \in BOOLEAN,
         Put(m_catalogue[f], line, cleared), NoSurprise(f), Use(t, f), UNCHANGED tables
  PROVE  /\ Touch(t, f, StreamOf(f)', disk'[f], SaidOpen(f))
         /\ cleared /\ StreamOf(f).open /\ StreamOf(f).mode = "rw" =>
              disk'[f] = Overwritten(disk[f], StreamOf(f).pos, line)
<1> DEFINE k == m_catalogue[f]
           works == StreamOf(f).open /\ StreamOf(f).mode # "r"
                      /\ (cleared \/ StreamOf(f).state = "good")
           new == IF works THEN Moved(StreamOf(f), "good", StreamOf(f).pos + 1)
                  ELSE IF cleared THEN [StreamOf(f) EXCEPT !.state = "fail"] ELSE Failed(StreamOf(f))
           lines == IF works THEN Overwritten(disk[f], StreamOf(f).pos, line) ELSE disk[f]
<1>1. /\ m_catalogue' = m_catalogue /\ m_files' = m_files /\ deleted' = deleted /\ asked' = asked
      /\ existing' = existing
  BY DEF tables, Put
<1>2. /\ k \in 1..m_filenum /\ streams \in Seq(Stream) /\ Len(streams) = m_filenum
      /\ m_files[k].name = f /\ f \in Files /\ disk \in [Files -> Seq(Lines)]
  BY SlotFacts DEF FileInv, Streams
<1>3. /\ StreamOf(f) \in Stream /\ StreamOf(f).pos <= Len(disk[f])
      /\ StreamOf(f).open => f \in existing
      /\ disk[f] \in Seq(Lines) /\ SaidOpen(f) \in BOOLEAN
      /\ f \notin existing => disk[f] = <<>>
  BY StreamFacts
<1>4. streams' = [streams EXCEPT ![k] = new] /\ disk' = [disk EXCEPT ![f] = lines]
  <2>1. streams' = [streams EXCEPT ![k] = new]
    <3>1. Advanced(StreamOf(f)) = Moved(StreamOf(f), "good", StreamOf(f).pos + 1)
      BY DEF Advanced, Moved
    <3>2. QED
      BY <3>1 DEF Put, StreamOf
  <2>2. disk' = IF works THEN [disk EXCEPT ![f] = Overwritten(disk[f], StreamOf(f).pos, line)] ELSE disk
    BY <1>2 DEF Put, StreamOf
  <2>3. QED
    BY <2>1, <2>2, SameRow
<1>5. /\ Overwritten(disk[f], StreamOf(f).pos, line) \in Seq(Lines)
      /\ StreamOf(f).pos + 1 <= Len(Overwritten(disk[f], StreamOf(f).pos, line))
      /\ StreamOf(f).pos \in Nat
  <2>1. StreamOf(f).pos \in Nat /\ Len(disk[f]) \in Nat
    BY <1>3 DEF Stream
  <2>2. CASE StreamOf(f).pos < Len(disk[f])
    <3>1. StreamOf(f).pos + 1 \in 1..Len(disk[f])
      BY <2>1, <2>2
    <3>2. QED
      BY <1>3, <2>1, <2>2, <3>1, ExceptSeq DEF Overwritten
  <2>3. CASE ~(StreamOf(f).pos < Len(disk[f]))
    BY <1>3, <2>1, <2>3, AppendProperties DEF Overwritten
  <2>4. QED
    BY <2>1, <2>2, <2>3
<1>6. /\ new \in Stream /\ (new.open <=> StreamOf(f).open)
      /\ new.pos = IF works THEN StreamOf(f).pos + 1 ELSE StreamOf(f).pos
  <2>1. StreamOf(f).pos + 1 \in Nat
    BY <1>5
  <2>2. LET new1 == Moved(StreamOf(f), "good", StreamOf(f).pos + 1)
        IN new1 \in Stream /\ (new1.open <=> StreamOf(f).open) /\ new1.pos = StreamOf(f).pos + 1
    <3>1. StreamOf(f) \in Stream
      BY <1>3
    <3>2. QED
      BY <2>1, <3>1, MovedOf
  <2>3. LET new2 == [StreamOf(f) EXCEPT !.state = "fail"]
        IN new2 \in Stream /\ (new2.open <=> StreamOf(f).open) /\ new2.pos = StreamOf(f).pos
    BY <1>3 DEF Stream
  <2>4. LET new3 == Failed(StreamOf(f))
        IN new3 \in Stream /\ (new3.open <=> StreamOf(f).open) /\ new3.pos = StreamOf(f).pos
    BY <1>3 DEF Stream, Failed
  <2>5. QED
    BY <2>2, <2>3, <2>4
<1>7. lines \in Seq(Lines) /\ new.pos <= Len(lines) /\ (f \notin existing' => lines = <<>>)
  BY <1>1, <1>3, <1>5, <1>6
<1>8. cleared /\ StreamOf(f).open /\ StreamOf(f).mode = "rw" =>
        lines = Overwritten(disk[f], StreamOf(f).pos, line)
  OBVIOUS
<1> HIDE DEF new, lines
<1>9. StreamOf(f)' = new /\ disk'[f] = lines
  BY <1>1, <1>2, <1>4 DEF StreamOf
<1>10. Touch(t, f, new, lines, SaidOpen(f))
  BY <1>1, <1>3, <1>4, <1>6, <1>7, SameRow DEF Touch, NoSurprise
<1>11. QED
  BY <1>8, <1>9, <1>10

(* What is left to read.                                                   *)
LEMMA RestFacts ==
  ASSUME FileInv, NEW f \in Known
  PROVE  /\ Rest(m_catalogue[f]) # <<>> =>
              /\ StreamOf(f).pos + 1 \in 1..Len(disk[f])
              /\ Head(Rest(m_catalogue[f])) = disk[f][StreamOf(f).pos + 1]
         /\ StreamOf(f).open /\ StreamOf(f).mode = "rw" /\ Rest(m_catalogue[f]) = <<>> =>
              StreamOf(f).pos = Len(disk[f])
<1> DEFINE pos == StreamOf(f).pos
           rest == SubSeq(disk[f], pos + 1, Len(disk[f]))
<1>1. m_files[m_catalogue[f]].name = f
  BY SlotFacts DEF FileInv
<1>2. StreamOf(f) \in Stream /\ pos <= Len(disk[f]) /\ disk[f] \in Seq(Lines)
  BY StreamFacts
<1>3. pos \in Nat /\ Len(disk[f]) \in Nat
  BY <1>2 DEF Stream
<1>4. Rest(m_catalogue[f]) =
        IF StreamOf(f).open /\ StreamOf(f).mode # "w" THEN rest ELSE <<>>
  BY <1>1 DEF Rest, StreamOf
<1>5. rest \in Seq(Lines) /\ Len(rest) = Len(disk[f]) - pos
      /\ \A i \in 1..(Len(disk[f]) - pos) : rest[i] = disk[f][pos + i]
  <2>1. \A i \in (pos + 1)..Len(disk[f]) : i \in 1..Len(disk[f])
    BY <1>3
  <2>2. rest \in Seq(Lines) /\ Len(rest) = Len(disk[f]) - pos
    BY <1>2, <1>3, <2>1, SubSeqProperties
  <2>3. \A i \in 1..(Len(disk[f]) - pos) : rest[i] = disk[f][pos + i]
    <3> HIDE DEF pos
    <3>1. QED
      BY <1>2, <1>3
  <2>4. QED
    BY <2>2, <2>3
<1> HIDE DEF rest, pos
<1>6. rest # <<>> => pos + 1 \in 1..Len(disk[f]) /\ Head(rest) = disk[f][pos + 1]
  BY <1>2, <1>3, <1>5
<1>7. rest = <<>> => pos = Len(disk[f])
  BY <1>3, <1>5
<1>8. QED
  BY <1>4, <1>6, <1>7 DEF pos

(* A getline().                                                            *)
LEMMA ReadTouch ==
  ASSUME FileInv, NEW t \in Threads, NEW f \in Known,
         NEW state \in {"good", "eof"}, NEW pos \in 0..Len(disk[f]),
         streams' = [streams EXCEPT ![m_catalogue[f]] = Moved(StreamOf(f), state, pos)],
         NoSurprise(f), Use(t, f), UNCHANGED <<tables, contents>>
  PROVE  /\ Touch(t, f, StreamOf(f)', disk[f], SaidOpen(f))
         /\ StreamOf(f)'.state = state /\ StreamOf(f)'.mode = StreamOf(f).mode
         /\ StreamOf(f)'.pos = pos
         /\ StreamOf(f)'.open <=> StreamOf(f).open
<1> DEFINE k == m_catalogue[f]
           new == Moved(StreamOf(f), state, pos)
<1>1. /\ m_catalogue' = m_catalogue /\ m_files' = m_files /\ deleted' = deleted /\ asked' = asked
      /\ existing' = existing /\ disk' = disk
  BY DEF tables, contents
<1>2. k \in 1..m_filenum /\ streams \in Seq(Stream) /\ Len(streams) = m_filenum
  BY SlotFacts DEF FileInv, Streams
<1>3. /\ StreamOf(f) \in Stream
      /\ StreamOf(f).open => f \in existing
      /\ disk[f] \in Seq(Lines) /\ SaidOpen(f) \in BOOLEAN
      /\ f \notin existing => disk[f] = <<>>
  BY StreamFacts
<1>4. /\ new \in Stream /\ new.pos = pos /\ (new.open <=> StreamOf(f).open)
      /\ new.state = state /\ new.mode = StreamOf(f).mode
  <2>1. pos \in Nat /\ state \in {"good", "fail", "eof"}
    BY <1>3
  <2>2. QED
    BY <1>3, <2>1, MovedOf
<1>5. streams' = [streams EXCEPT ![k] = new]
  OBVIOUS
<1> HIDE DEF new
<1>6. StreamOf(f)' = new
  BY <1>1, <1>2, <1>5 DEF StreamOf
<1>7. new.pos <= Len(disk[f])
  BY <1>3, <1>4
<1>8. Touch(t, f, new, disk[f], SaidOpen(f))
  BY <1>1, <1>3, <1>4, <1>5, <1>7, SameRow DEF Touch, NoSurprise
<1>9. QED
  BY <1>4, <1>6, <1>8

-----------------------------------------------------------------------------
(* What a step does to its thread.                                         *)

AnyFile == Files \union {CHOOSE f \in Files : TRUE}

Data(t) ==
  /\ file' \in [Threads -> AnyFile] /\ type' \in [Threads -> {"read", "write"}]
  /\ calls' \in [Threads -> Nat]
  /\ buffer' \in [Threads -> Seq(Said)] /\ given' \in [Threads -> Seq(Said)]
  /\ \A u \in Threads \ {t} :
       /\ file'[u] = file[u] /\ type'[u] = type[u] /\ calls'[u] = calls[u]
       /\ buffer'[u] = buffer[u] /\ given'[u] = given[u]

LEMMA NoData ==
  ASSUME Typed, NEW t \in Threads, UNCHANGED threads
  PROVE  /\ Data(t) /\ file' = file /\ type' = type /\ calls' = calls
         /\ buffer' = buffer /\ given' = given
BY DEF Typed, threads, Data, AnyFile

LEMMA LeaveData ==
  ASSUME Typed, NEW t \in Threads, Leave(t)
  PROVE  Data(t)
<1>1. <<>> \in Seq(Said)
  OBVIOUS
<1>2. QED
  BY <1>1 DEF Typed, Leave, Data, AnyFile

LEMMA BeginData ==
  ASSUME Typed, NEW t \in Threads, NEW f \in AnyFile, Begin(t, f)
  PROVE  /\ pc[t] = "idle" /\ file'[t] = f /\ calls'[t] \in 1..MaxCalls[t]
         /\ file' \in [Threads -> AnyFile] /\ calls' \in [Threads -> Nat]
         /\ \A u \in Threads \ {t} : file'[u] = file[u] /\ calls'[u] = calls[u]
<1>1. file \in [Threads -> AnyFile] /\ calls \in [Threads -> Nat] /\ MaxCalls \in [Threads -> Nat]
  BY FileAssumption DEF Typed, AnyFile
<1>2. /\ pc[t] = "idle" /\ calls[t] < MaxCalls[t]
      /\ calls' = [calls EXCEPT ![t] = calls[t] + 1] /\ file' = [file EXCEPT ![t] = f]
  BY DEF Begin
<1>3. calls[t] \in Nat /\ MaxCalls[t] \in Nat
  BY <1>1
<1>4. calls'[t] = calls[t] + 1 /\ file'[t] = f
  BY <1>1, <1>2
<1>5. file' \in [Threads -> AnyFile] /\ calls' \in [Threads -> Nat]
  BY <1>1, <1>2, <1>3
<1>6. \A u \in Threads \ {t} : file'[u] = file[u] /\ calls'[u] = calls[u]
  BY <1>1, <1>2
<1>7. QED
  BY <1>2, <1>3, <1>4, <1>5, <1>6

LEMMA CallData ==
  ASSUME Typed, NEW t \in Threads, NEW f \in AnyFile, Call(t, f)
  PROVE  /\ Data(t) /\ pc[t] = "idle" /\ file'[t] = f /\ calls'[t] \in 1..MaxCalls[t]
<1>1. Begin(t, f) /\ type' = type /\ buffer' = buffer /\ given' = given
  BY DEF Call
<1>2. QED
  BY <1>1, BeginData DEF Data, Typed

LEMMA Goes ==
  ASSUME Typed, NEW t \in Threads, NEW from, NEW to \in Places, Go(t, from, to), Data(t),
         disturbed' \in [Threads -> BOOLEAN]
  PROVE  Moves(t) /\ pc[t] = from /\ pc'[t] = to
BY DEF Go, Moves, Data, Typed, AnyFile

LEMMA Remains ==
  ASSUME Typed, NEW t \in Threads, pc' = pc, Data(t), disturbed' \in [Threads -> BOOLEAN]
  PROVE  Moves(t) /\ pc'[t] = pc[t]
BY DEF Moves, Data, Typed, AnyFile

(* The appenders keep their streams.                                       *)
LEMMA Finish ==
  ASSUME FileInv, NEW t \in Threads, Effect(t), Moves(t), m_filestream' = m_filestream,
         Here(t)', InRw(t)' /\ ~disturbed'[t] => SoFar(t)'
  PROVE  FileInv'
<1>1. m_filestream \subseteq Known /\ \A f \in m_filestream : NoSurprise(f)
  BY DEF FileInv, Whereabouts
<1>2. m_filestream' \subseteq Known' /\ \A f \in m_filestream' : NoSurprise(f)'
  BY <1>1 DEF Effect, Kept
<1>3. QED
  BY <1>2, Step

(* A thread that is in no call, or at a dead end, needs no more.           *)
LEMMA FinishIdle ==
  ASSUME FileInv, NEW t \in Threads, Effect(t), Moves(t), m_filestream' = m_filestream,
         pc'[t] = "idle"
  PROVE  FileInv'
<1>1. Here(t)' /\ ~InRw(t)'
  BY DEF Here, InRw
<1>2. QED
  BY <1>1, Finish

LEMMA CrashStep ==
  ASSUME FileInv, NEW t \in Threads, NEW from, Crash(t, from), Data(t)
  PROVE  FileInv'
<1>1. /\ deleted /\ Go(t, from, "undefined") /\ UNCHANGED <<tables, streams, contents>>
      /\ m_filestream' = m_filestream /\ disturbed' = disturbed
  BY DEF Crash
<1>2. Typed /\ disturbed \in [Threads -> BOOLEAN]
  BY DEF FileInv, Whereabouts, Typed
<1>3. Moves(t) /\ pc'[t] = "undefined"
  BY <1>1, <1>2, Goes DEF Places
<1>4. \A u \in Threads \ {t} : disturbed'[u] = disturbed[u]
  BY <1>1
<1>5. Effect(t)
  BY <1>1, <1>2, <1>4, QuietEffect DEF tables, contents
<1>6. Here(t)' /\ ~InRw(t)'
  BY <1>1, <1>3 DEF Here, InRw, tables
<1>7. QED
  BY <1>1, <1>3, <1>5, <1>6, Finish

-----------------------------------------------------------------------------
(* One operation after the other.                                          *)

LEMMA FileInvInit == Init => FileInv
<1> SUFFICES ASSUME Init PROVE FileInv
  OBVIOUS
<1>1. m_filenum = 0 /\ m_maxnum \in Nat
  BY FileAssumption DEF Init, m_filenum
<1>2. Known = {}
  BY DEF Init, Known
<1>3. Tables
  <2>1. IsFiniteSet({}) /\ Cardinality({}) = 0
    BY FS_EmptySet
  <2>2. m_files \in Seq([name : Files, opened : BOOLEAN]) /\ m_catalogue \in [Files -> 0..m_filenum]
    BY <1>1 DEF Init
  <2>3. asked = {}
    BY DEF Init
  <2>4. QED
    BY <1>1, <1>2, <2>1, <2>2, <2>3 DEF Tables
<1>4. Streams
  <2>1. streams \in Seq(Stream) /\ Len(streams) = 0
    BY DEF Init
  <2>2. old \in Lines
    BY DEF Lines
  <2>3. <<old>> \in Seq(Lines) /\ <<>> \in Seq(Lines)
    BY <2>2
  <2>4. existing \subseteq Files /\ disk \in [Files -> Seq(Lines)]
        /\ \A f \in Files \ existing : disk[f] = <<>>
    BY <2>3, FileAssumption DEF Init
  <2>5. QED
    BY <1>1, <2>1, <2>4 DEF Streams
<1>5. Typed
  <2>1. pc \in [Threads -> Places] /\ disturbed \in [Threads -> BOOLEAN]
    BY DEF Init, Places
  <2>2. buffer \in [Threads -> Seq(Said)] /\ given \in [Threads -> Seq(Said)]
    BY DEF Init
  <2>3. file \in [Threads -> Files \union {CHOOSE f \in Files : TRUE}]
    BY DEF Init
  <2>4. type \in [Threads -> {"read", "write"}] /\ calls \in [Threads -> Nat]
    BY DEF Init
  <2>5. QED
    BY <2>1, <2>2, <2>3, <2>4 DEF Typed
<1>6. \A t \in Threads : pc[t] = "idle"
  BY DEF Init
<1>7. Whereabouts
  BY <1>5, <1>6 DEF Init, Whereabouts, Here, InRw
<1>8. Undisturbed
  BY <1>6 DEF Undisturbed, InRw
<1>9. QED
  BY <1>3, <1>4, <1>7, <1>8 DEF FileInv

(* Who finds no slot has asked for one file more than the table holds.     *)
LEMMA AddFileStep ==
  ASSUME FileInv, NEW t \in Threads, NEW f \in Files, add_file(t, f)
  PROVE  FileInv'
<1>1. /\ Typed /\ Tables /\ m_filestream' = m_filestream /\ asked' = asked \union {f}
      /\ deleted' = deleted /\ existing' = existing /\ disk' = disk /\ disturbed' = disturbed
  BY DEF FileInv, Whereabouts, add_file, contents
<1>2. Data(t) /\ file'[t] = f /\ disturbed' \in [Threads -> BOOLEAN]
  BY <1>1, CallData DEF add_file, AnyFile, Typed
<1>3. ASSUME NEW to \in {"idle", "appender"}, Go(t, "idle", to), Effect(t), f \in Known'
      PROVE  FileInv'
  <2>1. Moves(t) /\ pc'[t] = to
    BY <1>1, <1>2, <1>3, Goes DEF Places
  <2>2. Here(t)' /\ ~InRw(t)'
    BY <1>2, <1>3, <2>1 DEF Here, InRw
  <2>3. QED
    BY <1>1, <1>3, <2>1, <2>2, Finish
<1>4. CASE Add(f) /\ \E to \in {"idle", "appender"} : Go(t, "idle", to)
  BY <1>1, <1>3, <1>4, AddEffect
<1>5. ASSUME UNCHANGED <<m_catalogue, m_files, streams>>
      PROVE  Effect(t) /\ Known' = Known
  BY <1>1, <1>2, <1>5, QuietEffect
<1>6. CASE exist(f) /\ (\E to \in {"idle", "appender"} : Go(t, "idle", to))
             /\ UNCHANGED <<m_catalogue, m_files, streams>>
  <2>1. f \in Known'
    BY <1>5, <1>6 DEF exist, Known
  <2>2. QED
    BY <1>3, <1>5, <1>6, <2>1
<1>7. CASE NoSlot(f) /\ Go(t, "idle", "undefined") /\ UNCHANGED <<m_catalogue, m_files, streams>>
  <2>1. Moves(t) /\ pc'[t] = "undefined"
    BY <1>1, <1>2, <1>7, Goes DEF Places
  <2>2. Here(t)' /\ ~InRw(t)'
    <3>1. deleted' \/ Cardinality(asked') > m_maxnum
      <4>1. CASE deleted
        BY <1>1, <4>1
      <4>2. CASE ~deleted
        <5>1. m_filenum = m_maxnum /\ f \notin Known
          BY <1>7, <4>2 DEF NoSlot, exist, Known
        <5>2. /\ asked \subseteq Files /\ IsFiniteSet(asked) /\ Known \subseteq asked
              /\ Cardinality(Known) = m_maxnum /\ m_maxnum \in Nat
          BY <1>1, <5>1, FileAssumption DEF Tables
        <5>3. IsFiniteSet(Known)
          BY <5>2, FS_Subset
        <5>4. Cardinality(Known \union {f}) = m_maxnum + 1
          BY <5>1, <5>2, <5>3, FS_AddElement
        <5>5. IsFiniteSet(asked') /\ Known \union {f} \subseteq asked'
          BY <1>1, <5>2, AskedFacts
        <5>6. Cardinality(Known \union {f}) <= Cardinality(asked') /\ Cardinality(asked') \in Nat
          BY <5>5, FS_Subset, FS_CardinalityType
        <5>7. QED
          BY <5>2, <5>4, <5>6
      <4>3. QED
        BY <4>1, <4>2
    <3>2. QED
      BY <2>1, <3>1 DEF Here, InRw
  <2>3. QED
    BY <1>1, <1>5, <1>7, <2>1, <2>2, Finish
<1>8. QED
  BY <1>4, <1>6, <1>7 DEF add_file

LEMMA OpenFileStep ==
  ASSUME FileInv, NEW t \in Threads, NEW f \in Files, NEW access \in Access, open_file(t, f, access)
  PROVE  FileInv'
<1>1. Typed /\ f \in Known /\ Call(t, f) /\ f \in AnyFile
  BY DEF FileInv, Whereabouts, open_file, Known, AnyFile
<1>2. Data(t) /\ pc[t] = "idle"
  BY <1>1, CallData
<1>3. CASE Crash(t, "idle")
  BY <1>2, <1>3, CrashStep
<1>4. CASE OpenSlot(t, m_catalogue[f], access) /\ UNCHANGED pc
  <2>1. Effect(t)
    BY <1>1, <1>4, OpenTouch, TouchEffect
  <2>2. Moves(t) /\ pc'[t] = "idle"
    BY <1>1, <1>2, <1>4, <2>1, Remains DEF Effect
  <2>3. m_filestream' = m_filestream
    BY <1>4 DEF OpenSlot
  <2>4. QED
    BY <2>1, <2>2, <2>3, FinishIdle
<1>5. QED
  BY <1>3, <1>4 DEF open_file

(* close_file() of a file of the table, with what is sure after it.        *)
LEMMA CloseEffect ==
  ASSUME FileInv, NEW t \in Threads, NEW f \in Known, CloseSlot(t, m_catalogue[f])
  PROVE  /\ Effect(t) /\ Known' = Known /\ m_filestream' = m_filestream
         /\ SaidOpen(f)' = SaidOpen(f) /\ disk' = disk /\ disturbed'[t] = disturbed[t]
         /\ SaidOpen(f) => ~StreamOf(f)'.open
         /\ NoSurprise(f) => NoSurprise(f)'
<1>1. m_files[m_catalogue[f]].name = f
  BY SlotFacts DEF FileInv
<1>2. /\ m_filestream' = m_filestream /\ disk' = disk /\ existing' = existing
      /\ m_catalogue' = m_catalogue /\ m_files' = m_files /\ asked' = asked /\ deleted' = deleted
      /\ UNCHANGED <<tables, contents>>
  BY DEF CloseSlot, tables, contents
<1>3. SaidOpen(f)' = SaidOpen(f)
  BY <1>2 DEF SaidOpen
<1>4. CASE SaidOpen(f)
  <2>1. Close(m_catalogue[f]) /\ Use(t, f)
    BY <1>1, <1>4 DEF CloseSlot, SaidOpen
  <2>2. Touch(t, f, StreamOf(f)', disk[f], SaidOpen(f)) /\ ~StreamOf(f)'.open
    BY <1>2, <2>1, CloseTouch
  <2>3. Effect(t) /\ Known' = Known /\ disturbed'[t] = disturbed[t]
    BY <2>2, TouchEffect
  <2>4. QED
    BY <1>2, <1>3, <2>2, <2>3 DEF NoSurprise
<1>5. CASE ~SaidOpen(f)
  <2>1. streams' = streams /\ disturbed' = disturbed
    BY <1>5 DEF CloseSlot, SaidOpen
  <2>2. disturbed \in [Threads -> BOOLEAN]
    BY DEF FileInv, Whereabouts, Typed
  <2>3. Effect(t) /\ Known' = Known
    BY <1>2, <2>1, <2>2, QuietEffect
  <2>4. StreamOf(f)' = StreamOf(f)
    BY <1>2, <2>1 DEF StreamOf
  <2>5. QED
    BY <1>2, <1>3, <1>5, <2>1, <2>3, <2>4 DEF NoSurprise
<1>6. QED
  BY <1>4, <1>5

LEMMA CloseFileStep ==
  ASSUME FileInv, NEW t \in Threads, NEW f \in Files, close_file(t, f)
  PROVE  FileInv'
<1>1. Typed /\ f \in Known /\ Call(t, f) /\ f \in AnyFile
  BY DEF FileInv, Whereabouts, close_file, Known, AnyFile
<1>2. Data(t) /\ pc[t] = "idle"
  BY <1>1, CallData
<1>3. CASE Crash(t, "idle")
  BY <1>2, <1>3, CrashStep
<1>4. CASE CloseSlot(t, m_catalogue[f]) /\ UNCHANGED pc
  <2>1. Effect(t) /\ m_filestream' = m_filestream
    BY <1>1, <1>4, CloseEffect
  <2>2. Moves(t) /\ pc'[t] = "idle"
    BY <1>1, <1>2, <1>4, <2>1, Remains DEF Effect
  <2>3. QED
    BY <2>1, <2>2, FinishIdle
<1>5. QED
  BY <1>3, <1>4 DEF close_file

LEMMA DeleteStep ==
  ASSUME FileInv, NEW t \in Threads, delete_file(t)
  PROVE  FileInv'
<1>1. Typed /\ disturbed \in [Threads -> BOOLEAN]
  BY DEF FileInv, Whereabouts, Typed
<1>2. /\ deleted' = TRUE /\ Call(t, file[t]) /\ m_filestream' = m_filestream /\ pc' = pc
      /\ asked' = asked /\ disturbed' = disturbed
      /\ UNCHANGED <<m_catalogue, m_files, streams, existing, disk>>
  BY DEF delete_file, contents
<1>3. PICK f \in AnyFile : f = file[t]
  BY <1>1 DEF Typed, AnyFile
<1>4. Data(t) /\ pc[t] = "idle"
  BY <1>1, <1>2, <1>3, CallData
<1>5. Effect(t)
  BY <1>1, <1>2, QuietEffect
<1>6. Moves(t) /\ pc'[t] = "idle"
  BY <1>1, <1>2, <1>4, Remains
<1>7. QED
  BY <1>2, <1>5, <1>6, FinishIdle

LEMMA AppenderStep ==
  ASSUME FileInv, NEW t \in Threads, AppenderOpen(t)
  PROVE  FileInv'
<1>1. Typed /\ Here(t)
  BY DEF FileInv, Whereabouts
<1>2. Data(t) /\ file' = file
  BY <1>1, NoData DEF AppenderOpen
<1>3. CASE Crash(t, "appender")
  BY <1>2, <1>3, CrashStep
<1>4. CASE Go(t, "appender", "stream") /\ OpenSlot(t, Slot(t), "r")
  <2>1. pc[t] = "appender"
    BY <1>4 DEF Go
  <2>2. PICK f \in Known : f = file[t]
    BY <1>1, <2>1 DEF Here
  <2>3. OpenSlot(t, m_catalogue[f], "r") /\ "r" \in Access
    BY <1>4, <2>2 DEF Slot, Access
  <2>4. Touch(t, f, StreamOf(f)', disk'[f], SaidOpen(f)') /\ NoSurprise(f)'
    BY <2>3, OpenTouch
  <2>5. Effect(t) /\ Known' = Known
    BY <2>4, TouchEffect
  <2>6. Moves(t) /\ pc'[t] = "stream"
    BY <1>1, <1>2, <1>4, <2>5, Goes DEF Effect, Places
  <2>7. file'[t] = f /\ m_filestream' = m_filestream
    BY <1>2, <2>2, <2>3 DEF OpenSlot
  <2>8. Here(t)' /\ ~InRw(t)'
    BY <2>4, <2>5, <2>6, <2>7 DEF Here, InRw
  <2>9. QED
    BY <2>5, <2>6, <2>7, <2>8, Finish
<1>5. QED
  BY <1>3, <1>4 DEF AppenderOpen

LEMMA StreamStep ==
  ASSUME FileInv, NEW t \in Threads, get_stream(t)
  PROVE  FileInv'
<1>1. Typed /\ Here(t) /\ disturbed \in [Threads -> BOOLEAN]
  BY DEF FileInv, Whereabouts, Typed
<1>2. Data(t) /\ file' = file
  BY <1>1, NoData DEF get_stream
<1>3. CASE Crash(t, "stream")
  BY <1>2, <1>3, CrashStep
<1>4. CASE /\ ~deleted /\ Go(t, "stream", "idle")
           /\ m_filestream' = m_filestream \union {file[t]}
           /\ UNCHANGED <<tables, streams, contents, disturbed>>
  <2>1. pc[t] = "stream" /\ disturbed' = disturbed
    BY <1>4 DEF Go
  <2>2. file[t] \in Known /\ NoSurprise(file[t])
    BY <1>1, <2>1 DEF Here
  <2>3. Effect(t) /\ Known' = Known
    BY <1>1, <1>4, <2>1, QuietEffect DEF tables, contents
  <2>4. Moves(t) /\ pc'[t] = "idle"
    BY <1>1, <1>2, <1>4, <2>1, Goes DEF Places
  <2>5. Here(t)' /\ ~InRw(t)'
    BY <2>4 DEF Here, InRw
  <2>6. \A f \in Known : NoSurprise(f) => NoSurprise(f)'
    BY <2>3 DEF Effect, Kept
  <2>7. m_filestream \subseteq Known /\ \A f \in m_filestream : NoSurprise(f)
    BY DEF FileInv, Whereabouts
  <2>8. \A f \in m_filestream' : f \in Known /\ NoSurprise(f)
    BY <1>4, <2>2, <2>7
  <2>9. m_filestream' \subseteq Known' /\ \A f \in m_filestream' : NoSurprise(f)'
    BY <2>3, <2>6, <2>8
  <2>10. QED
    BY <2>3, <2>4, <2>5, <2>9, Step
<1>5. QED
  BY <1>3, <1>4 DEF get_stream

LEMMA LineFacts ==
  ASSUME NEW t \in Threads, NEW n \in 1..MaxCalls[t]
  PROVE  <<t, n>> \in Lines
<1>1. <<t, n>> \in {t} \X (1..MaxCalls[t])
  OBVIOUS
<1>2. QED
  BY <1>1 DEF Lines

LEMMA LogStep ==
  ASSUME FileInv, NEW t \in Threads, NEW f \in Files, log(t, f)
  PROVE  FileInv'
<1>1. /\ Typed /\ f \in Known /\ Call(t, f) /\ f \in AnyFile /\ NoSurprise(f)
      /\ Use(t, f) /\ UNCHANGED tables /\ m_filestream' = m_filestream /\ pc' = pc
  BY DEF FileInv, Whereabouts, log, AnyFile
<1>2. Data(t) /\ pc[t] = "idle" /\ calls'[t] \in 1..MaxCalls[t]
  BY <1>1, CallData
<1>3. PICK line \in Lines : line = <<t, calls'[t]>>
  BY <1>2, LineFacts
<1>4. Put(m_catalogue[f], line, FALSE)
  BY <1>3 DEF log, LineOf
<1>5. Touch(t, f, StreamOf(f)', disk'[f], SaidOpen(f))
  BY <1>1, <1>4, PutTouch
<1>6. Effect(t)
  BY <1>5, TouchEffect
<1>7. Moves(t) /\ pc'[t] = "idle"
  BY <1>1, <1>2, <1>6, Remains DEF Effect
<1>8. QED
  BY <1>1, <1>6, <1>7, FinishIdle

-----------------------------------------------------------------------------
(* rw_file(), call by call.                                                *)

LEMMA RwStep ==
  ASSUME FileInv, NEW t \in Threads, NEW f \in Files, NEW what \in {"read", "write"},
         NEW string \in {<<>>, <<old>>}, rw_file(t, f, what, string)
  PROVE  FileInv'
<1>1. /\ Typed /\ f \in Known /\ Begin(t, f) /\ f \in AnyFile
      /\ type' = [type EXCEPT ![t] = what] /\ buffer' = [buffer EXCEPT ![t] = string]
      /\ given' = [given EXCEPT ![t] = string]
  BY DEF FileInv, Whereabouts, rw_file, Known, AnyFile
<1>2. /\ pc[t] = "idle" /\ file'[t] = f /\ calls'[t] \in 1..MaxCalls[t]
      /\ file' \in [Threads -> AnyFile] /\ calls' \in [Threads -> Nat]
      /\ \A u \in Threads \ {t} : file'[u] = file[u] /\ calls'[u] = calls[u]
  BY <1>1, BeginData
<1>3. /\ type' \in [Threads -> {"read", "write"}]
      /\ buffer' \in [Threads -> Seq(Said)] /\ given' \in [Threads -> Seq(Said)]
      /\ buffer'[t] = given'[t]
      /\ \A u \in Threads \ {t} :
           type'[u] = type[u] /\ buffer'[u] = buffer[u] /\ given'[u] = given[u]
  <2>1. string \in Seq(Said)
    <3>1. old \in Said
      BY DEF Said, Lines
    <3>2. <<>> \in Seq(Said) /\ <<old>> \in Seq(Said)
      BY <3>1
    <3>3. QED
      BY <3>2
  <2>2. QED
    BY <1>1, <2>1 DEF Typed
<1>4. Data(t)
  BY <1>2, <1>3 DEF Data
<1>5. CASE Crash(t, "idle")
  BY <1>4, <1>5, CrashStep
<1>6. CASE ~Crash(t, "idle")
  <2> DEFINE to == IF NeedsClosing(f) THEN "close" ELSE "open"
  <2>1. /\ Go(t, "idle", to) /\ UNCHANGED <<tables, streams, contents>>
        /\ m_filestream' = m_filestream
        /\ disturbed' = [disturbed EXCEPT ![t] = \E u \in Threads \ {t} : InRw(u) /\ file[u] = f]
    BY <1>6 DEF rw_file
  <2>2. disturbed' \in [Threads -> BOOLEAN] /\ \A u \in Threads \ {t} : disturbed'[u] = disturbed[u]
    BY <1>1, <2>1 DEF Typed
  <2>3. Effect(t) /\ Known' = Known
    BY <2>1, <2>2, QuietEffect DEF tables, contents
  <2>4. to \in {"close", "open"} /\ (NeedsClosing(f) <=> SaidOpen(f))
    BY DEF NeedsClosing, SaidOpen
  <2>5. to = "close" => SaidOpen(f)
    BY <2>4
  <2>6. to = "open" => ~SaidOpen(f)
    BY <2>4
  <2> HIDE DEF to
  <2>7. Moves(t) /\ pc'[t] = to
    BY <1>1, <1>4, <2>1, <2>2, <2>4, Goes DEF Places
  <2>8. Here(t)'
    BY <1>1, <1>2, <2>3, <2>4, <2>7 DEF Here
  <2>9. SaidOpen(f)' = SaidOpen(f)
    BY <2>1 DEF SaidOpen, tables
  <2>10. SoFar(t)'
    <3>1. buffer'[t] = given'[t] /\ pc'[t] \in {"close", "open"} /\ file'[t] = f
      BY <1>2, <1>3, <2>4, <2>7
    <3>2. pc'[t] = "close" => SaidOpen(f)'
      BY <2>5, <2>7, <2>9
    <3>3. pc'[t] = "open" => ~SaidOpen(f)'
      BY <2>6, <2>7, <2>9
    <3>4. QED
      BY <3>1, <3>2, <3>3 DEF SoFar, SaidOpen
  <2>11. QED
    BY <2>1, <2>3, <2>7, <2>8, <2>10, Finish
<1>7. QED
  BY <1>5, <1>6

LEMMA CloseBeforeStep ==
  ASSUME FileInv, NEW t \in Threads, CloseBefore(t), UNCHANGED threads
  PROVE  FileInv'
<1>1. Typed /\ Here(t)
  BY DEF FileInv, Whereabouts
<1>2. Data(t) /\ file' = file /\ calls' = calls /\ buffer' = buffer /\ given' = given
  BY <1>1, NoData
<1>3. CASE Crash(t, "close")
  BY <1>2, <1>3, CrashStep
<1>4. CASE Go(t, "close", "open") /\ CloseSlot(t, Slot(t))
  <2>1. pc[t] = "close" /\ InRw(t)
    BY <1>4 DEF Go, InRw
  <2>2. PICK f \in Known : f = file[t]
    BY <1>1, <2>1 DEF Here
  <2>3. CloseSlot(t, m_catalogue[f])
    BY <1>4, <2>2 DEF Slot
  <2>4. /\ Effect(t) /\ Known' = Known /\ m_filestream' = m_filestream
        /\ SaidOpen(f)' = SaidOpen(f) /\ disturbed'[t] = disturbed[t]
        /\ SaidOpen(f) => ~StreamOf(f)'.open
    BY <2>3, CloseEffect
  <2>5. Moves(t) /\ pc'[t] = "open" /\ file'[t] = f
    BY <1>1, <1>2, <1>4, <2>2, <2>4, Goes DEF Effect, Places
  <2>6. Here(t)'
    BY <1>1, <1>2, <2>1, <2>4, <2>5 DEF Here
  <2>7. ASSUME ~disturbed'[t] PROVE SoFar(t)'
    <3>1. SoFar(t)
      BY <2>1, <2>4, <2>7 DEF FileInv, Undisturbed
    <3>2. buffer[t] = given[t] /\ SaidOpen(f)
      BY <2>1, <2>2, <3>1 DEF SoFar
    <3>3. buffer'[t] = given'[t] /\ ~StreamOf(f)'.open
      BY <1>2, <2>4, <3>2
    <3>4. QED
      BY <2>5, <3>3 DEF SoFar, StreamOf
  <2>8. QED
    BY <2>4, <2>5, <2>6, <2>7, Finish
<1>5. QED
  BY <1>3, <1>4 DEF CloseBefore

LEMMA OpenForBothStep ==
  ASSUME FileInv, NEW t \in Threads, OpenForBoth(t), UNCHANGED threads
  PROVE  FileInv'
<1>1. Typed /\ Here(t)
  BY DEF FileInv, Whereabouts
<1>2. Data(t) /\ file' = file /\ calls' = calls /\ buffer' = buffer /\ given' = given
  BY <1>1, NoData
<1>3. CASE Crash(t, "open")
  BY <1>2, <1>3, CrashStep
<1>4. CASE Go(t, "open", "check") /\ OpenSlot(t, Slot(t), "rw")
  <2>1. pc[t] = "open" /\ InRw(t)
    BY <1>4 DEF Go, InRw
  <2>2. PICK f \in Known : f = file[t]
    BY <1>1, <2>1 DEF Here
  <2>3. OpenSlot(t, m_catalogue[f], "rw") /\ "rw" \in Access
    BY <1>4, <2>2 DEF Slot, Access
  <2>4. /\ Touch(t, f, StreamOf(f)', disk'[f], SaidOpen(f)') /\ NoSurprise(f)'
        /\ StreamOf(f)' = IF ~StreamOf(f).open /\ f \in existing THEN Opened("rw")
                          ELSE Failed(StreamOf(f))
    BY <2>3, OpenTouch
  <2>5. Effect(t) /\ Known' = Known /\ disturbed'[t] = disturbed[t]
    BY <2>4, TouchEffect
  <2>6. Moves(t) /\ pc'[t] = "check" /\ file'[t] = f /\ m_filestream' = m_filestream
    BY <1>1, <1>2, <1>4, <2>2, <2>3, <2>5, Goes DEF Effect, Places, OpenSlot
  <2>7. Here(t)'
    BY <1>1, <1>2, <2>1, <2>4, <2>5, <2>6 DEF Here
  <2>8. ASSUME ~disturbed'[t] PROVE SoFar(t)'
    <3>1. SoFar(t)
      BY <2>1, <2>5, <2>8 DEF FileInv, Undisturbed
    <3>2. buffer[t] = given[t] /\ (~StreamOf(f).open \/ ~SaidOpen(f))
      BY <2>1, <2>2, <3>1 DEF SoFar
    <3>3. /\ StreamOf(f) \in Stream
          /\ StreamOf(f).open /\ ~SaidOpen(f) => StreamOf(f) = Opened("rw")
      BY StreamFacts
    <3>4. StreamOf(f)'.open =>
            StreamOf(f)'.mode = "rw" /\ StreamOf(f)'.pos = 0 /\ StreamOf(f)'.state # "eof"
      <4>1. CASE ~StreamOf(f).open /\ f \in existing
        BY <2>4, <4>1 DEF Opened
      <4>2. CASE StreamOf(f).open
        BY <2>4, <3>2, <3>3, <4>2 DEF Opened, Failed
      <4>3. CASE ~StreamOf(f).open /\ f \notin existing
        BY <2>4, <3>3, <4>3 DEF Failed, Stream
      <4>4. QED
        BY <4>1, <4>2, <4>3
    <3>5. QED
      BY <1>2, <2>6, <3>2, <3>4 DEF SoFar, StreamOf
  <2>9. QED
    BY <2>5, <2>6, <2>7, <2>8, Finish
<1>5. QED
  BY <1>3, <1>4 DEF OpenForBoth

LEMMA IsOpenStep ==
  ASSUME FileInv, NEW t \in Threads, IsOpen(t)
  PROVE  FileInv'
<1>1. Typed /\ Here(t) /\ disturbed \in [Threads -> BOOLEAN]
  BY DEF FileInv, Whereabouts, Typed
<1>2. /\ UNCHANGED <<tables, streams, contents>>
      /\ m_filestream' = m_filestream /\ disturbed' = disturbed
  BY DEF IsOpen, Quiet
<1>3. pc[t] = "check" /\ InRw(t)
  BY DEF IsOpen, Go, InRw
<1>4. PICK f \in Known : f = file[t]
  BY <1>1, <1>3 DEF Here
<1>5. Effect(t) /\ Known' = Known
  BY <1>1, <1>2, QuietEffect DEF tables, contents
<1>6. StreamOf(f)' = StreamOf(f) /\ SaidOpen(f)' = SaidOpen(f)
  BY <1>2 DEF StreamOf, SaidOpen, tables
<1>7. CASE Go(t, "check", "idle") /\ Leave(t)
  <2>1. Moves(t) /\ pc'[t] = "idle"
    BY <1>1, <1>2, <1>7, LeaveData, Goes DEF Places
  <2>2. QED
    BY <1>2, <1>5, <2>1, FinishIdle
<1>8. CASE Go(t, "check", "transfer") /\ streams[Slot(t)].open /\ UNCHANGED threads
  <2>1. /\ Data(t) /\ file' = file /\ calls' = calls /\ type' = type
        /\ buffer' = buffer /\ given' = given
    BY <1>1, <1>8, NoData
  <2>2. Moves(t) /\ pc'[t] = "transfer" /\ file'[t] = f
    BY <1>1, <1>2, <1>4, <1>8, <2>1, Goes DEF Places
  <2>3. StreamOf(f).open
    BY <1>4, <1>8 DEF Slot, StreamOf
  <2>4. SaidOpen(f)
    BY <1>1, <1>3, <1>4, <2>3 DEF Here, NoSurprise
  <2>5. calls'[t] \in 1..MaxCalls[t]
    BY <1>1, <1>3, <2>1 DEF Here
  <2>6. Here(t)'
    BY <1>5, <1>6, <2>2, <2>4, <2>5 DEF Here, SaidOpen
  <2>7. ASSUME ~disturbed'[t] PROVE SoFar(t)'
    <3>1. SoFar(t)
      BY <1>2, <1>3, <2>7 DEF FileInv, Undisturbed
    <3>2. /\ buffer[t] = given[t] /\ StreamOf(f).mode = "rw"
          /\ StreamOf(f).pos = 0 /\ StreamOf(f).state # "eof"
      BY <1>3, <1>4, <2>3, <3>1 DEF SoFar
    <3>3. given[t] \in Seq(Said)
      BY <1>1 DEF Typed
    <3>4. Got(t, 0)'
      BY <2>1, <3>2, <3>3 DEF Got
    <3>5. /\ StreamOf(file[t])'.open /\ StreamOf(file[t])'.mode = "rw"
          /\ StreamOf(file[t])'.pos = 0 /\ StreamOf(file[t])'.state # "eof"
      BY <1>4, <1>6, <2>1, <2>2, <2>3, <3>2 DEF StreamOf
    <3>6. Got(t, StreamOf(file[t]).pos)'
      BY <3>4, <3>5 DEF Got
    <3>7. QED
      BY <2>2, <3>5, <3>6 DEF SoFar
  <2>8. QED
    BY <1>2, <1>5, <2>2, <2>6, <2>7, Finish
<1>9. QED
  BY <1>7, <1>8 DEF IsOpen

(* A place among the first p + 1 lines read is the last of them or lies   *)
(* before it, in a buffer that holds what the caller gave and p lines     *)
LEMMA LineBefore ==
  ASSUME NEW p \in Nat, NEW g \in Nat, NEW b, b = g + p, NEW i \in 1..(p + 1)
  PROVE  /\ i = p + 1 => g + i = b + 1
         /\ i # p + 1 => i \in 1..p /\ g + i \in 1..b
  OBVIOUS

(* What the caller gave are the first places of that buffer *)
LEMMA GivenBefore ==
  ASSUME NEW p \in Nat, NEW g \in Nat, NEW b, b = g + p
  PROVE  \A i \in 1..g : i \in 1..b
  OBVIOUS

(* A line more of the file, or, if there is none, the empty one behind     *)
(* them.                                                                   *)
LEMMA ReadStep ==
  ASSUME FileInv, NEW t \in Threads, pc[t] = "transfer", Getline(t),
         UNCHANGED <<file, type, calls, given>>
  PROVE  FileInv'
<1> DEFINE rest == Rest(m_catalogue[file[t]])
           pos == StreamOf(file[t]).pos
           size == Len(disk[file[t]])
           line == IF rest = <<>> THEN blank ELSE Head(rest)
           new == IF rest = <<>> THEN "eof" ELSE "good"
           next == IF rest = <<>> THEN pos ELSE pos + 1
<1>1. Typed /\ Here(t) /\ InRw(t)
  BY DEF FileInv, Whereabouts, InRw
<1>2. PICK f \in Known : f = file[t]
  BY <1>1 DEF Here
<1>3. SaidOpen(f) /\ NoSurprise(f)
  BY <1>1, <1>2 DEF Here, NoSurprise
<1>4. /\ StreamOf(f) \in Stream /\ pos \in Nat /\ pos <= size /\ disk[f] \in Seq(Lines)
      /\ size \in Nat
  BY <1>2, StreamFacts DEF Stream
<1>5. /\ rest # <<>> => pos + 1 \in 1..size /\ Head(rest) = disk[f][pos + 1]
      /\ StreamOf(f).open /\ StreamOf(f).mode = "rw" /\ rest = <<>> => pos = size
  BY <1>2, RestFacts
<1>6. /\ line \in Said /\ new \in {"good", "eof"} /\ next \in 0..Len(disk[f])
  BY <1>2, <1>4, <1>5 DEF Said
<1>7. /\ type[t] = "read" /\ StreamOf(f).state = "good" /\ Use(t, f)
      /\ pc' = pc /\ m_filestream' = m_filestream /\ UNCHANGED <<tables, contents>>
      /\ disk' = disk
  BY <1>2 DEF Getline, Slot, StreamOf, contents
<1>8. /\ buffer' = [buffer EXCEPT ![t] = Append(buffer[t], line)]
      /\ streams' = [streams EXCEPT ![m_catalogue[f]] = Moved(StreamOf(f), new, next)]
  <2>1. /\ [StreamOf(f) EXCEPT !.pos = pos + 1] = Moved(StreamOf(f), "good", pos + 1)
        /\ [StreamOf(f) EXCEPT !.state = "eof"] = Moved(StreamOf(f), "eof", pos)
    BY <1>2, <1>4, <1>7 DEF Moved, Stream
  <2>2. CASE rest # <<>>
    BY <1>2, <2>1, <2>2 DEF Getline, Slot, StreamOf
  <2>3. CASE rest = <<>>
    BY <1>2, <2>1, <2>3 DEF Getline, Slot, StreamOf
  <2>4. QED
    BY <2>2, <2>3
<1> HIDE DEF line, new, next
<1>9. /\ Touch(t, f, StreamOf(f)', disk[f], SaidOpen(f))
      /\ StreamOf(f)'.state = new /\ StreamOf(f)'.mode = StreamOf(f).mode
      /\ StreamOf(f)'.pos = next
      /\ StreamOf(f)'.open <=> StreamOf(f).open
  BY <1>3, <1>6, <1>7, <1>8, ReadTouch
<1>10. Effect(t) /\ Known' = Known /\ SaidOpen(f)' = SaidOpen(f) /\ disturbed'[t] = disturbed[t]
  BY <1>9, TouchEffect
<1>11. buffer[t] \in Seq(Said) /\ given[t] \in Seq(Said)
  BY <1>1 DEF Typed
<1>12. /\ buffer'[t] = Append(buffer[t], line) /\ buffer'[t] \in Seq(Said)
       /\ Len(buffer'[t]) = Len(buffer[t]) + 1
       /\ \A i \in 1..Len(buffer[t]) : buffer'[t][i] = buffer[t][i]
       /\ buffer'[t][Len(buffer[t]) + 1] = line
  <2>1. buffer'[t] = Append(buffer[t], line)
    BY <1>1, <1>8 DEF Typed
  <2>2. QED
    BY <1>6, <1>11, <2>1, AppendProperties
<1>13. Data(t) /\ file'[t] = f /\ type'[t] = "read" /\ calls'[t] = calls[t]
  <2>1. buffer' \in [Threads -> Seq(Said)] /\ \A u \in Threads \ {t} : buffer'[u] = buffer[u]
    BY <1>1, <1>8, <1>12 DEF Typed
  <2>2. QED
    BY <1>1, <1>2, <1>7, <2>1 DEF Data, Typed, AnyFile
<1>14. Moves(t) /\ pc'[t] = "transfer"
  BY <1>1, <1>7, <1>10, <1>13, Remains DEF Effect
<1>15. Here(t)'
  BY <1>1, <1>3, <1>10, <1>13, <1>14 DEF Here, InRw, SaidOpen
<1>16. ASSUME ~disturbed'[t] PROVE SoFar(t)'
  <2>1. SoFar(t)
    BY <1>1, <1>10, <1>16 DEF FileInv, Undisturbed
  <2>2. StreamOf(f).open /\ StreamOf(f).mode = "rw" /\ Got(t, pos)
    BY <1>2, <1>7, <2>1 DEF SoFar
  <2>3. /\ StreamOf(file[t])'.open /\ StreamOf(file[t])'.mode = "rw"
        /\ StreamOf(file[t])'.state = new /\ StreamOf(file[t])'.pos = next
    BY <1>2, <1>9, <2>2 DEF StreamOf
  <2>4. Len(given[t]) \in Nat /\ Len(buffer[t]) = Len(given[t]) + pos
    BY <1>11, <2>2 DEF Got
  <2>5. CASE rest # <<>>
    <3>1. new = "good" /\ next = pos + 1 /\ line = disk[f][pos + 1]
      BY <1>5, <2>5 DEF new, next, line
    <3>2. \A i \in 1..Len(given[t]) : buffer'[t][i] = given[t][i]
      <4>1. \A i \in 1..Len(given[t]) : i \in 1..Len(buffer[t])
        BY <1>4, <2>4, GivenBefore
      <4>2. QED
        BY <1>12, <2>2, <4>1 DEF Got
    <3>3. \A i \in 1..(pos + 1) : buffer'[t][Len(given[t]) + i] = disk[f][i]
      <4>1. ASSUME NEW i \in 1..(pos + 1)
            PROVE  buffer'[t][Len(given[t]) + i] = disk[f][i]
        <5>1. CASE i = pos + 1
          <6>1. Len(given[t]) + i = Len(buffer[t]) + 1
            BY <1>4, <2>4, <5>1, LineBefore
          <6>2. QED
            BY <1>12, <3>1, <5>1, <6>1
        <5>2. CASE i # pos + 1
          <6>1. i \in 1..pos /\ Len(given[t]) + i \in 1..Len(buffer[t])
            BY <1>4, <2>4, <5>2, LineBefore
          <6>2. QED
            BY <1>2, <1>12, <2>2, <6>1 DEF Got
        <5>3. QED
          BY <5>1, <5>2
      <4>2. QED
        BY <4>1
    <3>4. Len(buffer'[t]) = Len(given[t]) + (pos + 1)
      BY <1>4, <1>12, <2>4
    <3>5. StreamOf(file[t])'.pos = pos + 1 /\ given' = given
      BY <2>3, <3>1
    <3> HIDE DEF pos
    <3>6. Got(t, StreamOf(file[t]).pos)'
      BY <1>7, <1>13, <3>2, <3>3, <3>4, <3>5 DEF Got
    <3>7. QED
      BY <1>13, <1>14, <2>3, <3>1, <3>6 DEF SoFar
  <2>6. CASE rest = <<>>
    <3>1. new = "eof" /\ line = blank /\ pos = size
      BY <1>2, <1>5, <2>2, <2>6 DEF new, line
    <3>2. buffer[t] = given[t] \o disk[f]
      <4>1. disk[f] \in Seq(Said)
        BY <1>4 DEF Said
      <4>2. /\ given[t] \o disk[f] \in Seq(Said)
            /\ Len(given[t] \o disk[f]) = Len(given[t]) + Len(disk[f])
            /\ \A i \in 1..(Len(given[t]) + Len(disk[f])) : (given[t] \o disk[f])[i] =
                  IF i <= Len(given[t]) THEN given[t][i] ELSE disk[f][i - Len(given[t])]
        BY <1>11, <4>1, ConcatProperties
      <4>3. Len(buffer[t]) = Len(given[t] \o disk[f])
        BY <1>2, <2>4, <3>1, <4>2
      <4>4. ASSUME NEW i \in 1..Len(buffer[t])
            PROVE  buffer[t][i] = (given[t] \o disk[f])[i]
        <5>1. CASE i <= Len(given[t])
          <6>1. i \in 1..Len(given[t]) /\ i \in 1..(Len(given[t]) + Len(disk[f]))
            <7> DEFINE n == Len(given[t])
                       m == Len(disk[f])
                       b == Len(buffer[t])
            <7>1. n \in Nat /\ m \in Nat /\ b = n + m /\ i \in 1..b /\ i <= n
              BY <1>2, <1>4, <2>4, <4>2, <4>3, <5>1
            <7> HIDE DEF n, m, b
            <7>2. i \in 1..n /\ i \in 1..(n + m)
              BY <7>1
            <7>3. QED
              BY <7>2 DEF n, m
          <6>2. QED
            BY <2>2, <4>2, <5>1, <6>1 DEF Got
        <5>2. CASE ~(i <= Len(given[t]))
          <6>1. i - Len(given[t]) \in 1..pos /\ Len(given[t]) + (i - Len(given[t])) = i
            BY <1>4, <2>4, <5>2
          <6>2. buffer[t][i] = disk[f][i - Len(given[t])]
            BY <1>2, <2>2, <6>1 DEF Got
          <6>3. QED
            BY <2>4, <4>2, <4>3, <5>2, <6>2
        <5>3. QED
          BY <5>1, <5>2
      <4>5. QED
        BY <1>11, <4>2, <4>3, <4>4, SeqEqual
    <3>3. Done(t)'
      BY <1>2, <1>7, <1>12, <1>13, <3>1, <3>2 DEF Done
    <3>4. QED
      BY <1>13, <1>14, <2>3, <3>1, <3>3 DEF SoFar
  <2>7. QED
    BY <2>5, <2>6
<1>17. QED
  BY <1>7, <1>10, <1>14, <1>15, <1>16, Finish

LEMMA AtEndStep ==
  ASSUME FileInv, NEW t \in Threads, pc[t] = "transfer", AtEnd(t), UNCHANGED <<file, type, calls, given>>
  PROVE  FileInv'
<1>1. Typed /\ Here(t) /\ InRw(t) /\ disturbed \in [Threads -> BOOLEAN]
  BY DEF FileInv, Whereabouts, InRw, Typed
<1>2. PICK f \in Known : f = file[t]
  BY <1>1 DEF Here
<1>3. /\ Go(t, "transfer", "closing") /\ buffer' = buffer /\ StreamOf(f).state = "eof"
      /\ UNCHANGED <<tables, streams, contents>>
      /\ m_filestream' = m_filestream /\ disturbed' = disturbed /\ disk' = disk
      /\ m_catalogue' = m_catalogue /\ m_files' = m_files
  BY <1>2 DEF AtEnd, Quiet, Slot, StreamOf, contents, tables
<1>4. Data(t) /\ file' = file /\ type' = type /\ calls' = calls /\ given' = given
  BY <1>1, <1>3, NoData DEF threads
<1>5. Effect(t) /\ Known' = Known
  BY <1>1, <1>3, QuietEffect DEF tables, contents
<1>6. Moves(t) /\ pc'[t] = "closing"
  BY <1>1, <1>3, <1>4, Goes DEF Places
<1>7. SaidOpen(f) /\ SaidOpen(f)' = SaidOpen(f)
  BY <1>1, <1>2, <1>3 DEF Here, SaidOpen
<1>8. Here(t)'
  BY <1>1, <1>2, <1>4, <1>5, <1>6, <1>7 DEF Here, InRw, SaidOpen
<1>9. ASSUME ~disturbed'[t] PROVE SoFar(t)'
  <2>1. SoFar(t)
    BY <1>1, <1>3, <1>9 DEF FileInv, Undisturbed
  <2>2. Done(t)
    BY <1>2, <1>3, <2>1 DEF SoFar
  <2>3. Done(t)'
    BY <1>3, <1>4, <2>2 DEF Done, LineOf
  <2>4. QED
    BY <1>6, <2>3 DEF SoFar
<1>10. QED
  BY <1>3, <1>5, <1>6, <1>8, <1>9, Finish

(* What is written at the beginning is the first line, whether the file    *)
(* had one or not.                                                         *)
LEMMA WriteStep ==
  ASSUME FileInv, NEW t \in Threads, pc[t] = "transfer", WriteBuffer(t),
         UNCHANGED <<file, type, calls, given>>
  PROVE  FileInv'
<1>1. Typed /\ Here(t) /\ InRw(t)
  BY DEF FileInv, Whereabouts, InRw
<1>2. PICK f \in Known : f = file[t]
  BY <1>1 DEF Here
<1>3. SaidOpen(f) /\ NoSurprise(f)
  BY <1>1, <1>2 DEF Here, NoSurprise
<1>4. PICK line \in Lines : line = <<t, calls[t]>>
  BY <1>1, LineFacts DEF Here
<1>5. /\ type[t] = "write" /\ Go(t, "transfer", "closing")
      /\ Put(m_catalogue[f], line, TRUE) /\ Use(t, f) /\ UNCHANGED tables
      /\ m_filestream' = m_filestream /\ buffer' = buffer
  BY <1>2, <1>4 DEF WriteBuffer, Slot, LineOf
<1>6. /\ Touch(t, f, StreamOf(f)', disk'[f], SaidOpen(f))
      /\ StreamOf(f).open /\ StreamOf(f).mode = "rw" =>
           disk'[f] = Overwritten(disk[f], StreamOf(f).pos, line)
  BY <1>3, <1>5, PutTouch
<1>7. Effect(t) /\ Known' = Known /\ SaidOpen(f)' = SaidOpen(f) /\ disturbed'[t] = disturbed[t]
  BY <1>6, TouchEffect
<1>8. Data(t) /\ file' = file /\ type' = type /\ calls' = calls
  BY <1>1, <1>5, NoData DEF threads
<1>9. Moves(t) /\ pc'[t] = "closing"
  BY <1>1, <1>5, <1>7, <1>8, Goes DEF Effect, Places
<1>10. Here(t)'
  BY <1>1, <1>2, <1>3, <1>7, <1>8, <1>9 DEF Here, InRw, SaidOpen
<1>11. ASSUME ~disturbed'[t] PROVE SoFar(t)'
  <2>1. SoFar(t)
    BY <1>1, <1>7, <1>11 DEF FileInv, Undisturbed
  <2>2. StreamOf(f).open /\ StreamOf(f).mode = "rw" /\ StreamOf(f).pos = 0
    BY <1>2, <1>5, <2>1 DEF SoFar
  <2>3. disk[f] \in Seq(Lines) /\ disk'[f] = Overwritten(disk[f], 0, line)
    BY <1>6, <2>2, StreamFacts
  <2>4. disk'[f] # <<>> /\ Head(disk'[f]) = line
    <3>1. CASE 0 < Len(disk[f])
      <4>1. disk'[f] = [disk[f] EXCEPT ![1] = line] /\ 1 \in 1..Len(disk[f])
        BY <2>3, <3>1 DEF Overwritten
      <4>2. disk'[f] \in Seq(Lines) /\ Len(disk'[f]) = Len(disk[f]) /\ disk'[f][1] = line
        BY <2>3, <4>1, ExceptSeq
      <4>3. QED
        BY <3>1, <4>2
    <3>2. CASE ~(0 < Len(disk[f]))
      <4>1. disk'[f] = Append(disk[f], line) /\ Len(disk[f]) = 0
        BY <2>3, <3>2 DEF Overwritten
      <4>2. disk'[f] \in Seq(Lines) /\ Len(disk'[f]) = 1 /\ disk'[f][1] = line
        <5>1. line \in Lines /\ disk[f] \in Seq(Lines)
          BY <2>3
        <5>2. /\ Append(disk[f], line) \in Seq(Lines)
              /\ Len(Append(disk[f], line)) = Len(disk[f]) + 1
              /\ Append(disk[f], line)[Len(disk[f]) + 1] = line
          BY <5>1, AppendProperties
        <5>3. QED
          BY <4>1, <5>2
      <4>3. QED
        BY <4>2
    <3>3. QED
      BY <3>1, <3>2
  <2>5. Done(t)'
    BY <1>2, <1>4, <1>5, <1>8, <2>4 DEF Done, LineOf
  <2>6. QED
    BY <1>9, <2>5 DEF SoFar
<1>12. QED
  BY <1>5, <1>7, <1>9, <1>10, <1>11, Finish

LEMMA CloseAfterStep ==
  ASSUME FileInv, NEW t \in Threads, CloseAfter(t), UNCHANGED threads
  PROVE  FileInv'
<1>1. Typed /\ Here(t)
  BY DEF FileInv, Whereabouts
<1>2. Data(t) /\ file' = file /\ calls' = calls /\ buffer' = buffer /\ type' = type /\ given' = given
  BY <1>1, NoData
<1>3. pc[t] = "closing" /\ InRw(t) /\ Go(t, "closing", "return")
  BY DEF CloseAfter, Go, InRw
<1>4. PICK f \in Known : f = file[t]
  BY <1>1, <1>3 DEF Here
<1>5. /\ Close(m_catalogue[f]) /\ Use(t, f) /\ UNCHANGED <<tables, contents>>
      /\ m_filestream' = m_filestream /\ disk' = disk
  BY <1>4 DEF CloseAfter, Slot, contents
<1>6. Touch(t, f, StreamOf(f)', disk[f], SaidOpen(f))
  BY <1>5, CloseTouch
<1>7. Effect(t) /\ Known' = Known /\ SaidOpen(f)' = SaidOpen(f) /\ disturbed'[t] = disturbed[t]
  BY <1>6, TouchEffect
<1>8. Moves(t) /\ pc'[t] = "return"
  BY <1>1, <1>2, <1>3, <1>7, Goes DEF Effect, Places
<1>9. SaidOpen(f)
  BY <1>1, <1>3, <1>4 DEF Here
<1>10. Here(t)'
  BY <1>1, <1>2, <1>3, <1>4, <1>7, <1>8, <1>9 DEF Here, InRw, SaidOpen
<1>11. ASSUME ~disturbed'[t] PROVE SoFar(t)'
  <2>1. SoFar(t)
    BY <1>3, <1>7, <1>11 DEF FileInv, Undisturbed
  <2>2. Done(t)
    BY <1>3, <2>1 DEF SoFar
  <2>3. Done(t)'
    BY <1>2, <1>5, <2>2 DEF Done, LineOf
  <2>4. QED
    BY <1>8, <2>3 DEF SoFar
<1>12. QED
  BY <1>5, <1>7, <1>8, <1>10, <1>11, Finish

LEMMA ReturnStep ==
  ASSUME FileInv, NEW t \in Threads, Return(t)
  PROVE  FileInv'
<1>1. Typed /\ Here(t)
  BY DEF FileInv, Whereabouts
<1>2. CASE Crash(t, "return") /\ UNCHANGED threads
  BY <1>1, <1>2, NoData, CrashStep
<1>3. CASE Go(t, "return", "idle") /\ CloseSlot(t, Slot(t)) /\ Leave(t)
  <2>1. pc[t] = "return"
    BY <1>3 DEF Go
  <2>2. PICK f \in Known : f = file[t]
    BY <1>1, <2>1 DEF Here
  <2>3. CloseSlot(t, m_catalogue[f])
    BY <1>3, <2>2 DEF Slot
  <2>4. Effect(t) /\ m_filestream' = m_filestream
    BY <2>3, CloseEffect
  <2>5. Moves(t) /\ pc'[t] = "idle"
    BY <1>1, <1>3, <2>4, LeaveData, Goes DEF Effect, Places
  <2>6. QED
    BY <2>4, <2>5, FinishIdle
<1>4. QED
  BY <1>2, <1>3 DEF Return

LEMMA FileInvStep == FileInv /\ [Next]_vars => FileInv'
<1> SUFFICES ASSUME FileInv, [Next]_vars PROVE FileInv'
  OBVIOUS
<1>1. CASE UNCHANGED vars
  <2>1. /\ m_catalogue' = m_catalogue /\ m_files' = m_files /\ deleted' = deleted /\ asked' = asked
        /\ existing' = existing /\ disk' = disk /\ streams' = streams
        /\ m_filestream' = m_filestream /\ pc' = pc /\ file' = file /\ type' = type
        /\ calls' = calls /\ buffer' = buffer /\ given' = given /\ disturbed' = disturbed
    BY <1>1 DEF vars, tables, contents, threads
  <2>2. Known' = Known
    BY <2>1 DEF Known
  <2>3. Tables' /\ Streams'
    BY <2>1, <2>2 DEF FileInv, Tables, Streams, m_filenum
  <2>4. \A f : StreamOf(f)' = StreamOf(f) /\ SaidOpen(f)' = SaidOpen(f)
               /\ (NoSurprise(f)' <=> NoSurprise(f))
    BY <2>1 DEF StreamOf, SaidOpen, NoSurprise
  <2>5. ASSUME NEW t \in Threads
        PROVE  (Here(t)' <=> Here(t)) /\ (InRw(t)' <=> InRw(t)) /\ (SoFar(t)' <=> SoFar(t))
    <3>1. InRw(t)' <=> InRw(t)
      BY <2>1 DEF InRw
    <3>2. Here(t)' <=> Here(t)
      BY <2>1, <2>2, <3>1 DEF Here, NoSurprise, StreamOf, SaidOpen
    <3>3. Done(t)' <=> Done(t)
      BY <2>1 DEF Done, LineOf
    <3>4. Got(t, StreamOf(file[t]).pos)' <=> Got(t, StreamOf(file[t]).pos)
      BY <2>1 DEF Got, StreamOf
    <3>5. SoFar(t)' <=> SoFar(t)
      BY <2>1, <3>3, <3>4 DEF SoFar, StreamOf, SaidOpen
    <3>6. QED
      BY <3>1, <3>2, <3>5
  <2>6. Typed' <=> Typed
    BY <2>1 DEF Typed
  <2>7. Whereabouts'
    BY <2>1, <2>2, <2>4, <2>5, <2>6 DEF FileInv, Whereabouts
  <2>8. Undisturbed'
    BY <2>1, <2>5 DEF FileInv, Undisturbed
  <2>9. QED
    BY <2>3, <2>7, <2>8 DEF FileInv
<1>2. ASSUME NEW t \in Threads, Calls(t) PROVE FileInv'
  BY <1>2, AddFileStep, CloseFileStep, LogStep, OpenFileStep, RwStep DEF Calls
<1>3. ASSUME NEW t \in Threads, delete_file(t) \/ AppenderOpen(t) \/ get_stream(t)
      PROVE  FileInv'
  BY <1>3, DeleteStep, AppenderStep, StreamStep
<1>4. ASSUME NEW t \in Threads, InFile(t) PROVE FileInv'
  <2>1. CASE Transfer(t) /\ UNCHANGED <<file, type, calls, given>>
    BY <2>1, ReadStep, AtEndStep, WriteStep DEF Transfer
  <2>2. CASE \/ IsOpen(t) \/ Return(t)
             \/ (CloseBefore(t) \/ OpenForBoth(t) \/ CloseAfter(t)) /\ UNCHANGED threads
    BY <2>2, CloseBeforeStep, OpenForBothStep, IsOpenStep, CloseAfterStep, ReturnStep
  <2>3. QED
    BY <1>4, <2>1, <2>2 DEF InFile
<1>5. QED
  BY <1>1, <1>2, <1>3, <1>4 DEF Next

-----------------------------------------------------------------------------
(* The theorems.                                                           *)

LEMMA TypeFollows == FileInv => TypeOK
<1> SUFFICES ASSUME FileInv PROVE TypeOK
  OBVIOUS
<1>1. Tables /\ Streams /\ Whereabouts
  BY DEF FileInv
<1>2. /\ m_files \in Seq([name : Files, opened : BOOLEAN]) /\ m_filenum <= m_maxnum
      /\ m_filenum \in Nat /\ m_maxnum \in Nat
  BY <1>1, FileAssumption DEF Tables, m_filenum
<1>3. m_catalogue \in [Files -> 0..m_maxnum]
  BY <1>1, <1>2 DEF Tables
<1>4. streams \in Seq(Stream) /\ DOMAIN streams = 1..m_filenum
  BY <1>1 DEF Streams
<1>5. ASSUME NEW k \in 1..m_filenum
      PROVE  /\ streams[k].mode \in Access \ {"e"} /\ streams[k].state \in {"good", "fail", "eof"}
             /\ streams[k].pos <= Len(disk[m_files[k].name])
             /\ streams[k].open => m_files[k].name \in existing
  <2>1. streams[k] \in Stream
    BY <1>1, <1>4, ElementOfSeq DEF Streams
  <2>2. QED
    BY <1>1, <2>1 DEF Stream, Streams, Access
<1>6. m_filestream \subseteq {f \in Files : m_catalogue[f] # 0}
  BY <1>1 DEF Whereabouts, Known
<1>7. \A t \in Threads : InRw(t) => Slot(t) # 0
  <2>1. SUFFICES ASSUME NEW t \in Threads, InRw(t) PROVE Slot(t) # 0
    OBVIOUS
  <2>2. pc[t] \notin {"idle", "undefined"} /\ Here(t)
    BY <1>1, <2>1 DEF Whereabouts, InRw
  <2>3. QED
    BY <2>2 DEF Here, Known, Slot
<1>8. QED
  BY <1>1, <1>2, <1>3, <1>4, <1>5, <1>6, <1>7 DEF TypeOK, Streams

(* add_file() (file.cpp:36) gives a file one slot, however many threads    *)
(* ask for it, and its table runs over only if more files are asked for    *)
(* than it holds: what is in the table is asked for, each file once.       *)
THEOREM FilesHaveOneSlot == Spec => []OneSlotPerFile
<1>1. FileInv => OneSlotPerFile
  <2> SUFFICES ASSUME FileInv PROVE OneSlotPerFile
    OBVIOUS
  <2>1. Tables /\ Whereabouts /\ TypeOK
    BY TypeFollows DEF FileInv
  <2>2. DOMAIN m_files = 1..m_filenum
    BY <2>1 DEF Tables, m_filenum
  <2>3. \A k \in DOMAIN m_files : m_catalogue[m_files[k].name] = k
    BY <2>1, <2>2 DEF Tables
  <2>4. \A t \in Threads : pc[t] = "undefined" => deleted \/ Cardinality(asked) > m_maxnum
    BY <2>1 DEF Whereabouts, Here
  <2>5. QED
    BY <2>1, <2>3, <2>4 DEF OneSlotPerFile
<1>2. QED
  BY <1>1, FileInvInit, FileInvStep, PTL DEF Spec

(* rw_file() (file.cpp:104-133) writes from the beginning of the file, or  *)
(* appends all the lines of the file and an empty one to the string it is  *)
(* given, whatever state its stream was left in, unless another thread     *)
(* uses the stream meanwhile.                                              *)
THEOREM RwFileIsWhole == Spec => []RwIsWhole
<1>1. FileInv => RwIsWhole
  <2> SUFFICES ASSUME FileInv, NEW t \in Threads, pc[t] = "return", ~disturbed[t] PROVE Done(t)
    BY DEF RwIsWhole, Done
  <2>1. InRw(t)
    BY DEF InRw
  <2>2. SoFar(t)
    BY <2>1 DEF FileInv, Undisturbed
  <2>3. QED
    BY <2>2 DEF SoFar
<1>2. QED
  BY <1>1, FileInvInit, FileInvStep, PTL DEF Spec

=============================================================================
