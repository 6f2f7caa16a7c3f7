------------------------------- MODULE Logger -------------------------------
(***************************************************************************)
(* The root logger as a whole: its format is explained when it is made     *)
(* (system_logger::system_logger, logger::set_format), before anything is  *)
(* logged, and every line of LogEvents.tla is then written by the items    *)
(* LogFormat.tla has made, one after the other (logger_format::log).       *)
(***************************************************************************)
EXTENDS LogEvents

CONSTANTS
  Patterns, Letters, Known,   (* as in LogFormat                           *)
  content_item,               (* the command whose item writes the message *)
  LogsWith                    (* bound: the patterns that are logged with  *)

ASSUME LoggerAssumption ==
  /\ content_item \in Known /\ Known \subseteq Letters /\ LogsWith \subseteq Patterns
  /\ {"%", "(", ")", "error"} \intersect Letters = {}
  /\ \A p \in Patterns : p \in Seq(ToSet(p))

VARIABLES m_pattern, parser, i, j, unlegal, temp_str, effect_str, match, begin, m_items

Format == INSTANCE LogFormat WITH pc <- parser

format == <<m_pattern, parser, i, j, unlegal, temp_str, effect_str, match, begin, m_items>>

allvars == <<vars, format>>

LoggerInit == Init /\ Format!Init

Explain == Format!Next /\ UNCHANGED vars

Log ==
  /\ parser = "done" /\ m_pattern \in LogsWith
  /\ Next
  /\ UNCHANGED format

LoggerNext == Explain \/ Log

LoggerSpec == LoggerInit /\ [][LoggerNext]_allvars /\ WF_allvars(Explain)

(* What an item writes of an event: the message as it is by then, or a     *)
(* member set when the event was made.  (The items for errors, tabs and    *)
(* ends of line write the same for every event.)                           *)
Field(item, line) == IF item = content_item THEN line.text ELSE <<item, line.event>>

Written(line) == [k \in DOMAIN m_items |-> Field(m_items[k], line)]

-----------------------------------------------------------------------------
(* Properties                                                              *)

(* However broken the pattern, explain() makes its items from left to      *)
(* right and none of them twice; and a pattern of groups with a separator  *)
(* between them, as the loggers are built with (logger.h:268, 274), is     *)
(* read to its end: every letter has become its item, in its place.        *)
ItemsInOrder == Format!InOrder /\ Format!EverythingRead

(* explain() ends, or has run out of the string (logger.cpp:473-540).      *)
Terminates == Format!Terminates

(* A line has, for each command of a plain pattern and in their order, the *)
(* field of one and the same statement, and for the message that of this   *)
(* statement and nothing else: the stream is that of "the current event",  *)
(* which the next statement replaces (logger.h:34-38, 54, 163-174).        *)
LinesAsWritten ==
  Format!Plain(m_pattern) =>
    \A n \in DOMAIN output :
      \E place \in [DOMAIN m_items -> Format!LetterPlaces] :
        /\ Format!LetterByLetter(place)
        /\ \A k \in DOMAIN m_items :
             LET item == Format!Item(m_pattern[place[k]]) IN
             Written(output[n])[k] =
               IF item = content_item THEN <<output[n].event>> ELSE <<item, output[n].event>>

=============================================================================
