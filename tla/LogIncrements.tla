---------------------------- MODULE LogIncrements ----------------------------
(***************************************************************************)
(* packs/devices/setupapi.py and packs/servicing/logs.py: a log that       *)
(* another program writes is read in increments of bounded size, each      *)
(* parsed by itself, so that a cut may fall anywhere.  The caller, which   *)
(* goes on from next_offset, is external: the parsers are not wired to a   *)
(* probe yet.                                                              *)
(*                                                                         *)
(* A line is two cells of text.  The pattern of a device-install header    *)
(* spans both; the word "error" and a "!!!" are each in one of them or     *)
(* span both, and a "!!!" has nothing but blanks before it in its first.   *)
(***************************************************************************)
EXTENDS Naturals, Sequences, FiniteSets

CONSTANTS
  MaxLines,   \* bound on the lines of the log
  MaxCells,   \* bound on max_bytes
  MaxErrors   \* errors kept of a section (32), or of an increment (128)

ASSUME LogIncrementsAssumption == MaxLines \in Nat /\ MaxCells \in Nat /\ MaxErrors \in Nat

VARIABLES
  format,       \* which log it is
  log,          \* its lines, as they will all have been written
  next_offset,  \* where the next increment starts
  entries,      \* what was reported: an error line and the header of its entry
  increments    \* history: the cells of each increment

logVars == <<format, log, next_offset, entries, increments>>

\* A header opens the section of a "device", or of an "unnamed" one, whose text
\* is blank or longer than SetupApiEntry takes.  A line that opens an "other"
\* section does not match _SECTION_START: the parser takes it for text.
Line == [opens : {"device", "unnamed", "other"}, word : {{}}, bang : {{}}]
          \cup [opens : {"none"}, word : SUBSET {1, 2}, bang : SUBSET {1, 2}]

IsHeader(i) == log[i].opens \in {"device", "unnamed"}

NoHeader == 0

LogInit ==
  /\ format \in {"setupapi", "servicing"}
  /\ log \in UNION {[1..n -> Line] : n \in 0..MaxLines}
  /\ format = "servicing" => \A i \in DOMAIN log : log[i].opens = "none"
  /\ format = "setupapi" => \A i \in DOMAIN log : log[i].word = {}
  /\ next_offset = 0
  /\ entries = {}
  /\ increments = {}

\* The cells of a line that an increment holds.
Cell(i, c) == 2 * (i - 1) + c
Fragment(i, chunk) == {c \in {1, 2} : Cell(i, c) \in chunk}

MatchesHeader(i, chunk) == IsHeader(i) /\ Fragment(i, chunk) = {1, 2}

\* What is left of a line in the increment starts with "!!!", if only because
\* it is cut before one.
Leads(i, chunk) ==
  LET part == Fragment(i, chunk)
  IN  /\ log[i].bang # {}
      /\ log[i].bang \subseteq part
      /\ \A c \in part : \E m \in log[i].bang : m <= c

\* Both parsers ask for that; the one of the servicing logs looks for "error"
\* anywhere in the line first.
LooksLikeError(i, chunk) ==
  \/ Leads(i, chunk)
  \/ /\ format = "servicing"
     /\ log[i].word # {}
     /\ log[i].word \subseteq Fragment(i, chunk)

\* The first n of some lines.
FirstLines(lines, n) == {i \in lines : Cardinality({j \in lines : j < i}) < n}

HeadersIn(chunk) == {h \in DOMAIN log : MatchesHeader(h, chunk)}
ErrorsIn(chunk) == {i \in DOMAIN log : LooksLikeError(i, chunk)}

\* Mutant: what precedes the first header of an increment is put under it.
ErrorsUnderLoose(h, chunk) ==
  {i \in ErrorsIn(chunk) : ~ \E g \in HeadersIn(chunk) : h < g /\ g < i}

\* The errors between a header and the next one; what precedes the first
\* header of the increment has no device to go under and is skipped.
ErrorsUnder(h, chunk) ==
  {i \in ErrorsIn(chunk) : h < i /\ ~ \E g \in HeadersIn(chunk) : h < g /\ g < i}

\* Mutant: the entry under way when the increment ends is not appended.
UnfinishedForgotten(chunk) ==
  UNION {{[line |-> i, header |-> h] : i \in FirstLines(ErrorsUnder(h, chunk), MaxErrors)}
         : h \in {h \in HeadersIn(chunk) : \E g \in HeadersIn(chunk) : h < g}}

SetupApiIncrement(chunk) ==
  UNION {{[line |-> i, header |-> h] : i \in FirstLines(ErrorsUnder(h, chunk), MaxErrors)}
         : h \in HeadersIn(chunk)}

ServicingLogIncrement(chunk) ==
  {[line |-> i, header |-> NoHeader] : i \in FirstLines(ErrorsIn(chunk), MaxErrors)}

\* SetupApiEntry rejects the device: an exception leaves the parser, and what
\* it found in the rest of the increment is lost with it.
Raises(chunk) == format = "setupapi" /\ \E h \in HeadersIn(chunk) : log[h].opens = "unnamed"

Parsed(chunk) ==
  IF format = "setupapi" THEN SetupApiIncrement(chunk) ELSE ServicingLogIncrement(chunk)

\* The log has been written up to some cell, and max_bytes are asked for.  A
\* caller that gets an exception has no new offset to go on from.
ReadIncrement ==
  \E written \in next_offset..(2 * Len(log)), max_bytes \in 1..MaxCells :
    \E end_offset \in {IF next_offset + max_bytes < written THEN next_offset + max_bytes
                       ELSE written} :
      \E chunk \in {(next_offset + 1)..end_offset} :
        /\ \/ /\ ~ Raises(chunk)
              /\ next_offset' = end_offset
              /\ entries' = entries \cup Parsed(chunk)
           \/ /\ Raises(chunk)
              /\ UNCHANGED <<next_offset, entries>>
        /\ increments' = increments \cup {chunk}
        /\ UNCHANGED <<format, log>>

LogNext == ReadIncrement

LogSpec == LogInit /\ [][LogNext]_logVars

-----------------------------------------------------------------------------
IsError(i) == 1 \in log[i].bang \/ log[i].word # {}

\* The last device-install header before a line, if there is one.
Heading(i) ==
  {h \in 1..(i - 1) : IsHeader(h) /\ \A g \in (h + 1)..(i - 1) : ~ IsHeader(g)}

\* A cut has brought a "!!!" of the line to the front.
CutBeforeBang(i) ==
  2 \in log[i].bang /\ \E chunk \in increments : Fragment(i, chunk) = {2}

\* Wherever the cuts fall, what is reported of the setup log are errors, each
\* under the last device-install header before it: the end of a line that
\* looks like an error starts an increment and so has no device, and no header
\* is passed over or taken from another increment.  A section of another kind
\* ends no device's: its errors go to the device before it (setupapi.py:9,
\* 37-57).  In a servicing log a cut can make an error of a line with a "!!!"
\* in it, and nothing else is reported that is none (logs.py:26-30).
AttributedToItsSection ==
  \A e \in entries :
    \/ format = "setupapi" /\ IsError(e.line) /\ Heading(e.line) = {e.header}
    \/ format = "servicing" /\ (IsError(e.line) \/ CutBeforeBang(e.line))

\* The increment holds what marks the error and, in the setup log, all of the
\* lines from its device's header on.
Carries(chunk, i) ==
  /\ \/ 1 \in log[i].bang /\ {Cell(i, c) : c \in log[i].bang} \subseteq chunk
     \/ log[i].word # {} /\ {Cell(i, c) : c \in log[i].word} \subseteq chunk
  /\ format = "setupapi" => \E h \in Heading(i) : Cell(h, 1)..Cell(i, 1) \subseteq chunk

\* The lines before it that look like errors there, under the same device.
Competing(i, chunk) ==
  {j \in 1..(i - 1) : LooksLikeError(j, chunk) /\ Heading(j) = Heading(i)}

\* An error that stands in an increment, with its device's lines so far, is
\* reported, unless as many lines as are kept came before it there (the cut
\* lines that only look like errors among them), or the increment also holds
\* a device whose name is rejected.  Otherwise only a cut loses an error, and
\* nothing goes back for that: truncated says that more follows, not that an
\* entry was cut (setupapi.py:24-70, logs.py:14-35).
LostForAReason ==
  \A chunk \in increments, i \in DOMAIN log :
    Carries(chunk, i) =>
      \/ \E e \in entries : e.line = i
      \/ MaxErrors <= Cardinality(Competing(i, chunk))
      \/ \E h \in DOMAIN log : /\ log[h].opens = "unnamed"
                               /\ {Cell(h, 1), Cell(h, 2)} \subseteq chunk

=============================================================================
