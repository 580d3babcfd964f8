------------------------------ MODULE EventStream ------------------------------
(***************************************************************************)
(* How a stream of server sent events is cut into events: common/pkg/sse,  *)
(* a bufio.Scanner with a split function of its own, as the engine uses it *)
(* for the runtime's answer (engine/internal/processor/processor.go        *)
(* 559-586) and the server's handlers for the engine's.                    *)
(*                                                                         *)
(* The bytes arrive in chunks of any size and the buffer has a limit.  A   *)
(* byte is a carriage return, a newline or something else.                 *)
(***************************************************************************)
EXTENDS Naturals, SequencesExt

CONSTANTS BufferSize, MaxStreamLength   \* bound: the bytes of a stream

ASSUME EventStreamAssumption == BufferSize \in Nat \ {0} /\ MaxStreamLength \in Nat

VARIABLES
  toRead,     \* what has not arrived yet
  written,    \* history: the whole stream
  data,       \* the scanner's buffer
  events,     \* the events it has returned
  scan        \* reading, ended, tooLong

eventVars == <<toRead, written, data, events, scan>>

R == "carriage return"
N == "newline"
X == "x"
ByteStreams == UNION {[1..n -> {R, N, X}] : n \in 0..MaxStreamLength}

EventTypeOK ==
  /\ written \in ByteStreams /\ IsSuffix(toRead, written)
  /\ Len(data) <= BufferSize
  /\ scan \in {"reading", "ended", "tooLong"}

EventInit ==
  /\ written \in ByteStreams /\ toRead = written
  /\ data = <<>> /\ events = <<>> /\ scan = "reading"
-----------------------------------------------------------------------------
Delims == <<<<R, R>>, <<N, N>>, <<R, N, R, N>>, <<N, N, N, N>>>>

\* bytes.Index, from 1; 0 if there is none.
Index(s, d) ==
  LET at == {i \in 1..(Len(s) - Len(d) + 1) : SubSeq(s, i, i + Len(d) - 1) = d}
  IN IF at = {} THEN 0 ELSE CHOOSE i \in at : \A j \in at : i <= j

\* A bug: of two delimiters that begin together the last one is taken.
EarlierOrEqual(s, d, e) == Index(s, e) # 0 /\ (Index(s, d) = 0 \/ Index(s, e) <= Index(s, d))

\* split's choice: the delimiter that begins first, of two that begin together
\* the one that is listed first.
Earlier(s, d, e) == Index(s, e) # 0 /\ (Index(s, d) = 0 \/ Index(s, e) < Index(s, d))
FirstDelim(s) == FoldLeft(LAMBDA d, e : IF Earlier(s, d, e) THEN e ELSE d, Delims[1], Delims)
HasEvent(s) == Index(s, FirstDelim(s)) # 0

\* The next event, up to its delimiter.
SplitEvent ==
  /\ scan = "reading" /\ HasEvent(data)
  /\ LET pos == Index(data, FirstDelim(data)) IN
     /\ events' = Append(events, SubSeq(data, 1, pos - 1))
     /\ data' = SubSeq(data, pos + Len(FirstDelim(data)), Len(data))
  /\ UNCHANGED <<toRead, written, scan>>

\* A bug: the buffer has no limit.
ReadAnyChunk ==
  /\ scan = "reading" /\ ~HasEvent(data)
  /\ \E n \in 1..Len(toRead) :
       /\ data' = data \o SubSeq(toRead, 1, n)
       /\ toRead' = SubSeq(toRead, n + 1, Len(toRead))
  /\ UNCHANGED <<written, events, scan>>

\* The next chunk; there has to be room for it.
ReadChunk ==
  /\ scan = "reading" /\ ~HasEvent(data) /\ Len(data) < BufferSize
  /\ \E n \in 1..Len(toRead) :
       /\ Len(data) + n <= BufferSize
       /\ data' = data \o SubSeq(toRead, 1, n)
       /\ toRead' = SubSeq(toRead, n + 1, Len(toRead))
  /\ UNCHANGED <<written, events, scan>>

\* bufio.ErrTooLong, also when it is the last event and fills the buffer.
EventTooLong ==
  /\ scan = "reading" /\ ~HasEvent(data) /\ Len(data) = BufferSize
  /\ scan' = "tooLong"
  /\ UNCHANGED <<toRead, written, data, events>>

\* What is left at the end of the stream is an event, too.
StreamEnds ==
  /\ scan = "reading" /\ ~HasEvent(data) /\ toRead = <<>> /\ Len(data) < BufferSize
  /\ scan' = "ended" /\ data' = <<>>
  /\ events' = IF data = <<>> THEN events ELSE Append(events, data)
  /\ UNCHANGED <<toRead, written>>

EventNext == SplitEvent \/ ReadChunk \/ EventTooLong \/ StreamEnds

EventSpec == EventInit /\ [][EventNext]_eventVars
-----------------------------------------------------------------------------
(***************************************************************************)
(* The reference: a byte is read at a time, and an event ends with the     *)
(* byte that completes a blank line.                                       *)
(***************************************************************************)
Blank(s) == \E d \in {<<R, R>>, <<N, N>>, <<R, N, R, N>>} : IsSuffix(d, s)
BlankLength(s) == IF IsSuffix(<<R, N, R, N>>, s) THEN 4 ELSE 2

ByteByByte(s) ==
  LET last == FoldLeft(LAMBDA acc, b :
                LET line == Append(acc.line, b) IN
                IF Blank(line)
                  THEN [done |-> Append(acc.done, SubSeq(line, 1, Len(line) - BlankLength(line))),
                        line |-> <<>>]
                  ELSE [done |-> acc.done, line |-> line],
                [done |-> <<>>, line |-> <<>>], s)
  IN IF last.line = <<>> THEN last.done ELSE Append(last.done, last.line)

(***************************************************************************)
(* However the network cuts the stream into chunks, the events are those   *)
(* of the stream; only one that does not fit into the buffer with its      *)
(* delimiter ends the scan early (scanner.go 28-60).                       *)
(***************************************************************************)
EventsOfAnyChunking ==
  LET all == ByteByByte(written) IN
  /\ scan \in {"reading", "tooLong"} => IsPrefix(events, all)
  /\ scan = "ended" => events = all
  /\ scan = "tooLong" => Len(all[Len(events) + 1]) + 4 > BufferSize

===============================================================================
