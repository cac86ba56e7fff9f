----------------------------- MODULE EventReader -----------------------------
(* The events of an answer on their way from the generator through the      *)
(* server to the browser: two streams of bytes that arrive in pieces of any *)
(* size.  Event i is written as the two halves 2i-1 and 2i of a line and an *)
(* empty line; the server splits at empty lines, the browser at lines.      *)
EXTENDS Splitter

CONSTANT MaxSent   \* bound: events of one answer

ASSUME EventReaderAssumption == MaxSent \in Nat

VARIABLES
  up,       \* bytes from the generator that the server has not yet read
  upEnd,    \* "open", "closed"; for the server "read" or "lost"
  serverBuffer,
  down,     \* bytes from the server that the browser has not yet read
  buffer,   \* of the browser
  relayed,  \* history: the events the server handed on
  got,      \* the events the browser handled
  written   \* history: how many events were written with both halves

streamVars == <<up, upEnd, serverBuffer, down, buffer, relayed, got, written>>

Blank == <<Newline, Newline>>
Text(i) == <<2 * i - 1, 2 * i>> \o Blank
Sent(n) == FlattenSeq([i \in 1 .. n |-> Text(i)])

\* The whole answer is written or a part of it, the empty line at its end or not.
StreamInit ==
  /\ \E n \in 0 .. MaxSent : \E cut \in 0 .. Len(Sent(n)) :
       up = SubSeq(Sent(n), 1, cut) /\ written = (cut + 2) \div 4
  /\ upEnd \in {"open", "closed"}
  /\ serverBuffer = <<>> /\ down = <<>> /\ buffer = <<>> /\ relayed = <<>> /\ got = <<>>

\* A line with half an event cannot be parsed and is passed over.
EventsOf(lines) ==
  FlattenSeq([k \in DOMAIN lines |->
    IF Len(lines[k]) = 2 /\ lines[k][1] % 2 = 1 /\ lines[k][2] = lines[k][1] + 1
    THEN <<lines[k][2] \div 2>> ELSE <<>>])

\* parseSseBlock: the first event of a block.
EventOfBlock(block) ==
  LET events == EventsOf(Pieces(block, <<Newline>>)) IN
  IF events = <<>> THEN <<>> ELSE <<events[1]>>

Relay(events) ==
  /\ relayed' = relayed \o events
  /\ down' = down \o FlattenSeq([k \in DOMAIN events |-> Text(events[k])])

\* Mutant of Rest: what follows the last separator is dropped.
RestNothing(pieces) == <<>>

\* The rest without its end stays in the buffer.
Rest(pieces) == Last(pieces)

\* upstreamStream: a piece arrives.
ServerReads ==
  /\ upEnd \in {"open", "closed"}
  /\ \E n \in 1 .. Len(up) :
       LET blocks == Pieces(serverBuffer \o SubSeq(up, 1, n), Blank) IN
       /\ up' = SubSeq(up, n + 1, Len(up))
       /\ serverBuffer' = Rest(blocks)
       /\ Relay(FlattenSeq([k \in 1 .. Len(blocks) - 1 |-> EventOfBlock(blocks[k])]))
  /\ UNCHANGED <<upEnd, buffer, got, written>>

\* The end of the stream: what is left may be an event without an empty line.
ServerEnds ==
  /\ upEnd = "closed" /\ up = <<>>
  /\ Relay(EventOfBlock(serverBuffer))
  /\ upEnd' = "read" /\ serverBuffer' = <<>>
  /\ UNCHANGED <<up, buffer, got, written>>

\* The connection breaks, or the generator dies: what is left is not handed on.
ServerLoses ==
  /\ upEnd = "open"
  /\ upEnd' = "lost" /\ up' = <<>> /\ serverBuffer' = <<>>
  /\ UNCHANGED <<down, buffer, relayed, got, written>>

\* streamAnswer: a piece arrives; every line in it is handled.  At the end of
\* the stream the buffer is dropped.
BrowserReads ==
  /\ \E n \in 1 .. Len(down) :
       LET lines == Pieces(buffer \o SubSeq(down, 1, n), <<Newline>>) IN
       /\ down' = SubSeq(down, n + 1, Len(down))
       /\ buffer' = Rest(lines)
       /\ got' = got \o EventsOf(Front(lines))
  /\ UNCHANGED <<up, upEnd, serverBuffer, relayed, written>>

StreamNext == ServerReads \/ ServerEnds \/ ServerLoses \/ BrowserReads

\* The browser handles the events in the order they were written, each once,
\* however the bytes are cut on the two ways; all of them when both streams
\* have come to their ends, the last one even without its empty line
\* ("delta 增量按序回调，跨 chunk 断行正确拼接").
StreamWhole ==
  /\ IsPrefix(got, relayed) /\ relayed = [k \in DOMAIN relayed |-> k]
  /\ down = <<>> => got = relayed
  /\ upEnd = "read" => Len(relayed) = written
=============================================================================
