----------------------------- MODULE AnswerWire -----------------------------
(***************************************************************************)
(* The connection between the chat service (NestJS, ChatStream) and the    *)
(* answer generator (Python, AnswerCache): the request of POST             *)
(* /internal/chat and the server-sent events of its response.  The         *)
(* generator writes ahead; the service reads one event after the other.    *)
(***************************************************************************)
EXTENDS Integers, Sequences, FiniteSets

CONSTANTS
  Calls,      \* calls of POST /chat/completions, each made at most once
  Limit,      \* bound: how often each kind of event may happen
  MaxEvents   \* bound: how many of these events may happen in all

Happenings == {"leave", "rename", "remove", "month", "error", "crash", "change", "lost"}

ASSUME BoundsOK == Limit \in [Happenings -> Nat] /\ MaxEvents \in Nat

VARIABLES
  wire,  \* wire[q]: the response of call q, events written but not yet read
  used   \* used[e]: how often event e has happened

\* references: a list that is not empty, with its sources.
\* What ends a stream: an answer of the model, a replay from the cache, the
\* canned reply when nothing was found, an error.
Endings == {"done", "cached", "fallback", "error"}
SseEvents == {"references", "delta"} \cup Endings

\* single: the request carries no history; files: it carries attachments.
NoWire == [state |-> "none", single |-> FALSE, files |-> FALSE, body |-> <<>>]
Wires == [state: {"none", "open", "closed", "broken", "aborted"}, single: BOOLEAN,
          files: BOOLEAN, body: Seq(SseEvents)]

WireType == wire \in [Calls -> Wires] /\ used \in [Happenings -> Nat]
WireInit ==
  /\ wire = [q \in Calls |-> NoWire]
  /\ used = [e \in Happenings |-> 0]

Happens(e) ==
  /\ used[e] < Limit[e]
  /\ used["leave"] + used["rename"] + used["remove"] + used["month"] + used["error"]
       + used["crash"] + used["change"] + used["lost"] < MaxEvents
  /\ used' = [used EXCEPT ![e] = @ + 1]

Connect(q, single, files) ==
  wire' = [wire EXCEPT ![q] =
             [state |-> "open", single |-> single, files |-> files, body |-> <<>>]]

\* Events for a reader that has gone are dropped.
Write(q, events) ==
  wire' = IF wire[q].state = "open" THEN [wire EXCEPT ![q].body = @ \o events] ELSE wire

WriteLast(q, events) ==
  wire' = IF wire[q].state = "open"
          THEN [wire EXCEPT ![q].body = @ \o events, ![q].state = "closed"] ELSE wire

Next1(q) == Head(wire[q].body)
Unread(q) == wire[q].body # <<>>
Consumed(q) == [wire EXCEPT ![q].body = Tail(@)]

\* The reader abandons the response: AbortController, or leaving the loop.
Aborted(q) == [wire EXCEPT ![q].state = "aborted", ![q].body = <<>>]
=============================================================================
