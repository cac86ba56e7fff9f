--------------------------- MODULE EmbeddingHealth ---------------------------
(* Calls of the embedding provider and the state of health they write, by   *)
(* threads of several processes: retries, errors that are certain, the      *)
(* throttle of success and the warning that all pages show.                 *)
EXTENDS Integers

CONSTANTS
  Caller,         \* threads
  Process, ProcessOf,
  MaxAttempts,    \* tries of one batch (4)
  MaxBatches,     \* bound: batches of one call (32 texts each)
  OkInterval      \* ticks between two writes of success (30 s)

ASSUME EmbeddingHealthAssumption ==
  /\ ProcessOf \in [Caller -> Process]
  /\ {MaxAttempts, MaxBatches, OkInterval} \subseteq Nat \ {0}

VARIABLES
  call,      \* of each thread the step, the batches done, the tries of this one
  beat,      \* ticks since each process last wrote success
  errorAge,  \* ticks since the last error was written
  health,    \* the write that is later: "none", "ok" or "error"
  lost       \* history: processes whose last write of success failed

healthVars == <<call, beat, errorAge, health, lost>>

Quiet == [pc |-> "idle", probe |-> FALSE, batch |-> 0, tries |-> 0]

HealthInit ==
  /\ call = [c \in Caller |-> Quiet]
  /\ beat = [p \in Process |-> OkInterval]
  /\ errorAge = OkInterval /\ health = "none" /\ lost = {}

\* embed_texts; the probe embeds one short text.
Begin(c, probe) ==
  /\ call[c].pc = "idle"
  /\ call' = [call EXCEPT ![c] = [Quiet EXCEPT !.pc = "try", !.probe = probe]]
  /\ UNCHANGED <<beat, errorAge, health, lost>>

\* A batch that is embedded is followed by the next one, or by success.
Embedded(c) ==
  /\ call[c].pc = "try"
  /\ \/ /\ call[c].batch + 1 < MaxBatches /\ ~call[c].probe
        /\ call' = [call EXCEPT ![c].batch = @ + 1, ![c].tries = 0]
     \/ call' = [call EXCEPT ![c].pc = "ok", ![c].batch = 0, ![c].tries = 0]
  /\ UNCHANGED <<beat, errorAge, health, lost>>

\* No money or no rights: no other try.
Refused(c) ==
  /\ call[c].pc = "try"
  /\ call' = [call EXCEPT ![c].pc = "error", ![c].batch = 0, ![c].tries = 0]
  /\ UNCHANGED <<beat, errorAge, health, lost>>

\* Anything else is tried again, up to MaxAttempts.
Failed(c) ==
  /\ call[c].pc = "try"
  /\ call' = [call EXCEPT ![c] =
       IF call[c].tries + 1 < MaxAttempts THEN [call[c] EXCEPT !.tries = @ + 1]
       ELSE [Quiet EXCEPT !.pc = "error", !.probe = call[c].probe]]
  /\ UNCHANGED <<beat, errorAge, health, lost>>

\* A probe records the outcome once more than embed_texts does.
After(c) == IF call[c].probe THEN [call[c] EXCEPT !.probe = FALSE] ELSE Quiet

\* Mutant of Throttled: success that is not written also counts.
ThrottledSliding(p) == [beat EXCEPT ![p] = 0]

Throttled(p) == beat

\* record_health(ok=True): the process notes the write before it is done.
RecordOk(c) ==
  LET p == ProcessOf[c] IN
  /\ call[c].pc = "ok"
  /\ IF beat[p] < OkInterval
     THEN call' = [call EXCEPT ![c] = After(c)] /\ beat' = Throttled(p) /\ UNCHANGED lost
     ELSE /\ call' = [call EXCEPT ![c].pc = "write"]
          /\ beat' = [beat EXCEPT ![p] = 0] /\ lost' = lost \ {p}
  /\ UNCHANGED <<errorAge, health>>

\* A write that fails is forgotten.
WriteOk(c) ==
  /\ call[c].pc = "write"
  /\ \/ health' = "ok" /\ UNCHANGED lost
     \/ lost' = lost \union {ProcessOf[c]} /\ UNCHANGED health
  /\ call' = [call EXCEPT ![c] = [After(c) EXCEPT !.pc = IF call[c].probe THEN "ok" ELSE "idle"]]
  /\ UNCHANGED <<beat, errorAge>>

RecordError(c) ==
  /\ call[c].pc = "error"
  /\ \/ health' = "error" /\ errorAge' = 0
     \/ UNCHANGED <<health, errorAge>>
  /\ call' = [call EXCEPT ![c] = After(c)]
  /\ UNCHANGED <<beat, lost>>

Grown(age) == IF age = OkInterval THEN age ELSE age + 1

TickHealth ==
  /\ beat' = [p \in Process |-> Grown(beat[p])] /\ errorAge' = Grown(errorAge)
  /\ UNCHANGED <<call, health, lost>>

HealthNext ==
  \/ \E c \in Caller, probe \in BOOLEAN : Begin(c, probe)
  \/ \E c \in Caller : \/ Embedded(c) \/ Refused(c) \/ Failed(c)
                       \/ RecordOk(c) \/ WriteOk(c) \/ RecordError(c)
  \/ TickHealth

HealthSpec == HealthInit /\ [][HealthNext]_healthVars

-----------------------------------------------------------------------------
(* _derive_health, getSummary: what the pages show *)
Down == health = "error"

\* A success 30 seconds or more after the last error ends the warning that
\* pages show, although most successes are not written and the processes know
\* nothing of each other's writes: it is written, unless a write of success is
\* under way or has just failed.
WarningEnds ==
  [][\A c \in Caller :
       /\ Down /\ errorAge = OkInterval
       /\ call[c].pc = "ok" /\ call'[c].pc # "ok"
       /\ ProcessOf[c] \notin lost
       => \E d \in Caller : call'[d].pc = "write"]_healthVars
=============================================================================
