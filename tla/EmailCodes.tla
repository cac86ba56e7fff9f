----------------------------- MODULE EmailCodes -----------------------------
(* Codes sent to one e-mail address, for registration and for a forgotten   *)
(* password: sendEmailCode with its captcha, daily quota and cooldown, the  *)
(* check of a code, and the account made or reset with it.  Every command   *)
(* to Redis, the mail and every statement is a step of its own; a handler   *)
(* of the server may be interrupted by others between any two of them.      *)
EXTENDS Integers, FiniteSets

CONSTANTS
  Sender,     \* requests for a code under way at a time
  Visitor,    \* submissions of a code under way at a time
  MaxDaily,   \* mails a day to one address (10)
  MaxFails,   \* wrong entries that destroy a code (5)
  MaxCodes,   \* bound: codes issued
  MaxEntries, \* bound: codes entered
  MaxFaults   \* bound: commands to Redis that fail

ASSUME EmailCodesAssumption ==
  /\ \A n \in {MaxDaily, MaxFails} : n \in Nat \ {0}
  /\ \A n \in {MaxCodes, MaxEntries, MaxFaults} : n \in Nat

Scene == {"register", "reset"}
Code == 1 .. MaxCodes
None == 0    \* no code, and a wrong entry

VARIABLES
  key,     \* Redis: of each scene the code, the cooldown (with the code that set it), the failures
  daily,   \* Redis: codes asked for today
  send,    \* sendEmailCode: what it does next, for which scene, with which code
  visit,   \* register and resetPassword: the same, with the code entered
  box,     \* the codes that have arrived
  account, \* who has registered with the address
  log      \* history: codes issued, entries, faults, acceptances, wrong entries, overlaps

codesVars == <<key, daily, send, visit, box, account, log>>

NoSend == [pc |-> "idle", scene |-> "register", code |-> None]
NoVisit == NoSend

CodesType ==
  /\ key \in [Scene -> [code : Code \union {None}, cool : Code \union {None}, fails : Nat]]
  /\ daily \in 0 .. MaxDaily + 1
  /\ send \in [Sender -> [pc : {"idle", "look", "count", "bound", "cool", "code", "mark", "clear",
                                "mail", "undo"}, scene : Scene, code : Code \union {None}]]
  /\ visit \in [Visitor -> [pc : {"idle", "count", "burn", "look", "create"},
                            scene : Scene, code : Code \union {None}]]
  /\ box \subseteq Code /\ account \subseteq Visitor
  /\ log \in [issued : 0 .. MaxCodes, entries : 0 .. MaxEntries, faults : 0 .. MaxFaults,
              spent : [Code -> Nat], wrong : [Code -> Nat],
              crossed : SUBSET Code]
  /\ \A r \in Sender : send[r].code # None <=> send[r].pc \in {"mark", "clear", "mail", "undo"}

CodesInit ==
  /\ key = [s \in Scene |-> [code |-> None, cool |-> None, fails |-> 0]]
  /\ daily = 0
  /\ send = [r \in Sender |-> NoSend]
  /\ visit = [v \in Visitor |-> NoVisit]
  /\ box = {}
  /\ account = {}
  /\ log = [issued |-> 0, entries |-> 0, faults |-> 0, spent |-> [n \in Code |-> 0],
            wrong |-> [n \in Code |-> 0], crossed |-> {}]

\* INCR; counts above the limit are alike.
Counted == IF daily > MaxDaily THEN daily ELSE daily + 1

Sending(r, pc) == send' = [send EXCEPT ![r].pc = pc]
SendEnds(r) == send' = [send EXCEPT ![r] = NoSend]
Visiting(v, pc) == visit' = [visit EXCEPT ![v].pc = pc]
Left(v) == visit' = [visit EXCEPT ![v] = NoVisit]
Fault == log.faults < MaxFaults /\ log' = [log EXCEPT !.faults = @ + 1]

-----------------------------------------------------------------------------
(* sendEmailCode                                                            *)

\* The captcha was right, and is used up by this request.
AskCode(r, s) ==
  /\ send[r].pc = "idle" /\ log.issued < MaxCodes
  /\ send' = [send EXCEPT ![r] = [pc |-> "look", scene |-> s, code |-> None]]
  /\ UNCHANGED <<key, daily, visit, box, account, log>>

\* An address that is taken gets no code for registration.
LookTaken(r) ==
  /\ send[r].pc = "look"
  /\ IF send[r].scene = "register" /\ account # {} THEN SendEnds(r) ELSE Sending(r, "count")
  /\ UNCHANGED <<key, daily, visit, box, account, log>>

\* assertDailyQuota: INCR and the limit; a failing Redis lets pass.
CountToday(r) ==
  /\ send[r].pc = "count"
  /\ \/ /\ daily' = Counted
        /\ IF daily' > MaxDaily THEN SendEnds(r) ELSE Sending(r, "bound")
        /\ UNCHANGED log
     \/ Fault /\ Sending(r, "bound") /\ UNCHANGED daily
  /\ UNCHANGED <<key, visit, box, account>>

\* A reset for an unknown address succeeds without a mail.
LookBound(r) ==
  /\ send[r].pc = "bound"
  /\ IF send[r].scene = "reset" /\ account = {} THEN SendEnds(r) ELSE Sending(r, "cool")
  /\ UNCHANGED <<key, daily, visit, box, account, log>>

CheckCool(r) ==
  /\ send[r].pc = "cool"
  /\ IF key[send[r].scene].cool # None THEN SendEnds(r) ELSE Sending(r, "code")
  /\ UNCHANGED <<key, daily, visit, box, account, log>>

\* Another request of the scene is between its code and the end of its mail, or
\* a wrong entry is being counted: what they do next hits this code too.
Crossing(r) ==
  \/ \E o \in Sender \ {r} : /\ send[o].scene = send[r].scene
                             /\ send[o].pc \in {"code", "mark", "clear", "mail", "undo"}
  \/ \E v \in Visitor : visit[v].scene = send[r].scene /\ visit[v].pc \in {"count", "burn"}

\* A request that finds the bound on codes used up is refused.
SetCode(r) ==
  /\ send[r].pc = "code"
  /\ LET n == log.issued + 1 IN
     \/ log.issued = MaxCodes /\ SendEnds(r) /\ UNCHANGED <<key, log>>
     \/ /\ n \in Code
        /\ key' = [key EXCEPT ![send[r].scene].code = n]
        /\ send' = [send EXCEPT ![r] = [@ EXCEPT !.pc = "mark", !.code = n]]
        /\ log' = [log EXCEPT !.issued = n,
                              !.crossed = IF Crossing(r) THEN @ \union {n} ELSE @]
  /\ UNCHANGED <<daily, visit, box, account>>

\* The cooldown is set; if the command fails the request ends without a mail.
MarkCool(r) ==
  /\ send[r].pc = "mark"
  /\ \/ /\ key' = [key EXCEPT ![send[r].scene].cool = send[r].code]
        /\ Sending(r, "clear") /\ UNCHANGED log
     \/ Fault /\ SendEnds(r) /\ UNCHANGED key
  /\ UNCHANGED <<daily, visit, box, account>>

ClearFails(r) ==
  /\ send[r].pc = "clear"
  /\ Sending(r, "mail")
  /\ \/ key' = [key EXCEPT ![send[r].scene].fails = 0] /\ UNCHANGED log
     \/ Fault /\ UNCHANGED key
  /\ UNCHANGED <<daily, visit, box, account>>

Mail(r) ==
  /\ send[r].pc = "mail"
  /\ \/ box' = box \union {send[r].code} /\ SendEnds(r)
     \/ Sending(r, "undo") /\ UNCHANGED box
  /\ UNCHANGED <<key, daily, visit, account, log>>

\* The mail failed: both keys of the scene go, whoever wrote them.
Undo(r) ==
  /\ send[r].pc = "undo"
  /\ SendEnds(r)
  /\ \/ key' = [key EXCEPT ![send[r].scene] = [@ EXCEPT !.code = None, !.cool = None]]
        /\ UNCHANGED log
     \/ Fault /\ UNCHANGED key
  /\ UNCHANGED <<daily, visit, box, account>>

-----------------------------------------------------------------------------
(* register and resetPassword                                               *)

Once(count, n) == [count EXCEPT ![n] = @ + 1]

\* An entry meets a code, perhaps before the failures of the last are cleared.
Noted(code, n) ==
  [log EXCEPT !.entries = @ + 1,
     !.spent = IF code = n THEN Once(@, n) ELSE @,
     !.wrong = IF code = n THEN @ ELSE Once(@, code),
     !.crossed = IF \E r \in Sender : send[r].code = code /\ send[r].pc \in {"mark", "clear"}
                 THEN @ \union {code} ELSE @]

\* Mutant of Enter: the code that is right is compared but not deleted.
EnterOnly(v, s, n) ==
  /\ visit[v].pc = "idle" /\ log.entries < MaxEntries
  /\ key[s].code # None /\ UNCHANGED key
  /\ visit' = [visit EXCEPT ![v] = [pc |-> IF key[s].code = n THEN "look" ELSE "count",
                                    scene |-> s, code |-> n]]
  /\ log' = Noted(key[s].code, n)
  /\ UNCHANGED <<daily, send, box, account>>

\* VERIFY_LUA: compared and, if right, deleted in one step.  Without a code in
\* Redis the entry is refused and leaves no trace.
Enter(v, s, n) ==
  /\ visit[v].pc = "idle" /\ log.entries < MaxEntries
  /\ key[s].code # None
  /\ key' = IF key[s].code = n THEN [key EXCEPT ![s].code = None] ELSE key
  /\ visit' = [visit EXCEPT ![v] = [pc |-> IF key[s].code = n THEN "look" ELSE "count",
                                    scene |-> s, code |-> n]]
  /\ log' = Noted(key[s].code, n)
  /\ UNCHANGED <<daily, send, box, account>>

\* Mutant of CountFail: the entry before the limit already destroys the code.
CountFailEarly(v) ==
  /\ visit[v].pc = "count"
  /\ \/ LET s == visit[v].scene IN
        /\ key' = [key EXCEPT ![s].fails = @ + 1]
        /\ IF key'[s].fails >= MaxFails - 1 THEN Visiting(v, "burn") ELSE Left(v)
        /\ UNCHANGED log
     \/ Fault /\ Left(v) /\ UNCHANGED key
  /\ UNCHANGED <<daily, send, box, account>>

\* INCR of the failures; the one that reaches the limit destroys the code.
CountFail(v) ==
  /\ visit[v].pc = "count"
  /\ \/ LET s == visit[v].scene IN
        /\ key' = [key EXCEPT ![s].fails = @ + 1]
        /\ IF key'[s].fails >= MaxFails THEN Visiting(v, "burn") ELSE Left(v)
        /\ UNCHANGED log
     \/ Fault /\ Left(v) /\ UNCHANGED key
  /\ UNCHANGED <<daily, send, box, account>>

Burn(v) ==
  /\ visit[v].pc = "burn" /\ Left(v)
  /\ \/ key' = [key EXCEPT ![visit[v].scene].code = None] /\ UNCHANGED log
     \/ Fault /\ UNCHANGED key
  /\ UNCHANGED <<daily, send, box, account>>

\* The accounts are looked up after the code was taken; a reset ends here.
LookAccount(v) ==
  /\ visit[v].pc = "look"
  /\ IF visit[v].scene = "register" /\ account = {} THEN Visiting(v, "create") ELSE Left(v)
  /\ UNCHANGED <<key, daily, send, box, account, log>>

\* The unique constraint decides, not the lookup.
Create(v) ==
  /\ visit[v].pc = "create" /\ Left(v)
  /\ account' = IF account = {} THEN {v} ELSE account
  /\ UNCHANGED <<key, daily, send, box, log>>

-----------------------------------------------------------------------------
(* Keys with a time to live: the failures live as long as the code at least.*)

ExpireCode(s) ==
  /\ key[s].code # None
  /\ key' = [key EXCEPT ![s].code = None]
  /\ UNCHANGED <<daily, send, visit, box, account, log>>

ExpireCool(s) ==
  /\ key[s].cool # None
  /\ key' = [key EXCEPT ![s].cool = None]
  /\ UNCHANGED <<daily, send, visit, box, account, log>>

ExpireFails(s) ==
  /\ key[s].fails > 0 /\ key[s].code = None
  /\ key' = [key EXCEPT ![s].fails = 0]
  /\ UNCHANGED <<daily, send, visit, box, account, log>>

SendStep(r) ==
  \/ \E s \in Scene : AskCode(r, s)
  \/ LookTaken(r) \/ CountToday(r) \/ LookBound(r) \/ CheckCool(r) \/ SetCode(r) \/ MarkCool(r)
  \/ ClearFails(r) \/ Mail(r) \/ Undo(r)

VisitStep(v) ==
  \/ \E s \in Scene, n \in box \union {None} : Enter(v, s, n)
  \/ CountFail(v) \/ Burn(v) \/ LookAccount(v) \/ Create(v)

CodesNext ==
  \/ \E r \in Sender : SendStep(r)
  \/ \E v \in Visitor : VisitStep(v)
  \/ \E s \in Scene : ExpireCode(s) \/ ExpireCool(s) \/ ExpireFails(s)

CodesSpec == CodesInit /\ [][CodesNext]_codesVars

-----------------------------------------------------------------------------
(* Properties                                                               *)

\* "正确码并发第二发必落空": a code is accepted once, however many submit it.
SpentOnce == \A n \in Code : log.spent[n] <= 1

\* One account for one address, although two codes may be accepted before the
\* first account exists.
OneAccount == Cardinality(account) <= 1

\* An address has one account and each of its codes opens one thing, however
\* many requests and submissions overlap.
AcceptedOnce == SpentOnce /\ OneAccount

\* A code that was issued while nothing else of its scene was under way stays
\* until it is used, replaced or expired, unless its own mail fails or it was
\* entered wrongly as often as the limit says.
CodeLost(s) == key[s].code # None /\ key'[s].code = None
CodeKept ==
  [][\A s \in Scene : LET n == key[s].code IN
       CodeLost(s) /\ n \notin log.crossed /\ log.faults = 0 =>
         \/ log'.spent[n] > log.spent[n]
         \/ log.wrong[n] >= MaxFails
         \/ \E r \in Sender : send[r].pc = "undo" /\ send[r].code = n /\ send'[r] = NoSend
         \/ send' = send /\ visit' = visit]_codesVars
=============================================================================
