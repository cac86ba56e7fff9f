--------------------------- MODULE SessionProofs ---------------------------
(* Proofs about the sessions of BrowserTabs, for any tabs, requests and      *)
(* passwords and any bounds.                                                 *)
EXTENDS BrowserTabs, TLAPS

-----------------------------------------------------------------------------
(* The invariant, in the parts that change together                         *)

TokensOK ==
  /\ pair \in [Pair -> Credentials]
  /\ next \in Nat /\ 0 < next /\ next <= MaxPairs + 1
  /\ live \subseteq Issued /\ white \subseteq Issued /\ grace \subseteq Issued
  /\ revoked \subseteq Issued /\ hurt \subseteq Issued

AccountOK == user \in Users /\ change \in Changes /\ events \in Nat

\* An exchange under way has a token that was issued.
CallsOK ==
  /\ call \in [Tab -> Exchanges]
  /\ \A t \in Tab : /\ call[t].pc # "idle" => call[t].tok \in Issued
                    /\ call[t].tok < next /\ call[t].new < next

LoginsOK ==
  /\ login \in [Tab -> Logins]
  /\ \A t \in Tab : login[t].new < next

IInv == TokensOK /\ AccountOK /\ CallsOK /\ LoginsOK /\ BrowserTypeOK

LEMMA TypeOKFollows == IInv => TypeOK
  BY DEF IInv, TokensOK, AccountOK, CallsOK, LoginsOK, TypeOK, ServerTypeOK

\* What a step leaves alone stays sound, since numbers of pairs only grow.
LEMMA TokensFrame ==
  ASSUME TokensOK, UNCHANGED <<pair, next, live, white, grace, revoked, hurt>>
  PROVE  TokensOK'
  BY DEF TokensOK, Issued

LEMMA AccountFrame ==
  ASSUME AccountOK, UNCHANGED <<user, change, events>>
  PROVE  AccountOK'
  BY DEF AccountOK

LEMMA CallsFrame ==
  ASSUME CallsOK, next \in Nat, next' \in {next, next + 1}, UNCHANGED call
  PROVE  CallsOK'
  BY DEF CallsOK, Issued, Exchanges

LEMMA LoginsFrame ==
  ASSUME LoginsOK, next \in Nat, next' \in {next, next + 1}, UNCHANGED login
  PROVE  LoginsOK'
  BY DEF LoginsOK, Logins

LEMMA BrowserFrame ==
  ASSUME BrowserTypeOK, next \in Nat, next' \in {next, next + 1}, UNCHANGED browser
  PROVE  BrowserTypeOK'
  BY DEF BrowserTypeOK, browser

-----------------------------------------------------------------------------
(* The operators the actions share                                          *)

LEMMA StepKeeps ==
  ASSUME CallsOK, next \in Nat, next' = next, NEW t \in Tab, call[t].pc # "idle",
         NEW pc \in {"mark", "look", "user", "denied"}, Step(t, pc)
  PROVE  CallsOK'
<1>1. [call[t] EXCEPT !.pc = pc] \in Exchanges
  BY DEF CallsOK, Exchanges
<1>2. call' \in [Tab -> Exchanges]
  BY <1>1 DEF CallsOK, Step
<1>3. ASSUME NEW u \in Tab
      PROVE  /\ call'[u].pc # "idle" => call'[u].tok \in Issued
             /\ call'[u].tok < next /\ call'[u].new < next
  BY DEF CallsOK, Step, Exchanges
<1>. QED
  BY <1>2, <1>3 DEF CallsOK, Issued

LEMMA CallEnds ==
  ASSUME CallsOK, next \in Nat, 0 < next, next' = next, NEW t \in Tab,
         call' = [call EXCEPT ![t] = NoCall]
  PROVE  CallsOK'
<1>1. NoCall \in Exchanges
  BY DEF NoCall, Exchanges, None
<1>2. call' \in [Tab -> Exchanges]
  BY <1>1 DEF CallsOK
<1>3. ASSUME NEW u \in Tab
      PROVE  /\ call'[u].pc # "idle" => call'[u].tok \in Issued
             /\ call'[u].tok < next /\ call'[u].new < next
  BY DEF CallsOK, NoCall, None
<1>. QED
  BY <1>2, <1>3 DEF CallsOK, Issued

LEMMA FailureKeeps ==
  ASSUME hurt \subseteq Issued, events \in Nat, NEW j \in Issued, Hurt(j) \/ Unhurt
  PROVE  hurt' \subseteq Issued /\ events' \in Nat
  BY DEF Hurt, Unhurt, Happens

LEMMA IssueKeeps ==
  ASSUME SessionAssumption, TokensOK, events \in Nat, NEW c \in Credentials, Issue(c),
         UNCHANGED <<grace, revoked>>
  PROVE  TokensOK' /\ events' \in Nat /\ next' = next + 1
<1>1. next \in Nat /\ next <= MaxPairs /\ next' = next + 1 /\ MaxPairs \in Nat
  BY DEF Issue, TokensOK, SessionAssumption
<1>2. Issued \cup {next} \subseteq Issued'
  BY <1>1 DEF Issued, Pair, TokensOK
<1>3. pair' \in [Pair -> Credentials]
  BY DEF Issue, TokensOK
<1>. QED
  BY <1>1, <1>2, <1>3 DEF Issue, TokensOK, Hurt, Unhurt, Happens

-----------------------------------------------------------------------------
(* The exchange                                                             *)

LEMMA ExchangeKeeps ==
  ASSUME SessionAssumption, IInv, NEW t \in Tab, Exchange(t), UNCHANGED browser
  PROVE  IInv'
<1>. DEFINE j == call[t].tok
<1>0. /\ next \in Nat /\ 0 < next /\ TokensOK /\ AccountOK /\ CallsOK /\ LoginsOK
      /\ BrowserTypeOK /\ events \in Nat
  BY DEF IInv, TokensOK, AccountOK
<1>1. call[t].pc # "idle" => j \in Issued
  BY <1>0 DEF CallsOK
<1>2. CASE TakeToken(t)
  <2>1. TokensOK' /\ AccountOK'
    BY <1>0, <1>1, <1>2, FailureKeeps DEF TakeToken, TokensOK, AccountOK, Issued
  <2>2. CallsOK'
    BY <1>0, <1>2, StepKeeps DEF TakeToken
  <2>. QED
    BY <1>0, <1>2, <2>1, <2>2, LoginsFrame, BrowserFrame DEF TakeToken, IInv
<1>3. CASE MarkToken(t)
  <2>1. TokensOK' /\ AccountOK'
    BY <1>0, <1>1, <1>3, FailureKeeps DEF MarkToken, TokensOK, AccountOK, Issued
  <2>2. CallsOK'
    BY <1>0, <1>3, StepKeeps DEF MarkToken
  <2>. QED
    BY <1>0, <1>3, <2>1, <2>2, LoginsFrame, BrowserFrame DEF MarkToken, IInv
<1>4. CASE LookForGrace(t)
  <2>1. TokensOK' /\ AccountOK'
    BY <1>0, <1>1, <1>4, FailureKeeps DEF LookForGrace, TokensOK, AccountOK, Issued
  <2>2. CallsOK'
    BY <1>0, <1>4, StepKeeps DEF LookForGrace
  <2>. QED
    BY <1>0, <1>4, <2>1, <2>2, LoginsFrame, BrowserFrame DEF LookForGrace, IInv
<1>5. CASE /\ call[t].pc = "user" /\ Step(t, "denied") /\ grace' \subseteq grace
           /\ UNCHANGED <<user, pair, next, live, white, hurt, events, revoked, login, change>>
  <2>2. TokensOK'
    BY <1>0, <1>5 DEF TokensOK, Issued
  <2>3. CallsOK'
    BY <1>0, <1>5, StepKeeps
  <2>. QED
    BY <1>0, <1>5, <2>2, <2>3, AccountFrame, LoginsFrame, BrowserFrame DEF IInv
<1>6. CASE /\ Issue([pair[j] EXCEPT !.ver = user.ver])
           /\ call' = [call EXCEPT ![t].pc = "ok", ![t].new = next]
           /\ call[t].pc = "user" /\ UNCHANGED <<user, grace, revoked, login, change>>
  <2>1. [pair[j] EXCEPT !.ver = user.ver] \in Credentials
    BY <1>0, <1>1, <1>6 DEF TokensOK, Issued, Credentials, AccountOK, Users
  <2>2. TokensOK' /\ events' \in Nat /\ next' = next + 1
    BY <1>0, <1>6, <2>1, IssueKeeps
  <2>3. CallsOK'
    <3>0. call[t] \in Exchanges
      BY <1>0 DEF CallsOK
    <3>1. [call[t] EXCEPT !.pc = "ok", !.new = next] \in Exchanges
      BY <1>0, <3>0 DEF Exchanges
    <3>2. call' \in [Tab -> Exchanges]
      BY <1>0, <1>6, <3>1 DEF CallsOK
    <3>3. Issued \subseteq Issued'
      BY <1>0, <2>2 DEF Issued, Pair, SessionAssumption
    <3>4. ASSUME NEW u \in Tab
          PROVE  /\ call'[u].pc # "idle" => call'[u].tok \in Issued
                 /\ call'[u].tok < next' /\ call'[u].new < next'
      BY <1>0, <1>6, <2>2 DEF CallsOK, Exchanges
    <3>. QED
      BY <3>2, <3>3, <3>4 DEF CallsOK
  <2>4. AccountOK'
    BY <1>0, <1>6, <2>2 DEF AccountOK
  <2>. QED
    BY <1>0, <1>6, <2>2, <2>3, <2>4, LoginsFrame, BrowserFrame DEF IInv
<1>7. ExchangeToken(t) =>
        \/ /\ call[t].pc = "user" /\ Step(t, "denied") /\ grace' \subseteq grace
           /\ UNCHANGED <<user, pair, next, live, white, hurt, events, revoked, login, change>>
        \/ /\ Issue([pair[j] EXCEPT !.ver = user.ver])
           /\ call' = [call EXCEPT ![t].pc = "ok", ![t].new = next]
           /\ call[t].pc = "user" /\ UNCHANGED <<user, grace, revoked, login, change>>
  BY DEF ExchangeToken
<1>. QED
  BY <1>2, <1>3, <1>4, <1>5, <1>6, <1>7 DEF Exchange

-----------------------------------------------------------------------------
(* The login and what administrators and time do                            *)

LEMMA LoginKeeps ==
  ASSUME SessionAssumption, IInv, NEW t \in Tab, Login(t), UNCHANGED browser
  PROVE  IInv'
<1>0. /\ next \in Nat /\ TokensOK /\ AccountOK /\ CallsOK /\ LoginsOK
      /\ BrowserTypeOK /\ events \in Nat /\ user \in Users
      /\ login \in [Tab -> Logins] /\ login[t] \in Logins
  BY DEF IInv, TokensOK, AccountOK, LoginsOK
<1>1. CASE CheckLogin(t)
  <2>1. Compared(user, login[t].cred.pw) \in Credentials /\ user.legacy \in BOOLEAN
    BY <1>0 DEF Compared, Logins, Credentials, Users
  <2>2. login' \in [Tab -> Logins] /\ \A u \in Tab : login'[u].new = login[u].new
    BY <1>0, <1>1, <2>1 DEF CheckLogin, Logins
  <2>3. LoginsOK'
    BY <1>0, <1>1, <2>2 DEF CheckLogin, LoginsOK
  <2>. QED
    BY <1>0, <1>1, <2>3, TokensFrame, AccountFrame, CallsFrame, BrowserFrame DEF CheckLogin, IInv
<1>2. CASE Rehash(t)
  <2>1. [login[t] EXCEPT !.pc = "issue"] \in Logins
    BY <1>0 DEF Logins
  <2>2. LoginsOK'
    BY <1>0, <1>2, <2>1 DEF Rehash, LoginsOK, Logins
  <2>3. [user EXCEPT !.pw = login[t].cred.pw, !.legacy = FALSE] \in Users
    BY <1>0 DEF Users, Logins, Credentials
  <2>4. AccountOK'
    BY <1>0, <1>2, <2>3 DEF Rehash, AccountOK
  <2>. QED
    BY <1>0, <1>2, <2>2, <2>4, TokensFrame, CallsFrame, BrowserFrame DEF Rehash, IInv
<1>3. CASE IssueLogin(t)
  <2>1. TokensOK' /\ events' \in Nat /\ next' = next + 1
    BY <1>0, <1>3, IssueKeeps DEF IssueLogin, Logins
  <2>2. [login[t] EXCEPT !.pc = "ok", !.new = next] \in Logins
    BY <1>0 DEF Logins
  <2>3. LoginsOK'
    BY <1>0, <1>3, <2>1, <2>2 DEF IssueLogin, LoginsOK, Logins
  <2>4. AccountOK'
    BY <1>0, <1>3, <2>1 DEF IssueLogin, AccountOK
  <2>. QED
    BY <1>0, <1>3, <2>1, <2>3, <2>4, CallsFrame, BrowserFrame DEF IssueLogin, IInv
<1>. QED
  BY <1>1, <1>2, <1>3 DEF Login

LEMMA AdministerKeeps ==
  ASSUME SessionAssumption, IInv, Administer, UNCHANGED browser
  PROVE  IInv'
<1>0. /\ next \in Nat /\ TokensOK /\ AccountOK /\ CallsOK /\ LoginsOK
      /\ BrowserTypeOK /\ events \in Nat /\ user \in Users
  BY DEF IInv, TokensOK, AccountOK
<1>1. CASE CheckChange
  <2>1. AccountOK'
    BY <1>0, <1>1 DEF CheckChange, AccountOK, Changes, Happens
  <2>. QED
    BY <1>0, <1>1, <2>1, TokensFrame, LoginsFrame, CallsFrame, BrowserFrame DEF CheckChange, IInv
<1>2. CASE WriteChange
  <2>0. user.ver + 1 \in Nat /\ change.pw \in Password
    BY <1>0 DEF Users, AccountOK, Changes
  <2>1. [user EXCEPT !.pw = change.pw, !.legacy = FALSE, !.ver = user.ver + 1] \in Users
    BY <1>0, <2>0 DEF Users
  <2>2. NoChange \in Changes
    BY <1>0 DEF NoChange, Changes, First, AccountOK, Users
  <2>3. AccountOK'
    BY <1>0, <1>2, <2>1, <2>2 DEF WriteChange, AccountOK
  <2>. QED
    BY <1>0, <1>2, <2>3, TokensFrame, LoginsFrame, CallsFrame, BrowserFrame DEF WriteChange, IInv
<1>3. CASE SetStatus
  <2>0. user.ver + 1 \in Nat /\ user.bans + 1 \in Nat
    BY <1>0 DEF Users
  <2>3. /\ [user EXCEPT !.active = TRUE] \in Users
        /\ [user EXCEPT !.active = FALSE, !.ver = user.ver + 1, !.bans = user.bans + 1] \in Users
    BY <1>0, <2>0 DEF Users
  <2>1. user' \in Users
    BY <1>3, <2>3 DEF SetStatus
  <2>2. AccountOK'
    BY <1>0, <1>3, <2>1 DEF SetStatus, AccountOK, Happens
  <2>. QED
    BY <1>0, <1>3, <2>2, TokensFrame, LoginsFrame, CallsFrame, BrowserFrame DEF SetStatus, IInv
<1>4. ASSUME NEW j \in Pair, Revoke(j) PROVE IInv'
  <2>1. TokensOK'
    BY <1>0, <1>4 DEF Revoke, TokensOK, Issued
  <2>2. AccountOK'
    BY <1>0, <1>4 DEF Revoke, AccountOK, Happens
  <2>. QED
    BY <1>0, <1>4, <2>1, <2>2, LoginsFrame, CallsFrame, BrowserFrame DEF Revoke, IInv
<1>. QED
  BY <1>1, <1>2, <1>3, <1>4 DEF Administer

LEMMA ExpireKeeps ==
  ASSUME SessionAssumption, IInv, NEW j \in Pair, Expire(j), UNCHANGED browser
  PROVE  IInv'
<1>0. next \in Nat /\ TokensOK /\ AccountOK /\ CallsOK /\ LoginsOK /\ BrowserTypeOK
  BY DEF IInv, TokensOK
<1>1. UNCHANGED <<user, change, events, call, login, next>>
  BY DEF Expire, ExpireAccess, ExpireGrace
<1>2. TokensOK'
  BY <1>0 DEF Expire, ExpireAccess, ExpireGrace, TokensOK, Issued
<1>. QED
  BY <1>0, <1>1, <1>2, AccountFrame, LoginsFrame, CallsFrame, BrowserFrame DEF IInv

-----------------------------------------------------------------------------
(* The tabs                                                                 *)

TabStates == [page : {"app", "login"}, pending : BOOLEAN, timer : {"off", "notice", "leave"}]
Requests == [pc : {"idle", "sent", "wait"}, tok : Nat, retried : BOOLEAN]

StorageOK == storage \in [token : Nat, rt : Nat] /\ storage.token < next /\ storage.rt < next
TabsOK == tab \in [Tab -> TabStates]
RequestsOK == req \in [Tab -> [Request -> Requests]]

LEMMA BrowserParts ==
  /\ BrowserTypeOK <=> StorageOK /\ TabsOK /\ RequestsOK
  /\ BrowserTypeOK' <=> StorageOK' /\ TabsOK' /\ RequestsOK'
  BY DEF BrowserTypeOK, StorageOK, TabsOK, RequestsOK, TabStates, Requests

LEMMA KickKeeps ==
  ASSUME next \in Nat, 0 < next, next' = next, TabsOK, NEW t \in Tab, Kick(t)
  PROVE  StorageOK' /\ TabsOK'
<1>1. [[tab[t] EXCEPT !.pending = TRUE] EXCEPT !.timer = "notice"] \in TabStates
  BY DEF TabsOK, TabStates
<1>2. TabsOK'
  BY <1>1 DEF Kick, TabsOK
<1>3. StorageOK'
  BY DEF Kick, StorageOK, None
<1>. QED
  BY <1>2, <1>3

LEMMA PutKeeps ==
  ASSUME RequestsOK, NEW t \in Tab, NEW q \in Request, NEW r \in Requests, Put(t, q, r)
  PROVE  RequestsOK'
<1>1. [req[t] EXCEPT ![q] = r] \in [Request -> Requests]
  BY DEF RequestsOK
<1>. QED
  BY <1>1 DEF Put, RequestsOK

LEMMA PageType == \A s : PageOf(s) \in {"app", "login"}
  BY DEF PageOf

\* Requests and their answers.
LEMMA WorkKeeps ==
  ASSUME SessionAssumption, IInv, NEW t \in Tab, NEW q \in Request,
         Send(t, q) \/ Answer(t, q) \/ Refuse(t, q)
  PROVE  IInv'
<1>0. /\ next \in Nat /\ 0 < next /\ TokensOK /\ AccountOK /\ CallsOK /\ LoginsOK
      /\ StorageOK /\ TabsOK /\ RequestsOK /\ events \in Nat
      /\ req[t][q] \in Requests /\ storage.token \in Nat /\ storage.rt \in Nat
  BY BrowserParts DEF IInv, TokensOK, AccountOK, RequestsOK, StorageOK
<1>1. NoRequest \in Requests
  BY DEF NoRequest, Requests, None
<1>2. CASE Send(t, q)
  <2>1. [pc |-> "sent", tok |-> storage.token, retried |-> FALSE] \in Requests
    BY <1>0 DEF Requests
  <2>2. RequestsOK'
    BY <1>0, <1>2, <2>1, PutKeeps DEF Send
  <2>3. StorageOK' /\ TabsOK'
    BY <1>0, <1>2 DEF Send, StorageOK, TabsOK, server
  <2>. QED
    BY <1>0, <1>2, <2>2, <2>3, BrowserParts, TokensFrame, AccountFrame, CallsFrame, LoginsFrame
       DEF Send, server, IInv
<1>3. CASE Answer(t, q)
  <2>1. RequestsOK'
    BY <1>0, <1>1, <1>3, PutKeeps DEF Answer
  <2>2. StorageOK' /\ TabsOK'
    <3>1. CASE UNCHANGED <<storage, tab>>
      BY <1>0, <1>3, <3>1 DEF Answer, StorageOK, TabsOK
    <3>2. CASE Kick(t)
      BY <1>0, <1>3, <3>2, KickKeeps DEF Answer
    <3>. QED
      BY <1>3, <3>1, <3>2 DEF Answer
  <2>3. AccountOK'
    BY <1>0, <1>3 DEF Answer, AccountOK, Happens
  <2>. QED
    BY <1>0, <1>3, <2>1, <2>2, <2>3, BrowserParts, TokensFrame, CallsFrame, LoginsFrame
       DEF Answer, IInv
<1>4. CASE Refuse(t, q)
  <2>1. [req[t][q] EXCEPT !.pc = "wait"] \in Requests
    BY <1>0 DEF Requests
  <2>2. RequestsOK'
    BY <1>0, <1>1, <1>4, <2>1, PutKeeps DEF Refuse
  <2>3. StorageOK' /\ TabsOK'
    <3>1. CASE UNCHANGED <<storage, tab>>
      BY <1>0, <1>4, <3>1 DEF Refuse, StorageOK, TabsOK
    <3>2. CASE Kick(t)
      BY <1>0, <1>4, <3>2, KickKeeps DEF Refuse
    <3>. QED
      BY <1>4, <3>1, <3>2 DEF Refuse
  <2>4. CallsOK'
    <3>1. CASE UNCHANGED call
      BY <1>0, <1>4, <3>1, CallsFrame DEF Refuse
    <3>2. CASE storage.rt # None /\ call' = [call EXCEPT ![t] =
                 [pc |-> "take", tok |-> storage.rt, new |-> None, heard |-> TRUE]]
      <4>1. [pc |-> "take", tok |-> storage.rt, new |-> None, heard |-> TRUE] \in Exchanges
        BY <1>0 DEF Exchanges, None
      <4>2. call' \in [Tab -> Exchanges]
        BY <1>0, <3>2, <4>1 DEF CallsOK
      <4>3. storage.rt \in Issued
        BY <1>0, <3>2 DEF StorageOK, Issued, Pair, None, TokensOK, SessionAssumption
      <4>4. next' = next /\ Issued' = Issued
        BY <1>4 DEF Refuse, Issued
      <4>5. ASSUME NEW u \in Tab
            PROVE  /\ call'[u].pc # "idle" => call'[u].tok \in Issued
                   /\ call'[u].tok < next /\ call'[u].new < next
        BY <1>0, <3>2, <4>3 DEF CallsOK, StorageOK, None
      <4>. QED
        BY <4>2, <4>4, <4>5 DEF CallsOK
    <3>. QED
      BY <1>4, <3>1, <3>2 DEF Refuse
  <2>. QED
    BY <1>0, <1>4, <2>2, <2>3, <2>4, BrowserParts, TokensFrame, AccountFrame, LoginsFrame
       DEF Refuse, IInv
<1>. QED
  BY <1>2, <1>3, <1>4

\* The answers to exchanges and logins.
LEMMA ReceiveKeeps ==
  ASSUME SessionAssumption, IInv, NEW t \in Tab, Receive(t)
  PROVE  IInv'
<1>0. /\ next \in Nat /\ 0 < next /\ TokensOK /\ AccountOK /\ CallsOK /\ LoginsOK
      /\ StorageOK /\ TabsOK /\ RequestsOK /\ events \in Nat
      /\ tab[t] \in TabStates /\ call[t] \in Exchanges /\ login[t] \in Logins
      /\ call[t].new \in Nat /\ login[t].new \in Nat
      /\ call[t].new < next /\ login[t].new < next
  BY BrowserParts
     DEF IInv, TokensOK, AccountOK, RequestsOK, StorageOK, TabsOK, CallsOK, LoginsOK, Exchanges, Logins
<1>1. NoRequest \in Requests
  BY DEF NoRequest, Requests, None
<1>2. ASSUME login' = [login EXCEPT ![t] = NoLogin], next' = next PROVE LoginsOK'
  <2>1. NoLogin \in Logins
    <3>1. First \in Password
      BY <1>0 DEF First, AccountOK, Users
    <3>. QED
      BY <3>1 DEF NoLogin, Typed, Logins, Credentials, None
  <2>. QED
    BY <1>0, <1>2, <2>1 DEF LoginsOK, NoLogin, None
<1>3. CASE Renew(t)
  <2>1. [pc |-> "sent", tok |-> call[t].new, retried |-> TRUE] \in Requests
    BY <1>0 DEF Requests
  <2>2. RequestsOK'
    BY <1>0, <1>3, <2>1 DEF Renew, RequestsOK
  <2>3. StorageOK' /\ TabsOK'
    BY <1>0, <1>3 DEF Renew, StorageOK, TabsOK
  <2>. QED
    BY <1>0, <1>3, <2>2, <2>3, BrowserParts, CallEnds, TokensFrame, AccountFrame, LoginsFrame
       DEF Renew, IInv
<1>4. CASE GiveUp(t)
  <2>1. RequestsOK'
    BY <1>0, <1>1, <1>4 DEF GiveUp, RequestsOK
  <2>2. StorageOK' /\ TabsOK'
    BY <1>0, <1>4, KickKeeps DEF GiveUp
  <2>3. call[t].tok \in Issued
    BY <1>0, <1>4 DEF GiveUp, CallsOK
  <2>4. TokensOK' /\ AccountOK'
    BY <1>0, <1>4, <2>3, FailureKeeps DEF GiveUp, TokensOK, AccountOK, Issued
  <2>. QED
    BY <1>0, <1>4, <2>1, <2>2, <2>4, BrowserParts, CallEnds, LoginsFrame DEF GiveUp, IInv
<1>5. CASE Drop(t)
  <2>1. CallsOK' /\ LoginsOK'
    BY <1>0, <1>2, <1>5, CallEnds, CallsFrame, LoginsFrame DEF Drop
  <2>. QED
    BY <1>0, <1>5, <2>1, BrowserParts, BrowserFrame, TokensFrame, AccountFrame DEF Drop, IInv
<1>6. CASE Enter(t)
  <2>1. \A timer \in {"off", tab[t].timer} :
          [page |-> "app", pending |-> FALSE, timer |-> timer] \in TabStates
    BY <1>0 DEF TabStates
  <2>2. TabsOK'
    BY <1>0, <1>6, <2>1 DEF Enter, TabsOK
  <2>3. StorageOK' /\ RequestsOK'
    BY <1>0, <1>6 DEF Enter, StorageOK, RequestsOK
  <2>. QED
    BY <1>0, <1>2, <1>6, <2>2, <2>3, BrowserParts, TokensFrame, AccountFrame, CallsFrame
       DEF Enter, IInv
<1>7. CASE Reject(t)
  <2>1. StorageOK' /\ TabsOK'
    BY <1>0, <1>7, KickKeeps DEF Reject
  <2>2. RequestsOK'
    BY <1>0, <1>7 DEF Reject, RequestsOK
  <2>. QED
    BY <1>0, <1>2, <1>7, <2>1, <2>2, BrowserParts, TokensFrame, AccountFrame, CallsFrame
       DEF Reject, IInv
<1>. QED
  BY <1>3, <1>4, <1>5, <1>6, <1>7 DEF Receive

\* The pages, the login form and the timers.
LEMMA PageKeeps ==
  ASSUME SessionAssumption, IInv, NEW t \in Tab,
         Navigate(t) \/ Submit(t) \/ Logout(t) \/ Tick(t)
  PROVE  IInv'
<1>0. /\ next \in Nat /\ 0 < next /\ TokensOK /\ AccountOK /\ CallsOK /\ LoginsOK
      /\ StorageOK /\ TabsOK /\ RequestsOK /\ events \in Nat
      /\ tab[t] \in TabStates /\ call[t] \in Exchanges /\ login[t] \in Logins
  BY BrowserParts
     DEF IInv, TokensOK, AccountOK, RequestsOK, StorageOK, TabsOK, CallsOK, LoginsOK
<1>1. CASE Navigate(t)
  <2>1. [tab[t] EXCEPT !.page = PageOf(storage)] \in TabStates
    BY <1>0, PageType DEF TabStates
  <2>2. TabsOK'
    BY <1>0, <1>1, <2>1 DEF Navigate, TabsOK
  <2>. QED
    BY <1>0, <1>1, <2>2, BrowserParts, TokensFrame, AccountFrame, CallsFrame, LoginsFrame
       DEF Navigate, server, StorageOK, RequestsOK, IInv
<1>2. CASE Submit(t)
  <2>1. \A p \in Password :
          [NoLogin EXCEPT !.pc = "check", !.cred = Typed(p), !.heard = TRUE] \in Logins
    BY DEF NoLogin, Typed, Logins, Credentials, None
  <2>4. LoginsOK'
    BY <1>0, <1>2, <2>1 DEF Submit, LoginsOK, NoLogin, None
  <2>. QED
    BY <1>0, <1>2, <2>4, BrowserParts, BrowserFrame, TokensFrame, AccountFrame, CallsFrame
       DEF Submit, IInv
<1>3. CASE Logout(t)
  <2>1. [pc |-> "sent", tok |-> None, retried |-> FALSE] \in Requests
    BY DEF Requests, None
  <2>2. RequestsOK'
    BY <1>0, <1>3, <2>1, PutKeeps DEF Logout
  <2>3. [tab[t] EXCEPT !.page = "login"] \in TabStates
    BY <1>0 DEF TabStates
  <2>4. StorageOK' /\ TabsOK'
    BY <1>0, <1>3, <2>3 DEF Logout, StorageOK, TabsOK, None
  <2>5. AccountOK'
    BY <1>0, <1>3 DEF Logout, AccountOK, Happens
  <2>. QED
    BY <1>0, <1>3, <2>2, <2>4, <2>5, BrowserParts, TokensFrame, CallsFrame, LoginsFrame
       DEF Logout, IInv
<1>4. CASE Notice(t)
  <2>1. \A timer \in {"off", "leave"}, b \in BOOLEAN :
          [[tab[t] EXCEPT !.timer = timer] EXCEPT !.pending = b] \in TabStates
    BY <1>0 DEF TabStates
  <2>2. TabsOK'
    BY <1>0, <1>4, <2>1 DEF Notice, TabsOK
  <2>. QED
    BY <1>0, <1>4, <2>2, BrowserParts, TokensFrame, AccountFrame, CallsFrame, LoginsFrame
       DEF Notice, server, StorageOK, RequestsOK, IInv
<1>5. CASE Reload(t)
  <2>1. [page |-> PageOf(storage), pending |-> FALSE, timer |-> "off"] \in TabStates
    BY PageType DEF TabStates
  <2>2. TabsOK' /\ StorageOK'
    BY <1>0, <1>5, <2>1 DEF Reload, TabsOK, StorageOK
  <2>3. NoRequest \in Requests
    BY DEF NoRequest, Requests, None
  <2>4. RequestsOK'
    BY <1>0, <1>5, <2>3 DEF Reload, RequestsOK
  <2>5. [call[t] EXCEPT !.heard = FALSE] \in Exchanges /\ [login[t] EXCEPT !.heard = FALSE] \in Logins
    BY <1>0 DEF Exchanges, Logins
  <2>6. next' = next /\ Issued' = Issued
    BY <1>5 DEF Reload, Issued
  <2>7. CallsOK' /\ LoginsOK'
    <3>1. call' \in [Tab -> Exchanges] /\ login' \in [Tab -> Logins]
      BY <1>0, <1>5, <2>5 DEF Reload, CallsOK, LoginsOK
    <3>2. \A u \in Tab : /\ call'[u].pc = call[u].pc /\ call'[u].tok = call[u].tok
                         /\ call'[u].new = call[u].new /\ login'[u].new = login[u].new
      BY <1>0, <1>5 DEF Reload, CallsOK, LoginsOK, Exchanges, Logins
    <3>. QED
      BY <1>0, <2>6, <3>1, <3>2 DEF CallsOK, LoginsOK
  <2>8. {call[t].tok} \ {None} \subseteq Issued
    BY <1>0 DEF CallsOK, Exchanges, Issued, Pair, None, TokensOK, SessionAssumption
  <2>9. TokensOK' /\ AccountOK'
    BY <1>0, <1>5, <2>8 DEF Reload, TokensOK, AccountOK, Issued
  <2>. QED
    BY <2>2, <2>4, <2>7, <2>9, BrowserParts DEF IInv
<1>. QED
  BY <1>1, <1>2, <1>3, <1>4, <1>5 DEF Tick

-----------------------------------------------------------------------------
(* Type correctness                                                         *)

LEMMA InitHolds == ASSUME SessionAssumption, Init PROVE IInv
<1>1. First \in Password /\ 1 \in Pair /\ MaxPairs \in Nat /\ 2 <= MaxPairs + 1
  BY DEF First, SessionAssumption, Pair
<1>2. Typed(First) \in Credentials
  BY <1>1 DEF Typed, Credentials
<1>3. TokensOK
  BY <1>1, <1>2 DEF Init, ServerInit, TokensOK, Issued
<1>4. AccountOK
  BY <1>1 DEF Init, ServerInit, AccountOK, Users, Changes, NoChange, SessionAssumption
<1>5. CallsOK
  BY DEF Init, ServerInit, CallsOK, Exchanges, NoCall, None
<1>6. LoginsOK
  BY <1>2 DEF Init, ServerInit, LoginsOK, Logins, NoLogin, None
<1>7. StorageOK /\ TabsOK /\ RequestsOK
  BY PageType DEF Init, ServerInit, StorageOK, TabsOK, TabStates, RequestsOK, Requests, NoRequest, None
<1>. QED
  BY <1>3, <1>4, <1>5, <1>6, <1>7, BrowserParts DEF IInv

LEMMA StepHolds == ASSUME SessionAssumption, IInv, [Next]_vars PROVE IInv'
<1>1. CASE Next
  BY <1>1, ExchangeKeeps, LoginKeeps, AdministerKeeps, ExpireKeeps, WorkKeeps, ReceiveKeeps, PageKeeps
     DEF Next, Serve, ServeTab, Work
<1>2. CASE UNCHANGED vars
  BY <1>2, TokensFrame, AccountFrame, CallsFrame, LoginsFrame, BrowserFrame
     DEF vars, server, IInv, TokensOK
<1>. QED
  BY <1>1, <1>2

THEOREM InvariantHolds == Spec => []IInv
<1>1. Init => IInv
  BY InitHolds, SessionAssumption
<1>2. IInv /\ [Next]_vars => IInv'
  BY StepHolds, SessionAssumption
<1>. QED
  BY <1>1, <1>2, PTL DEF Spec

\* The rows, the keys of Redis and the state of the tabs stay in their domains,
\* and no token is used before it was issued.
THEOREM TypeCorrect == Spec => []TypeOK
  BY InvariantHolds, TypeOKFollows, PTL

-----------------------------------------------------------------------------
(* No valid token outlives the password it was obtained with                *)

\* The credentials c were the account's when its version was c.ver.
Honest(c) ==
  /\ c.ver <= user.ver
  /\ c.ver = user.ver => c.pw = user.pw /\ c.bans = user.bans

\* Besides the tokens, every login whose password was found right holds honest
\* credentials until its tokens are signed; no hash is replaced meanwhile.
HonestInv ==
  /\ \A j \in Issued : Honest(pair[j])
  /\ \A t \in Tab : login[t].pc \in {"rehash", "issue"} => Honest(login[t].cred)
  /\ ~user.legacy /\ \A t \in Tab : ~login[t].legacy

LEMMA HonestFrame ==
  ASSUME HonestInv, UNCHANGED <<pair, next, login, user>> PROVE HonestInv'
  BY DEF HonestInv, Honest, Issued

\* A row whose version grows leaves no credentials current.
LEMMA NewVersion ==
  ASSUME IInv, HonestInv, user' \in Users, user'.ver = user.ver + 1, ~user'.legacy,
         UNCHANGED <<pair, next, login>>
  PROVE  HonestInv'
<1>1. user.ver \in Nat /\ (\A j \in Issued : pair[j].ver \in Nat)
      /\ (\A t \in Tab : login[t].cred.ver \in Nat)
  BY DEF IInv, AccountOK, Users, TokensOK, LoginsOK, Logins, Credentials, Issued
<1>. QED
  BY <1>1 DEF HonestInv, Honest, Issued

LEMMA IssueHonest ==
  ASSUME SessionAssumption, IInv, NEW c \in Credentials, Honest(c), Issue(c), UNCHANGED user,
         \A j \in Issued : Honest(pair[j])
  PROVE  (\A j \in Issued : Honest(pair[j]))'
<1>1. Issued' = Issued \cup {next} /\ pair' = [pair EXCEPT ![next] = c] /\ next \in Pair
  BY DEF IInv, TokensOK, Issue, Issued, Pair, SessionAssumption
<1>2. ASSUME NEW j \in Issued' PROVE Honest(pair[j])'
  <2>1. pair'[j] = IF j = next THEN c ELSE pair[j]
    BY <1>1, <1>2 DEF IInv, TokensOK, Issued
  <2>. QED
    BY <1>1, <1>2, <2>1 DEF Honest, Issued
<1>. QED
  BY <1>2

LEMMA HonestStep == ASSUME SessionAssumption, IInv, HonestInv, [Next]_vars PROVE HonestInv'
<1>0. /\ user \in Users /\ login \in [Tab -> Logins] /\ pair \in [Pair -> Credentials]
      /\ First \in Password
  BY DEF IInv, AccountOK, LoginsOK, TokensOK, SessionAssumption, First
<1>1. ASSUME NEW t \in Tab, ExchangeToken(t) PROVE HonestInv'
  <2>. DEFINE j == call[t].tok
  <2>1. CASE Issue([pair[j] EXCEPT !.ver = user.ver]) /\ pair[j].ver = user.ver
    <3>1. call[t].pc # "idle" => j \in Issued
      BY DEF IInv, CallsOK
    <3>2. j \in Issued
      BY <1>1, <3>1 DEF ExchangeToken
    <3>3. [pair[j] EXCEPT !.ver = user.ver] \in Credentials
          /\ Honest([pair[j] EXCEPT !.ver = user.ver])
      BY <1>0, <2>1, <3>2 DEF HonestInv, Honest, Issued, Credentials, Users
    <3>4. UNCHANGED <<user, login>>
      BY <1>1 DEF ExchangeToken
    <3>. QED
      BY <2>1, <3>3, <3>4, IssueHonest DEF HonestInv, Honest
  <2>2. CASE UNCHANGED <<pair, next>>
    BY <1>1, <2>2, HonestFrame DEF ExchangeToken
  <2>. QED
    BY <1>1, <2>1, <2>2 DEF ExchangeToken
<1>2. ASSUME NEW t \in Tab, CheckLogin(t) PROVE HonestInv'
  <2>. DEFINE c == Compared(user, login[t].cred.pw)
  <2>1. \A u \in Tab : login'[u].legacy = login[u].legacy \/ login'[u].legacy = user.legacy
    BY <1>0, <1>2 DEF CheckLogin, Logins
  <2>2. ASSUME NEW u \in Tab, login'[u].pc \in {"rehash", "issue"} PROVE Honest(login'[u].cred)
    <3>1. CASE u = t
      <4>1. login[t].cred.pw = user.pw /\ login'[t].cred = c
        BY <1>0, <1>2, <2>2, <3>1 DEF CheckLogin, Logins
      <4>. QED
        BY <1>0, <3>1, <4>1 DEF Honest, Compared, Users
    <3>2. CASE u # t
      BY <1>0, <1>2, <2>2, <3>2 DEF CheckLogin, HonestInv
    <3>. QED
      BY <3>1, <3>2
  <2>3. UNCHANGED <<user, pair, next>>
    BY <1>2 DEF CheckLogin
  <2>. QED
    BY <2>1, <2>2, <2>3 DEF HonestInv, Honest, Issued
<1>3. ASSUME NEW t \in Tab, Rehash(t) PROVE HonestInv'
  <2>1. UNCHANGED <<user, pair, next>>
    BY <1>3 DEF Rehash, HonestInv
  <2>2. \A u \in Tab : /\ login'[u].cred = login[u].cred /\ login'[u].legacy = login[u].legacy
                       /\ login'[u].pc = login[u].pc \/ (u = t /\ login[t].pc = "rehash")
    BY <1>0, <1>3 DEF Rehash, Logins
  <2>. QED
    BY <2>1, <2>2 DEF HonestInv, Honest, Issued
<1>4. ASSUME NEW t \in Tab, IssueLogin(t) PROVE HonestInv'
  <2>1. login[t].pc = "issue" /\ Issue(login[t].cred) /\ UNCHANGED user /\ login[t].cred \in Credentials
    BY <1>0, <1>4 DEF IssueLogin, Logins
  <2>2. (\A j \in Issued : Honest(pair[j]))'
    BY <2>1, IssueHonest DEF HonestInv
  <2>3. \A u \in Tab : /\ login'[u].legacy = login[u].legacy
                       /\ login'[u].pc \in {"rehash", "issue"} => login'[u] = login[u]
    BY <1>0, <1>4 DEF IssueLogin, Logins
  <2>. QED
    BY <2>1, <2>2, <2>3 DEF HonestInv, Honest
<1>5. CASE WriteChange
  <2>1. user'.ver = user.ver + 1 /\ ~user'.legacy /\ UNCHANGED <<pair, next, login>>
    BY <1>0, <1>5 DEF WriteChange, Users
  <2>0. user.ver + 1 \in Nat /\ change.pw \in Password
    BY <1>0 DEF Users, IInv, AccountOK, Changes
  <2>3. [user EXCEPT !.pw = change.pw, !.legacy = FALSE, !.ver = user.ver + 1] \in Users
    BY <1>0, <2>0 DEF Users
  <2>2. user' \in Users
    BY <1>5, <2>3 DEF WriteChange
  <2>. QED
    BY <2>1, <2>2, NewVersion
<1>6. CASE SetStatus
  <2>1. UNCHANGED <<pair, next, login>>
    BY <1>6 DEF SetStatus
  <2>2. CASE user' = [user EXCEPT !.active = TRUE]
    BY <1>0, <2>1, <2>2 DEF HonestInv, Honest, Issued, Users
  <2>3. CASE user' = [user EXCEPT !.active = FALSE, !.ver = user.ver + 1, !.bans = user.bans + 1]
    <3>1. user.ver + 1 \in Nat /\ user.bans + 1 \in Nat
      BY <1>0 DEF Users
    <3>2. user' \in Users /\ user'.ver = user.ver + 1 /\ ~user'.legacy
      BY <1>0, <2>3, <3>1 DEF Users, HonestInv
    <3>. QED
      BY <2>1, <3>2, NewVersion
  <2>. QED
    BY <1>6, <2>2, <2>3 DEF SetStatus
<1>7. ASSUME NEW t \in Tab, Submit(t) \/ Enter(t) \/ Reject(t) \/ Drop(t) \/ Reload(t) PROVE HonestInv'
  <2>1. UNCHANGED <<user, pair, next>>
    BY <1>7 DEF Submit, Enter, Reject, Drop, Reload, browser
  <2>2. \A u \in Tab : /\ login'[u].legacy => login[u].legacy
                       /\ login'[u].pc \in {"rehash", "issue"} =>
                            login'[u].pc = login[u].pc /\ login'[u].cred = login[u].cred
    <3>1. CASE Submit(t)
      BY <1>0, <3>1 DEF Submit, NoLogin, Logins
    <3>2. CASE Enter(t) \/ Reject(t) \/ Drop(t)
      BY <1>0, <3>2 DEF Enter, Reject, Drop, NoLogin, Logins
    <3>3. CASE Reload(t)
      BY <1>0, <3>3 DEF Reload, Logins
    <3>. QED
      BY <1>7, <3>1, <3>2, <3>3
  <2>. QED
    BY <2>1, <2>2 DEF HonestInv, Honest, Issued
<1>8. ASSUME NEW t \in Tab, TakeToken(t) \/ MarkToken(t) \/ LookForGrace(t) \/ Renew(t) \/ GiveUp(t)
                              \/ Notice(t) \/ Navigate(t) \/ Logout(t)
      PROVE  HonestInv'
  BY <1>8, HonestFrame DEF TakeToken, MarkToken, LookForGrace, Renew, GiveUp, Notice, Navigate, Logout, server
<1>9. ASSUME NEW t \in Tab, NEW q \in Request, Send(t, q) \/ Answer(t, q) \/ Refuse(t, q)
      PROVE  HonestInv'
  BY <1>9, HonestFrame DEF Send, Answer, Refuse, server
<1>10. ASSUME NEW j \in Pair, Revoke(j) \/ Expire(j) PROVE HonestInv'
  BY <1>10, HonestFrame DEF Revoke, Expire, ExpireAccess, ExpireGrace
<1>11. CASE CheckChange \/ UNCHANGED vars
  BY <1>11, HonestFrame DEF CheckChange, vars, server
<1>. QED
  BY <1>1, <1>2, <1>3, <1>4, <1>5, <1>6, <1>7, <1>8, <1>9, <1>10, <1>11
     DEF Next, Serve, ServeTab, Receive, Tick, Work, Exchange, Login, Administer

\* Unless old hashes are being replaced, every token of the present version was
\* obtained with the present password, since the account was last disabled.
THEOREM HonestTokens == ~Legacy /\ Spec => []TokenHonest
<1>1. ~Legacy /\ Init => HonestInv
  <2>1. ASSUME ~Legacy, Init PROVE \A j \in Issued : Honest(pair[j])
    BY <2>1, SessionAssumption DEF Init, ServerInit, Honest, Issued, Typed, Pair
  <2>2. ASSUME ~Legacy, Init
        PROVE  ~user.legacy /\ \A t \in Tab : ~login[t].legacy /\ login[t].pc = "idle"
    BY <2>2 DEF Init, ServerInit, NoLogin
  <2>. QED
    BY <2>1, <2>2 DEF HonestInv
<1>2. IInv /\ HonestInv /\ [Next]_vars => HonestInv'
  BY HonestStep, SessionAssumption
<1>3. HonestInv => TokenHonest
  BY DEF HonestInv, Honest, TokenHonest
<1>. QED
  BY <1>1, <1>2, <1>3, InvariantHolds, PTL DEF Spec

-----------------------------------------------------------------------------
(* Nobody waits for an exchange that has ended                              *)

LEMMA WaitersStep == ASSUME IInv, WaitersServed, [Next]_vars PROVE WaitersServed'
<1>. DEFINE Waits(t) == \E q \in Request : req[t][q].pc = "wait"
<1>0. /\ call \in [Tab -> Exchanges] /\ req \in [Tab -> [Request -> Requests]]
      /\ \A t \in Tab : Waits(t) <=> call[t].heard
  BY BrowserParts DEF IInv, CallsOK, RequestsOK, WaitersServed, Refreshing
<1>. SUFFICES ASSUME NEW u \in Tab PROVE Waits(u)' <=> call'[u].heard
  BY DEF WaitersServed, Refreshing
<1>. HIDE DEF Waits
<1>1. ASSUME UNCHANGED req, call'[u].heard <=> call[u].heard PROVE Waits(u)' <=> call'[u].heard
  BY <1>0, <1>1 DEF Waits
<1>2. ASSUME NEW t \in Tab, Exchange(t), UNCHANGED browser PROVE Waits(u)' <=> call'[u].heard
  <2>1. call'[u].heard = call[u].heard
    <3>1. ASSUME NEW pc, Step(t, pc) PROVE call'[u].heard = call[u].heard
      BY <1>0, <3>1 DEF Step, Exchanges
    <3>2. CASE call' = [call EXCEPT ![t].pc = "ok", ![t].new = next]
      BY <1>0, <3>2 DEF Exchanges
    <3>3. CASE TakeToken(t) \/ MarkToken(t)
      BY <3>1, <3>3 DEF TakeToken, MarkToken
    <3>4. CASE LookForGrace(t)
      BY <3>1, <3>4 DEF LookForGrace
    <3>5. CASE ExchangeToken(t)
      BY <3>1, <3>2, <3>5 DEF ExchangeToken
    <3>. QED
      BY <1>2, <3>3, <3>4, <3>5 DEF Exchange
  <2>. QED
    BY <1>1, <1>2, <2>1 DEF browser
<1>3. ASSUME NEW t \in Tab, NEW q \in Request, NEW r \in Requests, Put(t, q, r),
             r.pc # "wait", req[t][q].pc # "wait", UNCHANGED call
      PROVE  Waits(u)' <=> call'[u].heard
  <2>1. \A p \in Request : req'[u][p].pc = "wait" <=> req[u][p].pc = "wait"
    BY <1>0, <1>3 DEF Put
  <2>. QED
    BY <1>0, <1>3, <2>1 DEF Waits
<1>4. NoRequest \in Requests
      /\ \A j \in Nat : [pc |-> "sent", tok |-> j, retried |-> FALSE] \in Requests
  BY DEF NoRequest, Requests, None
<1>5. storage.token \in Nat
  BY BrowserParts DEF IInv, StorageOK
<1>6. ASSUME NEW t \in Tab, NEW q \in Request, Send(t, q) \/ Answer(t, q)
      PROVE  Waits(u)' <=> call'[u].heard
  BY <1>3, <1>4, <1>5, <1>6 DEF Send, Answer, server, NoRequest
<1>7. ASSUME NEW t \in Tab, NEW q \in Request, Refuse(t, q) PROVE Waits(u)' <=> call'[u].heard
  <2>1. CASE Put(t, q, NoRequest) /\ UNCHANGED call
    BY <1>3, <1>4, <1>7, <2>1 DEF Refuse, NoRequest
  <2>2. CASE /\ Put(t, q, [req[t][q] EXCEPT !.pc = "wait"])
             /\ (call[t].heard /\ UNCHANGED call) \/ call'[t].heard
             /\ \A v \in Tab \ {t} : call'[v] = call[v]
    <3>1. CASE u = t
      <4>1. req'[t][q].pc = "wait"
        BY <1>0, <2>2 DEF Put, Requests
      <4>. QED
        BY <2>2, <3>1, <4>1 DEF Waits
    <3>2. CASE u # t
      <4>1. req'[u] = req[u] /\ call'[u] = call[u]
        BY <1>0, <2>2, <3>2 DEF Put
      <4>. QED
        BY <1>0, <4>1 DEF Waits
    <3>. QED
      BY <3>1, <3>2
  <2>. QED
    BY <1>0, <1>7, <2>1, <2>2 DEF Refuse, Refreshing
<1>8. ASSUME NEW t \in Tab, Renew(t) \/ GiveUp(t) \/ Reload(t) PROVE Waits(u)' <=> call'[u].heard
  <2>1. CASE u = t
    <3>1. ~call'[u].heard
      BY <1>0, <1>8, <2>1 DEF Renew, GiveUp, Reload, NoCall, Exchanges
    <3>2. \A q \in Request : req'[u][q].pc # "wait"
      BY <1>0, <1>8, <2>1 DEF Renew, GiveUp, Reload, NoRequest
    <3>. QED
      BY <3>1, <3>2 DEF Waits
  <2>2. CASE u # t
    <3>1. req'[u] = req[u] /\ call'[u] = call[u]
      BY <1>0, <1>8, <2>2 DEF Renew, GiveUp, Reload
    <3>. QED
      BY <1>0, <3>1 DEF Waits
  <2>. QED
    BY <2>1, <2>2
<1>9. ASSUME NEW t \in Tab, Drop(t) \/ Enter(t) \/ Reject(t) \/ Notice(t) \/ Navigate(t) \/ Submit(t)
                              \/ (Login(t) /\ UNCHANGED browser)
      PROVE  Waits(u)' <=> call'[u].heard
  <2>1. UNCHANGED req /\ (UNCHANGED call \/ (~call[t].heard /\ call' = [call EXCEPT ![t] = NoCall]))
    <3>1. CASE Drop(t)
      BY <3>1 DEF Drop, browser
    <3>2. CASE Enter(t) \/ Reject(t) \/ Notice(t) \/ Navigate(t) \/ Submit(t)
      BY <3>2 DEF Enter, Reject, Notice, Navigate, Submit, browser, server
    <3>3. CASE Login(t) /\ UNCHANGED browser
      BY <3>3 DEF Login, CheckLogin, Rehash, IssueLogin, browser
    <3>. QED
      BY <1>9, <3>1, <3>2, <3>3
  <2>2. call'[u].heard <=> call[u].heard
    <3>1. CASE u = t
      BY <1>0, <2>1, <3>1 DEF NoCall
    <3>2. CASE u # t
      BY <1>0, <2>1, <3>2
    <3>. QED
      BY <3>1, <3>2
  <2>. QED
    BY <1>1, <2>1, <2>2
<1>10. ASSUME NEW t \in Tab, Logout(t) PROVE Waits(u)' <=> call'[u].heard
  <2>1. PICK q \in Request : req[t][q].pc = "idle" /\ Put(t, q, [pc |-> "sent", tok |-> None, retried |-> FALSE])
    BY <1>10 DEF Logout
  <2>. QED
    BY <1>3, <1>4, <1>10, <2>1 DEF Logout, None
<1>11. CASE Serve \/ UNCHANGED vars
  <2>1. UNCHANGED <<req, call>>
    BY <1>11 DEF Serve, Administer, CheckChange, WriteChange, SetStatus, Revoke, Expire, ExpireAccess,
                 ExpireGrace, browser, vars, server
  <2>. QED
    BY <1>1, <2>1
<1>. QED
  BY <1>2, <1>6, <1>7, <1>8, <1>9, <1>10, <1>11 DEF Next, ServeTab, Receive, Tick, Work

\* A request that waits has an exchange that will wake it, and only such
\* exchanges are heard by their tab.
THEOREM EveryWaiterServed == Spec => []WaitersServed
<1>1. Init => WaitersServed
  BY DEF Init, ServerInit, WaitersServed, Refreshing, NoCall, NoRequest
<1>2. IInv /\ WaitersServed /\ [Next]_vars => WaitersServed'
  BY WaitersStep
<1>. QED
  BY <1>1, <1>2, InvariantHolds, PTL DEF Spec

-----------------------------------------------------------------------------
(* Nobody is sent back to the login without a cause                         *)

\* A refresh token that will never be exchanged again, for a reason that lasts.
Gone(j) == pair[j].ver # user.ver \/ j \in revoked \/ j \in hurt

\* A token that an exchange can begin with, or that is gone.
Fresh(j) == j \in white \/ Gone(j)

\* Versions only grow, and disabling an account raises it: no token and no login
\* that has been let through has the version of a disabled account.
Past(c) == c.ver <= user.ver /\ (~user.active => c.ver < user.ver)
Versions ==
  /\ \A j \in Issued : Past(pair[j])
  /\ \A t \in Tab : login[t].pc \in {"rehash", "issue"} => Past(login[t].cred)

\* The token of an exchange is still in the whitelist or in its period of grace,
\* unless the one that took it is about to start that period.
Taken(j) == \E u \in Tab : call[u].pc = "mark" /\ call[u].tok = j
Exchanged ==
  \A t \in Tab : call[t].pc # "idle" =>
    LET j == call[t].tok IN
    /\ Fresh(j) \/ j \in grace \/ Taken(j)
    /\ call[t].pc = "look" => j \notin white
    /\ call[t].pc = "denied" => Gone(j)
    /\ ~call[t].heard => j \in hurt

\* A pair that is on its way to the browser is known to nobody else.
Untouched(j) == /\ Fresh(j)
                /\ j # storage.rt /\ \A u \in Tab : call[u].tok # j
OnItsWay ==
  /\ \A t \in Tab : /\ call[t].new # None <=> call[t].pc = "ok"
                    /\ login[t].new # None <=> login[t].pc = "ok"
                    /\ call[t].new # None => Untouched(call[t].new)
                    /\ login[t].new # None => Untouched(login[t].new)
  /\ \A t, u \in Tab :
       /\ call[t].new # None => call[t].new # login[u].new
       /\ t # u /\ call[t].new # None => call[t].new # call[u].new
       /\ t # u /\ login[t].new # None => login[t].new # login[u].new

\* The token in the storage can be exchanged, or a tab that will replace it has
\* its exchange under way.
Stored ==
  storage.rt # None =>
    \/ Fresh(storage.rt)
    \/ \E u \in Tab : call[u].pc # "idle" /\ call[u].heard /\ call[u].tok = storage.rt

\* Whoever still waits for the notice was sent back by somebody.
Timed == \A t \in Tab : tab[t].timer = "notice" => tab[t].pending

CauseInv == Versions /\ Exchanged /\ OnItsWay /\ Stored /\ Timed

\* Numbers of pairs that somebody holds were issued.
LEMMA Known ==
  ASSUME IInv
  PROVE  /\ \A t \in Tab : call[t].pc # "idle" => call[t].tok \in Issued
         /\ \A t \in Tab : call[t].new # None => call[t].new \in Issued
         /\ \A t \in Tab : login[t].new # None => login[t].new \in Issued
         /\ storage.rt # None => storage.rt \in Issued
         /\ next \notin Issued /\ next # None /\ storage.rt # next
         /\ \A t \in Tab : call[t].tok # next /\ call[t].new # next /\ login[t].new # next
<1>1. next \in Nat /\ 0 < next /\ next <= MaxPairs + 1 /\ MaxPairs \in Nat
  BY SessionAssumption DEF IInv, TokensOK
<1>2. ASSUME NEW j \in Nat, j < next, j # None
      PROVE  j \in Issued
  BY <1>1, <1>2 DEF Issued, Pair, None
<1>3. \A t \in Tab : /\ call[t].tok \in Nat /\ call[t].tok < next
                     /\ call[t].new \in Nat /\ call[t].new < next
                     /\ login[t].new \in Nat /\ login[t].new < next
  BY DEF IInv, CallsOK, LoginsOK, Exchanges, Logins
<1>4. storage.rt \in Nat /\ storage.rt < next
  BY DEF IInv, BrowserTypeOK
<1>5. \A t \in Tab : call[t].pc # "idle" => call[t].tok \in Issued
  BY DEF IInv, CallsOK
<1>6. next \notin Issued /\ next # None
  BY <1>1 DEF Issued, None
<1>7. \A j \in Nat : j < next => j # next
  BY <1>1
<1> QED  BY <1>2, <1>3, <1>4, <1>5, <1>6, <1>7

\* The version of the account never falls, nor does one pass it.
LEMMA GrownVersion ==
  ASSUME IInv, Versions, user' \in Users, user'.ver = user.ver + 1, UNCHANGED <<pair, next, login>>
  PROVE  Versions'
<1>1. /\ user.ver \in Nat /\ \A j \in Issued : pair[j].ver \in Nat
      /\ \A t \in Tab : login[t].cred.ver \in Nat
  BY DEF IInv, AccountOK, Users, TokensOK, LoginsOK, Logins, Credentials, Issued
<1> QED  BY <1>1 DEF Versions, Past, Issued

LEMMA VersionsFrame ==
  ASSUME Versions, UNCHANGED <<pair, next, login, user>>
  PROVE  Versions'
  BY DEF Versions, Past, Issued

LEMMA IssueVersion ==
  ASSUME IInv, Versions, NEW c \in Credentials, Past(c), Issue(c), UNCHANGED user
  PROVE  (\A j \in Issued : Past(pair[j]))'
<1>1. Issued' = Issued \cup {next} /\ pair' = [pair EXCEPT ![next] = c] /\ next \in Pair
  BY SessionAssumption DEF IInv, TokensOK, Issue, Issued, Pair
<1>2. ASSUME NEW j \in Issued'
      PROVE  Past(pair[j])'
  <2>1. pair'[j] = IF j = next THEN c ELSE pair[j]
    BY <1>1, <1>2 DEF IInv, TokensOK, Issued
  <2> QED  BY <1>1, <1>2, <2>1 DEF Versions, Past, Issued
<1> QED  BY <1>2

LEMMA VersionsStep == ASSUME IInv, Versions, [Next]_vars PROVE Versions'
<1>0. /\ user \in Users /\ user.ver \in Nat /\ login \in [Tab -> Logins]
      /\ pair \in [Pair -> Credentials]
  BY DEF IInv, AccountOK, LoginsOK, TokensOK, Users
<1>1. ASSUME NEW t \in Tab, ExchangeToken(t)
      PROVE  Versions'
  <2> DEFINE c == [pair[call[t].tok] EXCEPT !.ver = user.ver]
  <2>1. CASE Issue(c) /\ user.active /\ UNCHANGED <<user, login>>
    <3>1. call[t].tok \in Issued
      BY <1>1 DEF ExchangeToken, IInv, CallsOK
    <3>2. c \in Credentials /\ Past(c)
      BY <1>0, <2>1, <3>1 DEF Past, Issued, Credentials
    <3> HIDE DEF c
    <3> QED  BY <2>1, <3>2, IssueVersion DEF Versions, Past
  <2>2. CASE UNCHANGED <<pair, next>>
    BY <1>1, <2>2, VersionsFrame DEF ExchangeToken
  <2> QED  BY <1>1, <2>1, <2>2 DEF ExchangeToken
<1>2. ASSUME NEW t \in Tab, CheckLogin(t)
      PROVE  Versions'
  <2>1. ASSUME NEW u \in Tab, login'[u].pc \in {"rehash", "issue"}
        PROVE  Past(login'[u].cred)
    <3>1. CASE u = t
      <4>1. user.active /\ login'[t].cred.ver = user.ver
        BY <1>0, <1>2, <2>1, <3>1 DEF CheckLogin, Logins, Compared
      <4> QED  BY <1>0, <3>1, <4>1 DEF Past
    <3>2. CASE u # t
      BY <1>0, <1>2, <2>1, <3>2 DEF CheckLogin, Versions
    <3> QED  BY <3>1, <3>2
  <2> QED  BY <1>2, <2>1 DEF CheckLogin, Versions, Past, Issued
<1>3. ASSUME NEW t \in Tab, Rehash(t)
      PROVE  Versions'
  <2>1. \A u \in Tab : /\ login'[u].cred = login[u].cred
                       /\ login'[u].pc = login[u].pc \/ (u = t /\ login[t].pc = "rehash")
    BY <1>0, <1>3 DEF Rehash, Logins
  <2>2. user'.ver = user.ver /\ user'.active = user.active /\ UNCHANGED <<pair, next>>
    BY <1>0, <1>3 DEF Rehash, Users
  <2> QED  BY <2>1, <2>2 DEF Versions, Past, Issued
<1>4. ASSUME NEW t \in Tab, IssueLogin(t)
      PROVE  Versions'
  <2>1. login[t].pc = "issue" /\ Issue(login[t].cred) /\ UNCHANGED user /\ login[t].cred \in Credentials
    BY <1>0, <1>4 DEF IssueLogin, Logins
  <2>2. (\A j \in Issued : Past(pair[j]))'
    BY <2>1, IssueVersion DEF Versions
  <2>3. \A u \in Tab : login'[u].pc \in {"rehash", "issue"} => login'[u] = login[u]
    BY <1>0, <1>4 DEF IssueLogin, Logins
  <2> QED  BY <2>1, <2>2, <2>3 DEF Versions, Past
<1>5. CASE WriteChange
  <2>1. user'.ver = user.ver + 1 /\ UNCHANGED <<pair, next, login>>
    BY <1>0, <1>5 DEF WriteChange, Users
  <2>2. user' \in Users
    BY <1>5, StepHolds, SessionAssumption DEF Next, IInv, AccountOK, Administer, Serve
  <2> QED  BY <2>1, <2>2, GrownVersion
<1>6. CASE SetStatus
  <2>1. UNCHANGED <<pair, next, login>>
    BY <1>6 DEF SetStatus
  <2>2. CASE user' = [user EXCEPT !.active = TRUE]
    BY <1>0, <2>1, <2>2 DEF Versions, Past, Issued, Users
  <2>3. CASE user' = [user EXCEPT !.active = FALSE, !.ver = user.ver + 1, !.bans = user.bans + 1]
    <3>1. user' \in Users
      BY StepHolds, SessionAssumption DEF IInv, AccountOK
    <3>2. user'.ver = user.ver + 1
      BY <1>0, <2>3 DEF Users
    <3> QED  BY <2>1, <3>1, <3>2, GrownVersion
  <2> QED  BY <1>6, <2>2, <2>3 DEF SetStatus
<1>7. ASSUME NEW t \in Tab, Submit(t) \/ Enter(t) \/ Reject(t) \/ Drop(t) \/ Reload(t)
      PROVE  Versions'
  <2>1. UNCHANGED <<user, pair, next>>
    BY <1>7 DEF Submit, Enter, Reject, Drop, Reload, browser
  <2>2. \A u \in Tab : login'[u].pc \in {"rehash", "issue"} =>
          login'[u].pc = login[u].pc /\ login'[u].cred = login[u].cred
    <3>1. CASE Submit(t)
      BY <1>0, <3>1 DEF Submit, NoLogin, Logins
    <3>2. CASE Enter(t) \/ Reject(t) \/ Drop(t)
      BY <1>0, <3>2 DEF Enter, Reject, Drop, NoLogin, Logins
    <3>3. CASE Reload(t)
      BY <1>0, <3>3 DEF Reload, Logins
    <3> QED  BY <1>7, <3>1, <3>2, <3>3
  <2> QED  BY <2>1, <2>2 DEF Versions, Past, Issued
<1>8. ASSUME NEW t \in Tab, TakeToken(t) \/ MarkToken(t) \/ LookForGrace(t) \/ Renew(t) \/ GiveUp(t)
                              \/ Notice(t) \/ Navigate(t) \/ Logout(t)
      PROVE  Versions'
  BY <1>8, VersionsFrame DEF TakeToken, MarkToken, LookForGrace, Renew, GiveUp, Notice, Navigate, Logout, server
<1>9. ASSUME NEW t \in Tab, NEW q \in Request, Send(t, q) \/ Answer(t, q) \/ Refuse(t, q)
      PROVE  Versions'
  BY <1>9, VersionsFrame DEF Send, Answer, Refuse, server
<1>10. ASSUME NEW j \in Pair, Revoke(j) \/ Expire(j)
       PROVE  Versions'
  BY <1>10, VersionsFrame DEF Revoke, Expire, ExpireAccess, ExpireGrace
<1>11. CASE CheckChange \/ UNCHANGED vars
  BY <1>11, VersionsFrame DEF CheckChange, vars, server
<1> QED
  BY <1>1, <1>2, <1>3, <1>4, <1>5, <1>6, <1>7, <1>8, <1>9, <1>10, <1>11
     DEF Next, Serve, ServeTab, Receive, Tick, Work, Exchange, Login, Administer

\* What no step undoes.
Lasts ==
  /\ revoked \subseteq revoked' /\ hurt \subseteq hurt'
  /\ next' = next \/ next' = next + 1
  /\ \A j \in Issued : pair'[j] = pair[j]
  /\ user'.ver = user.ver \/ user'.ver = user.ver + 1

LEMMA IssueLasts ==
  ASSUME IInv, NEW c, Issue(c), UNCHANGED <<revoked, user>>
  PROVE  Lasts
<1>1. \A j \in Issued : j \in Pair /\ j # next
  BY DEF IInv, TokensOK, Issued
<1>2. pair \in [Pair -> Credentials] /\ pair' = [pair EXCEPT ![next] = c] /\ next' = next + 1
  BY DEF IInv, TokensOK, Issue
<1>3. hurt \subseteq hurt'
  BY DEF Issue, Hurt, Unhurt
<1> QED  BY <1>1, <1>2, <1>3 DEF Lasts

LEMMA NothingUndone == ASSUME IInv, [Next]_vars PROVE Lasts
<1>0. user \in Users /\ user.ver \in Nat
  BY DEF IInv, AccountOK, Users
<1>1. ASSUME NEW t \in Tab, ServeTab(t)
      PROVE  Lasts
  <2>1. CASE TakeToken(t) \/ MarkToken(t) \/ LookForGrace(t)
    BY <2>1 DEF TakeToken, MarkToken, LookForGrace, Hurt, Unhurt, Lasts
  <2>2. CASE ExchangeToken(t)
    BY <2>2, IssueLasts DEF ExchangeToken, Lasts
  <2>3. CASE CheckLogin(t)
    BY <2>3 DEF CheckLogin, Lasts
  <2>4. CASE Rehash(t)
    BY <1>0, <2>4 DEF Rehash, Lasts, Users
  <2>5. CASE IssueLogin(t)
    BY <2>5, IssueLasts DEF IssueLogin
  <2> QED  BY <1>1, <2>1, <2>2, <2>3, <2>4, <2>5 DEF ServeTab, Exchange, Login
<1>2. CASE WriteChange
  BY <1>0, <1>2 DEF WriteChange, Lasts, Users
<1>3. CASE SetStatus
  BY <1>0, <1>3 DEF SetStatus, Lasts, Users
<1>4. CASE CheckChange \/ UNCHANGED vars
  BY <1>4 DEF CheckChange, vars, server, Lasts
<1>5. ASSUME NEW j \in Pair, Revoke(j) \/ Expire(j)
      PROVE  Lasts
  BY <1>5 DEF Revoke, Expire, ExpireAccess, ExpireGrace, Lasts
<1>6. ASSUME NEW t \in Tab, Receive(t)
      PROVE  Lasts
  BY <1>6 DEF Receive, Renew, GiveUp, Drop, Enter, Reject, Hurt, Unhurt, Lasts
<1>7. ASSUME NEW t \in Tab, Tick(t) \/ Navigate(t) \/ Submit(t) \/ Logout(t)
      PROVE  Lasts
  BY <1>7 DEF Tick, Notice, Reload, Navigate, Submit, Logout, server, Lasts
<1>8. ASSUME NEW t \in Tab, NEW q \in Request, Send(t, q) \/ Work(t, q)
      PROVE  Lasts
  BY <1>8 DEF Send, Work, Answer, Refuse, server, Lasts
<1> QED
  BY <1>1, <1>2, <1>3, <1>4, <1>5, <1>6, <1>7, <1>8 DEF Next, Serve, Administer

\* A token that is gone stays gone.
LEMMA GoneStays ==
  ASSUME IInv, Versions, [Next]_vars
  PROVE  /\ \A j \in Issued : j \in Issued' /\ (Gone(j) => Gone(j)')
         /\ \A j \in hurt' \cup revoked' : Gone(j)'
         /\ hurt \subseteq hurt'
<1>0. /\ user.ver \in Nat /\ next \in Nat
      /\ \A j \in Issued : pair[j].ver \in Nat /\ pair[j].ver <= user.ver
  BY DEF IInv, AccountOK, TokensOK, Users, Credentials, Versions, Past, Issued
<1>1. Lasts
  BY NothingUndone
<1>2. ASSUME NEW j \in Issued
      PROVE  j \in Issued' /\ (Gone(j) => Gone(j)')
  <2>1. j \in Issued'
    BY <1>0, <1>1 DEF Issued, Lasts, Pair
  <2>2. pair[j].ver # user.ver => pair'[j].ver # user'.ver
    BY <1>0, <1>1 DEF Lasts
  <2> QED  BY <1>1, <2>1, <2>2 DEF Gone, Lasts
<1> QED  BY <1>1, <1>2 DEF Gone, Lasts

\* The parts of the invariant, for steps that begin no exchange and take no token.
LEMMA ExchangedFrame ==
  ASSUME IInv, Versions, Exchanged, [Next]_vars, \A j \in Issued : j \in white' => j \in white,
         \A j \in white : Fresh(j)',
         \A j \in grace : j \in grace' \/ Gone(j)' \/ \A t \in Tab : call[t].pc = "idle" \/ call[t].tok # j,
         \A t \in Tab : \/ call'[t].pc = "idle" /\ call[t].pc # "mark"
                        \/ /\ call'[t].pc = call[t].pc \/ (call[t].pc = "user" /\ call'[t].pc = "ok")
                           /\ call'[t].tok = call[t].tok
                           /\ call'[t].heard = call[t].heard \/ call[t].tok \in hurt'
  PROVE  Exchanged'
<1> SUFFICES ASSUME NEW t \in Tab, call'[t].pc # "idle"
             PROVE  /\ (Fresh(call[t].tok) \/ call[t].tok \in grace \/ Taken(call[t].tok))'
                    /\ call'[t].pc = "look" => call'[t].tok \notin white'
                    /\ call'[t].pc = "denied" => Gone(call[t].tok)'
                    /\ ~call'[t].heard => call'[t].tok \in hurt'
  BY DEF Exchanged
<1> PICK j : j = call[t].tok
  OBVIOUS
<1>1. /\ call'[t].pc = call[t].pc \/ (call[t].pc = "user" /\ call'[t].pc = "ok")
      /\ call[t].pc # "idle" /\ call'[t].tok = j
      /\ call'[t].heard = call[t].heard \/ j \in hurt'
      /\ j \in Issued
  BY Known
<1>2. /\ j \in Issued /\ (Gone(j) => Gone(j)') /\ hurt \subseteq hurt'
  BY <1>1, GoneStays, Known
<1>3. /\ Fresh(j) \/ j \in grace \/ Taken(j)
      /\ call[t].pc = "look" => j \notin white
      /\ call[t].pc = "denied" => Gone(j)
      /\ ~call[t].heard => j \in hurt
  BY <1>1 DEF Exchanged
<1>4. Taken(j) => Taken(j)'
  BY DEF Taken
<1>5. (Fresh(j) \/ j \in grace \/ Taken(j))'
  BY <1>1, <1>2, <1>3, <1>4 DEF Fresh
<1> QED  BY <1>1, <1>2, <1>3, <1>5

LEMMA WayFrame ==
  ASSUME OnItsWay,
         \A t \in Tab : /\ call'[t].new \in {call[t].new, None} /\ login'[t].new \in {login[t].new, None}
                        /\ call'[t].new # None <=> call'[t].pc = "ok"
                        /\ login'[t].new # None <=> login'[t].pc = "ok",
         \A j : /\ j # None /\ Untouched(j)
                /\ \E t \in Tab : j = call'[t].new \/ j = login'[t].new
                => Untouched(j)'
  PROVE  OnItsWay'
<1>1. ASSUME NEW t \in Tab
      PROVE  /\ call'[t].new # None => Untouched(call[t].new)'
             /\ login'[t].new # None => Untouched(login[t].new)'
  <2> PICK j, k : j = call'[t].new /\ k = login'[t].new
    OBVIOUS
  <2>1. (j # None => Untouched(j)) /\ (k # None => Untouched(k))
    BY DEF OnItsWay
  <2>2. (j # None => Untouched(j)') /\ (k # None => Untouched(k)')
    BY <2>1
  <2> QED  BY <2>2 DEF Untouched, Fresh, Gone
<1> QED  BY <1>1 DEF OnItsWay

LEMMA StoredFrame ==
  ASSUME Stored, storage'.rt \in {storage.rt, None},
         NEW j, j = storage.rt, j # None /\ Fresh(j) => Fresh(j)',
         \A t \in Tab : \/ /\ call'[t].pc = call[t].pc /\ call'[t].tok = call[t].tok
                           /\ call'[t].heard = call[t].heard
                        \/ call[t].tok = j /\ j # None => ~call[t].heard \/ Gone(j)'
  PROVE  Stored'
  BY DEF Stored, Fresh, Gone

LEMMA QuietStep ==
  ASSUME IInv, CauseInv, [Next]_vars, UNCHANGED call, white' \subseteq white,
         \A j \in white : Fresh(j)',
         \A j \in grace : j \in grace' \/ Gone(j)' \/ \A t \in Tab : call[t].pc = "idle" \/ call[t].tok # j,
         \A t \in Tab : /\ login'[t].new \in {login[t].new, None}
                        /\ login'[t].new # None <=> login'[t].pc = "ok",
         storage'.rt \in {storage.rt, None}
  PROVE  Exchanged' /\ OnItsWay' /\ Stored'
<1>1. Exchanged'
  BY ExchangedFrame DEF CauseInv, Exchanged
<1>2. ASSUME NEW j \in Issued, Fresh(j)
      PROVE  Fresh(j)'
  BY <1>2, GoneStays DEF CauseInv, Fresh
<1>3. OnItsWay'
  <2>1. \A t \in Tab : call'[t].new # None <=> call'[t].pc = "ok"
    BY DEF CauseInv, OnItsWay
  <2>2. ASSUME NEW j, j # None, Untouched(j), \E t \in Tab : j = call'[t].new \/ j = login'[t].new
        PROVE  Untouched(j)'
    <3>1. j \in Issued
      BY <2>2, Known
    <3> QED  BY <1>2, <2>2, <3>1 DEF Untouched, None
  <2> QED  BY <2>1, <2>2, WayFrame DEF CauseInv
<1>4. Stored'
  <2> PICK j : j = storage.rt
    OBVIOUS
  <2>1. j # None /\ Fresh(j) => Fresh(j)'
    BY <1>2, Known
  <2> QED  BY <2>1, StoredFrame DEF CauseInv
<1> QED  BY <1>1, <1>3, <1>4

\* Administrators, time, requests and logins that issue nothing.
LEMMA ServeQuiet ==
  ASSUME IInv, CauseInv, [Next]_vars, Serve
  PROVE  Exchanged' /\ OnItsWay' /\ Stored'
<1>0. \A j \in white : j \in Issued /\ (Gone(j) => Gone(j)')
  BY GoneStays DEF CauseInv, IInv, TokensOK
<1>1. \A t \in Tab : login[t].new # None <=> login[t].pc = "ok"
  BY DEF CauseInv, OnItsWay
<1>2. CASE UNCHANGED <<white, grace, call, login, storage>>
  BY <1>1, <1>2, QuietStep DEF Fresh
<1>3. ASSUME NEW j \in Pair, Revoke(j), UNCHANGED browser
      PROVE  Exchanged' /\ OnItsWay' /\ Stored'
  <2>1. /\ white' = white \ {j} /\ grace' = grace \ {j} /\ UNCHANGED <<call, login, storage>>
        /\ j \in revoked'
    BY <1>3 DEF Revoke, browser
  <2>2. Gone(j)'
    BY <2>1 DEF Gone
  <2> QED  BY <1>1, <2>1, <2>2, QuietStep DEF Fresh
<1>4. ASSUME NEW j \in Pair, Expire(j), UNCHANGED browser
      PROVE  Exchanged' /\ OnItsWay' /\ Stored'
  <2>1. UNCHANGED <<white, call, login, storage>>
    BY <1>4 DEF Expire, ExpireAccess, ExpireGrace, browser
  <2>2. \A k \in grace : k \in grace' \/ \A t \in Tab : call[t].pc = "idle" \/ call[t].tok # k
    BY <1>4 DEF Expire, ExpireAccess, ExpireGrace
  <2> QED  BY <1>1, <2>1, <2>2, QuietStep DEF Fresh
<1>5. CheckChange \/ WriteChange \/ SetStatus => UNCHANGED <<white, grace, call, login>>
  BY DEF CheckChange, WriteChange, SetStatus
<1> QED  BY <1>2, <1>3, <1>4, <1>5 DEF Serve, Administer, browser

LEMMA RequestQuiet ==
  ASSUME IInv, CauseInv, [Next]_vars, NEW t \in Tab, NEW q \in Request,
         Send(t, q) \/ Answer(t, q) \/ (Refuse(t, q) /\ UNCHANGED call)
  PROVE  Exchanged' /\ OnItsWay' /\ Stored'
<1>1. \A u \in Tab : login[u].new # None <=> login[u].pc = "ok"
  BY DEF CauseInv, OnItsWay
<1>2. UNCHANGED <<white, grace, call, login>>
  BY DEF Send, Answer, Refuse, server
<1>3. storage'.rt \in {storage.rt, None}
  BY DEF Send, Answer, Refuse, Kick
<1> QED  BY <1>1, <1>2, <1>3, QuietStep DEF Fresh

LEMMA LoginQuiet ==
  ASSUME IInv, CauseInv, [Next]_vars, NEW t \in Tab,
         CheckLogin(t) \/ Rehash(t) \/ Submit(t) \/ Reject(t),
         CheckLogin(t) \/ Rehash(t) => UNCHANGED browser
  PROVE  Exchanged' /\ OnItsWay' /\ Stored'
<1>1. login \in [Tab -> Logins] /\ \A u \in Tab : login[u].new # None <=> login[u].pc = "ok"
  BY DEF CauseInv, OnItsWay, IInv, LoginsOK
<1>2. UNCHANGED <<white, grace, call>>
  BY DEF CheckLogin, Rehash, Submit, Reject
<1>3. storage'.rt \in {storage.rt, None}
  <2>1. CASE UNCHANGED browser
    BY <2>1 DEF browser
  <2>2. CASE Reject(t)
    BY <2>2 DEF Reject, Kick
  <2> QED  BY <2>1, <2>2 DEF Submit
<1>4. \A u \in Tab : /\ login'[u].new \in {login[u].new, None}
                     /\ login'[u].new # None <=> login'[u].pc = "ok"
  <2>1. CASE CheckLogin(t) \/ Rehash(t)
    BY <1>1, <2>1 DEF CheckLogin, Rehash, Logins
  <2>2. CASE Submit(t)
    <3>1. PICK p \in Password :
            login' = [login EXCEPT ![t] = [NoLogin EXCEPT !.pc = "check", !.cred = Typed(p), !.heard = TRUE]]
      BY <2>2 DEF Submit
    <3>2. login'[t].new = None /\ login'[t].pc = "check"
      BY <1>1, <3>1 DEF NoLogin
    <3> QED  BY <1>1, <3>1, <3>2
  <2>3. CASE Reject(t)
    BY <1>1, <2>3 DEF Reject, NoLogin
  <2> QED  BY <2>1, <2>2, <2>3
<1>5. \A j \in white : Fresh(j)'
  BY <1>2 DEF Fresh
<1> QED  BY <1>2, <1>3, <1>4, <1>5, QuietStep

\* An exchange or a login ends, or its page goes away.
LEMMA FreshStays ==
  ASSUME IInv, Versions, [Next]_vars, white \subseteq white'
  PROVE  \A j \in Issued : Fresh(j) => Fresh(j)'
  BY GoneStays DEF Fresh

LEMMA EnterKeeps ==
  ASSUME IInv, CauseInv, [Next]_vars, NEW t \in Tab, Enter(t)
  PROVE  Exchanged' /\ OnItsWay' /\ Stored'
<1>0. /\ login \in [Tab -> Logins] /\ login[t].new # None /\ UNCHANGED <<white, grace, call>>
      /\ \A u \in Tab : u # t => login'[u] = login[u]
      /\ login'[t].new = None /\ login'[t].pc = "idle" /\ storage'.rt = login[t].new
  BY DEF CauseInv, OnItsWay, Enter, IInv, LoginsOK, NoLogin
<1>1. \A j \in Issued : Fresh(j) => Fresh(j)'
  BY <1>0, FreshStays DEF CauseInv
<1>2. Exchanged'
  BY <1>0, ExchangedFrame DEF CauseInv, Fresh
<1>3. OnItsWay'
  <2>1. \A u \in Tab : /\ call'[u].new \in {call[u].new, None} /\ login'[u].new \in {login[u].new, None}
                       /\ call'[u].new # None <=> call'[u].pc = "ok"
                       /\ login'[u].new # None <=> login'[u].pc = "ok"
    BY <1>0 DEF CauseInv, OnItsWay
  <2>2. ASSUME NEW j, j # None, Untouched(j), NEW u \in Tab, j = call'[u].new \/ j = login'[u].new
        PROVE  Untouched(j)'
    <3>1. j \in Issued
      BY <1>0, <2>1, <2>2, Known
    <3>2. j # login[t].new
      BY <1>0, <2>2 DEF CauseInv, OnItsWay
    <3> QED  BY <1>0, <1>1, <2>2, <3>1, <3>2 DEF Untouched
  <2> QED  BY <2>1, <2>2, WayFrame DEF CauseInv
<1>4. Stored'
  <2> PICK j : j = login[t].new
    OBVIOUS
  <2>1. Fresh(j)'
    BY <1>0, <1>1, Known DEF CauseInv, OnItsWay, Untouched
  <2> QED  BY <1>0, <2>1 DEF Stored, Fresh, Gone
<1> QED  BY <1>2, <1>3, <1>4

LEMMA RenewKeeps ==
  ASSUME IInv, CauseInv, [Next]_vars, NEW t \in Tab, Renew(t)
  PROVE  Exchanged' /\ OnItsWay' /\ Stored'
<1>0. /\ call \in [Tab -> Exchanges] /\ call[t].new # None /\ call[t].pc = "ok"
      /\ UNCHANGED <<white, grace, login>>
      /\ \A u \in Tab : u # t => call'[u] = call[u]
      /\ call'[t].new = None /\ call'[t].tok = None /\ call'[t].pc = "idle"
      /\ storage'.rt = call[t].new
  BY DEF CauseInv, OnItsWay, Renew, IInv, CallsOK, NoCall
<1>1. \A j \in Issued : Fresh(j) => Fresh(j)'
  BY <1>0, FreshStays DEF CauseInv
<1>2. Exchanged'
  BY <1>0, ExchangedFrame DEF CauseInv, Fresh
<1>3. OnItsWay'
  <2>1. \A u \in Tab : /\ call'[u].new \in {call[u].new, None} /\ login'[u].new \in {login[u].new, None}
                       /\ call'[u].new # None <=> call'[u].pc = "ok"
                       /\ login'[u].new # None <=> login'[u].pc = "ok"
    BY <1>0 DEF CauseInv, OnItsWay
  <2>2. ASSUME NEW j, j # None, Untouched(j), NEW u \in Tab, j = call'[u].new \/ j = login'[u].new
        PROVE  Untouched(j)'
    <3>1. j \in Issued
      BY <1>0, <2>1, <2>2, Known
    <3>2. j # call[t].new
      BY <1>0, <2>2 DEF CauseInv, OnItsWay
    <3> QED  BY <1>0, <1>1, <2>2, <3>1, <3>2 DEF Untouched
  <2> QED  BY <2>1, <2>2, WayFrame DEF CauseInv
<1>4. Stored'
  <2> PICK j : j = call[t].new
    OBVIOUS
  <2>1. Fresh(j)'
    BY <1>0, <1>1, Known DEF CauseInv, OnItsWay, Untouched
  <2> QED  BY <1>0, <2>1 DEF Stored, Fresh, Gone
<1> QED  BY <1>2, <1>3, <1>4

\* What is on its way to another tab or another login stays so.
LEMMA LossKeeps ==
  ASSUME IInv, CauseInv, [Next]_vars, UNCHANGED <<white, grace>>, storage'.rt \in {storage.rt, None},
         \A u \in Tab : /\ \/ /\ call'[u].pc = "idle" /\ call'[u].tok = None /\ call'[u].new = None
                              /\ call[u].pc \in {"ok", "denied"}
                              /\ ~call[u].heard \/ storage'.rt = None
                           \/ /\ call'[u].pc = call[u].pc /\ call'[u].tok = call[u].tok
                              /\ call'[u].new = call[u].new
                              /\ call'[u].heard = call[u].heard \/ call[u].tok \in hurt'
                                                                \/ call[u].pc = "idle"
                        /\ \/ login'[u].new = None /\ login'[u].pc # "ok"
                           \/ login'[u].new = login[u].new /\ login'[u].pc = login[u].pc
  PROVE  Exchanged' /\ OnItsWay' /\ Stored'
<1>1. \A j \in Issued : Fresh(j) => Fresh(j)'
  BY FreshStays DEF CauseInv
<1>2. Exchanged'
  <2>1. \A u \in Tab : \/ call'[u].pc = "idle" /\ call[u].pc # "mark"
                       \/ /\ call'[u].pc = call[u].pc /\ call'[u].tok = call[u].tok
                          /\ call'[u].heard = call[u].heard \/ call[u].tok \in hurt'
    OBVIOUS
  <2>2. /\ \A j \in white : Fresh(j)'
        /\ \A j \in grace : j \in grace'
    BY DEF Fresh
  <2> QED  BY <2>1, <2>2, ExchangedFrame DEF CauseInv
<1>3. OnItsWay'
  <2>1. \A u \in Tab : /\ call'[u].new \in {call[u].new, None} /\ login'[u].new \in {login[u].new, None}
                       /\ call'[u].new # None <=> call'[u].pc = "ok"
                       /\ login'[u].new # None <=> login'[u].pc = "ok"
    <3> SUFFICES ASSUME NEW u \in Tab
                 PROVE  /\ call'[u].new \in {call[u].new, None} /\ login'[u].new \in {login[u].new, None}
                        /\ call'[u].new # None <=> call'[u].pc = "ok"
                        /\ login'[u].new # None <=> login'[u].pc = "ok"
      OBVIOUS
    <3>1. /\ call[u].new # None <=> call[u].pc = "ok"
          /\ login[u].new # None <=> login[u].pc = "ok"
      BY DEF CauseInv, OnItsWay
    <3> QED  BY <3>1
  <2>2. ASSUME NEW j, j # None, Untouched(j), \E u \in Tab : j = call'[u].new \/ j = login'[u].new
        PROVE  Untouched(j)'
    <3>1. j \in Issued
      BY <2>1, <2>2, Known
    <3>2. Fresh(j)'
      BY <1>1, <2>2, <3>1 DEF Untouched
    <3>3. \A u \in Tab : call'[u].tok \in {call[u].tok, None}
      OBVIOUS
    <3> QED  BY <2>2, <3>2, <3>3 DEF Untouched
  <2> QED  BY <2>1, <2>2, WayFrame DEF CauseInv
<1>4. Stored'
  <2> PICK j : j = storage.rt
    OBVIOUS
  <2>1. storage'.rt = None => Stored'
    BY DEF Stored
  <2>2. j # None /\ Fresh(j) => Fresh(j)'
    BY <1>1, Known
  <2>3. ASSUME storage'.rt # None
        PROVE  Stored'
    <3>1. \A i \in hurt' : Gone(i)'
      BY GoneStays DEF CauseInv
    <3>2. ASSUME NEW u \in Tab, call[u].pc # "idle", call[u].heard, call[u].tok = j
          PROVE  Gone(j)' \/ (call'[u].pc # "idle" /\ call'[u].heard /\ call'[u].tok = j)
      BY <2>3, <3>1, <3>2
    <3> QED  BY <2>2, <2>3, <3>2 DEF CauseInv, Stored, Fresh, Gone
  <2> QED  BY <2>1, <2>3
<1> QED  BY <1>2, <1>3, <1>4

LEMMA LossSteps ==
  ASSUME IInv, CauseInv, [Next]_vars, NEW t \in Tab, Drop(t) \/ GiveUp(t) \/ Reload(t)
  PROVE  Exchanged' /\ OnItsWay' /\ Stored'
<1>0. /\ call \in [Tab -> Exchanges] /\ login \in [Tab -> Logins]
      /\ NoCall.pc = "idle" /\ NoCall.tok = None /\ NoCall.new = None
      /\ NoLogin.pc = "idle" /\ NoLogin.new = None
  BY DEF IInv, CallsOK, LoginsOK, NoCall, NoLogin
<1>1. UNCHANGED <<white, grace>>
  BY DEF Drop, GiveUp, Reload
<1>2. CASE Drop(t)
  <2>1. UNCHANGED storage
    BY <1>2 DEF Drop, browser
  <2>2. CASE /\ call[t].pc \in {"ok", "denied"} /\ ~call[t].heard
             /\ call' = [call EXCEPT ![t] = NoCall] /\ UNCHANGED login
    BY <1>0, <1>1, <2>1, <2>2, LossKeeps
  <2>3. CASE UNCHANGED call /\ login' = [login EXCEPT ![t] = NoLogin]
    BY <1>0, <1>1, <2>1, <2>3, LossKeeps
  <2> QED  BY <1>2, <2>2, <2>3 DEF Drop
<1>3. CASE GiveUp(t)
  <2>1. storage'.rt = None /\ UNCHANGED login /\ call[t].pc \in {"ok", "denied"}
        /\ call' = [call EXCEPT ![t] = NoCall]
    BY <1>3 DEF GiveUp, Kick
  <2> QED  BY <1>0, <1>1, <2>1, LossKeeps
<1>4. CASE Reload(t)
  <2>1. /\ UNCHANGED storage /\ call' = [call EXCEPT ![t].heard = FALSE]
        /\ login' = [login EXCEPT ![t].heard = FALSE]
    BY <1>4 DEF Reload
  <2>2. call[t].pc # "idle" => call[t].tok \in hurt'
    <3>1. call[t].pc # "idle" => call[t].tok # None
      BY Known DEF Issued, Pair, None
    <3> QED  BY <1>4, <3>1 DEF Reload
  <2>3. \A u \in Tab : /\ call'[u].pc = call[u].pc /\ call'[u].tok = call[u].tok
                       /\ call'[u].new = call[u].new
                       /\ u # t => call'[u].heard = call[u].heard
                       /\ login'[u].new = login[u].new /\ login'[u].pc = login[u].pc
    BY <1>0, <2>1 DEF Exchanges, Logins
  <2> QED  BY <1>1, <2>1, <2>2, <2>3, LossKeeps
<1> QED  BY <1>2, <1>3, <1>4

\* The exchange of the token in the storage begins.
LEMMA StartKeeps ==
  ASSUME IInv, CauseInv, [Next]_vars, NEW t \in Tab, NEW q \in Request, Refuse(t, q),
         call' # call
  PROVE  Exchanged' /\ OnItsWay' /\ Stored'
<1> PICK j : j = storage.rt
  OBVIOUS
<1>0. /\ call \in [Tab -> Exchanges] /\ j # None /\ call[t].pc = "idle"
      /\ call' = [call EXCEPT ![t] = [pc |-> "take", tok |-> j, new |-> None, heard |-> TRUE]]
      /\ UNCHANGED <<white, grace, login, storage>>
  BY DEF IInv, CallsOK, Refuse
<1>1. /\ call'[t] = [pc |-> "take", tok |-> j, new |-> None, heard |-> TRUE]
      /\ \A u \in Tab : u # t => call'[u] = call[u]
      /\ call[t].new = None /\ j \in Issued
  BY <1>0, Known DEF CauseInv, OnItsWay
<1>2. /\ \A k \in Issued : (Fresh(k) => Fresh(k)') /\ (Gone(k) => Gone(k)')
      /\ hurt \subseteq hurt'
  BY <1>0, FreshStays, GoneStays DEF CauseInv
<1>3. \A k : Taken(k) => Taken(k)'
  BY <1>0, <1>1 DEF Taken
<1>4. Fresh(j) \/ j \in grace \/ Taken(j)
  BY <1>0 DEF CauseInv, Stored, Exchanged
<1>5. (Fresh(j) \/ j \in grace \/ Taken(j))'
  BY <1>0, <1>1, <1>2, <1>3, <1>4
<1>6. Exchanged'
  <2> SUFFICES ASSUME NEW u \in Tab, call'[u].pc # "idle", u # t
               PROVE  /\ (Fresh(call[u].tok) \/ call[u].tok \in grace \/ Taken(call[u].tok))'
                      /\ call'[u].pc = "look" => call'[u].tok \notin white'
                      /\ call'[u].pc = "denied" => Gone(call[u].tok)'
                      /\ ~call'[u].heard => call'[u].tok \in hurt'
    BY <1>1, <1>5 DEF Exchanged
  <2> PICK k : k = call[u].tok
    OBVIOUS
  <2>1. call'[u] = call[u] /\ k \in Issued
    BY <1>1, Known
  <2>2. /\ Fresh(k) \/ k \in grace \/ Taken(k)
        /\ call[u].pc = "look" => k \notin white
        /\ call[u].pc = "denied" => Gone(k)
        /\ ~call[u].heard => k \in hurt
    BY <2>1 DEF CauseInv, Exchanged
  <2>3. (Fresh(k) \/ k \in grace \/ Taken(k))'
    BY <1>0, <1>2, <1>3, <2>1, <2>2
  <2> QED  BY <1>0, <1>2, <2>1, <2>2, <2>3
<1>7. OnItsWay'
  <2>1. \A u \in Tab : /\ call'[u].new \in {call[u].new, None} /\ login'[u].new \in {login[u].new, None}
                       /\ call'[u].new # None <=> call'[u].pc = "ok"
                       /\ login'[u].new # None <=> login'[u].pc = "ok"
    BY <1>0, <1>1 DEF CauseInv, OnItsWay
  <2>2. ASSUME NEW k, k # None, Untouched(k), \E u \in Tab : k = call'[u].new \/ k = login'[u].new
        PROVE  Untouched(k)'
    <3>1. k \in Issued
      BY <2>1, <2>2, Known
    <3> QED  BY <1>0, <1>1, <1>2, <2>2, <3>1 DEF Untouched
  <2> QED  BY <2>1, <2>2, WayFrame DEF CauseInv
<1>8. Stored'
  BY <1>0, <1>1 DEF Stored
<1> QED  BY <1>6, <1>7, <1>8

\* An exchange goes on.
LEMMA ForwardFrame ==
  ASSUME IInv, CauseInv, [Next]_vars, NEW t \in Tab, NEW j, j = call[t].tok,
         call[t].pc \notin {"idle", "ok"}, NEW pc \in {"mark", "look", "user", "denied"}, Step(t, pc),
         UNCHANGED <<login, storage>>, white' \subseteq white, white \ {j} \subseteq white',
         grace \ {j} \subseteq grace', (Fresh(j) \/ j \in grace \/ Taken(j))',
         pc = "look" => j \notin white', pc = "denied" => Gone(j)'
  PROVE  Exchanged' /\ OnItsWay' /\ Stored'
<1>0. /\ call \in [Tab -> Exchanges] /\ call' = [call EXCEPT ![t].pc = pc]
  BY DEF IInv, CallsOK, Step
<1>1. \A u \in Tab : /\ call'[u].tok = call[u].tok /\ call'[u].new = call[u].new
                     /\ call'[u].heard = call[u].heard
                     /\ call'[u].pc = IF u = t THEN pc ELSE call[u].pc
  BY <1>0 DEF Exchanges
<1>2. /\ \A k \in Issued : k # j => (Fresh(k) => Fresh(k)')
      /\ \A k \in Issued : (Gone(k) => Gone(k)')
      /\ hurt \subseteq hurt' /\ \A k \in hurt' : Gone(k)'
  BY GoneStays DEF CauseInv, Fresh
<1>3. \A k : k # j /\ Taken(k) => Taken(k)'
  BY <1>1 DEF Taken
<1>4. Exchanged'
  <2> SUFFICES ASSUME NEW u \in Tab, call'[u].pc # "idle"
               PROVE  /\ (Fresh(call[u].tok) \/ call[u].tok \in grace \/ Taken(call[u].tok))'
                      /\ call'[u].pc = "look" => call'[u].tok \notin white'
                      /\ call'[u].pc = "denied" => Gone(call[u].tok)'
                      /\ ~call'[u].heard => call'[u].tok \in hurt'
    BY DEF Exchanged
  <2> PICK k : k = call[u].tok
    OBVIOUS
  <2>1. call'[u].tok = k /\ call[u].pc # "idle" /\ k \in Issued
    BY <1>1, Known
  <2>2. /\ Fresh(k) \/ k \in grace \/ Taken(k)
        /\ call[u].pc = "look" => k \notin white
        /\ call[u].pc = "denied" => Gone(k)
        /\ ~call[u].heard => k \in hurt
    BY <2>1 DEF CauseInv, Exchanged
  <2>3. (Fresh(k) \/ k \in grace \/ Taken(k))'
    BY <1>2, <1>3, <2>1, <2>2
  <2> QED  BY <1>1, <1>2, <2>1, <2>2, <2>3
<1>5. OnItsWay'
  <2>1. \A u \in Tab : /\ call'[u].new \in {call[u].new, None} /\ login'[u].new \in {login[u].new, None}
                       /\ call'[u].new # None <=> call'[u].pc = "ok"
                       /\ login'[u].new # None <=> login'[u].pc = "ok"
    BY <1>1 DEF CauseInv, OnItsWay
  <2>2. ASSUME NEW k, k # None, Untouched(k), \E u \in Tab : k = call'[u].new \/ k = login'[u].new
        PROVE  Untouched(k)'
    <3>1. k \in Issued /\ k # j
      BY <2>1, <2>2, Known DEF Untouched
    <3> QED  BY <1>1, <1>2, <2>2, <3>1 DEF Untouched
  <2> QED  BY <2>1, <2>2, WayFrame DEF CauseInv
<1>6. Stored'
  <2> PICK k : k = storage.rt
    OBVIOUS
  <2>0. k = storage'.rt /\ (k # None => k \in Issued)
    BY Known
  <2>1. CASE k = j /\ ~call[t].heard
    BY <1>1, <1>2, <2>0, <2>1 DEF CauseInv, Exchanged, Stored, Fresh, Gone
  <2>2. CASE k = j /\ call[t].heard
    BY <1>1, <2>0, <2>2 DEF Stored
  <2>3. CASE k # j
    BY <1>1, <1>2, <2>0, <2>3 DEF CauseInv, Stored, Fresh, Gone
  <2> QED  BY <2>1, <2>2, <2>3
<1> QED  BY <1>4, <1>5, <1>6

LEMMA ForwardSteps ==
  ASSUME IInv, CauseInv, [Next]_vars, NEW t \in Tab, UNCHANGED browser,
         TakeToken(t) \/ MarkToken(t) \/ LookForGrace(t) \/ (ExchangeToken(t) /\ Step(t, "denied"))
  PROVE  Exchanged' /\ OnItsWay' /\ Stored'
<1> PICK j : j = call[t].tok
  OBVIOUS
<1>0. /\ call \in [Tab -> Exchanges] /\ call[t].pc \notin {"idle", "ok"} /\ UNCHANGED <<login, storage>>
      /\ j \in Issued /\ (Gone(j) => Gone(j)') /\ (j \in hurt' => Gone(j)')
      /\ \A pc : Step(t, pc) => call' = [call EXCEPT ![t].pc = pc]
  BY Known, GoneStays DEF IInv, CallsOK, TakeToken, MarkToken, LookForGrace, ExchangeToken, browser,
                          CauseInv, Step
<1>1. Fresh(j) \/ j \in grace \/ Taken(j)
  BY <1>0 DEF CauseInv, Exchanged
<1>2. ASSUME NEW pc \in {"mark", "look", "user", "denied"}, Step(t, pc)
      PROVE  \A u \in Tab : call'[u].tok = call[u].tok /\ call'[u].pc = IF u = t THEN pc ELSE call[u].pc
  BY <1>0, <1>2 DEF Exchanges
<1>3. CASE TakeToken(t)
  <2>1. CASE Step(t, "denied") /\ Hurt(j)
    <3>1. Gone(j)'
      BY <1>0, <2>1 DEF Hurt
    <3> QED  BY <1>0, <1>3, <2>1, <3>1, ForwardFrame DEF TakeToken, Fresh
  <2>2. CASE j \in white /\ Step(t, "mark") /\ white' = white \ {j}
    <3>1. Taken(j)'
      BY <1>2, <2>2 DEF Taken
    <3> QED  BY <1>0, <1>3, <2>2, <3>1, ForwardFrame DEF TakeToken
  <2>3. CASE j \notin white /\ Step(t, "look") /\ white' = white \ {j}
    <3>1. (Fresh(j) \/ j \in grace \/ Taken(j))'
      BY <1>0, <1>1, <1>2, <1>3, <2>3 DEF TakeToken, Taken, Fresh
    <3> QED  BY <1>0, <1>3, <2>3, <3>1, ForwardFrame DEF TakeToken
  <2> QED  BY <1>3, <2>1, <2>2, <2>3 DEF TakeToken
<1>4. CASE MarkToken(t)
  <2>1. (Fresh(j) \/ j \in grace)' /\ white' = white /\ grace \subseteq grace' /\ Step(t, "user")
    BY <1>0, <1>4 DEF MarkToken, Hurt, Fresh
  <2> QED  BY <1>0, <2>1, ForwardFrame
<1>5. CASE LookForGrace(t)
  <2>1. Gone(j) \/ j \in grace
    BY <1>0, <1>1, <1>5 DEF LookForGrace, Taken, Fresh, CauseInv, Exchanged
  <2>2. UNCHANGED <<white, grace>>
    BY <1>5 DEF LookForGrace
  <2>3. CASE Step(t, "user") /\ j \in grace
    BY <1>0, <2>2, <2>3, ForwardFrame
  <2>4. CASE Step(t, "denied") /\ (j \notin grace \/ Hurt(j))
    <3>1. Gone(j)'
      BY <1>0, <2>1, <2>4 DEF Hurt
    <3> QED  BY <1>0, <2>2, <2>4, <3>1, ForwardFrame DEF Fresh
  <2> QED  BY <1>5, <2>3, <2>4 DEF LookForGrace
<1>6. CASE ExchangeToken(t) /\ Step(t, "denied")
  <2>1. Gone(j)
    <3>1. user.ver \in Nat /\ pair[j].ver \in Nat
      BY <1>0 DEF IInv, AccountOK, Users, TokensOK, Issued, Credentials
    <3>2. ~user.active \/ pair[j].ver # user.ver
      <4>1. call'[t].pc = "denied"
        BY <1>2, <1>6
      <4>2. CASE call' = [call EXCEPT ![t].pc = "ok", ![t].new = next]
        BY <1>0, <4>1, <4>2 DEF Exchanges
      <4> QED  BY <1>6, <4>2 DEF ExchangeToken
    <3> QED  BY <1>0, <3>1, <3>2 DEF CauseInv, Versions, Past, Gone
  <2>2. white' = white /\ grace \ {j} \subseteq grace'
    <3>1. call'[t].pc = "denied"
      BY <1>2, <1>6
    <3>2. CASE call' = [call EXCEPT ![t].pc = "ok", ![t].new = next]
      BY <1>0, <3>1, <3>2 DEF Exchanges
    <3> QED  BY <1>6, <3>2 DEF ExchangeToken
  <2>3. Gone(j)'
    BY <1>0, <2>1
  <2> QED  BY <1>0, <1>6, <2>2, <2>3, ForwardFrame DEF Fresh
<1> QED  BY <1>3, <1>4, <1>5, <1>6

\* A new pair is on its way.
LEMMA IssueFrame ==
  ASSUME IInv, CauseInv, [Next]_vars, NEW c, Issue(c), UNCHANGED <<grace, storage>>, NEW t \in Tab,
         \A u \in Tab : /\ call'[u].tok = call[u].tok /\ call'[u].heard = call[u].heard
                        /\ call'[u].pc = call[u].pc \/ (call[u].pc = "user" /\ call'[u].pc = "ok")
                        /\ call'[u].new # None <=> call'[u].pc = "ok"
                        /\ login'[u].new # None <=> login'[u].pc = "ok"
                        /\ u # t => call'[u].new = call[u].new /\ login'[u].new = login[u].new,
         \/ call'[t].new = next /\ login'[t].new = login[t].new
         \/ login'[t].new = next /\ call'[t].new = call[t].new
  PROVE  Exchanged' /\ OnItsWay' /\ Stored'
<1>0. /\ white \subseteq white' /\ white' \subseteq white \cup {next}
      /\ next \in white' \/ next \in hurt'
      /\ next \notin Issued /\ next # None
  BY Known DEF Issue, Hurt, Unhurt
<1>1. /\ \A j \in Issued : (Fresh(j) => Fresh(j)') /\ j # next
      /\ \A j \in hurt' : Gone(j)'
  BY <1>0, FreshStays, GoneStays, Known DEF CauseInv
<1>2. Exchanged'
  <2>1. white \subseteq Issued
    BY DEF IInv, TokensOK
  <2> QED  BY <1>0, <1>1, <2>1, ExchangedFrame DEF CauseInv, Fresh
<1>3. OnItsWay'
  <2> PICK n : n = next
    OBVIOUS
  <2>1. ASSUME NEW j \in Issued, Untouched(j)
        PROVE  Untouched(j)'
    BY <1>1, <2>1 DEF Untouched
  <2>2. Untouched(n)'
    BY <1>0, <1>1, Known DEF Untouched, Fresh
  <2>3. ASSUME NEW u \in Tab
        PROVE  /\ call[u].new # n /\ login[u].new # n
               /\ call[u].new # None => call[u].new \in Issued /\ Untouched(call[u].new)
               /\ login[u].new # None => login[u].new \in Issued /\ Untouched(login[u].new)
    BY Known DEF CauseInv, OnItsWay
  <2>4. ASSUME NEW u \in Tab
        PROVE  /\ call'[u].new # None => Untouched(call[u].new)'
               /\ login'[u].new # None => Untouched(login[u].new)'
    <3> PICK j, k : j = call'[u].new /\ k = login'[u].new
      OBVIOUS
    <3>1. /\ j # None => j = n \/ (j \in Issued /\ Untouched(j))
          /\ k # None => k = n \/ (k \in Issued /\ Untouched(k))
      BY <2>3
    <3>2. (j # None => Untouched(j)') /\ (k # None => Untouched(k)')
      BY <2>1, <2>2, <3>1
    <3> QED  BY <3>2 DEF Untouched, Fresh, Gone
  <2>5. \A u \in Tab : call'[u].new # None <=> call'[u].pc = "ok"
    OBVIOUS
  <2>6. \A u, w \in Tab :
          /\ call'[u].new # None => call'[u].new # login'[w].new
          /\ u # w /\ call'[u].new # None => call'[u].new # call'[w].new
          /\ u # w /\ login'[u].new # None => login'[u].new # login'[w].new
    BY <2>3 DEF CauseInv, OnItsWay
  <2> QED  BY <2>4, <2>6 DEF OnItsWay
<1>4. Stored'
  BY <1>1, Known DEF CauseInv, Stored, Fresh, Gone
<1> QED  BY <1>2, <1>3, <1>4

LEMMA IssueSteps ==
  ASSUME IInv, CauseInv, [Next]_vars, NEW t \in Tab, UNCHANGED browser,
         IssueLogin(t) \/ (ExchangeToken(t) /\ ~Step(t, "denied"))
  PROVE  Exchanged' /\ OnItsWay' /\ Stored'
<1>0. /\ call \in [Tab -> Exchanges] /\ login \in [Tab -> Logins] /\ UNCHANGED storage
      /\ next # None /\ \A u \in Tab : /\ call[u].new # None <=> call[u].pc = "ok"
                                       /\ login[u].new # None <=> login[u].pc = "ok"
  BY Known DEF IInv, CallsOK, LoginsOK, browser, CauseInv, OnItsWay
<1>1. CASE IssueLogin(t)
  <2>1. Issue(login[t].cred) /\ UNCHANGED <<grace, call>>
    BY <1>1 DEF IssueLogin
  <2>2. \A u \in Tab : /\ u # t => login'[u] = login[u]
                       /\ login'[t].new = next /\ login'[t].pc = "ok"
    BY <1>0, <1>1 DEF IssueLogin, Logins
  <2> QED  BY <1>0, <2>1, <2>2, IssueFrame
<1>2. CASE ExchangeToken(t) /\ ~Step(t, "denied")
  <2>1. PICK c : Issue(c)
    BY <1>2 DEF ExchangeToken
  <2>2. /\ UNCHANGED <<grace, login>> /\ call[t].pc = "user"
        /\ call' = [call EXCEPT ![t].pc = "ok", ![t].new = next]
    BY <1>2 DEF ExchangeToken
  <2>3. /\ call'[t].new = next /\ call'[t].pc = "ok" /\ call'[t].tok = call[t].tok
        /\ call'[t].heard = call[t].heard
        /\ \A u \in Tab : u # t => call'[u] = call[u]
    BY <1>0, <2>2 DEF Exchanges
  <2> QED  BY <1>0, <2>1, <2>2, <2>3, IssueFrame
<1> QED  BY <1>1, <1>2

LEMMA CauseInit == Init => CauseInv
<1> SUFFICES ASSUME Init PROVE CauseInv
  OBVIOUS
<1>1. Versions
  <2>1. \A j \in Issued : pair[j].ver = 0
    BY DEF Init, ServerInit, Issued, Typed
  <2>2. \A t \in Tab : login[t].pc = "idle"
    BY DEF Init, ServerInit, NoLogin
  <2> QED  BY <2>1, <2>2 DEF Init, ServerInit, Versions, Past
<1>2. \A t \in Tab : /\ call[t].pc = "idle" /\ call[t].new = None
                     /\ login[t].pc = "idle" /\ login[t].new = None
  BY DEF Init, ServerInit, NoCall, NoLogin
<1>3. storage.rt = None \/ storage.rt \in white
  BY DEF Init, ServerInit
<1> QED  BY <1>1, <1>2, <1>3 DEF CauseInv, Exchanged, OnItsWay, Stored, Fresh, Timed, Init

\* Only the way back to the login is begun, and it is begun with its first timer.
LEMMA TimedStep ==
  ASSUME IInv, Timed, [Next]_vars
  PROVE  Timed'
<1>0. tab \in [Tab -> TabStates]
  BY BrowserParts DEF IInv, TabsOK
<1>1. ASSUME NEW t \in Tab, Kick(t)
      PROVE  Timed'
  <2>1. CASE tab[t].pending
    BY <1>1, <2>1 DEF Kick, Timed
  <2>2. CASE tab' = [tab EXCEPT ![t].pending = TRUE, ![t].timer = "notice"]
    BY <1>0, <2>2 DEF Timed, TabStates
  <2> QED  BY <1>1, <2>1, <2>2 DEF Kick
<1>2. CASE UNCHANGED tab
  BY <1>2 DEF Timed
<1>3. ASSUME NEW t \in Tab, Enter(t) \/ Reload(t)
      PROVE  Timed'
  <2>1. \A u \in Tab : u # t => tab'[u] = tab[u]
    BY <1>0, <1>3 DEF Enter, Reload
  <2>2. tab'[t].timer # "notice"
    BY <1>0, <1>3 DEF Enter, Reload, TabStates
  <2> QED  BY <2>1, <2>2 DEF Timed
<1>4. ASSUME NEW t \in Tab, Navigate(t) \/ Logout(t)
      PROVE  Timed'
  BY <1>0, <1>4 DEF Navigate, Logout, Timed, TabStates
<1>5. ASSUME NEW t \in Tab, Notice(t)
      PROVE  Timed'
  <2>1. \A u \in Tab : u # t => tab'[u] = tab[u]
    BY <1>0, <1>5 DEF Notice
  <2>2. tab'[t].timer # "notice"
    BY <1>0, <1>5 DEF Notice, TabStates
  <2> QED  BY <2>1, <2>2 DEF Timed
<1>6. ASSUME NEW t \in Tab, Receive(t) \/ Submit(t)
      PROVE  Timed'
  BY <1>1, <1>2, <1>3, <1>6 DEF Receive, Renew, GiveUp, Drop, Reject, Submit, browser
<1>7. ASSUME NEW t \in Tab, NEW q \in Request, Send(t, q) \/ Work(t, q)
      PROVE  Timed'
  BY <1>1, <1>2, <1>7 DEF Send, Work, Answer, Refuse
<1>8. CASE Serve \/ (\E t \in Tab : ServeTab(t)) \/ UNCHANGED vars
  BY <1>2, <1>8 DEF Serve, ServeTab, vars, browser
<1> QED  BY <1>3, <1>4, <1>5, <1>6, <1>7, <1>8 DEF Next, Tick

LEMMA CauseStep == ASSUME IInv, CauseInv, [Next]_vars PROVE CauseInv'
<1>1. Versions' /\ Timed'
  BY VersionsStep, TimedStep DEF CauseInv
<1>2. CASE Serve
  BY <1>1, <1>2, ServeQuiet DEF CauseInv
<1>3. ASSUME NEW t \in Tab, ServeTab(t)
      PROVE  CauseInv'
  BY <1>1, <1>3, ForwardSteps, IssueSteps, LoginQuiet DEF CauseInv, ServeTab, Exchange, Login
<1>4. ASSUME NEW t \in Tab, Receive(t)
      PROVE  CauseInv'
  BY <1>1, <1>4, RenewKeeps, LossSteps, EnterKeeps, LoginQuiet DEF CauseInv, Receive, Reject, CheckLogin, Rehash
<1>5. ASSUME NEW t \in Tab, Reload(t) \/ Submit(t)
      PROVE  CauseInv'
  BY <1>1, <1>5, LossSteps, LoginQuiet DEF CauseInv, Submit
<1>6. ASSUME NEW t \in Tab, NEW q \in Request, Send(t, q) \/ Work(t, q)
      PROVE  CauseInv'
  BY <1>1, <1>6, RequestQuiet, StartKeeps DEF CauseInv, Work
<1>7. ASSUME NEW t \in Tab, Navigate(t) \/ Logout(t) \/ Notice(t)
      PROVE  CauseInv'
  <2>1. UNCHANGED <<white, grace, call, login>> /\ storage'.rt \in {storage.rt, None}
    BY <1>7 DEF Navigate, Logout, Notice, server
  <2>2. \A u \in Tab : login[u].new # None <=> login[u].pc = "ok"
    BY DEF CauseInv, OnItsWay
  <2> QED  BY <1>1, <2>1, <2>2, QuietStep DEF CauseInv, Fresh
<1>8. CASE UNCHANGED vars
  <2>1. UNCHANGED <<white, grace, call, login, storage>>
    BY <1>8 DEF vars, server, browser
  <2>2. \A u \in Tab : login[u].new # None <=> login[u].pc = "ok"
    BY DEF CauseInv, OnItsWay
  <2> QED  BY <1>1, <2>1, <2>2, QuietStep DEF CauseInv, Fresh
<1> QED  BY <1>2, <1>3, <1>4, <1>5, <1>6, <1>7, <1>8 DEF Next, Tick

\* A tab is sent back to the login only for a cause.
LEMMA KickHasCause ==
  ASSUME IInv, CauseInv, [Next]_vars, NEW t \in Tab, Kicked(t)
  PROVE  Excused(t) \/ RetryFailed(t)
<1>0. tab \in [Tab -> TabStates] /\ req \in [Tab -> [Request -> Requests]] /\ call \in [Tab -> Exchanges]
  BY BrowserParts DEF IInv, CallsOK, TabsOK, RequestsOK
<1>1. \A u \in Tab : Kick(u) => u = t
  BY <1>0 DEF Kick, Kicked
<1>2. ASSUME NEW q \in Request, Answer(t, q), Kick(t)
      PROVE  RetryFailed(t)
  <2>1. req[t][q].pc = "sent"
    BY <1>2 DEF Answer
  <2>2. CASE req[t][q].retried
    <3>1. req'[t][q] = NoRequest
      BY <1>0, <1>2 DEF Answer, Put
    <3> QED  BY <2>1, <2>2, <3>1 DEF RetryFailed, NoRequest
  <2>3. CASE UNCHANGED tab
    BY <2>3 DEF Kicked
  <2> QED  BY <1>2, <2>2, <2>3 DEF Answer
<1>3. ASSUME NEW q \in Request, Refuse(t, q), Kick(t)
      PROVE  Excused(t)
  BY <1>3 DEF Refuse, Excused, Kicked
<1>4. ASSUME GiveUp(t)
      PROVE  Excused(t)
  <2>1. CASE call[t].pc = "denied"
    <3>1. Gone(call[t].tok)
      BY <2>1 DEF CauseInv, Exchanged
    <3> QED  BY <2>1, <3>1 DEF Excused, Dead, Gone
  <2>2. CASE call[t].pc = "ok"
    BY <1>0, <1>4, <2>2 DEF GiveUp, Excused, NoCall
  <2> QED  BY <1>4, <2>1, <2>2 DEF GiveUp
<1>5. ASSUME NEW u \in Tab, Navigate(u) \/ Logout(u) \/ Notice(u) \/ Enter(u) \/ Reload(u)
      PROVE  FALSE
  <2>1. tab'[t].pending => tab[t].pending
    <3>1. CASE Navigate(u) \/ Logout(u)
      BY <1>0, <3>1 DEF Navigate, Logout, TabStates
    <3>2. CASE Notice(u)
      BY <1>0, <3>2 DEF Notice, TabStates, CauseInv, Timed
    <3>3. CASE Enter(u) \/ Reload(u)
      BY <1>0, <3>3 DEF Enter, Reload, TabStates
    <3> QED  BY <1>5, <3>1, <3>2, <3>3
  <2> QED  BY <2>1 DEF Kicked
<1>6. ASSUME NEW u \in Tab, NEW q \in Request, Send(u, q) \/ Work(u, q)
      PROVE  Excused(t) \/ RetryFailed(t)
  BY <1>1, <1>2, <1>3, <1>6 DEF Send, Work, Answer, Refuse, Kicked
<1>7. ASSUME NEW u \in Tab, Receive(u) \/ Submit(u)
      PROVE  Excused(t)
  BY <1>1, <1>4, <1>5, <1>7 DEF Receive, Renew, GiveUp, Drop, Reject, Submit, browser, Excused, Kicked
<1>8. CASE Serve \/ (\E u \in Tab : ServeTab(u)) \/ UNCHANGED vars
  BY <1>8 DEF Serve, ServeTab, vars, browser, Kicked
<1> QED  BY <1>5, <1>6, <1>7, <1>8 DEF Next, Tick

\* No tab goes back to the login unless the storage is empty, its own token is
\* dead, an answer was lost, a login was refused or a request failed after its
\* retry: tabs that exchange one token at the same time do not throw each other out.
THEOREM KickedOnlyForCause == Spec => KickedForCause
<1>1. Init => IInv /\ CauseInv
  BY InitHolds, CauseInit, SessionAssumption
<1>2. IInv /\ CauseInv /\ [Next]_vars => (IInv /\ CauseInv)'
  BY StepHolds, CauseStep, SessionAssumption
<1>3. IInv /\ CauseInv /\ [Next]_vars => [\A t \in Tab : Kicked(t) => Excused(t) \/ RetryFailed(t)]_vars
  BY KickHasCause
<1> QED  BY <1>1, <1>2, <1>3, PTL DEF Spec, KickedForCause
=============================================================================
