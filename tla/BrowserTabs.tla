---------------------------- MODULE BrowserTabs ----------------------------
(* The tabs of one browser.  They share the two tokens in the local storage *)
(* and run, each for itself, the interceptors of request.js: the single     *)
(* silent exchange for all requests refused at once, the retry, and the way *)
(* back to the login page with its two timers.  A JavaScript task is one    *)
(* step; an answer is read in the step that sends it unless it is an        *)
(* exchange's or a login's.                                                 *)
EXTENDS AuthSession

CONSTANTS Request,  \* the requests of a tab
          MaxOpen   \* bound: requests open at a time

VARIABLES
  storage, \* kb_token and kb_refresh_token
  tab,     \* page; logoutPending; its timer: 600 ms to the notice, 600 ms to the reload
  req      \* the business requests of each tab

browser == <<storage, tab, req>>
vars == <<server, browser>>

NoRequest == [pc |-> "idle", tok |-> None, retried |-> FALSE]

BrowserTypeOK ==
  /\ storage \in [token : Nat, rt : Nat]
  /\ storage.token < next /\ storage.rt < next
  /\ tab \in [Tab -> [page : {"app", "login"}, pending : BOOLEAN,
                      timer : {"off", "notice", "leave"}]]
  /\ req \in [Tab -> [Request -> [pc : {"idle", "sent", "wait"}, tok : Nat, retried : BOOLEAN]]]

PageOf(s) == IF s.token = None THEN "login" ELSE "app"

\* The browser has the first pair, or nobody is logged in yet.
Init ==
  /\ ServerInit
  /\ storage \in {[token |-> j, rt |-> j] : j \in {None, 1}}
  /\ tab = [t \in Tab |-> [page |-> PageOf(storage), pending |-> FALSE, timer |-> "off"]]
  /\ req = [t \in Tab |-> [q \in Request |-> NoRequest]]

Refreshing(t) == call[t].heard
Room == next + Cardinality({t \in Tab : call[t].pc # "idle"})
             + Cardinality({t \in Tab : login[t].pc # "idle"}) <= MaxPairs

\* forceRelogin: the shared tokens go, one pair of timers is started.
Kick(t) ==
  /\ storage' = [token |-> None, rt |-> None]
  /\ tab' = IF tab[t].pending THEN tab
            ELSE [tab EXCEPT ![t].pending = TRUE, ![t].timer = "notice"]

Open == {o \in Tab \X Request : req[o[1]][o[2]].pc # "idle"}
Put(t, q, r) == req' = [req EXCEPT ![t][q] = r]

-----------------------------------------------------------------------------
(* Requests                                                                 *)

\* The token is read when the request is sent.
Send(t, q) ==
  /\ tab[t].page = "app" /\ req[t][q].pc = "idle" /\ Cardinality(Open) < MaxOpen
  /\ Put(t, q, [pc |-> "sent", tok |-> storage.token, retried |-> FALSE])
  /\ UNCHANGED <<server, storage, tab>>

\* A request that is let in succeeds, or fails for a reason of its own.  The
\* rejection of a retried one reaches the catch of its exchange.
Answer(t, q) ==
  /\ req[t][q].pc = "sent" /\ Accepted(req[t][q].tok)
  /\ Put(t, q, NoRequest)
  /\ \/ UNCHANGED <<storage, tab, events>>
     \/ req[t][q].retried /\ Kick(t) /\ Happens
  /\ UNCHANGED <<user, pair, next, live, white, grace, revoked, hurt, call, login, change>>

\* 401: without a refresh token back to the login, otherwise the request waits
\* for the exchange that runs, or starts one.
Refuse(t, q) ==
  /\ req[t][q].pc = "sent" /\ ~Accepted(req[t][q].tok)
  /\ \/ storage.rt = None /\ Kick(t) /\ Put(t, q, NoRequest) /\ UNCHANGED call
     \/ /\ storage.rt # None
        /\ Put(t, q, [req[t][q] EXCEPT !.pc = "wait"])
        /\ \/ Refreshing(t) /\ UNCHANGED call
           \/ /\ call[t].pc = "idle" /\ Room
              /\ call' = [call EXCEPT ![t] = [pc |-> "take", tok |-> storage.rt,
                                              new |-> None, heard |-> TRUE]]
        /\ UNCHANGED <<storage, tab>>
  /\ UNCHANGED <<user, pair, next, live, white, grace, revoked, hurt, login, change, events>>

\* Mutant of Renew: an exchange serves only the request that started it; the
\* others keep waiting.
RenewOne(t) ==
  /\ call[t].pc = "ok" /\ call[t].heard
  /\ storage' = [token |-> call[t].new, rt |-> call[t].new]
  /\ LET one == CHOOSE q \in Request : req[t][q].pc = "wait"
     IN Put(t, one, [pc |-> "sent", tok |-> call[t].new, retried |-> TRUE])
  /\ call' = [call EXCEPT ![t] = NoCall]
  /\ UNCHANGED <<user, pair, next, live, white, grace, revoked, hurt, login, change, events, tab>>

\* The new pair is stored and every waiting request sent again with it.
Renew(t) ==
  /\ call[t].pc = "ok" /\ call[t].heard
  /\ storage' = [token |-> call[t].new, rt |-> call[t].new]
  /\ req' = [req EXCEPT ![t] = [q \in Request |->
               IF req[t][q].pc = "wait"
               THEN [pc |-> "sent", tok |-> call[t].new, retried |-> TRUE] ELSE req[t][q]]]
  /\ call' = [call EXCEPT ![t] = NoCall]
  /\ UNCHANGED <<user, pair, next, live, white, grace, revoked, hurt, login, change, events, tab>>

\* The exchange is refused, or its answer is lost on the way.
GiveUp(t) ==
  /\ call[t].heard
  /\ \/ call[t].pc = "denied" /\ Unhurt
     \/ call[t].pc = "ok" /\ Hurt(call[t].tok)
  /\ Kick(t)
  /\ req' = [req EXCEPT ![t] = [q \in Request |->
               IF req[t][q].pc = "wait" THEN NoRequest ELSE req[t][q]]]
  /\ call' = [call EXCEPT ![t] = NoCall]
  /\ UNCHANGED <<user, pair, next, live, white, grace, revoked, login, change>>

\* The answer to a page that was reloaded meanwhile.
Drop(t) ==
  /\ \/ /\ call[t].pc \in {"ok", "denied"} /\ ~call[t].heard
        /\ call' = [call EXCEPT ![t] = NoCall] /\ UNCHANGED login
     \/ /\ login[t].pc \in {"ok", "wrong"} /\ ~login[t].heard
        /\ login' = [login EXCEPT ![t] = NoLogin] /\ UNCHANGED call
  /\ UNCHANGED <<user, pair, next, live, white, grace, revoked, hurt, change, events, browser>>

-----------------------------------------------------------------------------
(* Login, logout and the timers                                             *)

\* The guard of the router, when somebody navigates in the tab.
Navigate(t) ==
  /\ tab' = [tab EXCEPT ![t].page = PageOf(storage)]
  /\ UNCHANGED <<server, storage, req>>

Submit(t) ==
  /\ tab[t].page = "login" /\ login[t].pc = "idle" /\ Room
  /\ \E p \in Password :
       login' = [login EXCEPT ![t] = [NoLogin EXCEPT !.pc = "check", !.cred = Typed(p), !.heard = TRUE]]
  /\ UNCHANGED <<user, pair, next, live, white, grace, revoked, hurt, call, change, events, browser>>

\* The tokens are stored, the way back is cancelled as far as it still can be.
Enter(t) ==
  /\ login[t].pc = "ok" /\ login[t].heard
  /\ storage' = [token |-> login[t].new, rt |-> login[t].new]
  /\ tab' = [tab EXCEPT ![t] = [page |-> "app", pending |-> FALSE,
                                timer |-> IF @.timer = "notice" THEN "off" ELSE @.timer]]
  /\ login' = [login EXCEPT ![t] = NoLogin]
  /\ UNCHANGED <<user, pair, next, live, white, grace, revoked, hurt, call, change, events, req>>

\* The 401 of the login itself takes the same way back.
Reject(t) ==
  /\ login[t].pc = "wrong" /\ login[t].heard
  /\ Kick(t)
  /\ login' = [login EXCEPT ![t] = NoLogin]
  /\ UNCHANGED <<user, pair, next, live, white, grace, revoked, hurt, call, change, events, req>>

\* The tokens are removed before the call to the server, which therefore goes
\* out as a request without a token.
Logout(t) ==
  /\ tab[t].page = "app"
  /\ storage' = [token |-> None, rt |-> None]
  /\ tab' = [tab EXCEPT ![t].page = "login"]
  /\ \E q \in Request :
       req[t][q].pc = "idle" /\ Put(t, q, [pc |-> "sent", tok |-> None, retried |-> FALSE])
  /\ Happens
  /\ UNCHANGED <<user, pair, next, live, white, grace, revoked, hurt, call, login, change>>

Notice(t) ==
  /\ tab[t].timer = "notice"
  /\ tab' = [tab EXCEPT ![t].timer = IF storage.token # None THEN "off" ELSE "leave",
                        ![t].pending = storage.token = None]
  /\ UNCHANGED <<server, storage, req>>

\* The page is loaded anew: nothing of the tab's own state survives, and what
\* it was waiting for is lost.
Reload(t) ==
  /\ tab[t].timer = "leave"
  /\ tab' = [tab EXCEPT ![t] = [page |-> PageOf(storage),
                                pending |-> FALSE, timer |-> "off"]]
  /\ req' = [req EXCEPT ![t] = [q \in Request |-> NoRequest]]
  /\ call' = [call EXCEPT ![t].heard = FALSE]
  /\ login' = [login EXCEPT ![t].heard = FALSE]
  /\ hurt' = hurt \cup ({call[t].tok} \ {None})
  /\ UNCHANGED <<user, pair, next, live, white, grace, revoked, change, events, storage>>

-----------------------------------------------------------------------------

\* Time passes only for tokens that are still to be sent: of the others nobody
\* would notice.
Held(j) == j \in {storage.token, storage.rt} \/ \E t \in Tab, q \in Request : req[t][q].tok = j

Serve == (Administer \/ \E j \in Pair : Held(j) /\ Expire(j)) /\ UNCHANGED browser
ServeTab(t) == (Exchange(t) \/ Login(t)) /\ UNCHANGED browser
Receive(t) == Renew(t) \/ GiveUp(t) \/ Drop(t) \/ Enter(t) \/ Reject(t)
Work(t, q) == Answer(t, q) \/ Refuse(t, q)
Tick(t) == Notice(t) \/ Reload(t)

Next ==
  \/ Serve
  \/ \E t \in Tab :
       \/ ServeTab(t) \/ Receive(t) \/ Tick(t) \/ Navigate(t) \/ Submit(t) \/ Logout(t)
       \/ \E q \in Request : Send(t, q) \/ Work(t, q)

Spec == Init /\ [][Next]_vars

-----------------------------------------------------------------------------
(* Properties                                                               *)

TypeOK == ServerTypeOK /\ BrowserTypeOK

\* "该用户全部已签发 access/refresh 令牌立即失效": a token whose version is the
\* account's was obtained with the password the account has now, and since the
\* account was last disabled, however long the login or the exchange took.
TokenHonest ==
  \A j \in Issued : pair[j].ver = user.ver => pair[j].pw = user.pw /\ pair[j].bans = user.bans

\* Every reason for which the exchange of the token j may fail.
Dead(j) == ~user.active \/ pair[j].ver # user.ver \/ j \in revoked \/ j \in hurt

\* "多标签互不踢": tabs that exchange the same token at the same time do not
\* throw each other out; a tab goes back to the login only when the storage is
\* empty, its token is dead, an answer was lost, a login was refused or a
\* request failed after its retry.
Excused(t) ==
  \/ storage.rt = None
  \/ call[t].pc = "ok" /\ ~call'[t].heard
  \/ call[t].pc = "denied" /\ Dead(call[t].tok)
  \/ login[t].pc = "wrong"
RetryFailed(t) == \E q \in Request :
                    req[t][q].pc = "sent" /\ req[t][q].retried /\ req'[t][q].pc = "idle"
Kicked(t) == ~tab[t].pending /\ tab'[t].pending

KickedForCause == [][\A t \in Tab : Kicked(t) => Excused(t) \/ RetryFailed(t)]_vars

\* resetPassword: "更新密码": the password of a reset or a change stays until the
\* next one.
PasswordKept == [][user'.pw # user.pw => change.pc = "write" /\ change' = NoChange]_vars

\* "并发 401 只发一次 refresh 请求": a request that waits always has an exchange
\* under way that will wake it, and only a tab that is about to be reloaded has
\* an exchange nobody waits for.
WaitersServed ==
  \A t \in Tab :
    (\E q \in Request : req[t][q].pc = "wait") <=> Refreshing(t)
=============================================================================
