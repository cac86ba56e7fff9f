---------------------------- MODULE AuthSession ----------------------------
(* The sessions of one account in the server: the login, the exchange of a  *)
(* refresh token for a new pair of tokens with its period of grace, the     *)
(* revocation, and the four calls that raise the version of the account's   *)
(* tokens.  A pair of tokens is a number; the access token and the refresh  *)
(* token of a pair carry the version read when its login or exchange began. *)
(* PostgreSQL and Redis commands are the atomic steps.                      *)
EXTENDS Naturals, FiniteSets

CONSTANTS Tab,        \* the clients, each with one exchange and one login
          Password,
          Legacy,     \* the stored hash has the old cost
          MaxPairs,   \* bound: pairs of tokens
          MaxEvents   \* bound: failures of Redis or the network, changes of the
                      \* account and logouts

ASSUME SessionAssumption ==
  MaxPairs \in Nat \ {0} /\ MaxEvents \in Nat /\ Legacy \in BOOLEAN /\ Password # {}

VARIABLES
  user,    \* the row of the account; bans counts how often it was disabled
  pair,    \* the pairs: version, and the credentials they were given for
  next,    \* the next pair
  live,    \* access tokens that have not expired
  white,   \* refresh tokens in the whitelist
  grace,   \* exchanged refresh tokens in their period of grace
  revoked, \* refresh tokens a client has logged out
  hurt,    \* refresh tokens hit by a failing command or a lost answer
  call,    \* the exchange of each client
  login,   \* the login of each client
  change,  \* the change of the password
  events   \* what has happened so far

server == <<user, pair, next, live, white, grace, revoked, hurt, call, login, change, events>>

Pair == 1..MaxPairs
None == 0
Credentials == [ver : Nat, pw : Password, bans : Nat]
Users == [pw : Password, ver : Nat, bans : Nat, active : BOOLEAN, legacy : BOOLEAN]

NoCall == [pc |-> "idle", tok |-> None, new |-> None, heard |-> FALSE]
Exchanges == [pc : {"idle", "take", "mark", "look", "user", "denied", "ok"},
              tok : Nat, new : Nat, heard : BOOLEAN]

Logins == [pc : {"idle", "check", "rehash", "issue", "wrong", "ok"},
           cred : Credentials, legacy : BOOLEAN, new : Nat, heard : BOOLEAN]
Changes == [pc : {"idle", "write"}, pw : Password]

First == CHOOSE p \in Password : TRUE
Typed(p) == [ver |-> 0, pw |-> p, bans |-> 0]
NoLogin == [pc |-> "idle", cred |-> Typed(First), legacy |-> FALSE, new |-> None, heard |-> FALSE]
NoChange == [pc |-> "idle", pw |-> First]

Issued == {j \in Pair : j < next}
\* What is kept of the row u whose hash was compared with the password p.
Compared(u, p) == [ver |-> u.ver, pw |-> p, bans |-> u.bans]

ServerTypeOK ==
  /\ user \in Users
  /\ pair \in [Pair -> Credentials]
  /\ next \in Nat /\ next <= MaxPairs + 1
  /\ live \subseteq Issued /\ white \subseteq Issued /\ grace \subseteq Issued
  /\ revoked \subseteq Issued /\ hurt \subseteq Issued
  /\ call \in [Tab -> Exchanges]
  /\ login \in [Tab -> Logins]
  /\ change \in Changes
  /\ events \in Nat

\* The account has logged in once: pair 1.
ServerInit ==
  /\ user = [pw |-> First, ver |-> 0, bans |-> 0, active |-> TRUE, legacy |-> Legacy]
  /\ pair = [j \in Pair |-> Typed(First)]
  /\ next = 2
  /\ live = {1} /\ white = {1} /\ grace = {} /\ revoked = {} /\ hurt = {}
  /\ call = [t \in Tab |-> NoCall]
  /\ login = [t \in Tab |-> NoLogin]
  /\ change = NoChange
  /\ events = 0

\* JwtStrategy.validate: the row is read again for every request.
Accepted(j) == j \in live /\ user.active /\ pair[j].ver = user.ver

Happens == events < MaxEvents /\ events' = events + 1

\* A failing command of Redis, or an answer that is lost, hits the token j.
Hurt(j) == Happens /\ hurt' = hurt \cup {j}
Unhurt == UNCHANGED <<hurt, events>>

-----------------------------------------------------------------------------
(* refresh                                                                  *)

Step(t, pc) == call' = [call EXCEPT ![t].pc = pc]

\* GETDEL in one script.  The token is refused when the script fails, whether
\* or not it ran.
TakeToken(t) ==
  /\ call[t].pc = "take"
  /\ \/ /\ Step(t, IF call[t].tok \in white THEN "mark" ELSE "look")
        /\ white' = white \ {call[t].tok}
        /\ Unhurt
     \/ /\ Step(t, "denied")
        /\ white' \in {white, white \ {call[t].tok}}
        /\ Hurt(call[t].tok)
  /\ UNCHANGED <<user, pair, next, live, grace, revoked, login, change>>

\* Mutant of MarkToken: no period of grace.
MarkNothing(t) ==
  /\ call[t].pc = "mark"
  /\ Step(t, "user")
  /\ UNCHANGED <<user, pair, next, live, white, grace, revoked, hurt, login, change, events>>

\* The exchanged token gets its period of grace; a failure is ignored.
MarkToken(t) ==
  /\ call[t].pc = "mark"
  /\ Step(t, "user")
  /\ \/ grace' = grace \cup {call[t].tok} /\ Unhurt
     \/ Hurt(call[t].tok) /\ UNCHANGED grace
  /\ UNCHANGED <<user, pair, next, live, white, revoked, login, change>>

\* Whoever comes second looks for the period of grace.  One server process
\* sends its commands over one connection and reads the replies in order: the
\* SET of an exchange is sent before the GET of one that took later.
LookForGrace(t) ==
  /\ call[t].pc = "look"
  /\ \A u \in Tab : ~(call[u].pc = "mark" /\ call[u].tok = call[t].tok)
  /\ \/ Step(t, IF call[t].tok \in grace THEN "user" ELSE "denied") /\ Unhurt
     \/ Step(t, "denied") /\ Hurt(call[t].tok)
  /\ UNCHANGED <<user, pair, next, live, white, grace, revoked, login, change>>

\* A pair of tokens for the credentials c.  The entry of the whitelist may fail.
Issue(c) ==
  /\ next <= MaxPairs
  /\ pair' = [pair EXCEPT ![next] = c]
  /\ live' = live \cup {next}
  /\ \/ white' = white \cup {next} /\ Unhurt
     \/ Hurt(next) /\ UNCHANGED white
  /\ next' = next + 1

\* The account is read and compared, the new pair signed.
ExchangeToken(t) ==
  LET j == call[t].tok IN
  /\ call[t].pc = "user"
  /\ \/ /\ ~user.active
        /\ Step(t, "denied")
        /\ UNCHANGED <<pair, next, live, white, grace, hurt, events>>
     \/ /\ user.active /\ pair[j].ver # user.ver
        /\ Step(t, "denied")
        /\ grace' = grace \ {j}
        /\ UNCHANGED <<pair, next, live, white, hurt, events>>
     \/ /\ user.active /\ pair[j].ver = user.ver
        /\ Issue([pair[j] EXCEPT !.ver = user.ver])
        /\ call' = [call EXCEPT ![t].pc = "ok", ![t].new = next]
        /\ UNCHANGED grace
  /\ UNCHANGED <<user, revoked, login, change>>

-----------------------------------------------------------------------------
(* login                                                                    *)

\* validateUser: the row is read, the typed password compared with it.
CheckLogin(t) ==
  /\ login[t].pc = "check"
  /\ login' = [login EXCEPT ![t].pc =
                 IF user.active /\ login[t].cred.pw = user.pw THEN "rehash" ELSE "wrong",
                 ![t].cred = Compared(user, login[t].cred.pw),
                 ![t].legacy = user.legacy]
  /\ UNCHANGED <<user, pair, next, live, white, grace, revoked, hurt, call, change, events>>

\* A hash of the old cost is replaced by a new one of the password typed, the
\* time of the login written.
Rehash(t) ==
  /\ login[t].pc = "rehash"
  /\ user' = IF login[t].legacy THEN [user EXCEPT !.pw = login[t].cred.pw, !.legacy = FALSE]
             ELSE user
  /\ login' = [login EXCEPT ![t].pc = "issue"]
  /\ UNCHANGED <<pair, next, live, white, grace, revoked, hurt, call, change, events>>

\* Mutant of IssueLogin: the version is read when the tokens are signed.
IssueFresh(t) ==
  /\ login[t].pc = "issue"
  /\ Issue([login[t].cred EXCEPT !.ver = user.ver])
  /\ login' = [login EXCEPT ![t].pc = "ok", ![t].new = next]
  /\ UNCHANGED <<user, grace, revoked, call, change>>

\* The tokens carry the version of the row that was compared.
IssueLogin(t) ==
  /\ login[t].pc = "issue"
  /\ Issue(login[t].cred)
  /\ login' = [login EXCEPT ![t].pc = "ok", ![t].new = next]
  /\ UNCHANGED <<user, grace, revoked, call, change>>

-----------------------------------------------------------------------------
(* logout and the calls that raise the version                              *)

\* A client that sends its refresh token with the logout.  The two keys are
\* deleted in one command.
Revoke(j) ==
  /\ j \in Issued /\ \E k \in Issued : Accepted(k)
  /\ white' = white \ {j} /\ grace' = grace \ {j}
  /\ revoked' = revoked \cup {j}
  /\ Happens
  /\ UNCHANGED <<user, pair, next, live, hurt, call, login, change>>

\* resetPassword finds an active account, changePassword compares the present
\* password: both hash the new one before they write it.
CheckChange ==
  /\ change.pc = "idle" /\ user.active
  /\ \E p \in Password \ {user.pw} : change' = [pc |-> "write", pw |-> p]
  /\ Happens
  /\ UNCHANGED <<user, pair, next, live, white, grace, revoked, hurt, call, login>>

WriteChange ==
  /\ change.pc = "write"
  /\ user' = [user EXCEPT !.pw = change.pw, !.legacy = FALSE, !.ver = @ + 1]
  /\ change' = NoChange
  /\ UNCHANGED <<pair, next, live, white, grace, revoked, hurt, call, login, events>>

\* An administrator disables the account, or lets it in again.
SetStatus ==
  /\ user' \in {[user EXCEPT !.active = TRUE],
                [user EXCEPT !.active = FALSE, !.ver = @ + 1, !.bans = @ + 1]}
  /\ Happens
  /\ UNCHANGED <<pair, next, live, white, grace, revoked, hurt, call, login, change>>

-----------------------------------------------------------------------------
(* Time                                                                     *)

\* After two hours.
ExpireAccess(j) ==
  /\ j \in live
  /\ live' = live \ {j}
  /\ UNCHANGED <<user, pair, next, white, grace, revoked, hurt, call, login, change, events>>

\* After sixty seconds.  A request with its answer takes less than half of that:
\* no exchange of the token is still under way.
ExpireGrace(j) ==
  /\ j \in grace
  /\ \A t \in Tab : call[t].pc = "idle" \/ call[t].tok # j
  /\ grace' = grace \ {j}
  /\ UNCHANGED <<user, pair, next, live, white, revoked, hurt, call, login, change, events>>

-----------------------------------------------------------------------------

Exchange(t) == TakeToken(t) \/ MarkToken(t) \/ LookForGrace(t) \/ ExchangeToken(t)
Login(t) == CheckLogin(t) \/ Rehash(t) \/ IssueLogin(t)

Administer == CheckChange \/ WriteChange \/ SetStatus \/ \E j \in Pair : Revoke(j)
Expire(j) == ExpireAccess(j) \/ ExpireGrace(j)
=============================================================================
