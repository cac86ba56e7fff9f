------------------------------ MODULE LoginForm ------------------------------
(* The page of login, registration and reset: its pictures, which serve once  *)
(* and are fetched while the user types, the countdown after a mail, which    *)
(* should not end before the server's, and answers that find another form.    *)
EXTENDS Integers, FiniteSets

CONSTANTS
  Cool,         \* ticks between two mails, for the page and for the server
  MaxPictures,  \* bound: pictures asked for
  MaxSends,     \* bound: mails asked for
  MaxSubmits    \* bound: forms submitted

ASSUME LoginAssumption == Cool \in Nat \ {0} /\ {MaxPictures, MaxSends, MaxSubmits} \subseteq Nat

VARIABLES
  form,     \* the mode, the picture shown, the id kept, and for which one a code is entered
  clock,    \* the countdown, the intervals that run, whether a mail is asked for
  fetch,    \* pictures asked for
  alive,    \* pictures the server keeps
  mails,    \* requests for a mail
  cooling,  \* the server's cooldown of each kind of code
  submits,  \* forms submitted
  seen      \* how many of each, and what excuses a refusal

loginVars == <<form, clock, fetch, alive, mails, cooling, submits, seen>>

CodeKinds == {"register", "forgot"}
NoPicture == 0

LoginType ==
  /\ form.mode \in CodeKinds \union {"login", "in"}
  /\ {form.svg, form.id, form.code} \subseteq 0 .. MaxPictures
  /\ clock.left \in -1 .. Cool /\ clock.intervals \in 0 .. MaxSends /\ clock.sending \in BOOLEAN
  /\ fetch \subseteq [n : 1 .. MaxPictures, served : BOOLEAN] /\ alive \subseteq 1 .. MaxPictures
  /\ cooling \in [CodeKinds -> 0 .. Cool]

Here == form.mode # "in"

-----------------------------------------------------------------------------
(* Pictures: refreshCaptcha and CaptchaService                              *)

\* A picture is asked for, if the bound allows; its number is that of the request.
Fetched == IF seen.pictures < MaxPictures THEN fetch \union {[n |-> seen.pictures + 1, served |-> FALSE]} ELSE fetch
Count(field) == [seen EXCEPT ![field] = @ + 1]
Refreshing == /\ fetch' = Fetched
              /\ seen' = IF seen.pictures < MaxPictures THEN Count("pictures") ELSE seen

RefreshCaptcha == /\ form.mode \in CodeKinds /\ seen.pictures < MaxPictures /\ Refreshing
                  /\ UNCHANGED <<form, clock, alive, mails, cooling, submits>>

CreatePicture(f) ==
  /\ f \in fetch /\ ~f.served
  /\ fetch' = (fetch \ {f}) \union {[f EXCEPT !.served = TRUE]} /\ alive' = alive \union {f.n}
  /\ UNCHANGED <<form, clock, mails, cooling, submits, seen>>

\* Picture and id come together, and what was entered for another one goes.  The
\* mutant keeps it.
ShowCaptchaOnly(f) ==
  /\ f \in fetch /\ f.served /\ Here /\ fetch' = fetch \ {f}
  /\ form' = [form EXCEPT !.svg = f.n, !.id = f.n]
  /\ UNCHANGED <<clock, alive, mails, cooling, submits, seen>>
ShowCaptcha(f) ==
  /\ f \in fetch /\ f.served /\ Here /\ fetch' = fetch \ {f}
  /\ form' = [form EXCEPT !.svg = f.n, !.id = f.n, !.code = NoPicture]
  /\ UNCHANGED <<clock, alive, mails, cooling, submits, seen>>

\* The picture goes; id and entry stay.
CaptchaFails(f) ==
  /\ f \in fetch /\ Here /\ fetch' = fetch \ {f} /\ form' = [form EXCEPT !.svg = NoPicture]
  /\ UNCHANGED <<clock, alive, mails, cooling, submits, seen>>

ExpireCaptcha == /\ \E n \in alive : alive' = alive \ {n} /\ seen' = [seen EXCEPT !.spent = @ \union {n}]
                 /\ UNCHANGED <<form, clock, fetch, mails, cooling, submits>>

-----------------------------------------------------------------------------
(* The form                                                                 *)

\* The other fields are blank as well, and are filled in with what needs them.
Emptied(mode) == [form EXCEPT !.mode = mode, !.code = NoPicture]

SwitchTo(mode) ==
  /\ form.mode = "login" /\ mode \in CodeKinds /\ form' = Emptied(mode) /\ Refreshing
  /\ UNCHANGED <<clock, alive, mails, cooling, submits>>
BackToLogin == /\ form.mode \in CodeKinds /\ form' = Emptied("login")
               /\ UNCHANGED <<clock, fetch, alive, mails, cooling, submits, seen>>

EnterCaptcha ==
  /\ form.mode \in CodeKinds /\ form.svg # NoPicture /\ form.code # form.svg /\ form' = [form EXCEPT !.code = form.svg]
  /\ UNCHANGED <<clock, fetch, alive, mails, cooling, submits, seen>>

-----------------------------------------------------------------------------
(* handleSendCode, and sendEmailCode at the server                          *)

\* The button is off during the countdown and while a mail is asked for.
MaySend == clock.left <= 0 /\ ~clock.sending

HandleSendCode ==
  /\ form.mode \in CodeKinds /\ MaySend /\ form.code # NoPicture /\ seen.mails < MaxSends
  /\ mails' = mails \union {[n |-> seen.mails, pc |-> "sent", kind |-> form.mode, id |-> form.id, code |-> form.code]}
  /\ clock' = [clock EXCEPT !.sending = TRUE] /\ seen' = Count("mails")
  /\ UNCHANGED <<form, fetch, alive, cooling, submits>>

Served(m, pc) == mails' = (mails \ {m}) \union {[m EXCEPT !.pc = pc]}

\* The picture is used up, be it right or wrong.
VerifyCaptcha(m) ==
  /\ m \in mails /\ m.pc = "sent"
  /\ Served(m, IF m.id \in alive /\ m.code = m.id THEN "verified" ELSE "wrong")
  /\ alive' = alive \ {m.id} /\ seen' = [seen EXCEPT !.spent = IF m.id \in alive /\ m.code # m.id THEN @ ELSE @ \union {m.id}]
  /\ UNCHANGED <<form, clock, fetch, cooling, submits>>

\* Refused by the cooldown, or for reasons that leave none; sent, or silently
\* not sent.
SendEmailCode(m) ==
  /\ m \in mails /\ m.pc = "verified"
  /\ \/ cooling[m.kind] > 0 /\ Served(m, "cool") /\ UNCHANGED cooling
     \/ Served(m, "refused") /\ UNCHANGED cooling
     \/ cooling[m.kind] = 0 /\ Served(m, "ok") /\ cooling' \in {cooling, [cooling EXCEPT ![m.kind] = Cool]}
  /\ UNCHANGED <<form, clock, fetch, alive, submits, seen>>

\* Success starts an interval.
CodeSent(m) ==
  /\ m \in mails /\ m.pc = "ok" /\ Here /\ mails' = mails \ {m}
  /\ clock' = [left |-> Cool, intervals |-> clock.intervals + 1, sending |-> FALSE]
  /\ UNCHANGED <<form, fetch, alive, cooling, submits, seen>>

\* A refusal, or no answer although the mail may be on its way: a new picture.
CodeNotSent(m) ==
  /\ m \in mails /\ Here /\ mails' = mails \ {m} /\ clock' = [clock EXCEPT !.sending = FALSE]
  /\ fetch' = Fetched
  /\ seen' = [IF seen.pictures < MaxPictures THEN Count("pictures") ELSE seen EXCEPT !.lost = @ \/ m.pc \in {"ok", "verified", "sent"}]
  /\ UNCHANGED <<form, alive, cooling, submits>>

\* A second for the server, and for the page at the latest by now: an interval
\* counts down and the last one is cleared at zero.
Tick ==
  /\ clock.left > 0 \/ \E k \in CodeKinds : cooling[k] > 0
  /\ cooling' = [k \in CodeKinds |-> IF cooling[k] > 0 THEN cooling[k] - 1 ELSE 0]
  /\ \/ UNCHANGED clock
     \/ clock' = [clock EXCEPT !.left = @ - clock.intervals,
                               !.intervals = IF clock.left <= clock.intervals THEN @ - 1 ELSE @]
        /\ clock.intervals > 0
  /\ UNCHANGED <<form, fetch, alive, mails, submits, seen>>

-----------------------------------------------------------------------------
(* handleSubmit                                                             *)

\* By the key even while another one is under way.
Filled == form.mode = "login" \/ (form.mode \in CodeKinds /\ form.code # NoPicture)
HandleSubmit ==
  /\ Filled /\ seen.submits < MaxSubmits /\ seen' = Count("submits")
  /\ submits' = submits \union {<<form.mode, seen.submits>>}
  /\ UNCHANGED <<form, clock, fetch, alive, mails, cooling>>

\* In, or back to the login, whatever form is shown by now.
Succeeds(s) ==
  /\ s \in submits /\ Here /\ submits' = submits \ {s}
  /\ form' = IF s[1] = "forgot" THEN Emptied("login") ELSE Emptied("in")
  /\ UNCHANGED <<clock, fetch, alive, mails, cooling, seen>>

Fails(s) ==
  /\ s \in submits /\ Here /\ submits' = submits \ {s}
  /\ IF s[1] = "login" THEN UNCHANGED <<fetch, seen>> ELSE Refreshing
  /\ UNCHANGED <<form, clock, alive, mails, cooling>>

-----------------------------------------------------------------------------
LoginInit ==
  /\ form = [mode |-> "login", svg |-> NoPicture, id |-> NoPicture, code |-> NoPicture]
  /\ clock = [left |-> 0, intervals |-> 0, sending |-> FALSE]
  /\ fetch = {} /\ alive = {} /\ mails = {} /\ cooling = [k \in CodeKinds |-> 0] /\ submits = {}
  /\ seen = [pictures |-> 0, mails |-> 0, submits |-> 0, spent |-> {}, lost |-> FALSE]

LoginNext ==
  \/ RefreshCaptcha \/ ExpireCaptcha \/ BackToLogin \/ EnterCaptcha \/ HandleSendCode \/ Tick \/ HandleSubmit
  \/ \E f \in fetch : CreatePicture(f) \/ ShowCaptcha(f) \/ CaptchaFails(f)
  \/ \E k \in CodeKinds : SwitchTo(k)
  \/ \E m \in mails : VerifyCaptcha(m) \/ SendEmailCode(m) \/ CodeSent(m) \/ CodeNotSent(m)
  \/ \E s \in submits : Succeeds(s) \/ Fails(s)

LoginSpec == LoginInit /\ [][LoginNext]_loginVars

-----------------------------------------------------------------------------
(* Properties                                                               *)

\* What was entered is for the picture whose id goes along, and is refused only
\* when that picture has served or is too old.
CodeFits ==
  /\ form.code # NoPicture => form.code = form.id
  /\ \A m \in mails : m.pc = "wrong" => m.id \in seen.spent

\* One interval runs during the countdown and none else; when it is over, the
\* server's is, unless an answer was lost.
OneCountdown ==
  /\ clock.intervals = IF clock.left > 0 THEN 1 ELSE 0
  /\ clock.left <= 0 /\ mails = {} /\ Here /\ ~seen.lost => \A k \in CodeKinds : cooling[k] = 0

\* LoginView.vue refreshCaptcha, handleSendCode; captcha.service.ts verify.
CodesAskable == CodeFits /\ OneCountdown
=============================================================================
