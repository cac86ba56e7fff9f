----------------------------- MODULE PartsProofs -----------------------------
(****************************************************************************)
(* Theorems about LoginForm, EmailCodes and Evaluation, for any bounds,      *)
(* limits and numbers of overlapping requests and calls.                     *)
(****************************************************************************)
EXTENDS LoginForm, EmailCodes, Evaluation, FiniteSetTheorems, TLAPS

-----------------------------------------------------------------------------
(* The page of login                                                        *)

Pictures == 0 .. MaxPictures
Mails == [n : Nat, pc : {"sent", "verified", "wrong", "cool", "refused", "ok"},
          kind : CodeKinds, id : Pictures, code : Pictures]

FormType ==
  form \in [mode : CodeKinds \union {"login", "in"}, svg : Pictures, id : Pictures, code : Pictures]
ClockType == clock \in [left : 0 .. Cool, intervals : 0 .. 1, sending : BOOLEAN]
FetchType == fetch \subseteq [n : 1 .. MaxPictures, served : BOOLEAN] /\ alive \subseteq 1 .. MaxPictures
MailsType == mails \subseteq Mails /\ cooling \in [CodeKinds -> 0 .. Cool]
SubmitsType == submits \subseteq (CodeKinds \union {"login"}) \X Nat
SeenType == seen \in [pictures : Pictures, mails : 0 .. MaxSends, submits : Nat,
                      spent : SUBSET Nat, lost : BOOLEAN]

\* The picture shown is that of the id, and what is entered is for it; a mail is
\* asked for with both, and refused for them only when the picture is gone.
Entered ==
  /\ form.svg # NoPicture => form.svg = form.id
  /\ form.code # NoPicture => form.code = form.id
MailsFit == \A m \in mails : m.code = m.id /\ (m.pc = "wrong" => m.id \in seen.spent)

\* At most one mail is asked for at a time, and none during the countdown.
OneMail ==
  /\ mails # {} => clock.sending /\ clock.left = 0
  /\ \A m, o \in mails : m = o
Interval == clock.intervals = IF clock.left > 0 THEN 1 ELSE 0

\* The server's cooldown is no longer than the countdown, except for the one
\* that was begun for a mail whose answer is on its way.
NoLonger ==
  ~seen.lost =>
    /\ \A m \in mails : m.pc # "cool"
    /\ (\A m \in mails : m.pc # "ok") => \A k \in CodeKinds : cooling[k] <= clock.left

LoginInv ==
  /\ FormType /\ ClockType /\ FetchType /\ MailsType /\ SubmitsType /\ SeenType
  /\ Entered /\ MailsFit /\ OneMail /\ Interval /\ NoLonger

LEMMA LoginInitInv == LoginInit => LoginInv
<1> SUFFICES ASSUME LoginInit PROVE LoginInv
  OBVIOUS
<1>1. Cool \in Nat /\ MaxPictures \in Nat /\ MaxSends \in Nat
  BY LoginAssumption
<1>2. FormType /\ ClockType /\ FetchType /\ MailsType /\ SubmitsType /\ SeenType
  BY <1>1 DEF LoginInit, FormType, ClockType, FetchType, MailsType, SubmitsType, SeenType,
              Pictures, NoPicture, CodeKinds
<1>3. Entered /\ MailsFit /\ OneMail /\ Interval /\ NoLonger
  BY DEF LoginInit, Entered, MailsFit, OneMail, Interval, NoLonger, NoPicture
<1> QED
  BY <1>2, <1>3 DEF LoginInv

LEMMA FetchedType ==
  ASSUME LoginInv
  PROVE  Fetched \subseteq [n : 1 .. MaxPictures, served : BOOLEAN]
<1>1. CASE seen.pictures < MaxPictures
  <2>1. seen.pictures + 1 \in 1 .. MaxPictures
    BY <1>1, LoginAssumption DEF LoginInv, SeenType, Pictures
  <2>2. [n |-> seen.pictures + 1, served |-> FALSE] \in [n : 1 .. MaxPictures, served : BOOLEAN]
    BY <2>1
  <2>3. Fetched = fetch \union {[n |-> seen.pictures + 1, served |-> FALSE]}
    BY <1>1 DEF Fetched
  <2> QED
    BY <2>2, <2>3 DEF LoginInv, FetchType
<1>2. CASE ~(seen.pictures < MaxPictures)
  BY <1>2 DEF Fetched, LoginInv, FetchType
<1> QED
  BY <1>1, <1>2

\* Asking for a picture changes the requests and their number.
LEMMA RefreshingTypes ==
  ASSUME LoginInv, Refreshing
  PROVE  /\ fetch' \subseteq [n : 1 .. MaxPictures, served : BOOLEAN] /\ SeenType'
         /\ seen'.spent = seen.spent /\ seen'.lost = seen.lost
<1>1. MaxPictures \in Nat /\ MaxSends \in Nat
  BY LoginAssumption
<1>2. CASE seen.pictures < MaxPictures
  <2>1. seen.pictures + 1 \in 1 .. MaxPictures
    BY <1>1, <1>2 DEF LoginInv, SeenType, Pictures
  <2>2. fetch' \subseteq [n : 1 .. MaxPictures, served : BOOLEAN]
    BY FetchedType DEF Refreshing
  <2>3. seen' = [seen EXCEPT !.pictures = @ + 1]
    BY <1>2 DEF Refreshing, Count
  <2>4. SeenType'
    BY <1>1, <2>1, <2>3 DEF LoginInv, SeenType, Pictures
  <2> QED
    BY <2>2, <2>3, <2>4 DEF LoginInv, SeenType
<1>3. CASE ~(seen.pictures < MaxPictures)
  BY <1>3 DEF Refreshing, Fetched, LoginInv, FetchType, SeenType
<1> QED
  BY <1>2, <1>3

\* What leaves the mails, the countdown and the cooldowns as they are.
LEMMA FormStep ==
  ASSUME LoginInv, FormType', FetchType', SubmitsType', SeenType', Entered',
         UNCHANGED <<clock, mails, cooling>>,
         seen.spent \subseteq seen'.spent, seen'.lost = seen.lost
  PROVE  LoginInv'
<1>1. ClockType' /\ MailsType' /\ OneMail' /\ Interval'
  BY DEF LoginInv, ClockType, MailsType, OneMail, Interval
<1>2. MailsFit' /\ NoLonger'
  BY DEF LoginInv, MailsFit, NoLonger
<1> QED
  BY <1>1, <1>2 DEF LoginInv

LEMMA EmptiedType ==
  ASSUME LoginInv, NEW mode \in CodeKinds \union {"login", "in"}, form' = Emptied(mode)
  PROVE  FormType' /\ Entered'
<1>1. 0 \in Pictures
  BY LoginAssumption DEF Pictures
<1>2. form' = [form EXCEPT !.mode = mode, !.code = 0]
  BY DEF Emptied, NoPicture
<1> QED
  BY <1>1, <1>2 DEF LoginInv, FormType, Entered, NoPicture

\* The pictures.
LEMMA PictureInv ==
  ASSUME LoginInv,
         \/ RefreshCaptcha \/ ExpireCaptcha
         \/ \E f \in fetch : CreatePicture(f) \/ ShowCaptcha(f) \/ CaptchaFails(f)
  PROVE  LoginInv'
<1>1. CASE RefreshCaptcha
  <2>1. Refreshing /\ UNCHANGED <<form, clock, alive, mails, cooling, submits>>
    BY <1>1 DEF RefreshCaptcha
  <2>2. FormType' /\ Entered' /\ SubmitsType'
    BY <2>1 DEF LoginInv, FormType, Entered, SubmitsType
  <2> QED
    BY <2>1, <2>2, RefreshingTypes, FormStep DEF LoginInv, FetchType
<1>2. CASE ExpireCaptcha
  <2>1. PICK n \in alive : alive' = alive \ {n} /\ seen' = [seen EXCEPT !.spent = @ \union {n}]
    BY <1>2 DEF ExpireCaptcha
  <2>2. UNCHANGED <<form, clock, fetch, mails, cooling, submits>>
    BY <1>2 DEF ExpireCaptcha
  <2>3. n \in Nat
    BY <2>1, LoginAssumption DEF LoginInv, FetchType
  <2>4. SeenType' /\ seen.spent \subseteq seen'.spent /\ seen'.lost = seen.lost
    BY <2>1, <2>3 DEF LoginInv, SeenType
  <2>5. FormType' /\ Entered' /\ SubmitsType' /\ FetchType'
    BY <2>1, <2>2 DEF LoginInv, FormType, Entered, SubmitsType, FetchType
  <2> QED
    BY <2>2, <2>4, <2>5, FormStep
<1>3. ASSUME NEW f \in fetch, CreatePicture(f) PROVE LoginInv'
  <2>1. UNCHANGED <<form, clock, mails, cooling, submits, seen>>
    BY <1>3 DEF CreatePicture
  <2>2. f \in [n : 1 .. MaxPictures, served : BOOLEAN]
    BY DEF LoginInv, FetchType
  <2>3. [f EXCEPT !.served = TRUE] \in [n : 1 .. MaxPictures, served : BOOLEAN] /\ f.n \in 1 .. MaxPictures
    BY <2>2
  <2>4. FetchType'
    BY <1>3, <2>3 DEF CreatePicture, LoginInv, FetchType
  <2>5. FormType' /\ Entered' /\ SubmitsType' /\ SeenType'
    BY <2>1 DEF LoginInv, FormType, Entered, SubmitsType, SeenType
  <2> QED
    BY <2>1, <2>4, <2>5, FormStep
<1>4. ASSUME NEW f \in fetch, ShowCaptcha(f) \/ CaptchaFails(f) PROVE LoginInv'
  <2>1. UNCHANGED <<clock, alive, mails, cooling, submits, seen>> /\ fetch' = fetch \ {f}
    BY <1>4 DEF ShowCaptcha, CaptchaFails
  <2>2. f.n \in Pictures /\ 0 \in Pictures
    BY LoginAssumption DEF LoginInv, FetchType, Pictures
  <2>3. FormType' /\ Entered'
    BY <1>4, <2>2 DEF ShowCaptcha, CaptchaFails, LoginInv, FormType, Entered, NoPicture
  <2>4. SubmitsType' /\ SeenType' /\ FetchType'
    BY <2>1 DEF LoginInv, SubmitsType, SeenType, FetchType
  <2> QED
    BY <2>1, <2>3, <2>4, FormStep
<1> QED
  BY <1>1, <1>2, <1>3, <1>4

\* The forms.
LEMMA FormsInv ==
  ASSUME LoginInv,
         \/ BackToLogin \/ EnterCaptcha \/ HandleSubmit
         \/ \E k \in CodeKinds : SwitchTo(k)
         \/ \E s \in submits : Succeeds(s) \/ Fails(s)
  PROVE  LoginInv'
<1>1. CASE BackToLogin
  <2>1. form' = Emptied("login") /\ UNCHANGED <<clock, fetch, alive, mails, cooling, submits, seen>>
    BY <1>1 DEF BackToLogin
  <2>2. FormType' /\ Entered'
    BY <2>1, EmptiedType
  <2>3. SubmitsType' /\ SeenType' /\ FetchType'
    BY <2>1 DEF LoginInv, SubmitsType, SeenType, FetchType
  <2> QED
    BY <2>1, <2>2, <2>3, FormStep
<1>2. CASE EnterCaptcha
  <2>1. form' = [form EXCEPT !.code = form.svg] /\ form.svg # NoPicture
        /\ UNCHANGED <<clock, fetch, alive, mails, cooling, submits, seen>>
    BY <1>2 DEF EnterCaptcha
  <2>2. FormType' /\ Entered'
    BY <2>1 DEF LoginInv, FormType, Entered
  <2>3. SubmitsType' /\ SeenType' /\ FetchType'
    BY <2>1 DEF LoginInv, SubmitsType, SeenType, FetchType
  <2> QED
    BY <2>1, <2>2, <2>3, FormStep
<1>3. CASE HandleSubmit
  <2>1. /\ form.mode \in CodeKinds \union {"login"} /\ seen' = [seen EXCEPT !.submits = @ + 1]
        /\ submits' = submits \union {<<form.mode, seen.submits>>}
        /\ UNCHANGED <<form, clock, fetch, alive, mails, cooling>>
    BY <1>3 DEF HandleSubmit, Filled, Count
  <2>2. SubmitsType' /\ SeenType' /\ seen'.spent = seen.spent /\ seen'.lost = seen.lost
    BY <2>1 DEF LoginInv, SubmitsType, SeenType
  <2>3. FormType' /\ Entered' /\ FetchType'
    BY <2>1 DEF LoginInv, FormType, Entered, FetchType
  <2> QED
    BY <2>1, <2>2, <2>3, FormStep
<1>4. ASSUME NEW k \in CodeKinds, SwitchTo(k) PROVE LoginInv'
  <2>1. form' = Emptied(k) /\ Refreshing /\ UNCHANGED <<clock, alive, mails, cooling, submits>>
    BY <1>4 DEF SwitchTo
  <2>2. FormType' /\ Entered'
    BY <2>1, EmptiedType
  <2>3. SubmitsType' /\ SeenType' /\ FetchType' /\ seen'.spent = seen.spent /\ seen'.lost = seen.lost
    BY <2>1, RefreshingTypes DEF LoginInv, SubmitsType, FetchType
  <2> QED
    BY <2>1, <2>2, <2>3, FormStep
<1>5. ASSUME NEW s \in submits, Succeeds(s) PROVE LoginInv'
  <2>1. submits' = submits \ {s} /\ UNCHANGED <<clock, fetch, alive, mails, cooling, seen>>
    BY <1>5 DEF Succeeds
  <2>2. form' = Emptied("login") \/ form' = Emptied("in")
    BY <1>5 DEF Succeeds
  <2>3. FormType' /\ Entered'
    BY <2>2, EmptiedType
  <2>4. SubmitsType' /\ SeenType' /\ FetchType'
    BY <2>1 DEF LoginInv, SubmitsType, SeenType, FetchType
  <2> QED
    BY <2>1, <2>3, <2>4, FormStep
<1>6. ASSUME NEW s \in submits, Fails(s) PROVE LoginInv'
  <2>1. submits' = submits \ {s} /\ UNCHANGED <<form, clock, alive, mails, cooling>>
    BY <1>6 DEF Fails
  <2>2. UNCHANGED <<fetch, seen>> \/ Refreshing
    BY <1>6 DEF Fails
  <2>3. SeenType' /\ FetchType' /\ seen'.spent = seen.spent /\ seen'.lost = seen.lost
    BY <2>1, <2>2, RefreshingTypes DEF LoginInv, SeenType, FetchType
  <2>4. FormType' /\ Entered' /\ SubmitsType'
    BY <2>1 DEF LoginInv, FormType, Entered, SubmitsType
  <2> QED
    BY <2>1, <2>3, <2>4, FormStep
<1> QED
  BY <1>1, <1>2, <1>3, <1>4, <1>5, <1>6

\* A mail is asked for: nothing else is under way, and no countdown.
LEMMA HandleSendCodeInv ==
  ASSUME LoginInv, HandleSendCode
  PROVE  LoginInv'
<1> DEFINE new == [n |-> seen.mails, pc |-> "sent", kind |-> form.mode, id |-> form.id, code |-> form.code]
<1>1. /\ mails' = mails \union {new} /\ clock' = [clock EXCEPT !.sending = TRUE]
      /\ seen' = [seen EXCEPT !.mails = @ + 1] /\ UNCHANGED <<form, fetch, alive, cooling, submits>>
      /\ form.mode \in CodeKinds /\ clock.left <= 0 /\ ~clock.sending /\ form.code # NoPicture
      /\ seen.mails < MaxSends
  BY DEF HandleSendCode, Count, MaySend
<1>2. mails = {} /\ new.code = new.id
  BY <1>1 DEF LoginInv, OneMail, Entered
<1>3. new \in Mails /\ new.pc = "sent"
  BY <1>1, LoginAssumption DEF LoginInv, FormType, SeenType, Mails
<1>4. clock.left = 0 /\ clock' = [clock EXCEPT !.sending = TRUE]
  BY <1>1 DEF LoginInv, ClockType
<1> HIDE DEF new
<1>5. mails' = {new}
  BY <1>1, <1>2
<1>6. MailsType' /\ MailsFit' 
  BY <1>1, <1>2, <1>3, <1>5 DEF LoginInv, MailsType, MailsFit
<1>7. ClockType' /\ OneMail' /\ Interval' /\ clock'.left = clock.left
  BY <1>4, <1>5 DEF LoginInv, ClockType, OneMail, Interval
<1>8. SeenType' /\ seen'.lost = seen.lost
  BY <1>1, LoginAssumption DEF LoginInv, SeenType
<1>9. NoLonger'
  BY <1>1, <1>2, <1>3, <1>5, <1>7, <1>8 DEF LoginInv, NoLonger
<1>10. FormType' /\ FetchType' /\ SubmitsType' /\ Entered'
  BY <1>1 DEF LoginInv, FormType, FetchType, SubmitsType, Entered
<1> QED
  BY <1>6, <1>7, <1>8, <1>9, <1>10 DEF LoginInv

\* The one mail under way goes on.
LEMMA ServedMail ==
  ASSUME LoginInv, NEW m \in mails, NEW pc \in {"verified", "wrong", "cool", "refused", "ok"}, Served(m, pc)
  PROVE  /\ mails = {m} /\ mails' = {[m EXCEPT !.pc = pc]} /\ mails' \subseteq Mails
         /\ \A o \in mails' : o.code = o.id /\ o.id = m.id /\ o.pc = pc
<1>1. mails = {m} /\ m \in Mails /\ m.code = m.id
  BY DEF LoginInv, OneMail, MailsType, MailsFit
<1>2. mails' = {[m EXCEPT !.pc = pc]}
  BY <1>1 DEF Served
<1>3. [m EXCEPT !.pc = pc] \in Mails
  BY <1>1 DEF Mails
<1>4. [m EXCEPT !.pc = pc].code = m.code /\ [m EXCEPT !.pc = pc].id = m.id /\ [m EXCEPT !.pc = pc].pc = pc
  BY <1>1 DEF Mails
<1> QED
  BY <1>1, <1>2, <1>3, <1>4

LEMMA VerifyCaptchaInv ==
  ASSUME LoginInv, NEW m \in mails, VerifyCaptcha(m)
  PROVE  LoginInv'
<1> DEFINE pc == IF m.id \in alive /\ m.code = m.id THEN "verified" ELSE "wrong"
<1>1. /\ m.pc = "sent" /\ Served(m, pc) /\ alive' = alive \ {m.id}
      /\ UNCHANGED <<form, clock, fetch, cooling, submits>>
      /\ seen' = [seen EXCEPT !.spent = IF m.id \in alive /\ m.code # m.id THEN @ ELSE @ \union {m.id}]
  BY DEF VerifyCaptcha
<1>2. m.code = m.id /\ m.id \in Nat
  BY LoginAssumption DEF LoginInv, MailsFit, MailsType, Mails, Pictures
<1>3. seen' = [seen EXCEPT !.spent = @ \union {m.id}]
  BY <1>1, <1>2
<1>4. SeenType' /\ seen'.lost = seen.lost /\ m.id \in seen'.spent
  BY <1>2, <1>3 DEF LoginInv, SeenType
<1>5. pc \in {"verified", "wrong"}
  OBVIOUS
<1> HIDE DEF pc
<1>6. /\ mails = {m} /\ mails' = {[m EXCEPT !.pc = pc]} /\ mails' \subseteq Mails
      /\ \A o \in mails' : o.code = o.id /\ o.id = m.id /\ o.pc = pc
  BY <1>1, <1>5, ServedMail
<1>7. MailsType' /\ MailsFit' /\ OneMail'
  BY <1>1, <1>4, <1>6 DEF LoginInv, MailsType, MailsFit, OneMail
<1>8. NoLonger'
  BY <1>1, <1>4, <1>5, <1>6 DEF LoginInv, NoLonger
<1>9. FormType' /\ ClockType' /\ FetchType' /\ SubmitsType' /\ Entered' /\ Interval'
  BY <1>1 DEF LoginInv, FormType, ClockType, FetchType, SubmitsType, Entered, Interval
<1> QED
  BY <1>4, <1>7, <1>8, <1>9 DEF LoginInv

\* A cooldown begins only with a mail that is sent.
LEMMA SendEmailCodeInv ==
  ASSUME LoginInv, NEW m \in mails, SendEmailCode(m)
  PROVE  LoginInv'
<1>1. m.pc = "verified" /\ UNCHANGED <<form, clock, fetch, alive, submits, seen>>
  BY DEF SendEmailCode
<1>2. PICK pc \in {"cool", "refused", "ok"} :
        /\ Served(m, pc)
        /\ pc = "cool" => cooling[m.kind] > 0
        /\ pc # "ok" => UNCHANGED cooling
        /\ cooling' \in {cooling, [cooling EXCEPT ![m.kind] = Cool]}
  BY DEF SendEmailCode
<1>3. /\ mails = {m} /\ mails' = {[m EXCEPT !.pc = pc]} /\ mails' \subseteq Mails
      /\ \A o \in mails' : o.code = o.id /\ o.id = m.id /\ o.pc = pc
  BY <1>2, ServedMail
<1>4. MailsType'
  BY <1>2, <1>3, LoginAssumption DEF LoginInv, MailsType, Mails
<1>5. MailsFit' /\ OneMail'
  BY <1>1, <1>2, <1>3 DEF LoginInv, MailsFit, OneMail
<1>6. NoLonger'
  <2> SUFFICES ASSUME ~seen.lost
               PROVE  /\ pc # "cool"
                      /\ pc # "ok" => \A k \in CodeKinds : cooling'[k] <= clock'.left
    BY <1>1, <1>3 DEF NoLonger
  <2>1. \A k \in CodeKinds : cooling[k] <= clock.left
    BY <1>1, <1>3 DEF LoginInv, NoLonger
  <2>2. clock.left = 0 /\ m.kind \in CodeKinds /\ cooling[m.kind] \in Nat
    BY LoginAssumption DEF LoginInv, OneMail, MailsType, Mails
  <2>3. pc # "cool"
    BY <1>2, <2>1, <2>2
  <2> QED
    BY <1>1, <1>2, <2>1, <2>3
<1>7. FormType' /\ ClockType' /\ FetchType' /\ SubmitsType' /\ SeenType' /\ Entered' /\ Interval'
  BY <1>1 DEF LoginInv, FormType, ClockType, FetchType, SubmitsType, SeenType, Entered, Interval
<1> QED
  BY <1>4, <1>5, <1>6, <1>7 DEF LoginInv

\* The countdown begins anew: none runs, since a mail was under way.
LEMMA CodeSentInv ==
  ASSUME LoginInv, NEW m \in mails, CodeSent(m)
  PROVE  LoginInv'
<1>1. /\ mails' = mails \ {m} /\ UNCHANGED <<form, fetch, alive, cooling, submits, seen>>
      /\ clock' = [left |-> Cool, intervals |-> clock.intervals + 1, sending |-> FALSE]
  BY DEF CodeSent
<1>2. mails' = {} /\ clock.left = 0
  BY <1>1 DEF LoginInv, OneMail
<1>3. clock.intervals = 0 /\ Cool \in Nat \ {0}
  BY <1>2, LoginAssumption DEF LoginInv, Interval
<1>4. clock' = [left |-> Cool, intervals |-> 1, sending |-> FALSE]
  BY <1>1, <1>3
<1>5. ClockType' /\ Interval'
  BY <1>3, <1>4 DEF ClockType, Interval
<1>6. MailsType' /\ MailsFit' /\ OneMail'
  BY <1>1, <1>2 DEF LoginInv, MailsType, MailsFit, OneMail
<1>7. NoLonger'
  <2>1. \A k \in CodeKinds : cooling[k] <= Cool
    BY <1>3 DEF LoginInv, MailsType
  <2> QED
    BY <1>1, <1>2, <1>4, <2>1 DEF NoLonger
<1>8. FormType' /\ FetchType' /\ SubmitsType' /\ SeenType' /\ Entered'
  BY <1>1 DEF LoginInv, FormType, FetchType, SubmitsType, SeenType, Entered
<1> QED
  BY <1>5, <1>6, <1>7, <1>8 DEF LoginInv

LEMMA CodeNotSentInv ==
  ASSUME LoginInv, NEW m \in mails, CodeNotSent(m)
  PROVE  LoginInv'
<1> DEFINE more == IF seen.pictures < MaxPictures THEN Count("pictures") ELSE seen
<1>1. /\ mails' = mails \ {m} /\ UNCHANGED <<form, alive, cooling, submits>>
      /\ clock' = [clock EXCEPT !.sending = FALSE] /\ fetch' = Fetched
      /\ seen' = [more EXCEPT !.lost = @ \/ m.pc \in {"ok", "verified", "sent"}]
  BY DEF CodeNotSent
<1>2. mails = {m} /\ mails' = {} /\ clock.left = 0
  BY <1>1 DEF LoginInv, OneMail
<1>3. MaxPictures \in Nat /\ MaxSends \in Nat /\ Cool \in Nat
  BY LoginAssumption
<1>4. fetch' \subseteq [n : 1 .. MaxPictures, served : BOOLEAN]
  BY <1>1, FetchedType
<1>5. more \in [pictures : Pictures, mails : 0 .. MaxSends, submits : Nat, spent : SUBSET Nat, lost : BOOLEAN]
      /\ more.lost = seen.lost /\ more.spent = seen.spent
  BY <1>3 DEF Count, LoginInv, SeenType, Pictures
<1> HIDE DEF more
<1>6. /\ SeenType'
      /\ seen'.lost = (seen.lost \/ m.pc \in {"ok", "verified", "sent"})
  BY <1>1, <1>5 DEF SeenType
<1>7. ClockType' /\ Interval' /\ clock'.left = clock.left
  BY <1>1 DEF LoginInv, ClockType, Interval
<1>8. MailsType' /\ MailsFit' /\ OneMail'
  BY <1>1, <1>2 DEF LoginInv, MailsType, MailsFit, OneMail
<1>9. NoLonger'
  BY <1>1, <1>2, <1>6, <1>7 DEF LoginInv, NoLonger
<1>10. FormType' /\ FetchType' /\ SubmitsType' /\ Entered'
  BY <1>1, <1>4 DEF LoginInv, FormType, FetchType, SubmitsType, Entered
<1> QED
  BY <1>6, <1>7, <1>8, <1>9, <1>10 DEF LoginInv

\* The countdown does not run ahead of the server.
LEMMA LoginTickInv ==
  ASSUME LoginInv, Tick
  PROVE  LoginInv'
<1>1. /\ cooling' = [k \in CodeKinds |-> IF cooling[k] > 0 THEN cooling[k] - 1 ELSE 0]
      /\ UNCHANGED <<form, fetch, alive, mails, submits, seen>>
  BY DEF Tick
<1>2. Cool \in Nat /\ \A k \in CodeKinds : cooling[k] \in 0 .. Cool
  BY LoginAssumption DEF LoginInv, MailsType
<1>3. MailsType' /\ MailsFit'
  BY <1>1, <1>2 DEF LoginInv, MailsType, MailsFit
<1>4. FormType' /\ FetchType' /\ SubmitsType' /\ SeenType' /\ Entered'
  BY <1>1 DEF LoginInv, FormType, FetchType, SubmitsType, SeenType, Entered
<1>5. CASE UNCHANGED clock
  <2>1. ClockType' /\ OneMail' /\ Interval'
    BY <1>1, <1>5 DEF LoginInv, ClockType, OneMail, Interval
  <2>2. NoLonger'
    BY <1>1, <1>2, <1>5 DEF LoginInv, NoLonger, ClockType
  <2> QED
    BY <1>3, <1>4, <2>1, <2>2 DEF LoginInv
<1>6. CASE /\ clock' = [clock EXCEPT !.left = @ - clock.intervals,
                                     !.intervals = IF clock.left <= clock.intervals THEN @ - 1 ELSE @]
           /\ clock.intervals > 0
  <2>1. clock.left \in 1 .. Cool /\ clock.intervals = 1
    BY <1>2, <1>6 DEF LoginInv, ClockType, Interval
  <2>2. /\ clock.left - 1 \in 0 .. Cool
        /\ (IF clock.left <= clock.intervals THEN clock.intervals - 1 ELSE clock.intervals)
             = IF clock.left <= 1 THEN 0 ELSE 1
    BY <1>2, <2>1
  <2> DEFINE rest == IF clock.left <= 1 THEN 0 ELSE 1
  <2>a. rest \in 0 .. 1
    OBVIOUS
  <2>b. clock' = [clock EXCEPT !.left = clock.left - 1, !.intervals = rest]
    <3>1. clock' = [clock EXCEPT !.left = clock.left - clock.intervals,
                !.intervals = IF clock.left <= clock.intervals THEN clock.intervals - 1 ELSE clock.intervals]
      BY <1>6, Zenon
    <3> QED
      BY <2>1, <2>2, <3>1
  <2> HIDE DEF rest
  <2>3. clock' \in [left : 0 .. Cool, intervals : 0 .. 1, sending : BOOLEAN]
        /\ clock'.left = clock.left - 1 /\ clock'.intervals = rest
    BY <2>2, <2>a, <2>b DEF LoginInv, ClockType
  <2>4. ClockType' /\ Interval'
    BY <1>2, <2>1, <2>3 DEF ClockType, Interval, rest
  <2>5. mails' = {}
    BY <1>1, <2>1 DEF LoginInv, OneMail
  <2>6. NoLonger'
    BY <1>1, <1>2, <2>1, <2>3, <2>5 DEF LoginInv, NoLonger
  <2> QED
    BY <1>3, <1>4, <2>4, <2>5, <2>6 DEF LoginInv, OneMail
<1> QED
  BY <1>5, <1>6 DEF Tick

LEMMA LoginStep == LoginInv /\ [LoginNext]_loginVars => LoginInv'
<1> SUFFICES ASSUME LoginInv, [LoginNext]_loginVars PROVE LoginInv'
  OBVIOUS
<1>1. CASE UNCHANGED loginVars
  BY <1>1 DEF loginVars, LoginInv, FormType, ClockType, FetchType, MailsType, SubmitsType, SeenType,
              Entered, MailsFit, OneMail, Interval, NoLonger
<1>2. CASE HandleSendCode \/ Tick
  BY <1>2, HandleSendCodeInv, LoginTickInv
<1>3. ASSUME NEW m \in mails, VerifyCaptcha(m) \/ SendEmailCode(m) \/ CodeSent(m) \/ CodeNotSent(m)
      PROVE  LoginInv'
  BY <1>3, VerifyCaptchaInv, SendEmailCodeInv, CodeSentInv, CodeNotSentInv
<1> QED
  BY <1>1, <1>2, <1>3, PictureInv, FormsInv DEF LoginNext

\* What is entered is for the picture shown and refused only if that has served;
\* one interval runs during the countdown, and at its end the server's is over,
\* unless an answer was lost (LoginView.vue, captcha.service.ts).
THEOREM AlwaysAskable == LoginSpec => []CodesAskable
<1>1. LoginInv => CodesAskable
  <2> SUFFICES ASSUME LoginInv PROVE CodeFits /\ OneCountdown
    BY DEF CodesAskable
  <2>1. CodeFits
    BY DEF LoginInv, Entered, MailsFit, CodeFits
  <2>2. ASSUME clock.left <= 0, mails = {}, ~seen.lost, NEW k \in CodeKinds PROVE cooling[k] = 0
    <3>1. cooling[k] <= clock.left /\ cooling[k] \in Nat /\ clock.left \in Nat
      BY <2>2, LoginAssumption DEF LoginInv, NoLonger, MailsType, ClockType
    <3> QED
      BY <2>2, <3>1
  <2> QED
    BY <2>1, <2>2 DEF OneCountdown, LoginInv, Interval
<1> QED
  BY <1>1, LoginInitInv, LoginStep, PTL DEF LoginSpec
-----------------------------------------------------------------------------
(* Codes by e-mail                                                          *)

Codes == Code \union {None}
KeyType == key \in [Scene -> [code : Codes, cool : Codes, fails : Nat]]
SendType == send \in [Sender -> [pc : {"idle", "look", "count", "bound", "cool", "code", "mark", "clear",
                                       "mail", "undo"}, scene : Scene, code : Codes]]
VisitType == visit \in [Visitor -> [pc : {"idle", "count", "burn", "look", "create"}, scene : Scene, code : Codes]]
LogType == log \in [issued : 0 .. MaxCodes, entries : 0 .. MaxEntries, faults : 0 .. MaxFaults,
                    spent : [Code -> Nat], wrong : [Code -> Nat], crossed : SUBSET Code]
Carried == {"mark", "clear", "mail", "undo"}
CodesTypes ==
  /\ KeyType /\ SendType /\ VisitType /\ LogType
  /\ daily \in 0 .. MaxDaily + 1 /\ box \subseteq Code /\ account \subseteq Visitor
  /\ \A r \in Sender : send[r].code # None <=> send[r].pc \in Carried

\* A code in Redis has been issued, is that of one scene and has not been
\* accepted, and a code that was accepted is gone for good.
Issued ==
  /\ \A s \in Scene : key[s].code <= log.issued
  /\ \A r \in Sender : send[r].code <= log.issued
Apart == \A s, o \in Scene : key[s].code # None /\ key[s].code = key[o].code => s = o
Unspent ==
  /\ \A n \in Code : log.spent[n] \in {0, 1}
  /\ \A n \in Code : log.spent[n] = 1 => n <= log.issued /\ \A s \in Scene : key[s].code # n
One == account = {} \/ \E v \in Visitor : account = {v}

\* The request that set the code of a scene is of that scene; one that carries
\* another code of the scene went across it.
OwnScene ==
  \A r \in Sender, s \in Scene : key[s].code # None /\ send[r].code = key[s].code => send[r].scene = s
OthersCross ==
  \A r \in Sender, s \in Scene :
    /\ key[s].code # None /\ send[r].scene = s
    /\ send[r].pc \in Carried /\ send[r].code # key[s].code
    => key[s].code \in log.crossed

\* Wrong entries that are about to be counted, and to destroy the code.
Counting(s) == {v \in Visitor : visit[v].pc = "count" /\ visit[v].scene = s}
Burning(s) == {v \in Visitor : visit[v].pc = "burn" /\ visit[v].scene = s}

\* The failures of a code that nothing went across, once those of the code
\* before are cleared, are wrong entries of this code.
FreshFor(s) == \E r \in Sender : send[r].code = key[s].code /\ send[r].pc \in {"mark", "clear"}
FailsOwn(s) ==
  IF FreshFor(s) THEN Counting(s) = {} /\ Burning(s) = {}
  ELSE /\ key[s].fails + Cardinality(Counting(s)) <= log.wrong[key[s].code]
       /\ Burning(s) # {} => log.wrong[key[s].code] >= MaxFails
FailsFit(s) == key[s].code # None /\ key[s].code \notin log.crossed /\ log.faults = 0 => FailsOwn(s)

CodesInv ==
  /\ CodesTypes /\ Issued /\ Apart /\ Unspent /\ One /\ OwnScene /\ OthersCross
  /\ \A s \in Scene : IsFiniteSet(Counting(s)) /\ FailsFit(s)

LEMMA CodesInitInv == CodesInit => CodesInv
<1> SUFFICES ASSUME CodesInit PROVE CodesInv
  OBVIOUS
<1>1. /\ MaxDaily \in Nat /\ MaxCodes \in Nat /\ MaxEntries \in Nat /\ MaxFaults \in Nat
  BY EmailCodesAssumption
<1>2. CodesTypes
  BY <1>1 DEF CodesInit, CodesTypes, KeyType, SendType, VisitType, LogType, Codes, Code, None, NoSend, NoVisit,
              Scene, Carried
<1>3. Issued /\ Apart /\ Unspent /\ One /\ OwnScene /\ OthersCross
  BY DEF CodesInit, Issued, Apart, Unspent, One, OwnScene, OthersCross, None, NoSend
<1>4. ASSUME NEW s \in Scene PROVE IsFiniteSet(Counting(s)) /\ FailsFit(s)
  <2>1. Counting(s) = {}
    BY DEF CodesInit, Counting, NoVisit, NoSend
  <2>2. key[s].code = None
    BY DEF CodesInit
  <2> QED
    BY <2>1, <2>2, FS_EmptySet DEF FailsFit
<1> QED
  BY <1>2, <1>3, <1>4 DEF CodesInv

\* A step that takes codes away, or lets requests end, adds nothing.
LEMMA CodesRest ==
  ASSUME CodesInv, CodesTypes', One',
         /\ log'.issued = log.issued /\ log'.spent = log.spent
         /\ log'.wrong = log.wrong /\ log'.crossed = log.crossed,
         \A s \in Scene : \/ key'[s].code = None
                          \/ key'[s].code = key[s].code /\ key'[s].fails <= key[s].fails,
         \A r \in Sender : send'[r].pc \in Carried =>
           send[r].pc \in Carried /\ send'[r].code = send[r].code /\ send'[r].scene = send[r].scene,
         log'.faults = 0 =>
           log.faults = 0 /\ \A r \in Sender : send[r].pc \in {"mark", "clear"} <=> send'[r].pc \in {"mark", "clear"},
         \A s \in Scene : Counting(s)' \subseteq Counting(s) /\ Burning(s)' \subseteq Burning(s)
  PROVE  CodesInv'
<1>1. \A r \in Sender : send'[r].code # None =>
        send[r].pc \in Carried /\ send'[r].code = send[r].code /\ send'[r].scene = send[r].scene
  BY DEF CodesTypes
<1>2. log.issued \in Nat /\ MaxCodes \in Nat
  BY EmailCodesAssumption DEF CodesInv, CodesTypes, LogType
<1>3. Issued'
  <2>1. \A s \in Scene : key'[s].code <= log'.issued
    BY <1>2 DEF CodesInv, Issued, None
  <2>2. \A r \in Sender : send'[r].code <= log'.issued
    BY <1>1, <1>2 DEF CodesInv, Issued, None
  <2> QED
    BY <2>1, <2>2 DEF Issued
<1>4. Apart'
  <2> SUFFICES ASSUME NEW s \in Scene, NEW o \in Scene, key'[s].code # None, key'[s].code = key'[o].code
               PROVE  s = o
    BY DEF Apart
  <2> QED
    BY DEF CodesInv, Apart
<1>5. Unspent'
  <2> SUFFICES ASSUME NEW n \in Code, log.spent[n] = 1, NEW s \in Scene PROVE key'[s].code # n
    BY DEF CodesInv, Unspent
  <2>1. n # None /\ key[s].code # n
    BY <1>2 DEF CodesInv, Unspent, Code, None
  <2> QED
    BY <2>1
<1>6. OwnScene'
  <2> SUFFICES ASSUME NEW r \in Sender, NEW s \in Scene, key'[s].code # None, send'[r].code = key'[s].code
               PROVE  send'[r].scene = s
    BY DEF OwnScene
  <2> QED
    BY <1>1 DEF CodesInv, OwnScene
<1>7. OthersCross'
  <2> SUFFICES ASSUME NEW r \in Sender, NEW s \in Scene, key'[s].code # None, send'[r].scene = s,
                      send'[r].pc \in Carried, send'[r].code # key'[s].code
               PROVE  key'[s].code \in log'.crossed
    BY DEF OthersCross
  <2> QED
    BY DEF CodesInv, OthersCross
<1>8. ASSUME NEW s \in Scene PROVE IsFiniteSet(Counting(s))' /\ FailsFit(s)'
  <2>1. IsFiniteSet(Counting(s)) /\ FailsFit(s)
    BY DEF CodesInv
  <2>2. /\ IsFiniteSet(Counting(s)') /\ Cardinality(Counting(s)') <= Cardinality(Counting(s))
        /\ Cardinality(Counting(s)') \in Nat /\ Cardinality(Counting(s)) \in Nat
    BY <2>1, FS_Subset, FS_CardinalityType
  <2>3. ASSUME key'[s].code # None, key'[s].code \notin log'.crossed, log'.faults = 0 PROVE FailsOwn(s)'
    <3>1. key'[s].code = key[s].code /\ key'[s].fails <= key[s].fails /\ FailsOwn(s)
      BY <2>1, <2>3 DEF FailsFit
    <3>2. FreshFor(s)' <=> FreshFor(s)
      <4>1. \A r \in Sender : send[r].pc \in {"mark", "clear"} => send'[r].pc \in Carried
        BY <2>3 DEF Carried
      <4> QED
        BY <2>3, <3>1, <4>1 DEF FreshFor
    <3>3. CASE FreshFor(s)
      BY <3>1, <3>2, <3>3 DEF FailsOwn
    <3>4. CASE ~FreshFor(s)
      <4>1. key[s].code \in Code
        BY <2>3, <3>1 DEF CodesInv, CodesTypes, KeyType, Codes
      <4>2. key[s].fails \in Nat /\ key'[s].fails \in Nat /\ log.wrong[key[s].code] \in Nat
        BY <4>1 DEF CodesInv, CodesTypes, KeyType, LogType
      <4>3. key[s].fails + Cardinality(Counting(s)) <= log.wrong[key[s].code]
        BY <3>1, <3>4 DEF FailsOwn
      <4>4. key'[s].fails + Cardinality(Counting(s)') <= log'.wrong[key'[s].code]
        BY <2>2, <3>1, <4>2, <4>3
      <4>5. Burning(s)' # {} => log'.wrong[key'[s].code] >= MaxFails
        BY <3>1, <3>4 DEF FailsOwn
      <4>6. ~FreshFor(s)'
        BY <3>2, <3>4
      <4> QED
        BY <4>4, <4>5, <4>6 DEF FailsOwn
    <3> QED
      BY <3>3, <3>4
  <2> QED
    BY <2>2, <2>3 DEF FailsFit
<1> QED
  BY <1>3, <1>4, <1>5, <1>6, <1>7, <1>8 DEF CodesInv

LEMMA FaultTypes ==
  ASSUME CodesTypes, Fault
  PROVE  /\ LogType' /\ log'.faults # 0
         /\ log'.issued = log.issued /\ log'.spent = log.spent
         /\ log'.wrong = log.wrong /\ log'.crossed = log.crossed
<1>1. log' = [log EXCEPT !.faults = @ + 1] /\ log.faults + 1 \in 0 .. MaxFaults /\ log.faults \in Nat
  BY EmailCodesAssumption DEF Fault, CodesTypes, LogType
<1> QED
  BY <1>1 DEF CodesTypes, LogType

LEMMA SendTypes ==
  ASSUME CodesTypes, NEW r \in Sender,
         \/ SendEnds(r)
         \/ \E pc \in {"count", "bound", "cool", "code"} : send[r].pc \notin Carried /\ Sending(r, pc)
         \/ \E pc \in Carried : send[r].pc \in Carried /\ Sending(r, pc)
  PROVE  /\ SendType' /\ \A o \in Sender : send'[o].code # None <=> send'[o].pc \in Carried
         /\ \A o \in Sender \ {r} : send'[o] = send[o]
         /\ send'[r].pc \in Carried => send[r].pc \in Carried /\ send'[r].code = send[r].code /\ send'[r].scene = send[r].scene
<1>1. NoSend \in [pc : {"idle", "look", "count", "bound", "cool", "code", "mark", "clear", "mail", "undo"},
                  scene : Scene, code : Codes]
      /\ NoSend.code = None /\ NoSend.pc \notin Carried
  BY DEF NoSend, Codes, None, Scene, Carried
<1>2. CASE SendEnds(r)
  BY <1>1, <1>2 DEF SendEnds, CodesTypes, SendType
<1>3. ASSUME NEW pc \in {"count", "bound", "cool", "code"} \union Carried, Sending(r, pc),
             pc \in Carried <=> send[r].pc \in Carried
      PROVE  /\ SendType' /\ \A o \in Sender : send'[o].code # None <=> send'[o].pc \in Carried
             /\ \A o \in Sender \ {r} : send'[o] = send[o]
             /\ send'[r].code = send[r].code /\ send'[r].scene = send[r].scene
             /\ send'[r].pc \in Carried => send[r].pc \in Carried
  <2>1. pc \in {"idle", "look", "count", "bound", "cool", "code", "mark", "clear", "mail", "undo"}
    BY DEF Carried
  <2>2. send[r] \in [pc : {"idle", "look", "count", "bound", "cool", "code", "mark", "clear", "mail", "undo"},
                  scene : Scene, code : Codes]
    BY DEF CodesTypes, SendType
  <2>3. /\ [send[r] EXCEPT !.pc = pc] \in [pc : {"idle", "look", "count", "bound", "cool", "code", "mark", "clear", "mail", "undo"},
                  scene : Scene, code : Codes]
        /\ [send[r] EXCEPT !.pc = pc].code = send[r].code
        /\ [send[r] EXCEPT !.pc = pc].scene = send[r].scene
        /\ [send[r] EXCEPT !.pc = pc].pc = pc
    BY <2>1, <2>2
  <2>4. send' = [send EXCEPT ![r] = [send[r] EXCEPT !.pc = pc]]
    BY <1>3 DEF Sending
  <2>5. send'[r] = [send[r] EXCEPT !.pc = pc] /\ SendType' /\ \A o \in Sender \ {r} : send'[o] = send[o]
    BY <2>3, <2>4 DEF CodesTypes, SendType
  <2> QED
    BY <1>3, <2>3, <2>5 DEF CodesTypes
<1>4. \A pc \in {"count", "bound", "cool", "code"} : pc \notin Carried
  BY DEF Carried
<1>5. CASE \E pc \in {"count", "bound", "cool", "code"} : send[r].pc \notin Carried /\ Sending(r, pc)
  BY <1>3, <1>4, <1>5
<1>6. CASE \E pc \in Carried : send[r].pc \in Carried /\ Sending(r, pc)
  BY <1>3, <1>6
<1> QED
  BY <1>2, <1>5, <1>6

\* Before the code is set a request changes nothing but the day's count.
LEMMA PrepareInv ==
  ASSUME CodesInv, NEW r \in Sender,
         \/ \E s \in Scene : AskCode(r, s)
         \/ LookTaken(r) \/ CountToday(r) \/ LookBound(r) \/ CheckCool(r)
  PROVE  CodesInv'
<1>1. UNCHANGED <<key, visit, box, account>> /\ send[r].pc \notin Carried /\ send[r].pc \notin {"mark", "clear"}
  BY DEF AskCode, LookTaken, CountToday, LookBound, CheckCool, Carried
<1>2. /\ SendType' /\ \A o \in Sender : send'[o].code # None <=> send'[o].pc \in Carried
      /\ \A o \in Sender \ {r} : send'[o] = send[o]
      /\ send'[r].pc \notin Carried
  <2>1. CASE \E s \in Scene : AskCode(r, s)
    <3>1. PICK s \in Scene : send' = [send EXCEPT ![r] = [pc |-> "look", scene |-> s, code |-> None]]
      BY <2>1 DEF AskCode
    <3>2. [pc |-> "look", scene |-> s, code |-> None] \in
            [pc : {"idle", "look", "count", "bound", "cool", "code", "mark", "clear", "mail", "undo"},
             scene : Scene, code : Codes]
      BY DEF Codes
    <3>3. send'[r] = [pc |-> "look", scene |-> s, code |-> None] /\ SendType'
          /\ \A o \in Sender \ {r} : send'[o] = send[o]
      BY <3>1, <3>2 DEF CodesInv, CodesTypes, SendType
    <3> QED
      BY <3>3 DEF CodesInv, CodesTypes, Carried
  <2>2. CASE LookTaken(r) \/ CountToday(r) \/ LookBound(r) \/ CheckCool(r)
    <3>1. SendEnds(r) \/ \E pc \in {"count", "bound", "cool", "code"} : Sending(r, pc)
      BY <2>2 DEF LookTaken, CountToday, LookBound, CheckCool
    <3> QED
      BY <1>1, <3>1, SendTypes DEF CodesInv
  <2> QED
    BY <2>1, <2>2
<1>3. UNCHANGED log \/ Fault
  BY DEF AskCode, LookTaken, CountToday, LookBound, CheckCool
<1>4. /\ LogType' /\ log'.issued = log.issued /\ log'.spent = log.spent
      /\ log'.wrong = log.wrong /\ log'.crossed = log.crossed
      /\ log'.faults = 0 => log.faults = 0
  BY <1>3, FaultTypes DEF CodesInv, CodesTypes, LogType
<1>5. daily' \in 0 .. MaxDaily + 1
  BY EmailCodesAssumption DEF CodesInv, CodesTypes, AskCode, LookTaken, CountToday, LookBound, CheckCool, Counted
<1>6. CodesTypes'
  BY <1>1, <1>2, <1>4, <1>5 DEF CodesInv, CodesTypes, KeyType, VisitType
<1>7. One'
  BY <1>1 DEF CodesInv, One
<1>8. \A o \in Sender : send'[o].pc \in Carried =>
        send[o].pc \in Carried /\ send'[o].code = send[o].code /\ send'[o].scene = send[o].scene
  BY <1>2
<1>9. \A o \in Sender : send[o].pc \in {"mark", "clear"} <=> send'[o].pc \in {"mark", "clear"}
  BY <1>1, <1>2 DEF Carried
<1>10. \A s \in Scene : /\ Counting(s)' \subseteq Counting(s) /\ Burning(s)' \subseteq Burning(s)
                        /\ key'[s].code = key[s].code /\ key'[s].fails <= key[s].fails
  BY <1>1 DEF Counting, Burning, CodesInv, CodesTypes, KeyType
<1> QED
  BY <1>4, <1>6, <1>7, <1>8, <1>9, <1>10, CodesRest

\* The cooldown, the mail and what follows when it fails.
LEMMA DeliverInv ==
  ASSUME CodesInv, NEW r \in Sender, MarkCool(r) \/ Mail(r) \/ Undo(r)
  PROVE  CodesInv'
<1>1. UNCHANGED <<daily, visit, account>> /\ send[r].pc \in {"mark", "mail", "undo"}
  BY DEF MarkCool, Mail, Undo
<1>2. /\ SendType' /\ \A o \in Sender : send'[o].code # None <=> send'[o].pc \in Carried
      /\ \A o \in Sender \ {r} : send'[o] = send[o]
      /\ send'[r].pc \in Carried => send[r].pc \in Carried /\ send'[r].code = send[r].code /\ send'[r].scene = send[r].scene
  <2>1. SendEnds(r) \/ \E pc \in Carried : send[r].pc \in Carried /\ Sending(r, pc)
    BY <1>1 DEF MarkCool, Mail, Undo, Carried
  <2> QED
    BY <2>1, SendTypes DEF CodesInv
<1>3. send[r].code \in Code
  BY <1>1 DEF CodesInv, CodesTypes, SendType, Codes, Carried
<1>4. UNCHANGED log \/ Fault
  BY DEF MarkCool, Mail, Undo
<1>5. /\ LogType' /\ log'.issued = log.issued /\ log'.spent = log.spent
      /\ log'.wrong = log.wrong /\ log'.crossed = log.crossed
      /\ log'.faults = 0 => log.faults = 0 /\ log' = log
  BY <1>4, FaultTypes DEF CodesInv, CodesTypes, LogType
<1>6. /\ KeyType'
      /\ \A s \in Scene : \/ key'[s].code = None
                          \/ key'[s].code = key[s].code /\ key'[s].fails <= key[s].fails
  <2>1. CASE UNCHANGED key
    BY <2>1 DEF CodesInv, CodesTypes, KeyType
  <2>2. CASE key' = [key EXCEPT ![send[r].scene].cool = send[r].code]
    <3> DEFINE t == send[r].scene
               cold == [key[t] EXCEPT !.cool = send[r].code]
    <3>1. t \in Scene
      BY DEF CodesInv, CodesTypes, SendType
    <3>2. /\ cold \in [code : Codes, cool : Codes, fails : Nat]
          /\ cold.code = key[t].code /\ cold.fails = key[t].fails
      BY <1>3, <3>1 DEF CodesInv, CodesTypes, KeyType, Codes
    <3>3. key' = [key EXCEPT ![t] = cold]
      BY <2>2
    <3> HIDE DEF t, cold
    <3> QED
      BY <3>1, <3>2, <3>3 DEF CodesInv, CodesTypes, KeyType
  <2>3. CASE key' = [key EXCEPT ![send[r].scene] = [@ EXCEPT !.code = None, !.cool = None]]
    <3> DEFINE t == send[r].scene
               gone == [key[t] EXCEPT !.code = None, !.cool = None]
    <3>1. t \in Scene
      BY DEF CodesInv, CodesTypes, SendType
    <3>2. gone \in [code : Codes, cool : Codes, fails : Nat] /\ gone.code = None
      BY <3>1 DEF CodesInv, CodesTypes, KeyType, Codes
    <3>3. key' = [key EXCEPT ![t] = gone]
      BY <2>3
    <3> HIDE DEF t, gone
    <3> QED
      BY <3>1, <3>2, <3>3 DEF CodesInv, CodesTypes, KeyType
  <2> QED
    BY <2>1, <2>2, <2>3 DEF MarkCool, Mail, Undo
<1>7. box' \subseteq Code
  BY <1>3 DEF MarkCool, Mail, Undo, CodesInv, CodesTypes
<1>8. CodesTypes'
  BY <1>1, <1>2, <1>5, <1>6, <1>7 DEF CodesInv, CodesTypes, VisitType
<1>9. One'
  BY <1>1 DEF CodesInv, One
<1>10. \A s \in Scene : Counting(s)' \subseteq Counting(s) /\ Burning(s)' \subseteq Burning(s)
  BY <1>1 DEF Counting, Burning
<1>11. log'.faults = 0 =>
         log.faults = 0 /\ \A o \in Sender : send[o].pc \in {"mark", "clear"} <=> send'[o].pc \in {"mark", "clear"}
  <2> SUFFICES ASSUME log'.faults = 0 PROVE send[r].pc \in {"mark", "clear"} <=> send'[r].pc \in {"mark", "clear"}
    BY <1>2, <1>5
  <2>1. ~Fault
    BY FaultTypes DEF CodesInv
  <2>2. CASE MarkCool(r)
    <3>1. send' = [send EXCEPT ![r].pc = "clear"] /\ send[r].pc = "mark"
      BY <2>1, <2>2 DEF MarkCool, Sending
    <3>2. send'[r].pc = "clear"
      BY <3>1 DEF CodesInv, CodesTypes, SendType
    <3> QED
      BY <3>1, <3>2
  <2>3. CASE Mail(r) \/ Undo(r)
    <3>1. send[r].pc \notin {"mark", "clear"} /\ (SendEnds(r) \/ Sending(r, "undo"))
      BY <2>3 DEF Mail, Undo
    <3>2. send'[r].pc \in {"idle", "undo"}
      BY <3>1 DEF Sending, SendEnds, NoSend, CodesInv, CodesTypes, SendType
    <3> QED
      BY <3>1, <3>2
  <2> QED
    BY <2>2, <2>3
<1>12. \A o \in Sender : send'[o].pc \in Carried =>
         send[o].pc \in Carried /\ send'[o].code = send[o].code /\ send'[o].scene = send[o].scene
  BY <1>2
<1> QED
  BY <1>5, <1>6, <1>8, <1>9, <1>10, <1>11, <1>12, CodesRest

\* With the codes as they are, what was said of them stays true.
LEMMA CodesSame ==
  ASSUME CodesInv,
         \A s \in Scene : key'[s].code = key[s].code,
         \A r \in Sender : /\ send'[r].code = send[r].code /\ send'[r].scene = send[r].scene
                           /\ send'[r].pc \in Carried => send[r].pc \in Carried,
         log'.issued = log.issued, log'.spent = log.spent, log.crossed \subseteq log'.crossed,
         UNCHANGED account
  PROVE  Issued' /\ Apart' /\ Unspent' /\ One' /\ OwnScene' /\ OthersCross'
<1>1. Issued' /\ Apart' /\ Unspent' /\ One'
  BY DEF CodesInv, Issued, Apart, Unspent, One
<1>2. OwnScene'
  BY DEF CodesInv, OwnScene
<1>3. OthersCross'
  BY DEF CodesInv, OthersCross
<1> QED
  BY <1>1, <1>2, <1>3

\* The failures of the code before are cleared: whoever clears them carries the
\* code, or went across it.
LEMMA ClearFailsInv ==
  ASSUME CodesInv, NEW r \in Sender, ClearFails(r)
  PROVE  CodesInv'
<1> DEFINE t == send[r].scene
           clean == [key[t] EXCEPT !.fails = 0]
<1>1. /\ send[r].pc = "clear" /\ Sending(r, "mail") /\ UNCHANGED <<daily, visit, box, account>>
      /\ \/ key' = [key EXCEPT ![t] = clean] /\ UNCHANGED log
         \/ Fault /\ UNCHANGED key
  BY DEF ClearFails
<1>2. /\ SendType' /\ \A o \in Sender : send'[o].code # None <=> send'[o].pc \in Carried
      /\ \A o \in Sender \ {r} : send'[o] = send[o]
      /\ send[r].pc \in Carried
  <2>1. send[r].pc \in Carried /\ "mail" \in Carried
    BY <1>1 DEF Carried
  <2> QED
    BY <1>1, <2>1, SendTypes DEF CodesInv
<1>3. send'[r].code = send[r].code /\ send'[r].scene = send[r].scene /\ send'[r].pc = "mail"
  BY <1>1 DEF Sending, CodesInv, CodesTypes, SendType
<1>4. t \in Scene
  BY DEF CodesInv, CodesTypes, SendType
<1>5. clean \in [code : Codes, cool : Codes, fails : Nat] /\ clean.code = key[t].code /\ clean.fails = 0
  BY <1>4 DEF CodesInv, CodesTypes, KeyType
<1>6. \A s \in Scene : Counting(s)' = Counting(s) /\ Burning(s)' = Burning(s)
  BY <1>1 DEF Counting, Burning
<1> HIDE DEF t, clean
<1>7. KeyType' /\ \A s \in Scene : key'[s].code = key[s].code
  BY <1>1, <1>4, <1>5 DEF CodesInv, CodesTypes, KeyType
<1>8. /\ LogType' /\ log'.issued = log.issued /\ log'.spent = log.spent
      /\ log'.wrong = log.wrong /\ log'.crossed = log.crossed
  BY <1>1, FaultTypes DEF CodesInv, CodesTypes, LogType
<1>9. CodesTypes'
  BY <1>1, <1>2, <1>7, <1>8 DEF CodesInv, CodesTypes, VisitType
<1>10. Issued' /\ Apart' /\ Unspent' /\ One' /\ OwnScene' /\ OthersCross'
  BY <1>1, <1>2, <1>3, <1>7, <1>8, CodesSame
<1>11. ASSUME NEW s \in Scene, key'[s].code # None, key'[s].code \notin log'.crossed, log'.faults = 0
       PROVE  FailsOwn(s)'
  <2>1. key' = [key EXCEPT ![t] = clean] /\ UNCHANGED log
    BY <1>1, <1>11, FaultTypes DEF CodesInv
  <2>2. key[s].code # None /\ key[s].code \notin log.crossed /\ FailsOwn(s)
    BY <1>7, <1>8, <1>11, <2>1 DEF CodesInv, FailsFit
  <2>3. CASE s = t
    <3>1. send[r].code = key[s].code
      BY <1>2, <2>2, <2>3 DEF CodesInv, OthersCross, t
    <3>2. FreshFor(s)
      BY <1>1, <3>1 DEF FreshFor
    <3>3. Counting(s) = {} /\ Burning(s) = {}
      BY <2>2, <3>2 DEF FailsOwn
    <3>4. key'[s].fails = 0 /\ log'.wrong[key'[s].code] \in Nat
      BY <1>4, <1>5, <1>9, <1>11, <2>1, <2>3 DEF CodesInv, CodesTypes, KeyType, LogType, Codes
    <3>5. Counting(s)' = {} /\ Burning(s)' = {} /\ Cardinality({}) = 0
      BY <1>6, <3>3, FS_EmptySet
    <3> QED
      BY <3>4, <3>5 DEF FailsOwn
  <2>4. CASE s # t
    <3>1. key'[s] = key[s]
      BY <1>4, <2>1, <2>4 DEF CodesInv, CodesTypes, KeyType
    <3>2. send[r].code # key[s].code
      BY <2>2, <2>4 DEF CodesInv, OwnScene, t
    <3>3. FreshFor(s)' <=> FreshFor(s)
      BY <1>2, <1>3, <3>1, <3>2 DEF FreshFor
    <3> QED
      BY <1>6, <1>8, <2>2, <3>1, <3>3 DEF FailsOwn
  <2> QED
    BY <2>3, <2>4
<1> QED
  BY <1>6, <1>9, <1>10, <1>11 DEF CodesInv, FailsFit

\* The new code is higher than any, and crossed if anybody is about to do
\* something to the code of its scene.
LEMMA SetCodeInv ==
  ASSUME CodesInv, NEW r \in Sender, SetCode(r)
  PROVE  CodesInv'
<1> DEFINE n == log.issued + 1
           t == send[r].scene
           new == [send[r] EXCEPT !.pc = "mark", !.code = n]
           key1 == [key[t] EXCEPT !.code = n]
<1>1. send[r].pc = "code" /\ UNCHANGED <<daily, visit, box, account>> /\ log.issued \in Nat /\ MaxCodes \in Nat
  BY EmailCodesAssumption DEF SetCode, CodesInv, CodesTypes, LogType
<1>2. \A s \in Scene : Counting(s)' = Counting(s) /\ Burning(s)' = Burning(s)
  BY <1>1 DEF Counting, Burning
<1>3. CASE SendEnds(r) /\ UNCHANGED <<key, log>>
  <2>1. /\ SendType' /\ \A o \in Sender : send'[o].code # None <=> send'[o].pc \in Carried
        /\ \A o \in Sender \ {r} : send'[o] = send[o]
    BY <1>3, SendTypes DEF CodesInv
  <2>2. send'[r].pc = "idle"
    BY <1>3 DEF SendEnds, NoSend, CodesInv, CodesTypes, SendType
  <2>3. CodesTypes' /\ One'
    BY <1>1, <1>3, <2>1 DEF CodesInv, CodesTypes, KeyType, VisitType, LogType, One
  <2>4. \A o \in Sender : /\ send'[o].pc \in Carried =>
                               send[o].pc \in Carried /\ send'[o].code = send[o].code /\ send'[o].scene = send[o].scene
                          /\ send[o].pc \in {"mark", "clear"} <=> send'[o].pc \in {"mark", "clear"}
    BY <1>1, <2>1, <2>2 DEF Carried
  <2>5. \A s \in Scene : key'[s].code = key[s].code /\ key'[s].fails <= key[s].fails
    BY <1>3 DEF CodesInv, CodesTypes, KeyType
  <2> QED
    BY <1>2, <1>3, <2>3, <2>4, <2>5, CodesRest
<1>4. CASE /\ n \in Code /\ key' = [key EXCEPT ![t].code = n]
           /\ send' = [send EXCEPT ![r] = new]
           /\ log' = [log EXCEPT !.issued = n, !.crossed = IF Crossing(r) THEN @ \union {n} ELSE @]
  <2>1. t \in Scene /\ send[r].code = None
    BY <1>1 DEF CodesInv, CodesTypes, SendType, Carried
  <2>2. /\ new \in [pc : {"idle", "look", "count", "bound", "cool", "code", "mark", "clear", "mail", "undo"},
                    scene : Scene, code : Codes]
        /\ new.pc = "mark" /\ new.code = n /\ new.scene = t
    BY <1>4 DEF CodesInv, CodesTypes, SendType, Codes
  <2>3. key1 \in [code : Codes, cool : Codes, fails : Nat] /\ key1.code = n
    BY <1>4, <2>1 DEF CodesInv, CodesTypes, KeyType, Codes
  <2>4. key' = [key EXCEPT ![t] = key1]
    BY <1>4
  <2>5. n \in 1 .. MaxCodes /\ n > log.issued /\ n # None
    BY <1>1, <1>4 DEF Code, None
  <2> HIDE DEF new, key1, t
  <2>6. KeyType' /\ key'[t].code = n /\ \A s \in Scene \ {t} : key'[s] = key[s]
    BY <2>1, <2>3, <2>4 DEF CodesInv, CodesTypes, KeyType
  <2>7. SendType' /\ send'[r] = new /\ \A o \in Sender \ {r} : send'[o] = send[o]
    BY <1>4, <2>2 DEF CodesInv, CodesTypes, SendType
  <2>8. /\ LogType' /\ log'.issued = n /\ log'.spent = log.spent /\ log'.wrong = log.wrong
        /\ log'.faults = log.faults /\ log.crossed \subseteq log'.crossed
        /\ n \in log'.crossed \/ ~Crossing(r)
    <3> DEFINE crossed == IF Crossing(r) THEN log.crossed \union {n} ELSE log.crossed
    <3>1. crossed \subseteq Code /\ log.crossed \subseteq crossed /\ (n \in crossed \/ ~Crossing(r))
      BY <1>4 DEF CodesInv, CodesTypes, LogType
    <3>2. log' = [log EXCEPT !.issued = n, !.crossed = crossed]
      BY <1>4
    <3>3. n \in 0 .. MaxCodes
      BY <2>5
    <3> HIDE DEF crossed, n
    <3> QED
      BY <3>1, <3>2, <3>3 DEF CodesInv, CodesTypes, LogType
  <2> HIDE DEF n
  <2>9. "mark" \in Carried
    BY DEF Carried
  <2>10. CodesTypes'
    BY <1>1, <2>2, <2>5, <2>6, <2>7, <2>8, <2>9 DEF CodesInv, CodesTypes, VisitType
  <2>11. /\ \A s \in Scene : key[s].code # n /\ key[s].code <= n
         /\ \A o \in Sender : send[o].code # n /\ send[o].code <= n
    <3>1. \A k \in Codes : k \in Nat
      BY <1>1 DEF Codes, Code, None
    <3> QED
      BY <1>1, <2>5, <3>1 DEF CodesInv, CodesTypes, KeyType, SendType, Issued
  <2>12. Issued'
    <3>1. n <= n
      BY <2>5
    <3> QED
      BY <2>2, <2>6, <2>7, <2>8, <2>11, <3>1 DEF Issued
  <2>13. Apart'
    BY <2>6, <2>11 DEF CodesInv, Apart
  <2>14. Unspent'
    <3> SUFFICES ASSUME NEW m \in Code, log.spent[m] = 1
                 PROVE  m <= n /\ \A s \in Scene : key'[s].code # m
      BY <2>8 DEF CodesInv, Unspent
    <3>1. m <= log.issued /\ \A s \in Scene : key[s].code # m
      BY DEF CodesInv, Unspent
    <3>2. m \in Nat /\ m # n /\ m <= n
      BY <1>1, <2>5, <3>1 DEF Code
    <3> QED
      BY <2>6, <3>1, <3>2
  <2>15. One'
    BY <1>1 DEF CodesInv, One
  <2>16. OwnScene'
    BY <2>2, <2>6, <2>7, <2>11 DEF CodesInv, OwnScene
  <2>17. OthersCross'
    <3> SUFFICES ASSUME NEW o \in Sender, NEW s \in Scene, key'[s].code # None, send'[o].scene = s,
                        send'[o].pc \in Carried, send'[o].code # key'[s].code
                 PROVE  key'[s].code \in log'.crossed
      BY DEF OthersCross
    <3>1. CASE s = t
      <4>1. o # r
        BY <2>2, <2>6, <2>7, <3>1
      <4>2. send[o].scene = t /\ send[o].pc \in {"code", "mark", "clear", "mail", "undo"}
        BY <2>7, <3>1, <4>1 DEF Carried
      <4>3. Crossing(r)
        BY <4>1, <4>2 DEF Crossing, t
      <4> QED
        BY <2>6, <2>8, <3>1, <4>3
    <3>2. CASE s # t
      <4>1. o # r
        BY <2>2, <2>7, <3>2
      <4> QED
        BY <2>6, <2>7, <2>8, <3>2, <4>1 DEF CodesInv, OthersCross
    <3> QED
      BY <3>1, <3>2
  <2>18. ASSUME NEW s \in Scene, key'[s].code # None, key'[s].code \notin log'.crossed, log'.faults = 0
         PROVE  FailsOwn(s)'
    <3>1. CASE s = t
      <4>1. ~Crossing(r)
        BY <2>6, <2>8, <2>18, <3>1
      <4>2. Counting(s) = {} /\ Burning(s) = {}
        BY <3>1, <4>1 DEF Crossing, Counting, Burning, t
      <4>3. FreshFor(s)'
        BY <2>2, <2>6, <2>7, <3>1 DEF FreshFor
      <4> QED
        BY <1>2, <4>2, <4>3 DEF FailsOwn
    <3>2. CASE s # t
      <4>1. key'[s] = key[s] /\ key[s].code \notin log.crossed /\ FailsOwn(s)
        BY <2>6, <2>8, <2>18, <3>2 DEF CodesInv, FailsFit
      <4>2. FreshFor(s)' <=> FreshFor(s)
        BY <2>1, <2>2, <2>7, <2>11, <2>18, <4>1 DEF FreshFor
      <4> QED
        BY <1>2, <2>8, <4>1, <4>2 DEF FailsOwn
    <3> QED
      BY <3>1, <3>2
  <2> QED
    BY <1>2, <2>10, <2>12, <2>13, <2>14, <2>15, <2>16, <2>17, <2>18 DEF CodesInv, FailsFit
<1> QED
  BY <1>3, <1>4 DEF SetCode

-----------------------------------------------------------------------------
\* Where a submission is.
LEMMA VisitTypes ==
  ASSUME CodesTypes, NEW v \in Visitor,
         Left(v) \/ \E pc \in {"burn", "create"} : Visiting(v, pc)
  PROVE  /\ VisitType' /\ \A w \in Visitor \ {v} : visit'[w] = visit[w]
         /\ visit'[v].pc \in {"idle", "burn", "create"}
         /\ visit'[v].pc # "idle" => visit'[v].scene = visit[v].scene
         /\ \A pc \in {"burn", "create"} : Visiting(v, pc) => visit'[v].pc = pc
         /\ Left(v) => visit'[v].pc = "idle"
<1>1. CASE Left(v)
  <2>1. NoVisit \in [pc : {"idle", "count", "burn", "look", "create"}, scene : Scene, code : Codes]
        /\ NoVisit.pc = "idle"
    BY DEF NoVisit, NoSend, Codes, Scene
  <2>2. visit' = [visit EXCEPT ![v] = NoVisit]
    BY <1>1 DEF Left
  <2>3. ASSUME NEW pc \in {"burn", "create"}, Visiting(v, pc) PROVE FALSE
    <3>1. [visit EXCEPT ![v].pc = pc][v].pc = pc
      BY DEF CodesTypes, VisitType
    <3>2. visit'[v].pc = "idle"
      BY <2>1, <2>2 DEF CodesTypes, VisitType
    <3> QED
      BY <2>3, <3>1, <3>2 DEF Visiting
  <2> QED
    BY <2>1, <2>2, <2>3 DEF CodesTypes, VisitType
<1>2. ASSUME NEW pc \in {"burn", "create"}, Visiting(v, pc)
      PROVE  /\ VisitType' /\ \A w \in Visitor \ {v} : visit'[w] = visit[w]
             /\ visit'[v].pc = pc /\ visit'[v].scene = visit[v].scene
  <2>1. visit' = [visit EXCEPT ![v] = [visit[v] EXCEPT !.pc = pc]]
    BY <1>2 DEF Visiting
  <2>2. /\ [visit[v] EXCEPT !.pc = pc] \in [pc : {"idle", "count", "burn", "look", "create"}, scene : Scene, code : Codes]
        /\ [visit[v] EXCEPT !.pc = pc].pc = pc /\ [visit[v] EXCEPT !.pc = pc].scene = visit[v].scene
    BY DEF CodesTypes, VisitType
  <2> QED
    BY <2>1, <2>2 DEF CodesTypes, VisitType
<1>3. ASSUME NEW pc \in {"burn", "create"}, Visiting(v, pc) PROVE ~Left(v)
  <2>1. [visit EXCEPT ![v] = NoVisit][v].pc = "idle"
    BY DEF CodesTypes, VisitType, NoVisit, NoSend
  <2> QED
    BY <1>2, <1>3, <2>1 DEF Left
<1> QED
  BY <1>1, <1>2, <1>3

\* The account is looked up and made, a code is destroyed, keys expire: nothing
\* is added for a code.
LEMMA LeaveInv ==
  ASSUME CodesInv,
         \/ \E v \in Visitor : Burn(v) \/ LookAccount(v) \/ Create(v)
         \/ \E s \in Scene : ExpireCode(s) \/ ExpireCool(s) \/ ExpireFails(s)
  PROVE  CodesInv'
<1>1. UNCHANGED <<daily, send, box>>
  BY DEF Burn, LookAccount, Create, ExpireCode, ExpireCool, ExpireFails
<1>2. UNCHANGED log \/ Fault
  BY DEF Burn, LookAccount, Create, ExpireCode, ExpireCool, ExpireFails
<1>3. /\ LogType' /\ log'.issued = log.issued /\ log'.spent = log.spent
      /\ log'.wrong = log.wrong /\ log'.crossed = log.crossed
      /\ log'.faults = 0 => log.faults = 0
  BY <1>2, FaultTypes DEF CodesInv, CodesTypes, LogType
<1>4. /\ KeyType'
      /\ \A s \in Scene : \/ key'[s].code = None
                          \/ key'[s].code = key[s].code /\ key'[s].fails <= key[s].fails
  <2>1. CASE UNCHANGED key
    BY <2>1 DEF CodesInv, CodesTypes, KeyType
  <2>2. ASSUME NEW s \in Scene,
               \/ key' = [key EXCEPT ![s].code = None]
               \/ key' = [key EXCEPT ![s].cool = None]
               \/ key' = [key EXCEPT ![s].fails = 0]
        PROVE  /\ KeyType'
               /\ \A o \in Scene : \/ key'[o].code = None
                                   \/ key'[o].code = key[o].code /\ key'[o].fails <= key[o].fails
    <3>1. None \in Codes /\ key[s] \in [code : Codes, cool : Codes, fails : Nat]
      BY DEF Codes, CodesInv, CodesTypes, KeyType
    <3>2. PICK k \in [code : Codes, cool : Codes, fails : Nat] :
            /\ key' = [key EXCEPT ![s] = k]
            /\ k.code = None \/ (k.code = key[s].code /\ k.fails <= key[s].fails)
      <4>1. CASE key' = [key EXCEPT ![s].code = None]
        <5> DEFINE k == [key[s] EXCEPT !.code = None]
        <5>1. k \in [code : Codes, cool : Codes, fails : Nat] /\ k.code = None
          BY <3>1
        <5>2. key' = [key EXCEPT ![s] = k]
          BY <4>1
        <5> HIDE DEF k
        <5> QED
          BY <5>1, <5>2
      <4>2. CASE key' = [key EXCEPT ![s].cool = None]
        <5> DEFINE k == [key[s] EXCEPT !.cool = None]
        <5>1. k \in [code : Codes, cool : Codes, fails : Nat] /\ k.code = key[s].code /\ k.fails <= key[s].fails
          BY <3>1
        <5>2. key' = [key EXCEPT ![s] = k]
          BY <4>2
        <5> HIDE DEF k
        <5> QED
          BY <5>1, <5>2
      <4>3. CASE key' = [key EXCEPT ![s].fails = 0]
        <5> DEFINE k == [key[s] EXCEPT !.fails = 0]
        <5>1. k \in [code : Codes, cool : Codes, fails : Nat] /\ k.code = key[s].code /\ k.fails <= key[s].fails
          BY <3>1
        <5>2. key' = [key EXCEPT ![s] = k]
          BY <4>3
        <5> HIDE DEF k
        <5> QED
          BY <5>1, <5>2
      <4> QED
        BY <2>2, <4>1, <4>2, <4>3
    <3> QED
      BY <3>2 DEF CodesInv, CodesTypes, KeyType
  <2>3. \A v \in Visitor : visit[v].scene \in Scene
    BY DEF CodesInv, CodesTypes, VisitType
  <2> QED
    BY <2>1, <2>2, <2>3 DEF Burn, LookAccount, Create, ExpireCode, ExpireCool, ExpireFails
<1>5. /\ VisitType'
      /\ \A w \in Visitor : /\ visit'[w].pc = "count" => visit[w].pc = "count" /\ visit'[w].scene = visit[w].scene
                            /\ visit'[w].pc = "burn" => visit[w].pc = "burn" /\ visit'[w].scene = visit[w].scene
  <2>1. CASE \E s \in Scene : ExpireCode(s) \/ ExpireCool(s) \/ ExpireFails(s)
    BY <2>1 DEF ExpireCode, ExpireCool, ExpireFails, CodesInv, CodesTypes, VisitType
  <2>2. ASSUME NEW v \in Visitor, Left(v) \/ Visiting(v, "create") 
        PROVE  /\ VisitType'
               /\ \A w \in Visitor : /\ visit'[w].pc = "count" => visit[w].pc = "count" /\ visit'[w].scene = visit[w].scene
                                     /\ visit'[w].pc = "burn" => visit[w].pc = "burn" /\ visit'[w].scene = visit[w].scene
    <3>1. /\ VisitType' /\ \A w \in Visitor \ {v} : visit'[w] = visit[w]
          /\ visit'[v].pc \in {"idle", "create"}
      BY <2>2, VisitTypes DEF CodesInv
    <3> QED
      BY <3>1
  <2> QED
    BY <2>1, <2>2 DEF Burn, LookAccount, Create
<1>6. One' /\ account' \subseteq Visitor
  BY DEF Burn, LookAccount, Create, ExpireCode, ExpireCool, ExpireFails, CodesInv, CodesTypes, One
<1>7. CodesTypes'
  BY <1>1, <1>3, <1>4, <1>5, <1>6 DEF CodesInv, CodesTypes, SendType
<1>8. \A s \in Scene : Counting(s)' \subseteq Counting(s) /\ Burning(s)' \subseteq Burning(s)
  BY <1>5 DEF Counting, Burning
<1> QED
  BY <1>1, <1>3, <1>4, <1>6, <1>7, <1>8, CodesRest

\* A wrong entry is counted.
LEMMA CountFailInv ==
  ASSUME CodesInv, NEW v \in Visitor, CountFail(v)
  PROVE  CodesInv'
<1>0. PICK t \in Scene : t = visit[v].scene
  BY DEF CodesInv, CodesTypes, VisitType
<1> DEFINE more == [key[t] EXCEPT !.fails = key[t].fails + 1]
<1>1. visit[v].pc = "count" /\ UNCHANGED <<daily, send, box, account>> /\ t \in Scene
  BY DEF CountFail
<1>2. Left(v) \/ Visiting(v, "burn")
  BY DEF CountFail
<1>3. /\ VisitType' /\ \A w \in Visitor \ {v} : visit'[w] = visit[w]
      /\ visit'[v].pc \in {"idle", "burn"}
      /\ visit'[v].pc = "burn" => visit'[v].scene = t
      /\ Left(v) => visit'[v].pc = "idle"
  <2>1. Visiting(v, "burn") => visit'[v].pc = "burn"
    BY VisitTypes DEF CodesInv
  <2> QED
    BY <1>0, <1>2, <2>1, VisitTypes DEF CodesInv
<1>4. CASE Fault /\ Left(v) /\ UNCHANGED key
  <2>1. /\ LogType' /\ log'.faults # 0 /\ log'.issued = log.issued /\ log'.spent = log.spent
        /\ log'.wrong = log.wrong /\ log'.crossed = log.crossed
    BY <1>4, FaultTypes DEF CodesInv
  <2>2. CodesTypes' /\ One'
    BY <1>1, <1>3, <1>4, <2>1 DEF CodesInv, CodesTypes, KeyType, SendType, One
  <2>3. \A s \in Scene : Counting(s)' \subseteq Counting(s) /\ Burning(s)' \subseteq Burning(s)
    BY <1>3, <1>4 DEF Counting, Burning
  <2>4. \A s \in Scene : key'[s].code = key[s].code /\ key'[s].fails <= key[s].fails
    BY <1>4 DEF CodesInv, CodesTypes, KeyType
  <2> QED
    BY <1>1, <2>1, <2>2, <2>3, <2>4, CodesRest
<1>5. CASE /\ key' = [key EXCEPT ![t].fails = @ + 1] /\ UNCHANGED log
           /\ IF key'[t].fails >= MaxFails THEN Visiting(v, "burn") ELSE Left(v)
  <2>1. /\ more \in [code : Codes, cool : Codes, fails : Nat]
        /\ more.code = key[t].code /\ more.fails = key[t].fails + 1
    BY <1>1 DEF CodesInv, CodesTypes, KeyType
  <2>2. key' = [key EXCEPT ![t] = more]
    BY <1>5
  <2>3. visit'[v].pc = "burn" => key'[t].fails >= MaxFails
    BY <1>3, <1>5
  <2> HIDE DEF more
  <2>4. KeyType' /\ key'[t] = more /\ \A s \in Scene \ {t} : key'[s] = key[s]
    BY <1>1, <2>1, <2>2 DEF CodesInv, CodesTypes, KeyType
  <2>5. CodesTypes'
    BY <1>1, <1>3, <1>5, <2>4 DEF CodesInv, CodesTypes, SendType, LogType
  <2>6. \A s \in Scene : key'[s].code = key[s].code
    BY <2>1, <2>4
  <2>7. Issued' /\ Apart' /\ Unspent' /\ One' /\ OwnScene' /\ OthersCross'
    BY <1>1, <1>5, <2>6, CodesSame
  <2>8. /\ v \in Counting(t) /\ Counting(t)' = Counting(t) \ {v}
        /\ \A s \in Scene \ {t} : Counting(s)' = Counting(s) /\ Burning(s)' = Burning(s)
        /\ Burning(t)' # {} => Burning(t) # {} \/ visit'[v].pc = "burn"
    BY <1>0, <1>1, <1>3 DEF Counting, Burning
  <2>9. ASSUME NEW s \in Scene
        PROVE  IsFiniteSet(Counting(s))' /\ FailsFit(s)'
    <3>1. IsFiniteSet(Counting(s)) /\ FailsFit(s) /\ (FreshFor(s)' <=> FreshFor(s))
      BY <1>1, <2>6 DEF CodesInv, FreshFor
    <3>2. CASE s # t
      BY <1>5, <2>4, <2>8, <3>1, <3>2 DEF FailsFit, FailsOwn
    <3>3. CASE s = t
      <4>1. /\ IsFiniteSet(Counting(s)') /\ Cardinality(Counting(s)') = Cardinality(Counting(s)) - 1
            /\ Cardinality(Counting(s)) \in Nat /\ Cardinality(Counting(s)') \in Nat
        BY <2>8, <3>1, <3>3, FS_RemoveElement, FS_CardinalityType
      <4>2. ASSUME key'[s].code # None, key'[s].code \notin log'.crossed, log'.faults = 0 PROVE FailsOwn(s)'
        <5>1. key[s].code \in Code /\ FailsOwn(s)
          BY <1>5, <2>6, <3>1, <4>2 DEF FailsFit, CodesInv, CodesTypes, KeyType, Codes
        <5>2. ~FreshFor(s)
          BY <2>8, <3>3, <5>1 DEF FailsOwn
        <5> DEFINE w == log.wrong[key[s].code]
                   k == key[s].fails
        <5>3. w \in Nat /\ k \in Nat /\ MaxFails \in Nat
          BY <5>1, EmailCodesAssumption DEF CodesInv, CodesTypes, KeyType, LogType
        <5>4. k + Cardinality(Counting(s)) <= w /\ (Burning(s) # {} => w >= MaxFails)
          BY <5>1, <5>2 DEF FailsOwn
        <5>5. key'[s].fails = k + 1 /\ log'.wrong[key'[s].code] = w
          BY <1>5, <2>1, <2>4, <2>6, <3>3
        <5> HIDE DEF w, k
        <5>6. key'[s].fails + Cardinality(Counting(s)') <= w
          BY <4>1, <5>3, <5>4, <5>5
        <5>7. Burning(s)' # {} => w >= MaxFails
          <6>1. k + 1 <= w
            BY <4>1, <5>3, <5>4
          <6> QED
            BY <2>3, <2>8, <3>3, <5>3, <5>4, <5>5, <6>1, SMT
        <5> QED
          BY <3>1, <5>2, <5>5, <5>6, <5>7 DEF FailsOwn
      <4> QED
        BY <4>1, <4>2 DEF FailsFit
    <3> QED
      BY <3>2, <3>3
  <2> QED
    BY <2>5, <2>7, <2>9 DEF CodesInv
<1> QED
  BY <1>0, <1>4, <1>5 DEF CountFail

\* The code that is right is used up by its first entry; a wrong one is noted
\* for the code it met.
LEMMA EnterInv ==
  ASSUME CodesInv, NEW v \in Visitor, NEW s \in Scene, NEW n \in box \union {None}, Enter(v, s, n)
  PROVE  CodesInv'
<1>0. PICK c \in Codes : c = key[s].code
  BY DEF CodesInv, CodesTypes, KeyType
<1> DEFINE new == [pc |-> IF c = n THEN "look" ELSE "count", scene |-> s, code |-> n]
           meets == \E r \in Sender : send[r].code = c /\ send[r].pc \in {"mark", "clear"}
           crossed == IF meets THEN log.crossed \union {c} ELSE log.crossed
<1>1. /\ visit[v].pc = "idle" /\ log.entries < MaxEntries /\ c # None /\ c \in Code
      /\ key' = IF c = n THEN [key EXCEPT ![s].code = None] ELSE key
      /\ visit' = [visit EXCEPT ![v] = new]
      /\ log' = Noted(c, n)
      /\ UNCHANGED <<daily, send, box, account>>
  BY <1>0 DEF Enter, Codes
<1>2. n \in Codes
  BY DEF CodesInv, CodesTypes, Codes
<1>3. new \in [pc : {"idle", "count", "burn", "look", "create"}, scene : Scene, code : Codes]
      /\ new.scene = s /\ new.pc = IF c = n THEN "look" ELSE "count"
  BY <1>2
<1> HIDE DEF new
<1>4. VisitType' /\ visit'[v] = new /\ \A w \in Visitor \ {v} : visit'[w] = visit[w]
  BY <1>1, <1>3 DEF CodesInv, CodesTypes, VisitType
<1>5. log.entries + 1 \in 0 .. MaxEntries /\ crossed \subseteq Code /\ log.crossed \subseteq crossed
  BY <1>1, EmailCodesAssumption DEF CodesInv, CodesTypes, LogType
<1>6. \A o \in Scene \ {s} : key[o].code # c
  BY <1>0, <1>1 DEF CodesInv, Apart
<1>7. c = n => log.spent[c] = 0 /\ c <= log.issued
  BY <1>0, <1>1 DEF CodesInv, Unspent, Issued
<1>8. CASE c = n
  <2> DEFINE gone == [key[s] EXCEPT !.code = None]
  <2>1. gone \in [code : Codes, cool : Codes, fails : Nat] /\ gone.code = None
    BY DEF CodesInv, CodesTypes, KeyType, Codes
  <2>2. key' = [key EXCEPT ![s] = gone]
    BY <1>1, <1>8
  <2> HIDE DEF gone
  <2>3. KeyType' /\ key'[s].code = None /\ \A o \in Scene \ {s} : key'[o] = key[o]
    BY <2>1, <2>2 DEF CodesInv, CodesTypes, KeyType
  <2> DEFINE spent == [log.spent EXCEPT ![c] = log.spent[c] + 1]
  <2>4. spent \in [Code -> Nat] /\ spent[c] = 1 /\ \A m \in Code \ {c} : spent[m] = log.spent[m]
    BY <1>1, <1>7, <1>8 DEF CodesInv, CodesTypes, LogType
  <2>5. log' = [log EXCEPT !.entries = log.entries + 1, !.spent = spent, !.wrong = log.wrong, !.crossed = crossed]
    <3>1. (IF c = n THEN [log.spent EXCEPT ![n] = log.spent[n] + 1] ELSE log.spent) = spent
      BY <1>8
    <3>2. (IF c = n THEN log.wrong ELSE [log.wrong EXCEPT ![c] = log.wrong[c] + 1]) = log.wrong
      BY <1>8
    <3>3. log' = [log EXCEPT !.entries = log.entries + 1,
                    !.spent = IF c = n THEN [log.spent EXCEPT ![n] = log.spent[n] + 1] ELSE log.spent,
                    !.wrong = IF c = n THEN log.wrong ELSE [log.wrong EXCEPT ![c] = log.wrong[c] + 1],
                    !.crossed = crossed]
      BY <1>1 DEF Noted, Once
    <3> HIDE DEF spent, crossed
    <3> QED
      BY <3>1, <3>2, <3>3
  <2> HIDE DEF spent, crossed
  <2>6. /\ LogType' /\ log'.issued = log.issued /\ log'.spent = spent /\ log'.wrong = log.wrong
        /\ log'.faults = log.faults /\ log'.crossed = crossed
    BY <1>5, <2>4, <2>5 DEF CodesInv, CodesTypes, LogType
  <2>7. CodesTypes' /\ One'
    BY <1>1, <1>4, <2>3, <2>6 DEF CodesInv, CodesTypes, SendType, One
  <2>8. Issued'
    BY <1>1, <2>3, <2>6, EmailCodesAssumption DEF CodesInv, Issued, CodesTypes, LogType, None
  <2>9. Apart'
    BY <2>3 DEF CodesInv, Apart
  <2>10. Unspent'
    <3>1. ASSUME NEW m \in Code, spent[m] = 1, NEW o \in Scene PROVE m <= log.issued /\ key'[o].code # m
      <4>1. m # None
        BY EmailCodesAssumption DEF Code, None
      <4>2. CASE m = c
        BY <1>6, <1>7, <1>8, <2>3, <4>1, <4>2
      <4>3. CASE m # c
        BY <2>3, <2>4, <3>1, <4>1, <4>3 DEF CodesInv, Unspent
      <4> QED
        BY <4>2, <4>3
    <3>2. \A m \in Code : spent[m] \in {0, 1}
      BY <2>4 DEF CodesInv, Unspent
    <3>3. "register" \in Scene
      BY DEF Scene
    <3> QED
      BY <2>6, <3>1, <3>2, <3>3 DEF Unspent
  <2>11. OwnScene' /\ OthersCross'
    BY <1>1, <1>5, <2>3, <2>6 DEF CodesInv, OwnScene, OthersCross
  <2>12. ASSUME NEW o \in Scene PROVE IsFiniteSet(Counting(o))' /\ FailsFit(o)'
    <3>1. Counting(o)' = Counting(o) /\ Burning(o)' = Burning(o)
      BY <1>1, <1>3, <1>4, <1>8 DEF Counting, Burning
    <3>2. IsFiniteSet(Counting(o)) /\ FailsFit(o)
      BY DEF CodesInv
    <3>3. CASE o = s
      BY <2>3, <3>1, <3>2, <3>3 DEF FailsFit
    <3>4. CASE o # s
      <4>1. key'[o] = key[o] /\ (FreshFor(o)' <=> FreshFor(o))
        BY <1>1, <2>3, <3>4 DEF FreshFor
      <4> QED
        BY <1>5, <2>6, <3>1, <3>2, <4>1 DEF FailsFit, FailsOwn
    <3> QED
      BY <3>3, <3>4
  <2> QED
    BY <2>7, <2>8, <2>9, <2>10, <2>11, <2>12 DEF CodesInv
<1>9. CASE c # n
  <2>1. UNCHANGED key
    BY <1>1, <1>9
  <2> DEFINE wrong == [log.wrong EXCEPT ![c] = log.wrong[c] + 1]
  <2>2. /\ wrong \in [Code -> Nat] /\ wrong[c] = log.wrong[c] + 1 /\ log.wrong[c] \in Nat
        /\ \A m \in Code \ {c} : wrong[m] = log.wrong[m]
    BY <1>1 DEF CodesInv, CodesTypes, LogType
  <2>3. log' = [log EXCEPT !.entries = log.entries + 1, !.spent = log.spent, !.wrong = wrong, !.crossed = crossed]
    <3>1. (IF c = n THEN [log.spent EXCEPT ![n] = log.spent[n] + 1] ELSE log.spent) = log.spent
      BY <1>9
    <3>2. (IF c = n THEN log.wrong ELSE [log.wrong EXCEPT ![c] = log.wrong[c] + 1]) = wrong
      BY <1>9
    <3>3. log' = [log EXCEPT !.entries = log.entries + 1,
                    !.spent = IF c = n THEN [log.spent EXCEPT ![n] = log.spent[n] + 1] ELSE log.spent,
                    !.wrong = IF c = n THEN log.wrong ELSE [log.wrong EXCEPT ![c] = log.wrong[c] + 1],
                    !.crossed = crossed]
      BY <1>1 DEF Noted, Once
    <3> HIDE DEF wrong, crossed
    <3> QED
      BY <3>1, <3>2, <3>3
  <2>4. meets => c \in crossed
    OBVIOUS
  <2> HIDE DEF wrong, crossed
  <2>5. /\ LogType' /\ log'.issued = log.issued /\ log'.spent = log.spent /\ log'.wrong = wrong
        /\ log'.faults = log.faults /\ log'.crossed = crossed
    BY <1>5, <2>2, <2>3 DEF CodesInv, CodesTypes, LogType
  <2>6. CodesTypes'
    BY <1>1, <1>4, <2>1, <2>5 DEF CodesInv, CodesTypes, SendType, KeyType
  <2>7. Issued' /\ Apart' /\ Unspent' /\ One' /\ OwnScene' /\ OthersCross'
    BY <1>1, <1>5, <2>1, <2>5, CodesSame
  <2>8. /\ v \notin Counting(s) /\ Counting(s)' = Counting(s) \union {v}
        /\ \A o \in Scene \ {s} : Counting(o)' = Counting(o)
        /\ \A o \in Scene : Burning(o)' = Burning(o)
    BY <1>1, <1>3, <1>4, <1>9 DEF Counting, Burning
  <2>9. ASSUME NEW o \in Scene PROVE IsFiniteSet(Counting(o))' /\ FailsFit(o)'
    <3>1. IsFiniteSet(Counting(o)) /\ FailsFit(o) /\ (FreshFor(o)' <=> FreshFor(o))
      BY <1>1, <2>1 DEF CodesInv, FreshFor
    <3>2. CASE o # s
      <4>1. key[o].code # None => key[o].code \in Code \ {c}
        BY <1>6, <3>2 DEF CodesInv, CodesTypes, KeyType, Codes
      <4>2. key[o].code # None => log'.wrong[key[o].code] = log.wrong[key[o].code]
        BY <2>2, <2>5, <4>1
      <4> QED
        BY <1>5, <2>1, <2>5, <2>8, <3>1, <3>2, <4>2 DEF FailsFit, FailsOwn
    <3>3. CASE o = s
      <4>1. /\ IsFiniteSet(Counting(s)') /\ Cardinality(Counting(s)') = Cardinality(Counting(s)) + 1
            /\ Cardinality(Counting(s)) \in Nat
        BY <2>8, <3>1, <3>3, FS_AddElement, FS_CardinalityType
      <4>2. ASSUME c \notin crossed, log.faults = 0 PROVE FailsOwn(s)'
        <5>1. ~FreshFor(s) /\ FailsOwn(s)
          BY <1>0, <1>1, <1>5, <2>4, <3>1, <3>3, <4>2 DEF FreshFor, FailsFit
        <5>2. /\ key[s].fails + Cardinality(Counting(s)) <= log.wrong[c] /\ key[s].fails \in Nat
              /\ Burning(s) # {} => log.wrong[c] >= MaxFails
          BY <1>0, <5>1 DEF FailsOwn, CodesInv, CodesTypes, KeyType
        <5>3. key[s].fails + Cardinality(Counting(s)') <= wrong[c]
          BY <2>2, <4>1, <5>2
        <5>4. Burning(s) # {} => wrong[c] >= MaxFails
          BY <2>2, <5>2, EmailCodesAssumption
        <5> QED
          BY <1>0, <2>1, <2>5, <2>8, <3>1, <3>3, <5>1, <5>3, <5>4 DEF FailsOwn
      <4> QED
        BY <1>0, <2>1, <2>5, <3>3, <4>1, <4>2 DEF FailsFit
    <3> QED
      BY <3>2, <3>3
  <2> QED
    BY <2>6, <2>7, <2>9 DEF CodesInv
<1> QED
  BY <1>8, <1>9

LEMMA CodesStep == CodesInv /\ [CodesNext]_codesVars => CodesInv'
<1> SUFFICES ASSUME CodesInv, [CodesNext]_codesVars PROVE CodesInv'
  OBVIOUS
<1>1. CASE UNCHANGED codesVars
  <2>1. UNCHANGED <<key, daily, send, visit, box, account, log>>
    BY <1>1 DEF codesVars
  <2>2. CodesTypes' /\ One'
    BY <2>1 DEF CodesInv, CodesTypes, KeyType, SendType, VisitType, LogType, One
  <2>3. \A s \in Scene : /\ Counting(s)' = Counting(s) /\ Burning(s)' = Burning(s)
                         /\ key'[s].code = key[s].code /\ key'[s].fails <= key[s].fails
    BY <2>1 DEF Counting, Burning, CodesInv, CodesTypes, KeyType
  <2> QED
    BY <2>1, <2>2, <2>3, CodesRest
<1>2. ASSUME NEW r \in Sender, SendStep(r) PROVE CodesInv'
  BY <1>2, PrepareInv, SetCodeInv, DeliverInv, ClearFailsInv DEF SendStep
<1>3. ASSUME NEW v \in Visitor, VisitStep(v) PROVE CodesInv'
  BY <1>3, EnterInv, CountFailInv, LeaveInv DEF VisitStep
<1>4. ASSUME NEW s \in Scene, ExpireCode(s) \/ ExpireCool(s) \/ ExpireFails(s) PROVE CodesInv'
  BY <1>4, LeaveInv
<1> QED
  BY <1>1, <1>2, <1>3, <1>4 DEF CodesNext

LEMMA CodesAlways == CodesSpec => []CodesInv
  BY CodesInitInv, CodesStep, PTL DEF CodesSpec

\* However many requests and submissions overlap, an address gets one account
\* and a code is accepted once (email-code.service.ts, VERIFY_LUA; auth.service.ts).
THEOREM OnlyOnce == CodesSpec => []AcceptedOnce
<1>1. CodesInv => AcceptedOnce
  <2> SUFFICES ASSUME CodesInv PROVE SpentOnce /\ OneAccount
    BY DEF AcceptedOnce
  <2>1. SpentOnce
    BY DEF CodesInv, Unspent, SpentOnce
  <2>2. OneAccount
    <3>1. CASE account = {}
      BY <3>1, FS_EmptySet DEF OneAccount
    <3>2. CASE \E v \in Visitor : account = {v}
      BY <3>2, FS_Singleton DEF OneAccount
    <3> QED
      BY <3>1, <3>2 DEF CodesInv, One
  <2> QED
    BY <2>1, <2>2
<1> QED
  BY <1>1, CodesAlways, PTL

-----------------------------------------------------------------------------
\* What CodeKept says of a step and a scene.
Kept(s) ==
  CodeLost(s) /\ key[s].code \notin log.crossed /\ log.faults = 0 =>
    \/ log'.spent[key[s].code] > log.spent[key[s].code]
    \/ log.wrong[key[s].code] >= MaxFails
    \/ \E r \in Sender : send[r].pc = "undo" /\ send[r].code = key[s].code /\ send'[r] = NoSend
    \/ send' = send /\ visit' = visit

\* Only an entry, a mail that fails, the limit of wrong entries or its age takes
\* a code away.
LEMMA KeptStep ==
  ASSUME CodesInv, [CodesNext]_codesVars, NEW s \in Scene
  PROVE  Kept(s)
<1> SUFFICES ASSUME CodeLost(s), key[s].code \notin log.crossed, log.faults = 0
             PROVE  \/ log'.spent[key[s].code] > log.spent[key[s].code]
                    \/ log.wrong[key[s].code] >= MaxFails
                    \/ \E r \in Sender : send[r].pc = "undo" /\ send[r].code = key[s].code /\ send'[r] = NoSend
                    \/ send' = send /\ visit' = visit
  BY DEF Kept
<1>1. key[s].code # None /\ key'[s].code = None /\ key'[s].code # key[s].code
  BY DEF CodeLost
<1>2. key \in [Scene -> [code : Codes, cool : Codes, fails : Nat]]
  BY DEF CodesInv, CodesTypes, KeyType
<1>3. CASE UNCHANGED codesVars
  BY <1>1, <1>3 DEF codesVars
<1>4. ASSUME NEW r \in Sender, SendStep(r)
      PROVE  send[r].pc = "undo" /\ send[r].code = key[s].code /\ send'[r] = NoSend
  <2>1. ~UNCHANGED key
    BY <1>1
  <2>2. CASE SetCode(r)
    <3>1. key' = [key EXCEPT ![send[r].scene].code = log.issued + 1] /\ log.issued + 1 # None
      BY <2>1, <2>2, EmailCodesAssumption DEF SetCode, Code, None
    <3>2. key'[s].code \in {key[s].code, log.issued + 1}
      BY <1>2, <3>1
    <3> QED
      BY <1>1, <3>1, <3>2
  <2>3. CASE MarkCool(r)
    <3>1. key' = [key EXCEPT ![send[r].scene].cool = send[r].code]
      BY <2>1, <2>3 DEF MarkCool
    <3>2. key'[s].code = key[s].code
      BY <1>2, <3>1
    <3> QED
      BY <1>1, <3>2
  <2>4. CASE ClearFails(r)
    <3>1. key' = [key EXCEPT ![send[r].scene].fails = 0]
      BY <2>1, <2>4 DEF ClearFails
    <3>2. key'[s].code = key[s].code
      BY <1>2, <3>1
    <3> QED
      BY <1>1, <3>2
  <2>5. CASE Undo(r)
    <3>1. send[r].pc = "undo" /\ SendEnds(r)
          /\ key' = [key EXCEPT ![send[r].scene] = [@ EXCEPT !.code = None, !.cool = None]]
      BY <2>1, <2>5 DEF Undo
    <3>2. send[r].scene = s
      BY <1>1, <1>2, <3>1
    <3>3. send[r].code = key[s].code
      <4>1. send[r].pc \in Carried
        BY <3>1 DEF Carried
      <4> QED
        BY <1>1, <3>2, <4>1 DEF CodesInv, OthersCross
    <3>4. send'[r] = NoSend
      BY <3>1 DEF SendEnds, CodesInv, CodesTypes, SendType
    <3> QED
      BY <3>1, <3>3, <3>4
  <2> QED
    BY <1>4, <2>1, <2>2, <2>3, <2>4, <2>5 DEF SendStep, AskCode, LookTaken, CountToday, LookBound, CheckCool, Mail
<1>5. ASSUME NEW v \in Visitor, VisitStep(v)
      PROVE  \/ log'.spent[key[s].code] > log.spent[key[s].code]
             \/ log.wrong[key[s].code] >= MaxFails
  <2>1. ~UNCHANGED key
    BY <1>1
  <2>2. ASSUME NEW o \in Scene, NEW n \in box \union {None}, Enter(v, o, n)
        PROVE  log'.spent[key[s].code] > log.spent[key[s].code]
    <3>1. key[o].code = n /\ key' = [key EXCEPT ![o].code = None] /\ log' = Noted(key[o].code, n)
      BY <2>1, <2>2 DEF Enter
    <3>2. o = s
      BY <1>1, <1>2, <3>1
    <3>3. n \in Code /\ log.spent \in [Code -> Nat]
      BY <1>1, <1>2, <3>1, <3>2 DEF Codes, CodesInv, CodesTypes, LogType
    <3>4. log'.spent = [log.spent EXCEPT ![n] = log.spent[n] + 1]
      BY <3>1 DEF Noted, Once, CodesInv, CodesTypes, LogType
    <3> QED
      BY <3>1, <3>2, <3>3, <3>4
  <2>3. CASE CountFail(v)
    <3>1. key' = [key EXCEPT ![visit[v].scene].fails = @ + 1]
      BY <2>1, <2>3 DEF CountFail
    <3>2. key'[s].code = key[s].code
      BY <1>2, <3>1
    <3> QED
      BY <1>1, <3>2
  <2>4. CASE Burn(v)
    <3>1. visit[v].pc = "burn" /\ key' = [key EXCEPT ![visit[v].scene].code = None]
      BY <2>1, <2>4 DEF Burn
    <3>2. visit[v].scene = s
      BY <1>1, <1>2, <3>1
    <3>3. Burning(s) # {}
      BY <3>1, <3>2 DEF Burning
    <3>4. FailsOwn(s)
      BY <1>1 DEF CodesInv, FailsFit
    <3> QED
      BY <3>3, <3>4 DEF FailsOwn
  <2> QED
    BY <1>5, <2>1, <2>2, <2>3, <2>4 DEF VisitStep, LookAccount, Create
<1>6. ASSUME NEW o \in Scene, ExpireCode(o) \/ ExpireCool(o) \/ ExpireFails(o)
      PROVE  send' = send /\ visit' = visit
  BY <1>6 DEF ExpireCode, ExpireCool, ExpireFails
<1> QED
  BY <1>3, <1>4, <1>5, <1>6 DEF CodesNext

\* A code nothing went across stays until it is used, replaced or too old,
\* unless its mail fails or it was entered wrongly as often as the limit says
\* (email-code.service.ts, sendEmailCode and verify).
THEOREM CodeAlwaysKept == CodesSpec => CodeKept
<1>1. CodesInv /\ [CodesNext]_codesVars => [\A s \in Scene : Kept(s)]_codesVars
  BY KeptStep
<1>2. CodesSpec => [][\A s \in Scene : Kept(s)]_codesVars
  BY <1>1, CodesAlways, PTL DEF CodesSpec
<1> QED
  BY <1>2 DEF CodeKept, Kept

-----------------------------------------------------------------------------
(* Evaluation of the search                                                 *)

Rows == [kb : Shelf, q : Question, hard : BOOLEAN, on : BOOLEAN]
RowLists == UNION {[S -> Rows] : S \in SUBSET Id}
OfCase == {"edit", "toggle", "promote", "mark", "remove"}
Brought == [Question -> 0 .. 2]
Calls == [pc : {"sent", "checked", "written", "refused"}, op : Brings \union OfCase, by : {"drawer", "page", "other"},
          kb : Shelf, id : Nat, q : Question \union {NoQuestion}, hard : BOOLEAN, on : BOOLEAN,
          file : Brought \union {NoFile}, row : BOOLEAN, at : Nat]
ToCome == [pc : {"sent"}, to : {"page", "drawer"}, kb : Shelf, tells : BOOLEAN]
Come == [pc : {"read"}, to : {"page", "drawer"}, kb : Shelf, tells : BOOLEAN, rows : RowLists, at : Nat]

\* What a call carries.
Carries(call) ==
  /\ call.op \in {"create", "edit"} => call.q \in Question
  /\ call.op = "import" => call.file \in Brought /\ (call.pc = "checked" => call.file \in [Question -> {0, 1}])
  /\ call.op \in OfCase => call.id \in past.used
  /\ call.by = "page" => call.op = "mark"
  /\ call.at <= past.writes

CasesType == cases \in [Id -> Rows \union {Gone}] /\ \A i \in Id : cases[i] # Gone => i \in past.used
CallsType == /\ calls \in [Desk -> Calls \union {NoCall}]
             /\ \A d \in Desk : calls[d] # NoCall => Carries(calls[d])
ListsType ==
  /\ lists \in [1 .. MaxLists -> ToCome \union Come \union {NoList}]
  /\ \A f \in 1 .. MaxLists : lists[f].pc = "read" => DOMAIN lists[f].rows \subseteq past.used /\ lists[f].at <= past.writes
TabType ==
  /\ tab \in [kb : Shelf, open : BOOLEAN, page : RowLists, pageAt : Nat, drawer : RowLists, drawerAt : Nat]
  /\ DOMAIN tab.page \subseteq past.used /\ DOMAIN tab.drawer \subseteq past.used
  /\ tab.drawerAt <= past.writes
PastType == past \in [calls : Nat, writes : Nat, jumps : Nat, used : SUBSET Id, slips : SUBSET Slips]
RunType ==
  run.pc # "idle" =>
    /\ run = [pc |-> run.pc, scope |-> run.scope, rows |-> run.rows, scored |-> run.scored, step |-> run.step,
              stopped |-> run.stopped, early |-> run.early, at |-> run.at, about |-> run.about]
    /\ run.rows \subseteq past.used /\ run.at \in Nat /\ run.at <= past.writes

EvalTypes == CasesType /\ CallsType /\ ListsType /\ TabType /\ PastType /\ RunType

LEMMA NoneShapes ==
  /\ Gone \notin Rows /\ Gone.kb = "none" /\ NoCall.pc = "none" /\ NoList.pc = "none"
  /\ \A r \in Rows : r.kb # "none"
  /\ NoCall \notin Calls /\ NoList \notin ToCome /\ NoList \notin Come
  BY EvaluationAssumption DEF Gone, Rows, NoCall, NoList, Calls, ToCome, Come

LEMMA RowShape ==
  ASSUME EvalTypes, NEW i \in Id
  PROVE  /\ cases[i] = Gone <=> cases[i].kb = "none"
         /\ cases[i] # Gone => cases[i] \in Rows
         /\ \A kb \in Shelf : i \in Of(kb) <=> cases[i].kb = kb
         /\ \A kb \in Shelf : i \in Of(kb) => cases[i] # Gone /\ cases[i] \in Rows
  BY NoneShapes, EvaluationAssumption DEF EvalTypes, CasesType, Of

LEMMA CallShape ==
  ASSUME EvalTypes, NEW d \in Desk
  PROVE  /\ calls[d] = NoCall <=> calls[d].pc = "none"
         /\ calls[d] # NoCall => calls[d] \in Calls /\ Carries(calls[d])
  BY NoneShapes DEF EvalTypes, CallsType, Calls

LEMMA ListShape ==
  ASSUME EvalTypes, NEW f \in 1 .. MaxLists
  PROVE  /\ lists[f].pc = "sent" => lists[f] \in ToCome
         /\ lists[f].pc = "read" => lists[f] \in Come /\ DOMAIN lists[f].rows \subseteq past.used /\ lists[f].at <= past.writes
         /\ lists[f].pc \in {"sent", "read", "none"}
         /\ lists[f] = NoList <=> lists[f].pc = "none"
  BY NoneShapes DEF EvalTypes, ListsType, ToCome, Come

LEMMA RowsShape ==
  ASSUME NEW rows \in RowLists
  PROVE  DOMAIN rows \in SUBSET Id /\ rows \in [DOMAIN rows -> Rows]
  BY DEF RowLists

LEMMA ListedType ==
  ASSUME EvalTypes, NEW kb \in Shelf
  PROVE  /\ Listed(kb) \in RowLists /\ DOMAIN Listed(kb) = Of(kb) /\ Of(kb) \subseteq past.used
         /\ \A i \in Of(kb) : Listed(kb)[i] = cases[i]
<1>1. \A i \in Of(kb) : i \in Id /\ cases[i] \in Rows /\ i \in past.used
  BY RowShape DEF Of, EvalTypes, CasesType
<1>2. Listed(kb) \in [Of(kb) -> Rows] /\ Of(kb) \in SUBSET Id
  BY <1>1 DEF Listed, Of
<1> QED
  BY <1>1, <1>2 DEF Listed, RowLists

LEMMA SlipMore ==
  ASSUME EvalTypes, NEW s \in Slips, NEW really \in BOOLEAN
  PROVE  Slip(s, really) \in SUBSET Slips /\ past.slips \subseteq Slip(s, really) /\ (really => s \in Slip(s, really))
         /\ \A o \in Slips : o # s /\ o \notin past.slips => o \notin Slip(s, really)
  BY DEF EvalTypes, PastType, Slip

\* Types when numbers that were given and writes only grow.
LEMMA StillCarries ==
  ASSUME PastType, PastType', past.used \subseteq past'.used, past.writes <= past'.writes, NEW call \in Calls, Carries(call)
  PROVE  Carries(call)'
  BY DEF Carries, PastType, Calls

LEMMA CallTypes ==
  ASSUME NEW op \in Brings \union OfCase, NEW by \in {"drawer", "page", "other"}, NEW kb \in Shelf
  PROVE  /\ Call(op, by, kb) \in Calls /\ Call(op, by, kb).op = op /\ Call(op, by, kb).by = by
         /\ Call(op, by, kb).kb = kb /\ Call(op, by, kb).pc = "sent" /\ Call(op, by, kb).at = 0
  BY DEF Call, Calls

Begun(call, op, by, kb) ==
  call \in Calls /\ call.op = op /\ call.pc = "sent" /\ call.by = by /\ call.kb = kb /\ call.at = 0

\* Calls about a case.
LEMMA AboutTypes ==
  ASSUME NEW op \in OfCase, NEW by \in {"drawer", "page", "other"}, NEW kb \in Shelf, NEW i \in Nat
  PROVE  Begun(About(op, by, kb, i), op, by, kb) /\ About(op, by, kb, i).id = i
<1>1. /\ Call(op, by, kb) \in Calls /\ Call(op, by, kb).op = op /\ Call(op, by, kb).by = by
      /\ Call(op, by, kb).kb = kb /\ Call(op, by, kb).pc = "sent" /\ Call(op, by, kb).at = 0
  BY CallTypes
<1>2. PICK blank \in Calls : blank = Call(op, by, kb)
  BY <1>1
<1> QED
  BY <1>1, <1>2 DEF About, Calls, Begun

LEMMA EditTypes ==
  ASSUME NEW by \in {"drawer", "page", "other"}, NEW kb \in Shelf, NEW i \in Nat, NEW q \in Question, NEW row \in Rows
  PROVE  /\ Begun(Editing(by, kb, i, q, row), "edit", by, kb)
         /\ Editing(by, kb, i, q, row).id = i /\ Editing(by, kb, i, q, row).q = q
<1>1. PICK call : call = About("edit", by, kb, i)
  OBVIOUS
<1>2. Begun(call, "edit", by, kb) /\ call.id = i
  BY <1>1, AboutTypes DEF OfCase
<1>3. Editing(by, kb, i, q, row) = [call EXCEPT !.q = q, !.hard = row.hard] /\ row.hard \in BOOLEAN
  BY <1>1 DEF Editing, Rows
<1> QED
  BY <1>2, <1>3 DEF Calls, Begun

LEMMA SwitchTypes ==
  ASSUME NEW by \in {"drawer", "page", "other"}, NEW kb \in Shelf, NEW i \in Nat, NEW row \in Rows
  PROVE  Begun(Switching(by, kb, i, row), "toggle", by, kb) /\ Switching(by, kb, i, row).id = i
<1>1. PICK call : call = About("toggle", by, kb, i)
  OBVIOUS
<1>2. Begun(call, "toggle", by, kb) /\ call.id = i
  BY <1>1, AboutTypes DEF OfCase
<1>3. PICK on \in BOOLEAN : on = ~row.on
  OBVIOUS
<1>4. Switching(by, kb, i, row) = [call EXCEPT !.on = on]
  BY <1>1, <1>3 DEF Switching
<1> QED
  BY <1>2, <1>4 DEF Calls, Begun

\* Calls that bring questions.
LEMMA BringTypes ==
  ASSUME NEW by \in {"drawer", "page", "other"}, NEW kb \in Shelf
  PROVE  /\ \A q \in Question : Begun(Creating(by, kb, q), "create", by, kb) /\ Creating(by, kb, q).q = q
         /\ \A file \in Brought : /\ Begun(Importing(by, kb, file), "import", by, kb)
                                  /\ Importing(by, kb, file).file = file
<1>1. PICK new \in Calls : new = Call("create", by, kb) /\ Begun(new, "create", by, kb)
  BY CallTypes DEF Brings, Begun
<1>2. PICK all \in Calls : all = Call("import", by, kb) /\ Begun(all, "import", by, kb)
  BY CallTypes DEF Brings, Begun
<1>3. ASSUME NEW q \in Question
      PROVE  Begun(Creating(by, kb, q), "create", by, kb) /\ Creating(by, kb, q).q = q
  BY <1>1 DEF Creating, Calls, Begun
<1>4. ASSUME NEW file \in Brought
      PROVE  Begun(Importing(by, kb, file), "import", by, kb) /\ Importing(by, kb, file).file = file
  BY <1>2 DEF Importing, Calls, Begun
<1> QED
  BY <1>3, <1>4

LEMMA FormsTypes ==
  ASSUME PastType, NEW by \in {"drawer", "other"}, NEW kb \in Shelf, NEW rows \in RowLists, DOMAIN rows \subseteq past.used,
         NEW call \in Forms(by, kb, rows)
  PROVE  call \in Calls /\ call.pc = "sent" /\ call.by = by /\ call.kb = kb /\ Carries(call)
<1>1. \A i \in DOMAIN rows : rows[i] \in Rows /\ i \in Nat /\ i \in past.used
  BY EvaluationAssumption, RowsShape DEF Id
<1>2. by \in {"drawer", "page", "other"} /\ by # "page" /\ past.writes \in Nat
  BY DEF PastType
<1>3. ASSUME NEW op \in Brings \union OfCase, Begun(call, op, by, kb),
             op \in {"create", "edit"} => call.q \in Question,
             op = "import" => call.file \in Brought,
             op \in OfCase => call.id \in past.used
      PROVE  call \in Calls /\ call.pc = "sent" /\ call.by = by /\ call.kb = kb /\ Carries(call)
  BY <1>2, <1>3 DEF Begun, Carries
<1>4. CASE call \in {Creating(by, kb, q) : q \in Question}
  BY <1>2, <1>3, <1>4, BringTypes DEF Brings, OfCase
<1>5. CASE call \in {Importing(by, kb, file) : file \in {f \in [Question -> 0 .. 2] : Cardinality(Copies(f)) \in 1 .. 2}}
  <2>1. PICK file \in Brought : call = Importing(by, kb, file)
    BY <1>5 DEF Brought
  <2> QED
    BY <1>2, <1>3, <2>1, BringTypes DEF Brings, OfCase
<1>6. CASE call \in {Editing(by, kb, i, q, rows[i]) : i \in DOMAIN rows, q \in Question}
  <2>1. PICK i \in DOMAIN rows, q \in Question : call = Editing(by, kb, i, q, rows[i])
    BY <1>6
  <2>2. Begun(call, "edit", by, kb) /\ call.id = i /\ call.q = q
    BY <1>1, <1>2, <2>1, EditTypes
  <2> QED
    BY <1>1, <1>3, <2>2 DEF Brings, OfCase
<1>7. CASE call \in {Switching(by, kb, i, rows[i]) : i \in DOMAIN rows}
  <2>1. PICK i \in DOMAIN rows : call = Switching(by, kb, i, rows[i])
    BY <1>7
  <2>2. Begun(call, "toggle", by, kb) /\ call.id = i
    BY <1>1, <1>2, <2>1, SwitchTypes
  <2> QED
    BY <1>1, <1>3, <2>2 DEF Brings, OfCase
<1>8. CASE call \in {About(op, by, kb, i) : op \in {"promote", "remove"}, i \in DOMAIN rows}
  <2>1. PICK op \in {"promote", "remove"}, i \in DOMAIN rows : call = About(op, by, kb, i)
    BY <1>8
  <2>2. Begun(call, op, by, kb) /\ call.id = i
    BY <1>1, <1>2, <2>1, AboutTypes DEF OfCase
  <2> QED
    BY <1>1, <1>3, <2>2 DEF Brings, OfCase
<1> QED
  BY <1>4, <1>5, <1>6, <1>7, <1>8 DEF Forms

LEMMA OfferedTypes ==
  ASSUME EvalTypes, NEW call \in Offered
  PROVE  call \in Calls /\ call.pc = "sent" /\ call.kb = tab.kb /\ Carries(call)
<1>1. PastType /\ tab.kb \in Shelf /\ tab.drawer \in RowLists /\ DOMAIN tab.drawer \subseteq past.used
  BY DEF EvalTypes, TabType
<1>2. CASE call \in Forms("drawer", tab.kb, tab.drawer)
  BY <1>1, <1>2, FormsTypes
<1>3. CASE call \in Forms("other", tab.kb, Listed(tab.kb))
  <2>1. Listed(tab.kb) \in RowLists /\ DOMAIN Listed(tab.kb) \subseteq past.used
    BY <1>1, ListedType
  <2> QED
    BY <1>1, <1>3, <2>1, FormsTypes
<1>4. CASE run.pc = "report" /\ call \in {About("mark", "page", tab.kb, i) : i \in run.rows}
  <2>1. PICK i \in run.rows : call = About("mark", "page", tab.kb, i)
    BY <1>4
  <2>2. i \in Nat /\ i \in past.used /\ past.writes \in Nat
    BY <1>1, <1>4, EvaluationAssumption DEF EvalTypes, RunType, PastType, Id
  <2>3. Begun(call, "mark", "page", tab.kb) /\ call.id = i
    BY <1>1, <2>1, <2>2, AboutTypes DEF OfCase
  <2> QED
    BY <2>2, <2>3 DEF Begun, Carries
<1> QED
  BY <1>2, <1>3, <1>4 DEF Offered

\* Numbers that were given stay so, and writes are counted up.
Grown == PastType' /\ past.used \subseteq past'.used /\ past.writes <= past'.writes

LEMMA KeptTypes ==
  ASSUME EvalTypes, Grown
  PROVE  /\ UNCHANGED cases => CasesType'
         /\ UNCHANGED calls => CallsType'
         /\ UNCHANGED lists => ListsType'
         /\ UNCHANGED tab => TabType'
         /\ UNCHANGED run => RunType'
<1>1. past.writes \in Nat /\ past'.writes \in Nat /\ past.writes <= past'.writes
  BY DEF Grown, EvalTypes, PastType
<1>2. UNCHANGED calls => CallsType'
  <2> SUFFICES ASSUME UNCHANGED calls, NEW d \in Desk, calls[d] # NoCall PROVE Carries(calls[d])'
    BY DEF CallsType, EvalTypes
  <2>1. calls[d] \in Calls /\ Carries(calls[d])
    BY CallShape
  <2>2. PICK c \in Calls : c = calls[d]
    BY <2>1
  <2>3. Carries(c) /\ (Carries(c)' => Carries(calls[d])')
    BY <2>1, <2>2 DEF Carries
  <2> QED
    BY <2>3, StillCarries DEF Grown, EvalTypes
<1>3. UNCHANGED lists => ListsType'
  <2> SUFFICES ASSUME UNCHANGED lists, NEW f \in 1 .. MaxLists, lists[f].pc = "read"
               PROVE  DOMAIN lists[f].rows \subseteq past'.used /\ lists[f].at <= past'.writes
    BY DEF ListsType, EvalTypes
  <2>1. DOMAIN lists[f].rows \subseteq past.used /\ lists[f].at <= past.writes /\ lists[f].at \in Nat
    BY ListShape DEF Come
  <2> QED
    BY <1>1, <2>1 DEF Grown
<1>4. UNCHANGED tab => TabType'
  <2>1. tab.drawerAt \in Nat
    BY DEF EvalTypes, TabType
  <2> QED
    BY <1>1, <2>1 DEF EvalTypes, TabType, Grown
<1>5. UNCHANGED run => RunType'
  BY <1>1 DEF EvalTypes, RunType, Grown
<1> QED
  BY <1>2, <1>3, <1>4, <1>5 DEF EvalTypes, CasesType, Grown

LEMMA CallsUpdate ==
  ASSUME EvalTypes, Grown, NEW d \in Desk, NEW c \in Calls \union {NoCall}, c # NoCall => Carries(c)',
         calls' = [calls EXCEPT ![d] = c]
  PROVE  CallsType' /\ calls'[d] = c /\ \A e \in Desk : e # d => calls'[e] = calls[e]
<1>1. \A e \in Desk : calls'[e] = IF e = d THEN c ELSE calls[e]
  BY DEF EvalTypes, CallsType
<1>2. calls' \in [Desk -> Calls \union {NoCall}]
  BY DEF EvalTypes, CallsType
<1>3. ASSUME NEW e \in Desk, calls'[e] # NoCall PROVE Carries(calls[e])'
  <2>1. CASE e = d
    BY <1>1, <1>3, <2>1 DEF Carries
  <2>2. CASE e # d
    <3>1. calls'[e] = calls[e] /\ calls[e] \in Calls /\ Carries(calls[e])
      BY <1>1, <1>3, <2>2, CallShape
    <3>2. PICK b \in Calls : b = calls[e] /\ b = calls'[e]
      BY <3>1
    <3>3. Carries(b)
      BY <3>1, <3>2 DEF Carries
    <3>4. Carries(b)'
      BY <3>3, StillCarries DEF Grown, EvalTypes
    <3> QED
      BY <3>2, <3>4 DEF Carries
  <2> QED
    BY <2>1, <2>2
<1> QED
  BY <1>1, <1>2, <1>3 DEF CallsType

\* The count of numbers and writes when only slips or other counts change.
LEMMA SlipGrown ==
  ASSUME EvalTypes, NEW slips \in SUBSET Slips, past' = [past EXCEPT !.slips = slips]
  PROVE  Grown /\ past'.writes = past.writes /\ past'.used = past.used /\ past'.slips = slips
<1>1. past'.writes = past.writes /\ past'.used = past.used /\ past'.slips = slips /\ PastType'
  BY DEF EvalTypes, PastType
<1>2. past.writes \in Nat
  BY DEF EvalTypes, PastType
<1> QED
  BY <1>1, <1>2 DEF Grown

LEMMA SameGrown ==
  ASSUME EvalTypes, UNCHANGED past
  PROVE  Grown
<1>1. past.writes \in Nat
  BY DEF EvalTypes, PastType
<1> QED
  BY <1>1 DEF Grown, EvalTypes, PastType

LEMMA ListsUpdate ==
  ASSUME EvalTypes, Grown, NEW f \in 1 .. MaxLists, NEW l \in ToCome \union Come \union {NoList},
         l.pc = "read" => DOMAIN l.rows \subseteq past.used /\ l.at <= past.writes,
         lists' = [lists EXCEPT ![f] = l]
  PROVE  ListsType' /\ lists'[f] = l /\ \A g \in 1 .. MaxLists : g # f => lists'[g] = lists[g]
<1>1. \A g \in 1 .. MaxLists : lists'[g] = IF g = f THEN l ELSE lists[g]
  BY DEF EvalTypes, ListsType
<1>2. lists' \in [1 .. MaxLists -> ToCome \union Come \union {NoList}]
  BY DEF EvalTypes, ListsType
<1>3. past.writes \in Nat /\ past'.writes \in Nat
  BY DEF Grown, EvalTypes, PastType
<1>4. ASSUME NEW g \in 1 .. MaxLists, lists'[g].pc = "read"
      PROVE  DOMAIN lists'[g].rows \subseteq past'.used /\ lists'[g].at <= past'.writes
  <2>1. lists'[g] \in Come
    BY <1>2, <1>4 DEF ToCome, Come, NoList
  <2>2. lists'[g].at \in Nat
    BY <2>1 DEF Come
  <2>3. DOMAIN lists'[g].rows \subseteq past.used /\ lists'[g].at <= past.writes
    <3>1. CASE g = f
      BY <1>1, <1>4, <3>1
    <3>2. CASE g # f
      BY <1>1, <1>4, <3>2, ListShape
    <3> QED
      BY <3>1, <3>2
  <2> QED
    BY <1>3, <2>2, <2>3 DEF Grown
<1> QED
  BY <1>1, <1>2, <1>4 DEF ListsType

LEMMA AskingTypes ==
  ASSUME NEW to \in {"page", "drawer"}, NEW kb \in Shelf, NEW tells \in BOOLEAN
  PROVE  /\ Asking(to, kb, tells) \in ToCome /\ Asking(to, kb, tells).pc = "sent" /\ Asking(to, kb, tells).to = to
         /\ Asking(to, kb, tells).kb = kb /\ Asking(to, kb, tells).tells = tells
  BY DEF Asking, ToCome

\* What the steps of a call do.
LEMMA BeginFacts ==
  ASSUME EvalTypes, NEW d \in Desk, Begin(d)
  PROVE  /\ EvalTypes' /\ UNCHANGED <<cases, lists, tab, run>>
         /\ past'.writes = past.writes /\ past'.slips = past.slips /\ past'.used = past.used
         /\ calls[d] = NoCall /\ calls'[d] \in Calls /\ calls'[d].pc = "sent" /\ calls'[d].kb = tab.kb
         /\ \A e \in Desk : e # d => calls'[e] = calls[e]
<1>1. PICK c \in Offered : calls' = [calls EXCEPT ![d] = c]
  BY DEF Begin
<1>2. c \in Calls /\ c.pc = "sent" /\ c.kb = tab.kb /\ Carries(c)
  BY <1>1, OfferedTypes
<1>3. past'.writes = past.writes /\ past'.slips = past.slips /\ past'.used = past.used /\ PastType'
  BY DEF Begin, EvalTypes, PastType
<1>4. Grown
  <2>1. past.writes \in Nat
    BY DEF EvalTypes, PastType
  <2> QED
    BY <1>3, <2>1 DEF Grown
<1>5. Carries(c)'
  BY <1>2, <1>4, StillCarries DEF Grown, EvalTypes
<1>6. CallsType' /\ calls'[d] = c /\ \A e \in Desk : e # d => calls'[e] = calls[e]
  BY <1>1, <1>2, <1>4, <1>5, CallsUpdate
<1>7. UNCHANGED <<cases, lists, tab, run>> /\ calls[d] = NoCall
  BY DEF Begin
<1>8. EvalTypes'
  BY <1>4, <1>6, <1>7, KeptTypes DEF EvalTypes, Grown
<1> QED
  BY <1>2, <1>3, <1>6, <1>7, <1>8

LEMMA NewTypes ==
  ASSUME NEW kb, NEW file \in Brought
  PROVE  New(kb, file) \in [Question -> {0, 1}] /\ \A q \in Question : New(kb, file)[q] = 1 => q \notin Asked(kb)
  BY DEF New, Brought

LEMMA CheckFacts ==
  ASSUME EvalTypes, NEW d \in Desk, Check(d)
  PROVE  /\ EvalTypes' /\ UNCHANGED <<cases, lists, tab, run>> /\ calls[d].pc = "sent"
         /\ past'.writes = past.writes /\ past'.used = past.used /\ past.slips \subseteq past'.slips
         /\ "astray" \notin past.slips => "astray" \notin past'.slips
         /\ Accepted(calls[d]) /\ Races(d) => "raced" \in past'.slips
         /\ \A e \in Desk : e # d => calls'[e] = calls[e]
         /\ calls'[d] \in Calls /\ calls'[d].pc \in {"checked", "refused"}
         /\ calls'[d].pc = "checked" => Accepted(calls[d])
         /\ calls'[d].op = calls[d].op /\ calls'[d].kb = calls[d].kb /\ calls'[d].id = calls[d].id
         /\ calls'[d].q = calls[d].q /\ calls'[d].by = calls[d].by
         /\ calls'[d].op = "import" /\ calls'[d].pc = "checked" => calls'[d].file = New(calls[d].kb, calls[d].file)
<1>1. calls[d].pc = "sent" /\ calls[d] \in Calls /\ Carries(calls[d]) /\ UNCHANGED <<cases, lists, tab, run>>
  BY CallShape DEF Check, NoCall
<1>2. past' = [past EXCEPT !.slips = Slip("raced", Accepted(calls[d]) /\ Races(d))]
  BY DEF Check
<1>3. PICK really \in BOOLEAN : really = (Accepted(calls[d]) /\ Races(d))
  OBVIOUS
<1>4. "raced" \in Slips /\ "astray" \in Slips
  BY DEF Slips
<1>5. /\ Slip("raced", really) \in SUBSET Slips /\ past.slips \subseteq Slip("raced", really)
      /\ really => "raced" \in Slip("raced", really)
      /\ "astray" \notin past.slips => "astray" \notin Slip("raced", really)
  BY <1>4, SlipMore
<1>6. Slip("raced", really) = Slip("raced", Accepted(calls[d]) /\ Races(d))
  BY <1>3 DEF Slip
<1>7. Grown /\ past'.writes = past.writes /\ past'.used = past.used /\ past'.slips = Slip("raced", really)
  BY <1>2, <1>5, <1>6, SlipGrown
<1>8. PICK b \in Calls : b = calls[d]
  BY <1>1
<1>9. PICK c : c = IF ~Accepted(b) THEN [b EXCEPT !.pc = "refused"]
                   ELSE IF b.op # "import" THEN [b EXCEPT !.pc = "checked"]
                   ELSE [b EXCEPT !.pc = "checked", !.file = New(b.kb, b.file)]
  OBVIOUS
<1>10. calls' = [calls EXCEPT ![d] = c]
  BY <1>8, <1>9 DEF Check
<1>11. Carries(b) /\ b.pc = "sent"
  BY <1>1, <1>8
<1>12. /\ c \in Calls /\ c.pc \in {"checked", "refused"} /\ c.op = b.op /\ c.kb = b.kb /\ c.id = b.id /\ c.q = b.q
       /\ c.by = b.by /\ c.at = b.at
       /\ c.pc = "checked" => Accepted(b)
       /\ c.file = b.file \/ (c.op = "import" /\ c.file \in [Question -> {0, 1}])
       /\ c.op = "import" /\ c.pc = "checked" => c.file = New(b.kb, b.file)
  <2>1. CASE ~Accepted(b)
    BY <1>9, <2>1 DEF Calls
  <2>2. CASE Accepted(b) /\ b.op # "import"
    BY <1>9, <2>2 DEF Calls
  <2>3. CASE Accepted(b) /\ b.op = "import"
    <3>1. b.file \in Brought
      BY <1>11, <2>3 DEF Carries
    <3>2. PICK file \in [Question -> {0, 1}] : file = New(b.kb, b.file)
      BY <3>1, NewTypes
    <3>3. file \in Brought
      BY DEF Brought
    <3>4. c = [b EXCEPT !.pc = "checked", !.file = file]
      BY <1>9, <2>3, <3>2
    <3>5. c \in Calls
      BY <3>3, <3>4 DEF Calls
    <3> QED
      BY <2>3, <3>2, <3>4, <3>5 DEF Calls
  <2> QED
    BY <2>1, <2>2, <2>3
<1>13. Carries(c)'
  <2>1. Carries(b)'
    BY <1>7, <1>11, StillCarries DEF EvalTypes, Grown
  <2>2. [Question -> {0, 1}] \subseteq Brought
    BY DEF Brought
  <2>3. c.op = "import" /\ c.pc = "checked" => c.file \in [Question -> {0, 1}]
    BY <1>11, <1>12, NewTypes DEF Carries
  <2> QED
    BY <1>12, <2>1, <2>2, <2>3 DEF Carries
<1>14. CallsType' /\ calls'[d] = c /\ \A e \in Desk : e # d => calls'[e] = calls[e]
  BY <1>7, <1>10, <1>12, <1>13, CallsUpdate
<1>15. EvalTypes'
  BY <1>1, <1>7, <1>14, KeptTypes DEF EvalTypes, Grown
<1> QED
  BY <1>1, <1>3, <1>5, <1>7, <1>8, <1>12, <1>14, <1>15

\* What a write does to the rows.
LEMMA ChangedShape ==
  ASSUME NEW r \in Rows, NEW c \in Calls, c.op \in OfCase \ {"remove"}, c.op = "edit" => c.q \in Question
  PROVE  /\ Changed(r, c) \in Rows /\ Changed(r, c).kb = r.kb
         /\ c.op = "edit" => Changed(r, c).q = c.q
         /\ c.op # "edit" => Changed(r, c).q = r.q
         /\ c.op = "toggle" => Changed(r, c).on = c.on /\ Changed(r, c).hard = r.hard
<1>1. CASE c.op = "edit"
  BY <1>1 DEF Changed, Rows, Calls
<1>2. CASE c.op = "toggle"
  BY <1>2 DEF Changed, Rows, Calls
<1>3. CASE c.op \in {"promote", "mark"}
  BY <1>3 DEF Changed, Rows
<1> QED
  BY <1>1, <1>2, <1>3 DEF OfCase

Adds(next, c) ==
  /\ c.op \in {"create", "import"}
  /\ \A i \in Id : next[i] # cases[i] => i \notin past.used /\ next[i] \in Rows /\ next[i].kb = c.kb
  /\ c.op = "create" => \E k \in Id : next[k].q = c.q /\ \A i \in Id : next[i] # cases[i] => i = k
  /\ c.op = "import" =>
       /\ \A i \in Id : next[i] # cases[i] => next[i].q \in Question /\ c.file[next[i].q] = 1
       /\ \A i, j \in Id : next[i] # cases[i] /\ next[j] # cases[j] /\ next[i].q = next[j].q => i = j

Alters(next, c) ==
  /\ c.op \in OfCase /\ c.id \in Id /\ cases[c.id] \in Rows
  /\ \A i \in Id : i # c.id => next[i] = cases[i]
  /\ c.op = "remove" => next[c.id] = Gone
  /\ c.op # "remove" => /\ next[c.id] \in Rows /\ next[c.id].kb = cases[c.id].kb
                        /\ c.op = "edit" => next[c.id].q = c.q
                        /\ c.op # "edit" => next[c.id].q = cases[c.id].q
                        /\ c.op = "toggle" => next[c.id].on = c.on /\ next[c.id].hard = cases[c.id].hard

LEMMA CreateShape ==
  ASSUME EvalTypes, NEW c \in Calls, Carries(c), c.op = "create", NEW next \in Effect(c)
  PROVE  next \in [Id -> Rows \union {Gone}] /\ Adds(next, c)
<1>1. PICK k \in Unused(1) : next = [cases EXCEPT ![k] = [kb |-> c.kb, q |-> c.q, hard |-> c.hard, on |-> TRUE]]
  BY DEF Effect
<1>2. k \in Id /\ k \notin past.used /\ c.q \in Question
  BY DEF Unused, Carries
<1>3. PICK r \in Rows : r = [kb |-> c.kb, q |-> c.q, hard |-> c.hard, on |-> TRUE]
  BY <1>2 DEF Rows, Calls
<1>4. cases \in [Id -> Rows \union {Gone}] /\ r.kb = c.kb /\ r.q = c.q
  BY <1>3 DEF EvalTypes, CasesType
<1>5. next = [cases EXCEPT ![k] = r]
  BY <1>1, <1>3
<1>6. next[k] = r /\ \A i \in Id : i # k => next[i] = cases[i]
  BY <1>2, <1>4, <1>5
<1> QED
  BY <1>2, <1>4, <1>5, <1>6 DEF Adds

LEMMA ImportShape ==
  ASSUME EvalTypes, NEW c \in Calls, Carries(c), c.op = "import", c.pc = "checked", NEW next \in Effect(c)
  PROVE  next \in [Id -> Rows \union {Gone}] /\ Adds(next, c)
<1> DEFINE copies == Copies(c.file)
           given == Unused(Cardinality(copies))
<1>1. PICK to \in [given -> copies] :
        /\ \A i, j \in DOMAIN to : i < j => to[i] # to[j]
        /\ next = [i \in Id |-> IF i \in DOMAIN to THEN [kb |-> c.kb, q |-> to[i][1], hard |-> FALSE, on |-> TRUE]
                                ELSE cases[i]]
  BY DEF Effect
<1>2. given \subseteq Id \ past.used /\ DOMAIN to = given
  BY DEF Unused
<1>3. c.file \in [Question -> {0, 1}]
  BY DEF Carries
<1>4. \A x \in copies : x[1] \in Question /\ c.file[x[1]] = 1 /\ x = <<x[1], 1>>
  BY <1>3 DEF Copies
<1> HIDE DEF copies, given
<1>5. ASSUME NEW i \in given PROVE to[i][1] \in Question /\ c.file[to[i][1]] = 1 /\ to[i] = <<to[i][1], 1>>
  BY <1>4
<1>6. \A i, j \in given : to[i][1] = to[j][1] => i = j
  <2>1. SUFFICES ASSUME NEW i \in given, NEW j \in given, to[i][1] = to[j][1], i # j PROVE FALSE
    OBVIOUS
  <2>2. to[i] = to[j]
    BY <1>5, <2>1
  <2>3. i \in Int /\ j \in Int
    BY <1>2 DEF Id
  <2>4. i < j \/ j < i
    BY <2>1, <2>3
  <2>5. \A a, b \in given : a < b => to[a] # to[b]
    BY <1>1, <1>2
  <2>6. i < j => to[i] # to[j]
    BY <2>1, <2>5
  <2>7. j < i => to[j] # to[i]
    BY <2>1, <2>5
  <2> QED
    BY <2>2, <2>4, <2>6, <2>7
<1>7. ASSUME NEW i \in given
      PROVE  next[i] \in Rows /\ next[i].kb = c.kb /\ next[i].q = to[i][1] /\ i \in Id
  <2>1. i \in Id /\ next[i] = [kb |-> c.kb, q |-> to[i][1], hard |-> FALSE, on |-> TRUE]
    BY <1>1, <1>2
  <2>2. c.kb \in Shelf /\ to[i][1] \in Question
    BY <1>5 DEF Calls
  <2> QED
    BY <2>1, <2>2 DEF Rows
<1>8. \A i \in Id : i \notin given => next[i] = cases[i]
  BY <1>1, <1>2
<1>9. next \in [Id -> Rows \union {Gone}]
  <2>1. cases \in [Id -> Rows \union {Gone}]
    BY DEF EvalTypes, CasesType
  <2>2. next = [i \in Id |-> next[i]]
    BY <1>1
  <2>3. \A i \in Id : next[i] \in Rows \union {Gone}
    BY <1>7, <1>8, <2>1
  <2> QED
    BY <2>2, <2>3
<1> QED
  BY <1>2, <1>5, <1>6, <1>7, <1>8, <1>9 DEF Adds

LEMMA AlterShape ==
  ASSUME EvalTypes, NEW c \in Calls, Carries(c), c.op \in OfCase, cases[c.id] # Gone, NEW next \in Effect(c)
  PROVE  next \in [Id -> Rows \union {Gone}] /\ Alters(next, c)
<1>1. c.id \in Id /\ past.used \subseteq Id /\ cases \in [Id -> Rows \union {Gone}]
  BY DEF EvalTypes, PastType, CasesType, Carries
<1>2. cases[c.id] \in Rows
  BY <1>1
<1>3. c.op \notin {"create", "import"}
  BY DEF OfCase
<1>4. CASE c.op = "remove"
  <2>1. next = [cases EXCEPT ![c.id] = Gone]
    BY <1>4 DEF Effect
  <2> QED
    BY <1>1, <1>2, <1>4, <2>1 DEF Alters, OfCase
<1>5. CASE c.op # "remove"
  <2>1. next = [cases EXCEPT ![c.id] = Changed(cases[c.id], c)]
    BY <1>3, <1>5 DEF Effect
  <2>2. c.op = "edit" => c.q \in Question
    BY DEF Carries
  <2>3. /\ Changed(cases[c.id], c) \in Rows /\ Changed(cases[c.id], c).kb = cases[c.id].kb
        /\ c.op = "edit" => Changed(cases[c.id], c).q = c.q
        /\ c.op # "edit" => Changed(cases[c.id], c).q = cases[c.id].q
        /\ c.op = "toggle" => Changed(cases[c.id], c).on = c.on /\ Changed(cases[c.id], c).hard = cases[c.id].hard
    BY <1>2, <1>5, <2>2, ChangedShape
  <2>4. next[c.id] = Changed(cases[c.id], c) /\ \A i \in Id : i # c.id => next[i] = cases[i]
    BY <1>1, <2>1
  <2>5. next \in [Id -> Rows \union {Gone}]
    BY <1>1, <2>1, <2>3
  <2> QED
    BY <1>1, <1>2, <1>5, <2>3, <2>4, <2>5 DEF Alters, OfCase
<1> QED
  BY <1>4, <1>5

Refused(d) == /\ calls'[d].pc = "refused" /\ calls[d].op \in OfCase
              /\ UNCHANGED <<cases, past>>
Done(d) == /\ calls'[d].pc = "written" /\ calls'[d].at = past.writes + 1 /\ past'.writes = past.writes + 1
           /\ Adds(cases', calls[d]) \/ Alters(cases', calls[d])
           /\ calls[d].by = "other" \/ (calls[d].by = "page" /\ tab.open) => ~Clean'
           /\ "astray" \in past'.slips => "astray" \in past.slips \/ \E i \in Id : cases'[i] # cases[i] /\ cases[i].kb \notin {"none", calls[d].kb}

LEMMA WriteFacts ==
  ASSUME EvalTypes, NEW d \in Desk, Write(d)
  PROVE  /\ EvalTypes' /\ UNCHANGED <<lists, tab, run>> /\ calls[d].pc = "checked"
         /\ past.slips \subseteq past'.slips /\ past.used \subseteq past'.used
         /\ \A e \in Desk : e # d => calls'[e] = calls[e]
         /\ calls'[d] \in Calls /\ calls'[d].op = calls[d].op /\ calls'[d].by = calls[d].by /\ calls'[d].kb = calls[d].kb
         /\ calls'[d].id = calls[d].id /\ calls'[d].on = calls[d].on /\ calls'[d].row = calls[d].row
         /\ Refused(d) \/ Done(d)
<1>1. calls[d].pc = "checked" /\ calls[d] \in Calls /\ Carries(calls[d]) /\ UNCHANGED <<lists, tab, run>>
  BY CallShape DEF Write, NoCall
<1>2. PICK b \in Calls : b = calls[d]
  BY <1>1
<1>3. Carries(b) /\ b.pc = "checked" /\ past.writes \in Nat
  BY <1>1, <1>2 DEF EvalTypes, PastType
<1>4. b.op \in OfCase <=> b.op \notin {"create", "import"}
  <2>1. b.op \in Brings \union OfCase
    BY DEF Calls
  <2> QED
    BY <2>1 DEF Brings, OfCase
<1>0. PICK n \in Nat : n = past.writes + 1
  BY <1>3
<1>5. CASE b.op \in OfCase /\ cases[b.id] = Gone
  <2>1. PICK c : c = [b EXCEPT !.pc = "refused"]
    OBVIOUS
  <2>2. calls' = [calls EXCEPT ![d] = c] /\ UNCHANGED <<cases, past>>
    BY <1>2, <1>4, <1>5, <2>1 DEF Write
  <2>3. c \in Calls /\ c.pc = "refused" /\ c.op = b.op /\ c.by = b.by /\ c.kb = b.kb /\ c.id = b.id /\ c.q = b.q
        /\ c.on = b.on /\ c.row = b.row /\ c.file = b.file /\ c.at = b.at
    BY <2>1 DEF Calls
  <2>4. Grown
    BY <2>2, SameGrown
  <2>5. Carries(c)'
    BY <1>3, <2>2, <2>3 DEF Carries
  <2>6. CallsType' /\ calls'[d] = c /\ \A e \in Desk : e # d => calls'[e] = calls[e]
    BY <2>2, <2>3, <2>4, <2>5, CallsUpdate
  <2>7. EvalTypes'
    BY <1>1, <2>2, <2>4, <2>6, KeptTypes DEF EvalTypes, Grown
  <2> QED
    BY <1>1, <1>2, <1>5, <2>2, <2>3, <2>6, <2>7 DEF Refused
<1>6. CASE ~(b.op \in OfCase /\ cases[b.id] = Gone)
  <2>1. PICK c : c = [b EXCEPT !.pc = "written", !.at = n]
    OBVIOUS
  <2>2. calls' = [calls EXCEPT ![d] = c] /\ cases' \in Effect(b)
    BY <1>0, <1>2, <1>4, <1>6, <2>1 DEF Write
  <2>3. cases' \in [Id -> Rows \union {Gone}] /\ (Adds(cases', b) \/ Alters(cases', b))
    <3>1. CASE b.op = "create"
      BY <1>3, <2>2, <3>1, CreateShape
    <3>2. CASE b.op = "import"
      BY <1>3, <2>2, <3>2, ImportShape
    <3>3. CASE b.op \in OfCase
      BY <1>3, <1>6, <2>2, <3>3, AlterShape
    <3> QED
      BY <1>4, <3>1, <3>2, <3>3
  <2>4. PICK given \in SUBSET Id : given = past.used \union {i \in Id : cases'[i] # Gone}
    BY DEF EvalTypes, PastType
  <2>5. PICK other \in BOOLEAN : other = (b.by = "other" \/ (b.by = "page" /\ tab.open))
    OBVIOUS
  <2>6. PICK stray \in BOOLEAN : stray = (\E i \in Id : cases'[i] # cases[i] /\ cases[i].kb \notin {"none", b.kb})
    OBVIOUS
  <2>7. PICK slips : slips = Slip("other", other) \union Slip("astray", stray)
    OBVIOUS
  <2>8. past' = [past EXCEPT !.writes = n, !.used = given, !.slips = slips]
    BY <1>0, <1>2, <1>4, <1>6, <2>4, <2>5, <2>6, <2>7 DEF Write, Slip
  <2>9. /\ slips \in SUBSET Slips /\ past.slips \subseteq slips /\ (other => "other" \in slips)
        /\ "astray" \in slips => "astray" \in past.slips \/ stray
    <3>1. past.slips \in SUBSET Slips
      BY DEF EvalTypes, PastType
    <3> QED
      BY <2>7, <3>1 DEF Slip, Slips
  <2>10. past'.writes = n /\ past'.used = given /\ past'.slips = slips /\ PastType'
    BY <2>8, <2>9 DEF EvalTypes, PastType
  <2>11. Grown
    BY <1>0, <1>3, <2>4, <2>10 DEF Grown
  <2>12. c \in Calls /\ c.pc = "written" /\ c.op = b.op /\ c.by = b.by /\ c.kb = b.kb /\ c.id = b.id /\ c.q = b.q
         /\ c.on = b.on /\ c.row = b.row /\ c.file = b.file /\ c.at = n
    BY <2>1 DEF Calls
  <2>13. Carries(c)'
    <3>1. Carries(b)'
      BY <1>3, <2>11, StillCarries DEF EvalTypes, Grown
    <3>2. c.at <= past'.writes
      BY <1>0, <1>3, <2>10, <2>12
    <3> QED
      BY <2>12, <3>1, <3>2 DEF Carries
  <2>14. CallsType' /\ calls'[d] = c /\ \A e \in Desk : e # d => calls'[e] = calls[e]
    BY <2>2, <2>11, <2>12, <2>13, CallsUpdate
  <2>15. CasesType'
    BY <2>3, <2>4, <2>10 DEF CasesType
  <2>16. EvalTypes'
    BY <1>1, <2>10, <2>11, <2>14, <2>15, KeptTypes DEF EvalTypes
  <2>17. other => ~Clean'
    BY <2>9, <2>10 DEF Clean
  <2>18. Done(d)
    BY <1>0, <1>2, <2>3, <2>5, <2>6, <2>9, <2>10, <2>12, <2>14, <2>17 DEF Done
  <2> QED
    BY <1>1, <1>2, <2>9, <2>10, <2>11, <2>12, <2>14, <2>16, <2>18 DEF Grown
<1> QED
  BY <1>5, <1>6

\* A list is asked for in the first place that is free.
Fetches(to, tells) ==
  \E f \in 1 .. MaxLists : /\ lists[f] = NoList /\ lists'[f] = Asking(to, tab.kb, tells)
                           /\ \A g \in 1 .. MaxLists : g # f => lists'[g] = lists[g]

LEMMA FetchFacts ==
  ASSUME EvalTypes, Grown, HasFree, NEW to \in {"page", "drawer"}, NEW tells \in BOOLEAN, lists' = Fetching(to, tells)
  PROVE  ListsType' /\ Fetches(to, tells)
<1>1. FreeList \in 1 .. MaxLists /\ lists[FreeList] = NoList
  BY DEF HasFree, FreeList
<1>2. PICK f \in 1 .. MaxLists : f = FreeList
  BY <1>1
<1>3. tab.kb \in Shelf
  BY DEF EvalTypes, TabType
<1>4. PICK l \in ToCome : l = Asking(to, tab.kb, tells) /\ l.pc = "sent"
  BY <1>3, AskingTypes
<1>5. lists' = [lists EXCEPT ![f] = l]
  BY <1>2, <1>4 DEF Fetching
<1> QED
  BY <1>1, <1>2, <1>4, <1>5, ListsUpdate DEF Fetches

\* A switch changes the row that the drawer shows, and only its switch.
SwitchedTo(drawer, i, on) ==
  /\ DOMAIN drawer = DOMAIN tab.drawer
  /\ \A j \in DOMAIN drawer : /\ drawer[j].kb = tab.drawer[j].kb /\ drawer[j].q = tab.drawer[j].q
                              /\ drawer[j].hard = tab.drawer[j].hard
                              /\ drawer[j].on = IF j = i THEN on ELSE tab.drawer[j].on

LEMMA SwitchedRow ==
  ASSUME EvalTypes, NEW i, NEW on \in BOOLEAN
  PROVE  /\ [tab.drawer EXCEPT ![i].on = on] \in RowLists
         /\ SwitchedTo([tab.drawer EXCEPT ![i].on = on], i, on)
<1>1. PICK drawer \in RowLists : drawer = tab.drawer
  BY DEF EvalTypes, TabType
<1>2. DOMAIN drawer \in SUBSET Id /\ drawer \in [DOMAIN drawer -> Rows]
  BY RowsShape
<1>3. ASSUME NEW r \in Rows
      PROVE  [r EXCEPT !.on = on] \in Rows /\ [r EXCEPT !.on = on].on = on /\ [r EXCEPT !.on = on].kb = r.kb
             /\ [r EXCEPT !.on = on].q = r.q /\ [r EXCEPT !.on = on].hard = r.hard
  BY DEF Rows
<1>4. [drawer EXCEPT ![i].on = on] \in [DOMAIN drawer -> Rows]
  BY <1>2, <1>3
<1>5. \A j \in DOMAIN drawer : [drawer EXCEPT ![i].on = on][j] = IF j = i THEN [drawer[j] EXCEPT !.on = on] ELSE drawer[j]
  BY <1>2
<1>6. DOMAIN [drawer EXCEPT ![i].on = on] = DOMAIN drawer
  BY <1>2
<1>7. [drawer EXCEPT ![i].on = on] \in RowLists
  BY <1>2, <1>4 DEF RowLists
<1>8. SwitchedTo([drawer EXCEPT ![i].on = on], i, on)
  BY <1>1, <1>2, <1>3, <1>5, <1>6 DEF SwitchedTo
<1> QED
  BY <1>1, <1>7, <1>8

Flips(d) == calls[d].pc = "written" /\ calls[d].by = "drawer" /\ calls[d].op = "toggle"
Reloads(d) == calls[d].pc = "written" /\ calls[d].by = "drawer" /\ calls[d].op # "toggle"

LEMMA AnsweredFacts ==
  ASSUME EvalTypes, NEW d \in Desk, Answered(d)
  PROVE  /\ EvalTypes' /\ UNCHANGED <<cases, run>> /\ calls[d].pc = "written"
         /\ past'.writes = past.writes /\ past'.used = past.used /\ past.slips \subseteq past'.slips
         /\ "astray" \notin past.slips => "astray" \notin past'.slips
         /\ calls'[d] = NoCall /\ \A e \in Desk : e # d => calls'[e] = calls[e]
         /\ calls[d].by = "other" => UNCHANGED <<lists, tab>>
         /\ calls[d].by = "page" => Fetches("page", FALSE) /\ UNCHANGED tab
         /\ Reloads(d) => Fetches("drawer", TRUE) /\ UNCHANGED tab
         /\ Flips(d) => Fetches("page", FALSE)
         /\ Flips(d) /\ calls[d].row =>
              /\ tab'.kb = tab.kb /\ tab'.open = tab.open /\ tab'.page = tab.page /\ tab'.pageAt = tab.pageAt
              /\ tab'.drawerAt = calls[d].at /\ SwitchedTo(tab'.drawer, calls[d].id, calls[d].on)
         /\ Flips(d) /\ Clean' => calls[d].row /\ calls[d].at > tab.drawerAt
<1>1. calls[d].pc = "written" /\ calls[d] \in Calls /\ Carries(calls[d]) /\ UNCHANGED <<cases, run>>
  BY CallShape DEF Answered, NoCall
<1>2. PICK b \in Calls : b = calls[d]
  BY <1>1
<1>3. PICK flip \in BOOLEAN : flip = (b.by = "drawer" /\ b.op = "toggle")
  OBVIOUS
<1>4. Flips(d) = flip /\ (Reloads(d) <=> b.by = "drawer" /\ ~flip)
  BY <1>1, <1>2, <1>3 DEF Flips, Reloads
<1>5. PICK late \in BOOLEAN : late = (flip /\ (~b.row \/ b.at <= tab.drawerAt))
  OBVIOUS
<1>6. past' = [past EXCEPT !.slips = Slip("overtaken", late)]
  BY <1>2, <1>3, <1>5 DEF Answered
<1>7. "overtaken" \in Slips /\ "astray" \in Slips
  BY DEF Slips
<1>8. /\ Slip("overtaken", late) \in SUBSET Slips /\ past.slips \subseteq Slip("overtaken", late)
      /\ late => "overtaken" \in Slip("overtaken", late)
      /\ "astray" \notin past.slips => "astray" \notin Slip("overtaken", late)
  BY <1>7, SlipMore
<1>9. Grown /\ past'.writes = past.writes /\ past'.used = past.used /\ past'.slips = Slip("overtaken", late)
  BY <1>6, <1>8, SlipGrown
<1>10. calls' = [calls EXCEPT ![d] = NoCall]
  BY DEF Answered
<1>11. CallsType' /\ calls'[d] = NoCall /\ \A e \in Desk : e # d => calls'[e] = calls[e]
  BY <1>9, <1>10, CallsUpdate
<1>12. /\ ListsType'
       /\ b.by = "other" => UNCHANGED lists
       /\ b.by = "page" \/ flip => Fetches("page", FALSE)
       /\ b.by = "drawer" /\ ~flip => Fetches("drawer", TRUE)
  <2>1. CASE b.by = "other"
    <3>1. UNCHANGED lists
      BY <1>2, <2>1 DEF Answered
    <3> QED
      BY <1>3, <1>9, <2>1, <3>1, KeptTypes
  <2>2. CASE b.by = "page" \/ flip
    <3>1. HasFree /\ lists' = Fetching("page", FALSE)
      BY <1>2, <1>3, <2>2 DEF Answered
    <3> QED
      BY <1>3, <1>9, <2>2, <3>1, FetchFacts
  <2>3. CASE b.by = "drawer" /\ ~flip
    <3>1. HasFree /\ lists' = Fetching("drawer", TRUE)
      BY <1>2, <1>3, <2>3 DEF Answered
    <3> QED
      BY <1>3, <1>9, <2>3, <3>1, FetchFacts
  <2>4. b.by \in {"drawer", "page", "other"}
    BY DEF Calls
  <2> QED
    BY <2>1, <2>2, <2>3, <2>4
<1>13. /\ TabType'
       /\ ~(flip /\ b.row) => UNCHANGED tab
       /\ flip /\ b.row =>
            /\ tab'.kb = tab.kb /\ tab'.open = tab.open /\ tab'.page = tab.page /\ tab'.pageAt = tab.pageAt
            /\ tab'.drawerAt = b.at /\ SwitchedTo(tab'.drawer, b.id, b.on)
  <2>1. CASE flip /\ b.row
    <3>1. b.on \in BOOLEAN /\ b.at \in Nat /\ b.at <= past.writes
      BY <1>1, <1>2 DEF Calls, Carries
    <3>2. PICK drawer \in RowLists : drawer = [tab.drawer EXCEPT ![b.id].on = b.on] /\ SwitchedTo(drawer, b.id, b.on)
      BY <3>1, SwitchedRow
    <3>3. tab' = [tab EXCEPT !.drawer = drawer, !.drawerAt = b.at]
      BY <1>2, <1>3, <2>1, <3>2 DEF Answered
    <3>4. /\ tab'.kb = tab.kb /\ tab'.open = tab.open /\ tab'.page = tab.page /\ tab'.pageAt = tab.pageAt
          /\ tab'.drawerAt = b.at /\ tab'.drawer = drawer
          /\ tab' \in [kb : Shelf, open : BOOLEAN, page : RowLists, pageAt : Nat, drawer : RowLists, drawerAt : Nat]
      BY <3>1, <3>3 DEF EvalTypes, TabType
    <3>5. DOMAIN tab.page \subseteq past.used /\ DOMAIN drawer \subseteq past.used
      BY <3>2 DEF EvalTypes, TabType, SwitchedTo
    <3>6. TabType'
      BY <1>9, <3>1, <3>4, <3>5 DEF TabType
    <3> QED
      BY <2>1, <3>2, <3>4, <3>6
  <2>2. CASE ~(flip /\ b.row)
    <3>1. UNCHANGED tab
      BY <1>2, <1>3, <2>2 DEF Answered
    <3> QED
      BY <1>9, <2>2, <3>1, KeptTypes
  <2> QED
    BY <2>1, <2>2
<1>14. EvalTypes'
  BY <1>1, <1>9, <1>11, <1>12, <1>13, KeptTypes DEF EvalTypes, Grown
<1>15. Clean' /\ flip => b.row /\ b.at > tab.drawerAt
  <2>1. Clean' => ~late
    BY <1>8, <1>9 DEF Clean
  <2>2. b.at \in Nat /\ tab.drawerAt \in Nat
    BY DEF Calls, EvalTypes, TabType
  <2>3. ~(b.at <= tab.drawerAt) => b.at > tab.drawerAt
    BY <2>2
  <2>4. Clean' /\ flip => b.row /\ ~(b.at <= tab.drawerAt)
    BY <1>5, <2>1, Zenon
  <2> QED
    BY <2>3, <2>4
<1> QED
  BY <1>1, <1>2, <1>3, <1>4, <1>8, <1>9, <1>11, <1>12, <1>13, <1>14, <1>15

LEMMA UnansweredFacts ==
  ASSUME EvalTypes, NEW d \in Desk, Unanswered(d)
  PROVE  /\ EvalTypes' /\ UNCHANGED <<cases, lists, tab, run>> /\ calls[d].pc \in {"written", "refused"}
         /\ past'.writes = past.writes /\ past'.used = past.used /\ past.slips \subseteq past'.slips
         /\ "astray" \notin past.slips => "astray" \notin past'.slips
         /\ calls'[d] = NoCall /\ \A e \in Desk : e # d => calls'[e] = calls[e]
         /\ Clean' /\ calls[d].pc = "written" => calls[d].by = "other"
<1>1. PICK lost \in BOOLEAN : lost = (calls[d].pc = "written" /\ calls[d].by # "other")
  OBVIOUS
<1>2. past' = [past EXCEPT !.slips = Slip("lost", lost)]
  BY <1>1 DEF Unanswered
<1>3. "lost" \in Slips /\ "astray" \in Slips
  BY DEF Slips
<1>4. /\ Slip("lost", lost) \in SUBSET Slips /\ past.slips \subseteq Slip("lost", lost)
      /\ lost => "lost" \in Slip("lost", lost)
      /\ "astray" \notin past.slips => "astray" \notin Slip("lost", lost)
  BY <1>3, SlipMore
<1>5. Grown /\ past'.writes = past.writes /\ past'.used = past.used /\ past'.slips = Slip("lost", lost)
  BY <1>2, <1>4, SlipGrown
<1>6. calls' = [calls EXCEPT ![d] = NoCall] /\ UNCHANGED <<cases, lists, tab, run>> /\ calls[d].pc \in {"written", "refused"}
  BY DEF Unanswered
<1>7. CallsType' /\ calls'[d] = NoCall /\ \A e \in Desk : e # d => calls'[e] = calls[e]
  BY <1>5, <1>6, CallsUpdate
<1>8. EvalTypes'
  BY <1>5, <1>6, <1>7, KeptTypes DEF EvalTypes, Grown
<1>9. Clean' => ~lost
  BY <1>4, <1>5 DEF Clean
<1> QED
  BY <1>1, <1>4, <1>5, <1>6, <1>7, <1>8, <1>9

\* What the steps of the lists do.
LEMMA ReadFacts ==
  ASSUME EvalTypes, NEW f \in 1 .. MaxLists, ReadList(f)
  PROVE  /\ EvalTypes' /\ UNCHANGED <<cases, calls, tab, run, past>> /\ lists[f].pc = "sent"
         /\ lists'[f].pc = "read" /\ lists'[f].to = lists[f].to /\ lists'[f].kb = lists[f].kb
         /\ lists'[f].tells = lists[f].tells /\ lists'[f].rows = Listed(lists[f].kb) /\ lists'[f].at = past.writes
         /\ \A g \in 1 .. MaxLists : g # f => lists'[g] = lists[g]
<1>1. lists[f].pc = "sent" /\ lists[f] \in ToCome /\ UNCHANGED <<cases, calls, tab, run, past>>
  BY ListShape DEF ReadList
<1>2. PICK b \in ToCome : b = lists[f]
  BY <1>1
<1>3. b.kb \in Shelf /\ b.to \in {"page", "drawer"} /\ b.tells \in BOOLEAN /\ past.writes \in Nat
  BY DEF ToCome, EvalTypes, PastType
<1>4. PICK rows \in RowLists : rows = Listed(b.kb) /\ DOMAIN rows \subseteq past.used
  BY <1>3, ListedType
<1>5. PICK l : l = [pc |-> "read", to |-> b.to, kb |-> b.kb, tells |-> b.tells, rows |-> rows, at |-> past.writes]
  OBVIOUS
<1>6. l \in Come /\ l.pc = "read" /\ l.to = b.to /\ l.kb = b.kb /\ l.tells = b.tells /\ l.rows = rows /\ l.at = past.writes
  BY <1>3, <1>5 DEF Come
<1>7. lists' = [lists EXCEPT ![f] = l]
  BY <1>2, <1>4, <1>5 DEF ReadList
<1>8. Grown
  BY <1>1, SameGrown
<1>9. ListsType' /\ lists'[f] = l /\ \A g \in 1 .. MaxLists : g # f => lists'[g] = lists[g]
  <2>1. l \in ToCome \union Come \union {NoList} /\ DOMAIN l.rows \subseteq past.used /\ l.at <= past.writes
    BY <1>3, <1>4, <1>6
  <2> QED
    BY <1>7, <1>8, <2>1, ListsUpdate
<1>10. EvalTypes'
  BY <1>1, <1>8, <1>9, KeptTypes DEF EvalTypes, Grown
<1> QED
  BY <1>1, <1>2, <1>4, <1>6, <1>9, <1>10

LEMMA AfterFacts ==
  ASSUME EvalTypes, Grown, NEW f \in 1 .. MaxLists, lists[f].pc \in {"sent", "read"}, AfterList(f)
  PROVE  /\ ListsType' /\ \A g \in 1 .. MaxLists : g # f => lists'[g] = lists[g]
         /\ lists[f].tells => lists'[f] = Asking("page", tab.kb, FALSE)
         /\ ~lists[f].tells => lists'[f] = NoList
<1>1. PICK l : l = IF lists[f].tells THEN Asking("page", tab.kb, FALSE) ELSE NoList
  OBVIOUS
<1>2. tab.kb \in Shelf
  BY DEF EvalTypes, TabType
<1>3. l \in ToCome \union {NoList} /\ l.pc # "read"
  BY <1>1, <1>2, AskingTypes, NoneShapes
<1>4. lists' = [lists EXCEPT ![f] = l]
  BY <1>1 DEF AfterList
<1>5. ListsType' /\ lists'[f] = l /\ \A g \in 1 .. MaxLists : g # f => lists'[g] = lists[g]
  BY <1>3, <1>4, ListsUpdate
<1> QED
  BY <1>1, <1>5

LEMMA FailsFacts ==
  ASSUME EvalTypes, NEW f \in 1 .. MaxLists, ListFails(f)
  PROVE  /\ EvalTypes' /\ UNCHANGED <<cases, calls, tab, run>> /\ ~Clean'
         /\ past'.writes = past.writes /\ past'.used = past.used /\ past.slips \subseteq past'.slips
         /\ "astray" \notin past.slips => "astray" \notin past'.slips
<1>1. lists[f].pc = "sent" /\ AfterList(f) /\ UNCHANGED <<cases, calls, tab, run>>
      /\ past' = [past EXCEPT !.slips = Slip("failed", TRUE)]
  BY DEF ListFails
<1>2. "failed" \in Slips /\ "astray" \in Slips /\ TRUE \in BOOLEAN
  BY DEF Slips
<1>3. /\ Slip("failed", TRUE) \in SUBSET Slips /\ past.slips \subseteq Slip("failed", TRUE)
      /\ "failed" \in Slip("failed", TRUE)
      /\ "astray" \notin past.slips => "astray" \notin Slip("failed", TRUE)
  BY <1>2, SlipMore
<1>4. Grown /\ past'.writes = past.writes /\ past'.used = past.used /\ past'.slips = Slip("failed", TRUE)
  BY <1>1, <1>3, SlipGrown
<1>5. ListsType'
  BY <1>1, <1>4, AfterFacts
<1>6. EvalTypes'
  BY <1>1, <1>4, <1>5, KeptTypes DEF EvalTypes, Grown
<1>7. ~Clean'
  <2>1. "failed" \in past'.slips
    BY <1>3, <1>4
  <2> QED
    BY <2>1 DEF Clean
<1> QED
  BY <1>1, <1>3, <1>4, <1>6, <1>7

\* A call as a new list of the drawer leaves it.
Unrowed(call, after) ==
  /\ after.pc = call.pc /\ after.op = call.op /\ after.by = call.by /\ after.kb = call.kb /\ after.id = call.id
  /\ after.q = call.q /\ after.on = call.on /\ after.file = call.file /\ after.at = call.at /\ ~after.row

LEMMA ShownFacts ==
  ASSUME EvalTypes, NEW f \in 1 .. MaxLists, Shown(f)
  PROVE  /\ EvalTypes' /\ UNCHANGED <<cases, run>> /\ lists[f].pc = "read"
         /\ past'.writes = past.writes /\ past'.used = past.used /\ past.slips \subseteq past'.slips
         /\ "astray" \notin past.slips => "astray" \notin past'.slips
         /\ \A g \in 1 .. MaxLists : g # f => lists'[g] = lists[g]
         /\ lists[f].tells => lists'[f] = Asking("page", tab.kb, FALSE)
         /\ ~lists[f].tells => lists'[f] = NoList
         /\ tab'.kb = tab.kb /\ tab'.open = tab.open
         /\ lists[f].to = "page" => /\ tab'.page = lists[f].rows /\ tab'.pageAt = lists[f].at
                                    /\ tab'.drawer = tab.drawer /\ tab'.drawerAt = tab.drawerAt /\ UNCHANGED calls
                                    /\ Clean' => lists[f].at >= tab.pageAt
         /\ lists[f].to # "page" => /\ tab'.drawer = lists[f].rows /\ tab'.drawerAt = lists[f].at
                                    /\ tab'.page = tab.page /\ tab'.pageAt = tab.pageAt
                                    /\ lists[f].to = "drawer" /\ (Clean' => lists[f].at >= tab.drawerAt)
                                    /\ \A d \in Desk : calls[d] = NoCall <=> calls'[d] = NoCall
                                    /\ \A d \in Desk : calls[d] # NoCall => Unrowed(calls[d], calls'[d])
<1>1. lists[f].pc = "read" /\ lists[f] \in Come /\ UNCHANGED <<cases, run>> /\ AfterList(f)
      /\ DOMAIN lists[f].rows \subseteq past.used /\ lists[f].at <= past.writes
  BY ListShape DEF Shown
<1>2. PICK b \in Come : b = lists[f]
  BY <1>1
<1>3. b.at \in Nat /\ b.rows \in RowLists /\ b.to \in {"page", "drawer"} /\ b.tells \in BOOLEAN
  BY DEF Come
<1> DEFINE shown == IF b.to = "page" THEN tab.pageAt ELSE tab.drawerAt
<1>4. PICK late \in BOOLEAN : late = (b.at < shown)
  <2>1. (b.at < shown) \in BOOLEAN
    OBVIOUS
  <2> QED
    BY <2>1
<1>5. past' = [past EXCEPT !.slips = Slip("overtaken", late)]
  BY <1>2, <1>4 DEF Shown
<1>6. "overtaken" \in Slips /\ "astray" \in Slips
  BY DEF Slips
<1>7. /\ Slip("overtaken", late) \in SUBSET Slips /\ past.slips \subseteq Slip("overtaken", late)
      /\ late => "overtaken" \in Slip("overtaken", late)
      /\ "astray" \notin past.slips => "astray" \notin Slip("overtaken", late)
  BY <1>6, SlipMore
<1>8. Grown /\ past'.writes = past.writes /\ past'.used = past.used /\ past'.slips = Slip("overtaken", late)
  BY <1>5, <1>7, SlipGrown
<1>9. /\ ListsType' /\ \A g \in 1 .. MaxLists : g # f => lists'[g] = lists[g]
      /\ lists[f].tells => lists'[f] = Asking("page", tab.kb, FALSE)
      /\ ~lists[f].tells => lists'[f] = NoList
  BY <1>1, <1>8, AfterFacts
<1>10. /\ tab' \in [kb : Shelf, open : BOOLEAN, page : RowLists, pageAt : Nat, drawer : RowLists, drawerAt : Nat]
       /\ tab'.kb = tab.kb /\ tab'.open = tab.open
       /\ b.to = "page" => /\ tab'.page = b.rows /\ tab'.pageAt = b.at
                           /\ tab'.drawer = tab.drawer /\ tab'.drawerAt = tab.drawerAt
       /\ b.to # "page" => /\ tab'.drawer = b.rows /\ tab'.drawerAt = b.at
                           /\ tab'.page = tab.page /\ tab'.pageAt = tab.pageAt
  <2>1. CASE b.to = "page"
    <3>1. tab' = [tab EXCEPT !.page = b.rows, !.pageAt = b.at]
      BY <1>2, <2>1 DEF Shown
    <3> QED
      BY <1>3, <2>1, <3>1 DEF EvalTypes, TabType
  <2>2. CASE b.to # "page"
    <3>1. tab' = [tab EXCEPT !.drawer = b.rows, !.drawerAt = b.at]
      BY <1>2, <2>2 DEF Shown
    <3> QED
      BY <1>3, <2>2, <3>1 DEF EvalTypes, TabType
  <2> QED
    BY <2>1, <2>2
<1>11. TabType'
  <2>1. DOMAIN tab'.page \subseteq past'.used /\ DOMAIN tab'.drawer \subseteq past'.used
    BY <1>1, <1>2, <1>8, <1>10 DEF EvalTypes, TabType
  <2>2. tab.drawerAt <= past.writes /\ b.at <= past.writes
    BY <1>1, <1>2 DEF EvalTypes, TabType
  <2>3. tab'.drawerAt <= past'.writes
    BY <1>8, <1>10, <2>2
  <2> QED
    BY <1>10, <2>1, <2>3 DEF TabType
<1>12. \A d \in Desk : calls'[d] = IF calls[d] # NoCall /\ b.to = "drawer" THEN [calls[d] EXCEPT !.row = FALSE] ELSE calls[d]
  BY <1>2 DEF Shown
<1>13. calls' = [d \in Desk |-> calls'[d]]
  BY DEF Shown
<1>14. ASSUME NEW c \in Calls
       PROVE  [c EXCEPT !.row = FALSE] \in Calls /\ Unrowed(c, [c EXCEPT !.row = FALSE])
  BY DEF Calls, Unrowed
<1>15. ASSUME NEW d \in Desk
       PROVE  /\ calls'[d] \in Calls \union {NoCall} /\ (calls[d] = NoCall <=> calls'[d] = NoCall)
              /\ b.to # "page" /\ calls[d] # NoCall => Unrowed(calls[d], calls'[d])
              /\ b.to = "page" => calls'[d] = calls[d]
              /\ calls'[d] # NoCall => Carries(calls[d])'
  <2>1. CASE calls[d] = NoCall
    BY <1>12, <2>1
  <2>2. CASE calls[d] # NoCall
    <3>1. PICK c \in Calls : c = calls[d] /\ Carries(c)
      BY <2>2, CallShape DEF Carries
    <3>2. Carries(c)'
      BY <1>8, <3>1, StillCarries DEF EvalTypes, Grown
    <3>3. CASE b.to = "drawer"
      <4>1. calls'[d] = [c EXCEPT !.row = FALSE]
        BY <1>12, <2>2, <3>1, <3>3
      <4>2. PICK x \in Calls : x = calls'[d] /\ Unrowed(c, x)
        BY <1>14, <4>1
      <4>3. Carries(x)'
        BY <3>2, <4>2 DEF Carries, Unrowed
      <4>4. Carries(calls[d])'
        BY <4>2, <4>3 DEF Carries
      <4> QED
        BY <2>2, <3>1, <3>3, <4>2, <4>4, NoneShapes
    <3>4. CASE b.to = "page"
      <4>1. calls'[d] = c
        BY <1>12, <3>1, <3>4
      <4>2. Carries(calls[d])'
        BY <3>2, <4>1 DEF Carries
      <4> QED
        BY <2>2, <3>1, <3>4, <4>1, <4>2, NoneShapes
    <3> QED
      BY <1>3, <3>3, <3>4
  <2> QED
    BY <2>1, <2>2
<1>16. CallsType'
  BY <1>13, <1>15 DEF CallsType
<1>17. b.to = "page" => UNCHANGED calls
  BY <1>13, <1>15 DEF EvalTypes, CallsType
<1>18. EvalTypes'
  BY <1>1, <1>8, <1>9, <1>11, <1>16, KeptTypes DEF EvalTypes, Grown
<1>19. Clean' => b.at >= IF b.to = "page" THEN tab.pageAt ELSE tab.drawerAt
  <2>1. Clean' => ~late
    BY <1>7, <1>8 DEF Clean
  <2>2. shown \in Nat
    BY DEF EvalTypes, TabType
  <2>3. ~(b.at < shown) => b.at >= shown
    <3> HIDE DEF shown
    <3> QED
      BY <1>3, <2>2
  <2>4. late = (b.at < shown)
    BY <1>4
  <2> QED
    BY <2>1, <2>3, <2>4
<1> QED
  BY <1>1, <1>2, <1>3, <1>7, <1>8, <1>9, <1>10, <1>15, <1>17, <1>18, <1>19

\* What the steps of the page do.
LEMMA OpenFacts ==
  ASSUME EvalTypes, OpenDrawer
  PROVE  /\ EvalTypes' /\ UNCHANGED <<cases, calls, run, past>> /\ Fetches("drawer", FALSE)
         /\ tab'.open /\ tab'.kb = tab.kb /\ tab'.page = tab.page /\ tab'.pageAt = tab.pageAt
         /\ tab'.drawer = tab.drawer /\ tab'.drawerAt = tab.drawerAt
<1>1. HasFree /\ tab' = [tab EXCEPT !.open = TRUE] /\ lists' = Fetching("drawer", FALSE) /\ UNCHANGED <<cases, calls, run, past>>
  BY DEF OpenDrawer
<1>2. Grown
  BY <1>1, SameGrown
<1>3. ListsType' /\ Fetches("drawer", FALSE)
  BY <1>1, <1>2, FetchFacts
<1>4. /\ tab'.open /\ tab'.kb = tab.kb /\ tab'.page = tab.page /\ tab'.pageAt = tab.pageAt
      /\ tab'.drawer = tab.drawer /\ tab'.drawerAt = tab.drawerAt
      /\ tab' \in [kb : Shelf, open : BOOLEAN, page : RowLists, pageAt : Nat, drawer : RowLists, drawerAt : Nat]
  BY <1>1 DEF EvalTypes, TabType
<1>5. TabType'
  BY <1>1, <1>4 DEF EvalTypes, TabType
<1>6. EvalTypes'
  BY <1>1, <1>2, <1>3, <1>5, KeptTypes DEF EvalTypes, Grown
<1> QED
  BY <1>1, <1>3, <1>4, <1>6

LEMMA CloseFacts ==
  ASSUME EvalTypes, CloseDrawer
  PROVE  /\ EvalTypes' /\ UNCHANGED <<cases, calls, lists, run, past>>
         /\ ~tab'.open /\ tab'.kb = tab.kb /\ tab'.page = tab.page /\ tab'.pageAt = tab.pageAt
<1>1. tab' = [tab EXCEPT !.open = FALSE] /\ UNCHANGED <<cases, calls, lists, run, past>>
  BY DEF CloseDrawer
<1>2. Grown
  BY <1>1, SameGrown
<1>3. /\ ~tab'.open /\ tab'.kb = tab.kb /\ tab'.page = tab.page /\ tab'.pageAt = tab.pageAt
      /\ tab'.drawer = tab.drawer /\ tab'.drawerAt = tab.drawerAt
      /\ tab' \in [kb : Shelf, open : BOOLEAN, page : RowLists, pageAt : Nat, drawer : RowLists, drawerAt : Nat]
  BY <1>1 DEF EvalTypes, TabType
<1>4. TabType'
  BY <1>1, <1>3 DEF EvalTypes, TabType
<1>5. EvalTypes'
  BY <1>1, <1>2, <1>4, KeptTypes DEF EvalTypes, Grown
<1> QED
  BY <1>1, <1>3, <1>5

LEMMA JumpFacts ==
  ASSUME EvalTypes, NEW kb \in Shelf, Jump(kb)
  PROVE  /\ EvalTypes' /\ UNCHANGED <<cases, calls, lists, run>> /\ ~Clean'
         /\ past'.writes = past.writes /\ past'.used = past.used /\ past.slips \subseteq past'.slips
         /\ "astray" \notin past.slips => "astray" \notin past'.slips
<1>1. tab' = [tab EXCEPT !.kb = kb] /\ UNCHANGED <<cases, calls, lists, run>>
  BY DEF Jump
<1>2. "jumped" \in Slips /\ "astray" \in Slips /\ TRUE \in BOOLEAN
  BY DEF Slips
<1>3. PICK slips \in SUBSET Slips : /\ slips = Slip("jumped", TRUE) /\ past.slips \subseteq slips /\ "jumped" \in slips
                                    /\ "astray" \notin past.slips => "astray" \notin slips
  BY <1>2, SlipMore
<1>4. PICK jumps \in Nat : jumps = past.jumps + 1
  BY DEF EvalTypes, PastType
<1>5. past' = [past EXCEPT !.jumps = jumps, !.slips = slips]
  BY <1>3, <1>4 DEF Jump
<1>6. PastType' /\ past'.writes = past.writes /\ past'.used = past.used /\ past'.slips = slips
  BY <1>5 DEF EvalTypes, PastType
<1>7. Grown
  <2>1. past.writes \in Nat
    BY DEF EvalTypes, PastType
  <2> QED
    BY <1>6, <2>1 DEF Grown
<1>8. /\ tab'.page = tab.page /\ tab'.drawer = tab.drawer /\ tab'.drawerAt = tab.drawerAt
      /\ tab' \in [kb : Shelf, open : BOOLEAN, page : RowLists, pageAt : Nat, drawer : RowLists, drawerAt : Nat]
  BY <1>1 DEF EvalTypes, TabType
<1>9. TabType'
  BY <1>6, <1>8 DEF EvalTypes, TabType
<1>10. EvalTypes'
  BY <1>1, <1>7, <1>9, KeptTypes DEF EvalTypes, Grown
<1>11. ~Clean'
  BY <1>3, <1>6 DEF Clean
<1> QED
  BY <1>1, <1>3, <1>6, <1>10, <1>11

\* A run is started over the cases that the page shows.
LEMMA RunFacts ==
  ASSUME EvalTypes, NEW scope \in {"all", "hard"}, RunEval(scope)
  PROVE  /\ EvalTypes' /\ UNCHANGED <<cases, calls, lists, tab, past>>
         /\ run'.pc = "run" /\ run'.scope = scope /\ run'.rows = Runnable(tab.page, scope) /\ run'.at = past.writes
         /\ run'.early = ~Quiet /\ run'.about = {}
<1>1. PICK rows : rows = Runnable(tab.page, scope)
  OBVIOUS
<1>2. PICK early \in BOOLEAN : early = ~Quiet
  OBVIOUS
<1>3. /\ run' = [pc |-> "run", scope |-> scope, rows |-> rows, scored |-> {}, step |-> 0,
                 stopped |-> FALSE, early |-> early, at |-> past.writes, about |-> {}]
      /\ UNCHANGED <<cases, calls, lists, tab, past>>
  BY <1>1, <1>2 DEF RunEval
<1>4. rows \subseteq past.used /\ past.writes \in Nat
  BY <1>1 DEF Runnable, EvalTypes, TabType, PastType
<1>5. Grown
  BY <1>3, SameGrown
<1>6. RunType'
  BY <1>3, <1>4 DEF RunType
<1>7. EvalTypes'
  BY <1>3, <1>5, <1>6, KeptTypes DEF EvalTypes, Grown
<1> QED
  BY <1>1, <1>2, <1>3, <1>7

SameRun == run'.scope = run.scope /\ run'.rows = run.rows /\ run'.at = run.at /\ run'.early = run.early

LEMMA StopFacts ==
  ASSUME EvalTypes, StopEval
  PROVE  /\ EvalTypes' /\ UNCHANGED <<cases, calls, lists, tab, past>>
         /\ run.pc = "run" /\ run'.pc = "run" /\ SameRun /\ run'.about = run.about
<1>1. run.pc = "run" /\ run' = [run EXCEPT !.stopped = TRUE] /\ UNCHANGED <<cases, calls, lists, tab, past>>
  BY DEF StopEval
<1>2. /\ run = [pc |-> run.pc, scope |-> run.scope, rows |-> run.rows, scored |-> run.scored, step |-> run.step,
                stopped |-> run.stopped, early |-> run.early, at |-> run.at, about |-> run.about]
      /\ run.rows \subseteq past.used /\ run.at \in Nat /\ run.at <= past.writes
  BY <1>1 DEF EvalTypes, RunType
<1>3. run' = [pc |-> run.pc, scope |-> run.scope, rows |-> run.rows, scored |-> run.scored, step |-> run.step,
              stopped |-> TRUE, early |-> run.early, at |-> run.at, about |-> run.about]
  BY <1>1, <1>2
<1>4. RunType'
  BY <1>1, <1>2, <1>3 DEF RunType
<1>5. Grown
  BY <1>1, SameGrown
<1>6. EvalTypes'
  BY <1>1, <1>4, <1>5, KeptTypes DEF EvalTypes, Grown
<1> QED
  BY <1>1, <1>3, <1>6 DEF SameRun

LEMMA StepFacts ==
  ASSUME EvalTypes, EvalStep
  PROVE  /\ EvalTypes' /\ UNCHANGED <<cases, calls, lists, tab, past>>
         /\ run.pc = "run" /\ run'.pc \in {"run", "report"} /\ SameRun /\ run'.about = run.about \union {tab.kb}
         /\ run'.pc = "report" /\ ~run'.stopped => run'.scored = run.rows
<1>1. run.pc = "run" /\ UNCHANGED <<cases, calls, lists, tab, past>>
  BY DEF EvalStep
<1>2. /\ run = [pc |-> run.pc, scope |-> run.scope, rows |-> run.rows, scored |-> run.scored, step |-> run.step,
                stopped |-> run.stopped, early |-> run.early, at |-> run.at, about |-> run.about]
      /\ run.rows \subseteq past.used /\ run.at \in Nat /\ run.at <= past.writes
  BY <1>1 DEF EvalTypes, RunType
<1> DEFINE left == run.rows \ run.scored
<1>3. PICK counted : counted = run.scored \union {CHOOSE i \in left : \A j \in left : i <= j}
  OBVIOUS
<1>4. PICK about : about = run.about \union {tab.kb}
  OBVIOUS
<1>5. PICK step : step = run.step + 1
  OBVIOUS
<1>6. run' = IF run.step < 2 THEN [run EXCEPT !.about = about, !.step = step]
             ELSE IF run.stopped THEN [run EXCEPT !.about = about, !.pc = "report"]
             ELSE [run EXCEPT !.about = about, !.step = 0, !.scored = counted,
                              !.pc = IF counted = run.rows THEN "report" ELSE "run"]
  <2> HIDE DEF left
  <2>1. run' = LET asked == [run EXCEPT !.about = about] IN
               IF run.step < 2 THEN [asked EXCEPT !.step = asked.step + 1]
               ELSE IF run.stopped THEN [asked EXCEPT !.pc = "report"]
               ELSE [asked EXCEPT !.step = 0, !.scored = counted, !.pc = IF counted = run.rows THEN "report" ELSE "run"]
    BY <1>3, <1>4 DEF EvalStep, left
  <2>2. PICK asked : asked = [run EXCEPT !.about = about]
    OBVIOUS
  <2>3. asked.step = run.step
    BY <1>2, <2>2
  <2> QED
    BY <1>5, <2>1, <2>2, <2>3
<1>7. \E to \in {"run", "report"} : \E tick, scored, stopped :
        /\ run' = [pc |-> to, scope |-> run.scope, rows |-> run.rows, scored |-> scored, step |-> tick,
                   stopped |-> stopped, early |-> run.early, at |-> run.at, about |-> about]
        /\ to = "report" /\ ~stopped => scored = run.rows
  <2>1. CASE run.step < 2
    <3>1. run' = [pc |-> "run", scope |-> run.scope, rows |-> run.rows, scored |-> run.scored, step |-> step,
                  stopped |-> run.stopped, early |-> run.early, at |-> run.at, about |-> about]
      BY <1>1, <1>2, <1>6, <2>1
    <3> QED
      BY <3>1
  <2>2. CASE ~(run.step < 2) /\ run.stopped
    <3>1. run' = [pc |-> "report", scope |-> run.scope, rows |-> run.rows, scored |-> run.scored, step |-> run.step,
                  stopped |-> run.stopped, early |-> run.early, at |-> run.at, about |-> about]
      BY <1>2, <1>6, <2>2
    <3> QED
      BY <2>2, <3>1
  <2>3. CASE ~(run.step < 2) /\ ~run.stopped
    <3>1. PICK to \in {"run", "report"} : to = IF counted = run.rows THEN "report" ELSE "run"
      OBVIOUS
    <3>2. run' = [run EXCEPT !.about = about, !.step = 0, !.scored = counted, !.pc = to]
      BY <1>6, <2>3, <3>1
    <3>3. run' = [pc |-> to, scope |-> run.scope, rows |-> run.rows, scored |-> counted, step |-> 0,
                  stopped |-> run.stopped, early |-> run.early, at |-> run.at, about |-> about]
      BY <1>2, <3>2
    <3> QED
      BY <3>1, <3>3
  <2> QED
    BY <2>1, <2>2, <2>3
<1>8. RunType' /\ run'.pc \in {"run", "report"} /\ SameRun /\ run'.about = about
      /\ (run'.pc = "report" /\ ~run'.stopped => run'.scored = run.rows)
  BY <1>1, <1>2, <1>7 DEF RunType, SameRun
<1>9. Grown
  BY <1>1, SameGrown
<1>10. EvalTypes'
  BY <1>1, <1>8, <1>9, KeptTypes DEF EvalTypes, Grown
<1> QED
  BY <1>1, <1>4, <1>8, <1>10

LEMMA FirstTypes ==
  ASSUME EvalInit
  PROVE  EvalTypes
<1>1. PICK kb \in Shelf, q \in Question :
        /\ tab = [kb |-> kb, open |-> FALSE, page |-> <<>>, pageAt |-> 0, drawer |-> <<>>, drawerAt |-> 0]
        /\ cases = [i \in Id |-> IF i = 1 THEN [kb |-> kb, q |-> q, hard |-> FALSE, on |-> TRUE] ELSE Gone]
        /\ lists = [f \in 1 .. MaxLists |-> IF f = 1 THEN Asking("page", kb, FALSE) ELSE NoList]
  BY DEF EvalInit
<1>2. past = [calls |-> 0, writes |-> 0, jumps |-> 0, used |-> {1}, slips |-> {}] /\ run = [pc |-> "idle"]
      /\ calls = [d \in Desk |-> NoCall]
  BY DEF EvalInit
<1>3. 1 \in Id
  BY EvaluationAssumption DEF Id
<1>4. PastType /\ past.used = {1} /\ past.writes = 0
  BY <1>2, <1>3 DEF PastType
<1>5. <<>> \in RowLists /\ DOMAIN <<>> = {}
  <2>1. DOMAIN <<>> = {}
    OBVIOUS
  <2>2. <<>> \in [{} -> Rows]
    OBVIOUS
  <2> QED
    BY <2>1, <2>2 DEF RowLists
<1>6. TabType
  <2>1. tab \in [kb : Shelf, open : BOOLEAN, page : RowLists, pageAt : Nat, drawer : RowLists, drawerAt : Nat]
    BY <1>1, <1>5
  <2>2. tab.page = <<>> /\ tab.drawer = <<>> /\ tab.drawerAt = 0
    BY <1>1
  <2> QED
    BY <1>4, <1>5, <2>1, <2>2 DEF TabType
<1>7. CasesType
  <2>1. [kb |-> kb, q |-> q, hard |-> FALSE, on |-> TRUE] \in Rows
    BY DEF Rows
  <2> QED
    BY <1>1, <1>4, <2>1 DEF CasesType
<1>8. CallsType
  BY <1>2 DEF CallsType
<1>9. ListsType
  <2>1. Asking("page", kb, FALSE) \in ToCome /\ Asking("page", kb, FALSE).pc # "read" /\ NoList.pc # "read"
    BY AskingTypes, NoneShapes
  <2> QED
    BY <1>1, <2>1 DEF ListsType
<1>10. RunType
  BY <1>2 DEF RunType
<1> QED
  BY <1>4, <1>6, <1>7, <1>8, <1>9, <1>10 DEF EvalTypes

LEMMA IdleTypes ==
  ASSUME EvalTypes, UNCHANGED evalVars
  PROVE  EvalTypes'
<1>1. UNCHANGED <<cases, calls, lists, tab, run, past>>
  BY DEF evalVars
<1>2. Grown
  BY <1>1, SameGrown
<1> QED
  BY <1>1, <1>2, KeptTypes DEF EvalTypes, Grown

LEMMA NextTypes ==
  ASSUME EvalTypes, [EvalNext]_evalVars
  PROVE  EvalTypes'
<1>1. ASSUME NEW d \in Desk, Begin(d) \/ Check(d) \/ Write(d) \/ Answered(d) \/ Unanswered(d) PROVE EvalTypes'
  BY <1>1, BeginFacts, CheckFacts, WriteFacts, AnsweredFacts, UnansweredFacts
<1>2. ASSUME NEW f \in 1 .. MaxLists, ReadList(f) \/ Shown(f) \/ ListFails(f) PROVE EvalTypes'
  BY <1>2, ReadFacts, ShownFacts, FailsFacts
<1>3. ASSUME NEW kb \in Shelf, Jump(kb) PROVE EvalTypes'
  BY <1>3, JumpFacts
<1>4. ASSUME NEW scope \in {"all", "hard"}, RunEval(scope) PROVE EvalTypes'
  BY <1>4, RunFacts
<1> QED
  BY <1>1, <1>2, <1>3, <1>4, OpenFacts, CloseFacts, StopFacts, StepFacts, IdleTypes DEF EvalNext

\* What the service keeps: a call that was checked is about a case of the
\* library it names, or one that is gone; and unless two calls raced, what it
\* brings is still not there.
Wanted(c) == IF c.op = "import" THEN {q \in Question : c.file[q] = 1} ELSE {c.q}
Own(c) == IF c.op = "edit" THEN {c.id} ELSE {}
Free(c) == \A j \in Of(c.kb) \ Own(c) : cases[j].q \notin Wanted(c)
Bringing(d) == calls[d].pc = "checked" /\ calls[d].op \in Brings

Reaches == \A d \in Desk : calls[d].pc = "checked" /\ calls[d].op \in OfCase =>
                             cases[calls[d].id] = Gone \/ cases[calls[d].id].kb = calls[d].kb
StillFree ==
  "raced" \notin past.slips =>
    /\ \A d \in Desk : Bringing(d) => Free(calls[d])
    /\ \A d, e \in Desk : Bringing(d) /\ Bringing(e) /\ calls[d].kb = calls[e].kb => d = e
ServerInv == Reaches /\ "astray" \notin past.slips /\ QuestionsOnce /\ StillFree

\* A step that writes no row and checks no call.
SameCheck(d) ==
  calls'[d].pc = "checked" =>
    /\ calls[d].pc = "checked" /\ calls'[d].op = calls[d].op /\ calls'[d].kb = calls[d].kb /\ calls'[d].id = calls[d].id
    /\ calls'[d].q = calls[d].q /\ calls'[d].file = calls[d].file
QuietServer ==
  /\ UNCHANGED cases /\ past.slips \subseteq past'.slips /\ ("astray" \notin past.slips => "astray" \notin past'.slips)
  /\ \A d \in Desk : SameCheck(d)

LEMMA QuietKeeps ==
  ASSUME ServerInv, QuietServer
  PROVE  ServerInv'
<1>1. Reaches'
  BY DEF ServerInv, Reaches, QuietServer, SameCheck
<1>2. "raced" \notin past'.slips => "raced" \notin past.slips
  BY DEF QuietServer
<1>3. QuestionsOnce'
  BY <1>2 DEF ServerInv, QuestionsOnce, QuietServer, Of
<1>4. ASSUME NEW d \in Desk, Bringing(d)'
      PROVE  Bringing(d) /\ calls'[d].kb = calls[d].kb /\ (Free(calls[d]) => Free(calls[d])')
  <2>1. SameCheck(d) /\ calls'[d].pc = "checked" /\ UNCHANGED cases
    BY <1>4 DEF QuietServer, Bringing
  <2>2. Wanted(calls[d])' = Wanted(calls[d]) /\ Own(calls[d])' = Own(calls[d])
    BY <2>1 DEF SameCheck, Wanted, Own
  <2>3. Of(calls[d].kb)' = Of(calls[d].kb)
    BY <2>1 DEF SameCheck, Of
  <2>4. Free(calls[d]) => Free(calls[d])'
    BY <2>1, <2>2, <2>3 DEF Free
  <2> QED
    BY <1>4, <2>1, <2>4 DEF SameCheck, Bringing
<1>5. StillFree'
  BY <1>2, <1>4 DEF ServerInv, StillFree
<1> QED
  BY <1>1, <1>3, <1>5 DEF ServerInv, QuietServer

\* A call that is accepted brings what is not there.
LEMMA AcceptedFree ==
  ASSUME EvalTypes, QuestionsOnce, "raced" \notin past.slips, NEW c \in Calls, Carries(c), Accepted(c), c.op \in {"create", "edit"}
  PROVE  Free(c)
<1>1. c.kb \in Shelf /\ 0 \notin Id
  BY DEF Calls, Id
<1>2. CASE c.op = "create"
  <2>1. QuestionFree(c.kb, c.q, 0)
    BY <1>2 DEF Accepted
  <2> QED
    BY <1>1, <1>2, <2>1 DEF Free, QuestionFree, Wanted, Own, Of
<1>3. CASE c.op = "edit"
  <2>1. c.id \in Of(c.kb) /\ (c.q # cases[c.id].q => QuestionFree(c.kb, c.q, c.id))
    BY <1>3 DEF Accepted, Existing
  <2>2. CASE c.q # cases[c.id].q
    BY <1>3, <2>1, <2>2 DEF Free, QuestionFree, Wanted, Own
  <2>3. CASE c.q = cases[c.id].q
    BY <1>1, <1>3, <2>1, <2>3 DEF Free, QuestionsOnce, Wanted, Own
  <2> QED
    BY <2>2, <2>3
<1> QED
  BY <1>2, <1>3

LEMMA CheckKeeps ==
  ASSUME EvalTypes, ServerInv, NEW d \in Desk, Check(d)
  PROVE  ServerInv'
<1>1. /\ UNCHANGED cases /\ calls[d].pc = "sent" /\ past.slips \subseteq past'.slips
      /\ "astray" \notin past'.slips
      /\ Accepted(calls[d]) /\ Races(d) => "raced" \in past'.slips
      /\ \A e \in Desk : e # d => calls'[e] = calls[e]
      /\ calls'[d] \in Calls /\ calls'[d].pc \in {"checked", "refused"}
      /\ calls'[d].pc = "checked" => Accepted(calls[d])
      /\ calls'[d].op = calls[d].op /\ calls'[d].kb = calls[d].kb /\ calls'[d].id = calls[d].id
      /\ calls'[d].q = calls[d].q
      /\ calls'[d].op = "import" /\ calls'[d].pc = "checked" => calls'[d].file = New(calls[d].kb, calls[d].file)
  BY CheckFacts DEF ServerInv
<1>2. PICK b \in Calls : b = calls[d] /\ Carries(b)
  BY <1>1, CallShape DEF NoCall, Carries
<1>3. Reaches'
  <2>1. ASSUME NEW e \in Desk, calls'[e].pc = "checked", calls'[e].op \in OfCase
        PROVE  cases'[calls'[e].id] = Gone \/ cases'[calls'[e].id].kb = calls'[e].kb
    <3>1. CASE e # d
      BY <1>1, <2>1, <3>1 DEF ServerInv, Reaches
    <3>2. CASE e = d
      <4>1. Accepted(b) /\ b.op \in OfCase /\ calls'[e].id = b.id /\ calls'[e].kb = b.kb
        BY <1>1, <1>2, <2>1, <3>2
      <4>2. b.id \in Of(b.kb)
        BY <4>1 DEF Accepted, Existing, OfCase
      <4> QED
        BY <1>1, <4>1, <4>2 DEF Of
    <3> QED
      BY <3>1, <3>2
  <2> QED
    BY <2>1 DEF Reaches
<1>4. "raced" \notin past'.slips => "raced" \notin past.slips
  BY <1>1
<1>5. QuestionsOnce'
  BY <1>1, <1>4 DEF ServerInv, QuestionsOnce, Of
<1>6. ASSUME "raced" \notin past'.slips, Bringing(d)'
      PROVE  /\ Free(calls[d])'
             /\ \A e \in Desk : e # d /\ Bringing(e) => calls[e].kb # b.kb
  <2>1. Accepted(b) /\ b.op \in Brings /\ QuestionsOnce /\ "raced" \notin past.slips
    BY <1>1, <1>2, <1>4, <1>6 DEF Bringing, ServerInv
  <2>2. \A e \in Desk : e # d /\ Bringing(e) => calls[e].kb # b.kb
    BY <1>1, <1>2, <1>6, <2>1 DEF Races, Bringing
  <2>3. PICK c \in Calls : c = calls'[d]
    BY <1>1
  <2>4. c.op = b.op /\ c.kb = b.kb /\ c.id = b.id /\ c.q = b.q /\ (b.op = "import" => c.file = New(b.kb, b.file))
    BY <1>1, <1>2, <1>6, <2>3 DEF Bringing
  <2>5. Free(c)
    <3>1. CASE b.op = "import"
      <4>1. b.file \in Brought
        BY <1>2, <3>1 DEF Carries
      <4>2. \A q \in Question : c.file[q] = 1 => q \notin Asked(c.kb)
        BY <2>4, <3>1, <4>1, NewTypes
      <4> QED
        BY <2>4, <3>1, <4>2 DEF Free, Wanted, Own, Asked
    <3>2. CASE b.op # "import"
      <4>1. Free(b)
        BY <1>2, <2>1, <3>2, AcceptedFree DEF Brings
      <4> QED
        BY <2>4, <3>2, <4>1 DEF Free, Wanted, Own
    <3> QED
      BY <3>1, <3>2
  <2>6. Of(c.kb)' = Of(c.kb)
    BY <1>1 DEF Of
  <2>7. Free(c)'
    BY <1>1, <2>5, <2>6 DEF Free, Wanted, Own
  <2>8. Free(calls[d])'
    BY <2>3, <2>7 DEF Free, Wanted, Own, Of
  <2> QED
    BY <2>2, <2>8
<1>7. ASSUME NEW e \in Desk, e # d, Bringing(e)'
      PROVE  Bringing(e) /\ calls'[e] = calls[e] /\ (Free(calls[e]) => Free(calls[e])')
  <2>1. calls'[e] = calls[e]
    BY <1>1, <1>7
  <2>2. Of(calls[e].kb)' = Of(calls[e].kb)
    BY <1>1, <2>1 DEF Of
  <2> QED
    BY <1>1, <1>7, <2>1, <2>2 DEF Bringing, Free, Wanted, Own
<1>8. StillFree'
  <2> SUFFICES ASSUME "raced" \notin past'.slips
               PROVE  /\ \A e \in Desk : Bringing(e)' => Free(calls[e])'
                      /\ \A e, g \in Desk : Bringing(e)' /\ Bringing(g)' /\ calls'[e].kb = calls'[g].kb => e = g
    BY DEF StillFree
  <2>1. /\ \A e \in Desk : Bringing(e) => Free(calls[e])
        /\ \A e, g \in Desk : Bringing(e) /\ Bringing(g) /\ calls[e].kb = calls[g].kb => e = g
    BY <1>4 DEF ServerInv, StillFree
  <2>2. calls'[d].kb = b.kb
    BY <1>1, <1>2
  <2> QED
    BY <1>6, <1>7, <2>1, <2>2
<1> QED
  BY <1>1, <1>3, <1>5, <1>8 DEF ServerInv

\* What a write changes, seen from the questions.
LEMMA WriteRows ==
  ASSUME EvalTypes, ServerInv, NEW d \in Desk, Write(d), Done(d)
  PROVE  /\ \A i \in Id : cases'[i] # cases[i] =>
              /\ (cases[i] = Gone /\ i \notin past.used) \/ (cases[i] # Gone /\ cases[i].kb = calls[d].kb)
              /\ cases'[i] = Gone \/ cases'[i].kb = calls[d].kb
         /\ calls[d].op \in Brings =>
              /\ \A i \in Id : cases'[i] # cases[i] =>
                   cases'[i].q \in Wanted(calls[d]) /\ Own(calls[d]) \subseteq {i}
              /\ \A i, j \in Id : cases'[i] # cases[i] /\ cases'[j] # cases[j] /\ cases'[i].q = cases'[j].q => i = j
         /\ calls[d].op \notin Brings =>
              \A i \in Id : cases'[i] # cases[i] =>
                cases'[i] = Gone \/ (cases[i] # Gone /\ cases'[i].kb = cases[i].kb /\ cases'[i].q = cases[i].q)
<1>1. PICK b \in Calls : b = calls[d] /\ b.pc = "checked"
  BY CallShape, WriteFacts DEF NoCall
<1>2. Adds(cases', b) \/ Alters(cases', b)
  BY <1>1 DEF Done
<1>3. \A i \in Id : i \notin past.used => cases[i] = Gone
  BY DEF EvalTypes, CasesType
<1>4. \A r \in Rows : r # Gone
  BY NoneShapes
<1>5. CASE Adds(cases', b)
  <2>1. \A i \in Id : cases'[i] # cases[i] => i \notin past.used /\ cases'[i] \in Rows /\ cases'[i].kb = b.kb
    BY <1>5 DEF Adds
  <2>2. b.op \in {"create", "import"}
    BY <1>5 DEF Adds
  <2>3. Own(b) = {}
    BY <2>2 DEF Own
  <2>4. \A i \in Id : cases'[i] # cases[i] => cases'[i].q \in Wanted(b)
    BY <1>5, <2>2 DEF Adds, Wanted
  <2>5. \A i, j \in Id : cases'[i] # cases[i] /\ cases'[j] # cases[j] /\ cases'[i].q = cases'[j].q => i = j
    BY <1>5, <2>2 DEF Adds
  <2> QED
    BY <1>1, <1>3, <2>1, <2>2, <2>3, <2>4, <2>5 DEF Brings
<1>6. CASE Alters(cases', b)
  <2>1. /\ b.op \in OfCase /\ b.id \in Id /\ cases[b.id] \in Rows /\ \A i \in Id : i # b.id => cases'[i] = cases[i]
        /\ b.op = "remove" => cases'[b.id] = Gone
        /\ b.op # "remove" => /\ cases'[b.id] \in Rows /\ cases'[b.id].kb = cases[b.id].kb
                              /\ b.op = "edit" => cases'[b.id].q = b.q
                              /\ b.op # "edit" => cases'[b.id].q = cases[b.id].q
    BY <1>6 DEF Alters
  <2>2. cases[b.id] # Gone /\ cases[b.id].kb = b.kb
    BY <1>1, <1>4, <2>1 DEF ServerInv, Reaches
  <2>3. b.op \in Brings => b.op = "edit"
    BY <2>1 DEF Brings, OfCase
  <2>4. b.op = "edit" => Own(b) = {b.id} /\ Wanted(b) = {b.q} /\ b.op \in Brings
    BY DEF Own, Wanted, Brings
  <2> QED
    BY <1>1, <2>1, <2>2, <2>3, <2>4
<1> QED
  BY <1>2, <1>5, <1>6

LEMMA WriteKeeps ==
  ASSUME EvalTypes, ServerInv, NEW d \in Desk, Write(d)
  PROVE  ServerInv'
<1>1. /\ calls[d].pc = "checked" /\ past.slips \subseteq past'.slips
      /\ \A e \in Desk : e # d => calls'[e] = calls[e]
      /\ Refused(d) \/ Done(d)
  BY WriteFacts
<1>2. CASE Refused(d)
  <2>1. QuietServer
    BY <1>1, <1>2 DEF Refused, QuietServer, SameCheck
  <2> QED
    BY <2>1, QuietKeeps
<1>3. CASE Done(d)
  <2> DEFINE kb == calls[d].kb
  <2>1. /\ \A i \in Id : cases'[i] # cases[i] =>
             /\ (cases[i] = Gone /\ i \notin past.used) \/ (cases[i] # Gone /\ cases[i].kb = kb)
             /\ cases'[i] = Gone \/ cases'[i].kb = kb
        /\ calls[d].op \in Brings =>
             /\ \A i \in Id : cases'[i] # cases[i] =>
                  cases'[i].q \in Wanted(calls[d]) /\ Own(calls[d]) \subseteq {i}
             /\ \A i, j \in Id : cases'[i] # cases[i] /\ cases'[j] # cases[j] /\ cases'[i].q = cases'[j].q => i = j
        /\ calls[d].op \notin Brings =>
             \A i \in Id : cases'[i] # cases[i] =>
               cases'[i] = Gone \/ (cases[i] # Gone /\ cases'[i].kb = cases[i].kb /\ cases'[i].q = cases[i].q)
    BY <1>3, WriteRows
  <2>2. calls'[d].pc = "written"
    BY <1>3 DEF Done
  <2>3. "raced" \notin past'.slips => "raced" \notin past.slips
    BY <1>1
  <2>4. Gone.kb = "none" /\ "none" \notin Shelf /\ kb \in Shelf
    BY <1>1, CallShape, NoneShapes, EvaluationAssumption DEF Calls
  <2>5. Reaches'
    <3> SUFFICES ASSUME NEW e \in Desk, calls'[e].pc = "checked", calls'[e].op \in OfCase
                 PROVE  cases'[calls'[e].id] = Gone \/ cases'[calls'[e].id].kb = calls'[e].kb
      BY DEF Reaches
    <3>1. e # d /\ calls'[e] = calls[e]
      BY <1>1, <2>2
    <3>2. PICK c \in Calls : c = calls[e] /\ c = calls'[e] /\ Carries(c) /\ c.pc = "checked" /\ c.op \in OfCase
      BY <3>1, CallShape DEF NoCall, Carries
    <3>3. c.id \in past.used /\ c.id \in Id /\ (cases[c.id] = Gone \/ cases[c.id].kb = c.kb)
      BY <3>2 DEF Carries, ServerInv, Reaches, EvalTypes, PastType
    <3>4. CASE cases'[c.id] = cases[c.id]
      BY <3>2, <3>3, <3>4
    <3>5. CASE cases'[c.id] # cases[c.id]
      BY <2>1, <3>2, <3>3, <3>5
    <3> QED
      BY <3>4, <3>5
  <2>6. "astray" \notin past'.slips
    <3>1. "astray" \in past'.slips => \E i \in Id : cases'[i] # cases[i] /\ cases[i].kb \notin {"none", kb}
      BY <1>3 DEF Done, ServerInv
    <3> QED
      BY <2>1, <2>4, <3>1
  <2>7. QuestionsOnce'
    <3> SUFFICES ASSUME "raced" \notin past'.slips, NEW lib \in Shelf, NEW i \in Of(lib)', NEW j \in Of(lib)',
                        cases'[i].q = cases'[j].q, i # j
                 PROVE  FALSE
      BY DEF QuestionsOnce
    <3>1. i \in Id /\ j \in Id /\ cases'[i].kb = lib /\ cases'[j].kb = lib
      BY DEF Of
    <3>2. \A m \in Id, n \in Id : cases[m].kb = lib /\ cases[n].kb = lib /\ cases[m].q = cases[n].q => m = n
      BY <2>3 DEF ServerInv, QuestionsOnce, Of
    <3>3. CASE calls[d].op \notin Brings
      BY <2>1, <2>4, <3>1, <3>2, <3>3
    <3>4. CASE calls[d].op \in Brings
      <4>1. Free(calls[d])
        BY <1>1, <2>3, <3>4 DEF ServerInv, StillFree, Bringing
      <4>2. \A m \in Id : cases[m].kb = kb /\ m \notin Own(calls[d]) => cases[m].q \notin Wanted(calls[d])
        BY <4>1 DEF Free, Of
      <4>3. \A m \in Id, n \in Id : cases'[m] # cases[m] /\ cases'[n] = cases[n] /\ cases'[m].kb = lib /\ cases'[n].kb = lib =>
              cases'[m].q # cases'[n].q
        BY <2>1, <2>4, <3>4, <4>2
      <4> QED
        BY <2>1, <3>1, <3>2, <3>4, <4>3
    <3> QED
      BY <3>3, <3>4
  <2>8. ASSUME "raced" \notin past'.slips, NEW e \in Desk, Bringing(e)'
        PROVE  e # d /\ calls'[e] = calls[e] /\ Bringing(e) /\ Free(calls[e])'
    <3>1. e # d /\ calls'[e] = calls[e]
      BY <1>1, <2>2, <2>8 DEF Bringing
    <3>2. Bringing(e)
      BY <2>8, <3>1 DEF Bringing
    <3>3. Free(calls[e]) /\ (calls[d].op \in Brings => calls[e].kb # kb)
      BY <1>1, <2>3, <2>8, <3>1, <3>2 DEF ServerInv, StillFree, Bringing
    <3>4. calls[e].kb \in Shelf
      BY <3>2, CallShape DEF Bringing, NoCall, Calls
    <3>5. ASSUME NEW j \in Id, cases'[j].kb = calls[e].kb
          PROVE  cases[j].kb = calls[e].kb /\ cases[j].q = cases'[j].q
      BY <2>1, <2>4, <3>3, <3>4, <3>5
    <3>6. Wanted(calls[e])' = Wanted(calls[e]) /\ Own(calls[e])' = Own(calls[e])
      BY <3>1 DEF Wanted, Own
    <3>7. Free(calls[e])'
      BY <3>1, <3>3, <3>5, <3>6 DEF Free, Of
    <3> QED
      BY <3>1, <3>2, <3>7
  <2>9. StillFree'
    BY <2>3, <2>8 DEF ServerInv, StillFree
  <2> QED
    BY <2>5, <2>6, <2>7, <2>9 DEF ServerInv
<1> QED
  BY <1>1, <1>2, <1>3

LEMMA ServerNext ==
  ASSUME EvalTypes, ServerInv, [EvalNext]_evalVars
  PROVE  ServerInv'
<1>1. ASSUME NEW d \in Desk, Begin(d) PROVE QuietServer
  BY <1>1, BeginFacts DEF QuietServer, SameCheck
<1>2. ASSUME NEW d \in Desk, Answered(d) \/ Unanswered(d) PROVE QuietServer
  <2>1. /\ UNCHANGED cases /\ past.slips \subseteq past'.slips
        /\ "astray" \notin past.slips => "astray" \notin past'.slips
        /\ calls'[d] = NoCall /\ \A e \in Desk : e # d => calls'[e] = calls[e]
    BY <1>2, AnsweredFacts, UnansweredFacts
  <2> QED
    BY <2>1 DEF QuietServer, SameCheck, NoCall
<1>3. ASSUME NEW f \in 1 .. MaxLists, ReadList(f) \/ ListFails(f) PROVE QuietServer
  BY <1>3, ReadFacts, FailsFacts DEF QuietServer, SameCheck
<1>4. ASSUME NEW f \in 1 .. MaxLists, Shown(f) PROVE QuietServer
  <2>1. /\ UNCHANGED cases /\ past.slips \subseteq past'.slips
        /\ "astray" \notin past.slips => "astray" \notin past'.slips
    BY <1>4, ShownFacts
  <2>2. ASSUME NEW d \in Desk PROVE SameCheck(d)
    <3>1. CASE lists[f].to = "page"
      BY <1>4, <3>1, ShownFacts DEF SameCheck
    <3>2. CASE lists[f].to # "page" /\ calls[d] = NoCall
      BY <1>4, <3>2, ShownFacts DEF SameCheck, NoCall
    <3>3. CASE lists[f].to # "page" /\ calls[d] # NoCall
      BY <1>4, <3>3, ShownFacts DEF SameCheck, Unrowed
    <3> QED
      BY <3>1, <3>2, <3>3
  <2> QED
    BY <2>1, <2>2 DEF QuietServer
<1>5. ASSUME NEW kb \in Shelf, Jump(kb) PROVE QuietServer
  BY <1>5, JumpFacts DEF QuietServer, SameCheck
<1>6. ASSUME NEW scope \in {"all", "hard"}, RunEval(scope) PROVE QuietServer
  BY <1>6, RunFacts DEF QuietServer, SameCheck
<1>7. ASSUME OpenDrawer \/ CloseDrawer \/ StopEval \/ EvalStep PROVE QuietServer
  BY <1>7, OpenFacts, CloseFacts, StopFacts, StepFacts DEF QuietServer, SameCheck
<1>8. ASSUME UNCHANGED evalVars PROVE QuietServer
  BY <1>8 DEF QuietServer, SameCheck, evalVars
<1> QED
  BY <1>1, <1>2, <1>3, <1>4, <1>5, <1>6, <1>7, <1>8, QuietKeeps, CheckKeeps, WriteKeeps DEF EvalNext

\* What the page and the drawer show, as long as nothing went wrong: it is the
\* server's, or something is under way that will make it so.
Fresh(f, to) == /\ lists[f].to = to
                /\ lists[f].pc = "sent" \/ (lists[f].pc = "read" /\ lists[f].at = past.writes)
Tells(f) == lists[f].pc \in {"sent", "read"} /\ lists[f].tells

Current == \A f \in 1 .. MaxLists :
             lists[f].pc = "read" /\ lists[f].at = past.writes => lists[f].rows = Listed(lists[f].kb)
AllHere == /\ \A d \in Desk : calls[d] # NoCall => calls[d].kb = tab.kb
        /\ \A f \in 1 .. MaxLists : lists[f] # NoList => lists[f].kb = tab.kb
NoOther == \A d \in Desk : calls[d].pc = "written" => calls[d].by # "other"
PageOwed ==
  \/ \E f \in 1 .. MaxLists : Fresh(f, "page") \/ Tells(f)
  \/ \E d \in Desk : calls[d].pc = "written"
  \/ tab.pageAt = past.writes /\ tab.page = Listed(tab.kb)

\* A switch of the drawer that was written changes the row when it is answered,
\* unless a list came meanwhile or a later one was answered before.
Doomed ==
  \/ \E d \in Desk : Flips(d) /\ (~calls[d].row \/ calls[d].at <= tab.drawerAt)
  \/ \E f \in 1 .. MaxLists : /\ lists[f].pc = "read" /\ lists[f].to = "drawer"
                              /\ lists[f].at < tab.drawerAt \/ \E d \in Desk : Flips(d) /\ lists[f].at < calls[d].at
SwitchFits(i) ==
  \/ \E d \in Desk : /\ Flips(d) /\ calls[d].id = i /\ calls[d].on = cases[i].on
                     /\ \A e \in Desk : Flips(e) /\ calls[e].id = i => calls[e].at <= calls[d].at
  \/ /\ \A d \in Desk : Flips(d) => calls[d].id # i
     /\ tab.drawer[i].on = cases[i].on
Fits ==
  /\ DOMAIN tab.drawer = Of(tab.kb)
  /\ \A i \in Of(tab.kb) : /\ tab.drawer[i].kb = cases[i].kb /\ tab.drawer[i].q = cases[i].q
                           /\ tab.drawer[i].hard = cases[i].hard /\ SwitchFits(i)
Renewed == (\E f \in 1 .. MaxLists : Fresh(f, "drawer")) \/ (\E d \in Desk : Reloads(d))
UpToDate == tab.drawerAt = past.writes \/ \E d \in Desk : Flips(d) /\ calls[d].at = past.writes
DrawerOwed == Renewed \/ (UpToDate /\ (Doomed \/ Fits))

CleanInv == AllHere /\ NoOther /\ PageOwed /\ (tab.open => DrawerOwed)
PageInv == Current /\ (Clean => CleanInv)

\* A list that was read since the last write is the server's.
QuietLists ==
  /\ UNCHANGED cases /\ past'.writes = past.writes
  /\ \A f \in 1 .. MaxLists : lists'[f] = lists[f] \/ lists'[f].pc # "read"

LEMMA SameListed ==
  ASSUME UNCHANGED cases
  PROVE  \A kb : Listed(kb)' = Listed(kb) /\ Of(kb)' = Of(kb)
<1>1. \A kb : Of(kb)' = Of(kb)
  BY DEF Of
<1> QED
  BY <1>1 DEF Listed

LEMMA QuietCurrent ==
  ASSUME Current, QuietLists
  PROVE  Current'
<1>1. \A kb : Listed(kb)' = Listed(kb)
  BY SameListed DEF QuietLists
<1> SUFFICES ASSUME NEW f \in 1 .. MaxLists, lists'[f].pc = "read", lists'[f].at = past'.writes
             PROVE  lists'[f].rows = Listed(lists[f].kb)'
  BY DEF Current
<1>2. lists'[f] = lists[f] /\ past'.writes = past.writes
  BY DEF QuietLists
<1>3. lists[f].rows = Listed(lists[f].kb)
  BY <1>2 DEF Current
<1> QED
  BY <1>1, <1>2, <1>3

LEMMA FetchLists ==
  ASSUME NEW to \in {"page", "drawer"}, NEW tells \in BOOLEAN, tab.kb \in Shelf, Fetches(to, tells)
  PROVE  /\ \A f \in 1 .. MaxLists : lists'[f] = lists[f] \/ (lists[f] = NoList /\ lists'[f].pc = "sent" /\ lists'[f].kb = tab.kb)
         /\ \E f \in 1 .. MaxLists : lists'[f].pc = "sent" /\ lists'[f].to = to /\ lists'[f].tells = tells
  BY AskingTypes DEF Fetches

LEMMA CurrentNext ==
  ASSUME EvalTypes, Current, [EvalNext]_evalVars
  PROVE  Current'
<1>1. tab.kb \in Shelf
  BY DEF EvalTypes, TabType
<1>2. ASSUME NEW d \in Desk, Begin(d) \/ Check(d) \/ Unanswered(d) PROVE QuietLists
  BY <1>2, BeginFacts, CheckFacts, UnansweredFacts DEF QuietLists
<1>3. ASSUME NEW d \in Desk, Write(d) PROVE Current'
  <2>1. UNCHANGED lists /\ (Refused(d) \/ Done(d))
    BY <1>3, WriteFacts
  <2>2. CASE Refused(d)
    <3>1. QuietLists
      BY <2>1, <2>2 DEF Refused, QuietLists
    <3> QED
      BY <3>1, QuietCurrent
  <2>3. CASE Done(d)
    <3>1. past'.writes = past.writes + 1 /\ past.writes \in Nat
      BY <2>3 DEF Done, EvalTypes, PastType
    <3>2. \A f \in 1 .. MaxLists : lists[f].pc = "read" => lists[f].at \in Nat /\ lists[f].at <= past.writes
      BY ListShape DEF Come
    <3> QED
      BY <2>1, <3>1, <3>2 DEF Current
  <2> QED
    BY <2>1, <2>2, <2>3
<1>4. ASSUME NEW d \in Desk, Answered(d) PROVE QuietLists
  <2>1. UNCHANGED cases /\ past'.writes = past.writes
    BY <1>4, AnsweredFacts
  <2>2. UNCHANGED lists \/ Fetches("page", FALSE) \/ Fetches("drawer", TRUE)
    <3>1. calls[d].by \in {"drawer", "page", "other"}
      BY <1>4, AnsweredFacts, CallShape DEF NoCall, Calls
    <3>2. calls[d].by = "drawer" => Flips(d) \/ Reloads(d)
      BY <1>4, AnsweredFacts DEF Flips, Reloads
    <3> QED
      BY <1>4, <3>1, <3>2, AnsweredFacts
  <2>3. \A f \in 1 .. MaxLists : lists'[f] = lists[f] \/ lists'[f].pc = "sent"
    BY <1>1, <2>2, FetchLists
  <2> QED
    BY <2>1, <2>3 DEF QuietLists
<1>5. ASSUME NEW f \in 1 .. MaxLists, ReadList(f) PROVE Current'
  <2>1. /\ UNCHANGED <<cases, past>> /\ lists'[f].kb = lists[f].kb /\ lists'[f].rows = Listed(lists[f].kb)
        /\ \A g \in 1 .. MaxLists : g # f => lists'[g] = lists[g]
    BY <1>5, ReadFacts
  <2>2. \A kb : Listed(kb)' = Listed(kb)
    BY <2>1, SameListed
  <2> SUFFICES ASSUME NEW g \in 1 .. MaxLists, lists'[g].pc = "read", lists'[g].at = past'.writes
               PROVE  lists'[g].rows = Listed(lists[g].kb)'
    BY DEF Current
  <2>3. CASE g = f
    BY <2>1, <2>2, <2>3
  <2>4. CASE g # f
    <3>1. lists'[g] = lists[g] /\ lists[g].rows = Listed(lists[g].kb)
      BY <2>1, <2>4 DEF Current
    <3> QED
      BY <2>2, <3>1
  <2> QED
    BY <2>3, <2>4
<1>6. ASSUME NEW f \in 1 .. MaxLists, Shown(f) PROVE QuietLists
  <2>1. /\ UNCHANGED cases /\ past'.writes = past.writes
        /\ \A g \in 1 .. MaxLists : g # f => lists'[g] = lists[g]
        /\ lists'[f] = Asking("page", tab.kb, FALSE) \/ lists'[f] = NoList
    BY <1>6, ShownFacts
  <2>2. Asking("page", tab.kb, FALSE).pc # "read" /\ NoList.pc # "read"
    BY <1>1, AskingTypes, NoneShapes
  <2> QED
    BY <2>1, <2>2 DEF QuietLists
<1>7. ASSUME NEW f \in 1 .. MaxLists, ListFails(f) PROVE QuietLists
  <2>1. UNCHANGED cases /\ past'.writes = past.writes
    BY <1>7, FailsFacts
  <2>2. /\ \A g \in 1 .. MaxLists : g # f => lists'[g] = lists[g]
        /\ lists'[f] = Asking("page", tab.kb, FALSE) \/ lists'[f] = NoList
    BY <1>7 DEF ListFails, AfterList, EvalTypes, ListsType
  <2>3. Asking("page", tab.kb, FALSE).pc # "read" /\ NoList.pc # "read"
    BY <1>1, AskingTypes, NoneShapes
  <2> QED
    BY <2>1, <2>2, <2>3 DEF QuietLists
<1>8. ASSUME OpenDrawer PROVE QuietLists
  BY <1>1, <1>8, OpenFacts, FetchLists DEF QuietLists
<1>9. ASSUME NEW kb \in Shelf, Jump(kb) PROVE QuietLists
  BY <1>9, JumpFacts DEF QuietLists
<1>10. ASSUME NEW scope \in {"all", "hard"}, RunEval(scope) PROVE QuietLists
  BY <1>10, RunFacts DEF QuietLists
<1>11. ASSUME CloseDrawer \/ StopEval \/ EvalStep PROVE QuietLists
  BY <1>11, CloseFacts, StopFacts, StepFacts DEF QuietLists
<1>12. ASSUME UNCHANGED evalVars PROVE QuietLists
  BY <1>12 DEF QuietLists, evalVars
<1> QED
  BY <1>2, <1>3, <1>4, <1>5, <1>6, <1>7, <1>8, <1>9, <1>10, <1>11, <1>12, QuietCurrent DEF EvalNext

LEMMA CleanBefore ==
  ASSUME past.slips \subseteq past'.slips, Clean'
  PROVE  Clean
  BY DEF Clean

\* A step that begins, checks or refuses a call, reads a list or runs the
\* evaluation owes the page nothing new.
QuietPage ==
  /\ UNCHANGED <<cases, tab>> /\ past'.writes = past.writes
  /\ \A d \in Desk : calls'[d] # NoCall => calls'[d].kb = tab.kb \/ (calls[d] # NoCall /\ calls'[d].kb = calls[d].kb)
  /\ \A d \in Desk : calls'[d].pc = "written" <=> calls[d].pc = "written"
  /\ \A d \in Desk : calls[d].pc = "written" => calls'[d] = calls[d]
  /\ \A f \in 1 .. MaxLists :
       \/ lists'[f] = lists[f]
       \/ /\ lists[f].pc = "sent" /\ lists'[f].pc = "read" /\ lists'[f].to = lists[f].to /\ lists'[f].kb = lists[f].kb
          /\ lists'[f].tells = lists[f].tells /\ lists'[f].at = past.writes

LEMMA QuietClean ==
  ASSUME CleanInv, QuietPage
  PROVE  CleanInv'
<1>1. AllHere'
  BY DEF CleanInv, AllHere, QuietPage, NoList
<1>2. NoOther'
  BY DEF CleanInv, NoOther, QuietPage
<1>3. UNCHANGED tab /\ past'.writes = past.writes /\ \A kb : Listed(kb)' = Listed(kb) /\ Of(kb)' = Of(kb)
  BY SameListed DEF QuietPage
<1>4. \A f \in 1 .. MaxLists, to \in {"page", "drawer"} : Fresh(f, to) => Fresh(f, to)'
  BY DEF Fresh, QuietPage
<1>5. \A f \in 1 .. MaxLists : Tells(f) => Tells(f)'
  BY DEF Tells, QuietPage
<1>6. PageOwed'
  <2>1. CASE \E f \in 1 .. MaxLists : Fresh(f, "page") \/ Tells(f)
    BY <1>4, <1>5, <2>1 DEF PageOwed
  <2>2. CASE \E d \in Desk : calls[d].pc = "written"
    BY <2>2 DEF PageOwed, QuietPage
  <2>3. CASE tab.pageAt = past.writes /\ tab.page = Listed(tab.kb)
    BY <1>3, <2>3 DEF PageOwed
  <2> QED
    BY <2>1, <2>2, <2>3 DEF CleanInv, PageOwed
<1>7. \A d \in Desk : (Flips(d)' <=> Flips(d)) /\ (Flips(d) => calls'[d] = calls[d]) /\ (Reloads(d) => Reloads(d)')
  BY DEF Flips, Reloads, QuietPage
<1>8. ASSUME tab.open, DrawerOwed PROVE DrawerOwed'
  <2>1. CASE Renewed
    <3>1. Renewed'
      BY <1>4, <1>7, <2>1 DEF Renewed
    <3> QED
      BY <3>1 DEF DrawerOwed
  <2>2. UpToDate => UpToDate'
    BY <1>3, <1>7 DEF UpToDate
  <2>3. Doomed => Doomed'
    <3>1. CASE \E d \in Desk : Flips(d) /\ (~calls[d].row \/ calls[d].at <= tab.drawerAt)
      BY <1>3, <1>7, <3>1 DEF Doomed
    <3>2. ASSUME NEW f \in 1 .. MaxLists, lists[f].pc = "read", lists[f].to = "drawer",
                 lists[f].at < tab.drawerAt \/ \E d \in Desk : Flips(d) /\ lists[f].at < calls[d].at
          PROVE  Doomed'
      <4>1. lists'[f] = lists[f]
        BY <3>2 DEF QuietPage
      <4> QED
        BY <1>3, <1>7, <3>2, <4>1 DEF Doomed
    <3> QED
      BY <3>1, <3>2 DEF Doomed
  <2>4. ASSUME Fits PROVE Fits'
    <3>1. \A i \in Of(tab.kb) : SwitchFits(i) => SwitchFits(i)'
      BY <1>3, <1>7 DEF SwitchFits, QuietPage
    <3> QED
      BY <1>3, <2>4, <3>1 DEF Fits, QuietPage
  <2> QED
    BY <1>8, <2>1, <2>2, <2>3, <2>4 DEF DrawerOwed
<1> QED
  BY <1>1, <1>2, <1>3, <1>6, <1>8 DEF CleanInv

\* A write is answered by the page that asked for it, or by its drawer.
LEMMA WriteClean ==
  ASSUME EvalTypes, CleanInv, NEW d \in Desk, Write(d), Done(d), Clean'
  PROVE  CleanInv'
<1>1. /\ UNCHANGED <<lists, tab>> /\ calls[d].pc = "checked"
      /\ \A e \in Desk : e # d => calls'[e] = calls[e]
      /\ calls'[d] \in Calls /\ calls'[d].op = calls[d].op /\ calls'[d].by = calls[d].by /\ calls'[d].kb = calls[d].kb
      /\ calls'[d].id = calls[d].id /\ calls'[d].on = calls[d].on /\ calls'[d].row = calls[d].row
  BY WriteFacts
<1>2. /\ calls'[d].pc = "written" /\ calls'[d].at = past.writes + 1 /\ past'.writes = past.writes + 1
      /\ Adds(cases', calls[d]) \/ Alters(cases', calls[d])
      /\ calls[d].by # "other" /\ ~(calls[d].by = "page" /\ tab.open)
  BY DEF Done
<1>3. past.writes \in Nat /\ calls[d] # NoCall
  BY <1>1 DEF EvalTypes, PastType, NoCall
<1>4. AllHere'
  BY <1>1, <1>3 DEF CleanInv, AllHere
<1>5. NoOther'
  BY <1>1, <1>2 DEF CleanInv, NoOther
<1>6. PageOwed'
  BY <1>2 DEF PageOwed
<1>7. ASSUME tab.open, DrawerOwed PROVE DrawerOwed'
  <2>1. calls'[d].by = "drawer"
    BY <1>1, <1>2, <1>7 DEF Calls
  <2>2. CASE calls'[d].op # "toggle"
    <3>1. Reloads(d)'
      BY <1>2, <2>1, <2>2 DEF Reloads
    <3> QED
      BY <3>1 DEF DrawerOwed, Renewed
  <2>3. CASE calls'[d].op = "toggle"
    <3>1. Flips(d)'
      BY <1>2, <2>1, <2>3 DEF Flips
    <3>2. ~Flips(d) /\ \A e \in Desk : e # d => (Flips(e)' <=> Flips(e)) /\ (Reloads(e) => Reloads(e)')
      BY <1>1 DEF Flips, Reloads
    <3>3. UpToDate'
      BY <1>2, <3>1 DEF UpToDate
    <3>4. CASE \E e \in Desk : Reloads(e)
      <4>1. PICK e \in Desk : Reloads(e) /\ e # d
        BY <1>1, <3>4 DEF Reloads
      <4> QED
        BY <3>2, <4>1 DEF DrawerOwed, Renewed
    <3>5. ASSUME NEW f \in 1 .. MaxLists, Fresh(f, "drawer") PROVE DrawerOwed'
      <4>1. CASE lists[f].pc = "sent"
        <5>1. Fresh(f, "drawer")'
          BY <1>1, <3>5, <4>1 DEF Fresh
        <5> QED
          BY <5>1 DEF DrawerOwed, Renewed
      <4>2. CASE lists[f].pc = "read" /\ lists[f].at = past.writes
        <5>1. lists'[f].at < calls'[d].at
          BY <1>1, <1>2, <1>3, <4>2
        <5>2. Doomed'
          BY <1>1, <3>1, <3>5, <4>2, <5>1 DEF Doomed, Fresh
        <5> QED
          BY <3>3, <5>2 DEF DrawerOwed
      <4> QED
        BY <3>5, <4>1, <4>2 DEF Fresh
    <3>6. CASE Doomed
      <4>1. CASE \E e \in Desk : Flips(e) /\ (~calls[e].row \/ calls[e].at <= tab.drawerAt)
        <5>1. PICK e \in Desk : Flips(e) /\ (~calls[e].row \/ calls[e].at <= tab.drawerAt)
          BY <4>1
        <5>2. Flips(e)' /\ calls'[e] = calls[e]
          BY <1>1, <3>2, <5>1
        <5> QED
          BY <1>1, <3>3, <5>1, <5>2 DEF DrawerOwed, Doomed
      <4>2. CASE \E f \in 1 .. MaxLists : /\ lists[f].pc = "read" /\ lists[f].to = "drawer"
                                          /\ lists[f].at < tab.drawerAt \/ \E e \in Desk : Flips(e) /\ lists[f].at < calls[e].at
        <5>1. PICK f \in 1 .. MaxLists :
                /\ lists[f].pc = "read" /\ lists[f].to = "drawer"
                /\ lists[f].at < tab.drawerAt \/ \E e \in Desk : Flips(e) /\ lists[f].at < calls[e].at
          BY <4>2
        <5>2. \A e \in Desk : Flips(e) => Flips(e)' /\ calls'[e] = calls[e]
          BY <1>1, <3>2
        <5>3. Doomed'
          BY <1>1, <5>1, <5>2 DEF Doomed
        <5> QED
          BY <3>3, <5>3 DEF DrawerOwed
      <4> QED
        BY <3>6, <4>1, <4>2 DEF Doomed
    <3>7. CASE Fits
      <4>1. /\ calls[d].op = "toggle" /\ Alters(cases', calls[d])
        BY <1>1, <1>2, <2>3 DEF Adds
      <4>2. /\ \A i \in Id : i # calls[d].id => cases'[i] = cases[i]
            /\ cases'[calls[d].id].kb = cases[calls[d].id].kb /\ cases'[calls[d].id].q = cases[calls[d].id].q
            /\ cases'[calls[d].id].on = calls[d].on /\ cases'[calls[d].id].hard = cases[calls[d].id].hard
        BY <4>1 DEF Alters
      <4>3. \A i \in Id : /\ cases'[i].kb = cases[i].kb /\ cases'[i].q = cases[i].q /\ cases'[i].hard = cases[i].hard
                          /\ i # calls[d].id => cases'[i].on = cases[i].on
        BY <4>2
      <4>4. Of(tab.kb)' = Of(tab.kb)
        BY <1>1, <4>3 DEF Of
      <4>5. \A e \in Desk : Flips(e) => calls[e].at \in Nat /\ calls[e].at <= past.writes
        BY CallShape DEF Flips, NoCall, Calls, Carries
      <4>6. \A e \in Desk : Flips(e)' => calls'[e].at <= calls'[d].at
        BY <1>1, <1>2, <1>3, <3>2, <4>5
      <4>7. ASSUME NEW i \in Of(tab.kb), SwitchFits(i) PROVE SwitchFits(i)'
        <5>1. CASE i = calls[d].id
          <6>1. calls'[d].id = i /\ calls'[d].on = cases'[i].on
            BY <1>1, <4>2, <5>1
          <6> QED
            BY <3>1, <4>6, <6>1 DEF SwitchFits
        <5>2. CASE i # calls[d].id
          <6>1. cases'[i].on = cases[i].on /\ calls'[d].id # i
            BY <1>1, <4>3, <5>2 DEF Of
          <6>2. \A e \in Desk : calls'[e].id = i => e # d
            BY <6>1
          <6>3. CASE \E g \in Desk : /\ Flips(g) /\ calls[g].id = i /\ calls[g].on = cases[i].on
                                     /\ \A e \in Desk : Flips(e) /\ calls[e].id = i => calls[e].at <= calls[g].at
            <7>1. PICK g \in Desk : /\ Flips(g) /\ calls[g].id = i /\ calls[g].on = cases[i].on
                                    /\ \A e \in Desk : Flips(e) /\ calls[e].id = i => calls[e].at <= calls[g].at
              BY <6>3
            <7>2. g # d /\ Flips(g)' /\ calls'[g] = calls[g]
              BY <1>1, <3>2, <7>1
            <7>3. \A e \in Desk : Flips(e)' /\ calls'[e].id = i => calls'[e].at <= calls'[g].at
              BY <1>1, <3>2, <6>2, <7>1, <7>2
            <7> QED
              BY <6>1, <7>1, <7>2, <7>3 DEF SwitchFits
          <6>4. CASE (\A e \in Desk : Flips(e) => calls[e].id # i) /\ tab.drawer[i].on = cases[i].on
            BY <1>1, <3>2, <6>1, <6>2, <6>4 DEF SwitchFits
          <6> QED
            BY <4>7, <6>3, <6>4 DEF SwitchFits
        <5> QED
          BY <5>1, <5>2
      <4>8. Of(tab.kb) \subseteq Id
        BY DEF Of
      <4>9. Fits'
        BY <1>1, <3>7, <4>3, <4>4, <4>7, <4>8 DEF Fits
      <4> QED
        BY <3>3, <4>9 DEF DrawerOwed
    <3> QED
      BY <1>7, <3>4, <3>5, <3>6, <3>7 DEF DrawerOwed, Renewed
  <2> QED
    BY <2>2, <2>3
<1> QED
  BY <1>1, <1>4, <1>5, <1>6, <1>7 DEF CleanInv

LEMMA AnsweredClean ==
  ASSUME EvalTypes, CleanInv, NEW d \in Desk, Answered(d), Clean'
  PROVE  CleanInv'
<1>1. /\ UNCHANGED cases /\ calls[d].pc = "written" /\ past'.writes = past.writes
      /\ calls'[d] = NoCall /\ \A e \in Desk : e # d => calls'[e] = calls[e]
  BY AnsweredFacts
<1>2. calls[d].by \in {"drawer", "page"} /\ tab.kb \in Shelf
  <2>1. calls[d].by \in {"drawer", "page", "other"}
    BY <1>1, CallShape DEF NoCall, Calls
  <2> QED
    BY <1>1, <2>1 DEF CleanInv, NoOther, EvalTypes, TabType
<1>3. calls[d].by = "drawer" => Flips(d) \/ Reloads(d)
  BY <1>1 DEF Flips, Reloads
<1>4. ~Flips(d)' /\ ~Reloads(d)' /\ \A e \in Desk : e # d => (Flips(e)' <=> Flips(e)) /\ (Reloads(e) => Reloads(e)')
  BY <1>1 DEF Flips, Reloads, NoCall
<1>5. Fetches("page", FALSE) \/ Fetches("drawer", TRUE)
  BY <1>2, <1>3, AnsweredFacts
<1>6. tab'.kb = tab.kb /\ tab'.open = tab.open
  BY <1>2, <1>3, AnsweredFacts
<1>7. \A f \in 1 .. MaxLists : lists'[f] = lists[f] \/ (lists[f] = NoList /\ lists'[f].pc = "sent" /\ lists'[f].kb = tab.kb)
  BY <1>2, <1>5, FetchLists
<1>8. AllHere'
  BY <1>1, <1>6, <1>7 DEF CleanInv, AllHere
<1>9. NoOther'
  BY <1>1 DEF CleanInv, NoOther, NoCall
<1>10. PageOwed'
  <2>1. CASE Fetches("page", FALSE)
    <3>1. PICK f \in 1 .. MaxLists : lists'[f].pc = "sent" /\ lists'[f].to = "page" /\ lists'[f].tells = FALSE
      BY <1>2, <2>1, FetchLists
    <3>2. Fresh(f, "page")'
      BY <3>1 DEF Fresh
    <3> QED
      BY <3>2 DEF PageOwed
  <2>2. CASE Fetches("drawer", TRUE)
    <3>1. PICK f \in 1 .. MaxLists : lists'[f].pc = "sent" /\ lists'[f].to = "drawer" /\ lists'[f].tells = TRUE
      BY <1>2, <2>2, FetchLists
    <3>2. Tells(f)'
      BY <3>1 DEF Tells
    <3> QED
      BY <3>2 DEF PageOwed
  <2> QED
    BY <1>5, <2>1, <2>2
<1>11. \A f \in 1 .. MaxLists : lists[f].pc \in {"sent", "read"} => lists'[f] = lists[f]
  BY <1>7, NoneShapes
<1>12. \A f \in 1 .. MaxLists : Fresh(f, "drawer") => Fresh(f, "drawer")'
  BY <1>1, <1>11 DEF Fresh
<1>13. ASSUME tab.open, DrawerOwed PROVE DrawerOwed'
  <2>1. CASE Reloads(d)
    <3>1. PICK f \in 1 .. MaxLists : lists'[f].pc = "sent" /\ lists'[f].to = "drawer" /\ lists'[f].tells = TRUE
      BY <1>2, <2>1, AnsweredFacts, FetchLists
    <3>2. Fresh(f, "drawer")'
      BY <3>1 DEF Fresh
    <3> QED
      BY <3>2 DEF DrawerOwed, Renewed
  <2>2. CASE ~Reloads(d) /\ Renewed
    <3>1. Renewed'
      BY <1>4, <1>12, <2>2 DEF Renewed
    <3> QED
      BY <3>1 DEF DrawerOwed
  <2>3. CASE calls[d].by = "page" /\ ~Renewed
    <3>1. UNCHANGED tab
      BY <2>3, AnsweredFacts
    <3>2. \A e \in Desk : Flips(e) => Flips(e)' /\ calls'[e] = calls[e]
      BY <1>1, <1>4, <2>3 DEF Flips
    <3>3. \A e \in Desk : Flips(e)' => Flips(e) /\ calls'[e] = calls[e]
      BY <1>1, <1>4
    <3>4. UpToDate'
      BY <1>1, <1>13, <2>3, <3>1, <3>2 DEF DrawerOwed, UpToDate
    <3>5. CASE Doomed
      <4>1. Doomed'
        BY <1>11, <3>1, <3>2, <3>5 DEF Doomed
      <4> QED
        BY <3>4, <4>1 DEF DrawerOwed
    <3>6. CASE Fits
      <4>1. \A i \in Of(tab.kb) : SwitchFits(i) => SwitchFits(i)'
        BY <1>1, <3>1, <3>2, <3>3 DEF SwitchFits
      <4>2. Of(tab.kb)' = Of(tab.kb)
        BY <1>1, <3>1, SameListed DEF Of
      <4>3. Fits'
        BY <1>1, <3>1, <3>6, <4>1, <4>2 DEF Fits
      <4> QED
        BY <3>4, <4>3 DEF DrawerOwed
    <3> QED
      BY <1>13, <2>3, <3>5, <3>6 DEF DrawerOwed
  <2>4. CASE Flips(d) /\ ~Renewed
    <3>1. calls[d].row /\ calls[d].at > tab.drawerAt
      BY <2>4, AnsweredFacts
    <3>2. /\ tab'.drawerAt = calls[d].at /\ DOMAIN tab'.drawer = DOMAIN tab.drawer
          /\ \A j \in DOMAIN tab.drawer :
               /\ tab'.drawer[j].kb = tab.drawer[j].kb /\ tab'.drawer[j].q = tab.drawer[j].q
               /\ tab'.drawer[j].hard = tab.drawer[j].hard
               /\ tab'.drawer[j].on = IF j = calls[d].id THEN calls[d].on ELSE tab.drawer[j].on
      BY <2>4, <3>1, AnsweredFacts DEF SwitchedTo
    <3>3. /\ tab.drawerAt \in Nat /\ past.writes \in Nat
          /\ \A e \in Desk : Flips(e) => calls[e].at \in Nat /\ calls[e].at <= past.writes
      BY CallShape DEF EvalTypes, TabType, PastType, Flips, NoCall, Calls, Carries
    <3>4. UpToDate'
      <4>1. PICK e \in Desk : Flips(e) /\ calls[e].at = past.writes
        BY <1>13, <2>4, <3>1, <3>3 DEF DrawerOwed, UpToDate
      <4>2. CASE e = d
        BY <1>1, <3>2, <4>1, <4>2 DEF UpToDate
      <4>3. CASE e # d
        <5>1. Flips(e)' /\ calls'[e].at = past'.writes
          BY <1>1, <1>4, <4>1, <4>3
        <5> QED
          BY <5>1 DEF UpToDate
      <4> QED
        BY <4>2, <4>3
    <3>5. CASE \E e \in Desk : e # d /\ Flips(e) /\ calls[e].at <= calls[d].at
      <4>1. Doomed'
        BY <1>1, <1>4, <3>2, <3>5 DEF Doomed
      <4> QED
        BY <3>4, <4>1 DEF DrawerOwed
    <3>6. CASE Doomed /\ ~(\E e \in Desk : e # d /\ Flips(e) /\ calls[e].at <= calls[d].at)
      <4>1. CASE \E e \in Desk : Flips(e) /\ (~calls[e].row \/ calls[e].at <= tab.drawerAt)
        <5>1. PICK e \in Desk : Flips(e) /\ (~calls[e].row \/ calls[e].at <= tab.drawerAt)
          BY <4>1
        <5>2. calls[e].at <= tab.drawerAt => calls[e].at <= calls[d].at
          BY <2>4, <3>1, <3>3, <5>1
        <5>3. e # d /\ ~calls[e].row
          <6>1. e # d
            BY <2>4, <3>1, <3>3, <5>1
          <6> QED
            BY <3>6, <5>1, <5>2, <6>1
        <5>4. Flips(e)' /\ ~calls'[e].row
          BY <1>1, <1>4, <5>1, <5>3
        <5>5. Doomed'
          BY <5>4 DEF Doomed
        <5> QED
          BY <3>4, <5>5 DEF DrawerOwed
      <4>2. CASE \E f \in 1 .. MaxLists : /\ lists[f].pc = "read" /\ lists[f].to = "drawer"
                                          /\ lists[f].at < tab.drawerAt \/ \E e \in Desk : Flips(e) /\ lists[f].at < calls[e].at
        <5>1. PICK f \in 1 .. MaxLists :
                /\ lists[f].pc = "read" /\ lists[f].to = "drawer"
                /\ lists[f].at < tab.drawerAt \/ \E e \in Desk : Flips(e) /\ lists[f].at < calls[e].at
          BY <4>2
        <5>2. lists'[f] = lists[f] /\ lists[f].at \in Nat
          BY <1>11, <5>1, ListShape DEF Come
        <5>3. CASE lists[f].at < tab.drawerAt \/ lists[f].at < calls[d].at
          <6>1. lists'[f].at < tab'.drawerAt
            BY <2>4, <3>1, <3>2, <3>3, <5>2, <5>3
          <6>2. Doomed'
            BY <5>1, <5>2, <6>1 DEF Doomed
          <6> QED
            BY <3>4, <6>2 DEF DrawerOwed
        <5>4. CASE \E e \in Desk : e # d /\ Flips(e) /\ lists[f].at < calls[e].at
          <6>1. PICK e \in Desk : Flips(e)' /\ lists'[f].at < calls'[e].at
            BY <1>1, <1>4, <5>2, <5>4
          <6>2. Doomed'
            BY <5>1, <5>2, <6>1 DEF Doomed
          <6> QED
            BY <3>4, <6>2 DEF DrawerOwed
        <5> QED
          BY <5>1, <5>3, <5>4
      <4> QED
        BY <3>6, <4>1, <4>2 DEF Doomed
    <3>7. CASE Fits /\ ~(\E e \in Desk : e # d /\ Flips(e) /\ calls[e].at <= calls[d].at)
      <4>1. Of(tab.kb)' = Of(tab.kb)
        BY <1>1, <1>6, SameListed DEF Of
      <4>2. DOMAIN tab.drawer = Of(tab.kb)
        BY <3>7 DEF Fits
      <4>3. ASSUME NEW i \in Of(tab.kb), SwitchFits(i) PROVE SwitchFits(i)'
        <5>1. CASE \E g \in Desk : /\ Flips(g) /\ calls[g].id = i /\ calls[g].on = cases[i].on
                                   /\ \A e \in Desk : Flips(e) /\ calls[e].id = i => calls[e].at <= calls[g].at
          <6>1. PICK g \in Desk : /\ Flips(g) /\ calls[g].id = i /\ calls[g].on = cases[i].on
                                  /\ \A e \in Desk : Flips(e) /\ calls[e].id = i => calls[e].at <= calls[g].at
            BY <5>1
          <6>2. CASE g # d
            <7>1. Flips(g)' /\ calls'[g] = calls[g]
              BY <1>1, <1>4, <6>1, <6>2
            <7>2. \A e \in Desk : Flips(e)' /\ calls'[e].id = i => calls'[e].at <= calls'[g].at
              BY <1>1, <1>4, <6>1, <7>1
            <7> QED
              BY <1>1, <6>1, <7>1, <7>2 DEF SwitchFits
          <6>3. CASE g = d
            <7>1. \A e \in Desk : Flips(e)' => calls'[e].id # i
              BY <1>1, <1>4, <3>7, <6>1, <6>3
            <7>2. tab'.drawer[i].on = cases'[i].on
              BY <1>1, <3>2, <4>2, <6>1, <6>3
            <7> QED
              BY <7>1, <7>2 DEF SwitchFits
          <6> QED
            BY <6>2, <6>3
        <5>2. CASE (\A e \in Desk : Flips(e) => calls[e].id # i) /\ tab.drawer[i].on = cases[i].on
          <6>1. \A e \in Desk : Flips(e)' => calls'[e].id # i
            BY <1>1, <1>4, <5>2
          <6>2. tab'.drawer[i].on = cases'[i].on
            BY <1>1, <2>4, <3>2, <4>2, <5>2
          <6> QED
            BY <6>1, <6>2 DEF SwitchFits
        <5> QED
          BY <4>3, <5>1, <5>2 DEF SwitchFits
      <4>4. Fits'
        BY <1>1, <1>6, <3>2, <3>7, <4>1, <4>2, <4>3 DEF Fits
      <4> QED
        BY <3>4, <4>4 DEF DrawerOwed
    <3> QED
      BY <1>13, <2>4, <3>5, <3>6, <3>7 DEF DrawerOwed
  <2> QED
    BY <1>2, <1>3, <2>1, <2>2, <2>3, <2>4
<1> QED
  BY <1>6, <1>8, <1>9, <1>10, <1>13 DEF CleanInv

LEMMA ShownClean ==
  ASSUME EvalTypes, Current, CleanInv, NEW f \in 1 .. MaxLists, Shown(f), Clean'
  PROVE  CleanInv'
<1>1. /\ UNCHANGED cases /\ lists[f].pc = "read" /\ past'.writes = past.writes
      /\ \A g \in 1 .. MaxLists : g # f => lists'[g] = lists[g]
      /\ lists[f].tells => lists'[f] = Asking("page", tab.kb, FALSE)
      /\ ~lists[f].tells => lists'[f] = NoList
      /\ tab'.kb = tab.kb /\ tab'.open = tab.open
      /\ lists[f].to = "page" => /\ tab'.page = lists[f].rows /\ tab'.pageAt = lists[f].at
                                 /\ tab'.drawer = tab.drawer /\ tab'.drawerAt = tab.drawerAt /\ UNCHANGED calls
                                 /\ lists[f].at >= tab.pageAt
      /\ lists[f].to # "page" => /\ tab'.drawer = lists[f].rows /\ tab'.drawerAt = lists[f].at
                                 /\ tab'.page = tab.page /\ tab'.pageAt = tab.pageAt
                                 /\ lists[f].to = "drawer" /\ lists[f].at >= tab.drawerAt
                                 /\ \A d \in Desk : calls[d] = NoCall <=> calls'[d] = NoCall
                                 /\ \A d \in Desk : calls[d] # NoCall => Unrowed(calls[d], calls'[d])
  BY ShownFacts
<1>2. /\ tab.kb \in Shelf /\ tab.pageAt \in Nat /\ tab.drawerAt \in Nat /\ past.writes \in Nat
      /\ lists[f].at \in Nat /\ lists[f].at <= past.writes /\ lists[f] # NoList
  BY <1>1, ListShape, NoneShapes DEF EvalTypes, TabType, PastType, Come
<1>3. lists[f].kb = tab.kb
  BY <1>2 DEF CleanInv, AllHere
<1>4. \A d \in Desk : /\ calls'[d] # NoCall => calls[d] # NoCall /\ calls'[d].kb = calls[d].kb
                      /\ calls'[d].pc = "written" <=> calls[d].pc = "written"
                      /\ calls[d].pc = "written" => calls'[d].by = calls[d].by
                      /\ Reloads(d) => Reloads(d)'
                      /\ Flips(d) <=> Flips(d)'
                      /\ Flips(d) => calls'[d].at = calls[d].at /\ (lists[f].to # "page" => ~calls'[d].row)
  <2>1. CASE lists[f].to = "page"
    BY <1>1, <2>1 DEF Reloads, Flips
  <2>2. ASSUME NEW d \in Desk, lists[f].to # "page"
        PROVE  \/ calls'[d] = calls[d] /\ calls[d].pc = "none"
               \/ calls[d] # NoCall /\ calls'[d] # NoCall /\ Unrowed(calls[d], calls'[d])
    BY <1>1, <2>2, NoneShapes
  <2> QED
    BY <2>1, <2>2 DEF Reloads, Flips, Unrowed
<1>5. Asking("page", tab.kb, FALSE).kb = tab.kb /\ Asking("page", tab.kb, FALSE).pc = "sent"
      /\ Asking("page", tab.kb, FALSE).to = "page"
  BY <1>2, AskingTypes
<1>6. AllHere'
  <2>1. \A d \in Desk : calls'[d] # NoCall => calls'[d].kb = tab'.kb
    BY <1>1, <1>4 DEF CleanInv, AllHere
  <2>2. \A g \in 1 .. MaxLists : lists'[g] # NoList => lists'[g].kb = tab'.kb
    <3>1. lists'[f] # NoList => lists'[f].kb = tab'.kb
      BY <1>1, <1>5
    <3>2. \A g \in 1 .. MaxLists : g # f /\ lists'[g] # NoList => lists'[g].kb = tab'.kb
      BY <1>1 DEF CleanInv, AllHere
    <3> QED
      BY <3>1, <3>2
  <2> QED
    BY <2>1, <2>2 DEF AllHere
<1>7. NoOther'
  BY <1>4 DEF CleanInv, NoOther
<1>8. \A kb : Listed(kb)' = Listed(kb) /\ Of(kb)' = Of(kb)
  BY <1>1, SameListed
<1>9. PageOwed'
  <2>1. CASE lists[f].tells
    <3>1. Fresh(f, "page")'
      BY <1>1, <1>5, <2>1 DEF Fresh
    <3> QED
      BY <3>1 DEF PageOwed
  <2>2. CASE ~lists[f].tells
    <3>1. ASSUME lists[f].to = "page", lists[f].at = past.writes PROVE PageOwed'
      <4>1. lists[f].rows = Listed(tab.kb)
        BY <1>1, <1>3, <3>1 DEF Current
      <4> QED
        BY <1>1, <1>8, <3>1, <4>1 DEF PageOwed
    <3>2. ASSUME NEW g \in 1 .. MaxLists, Fresh(g, "page") \/ Tells(g) PROVE PageOwed'
      <4>1. CASE g = f
        BY <1>1, <2>2, <3>1, <3>2, <4>1 DEF Fresh, Tells
      <4>2. CASE g # f
        <5>1. (Fresh(g, "page") \/ Tells(g))'
          BY <1>1, <3>2, <4>2 DEF Fresh, Tells
        <5> QED
          BY <5>1 DEF PageOwed
      <4> QED
        BY <4>1, <4>2
    <3>3. CASE \E d \in Desk : calls[d].pc = "written"
      BY <1>4, <3>3 DEF PageOwed
    <3>4. CASE tab.pageAt = past.writes /\ tab.page = Listed(tab.kb)
      <4>1. CASE lists[f].to = "page"
        BY <1>1, <1>2, <3>1, <3>4, <4>1
      <4>2. CASE lists[f].to # "page"
        BY <1>1, <1>8, <3>4, <4>2 DEF PageOwed
      <4> QED
        BY <4>1, <4>2
    <3> QED
      BY <3>2, <3>3, <3>4 DEF CleanInv, PageOwed
  <2> QED
    BY <2>1, <2>2
<1>10. ASSUME tab.open, DrawerOwed, lists[f].to = "page" PROVE DrawerOwed'
  <2>1. \A g \in 1 .. MaxLists : lists[g].to # "page" => lists'[g] = lists[g]
    BY <1>1, <1>10
  <2>2. UNCHANGED calls /\ tab'.drawer = tab.drawer /\ tab'.drawerAt = tab.drawerAt
    BY <1>1, <1>10
  <2>3. Renewed => Renewed'
    BY <1>1, <1>4, <2>1 DEF Renewed, Fresh
  <2>4. UpToDate => UpToDate'
    BY <1>1, <1>4, <2>2 DEF UpToDate
  <2>5. Doomed => Doomed'
    BY <1>4, <2>1, <2>2 DEF Doomed
  <2>6. ASSUME Fits PROVE Fits'
    <3>1. \A i \in Of(tab.kb) : SwitchFits(i) => SwitchFits(i)'
      BY <1>1, <1>4, <2>2 DEF SwitchFits
    <3> QED
      BY <1>1, <1>8, <2>2, <2>6, <3>1 DEF Fits
  <2> QED
    BY <1>10, <2>3, <2>4, <2>5, <2>6 DEF DrawerOwed
<1>11. ASSUME tab.open, DrawerOwed, lists[f].to # "page" PROVE DrawerOwed'
  <2>1. CASE \E d \in Desk : Reloads(d)
    BY <1>4, <2>1 DEF DrawerOwed, Renewed
  <2>2. CASE lists[f].at = past.writes
    <3>1. UpToDate'
      BY <1>1, <1>11, <2>2 DEF UpToDate
    <3>2. CASE \E d \in Desk : Flips(d)
      <4>1. Doomed'
        BY <1>4, <1>11, <3>2 DEF Doomed
      <4> QED
        BY <3>1, <4>1 DEF DrawerOwed
    <3>3. CASE ~\E d \in Desk : Flips(d)
      <4>1. tab'.drawer = Listed(tab.kb)
        BY <1>1, <1>3, <1>11, <2>2 DEF Current
      <4>2. DOMAIN tab'.drawer = Of(tab.kb) /\ \A i \in Of(tab.kb) : tab'.drawer[i] = cases[i]
        BY <1>2, <4>1, ListedType
      <4>3. \A d \in Desk : ~Flips(d)'
        BY <1>4, <3>3
      <4>4. \A i \in Of(tab.kb) : SwitchFits(i)'
        BY <1>1, <4>2, <4>3 DEF SwitchFits
      <4>5. Fits'
        BY <1>1, <1>8, <4>2, <4>4 DEF Fits
      <4> QED
        BY <3>1, <4>5 DEF DrawerOwed
    <3> QED
      BY <3>2, <3>3
  <2>3. CASE lists[f].at # past.writes /\ \E g \in 1 .. MaxLists : Fresh(g, "drawer")
    <3>1. PICK g \in 1 .. MaxLists : Fresh(g, "drawer") /\ g # f
      BY <1>1, <2>3 DEF Fresh
    <3>2. Fresh(g, "drawer")'
      BY <1>1, <3>1 DEF Fresh
    <3> QED
      BY <3>2 DEF DrawerOwed, Renewed
  <2>4. CASE lists[f].at # past.writes /\ UpToDate
    <3>1. PICK d \in Desk : Flips(d) /\ calls[d].at = past.writes
      BY <1>1, <1>2, <1>11, <2>4 DEF UpToDate
    <3>2. Flips(d)' /\ calls'[d].at = past'.writes /\ ~calls'[d].row
      BY <1>1, <1>4, <1>11, <3>1
    <3> QED
      BY <3>2 DEF DrawerOwed, UpToDate, Doomed
  <2> QED
    BY <1>11, <2>1, <2>2, <2>3, <2>4 DEF DrawerOwed, Renewed
<1> QED
  BY <1>1, <1>6, <1>7, <1>9, <1>10, <1>11 DEF CleanInv

LEMMA OpenClean ==
  ASSUME EvalTypes, CleanInv, OpenDrawer
  PROVE  CleanInv'
<1>1. /\ UNCHANGED <<cases, calls, past>> /\ Fetches("drawer", FALSE) /\ tab.kb \in Shelf
      /\ tab'.kb = tab.kb /\ tab'.page = tab.page /\ tab'.pageAt = tab.pageAt
  BY OpenFacts DEF EvalTypes, TabType
<1>2. /\ \A f \in 1 .. MaxLists : lists'[f] = lists[f] \/ (lists[f] = NoList /\ lists'[f].pc = "sent" /\ lists'[f].kb = tab.kb)
      /\ \E f \in 1 .. MaxLists : lists'[f].pc = "sent" /\ lists'[f].to = "drawer"
  BY <1>1, FetchLists
<1>3. \A f \in 1 .. MaxLists : lists[f].pc \in {"sent", "read"} => lists'[f] = lists[f]
  BY <1>2, NoneShapes
<1>4. Listed(tab.kb)' = Listed(tab.kb)
  BY <1>1, SameListed DEF Listed, Of
<1>5. AllHere' /\ NoOther'
  BY <1>1, <1>2 DEF CleanInv, AllHere, NoOther
<1>6. PageOwed'
  <2>1. \A f \in 1 .. MaxLists : Fresh(f, "page") \/ Tells(f) => (Fresh(f, "page") \/ Tells(f))'
    BY <1>1, <1>3 DEF Fresh, Tells
  <2> QED
    BY <1>1, <1>4, <2>1 DEF CleanInv, PageOwed
<1>7. DrawerOwed'
  BY <1>2 DEF DrawerOwed, Renewed, Fresh
<1> QED
  BY <1>5, <1>6, <1>7 DEF CleanInv

LEMMA CloseClean ==
  ASSUME EvalTypes, CleanInv, CloseDrawer
  PROVE  CleanInv'
<1>1. /\ UNCHANGED <<cases, calls, lists, past>> /\ ~tab'.open
      /\ tab'.kb = tab.kb /\ tab'.page = tab.page /\ tab'.pageAt = tab.pageAt
  BY CloseFacts
<1>2. Listed(tab.kb)' = Listed(tab.kb)
  BY <1>1, SameListed DEF Listed, Of
<1> QED
  BY <1>1, <1>2 DEF CleanInv, AllHere, NoOther, PageOwed, Fresh, Tells

LEMMA CleanNext ==
  ASSUME EvalTypes, Current, CleanInv, [EvalNext]_evalVars, Clean'
  PROVE  CleanInv'
<1>1. ASSUME NEW d \in Desk, Begin(d) PROVE QuietPage
  <2>1. /\ UNCHANGED <<cases, lists, tab>> /\ past'.writes = past.writes
        /\ calls[d] = NoCall /\ calls'[d].pc = "sent" /\ calls'[d].kb = tab.kb
        /\ \A e \in Desk : e # d => calls'[e] = calls[e]
    BY <1>1, BeginFacts
  <2> QED
    BY <2>1, NoneShapes DEF QuietPage
<1>2. ASSUME NEW d \in Desk, Check(d) PROVE QuietPage
  <2>1. /\ UNCHANGED <<cases, lists, tab>> /\ past'.writes = past.writes
        /\ calls[d].pc = "sent" /\ calls'[d].pc \in {"checked", "refused"} /\ calls'[d].kb = calls[d].kb
        /\ \A e \in Desk : e # d => calls'[e] = calls[e]
    BY <1>2, CheckFacts
  <2> QED
    BY <2>1, NoneShapes DEF QuietPage
<1>3. ASSUME NEW d \in Desk, Write(d) PROVE CleanInv'
  <2>1. CASE Refused(d)
    <3>1. /\ UNCHANGED <<cases, lists, tab>> /\ past'.writes = past.writes
          /\ calls[d].pc = "checked" /\ calls'[d].pc = "refused" /\ calls'[d].kb = calls[d].kb
          /\ \A e \in Desk : e # d => calls'[e] = calls[e]
      BY <1>3, <2>1, WriteFacts DEF Refused
    <3>2. QuietPage
      BY <3>1, NoneShapes DEF QuietPage
    <3> QED
      BY <3>2, QuietClean
  <2> QED
    BY <1>3, <2>1, WriteFacts, WriteClean
<1>4. ASSUME NEW d \in Desk, Unanswered(d) PROVE QuietPage
  <2>1. /\ UNCHANGED <<cases, lists, tab>> /\ past'.writes = past.writes
        /\ calls[d].pc \in {"written", "refused"} /\ calls'[d] = NoCall
        /\ \A e \in Desk : e # d => calls'[e] = calls[e]
        /\ calls[d].pc = "written" => calls[d].by = "other"
    BY <1>4, UnansweredFacts
  <2>2. calls[d].pc = "refused"
    BY <2>1 DEF CleanInv, NoOther
  <2> QED
    BY <2>1, <2>2, NoneShapes DEF QuietPage
<1>5. ASSUME NEW f \in 1 .. MaxLists, ReadList(f) PROVE QuietPage
  BY <1>5, ReadFacts DEF QuietPage
<1>6. ASSUME NEW f \in 1 .. MaxLists, ListFails(f) PROVE FALSE
  BY <1>6, FailsFacts
<1>7. ASSUME NEW kb \in Shelf, Jump(kb) PROVE FALSE
  BY <1>7, JumpFacts
<1>8. ASSUME NEW scope \in {"all", "hard"}, RunEval(scope) PROVE QuietPage
  BY <1>8, RunFacts DEF QuietPage
<1>9. ASSUME StopEval \/ EvalStep PROVE QuietPage
  BY <1>9, StopFacts, StepFacts DEF QuietPage
<1>10. ASSUME UNCHANGED evalVars PROVE QuietPage
  BY <1>10 DEF QuietPage, evalVars
<1> QED
  BY <1>1, <1>2, <1>3, <1>4, <1>5, <1>6, <1>7, <1>8, <1>9, <1>10, QuietClean, AnsweredClean, ShownClean,
     OpenClean, CloseClean DEF EvalNext

\* A run begun with nothing under way scores the cases the library had.
RunInv ==
  run.pc # "idle" =>
    /\ ~run.early /\ Clean /\ run.at = past.writes => run.rows = Runnable(Listed(tab.kb), run.scope)
    /\ Clean => run.about \subseteq {tab.kb}
    /\ run.pc = "report" /\ ~run.stopped => run.scored = run.rows /\ run.about # {}

\* With nothing under way what is shown is the server's.
LEMMA QuietTrue ==
  ASSUME EvalTypes, CleanInv, Quiet
  PROVE  tab.page = Listed(tab.kb) /\ (tab.open => tab.drawer = Listed(tab.kb))
<1>1. /\ \A d \in Desk : calls[d].pc = "none" /\ ~Flips(d) /\ ~Reloads(d)
      /\ \A f \in 1 .. MaxLists : lists[f].pc = "none" /\ ~Tells(f) /\ \A to : ~Fresh(f, to)
  BY NoneShapes DEF Quiet, Flips, Reloads, Tells, Fresh
<1>2. tab.page = Listed(tab.kb)
  BY <1>1 DEF CleanInv, PageOwed
<1>3. ASSUME tab.open PROVE tab.drawer = Listed(tab.kb)
  <2>1. Fits
    BY <1>1, <1>3 DEF CleanInv, DrawerOwed, Renewed, Doomed
  <2>2. tab.drawer \in [Of(tab.kb) -> Rows] /\ tab.kb \in Shelf
    BY <2>1, RowsShape DEF EvalTypes, TabType, Fits
  <2>3. ASSUME NEW i \in Of(tab.kb) PROVE tab.drawer[i] = cases[i]
    <3>1. PICK a \in Rows, b \in Rows : a = tab.drawer[i] /\ b = cases[i]
      BY <2>2, RowShape DEF Of
    <3>2. a.kb = b.kb /\ a.q = b.q /\ a.hard = b.hard /\ a.on = b.on
      BY <1>1, <2>1, <3>1 DEF Fits, SwitchFits
    <3> QED
      BY <3>1, <3>2 DEF Rows
  <2> QED
    BY <2>2, <2>3 DEF Listed
<1> QED
  BY <1>2, <1>3

LEMMA RunNext ==
  ASSUME EvalTypes, PageInv, RunInv, [EvalNext]_evalVars
  PROVE  RunInv'
<1>1. ASSUME UNCHANGED <<cases, tab, run>>, past'.writes = past.writes, past.slips \subseteq past'.slips
      PROVE  RunInv'
  <2>1. Listed(tab.kb)' = Listed(tab.kb)
    BY <1>1, SameListed DEF Listed, Of
  <2>2. Clean' => Clean
    BY <1>1, CleanBefore
  <2> QED
    BY <1>1, <2>1, <2>2 DEF RunInv, Runnable
<1>2. ASSUME UNCHANGED <<cases, run>>, tab'.kb = tab.kb, past'.writes = past.writes, past.slips \subseteq past'.slips
      PROVE  RunInv'
  <2>1. \A kb : Listed(kb)' = Listed(kb)
    BY <1>2, SameListed
  <2>2. Clean' => Clean
    BY <1>2, CleanBefore
  <2>3. Runnable(Listed(tab.kb), run.scope)' = Runnable(Listed(tab.kb), run.scope)
    BY <1>2, <2>1 DEF Runnable
  <2> QED
    BY <1>2, <2>2, <2>3 DEF RunInv
<1>3. ASSUME UNCHANGED run, ~Clean' PROVE RunInv'
  BY <1>3 DEF RunInv
<1>4. ASSUME NEW d \in Desk, Write(d) PROVE RunInv'
  <2>1. UNCHANGED <<tab, run>> /\ past.slips \subseteq past'.slips /\ (Refused(d) \/ Done(d))
    BY <1>4, WriteFacts
  <2>2. CASE Refused(d)
    BY <1>1, <2>1, <2>2 DEF Refused
  <2>3. CASE Done(d)
    <3>1. past'.writes = past.writes + 1 /\ past.writes \in Nat
      BY <2>3 DEF Done, EvalTypes, PastType
    <3>2. run.pc # "idle" => run.at \in Nat /\ run.at <= past.writes
      BY DEF EvalTypes, RunType
    <3>3. run.pc # "idle" => run.at # past'.writes
      BY <3>1, <3>2
    <3>4. Clean' => Clean
      BY <2>1, CleanBefore
    <3> QED
      BY <2>1, <3>3, <3>4 DEF RunInv
  <2> QED
    BY <2>1, <2>2, <2>3
<1>5. ASSUME NEW scope \in {"all", "hard"}, RunEval(scope) PROVE RunInv'
  <2>1. /\ UNCHANGED <<cases, tab, past>>
        /\ run'.pc = "run" /\ run'.scope = scope /\ run'.rows = Runnable(tab.page, scope)
        /\ run'.early = ~Quiet /\ run'.about = {}
    BY <1>5, RunFacts
  <2>2. Listed(tab.kb)' = Listed(tab.kb)
    BY <2>1, SameListed DEF Listed, Of
  <2>3. Clean' => Clean
    BY <2>1 DEF Clean
  <2>4. ~run'.early /\ Clean => tab.page = Listed(tab.kb)
    BY <2>1, QuietTrue DEF PageInv
  <2> QED
    BY <2>1, <2>2, <2>3, <2>4 DEF RunInv, Runnable
<1>6. ASSUME StopEval PROVE RunInv'
  <2>1. /\ UNCHANGED <<cases, tab, past>> /\ run.pc = "run" /\ run'.pc = "run" /\ SameRun /\ run'.about = run.about
    BY <1>6, StopFacts
  <2>2. Runnable(Listed(tab.kb), run.scope)' = Runnable(Listed(tab.kb), run.scope)
    BY <2>1 DEF SameRun, Runnable, Listed, Of
  <2> QED
    BY <2>1, <2>2 DEF RunInv, SameRun, Clean
<1>7. ASSUME EvalStep PROVE RunInv'
  <2>1. /\ UNCHANGED <<cases, tab, past>>
        /\ run.pc = "run" /\ run'.pc \in {"run", "report"} /\ SameRun /\ run'.about = run.about \union {tab.kb}
        /\ run'.pc = "report" /\ ~run'.stopped => run'.scored = run.rows
    BY <1>7, StepFacts
  <2>2. Runnable(Listed(tab.kb), run.scope)' = Runnable(Listed(tab.kb), run.scope)
    BY <2>1 DEF SameRun, Runnable, Listed, Of
  <2> QED
    BY <2>1, <2>2 DEF RunInv, SameRun, Clean
<1>8. ASSUME NEW d \in Desk, Begin(d) \/ Check(d) \/ Unanswered(d) PROVE RunInv'
  BY <1>1, <1>8, BeginFacts, CheckFacts, UnansweredFacts
<1>9. ASSUME NEW d \in Desk, Answered(d) PROVE RunInv'
  <2>1. /\ UNCHANGED <<cases, run>> /\ past'.writes = past.writes /\ past.slips \subseteq past'.slips
        /\ calls[d].pc = "written"
    BY <1>9, AnsweredFacts
  <2>2. CASE Clean'
    <3>1. tab'.kb = tab.kb
      <4>1. calls[d].by \in {"drawer", "page", "other"}
        BY <2>1, CallShape DEF NoCall, Calls
      <4>2. calls[d].by = "drawer" => Flips(d) \/ Reloads(d)
        BY <2>1 DEF Flips, Reloads
      <4> QED
        BY <1>9, <2>2, <4>1, <4>2, AnsweredFacts
    <3> QED
      BY <1>2, <2>1, <3>1
  <2> QED
    BY <1>3, <2>1, <2>2
<1>10. ASSUME NEW f \in 1 .. MaxLists, ReadList(f) \/ ListFails(f) PROVE RunInv'
  BY <1>1, <1>10, ReadFacts, FailsFacts
<1>11. ASSUME NEW f \in 1 .. MaxLists, Shown(f) PROVE RunInv'
  BY <1>2, <1>11, ShownFacts
<1>12. ASSUME NEW kb \in Shelf, Jump(kb) PROVE RunInv'
  BY <1>3, <1>12, JumpFacts
<1>13. ASSUME OpenDrawer \/ CloseDrawer PROVE RunInv'
  BY <1>2, <1>13, OpenFacts, CloseFacts
<1>14. ASSUME UNCHANGED evalVars PROVE RunInv'
  BY <1>1, <1>14 DEF evalVars
<1> QED
  BY <1>4, <1>5, <1>6, <1>7, <1>8, <1>9, <1>10, <1>11, <1>12, <1>13, <1>14 DEF EvalNext

EvalInv == EvalTypes /\ ServerInv /\ PageInv /\ RunInv

LEMMA EvalFirst ==
  ASSUME EvalInit
  PROVE  EvalInv
<1>1. PICK kb \in Shelf, q \in Question :
        /\ tab = [kb |-> kb, open |-> FALSE, page |-> <<>>, pageAt |-> 0, drawer |-> <<>>, drawerAt |-> 0]
        /\ cases = [i \in Id |-> IF i = 1 THEN [kb |-> kb, q |-> q, hard |-> FALSE, on |-> TRUE] ELSE Gone]
        /\ lists = [f \in 1 .. MaxLists |-> IF f = 1 THEN Asking("page", kb, FALSE) ELSE NoList]
  BY DEF EvalInit
<1>2. past.slips = {} /\ run.pc = "idle" /\ \A d \in Desk : calls[d] = NoCall
  BY DEF EvalInit
<1>3. EvalTypes
  BY FirstTypes
<1>4. \A lib \in Shelf : \A i \in Of(lib) : i = 1
  BY <1>1, NoneShapes, EvaluationAssumption DEF Of, Gone
<1>5. ServerInv
  BY <1>2, <1>4, NoneShapes DEF ServerInv, Reaches, QuestionsOnce, StillFree, Bringing
<1>6. Asking("page", kb, FALSE).kb = kb /\ Asking("page", kb, FALSE).pc = "sent" /\ Asking("page", kb, FALSE).to = "page"
  BY AskingTypes
<1>7. 1 \in 1 .. MaxLists
  BY EvaluationAssumption
<1>8. PageInv
  <2>1. Current
    BY <1>1, <1>6, NoneShapes DEF Current
  <2>2. AllHere
    BY <1>1, <1>2, <1>6 DEF AllHere
  <2>3. NoOther
    BY <1>2, NoneShapes DEF NoOther
  <2>4. Fresh(1, "page")
    BY <1>1, <1>6, <1>7 DEF Fresh
  <2>5. PageOwed
    BY <1>7, <2>4 DEF PageOwed
  <2>6. ~tab.open
    BY <1>1
  <2> QED
    BY <2>1, <2>2, <2>3, <2>5, <2>6 DEF PageInv, CleanInv
<1>9. RunInv
  BY <1>2 DEF RunInv
<1> QED
  BY <1>3, <1>5, <1>8, <1>9 DEF EvalInv

LEMMA EvalKeeps ==
  ASSUME EvalInv, [EvalNext]_evalVars
  PROVE  EvalInv'
<1>1. EvalTypes' /\ ServerInv' /\ Current' /\ RunInv'
  BY NextTypes, ServerNext, CurrentNext, RunNext DEF EvalInv, PageInv
<1>2. ASSUME Clean' PROVE CleanInv'
  <2>1. past.slips \subseteq past'.slips
    <3>1. ASSUME NEW d \in Desk, Begin(d) \/ Check(d) \/ Write(d) \/ Answered(d) \/ Unanswered(d)
          PROVE  past.slips \subseteq past'.slips
      BY <3>1, BeginFacts, CheckFacts, WriteFacts, AnsweredFacts, UnansweredFacts DEF EvalInv
    <3>2. ASSUME NEW f \in 1 .. MaxLists, ReadList(f) \/ Shown(f) \/ ListFails(f)
          PROVE  past.slips \subseteq past'.slips
      BY <3>2, ReadFacts, ShownFacts, FailsFacts DEF EvalInv
    <3>3. ASSUME NEW kb \in Shelf, Jump(kb) PROVE past.slips \subseteq past'.slips
      BY <3>3, JumpFacts DEF EvalInv
    <3>4. ASSUME NEW scope \in {"all", "hard"}, RunEval(scope) PROVE past.slips \subseteq past'.slips
      BY <3>4, RunFacts DEF EvalInv
    <3> QED
      BY <3>1, <3>2, <3>3, <3>4, OpenFacts, CloseFacts, StopFacts, StepFacts DEF EvalNext, EvalInv, evalVars
  <2>2. Clean
    BY <1>2, <2>1, CleanBefore
  <2> QED
    BY <1>2, <2>2, CleanNext DEF EvalInv, PageInv
<1> QED
  BY <1>1, <1>2 DEF EvalInv, PageInv

LEMMA EvalSound ==
  ASSUME EvalInv
  PROVE  EvaluationSound
<1>1. QuestionsOnce /\ "astray" \notin past.slips
  BY DEF EvalInv, ServerInv
<1>2. ListsTrue
  BY QuietTrue DEF ListsTrue, EvalInv, PageInv
<1>3. ReportWhole
  <2> SUFFICES ASSUME run.pc = "report", ~run.stopped, ~run.early, Clean, past.writes = run.at
               PROVE  run.scored = Runnable(Listed(tab.kb), run.scope) /\ run.about = {tab.kb}
    BY DEF ReportWhole
  <2> QED
    BY DEF EvalInv, RunInv
<1> QED
  BY <1>1, <1>2, <1>3 DEF EvaluationSound

\* For any number of desks, lists, cases, questions and libraries: a question is
\* in a library once until two calls race; while no jump, no failed list, no lost
\* answer, no write of somebody else and no overtaken answer has happened, the page
\* and the drawer show what the server has once nothing is under way, and the report
\* of an undisturbed run is about the cases of its library that are on; no call
\* reaches the case of another library, whatever has happened
\* (eval-case.service.ts, KnowledgeDetailView.vue, EvalCaseDrawer.vue).
THEOREM EvaluationAlwaysSound == EvalSpec => []EvaluationSound
<1>1. EvalInit => EvalInv
  BY EvalFirst
<1>2. EvalInv /\ [EvalNext]_evalVars => EvalInv'
  BY EvalKeeps
<1>3. EvalInv => EvaluationSound
  BY EvalSound
<1> QED
  BY <1>1, <1>2, <1>3, PTL DEF EvalSpec
=============================================================================
