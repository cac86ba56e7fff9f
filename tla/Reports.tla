------------------------------- MODULE Reports -------------------------------
(* The figures of cost and of feedback, which several statements read while   *)
(* questions are answered, and the page that shows them for a range of days   *)
(* and turns answers that were disliked into test questions.                  *)
EXTENDS Integers, FiniteSets

CONSTANTS
  Asker, Model,  \* users, and models that answer
  NoDept,        \* the department of a user without one
  DeptOf,
  Library, NoLibrary,
  PerDay,        \* moments of a day that are told apart
  Span,         \* the ranges of the page, in days
  Default,       \* the one it opens with
  MaxNow,        \* bound: the last moment
  MaxAnswers,    \* bound: answers
  MaxRows,       \* answers that are listed as disliked
  LongFrom,      \* questions from this one on are longer than what is listed
  MaxLoads       \* bound: loads of the page

ASSUME ReportAssumption ==
  /\ DeptOf \in [Asker -> {"sales", NoDept}] /\ NoLibrary \notin Library
  /\ Default \in Span /\ Span \subseteq Nat \ {0} /\ PerDay \in Nat \ {0}
  /\ {MaxNow, MaxAnswers, MaxRows, LongFrom, MaxLoads} \subseteq Nat

VARIABLES
  answers, \* the answers, by numbers; of each also its question's
  daily,   \* daily_stats
  now,
  cases,   \* questions of hard cases, with their library
  shelves, \* libraries that are there
  screen,   \* the range, the figures shown, the loads on their way
  reflow,  \* the form, the libraries it offers, the case that is sent
  history     \* loads and cases so far, and what excuses a difference

reportVars == <<answers, daily, now, cases, shelves, screen, reflow, history>>

Day == 0 .. MaxNow \div PerDay
DayOf(moment) == moment \div PerDay
NoFigures == [range |-> 0]

\* A question as the list has it: the first 200 characters.
Listed(n) == IF n >= LongFrom THEN <<n, "cut">> ELSE <<n, "whole">>

ReportsType ==
  /\ \A a \in answers : a.by \in Asker /\ a.model \in Model /\ a.made \in 0 .. MaxNow /\ a.kb \in Library \union {NoLibrary}
  /\ \A d \in Day : daily[d].questions \in 0 .. MaxAnswers /\ daily[d].tokens \in 0 .. daily[d].questions
  /\ cases \subseteq {<<l, Listed(n)>> : l \in Library, n \in 1 .. MaxAnswers}
  /\ screen.range \in Span /\ reflow.kb \in Library \union {NoLibrary}

-----------------------------------------------------------------------------
(* StatsService                                                             *)

\* Two windows: days of 24 hours back from now, and days of the calendar.
InRange(days) == {a \in answers : a.done /\ a.made >= now - PerDay * days}
DaysBack(days) == {d \in Day : d >= DayOf(now) - (days - 1)}

\* Answers of the cache cost nothing; any other one token.
Paid(days) == {a \in InRange(days) : ~a.hit}

\* The answers of a set, counted by a field.
Grouped(S, f) == [k \in {f[a] : a \in S} |-> Cardinality({a \in S : f[a] = k})]

ByModel(days) == Grouped(Paid(days), [a \in answers |-> a.model])
ByUser(days) == Grouped(Paid(days), [a \in answers |-> a.by])
\* Users without a department count as one.  The mutant leaves them out.
ByDeptNamed(days) == Grouped({a \in Paid(days) : DeptOf[a.by] # NoDept}, [a \in answers |-> DeptOf[a.by]])
ByDept(days) == Grouped(Paid(days), [a \in answers |-> DeptOf[a.by]])
CacheSaved(days) == Cardinality({a \in InRange(days) : a.hit})

\* As many as there are things counted.
Counted(f) == UNION {{k} \X (1 .. f[k]) : k \in DOMAIN f}
Sum(f) == Cardinality(Counted(f))
Trend(days) == [d \in DaysBack(days) |-> daily[d].tokens]
Total == Sum([d \in Day |-> daily[d].tokens])

Summary(days) == [total |-> Cardinality(InRange(days)),
                  likes |-> Cardinality({a \in InRange(days) : a.mark = "like"}),
                  dislikes |-> Cardinality({a \in InRange(days) : a.mark = "dislike"})]

\* The latest, whatever the range; and whether the whole question is a hard case
\* of any library.
Disliked ==
  LET all == {a \in answers : a.mark = "dislike"} IN
    {[n |-> a.n, kb |-> a.kb, reflowed |-> \E l \in Library : <<l, <<a.n, "whole">>>> \in cases] :
       a \in {b \in all : Cardinality({c \in all : c.n > b.n}) < MaxRows}}

Cost(days) == [byModel |-> ByModel(days), byUser |-> ByUser(days), byDept |-> ByDept(days),
               saved |-> CacheSaved(days), trend |-> Trend(days), total |-> Total]

-----------------------------------------------------------------------------
(* What the figures are about                                               *)

\* A write or a change of the time between the statements of a load: its figures
\* are torn.
Torn == [l \in DOMAIN screen.loads |-> IF screen.loads[l].pc = "reading" THEN [screen.loads[l] EXCEPT !.torn = TRUE]
                                      ELSE screen.loads[l]]
Written == screen' = [screen EXCEPT !.loads = Torn]

Ask ==
  /\ history.asked < MaxAnswers /\ history' = [history EXCEPT !.asked = @ + 1]
  /\ \E by \in Asker, model \in Model, hit \in BOOLEAN, kb \in Library \union {NoLibrary} :
       answers' = answers \union {[n |-> history.asked + 1, by |-> by, model |-> model, hit |-> hit, kb |-> kb,
                                   made |-> now, done |-> FALSE, counted |-> FALSE, mark |-> "none"]}
  /\ Written /\ UNCHANGED <<daily, now, cases, shelves, reflow>>

Becomes(a, b) == answers' = (answers \ {a}) \union {b}

Done(a) == /\ a \in answers /\ ~a.done /\ Becomes(a, [a EXCEPT !.done = TRUE])
           /\ Written /\ UNCHANGED <<daily, now, cases, shelves, reflow, history>>

\* The day is that of the end of the answer.
CountDaily(a) ==
  /\ a \in answers /\ a.done /\ ~a.counted /\ Becomes(a, [a EXCEPT !.counted = TRUE])
  /\ daily' = [daily EXCEPT ![DayOf(now)] = [questions |-> daily[DayOf(now)].questions + 1,
                                             tokens |-> daily[DayOf(now)].tokens + IF a.hit THEN 0 ELSE 1]]
  /\ history' = [history EXCEPT !.apart = @ \/ DayOf(a.made) # DayOf(now)]
  /\ Written /\ UNCHANGED <<now, cases, shelves, reflow>>

Feedback(a, mark) ==
  /\ a \in answers /\ a.done /\ a.mark # mark /\ Becomes(a, [a EXCEPT !.mark = mark])
  /\ Written /\ UNCHANGED <<daily, now, cases, shelves, reflow, history>>

\* A conversation is deleted with its answers; the days keep their counts.
Delete == /\ answers # {} /\ answers' = {} /\ history' = [history EXCEPT !.apart = TRUE]
          /\ Written /\ UNCHANGED <<daily, now, cases, shelves, reflow>>

TimePasses == now < MaxNow /\ now' = now + 1 /\ Written /\ UNCHANGED <<answers, daily, cases, shelves, reflow, history>>

DropLibrary == /\ \E l \in shelves : shelves' = shelves \ {l} /\ cases' = {c \in cases : c[1] # l}
               /\ history' = [history EXCEPT !.slip = TRUE]
               /\ Written /\ UNCHANGED <<answers, daily, now, reflow>>

-----------------------------------------------------------------------------
(* AnalyticsView.vue: loadAll                                               *)

LoadStarted(range) ==
  LET n == history.loads + 1 IN
  [range |-> range, shown |-> screen.shown,
   loads |-> [k \in DOMAIN screen.loads \union {n} |->
                IF k = n THEN [pc |-> "sent", range |-> range, torn |-> FALSE] ELSE screen.loads[k]]]

LoadAll(range) ==
  /\ history.loads < MaxLoads /\ screen' = LoadStarted(range) /\ history' = [history EXCEPT !.loads = @ + 1]
  /\ (range = screen.range => history.loads = 0) /\ UNCHANGED <<answers, daily, now, cases, shelves, reflow>>

BeginRead(l) ==
  /\ screen.loads[l].pc = "sent" /\ screen' = [screen EXCEPT !.loads[l].pc = "reading"]
  /\ UNCHANGED <<answers, daily, now, cases, shelves, reflow, history>>

EndRead(l) ==
  LET r == screen.loads[l].range IN
  /\ screen.loads[l].pc = "reading"
  /\ screen' = [screen EXCEPT !.loads[l] =
       [pc |-> "read", range |-> r, rows |-> Disliked, torn |-> screen.loads[l].torn,
        cost |-> IF screen.loads[l].torn THEN NoFigures ELSE Cost(r),
        summary |-> IF screen.loads[l].torn THEN NoFigures ELSE Summary(r)]]
  /\ UNCHANGED <<answers, daily, now, cases, shelves, reflow, history>>

Without(l) == [k \in DOMAIN screen.loads \ {l} |-> screen.loads[k]]

\* Whatever range was asked for last.
ShowFigures(l) ==
  /\ screen.loads[l].pc = "read"
  /\ screen' = [screen EXCEPT !.shown = screen.loads[l], !.loads = Without(l)]
  /\ history' = [history EXCEPT !.slip = @ \/ \E k \in DOMAIN screen.loads : k < l \/ screen.range # screen.loads[l].range]
  /\ UNCHANGED <<answers, daily, now, cases, shelves, reflow>>

FiguresFail(l) ==
  /\ screen' = [screen EXCEPT !.loads = Without(l)] /\ history' = [history EXCEPT !.slip = TRUE]
  /\ UNCHANGED <<answers, daily, now, cases, shelves, reflow>>

-----------------------------------------------------------------------------
(* AnalyticsView.vue: openReflow and submitReflow                           *)

\* A library that is not offered gives way to the first that is.
Offered(kb, offers) ==
  IF kb \in offers \union {NoLibrary} THEN kb ELSE IF offers = {} THEN NoLibrary ELSE CHOOSE l \in offers : TRUE

OpenReflow(row) ==
  /\ ~reflow.open /\ ~row.reflowed
  /\ reflow' = [reflow EXCEPT !.open = TRUE, !.n = row.n, !.waits = reflow.offers = {},
                  !.kb = IF reflow.offers = {} THEN row.kb ELSE Offered(row.kb, reflow.offers)]
  /\ UNCHANGED <<answers, daily, now, cases, shelves, screen, history>>

\* The form as it is by then.
OptionsCome ==
  /\ reflow.waits
  /\ \E offers \in {shelves, {}} : reflow' = [reflow EXCEPT !.waits = FALSE, !.offers = offers, !.kb = Offered(reflow.kb, offers)]
  /\ UNCHANGED <<answers, daily, now, cases, shelves, screen, history>>

ChooseLibrary == /\ reflow.open /\ \E l \in reflow.offers \ {reflow.kb} : reflow' = [reflow EXCEPT !.kb = l]
                 /\ UNCHANGED <<answers, daily, now, cases, shelves, screen, history>>
CloseReflow == /\ reflow.open /\ reflow' = [reflow EXCEPT !.open = FALSE]
               /\ UNCHANGED <<answers, daily, now, cases, shelves, screen, history>>

\* The case has the question as the list has it.
SubmitReflow ==
  /\ reflow.open /\ reflow.kb # NoLibrary /\ reflow.pc = "none" /\ history.loads < MaxLoads
  /\ reflow' = [reflow EXCEPT !.pc = "sent", !.sent = <<reflow.kb, Listed(reflow.n)>>]
  /\ UNCHANGED <<answers, daily, now, cases, shelves, screen, history>>

\* Refused when the library is gone or has the question.
CreateCase ==
  /\ reflow.pc = "sent"
  /\ IF reflow.sent[1] \notin shelves \/ reflow.sent \in cases
     THEN reflow' = [reflow EXCEPT !.pc = "none"] /\ UNCHANGED <<cases, screen>>
     ELSE reflow' = [reflow EXCEPT !.pc = "made"] /\ cases' = cases \union {reflow.sent} /\ Written
  /\ UNCHANGED <<answers, daily, now, shelves, history>>

\* The form that is open by now is closed, and everything loaded again.
CaseMade ==
  /\ reflow.pc = "made" /\ reflow' = [reflow EXCEPT !.pc = "none", !.open = FALSE]
  /\ screen' = LoadStarted(screen.range)
  /\ history' = [history EXCEPT !.loads = @ + 1, !.made = @ \union {reflow.sent[2]}]
  /\ UNCHANGED <<answers, daily, now, cases, shelves>>

-----------------------------------------------------------------------------
ReportsInit ==
  /\ answers = {} /\ daily = [d \in Day |-> [questions |-> 0, tokens |-> 0]] /\ now = 0
  /\ cases = {} /\ shelves = Library
  /\ screen = [range |-> Default, loads |-> <<>>, shown |-> NoFigures]
  /\ reflow = [open |-> FALSE, n |-> 0, kb |-> NoLibrary, waits |-> FALSE, offers |-> {}, pc |-> "none", sent |-> <<>>]
  /\ history = [asked |-> 0, loads |-> 0, made |-> {}, apart |-> FALSE, slip |-> FALSE]

ReportsNext ==
  \/ Ask \/ Delete \/ TimePasses \/ DropLibrary
  \/ \E a \in answers : Done(a) \/ CountDaily(a) \/ \E mark \in {"none", "like", "dislike"} : Feedback(a, mark)
  \/ \E range \in Span : LoadAll(range)
  \/ \E l \in DOMAIN screen.loads : BeginRead(l) \/ EndRead(l) \/ ShowFigures(l) \/ FiguresFail(l)
  \/ screen.shown # NoFigures /\ \E row \in screen.shown.rows : OpenReflow(row)
  \/ OptionsCome \/ ChooseLibrary \/ CloseReflow \/ SubmitReflow \/ CreateCase \/ CaseMade

ReportsSpec == ReportsInit /\ [][ReportsNext]_reportVars

-----------------------------------------------------------------------------
(* Properties                                                               *)

\* Figures that were not torn agree: the three ways to divide the cost have one
\* sum, with the hits of the cache they are all the answers; the days of the
\* calendar are within the hours counted back, unless an answer went over
\* midnight or was deleted.
FiguresAgree ==
  screen.shown # NoFigures /\ ~screen.shown.torn =>
    LET c == screen.shown.cost IN
    /\ Sum(c.byModel) = Sum(c.byUser) /\ Sum(c.byModel) = Sum(c.byDept)
    /\ Sum(c.byModel) + c.saved = screen.shown.summary.total
    /\ Sum(c.trend) <= c.total
    /\ history.apart \/ Sum(c.trend) <= Sum(c.byModel)

\* With no load under way, none so far that failed or came out of order, and no
\* library dropped, the figures are of the range, and an answer whose question
\* became a case uncut is marked so.
BoardOwn ==
  screen.shown # NoFigures /\ DOMAIN screen.loads = {} /\ ~history.slip =>
    /\ screen.shown.range = screen.range
    /\ \A row \in screen.shown.rows : <<row.n, "whole">> \in history.made => row.reflowed

\* stats.service.ts cost, feedback; AnalyticsView.vue loadAll, submitReflow.
ReportsTrue == FiguresAgree /\ BoardOwn
=============================================================================
