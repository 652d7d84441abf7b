---------------------------- MODULE CronExplainer ----------------------------
(***************************************************************************)
(* What the backups tab tells of the schedule being typed                  *)
(* (lib/cron-explainer.ts), against what the cron parser of the agent      *)
(* makes of it.  An explanation is modelled by what it says: the minutes,  *)
(* hours and days on which the schedule is claimed to fire.                *)
(*                                                                         *)
(* A field of an expression is "*", a step "*/n", or a list of ranges, a   *)
(* number being the range from it to itself.  Three forms are read by one  *)
(* side only.  parseInt accepts a step with letters behind it.  Number()   *)
(* and split() accept loose lists: nothing for 0 ("1,", "-5"), a third     *)
(* part of a range ("1-2-3"), hexadecimal and fractions ("0x10", "1.5").   *)
(* The parser accepts a range with a step.                                 *)
(*                                                                         *)
(* The sentences speak of UTC, the agent runs in the time of its host      *)
(* (cron.New()), some whole hours ahead of it.                             *)
(***************************************************************************)
EXTENDS Integers

CONSTANTS
  Expressions,   \* the expressions that are typed
  Zones          \* the hours by which the agent's host can be ahead of UTC

Names == {"min", "hour", "dom", "mon", "dow"}

First == [min |-> 0,  hour |-> 0,  dom |-> 1,  mon |-> 1,  dow |-> 0]
Final == [min |-> 59, hour |-> 23, dom |-> 31, mon |-> 12, dow |-> 6]

Star       == [form |-> "star",    n |-> 1, items |-> {}]
Every(n)   == [form |-> "step",    n |-> n, items |-> {}]
Sloppy(n)  == [form |-> "sloppy",  n |-> n, items |-> {}]           \* "*/5min"
Spread(i)  == [form |-> "spread",  n |-> 2, items |-> {i}]          \* "1-9/2"
List(is)   == [form |-> "list",    n |-> 1, items |-> is]
\* A list with loose numbers, as Number() reads them; a fraction is the range around it.
Loose(is)  == [form |-> "loose",   n |-> 1, items |-> is]           \* "1,": 1 and 0
Single(k)  == List({<<k, k>>})

Parts == {Star} \union [form : {"step", "sloppy"}, n : Nat, items : {{}}]
           \union [form : {"spread"}, n : {2}, items : SUBSET (Nat \X Nat)]
           \union [form : {"list", "loose"}, n : {1}, items : SUBSET (Nat \X Nat) \ {{}}]

Schedules == [min : Parts, hour : Parts, dom : Parts, mon : Parts, dow : Parts]

ExplainerConstants == /\ Expressions \subseteq Schedules /\ Expressions # {}
                      /\ Zones \subseteq 0..23

VARIABLES expression, explanation

vars == <<expression, explanation>>

Whole(f) == First[f]..Final[f]

----------------------------------------------------------------------------
(* The agent's parser, and when the schedule fires.                        *)

Parses(e) ==
  \A f \in Names :
    /\ e[f].form \notin {"sloppy", "loose"} /\ e[f].n > 0
    /\ \A i \in e[f].items : First[f] <= i[1] /\ i[1] <= i[2] /\ i[2] <= Final[f]

Times(f, p) ==
  CASE p.form \in {"list", "loose"} -> UNION {i[1]..i[2] : i \in p.items}
    [] p.form = "spread" -> {k \in Whole(f) : \E i \in p.items : k \in i[1]..i[2] /\ (k - i[1]) % p.n = 0}
    [] OTHER             -> {k \in Whole(f) : (k - First[f]) % p.n = 0}

\* In the time of the host.
Runs(e) == [f \in Names |-> Times(f, e[f])]

----------------------------------------------------------------------------
(* The explainer.                                                          *)

\* Mutant of Largest: one too many.
LargestAndOne(f) == Final[f] + 1

\* The largest number isValidPart takes: 7 for Sunday, too.
Largest(f) == IF f = "dow" THEN 7 ELSE Final[f]

InBounds(f, i) == First[f] <= i[1] /\ i[1] <= i[2] /\ i[2] <= Largest(f)

IsValidPart(f, p) ==
  CASE p.form = "star" -> TRUE
    [] p.form \in {"step", "sloppy"} -> 0 < p.n /\ p.n <= Largest(f)
    [] p.form = "spread" -> FALSE
    [] OTHER -> \A i \in p.items : InBounds(f, i)

IsNumber(p) == p.form = "list" /\ \E i \in p.items : p.items = {i} /\ i[1] = i[2]
IsZero(p)   == p = Single(0)
Steps(p)    == p.form \in {"step", "sloppy"}

\* "Every n" is n after the one before it, all around the clock.
Around(f, n) == {(k * n) % (Final[f] + 1) : k \in Whole(f)}

\* A list as it is written; Sunday is 0 and 7.
Literal(f, p) == IF p.form = "star" THEN Whole(f)
                 ELSE IF f = "dow" THEN {k % 7 : k \in Times(f, p)} ELSE Times(f, p)

\* An hour of the day as the explanation writes it, and what it means to a reader.
Twelve(h)       == IF h % 12 = 0 THEN 12 ELSE h % 12
\* Mutant of OnTheClock: noon is in the morning.
OnTheClockLate(h) == [hour |-> Twelve(h), pm |-> h > 12]

OnTheClock(h)   == [hour |-> Twelve(h), pm |-> h >= 12]
ReadOff(t)      == (t.hour % 12) + (IF t.pm THEN 12 ELSE 0)

\* The idioms of "every n" and of a time of the day; the others say what the fields do.
SaidMinutes(e) == IF Steps(e.min) /\ e.hour = Star THEN Around("min", e.min.n)
                  ELSE Literal("min", e.min)

SaidHours(e) ==
  CASE IsZero(e.min) /\ Steps(e.hour)          -> Around("hour", e.hour.n)
    [] IsNumber(e.min) /\ IsNumber(e.hour)     -> {ReadOff(OnTheClock(h)) : h \in Times("hour", e.hour)}
    [] OTHER                                   -> Literal("hour", e.hour)

EveryDay(e) == e.dom = Star /\ e.mon = Star /\ e.dow = Star

\* The sentences that name an hour call it UTC; these name none.
NamesNoHour(e) == \/ e.hour = Star /\ (e.min = Star \/ Steps(e.min))
                  \/ e.hour = Star /\ IsZero(e.min) /\ EveryDay(e)
                  \/ IsZero(e.min) /\ Steps(e.hour)

Explain(e) ==
  [valid |-> \A f \in Names : IsValidPart(f, e[f]),
   utc   |-> ~NamesNoHour(e),
   at    |-> [f \in Names |-> CASE f = "min"  -> SaidMinutes(e)
                                [] f = "hour" -> SaidHours(e)
                                [] OTHER      -> Literal(f, e[f])]]

Type(e) == /\ expression' = e
           /\ explanation' = Explain(e)

Init == \E e \in Expressions : expression = e /\ explanation = Explain(e)

Next == \E e \in Expressions : Type(e)

Spec == Init /\ [][Next]_vars

----------------------------------------------------------------------------
(* Properties.                                                             *)

\* A step that does not divide the hour or the day starts over at its end.
Uneven(e) == \/ Steps(e.min)  /\ 60 % e.min.n # 0
             \/ Steps(e.hour) /\ 24 % e.hour.n # 0

\* A day of the month and one of the week: cron fires on either, the explanation joins them.
BothDays(e) == e.dom # Star /\ e.dow # Star

\* What was said of hours in UTC, on the clock of a host that is z hours ahead of it.
HostTime(x, z) ==
  IF x.utc THEN [x.at EXCEPT !["hour"] = {(h + z) % 24 : h \in @}] ELSE x.at

\* On a host that does not run in UTC, an hour of the day that is named is not meant.
NamesTheHour(e) == ~NamesNoHour(e) /\ ~(e.hour = Star /\ EveryDay(e))

\* Wherever the agent runs, what is explained is what will run, but for uneven steps, for
\* both kinds of day, and for hours that are named on a host that does not run in UTC.
ExplanationIsHonest ==
  \A z \in Zones :
    /\ explanation.valid /\ Parses(expression)
    /\ ~Uneven(expression) /\ ~BothDays(expression)
    /\ z = 0 \/ ~NamesTheHour(expression)
    => HostTime(explanation, z) = Runs(expression)

\* The agent takes every schedule the page lets the user save, except for the number
\* 7 for Sunday, steps with letters behind them, and loose numbers.
ExplainedIsTaken ==
  (explanation.valid /\ ~Parses(expression)) =>
    \/ \E i \in expression.dow.items : i[2] = 7
    \/ \E f \in Names : expression[f].form \in {"sloppy", "loose"}
=============================================================================
