-------------------------------- MODULE Cron --------------------------------
(***************************************************************************)
(* Cron expressions of package util/timer: parsing a text into six sets of *)
(* numbers, and the search for the next second they match.                 *)
(*                                                                         *)
(* The calendar is the code's with other lengths.  A time is the number of *)
(* seconds since its first day began.  A bit field is the set of its bits, *)
(* a text the sequence of its fields, a field the sequence of its parts    *)
(* (between commas), a part from-to/incr a record.                         *)
(***************************************************************************)
EXTENDS Integers, Sequences, SequencesExt, FiniteSets

CONSTANTS
  MinuteLen,   \* seconds of a minute
  HourLen,     \* minutes of an hour
  DayLen,      \* hours of a day
  WeekLen,     \* days of a week
  MonthDays,   \* days of the months; the second one is longer in leap years
  LeapEvery,   \* every such year is one
  ZoneShift,   \* by how many seconds local time is ahead
  CronTexts,   \* the texts parsed
  CronStarts,  \* the times searched from
  CronYears    \* the years of the calendar

ASSUME CronAssumption ==
  /\ {MinuteLen, HourLen, DayLen, WeekLen, LeapEvery, CronYears} \subseteq Nat \ {0}
  /\ MonthDays \in Seq(Nat \ {0}) /\ Len(MonthDays) > 1 /\ ZoneShift \in Nat

VARIABLE cron   \* text, the expression, start, t, year, initFlag and stage; <<>> for none

\* time.Time.
HourSecs == HourLen * MinuteLen
DaySecs == DayLen * HourSecs
Months == 1..Len(MonthDays)
MonthLen(y, m) == MonthDays[m] + (IF m = 2 /\ y % LeapEvery = 0 THEN 1 ELSE 0)
MaxDay == MonthLen(LeapEvery, CHOOSE m \in Months :
                     \A k \in Months : MonthLen(LeapEvery, k) <= MonthLen(LeapEvery, m))
Dates ==
  FlattenSeq([y \in 1..CronYears |->
    FlattenSeq([m \in Months |->
      [d \in 1..MonthLen(y, m) |-> [year |-> y, month |-> m, day |-> d]]])])
DateOf(t) == Dates[(t \div DaySecs) + 1]
Weekday(t) == (t \div DaySecs) % WeekLen
Hour(t) == (t % DaySecs) \div HourSecs
Minute(t) == (t % HourSecs) \div MinuteLen
Second(t) == t % MinuteLen
Midnight(t) == t - (t % DaySecs)
FirstOfMonth(t) == Midnight(t) - (DateOf(t).day - 1) * DaySecs
AddMonth(t) == t + MonthLen(DateOf(t).year, DateOf(t).month) * DaySecs
\* Truncate counts in absolute time.
Truncate(t, len) == t - ((t - ZoneShift) % len)
-----------------------------------------------------------------------------
Star == -2     \* "*"
Absent == -1   \* no such part of the text
Bad == -3      \* a text that is no number
CronError == {Bad}

\* One part of parseCronField: its range and increment.
PartStart(p, min) == IF p.from = Star THEN min ELSE p.from
PartEnd(p, max) ==
  IF p.from = Star \/ (p.to = Absent /\ p.incr # Absent) THEN max
  ELSE IF p.to = Absent THEN p.from ELSE p.to
PartValid(p, min, max) ==
  /\ Bad \notin {p.from, p.to, p.incr}
  /\ p.from = Star => p.to = Absent
  /\ min <= PartStart(p, min) /\ PartStart(p, min) <= PartEnd(p, max) /\ PartEnd(p, max) <= max
  /\ p.incr = Absent \/ p.incr > 0
PartBits(p, min, max) ==
  {v \in PartStart(p, min)..PartEnd(p, max) :
     p.incr = Absent \/ (v - PartStart(p, min)) % p.incr = 0}

parseCronField(field, min, max) ==
  IF \E i \in DOMAIN field : ~PartValid(field[i], min, max) THEN CronError
  ELSE UNION {PartBits(field[i], min, max) : i \in DOMAIN field}

\* The fields and their ranges: seconds, minutes, hours, day of month, month, day
\* of week.
FieldRange ==
  << <<0, MinuteLen - 1>>, <<0, HourLen - 1>>, <<0, DayLen - 1>>,
     <<1, MaxDay>>, <<1, Len(MonthDays)>>, <<0, WeekLen - 1>> >>

\* Five fields are six with "0" for the seconds.
NewCronExpr(text) ==
  LET six == IF Len(text) = 5 THEN << <<[from |-> 0, to |-> Absent, incr |-> Absent]>> >> \o text
             ELSE text
      Set(i) == IF Len(text) \notin {5, 6} THEN CronError
                ELSE parseCronField(six[i], FieldRange[i][1], FieldRange[i][2])
  IN  [sec |-> Set(1), min |-> Set(2), hour |-> Set(3), dom |-> Set(4), month |-> Set(5), dow |-> Set(6)]

matchDay(e, t) ==
  IF e.dom = 1..MaxDay THEN Weekday(t) \in e.dow
  ELSE IF e.dow = 0..(WeekLen - 1) THEN DateOf(t).day \in e.dom
  ELSE Weekday(t) \in e.dow \/ DateOf(t).day \in e.dom

CronInit ==
  \E text \in CronTexts, start \in CronStarts :
    cron = [text |-> text, expr |-> <<>>, start |-> start, t |-> start, year |-> 0,
            initFlag |-> FALSE, stage |-> "text"]

Parse ==
  /\ cron.stage = "text"
  /\ LET e == NewCronExpr(cron.text) IN
     cron' = IF \E f \in DOMAIN e : e[f] = CronError THEN [cron EXCEPT !.stage = "error"]
             ELSE [cron EXCEPT !.expr = e, !.stage = "search",
                               !.t = cron.start + 1, !.year = DateOf(cron.start + 1).year]

\* The larger fields match, in the order in which Next looks at them; they still do
\* after a step that is not followed by retry.
Reaches(field) ==
  LET e == cron.expr  t == cron.t IN
  /\ cron.stage = "search"
  /\ DateOf(t).year <= cron.year + 1
  /\ field > 1 => DateOf(t).month \in e.month
  /\ field > 2 => matchDay(e, t)
  /\ field > 3 => Hour(t) \in e.hour
  /\ field > 4 => Minute(t) \in e.min
  /\ field > 5 => Second(t) \in e.sec

\* The first field that does not match is reset with all that are smaller, once, and
\* then moved on.  (Mutant: the hour moves on with the minutes it has.)
MoveOn(reset, by) == cron' = [cron EXCEPT !.initFlag = TRUE, !.t = (IF cron.initFlag THEN @ ELSE reset) + by]
NextMonth ==
  /\ Reaches(1) /\ DateOf(cron.t).month \notin cron.expr.month
  /\ cron' = [cron EXCEPT !.initFlag = TRUE,
                          !.t = AddMonth(IF cron.initFlag THEN @ ELSE FirstOfMonth(@))]
NextDay ==
  /\ Reaches(2) /\ ~matchDay(cron.expr, cron.t)
  /\ MoveOn(Midnight(cron.t), DaySecs)
KeepsMinutes ==
  /\ Reaches(3) /\ Hour(cron.t) \notin cron.expr.hour
  /\ MoveOn(cron.t, HourSecs)
NextHour ==
  /\ Reaches(3) /\ Hour(cron.t) \notin cron.expr.hour
  /\ MoveOn(Truncate(cron.t, HourSecs), HourSecs)
NextMinute ==
  /\ Reaches(4) /\ Minute(cron.t) \notin cron.expr.min
  /\ MoveOn(Truncate(cron.t, MinuteLen), MinuteLen)
NextSecond ==
  /\ Reaches(5) /\ Second(cron.t) \notin cron.expr.sec
  /\ MoveOn(cron.t, 1)
Found == Reaches(6) /\ cron' = [cron EXCEPT !.stage = "found"]
\* The end of the next year: the zero time.
GivesUp ==
  /\ cron.stage = "search" /\ DateOf(cron.t).year > cron.year + 1
  /\ cron' = [cron EXCEPT !.stage = "none"]

CronNext ==
  Parse \/ NextMonth \/ NextDay \/ NextHour \/ NextMinute \/ NextSecond \/ Found \/ GivesUp
-----------------------------------------------------------------------------
\* A second that the expression names.  The day is named by both day fields when one
\* of them names every day, by either otherwise.
Due(e, t) ==
  LET dom == DateOf(t).day \in e.dom
      dow == Weekday(t) \in e.dow
  IN  /\ Second(t) \in e.sec /\ Minute(t) \in e.min /\ Hour(t) \in e.hour
      /\ DateOf(t).month \in e.month
      /\ IF e.dom = 1..MaxDay \/ e.dow = 0..(WeekLen - 1) THEN dom /\ dow ELSE dom \/ dow

(* CronExpr.Next finds the first second after start that the expression    *)
(* names: it passes over none on its way, whatever it reset and carried,   *)
(* over the ends of months of any length and of years, and gives up only   *)
(* when this year and the next have none.                                  *)
FirstDueFound ==
  cron # <<>> /\ cron.stage \in {"search", "found", "none"} =>
    /\ \A t \in (cron.start + 1)..(cron.t - 1) : ~Due(cron.expr, t)
    /\ cron.stage = "found" => cron.t > cron.start /\ Due(cron.expr, cron.t)
=============================================================================
