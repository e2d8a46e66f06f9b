------------------------------ MODULE Calendar ------------------------------
(***************************************************************************)
(* Dates, instants and the half-open windows that the listing, the summary *)
(* and the calendar of daily counts ask the database for.  An instant is a *)
(* date and a time of day; of the times the windows tell apart only        *)
(* midnight (0) and everything after it (1).                               *)
(***************************************************************************)
EXTENDS Integers

Date(y, m, d) == [y |-> y, m |-> m, d |-> d]
Instant(date, time) == [date |-> date, time |-> time]

(* A date cast to a timestamp is its midnight. *)
Midnight(date) == Instant(date, 0)

IsLeap(y) == y % 4 = 0 /\ (y % 100 # 0 \/ y % 400 = 0)

DaysInMonthByTable(y, m) == IF m = 2 THEN 28 ELSE IF m \in {4, 6, 9, 11} THEN 30 ELSE 31

(* calendar.monthrange *)
DaysInMonth(y, m) == IF m = 2 THEN (IF IsLeap(y) THEN 29 ELSE 28)
                     ELSE IF m \in {4, 6, 9, 11} THEN 30 ELSE 31

LastDate == Date(9999, 12, 31)

Dates == {date \in [y: Nat, m: 1..12, d: 1..31] : date.d <= DaysInMonth(date.y, date.m)}
Instants == [date: Dates, time: {0, 1}]

(* Days are numbered so that the order of the numbers is that of the dates. *)
Number(date) == (date.y * 16 + date.m) * 32 + date.d
Before(s, t) == 2 * Number(s.date) + s.time < 2 * Number(t.date) + t.time

(* date + timedelta(days=1); there is none after LastDate.                 *)
NextDay(date) ==
  IF date.d < DaysInMonth(date.y, date.m) THEN [date EXCEPT !.d = @ + 1]
  ELSE IF date.m < 12 THEN Date(date.y, date.m + 1, 1)
  ELSE Date(date.y + 1, 1, 1)

(* A window [since, until). *)
Window(since, until) == [since |-> Midnight(since), until |-> Midnight(until)]
Inside(t, window) == ~Before(t, window.since) /\ Before(t, window.until)

YearWindow(y) == Window(Date(y, 1, 1), Date(y + 1, 1, 1))

MonthWindow(y, m) ==
  Window(Date(y, m, 1), IF m = 12 THEN Date(y + 1, 1, 1) ELSE Date(y, m + 1, 1))

UpToMidnight(from, to) == Window(from, to)     \* bug: created_at <= created_to

(* Both ends included, as the caller of the listing sees them.             *)
Days(from, to) == Window(from, NextDay(to))

============================================================================
