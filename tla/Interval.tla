------------------------------ MODULE Interval ------------------------------
(***************************************************************************)
(* How the interval of a subscription gets into a row of PostgreSQL and back *)
(* (DurationValuer, storage/postgres/db.go).                                *)
(*                                                                         *)
(* The text of an interval is a sequence of parts, what is between its       *)
(* blanks: a number, the word of a unit, or a time of hours, minutes and     *)
(* seconds.  A duration is counted in hours and milliseconds, because the    *)
(* checker's integers are small; rest is what it has below a millisecond.    *)
(* Negative durations, and those of more than 292 years, are not            *)
(* written: DurationValuer is not made for them.                            *)
(***************************************************************************)
EXTENDS Integers, Sequences

CONSTANTS
    Durations,  \* intervals of subscriptions
    Intervals   \* values of PostgreSQL: months, days, and a time

Sign(n) == IF n < 0 THEN -1 ELSE 1
Abs(n)  == Sign(n) * n

Hour == 60 * 60 * 1000  \* in milliseconds

VARIABLES
    written,    \* the duration the column was written from, if AddSubscription wrote it
    column,     \* the column interval of a row
    read        \* what FindBySubscriber has made of it

intervalVars == <<written, column, read>>

ASSUME IntervalAssumption ==
    /\ Durations \subseteq [hours : Nat, ms : 0..Hour - 1, rest : {0, 1}]
    /\ Intervals \subseteq [months : Int, days : Int, hours : Int, ms : 1 - Hour..Hour - 1]
    /\ \A i \in Intervals : i.hours # 0 => Sign(i.hours) * i.ms >= 0

Error == [kind |-> "error"]

Number(n)  == [kind |-> "number", n |-> n]
Unit(word) == [kind |-> "unit", word |-> word]
HMS(sign, hours, minutes, seconds, ms) ==
    [kind |-> "time", sign |-> sign, hours |-> hours, minutes |-> minutes,
     seconds |-> seconds, ms |-> ms]

\* Mutant: minutes and seconds are counted from the beginning.
ValueTotals(d) == <<HMS(1, d.hours, d.ms \div 60000, d.ms \div 1000, d.ms % 1000)>>

\* marshalForIntervalStyle.
Value(d) ==
    <<HMS(1, d.hours, (d.ms \div 60000) % 60, (d.ms \div 1000) % 60, d.ms % 1000)>>

----------------------------------------------------------------------------
(* PostgreSQL, with the interval style postgres.                            *)

\* What is below the hours.
BelowHours(t) == t.sign * ((t.minutes * 60 + t.seconds) * 1000 + t.ms)

\* It takes a time whose minutes and seconds are below 60.
Accepted(text) == text[1].minutes < 60 /\ text[1].seconds < 60

Input(text) ==
    [months |-> 0, days |-> 0, hours |-> text[1].hours, ms |-> BelowHours(text[1])]

\* It leaves out what is 0, unless everything is, and has one sign for the time.
Output(i) ==
    LET sign  == IF i.hours < 0 \/ i.ms < 0 THEN -1 ELSE 1
        ms    == sign * i.ms
        years == Sign(i.months) * (Abs(i.months) \div 12)
        Field(n, word) == IF n = 0 THEN <<>> ELSE <<Number(n), Unit(word)>>
        date  == Field(years, "year") \o Field(i.months - 12 * years, "mon") \o Field(i.days, "day")
        time  == <<HMS(sign, sign * i.hours, ms \div 60000, (ms \div 1000) % 60, ms % 1000)>>
    IN  IF i.hours = 0 /\ i.ms = 0 /\ date # <<>> THEN date ELSE date \o time

----------------------------------------------------------------------------
(* unmarshalForIntervalStyle: its loop over the parts of the text.          *)

HoursOf == [year |-> 24 * 365, mon |-> 24 * 30, day |-> 24]

\* state: what was found last; "done" and "failed" return.
Start == [state |-> "start", value |-> 0, hours |-> 0, ms |-> 0]

Fail(acc) == [acc EXCEPT !.state = "failed"]

ParseTime(acc, part) ==
    [acc EXCEPT !.state = "done",
                !.hours = @ + part.sign * part.hours,
                !.ms    = BelowHours(part)]

\* Mutant: the unit is not remembered, so that nothing may follow it.
ParseForgets(acc, part) ==
    CASE acc.state \in {"done", "failed"} -> acc
      [] part.kind = "number" -> [acc EXCEPT !.state = "number", !.value = part.n]
      [] part.kind = "unit"   -> [acc EXCEPT !.hours = @ + acc.value * HoursOf[part.word]]
      [] OTHER                -> IF acc.state = "number" THEN Fail(acc) ELSE ParseTime(acc, part)

Parse(acc, part) ==
    CASE acc.state \in {"done", "failed"} -> acc
      [] part.kind = "number" ->
             IF acc.state = "number"
             THEN Fail(acc)
             ELSE [acc EXCEPT !.state = "number", !.value = part.n]
      [] part.kind = "unit" ->
             IF acc.state # "number"
             THEN Fail(acc)
             ELSE [acc EXCEPT !.state = "unit", !.hours = @ + acc.value * HoursOf[part.word]]
      [] part.kind = "time" ->
             IF acc.state = "number" THEN Fail(acc) ELSE ParseTime(acc, part)

\* What has been found in the first n parts.
Scanned(text) ==
    LET acc[n \in 0..Len(text)] == IF n = 0 THEN Start ELSE Parse(acc[n - 1], text[n])
    IN  acc

\* The end is no place for a number, and a time at the beginning is all there is.
Scan(text) ==
    LET acc == Scanned(text)[Len(text)]
    IN  IF \/ acc.state \in {"failed", "number"}
           \/ text[1].kind = "time" /\ Len(text) > 1
        THEN {Error}
        ELSE {[hours |-> acc.hours, ms |-> acc.ms]}

----------------------------------------------------------------------------
(* A row.  Each variable is a set: {} is no value, {Error} that there is     *)
(* none because of an error.                                                *)

IntervalInit == written = {} /\ column = {} /\ read = {}

\* AddSubscription, which fails when PostgreSQL does not take the text.
WriteInterval(d) ==
    /\ column = {}
    /\ written' = {d}
    /\ column' = IF Accepted(Value(d)) THEN {Input(Value(d))} ELSE {Error}
    /\ UNCHANGED read

\* Whoever else fills the table.
OtherInterval(i) ==
    /\ column = {}
    /\ column' = {i}
    /\ UNCHANGED <<written, read>>

ReadInterval ==
    /\ column \notin {{}, {Error}}
    /\ read' = UNION {Scan(Output(i)) : i \in column}
    /\ UNCHANGED <<written, column>>

IntervalNext ==
    \/ \E d \in Durations : WriteInterval(d)
    \/ \E i \in Intervals : OtherInterval(i)
    \/ ReadInterval

IntervalSpec == IntervalInit /\ [][IntervalNext]_intervalVars
----------------------------------------------------------------------------
\* PostgreSQL takes the interval of every subscription, and FindBySubscriber finds the one
\* AddSubscription was given, to the millisecond, however many hours or how few seconds it
\* has.
IntervalsReadBack ==
    \A d \in written :
        /\ column # {Error}
        /\ read # {} => read = {[hours |-> d.hours, ms |-> d.ms]}

\* Whatever PostgreSQL writes is understood, with units that are missing or negative, and a
\* time of the other sign: a year is 365 days and a month 30.
IntervalsUnderstood ==
    read # {} => \A i \in column, mons \in -11..11 :
        LET years == (i.months - mons) \div 12
        IN  12 * years + mons = i.months /\ years * mons >= 0 /\ i.months * mons >= 0 =>
                read = {[hours |-> 24 * (365 * years + 30 * mons + i.days) + i.hours, ms |-> i.ms]}
=============================================================================
