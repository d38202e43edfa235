--------------------------- MODULE Interval_proof ---------------------------
(***************************************************************************)
(* Proofs about Interval, for any durations and intervals.                  *)
(***************************************************************************)
EXTENDS Interval, TLAPS

\* The function of the loop exists: PostgreSQL writes no more than seven parts.
LEMMA ScannedIs ==
    ASSUME NEW text, NEW len \in 0..7, len = Len(text)
    PROVE  /\ Scanned(text)[0] = Start
           /\ \A n \in 1..len : Scanned(text)[n] = Parse(Scanned(text)[n - 1], text[n])
<1> DEFINE b1 == Parse(Start, text[1])
           b2 == Parse(b1, text[2])
           b3 == Parse(b2, text[3])
           b4 == Parse(b3, text[4])
           b5 == Parse(b4, text[5])
           b6 == Parse(b5, text[6])
           b7 == Parse(b6, text[7])
           At(n) == CASE n = 0 -> Start [] n = 1 -> b1 [] n = 2 -> b2 [] n = 3 -> b3
                      [] n = 4 -> b4 [] n = 5 -> b5 [] n = 6 -> b6 [] n = 7 -> b7
           Is(f) == f = [n \in 0..len |-> IF n = 0 THEN Start ELSE Parse(f[n - 1], text[n])]
<1>1. /\ At(0) = Start
      /\ \A n \in 1..7 : At(n) = Parse(At(n - 1), text[n])
  <2> HIDE DEF b1, b2, b3, b4, b5, b6, b7
  <2>1. b1 = Parse(Start, text[1]) /\ b2 = Parse(b1, text[2]) /\ b3 = Parse(b2, text[3])
        /\ b4 = Parse(b3, text[4]) /\ b5 = Parse(b4, text[5]) /\ b6 = Parse(b5, text[6])
        /\ b7 = Parse(b6, text[7])
    BY DEF b1, b2, b3, b4, b5, b6, b7
  <2>2. /\ At(0) = Start /\ At(1) = b1 /\ At(2) = b2 /\ At(3) = b3
        /\ At(4) = b4 /\ At(5) = b5 /\ At(6) = b6 /\ At(7) = b7
    OBVIOUS
  <2> HIDE DEF At
  <2> SUFFICES ASSUME NEW n \in 1..7 PROVE At(n) = Parse(At(n - 1), text[n])
    BY <2>2
  <2>3. CASE n = 1  BY <2>1, <2>2, <2>3
  <2>4. CASE n = 2  BY <2>1, <2>2, <2>4
  <2>5. CASE n = 3  BY <2>1, <2>2, <2>5
  <2>6. CASE n = 4  BY <2>1, <2>2, <2>6
  <2>7. CASE n = 5  BY <2>1, <2>2, <2>7
  <2>8. CASE n = 6  BY <2>1, <2>2, <2>8
  <2>9. CASE n = 7  BY <2>1, <2>2, <2>9
  <2> QED  BY <2>3, <2>4, <2>5, <2>6, <2>7, <2>8, <2>9
<1> HIDE DEF At
<1>2. Is([n \in 0..len |-> At(n)])
  <2> DEFINE f == [n \in 0..len |-> At(n)]
  <2>1. \A n \in 0..len : n # 0 => f[n - 1] = At(n - 1)
    OBVIOUS
  <2>2. ASSUME NEW n \in 0..len
        PROVE  At(n) = IF n = 0 THEN Start ELSE Parse(f[n - 1], text[n])
    <3>1. CASE n = 0  BY <1>1, <3>1
    <3>2. CASE n # 0
      <4>1. n \in 1..7  BY <3>2
      <4> QED  BY <1>1, <2>1, <3>2, <4>1
    <3> QED  BY <3>1, <3>2
  <2> QED  BY <2>2, Zenon
<1>3. Scanned(text) = CHOOSE f : Is(f)
  BY DEF Scanned
<1> HIDE DEF Is
<1>4. Is(Scanned(text))
  BY <1>2, <1>3
<1>5. \A n \in 0..len : Scanned(text)[n] =
          IF n = 0 THEN Start ELSE Parse(Scanned(text)[n - 1], text[n])
  <2> HIDE DEF Scanned
  <2> QED  BY <1>4 DEF Is
<1>6. 0 \in 0..len /\ \A n \in 1..len : n \in 0..len /\ n # 0
  OBVIOUS
<1> QED  BY <1>5, <1>6, Zenon

----------------------------------------------------------------------------
(* Accumulators.                                                            *)

Acc(state, value, hours, ms) == [state |-> state, value |-> value, hours |-> hours, ms |-> ms]

\* Before the next number or time.
Open(acc, hours) ==
    \E state \in {"start", "unit"}, value \in Int : acc = Acc(state, value, hours, 0)

\* A number and a unit.
LEMMA ParseField ==
    ASSUME NEW acc, NEW hours \in Int, Open(acc, hours), NEW n \in Int, NEW word \in DOMAIN HoursOf
    PROVE  Open(Parse(Parse(acc, Number(n)), Unit(word)), hours + n * HoursOf[word])
<1>1. PICK state \in {"start", "unit"}, value \in Int : acc = Acc(state, value, hours, 0)
  BY DEF Open
<1>2. Parse(acc, Number(n)) = Acc("number", n, hours, 0)
  BY <1>1 DEF Parse, Number, Acc
<1>3. Parse(Acc("number", n, hours, 0), Unit(word)) = Acc("unit", n, hours + n * HoursOf[word], 0)
  BY DEF Parse, Unit, Acc
<1> QED  BY <1>2, <1>3 DEF Open

\* A time tells hours and milliseconds, and is the end.
Tells(time, hours, ms) ==
    \E sign \in Int, h \in Int, m \in Int, s \in Int, n \in Int :
        /\ time = HMS(sign, h, m, s, n)
        /\ sign * h = hours /\ sign * ((m * 60 + s) * 1000 + n) = ms

Closed(acc, hours, ms) == \E value : acc = Acc("done", value, hours, ms)

\* A time ends the loop.
LEMMA ParseHMS ==
    ASSUME NEW acc, NEW before \in Int, Open(acc, before),
           NEW time, NEW hours \in Int, NEW ms, Tells(time, hours, ms),
           NEW total, total = before + hours
    PROVE  Closed(Parse(acc, time), total, ms)
<1>1. PICK state \in {"start", "unit"}, value \in Int : acc = Acc(state, value, before, 0)
  BY DEF Open
<1>2. time.kind = "time" /\ time.sign * time.hours = hours /\ BelowHours(time) = ms
  BY DEF Tells, HMS, BelowHours
<1>3. Parse(acc, time) = ParseTime(acc, time)
  BY <1>1, <1>2 DEF Parse, Acc
<1>4. ParseTime(acc, time) = [acc EXCEPT !.state = "done", !.hours = @ + hours, !.ms = ms]
  BY <1>2 DEF ParseTime
<1>5. ParseTime(acc, time) = Acc("done", value, total, ms)
  BY <1>1, <1>4 DEF Acc
<1> QED  BY <1>3, <1>5 DEF Closed

\* Two parts of a text, or none.
Worth(n, word) == n * HoursOf[word]

FieldAt(text, p, q, n, word) ==
    /\ \E len \in 0..7 : len = Len(text) /\ p \in 0..len /\ q \in 0..len
    /\ IF n = 0 THEN q = p
                ELSE q = p + 2 /\ text[p + 1] = Number(n) /\ text[p + 2] = Unit(word)

\* The loop reads a field, if there is one.
LEMMA ScanField ==
    ASSUME NEW text, NEW p, NEW q, NEW n \in Int, NEW word \in DOMAIN HoursOf,
           FieldAt(text, p, q, n, word),
           NEW hours \in Int, Open(Scanned(text)[p], hours),
           NEW total, total = hours + Worth(n, word)
    PROVE  Open(Scanned(text)[q], total)
<1> PICK len \in 0..7 : len = Len(text) /\ p \in 0..len /\ q \in 0..len
  BY DEF FieldAt
<1>0. IF n = 0 THEN q = p
               ELSE q = p + 2 /\ text[p + 1] = Number(n) /\ text[p + 2] = Unit(word)
  BY DEF FieldAt
<1>1. HoursOf[word] \in Int
  BY DEF HoursOf
<1>2. CASE n = 0
  <2>1. 0 * HoursOf[word] = 0
    BY <1>1
  <2> QED  BY <1>0, <1>2, <2>1 DEF Worth
<1>3. CASE n # 0
  <2>1. /\ p + 1 \in 1..len /\ p + 2 \in 1..len
        /\ p + 1 - 1 = p /\ p + 2 - 1 = p + 1
    BY <1>0, <1>3
  <2>2. /\ Scanned(text)[p + 1] = Parse(Scanned(text)[p], Number(n))
        /\ Scanned(text)[p + 2] = Parse(Scanned(text)[p + 1], Unit(word))
    <3>1. \A k \in 1..len : Scanned(text)[k] = Parse(Scanned(text)[k - 1], text[k])
      BY ScannedIs
    <3> DEFINE a == Scanned(text)
    <3>2. a[p + 1] = Parse(a[p], text[p + 1])
      <4> HIDE DEF a
      <4>1. \A k \in 1..len : a[k] = Parse(a[k - 1], text[k])
        BY <3>1 DEF a
      <4> QED  BY <2>1, <4>1
    <3>3. a[p + 2] = Parse(a[p + 1], text[p + 2])
      <4> HIDE DEF a
      <4>1. \A k \in 1..len : a[k] = Parse(a[k - 1], text[k])
        BY <3>1 DEF a
      <4> QED  BY <2>1, <4>1
    <3> QED  BY <1>0, <1>3, <3>2, <3>3, Zenon
  <2> QED  BY <1>0, <1>3, <2>2, ParseField DEF Worth
<1> QED  BY <1>2, <1>3

----------------------------------------------------------------------------
(* What PostgreSQL writes.                                                  *)

Parts == {Number(n) : n \in Int} \cup {Unit(word) : word \in DOMAIN HoursOf}
             \cup {HMS(x[1], x[2], x[3], x[4], x[5]) : x \in Int \X Int \X Int \X Int \X Int}

Field(n, word) == IF n = 0 THEN <<>> ELSE <<Number(n), Unit(word)>>

\* A field of a date has a number and a unit, unless the number is 0.
LEMMA FieldIs ==
    ASSUME NEW n \in Int, NEW word \in DOMAIN HoursOf
    PROVE  /\ Field(n, word) \in Seq(Parts)
           /\ IF n = 0 THEN Len(Field(n, word)) = 0
                       ELSE /\ Len(Field(n, word)) = 2
                            /\ Field(n, word)[1] = Number(n) /\ Field(n, word)[2] = Unit(word)
<1>1. Number(n) \in Parts /\ Unit(word) \in Parts
  BY DEF Parts
<1> QED  BY <1>1 DEF Field

\* Two sequences, one behind the other.
LEMMA JoinTwo ==
    ASSUME NEW S, NEW a \in Seq(S), NEW b \in Seq(S), NEW ab, ab = a \o b
    PROVE  /\ ab \in Seq(S) /\ Len(ab) = Len(a) + Len(b)
           /\ \A k \in 1..Len(a) : ab[k] = a[k]
           /\ \A k \in 1..Len(b) : ab[Len(a) + k] = b[k]
OBVIOUS

Behind(text, a, b, c, d) ==
    /\ Len(text) = Len(a) + Len(b) + Len(c) + Len(d)
    /\ \A k \in 1..Len(a) : text[k] = a[k]
    /\ \A k \in 1..Len(b) : text[Len(a) + k] = b[k]
    /\ \A k \in 1..Len(c) : text[Len(a) + Len(b) + k] = c[k]
    /\ \A k \in 1..Len(d) : text[Len(a) + Len(b) + Len(c) + k] = d[k]

\* Four sequences: each begins where the one before it ends.
LEMMA JoinFour ==
    ASSUME NEW S, NEW a \in Seq(S), NEW b \in Seq(S), NEW c \in Seq(S), NEW d \in Seq(S),
           NEW text, text = (a \o b \o c) \o d
    PROVE  Behind(text, a, b, c, d)
<1> PICK ab : ab = a \o b
  OBVIOUS
<1> PICK abc : abc = ab \o c
  OBVIOUS
<1>1. /\ ab \in Seq(S) /\ Len(ab) = Len(a) + Len(b)
      /\ \A k \in 1..Len(a) : ab[k] = a[k]
      /\ \A k \in 1..Len(b) : ab[Len(a) + k] = b[k]
  BY JoinTwo
<1>2. /\ abc \in Seq(S) /\ Len(abc) = Len(ab) + Len(c)
      /\ \A k \in 1..Len(ab) : abc[k] = ab[k]
      /\ \A k \in 1..Len(c) : abc[Len(ab) + k] = c[k]
  BY <1>1, JoinTwo
<1>3. /\ text \in Seq(S) /\ Len(text) = Len(abc) + Len(d)
      /\ \A k \in 1..Len(abc) : text[k] = abc[k]
      /\ \A k \in 1..Len(d) : text[Len(abc) + k] = d[k]
  <2>1. text = abc \o d
    OBVIOUS
  <2> QED  BY <1>2, <2>1, JoinTwo
<1>5. PICK na \in Nat, nb \in Nat, nc \in Nat, nd \in Nat :
          na = Len(a) /\ nb = Len(b) /\ nc = Len(c) /\ nd = Len(d)
  OBVIOUS
<1>6. \A k \in 1..na : text[k] = a[k]
  BY <1>1, <1>2, <1>3, <1>5
<1>7. \A k \in 1..nb : text[na + k] = b[k]
  <2> SUFFICES ASSUME NEW k \in 1..nb PROVE text[na + k] = b[k]
    OBVIOUS
  <2>1. na + k \in 1..(na + nb) /\ na + k \in 1..(na + nb + nc)
    OBVIOUS
  <2>2. text[na + k] = abc[na + k]
    BY <2>1, <1>1, <1>2, <1>3, <1>5
  <2>3. abc[na + k] = ab[na + k]
    BY <2>1, <1>1, <1>2, <1>5
  <2>4. ab[na + k] = b[k]
    BY <1>1, <1>5
  <2> QED  BY <2>2, <2>3, <2>4
<1>8. \A k \in 1..nc : text[na + nb + k] = c[k]
  <2> SUFFICES ASSUME NEW k \in 1..nc PROVE text[na + nb + k] = c[k]
    OBVIOUS
  <2>1. na + nb + k \in 1..(na + nb + nc)
    OBVIOUS
  <2>2. text[na + nb + k] = abc[na + nb + k]
    BY <2>1, <1>1, <1>2, <1>3, <1>5
  <2>3. abc[na + nb + k] = c[k]
    BY <1>1, <1>2, <1>5
  <2> QED  BY <2>2, <2>3
<1>9. \A k \in 1..nd : text[na + nb + nc + k] = d[k]
  BY <1>1, <1>2, <1>3, <1>5
<1>10. Len(text) = na + nb + nc + nd
  BY <1>1, <1>2, <1>3, <1>5
<1> QED  BY <1>5, <1>6, <1>7, <1>8, <1>9, <1>10, Zenon DEF Behind

\* A field between two places in a text.
Between(text, len, p, q, n, word) ==
    /\ len = Len(text) /\ q = p + Len(Field(n, word)) /\ q <= len
    /\ \A m \in 1..Len(Field(n, word)) : text[p + m] = Field(n, word)[m]

\* What is between two places is read as a field.
LEMMA FieldBetween ==
    ASSUME NEW n \in Int, NEW word \in DOMAIN HoursOf, NEW text, NEW len \in 0..7,
           NEW p \in Nat, NEW q \in Nat, Between(text, len, p, q, n, word)
    PROVE  FieldAt(text, p, q, n, word)
<1>0. /\ len = Len(text) /\ q = p + Len(Field(n, word)) /\ q <= len
      /\ \A m \in 1..Len(Field(n, word)) : text[p + m] = Field(n, word)[m]
  BY DEF Between
<1>1. CASE n = 0
  <2>1. Len(Field(n, word)) = 0
    BY <1>1, FieldIs
  <2> QED  BY <1>0, <1>1, <2>1 DEF FieldAt
<1>2. CASE n # 0
  <2>1. /\ Len(Field(n, word)) = 2
        /\ Field(n, word)[1] = Number(n) /\ Field(n, word)[2] = Unit(word)
    BY <1>2, FieldIs
  <2>2. text[p + 1] = Number(n) /\ text[p + 2] = Unit(word)
    BY <1>0, <2>1
  <2>3. p \in 0..len /\ q \in 0..len /\ q = p + 2
    BY <1>0, <2>1
  <2> QED  BY <1>0, <1>2, <2>2, <2>3, Zenon DEF FieldAt
<1> QED  BY <1>1, <1>2

\* The fields of a date, and what follows, in a text.
DateAndMore(text, years, mons, days, t, l) ==
    /\ text = (Field(years, "year") \o Field(mons, "mon") \o Field(days, "day")) \o t
    /\ t \in Seq(Parts) /\ l = Len(t)

FieldsIn(text, years, mons, days, t, l) ==
    \E a \in 0..2, b \in 0..4, c \in 0..6 :
        /\ FieldAt(text, 0, a, years, "year")
        /\ FieldAt(text, a, b, mons, "mon")
        /\ FieldAt(text, b, c, days, "day")
        /\ Len(text) = c + l /\ \A j \in 1..l : text[c + j] = t[j]

\* The three fields of a date follow each other.
LEMMA FieldsAt ==
    ASSUME NEW years \in Int, NEW mons \in Int, NEW days \in Int, NEW l \in 0..1,
           NEW text, NEW t, DateAndMore(text, years, mons, days, t, l)
    PROVE  FieldsIn(text, years, mons, days, t, l)
<1>0. "year" \in DOMAIN HoursOf /\ "mon" \in DOMAIN HoursOf /\ "day" \in DOMAIN HoursOf
  BY DEF HoursOf
<1>1. PICK f, g, k : f = Field(years, "year") /\ g = Field(mons, "mon") /\ k = Field(days, "day")
  OBVIOUS
<1>2. PICK fl \in 0..2, gl \in 0..2, kl \in 0..2 : fl = Len(f) /\ gl = Len(g) /\ kl = Len(k)
  <2>1. (Len(f) = 0 \/ Len(f) = 2) /\ (Len(g) = 0 \/ Len(g) = 2) /\ (Len(k) = 0 \/ Len(k) = 2)
    BY <1>0, <1>1, FieldIs
  <2> QED  BY <2>1
<1>3. Behind(text, f, g, k, t)
  <2>1. f \in Seq(Parts) /\ g \in Seq(Parts) /\ k \in Seq(Parts)
    BY <1>0, <1>1, FieldIs
  <2>2. t \in Seq(Parts) /\ text = (f \o g \o k) \o t
    BY <1>1, Zenon DEF DateAndMore
  <2> QED  BY <2>1, <2>2, JoinFour, Zenon
<1>4. l = Len(t)
  BY DEF DateAndMore
<1> PICK a \in 0..2 : a = fl
  OBVIOUS
<1> PICK b \in 0..4 : b = a + gl
  OBVIOUS
<1> PICK c \in 0..6 : c = b + kl
  OBVIOUS
<1> PICK len \in 0..7 : len = c + l
  OBVIOUS
<1>5. /\ len = Len(text) /\ a <= len /\ b <= len /\ c <= len
      /\ a = 0 + fl /\ \A n \in 1..fl : text[0 + n] = f[n]
      /\ b = a + gl /\ \A n \in 1..gl : text[a + n] = g[n]
      /\ c = b + kl /\ \A n \in 1..kl : text[b + n] = k[n]
      /\ \A n \in 1..l : text[c + n] = t[n]
  <2>1. /\ Len(text) = fl + gl + kl + l
        /\ \A n \in 1..fl : text[n] = f[n]
        /\ \A n \in 1..gl : text[fl + n] = g[n]
        /\ \A n \in 1..kl : text[fl + gl + n] = k[n]
        /\ \A n \in 1..l : text[fl + gl + kl + n] = t[n]
    BY <1>2, <1>3, <1>4, Zenon DEF Behind
  <2> QED  BY <2>1, SMT
<1>6. FieldAt(text, 0, a, years, "year")
  <2>1. Between(text, len, 0, a, years, "year")
    BY <1>1, <1>2, <1>5, Zenon DEF Between
  <2>2. 0 \in Nat /\ a \in Nat
    OBVIOUS
  <2> QED  BY <1>0, <2>1, <2>2, FieldBetween
<1>7. FieldAt(text, a, b, mons, "mon")
  <2>1. Between(text, len, a, b, mons, "mon")
    BY <1>1, <1>2, <1>5, Zenon DEF Between
  <2>2. a \in Nat /\ b \in Nat
    OBVIOUS
  <2> QED  BY <1>0, <2>1, <2>2, FieldBetween
<1>8. FieldAt(text, b, c, days, "day")
  <2>1. Between(text, len, b, c, days, "day")
    BY <1>1, <1>2, <1>5, Zenon DEF Between
  <2>2. b \in Nat /\ c \in Nat
    OBVIOUS
  <2> QED  BY <1>0, <2>1, <2>2, FieldBetween
<1>9. Len(text) = c + l
  BY <1>5
<1> QED  BY <1>5, <1>6, <1>7, <1>8, <1>9, Zenon DEF FieldsIn

----------------------------------------------------------------------------
(* Numbers.                                                                 *)

\* For provers that see only the name.
LEMMA HourInt == Hour \in Int
BY DEF Hour

\* Minutes, seconds and milliseconds.
MakeUp(n, m, s, ms) ==
    /\ m \in 0..59 /\ s \in 0..59 /\ ms \in 0..999
    /\ (m * 60 + s) * 1000 + ms = n

\* They make up the whole number, also where minutes are taken modulo 60 again.
LEMMA Digits ==
    ASSUME NEW n \in Int, 0 <= n, n < Hour, NEW m, NEW s, NEW ms,
           m = n \div 60000 \/ m = (n \div 60000) % 60, s = (n \div 1000) % 60, ms = n % 1000
    PROVE  MakeUp(n, m, s, ms)
<1>1. n \div 60000 \in 0..59 /\ (n \div 60000) % 60 = n \div 60000
  BY SMTT(30) DEF Hour
<1>2. m = n \div 60000
  BY <1>1
<1> QED  BY <1>2, SMTT(30) DEF Hour, MakeUp

\* The sign of a time is that of its parts.
LEMMA SignedTime ==
    ASSUME NEW hours \in Int, NEW ms \in 1 - Hour..Hour - 1,
           hours # 0 => Sign(hours) * ms >= 0,
           NEW sign, sign = IF hours < 0 \/ ms < 0 THEN -1 ELSE 1
    PROVE  /\ sign \in Int /\ sign * hours \in Int /\ sign * ms \in 0..Hour - 1
           /\ sign * (sign * hours) = hours /\ sign * (sign * ms) = ms
<1> Hour \in Int
  BY HourInt
<1>1. CASE hours < 0
  BY <1>1 DEF Sign
<1>2. CASE hours > 0
  BY <1>2 DEF Sign
<1>3. CASE hours = 0
  BY <1>3
<1> QED  BY <1>1, <1>2, <1>3

YearsOf(months) == Sign(months) * (Abs(months) \div 12)

\* Years and months have one sign, and less than a year of months remains; there is only one such
\* way to write a number of months.
LEMMA Years ==
    ASSUME NEW months \in Int
    PROVE  /\ YearsOf(months) \in Int /\ months - 12 * YearsOf(months) \in -11..11
           /\ \A years \in Int, mons \in -11..11 :
                 12 * years + mons = months /\ years * mons >= 0 /\ months * mons >= 0 =>
                    years = YearsOf(months) /\ mons = months - 12 * YearsOf(months)
<1> DEFINE y == YearsOf(months)
           m == months - 12 * y
<1>1. CASE months >= 0
  <2>1. y = months \div 12 /\ y \in Nat /\ m \in 0..11
    BY <1>1 DEF YearsOf, Sign, Abs
  <2> HIDE DEF y
  <2> SUFFICES ASSUME NEW years \in Int, NEW mons \in -11..11, 12 * years + mons = months,
                      years * mons >= 0, months * mons >= 0
               PROVE  years = y
    BY <2>1 DEF y
  <2>2. mons >= 0
    BY <1>1
  <2> QED  BY <2>1, <2>2
<1>2. CASE months < 0
  <2>1. y = - ((- months) \div 12) /\ - y \in Nat /\ m \in -11..0
    BY <1>2 DEF YearsOf, Sign, Abs
  <2> HIDE DEF y
  <2> SUFFICES ASSUME NEW years \in Int, NEW mons \in -11..11, 12 * years + mons = months,
                      years * mons >= 0, months * mons >= 0
               PROVE  years = y
    BY <2>1 DEF y
  <2>2. mons <= 0
    BY <1>2
  <2> QED  BY <2>1, <2>2
<1> QED  BY <1>1, <1>2

----------------------------------------------------------------------------
(* What is read.                                                            *)

\* The values a column has.
Interval ==
    {i \in [months : Int, days : Int, hours : Int, ms : 1 - Hour..Hour - 1] :
        i.hours # 0 => Sign(i.hours) * i.ms >= 0}

HoursIn(i) ==
    24 * (365 * YearsOf(i.months) + 30 * (i.months - 12 * YearsOf(i.months)) + i.days) + i.hours

SignOf(i) == IF i.hours < 0 \/ i.ms < 0 THEN -1 ELSE 1
TimeOf(i) ==
    LET n == SignOf(i) * i.ms
    IN  HMS(SignOf(i), SignOf(i) * i.hours, n \div 60000, (n \div 1000) % 60, n % 1000)
Date(i) ==
    Field(YearsOf(i.months), "year") \o Field(i.months - 12 * YearsOf(i.months), "mon")
        \o Field(i.days, "day")

\* PostgreSQL writes the date, the time, or both.
LEMMA OutputIs ==
    ASSUME NEW i
    PROVE  Output(i) = IF i.hours = 0 /\ i.ms = 0 /\ Date(i) # <<>>
                       THEN Date(i) ELSE Date(i) \o <<TimeOf(i)>>
BY DEF Output, Date, Field, YearsOf, TimeOf, SignOf

\* The part of the time tells hours and milliseconds.
LEMMA TimeIs ==
    ASSUME NEW i \in Interval
    PROVE  /\ TimeOf(i) \in Parts
           /\ Tells(TimeOf(i), i.hours, i.ms)
<1>1. PICK sign : sign = SignOf(i)
  OBVIOUS
<1>2. /\ sign \in Int /\ sign * i.hours \in Int /\ sign * i.ms \in 0..Hour - 1
      /\ sign * (sign * i.hours) = i.hours /\ sign * (sign * i.ms) = i.ms
  <2>1. PICK hours \in Int, ms \in 1 - Hour..Hour - 1 :
            hours = i.hours /\ ms = i.ms /\ (hours # 0 => Sign(hours) * ms >= 0)
    BY DEF Interval
  <2>2. sign = IF hours < 0 \/ ms < 0 THEN -1 ELSE 1
    BY <1>1, <2>1 DEF SignOf
  <2>3. /\ sign \in Int /\ sign * hours \in Int /\ sign * ms \in 0..Hour - 1
        /\ sign * (sign * hours) = hours /\ sign * (sign * ms) = ms
    BY <2>1, <2>2, SignedTime
  <2> QED  BY <2>1, <2>3
<1>3. PICK n \in Int : n = sign * i.ms /\ 0 <= n /\ n < Hour
  BY <1>2, HourInt
<1>4. PICK h \in Int, m \in Int, s \in Int, ms \in Int :
          /\ h = sign * i.hours /\ m = n \div 60000 /\ s = (n \div 1000) % 60 /\ ms = n % 1000
          /\ (m * 60 + s) * 1000 + ms = n
  <2>1. PICK m, s, ms : m = n \div 60000 /\ s = (n \div 1000) % 60 /\ ms = n % 1000
    OBVIOUS
  <2>2. MakeUp(n, m, s, ms)
    BY <1>3, <2>1, Digits
  <2>3. m \in Int /\ s \in Int /\ ms \in Int /\ (m * 60 + s) * 1000 + ms = n
    BY <2>2 DEF MakeUp
  <2>4. PICK h \in Int : h = sign * i.hours
    BY <1>2
  <2> QED  BY <2>1, <2>3, <2>4
<1>5. TimeOf(i) = HMS(sign, h, m, s, ms)
  BY <1>1, <1>3, <1>4 DEF TimeOf
<1>6. sign * h = i.hours
  <2>1. h = sign * i.hours
    BY <1>4
  <2> QED  BY <1>2, <2>1
<1>7. sign * ((m * 60 + s) * 1000 + ms) = i.ms
  <2>1. n = sign * i.ms
    BY <1>3
  <2>2. sign * n = i.ms
    BY <1>2, <2>1
  <2>3. n = (m * 60 + s) * 1000 + ms
    BY <1>4
  <2> QED  BY <2>2, <2>3
<1>8. TimeOf(i) \in Parts
  <2>1. PICK x : x = <<sign, h, m, s, ms>>
    OBVIOUS
  <2>2. x \in Int \X Int \X Int \X Int \X Int
    BY <1>2, <2>1
  <2>3. TimeOf(i) = HMS(x[1], x[2], x[3], x[4], x[5])
    BY <1>5, <2>1
  <2> QED  BY <2>2, <2>3 DEF Parts
<1>9. sign \in Int
  BY <1>2
<1> QED  BY <1>5, <1>6, <1>7, <1>8, <1>9 DEF Tells

\* All that is said by a text, with or without a time, but not without anything.
LEMMA ScanIs ==
    ASSUME NEW i \in Interval
    PROVE  Scan(Output(i)) = {[hours |-> HoursIn(i), ms |-> i.ms]}
<1>1. PICK years \in Int, mons \in Int, days \in Int :
          years = YearsOf(i.months) /\ mons = i.months - 12 * years /\ days = i.days
  <2>1. i.months \in Int /\ i.days \in Int
    BY DEF Interval
  <2>2. YearsOf(i.months) \in Int /\ i.months - 12 * YearsOf(i.months) \in Int
    BY <2>1, Years
  <2> QED  BY <2>1, <2>2
<1> PICK text : text = Output(i)
  OBVIOUS
<1>2. Date(i) = Field(years, "year") \o Field(mons, "mon") \o Field(days, "day")
  BY <1>1 DEF Date
<1>3. /\ Date(i) \o <<>> = Date(i)
      /\ <<TimeOf(i)>> \in Seq(Parts) /\ <<>> \in Seq(Parts)
      /\ Len(<<TimeOf(i)>>) = 1 /\ <<TimeOf(i)>>[1] = TimeOf(i) /\ Len(<<>>) = 0
  <2>1. "year" \in DOMAIN HoursOf /\ "mon" \in DOMAIN HoursOf /\ "day" \in DOMAIN HoursOf
    BY DEF HoursOf
  <2>2. /\ Field(years, "year") \in Seq(Parts) /\ Field(mons, "mon") \in Seq(Parts)
        /\ Field(days, "day") \in Seq(Parts)
    BY <2>1, FieldIs
  <2> QED  BY <1>2, <2>2, TimeIs
<1>4. PICK t, l :
          /\ l \in 0..1 /\ DateAndMore(text, years, mons, days, t, l)
          /\ l = 1 => t[1] = TimeOf(i)
          /\ l = 0 => i.hours = 0 /\ i.ms = 0
  <2>0. 0 \in 0..1 /\ 1 \in 0..1 /\ 0 # 1
    OBVIOUS
  <2>1. CASE i.hours = 0 /\ i.ms = 0 /\ Date(i) # <<>>
    <3>1. text = Date(i) \o <<>>
      BY <1>3, <2>1, OutputIs, Zenon
    <3>2. DateAndMore(text, years, mons, days, <<>>, 0)
      BY <1>2, <1>3, <3>1, Zenon DEF DateAndMore
    <3> QED  BY <2>0, <2>1, <3>2, Zenon
  <2>2. CASE ~ (i.hours = 0 /\ i.ms = 0 /\ Date(i) # <<>>)
    <3>1. text = Date(i) \o <<TimeOf(i)>>
      BY <2>2, OutputIs, Zenon
    <3>2. DateAndMore(text, years, mons, days, <<TimeOf(i)>>, 1)
      BY <1>2, <1>3, <3>1, Zenon DEF DateAndMore
    <3> QED  BY <1>3, <2>0, <3>2
  <2> QED  BY <2>1, <2>2
<1>5. PICK a \in 0..2, b \in 0..4, c \in 0..6 :
          /\ FieldAt(text, 0, a, years, "year")
          /\ FieldAt(text, a, b, mons, "mon")
          /\ FieldAt(text, b, c, days, "day")
          /\ Len(text) = c + l /\ \A j \in 1..l : text[c + j] = t[j]
  <2>1. years \in Int /\ mons \in Int /\ days \in Int
    BY <1>1
  <2>2. l \in 0..1 /\ DateAndMore(text, years, mons, days, t, l)
    BY <1>4
  <2>3. FieldsIn(text, years, mons, days, t, l)
    BY <2>1, <2>2, FieldsAt
  <2> QED  BY <2>3 DEF FieldsIn
<1>6. PICK len \in 0..7 : len = Len(text) /\ len = c + l
  <2>1. c + l \in 0..7
    BY <1>4, <1>5
  <2> QED  BY <1>5, <2>1, Zenon
<1>7. PICK acc : acc = Scanned(text)
  OBVIOUS
<1>8. PICK hours \in Int : hours = 24 * (365 * years + 30 * mons + days) /\ Open(acc[c], hours)
  <2>1. HoursOf["year"] = 8760 /\ HoursOf["mon"] = 720 /\ HoursOf["day"] = 24
        /\ "year" \in DOMAIN HoursOf /\ "mon" \in DOMAIN HoursOf /\ "day" \in DOMAIN HoursOf
    BY DEF HoursOf
  <2>2. Open(acc[0], 0)
    <3>1. acc[0] = Start
      BY <1>6, <1>7, ScannedIs
    <3>2. Start = Acc("start", 0, 0, 0)
      BY DEF Start, Acc
    <3> QED  BY <3>1, <3>2 DEF Open
  <2>3. PICK y \in Int : y = 0 + Worth(years, "year") /\ y = 8760 * years
    BY <2>1 DEF Worth
  <2>4. PICK m \in Int : m = y + Worth(mons, "mon") /\ m = 8760 * years + 720 * mons
    BY <2>1, <2>3 DEF Worth
  <2>5. PICK d \in Int : d = m + Worth(days, "day") /\ d = m + 24 * days
    BY <2>1 DEF Worth
  <2>6. Open(acc[a], y)
    BY <1>5, <1>7, <2>1, <2>2, <2>3, ScanField
  <2>7. Open(acc[b], m)
    BY <1>5, <1>7, <2>1, <2>4, <2>6, ScanField
  <2>8. Open(acc[c], d)
    BY <1>5, <1>7, <2>1, <2>5, <2>7, ScanField
  <2>9. d = 24 * (365 * years + 30 * mons + days)
    BY <2>4, <2>5
  <2> QED  BY <2>8, <2>9
<1>9. HoursIn(i) = hours + i.hours /\ i.hours \in Int
  BY <1>1, <1>8 DEF HoursIn, Interval
\* A time at the beginning is the whole text.
<1>10. ~ (text[1].kind = "time" /\ Len(text) > 1)
  <2>1. c # 0 => text[1] \in {Number(years), Number(mons), Number(days)}
    <3>1. CASE years # 0
      BY <1>5, <3>1 DEF FieldAt
    <3>2. CASE years = 0 /\ mons # 0
      BY <1>5, <3>2 DEF FieldAt
    <3>3. CASE years = 0 /\ mons = 0
      BY <1>5, <3>3 DEF FieldAt
    <3> QED  BY <3>1, <3>2, <3>3
  <2>2. \A n : Number(n).kind = "number"
    BY DEF Number
  <2>3. c = 0 => ~ Len(text) > 1
    BY <1>4, <1>6
  <2> QED  BY <2>1, <2>2, <2>3
<1>11. \E state, value : state \notin {"failed", "number"} /\
          acc[len] = Acc(state, value, HoursIn(i), i.ms)
  <2>1. CASE l = 1
    <3>2. len = c + 1 /\ len - 1 = c /\ len \in 1..len /\ text[len] = TimeOf(i)
      BY <1>4, <1>5, <1>6, <2>1
    <3>3. acc[len] = Parse(acc[len - 1], text[len])
      BY <1>6, <1>7, <3>2, ScannedIs
    <3>4. acc[len] = Parse(acc[c], TimeOf(i))
      BY <3>2, <3>3
    <3>5. Closed(Parse(acc[c], TimeOf(i)), HoursIn(i), i.ms)
      BY <1>8, <1>9, TimeIs, ParseHMS
    <3> QED  BY <3>4, <3>5 DEF Closed
  <2>2. CASE l = 0
    <3>1. len = c /\ HoursIn(i) = hours
      BY <1>4, <1>6, <1>8, <1>9, <2>2
    <3>2. i.ms = 0
      BY <1>4, <2>2
    <3>3. PICK state \in {"start", "unit"}, value \in Int : acc[c] = Acc(state, value, hours, 0)
      BY <1>8 DEF Open
    <3>4. acc[len] = Acc(state, value, HoursIn(i), i.ms) /\ state \notin {"failed", "number"}
      BY <3>1, <3>2, <3>3
    <3> QED  BY <3>4, Zenon
  <2> QED  BY <1>4, <2>1, <2>2
<1>12. PICK state, value : state \notin {"failed", "number"} /\
          acc[len] = Acc(state, value, HoursIn(i), i.ms)
  BY <1>11
<1>13. acc[len].state = state /\ acc[len].hours = HoursIn(i) /\ acc[len].ms = i.ms
  BY <1>12 DEF Acc
<1>14. Scan(text) = {[hours |-> acc[len].hours, ms |-> acc[len].ms]}
  <2>1. Scanned(text)[Len(text)] = acc[len]
    BY <1>6, <1>7
  <2> QED  BY <1>10, <1>12, <1>13, <2>1 DEF Scan
<1> QED  BY <1>13, <1>14

----------------------------------------------------------------------------
(* A row.                                                                   *)

\* A row has the interval i, and whoever reads it is told all of it; it is the one of the
\* subscription that was written, if any.
Row(i) ==
    /\ i \in Interval /\ column = {i}
    /\ read = {} \/ read = {[hours |-> HoursIn(i), ms |-> i.ms]}
    /\ \A d \in written : i = [months |-> 0, days |-> 0, hours |-> d.hours, ms |-> d.ms]

IntervalInv ==
    \/ column = {} /\ written = {} /\ read = {}
    \/ \E i : Row(i)

\* PostgreSQL takes the text of a duration, and it says the same.
LEMMA InputIs ==
    ASSUME NEW d \in Durations
    PROVE  /\ Accepted(Value(d))
           /\ Input(Value(d)) = [months |-> 0, days |-> 0, hours |-> d.hours, ms |-> d.ms]
           /\ Input(Value(d)) \in Interval
<1>1. PICK hours \in Nat, n \in Int : hours = d.hours /\ n = d.ms /\ 0 <= n /\ n < Hour
  BY IntervalAssumption, HourInt
<1>2. n \in Int /\ 0 <= n /\ n < Hour
  BY <1>1
<1>3. PICK m, s, ms : m = (n \div 60000) % 60 /\ s = (n \div 1000) % 60 /\ ms = n % 1000
  OBVIOUS
<1>4. m \in 0..59 /\ s \in 0..59 /\ ms \in 0..999 /\ 1 * ((m * 60 + s) * 1000 + ms) = n
  <2>1. MakeUp(n, m, s, ms)
    BY <1>2, <1>3, Digits
  <2> QED  BY <2>1 DEF MakeUp
<1>5. Value(d) = <<HMS(1, hours, m, s, ms)>>
  BY <1>1, <1>3 DEF Value
<1>6. PICK time : time = HMS(1, hours, m, s, ms) /\ Value(d)[1] = time
  BY <1>5
<1>7. time.minutes = m /\ time.seconds = s /\ time.hours = hours /\ BelowHours(time) = n
  BY <1>4, <1>6 DEF HMS, BelowHours
<1>8. Accepted(Value(d))
  BY <1>4, <1>6, <1>7 DEF Accepted
<1>9. Input(Value(d)) = [months |-> 0, days |-> 0, hours |-> hours, ms |-> n]
  BY <1>6, <1>7 DEF Input
<1>10. [months |-> 0, days |-> 0, hours |-> hours, ms |-> n] \in Interval
  <2>1. n \in 1 - Hour..Hour - 1 /\ (hours # 0 => Sign(hours) * n >= 0)
    BY <1>1, HourInt DEF Sign
  <2> QED  BY <2>1 DEF Interval
<1> QED  BY <1>1, <1>8, <1>9, <1>10

\* Every step keeps the invariant.
LEMMA RowKept == IntervalInv /\ [IntervalNext]_intervalVars => IntervalInv'
<1> SUFFICES ASSUME IntervalInv, [IntervalNext]_intervalVars
             PROVE  IntervalInv'
  OBVIOUS
<1>1. ASSUME NEW d \in Durations, WriteInterval(d)
      PROVE  IntervalInv'
  <2>1. written' = {d} /\ column' = {Input(Value(d))} /\ read' = {}
    BY <1>1, InputIs DEF WriteInterval, IntervalInv, Row
  <2>2. Row(Input(Value(d)))'
    BY <2>1, InputIs DEF Row
  <2> QED  BY <2>2 DEF IntervalInv
<1>2. ASSUME NEW i \in Intervals, OtherInterval(i)
      PROVE  IntervalInv'
  <2>1. i \in Interval
    BY IntervalAssumption DEF Interval
  <2>2. written' = {} /\ column' = {i} /\ read' = {}
    BY <1>2 DEF OtherInterval, IntervalInv, Row
  <2>3. Row(i)'
    BY <2>1, <2>2 DEF Row
  <2> QED  BY <2>3 DEF IntervalInv
<1>3. ASSUME ReadInterval
      PROVE  IntervalInv'
  <2>1. PICK i : Row(i)
    BY <1>3 DEF ReadInterval, IntervalInv
  <2>2. read' = Scan(Output(i)) /\ UNCHANGED <<written, column>>
    BY <1>3, <2>1 DEF ReadInterval, Row
  <2>3. Scan(Output(i)) = {[hours |-> HoursIn(i), ms |-> i.ms]}
    BY <2>1, ScanIs DEF Row
  <2>4. Row(i)'
    BY <2>1, <2>2, <2>3 DEF Row
  <2> QED  BY <2>4 DEF IntervalInv
<1>4. ASSUME UNCHANGED intervalVars
      PROVE  IntervalInv'
  BY <1>4 DEF intervalVars, IntervalInv, Row
<1> QED  BY <1>1, <1>2, <1>3, <1>4 DEF IntervalNext

\* Every row has an interval, and its reader is told that interval.
LEMMA RowCorrect == IntervalSpec => []IntervalInv
<1>1. IntervalInit => IntervalInv
  BY DEF IntervalInit, IntervalInv
<1> QED  BY <1>1, RowKept, PTL DEF IntervalSpec

\* An interval that AddSubscription has written is read back, to the millisecond, for every
\* duration that is not negative.
THEOREM ReadBack == IntervalSpec => []IntervalsReadBack
<1>1. IntervalInv => IntervalsReadBack
  <2> SUFFICES ASSUME IntervalInv, NEW d \in written
               PROVE  /\ column # {Error}
                      /\ read # {} => read = {[hours |-> d.hours, ms |-> d.ms]}
    BY DEF IntervalsReadBack
  <2>1. PICK i : Row(i)
    BY DEF IntervalInv
  <2>2. i = [months |-> 0, days |-> 0, hours |-> d.hours, ms |-> d.ms] /\ i \in Interval
    BY <2>1 DEF Row
  <2>3. i # Error
    BY <2>2 DEF Error
  <2>4. HoursIn(i) = d.hours
    <3>1. d.hours \in Int /\ i.months = 0 /\ i.days = 0 /\ i.hours = d.hours
      BY <2>2 DEF Interval
    <3>2. YearsOf(0) = 0
      BY DEF YearsOf, Sign, Abs
    <3> QED  BY <3>1, <3>2 DEF HoursIn
  <2>5. i.ms = d.ms
    BY <2>2
  <2> QED  BY <2>1, <2>3, <2>4, <2>5 DEF Row
<1> QED  BY <1>1, RowCorrect, PTL

\* Whatever interval a row has, negative or of mixed signs, is understood.
THEOREM Understood == IntervalSpec => []IntervalsUnderstood
<1>1. IntervalInv => IntervalsUnderstood
  <2> SUFFICES ASSUME IntervalInv, read # {}, NEW i \in column, NEW mons \in -11..11
               PROVE  LET years == (i.months - mons) \div 12
                      IN  12 * years + mons = i.months /\ years * mons >= 0 /\ i.months * mons >= 0 =>
                              read = {[hours |-> 24 * (365 * years + 30 * mons + i.days) + i.hours,
                                       ms |-> i.ms]}
    BY DEF IntervalsUnderstood
  <2>1. Row(i)
    BY DEF IntervalInv, Row
  <2>2. i.months \in Int /\ i.days \in Int /\ i.hours \in Int
    BY <2>1 DEF Row, Interval
  <2> DEFINE years == (i.months - mons) \div 12
  <2> SUFFICES ASSUME 12 * years + mons = i.months, years * mons >= 0, i.months * mons >= 0
               PROVE  read = {[hours |-> 24 * (365 * years + 30 * mons + i.days) + i.hours,
                               ms |-> i.ms]}
    OBVIOUS
  <2>3. years \in Int
    BY <2>2
  <2> HIDE DEF years
  <2>4. years = YearsOf(i.months) /\ mons = i.months - 12 * YearsOf(i.months)
    BY <2>2, <2>3, Years
  <2>5. HoursIn(i) = 24 * (365 * years + 30 * mons + i.days) + i.hours
    BY <2>4 DEF HoursIn
  <2> QED  BY <2>1, <2>5 DEF Row
<1> QED  BY <1>1, RowCorrect, PTL
=============================================================================
