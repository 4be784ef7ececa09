----------------------------- MODULE MySqlTimes -----------------------------
(***************************************************************************)
(* TIME, DATE and DATETIME of MySQL: MySqlTime (types/mysql_time.rs) with  *)
(* its binary and text formats and its conversions, and the dates and      *)
(* times of chrono and time (types/chrono.rs, types/time.rs).  The largest *)
(* value of every field is a constant; a fraction of a second has Digits   *)
(* decimal digits in place of six.                                         *)
(***************************************************************************)
EXTENDS Integers, Sequences, SequencesExt

CONSTANTS
    HoursMax,      \* MySqlTime::HOURS_MAX: 838
    DayHours,      \* 24
    FieldMax,      \* 59, of minutes and seconds
    Digits,        \* 6
    Fractions,     \* the microseconds that are tried
    Years          \* the years that are tried

ASSUME TimesAssumption == {HoursMax, DayHours, FieldMax, Digits} \subseteq Nat /\ Fractions \subseteq 0..(10 ^ Digits - 1)

VARIABLE moment

Micros == 10 ^ Digits
Refused == [err |-> TRUE, negative |-> FALSE, hours |-> 0, minutes |-> 0, seconds |-> 0, micros |-> 0]
Time(negative, h, m, s, us) == [err |-> FALSE, negative |-> negative, hours |-> h, minutes |-> m, seconds |-> s, micros |-> us]
Zero == Time(FALSE, 0, 0, 0, 0)
Magnitude(t) == ((t.hours * (FieldMax + 1) + t.minutes) * (FieldMax + 1) + t.seconds) * Micros + t.micros
MagnitudeMax == Magnitude(Time(FALSE, HoursMax, FieldMax, FieldMax, 0))
\* What a time means: its signed number of microseconds.
Total(t) == IF t.negative THEN -Magnitude(t) ELSE Magnitude(t)

\* MySqlTime::new.
New(negative, h, m, s, us) ==
    LET t == Time(negative, h, m, s, us) IN
    IF \/ h > HoursMax \/ m > FieldMax \/ s > FieldMax \/ us >= Micros
       \/ negative /\ Magnitude(t) = 0
       \/ Magnitude(t) > MagnitudeMax
    THEN Refused ELSE t

WithSign(t, negative) == IF t.err THEN t ELSE [t EXCEPT !.negative = negative]

WholeSeconds(t) == (t.hours * (FieldMax + 1) + t.minutes) * (FieldMax + 1) + t.seconds
IsValidTimeOfDay(t) == ~t.negative /\ t.hours < DayHours

\* Ord for MySqlTime.
Cmp(a, b) ==
    LET order == IF Magnitude(a) < Magnitude(b) THEN -1 ELSE IF Magnitude(a) > Magnitude(b) THEN 1 ELSE 0
    IN  IF a.negative # b.negative THEN (IF a.negative THEN -1 ELSE 1) ELSE IF a.negative THEN -order ELSE order

-----------------------------------------------------------------------------
(* The binary format: a length, and so many fields as it tells             *)

EncodeTime(t) ==
    IF t = Zero THEN [len |-> 0, fields |-> <<>>]
    ELSE LET whole == <<IF t.negative THEN 1 ELSE 0, t.hours \div DayHours, t.hours % DayHours, t.minutes, t.seconds>>
         IN  IF t.micros = 0 THEN [len |-> 8, fields |-> whole] ELSE [len |-> 12, fields |-> Append(whole, t.micros)]

DecodeTime(b) ==
    IF b.len = 0 THEN Zero
    ELSE IF b.len \notin {8, 12} \/ b.fields[1] \notin {0, 1} THEN Refused
    ELSE New(b.fields[1] = 1, b.fields[2] * DayHours + b.fields[3], b.fields[4], b.fields[5], IF b.len = 12 THEN b.fields[6] ELSE 0)

\* Time-of-day values of chrono and time; `date' is <<year, month, day>>.
EncodeTimeOfDay(t) == [len |-> IF t.micros = 0 THEN 8 ELSE 12,
                       fields |-> <<0, 0, t.hours, t.minutes, t.seconds>> \o (IF t.micros = 0 THEN <<>> ELSE <<t.micros>>)]
MySqlYear == 0..65535
EncodeDate(date) == IF date[1] \in MySqlYear THEN [len |-> 4, fields |-> date] ELSE [len |-> -1, fields |-> <<>>]

\* naive_dt_encoded_len.
DateTimeLen(t) == IF t = Zero THEN 4 ELSE IF t.micros = 0 THEN 7 ELSE 11

EncodeDateTime(date, t) ==
    LET d == EncodeDate(date)
        len == DateTimeLen(t)
    IN  IF d.len = -1 THEN d
        ELSE [len |-> len, fields |-> d.fields \o (IF len > 4 THEN <<t.hours, t.minutes, t.seconds>> ELSE <<>>)
                                              \o (IF len > 7 THEN <<t.micros>> ELSE <<>>)]
DecodeDateTime(b) ==
    [date |-> SubSeq(b.fields, 1, 3),
     time |-> IF b.len > 4 THEN Time(FALSE, b.fields[4], b.fields[5], b.fields[6], IF b.len > 7 THEN b.fields[7] ELSE 0) ELSE Zero]

-----------------------------------------------------------------------------
(* The text format                                                         *)

\* The server's text: the sign with the hours, and a fraction of `fsp'
\* digits.
TextOf(t, fsp) ==
    [sign |-> t.negative, hours |-> t.hours, minutes |-> t.minutes, seconds |-> t.seconds,
     fsp |-> fsp, fraction |-> t.micros \div (10 ^ (Digits - fsp))]

\* parse_microseconds: fewer digits are scaled, more are cut off.
ParseMicroseconds(fsp, fraction) ==
    IF fsp <= Digits THEN fraction * 10 ^ (Digits - fsp) ELSE fraction \div (10 ^ (fsp - Digits))

\* parse: the sign is that of the hours, and "-0" is not negative.
Parse(x) ==
    New(x.sign /\ x.hours > 0, x.hours, x.minutes, x.seconds,
        IF x.fsp = 0 THEN 0 ELSE ParseMicroseconds(x.fsp, x.fraction))

-----------------------------------------------------------------------------
(* Conversions.  A duration is a signed number of nanoseconds, here the    *)
(* hundredth part of a microsecond.                                        *)

Nanos == 100
FromDuration(ns) ==
    LET secs == ns \div (Micros * Nanos)
        rest == secs % ((FieldMax + 1) * (FieldMax + 1))
    IN  New(FALSE, secs \div ((FieldMax + 1) * (FieldMax + 1)), rest \div (FieldMax + 1), rest % (FieldMax + 1), (ns \div Nanos) % Micros)

\* TryFrom<chrono::TimeDelta> and TryFrom<time::Duration>.
FromTimeDelta(ns) == WithSign(FromDuration(IF ns < 0 THEN -ns ELSE ns), ns < 0)

\* From<MySqlTime>: the seconds take the sign, the fraction does not.
ToTimeDelta(t) == ((IF t.negative THEN -WholeSeconds(t) ELSE WholeSeconds(t)) * Micros + t.micros) * Nanos

\* TryFrom<MySqlTime> for time::Time, and for chrono's NaiveTime, which looks
\* at the fields alone.
ToTime(t) == IF IsValidTimeOfDay(t) THEN t ELSE Refused
ToNaiveTime(t) == IF t.hours < DayHours THEN WithSign(t, FALSE) ELSE Refused

-----------------------------------------------------------------------------
Nowhere == [op |-> "none", of |-> Zero, other |-> Zero, read |-> Zero, date |-> <<>>, date_read |-> <<>>, number |-> 0, answer |-> 0]
TimesInit == moment = Nowhere

\* The times a server can hold: `New' accepts them.
Times == {t \in {Time(n, h, m, s, us) : n \in BOOLEAN, h \in 0..HoursMax, m \in {0, 1, FieldMax}, s \in {0, 1, FieldMax}, us \in Fractions} :
            Magnitude(t) <= MagnitudeMax /\ (t.negative => Magnitude(t) > 0)}
Dates == Years \X {1, 12} \X {1, 31}

SendTime(t) == moment' = [Nowhere EXCEPT !.op = "binary", !.of = t, !.read = DecodeTime(EncodeTime(t))]
ReceiveTime(t, fsp) ==
    moment' = [Nowhere EXCEPT !.op = "text", !.number = fsp, !.read = Parse(TextOf(t, fsp)),
                                      !.of = [t EXCEPT !.micros = (@ \div (10 ^ (Digits - fsp))) * 10 ^ (Digits - fsp)]]
NewTime(n, h, m, s, us) ==
    moment' = [Nowhere EXCEPT !.op = "new", !.of = Time(n, h, m, s, us), !.read = New(n, h, m, s, us)]
Compare(a, b) == moment' = [Nowhere EXCEPT !.op = "cmp", !.of = a, !.other = b, !.answer = Cmp(a, b)]
BindDuration(ns) == moment' = [Nowhere EXCEPT !.op = "duration", !.number = ns, !.read = FromTimeDelta(ns)]
ReadDuration(t) == moment' = [Nowhere EXCEPT !.op = "delta", !.of = t, !.number = ToTimeDelta(t)]
ReadTimeOfDay(t) == moment' = [Nowhere EXCEPT !.op = "time", !.of = t, !.read = ToTime(t)]
ReadNaiveTime(t) == moment' = [Nowhere EXCEPT !.op = "naive", !.of = t, !.read = ToNaiveTime(t)]
SendDateTime(date, t) ==
    LET b == EncodeDateTime(date, t)
    IN  moment' = [Nowhere EXCEPT !.op = "datetime", !.of = t, !.date = date, !.answer = b.len,
                          !.read = IF b.len = -1 THEN Refused ELSE DecodeDateTime(b).time,
                          !.date_read = IF b.len = -1 THEN <<>> ELSE DecodeDateTime(b).date]
SendTimeOfDay(t) == moment' = [Nowhere EXCEPT !.op = "binary", !.of = t, !.read = DecodeTime(EncodeTimeOfDay(t))]

TimesNext ==
    /\ moment = Nowhere
    /\ \/ \E t \in Times :
            \/ SendTime(t) \/ ReadDuration(t) \/ ReadTimeOfDay(t) \/ ReadNaiveTime(t)
            \/ \E fsp \in 0..Digits : ReceiveTime(t, fsp)
            \/ IsValidTimeOfDay(t) /\ (SendTimeOfDay(t) \/ \E date \in Dates : SendDateTime(date, t))
            \/ \E sign \in {-1, 1}, sub \in {0, Nanos - 1} : BindDuration(sign * (Magnitude(t) * Nanos + sub))
       \/ \E a, b \in {t \in Times : t.minutes # 1 /\ t.seconds = 0 /\ t.micros < 10} : Compare(a, b)
       \/ \E n \in BOOLEAN, h \in {0, HoursMax, HoursMax + 1}, m, s \in {0, FieldMax, FieldMax + 1}, us \in {0, 1, Micros} : NewTime(n, h, m, s, us)
TimesSpec == TimesInit /\ [][TimesNext]_moment

-----------------------------------------------------------------------------
\* A TIME bound or returned in the binary format is the one that was meant,
\* for every combination of fields that the length leaves out.
\* (mysql_time.rs:358-450, chrono.rs:71-91)
TimeReadsBack == moment.op = "binary" => moment.read = moment.of

\* So does a TIME in the text format, with any number of digits, but for the
\* times that Parse takes for positive: negative ones of less than an hour,
\* as the sign is that of the hours and "-00" has none (mysql_time.rs:576).
\* types/mod.rs:23 promises MySqlTime the full range, so this is a defect.
\* (mysql_time.rs:555-627)
SignLost(t) == t.negative /\ t.hours = 0
TimeTextReadsBack == (moment.op = "text" /\ ~SignLost(moment.of)) => moment.read = moment.of

\* new() accepts exactly the values that TIME has: fields in range, no
\* negative zero, and nothing beyond +/-838:59:59.  (mysql_time.rs:136-192)
NewIsExact ==
    moment.op = "new" =>
        ~moment.read.err <=> /\ moment.of.minutes <= FieldMax /\ moment.of.seconds <= FieldMax /\ moment.of.micros < Micros
                             /\ Total(moment.of) \in -MagnitudeMax..MagnitudeMax
                             /\ moment.of.negative => Total(moment.of) < 0

\* Times are ordered as the numbers they stand for.  (mysql_time.rs:290-304)
OrderIsTotal ==
    moment.op = "cmp" =>
        LET d == Total(moment.of) - Total(moment.other)
        IN  moment.answer = IF d < 0 THEN -1 ELSE IF d > 0 THEN 1 ELSE 0

\* A duration that is bound is truncated to microseconds, keeps its sign, and
\* is refused beyond TIME's range.  (chrono.rs:134-150, mysql_time.rs:466-490)
DurationTruncated ==
    moment.op = "duration" =>
        LET ns == IF moment.number < 0 THEN -moment.number ELSE moment.number
            us == ns \div Nanos
        IN  IF us > MagnitudeMax THEN moment.read.err
            ELSE ~moment.read.err /\ Magnitude(moment.read) = us /\ (moment.read.negative <=> moment.number < 0)

\* A duration that is read is the TIME's, but for negative times with a
\* fraction of a second, which counts against the sign (chrono.rs:129,
\* time.rs:111).  types/mod.rs:70 and 94 promise the full range, so this is
\* a defect.  (chrono.rs:127-132, time.rs:107-113)
FractionTurned(t) == t.negative /\ t.micros > 0
DurationRead == (moment.op = "delta" /\ ~FractionTurned(moment.of)) => moment.number = Total(moment.of) * Nanos

\* A time of day is read as it is, and what is none is refused; except that
\* NaiveTime drops the sign of a negative TIME of less than a day, which
\* chrono.rs:96 and types/mod.rs:66 promise to refuse.  (chrono.rs:114-126,
\* time.rs:81-105)
TimeOfDayRead ==
    moment.op \in {"time", "naive"} =>
        \/ IF IsValidTimeOfDay(moment.of) THEN moment.read = moment.of ELSE moment.read.err
        \/ moment.op = "naive" /\ moment.of.negative

\* A DATETIME reads back although the encoder leaves out a midnight and a
\* fraction of zero; a year beyond sixteen bits is refused.
\* (chrono.rs:170-351)
DateTimeReadsBack ==
    moment.op = "datetime" =>
        IF moment.date[1] \in MySqlYear
        THEN moment.read = moment.of /\ moment.date_read = moment.date
        ELSE moment.read.err

=============================================================================
