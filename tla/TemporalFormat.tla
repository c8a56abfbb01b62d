--------------------------- MODULE TemporalFormat ---------------------------
(***************************************************************************)
(* The date and time adapters of gaussdb.types.datetime: what a date, a    *)
(* time, a datetime or a timedelta is dumped as, and what the text and the *)
(* binary loaders make of what the server sends.                           *)
(*                                                                         *)
(* A text is the sequence of fields its pattern matches; separators, names *)
(* of days and months are left out.  The units are parameters (TLC's       *)
(* integers have 32 bits); so are the first and last day a Python date     *)
(* can be.  A datetime is a day, counted from the server's epoch, and a    *)
(* time of the day in microseconds; a time zone is its offset in seconds.  *)
(***************************************************************************)
EXTENDS Values

CONSTANTS FracDigits,          \* digits of a fraction of a second (6)
          MinuteSecs, HourMins, DayHours,  \* 60, 60, 24
          MinDay, MaxDay,      \* date.min, date.max, days from the epoch
          MinTooSmall,         \* _GAUSSDB_MIN_MICROS
          MaxDeltaDays,        \* timedelta.max.days
          FloatBits,           \* bits of the significand of a float (53)
          FloatScale           \* bound: the finest float is 2^-FloatScale seconds

ASSUME TemporalAssumption ==
  /\ FracDigits \in Nat /\ {MinuteSecs, HourMins, DayHours} \subseteq Nat \ {0}
  /\ MinDay \in Int /\ MaxDay \in Int /\ MinDay < 0 /\ 0 < MaxDay
  /\ MinTooSmall \in Int
  /\ {MaxDeltaDays, FloatBits, FloatScale} \subseteq Nat \ {0}

US == 10 ^ FracDigits
HourSecs == HourMins * MinuteSecs
DaySecs  == DayHours * HourSecs
DayUs    == DaySecs * US
Error(side) == [error |-> side]
IsError(r)  == "error" \in DOMAIN r

\* divmod() of nested units; the code divides by a positive number only.
Split(val) == [h |-> (val \div US) \div HourSecs,
               m |-> ((val \div US) \div MinuteSecs) % HourMins,
               s |-> (val \div US) % MinuteSecs, us |-> val % US]
Micros(t) == t.us + US * (t.s + MinuteSecs * (t.m + HourMins * t.h))

-----------------------------------------------------------------------------
(* time, timetz                                                             *)

\* The microseconds of the digits after the point (_uspad).
Fraction(fr) ==
  LET n == FoldLeft(LAMBDA a, d : 10 * a + d, 0, fr)
  IN  IF Len(fr) < FracDigits THEN n * 10 ^ (FracDigits - Len(fr)) ELSE n

\* time(): 24:00, which the server knows, is not a time of Python's.
PyTime(t, tz) == IF t.h < DayHours THEN [time |-> t, tz |-> tz]
                 ELSE Error("time")

\* The binary format has the offset west of UTC.
dump_time(t)        == Micros(t)
dump_timetz(t, off) == <<Micros(t), -off>>
load_time_binary(val) == PyTime(Split(val), "none")
load_timetz_binary(b) == PyTime(Split(b[1]), -b[2])

TimeText(t, fr) == [ho |-> t.h, mi |-> t.m, se |-> t.s, fr |-> fr]
load_time(x) == PyTime([h |-> x.ho, m |-> x.mi, s |-> x.se,
                        us |-> Fraction(x.fr)], "none")
\* Minutes and seconds of an offset are there only when they are not zero.
OffsetOf(z) == LET off == HourSecs * z.oh + MinuteSecs * z.om + z.os
               IN  IF z.sgn = "+" THEN off ELSE -off
load_timetz(x, z) == PyTime(load_time(x).time, OffsetOf(z))

-----------------------------------------------------------------------------
(* date, timestamp                                                          *)

Styles == {"ISO", "German", "SQL", "Postgres"}
Orders == {"YMD", "DMY", "MDY"}

\* DateLoader.__init__, TimestampLoader.__init__: the order of the fields.
_order(style, order) ==
  CASE style = "ISO" -> "YMD"
    [] style = "German" -> "DMY"
    [] OTHER -> IF order = "DMY" THEN "DMY" ELSE "MDY"

\* What the server sends for a year, a month and a day under a DateStyle.
ServerDate(style, order, y, m, d) ==
  CASE style = "ISO" -> <<y, m, d>>
    [] style = "German" -> <<d, m, y>>
    [] style \in {"SQL", "Postgres"} /\ order = "DMY" -> <<d, m, y>>
    [] OTHER -> <<m, d, y>>

\* A year after 9999 or before 1 is not parsed: the side is found in the text.
load_date(style, order, x, MaxYear) ==
  LET o == _order(style, order)
      y == IF o = "YMD" THEN x[1] ELSE x[3]
  IN  CASE y > MaxYear -> Error("large")
        [] y < 1 -> Error("small")
        [] OTHER -> [ye |-> y,
                     mo |-> IF o = "MDY" THEN x[1] ELSE x[2],
                     da |-> CASE o = "YMD" -> x[3] [] o = "DMY" -> x[1]
                              [] OTHER -> x[2]]

dump_date_binary(day) == day
load_date_binary(day) == IF day < MinDay THEN Error("small")
                         ELSE IF day > MaxDay THEN Error("large")
                         ELSE [day |-> day]

-----------------------------------------------------------------------------
(* timestamptz                                                              *)

MinUs == MinDay * DayUs
MaxUs == (MaxDay + 1) * DayUs - 1
InRange(us) == MinUs <= us /\ us <= MaxUs
\* A datetime: its local time and its offset, both in microseconds here.
Aware(local, off) == [local |-> local, off |-> off]
Instant(dt) == dt.local - dt.off * US

\* DatetimeBinaryDumper, DatetimeNoTzBinaryDumper: the days, seconds and
\* microseconds of the difference from the epoch.
dump_timestamptz(dt) == Instant(dt)
load_timestamp_binary(us) == IF InRange(us) THEN [local |-> us]
                             ELSE IF us < MinTooSmall THEN Error("small")
                             ELSE Error("large")

\* astimezone(): overflows when the local time is out of range.
astimezone(us, zone) == IF InRange(us + zone * US) THEN Aware(us + zone * US, zone)
                        ELSE Error("overflow")

\* A timestamp that overflows in UTC may not do it in the time zone of the
\* connection: it is shifted before it is made a datetime.
load_timestamptz_binary(us, zone) ==
  LET direct == IF InRange(us) THEN astimezone(us, zone) ELSE Error("overflow")
  IN  IF ~IsError(direct) THEN direct
      ELSE IF zone # 0 /\ InRange(us + zone * US) THEN Aware(us + zone * US, zone)
      ELSE IF us <= 0 THEN Error("small") ELSE Error("large")

\* What the server sends in text: the local time in its session's time zone,
\* with its offset.  A year that Python has not is not matched.
ServerTimestamptz(us, zone) == Aware(us + zone * US, zone)

\* _load_iso: through UTC to the connection's time zone, and in the offset of
\* the text when that overflows.  Only with DateStyle ISO.
load_timestamptz(style, x, zone) ==
  LET utc == x.local - x.off * US
      moved == IF InRange(utc) THEN astimezone(utc, zone) ELSE Error("overflow")
  IN  IF style # "ISO" THEN Error("not implemented")
      ELSE IF ~InRange(x.local)
      THEN Error(IF x.local < MinUs THEN "small" ELSE "large")
      ELSE IF IsError(moved) THEN x ELSE moved

-----------------------------------------------------------------------------
(* interval                                                                 *)

\* timedelta(): any days, the seconds and microseconds of a day not negative.
\* It overflows beyond timedelta.min and max.
Delta(days, us) == [days |-> days + us \div DayUs, us |-> us % DayUs]
Abs(n) == IF n < 0 THEN -n ELSE n
timedelta(days, us) == IF Abs(Delta(days, us).days) > MaxDeltaDays THEN Error("overflow")
                       ELSE Delta(days, us)

IntervalStyles == {"postgres", "postgres_verbose", "sql_standard", "iso_8601"}

dump_timedelta_binary(td) == [micros |-> td.us, days |-> td.days, months |-> 0]

\* The text is a sequence of counts of a unit, each with the sign it is written
\* with, if any: %d and str() write that of negative numbers, %+d any.
MaybeSigned(n, unit) == [sgn |-> IF n < 0 THEN "-" ELSE "", n |-> Abs(n), unit |-> unit]
Signed(n, unit)  == [sgn |-> IF n < 0 THEN "-" ELSE "+", n |-> Abs(n), unit |-> unit]

\* str(): the days if there are any, the time of the day.
_dump_any(td) == (IF td.days = 0 THEN <<>> ELSE <<MaybeSigned(td.days, "day")>>)
                   \o <<MaybeSigned(td.us, "microsecond")>>
_dump_sql(td) == <<Signed(td.days, "day"), Signed(td.us \div US, "second"),
                   Signed(td.us % US, "microsecond")>>

\* Mutant of dump_timedelta: the style is not looked at.
dump_timedelta_Any(style, td) == _dump_any(td)

\* TimedeltaDumper, which knows the style of the connection.
dump_timedelta(style, td) == IF style = "sql_standard" THEN _dump_sql(td) ELSE _dump_any(td)

\* What the server reads: in the sql_standard style the sign of the first field
\* is that of all if no other has one.
ServerReadsInterval(style, x) ==
  LET all == style = "sql_standard" /\ x[1].sgn = "-" /\ \A i \in 2..Len(x) : x[i].sgn = ""
      val(i) == IF all \/ x[i].sgn = "-" THEN -x[i].n ELSE x[i].n
      sum(unit) == MapThenSumSet(val, {i \in DOMAIN x : x[i].unit = unit})
  IN  [micros |-> US * sum("second") + sum("microsecond"), days |-> sum("day"), months |-> 0]

\* Years and months in days.
MonthDays(months) ==
  IF months >= 0 THEN 30 * (months % 12) + 365 * (months \div 12)
  ELSE -(30 * ((-months) % 12) + 365 * ((-months) \div 12))

\* IntervalBinaryLoader.load: an OverflowError is made a DataError.
load_interval_binary(b) == timedelta(b.days + MonthDays(b.months), b.micros)

\* Seconds as a float, counted in 2^-FloatScale microseconds: the nearest
\* multiple of the last of its FloatBits bits, the even one of two.
Tick    == 2 ^ FloatScale
SecTick == US * Tick
RoundTo(v, unit) ==
  LET q == v \div unit
      r == 2 * (v % unit)
  IN  unit * IF r > unit \/ (r = unit /\ q % 2 = 1) THEN q + 1 ELSE q
LastBit(v) == US * 2 ^ Min({i \in 0..FloatScale : v < US * 2 ^ (FloatBits + i)})
Float(v) == RoundTo(v, LastBit(v))

\* The fields of the text of an interval in the style postgres: years and
\* months have one sign, days and time one each.
Sign(n) == IF n < 0 THEN -1 ELSE 1
ServerInterval(b) ==
  [ye |-> Sign(b.months) * (Abs(b.months) \div 12),
   mo |-> Sign(b.months) * (Abs(b.months) % 12), da |-> b.days,
   sgn |-> Sign(b.micros), time |-> Split(Abs(b.micros))]

\* IntervalLoader.load: the seconds go through floats, float(se) and the sum,
\* and timedelta() rounds them to microseconds.
load_interval(style, x) ==
  LET seconds == Float(SecTick * (HourSecs * x.time.h + MinuteSecs * x.time.m)
                         + Float(SecTick * x.time.s + Tick * x.time.us))
  IN  IF style # "postgres" THEN Error("not implemented")
      ELSE timedelta(365 * x.ye + 30 * x.mo + x.da,
                     x.sgn * (RoundTo(seconds, Tick) \div Tick))

-----------------------------------------------------------------------------
(* Properties                                                               *)

\* The digits of a fraction that the server sends: no trailing zero.
FractionText(us) ==
  LET digits == [i \in 1..FracDigits |-> (us \div 10 ^ (FracDigits - i)) % 10]
  IN  SubSeq(digits, 1, SelectLastInSeq(digits, LAMBDA d : d # 0))

\* A time with an offset read from text and from binary is the time that was
\* dumped; 24:00 is an error from both.
TimeSurvives(t, off) ==
  LET a   == Abs(off)
      z   == [sgn |-> IF off < 0 THEN "-" ELSE "+", oh |-> a \div HourSecs,
              om |-> (a \div MinuteSecs) % HourMins, os |-> a % MinuteSecs]
      x   == TimeText(t, FractionText(t.us))
  IN  IF t.h < DayHours
      THEN /\ load_time(x) = [time |-> t, tz |-> "none"]
           /\ load_time_binary(dump_time(t)) = load_time(x)
           /\ load_timetz(x, z) = [time |-> t, tz |-> off]
           /\ load_timetz_binary(dump_timetz(t, off)) = load_timetz(x, z)
      ELSE IsError(load_time(x)) /\ IsError(load_time_binary(Micros(t)))

\* A date is read right under every DateStyle, or is an error of the right side.
DateSurvives(style, order, y, m, d, MaxYear) ==
  load_date(style, order, ServerDate(style, order, y, m, d), MaxYear) =
    CASE y < 1 -> Error("small") [] y > MaxYear -> Error("large")
      [] OTHER -> [ye |-> y, mo |-> m, da |-> d]

\* The text and the binary loader agree on a timestamp, in every time zone:
\* both give its instant or both give an error, and it is of the right side.
\* Every datetime with the zone of the connection comes back.
TimestampAgrees(us, zone) ==
  LET bin  == load_timestamptz_binary(us, zone)
      text == load_timestamptz("ISO", ServerTimestamptz(us, zone), zone)
      side == IF us < 0 THEN "small" ELSE "large"
  IN  /\ IsError(bin) <=> IsError(text)
      /\ IsError(bin) <=> ~InRange(us + zone * US)
      /\ IF IsError(bin) THEN bin = Error(side) /\ text = Error(side)
         ELSE /\ Instant(bin) = us /\ Instant(text) = us
              /\ dump_timestamptz(bin) = us
      /\ LET naive == load_timestamp_binary(us)
         IN  naive = (IF InRange(us) THEN [local |-> us] ELSE Error(side))

\* A timedelta comes back in every style, though the server reads signs in its
\* own way in one of them.  An interval with months is the same timedelta in text
\* and in binary, whatever the signs of its parts, as long as floats count
\* microseconds (with 53 bits, up to 71 years of time of the day); beyond, the
\* text is off by no more than their last bit.  Too large an interval is an
\* error.
IntervalAgrees(b) ==
  LET bin  == load_interval_binary(b)
      text == load_interval("postgres", ServerInterval(b))
      all  == (b.days + MonthDays(b.months)) * DayUs + b.micros
      late == Abs(b.micros) \div 2 ^ (FloatBits - 1)
      near == {load_interval_binary([b EXCEPT !.micros = @ + k]) : k \in -(late + 1)..(late + 1)}
  IN  /\ IF 4 * Abs(b.micros) <= 2 ^ FloatBits THEN text = bin ELSE text \in near
      /\ IsError(bin) <=> all < -MaxDeltaDays * DayUs \/ all >= (MaxDeltaDays + 1) * DayUs
      /\ b.months = 0 /\ ~IsError(bin) =>
           /\ load_interval_binary(dump_timedelta_binary(bin)) = bin
           /\ \A style \in IntervalStyles :
                load_interval_binary(ServerReadsInterval(style, dump_timedelta(style, bin))) = bin
=============================================================================
