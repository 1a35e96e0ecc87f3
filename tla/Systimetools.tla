---------------------------- MODULE Systimetools ---------------------------
(***************************************************************************)
(* Dates of src/src/systimetools.c: formatting and parsing of a local      *)
(* time, its conversion to seconds since 1970, and the time_ctx that is    *)
(* given a date and an hour by separate calls.                             *)
(*                                                                         *)
(* A string is modelled by its layout and the numbers in it, NaN standing  *)
(* for characters that are not a number.  Seconds since 1970 are a pair of *)
(* days and seconds of a day: the code's uint64_t does not fit TLC's       *)
(* integers.  The calendar against which the conversions are checked is    *)
(* walked from day to day by the Gregorian rule.                           *)
(***************************************************************************)
EXTENDS Integers, Sequences

CONSTANTS Days,         \* bound: how far the calendar is walked from 1970-01-01
          DayTimes,     \* seconds of the day at which times are formatted
          UtcOffsets,   \* utc_offset_sec of a time that is formatted
          Dates,        \* date strings given to a time_ctx
          Hours,        \* hour strings given to a time_ctx
          Separators    \* what may stand between them: "T", " ", "other"

\* To the end of the year 9999: the formats have four digits for a year.
ASSUME DaysAssumption == Days \in Nat /\ Days <= 2932896

Abs(n) == IF n < 0 THEN -n ELSE n

\* Not a number, not even in its first character: strtol() stores 0 and
\* parse_num fails.
NaN == -1

\* The strings, by the layouts and zones that the parser tells apart, and any
\* other.  Only months from 1 to 12: the code takes any number that strtol() reads,
\* and tm_mkepoch_local looks one beyond the twelfth, or a negative one, up outside
\* of its table (systimetools.c:567), so that what comes of it is not defined.
Number == Nat \cup {NaN}
DateStrings == [layout : {"long", "short", "rfc1123", "other"},
                year : Number, mon : 1 .. 12 \cup {NaN}, mday : Number]
HourStrings == [layout : {"long", "short", "other"},
                hour : Number, min : Number, sec : Number,
                zone : {"long", "short", "Z", "GMT", "UT", "UTC", "none"},
                zsign : {-1, 1}, zhour : Number, zmin : Number]

ASSUME StringsAssumption == Dates \subseteq DateStrings /\ Hours \subseteq HourStrings

\* The formats have two digits for the hours of an offset.
ASSUME TimesAssumption ==
  /\ \A s \in DayTimes : s \in Nat /\ s < 86400
  /\ \A o \in UtcOffsets : o \in Int /\ Abs(o) < 100 * 3600

VARIABLES day, today,   \* days since 1970-01-01, and the date of that day
          ctx,          \* a struct time_ctx
          dateIn, hourIn \* history: the strings it has accepted, or "none"

dateVars == <<day, today, ctx, dateIn, hourIn>>

BlankTm == [tm_year |-> 0, tm_mon |-> 0, tm_mday |-> 0,
            tm_hour |-> 0, tm_min |-> 0, tm_sec |-> 0, gmtoff |-> 0]

-----------------------------------------------------------------------------
(* Parsing.  A struct tm holds the fields as the parser stores them.       *)

\* The fields after the numbers ns were parsed in order into the fields fs, up
\* to the first that is not one; it is stored as 0 unless it is kept.
StoreNumbers(tm, fs, ns, kept) ==
  [f \in DOMAIN tm |->
     IF \E i \in DOMAIN fs : /\ fs[i] = f
                             /\ \A j \in 1 .. i - 1 : ns[j] # NaN
                             /\ ns[i] # NaN \/ f \notin kept
     THEN LET i == CHOOSE i \in DOMAIN fs : fs[i] = f
          IN  IF ns[i] = NaN THEN 0 ELSE ns[i]
     ELSE tm[f]]

AllNumbers(ns) == \A i \in DOMAIN ns : ns[i] # NaN

DateFields == <<"tm_year", "tm_mon", "tm_mday">>
DateNumbers(d) == <<d.year, d.mon, d.mday>>

\* YYYY-MM-DD and YYYYMMDD: whether it succeeds and what it leaves in tm.
parse_date(d, tm) ==
  IF d.layout \notin {"long", "short"} THEN [ok |-> FALSE, tm |-> tm]
  ELSE [ok |-> AllNumbers(DateNumbers(d)),
        tm |-> StoreNumbers(tm, DateFields, DateNumbers(d), {})]

\* aaa, DD bbb YYYY or aaa, bbb DD YYYY; an unknown month is not stored.
parse_date_rfc1123(d, tm) ==
  [ok |-> AllNumbers(DateNumbers(d)),
   tm |-> StoreNumbers(tm, DateFields, DateNumbers(d), {"tm_mon"})]

\* The number of seconds of a zone: +zz:zz, +zzzz, or one of the names of UTC.
ZoneNumbers(h) == IF h.zone \in {"long", "short"} THEN <<h.zhour, h.zmin>> ELSE <<0, 0>>
ZoneKnown(h) == h.zone \in {"long", "short", "Z", "GMT", "UT", "UTC"}
GmtOff(h) == IF h.zone \in {"long", "short"} THEN (h.zhour * 60 + h.zmin) * 60 * h.zsign
             ELSE 0

\* hh:mm:ss or hhmmss and a zone.  gmtoff is stored last, when all is well.
parse_time(h, tm) ==
  LET hms == <<h.hour, h.min, h.sec>>
      ok == AllNumbers(hms) /\ ZoneKnown(h) /\ AllNumbers(ZoneNumbers(h))
      stored == StoreNumbers(tm, <<"tm_hour", "tm_min", "tm_sec">>, hms, {})
  IN  IF h.layout \notin {"long", "short"} THEN [ok |-> FALSE, tm |-> tm]
      ELSE [ok |-> ok,
            tm |-> IF ok THEN [stored EXCEPT !.gmtoff = GmtOff(h)] ELSE stored]

\* A date, a separator and an hour.  After an RFC 1123 date, a separator that
\* is neither a space nor a T is taken for the first character of the hour.
parse_date_time(d, sep, h, tm) ==
  LET date == IF d.layout = "rfc1123" THEN parse_date_rfc1123(d, tm) ELSE parse_date(d, tm)
  IN  IF d.layout # "rfc1123" /\ sep = "other" THEN [ok |-> FALSE, tm |-> tm]
      ELSE IF ~date.ok THEN date
      ELSE parse_time(IF sep = "other" THEN [h EXCEPT !.hour = NaN] ELSE h, date.tm)

\* What the callers do after a success.
Rebase(tm) == [tm EXCEPT !.tm_year = @ - 1900, !.tm_mon = @ - 1]

-----------------------------------------------------------------------------
(* Seconds since 1970.                                                     *)

Epoch(days, secs) == <<days + secs \div 86400, secs % 86400>>

cumulative_nb_day_per_month ==
  <<0, 30, 61, 91, 122, 152, 183, 214, 244, 275, 305, 336, 367>>

\* Mutant: every fourth year is a leap year.
tm_mkepoch_local_julian(tm, gmtoff) ==
  LET m == tm.tm_mon + 1 - 2
      month == IF m <= 0 THEN m + 12 ELSE m
      year == IF m <= 0 THEN tm.tm_year + 1900 - 1 ELSE tm.tm_year + 1900
      days == year \div 4 - 15 + year * 365
                + cumulative_nb_day_per_month[month + 1] + tm.tm_mday - 719499
  IN  Epoch(days, (tm.tm_hour * 60 + tm.tm_min) * 60 + tm.tm_sec - gmtoff)

\* The year begins in March, so that the leap day is its last.
tm_mkepoch_local(tm, gmtoff) ==
  LET m == tm.tm_mon + 1 - 2
      month == IF m <= 0 THEN m + 12 ELSE m
      year == IF m <= 0 THEN tm.tm_year + 1900 - 1 ELSE tm.tm_year + 1900
      days == year \div 4 - year \div 100 + year \div 400 + year * 365
                + cumulative_nb_day_per_month[month + 1] + tm.tm_mday - 719499
  IN  Epoch(days, (tm.tm_hour * 60 + tm.tm_min) * 60 + tm.tm_sec - gmtoff)

-----------------------------------------------------------------------------
(* Formatting.                                                             *)

\* gmtime_r() of a local time of the present day.
gmtime_r(local) ==
  [tm_year |-> today.year - 1900, tm_mon |-> today.mon - 1, tm_mday |-> today.mday,
   tm_hour |-> local[2] \div 3600, tm_min |-> (local[2] \div 60) % 60, tm_sec |-> local[2] % 60]

\* tm_gmtoff is set too, but on Windows.
time_local_to_tm(epoch, utc_offset_sec) ==
  LET tm == gmtime_r(Epoch(epoch[1], epoch[2] + utc_offset_sec))
  IN  [f \in DOMAIN BlankTm |-> IF f = "gmtoff" THEN utc_offset_sec ELSE tm[f]]

time_local_from_tm(tm) == [epoch |-> tm_mkepoch_local(tm, tm.gmtoff), gmtoff |-> tm.gmtoff]

Formats == {"iso8601_short", "iso8601_long", "rfc1123"}

\* time_local_format: the date, the separator and the hour of the string.
time_local_format(epoch, utc_offset_sec, fmt) ==
  LET tm == gmtime_r(Epoch(epoch[1], epoch[2] + utc_offset_sec))
      size == IF fmt = "iso8601_short" THEN "short" ELSE "long"
  IN  [d |-> [layout |-> IF fmt = "rfc1123" THEN "rfc1123" ELSE size,
              year |-> tm.tm_year + 1900, mon |-> tm.tm_mon + 1, mday |-> tm.tm_mday],
       sep |-> IF fmt = "rfc1123" THEN " " ELSE "T",
       h |-> [layout |-> size, hour |-> tm.tm_hour, min |-> tm.tm_min, sec |-> tm.tm_sec,
              zone |-> CASE fmt = "rfc1123" /\ utc_offset_sec = 0 -> "GMT"
                         [] fmt = "rfc1123" /\ utc_offset_sec # 0 -> "short"
                         [] OTHER -> size,
              zsign |-> IF utc_offset_sec < 0 THEN -1 ELSE 1,
              zhour |-> Abs(utc_offset_sec) \div 3600,
              zmin |-> (Abs(utc_offset_sec) \div 60) % 60]]

\* time_local_parse: seconds since 1970 and offset.
time_local_parse(text) ==
  LET p == parse_date_time(text.d, text.sep, text.h, BlankTm)
  IN  [ok |-> p.ok, epoch |-> tm_mkepoch_local(Rebase(p.tm), p.tm.gmtoff), gmtoff |-> p.tm.gmtoff]

-----------------------------------------------------------------------------
(* The calendar: the Gregorian rule, one day after the other.              *)

Leap(y) == y % 4 = 0 /\ (y % 100 # 0 \/ y % 400 = 0)

MonthLength(y, m) ==
  CASE m = 2 -> IF Leap(y) THEN 29 ELSE 28
    [] m \in {4, 6, 9, 11} -> 30
    [] OTHER -> 31

NextDay ==
  /\ ctx.ret = "none"
  /\ day < Days
  /\ day' = day + 1
  /\ today' = CASE today.mday < MonthLength(today.year, today.mon) ->
                     [today EXCEPT !.mday = @ + 1]
                [] today.mday = MonthLength(today.year, today.mon) /\ today.mon < 12 ->
                     [today EXCEPT !.mday = 1, !.mon = @ + 1]
                [] OTHER -> [year |-> today.year + 1, mon |-> 1, mday |-> 1]
  /\ UNCHANGED <<ctx, dateIn, hourIn>>

\* The bound: after the last day the calendar begins again.
FirstDay ==
  /\ day = Days
  /\ day' = 0 /\ today' = [year |-> 1970, mon |-> 1, mday |-> 1]
  /\ UNCHANGED <<ctx, dateIn, hourIn>>

-----------------------------------------------------------------------------
(* A time_ctx: fields set so far, and a tm that failed calls write to too. *)

DateInit == /\ day = 0
            /\ today = [year |-> 1970, mon |-> 1, mday |-> 1]
            /\ ctx = [fields |-> {}, tm |-> BlankTm, ret |-> "none"]
            /\ dateIn = "none" /\ hourIn = "none"

TIME_FIELD_ALL == {"date", "hour"}

CtxUsed == day = 0 /\ UNCHANGED <<day, today>>

Refuse(r) == ctx' = [ctx EXCEPT !.ret = r] /\ UNCHANGED <<dateIn, hourIn>>

Status(fields) == IF fields = TIME_FIELD_ALL THEN "ok" ELSE "EINPROGRESS"

time_ctx_init == /\ CtxUsed
                 /\ ctx' = [fields |-> {}, tm |-> BlankTm, ret |-> "ok"]
                 /\ dateIn' = "none" /\ hourIn' = "none"

time_ctx_set_date(d) ==
  LET p == parse_date(d, ctx.tm)
      fields == ctx.fields \cup {"date"}
  IN  /\ CtxUsed
      /\ \/ "date" \in ctx.fields /\ Refuse("EEXIST")
         \/ /\ "date" \notin ctx.fields /\ ~p.ok
            /\ ctx' = [ctx EXCEPT !.tm = p.tm, !.ret = "EINVAL"]
            /\ UNCHANGED <<dateIn, hourIn>>
         \/ /\ "date" \notin ctx.fields /\ p.ok
            /\ ctx' = [fields |-> fields, tm |-> Rebase(p.tm), ret |-> Status(fields)]
            /\ dateIn' = d /\ UNCHANGED hourIn

time_ctx_set_hour(h) ==
  LET p == parse_time(h, ctx.tm)
      fields == ctx.fields \cup {"hour"}
  IN  /\ CtxUsed
      /\ \/ "hour" \in ctx.fields /\ Refuse("EEXIST")
         \/ /\ "hour" \notin ctx.fields /\ ~p.ok
            /\ ctx' = [ctx EXCEPT !.tm = p.tm, !.ret = "EINVAL"]
            /\ UNCHANGED <<dateIn, hourIn>>
         \/ /\ "hour" \notin ctx.fields /\ p.ok
            /\ ctx' = [fields |-> fields, tm |-> p.tm, ret |-> Status(fields)]
            /\ hourIn' = h /\ UNCHANGED dateIn

\* Mutant: only a complete context is refused.
SetTimeRefused_complete == ctx.fields = TIME_FIELD_ALL

SetTimeRefused == ctx.fields # {}

time_ctx_set_time(d, sep, h) ==
  LET p == parse_date_time(d, sep, h, ctx.tm)
  IN  /\ CtxUsed
      /\ \/ SetTimeRefused /\ Refuse("EEXIST")
         \/ /\ ~SetTimeRefused /\ ~p.ok
            /\ ctx' = [ctx EXCEPT !.tm = p.tm, !.ret = "EINVAL"]
            /\ UNCHANGED <<dateIn, hourIn>>
         \/ /\ ~SetTimeRefused /\ p.ok
            /\ ctx' = [fields |-> TIME_FIELD_ALL, tm |-> Rebase(p.tm), ret |-> "ok"]
            /\ dateIn' = d /\ hourIn' = h

time_ctx_get_local ==
  IF ctx.fields # TIME_FIELD_ALL THEN [ret |-> "EINPROGRESS"]
  ELSE [ret |-> "ok", epoch |-> tm_mkepoch_local(ctx.tm, ctx.tm.gmtoff),
        gmtoff |-> ctx.tm.gmtoff]

DateNext ==
  \/ NextDay \/ FirstDay
  \/ time_ctx_init
  \/ \E d \in Dates : time_ctx_set_date(d)
  \/ \E h \in Hours : time_ctx_set_hour(h)
  \/ \E d \in Dates, sep \in Separators, h \in Hours : time_ctx_set_time(d, sep, h)

DateSpec == DateInit /\ [][DateNext]_dateVars

-----------------------------------------------------------------------------
(* Properties.                                                             *)

\* On every day of the calendar a local time that is formatted, in any of the
\* three formats and with any offset of whole minutes, is parsed to the same
\* seconds since 1970 and the same offset, although the offset moves the UTC
\* date to the day before or after; an offset with seconds loses them, towards
\* zero.  time_local_to_tm and time_local_from_tm are inverse as well
\* (time_local_format, time_local_parse, tm_mkepoch_local).
FormattedIsParsed ==
  \A secs \in DayTimes, off \in UtcOffsets :
    LET epoch == Epoch(day, secs - off)
        whole == IF off < 0 THEN -(60 * (Abs(off) \div 60)) ELSE 60 * (off \div 60)
    IN  /\ tm_mkepoch_local(gmtime_r(Epoch(epoch[1], epoch[2] + off)), off) = epoch
        /\ \A fmt \in Formats :
             time_local_parse(time_local_format(epoch, off, fmt)) =
               [ok |-> TRUE, epoch |-> Epoch(day, secs - whole), gmtoff |-> whole]

\* Whatever order the calls come in, and whatever a call that failed half way
\* has written into the tm, a field that was accepted means what its string
\* says, until the next time_ctx_init; a complete context gives the time that
\* the two strings would give together (time_ctx_set_date, _hour and _time).
AcceptedIsKept ==
  /\ "date" \in ctx.fields =>
       <<ctx.tm.tm_year + 1900, ctx.tm.tm_mon + 1, ctx.tm.tm_mday>> = DateNumbers(dateIn)
  /\ "hour" \in ctx.fields =>
       /\ <<ctx.tm.tm_hour, ctx.tm.tm_min, ctx.tm.tm_sec>> = <<hourIn.hour, hourIn.min, hourIn.sec>>
       /\ ctx.tm.gmtoff = GmtOff(hourIn)
  /\ ctx.fields = TIME_FIELD_ALL =>
       LET p == time_local_parse([d |-> dateIn, sep |-> "T", h |-> hourIn])
       IN  /\ p.ok
           /\ time_ctx_get_local = [ret |-> "ok", epoch |-> p.epoch, gmtoff |-> p.gmtoff]

=============================================================================
