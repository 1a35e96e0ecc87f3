------------------------------- MODULE MCDate -------------------------------
(* Constants for checking Systimetools with TLC.                           *)
EXTENDS Systimetools

Date(layout, year, mon, mday) ==
  [layout |-> layout, year |-> year, mon |-> mon, mday |-> mday]

Hour(layout, hour, min, sec, zone, zsign, zhour, zmin) ==
  [layout |-> layout, hour |-> hour, min |-> min, sec |-> sec,
   zone |-> zone, zsign |-> zsign, zhour |-> zhour, zmin |-> zmin]

MCDates == {Date("long", 2024, 2, 29), Date("short", 1970, 1, 1),
            Date("rfc1123", 2100, 3, 1), Date("rfc1123", 1999, NaN, 31),
            Date("long", 1999, NaN, 31), Date("short", 2001, 12, NaN),
            Date("long", NaN, 5, 6), Date("other", 2010, 7, 8)}

MCHours == {Hour("long", 23, 59, 58, "short", -1, 9, 30), Hour("short", 0, 0, 0, "Z", 1, 0, 0),
            Hour("long", 12, 34, 56, "UTC", 1, 0, 0), Hour("short", 1, 2, 3, "long", 1, 14, 0),
            Hour("long", 4, NaN, 5, "Z", 1, 0, 0), Hour("short", 6, 7, 8, "short", 1, 2, NaN),
            Hour("long", 9, 10, 11, "none", 1, 0, 0), Hour("other", 3, 3, 3, "Z", 1, 0, 0)}

\* About noon and the last second of a day, so that the UTC date may be the day
\* before or after; offsets of both signs, one with seconds.
MCDayTimes == {45296, 86399}
MCUtcOffsets == {0, -34200, 50400, -90}
=============================================================================
