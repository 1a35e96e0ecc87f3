----------------------------- MODULE Timetools -----------------------------
(***************************************************************************)
(* Times of src/src/timetools.c: differences, sums, comparisons and        *)
(* conversions of a timespec, and the conversion of a monotonic time to    *)
(* real time, which reads the two clocks one after the other.              *)
(*                                                                         *)
(* K stands for the factor 1000 between the units.  The application keeps  *)
(* two times, a and b, and computes one from the other, so that the result *)
(* of one call is the argument of the next.  Each is kept with the number  *)
(* of nanoseconds that it should be (want).  The uint64_t results of the   *)
(* code are taken modulo 2^64 and are exact as integers where the true     *)
(* result is; null pointers are refused everywhere and left out.           *)
(***************************************************************************)
EXTENDS Integers

CONSTANTS K,            \* 1000
          UintMod,      \* 2^32, the modulus of unsigned int and uint32_t
          Horizon,      \* bound: seconds after which nothing more happens
          Readings,     \* nanoseconds within a second that a clock may show
          Deltas,       \* nanoseconds to add or subtract
          ClockOffsets, \* realtime minus monotonic, in nanoseconds
          Instants,     \* monotonic times to convert, in microseconds
          Timeouts,     \* timeout_ms of dynmbox_push_block
          Advances      \* how far the clocks move between two readings

ASSUME TimetoolsAssumption ==
  /\ K \in Nat /\ K >= 2 /\ K % 2 = 0
  /\ UintMod \in Nat /\ UintMod > K
  /\ Horizon \in Nat
  /\ Readings \subseteq 0 .. K * K * K - 1
  /\ Deltas \subseteq Int /\ ClockOffsets \subseteq Int
  /\ Instants \subseteq Nat /\ Timeouts \subseteq Nat /\ Advances \subseteq Nat

SEC == K * K * K        \* nanoseconds in a second

VARIABLES a, b,         \* records: the timespec ts and the nanoseconds it means
          mono, off,    \* the monotonic clock; the realtime clock is mono + off
          conv          \* time_monotonic_to_realtime_us in progress, or its result

timeVars == <<a, b, mono, off, conv>>

TS(sec, nsec) == [tv_sec |-> sec, tv_nsec |-> nsec]

-----------------------------------------------------------------------------
(* Conversions.                                                            *)

time_timespec_to_ns(ts) == ts.tv_sec * SEC + ts.tv_nsec
time_timespec_to_us(ts) == ts.tv_sec * K * K + ts.tv_nsec \div K
time_timespec_to_ms(ts) == ts.tv_sec * K + ts.tv_nsec \div (K * K)

time_ns_to_timespec(n) == TS(n \div SEC, n % SEC)
time_us_to_timespec(n) == TS(n \div (K * K), (n % (K * K)) * K)

\* Also what time_msleep passes to nanosleep().
time_ms_to_timespec(n) == TS(n \div K, (n % K) * K * K)

time_timeval_to_timespec(sec, usec) == TS(sec, usec * K)

\* A uint32_t.
time_timeval_to_ms(sec, usec) == (sec * K + usec \div K) % UintMod

-----------------------------------------------------------------------------
(* Arithmetic.                                                             *)

time_timespec_cmp(t1, t2) ==
  CASE t1.tv_sec > t2.tv_sec -> 1
    [] t1.tv_sec < t2.tv_sec -> -1
    [] OTHER -> IF t1.tv_nsec > t2.tv_nsec THEN 1
                ELSE IF t1.tv_nsec < t2.tv_nsec THEN -1 ELSE 0

\* The order in which time_timespec_diff accepts its arguments.
Ordered(start, end) ==
  \/ end.tv_sec > start.tv_sec
  \/ end.tv_sec = start.tv_sec /\ end.tv_nsec >= start.tv_nsec

\* Mutant: borrows without giving back the second.
time_timespec_diff_keep(start, end) ==
  IF end.tv_nsec > start.tv_nsec
  THEN TS(end.tv_sec - start.tv_sec, end.tv_nsec - start.tv_nsec)
  ELSE TS(end.tv_sec - start.tv_sec, SEC + end.tv_nsec - start.tv_nsec)

\* Equal nanoseconds borrow too: tv_nsec is then a whole second.
time_timespec_diff(start, end) ==
  IF end.tv_nsec > start.tv_nsec
  THEN TS(end.tv_sec - start.tv_sec, end.tv_nsec - start.tv_nsec)
  ELSE TS(end.tv_sec - start.tv_sec - 1, SEC + end.tv_nsec - start.tv_nsec)

\* Microseconds between two times, and 1 if the first is the later, else -1.
time_timespec_diff_us(t1, t2) ==
  IF time_timespec_cmp(t1, t2) = 1
  THEN <<time_timespec_to_us(time_timespec_diff(t2, t1)), 1>>
  ELSE <<time_timespec_to_us(time_timespec_diff(t1, t2)), -1>>

\* Equal times are in any range, and the difference is not stored ("unset").
time_timespec_diff_in_range(t1, t2, range) ==
  LET d == time_timespec_diff_us(t1, t2)[1]
  IN  IF time_timespec_cmp(t1, t2) = 0 THEN [in |-> TRUE, diff |-> "unset"]
      ELSE [in |-> d < range, diff |-> "set"]

\* C divides towards zero.
CDiv(x, y) == IF x >= 0 THEN x \div y ELSE -((-x) \div y)

time_timespec_add_ns(ts, delta) ==
  LET sec == ts.tv_sec + CDiv(delta, SEC)
      nsec == ts.tv_nsec + (delta - CDiv(delta, SEC) * SEC)
  IN  CASE nsec >= SEC -> TS(sec + 1, nsec - SEC)
        [] nsec < 0 -> TS(sec - 1, nsec + SEC)
        [] OTHER -> TS(sec, nsec)

time_timespec_add_us(ts, delta) == time_timespec_add_ns(ts, delta * K)

\* Mutant: the timeout is added in milliseconds.
PushDeadline_ms(sec, usec, timeout_ms) ==
  time_timespec_add_us(time_timeval_to_timespec(sec, usec), timeout_ms % UintMod)

\* The deadline of dynmbox_push_block: the product is an unsigned int.
PushDeadline(sec, usec, timeout_ms) ==
  time_timespec_add_us(time_timeval_to_timespec(sec, usec), (timeout_ms * K) % UintMod)

-----------------------------------------------------------------------------
(* The application computes with its two times.                            *)

Time(ts, want) == [ts |-> ts, want |-> want]

TimeInit == /\ a = Time(TS(0, 0), 0)
            /\ b = Time(TS(0, 0), 0)
            /\ mono = 0
            /\ off = 0
            /\ conv = [at |-> "idle"]

InHorizon(n) == 0 <= n /\ n < Horizon * SEC

\* time_get_monotonic or time_get_realtime: a normalised reading.
Clock(sec, nsec) ==
  /\ b' = Time(TS(sec, nsec), sec * SEC + nsec)
  /\ UNCHANGED <<a, mono, off, conv>>

\* a becomes the time since a (time_timespec_diff and time_timespec_diff_now).
Diff ==
  /\ Ordered(a.ts, b.ts)
  /\ a' = Time(time_timespec_diff(a.ts, b.ts), b.want - a.want)
  /\ UNCHANGED <<b, mono, off, conv>>

Add(delta) ==
  /\ InHorizon(a.want + delta)
  /\ a' = Time(time_timespec_add_ns(a.ts, delta), a.want + delta)
  /\ UNCHANGED <<b, mono, off, conv>>

\* Through a number of ns, us or ms and back.
Convert(unit) ==
  /\ InHorizon(a.want)
  /\ a' = CASE unit = 1 -> Time(time_ns_to_timespec(time_timespec_to_ns(a.ts)), a.want)
            [] unit = K -> Time(time_us_to_timespec(time_timespec_to_us(a.ts)),
                                a.want - (a.want % K))
            [] unit = K * K -> Time(time_ms_to_timespec(time_timespec_to_ms(a.ts)),
                                    a.want - (a.want % (K * K)))
  /\ UNCHANGED <<b, mono, off, conv>>

Exchange == a' = b /\ b' = a /\ UNCHANGED <<mono, off, conv>>

-----------------------------------------------------------------------------
(* time_monotonic_to_realtime_us: three readings with time passing between *)
(* them.  The realtime clock is not set meanwhile.                         *)

Micro(ns) == time_timespec_to_us(time_ns_to_timespec(ns))

\* The realtime clock has been set to anything before.
ConvertStart(mt_us, offset) ==
  /\ conv.at = "idle"
  /\ off' = offset
  /\ conv' = [at |-> "realtime", mt_us |-> mt_us, now1 |-> mono]
  /\ UNCHANGED <<a, b, mono>>

ReadRealtime ==
  /\ conv.at = "realtime"
  /\ conv' = [at |-> "monotonic", mt_us |-> conv.mt_us, now1 |-> conv.now1,
              rt_now |-> mono + off]
  /\ UNCHANGED <<a, b, mono, off>>

\* Mutant: the first reading alone.
RealtimeUs_first(now1, rt_now, now2, mt_us) == Micro(rt_now) - (Micro(now1) - mt_us)

\* The average of the two monotonic readings stands for the realtime one.
RealtimeUs(now1, rt_now, now2, mt_us) ==
  Micro(rt_now) - ((Micro(now1) + Micro(now2) + 1) \div 2 - mt_us)

\* The second monotonic reading and the result, in us and, as
\* time_monotonic_to_realtime_ms rounds it, in ms.
ConvertEnd ==
  /\ conv.at = "monotonic"
  /\ LET rt_us == RealtimeUs(conv.now1, conv.rt_now, mono, conv.mt_us)
     IN  conv' = [at |-> "done", mt_us |-> conv.mt_us, window |-> mono - conv.now1,
                  rt_us |-> rt_us, rt_ms |-> (rt_us + K \div 2) \div K]
  /\ UNCHANGED <<a, b, mono, off>>

ConvertReturn ==
  /\ conv.at = "done"
  /\ conv' = [at |-> "idle"] /\ mono' = 0 /\ off' = 0
  /\ UNCHANGED <<a, b>>

Advance(d) ==
  /\ conv.at \in {"realtime", "monotonic"}
  /\ mono + d < SEC
  /\ mono' = mono + d
  /\ UNCHANGED <<a, b, off, conv>>

\* The computations and the conversion have nothing in common: they do not
\* interleave.
Computing == conv.at = "idle"
Converting == a = Time(TS(0, 0), 0) /\ b = Time(TS(0, 0), 0)

TimeNext ==
  \/ Computing /\ \E sec \in 0 .. Horizon - 1, nsec \in Readings : Clock(sec, nsec)
  \/ Computing /\ Diff
  \/ Computing /\ \E d \in Deltas : Add(d)
  \/ Computing /\ \E unit \in {1, K, K * K} : Convert(unit)
  \/ Computing /\ Exchange
  \/ Converting /\ \E mt_us \in Instants, offset \in ClockOffsets :
                      ConvertStart(mt_us, offset)
  \/ ReadRealtime \/ ConvertEnd \/ ConvertReturn
  \/ \E d \in Advances : Advance(d)

TimeSpec == TimeInit /\ [][TimeNext]_timeVars

-----------------------------------------------------------------------------
(* Properties.                                                             *)

Sign(n) == IF n > 0 THEN 1 ELSE IF n < 0 THEN -1 ELSE 0

Normalised(ts) == ts.tv_nsec \in 0 .. SEC - 1

\* A result of time_timespec_diff for equal nanoseconds.
WholeSecond(ts) == ts.tv_nsec = SEC

\* However calls follow each other, a time keeps the value that integers would
\* give it and, unless it comes from time_timespec_diff of times with equal
\* nanoseconds, is normalised; its milliseconds are right modulo 2^32;
\* comparison, distance, sign and range agree with the integers (for normalised
\* times: a whole second in tv_nsec compares as less than the next second).
\* timetools.c:234-478.
ArithmeticExact ==
  /\ \A t \in {a, b} : /\ time_timespec_to_ns(t.ts) = t.want
                       /\ Normalised(t.ts) \/ WholeSecond(t.ts)
                       /\ time_timeval_to_ms(t.ts.tv_sec, t.ts.tv_nsec \div K)
                            = (t.want \div (K * K)) % UintMod
  /\ Normalised(a.ts) /\ Normalised(b.ts) =>
       LET dist == IF a.want > b.want THEN a.want - b.want ELSE b.want - a.want
       IN  /\ time_timespec_cmp(a.ts, b.ts) = Sign(a.want - b.want)
           /\ time_timespec_diff_us(a.ts, b.ts) =
                <<dist \div K, IF a.want > b.want THEN 1 ELSE -1>>
           /\ \A range \in {0, 1, dist \div K, dist \div K + 1} :
                time_timespec_diff_in_range(a.ts, b.ts, range).in
                  <=> (dist = 0 \/ dist \div K < range)

\* How long a push with this timeout waits, in ns, b being the time of day it
\* reads (in whole microseconds).
WaitOf(timeout_ms) ==
  time_timespec_to_ns(PushDeadline(b.ts.tv_sec, b.ts.tv_nsec \div K, timeout_ms))
    - (b.ts.tv_sec * SEC + (b.ts.tv_nsec \div K) * K)

\* The deadline of a blocking push is a time that pthread_cond_timedwait takes
\* and, if timeout_ms * 1000 fits an unsigned int, lies as far ahead as it was
\* asked to; nothing is said of longer timeouts (dynmbox.c:559-560).
DeadlineAsAsked ==
  Normalised(b.ts) =>
    \A timeout_ms \in Timeouts :
      /\ Normalised(PushDeadline(b.ts.tv_sec, b.ts.tv_nsec \div K, timeout_ms))
      /\ timeout_ms * K < UintMod => WaitOf(timeout_ms) = timeout_ms * K * K

\* The same of every timeout: "Operation timeout in milliseconds", "-ETIMEDOUT
\* if the timeout expired before the mail box was ready" (dynmbox.h:124-131).  Not so: the product of
\* dynmbox.c:560 is an unsigned int, and the wait is cut short.
TimeoutInMilliseconds ==
  Normalised(b.ts) => \A timeout_ms \in Timeouts : WaitOf(timeout_ms) = timeout_ms * K * K

\* The realtime value of a monotonic time is wrong by at most half of the time
\* between the two readings of the monotonic clock plus a microsecond and a half
\* (each reading is cut to a microsecond, the average rounded); the result in ms
\* is the nearest (time_monotonic_to_realtime_us and _ms).
RealtimeIsClose ==
  conv.at = "done" =>
    LET true == conv.mt_us * K + off
        Within(x, y, d) == x - y <= d /\ y - x <= d
    IN  /\ Within(2 * conv.rt_us * K, 2 * true, conv.window + 3 * K)
        /\ Within(2 * conv.rt_ms * K, 2 * conv.rt_us, K)

=============================================================================
