-------------------------- MODULE TimetoolsProofs --------------------------
(***************************************************************************)
(* Proofs about Timetools, for every factor K between the units, every     *)
(* width of an unsigned int, and times, deltas, timeouts, clock offsets    *)
(* and delays of any size.                                                 *)
(*                                                                         *)
(* The inductive invariant is that a time is worth the number of           *)
(* nanoseconds it should be and that tv_nsec is at most a whole second,    *)
(* which time_timespec_diff really leaves; and, for the conversion in      *)
(* progress, that the realtime clock was read between the two readings of  *)
(* the monotonic one.                                                      *)
(*                                                                         *)
(* And about Systimetools, for any strings, times of the day and offsets.  *)
(* The inductive invariants: a field of a time_ctx that is set is what its *)
(* string says, and that string is one the parser accepts; and the date of *)
(* each day is the one for which the closed formula of tm_mkepoch_local    *)
(* gives that day.                                                         *)
(***************************************************************************)
EXTENDS Timetools, Systimetools, TLAPS

-----------------------------------------------------------------------------
(* Division by a positive number.                                          *)

LEMMA DivMod ==
  ASSUME NEW n \in Int, NEW m \in Nat, m # 0
  PROVE  /\ n \div m \in Int /\ n % m \in 0 .. m - 1
         /\ n = (n \div m) * m + (n % m)
OBVIOUS

LEMMA DivUnique ==
  ASSUME NEW m \in Nat, m # 0, NEW q \in Int, NEW r \in 0 .. m - 1
  PROVE  (q * m + r) \div m = q /\ (q * m + r) % m = r
<1>1. q * m + r \in Int
  OBVIOUS
<1> DEFINE n == q * m + r
<1>2. /\ n \div m \in Int /\ n % m \in 0 .. m - 1
      /\ n = (n \div m) * m + (n % m)
  BY <1>1, DivMod
<1>3. ASSUME NEW x \in Int, NEW y \in Int, NEW s \in 0 .. m - 1, NEW t \in 0 .. m - 1,
             x * m + s = y * m + t
      PROVE  x = y /\ s = t
  <2>1. CASE x < y
    <3>1. (x + 1) * m <= y * m
      BY <2>1
    <3> QED BY <1>3, <3>1
  <2>2. CASE y < x
    <3>1. (y + 1) * m <= x * m
      BY <2>2
    <3> QED BY <1>3, <3>1
  <2>3. CASE x = y
    BY <1>3, <2>3
  <2> QED BY <2>1, <2>2, <2>3
<1> HIDE DEF n
<1>4. (n \div m) * m + (n % m) = q * m + r
  BY <1>2 DEF n
<1>5. n \div m = q /\ n % m = r
  <2> DEFINE x == n \div m
             s == n % m
  <2>1. x \in Int /\ s \in 0 .. m - 1 /\ x * m + s = q * m + r
    BY <1>2, <1>4
  <2> HIDE DEF x, s
  <2>2. x = q /\ s = r
    BY <1>3, <2>1
  <2> QED BY <2>2 DEF x, s
<1> QED BY <1>5 DEF n

\* Cutting to a unit and then to a larger one is cutting to the larger one.
LEMMA DivDiv ==
  ASSUME NEW n \in Int, NEW m \in Nat, m # 0, NEW k \in Nat, k # 0
  PROVE  (n \div m) \div k = n \div (m * k)
<1> DEFINE q == n \div m
           r == n % m
           x == q \div k
           y == q % k
<1>1. q \in Int /\ r \in 0 .. m - 1 /\ n = q * m + r
  BY DivMod
<1>2. x \in Int /\ y \in 0 .. k - 1 /\ q = x * k + y
  BY <1>1, DivMod
<1> HIDE DEF q, r, x, y
<1>3. n = x * (m * k) + (y * m + r)
  BY <1>1, <1>2
<1>4. m * k \in Nat /\ m * k # 0
  OBVIOUS
<1>5. y * m + r \in 0 .. m * k - 1
  <2>1. y * m <= (k - 1) * m
    BY <1>2
  <2>2. (k - 1) * m = m * k - m
    OBVIOUS
  <2>3. 0 <= y * m /\ y * m \in Int
    BY <1>2
  <2> QED BY <1>1, <1>4, <2>1, <2>2, <2>3
<1>6. n \div (m * k) = x
  BY <1>2, <1>3, <1>4, <1>5, DivUnique
<1> QED BY <1>6 DEF x, q

\* Whole units on top of a number stay what they are.
LEMMA DivShift ==
  ASSUME NEW n \in Int, NEW m \in Nat, m # 0, NEW x \in Int
  PROVE  (x * m + n) \div m = x + n \div m /\ (x * m + n) % m = n % m
<1> DEFINE q == n \div m
           r == n % m
<1>1. q \in Int /\ r \in 0 .. m - 1 /\ n = q * m + r
  BY DivMod
<1> HIDE DEF q, r
<1>2. x * m + n = (x + q) * m + r
  BY <1>1
<1>3. (x * m + n) \div m = x + q /\ (x * m + n) % m = r
  BY <1>1, <1>2, DivUnique
<1> QED BY <1>3 DEF q, r

-----------------------------------------------------------------------------
(* Times.                                                                  *)

Timespec == [tv_sec : Int, tv_nsec : 0 .. SEC]

\* A time and the nanoseconds it is worth.
Value(ts) == ts.tv_sec * SEC + ts.tv_nsec

LEMMA Units ==
  /\ K \in Nat /\ K >= 2 /\ K # 0
  /\ K * K \in Nat /\ K * K # 0
  /\ SEC \in Nat /\ SEC # 0 /\ SEC = (K * K) * K /\ SEC = K * (K * K)
  /\ \A s \in Int : s * SEC = (s * K * K) * K /\ s * SEC = (s * K) * (K * K)
<1>1. K \in Nat /\ K >= 2 /\ K # 0
  BY TimetoolsAssumption
<1>2. K * K \in Nat /\ K * K # 0
  BY <1>1
<1>3. SEC \in Nat /\ SEC # 0 /\ SEC = (K * K) * K /\ SEC = K * (K * K)
  <2>1. \A x \in Nat : x # 0 => x * K \in Nat /\ x * K # 0
    BY <1>1
  <2>2. (K * K) * K = K * (K * K)
    BY <1>1
  <2> QED BY <1>2, <2>1, <2>2 DEF SEC
<1>4. \A s \in Int : s * SEC = (s * K * K) * K /\ s * SEC = (s * K) * (K * K)
  <2>1. ASSUME NEW s \in Int, NEW k \in Nat
        PROVE  s * ((k * k) * k) = (s * k * k) * k /\ s * ((k * k) * k) = (s * k) * (k * k)
    OBVIOUS
  <2> QED BY <1>1, <2>1 DEF SEC
<1> QED BY <1>1, <1>2, <1>3, <1>4

LEMMA TSFields ==
  ASSUME NEW s \in Int, NEW n \in 0 .. SEC
  PROVE  /\ TS(s, n) \in Timespec /\ TS(s, n).tv_sec = s /\ TS(s, n).tv_nsec = n
         /\ Value(TS(s, n)) = s * SEC + n
BY DEF TS, Timespec, Value

LEMMA TimespecFields ==
  ASSUME NEW ts \in Timespec
  PROVE  /\ ts.tv_sec \in Int /\ ts.tv_nsec \in 0 .. SEC /\ ts.tv_nsec \in Int
         /\ 0 <= ts.tv_nsec /\ ts.tv_nsec <= SEC
         /\ Value(ts) \in Int /\ Value(ts) = ts.tv_sec * SEC + ts.tv_nsec
BY Units DEF Timespec, Value

LEMMA ToUs ==
  ASSUME NEW ts \in Timespec
  PROVE  time_timespec_to_us(ts) = Value(ts) \div K
<1> DEFINE s == ts.tv_sec
           n == ts.tv_nsec
<1>1. s \in Int /\ n \in Int /\ Value(ts) = s * SEC + n
  BY TimespecFields
<1>2. time_timespec_to_us(ts) = s * K * K + n \div K
  BY DEF time_timespec_to_us
<1> HIDE DEF s, n
<1>3. s * K * K \in Int /\ Value(ts) = (s * K * K) * K + n
  BY <1>1, Units
<1>4. ((s * K * K) * K + n) \div K = s * K * K + n \div K
  BY <1>1, <1>3, Units, DivShift
<1> QED BY <1>2, <1>3, <1>4

LEMMA ToMs ==
  ASSUME NEW ts \in Timespec
  PROVE  time_timespec_to_ms(ts) = Value(ts) \div (K * K)
<1> DEFINE s == ts.tv_sec
           n == ts.tv_nsec
<1>1. s \in Int /\ n \in Int /\ Value(ts) = s * SEC + n
  BY TimespecFields
<1>2. time_timespec_to_ms(ts) = s * K + n \div (K * K)
  BY DEF time_timespec_to_ms
<1> HIDE DEF s, n
<1>3. s * K \in Int /\ Value(ts) = (s * K) * (K * K) + n
  BY <1>1, Units
<1>4. ((s * K) * (K * K) + n) \div (K * K) = s * K + n \div (K * K)
  BY <1>1, <1>3, Units, DivShift
<1> QED BY <1>2, <1>3, <1>4

\* The milliseconds of the timeval, a uint32_t.
LEMMA TimevalMs ==
  ASSUME NEW ts \in Timespec
  PROVE  time_timeval_to_ms(ts.tv_sec, ts.tv_nsec \div K) = (Value(ts) \div (K * K)) % UintMod
<1>1. ts.tv_nsec \in Int
  BY TimespecFields
<1>2. (ts.tv_nsec \div K) \div K = ts.tv_nsec \div (K * K)
  BY <1>1, Units, DivDiv
<1>3. time_timespec_to_ms(ts) = ts.tv_sec * K + (ts.tv_nsec \div K) \div K
  BY <1>2 DEF time_timespec_to_ms
<1> QED BY <1>3, ToMs DEF time_timeval_to_ms

LEMMA FromNs ==
  ASSUME NEW n \in Int
  PROVE  /\ time_ns_to_timespec(n) \in Timespec /\ Normalised(time_ns_to_timespec(n))
         /\ Value(time_ns_to_timespec(n)) = n
<1> DEFINE q == n \div SEC
           r == n % SEC
<1>1. q \in Int /\ r \in 0 .. SEC - 1 /\ n = q * SEC + r
  BY Units, DivMod
<1>2. time_ns_to_timespec(n) = TS(q, r)
  BY DEF time_ns_to_timespec
<1> HIDE DEF q, r
<1>3. r \in 0 .. SEC
  BY <1>1, Units
<1> QED BY <1>1, <1>2, <1>3, TSFields DEF Normalised

LEMMA FromUs ==
  ASSUME NEW u \in Int
  PROVE  /\ time_us_to_timespec(u) \in Timespec /\ Normalised(time_us_to_timespec(u))
         /\ Value(time_us_to_timespec(u)) = u * K
<1> DEFINE q == u \div (K * K)
           r == u % (K * K)
<1>1. q \in Int /\ r \in 0 .. K * K - 1 /\ u = q * (K * K) + r
  BY Units, DivMod
<1>2. time_us_to_timespec(u) = TS(q, r * K)
  BY DEF time_us_to_timespec
<1> HIDE DEF q, r
<1>3. r * K \in 0 .. SEC /\ r * K \in 0 .. SEC - 1
  <2>1. ASSUME NEW x \in Nat, NEW m \in Nat, NEW k \in Nat, k # 0, x <= m - 1
        PROVE  x * k <= m * k - 1 /\ x * k \in Nat
    <3>1. (x + 1) * k <= m * k
      BY <2>1
    <3> QED BY <2>1, <3>1
  <2>2. r * K <= SEC - 1 /\ r * K \in Nat
    BY <1>1, <2>1, Units
  <2> QED BY <2>2, Units
<1>4. q * SEC + r * K = u * K
  <2>1. ASSUME NEW x \in Int, NEW y \in Int, NEW m \in Nat, NEW k \in Nat
        PROVE  x * (m * k) + y * k = (x * m + y) * k
    OBVIOUS
  <2> QED BY <1>1, <2>1, Units
<1> QED BY <1>1, <1>2, <1>3, <1>4, TSFields DEF Normalised

LEMMA FromMs ==
  ASSUME NEW m \in Int
  PROVE  /\ time_ms_to_timespec(m) \in Timespec /\ Normalised(time_ms_to_timespec(m))
         /\ Value(time_ms_to_timespec(m)) = m * (K * K)
<1> DEFINE q == m \div K
           r == m % K
<1>1. q \in Int /\ r \in 0 .. K - 1 /\ m = q * K + r
  BY Units, DivMod
<1>2. time_ms_to_timespec(m) = TS(q, r * K * K)
  BY DEF time_ms_to_timespec
<1> HIDE DEF q, r
<1>3. r * K * K = r * (K * K)
  BY <1>1, Units
<1>4. r * K * K \in 0 .. SEC /\ r * K * K \in 0 .. SEC - 1
  <2>1. ASSUME NEW x \in Nat, NEW k \in Nat, NEW l \in Nat, l # 0, x <= k - 1
        PROVE  x * l <= k * l - 1 /\ x * l \in Nat
    <3>1. (x + 1) * l <= k * l
      BY <2>1
    <3> QED BY <2>1, <3>1
  <2>2. r * (K * K) <= SEC - 1 /\ r * (K * K) \in Nat
    BY <1>1, <2>1, Units
  <2> QED BY <1>3, <2>2, Units
<1>5. q * SEC + r * K * K = m * (K * K)
  <2>1. ASSUME NEW x \in Int, NEW y \in Int, NEW k \in Nat, NEW l \in Nat
        PROVE  x * (k * l) + y * l = (x * k + y) * l
    OBVIOUS
  <2> QED BY <1>1, <1>3, <2>1, Units
<1> QED BY <1>1, <1>2, <1>4, <1>5, TSFields DEF Normalised

\* The remainder of C's division is less than a second either way.
LEMMA CDivSeconds ==
  ASSUME NEW d \in Int
  PROVE  /\ CDiv(d, SEC) \in Int /\ CDiv(d, SEC) * SEC \in Int
         /\ d - CDiv(d, SEC) * SEC \in -(SEC - 1) .. SEC - 1
<1>1. CASE d >= 0
  <2> DEFINE q == d \div SEC
             r == d % SEC
  <2>1. q \in Int /\ r \in 0 .. SEC - 1 /\ d = q * SEC + r
    BY Units, DivMod
  <2>2. CDiv(d, SEC) = q
    BY <1>1 DEF CDiv
  <2> HIDE DEF q, r
  <2>3. q * SEC \in Int
    BY <2>1, Units
  <2> QED BY <2>1, <2>2, <2>3, Units
<1>2. CASE ~(d >= 0)
  <2> DEFINE q == (-d) \div SEC
             r == (-d) % SEC
  <2>0. -d \in Int /\ SEC \in Nat /\ SEC # 0
    BY Units
  <2>1. q \in Int /\ r \in 0 .. SEC - 1 /\ -d = q * SEC + r
    BY <2>0, DivMod
  <2>2. CDiv(d, SEC) = -q
    BY <1>2 DEF CDiv
  <2> HIDE DEF q, r
  <2>3. q * SEC \in Int /\ (-q) * SEC = -(q * SEC)
    BY <2>1, Units
  <2> QED BY <2>1, <2>2, <2>3, Units
<1> QED BY <1>1, <1>2

LEMMA AddNs ==
  ASSUME NEW ts \in Timespec, NEW d \in Int
  PROVE  /\ time_timespec_add_ns(ts, d) \in Timespec /\ Normalised(time_timespec_add_ns(ts, d))
         /\ Value(time_timespec_add_ns(ts, d)) = Value(ts) + d
<1> DEFINE c == CDiv(d, SEC)
           sec == ts.tv_sec + c
           nsec == ts.tv_nsec + (d - c * SEC)
           sum == time_timespec_add_ns(ts, d)
<1>1. /\ c \in Int /\ c * SEC \in Int /\ d - c * SEC \in -(SEC - 1) .. SEC - 1
      /\ ts.tv_sec \in Int /\ ts.tv_nsec \in Int /\ 0 <= ts.tv_nsec /\ ts.tv_nsec <= SEC
      /\ Value(ts) = ts.tv_sec * SEC + ts.tv_nsec /\ SEC \in Nat /\ SEC # 0
  BY CDivSeconds, TimespecFields, Units
<1>2. sum = CASE nsec >= SEC -> TS(sec + 1, nsec - SEC)
              [] nsec < 0 -> TS(sec - 1, nsec + SEC)
              [] OTHER -> TS(sec, nsec)
  BY DEF time_timespec_add_ns
<1> HIDE DEF c
<1>3. sec \in Int /\ nsec \in -(SEC - 1) .. 2 * SEC - 1
  BY <1>1
<1>4. sec * SEC + nsec = Value(ts) + d
  <2>1. ASSUME NEW x \in Int, NEW y \in Int, NEW m \in Nat
        PROVE  (x + y) * m = x * m + y * m /\ x * m \in Int
    OBVIOUS
  <2>2. sec * SEC = ts.tv_sec * SEC + c * SEC /\ ts.tv_sec * SEC \in Int
    BY <1>1, <2>1
  <2> QED BY <1>1, <2>2
<1>5. (sec + 1) * SEC = sec * SEC + SEC /\ (sec - 1) * SEC = sec * SEC - SEC /\ sec * SEC \in Int
  BY <1>1, <1>3
<1> HIDE DEF sec, nsec
<1>6. CASE nsec >= SEC
  <2>1. sum = TS(sec + 1, nsec - SEC)
    BY <1>1, <1>2, <1>3, <1>6
  <2>2. nsec - SEC \in 0 .. SEC - 1 /\ nsec - SEC \in 0 .. SEC /\ sec + 1 \in Int
    BY <1>1, <1>3, <1>6
  <2>3. sum \in Timespec /\ sum.tv_nsec = nsec - SEC /\ Value(sum) = (sec + 1) * SEC + (nsec - SEC)
    BY <2>1, <2>2, TSFields
  <2>4. Value(sum) = Value(ts) + d
    BY <1>1, <1>3, <1>4, <1>5, <2>3
  <2> QED BY <2>2, <2>3, <2>4 DEF Normalised
<1>7. CASE nsec < 0
  <2>1. sum = TS(sec - 1, nsec + SEC)
    BY <1>1, <1>2, <1>3, <1>7
  <2>2. nsec + SEC \in 0 .. SEC - 1 /\ nsec + SEC \in 0 .. SEC /\ sec - 1 \in Int
    BY <1>1, <1>3, <1>7
  <2>3. sum \in Timespec /\ sum.tv_nsec = nsec + SEC /\ Value(sum) = (sec - 1) * SEC + (nsec + SEC)
    BY <2>1, <2>2, TSFields
  <2>4. Value(sum) = Value(ts) + d
    BY <1>1, <1>3, <1>4, <1>5, <2>3
  <2> QED BY <2>2, <2>3, <2>4 DEF Normalised
<1>8. CASE ~(nsec >= SEC) /\ ~(nsec < 0)
  <2>1. sum = TS(sec, nsec)
    BY <1>1, <1>2, <1>3, <1>8
  <2>2. nsec \in 0 .. SEC - 1 /\ nsec \in 0 .. SEC
    BY <1>1, <1>3, <1>8
  <2>3. sum \in Timespec /\ sum.tv_nsec = nsec /\ Value(sum) = sec * SEC + nsec
    BY <1>3, <2>1, <2>2, TSFields
  <2> QED BY <1>4, <2>2, <2>3 DEF Normalised
<1> QED BY <1>6, <1>7, <1>8

\* Equal nanoseconds borrow: tv_nsec is then a whole second.
LEMMA DiffValue ==
  ASSUME NEW s \in Timespec, NEW e \in Timespec
  PROVE  /\ time_timespec_diff(s, e) \in Timespec
         /\ Value(time_timespec_diff(s, e)) = Value(e) - Value(s)
<1>1. /\ s.tv_sec \in Int /\ s.tv_nsec \in Int /\ 0 <= s.tv_nsec /\ s.tv_nsec <= SEC
      /\ e.tv_sec \in Int /\ e.tv_nsec \in Int /\ 0 <= e.tv_nsec /\ e.tv_nsec <= SEC
      /\ Value(s) = s.tv_sec * SEC + s.tv_nsec /\ Value(e) = e.tv_sec * SEC + e.tv_nsec
      /\ SEC \in Nat
  BY TimespecFields, Units
<1> DEFINE d == e.tv_sec - s.tv_sec
<1>2. /\ d \in Int /\ d * SEC = e.tv_sec * SEC - s.tv_sec * SEC
      /\ (d - 1) * SEC = d * SEC - SEC
      /\ d * SEC \in Int /\ e.tv_sec * SEC \in Int /\ s.tv_sec * SEC \in Int
  BY <1>1
<1>3. CASE e.tv_nsec > s.tv_nsec
  <2>1. time_timespec_diff(s, e) = TS(d, e.tv_nsec - s.tv_nsec)
    BY <1>3 DEF time_timespec_diff
  <2> HIDE DEF d
  <2>2. e.tv_nsec - s.tv_nsec \in 0 .. SEC
    BY <1>1, <1>3
  <2>3. /\ TS(d, e.tv_nsec - s.tv_nsec) \in Timespec
        /\ Value(TS(d, e.tv_nsec - s.tv_nsec)) = d * SEC + (e.tv_nsec - s.tv_nsec)
    BY <1>2, <2>2, TSFields
  <2>4. d * SEC + (e.tv_nsec - s.tv_nsec) = Value(e) - Value(s)
    BY <1>1, <1>2
  <2> QED BY <2>1, <2>3, <2>4
<1>4. CASE ~(e.tv_nsec > s.tv_nsec)
  <2>1. time_timespec_diff(s, e) = TS(d - 1, SEC + e.tv_nsec - s.tv_nsec)
    BY <1>4 DEF time_timespec_diff
  <2> HIDE DEF d
  <2>2. SEC + e.tv_nsec - s.tv_nsec \in 0 .. SEC /\ d - 1 \in Int
    BY <1>1, <1>2, <1>4
  <2>3. /\ TS(d - 1, SEC + e.tv_nsec - s.tv_nsec) \in Timespec
        /\ Value(TS(d - 1, SEC + e.tv_nsec - s.tv_nsec))
             = (d - 1) * SEC + (SEC + e.tv_nsec - s.tv_nsec)
    BY <2>2, TSFields
  <2>4. (d - 1) * SEC + (SEC + e.tv_nsec - s.tv_nsec) = Value(e) - Value(s)
    <3>1. ASSUME NEW x \in Int, NEW y \in Int, NEW m \in Int, NEW k \in Int, NEW l \in Int
          PROVE  (x - y - m) + (m + k - l) = (x + k) - (y + l)
      OBVIOUS
    <3>2. (d - 1) * SEC = e.tv_sec * SEC - s.tv_sec * SEC - SEC
      BY <1>2
    <3> QED BY <1>1, <1>2, <3>1, <3>2
  <2> QED BY <2>1, <2>3, <2>4
<1> QED BY <1>3, <1>4

LEMMA CmpValue ==
  ASSUME NEW s \in Timespec, NEW e \in Timespec, Normalised(s), Normalised(e)
  PROVE  time_timespec_cmp(s, e) = Sign(Value(s) - Value(e))
<1>1. /\ s.tv_sec \in Int /\ s.tv_nsec \in Int /\ 0 <= s.tv_nsec /\ s.tv_nsec <= SEC - 1
      /\ e.tv_sec \in Int /\ e.tv_nsec \in Int /\ 0 <= e.tv_nsec /\ e.tv_nsec <= SEC - 1
      /\ Value(s) = s.tv_sec * SEC + s.tv_nsec /\ Value(e) = e.tv_sec * SEC + e.tv_nsec
      /\ SEC \in Nat /\ SEC # 0
  BY TimespecFields, Units DEF Normalised
<1>2. s.tv_sec * SEC \in Int /\ e.tv_sec * SEC \in Int
  BY <1>1
<1>3. CASE s.tv_sec > e.tv_sec
  <2>1. time_timespec_cmp(s, e) = 1
    BY <1>3, <1>1 DEF time_timespec_cmp
  <2>2. (e.tv_sec + 1) * SEC <= s.tv_sec * SEC /\ (e.tv_sec + 1) * SEC = e.tv_sec * SEC + SEC
    BY <1>1, <1>3
  <2>3. Value(s) - Value(e) > 0
    BY <1>1, <1>2, <2>2
  <2> QED BY <2>1, <2>3 DEF Sign
<1>4. CASE s.tv_sec < e.tv_sec
  <2>1. time_timespec_cmp(s, e) = -1
    BY <1>4, <1>1 DEF time_timespec_cmp
  <2>2. (s.tv_sec + 1) * SEC <= e.tv_sec * SEC /\ (s.tv_sec + 1) * SEC = s.tv_sec * SEC + SEC
    BY <1>1, <1>4
  <2>3. Value(s) - Value(e) < 0 /\ Value(s) - Value(e) \in Int
    BY <1>1, <1>2, <2>2
  <2> QED BY <2>1, <2>3 DEF Sign
<1>5. CASE s.tv_sec = e.tv_sec
  <2>1. time_timespec_cmp(s, e) = IF s.tv_nsec > e.tv_nsec THEN 1
                                  ELSE IF s.tv_nsec < e.tv_nsec THEN -1 ELSE 0
    BY <1>1, <1>5 DEF time_timespec_cmp
  <2>2. Value(s) - Value(e) = s.tv_nsec - e.tv_nsec
    BY <1>1, <1>2, <1>5
  <2>3. CASE s.tv_nsec > e.tv_nsec
    BY <1>1, <2>1, <2>2, <2>3 DEF Sign
  <2>4. CASE s.tv_nsec < e.tv_nsec
    BY <1>1, <2>1, <2>2, <2>4 DEF Sign
  <2>5. CASE s.tv_nsec = e.tv_nsec
    BY <1>1, <2>1, <2>2, <2>5 DEF Sign
  <2> QED BY <1>1, <2>3, <2>4, <2>5
<1>6. s.tv_sec > e.tv_sec \/ s.tv_sec < e.tv_sec \/ s.tv_sec = e.tv_sec
  <2>1. s.tv_sec \in Int /\ e.tv_sec \in Int
    BY <1>1
  <2> QED BY <2>1
<1> QED BY <1>3, <1>4, <1>5, <1>6

\* The distance of two times.
Distance(m, n) == IF m > n THEN m - n ELSE n - m

LEMMA DiffUsValue ==
  ASSUME NEW s \in Timespec, NEW e \in Timespec, Normalised(s), Normalised(e)
  PROVE  time_timespec_diff_us(s, e) =
           <<Distance(Value(s), Value(e)) \div K, IF Value(s) > Value(e) THEN 1 ELSE -1>>
<1>1. Value(s) \in Int /\ Value(e) \in Int
  BY TimespecFields
<1>2. /\ time_timespec_to_us(time_timespec_diff(e, s)) = (Value(s) - Value(e)) \div K
      /\ time_timespec_to_us(time_timespec_diff(s, e)) = (Value(e) - Value(s)) \div K
  BY DiffValue, ToUs
<1>3. time_timespec_cmp(s, e) = 1 <=> Value(s) > Value(e)
  <2>1. ASSUME NEW x \in Int, NEW y \in Int
        PROVE  Sign(x - y) = 1 <=> x > y
    BY DEF Sign
  <2> QED BY <1>1, <2>1, CmpValue
<1>4. CASE Value(s) > Value(e)
  BY <1>2, <1>3, <1>4 DEF time_timespec_diff_us, Distance
<1>5. CASE ~(Value(s) > Value(e))
  BY <1>2, <1>3, <1>5 DEF time_timespec_diff_us, Distance
<1> QED BY <1>4, <1>5

LEMMA InRangeValue ==
  ASSUME NEW s \in Timespec, NEW e \in Timespec, Normalised(s), Normalised(e),
         NEW range
  PROVE  time_timespec_diff_in_range(s, e, range).in
           <=> (Distance(Value(s), Value(e)) = 0 \/ Distance(Value(s), Value(e)) \div K < range)
<1>1. Value(s) \in Int /\ Value(e) \in Int
  BY TimespecFields
<1>2. time_timespec_diff_us(s, e)[1] = Distance(Value(s), Value(e)) \div K
  BY DiffUsValue
<1>3. time_timespec_cmp(s, e) = 0 <=> Distance(Value(s), Value(e)) = 0
  <2>1. ASSUME NEW x \in Int, NEW y \in Int
        PROVE  Sign(x - y) = 0 <=> Distance(x, y) = 0
    BY DEF Sign, Distance
  <2> QED BY <1>1, <2>1, CmpValue
<1> DEFINE d == time_timespec_diff_us(s, e)[1]
<1>4. time_timespec_diff_in_range(s, e, range) =
        IF time_timespec_cmp(s, e) = 0 THEN [in |-> TRUE, diff |-> "unset"]
        ELSE [in |-> d < range, diff |-> "set"]
  BY DEF time_timespec_diff_in_range
<1> HIDE DEF d
<1>5. CASE time_timespec_cmp(s, e) = 0
  <2>1. time_timespec_diff_in_range(s, e, range).in
    BY <1>4, <1>5
  <2> QED BY <1>3, <1>5, <2>1
<1>6. CASE time_timespec_cmp(s, e) # 0
  <2>1. time_timespec_diff_in_range(s, e, range) = [in |-> d < range, diff |-> "set"]
    BY <1>4, <1>6
  <2>2. ASSUME NEW x
        PROVE  [in |-> x, diff |-> "set"].in = x
    OBVIOUS
  <2>3. time_timespec_diff_in_range(s, e, range).in = (d < range)
    BY <2>1, <2>2, Zenon
  <2>4. ~(Distance(Value(s), Value(e)) = 0) /\ d = Distance(Value(s), Value(e)) \div K
    BY <1>2, <1>3, <1>6 DEF d
  <2> QED BY <2>3, <2>4, Zenon
<1> QED BY <1>5, <1>6

\* The deadline of a blocking push, from the time of day b.
LEMMA DeadlineValue ==
  ASSUME NEW ts \in Timespec, Normalised(ts), NEW timeout_ms \in Nat
  PROVE  LET now == ts.tv_sec * SEC + (ts.tv_nsec \div K) * K
             until == PushDeadline(ts.tv_sec, ts.tv_nsec \div K, timeout_ms)
         IN  /\ Normalised(until) /\ now \in Int
             /\ time_timespec_to_ns(until) - now = ((timeout_ms * K) % UintMod) * K
             /\ ((timeout_ms * K) % UintMod) \in 0 .. UintMod - 1
<1> DEFINE n == ts.tv_nsec
           q == n \div K
           r == n % K
           from == time_timeval_to_timespec(ts.tv_sec, q)
           d == (timeout_ms * K) % UintMod
           until == PushDeadline(ts.tv_sec, q, timeout_ms)
<1>1. /\ ts.tv_sec \in Int /\ n \in 0 .. SEC - 1 /\ n \in Int /\ SEC \in Nat
  BY TimespecFields, Units DEF Normalised
<1>2. q \in Int /\ r \in 0 .. K - 1 /\ n = q * K + r
  BY <1>1, Units, DivMod
<1>3. UintMod \in Nat /\ UintMod # 0 /\ timeout_ms * K \in Int
  BY TimetoolsAssumption, Units
<1>4. d \in 0 .. UintMod - 1
  BY <1>3, DivMod
<1>5. from = TS(ts.tv_sec, q * K)
  BY DEF time_timeval_to_timespec
<1>6. until = time_timespec_add_ns(from, d * K)
  BY DEF PushDeadline, time_timespec_add_us
<1> HIDE DEF n, q, r, from, d, until
<1>7. q * K \in 0 .. SEC
  <2>1. q * K <= n /\ q * K \in Int
    BY <1>1, <1>2, Units
  <2>2. q >= 0
    <3>1. CASE q <= -1
      <4>1. q * K <= -K
        BY <1>2, <3>1, Units
      <4> QED BY <1>1, <1>2, <4>1, Units
    <3> QED BY <1>2, <3>1
  <2>3. q * K >= 0
    BY <1>2, <2>2, Units
  <2> QED BY <1>1, <2>1, <2>3
<1>8. from \in Timespec /\ Value(from) = ts.tv_sec * SEC + q * K
  BY <1>1, <1>5, <1>7, TSFields
<1>9. d * K \in Int
  BY <1>3, <1>4, Units
<1>10. until \in Timespec /\ Normalised(until) /\ Value(until) = Value(from) + d * K
  BY <1>6, <1>8, <1>9, AddNs
<1>11. time_timespec_to_ns(until) = Value(until) /\ Value(from) \in Int
  BY <1>8, TimespecFields DEF time_timespec_to_ns, Value
<1>12. time_timespec_to_ns(until) - (ts.tv_sec * SEC + q * K) = d * K
  BY <1>8, <1>9, <1>10, <1>11
<1> QED BY <1>4, <1>8, <1>10, <1>11, <1>12 DEF n, q, d, until

-----------------------------------------------------------------------------
(* The conversion to real time.                                            *)

LEMMA MicroValue ==
  ASSUME NEW n \in Int
  PROVE  Micro(n) = n \div K
BY FromNs, ToUs DEF Micro

\* The realtime clock is read between the two readings of the monotonic one,
\* so that it is at most half of the window from their average; the rest is
\* what the divisions cut off.
LEMMA RealtimeBound ==
  ASSUME NEW n1 \in Int, NEW n2 \in Int, NEW rt \in Int, NEW o \in Int, NEW mt \in Int,
         n1 + o <= rt, rt <= n2 + o
  PROVE  /\ RealtimeUs(n1, rt, n2, mt) \in Int
         /\ 2 * RealtimeUs(n1, rt, n2, mt) * K - 2 * (mt * K + o) <= (n2 - n1) + 3 * K
         /\ 2 * (mt * K + o) - 2 * RealtimeUs(n1, rt, n2, mt) * K <= (n2 - n1) + 3 * K
<1> DEFINE x == rt \div K
           y == n1 \div K
           z == n2 \div K
           h == (y + z + 1) \div 2
           p == (y + z + 1) % 2
           u == RealtimeUs(n1, rt, n2, mt)
<1>1. /\ x \in Int /\ rt % K \in 0 .. K - 1 /\ rt = x * K + (rt % K)
      /\ y \in Int /\ n1 % K \in 0 .. K - 1 /\ n1 = y * K + (n1 % K)
      /\ z \in Int /\ n2 % K \in 0 .. K - 1 /\ n2 = z * K + (n2 % K)
  BY Units, DivMod
<1>2. u = x - (h - mt)
  BY MicroValue DEF RealtimeUs
<1>3. h \in Int /\ p \in 0 .. 1 /\ y + z + 1 = h * 2 + p
  <2>1. ASSUME NEW n \in Int
        PROVE  n \div 2 \in Int /\ n % 2 \in 0 .. 1 /\ n = (n \div 2) * 2 + (n % 2)
    BY DivMod
  <2>2. y + z + 1 \in Int
    BY <1>1
  <2> QED BY <2>1, <2>2
<1> HIDE DEF x, y, z, h, p, u
<1>4. u \in Int
  BY <1>1, <1>2, <1>3
<1> DEFINE X == x * K
           Y == y * K
           Z == z * K
           H == h * K
           M == mt * K
<1>5. X \in Int /\ Y \in Int /\ Z \in Int /\ H \in Int /\ M \in Int /\ K \in Int /\ K >= 2
  BY <1>1, <1>3, Units
<1>6. 2 * u * K = 2 * X - 2 * H + 2 * M
  <2>1. ASSUME NEW i \in Int, NEW j \in Int, NEW k \in Int
        PROVE  2 * (i - (j - mt)) * k = 2 * (i * k) - 2 * (j * k) + 2 * (mt * k)
    OBVIOUS
  <2> QED BY <1>1, <1>2, <1>3, <1>5, <2>1
<1>7. Y + Z <= 2 * H /\ 2 * H <= Y + Z + K
  <2>1. ASSUME NEW i \in Int, NEW j \in Int, NEW k \in Int, NEW l \in Int, i + j + 1 = l * 2 + k
        PROVE  i * K + j * K + K = 2 * (l * K) + k * K
    <3>1. (i + j + 1) * K = (l * 2 + k) * K
      BY <2>1
    <3>2. (i + j + 1) * K = i * K + j * K + K /\ (l * 2 + k) * K = 2 * (l * K) + k * K
      BY <1>5
    <3> QED BY <3>1, <3>2
  <2>2. Y + Z + K = 2 * H + p * K
    BY <1>1, <1>3, <2>1
  <2>3. p = 0 \/ p = 1
    BY <1>3
  <2>4. p * K = 0 \/ p * K = K
    BY <1>5, <2>3
  <2> HIDE DEF X, Y, Z, H, M
  <2> QED BY <1>5, <2>2, <2>4
<1>8. ASSUME NEW i \in 0 .. K - 1, NEW j \in 0 .. K - 1, NEW k \in 0 .. K - 1,
             rt = X + i, n1 = Y + j, n2 = Z + k
      PROVE  /\ (2 * X - 2 * H + 2 * M) - 2 * (M + o) <= (n2 - n1) + 3 * K
             /\ 2 * (M + o) - (2 * X - 2 * H + 2 * M) <= (n2 - n1) + 3 * K
  <2> HIDE DEF X, Y, Z, H, M
  <2> QED BY <1>5, <1>7, <1>8
<1>9. /\ (2 * X - 2 * H + 2 * M) - 2 * (M + o) <= (n2 - n1) + 3 * K
      /\ 2 * (M + o) - (2 * X - 2 * H + 2 * M) <= (n2 - n1) + 3 * K
  BY <1>1, <1>8
<1> QED BY <1>4, <1>6, <1>9 DEF u

LEMMA NearestMs ==
  ASSUME NEW u \in Int
  PROVE  LET m == (u + K \div 2) \div K
         IN  m \in Int /\ 2 * m * K - 2 * u <= K /\ 2 * u - 2 * m * K <= K
<1> DEFINE h == K \div 2
           m == (u + h) \div K
           r == (u + h) % K
<1>1. h \in Int /\ K = h * 2 /\ K \in Nat /\ K # 0
  <2>1. K % 2 = 0 /\ K \in Int
    BY TimetoolsAssumption
  <2>2. K \div 2 \in Int /\ K = (K \div 2) * 2 + (K % 2)
    BY <2>1, DivMod
  <2> QED BY <2>1, <2>2, Units
<1>2. m \in Int /\ r \in 0 .. K - 1 /\ u + h = m * K + r
  <2>1. u + h \in Int
    BY <1>1
  <2> QED BY <1>1, <2>1, DivMod
<1> HIDE DEF h, m, r
<1>3. m * K \in Int /\ 2 * m * K = 2 * (m * K)
  BY <1>1, <1>2
<1>4. 2 * m * K - 2 * u <= K /\ 2 * u - 2 * m * K <= K
  BY <1>1, <1>2, <1>3
<1> QED BY <1>2, <1>4 DEF m, h

-----------------------------------------------------------------------------
(* The inductive invariant.                                                *)

Exact(t) == t \in [ts : Timespec, want : Int] /\ t.want = Value(t.ts)

TimesInv == Exact(a) /\ Exact(b)

\* Where the clocks stand while time_monotonic_to_realtime_us reads them.
ReadInv ==
  /\ mono \in Int /\ off \in Int
  /\ conv.at \in {"idle", "realtime", "monotonic", "done"}
  /\ conv.at \in {"realtime", "monotonic"} =>
       conv.mt_us \in Int /\ conv.now1 \in Int /\ conv.now1 <= mono
  /\ conv.at = "monotonic" =>
       /\ conv.rt_now \in Int
       /\ conv.now1 + off <= conv.rt_now /\ conv.rt_now <= mono + off

TimeInv == TimesInv /\ ReadInv /\ RealtimeIsClose

LEMMA ExactTime ==
  ASSUME NEW ts \in Timespec, NEW want \in Int, want = Value(ts)
  PROVE  Exact(Time(ts, want))
BY DEF Exact, Time

LEMMA ExactFields ==
  ASSUME NEW t, Exact(t)
  PROVE  t.ts \in Timespec /\ t.want \in Int /\ t.want = Value(t.ts)
BY DEF Exact

LEMMA InitHolds == TimeInit => TimeInv
<1> SUFFICES ASSUME TimeInit
             PROVE  TimeInv
  OBVIOUS
<1>1. 0 \in 0 .. SEC /\ 0 * SEC + 0 = 0
  BY Units
<1>2. TS(0, 0) \in Timespec /\ Value(TS(0, 0)) = 0
  BY <1>1, TSFields
<1>3. TimesInv
  BY <1>2, ExactTime DEF TimeInit, TimesInv
<1>4. ReadInv /\ RealtimeIsClose
  BY DEF TimeInit, ReadInv, RealtimeIsClose
<1> QED BY <1>3, <1>4 DEF TimeInv

LEMMA ClockExact ==
  ASSUME TimesInv, NEW sec \in 0 .. Horizon - 1, NEW nsec \in Readings, Clock(sec, nsec)
  PROVE  TimesInv'
<1>1. sec \in Int /\ nsec \in 0 .. SEC
  BY TimetoolsAssumption, Units DEF SEC
<1>2. TS(sec, nsec) \in Timespec /\ Value(TS(sec, nsec)) = sec * SEC + nsec
  BY <1>1, TSFields
<1>3. sec * SEC + nsec \in Int
  BY <1>1, Units
<1>4. Exact(Time(TS(sec, nsec), sec * SEC + nsec))
  BY <1>2, <1>3, ExactTime
<1> QED BY <1>4 DEF TimesInv, Clock, Exact

LEMMA DiffExact ==
  ASSUME TimesInv, Diff
  PROVE  TimesInv'
<1>1. /\ a.ts \in Timespec /\ a.want \in Int /\ a.want = Value(a.ts)
      /\ b.ts \in Timespec /\ b.want \in Int /\ b.want = Value(b.ts)
  BY ExactFields DEF TimesInv
<1>2. /\ time_timespec_diff(a.ts, b.ts) \in Timespec
      /\ Value(time_timespec_diff(a.ts, b.ts)) = b.want - a.want
  BY <1>1, DiffValue
<1>3. b.want - a.want \in Int
  BY <1>1
<1>4. Exact(Time(time_timespec_diff(a.ts, b.ts), b.want - a.want))
  BY <1>2, <1>3, ExactTime
<1> QED BY <1>4 DEF TimesInv, Diff, Exact

LEMMA AddExact ==
  ASSUME TimesInv, NEW d \in Deltas, Add(d)
  PROVE  TimesInv'
<1>1. a.ts \in Timespec /\ a.want \in Int /\ a.want = Value(a.ts) /\ d \in Int
  BY ExactFields, TimetoolsAssumption DEF TimesInv
<1>2. /\ time_timespec_add_ns(a.ts, d) \in Timespec
      /\ Value(time_timespec_add_ns(a.ts, d)) = a.want + d
  BY <1>1, AddNs
<1>3. a.want + d \in Int
  BY <1>1
<1>4. Exact(Time(time_timespec_add_ns(a.ts, d), a.want + d))
  BY <1>2, <1>3, ExactTime
<1> QED BY <1>4 DEF TimesInv, Add, Exact

\* What is left of a number that is cut to a unit and multiplied back.
LEMMA CutToUnit ==
  ASSUME NEW n \in Int, NEW m \in Nat, m # 0
  PROVE  (n \div m) * m = n - (n % m) /\ n - (n % m) \in Int /\ n \div m \in Int
<1> DEFINE q == n \div m
           r == n % m
<1>1. q \in Int /\ r \in 0 .. m - 1 /\ n = q * m + r
  BY DivMod
<1> HIDE DEF q, r
<1>2. q * m \in Int
  BY <1>1
<1>3. q * m = n - r /\ n - r \in Int /\ q \in Int
  BY <1>1, <1>2
<1> QED BY <1>3 DEF q, r

LEMMA ConvertExact ==
  ASSUME TimesInv, NEW unit \in {1, K, K * K}, Convert(unit)
  PROVE  TimesInv'
<1>1. a.ts \in Timespec /\ a.want \in Int /\ a.want = Value(a.ts)
  BY ExactFields DEF TimesInv
<1>2. K # 1 /\ K * K # 1 /\ K * K # K
  <2>1. K \in Nat /\ K >= 2
    BY Units
  <2>2. K * K >= 2 * K
    BY <2>1
  <2>3. K * K \in Nat
    BY <2>1
  <2> QED BY <2>1, <2>2, <2>3
<1>3. Exact(b) /\ b' = b
  BY DEF TimesInv, Convert
<1>4. CASE unit = 1
  <2>1. a' = Time(time_ns_to_timespec(time_timespec_to_ns(a.ts)), a.want)
    BY <1>2, <1>4 DEF Convert
  <2>2. time_timespec_to_ns(a.ts) = a.want
    BY <1>1, TimespecFields DEF time_timespec_to_ns
  <2>3. Exact(a')
    BY <1>1, <2>1, <2>2, FromNs, ExactTime
  <2> QED BY <1>3, <2>3 DEF TimesInv, Exact
<1>5. CASE unit = K
  <2>1. a' = Time(time_us_to_timespec(time_timespec_to_us(a.ts)), a.want - (a.want % K))
    BY <1>2, <1>5 DEF Convert
  <2>2. time_timespec_to_us(a.ts) = a.want \div K
    BY <1>1, ToUs
  <2>3. /\ (a.want \div K) * K = a.want - (a.want % K)
        /\ a.want - (a.want % K) \in Int /\ a.want \div K \in Int
    BY <1>1, Units, CutToUnit
  <2>4. Exact(a')
    BY <2>1, <2>2, <2>3, FromUs, ExactTime
  <2> QED BY <1>3, <2>4 DEF TimesInv, Exact
<1>6. CASE unit = K * K
  <2>1. a' = Time(time_ms_to_timespec(time_timespec_to_ms(a.ts)), a.want - (a.want % (K * K)))
    BY <1>2, <1>6 DEF Convert
  <2>2. time_timespec_to_ms(a.ts) = a.want \div (K * K)
    BY <1>1, ToMs
  <2>3. /\ (a.want \div (K * K)) * (K * K) = a.want - (a.want % (K * K))
        /\ a.want - (a.want % (K * K)) \in Int /\ a.want \div (K * K) \in Int
    BY <1>1, Units, CutToUnit
  <2>4. Exact(a')
    BY <2>1, <2>2, <2>3, FromMs, ExactTime
  <2> QED BY <1>3, <2>4 DEF TimesInv, Exact
<1> QED BY <1>4, <1>5, <1>6

\* The steps of the computations.
Computes ==
  \/ \E sec \in 0 .. Horizon - 1, nsec \in Readings : Clock(sec, nsec)
  \/ Diff
  \/ \E d \in Deltas : Add(d)
  \/ \E unit \in {1, K, K * K} : Convert(unit)
  \/ Exchange

LEMMA ComputesExact ==
  ASSUME TimesInv, Computes
  PROVE  TimesInv'
<1>1. CASE Exchange
  BY <1>1 DEF TimesInv, Exchange, Exact
<1> QED BY <1>1, ClockExact, DiffExact, AddExact, ConvertExact DEF Computes

LEMMA ConversionKept ==
  ASSUME ReadInv, RealtimeIsClose, UNCHANGED <<mono, off, conv>>
  PROVE  ReadInv' /\ RealtimeIsClose'
BY DEF ReadInv, RealtimeIsClose

LEMMA ConvertStartKeeps ==
  ASSUME ReadInv, NEW mt_us \in Instants, NEW offset \in ClockOffsets,
         ConvertStart(mt_us, offset)
  PROVE  ReadInv' /\ RealtimeIsClose'
<1>1. mt_us \in Int /\ offset \in Int /\ mono \in Int
  BY TimetoolsAssumption DEF ReadInv
<1>2. /\ mono' = mono /\ off' = offset
      /\ conv' = [at |-> "realtime", mt_us |-> mt_us, now1 |-> mono]
  BY DEF ConvertStart
<1> QED BY <1>1, <1>2 DEF ReadInv, RealtimeIsClose

LEMMA ReadRealtimeKeeps ==
  ASSUME ReadInv, ReadRealtime
  PROVE  ReadInv' /\ RealtimeIsClose'
<1>1. /\ mono \in Int /\ off \in Int
      /\ conv.mt_us \in Int /\ conv.now1 \in Int /\ conv.now1 <= mono
  BY DEF ReadInv, ReadRealtime
<1>2. /\ mono' = mono /\ off' = off
      /\ conv' = [at |-> "monotonic", mt_us |-> conv.mt_us, now1 |-> conv.now1,
                  rt_now |-> mono + off]
  BY DEF ReadRealtime
<1> QED BY <1>1, <1>2 DEF ReadInv, RealtimeIsClose

LEMMA ConvertEndKeeps ==
  ASSUME ReadInv, ConvertEnd
  PROVE  ReadInv' /\ RealtimeIsClose'
<1> DEFINE u == RealtimeUs(conv.now1, conv.rt_now, mono, conv.mt_us)
           m == (u + K \div 2) \div K
<1>1. /\ mono \in Int /\ off \in Int
      /\ conv.mt_us \in Int /\ conv.now1 \in Int /\ conv.rt_now \in Int
      /\ conv.now1 + off <= conv.rt_now /\ conv.rt_now <= mono + off
  BY DEF ReadInv, ConvertEnd
<1>2. /\ mono' = mono /\ off' = off
      /\ conv' = [at |-> "done", mt_us |-> conv.mt_us, window |-> mono - conv.now1,
                  rt_us |-> u, rt_ms |-> m]
  BY DEF ConvertEnd
<1>3. /\ u \in Int
      /\ 2 * u * K - 2 * (conv.mt_us * K + off) <= (mono - conv.now1) + 3 * K
      /\ 2 * (conv.mt_us * K + off) - 2 * u * K <= (mono - conv.now1) + 3 * K
  BY <1>1, RealtimeBound
<1>4. 2 * m * K - 2 * u <= K /\ 2 * u - 2 * m * K <= K
  BY <1>3, NearestMs
<1> HIDE DEF u, m
<1>5. /\ conv'.at = "done" /\ conv'.mt_us = conv.mt_us /\ conv'.window = mono - conv.now1
      /\ conv'.rt_us = u /\ conv'.rt_ms = m
  BY <1>2
<1>6. ReadInv'
  BY <1>1, <1>2, <1>5 DEF ReadInv
<1>7. RealtimeIsClose'
  BY <1>2, <1>3, <1>4, <1>5 DEF RealtimeIsClose
<1> QED BY <1>6, <1>7

LEMMA AdvanceKeeps ==
  ASSUME ReadInv, NEW d \in Advances, Advance(d)
  PROVE  ReadInv' /\ RealtimeIsClose'
<1>1. d \in Nat
  BY TimetoolsAssumption
<1>2. /\ mono \in Int /\ off \in Int /\ conv.at \in {"realtime", "monotonic"}
      /\ conv.mt_us \in Int /\ conv.now1 \in Int /\ conv.now1 <= mono
      /\ mono' = mono + d /\ off' = off /\ conv' = conv
  BY DEF ReadInv, Advance
<1>3. mono' \in Int /\ conv.now1 <= mono'
  BY <1>1, <1>2
<1>4. CASE conv.at = "realtime"
  BY <1>2, <1>3, <1>4 DEF ReadInv, RealtimeIsClose
<1>5. CASE conv.at = "monotonic"
  <2>1. conv.rt_now \in Int /\ conv.now1 + off <= conv.rt_now /\ conv.rt_now <= mono + off
    BY <1>5 DEF ReadInv
  <2>2. conv.rt_now <= mono' + off'
    BY <1>1, <1>2, <2>1
  <2> QED BY <1>2, <1>3, <1>5, <2>1, <2>2 DEF ReadInv, RealtimeIsClose
<1> QED BY <1>2, <1>4, <1>5

LEMMA ConvertReturnKeeps ==
  ASSUME ConvertReturn
  PROVE  ReadInv' /\ RealtimeIsClose'
BY DEF ConvertReturn, ReadInv, RealtimeIsClose

LEMMA StepHolds ==
  ASSUME TimeInv, [TimeNext]_timeVars
  PROVE  TimeInv'
<1>1. TimesInv /\ ReadInv /\ RealtimeIsClose
  BY DEF TimeInv
<1>2. ASSUME Computes
      PROVE  TimeInv'
  <2>1. UNCHANGED <<mono, off, conv>>
    BY <1>2 DEF Computes, Clock, Diff, Add, Convert, Exchange
  <2> QED BY <1>1, <1>2, <2>1, ComputesExact, ConversionKept DEF TimeInv
<1>3. ASSUME UNCHANGED <<a, b>>
      PROVE  TimesInv'
  BY <1>1, <1>3 DEF TimesInv, Exact
<1>4. ASSUME NEW mt_us \in Instants, NEW offset \in ClockOffsets, ConvertStart(mt_us, offset)
      PROVE  TimeInv'
  <2>1. UNCHANGED <<a, b>>
    BY <1>4 DEF ConvertStart
  <2> QED BY <1>1, <1>3, <1>4, <2>1, ConvertStartKeeps DEF TimeInv
<1>5. ASSUME ReadRealtime
      PROVE  TimeInv'
  <2>1. UNCHANGED <<a, b>>
    BY <1>5 DEF ReadRealtime
  <2> QED BY <1>1, <1>3, <1>5, <2>1, ReadRealtimeKeeps DEF TimeInv
<1>6. ASSUME ConvertEnd
      PROVE  TimeInv'
  <2>1. UNCHANGED <<a, b>>
    BY <1>6 DEF ConvertEnd
  <2> QED BY <1>1, <1>3, <1>6, <2>1, ConvertEndKeeps DEF TimeInv
<1>7. ASSUME ConvertReturn
      PROVE  TimeInv'
  <2>1. UNCHANGED <<a, b>>
    BY <1>7 DEF ConvertReturn
  <2> QED BY <1>1, <1>3, <1>7, <2>1, ConvertReturnKeeps DEF TimeInv
<1>8. ASSUME NEW d \in Advances, Advance(d)
      PROVE  TimeInv'
  <2>1. UNCHANGED <<a, b>>
    BY <1>8 DEF Advance
  <2> QED BY <1>1, <1>3, <1>8, <2>1, AdvanceKeeps DEF TimeInv
<1>9. ASSUME UNCHANGED timeVars
      PROVE  TimeInv'
  <2>1. UNCHANGED <<a, b>> /\ UNCHANGED <<mono, off, conv>>
    BY <1>9 DEF timeVars
  <2> QED BY <1>1, <1>3, <2>1, ConversionKept DEF TimeInv
<1>10. ASSUME TimeNext
       PROVE  \/ Computes
              \/ \E mt_us \in Instants, offset \in ClockOffsets : ConvertStart(mt_us, offset)
              \/ ReadRealtime \/ ConvertEnd \/ ConvertReturn
              \/ \E d \in Advances : Advance(d)
  BY <1>10, Zenon DEF TimeNext, Computes
<1> QED BY <1>2, <1>4, <1>5, <1>6, <1>7, <1>8, <1>9, <1>10

\* A time is worth the nanoseconds it should be after any sequence of calls,
\* and the clock readings of a conversion stay in order (timetools.c).
THEOREM Invariance == TimeSpec => []TimeInv
<1>1. TimeInv /\ [TimeNext]_timeVars => TimeInv'
  BY StepHolds
<1> QED BY <1>1, InitHolds, PTL DEF TimeSpec

LEMMA TimeIsExact ==
  ASSUME NEW t, Exact(t)
  PROVE  /\ time_timespec_to_ns(t.ts) = t.want
         /\ Normalised(t.ts) \/ WholeSecond(t.ts)
         /\ time_timeval_to_ms(t.ts.tv_sec, t.ts.tv_nsec \div K)
              = (t.want \div (K * K)) % UintMod
<1>1. t.ts \in Timespec /\ t.want \in Int /\ t.want = Value(t.ts)
  BY ExactFields
<1>2. time_timespec_to_ns(t.ts) = t.want
  BY <1>1, TimespecFields DEF time_timespec_to_ns
<1>3. Normalised(t.ts) \/ WholeSecond(t.ts)
  <2>1. t.ts.tv_nsec \in 0 .. SEC /\ SEC \in Nat
    BY <1>1, TimespecFields, Units
  <2> QED BY <2>1 DEF Normalised, WholeSecond
<1>4. time_timeval_to_ms(t.ts.tv_sec, t.ts.tv_nsec \div K) = (t.want \div (K * K)) % UintMod
  BY <1>1, TimevalMs
<1> QED BY <1>2, <1>3, <1>4

\* However calls follow each other, times keep the value that integers would
\* give them, and comparison, distance, sign and range agree with the integers
\* (timetools.c:234-478).
THEOREM TimeArithmeticExact == TimeSpec => []ArithmeticExact
<1>1. ASSUME TimeInv
      PROVE  ArithmeticExact
  <2>1. Exact(a) /\ Exact(b)
    BY <1>1 DEF TimeInv, TimesInv
  <2>2. /\ a.ts \in Timespec /\ a.want \in Int /\ a.want = Value(a.ts)
        /\ b.ts \in Timespec /\ b.want \in Int /\ b.want = Value(b.ts)
    BY <2>1, ExactFields
  <2>3. \A t \in {a, b} : /\ time_timespec_to_ns(t.ts) = t.want
                          /\ Normalised(t.ts) \/ WholeSecond(t.ts)
                          /\ time_timeval_to_ms(t.ts.tv_sec, t.ts.tv_nsec \div K)
                               = (t.want \div (K * K)) % UintMod
    BY <2>1, TimeIsExact
  <2>4. ASSUME Normalised(a.ts), Normalised(b.ts)
        PROVE  LET dist == IF a.want > b.want THEN a.want - b.want ELSE b.want - a.want
               IN  /\ time_timespec_cmp(a.ts, b.ts) = Sign(a.want - b.want)
                   /\ time_timespec_diff_us(a.ts, b.ts) =
                        <<dist \div K, IF a.want > b.want THEN 1 ELSE -1>>
                   /\ \A range \in {0, 1, dist \div K, dist \div K + 1} :
                        time_timespec_diff_in_range(a.ts, b.ts, range).in
                          <=> (dist = 0 \/ dist \div K < range)
    <3> DEFINE dist == IF a.want > b.want THEN a.want - b.want ELSE b.want - a.want
    <3>1. dist = Distance(Value(a.ts), Value(b.ts))
      BY <2>2 DEF Distance
    <3>2. time_timespec_cmp(a.ts, b.ts) = Sign(a.want - b.want)
      BY <2>2, <2>4, CmpValue
    <3>3. time_timespec_diff_us(a.ts, b.ts) =
            <<Distance(Value(a.ts), Value(b.ts)) \div K,
              IF Value(a.ts) > Value(b.ts) THEN 1 ELSE -1>>
      BY <2>2, <2>4, DiffUsValue
    <3>4. ASSUME NEW range
          PROVE  time_timespec_diff_in_range(a.ts, b.ts, range).in
                   <=> (Distance(Value(a.ts), Value(b.ts)) = 0
                          \/ Distance(Value(a.ts), Value(b.ts)) \div K < range)
      BY <2>2, <2>4, InRangeValue
    <3> HIDE DEF dist
    <3>5. time_timespec_diff_us(a.ts, b.ts) =
            <<dist \div K, IF a.want > b.want THEN 1 ELSE -1>>
      BY <2>2, <3>1, <3>3
    <3>6. \A range \in {0, 1, dist \div K, dist \div K + 1} :
            time_timespec_diff_in_range(a.ts, b.ts, range).in
              <=> (dist = 0 \/ dist \div K < range)
      BY <3>1, <3>4, Zenon
    <3> QED BY <3>2, <3>5, <3>6 DEF dist
  <2> QED BY <2>3, <2>4, Zenon DEF ArithmeticExact
<1> QED BY <1>1, Invariance, PTL

\* The deadline of a blocking push is a normalised time and, if timeout_ms * 1000
\* fits an unsigned int, lies as far ahead as it was asked to (dynmbox.c:559-560).
THEOREM PushDeadlineAsAsked == TimeSpec => []DeadlineAsAsked
<1>1. ASSUME TimeInv
      PROVE  DeadlineAsAsked
  <2> SUFFICES ASSUME Normalised(b.ts), NEW timeout_ms \in Timeouts
               PROVE  /\ Normalised(PushDeadline(b.ts.tv_sec, b.ts.tv_nsec \div K, timeout_ms))
                      /\ timeout_ms * K < UintMod => WaitOf(timeout_ms) = timeout_ms * K * K
    BY DEF DeadlineAsAsked
  <2> DEFINE until == PushDeadline(b.ts.tv_sec, b.ts.tv_nsec \div K, timeout_ms)
             n == timeout_ms * K
             m == n % UintMod
  <2>1. b.ts \in Timespec /\ timeout_ms \in Nat
    BY <1>1, ExactFields, TimetoolsAssumption DEF TimeInv, TimesInv
  <2>2. Normalised(until) /\ WaitOf(timeout_ms) = m * K
    BY <2>1, DeadlineValue DEF WaitOf
  <2>3. UintMod \in Nat /\ UintMod # 0 /\ n \in Nat
    BY <2>1, TimetoolsAssumption, Units
  <2>4. n < UintMod => m = n
    BY <2>3
  <2> HIDE DEF n, m, until
  <2>5. n < UintMod => WaitOf(timeout_ms) = n * K
    BY <2>2, <2>4
  <2> QED BY <2>2, <2>5 DEF n, until
<1> QED BY <1>1, Invariance, PTL

\* The realtime value of a monotonic time is wrong by at most half of the time
\* between the two monotonic readings plus a microsecond and a half, and its
\* milliseconds are the nearest (time_monotonic_to_realtime_us and _ms).
THEOREM RealtimeIsAlwaysClose == TimeSpec => []RealtimeIsClose
<1>1. TimeInv => RealtimeIsClose
  BY DEF TimeInv
<1> QED BY <1>1, Invariance, PTL

-----------------------------------------------------------------------------
(* What a time_ctx holds.                                                  *)

TmFields == {"tm_year", "tm_mon", "tm_mday", "tm_hour", "tm_min", "tm_sec", "gmtoff"}
Tm == [TmFields -> Int]

LEMMA BlankIsTm == BlankTm \in Tm
BY DEF BlankTm, Tm, TmFields

\* Only the fields that are parsed are written, and if all the numbers are
\* numbers each of them gets its own.
LEMMA StoreKeeps ==
  ASSUME NEW tm \in Tm, NEW fs, NEW ns, NEW kept, NEW f \in TmFields, \A i \in DOMAIN fs : fs[i] # f
  PROVE  StoreNumbers(tm, fs, ns, kept)[f] = tm[f]
BY DEF StoreNumbers, Tm

LEMMA StoreIsTm ==
  ASSUME NEW tm \in Tm, NEW fs, NEW ns, NEW kept, \A i \in DOMAIN fs : ns[i] \in Int
  PROVE  StoreNumbers(tm, fs, ns, kept) \in Tm
<1>1. ASSUME NEW f \in TmFields
      PROVE  StoreNumbers(tm, fs, ns, kept)[f] \in Int
  <2>1. CASE \E i \in DOMAIN fs : fs[i] = f
    <3>1. PICK i : i = CHOOSE k \in DOMAIN fs : fs[k] = f
      OBVIOUS
    <3>2. i \in DOMAIN fs
      BY <2>1, <3>1
    <3>3. ns[i] \in Int /\ tm[f] \in Int
      BY <3>2 DEF Tm
    <3> QED BY <3>1, <3>3 DEF StoreNumbers, Tm
  <2>2. CASE ~\E i \in DOMAIN fs : fs[i] = f
    BY <2>2, StoreKeeps DEF Tm
  <2> QED BY <2>1, <2>2
<1>2. StoreNumbers(tm, fs, ns, kept) = [f \in TmFields |-> StoreNumbers(tm, fs, ns, kept)[f]]
  BY DEF StoreNumbers, Tm
<1> QED BY <1>1, <1>2 DEF Tm

LEMMA StoreSets ==
  ASSUME NEW tm \in Tm, NEW fs, NEW ns, NEW kept, NEW i \in DOMAIN fs, fs[i] \in TmFields,
         \A k \in DOMAIN fs : fs[k] = fs[i] => k = i,
         \A k \in 1 .. i : ns[k] # NaN, i \in Nat \ {0}
  PROVE  StoreNumbers(tm, fs, ns, kept)[fs[i]] = ns[i]
<1>1. \A k \in 1 .. i - 1 : ns[k] # NaN
  OBVIOUS
<1>2. ns[i] # NaN
  OBVIOUS
<1>3. (CHOOSE k \in DOMAIN fs : fs[k] = fs[i]) = i
  OBVIOUS
<1> QED BY <1>1, <1>2, <1>3 DEF StoreNumbers, Tm

HourNumbers(h) == <<h.hour, h.min, h.sec>>
HourRead(h) == AllNumbers(HourNumbers(h)) /\ ZoneKnown(h) /\ AllNumbers(ZoneNumbers(h))
HourWell(h) == h.layout \in {"long", "short"} /\ HourRead(h)

\* tm says what a string says, before and after the callers rebase it.
RawDate(tm, d) == tm["tm_year"] = d.year /\ tm["tm_mon"] = d.mon /\ tm["tm_mday"] = d.mday
SaysDate(tm, d) == tm["tm_year"] = d.year - 1900 /\ tm["tm_mon"] = d.mon - 1 /\ tm["tm_mday"] = d.mday
SaysHour(tm, h) ==
  /\ tm["tm_hour"] = h.hour /\ tm["tm_min"] = h.min /\ tm["tm_sec"] = h.sec
  /\ tm["gmtoff"] = GmtOff(h)

SameDate(x, y) == x["tm_year"] = y["tm_year"] /\ x["tm_mon"] = y["tm_mon"] /\ x["tm_mday"] = y["tm_mday"]
SameHour(x, y) ==
  /\ x["tm_hour"] = y["tm_hour"] /\ x["tm_min"] = y["tm_min"] /\ x["tm_sec"] = y["tm_sec"]
  /\ x["gmtoff"] = y["gmtoff"]

\* A date changes nothing of the hour.
LEMMA StoreDate ==
  ASSUME NEW d \in DateStrings, NEW tm \in Tm, NEW kept,
         NEW x, x = StoreNumbers(tm, DateFields, DateNumbers(d), kept)
  PROVE  x \in Tm /\ SameHour(x, tm) /\ (AllNumbers(DateNumbers(d)) => RawDate(x, d))
<1>1. PICK fs, ns : fs = DateFields /\ ns = DateNumbers(d)
  OBVIOUS
<1>2. /\ DOMAIN fs = 1 .. 3 /\ fs[1] = "tm_year" /\ fs[2] = "tm_mon" /\ fs[3] = "tm_mday"
      /\ DOMAIN ns = 1 .. 3 /\ ns[1] = d.year /\ ns[2] = d.mon /\ ns[3] = d.mday
  BY <1>1 DEF DateFields, DateNumbers
<1>3. ns[1] \in Int /\ ns[2] \in Int /\ ns[3] \in Int
  BY <1>2 DEF DateStrings, Number, NaN
<1>4. \A i \in DOMAIN fs : ns[i] \in Int
  BY <1>2, <1>3
<1>5. x \in Tm
  BY <1>1, <1>4, StoreIsTm
<1>6. ASSUME NEW f \in {"tm_hour", "tm_min", "tm_sec", "gmtoff"}
      PROVE  x[f] = tm[f]
  <2>1. \A i \in DOMAIN fs : fs[i] # f
    BY <1>2
  <2> QED BY <1>1, <2>1, StoreKeeps DEF TmFields
<1>7. ASSUME AllNumbers(ns), NEW i \in 1 .. 3
      PROVE  x[fs[i]] = ns[i]
  <2>1. \A k \in 1 .. i : ns[k] # NaN
    BY <1>2, <1>7 DEF AllNumbers
  <2>2. \A k \in DOMAIN fs : fs[k] = fs[i] => k = i
    BY <1>2
  <2>3. fs[i] \in TmFields /\ i \in DOMAIN fs /\ i \in Nat \ {0}
    BY <1>2 DEF TmFields
  <2> QED BY <1>1, <2>1, <2>2, <2>3, StoreSets
<1>8. AllNumbers(ns) => RawDate(x, d)
  BY <1>2, <1>7 DEF RawDate
<1>9. SameHour(x, tm)
  BY <1>6 DEF SameHour
<1> QED BY <1>1, <1>5, <1>8, <1>9

LEMMA StoreHour ==
  ASSUME NEW h \in HourStrings, NEW tm \in Tm,
         NEW x, x = StoreNumbers(tm, <<"tm_hour", "tm_min", "tm_sec">>, HourNumbers(h), {})
  PROVE  /\ x \in Tm /\ SameDate(x, tm) /\ x["gmtoff"] = tm["gmtoff"]
         /\ AllNumbers(HourNumbers(h)) =>
              x["tm_hour"] = h.hour /\ x["tm_min"] = h.min /\ x["tm_sec"] = h.sec
<1>1. PICK fs, ns : fs = <<"tm_hour", "tm_min", "tm_sec">> /\ ns = HourNumbers(h)
  OBVIOUS
<1>2. /\ DOMAIN fs = 1 .. 3 /\ fs[1] = "tm_hour" /\ fs[2] = "tm_min" /\ fs[3] = "tm_sec"
      /\ DOMAIN ns = 1 .. 3 /\ ns[1] = h.hour /\ ns[2] = h.min /\ ns[3] = h.sec
  BY <1>1 DEF HourNumbers
<1>3. ns[1] \in Int /\ ns[2] \in Int /\ ns[3] \in Int
  BY <1>2 DEF HourStrings, Number, NaN
<1>4. \A i \in DOMAIN fs : ns[i] \in Int
  BY <1>2, <1>3
<1>5. x \in Tm
  BY <1>1, <1>4, StoreIsTm
<1>6. ASSUME NEW f \in {"tm_year", "tm_mon", "tm_mday", "gmtoff"}
      PROVE  x[f] = tm[f]
  <2>1. \A i \in DOMAIN fs : fs[i] # f
    BY <1>2
  <2> QED BY <1>1, <2>1, StoreKeeps DEF TmFields
<1>7. ASSUME AllNumbers(ns), NEW i \in 1 .. 3
      PROVE  x[fs[i]] = ns[i]
  <2>1. \A k \in 1 .. i : ns[k] # NaN
    BY <1>2, <1>7 DEF AllNumbers
  <2>2. \A k \in DOMAIN fs : fs[k] = fs[i] => k = i
    BY <1>2
  <2>3. fs[i] \in TmFields /\ i \in DOMAIN fs /\ i \in Nat \ {0}
    BY <1>2 DEF TmFields
  <2> QED BY <1>1, <2>1, <2>2, <2>3, StoreSets
<1>8. AllNumbers(ns) => x["tm_hour"] = h.hour /\ x["tm_min"] = h.min /\ x["tm_sec"] = h.sec
  BY <1>2, <1>7
<1>9. SameDate(x, tm) /\ x["gmtoff"] = tm["gmtoff"]
  BY <1>6 DEF SameDate
<1> QED BY <1>1, <1>5, <1>8, <1>9

\* What a parser leaves behind, and whether it succeeds.
LEMMA DateParsed ==
  ASSUME NEW d \in DateStrings, NEW tm \in Tm,
         NEW p, p \in {parse_date(d, tm), parse_date_rfc1123(d, tm)}
  PROVE  /\ p.tm \in Tm /\ SameHour(p.tm, tm)
         /\ p.ok => AllNumbers(DateNumbers(d)) /\ RawDate(p.tm, d)
<1>1. PICK x, y : /\ x = StoreNumbers(tm, DateFields, DateNumbers(d), {})
                  /\ y = StoreNumbers(tm, DateFields, DateNumbers(d), {"tm_mon"})
  OBVIOUS
<1>2. /\ x \in Tm /\ SameHour(x, tm) /\ (AllNumbers(DateNumbers(d)) => RawDate(x, d))
      /\ y \in Tm /\ SameHour(y, tm) /\ (AllNumbers(DateNumbers(d)) => RawDate(y, d))
  BY <1>1, StoreDate
<1>3. SameHour(tm, tm)
  BY DEF SameHour
<1>4. \/ p = [ok |-> FALSE, tm |-> tm]
      \/ p = [ok |-> AllNumbers(DateNumbers(d)), tm |-> x]
      \/ p = [ok |-> AllNumbers(DateNumbers(d)), tm |-> y]
  BY <1>1 DEF parse_date, parse_date_rfc1123
<1> QED BY <1>2, <1>3, <1>4

LEMMA HourParsed ==
  ASSUME NEW h \in HourStrings, NEW tm \in Tm, NEW p, p = parse_time(h, tm)
  PROVE  /\ p.tm \in Tm /\ SameDate(p.tm, tm)
         /\ p.ok => h.layout \in {"long", "short"} /\ HourRead(h) /\ SaysHour(p.tm, h)
<1>1. PICK x : x = StoreNumbers(tm, <<"tm_hour", "tm_min", "tm_sec">>, HourNumbers(h), {})
  OBVIOUS
<1>2. /\ x \in Tm /\ SameDate(x, tm) /\ x["gmtoff"] = tm["gmtoff"]
      /\ AllNumbers(HourNumbers(h)) => x["tm_hour"] = h.hour /\ x["tm_min"] = h.min /\ x["tm_sec"] = h.sec
  BY <1>1, StoreHour
<1>3. SameDate(tm, tm)
  BY DEF SameDate
<1>4. GmtOff(h) \in Int
  BY DEF GmtOff, HourStrings, Number, NaN
<1>5. PICK y : y = [x EXCEPT !.gmtoff = GmtOff(h)]
  OBVIOUS
<1>6. y \in Tm /\ SameDate(y, tm) /\ (HourRead(h) => SaysHour(y, h))
  BY <1>2, <1>4, <1>5 DEF Tm, TmFields, SameDate, SaysHour, HourRead
<1>7. CASE h.layout \notin {"long", "short"}
  <2>1. p = [ok |-> FALSE, tm |-> tm]
    BY <1>7 DEF parse_time
  <2> QED BY <1>3, <2>1
<1>8. CASE h.layout \in {"long", "short"} /\ HourRead(h)
  <2>1. HourRead(h) = TRUE
    BY <1>8 DEF HourRead, AllNumbers, ZoneKnown
  <2>2. p = [ok |-> TRUE, tm |-> y]
    BY <1>1, <1>5, <1>8, <2>1 DEF parse_time, HourRead, HourNumbers
  <2>3. p.tm = y
    BY <2>2
  <2> QED BY <1>6, <1>8, <2>3
<1>9. CASE h.layout \in {"long", "short"} /\ ~HourRead(h)
  <2>1. p = [ok |-> HourRead(h), tm |-> IF HourRead(h) THEN [x EXCEPT !.gmtoff = GmtOff(h)] ELSE x]
    BY <1>1, <1>9 DEF parse_time, HourRead, HourNumbers
  <2>2. p.tm = x /\ p.ok = HourRead(h)
    BY <1>9, <2>1
  <2> QED BY <1>2, <1>9, <2>2
<1> QED BY <1>7, <1>8, <1>9

\* And it does succeed on such strings.
LEMMA DateAccepted ==
  ASSUME NEW d \in DateStrings, NEW tm, AllNumbers(DateNumbers(d))
  PROVE  /\ d.layout \in {"long", "short"} => parse_date(d, tm).ok
         /\ parse_date_rfc1123(d, tm).ok
BY DEF parse_date, parse_date_rfc1123

LEMMA HourAccepted ==
  ASSUME NEW h \in HourStrings, NEW tm, HourWell(h)
  PROVE  parse_time(h, tm).ok = TRUE
<1>1. HourRead(h) = TRUE
  BY DEF HourWell, HourRead, AllNumbers, ZoneKnown
<1>2. parse_time(h, tm).ok = HourRead(h)
  BY DEF HourWell, parse_time, HourRead, HourNumbers
<1> QED BY <1>1, <1>2

LEMMA RebaseIs ==
  ASSUME NEW tm \in Tm, NEW r, r = Rebase(tm)
  PROVE  /\ r \in Tm /\ SameHour(r, tm) /\ r["gmtoff"] = tm["gmtoff"]
         /\ \A d \in DateStrings : RawDate(tm, d) => SaysDate(r, d)
<1> DEFINE x == [tm EXCEPT !.tm_year = tm.tm_year - 1900]
<1>1. DOMAIN tm = TmFields
  BY DEF Tm
<1>2. DOMAIN x = TmFields /\ x = [f \in TmFields |-> x[f]]
  BY DEF Tm
<1>3. x.tm_year = tm.tm_year - 1900 /\ x.tm_mon = tm.tm_mon
  BY <1>1 DEF TmFields
<1>4. \A f \in TmFields \ {"tm_year"} : x[f] = tm[f]
  BY <1>1 DEF TmFields
<1>5. r = [x EXCEPT !.tm_mon = x.tm_mon - 1]
  BY DEF Rebase
<1> HIDE DEF x
<1>6. DOMAIN r = TmFields /\ r = [f \in TmFields |-> r[f]]
  BY <1>2, <1>5
<1>7. r["tm_year"] = tm["tm_year"] - 1900 /\ r["tm_mon"] = tm["tm_mon"] - 1
  BY <1>2, <1>3, <1>5 DEF TmFields
<1>8. ASSUME NEW f \in TmFields \ {"tm_year", "tm_mon"}
       PROVE  r[f] = tm[f]
  BY <1>2, <1>4, <1>5
<1>9. \A f \in TmFields : tm[f] \in Int
  BY DEF Tm
<1>10. "tm_year" \in TmFields /\ "tm_mon" \in TmFields
  BY DEF TmFields
<1>11. \A f \in TmFields : r[f] \in Int
  BY <1>9, <1>10, <1>7, <1>8
<1>12. r \in Tm
  BY <1>6, <1>11 DEF Tm
<1>13. SameHour(r, tm) /\ r["gmtoff"] = tm["gmtoff"] /\ r["tm_mday"] = tm["tm_mday"]
  BY <1>8 DEF SameHour, TmFields
<1>14. ASSUME NEW d \in DateStrings, RawDate(tm, d)
      PROVE  SaysDate(r, d)
  BY <1>13, <1>14, <1>7 DEF RawDate, SaysDate
<1> QED BY <1>12, <1>13, <1>14

\* A date and an hour together.
DateRead(d) == d.layout \in {"long", "short", "rfc1123"} /\ AllNumbers(DateNumbers(d))

LEMMA SaysHourSame ==
  ASSUME NEW x, NEW y, NEW h, SameHour(x, y), SaysHour(y, h)
  PROVE  SaysHour(x, h)
BY DEF SameHour, SaysHour

LEMMA RawDateSame ==
  ASSUME NEW x, NEW y, NEW d, SameDate(x, y), RawDate(y, d)
  PROVE  RawDate(x, d)
BY DEF SameDate, RawDate

LEMMA BadHour ==
  ASSUME NEW h \in HourStrings, NEW g, g = [h EXCEPT !.hour = NaN]
  PROVE  g \in HourStrings /\ ~HourRead(g)
<1>1. g \in HourStrings
  BY DEF HourStrings, Number
<1>2. g.hour = NaN
  BY DEF HourStrings
<1>3. HourNumbers(g)[1] = NaN /\ 1 \in DOMAIN HourNumbers(g)
  BY <1>2 DEF HourNumbers
<1> QED BY <1>1, <1>3 DEF HourRead, AllNumbers

LEMMA BothParsed ==
  ASSUME NEW d \in DateStrings, NEW sep, NEW h \in HourStrings, NEW tm \in Tm,
         NEW p, p = parse_date_time(d, sep, h, tm)
  PROVE  /\ p.tm \in Tm
         /\ p.ok => DateRead(d) /\ HourWell(h) /\ RawDate(p.tm, d) /\ SaysHour(p.tm, h)
<1>1. PICK q : q = IF d.layout = "rfc1123" THEN parse_date_rfc1123(d, tm) ELSE parse_date(d, tm)
  OBVIOUS
<1>2. q \in {parse_date(d, tm), parse_date_rfc1123(d, tm)}
  BY <1>1
<1>3. q.tm \in Tm /\ (q.ok => AllNumbers(DateNumbers(d)) /\ RawDate(q.tm, d))
  BY <1>2, DateParsed
<1>4. q.ok => d.layout \in {"long", "short", "rfc1123"}
  BY <1>1 DEF parse_date
<1>5. CASE d.layout # "rfc1123" /\ sep = "other"
  <2>1. p = [ok |-> FALSE, tm |-> tm]
    BY <1>5 DEF parse_date_time
  <2> QED BY <2>1
<1>6. CASE ~(d.layout # "rfc1123" /\ sep = "other") /\ ~q.ok
  <2>1. p = q
    BY <1>1, <1>6 DEF parse_date_time
  <2> QED BY <1>3, <1>6, <2>1
<1>7. CASE ~(d.layout # "rfc1123" /\ sep = "other") /\ q.ok /\ sep = "other"
  <2>1. PICK g : g = [h EXCEPT !.hour = NaN]
    OBVIOUS
  <2>2. p = parse_time(g, q.tm)
    BY <1>1, <1>7, <2>1 DEF parse_date_time
  <2>3. g \in HourStrings /\ ~HourRead(g)
    BY <2>1, BadHour
  <2>4. p.tm \in Tm /\ ~p.ok
    BY <1>3, <2>2, <2>3, HourParsed
  <2> QED BY <2>4
<1>8. CASE ~(d.layout # "rfc1123" /\ sep = "other") /\ q.ok /\ sep # "other"
  <2>1. p = parse_time(h, q.tm)
    BY <1>1, <1>8 DEF parse_date_time
  <2>2. p.tm \in Tm /\ SameDate(p.tm, q.tm) /\ (p.ok => HourWell(h) /\ SaysHour(p.tm, h))
    BY <1>3, <2>1, HourParsed DEF HourWell
  <2>3. RawDate(p.tm, d)
    BY <1>3, <1>8, <2>2, RawDateSame
  <2>4. DateRead(d)
    BY <1>3, <1>4, <1>8 DEF DateRead
  <2> QED BY <2>2, <2>3, <2>4
<1> QED BY <1>5, <1>6, <1>7, <1>8

LEMMA BothAccepted ==
  ASSUME NEW d \in DateStrings, NEW sep, sep # "other", NEW h \in HourStrings, NEW tm \in Tm,
         DateRead(d), HourWell(h)
  PROVE  parse_date_time(d, sep, h, tm).ok = TRUE
<1>1. PICK q : q = IF d.layout = "rfc1123" THEN parse_date_rfc1123(d, tm) ELSE parse_date(d, tm)
  OBVIOUS
<1>2. q.ok
  BY <1>1, DateAccepted DEF DateRead
<1>3. parse_date_time(d, sep, h, tm) = parse_time(h, q.tm)
  BY <1>1, <1>2 DEF parse_date_time
<1>4. parse_time(h, q.tm).ok = TRUE
  BY HourAccepted, Zenon
<1> QED BY <1>3, <1>4

\* What the fields of a context that are set stand for; a failed call writes
\* only to the part of the tm that is not set.
Contexts == [fields : SUBSET TIME_FIELD_ALL, tm : Tm,
             ret : {"none", "ok", "EINPROGRESS", "EEXIST", "EINVAL"}]
DateHeld(c, d) == "date" \in c.fields => d \in Dates /\ DateRead(d) /\ SaysDate(c.tm, d)
HourHeld(c, h) == "hour" \in c.fields => h \in Hours /\ HourWell(h) /\ SaysHour(c.tm, h)
CtxInv == ctx \in Contexts /\ DateHeld(ctx, dateIn) /\ HourHeld(ctx, hourIn)

LEMMA SaysDateSame ==
  ASSUME NEW x, NEW y, NEW d, SameDate(x, y), SaysDate(y, d)
  PROVE  SaysDate(x, d)
BY DEF SameDate, SaysDate

\* Only the return value changes.
LEMMA CtxRefused ==
  ASSUME NEW c \in Contexts, NEW c2, c2 = [c EXCEPT !.ret = "EEXIST"],
         NEW d, NEW h, DateHeld(c, d), HourHeld(c, h)
  PROVE  c2 \in Contexts /\ DateHeld(c2, d) /\ HourHeld(c2, h)
<1>1. c2 \in Contexts /\ c2.fields = c.fields /\ c2.tm = c.tm
  BY DEF Contexts
<1> QED BY <1>1 DEF DateHeld, HourHeld

\* A call that fails.
LEMMA CtxFailed ==
  ASSUME NEW c \in Contexts, NEW tm \in Tm, NEW c2, c2 = [c EXCEPT !.tm = tm, !.ret = "EINVAL"],
         NEW d, NEW h, DateHeld(c, d), HourHeld(c, h),
         "date" \in c.fields => SameDate(tm, c.tm),
         "hour" \in c.fields => SameHour(tm, c.tm)
  PROVE  c2 \in Contexts /\ DateHeld(c2, d) /\ HourHeld(c2, h)
<1>1. c2 \in Contexts /\ c2.fields = c.fields /\ c2.tm = tm
  BY DEF Contexts
<1>2. DateHeld(c2, d)
  BY <1>1, SaysDateSame DEF DateHeld
<1>3. HourHeld(c2, h)
  BY <1>1, SaysHourSame DEF HourHeld
<1> QED BY <1>1, <1>2, <1>3

LEMMA StringsAre == Dates \subseteq DateStrings /\ Hours \subseteq HourStrings
BY StringsAssumption

LEMMA CtxSetDate ==
  ASSUME NEW d \in Dates, CtxInv, time_ctx_set_date(d)
  PROVE  CtxInv'
<1>1. PICK p : p = parse_date(d, ctx.tm)
  OBVIOUS
<1>2. ctx \in Contexts /\ ctx.tm \in Tm /\ ctx.fields \subseteq TIME_FIELD_ALL
  BY DEF CtxInv, Contexts
<1>3. d \in DateStrings
  BY StringsAre
<1>4. /\ p.tm \in Tm /\ SameHour(p.tm, ctx.tm)
      /\ p.ok => AllNumbers(DateNumbers(d)) /\ RawDate(p.tm, d)
  BY <1>1, <1>2, <1>3, DateParsed
<1>5. CASE "date" \in ctx.fields /\ Refuse("EEXIST")
  BY <1>2, <1>5, CtxRefused DEF CtxInv, Refuse
<1>6. CASE /\ "date" \notin ctx.fields /\ ~p.ok
           /\ ctx' = [ctx EXCEPT !.tm = p.tm, !.ret = "EINVAL"]
           /\ UNCHANGED <<dateIn, hourIn>>
  BY <1>2, <1>4, <1>6, CtxFailed DEF CtxInv
<1>7. CASE /\ "date" \notin ctx.fields /\ p.ok
           /\ ctx' = [fields |-> ctx.fields \cup {"date"}, tm |-> Rebase(p.tm),
                      ret |-> Status(ctx.fields \cup {"date"})]
           /\ dateIn' = d /\ UNCHANGED hourIn
  <2>1. PICK r : r = Rebase(p.tm)
    OBVIOUS
  <2>2. r \in Tm /\ SameHour(r, p.tm) /\ SaysDate(r, d)
    BY <1>3, <1>4, <1>7, <2>1, RebaseIs
  <2>3. ctx'.fields = ctx.fields \cup {"date"} /\ ctx'.tm = r /\ ctx' \in Contexts
    BY <1>2, <1>7, <2>1, <2>2 DEF Contexts, Status, TIME_FIELD_ALL
  <2>4. DateRead(d)
    BY <1>1, <1>4, <1>7 DEF DateRead, parse_date
  <2>5. DateHeld(ctx', d)
    BY <2>2, <2>3, <2>4 DEF DateHeld
  <2>6. HourHeld(ctx', hourIn)
    BY <1>4, <2>2, <2>3, SaysHourSame DEF HourHeld, CtxInv
  <2> QED BY <1>7, <2>3, <2>5, <2>6 DEF CtxInv
<1> QED BY <1>1, <1>5, <1>6, <1>7 DEF time_ctx_set_date

LEMMA CtxSetHour ==
  ASSUME NEW h \in Hours, CtxInv, time_ctx_set_hour(h)
  PROVE  CtxInv'
<1>1. PICK p : p = parse_time(h, ctx.tm)
  OBVIOUS
<1>2. ctx \in Contexts /\ ctx.tm \in Tm /\ ctx.fields \subseteq TIME_FIELD_ALL
  BY DEF CtxInv, Contexts
<1>3. h \in HourStrings
  BY StringsAre
<1>4. /\ p.tm \in Tm /\ SameDate(p.tm, ctx.tm)
      /\ p.ok => HourWell(h) /\ SaysHour(p.tm, h)
  BY <1>1, <1>2, <1>3, HourParsed DEF HourWell
<1>5. CASE "hour" \in ctx.fields /\ Refuse("EEXIST")
  BY <1>2, <1>5, CtxRefused DEF CtxInv, Refuse
<1>6. CASE /\ "hour" \notin ctx.fields /\ ~p.ok
           /\ ctx' = [ctx EXCEPT !.tm = p.tm, !.ret = "EINVAL"]
           /\ UNCHANGED <<dateIn, hourIn>>
  BY <1>2, <1>4, <1>6, CtxFailed DEF CtxInv
<1>7. CASE /\ "hour" \notin ctx.fields /\ p.ok
           /\ ctx' = [fields |-> ctx.fields \cup {"hour"}, tm |-> p.tm,
                      ret |-> Status(ctx.fields \cup {"hour"})]
           /\ hourIn' = h /\ UNCHANGED dateIn
  <2>1. ctx'.fields = ctx.fields \cup {"hour"} /\ ctx'.tm = p.tm /\ ctx' \in Contexts
    BY <1>2, <1>4, <1>7 DEF Contexts, Status, TIME_FIELD_ALL
  <2>2. HourHeld(ctx', h)
    BY <1>4, <1>7, <2>1 DEF HourHeld
  <2>3. DateHeld(ctx', dateIn)
    BY <1>4, <2>1, SaysDateSame DEF DateHeld, CtxInv
  <2> QED BY <1>7, <2>1, <2>2, <2>3 DEF CtxInv
<1> QED BY <1>1, <1>5, <1>6, <1>7 DEF time_ctx_set_hour

LEMMA CtxSetTime ==
  ASSUME NEW d \in Dates, NEW sep, NEW h \in Hours, CtxInv, time_ctx_set_time(d, sep, h)
  PROVE  CtxInv'
<1>1. PICK p : p = parse_date_time(d, sep, h, ctx.tm)
  OBVIOUS
<1>2. ctx \in Contexts /\ ctx.tm \in Tm
  BY DEF CtxInv, Contexts
<1>3. d \in DateStrings /\ h \in HourStrings
  BY StringsAre
<1>4. /\ p.tm \in Tm
      /\ p.ok => DateRead(d) /\ HourWell(h) /\ RawDate(p.tm, d) /\ SaysHour(p.tm, h)
  BY <1>1, <1>2, <1>3, BothParsed
<1>5. CASE SetTimeRefused /\ Refuse("EEXIST")
  BY <1>2, <1>5, CtxRefused DEF CtxInv, Refuse
<1>6. CASE /\ ~SetTimeRefused /\ ~p.ok
           /\ ctx' = [ctx EXCEPT !.tm = p.tm, !.ret = "EINVAL"]
           /\ UNCHANGED <<dateIn, hourIn>>
  <2>1. ctx.fields = {}
    BY <1>6 DEF SetTimeRefused
  <2> QED BY <1>2, <1>4, <1>6, <2>1, CtxFailed DEF CtxInv
<1>7. CASE /\ ~SetTimeRefused /\ p.ok
           /\ ctx' = [fields |-> TIME_FIELD_ALL, tm |-> Rebase(p.tm), ret |-> "ok"]
           /\ dateIn' = d /\ hourIn' = h
  <2>1. PICK r : r = Rebase(p.tm)
    OBVIOUS
  <2>2. r \in Tm /\ SameHour(r, p.tm) /\ SaysDate(r, d)
    BY <1>3, <1>4, <1>7, <2>1, RebaseIs
  <2>3. ctx'.tm = r /\ ctx' \in Contexts
    BY <1>7, <2>1, <2>2 DEF Contexts
  <2>4. DateHeld(ctx', d)
    BY <1>4, <1>7, <2>2, <2>3 DEF DateHeld
  <2>5. HourHeld(ctx', h)
    BY <1>4, <1>7, <2>2, <2>3, SaysHourSame DEF HourHeld
  <2> QED BY <1>7, <2>3, <2>4, <2>5 DEF CtxInv
<1> QED BY <1>1, <1>5, <1>6, <1>7 DEF time_ctx_set_time

\* A tm is what it says.
LEMMA TmIsSaid ==
  ASSUME NEW x \in Tm, NEW y \in Tm, NEW d, NEW h,
         SaysDate(x, d), SaysHour(x, h), SaysDate(y, d), SaysHour(y, h)
  PROVE  x = y
<1>1. \A f \in TmFields : x[f] = y[f]
  BY DEF SaysDate, SaysHour, TmFields
<1> QED BY <1>1 DEF Tm

LEMMA CtxIsKept == CtxInv => AcceptedIsKept
<1> SUFFICES ASSUME CtxInv PROVE AcceptedIsKept
  OBVIOUS
<1>1. PICK tm : tm = ctx.tm
  OBVIOUS
<1>2. tm \in Tm
  BY <1>1 DEF CtxInv, Contexts
<1>3. ASSUME "date" \in ctx.fields
      PROVE  /\ dateIn \in DateStrings /\ DateRead(dateIn) /\ SaysDate(tm, dateIn)
             /\ <<tm.tm_year + 1900, tm.tm_mon + 1, tm.tm_mday>> = DateNumbers(dateIn)
  <2>1. dateIn \in DateStrings /\ DateRead(dateIn) /\ SaysDate(tm, dateIn)
    BY <1>1, <1>3, StringsAre DEF CtxInv, DateHeld
  <2>2. dateIn.year \in Int /\ dateIn.mon \in Int /\ dateIn.mday \in Int
    BY <2>1 DEF DateStrings, Number, NaN
  <2>3. tm.tm_year + 1900 = dateIn.year /\ tm.tm_mon + 1 = dateIn.mon /\ tm.tm_mday = dateIn.mday
    BY <2>1, <2>2 DEF SaysDate
  <2> QED BY <2>1, <2>3 DEF DateNumbers
<1>4. ASSUME "hour" \in ctx.fields
      PROVE  /\ hourIn \in HourStrings /\ HourWell(hourIn) /\ SaysHour(tm, hourIn)
             /\ <<tm.tm_hour, tm.tm_min, tm.tm_sec>> = <<hourIn.hour, hourIn.min, hourIn.sec>>
             /\ tm.gmtoff = GmtOff(hourIn)
  <2>1. hourIn \in HourStrings /\ HourWell(hourIn) /\ SaysHour(tm, hourIn)
    BY <1>1, <1>4, StringsAre DEF CtxInv, HourHeld
  <2> QED BY <2>1 DEF SaysHour
<1>5. ASSUME ctx.fields = TIME_FIELD_ALL, NEW p,
             p = time_local_parse([d |-> dateIn, sep |-> "T", h |-> hourIn])
      PROVE  p.ok /\ time_ctx_get_local = [ret |-> "ok", epoch |-> p.epoch, gmtoff |-> p.gmtoff]
  <2>1. "date" \in ctx.fields /\ "hour" \in ctx.fields
    BY <1>5 DEF TIME_FIELD_ALL
  <2>2. PICK q : q = parse_date_time(dateIn, "T", hourIn, BlankTm)
    OBVIOUS
  <2>3. q.ok
    <3>1. "T" # "other"
      OBVIOUS
    <3>2. dateIn \in DateStrings /\ DateRead(dateIn) /\ hourIn \in HourStrings /\ HourWell(hourIn)
      BY <1>3, <1>4, <2>1
    <3>3. q.ok = TRUE
      BY <2>2, <3>1, <3>2, BothAccepted, BlankIsTm, Zenon
    <3> QED BY <3>3
  <2>4. q.tm \in Tm /\ RawDate(q.tm, dateIn) /\ SaysHour(q.tm, hourIn)
    BY <1>3, <1>4, <2>1, <2>2, <2>3, BothParsed, BlankIsTm
  <2>5. PICK r : r = Rebase(q.tm)
    OBVIOUS
  <2>6. r \in Tm /\ SameHour(r, q.tm) /\ SaysDate(r, dateIn) /\ r["gmtoff"] = q.tm["gmtoff"]
    BY <1>3, <2>1, <2>4, <2>5, RebaseIs
  <2>7. SaysHour(r, hourIn)
    BY <2>4, <2>6, SaysHourSame
  <2>8. r = tm
    BY <1>2, <1>3, <1>4, <2>1, <2>6, <2>7, TmIsSaid
  <2>9. p = [ok |-> q.ok, epoch |-> tm_mkepoch_local(Rebase(q.tm), q.tm.gmtoff), gmtoff |-> q.tm.gmtoff]
    BY <1>5, <2>2 DEF time_local_parse
  <2>10. p.ok = q.ok /\ p.epoch = tm_mkepoch_local(tm, tm.gmtoff) /\ p.gmtoff = tm.gmtoff
    BY <2>5, <2>6, <2>8, <2>9
  <2>11. time_ctx_get_local = [ret |-> "ok", epoch |-> tm_mkepoch_local(tm, tm.gmtoff), gmtoff |-> tm.gmtoff]
    BY <1>1, <1>5 DEF time_ctx_get_local
  <2> QED BY <2>3, <2>10, <2>11
<1> QED BY <1>1, <1>3, <1>4, <1>5 DEF AcceptedIsKept

\* Whatever the strings and whatever order the calls of a time_ctx come in, a
\* date or an hour that was accepted keeps its meaning until the next
\* time_ctx_init, though calls that fail write to the tm as well, and a complete
\* context gives the time of the two strings together.
THEOREM AcceptedStays == DateSpec => []AcceptedIsKept
<1>1. DateInit => CtxInv
  BY BlankIsTm DEF DateInit, CtxInv, Contexts, DateHeld, HourHeld
<1>2. CtxInv /\ [DateNext]_dateVars => CtxInv'
  <2> SUFFICES ASSUME CtxInv, [DateNext]_dateVars PROVE CtxInv'
    OBVIOUS
  <2>1. CASE UNCHANGED <<ctx, dateIn, hourIn>>
    BY <2>1 DEF CtxInv
  <2>2. CASE NextDay \/ FirstDay \/ UNCHANGED dateVars
    BY <2>1, <2>2 DEF NextDay, FirstDay, dateVars
  <2>3. CASE time_ctx_init
    BY <2>3, BlankIsTm DEF time_ctx_init, CtxInv, Contexts, DateHeld, HourHeld
  <2>4. CASE \E d \in Dates : time_ctx_set_date(d)
    BY <2>4, CtxSetDate
  <2>5. CASE \E h \in Hours : time_ctx_set_hour(h)
    BY <2>5, CtxSetHour
  <2>6. CASE \E d \in Dates, sep \in Separators, h \in Hours : time_ctx_set_time(d, sep, h)
    BY <2>6, CtxSetTime
  <2> QED BY <2>2, <2>3, <2>4, <2>5, <2>6 DEF DateNext
<1> QED BY <1>1, <1>2, CtxIsKept, PTL DEF DateSpec

-----------------------------------------------------------------------------
(* The calendar in closed form.                                            *)

\* The days before the first of March of year y, but for a constant; the days
\* from there to a month; and the number of a day since 1970.
YearDays(y) == y \div 4 - y \div 100 + y \div 400 + y * 365

MonthStart(m) ==
  CASE m = 1 -> 336 [] m = 2 -> 367 [] m = 3 -> 30 [] m = 4 -> 61 [] m = 5 -> 91
    [] m = 6 -> 122 [] m = 7 -> 152 [] m = 8 -> 183 [] m = 9 -> 214 [] m = 10 -> 244
    [] m = 11 -> 275 [] OTHER -> 305

DayOf(y, m, d) == (IF m <= 2 THEN YearDays(y - 1) ELSE YearDays(y)) + MonthStart(m) + d - 719499

LEMMA MonthFound ==
  ASSUME NEW m \in 1 .. 12
  PROVE  cumulative_nb_day_per_month[(IF m - 2 <= 0 THEN m - 2 + 12 ELSE m - 2) + 1] = MonthStart(m)
<1>1. \/ m = 1 \/ m = 2 \/ m = 3 \/ m = 4 \/ m = 5 \/ m = 6 \/ m = 7 \/ m = 8 \/ m = 9
      \/ m = 10 \/ m = 11 \/ m = 12
  OBVIOUS
<1>2. CASE m = 1 \/ m = 2 \/ m = 3 \/ m = 4 \/ m = 5 \/ m = 6
  BY <1>2 DEF cumulative_nb_day_per_month, MonthStart
<1>3. CASE m = 7 \/ m = 8 \/ m = 9 \/ m = 10 \/ m = 11 \/ m = 12
  BY <1>3 DEF cumulative_nb_day_per_month, MonthStart
<1> QED BY <1>1, <1>2, <1>3

\* The days of tm_mkepoch_local, its seconds, and the year of a tm.
MkDays(ty, tmon, md) ==
  LET m == tmon + 1 - 2
      month == IF m <= 0 THEN m + 12 ELSE m
      year == IF m <= 0 THEN ty + 1900 - 1 ELSE ty + 1900
  IN  year \div 4 - year \div 100 + year \div 400 + year * 365
        + cumulative_nb_day_per_month[month + 1] + md - 719499

MkSecs(hour, min, sec) == (hour * 60 + min) * 60 + sec
At(days, secs, g) == Epoch(days, secs - g)
MkEpoch(days, hour, min, sec, g) == Epoch(days, (hour * 60 + min) * 60 + sec - g)
TmYear(y) == y - 1900
TmMon(m) == m - 1

LEMMA MkEpochDays ==
  ASSUME NEW tm, NEW g
  PROVE  tm_mkepoch_local(tm, g) =
           MkEpoch(MkDays(tm.tm_year, tm.tm_mon, tm.tm_mday), tm.tm_hour, tm.tm_min, tm.tm_sec, g)
BY SMT DEF tm_mkepoch_local, MkDays, MkEpoch

LEMMA MkDaysIs ==
  ASSUME NEW y \in Nat, NEW m \in 1 .. 12, NEW d \in Int
  PROVE  MkDays(TmYear(y), TmMon(m), d) = DayOf(y, m, d)
<1>1. m - 1 + 1 - 2 = m - 2
  OBVIOUS
<1>2. y - 1900 + 1900 = y
  BY SMT
<1>3. CASE m <= 2
  <2>1. m - 2 <= 0
    BY <1>3
  <2> QED BY <1>1, <1>2, <1>3, <2>1, MonthFound, SMT DEF MkDays, DayOf, YearDays, TmYear, TmMon
<1>4. CASE m > 2
  <2>1. ~(m - 2 <= 0) /\ ~(m <= 2)
    BY <1>4
  <2> QED BY <1>1, <1>2, <2>1, MonthFound, SMT DEF MkDays, DayOf, YearDays, TmYear, TmMon
<1> QED BY <1>3, <1>4

LEMMA MkEpochAt ==
  ASSUME NEW days, NEW hour \in Int, NEW min \in Int, NEW sec \in Int, NEW g \in Int
  PROVE  MkEpoch(days, hour, min, sec, g) = At(days, MkSecs(hour, min, sec), g)
<1>1. (hour * 60 + min) * 60 + sec - g = ((hour * 60 + min) * 60 + sec) - g
  OBVIOUS
<1> QED BY <1>1 DEF MkEpoch, At, MkSecs

\* When both are given by tm.
LEMMA MkEpochIs ==
  ASSUME NEW tm, NEW g \in Int, NEW y \in Nat, NEW m \in 1 .. 12, NEW d \in Nat,
         tm.tm_hour \in Int, tm.tm_min \in Int, tm.tm_sec \in Int,
         tm.tm_year = TmYear(y), tm.tm_mon = TmMon(m), tm.tm_mday = d
  PROVE  tm_mkepoch_local(tm, g) = At(DayOf(y, m, d), MkSecs(tm.tm_hour, tm.tm_min, tm.tm_sec), g)
<1>1. d \in Int
  OBVIOUS
<1>2. MkDays(tm.tm_year, tm.tm_mon, tm.tm_mday) = DayOf(y, m, d)
  BY <1>1, MkDaysIs
<1> QED BY <1>2, MkEpochDays, MkEpochAt

LEMMA YearDaysInt ==
  ASSUME NEW y \in Int
  PROVE  YearDays(y) \in Int
BY DEF YearDays

\* A year has a day more than 365 when its February has.
LEMMA YearStep ==
  ASSUME NEW y \in Nat, y # 0
  PROVE  YearDays(y) = YearDays(y - 1) + MonthLength(y, 2) + 337
<1>1. y \div 4 = (y - 1) \div 4 + (IF y % 4 = 0 THEN 1 ELSE 0)
  OBVIOUS
<1>2. y \div 100 = (y - 1) \div 100 + (IF y % 100 = 0 THEN 1 ELSE 0)
  OBVIOUS
<1>3. y \div 400 = (y - 1) \div 400 + (IF y % 400 = 0 THEN 1 ELSE 0)
  OBVIOUS
<1>4. (y % 100 = 0 => y % 4 = 0) /\ (y % 400 = 0 => y % 100 = 0)
  OBVIOUS
<1>5. MonthLength(y, 2) = 28 + ((IF y % 4 = 0 THEN 1 ELSE 0) - (IF y % 100 = 0 THEN 1 ELSE 0)
                                  + (IF y % 400 = 0 THEN 1 ELSE 0))
  BY <1>4 DEF MonthLength, Leap
<1>6. y * 365 = (y - 1) * 365 + 365
  OBVIOUS
<1> QED BY <1>1, <1>2, <1>3, <1>5, <1>6 DEF YearDays

\* The date that follows is the day that follows.
CalDates == [year : Nat \ {0}, mon : 1 .. 12, mday : 1 .. 31]
OnDay(t, n) == /\ t \in CalDates /\ t.mday <= MonthLength(t.year, t.mon)
               /\ n = DayOf(t.year, t.mon, t.mday)
CalInv == day \in Nat /\ OnDay(today, day)

LEMMA MonthStartInt ==
  ASSUME NEW m
  PROVE  MonthStart(m) \in Int
BY DEF MonthStart

LEMMA LengthInt ==
  ASSUME NEW y \in Int, NEW m
  PROVE  MonthLength(y, m) \in 28 .. 31
BY DEF MonthLength

LEMMA DayOfNext ==
  ASSUME NEW y \in Nat \ {0}, NEW m \in 1 .. 12, NEW d \in Nat
  PROVE  DayOf(y, m, d + 1) = DayOf(y, m, d) + 1
<1>1. PICK x \in Int, z \in Int, s \in Int : x = YearDays(y - 1) /\ z = YearDays(y) /\ s = MonthStart(m)
  BY YearDaysInt, MonthStartInt
<1> QED BY <1>1, SMT DEF DayOf

LEMMA MonthNext ==
  ASSUME NEW y \in Nat \ {0}, NEW m \in 1 .. 11
  PROVE  DayOf(y, m + 1, 1) = DayOf(y, m, MonthLength(y, m)) + 1
<1>1. PICK x \in Int, z \in Int : x = YearDays(y - 1) /\ z = YearDays(y)
  BY YearDaysInt
<1>2. z = x + MonthLength(y, 2) + 337
  BY <1>1, YearStep
<1>3. CASE m = 2
  <2>1. PICK k \in Int : k = MonthLength(y, 2)
    BY LengthInt
  <2>2. MonthStart(2) = 367 /\ MonthStart(3) = 30
    BY DEF MonthStart
  <2> QED BY <1>1, <1>2, <1>3, <2>1, <2>2, SMT DEF DayOf
<1>4. CASE m # 2
  <2>1. MonthStart(m + 1) = MonthStart(m) + MonthLength(y, m)
    BY <1>4 DEF MonthStart, MonthLength
  <2>2. PICK s \in Int, k \in Int : s = MonthStart(m) /\ k = MonthLength(y, m)
    BY MonthStartInt, LengthInt
  <2>3. m + 1 <= 2 <=> m <= 2
    BY <1>4
  <2> QED BY <1>1, <2>1, <2>2, <2>3, SMT DEF DayOf
<1> QED BY <1>3, <1>4

LEMMA YearNext ==
  ASSUME NEW y \in Nat \ {0}
  PROVE  DayOf(y + 1, 1, 1) = DayOf(y, 12, 31) + 1
<1>1. PICK z \in Int : z = YearDays(y)
  BY YearDaysInt
<1>2. y + 1 - 1 = y
  OBVIOUS
<1>3. MonthStart(1) = 336 /\ MonthStart(12) = 305
  BY DEF MonthStart
<1> QED BY <1>1, <1>2, <1>3, SMT DEF DayOf

LEMMA FirstIsDay == OnDay([year |-> 1970, mon |-> 1, mday |-> 1], 0)
<1>1. YearDays(1969) = 719162
  BY SMT DEF YearDays
<1>2. DayOf(1970, 1, 1) = 0
  BY <1>1, SMT DEF DayOf, MonthStart
<1>3. 1 <= MonthLength(1970, 1)
  BY LengthInt
<1> QED BY <1>2, <1>3 DEF OnDay, CalDates

\* The date after t, as NextDay finds it.
Following(t) ==
  CASE t.mday < MonthLength(t.year, t.mon) -> [t EXCEPT !.mday = @ + 1]
    [] t.mday = MonthLength(t.year, t.mon) /\ t.mon < 12 -> [t EXCEPT !.mday = 1, !.mon = @ + 1]
    [] OTHER -> [year |-> t.year + 1, mon |-> 1, mday |-> 1]

LEMMA NextIsDay ==
  ASSUME NEW t, NEW n \in Nat, OnDay(t, n), NEW u, u = Following(t)
  PROVE  OnDay(u, n + 1)
<1>1. PICK y \in Nat \ {0}, m \in 1 .. 12, d \in 1 .. 31 : y = t.year /\ m = t.mon /\ d = t.mday
  BY DEF OnDay, CalDates
<1>2. d <= MonthLength(y, m) /\ n = DayOf(y, m, d) /\ t \in CalDates
  BY <1>1 DEF OnDay
<1>3. PICK k \in 28 .. 31 : k = MonthLength(y, m)
  BY LengthInt
<1>4. CASE d < k
  <2>1. u = [t EXCEPT !.mday = t.mday + 1]
    BY <1>1, <1>3, <1>4 DEF Following
  <2>2. u \in CalDates /\ u.year = y /\ u.mon = m /\ u.mday = d + 1
    BY <1>1, <1>2, <1>3, <1>4, <2>1 DEF CalDates
  <2>3. n + 1 = DayOf(y, m, d + 1)
    BY <1>2, DayOfNext
  <2> QED BY <1>3, <1>4, <2>2, <2>3 DEF OnDay
<1>5. CASE d = k /\ m < 12
  <2>1. u = [t EXCEPT !.mday = 1, !.mon = t.mon + 1]
    BY <1>1, <1>3, <1>5 DEF Following
  <2>2. u \in CalDates /\ u.year = y /\ u.mon = m + 1 /\ u.mday = 1
    <3>1. PICK m2 \in 1 .. 12 : m2 = m + 1
      BY <1>5
    <3>2. u = [t EXCEPT !.mday = 1, !.mon = m2]
      BY <1>1, <2>1, <3>1
    <3>3. t \in CalDates /\ t.year = y
      BY <1>1, <1>2
    <3>4. u.year = y /\ u.mon = m2 /\ u.mday = 1
      BY <3>2, <3>3 DEF CalDates
    <3>5. u \in CalDates
      <4> DEFINE x == [t EXCEPT !.mday = 1]
      <4>1. x \in CalDates
        BY <3>3 DEF CalDates
      <4>2. u = [x EXCEPT !.mon = m2]
        BY <3>2
      <4> HIDE DEF x
      <4> QED BY <4>1, <4>2 DEF CalDates
    <3> QED BY <3>1, <3>4, <3>5
  <2>3. n + 1 = DayOf(y, m + 1, 1)
    BY <1>2, <1>3, <1>5, MonthNext
  <2>4. 1 <= MonthLength(y, m + 1)
    BY LengthInt
  <2> QED BY <2>2, <2>3, <2>4 DEF OnDay
<1>6. CASE d = k /\ m = 12
  <2>1. u = [year |-> t.year + 1, mon |-> 1, mday |-> 1]
    BY <1>1, <1>3, <1>6 DEF Following
  <2>2. u \in CalDates /\ u.year = y + 1 /\ u.mon = 1 /\ u.mday = 1
    <3>1. PICK z \in Nat \ {0} : z = y + 1
      OBVIOUS
    <3>2. u = [year |-> z, mon |-> 1, mday |-> 1]
      BY <1>1, <2>1, <3>1
    <3>3. u.year = z /\ u.mon = 1 /\ u.mday = 1
      BY <3>2
    <3>4. u \in CalDates
      BY <3>2 DEF CalDates
    <3> QED BY <3>1, <3>3, <3>4
  <2>3. k = 31
    BY <1>3, <1>6 DEF MonthLength
  <2>4. n + 1 = DayOf(y + 1, 1, 1)
    BY <1>2, <1>6, <2>3, YearNext
  <2>5. 1 <= MonthLength(y + 1, 1)
    BY LengthInt
  <2> QED BY <2>2, <2>4, <2>5 DEF OnDay
<1> QED BY <1>2, <1>3, <1>4, <1>5, <1>6

-----------------------------------------------------------------------------
(* A local time that is formatted and parsed.                              *)

DaySecs == 86400
HoursOf(s) == s \div 3600
MinutesOf(s) == (s \div 60) % 60
SecondsOf(s) == s % 60
WholeMinutes(s) == 60 * (s \div 60)

\* The local time of the day is found again when the offset is added.
LocalOf(e, o) == Epoch(e[1], e[2] + o)

LEMMA LocalIs ==
  ASSUME NEW n, NEW s \in Nat, s < DaySecs, NEW o \in Int
  PROVE  LocalOf(At(n, s, o), o)[2] = s
<1>1. PICK q \in Int, r \in Nat : r = (s - o) % DaySecs /\ s - o = DaySecs * q + r
  <2>1. (s - o) \div 86400 \in Int /\ (s - o) % 86400 \in Nat
    BY SMT
  <2>2. s - o = 86400 * ((s - o) \div 86400) + ((s - o) % 86400)
    BY SMT
  <2> QED BY <2>1, <2>2, SMT DEF DaySecs
<1>2. PICK e : e = At(n, s, o)
  OBVIOUS
<1>3. e[2] = r
  BY <1>1, <1>2, SMT DEF Epoch, At, DaySecs
<1>4. LocalOf(e, o)[2] = (r + o) % DaySecs
  BY <1>3, SMT DEF Epoch, LocalOf, DaySecs
<1>5. r + o = 86400 * (0 - q) + s
  BY <1>1, SMT DEF DaySecs
<1>6. (r + o) % 86400 = s
  BY <1>5, SMT DEF DaySecs
<1> QED BY <1>2, <1>4, <1>6, SMT DEF DaySecs

\* Hours, minutes and seconds.
LEMMA HourOfSeconds ==
  ASSUME NEW s \in Nat
  PROVE  /\ HoursOf(s) \in Nat /\ MinutesOf(s) \in Nat /\ SecondsOf(s) \in Nat /\ WholeMinutes(s) \in Nat
         /\ MkSecs(HoursOf(s), MinutesOf(s), SecondsOf(s)) = s
         /\ (HoursOf(s) * 60 + MinutesOf(s)) * 60 = WholeMinutes(s)
<1> USE DEF HoursOf, MinutesOf, SecondsOf, WholeMinutes
<1>1. s \div 3600 \in Nat /\ s \div 60 \in Nat /\ (s \div 60) % 60 \in Nat /\ s % 60 \in Nat
  BY SMT
<1>2. s = 60 * (s \div 60) + (s % 60)
  BY SMT
<1>3. s \div 60 = 60 * (s \div 3600) + ((s \div 60) % 60)
  BY SMT
<1> QED BY <1>1, <1>2, <1>3, SMT DEF MkSecs

\* gmtime_r() and tm_mkepoch_local are inverse on the day.
GmTime(y, m, d, s) ==
  [tm_year |-> TmYear(y), tm_mon |-> TmMon(m), tm_mday |-> d,
   tm_hour |-> HoursOf(s), tm_min |-> MinutesOf(s), tm_sec |-> SecondsOf(s)]

IsToday(y, m, d) == today.year = y /\ today.mon = m /\ today.mday = d

LEMMA GmTimeIs ==
  ASSUME NEW y, NEW m, NEW d, IsToday(y, m, d), NEW l
  PROVE  gmtime_r(l) = GmTime(y, m, d, l[2])
BY SMT DEF IsToday, gmtime_r, GmTime, HoursOf, MinutesOf, SecondsOf, TmYear, TmMon

LEMMA GmTimeFields ==
  ASSUME NEW y, NEW m, NEW d, NEW s, NEW g, g = GmTime(y, m, d, s)
  PROVE  /\ g.tm_year = TmYear(y) /\ g.tm_mon = TmMon(m) /\ g.tm_mday = d
         /\ g.tm_hour = HoursOf(s) /\ g.tm_min = MinutesOf(s) /\ g.tm_sec = SecondsOf(s)
BY DEF GmTime

LEMMA GmTimeBack ==
  ASSUME NEW y \in Nat, NEW m \in 1 .. 12, NEW d \in Nat, NEW s \in Nat, NEW o \in Int
  PROVE  tm_mkepoch_local(GmTime(y, m, d, s), o) = At(DayOf(y, m, d), s, o)
<1>1. PICK g : g = GmTime(y, m, d, s)
  OBVIOUS
<1>2. /\ g.tm_year = TmYear(y) /\ g.tm_mon = TmMon(m) /\ g.tm_mday = d
      /\ g.tm_hour = HoursOf(s) /\ g.tm_min = MinutesOf(s) /\ g.tm_sec = SecondsOf(s)
  BY <1>1, GmTimeFields
<1>3. tm_mkepoch_local(g, o) = At(DayOf(y, m, d), MkSecs(g.tm_hour, g.tm_min, g.tm_sec), o)
  <2>1. g.tm_hour \in Int /\ g.tm_min \in Int /\ g.tm_sec \in Int
    BY <1>2, HourOfSeconds
  <2> QED BY <1>2, <2>1, MkEpochIs
<1>4. MkSecs(HoursOf(s), MinutesOf(s), SecondsOf(s)) = s
  BY HourOfSeconds
<1> QED BY <1>1, <1>2, <1>3, <1>4

\* The minutes of an offset, towards zero.
Whole(o) == IF o < 0 THEN -WholeMinutes(Abs(o)) ELSE WholeMinutes(o)
ZoneSign(o) == IF o < 0 THEN -1 ELSE 1

LEMMA ZoneIsWhole ==
  ASSUME NEW o \in Int
  PROVE  /\ Abs(o) \in Nat /\ ZoneSign(o) \in {-1, 1} /\ Whole(o) \in Int
         /\ (HoursOf(Abs(o)) * 60 + MinutesOf(Abs(o))) * 60 * ZoneSign(o) = Whole(o)
<1>1. PICK k \in Nat : k = Abs(o)
  BY DEF Abs
<1>2. PICK w \in Nat : w = WholeMinutes(k)
  BY HourOfSeconds
<1>3. (HoursOf(k) * 60 + MinutesOf(k)) * 60 = w
  BY <1>2, HourOfSeconds
<1>4. CASE o < 0
  <2>1. ZoneSign(o) = -1 /\ Whole(o) = -w
    BY <1>1, <1>2, <1>4 DEF Whole, ZoneSign
  <2> QED BY <1>1, <1>2, <1>3, <2>1
<1>5. CASE o >= 0
  <2>1. ~(o < 0) /\ k = o
    BY <1>1, <1>5 DEF Abs
  <2>2. ZoneSign(o) = 1 /\ Whole(o) = w
    BY <1>2, <2>1 DEF Whole, ZoneSign
  <2> QED BY <1>1, <1>2, <1>3, <2>2
<1> QED BY <1>4, <1>5

\* The hour of a formatted time, in one of the zones the formats use.
HourText(size, s, zone, o) ==
  [layout |-> size, hour |-> HoursOf(s), min |-> MinutesOf(s), sec |-> SecondsOf(s),
   zone |-> zone, zsign |-> ZoneSign(o), zhour |-> HoursOf(Abs(o)), zmin |-> MinutesOf(Abs(o))]

LEMMA HourTextIs ==
  ASSUME NEW size \in {"long", "short"}, NEW s \in Nat, NEW o \in Int,
         NEW zone \in {"long", "short", "GMT"}, zone = "GMT" => o = 0,
         NEW h, h = HourText(size, s, zone, o)
  PROVE  /\ h \in HourStrings /\ HourWell(h) /\ GmtOff(h) = Whole(o)
         /\ h.hour = HoursOf(s) /\ h.min = MinutesOf(s) /\ h.sec = SecondsOf(s)
<1>1. PICK hh \in Nat, mm \in Nat, ss \in Nat : hh = HoursOf(s) /\ mm = MinutesOf(s) /\ ss = SecondsOf(s)
  BY HourOfSeconds
<1>2. PICK sign \in {-1, 1} : sign = ZoneSign(o)
  BY ZoneIsWhole
<1>3. PICK zh \in Nat, zm \in Nat : zh = HoursOf(Abs(o)) /\ zm = MinutesOf(Abs(o))
  BY ZoneIsWhole, HourOfSeconds
<1>4. (zh * 60 + zm) * 60 * sign = Whole(o)
  BY <1>2, <1>3, ZoneIsWhole
<1>5. h = [layout |-> size, hour |-> hh, min |-> mm, sec |-> ss, zone |-> zone, zsign |-> sign,
           zhour |-> zh, zmin |-> zm]
  BY <1>1, <1>2, <1>3 DEF HourText
<1>6. h \in HourStrings
  BY <1>5 DEF HourStrings, Number
<1>7. h.layout = size /\ h.hour = hh /\ h.min = mm /\ h.sec = ss /\ h.zone = zone /\ h.zsign = sign
      /\ h.zhour = zh /\ h.zmin = zm
  BY <1>5
<1>8. AllNumbers(HourNumbers(h))
  BY <1>7 DEF AllNumbers, HourNumbers, NaN
<1>9. ZoneKnown(h)
  BY <1>7 DEF ZoneKnown
<1>10. AllNumbers(ZoneNumbers(h))
  <2>1. CASE zone = "GMT"
    <3>1. ZoneNumbers(h) = <<0, 0>>
      BY <1>7, <2>1 DEF ZoneNumbers
    <3> QED BY <3>1 DEF AllNumbers, NaN
  <2>2. CASE zone # "GMT"
    <3>1. ZoneNumbers(h) = <<zh, zm>>
      BY <1>7, <2>2 DEF ZoneNumbers
    <3> QED BY <3>1 DEF AllNumbers, NaN
  <2> QED BY <2>1, <2>2
<1>11. GmtOff(h) = Whole(o)
  <2>1. CASE zone = "GMT"
    <3>1. GmtOff(h) = 0
      BY <1>7, <2>1 DEF GmtOff
    <3>2. Whole(o) = 0
      BY <2>1, SMT DEF Whole, WholeMinutes
    <3> QED BY <3>1, <3>2
  <2>2. CASE zone # "GMT"
    <3>1. GmtOff(h) = (zh * 60 + zm) * 60 * sign
      BY <1>7, <2>2 DEF GmtOff
    <3> QED BY <1>4, <3>1
  <2> QED BY <2>1, <2>2
<1> QED BY <1>1, <1>6, <1>7, <1>8, <1>9, <1>10, <1>11 DEF HourWell, HourRead

\* The date of a formatted time.
DateText(layout, y, m, d) ==
  [layout |-> layout, year |-> TmYear(y) + 1900, mon |-> TmMon(m) + 1, mday |-> d]

DateTextOf(d, y, m, md) ==
  d \in DateStrings /\ DateRead(d) /\ d.year = y /\ d.mon = m /\ d.mday = md

LEMMA DateTextIs ==
  ASSUME NEW layout \in {"long", "short", "rfc1123"}, NEW y \in Nat, NEW m \in 1 .. 12, NEW md \in Nat
  PROVE  DateTextOf(DateText(layout, y, m, md), y, m, md)
<1>1. PICK d : d = DateText(layout, y, m, md)
  OBVIOUS
<1>2. TmYear(y) + 1900 = y /\ TmMon(m) + 1 = m
  BY SMT DEF TmYear, TmMon
<1>3. d = [layout |-> layout, year |-> y, mon |-> m, mday |-> md]
  BY <1>1, <1>2, SMT DEF DateText
<1>4. d.layout = layout /\ d.year = y /\ d.mon = m /\ d.mday = md
  BY <1>3, SMT
<1>5. d \in DateStrings
  BY <1>3, SMT DEF DateStrings, Number
<1>6. AllNumbers(DateNumbers(d))
  BY <1>4, SMT DEF AllNumbers, DateNumbers, NaN
<1> QED BY <1>1, <1>4, <1>5, <1>6 DEF DateRead, DateTextOf

\* What the parser makes of them.
LEMMA TextParsed ==
  ASSUME NEW d \in DateStrings, DateRead(d), NEW h \in HourStrings, HourWell(h),
         NEW sep, sep # "other", NEW m \in 1 .. 12, d.mon = m, NEW y \in Nat, d.year = y,
         NEW md \in Nat, d.mday = md, NEW w \in Int, w = GmtOff(h), NEW s, s = MkSecs(h.hour, h.min, h.sec),
         NEW text, text.d = d, text.sep = sep, text.h = h
  PROVE  time_local_parse(text) = [ok |-> TRUE, epoch |-> At(DayOf(y, m, md), s, w), gmtoff |-> w]
<1>1. PICK q : q = parse_date_time(d, sep, h, BlankTm)
  OBVIOUS
<1>2. q.ok = TRUE
  BY <1>1, BothAccepted, BlankIsTm, Zenon
<1>3. q.tm \in Tm /\ RawDate(q.tm, d) /\ SaysHour(q.tm, h)
  <2>1. q.ok
    BY <1>2
  <2> QED BY <1>1, <2>1, BothParsed, BlankIsTm
<1>4. PICK r : r = Rebase(q.tm)
  OBVIOUS
<1>5. r \in Tm /\ SameHour(r, q.tm) /\ SaysDate(r, d)
  BY <1>3, <1>4, RebaseIs
<1>6. SaysHour(r, h)
  BY <1>3, <1>5, SaysHourSame
<1>7. r.tm_year = TmYear(y) /\ r.tm_mon = TmMon(m) /\ r.tm_mday = md
  BY <1>5, SMT DEF SaysDate, TmYear, TmMon
<1>8. MkSecs(r.tm_hour, r.tm_min, r.tm_sec) = s
  BY <1>6 DEF SaysHour
<1>9. q.tm.gmtoff = w
  BY <1>3 DEF SaysHour
<1>10. tm_mkepoch_local(r, w) = At(DayOf(y, m, md), s, w)
  <2>1. r.tm_hour \in Int /\ r.tm_min \in Int /\ r.tm_sec \in Int
    BY <1>5 DEF Tm, TmFields
  <2> QED BY <1>7, <1>8, <2>1, MkEpochIs
<1>11. time_local_parse(text) =
         [ok |-> q.ok, epoch |-> tm_mkepoch_local(Rebase(q.tm), q.tm.gmtoff), gmtoff |-> q.tm.gmtoff]
  BY <1>1 DEF time_local_parse
<1> QED BY <1>2, <1>4, <1>9, <1>10, <1>11

\* The parts of a formatted time.
SizeOf(fmt) == IF fmt = "iso8601_short" THEN "short" ELSE "long"
LayoutOf(fmt) == IF fmt = "rfc1123" THEN "rfc1123" ELSE SizeOf(fmt)
SepOf(fmt) == IF fmt = "rfc1123" THEN " " ELSE "T"
ZoneOf(fmt, o) == CASE fmt = "rfc1123" /\ o = 0 -> "GMT"
                    [] fmt = "rfc1123" /\ o # 0 -> "short"
                    [] OTHER -> SizeOf(fmt)

LEMMA FormatParts ==
  ASSUME NEW fmt \in Formats, NEW o \in Int
  PROVE  /\ SizeOf(fmt) \in {"long", "short"} /\ LayoutOf(fmt) \in {"long", "short", "rfc1123"}
         /\ SepOf(fmt) # "other"
         /\ ZoneOf(fmt, o) \in {"long", "short", "GMT"} /\ (ZoneOf(fmt, o) = "GMT" => o = 0)
BY DEF Formats, SizeOf, LayoutOf, SepOf, ZoneOf

LEMMA FormatIs ==
  ASSUME NEW fmt \in Formats, NEW e, NEW o, NEW s, NEW y, NEW m, NEW d,
         gmtime_r(Epoch(e[1], e[2] + o)) = GmTime(y, m, d, s),
         NEW text, text = time_local_format(e, o, fmt)
  PROVE  /\ text.d = DateText(LayoutOf(fmt), y, m, d)
         /\ text.sep = SepOf(fmt)
         /\ text.h = HourText(SizeOf(fmt), s, ZoneOf(fmt, o), o)
<1>1. PICK g : g = gmtime_r(Epoch(e[1], e[2] + o))
  OBVIOUS
<1>2. /\ g.tm_year = TmYear(y) /\ g.tm_mon = TmMon(m) /\ g.tm_mday = d
      /\ g.tm_hour = HoursOf(s) /\ g.tm_min = MinutesOf(s) /\ g.tm_sec = SecondsOf(s)
  BY <1>1, GmTimeFields
<1>3. text.d = [layout |-> LayoutOf(fmt), year |-> g.tm_year + 1900, mon |-> g.tm_mon + 1, mday |-> g.tm_mday]
  BY <1>1, ZenonT(60) DEF time_local_format, LayoutOf, SizeOf
<1>4. text.sep = SepOf(fmt)
  BY Zenon DEF time_local_format, SepOf
<1>5. text.h = [layout |-> SizeOf(fmt), hour |-> g.tm_hour, min |-> g.tm_min, sec |-> g.tm_sec,
                zone |-> ZoneOf(fmt, o), zsign |-> ZoneSign(o),
                zhour |-> HoursOf(Abs(o)), zmin |-> MinutesOf(Abs(o))]
  BY <1>1, Zenon DEF time_local_format, SizeOf, ZoneOf, ZoneSign, HoursOf, MinutesOf
<1>6. text.d = DateText(LayoutOf(fmt), y, m, d)
  BY <1>2, <1>3, SMT DEF DateText
<1>7. text.h = HourText(SizeOf(fmt), s, ZoneOf(fmt, o), o)
  BY <1>2, <1>5, SMT DEF HourText
<1> QED BY <1>4, <1>6, <1>7

\* One time of the day, formatted and parsed.
RoundTrip(n, s, o) ==
  LET epoch == Epoch(n, s - o)
  IN  /\ tm_mkepoch_local(gmtime_r(Epoch(epoch[1], epoch[2] + o)), o) = epoch
      /\ \A fmt \in Formats :
           time_local_parse(time_local_format(epoch, o, fmt)) =
             [ok |-> TRUE, epoch |-> Epoch(n, s - Whole(o)), gmtoff |-> Whole(o)]

LEMMA RoundTrips ==
  ASSUME NEW y \in Nat, NEW m \in 1 .. 12, NEW d \in Nat, IsToday(y, m, d),
         NEW s \in Nat, s < DaySecs, NEW o \in Int
  PROVE  RoundTrip(DayOf(y, m, d), s, o)
<1>1. PICK e : e = Epoch(DayOf(y, m, d), s - o) /\ e = At(DayOf(y, m, d), s, o)
  BY DEF At
<1>2. PICK g : g = gmtime_r(Epoch(e[1], e[2] + o)) /\ g = gmtime_r(LocalOf(e, o))
  BY DEF LocalOf
<1>3. g = GmTime(y, m, d, s)
  <2>1. g = GmTime(y, m, d, LocalOf(e, o)[2])
    BY <1>2, GmTimeIs
  <2>2. LocalOf(e, o)[2] = s
    BY <1>1, LocalIs
  <2> QED BY <2>1, <2>2
<1>4. tm_mkepoch_local(g, o) = e
  <2>1. tm_mkepoch_local(GmTime(y, m, d, s), o) = At(DayOf(y, m, d), s, o)
    BY GmTimeBack
  <2> QED BY <1>1, <1>3, <2>1
<1>5. ASSUME NEW fmt \in Formats
      PROVE  time_local_parse(time_local_format(e, o, fmt)) =
               [ok |-> TRUE, epoch |-> At(DayOf(y, m, d), s, Whole(o)), gmtoff |-> Whole(o)]
  <2>1. PICK text : text = time_local_format(e, o, fmt)
    OBVIOUS
  <2>2. PICK dt, ht : /\ dt = DateText(LayoutOf(fmt), y, m, d)
                      /\ ht = HourText(SizeOf(fmt), s, ZoneOf(fmt, o), o)
    OBVIOUS
  <2>3. text.d = dt /\ text.sep = SepOf(fmt) /\ text.h = ht
    BY <1>2, <1>3, <2>1, <2>2, FormatIs
  <2>4. dt \in DateStrings /\ DateRead(dt) /\ dt.year = y /\ dt.mon = m /\ dt.mday = d
    <3>1. LayoutOf(fmt) \in {"long", "short", "rfc1123"}
      BY FormatParts
    <3>2. DateTextOf(dt, y, m, d)
      BY <2>2, <3>1, DateTextIs
    <3> QED BY <3>2 DEF DateTextOf
  <2>5. /\ ht \in HourStrings /\ HourWell(ht) /\ GmtOff(ht) = Whole(o)
        /\ ht.hour = HoursOf(s) /\ ht.min = MinutesOf(s) /\ ht.sec = SecondsOf(s)
    BY <2>2, FormatParts, HourTextIs
  <2>6. SepOf(fmt) # "other"
    BY FormatParts
  <2>7. s = MkSecs(ht.hour, ht.min, ht.sec)
    BY <2>5, HourOfSeconds
  <2>8. PICK w \in Int : w = Whole(o)
    BY ZoneIsWhole
  <2>9. time_local_parse(text) = [ok |-> TRUE, epoch |-> At(DayOf(y, m, d), s, w), gmtoff |-> w]
    BY <2>3, <2>4, <2>5, <2>6, <2>7, <2>8, TextParsed
  <2> QED BY <2>1, <2>8, <2>9
<1> QED BY <1>1, <1>2, <1>4, <1>5 DEF RoundTrip, At

\* On every day of the calendar, as far as it is walked, whatever the second of
\* the day and the offset from UTC, a local time formatted in any of the three
\* formats is parsed to the seconds since 1970 it was, and to its offset but for
\* the seconds of that: the closed formula of tm_mkepoch_local agrees with the
\* Gregorian rule.
THEOREM FormatsAreParsed == DateSpec => []FormattedIsParsed
<1>1. DateInit => CalInv
  BY FirstIsDay DEF DateInit, CalInv
<1>2. CalInv /\ [DateNext]_dateVars => CalInv'
  <2> SUFFICES ASSUME CalInv, [DateNext]_dateVars PROVE CalInv'
    OBVIOUS
  <2>1. CASE UNCHANGED <<day, today>>
    BY <2>1 DEF CalInv
  <2>2. CASE NextDay
    <3>1. day' = day + 1 /\ today' = Following(today)
      BY <2>2 DEF NextDay, Following
    <3>2. OnDay(today', day + 1) /\ day \in Nat
      BY <3>1, NextIsDay DEF CalInv
    <3> QED BY <3>1, <3>2 DEF CalInv
  <2>3. CASE FirstDay
    BY <2>3, FirstIsDay DEF FirstDay, CalInv
  <2>4. CASE UNCHANGED dateVars
    BY <2>1, <2>4 DEF dateVars
  <2>5. CASE \/ time_ctx_init \/ \E d \in Dates : time_ctx_set_date(d)
             \/ \E h \in Hours : time_ctx_set_hour(h)
             \/ \E d \in Dates, sep \in Separators, h \in Hours : time_ctx_set_time(d, sep, h)
    <3>1. CtxUsed
      BY <2>5 DEF time_ctx_init, time_ctx_set_date, time_ctx_set_hour, time_ctx_set_time
    <3> QED BY <2>1, <3>1 DEF CtxUsed
  <2> QED BY <2>2, <2>3, <2>4, <2>5 DEF DateNext
<1>3. CalInv => FormattedIsParsed
  <2> SUFFICES ASSUME CalInv, NEW s \in DayTimes, NEW o \in UtcOffsets
               PROVE  RoundTrip(day, s, o)
    BY DEF FormattedIsParsed, RoundTrip, Whole, WholeMinutes
  <2>1. s \in Nat /\ s < DaySecs /\ o \in Int
    BY TimesAssumption, SMT DEF DaySecs
  <2>2. PICK y, m, d : y = today.year /\ m = today.mon /\ d = today.mday
    OBVIOUS
  <2>3. y \in Nat /\ m \in 1 .. 12 /\ d \in Nat
    BY <2>2 DEF CalInv, OnDay, CalDates
  <2>4. day = DayOf(y, m, d)
    BY <2>2 DEF CalInv, OnDay
  <2>5. RoundTrip(DayOf(y, m, d), s, o)
    BY <2>1, <2>2, <2>3, RoundTrips DEF IsToday
  <2> QED BY <2>4, <2>5
<1> QED BY <1>1, <1>2, <1>3, PTL DEF DateSpec
=============================================================================
