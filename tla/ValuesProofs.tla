---------------------------- MODULE ValuesProofs ----------------------------
(***************************************************************************)
(* Proofs about the calls that make and encode values: RandomCalls, for    *)
(* every INT_MAX and SIZE_MAX, every maximum of the four widths, every     *)
(* length of a string, a shuffle and a fetch; and Varint, for every value  *)
(* of the six types, every capacity and every number of values.            *)
(*                                                                         *)
(* Each function of RandomCalls has an invariant of its own, about its     *)
(* arguments and its locals; a step of another function leaves it alone.   *)
(***************************************************************************)
EXTENDS RandomCalls, Varint, FiniteSetTheorems, SequenceTheorems, WellFoundedInduction, TLAPS

\* A set of natural numbers has a least one.
LEMMA LeastNatural ==
  ASSUME NEW T, T \subseteq Nat, T # {}
  PROVE  \E x \in T : \A y \in T : x <= y
<1>1. PICK x \in T : \A y \in T : ~(<<y, x>> \in OpToRel(<, Nat))
  BY NatLessThanWellFounded, WFMin
<1>2. \A y \in T : ~(y < x)
  BY <1>1 DEF OpToRel
<1> QED BY <1>2

\* Induction, over a set of numbers.
LEMMA SetInduction ==
  ASSUME NEW T, 0 \in T, \A n \in Nat : n \in T => n + 1 \in T
  PROVE  Nat \subseteq T
<1> SUFFICES ASSUME Nat \ T # {}
             PROVE  FALSE
  OBVIOUS
<1>1. PICK x \in Nat \ T : \A y \in Nat \ T : x <= y
  BY LeastNatural
<1>2. x # 0 /\ x - 1 \in Nat
  BY <1>1
<1>3. x - 1 \in T
  BY <1>1, <1>2
<1> QED BY <1>1, <1>2, <1>3

-----------------------------------------------------------------------------
(* Which actions belong to which function.                                 *)

FetchStep == Getrandom \/ OpenDevice \/ ReadDevice
ShuffleStep == ShuffleSwap \/ ShuffleEnd
MaximumStep == \E bytes \in PoolBytes(DrawBytes(job.w, job.maximum)) : pool_rand_maximum(bytes)
TextStep == StringChar \/ Base16Blob \/ Base32Blob \/ Base64Blob \/ Terminate

TextFns == {"string", "base16", "base32", "base64"}

\* A state in which a function is called or at work follows its own call, its
\* own step, or nothing.
Own(fns, called, step) == job'.fn \in fns => UNCHANGED callsVars \/ called \/ (job' = job /\ step)

LEMMA StepsByFunction ==
  ASSUME [CallsNext]_callsVars
  PROVE  /\ Own({"fetch"}, \E len \in FetchLens : futils_random_strong(len), FetchStep)
         /\ Own({"shuffle"}, \E s \in ShuffleCalls : futils_random_shuffle(s[1], s[2]), ShuffleStep)
         /\ Own({"maximum"}, \E m \in Maxima : futils_random_maximum(m[1], m[2]), MaximumStep)
         /\ Own(TextFns, \E t \in TextCalls : TextCall(t), TextStep)
<1>1. CASE Return \/ NullArgument \/ futils_randomr
  BY <1>1 DEF Return, NullArgument, futils_randomr, Start, Own, TextFns
<1>2. CASE \E m \in Maxima : futils_random_maximum(m[1], m[2])
  BY <1>2 DEF futils_random_maximum, Start, Own, TextFns
<1>3. CASE Running("maximum") /\ MaximumStep
  BY <1>3 DEF MaximumStep, pool_rand_maximum, Running, Own, TextFns
<1>4. CASE \E t \in TextCalls : TextCall(t)
  <2>1. PICK t \in TextCalls : TextCall(t)
    BY <1>4
  <2>2. job'.fn \in TextFns
    BY <2>1, ArgumentsAssumption DEF TextCall, Start, TextFns
  <2> QED BY <2>2, <1>4 DEF Own, TextFns
<1>5. CASE TextStep
  <2>1. job' = job /\ job.fn \in TextFns
    BY <1>5 DEF TextStep, StringChar, Base16Blob, Base32Blob, Base64Blob, Terminate,
                Running, TextCalled, TextFns
  <2> QED BY <1>5, <2>1 DEF Own, TextFns
<1>6. CASE \E s \in ShuffleCalls : futils_random_shuffle(s[1], s[2])
  <2>1. job'.fn = "shuffle"
    BY <1>6 DEF futils_random_shuffle, Start
  <2> QED BY <1>6, <2>1 DEF Own, TextFns
<1>7. CASE ShuffleStep
  <2>1. job' = job /\ job.fn = "shuffle"
    BY <1>7 DEF ShuffleStep, ShuffleSwap, ShuffleEnd, Running
  <2> QED BY <1>7, <2>1 DEF Own, TextFns
<1>8. CASE \E len \in FetchLens : futils_random_strong(len)
  <2>1. job'.fn = "fetch"
    BY <1>8 DEF futils_random_strong, Start
  <2> QED BY <1>8, <2>1 DEF Own, TextFns
<1>9. CASE FetchStep
  <2>1. job' = job /\ job.fn = "fetch"
    BY <1>9 DEF FetchStep, Getrandom, OpenDevice, ReadDevice, Running
  <2> QED BY <1>9, <2>1 DEF Own, TextFns
<1>10. CASE UNCHANGED callsVars
  BY <1>10 DEF Own
<1> QED
  BY <1>1, <1>2, <1>3, <1>4, <1>5, <1>6, <1>7, <1>8, <1>9, <1>10
     DEF CallsNext, MaximumStep, TextStep, ShuffleStep, FetchStep

-----------------------------------------------------------------------------
(* rand_fetch.                                                             *)

\* The bytes before p are written once and those behind it not at all; the
\* device is open while it is read, and only then.
FetchState(len, l, r) ==
  /\ len \in Nat
  /\ l \in [cells : [0 .. len - 1 -> Nat], p : 0 .. len,
            at : {"getrandom", "open", "read"}, fd : BOOLEAN]
  /\ \A i \in 0 .. len - 1 : l.cells[i] = IF i < l.p THEN 1 ELSE 0
  /\ r \in {"EINVAL", "running", "ok", "errno", "EAGAIN"}
  /\ r = "EINVAL" => len = 0
  /\ r = "running" => l.p < len /\ (l.fd <=> l.at = "read")
  /\ r = "ok" => l.p = len /\ ~l.fd
  /\ r \in {"errno", "EAGAIN"} => l.p < len /\ ~l.fd

FetchInv == job.fn = "fetch" => FetchState(job.len, loc, ended)

\* n bytes more at p.
Advanced(l, n) ==
  [l EXCEPT !.cells = [i \in DOMAIN @ |-> IF i \in l.p .. l.p + n - 1 THEN @[i] + 1 ELSE @[i]],
            !.p = @ + n]

LEMMA AdvancedKeeps ==
  ASSUME NEW len, NEW l, FetchState(len, l, "running"), NEW n \in 1 .. len - l.p, NEW fd \in BOOLEAN,
         fd <=> (n < len - l.p /\ l.at = "read")
  PROVE  FetchState(len, [Advanced(l, n) EXCEPT !.fd = fd],
                    IF n = len - l.p THEN "ok" ELSE "running")
<1> DEFINE d == [i \in 0 .. len - 1 |-> IF i \in l.p .. l.p + n - 1 THEN l.cells[i] + 1 ELSE l.cells[i]]
<1>1. /\ len \in Nat /\ l.p \in 0 .. len /\ l.cells \in [0 .. len - 1 -> Nat]
      /\ l.at \in {"getrandom", "open", "read"}
      /\ l = [cells |-> l.cells, p |-> l.p, at |-> l.at, fd |-> l.fd]
      /\ \A i \in 0 .. len - 1 : l.cells[i] = IF i < l.p THEN 1 ELSE 0
  BY DEF FetchState
<1>2. n \in Nat /\ l.p + n \in 0 .. len
  BY <1>1
<1> DEFINE e == [Advanced(l, n) EXCEPT !.fd = fd]
<1>3. /\ Advanced(l, n) \in [cells : {d}, p : {l.p + n}, at : {l.at}, fd : BOOLEAN]
      /\ e \in [cells : {d}, p : {l.p + n}, at : {l.at}, fd : {fd}]
  <2>1. DOMAIN l.cells = 0 .. len - 1
    BY <1>1
  <2>2. Advanced(l, n) = [l EXCEPT !.cells = d, !.p = l.p + n]
    BY <2>1 DEF Advanced
  <2> HIDE DEF d
  <2>3. l \in [cells : {l.cells}, p : {l.p}, at : {l.at}, fd : BOOLEAN]
    BY <1>1 DEF FetchState
  <2>4. Advanced(l, n) \in [cells : {d}, p : {l.p + n}, at : {l.at}, fd : BOOLEAN]
    BY <2>2, <2>3
  <2> QED BY <2>4
<1>4. d \in [0 .. len - 1 -> Nat]
  BY <1>1
<1>5. ASSUME NEW i \in 0 .. len - 1
      PROVE  d[i] = IF i < l.p + n THEN 1 ELSE 0
  BY <1>1, <1>2
<1> HIDE DEF d, e
<1>6. n = len - l.p => l.p + n = len
  BY <1>1, <1>2
<1>7. n # len - l.p => l.p + n < len /\ n < len - l.p
  BY <1>1, <1>2
<1>8. /\ e.cells = d /\ e.p = l.p + n /\ e.at = l.at /\ e.fd = fd
      /\ e \in [cells : [0 .. len - 1 -> Nat], p : 0 .. len,
                at : {"getrandom", "open", "read"}, fd : BOOLEAN]
  BY <1>1, <1>2, <1>3, <1>4
<1>9. n = len - l.p => FetchState(len, e, "ok")
  BY <1>1, <1>5, <1>6, <1>8 DEF FetchState
<1>10. n # len - l.p => FetchState(len, e, "running")
  BY <1>1, <1>5, <1>7, <1>8 DEF FetchState
<1> QED BY <1>9, <1>10 DEF e

LEMMA FetchInvInit == CallsInit => FetchInv
BY DEF CallsInit, FetchInv

LEMMA FetchInvNext ==
  ASSUME FetchInv, [CallsNext]_callsVars
  PROVE  FetchInv'
<1> SUFFICES ASSUME job'.fn = "fetch"
             PROVE  FetchState(job'.len, loc', ended')
  BY DEF FetchInv
<1>1. \/ UNCHANGED callsVars
      \/ \E len \in FetchLens : futils_random_strong(len)
      \/ job' = job /\ FetchStep
  BY StepsByFunction DEF Own
<1>2. CASE UNCHANGED callsVars
  BY <1>2 DEF callsVars, FetchInv
<1>3. CASE \E len \in FetchLens : futils_random_strong(len)
  <2>1. PICK len \in FetchLens, mode \in {"getrandom", "open"} :
          /\ job' = [fn |-> "fetch", len |-> len]
          /\ loc' = [cells |-> [i \in 0 .. len - 1 |-> 0], p |-> 0, at |-> mode, fd |-> FALSE]
          /\ ended' = IF len = 0 THEN "EINVAL" ELSE "running"
    BY <1>3 DEF futils_random_strong, Start
  <2>2. len \in Nat
    BY ArgumentsAssumption, LimitsAssumption
  <2> QED BY <2>1, <2>2 DEF FetchState
<1>4. CASE job' = job /\ FetchStep
  <2> DEFINE len == job.len
  <2>1. Running("fetch") /\ FetchState(len, loc, "running")
    BY <1>4 DEF FetchStep, Getrandom, OpenDevice, ReadDevice, Running, FetchInv
  <2>2. \A n : Filled(n) = Advanced(loc, n)
    BY DEF Filled, Advanced
  <2>3. /\ loc = [cells |-> loc.cells, p |-> loc.p, at |-> loc.at, fd |-> loc.fd]
        /\ loc.p < len /\ (loc.fd <=> loc.at = "read") /\ loc.fd \in BOOLEAN
    BY <2>1 DEF FetchState
  <2>4. CASE Getrandom
    <3>1. CASE \E n \in 1 .. Missing : loc' = Filled(n) /\ ended' = IF n = Missing THEN "ok" ELSE "running"
      <4>1. PICK n \in 1 .. len - loc.p : /\ loc' = Advanced(loc, n)
                                          /\ ended' = IF n = len - loc.p THEN "ok" ELSE "running"
        BY <3>1, <2>2 DEF Missing
      <4>2. loc.at # "read" /\ ~loc.fd
        BY <2>3, <2>4 DEF Getrandom
      <4>3. Advanced(loc, n) = [Advanced(loc, n) EXCEPT !.fd = FALSE]
        BY <2>3, <4>2 DEF Advanced
      <4>4. FetchState(len, [Advanced(loc, n) EXCEPT !.fd = FALSE],
                       IF n = len - loc.p THEN "ok" ELSE "running")
        BY <2>1, <4>2, AdvancedKeeps
      <4> QED BY <1>4, <4>1, <4>3, <4>4
    <3>2. CASE loc' = [loc EXCEPT !.at = "open"] /\ UNCHANGED ended
      <4>1. loc.at # "read" /\ ~loc.fd
        BY <2>3, <2>4 DEF Getrandom
      <4> QED BY <1>4, <2>1, <2>3, <3>2, <4>1 DEF FetchState, Running
    <3> QED BY <2>4, <3>1, <3>2 DEF Getrandom
  <2>5. CASE OpenDevice
    <3>1. loc.at = "open" /\ ~loc.fd
      BY <2>3, <2>5 DEF OpenDevice
    <3> QED BY <1>4, <2>1, <2>3, <2>5, <3>1 DEF OpenDevice, FetchState, Running
  <2>6. CASE ReadDevice
    <3>1. CASE \E n \in 1 .. Missing : /\ loc' = [Filled(n) EXCEPT !.fd = n < Missing]
                                       /\ ended' = IF n = Missing THEN "ok" ELSE "running"
      <4>1. PICK n \in 1 .. len - loc.p : /\ loc' = [Advanced(loc, n) EXCEPT !.fd = n < len - loc.p]
                                          /\ ended' = IF n = len - loc.p THEN "ok" ELSE "running"
        BY <3>1, <2>2 DEF Missing
      <4>2. loc.at = "read"
        BY <2>6 DEF ReadDevice
      <4>3. PICK fd \in BOOLEAN : fd = (n < len - loc.p)
        <5>1. CASE n < len - loc.p
          BY <5>1, TRUE = (n < len - loc.p)
        <5>2. CASE ~(n < len - loc.p)
          BY <5>2, FALSE = (n < len - loc.p)
        <5> QED BY <5>1, <5>2
      <4>4. FetchState(len, [Advanced(loc, n) EXCEPT !.fd = fd],
                       IF n = len - loc.p THEN "ok" ELSE "running")
        BY <2>1, <4>2, <4>3, AdvancedKeeps
      <4> QED BY <1>4, <4>1, <4>3, <4>4
    <3>2. CASE \E e \in {"errno", "EAGAIN"} : loc' = [loc EXCEPT !.fd = FALSE] /\ ended' = e
      BY <1>4, <2>1, <2>3, <3>2 DEF FetchState
    <3> QED BY <2>6, <3>1, <3>2 DEF ReadDevice
  <2> QED BY <1>4, <2>4, <2>5, <2>6 DEF FetchStep
<1> QED BY <1>1, <1>2, <1>3, <1>4

LEMMA FetchInvImplies == FetchInv => FetchFills
<1> SUFFICES ASSUME FetchState(job.len, loc, ended), Finished, job.len > 0
             PROVE  /\ ended = "ok" <=> \A i \in DOMAIN loc.cells : loc.cells[i] = 1
                    /\ ~loc.fd
  BY DEF FetchInv, FetchFills
<1>1. DOMAIN loc.cells = 0 .. job.len - 1 /\ loc.p \in 0 .. job.len /\ job.len \in Nat
  BY DEF FetchState
<1>2. ended = "ok" \/ ended \in {"errno", "EAGAIN"}
  BY DEF FetchState, Finished
<1>3. loc.p < job.len => loc.p \in 0 .. job.len - 1 /\ loc.cells[loc.p] # 1
  BY <1>1 DEF FetchState
<1> QED BY <1>1, <1>2, <1>3 DEF FetchState

\* futils_random_strong returns 0 exactly if it wrote every byte once, however
\* getrandom() and read() cut the request and wherever they stop, for buffers
\* of every length; the device is closed again.
THEOREM StrongFills == CallsSpec => []FetchFills
<1>1. CallsInit => FetchInv
  BY FetchInvInit
<1>2. FetchInv /\ [CallsNext]_callsVars => FetchInv'
  BY FetchInvNext
<1>3. FetchInv => FetchFills
  BY FetchInvImplies
<1> QED BY <1>1, <1>2, <1>3, PTL DEF CallsSpec

-----------------------------------------------------------------------------
(* The shuffle.                                                            *)

Identity(n) == [i \in 0 .. n - 1 |-> i]

\* An array of the n items, each once.
Order(a, n) ==
  /\ a \in [0 .. n - 1 -> 0 .. n - 1]
  /\ \A i, j \in 0 .. n - 1 : a[i] = a[j] => i = j
  /\ \A x \in 0 .. n - 1 : \E i \in 0 .. n - 1 : a[i] = x

Exchanged(a, u, v) == [a EXCEPT ![u] = a[v], ![v] = a[u]]

\* h[k] is the array before step k; what step k put at place k has stayed.
History(h, n, arr, picks) ==
  /\ h[0] = Identity(n)
  /\ \A k \in 0 .. Len(picks) : Order(h[k], n)
  /\ h[Len(picks)] = arr
  /\ \A k \in 0 .. Len(picks) - 1 :
       /\ k + picks[k + 1] \in k .. n - 1
       /\ h[k + 1] = Exchanged(h[k], k, k + picks[k + 1])
       /\ arr[k] = h[k][k + picks[k + 1]]

LEMMA IdentityIsOrder ==
  ASSUME NEW n \in Nat
  PROVE  Order(Identity(n), n)
BY DEF Order, Identity

LEMMA ExchangedValues ==
  ASSUME NEW n \in Nat, NEW a \in [0 .. n - 1 -> 0 .. n - 1], NEW u \in 0 .. n - 1, NEW v \in 0 .. n - 1
  PROVE  /\ Exchanged(a, u, v) \in [0 .. n - 1 -> 0 .. n - 1]
         /\ Exchanged(a, u, v)[u] = a[v] /\ Exchanged(a, u, v)[v] = a[u]
         /\ \A i \in 0 .. n - 1 : i # u /\ i # v => Exchanged(a, u, v)[i] = a[i]
BY DEF Exchanged

LEMMA ExchangedIsOrder ==
  ASSUME NEW n \in Nat, NEW a, Order(a, n), NEW u \in 0 .. n - 1, NEW v \in 0 .. n - 1
  PROVE  Order(Exchanged(a, u, v), n)
<1> DEFINE e == Exchanged(a, u, v)
<1> DEFINE N == 0 .. n - 1
<1>0. a \in [N -> N]
  BY DEF Order
<1>1. /\ \A i, j \in N : a[i] = a[j] => i = j
      /\ \A x \in N : \E i \in N : a[i] = x
  BY DEF Order
<1>2. /\ e \in [0 .. n - 1 -> 0 .. n - 1] /\ e[u] = a[v] /\ e[v] = a[u]
      /\ \A i \in 0 .. n - 1 : i # u /\ i # v => e[i] = a[i]
  BY <1>0, ExchangedValues
<1>a. u \in N /\ v \in N
  OBVIOUS
<1> HIDE DEF e, N
<1>b. /\ e \in [N -> N] /\ e[u] = a[v] /\ e[v] = a[u]
      /\ \A i \in N : i # u /\ i # v => e[i] = a[i]
  BY <1>2 DEF N
<1>3. ASSUME NEW i \in N, NEW j \in N, e[i] = e[j]
      PROVE  i = j
  <2>1. CASE i = u
    BY <1>1, <1>3, <1>a, <1>b, <2>1
  <2>2. CASE i = v
    BY <1>1, <1>3, <1>a, <1>b, <2>2
  <2>3. CASE i # u /\ i # v
    BY <1>1, <1>3, <1>a, <1>b, <2>3
  <2> QED BY <2>1, <2>2, <2>3
<1>4. ASSUME NEW x \in 0 .. n - 1
      PROVE  \E i \in 0 .. n - 1 : e[i] = x
  <2>1. PICK i \in N : a[i] = x
    BY <1>1 DEF N
  <2>2. \E k \in N : e[k] = x
    BY <1>a, <1>b, <2>1
  <2> QED BY <2>2 DEF N
<1>5. e \in [0 .. n - 1 -> 0 .. n - 1] /\ \A i, j \in 0 .. n - 1 : e[i] = e[j] => i = j
  BY <1>2, <1>3 DEF N
<1> QED BY <1>4, <1>5 DEF Order, e

\* An exchange with a place ahead leaves the places behind.
Ahead(a, b, u, v) == b[u] = a[v] /\ \A k \in 0 .. u - 1 : b[k] = a[k]

LEMMA ExchangedAhead ==
  ASSUME NEW n \in Nat, NEW a, Order(a, n), NEW u \in Nat, NEW r \in Nat, u + r <= n - 1
  PROVE  Ahead(a, Exchanged(a, u, u + r), u, u + r)
<1>1. a \in [0 .. n - 1 -> 0 .. n - 1]
  BY DEF Order
<1>2. u \in 0 .. n - 1 /\ u + r \in 0 .. n - 1
  OBVIOUS
<1>3. \A k \in 0 .. u - 1 : k \in 0 .. n - 1 /\ k # u /\ k # u + r
  OBVIOUS
<1> QED BY <1>1, <1>2, <1>3 DEF Exchanged, Ahead

\* One more step is one more entry of the history.
LEMMA HistoryGrows ==
  ASSUME NEW n \in Nat, NEW picks \in Seq(Nat), NEW h, NEW arr, History(h, n, arr, picks),
         Len(picks) < n, NEW r \in 0 .. n - 1 - Len(picks)
  PROVE  \E g : History(g, n, Exchanged(arr, Len(picks), Len(picks) + r), Append(picks, r))
<1> PICK u \in Nat : u = Len(picks)
  OBVIOUS
<1> DEFINE arr2 == Exchanged(arr, u, u + r)
           picks2 == Append(picks, r)
           g == [k \in 0 .. u + 1 |-> IF k = u + 1 THEN arr2 ELSE h[k]]
<1>1. /\ u \in 0 .. n - 1 /\ u + r \in 0 .. n - 1 /\ r \in Nat
      /\ u + r \in u .. n - 1
  OBVIOUS
<1>2. /\ Len(picks2) = u + 1 /\ picks2[u + 1] = r
      /\ \A k \in 0 .. u - 1 : picks2[k + 1] = picks[k + 1]
  OBVIOUS
<1>3. Order(arr, n) /\ arr = h[u] /\ Order(arr2, n)
  <2>1. Order(arr, n) /\ arr = h[u]
    BY DEF History
  <2> QED BY <1>1, <2>1, ExchangedIsOrder
<1>4. arr2[u] = arr[u + r] /\ \A k \in 0 .. u - 1 : arr2[k] = arr[k]
  <2>1. u + r <= n - 1
    BY <1>1
  <2>2. Ahead(arr, arr2, u, u + r)
    BY <1>1, <1>3, <2>1, ExchangedAhead
  <2> QED BY <2>2 DEF Ahead
<1>5. g[u + 1] = arr2 /\ \A k \in 0 .. u : g[k] = h[k]
  OBVIOUS
<1> HIDE DEF arr2, picks2, g
<1>6. g[0] = Identity(n)
  BY <1>5 DEF History
<1>7. \A k \in 0 .. u + 1 : Order(g[k], n)
  <2>1. \A k \in 0 .. u + 1 : k = u + 1 \/ k \in 0 .. u
    OBVIOUS
  <2> QED BY <1>3, <1>5, <2>1 DEF History
<1>8. ASSUME NEW k \in 0 .. u
      PROVE  /\ k + picks2[k + 1] \in k .. n - 1
             /\ g[k + 1] = Exchanged(g[k], k, k + picks2[k + 1])
             /\ arr2[k] = g[k][k + picks2[k + 1]]
  <2>1. CASE k = u
    BY <1>1, <1>2, <1>3, <1>4, <1>5, <2>1 DEF arr2
  <2>2. CASE k # u
    <3>1. k \in 0 .. u - 1 /\ k + 1 \in 0 .. u
      BY <2>2
    <3>2. /\ k + picks[k + 1] \in k .. n - 1
          /\ h[k + 1] = Exchanged(h[k], k, k + picks[k + 1])
          /\ arr[k] = h[k][k + picks[k + 1]]
      BY <3>1 DEF History
    <3> QED BY <1>2, <1>4, <1>5, <3>1, <3>2
  <2> QED BY <2>1, <2>2
<1>9. History(g, n, arr2, picks2)
  <2>1. u + 1 - 1 = u
    OBVIOUS
  <2> QED BY <1>2, <1>5, <1>6, <1>7, <1>8, <2>1 DEF History
<1> QED BY <1>9 DEF arr2, picks2

\* What the recursive function of ShuffleIsFair is.
IsBefore(w, n, arr) ==
  w = [u \in 0 .. n - 1 |->
         IF u = 0 THEN Identity(n)
         ELSE Exchanged(w[u - 1], u - 1, PlaceOf(w[u - 1], arr[u - 1]))]

\* An item has one place.
LEMMA PlaceInOrder ==
  ASSUME NEW n \in Nat, NEW a, Order(a, n), NEW i \in 0 .. n - 1, NEW x, a[i] = x
  PROVE  PlaceOf(a, x) = i
BY DEF Order, PlaceOf

\* A step is undone by the place of the item that it moved.
LEMMA HistoryReadBack ==
  ASSUME NEW n \in Nat, NEW picks \in Seq(Nat), NEW h, NEW arr, History(h, n, arr, picks),
         NEW k \in 0 .. Len(picks) - 1
  PROVE  /\ PlaceOf(h[k], arr[k]) = k + picks[k + 1]
         /\ h[k + 1] = Exchanged(h[k], k, PlaceOf(h[k], arr[k]))
<1>1. /\ k + picks[k + 1] \in k .. n - 1
      /\ h[k + 1] = Exchanged(h[k], k, k + picks[k + 1])
      /\ arr[k] = h[k][k + picks[k + 1]]
      /\ Order(h[k], n)
  BY DEF History
<1>2. PICK p, a, x : p = k + picks[k + 1] /\ a = h[k] /\ x = arr[k]
  OBVIOUS
<1>3. p \in 0 .. n - 1 /\ a[p] = x /\ Order(a, n)
  BY <1>1, <1>2
<1>4. PlaceOf(a, x) = p
  BY <1>3, PlaceInOrder
<1> QED BY <1>1, <1>2, <1>4

LEMMA BeforeExists ==
  ASSUME NEW n \in Nat, NEW picks \in Seq(Nat), NEW h, NEW arr, History(h, n, arr, picks),
         Len(picks) = n - 1
  PROVE  \E w : IsBefore(w, n, arr)
<1> DEFINE w == [u \in 0 .. n - 1 |-> h[u]]
<1>1. ASSUME NEW u \in 0 .. n - 1
      PROVE  w[u] = IF u = 0 THEN Identity(n)
                    ELSE Exchanged(w[u - 1], u - 1, PlaceOf(w[u - 1], arr[u - 1]))
  <2>1. CASE u = 0
    BY <2>1 DEF History
  <2>2. CASE u # 0
    <3>1. u - 1 \in 0 .. Len(picks) - 1 /\ u - 1 \in 0 .. n - 1 /\ u - 1 + 1 = u
      BY <2>2
    <3>2. h[u - 1 + 1] = Exchanged(h[u - 1], u - 1, PlaceOf(h[u - 1], arr[u - 1]))
      BY <3>1, HistoryReadBack
    <3> QED BY <2>2, <3>1, <3>2
  <2> QED BY <2>1, <2>2
<1>2. w = [u \in 0 .. n - 1 |-> w[u]]
  OBVIOUS
<1> HIDE DEF w
<1>3. IsBefore(w, n, arr)
  BY <1>1, <1>2 DEF IsBefore
<1> QED BY <1>3

LEMMA BeforeIsHistory ==
  ASSUME NEW n \in Nat, NEW picks \in Seq(Nat), NEW h, NEW arr, History(h, n, arr, picks),
         Len(picks) = n - 1, NEW w, IsBefore(w, n, arr)
  PROVE  \A u \in 0 .. n - 1 : w[u] = h[u]
<1>1. \A u \in 0 .. n - 1 :
        w[u] = IF u = 0 THEN Identity(n)
               ELSE Exchanged(w[u - 1], u - 1, PlaceOf(w[u - 1], arr[u - 1]))
  BY DEF IsBefore
<1> DEFINE T == {u \in Nat : u <= n - 1 => w[u] = h[u]}
<1>2. 0 \in T
  BY <1>1 DEF History
<1>3. ASSUME NEW u \in Nat, u \in T
      PROVE  u + 1 \in T
  <2> SUFFICES ASSUME u + 1 <= n - 1
               PROVE  w[u + 1] = h[u + 1]
    OBVIOUS
  <2>1. u \in 0 .. Len(picks) - 1 /\ u + 1 \in 0 .. n - 1 /\ u + 1 # 0 /\ u + 1 - 1 = u
    OBVIOUS
  <2>2. w[u] = h[u]
    BY <1>3
  <2>3. w[u + 1] = Exchanged(w[u], u, PlaceOf(w[u], arr[u]))
    BY <1>1, <2>1
  <2> QED BY <2>1, <2>2, <2>3, HistoryReadBack
<1>4. Nat \subseteq T
  <2> HIDE DEF T
  <2> QED BY <1>2, <1>3, SetInduction
<1> QED BY <1>4

\* The locals of a shuffle of n items.
ShuffleState(n, l, r) ==
  /\ n \in Nat
  /\ l \in [arr : [0 .. n - 1 -> 0 .. n - 1], u : Nat, picks : Seq(Nat), heap : BOOLEAN]
  /\ Len(l.picks) = l.u
  /\ r \in {"running", "ok", "ENOMEM"}
  /\ r = "running" => l.u < n
  /\ r # "running" => ~l.heap
  /\ r = "ENOMEM" => l.arr = Identity(n)
  /\ r = "ok" => l.u \in {0, n - 1}
  /\ \E h : History(h, n, l.arr, l.picks)

ShuffleInv == job.fn = "shuffle" => ShuffleState(job.nmemb, loc, ended)

LEMMA ShuffleInvNext ==
  ASSUME ShuffleInv, [CallsNext]_callsVars
  PROVE  ShuffleInv'
<1> SUFFICES ASSUME job'.fn = "shuffle"
             PROVE  ShuffleState(job'.nmemb, loc', ended')
  BY DEF ShuffleInv
<1>1. \/ UNCHANGED callsVars
      \/ \E s \in ShuffleCalls : futils_random_shuffle(s[1], s[2])
      \/ job' = job /\ ShuffleStep
  BY StepsByFunction DEF Own
<1>2. CASE UNCHANGED callsVars
  BY <1>2 DEF callsVars, ShuffleInv
<1>3. CASE \E s \in ShuffleCalls : futils_random_shuffle(s[1], s[2])
  <2>1. PICK s \in ShuffleCalls, allocated \in BOOLEAN :
          Start([fn |-> "shuffle", nmemb |-> s[1]],
                [arr |-> [i \in 0 .. s[1] - 1 |-> i], u |-> 0, picks |-> <<>>,
                 heap |-> allocated /\ s[1] >= 2 /\ s[2] > 8],
                CASE s[1] < 2 \/ s[2] = 0 -> "ok"
                  [] s[1] >= 2 /\ s[2] > 8 /\ ~allocated -> "ENOMEM"
                  [] OTHER -> "running")
    BY <1>3 DEF futils_random_shuffle
  <2>2. PICK n \in Nat, size \in Nat : n = s[1] /\ size = s[2]
    BY ArgumentsAssumption, LimitsAssumption
  <2>3. /\ job'.nmemb = n
        /\ loc' = [arr |-> Identity(n), u |-> 0, picks |-> <<>>,
                   heap |-> allocated /\ n >= 2 /\ size > 8]
        /\ ended' = CASE n < 2 \/ size = 0 -> "ok"
                    [] n >= 2 /\ size > 8 /\ ~allocated -> "ENOMEM"
                    [] OTHER -> "running"
    BY <2>1, <2>2 DEF Start, Identity
  <2>4. History([k \in {0} |-> Identity(n)], n, Identity(n), <<>>)
    BY IdentityIsOrder DEF History
  <2>5. /\ loc'.arr = Identity(n) /\ loc'.u = 0 /\ loc'.picks = <<>>
        /\ loc'.heap <=> (allocated /\ n >= 2 /\ size > 8)
        /\ loc' \in [arr : {Identity(n)}, u : {0}, picks : {<<>>}, heap : BOOLEAN]
    BY <2>3
  <2>6. PICK A : A = [0 .. n - 1 -> 0 .. n - 1]
    OBVIOUS
  <2>a. Identity(n) \in A /\ <<>> \in Seq(Nat) /\ Len(<<>>) = 0
    BY <2>6 DEF Identity
  <2>7. loc' \in [arr : A, u : Nat, picks : Seq(Nat), heap : BOOLEAN]
    <3>1. PICK x : x = Identity(n)
      OBVIOUS
    <3>2. PICK l, p : l = loc' /\ p = <<>>
      OBVIOUS
    <3>3. x \in A /\ p \in Seq(Nat) /\ l \in [arr : {x}, u : {0}, picks : {p}, heap : BOOLEAN]
      BY <2>5, <2>a, <3>1, <3>2
    <3>4. l \in [arr : A, u : Nat, picks : Seq(Nat), heap : BOOLEAN]
      BY <3>3
    <3> QED BY <3>2, <3>4
  <2>8. /\ ended' \in {"running", "ok", "ENOMEM"}
        /\ ended' = "running" => 0 < n
        /\ ended' # "running" => ~(allocated /\ n >= 2 /\ size > 8)
    BY <2>3
  <2>9. \E h : History(h, n, loc'.arr, loc'.picks)
    BY <2>4, <2>5
  <2> HIDE DEF History, Identity
  <2> QED BY <2>3, <2>5, <2>6, <2>7, <2>8, <2>9, <2>a DEF ShuffleState
<1>4. CASE job' = job /\ ShuffleStep
  <2>1. PICK n : n = job.nmemb
    OBVIOUS
  <2>2. Running("shuffle") /\ ShuffleState(n, loc, "running") /\ job'.nmemb = n
    BY <1>4, <2>1 DEF ShuffleStep, ShuffleSwap, ShuffleEnd, Running, ShuffleInv
  <2>3. /\ n \in Nat /\ loc.u \in Nat /\ loc.u < n /\ loc.picks \in Seq(Nat)
        /\ Len(loc.picks) = loc.u
        /\ loc \in [arr : [0 .. n - 1 -> 0 .. n - 1], u : Nat, picks : Seq(Nat), heap : BOOLEAN]
    BY <2>2 DEF ShuffleState
  <2>4. PICK h : History(h, n, loc.arr, loc.picks)
    BY <2>2 DEF ShuffleState
  <2>5. CASE ShuffleSwap
    <3>1. PICK r \in 0 .. n - 1 - loc.u :
            loc' = [loc EXCEPT !.arr = Exchanged(loc.arr, loc.u, loc.u + r), !.u = loc.u + 1,
                               !.picks = Append(loc.picks, r)]
      BY <2>1, <2>5 DEF ShuffleSwap, Swap, Exchanged
    <3>2. loc.u < n - 1 /\ ended' = "running"
      BY <2>1, <2>2, <2>5 DEF ShuffleSwap, Running
    <3>3. PICK a2 : a2 = Exchanged(loc.arr, loc.u, loc.u + r)
      OBVIOUS
    <3>4. PICK p2 : p2 = Append(loc.picks, r)
      OBVIOUS
    <3>5. loc' \in [arr : {a2}, u : {loc.u + 1}, picks : {p2}, heap : BOOLEAN]
      BY <2>3, <3>1, <3>3, <3>4
    <3>6. a2 \in [0 .. n - 1 -> 0 .. n - 1]
      BY <2>3, <3>3, ExchangedValues, loc.u \in 0 .. n - 1, loc.u + r \in 0 .. n - 1
    <3>7. p2 \in Seq(Nat) /\ Len(p2) = loc.u + 1
      BY <2>3, <3>4
    <3>8. \E g : History(g, n, a2, p2)
      BY <2>3, <2>4, <3>3, <3>4, HistoryGrows
    <3>9. /\ loc'.arr = a2 /\ loc'.u = loc.u + 1 /\ loc'.picks = p2
      BY <3>5
    <3>a. PICK A : A = [0 .. n - 1 -> 0 .. n - 1]
      OBVIOUS
    <3>b. loc' \in [arr : A, u : Nat, picks : Seq(Nat), heap : BOOLEAN]
      <4>1. a2 \in A /\ loc.u + 1 \in Nat /\ p2 \in Seq(Nat)
        <5>1. a2 \in A
          BY <3>6, <3>a
        <5>2. loc.u \in Nat
          BY <2>3
        <5>3. loc.u + 1 \in Nat
          BY <5>2
        <5> QED BY <3>7, <5>1, <5>3
      <4>2. PICK v, P : v = loc.u + 1 /\ P = Seq(Nat)
        OBVIOUS
      <4>3. loc' \in [arr : {a2}, u : {v}, picks : {p2}, heap : BOOLEAN] /\ a2 \in A /\ v \in Nat /\ p2 \in P
        BY <3>5, <4>1, <4>2
      <4>4. loc' \in [arr : A, u : Nat, picks : P, heap : BOOLEAN]
        BY <4>3
      <4> QED BY <4>2, <4>4
    <3>c. loc.u + 1 < n
      BY <2>3, <3>2
    <3> QED BY <2>2, <2>3, <3>2, <3>7, <3>8, <3>9, <3>a, <3>b, <3>c DEF ShuffleState
  <2>6. CASE ShuffleEnd
    <3>1. /\ loc.u = n - 1 /\ loc' = [loc EXCEPT !.heap = FALSE] /\ ended' = "ok"
      BY <2>1, <2>6 DEF ShuffleEnd
    <3>2. /\ loc'.arr = loc.arr /\ loc'.u = loc.u /\ loc'.picks = loc.picks /\ ~loc'.heap
          /\ loc' \in [arr : [0 .. n - 1 -> 0 .. n - 1], u : Nat, picks : Seq(Nat), heap : BOOLEAN]
      BY <2>3, <3>1
    <3> QED BY <2>2, <2>3, <2>4, <3>1, <3>2 DEF ShuffleState
  <2> QED BY <1>4, <2>5, <2>6 DEF ShuffleStep
<1> QED BY <1>1, <1>2, <1>3, <1>4

LEMMA ShuffleInvImplies == ShuffleInv => ShuffleIsFair
<1> SUFFICES ASSUME job.fn = "shuffle", ShuffleState(job.nmemb, loc, ended)
             PROVE  ShuffleIsFair
  BY DEF ShuffleInv, ShuffleIsFair
<1> PICK n : n = job.nmemb
  OBVIOUS
<1> DEFINE items == 0 .. n - 1
           before == CHOOSE w : IsBefore(w, n, loc.arr)
<1>1. PICK h : History(h, n, loc.arr, loc.picks)
  BY DEF ShuffleState
<1>2. n \in Nat /\ loc.picks \in Seq(Nat) /\ Order(loc.arr, n) /\ Len(loc.picks) = loc.u /\ loc.u \in Nat
  BY <1>1 DEF ShuffleState, History
<1>3. {loc.arr[i] : i \in items} = items
  <2>1. /\ \A i \in items : loc.arr[i] \in items
        /\ \A x \in items : \E i \in items : loc.arr[i] = x
    BY <1>2 DEF Order
  <2> HIDE DEF items
  <2> QED BY <2>1
<1>4. Finished => ~loc.heap
  BY DEF ShuffleState, Finished
<1>5. ended = "ENOMEM" => \A i \in items : loc.arr[i] = i
  BY DEF ShuffleState, Identity
<1>6. ASSUME ended = "ok", NEW u \in 0 .. Len(loc.picks) - 1
      PROVE  PlaceOf(before[u], loc.arr[u]) = u + loc.picks[u + 1]
  <2>1. Len(loc.picks) = n - 1 /\ u \in 0 .. n - 1
    BY <1>2, <1>6 DEF ShuffleState
  <2>2. IsBefore(before, n, loc.arr)
    BY <1>1, <1>2, <2>1, BeforeExists
  <2> HIDE DEF before
  <2>a. PICK arr, picks, w : arr = loc.arr /\ picks = loc.picks /\ w = before
    OBVIOUS
  <2>b. n \in Nat /\ History(h, n, arr, picks) /\ picks \in Seq(Nat) /\ Len(picks) = n - 1 /\ IsBefore(w, n, arr)
    BY <1>1, <1>2, <2>1, <2>2, <2>a
  <2>3. \A k \in 0 .. n - 1 : w[k] = h[k]
    BY <2>b, BeforeIsHistory
  <2>4. before[u] = h[u]
    BY <2>1, <2>3, <2>a
  <2>5. u \in 0 .. Len(picks) - 1
    BY <2>a
  <2>6. PlaceOf(h[u], arr[u]) = u + picks[u + 1]
    BY <1>2, <2>b, <2>5, HistoryReadBack
  <2> QED BY <2>4, <2>6, <2>a
<1> HIDE DEF before
<1>7. before = CHOOSE w : w =
        [u \in items |->
          IF u = 0 THEN [i \in items |-> i]
          ELSE LET a == w[u - 1]
                   v == PlaceOf(a, loc.arr[u - 1])
               IN  [a EXCEPT ![u - 1] = a[v], ![v] = a[u - 1]]]
  BY DEF before, IsBefore, Exchanged, Identity
<1> QED BY <1>3, <1>4, <1>5, <1>6, <1>7 DEF ShuffleIsFair

\* A shuffle keeps the items, and the draws can be read back from its result:
\* distinct draws give distinct orders, so all orders are equally likely, for
\* arrays of every length; a shuffle that finds no memory has moved nothing,
\* and the buffer for large items is freed (futils_random_shuffle).
THEOREM ShufflesAreFair == CallsSpec => []ShuffleIsFair
<1>1. CallsInit => ShuffleInv
  BY DEF CallsInit, ShuffleInv
<1>2. ShuffleInv /\ [CallsNext]_callsVars => ShuffleInv'
  BY ShuffleInvNext
<1>3. ShuffleInv => ShuffleIsFair
  BY ShuffleInvImplies
<1> QED BY <1>1, <1>2, <1>3, PTL DEF CallsSpec

-----------------------------------------------------------------------------
(* Values up to a maximum.                                                 *)

\* The bits that have a bit of v less than k places above them.
Within(v, k) == {b \in Nat : \E m \in v : b <= m /\ m < b + k}

LEMMA ShrElement ==
  ASSUME NEW v, v \subseteq Nat, NEW k \in Nat, NEW b
  PROVE  b \in Shr(v, k) <=> b \in Nat /\ b + k \in v
<1>1. ASSUME b \in Shr(v, k)
      PROVE  b \in Nat /\ b + k \in v
  <2>1. PICK x \in v : x >= k /\ b = x - k
    BY <1>1 DEF Shr
  <2> QED BY <2>1
<1>2. ASSUME b \in Nat, b + k \in v
      PROVE  b \in Shr(v, k)
  <2>1. b + k \in {x \in v : x >= k} /\ b = (b + k) - k
    BY <1>2
  <2> QED BY <2>1 DEF Shr
<1> QED BY <1>1, <1>2

\* A round of p2minus1 doubles the reach.
LEMMA SmearDoubles ==
  ASSUME NEW v, v \subseteq Nat, NEW k \in Nat, k > 0
  PROVE  Within(v, k) \cup Shr(Within(v, k), k) = Within(v, 2 * k)
<1>1. Within(v, k) \subseteq Nat
  BY DEF Within
<1>2. ASSUME NEW b \in Nat
      PROVE  b \in Within(v, 2 * k) <=> b \in Within(v, k) \/ b + k \in Within(v, k)
  <2>1. b \in Within(v, 2 * k) <=> \E m \in v : b <= m /\ m < b + 2 * k
    BY DEF Within
  <2>2. b \in Within(v, k) <=> \E m \in v : b <= m /\ m < b + k
    BY DEF Within
  <2>3. b + k \in Within(v, k) <=> \E m \in v : b + k <= m /\ m < b + k + k
    BY DEF Within
  <2>4. \A m \in v : m \in Nat /\ (b <= m /\ m < b + 2 * k <=>
                        \/ b <= m /\ m < b + k
                        \/ b + k <= m /\ m < b + k + k)
    OBVIOUS
  <2> QED BY <2>1, <2>2, <2>3, <2>4
<1>3. ASSUME NEW b
      PROVE  b \in Within(v, k) \cup Shr(Within(v, k), k) <=> b \in Within(v, 2 * k)
  <2>1. b \in Shr(Within(v, k), k) <=> b \in Nat /\ b + k \in Within(v, k)
    BY <1>1, ShrElement
  <2>2. b \in Within(v, 2 * k) => b \in Nat
    BY DEF Within
  <2> QED BY <1>1, <1>2, <2>1, <2>2
<1> QED BY <1>3

\* p2minus1: the bits up to the highest one.
LEMMA MaskBits ==
  ASSUME NEW v, v \subseteq Ones(64)
  PROVE  p2minus1(v) = {b \in Nat : \E m \in v : b <= m}
<1>1. v \subseteq Nat /\ \A m \in v : m < 64
  BY DEF Ones
<1>2. Within(v, 1) = v
  <2>1. \A b \in Nat : (\E m \in v : b <= m /\ m < b + 1) <=> b \in v
    BY <1>1
  <2> QED BY <1>1, <2>1 DEF Within
<1>3. /\ Within(v, 1) \cup Shr(Within(v, 1), 1) = Within(v, 2)
      /\ Within(v, 2) \cup Shr(Within(v, 2), 2) = Within(v, 4)
      /\ Within(v, 4) \cup Shr(Within(v, 4), 4) = Within(v, 8)
      /\ Within(v, 8) \cup Shr(Within(v, 8), 8) = Within(v, 16)
      /\ Within(v, 16) \cup Shr(Within(v, 16), 16) = Within(v, 32)
      /\ Within(v, 32) \cup Shr(Within(v, 32), 32) = Within(v, 64)
  <2>1. \A k \in Nat : k > 0 => Within(v, k) \cup Shr(Within(v, k), k) = Within(v, 2 * k)
    BY <1>1, SmearDoubles
  <2> QED BY <2>1, 2 * 1 = 2, 2 * 2 = 4, 2 * 4 = 8, 2 * 8 = 16, 2 * 16 = 32, 2 * 32 = 64
<1>4. p2minus1(v) = Within(v, 64)
  BY <1>2, <1>3 DEF p2minus1
<1>5. \A b \in Nat : (\E m \in v : b <= m /\ m < b + 64) <=> \E m \in v : b <= m
  BY <1>1
<1> QED BY <1>4, <1>5 DEF Within

\* v is a word of exactly n bits.
Top(v, n) == n \in Nat /\ v \subseteq 0 .. n - 1 /\ (n > 0 => n - 1 \in v)

LEMMA TopExists ==
  ASSUME NEW w \in Nat, NEW v, v \subseteq 0 .. w - 1
  PROVE  \E n \in 0 .. w : Top(v, n)
<1> DEFINE T == {n \in Nat : v \subseteq 0 .. n - 1}
<1>1. PICK n \in T : \A k \in T : n <= k
  <2>1. w \in T
    OBVIOUS
  <2> QED BY <2>1, LeastNatural
<1>2. n <= w
  BY <1>1
<1>3. ASSUME n > 0, n - 1 \notin v
      PROVE  FALSE
  <2>1. n - 1 \in T
    BY <1>1, <1>3
  <2> QED BY <1>1, <2>1
<1> QED BY <1>1, <1>2, <1>3 DEF Top

\* One `if` of ilog2plus1 counts what it shifts out, and halves what is left.
LEMMA Ilog2Halves ==
  ASSUME NEW t \in Nat, NEW s, NEW r \in Nat, NEW v, s = <<r, v>>, NEW n, Top(v, n), n <= 2 * t + 1
  PROVE  \E r2, v2, n2 :
            r2 \in Nat /\ Ilog2Step(t, s) = <<r2, v2>> /\ Top(v2, n2) /\ n2 <= t /\ r2 + n2 = r + n
<1>1. n \in Nat /\ v \subseteq 0 .. n - 1 /\ v \subseteq Nat /\ (n > 0 => n - 1 \in v)
  BY DEF Top
<1>2. CASE n <= t
  <2>1. ~ \E b \in v : b >= t
    BY <1>1, <1>2
  <2>2. Ilog2Step(t, s) = <<r, v>>
    BY <2>1 DEF Ilog2Step
  <2> QED BY <1>2, <2>2
<1>3. CASE n > t
  <2>1. n - 1 \in v /\ n - 1 >= t
    BY <1>1, <1>3
  <2>2. Ilog2Step(t, s) = <<r + t + 1, Shr(v, t + 1)>>
    BY <2>1 DEF Ilog2Step
  <2>3. PICK n2 \in Nat : n2 = n - t - 1
    BY <1>1, <1>3
  <2>4. \A b : b \in Shr(v, t + 1) <=> b \in Nat /\ b + (t + 1) \in v
    BY <1>1, t + 1 \in Nat, ShrElement
  <2>5. Shr(v, t + 1) \subseteq 0 .. n2 - 1
    BY <1>1, <2>3, <2>4
  <2>6. n2 > 0 => n2 - 1 \in Shr(v, t + 1)
    <3>1. n2 > 0 => n2 - 1 \in Nat /\ (n2 - 1) + (t + 1) = n - 1
      BY <1>1, <2>3
    <3> QED BY <2>1, <2>4, <3>1
  <2>7. Top(Shr(v, t + 1), n2)
    BY <2>5, <2>6 DEF Top
  <2>8. n2 <= t /\ (r + t + 1) + n2 = r + n /\ r + t + 1 \in Nat
    BY <1>1, <2>3
  <2> QED BY <2>2, <2>7, <2>8
<1> QED BY <1>1, <1>2, <1>3

\* ilog2plus1: the number of bits of a word of up to 64.
LEMMA BitCount ==
  ASSUME NEW v, NEW n, Top(v, n), n <= 64
  PROVE  ilog2plus1(v) = n
<1>0. n \in Nat
  BY DEF Top
<1>1. PICK r1, v1, n1 : /\ r1 \in Nat /\ Ilog2Step(32, <<0, v>>) = <<r1, v1>>
                         /\ Top(v1, n1) /\ n1 <= 32 /\ r1 + n1 = 0 + n
  <2>1. n <= 2 * 32 + 1
    BY <1>0
  <2>2. ASSUME NEW r0 \in Nat
        PROVE  \E r1, v1, n1 : /\ r1 \in Nat /\ Ilog2Step(32, <<r0, v>>) = <<r1, v1>>
                               /\ Top(v1, n1) /\ n1 <= 32 /\ r1 + n1 = r0 + n
    BY <2>1, Ilog2Halves
  <2> QED BY <2>2
<1>2. PICK r2, v2, n2 : /\ r2 \in Nat /\ Ilog2Step(16, <<r1, v1>>) = <<r2, v2>>
                         /\ Top(v2, n2) /\ n2 <= 16 /\ r2 + n2 = r1 + n1
  <2>1. n1 \in Nat /\ n1 <= 2 * 16 + 1
    BY <1>1 DEF Top
  <2> QED BY <1>1, <2>1, Ilog2Halves
<1>3. PICK r3, v3, n3 : /\ r3 \in Nat /\ Ilog2Step(8, <<r2, v2>>) = <<r3, v3>>
                         /\ Top(v3, n3) /\ n3 <= 8 /\ r3 + n3 = r2 + n2
  <2>1. n2 \in Nat /\ n2 <= 2 * 8 + 1
    BY <1>2 DEF Top
  <2> QED BY <1>2, <2>1, Ilog2Halves
<1>4. PICK r4, v4, n4 : /\ r4 \in Nat /\ Ilog2Step(4, <<r3, v3>>) = <<r4, v4>>
                         /\ Top(v4, n4) /\ n4 <= 4 /\ r4 + n4 = r3 + n3
  <2>1. n3 \in Nat /\ n3 <= 2 * 4 + 1
    BY <1>3 DEF Top
  <2> QED BY <1>3, <2>1, Ilog2Halves
<1>5. PICK r5, v5, n5 : /\ r5 \in Nat /\ Ilog2Step(2, <<r4, v4>>) = <<r5, v5>>
                         /\ Top(v5, n5) /\ n5 <= 2 /\ r5 + n5 = r4 + n4
  <2>1. n4 \in Nat /\ n4 <= 2 * 2 + 1
    BY <1>4 DEF Top
  <2> QED BY <1>4, <2>1, Ilog2Halves
<1>6. PICK r6, v6, n6 : /\ r6 \in Nat /\ Ilog2Step(1, <<r5, v5>>) = <<r6, v6>>
                         /\ Top(v6, n6) /\ n6 <= 1 /\ r6 + n6 = r5 + n5
  <2>1. n5 \in Nat /\ n5 <= 2 * 1 + 1
    BY <1>5 DEF Top
  <2> QED BY <1>5, <2>1, Ilog2Halves
<1>7. PICK r7, v7, n7 : /\ r7 \in Nat /\ Ilog2Step(0, <<r6, v6>>) = <<r7, v7>>
                         /\ Top(v7, n7) /\ n7 <= 0 /\ r7 + n7 = r6 + n6
  <2>1. n6 \in Nat /\ n6 <= 2 * 0 + 1
    BY <1>6 DEF Top
  <2> QED BY <1>6, <2>1, Ilog2Halves
<1>8. ilog2plus1(v) = r7
  BY <1>1, <1>2, <1>3, <1>4, <1>5, <1>6, <1>7 DEF ilog2plus1
<1>9. n7 = 0 /\ n1 \in Nat /\ n2 \in Nat /\ n3 \in Nat /\ n4 \in Nat /\ n5 \in Nat /\ n6 \in Nat
  BY <1>1, <1>2, <1>3, <1>4, <1>5, <1>6, <1>7 DEF Top
<1> QED BY <1>0, <1>1, <1>2, <1>3, <1>4, <1>5, <1>6, <1>7, <1>8, <1>9

\* The bytes drawn hold every bit of the mask and fit the type.
LEMMA DrawCovers ==
  ASSUME NEW w \in {8, 16, 32, 64}, NEW maximum, maximum \subseteq Ones(w)
  PROVE  /\ 8 * DrawBytes(w, maximum) <= w
         /\ p2minus1(maximum) \subseteq Ones(8 * DrawBytes(w, maximum))
         /\ \A b \in Ones(w) : b \in p2minus1(maximum) <=> \E m \in maximum : m >= b
<1> DEFINE mask == p2minus1(maximum)
<1>1. maximum \subseteq Ones(64) /\ w \in Nat /\ maximum \subseteq 0 .. w - 1
  BY DEF Ones
<1>2. mask = {b \in Nat : \E m \in maximum : b <= m}
  BY <1>1, MaskBits
<1> HIDE DEF mask
<1>3. \A b \in Ones(w) : b \in mask <=> \E m \in maximum : m >= b
  BY <1>1, <1>2 DEF Ones
<1>4. mask \subseteq 0 .. w - 1
  BY <1>1, <1>2
<1>5. PICK n \in 0 .. w : Top(mask, n)
  BY <1>1, <1>4, TopExists
<1>6. ilog2plus1(mask) = n /\ mask \subseteq 0 .. n - 1
  BY <1>1, <1>5, n <= 64, BitCount DEF Top
<1>7. CASE w = 8
  <2>1. DrawBytes(w, maximum) = 1
    BY <1>7 DEF DrawBytes
  <2> QED BY <1>3, <1>4, <1>7, <2>1 DEF mask, Ones
<1>8. CASE w # 8
  <2>1. DrawBytes(w, maximum) = (n + 7) \div 8
    BY <1>6, <1>8 DEF DrawBytes, mask
  <2>2. PICK d \in Nat : d = (n + 7) \div 8
    OBVIOUS
  <2>3. 8 * d >= n /\ 8 * d <= w
    BY <2>2
  <2>4. mask \subseteq Ones(8 * d)
    BY <1>6, <2>3 DEF Ones
  <2> QED BY <1>3, <2>1, <2>2, <2>3, <2>4 DEF mask
<1> QED BY <1>7, <1>8

MaximumInv ==
  job.fn = "maximum" => /\ job.w \in {8, 16, 32, 64} /\ job.maximum \subseteq Ones(job.w)
                        /\ ended = "ok" => LeqWord(loc.val, job.maximum)

LEMMA MaximumInvNext ==
  ASSUME MaximumInv, [CallsNext]_callsVars
  PROVE  MaximumInv'
<1> SUFFICES ASSUME job'.fn = "maximum"
             PROVE  /\ job'.w \in {8, 16, 32, 64} /\ job'.maximum \subseteq Ones(job'.w)
                    /\ ended' = "ok" => LeqWord(loc'.val, job'.maximum)
  BY DEF MaximumInv
<1>1. \/ UNCHANGED callsVars
      \/ \E m \in Maxima : futils_random_maximum(m[1], m[2])
      \/ job' = job /\ MaximumStep
  BY StepsByFunction DEF Own
<1>2. CASE UNCHANGED callsVars
  BY <1>2 DEF callsVars, MaximumInv
<1>3. CASE \E m \in Maxima : futils_random_maximum(m[1], m[2])
  <2>1. PICK m \in Maxima : /\ job' = [fn |-> "maximum", w |-> m[1], maximum |-> m[2]]
                            /\ loc' = [val |-> {}]
    BY <1>3 DEF futils_random_maximum, Start
  <2>2. m[1] \in {8, 16, 32, 64} /\ m[2] \subseteq Ones(m[1])
    BY ArgumentsAssumption
  <2>3. LeqWord({}, m[2])
    BY DEF LeqWord
  <2> QED BY <2>1, <2>2, <2>3
<1>4. CASE job' = job /\ MaximumStep
  <2>1. job.fn = "maximum" /\ (ended' = "ok" => LeqWord(loc'.val, job.maximum))
    BY <1>4 DEF MaximumStep, pool_rand_maximum
  <2> QED BY <1>4, <2>1 DEF MaximumInv
<1> QED BY <1>1, <1>2, <1>3, <1>4

\* Values up to a maximum are drawn fairly, for every maximum of 8, 16, 32 and
\* 64 bits: the mask is all the bits up to the highest one of the maximum, the
\* bytes drawn hold all of them and fit the type, and what is returned is not
\* above the maximum (futils_randomrN_maximum, p2minus1, ilog2plus1).
THEOREM DrawsAreFair == CallsSpec => []DrawIsFair
<1>1. CallsInit => MaximumInv
  BY DEF CallsInit, MaximumInv
<1>2. MaximumInv /\ [CallsNext]_callsVars => MaximumInv'
  BY MaximumInvNext
<1>3. MaximumInv => DrawIsFair
  BY DrawCovers DEF MaximumInv, DrawIsFair
<1> QED BY <1>1, <1>2, <1>3, PTL DEF CallsSpec

-----------------------------------------------------------------------------
(* Strings.                                                                *)

\* Random bits of a character, characters of a blob, bytes that it stands for.
Width(fn) == CASE fn = "base16" -> 4 [] fn = "base32" -> 5 [] fn = "base64" -> 6
PerBlob(fn) == CASE fn = "string" -> 1 [] fn = "base16" -> 16 [] fn = "base32" -> 8 [] fn = "base64" -> 4
BlobBytes(fn) == CASE fn = "base32" -> 5 [] fn = "base64" -> 3

Least(x, y) == IF x <= y THEN x ELSE y

\* Random bits of the first i characters and of the i-th: all of them have their
\* full width but the last one before the padding.
BitsUpTo(t, i) == Least(Width(t.fn) * i, 8 * t.count)
BitsOf(t, i) == BitsUpTo(t, i) - BitsUpTo(t, i - 1)

\* By how much the word is shifted for each character: 3 in a last base64 blob.
StepOf(t, i) ==
  IF t.fn = "base64" /\ 3 * ((i - 1) \div 4) + 3 > t.count THEN 3 ELSE Width(t.fn)

LowOf(t, i) == ((i - 1) % PerBlob(t.fn)) * StepOf(t, i) + Width(t.fn) - BitsOf(t, i)

\* The i-th character of a string that is not cut.
CharIs(t, i) ==
  IF t.fn = "string" THEN [draw |-> i - 1, bits |-> {"index"}]
  ELSE IF BitsOf(t, i) = 0 THEN Pad
  ELSE [draw |-> (i - 1) \div PerBlob(t.fn),
        bits |-> LowOf(t, i) .. LowOf(t, i) + BitsOf(t, i) - 1]

\* The length that is returned, and the part of it that fits the buffer.
Full(t) == IF NoAlphabet(t) THEN 0 ELSE FullLength(t.fn, t.count)
Fits(t) == IF Full(t) < t.len THEN Full(t) ELSE t.len - 1

Characters == [draw : Int, bits : SUBSET (Int \cup {"index"})]

TextType(t, l) ==
  /\ t \in [fn : TextFns, len : Nat, count : Nat, alphalen : Nat]
  /\ l \in [text : Seq(Characters), ps : Int, c : Int, draws : Nat, result : Int]

\* Half way: whole blobs were written, and what they stand for is taken off c.
TextRunning(t, l) ==
  /\ t.len > 0 /\ ~NoAlphabet(t)
  /\ l.ps >= 0 /\ Len(l.text) + l.ps = Fits(t)
  /\ l.ps > 0 => Len(l.text) = PerBlob(t.fn) * l.draws
  /\ t.fn \in {"base32", "base64"} =>
       l.c = IF BlobBytes(t.fn) * l.draws <= t.count THEN t.count - BlobBytes(t.fn) * l.draws ELSE 0
  /\ \A i \in 1 .. Len(l.text) : l.text[i] = CharIs(t, i)

TextDone(t, l) ==
  IF t.len = 0 THEN l.text = <<>>
  ELSE /\ Len(l.text) = Fits(t) + 1 /\ l.text[Fits(t) + 1] = Nul
       /\ \A i \in 1 .. Fits(t) : l.text[i] = CharIs(t, i)

TextState(t, l, r) ==
  /\ TextType(t, l)
  /\ r \in {"EINVAL", "running", "ok"}
  /\ r = "EINVAL" <=> FullLength(t.fn, t.count) > IntMax
  /\ r = "EINVAL" => l.text = <<>>
  /\ r # "EINVAL" => l.result = Full(t)
  /\ r = "running" => TextRunning(t, l)
  /\ r = "ok" => TextDone(t, l)

TextInv == job.fn \in TextFns => TextState(job, loc, ended)

LEMMA DivMod ==
  ASSUME NEW n \in Int, NEW m \in Nat, m # 0
  PROVE  /\ n \div m \in Int /\ n % m \in 0 .. m - 1
         /\ n = (n \div m) * m + (n % m)
OBVIOUS

LEMMA WrapSmall ==
  ASSUME NEW n \in 0 .. SizeMax
  PROVE  Wrap(n) = n
<1>1. PICK m \in Nat : m = SizeMax + 1 /\ n < m
  BY LimitsAssumption
<1>2. n \div m \in Int /\ n % m \in 0 .. m - 1 /\ n = (n \div m) * m + (n % m)
  BY <1>1, n \in Int, m # 0, DivMod
<1>3. ASSUME NEW q \in Int, NEW r \in 0 .. m - 1, n = q * m + r
      PROVE  r = n
  <2>1. ASSUME q >= 1
        PROVE  FALSE
    <3>1. q * m >= m
      BY <1>1, <2>1
    <3> QED BY <1>1, <1>3, <3>1
  <2>2. ASSUME q <= -1
        PROVE  FALSE
    <3>1. q * m <= -m
      BY <1>1, <2>2
    <3> QED BY <1>1, <1>3, <3>1
  <2>3. q = 0
    BY <2>1, <2>2
  <2> QED BY <1>1, <1>3, <2>3
<1>4. n % m = n
  BY <1>2, <1>3
<1> QED BY <1>1, <1>4 DEF Wrap

\* The tests of the lengths see through the overflow of size_t.
LEMMA LengthIs ==
  ASSUME NEW fn \in TextFns, NEW count \in 0 .. SizeMax
  PROVE  /\ TooLong(fn, count) <=> FullLength(fn, count) > IntMax
         /\ ~TooLong(fn, count) => Total(fn, count) = FullLength(fn, count)
         /\ FullLength(fn, count) \in Nat
<1>0. count \in Nat /\ count <= SizeMax /\ IntMax \in Nat /\ SizeMax \in Nat /\ SizeMax > IntMax + 8
  BY LimitsAssumption
<1>1. CASE fn = "string"
  <2>1. Total(fn, count) = count /\ FullLength(fn, count) = count
    BY <1>1 DEF Total, FullLength
  <2> QED BY <1>0, <1>1, <2>1 DEF TooLong
<1>2. CASE fn = "base16"
  <2>1. Total(fn, count) = Wrap(count * 2) /\ FullLength(fn, count) = 2 * count
    BY <1>2 DEF Total, FullLength
  <2>2. TooLong(fn, count) <=> count > (IntMax + 1) \div 2 \/ Wrap(count * 2) > IntMax
    BY <1>2, <2>1 DEF TooLong
  <2>3. CASE count > (IntMax + 1) \div 2
    BY <1>0, <2>1, <2>2, <2>3
  <2>4. CASE count <= (IntMax + 1) \div 2
    <3>1. count * 2 \in 0 .. SizeMax
      BY <1>0, <2>4
    <3>2. Wrap(count * 2) = count * 2
      BY <3>1, WrapSmall
    <3>3. ~(count > (IntMax + 1) \div 2) /\ count * 2 = 2 * count
      BY <1>0, <2>4
    <3> QED BY <1>0, <2>1, <2>2, <3>2, <3>3
  <2> QED BY <1>0, <2>3, <2>4
<1>3. CASE fn = "base32"
  <2> DEFINE q == (count + 4) \div 5
  <2>1. /\ Total(fn, count) = Wrap((Wrap(count + 4) \div 5) * 8)
        /\ FullLength(fn, count) = 8 * q
    BY <1>3 DEF Total, FullLength
  <2>2. TooLong(fn, count) <=> \/ count > SizeMax - 4
                               \/ q > (IntMax + 7) \div 8
                               \/ Total(fn, count) > IntMax
    BY <1>3 DEF TooLong
  <2>3. q \in Nat /\ 5 * q >= count /\ 5 * q <= count + 4
    BY <1>0
  <2> HIDE DEF q
  <2>4. CASE count > SizeMax - 4
    BY <1>0, <2>1, <2>2, <2>3, <2>4
  <2>5. CASE count <= SizeMax - 4 /\ q > (IntMax + 7) \div 8
    BY <1>0, <2>1, <2>2, <2>3, <2>5
  <2>6. CASE count <= SizeMax - 4 /\ q <= (IntMax + 7) \div 8
    <3>1. Wrap(count + 4) = count + 4
      BY <1>0, <2>6, count + 4 \in 0 .. SizeMax, WrapSmall
    <3>2. q * 8 \in 0 .. SizeMax
      BY <1>0, <2>3, <2>6
    <3>3. Total(fn, count) = q * 8
      BY <2>1, <3>1, <3>2, WrapSmall DEF q
    <3>4. ~(count > SizeMax - 4) /\ ~(q > (IntMax + 7) \div 8) /\ q * 8 = 8 * q
      BY <1>0, <2>3, <2>6
    <3> QED BY <1>0, <2>1, <2>2, <2>3, <3>3, <3>4
  <2> QED BY <1>0, <2>3, <2>4, <2>5, <2>6
<1>4. CASE fn = "base64"
  <2> DEFINE q == (count + 2) \div 3
  <2>1. /\ Total(fn, count) = Wrap((Wrap(count + 2) \div 3) * 4)
        /\ FullLength(fn, count) = 4 * q
    BY <1>4 DEF Total, FullLength
  <2>2. TooLong(fn, count) <=> \/ count > SizeMax - 2
                               \/ q > (IntMax + 3) \div 4
                               \/ Total(fn, count) > IntMax
    BY <1>4 DEF TooLong
  <2>3. q \in Nat /\ 3 * q >= count /\ 3 * q <= count + 2
    BY <1>0
  <2> HIDE DEF q
  <2>4. CASE count > SizeMax - 2
    BY <1>0, <2>1, <2>2, <2>3, <2>4
  <2>5. CASE count <= SizeMax - 2 /\ q > (IntMax + 3) \div 4
    BY <1>0, <2>1, <2>2, <2>3, <2>5
  <2>6. CASE count <= SizeMax - 2 /\ q <= (IntMax + 3) \div 4
    <3>1. Wrap(count + 2) = count + 2
      BY <1>0, <2>6, count + 2 \in 0 .. SizeMax, WrapSmall
    <3>2. q * 4 \in 0 .. SizeMax
      BY <1>0, <2>3, <2>6
    <3>3. Total(fn, count) = q * 4
      BY <2>1, <3>1, <3>2, WrapSmall DEF q
    <3>4. ~(count > SizeMax - 2) /\ ~(q > (IntMax + 3) \div 4) /\ q * 4 = 4 * q
      BY <1>0, <2>3, <2>6
    <3> QED BY <1>0, <2>1, <2>2, <2>3, <3>3, <3>4
  <2> QED BY <1>0, <2>3, <2>4, <2>5, <2>6
<1> QED BY <1>1, <1>2, <1>3, <1>4 DEF TextFns

\* The bits of a character of a whole blob.
LEMMA Char16 ==
  ASSUME NEW t, t.fn = "base16", t.count \in Nat, NEW d \in Nat, NEW k \in 1 .. 16,
         16 * d + k <= 2 * t.count
  PROVE  CharIs(t, 16 * d + k) = [draw |-> d, bits |-> (k - 1) * 4 .. (k - 1) * 4 + 3]
<1> PICK i \in Nat, count \in Nat : i = 16 * d + k /\ count = t.count
  OBVIOUS
<1>1. (i - 1) \div 16 = d /\ (i - 1) % 16 = k - 1
  OBVIOUS
<1>2. Width(t.fn) = 4 /\ PerBlob(t.fn) = 16 /\ StepOf(t, i) = 4
  BY DEF Width, PerBlob, StepOf
<1>3. BitsUpTo(t, i) = 4 * i /\ BitsUpTo(t, i - 1) = 4 * (i - 1)
  BY <1>2 DEF BitsUpTo, Least
<1>4. BitsOf(t, i) = 4
  BY <1>3 DEF BitsOf
<1>5. LowOf(t, i) = (k - 1) * 4
  BY <1>1, <1>2, <1>4 DEF LowOf
<1>6. (k - 1) * 4 + 4 - 1 = (k - 1) * 4 + 3
  OBVIOUS
<1> QED BY <1>1, <1>2, <1>4, <1>5, <1>6 DEF CharIs

\* The random bits that remain for the k-th character of a blob if `left` bytes
\* are left, and the character: the highest u of the w bits from `off`.
Used(w, k, left) == Least(w * k, 8 * left) - Least(w * (k - 1), 8 * left)
CutChar(d, off, w, u) ==
  IF u = 0 THEN Pad ELSE [draw |-> d, bits |-> off + w - u .. off + w - 1]

LEMMA Char32 ==
  ASSUME NEW t, t.fn = "base32", t.count \in Nat, NEW d \in Nat, NEW k \in 1 .. 8
  PROVE  CharIs(t, 8 * d + k) = CutChar(d, (k - 1) * 5, 5, Used(5, k, t.count - 5 * d))
<1> PICK i \in Nat : i = 8 * d + k
  OBVIOUS
<1> PICK count \in Nat : count = t.count
  OBVIOUS
<1> PICK u \in Int : u = Used(5, k, t.count - 5 * d)
  BY DEF Used, Least
<1>1. (i - 1) \div 8 = d /\ (i - 1) % 8 = k - 1
  OBVIOUS
<1>2. Width(t.fn) = 5 /\ PerBlob(t.fn) = 8 /\ StepOf(t, i) = 5
  BY DEF Width, PerBlob, StepOf
<1>3. BitsOf(t, i) = u
  BY <1>2 DEF BitsUpTo, BitsOf, Least, Used
<1>4. LowOf(t, i) = (k - 1) * 5 + 5 - u
  BY <1>1, <1>2, <1>3 DEF LowOf
<1>5. ((k - 1) * 5 + 5 - u) + u - 1 = (k - 1) * 5 + 5 - 1
  OBVIOUS
<1> QED BY <1>1, <1>2, <1>3, <1>4, <1>5 DEF CharIs, CutChar

LEMMA Char64 ==
  ASSUME NEW t, t.fn = "base64", t.count \in Nat, NEW d \in Nat, NEW k \in 1 .. 4,
         NEW s \in {3, 6}, s = 3 <=> 3 * d + 3 > t.count
  PROVE  CharIs(t, 4 * d + k) = CutChar(d, (k - 1) * s, 6, Used(6, k, t.count - 3 * d))
<1> PICK i \in Nat, count \in Nat : i = 4 * d + k /\ count = t.count
  OBVIOUS
<1> PICK u \in Int : u = Used(6, k, t.count - 3 * d)
  BY DEF Used, Least
<1>1. (i - 1) \div 4 = d /\ (i - 1) % 4 = k - 1
  OBVIOUS
<1>2. Width(t.fn) = 6 /\ PerBlob(t.fn) = 4 /\ StepOf(t, i) = s
  BY <1>1 DEF Width, PerBlob, StepOf
<1>3. BitsOf(t, i) = u
  BY <1>2 DEF BitsUpTo, BitsOf, Least, Used
<1>4. LowOf(t, i) = (k - 1) * s + 6 - u
  BY <1>1, <1>2, <1>3 DEF LowOf
<1>5. ((k - 1) * s + 6 - u) + u - 1 = (k - 1) * s + 6 - 1
  <2>1. (k - 1) * s \in Int
    OBVIOUS
  <2> QED BY <2>1
<1> QED BY <1>1, <1>2, <1>3, <1>4, <1>5 DEF CharIs, CutChar

LEMMA SeqOf ==
  ASSUME NEW S, NEW n \in Nat, NEW f \in [1 .. n -> S]
  PROVE  f \in Seq(S) /\ Len(f) = n
OBVIOUS

\* q is x followed by y.
Joined(S, x, y, q) ==
  /\ q \in Seq(S) /\ Len(q) = Len(x) + Len(y)
  /\ \A k \in 1 .. Len(x) : q[k] = x[k]
  /\ \A k \in 1 .. Len(y) : q[Len(x) + k] = y[k]

LEMMA ConcatIs ==
  ASSUME NEW S, NEW x \in Seq(S), NEW y \in Seq(S)
  PROVE  Joined(S, x, y, x \o y)
BY DEF Joined

\* One element between two sequences.
Parts(S, x, y, z, q) ==
  /\ q \in Seq(S) /\ Len(q) = Len(x) + 1 + Len(z)
  /\ \A k \in 1 .. Len(x) : q[k] = x[k]
  /\ q[Len(x) + 1] = y
  /\ \A k \in 1 .. Len(z) : q[Len(x) + 1 + k] = z[k]

LEMMA ThreeParts ==
  ASSUME NEW S, NEW x \in Seq(S), NEW y \in S, NEW z \in Seq(S)
  PROVE  Parts(S, x, y, z, x \o <<y>> \o z)
<1> PICK a \in Nat, m \in Nat : a = Len(x) /\ m = Len(z)
  OBVIOUS
<1>1. PICK xy : xy = x \o <<y>>
  OBVIOUS
<1>2. <<y>> \in Seq(S) /\ Len(<<y>>) = 1 /\ <<y>>[1] = y
  OBVIOUS
<1>3. /\ xy \in Seq(S) /\ Len(xy) = a + 1 /\ \A k \in 1 .. a : xy[k] = x[k]
      /\ \A k \in 1 .. Len(<<y>>) : xy[a + k] = <<y>>[k]
  <2>1. Joined(S, x, <<y>>, xy)
    BY <1>1, <1>2, ConcatIs
  <2> QED BY <1>2, <2>1 DEF Joined
<1>4. xy[a + 1] = y
  BY <1>2, <1>3
<1>5. PICK q : q = xy \o z
  OBVIOUS
<1>6. /\ q \in Seq(S) /\ Len(q) = a + 1 + m /\ \A k \in 1 .. a + 1 : q[k] = xy[k]
      /\ \A k \in 1 .. m : q[a + 1 + k] = z[k]
  <2>1. xy \in Seq(S) /\ Len(xy) = a + 1
    BY <1>3
  <2>2. Joined(S, xy, z, q)
    BY <1>5, <2>1, ConcatIs
  <2> QED BY <2>1, <2>2 DEF Joined
<1>7. \A k \in 1 .. a : k \in 1 .. a + 1
  OBVIOUS
<1>8. Parts(S, x, y, z, q)
  BY <1>3, <1>4, <1>6, <1>7 DEF Parts
<1> QED BY <1>1, <1>5, <1>8

LEMMA CharIsOne ==
  ASSUME loc.draws \in Nat, NEW b \in SUBSET (Int \cup {"index"})
  PROVE  Char(b) \in Characters /\ Char(b) = [draw |-> loc.draws, bits |-> b]
BY DEF Char, Characters

\* The characters of a whole blob.
Row(q, d, n, w, step) ==
  /\ q \in Seq(Characters) /\ Len(q) = n
  /\ \A k \in 1 .. n : q[k] = [draw |-> d, bits |-> (k - 1) * step .. (k - 1) * step + w - 1]

LEMMA CharsAre ==
  ASSUME loc.draws \in Nat, NEW n \in Nat, NEW w \in Nat, NEW step \in Nat
  PROVE  Row(Chars(n, w, step), loc.draws, n, w, step)
<1> DEFINE x == Chars(n, w, step)
<1>1. ASSUME NEW k \in 1 .. n
      PROVE  (k - 1) * step .. (k - 1) * step + w - 1 \in SUBSET (Int \cup {"index"})
  OBVIOUS
<1>2. x = [k \in 1 .. n |-> Char((k - 1) * step .. (k - 1) * step + w - 1)]
  BY DEF Chars
<1> HIDE DEF x
<1>3. \A k \in 1 .. n : /\ x[k] \in Characters
                        /\ x[k] = [draw |-> loc.draws, bits |-> (k - 1) * step .. (k - 1) * step + w - 1]
  BY <1>1, <1>2, CharIsOne
<1>4. x \in [1 .. n -> Characters]
  BY <1>2, <1>3
<1>5. x \in Seq(Characters) /\ Len(x) = n
  BY <1>4, SeqOf
<1>6. Row(x, loc.draws, n, w, step)
  BY <1>3, <1>5 DEF Row
<1> QED BY <1>6 DEF x

\* The characters of a last blob: whole ones, one that is cut, padding.
CutRow(q, d, n, w, step, whole, rem) ==
  /\ q \in Seq(Characters) /\ Len(q) = n
  /\ \A k \in 1 .. whole : q[k] = [draw |-> d, bits |-> (k - 1) * step .. (k - 1) * step + w - 1]
  /\ q[whole + 1] = [draw |-> d, bits |-> whole * step + w - rem .. whole * step + w - 1]
  /\ \A k \in 1 .. n - whole - 1 : q[whole + 1 + k] = Pad

LEMMA LastBlobIs ==
  ASSUME loc.draws \in Nat, loc.c \in Nat, NEW n \in Nat, NEW w \in Nat, NEW step \in Nat,
         NEW whole \in Nat, whole = (loc.c * 8) \div w, whole < n,
         NEW rem \in Nat, rem = loc.c * 8 - whole * w
  PROVE  CutRow(LastBlob(n, w, step), loc.draws, n, w, step, whole, rem)
<1> DEFINE x == Chars(whole, w, step)
           y == Char(whole * step + w - rem .. whole * step + w - 1)
           z == [i \in 1 .. n - whole - 1 |-> Pad]
<1>1. LastBlob(n, w, step) = x \o <<y>> \o z
  BY DEF LastBlob
<1>3. /\ x \in Seq(Characters) /\ Len(x) = whole
      /\ \A k \in 1 .. whole : x[k] = [draw |-> loc.draws, bits |-> (k - 1) * step .. (k - 1) * step + w - 1]
  <2>1. Row(x, loc.draws, whole, w, step)
    BY CharsAre
  <2> QED BY <2>1 DEF Row
<1>4. /\ y \in Characters
      /\ y = [draw |-> loc.draws, bits |-> whole * step + w - rem .. whole * step + w - 1]
  <2>1. whole * step + w - rem .. whole * step + w - 1 \in SUBSET (Int \cup {"index"})
    OBVIOUS
  <2> QED BY <2>1, CharIsOne
<1>5. Pad \in Characters
  BY DEF Pad, Characters
<1>6. PICK m \in Nat : m = n - whole - 1
  OBVIOUS
<1>7. z \in Seq(Characters) /\ Len(z) = m /\ \A k \in 1 .. m : z[k] = Pad
  <2>1. z = [k \in 1 .. m |-> Pad]
    BY <1>6
  <2> HIDE DEF z
  <2>2. z \in [1 .. m -> Characters]
    BY <1>5, <2>1
  <2> QED BY <2>1, <2>2, SeqOf
<1> HIDE DEF x, y, z
<1>8. PICK q : q = x \o <<y>> \o z
  OBVIOUS
<1>9. /\ q \in Seq(Characters) /\ Len(q) = whole + 1 + m
      /\ \A k \in 1 .. whole : q[k] = x[k]
      /\ q[whole + 1] = y
      /\ \A k \in 1 .. m : q[whole + 1 + k] = z[k]
  <2>1. Parts(Characters, x, y, z, q)
    BY <1>3, <1>4, <1>7, <1>8, ThreeParts
  <2>2. Len(x) = whole /\ Len(z) = m
    BY <1>3, <1>7
  <2> QED BY <2>1, <2>2 DEF Parts
<1>10. whole + 1 + m = n
  BY <1>6
<1>11. LastBlob(n, w, step) = q
  BY <1>1, <1>8
<1>12. CutRow(q, loc.draws, n, w, step, whole, rem)
  BY <1>3, <1>4, <1>6, <1>7, <1>9, <1>10 DEF CutRow
<1> QED BY <1>11, <1>12

\* q holds the characters of draw d of a string, as far as the string goes.
GoodBlob(t, d, q) ==
  /\ q \in Seq(Characters) /\ Len(q) = PerBlob(t.fn)
  /\ \A k \in 1 .. PerBlob(t.fn) :
       PerBlob(t.fn) * d + k <= FullLength(t.fn, t.count) => q[k] = CharIs(t, PerBlob(t.fn) * d + k)

LEMMA BlobString ==
  ASSUME loc.draws \in Nat, NEW t, t.fn = "string"
  PROVE  GoodBlob(t, loc.draws, <<Char({"index"})>>)
<1>1. PICK d \in Nat : d = loc.draws
  OBVIOUS
<1>2. PICK x \in Characters : x = Char({"index"}) /\ x = [draw |-> d, bits |-> {"index"}]
  BY <1>1, CharIsOne
<1>3. PerBlob(t.fn) = 1
  BY DEF PerBlob
<1>4. CharIs(t, 1 * d + 1) = x
  <2>1. CharIs(t, 1 * d + 1) = [draw |-> (1 * d + 1) - 1, bits |-> {"index"}]
    BY DEF CharIs
  <2>2. (1 * d + 1) - 1 = d
    BY <1>1
  <2> QED BY <1>2, <2>1, <2>2
<1>5. <<x>> \in Seq(Characters) /\ Len(<<x>>) = 1 /\ <<x>>[1] = x
  BY <1>2
<1>6. GoodBlob(t, d, <<x>>)
  BY <1>3, <1>4, <1>5 DEF GoodBlob
<1> QED BY <1>1, <1>2, <1>6

LEMMA Blob16 ==
  ASSUME loc.draws \in Nat, NEW t, t.fn = "base16", t.count \in Nat
  PROVE  GoodBlob(t, loc.draws, Chars(16, 4, 4))
<1>1. PICK d \in Nat, q \in {Chars(16, 4, 4)} : d = loc.draws
  OBVIOUS
<1>2. Row(q, d, 16, 4, 4)
  BY <1>1, CharsAre
<1>3. PerBlob(t.fn) = 16 /\ FullLength(t.fn, t.count) = 2 * t.count
  BY DEF PerBlob, FullLength
<1>4. ASSUME NEW k \in 1 .. 16, 16 * d + k <= 2 * t.count
      PROVE  q[k] = CharIs(t, 16 * d + k)
  <2>1. q[k] = [draw |-> d, bits |-> (k - 1) * 4 .. (k - 1) * 4 + 4 - 1]
    BY <1>2 DEF Row
  <2>2. (k - 1) * 4 + 4 - 1 = (k - 1) * 4 + 3
    OBVIOUS
  <2>3. CharIs(t, 16 * d + k) = [draw |-> d, bits |-> (k - 1) * 4 .. (k - 1) * 4 + 3]
    BY <1>1, <1>4, Char16
  <2> QED BY <2>1, <2>2, <2>3
<1>5. GoodBlob(t, d, q)
  BY <1>2, <1>3, <1>4 DEF GoodBlob, Row
<1> QED BY <1>1, <1>5

\* Enough bytes are left for a whole blob.
LEMMA Blob32 ==
  ASSUME loc.draws \in Nat, NEW t, t.fn = "base32", t.count \in Nat, 5 * loc.draws + 5 <= t.count
  PROVE  GoodBlob(t, loc.draws, Chars(8, 5, 5))
<1>1. PICK d \in Nat, q \in {Chars(8, 5, 5)} : d = loc.draws
  OBVIOUS
<1>2. Row(q, d, 8, 5, 5)
  BY <1>1, CharsAre
<1>3. PerBlob(t.fn) = 8
  BY DEF PerBlob
<1>4. ASSUME NEW k \in 1 .. 8
      PROVE  q[k] = CharIs(t, 8 * d + k)
  <2>1. q[k] = [draw |-> d, bits |-> (k - 1) * 5 .. (k - 1) * 5 + 5 - 1]
    BY <1>2 DEF Row
  <2>2. Used(5, k, t.count - 5 * d) = 5
    BY <1>1 DEF Used, Least
  <2>3. CharIs(t, 8 * d + k) = CutChar(d, (k - 1) * 5, 5, 5)
    BY <1>1, <2>2, Char32
  <2> QED BY <2>1, <2>3 DEF CutChar
<1>5. GoodBlob(t, d, q)
  BY <1>2, <1>3, <1>4 DEF GoodBlob, Row
<1> QED BY <1>1, <1>5

LEMMA Blob64 ==
  ASSUME loc.draws \in Nat, NEW t, t.fn = "base64", t.count \in Nat, 3 * loc.draws + 3 <= t.count
  PROVE  GoodBlob(t, loc.draws, Chars(4, 6, 6))
<1>1. PICK d \in Nat, q \in {Chars(4, 6, 6)} : d = loc.draws
  OBVIOUS
<1>2. Row(q, d, 4, 6, 6)
  BY <1>1, CharsAre
<1>3. PerBlob(t.fn) = 4
  BY DEF PerBlob
<1>4. ASSUME NEW k \in 1 .. 4
      PROVE  q[k] = CharIs(t, 4 * d + k)
  <2>1. q[k] = [draw |-> d, bits |-> (k - 1) * 6 .. (k - 1) * 6 + 6 - 1]
    BY <1>2 DEF Row
  <2>2. Used(6, k, t.count - 3 * d) = 6
    BY <1>1 DEF Used, Least
  <2>3. PICK s \in {3, 6} : s = 6
    OBVIOUS
  <2>4. s = 3 <=> 3 * d + 3 > t.count
    BY <1>1, <2>3
  <2>5. CharIs(t, 4 * d + k) = CutChar(d, (k - 1) * s, 6, Used(6, k, t.count - 3 * d))
    BY <1>1, <2>4, Char64
  <2> QED BY <2>1, <2>2, <2>3, <2>5 DEF CutChar
<1>5. GoodBlob(t, d, q)
  BY <1>2, <1>3, <1>4 DEF GoodBlob, Row
<1> QED BY <1>1, <1>5

LEMMA LastBlob32 ==
  ASSUME loc.draws \in Nat, NEW t, t.fn = "base32", t.count \in Nat,
         loc.c \in 1 .. 4, loc.c = t.count - 5 * loc.draws
  PROVE  GoodBlob(t, loc.draws, LastBlob(8, 5, 5))
<1>1. PICK d \in Nat, c \in 1 .. 4, q \in {LastBlob(8, 5, 5)} : d = loc.draws /\ c = loc.c
  OBVIOUS
<1>2. PICK whole \in Nat, rem \in Nat : /\ whole = (c * 8) \div 5 /\ rem = c * 8 - whole * 5
                                       /\ whole < 8 - 1 /\ rem > 0 /\ rem < 5
  BY <1>1
<1>3. CutRow(q, d, 8, 5, 5, whole, rem)
  <2>1. /\ loc.c \in Nat /\ whole = (loc.c * 8) \div 5 /\ rem = loc.c * 8 - whole * 5
        /\ whole < 8 /\ whole \in Nat /\ rem \in Nat
    BY <1>1, <1>2
  <2>2. CutRow(LastBlob(8, 5, 5), loc.draws, 8, 5, 5, whole, rem)
    BY <2>1, LastBlobIs
  <2> QED BY <1>1, <2>2
<1>4. PerBlob(t.fn) = 8
  BY DEF PerBlob
<1>5. ASSUME NEW k \in 1 .. 8
      PROVE  q[k] = CharIs(t, 8 * d + k)
  <2>1. c = t.count - 5 * d
    BY <1>1
  <2>4. CharIs(t, 8 * d + k) = CutChar(d, (k - 1) * 5, 5, Used(5, k, c))
    BY <1>1, <2>1, Char32
  <2>5. CASE k <= whole
    <3>1. Used(5, k, c) = 5
      BY <1>1, <1>2, <2>5 DEF Used, Least
    <3>2. q[k] = [draw |-> d, bits |-> (k - 1) * 5 .. (k - 1) * 5 + 5 - 1]
      BY <1>2, <1>3, <2>5, k \in 1 .. whole DEF CutRow
    <3>3. (k - 1) * 5 + 5 - 5 = (k - 1) * 5
      OBVIOUS
    <3> QED BY <2>4, <3>1, <3>2, <3>3 DEF CutChar
  <2>6. CASE k = whole + 1
    <3>1. Used(5, k, c) = rem
      BY <1>1, <1>2, <2>6 DEF Used, Least
    <3>2. q[k] = [draw |-> d, bits |-> whole * 5 + 5 - rem .. whole * 5 + 5 - 1]
      BY <1>3, <2>6 DEF CutRow
    <3>3. (k - 1) * 5 = whole * 5 /\ rem # 0
      BY <1>2, <2>6
    <3>4. CutChar(d, whole * 5, 5, rem) = q[k]
      BY <3>2, <3>3 DEF CutChar
    <3> QED BY <2>4, <3>1, <3>3, <3>4
  <2>7. CASE k > whole + 1
    <3>1. Used(5, k, c) = 0
      BY <1>1, <1>2, <2>7 DEF Used, Least
    <3>2. PICK i \in 1 .. 8 - whole - 1 : k = whole + 1 + i
      BY <1>2, <2>7, k - whole - 1 \in 1 .. 8 - whole - 1, k = whole + 1 + (k - whole - 1)
    <3>3. q[k] = Pad
      BY <1>3, <3>2 DEF CutRow
    <3> QED BY <2>4, <3>1, <3>3 DEF CutChar
  <2> QED BY <1>2, <2>5, <2>6, <2>7
<1>6. GoodBlob(t, d, q)
  BY <1>3, <1>4, <1>5 DEF GoodBlob, CutRow
<1> QED BY <1>1, <1>6

LEMMA LastBlob64 ==
  ASSUME loc.draws \in Nat, NEW t, t.fn = "base64", t.count \in Nat,
         loc.c \in 1 .. 2, loc.c = t.count - 3 * loc.draws
  PROVE  GoodBlob(t, loc.draws, LastBlob(4, 6, 3))
<1>1. PICK d \in Nat, c \in 1 .. 2, q \in {LastBlob(4, 6, 3)} : d = loc.draws /\ c = loc.c
  OBVIOUS
<1>2. PICK whole \in Nat, rem \in Nat : /\ whole = (c * 8) \div 6 /\ rem = c * 8 - whole * 6
                                       /\ whole < 4 - 1 /\ rem > 0 /\ rem < 6
  BY <1>1
<1>3. CutRow(q, d, 4, 6, 3, whole, rem)
  <2>1. /\ loc.c \in Nat /\ whole = (loc.c * 8) \div 6 /\ rem = loc.c * 8 - whole * 6
        /\ whole < 4 /\ whole \in Nat /\ rem \in Nat
    BY <1>1, <1>2
  <2>2. CutRow(LastBlob(4, 6, 3), loc.draws, 4, 6, 3, whole, rem)
    BY <2>1, LastBlobIs
  <2> QED BY <1>1, <2>2
<1>4. PerBlob(t.fn) = 4
  BY DEF PerBlob
<1>5. ASSUME NEW k \in 1 .. 4
      PROVE  q[k] = CharIs(t, 4 * d + k)
  <2>1. c = t.count - 3 * d
    BY <1>1
  <2>2. PICK s \in {3, 6} : s = 3
    OBVIOUS
  <2>3. s = 3 <=> 3 * d + 3 > t.count
    BY <1>1, <2>1, <2>2
  <2>4. CharIs(t, 4 * d + k) = CutChar(d, (k - 1) * 3, 6, Used(6, k, c))
    BY <1>1, <2>1, <2>2, <2>3, Char64
  <2>5. CASE k <= whole
    <3>1. Used(6, k, c) = 6
      BY <1>1, <1>2, <2>5 DEF Used, Least
    <3>2. q[k] = [draw |-> d, bits |-> (k - 1) * 3 .. (k - 1) * 3 + 6 - 1]
      BY <1>2, <1>3, <2>5, k \in 1 .. whole DEF CutRow
    <3>3. (k - 1) * 3 + 6 - 6 = (k - 1) * 3
      OBVIOUS
    <3> QED BY <2>4, <3>1, <3>2, <3>3 DEF CutChar
  <2>6. CASE k = whole + 1
    <3>1. Used(6, k, c) = rem
      BY <1>1, <1>2, <2>6 DEF Used, Least
    <3>2. q[k] = [draw |-> d, bits |-> whole * 3 + 6 - rem .. whole * 3 + 6 - 1]
      BY <1>3, <2>6 DEF CutRow
    <3>3. (k - 1) * 3 = whole * 3 /\ rem # 0
      BY <1>2, <2>6
    <3>4. CutChar(d, whole * 3, 6, rem) = q[k]
      BY <3>2, <3>3 DEF CutChar
    <3> QED BY <2>4, <3>1, <3>3, <3>4
  <2>7. CASE k > whole + 1
    <3>1. Used(6, k, c) = 0
      BY <1>1, <1>2, <2>7 DEF Used, Least
    <3>2. PICK i \in 1 .. 4 - whole - 1 : k = whole + 1 + i
      BY <1>2, <2>7, k - whole - 1 \in 1 .. 4 - whole - 1, k = whole + 1 + (k - whole - 1)
    <3>3. q[k] = Pad
      BY <1>3, <3>2 DEF CutRow
    <3> QED BY <2>4, <3>1, <3>3 DEF CutChar
  <2> QED BY <1>2, <2>5, <2>6, <2>7
<1>6. GoodBlob(t, d, q)
  BY <1>3, <1>4, <1>5 DEF GoodBlob, CutRow
<1> QED BY <1>1, <1>6

LEMMA FullIsNat ==
  ASSUME NEW t, t.fn \in TextFns, t.count \in Nat
  PROVE  Full(t) \in Nat /\ FullLength(t.fn, t.count) \in Nat
BY DEF Full, FullLength, TextFns

LEMMA PerBlobIs ==
  ASSUME NEW fn \in TextFns, NEW d \in Nat
  PROVE  /\ PerBlob(fn) \in Nat \ {0} /\ PerBlob(fn) * d \in Nat
         /\ PerBlob(fn) * (d + 1) = PerBlob(fn) * d + PerBlob(fn)
<1>1. PerBlob(fn) = 1 \/ PerBlob(fn) = 4 \/ PerBlob(fn) = 8 \/ PerBlob(fn) = 16
  BY DEF PerBlob, TextFns
<1> QED BY <1>1

LEMMA SubSeqIs ==
  ASSUME NEW S, NEW q \in Seq(S), NEW b \in 0 .. Len(q)
  PROVE  /\ SubSeq(q, 1, b) \in Seq(S) /\ Len(SubSeq(q, 1, b)) = b
         /\ \A k \in 1 .. b : SubSeq(q, 1, b)[k] = q[k]
OBVIOUS

\* c bytes are left after d draws.
LeftIs(t, c, d) ==
  t.fn \in {"base32", "base64"} =>
    c = IF BlobBytes(t.fn) * d <= t.count THEN t.count - BlobBytes(t.fn) * d ELSE 0

\* The locals after a copy of bs characters of q.
Room(q, ps) == IF Len(q) > ps THEN ps ELSE Len(q)
Copied(l, q, bs, c) ==
  [l EXCEPT !.text = l.text \o SubSeq(q, 1, bs), !.ps = l.ps - bs, !.c = c, !.draws = l.draws + 1]

\* The characters copied are those of the blob that the buffer has room for.
LEMMA CopyKeeps ==
  ASSUME NEW t, NEW l, TextType(t, l), TextRunning(t, l), l.ps > 0,
         NEW q, GoodBlob(t, l.draws, q), NEW c \in Int, LeftIs(t, c, l.draws + 1),
         NEW bs, bs = Room(q, l.ps),
         NEW m, m = Copied(l, q, bs, c)
  PROVE  TextType(t, m) /\ TextRunning(t, m) /\ m.result = l.result
<1>1. PICK x \in Seq(Characters), ps \in Nat, d \in Nat, P \in Nat :
        x = l.text /\ ps = l.ps /\ ps > 0 /\ d = l.draws /\ P = PerBlob(t.fn)
  <2>1. l.text \in Seq(Characters) /\ l.ps \in Int /\ l.draws \in Nat /\ t.fn \in TextFns
    BY DEF TextType
  <2>2. PerBlob(t.fn) \in Nat
    BY <2>1, PerBlobIs
  <2> QED BY <2>1, <2>2
<1>2. /\ t.fn \in TextFns /\ t.count \in Nat /\ t.len \in Nat /\ t.len > 0 /\ ~NoAlphabet(t)
  BY DEF TextType, TextRunning
<1>3. PICK n \in Nat : n = P * d /\ P * (d + 1) = n + P
  BY <1>1, <1>2, PerBlobIs
<1>4. PICK full \in Nat, fits \in Int :
        /\ full = FullLength(t.fn, t.count) /\ fits = Fits(t) /\ fits <= full
  <2>1. Full(t) = FullLength(t.fn, t.count) /\ Full(t) \in Nat
    BY <1>2, FullIsNat DEF Full
  <2> QED BY <1>2, <2>1 DEF Fits
<1>5. Len(x) = n /\ n + ps = fits /\ \A i \in 1 .. n : x[i] = CharIs(t, i)
  BY <1>1, <1>3, <1>4 DEF TextRunning
<1>6. q \in Seq(Characters) /\ Len(q) = P /\ \A k \in 1 .. P : n + k <= full => q[k] = CharIs(t, n + k)
  BY <1>1, <1>3, <1>4 DEF GoodBlob
<1>7. bs \in 0 .. P /\ bs <= ps /\ (bs = P \/ bs = ps)
  BY <1>1, <1>6 DEF Room
<1>8. PICK s : s = SubSeq(q, 1, bs)
  OBVIOUS
<1>9. s \in Seq(Characters) /\ Len(s) = bs /\ \A k \in 1 .. bs : s[k] = q[k]
  BY <1>6, <1>7, <1>8, SubSeqIs
<1>10. PICK y : y = x \o s
  OBVIOUS
<1>11. Joined(Characters, x, s, y)
  BY <1>1, <1>9, <1>10, ConcatIs
<1>12. /\ y \in Seq(Characters) /\ Len(y) = n + bs
       /\ \A i \in 1 .. n : y[i] = x[i]
       /\ \A k \in 1 .. bs : y[n + k] = s[k]
  BY <1>5, <1>9, <1>11 DEF Joined
<1>13. /\ m.text = y /\ m.ps = ps - bs /\ m.c = c /\ m.draws = d + 1 /\ m.result = l.result
       /\ m \in [text : Seq(Characters), ps : Int, c : Int, draws : Nat, result : Int]
  <2>1. l \in [text : Seq(Characters), ps : Int, c : Int, draws : Nat, result : Int]
    BY DEF TextType
  <2>2. m = [l EXCEPT !.text = y, !.ps = ps - bs, !.c = c, !.draws = d + 1]
    BY <1>1, <1>8, <1>10 DEF Copied
  <2>3. ps - bs \in Int /\ d + 1 \in Nat
    BY <1>1, <1>7
  <2>4. y \in Seq(Characters)
    BY <1>12
  <2> QED BY <2>1, <2>2, <2>3, <2>4
<1>14. ASSUME NEW i \in 1 .. n + bs
       PROVE  y[i] = CharIs(t, i)
  <2>1. CASE i <= n
    BY <1>5, <1>12, <2>1, i \in 1 .. n
  <2>2. CASE i > n
    <3>1. PICK k \in 1 .. bs : i = n + k
      BY <1>7, <2>2, i - n \in 1 .. bs, i = n + (i - n)
    <3>2. y[i] = q[k]
      BY <1>9, <1>12, <3>1
    <3>3. k \in 1 .. P /\ n + k <= full
      <4>1. n + ps = fits /\ fits <= full
        BY <1>4, <1>5
      <4> QED BY <1>7, <4>1
    <3> QED BY <1>6, <3>1, <3>2, <3>3
  <2> QED BY <1>7, <2>1, <2>2
<1>15. TextType(t, m)
  BY <1>13 DEF TextType
<1>16. TextRunning(t, m)
  <2>1. m.ps >= 0 /\ Len(m.text) + m.ps = Fits(t)
    <3>1. m.ps = ps - bs /\ Len(m.text) = n + bs /\ n + ps = Fits(t)
      BY <1>4, <1>5, <1>12, <1>13
    <3>2. ps - bs >= 0 /\ (n + bs) + (ps - bs) = n + ps
      BY <1>7
    <3> QED BY <3>1, <3>2
  <2>2. m.ps > 0 => Len(m.text) = PerBlob(t.fn) * m.draws
    <3>1. m.ps > 0 => Len(m.text) = n + P
      <4>1. m.ps = ps - bs /\ Len(m.text) = n + bs
        BY <1>12, <1>13
      <4> QED BY <1>7, <4>1
    <3>2. PerBlob(t.fn) * m.draws = n + P
      BY <1>1, <1>3, <1>13
    <3> QED BY <3>1, <3>2
  <2>3. LeftIs(t, m.c, m.draws)
    BY <1>1, <1>13
  <2>4. \A i \in 1 .. Len(m.text) : m.text[i] = CharIs(t, i)
    BY <1>12, <1>13, <1>14
  <2> QED BY <1>2, <2>1, <2>2, <2>3, <2>4 DEF TextRunning, LeftIs
<1> QED BY <1>13, <1>15, <1>16

LEMMA TotalIsInt ==
  ASSUME NEW fn \in TextFns, NEW count \in Nat
  PROVE  Total(fn, count) \in Int
<1>1. \A n \in Int : Wrap(n) \in Int
  <2>1. PICK m \in Nat : m = SizeMax + 1 /\ m # 0
    BY LimitsAssumption
  <2>2. ASSUME NEW n \in Int
        PROVE  n % m \in Int
    BY <2>1, DivMod
  <2> QED BY <2>1, <2>2 DEF Wrap
<1>2. count * 2 \in Int /\ count + 4 \in Int /\ count + 2 \in Int
  OBVIOUS
<1>3. PICK p \in Int, q \in Int : p = Wrap(count + 4) /\ q = Wrap(count + 2)
  BY <1>1, <1>2
<1>4. Wrap(count * 2) \in Int /\ Wrap((p \div 5) * 8) \in Int /\ Wrap((q \div 3) * 4) \in Int
  BY <1>1, <1>2
<1> QED BY <1>3, <1>4 DEF Total, TextFns

LEMMA TextInvCall ==
  ASSUME NEW t \in TextCalls, TextCall(t)
  PROVE  job' = t /\ TextState(t, loc', ended')
<1>1. /\ t \in [fn : TextFns, len : Nat, count : Nat, alphalen : Nat] /\ t.count \in 0 .. SizeMax
  BY ArgumentsAssumption, LimitsAssumption DEF TextFns
<1>2. PICK full \in Nat, total \in Int :
        /\ full = FullLength(t.fn, t.count) /\ total = Total(t.fn, t.count)
        /\ TooLong(t.fn, t.count) <=> full > IntMax
        /\ ~TooLong(t.fn, t.count) => total = full
  BY <1>1, LengthIs, TotalIsInt
<1>3. PICK len \in Nat : len = t.len
  BY <1>1
<1>4. PICK tot \in Int : tot = IF NoAlphabet(t) THEN 0 ELSE total
  OBVIOUS
<1>5. PICK x : x = IF ~Unwritten(t) /\ NoAlphabet(t) THEN <<Nul>> ELSE <<>>
  OBVIOUS
<1>6. /\ job' = t
      /\ loc' = [text |-> x, ps |-> IF tot > len - 1 THEN len - 1 ELSE tot, c |-> t.count,
                 draws |-> 0, result |-> tot]
      /\ ended' = IF TooLong(t.fn, t.count) THEN "EINVAL"
                ELSE IF Unwritten(t) \/ NoAlphabet(t) THEN "ok" ELSE "running"
  BY <1>2, <1>3, <1>4, <1>5 DEF TextCall, Start
<1>7. x \in Seq(Characters)
  <2>1. Nul \in Characters
    BY DEF Nul, Characters
  <2> QED BY <1>5, <2>1
<1>8. PICK ps \in Int : ps = IF tot > len - 1 THEN len - 1 ELSE tot
  OBVIOUS
<1>9. /\ loc'.text = x /\ loc'.ps = ps /\ loc'.c = t.count /\ loc'.draws = 0 /\ loc'.result = tot
      /\ TextType(t, loc')
  BY <1>1, <1>6, <1>7, <1>8 DEF TextType
<1>10. CASE full > IntMax
  <2>1. ended' = "EINVAL" /\ x = <<>>
    BY <1>2, <1>5, <1>6, <1>10 DEF Unwritten
  <2> QED BY <1>2, <1>6, <1>9, <1>10, <2>1 DEF TextState
<1>11. CASE ~(full > IntMax)
  <2>1. Full(t) = tot
    BY <1>2, <1>4, <1>11 DEF Full
  <2>2. Unwritten(t) <=> len = 0
    BY <1>2, <1>3, <1>11 DEF Unwritten
  <2>3. CASE len = 0
    <3>1. ended' = "ok" /\ x = <<>>
      BY <1>2, <1>5, <1>6, <1>11, <2>2, <2>3
    <3>2. TextDone(t, loc')
      BY <1>3, <1>9, <2>3, <3>1 DEF TextDone
    <3> QED BY <1>2, <1>6, <1>9, <1>11, <2>1, <3>1, <3>2 DEF TextState
  <2>4. CASE len > 0 /\ NoAlphabet(t)
    <3>1. ended' = "ok" /\ x = <<Nul>>
      BY <1>2, <1>5, <1>6, <1>11, <2>2, <2>4
    <3>2. Fits(t) = 0
      BY <1>3, <1>4, <2>1, <2>4 DEF Fits
    <3>3. Len(x) = 1 /\ x[1] = Nul
      BY <3>1
    <3>4. TextDone(t, loc')
      BY <1>3, <1>9, <2>4, <3>2, <3>3 DEF TextDone
    <3> QED BY <1>2, <1>6, <1>9, <1>11, <2>1, <3>1, <3>4 DEF TextState
  <2>5. CASE len > 0 /\ ~NoAlphabet(t)
    <3>1. ended' = "running" /\ x = <<>>
      BY <1>2, <1>5, <1>6, <1>11, <2>2, <2>5
    <3>2. tot = full
      BY <1>2, <1>4, <1>11, <2>5
    <3>3. Fits(t) = ps /\ ps >= 0
      BY <1>3, <1>8, <2>1, <2>5, <3>2 DEF Fits
    <3>4. Len(x) = 0
      BY <3>1
    <3>5. PerBlob(t.fn) * 0 = 0
      BY <1>1, PerBlobIs
    <3>6. LeftIs(t, t.count, 0)
      <4>1. CASE t.fn = "base32"
        BY <1>1, <4>1 DEF LeftIs, BlobBytes
      <4>2. CASE t.fn = "base64"
        BY <1>1, <4>2 DEF LeftIs, BlobBytes
      <4> QED BY <4>1, <4>2 DEF LeftIs
    <3>7. TextRunning(t, loc')
      BY <1>3, <1>9, <2>5, <3>3, <3>4, <3>5, <3>6 DEF TextRunning, LeftIs
    <3> QED BY <1>2, <1>6, <1>9, <1>11, <2>1, <3>1, <3>7 DEF TextState
  <2> QED BY <2>3, <2>4, <2>5
<1> QED BY <1>6, <1>10, <1>11

\* The loops stop only when the buffer is full or the string complete.
LEMMA NothingMissing ==
  ASSUME NEW t, NEW l, TextType(t, l), TextRunning(t, l),
         ~(l.ps > 0 /\ (t.fn \in {"base32", "base64"} => l.c > 0))
  PROVE  l.ps = 0
<1> SUFFICES ASSUME l.ps > 0, t.fn \in {"base32", "base64"}, l.c <= 0
             PROVE  FALSE
  BY DEF TextType, TextRunning
<1>1. PICK d \in Nat, ps \in Nat, count \in Nat, len \in Nat :
        d = l.draws /\ ps = l.ps /\ count = t.count /\ len = t.len /\ ps > 0 /\ len > 0
  BY DEF TextType, TextRunning
<1>2. PICK full \in Nat : full = FullLength(t.fn, count) /\ PerBlob(t.fn) * d + ps <= full
  <2>1. Full(t) \in Nat /\ Full(t) = FullLength(t.fn, count)
    BY <1>1, FullIsNat DEF TextType, TextRunning, Full
  <2>2. Fits(t) <= Full(t)
    BY <1>1, <2>1 DEF Fits
  <2>3. PerBlob(t.fn) * d + ps = Fits(t)
    BY <1>1 DEF TextRunning
  <2> QED BY <2>1, <2>2, <2>3
<1>3. CASE t.fn = "base32"
  <2>1. full = 8 * ((count + 4) \div 5) /\ 8 * d + ps <= full
    BY <1>2, <1>3 DEF FullLength, PerBlob
  <2>2. 5 * d >= count
    BY <1>1, <1>3 DEF TextRunning, BlobBytes
  <2> QED BY <1>1, <2>1, <2>2
<1>4. CASE t.fn = "base64"
  <2>1. full = 4 * ((count + 2) \div 3) /\ 4 * d + ps <= full
    BY <1>2, <1>4 DEF FullLength, PerBlob
  <2>2. 3 * d >= count
    BY <1>1, <1>4 DEF TextRunning, BlobBytes
  <2> QED BY <1>1, <2>1, <2>2
<1> QED BY <1>3, <1>4

LEMMA AppendIs ==
  ASSUME NEW S, NEW x \in Seq(S), NEW e \in S
  PROVE  /\ Append(x, e) \in Seq(S) /\ Len(Append(x, e)) = Len(x) + 1 /\ Append(x, e)[Len(x) + 1] = e
         /\ \A i \in 1 .. Len(x) : Append(x, e)[i] = x[i]
OBVIOUS

\* One more blob is copied.
LEMMA TextInvCopy ==
  ASSUME TextState(job, loc, ended), ended = "running", loc.ps > 0,
         NEW q, GoodBlob(job, loc.draws, q), NEW c \in Int, LeftIs(job, c, loc.draws + 1),
         Copy(q, c), UNCHANGED <<job, ended>>
  PROVE  TextState(job, loc', ended')
<1>1. PICK t, l, m : t = job /\ l = loc /\ m = loc'
  OBVIOUS
<1>2. TextType(t, l) /\ TextRunning(t, l) /\ l.ps > 0 /\ GoodBlob(t, l.draws, q) /\ LeftIs(t, c, l.draws + 1)
  BY <1>1 DEF TextState
<1>3. PICK bs : bs = Room(q, l.ps)
  OBVIOUS
<1>4. m = Copied(l, q, bs, c)
  BY <1>1, <1>3 DEF Copy, Copied, Room
<1>5. TextType(t, m) /\ TextRunning(t, m) /\ m.result = l.result
  BY <1>2, <1>3, <1>4, CopyKeeps
<1> QED BY <1>1, <1>5 DEF TextState

LEMMA TextInvStep ==
  ASSUME TextInv, TextStep, job' = job, job.fn \in TextFns
  PROVE  TextState(job, loc', ended')
<1>1. TextState(job, loc, ended) /\ TextType(job, loc)
  BY DEF TextInv, TextState
<1>2. loc.draws \in Nat /\ job.count \in Nat /\ loc.c \in Int
  BY <1>1 DEF TextType
<1>3. CASE StringChar
  <2>1. /\ ended = "running" /\ job.fn = "string" /\ loc.ps > 0
        /\ Copy(<<Char({"index"})>>, loc.c - 1) /\ UNCHANGED <<job, ended>>
    BY <1>3 DEF StringChar, Running, MoreText
  <2>2. PICK c \in Int, q \in {<<Char({"index"})>>} : c = loc.c - 1
    BY <1>2
  <2>3. GoodBlob(job, loc.draws, q)
    BY <1>2, <2>1, <2>2, BlobString
  <2>4. LeftIs(job, c, loc.draws + 1)
    BY <2>1 DEF LeftIs
  <2>5. Copy(q, c)
    BY <2>1, <2>2
  <2> QED BY <1>1, <2>1, <2>3, <2>4, <2>5, TextInvCopy
<1>4. CASE Base16Blob
  <2>1. /\ ended = "running" /\ job.fn = "base16" /\ loc.ps > 0
        /\ Copy(Chars(16, 4, 4), loc.c) /\ UNCHANGED <<job, ended>>
    BY <1>4 DEF Base16Blob, Running, MoreText
  <2>2. GoodBlob(job, loc.draws, Chars(16, 4, 4))
    BY <1>2, <2>1, Blob16
  <2>3. LeftIs(job, loc.c, loc.draws + 1)
    BY <2>1 DEF LeftIs
  <2>4. PICK c \in Int, q \in {Chars(16, 4, 4)} : c = loc.c
    BY <1>2
  <2>5. GoodBlob(job, loc.draws, q) /\ LeftIs(job, c, loc.draws + 1) /\ Copy(q, c)
    BY <2>1, <2>2, <2>3, <2>4
  <2> QED BY <1>1, <2>1, <2>5, TextInvCopy
<1>5. CASE Base32Blob
  <2>1. /\ ended = "running" /\ job.fn = "base32" /\ loc.ps > 0 /\ loc.c > 0 /\ UNCHANGED <<job, ended>>
        /\ IF loc.c >= 5 THEN Copy(Chars(8, 5, 5), loc.c - 5) ELSE Copy(LastBlob(8, 5, 5), 0)
    BY <1>5 DEF Base32Blob, Running, MoreText
  <2>2. loc.c = job.count - 5 * loc.draws
    BY <1>1, <1>2, <2>1 DEF TextState, TextRunning, BlobBytes
  <2>3. BlobBytes(job.fn) = 5
    BY <2>1 DEF BlobBytes
  <2>4. CASE loc.c >= 5
    <3>1. PICK c \in Int, q \in {Chars(8, 5, 5)} : c = loc.c - 5
      BY <1>2
    <3>2. 5 * loc.draws + 5 <= job.count
      BY <1>2, <2>2, <2>4
    <3>3. GoodBlob(job, loc.draws, q)
      BY <1>2, <2>1, <3>1, <3>2, Blob32
    <3>4. LeftIs(job, c, loc.draws + 1)
      BY <1>2, <2>2, <2>3, <2>4, <3>1 DEF LeftIs
    <3>5. Copy(q, c)
      BY <2>1, <2>4, <3>1
    <3> QED BY <1>1, <2>1, <3>3, <3>4, <3>5, TextInvCopy
  <2>5. CASE ~(loc.c >= 5)
    <3>1. PICK c \in Int, q \in {LastBlob(8, 5, 5)} : c = 0
      OBVIOUS
    <3>2. loc.c \in 1 .. 4
      BY <1>2, <2>1, <2>5
    <3>3. GoodBlob(job, loc.draws, q)
      BY <1>2, <2>1, <2>2, <3>1, <3>2, LastBlob32
    <3>4. LeftIs(job, c, loc.draws + 1)
      BY <1>2, <2>2, <2>3, <3>2, <3>1 DEF LeftIs
    <3>5. Copy(q, c)
      BY <2>1, <2>5, <3>1
    <3> QED BY <1>1, <2>1, <3>3, <3>4, <3>5, TextInvCopy
  <2> QED BY <2>4, <2>5
<1>6. CASE Base64Blob
  <2>1. /\ ended = "running" /\ job.fn = "base64" /\ loc.ps > 0 /\ loc.c > 0 /\ UNCHANGED <<job, ended>>
        /\ IF loc.c >= 3 THEN Copy(Chars(4, 6, 6), loc.c - 3) ELSE Copy(LastBlob(4, 6, 3), 0)
    BY <1>6 DEF Base64Blob, Running, MoreText
  <2>2. loc.c = job.count - 3 * loc.draws
    BY <1>1, <1>2, <2>1 DEF TextState, TextRunning, BlobBytes
  <2>3. BlobBytes(job.fn) = 3
    BY <2>1 DEF BlobBytes
  <2>4. CASE loc.c >= 3
    <3>1. PICK c \in Int, q \in {Chars(4, 6, 6)} : c = loc.c - 3
      BY <1>2
    <3>2. 3 * loc.draws + 3 <= job.count
      BY <1>2, <2>2, <2>4
    <3>3. GoodBlob(job, loc.draws, q)
      BY <1>2, <2>1, <3>1, <3>2, Blob64
    <3>4. LeftIs(job, c, loc.draws + 1)
      BY <1>2, <2>2, <2>3, <2>4, <3>1 DEF LeftIs
    <3>5. Copy(q, c)
      BY <2>1, <2>4, <3>1
    <3> QED BY <1>1, <2>1, <3>3, <3>4, <3>5, TextInvCopy
  <2>5. CASE ~(loc.c >= 3)
    <3>1. PICK c \in Int, q \in {LastBlob(4, 6, 3)} : c = 0
      OBVIOUS
    <3>2. loc.c \in 1 .. 2
      BY <1>2, <2>1, <2>5
    <3>3. GoodBlob(job, loc.draws, q)
      BY <1>2, <2>1, <2>2, <3>1, <3>2, LastBlob64
    <3>4. LeftIs(job, c, loc.draws + 1)
      BY <1>2, <2>2, <2>3, <3>2, <3>1 DEF LeftIs
    <3>5. Copy(q, c)
      BY <2>1, <2>5, <3>1
    <3> QED BY <1>1, <2>1, <3>3, <3>4, <3>5, TextInvCopy
  <2> QED BY <2>4, <2>5
<1>7. CASE Terminate
  <2>1. PICK t, l, m : t = job /\ l = loc /\ m = loc'
    OBVIOUS
  <2>2. /\ ended = "running" /\ ended' = "ok" /\ m = [l EXCEPT !.text = Append(l.text, Nul)]
        /\ ~(l.ps > 0 /\ (t.fn \in {"base32", "base64"} => l.c > 0))
    BY <1>7, <2>1 DEF Terminate, MoreText
  <2>3. TextType(t, l) /\ TextRunning(t, l) /\ l.result = Full(t)
    BY <1>1, <2>1, <2>2 DEF TextState
  <2>4. l.ps = 0
    BY <2>2, <2>3, NothingMissing
  <2>5. PICK x \in Seq(Characters), n \in Nat : x = l.text /\ n = Len(x) /\ n = Fits(t)
    BY <2>3, <2>4 DEF TextType, TextRunning
  <2>6. PICK y : y = Append(x, Nul)
    OBVIOUS
  <2>7. Nul \in Characters
    BY DEF Nul, Characters
  <2>8. /\ y \in Seq(Characters) /\ Len(y) = n + 1 /\ y[n + 1] = Nul
        /\ \A i \in 1 .. n : y[i] = x[i]
    <3>1. /\ y \in Seq(Characters) /\ Len(y) = Len(x) + 1 /\ y[Len(x) + 1] = Nul
          /\ \A i \in 1 .. Len(x) : y[i] = x[i]
      BY <2>6, <2>7, AppendIs
    <3> QED BY <2>5, <3>1
  <2>9. m.text = y /\ m.result = l.result /\ TextType(t, m)
    <3>1. m = [l EXCEPT !.text = y]
      BY <2>2, <2>5, <2>6
    <3> QED BY <2>3, <2>8, <3>1 DEF TextType
  <2>10. TextDone(t, m)
    <3>1. \A i \in 1 .. n : x[i] = CharIs(t, i)
      BY <2>3, <2>5 DEF TextRunning
    <3>2. t.len # 0
      BY <2>3 DEF TextType, TextRunning
    <3> QED BY <2>5, <2>8, <2>9, <3>1, <3>2 DEF TextDone
  <2> QED BY <1>1, <2>1, <2>2, <2>3, <2>9, <2>10 DEF TextState
<1> QED BY <1>3, <1>4, <1>5, <1>6, <1>7 DEF TextStep

LEMMA TextInvNext ==
  ASSUME TextInv, [CallsNext]_callsVars
  PROVE  TextInv'
<1> SUFFICES ASSUME job'.fn \in TextFns
             PROVE  TextState(job', loc', ended')
  BY DEF TextInv
<1>1. \/ UNCHANGED callsVars
      \/ \E t \in TextCalls : TextCall(t)
      \/ job' = job /\ TextStep
  BY StepsByFunction DEF Own
<1>2. CASE UNCHANGED callsVars
  BY <1>2 DEF callsVars, TextInv
<1>3. CASE \E t \in TextCalls : TextCall(t)
  BY <1>3, TextInvCall
<1>4. CASE job' = job /\ TextStep
  BY <1>4, TextInvStep
<1> QED BY <1>1, <1>2, <1>3, <1>4

\* The random bits of a character.
Tags(x) == {<<x.draw, b>> : b \in x.bits}

LEMMA RunTags ==
  ASSUME NEW d, NEW lo \in Int, NEW hi \in Int, lo <= hi + 1
  PROVE  /\ IsFiniteSet(Tags([draw |-> d, bits |-> lo .. hi]))
         /\ Cardinality(Tags([draw |-> d, bits |-> lo .. hi])) = hi - lo + 1
<1>1. PICK T, S : T = Tags([draw |-> d, bits |-> lo .. hi]) /\ S = lo .. hi
  OBVIOUS
<1>2. T = {<<d, b>> : b \in S}
  BY <1>1 DEF Tags
<1>3. PICK f : f = [b \in S |-> <<d, b>>]
  OBVIOUS
<1>4. f \in Bijection(S, T)
  <2>1. f \in [S -> T]
    BY <1>2, <1>3
  <2>2. \A a, b \in S : f[a] = f[b] => a = b
    BY <1>3
  <2>3. \A e \in T : \E b \in S : f[b] = e
    BY <1>2, <1>3
  <2> QED BY <2>1, <2>2, <2>3 DEF Bijection, Injection, Surjection, IsInjective
<1>5. ExistsBijection(S, T)
  BY <1>4 DEF ExistsBijection
<1>6. IsFiniteSet(S) /\ Cardinality(S) = hi - lo + 1
  <2>1. IsFiniteSet(S) /\ Cardinality(S) = IF lo > hi THEN 0 ELSE hi - lo + 1
    BY <1>1, FS_Interval
  <2> QED BY <2>1
<1> QED BY <1>1, <1>5, <1>6, FS_Bijection

LEMMA CutTags ==
  ASSUME NEW d, NEW off \in Int, NEW w \in Nat, NEW u \in 0 .. w
  PROVE  IsFiniteSet(Tags(CutChar(d, off, w, u))) /\ Cardinality(Tags(CutChar(d, off, w, u))) = u
<1>1. CASE u = 0
  <2>1. Tags(CutChar(d, off, w, u)) = {}
    BY <1>1 DEF Tags, CutChar, Pad
  <2> QED BY <1>1, <2>1, FS_EmptySet
<1>2. CASE u # 0
  <2>1. CutChar(d, off, w, u) = [draw |-> d, bits |-> off + w - u .. off + w - 1]
    BY <1>2 DEF CutChar
  <2>2. PICK lo \in Int, hi \in Int : lo = off + w - u /\ hi = off + w - 1 /\ lo <= hi + 1 /\ hi - lo + 1 = u
    BY <1>2
  <2> QED BY <2>1, <2>2, RunTags
<1> QED BY <1>1, <1>2

LEMMA CutDisjoint ==
  ASSUME NEW d, NEW e, NEW off \in Int, NEW bt \in Int, NEW w \in Nat, NEW u \in 0 .. w, NEW v \in 0 .. w,
         d # e \/ u = 0 \/ v = 0 \/ off + v <= bt
  PROVE  Tags(CutChar(d, off, w, u)) \cap Tags(CutChar(e, bt, w, v)) = {}
<1>1. CASE u = 0 \/ v = 0
  BY <1>1 DEF Tags, CutChar, Pad
<1>2. CASE u # 0 /\ v # 0
  <2>1. /\ CutChar(d, off, w, u) = [draw |-> d, bits |-> off + w - u .. off + w - 1]
        /\ CutChar(e, bt, w, v) = [draw |-> e, bits |-> bt + w - v .. bt + w - 1]
    BY <1>2 DEF CutChar
  <2>2. ASSUME NEW a \in off + w - u .. off + w - 1, NEW b \in bt + w - v .. bt + w - 1, <<d, a>> = <<e, b>>
        PROVE  FALSE
    <3>1. d = e /\ a = b
      BY <2>2
    <3> QED BY <1>2, <3>1
  <2> QED BY <2>1, <2>2 DEF Tags
<1> QED BY <1>1, <1>2

BaseFns == {"base16", "base32", "base64"}

LEMMA WidthIs ==
  ASSUME NEW fn \in BaseFns
  PROVE  /\ Width(fn) \in 4 .. 6 /\ PerBlob(fn) \in {4, 8, 16}
         /\ fn = "base16" => Width(fn) = 4 /\ PerBlob(fn) = 16
         /\ fn = "base32" => Width(fn) = 5 /\ PerBlob(fn) = 8
         /\ fn = "base64" => Width(fn) = 6 /\ PerBlob(fn) = 4
BY DEF Width, PerBlob, BaseFns

LEMMA AsCut ==
  ASSUME NEW t, t.fn \in BaseFns, t.count \in Nat, NEW i \in Nat, i > 0
  PROVE  /\ BitsOf(t, i) \in 0 .. Width(t.fn)
         /\ BitsUpTo(t, i) \in Nat /\ BitsUpTo(t, i) = BitsUpTo(t, i - 1) + BitsOf(t, i)
         /\ ((i - 1) % PerBlob(t.fn)) * StepOf(t, i) \in Int
         /\ CharIs(t, i) = CutChar((i - 1) \div PerBlob(t.fn), ((i - 1) % PerBlob(t.fn)) * StepOf(t, i),
                                   Width(t.fn), BitsOf(t, i))
<1>1. PICK w \in 4 .. 6, P \in {4, 8, 16}, count \in Nat : w = Width(t.fn) /\ P = PerBlob(t.fn) /\ count = t.count
  BY WidthIs
<1>2. /\ BitsUpTo(t, i) = Least(w * i, 8 * count) /\ BitsUpTo(t, i - 1) = Least(w * (i - 1), 8 * count)
      /\ BitsOf(t, i) = BitsUpTo(t, i) - BitsUpTo(t, i - 1)
  BY <1>1 DEF BitsUpTo, BitsOf
<1>3. PICK p \in Nat, q \in Nat, u \in 0 .. w : p = BitsUpTo(t, i) /\ q = BitsUpTo(t, i - 1) /\ u = BitsOf(t, i) /\ u = p - q
  <2>1. w = 4 \/ w = 5 \/ w = 6
    BY <1>1
  <2> QED BY <1>2, <2>1 DEF Least
<1>4. PICK s \in {3, 4, 5, 6} : s = StepOf(t, i)
  BY <1>1 DEF StepOf
<1>5. PICK r \in Int : r = (i - 1) % P
  BY <1>1
<1>6. PICK off \in Int : off = r * s
  BY <1>4
<1>7. LowOf(t, i) = off + w - u
  BY <1>1, <1>3, <1>4, <1>5, <1>6 DEF LowOf
<1>8. (off + w - u) + u - 1 = off + w - 1
  BY <1>1, <1>3, <1>6
<1>9. CharIs(t, i) = CutChar((i - 1) \div P, off, w, u)
  <2>1. t.fn # "string"
    BY DEF BaseFns
  <2> QED BY <1>1, <1>3, <1>7, <1>8, <2>1 DEF CharIs, CutChar
<1>10. p = q + u
  BY <1>1, <1>3
<1> QED BY <1>1, <1>3, <1>4, <1>5, <1>6, <1>9, <1>10

\* What is said of the characters holds up to the m-th: the two whole ones of a
\* last base64 blob overlap.
Apart(t, m) ==
  m <= FullLength(t.fn, t.count) /\ (t.fn = "base64" => t.count % 3 # 2 \/ m <= 4 * (t.count \div 3))

\* Two characters are chosen by different random bits.
LEMMA CharsDisjoint ==
  ASSUME NEW t, t.fn \in BaseFns, t.count \in Nat, NEW i \in Nat, NEW j \in Nat, i > 0, i < j, Apart(t, j)
  PROVE  Tags(CharIs(t, i)) \cap Tags(CharIs(t, j)) = {}
<1>1. PICK w \in 4 .. 6, P \in {4, 8, 16}, count \in Nat : w = Width(t.fn) /\ P = PerBlob(t.fn) /\ count = t.count
  BY WidthIs
<1>2. PICK d \in Int, e \in Int, p \in Int, q \in Int :
        d = (i - 1) \div P /\ e = (j - 1) \div P /\ p = (i - 1) % P /\ q = (j - 1) % P
  BY <1>1
<1>3. PICK u \in 0 .. w, v \in 0 .. w : u = BitsOf(t, i) /\ v = BitsOf(t, j)
  BY <1>1, AsCut
<1>4. PICK off \in Int, bt \in Int : off = p * StepOf(t, i) /\ bt = q * StepOf(t, j)
  BY <1>1, <1>2, AsCut
<1>5. CharIs(t, i) = CutChar(d, off, w, u) /\ CharIs(t, j) = CutChar(e, bt, w, v)
  BY <1>1, <1>2, <1>3, <1>4, AsCut
<1>6. d # e \/ v = 0 \/ off + v <= bt
  <2> SUFFICES ASSUME d = e
               PROVE  v = 0 \/ off + v <= bt
    OBVIOUS
  <2>1. q >= p + 1
    <3>1. CASE P = 4
      <4>1. d = (i - 1) \div 4 /\ d = (j - 1) \div 4 /\ p = (i - 1) % 4 /\ q = (j - 1) % 4
        BY <1>2, <3>1
      <4> QED BY <4>1
    <3>2. CASE P = 8
      <4>1. d = (i - 1) \div 8 /\ d = (j - 1) \div 8 /\ p = (i - 1) % 8 /\ q = (j - 1) % 8
        BY <1>2, <3>2
      <4> QED BY <4>1
    <3>3. CASE P = 16
      <4>1. d = (i - 1) \div 16 /\ d = (j - 1) \div 16 /\ p = (i - 1) % 16 /\ q = (j - 1) % 16
        BY <1>2, <3>3
      <4> QED BY <4>1
    <3> QED BY <3>1, <3>2, <3>3
  <2>2. CASE t.fn = "base16"
    <3>1. w = 4 /\ StepOf(t, i) = 4 /\ StepOf(t, j) = 4
      BY <1>1, <2>2, WidthIs DEF StepOf
    <3>2. off = p * 4 /\ bt = q * 4
      BY <1>4, <3>1
    <3> QED BY <1>3, <2>1, <3>1, <3>2
  <2>3. CASE t.fn = "base32"
    <3>1. w = 5 /\ StepOf(t, i) = 5 /\ StepOf(t, j) = 5
      BY <1>1, <2>3, WidthIs DEF StepOf
    <3>2. off = p * 5 /\ bt = q * 5
      BY <1>4, <3>1
    <3> QED BY <1>3, <2>1, <3>1, <3>2
  <2>4. CASE t.fn = "base64"
    <3>1. w = 6 /\ P = 4
      BY <1>1, <2>4, WidthIs
    <3>2. CASE 3 * d + 3 > count
      <4>1. StepOf(t, i) = 3 /\ StepOf(t, j) = 3
        BY <1>1, <1>2, <2>4, <3>1, <3>2 DEF StepOf
      <4>2. off = p * 3 /\ bt = q * 3
        BY <1>4, <4>1
      <4>3. j <= 4 * ((count + 2) \div 3) /\ (count % 3 # 2 \/ j <= 4 * (count \div 3))
        BY <1>1, <2>4 DEF Apart, FullLength
      <4>4. count = 3 * d + 1
        BY <1>2, <3>1, <3>2, <4>3
      <4>5. v = Least(6 * j, 8 * count) - Least(6 * (j - 1), 8 * count)
        BY <1>1, <1>3, <3>1 DEF BitsOf, BitsUpTo
      <4>6. j = 4 * d + q + 1 /\ q <= 3 /\ p >= 0
        <5>1. d = (j - 1) \div 4 /\ p = (i - 1) % 4 /\ q = (j - 1) % 4
          BY <1>2, <3>1
        <5> QED BY <5>1
      <4>7. CASE q = 1
        <5>1. v = 2
          BY <4>4, <4>5, <4>6, <4>7 DEF Least
        <5> QED BY <2>1, <4>2, <4>6, <4>7, <5>1
      <4>8. CASE q >= 2
        BY <4>4, <4>5, <4>6, <4>8 DEF Least
      <4> QED BY <2>1, <4>6, <4>7, <4>8
    <3>3. CASE ~(3 * d + 3 > count)
      <4>1. StepOf(t, i) = 6 /\ StepOf(t, j) = 6
        BY <1>1, <1>2, <2>4, <3>1, <3>3 DEF StepOf
      <4>2. off = p * 6 /\ bt = q * 6
        BY <1>4, <4>1
      <4> QED BY <1>3, <2>1, <3>1, <4>2
    <3> QED BY <3>2, <3>3
  <2> QED BY <2>2, <2>3, <2>4 DEF BaseFns
<1> QED BY <1>3, <1>4, <1>5, <1>6, CutDisjoint

\* The random bits of the first n characters.
FirstTags(t, n) == UNION {Tags(CharIs(t, i)) : i \in 1 .. n}

LEMMA FirstTagsStep ==
  ASSUME NEW t, NEW n \in Nat
  PROVE  FirstTags(t, n + 1) = FirstTags(t, n) \cup Tags(CharIs(t, n + 1))
<1>1. 1 .. n + 1 = (1 .. n) \cup {n + 1}
  OBVIOUS
<1> QED BY <1>1 DEF FirstTags

LEMMA ApartBefore ==
  ASSUME NEW t, t.fn \in BaseFns, t.count \in Nat, NEW n \in Nat, Apart(t, n + 1)
  PROVE  Apart(t, n)
<1>1. FullLength(t.fn, t.count) \in Nat
  BY FullIsNat DEF BaseFns, TextFns
<1> QED BY <1>1 DEF Apart

LEMMA FirstTagsSize ==
  ASSUME NEW t, t.fn \in BaseFns, t.count \in Nat, NEW m \in Nat, Apart(t, m)
  PROVE  IsFiniteSet(FirstTags(t, m)) /\ Cardinality(FirstTags(t, m)) = BitsUpTo(t, m)
<1> DEFINE T == {n \in Nat : Apart(t, n) => IsFiniteSet(FirstTags(t, n)) /\ Cardinality(FirstTags(t, n)) = BitsUpTo(t, n)}
<1>1. 0 \in T
  <2>1. FirstTags(t, 0) = {}
    BY DEF FirstTags
  <2>2. BitsUpTo(t, 0) = 0
    <3>1. Width(t.fn) \in Int
      BY WidthIs
    <3> QED BY <3>1 DEF BitsUpTo, Least
  <2> QED BY <2>1, <2>2, FS_EmptySet
<1>2. ASSUME NEW n \in Nat, n \in T
      PROVE  n + 1 \in T
  <2> SUFFICES ASSUME Apart(t, n + 1)
               PROVE  /\ IsFiniteSet(FirstTags(t, n + 1))
                      /\ Cardinality(FirstTags(t, n + 1)) = BitsUpTo(t, n + 1)
    OBVIOUS
  <2>1. Apart(t, n)
    BY ApartBefore
  <2>2. PICK A, B : A = FirstTags(t, n) /\ B = Tags(CharIs(t, n + 1))
    OBVIOUS
  <2>3. IsFiniteSet(A) /\ Cardinality(A) = BitsUpTo(t, n)
    BY <1>2, <2>1, <2>2
  <2>4. PICK i \in Nat : i = n + 1 /\ i > 0 /\ i - 1 = n
    OBVIOUS
  <2>5. PICK w \in Nat, u \in Nat : w = Width(t.fn) /\ u = BitsOf(t, i) /\ u \in 0 .. w
    BY <2>4, AsCut, WidthIs
  <2>6. BitsUpTo(t, i) \in Nat /\ BitsUpTo(t, i) = BitsUpTo(t, n) + u
    BY <2>4, <2>5, AsCut
  <2>7. PICK d, f : f \in Int /\ CharIs(t, i) = CutChar(d, f, w, u)
    BY <2>4, <2>5, AsCut
  <2>8. IsFiniteSet(B) /\ Cardinality(B) = u
    BY <2>2, <2>4, <2>5, <2>7, CutTags
  <2>9. A \cap B = {}
    <3>1. ASSUME NEW k \in 1 .. n
          PROVE  Tags(CharIs(t, k)) \cap B = {}
      BY <2>2, <2>4, CharsDisjoint
    <3> QED BY <2>2, <3>1 DEF FirstTags
  <2>10. IsFiniteSet(A \cup B) /\ Cardinality(A \cup B) = Cardinality(A) + Cardinality(B) - Cardinality(A \cap B)
    BY <2>3, <2>8, FS_Union
  <2>11. Cardinality(A \cap B) = 0
    BY <2>9, FS_EmptySet
  <2>12. FirstTags(t, n + 1) = A \cup B
    BY <2>2, FirstTagsStep
  <2>13. BitsUpTo(t, n) \in Nat
    <3>1. PICK c \in Nat : c = Cardinality(A)
      BY <2>3, FS_CardinalityType
    <3> QED BY <2>3, <3>1
  <2>14. Cardinality(A \cup B) = BitsUpTo(t, i)
    BY <2>3, <2>5, <2>6, <2>8, <2>10, <2>11, <2>13
  <2> QED BY <2>4, <2>10, <2>12, <2>14
<1> HIDE DEF T
<1>3. Nat \subseteq T
  BY <1>1, <1>2, SetInduction
<1> QED BY <1>3 DEF T

\* A complete string: as many random bits as count bytes have.
LEMMA AllTagsSize ==
  ASSUME NEW t, t.fn \in BaseFns, t.count \in Nat, ~(t.fn = "base64" /\ t.count % 3 = 2)
  PROVE  Cardinality(FirstTags(t, FullLength(t.fn, t.count))) = 8 * t.count
<1>1. PICK full \in Nat, count \in Nat : full = FullLength(t.fn, t.count) /\ count = t.count
  BY FullIsNat DEF BaseFns, TextFns
<1>2. Apart(t, full)
  BY <1>1 DEF Apart
<1>3. BitsUpTo(t, full) = 8 * count
  <2>1. CASE t.fn = "base16"
    BY <1>1, <2>1, WidthIs DEF BitsUpTo, Least, FullLength
  <2>2. CASE t.fn = "base32"
    BY <1>1, <2>2, WidthIs DEF BitsUpTo, Least, FullLength
  <2>3. CASE t.fn = "base64"
    BY <1>1, <2>3, WidthIs DEF BitsUpTo, Least, FullLength
  <2> QED BY <2>1, <2>2, <2>3 DEF BaseFns
<1>4. Cardinality(FirstTags(t, full)) = BitsUpTo(t, full)
  BY <1>2, FirstTagsSize
<1> QED BY <1>1, <1>3, <1>4

LEMMA CharNotNul ==
  ASSUME NEW t, t.fn \in TextFns, t.count \in Nat, NEW i \in Nat, i > 0
  PROVE  CharIs(t, i) # Nul
<1>1. CASE t.fn = "string"
  <2>1. CharIs(t, i).draw = i - 1
    BY <1>1 DEF CharIs
  <2> QED BY <2>1 DEF Nul
<1>2. CASE t.fn # "string"
  <2>1. t.fn \in BaseFns
    BY <1>2 DEF TextFns, BaseFns
  <2>2. PICK P \in {4, 8, 16} : P = PerBlob(t.fn)
    BY <2>1, WidthIs
  <2>3. PICK f, w, u : CharIs(t, i) = CutChar((i - 1) \div P, f, w, u)
    BY <2>1, <2>2, AsCut
  <2>4. PICK d \in Nat : d = (i - 1) \div P
    BY <2>2
  <2>5. CharIs(t, i).draw = d \/ CharIs(t, i).draw = -1
    BY <2>3, <2>4 DEF CutChar, Pad
  <2> QED BY <2>5 DEF Nul
<1> QED BY <1>1, <1>2

LEMMA FitsIs ==
  ASSUME NEW t, t.fn \in TextFns, t.count \in Nat, t.len \in Nat, t.len > 0
  PROVE  Fits(t) \in Nat /\ Fits(t) < t.len /\ Fits(t) <= Full(t) /\ Full(t) <= FullLength(t.fn, t.count)
<1>1. Full(t) \in Nat /\ FullLength(t.fn, t.count) \in Nat
  BY FullIsNat
<1>2. Fits(t) \in Nat /\ Fits(t) < t.len /\ Fits(t) <= Full(t)
  BY <1>1 DEF Fits
<1>3. Full(t) <= FullLength(t.fn, t.count)
  BY <1>1 DEF Full
<1> QED BY <1>2, <1>3

LEMMA TextInvSnprintf ==
  ASSUME TextInv, TextCalled, Finished
  PROVE  AsSnprintf
<1>1. PICK t, l, r : t = job /\ l = loc /\ r = ended
  OBVIOUS
<1>2. TextState(t, l, r) /\ r \in {"EINVAL", "ok"}
  BY <1>1 DEF TextInv, TextState, TextCalled, Finished, TextFns
<1>3. t.fn \in TextFns /\ t.len \in Nat /\ t.count \in Nat /\ l.text \in Seq(Characters)
  BY <1>2 DEF TextState, TextType
<1>4. r = "EINVAL" <=> FullLength(t.fn, t.count) > IntMax
  BY <1>2 DEF TextState
<1>5. r = "ok" => l.result = Full(t)
  BY <1>2 DEF TextState
<1>6. ASSUME r = "ok", t.len > 0
      PROVE  /\ Len(l.text) = Fits(t) + 1 /\ Len(l.text) <= t.len
             /\ \A i \in DOMAIN l.text : l.text[i] = Nul <=> i = Fits(t) + 1
  <2>1. TextDone(t, l)
    BY <1>2, <1>6 DEF TextState
  <2>2. PICK n \in Nat : n = Fits(t) /\ n < t.len
    BY <1>3, <1>6, FitsIs
  <2>3. Len(l.text) = n + 1 /\ l.text[n + 1] = Nul /\ \A i \in 1 .. n : l.text[i] = CharIs(t, i)
    BY <1>3, <1>6, <2>1, <2>2 DEF TextDone
  <2>4. DOMAIN l.text = 1 .. n + 1
    BY <1>3, <2>3
  <2>5. \A i \in 1 .. n : l.text[i] # Nul
    BY <1>3, <2>3, CharNotNul
  <2>6. ASSUME NEW i \in 1 .. n + 1
        PROVE  l.text[i] = Nul <=> i = n + 1
    <3>1. i = n + 1 \/ (i \in 1 .. n /\ i # n + 1)
      OBVIOUS
    <3> QED BY <2>3, <2>5, <3>1
  <2> QED BY <1>3, <2>2, <2>3, <2>4, <2>6
<1>7. Len(l.text) <= t.len
  <2>1. CASE r = "ok" /\ t.len > 0
    BY <1>6, <2>1
  <2>2. CASE r = "EINVAL" \/ t.len = 0
    <3>1. l.text = <<>>
      BY <1>2, <2>2 DEF TextState, TextDone
    <3> QED BY <1>3, <3>1
  <2> QED BY <1>2, <1>3, <2>1, <2>2
<1>8. r = "ok" /\ t.len > 0 => /\ Len(l.text) = Fits(t) + 1
                              /\ \A i \in DOMAIN l.text : l.text[i] = Nul <=> i = Fits(t) + 1
  BY <1>6
<1> HIDE DEF Full, Fits
<1> QED BY <1>1, <1>4, <1>5, <1>7, <1>8 DEF AsSnprintf, Full, Fits

LEMMA TextInvBits ==
  ASSUME TextInv, TextCalled, ended = "ok", ~TwoByteTail
  PROVE  OwnBits
<1>1. PICK t, l : t = job /\ l = loc
  OBVIOUS
<1>2. TextState(t, l, "ok")
  BY <1>1 DEF TextInv, TextCalled, TextFns
<1>3. /\ t.fn \in TextFns /\ t.len \in Nat /\ t.count \in Nat /\ l.text \in Seq(Characters)
      /\ l.result = Full(t) /\ TextDone(t, l)
  BY <1>2 DEF TextState, TextType
<1>4. \A i : CharBits(i) = Tags(l.text[i])
  BY <1>1 DEF CharBits, Tags
<1>5. Tags(Nul) = {}
  BY DEF Tags, Nul
<1>6. ~(t.fn = "base64" /\ t.count % 3 = 2)
  BY <1>1 DEF TwoByteTail
<1>7. CASE t.len = 0
  <2>1. l.text = <<>>
    BY <1>3, <1>7 DEF TextDone
  <2>2. DOMAIN l.text = {} /\ Len(l.text) = 0
    BY <2>1
  <2>3. Len(l.text) # l.result + 1
    BY <1>3, <2>2, FullIsNat
  <2> QED BY <1>1, <2>2, <2>3 DEF OwnBits
<1>8. CASE t.len > 0
  <2>1. PICK n \in Nat : n = Fits(t) /\ n <= Full(t) /\ Full(t) <= FullLength(t.fn, t.count)
    BY <1>3, <1>8, FitsIs
  <2>2. Len(l.text) = n + 1 /\ l.text[n + 1] = Nul /\ \A i \in 1 .. n : l.text[i] = CharIs(t, i)
    BY <1>3, <1>8, <2>1 DEF TextDone
  <2>3. DOMAIN l.text = 1 .. n + 1
    BY <1>3, <2>2
  <2>4. /\ Tags(l.text[n + 1]) = {}
        /\ \A i \in 1 .. n : Tags(l.text[i]) = Tags(CharIs(t, i))
    BY <1>5, <2>2
  <2>5. ASSUME ~(t.fn = "base64" /\ t.count % 3 = 2), NEW i \in 1 .. n + 1, NEW j \in 1 .. n + 1, i < j
        PROVE  Tags(l.text[i]) \cap Tags(l.text[j]) = {}
    <3>1. CASE j = n + 1
      BY <2>4, <3>1
    <3>2. CASE j # n + 1
      <4>1. i \in 1 .. n /\ j \in 1 .. n /\ i \in Nat /\ j \in Nat /\ i > 0
        BY <2>5, <3>2
      <4>2. Tags(CharIs(t, i)) \cap Tags(CharIs(t, j)) = {}
        <5>1. CASE t.fn = "string"
          <6>1. CharIs(t, i).draw = i - 1 /\ CharIs(t, j).draw = j - 1 /\ i - 1 # j - 1
            BY <2>5, <4>1, <5>1 DEF CharIs
          <6> QED BY <6>1 DEF Tags
        <5>2. CASE t.fn # "string"
          <6>1. t.fn \in BaseFns
            BY <1>3, <5>2 DEF TextFns, BaseFns
          <6>2. j <= FullLength(t.fn, t.count)
            <7>1. Full(t) \in Nat /\ FullLength(t.fn, t.count) \in Nat
              BY <1>3, FullIsNat
            <7> QED BY <2>1, <4>1, <7>1
          <6>3. Apart(t, j)
            BY <2>5, <6>2 DEF Apart
          <6> QED BY <1>3, <2>5, <4>1, <6>1, <6>3, CharsDisjoint
        <5> QED BY <5>1, <5>2
      <4> QED BY <2>4, <4>1, <4>2
    <3> QED BY <3>1, <3>2
  <2>6. UNION {CharBits(i) : i \in DOMAIN l.text} = FirstTags(t, n)
    <3>1. 1 .. n + 1 = (1 .. n) \cup {n + 1}
      OBVIOUS
    <3>2. {CharBits(i) : i \in DOMAIN l.text} = {Tags(CharIs(t, i)) : i \in 1 .. n} \cup {{}}
      BY <1>4, <2>3, <2>4, <3>1
    <3> QED BY <3>2 DEF FirstTags
  <2>7. ASSUME t.fn # "string", Len(l.text) = l.result + 1
        PROVE  Cardinality(FirstTags(t, n)) = 8 * t.count
    <3>1. t.fn \in BaseFns
      BY <1>3, <2>7 DEF TextFns, BaseFns
    <3>2. Full(t) = FullLength(t.fn, t.count) /\ Full(t) \in Nat
      BY <1>3, <2>7, FullIsNat DEF Full, NoAlphabet
    <3>3. n = FullLength(t.fn, t.count)
      BY <1>3, <2>2, <2>7, <3>2
    <3> QED BY <1>3, <1>6, <3>1, <3>3, AllTagsSize
  <2>8. \A i, j \in DOMAIN loc.text : i < j => CharBits(i) \cap CharBits(j) = {}
    BY <1>1, <1>4, <1>6, <2>3, <2>5
  <2>9. job.fn # "string" /\ Len(loc.text) = loc.result + 1 =>
          Cardinality(UNION {CharBits(i) : i \in DOMAIN loc.text}) = 8 * job.count
    BY <1>1, <2>6, <2>7
  <2> QED BY <2>8, <2>9 DEF OwnBits
<1> QED BY <1>3, <1>7, <1>8

\* For every buffer, count and alphabet: futils_random_string and the base16,
\* base32 and base64 functions return the length of the whole string, refuse it
\* exactly if it does not fit an int, terminate what they write inside the
\* buffer, and use every random bit for one character only.  The bits of a base64
\* string whose last blob is made of two bytes are left out.
THEOREM StringsAsPromised == CallsSpec => []StringAsPromised
<1>1. CallsInit => TextInv
  BY DEF CallsInit, TextInv, TextFns
<1>2. TextInv /\ [CallsNext]_callsVars => TextInv'
  BY TextInvNext
<1>3. TextInv => StringAsPromised
  BY TextInvSnprintf, TextInvBits DEF StringAsPromised
<1> QED BY <1>1, <1>2, <1>3, PTL DEF CallsSpec

-----------------------------------------------------------------------------
(* Variable-length integers: the encoding of one value.                    *)

LEMMA ShlElement ==
  ASSUME NEW v, v \subseteq Nat, NEW k \in Nat, NEW w \in Nat, NEW b
  PROVE  b \in Shl(v, k, w) <=> b \in Nat /\ b < w /\ b >= k /\ b - k \in v
<1>1. ASSUME b \in Shl(v, k, w)
      PROVE  b \in Nat /\ b < w /\ b >= k /\ b - k \in v
  <2>1. PICK x \in v : x + k < w /\ b = x + k
    BY <1>1 DEF Shl
  <2> QED BY <2>1
<1>2. ASSUME b \in Nat, b < w, b >= k, b - k \in v
      PROVE  b \in Shl(v, k, w)
  <2>1. b - k \in {x \in v : x + k < w} /\ b = (b - k) + k
    BY <1>2
  <2> QED BY <2>1 DEF Shl
<1> QED BY <1>1, <1>2

\* A signed value survives zigzag, whatever its sign.
LEMMA ZigzagInverse ==
  ASSUME NEW t \in [w : {16, 32, 64}, signed : BOOLEAN], NEW v, v \subseteq Ones(t.w)
  PROVE  ZigzagEncode(t, v) \subseteq Ones(t.w) /\ ZigzagDecode(t, ZigzagEncode(t, v)) = v
<1>1. PICK w \in Nat : w = t.w /\ w > 1
  OBVIOUS
<1>2. v \subseteq 0 .. w - 1 /\ v \subseteq Nat /\ Ones(t.w) = 0 .. w - 1
  BY <1>1 DEF Ones
<1>3. CASE ~t.signed
  <2>1. ZigzagEncode(t, v) = v /\ ZigzagDecode(t, v) = v \cap Ones(t.w)
    BY <1>3 DEF ZigzagEncode, ZigzagDecode
  <2> QED BY <2>1
<1>4. CASE t.signed
  <2> DEFINE z == ZigzagEncode(t, v)
             neg == w - 1 \in v
  <2>1. z = Xor(Shl(v, 1, w), IF neg THEN 0 .. w - 1 ELSE {})
    BY <1>1, <1>2, <1>4 DEF ZigzagEncode
  <2>2. \A b : b \in Shl(v, 1, w) <=> b \in Nat /\ b < w /\ b >= 1 /\ b - 1 \in v
    BY <1>2, ShlElement
  <2> HIDE DEF z
  <2>3. z \subseteq 0 .. w - 1
    BY <2>1, <2>2 DEF Xor
  <2>4. \A b \in 0 .. w - 1 : b \in z <=> ~((b >= 1 /\ b - 1 \in v) <=> neg)
    BY <2>1, <2>2 DEF Xor
  <2>5. ZigzagDecode(t, z) = Xor(Shr(z, 1) \cap 0 .. w - 1, IF 0 \in z THEN 0 .. w - 1 ELSE {})
    BY <1>1, <1>2, <1>4 DEF ZigzagDecode
  <2>6. 0 \in z <=> neg
    <3>1. 0 \in 0 .. w - 1 /\ ~(0 >= 1)
      BY <1>1
    <3> QED BY <2>4, <3>1
  <2>7. \A b : b \in Shr(z, 1) <=> b \in Nat /\ b + 1 \in z
    BY <2>3, z \subseteq Nat, ShrElement
  <2>8. ASSUME NEW b \in 0 .. w - 1
        PROVE  b \in ZigzagDecode(t, z) <=> b \in v
    <3>1. b \in ZigzagDecode(t, z) <=> ~(b + 1 \in z <=> neg)
      BY <2>5, <2>6, <2>7 DEF Xor
    <3>2. CASE b = w - 1
      <4>1. b + 1 \notin z
        BY <2>3, <3>2
      <4> QED BY <3>1, <3>2, <4>1
    <3>3. CASE b # w - 1
      <4>1. b + 1 \in 0 .. w - 1 /\ b + 1 >= 1 /\ b + 1 - 1 = b
        BY <3>3
      <4>2. b + 1 \in z <=> ~(b \in v <=> neg)
        BY <2>4, <4>1
      <4> QED BY <3>1, <4>2
    <3> QED BY <3>2, <3>3
  <2>9. ZigzagDecode(t, z) \subseteq 0 .. w - 1
    BY <2>5 DEF Xor
  <2> QED BY <1>2, <2>3, <2>8, <2>9 DEF z
<1> QED BY <1>3, <1>4

\* A value has as many bytes as its type allows, or fewer.
LEMMA EncodedLenIs ==
  ASSUME NEW t \in [w : {16, 32, 64}, signed : BOOLEAN], NEW v, v \subseteq Ones(t.w)
  PROVE  /\ EncodedLen(v) \in 1 .. val_len_max(t)
         /\ \A b \in v : b < 7 * EncodedLen(v)
<1> DEFINE P(n) == Shr(v, 7 * n) = {}
           T == {n \in Nat : n >= 1 /\ P(n)}
<1>1. PICK w \in {16, 32, 64} : w = t.w
  OBVIOUS
<1>2. PICK m \in 1 .. 10 : m = val_len_max(t) /\ 7 * m >= w
  BY <1>1 DEF val_len_max
<1>3. v \subseteq Nat /\ \A b \in v : b < w
  BY <1>1 DEF Ones
<1>4. ASSUME NEW n \in Nat
      PROVE  P(n) <=> \A b \in v : b < 7 * n
  <2>1. 7 * n \in Nat
    OBVIOUS
  <2>2. \A b : b \in Shr(v, 7 * n) <=> b \in Nat /\ b + 7 * n \in v
    BY <1>3, <2>1, ShrElement
  <2>3. ASSUME P(n), NEW b \in v, b >= 7 * n
        PROVE  FALSE
    <3>1. b - 7 * n \in Nat /\ (b - 7 * n) + 7 * n = b
      BY <1>3, <2>1, <2>3
    <3> QED BY <2>2, <2>3, <3>1
  <2>4. ASSUME \A b \in v : b < 7 * n, NEW x \in Shr(v, 7 * n)
        PROVE  FALSE
    <3>1. x \in Nat /\ x + 7 * n \in v
      BY <2>2, <2>4
    <3> QED BY <2>1, <2>4, <3>1
  <2> QED BY <1>3, <2>1, <2>3, <2>4
<1> HIDE DEF P
<1>5. m \in T
  BY <1>2, <1>3, <1>4
<1>6. PICK n \in T : \A k \in T : n <= k
  BY <1>5, LeastNatural
<1>7. n \in 1 .. m /\ P(n) /\ \A k \in 1 .. n - 1 : ~P(k)
  BY <1>2, <1>5, <1>6
<1>8. EncodedLen(v) = n
  <2>1. \A k \in 1 .. 10 : P(k) /\ (\A j \in 1 .. k - 1 : ~P(j)) => k = n
    BY <1>2, <1>7
  <2>2. n \in 1 .. 10
    BY <1>2, <1>7
  <2>3. EncodedLen(v) = CHOOSE k \in 1 .. 10 : P(k) /\ \A j \in 1 .. k - 1 : ~P(j)
    BY DEF EncodedLen, P
  <2> QED BY <1>7, <2>1, <2>2, <2>3
<1> QED BY <1>2, <1>4, <1>7, <1>8

\* The bytes of n from p on.
Bytes(b, p, n) == [k \in 1 .. n |-> b[p + k]]

\* Payload looks at its n bytes only.
LEMMA PayloadSame ==
  ASSUME NEW n \in Nat, NEW x, NEW y, \A k \in 1 .. n : x[k] = y[k]
  PROVE  Payload(x, n) = Payload(y, n)
BY DEF Payload

LEMMA PayloadElement ==
  ASSUME NEW n \in Nat, NEW x, \A k \in 1 .. n : x[k] \subseteq Ones(8), NEW b
  PROVE  b \in Payload(x, n) <=>
           \E k \in 1 .. n : b \in 7 * (k - 1) .. 7 * (k - 1) + 6 /\ b < 64 /\ b - 7 * (k - 1) \in x[k]
<1>1. b \in Payload(x, n) <=> \E k \in 1 .. n : b \in Shl(x[k] \cap Ones(7), 7 * (k - 1), 64)
  BY DEF Payload
<1>2. ASSUME NEW k \in 1 .. n
      PROVE  b \in Shl(x[k] \cap Ones(7), 7 * (k - 1), 64) <=>
               b \in 7 * (k - 1) .. 7 * (k - 1) + 6 /\ b < 64 /\ b - 7 * (k - 1) \in x[k]
  <2>1. PICK s \in Nat : s = 7 * (k - 1)
    OBVIOUS
  <2>2. b \in Shl(x[k] \cap Ones(7), s, 64) <=> b \in Nat /\ b < 64 /\ b >= s /\ b - s \in x[k] \cap Ones(7)
    <3>1. x[k] \cap Ones(7) \subseteq Nat
      BY DEF Ones
    <3> QED BY <2>1, <3>1, ShlElement
  <2>3. b \in Nat => (b >= s /\ b - s \in Ones(7) <=> b \in s .. s + 6)
    BY <2>1 DEF Ones
  <2> QED BY <2>1, <2>2, <2>3
<1> QED BY <1>1, <1>2

\* The payload of an encoded value is the value.
LEMMA EncodeInverse ==
  ASSUME NEW t \in [w : {16, 32, 64}, signed : BOOLEAN], NEW v, v \subseteq Ones(t.w)
  PROVE  /\ Encode(v) \in Seq(SUBSET Ones(8)) /\ Len(Encode(v)) \in 1 .. val_len_max(t)
         /\ \A k \in 1 .. Len(Encode(v)) : 7 \in Encode(v)[k] <=> k < Len(Encode(v))
         /\ Payload(Encode(v), Len(Encode(v))) = v
<1> DEFINE e == Encode(v)
<1>1. PICK n \in Nat : n = EncodedLen(v) /\ n \in 1 .. val_len_max(t) /\ \A b \in v : b < 7 * n
  <2>1. val_len_max(t) \in Nat
    BY DEF val_len_max
  <2> QED BY <2>1, EncodedLenIs
<1>2. v \subseteq Nat /\ \A b \in v : b < 64
  BY DEF Ones
<1>3. e = [k \in 1 .. n |-> (Shr(v, 7 * (k - 1)) \cap Ones(7)) \cup (IF k < n THEN {7} ELSE {})]
  BY <1>1 DEF Encode
<1> HIDE DEF e
<1>4. ASSUME NEW k \in 1 .. n
      PROVE  /\ e[k] \subseteq Ones(8) /\ (7 \in e[k] <=> k < n)
             /\ \A j \in 0 .. 6 : j \in e[k] <=> j + 7 * (k - 1) \in v
  <2>1. e[k] = (Shr(v, 7 * (k - 1)) \cap Ones(7)) \cup (IF k < n THEN {7} ELSE {})
    BY <1>3
  <2>2. PICK s \in Nat : s = 7 * (k - 1)
    OBVIOUS
  <2>3. \A j : j \in Shr(v, s) <=> j \in Nat /\ j + s \in v
    BY <1>2, <2>2, ShrElement
  <2>4. Ones(7) = 0 .. 6 /\ Ones(8) = 0 .. 7
    BY DEF Ones
  <2> QED BY <2>1, <2>2, <2>3, <2>4
<1>5. e \in Seq(SUBSET Ones(8)) /\ Len(e) = n
  <2>1. e \in [1 .. n -> SUBSET Ones(8)]
    BY <1>3, <1>4
  <2> QED BY <2>1
<1>6. ASSUME NEW b
      PROVE  b \in Payload(e, n) <=> b \in v
  <2>1. b \in Payload(e, n) <=>
          \E k \in 1 .. n : b \in 7 * (k - 1) .. 7 * (k - 1) + 6 /\ b < 64 /\ b - 7 * (k - 1) \in e[k]
    BY <1>4, PayloadElement
  <2>2. ASSUME NEW k \in 1 .. n, b \in 7 * (k - 1) .. 7 * (k - 1) + 6
        PROVE  b - 7 * (k - 1) \in e[k] <=> b \in v
    <3>1. b - 7 * (k - 1) \in 0 .. 6 /\ (b - 7 * (k - 1)) + 7 * (k - 1) = b
      BY <2>2
    <3> QED BY <1>4, <3>1
  <2>3. ASSUME b \in v
        PROVE  \E k \in 1 .. n : b \in 7 * (k - 1) .. 7 * (k - 1) + 6
    <3>1. b \in Nat /\ b < 7 * n
      BY <1>1, <1>2, <2>3
    <3>2. PICK q \in Nat : 7 * q <= b /\ b <= 7 * q + 6
      BY <3>1, b \div 7 \in Nat /\ 7 * (b \div 7) <= b /\ b <= 7 * (b \div 7) + 6
    <3>3. PICK k \in 1 .. n : k - 1 = q
      BY <3>1, <3>2, q + 1 \in 1 .. n, (q + 1) - 1 = q
    <3>4. b \in 7 * (k - 1) .. 7 * (k - 1) + 6
      BY <3>1, <3>2, <3>3
    <3> QED BY <3>4
  <2> QED BY <1>2, <2>1, <2>2, <2>3
<1>7. Payload(e, n) = v
  BY <1>6
<1> QED BY <1>1, <1>4, <1>5, <1>7 DEF e

-----------------------------------------------------------------------------
(* Variable-length integers: the stream.                                   *)

\* The record s describes the bytes of b from p on.
Item(b, p, s) ==
  /\ s \in [t : Types, v : SUBSET Nat, n : Nat]
  /\ s.n \in 1 .. val_len_max(s.t)
  /\ \A k \in 1 .. s.n : b[p + k] \subseteq Ones(8) /\ (7 \in b[p + k] <=> k < s.n)
  /\ ZigzagDecode(s.t, Payload(Bytes(b, p, s.n), s.n)) = s.v

\* pos[i] is where the first i values of s end in b.
Stream(pos, b, s) ==
  /\ pos[0] = 0 /\ pos[Len(s)] = Len(b)
  /\ \A i \in 0 .. Len(s) : pos[i] \in 0 .. Len(b)
  /\ \A i \in 1 .. Len(s) : pos[i] = pos[i - 1] + s[i].n /\ Item(b, pos[i - 1], s[i])

\* What BadOffset and StopOffset should amount to for the value s.
Refused(s, src_len, follow) ==
  \/ src_len < s.n
  \/ s.n = val_len_max(s.t) /\ follow \cap Ones(4) # {}

LastCall(s, l) ==
  l.res \in {"ok", "EPROTO"} =>
    /\ l.item \in 1 .. Len(s)
    /\ l.res = "EPROTO" <=> Refused(s[l.item], l.src_len, l.follow)

VarintInv ==
  /\ buf \in Seq(SUBSET Ones(8))
  /\ sent \in Seq([t : Types, v : SUBSET Nat, n : Nat])
  /\ got \in Seq([t : Types, v : SUBSET Nat, n : Nat])
  /\ Len(got) <= Len(sent) /\ \A i \in 1 .. Len(got) : got[i] = sent[i]
  /\ \E pos : Stream(pos, buf, sent) /\ at = pos[Len(got)]
  /\ LastCall(sent, last)

LEMMA MaxLenIs ==
  ASSUME NEW t \in Types
  PROVE  val_len_max(t) \in {3, 5, 10} /\ t \in [w : {16, 32, 64}, signed : BOOLEAN]
BY TypesAssumption DEF val_len_max

\* An item stays where it is when bytes are appended.
LEMMA ItemKept ==
  ASSUME NEW b \in Seq(SUBSET Ones(8)), NEW x \in Seq(SUBSET Ones(8)), NEW p \in Nat, NEW s,
         Item(b, p, s), p + s.n <= Len(b)
  PROVE  Item(b \o x, p, s)
<1>1. s.n \in Nat /\ Len(b) \in Nat
  BY DEF Item
<1>2. \A k \in 1 .. s.n : (b \o x)[p + k] = b[p + k]
  <2> TAKE k \in 1 .. s.n
  <2>1. p + k \in 1 .. Len(b)
    BY <1>1
  <2> QED BY <2>1
<1>3. Bytes(b \o x, p, s.n) = Bytes(b, p, s.n)
  BY <1>2 DEF Bytes
<1> QED BY <1>2, <1>3 DEF Item

\* A stream whose first k values end as pos says.
StreamOn(pos, k, b, s) == \E q : Stream(q, b, s) /\ \A i \in 0 .. k : q[i] = pos[i]

\* A value behind the others.
LEMMA StreamGrows ==
  ASSUME NEW b \in Seq(SUBSET Ones(8)), NEW x \in Seq(SUBSET Ones(8)),
         NEW s \in Seq([t : Types, v : SUBSET Nat, n : Nat]), NEW pos, Stream(pos, b, s),
         NEW e, e.n = Len(x), Item(b \o x, Len(b), e)
  PROVE  StreamOn(pos, Len(s), b \o x, Append(s, e))
<1> PICK m \in Nat, n \in Nat, l \in Nat : m = Len(s) /\ n = Len(x) /\ l = Len(b)
  OBVIOUS
<1> DEFINE q == [i \in 0 .. m + 1 |-> IF i = m + 1 THEN l + n ELSE pos[i]]
<1>1. Len(Append(s, e)) = m + 1 /\ Append(s, e)[m + 1] = e /\ Len(b \o x) = l + n
  BY DEF Item
<1>2. \A i \in 1 .. m : Append(s, e)[i] = s[i]
  BY DEF Item
<1>3. q[m + 1] = l + n /\ \A i \in 0 .. m : q[i] = pos[i]
  OBVIOUS
<1> HIDE DEF q
<1>4. \A i \in 0 .. m : pos[i] \in 0 .. l
  BY DEF Stream
<1>5. \A i \in 0 .. m + 1 : q[i] \in 0 .. l + n
  <2>1. \A i \in 0 .. m + 1 : i = m + 1 \/ i \in 0 .. m
    OBVIOUS
  <2> QED BY <1>3, <1>4, <2>1
<1>6. ASSUME NEW i \in 1 .. m + 1
      PROVE  q[i] = q[i - 1] + Append(s, e)[i].n /\ Item(b \o x, q[i - 1], Append(s, e)[i])
  <2>1. CASE i = m + 1
    <3>1. q[i - 1] = l /\ q[i] = l + n
      <4>1. i - 1 = m /\ m \in 0 .. m
        BY <2>1
      <4> QED BY <1>3, <2>1, <4>1 DEF Stream
    <3> QED BY <1>1, <2>1, <3>1
  <2>2. CASE i # m + 1
    <3>1. i \in 1 .. m /\ i - 1 \in 0 .. m /\ i \in 0 .. m
      BY <2>2
    <3>2. pos[i] = pos[i - 1] + s[i].n /\ Item(b, pos[i - 1], s[i])
      BY <3>1 DEF Stream
    <3>3. pos[i - 1] \in Nat /\ pos[i - 1] + s[i].n <= Len(b)
      BY <1>4, <3>1, <3>2
    <3>4. Item(b \o x, pos[i - 1], s[i])
      BY <3>2, <3>3, ItemKept
    <3> QED BY <1>2, <1>3, <3>1, <3>2, <3>4
  <2> QED BY <2>1, <2>2
<1>7. q[0] = 0
  BY <1>3 DEF Stream
<1>8. Stream(q, b \o x, Append(s, e))
  BY <1>1, <1>3, <1>5, <1>6, <1>7 DEF Stream
<1> QED BY <1>3, <1>8 DEF StreamOn

\* What an encoder appends is an item.
LEMMA AppendedItem ==
  ASSUME NEW b \in Seq(SUBSET Ones(8)), NEW x \in Seq(SUBSET Ones(8)), NEW t \in Types,
         Len(x) \in 1 .. val_len_max(t),
         \A k \in 1 .. Len(x) : 7 \in x[k] <=> k < Len(x)
  PROVE  Item(b \o x, Len(b),
              [t |-> t, v |-> ZigzagDecode(t, Payload(x, Len(x))), n |-> Len(x)])
<1> PICK n \in Nat, l \in Nat : n = Len(x) /\ l = Len(b)
  OBVIOUS
<1>1. \A k \in 1 .. n : (b \o x)[l + k] = x[k] /\ x[k] \subseteq Ones(8)
  OBVIOUS
<1>2. Payload(Bytes(b \o x, l, n), n) = Payload(x, n)
  BY <1>1, PayloadSame DEF Bytes
<1>3. ZigzagDecode(t, Payload(x, n)) \in SUBSET Nat
  <2>1. Ones(t.w) \subseteq Nat
    BY MaxLenIs DEF Ones
  <2> QED BY <2>1 DEF ZigzagDecode, Xor
<1> DEFINE e == [t |-> t, v |-> ZigzagDecode(t, Payload(x, n)), n |-> n]
<1>4. e \in [t : Types, v : SUBSET Nat, n : Nat] /\ e.t = t /\ e.n = n
      /\ e.v = ZigzagDecode(t, Payload(x, n))
  BY <1>3
<1> HIDE DEF e
<1>5. Item(b \o x, l, e)
  BY <1>1, <1>2, <1>4 DEF Item
<1> QED BY <1>5 DEF e

\* One more value is sent, of the bytes x.
LEMMA SentOneMore ==
  ASSUME VarintInv, NEW x \in Seq(SUBSET Ones(8)), NEW t \in Types,
         Len(x) \in 1 .. val_len_max(t),
         \A k \in 1 .. Len(x) : 7 \in x[k] <=> k < Len(x),
         buf' = buf \o x,
         sent' = Append(sent, [t |-> t, v |-> ZigzagDecode(t, Payload(x, Len(x))), n |-> Len(x)]),
         UNCHANGED <<got, at, last>>
  PROVE  VarintInv'
<1>1. PICK e : e = [t |-> t, v |-> ZigzagDecode(t, Payload(x, Len(x))), n |-> Len(x)]
  OBVIOUS
<1>2. buf \in Seq(SUBSET Ones(8)) /\ sent \in Seq([t : Types, v : SUBSET Nat, n : Nat])
  BY DEF VarintInv
<1>3. Item(buf \o x, Len(buf), e) /\ e.n = Len(x)
  BY <1>1, <1>2, AppendedItem
<1>4. e \in [t : Types, v : SUBSET Nat, n : Nat]
  BY <1>3 DEF Item
<1>5. PICK pos : Stream(pos, buf, sent) /\ at = pos[Len(got)]
  BY DEF VarintInv
<1>6. PICK q : Stream(q, buf \o x, Append(sent, e)) /\ \A i \in 0 .. Len(sent) : q[i] = pos[i]
  <2>1. PICK b, s : b = buf /\ s = sent
    OBVIOUS
  <2>2. /\ b \in Seq(SUBSET Ones(8)) /\ s \in Seq([t : Types, v : SUBSET Nat, n : Nat])
        /\ Stream(pos, b, s) /\ e.n = Len(x) /\ Item(b \o x, Len(b), e)
    BY <1>2, <1>3, <1>5, <2>1
  <2>3. StreamOn(pos, Len(s), b \o x, Append(s, e))
    BY <2>2, StreamGrows
  <2> QED BY <2>1, <2>3 DEF StreamOn
<1>7. sent' = Append(sent, e) /\ buf' = buf \o x
  BY <1>1
<1>8. buf' \in Seq(SUBSET Ones(8)) /\ sent' \in Seq([t : Types, v : SUBSET Nat, n : Nat])
  BY <1>2, <1>4, <1>7
<1>9. PICK m \in Nat, g \in Nat : m = Len(sent) /\ g = Len(got) /\ g <= m
  BY DEF VarintInv
<1>10. Len(sent') = m + 1 /\ \A i \in 1 .. m : sent'[i] = sent[i]
  BY <1>2, <1>4, <1>7, <1>9
<1>11. Stream(q, buf', sent') /\ at' = q[Len(got')]
  BY <1>5, <1>6, <1>7, <1>9
<1>12. LastCall(sent', last')
  <2>1. LastCall(sent, last) /\ last' = last
    BY DEF VarintInv
  <2> QED BY <1>9, <1>10, <2>1 DEF LastCall
<1>13. Len(got') <= Len(sent') /\ \A i \in 1 .. Len(got') : got'[i] = sent'[i]
  BY <1>9, <1>10 DEF VarintInv
<1>14. got' \in Seq([t : Types, v : SUBSET Nat, n : Nat])
  BY DEF VarintInv
<1> QED BY <1>8, <1>11, <1>12, <1>13, <1>14 DEF VarintInv

\* A read stops at the end of its value, or behind what it was given.
LEMMA StopsAtEnd ==
  ASSUME buf \in Seq(SUBSET Ones(8)), at \in Nat, NEW s, Item(buf, at, s),
         at + s.n <= Len(buf), NEW src_len \in Nat, src_len >= 1
  PROVE  LET n == StopOffset(s.t, src_len)
         IN  /\ BadOffset(s.t, src_len, n) <=> Refused(s, src_len, src(s.n))
             /\ ~BadOffset(s.t, src_len, n) => n = s.n
<1> PICK m \in Nat, e \in Nat, t \in Types, l \in Nat :
      m = val_len_max(s.t) /\ e = s.n /\ t = s.t /\ l = Len(buf)
  <2>1. s.t \in Types /\ s.n \in Nat
    BY DEF Item
  <2>2. val_len_max(s.t) \in Nat
    BY <2>1, MaxLenIs
  <2>3. Len(buf) \in Nat
    OBVIOUS
  <2> QED BY <2>1, <2>2, <2>3
<1>1. e \in 1 .. m /\ at + e <= l
  BY DEF Item
<1>2. ASSUME NEW k \in 1 .. e
      PROVE  7 \in src(k - 1) <=> k < e
  <2>1. at + (k - 1) + 1 = at + k /\ at + k <= Len(buf)
    BY <1>1
  <2>2. src(k - 1) = buf[at + k]
    BY <2>1 DEF src
  <2> QED BY <2>2 DEF Item
<1>3. ASSUME NEW k \in 1 .. e - 1
      PROVE  BadOffset(t, src_len, k) <=> k > src_len
  BY <1>1 DEF BadOffset
<1>4. BadOffset(t, src_len, e) <=> Refused(s, src_len, src(s.n))
  BY <1>1 DEF BadOffset, Refused
<1> DEFINE Stops(k) == BadOffset(t, src_len, k) \/ 7 \notin src(k - 1)
<1>5. \A k \in 1 .. e - 1 : Stops(k) <=> k > src_len
  BY <1>2, <1>3
<1>6. Stops(e)
  BY <1>1, <1>2
<1>7. StopOffset(t, src_len) = CHOOSE n \in 1 .. m + 1 : Stops(n) /\ \A k \in 1 .. n - 1 : ~Stops(k)
  BY DEF StopOffset
<1> HIDE DEF Stops
<1>8. CASE src_len >= e
  <2>1. \A k \in 1 .. e - 1 : ~Stops(k)
    BY <1>5, <1>8
  <2>2. \A n \in 1 .. m + 1 : Stops(n) /\ (\A k \in 1 .. n - 1 : ~Stops(k)) => n = e
    BY <1>1, <1>6, <2>1
  <2>3. StopOffset(t, src_len) = e
    BY <1>1, <1>6, <1>7, <2>1, <2>2, e \in 1 .. m + 1
  <2> QED BY <1>4, <2>3
<1>9. CASE src_len < e
  <2>1. PICK d \in Nat : d = src_len + 1 /\ d \in 1 .. e
    BY <1>9
  <2>2. Stops(d) /\ \A k \in 1 .. d - 1 : ~Stops(k)
    <3>1. \A k \in 1 .. d - 1 : k \in 1 .. e - 1 /\ ~(k > src_len)
      BY <2>1
    <3>2. d = e \/ (d \in 1 .. e - 1 /\ d > src_len)
      BY <2>1
    <3> QED BY <1>5, <1>6, <3>1, <3>2
  <2>3. \A n \in 1 .. m + 1 : Stops(n) /\ (\A k \in 1 .. n - 1 : ~Stops(k)) => n = d
    BY <1>1, <2>1, <2>2
  <2>4. StopOffset(t, src_len) = d
    BY <1>1, <1>7, <2>1, <2>2, <2>3, d \in 1 .. m + 1
  <2>5. BadOffset(t, src_len, d)
    BY <2>1 DEF BadOffset
  <2> QED BY <1>9, <2>4, <2>5 DEF Refused
<1> QED BY <1>8, <1>9

\* A read of the next value.
LEMMA ReadKeeps ==
  ASSUME VarintInv, NEW src_len \in 1 .. Len(buf) - at, Read(src_len)
  PROVE  VarintInv'
<1>1. PICK pos : Stream(pos, buf, sent) /\ at = pos[Len(got)]
  BY DEF VarintInv
<1>2. /\ buf \in Seq(SUBSET Ones(8)) /\ sent \in Seq([t : Types, v : SUBSET Nat, n : Nat])
      /\ got \in Seq([t : Types, v : SUBSET Nat, n : Nat])
      /\ Len(got) <= Len(sent) /\ \A i \in 1 .. Len(got) : got[i] = sent[i]
  BY DEF VarintInv
<1>3. PICK g \in Nat, m \in Nat : g = Len(got) /\ m = Len(sent) /\ g < m
  BY <1>2 DEF Read
<1>4. PICK s : s = sent[g + 1]
  OBVIOUS
<1>5. pos[g + 1] = at + s.n /\ Item(buf, at, s) /\ at \in Nat /\ pos[g + 1] <= Len(buf)
  <2>1. g + 1 \in 1 .. m /\ g + 1 \in 0 .. m /\ g \in 0 .. m /\ g + 1 - 1 = g
    BY <1>3
  <2>2. pos[g] \in 0 .. Len(buf) /\ pos[g + 1] \in 0 .. Len(buf)
    BY <1>1, <1>3, <2>1 DEF Stream
  <2> QED BY <1>1, <1>3, <1>4, <2>1, <2>2 DEF Stream
<1> DEFINE n == StopOffset(s.t, src_len)
           bad == BadOffset(s.t, src_len, n)
<1>6. (bad <=> Refused(s, src_len, src(s.n))) /\ (~bad => n = s.n)
  BY <1>2, <1>5, src_len \in Nat /\ src_len >= 1, StopsAtEnd
<1>7. /\ last' = [res |-> IF bad THEN "EPROTO" ELSE "ok", src_len |-> src_len,
                  item |-> g + 1, follow |-> src(s.n)]
      /\ bad => UNCHANGED <<got, at>>
      /\ ~bad => /\ got' = Append(got, [t |-> s.t, n |-> n, v |->
                              ZigzagDecode(s.t, Payload([k \in 1 .. n |-> src(k - 1)], n))])
                 /\ at' = at + n
      /\ UNCHANGED <<buf, sent>>
  BY <1>3, <1>4 DEF Read
<1> HIDE DEF n, bad
<1>8. LastCall(sent', last')
  <2>1. /\ last'.res = (IF bad THEN "EPROTO" ELSE "ok") /\ last'.src_len = src_len
        /\ last'.item = g + 1 /\ last'.follow = src(s.n)
    BY <1>7
  <2>2. g + 1 \in 1 .. m
    BY <1>3
  <2> QED BY <1>3, <1>4, <1>6, <1>7, <2>1, <2>2 DEF LastCall
<1>9. CASE bad
  <2>1. got' = got /\ at' = at /\ buf' = buf /\ sent' = sent
    BY <1>7, <1>9
  <2> QED BY <1>1, <1>2, <1>8, <2>1 DEF VarintInv
<1>10. CASE ~bad
  <2>1. \A k \in 1 .. s.n : src(k - 1) = buf[at + k]
    <3>1. s.n \in Nat /\ at + s.n <= Len(buf) /\ Len(buf) \in Nat
      BY <1>2, <1>5 DEF Item
    <3>2. ASSUME NEW k \in 1 .. s.n
          PROVE  at + (k - 1) + 1 = at + k /\ at + k <= Len(buf)
      BY <1>5, <3>1
    <3> QED BY <3>2 DEF src
  <2>2. [k \in 1 .. n |-> src(k - 1)] = Bytes(buf, at, s.n)
    BY <1>6, <1>10, <2>1 DEF Bytes
  <2>3. [t |-> s.t, n |-> n, v |-> ZigzagDecode(s.t, Payload(Bytes(buf, at, s.n), n))] = s
    <3>1. s \in [t : Types, v : SUBSET Nat, n : Nat] /\ s.n = n
          /\ ZigzagDecode(s.t, Payload(Bytes(buf, at, s.n), n)) = s.v
      BY <1>5, <1>6, <1>10 DEF Item
    <3> QED BY <3>1
  <2>4. got' = Append(got, s) /\ at' = pos[g + 1] /\ s \in [t : Types, v : SUBSET Nat, n : Nat]
    BY <1>5, <1>6, <1>7, <1>10, <2>2, <2>3 DEF Item
  <2>5. got' \in Seq([t : Types, v : SUBSET Nat, n : Nat]) /\ Len(got') = g + 1
        /\ got'[g + 1] = s /\ \A i \in 1 .. g : got'[i] = got[i]
    BY <1>2, <1>3, <2>4
  <2>6. \A i \in 1 .. g + 1 : got'[i] = sent[i]
    <3>1. \A i \in 1 .. g + 1 : i = g + 1 \/ i \in 1 .. g
      OBVIOUS
    <3> QED BY <1>2, <1>3, <1>4, <2>5, <3>1
  <2>7. g + 1 <= Len(sent)
    BY <1>3
  <2>8. Stream(pos, buf', sent') /\ at' = pos[Len(got')]
    BY <1>1, <1>7, <2>4, <2>5
  <2> QED BY <1>2, <1>7, <1>8, <2>5, <2>6, <2>7, <2>8 DEF VarintInv
<1> QED BY <1>9, <1>10

\* A call that is refused with -EINVAL changes nothing but the result.
LEMMA RefusedKeeps ==
  ASSUME VarintInv, last' = [res |-> "EINVAL"], UNCHANGED <<buf, sent, got, at>>
  PROVE  VarintInv'
<1>1. LastCall(sent', last')
  BY DEF LastCall
<1> QED BY <1>1 DEF VarintInv

LEMMA VarintInvNext ==
  ASSUME VarintInv, [VarintNext]_varintVars
  PROVE  VarintInv'
<1>1. ASSUME NEW t \in Types, NEW v \in Values(t), Write(t, v)
      PROVE  VarintInv'
  <2>1. t \in [w : {16, 32, 64}, signed : BOOLEAN] /\ v \subseteq Ones(t.w)
    BY TypesAssumption, BytesAssumption
  <2>2. PICK z : z = ZigzagEncode(t, v) /\ z \subseteq Ones(t.w) /\ ZigzagDecode(t, z) = v
    BY <2>1, ZigzagInverse
  <2>3. PICK x : x = Encode(z)
    OBVIOUS
  <2>4. /\ x \in Seq(SUBSET Ones(8)) /\ Len(x) \in 1 .. val_len_max(t)
        /\ \A k \in 1 .. Len(x) : 7 \in x[k] <=> k < Len(x)
        /\ Payload(x, Len(x)) = z
    BY <2>1, <2>2, <2>3, EncodeInverse
  <2>5. /\ buf' = buf \o x
        /\ sent' = Append(sent, [t |-> t, v |-> ZigzagDecode(t, Payload(x, Len(x))), n |-> Len(x)])
        /\ UNCHANGED <<got, at, last>>
    BY <1>1, <2>2, <2>3, <2>4 DEF Write
  <2> QED BY <2>4, <2>5, SentOneMore
<1>2. ASSUME NEW t \in Types, WriteRefused(t)
      PROVE  VarintInv'
  BY <1>2, RefusedKeeps DEF WriteRefused
<1>3. ASSUME NEW t \in Types, NEW x \in Foreign, Len(x) <= val_len_max(t), Receive(t, x)
      PROVE  VarintInv'
  <2>1. /\ x \in Seq(SUBSET Ones(8)) /\ x # <<>>
        /\ \A k \in DOMAIN x : 7 \in x[k] <=> k < Len(x)
    BY BytesAssumption
  <2>2. Len(x) \in 1 .. val_len_max(t) /\ DOMAIN x = 1 .. Len(x)
    BY <1>3, <2>1, MaxLenIs, EmptySeq
  <2> QED BY <1>3, <2>1, <2>2, SentOneMore DEF Receive
<1>4. ASSUME NEW src_len \in 1 .. Len(buf) - at, Read(src_len)
      PROVE  VarintInv'
  BY <1>4, ReadKeeps
<1>5. CASE ReadNothing
  BY <1>5, RefusedKeeps DEF ReadNothing
<1>6. CASE UNCHANGED varintVars
  BY <1>6 DEF varintVars, VarintInv
<1> QED BY <1>1, <1>2, <1>3, <1>4, <1>5, <1>6 DEF VarintNext

LEMMA VarintInvInit == VarintInit => VarintInv
<1> SUFFICES ASSUME VarintInit
             PROVE  VarintInv
  OBVIOUS
<1>1. buf = <<>> /\ sent = <<>> /\ got = <<>> /\ at = 0 /\ last = [res |-> "none"]
  BY DEF VarintInit
<1>2. Stream([i \in {0} |-> 0], <<>>, <<>>)
  BY DEF Stream
<1>3. LastCall(sent, last)
  BY <1>1 DEF LastCall
<1>4. <<>> \in Seq(SUBSET Ones(8)) /\ <<>> \in Seq([t : Types, v : SUBSET Nat, n : Nat]) /\ Len(<<>>) = 0
  OBVIOUS
<1>5. \E pos : Stream(pos, buf, sent) /\ at = pos[Len(got)]
  BY <1>1, <1>2, <1>4, [i \in {0} |-> 0][0] = 0
<1> QED BY <1>1, <1>3, <1>4, <1>5 DEF VarintInv

LEMMA VarintInvImplies == VarintInv => ReadsWhatWasWritten
<1> SUFFICES ASSUME VarintInv
             PROVE  ReadsWhatWasWritten
  OBVIOUS
<1>1. got = SubSeq(sent, 1, Len(got))
  <2>1. /\ sent \in Seq([t : Types, v : SUBSET Nat, n : Nat])
        /\ got \in Seq([t : Types, v : SUBSET Nat, n : Nat])
        /\ Len(got) <= Len(sent) /\ \A i \in 1 .. Len(got) : got[i] = sent[i]
    BY DEF VarintInv
  <2>2. PICK g \in Nat : g = Len(got)
    BY <2>1
  <2>3. SubSeq(sent, 1, g) = [i \in 1 .. g |-> sent[i]]
    BY <2>1, <2>2
  <2>4. got = [i \in 1 .. g |-> got[i]]
    BY <2>1, <2>2
  <2> QED BY <2>1, <2>2, <2>3, <2>4
<1>2. LastCall(sent, last)
  BY DEF VarintInv
<1> QED BY <1>1, <1>2 DEF ReadsWhatWasWritten, LooksBehind, LastCall, Refused

\* A reader gets the values that were written, of all six types, in their order
\* and without losing its place, in a stream of every length and from whatever
\* part of it the reader was given; a value is refused exactly if it is cut, those
\* left out that are as long as their type allows with a low bit set in the byte
\* behind them (futils_varint_write, futils_varint_read).
THEOREM StreamIsRead == VarintSpec => []ReadsWhatWasWritten
<1>1. VarintInit => VarintInv
  BY VarintInvInit
<1>2. VarintInv /\ [VarintNext]_varintVars => VarintInv'
  BY VarintInvNext
<1>3. VarintInv => ReadsWhatWasWritten
  BY VarintInvImplies
<1> QED BY <1>1, <1>2, <1>3, PTL DEF VarintSpec

=============================================================================
