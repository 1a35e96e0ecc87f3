---------------------------- MODULE RandomCalls ----------------------------
(***************************************************************************)
(* The functions of random.c that turn pool bytes into values: integers,   *)
(* integers up to a maximum (rejection), strings of an alphabet and of     *)
(* base 16, 32 and 64, the shuffle; and rand_fetch, which gets bytes from  *)
(* the kernel.  A call is a loop over its locals; one step is one turn.    *)
(*                                                                         *)
(* A character is modelled by the random bits that select it: the number   *)
(* of the draw and the bits of the drawn word.  The alphabets of base 16,  *)
(* 32 and 64 are one-to-one, so two characters are independent if their    *)
(* bits are different ones.                                                *)
(***************************************************************************)
EXTENDS RandomDraw, Sequences, FiniteSets

CONSTANTS IntMax,       \* INT_MAX
          SizeMax,      \* SIZE_MAX
          Maxima,       \* pairs of a width and a maximum to draw up to
          Draws,        \* the bytes the pool may give, as words of 8 bits
          TextCalls,    \* records of the arguments of the string functions
          ShuffleCalls, \* pairs of nmemb and size
          FetchLens     \* lengths asked of futils_random_strong

ASSUME LimitsAssumption ==
  IntMax \in Nat /\ SizeMax \in Nat /\ SizeMax > IntMax + 8

\* The types of the arguments: words of the four widths, bytes, size_t.
ASSUME ArgumentsAssumption ==
  /\ \A m \in Maxima : m[1] \in {8, 16, 32, 64} /\ m[2] \subseteq Ones(m[1])
  /\ Draws \subseteq SUBSET Ones(8)
  /\ TextCalls \subseteq [fn : {"string", "base16", "base32", "base64"}, len : 0 .. SizeMax,
                         count : 0 .. SizeMax, alphalen : 0 .. SizeMax]
  /\ \A s \in ShuffleCalls : s[1] \in 0 .. SizeMax /\ s[2] \in 0 .. SizeMax
  /\ FetchLens \subseteq 0 .. SizeMax

VARIABLES job,  \* the function called and its arguments
          loc,  \* its locals
          ended \* "none" before a call, "running", then how it ended

callsVars == <<job, loc, ended>>

CallsInit == job = [fn |-> "none"] /\ loc = <<>> /\ ended = "none"

Start(j, l, r) == ended = "none" /\ job' = j /\ loc' = l /\ ended' = r

Running(fn) == ended = "running" /\ job.fn = fn

\* The caller has taken the result.
Return == /\ ended \notin {"none", "running"}
          /\ job' = [fn |-> "none"] /\ loc' = <<>> /\ ended' = "none"

\* A null pointer is refused by the inline wrappers of random.h, by
\* futils_random_strong and by futils_random_shuffle.
NullArgument == Start([fn |-> "null"], <<>>, "EINVAL")

-----------------------------------------------------------------------------
(* Integers.                                                               *)

\* Pool bytes for a draw of n: all alike but one.
PoolBytes(n) == {[i \in 0 .. n - 1 |-> IF i = j THEN x ELSE y] :
                   j \in 0 .. n - 1, x \in Draws, y \in Draws}

\* futils_randomr8 to 64; futils_randomrd draws 56 bits and drops 3,
\* futils_randomrf draws 24.
futils_randomr ==
  \E d \in {<<1, 0>>, <<2, 0>>, <<4, 0>>, <<8, 0>>, <<7, 3>>, <<3, 0>>} :
    \E bytes \in PoolBytes(d[1]) :
      Start([fn |-> "randomr", bits |-> 8 * d[1] - d[2]],
            [val |-> Shr(pool_randN(bytes), d[2])], "ok")

\* futils_randomrN_maximum and futils_randomN_maximum.
futils_random_maximum(w, maximum) ==
  Start([fn |-> "maximum", w |-> w, maximum |-> maximum], [val |-> {}],
        IF DrawBytes(w, maximum) = 0 THEN "ok" ELSE "running")

\* A turn of _pool_rand_maximum: draw, mask, and again if above the maximum.
pool_rand_maximum(bytes) ==
  /\ Running("maximum")
  /\ loc' = [val |-> pool_randN(bytes) \cap p2minus1(job.maximum)]
  /\ ended' = IF LeqWord(loc'.val, job.maximum) THEN "ok" ELSE "running"
  /\ UNCHANGED job

-----------------------------------------------------------------------------
(* Strings.                                                                *)

TextCalled == job.fn \in {"string", "base16", "base32", "base64"}

Wrap(n) == n % (SizeMax + 1)

\* Characters of the whole string, computed in size_t.
Total(fn, count) ==
  CASE fn = "string" -> count
    [] fn = "base16" -> Wrap(count * 2)
    [] fn = "base32" -> Wrap((Wrap(count + 4) \div 5) * 8)
    [] fn = "base64" -> Wrap((Wrap(count + 2) \div 3) * 4)

\* The counts refused with -EINVAL.
TooLong(fn, count) ==
  \/ fn = "base16" /\ count > (IntMax + 1) \div 2
  \/ fn = "base32" /\ (\/ count > SizeMax - 4
                       \/ (count + 4) \div 5 > (IntMax + 7) \div 8)
  \/ fn = "base64" /\ (\/ count > SizeMax - 2
                       \/ (count + 2) \div 3 > (IntMax + 3) \div 4)
  \/ Total(fn, count) > IntMax

\* A character chosen by bits of the current draw, '=' and the end of string.
Char(bits) == [draw |-> loc.draws, bits |-> bits]
Pad == [draw |-> -1, bits |-> {}]
Nul == [draw |-> -2, bits |-> {}]

\* Nothing is written: refused, or a buffer of no bytes.
Unwritten(t) == TooLong(t.fn, t.count) \/ t.len = 0

\* An empty alphabet gives the empty string.
NoAlphabet(t) == t.fn = "string" /\ t.alphalen = 0

\* A call with a buffer of t.len bytes.
TextCall(t) ==
  LET total == IF NoAlphabet(t) THEN 0 ELSE Total(t.fn, t.count)
  IN  Start(t,
            [text   |-> IF ~Unwritten(t) /\ NoAlphabet(t) THEN <<Nul>> ELSE <<>>,
             ps     |-> IF total > t.len - 1 THEN t.len - 1 ELSE total,
             c      |-> t.count,
             draws  |-> 0,
             result |-> total],
            IF TooLong(t.fn, t.count) THEN "EINVAL"
            ELSE IF Unwritten(t) \/ NoAlphabet(t) THEN "ok" ELSE "running")

\* The bits of the n characters of w bits of a word that is shifted by step
\* after each of them.
Chars(n, w, step) == [i \in 1 .. n |-> Char((i - 1) * step .. (i - 1) * step + w - 1)]

\* Mutant: the last character keeps the low bits.
LastBlob_low(n, w, step) ==
  LET whole == (loc.c * 8) \div w
      remaining == loc.c * 8 - whole * w
      at == whole * step
  IN  Chars(whole, w, step)
        \o <<Char(at .. at + w - remaining - 1)>>
        \o [i \in 1 .. n - whole - 1 |-> Pad]

\* The last blob of n characters for loc.c bytes: whole characters, one that
\* keeps only its `remaining` high bits, and padding.
LastBlob(n, w, step) ==
  LET whole == (loc.c * 8) \div w
      remaining == loc.c * 8 - whole * w
      at == whole * step
  IN  Chars(whole, w, step)
        \o <<Char(at + w - remaining .. at + w - 1)>>
        \o [i \in 1 .. n - whole - 1 |-> Pad]

\* memcpy() of what fits; c bytes are left to generate.
Copy(blob, c) ==
  LET bs == IF Len(blob) > loc.ps THEN loc.ps ELSE Len(blob)
  IN  loc' = [loc EXCEPT !.text  = @ \o SubSeq(blob, 1, bs),
                         !.ps    = @ - bs,
                         !.c     = c,
                         !.draws = @ + 1]

\* The condition of the loops.
MoreText == loc.ps > 0 /\ (job.fn \in {"base32", "base64"} => loc.c > 0)

\* One draw of up to the maximal index per character.
StringChar ==
  /\ Running("string") /\ MoreText
  /\ Copy(<<Char({"index"})>>, loc.c - 1)
  /\ UNCHANGED <<job, ended>>

\* 16 characters for each 64-bit draw, fewer for the last.
Base16Blob ==
  /\ Running("base16") /\ MoreText
  /\ Copy(Chars(16, 4, 4), loc.c)
  /\ UNCHANGED <<job, ended>>

Base32Blob ==
  /\ Running("base32") /\ MoreText
  /\ IF loc.c >= 5 THEN Copy(Chars(8, 5, 5), loc.c - 5)
                   ELSE Copy(LastBlob(8, 5, 5), 0)
  /\ UNCHANGED <<job, ended>>

\* The last blob is shifted by 3 bits per character, not by 6.
Base64Blob ==
  /\ Running("base64") /\ MoreText
  /\ IF loc.c >= 3 THEN Copy(Chars(4, 6, 6), loc.c - 3)
                   ELSE Copy(LastBlob(4, 6, 3), 0)
  /\ UNCHANGED <<job, ended>>

\* The loops are over: write the NUL and return the full length.
Terminate ==
  /\ ended = "running" /\ TextCalled /\ ~MoreText
  /\ ended' = "ok"
  /\ loc' = [loc EXCEPT !.text = Append(@, Nul)]
  /\ UNCHANGED job

-----------------------------------------------------------------------------
(* Shuffle.                                                                *)

\* nmemb items of the given size, numbered as they lie; items of more than 8
\* bytes are swapped through memory from malloc(), which may fail.
futils_random_shuffle(nmemb, size) ==
  \E allocated \in BOOLEAN :
    Start([fn |-> "shuffle", nmemb |-> nmemb],
          [arr |-> [i \in 0 .. nmemb - 1 |-> i], u |-> 0, picks |-> <<>>,
           heap |-> allocated /\ nmemb >= 2 /\ size > 8],
          CASE nmemb < 2 \/ size = 0 -> "ok"
            [] nmemb >= 2 /\ size > 8 /\ ~allocated -> "ENOMEM"
            [] OTHER -> "running")

Swap(u, v) == [loc.arr EXCEPT ![u] = loc.arr[v], ![v] = loc.arr[u]]

\* Mutant: the item is taken from the whole array.
ShuffleSwap_any ==
  /\ Running("shuffle")
  /\ loc.u < job.nmemb - 1
  /\ \E r \in 0 .. job.nmemb - 1 :
       loc' = [loc EXCEPT !.arr = Swap(loc.u, r), !.u = @ + 1, !.picks = Append(@, r)]
  /\ UNCHANGED <<job, ended>>

\* Place u gets the item r places further on.  (r = 0 skips the copies.)
ShuffleSwap ==
  /\ Running("shuffle")
  /\ loc.u < job.nmemb - 1
  /\ \E r \in 0 .. job.nmemb - 1 - loc.u :
       loc' = [loc EXCEPT !.arr = Swap(loc.u, loc.u + r), !.u = @ + 1, !.picks = Append(@, r)]
  /\ UNCHANGED <<job, ended>>

ShuffleEnd ==
  /\ Running("shuffle")
  /\ loc.u = job.nmemb - 1
  /\ loc' = [loc EXCEPT !.heap = FALSE]
  /\ ended' = "ok"
  /\ UNCHANGED job

-----------------------------------------------------------------------------
(* rand_fetch, as futils_random_strong calls it.  Interrupted calls are    *)
(* repeated: EINTR changes nothing.                                        *)

\* cells[i] counts the times that byte i of the buffer was written.
futils_random_strong(len) ==
  \E at \in {"getrandom", "open"} :     \* HAVE_GETRANDOM or not
    Start([fn |-> "fetch", len |-> len],
          [cells |-> [i \in 0 .. len - 1 |-> 0], p |-> 0, at |-> at, fd |-> FALSE],
          IF len = 0 THEN "EINVAL" ELSE "running")

\* n bytes arrived at p; p advances.
Filled(n) ==
  [loc EXCEPT !.cells = [i \in DOMAIN @ |->
                           IF i \in loc.p .. loc.p + n - 1 THEN @[i] + 1 ELSE @[i]],
              !.p = @ + n]

Missing == job.len - loc.p

\* Mutant: what getrandom() gave is forgotten when it stops half way.
Getrandom_restart ==
  /\ Running("fetch") /\ loc.at = "getrandom"
  /\ \/ \E n \in 1 .. Missing :
          /\ loc' = Filled(n)
          /\ ended' = IF n = Missing THEN "ok" ELSE "running"
     \/ /\ loc' = [loc EXCEPT !.at = "open", !.p = 0]
        /\ UNCHANGED ended
  /\ UNCHANGED job

\* Any error, and 0 bytes, fall back to the device for what is missing.
Getrandom ==
  /\ Running("fetch") /\ loc.at = "getrandom"
  /\ \/ \E n \in 1 .. Missing :
          /\ loc' = Filled(n)
          /\ ended' = IF n = Missing THEN "ok" ELSE "running"
     \/ /\ loc' = [loc EXCEPT !.at = "open"]
        /\ UNCHANGED ended
  /\ UNCHANGED job

OpenDevice ==
  /\ Running("fetch") /\ loc.at = "open"
  /\ \/ loc' = [loc EXCEPT !.at = "read", !.fd = TRUE] /\ UNCHANGED ended
     \/ loc' = loc /\ ended' = "errno"
  /\ UNCHANGED job

\* The loop ends when the buffer is full, on an error or at the end of file;
\* each way the descriptor is closed.
ReadDevice ==
  /\ Running("fetch") /\ loc.at = "read"
  /\ \/ \E n \in 1 .. Missing :
          /\ loc' = [Filled(n) EXCEPT !.fd = n < Missing]
          /\ ended' = IF n = Missing THEN "ok" ELSE "running"
     \/ \E e \in {"errno", "EAGAIN"} :
          /\ loc' = [loc EXCEPT !.fd = FALSE]
          /\ ended' = e
  /\ UNCHANGED job

-----------------------------------------------------------------------------

CallsNext ==
  \/ /\ ended = "none"
     /\ \/ NullArgument \/ futils_randomr
        \/ \E m \in Maxima : futils_random_maximum(m[1], m[2])
        \/ \E t \in TextCalls : TextCall(t)
        \/ \E s \in ShuffleCalls : futils_random_shuffle(s[1], s[2])
        \/ \E len \in FetchLens : futils_random_strong(len)
  \/ /\ Running("maximum")
     /\ \E bytes \in PoolBytes(DrawBytes(job.w, job.maximum)) : pool_rand_maximum(bytes)
  \/ StringChar \/ Base16Blob \/ Base32Blob \/ Base64Blob \/ Terminate
  \/ ShuffleSwap \/ ShuffleEnd
  \/ Getrandom \/ OpenDevice \/ ReadDevice
  \/ Return

CallsSpec == CallsInit /\ [][CallsNext]_callsVars

-----------------------------------------------------------------------------
(* Properties.                                                             *)

Finished == ended \notin {"none", "running"}

\* A value up to a maximum is drawn fairly (pool_rand8_maximum to 64): the
\* bytes drawn fit the type, so abort() is not reached; every bit of the mask
\* is a random one, so all masked values are equally likely; the mask has all
\* the bits of values up to the maximum and none above its highest bit, so
\* every value can come out and more than half of the draws are accepted; and
\* what is returned is not above the maximum.
DrawIsFair ==
  job.fn = "maximum" =>
    LET mask == p2minus1(job.maximum)
        n == DrawBytes(job.w, job.maximum)
    IN  /\ 8 * n <= job.w
        /\ mask \subseteq Ones(8 * n)
        /\ \A b \in Ones(job.w) : b \in mask <=> \E m \in job.maximum : m >= b
        /\ ended = "ok" => LeqWord(loc.val, job.maximum)

\* The length of the whole string, in integers that do not overflow.
FullLength(fn, count) ==
  CASE fn = "string" -> count
    [] fn = "base16" -> 2 * count
    [] fn = "base32" -> 8 * ((count + 4) \div 5)
    [] fn = "base64" -> 4 * ((count + 2) \div 3)

\* As snprintf does (random.h:330): a call is refused exactly if its result does
\* not fit an int, whatever overflows on the way; else it returns the full
\* length, writes what fits, always with a NUL behind, and nothing beyond the
\* buffer.
AsSnprintf ==
  LET full == IF NoAlphabet(job) THEN 0 ELSE FullLength(job.fn, job.count)
      fits == IF full < job.len THEN full ELSE job.len - 1
  IN  /\ ended = "EINVAL" <=> FullLength(job.fn, job.count) > IntMax
      /\ Len(loc.text) <= job.len
      /\ ended = "ok" => loc.result = full
      /\ ended = "ok" /\ job.len > 0 =>
           /\ Len(loc.text) = fits + 1
           /\ \A i \in DOMAIN loc.text : loc.text[i] = Nul <=> i = fits + 1

CharBits(i) == {<<loc.text[i].draw, b>> : b \in loc.text[i].bits}

\* The characters are independent, no random bit being used for two, and a
\* string that was not cut carries as many random bits as `count` bytes have.
OwnBits ==
  /\ \A i, j \in DOMAIN loc.text : i < j => CharBits(i) \cap CharBits(j) = {}
  /\ job.fn # "string" /\ Len(loc.text) = loc.result + 1 =>
       Cardinality(UNION {CharBits(i) : i \in DOMAIN loc.text}) = 8 * job.count

\* A base64 string whose last blob is made of two bytes.
TwoByteTail == job.fn = "base64" /\ job.count % 3 = 2

\* futils_random_string and the base16, base32 and base64 strings: a call that
\* ends has behaved as snprintf does, without overflow of size_t or int, and
\* has used every random bit for one character only.  Of the bits of a base64
\* string with a TwoByteTail nothing is said here: see StringCarriesItsBytes.
StringAsPromised ==
  TextCalled /\ Finished => AsSnprintf /\ (ended = "ok" /\ ~TwoByteTail => OwnBits)

\* "number of bytes to generate" (random.h:396), "4 * 6 bits for 3 * 8 bits"
\* (random.c:1315), of every string: a base64 string of 3 * n + 2 bytes
\* carries 4 bits less, and the last characters share some (random.c:1356).
StringCarriesItsBytes == TextCalled /\ ended = "ok" => OwnBits

PlaceOf(arr, x) == CHOOSE i \in DOMAIN arr : arr[i] = x

\* A shuffle keeps the items, and every order of them is the outcome of one
\* sequence of draws only, so all are equally likely: the draws can be read
\* back from the final array (before[u] is the array as it was before step u:
\* the item left at u - 1 was moved there in that step).  A shuffle that
\* fails has moved nothing, and the buffer for large items is freed
\* (futils_random_shuffle).
ShuffleIsFair ==
  job.fn = "shuffle" =>
    LET items == 0 .. job.nmemb - 1
        before[u \in items] ==
          IF u = 0 THEN [i \in items |-> i]
          ELSE LET a == before[u - 1]
                   v == PlaceOf(a, loc.arr[u - 1])
               IN  [a EXCEPT ![u - 1] = a[v], ![v] = a[u - 1]]
    IN  /\ {loc.arr[i] : i \in items} = items
        /\ Finished => ~loc.heap
        /\ ended = "ENOMEM" => \A i \in items : loc.arr[i] = i
        /\ ended = "ok" => \A u \in 0 .. Len(loc.picks) - 1 :
                           PlaceOf(before[u], loc.arr[u]) = u + loc.picks[u + 1]

\* futils_random_strong returns 0 if and only if every byte of the buffer was
\* written, and then once, although getrandom() and read() give any part of
\* what is asked and may stop half way; the device is closed again.
FetchFills ==
  job.fn = "fetch" /\ Finished /\ job.len > 0 =>
    /\ ended = "ok" <=> \A i \in DOMAIN loc.cells : loc.cells[i] = 1
    /\ ~loc.fd

=============================================================================
