# A TLA+ model of libfutils

libfutils is a C library of small utilities: mailboxes between threads, safe
replacement of files, random numbers, variable-length integers, clocks, hash
tables and lists.  This directory holds TLA+ modules that model its parts, the
TLC configurations that check them on small instances, and proofs, checked by
TLAPS, of the results that hold for every instance.

Paths below are relative to the repository, checked out as `src/` (so the
library's own sources are in `src/src/`).

## The system

| Part | State | Operations | Interacts with | Hard behaviour |
|---|---|---|---|---|
| `dynmbox` | byte ring, mutex, condition variable, pipe | new, destroy, push, push_block, peek, get_read_fd | threads of the application; `timetools` for deadlines; `fdutils` | interleaving of producers and consumer, notification outside the lock, waiting and time-outs, wrap of the ring, a full pipe |
| `mbox` | a non-blocking pipe, message size | new, destroy, push, push_block, peek | threads; `fdutils` | atomicity of pipe writes, poll() then write(), EINTR |
| `safew` | four files, a stdio stream, a failure flag | fopen, fwrite, fprintf, rollback, commit with and without CRC, file_check | the file system | crashes between calls, data not on the disk, errors half way |
| `random` | per-thread pool (buffer, key, nonce), global seed era | bytes, integers, strings of base 16/32/64, shuffle, reseed | kernel entropy, fork | stale pools, boundaries of rejection sampling, the last symbols of a string |
| `varint` | none (the caller's buffer) | read and write of signed and unsigned integers of 16 to 64 bits | - | ends of buffers, boundaries of every length |
| `timetools` | none | conversions, differences, comparisons of timespec and timeval | `dynmbox` | normalisation, signs, overflow |
| `systimetools` | a time context | set/get of the system time, parse and format of dates | `timetools` | sequence of calls, out-of-range fields |
| `hash`, `list` | buckets and insertion list; intrusive links | insert, lookup, remove, walk | each other | removal while walking, duplicate keys |
| `synctools` | none | sync of a file and its folder | the file system | an error hidden by a later success |
| `string`, `fs`, `fdutils`, `inotify`, C++ wrappers | none | copies, joins, stat, fcntl, one callback | - | little: calls of the C library in a row |

What makes each correct:

* **dynmbox**: messages arrive whole and in order; no assertion of the ring
  code fails; a blocked producer is woken when there is room; the descriptor is
  readable if there is a message, and only then; a failed creation leaks
  nothing.
* **mbox**: messages arrive whole and in order although several threads write;
  a time-out means that nothing was written.
* **safew**: at any moment and after any crash the file is the previous or the
  new one; what a commit with a CRC that returned 0 has written is there after
  the next check, whatever a crash undoes; recovery leaves a payload with its
  CRC or nothing.
* **random**: no byte is served twice, in two threads or on both sides of a
  fork; every value below the maximum can come out, and equally often.
* **varint**: reading what was written gives it back; no access outside the
  buffer.
* **timetools, systimetools**: results are normalised and agree with integer
  arithmetic; a date survives formatting and parsing.
* **hash, list**: the table is a function; the links are well formed after
  every operation.

## Plan

1. `RingBuf`, `Dynmbox`, `Mailbox` (done, with proofs): the part with real
   concurrency.
2. `Safew` (done, with proofs): the part with crashes.
3. `Mbox` (done, with proofs): pipe-based mailbox, against the same abstract
   `Mailbox`; `MboxWin` (done, with proofs): its Windows variant.
4. `RandomPool` (done, with proofs): pool, seed era, fork and reseed;
   `RandomDraw` and `RandomCalls` (done, with proofs): the calls on top of it.
5. `Varint` (done, with proofs); `Timetools` (done, with proofs), with the
   32-bit deadline product of `dynmbox_push_block`; `Systimetools` (done, with
   proofs).
6. `Hash` with the list operators it uses (done, with proofs).

Every safety property that a passing run checks is also a theorem.  Left for
later: the Windows half of `dynmbox`, and the operations of `list.h` that no
component uses.

## Modules

| Module | Models |
|---|---|
| `RingBuf` | `rbuf_*` of `dynmbox.c`: copies in and out of the circular buffer, cut in two at its end; the little-endian message header |
| `Dynmbox` | the mailbox: `dynmbox_new/destroy/push/push_block/peek`, mutex, condition variable, notification pipe |
| `Mailbox` | abstract specification: a queue of whole messages |
| `MCDynmbox` | constants for TLC |
| `DynmboxProofs` | what a ring write or read does to the unread bytes; the inductive invariant of `Dynmbox`, and the theorems |
| `Safew`, `MCSafew` | safe file replacement, the file system it needs, crashes |
| `SafewProofs`, `MboxProofs`, `MboxWinProofs`, `RandomPoolProofs`, `HashProofs` | inductive invariants and theorems about the module of that name |
| `TimetoolsProofs` | the same for `Timetools` and `Systimetools` |
| `ValuesProofs` | the same for `RandomCalls` and `Varint` |
| `Mbox`, `MCMbox` | the POSIX mailbox over a pipe |
| `MboxWin`, `MCMboxWin` | the Windows mailbox over a pair of sockets |
| `RandomPool`, `MCRandomPool` | the pools of the pseudo-random generator |
| `Words` | unsigned machine words as sets of bits |
| `RandomDraw` | words made of pool bytes; mask and byte count of a value up to a maximum |
| `RandomCalls`, `MCRandomCalls` | integers, strings, shuffle and entropy fetch, each call step by step |
| `Varint`, `MCVarint` | variable-length integers written and read one behind the other |
| `MCRandomValues` | `RandomPool`, `RandomCalls`, `Varint` and `Timetools` side by side in one run |
| `Timetools`, `MCTime` | timespec arithmetic, the deadline of a blocking push, monotonic to real time |
| `Systimetools`, `MCDate` | parsing, formatting and converting dates; the time context |
| `FutilsList` | the operators of `list.h` on a memory of links |
| `Hash`, `MCHash` | the hash table, and walks of its entries |
| `KeyMap` | abstract specification: a partial function from keys to data, and what the calls answer |
| `MCHashDate` | `Hash` and `Systimetools` side by side in one run |

### RingBuf and Dynmbox

A ring is a record of `bufmem`, read index, write index and `used`.  A mailbox
call is cut into actions at the points where another thread can see a
difference: taking the mutex with the test that follows it, each of the two
ring copies (header, data), each system call on the pipe, each state of the
condition wait.  `ppc[p]` and `cpc` are the program counters; `lock` is the
owner of the mutex.  The following are modelled as the code does them:

* `push_notify` runs after the mutex is released; a write to a full pipe is
  only logged;
* a peek of an empty ring returns `-EAGAIN` without reading the pipe, and
  `pop_notify` on an empty pipe only logs;
* one `pthread_cond_signal` per message read; a waiter may wake for no reason
  (it tests again) or because its deadline passed (it returns without testing);
* the failure labels of `dynmbox_new`, and `gettimeofday()` failing before a
  timed push has taken the mutex (`PushNoClock`).

The header `dynmbox.h` asks for one producer and the code enforces nothing;
since the mutex makes several possible, `Producers` is any finite set.  The
constant `Policy` says when the consumer calls peek: once per readable
descriptor, until `-EAGAIN`, or at any time.

`queue` and `offs` are history variables: the messages pushed and not yet read,
and where their frames start.  They are what the invariants compare the bytes
of the ring with, and `queue` is the refinement mapping to `Mailbox`.

`PipeCapAssumption` says that the pipe holds a byte for every message the ring
can hold and one for each producer.  With the code's constants that is 16384
messages against the 65536 bytes of a Linux pipe.

Not modelled: the Windows socket pair that replaces the pipe; the deadline
computed by `dynmbox_push_block` (a timed wait may expire at any moment, and
`PushDeadline` of `Timetools` has the arithmetic);
failures of `pthread_mutex_*`, which the code does not look at.  The comment at
`dynmbox.c:258` announces CLOEXEC on both ends and NONBLOCK on the read end;
the code sets NONBLOCK on both and CLOEXEC on the read end only.  The model
follows the code (a full pipe makes the write fail, it does not block).

### Safew

One action per call that changes the file system, so that a crash can come
between any two.  A payload is a sequence of chunks; a CRC file is empty or
holds the CRC of a payload, with the hash taken to be injective.  `buf` is the
stdio buffer, `dirty` the files whose data are not on the disk: a crash loses
the first and cuts the second to any prefix.  `Faults` names the calls that may
fail, `CrashAt` the places where the system may stop.  An application that
commits with a CRC calls `futils_safew_file_check` after every restart, as
`safew.h` asks.

The code fsync()s its two temporary files and never a directory
(`safew.c:275-279`), so that a creation, a rename or a removal is not on the disk
when it returns, nor when the commit returns 0.  `past` holds the directories
there have been since the last `fsync()` of a file, and a crash brings back any of
them, or the present one.  Assumed is only their order, on which the code relies
in its own words ("the check and recovery of payload/crc pairs rely on the order
of file's manipulations"): what a crash keeps is what the directory was at one
moment, and an `fsync()` of a file puts everything before it on the disk, as on a
file system with one ordered journal.  A file system that does not keep this
order is outside of the model.  Further assumptions: `unlink()` of an existing
file succeeds; the names fit in their buffers.

What a commit that returned 0 means under this assumption is
`CommittedIsDurable`.  With a CRC its renames may be undone, alone or both, and
crc.tmp and payload.tmp are then there again, complete, because both were
fsync()ed before the renames: the next check finds the temporary pair and renames
it again, so that the new contents are in place before the check unlinks
anything.  Without a CRC nothing looks at payload.tmp after a crash, and the
previous payload is back: the contents stay until a crash (or until the next
session's `fsync()`), and this is all the property says.  In between, with the
renames undone and no check yet, the payload is the one before
(`TakenBack`).

`getc()` may fail while a payload is read: `crc_from_fhd` (`safew.c:55`) takes the
error for the end of the file and the functions above it return 0.  A commit may
then put a wrong CRC on the disk and return 0, and a check may take a good pair
for a bad one and erase it.

`with_crc` is chosen at the start and kept.  `excused` is a history variable: it
becomes TRUE when something happens after which a check may erase the payload
(a commit that fails after the CRC names were built, a read error, a file that
the check cannot open or rename, a crash that brings back the directory between
the creation of crc.tmp and its fsync or inside a recovery) and FALSE again at the
next successful commit.  `PreviousOrNewOutsideWindows` is thus the promise of the
code with its exact exceptions, and without CRC there are none but `TakenBack`;
`safew_failedcommit` shows the first of them against the line that does not
mention it.

### Mbox and MboxWin

`Mbox` keeps the bytes of the pipe.  `write()` takes all or nothing of at most
PIPE_BUF bytes (and as much as fits of more, which `mbox_new` is there to
prevent); `poll()` reports room for PIPE_BUF bytes; `read()` takes what there
is.  A push_block is two steps, poll() and write(), with other threads in
between.  EINTR repeats the call and is a stuttering step.  For
`poll` the code repeats it with the whole timeout, so `timeout_ms` is no bound
on how long a call lasts; the model has no clock, a timed `poll` may expire at
any moment, and `poll` may fail with another error (`PollFails`), which the call
returns before it has written.  `Queued` cuts the bytes into messages: the
refinement mapping to `Mailbox`.  The end of file that `mbox_peek` maps to
`-EPIPE` needs a closed write end, which exists as long as the box.

`MboxWin` models the other half of the file.  A byte is a pair of message and
position, so that a property can see where a message is cut.  `send()` takes
what fits into the socket buffers, as the loop of the Windows `mbox_push_block`
expects; `recv()` returns what is there, up to a message.  A peek between two
`send()`s therefore returns 0 with part of a message, and an `mbox_push` on
nearly full sockets sends part of one and returns 0: this is what the code does,
and `broken` records when a message was left unfinished or another one went into
the middle of it.  `StreamHasNoGap` says that nothing else damages the stream.

### RandomPool

Bytes are modelled by their origin, not their value: a kernel seed `s` is the
key `<<s>>`, byte `i` of the stream of key `k` is `Append(k, i)`, and a key made
of pool bytes has the name of the first one.  Reuse of a byte, in one thread or
across `fork()`, is then equality of names.  The pool itself (remaining bytes to
the front, refill, new key from the front, clearing) is kept cell by cell with
smaller sizes.  A request is two steps, reading the era and seeding if needed;
a reseed is two, beginning an era and seeding; either may lose the race with
the other.  `rand_fetch` succeeds or fails as a whole; a failure in a request
is `abort()`.  `InitEras` holds the values of `seed_era` to begin with: 1, or one
of a process that has reseeded many times before its present threads were made.
Atomic operations are sequentially consistent in the model.

### FutilsList and Hash

A pointer is the name of a cell.  `ent` holds the allocated entries (key, data,
const flag, next in the chain), `links` the list nodes of all cells and of the
head, and every operator of `FutilsList` gives the memory after a call of
`list.h`.  `Search` is the loop common to insertion, lookup and removal, on the
bucket given by the djb2 hash of the key, computed on 32 bits.  `remove_all` is
one step per entry and per bucket.  A walk is a loop of the application: one
step per turn, its variables `pos` and `tmp` kept between, and the body may
remove the entry at `pos` and insert others (an entry that a backward walk has
passed the place of is not visited).  What the body may not do is remove the
entry at `tmp`, which the macro has already read.

A refused insertion allocates its entry, searches, and frees it again
(`InsertExists`).  `asked` and `ret` are the last call with its key and what it
returned: `KeyMap` says for each call and key which answers the partial function
allows, so that a lookup or a removal of a key that is there cannot be refused
(-EPERM, for const data, is the one exception), an insertion is refused with
-EEXIST exactly if the key is there, and a missing key gives -ENOENT.
`futils_hash_remove_all` empties the function key by key.

`order` (entries as inserted), `snap` and `visited` (what a walk should come to
and has) and `owned` (objects that are not in the table) are histories.  `hfree`
is called with the data of an entry, const or not; either way the object is
the application's again.

### Words, RandomDraw and RandomCalls

A word is the set of its bits, so that 64-bit values are exact although TLC's
integers have 32 bits, and `|`, `&`, `^`, shifts and comparison are set
expressions.  `RandomCalls` has one call at a time: `job` is the call, `loc` its
local variables, `ret` its result.  Pool bytes are inputs (`RandomPool` says
where they come from), taken from the corners: all bits, none, one, and one byte
different from the others.

A character of a random string is modelled by the draw and the bits of it that
choose it, so that "no bit is used twice" and "as many bits as `count` bytes
have" can be stated; the alphabets are left out.  `IntMax` and `SizeMax` are
small, `SizeMax` large enough against `IntMax` as in C, and sums and products
wrap where size_t does.  `LastBlob` has the mask as the code computes it (the
high bits of the last character are kept) and, for base 64, the shift by 3 of
`random.c:1356`, by which the two whole characters of a last blob of two bytes
share 3 bits.  Of the bits of such strings `StringAsPromised` says nothing;
`StringCarriesItsBytes` states the promise for them too, and `random_base64` shows
it broken.

A shuffle keeps `picks`, the draws so far.  That every order is equally likely is
stated as a bijection: the draws can be read back from the final order, and their
number of sequences is that of the orders.  `rand_fetch` is one step per system
call, any of which may give part of what is asked, fail, or give nothing; a byte
of the buffer counts how often it was written.

### Varint

Writers of six types append to a buffer; a reader that has got any part of it
decodes values in order.  Bytes of another encoder, not in the shortest form,
may be among them.  `src(offset)` reads beyond the end as the code does, where
`fill` stands for the byte in memory behind the written ones.
`futils_varint_read` looks at the byte BEHIND a value of the maximal length
(`varint.c:71` uses `offset` after its increment), so that such a value is refused
when the next byte has a low bit set, although the test
`src/tests/futils_test_varint.c:96` expects every written value to be read.
`ReadsWhatWasWritten` leaves open whether such a value is read; `CompleteIsRead`
is what the test expects, and `varint_complete` shows it broken.  A refused reader also stores the bits decoded so far; that value is
left out.

### Timetools

K stands for 1000, so that a second has K^3 nanoseconds.  The application keeps
two times `a` and `b` with the integer each should be, and calls feed each
other: the result of `time_timespec_diff` for times with equal nanoseconds,
whose `tv_nsec` is a whole second, is an argument of later calls.  Such a time is
still worth the right number of nanoseconds but compares wrongly with the next
second; `ArithmeticExact` says so.  `time_timespec_diff_in_range` of equal times
does not store the difference.

`time_monotonic_to_realtime_us` is three steps with the clocks moving between
them.  The bound of `RealtimeIsClose`, half of the time between the first and the
last reading plus a microsecond and a half, is reached but for a nanosecond: the
offset 7 of the run (one nanosecond below a whole microsecond) comes that close.

### Systimetools

A string is its layout and its numbers, `NaN` for one that `strtol()` does not
take.  What a failed call has stored before it failed stays in the context, as in
the code.  Seconds since 1970 are a pair of days and seconds.  The calendar is
walked one day at a time by the rule of leap years, and the closed form of
`tm_mkepoch_local` is compared with it on every day; a formatted date that is
parsed again has to give the same time.  A month that is not one of the twelve (0,
a negative number, 13 and above) is taken by the code without a test and looked up
outside of the table of `tm_mkepoch_local` (`systimetools.c:567`); such strings are
left out (`DateStrings`).  The formats have four digits for a
year and two for the hours of an offset, and strings are modelled by their
numbers: `DaysAssumption` and `TimesAssumption` keep dates and offsets within
those widths.

## Runs

| Run | Instance | Shows |
|---|---|---|
| `dynmbox_core` | 1 producer, ring of 9 bytes, messages of 0, 1, 2, 5 and 6 bytes, mailboxes for at most 2, 5 (and, refused, 6), any consumer | types, frames of the ring, assertions, no leak, implements `Mailbox` |
| `dynmbox_fair` | 2 producers, ring of 8 bytes, messages of 0 and 4 bytes, one peek per readable descriptor, fair | notifications balance; readable means a message; no sleeper forgotten; a push is refused only when something is queued; blocked pushes return; messages are delivered |
| `dynmbox_drain` | 1 producer, peek until `-EAGAIN` | **violation**: the descriptor may stay readable with nothing to read |
| `safew_all` | with and without CRC, 2 writes, any failure, any crash, up to 4 earlier directories (`MaxPast`) when a session begins | never torn; previous or new unless excused; what was committed with a CRC comes back after every crash; a refusal changes nothing; a check leaves a pair or nothing |
| `safew_failedcommit` | crc.tmp cannot be created | **violation** of "previous one or new one" |
| `mbox_fair` | 2 producers, pipe of 7 bytes, PIPE_BUF 4, sizes 0 to 5, fair | implements `Mailbox`, so reads are whole; a blocking push is refused only if raced, and returns |
| `mboxwin_fair` | 2 producers, sockets of 3 bytes, sizes 0 and 2, any call failing, fair | no leak; no gap in the stream until it is broken; a message begun is finished |
| `random_values` | pools: 2 threads and a child process, pool of 6 bytes with 2-byte keys, requests of 1, 3 and 4, 4 calls, first seed era 1 or 15 of 16 | no byte twice; backtracking protection; a reseed takes effect; a pool never seeded gives no output, across the wrap of the era |
| | calls: maxima of 8, 16, 32 and 64 bits around powers of two; strings with buffers of all lengths and counts at the limits; shuffles; fetches | fair draws; strings as promised; fair shuffles; a fetch fills its buffer |
| | integers: 2 values of 6 types, 9 values each, 4 bytes behind the end, any received part | values are read as written, and refused if they are not complete |
| | times: K = 4, times below 3 s | exact times; deadlines as asked if the product fits; conversion of clocks |
| `hash_date` | table: 3 keys, tables of 1 and of 7 buckets where two of the keys collide | table and list of entries are well formed and in order; `hfree` gets every object once; safe walks miss nothing; implements `KeyMap`, answers included |
| | days from 1970 to 2103, 2 times of day, 4 offsets; 8 date and 8 hour strings, valid and not | dates round trip; accepted fields are kept |
| `random_base64` | base64 strings of up to 6 bytes | **violation** of "number of bytes to generate": 12 random bits for 2 bytes |
| `varint_complete` | 2 values of 16 bits in one buffer | **violation** of what the test of varint expects: a complete value is refused |
| `time_timeout` | timeouts on both sides of the largest whose product fits | **violation** of "operation timeout in milliseconds": a deadline that is too early |

Bounds.  The ring code depends on sizes only through comparisons with the
space left and the distance to the end of `bufmem`; a ring of 9 bytes with
4-byte headers puts every header and every message at every offset, cut at each
of its bytes, and holds two empty messages or one of full size.  The proofs
remove the bound.  Two writes in a safew session are enough for a payload that
is cut, empty or whole, and sessions repeat without bound, so every previous
state of the disk is a starting point of the next.  Sessions that are rolled back
never call `fsync()` and would let `past` grow for ever: `MaxPast` stops them, and
is large enough for a session that follows a commit, or a check after a crash.  A pipe of 7 bytes holds
two or three messages and is, as the messages vary, writable for poll(), full
for poll() but not for write(), and full.  A pool of 6 bytes with 2-byte keys
has refills with 0, 1 and 2 bytes remaining (fewer than, and as many as, a key)
and requests on both sides of the limit for `pool_stir`; four calls are enough
for a fork, a failed reseed in the child and requests on both sides.  Three
entries have a first, a middle and a last one in a chain; the two table sizes
give one chain of three, and one of two beside one of one.  `MaxVisits` stops a
walk from inserting after its second turn, since one that inserts at every
turn never ends.  In the calls of `random_values` the maxima have their highest bit at the
boundaries of 8, 16, 24, 32, 40, 48, 56 and 64 bits, where the number of bytes
changes.  In its integers every encoded length from 1 to the maximal one of
each type is at a boundary of some value, and two values are enough for one to
lie behind the other.  K = 4 in the times is even (a half is exact) and
distinguishes the three units; times below three seconds have carries and
borrows over none, one and two seconds.  The days include the leap day of 2000
and the missing one of 2100.

Fairness (`FairSpec`, used by `dynmbox_fair`, `mbox_fair` and `mboxwin_fair`):
a thread that runs goes on running, a system call that can return does, and a
consumer whose descriptor is readable calls peek.  Nothing forces anyone to
push, a deadline to pass, or a spurious wake-up.  The progress of a blocked push
is stated against producers that compete for the room: while one of them is
inside a call the code gives no guarantee to the other.

Deadlock is checked everywhere; in `random_values` the threads of the pools, which
the bounds on calls and seeds stop, may do nothing for ever (`Idle`).  The two runs
of several parts only save time: the parts have no variable in common, and every
behaviour is one of a single part.

## Findings

* `dynmbox_drain`: the notification byte is written after the mutex is
  released, so a consumer that is still reading may take the message before its
  byte arrives.  The byte then stays in the pipe: a peek of the empty ring does
  not read it.  A consumer that peeks exactly once per readable descriptor never
  meets this (`dynmbox_fair`, and the theorem `OncePerWakeup`).
* `safew_failedcommit`: a file that safew promises to keep is erased by the check
  that follows a failed commit; see `findings` in `PROJECT.json` for the lines.

* `random_base64`: the last blob of a base64 string of 3n + 2 bytes has 12
  random bits for 16, since `random.c:1356` shifts by 3 and not by 6.
* `varint_complete`: a value of the maximal length is refused when the byte behind
  it has a low bit set (`varint.c:71` looks past it), so that two values one behind
  the other are not read back.
* `time_timeout`: a push timeout above 4294967 ms is shortened, the product of
  `dynmbox.c:560` having 32 bits.

Properties that hold only with an exception name it, and these exceptions are
worth knowing: a crash that leaves crc.tmp on the disk and empty
(`safew.c:528`, against the last row of the table in `safew.h:83`), a crash between
the renames of a recovery (`safew.c:535`, against the comment at `safew.c:440`)
and a read error (`safew.c:55`, against `safew.h:111-115`) may lose both files
(`PreviousOrNewOutsideWindows`); without a CRC a commit that returned 0 may be
undone by a crash (`CommittedIsDurable`); `mbox_push_block` returns `-EAGAIN` when
another producer takes the room after its poll() (`RefusedOnlyIfRaced`, against
`mbox.h:83`).

## Proofs

The theorems hold for every value of the constants that satisfies the ASSUMEs of
the module they are about.  One more hypothesis appears in a statement: the
policy of the consumer in `OncePerWakeup`, and `FewCalls` in two theorems about
the random numbers.

| Module | Theorem | States |
|---|---|---|
| `DynmboxProofs` | `TypeCorrect` | types; indices stay inside `bufmem` |
| | `RingHoldsFrames` | the unread bytes are the frames of the queued messages |
| | `NoAssertionFails` | no `assert()` fails |
| | `ResourcesFreed` | no leak |
| | `MailboxImplemented` | `Spec` implements the abstract queue |
| | `EmptyAccepts` | a push is refused, or waits, only while a message is queued |
| | `NobodyForgotten` | no producer sleeps on an empty mailbox with nobody on the way |
| | `NotificationsBalance` | no notification is lost, the pipe never fills up |
| | `OncePerWakeup` | with one peek per wake-up, readable means a message |
| `SafewProofs` | `PayloadNeverTorn` | the payload is never a part of what was written |
| | `PayloadPreviousOrNew` | it is the previous one or the new one, outside of the windows |
| | `CommitIsDurable` | what a commit with a CRC that returned 0 wrote comes back after every crash; without, it is there until one |
| | `RefusalKeepsPrevious` | a commit that failed, and a rollback, leave the previous payload |
| | `CheckIsAllOrNothing` | a recovery leaves a payload with its CRC, or nothing |
| `MboxProofs` | `RefusalIsARace` | `-EAGAIN` from `mbox_push_block` only if another producer wrote after the poll() |
| | `MailboxImplemented` | the pipe implements the abstract queue |
| `MboxWinProofs` | `NothingLeaks` | no failure of `mbox_new` leaves a socket open |
| | `StreamIsWhole` | messages follow each other without a gap as long as none stops half way |
| `RandomPoolProofs` | `PoolsKeepNoSecret` | a pool holds no byte that was given out, nor the key of one |
| | `ZeroKeyNeverServes` | the initial key of zeros gives no output |
| | `BytesAreFresh` | no byte is given out twice (assuming `FewCalls`) |
| | `ReseedReachesAllThreads` | a reseed takes effect in every thread (assuming `FewCalls`) |
| `TimetoolsProofs` | `TimeArithmeticExact` | times agree with the integers after any sequence of calls |
| | `PushDeadlineAsAsked` | the deadline of a blocking push whose product fits |
| | `RealtimeIsAlwaysClose` | the error of the conversion to real time |
| | `AcceptedStays` | what a time context has accepted stays until the next init |
| | `FormatsAreParsed` | formatted times are parsed to the same time; the closed calendar formula is right |
| `HashProofs` | `AlwaysWellFormed` | the list is a ring in the order of insertion; no bucket but the one being cleared begins with a freed entry |
| | `AlwaysBalanced` | every object is the application's or in one entry |
| | `WalksVisitAll` | a safe walk comes to every entry it began with |
| | `KeyMapImplemented` | the table implements a partial function from keys to data, and its calls answer accordingly |
| `ValuesProofs` | `DrawsAreFair` | values up to a maximum: bytes, mask and result |
| | `StringsAsPromised` | random strings: length, end and the bits of each character |
| | `ShufflesAreFair` | a shuffle is a permutation that tells its draws |
| | `StrongFills` | a fetch that succeeds wrote each byte once |
| | `StreamIsRead` | variable-length integers are read as written, and refused if they are not complete |

**Dynmbox.**  For every size of the ring, every finite set of producers, every
set of messages and requested sizes, and every consumer policy.  None of the
invariants is inductive alone, and the inductive invariant comes in three layers,
each proved with the help of the one below:

1. *Control* (`CtlInv`): types, who holds the mutex at which program counter,
   that the message of a running push fits, what is allocated in each phase of
   `dynmbox_new`.  It says that the ring has one user at a time, without which
   no statement about bytes survives a step.
2. *Ring* (`RingInv`): the frames in the ring at their offsets, with the
   state in the middle of a push (header written, data not) and of a peek (header
   read, data not).  The steps that copy bytes use the lemmas
   about the ring at the head of the module: a write leaves the unread bytes and puts the new ones
   behind them, a read shifts them.  `MailboxImplemented` follows: the only
   steps that change `queue` are the end of a push and the end of a peek, and
   the bytes a peek copies out are those of the first message.
3. *Balance* (`BalInv`): bytes in the pipe plus producers about to write one,
   minus messages to be read, is at least 0 and at most the number of
   producers.  That the pipe has room for each of them needs layer 2: a frame
   is at least a header long, so the ring bounds the number of messages.

**Safew.**  For every set of chunks, any number of writes, sessions, crashes and
restarts, and every choice of calls that may fail.  The properties speak of the
payload, but what a crash or a recovery makes of it depends on the temporary
files; the inductive invariant says what each of the four files may hold at each
point of the program: what a session has put in payload.tmp (`SessionInv`),
which pairs of files a restart may find (`CrcTmpInv`, `PairInv`, `SettledInv`),
what `futils_safew_file_check` has still to rename (`MoveInv`) and what is still
to be unlinked (`DropInv`), and that only temporary files are not on the disk yet
(`DirtyInv`).  For crashes that undo renames two more parts are needed.  `Goal` is
the payload that there will be once the call under way, or the check after a crash,
is over: a complete temporary pair counts as the payload.  `GoalInv` says that
`Goal`, unlike the payload, never goes back to an older version.  `PastInv` says of
every directory that a crash may bring back that a check of it comes to the same
`Goal`, so that the step of a crash is like any other.

**Mbox.**  For every number of producers, every message size up to `PIPE_BUF` and
every pipe that holds that much.  The pipe holds bytes and the abstract mailbox
messages: the refinement mapping cuts the bytes in pieces, and the invariant says
that they are a whole number of messages (`BoxInv`) of which every call has its
own (`CallInv`), and that a producer whose poll() returned has its room unless
another one wrote since (`RoomInv`).

**MboxWin.**  For every number of producers, every size of a message and of the
sockets' buffers.  `StreamHasNoGap` says what the bytes look like and not who
may continue them: the invariant adds that at most one push is in the middle of
its message, that the last byte on the tape is the last one it sent, and that
without one the last message is complete (`OrderInv`).

**RandomPool.**  For every number of threads, every length of a request and every
size of pool, key and block.  A byte is named by the seed and the positions it
comes from, so that a byte made from a key has the key's name as a prefix.  The
invariant (`PoolInv`) is that the key and the bytes left in a pool are an
antichain of names, apart from everything given out: a reload replaces the key
and the bytes by extensions of the old key, and what is served is erased.  That
two threads or a parent and its child never share a seed is a second invariant
(`EraInv`), about the seed eras: a pool whose era is the current one was seeded
since the era began.  It assumes `FewCalls`, fewer than 2^31 calls: the era is an
unsigned int that goes up by two, and after it has come round a pool that slept
all the time takes its old seed for a new one.  The run's constants satisfy the
assumption (8 < 16).

**Timetools.**  For every even factor K between the units and every width of
unsigned int above it, times, deltas, timeouts, clock offsets and delays of any
size.  The invariant is that a time is worth the nanoseconds it should be with
tv_nsec at most a whole second (`TimesInv`: `time_timespec_diff` does leave a
whole second, so that "normalised" is not inductive), and that the realtime
clock was read between the two readings of the monotonic one (`ReadInv`).  The
rest are lemmas about the operators: what each division cuts off.  The first
attempt to prove `RealtimeIsClose`, then with a microsecond for the rounding,
failed for offsets of the clocks just below a microsecond; TLC confirmed it once
the offset 7 was among those of its run, and the bound is now a microsecond and
a half.

**Hash.**  For every set of keys and of objects, every finite memory and every
size of the table, any number of calls and walks, and without the bound on the
insertions of a walk (`MaxVisits` is any number).  `Inv` says where every pointer
leads: the list nodes form the ring of the entries in the order of insertion
(`ListInv`, with `RingAdd` and `RingDel` for `list_add_before` and `list_del`), a
bucket leads to its newest entry and every entry to the next older one of its
bucket (`ChainInv`, with `Clearing` for the state inside `futils_hash_remove_all`).
`SearchFinds` gives what the loop of a search returns from this, by induction on
its turns: it passes no entry with the key, and comes to an older entry at each
turn, so that it ends within as many turns as there are cells.  A removal then
closes the one pointer that led to the entry (`OnePointer`, `UnchainPast`).
`WalkInv` says that the entries a walk has still to come to lie from `tmp` on in
the order they had when it began, and that `pos` is behind: this is why a body
may remove the entry it is at and no other.

**Systimetools.**  For any strings of the modelled layouts, every second of the
day, every offset of less than 100 hours and every day to the year 9999.
`AcceptedIsKept` is not inductive: that a complete context agrees with parsing
both strings at once needs that the strings are ones the parser accepts.  `CtxInv`
says this of every field that is set, with the part of the tm that it owns; a
failed call writes to the part of its own field only, and that one is not set
(`StoreDate`, `StoreHour`, `CtxFailed`).  For the calendar, `CalInv` says that the
closed formula gives the present day for the present date.  A step within a month
is arithmetic, the step to the next month is a line of the table (`MonthFound`,
`MonthNext`), and from February to March the formula moves to the next year, where
`YearStep` compares the three quotients with the rule of leap years.  The rest is
what the conversions do to one time of a day: hours, minutes and seconds and the
offset found again (`HourOfSeconds`, `ZoneIsWhole`, `LocalIs`), and a formatted
string accepted by the parser (`TextParsed`).

**RandomCalls.**  For every `IntMax`, every `SizeMax` above `IntMax + 8`, every
maximum of the four widths, every pool byte, length and count
(`ArgumentsAssumption` only gives the arguments their C types).  Each function has
its own invariant and a step of another leaves it alone.

* Fetch (`FetchInv`): the bytes before `p` were written once, those from `p` on
  not, and the descriptor is open exactly while it is read from.
* Shuffle (`ShuffleInv`): there is a sequence of arrays, from the first to the
  present one, each made from the one before by the swap that was drawn; that
  step u fixes place u for good makes the sequence equal to the one that the
  property computes backwards from the result.
* Values up to a maximum (`MaximumInv`): what `p2minus1` and the count of bytes
  are, from the highest bit of the maximum.
* Strings (`TextInv`): how much is written and how much of the count is left, and
  that each character stands for its own bits of its own draw.  That the bits
  together are 8 per byte is a count over the draws.

**Varint.**  For every value of the six types, any bytes of another encoder that
end a value with a byte without bit 7, every capacity and number of values.
`VarintInv` says that the buffer is the encodings of the values sent, one behind
the other, and that the reader stands where the next one begins.  A word is the
set of its bits, so that a value is recovered from its encoding bit by bit
(`EncodeInverse`, and `ZigzagInverse` for the signed types), and the only loop of
the reader ends at the first byte without bit 7 (`StopsAtEnd`).

The inductions (on the turns of a search, the steps of a shuffle, the characters
of a string) are stated with a set of numbers (`SetInduction`): the library's
induction theorems have an operator as a parameter, which none of the provers can
instantiate.

Only model-checked: the liveness properties (`BlockedPushReturns`,
`QueuedIsDelivered`, `BegunIsFinished` and the others under fairness), since TLAPS
does not handle fairness.

## Not modelled

The Windows variants of `dynmbox` and of `rand_fetch`; the ChaCha20 block
function (arithmetic on 512-bit states); the clocks of Windows, macOS and
ThreadX and the simulator's clock property; `time_local_set`, `time_local_get`
and `time_local_ms_get`, which wrap one system call each; the operations of
`list.h` that no component uses (replace, move, del_init, simple walks);
`synctools`, `inotify`, `fdutils`, `fs` (system calls in a row, no state of their
own); `string` and the C++ wrappers (copies of characters); null pointers, except
in `RandomCalls`; logging.

Three dangers in modelled code lie outside of what the models say: a
`hfree` callback that uses the table while `futils_hash_remove_all` walks it
(hash.c:124; the model's callback only takes the object), the `out_diff_us` that
stays unset for equal times (timetools.c:310), and the string that
`time_local_format` cuts without an error (systimetools.c:756; strings are
modelled by their fields).
