----------------------------- MODULE RandomPool -----------------------------
(***************************************************************************)
(* The pseudo-random pools of src/src/random.c: one pool per thread, that  *)
(* is filled from a ChaCha20 key stream, changes its key at every refill   *)
(* and is seeded again when its seed era is no longer the global one.      *)
(*                                                                         *)
(* A byte is not its value but where it comes from: a sequence that starts *)
(* with the number of a kernel seed and goes on with positions.  The key   *)
(* read from the kernel as seed s is <<s>>, byte i of the stream of key k  *)
(* is Append(k, i), and a key made of bytes of the pool has the name of    *)
(* the first of them.  Two pools with the same contents, as after fork(),  *)
(* therefore give the same bytes.                                          *)
(***************************************************************************)
EXTENDS Naturals, FiniteSets, SequencesExt

CONSTANTS Threads,      \* threads of the parent process
          Child,        \* the thread of a process made by fork()
          Lens,         \* lengths of requests
          BufLen,       \* sizeof(pool->buffer): 512
          KeyLen,       \* CHACHA_KEY_NONCE_SIZE: 44
          BlockLen,     \* CHACHA_BLOCK_SIZE: 64
          EraMod,       \* 2^32, the range of seed_era
          InitEras,     \* values of seed_era to begin with: 1, or what it is in
                        \* an old process whose present threads are new
          MaxCalls,     \* bound on the requests made
          MaxSeeds      \* bound on the seeds fetched

\* The two assert()s on the room after a reload need the first; the second
\* says that seed_era wraps at an even number.
ASSUME SizesAssumption ==
  /\ BufLen \in Nat /\ KeyLen \in Nat \ {0} /\ BlockLen \in Nat \ {0}
  /\ 2 * KeyLen <= BufLen
  /\ EraMod \in Nat /\ EraMod >= 4 /\ EraMod % 2 = 0
  /\ InitEras \subseteq {e \in 1 .. EraMod - 1 : e % 2 = 1}
  /\ Lens \subseteq Nat /\ Child \notin Threads

Users == Threads \cup {Child}

\* The process of a thread; each has its own copy of seed_era.
Proc(t) == IF t = Child THEN "child" ELSE "parent"

Procs == {"parent", "child"}

VARIABLES
  seed_era,   \* of each process
  pool,       \* of each thread: key and counter of its ChaCha20 state, era,
              \* available, buffer
  pc,         \* "none" and "born" (of a child), "idle", "rand", "seed"
  len,        \* length of the request in progress
  era,        \* the era the call read, or started
  alive,      \* processes that did not abort()
  seeds,      \* kernel seeds fetched so far
  calls,      \* requests made so far
  ret,        \* what the last futils_random_reseed of each thread returned
  served,     \* history: the bytes each thread was given
  total,      \* history: how many that should be
  start,      \* history: seeds fetched when the present era of a process began
  floor       \* history: start, when the call in progress began

callVars == <<pc, len, era, floor>>
outVars == <<served, total>>
vars == <<seed_era, pool, callVars, alive, seeds, calls, ret, outVars, start>>

\* A byte that was cleared by memset.
Zero == <<>>

\* Static thread-local storage: everything is 0, the ChaCha20 key too.
NewPool == [ key |-> <<0>>, ctr |-> 0, era |-> 0, available |-> 0,
             buffer |-> [i \in 1 .. BufLen |-> Zero] ]

Init == /\ \E e \in InitEras : seed_era = [p \in Procs |-> e]
        /\ pool = [t \in Users |-> NewPool]
        /\ pc = [t \in Users |-> IF t = Child THEN "none" ELSE "idle"]
        /\ len = [t \in Users |-> 0]
        /\ era = [t \in Users |-> 0]
        /\ alive = Procs
        /\ seeds = 0
        /\ calls = 0
        /\ ret = [t \in Users |-> "none"]
        /\ served = [t \in Users |-> {}]
        /\ total = [t \in Users |-> 0]
        /\ start = [p \in Procs |-> 0]
        /\ floor = [t \in Users |-> 0]

-----------------------------------------------------------------------------
(* The pool.                                                               *)

\* chacha_init
Key(b, k) == [b EXCEPT !.key = k, !.ctr = 0]

\* chacha_keystream: n bytes from the counter on.  What is not used of the
\* last block is lost.
Keystream(k, ctr, n) == [i \in 1 .. n |-> Append(k, ctr * BlockLen + i)]

Blocks(n) == (n + BlockLen - 1) \div BlockLen

\* pool_buffer_get
First(b) == BufLen - b.available + 1

pool_buffer_get(b, n) == SubSeq(b.buffer, First(b), First(b) + n - 1)

\* The bytes are cleared.
pool_buffer_consume(b, n) ==
  [b EXCEPT !.buffer = [i \in 1 .. BufLen |->
                          IF i \in First(b) .. First(b) + n - 1 THEN Zero ELSE @[i]],
            !.available = @ - n]

\* Mutant: keeps the bytes of the previous seed.
Seeded_keeps_buffer(b, s, e) == [Key(b, <<s>>) EXCEPT !.era = e]

\* pool_seed with seed number s: the buffer is discarded.
Seeded(b, s, e) == [Key(b, <<s>>) EXCEPT !.era = e, !.available = 0]

\* Mutant: goes on with the same key.
pool_reload_same_key(b) ==
  LET consumed == BufLen - b.available
  IN  [b EXCEPT !.buffer = pool_buffer_get(b, b.available)
                             \o Keystream(b.key, b.ctr, consumed),
                !.ctr = @ + Blocks(consumed),
                !.available = BufLen]

\* Bring the remaining bytes to the front, fill up, take a new key from the
\* front.
pool_reload(b) ==
  LET consumed == BufLen - b.available
      full == [b EXCEPT !.buffer = pool_buffer_get(b, b.available)
                                     \o Keystream(b.key, b.ctr, consumed),
                        !.available = BufLen]
  IN  pool_buffer_consume(Key(full, full.buffer[1]), KeyLen)

pool_reload_if_needed(b, required) ==
  IF b.available >= required THEN b ELSE pool_reload(b)

\* pool_stir: a key of its own for a request larger than the pool.
pool_stir(b, n) ==
  LET full == pool_reload_if_needed(b, KeyLen)
  IN  [pool  |-> pool_buffer_consume(full, KeyLen),
       bytes |-> Keystream(full.buffer[First(full)], 0, n)]

Taken(b, n) ==
  LET full == pool_reload_if_needed(b, n)
  IN  [pool  |-> pool_buffer_consume(full, n),
       bytes |-> pool_buffer_get(full, n)]

\* pool_rand, once the pool is seeded.
pool_rand(b, n) == IF n >= BufLen - KeyLen THEN pool_stir(b, n) ELSE Taken(b, n)

-----------------------------------------------------------------------------
(* futils_random and the functions built on it.                            *)

\* pool_seed_if_needed reads the global era.
RandCall(t, n) ==
  /\ pc[t] = "idle" /\ Proc(t) \in alive
  /\ calls < MaxCalls
  /\ calls' = calls + 1
  /\ len' = [len EXCEPT ![t] = n]
  /\ era' = [era EXCEPT ![t] = seed_era[Proc(t)]]
  /\ floor' = [floor EXCEPT ![t] = start[Proc(t)]]
  /\ pc' = [pc EXCEPT ![t] = "rand"]
  /\ UNCHANGED <<seed_era, pool, alive, seeds, ret, outVars, start>>

\* The call returns: its locals are dead.
Leave(t) == /\ pc' = [pc EXCEPT ![t] = "idle"]
            /\ len' = [len EXCEPT ![t] = 0]
            /\ era' = [era EXCEPT ![t] = 0]
            /\ floor' = [floor EXCEPT ![t] = 0]

Serve(t, b) ==
  LET r == pool_rand(b, len[t])
  IN  /\ pool' = [pool EXCEPT ![t] = r.pool]
      /\ served' = [served EXCEPT ![t] = @ \cup ToSet(r.bytes)]
      /\ total' = [total EXCEPT ![t] = @ + len[t]]
      /\ Leave(t)

\* The pool is of this era.
RandServe(t) ==
  /\ pc[t] = "rand" /\ Proc(t) \in alive
  /\ pool[t].era = era[t]
  /\ Serve(t, pool[t])
  /\ UNCHANGED <<seed_era, alive, seeds, calls, ret, start>>

\* It is not: a new key first.
RandSeed(t) ==
  /\ pc[t] = "rand" /\ Proc(t) \in alive
  /\ pool[t].era # era[t]
  /\ seeds < MaxSeeds
  /\ seeds' = seeds + 1
  /\ Serve(t, Seeded(pool[t], seeds + 1, era[t]))
  /\ UNCHANGED <<seed_era, alive, calls, ret, start>>

\* rand_fetch fails: the process aborts.
RandAbort(t) ==
  /\ pc[t] = "rand" /\ Proc(t) \in alive
  /\ pool[t].era # era[t]
  /\ alive' = alive \ {Proc(t)}
  /\ UNCHANGED <<seed_era, pool, callVars, seeds, calls, ret, outVars, start>>

-----------------------------------------------------------------------------
(* futils_random_reseed and fork().                                        *)

\* Mutant: adds 1, and reaches the 0 of pools that were never seeded.
NextEra_one(e) == (e + 1) % EraMod

\* pool_seed_era_new: eras are odd, also when the counter wraps.
NextEra(e) == (e + 2) % EraMod

\* Mutant: seeds its own pool only.
ReseedCall_no_era(t) ==
  /\ pc[t] \in {"idle", "born"} /\ Proc(t) \in alive
  /\ calls < MaxCalls
  /\ calls' = calls + 1
  /\ era' = [era EXCEPT ![t] = seed_era[Proc(t)]]
  /\ start' = [start EXCEPT ![Proc(t)] = seeds]
  /\ pc' = [pc EXCEPT ![t] = "seed"]
  /\ UNCHANGED <<seed_era, pool, len, floor, alive, seeds, ret, outVars>>

ReseedCall(t) ==
  /\ pc[t] \in {"idle", "born"} /\ Proc(t) \in alive
  /\ calls < MaxCalls
  /\ calls' = calls + 1
  /\ seed_era' = [seed_era EXCEPT ![Proc(t)] = NextEra(@)]
  /\ era' = [era EXCEPT ![t] = NextEra(seed_era[Proc(t)])]
  /\ start' = [start EXCEPT ![Proc(t)] = seeds]
  /\ pc' = [pc EXCEPT ![t] = "seed"]
  /\ UNCHANGED <<pool, len, floor, alive, seeds, ret, outVars>>

ReseedSeed(t) ==
  /\ pc[t] = "seed" /\ Proc(t) \in alive
  /\ seeds < MaxSeeds
  /\ seeds' = seeds + 1
  /\ pool' = [pool EXCEPT ![t] = Seeded(pool[t], seeds + 1, era[t])]
  /\ ret' = [ret EXCEPT ![t] = "0"]
  /\ Leave(t)
  /\ UNCHANGED <<seed_era, alive, calls, outVars, start>>

\* rand_fetch fails: the error is returned, the pool left as it was.
ReseedFail(t) ==
  /\ pc[t] = "seed" /\ Proc(t) \in alive
  /\ ret' = [ret EXCEPT ![t] = "error"]
  /\ Leave(t)
  /\ UNCHANGED <<seed_era, pool, alive, seeds, calls, outVars, start>>

\* The child has a copy of the caller's pool and of seed_era.  As random.h
\* asks, it calls futils_random_reseed before anything else.
Fork(t) ==
  /\ t \in Threads
  /\ pc[t] = "idle" /\ pc[Child] = "none" /\ "parent" \in alive
  /\ pool' = [pool EXCEPT ![Child] = pool[t]]
  /\ seed_era' = [seed_era EXCEPT !["child"] = seed_era["parent"]]
  /\ start' = [start EXCEPT !["child"] = start["parent"]]
  /\ pc' = [pc EXCEPT ![Child] = "born"]
  /\ UNCHANGED <<len, era, floor, alive, seeds, calls, ret, outVars>>

-----------------------------------------------------------------------------

Next == \E t \in Users :
          \/ \E n \in Lens : RandCall(t, n)
          \/ RandServe(t) \/ RandSeed(t) \/ RandAbort(t)
          \/ ReseedCall(t) \/ ReseedSeed(t) \/ ReseedFail(t)
          \/ Fork(t)

Spec == Init /\ [][Next]_vars

-----------------------------------------------------------------------------
(* Properties.                                                             *)

\* No byte is given out twice, in one thread, in two, or on both sides of a
\* fork() whose child calls futils_random_reseed, even if that call fails.
NoByteTwice ==
  /\ \A t \in Users : Cardinality(served[t]) = total[t]
  /\ \A t, u \in Users : t # u => served[t] \cap served[u] = {}

\* "apply a new key for backtracking protection" (pool_reload): whoever reads
\* the memory of a pool finds there neither a byte that was given out nor the
\* key it was made from, nor was the key itself given out.
BacktrackingProtection ==
  \A t \in Users : \A b \in served[t] :
    /\ b \notin ToSet(pool[t].buffer)
    /\ Front(b) # pool[t].key
    /\ b # pool[t].key

\* "start a new era, then all threads will reseed as needed"
\* (pool_seed_era_new): a request that begins after futils_random_reseed was
\* called, in any thread of the process and whether or not it failed, is
\* answered from a seed fetched after that call.
ReseedTakesEffect ==
  [][\A t \in Users :
       \A b \in served'[t] \ served[t] : Head(b) > floor[t]]_vars

\* The all-zero key of a pool that was never seeded gives no output, also after
\* seed_era has wrapped around.
UnseededNeverServes ==
  \A t \in Users : \A b \in served[t] : Head(b) # 0

=============================================================================
