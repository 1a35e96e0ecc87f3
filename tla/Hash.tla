-------------------------------- MODULE Hash --------------------------------
(***************************************************************************)
(* The hash table of src/src/hash.c: buckets of singly linked entries, and *)
(* all entries in one doubly chained list, in the order of insertion, that *)
(* the application walks itself with the macros of list.h.                 *)
(*                                                                         *)
(* Entries are cells of memory, allocated and freed; a pointer is the name *)
(* of a cell.  futils_hash_remove_all is one step per turn of its loop, a  *)
(* walk one step per turn of its, with calls of the application between:   *)
(* it may remove the entry it is at, and insert others.                    *)
(***************************************************************************)
EXTENDS FutilsList, FiniteSetsExt, SequencesExt

CONSTANTS Keys,         \* keys the application uses
          Data,         \* objects it stores, each once at a time
          Cells,        \* memory for entries
          Sizes,        \* sizes it asks for
          MaxVisits     \* bound on the turns of a walk after which it inserts

ASSUME HashAssumption ==
  /\ Keys \subseteq Nat /\ Sizes \subseteq Nat /\ MaxVisits \in Nat
  /\ IsFiniteSet(Cells) /\ {"NULL", "entries"} \cap Cells = {}

VARIABLES
  size,       \* hash->size
  buckets,    \* hash->buckets: index |-> first entry; empty if there are none
  hfree,      \* whether hash->hfree is set
  ent,        \* the allocated entries: cell |-> key, data, is_const, next
  links,      \* their list nodes, and hash->entries
  pc,         \* "idle", "walk" (inside a walk), "clear" (inside remove_all)
  destroy,    \* the clear was called by futils_hash_destroy
  i, entry,   \* locals of remove_all
  dir,        \* direction of the walk: "next" or "prev"
  pos, tmp,   \* its variables
  asked,      \* history: the last call, and its key: empty if it has none
  ret,        \* what it returned
  out,        \* what it gave, if it was a lookup
  owned,      \* history: the objects that are the application's
  order,      \* history: entries in the order of their insertion
  snap,       \* history: the entries when the walk began, in its direction
  visited     \* history: the entries it has come to

tabVars == <<size, buckets, hfree>>
memVars == <<ent, links>>
clearVars == <<destroy, i, entry>>
walkVars == <<dir, pos, tmp, snap, visited>>
vars == <<tabVars, memVars, pc, clearVars, walkVars, asked, ret, out, owned, order>>

NoFun == [c \in {} |-> 0]

Init == /\ size = 0
        /\ buckets = NoFun
        /\ hfree = FALSE
        /\ ent = NoFun
        /\ links = [next |-> [n \in Cells \cup {"entries"} |-> Poison],
                    prev |-> [n \in Cells \cup {"entries"} |-> Poison]]
        /\ pc = "idle"
        /\ destroy = FALSE
        /\ i = 0 /\ entry = "NULL"
        /\ dir = "next" /\ pos = "NULL" /\ tmp = "NULL"
        /\ asked = <<>> /\ ret = "none" /\ out = "none"
        /\ owned = Data
        /\ order = <<>>
        /\ snap = <<>> /\ visited = <<>>

Ready == buckets # NoFun

Allocated == DOMAIN ent

-----------------------------------------------------------------------------
(* Sizes and hash values.                                                  *)

futils_hash_prime_tab ==
  << 1, 2, 3, 7, 13, 31, 61, 127, 251, 509, 1021, 2039, 4093, 8191, 16381, 32749,
     65521, 131071, 262139, 524287, 1048573, 2097143, 4194301, 8388593, 16777213,
     33554393, 67108859, 134217689, 268435399, 536870909, 1073741789, 2147483647 >>

\* "get upper prime number for tab size": the first above n, or the last.
TabSize(n) ==
  LET above == {j \in DOMAIN futils_hash_prime_tab : futils_hash_prime_tab[j] > n}
  IN  futils_hash_prime_tab[IF above = {} THEN Len(futils_hash_prime_tab) ELSE Min(above)]

\* 33 * h + b on 32 bits, h a pair of 16-bit halves.
Mult33Add(h, b) ==
  LET lo == h[2] * 33 + b
  IN  << (h[1] * 33 + lo \div 65536) % 65536, lo % 65536 >>

\* The four bytes of the key, lowest first, over DJB2_HASH_START.
hash_32(key) ==
  Mult33Add(Mult33Add(Mult33Add(Mult33Add(<<0, 5381>>,
    key % 256), (key \div 256) % 256), (key \div 65536) % 256), key \div 16777216)

\* hash_32(key) % size
Bucket(key) == LET h == hash_32(key)
               IN  ((h[1] % size) * (65536 % size) + h[2]) % size

\* A turn of the loops that look for a key in the chain of its bucket: they stop
\* at the end or at the key.
SearchStep(key, s) ==
  IF s.entry = "NULL" THEN s
  ELSE IF ent[s.entry].key = key THEN s
  ELSE [prev |-> s.entry, entry |-> ent[s.entry].next]

\* The entry they stop at, and the one before it.
Search(key) ==
  LET w[n \in 0 .. Cardinality(Cells)] ==
        IF n = 0 THEN [prev |-> "NULL", entry |-> buckets[Bucket(key)]]
        ELSE SearchStep(key, w[n - 1])
  IN  w[Cardinality(Cells)]

-----------------------------------------------------------------------------
(* futils_hash_init and the insertions.                                    *)

\* What a call, with its key if it has one, returns and what it gives.
Return(call, error, data) == asked' = call /\ ret' = error /\ out' = data

\* Memory once it is set to zero: hash->entries.
ZeroEntries(m) == SetPrev(SetNext(m, "entries", "NULL"), "entries", "NULL")

\* If the buckets cannot be allocated, the size is set all the same.
futils_hash_init(n, f, ok) ==
  /\ pc = "idle" /\ ~Ready
  /\ size' = TabSize(n)
  /\ IF ok THEN /\ buckets' = [b \in 0 .. size' - 1 |-> "NULL"]
                /\ hfree' = f
                /\ links' = list_init(links, "entries")
                /\ Return(<<>>, "0", "none")
           ELSE /\ buckets' = NoFun
                /\ hfree' = FALSE
                /\ links' = ZeroEntries(links)
                /\ Return(<<>>, "ENOMEM", "none")
  /\ UNCHANGED <<ent, pc, clearVars, walkVars, owned, order>>

\* The application may call from the body of a walk; calls that change nothing
\* are left out there.
Calling == Ready /\ pc \in {"idle", "walk"}

Refused(call, error) ==
  /\ Return(call, error, "none")
  /\ UNCHANGED <<tabVars, memVars, pc, clearVars, walkVars, owned, order>>

Calloc(mem, c, e) == [x \in DOMAIN mem \cup {c} |-> IF x = c THEN e ELSE mem[x]]

Free(mem, c) == [x \in DOMAIN mem \ {c} |-> mem[x]]

NewEntry(k, d, const, next) == [key |-> k, data |-> d, is_const |-> const, next |-> next]

\* calloc() fails.
InsertNoMem(k) == Ready /\ pc = "idle" /\ Refused(<<"insert", k>>, "ENOMEM")

\* Mutant: the new entry is not freed.
InsertExists_leak(c, k, d, const) ==
  /\ Ready /\ pc = "idle"
  /\ c \in Cells \ Allocated /\ d \in owned
  /\ Search(k).entry # "NULL"
  /\ ent' = Calloc(ent, c, NewEntry(k, d, const, "NULL"))
  /\ Return(<<"insert", k>>, "EEXIST", "none")
  /\ UNCHANGED <<tabVars, links, pc, clearVars, walkVars, owned, order>>

\* The new entry is freed again, the data stay with the application.
InsertExists(c, k, d, const) ==
  /\ Ready /\ pc = "idle"
  /\ c \in Cells \ Allocated /\ d \in owned
  /\ Search(k).entry # "NULL"
  /\ ent' = Free(Calloc(ent, c, NewEntry(k, d, const, "NULL")), c)
  /\ Return(<<"insert", k>>, "EEXIST", "none")
  /\ UNCHANGED <<tabVars, links, pc, clearVars, walkVars, owned, order>>

\* First in its chain, last in the list.
Link(c, k, d, const) ==
  /\ ent' = Calloc(ent, c, NewEntry(k, d, const, buckets[Bucket(k)]))
  /\ buckets' = [buckets EXCEPT ![Bucket(k)] = c]
  /\ links' = list_add_before(links, "entries", c)
  /\ order' = Append(order, c)
  /\ owned' = owned \ {d}
  /\ Return(<<"insert", k>>, "0", "none")
  /\ UNCHANGED <<size, hfree, pc, clearVars, walkVars>>

\* futils_hash_insert and futils_hash_insert_const.
Insert(c, k, d, const) ==
  /\ Calling
  /\ pc = "walk" => Len(visited) <= MaxVisits
  /\ c \in Cells \ Allocated /\ d \in owned
  /\ Search(k).entry = "NULL"
  /\ Link(c, k, d, const)

-----------------------------------------------------------------------------
(* futils_hash_lookup and futils_hash_lookup_const.                        *)

Lookup(k, const) ==
  /\ Ready /\ pc = "idle"
  /\ Search(k).entry # "NULL"
  /\ ent[Search(k).entry].is_const => const
  /\ Return(<<IF const THEN "lookup_const" ELSE "lookup", k>>, "0", ent[Search(k).entry].data)
  /\ UNCHANGED <<tabVars, memVars, pc, clearVars, walkVars, owned, order>>

\* A const entry is not given out as one that may be changed.
LookupDenied(k) ==
  /\ Ready /\ pc = "idle"
  /\ Search(k).entry # "NULL"
  /\ ent[Search(k).entry].is_const
  /\ Refused(<<"lookup", k>>, "EPERM")

\* No lookup and no removal finds the key.
Missing(call, k) ==
  /\ Ready /\ pc = "idle"
  /\ Search(k).entry = "NULL"
  /\ Refused(<<call, k>>, "ENOENT")

-----------------------------------------------------------------------------
(* futils_hash_remove, futils_hash_remove_all and futils_hash_destroy.     *)

\* The sequence s without the element c.
Without(s, c) == RemoveAt(s, CHOOSE j \in DOMAIN s : s[j] = c)

\* Mutant: hfree is forgotten.
Release_no_hfree(c, mem) ==
  /\ links' = list_del(links, c)
  /\ ent' = Free(mem, c)
  /\ order' = Without(order, c)
  /\ owned' = IF hfree THEN owned ELSE owned \cup {mem[c].data}

\* list_del, hfree, free.  The object is the application's again: hfree was
\* called with it, or it had only lent it.
Release(c, mem) ==
  /\ links' = list_del(links, c)
  /\ ent' = Free(mem, c)
  /\ order' = Without(order, c)
  /\ owned' = owned \cup {mem[c].data}

\* Mutant: the bucket begins behind the entry although others come before it.
Unchain_cuts(s) ==
  [buckets |-> [buckets EXCEPT ![Bucket(ent[s.entry].key)] = ent[s.entry].next],
   mem     |-> ent]

\* Buckets and entries once the one that was found is out of its chain.
Unchain(s) ==
  IF s.prev = "NULL"
  THEN [buckets |-> [buckets EXCEPT ![Bucket(ent[s.entry].key)] = ent[s.entry].next],
        mem     |-> ent]
  ELSE [buckets |-> buckets,
        mem     |-> [ent EXCEPT ![s.prev].next = ent[s.entry].next]]

\* Inside a walk, only the entry it is at.
futils_hash_remove(k) ==
  /\ Calling
  /\ Search(k).entry # "NULL"
  /\ pc = "walk" => pos = Search(k).entry
  /\ LET u == Unchain(Search(k))
     IN  buckets' = u.buckets /\ Release(Search(k).entry, u.mem)
  /\ pos' = "NULL"
  /\ Return(<<"remove", k>>, "0", "none")
  /\ UNCHANGED <<size, hfree, pc, clearVars, dir, tmp, snap, visited>>

\* futils_hash_remove_all, or futils_hash_destroy (d).
ClearCall(d) ==
  /\ Ready /\ pc = "idle"
  /\ pc' = "clear"
  /\ destroy' = d
  /\ i' = 0
  /\ entry' = buckets[0]
  /\ Return(<<>>, "none", "none")
  /\ UNCHANGED <<tabVars, memVars, walkVars, owned, order>>

ClearEntry ==
  /\ pc = "clear" /\ entry # "NULL"
  /\ entry' = ent[entry].next
  /\ Release(entry, ent)
  /\ UNCHANGED <<tabVars, pc, destroy, i, walkVars, asked, ret, out>>

\* The end of a chain: to the next bucket ...
ClearBucket ==
  /\ pc = "clear" /\ entry = "NULL" /\ i + 1 < size
  /\ buckets' = [buckets EXCEPT ![i] = "NULL"]
  /\ i' = i + 1
  /\ entry' = buckets[i + 1]
  /\ UNCHANGED <<size, hfree, memVars, pc, destroy, walkVars, asked, ret, out, owned, order>>

\* ... or out of the loop; futils_hash_destroy then clears the structure.
ClearEnd ==
  /\ pc = "clear" /\ entry = "NULL" /\ i + 1 = size
  /\ IF destroy
     THEN /\ size' = 0 /\ buckets' = NoFun /\ hfree' = FALSE
          /\ links' = ZeroEntries(links)
     ELSE /\ buckets' = [buckets EXCEPT ![i] = "NULL"]
          /\ UNCHANGED <<size, hfree, links>>
  /\ pc' = "idle"
  /\ destroy' = FALSE
  /\ i' = 0
  /\ Return(<<>>, "0", "none")
  /\ UNCHANGED <<ent, entry, walkVars, owned, order>>

-----------------------------------------------------------------------------
(* list_walk_entry_forward_safe and list_walk_entry_backward_safe.         *)

\* The body is entered with pos = p, or the loop is left.
WalkTo(p) ==
  IF p = "entries"
  THEN /\ pc' = "idle"
       /\ dir' = "next" /\ pos' = "NULL" /\ tmp' = "NULL"
       /\ snap' = <<>> /\ visited' = <<>>
  ELSE /\ pc' = "walk"
       /\ pos' = p
       /\ visited' = Append(visited, p)

\* Mutant: a backward walk looks ahead with next.
WalkStart_next(d) ==
  /\ Ready /\ pc = "idle" /\ order # <<>>
  /\ WalkTo(links[d]["entries"])
  /\ dir' = d
  /\ tmp' = links.next[links[d]["entries"]]
  /\ snap' = IF d = "next" THEN order ELSE Reverse(order)
  /\ Return(<<>>, "none", "none")
  /\ UNCHANGED <<tabVars, memVars, clearVars, owned, order>>

\* A walk of an empty list does nothing.
WalkStart(d) ==
  /\ Ready /\ pc = "idle" /\ order # <<>>
  /\ WalkTo(links[d]["entries"])
  /\ dir' = d
  /\ tmp' = links[d][links[d]["entries"]]
  /\ snap' = IF d = "next" THEN order ELSE Reverse(order)
  /\ Return(<<>>, "none", "none")
  /\ UNCHANGED <<tabVars, memVars, clearVars, owned, order>>

WalkOn ==
  /\ pc = "walk"
  /\ WalkTo(tmp)
  /\ tmp # "entries" => tmp' = links[dir][tmp] /\ UNCHANGED <<dir, snap>>
  /\ Return(<<>>, "none", "none")
  /\ UNCHANGED <<tabVars, memVars, clearVars, owned, order>>

-----------------------------------------------------------------------------

Calls ==
  \E k \in Keys :
    \/ InsertNoMem(k) \/ LookupDenied(k) \/ futils_hash_remove(k)
    \/ \E c \in Cells, d \in Data, const \in BOOLEAN :
         Insert(c, k, d, const) \/ InsertExists(c, k, d, const)
    \/ \E const \in BOOLEAN : Lookup(k, const)
    \/ \E call \in {"lookup", "lookup_const", "remove"} : Missing(call, k)

Next ==
  \/ \E n \in Sizes, f \in BOOLEAN, ok \in BOOLEAN : futils_hash_init(n, f, ok)
  \/ Calls
  \/ \E d \in BOOLEAN : ClearCall(d)
  \/ ClearEntry \/ ClearBucket \/ ClearEnd
  \/ \E d \in {"next", "prev"} : WalkStart(d)
  \/ WalkOn

Spec == Init /\ [][Next]_vars

-----------------------------------------------------------------------------
(* Properties.                                                             *)

\* A table that was initialised has buckets, as many as one of the primes, none
\* of which begins with a freed entry (but the one that futils_hash_remove_all
\* is clearing); the list of entries is well formed and holds the entries in the
\* order of their insertion, also in the middle of futils_hash_remove_all; a
\* freed entry is in no list (futils_hash_init, futils_hash_insert_entry, list.h).
TableWellFormed ==
  /\ Ready => /\ size \in ToSet(futils_hash_prime_tab) \ {0}
              /\ DOMAIN buckets = 0 .. size - 1
              /\ IsRing(links, "entries", order, Len(order))
              /\ \A n \in DOMAIN buckets : \/ buckets[n] \in Allocated \cup {"NULL"}
                                           \/ pc = "clear" /\ n = i
  /\ ToSet(order) = Allocated
  /\ \A c \in Cells \ Allocated : links.next[c] = Poison /\ links.prev[c] = Poison

\* Every object is the application's or in exactly one entry: hfree is called
\* once for each entry that goes, and not for data that were refused; a
\* destroyed table has no entries left.
OwnershipBalanced ==
  /\ \A d \in Data : Cardinality({c \in Allocated : ent[c].data = d})
                       = IF d \in owned THEN 0 ELSE 1
  /\ ~Ready => Allocated = {}

\* A safe walk comes to every entry that was there when it began, in order,
\* although its body removes the entry it is at and inserts others.
WalkVisitsAll == [][pc = "walk" /\ pc' = "idle" => IsPrefix(snap, visited)]_vars

\* What the table holds.
Pair(e) == [data |-> e.data, is_const |-> e.is_const]
Contents == [k \in {ent[c].key : c \in Allocated} |->
               Pair(ent[CHOOSE c \in Allocated : ent[c].key = k])]

KM == INSTANCE KeyMap WITH Key <- Keys, Value <- [data : Data, is_const : BOOLEAN],
                           map <- Contents, clearing <- pc = "clear",
                           result <- ret, found <- out

\* The table is a partial function from keys to data, and what each call returns
\* is right of it: -EEXIST, -ENOENT and -EPERM exactly when the key is there, is
\* not, or holds data that are const; only futils_hash_remove_all and _destroy
\* drop entries that were not asked for, and they leave none ("-EEXIST if another
\* entry with same key", "return 0 if entry is found", hash.h).
ImplementsKeyMap == KM!Spec

=============================================================================
