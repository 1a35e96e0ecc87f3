-------------------------- MODULE RandomPoolProofs --------------------------
(***************************************************************************)
(* Proofs about RandomPool, for every number of threads, every length of   *)
(* request and every size of pool, key and block.                          *)
(*                                                                         *)
(* A byte is named by where it comes from, so that a key and the bytes     *)
(* made from it are prefixes of one another.  The inductive invariant is   *)
(* that a pool is an antichain: neither its key nor a byte it still holds  *)
(* is a prefix of the others, or of a byte that was given out.             *)
(***************************************************************************)
EXTENDS RandomPool, FiniteSetTheorems, SequenceTheorems, TLAPS

-----------------------------------------------------------------------------
(* Names of bytes.                                                         *)

Name == Seq(Nat)

\* y is x or is made from it.
Below(x, y) == Len(x) <= Len(y) /\ \A i \in 1 .. Len(x) : x[i] = y[i]

Apart(x, y) == ~Below(x, y) /\ ~Below(y, x)

LEMMA BelowItself ==
  ASSUME NEW x \in Name
  PROVE  Below(x, x)
BY DEF Below, Name

LEMMA BelowTransitive ==
  ASSUME NEW x \in Name, NEW y \in Name, NEW z \in Name, Below(x, y), Below(y, z)
  PROVE  Below(x, z)
BY DEF Below, Name

\* Two names that something was made from are one made from the other.
LEMMA BelowLinear ==
  ASSUME NEW x \in Name, NEW y \in Name, NEW z \in Name, Below(x, z), Below(y, z)
  PROVE  Below(x, y) \/ Below(y, x)
BY DEF Below, Name

LEMMA ApartSymmetric ==
  ASSUME NEW x, NEW y, Apart(x, y)
  PROVE  Apart(y, x)
BY DEF Apart

\* What is made from two names that are apart is apart.
LEMMA ApartInherited ==
  ASSUME NEW x \in Name, NEW y \in Name, NEW u \in Name, NEW v \in Name,
         Apart(x, y), Below(x, u), Below(y, v)
  PROVE  Apart(u, v)
<1>1. ~Below(u, v)
  BY BelowTransitive, BelowLinear DEF Apart
<1>2. ~Below(v, u)
  BY BelowTransitive, BelowLinear DEF Apart
<1> QED BY <1>1, <1>2 DEF Apart

\* Names that are apart are different, and none is empty.
LEMMA ApartDiffers ==
  ASSUME NEW x \in Name, NEW y \in Name, Apart(x, y)
  PROVE  x # y /\ x # <<>> /\ y # <<>>
BY BelowItself DEF Apart, Below, Name

\* Byte i of the stream of key k.
LEMMA StreamByte ==
  ASSUME NEW k \in Name, NEW i \in Nat
  PROVE  /\ Append(k, i) \in Name
         /\ Below(k, Append(k, i))
         /\ Append(k, i)[Len(k) + 1] = i /\ Len(Append(k, i)) = Len(k) + 1
BY AppendProperties DEF Below, Name

LEMMA StreamApart ==
  ASSUME NEW k \in Name, NEW i \in Nat, NEW j \in Nat, i # j
  PROVE  Apart(Append(k, i), Append(k, j))
<1>1. /\ Append(k, i)[Len(k) + 1] = i /\ Len(Append(k, i)) = Len(k) + 1
      /\ Append(k, j)[Len(k) + 1] = j /\ Len(Append(k, j)) = Len(k) + 1
  BY StreamByte
<1>2. Len(k) + 1 \in 1 .. Len(k) + 1
  BY DEF Name
<1> QED BY <1>1, <1>2 DEF Apart, Below

\* The seed that a name begins with.
LEMMA SameSeed ==
  ASSUME NEW x \in Name, NEW y \in Name, x # <<>>, Below(x, y)
  PROVE  y # <<>> /\ y[1] = x[1]
BY DEF Below, Name

LEMMA SeedsApart ==
  ASSUME NEW x \in Name, NEW y \in Name, x # <<>>, y # <<>>, x[1] # y[1]
  PROVE  Apart(x, y)
BY SameSeed DEF Apart

-----------------------------------------------------------------------------
(* The pool.                                                               *)

Pool == [ key : Name \ {Zero}, ctr : {0}, era : Nat, available : 0 .. BufLen,
          buffer : [1 .. BufLen -> Name] ]

\* The cells of the bytes still to be given out.
Live(b) == First(b) .. BufLen

\* What the bytes to come are, or are made from.
Items(b) == {b.key} \cup {b.buffer[i] : i \in Live(b)}

\* y comes out of pool b.
From(b, y) == y \in Name /\ \E x \in Items(b) : Below(x, y)

Antichain(b) ==
  /\ \A i \in Live(b) : Apart(b.key, b.buffer[i])
  /\ \A i, j \in Live(b) : i # j => Apart(b.buffer[i], b.buffer[j])

\* The other cells were cleared, except in a pool whose bytes a new seed has
\* discarded.
Clean(b) == b.available > 0 => \A i \in 1 .. First(b) - 1 : b.buffer[i] = Zero

Good(b) == b \in Pool /\ Antichain(b) /\ Clean(b)

LEMMA Sizes ==
  /\ BufLen \in Nat /\ KeyLen \in Nat /\ KeyLen >= 1
  /\ BlockLen \in Nat /\ BlockLen >= 1 /\ KeyLen <= BufLen - KeyLen
BY SizesAssumption

LEMMA Fields ==
  ASSUME NEW b \in Pool
  PROVE  /\ b.key \in Name /\ b.key # Zero /\ b.ctr = 0 /\ b.era \in Nat
         /\ b.available \in 0 .. BufLen /\ b.available \in Nat
         /\ b.buffer \in [1 .. BufLen -> Name]
         /\ First(b) \in 1 .. BufLen + 1 /\ First(b) = BufLen - b.available + 1
BY Sizes DEF Pool, First

LEMMA Consumed ==
  ASSUME NEW b \in Pool, NEW k \in 0 .. b.available
  PROVE  LET c == pool_buffer_consume(b, k)
         IN  /\ c \in Pool /\ c.key = b.key /\ c.era = b.era
             /\ c.available = b.available - k
             /\ First(c) = First(b) + k
             /\ \A i \in Live(c) : i \in Live(b) /\ c.buffer[i] = b.buffer[i]
             /\ \A i \in First(b) .. First(b) + k - 1 : c.buffer[i] = Zero
             /\ \A i \in 1 .. First(b) - 1 : c.buffer[i] = b.buffer[i]
<1> DEFINE c == pool_buffer_consume(b, k)
<1>0. /\ b.available \in Nat /\ b.available <= BufLen /\ BufLen \in Nat /\ k \in Nat /\ k <= b.available
      /\ First(b) = BufLen - b.available + 1
      /\ b.buffer \in [1 .. BufLen -> Name]
  BY Fields, Sizes
<1>1. Zero \in Name
  BY DEF Zero, Name
<1>2. /\ c.key = b.key /\ c.era = b.era /\ c.available = b.available - k
      /\ c.buffer = [i \in 1 .. BufLen |->
           IF i \in First(b) .. First(b) + k - 1 THEN Zero ELSE b.buffer[i]]
  BY DEF pool_buffer_consume, Pool
<1>3. c.available \in 0 .. BufLen
  BY <1>0, <1>2
<1>4. c.buffer \in [1 .. BufLen -> Name]
  BY <1>0, <1>1, <1>2
<1>5. c \in Pool
  BY <1>3, <1>4 DEF pool_buffer_consume, Pool
<1>6. First(c) = First(b) + k
  BY <1>0, <1>2 DEF First
<1>7. \A i \in Live(c) : i \in Live(b) /\ c.buffer[i] = b.buffer[i]
  BY <1>0, <1>2, <1>6 DEF Live
<1>8. \A i \in First(b) .. First(b) + k - 1 : c.buffer[i] = Zero
  BY <1>0, <1>2
<1>9. \A i \in 1 .. First(b) - 1 : c.buffer[i] = b.buffer[i]
  BY <1>0, <1>2
<1> QED BY <1>2, <1>5, <1>6, <1>7, <1>8, <1>9

LEMMA ConsumedGood ==
  ASSUME NEW b, Good(b), NEW k \in 0 .. b.available
  PROVE  LET c == pool_buffer_consume(b, k)
         IN  Good(c) /\ Items(c) \subseteq Items(b)
<1> DEFINE c == pool_buffer_consume(b, k)
<1>1. b \in Pool /\ Antichain(b) /\ Clean(b)
  BY DEF Good
<1>2. /\ c \in Pool /\ c.key = b.key /\ c.available = b.available - k
      /\ First(c) = First(b) + k
      /\ \A i \in Live(c) : i \in Live(b) /\ c.buffer[i] = b.buffer[i]
      /\ \A i \in First(b) .. First(b) + k - 1 : c.buffer[i] = Zero
      /\ \A i \in 1 .. First(b) - 1 : c.buffer[i] = b.buffer[i]
  BY <1>1, Consumed
<1> HIDE DEF c
<1>3. Antichain(c)
  BY <1>1, <1>2 DEF Antichain
<1>4. Clean(c)
  <2>1. b.available \in Nat /\ k \in Nat /\ First(b) \in Nat
    BY <1>1, Fields, Sizes
  <2> QED BY <1>1, <1>2, <2>1 DEF Clean
<1>5. Items(c) \subseteq Items(b)
  BY <1>2 DEF Items
<1> QED BY <1>2, <1>3, <1>4, <1>5 DEF Good, c

LEMMA KeystreamBytes ==
  ASSUME NEW k \in Name, NEW n \in Nat
  PROVE  /\ Keystream(k, 0, n) \in [1 .. n -> Name]
         /\ \A i \in 1 .. n : Keystream(k, 0, n)[i] = Append(k, i)
         /\ Keystream(k, 0, n) \in Seq(Name) /\ Len(Keystream(k, 0, n)) = n
<1>1. \A i \in 1 .. n : 0 * BlockLen + i = i
  BY Sizes
<1>2. Keystream(k, 0, n) = [i \in 1 .. n |-> Append(k, i)]
  BY <1>1 DEF Keystream
<1>3. \A i \in 1 .. n : Append(k, i) \in Name
  BY StreamByte
<1>4. Keystream(k, 0, n) \in [1 .. n -> Name]
  BY <1>2, <1>3
<1> HIDE DEF Name
<1> QED BY <1>2, <1>4

\* The buffer as pool_reload fills it.
Filled(b) == pool_buffer_get(b, b.available)
               \o Keystream(b.key, b.ctr, BufLen - b.available)

LEMMA FilledCells ==
  ASSUME NEW b \in Pool
  PROVE  /\ Filled(b) \in [1 .. BufLen -> Name]
         /\ \A i \in 1 .. b.available :
              /\ First(b) + i - 1 \in Live(b)
              /\ Filled(b)[i] = b.buffer[First(b) + i - 1]
         /\ \A i \in b.available + 1 .. BufLen :
              Filled(b)[i] = Append(b.key, i - b.available)
<1> DEFINE got == pool_buffer_get(b, b.available)
           new == Keystream(b.key, 0, BufLen - b.available)
<1>1. /\ b.key \in Name /\ b.ctr = 0 /\ b.available \in Nat /\ b.available <= BufLen
      /\ BufLen \in Nat /\ b.buffer \in [1 .. BufLen -> Name]
      /\ First(b) = BufLen - b.available + 1
  BY Fields, Sizes
<1>2. /\ new \in Seq(Name) /\ Len(new) = BufLen - b.available
      /\ \A i \in 1 .. BufLen - b.available : new[i] = Append(b.key, i)
  <2>1. BufLen - b.available \in Nat
    BY <1>1
  <2> QED BY <1>1, <2>1, KeystreamBytes
<1>3. b.buffer \in Seq(Name) /\ Len(b.buffer) = BufLen
  BY <1>1
<1>4. /\ got \in Seq(Name) /\ Len(got) = b.available
      /\ \A i \in 1 .. b.available : got[i] = b.buffer[First(b) + i - 1]
  <2>1. got = SubSeq(b.buffer, First(b), First(b) + b.available - 1)
    BY DEF pool_buffer_get
  <2>2. First(b) \in 1 .. Len(b.buffer) + 1 /\ First(b) + b.available - 1 = BufLen
    BY <1>1, <1>3
  <2> HIDE DEF Name, got
  <2>3. got = SubSeq(b.buffer, First(b), BufLen)
    BY <2>1, <2>2
  <2>4. BufLen \in First(b) - 1 .. Len(b.buffer)
    BY <1>1, <1>3
  <2>5. /\ got \in Seq(Name) /\ Len(got) = BufLen - First(b) + 1
        /\ \A i \in 1 .. BufLen - First(b) + 1 : got[i] = b.buffer[First(b) + i - 1]
    BY <1>3, <2>2, <2>3, <2>4, SubSeqProperties
  <2>6. BufLen - First(b) + 1 = b.available
    BY <1>1
  <2> QED BY <2>5, <2>6
<1>5. Filled(b) = got \o new
  BY <1>1 DEF Filled
<1> HIDE DEF Name, got, new
<1>6. /\ Filled(b) \in Seq(Name) /\ Len(Filled(b)) = BufLen
  BY <1>1, <1>2, <1>4, <1>5
<1>7. \A i \in 1 .. BufLen :
        Filled(b)[i] = IF i <= b.available THEN got[i] ELSE new[i - b.available]
  <2>1. Len(got) + Len(new) = BufLen
    BY <1>1, <1>2, <1>4
  <2> QED BY <1>2, <1>4, <1>5, <2>1, ConcatProperties
<1>8. Filled(b) \in [1 .. BufLen -> Name]
  BY <1>6
<1>9. \A i \in 1 .. b.available : First(b) + i - 1 \in Live(b)
  BY <1>1 DEF Live
<1>10. \A i \in 1 .. b.available : Filled(b)[i] = b.buffer[First(b) + i - 1]
  BY <1>1, <1>4, <1>7
<1>11. ASSUME NEW i \in b.available + 1 .. BufLen
       PROVE  Filled(b)[i] = Append(b.key, i - b.available)
  <2>1. i \in 1 .. BufLen /\ ~(i <= b.available) /\ i - b.available \in 1 .. BufLen - b.available
    BY <1>1
  <2> QED BY <1>2, <1>7, <2>1
<1> QED BY <1>8, <1>9, <1>10, <1>11

\* Its bytes come out of the pool and are apart.
LEMMA FilledApart ==
  ASSUME NEW b, Good(b)
  PROVE  /\ \A i \in 1 .. BufLen : From(b, Filled(b)[i])
         /\ \A i, j \in 1 .. BufLen : i # j => Apart(Filled(b)[i], Filled(b)[j])
<1>0. b \in Pool /\ Antichain(b)
  BY DEF Good
<1>1. /\ b.key \in Name /\ b.available \in Nat /\ b.available <= BufLen
      /\ BufLen \in Nat /\ b.buffer \in [1 .. BufLen -> Name]
      /\ First(b) \in Nat /\ Live(b) \subseteq 1 .. BufLen
  BY <1>0, Fields, Sizes DEF Live
<1>2. /\ Filled(b) \in [1 .. BufLen -> Name]
      /\ \A i \in 1 .. b.available :
           /\ First(b) + i - 1 \in Live(b)
           /\ Filled(b)[i] = b.buffer[First(b) + i - 1]
      /\ \A i \in b.available + 1 .. BufLen :
           Filled(b)[i] = Append(b.key, i - b.available)
  BY <1>0, FilledCells
<1> HIDE DEF Name
<1>3. ASSUME NEW i \in 1 .. BufLen
      PROVE  From(b, Filled(b)[i])
  <2>1. Filled(b)[i] \in Name
    BY <1>2
  <2>2. CASE i <= b.available
    <3>0. i \in 1 .. b.available
      BY <1>1, <2>2
    <3>1. Filled(b)[i] \in Items(b)
      BY <1>2, <3>0 DEF Items
    <3> QED BY <2>1, <3>1, BelowItself DEF From
  <2>3. CASE i > b.available
    <3>1. Filled(b)[i] = Append(b.key, i - b.available) /\ i - b.available \in Nat
      BY <1>1, <1>2, <2>3
    <3>2. Below(b.key, Filled(b)[i])
      BY <1>1, <3>1, StreamByte
    <3> QED BY <2>1, <3>2 DEF From, Items
  <2> QED BY <1>1, <2>2, <2>3
<1>4. ASSUME NEW i \in 1 .. BufLen, NEW j \in 1 .. BufLen, i < j
      PROVE  Apart(Filled(b)[i], Filled(b)[j])
  <2>1. CASE j <= b.available
    <3>0. i \in 1 .. b.available /\ j \in 1 .. b.available /\ First(b) + i - 1 # First(b) + j - 1
      BY <1>1, <1>4, <2>1
    <3>1. /\ First(b) + i - 1 \in Live(b) /\ First(b) + j - 1 \in Live(b)
          /\ Filled(b)[i] = b.buffer[First(b) + i - 1]
          /\ Filled(b)[j] = b.buffer[First(b) + j - 1]
      BY <1>2, <3>0
    <3> QED BY <1>0, <3>0, <3>1 DEF Antichain
  <2>2. CASE i <= b.available /\ j > b.available
    <3>0. i \in 1 .. b.available /\ j \in b.available + 1 .. BufLen /\ j - b.available \in Nat
      BY <1>1, <2>2
    <3>1. /\ First(b) + i - 1 \in Live(b) /\ Filled(b)[i] = b.buffer[First(b) + i - 1]
          /\ Filled(b)[j] = Append(b.key, j - b.available) /\ j - b.available \in Nat
      BY <1>2, <3>0
    <3>2. Apart(b.key, Filled(b)[i])
      BY <1>0, <3>1 DEF Antichain
    <3>3. Below(b.key, Filled(b)[j])
      BY <1>1, <3>1, StreamByte
    <3>4. Filled(b)[i] \in Name /\ Filled(b)[j] \in Name
      BY <1>2
    <3>5. Apart(Filled(b)[j], Filled(b)[i])
      BY <1>1, <3>2, <3>3, <3>4, BelowItself, ApartInherited
    <3> QED BY <3>5, ApartSymmetric
  <2>3. CASE i > b.available
    <3>1. /\ Filled(b)[i] = Append(b.key, i - b.available) /\ i - b.available \in Nat
          /\ Filled(b)[j] = Append(b.key, j - b.available) /\ j - b.available \in Nat
          /\ i - b.available # j - b.available
      BY <1>1, <1>2, <1>4, <2>3
    <3> QED BY <1>1, <3>1, StreamApart
  <2> QED BY <1>1, <2>1, <2>2, <2>3
<1>5. ASSUME NEW i \in 1 .. BufLen, NEW j \in 1 .. BufLen, i # j
      PROVE  Apart(Filled(b)[i], Filled(b)[j])
  <2>1. CASE i < j
    BY <1>4, <2>1
  <2>2. CASE j < i
    BY <1>4, <2>2, ApartSymmetric
  <2> QED BY <1>1, <1>5, <2>1, <2>2
<1> QED BY <1>3, <1>5

\* pool_reload: what the pool then holds came out of it.
LEMMA ReloadGood ==
  ASSUME NEW b, Good(b)
  PROVE  LET f == pool_reload(b)
         IN  /\ Good(f) /\ f.era = b.era /\ f.available = BufLen - KeyLen
             /\ \A x \in Items(f) : From(b, x)
<1> DEFINE f == pool_reload(b)
           g == [b EXCEPT !.buffer = Filled(b), !.available = BufLen]
           h == Key(g, g.buffer[1])
<1>0. b \in Pool
  BY DEF Good
<1>1. /\ BufLen \in Nat /\ KeyLen \in Nat /\ KeyLen >= 1 /\ KeyLen <= BufLen
      /\ 1 \in 1 .. BufLen
  BY Sizes
<1>2. /\ Filled(b) \in [1 .. BufLen -> Name]
      /\ \A i \in 1 .. BufLen : From(b, Filled(b)[i])
      /\ \A i, j \in 1 .. BufLen : i # j => Apart(Filled(b)[i], Filled(b)[j])
  BY <1>0, FilledCells, FilledApart
<1>3. f = pool_buffer_consume(h, KeyLen)
  BY DEF pool_reload, Filled
<1>4. Filled(b)[1] \in Name /\ Filled(b)[1] # Zero
  <2>1. 2 \in 1 .. BufLen
    BY Sizes
  <2> QED BY <1>1, <1>2, <2>1, ApartDiffers DEF Zero
<1>5. /\ h.key = Filled(b)[1] /\ h.ctr = 0 /\ h.era = b.era /\ h.available = BufLen
      /\ h.buffer = Filled(b)
  BY <1>0 DEF Pool, Key
<1>6. h \in Pool
  <2>1. BufLen \in 0 .. BufLen
    BY <1>1
  <2> QED BY <1>0, <1>2, <1>4, <2>1 DEF Pool, Key
<1> HIDE DEF f, h
<1>7. First(h) = 1
  BY <1>1, <1>5 DEF First
<1>8. /\ f \in Pool /\ f.key = Filled(b)[1] /\ f.era = b.era
      /\ f.available = BufLen - KeyLen /\ First(f) = KeyLen + 1
      /\ \A i \in Live(f) : i \in KeyLen + 1 .. BufLen /\ f.buffer[i] = Filled(b)[i]
      /\ \A i \in 1 .. KeyLen : f.buffer[i] = Zero
  <2>1. KeyLen \in 0 .. h.available
    BY <1>1, <1>5
  <2>2. /\ f \in Pool /\ f.key = h.key /\ f.era = h.era
        /\ f.available = h.available - KeyLen
        /\ First(f) = First(h) + KeyLen
        /\ \A i \in Live(f) : i \in Live(h) /\ f.buffer[i] = h.buffer[i]
        /\ \A i \in First(h) .. First(h) + KeyLen - 1 : f.buffer[i] = Zero
    BY <1>3, <1>6, <2>1, Consumed
  <2>3. First(h) + KeyLen - 1 = KeyLen /\ First(h) + KeyLen = KeyLen + 1
    BY <1>1, <1>7
  <2> QED BY <1>5, <1>7, <2>2, <2>3 DEF Live
<1>9. \A i \in Live(f) : i \in 1 .. BufLen /\ i # 1
  BY <1>1, <1>8
<1>10. Antichain(f)
  BY <1>1, <1>2, <1>8, <1>9 DEF Antichain
<1>11. Clean(f)
  BY <1>1, <1>8 DEF Clean
<1>12. \A x \in Items(f) : From(b, x)
  BY <1>1, <1>2, <1>8, <1>9 DEF Items
<1> QED BY <1>8, <1>10, <1>11, <1>12 DEF Good, f

LEMMA ItemsAreNames ==
  ASSUME NEW b \in Pool
  PROVE  Items(b) \subseteq Name /\ \A i \in Live(b) : i \in 1 .. BufLen
<1>1. b.key \in Name /\ b.buffer \in [1 .. BufLen -> Name]
  BY Fields
<1>2. \A i \in Live(b) : i \in 1 .. BufLen
  BY Fields, Sizes DEF Live
<1> HIDE DEF Name
<1> QED BY <1>1, <1>2 DEF Items

LEMMA FromItself ==
  ASSUME NEW b \in Pool, NEW x \in Items(b)
  PROVE  From(b, x)
BY ItemsAreNames, BelowItself DEF From

LEMMA FromFrom ==
  ASSUME NEW b \in Pool, NEW f \in Pool, \A x \in Items(f) : From(b, x),
         NEW y, From(f, y)
  PROVE  From(b, y)
<1>1. PICK x \in Items(f) : Below(x, y)
  BY DEF From
<1>2. PICK z \in Items(b) : Below(z, x)
  BY <1>1 DEF From
<1>3. x \in Name /\ z \in Name /\ y \in Name
  BY ItemsAreNames DEF From
<1>4. Below(z, y)
  BY <1>1, <1>2, <1>3, BelowTransitive
<1> QED BY <1>3, <1>4 DEF From

LEMMA ReloadIfNeededGood ==
  ASSUME NEW b, Good(b), NEW required \in 0 .. BufLen - KeyLen
  PROVE  LET f == pool_reload_if_needed(b, required)
         IN  /\ Good(f) /\ f.era = b.era /\ f.available >= required
             /\ \A x \in Items(f) : From(b, x)
             /\ required = 0 => f = b
<1> DEFINE f == pool_reload_if_needed(b, required)
<1>0. b \in Pool /\ b.available \in Nat /\ required \in Nat
  BY Fields DEF Good
<1>1. CASE b.available >= required
  <2>1. f = b
    BY <1>1 DEF pool_reload_if_needed
  <2> QED BY <1>0, <1>1, <2>1, FromItself
<1>2. CASE ~(b.available >= required)
  <2>1. f = pool_reload(b)
    BY <1>2 DEF pool_reload_if_needed
  <2>2. f.available >= required /\ required # 0
    BY <1>0, <1>2, <2>1, ReloadGood, Sizes
  <2> QED BY <2>1, <2>2, ReloadGood
<1> QED BY <1>1, <1>2

\* Every cell is cleared or to be given out.
Cells(b) == \A i \in 1 .. BufLen : b.buffer[i] = Zero \/ b.buffer[i] \in Items(b)

LEMMA ConsumedCells ==
  ASSUME NEW b, Good(b), b.available > 0, NEW k \in 0 .. b.available
  PROVE  Cells(pool_buffer_consume(b, k))
<1> DEFINE c == pool_buffer_consume(b, k)
<1>1. b \in Pool /\ Clean(b)
  BY DEF Good
<1>2. /\ First(c) = First(b) + k
      /\ \A i \in First(b) .. First(b) + k - 1 : c.buffer[i] = Zero
      /\ \A i \in 1 .. First(b) - 1 : c.buffer[i] = b.buffer[i]
  BY <1>1, Consumed
<1>3. First(b) \in Nat /\ k \in Nat /\ BufLen \in Nat
  BY <1>1, Fields, Sizes
<1> HIDE DEF c
<1>4. ASSUME NEW i \in 1 .. BufLen
      PROVE  c.buffer[i] = Zero \/ c.buffer[i] \in Items(c)
  <2>1. CASE i \in 1 .. First(b) - 1
    BY <1>1, <1>2, <2>1 DEF Clean
  <2>2. CASE i \in First(b) .. First(b) + k - 1
    BY <1>2, <2>2
  <2>3. CASE i \in First(c) .. BufLen
    BY <2>3 DEF Items, Live
  <2> QED BY <1>2, <1>3, <2>1, <2>2, <2>3
<1> QED BY <1>4 DEF Cells, c

\* What a request for n bytes answers: bytes that come out of the pool, apart
\* from one another and from what the pool then holds.
Answer(b, n, p, y) ==
  /\ Good(p) /\ p.era = b.era
  /\ y \in Seq(Name) /\ Len(y) = n
  /\ \A i \in 1 .. n : From(b, y[i])
  /\ \A x \in Items(p) : From(b, x)
  /\ \A i, j \in 1 .. n : i # j => Apart(y[i], y[j])
  /\ \A i \in 1 .. n : \A x \in Items(p) : Apart(y[i], x)
  /\ Cells(p) \/ (n = 0 /\ p.buffer = b.buffer)

LEMMA StirAnswers ==
  ASSUME NEW b, Good(b), NEW n \in Nat, n # 0
  PROVE  Answer(b, n, pool_stir(b, n).pool, pool_stir(b, n).bytes)
<1> DEFINE f == pool_reload_if_needed(b, KeyLen)
           p == pool_buffer_consume(f, KeyLen)
           k == f.buffer[First(f)]
           y == Keystream(k, 0, n)
<1>1. pool_stir(b, n).pool = p /\ pool_stir(b, n).bytes = y
  BY DEF pool_stir
<1>2. /\ Good(f) /\ f.era = b.era /\ f.available >= KeyLen
      /\ \A x \in Items(f) : From(b, x)
  BY Sizes, ReloadIfNeededGood
<1>3. b \in Pool /\ f \in Pool /\ Antichain(f)
  BY <1>2 DEF Good
<1> HIDE DEF f
<1>4. /\ BufLen \in Nat /\ KeyLen \in Nat /\ KeyLen >= 1 /\ f.available \in Nat
      /\ f.available <= BufLen /\ First(f) = BufLen - f.available + 1
      /\ KeyLen \in 0 .. f.available /\ f.available > 0
  BY <1>2, <1>3, Sizes, Fields
<1>5. /\ Good(p) /\ Cells(p) /\ p.era = f.era /\ Items(p) \subseteq Items(f)
      /\ p.key = f.key
      /\ \A i \in Live(p) : i \in Live(f) /\ p.buffer[i] = f.buffer[i]
      /\ First(p) = First(f) + KeyLen
  BY <1>2, <1>3, <1>4, Consumed, ConsumedGood, ConsumedCells
<1> HIDE DEF p
<1>6. First(f) \in Live(f) /\ First(f) \notin Live(p)
  BY <1>4, <1>5 DEF Live
<1>7. k \in Items(f) /\ k \in Name
  BY <1>3, <1>6, ItemsAreNames DEF Items
<1>8. \A x \in Items(p) : Apart(k, x)
  <2>1. Apart(k, p.key)
    BY <1>3, <1>5, <1>6, ApartSymmetric DEF Antichain
  <2>2. \A i \in Live(p) : Apart(k, p.buffer[i])
    BY <1>3, <1>5, <1>6 DEF Antichain
  <2> QED BY <2>1, <2>2 DEF Items
<1> HIDE DEF k, Name
<1>9. /\ y \in Seq(Name) /\ Len(y) = n
      /\ \A i \in 1 .. n : y[i] = Append(k, i)
  BY <1>7, KeystreamBytes
<1> HIDE DEF y
<1>10. ASSUME NEW i \in 1 .. n
       PROVE  y[i] \in Name /\ Below(k, y[i])
  <2>1. i \in Nat /\ y[i] = Append(k, i)
    BY <1>9
  <2> QED BY <1>7, <2>1, StreamByte
<1>11. ASSUME NEW i \in 1 .. n, NEW j \in 1 .. n, i # j
       PROVE  Apart(y[i], y[j])
  <2>1. /\ i \in Nat /\ y[i] = Append(k, i)
        /\ j \in Nat /\ y[j] = Append(k, j)
    BY <1>9
  <2> QED BY <1>7, <1>11, <2>1, StreamApart
<1>12. \A i \in 1 .. n : From(b, y[i])
  <2>1. \A i \in 1 .. n : From(f, y[i])
    BY <1>7, <1>10 DEF From
  <2> QED BY <1>2, <1>3, <2>1, FromFrom
<1>13. ASSUME NEW i \in 1 .. n, NEW x \in Items(p)
       PROVE  Apart(y[i], x)
  <2>1. x \in Name /\ y[i] \in Name /\ Below(k, y[i]) /\ Below(x, x) /\ Apart(k, x)
    BY <1>3, <1>5, <1>8, <1>10, ItemsAreNames, BelowItself
  <2> QED BY <1>7, <2>1, ApartInherited
<1>14. \A x \in Items(p) : From(b, x)
  BY <1>2, <1>5
<1>15. p.era = b.era
  BY <1>2, <1>5
<1>16. Answer(b, n, p, y)
  BY <1>5, <1>9, <1>11, <1>12, <1>13, <1>14, <1>15 DEF Answer
<1> QED BY <1>1, <1>16

LEMMA TakenAnswers ==
  ASSUME NEW b, Good(b), NEW n \in 0 .. BufLen - KeyLen
  PROVE  Answer(b, n, Taken(b, n).pool, Taken(b, n).bytes)
<1> DEFINE f == pool_reload_if_needed(b, n)
           p == pool_buffer_consume(f, n)
           y == pool_buffer_get(f, n)
<1>1. Taken(b, n).pool = p /\ Taken(b, n).bytes = y
  BY DEF Taken
<1>2. /\ Good(f) /\ f.era = b.era /\ f.available >= n
      /\ \A x \in Items(f) : From(b, x)
      /\ n = 0 => f = b
  BY ReloadIfNeededGood
<1>3. b \in Pool /\ f \in Pool /\ Antichain(f)
  BY <1>2 DEF Good
<1> HIDE DEF f
<1>4. /\ BufLen \in Nat /\ n \in Nat /\ f.available \in Nat
      /\ f.available <= BufLen /\ First(f) = BufLen - f.available + 1
      /\ n \in 0 .. f.available /\ First(f) \in Nat
      /\ f.buffer \in [1 .. BufLen -> Name]
  BY <1>2, <1>3, Sizes, Fields
<1>5. /\ Good(p) /\ p.era = f.era /\ Items(p) \subseteq Items(f)
      /\ p.key = f.key
      /\ \A i \in Live(p) : i \in Live(f) /\ p.buffer[i] = f.buffer[i]
      /\ First(p) = First(f) + n
  BY <1>2, <1>3, <1>4, Consumed, ConsumedGood
<1>6. Cells(p) \/ (n = 0 /\ p.buffer = b.buffer)
  <2>1. CASE n = 0
    <3>1. f = b /\ b.buffer \in [1 .. BufLen -> Name]
      BY <1>2, <1>4, <2>1
    <3>2. p.buffer = [i \in 1 .. BufLen |->
             IF i \in First(f) .. First(f) + n - 1 THEN Zero ELSE f.buffer[i]]
      BY <1>3 DEF pool_buffer_consume, Pool
    <3>3. \A i \in 1 .. BufLen : i \notin First(f) .. First(f) + n - 1
      BY <1>4, <2>1
    <3> QED BY <2>1, <3>1, <3>2, <3>3
  <2>2. CASE n # 0
    <3>1. f.available > 0
      BY <1>2, <1>4, <2>2
    <3> QED BY <1>2, <1>4, <3>1, ConsumedCells
  <2> QED BY <2>1, <2>2
<1> HIDE DEF p, Name
<1>7. /\ y \in Seq(Name) /\ Len(y) = n
      /\ \A i \in 1 .. n : y[i] = f.buffer[First(f) + i - 1]
  <2>1. y = SubSeq(f.buffer, First(f), First(f) + n - 1)
    BY DEF pool_buffer_get
  <2>2. First(f) \in Int /\ First(f) + n - 1 \in Int
    BY <1>4
  <2>3. \A i \in First(f) .. First(f) + n - 1 : f.buffer[i] \in Name
    BY <1>4
  <2>4. /\ y \in Seq(Name)
        /\ Len(y) = IF First(f) <= First(f) + n - 1
                    THEN First(f) + n - 1 - First(f) + 1 ELSE 0
        /\ \A i \in 1 .. First(f) + n - 1 - First(f) + 1 :
             y[i] = f.buffer[First(f) + i - 1]
    BY <2>1, <2>2, <2>3, SubSeqProperties
  <2>5. First(f) + n - 1 - First(f) + 1 = n
    <3>1. ASSUME NEW a \in Nat, NEW m \in Nat PROVE a + m - 1 - a + 1 = m
      OBVIOUS
    <3>2. First(f) \in Nat /\ n \in Nat
      BY <1>4
    <3> QED BY <3>1, <3>2
  <2>6. Len(y) = n
    BY <1>4, <2>4, <2>5
  <2> QED BY <2>4, <2>5, <2>6
<1>8. \A i \in 1 .. n : First(f) + i - 1 \in Live(f) /\ First(f) + i - 1 \notin Live(p)
  BY <1>4, <1>5 DEF Live
<1> HIDE DEF y
<1>9. \A i \in 1 .. n : From(b, y[i])
  <2>1. \A i \in 1 .. n : y[i] \in Items(f)
    BY <1>7, <1>8 DEF Items
  <2> QED BY <1>2, <2>1
<1>10. ASSUME NEW i \in 1 .. n, NEW j \in 1 .. n, i # j
       PROVE  Apart(y[i], y[j])
  <2>1. First(f) + i - 1 # First(f) + j - 1
    BY <1>4, <1>10
  <2> QED BY <1>3, <1>7, <1>8, <2>1 DEF Antichain
<1>11. ASSUME NEW i \in 1 .. n
       PROVE  \A x \in Items(p) : Apart(y[i], x)
  <2>1. Apart(y[i], p.key)
    BY <1>3, <1>5, <1>7, <1>8, ApartSymmetric DEF Antichain
  <2>2. \A j \in Live(p) : Apart(y[i], p.buffer[j])
    BY <1>3, <1>5, <1>7, <1>8 DEF Antichain
  <2> QED BY <2>1, <2>2 DEF Items
<1>12. \A x \in Items(p) : From(b, x)
  BY <1>2, <1>5
<1>13. p.era = b.era
  BY <1>2, <1>5
<1>14. Answer(b, n, p, y)
  BY <1>5, <1>6, <1>7, <1>9, <1>10, <1>11, <1>12, <1>13 DEF Answer
<1> QED BY <1>1, <1>14

LEMMA RandAnswers ==
  ASSUME NEW b, Good(b), NEW n \in Nat
  PROVE  Answer(b, n, pool_rand(b, n).pool, pool_rand(b, n).bytes)
<1>1. CASE n >= BufLen - KeyLen
  <2>1. n # 0
    BY <1>1, Sizes
  <2> QED BY <1>1, <2>1, StirAnswers DEF pool_rand
<1>2. CASE ~(n >= BufLen - KeyLen)
  <2>1. n \in 0 .. BufLen - KeyLen
    BY <1>2, Sizes
  <2> QED BY <1>2, <2>1, TakenAnswers DEF pool_rand
<1> QED BY <1>1, <1>2

-----------------------------------------------------------------------------
(* A thread: pool b, set S of the n bytes it was given, s seeds fetched.   *)

Holds(b, S, n, s) ==
  /\ Good(b)
  /\ \A x \in Items(b) : x # Zero /\ x[1] = b.key[1]
  /\ b.key[1] \in 0 .. s
  /\ b.era # 0 => b.key[1] # 0
  /\ IsFiniteSet(S) /\ Cardinality(S) = n
  /\ \A y \in S : /\ y \in Name /\ y # Zero /\ y[1] \in 1 .. s
                  /\ \A x \in Items(b) : Apart(y, x)
                  /\ \A i \in 1 .. BufLen : b.buffer[i] # y

LEMMA HoldsNew ==
  Holds(NewPool, {}, 0, 0)
<1> DEFINE b == NewPool
<1>1. <<0>> \in Name /\ <<0>> # Zero /\ Zero \in Name /\ <<0>>[1] = 0
  BY DEF Name, Zero
<1>2. 0 \in 0 .. BufLen
  BY Sizes
<1>3. b \in Pool
  BY <1>1, <1>2 DEF NewPool, Pool
<1>4. b.key = <<0>> /\ b.available = 0 /\ b.era = 0
  BY DEF NewPool
<1>5. Live(b) = {}
  BY <1>4, Sizes DEF Live, First
<1> HIDE DEF b
<1>6. Antichain(b) /\ Clean(b) /\ Items(b) = {<<0>>}
  BY <1>4, <1>5 DEF Antichain, Clean, Items
<1>7. IsFiniteSet({}) /\ Cardinality({}) = 0
  BY FS_EmptySet
<1> QED BY <1>1, <1>3, <1>4, <1>6, <1>7 DEF Holds, Good, b

LEMMA HoldsLater ==
  ASSUME NEW b, NEW S, NEW n, NEW s \in Nat, Holds(b, S, n, s)
  PROVE  Holds(b, S, n, s + 1)
<1>1. 0 .. s \subseteq 0 .. s + 1 /\ 1 .. s \subseteq 1 .. s + 1
  OBVIOUS
<1> QED BY <1>1 DEF Holds

\* The copy that fork() makes of it.
LEMMA HoldsCopied ==
  ASSUME NEW b, NEW S, NEW n, NEW s, Holds(b, S, n, s)
  PROVE  Holds(b, {}, 0, s)
BY FS_EmptySet DEF Holds

LEMMA SeededHolds ==
  ASSUME NEW b, NEW S, NEW n, NEW s \in Nat, Holds(b, S, n, s), NEW e \in Nat
  PROVE  LET c == Seeded(b, s + 1, e)
         IN  /\ Holds(c, S, n, s + 1)
             /\ c.key = <<s + 1>> /\ c.key[1] = s + 1 /\ c.era = e
<1> DEFINE c == Seeded(b, s + 1, e)
<1>0. b \in Pool
  BY DEF Holds, Good
<1>1. /\ <<s + 1>> \in Name /\ <<s + 1>> # Zero /\ <<s + 1>>[1] = s + 1
      /\ s + 1 \in 0 .. s + 1 /\ s + 1 # 0
  BY DEF Name, Zero
<1>2. /\ c.key = <<s + 1>> /\ c.available = 0 /\ c.era = e /\ c.buffer = b.buffer
  BY <1>0 DEF Seeded, Key, Pool
<1>3. c \in Pool
  <2>1. 0 \in 0 .. BufLen
    BY Sizes
  <2> QED BY <1>0, <1>1, <2>1 DEF Seeded, Key, Pool
<1> HIDE DEF c
<1>4. Live(c) = {}
  BY <1>2, Sizes DEF Live, First
<1>5. Antichain(c) /\ Clean(c) /\ Items(c) = {<<s + 1>>}
  BY <1>2, <1>4 DEF Antichain, Clean, Items
<1>6. ASSUME NEW y \in S
      PROVE  /\ y \in Name /\ y # Zero /\ y[1] \in 1 .. s + 1
             /\ Apart(y, <<s + 1>>)
             /\ \A i \in 1 .. BufLen : c.buffer[i] # y
  <2>1. y \in Name /\ y # Zero /\ y[1] \in 1 .. s /\ \A i \in 1 .. BufLen : b.buffer[i] # y
    BY DEF Holds
  <2>2. y[1] # s + 1 /\ y[1] \in 1 .. s + 1
    BY <2>1
  <2>3. y[1] # <<s + 1>>[1]
    BY <1>1, <2>2
  <2>4. Apart(y, <<s + 1>>)
    BY <1>1, <2>1, <2>3, SeedsApart DEF Zero
  <2> QED BY <1>2, <2>1, <2>2, <2>4
<1>7. IsFiniteSet(S) /\ Cardinality(S) = n
  BY DEF Holds
<1>8. Holds(c, S, n, s + 1)
  BY <1>1, <1>2, <1>3, <1>5, <1>6, <1>7 DEF Holds, Good
<1> QED BY <1>1, <1>2, <1>8 DEF c

LEMMA BytesCounted ==
  ASSUME NEW n \in Nat, NEW y \in Seq(Name), Len(y) = n,
         \A i, j \in 1 .. n : i # j => Apart(y[i], y[j])
  PROVE  IsFiniteSet(ToSet(y)) /\ Cardinality(ToSet(y)) = n
<1> HIDE DEF Name
<1>1. ToSet(y) = {y[i] : i \in 1 .. n}
  BY DEF ToSet
<1>2. \A i, j \in 1 .. n : i # j => y[i] # y[j]
  <2>1. \A i \in 1 .. n : y[i] \in Name
    OBVIOUS
  <2> QED BY <2>1, ApartDiffers
<1> DEFINE f == [i \in 1 .. n |-> y[i]]
<1>3. f \in Bijection(1 .. n, ToSet(y))
  <2>1. f \in [1 .. n -> ToSet(y)]
    BY <1>1
  <2>2. \A i, j \in 1 .. n : f[i] = f[j] => i = j
    BY <1>2
  <2>3. \A z \in ToSet(y) : \E i \in 1 .. n : f[i] = z
    BY <1>1
  <2> HIDE DEF f
  <2> QED BY <2>1, <2>2, <2>3 DEF Bijection, Injection, Surjection, IsInjective
<1>4. IsFiniteSet(1 .. n) /\ Cardinality(1 .. n) = n
  BY FS_Interval
<1> HIDE DEF f
<1>5. ExistsBijection(1 .. n, ToSet(y))
  BY <1>3 DEF ExistsBijection
<1> QED BY <1>4, <1>5, FS_Bijection

LEMMA FromSeed ==
  ASSUME NEW b \in Pool, \A x \in Items(b) : x # Zero /\ x[1] = b.key[1],
         NEW y, From(b, y)
  PROVE  y \in Name /\ y # Zero /\ y[1] = b.key[1]
<1>1. PICK x \in Items(b) : Below(x, y)
  BY DEF From
<1>2. x \in Name /\ y \in Name
  BY ItemsAreNames DEF From
<1> QED BY <1>1, <1>2, SameSeed DEF Zero

\* What is apart from all that a pool holds is apart from what comes out of it.
LEMMA ApartFrom ==
  ASSUME NEW b \in Pool, NEW z \in Name, \A x \in Items(b) : Apart(z, x),
         NEW y, From(b, y)
  PROVE  Apart(z, y)
<1>1. PICK x \in Items(b) : Below(x, y)
  BY DEF From
<1>2. x \in Name /\ y \in Name /\ Apart(z, x) /\ Below(z, z)
  BY ItemsAreNames, BelowItself DEF From
<1> QED BY <1>1, <1>2, ApartInherited

LEMMA ServedHolds ==
  ASSUME NEW b, NEW S, NEW n \in Nat, NEW s \in Nat, Holds(b, S, n, s), b.era # 0,
         NEW k \in Nat
  PROVE  LET r == pool_rand(b, k)
         IN  /\ Holds(r.pool, S \cup ToSet(r.bytes), n + k, s)
             /\ r.pool.era = b.era /\ r.pool.key[1] = b.key[1]
             /\ \A y \in ToSet(r.bytes) : y \in Name /\ y # Zero /\ y[1] = b.key[1]
<1> DEFINE p == pool_rand(b, k).pool
           y == pool_rand(b, k).bytes
<1>1. Answer(b, k, p, y)
  BY RandAnswers DEF Holds
<1> HIDE DEF p, y
<1>2. /\ Good(p) /\ p.era = b.era
      /\ y \in Seq(Name) /\ Len(y) = k
      /\ \A i \in 1 .. k : From(b, y[i])
      /\ \A x \in Items(p) : From(b, x)
      /\ \A i, j \in 1 .. k : i # j => Apart(y[i], y[j])
      /\ \A i \in 1 .. k : \A x \in Items(p) : Apart(y[i], x)
      /\ Cells(p) \/ (k = 0 /\ p.buffer = b.buffer)
  BY <1>1 DEF Answer
<1>3. /\ b \in Pool /\ p \in Pool
      /\ \A x \in Items(b) : x # Zero /\ x[1] = b.key[1]
      /\ b.key[1] \in 0 .. s /\ b.key[1] # 0
      /\ IsFiniteSet(S) /\ Cardinality(S) = n
      /\ \A z \in S : /\ z \in Name /\ z # Zero /\ z[1] \in 1 .. s
                      /\ \A x \in Items(b) : Apart(z, x)
                      /\ \A i \in 1 .. BufLen : b.buffer[i] # z
  BY <1>2 DEF Holds, Good
<1>4. b.key[1] \in 1 .. s
  BY <1>3
<1>5. \A x \in Items(p) : x \in Name /\ x # Zero /\ x[1] = b.key[1]
  BY <1>2, <1>3, FromSeed
<1>6. p.key \in Items(p) /\ p.key[1] = b.key[1]
  BY <1>5 DEF Items
<1>7. ToSet(y) = {y[i] : i \in 1 .. k}
  BY <1>2 DEF ToSet
<1>8. ASSUME NEW z \in ToSet(y)
      PROVE  /\ From(b, z) /\ z \in Name /\ z # Zero /\ z[1] = b.key[1]
             /\ \A x \in Items(p) : Apart(z, x)
             /\ k # 0
  <2>1. PICK i \in 1 .. k : z = y[i]
    BY <1>7
  <2>2. From(b, z) /\ \A x \in Items(p) : Apart(z, x)
    BY <1>2, <2>1
  <2>3. k # 0
    BY <2>1
  <2> QED BY <1>3, <2>2, <2>3, FromSeed
<1>9. \A z \in S : \A x \in Items(p) : Apart(z, x)
  BY <1>2, <1>3, ApartFrom
<1>10. ASSUME NEW z \in S \cup ToSet(y), NEW i \in 1 .. BufLen
       PROVE  p.buffer[i] # z
  <2>1. z \in Name /\ z # Zero /\ \A x \in Items(p) : Apart(z, x)
    BY <1>3, <1>8, <1>9
  <2>2. CASE p.buffer[i] \in Items(p)
    BY <1>5, <2>1, <2>2, ApartDiffers
  <2>3. CASE p.buffer[i] = Zero
    BY <2>1, <2>3
  <2>4. CASE k = 0 /\ p.buffer = b.buffer
    <3>1. z \in S
      BY <1>8, <2>4
    <3> QED BY <1>3, <2>4, <3>1
  <2> QED BY <1>2, <2>2, <2>3, <2>4 DEF Cells
<1>11. S \cap ToSet(y) = {}
  <2> SUFFICES ASSUME NEW z \in S, z \in ToSet(y) PROVE FALSE
    OBVIOUS
  <2>1. z \in Name /\ From(b, z) /\ \A x \in Items(b) : Apart(z, x)
    BY <1>3, <1>8
  <2>2. Apart(z, z)
    BY <1>3, <2>1, ApartFrom
  <2> QED BY <2>1, <2>2, ApartDiffers
<1>12. IsFiniteSet(S \cup ToSet(y)) /\ Cardinality(S \cup ToSet(y)) = n + k
  <2>1. IsFiniteSet(ToSet(y)) /\ Cardinality(ToSet(y)) = k
    BY <1>2, BytesCounted
  <2>2. Cardinality({}) = 0
    BY FS_EmptySet
  <2>3. /\ IsFiniteSet(S \cup ToSet(y))
        /\ Cardinality(S \cup ToSet(y)) = Cardinality(S) + Cardinality(ToSet(y)) - Cardinality(S \cap ToSet(y))
    BY <1>3, <2>1, FS_Union
  <2>4. Cardinality(S \cup ToSet(y)) = n + k - 0
    BY <1>3, <1>11, <2>1, <2>2, <2>3
  <2> QED BY <2>3, <2>4
<1>13. \A z \in S \cup ToSet(y) :
         /\ z \in Name /\ z # Zero /\ z[1] \in 1 .. s
         /\ \A x \in Items(p) : Apart(z, x)
         /\ \A i \in 1 .. BufLen : p.buffer[i] # z
  BY <1>3, <1>4, <1>8, <1>9, <1>10
<1>14. Holds(p, S \cup ToSet(y), n + k, s)
  BY <1>2, <1>3, <1>5, <1>6, <1>12, <1>13 DEF Holds
<1> QED BY <1>2, <1>6, <1>8, <1>14 DEF p, y

-----------------------------------------------------------------------------
(* Seed eras.                                                              *)

Eras == {e \in 1 .. EraMod - 1 : e % 2 = 1}

LEMMA NextEraValue ==
  ASSUME NEW e \in Eras
  PROVE  NextEra(e) = IF e + 2 < EraMod THEN e + 2 ELSE e + 2 - EraMod
<1>1. e \in Nat /\ e < EraMod /\ EraMod \in Nat /\ EraMod >= 4
  BY SizesAssumption DEF Eras
<1> QED BY <1>1 DEF NextEra

\* They stay odd, also when the counter wraps.
LEMMA NextEraOdd ==
  ASSUME NEW e \in Eras
  PROVE  NextEra(e) \in Eras
<1>1. e \in Nat /\ e < EraMod /\ EraMod \in Nat /\ EraMod >= 4 /\ e % 2 = 1 /\ EraMod % 2 = 0
  BY SizesAssumption DEF Eras
<1>2. (e + 2) % 2 = 1 /\ (e + 2 - EraMod) % 2 = 1
  BY <1>1
<1>3. CASE e + 2 < EraMod
  BY <1>1, <1>2, <1>3, NextEraValue DEF Eras
<1>4. CASE ~(e + 2 < EraMod)
  <2>1. e + 2 - EraMod \in 0 .. EraMod - 1 /\ e + 2 - EraMod # 0
    BY <1>1, <1>2, <1>4
  <2> QED BY <1>1, <1>2, <1>4, <2>1, NextEraValue DEF Eras
<1> QED BY <1>3, <1>4

-----------------------------------------------------------------------------
(* The invariant that needs no bound on the number of calls.               *)

Types ==
  /\ seed_era \in [Procs -> Eras]
  /\ pool \in [Users -> Pool]
  /\ pc \in [Users -> {"none", "born", "idle", "rand", "seed"}]
  /\ len \in [Users -> Nat]
  /\ era \in [Users -> Nat]
  /\ seeds \in Nat /\ calls \in Nat
  /\ served \in [Users -> SUBSET Name]
  /\ total \in [Users -> Nat]
  /\ start \in [Procs -> Nat]
  /\ floor \in [Users -> Nat]

\* The era a call works for is never the 0 of a pool that was not seeded.
ErasOdd == \A t \in Users : pc[t] \in {"rand", "seed"} => era[t] \in Eras

PoolsHold == \A t \in Users : Holds(pool[t], served[t], total[t], seeds)

Unborn == pc[Child] = "none" => served[Child] = {} /\ pool[Child].era = 0
                                 /\ pool[Child].key[1] = 0

PoolInv == Types /\ ErasOdd /\ PoolsHold /\ Unborn

LEMMA UsersProcs ==
  /\ \A t \in Users : Proc(t) \in Procs
  /\ Child \in Users /\ Threads \subseteq Users /\ Child \notin Threads
  /\ Proc(Child) = "child" /\ \A t \in Threads : Proc(t) = "parent"
  /\ \A t \in Users : t \in Threads \/ t = Child
  /\ "child" \in Procs /\ "parent" \in Procs
BY SizesAssumption DEF Users, Proc, Procs

LEMMA InitPoolInv ==
  Init => PoolInv
<1> SUFFICES ASSUME Init PROVE PoolInv
  OBVIOUS
<1> USE DEF Init
<1>1. Holds(NewPool, {}, 0, 0) /\ NewPool \in Pool
  BY HoldsNew DEF Holds, Good
<1>2. NewPool.era = 0 /\ NewPool.key[1] = 0
  BY DEF NewPool
<1>3. seed_era \in [Procs -> Eras]
  BY SizesAssumption DEF Eras
<1> HIDE DEF Name, Pool, NewPool
<1>4. Types
  BY <1>1, <1>3 DEF Types
<1>5. ErasOdd
  BY DEF ErasOdd
<1>6. PoolsHold
  BY <1>1 DEF PoolsHold
<1>7. Unborn
  BY <1>2, UsersProcs DEF Unborn
<1> QED BY <1>4, <1>5, <1>6, <1>7 DEF PoolInv

\* Serve, from a pool that was seeded.
LEMMA ServeStep ==
  ASSUME PoolInv, NEW t \in Users, NEW b, NEW s \in Nat,
         Holds(b, served[t], total[t], s), b.era # 0, Serve(t, b)
  PROVE  /\ pool' \in [Users -> Pool] /\ served' \in [Users -> SUBSET Name]
         /\ total' \in [Users -> Nat]
         /\ Holds(pool'[t], served'[t], total'[t], s)
         /\ pool'[t].era = b.era /\ pool'[t].key[1] = b.key[1]
         /\ \A y \in served'[t] \ served[t] : y \in Name /\ y # Zero /\ y[1] = b.key[1]
         /\ served[t] \subseteq served'[t]
         /\ \A u \in Users \ {t} : /\ pool'[u] = pool[u] /\ served'[u] = served[u]
                                   /\ total'[u] = total[u]
<1> DEFINE r == pool_rand(b, len[t])
<1>1. /\ pool \in [Users -> Pool] /\ served \in [Users -> SUBSET Name]
      /\ total \in [Users -> Nat] /\ len \in [Users -> Nat]
  BY DEF PoolInv, Types
<1>2. /\ Holds(r.pool, served[t] \cup ToSet(r.bytes), total[t] + len[t], s)
      /\ r.pool.era = b.era /\ r.pool.key[1] = b.key[1]
      /\ \A y \in ToSet(r.bytes) : y \in Name /\ y # Zero /\ y[1] = b.key[1]
  <2>1. total[t] \in Nat /\ len[t] \in Nat
    BY <1>1
  <2> QED BY <2>1, ServedHolds
<1>3. /\ pool' = [pool EXCEPT ![t] = r.pool]
      /\ served' = [served EXCEPT ![t] = served[t] \cup ToSet(r.bytes)]
      /\ total' = [total EXCEPT ![t] = total[t] + len[t]]
  BY DEF Serve
<1> HIDE DEF r, Name, Pool
<1>4. r.pool \in Pool
  BY <1>2 DEF Holds, Good
<1>5. /\ pool'[t] = r.pool /\ served'[t] = served[t] \cup ToSet(r.bytes)
      /\ total'[t] = total[t] + len[t]
  BY <1>1, <1>3
<1>6. pool' \in [Users -> Pool]
  BY <1>1, <1>3, <1>4
<1>7. served' \in [Users -> SUBSET Name]
  BY <1>1, <1>2, <1>3
<1>8. total' \in [Users -> Nat]
  BY <1>1, <1>3
<1>9. \A u \in Users \ {t} : pool'[u] = pool[u] /\ served'[u] = served[u] /\ total'[u] = total[u]
  BY <1>1, <1>3
<1> QED BY <1>2, <1>5, <1>6, <1>7, <1>8, <1>9

LEMMA LeaveStep ==
  ASSUME PoolInv, NEW t \in Users, Leave(t)
  PROVE  /\ pc' \in [Users -> {"none", "born", "idle", "rand", "seed"}]
         /\ len' \in [Users -> Nat] /\ era' \in [Users -> Nat] /\ floor' \in [Users -> Nat]
         /\ pc'[t] = "idle"
         /\ \A u \in Users \ {t} : pc'[u] = pc[u] /\ era'[u] = era[u] /\ floor'[u] = floor[u]
<1>1. /\ pc \in [Users -> {"none", "born", "idle", "rand", "seed"}]
      /\ len \in [Users -> Nat] /\ era \in [Users -> Nat] /\ floor \in [Users -> Nat]
  BY DEF PoolInv, Types
<1>2. pc' \in [Users -> {"none", "born", "idle", "rand", "seed"}] /\ pc'[t] = "idle"
  BY <1>1 DEF Leave
<1>3. len' \in [Users -> Nat] /\ era' \in [Users -> Nat] /\ floor' \in [Users -> Nat]
  BY <1>1 DEF Leave
<1>4. \A u \in Users \ {t} : pc'[u] = pc[u] /\ era'[u] = era[u] /\ floor'[u] = floor[u]
  BY <1>1 DEF Leave
<1> QED BY <1>2, <1>3, <1>4

\* A thread other than the one that acts keeps what it has; s' is seeds or
\* seeds + 1.
LEMMA OthersHold ==
  ASSUME PoolInv, seeds' = seeds \/ seeds' = seeds + 1, NEW t \in Users,
         Holds(pool'[t], served'[t], total'[t], seeds'),
         \A u \in Users \ {t} : /\ pool'[u] = pool[u] /\ served'[u] = served[u]
                                /\ total'[u] = total[u]
  PROVE  PoolsHold'
<1>1. seeds \in Nat /\ \A u \in Users : Holds(pool[u], served[u], total[u], seeds)
  BY DEF PoolInv, Types, PoolsHold
<1>2. ASSUME NEW u \in Users
      PROVE  Holds(pool'[u], served'[u], total'[u], seeds')
  <2>1. CASE u = t
    BY <2>1
  <2>2. CASE u # t
    <3>1. Holds(pool[u], served[u], total[u], seeds')
      BY <1>1, HoldsLater
    <3> QED BY <2>2, <3>1
  <2> QED BY <2>1, <2>2
<1> QED BY <1>2 DEF PoolsHold

LEMMA RandCallPoolInv ==
  ASSUME PoolInv, NEW t \in Users, NEW n \in Lens, RandCall(t, n)
  PROVE  PoolInv'
<1>1. /\ pc \in [Users -> {"none", "born", "idle", "rand", "seed"}]
      /\ len \in [Users -> Nat] /\ era \in [Users -> Nat] /\ floor \in [Users -> Nat]
      /\ seed_era \in [Procs -> Eras] /\ start \in [Procs -> Nat] /\ calls \in Nat
  BY DEF PoolInv, Types
<1>2. /\ pc' = [pc EXCEPT ![t] = "rand"] /\ calls' = calls + 1
      /\ len' = [len EXCEPT ![t] = n]
      /\ era' = [era EXCEPT ![t] = seed_era[Proc(t)]]
      /\ floor' = [floor EXCEPT ![t] = start[Proc(t)]]
      /\ UNCHANGED <<seed_era, pool, seeds, served, total, start>>
      /\ pc[t] = "idle"
  BY DEF RandCall, outVars
<1>3. Proc(t) \in Procs /\ Child \in Users /\ n \in Nat /\ seed_era[Proc(t)] \in Eras
  BY <1>1, UsersProcs, SizesAssumption
<1>4. seed_era[Proc(t)] \in Nat
  BY <1>3, SizesAssumption DEF Eras
<1>5. Types'
  <2>1. /\ pc' \in [Users -> {"none", "born", "idle", "rand", "seed"}]
        /\ len' \in [Users -> Nat]
    BY <1>1, <1>2, <1>3
  <2>2. era' \in [Users -> Nat] /\ floor' \in [Users -> Nat] /\ calls' \in Nat
    BY <1>1, <1>2, <1>3, <1>4
  <2> QED BY <1>2, <2>1, <2>2 DEF PoolInv, Types
<1>6. ErasOdd'
  BY <1>1, <1>2, <1>3 DEF PoolInv, ErasOdd
<1>7. PoolsHold'
  BY <1>2 DEF PoolInv, PoolsHold
<1>8. Unborn'
  BY <1>1, <1>2, <1>3 DEF PoolInv, Unborn
<1> QED BY <1>5, <1>6, <1>7, <1>8 DEF PoolInv

LEMMA RandServePoolInv ==
  ASSUME PoolInv, NEW t \in Users, RandServe(t)
  PROVE  PoolInv'
<1>1. /\ pc[t] = "rand" /\ Serve(t, pool[t]) /\ Leave(t) /\ pool[t].era = era[t]
      /\ UNCHANGED <<seed_era, seeds, calls, start>>
  BY DEF RandServe, Serve
<1>2. seeds \in Nat /\ Holds(pool[t], served[t], total[t], seeds)
  BY DEF PoolInv, Types, PoolsHold
<1>3. pool[t].era # 0
  BY <1>1 DEF PoolInv, ErasOdd, Eras
<1>4. /\ pool' \in [Users -> Pool] /\ served' \in [Users -> SUBSET Name]
      /\ total' \in [Users -> Nat]
      /\ Holds(pool'[t], served'[t], total'[t], seeds)
      /\ \A u \in Users \ {t} : /\ pool'[u] = pool[u] /\ served'[u] = served[u]
                                /\ total'[u] = total[u]
  BY <1>1, <1>2, <1>3, ServeStep
<1>5. /\ pc' \in [Users -> {"none", "born", "idle", "rand", "seed"}]
      /\ len' \in [Users -> Nat] /\ era' \in [Users -> Nat] /\ floor' \in [Users -> Nat]
      /\ pc'[t] = "idle"
      /\ \A u \in Users \ {t} : pc'[u] = pc[u] /\ era'[u] = era[u] /\ floor'[u] = floor[u]
  BY <1>1, LeaveStep
<1>6. Types'
  BY <1>1, <1>4, <1>5 DEF PoolInv, Types
<1>7. ErasOdd'
  BY <1>5 DEF PoolInv, ErasOdd
<1>8. PoolsHold'
  BY <1>1, <1>4, OthersHold
<1>9. Unborn'
  BY <1>4, <1>5, UsersProcs DEF PoolInv, Unborn
<1> QED BY <1>6, <1>7, <1>8, <1>9 DEF PoolInv

LEMMA RandSeedPoolInv ==
  ASSUME PoolInv, NEW t \in Users, RandSeed(t)
  PROVE  PoolInv'
<1> DEFINE b == Seeded(pool[t], seeds + 1, era[t])
<1>1. /\ pc[t] = "rand" /\ Serve(t, b) /\ Leave(t) /\ seeds' = seeds + 1
      /\ UNCHANGED <<seed_era, calls, start>>
  BY DEF RandSeed, Serve
<1>2. /\ seeds \in Nat /\ era[t] \in Nat /\ Holds(pool[t], served[t], total[t], seeds)
  BY DEF PoolInv, Types, PoolsHold
<1>3. era[t] # 0
  BY <1>1 DEF PoolInv, ErasOdd, Eras
<1>4. Holds(b, served[t], total[t], seeds + 1) /\ b.era = era[t] /\ seeds + 1 \in Nat
  BY <1>2, SeededHolds
<1> HIDE DEF b
<1>5. /\ pool' \in [Users -> Pool] /\ served' \in [Users -> SUBSET Name]
      /\ total' \in [Users -> Nat]
      /\ Holds(pool'[t], served'[t], total'[t], seeds + 1)
      /\ \A u \in Users \ {t} : /\ pool'[u] = pool[u] /\ served'[u] = served[u]
                                /\ total'[u] = total[u]
  BY <1>1, <1>3, <1>4, ServeStep
<1>6. /\ pc' \in [Users -> {"none", "born", "idle", "rand", "seed"}]
      /\ len' \in [Users -> Nat] /\ era' \in [Users -> Nat] /\ floor' \in [Users -> Nat]
      /\ pc'[t] = "idle"
      /\ \A u \in Users \ {t} : pc'[u] = pc[u] /\ era'[u] = era[u] /\ floor'[u] = floor[u]
  BY <1>1, LeaveStep
<1>7. Types'
  <2>1. seeds' \in Nat
    BY <1>1, <1>2
  <2> QED BY <1>1, <1>5, <1>6, <2>1 DEF PoolInv, Types
<1>8. ErasOdd'
  BY <1>6 DEF PoolInv, ErasOdd
<1>9. PoolsHold'
  BY <1>1, <1>5, OthersHold
<1>10. Unborn'
  BY <1>5, <1>6, UsersProcs DEF PoolInv, Unborn
<1> QED BY <1>7, <1>8, <1>9, <1>10 DEF PoolInv

LEMMA ReseedCallPoolInv ==
  ASSUME PoolInv, NEW t \in Users, ReseedCall(t)
  PROVE  PoolInv'
<1>1. /\ pc \in [Users -> {"none", "born", "idle", "rand", "seed"}]
      /\ era \in [Users -> Nat] /\ seeds \in Nat
      /\ seed_era \in [Procs -> Eras] /\ start \in [Procs -> Nat] /\ calls \in Nat
  BY DEF PoolInv, Types
<1>2. /\ pc' = [pc EXCEPT ![t] = "seed"] /\ calls' = calls + 1
      /\ seed_era' = [seed_era EXCEPT ![Proc(t)] = NextEra(seed_era[Proc(t)])]
      /\ era' = [era EXCEPT ![t] = NextEra(seed_era[Proc(t)])]
      /\ start' = [start EXCEPT ![Proc(t)] = seeds]
      /\ UNCHANGED <<pool, len, floor, seeds, served, total>>
      /\ pc[t] \in {"idle", "born"}
  BY DEF ReseedCall, outVars
<1>3. Proc(t) \in Procs /\ Child \in Users /\ NextEra(seed_era[Proc(t)]) \in Eras
  BY <1>1, UsersProcs, NextEraOdd
<1>4. NextEra(seed_era[Proc(t)]) \in Nat
  BY <1>3, SizesAssumption DEF Eras
<1>5. Types'
  <2>1. pc' \in [Users -> {"none", "born", "idle", "rand", "seed"}]
    BY <1>1, <1>2
  <2>2. era' \in [Users -> Nat] /\ calls' \in Nat
    BY <1>1, <1>2, <1>4
  <2>3. seed_era' \in [Procs -> Eras]
    BY <1>1, <1>2, <1>3
  <2>4. start' \in [Procs -> Nat]
    BY <1>1, <1>2, <1>3
  <2> QED BY <1>2, <2>1, <2>2, <2>3, <2>4 DEF PoolInv, Types
<1>6. ErasOdd'
  BY <1>1, <1>2, <1>3 DEF PoolInv, ErasOdd
<1>7. PoolsHold'
  BY <1>2 DEF PoolInv, PoolsHold
<1>8. Unborn'
  BY <1>1, <1>2, <1>3 DEF PoolInv, Unborn
<1> QED BY <1>5, <1>6, <1>7, <1>8 DEF PoolInv

LEMMA ReseedSeedPoolInv ==
  ASSUME PoolInv, NEW t \in Users, ReseedSeed(t)
  PROVE  PoolInv'
<1> DEFINE b == Seeded(pool[t], seeds + 1, era[t])
<1>1. /\ pc[t] = "seed" /\ pool' = [pool EXCEPT ![t] = b] /\ Leave(t) /\ seeds' = seeds + 1
      /\ UNCHANGED <<seed_era, calls, start, served, total>>
  BY DEF ReseedSeed, outVars
<1>2. /\ seeds \in Nat /\ era[t] \in Nat /\ Holds(pool[t], served[t], total[t], seeds)
      /\ pool \in [Users -> Pool]
  BY DEF PoolInv, Types, PoolsHold
<1>3. Holds(b, served[t], total[t], seeds + 1)
  BY <1>2, SeededHolds
<1>4. b \in Pool
  BY <1>3 DEF Holds, Good
<1> HIDE DEF b, Pool
<1>5. /\ pool' \in [Users -> Pool] /\ pool'[t] = b
      /\ \A u \in Users \ {t} : pool'[u] = pool[u]
  BY <1>1, <1>2, <1>4
<1>6. /\ pc' \in [Users -> {"none", "born", "idle", "rand", "seed"}]
      /\ len' \in [Users -> Nat] /\ era' \in [Users -> Nat] /\ floor' \in [Users -> Nat]
      /\ pc'[t] = "idle"
      /\ \A u \in Users \ {t} : pc'[u] = pc[u] /\ era'[u] = era[u] /\ floor'[u] = floor[u]
  BY <1>1, LeaveStep
<1>7. Types'
  <2>1. seeds' \in Nat
    BY <1>1, <1>2
  <2> QED BY <1>1, <1>5, <1>6, <2>1 DEF PoolInv, Types
<1>8. ErasOdd'
  BY <1>6 DEF PoolInv, ErasOdd
<1>9. PoolsHold'
  BY <1>1, <1>3, <1>5, OthersHold
<1>10. Unborn'
  BY <1>1, <1>5, <1>6, UsersProcs DEF PoolInv, Unborn
<1> QED BY <1>7, <1>8, <1>9, <1>10 DEF PoolInv

LEMMA ReseedFailPoolInv ==
  ASSUME PoolInv, NEW t \in Users, ReseedFail(t)
  PROVE  PoolInv'
<1>1. Leave(t) /\ UNCHANGED <<seed_era, pool, seeds, calls, served, total, start>>
  BY DEF ReseedFail, outVars
<1>2. /\ pc' \in [Users -> {"none", "born", "idle", "rand", "seed"}]
      /\ len' \in [Users -> Nat] /\ era' \in [Users -> Nat] /\ floor' \in [Users -> Nat]
      /\ pc'[t] = "idle"
      /\ \A u \in Users \ {t} : pc'[u] = pc[u] /\ era'[u] = era[u] /\ floor'[u] = floor[u]
  BY <1>1, LeaveStep
<1>3. Types'
  BY <1>1, <1>2 DEF PoolInv, Types
<1>4. ErasOdd'
  BY <1>2 DEF PoolInv, ErasOdd
<1>5. PoolsHold'
  BY <1>1 DEF PoolInv, PoolsHold
<1>6. Unborn'
  BY <1>1, <1>2, UsersProcs DEF PoolInv, Unborn
<1> QED BY <1>3, <1>4, <1>5, <1>6 DEF PoolInv

LEMMA ForkPoolInv ==
  ASSUME PoolInv, NEW t \in Users, Fork(t)
  PROVE  PoolInv'
<1>1. /\ pc \in [Users -> {"none", "born", "idle", "rand", "seed"}]
      /\ seed_era \in [Procs -> Eras] /\ start \in [Procs -> Nat]
      /\ pool \in [Users -> Pool]
  BY DEF PoolInv, Types
<1>2. /\ t \in Threads /\ pc[Child] = "none"
      /\ pool' = [pool EXCEPT ![Child] = pool[t]]
      /\ seed_era' = [seed_era EXCEPT !["child"] = seed_era["parent"]]
      /\ start' = [start EXCEPT !["child"] = start["parent"]]
      /\ pc' = [pc EXCEPT ![Child] = "born"]
      /\ UNCHANGED <<len, era, floor, seeds, calls, served, total>>
  BY DEF Fork, outVars
<1>3. Child \in Users /\ "child" \in Procs /\ "parent" \in Procs
  BY UsersProcs
<1> HIDE DEF Pool
<1>4. /\ pool' \in [Users -> Pool] /\ pool'[Child] = pool[t]
      /\ \A u \in Users \ {Child} : pool'[u] = pool[u]
  BY <1>1, <1>2, <1>3
<1>5. /\ pc' \in [Users -> {"none", "born", "idle", "rand", "seed"}] /\ pc'[Child] = "born"
      /\ \A u \in Users \ {Child} : pc'[u] = pc[u]
  BY <1>1, <1>2, <1>3
<1>6. seed_era' \in [Procs -> Eras] /\ start' \in [Procs -> Nat]
  BY <1>1, <1>2, <1>3
<1>7. Types'
  BY <1>2, <1>4, <1>5, <1>6 DEF PoolInv, Types
<1>8. ErasOdd'
  BY <1>2, <1>5 DEF PoolInv, ErasOdd
<1>9. PoolsHold'
  <2>1. /\ Holds(pool[t], served[t], total[t], seeds)
        /\ Holds(pool[Child], served[Child], total[Child], seeds)
        /\ served[Child] = {}
    BY <1>2, <1>3 DEF PoolInv, PoolsHold, Unborn
  <2>2. total[Child] = 0
    BY <2>1, FS_EmptySet DEF Holds
  <2>3. Holds(pool[t], served[Child], total[Child], seeds)
    BY <2>1, <2>2, HoldsCopied
  <2>4. Holds(pool'[Child], served'[Child], total'[Child], seeds')
    BY <1>2, <1>4, <2>3
  <2> QED BY <1>2, <1>3, <1>4, <2>4, OthersHold
<1>10. Unborn'
  BY <1>5 DEF Unborn
<1> QED BY <1>7, <1>8, <1>9, <1>10 DEF PoolInv

LEMMA NextPoolInv ==
  PoolInv /\ [Next]_vars => PoolInv'
<1> SUFFICES ASSUME PoolInv, [Next]_vars PROVE PoolInv'
  OBVIOUS
<1>1. CASE UNCHANGED vars
  BY <1>1 DEF PoolInv, Types, ErasOdd, PoolsHold, Unborn, vars, callVars, outVars
<1>2. CASE Next
  <2> PICK t \in Users : \/ \E n \in Lens : RandCall(t, n)
                         \/ RandServe(t) \/ RandSeed(t) \/ RandAbort(t)
                         \/ ReseedCall(t) \/ ReseedSeed(t) \/ ReseedFail(t)
                         \/ Fork(t)
    BY <1>2 DEF Next
  <2>1. CASE RandAbort(t)
    BY <2>1 DEF RandAbort, PoolInv, Types, ErasOdd, PoolsHold, Unborn, callVars, outVars
  <2> QED
    BY <2>1, RandCallPoolInv, RandServePoolInv, RandSeedPoolInv, ReseedCallPoolInv,
       ReseedSeedPoolInv, ReseedFailPoolInv, ForkPoolInv
<1> QED BY <1>1, <1>2

LEMMA FrontBelow ==
  ASSUME NEW x \in Name, x # Zero
  PROVE  Front(x) \in Name /\ Below(Front(x), x)
<1>1. x \in Seq(Nat) /\ Len(x) \in Nat /\ Len(x) # 0
  BY DEF Name, Zero
<1>2. Front(x) = SubSeq(x, 1, Len(x) - 1)
  BY DEF Front
<1>3. \A i \in 1 .. Len(x) - 1 : x[i] \in Nat
  BY <1>1
<1>4. /\ Front(x) \in Seq(Nat)
      /\ Len(Front(x)) = IF 1 <= Len(x) - 1 THEN Len(x) - 1 - 1 + 1 ELSE 0
      /\ \A i \in 1 .. Len(x) - 1 - 1 + 1 : Front(x)[i] = x[1 + i - 1]
  BY <1>1, <1>2, <1>3, SubSeqProperties
<1>5. Len(Front(x)) = Len(x) - 1 /\ \A i \in 1 .. Len(x) - 1 : Front(x)[i] = x[i]
  <2>1. \A n \in Nat : n - 1 - 1 + 1 = n - 1
    OBVIOUS
  <2>2. \A i \in 1 .. Len(x) - 1 : 1 + i - 1 = i
    BY <1>1
  <2>3. Len(x) - 1 - 1 + 1 = Len(x) - 1
    BY <1>1, <2>1
  <2> DEFINE n == Len(x)
  <2>4. Len(Front(x)) = n - 1
    <3>1. n \in Nat /\ n # 0 /\ n - 1 - 1 + 1 = n - 1
      BY <1>1, <2>3
    <3>2. Len(Front(x)) = IF 1 <= n - 1 THEN n - 1 - 1 + 1 ELSE 0
      BY <1>4
    <3> HIDE DEF n
    <3> QED BY <3>1, <3>2
  <2>5. \A i \in 1 .. n - 1 : Front(x)[i] = x[i]
    BY <1>4, <2>2, <2>3
  <2> QED BY <2>4, <2>5
<1> DEFINE f == Front(x)
<1>6. f \in Seq(Nat) /\ Len(f) = Len(x) - 1 /\ \A i \in 1 .. Len(x) - 1 : f[i] = x[i]
  BY <1>4, <1>5
<1> HIDE DEF f
<1>7. Len(f) <= Len(x) /\ \A i \in 1 .. Len(f) : f[i] = x[i]
  BY <1>1, <1>6
<1> QED BY <1>6, <1>7 DEF Below, Name, f

\* PoolInv is an invariant: every pool is an antichain of names, apart from
\* every byte that its thread was given.
THEOREM Invariance ==
  Spec => []PoolInv
BY InitPoolInv, NextPoolInv, PTL DEF Spec

\* Whoever reads the memory of a pool finds neither a byte that pool_rand has
\* given out nor the key it was made from.
THEOREM PoolsKeepNoSecret ==
  Spec => []BacktrackingProtection
<1>1. PoolInv => BacktrackingProtection
  <2> SUFFICES ASSUME PoolInv, NEW t \in Users, NEW y \in served[t]
               PROVE  /\ y \notin ToSet(pool[t].buffer)
                      /\ Front(y) # pool[t].key
                      /\ y # pool[t].key
    BY DEF BacktrackingProtection
  <2>1. /\ pool[t] \in Pool /\ y \in Name /\ y # Zero
        /\ \A x \in Items(pool[t]) : Apart(y, x)
        /\ \A i \in 1 .. BufLen : pool[t].buffer[i] # y
    BY DEF PoolInv, PoolsHold, Holds, Good
  <2>2. pool[t].buffer \in [1 .. BufLen -> Name] /\ pool[t].key \in Name /\ BufLen \in Nat
    BY <2>1, Fields, Sizes
  <2>3. y \notin ToSet(pool[t].buffer)
    <3>1. Len(pool[t].buffer) = BufLen
      BY <2>2
    <3> QED BY <2>1, <3>1 DEF ToSet
  <2>4. Apart(y, pool[t].key)
    BY <2>1 DEF Items
  <2>5. Front(y) # pool[t].key
    BY <2>1, <2>4, FrontBelow DEF Apart
  <2>6. y # pool[t].key
    BY <2>1, <2>2, <2>4, ApartDiffers
  <2> QED BY <2>3, <2>5, <2>6
<1> QED BY <1>1, Invariance, PTL

\* The all-zero key of static storage gives no output, however often seed_era
\* has wrapped around.
THEOREM ZeroKeyNeverServes ==
  Spec => []UnseededNeverServes
<1>1. PoolInv => UnseededNeverServes
  <2> SUFFICES ASSUME PoolInv, NEW t \in Users, NEW y \in served[t]
               PROVE  Head(y) # 0
    BY DEF UnseededNeverServes
  <2>1. y \in Name /\ y # Zero /\ y[1] \in 1 .. seeds /\ seeds \in Nat
    BY DEF PoolInv, Types, PoolsHold, Holds
  <2>2. Head(y) = y[1]
    BY <2>1 DEF Name, Zero
  <2> QED BY <2>1, <2>2
<1> QED BY <1>1, Invariance, PTL

-----------------------------------------------------------------------------
(* What depends on seed_era not coming round: that it is started anew fewer *)
(* than 2^31 times, which a bound on the calls gives.                      *)

FewCalls == MaxCalls \in Nat /\ 2 * MaxCalls < EraMod

\* How far seed_era has moved from era e to era s.
Age(e, s) == IF e <= s THEN s - e ELSE s + EraMod - e

LEMMA AgeBounds ==
  ASSUME NEW e \in Eras, NEW s \in Eras
  PROVE  Age(e, s) \in Nat /\ Age(e, e) = 0 /\ (Age(e, s) = 0 => e = s)
<1>1. e \in Nat /\ e < EraMod /\ s \in Nat /\ s < EraMod /\ EraMod \in Nat
  BY SizesAssumption DEF Eras
<1> QED BY <1>1 DEF Age

LEMMA AgeGrows ==
  ASSUME NEW e \in Eras, NEW s \in Eras, Age(e, s) + 2 < EraMod
  PROVE  Age(e, NextEra(s)) = Age(e, s) + 2 /\ e # NextEra(s)
<1>1. e \in Nat /\ e < EraMod /\ s \in Nat /\ s < EraMod /\ EraMod \in Nat /\ EraMod >= 4
  BY SizesAssumption DEF Eras
<1>2. NextEra(s) = IF s + 2 < EraMod THEN s + 2 ELSE s + 2 - EraMod
  BY NextEraValue
<1>3. Age(e, NextEra(s)) = Age(e, s) + 2
  BY <1>1, <1>2 DEF Age
<1>4. e # NextEra(s)
  BY <1>1, <1>2 DEF Age
<1> QED BY <1>3, <1>4

CallsBounded == calls <= MaxCalls

\* The eras of pools and of calls in progress are among the last.
AgesBounded ==
  /\ \A t \in Users : pool[t].era # 0 =>
       pool[t].era \in Eras /\ Age(pool[t].era, seed_era[Proc(t)]) <= 2 * calls
  /\ \A t \in Users : pc[t] \in {"rand", "seed"} =>
       Age(era[t], seed_era[Proc(t)]) <= 2 * calls

\* A pool of the present era, or of that of the call, was seeded since.
SeededSince ==
  /\ \A p \in Procs : start[p] <= seeds
  /\ \A t \in Users : floor[t] <= seeds
  /\ \A t \in Users : pool[t].era = seed_era[Proc(t)] => pool[t].key[1] > start[Proc(t)]
  /\ \A t \in Users : pc[t] = "rand" /\ pool[t].era = era[t] => pool[t].key[1] > floor[t]

\* The thread of a child is the only one that changes its era.
ChildAlone == pc[Child] \in {"rand", "seed"} => era[Child] = seed_era["child"]

\* The child has not seeded its pool since fork().
Stale == pc[Child] = "born" \/ pool[Child].era # seed_era["child"]

\* Two pools have the same seed only if one is the copy that fork() made, and
\* that one is not read from before it has a seed of its own.
KeysApart ==
  \A t, u \in Users :
    t # u /\ pool[t].key[1] = pool[u].key[1] /\ pool[t].key[1] # 0
      => Stale /\ (t = Child \/ u = Child)

ServedApart ==
  /\ \A t, u \in Users : \A y \in served[u] :
       t # u /\ y[1] = pool[t].key[1] => t = Child /\ Stale
  /\ \A t, u \in Users : t # u => served[t] \cap served[u] = {}

EraInv == CallsBounded /\ AgesBounded /\ SeededSince /\ ChildAlone /\ KeysApart /\ ServedApart

LEMMA InitEraInv ==
  ASSUME FewCalls, Init
  PROVE  EraInv
<1> HIDE DEF Name, Pool
<1>1. /\ \A t \in Users : pool[t].era = 0 /\ pool[t].key[1] = 0 /\ served[t] = {}
      /\ \A t \in Users : pc[t] \notin {"rand", "seed"} /\ floor[t] = 0
      /\ \A p \in Procs : start[p] = 0
      /\ calls = 0 /\ seeds = 0
  BY DEF Init, NewPool
<1>2. \A p \in Procs : seed_era[p] \in Eras /\ seed_era[p] # 0
  BY InitPoolInv DEF PoolInv, Types, Eras
<1>3. CallsBounded
  BY <1>1 DEF CallsBounded, FewCalls
<1>4. AgesBounded
  BY <1>1 DEF AgesBounded
<1>5. SeededSince
  BY <1>1, <1>2, UsersProcs DEF SeededSince
<1>6. ChildAlone
  BY <1>1, UsersProcs DEF ChildAlone
<1>7. KeysApart
  BY <1>1 DEF KeysApart
<1>8. ServedApart
  BY <1>1 DEF ServedApart
<1> QED BY <1>3, <1>4, <1>5, <1>6, <1>7, <1>8 DEF EraInv

\* What the proofs about a step use of PoolInv.
LEMMA Facts ==
  ASSUME PoolInv
  PROVE  /\ \A p \in Procs : seed_era[p] \in Eras /\ seed_era[p] # 0 /\ start[p] \in Nat
         /\ \A t \in Users : floor[t] \in Nat /\ pool[t].era \in Nat /\ pool[t].key[1] \in 0 .. seeds
         /\ \A t \in Users : pc[t] \in {"rand", "seed"} => era[t] \in Eras /\ era[t] # 0
         /\ \A t \in Users : pool[t].era # 0 => pool[t].key[1] # 0
         /\ \A t \in Users : \A y \in served[t] : y[1] \in 1 .. seeds
         /\ seeds \in Nat /\ calls \in Nat
<1>1. Types /\ ErasOdd /\ PoolsHold
  BY DEF PoolInv
<1>2. \A p \in Procs : seed_era[p] \in Eras /\ seed_era[p] # 0 /\ start[p] \in Nat
  BY <1>1 DEF Types, Eras
<1>3. \A t \in Users : floor[t] \in Nat /\ pool[t].era \in Nat
  BY <1>1, Fields DEF Types
<1>4. \A t \in Users : pc[t] \in {"rand", "seed"} => era[t] \in Eras /\ era[t] # 0
  BY <1>1 DEF ErasOdd, Eras
<1>5. \A t \in Users : /\ pool[t].key[1] \in 0 .. seeds
                       /\ pool[t].era # 0 => pool[t].key[1] # 0
                       /\ \A y \in served[t] : y[1] \in 1 .. seeds
  BY <1>1 DEF PoolsHold, Holds
<1> QED BY <1>1, <1>2, <1>3, <1>4, <1>5 DEF Types

\* A call of t returns: the seed of its pool is what it was, and bytes are
\* given out only from a pool of the call's era.
Returned(t) ==
  /\ pc[t] # "born" /\ pc'[t] = "idle" /\ floor'[t] = 0
  /\ \A u \in Users \ {t} : pc'[u] = pc[u] /\ era'[u] = era[u] /\ floor'[u] = floor[u]
  /\ \A u \in Users : pool'[u].era = pool[u].era /\ pool'[u].key[1] = pool[u].key[1]
  /\ \A u \in Users \ {t} : served'[u] = served[u]
  /\ \A y \in served'[t] : y \in served[t] \/
       (y[1] = pool[t].key[1] /\ pc[t] = "rand" /\ pool[t].era = era[t])
  /\ UNCHANGED <<seed_era, seeds, calls, start>>

\* It returns after it has seeded the pool.
Reseeded(t) ==
  /\ pc[t] \in {"rand", "seed"} /\ pc'[t] = "idle" /\ floor'[t] = 0
  /\ \A u \in Users \ {t} : pc'[u] = pc[u] /\ era'[u] = era[u] /\ floor'[u] = floor[u]
  /\ pool'[t].era = era[t] /\ pool'[t].key[1] = seeds + 1 /\ seeds' = seeds + 1
  /\ \A u \in Users \ {t} : pool'[u] = pool[u]
  /\ \A u \in Users \ {t} : served'[u] = served[u]
  /\ \A y \in served'[t] : y \in served[t] \/ y[1] = seeds + 1
  /\ UNCHANGED <<seed_era, calls, start>>

LEMMA LeaveFloor ==
  ASSUME PoolInv, NEW t \in Users, Leave(t)
  PROVE  floor'[t] = 0
BY DEF PoolInv, Types, Leave

LEMMA RandServeReturned ==
  ASSUME PoolInv, NEW t \in Users, RandServe(t)
  PROVE  Returned(t)
<1>1. /\ pc[t] = "rand" /\ Serve(t, pool[t]) /\ Leave(t) /\ pool[t].era = era[t]
      /\ UNCHANGED <<seed_era, seeds, calls, start>>
  BY DEF RandServe, Serve
<1>2. seeds \in Nat /\ Holds(pool[t], served[t], total[t], seeds)
  BY DEF PoolInv, Types, PoolsHold
<1>3. pool[t].era # 0
  BY <1>1 DEF PoolInv, ErasOdd, Eras
<1>4. /\ pool'[t].era = pool[t].era /\ pool'[t].key[1] = pool[t].key[1]
      /\ \A y \in served'[t] \ served[t] : y[1] = pool[t].key[1]
      /\ \A u \in Users \ {t} : pool'[u] = pool[u] /\ served'[u] = served[u]
  BY <1>1, <1>2, <1>3, ServeStep
<1>5. /\ pc'[t] = "idle" /\ floor'[t] = 0
      /\ \A u \in Users \ {t} : pc'[u] = pc[u] /\ era'[u] = era[u] /\ floor'[u] = floor[u]
  BY <1>1, LeaveStep, LeaveFloor
<1>6. \A u \in Users : pool'[u].era = pool[u].era /\ pool'[u].key[1] = pool[u].key[1]
  BY <1>4
<1> QED BY <1>1, <1>4, <1>5, <1>6 DEF Returned

LEMMA ReseedFailReturned ==
  ASSUME PoolInv, NEW t \in Users, ReseedFail(t)
  PROVE  Returned(t)
<1>1. pc[t] = "seed" /\ Leave(t) /\ UNCHANGED <<seed_era, pool, seeds, calls, served, start>>
  BY DEF ReseedFail, outVars
<1>2. /\ pc'[t] = "idle" /\ floor'[t] = 0
      /\ \A u \in Users \ {t} : pc'[u] = pc[u] /\ era'[u] = era[u] /\ floor'[u] = floor[u]
  BY <1>1, LeaveStep, LeaveFloor
<1> QED BY <1>1, <1>2 DEF Returned

LEMMA RandSeedReseeded ==
  ASSUME PoolInv, NEW t \in Users, RandSeed(t)
  PROVE  Reseeded(t)
<1> DEFINE b == Seeded(pool[t], seeds + 1, era[t])
<1>1. /\ pc[t] = "rand" /\ Serve(t, b) /\ Leave(t) /\ seeds' = seeds + 1
      /\ UNCHANGED <<seed_era, calls, start>>
  BY DEF RandSeed, Serve
<1>2. /\ seeds \in Nat /\ era[t] \in Nat /\ Holds(pool[t], served[t], total[t], seeds)
  BY DEF PoolInv, Types, PoolsHold
<1>3. era[t] # 0
  BY <1>1 DEF PoolInv, ErasOdd, Eras
<1>4. /\ Holds(b, served[t], total[t], seeds + 1) /\ b.era = era[t] /\ seeds + 1 \in Nat
      /\ b.key[1] = seeds + 1
  BY <1>2, SeededHolds
<1> HIDE DEF b
<1>5. /\ pool'[t].era = b.era /\ pool'[t].key[1] = b.key[1]
      /\ \A y \in served'[t] \ served[t] : y[1] = b.key[1]
      /\ \A u \in Users \ {t} : pool'[u] = pool[u] /\ served'[u] = served[u]
  BY <1>1, <1>3, <1>4, ServeStep
<1>6. /\ pc'[t] = "idle" /\ floor'[t] = 0
      /\ \A u \in Users \ {t} : pc'[u] = pc[u] /\ era'[u] = era[u] /\ floor'[u] = floor[u]
  BY <1>1, LeaveStep, LeaveFloor
<1> QED BY <1>1, <1>4, <1>5, <1>6 DEF Reseeded

LEMMA ReseedSeedReseeded ==
  ASSUME PoolInv, NEW t \in Users, ReseedSeed(t)
  PROVE  Reseeded(t)
<1> DEFINE b == Seeded(pool[t], seeds + 1, era[t])
<1>1. /\ pc[t] = "seed" /\ pool' = [pool EXCEPT ![t] = b] /\ Leave(t) /\ seeds' = seeds + 1
      /\ UNCHANGED <<seed_era, calls, start, served>>
  BY DEF ReseedSeed, outVars
<1>2. /\ seeds \in Nat /\ era[t] \in Nat /\ Holds(pool[t], served[t], total[t], seeds)
  BY DEF PoolInv, Types, PoolsHold
<1>3. /\ Holds(b, served[t], total[t], seeds + 1) /\ b.era = era[t] /\ seeds + 1 \in Nat
      /\ b.key[1] = seeds + 1
  BY <1>2, SeededHolds
<1> HIDE DEF b
<1>4. pool'[t] = b /\ \A u \in Users \ {t} : pool'[u] = pool[u]
  <2>1. pool \in [Users -> Pool]
    BY DEF PoolInv, Types
  <2> QED BY <1>1, <2>1
<1>5. /\ pc'[t] = "idle" /\ floor'[t] = 0
      /\ \A u \in Users \ {t} : pc'[u] = pc[u] /\ era'[u] = era[u] /\ floor'[u] = floor[u]
  BY <1>1, LeaveStep, LeaveFloor
<1> QED BY <1>1, <1>3, <1>4, <1>5 DEF Reseeded

\* A pool that a call may answer from was seeded by its own thread.
LEMMA NotStale ==
  ASSUME EraInv, pc[Child] = "rand", pool[Child].era = era[Child]
  PROVE  ~Stale
BY DEF EraInv, ChildAlone, Stale

LEMMA ReturnedEraInv ==
  ASSUME PoolInv, EraInv, NEW t \in Users, Returned(t)
  PROVE  EraInv'
<1>1. /\ \A u \in Users \ {t} : pc'[u] = pc[u] /\ era'[u] = era[u] /\ floor'[u] = floor[u]
      /\ \A u \in Users : pool'[u].era = pool[u].era /\ pool'[u].key[1] = pool[u].key[1]
      /\ \A u \in Users \ {t} : served'[u] = served[u]
      /\ \A y \in served'[t] : y \in served[t] \/
           (y[1] = pool[t].key[1] /\ pc[t] = "rand" /\ pool[t].era = era[t])
      /\ seed_era' = seed_era /\ seeds' = seeds /\ calls' = calls /\ start' = start
      /\ pc[t] # "born" /\ pc'[t] = "idle" /\ floor'[t] = 0
  BY DEF Returned
<1>2. CallsBounded'
  BY <1>1 DEF EraInv, CallsBounded
<1>3. AgesBounded'
  BY <1>1 DEF EraInv, AgesBounded
<1>4. SeededSince'
  <2>1. seeds \in Nat
    BY Facts
  <2> QED BY <1>1, <2>1 DEF EraInv, SeededSince
<1>5. ChildAlone'
  BY <1>1, UsersProcs DEF EraInv, ChildAlone
<1>6. Stale => Stale'
  BY <1>1, UsersProcs DEF Stale
<1>7. KeysApart'
  BY <1>1, <1>6 DEF EraInv, KeysApart
<1>8. ASSUME NEW y \in served'[t], y \notin served[t]
      PROVE  /\ y[1] = pool[t].key[1] /\ y[1] # 0
             /\ ~(t = Child /\ Stale)
  <2>1. y[1] = pool[t].key[1] /\ pc[t] = "rand" /\ pool[t].era = era[t]
    BY <1>1, <1>8
  <2>2. y[1] # 0
    BY <2>1, Facts
  <2>3. ~(t = Child /\ Stale)
    BY <2>1, NotStale
  <2> QED BY <2>1, <2>2, <2>3
<1>9. ASSUME NEW w \in Users, NEW u \in Users, NEW y \in served'[u],
             w # u, y[1] = pool'[w].key[1]
      PROVE  w = Child /\ Stale'
  <2>1. y[1] = pool[w].key[1]
    BY <1>1, <1>9
  <2>2. CASE y \in served[u]
    BY <1>6, <1>9, <2>1, <2>2 DEF EraInv, ServedApart
  <2>3. CASE y \notin served[u]
    <3>1. u = t
      BY <1>1, <2>3
    <3>2. y[1] = pool[u].key[1] /\ y[1] # 0 /\ ~(u = Child /\ Stale)
      BY <1>8, <2>3, <3>1
    <3>3. Stale /\ (w = Child \/ u = Child)
      BY <1>9, <2>1, <3>2 DEF EraInv, KeysApart
    <3> QED BY <1>6, <3>2, <3>3
  <2> QED BY <2>2, <2>3
<1>10. ASSUME NEW u \in Users, u # t, NEW y \in served'[t], y \in served'[u]
       PROVE  FALSE
  <2>1. y \in served[u]
    BY <1>1, <1>10
  <2>2. y \notin served[t]
    BY <1>10, <2>1 DEF EraInv, ServedApart
  <2>3. y[1] = pool[t].key[1] /\ ~(t = Child /\ Stale)
    BY <1>8, <2>2
  <2> QED BY <1>10, <2>1, <2>3 DEF EraInv, ServedApart
<1>11. ASSUME NEW w \in Users, NEW u \in Users, w # u
       PROVE  served'[w] \cap served'[u] = {}
  <2>1. CASE w = t
    BY <1>10, <1>11, <2>1
  <2>2. CASE u = t
    BY <1>10, <1>11, <2>2
  <2>3. CASE w # t /\ u # t
    BY <1>1, <1>11, <2>3 DEF EraInv, ServedApart
  <2> QED BY <2>1, <2>2, <2>3
<1>12. ServedApart'
  BY <1>9, <1>11 DEF ServedApart
<1> QED BY <1>2, <1>3, <1>4, <1>5, <1>7, <1>12 DEF EraInv

LEMMA ReseededEraInv ==
  ASSUME PoolInv, EraInv, NEW t \in Users, Reseeded(t)
  PROVE  EraInv'
<1>1. /\ \A u \in Users \ {t} : pc'[u] = pc[u] /\ era'[u] = era[u] /\ floor'[u] = floor[u]
      /\ \A u \in Users \ {t} : pool'[u] = pool[u]
      /\ \A u \in Users \ {t} : served'[u] = served[u]
      /\ \A y \in served'[t] : y \in served[t] \/ y[1] = seeds + 1
      /\ pool'[t].era = era[t] /\ pool'[t].key[1] = seeds + 1 /\ seeds' = seeds + 1
      /\ seed_era' = seed_era /\ calls' = calls /\ start' = start
      /\ pc[t] \in {"rand", "seed"} /\ pc'[t] = "idle" /\ floor'[t] = 0
  BY DEF Reseeded
<1>2. /\ seeds \in Nat /\ calls \in Nat /\ era[t] \in Eras
      /\ \A p \in Procs : start[p] \in Nat
      /\ \A u \in Users : floor[u] \in Nat /\ pool[u].key[1] \in 0 .. seeds
      /\ \A u \in Users : \A y \in served[u] : y[1] \in 1 .. seeds
  BY <1>1, Facts
<1>3. CallsBounded'
  BY <1>1 DEF EraInv, CallsBounded
<1>4. AgesBounded'
  <2>1. ASSUME NEW u \in Users, pool'[u].era # 0
        PROVE  pool'[u].era \in Eras /\ Age(pool'[u].era, seed_era'[Proc(u)]) <= 2 * calls'
    <3>1. CASE u = t
      BY <1>1, <1>2, <3>1 DEF EraInv, AgesBounded
    <3>2. CASE u # t
      BY <1>1, <2>1, <3>2 DEF EraInv, AgesBounded
    <3> QED BY <3>1, <3>2
  <2>2. ASSUME NEW u \in Users, pc'[u] \in {"rand", "seed"}
        PROVE  Age(era'[u], seed_era'[Proc(u)]) <= 2 * calls'
    BY <1>1, <2>2 DEF EraInv, AgesBounded
  <2> QED BY <2>1, <2>2 DEF AgesBounded
<1>5. SeededSince'
  <2>1. \A p \in Procs : start'[p] <= seeds'
    BY <1>1, <1>2 DEF EraInv, SeededSince
  <2>2. \A u \in Users : floor'[u] <= seeds'
    BY <1>1, <1>2 DEF EraInv, SeededSince
  <2>3. ASSUME NEW u \in Users, pool'[u].era = seed_era'[Proc(u)]
        PROVE  pool'[u].key[1] > start'[Proc(u)]
    <3>1. Proc(u) \in Procs
      BY UsersProcs
    <3>2. CASE u = t
      BY <1>1, <1>2, <3>1, <3>2 DEF EraInv, SeededSince
    <3>3. CASE u # t
      BY <1>1, <2>3, <3>3 DEF EraInv, SeededSince
    <3> QED BY <3>2, <3>3
  <2>4. ASSUME NEW u \in Users, pc'[u] = "rand", pool'[u].era = era'[u]
        PROVE  pool'[u].key[1] > floor'[u]
    BY <1>1, <2>4 DEF EraInv, SeededSince
  <2> QED BY <2>1, <2>2, <2>3, <2>4 DEF SeededSince
<1>6. ChildAlone'
  BY <1>1, UsersProcs DEF EraInv, ChildAlone
<1>7. t # Child => (Stale <=> Stale')
  BY <1>1, UsersProcs DEF Stale
<1>8. \A u \in Users \ {t} : pool'[u].key[1] # pool'[t].key[1]
  <2>1. \A u \in Users \ {t} : pool[u].key[1] # seeds + 1
    BY <1>2
  <2> QED BY <1>1, <2>1
<1>9. KeysApart'
  <2> SUFFICES ASSUME NEW w \in Users, NEW u \in Users, w # u,
                      pool'[w].key[1] = pool'[u].key[1], pool'[w].key[1] # 0
               PROVE  Stale' /\ (w = Child \/ u = Child)
    BY DEF KeysApart
  <2>1. w # t /\ u # t
    BY <1>8
  <2>2. Stale /\ (w = Child \/ u = Child)
    BY <1>1, <2>1 DEF EraInv, KeysApart
  <2> QED BY <1>7, <2>1, <2>2
<1>10. ASSUME NEW y \in served'[t], y \notin served[t]
       PROVE  y[1] = seeds + 1
  BY <1>1, <1>10
<1>11. ASSUME NEW w \in Users, NEW u \in Users, NEW y \in served'[u],
              w # u, y[1] = pool'[w].key[1]
       PROVE  w = Child /\ Stale'
  <2>1. CASE y \in served[u]
    <3>1. w # t
      <4>1. y[1] # seeds + 1
        BY <1>2, <2>1
      <4> QED BY <1>1, <1>11, <4>1
    <3>2. w = Child /\ Stale
      BY <1>1, <1>11, <2>1, <3>1 DEF EraInv, ServedApart
    <3> QED BY <1>7, <3>1, <3>2
  <2>2. CASE y \notin served[u]
    <3>1. u = t
      BY <1>1, <2>2
    <3>2. y[1] = pool'[t].key[1]
      BY <1>1, <1>10, <2>2, <3>1
    <3> QED BY <1>8, <1>11, <3>1, <3>2
  <2> QED BY <2>1, <2>2
<1>12. ASSUME NEW u \in Users, u # t, NEW y \in served'[t], y \in served'[u]
       PROVE  FALSE
  <2>1. y \in served[u]
    BY <1>1, <1>12
  <2>2. y[1] # seeds + 1
    BY <1>2, <2>1
  <2>3. y \in served[t]
    BY <1>10, <2>2
  <2> QED BY <1>12, <2>1, <2>3 DEF EraInv, ServedApart
<1>13. ASSUME NEW w \in Users, NEW u \in Users, w # u
       PROVE  served'[w] \cap served'[u] = {}
  <2>1. CASE w = t
    BY <1>12, <1>13, <2>1
  <2>2. CASE u = t
    BY <1>12, <1>13, <2>2
  <2>3. CASE w # t /\ u # t
    BY <1>1, <1>13, <2>3 DEF EraInv, ServedApart
  <2> QED BY <2>1, <2>2, <2>3
<1>14. ServedApart'
  BY <1>11, <1>13 DEF ServedApart
<1> QED BY <1>3, <1>4, <1>5, <1>6, <1>9, <1>14 DEF EraInv

LEMMA RandCallEraInv ==
  ASSUME FewCalls, PoolInv, EraInv, NEW t \in Users, NEW n \in Lens, RandCall(t, n)
  PROVE  EraInv'
<1>0. /\ pc \in [Users -> {"none", "born", "idle", "rand", "seed"}]
      /\ era \in [Users -> Nat] /\ floor \in [Users -> Nat]
  BY DEF PoolInv, Types
<1>1. /\ pc[t] = "idle" /\ pc'[t] = "rand"
      /\ \A u \in Users \ {t} : pc'[u] = pc[u] /\ era'[u] = era[u] /\ floor'[u] = floor[u]
      /\ era'[t] = seed_era[Proc(t)] /\ floor'[t] = start[Proc(t)]
      /\ calls < MaxCalls /\ calls' = calls + 1
      /\ seed_era' = seed_era /\ pool' = pool /\ seeds' = seeds /\ served' = served
      /\ start' = start
  BY <1>0 DEF RandCall, outVars
<1>2. /\ seeds \in Nat /\ calls \in Nat /\ MaxCalls \in Nat
      /\ \A p \in Procs : seed_era[p] \in Eras
      /\ \A u \in Users : pc[u] \in {"rand", "seed"} => era[u] \in Eras
      /\ \A u \in Users : Proc(u) \in Procs
  BY Facts, UsersProcs DEF FewCalls
<1>3. CallsBounded'
  BY <1>1, <1>2 DEF EraInv, CallsBounded
<1>4. AgesBounded'
  <2>1. ASSUME NEW u \in Users, pool'[u].era # 0
        PROVE  pool'[u].era \in Eras /\ Age(pool'[u].era, seed_era'[Proc(u)]) <= 2 * calls'
    <3>1. pool[u].era \in Eras /\ Age(pool[u].era, seed_era[Proc(u)]) <= 2 * calls
      BY <1>1, <2>1 DEF EraInv, AgesBounded
    <3>2. Age(pool[u].era, seed_era[Proc(u)]) \in Nat
      BY <1>2, <3>1, AgeBounds
    <3>3. Age(pool[u].era, seed_era[Proc(u)]) <= 2 * (calls + 1)
      BY <1>2, <3>1, <3>2
    <3> QED BY <1>1, <3>1, <3>3
  <2>2. ASSUME NEW u \in Users, pc'[u] \in {"rand", "seed"}
        PROVE  Age(era'[u], seed_era'[Proc(u)]) <= 2 * calls'
    <3>1. CASE u = t
      <4>1. Age(seed_era[Proc(t)], seed_era[Proc(t)]) = 0
        BY <1>2, AgeBounds
      <4>2. 0 <= 2 * (calls + 1)
        BY <1>2
      <4> QED BY <1>1, <3>1, <4>1, <4>2
    <3>2. CASE u # t
      <4>1. Age(era[u], seed_era[Proc(u)]) <= 2 * calls /\ era[u] \in Eras
        BY <1>1, <1>2, <2>2, <3>2 DEF EraInv, AgesBounded
      <4>2. Age(era[u], seed_era[Proc(u)]) \in Nat
        BY <1>2, <4>1, AgeBounds
      <4>3. Age(era[u], seed_era[Proc(u)]) <= 2 * (calls + 1)
        BY <1>2, <4>1, <4>2
      <4> QED BY <1>1, <3>2, <4>3
    <3> QED BY <3>1, <3>2
  <2> QED BY <2>1, <2>2 DEF AgesBounded
<1>5. SeededSince'
  BY <1>1, <1>2 DEF EraInv, SeededSince
<1>6. ChildAlone'
  BY <1>1, UsersProcs DEF EraInv, ChildAlone
<1>7. Stale => Stale'
  BY <1>1, UsersProcs DEF Stale
<1>8. KeysApart'
  BY <1>1, <1>7 DEF EraInv, KeysApart
<1>9. ServedApart'
  BY <1>1, <1>7 DEF EraInv, ServedApart
<1> QED BY <1>3, <1>4, <1>5, <1>6, <1>8, <1>9 DEF EraInv

\* An era in use stays apart from the one that ReseedCall starts.
LEMMA EraPasses ==
  ASSUME FewCalls, NEW n \in Nat, n < MaxCalls, NEW e \in Eras, NEW s \in Eras,
         Age(e, s) <= 2 * n
  PROVE  /\ Age(e, s) <= 2 * (n + 1)
         /\ Age(e, NextEra(s)) <= 2 * (n + 1) /\ e # NextEra(s)
<1>1. Age(e, s) \in Nat
  BY AgeBounds
<1>2. MaxCalls \in Nat /\ 2 * MaxCalls < EraMod /\ EraMod \in Nat
  BY SizesAssumption DEF FewCalls
<1>3. Age(e, s) + 2 < EraMod /\ Age(e, s) + 2 <= 2 * (n + 1) /\ Age(e, s) <= 2 * (n + 1)
  BY <1>1, <1>2
<1> QED BY <1>3, AgeGrows

LEMMA ReseedCallEraInv ==
  ASSUME FewCalls, PoolInv, EraInv, NEW t \in Users, ReseedCall(t)
  PROVE  EraInv'
<1> DEFINE p == Proc(t)
           e == NextEra(seed_era[p])
<1>0. /\ pc \in [Users -> {"none", "born", "idle", "rand", "seed"}]
      /\ era \in [Users -> Nat]
      /\ seed_era \in [Procs -> Eras] /\ start \in [Procs -> Nat]
      /\ p \in Procs
  BY UsersProcs DEF PoolInv, Types
<1>1. /\ pc[t] \in {"idle", "born"} /\ pc'[t] = "seed"
      /\ \A u \in Users \ {t} : pc'[u] = pc[u] /\ era'[u] = era[u]
      /\ era'[t] = e /\ floor' = floor
      /\ calls < MaxCalls /\ calls' = calls + 1
      /\ seed_era'[p] = e /\ start'[p] = seeds
      /\ \A q \in Procs \ {p} : seed_era'[q] = seed_era[q] /\ start'[q] = start[q]
      /\ pool' = pool /\ seeds' = seeds /\ served' = served
  BY <1>0 DEF ReseedCall, outVars
<1>2. /\ seeds \in Nat /\ calls \in Nat /\ MaxCalls \in Nat
      /\ \A q \in Procs : seed_era[q] \in Eras
      /\ \A u \in Users : pc[u] \in {"rand", "seed"} => era[u] \in Eras
      /\ \A u \in Users : Proc(u) \in Procs
      /\ e \in Eras /\ e # 0
  <2>1. e \in Eras
    BY <1>0, NextEraOdd
  <2>2. e # 0
    BY <2>1 DEF Eras
  <2> QED BY <2>1, <2>2, Facts, UsersProcs DEF FewCalls
<1>3. CallsBounded'
  BY <1>1, <1>2 DEF EraInv, CallsBounded
<1> HIDE DEF e, p
<1>4. ASSUME NEW u \in Users, pool[u].era # 0
      PROVE  /\ pool[u].era \in Eras
             /\ Age(pool[u].era, seed_era'[Proc(u)]) <= 2 * calls'
             /\ Proc(u) = p => pool[u].era # e
  <2>1. pool[u].era \in Eras /\ Age(pool[u].era, seed_era[Proc(u)]) <= 2 * calls
    BY <1>4 DEF EraInv, AgesBounded
  <2>2. /\ Age(pool[u].era, seed_era[Proc(u)]) <= 2 * (calls + 1)
        /\ Age(pool[u].era, NextEra(seed_era[Proc(u)])) <= 2 * (calls + 1)
        /\ pool[u].era # NextEra(seed_era[Proc(u)])
    BY <1>1, <1>2, <2>1, EraPasses
  <2>3. CASE Proc(u) = p
    BY <1>1, <2>1, <2>2, <2>3 DEF e
  <2>4. CASE Proc(u) # p
    BY <1>1, <1>2, <2>1, <2>2, <2>4
  <2> QED BY <2>3, <2>4
<1>5. ASSUME NEW u \in Users, pc'[u] \in {"rand", "seed"}
      PROVE  Age(era'[u], seed_era'[Proc(u)]) <= 2 * calls'
  <2>1. CASE u = t
    <3>1. Age(e, e) = 0 /\ 0 <= 2 * (calls + 1)
      BY <1>2, AgeBounds
    <3> QED BY <1>1, <2>1, <3>1 DEF p
  <2>2. CASE u # t
    <3>1. Age(era[u], seed_era[Proc(u)]) <= 2 * calls /\ era[u] \in Eras
      BY <1>1, <1>2, <1>5, <2>2 DEF EraInv, AgesBounded
    <3>2. /\ Age(era[u], seed_era[Proc(u)]) <= 2 * (calls + 1)
          /\ Age(era[u], NextEra(seed_era[Proc(u)])) <= 2 * (calls + 1)
      BY <1>1, <1>2, <3>1, EraPasses
    <3>3. CASE Proc(u) = p
      BY <1>1, <2>2, <3>2, <3>3 DEF e
    <3>4. CASE Proc(u) # p
      BY <1>1, <1>2, <2>2, <3>2, <3>4
    <3> QED BY <3>3, <3>4
  <2> QED BY <2>1, <2>2
<1>6. AgesBounded'
  BY <1>1, <1>4, <1>5 DEF AgesBounded
<1>7. SeededSince'
  <2>1. \A q \in Procs : start'[q] <= seeds'
    BY <1>0, <1>1, <1>2 DEF EraInv, SeededSince
  <2>2. \A u \in Users : floor'[u] <= seeds'
    BY <1>1 DEF EraInv, SeededSince
  <2>3. ASSUME NEW u \in Users, pool'[u].era = seed_era'[Proc(u)]
        PROVE  pool'[u].key[1] > start'[Proc(u)]
    <3>1. CASE Proc(u) = p
      BY <1>1, <1>2, <1>4, <2>3, <3>1
    <3>2. CASE Proc(u) # p
      BY <1>1, <1>2, <2>3, <3>2 DEF EraInv, SeededSince
    <3> QED BY <3>1, <3>2
  <2>4. ASSUME NEW u \in Users, pc'[u] = "rand", pool'[u].era = era'[u]
        PROVE  pool'[u].key[1] > floor'[u]
    BY <1>1, <2>4 DEF EraInv, SeededSince
  <2> QED BY <2>1, <2>2, <2>3, <2>4 DEF SeededSince
<1>8. ChildAlone'
  <2>1. CASE t = Child
    BY <1>1, <2>1, UsersProcs DEF ChildAlone, p
  <2>2. CASE t # Child
    <3>1. p = "parent" /\ "child" \in Procs /\ Child \in Users
      BY <2>2, UsersProcs DEF p
    <3> QED BY <1>1, <2>2, <3>1 DEF EraInv, ChildAlone
  <2> QED BY <2>1, <2>2
<1>9. Stale => Stale'
  <2>1. CASE t = Child
    <3>1. p = "child" /\ Proc(Child) = p /\ Child \in Users
      BY <2>1, UsersProcs DEF p
    <3>2. pool[Child].era # e
      BY <1>2, <1>4, <3>1
    <3> QED BY <1>1, <3>1, <3>2 DEF Stale
  <2>2. CASE t # Child
    <3>1. p = "parent" /\ "child" \in Procs /\ Child \in Users
      BY <2>2, UsersProcs DEF p
    <3> QED BY <1>1, <2>2, <3>1 DEF Stale
  <2> QED BY <2>1, <2>2
<1>10. KeysApart'
  BY <1>1, <1>9 DEF EraInv, KeysApart
<1>11. ServedApart'
  BY <1>1, <1>9 DEF EraInv, ServedApart
<1> QED BY <1>3, <1>6, <1>7, <1>8, <1>10, <1>11 DEF EraInv

LEMMA ForkEraInv ==
  ASSUME PoolInv, EraInv, NEW t \in Users, Fork(t)
  PROVE  EraInv'
<1>0. /\ pc \in [Users -> {"none", "born", "idle", "rand", "seed"}]
      /\ seed_era \in [Procs -> Eras] /\ start \in [Procs -> Nat]
      /\ pool \in [Users -> Pool]
      /\ Child \in Users /\ "child" \in Procs /\ "parent" \in Procs
  BY UsersProcs DEF PoolInv, Types
<1> HIDE DEF Pool
<1>1. /\ t \in Threads /\ pc[Child] = "none" /\ pc'[Child] = "born"
      /\ pool'[Child] = pool[t]
      /\ \A u \in Users \ {Child} : pool'[u] = pool[u] /\ pc'[u] = pc[u]
      /\ seed_era'["child"] = seed_era["parent"] /\ seed_era'["parent"] = seed_era["parent"]
      /\ start'["child"] = start["parent"] /\ start'["parent"] = start["parent"]
      /\ len' = len /\ era' = era /\ floor' = floor /\ seeds' = seeds /\ calls' = calls
      /\ served' = served
  BY <1>0 DEF Fork, outVars
<1>2. /\ t # Child /\ Proc(Child) = "child"
      /\ \A u \in Users \ {Child} : Proc(u) = "parent"
  BY <1>1, UsersProcs
<1>3. served[Child] = {}
  BY <1>1 DEF PoolInv, Unborn
<1>4. CallsBounded'
  BY <1>1 DEF EraInv, CallsBounded
<1>5. AgesBounded'
  <2>1. ASSUME NEW u \in Users, pool'[u].era # 0
        PROVE  pool'[u].era \in Eras /\ Age(pool'[u].era, seed_era'[Proc(u)]) <= 2 * calls'
    <3>1. CASE u = Child
      BY <1>1, <1>2, <2>1, <3>1 DEF EraInv, AgesBounded
    <3>2. CASE u # Child
      BY <1>1, <1>2, <2>1, <3>2 DEF EraInv, AgesBounded
    <3> QED BY <3>1, <3>2
  <2>2. ASSUME NEW u \in Users, pc'[u] \in {"rand", "seed"}
        PROVE  Age(era'[u], seed_era'[Proc(u)]) <= 2 * calls'
    BY <1>1, <1>2, <2>2 DEF EraInv, AgesBounded
  <2> QED BY <2>1, <2>2 DEF AgesBounded
<1>6. SeededSince'
  <2>1. \A q \in Procs : start'[q] <= seeds'
    BY <1>1 DEF EraInv, SeededSince, Procs
  <2>2. \A u \in Users : floor'[u] <= seeds'
    BY <1>1 DEF EraInv, SeededSince
  <2>3. ASSUME NEW u \in Users, pool'[u].era = seed_era'[Proc(u)]
        PROVE  pool'[u].key[1] > start'[Proc(u)]
    <3>1. CASE u = Child
      BY <1>1, <1>2, <2>3, <3>1 DEF EraInv, SeededSince
    <3>2. CASE u # Child
      BY <1>1, <1>2, <2>3, <3>2 DEF EraInv, SeededSince
    <3> QED BY <3>1, <3>2
  <2>4. ASSUME NEW u \in Users, pc'[u] = "rand", pool'[u].era = era'[u]
        PROVE  pool'[u].key[1] > floor'[u]
    BY <1>1, <2>4 DEF EraInv, SeededSince
  <2> QED BY <2>1, <2>2, <2>3, <2>4 DEF SeededSince
<1>7. ChildAlone'
  BY <1>1 DEF ChildAlone
<1>8. Stale'
  BY <1>1 DEF Stale
<1>9. KeysApart'
  <2> SUFFICES ASSUME NEW w \in Users, NEW u \in Users, w # u,
                      pool'[w].key[1] = pool'[u].key[1], pool'[w].key[1] # 0
               PROVE  w = Child \/ u = Child
    BY <1>8 DEF KeysApart
  <2> QED BY <1>1 DEF EraInv, KeysApart
<1>10. ServedApart'
  <2>1. ASSUME NEW w \in Users, NEW u \in Users, NEW y \in served'[u],
               w # u, y[1] = pool'[w].key[1]
        PROVE  w = Child /\ Stale'
    BY <1>1, <1>8, <2>1 DEF EraInv, ServedApart
  <2> QED BY <1>1, <2>1 DEF EraInv, ServedApart
<1> QED BY <1>4, <1>5, <1>6, <1>7, <1>9, <1>10 DEF EraInv

LEMMA NextEraInv ==
  ASSUME FewCalls
  PROVE  PoolInv /\ EraInv /\ [Next]_vars => EraInv'
<1> SUFFICES ASSUME PoolInv, EraInv, [Next]_vars PROVE EraInv'
  OBVIOUS
<1> USE DEF EraInv, CallsBounded, AgesBounded, SeededSince, ChildAlone, Stale, KeysApart, ServedApart
<1>1. CASE UNCHANGED vars
  BY <1>1 DEF vars, callVars, outVars
<1>2. CASE Next
  <2> PICK t \in Users : \/ \E n \in Lens : RandCall(t, n)
                         \/ RandServe(t) \/ RandSeed(t) \/ RandAbort(t)
                         \/ ReseedCall(t) \/ ReseedSeed(t) \/ ReseedFail(t)
                         \/ Fork(t)
    BY <1>2 DEF Next
  <2>1. CASE RandAbort(t)
    BY <2>1 DEF RandAbort, callVars, outVars
  <2> HIDE DEF EraInv
  <2>2. CASE RandServe(t) \/ ReseedFail(t)
    BY <2>2, RandServeReturned, ReseedFailReturned, ReturnedEraInv
  <2>3. CASE RandSeed(t) \/ ReseedSeed(t)
    BY <2>3, RandSeedReseeded, ReseedSeedReseeded, ReseededEraInv
  <2> QED
    BY <2>1, <2>2, <2>3, RandCallEraInv, ReseedCallEraInv, ForkEraInv
<1> QED BY <1>1, <1>2

\* EraInv is an invariant as long as seed_era does not come round.
THEOREM EraInvariance ==
  ASSUME FewCalls
  PROVE  Spec => [](PoolInv /\ EraInv)
<1>1. Init => PoolInv /\ EraInv
  BY InitPoolInv, InitEraInv
<1>2. (PoolInv /\ EraInv) /\ [Next]_vars => (PoolInv /\ EraInv)'
  BY NextPoolInv, NextEraInv
<1> QED BY <1>1, <1>2, PTL DEF Spec

\* No byte is given out twice, in one thread, in two, or on both sides of a
\* fork() whose child calls futils_random_reseed, as long as seed_era does not
\* come round.
THEOREM BytesAreFresh ==
  ASSUME FewCalls
  PROVE  Spec => []NoByteTwice
<1>1. PoolInv /\ EraInv => NoByteTwice
  <2> SUFFICES ASSUME PoolInv, EraInv PROVE NoByteTwice
    OBVIOUS
  <2>1. \A t \in Users : Cardinality(served[t]) = total[t]
    BY DEF PoolInv, PoolsHold, Holds
  <2>2. \A t, u \in Users : t # u => served[t] \cap served[u] = {}
    BY DEF EraInv, ServedApart
  <2> QED BY <2>1, <2>2 DEF NoByteTwice
<1> QED BY <1>1, EraInvariance, PTL

\* A step gives out bytes of the call's era only.
LEMMA StepServes ==
  ASSUME PoolInv, EraInv, [Next]_vars, NEW t \in Users, NEW y \in served'[t] \ served[t]
  PROVE  Head(y) > floor[t]
<1>1. CASE \E u \in Users : RandServe(u) \/ RandSeed(u)
  <2> PICK u \in Users : RandServe(u) \/ RandSeed(u)
    BY <1>1
  <2>1. Returned(u) \/ Reseeded(u)
    BY RandServeReturned, RandSeedReseeded
  <2>2. u = t
    BY <2>1 DEF Returned, Reseeded
  <2>3. seeds \in Nat /\ floor[t] \in Nat /\ floor[t] <= seeds /\ pool[t].key[1] \in Nat
    BY Facts DEF EraInv, SeededSince
  <2>4. y[1] > floor[t]
    <3>1. CASE Returned(u)
      <4>1. y[1] = pool[t].key[1] /\ pc[t] = "rand" /\ pool[t].era = era[t]
        BY <2>2, <3>1 DEF Returned
      <4> QED BY <4>1 DEF EraInv, SeededSince
    <3>2. CASE Reseeded(u)
      <4>1. y[1] = seeds + 1
        BY <2>2, <3>2 DEF Reseeded
      <4> QED BY <2>3, <4>1
    <3> QED BY <2>1, <3>1, <3>2
  <2>5. y \in Name /\ y # Zero
    <3>1. PoolInv'
      BY NextPoolInv
    <3> QED BY <3>1 DEF PoolInv, PoolsHold, Holds
  <2>6. Head(y) = y[1]
    BY <2>5 DEF Name, Zero
  <2> QED BY <2>4, <2>6
<1>2. CASE ~\E u \in Users : RandServe(u) \/ RandSeed(u)
  <2>1. served' = served
    BY <1>2 DEF Next, vars, RandCall, RandAbort, ReseedCall, ReseedSeed, ReseedFail, Fork,
                outVars
  <2> QED BY <2>1
<1> QED BY <1>1, <1>2

\* A request that begins after futils_random_reseed was called, in any thread of
\* the process and whether or not it failed, is answered from a seed fetched
\* after that call.
THEOREM ReseedReachesAllThreads ==
  ASSUME FewCalls
  PROVE  Spec => ReseedTakesEffect
<1>1. ASSUME PoolInv, EraInv, [Next]_vars
      PROVE  [\A t \in Users :
                \A b \in served'[t] \ served[t] : Head(b) > floor[t]]_vars
  BY <1>1, StepServes
<1> QED BY <1>1, EraInvariance, PTL DEF Spec, ReseedTakesEffect
=============================================================================
