----------------------------- MODULE HashProofs -----------------------------
(***************************************************************************)
(* Proofs about Hash, for every set of keys and of objects, every finite   *)
(* memory, every size of the table and any number of walks.                *)
(*                                                                         *)
(* The inductive invariant says where the pointers lead: the list nodes    *)
(* form the ring of the entries in the order of insertion, and a chain     *)
(* leads from each entry to the next older one of its bucket, beginning    *)
(* with the newest.  From this follows what the loops of a search find.    *)
(***************************************************************************)
EXTENDS Hash, FiniteSetTheorems, SequenceTheorems, WellFoundedInduction, TLAPS

-----------------------------------------------------------------------------
(* Natural numbers.                                                        *)

LEMMA LeastNatural ==
  ASSUME NEW T, T \subseteq Nat, T # {}
  PROVE  \E x \in T : \A y \in T : x <= y
<1>1. PICK x \in T : \A y \in T : ~(<<y, x>> \in OpToRel(<, Nat))
  BY NatLessThanWellFounded, WFMin
<1>2. \A y \in T : ~(y < x)
  BY <1>1 DEF OpToRel
<1> QED BY <1>2

\* Induction, over a set of numbers.
LEMMA SetInduction ==
  ASSUME NEW T, 0 \in T, \A n \in Nat : n \in T => n + 1 \in T
  PROVE  Nat \subseteq T
<1> SUFFICES ASSUME Nat \ T # {}
             PROVE  FALSE
  OBVIOUS
<1>1. PICK x \in Nat \ T : \A y \in Nat \ T : x <= y
  BY LeastNatural
<1>2. x # 0 /\ x - 1 \in Nat
  BY <1>1
<1>3. x - 1 \in T
  BY <1>1, <1>2
<1> QED BY <1>1, <1>2, <1>3

-----------------------------------------------------------------------------
(* Sizes and hash values.                                                  *)

LEMMA PrimeTab ==
  /\ DOMAIN futils_hash_prime_tab = 1 .. 32 /\ Len(futils_hash_prime_tab) = 32
  /\ \A j \in 1 .. 32 : futils_hash_prime_tab[j] \in Nat \ {0}
BY DEF futils_hash_prime_tab

LEMMA TabSizeType ==
  ASSUME NEW n
  PROVE  TabSize(n) \in ToSet(futils_hash_prime_tab) \ {0} /\ TabSize(n) \in Nat \ {0}
<1> DEFINE above == {j \in DOMAIN futils_hash_prime_tab : futils_hash_prime_tab[j] > n}
           j == IF above = {} THEN Len(futils_hash_prime_tab) ELSE Min(above)
<1>1. TabSize(n) = futils_hash_prime_tab[j]
  BY DEF TabSize
<1>2. j \in 1 .. 32
  <2>1. CASE above = {}
    BY <2>1, PrimeTab
  <2>2. CASE above # {}
    <3>1. above \subseteq 1 .. 32 /\ above \subseteq Nat
      BY PrimeTab
    <3> HIDE DEF above
    <3>2. \E x \in above : \A y \in above : x <= y
      BY <2>2, <3>1, LeastNatural
    <3>3. Min(above) \in above
      BY <3>2 DEF Min
    <3> QED BY <2>2, <3>1, <3>3
  <2> QED BY <2>1, <2>2
<1> HIDE DEF j
<1> QED BY <1>1, <1>2, PrimeTab DEF ToSet

Halves == Nat \X Nat

LEMMA Mult33Type ==
  ASSUME NEW h \in Halves, NEW b \in Nat
  PROVE  Mult33Add(h, b) \in Halves
<1> DEFINE lo == h[2] * 33 + b
           hi == h[1] * 33 + lo \div 65536
<1>1. h[1] \in Nat /\ h[2] \in Nat
  BY DEF Halves
<1>2. lo \in Nat
  BY <1>1
<1>3. Mult33Add(h, b) = <<hi % 65536, lo % 65536>>
  BY DEF Mult33Add
<1> HIDE DEF lo
<1>4. hi \in Nat
  BY <1>1, <1>2
<1> HIDE DEF hi
<1> QED BY <1>2, <1>3, <1>4 DEF Halves

LEMMA BucketType ==
  ASSUME NEW key \in Nat, size \in Nat \ {0}
  PROVE  Bucket(key) \in 0 .. size - 1
<1>1. <<0, 5381>> \in Halves
  BY DEF Halves
<1>2. /\ key % 256 \in Nat /\ (key \div 256) % 256 \in Nat
      /\ (key \div 65536) % 256 \in Nat /\ key \div 16777216 \in Nat
  OBVIOUS
<1>3. Mult33Add(<<0, 5381>>, key % 256) \in Halves
  BY <1>1, <1>2, Mult33Type
<1>4. Mult33Add(Mult33Add(<<0, 5381>>, key % 256), (key \div 256) % 256) \in Halves
  BY <1>2, <1>3, Mult33Type
<1>5. Mult33Add(Mult33Add(Mult33Add(<<0, 5381>>, key % 256), (key \div 256) % 256),
                (key \div 65536) % 256) \in Halves
  BY <1>2, <1>4, Mult33Type
<1>6. hash_32(key) \in Halves
  BY <1>2, <1>5, Mult33Type DEF hash_32
<1> DEFINE h == hash_32(key)
           n == (h[1] % size) * (65536 % size) + h[2]
<1>7. h[1] \in Nat /\ h[2] \in Nat
  BY <1>6 DEF Halves
<1>8. h[1] % size \in Nat /\ 65536 % size \in Nat
  BY <1>7
<1>9. n \in Nat
  <2>1. \A x, y, z \in Nat : x * y + z \in Nat
    OBVIOUS
  <2> QED BY <1>7, <1>8, <2>1
<1>10. Bucket(key) = n % size
  BY DEF Bucket
<1> HIDE DEF n
<1> QED BY <1>9, <1>10

-----------------------------------------------------------------------------
(* Sequences without repetition.                                           *)

Injective(s) == \A j, l \in 1 .. Len(s) : s[j] = s[l] => j = l

\* x comes before y.
Older(s, x, y) == \E j, l \in 1 .. Len(s) : j < l /\ s[j] = x /\ s[l] = y

LEMMA OlderIsOrder ==
  ASSUME NEW S, NEW s \in Seq(S), Injective(s)
  PROVE  /\ \A x, y : Older(s, x, y) => x \in ToSet(s) /\ y \in ToSet(s) /\ x # y
         /\ \A x, y : Older(s, x, y) => ~Older(s, y, x)
         /\ \A x, y, z : Older(s, x, y) /\ Older(s, y, z) => Older(s, x, z)
         /\ \A x, y \in ToSet(s) : x = y \/ Older(s, x, y) \/ Older(s, y, x)
<1>1. Len(s) \in Nat /\ DOMAIN s = 1 .. Len(s)
  BY LenProperties
<1>2. \A x, y : Older(s, x, y) => x \in ToSet(s) /\ y \in ToSet(s) /\ x # y
  BY <1>1 DEF Older, Injective, ToSet
<1>3. ASSUME NEW x, NEW y, Older(s, x, y)
      PROVE  ~Older(s, y, x)
  <2> SUFFICES ASSUME Older(s, y, x)
               PROVE  FALSE
    OBVIOUS
  <2>1. PICK j \in 1 .. Len(s), l \in 1 .. Len(s) : j < l /\ s[j] = x /\ s[l] = y
    BY <1>3 DEF Older
  <2>2. PICK m \in 1 .. Len(s), n \in 1 .. Len(s) : m < n /\ s[m] = y /\ s[n] = x
    BY DEF Older
  <2>3. j = n /\ l = m
    BY <2>1, <2>2 DEF Injective
  <2> QED BY <1>1, <2>1, <2>2, <2>3
<1>4. ASSUME NEW x, NEW y, NEW z, Older(s, x, y), Older(s, y, z)
      PROVE  Older(s, x, z)
  <2>1. PICK j \in 1 .. Len(s), l \in 1 .. Len(s) : j < l /\ s[j] = x /\ s[l] = y
    BY <1>4 DEF Older
  <2>2. PICK m \in 1 .. Len(s), n \in 1 .. Len(s) : m < n /\ s[m] = y /\ s[n] = z
    BY <1>4 DEF Older
  <2>3. l = m
    BY <2>1, <2>2 DEF Injective
  <2>4. j < n
    BY <1>1, <2>1, <2>2, <2>3
  <2> QED BY <2>1, <2>2, <2>4 DEF Older
<1>5. ASSUME NEW x \in ToSet(s), NEW y \in ToSet(s)
      PROVE  x = y \/ Older(s, x, y) \/ Older(s, y, x)
  <2>1. PICK j \in 1 .. Len(s) : s[j] = x
    BY <1>1 DEF ToSet
  <2>2. PICK l \in 1 .. Len(s) : s[l] = y
    BY <1>1 DEF ToSet
  <2>3. j < l \/ l < j \/ j = l
    BY <1>1
  <2> QED BY <2>1, <2>2, <2>3 DEF Older
<1> QED BY <1>2, <1>3, <1>4, <1>5

LEMMA AppendOrder ==
  ASSUME NEW S, NEW s \in Seq(S), Injective(s), NEW c \in S, c \notin ToSet(s)
  PROVE  LET t == Append(s, c)
         IN  /\ t \in Seq(S) /\ Len(t) = Len(s) + 1 /\ Injective(t) /\ ToSet(t) = ToSet(s) \cup {c}
             /\ \A j \in 1 .. Len(s) : t[j] = s[j]
             /\ t[Len(s) + 1] = c
             /\ \A x, y : Older(t, x, y) <=> Older(s, x, y) \/ (x \in ToSet(s) /\ y = c)
<1> DEFINE t == Append(s, c)
<1>1. Len(s) \in Nat /\ DOMAIN s = 1 .. Len(s)
  BY LenProperties
<1>2. /\ t \in Seq(S) /\ Len(t) = Len(s) + 1 /\ DOMAIN t = 1 .. Len(s) + 1
      /\ \A j \in 1 .. Len(s) : t[j] = s[j]
      /\ t[Len(s) + 1] = c
  BY <1>1
<1> HIDE DEF t
<1>3. \A j \in 1 .. Len(s) : s[j] # c
  BY <1>1 DEF ToSet
<1>4. \A j \in 1 .. Len(s) + 1 : j \in 1 .. Len(s) \/ j = Len(s) + 1
  BY <1>1
<1>5. Injective(t)
  BY <1>2, <1>3, <1>4 DEF Injective
<1>6. ToSet(t) = ToSet(s) \cup {c}
  <2>1. \A x : x \in ToSet(t) <=> \E j \in 1 .. Len(s) + 1 : t[j] = x
    BY <1>2 DEF ToSet
  <2>2. \A x : x \in ToSet(s) <=> \E j \in 1 .. Len(s) : s[j] = x
    BY <1>1 DEF ToSet
  <2>3. \A j \in 1 .. Len(s) : j \in 1 .. Len(s) + 1
    BY <1>1
  <2>4. Len(s) + 1 \in 1 .. Len(s) + 1
    BY <1>1
  <2> QED BY <1>2, <1>4, <2>1, <2>2, <2>3, <2>4
<1>7. ASSUME NEW x, NEW y, Older(t, x, y)
      PROVE  Older(s, x, y) \/ (x \in ToSet(s) /\ y = c)
  <2>1. PICK j \in 1 .. Len(s) + 1, l \in 1 .. Len(s) + 1 : j < l /\ t[j] = x /\ t[l] = y
    BY <1>2, <1>7 DEF Older
  <2>2. j \in 1 .. Len(s)
    BY <1>1, <2>1
  <2>3. s[j] = x /\ x \in ToSet(s)
    BY <1>1, <1>2, <2>1, <2>2 DEF ToSet
  <2>4. CASE l \in 1 .. Len(s)
    BY <1>2, <2>1, <2>2, <2>3, <2>4 DEF Older
  <2>5. CASE l = Len(s) + 1
    BY <1>2, <2>1, <2>3, <2>5
  <2> QED BY <1>4, <2>4, <2>5
<1>8. ASSUME NEW x, NEW y, Older(s, x, y)
      PROVE  Older(t, x, y)
  <2>1. PICK j \in 1 .. Len(s), l \in 1 .. Len(s) : j < l /\ s[j] = x /\ s[l] = y
    BY <1>8 DEF Older
  <2>2. j \in 1 .. Len(t) /\ l \in 1 .. Len(t) /\ t[j] = x /\ t[l] = y
    BY <1>1, <1>2, <2>1
  <2> QED BY <2>1, <2>2 DEF Older
<1>9. ASSUME NEW x \in ToSet(s)
      PROVE  Older(t, x, c)
  <2>1. PICK j \in 1 .. Len(s) : s[j] = x
    BY <1>1 DEF ToSet
  <2>2. /\ j \in 1 .. Len(t) /\ Len(s) + 1 \in 1 .. Len(t) /\ j < Len(s) + 1
        /\ t[j] = x /\ t[Len(s) + 1] = c
    BY <1>1, <1>2, <2>1
  <2> QED BY <2>2 DEF Older
<1> QED BY <1>2, <1>5, <1>6, <1>7, <1>8, <1>9 DEF t

\* Without the element at position p, those behind it move up.
LEMMA WithoutAt ==
  ASSUME NEW S, NEW s \in Seq(S), Injective(s), NEW p \in 1 .. Len(s)
  PROVE  LET t == Without(s, s[p])
         IN  /\ t \in Seq(S) /\ Len(t) = Len(s) - 1
             /\ \A j \in 1 .. p - 1 : t[j] = s[j]
             /\ \A j \in p .. Len(s) - 1 : t[j] = s[j + 1]
<1> DEFINE t == Without(s, s[p])
           u == SubSeq(s, 1, p - 1)
           v == SubSeq(s, p + 1, Len(s))
<1>1. Len(s) \in Nat /\ DOMAIN s = 1 .. Len(s) /\ p \in Int
  BY LenProperties
<1>2. (CHOOSE j \in DOMAIN s : s[j] = s[p]) = p
  <2>1. \E j \in DOMAIN s : s[j] = s[p]
    BY <1>1
  <2>2. \A j \in DOMAIN s : s[j] = s[p] => j = p
    BY <1>1 DEF Injective
  <2> QED BY <2>1, <2>2
<1>3. t = u \o v
  BY <1>2 DEF Without, RemoveAt
<1>4. \A i_1 \in 1 .. Len(s) : s[i_1] \in S
  BY ElementOfSeq
<1>5. u \in Seq(S) /\ Len(u) = p - 1 /\ \A j \in 1 .. p - 1 : u[j] = s[j]
  <2>1. p - 1 \in Int /\ 1 \in Int /\ \A j \in 1 .. p - 1 : s[j] \in S
    BY <1>1, <1>4
  <2>2. /\ u \in Seq(S) /\ Len(u) = IF 1 <= p - 1 THEN p - 1 - 1 + 1 ELSE 0
        /\ \A j \in 1 .. p - 1 - 1 + 1 : u[j] = s[1 + j - 1]
    BY <2>1, SubSeqProperties
  <2>3. p - 1 - 1 + 1 = p - 1 /\ \A j \in 1 .. p - 1 : 1 + j - 1 = j
    BY <1>1
  <2>4. Len(u) = p - 1
    <3>1. Len(u) = IF 1 <= p - 1 THEN p - 1 ELSE 0
      BY <2>2, <2>3
    <3> QED BY <1>1, <3>1
  <2>5. \A j \in 1 .. p - 1 : u[j] = s[j]
    BY <2>2, <2>3
  <2> QED BY <2>2, <2>4, <2>5
<1>6. v \in Seq(S) /\ Len(v) = Len(s) - p /\ \A j \in 1 .. Len(s) - p : v[j] = s[p + j]
  <2>1. p + 1 \in Int /\ Len(s) \in Int /\ \A j \in p + 1 .. Len(s) : s[j] \in S
    BY <1>1, <1>4
  <2>2. /\ v \in Seq(S) /\ Len(v) = IF p + 1 <= Len(s) THEN Len(s) - (p + 1) + 1 ELSE 0
        /\ \A j \in 1 .. Len(s) - (p + 1) + 1 : v[j] = s[(p + 1) + j - 1]
    BY <2>1, SubSeqProperties
  <2>3. Len(s) - (p + 1) + 1 = Len(s) - p /\ \A j \in 1 .. Len(s) - p : (p + 1) + j - 1 = p + j
    BY <1>1
  <2>4. Len(v) = Len(s) - p
    <3>1. CASE p + 1 <= Len(s)
      BY <2>2, <2>3, <3>1
    <3>2. CASE ~(p + 1 <= Len(s))
      <4>1. \A n \in Nat : \A q \in 1 .. n : ~(q + 1 <= n) => n - q = 0
        OBVIOUS
      <4>2. Len(s) - p = 0
        BY <1>1, <3>2, <4>1
      <4> QED BY <2>2, <3>2, <4>2
    <3> QED BY <3>1, <3>2
  <2>5. \A j \in 1 .. Len(s) - p : v[j] = s[p + j]
    BY <2>2, <2>3
  <2> QED BY <2>2, <2>4, <2>5
<1> HIDE DEF t, u, v
<1>7. /\ t \in Seq(S) /\ Len(t) = Len(u) + Len(v)
      /\ \A j \in 1 .. Len(u) + Len(v) : t[j] = IF j <= Len(u) THEN u[j] ELSE v[j - Len(u)]
  BY <1>3, <1>5, <1>6, ConcatProperties
<1>8. Len(t) = Len(s) - 1
  BY <1>1, <1>5, <1>6, <1>7
<1>9. ASSUME NEW j \in 1 .. p - 1
      PROVE  t[j] = s[j]
  <2>1. j \in 1 .. Len(u) + Len(v) /\ j <= Len(u)
    BY <1>1, <1>5, <1>6
  <2> QED BY <1>5, <1>7, <2>1
<1>10. ASSUME NEW j \in p .. Len(s) - 1
       PROVE  t[j] = s[j + 1]
  <2>1. /\ j \in 1 .. Len(u) + Len(v) /\ ~(j <= Len(u)) /\ j - Len(u) \in 1 .. Len(s) - p
        /\ p + (j - Len(u)) = j + 1
    BY <1>1, <1>5, <1>6
  <2> QED BY <1>6, <1>7, <2>1
<1> QED BY <1>7, <1>8, <1>9, <1>10 DEF t

LEMMA WithoutOrder ==
  ASSUME NEW S, NEW s \in Seq(S), Injective(s), NEW c \in ToSet(s)
  PROVE  LET t == Without(s, c)
         IN  /\ t \in Seq(S) /\ Injective(t) /\ ToSet(t) = ToSet(s) \ {c}
             /\ \A x, y : Older(t, x, y) <=> Older(s, x, y) /\ x # c /\ y # c
<1> DEFINE t == Without(s, c)
           N == Len(s)
<1>1. N \in Nat /\ DOMAIN s = 1 .. N
  BY LenProperties
<1>2. PICK p \in 1 .. N : s[p] = c
  BY <1>1 DEF ToSet
<1>3. /\ t \in Seq(S) /\ Len(t) = N - 1
      /\ \A j \in 1 .. p - 1 : t[j] = s[j]
      /\ \A j \in p .. N - 1 : t[j] = s[j + 1]
  BY <1>2, WithoutAt
<1>4. DOMAIN t = 1 .. N - 1
  BY <1>3, LenProperties
<1> DEFINE up(j) == IF j < p THEN j ELSE j + 1
           down(j) == IF j < p THEN j ELSE j - 1
<1> HIDE DEF t, N
<1>5. /\ \A j \in 1 .. N - 1 : up(j) \in 1 .. N /\ up(j) # p /\ t[j] = s[up(j)]
      /\ \A j, l \in 1 .. N - 1 : j < l => up(j) < up(l)
      /\ \A j, l \in 1 .. N - 1 : up(j) = up(l) => j = l
  BY <1>1, <1>2, <1>3
<1>6. /\ \A j \in 1 .. N : j # p => down(j) \in 1 .. N - 1 /\ t[down(j)] = s[j]
      /\ \A j, l \in 1 .. N : j # p /\ l # p /\ j < l => down(j) < down(l)
  <2>1. ASSUME NEW j \in 1 .. N, j # p
        PROVE  down(j) \in 1 .. N - 1 /\ t[down(j)] = s[j]
    <3>1. CASE j < p
      BY <1>1, <1>2, <1>3, <3>1
    <3>2. CASE ~(j < p)
      <4>1. j - 1 \in p .. N - 1 /\ (j - 1) + 1 = j
        BY <1>1, <1>2, <2>1, <3>2
      <4> QED BY <1>1, <1>2, <1>3, <3>2, <4>1
    <3> QED BY <3>1, <3>2
  <2>2. \A j, l \in 1 .. N : j # p /\ l # p /\ j < l => down(j) < down(l)
    BY <1>1, <1>2
  <2> QED BY <2>1, <2>2
<1>7. \A j \in 1 .. N : s[j] = c => j = p
  BY <1>2 DEF Injective, N
<1> HIDE DEF up, down
<1>8. Injective(t)
  <2>1. ASSUME NEW j \in 1 .. N - 1, NEW l \in 1 .. N - 1, t[j] = t[l]
        PROVE  j = l
    <3>1. s[up(j)] = s[up(l)] /\ up(j) \in 1 .. N /\ up(l) \in 1 .. N
      BY <1>5, <2>1
    <3>2. up(j) = up(l)
      BY <3>1 DEF Injective, N
    <3> QED BY <1>5, <3>2
  <2> QED BY <1>3, <2>1 DEF Injective
<1>9. ToSet(t) = ToSet(s) \ {c}
  <2>1. \A x : x \in ToSet(t) <=> \E j \in 1 .. N - 1 : t[j] = x
    BY <1>4 DEF ToSet
  <2>2. \A x : x \in ToSet(s) <=> \E j \in 1 .. N : s[j] = x
    BY <1>1 DEF ToSet
  <2>3. ASSUME NEW x \in ToSet(t)
        PROVE  x \in ToSet(s) \ {c}
    BY <1>5, <1>7, <2>1, <2>2
  <2>4. ASSUME NEW x \in ToSet(s), x # c
        PROVE  x \in ToSet(t)
    BY <1>2, <1>6, <2>1, <2>2, <2>4
  <2> QED BY <2>3, <2>4
<1>10. ASSUME NEW x, NEW y, Older(t, x, y)
       PROVE  Older(s, x, y) /\ x # c /\ y # c
  <2>1. PICK j \in 1 .. N - 1, l \in 1 .. N - 1 : j < l /\ t[j] = x /\ t[l] = y
    BY <1>3, <1>10 DEF Older
  <2>2. /\ up(j) \in 1 .. N /\ up(l) \in 1 .. N /\ up(j) < up(l) /\ s[up(j)] = x /\ s[up(l)] = y
        /\ up(j) # p /\ up(l) # p
    BY <1>5, <2>1
  <2> QED BY <1>7, <2>2 DEF Older, N
<1>11. ASSUME NEW x, NEW y, Older(s, x, y), x # c, y # c
       PROVE  Older(t, x, y)
  <2>1. PICK j \in 1 .. N, l \in 1 .. N : j < l /\ s[j] = x /\ s[l] = y
    BY <1>11 DEF Older, N
  <2>2. j # p /\ l # p
    BY <1>2, <1>11, <2>1
  <2>3. /\ down(j) \in 1 .. N - 1 /\ down(l) \in 1 .. N - 1 /\ down(j) < down(l)
        /\ t[down(j)] = x /\ t[down(l)] = y
    BY <1>6, <2>1, <2>2
  <2> QED BY <1>3, <2>3 DEF Older
<1> QED BY <1>3, <1>8, <1>9, <1>10, <1>11 DEF t

-----------------------------------------------------------------------------
(* The ring of list nodes.                                                 *)

Nodes == Cells \cup {"entries"}
Ptr == Cells \cup {"entries", "NULL", Poison}
Memory == [next : [Nodes -> Ptr], prev : [Nodes -> Ptr]]

\* The nodes of the ring: 0 and Len(s) + 1 are its head.
At(s, k) == IF k = 0 \/ k = Len(s) + 1 THEN "entries" ELSE s[k]

Ring(m, s) == \A k \in 0 .. Len(s) : /\ m.next[At(s, k)] = At(s, k + 1)
                                     /\ m.prev[At(s, k + 1)] = At(s, k)

LEMMA RingIsRing ==
  ASSUME NEW m, NEW s \in Seq(Cells)
  PROVE  IsRing(m, "entries", s, Len(s)) <=> Ring(m, s)
<1> DEFINE len == Len(s)
           ring == [k \in 0 .. len |-> IF k = 0 THEN "entries" ELSE s[k]]
<1>1. len \in Nat
  BY LenProperties
<1>2. ASSUME NEW k \in 0 .. len
      PROVE  /\ ring[k] = At(s, k)
             /\ ring[(k + 1) % (len + 1)] = At(s, k + 1)
  <2>1. ring[k] = At(s, k)
    <3>1. k # len + 1
      BY <1>1
    <3> QED BY <3>1 DEF At
  <2>2. CASE k = len
    <3>1. (k + 1) % (len + 1) = 0
      <4>1. \A n \in Nat : n # 0 => n % n = 0
        OBVIOUS
      <4>2. k + 1 = len + 1 /\ len + 1 \in Nat /\ len + 1 # 0
        BY <1>1, <2>2
      <4> QED BY <4>1, <4>2
    <3>2. ring[0] = "entries"
      BY <1>1
    <3> QED BY <2>1, <2>2, <3>1, <3>2 DEF At
  <2>3. CASE k # len
    <3>1. k + 1 \in 0 .. len /\ k + 1 # 0 /\ k + 1 # len + 1
      BY <1>1, <2>3
    <3>2. (k + 1) % (len + 1) = k + 1
      <4>1. \A x \in Nat, n \in Nat : x < n => x % n = x
        OBVIOUS
      <4>2. k + 1 \in Nat /\ len + 1 \in Nat /\ k + 1 < len + 1
        BY <1>1, <3>1
      <4> QED BY <4>1, <4>2
    <3> QED BY <2>1, <3>1, <3>2 DEF At
  <2> QED BY <2>2, <2>3
<1>3. IsRing(m, "entries", s, Len(s)) <=>
        \A k \in 0 .. len : /\ m.next[ring[k]] = ring[(k + 1) % (len + 1)]
                            /\ m.prev[ring[(k + 1) % (len + 1)]] = ring[k]
  BY DEF IsRing
<1> HIDE DEF ring
<1> QED BY <1>2, <1>3 DEF Ring

LEMMA AtFacts ==
  ASSUME NEW s \in Seq(Cells), Injective(s)
  PROVE  /\ Len(s) \in Nat
         /\ At(s, 0) = "entries" /\ At(s, Len(s) + 1) = "entries"
         /\ \A k \in 1 .. Len(s) : At(s, k) = s[k] /\ At(s, k) \in Cells
         /\ \A k \in 0 .. Len(s) + 1 : At(s, k) \in Nodes /\ At(s, k) \in ToSet(s) \cup {"entries"}
         /\ \A j, k \in 0 .. Len(s) : At(s, j) = At(s, k) => j = k
         /\ \A j, k \in 1 .. Len(s) + 1 : At(s, j) = At(s, k) => j = k
<1>1. Len(s) \in Nat /\ DOMAIN s = 1 .. Len(s)
  BY LenProperties
<1>2. \A k \in 1 .. Len(s) : s[k] \in Cells /\ s[k] \in ToSet(s)
  BY <1>1, ElementOfSeq DEF ToSet
<1>3. "entries" \notin Cells
  BY HashAssumption
<1>4. At(s, 0) = "entries" /\ At(s, Len(s) + 1) = "entries"
  BY DEF At
<1>5. \A k \in 1 .. Len(s) : At(s, k) = s[k] /\ At(s, k) \in Cells /\ At(s, k) \in ToSet(s)
  <2>1. \A k \in 1 .. Len(s) : k # 0 /\ k # Len(s) + 1
    BY <1>1
  <2> QED BY <1>2, <2>1 DEF At
<1>6. /\ \A k \in 0 .. Len(s) : k = 0 \/ k \in 1 .. Len(s)
      /\ \A k \in 1 .. Len(s) + 1 : k = Len(s) + 1 \/ k \in 1 .. Len(s)
      /\ \A k \in 0 .. Len(s) + 1 : k = 0 \/ k = Len(s) + 1 \/ k \in 1 .. Len(s)
  BY <1>1
<1>7. \A j, k \in 1 .. Len(s) : At(s, j) = At(s, k) => j = k
  BY <1>5 DEF Injective
<1>8. \A k \in 0 .. Len(s) + 1 : At(s, k) \in Nodes /\ At(s, k) \in ToSet(s) \cup {"entries"}
  BY <1>4, <1>5, <1>6 DEF Nodes
<1>9. \A j, k \in 0 .. Len(s) : At(s, j) = At(s, k) => j = k
  BY <1>3, <1>4, <1>5, <1>6, <1>7
<1>10. \A j, k \in 1 .. Len(s) + 1 : At(s, j) = At(s, k) => j = k
  BY <1>3, <1>4, <1>5, <1>6, <1>7
<1> QED BY <1>1, <1>4, <1>5, <1>8, <1>9, <1>10

\* Only one pointer of one node is set.
OnlyNext(r, m, n, x) ==
  /\ r \in Memory /\ r.prev = m.prev
  /\ \A y \in Nodes : r.next[y] = IF y = n THEN x ELSE m.next[y]

OnlyPrev(r, m, n, x) ==
  /\ r \in Memory /\ r.next = m.next
  /\ \A y \in Nodes : r.prev[y] = IF y = n THEN x ELSE m.prev[y]

LEMMA SetFields ==
  ASSUME NEW m \in Memory, NEW n \in Nodes, NEW x \in Ptr
  PROVE  OnlyNext(SetNext(m, n, x), m, n, x) /\ OnlyPrev(SetPrev(m, n, x), m, n, x)
BY DEF Memory, SetNext, SetPrev, OnlyNext, OnlyPrev

\* list_add_before puts a node at the end of the list.
LEMMA RingAdd ==
  ASSUME NEW m \in Memory, NEW s \in Seq(Cells), Injective(s), Ring(m, s),
         NEW c \in Cells, c \notin ToSet(s)
  PROVE  LET r == list_add_before(m, "entries", c)
         IN  /\ r \in Memory /\ Ring(r, Append(s, c))
             /\ \A x \in Cells : x \notin ToSet(s) \cup {c} =>
                                   r.next[x] = m.next[x] /\ r.prev[x] = m.prev[x]
<1> DEFINE r == list_add_before(m, "entries", c)
           t == Append(s, c)
           N == Len(s)
           p == At(s, N)
<1>1. /\ N \in Nat /\ At(s, 0) = "entries" /\ At(s, N + 1) = "entries"
      /\ \A k \in 1 .. N : At(s, k) = s[k] /\ At(s, k) \in Cells
      /\ \A k \in 0 .. N + 1 : At(s, k) \in Nodes /\ At(s, k) \in ToSet(s) \cup {"entries"}
      /\ \A j, k \in 0 .. N : At(s, j) = At(s, k) => j = k
      /\ \A j, k \in 1 .. N + 1 : At(s, j) = At(s, k) => j = k
  BY AtFacts
<1>2. "entries" \notin Cells /\ c # "entries" /\ c \in Nodes /\ "entries" \in Nodes
  BY HashAssumption DEF Nodes
<1>3. p \in Nodes /\ p \in ToSet(s) \cup {"entries"} /\ p # c
  BY <1>1, <1>2
<1>4. m.prev["entries"] = p
  BY <1>1 DEF Ring
<1>5. c \in Ptr /\ "entries" \in Ptr /\ p \in Ptr
  BY <1>3 DEF Ptr, Nodes
<1> DEFINE m1 == SetNext(m, c, "entries")
           m2 == SetPrev(m1, c, p)
           m3 == SetPrev(m2, "entries", c)
<1>6. r = SetNext(m3, p, c)
  BY <1>4 DEF list_add_before, list_add
<1>7. m1 \in Memory /\ OnlyNext(m1, m, c, "entries")
  BY <1>2, <1>5, SetFields DEF OnlyNext
<1> HIDE DEF m1
<1>8. m2 \in Memory /\ OnlyPrev(m2, m1, c, p)
  BY <1>2, <1>5, <1>7, SetFields DEF OnlyPrev
<1> HIDE DEF m2
<1>9. m3 \in Memory /\ OnlyPrev(m3, m2, "entries", c)
  BY <1>2, <1>5, <1>8, SetFields DEF OnlyPrev
<1> HIDE DEF m3, r, p
<1>10. r \in Memory /\ OnlyNext(r, m3, p, c)
  <2>1. OnlyNext(SetNext(m3, p, c), m3, p, c)
    BY <1>3, <1>5, <1>9, SetFields
  <2> QED BY <1>6, <2>1 DEF OnlyNext
<1>11. /\ r.next[c] = "entries" /\ r.next[p] = c
       /\ r.prev[c] = p /\ r.prev["entries"] = c
       /\ \A x \in Nodes : x # c /\ x # p => r.next[x] = m.next[x]
       /\ \A x \in Nodes : x # c /\ x # "entries" => r.prev[x] = m.prev[x]
  BY <1>2, <1>3, <1>7, <1>8, <1>9, <1>10 DEF OnlyNext, OnlyPrev
<1>12. /\ Len(t) = N + 1
       /\ \A k \in 0 .. N : At(t, k) = At(s, k)
       /\ At(t, N + 1) = c /\ At(t, N + 2) = "entries"
  <2>1. Len(t) = N + 1 /\ (\A j \in 1 .. N : t[j] = s[j]) /\ t[N + 1] = c
    BY AppendOrder
  <2> HIDE DEF t
  <2>2. \A k \in 0 .. N : At(t, k) = At(s, k)
    <3>1. \A k \in 0 .. N : k # N + 1 /\ k # N + 1 + 1 /\ (k = 0 \/ k \in 1 .. N)
      BY <1>1
    <3> QED BY <2>1, <3>1 DEF At
  <2>3. At(t, N + 1) = c
    <3>1. N + 1 # 0 /\ N + 1 # N + 1 + 1
      BY <1>1
    <3> QED BY <2>1, <3>1 DEF At
  <2>4. N + 2 = N + 1 + 1
    BY <1>1
  <2> QED BY <2>1, <2>2, <2>3, <2>4 DEF At
<1> HIDE DEF t
<1>13. ASSUME NEW k \in 0 .. N + 1
       PROVE  r.next[At(t, k)] = At(t, k + 1) /\ r.prev[At(t, k + 1)] = At(t, k)
  <2>1. CASE k \in 0 .. N - 1
    <3>1. k \in 0 .. N /\ k + 1 \in 0 .. N /\ k + 1 \in 1 .. N /\ k # N
      BY <1>1, <2>1
    <3>2. m.next[At(s, k)] = At(s, k + 1) /\ m.prev[At(s, k + 1)] = At(s, k)
      BY <3>1 DEF Ring
    <3>3. At(s, k) # p /\ At(s, k) # c /\ At(s, k) \in Nodes
      <4>1. N \in 0 .. N /\ k \in 0 .. N + 1
        BY <1>1
      <4> QED BY <1>1, <1>2, <3>1, <4>1 DEF p
    <3>4. At(s, k + 1) # "entries" /\ At(s, k + 1) # c /\ At(s, k + 1) \in Nodes
      <4>1. k + 1 \in 0 .. N + 1
        BY <1>1, <3>1
      <4> QED BY <1>1, <1>2, <3>1, <4>1
    <3> QED BY <1>11, <1>12, <3>1, <3>2, <3>3, <3>4
  <2>2. CASE k = N
    <3>1. N \in 0 .. N
      BY <1>1
    <3> QED BY <1>11, <1>12, <2>2, <3>1 DEF p
  <2>3. CASE k = N + 1
    <3>1. k + 1 = N + 2
      BY <1>1, <2>3
    <3> QED BY <1>11, <1>12, <2>3, <3>1
  <2>4. k \in 0 .. N - 1 \/ k = N \/ k = N + 1
    BY <1>1
  <2> QED BY <2>1, <2>2, <2>3, <2>4
<1>14. Ring(r, t)
  BY <1>12, <1>13 DEF Ring
<1>15. \A x \in Cells : x \notin ToSet(s) \cup {c} => r.next[x] = m.next[x] /\ r.prev[x] = m.prev[x]
  BY <1>2, <1>3, <1>11 DEF Nodes
<1> QED BY <1>10, <1>14, <1>15 DEF r, t

\* list_del takes a node out of the list and poisons it.
LEMMA RingDel ==
  ASSUME NEW m \in Memory, NEW s \in Seq(Cells), Injective(s), Ring(m, s), NEW c \in ToSet(s)
  PROVE  LET r == list_del(m, c)
         IN  /\ r \in Memory /\ Ring(r, Without(s, c))
             /\ r.next[c] = Poison /\ r.prev[c] = Poison
             /\ \A x \in Cells : x \notin ToSet(s) => r.next[x] = m.next[x] /\ r.prev[x] = m.prev[x]
<1> DEFINE r == list_del(m, c)
           t == Without(s, c)
           N == Len(s)
<1>1. /\ N \in Nat /\ At(s, 0) = "entries" /\ At(s, N + 1) = "entries"
      /\ \A k \in 1 .. N : At(s, k) = s[k] /\ At(s, k) \in Cells
      /\ \A k \in 0 .. N + 1 : At(s, k) \in Nodes /\ At(s, k) \in ToSet(s) \cup {"entries"}
      /\ \A j, k \in 0 .. N : At(s, j) = At(s, k) => j = k
      /\ \A j, k \in 1 .. N + 1 : At(s, j) = At(s, k) => j = k
  BY AtFacts
<1>2. PICK p \in 1 .. N : s[p] = c
  BY LenProperties DEF ToSet
<1> DEFINE a == At(s, p - 1)
           b == At(s, p + 1)
<1>3. /\ p \in 0 .. N + 1 /\ p - 1 \in 0 .. N + 1 /\ p + 1 \in 0 .. N + 1
      /\ p \in 0 .. N /\ p - 1 \in 0 .. N /\ p + 1 \in 1 .. N + 1 /\ p \in 1 .. N + 1
      /\ (p - 1) + 1 = p /\ p - 1 # p /\ p + 1 # p
  BY <1>1, <1>2
<1>4. c = At(s, p) /\ c \in Nodes /\ a \in Nodes /\ b \in Nodes
  BY <1>1, <1>2, <1>3
<1>5. c \in Ptr /\ a \in Ptr /\ b \in Ptr /\ Poison \in Ptr
  BY <1>4 DEF Ptr, Nodes
<1>6. a # c /\ b # c
  BY <1>1, <1>3, <1>4
<1>7. m.prev[c] = a /\ m.next[c] = b
  BY <1>3, <1>4 DEF Ring
<1> DEFINE m1 == SetPrev(m, b, a)
           m2 == SetNext(m1, a, b)
           m3 == SetNext(m2, c, Poison)
<1>8. r = SetPrev(m3, c, Poison)
  BY <1>7 DEF list_del, list_detach, list_node_unref
<1> HIDE DEF a, b
<1>9. m1 \in Memory /\ OnlyPrev(m1, m, b, a)
  BY <1>4, <1>5, SetFields DEF OnlyPrev
<1> HIDE DEF m1
<1>10. m2 \in Memory /\ OnlyNext(m2, m1, a, b)
  BY <1>4, <1>5, <1>9, SetFields DEF OnlyNext
<1> HIDE DEF m2
<1>11. m3 \in Memory /\ OnlyNext(m3, m2, c, Poison)
  <2>1. OnlyNext(SetNext(m2, c, Poison), m2, c, Poison)
    BY <1>4, <1>5, <1>10, SetFields
  <2> QED BY <2>1 DEF OnlyNext
<1> HIDE DEF m3, r
<1>12. r \in Memory /\ OnlyPrev(r, m3, c, Poison)
  <2>1. OnlyPrev(SetPrev(m3, c, Poison), m3, c, Poison)
    BY <1>4, <1>5, <1>11, SetFields
  <2> QED BY <1>8, <2>1 DEF OnlyPrev
<1>13. /\ r.next[c] = Poison /\ r.prev[c] = Poison
       /\ r.next[a] = b /\ r.prev[b] = a
       /\ \A x \in Nodes : x # c /\ x # a => r.next[x] = m.next[x]
       /\ \A x \in Nodes : x # c /\ x # b => r.prev[x] = m.prev[x]
  BY <1>4, <1>6, <1>9, <1>10, <1>11, <1>12 DEF OnlyNext, OnlyPrev
<1>14. /\ Len(t) = N - 1
       /\ \A k \in 0 .. p - 1 : At(t, k) = At(s, k)
       /\ \A k \in p .. N : At(t, k) = At(s, k + 1)
  <2>1. /\ Len(t) = N - 1
        /\ \A j \in 1 .. p - 1 : t[j] = s[j]
        /\ \A j \in p .. N - 1 : t[j] = s[j + 1]
    BY <1>2, WithoutAt
  <2> HIDE DEF t, N
  <2>2. \A k \in 0 .. p - 1 : At(t, k) = At(s, k)
    <3>1. \A k \in 0 .. p - 1 : k # N + 1 /\ k # N - 1 + 1 /\ (k = 0 \/ k \in 1 .. p - 1)
      BY <1>1, <1>2
    <3> QED BY <2>1, <3>1 DEF At, N
  <2>3. ASSUME NEW k \in p .. N
        PROVE  At(t, k) = At(s, k + 1)
    <3>1. CASE k = N
      <4>1. k = N - 1 + 1
        BY <1>1, <3>1
      <4> QED BY <1>1, <2>1, <3>1, <4>1 DEF At
    <3>2. CASE k # N
      <4>1. k \in p .. N - 1 /\ k # 0 /\ k # N - 1 + 1 /\ k + 1 # 0 /\ k + 1 # N + 1
        BY <1>1, <1>2, <3>2
      <4> QED BY <2>1, <4>1 DEF At, N
    <3> QED BY <3>1, <3>2
  <2> QED BY <2>1, <2>2, <2>3
<1> HIDE DEF t
<1>15. ASSUME NEW k \in 0 .. N - 1
       PROVE  r.next[At(t, k)] = At(t, k + 1) /\ r.prev[At(t, k + 1)] = At(t, k)
  <2>1. CASE k < p - 1
    <3>1. /\ k \in 0 .. p - 1 /\ k + 1 \in 0 .. p - 1 /\ k # p - 1 /\ k # p /\ k + 1 # p + 1 /\ k + 1 # p
          /\ k \in 0 .. N /\ k + 1 \in 1 .. N + 1 /\ k + 1 \in 0 .. N + 1 /\ k \in 0 .. N + 1
      BY <1>1, <1>2, <2>1
    <3>2. At(t, k) = At(s, k) /\ At(t, k + 1) = At(s, k + 1)
      BY <1>14, <3>1
    <3>3. At(s, k) # a /\ At(s, k) # c /\ At(s, k + 1) # b /\ At(s, k + 1) # c
      BY <1>1, <1>3, <1>4, <3>1 DEF a, b
    <3>4. m.next[At(s, k)] = At(s, k + 1) /\ m.prev[At(s, k + 1)] = At(s, k)
      BY <3>1 DEF Ring
    <3>5. At(s, k) \in Nodes /\ At(s, k + 1) \in Nodes
      BY <1>1, <3>1
    <3> QED BY <1>13, <3>2, <3>3, <3>4, <3>5
  <2>2. CASE k = p - 1
    <3>1. k \in 0 .. p - 1 /\ k + 1 = p /\ p \in p .. N
      BY <1>1, <1>2, <2>2
    <3>2. At(t, k) = a /\ At(t, k + 1) = b
      BY <1>14, <2>2, <3>1 DEF a, b
    <3> QED BY <1>13, <3>2
  <2>3. CASE k > p - 1
    <3> DEFINE j == k + 1
    <3>1. /\ k \in p .. N /\ k + 1 \in p .. N /\ j # p - 1 /\ j # p /\ j + 1 # p + 1 /\ j + 1 # p
          /\ j \in 0 .. N /\ j + 1 \in 1 .. N + 1 /\ j + 1 \in 0 .. N + 1 /\ j \in 0 .. N + 1
      BY <1>1, <1>2, <2>3
    <3>2. At(t, k) = At(s, j) /\ At(t, k + 1) = At(s, j + 1)
      BY <1>14, <3>1
    <3> HIDE DEF j
    <3>3. At(s, j) # a /\ At(s, j) # c /\ At(s, j + 1) # b /\ At(s, j + 1) # c
      BY <1>1, <1>3, <1>4, <3>1 DEF a, b
    <3>4. m.next[At(s, j)] = At(s, j + 1) /\ m.prev[At(s, j + 1)] = At(s, j)
      BY <3>1 DEF Ring
    <3>5. At(s, j) \in Nodes /\ At(s, j + 1) \in Nodes
      BY <1>1, <3>1
    <3> QED BY <1>13, <3>2, <3>3, <3>4, <3>5
  <2>4. k < p - 1 \/ k = p - 1 \/ k > p - 1
    BY <1>1, <1>2
  <2> QED BY <2>1, <2>2, <2>3, <2>4
<1>16. Ring(r, t)
  BY <1>14, <1>15 DEF Ring
<1>17. ASSUME NEW x \in Cells, x \notin ToSet(s)
       PROVE  r.next[x] = m.next[x] /\ r.prev[x] = m.prev[x]
  <2>1. x \in Nodes /\ x # "entries"
    BY HashAssumption DEF Nodes
  <2>2. a \in ToSet(s) \cup {"entries"} /\ b \in ToSet(s) \cup {"entries"} /\ c \in ToSet(s)
    BY <1>1, <1>3 DEF a, b
  <2> QED BY <1>13, <1>17, <2>1, <2>2
<1> QED BY <1>12, <1>13, <1>16, <1>17 DEF r, t

-----------------------------------------------------------------------------
(* The chains.                                                             *)

Entry == [key : Keys, data : Data, is_const : BOOLEAN, next : Cells \cup {"NULL"}]

\* Entries e in the order o: each once, and no two with the same key.
Entries(e, o) ==
  /\ o \in Seq(Cells) /\ Injective(o) /\ ToSet(o) = DOMAIN e
  /\ e \in [DOMAIN e -> Entry]
  /\ \A c, d \in DOMAIN e : e[c].key = e[d].key => c = d

\* Bucket, in a table of n buckets.
BucketOf(n, key) == LET h == hash_32(key)
                    IN  ((h[1] % n) * (65536 % n) + h[2]) % n

InBucket(e, n, b) == {c \in DOMAIN e : BucketOf(n, e[c].key) = b}

\* The entries behind c in its chain.
Behind(e, o, n, c) == {y \in InBucket(e, n, BucketOf(n, e[c].key)) : Older(o, y, c)}

\* x is the newest entry of S, or NULL if S has none.
Newest(o, S, x) == IF x = "NULL" THEN S = {}
                   ELSE x \in S /\ \A y \in S : y = x \/ Older(o, y, x)

\* Each entry leads to the next older one of its bucket.
Chains(e, o, n) == \A c \in DOMAIN e : Newest(o, Behind(e, o, n, c), e[c].next)

\* x leads to the entries of bucket b, the newest first.
Leads(e, o, n, b, x) == Newest(o, InBucket(e, n, b), x)

LEMMA BucketIs == \A key : Bucket(key) = BucketOf(size, key)
BY DEF Bucket, BucketOf

LEMMA Bounded ==
  ASSUME Entries(ent, order)
  PROVE  Len(order) \in Nat /\ Cardinality(Cells) \in Nat /\ Len(order) <= Cardinality(Cells)
<1> DEFINE N == Len(order)
<1>1. N \in Nat /\ order \in [1 .. N -> Cells]
  BY LenProperties DEF Entries
<1>2. order \in Injection(1 .. N, Cells)
  BY <1>1 DEF Entries, Injective, Injection, IsInjective
<1>3. IsFiniteSet(Cells)
  BY HashAssumption
<1>4. Cardinality(1 .. N) <= Cardinality(Cells)
  BY <1>2, <1>3, FS_Injection
<1>5. Cardinality(1 .. N) = N
  BY <1>1, FS_Interval
<1> QED BY <1>1, <1>3, <1>4, <1>5, FS_CardinalityType

\* w is the loop of a search, turn by turn.
Loop(key, w) ==
  /\ w[0] = [prev |-> "NULL", entry |-> buckets[Bucket(key)]]
  /\ \A n \in 1 .. Cardinality(Cells) : w[n] = SearchStep(key, w[n - 1])
  /\ Search(key) = w[Cardinality(Cells)]

\* The recursive function of Search is what its definition says.
LEMMA SearchUnfolds ==
  ASSUME NEW key, Cardinality(Cells) \in Nat
  PROVE  \E w : Loop(key, w)
<1> DEFINE C == Cardinality(Cells)
           a == [prev |-> "NULL", entry |-> buckets[Bucket(key)]]
<1> DEFINE Is(g, n) == g = [m \in 0 .. n |-> IF m = 0 THEN a ELSE SearchStep(key, g[m - 1])]
           T == {n \in Nat : \E g : Is(g, n)}
<1>1. 0 \in T
  <2> DEFINE g == [m \in 0 .. 0 |-> a]
  <2>1. g = [m \in 0 .. 0 |-> IF m = 0 THEN a ELSE SearchStep(key, g[m - 1])]
    BY \A m \in 0 .. 0 : m = 0
  <2> QED BY <2>1
<1>2. ASSUME NEW n \in Nat, n \in T
      PROVE  n + 1 \in T
  <2>1. PICK g : Is(g, n)
    BY <1>2
  <2> DEFINE h == [m \in 0 .. n + 1 |-> IF m = n + 1 THEN SearchStep(key, g[n]) ELSE g[m]]
  <2>2. ASSUME NEW m \in 0 .. n + 1
        PROVE  h[m] = IF m = 0 THEN a ELSE SearchStep(key, h[m - 1])
    <3>1. CASE m = n + 1
      <4>1. m # 0 /\ m - 1 = n /\ n \in 0 .. n + 1 /\ n # n + 1
        BY <3>1
      <4> QED BY <3>1, <4>1
    <3>2. CASE m # n + 1
      <4>1. m \in 0 .. n
        BY <3>2
      <4>2. g[m] = IF m = 0 THEN a ELSE SearchStep(key, g[m - 1])
        BY <2>1, <4>1
      <4>3. m # 0 => m - 1 \in 0 .. n + 1 /\ m - 1 # n + 1
        BY <4>1
      <4> QED BY <3>2, <4>2, <4>3
    <3> QED BY <3>1, <3>2
  <2>3. h = [m \in 0 .. n + 1 |-> IF m = 0 THEN a ELSE SearchStep(key, h[m - 1])]
    <3>1. h = [m \in 0 .. n + 1 |-> h[m]]
      OBVIOUS
    <3> HIDE DEF h
    <3> QED BY <2>2, <3>1
  <2> HIDE DEF h
  <2>4. Is(h, n + 1)
    BY <2>3
  <2> HIDE DEF Is
  <2> QED BY <2>4
<1>3. Nat \subseteq T
  <2> HIDE DEF T
  <2> QED BY <1>1, <1>2, SetInduction
<1>4. \E g : Is(g, C)
  BY <1>3
<1> DEFINE w == CHOOSE g : Is(g, C)
<1>5. Is(w, C)
  <2> HIDE DEF Is
  <2> QED BY <1>4
<1>6. Search(key) = w[C]
  BY DEF Search
<1> HIDE DEF w, C, a
<1>7. w[0] = a /\ \A n \in 1 .. C : w[n] = SearchStep(key, w[n - 1])
  <2>1. \A n \in 0 .. C : w[n] = IF n = 0 THEN a ELSE SearchStep(key, w[n - 1])
    BY <1>5
  <2>2. 0 \in 0 .. C /\ \A n \in 1 .. C : n \in 0 .. C /\ n # 0
    BY DEF C
  <2> QED BY <2>1, <2>2
<1>8. Loop(key, w)
  BY <1>6, <1>7 DEF Loop, C, a
<1> QED BY <1>8

\* What a search has done: it is at the entry after prev in the chain of its
\* bucket, and has passed no entry with the key.
Rest(b, p) == IF p = "NULL" THEN InBucket(ent, size, b) ELSE {y \in InBucket(ent, size, b) : Older(order, y, p)}

Passed(k, s) ==
  /\ s.prev = "NULL" \/ s.prev \in InBucket(ent, size, Bucket(k))
  /\ s.entry = IF s.prev = "NULL" THEN buckets[Bucket(k)] ELSE ent[s.prev].next
  /\ Newest(order, Rest(Bucket(k), s.prev), s.entry)
  /\ \A y \in InBucket(ent, size, Bucket(k)) \ Rest(Bucket(k), s.prev) : ent[y].key # k

Stopped(k, s) == s.entry = "NULL" \/ ent[s.entry].key = k

\* It has come down the list by one entry at least in each of n turns.
Turns(k, s, n) == Stopped(k, s) \/ \E j \in 1 .. Len(order) - n : order[j] = s.entry

LEMMA SearchStepKeeps ==
  ASSUME Entries(ent, order), Chains(ent, order, size), NEW k \in Keys, NEW s, Passed(k, s), NEW n \in Nat, Turns(k, s, n)
  PROVE  Passed(k, SearchStep(k, s)) /\ Turns(k, SearchStep(k, s), n + 1)
<1>1. CASE Stopped(k, s)
  <2>1. SearchStep(k, s) = s
    BY <1>1 DEF Stopped, SearchStep
  <2> QED BY <1>1, <2>1 DEF Turns
<1>2. CASE ~Stopped(k, s)
  <2> DEFINE b == Bucket(k)
             e == s.entry
             z == ent[e].next
             t == [prev |-> e, entry |-> z]
  <2>1. SearchStep(k, s) = t
    BY <1>2 DEF Stopped, SearchStep
  <2>2. e # "NULL" /\ ent[e].key # k
    BY <1>2 DEF Stopped
  <2>3. e \in Rest(b, s.prev) /\ \A y \in Rest(b, s.prev) : y = e \/ Older(order, y, e)
    BY <2>2 DEF Passed, Newest
  <2>4. e \in InBucket(ent, size, b)
    BY <2>3 DEF Rest
  <2>5. e \in Allocated /\ BucketOf(size, ent[e].key) = b
    BY <2>4 DEF InBucket, Allocated
  <2>6. Behind(ent, order, size, e) = Rest(b, e)
    BY <2>2, <2>5 DEF Behind, Rest
  <2>7. Newest(order, Rest(b, e), z)
    BY <2>5, <2>6 DEF Chains, Allocated
  <2>8. \A y \in InBucket(ent, size, b) \ Rest(b, e) : ent[y].key # k
    <3> SUFFICES ASSUME NEW y \in InBucket(ent, size, b), y \notin Rest(b, e)
                 PROVE  ent[y].key # k
      OBVIOUS
    <3>1. CASE y \in Rest(b, s.prev)
      BY <2>2, <2>3, <3>1 DEF Rest
    <3>2. CASE y \notin Rest(b, s.prev)
      BY <3>2 DEF Passed
    <3> QED BY <3>1, <3>2
  <2>9. t.prev = e /\ t.entry = z
    OBVIOUS
  <2> HIDE DEF t
  <2>10. Passed(k, t)
    BY <2>2, <2>4, <2>7, <2>8, <2>9 DEF Passed
  <2>11. Turns(k, t, n + 1)
    <3>1. CASE z = "NULL"
      BY <2>9, <3>1 DEF Turns, Stopped
    <3>2. CASE z # "NULL"
      <4>1. Older(order, z, e)
        BY <2>2, <2>7, <3>2 DEF Newest, Rest
      <4>2. PICK j \in 1 .. Len(order), l \in 1 .. Len(order) : j < l /\ order[j] = z /\ order[l] = e
        BY <4>1 DEF Older
      <4>3. PICK m \in 1 .. Len(order) - n : order[m] = e
        BY <1>2 DEF Turns
      <4>4. Len(order) \in Nat /\ m \in 1 .. Len(order)
        BY Bounded
      <4>5. l = m
        BY <4>2, <4>3, <4>4 DEF Entries, Injective
      <4>6. j \in 1 .. Len(order) - (n + 1)
        BY <4>2, <4>3, <4>4, <4>5
      <4> QED BY <2>9, <4>2, <4>6 DEF Turns
    <3> QED BY <3>1, <3>2
  <2> QED BY <2>1, <2>10, <2>11
<1> QED BY <1>1, <1>2

\* A search finds the entry with the key, and the pointer that leads to it.
Found(k, s) ==
  /\ IF s.entry = "NULL" THEN \A c \in Allocated : ent[c].key # k
     ELSE s.entry \in Allocated /\ ent[s.entry].key = k
  /\ IF s.prev = "NULL" THEN s.entry = buckets[Bucket(k)]
     ELSE s.prev \in InBucket(ent, size, Bucket(k)) /\ s.entry = ent[s.prev].next

LEMMA SearchFinds ==
  ASSUME Entries(ent, order), Chains(ent, order, size), NEW k \in Keys,
         Leads(ent, order, size, Bucket(k), buckets[Bucket(k)])
  PROVE  Found(k, Search(k))
<1> DEFINE C == Cardinality(Cells)
           a == [prev |-> "NULL", entry |-> buckets[Bucket(k)]]
<1>1. Len(order) \in Nat /\ C \in Nat /\ Len(order) <= C
  BY Bounded
<1>2. PICK w : Loop(k, w)
  BY <1>1, SearchUnfolds
<1>3. w[0] = a /\ (\A n \in 1 .. C : w[n] = SearchStep(k, w[n - 1])) /\ Search(k) = w[C]
  BY <1>2 DEF Loop
<1> DEFINE T == {n \in Nat : n <= C => Passed(k, w[n]) /\ Turns(k, w[n], n)}
<1>4. 0 \in T
  <2>1. a.prev = "NULL" /\ a.entry = buckets[Bucket(k)]
    OBVIOUS
  <2> HIDE DEF a
  <2>2. Passed(k, a)
    BY <2>1 DEF Passed, Rest, Leads
  <2>3. Turns(k, a, 0)
    <3>1. a.entry # "NULL" => a.entry \in ToSet(order)
      BY <2>1 DEF Leads, Newest, InBucket, Entries
    <3>2. DOMAIN order = 1 .. Len(order) /\ Len(order) - 0 = Len(order)
      BY <1>1, LenProperties DEF Entries
    <3> QED BY <3>1, <3>2 DEF Turns, Stopped, ToSet
  <2> QED BY <1>3, <2>2, <2>3
<1>5. ASSUME NEW n \in Nat, n \in T
      PROVE  n + 1 \in T
  <2> SUFFICES ASSUME n + 1 <= C
               PROVE  Passed(k, w[n + 1]) /\ Turns(k, w[n + 1], n + 1)
    OBVIOUS
  <2>1. n <= C /\ n + 1 \in 1 .. C /\ n + 1 - 1 = n
    BY <1>1
  <2>2. w[n + 1] = SearchStep(k, w[n])
    BY <1>3, <2>1
  <2> QED BY <1>5, <2>1, <2>2, SearchStepKeeps
<1>6. C \in T
  <2>1. Nat \subseteq T
    <3> HIDE DEF T
    <3> QED BY <1>4, <1>5, SetInduction
  <2> QED BY <1>1, <2>1
<1> DEFINE s == Search(k)
<1>7. Passed(k, s) /\ Turns(k, s, C)
  BY <1>1, <1>3, <1>6
<1> HIDE DEF s, C, T
<1>8. Stopped(k, s)
  <2>1. ~ \E j \in 1 .. Len(order) - C : TRUE
    BY <1>1
  <2> QED BY <1>7, <2>1 DEF Turns
<1>9. CASE s.entry = "NULL"
  <2>1. Rest(Bucket(k), s.prev) = {}
    BY <1>7, <1>9 DEF Passed, Newest
  <2>2. \A c \in Allocated : ent[c].key # k
    BY <1>7, <2>1, BucketIs DEF Passed, InBucket, Allocated
  <2> QED BY <1>7, <1>9, <2>2 DEF Passed, Found, s
<1>10. CASE s.entry # "NULL"
  <2>1. s.entry \in Rest(Bucket(k), s.prev) /\ ent[s.entry].key = k
    BY <1>7, <1>8, <1>10 DEF Passed, Newest, Stopped
  <2>2. s.entry \in Allocated
    BY <2>1 DEF Rest, InBucket, Allocated
  <2> QED BY <1>7, <1>10, <2>1, <2>2 DEF Passed, Found, s
<1> QED BY <1>9, <1>10

-----------------------------------------------------------------------------
(* An entry comes, an entry goes.                                          *)

\* The order in which entries are compared may change where it does not matter.
LEMMA NewestSame ==
  ASSUME NEW o, NEW q, NEW S, NEW x, Newest(o, S, x),
         \A y, z \in S : Older(o, y, z) => Older(q, y, z)
  PROVE  Newest(q, S, x)
BY DEF Newest

\* e with a new entry at c that leads to z.
Linked(e, c, k, d, const, z) ==
  [x \in DOMAIN e \cup {c} |->
     IF x = c THEN [key |-> k, data |-> d, is_const |-> const, next |-> z] ELSE e[x]]

\* The new entry is the first of its chain.
LEMMA ChainsAdd ==
  ASSUME NEW e, NEW o, NEW n, Entries(e, o), Chains(e, o, n),
         NEW c \in Cells, c \notin DOMAIN e, NEW k \in Keys, \A x \in DOMAIN e : e[x].key # k,
         NEW d \in Data, NEW const \in BOOLEAN, NEW z, Leads(e, o, n, BucketOf(n, k), z),
         NEW f, f = Linked(e, c, k, d, const, z)
  PROVE  LET q == Append(o, c)
         IN  /\ Entries(f, q) /\ Chains(f, q, n)
             /\ Leads(f, q, n, BucketOf(n, k), c)
             /\ \A b, x : Leads(e, o, n, b, x) /\ b # BucketOf(n, k) => Leads(f, q, n, b, x)
<1> DEFINE q == Append(o, c)
           b0 == BucketOf(n, k)
<1>1. /\ q \in Seq(Cells) /\ Injective(q) /\ ToSet(q) = ToSet(o) \cup {c}
      /\ \A x, y : Older(q, x, y) <=> Older(o, x, y) \/ (x \in ToSet(o) /\ y = c)
  BY AppendOrder DEF Entries
<1>2. /\ ToSet(o) = DOMAIN e
      /\ \A x, y : Older(o, x, y) => x \in ToSet(o) /\ y \in ToSet(o) /\ x # y
  BY OlderIsOrder DEF Entries
<1> HIDE DEF q
<1>3. z \in Cells \cup {"NULL"}
  <2>1. DOMAIN e \subseteq Cells
    BY <1>2, ElementOfSeq, LenProperties DEF Entries, ToSet
  <2> QED BY <2>1 DEF Leads, Newest, InBucket
<1>4. /\ DOMAIN f = DOMAIN e \cup {c}
      /\ \A x \in DOMAIN e : f[x] = e[x]
      /\ f[c] = [key |-> k, data |-> d, is_const |-> const, next |-> z]
  BY DEF Linked
<1>5. /\ f[c] \in Entry /\ f[c].key = k /\ f[c].next = z
  BY <1>3, <1>4 DEF Entry
<1>6. Entries(f, q)
  <2>1. f \in [DOMAIN f -> Entry]
    <3>1. \A x \in DOMAIN f : f[x] \in Entry
      BY <1>4, <1>5 DEF Entries
    <3>2. f = [x \in DOMAIN f |-> f[x]]
      BY DEF Linked
    <3> QED BY <3>1, <3>2
  <2>2. \A x, y \in DOMAIN f : f[x].key = f[y].key => x = y
    BY <1>4, <1>5 DEF Entries
  <2> QED BY <1>1, <1>2, <1>4, <2>1, <2>2 DEF Entries
<1>7. /\ InBucket(f, n, b0) = InBucket(e, n, b0) \cup {c}
      /\ \A b : b # b0 => InBucket(f, n, b) = InBucket(e, n, b)
  BY <1>4, <1>5 DEF InBucket
<1>8. \A x, y \in DOMAIN e : Older(q, x, y) <=> Older(o, x, y)
  BY <1>1
<1>9. \A b : InBucket(e, n, b) \subseteq DOMAIN e
  BY DEF InBucket
<1>10. ASSUME NEW x \in DOMAIN f
       PROVE  Newest(q, Behind(f, q, n, x), f[x].next)
  <2>1. CASE x = c
    <3>1. Behind(f, q, n, c) = InBucket(e, n, b0)
      <4>1. ~Older(q, c, c) /\ \A y \in DOMAIN e : Older(q, y, c)
        BY <1>1, <1>2
      <4>2. BucketOf(n, f[c].key) = b0
        BY <1>5
      <4> HIDE DEF b0
      <4> QED BY <1>7, <1>9, <4>1, <4>2 DEF Behind
    <3>2. Newest(o, InBucket(e, n, b0), z)
      BY DEF Leads
    <3> QED BY <1>5, <1>8, <1>9, <2>1, <3>1, <3>2, NewestSame
  <2>2. CASE x # c
    <3>1. x \in DOMAIN e /\ f[x] = e[x]
      BY <1>4, <2>2
    <3>2. Behind(f, q, n, x) = Behind(e, o, n, x)
      <4>1. ~Older(q, c, x)
        BY <1>1, <1>2, <2>2
      <4>2. \A y \in DOMAIN e : Older(q, y, x) <=> Older(o, y, x)
        BY <1>8, <3>1
      <4>3. \A b : InBucket(f, n, b) \ {c} = InBucket(e, n, b)
        BY <1>7, <1>9
      <4> QED BY <1>9, <3>1, <4>1, <4>2, <4>3 DEF Behind
    <3>3. Behind(e, o, n, x) \subseteq DOMAIN e
      BY <1>9 DEF Behind
    <3>4. Newest(o, Behind(e, o, n, x), e[x].next)
      BY <3>1 DEF Chains
    <3> QED BY <1>8, <3>1, <3>2, <3>3, <3>4, NewestSame
  <2> QED BY <2>1, <2>2
<1>11. Leads(f, q, n, b0, c)
  <2>1. c # "NULL"
    BY HashAssumption
  <2>2. \A y \in InBucket(e, n, b0) : Older(q, y, c)
    BY <1>1, <1>2, <1>9
  <2> QED BY <1>7, <2>1, <2>2 DEF Leads, Newest
<1>12. ASSUME NEW b, NEW x, Leads(e, o, n, b, x), b # b0
       PROVE  Leads(f, q, n, b, x)
  BY <1>7, <1>8, <1>9, <1>12, NewestSame DEF Leads
<1> QED BY <1>6, <1>10, <1>11, <1>12 DEF Chains, q

\* The first entry of a chain is the next one of no entry, and every other one
\* of exactly one.
LEMMA OnePointer ==
  ASSUME NEW e, NEW o, NEW n, Entries(e, o), Chains(e, o, n), NEW c \in DOMAIN e
  PROVE  /\ \A x, y \in DOMAIN e : e[x].next = c /\ e[y].next = c => x = y
         /\ Leads(e, o, n, BucketOf(n, e[c].key), c) => \A x \in DOMAIN e : e[x].next # c
<1>1. /\ ToSet(o) = DOMAIN e
      /\ \A x, y : Older(o, x, y) => ~Older(o, y, x)
      /\ \A x, y \in ToSet(o) : x = y \/ Older(o, x, y) \/ Older(o, y, x)
  BY OlderIsOrder DEF Entries
<1>2. c # "NULL"
  <2>1. DOMAIN e \subseteq Cells
    BY <1>1, ElementOfSeq, LenProperties DEF Entries, ToSet
  <2> QED BY <2>1, HashAssumption
<1>3. ASSUME NEW x \in DOMAIN e, e[x].next = c
      PROVE  /\ Older(o, c, x) /\ BucketOf(n, e[c].key) = BucketOf(n, e[x].key)
             /\ \A y \in Behind(e, o, n, x) : y = c \/ Older(o, y, c)
  BY <1>2, <1>3 DEF Chains, Newest, Behind, InBucket
<1>4. ASSUME NEW x \in DOMAIN e, NEW y \in DOMAIN e, e[x].next = c, e[y].next = c, Older(o, x, y)
      PROVE  FALSE
  <2>1. x \in Behind(e, o, n, y)
    BY <1>3, <1>4 DEF Behind, InBucket
  <2>2. x = c \/ Older(o, x, c)
    BY <1>3, <1>4, <2>1
  <2> QED BY <1>1, <1>3, <1>4, <2>2
<1>5. ASSUME Leads(e, o, n, BucketOf(n, e[c].key), c), NEW x \in DOMAIN e, e[x].next = c
      PROVE  FALSE
  <2>1. x \in InBucket(e, n, BucketOf(n, e[c].key))
    BY <1>3, <1>5 DEF InBucket
  <2>2. x = c \/ Older(o, x, c)
    BY <1>2, <1>5, <2>1 DEF Leads, Newest
  <2> QED BY <1>1, <1>3, <1>5, <2>2
<1> QED BY <1>1, <1>4, <1>5

\* What pointed to c points past it.
Past(e, c, x) == IF x = c THEN e[c].next ELSE x

\* e without c, and every chain closed again.
Unlinked(e, c, f) ==
  /\ DOMAIN f = DOMAIN e \ {c}
  /\ f \in [DOMAIN f -> Entry]
  /\ \A x \in DOMAIN f : f[x].key = e[x].key /\ f[x].data = e[x].data /\ f[x].next = Past(e, c, e[x].next)

LEMMA ChainsDel ==
  ASSUME NEW e, NEW o, NEW n, Entries(e, o), Chains(e, o, n), NEW c \in DOMAIN e,
         NEW f, Unlinked(e, c, f)
  PROVE  LET q == Without(o, c)
         IN  /\ Entries(f, q) /\ Chains(f, q, n)
             /\ \A b, x : Leads(e, o, n, b, x) => Leads(f, q, n, b, Past(e, c, x))
<1> DEFINE q == Without(o, c)
           b0 == BucketOf(n, e[c].key)
<1>1. /\ ToSet(o) = DOMAIN e
      /\ \A x, y : Older(o, x, y) => x \in ToSet(o) /\ y \in ToSet(o) /\ x # y
      /\ \A x, y, z : Older(o, x, y) /\ Older(o, y, z) => Older(o, x, z)
  BY OlderIsOrder DEF Entries
<1>2. /\ q \in Seq(Cells) /\ Injective(q) /\ ToSet(q) = ToSet(o) \ {c}
      /\ \A x, y : Older(q, x, y) <=> Older(o, x, y) /\ x # c /\ y # c
  BY <1>1, WithoutOrder DEF Entries
<1> HIDE DEF q
<1>3. c # "NULL"
  <2>1. DOMAIN e \subseteq Cells
    BY <1>1, ElementOfSeq, LenProperties DEF Entries, ToSet
  <2> QED BY <2>1, HashAssumption
<1>4. Entries(f, q)
  BY <1>1, <1>2 DEF Entries, Unlinked
<1>5. \A b : InBucket(f, n, b) = InBucket(e, n, b) \ {c}
  BY DEF InBucket, Unlinked
<1>6. ASSUME NEW S, NEW x, Newest(o, S, x),
             c \in S => S \subseteq InBucket(e, n, b0) /\ Behind(e, o, n, c) \subseteq S
      PROVE  Newest(q, S \ {c}, Past(e, c, x))
  <2>1. CASE x = "NULL"
    BY <1>3, <1>6, <2>1 DEF Newest, Past
  <2>2. CASE x # "NULL" /\ x # c
    BY <1>2, <1>6, <2>2 DEF Newest, Past
  <2>3. CASE x = c
    <3>1. c \in S /\ \A y \in S : y = c \/ Older(o, y, c)
      BY <1>3, <1>6, <2>3 DEF Newest
    <3>2. S \ {c} = Behind(e, o, n, c)
      BY <1>1, <1>6, <3>1 DEF Behind
    <3>3. Newest(o, Behind(e, o, n, c), e[c].next)
      BY DEF Chains
    <3>4. \A y, z \in S \ {c} : Older(o, y, z) => Older(q, y, z)
      BY <1>2
    <3> QED BY <2>3, <3>2, <3>3, <3>4, NewestSame DEF Past
  <2> QED BY <2>1, <2>2, <2>3
<1>7. ASSUME NEW x \in DOMAIN f
      PROVE  Newest(q, Behind(f, q, n, x), f[x].next)
  <2>1. x \in DOMAIN e /\ x # c /\ f[x].key = e[x].key /\ f[x].next = Past(e, c, e[x].next)
    BY DEF Unlinked
  <2>2. Behind(f, q, n, x) = Behind(e, o, n, x) \ {c}
    BY <1>2, <1>5, <2>1 DEF Behind
  <2>3. c \in Behind(e, o, n, x) =>
          Behind(e, o, n, x) \subseteq InBucket(e, n, b0) /\ Behind(e, o, n, c) \subseteq Behind(e, o, n, x)
    BY <1>1 DEF Behind, InBucket
  <2>4. Newest(o, Behind(e, o, n, x), e[x].next)
    BY <2>1 DEF Chains
  <2> QED BY <1>6, <2>1, <2>2, <2>3, <2>4
<1>8. ASSUME NEW b, NEW x, Leads(e, o, n, b, x)
      PROVE  Leads(f, q, n, b, Past(e, c, x))
  <2>1. c \in InBucket(e, n, b) =>
          InBucket(e, n, b) \subseteq InBucket(e, n, b0) /\ Behind(e, o, n, c) \subseteq InBucket(e, n, b)
    BY DEF Behind, InBucket
  <2> QED BY <1>5, <1>6, <1>8, <2>1 DEF Leads
<1> QED BY <1>4, <1>7, <1>8 DEF Chains, q

-----------------------------------------------------------------------------
(* The inductive invariant.                                                *)

TabInv ==
  /\ size \in Nat /\ pc \in {"idle", "walk", "clear"}
  /\ Ready => size \in ToSet(futils_hash_prime_tab) \ {0} /\ DOMAIN buckets = 0 .. size - 1
  /\ ~Ready => Allocated = {} /\ pc = "idle"

ListInv ==
  /\ links \in Memory
  /\ Ready => Ring(links, order)
  /\ \A c \in Cells \ Allocated : links.next[c] = Poison /\ links.prev[c] = Poison

\* futils_hash_remove_all has emptied the buckets below i, and entry leads to
\* what is left of the chain of bucket i.
Clearing ==
  /\ i \in 0 .. size - 1
  /\ \A b \in 0 .. i - 1 : InBucket(ent, size, b) = {}
  /\ Leads(ent, order, size, i, entry)

ChainInv ==
  /\ Entries(ent, order) /\ Chains(ent, order, size)
  /\ Ready => \A b \in 0 .. size - 1 : ~(pc = "clear" /\ b = i) => Leads(ent, order, size, b, buckets[b])
  /\ pc = "clear" => Clearing

OwnInv ==
  /\ owned \subseteq Data
  /\ \A c \in Allocated : ent[c].data \notin owned
  /\ \A c, d \in Allocated : ent[c].data = ent[d].data => c = d
  /\ \A d \in Data \ owned : \E c \in Allocated : ent[c].data = d

\* The walk has visited the entries it began with in their order, and the others
\* of them still lie in this order from tmp on; the entry it is at is behind it.
Forward(o, t) ==
  /\ t \in 1 .. Len(o) + 1 /\ tmp = At(o, t)
  /\ pos = "NULL" \/ \E p \in 1 .. t - 1 : pos = o[p]
  /\ \A m \in 1 .. Len(snap) :
       IF m <= Len(visited) THEN snap[m] = visited[m]
       ELSE LET j == t + (m - Len(visited)) - 1 IN j <= Len(o) /\ snap[m] = o[j]

Backward(o, t) ==
  /\ t \in 0 .. Len(o) /\ tmp = At(o, t)
  /\ pos = "NULL" \/ \E p \in t + 1 .. Len(o) : pos = o[p]
  /\ \A m \in 1 .. Len(snap) :
       IF m <= Len(visited) THEN snap[m] = visited[m]
       ELSE LET j == t - (m - Len(visited)) + 1 IN j >= 1 /\ snap[m] = o[j]

WalkInv ==
  pc = "walk" => /\ snap \in Seq(Cells) /\ visited \in Seq(Cells)
                 /\ \/ dir = "next" /\ \E t \in Nat : Forward(order, t)
                    \/ dir = "prev" /\ \E t \in Nat : Backward(order, t)

Inv == TabInv /\ ListInv /\ ChainInv /\ OwnInv /\ WalkInv

LEMMA InitInv == Init => Inv
<1> SUFFICES ASSUME Init
             PROVE  Inv
  OBVIOUS
<1>1. ~Ready /\ Allocated = {} /\ pc = "idle" /\ size = 0
  BY DEF Init, Ready, Allocated, NoFun
<1>2. links \in Memory /\ \A c \in Cells : links.next[c] = Poison /\ links.prev[c] = Poison
  BY DEF Init, Memory, Nodes, Ptr
<1>3. order = <<>> /\ DOMAIN ent = {} /\ ent = [c \in {} |-> 0] /\ owned = Data
  BY DEF Init, NoFun
<1>4. Entries(ent, order)
  <2>1. order \in Seq(Cells) /\ Len(order) = 0 /\ DOMAIN order = {}
    BY <1>3
  <2>2. Injective(order)
    BY <2>1 DEF Injective
  <2>3. ToSet(order) = {}
    BY <2>1 DEF ToSet
  <2>4. ent \in [{} -> Entry]
    BY <1>3
  <2> QED BY <1>3, <2>1, <2>2, <2>3, <2>4 DEF Entries
<1>5. Chains(ent, order, size)
  BY <1>3 DEF Chains
<1> QED BY <1>1, <1>2, <1>3, <1>4, <1>5 DEF Inv, TabInv, ListInv, ChainInv, OwnInv, WalkInv

LEMMA SizeFacts ==
  ASSUME TabInv, Ready
  PROVE  size \in Nat \ {0} /\ \A k \in Keys : Bucket(k) \in 0 .. size - 1
<1>1. size \in Nat \ {0}
  BY DEF TabInv
<1> QED BY <1>1, BucketType, HashAssumption

\* A search in a table that is not being cleared.
LEMMA SearchInv ==
  ASSUME Inv, Ready, pc # "clear", NEW k \in Keys
  PROVE  Found(k, Search(k))
<1>1. Leads(ent, order, size, Bucket(k), buckets[Bucket(k)])
  BY SizeFacts DEF Inv, ChainInv
<1> QED BY <1>1, SearchFinds DEF Inv, ChainInv

-----------------------------------------------------------------------------
(* The steps.                                                              *)

\* Nothing changes but what the call returns.
LEMMA QuietStep ==
  ASSUME Inv, pc = "idle", UNCHANGED <<tabVars, memVars, pc, clearVars, walkVars, owned, order>>
  PROVE  Inv'
<1>1. TabInv'
  BY DEF Inv, TabInv, tabVars, memVars, Ready, Allocated, NoFun
<1>2. ListInv'
  BY DEF Inv, ListInv, tabVars, memVars, Ready, Allocated, NoFun
<1>3. ChainInv'
  BY DEF Inv, ChainInv, tabVars, memVars, clearVars, Ready, NoFun
<1>4. OwnInv'
  BY DEF Inv, OwnInv, memVars, Allocated
<1>5. WalkInv'
  BY DEF WalkInv
<1> QED BY <1>1, <1>2, <1>3, <1>4, <1>5 DEF Inv

\* Of the list nodes, memset() touches that of the table.
LEMMA ZeroKeeps ==
  ASSUME NEW m \in Memory
  PROVE  /\ ZeroEntries(m) \in Memory
         /\ \A c \in Cells : /\ ZeroEntries(m).next[c] = m.next[c]
                             /\ ZeroEntries(m).prev[c] = m.prev[c]
<1> DEFINE q == SetNext(m, "entries", "NULL")
<1>1. "entries" \in Nodes /\ "NULL" \in Ptr /\ ZeroEntries(m) = SetPrev(q, "entries", "NULL")
  BY DEF Nodes, Ptr, ZeroEntries
<1>2. OnlyNext(q, m, "entries", "NULL")
  BY <1>1, SetFields
<1> HIDE DEF q
<1>3. q \in Memory
  BY <1>2 DEF OnlyNext
<1>4. OnlyPrev(ZeroEntries(m), q, "entries", "NULL")
  BY <1>1, <1>3, SetFields
<1> QED BY <1>1, <1>2, <1>4, HashAssumption DEF OnlyNext, OnlyPrev, Nodes

LEMMA InitStep ==
  ASSUME Inv, NEW n \in Sizes, NEW f \in BOOLEAN, NEW ok \in BOOLEAN, futils_hash_init(n, f, ok)
  PROVE  Inv'
<1>1. /\ pc = "idle" /\ pc' = "idle" /\ ~Ready /\ Allocated = {} /\ ent' = ent /\ order' = order
      /\ owned' = owned /\ Allocated' = {}
  BY DEF futils_hash_init, Inv, TabInv, Allocated
<1>2. size' = TabSize(n) /\ TabSize(n) \in ToSet(futils_hash_prime_tab) \ {0} /\ TabSize(n) \in Nat \ {0}
  BY TabSizeType DEF futils_hash_init
<1>3. Entries(ent, order) /\ DOMAIN ent = {}
  BY <1>1 DEF Inv, ChainInv, Allocated
<1>4. order = <<>>
  <2>1. order \in Seq(Cells) /\ DOMAIN order = 1 .. Len(order) /\ Len(order) \in Nat
    BY <1>3, LenProperties DEF Entries
  <2>2. DOMAIN order = {}
    BY <1>3 DEF Entries, ToSet
  <2>3. Len(order) = 0
    BY <2>1, <2>2
  <2> QED BY <2>1, <2>3, EmptySeq
<1>5. Chains(ent', order', size')
  BY <1>1, <1>3 DEF Chains
<1>6. OwnInv' /\ WalkInv'
  BY <1>1 DEF Inv, OwnInv, WalkInv, Allocated
<1>7. CASE ok
  <2>1. buckets' = [b \in 0 .. size' - 1 |-> "NULL"] /\ links' = list_init(links, "entries")
    BY <1>7 DEF futils_hash_init
  <2>2. DOMAIN buckets' = 0 .. size' - 1 /\ 0 \in DOMAIN buckets'
    BY <1>2, <2>1
  <2>3. Ready'
    BY <2>2 DEF Ready, NoFun
  <2>4. TabInv'
    BY <1>1, <1>2, <2>2, <2>3 DEF TabInv
  <2>5. \A b \in 0 .. size' - 1 : Leads(ent', order', size', b, buckets'[b])
    BY <1>1, <1>3, <2>1 DEF Leads, Newest, InBucket
  <2>6. ListInv'
    <3> DEFINE m == SetNext(links, "entries", "entries")
    <3>1. "entries" \in Nodes /\ "entries" \in Ptr /\ links \in Memory /\ links' = SetPrev(m, "entries", "entries")
      BY <2>1 DEF Nodes, Ptr, Inv, ListInv, list_init
    <3>2. OnlyNext(m, links, "entries", "entries")
      BY <3>1, SetFields
    <3> HIDE DEF m
    <3>3. m \in Memory
      BY <3>2 DEF OnlyNext
    <3>4. OnlyPrev(links', m, "entries", "entries")
      BY <3>1, <3>3, SetFields
    <3>5. links' \in Memory /\ links'.next["entries"] = "entries" /\ links'.prev["entries"] = "entries"
      BY <3>1, <3>2, <3>4 DEF OnlyNext, OnlyPrev
    <3>6. \A c \in Cells : links'.next[c] = Poison /\ links'.prev[c] = Poison
      BY <1>1, <3>1, <3>2, <3>4, HashAssumption DEF OnlyNext, OnlyPrev, Nodes, Inv, ListInv
    <3>7. Ring(links', order')
      <4>1. Len(order') = 0 /\ \A k \in 0 .. 0 : k = 0
        BY <1>1, <1>4
      <4> QED BY <3>5, <4>1 DEF Ring, At
    <3> QED BY <3>5, <3>6, <3>7 DEF ListInv
  <2> QED BY <1>1, <1>3, <1>5, <1>6, <2>4, <2>5, <2>6 DEF Inv, ChainInv
<1>8. CASE ~ok
  <2>1. buckets' = NoFun /\ links' = ZeroEntries(links) /\ ~Ready'
    BY <1>8 DEF futils_hash_init, Ready, NoFun
  <2>2. TabInv'
    BY <1>1, <1>2, <2>1 DEF TabInv
  <2>3. links' \in Memory /\ \A c \in Cells : links'.next[c] = Poison /\ links'.prev[c] = Poison
    <3>1. links \in Memory /\ \A c \in Cells : links.next[c] = Poison /\ links.prev[c] = Poison
      BY <1>1 DEF Inv, ListInv
    <3> QED BY <2>1, <3>1, ZeroKeeps
  <2>4. ListInv'
    BY <1>1, <2>1, <2>3 DEF ListInv
  <2> QED BY <1>1, <1>3, <1>5, <1>6, <2>1, <2>2, <2>4 DEF Inv, ChainInv
<1> QED BY <1>7, <1>8

\* The memory of an entry that is refused goes back.
LEMMA ExistsFreed ==
  ASSUME Inv, NEW c, NEW k, NEW d, NEW const, InsertExists(c, k, d, const)
  PROVE  ent' = ent
<1>1. ent = [x \in DOMAIN ent |-> ent[x]] /\ c \notin DOMAIN ent
  BY DEF Inv, ChainInv, Entries, InsertExists, Allocated
<1> QED BY <1>1 DEF InsertExists, Calloc, Free

\* An entry is inserted behind every entry the walk is still to come to.
LEMMA WalkInsert ==
  ASSUME WalkInv, pc = "walk", Entries(ent, order), NEW c \in Cells, c \notin DOMAIN ent,
         order' = Append(order, c), UNCHANGED <<pc, walkVars>>
  PROVE  WalkInv'
<1> DEFINE N == Len(order)
           v == Len(visited)
<1>1. /\ N \in Nat /\ Len(order') = N + 1 /\ \A j \in 1 .. N : order'[j] = order[j]
  BY AppendOrder, LenProperties DEF Entries
<1>2. /\ snap \in Seq(Cells) /\ visited \in Seq(Cells) /\ snap' = snap /\ visited' = visited
      /\ tmp' = tmp /\ pos' = pos /\ dir' = dir /\ v \in Nat /\ Len(snap) \in Nat
  BY LenProperties DEF WalkInv, walkVars
<1>3. /\ \A k \in 0 .. N : At(order', k) = At(order, k)
      /\ At(order', N + 2) = "entries" /\ At(order, N + 1) = "entries"
  <2>1. \A k \in 0 .. N : k # N + 1 /\ k # N + 1 + 1 /\ (k = 0 \/ k \in 1 .. N)
    BY <1>1
  <2>2. N + 2 = N + 1 + 1
    BY <1>1
  <2> QED BY <1>1, <2>1, <2>2 DEF At
<1>4. CASE dir = "next" /\ \E t \in Nat : Forward(order, t)
  <2>1. PICK t \in Nat : Forward(order, t)
    BY <1>4
  <2>2. t \in 1 .. N + 1
    BY <2>1 DEF Forward
  <2>3. PICK u \in Nat : u = IF t = N + 1 THEN N + 2 ELSE t
    BY <1>1
  <2>4. u \in 1 .. (N + 1) + 1 /\ t <= u
    BY <1>1, <2>2, <2>3
  <2>5. tmp = At(order', u)
    <3>1. t # N + 1 => t \in 0 .. N
      BY <1>1, <2>2, <2>3, <2>4
    <3> QED BY <1>3, <2>1, <2>3, <3>1 DEF Forward
  <2>6. pos = "NULL" \/ \E p \in 1 .. u - 1 : pos = order'[p]
    <3>1. ASSUME NEW p \in 1 .. t - 1
          PROVE  p \in 1 .. u - 1 /\ order'[p] = order[p]
      BY <1>1, <2>2, <2>3, <2>4
    <3> QED BY <2>1, <3>1 DEF Forward
  <2>7. ASSUME NEW m \in 1 .. Len(snap), ~(m <= v)
        PROVE  LET j == u + (m - v) - 1 IN j <= N + 1 /\ snap[m] = order'[j]
    <3> DEFINE j == t + (m - v) - 1
    <3>1. j <= N /\ snap[m] = order[j]
      BY <2>1, <2>7 DEF Forward
    <3>2. m \in Nat /\ m > v
      BY <1>2, <2>7
    <3>3. j \in 1 .. N /\ t # N + 1 /\ u = t
      BY <1>1, <1>2, <2>2, <2>3, <2>4, <3>1, <3>2
    <3> QED BY <1>1, <3>1, <3>3
  <2>8. \A m \in 1 .. Len(snap) : m <= v => snap[m] = visited[m]
    BY <2>1 DEF Forward
  <2>9. Forward(order, u)'
    BY <1>1, <1>2, <2>2, <2>3, <2>4, <2>5, <2>6, <2>7, <2>8 DEF Forward
  <2> QED BY <1>2, <1>4, <2>2, <2>3, <2>4, <2>9 DEF WalkInv
<1>5. CASE dir = "prev" /\ \E t \in Nat : Backward(order, t)
  <2>1. PICK t \in Nat : Backward(order, t)
    BY <1>5
  <2>2. t \in 0 .. N /\ t \in 0 .. N + 1 /\ tmp = At(order', t)
    BY <1>1, <1>3, <2>1 DEF Backward
  <2>3. pos = "NULL" \/ \E p \in t + 1 .. N + 1 : pos = order'[p]
    <3>1. ASSUME NEW p \in t + 1 .. N
          PROVE  p \in t + 1 .. N + 1 /\ order'[p] = order[p]
      BY <1>1, <2>2
    <3> QED BY <2>1, <3>1 DEF Backward
  <2>4. ASSUME NEW m \in 1 .. Len(snap), ~(m <= v)
        PROVE  LET j == t - (m - v) + 1 IN j >= 1 /\ snap[m] = order'[j]
    <3> DEFINE j == t - (m - v) + 1
    <3>1. j >= 1 /\ snap[m] = order[j]
      BY <2>1, <2>4 DEF Backward
    <3>2. m \in Nat /\ m > v
      BY <1>2, <2>4
    <3>3. j \in 1 .. N
      BY <1>1, <1>2, <2>2, <3>1, <3>2
    <3> QED BY <1>1, <3>1, <3>3
  <2>5. \A m \in 1 .. Len(snap) : m <= v => snap[m] = visited[m]
    BY <2>1 DEF Backward
  <2>6. Backward(order, t)'
    BY <1>1, <1>2, <2>2, <2>3, <2>4, <2>5 DEF Backward
  <2> QED BY <1>2, <1>5, <2>6 DEF WalkInv
<1> QED BY <1>4, <1>5 DEF WalkInv

LEMMA InsertStep ==
  ASSUME Inv, NEW c \in Cells, NEW k \in Keys, NEW d \in Data, NEW const \in BOOLEAN,
         Insert(c, k, d, const)
  PROVE  Inv'
<1>1. /\ Ready /\ pc \in {"idle", "walk"} /\ c \notin DOMAIN ent /\ d \in owned
      /\ Link(c, k, d, const) /\ Search(k).entry = "NULL"
  BY DEF Insert, Calling, Allocated
<1> DEFINE b0 == BucketOf(size, k)
           z == buckets[b0]
<1>2. b0 = Bucket(k) /\ b0 \in 0 .. size - 1 /\ size \in Nat \ {0} /\ DOMAIN buckets = 0 .. size - 1
  BY <1>1, BucketIs, SizeFacts DEF Inv, TabInv
<1>3. \A x \in DOMAIN ent : ent[x].key # k
  BY <1>1, SearchInv DEF Found, Allocated
<1>4. /\ ent' = Linked(ent, c, k, d, const, z)
      /\ buckets' = [buckets EXCEPT ![b0] = c]
      /\ links' = list_add_before(links, "entries", c)
      /\ order' = Append(order, c) /\ owned' = owned \ {d}
      /\ UNCHANGED <<size, pc, clearVars, walkVars>>
  BY <1>1, <1>2 DEF Link, Linked, Calloc, NewEntry
<1> HIDE DEF b0
<1>5. Entries(ent, order) /\ Chains(ent, order, size) /\ Leads(ent, order, size, b0, z)
  BY <1>1, <1>2 DEF Inv, ChainInv
<1> HIDE DEF z
<1>6. /\ Entries(ent', order') /\ Chains(ent', order', size)
      /\ Leads(ent', order', size, b0, c)
      /\ \A b, x : Leads(ent, order, size, b, x) /\ b # b0 => Leads(ent', order', size, b, x)
  BY <1>1, <1>3, <1>4, <1>5, ChainsAdd DEF b0
<1>7. size' = size /\ pc' = pc /\ pc # "clear"
  BY <1>1, <1>4
<1>8. DOMAIN buckets' = 0 .. size - 1 /\ buckets'[b0] = c /\ \A b \in 0 .. size - 1 : b # b0 => buckets'[b] = buckets[b]
  BY <1>2, <1>4
<1>9. Ready'
  BY <1>2, <1>8 DEF Ready, NoFun
<1>10. TabInv'
  BY <1>1, <1>7, <1>8, <1>9 DEF Inv, TabInv
<1>11. ChainInv'
  <2>1. \A b \in 0 .. size - 1 : Leads(ent', order', size, b, buckets'[b])
    BY <1>1, <1>6, <1>7, <1>8 DEF Inv, ChainInv
  <2> QED BY <1>6, <1>7, <2>1 DEF ChainInv
<1>12. DOMAIN ent' = DOMAIN ent \cup {c} /\ ent'[c].data = d /\ \A x \in DOMAIN ent : ent'[x] = ent[x]
  BY <1>1, <1>4 DEF Linked
<1>13. ListInv'
  <2>1. /\ links \in Memory /\ order \in Seq(Cells) /\ Injective(order) /\ Ring(links, order)
        /\ ToSet(order) = DOMAIN ent
    BY <1>1, <1>5 DEF Inv, ListInv, Entries
  <2>2. /\ links' \in Memory /\ Ring(links', order')
        /\ \A x \in Cells : x \notin ToSet(order) \cup {c} =>
                              links'.next[x] = links.next[x] /\ links'.prev[x] = links.prev[x]
    BY <1>1, <1>4, <2>1, RingAdd
  <2> QED BY <1>12, <2>1, <2>2 DEF Inv, ListInv, Allocated
<1>14. OwnInv'
  <2>1. OwnInv
    BY DEF Inv
  <2>2. \A x \in DOMAIN ent : ent[x].data # d
    BY <1>1, <2>1 DEF OwnInv, Allocated
  <2>3. owned' = owned \ {d}
    BY <1>4
  <2> QED BY <1>12, <2>1, <2>2, <2>3 DEF OwnInv, Allocated
<1>15. WalkInv'
  <2>1. CASE pc = "walk"
    BY <1>1, <1>4, <1>5, <2>1, WalkInsert DEF Inv
  <2>2. CASE pc # "walk"
    BY <1>7, <2>2 DEF WalkInv
  <2> QED BY <2>1, <2>2
<1> QED BY <1>10, <1>11, <1>13, <1>14, <1>15 DEF Inv

\* The entry the walk is at is removed: it has been there.
LEMMA WalkRemove ==
  ASSUME WalkInv, pc = "walk", Entries(ent, order), NEW c, pos = c, c # "NULL",
         order' = Without(order, c), pos' = "NULL", UNCHANGED <<pc, dir, tmp, snap, visited>>
  PROVE  WalkInv'
<1> DEFINE N == Len(order)
           v == Len(visited)
<1>1. N \in Nat
  BY LenProperties DEF Entries
<1>2. /\ snap \in Seq(Cells) /\ visited \in Seq(Cells) /\ snap' = snap /\ visited' = visited
      /\ tmp' = tmp /\ dir' = dir /\ v \in Nat /\ Len(snap) \in Nat
  BY LenProperties DEF WalkInv
<1>3. ASSUME NEW p \in 1 .. N, order[p] = c
      PROVE  /\ Len(order') = N - 1
             /\ \A j \in 1 .. p - 1 : order'[j] = order[j]
             /\ \A j \in p .. N - 1 : order'[j] = order[j + 1]
  BY <1>3, WithoutAt DEF Entries
<1>4. CASE dir = "next" /\ \E t \in Nat : Forward(order, t)
  <2>1. PICK t \in Nat : Forward(order, t)
    BY <1>4
  <2>2. PICK p \in 1 .. t - 1 : order[p] = c
    BY <2>1 DEF Forward
  <2>3. t \in 1 .. N + 1 /\ p \in 1 .. N /\ t - 1 \in Nat /\ t - 1 \in 1 .. (N - 1) + 1 /\ t - 1 \in p .. N
    BY <1>1, <2>1, <2>2 DEF Forward
  <2>4. /\ Len(order') = N - 1
        /\ \A j \in p .. N - 1 : order'[j] = order[j + 1]
    BY <1>3, <2>2, <2>3
  <2>5. tmp = At(order', t - 1)
    <3>1. CASE t = N + 1
      <4>1. t - 1 = (N - 1) + 1
        BY <1>1, <3>1
      <4> QED BY <2>1, <2>4, <3>1, <4>1 DEF Forward, At
    <3>2. CASE t # N + 1
      <4>1. t - 1 \in p .. N - 1 /\ (t - 1) + 1 = t /\ t # 0 /\ t - 1 # 0 /\ t - 1 # (N - 1) + 1
        BY <1>1, <2>2, <2>3, <3>2
      <4> QED BY <2>1, <2>4, <3>2, <4>1 DEF Forward, At
    <3> QED BY <3>1, <3>2
  <2>6. ASSUME NEW m \in 1 .. Len(snap), ~(m <= v)
        PROVE  LET j == (t - 1) + (m - v) - 1 IN j <= N - 1 /\ snap[m] = order'[j]
    <3> DEFINE j == t + (m - v) - 1
               l == (t - 1) + (m - v) - 1
    <3>1. j <= N /\ snap[m] = order[j]
      BY <2>1, <2>6 DEF Forward
    <3>2. m \in Nat /\ m > v
      BY <1>2, <2>6
    <3>3. l \in p .. N - 1 /\ j = l + 1
      BY <1>1, <1>2, <2>2, <2>3, <3>1, <3>2
    <3> HIDE DEF j, l
    <3>4. l <= N - 1 /\ snap[m] = order'[l]
      BY <1>1, <2>4, <3>1, <3>3
    <3> QED BY <3>4 DEF l
  <2>7. \A m \in 1 .. Len(snap) : m <= v => snap[m] = visited[m]
    BY <2>1 DEF Forward
  <2>8. PICK u \in Nat : u = t - 1
    BY <2>3
  <2>9. Forward(order, u)'
    BY <1>2, <2>3, <2>4, <2>5, <2>6, <2>7, <2>8 DEF Forward
  <2> QED BY <1>2, <1>4, <2>9 DEF WalkInv
<1>5. CASE dir = "prev" /\ \E t \in Nat : Backward(order, t)
  <2>1. PICK t \in Nat : Backward(order, t)
    BY <1>5
  <2>2. PICK p \in t + 1 .. N : order[p] = c
    BY <2>1 DEF Backward
  <2>3. t \in 0 .. N /\ p \in 1 .. N /\ t \in 0 .. N - 1 /\ t \in 0 .. p - 1
    BY <1>1, <2>1, <2>2 DEF Backward
  <2>4. /\ Len(order') = N - 1
        /\ \A j \in 1 .. p - 1 : order'[j] = order[j]
    BY <1>3, <2>2, <2>3
  <2>5. tmp = At(order', t)
    <3>1. t # N + 1 /\ t # (N - 1) + 1 /\ (t = 0 \/ t \in 1 .. p - 1)
      BY <1>1, <2>3
    <3> QED BY <2>1, <2>4, <3>1 DEF Backward, At
  <2>6. ASSUME NEW m \in 1 .. Len(snap), ~(m <= v)
        PROVE  LET j == t - (m - v) + 1 IN j >= 1 /\ snap[m] = order'[j]
    <3> DEFINE j == t - (m - v) + 1
    <3>1. j >= 1 /\ snap[m] = order[j]
      BY <2>1, <2>6 DEF Backward
    <3>2. m \in Nat /\ m > v
      BY <1>2, <2>6
    <3>3. j \in 1 .. p - 1
      BY <1>1, <1>2, <2>2, <2>3, <3>1, <3>2
    <3> QED BY <2>4, <3>1, <3>3
  <2>7. \A m \in 1 .. Len(snap) : m <= v => snap[m] = visited[m]
    BY <2>1 DEF Backward
  <2>8. Backward(order, t)'
    BY <1>2, <2>3, <2>4, <2>5, <2>6, <2>7 DEF Backward
  <2> QED BY <1>2, <1>5, <2>8 DEF WalkInv
<1> QED BY <1>4, <1>5 DEF WalkInv

\* The entries, but that those that led to c lead past it.
Patched(c, mem) ==
  /\ DOMAIN mem = DOMAIN ent
  /\ \A x \in DOMAIN ent : /\ mem[x] \in Entry /\ mem[x].key = ent[x].key
                            /\ mem[x].data = ent[x].data /\ mem[x].is_const = ent[x].is_const
                            /\ mem[x].next = Past(ent, c, ent[x].next)

\* The entry c is released once no other entry leads to it.
LEMMA ReleaseKeeps ==
  ASSUME Inv, Ready, NEW c \in DOMAIN ent, NEW mem, Patched(c, mem), Release(c, mem)
  PROVE  /\ ent' \in [DOMAIN ent \ {c} -> Entry] /\ DOMAIN ent' = DOMAIN ent \ {c}
         /\ \A x \in DOMAIN ent' : /\ ent'[x].key = ent[x].key /\ ent'[x].data = ent[x].data
                                   /\ ent'[x].is_const = ent[x].is_const
         /\ Entries(ent', order') /\ Chains(ent', order', size)
         /\ \A b, x : Leads(ent, order, size, b, x) => Leads(ent', order', size, b, Past(ent, c, x))
         /\ ListInv' /\ OwnInv'
         /\ order' = Without(order, c)
<1>1. /\ links' = list_del(links, c)
      /\ ent' = [x \in DOMAIN ent \ {c} |-> mem[x]]
      /\ order' = Without(order, c)
      /\ owned' = owned \cup {mem[c].data}
  BY DEF Release, Free, Patched
<1>2. Unlinked(ent, c, ent')
  BY <1>1 DEF Unlinked, Patched
<1>3. Entries(ent, order) /\ Chains(ent, order, size)
  BY DEF Inv, ChainInv
<1>4. /\ Entries(ent', order') /\ Chains(ent', order', size)
      /\ \A b, x : Leads(ent, order, size, b, x) => Leads(ent', order', size, b, Past(ent, c, x))
  BY <1>1, <1>2, <1>3, ChainsDel
<1>5. ListInv'
  <2>1. /\ links \in Memory /\ Ring(links, order) /\ order \in Seq(Cells) /\ Injective(order)
        /\ c \in ToSet(order) /\ ToSet(order) = DOMAIN ent
    BY <1>3 DEF Inv, ListInv, Entries
  <2>2. /\ links' \in Memory /\ Ring(links', order')
        /\ links'.next[c] = Poison /\ links'.prev[c] = Poison
        /\ \A x \in Cells : x \notin ToSet(order) => links'.next[x] = links.next[x] /\ links'.prev[x] = links.prev[x]
    BY <1>1, <2>1, RingDel
  <2> QED BY <1>2, <2>1, <2>2 DEF Inv, ListInv, Allocated, Unlinked
<1>6. OwnInv'
  <2>1. OwnInv /\ owned' = owned \cup {ent[c].data}
    BY <1>1 DEF Inv, Patched
  <2>2. ent[c].data \in Data
    BY <1>3 DEF Entries, Entry
  <2> QED BY <1>2, <2>1, <2>2 DEF OwnInv, Allocated, Unlinked
<1>7. \A x \in DOMAIN ent' : ent'[x].is_const = ent[x].is_const
  BY <1>1 DEF Patched
<1> QED BY <1>1, <1>2, <1>4, <1>5, <1>6, <1>7 DEF Unlinked

\* Buckets and entries after Unchain lead past the entry, to what came after it.
LEMMA UnchainPast ==
  ASSUME Inv, Ready, pc # "clear", NEW k \in Keys, Search(k).entry # "NULL"
  PROVE  LET s == Search(k)
             u == Unchain(s)
         IN  /\ s.entry \in DOMAIN ent /\ ent[s.entry].key = k
             /\ Patched(s.entry, u.mem) /\ DOMAIN u.buckets = 0 .. size - 1
             /\ \A b \in 0 .. size - 1 : u.buckets[b] = Past(ent, s.entry, buckets[b])
<1> DEFINE s == Search(k)
           c == s.entry
           u == Unchain(s)
           b0 == BucketOf(size, k)
           z == ent[c].next
<1>1. /\ c \in DOMAIN ent /\ ent[c].key = k
      /\ IF s.prev = "NULL" THEN c = buckets[b0]
         ELSE s.prev \in InBucket(ent, size, b0) /\ c = ent[s.prev].next
  BY SearchInv, BucketIs DEF Found, Allocated
<1>2. /\ Entries(ent, order) /\ Chains(ent, order, size)
      /\ \A b \in 0 .. size - 1 : Leads(ent, order, size, b, buckets[b])
  BY DEF Inv, ChainInv
<1>3. b0 = Bucket(k) /\ b0 \in 0 .. size - 1 /\ DOMAIN buckets = 0 .. size - 1
  BY BucketIs, SizeFacts DEF Inv, TabInv
<1>4. /\ \A x, y \in DOMAIN ent : ent[x].next = c /\ ent[y].next = c => x = y
      /\ Leads(ent, order, size, b0, c) => \A x \in DOMAIN ent : ent[x].next # c
  BY <1>1, <1>2, OnePointer
<1>5. \A b \in 0 .. size - 1 : buckets[b] = c => b = b0
  <2>1. ASSUME NEW b \in 0 .. size - 1, buckets[b] = c
        PROVE  b = b0
    <3>1. c \in InBucket(ent, size, b)
      BY <1>2, <2>1 DEF Leads, Newest
    <3> QED BY <1>1, <3>1 DEF InBucket
  <2> QED BY <2>1
<1>6. \A x \in DOMAIN ent : ent[x] \in Entry
  BY <1>2 DEF Entries
<1>7. z \in Cells \cup {"NULL"}
  BY <1>1, <1>6 DEF Entry
<1> HIDE DEF s, b0
<1>8. CASE s.prev = "NULL"
  <2>1. u.mem = ent /\ u.buckets = [buckets EXCEPT ![b0] = z]
    BY <1>1, <1>3, <1>8 DEF Unchain
  <2>2. \A x \in DOMAIN ent : ent[x].next # c
    BY <1>1, <1>2, <1>3, <1>4, <1>8
  <2>3. \A x \in DOMAIN ent : ent[x].next = Past(ent, c, ent[x].next)
    BY <2>2 DEF Past
  <2> HIDE DEF u, z
  <2>4. \A b \in 0 .. size - 1 : u.buckets[b] = Past(ent, c, buckets[b])
    BY <1>1, <1>3, <1>5, <1>8, <2>1 DEF Past, z
  <2>5. DOMAIN u.buckets = 0 .. size - 1
    BY <1>3, <2>1
  <2> QED BY <1>1, <1>6, <2>1, <2>3, <2>4, <2>5 DEF u, s, Patched
<1>9. CASE s.prev # "NULL"
  <2> DEFINE p == s.prev
  <2>1. u.mem = [ent EXCEPT ![p].next = z] /\ u.buckets = buckets
    BY <1>9 DEF Unchain
  <2>2. p \in DOMAIN ent /\ ent[p].next = c
    BY <1>1, <1>9 DEF InBucket
  <2>3. \A x \in DOMAIN ent : x # p => ent[x].next # c
    BY <1>4, <2>2
  <2>4. \A b \in 0 .. size - 1 : buckets[b] # c
    BY <1>2, <1>4, <1>5, <2>2
  <2> HIDE DEF u, z, p
  <2>5. /\ DOMAIN u.mem = DOMAIN ent
        /\ u.mem[p] = [ent[p] EXCEPT !.next = z]
        /\ \A x \in DOMAIN ent : x # p => u.mem[x] = ent[x]
    BY <2>1, <2>2
  <2>6. /\ u.mem[p] \in Entry /\ u.mem[p].key = ent[p].key /\ u.mem[p].data = ent[p].data
        /\ u.mem[p].is_const = ent[p].is_const /\ u.mem[p].next = z
    BY <1>6, <1>7, <2>2, <2>5 DEF Entry
  <2>7. \A x \in DOMAIN ent : u.mem[x].next = Past(ent, c, ent[x].next)
    BY <2>2, <2>3, <2>5, <2>6 DEF Past, z
  <2>8. \A x \in DOMAIN ent : /\ u.mem[x] \in Entry /\ u.mem[x].key = ent[x].key
                               /\ u.mem[x].data = ent[x].data /\ u.mem[x].is_const = ent[x].is_const
    BY <1>6, <2>5, <2>6
  <2>9. \A b \in 0 .. size - 1 : u.buckets[b] = Past(ent, c, buckets[b])
    BY <2>1, <2>4 DEF Past
  <2> QED BY <1>1, <1>3, <2>1, <2>5, <2>7, <2>8, <2>9 DEF u, s, Patched
<1> QED BY <1>8, <1>9

LEMMA RemoveStep ==
  ASSUME Inv, NEW k \in Keys, futils_hash_remove(k)
  PROVE  Inv'
<1> DEFINE s == Search(k)
           c == s.entry
           u == Unchain(s)
<1>1. /\ Ready /\ pc \in {"idle", "walk"} /\ c # "NULL" /\ (pc = "walk" => pos = c)
      /\ buckets' = u.buckets /\ Release(c, u.mem) /\ pos' = "NULL"
      /\ size' = size /\ pc' = pc /\ UNCHANGED <<dir, tmp, snap, visited>>
  BY DEF futils_hash_remove, Calling
<1>2. /\ c \in DOMAIN ent /\ Patched(c, u.mem) /\ DOMAIN u.buckets = 0 .. size - 1
      /\ \A b \in 0 .. size - 1 : u.buckets[b] = Past(ent, c, buckets[b])
  BY <1>1, UnchainPast
<1> HIDE DEF u, s
<1>3. /\ Entries(ent', order') /\ Chains(ent', order', size)
      /\ \A b, x : Leads(ent, order, size, b, x) => Leads(ent', order', size, b, Past(ent, c, x))
      /\ ListInv' /\ OwnInv' /\ order' = Without(order, c)
  BY <1>1, <1>2, ReleaseKeeps
<1>4. size \in Nat \ {0}
  BY <1>1, SizeFacts DEF Inv
<1>5. Ready'
  <2>1. 0 \in DOMAIN buckets'
    BY <1>1, <1>2, <1>4
  <2> QED BY <2>1 DEF Ready, NoFun
<1>6. TabInv'
  BY <1>1, <1>2, <1>5 DEF Inv, TabInv
<1>7. ChainInv'
  <2>1. \A b \in 0 .. size - 1 : Leads(ent', order', size, b, buckets'[b])
    BY <1>1, <1>2, <1>3 DEF Inv, ChainInv
  <2> QED BY <1>1, <1>3, <2>1 DEF ChainInv
<1>8. WalkInv'
  <2>1. CASE pc = "walk"
    BY <1>1, <1>3, <2>1, WalkRemove DEF Inv, ChainInv
  <2>2. CASE pc # "walk"
    BY <1>1, <2>2 DEF WalkInv
  <2> QED BY <2>1, <2>2
<1> QED BY <1>3, <1>6, <1>7, <1>8 DEF Inv

LEMMA ClearCallStep ==
  ASSUME Inv, NEW d \in BOOLEAN, ClearCall(d)
  PROVE  Inv'
<1>1. /\ Ready /\ pc = "idle" /\ pc' = "clear" /\ i' = 0 /\ entry' = buckets[0]
      /\ UNCHANGED <<tabVars, memVars, owned, order>>
  BY DEF ClearCall
<1>2. size \in Nat \ {0} /\ 0 \in 0 .. size - 1
  BY <1>1, SizeFacts DEF Inv
<1>3. TabInv'
  BY <1>1 DEF Inv, TabInv, tabVars, memVars, Ready, NoFun, Allocated
<1>4. ListInv' /\ OwnInv'
  BY <1>1 DEF Inv, ListInv, OwnInv, tabVars, memVars, Ready, NoFun, Allocated
<1>5. /\ Entries(ent, order) /\ Chains(ent, order, size)
      /\ \A b \in 0 .. size - 1 : Leads(ent, order, size, b, buckets[b])
  BY <1>1 DEF Inv, ChainInv
<1>6. ent' = ent /\ order' = order /\ size' = size /\ buckets' = buckets
  BY <1>1 DEF tabVars, memVars
<1>7. Clearing'
  <2>1. \A b \in 0 .. 0 - 1 : FALSE
    OBVIOUS
  <2> QED BY <1>1, <1>2, <1>5, <1>6, <2>1 DEF Clearing
<1>8. ChainInv'
  BY <1>5, <1>6, <1>7 DEF ChainInv
<1>9. WalkInv'
  BY <1>1 DEF WalkInv
<1> QED BY <1>3, <1>4, <1>8, <1>9 DEF Inv

\* In a clear, the entry at hand is the first of its chain.
LEMMA ClearFirst ==
  ASSUME Inv, pc = "clear", entry # "NULL"
  PROVE  /\ Ready /\ entry \in InBucket(ent, size, i) /\ Patched(entry, ent)
         /\ \A b \in 0 .. size - 1 : b # i => Past(ent, entry, buckets[b]) = buckets[b]
<1>1. /\ Ready /\ Clearing /\ Entries(ent, order) /\ Chains(ent, order, size)
      /\ \A b \in 0 .. size - 1 : b # i => Leads(ent, order, size, b, buckets[b])
  BY DEF Inv, TabInv, ChainInv
<1>2. entry \in InBucket(ent, size, i)
  BY <1>1 DEF Clearing, Leads, Newest
<1>3. entry \in DOMAIN ent /\ BucketOf(size, ent[entry].key) = i
  BY <1>2 DEF InBucket
<1>4. \A x \in DOMAIN ent : ent[x].next # entry
  BY <1>1, <1>3, OnePointer DEF Clearing
<1>5. Patched(entry, ent)
  BY <1>1, <1>4 DEF Patched, Past, Entries
<1>6. ASSUME NEW b \in 0 .. size - 1, b # i
      PROVE  buckets[b] # entry
  <2>1. buckets[b] # "NULL" => buckets[b] \in InBucket(ent, size, b)
    BY <1>1, <1>6 DEF Leads, Newest
  <2> QED BY <1>3, <1>6, <2>1 DEF InBucket
<1> QED BY <1>1, <1>2, <1>5, <1>6 DEF Past

LEMMA ClearEntryStep ==
  ASSUME Inv, ClearEntry
  PROVE  Inv'
<1>1. /\ pc = "clear" /\ entry # "NULL" /\ entry' = ent[entry].next /\ Release(entry, ent)
      /\ pc' = pc /\ i' = i /\ size' = size /\ buckets' = buckets
  BY DEF ClearEntry, tabVars
<1>2. /\ Ready /\ entry \in InBucket(ent, size, i) /\ Patched(entry, ent)
      /\ \A b \in 0 .. size - 1 : b # i => Past(ent, entry, buckets[b]) = buckets[b]
  BY <1>1, ClearFirst
<1>3. entry \in DOMAIN ent
  BY <1>2 DEF InBucket
<1>4. /\ DOMAIN ent' = DOMAIN ent \ {entry} /\ \A x \in DOMAIN ent' : ent'[x].key = ent[x].key
      /\ Entries(ent', order') /\ Chains(ent', order', size)
      /\ \A b, x : Leads(ent, order, size, b, x) => Leads(ent', order', size, b, Past(ent, entry, x))
      /\ ListInv' /\ OwnInv'
  BY <1>1, <1>2, <1>3, ReleaseKeeps
<1>5. Ready' /\ TabInv'
  BY <1>1, <1>2 DEF Inv, TabInv, Ready, NoFun
<1>6. Clearing /\ \A b \in 0 .. size - 1 : b # i => Leads(ent, order, size, b, buckets[b])
  BY <1>1, <1>2 DEF Inv, ChainInv
<1>7. Clearing'
  <2>1. \A b \in 0 .. i - 1 : InBucket(ent', size, b) = {}
    BY <1>4, <1>6 DEF Clearing, InBucket
  <2>2. Past(ent, entry, entry) = entry'
    BY <1>1 DEF Past
  <2>3. Leads(ent', order', size, i, entry')
    BY <1>4, <1>6, <2>2 DEF Clearing
  <2> QED BY <1>1, <1>6, <2>1, <2>3 DEF Clearing
<1>8. ChainInv'
  <2>1. \A b \in 0 .. size - 1 : b # i => Leads(ent', order', size, b, buckets[b])
    BY <1>2, <1>4, <1>6
  <2> QED BY <1>1, <1>4, <1>7, <2>1 DEF ChainInv
<1>9. WalkInv'
  BY <1>1 DEF WalkInv
<1> QED BY <1>4, <1>5, <1>8, <1>9 DEF Inv

LEMMA ClearBucketStep ==
  ASSUME Inv, ClearBucket
  PROVE  Inv'
<1>1. /\ pc = "clear" /\ entry = "NULL" /\ i + 1 < size
      /\ buckets' = [buckets EXCEPT ![i] = "NULL"] /\ i' = i + 1 /\ entry' = buckets[i + 1]
      /\ pc' = pc /\ size' = size /\ ent' = ent /\ links' = links
      /\ order' = order /\ owned' = owned
  BY DEF ClearBucket, memVars
<1>2. /\ Ready /\ DOMAIN buckets = 0 .. size - 1 /\ size \in Nat /\ Clearing
      /\ Entries(ent, order) /\ Chains(ent, order, size)
      /\ \A b \in 0 .. size - 1 : b # i => Leads(ent, order, size, b, buckets[b])
  BY <1>1 DEF Inv, TabInv, ChainInv
<1>3. i \in 0 .. size - 1 /\ i + 1 \in 0 .. size - 1 /\ i + 1 # i
  BY <1>1, <1>2 DEF Clearing
<1>4. InBucket(ent, size, i) = {}
  BY <1>1, <1>2 DEF Clearing, Leads, Newest
<1>5. /\ DOMAIN buckets' = 0 .. size - 1 /\ buckets'[i] = "NULL"
      /\ \A b \in 0 .. size - 1 : b # i => buckets'[b] = buckets[b]
  BY <1>1, <1>2, <1>3
<1>6. Ready' /\ TabInv'
  BY <1>1, <1>2, <1>3, <1>5 DEF Inv, TabInv, Ready, NoFun, Allocated
<1>7. ListInv' /\ OwnInv'
  BY <1>1, <1>2 DEF Inv, ListInv, OwnInv, Allocated
<1>8. Clearing'
  <2>1. \A b \in 0 .. (i + 1) - 1 : b \in 0 .. i - 1 \/ b = i
    BY <1>3
  <2>2. \A b \in 0 .. (i + 1) - 1 : InBucket(ent, size, b) = {}
    BY <1>2, <1>4, <2>1 DEF Clearing
  <2>3. Leads(ent, order, size, i + 1, buckets[i + 1])
    BY <1>2, <1>3 DEF Clearing
  <2> QED BY <1>1, <1>3, <2>2, <2>3 DEF Clearing
<1>9. ChainInv'
  <2>1. Leads(ent, order, size, i, "NULL")
    BY <1>4 DEF Leads, Newest
  <2>2. \A b \in 0 .. size - 1 : Leads(ent, order, size, b, buckets'[b])
    BY <1>2, <1>5, <2>1
  <2> QED BY <1>1, <1>2, <1>8, <2>2 DEF ChainInv
<1>10. WalkInv'
  BY <1>1 DEF WalkInv
<1> QED BY <1>6, <1>7, <1>9, <1>10 DEF Inv

\* At the end of a clear no entry is left.
LEMMA ClearsAll ==
  ASSUME Inv, pc = "clear", entry = "NULL", i + 1 = size
  PROVE  InBucket(ent, size, i) = {} /\ DOMAIN ent = {}
<1>1. Ready /\ size \in Nat /\ Clearing /\ Entries(ent, order)
  BY DEF Inv, TabInv, ChainInv
<1>2. i \in 0 .. size - 1 /\ \A b \in 0 .. size - 1 : b = i \/ b \in 0 .. i - 1
  BY <1>1 DEF Clearing
<1>3. InBucket(ent, size, i) = {}
  BY <1>1 DEF Clearing, Leads, Newest
<1>4. \A b \in 0 .. size - 1 : InBucket(ent, size, b) = {}
  BY <1>1, <1>2, <1>3 DEF Clearing
<1>5. ASSUME NEW c \in DOMAIN ent
      PROVE  FALSE
  <2>1. ent[c].key \in Keys
    BY <1>1 DEF Entries, Entry
  <2>2. BucketOf(size, ent[c].key) \in 0 .. size - 1
    BY <1>1, <2>1, SizeFacts, BucketIs DEF Inv
  <2> QED BY <1>4, <2>2 DEF InBucket
<1> QED BY <1>3, <1>5

LEMMA ClearEndStep ==
  ASSUME Inv, ClearEnd
  PROVE  Inv'
<1>1. /\ pc = "clear" /\ entry = "NULL" /\ i + 1 = size /\ pc' = "idle" /\ ent' = ent
      /\ order' = order /\ owned' = owned
  BY DEF ClearEnd
<1>2. /\ Ready /\ DOMAIN buckets = 0 .. size - 1 /\ size \in Nat /\ Clearing
      /\ Entries(ent, order) /\ Chains(ent, order, size)
      /\ \A b \in 0 .. size - 1 : b # i => Leads(ent, order, size, b, buckets[b])
  BY <1>1 DEF Inv, TabInv, ChainInv
<1>3. i \in 0 .. size - 1
  BY <1>1, <1>2 DEF Clearing
<1>4. InBucket(ent, size, i) = {} /\ DOMAIN ent = {}
  BY <1>1, ClearsAll
<1>7. OwnInv' /\ WalkInv'
  BY <1>1 DEF Inv, OwnInv, WalkInv, Allocated
<1>8. CASE ~destroy
  <2>1. buckets' = [buckets EXCEPT ![i] = "NULL"] /\ size' = size /\ links' = links
    BY <1>8 DEF ClearEnd
  <2>2. /\ DOMAIN buckets' = 0 .. size - 1 /\ buckets'[i] = "NULL"
        /\ \A b \in 0 .. size - 1 : b # i => buckets'[b] = buckets[b]
    BY <1>2, <1>3, <2>1
  <2>3. Ready' /\ TabInv'
    BY <1>1, <1>2, <1>3, <2>1, <2>2 DEF Inv, TabInv, Ready, NoFun, Allocated
  <2>4. ListInv'
    BY <1>1, <1>2, <2>1 DEF Inv, ListInv, Allocated
  <2>5. Leads(ent, order, size, i, "NULL")
    BY <1>4 DEF Leads, Newest
  <2>6. ChainInv'
    BY <1>1, <1>2, <2>1, <2>2, <2>5 DEF ChainInv
  <2> QED BY <1>7, <2>3, <2>4, <2>6 DEF Inv
<1>9. CASE destroy
  <2>1. buckets' = NoFun /\ size' = 0 /\ links' = ZeroEntries(links)
    BY <1>9 DEF ClearEnd
  <2>2. ~Ready' /\ TabInv'
    BY <1>1, <1>4, <2>1 DEF TabInv, Ready, NoFun, Allocated
  <2>3. ListInv'
    BY <1>1, <2>1, <2>2, ZeroKeeps DEF Inv, ListInv, Allocated
  <2>4. ChainInv'
    BY <1>1, <1>2, <1>4, <2>2 DEF ChainInv, Chains
  <2> QED BY <1>7, <2>2, <2>3, <2>4 DEF Inv
<1> QED BY <1>8, <1>9 DEF ClearEnd

\* The table is not touched.
LEMMA WalkFrame ==
  ASSUME Inv, Ready, pc \in {"idle", "walk"}, pc' \in {"idle", "walk"},
         UNCHANGED <<tabVars, memVars, clearVars, owned, order>>
  PROVE  TabInv' /\ ListInv' /\ ChainInv' /\ OwnInv'
<1>1. TabInv' /\ ListInv' /\ OwnInv'
  BY DEF Inv, TabInv, ListInv, OwnInv, tabVars, memVars, Ready, NoFun, Allocated
<1>2. ChainInv'
  BY DEF Inv, ChainInv, tabVars, memVars, clearVars, Ready, NoFun
<1> QED BY <1>1, <1>2

\* Outside a walk nothing is counted as visited.
Unvisited == pc # "walk" => visited = <<>>

LEMMA WalkStartStep ==
  ASSUME Inv, Unvisited, NEW d \in {"next", "prev"}, WalkStart(d)
  PROVE  Inv'
<1> DEFINE N == Len(order)
<1>1. /\ Ready /\ pc = "idle" /\ order # <<>> /\ visited = <<>> /\ dir' = d
      /\ snap' = IF d = "next" THEN order ELSE Reverse(order)
      /\ UNCHANGED <<tabVars, memVars, clearVars, owned, order>>
  BY DEF WalkStart, Unvisited
<1>2. order' = order
  BY <1>1
<1>3. Entries(ent, order) /\ Ring(links, order)
  BY <1>1 DEF Inv, ChainInv, ListInv
<1>4. order \in Seq(Cells) /\ Injective(order) /\ N \in Nat /\ N # 0
  <2>1. order \in Seq(Cells) /\ Injective(order) /\ N \in Nat
    BY <1>3, LenProperties DEF Entries
  <2>2. N # 0
    BY <1>1, <2>1, EmptySeq
  <2> QED BY <2>1, <2>2
<1>5. /\ At(order, 0) = "entries" /\ At(order, N + 1) = "entries"
      /\ \A k \in 1 .. N : At(order, k) = order[k] /\ At(order, k) \in Cells
      /\ "entries" \notin Cells
  BY <1>4, AtFacts, HashAssumption
<1>6. ASSUME NEW c \in Cells, links[d]["entries"] = c
      PROVE  /\ pc' = "walk" /\ pos' = c /\ visited' = <<c>> /\ tmp' = links[d][c]
  BY <1>1, <1>5, <1>6 DEF WalkStart, WalkTo
<1>7. ASSUME NEW c \in Cells, visited' = <<c>>
      PROVE  visited' \in Seq(Cells) /\ Len(visited') = 1 /\ visited'[1] = c
  BY <1>7
<1>8. CASE d = "next"
  <2>1. 0 \in 0 .. N /\ 1 \in 0 .. N /\ 1 \in 1 .. N
    BY <1>4
  <2>2. links.next["entries"] = order[1] /\ links.next[order[1]] = At(order, 2) /\ order[1] \in Cells
    BY <1>3, <1>5, <2>1 DEF Ring
  <2>3. pc' = "walk" /\ pos' = order[1] /\ visited' = <<order[1]>> /\ tmp' = At(order, 2)
    BY <1>6, <1>8, <2>2
  <2>4. visited' \in Seq(Cells) /\ Len(visited') = 1 /\ visited'[1] = order[1]
    BY <1>7, <2>2, <2>3
  <2>5. snap' = order
    BY <1>1, <1>8
  <2>6. ASSUME NEW m \in 1 .. N
        PROVE  IF m <= 1 THEN order[m] = visited'[m]
               ELSE LET j == 2 + (m - 1) - 1 IN j <= N /\ order[m] = order[j]
    <3>1. m <= 1 => m = 1
      BY <1>4
    <3>2. 2 + (m - 1) - 1 = m /\ m <= N
      BY <1>4
    <3> QED BY <2>4, <3>1, <3>2
  <2>7. 2 \in Nat /\ 2 \in 1 .. N + 1 /\ 1 \in 1 .. 2 - 1
    BY <1>4
  <2>8. Forward(order, 2)'
    BY <1>2, <2>3, <2>4, <2>5, <2>6, <2>7 DEF Forward
  <2>9. WalkInv'
    BY <1>1, <1>4, <1>8, <2>4, <2>5, <2>7, <2>8 DEF WalkInv
  <2> QED BY <1>1, <2>3, <2>9, WalkFrame DEF Inv
<1>9. CASE d = "prev"
  <2>1. N \in 0 .. N /\ N - 1 \in 0 .. N /\ (N - 1) + 1 = N /\ N \in 1 .. N
    BY <1>4
  <2>2. links.prev["entries"] = order[N] /\ links.prev[order[N]] = At(order, N - 1) /\ order[N] \in Cells
    BY <1>3, <1>5, <2>1 DEF Ring
  <2>3. pc' = "walk" /\ pos' = order[N] /\ visited' = <<order[N]>> /\ tmp' = At(order, N - 1)
    BY <1>6, <1>9, <2>2
  <2>4. visited' \in Seq(Cells) /\ Len(visited') = 1 /\ visited'[1] = order[N]
    BY <1>7, <2>2, <2>3
  <2>5. snap' = Reverse(order)
    BY <1>1, <1>9
  <2>6. snap' \in Seq(Cells) /\ Len(snap') = N /\ \A m \in 1 .. N : snap'[m] = order[(N - m) + 1]
    <3>1. snap' = [m \in 1 .. N |-> order[(N - m) + 1]]
      BY <2>5 DEF Reverse
    <3>2. \A m \in 1 .. N : (N - m) + 1 \in 1 .. N
      BY <1>4
    <3>3. \A m \in 1 .. N : order[m] \in Cells
      BY <1>5
    <3>4. \A m \in 1 .. N : order[(N - m) + 1] \in Cells
      BY <3>2, <3>3
    <3> QED BY <1>4, <3>1, <3>4
  <2>7. ASSUME NEW m \in 1 .. N
        PROVE  IF m <= 1 THEN snap'[m] = visited'[m]
               ELSE LET j == (N - 1) - (m - 1) + 1 IN j >= 1 /\ snap'[m] = order[j]
    <3>1. m <= 1 => m = 1 /\ (N - m) + 1 = N
      BY <1>4
    <3>2. (N - 1) - (m - 1) + 1 = (N - m) + 1 /\ (N - m) + 1 >= 1
      BY <1>4
    <3> QED BY <2>4, <2>6, <3>1, <3>2
  <2>8. PICK t \in Nat : t = N - 1
    BY <1>4
  <2>9. t \in 0 .. N /\ N \in t + 1 .. N
    BY <1>4, <2>8
  <2>10. Backward(order, t)'
    BY <1>2, <2>3, <2>4, <2>6, <2>7, <2>8, <2>9 DEF Backward
  <2>11. WalkInv'
    BY <1>1, <1>9, <2>4, <2>6, <2>10 DEF WalkInv
  <2> QED BY <1>1, <2>3, <2>11, WalkFrame DEF Inv
<1> QED BY <1>8, <1>9

LEMMA WalkOnStep ==
  ASSUME Inv, WalkOn
  PROVE  Inv'
<1> DEFINE N == Len(order)
           v == Len(visited)
<1>1. /\ pc = "walk" /\ WalkTo(tmp) /\ (tmp # "entries" => tmp' = links[dir][tmp] /\ dir' = dir /\ snap' = snap)
      /\ UNCHANGED <<tabVars, memVars, clearVars, owned, order>> /\ order' = order
  BY DEF WalkOn
<1>2. Ready /\ Entries(ent, order) /\ Ring(links, order)
  BY <1>1 DEF Inv, TabInv, ChainInv, ListInv
<1>3. CASE tmp = "entries"
  <2>1. pc' = "idle"
    BY <1>1, <1>3 DEF WalkTo
  <2> QED BY <1>1, <1>2, <2>1, WalkFrame DEF Inv, WalkInv
<1>4. CASE tmp # "entries"
  <2>1. pc' = "walk" /\ pos' = tmp /\ visited' = Append(visited, tmp) /\ tmp' = links[dir][tmp] /\ dir' = dir /\ snap' = snap
    BY <1>1, <1>4 DEF WalkTo
  <2>2. /\ N \in Nat /\ At(order, 0) = "entries" /\ At(order, N + 1) = "entries"
        /\ \A k \in 1 .. N : At(order, k) = order[k] /\ At(order, k) \in Cells
    BY <1>2, AtFacts DEF Entries
  <2>3. snap \in Seq(Cells) /\ visited \in Seq(Cells) /\ v \in Nat /\ Len(snap) \in Nat
    BY <1>1, LenProperties DEF Inv, WalkInv
  <2>4. ASSUME tmp \in Cells
        PROVE  /\ visited' \in Seq(Cells) /\ Len(visited') = v + 1 /\ visited'[v + 1] = tmp
               /\ \A m \in 1 .. v : visited'[m] = visited[m]
    BY <2>1, <2>3, <2>4, AppendProperties
  <2>5. CASE dir = "next" /\ \E t \in Nat : Forward(order, t)
    <3>1. PICK t \in Nat : Forward(order, t)
      BY <2>5
    <3>2. t \in 1 .. N /\ t \in 0 .. N /\ t + 1 \in 1 .. N + 1 /\ t \in 1 .. (t + 1) - 1 /\ t + 1 \in Nat
      BY <1>4, <2>2, <3>1 DEF Forward
    <3>3. tmp = order[t] /\ tmp = At(order, t) /\ tmp \in Cells
      BY <2>2, <3>1, <3>2 DEF Forward
    <3>4. tmp' = At(order, t + 1)
      BY <1>2, <2>1, <2>5, <3>2, <3>3 DEF Ring
    <3>5. ASSUME NEW m \in 1 .. Len(snap)
          PROVE  IF m <= v + 1 THEN snap[m] = visited'[m]
                 ELSE LET j == (t + 1) + (m - (v + 1)) - 1 IN j <= N /\ snap[m] = order[j]
      <4>1. m <= v => snap[m] = visited[m]
        BY <3>1 DEF Forward
      <4>2. ~(m <= v) => LET j == t + (m - v) - 1 IN j <= N /\ snap[m] = order[j]
        BY <3>1 DEF Forward
      <4>3. CASE m <= v
        <5>1. m \in 1 .. v /\ m <= v + 1
          BY <2>3, <4>3
        <5> QED BY <2>4, <3>3, <4>1, <4>3, <5>1
      <4>4. CASE m = v + 1
        <5>1. ~(m <= v) /\ t + (m - v) - 1 = t /\ m <= v + 1
          BY <2>3, <4>4
        <5> QED BY <2>4, <3>3, <4>2, <4>4, <5>1
      <4>5. CASE m > v + 1
        <5>1. ~(m <= v) /\ ~(m <= v + 1) /\ t + (m - v) - 1 = (t + 1) + (m - (v + 1)) - 1
          BY <2>3, <4>5
        <5> QED BY <4>2, <5>1
      <4> QED BY <2>3, <4>3, <4>4, <4>5
    <3>6. Forward(order, t + 1)'
      BY <1>1, <2>1, <2>4, <3>2, <3>3, <3>4, <3>5 DEF Forward
    <3>7. WalkInv'
      BY <2>1, <2>3, <2>4, <2>5, <3>2, <3>3, <3>6 DEF WalkInv
    <3> QED BY <1>1, <1>2, <2>1, <3>7, WalkFrame DEF Inv
  <2>6. CASE dir = "prev" /\ \E t \in Nat : Backward(order, t)
    <3>1. PICK t \in Nat : Backward(order, t)
      BY <2>6
    <3>2. /\ t \in 1 .. N /\ t - 1 \in 0 .. N /\ (t - 1) + 1 = t /\ t \in (t - 1) + 1 .. N /\ t - 1 \in Nat
      BY <1>4, <2>2, <3>1 DEF Backward
    <3>3. tmp = order[t] /\ tmp = At(order, t) /\ tmp \in Cells
      BY <2>2, <3>1, <3>2 DEF Backward
    <3>4. tmp' = At(order, t - 1)
      BY <1>2, <2>1, <2>6, <3>2, <3>3 DEF Ring
    <3>5. ASSUME NEW m \in 1 .. Len(snap)
          PROVE  IF m <= v + 1 THEN snap[m] = visited'[m]
                 ELSE LET j == (t - 1) - (m - (v + 1)) + 1 IN j >= 1 /\ snap[m] = order[j]
      <4>1. m <= v => snap[m] = visited[m]
        BY <3>1 DEF Backward
      <4>2. ~(m <= v) => LET j == t - (m - v) + 1 IN j >= 1 /\ snap[m] = order[j]
        BY <3>1 DEF Backward
      <4>3. CASE m <= v
        <5>1. m \in 1 .. v /\ m <= v + 1
          BY <2>3, <4>3
        <5> QED BY <2>4, <3>3, <4>1, <4>3, <5>1
      <4>4. CASE m = v + 1
        <5>1. ~(m <= v) /\ t - (m - v) + 1 = t /\ m <= v + 1
          BY <2>3, <4>4
        <5> QED BY <2>4, <3>3, <4>2, <4>4, <5>1
      <4>5. CASE m > v + 1
        <5>1. ~(m <= v) /\ ~(m <= v + 1) /\ t - (m - v) + 1 = (t - 1) - (m - (v + 1)) + 1
          BY <2>3, <4>5
        <5> QED BY <4>2, <5>1
      <4> QED BY <2>3, <4>3, <4>4, <4>5
    <3>6. PICK u \in Nat : u = t - 1
      BY <3>2
    <3>7. Backward(order, u)'
      BY <1>1, <2>1, <2>4, <3>2, <3>3, <3>4, <3>5, <3>6 DEF Backward
    <3>8. WalkInv'
      BY <2>1, <2>3, <2>4, <2>6, <3>3, <3>7 DEF WalkInv
    <3> QED BY <1>1, <1>2, <2>1, <3>8, WalkFrame DEF Inv
  <2> QED BY <1>1, <2>5, <2>6 DEF Inv, WalkInv
<1> QED BY <1>3, <1>4

LEMMA InvStep ==
  ASSUME Inv, Unvisited, [Next]_vars
  PROVE  Inv'
<1>1. CASE \E n \in Sizes, f \in BOOLEAN, ok \in BOOLEAN : futils_hash_init(n, f, ok)
  BY <1>1, InitStep
<1>2. CASE Calls
  <2>1. ASSUME NEW k \in Keys, InsertNoMem(k) \/ LookupDenied(k)
        PROVE  Inv'
    BY <2>1, QuietStep DEF InsertNoMem, LookupDenied, Refused
  <2>2. ASSUME NEW k \in Keys, NEW call, Missing(call, k)
        PROVE  Inv'
    BY <2>2, QuietStep DEF Missing, Refused
  <2>3. ASSUME NEW k \in Keys, futils_hash_remove(k)
        PROVE  Inv'
    BY <2>3, RemoveStep
  <2>4. ASSUME NEW k \in Keys, NEW c \in Cells, NEW d \in Data, NEW const \in BOOLEAN,
               Insert(c, k, d, const)
        PROVE  Inv'
    BY <2>4, InsertStep
  <2>5. ASSUME NEW k \in Keys, NEW const \in BOOLEAN, Lookup(k, const)
        PROVE  Inv'
    BY <2>5, QuietStep DEF Lookup
  <2>6. ASSUME NEW k \in Keys, NEW c \in Cells, NEW d \in Data, NEW const \in BOOLEAN,
               InsertExists(c, k, d, const)
        PROVE  Inv'
    <3>1. pc = "idle" /\ ent' = ent /\ UNCHANGED <<tabVars, links, pc, clearVars, walkVars, owned, order>>
      BY <2>6, ExistsFreed DEF InsertExists
    <3> QED BY <3>1, QuietStep DEF memVars
  <2> QED BY <1>2, <2>1, <2>2, <2>3, <2>4, <2>5, <2>6 DEF Calls
<1>3. CASE \E d \in BOOLEAN : ClearCall(d)
  BY <1>3, ClearCallStep
<1>4. CASE ClearEntry
  BY <1>4, ClearEntryStep
<1>5. CASE ClearBucket
  BY <1>5, ClearBucketStep
<1>6. CASE ClearEnd
  BY <1>6, ClearEndStep
<1>7. CASE \E d \in {"next", "prev"} : WalkStart(d)
  BY <1>7, WalkStartStep
<1>8. CASE WalkOn
  BY <1>8, WalkOnStep
<1>9. CASE UNCHANGED vars
  <2>1. UNCHANGED <<tabVars, memVars, pc, clearVars, walkVars, owned, order>>
    BY <1>9 DEF vars
  <2>2. TabInv' /\ ListInv' /\ OwnInv'
    BY <2>1 DEF Inv, TabInv, ListInv, OwnInv, tabVars, memVars, Ready, NoFun, Allocated
  <2>3. ChainInv'
    BY <2>1 DEF Inv, ChainInv, Clearing, tabVars, memVars, clearVars, Ready, NoFun
  <2>4. WalkInv'
    BY <2>1 DEF Inv, WalkInv, Forward, Backward, walkVars
  <2> QED BY <2>2, <2>3, <2>4 DEF Inv
<1> QED BY <1>1, <1>2, <1>3, <1>4, <1>5, <1>6, <1>7, <1>8, <1>9 DEF Next

LEMMA UnvisitedStep ==
  ASSUME Unvisited, [Next]_vars
  PROVE  Unvisited'
<1>1. CASE \E n \in Sizes, f \in BOOLEAN, ok \in BOOLEAN : futils_hash_init(n, f, ok)
  BY <1>1 DEF futils_hash_init, Unvisited, walkVars
<1>2. CASE Calls
  BY <1>2 DEF Calls, InsertNoMem, InsertExists, LookupDenied, Missing, Refused, Lookup,
              futils_hash_remove, Insert, Link, Unvisited, walkVars
<1>3. CASE \E d \in BOOLEAN : ClearCall(d)
  BY <1>3 DEF ClearCall, Unvisited, walkVars
<1>4. CASE ClearEntry \/ ClearBucket \/ ClearEnd
  BY <1>4 DEF ClearEntry, ClearBucket, ClearEnd, Unvisited, walkVars
<1>5. CASE \E d \in {"next", "prev"} : WalkStart(d)
  BY <1>5 DEF WalkStart, WalkTo, Unvisited
<1>6. CASE WalkOn
  BY <1>6 DEF WalkOn, WalkTo, Unvisited
<1>7. CASE UNCHANGED vars
  BY <1>7 DEF vars, walkVars, Unvisited
<1> QED BY <1>1, <1>2, <1>3, <1>4, <1>5, <1>6, <1>7 DEF Next

\* Of every step of every call, the invariant on the pointers, the chains, the
\* objects and the walk.
THEOREM Invariance == Spec => [](Inv /\ Unvisited)
<1>1. Init => Inv /\ Unvisited
  BY InitInv DEF Init, Unvisited
<1>2. Inv /\ Unvisited /\ [Next]_vars => (Inv /\ Unvisited)'
  BY InvStep, UnvisitedStep
<1> QED BY <1>1, <1>2, PTL DEF Spec

-----------------------------------------------------------------------------
(* The properties.                                                         *)

\* The list of entries is a ring in the order of insertion in every state, also
\* in the middle of futils_hash_remove_all and of a walk that removes entries;
\* a bucket begins with an entry that is allocated, but for the one that is being
\* cleared, and a freed entry is in no
\* list (list_add, list_del, futils_hash_insert_entry, futils_hash_remove).
THEOREM AlwaysWellFormed == Spec => []TableWellFormed
<1>1. ASSUME Inv
      PROVE  TableWellFormed
  <2>1. order \in Seq(Cells) /\ ToSet(order) = Allocated
    BY <1>1 DEF Inv, ChainInv, Entries, Allocated
  <2>2. ASSUME Ready
        PROVE  /\ size \in ToSet(futils_hash_prime_tab) \ {0} /\ DOMAIN buckets = 0 .. size - 1
               /\ IsRing(links, "entries", order, Len(order))
    BY <1>1, <2>1, <2>2, RingIsRing DEF Inv, TabInv, ListInv
  <2>3. ASSUME Ready, NEW n \in DOMAIN buckets, ~(pc = "clear" /\ n = i)
        PROVE  buckets[n] \in Allocated \cup {"NULL"}
    <3>1. Leads(ent, order, size, n, buckets[n])
      BY <1>1, <2>2, <2>3 DEF Inv, ChainInv
    <3> QED BY <3>1 DEF Leads, Newest, InBucket, Allocated
  <2> QED BY <1>1, <2>1, <2>2, <2>3 DEF TableWellFormed, Inv, ListInv
<1> QED BY <1>1, Invariance, PTL

\* Every object is the application's or in exactly one entry, whatever calls
\* came, and a table that was destroyed holds none (futils_hash_insert,
\* futils_hash_remove, futils_hash_remove_all, futils_hash_destroy).
THEOREM AlwaysBalanced == Spec => []OwnershipBalanced
<1>1. ASSUME Inv
      PROVE  OwnershipBalanced
  <2>1. ASSUME NEW d \in Data
        PROVE  Cardinality({c \in Allocated : ent[c].data = d}) = IF d \in owned THEN 0 ELSE 1
    <3> DEFINE S == {c \in Allocated : ent[c].data = d}
    <3>1. CASE d \in owned
      <4>1. S = {}
        BY <1>1, <3>1 DEF Inv, OwnInv
      <4> QED BY <3>1, <4>1, FS_EmptySet
    <3>2. CASE d \notin owned
      <4>1. PICK c \in Allocated : ent[c].data = d
        BY <1>1, <3>2 DEF Inv, OwnInv
      <4>2. S = {c}
        BY <1>1, <4>1 DEF Inv, OwnInv
      <4> QED BY <3>2, <4>2, FS_Singleton
    <3> QED BY <3>1, <3>2
  <2> QED BY <1>1, <2>1 DEF OwnershipBalanced, Inv, TabInv
<1> QED BY <1>1, Invariance, PTL

LEMMA PrefixIs ==
  ASSUME NEW S, NEW s \in Seq(S), NEW t \in Seq(S), Len(s) <= Len(t),
         \A m \in 1 .. Len(s) : s[m] = t[m]
  PROVE  IsPrefix(s, t)
<1> DEFINE n == Len(s)
           u == SubSeq(t, 1, n)
<1>1. n \in Nat /\ Len(t) \in Nat
  BY LenProperties
<1>2. SubSeq(s, 1, n) = s
  BY SubSeqFull
<1>3. \A m \in 1 .. n : t[m] \in S
  BY <1>1, ElementOfSeq
<1>4. u \in Seq(S) /\ Len(u) = n /\ \A m \in 1 .. n : u[m] = t[m]
  <2>1. /\ u \in Seq(S) /\ Len(u) = IF 1 <= n THEN n - 1 + 1 ELSE 0
        /\ \A m \in 1 .. n - 1 + 1 : u[m] = t[1 + m - 1]
    BY <1>1, <1>3, SubSeqProperties
  <2>2. n - 1 + 1 = n /\ \A m \in 1 .. n : 1 + m - 1 = m
    BY <1>1
  <2> HIDE DEF u, n
  <2> QED BY <1>1, <2>1, <2>2
<1> HIDE DEF u, n
<1>5. u = s
  BY <1>4, SeqEqual DEF n
<1> QED BY <1>2, <1>5 DEF IsPrefix, u, n

\* A safe walk comes to every entry that was there when it began, in their
\* order, whether it removes the entries it is at or not and whatever it inserts
\* (list_walk_entry_forward_safe, list_walk_entry_backward_safe).
THEOREM WalksVisitAll == Spec => WalkVisitsAll
<1>1. ASSUME Inv, [Next]_vars, pc = "walk", pc' = "idle"
      PROVE  IsPrefix(snap, visited)
  <2>1. WalkOn /\ tmp = "entries"
    <3>1. WalkOn
      BY <1>1 DEF Next, vars, Calls, futils_hash_init, InsertNoMem, InsertExists, LookupDenied,
                  Missing, Refused, Lookup, futils_hash_remove, Insert, Link, ClearCall,
                  ClearEntry, ClearBucket, ClearEnd, WalkStart
    <3> QED BY <1>1, <3>1 DEF WalkOn, WalkTo
  <2>2. snap \in Seq(Cells) /\ visited \in Seq(Cells) /\ Len(snap) \in Nat /\ Len(visited) \in Nat
    BY <1>1, LenProperties DEF Inv, WalkInv
  <2>3. /\ Len(order) \in Nat
        /\ \A k \in 1 .. Len(order) : At(order, k) \in Cells
        /\ "entries" \notin Cells
    BY <1>1, AtFacts, HashAssumption DEF Inv, ChainInv, Entries
  <2>4. ASSUME NEW m \in 1 .. Len(snap)
        PROVE  m <= Len(visited) /\ snap[m] = visited[m]
    <3>1. CASE \E t \in Nat : Forward(order, t)
      <4>1. PICK t \in Nat : Forward(order, t)
        BY <3>1
      <4>2. t = Len(order) + 1
        BY <2>1, <2>3, <4>1 DEF Forward
      <4>3. ~(m <= Len(visited)) => t + (m - Len(visited)) - 1 <= Len(order)
        BY <4>1 DEF Forward
      <4>4. m <= Len(visited)
        BY <2>2, <2>3, <4>2, <4>3
      <4> QED BY <4>1, <4>4 DEF Forward
    <3>2. CASE \E t \in Nat : Backward(order, t)
      <4>1. PICK t \in Nat : Backward(order, t)
        BY <3>2
      <4>2. t = 0
        BY <2>1, <2>3, <4>1 DEF Backward
      <4>3. ~(m <= Len(visited)) => t - (m - Len(visited)) + 1 >= 1
        BY <4>1 DEF Backward
      <4>4. m <= Len(visited)
        BY <2>2, <4>2, <4>3
      <4> QED BY <4>1, <4>4 DEF Backward
    <3> QED BY <1>1, <3>1, <3>2 DEF Inv, WalkInv
  <2>5. Len(snap) <= Len(visited)
    <3>1. CASE Len(snap) = 0
      BY <2>2, <3>1
    <3>2. CASE Len(snap) # 0
      BY <2>2, <2>4, <3>2
    <3> QED BY <3>1, <3>2
  <2> QED BY <2>2, <2>4, <2>5, PrefixIs
<1>2. Inv /\ [Next]_vars => [pc = "walk" /\ pc' = "idle" => IsPrefix(snap, visited)]_vars
  BY <1>1
<1> QED BY <1>2, Invariance, PTL DEF Spec, WalkVisitsAll

-----------------------------------------------------------------------------
(* The refinement.                                                         *)

\* Contents, of the entries e.
MapOf(e) == [k \in {e[c].key : c \in DOMAIN e} |->
               Pair(e[CHOOSE c \in DOMAIN e : e[c].key = k])]

LEMMA MapFacts ==
  ASSUME NEW e, \A c, d \in DOMAIN e : e[c].key = e[d].key => c = d
  PROVE  /\ MapOf(e) = [k \in DOMAIN MapOf(e) |-> MapOf(e)[k]]
         /\ \A k : k \in DOMAIN MapOf(e) <=> \E c \in DOMAIN e : e[c].key = k
         /\ \A c \in DOMAIN e : MapOf(e)[e[c].key] = Pair(e[c])
<1>1. DOMAIN MapOf(e) = {e[c].key : c \in DOMAIN e} /\ MapOf(e) = [k \in DOMAIN MapOf(e) |-> MapOf(e)[k]]
  BY DEF MapOf
<1>2. ASSUME NEW c \in DOMAIN e
      PROVE  MapOf(e)[e[c].key] = Pair(e[c])
  <2> DEFINE x == CHOOSE y \in DOMAIN e : e[y].key = e[c].key
  <2>1. x \in DOMAIN e /\ e[x].key = e[c].key
    <3>1. \E y \in DOMAIN e : e[y].key = e[c].key
      OBVIOUS
    <3> QED BY <3>1
  <2>2. MapOf(e)[e[c].key] = Pair(e[x])
    BY DEF MapOf
  <2> HIDE DEF x
  <2>3. x = c
    BY <2>1
  <2> QED BY <2>2, <2>3
<1> QED BY <1>1, <1>2

LEMMA ContentsIs == Contents = MapOf(ent)
BY DEF Contents, MapOf, Allocated

LEMMA ContentsWillBe == Contents' = MapOf(ent')
BY DEF Contents, MapOf, Allocated

\* The function M with one more pair, and without a key.
With(M, k, d) == [j \in DOMAIN M \cup {k} |-> IF j = k THEN d ELSE M[j]]
Less(M, k) == [j \in DOMAIN M \ {k} |-> M[j]]

\* A step that puts an entry in.
LEMMA MapPut ==
  ASSUME NEW e, NEW f, NEW o, NEW q, NEW c, NEW k, NEW d, Entries(e, o), Entries(f, q),
         DOMAIN f = DOMAIN e \cup {c}, f[c].key = k, Pair(f[c]) = d,
         \A x \in DOMAIN e : x # c /\ f[x] = e[x] /\ e[x].key # k
  PROVE  /\ k \notin DOMAIN MapOf(e)
         /\ MapOf(f) = With(MapOf(e), k, d)
<1> DEFINE M == MapOf(e)
           W == MapOf(f)
           R == [j \in DOMAIN M \cup {k} |-> IF j = k THEN d ELSE M[j]]
<1>1. /\ M = [j \in DOMAIN M |-> M[j]]
      /\ \A j : j \in DOMAIN M <=> \E x \in DOMAIN e : e[x].key = j
      /\ \A x \in DOMAIN e : M[e[x].key] = Pair(e[x])
  BY MapFacts DEF Entries
<1>2. /\ W = [j \in DOMAIN W |-> W[j]]
      /\ \A j : j \in DOMAIN W <=> \E x \in DOMAIN f : f[x].key = j
      /\ \A x \in DOMAIN f : W[f[x].key] = Pair(f[x])
  BY MapFacts DEF Entries
<1> HIDE DEF M, W
<1>3. DOMAIN W = DOMAIN M \cup {k}
  <2>1. ASSUME NEW j
        PROVE  (\E x \in DOMAIN f : f[x].key = j) <=> (\E x \in DOMAIN e : e[x].key = j) \/ j = k
    OBVIOUS
  <2> QED BY <1>1, <1>2, <2>1
<1>4. \A j \in DOMAIN W : W[j] = IF j = k THEN d ELSE M[j]
  BY <1>1, <1>2, <1>3
<1>5. W = R
  BY <1>2, <1>3, <1>4
<1>6. k \notin DOMAIN M
  BY <1>1
<1> QED BY <1>5, <1>6 DEF M, W, With

\* A step that takes the entry c out.
LEMMA MapDel ==
  ASSUME NEW e, NEW f, NEW o, NEW q, NEW c \in DOMAIN e, Entries(e, o), Entries(f, q),
         DOMAIN f = DOMAIN e \ {c},
         \A x \in DOMAIN f : f[x].key = e[x].key /\ Pair(f[x]) = Pair(e[x])
  PROVE  /\ e[c].key \in DOMAIN MapOf(e)
         /\ MapOf(f) = Less(MapOf(e), e[c].key)
<1> DEFINE M == MapOf(e)
           W == MapOf(f)
           R == [j \in DOMAIN M \ {e[c].key} |-> M[j]]
<1>1. /\ M = [j \in DOMAIN M |-> M[j]]
      /\ \A j : j \in DOMAIN M <=> \E x \in DOMAIN e : e[x].key = j
      /\ \A x \in DOMAIN e : M[e[x].key] = Pair(e[x])
  BY MapFacts DEF Entries
<1>2. /\ W = [j \in DOMAIN W |-> W[j]]
      /\ \A j : j \in DOMAIN W <=> \E x \in DOMAIN f : f[x].key = j
      /\ \A x \in DOMAIN f : W[f[x].key] = Pair(f[x])
  BY MapFacts DEF Entries
<1>3. \A x \in DOMAIN e : e[x].key = e[c].key => x = c
  BY DEF Entries
<1> HIDE DEF M, W
<1>4. DOMAIN W = DOMAIN M \ {e[c].key}
  <2>1. ASSUME NEW j
        PROVE  (\E x \in DOMAIN f : f[x].key = j) <=> (\E x \in DOMAIN e : e[x].key = j) /\ j # e[c].key
    BY <1>3
  <2> QED BY <1>1, <1>2, <2>1
<1>5. \A j \in DOMAIN W : W[j] = R[j]
  BY <1>1, <1>2, <1>4
<1>6. W = R
  BY <1>2, <1>4, <1>5
<1> QED BY <1>1, <1>6 DEF M, W, Less

\* A step that takes the entry c out takes its pair out.
LEMMA ReleaseDel ==
  ASSUME Inv, Inv', Ready, NEW c \in DOMAIN ent, NEW mem, Patched(c, mem), Release(c, mem)
  PROVE  /\ ent[c].key \in DOMAIN Contents /\ ent[c].key \in Keys
         /\ Contents' = Less(Contents, ent[c].key)
<1>1. Entries(ent, order) /\ Entries(ent', order')
  BY DEF Inv, ChainInv
<1>2. /\ DOMAIN ent' = DOMAIN ent \ {c}
      /\ \A x \in DOMAIN ent' : ent'[x].key = ent[x].key /\ Pair(ent'[x]) = Pair(ent[x])
  BY ReleaseKeeps DEF Pair
<1>3. ent[c].key \in Keys
  BY <1>1 DEF Entries, Entry
<1> QED BY <1>1, <1>2, <1>3, MapDel, ContentsIs, ContentsWillBe

\* What a search finds is what the table holds.
LEMMA SearchContents ==
  ASSUME Inv, Ready, pc # "clear", NEW k \in Keys
  PROVE  /\ Search(k).entry = "NULL" <=> k \notin DOMAIN Contents
         /\ Search(k).entry # "NULL" => /\ Contents[k].data = ent[Search(k).entry].data
                                        /\ Contents[k].is_const = ent[Search(k).entry].is_const
<1> DEFINE c == Search(k).entry
<1>1. /\ c = "NULL" => \A x \in DOMAIN ent : ent[x].key # k
      /\ c # "NULL" => c \in DOMAIN ent /\ ent[c].key = k
  BY SearchInv DEF Found, Allocated
<1> HIDE DEF c
<1>2. /\ \A j : j \in DOMAIN Contents <=> \E x \in DOMAIN ent : ent[x].key = j
      /\ \A x \in DOMAIN ent : Contents[ent[x].key] = Pair(ent[x])
  BY MapFacts, ContentsIs DEF Entries, Inv, ChainInv
<1>3. c = "NULL" <=> k \notin DOMAIN Contents
  BY <1>1, <1>2
<1>4. c # "NULL" => Contents[k] = Pair(ent[c])
  BY <1>1, <1>2
<1>5. c # "NULL" => Contents[k].data = ent[c].data /\ Contents[k].is_const = ent[c].is_const
  BY <1>4 DEF Pair
<1> QED BY <1>3, <1>5 DEF c

LEMMA KeyMapStep ==
  ASSUME Inv, Inv', [Next]_vars
  PROVE  [KM!Next]_(KM!vars)
<1>1. ASSUME ent' = ent
      PROVE  Contents' = Contents
  BY <1>1, ContentsIs, ContentsWillBe
<1>2. ASSUME ent' = ent, pc # "clear", pc' # "clear", asked' = <<>>, ret' \in {"none", "ENOMEM"},
             out' = "none"
      PROVE  KM!Next
  BY <1>1, <1>2 DEF KM!Next, KM!Other, KM!NoKey
<1>3. ASSUME ent' = ent, pc' # "clear", DOMAIN ent = {}, asked' = <<>>, ret' = "0", out' = "none"
      PROVE  KM!Next
  <2>1. DOMAIN Contents = {}
    BY <1>3 DEF Contents, Allocated
  <2> QED BY <1>1, <1>3, <2>1 DEF KM!Next, KM!Empty, KM!NoKey
<1>4. ASSUME ent' = ent, UNCHANGED <<pc, asked, ret, out>>
      PROVE  UNCHANGED KM!vars
  BY <1>1, <1>4 DEF KM!vars
<1>5. CASE \E n \in Sizes, f \in BOOLEAN, ok \in BOOLEAN : futils_hash_init(n, f, ok)
  <2>1. /\ ent' = ent /\ pc # "clear" /\ pc' # "clear" /\ asked' = <<>> /\ out' = "none"
        /\ ret' \in {"0", "ENOMEM"} /\ ~Ready
    BY <1>5 DEF futils_hash_init, Return
  <2>2. DOMAIN ent = {}
    BY <2>1 DEF Inv, TabInv, Allocated
  <2> QED BY <1>2, <1>3, <2>1, <2>2
<1>6. CASE Calls
  <2>1. ASSUME NEW k \in Keys, InsertNoMem(k)
        PROVE  KM!Next
    <3>1. KM!NoMemory(k)
      BY <1>1, <2>1 DEF InsertNoMem, Refused, Return, memVars, KM!NoMemory, KM!Answer
    <3> QED BY <3>1 DEF KM!Next
  <2>2. ASSUME NEW k \in Keys, LookupDenied(k)
        PROVE  KM!Next
    <3>1. Ready /\ pc = "idle" /\ Search(k).entry # "NULL" /\ ent[Search(k).entry].is_const
      BY <2>2 DEF LookupDenied
    <3>2. k \in DOMAIN Contents /\ Contents[k].is_const
      BY <3>1, SearchContents
    <3>3. KM!Denied(k)
      BY <1>1, <2>2, <3>2 DEF LookupDenied, Refused, Return, memVars, KM!Denied, KM!Answer
    <3> QED BY <3>3 DEF KM!Next
  <2>3. ASSUME NEW k \in Keys, futils_hash_remove(k)
        PROVE  KM!Next
    <3> DEFINE c == Search(k).entry
               mem == Unchain(Search(k)).mem
    <3>1. Ready /\ pc # "clear" /\ c # "NULL" /\ Release(c, mem)
      BY <2>3 DEF futils_hash_remove, Calling
    <3>2. c \in DOMAIN ent /\ ent[c].key = k /\ Patched(c, mem)
      BY <3>1, UnchainPast
    <3> HIDE DEF c, mem
    <3>3. k \in DOMAIN Contents /\ Contents' = Less(Contents, k)
      BY <3>1, <3>2, ReleaseDel
    <3>4. KM!Del(k)
      BY <2>3, <3>1, <3>3 DEF futils_hash_remove, Return, KM!Del, KM!Answer, Less
    <3> QED BY <3>4 DEF KM!Next
  <2>4. ASSUME NEW k \in Keys, NEW c \in Cells, NEW d \in Data, NEW const \in BOOLEAN,
               Insert(c, k, d, const)
        PROVE  KM!Next
    <3> DEFINE z == buckets[Bucket(k)]
               v == [data |-> d, is_const |-> const]
    <3>1. /\ Ready /\ pc # "clear" /\ pc' = pc /\ Search(k).entry = "NULL" /\ c \notin DOMAIN ent
          /\ ent' = Linked(ent, c, k, d, const, z)
          /\ asked' = <<"insert", k>> /\ ret' = "0" /\ out' = "none"
      BY <2>4 DEF Insert, Calling, Link, Linked, Calloc, NewEntry, Return, Allocated
    <3> HIDE DEF z
    <3>2. \A x \in DOMAIN ent : ent[x].key # k
      BY <3>1, SearchInv DEF Found, Allocated
    <3>3. /\ DOMAIN ent' = DOMAIN ent \cup {c} /\ ent'[c].key = k /\ Pair(ent'[c]) = v
          /\ \A x \in DOMAIN ent : x # c /\ ent'[x] = ent[x]
      BY <3>1 DEF Linked, Pair
    <3>4. v \in [data : Data, is_const : BOOLEAN]
      OBVIOUS
    <3> HIDE DEF v
    <3>5. k \notin DOMAIN Contents /\ Contents' = With(Contents, k, v)
      BY <3>2, <3>3, MapPut, ContentsIs, ContentsWillBe DEF Inv, ChainInv
    <3>6. KM!Put(k, v)
      BY <3>1, <3>5 DEF KM!Put, KM!Answer, With
    <3> QED BY <3>4, <3>6 DEF KM!Next
  <2>5. ASSUME NEW k \in Keys, NEW const \in BOOLEAN, Lookup(k, const)
        PROVE  KM!Next
    <3> DEFINE c == Search(k).entry
               call == IF const THEN "lookup_const" ELSE "lookup"
    <3>1. /\ Ready /\ pc = "idle" /\ pc' = pc /\ c # "NULL" /\ ent' = ent
          /\ ent[c].is_const => const
          /\ asked' = <<call, k>> /\ ret' = "0" /\ out' = ent[c].data
      BY <2>5 DEF Lookup, Return, memVars
    <3>2. /\ k \in DOMAIN Contents /\ Contents[k].data = ent[c].data
          /\ Contents[k].is_const = ent[c].is_const
      BY <3>1, SearchContents
    <3>3. call \in {"lookup", "lookup_const"} /\ (const => call = "lookup_const")
      OBVIOUS
    <3> HIDE DEF c, call
    <3>4. KM!Get(call, k)
      BY <1>1, <3>1, <3>2, <3>3 DEF KM!Get, KM!Answer
    <3> QED BY <3>3, <3>4 DEF KM!Next
  <2>6. ASSUME NEW k \in Keys, NEW call \in {"lookup", "lookup_const", "remove"}, Missing(call, k)
        PROVE  KM!Next
    <3>1. k \notin DOMAIN Contents
      BY <2>6, SearchContents DEF Missing
    <3>2. KM!Absent(call, k)
      BY <1>1, <2>6, <3>1 DEF Missing, Refused, Return, memVars, KM!Absent, KM!Answer
    <3> QED BY <3>2 DEF KM!Next
  <2>7. ASSUME NEW k \in Keys, NEW c \in Cells, NEW d \in Data, NEW const \in BOOLEAN,
               InsertExists(c, k, d, const)
        PROVE  KM!Next
    <3>1. ent' = ent
      BY <2>7, ExistsFreed
    <3>2. k \in DOMAIN Contents
      BY <2>7, SearchContents DEF InsertExists
    <3>3. KM!Exists(k)
      BY <1>1, <2>7, <3>1, <3>2 DEF InsertExists, Return, KM!Exists, KM!Answer
    <3> QED BY <3>3 DEF KM!Next
  <2> QED BY <1>6, <2>1, <2>2, <2>3, <2>4, <2>5, <2>6, <2>7 DEF Calls
<1>7. CASE \E d \in BOOLEAN : ClearCall(d)
  <2>1. KM!Clear
    BY <1>1, <1>7 DEF ClearCall, Return, memVars, KM!Clear, KM!NoKey
  <2> QED BY <2>1 DEF KM!Next
<1>8. CASE ClearEntry
  <2>1. pc = "clear" /\ entry # "NULL" /\ Release(entry, ent)
    BY <1>8 DEF ClearEntry
  <2>2. Ready /\ entry \in DOMAIN ent /\ Patched(entry, ent)
    BY <2>1, ClearFirst DEF InBucket
  <2> DEFINE k == ent[entry].key
  <2>3. k \in DOMAIN Contents /\ k \in Keys /\ Contents' = Less(Contents, k)
    BY <2>1, <2>2, ReleaseDel
  <2> HIDE DEF k
  <2>4. KM!Lose(k)
    BY <1>8, <2>3 DEF ClearEntry, KM!Lose, Less
  <2> QED BY <2>3, <2>4 DEF KM!Next
<1>9. CASE ClearBucket
  BY <1>4, <1>9 DEF ClearBucket, memVars
<1>10. CASE ClearEnd
  BY <1>3, <1>10, ClearsAll DEF ClearEnd, Return
<1>11. CASE \E d \in {"next", "prev"} : WalkStart(d)
  BY <1>2, <1>11 DEF WalkStart, WalkTo, Return, memVars
<1>12. CASE WalkOn
  BY <1>2, <1>12 DEF WalkOn, WalkTo, Return, memVars
<1>13. CASE UNCHANGED vars
  BY <1>4, <1>13 DEF vars, memVars
<1> QED BY <1>5, <1>6, <1>7, <1>8, <1>9, <1>10, <1>11, <1>12, <1>13 DEF Next

\* The table is a partial function from keys to data, and what each call returns
\* is right of it: an insertion adds one pair or finds the key, a removal takes
\* one away or finds none, a lookup gives the data of its key unless there are
\* none or they are const, and no other step changes what is stored but a clear,
\* which leaves nothing, however the entries are chained (futils_hash_insert,
\* futils_hash_remove, futils_hash_lookup, futils_hash_remove_all).
THEOREM KeyMapImplemented == Spec => ImplementsKeyMap
<1>1. Init => KM!Init
  <2> SUFFICES ASSUME Init
               PROVE  KM!Init
    OBVIOUS
  <2>1. /\ ent = [c \in {} |-> 0] /\ DOMAIN ent = {}
        /\ pc = "idle" /\ asked = <<>> /\ ret = "none" /\ out = "none"
    BY DEF Init, NoFun
  <2>2. Contents = [k \in {} |-> 0]
    BY <2>1, ContentsIs DEF MapOf
  <2> QED BY <2>1, <2>2 DEF KM!Init
<1>2. Inv /\ Inv' /\ [Next]_vars => [KM!Next]_(KM!vars)
  BY KeyMapStep
<1> QED BY <1>1, <1>2, Invariance, PTL DEF Spec, ImplementsKeyMap, KM!Spec
=============================================================================
